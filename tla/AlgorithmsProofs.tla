-------------------------- MODULE AlgorithmsProofs --------------------------
(****************************************************************************)
(* The pure algorithms.  Ranges of addresses: one is the interval that its *)
(* mask cuts out, whatever the width of an address; what it expands to     *)
(* lies inside it, and leaves out its two borders only; and two ranges are *)
(* nested or have no address in common.  Of the powers of two that the     *)
(* sizes are, it is used only that they are positive and that the larger   *)
(* is a multiple of the smaller.  Scores: bounded and monotone, for every  *)
(* policy with weights that are numbers.  Versions: compareVersions orders *)
(* them, whatever their length and letters; a range of the catalogue is    *)
(* convex in that order; the verdict on a vulnerability is the strongest   *)
(* of its rows, and says of a release whether a row covers it.             *)
(****************************************************************************)
EXTENDS Addresses, RiskScoring, Matching, FiniteSetTheorems, FunctionTheorems,
    WellFoundedInduction, TLAPS

-----------------------------------------------------------------------------
(* Addresses *)

Positive(range) == Size(range) \in Nat \ {0}

\* The mask clears the remainder.
LEMMA QuotientTimes ==
    ASSUME NEW b \in Nat, NEW s \in Nat \ {0}
    PROVE  b \div s \in Nat /\ (b \div s) * s <= b /\ b < (b \div s) * s + s
<1>1. b = s * (b \div s) + (b % s) /\ (b % s) \in 0..(s - 1) /\ b \div s \in Nat
  BY SMT
<1> QED
  BY <1>1, SMT

\* A number lies between one pair of neighbouring multiples.
LEMMA OneQuotient ==
    ASSUME NEW q \in Nat, NEW p \in Nat, NEW s \in Nat \ {0}, NEW a \in Nat,
           q * s <= a, a < q * s + s, p * s <= a, a < p * s + s
    PROVE  p = q
<1>1. CASE p < q
  <2>1. q * s = p * s + (q - p) * s
    BY SMT
  <2>2. (q - p) * s >= s
    BY <1>1, SMT
  <2> QED
    BY <2>1, <2>2, SMT
<1>2. CASE q < p
  <2>1. p * s = q * s + (p - q) * s
    BY SMT
  <2>2. (p - q) * s >= s
    BY <1>2, SMT
  <2> QED
    BY <2>1, <2>2, SMT
<1> QED
  BY <1>1, <1>2

LEMMA TimesIsMonotone ==
    ASSUME NEW p \in Nat, NEW q \in Nat, NEW s \in Nat, p <= q
    PROVE  p * s <= q * s
<1>1. q - p \in Nat /\ q * s = p * s + (q - p) * s
  BY SMT
<1>2. (q - p) * s \in Nat /\ p * s \in Nat
  BY <1>1, SMT
<1> QED
  BY <1>1, <1>2

Interval(range) == Network(range)..(Network(range) + Size(range) - 1)

\* ipv4.ts:66: the O(1) test is membership of the range.
THEOREM InRangeIsMembership ==
    ASSUME NEW range, range.base \in Nat, Positive(range), NEW ip \in Nat
    PROVE  IsIpv4InCidr(ip, range) <=> ip \in Interval(range)
<1> DEFINE s == Size(range)
           q == range.base \div s
           p == ip \div s
<1>1. s \in Nat \ {0}
  BY DEF Positive
<1>2. q \in Nat /\ p \in Nat /\ p * s <= ip /\ ip < p * s + s
  BY <1>1, QuotientTimes
<1>3. Network(range) = q * s /\ (IsIpv4InCidr(ip, range) <=> p * s = q * s)
  BY DEF Network, Masked, IsIpv4InCidr
<1>4. q * s \in Nat
  BY <1>1, <1>2, SMT
<1>5. ip \in Interval(range) <=> q * s <= ip /\ ip < q * s + s
  BY <1>1, <1>3, <1>4 DEF Interval
<1> HIDE DEF s, q, p
<1>6. q * s <= ip /\ ip < q * s + s => p = q
  BY <1>1, <1>2, OneQuotient
<1> QED
  BY <1>2, <1>3, <1>5, <1>6

LEMMA NetworkIsNat ==
    ASSUME NEW range, range.base \in Nat, Positive(range)
    PROVE  Network(range) \in Nat
<1>1. range.base \div Size(range) \in Nat
  BY QuotientTimes DEF Positive
<1> QED
  BY <1>1, SMT DEF Network, Masked, Positive

\* SAFE-01: no address is planned from a range that the worker would find
\* outside it (scans.ts:255 and process-scan-run.ts:117).
THEOREM ExpansionIsInRange ==
    ASSUME NEW range, range.base \in Nat, range.prefix \in Nat, Positive(range),
           NEW ip \in ExpandCidr(range).addresses
    PROVE  IsIpv4InCidr(ip, range)
<1>1. Network(range) \in Nat /\ Size(range) \in Nat \ {0}
  BY NetworkIsNat DEF Positive
<1>2. ip \in Nat /\ ip \in Interval(range)
  BY <1>1, AddressAssumption DEF ExpandCidr, Expansion, Interval
<1> QED
  BY <1>2, InRangeIsMembership

\* SAFE-08: a plan that does not say it was cut has every address of its
\* range but the network and the broadcast address.
THEOREM ExpansionIsComplete ==
    ASSUME NEW range, range.base \in Nat, range.prefix \in Nat, Positive(range),
           ~ExpandCidr(range).truncated, NEW ip \in Nat, IsIpv4InCidr(ip, range)
    PROVE  ip \in ExpandCidr(range).addresses \cup Borders(range)
<1>1. Network(range) \in Nat /\ Size(range) \in Nat \ {0}
  BY NetworkIsNat DEF Positive
<1>2. ip \in Interval(range)
  BY InRangeIsMembership
<1>3. CASE range.prefix >= Width - 1
  BY <1>2, <1>3 DEF ExpandCidr, Expansion, Interval
<1>4. CASE ~(range.prefix >= Width - 1)
  <2>1. ~(Size(range) - 2 > MaxExpandedAddresses)
    BY <1>4 DEF ExpandCidr, Expansion
  <2>2. \/ ip = Network(range) \/ ip = Network(range) + Size(range) - 1
        \/ ip \in (Network(range) + 1)..(Network(range) + (Size(range) - 2))
    BY <1>1, <1>2 DEF Interval
  <2>3. CASE ip = Network(range) \/ ip = Network(range) + Size(range) - 1
    BY <1>4, <2>3 DEF Borders
  <2>4. CASE ip \in (Network(range) + 1)..(Network(range) + (Size(range) - 2))
    <3>1. (IF Size(range) - 2 < MaxExpandedAddresses THEN Size(range) - 2
           ELSE MaxExpandedAddresses) = Size(range) - 2
      BY <1>1, <2>1, AddressAssumption
    <3> QED
      BY <1>4, <2>4, <3>1 DEF ExpandCidr, Expansion
  <2> QED
    BY <2>2, <2>3, <2>4
<1> QED
  BY <1>3, <1>4

\* Two ranges are nested or disjoint, so a rule that excludes part of a range
\* excludes a range, and overlapping scopes share a whole one.
THEOREM RangesNest ==
    ASSUME NEW outer, NEW inner, outer.base \in Nat, inner.base \in Nat,
           Positive(outer), Positive(inner),
           NEW k \in Nat \ {0}, Size(outer) = k * Size(inner),
           NEW ip \in Nat, IsIpv4InCidr(ip, outer), IsIpv4InCidr(ip, inner),
           NEW other \in Nat, IsIpv4InCidr(other, inner)
    PROVE  IsIpv4InCidr(other, outer)
<1> DEFINE s == Size(inner)
           t == Size(outer)
           q == outer.base \div t
           p == inner.base \div s
<1>1. s \in Nat \ {0} /\ t \in Nat \ {0} /\ t = k * s
  BY DEF Positive
<1>2. q \in Nat /\ p \in Nat
  BY <1>1, QuotientTimes
<1>3. Network(outer) = q * t /\ Network(inner) = p * s
  BY DEF Network, Masked
<1>4. ip \in Interval(outer) /\ ip \in Interval(inner) /\ other \in Interval(inner)
  BY InRangeIsMembership
<1>5. q * t \in Nat /\ p * s \in Nat
  BY <1>1, <1>2, SMT
<1>6. /\ q * t <= ip /\ ip < q * t + t
      /\ p * s <= ip /\ ip < p * s + s
      /\ p * s <= other /\ other < p * s + s
  BY <1>1, <1>3, <1>4, <1>5 DEF Interval
<1> DEFINE a == q * t
           b == p * s
<1> HIDE DEF s, t, q, p
<1>7. /\ a = (q * k) * s /\ q * k \in Nat
      /\ a + t = (q * k + k) * s /\ b + s = (p + 1) * s
  BY <1>1, <1>2, SMT DEF a, b
<1>8. /\ a \in Nat /\ b \in Nat /\ a <= ip /\ ip < a + t /\ b <= ip /\ ip < b + s
      /\ b <= other /\ other < b + s
  BY <1>5, <1>6 DEF a, b
<1>9. a <= b
  <2>1. ASSUME p + 1 <= q * k PROVE FALSE
    <3>1. b + s <= a
      BY <1>1, <1>2, <1>7, <2>1, TimesIsMonotone
    <3> HIDE DEF a, b
    <3> QED
      BY <1>1, <1>8, <3>1
  <2>2. q * k <= p
    BY <1>2, <1>7, <2>1
  <2>3. (q * k) * s <= p * s
    BY <1>1, <1>2, <1>7, <2>2, TimesIsMonotone
  <2> QED
    BY <1>7, <2>3 DEF b
<1>10. b + s <= a + t
  <2>1. ASSUME q * k + k <= p PROVE FALSE
    <3>1. (q * k + k) * s <= p * s
      BY <1>1, <1>2, <1>7, <2>1, TimesIsMonotone
    <3>2. a + t <= b
      BY <1>7, <3>1 DEF b
    <3> HIDE DEF a, b
    <3> QED
      BY <1>1, <1>8, <3>2
  <2>2. p + 1 <= q * k + k
    BY <1>2, <1>7, <2>1
  <2>3. (p + 1) * s <= (q * k + k) * s
    BY <1>1, <1>2, <1>7, <2>2, TimesIsMonotone
  <2> QED
    BY <1>7, <2>3
<1> HIDE DEF a, b
<1>11. a <= other /\ other < a + t
  BY <1>1, <1>8, <1>9, <1>10
<1>12. other \in Interval(outer)
  BY <1>1, <1>3, <1>8, <1>11 DEF Interval, t, a
<1> QED
  BY <1>12, InRangeIsMembership

-----------------------------------------------------------------------------
(* Scores *)

\* What a policy and the factors of an issue have to be.
Usable(f, w) ==
    /\ f.base \in Nat /\ f.probability \in Nat
    /\ w.knownExploited \in Nat /\ w.probabilityBase \in Nat /\ w.probabilityScale \in Nat
    /\ w.exposure[f.exposure] \in Nat
    /\ w.criticality[f.criticality] \in Nat
    /\ w.confidence[f.tier] \in Nat

IssuesOK(open) ==
    /\ IsFiniteSet(open)
    /\ \A i \in open : i.score \in 0..(100 * Unit)

LEMMA UnitIs == Unit \in Nat /\ Unit > 0
  BY SMT DEF Unit

-----------------------------------------------------------------------------
\* clamp stays between its bounds, and is monotone.
LEMMA ClampBounds ==
    ASSUME NEW x \in Int, NEW low \in Int, NEW high \in Int, low <= high
    PROVE  Clamp(x, low, high) \in low..high
  BY DEF Clamp

LEMMA ClampMonotone ==
    ASSUME NEW x \in Int, NEW y \in Int, NEW low \in Int, NEW high \in Int,
           low <= high, x <= y
    PROVE  Clamp(x, low, high) <= Clamp(y, low, high)
  BY DEF Clamp

LEMMA ProductNat ==
    ASSUME NEW a \in Nat, NEW b \in Nat
    PROVE  a * b \in Nat
  OBVIOUS

LEMMA ProductMonotone ==
    ASSUME NEW a \in Nat, NEW b \in Nat, NEW c \in Nat, NEW d \in Nat, a <= b, c <= d
    PROVE  a * c <= b * d
  <1>1. PICK k \in Nat : b = a + k
    <2>1. b - a \in Nat /\ b = a + (b - a)
      OBVIOUS
    <2> QED BY <2>1
  <1>2. PICK l \in Nat : d = c + l
    <2>1. d - c \in Nat /\ d = c + (d - c)
      OBVIOUS
    <2> QED BY <2>1
  <1>3. (a + k) * c = a * c + k * c
    OBVIOUS
  <1>4. b * (c + l) = b * c + b * l
    OBVIOUS
  <1>5. a * c \in Nat /\ k * c \in Nat /\ b * c \in Nat /\ b * l \in Nat
    BY ProductNat
  <1>6. a * c <= b * c
    BY <1>1, <1>3, <1>5
  <1>7. b * c <= b * d
    BY <1>2, <1>4, <1>5
  <1>8. b * d \in Nat
    BY ProductNat
  <1> QED BY <1>5, <1>6, <1>7, <1>8

-----------------------------------------------------------------------------
\* Each factor is a natural number, and so is their product.
LEMMA FactorsAreNat ==
    ASSUME NEW f, NEW w, Usable(f, w)
    PROVE  /\ Clamp(f.base, 0, 100) \in Nat
           /\ ExploitMultiplier(f, w) \in Nat
           /\ RunningScore(f, w) \in Nat
  <1>1. Clamp(f.base, 0, 100) \in Nat
    BY DEF Usable, Clamp
  <1>2. ExploitMultiplier(f, w) \in Nat
    <2>1. f.probability * w.probabilityScale \in Nat
      BY ProductNat DEF Usable
    <2> QED BY <2>1 DEF Usable, ExploitMultiplier
  <1>3. Clamp(f.base, 0, 100) * ExploitMultiplier(f, w) \in Nat
    BY <1>1, <1>2, ProductNat
  <1>4. Clamp(f.base, 0, 100) * ExploitMultiplier(f, w) * w.exposure[f.exposure] \in Nat
    BY <1>3, ProductNat DEF Usable
  <1>5. Clamp(f.base, 0, 100) * ExploitMultiplier(f, w) * w.exposure[f.exposure]
            * w.criticality[f.criticality] \in Nat
    BY <1>4, ProductNat DEF Usable
  <1>6. RunningScore(f, w) \in Nat
    BY <1>5, ProductNat DEF Usable, RunningScore
  <1> QED BY <1>1, <1>2, <1>6

\* SCORE 2.2: whatever the weights of the policy, the score is between 0 and
\* 100 (risk-scoring.ts:218).
THEOREM ScoreIsBounded ==
    ASSUME NEW f, NEW w, Usable(f, w)
    PROVE  TotalScore(f, w) \in 0..(100 * Unit)
  <1>1. RunningScore(f, w) \in Int
    BY FactorsAreNat
  <1>2. Clamp(RunningScore(f, w), 0, 100 * Unit) \in 0..(100 * Unit)
    BY <1>1, UnitIs DEF Clamp
  <1> QED BY <1>2 DEF TotalScore

\* An issue that is no less in any factor has no lower score: a ranking by
\* score never puts the graver of two issues behind.
THEOREM ScoreIsMonotone ==
    ASSUME NEW f, NEW g, NEW w, Usable(f, w), Usable(g, w),
           f.base <= g.base,
           ExploitMultiplier(f, w) <= ExploitMultiplier(g, w),
           w.exposure[f.exposure] <= w.exposure[g.exposure],
           w.criticality[f.criticality] <= w.criticality[g.criticality],
           w.confidence[f.tier] <= w.confidence[g.tier]
    PROVE  TotalScore(f, w) <= TotalScore(g, w)
  <1> DEFINE a == Clamp(f.base, 0, 100)
             b == Clamp(g.base, 0, 100)
             p == ExploitMultiplier(f, w)
             q == ExploitMultiplier(g, w)
             x == w.exposure[f.exposure]
             y == w.exposure[g.exposure]
             s == w.criticality[f.criticality]
             t == w.criticality[g.criticality]
             u == w.confidence[f.tier]
             v == w.confidence[g.tier]
  <1>1. /\ a \in Nat /\ b \in Nat /\ p \in Nat /\ q \in Nat /\ x \in Nat /\ y \in Nat
        /\ s \in Nat /\ t \in Nat /\ u \in Nat /\ v \in Nat
    BY FactorsAreNat DEF Usable
  <1>2. a <= b
    <2>1. f.base \in Int /\ g.base \in Int
      BY DEF Usable
    <2> QED BY <2>1, ClampMonotone
  <1>3. p <= q /\ x <= y /\ s <= t /\ u <= v
    OBVIOUS
  <1>4. /\ RunningScore(f, w) = a * p * x * s * u
        /\ RunningScore(g, w) = b * q * y * t * v
    BY DEF RunningScore
  <1> HIDE DEF a, b, p, q, x, y, s, t, u, v
  <1>5. a * p \in Nat /\ b * q \in Nat /\ a * p <= b * q
    BY <1>1, <1>2, <1>3, ProductNat, ProductMonotone
  <1>6. a * p * x \in Nat /\ b * q * y \in Nat /\ a * p * x <= b * q * y
    BY <1>1, <1>3, <1>5, ProductNat, ProductMonotone
  <1>7. a * p * x * s \in Nat /\ b * q * y * t \in Nat /\ a * p * x * s <= b * q * y * t
    BY <1>1, <1>3, <1>6, ProductNat, ProductMonotone
  <1>8. /\ a * p * x * s * u \in Nat /\ b * q * y * t * v \in Nat
        /\ a * p * x * s * u <= b * q * y * t * v
    BY <1>1, <1>3, <1>7, ProductNat, ProductMonotone
  <1>9. RunningScore(f, w) \in Int /\ RunningScore(g, w) \in Int
    BY <1>4, <1>8
  <1>10. RunningScore(f, w) <= RunningScore(g, w)
    BY <1>4, <1>8
  <1>11. Clamp(RunningScore(f, w), 0, 100 * Unit) <= Clamp(RunningScore(g, w), 0, 100 * Unit)
    BY <1>9, <1>10, UnitIs, ClampMonotone
  <1> QED BY <1>11 DEF TotalScore

\* SCORE-03: under a policy whose multiplier for known exploitation is no less
\* than the one for certain exploitation, an issue that becomes known to be
\* exploited has no lower score.
THEOREM KnownExploitedNeverLowers ==
    ASSUME NEW f, NEW g, NEW w, Usable(f, w), Usable(g, w),
           ~f.knownExploited, g.knownExploited, f.probability <= 10,
           w.knownExploited >= w.probabilityBase + w.probabilityScale,
           g.base = f.base, g.exposure = f.exposure, g.criticality = f.criticality,
           g.tier = f.tier
    PROVE  TotalScore(f, w) <= TotalScore(g, w)
  <1>1. f.probability * w.probabilityScale <= 10 * w.probabilityScale
    BY ProductMonotone DEF Usable
  <1>2. f.probability * w.probabilityScale \in Nat
    BY ProductNat DEF Usable
  <1>3. ExploitMultiplier(f, w) <= ExploitMultiplier(g, w)
    BY <1>1, <1>2 DEF Usable, ExploitMultiplier
  <1> QED BY <1>3, ScoreIsMonotone DEF Usable

-----------------------------------------------------------------------------
\* risk-scoring.ts:26: whichever order the bands of a policy come in, a score
\* has one band of the shipped five, and a higher score no lower one.
THEOREM BandIsByThreshold ==
    ASSUME NEW score \in Nat
    PROVE  /\ RiskBandIs(score, DefaultRiskBands, "critical") <=> score >= 90 * Unit
           /\ RiskBandIs(score, DefaultRiskBands, "high") <=>
                 score \in (70 * Unit)..(90 * Unit - 1)
           /\ RiskBandIs(score, DefaultRiskBands, "medium") <=>
                 score \in (40 * Unit)..(70 * Unit - 1)
           /\ RiskBandIs(score, DefaultRiskBands, "low") <=>
                 score \in (15 * Unit)..(40 * Unit - 1)
           /\ RiskBandIs(score, DefaultRiskBands, "informational") <=> score < 15 * Unit
  BY UnitIs DEF RiskBandIs, DefaultRiskBands, Reaches

-----------------------------------------------------------------------------
LEMMA HighFinite ==
    ASSUME NEW open, IssuesOK(open)
    PROVE  IsFiniteSet(HighOrAbove(open)) /\ Cardinality(HighOrAbove(open)) \in Nat
  <1>1. HighOrAbove(open) \subseteq open
    BY DEF HighOrAbove
  <1> QED BY <1>1, FS_Subset, FS_CardinalityType DEF IssuesOK

LEMMA BonusBounds ==
    ASSUME NEW open, IssuesOK(open)
    PROVE  BreadthBonus(open) \in 0..(10 * Unit)
  <1>1. CASE HighOrAbove(open) = {}
    BY <1>1, UnitIs DEF BreadthBonus
  <1>2. CASE HighOrAbove(open) # {}
    <2>1. Clamp(2 * (Cardinality(HighOrAbove(open)) - 1), 0, 10) \in 0..10
      BY HighFinite DEF Clamp
    <2> QED BY <1>2, <2>1, UnitIs DEF BreadthBonus
  <1> QED BY <1>1, <1>2

\* More issues, no smaller bonus.
LEMMA BonusMonotone ==
    ASSUME NEW open, NEW more, IssuesOK(open), IssuesOK(more), open \subseteq more
    PROVE  BreadthBonus(open) <= BreadthBonus(more)
  <1>1. CASE HighOrAbove(open) = {}
    <2>1. BreadthBonus(open) = 0
      BY <1>1 DEF BreadthBonus
    <2> QED BY <2>1, BonusBounds, UnitIs
  <1>2. CASE HighOrAbove(open) # {}
    <2> DEFINE c == Cardinality(HighOrAbove(open))
               d == Cardinality(HighOrAbove(more))
    <2>1. HighOrAbove(open) \subseteq HighOrAbove(more)
      BY DEF HighOrAbove
    <2>2. c \in Nat /\ d \in Nat /\ c <= d
      BY <2>1, HighFinite, FS_Subset
    <2>3. HighOrAbove(more) # {}
      BY <1>2, <2>1
    <2> HIDE DEF c, d
    <2>4. 2 * (c - 1) \in Int /\ 2 * (d - 1) \in Int /\ 2 * (c - 1) <= 2 * (d - 1)
      BY <2>2
    <2>5. Clamp(2 * (c - 1), 0, 10) <= Clamp(2 * (d - 1), 0, 10)
      BY <2>4, ClampMonotone
    <2>6. Clamp(2 * (c - 1), 0, 10) \in 0..10 /\ Clamp(2 * (d - 1), 0, 10) \in 0..10
      BY <2>4 DEF Clamp
    <2>7. /\ BreadthBonus(open) = Clamp(2 * (c - 1), 0, 10) * Unit
          /\ BreadthBonus(more) = Clamp(2 * (d - 1), 0, 10) * Unit
      BY <1>2, <2>3 DEF BreadthBonus, c, d
    <2> QED BY <2>5, <2>6, <2>7, UnitIs
  <1> QED BY <1>1, <1>2

\* SCORE-06: the rating of an asset is between 0 and 100, no lower than the
\* score of any of its open issues, and at least 90 when one of them is known
\* to be exploited (risk-scoring.ts:296-299).
THEOREM RatingCoversIssues ==
    ASSUME NEW open, IssuesOK(open), NEW m, IsMaxRisk(open, m)
    PROVE  /\ RatingWith(open, m) \in 0..(100 * Unit)
           /\ \A i \in open : i.score <= RatingWith(open, m)
           /\ (\E i \in open : i.knownExploited) => RatingWith(open, m) >= 90 * Unit
  <1> DEFINE plain == Clamp(m + BreadthBonus(open), 0, 100 * Unit)
  <1>1. m \in 0..(100 * Unit)
    BY DEF IsMaxRisk, IssuesOK
  <1>2. BreadthBonus(open) \in 0..(10 * Unit)
    BY BonusBounds
  <1>3. plain \in 0..(100 * Unit) /\ m <= plain
    BY <1>1, <1>2, UnitIs DEF Clamp
  <1>4. \A i \in open : i.score \in Int /\ i.score <= m
    BY DEF IsMaxRisk, IssuesOK
  <1>5. RatingWith(open, m) = IF (\E i \in open : i.knownExploited) /\ plain < 90 * Unit
                             THEN 90 * Unit ELSE plain
    BY DEF RatingWith
  <1> HIDE DEF plain
  <1> QED BY <1>1, <1>3, <1>4, <1>5, UnitIs

\* The rating never falls when an issue is opened: only what leaves the open
\* issues, or a lower score, can lower it.
THEOREM RatingIsMonotone ==
    ASSUME NEW open, NEW more, IssuesOK(open), IssuesOK(more), open \subseteq more,
           NEW m, NEW n, IsMaxRisk(open, m), IsMaxRisk(more, n)
    PROVE  RatingWith(open, m) <= RatingWith(more, n)
  <1> DEFINE a == Clamp(m + BreadthBonus(open), 0, 100 * Unit)
             b == Clamp(n + BreadthBonus(more), 0, 100 * Unit)
             j == \E i \in open : i.knownExploited
             k == \E i \in more : i.knownExploited
  <1>1. m \in Int /\ n \in Int /\ m <= n
    BY DEF IsMaxRisk, IssuesOK
  <1>2. /\ BreadthBonus(open) \in Int /\ BreadthBonus(more) \in Int
        /\ BreadthBonus(open) <= BreadthBonus(more)
    BY BonusBounds, BonusMonotone
  <1>3. /\ m + BreadthBonus(open) \in Int /\ n + BreadthBonus(more) \in Int
        /\ m + BreadthBonus(open) <= n + BreadthBonus(more)
    BY <1>1, <1>2
  <1>4. 100 * Unit \in Int /\ 0 <= 100 * Unit
    BY UnitIs
  <1>5. a <= b
    BY <1>3, <1>4, ClampMonotone
  <1>6. a \in Int /\ b \in Int
    BY <1>3, <1>4, ClampBounds
  <1>7. j => k
    OBVIOUS
  <1>8. /\ RatingWith(open, m) = IF j /\ a < 90 * Unit THEN 90 * Unit ELSE a
        /\ RatingWith(more, n) = IF k /\ b < 90 * Unit THEN 90 * Unit ELSE b
    BY DEF RatingWith
  <1> HIDE DEF a, b, j, k
  <1> QED BY <1>5, <1>6, <1>7, <1>8, UnitIs

-----------------------------------------------------------------------------
(* Versions *)

ParsedVersions ==
    [parsed : {TRUE}, segments : Seq(Nat), letter : Seq(Nat), pre : BOOLEAN,
     revision : BOOLEAN]

Places == Nat \ {0}

-----------------------------------------------------------------------------
(* Lexicographic order *)

\* The first of finitely many places.
LEMMA FirstPlace ==
    ASSUME NEW N \in Nat, NEW S \in SUBSET (1..N), S # {}
    PROVE  \E n \in S : \A k \in S : n <= k
<1> DEFINE Before(n) == 1..(n - 1)
           T == {B \in SUBSET (1..N) : \E n \in S : B = Before(n)}
<1>0. IsFiniteSet(1..N)
  BY FS_Interval
<1>1. IsWellFoundedOn(StrictSubsetOrdering(1..N), SUBSET (1..N))
  BY <1>0, FS_StrictSubsetOrderingWellFounded, FS_FiniteSubsetsOfFinite
<1>2. \A n \in S : Before(n) \in T
  OBVIOUS
<1>3. T \subseteq SUBSET (1..N) /\ T # {}
  BY <1>2
<1>4. PICK B \in T : \A C \in T : <<C, B>> \notin StrictSubsetOrdering(1..N)
  BY <1>1, <1>3, WFMin
<1>5. PICK n \in S : B = Before(n)
  OBVIOUS
<1>6. ASSUME NEW k \in S, ~(n <= k) PROVE FALSE
  <2>1. k \in Before(n) /\ k \notin Before(k) /\ Before(k) \subseteq Before(n)
    BY <1>6
  <2> QED
    BY <1>2, <1>4, <1>5, <2>1 DEF StrictSubsetOrdering
<1> QED
  BY <1>5, <1>6

\* A missing segment is zero.
LEMMA SegmentType ==
    ASSUME NEW a \in ParsedVersions, NEW n \in Places
    PROVE  Segment(a, n) \in Nat /\ (n > Len(a.segments) => Segment(a, n) = 0)
<1>1. a.segments \in Seq(Nat)
  BY DEF ParsedVersions
<1> QED
  BY <1>1 DEF Segment, Places

\* The code's bound on the places compared leaves none out.
LEMMA SegmentsEarlierIs ==
    ASSUME NEW a \in ParsedVersions, NEW b \in ParsedVersions
    PROVE  SegmentsEarlier(a, b) <=>
              \E n \in Places : /\ Segment(a, n) < Segment(b, n)
                                /\ \A k \in Places : k < n => Segment(a, k) = Segment(b, k)
<1>1. Len(b.segments) \in Nat
  BY DEF ParsedVersions
<1>2. ASSUME NEW n \in Places, Segment(a, n) < Segment(b, n)
      PROVE  n \in 1..Len(b.segments)
  <2>1. Segment(a, n) \in Nat /\ (n > Len(b.segments) => Segment(b, n) = 0)
    BY SegmentType
  <2> QED
    BY <1>1, <1>2, <2>1 DEF Places
<1>3. \A n \in Places : \A k : k \in 1..(n - 1) <=> k \in Places /\ k < n
  BY DEF Places
<1>4. 1..Len(b.segments) \subseteq Places
  BY <1>1 DEF Places
<1> QED
  BY <1>2, <1>3, <1>4 DEF SegmentsEarlier

LEMMA SameSegmentsIs ==
    ASSUME NEW a \in ParsedVersions, NEW b \in ParsedVersions
    PROVE  SameSegments(a, b) <=> \A n \in Places : Segment(a, n) = Segment(b, n)
<1>1. Len(a.segments) \in Nat /\ Len(b.segments) \in Nat
  BY DEF ParsedVersions
<1>2. \A n \in Places :
        n \in 1..Len(a.segments) \/ n \in 1..Len(b.segments)
          \/ (Segment(a, n) = 0 /\ Segment(b, n) = 0)
  BY <1>1, SegmentType DEF Places
<1>3. 1..Len(a.segments) \subseteq Places /\ 1..Len(b.segments) \subseteq Places
  BY <1>1 DEF Places
<1> QED
  BY <1>2, <1>3 DEF SameSegments

\* One of three: earlier, later, or the same segments.
LEMMA SegmentsAreOrdered ==
    ASSUME NEW a \in ParsedVersions, NEW b \in ParsedVersions
    PROVE  /\ SegmentsEarlier(a, b) \/ SameSegments(a, b) \/ SegmentsEarlier(b, a)
           /\ ~(SegmentsEarlier(a, b) /\ SameSegments(a, b))
           /\ ~(SegmentsEarlier(a, b) /\ SegmentsEarlier(b, a))
<1>0. \A n \in Places : Segment(a, n) \in Nat /\ Segment(b, n) \in Nat
  BY SegmentType
<1>1. ASSUME ~SameSegments(a, b)
      PROVE  SegmentsEarlier(a, b) \/ SegmentsEarlier(b, a)
  <2> DEFINE N == IF Len(a.segments) < Len(b.segments) THEN Len(b.segments)
                  ELSE Len(a.segments)
             S == {n \in 1..N : Segment(a, n) # Segment(b, n)}
  <2>1. Len(a.segments) \in Nat /\ Len(b.segments) \in Nat /\ N \in Nat
    BY DEF ParsedVersions
  <2>2. \A k \in Places : k \notin 1..N => Segment(a, k) = Segment(b, k)
    BY <2>1, SegmentType DEF Places
  <2>3. PICK m \in Places : Segment(a, m) # Segment(b, m)
    BY <1>1, SameSegmentsIs
  <2>4. m \in S
    BY <2>2, <2>3
  <2>5. PICK n \in S : \A k \in S : n <= k
    BY <2>1, <2>4, FirstPlace
  <2>6. n \in Places /\ Segment(a, n) # Segment(b, n)
    BY <2>1 DEF Places
  <2>7. \A k \in Places : k < n => Segment(a, k) = Segment(b, k)
    BY <2>2, <2>5, <2>6 DEF Places
  <2>8. Segment(a, n) < Segment(b, n) \/ Segment(b, n) < Segment(a, n)
    BY <1>0, <2>6
  <2> QED
    BY <2>6, <2>7, <2>8, SegmentsEarlierIs
<1>2. ~(SegmentsEarlier(a, b) /\ SameSegments(a, b))
  BY <1>0, SegmentsEarlierIs, SameSegmentsIs
<1>3. ASSUME SegmentsEarlier(a, b), SegmentsEarlier(b, a) PROVE FALSE
  <2>1. PICK n \in Places : /\ Segment(a, n) < Segment(b, n)
                            /\ \A k \in Places : k < n => Segment(a, k) = Segment(b, k)
    BY <1>3, SegmentsEarlierIs
  <2>2. PICK m \in Places : /\ Segment(b, m) < Segment(a, m)
                            /\ \A k \in Places : k < m => Segment(b, k) = Segment(a, k)
    BY <1>3, SegmentsEarlierIs
  <2>3. n < m \/ m < n \/ n = m
    BY DEF Places
  <2> QED
    BY <1>0, <2>1, <2>2, <2>3
<1> QED
  BY <1>1, <1>2, <1>3

LEMMA SegmentsCompose ==
    ASSUME NEW a \in ParsedVersions, NEW b \in ParsedVersions, NEW c \in ParsedVersions
    PROVE  /\ SegmentsEarlier(a, b) /\ SegmentsEarlier(b, c) => SegmentsEarlier(a, c)
           /\ SegmentsEarlier(a, b) /\ SameSegments(b, c) => SegmentsEarlier(a, c)
           /\ SameSegments(a, b) /\ SegmentsEarlier(b, c) => SegmentsEarlier(a, c)
           /\ SameSegments(a, b) /\ SameSegments(b, c) => SameSegments(a, c)
<1>0. \A n \in Places :
        Segment(a, n) \in Nat /\ Segment(b, n) \in Nat /\ Segment(c, n) \in Nat
  BY SegmentType
<1>1. ASSUME SegmentsEarlier(a, b), SegmentsEarlier(b, c) PROVE SegmentsEarlier(a, c)
  <2>1. PICK n \in Places : /\ Segment(a, n) < Segment(b, n)
                            /\ \A k \in Places : k < n => Segment(a, k) = Segment(b, k)
    BY <1>1, SegmentsEarlierIs
  <2>2. PICK m \in Places : /\ Segment(b, m) < Segment(c, m)
                            /\ \A k \in Places : k < m => Segment(b, k) = Segment(c, k)
    BY <1>1, SegmentsEarlierIs
  <2>3. CASE n < m
    <3>1. Segment(a, n) < Segment(c, n)
      BY <2>1, <2>2, <2>3
    <3>2. \A k \in Places : k < n => Segment(a, k) = Segment(c, k)
      BY <2>1, <2>2, <2>3 DEF Places
    <3> QED
      BY <3>1, <3>2, SegmentsEarlierIs
  <2>4. CASE ~(n < m)
    <3>1. Segment(a, m) < Segment(c, m)
      <4>1. n = m \/ m < n
        BY <2>4 DEF Places
      <4> QED
        BY <1>0, <2>1, <2>2, <4>1
    <3>2. \A k \in Places : k < m => Segment(a, k) = Segment(c, k)
      BY <2>1, <2>2, <2>4 DEF Places
    <3> QED
      BY <3>1, <3>2, SegmentsEarlierIs
  <2> QED
    BY <2>3, <2>4
<1>2. SegmentsEarlier(a, b) /\ SameSegments(b, c) => SegmentsEarlier(a, c)
  BY SegmentsEarlierIs, SameSegmentsIs
<1>3. SameSegments(a, b) /\ SegmentsEarlier(b, c) => SegmentsEarlier(a, c)
  BY SegmentsEarlierIs, SameSegmentsIs
<1>4. SameSegments(a, b) /\ SameSegments(b, c) => SameSegments(a, c)
  BY SameSegmentsIs
<1> QED
  BY <1>1, <1>2, <1>3, <1>4

-----------------------------------------------------------------------------
(* Letters *)

LEMMA LettersAreOrdered ==
    ASSUME NEW s \in Seq(Nat), NEW t \in Seq(Nat)
    PROVE  /\ LettersEarlier(s, t) \/ s = t \/ LettersEarlier(t, s)
           /\ ~(LettersEarlier(s, t) /\ s = t)
           /\ ~(LettersEarlier(s, t) /\ LettersEarlier(t, s))
<1>0. /\ Len(s) \in Nat /\ Len(t) \in Nat
      /\ \A n \in 1..Len(s) : s[n] \in Nat
      /\ \A n \in 1..Len(t) : t[n] \in Nat
  OBVIOUS
<1>1. ASSUME s # t, Len(s) = Len(t)
      PROVE  LettersEarlier(s, t) \/ LettersEarlier(t, s)
  <2> DEFINE S == {n \in 1..Len(t) : s[n] # t[n]}
  <2>1. S # {}
    BY <1>0, <1>1
  <2>2. PICK n \in S : \A k \in S : n <= k
    BY <1>0, <2>1, FirstPlace
  <2>3. \A k \in 1..(n - 1) : s[k] = t[k]
    BY <1>0, <2>2
  <2>4. s[n] < t[n] \/ t[n] < s[n]
    BY <1>0, <1>1
  <2> QED
    BY <1>0, <1>1, <2>3, <2>4 DEF LettersEarlier
<1>2. ASSUME s # t, Len(s) # Len(t)
      PROVE  LettersEarlier(s, t) \/ LettersEarlier(t, s)
  BY <1>0, <1>2 DEF LettersEarlier
<1>3. ~(LettersEarlier(s, t) /\ s = t)
  BY <1>0 DEF LettersEarlier
<1>4. ASSUME LettersEarlier(s, t), LettersEarlier(t, s) PROVE FALSE
  <2>1. Len(s) = Len(t)
    BY <1>0, <1>4 DEF LettersEarlier
  <2>2. PICK n \in 1..Len(t) : s[n] < t[n] /\ \A k \in 1..(n - 1) : s[k] = t[k]
    BY <1>0, <1>4, <2>1 DEF LettersEarlier
  <2>3. PICK m \in 1..Len(s) : t[m] < s[m] /\ \A k \in 1..(m - 1) : t[k] = s[k]
    BY <1>0, <1>4, <2>1 DEF LettersEarlier
  <2>4. n \in 1..(m - 1) \/ m \in 1..(n - 1) \/ n = m
    BY <1>0
  <2> QED
    BY <1>0, <2>1, <2>2, <2>3, <2>4
<1> QED
  BY <1>1, <1>2, <1>3, <1>4

LEMMA LettersCompose ==
    ASSUME NEW s \in Seq(Nat), NEW t \in Seq(Nat), NEW u \in Seq(Nat),
           LettersEarlier(s, t), LettersEarlier(t, u)
    PROVE  LettersEarlier(s, u)
<1>0. /\ Len(s) \in Nat /\ Len(t) \in Nat /\ Len(u) \in Nat
      /\ \A n \in 1..Len(s) : s[n] \in Nat
      /\ \A n \in 1..Len(t) : t[n] \in Nat
      /\ \A n \in 1..Len(u) : u[n] \in Nat
  OBVIOUS
<1>1. CASE Len(s) < Len(t) \/ Len(t) < Len(u)
  BY <1>0, <1>1 DEF LettersEarlier
<1>2. CASE ~(Len(s) < Len(t)) /\ ~(Len(t) < Len(u))
  <2>1. Len(s) = Len(t) /\ Len(t) = Len(u)
    BY <1>0, <1>2 DEF LettersEarlier
  <2>2. PICK n \in 1..Len(t) : s[n] < t[n] /\ \A k \in 1..(n - 1) : s[k] = t[k]
    BY <1>0, <1>2 DEF LettersEarlier
  <2>3. PICK m \in 1..Len(u) : t[m] < u[m] /\ \A k \in 1..(m - 1) : t[k] = u[k]
    BY <1>0, <1>2 DEF LettersEarlier
  <2>4. CASE n < m
    <3>1. s[n] < u[n] /\ \A k \in 1..(n - 1) : s[k] = u[k]
      BY <1>0, <2>2, <2>3, <2>4
    <3> QED
      BY <1>0, <2>1, <3>1 DEF LettersEarlier
  <2>5. CASE n = m
    <3>1. s[n] < u[n] /\ \A k \in 1..(n - 1) : s[k] = u[k]
      <4>1. s[n] \in Nat /\ t[n] \in Nat /\ u[n] \in Nat
        BY <1>0, <2>1
      <4>2. s[n] < t[n] /\ t[n] < u[n]
        BY <2>2, <2>3, <2>5
      <4> QED
        BY <2>2, <2>3, <2>5, <4>1, <4>2
    <3> QED
      BY <1>0, <2>1, <3>1 DEF LettersEarlier
  <2>6. CASE m < n
    <3>1. s[m] < u[m] /\ \A k \in 1..(m - 1) : s[k] = u[k]
      BY <1>0, <2>2, <2>3, <2>6
    <3> QED
      BY <1>0, <2>1, <3>1 DEF LettersEarlier
  <2> QED
    BY <2>4, <2>5, <2>6
<1> QED
  BY <1>1, <1>2

-----------------------------------------------------------------------------
(* Versions *)

LEMMA ParsedFields ==
    ASSUME NEW a \in ParsedVersions
    PROVE  a.letter \in Seq(Nat) /\ a.pre \in BOOLEAN /\ a.parsed
  BY DEF ParsedVersions

\* cpe.ts:154: of two versions that can be read, whatever their length and
\* letters, one is earlier than the other or they are the same release, and
\* never two of these.
THEOREM VersionsAreOrdered ==
    ASSUME NEW a \in ParsedVersions, NEW b \in ParsedVersions
    PROVE  /\ Earlier(a, b) \/ SameRelease(a, b) \/ Earlier(b, a)
           /\ ~(Earlier(a, b) /\ SameRelease(a, b))
           /\ ~(Earlier(a, b) /\ Earlier(b, a))
<1>1. SameSegments(a, b) <=> SameSegments(b, a)
  BY DEF SameSegments
<1>2. Earlier(a, b) \/ SameRelease(a, b) \/ Earlier(b, a)
  BY <1>1, SegmentsAreOrdered, LettersAreOrdered, ParsedFields DEF Earlier, SameRelease
<1>3. ~(Earlier(a, b) /\ SameRelease(a, b))
  BY SegmentsAreOrdered, LettersAreOrdered, ParsedFields DEF Earlier, SameRelease
<1>4. ~(Earlier(a, b) /\ Earlier(b, a))
  BY <1>1, SegmentsAreOrdered, LettersAreOrdered, ParsedFields DEF Earlier
<1> QED
  BY <1>2, <1>3, <1>4

LEMMA SameReleaseSymmetric ==
    ASSUME NEW a, NEW b
    PROVE  SameRelease(a, b) <=> SameRelease(b, a)
  BY DEF SameRelease, SameSegments

\* cpe.ts:154: the order of versions is transitive, across the same release
\* written in other ways too.
THEOREM OrderIsTransitive ==
    ASSUME NEW a \in ParsedVersions, NEW b \in ParsedVersions, NEW c \in ParsedVersions
    PROVE  /\ Earlier(a, b) /\ Earlier(b, c) => Earlier(a, c)
           /\ Earlier(a, b) /\ SameRelease(b, c) => Earlier(a, c)
           /\ SameRelease(a, b) /\ Earlier(b, c) => Earlier(a, c)
<1> DEFINE LaterPart(x, y) ==
             LettersEarlier(x.letter, y.letter) \/ (x.letter = y.letter /\ x.pre /\ ~y.pre)
<1>1. LaterPart(a, b) /\ LaterPart(b, c) => LaterPart(a, c)
  BY LettersCompose, ParsedFields
<1>2. /\ Earlier(a, b) <=> SegmentsEarlier(a, b) \/ (SameSegments(a, b) /\ LaterPart(a, b))
      /\ Earlier(b, c) <=> SegmentsEarlier(b, c) \/ (SameSegments(b, c) /\ LaterPart(b, c))
      /\ Earlier(a, c) <=> SegmentsEarlier(a, c) \/ (SameSegments(a, c) /\ LaterPart(a, c))
  BY DEF Earlier
<1>3. SameRelease(b, c) => SameSegments(b, c) /\ (LaterPart(a, b) => LaterPart(a, c))
  BY DEF SameRelease
<1>4. SameRelease(a, b) => SameSegments(a, b) /\ (LaterPart(b, c) => LaterPart(a, c))
  BY DEF SameRelease
<1> HIDE DEF LaterPart
<1>5. Earlier(a, b) /\ Earlier(b, c) => Earlier(a, c)
  BY <1>1, <1>2, SegmentsCompose
<1>6. Earlier(a, b) /\ SameRelease(b, c) => Earlier(a, c)
  BY <1>2, <1>3, SegmentsCompose
<1>7. SameRelease(a, b) /\ Earlier(b, c) => Earlier(a, c)
  BY <1>2, <1>4, SegmentsCompose
<1> QED
  BY <1>5, <1>6, <1>7

-----------------------------------------------------------------------------
(* Ranges *)

\* What the catalogue and the banners write.
Legible(text) ==
    text = NoVersion \/ (text.numbers \in Seq(Nat) /\ text.letters \in Seq(Nat))

LEMMA ParseVersionType ==
    ASSUME NEW text, Legible(text), ParseVersion(text).parsed
    PROVE  ParseVersion(text) \in ParsedVersions
  BY DEF ParseVersion, Unparseable, Legible, ParsedVersions

\* cpe.ts:212: a range has no gaps. A release between two that are in it is in
\* it, so no vulnerability is fixed and broken again along one range.
THEOREM RangesAreConvex ==
    ASSUME NEW range, \A bound \in range : Legible(bound.version),
           \A bound \in range : bound.operator \in {"<", "<=", ">", ">=", "="},
           NEW u \in ParsedVersions, NEW v \in ParsedVersions, NEW w \in ParsedVersions,
           Earlier(u, v), Earlier(v, w),
           EvaluateVersionRange(u, range) = "in_range",
           EvaluateVersionRange(w, range) = "in_range"
    PROVE  EvaluateVersionRange(v, range) = "in_range"
<1>1. \A bound \in range :
        /\ ParseVersion(bound.version).parsed
        /\ Satisfies(u, bound.operator, ParseVersion(bound.version))
        /\ Satisfies(w, bound.operator, ParseVersion(bound.version))
  BY DEF EvaluateVersionRange
<1>2. range # {}
  BY DEF EvaluateVersionRange
<1>3. ASSUME NEW bound \in range
      PROVE  Satisfies(v, bound.operator, ParseVersion(bound.version))
  <2> DEFINE x == ParseVersion(bound.version)
  <2>1. x \in ParsedVersions
    BY <1>1, ParseVersionType
  <2>2. Satisfies(u, bound.operator, x) /\ Satisfies(w, bound.operator, x)
    BY <1>1
  <2> HIDE DEF x
  <2>3. CASE bound.operator = "<"
    <3>1. Earlier(w, x)
      BY <2>2, <2>3 DEF Satisfies
    <3>2. Earlier(v, x)
      BY <2>1, <3>1, OrderIsTransitive
    <3> QED
      BY <2>3, <3>2 DEF Satisfies, x
  <2>4. CASE bound.operator = "<="
    <3>1. ~Earlier(x, w)
      BY <2>2, <2>4 DEF Satisfies
    <3>2. ~Earlier(x, v)
      BY <2>1, <3>1, OrderIsTransitive
    <3> QED
      BY <2>4, <3>2 DEF Satisfies, x
  <2>5. CASE bound.operator = ">"
    <3>1. Earlier(x, u)
      BY <2>2, <2>5 DEF Satisfies
    <3>2. Earlier(x, v)
      BY <2>1, <3>1, OrderIsTransitive
    <3> QED
      BY <2>5, <3>2 DEF Satisfies, x
  <2>6. CASE bound.operator = ">="
    <3>1. ~Earlier(u, x)
      BY <2>2, <2>6 DEF Satisfies
    <3>2. ~Earlier(v, x)
      BY <2>1, <3>1, OrderIsTransitive
    <3> QED
      BY <2>6, <3>2 DEF Satisfies, x
  <2>7. CASE bound.operator = "="
    <3>1. SameRelease(u, x) /\ SameRelease(w, x)
      BY <2>2, <2>7 DEF Satisfies
    <3>2. Earlier(u, w)
      BY OrderIsTransitive
    <3>3. SameRelease(x, u)
      BY <3>1, SameReleaseSymmetric
    <3>4. SameRelease(w, u)
      BY <2>1, <3>1, <3>3, SegmentsCompose DEF SameRelease
    <3> QED
      BY <3>2, <3>4, VersionsAreOrdered, SameReleaseSymmetric
  <2> QED
    BY <2>3, <2>4, <2>5, <2>6, <2>7
<1>4. v.parsed
  BY ParsedFields
<1> QED
  BY <1>1, <1>2, <1>3, <1>4 DEF EvaluateVersionRange

-----------------------------------------------------------------------------
(* The strongest row *)

Confidences == {0, 20, 25, 40, 70}

Verdicts == [confidence : Confidences, reasons : SUBSET MatchReason]

LEMMA VerdictType ==
    ASSUME NEW s, NEW row
    PROVE  MatchServiceToCpe(s, row) \in Verdicts
<1>1. ASSUME NEW c \in Confidences, NEW reasons \in SUBSET MatchReason
      PROVE  Verdict(c, reasons) \in Verdicts
  BY DEF Verdict, Verdicts
<1>2. NoMatch \in Verdicts
  BY <1>1 DEF NoMatch, Confidences
<1>3. ASSUME NEW v, NEW reason \in MatchReason
      PROVE  WithBackportPenalty(v, reason) \in Verdicts
  <2>1. {reason} \in SUBSET MatchReason
        /\ {reason, "vendor_revision_backport_possible"} \in SUBSET MatchReason
    BY DEF MatchReason
  <2> QED
    BY <1>1, <2>1 DEF WithBackportPenalty, Confidences
<1>4. \A reason \in MatchReason : {reason} \in SUBSET MatchReason
  OBVIOUS
<1>5. /\ Verdict(20, {"product_only_no_version"}) \in Verdicts
      /\ Verdict(25, {"version_unparseable"}) \in Verdicts
      /\ Verdict(25, {"range_unparseable"}) \in Verdicts
  BY <1>1, <1>4 DEF Confidences, MatchReason
<1>6. \A v : PinnedVerdict(v, row) \in Verdicts
  BY <1>2, <1>3, <1>5 DEF PinnedVerdict, MatchReason
<1>7. \A v : RangeVerdict(v, row) \in Verdicts
  BY <1>2, <1>3, <1>5 DEF RangeVerdict, MatchReason
<1> QED
  BY <1>2, <1>5, <1>6, <1>7 DEF MatchServiceToCpe

\* Nothing is considered before a service is observed.
MatchInv ==
    /\ best \in [Vulnerabilities -> Verdicts]
    /\ considered \subseteq CatalogueRows
    /\ service = NoService => considered = {} /\ \A x \in Vulnerabilities : best[x] = NoMatch
    /\ StrongestRowDecides

LEMMA InitMatches == ASSUME MatchInit PROVE MatchInv
  BY DEF MatchInit, MatchInv, StrongestRowDecides, RowsFor, NoMatch, Verdict, Verdicts,
       Confidences

LEMMA NoServiceIsNotLooked ==
    ASSUME NEW row, service = NoService
    PROVE  row.product \notin CandidateProductNames(ProductOf(service))
  BY DEF NoService, Service, ProductOf, CandidateProductNames

LEMMA ObserveKeeps ==
    ASSUME MatchInv, NEW probe \in Probes, Observe(probe) PROVE MatchInv'
<1>1. considered' = {} /\ best' = best /\ \A x \in Vulnerabilities : best[x] = NoMatch
  BY DEF Observe, MatchInv
<1>2. StrongestRowDecides'
  BY <1>1 DEF StrongestRowDecides, RowsFor
<1> QED
  BY <1>1, <1>2 DEF MatchInv

LEMMA ConsiderKeeps ==
    ASSUME MatchInv, NEW row \in CatalogueRows, Consider(row) PROVE MatchInv'
<1> DEFINE x == row.vulnerability
           new == MatchServiceToCpe(service, row)
<1>1. x \in Vulnerabilities
  BY CatalogueAssumption
<1>2. /\ considered' = considered \cup {row} /\ service' = service
      /\ best' = [best EXCEPT ![x] = Stronger(best[x], new)]
  BY DEF Consider
<1>3. service # NoService
  BY NoServiceIsNotLooked DEF Consider
<1>4. new \in Verdicts
  BY VerdictType
<1>5. best' \in [Vulnerabilities -> Verdicts]
  BY <1>1, <1>2, <1>4 DEF MatchInv, Stronger
<1>6. ASSUME NEW y \in Vulnerabilities
      PROVE  /\ \A r \in RowsFor(y)' :
                   MatchServiceToCpe(service', r).confidence <= best'[y].confidence
             /\ \/ best'[y] = NoMatch
                \/ \E r \in RowsFor(y)' : best'[y] = MatchServiceToCpe(service', r)
  <2>1. /\ \A r \in RowsFor(y) : MatchServiceToCpe(service, r).confidence <= best[y].confidence
        /\ best[y] = NoMatch \/ \E r \in RowsFor(y) : best[y] = MatchServiceToCpe(service, r)
    BY DEF MatchInv, StrongestRowDecides
  <2>2. \A r : MatchServiceToCpe(service, r).confidence \in Int
    BY VerdictType DEF Verdicts, Confidences
  <2>3. best[y].confidence \in Int
    BY DEF MatchInv, Verdicts, Confidences
  <2>4. CASE y # x
    <3>1. RowsFor(y)' = RowsFor(y) /\ best'[y] = best[y]
      BY <1>2, <2>4 DEF RowsFor, MatchInv
    <3> QED
      BY <1>2, <2>1, <3>1
  <2>5. CASE y = x
    <3>1. RowsFor(y)' = RowsFor(y) \cup {row} /\ best'[y] = Stronger(best[y], new)
      BY <1>1, <1>2, <2>5 DEF RowsFor, MatchInv
    <3>2. CASE new.confidence > best[y].confidence
      <4>1. best'[y] = new
        BY <3>1, <3>2 DEF Stronger
      <4>2. \A r \in RowsFor(y) : MatchServiceToCpe(service, r).confidence <= new.confidence
        BY <2>1, <2>2, <2>3, <3>2
      <4> QED
        BY <1>2, <2>2, <3>1, <4>1, <4>2
    <3>3. CASE ~(new.confidence > best[y].confidence)
      <4>1. best'[y] = best[y]
        BY <3>1, <3>3 DEF Stronger
      <4>2. new.confidence <= best[y].confidence
        BY <2>2, <2>3, <3>3
      <4> QED
        BY <1>2, <2>1, <3>1, <4>1, <4>2
    <3> QED
      BY <3>2, <3>3
  <2> QED
    BY <2>4, <2>5
<1>7. StrongestRowDecides'
  BY <1>6 DEF StrongestRowDecides
<1>8. considered' \subseteq CatalogueRows
  BY <1>2 DEF MatchInv
<1> QED
  BY <1>2, <1>3, <1>5, <1>7, <1>8 DEF MatchInv

\* process-scan-run.ts:571: whatever the catalogue and the banner, and in
\* whichever order the rows are read, the verdict on each vulnerability is that
\* of its strongest row.
THEOREM StrongestRow == MatchSpec => []StrongestRowDecides
<1>1. MatchInv /\ [MatchNext]_matchVars => MatchInv'
  <2> SUFFICES ASSUME MatchInv, [MatchNext]_matchVars PROVE MatchInv'
    OBVIOUS
  <2>1. ASSUME UNCHANGED matchVars PROVE MatchInv'
    BY <2>1 DEF matchVars, MatchInv, StrongestRowDecides, RowsFor
  <2> QED
    BY <2>1, ObserveKeeps, ConsiderKeeps DEF MatchNext
<1>2. MatchInv => StrongestRowDecides
  BY DEF MatchInv
<1> QED
  BY InitMatches, <1>1, <1>2, PTL DEF MatchSpec

-----------------------------------------------------------------------------
(* What the verdicts say of a release *)

\* A version that can be read is placed among those of the releases as its
\* release is.
LEMMA PlacesAreVersions ==
    ASSUME ReleasesAreOrdered,
           NEW m \in DOMAIN Releases, NEW n \in DOMAIN Releases,
           NEW s \in Releases[m], NEW t \in Releases[n]
    PROVE  /\ m \in Nat /\ n \in Nat
           /\ ParseVersion(s).parsed
           /\ m < n <=> Earlier(ParseVersion(s), ParseVersion(t))
           /\ n < m <=> Earlier(ParseVersion(t), ParseVersion(s))
           /\ m = n <=> SameRelease(ParseVersion(s), ParseVersion(t))
<1>1. /\ m \in Nat /\ n \in Nat
      /\ ParseVersion(s).parsed /\ ParseVersion(t).parsed
      /\ Legible(s) /\ Legible(t)
  BY DEF ReleasesAreOrdered, Legible
<1>2. ParseVersion(s) \in ParsedVersions /\ ParseVersion(t) \in ParsedVersions
  BY <1>1, ParseVersionType
<1>3. /\ m < n => Earlier(ParseVersion(s), ParseVersion(t))
      /\ m = n => SameRelease(ParseVersion(s), ParseVersion(t))
      /\ n < m => Earlier(ParseVersion(t), ParseVersion(s))
  BY DEF ReleasesAreOrdered
<1>4. m < n \/ m = n \/ n < m
  BY <1>1
<1>5. /\ ~(Earlier(ParseVersion(s), ParseVersion(t)) /\ SameRelease(ParseVersion(s),
           ParseVersion(t)))
      /\ ~(Earlier(ParseVersion(t), ParseVersion(s)) /\ SameRelease(ParseVersion(t),
           ParseVersion(s)))
      /\ ~(Earlier(ParseVersion(s), ParseVersion(t)) /\ Earlier(ParseVersion(t), ParseVersion(s)))
      /\ SameRelease(ParseVersion(s), ParseVersion(t)) <=> SameRelease(ParseVersion(t),
           ParseVersion(s))
  BY <1>2, VersionsAreOrdered, SameReleaseSymmetric
<1>6. /\ ~(m < n /\ m = n) /\ ~(n < m /\ m = n) /\ ~(m < n /\ n < m)
  BY <1>1
<1> QED
  BY <1>1, <1>3, <1>4, <1>5, <1>6

\* A bound holds of a version if it holds of its release.
LEMMA BoundsAreReleases ==
    ASSUME ReleasesAreOrdered, NEW m \in DOMAIN Releases, NEW s \in Releases[m],
           NEW n \in DOMAIN Releases, NEW t \in Releases[n],
           NEW operator \in {"<", "<=", "=", ">", ">="}
    PROVE  Satisfies(ParseVersion(s), operator, ParseVersion(t)) <=> Within(m, operator, n)
<1>1. /\ m \in Nat /\ n \in Nat
      /\ m < n <=> Earlier(ParseVersion(s), ParseVersion(t))
      /\ n < m <=> Earlier(ParseVersion(t), ParseVersion(s))
      /\ m = n <=> SameRelease(ParseVersion(s), ParseVersion(t))
  BY PlacesAreVersions
<1>2. /\ m <= n <=> ~(n < m)
      /\ m > n <=> n < m
      /\ m >= n <=> ~(m < n)
  BY <1>1
<1> HIDE DEF Earlier, SameRelease
<1>3. CASE operator = "<"
  BY <1>1, <1>3 DEF Satisfies, Within
<1>4. CASE operator = "<="
  BY <1>1, <1>2, <1>4 DEF Satisfies, Within
<1>5. CASE operator = "="
  BY <1>1, <1>5 DEF Satisfies, Within
<1>6. CASE operator = ">"
  BY <1>1, <1>2, <1>6 DEF Satisfies, Within
<1>7. CASE operator = ">="
  BY <1>1, <1>2, <1>7 DEF Satisfies, Within
<1> QED
  BY <1>3, <1>4, <1>5, <1>6, <1>7

\* A readable version is of one release only.
LEMMA OnePlace ==
    ASSUME ReleasesAreOrdered, NEW m \in DOMAIN Releases, NEW n \in DOMAIN Releases,
           NEW s \in Releases[m], s \in Releases[n]
    PROVE  m = n
<1>1. ParseVersion(s) \in ParsedVersions
  BY ParseVersionType DEF ReleasesAreOrdered, Legible
<1>2. SameRelease(ParseVersion(s), ParseVersion(s))
  BY DEF SameRelease, SameSegments
<1> QED
  BY <1>2, PlacesAreVersions

\* The verdict of a row on a release that it and the service name.
LEMMA RowIsHonest ==
    ASSUME ReleasesAreOrdered, RowsNameReleases,
           NEW s, NEW row \in CatalogueRows, NEW m \in DOMAIN Releases,
           s.version # NoVersion, ReleasedAt(s.version, m),
           row.product \in CandidateProductNames(ProductOf(s))
    PROVE  /\ MatchServiceToCpe(s, row).confidence = 70 => Covers(row, m)
           /\ MatchServiceToCpe(s, row).confidence = 0 => ~Covers(row, m)
<1> DEFINE v == ParseVersion(s.version)
<1>1. s.version \in Releases[m] /\ v.parsed
  BY DEF ReleasedAt, ReleasesAreOrdered
<1>2. /\ NoMatch.confidence = 0
      /\ \A c, reasons : Verdict(c, reasons).confidence = c
  BY DEF NoMatch, Verdict
<1>3. \A w, reason : WithBackportPenalty(w, reason).confidence \in {40, 70}
  BY <1>2 DEF WithBackportPenalty
<1>4. CASE row.pinned # NoVersion
  <2>1. MatchServiceToCpe(s, row) = PinnedVerdict(v, row)
    BY <1>1, <1>4 DEF MatchServiceToCpe
  <2>2. CASE ~ParseVersion(row.pinned).parsed
    <3>1. PinnedVerdict(v, row).confidence = 25
      BY <1>2, <2>2 DEF PinnedVerdict
    <3> QED
      BY <2>1, <3>1
  <2>3. CASE ParseVersion(row.pinned).parsed
    <3>1. PICK n \in DOMAIN Releases : row.pinned \in Releases[n]
      BY <2>3 DEF RowsNameReleases, ReleasedAt
    <3>2. m = n <=> SameRelease(v, ParseVersion(row.pinned))
      BY <1>1, <3>1, PlacesAreVersions
    <3>3. Covers(row, m) <=> m = n
      BY <1>4, <3>1, OnePlace DEF Covers, ReleasedAt
    <3>4. SameRelease(v, ParseVersion(row.pinned)) =>
            PinnedVerdict(v, row).confidence \in {40, 70}
      BY <1>3, <2>3 DEF PinnedVerdict
    <3>5. ~SameRelease(v, ParseVersion(row.pinned)) => PinnedVerdict(v, row).confidence = 0
      BY <1>2, <2>3 DEF PinnedVerdict
    <3> QED
      BY <2>1, <3>2, <3>3, <3>4, <3>5
  <2> QED
    BY <2>2, <2>3
<1>5. CASE row.pinned = NoVersion
  <2>1. MatchServiceToCpe(s, row) = RangeVerdict(v, row)
    BY <1>1, <1>5 DEF MatchServiceToCpe
  <2>2. EvaluateVersionRange(v, row.range) \in {"in_range", "out_of_range", "indeterminate"}
    BY DEF EvaluateVersionRange
  <2>3. ASSUME NEW bound \in row.range, ParseVersion(bound.version).parsed
        PROVE  Satisfies(v, bound.operator, ParseVersion(bound.version)) <=>
                 \E n \in DOMAIN Releases :
                   ReleasedAt(bound.version, n) /\ Within(m, bound.operator, n)
    <3>1. PICK n \in DOMAIN Releases : bound.version \in Releases[n]
      BY <2>3 DEF RowsNameReleases, ReleasedAt
    <3>2. bound.operator \in {"<", "<=", "=", ">", ">="}
      BY DEF RowsNameReleases
    <3>3. Satisfies(v, bound.operator, ParseVersion(bound.version)) <=>
            Within(m, bound.operator, n)
      BY <1>1, <3>1, <3>2, BoundsAreReleases
    <3>4. \A k \in DOMAIN Releases : ReleasedAt(bound.version, k) => k = n
      BY <3>1, OnePlace DEF ReleasedAt
    <3> HIDE DEF v
    <3> QED
      BY <3>1, <3>3, <3>4 DEF ReleasedAt
  <2>4. Covers(row, m) <=>
          \A bound \in row.range : \E n \in DOMAIN Releases :
            ReleasedAt(bound.version, n) /\ Within(m, bound.operator, n)
    BY <1>5 DEF Covers
  <2> HIDE DEF v
  <2>5. CASE EvaluateVersionRange(v, row.range) = "in_range"
    <3>1. \A bound \in row.range :
            /\ ParseVersion(bound.version).parsed
            /\ Satisfies(v, bound.operator, ParseVersion(bound.version))
      BY <2>5 DEF EvaluateVersionRange
    <3>2. Covers(row, m)
      BY <2>3, <2>4, <3>1
    <3>3. RangeVerdict(v, row).confidence \in {40, 70}
      BY <1>3, <2>5 DEF RangeVerdict
    <3> QED
      BY <2>1, <3>2, <3>3
  <2>6. CASE EvaluateVersionRange(v, row.range) = "out_of_range"
    <3>1. PICK bound \in row.range :
            /\ ParseVersion(bound.version).parsed
            /\ ~Satisfies(v, bound.operator, ParseVersion(bound.version))
      BY <2>6 DEF EvaluateVersionRange
    <3>2. ~Covers(row, m)
      BY <2>3, <2>4, <3>1
    <3>3. RangeVerdict(v, row).confidence = 0
      BY <1>2, <2>6 DEF RangeVerdict
    <3> QED
      BY <2>1, <3>2, <3>3
  <2>7. CASE EvaluateVersionRange(v, row.range) = "indeterminate"
    <3>1. RangeVerdict(v, row).confidence = 25
      BY <1>2, <2>7 DEF RangeVerdict
    <3> QED
      BY <2>1, <3>1
  <2> QED
    BY <2>2, <2>5, <2>6, <2>7
<1> QED
  BY <1>4, <1>5

\* The rows considered name the product of the service.
RowsAreCandidates ==
    \A row \in considered : row.product \in CandidateProductNames(ProductOf(service))

LEMMA CandidatesInvariant == MatchSpec => [](MatchInv /\ RowsAreCandidates)
<1>1. MatchInit => MatchInv /\ RowsAreCandidates
  BY InitMatches DEF MatchInit, RowsAreCandidates
<1>2. MatchInv /\ RowsAreCandidates /\ [MatchNext]_matchVars => (MatchInv /\ RowsAreCandidates)'
  <2> SUFFICES ASSUME MatchInv, RowsAreCandidates, [MatchNext]_matchVars
               PROVE  MatchInv' /\ RowsAreCandidates'
    OBVIOUS
  <2>1. ASSUME UNCHANGED matchVars PROVE MatchInv' /\ RowsAreCandidates'
    BY <2>1 DEF matchVars, MatchInv, StrongestRowDecides, RowsFor, RowsAreCandidates
  <2>2. ASSUME NEW probe \in Probes, Observe(probe) PROVE MatchInv' /\ RowsAreCandidates'
    BY <2>2, ObserveKeeps DEF Observe, MatchInv, RowsAreCandidates
  <2>3. ASSUME NEW row \in CatalogueRows, Consider(row) PROVE MatchInv' /\ RowsAreCandidates'
    BY <2>3, ConsiderKeeps DEF Consider, RowsAreCandidates
  <2> QED
    BY <2>1, <2>2, <2>3 DEF MatchNext
<1> QED
  BY <1>1, <1>2, PTL DEF MatchSpec

\* Every variable keeps its type: a verdict is one of the six the code gives.
THEOREM MatchTypeCorrect == MatchSpec => []MatchTypeOK
<1>1. MatchInit => service = NoService
  BY DEF MatchInit
<1> DEFINE Read == service = NoService \/ \E probe \in Probes : service = ParseBanner(probe)
<1>2. Read /\ [MatchNext]_matchVars => Read'
  BY DEF MatchNext, Observe, Consider, matchVars
<1>3. MatchInv /\ Read => MatchTypeOK
  BY DEF MatchInv, MatchTypeOK, Verdicts, Confidences
<1>4. MatchInit => Read
  BY <1>1
<1> HIDE DEF Read
<1> QED
  BY <1>2, <1>3, <1>4, CandidatesInvariant, PTL DEF MatchSpec

\* A.6, QA-00: for any product whose releases are read in their order, any
\* catalogue of it and any order of its rows, a vulnerability is believed by
\* 0.70 only if a row covers the release observed, and is left out only if
\* every row excludes it.
THEOREM MatchesStayHonest ==
    ASSUME ReleasesAreOrdered, RowsNameReleases
    PROVE  MatchSpec => []MatchesAreHonest
<1>1. MatchInv /\ RowsAreCandidates => MatchesAreHonest
  <2> SUFFICES ASSUME MatchInv, RowsAreCandidates,
                      NEW x \in Vulnerabilities, NEW m \in DOMAIN Releases, Observed(m)
               PROVE  /\ best[x].confidence = 70 => \E row \in RowsFor(x) : Covers(row, m)
                      /\ best[x] = NoMatch => \A row \in RowsFor(x) : ~Covers(row, m)
    BY DEF MatchesAreHonest, MatchInv
  <2>1. \A row \in RowsFor(x) :
          /\ MatchServiceToCpe(service, row).confidence = 70 => Covers(row, m)
          /\ MatchServiceToCpe(service, row).confidence = 0 => ~Covers(row, m)
    BY RowIsHonest DEF MatchInv, RowsAreCandidates, RowsFor, Observed
  <2>2. NoMatch.confidence = 0
    BY DEF NoMatch, Verdict
  <2>3. best[x].confidence = 70 => \E row \in RowsFor(x) : Covers(row, m)
    BY <2>1, <2>2 DEF MatchInv, StrongestRowDecides
  <2>4. ASSUME best[x] = NoMatch, NEW row \in RowsFor(x) PROVE ~Covers(row, m)
    <3>1. MatchServiceToCpe(service, row).confidence <= 0
      BY <2>2, <2>4 DEF MatchInv, StrongestRowDecides
    <3>2. MatchServiceToCpe(service, row).confidence \in Confidences
      BY VerdictType DEF Verdicts
    <3>3. MatchServiceToCpe(service, row).confidence = 0
      BY <3>1, <3>2 DEF Confidences
    <3> QED
      BY <2>1, <3>3
  <2> QED
    BY <2>3, <2>4
<1> QED
  BY <1>1, CandidatesInvariant, PTL

=============================================================================
