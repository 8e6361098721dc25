---------------------------- MODULE RiskScoring ----------------------------
(***************************************************************************)
(* The score of an issue and the rating of an asset.                       *)
(*                                                                         *)
(* Base scores and exploit probabilities are counted in tenths, weights in *)
(* twentieths (1.15 is 23), so a product of all factors is counted in      *)
(* 1/Unit, and nothing is rounded.                                         *)
(***************************************************************************)
EXTENDS Integers, FiniteSets

Unit == 10 * 20 * 20 * 20 * 20

Clamp(x, low, high) == IF x < low THEN low ELSE IF x > high THEN high ELSE x

-----------------------------------------------------------------------------
(* Bands *)

DefaultRiskBands ==
    {[band |-> "critical", minScore |-> 90], [band |-> "high", minScore |-> 70],
     [band |-> "medium", minScore |-> 40], [band |-> "low", minScore |-> 15],
     [band |-> "informational", minScore |-> 0]}

Reaches(score, b) == score >= b.minScore * Unit

\* The bands come in any order: the first of them, highest first, that the
\* score reaches.
RiskBandIs(score, bands, name) ==
    \/ \E b \in bands :
         /\ b.band = name /\ Reaches(score, b)
         /\ \A c \in bands : Reaches(score, c) => c.minScore <= b.minScore
    \/ name = "informational" /\ \A b \in bands : ~Reaches(score, b)

SeverityFromRiskBand(name) == IF name = "informational" THEN "info" ELSE name

ConfidenceTierFromScore(confidence) ==
    CASE confidence >= 75 -> "verified" [] confidence >= 40 -> "corroborated"
      [] OTHER -> "inferred"

-----------------------------------------------------------------------------
(* The score of an issue *)

DefaultRiskScoringWeights ==
    [knownExploited |-> 30, probabilityBase |-> 20, probabilityScale |-> 10,
     exposure |-> [external |-> 26, dmz |-> 23, internal |-> 20, isolated |-> 16,
                   unknown |-> 20],
     criticality |-> [critical |-> 25, high |-> 22, medium |-> 20, low |-> 17],
     confidence |-> [verified |-> 20, corroborated |-> 18, inferred |-> 15]]

\* A record of the catalogue without a score is never a zero.
BaseScore(cvss, knownExploited, none) ==
    IF cvss # none THEN cvss ELSE IF knownExploited THEN 70 ELSE 50

\* requireWeight: what a policy has no weight for is not scored at all.
Scoreable(f, w) ==
    /\ f.exposure \in DOMAIN w.exposure
    /\ f.criticality \in DOMAIN w.criticality
    /\ f.tier \in DOMAIN w.confidence

ExploitMultiplier(f, w) ==
    IF f.knownExploited THEN 10 * w.knownExploited
    ELSE 10 * w.probabilityBase + f.probability * w.probabilityScale

RunningScore(f, w) ==
    Clamp(f.base, 0, 100) * ExploitMultiplier(f, w) * w.exposure[f.exposure]
        * w.criticality[f.criticality] * w.confidence[f.tier]

TotalScore(f, w) == Clamp(RunningScore(f, w), 0, 100 * Unit)

-----------------------------------------------------------------------------
(* The rating of an asset, from its open issues *)

IsMaxRisk(open, m) == (\E i \in open : i.score = m) /\ \A i \in open : i.score <= m

HighOrAbove(open) == {i \in open : i.score >= 70 * Unit}

BreadthBonus(open) ==
    IF HighOrAbove(open) = {} THEN 0
    ELSE Clamp(2 * (Cardinality(HighOrAbove(open)) - 1), 0, 10) * Unit

RatingWith(open, maxRisk) ==
    LET plain == Clamp(maxRisk + BreadthBonus(open), 0, 100 * Unit)
    IN IF (\E i \in open : i.knownExploited) /\ plain < 90 * Unit THEN 90 * Unit ELSE plain

AssetRiskRating(open) ==
    IF open = {} THEN 0
    ELSE RatingWith(open, CHOOSE m \in {i.score : i \in open} : IsMaxRisk(open, m))

=============================================================================
