---------------------------- MODULE MCArithmetic ----------------------------
(***************************************************************************)
(* The pure functions of the domain on bounded inputs, against what is     *)
(* expected of them: ranges of addresses, scores and ratings.  TLC         *)
(* evaluates these assumptions before it explores anything.                *)
(***************************************************************************)
EXTENDS Addresses, RiskScoring

\* As the type cidr has them, without host bits.
AllRanges ==
    {range \in [base : 0..(2 ^ Width - 1), prefix : 0..Width] : Network(range) = range.base}

SomeRules ==
    {{}, {[ruleType |-> "address", base |-> 5]},
     {[ruleType |-> "range", base |-> 7, prefix |-> Width - 2]}}

ASSUME PlansAgree ==
    /\ PlanAgreesWithDispatch(<<>>, {})
    /\ \A first, second \in AllRanges, rules \in SomeRules :
         PlanAgreesWithDispatch(<<first, second>>, rules)

-----------------------------------------------------------------------------
Factors(base, known, probability, exposure, criticality, tier) ==
    [base |-> base, knownExploited |-> known, probability |-> probability,
     exposure |-> exposure, criticality |-> criticality, tier |-> tier]

Scores(f) == TotalScore(f, DefaultRiskScoringWeights)

\* The examples of risk-scoring.test.ts.
ASSUME ScoresOfTheExamples ==
    /\ 10 * Scores(Factors(70, FALSE, 2, "internal", "medium", "corroborated")) = 693 * Unit
    /\ 10 * Scores(Factors(70, TRUE, 2, "internal", "medium", "corroborated")) = 945 * Unit
    /\ Scores(Factors(20, TRUE, 0, "internal", "medium", "verified")) = 30 * Unit
    /\ 10 * Scores(Factors(90, FALSE, 1, "internal", "medium", "verified")) = 945 * Unit
    /\ 100 * (Scores(Factors(72, FALSE, 4, "dmz", "medium", "corroborated")) - 89 * Unit) =
          42 * Unit + (4 * Unit) \div 10
    /\ 10 * Scores(Factors(60, TRUE, 0, "internal", "medium", "inferred")) = 675 * Unit

\* riskBand as the code computes it, over the bands in descending order.
ScannedBand(score) ==
    LET ordered == <<90, 70, 40, 15, 0>>
        names == <<"critical", "high", "medium", "low", "informational">>
        reached == {n \in 1..5 : score >= ordered[n] * Unit}
    IN names[CHOOSE n \in reached : \A m \in reached : n <= m]

ASSUME BandsOfScores ==
    \A quarter \in 0..400 :
        LET score == quarter * (Unit \div 4)
        IN \A name \in {b.band : b \in DefaultRiskBands} :
             RiskBandIs(score, DefaultRiskBands, name) <=> name = ScannedBand(score)

SomeIssues == [id : {1, 2}, score : {20, 69, 70, 88, 95}, knownExploited : BOOLEAN]

InUnits(open) == {[i EXCEPT !.score = i.score * Unit] : i \in open}

SomeOpen ==
    {{}} \cup {{pair[1], pair[2]} : pair \in
                  {pair \in SomeIssues \X SomeIssues :
                      pair[1].id = pair[2].id => pair[1] = pair[2]}}

Many == [id : 1..20, score : {75}, knownExploited : {FALSE}]

\* SCORE-05 to SCORE-08: the rating is that of the gravest issue, with 2 for
\* each other that is high or above, though no more than 10, and 90 at least if
\* one is known to be exploited.
ASSUME RatingsOfAssets ==
    /\ AssetRiskRating(InUnits(Many)) = 85 * Unit
    /\ \A open \in SomeOpen :
         LET highs == {i \in open : i.score >= 70}
             top == IF open = {} THEN 0
                    ELSE CHOOSE m \in 0..100 : IsMaxRisk(open, m)
             rated == top + (IF Cardinality(highs) = 2 THEN 2 ELSE 0)
         IN AssetRiskRating(InUnits(open)) =
              Unit * (IF rated < 90 /\ \E i \in open : i.knownExploited THEN 90 ELSE rated)

=============================================================================
