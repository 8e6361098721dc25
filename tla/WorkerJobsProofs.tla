-------------------------- MODULE WorkerJobsProofs --------------------------
(****************************************************************************)
(* Theorems about Rescoring, IntelImports and Verification for every value *)
(* of their constants: any number of issues, publications, imports, runs   *)
(* and faults.  What an import leaves behind is proved for one poller at a *)
(* time: with two, TLC finds counterexamples.  The three together, as      *)
(* MCWorkerJobs has them, are each of the three.                           *)
(****************************************************************************)
EXTENDS MCWorkerJobs, FiniteSetTheorems, TLAPS

-----------------------------------------------------------------------------
(* Versions: each has a request that published it, and ended. *)

Ended == {a \in Publishers : publisher[a] = "done"}

Counted ==
    /\ publisher \in [Publishers -> {"new", "publishing", "done"}]
    /\ active \in 2..(2 + Cardinality(Ended))

\* The requests that have ended are finitely many.
LEMMA EndedIsFinite == IsFiniteSet(Ended) /\ Cardinality(Ended) \in Nat
<1>1. Ended \subseteq Publishers
  BY DEF Ended
<1>2. IsFiniteSet(Ended)
  BY <1>1, PublishersAssumption, FS_Subset
<1>. QED
  BY <1>2, FS_CardinalityType

\* No more requests end than there are.
LEMMA EndedIsBounded == Counted => active \in Versions
<1>1. Ended \subseteq Publishers
  BY DEF Ended
<1>2. Cardinality(Ended) <= Cardinality(Publishers) /\ Cardinality(Publishers) \in Nat
  BY <1>1, PublishersAssumption, FS_Subset, FS_CardinalityType
<1>. QED
  BY <1>2, EndedIsFinite DEF Counted, Versions

\* A request that ends is one more.
LEMMA OneMoreEnded ==
  ASSUME publisher \in [Publishers -> {"new", "publishing", "done"}],
         NEW a \in Publishers, publisher[a] = "publishing",
         publisher' = [publisher EXCEPT ![a] = "done"]
  PROVE  Cardinality(Ended)' = Cardinality(Ended) + 1
<1>1. Ended' = Ended \cup {a} /\ a \notin Ended
  BY DEF Ended
<1>2. Cardinality(Ended \cup {a}) = Cardinality(Ended) + 1
  BY <1>1, EndedIsFinite, FS_AddElement
<1>3. Cardinality(Ended)' = Cardinality(Ended')
  OBVIOUS
<1>. QED
  BY <1>1, <1>2, <1>3

\* A request ends once, with the version it publishes or without one.
LEMMA CountedInvariant == RescoreSpec => []Counted
<1>1. RescoreInit => Counted
  <2> SUFFICES ASSUME RescoreInit PROVE Counted
    OBVIOUS
  <2>. QED
    BY EndedIsFinite DEF RescoreInit, Counted, Seeded
<1>2. Counted /\ [RescoreNext]_rescoreVars => Counted'
  <2> SUFFICES ASSUME Counted, [RescoreNext]_rescoreVars PROVE Counted'
    OBVIOUS
  <2> USE DEF Counted, scores, posts, batch, scanning
  <2>1. ASSUME NEW a \in Publishers, ReadLatest(a) \/ Publish(a) \/ PublishTooLate(a)
        PROVE  Counted'
    <3>1. CASE ReadLatest(a)
      <4>1. Ended' = Ended
        BY <3>1 DEF ReadLatest, Ended
      <4>2. Cardinality(Ended)' = Cardinality(Ended)
        BY <4>1
      <4>. QED
        BY <3>1, <4>2, EndedIsFinite DEF ReadLatest
    <3>2. CASE Publish(a)
      <4>1. Cardinality(Ended)' = Cardinality(Ended) + 1
        BY <3>2, OneMoreEnded DEF Publish
      <4>. QED
        BY <3>2, <4>1, EndedIsFinite DEF Publish
    <3>3. CASE PublishTooLate(a)
      <4>1. Cardinality(Ended)' = Cardinality(Ended) + 1
        BY <3>3, OneMoreEnded DEF PublishTooLate
      <4>. QED
        BY <3>3, <4>1, EndedIsFinite DEF PublishTooLate
    <3>. QED
      BY <2>1, <3>1, <3>2, <3>3
  <2>2. ASSUME UNCHANGED <<publisher, active>> PROVE Counted'
    <3>1. Ended' = Ended
      BY <2>2 DEF Ended
    <3>2. Cardinality(Ended)' = Cardinality(Ended)
      BY <3>1
    <3>. QED
      BY <2>2, <3>2
  <2>3. CASE Batch
    BY <2>2, <2>3
    DEF Batch, ReadPolicy, SelectStale, CountRemaining, Rescore, SkipUnscoreable
  <2>4. CASE Scan
    BY <2>2, <2>4
    DEF Scan, StartScan, InsertIssue, InsertSnapshot, ReadScores, RateAsset, EndScan
  <2>5. ASSUME NEW i \in Issues, RescoreFails(i) PROVE Counted'
    BY <2>2, <2>5 DEF RescoreFails
  <2>6. CASE BatchFails \/ ScanFails \/ WorkerCrash
    BY <2>2, <2>6 DEF BatchFails, ScanFails, WorkerCrash
  <2>7. CASE UNCHANGED rescoreVars
    BY <2>2, <2>7 DEF rescoreVars
  <2>. QED
    BY <2>1, <2>3, <2>4, <2>5, <2>6, <2>7 DEF RescoreNext
<1>. QED
  BY <1>1, <1>2, PTL DEF RescoreSpec

\* The active policy is one that was published.
LEMMA ActiveIsPublished == RescoreSpec => [](active \in Versions)
  BY CountedInvariant, EndedIsBounded, PTL

-----------------------------------------------------------------------------
(* Types *)

\* A batch and a scan under way have a policy; RescoreTypeOK is not inductive
\* without.
Scored ==
    /\ RescoreTypeOK
    /\ pass # "idle" => policy \in Versions
    /\ scan # "idle" => scanPolicy \in Versions

\* The strengthened type invariant holds in every reachable state.
LEMMA ScoredInvariant == RescoreSpec => []Scored
<1> DEFINE Published == active \in Versions
<1>1. RescoreInit /\ Published => Scored
  BY RescoreFaultsAssumption DEF RescoreInit, Scored, RescoreTypeOK
<1>2. Scored /\ Published' /\ [RescoreNext]_rescoreVars => Scored'
  <2> SUFFICES ASSUME Scored, Published', [RescoreNext]_rescoreVars PROVE Scored'
    OBVIOUS
  <2> USE DEF Scored, RescoreTypeOK, scores, posts, batch, scanning
  <2>1. ASSUME NEW a \in Publishers, ReadLatest(a) \/ Publish(a) \/ PublishTooLate(a)
        PROVE  Scored'
    <3>1. CASE ReadLatest(a)
      BY <3>1 DEF ReadLatest
    <3>2. CASE Publish(a)
      BY <3>2 DEF Publish
    <3>3. CASE PublishTooLate(a)
      BY <3>3 DEF PublishTooLate
    <3>. QED
      BY <2>1, <3>1, <3>2, <3>3
  <2>2. CASE Batch
    <3>1. CASE ReadPolicy
      BY <3>1 DEF ReadPolicy
    <3>2. CASE SelectStale
      BY <3>2 DEF SelectStale, FirstOf, StaleFor
    <3>3. CASE CountRemaining
      BY <3>3 DEF CountRemaining
    <3>4. ASSUME NEW i \in Issues, Rescore(i) PROVE Scored'
      BY <3>4 DEF Rescore, IsNextIssue, Appended
    <3>5. ASSUME NEW i \in Issues, SkipUnscoreable(i) PROVE Scored'
      BY <3>5 DEF SkipUnscoreable, IsNextIssue, RestOf
    <3>. QED
      BY <2>2, <3>1, <3>2, <3>3, <3>4, <3>5 DEF Batch
  <2>3. CASE Scan
    <3>1. CASE StartScan
      BY <3>1 DEF StartScan
    <3>2. ASSUME NEW i \in Issues, InsertIssue(i) PROVE Scored'
      BY <3>2 DEF InsertIssue
    <3>3. CASE InsertSnapshot
      BY <3>3 DEF InsertSnapshot, Appended
    <3>4. CASE ReadScores
      BY <3>4 DEF ReadScores
    <3>5. CASE RateAsset
      BY <3>5 DEF RateAsset
    <3>6. CASE EndScan
      BY <3>6 DEF EndScan
    <3>. QED
      BY <2>3, <3>1, <3>2, <3>3, <3>4, <3>5, <3>6 DEF Scan
  <2>4. ASSUME NEW i \in Issues, RescoreFails(i) PROVE Scored'
    BY <2>4, RescoreFaultsAssumption DEF RescoreFails, Failing, RestOf
  <2>5. CASE BatchFails
    BY <2>5, RescoreFaultsAssumption DEF BatchFails, Failing
  <2>6. CASE ScanFails
    BY <2>6, RescoreFaultsAssumption DEF ScanFails, Failing
  <2>7. CASE WorkerCrash
    BY <2>7, RescoreFaultsAssumption DEF WorkerCrash, Failing
  <2>8. CASE UNCHANGED rescoreVars
    BY <2>8 DEF rescoreVars
  <2>. QED
    BY <2>1, <2>2, <2>3, <2>4, <2>5, <2>6, <2>7, <2>8 DEF RescoreNext
<1>. QED
  BY <1>1, <1>2, ActiveIsPublished, PTL DEF RescoreSpec

\* Every variable of the rescoring keeps its type: no score, snapshot or batch
\* has a version that was not published (processRescoreBatch, upsertIssue).
THEOREM RescoringTypeCorrect == RescoreSpec => []RescoreTypeOK
<1>1. Scored => RescoreTypeOK
  BY DEF Scored
<1>. QED
  BY <1>1, ScoredInvariant, PTL

-----------------------------------------------------------------------------
(* MOD-18 *)

\* MOD-18: no publication, scan, fault or later batch takes away a snapshot of
\* a score the recomputation gave.
THEOREM HistoryStaysWhole == RescoreSpec => []HistoryIsWhole
<1>1. RescoreInit => HistoryIsWhole
  BY DEF RescoreInit, HistoryIsWhole
<1>2. RescoreTypeOK /\ HistoryIsWhole /\ [RescoreNext]_rescoreVars => HistoryIsWhole'
  <2> SUFFICES ASSUME RescoreTypeOK, HistoryIsWhole, [RescoreNext]_rescoreVars PROVE HistoryIsWhole'
    OBVIOUS
  <2> USE DEF RescoreTypeOK, HistoryIsWhole, scores, posts, batch, scanning
  <2>1. ASSUME NEW a \in Publishers, ReadLatest(a) \/ Publish(a) \/ PublishTooLate(a)
        PROVE  HistoryIsWhole'
    <3>1. CASE ReadLatest(a)
      BY <3>1 DEF ReadLatest
    <3>2. CASE Publish(a)
      BY <3>2 DEF Publish
    <3>3. CASE PublishTooLate(a)
      BY <3>3 DEF PublishTooLate
    <3>. QED
      BY <2>1, <3>1, <3>2, <3>3
  <2>2. CASE Batch
    <3>1. CASE ReadPolicy
      BY <3>1 DEF ReadPolicy
    <3>2. CASE SelectStale
      BY <3>2 DEF SelectStale, FirstOf, StaleFor
    <3>3. CASE CountRemaining
      BY <3>3 DEF CountRemaining
    <3>4. ASSUME NEW i \in Issues, Rescore(i) PROVE HistoryIsWhole'
      BY <3>4 DEF Rescore, IsNextIssue, Appended
    <3>5. ASSUME NEW i \in Issues, SkipUnscoreable(i) PROVE HistoryIsWhole'
      BY <3>5 DEF SkipUnscoreable, IsNextIssue, RestOf
    <3>. QED
      BY <2>2, <3>1, <3>2, <3>3, <3>4, <3>5 DEF Batch
  <2>3. CASE Scan
    <3>1. CASE StartScan
      BY <3>1 DEF StartScan
    <3>2. ASSUME NEW i \in Issues, InsertIssue(i) PROVE HistoryIsWhole'
      BY <3>2 DEF InsertIssue
    <3>3. CASE InsertSnapshot
      BY <3>3 DEF InsertSnapshot, Appended
    <3>4. CASE ReadScores
      BY <3>4 DEF ReadScores
    <3>5. CASE RateAsset
      BY <3>5 DEF RateAsset
    <3>6. CASE EndScan
      BY <3>6 DEF EndScan
    <3>. QED
      BY <2>3, <3>1, <3>2, <3>3, <3>4, <3>5, <3>6 DEF Scan
  <2>4. ASSUME NEW i \in Issues, RescoreFails(i) PROVE HistoryIsWhole'
    BY <2>4 DEF RescoreFails, Failing, RestOf
  <2>5. CASE BatchFails
    BY <2>5 DEF BatchFails, Failing
  <2>6. CASE ScanFails
    BY <2>6 DEF ScanFails, Failing
  <2>7. CASE WorkerCrash
    BY <2>7 DEF WorkerCrash, Failing
  <2>8. CASE UNCHANGED rescoreVars
    BY <2>8 DEF rescoreVars
  <2>. QED
    BY <2>1, <2>2, <2>3, <2>4, <2>5, <2>6, <2>7, <2>8 DEF RescoreNext
<1>. QED
  BY <1>1, <1>2, RescoringTypeCorrect, PTL DEF RescoreSpec

-----------------------------------------------------------------------------
(* Imports *)

\* Pollers that processIntelImport has not left.
Working(p) == step[p] \notin {"idle", "selecting"}

\* Such a poller has an import; ImportTypeOK is not inductive without.
HoldsImport == \A p \in Pollers : Working(p) => job[p] \in Imports

ImportsTyped == ImportTypeOK /\ HoldsImport

\* The strengthened type invariant holds in every reachable state.
LEMMA ImportsTypedInvariant == ImportSpec => []ImportsTyped
<1>1. ImportInit => ImportsTyped
  BY IntelFaultsAssumption
  DEF ImportInit, ImportsTyped, ImportTypeOK, HoldsImport, Working, ImportStatus, RequestStep,
     PollerStep
<1>2. ImportsTyped /\ [ImportNext]_importVars => ImportsTyped'
  <2> SUFFICES ASSUME ImportsTyped, [ImportNext]_importVars PROVE ImportsTyped'
    OBVIOUS
  <2> USE DEF ImportsTyped, ImportTypeOK, HoldsImport, Working, ImportStatus, RequestStep,
     PollerStep, rows, pending, past
  <2>1. CASE Api
    <3>1. CASE TurnSwitch
      BY <3>1 DEF TurnSwitch
    <3>2. ASSUME NEW i \in Imports, AskSync(i) PROVE ImportsTyped'
      BY <3>2 DEF AskSync
    <3>3. ASSUME NEW i \in Imports, FindNoSync(i) PROVE ImportsTyped'
      BY <3>3 DEF FindNoSync
    <3>4. ASSUME NEW i \in Imports, FindSync(i) PROVE ImportsTyped'
      BY <3>4 DEF FindSync
    <3>5. ASSUME NEW i \in Imports, InsertImport(i) PROVE ImportsTyped'
      BY <3>5 DEF InsertImport
    <3>6. ASSUME NEW i \in Imports, RecordOpening(i) PROVE ImportsTyped'
      BY <3>6 DEF RecordOpening
    <3>. QED
      BY <2>1, <3>1, <3>2, <3>3, <3>4, <3>5, <3>6 DEF Api
  <2>2. ASSUME NEW p \in Pollers, Importer(p) PROVE ImportsTyped'
    <3>1. CASE ImportTick(p)
      BY <3>1 DEF ImportTick, StepTo
    <3>2. CASE SelectImport(p)
      BY <3>2 DEF SelectImport, StepTo
    <3>3. CASE SelectNoImport(p)
      BY <3>3 DEF SelectNoImport, StepTo
    <3>4. CASE CheckSettings(p)
      BY <3>4 DEF CheckSettings, StepTo, RefusesFetch
    <3>5. CASE Contact(p)
      BY <3>5 DEF Contact, StepTo
    <3>6. CASE FetchSucceeds(p)
      BY <3>6 DEF FetchSucceeds, StepTo
    <3>7. CASE FetchFails(p)
      BY <3>7 DEF FetchFails, StepTo
    <3>8. CASE RecordFailure(p)
      BY <3>8 DEF RecordFailure, StepTo
    <3>9. CASE RefuseImport(p)
      BY <3>9 DEF RefuseImport, Refused, LeaveImport
    <3>10. CASE Upsert(p)
      BY <3>10 DEF Upsert, StepTo, HeldBack
    <3>11. CASE ReadPrevious(p)
      BY <3>11 DEF ReadPrevious, StepTo
    <3>12. CASE CommitImport(p)
      BY <3>12 DEF CommitImport, StepTo, WrittenThrough, SupersededBy
    <3>13. CASE RecordSuccess(p)
      BY <3>13 DEF RecordSuccess, LeaveImport
    <3>14. CASE CatchFailed(p)
      BY <3>14 DEF CatchFailed, LeaveImport, FailedUnlessOver
    <3>. QED
      BY <2>2, <3>1, <3>2, <3>3, <3>4, <3>5, <3>6, <3>7, <3>8, <3>9, <3>10, <3>11,
      <3>12, <3>13, <3>14 DEF Importer
  <2>3. CASE ImportFault
    <3>1. ASSUME NEW p \in Pollers, ImportThrows(p) PROVE ImportsTyped'
      BY <3>1, IntelFaultsAssumption DEF ImportThrows, StepTo
    <3>2. ASSUME NEW p \in Pollers, CatchThrows(p) PROVE ImportsTyped'
      BY <3>2, IntelFaultsAssumption DEF CatchThrows, LeaveImport
    <3>3. ASSUME NEW p \in Pollers, ImportTickFails(p) PROVE ImportsTyped'
      BY <3>3, IntelFaultsAssumption DEF ImportTickFails, StepTo
    <3>4. CASE ImporterCrash
      BY <3>4, IntelFaultsAssumption DEF ImporterCrash
    <3>. QED
      BY <2>3, <3>1, <3>2, <3>3, <3>4 DEF ImportFault
  <2>4. CASE UNCHANGED importVars
    BY <2>4 DEF importVars
  <2>. QED
    BY <2>1, <2>2, <2>3, <2>4 DEF ImportNext
<1>. QED
  BY <1>1, <1>2, PTL DEF ImportSpec

\* Every variable of the imports keeps its type (POST /intel/sync and
\* processIntelImport).
THEOREM ImportsTypeCorrect == ImportSpec => []ImportTypeOK
<1>1. ImportsTyped => ImportTypeOK
  BY DEF ImportsTyped
<1>. QED
  BY <1>1, ImportsTypedInvariant, PTL

-----------------------------------------------------------------------------
(* The switch *)

\* FEED-23, for any overlap of pollers: once online updates are disabled none
\* of them is about to contact the feeds a second time.  The invariant is
\* inductive with the type of the switch: a poller that has contacted them
\* since must pass the check again, and the check refuses.
THEOREM DisabledIsSafe == ImportSpec => []DisabledStopsFetch
<1>1. ImportInit => DisabledStopsFetch
  BY DEF ImportInit, DisabledStopsFetch
<1>2. ImportsTyped /\ DisabledStopsFetch /\ [ImportNext]_importVars => DisabledStopsFetch'
  <2> SUFFICES ASSUME ImportsTyped, DisabledStopsFetch, [ImportNext]_importVars
      PROVE DisabledStopsFetch'
    OBVIOUS
  <2> USE DEF ImportsTyped, ImportTypeOK, HoldsImport, Working, ImportStatus, RequestStep,
     PollerStep, rows, pending, past, DisabledStopsFetch
  <2>1. CASE Api
    <3>1. CASE TurnSwitch
      BY <3>1 DEF TurnSwitch
    <3>2. ASSUME NEW i \in Imports, AskSync(i) PROVE DisabledStopsFetch'
      BY <3>2 DEF AskSync
    <3>3. ASSUME NEW i \in Imports, FindNoSync(i) PROVE DisabledStopsFetch'
      BY <3>3 DEF FindNoSync
    <3>4. ASSUME NEW i \in Imports, FindSync(i) PROVE DisabledStopsFetch'
      BY <3>4 DEF FindSync
    <3>5. ASSUME NEW i \in Imports, InsertImport(i) PROVE DisabledStopsFetch'
      BY <3>5 DEF InsertImport
    <3>6. ASSUME NEW i \in Imports, RecordOpening(i) PROVE DisabledStopsFetch'
      BY <3>6 DEF RecordOpening
    <3>. QED
      BY <2>1, <3>1, <3>2, <3>3, <3>4, <3>5, <3>6 DEF Api
  <2>2. ASSUME NEW p \in Pollers, Importer(p) PROVE DisabledStopsFetch'
    <3>1. CASE ImportTick(p)
      BY <3>1 DEF ImportTick, StepTo
    <3>2. CASE SelectImport(p)
      BY <3>2 DEF SelectImport, StepTo
    <3>3. CASE SelectNoImport(p)
      BY <3>3 DEF SelectNoImport, StepTo
    <3>4. CASE CheckSettings(p)
      BY <3>4 DEF CheckSettings, StepTo, RefusesFetch
    <3>5. CASE Contact(p)
      BY <3>5 DEF Contact, StepTo
    <3>6. CASE FetchSucceeds(p)
      BY <3>6 DEF FetchSucceeds, StepTo
    <3>7. CASE FetchFails(p)
      BY <3>7 DEF FetchFails, StepTo
    <3>8. CASE RecordFailure(p)
      BY <3>8 DEF RecordFailure, StepTo
    <3>9. CASE RefuseImport(p)
      BY <3>9 DEF RefuseImport, Refused, LeaveImport
    <3>10. CASE Upsert(p)
      BY <3>10 DEF Upsert, StepTo, HeldBack
    <3>11. CASE ReadPrevious(p)
      BY <3>11 DEF ReadPrevious, StepTo
    <3>12. CASE CommitImport(p)
      BY <3>12 DEF CommitImport, StepTo, WrittenThrough, SupersededBy
    <3>13. CASE RecordSuccess(p)
      BY <3>13 DEF RecordSuccess, LeaveImport
    <3>14. CASE CatchFailed(p)
      BY <3>14 DEF CatchFailed, LeaveImport, FailedUnlessOver
    <3>. QED
      BY <2>2, <3>1, <3>2, <3>3, <3>4, <3>5, <3>6, <3>7, <3>8, <3>9, <3>10, <3>11,
      <3>12, <3>13, <3>14 DEF Importer
  <2>3. CASE ImportFault
    <3>1. ASSUME NEW p \in Pollers, ImportThrows(p) PROVE DisabledStopsFetch'
      BY <3>1 DEF ImportThrows, StepTo
    <3>2. ASSUME NEW p \in Pollers, CatchThrows(p) PROVE DisabledStopsFetch'
      BY <3>2 DEF CatchThrows, LeaveImport
    <3>3. ASSUME NEW p \in Pollers, ImportTickFails(p) PROVE DisabledStopsFetch'
      BY <3>3 DEF ImportTickFails, StepTo
    <3>4. CASE ImporterCrash
      BY <3>4 DEF ImporterCrash
    <3>. QED
      BY <2>3, <3>1, <3>2, <3>3, <3>4 DEF ImportFault
  <2>4. CASE UNCHANGED importVars
    BY <2>4 DEF importVars
  <2>. QED
    BY <2>1, <2>2, <2>3, <2>4 DEF ImportNext
<1>. QED
  BY <1>1, <1>2, ImportsTypedInvariant, PTL DEF ImportSpec

-----------------------------------------------------------------------------
(* What an import leaves behind *)

OneImporter == \A p, q \in Pollers : p = q

\* A request that has not inserted its row finds none under its id.
NotInserted == \A i \in Imports :
    request[i] \in {"new", "asking", "inserting"} => importStatus[i] = "none"

\* Until it commits or fails, a poller's import is still validating.
NotOver == \A p \in Pollers :
    Working(p) /\ step[p] \notin {"reporting", "failing"} =>
        importStatus[job[p]] = "validating"

\* Only applied imports are superseded, and a poller about to commit knows
\* every one that is applied.
Superseding ==
    /\ \A i \in Imports : importStatus[i] # "applied" => superseded[i] = NoImport
    /\ \A p \in Pollers : step[p] = "committing" =>
           previous[p] = {i \in Imports \ {job[p]} : importStatus[i] = "applied"}

OneInv == NotInserted /\ NotOver /\ Superseding /\ CorpusIsApplied /\ CurrentIsNewest

\* With one poller at a time the corpus and the current import are as promised.
LEMMA OneInvariant == ASSUME OneImporter PROVE ImportSpec => []OneInv
<1> USE DEF OneImporter
<1>1. ImportInit => OneInv
  BY NoImportAssumption
  DEF ImportInit, OneInv, NotInserted, NotOver, Working, Superseding, CorpusIsApplied,
      CurrentIsNewest
<1>2. ImportsTyped /\ OneInv /\ [ImportNext]_importVars => OneInv'
  <2> SUFFICES ASSUME ImportsTyped, OneInv, [ImportNext]_importVars PROVE OneInv'
    OBVIOUS
  <2> USE DEF ImportsTyped, ImportTypeOK, HoldsImport, Working, ImportStatus, RequestStep,
     PollerStep, rows, pending, past, OneInv, NotInserted, NotOver, Superseding,
     CorpusIsApplied, CurrentIsNewest
  <2>1. CASE Api
    <3>1. CASE TurnSwitch
      BY <3>1 DEF TurnSwitch
    <3>2. ASSUME NEW i \in Imports, AskSync(i) PROVE OneInv'
      BY <3>2 DEF AskSync
    <3>3. ASSUME NEW i \in Imports, FindNoSync(i) PROVE OneInv'
      BY <3>3 DEF FindNoSync
    <3>4. ASSUME NEW i \in Imports, FindSync(i) PROVE OneInv'
      BY <3>4 DEF FindSync
    <3>5. ASSUME NEW i \in Imports, InsertImport(i) PROVE OneInv'
      BY <3>5, NoImportAssumption DEF InsertImport
    <3>6. ASSUME NEW i \in Imports, RecordOpening(i) PROVE OneInv'
      BY <3>6 DEF RecordOpening
    <3>. QED
      BY <2>1, <3>1, <3>2, <3>3, <3>4, <3>5, <3>6 DEF Api
  <2>2. ASSUME NEW p \in Pollers, Importer(p) PROVE OneInv'
    <3>1. CASE ImportTick(p)
      BY <3>1 DEF ImportTick, StepTo
    <3>2. CASE SelectImport(p)
      BY <3>2 DEF SelectImport, StepTo
    <3>3. CASE SelectNoImport(p)
      BY <3>3 DEF SelectNoImport, StepTo
    <3>4. CASE CheckSettings(p)
      BY <3>4 DEF CheckSettings, StepTo, RefusesFetch
    <3>5. CASE Contact(p)
      BY <3>5 DEF Contact, StepTo
    <3>6. CASE FetchSucceeds(p)
      BY <3>6 DEF FetchSucceeds, StepTo
    <3>7. CASE FetchFails(p)
      BY <3>7 DEF FetchFails, StepTo
    <3>8. CASE RecordFailure(p)
      BY <3>8 DEF RecordFailure, StepTo
    <3>9. CASE RefuseImport(p)
      BY <3>9, NoImportAssumption DEF RefuseImport, Refused, LeaveImport
    <3>10. CASE Upsert(p)
      BY <3>10 DEF Upsert, StepTo, HeldBack
    <3>11. CASE ReadPrevious(p)
      BY <3>11 DEF ReadPrevious, StepTo
    <3>12. CASE CommitImport(p)
      BY <3>12, NoImportAssumption DEF CommitImport, StepTo, WrittenThrough, SupersededBy
    <3>13. CASE RecordSuccess(p)
      BY <3>13 DEF RecordSuccess, LeaveImport
    <3>14. CASE CatchFailed(p)
      BY <3>14, NoImportAssumption DEF CatchFailed, LeaveImport, FailedUnlessOver
    <3>. QED
      BY <2>2, <3>1, <3>2, <3>3, <3>4, <3>5, <3>6, <3>7, <3>8, <3>9, <3>10, <3>11,
      <3>12, <3>13, <3>14 DEF Importer
  <2>3. CASE ImportFault
    <3>1. ASSUME NEW p \in Pollers, ImportThrows(p) PROVE OneInv'
      BY <3>1 DEF ImportThrows, StepTo
    <3>2. ASSUME NEW p \in Pollers, CatchThrows(p) PROVE OneInv'
      BY <3>2 DEF CatchThrows, LeaveImport
    <3>3. ASSUME NEW p \in Pollers, ImportTickFails(p) PROVE OneInv'
      BY <3>3 DEF ImportTickFails, StepTo
    <3>4. CASE ImporterCrash
      BY <3>4 DEF ImporterCrash
    <3>. QED
      BY <2>3, <3>1, <3>2, <3>3, <3>4 DEF ImportFault
  <2>4. CASE UNCHANGED importVars
    BY <2>4 DEF importVars
  <2>. QED
    BY <2>1, <2>2, <2>3, <2>4 DEF ImportNext
<1>. QED
  BY <1>1, <1>2, ImportsTypedInvariant, PTL DEF ImportSpec

\* FEED-25: what the catalogue says comes from the seed or an applied import.
THEOREM CatalogueIsApplied == ASSUME OneImporter PROVE ImportSpec => []CorpusIsApplied
<1>1. OneInv => CorpusIsApplied
  BY DEF OneInv
<1>. QED
  BY <1>1, OneInvariant, PTL

\* GET /intel/status finds exactly the import that was applied last.
THEOREM CurrentIsTheNewest == ASSUME OneImporter PROVE ImportSpec => []CurrentIsNewest
<1>1. OneInv => CurrentIsNewest
  BY DEF OneInv
<1>. QED
  BY <1>1, OneInvariant, PTL

\* An applied import is not marked failed afterwards, whatever rejects.
THEOREM AppliedStays == ASSUME OneImporter PROVE ImportSpec => AppliedIsFinal
<1> DEFINE Kept == \A i \in Imports : importStatus[i] = "applied" => importStatus'[i] = "applied"
<1>1. ImportsTyped /\ OneInv /\ [ImportNext]_importVars => Kept
  <2> SUFFICES ASSUME ImportsTyped, OneInv, [ImportNext]_importVars PROVE Kept
    OBVIOUS
  <2> USE DEF ImportsTyped, ImportTypeOK, HoldsImport, Working, ImportStatus, RequestStep,
     PollerStep, rows, pending, past, OneInv, NotInserted, NotOver
  <2>1. CASE Api
    <3>1. CASE TurnSwitch
      BY <3>1 DEF TurnSwitch
    <3>2. ASSUME NEW i \in Imports, AskSync(i) PROVE Kept
      BY <3>2 DEF AskSync
    <3>3. ASSUME NEW i \in Imports, FindNoSync(i) PROVE Kept
      BY <3>3 DEF FindNoSync
    <3>4. ASSUME NEW i \in Imports, FindSync(i) PROVE Kept
      BY <3>4 DEF FindSync
    <3>5. ASSUME NEW i \in Imports, InsertImport(i) PROVE Kept
      BY <3>5 DEF InsertImport
    <3>6. ASSUME NEW i \in Imports, RecordOpening(i) PROVE Kept
      BY <3>6 DEF RecordOpening
    <3>. QED
      BY <2>1, <3>1, <3>2, <3>3, <3>4, <3>5, <3>6 DEF Api
  <2>2. ASSUME NEW p \in Pollers, Importer(p) PROVE Kept
    <3>1. CASE ImportTick(p)
      BY <3>1 DEF ImportTick, StepTo
    <3>2. CASE SelectImport(p)
      BY <3>2 DEF SelectImport, StepTo
    <3>3. CASE SelectNoImport(p)
      BY <3>3 DEF SelectNoImport, StepTo
    <3>4. CASE CheckSettings(p)
      BY <3>4 DEF CheckSettings, StepTo, RefusesFetch
    <3>5. CASE Contact(p)
      BY <3>5 DEF Contact, StepTo
    <3>6. CASE FetchSucceeds(p)
      BY <3>6 DEF FetchSucceeds, StepTo
    <3>7. CASE FetchFails(p)
      BY <3>7 DEF FetchFails, StepTo
    <3>8. CASE RecordFailure(p)
      BY <3>8 DEF RecordFailure, StepTo
    <3>9. CASE RefuseImport(p)
      BY <3>9 DEF RefuseImport, Refused, LeaveImport
    <3>10. CASE Upsert(p)
      BY <3>10 DEF Upsert, StepTo, HeldBack
    <3>11. CASE ReadPrevious(p)
      BY <3>11 DEF ReadPrevious, StepTo
    <3>12. CASE CommitImport(p)
      BY <3>12 DEF CommitImport, StepTo, WrittenThrough, SupersededBy
    <3>13. CASE RecordSuccess(p)
      BY <3>13 DEF RecordSuccess, LeaveImport
    <3>14. CASE CatchFailed(p)
      BY <3>14 DEF CatchFailed, LeaveImport, FailedUnlessOver
    <3>. QED
      BY <2>2, <3>1, <3>2, <3>3, <3>4, <3>5, <3>6, <3>7, <3>8, <3>9, <3>10, <3>11,
      <3>12, <3>13, <3>14 DEF Importer
  <2>3. CASE ImportFault
    <3>1. ASSUME NEW p \in Pollers, ImportThrows(p) PROVE Kept
      BY <3>1 DEF ImportThrows, StepTo
    <3>2. ASSUME NEW p \in Pollers, CatchThrows(p) PROVE Kept
      BY <3>2 DEF CatchThrows, LeaveImport
    <3>3. ASSUME NEW p \in Pollers, ImportTickFails(p) PROVE Kept
      BY <3>3 DEF ImportTickFails, StepTo
    <3>4. CASE ImporterCrash
      BY <3>4 DEF ImporterCrash
    <3>. QED
      BY <2>3, <3>1, <3>2, <3>3, <3>4 DEF ImportFault
  <2>4. CASE UNCHANGED importVars
    BY <2>4 DEF importVars
  <2>. QED
    BY <2>1, <2>2, <2>3, <2>4 DEF ImportNext
<1>. QED
  BY <1>1, ImportsTypedInvariant, OneInvariant, PTL DEF ImportSpec, AppliedIsFinal

-----------------------------------------------------------------------------
(* Verification *)

Early == {"dispatching", "probing", "storing", "matching", "touching", "reopening",
          "attaching", "marking", "finishing", "completing"}
Late == {"resolving", "promoting", "resolved", "noting"}
Seeing == {"matching", "touching", "reopening", "attaching"}

VerificationTyped ==
    /\ weakness \in BOOLEAN /\ finding \in FindingStates
    /\ noted \in Verifications \cup {0}
    /\ runStatus \in [Verifications -> {"none", "queued", "running", "completed",
                                        "aborted", "failed"}]
    /\ aim \in [Verifications -> {"none", "pending", "in_progress", "completed",
                                  "failed", "excluded"}]
    /\ artifact \in [Verifications -> {"none", "nothing", "weakness"}]
    /\ observedIn \subseteq Verifications \cup {0}
    /\ attachedIn \subseteq observedIn
    /\ outcome \in [Verifications -> {"none", "pending", "inconclusive", "still_present",
                                      "confirmed_resolved"}]
    /\ doing \in Early \cup Late \cup {"idle"}
    /\ handling \in Verifications \cup {0}
    /\ handling = 0 <=> doing = "idle"
    /\ readState \in FindingStates \cup {"none"}
    /\ doing \in Seeing => handling \in observedIn
    /\ verificationFaults \in 0..MaxVerificationFaults

LEMMA NumbersOfRuns == 0 \notin Verifications /\ MaxVerificationFaults \in Nat
BY VerificationsAssumption, VerificationFaultsAssumption

LEMMA MayFollowTyped ==
  /\ \A s \in FindingStates : MayFollow[s] \subseteq FindingStates \ {"verified_resolved"}
  /\ PROMOTABLE \subseteq FindingStates
BY DEF FindingStates, MayFollow, PROMOTABLE

LEMMA VerificationTypedInvariant == VerificationSpec => []VerificationTyped
<1>1. VerificationInit => VerificationTyped
  BY NumbersOfRuns DEF VerificationInit, VerificationTyped, FindingStates, Early, Late, Seeing
<1>2. VerificationTyped /\ [VerificationNext]_verificationVars => VerificationTyped'
  <2> SUFFICES ASSUME VerificationTyped, [VerificationNext]_verificationVars
      PROVE VerificationTyped'
    OBVIOUS
  <2>1. CASE ProcessVerification
    <3>1. ASSUME NEW y \in Verifications, TakeVerification(y) PROVE VerificationTyped'
      BY <3>1, NumbersOfRuns DEF TakeVerification, Early, Late, Seeing, issueRow, runRows,
        evidence, workerPass, At, GoTo, AtRest, VerificationTyped
    <3>2. CASE DispatchTarget
      BY <3>2, NumbersOfRuns DEF DispatchTarget, Early, Late, Seeing, issueRow, runRows,
        evidence, workerPass, At, GoTo, AtRest, VerificationTyped
    <3>3. CASE ProbeTarget
      BY <3>3, NumbersOfRuns DEF ProbeTarget, Early, Late, Seeing, issueRow, runRows,
        evidence, workerPass, At, GoTo, AtRest, VerificationTyped
    <3>4. CASE StoreObservation
      BY <3>4, NumbersOfRuns DEF StoreObservation, Early, Late, Seeing, issueRow, runRows,
        evidence, workerPass, At, GoTo, AtRest, VerificationTyped
    <3>5. CASE FindIssue
      BY <3>5, NumbersOfRuns DEF FindIssue, Early, Late, Seeing, issueRow, runRows,
        evidence, workerPass, At, GoTo, AtRest, VerificationTyped
    <3>6. CASE TouchIssue
      BY <3>6, NumbersOfRuns DEF TouchIssue, FindingStates, Early, Late, Seeing, issueRow,
        runRows, evidence, workerPass, At, GoTo, AtRest, VerificationTyped
    <3>7. CASE NoteReopening
      BY <3>7, NumbersOfRuns DEF NoteReopening, Early, Late, Seeing, issueRow, runRows,
        evidence, workerPass, At, GoTo, AtRest, VerificationTyped
    <3>8. CASE AttachObservation
      BY <3>8, NumbersOfRuns DEF AttachObservation, Early, Late, Seeing, issueRow, runRows,
        evidence, workerPass, At, GoTo, AtRest, VerificationTyped
    <3>9. CASE MarkTarget
      BY <3>9, NumbersOfRuns DEF MarkTarget, Early, Late, Seeing, issueRow, runRows,
        evidence, workerPass, At, GoTo, AtRest, VerificationTyped
    <3>10. CASE ReadFinalStatus
      BY <3>10, NumbersOfRuns DEF ReadFinalStatus, Early, Late, Seeing, issueRow, runRows,
        evidence, workerPass, At, GoTo, AtRest, VerificationTyped
    <3>11. CASE CompleteRun
      BY <3>11, NumbersOfRuns DEF CompleteRun, Early, Late, Seeing, issueRow, runRows,
        evidence, workerPass, At, GoTo, AtRest, VerificationTyped
    <3>12. CASE SetOutcome
      BY <3>12, NumbersOfRuns DEF SetOutcome, OutcomeOf, Early, Late, Seeing, issueRow,
        runRows, evidence, workerPass, At, GoTo, AtRest, VerificationTyped
    <3>13. CASE ReadForPromotion
      BY <3>13, NumbersOfRuns DEF ReadForPromotion, Early, Late, Seeing, issueRow, runRows,
        evidence, workerPass, At, GoTo, AtRest, VerificationTyped
    <3>14. CASE PromoteIssue
      BY <3>14, NumbersOfRuns DEF PromoteIssue, FindingStates, Early, Late, Seeing,
        issueRow, runRows, evidence, workerPass, At, GoTo, AtRest, VerificationTyped
    <3>15. CASE NotePromotion
      BY <3>15, NumbersOfRuns DEF NotePromotion, Early, Late, Seeing, issueRow, runRows,
        evidence, workerPass, At, GoTo, AtRest, VerificationTyped
    <3>. QED
      BY <2>1, <3>1, <3>2, <3>3, <3>4, <3>5, <3>6, <3>7, <3>8, <3>9, <3>10, <3>11, <3>12,
         <3>13, <3>14, <3>15 DEF ProcessVerification
  <2>2. CASE WeaknessTurns
    BY <2>2, NumbersOfRuns DEF WeaknessTurns, Early, Late, Seeing, issueRow, runRows,
      evidence, workerPass, At, GoTo, AtRest, VerificationTyped
  <2>3. ASSUME NEW to \in FindingStates, Decide(to) PROVE VerificationTyped'
    BY <2>3, MayFollowTyped DEF Decide, FindingStates, Early, Late, Seeing, issueRow,
      runRows, evidence, workerPass, At, GoTo, AtRest, VerificationTyped
  <2>4. ASSUME NEW y \in Verifications, RequestVerification(y) PROVE VerificationTyped'
    BY <2>4, NumbersOfRuns DEF RequestVerification, Early, Late, Seeing, issueRow, runRows,
      evidence, workerPass, At, GoTo, AtRest, VerificationTyped
  <2>5. ASSUME NEW y \in Verifications, AbortVerification(y) PROVE VerificationTyped'
    BY <2>5, NumbersOfRuns DEF AbortVerification, Early, Late, Seeing, issueRow, runRows,
      evidence, workerPass, At, GoTo, AtRest, VerificationTyped
  <2>6. CASE DropObservation
    BY <2>6, NumbersOfRuns DEF DropObservation, VerificationFault, Unfinished, Early, Late,
      Seeing, issueRow, runRows, evidence, workerPass, At, GoTo, AtRest, VerificationTyped
  <2>7. CASE RunThrows
    BY <2>7, NumbersOfRuns DEF RunThrows, VerificationFault, Unfinished, Early, Late,
      Seeing, issueRow, runRows, evidence, workerPass, At, GoTo, AtRest, VerificationTyped
  <2>8. CASE VerifierCrash
    BY <2>8, NumbersOfRuns DEF VerifierCrash, VerificationFault, Unfinished, Early, Late,
      Seeing, issueRow, runRows, evidence, workerPass, At, GoTo, AtRest, VerificationTyped
  <2>9. CASE UNCHANGED verificationVars
    BY <2>9 DEF verificationVars, issueRow, runRows, evidence, workerPass, At, GoTo, AtRest,
      VerificationTyped
  <2>. QED
    BY <2>1, <2>2, <2>3, <2>4, <2>5, <2>6, <2>7, <2>8, <2>9 DEF VerificationNext
<1>. QED
  BY <1>1, <1>2, PTL DEF VerificationSpec

\* What is known of a run from when it is requested to its outcome.
RunIsHonest(y) ==
    /\ runStatus[y] = "none" => outcome[y] = "none" /\ aim[y] = "none" /\ noted # y
    /\ runStatus[y] # "none" => outcome[y] # "none"
    /\ outcome[y] \notin {"none", "pending"} => runStatus[y] = "completed"
    /\ handling = y /\ doing = "resolving" => outcome[y] = "pending"
    /\ handling = y /\ doing \in Early => runStatus[y] \in {"running", "aborted"}
    /\ handling = y /\ doing \in Late => runStatus[y] = "completed"
    /\ y \in observedIn => artifact[y] # "none" /\ aim[y] \notin {"none", "pending"}
    /\ y \in attachedIn => artifact[y] = "weakness"
    /\ handling = y /\ doing \in {"probing", "storing"} =>
         y \notin observedIn /\ aim[y] = "in_progress"
    /\ handling = y /\ doing = "storing" => artifact[y] # "none"
    /\ handling = y /\ doing \in Seeing => artifact[y] = "weakness"
    /\ handling = y /\ doing \in Late \ {"resolving"} => outcome[y] = "confirmed_resolved"
    /\ verificationFaults = 0 =>
         /\ y \in observedIn /\ artifact[y] = "weakness" =>
              y \in attachedIn \/ (handling = y /\ doing \in Seeing)
         /\ runStatus[y] = "completed" /\ outcome[y] = "pending" =>
              handling = y /\ doing = "resolving"

RunsAreHonest == \A y \in Verifications : RunIsHonest(y)

\* Outcomes that were given are not taken back, and what says that an issue is
\* resolved goes by one.
OutcomesAreHonest ==
    /\ \A y \in Verifications :
         /\ outcome[y] = "still_present" => artifact[y] = "weakness"
         /\ outcome[y] = "confirmed_resolved" /\ verificationFaults = 0 =>
              artifact[y] = "nothing"
         /\ outcome[y] = "inconclusive" => y \notin observedIn
    /\ finding = "verified_resolved" =>
         \E y \in Verifications : outcome[y] = "confirmed_resolved"
    /\ noted # 0 => outcome[noted] = "confirmed_resolved"

Honest == RunsAreHonest /\ OutcomesAreHonest

\* 4.6 and MOD-13, for any number of verifications of an issue, however people,
\* crashes and rejected statements come between.
THEOREM VerificationsAreHonest == VerificationSpec => []VerificationIsHonest
<1>1. VerificationInit => Honest
  BY NumbersOfRuns DEF VerificationInit, Honest, RunsAreHonest, RunIsHonest, OutcomesAreHonest,
    FindingStates,
    Early, Late, Seeing
<1>2. VerificationTyped /\ VerificationTyped' /\ Honest
    /\ [VerificationNext]_verificationVars => Honest'
  <2> SUFFICES ASSUME VerificationTyped, VerificationTyped', Honest,
      [VerificationNext]_verificationVars PROVE Honest'
    OBVIOUS
  <2>1. CASE ProcessVerification
    <3>1. ASSUME NEW y \in Verifications, TakeVerification(y) PROVE Honest'
      <4>1. RunsAreHonest'
        BY <3>1, NumbersOfRuns DEF TakeVerification, Honest, RunsAreHonest, RunIsHonest,
          VerificationTyped, Early, Late, Seeing, issueRow, runRows, evidence, workerPass, At,
          GoTo, AtRest, Unfinished
      <4>2. OutcomesAreHonest'
        BY <3>1, <4>1, NumbersOfRuns DEF TakeVerification, Honest, RunsAreHonest, RunIsHonest,
          OutcomesAreHonest, VerificationTyped, Early, Late, Seeing, issueRow, runRows, evidence,
          workerPass, At, GoTo, AtRest, Unfinished
      <4>. QED
        BY <4>1, <4>2 DEF Honest
    <3>2. CASE DispatchTarget
      <4>1. RunsAreHonest'
        BY <3>2, NumbersOfRuns DEF DispatchTarget, Honest, RunsAreHonest, RunIsHonest,
          VerificationTyped, Early, Late, Seeing, issueRow, runRows, evidence, workerPass, At,
          GoTo, AtRest
      <4>2. OutcomesAreHonest'
        BY <3>2, <4>1, NumbersOfRuns DEF DispatchTarget, Honest, RunsAreHonest, RunIsHonest,
          OutcomesAreHonest, VerificationTyped, Early, Late, Seeing, issueRow, runRows, evidence,
          workerPass, At, GoTo, AtRest
      <4>. QED
        BY <4>1, <4>2 DEF Honest
    <3>3. CASE ProbeTarget
      <4>1. RunsAreHonest'
        BY <3>3, NumbersOfRuns DEF ProbeTarget, Honest, RunsAreHonest, RunIsHonest,
          VerificationTyped, Early, Late, Seeing, issueRow, runRows, evidence, workerPass, At,
          GoTo, AtRest
      <4>2. OutcomesAreHonest'
        BY <3>3, <4>1, NumbersOfRuns DEF ProbeTarget, Honest, RunsAreHonest, RunIsHonest,
          OutcomesAreHonest, VerificationTyped, Early, Late, Seeing, issueRow, runRows, evidence,
          workerPass, At, GoTo, AtRest
      <4>. QED
        BY <4>1, <4>2 DEF Honest
    <3>4. CASE StoreObservation
      <4>1. RunsAreHonest'
        BY <3>4, NumbersOfRuns DEF StoreObservation, Honest, RunsAreHonest, RunIsHonest,
          VerificationTyped, Early, Late, Seeing, issueRow, runRows, evidence, workerPass, At,
          GoTo, AtRest
      <4>2. OutcomesAreHonest'
        BY <3>4, <4>1, NumbersOfRuns DEF StoreObservation, Honest, RunsAreHonest, RunIsHonest,
          OutcomesAreHonest, VerificationTyped, Early, Late, Seeing, issueRow, runRows, evidence,
          workerPass, At, GoTo, AtRest
      <4>. QED
        BY <4>1, <4>2 DEF Honest
    <3>5. CASE FindIssue
      <4>1. RunsAreHonest'
        BY <3>5, NumbersOfRuns DEF FindIssue, Honest, RunsAreHonest, RunIsHonest, VerificationTyped,
          Early, Late, Seeing, issueRow, runRows, evidence, workerPass, At, GoTo, AtRest
      <4>2. OutcomesAreHonest'
        BY <3>5, <4>1, NumbersOfRuns DEF FindIssue, Honest, RunsAreHonest, RunIsHonest,
          OutcomesAreHonest, VerificationTyped, Early, Late, Seeing, issueRow, runRows, evidence,
          workerPass, At, GoTo, AtRest
      <4>. QED
        BY <4>1, <4>2 DEF Honest
    <3>6. CASE TouchIssue
      <4>1. RunsAreHonest'
        BY <3>6, NumbersOfRuns
          DEF TouchIssue, Honest, RunsAreHonest, RunIsHonest, VerificationTyped,
          Early, Late, Seeing, issueRow, runRows, evidence, workerPass, At, GoTo, AtRest
      <4>2. OutcomesAreHonest'
        BY <3>6, <4>1, NumbersOfRuns DEF TouchIssue, Honest, RunsAreHonest, RunIsHonest,
          OutcomesAreHonest, VerificationTyped, Early, Late, Seeing, issueRow, runRows, evidence,
          workerPass, At, GoTo, AtRest
      <4>. QED
        BY <4>1, <4>2 DEF Honest
    <3>7. CASE NoteReopening
      <4>1. RunsAreHonest'
        BY <3>7, NumbersOfRuns DEF NoteReopening, Honest, RunsAreHonest, RunIsHonest,
          VerificationTyped, Early, Late, Seeing, issueRow, runRows, evidence, workerPass, At,
          GoTo, AtRest
      <4>2. OutcomesAreHonest'
        BY <3>7, <4>1, NumbersOfRuns DEF NoteReopening, Honest, RunsAreHonest, RunIsHonest,
          OutcomesAreHonest, VerificationTyped, Early, Late, Seeing, issueRow, runRows, evidence,
          workerPass, At, GoTo, AtRest
      <4>. QED
        BY <4>1, <4>2 DEF Honest
    <3>8. CASE AttachObservation
      <4>1. RunsAreHonest'
        BY <3>8, NumbersOfRuns DEF AttachObservation, Honest, RunsAreHonest, RunIsHonest,
          VerificationTyped, Early, Late, Seeing, issueRow, runRows, evidence, workerPass, At,
          GoTo, AtRest
      <4>2. OutcomesAreHonest'
        BY <3>8, <4>1, NumbersOfRuns DEF AttachObservation, Honest, RunsAreHonest, RunIsHonest,
          OutcomesAreHonest, VerificationTyped, Early, Late, Seeing, issueRow, runRows, evidence,
          workerPass, At, GoTo, AtRest
      <4>. QED
        BY <4>1, <4>2 DEF Honest
    <3>9. CASE MarkTarget
      <4>1. RunsAreHonest'
        BY <3>9, NumbersOfRuns
          DEF MarkTarget, Honest, RunsAreHonest, RunIsHonest, VerificationTyped,
          Early, Late, Seeing, issueRow, runRows, evidence, workerPass, At, GoTo, AtRest
      <4>2. OutcomesAreHonest'
        BY <3>9, <4>1, NumbersOfRuns DEF MarkTarget, Honest, RunsAreHonest, RunIsHonest,
          OutcomesAreHonest, VerificationTyped, Early, Late, Seeing, issueRow, runRows, evidence,
          workerPass, At, GoTo, AtRest
      <4>. QED
        BY <4>1, <4>2 DEF Honest
    <3>10. CASE ReadFinalStatus
      <4>1. RunsAreHonest'
        BY <3>10, NumbersOfRuns DEF ReadFinalStatus, Honest, RunsAreHonest, RunIsHonest,
          VerificationTyped, Early, Late, Seeing, issueRow, runRows, evidence, workerPass, At,
          GoTo, AtRest
      <4>2. OutcomesAreHonest'
        BY <3>10, <4>1, NumbersOfRuns DEF ReadFinalStatus, Honest, RunsAreHonest, RunIsHonest,
          OutcomesAreHonest, VerificationTyped, Early, Late, Seeing, issueRow, runRows, evidence,
          workerPass, At, GoTo, AtRest
      <4>. QED
        BY <4>1, <4>2 DEF Honest
    <3>11. CASE CompleteRun
      <4>1. RunsAreHonest'
        BY <3>11, NumbersOfRuns DEF CompleteRun, Honest, RunsAreHonest, RunIsHonest,
          VerificationTyped, Early, Late, Seeing, issueRow, runRows, evidence, workerPass, At,
          GoTo, AtRest
      <4>2. OutcomesAreHonest'
        BY <3>11, <4>1, NumbersOfRuns DEF CompleteRun, Honest, RunsAreHonest, RunIsHonest,
          OutcomesAreHonest, VerificationTyped, Early, Late, Seeing, issueRow, runRows, evidence,
          workerPass, At, GoTo, AtRest
      <4>. QED
        BY <4>1, <4>2 DEF Honest
    <3>12. CASE SetOutcome
      <4>1. RunsAreHonest'
        BY <3>12, NumbersOfRuns
          DEF SetOutcome, Honest, RunsAreHonest, RunIsHonest, VerificationTyped,
          Early, Late, Seeing, issueRow, runRows, evidence, workerPass, At, GoTo, AtRest,
          OutcomeOf, Reobserved
      <4>2. OutcomesAreHonest'
        BY <3>12, <4>1, NumbersOfRuns DEF SetOutcome, Honest, RunsAreHonest, RunIsHonest,
          OutcomesAreHonest, VerificationTyped, Early, Late, Seeing, issueRow, runRows, evidence,
          workerPass, At, GoTo, AtRest, OutcomeOf, Reobserved
      <4>. QED
        BY <4>1, <4>2 DEF Honest
    <3>13. CASE ReadForPromotion
      <4>1. RunsAreHonest'
        BY <3>13, NumbersOfRuns DEF ReadForPromotion, Honest, RunsAreHonest, RunIsHonest,
          VerificationTyped, Early, Late, Seeing, issueRow, runRows, evidence, workerPass, At,
          GoTo, AtRest
      <4>2. OutcomesAreHonest'
        BY <3>13, <4>1, NumbersOfRuns DEF ReadForPromotion, Honest, RunsAreHonest, RunIsHonest,
          OutcomesAreHonest, VerificationTyped, Early, Late, Seeing, issueRow, runRows, evidence,
          workerPass, At, GoTo, AtRest
      <4>. QED
        BY <4>1, <4>2 DEF Honest
    <3>14. CASE PromoteIssue
      <4>1. RunsAreHonest'
        BY <3>14, NumbersOfRuns DEF PromoteIssue, Honest, RunsAreHonest, RunIsHonest,
          VerificationTyped, Early, Late, Seeing, issueRow, runRows, evidence, workerPass, At,
          GoTo, AtRest
      <4>2. OutcomesAreHonest'
        BY <3>14, <4>1, NumbersOfRuns DEF PromoteIssue, Honest, RunsAreHonest, RunIsHonest,
          OutcomesAreHonest, VerificationTyped, Early, Late, Seeing, issueRow, runRows, evidence,
          workerPass, At, GoTo, AtRest
      <4>. QED
        BY <4>1, <4>2 DEF Honest
    <3>15. CASE NotePromotion
      <4>1. RunsAreHonest'
        BY <3>15, NumbersOfRuns DEF NotePromotion, Honest, RunsAreHonest, RunIsHonest,
          VerificationTyped, Early, Late, Seeing, issueRow, runRows, evidence, workerPass, At,
          GoTo, AtRest
      <4>2. OutcomesAreHonest'
        BY <3>15, <4>1, NumbersOfRuns DEF NotePromotion, Honest, RunsAreHonest, RunIsHonest,
          OutcomesAreHonest, VerificationTyped, Early, Late, Seeing, issueRow, runRows, evidence,
          workerPass, At, GoTo, AtRest
      <4>. QED
        BY <4>1, <4>2 DEF Honest
    <3>. QED
      BY <2>1, <3>1, <3>2, <3>3, <3>4, <3>5, <3>6, <3>7, <3>8, <3>9, <3>10, <3>11, <3>12,
         <3>13, <3>14, <3>15 DEF ProcessVerification
  <2>2. CASE WeaknessTurns
    <3>1. RunsAreHonest'
      BY <2>2, NumbersOfRuns DEF WeaknessTurns, Honest, RunsAreHonest, RunIsHonest,
        VerificationTyped, Early, Late, Seeing, issueRow, runRows, evidence, workerPass, At,
        GoTo, AtRest
    <3>2. OutcomesAreHonest'
      BY <2>2, <3>1, NumbersOfRuns DEF WeaknessTurns, Honest, RunsAreHonest, RunIsHonest,
        OutcomesAreHonest, VerificationTyped, Early, Late, Seeing, issueRow, runRows, evidence,
        workerPass, At, GoTo, AtRest
    <3>. QED
      BY <3>1, <3>2 DEF Honest
  <2>3. ASSUME NEW to \in FindingStates, Decide(to) PROVE Honest'
    <3>1. RunsAreHonest'
      BY <2>3, NumbersOfRuns, MayFollowTyped DEF Decide, Honest, RunsAreHonest, RunIsHonest,
        VerificationTyped, Early, Late, Seeing, issueRow, runRows, evidence, workerPass, At,
        GoTo, AtRest
    <3>2. OutcomesAreHonest'
      BY <2>3, <3>1, NumbersOfRuns, MayFollowTyped DEF Decide, Honest, RunsAreHonest, RunIsHonest,
        OutcomesAreHonest, VerificationTyped, Early, Late, Seeing, issueRow, runRows, evidence,
        workerPass, At, GoTo, AtRest
    <3>. QED
      BY <3>1, <3>2 DEF Honest
  <2>4. ASSUME NEW y \in Verifications, RequestVerification(y) PROVE Honest'
    <3>1. RunsAreHonest'
      BY <2>4, NumbersOfRuns DEF RequestVerification, Honest, RunsAreHonest, RunIsHonest,
        VerificationTyped, Early, Late, Seeing, issueRow, runRows, evidence, workerPass, At,
        GoTo, AtRest
    <3>2. OutcomesAreHonest'
      BY <2>4, <3>1, NumbersOfRuns DEF RequestVerification, Honest, RunsAreHonest, RunIsHonest,
        OutcomesAreHonest, VerificationTyped, Early, Late, Seeing, issueRow, runRows, evidence,
        workerPass, At, GoTo, AtRest
    <3>. QED
      BY <3>1, <3>2 DEF Honest
  <2>5. ASSUME NEW y \in Verifications, AbortVerification(y) PROVE Honest'
    <3>1. RunsAreHonest'
      BY <2>5, NumbersOfRuns DEF AbortVerification, Honest, RunsAreHonest, RunIsHonest,
        VerificationTyped, Early, Late, Seeing, issueRow, runRows, evidence, workerPass, At,
        GoTo, AtRest
    <3>2. OutcomesAreHonest'
      BY <2>5, <3>1, NumbersOfRuns DEF AbortVerification, Honest, RunsAreHonest, RunIsHonest,
        OutcomesAreHonest, VerificationTyped, Early, Late, Seeing, issueRow, runRows, evidence,
        workerPass, At, GoTo, AtRest
    <3>. QED
      BY <3>1, <3>2 DEF Honest
  <2>6. CASE DropObservation
    <3>1. RunsAreHonest'
      BY <2>6, NumbersOfRuns DEF DropObservation, Honest, RunsAreHonest, RunIsHonest,
        VerificationTyped, Early, Late, Seeing, issueRow, runRows, evidence, workerPass, At,
        GoTo, AtRest, VerificationFault, Unfinished
    <3>2. OutcomesAreHonest'
      BY <2>6, <3>1, NumbersOfRuns DEF DropObservation, Honest, RunsAreHonest, RunIsHonest,
        OutcomesAreHonest, VerificationTyped, Early, Late, Seeing, issueRow, runRows, evidence,
        workerPass, At, GoTo, AtRest, VerificationFault, Unfinished
    <3>. QED
      BY <3>1, <3>2 DEF Honest
  <2>7. CASE RunThrows
    <3>1. RunsAreHonest'
      BY <2>7, NumbersOfRuns DEF RunThrows, Honest, RunsAreHonest, RunIsHonest, VerificationTyped,
        Early, Late, Seeing, issueRow, runRows, evidence, workerPass, At, GoTo, AtRest,
        VerificationFault, Unfinished
    <3>2. OutcomesAreHonest'
      BY <2>7, <3>1, NumbersOfRuns DEF RunThrows, Honest, RunsAreHonest, RunIsHonest,
        OutcomesAreHonest, VerificationTyped, Early, Late, Seeing, issueRow, runRows, evidence,
        workerPass, At, GoTo, AtRest, VerificationFault, Unfinished
    <3>. QED
      BY <3>1, <3>2 DEF Honest
  <2>8. CASE VerifierCrash
    <3>1. RunsAreHonest'
      BY <2>8, NumbersOfRuns DEF VerifierCrash, Honest, RunsAreHonest, RunIsHonest,
        VerificationTyped, Early, Late, Seeing, issueRow, runRows, evidence, workerPass, At,
        GoTo, AtRest, VerificationFault, Unfinished
    <3>2. OutcomesAreHonest'
      BY <2>8, <3>1, NumbersOfRuns DEF VerifierCrash, Honest, RunsAreHonest, RunIsHonest,
        OutcomesAreHonest, VerificationTyped, Early, Late, Seeing, issueRow, runRows, evidence,
        workerPass, At, GoTo, AtRest, VerificationFault, Unfinished
    <3>. QED
      BY <3>1, <3>2 DEF Honest
  <2>9. CASE UNCHANGED verificationVars
    BY <2>9 DEF verificationVars, issueRow, runRows, evidence, workerPass, At, GoTo, AtRest,
      Honest, RunsAreHonest, RunIsHonest, OutcomesAreHonest
  <2>. QED
    BY <2>1, <2>2, <2>3, <2>4, <2>5, <2>6, <2>7, <2>8, <2>9 DEF VerificationNext
<1>3. VerificationTyped /\ Honest => VerificationIsHonest
  BY NumbersOfRuns DEF VerificationTyped, Honest, RunsAreHonest, RunIsHonest, OutcomesAreHonest,
    VerificationIsHonest, At, Late
<1>. QED
  BY <1>1, <1>2, <1>3, VerificationTypedInvariant, PTL DEF VerificationSpec

\* Every variable of a verification keeps its type.
THEOREM VerificationTypeCorrect == VerificationSpec => []VerificationTypeOK
<1>1. VerificationTyped => VerificationTypeOK
  BY DEF VerificationTyped, VerificationTypeOK
<1>. QED
  BY <1>1, VerificationTypedInvariant, PTL

-----------------------------------------------------------------------------
(* The worker's jobs together *)

\* Whatever is explored, a behaviour of the three is a behaviour of each.
LEMMA JobsAreParts == Spec => RescoreSpec /\ ImportSpec /\ VerificationSpec
<1>1. Init => RescoreInit /\ ImportInit /\ VerificationInit
  BY DEF Init
<1>2. [Next]_allVars => [RescoreNext]_rescoreVars
  BY DEF Next, allVars, RescoringPart, ImportsPart, VerificationPart
<1>3. [Next]_allVars => [ImportNext]_importVars
  BY DEF Next, allVars, RescoringPart, ImportsPart, VerificationPart
<1>4. [Next]_allVars => [VerificationNext]_verificationVars
  BY DEF Next, allVars, RescoringPart, ImportsPart, VerificationPart
<1>5. Spec => Init /\ [][Next]_allVars
  BY PTL DEF Spec
<1>. QED
  BY <1>1, <1>2, <1>3, <1>4, <1>5, PTL DEF RescoreSpec, ImportSpec, VerificationSpec

\* The types of the three, in every behaviour that the worker's runs explore.
THEOREM WorkerTypeCorrect == Spec => []WorkerTypeOK
<1>1. RescoreTypeOK /\ ImportTypeOK /\ VerificationTypeOK => WorkerTypeOK
  BY DEF WorkerTypeOK
<1>. QED
  BY <1>1, JobsAreParts, RescoringTypeCorrect, ImportsTypeCorrect, VerificationTypeCorrect, PTL

=============================================================================
