--------------------------- MODULE ScanRunsProofs ---------------------------
(***************************************************************************)
(* Theorems about ScanRuns for every value of its constants: any number of *)
(* runs, targets, scopes, rules, windows and overlapping pollers.          *)
(***************************************************************************)
EXTENDS ScanRuns, TLAPS

\* A poller inside processScanRun holds a run; TypeOK is not inductive without.
HoldsRun == \A p \in Pollers : Processing(p) => run[p] \in Runs

Typed == TypeOK /\ HoldsRun

\* The strengthened type invariant holds in every reachable state.
LEMMA TypedInvariant == Spec => []Typed
<1>1. Init => Typed
  BY BoundsAssumption
  DEF Init, Typed, TypeOK, HoldsRun, Processing, RunStatus, RowStatus, PollerStep
<1>2. Typed /\ [Next]_vars => Typed'
  <2> SUFFICES ASSUME Typed, [Next]_vars PROVE Typed'
    OBVIOUS
  <2> USE DEF Typed, TypeOK, HoldsRun, Processing, RunStatus, RowStatus, PollerStep,
     database, locals, history
  <2>1. CASE Operator
    <3>1. ASSUME NEW r \in Runs, PlanScan(r) PROVE Typed'
      BY <3>1, ScopesAssumption DEF PlanScan
    <3>2. ASSUME NEW r \in Runs, CreateRun(r) PROVE Typed'
      BY <3>2 DEF CreateRun, Created
    <3>3. ASSUME NEW r \in Runs, Pause(r) PROVE Typed'
      BY <3>3 DEF Pause, Transition
    <3>4. ASSUME NEW r \in Runs, Resume(r) PROVE Typed'
      BY <3>4 DEF Resume, Transition
    <3>5. ASSUME NEW r \in Runs, Abort(r) PROVE Typed'
      BY <3>5 DEF Abort, Transition
    <3>6. ASSUME NEW r \in Runs, NEW t \in Targets, CreateVerification(r, t) PROVE Typed'
      BY <3>6 DEF CreateVerification, Created
    <3>7. ASSUME NEW r \in Runs, NEW t \in Targets, InjectRow(r, t) PROVE Typed'
      BY <3>7 DEF InjectRow
    <3>8. CASE GlobalStop
      BY <3>8 DEF GlobalStop
    <3>9. ASSUME NEW k \in Rules, ActivateRule(k) PROVE Typed'
      BY <3>9 DEF ActivateRule
    <3>10. ASSUME NEW k \in Rules, DeactivateRule(k) PROVE Typed'
      BY <3>10 DEF DeactivateRule
    <3>11. ASSUME NEW w \in Windows, OpenWindow(w) PROVE Typed'
      BY <3>11 DEF OpenWindow
    <3>12. ASSUME NEW w \in Windows, CloseWindow(w) PROVE Typed'
      BY <3>12 DEF CloseWindow
    <3>13. ASSUME NEW s \in Scopes, SupersedeScope(s) PROVE Typed'
      BY <3>13 DEF SupersedeScope
    <3>14. ASSUME NEW r \in Runs, NEW t \in Targets, CheckVerification(r, t) PROVE Typed'
      BY <3>14 DEF CheckVerification
    <3>. QED
      BY <2>1, <3>1, <3>2, <3>3, <3>4, <3>5, <3>6, <3>7, <3>8, <3>9, <3>10, <3>11,
         <3>12, <3>13, <3>14 DEF Operator
  <2>2. ASSUME NEW p \in Pollers, Worker(p) PROVE Typed'
    <3>1. CASE Tick(p)
      BY <3>1 DEF Tick, Goto
    <3>2. CASE SelectRun(p)
      BY <3>2 DEF SelectRun, IsNextRun, Goto
    <3>3. CASE SelectNothing(p)
      BY <3>3 DEF SelectNothing, Goto
    <3>4. CASE LoadRun(p)
      BY <3>4 DEF LoadRun, Goto
    <3>5. CASE StartQueued(p)
      BY <3>5 DEF StartQueued, Goto
    <3>6. CASE StartRunning(p)
      BY <3>6 DEF StartRunning, Goto
    <3>7. CASE StartNothing(p)
      BY <3>7 DEF StartNothing, Leave
    <3>8. CASE CheckStatus(p)
      BY <3>8 DEF CheckStatus, GoesOn, Goto
    <3>9. CASE CheckBlackout(p)
      BY <3>9 DEF CheckBlackout, Goto
    <3>10. CASE FetchBatch(p)
      BY <3>10 DEF FetchBatch, PendingRows, Goto
    <3>11. CASE FetchNothing(p)
      BY <3>11 DEF FetchNothing, Goto
    <3>12. CASE LoadRules(p)
      BY <3>12 DEF LoadRules, RulesNow, Goto
    <3>13. ASSUME NEW t \in Targets, ExcludeRow(p, t) PROVE Typed'
      BY <3>13 DEF ExcludeRow, FilterRow
    <3>14. ASSUME NEW t \in Targets, RefuseRow(p, t) PROVE Typed'
      BY <3>14 DEF RefuseRow, FilterRow
    <3>15. ASSUME NEW t \in Targets, KeepRow(p, t) PROVE Typed'
      BY <3>15 DEF KeepRow, FilterRow
    <3>16. CASE FilterDone(p)
      BY <3>16 DEF FilterDone, Goto
    <3>17. CASE Dispatch(p)
      BY <3>17 DEF Dispatch, Goto
    <3>18. CASE Probe(p)
      BY <3>18 DEF Probe, Goto
    <3>19. ASSUME NEW t \in Targets, RecordOutcome(p, t) PROVE Typed'
      BY <3>19 DEF RecordOutcome
    <3>20. CASE BatchDone(p)
      BY <3>20 DEF BatchDone, Goto
    <3>21. CASE FoundRunning(p)
      BY <3>21 DEF FoundRunning, Goto
    <3>22. CASE FoundStopped(p)
      BY <3>22 DEF FoundStopped, Leave
    <3>23. CASE CountedNone(p)
      BY <3>23 DEF CountedNone, Goto
    <3>24. CASE CountedSome(p)
      BY <3>24 DEF CountedSome, Leave
    <3>25. CASE Complete(p)
      BY <3>25 DEF Complete, Goto
    <3>26. CASE Resolved(p)
      BY <3>26 DEF Resolved, Leave
    <3>27. CASE MarkFailed(p)
      BY <3>27 DEF MarkFailed, Failed, Leave
    <3>. QED
      BY <2>2, <3>1, <3>2, <3>3, <3>4, <3>5, <3>6, <3>7, <3>8, <3>9, <3>10, <3>11,
         <3>12, <3>13, <3>14, <3>15, <3>16, <3>17, <3>18, <3>19, <3>20, <3>21, <3>22,
         <3>23, <3>24, <3>25, <3>26, <3>27 DEF Worker
  <2>3. CASE Fault
    <3>1. ASSUME NEW p \in Pollers, Throw(p) PROVE Typed'
      BY <3>1, BoundsAssumption DEF Throw, Goto
    <3>2. ASSUME NEW p \in Pollers, ThrowAgain(p) PROVE Typed'
      BY <3>2, BoundsAssumption DEF ThrowAgain, Leave
    <3>3. ASSUME NEW p \in Pollers, TickFails(p) PROVE Typed'
      BY <3>3, BoundsAssumption DEF TickFails, Goto
    <3>4. CASE Crash
      BY <3>4, BoundsAssumption DEF Crash
    <3>. QED
      BY <2>3, <3>1, <3>2, <3>3, <3>4 DEF Fault
  <2>4. CASE UNCHANGED vars
    BY <2>4 DEF vars
  <2>. QED
    BY <2>1, <2>2, <2>3, <2>4 DEF Next
<1>3. QED
  BY <1>1, <1>2, PTL DEF Spec

\* Every variable of the scan pipeline keeps its type, whatever the instance.
THEOREM TypeCorrect == Spec => []TypeOK
  BY TypedInvariant, PTL DEF Typed

-----------------------------------------------------------------------------
\* What a poller may hold once rows have been filtered, and what rows say.
ScopeInv ==
    /\ \A p \in Pollers :
          /\ pc[p] = "rules" => ready[p] = {}
          /\ pc[p] \in HoldsBatch => ready[p] \subseteq Authorised[ScopeOf[run[p]]]
    /\ \A r \in Runs, t \in Targets :
          row[r][t] \in {"in_progress", "completed"} => t \in Authorised[ScopeOf[r]]

\* No action puts an unauthorised host into a dispatchable batch.
LEMMA ScopeInvariant == Spec => []ScopeInv
<1>1. Init => ScopeInv
  BY DEF Init, ScopeInv, HoldsBatch
<1>2. Typed /\ ScopeInv /\ [Next]_vars => ScopeInv'
  <2> SUFFICES ASSUME Typed, ScopeInv, [Next]_vars PROVE ScopeInv'
    OBVIOUS
  <2> USE DEF Typed, TypeOK, HoldsRun, Processing, RunStatus, RowStatus, PollerStep,
     database, locals, history, ScopeInv, HoldsBatch
  <2>1. CASE Operator
    <3>1. ASSUME NEW r \in Runs, PlanScan(r) PROVE ScopeInv'
      BY <3>1 DEF PlanScan
    <3>2. ASSUME NEW r \in Runs, CreateRun(r) PROVE ScopeInv'
      BY <3>2 DEF CreateRun, Created
    <3>3. ASSUME NEW r \in Runs, Pause(r) PROVE ScopeInv'
      BY <3>3 DEF Pause, Transition
    <3>4. ASSUME NEW r \in Runs, Resume(r) PROVE ScopeInv'
      BY <3>4 DEF Resume, Transition
    <3>5. ASSUME NEW r \in Runs, Abort(r) PROVE ScopeInv'
      BY <3>5 DEF Abort, Transition
    <3>6. ASSUME NEW r \in Runs, NEW t \in Targets, CreateVerification(r, t) PROVE ScopeInv'
      BY <3>6 DEF CreateVerification, Created
    <3>7. ASSUME NEW r \in Runs, NEW t \in Targets, InjectRow(r, t) PROVE ScopeInv'
      BY <3>7 DEF InjectRow
    <3>8. CASE GlobalStop
      BY <3>8 DEF GlobalStop
    <3>9. ASSUME NEW k \in Rules, ActivateRule(k) PROVE ScopeInv'
      BY <3>9 DEF ActivateRule
    <3>10. ASSUME NEW k \in Rules, DeactivateRule(k) PROVE ScopeInv'
      BY <3>10 DEF DeactivateRule
    <3>11. ASSUME NEW w \in Windows, OpenWindow(w) PROVE ScopeInv'
      BY <3>11 DEF OpenWindow
    <3>12. ASSUME NEW w \in Windows, CloseWindow(w) PROVE ScopeInv'
      BY <3>12 DEF CloseWindow
    <3>13. ASSUME NEW s \in Scopes, SupersedeScope(s) PROVE ScopeInv'
      BY <3>13 DEF SupersedeScope
    <3>14. ASSUME NEW r \in Runs, NEW t \in Targets, CheckVerification(r, t) PROVE ScopeInv'
      BY <3>14 DEF CheckVerification
    <3>. QED
      BY <2>1, <3>1, <3>2, <3>3, <3>4, <3>5, <3>6, <3>7, <3>8, <3>9, <3>10, <3>11,
         <3>12, <3>13, <3>14 DEF Operator
  <2>2. ASSUME NEW p \in Pollers, Worker(p) PROVE ScopeInv'
    <3>1. CASE Tick(p)
      BY <3>1 DEF Tick, Goto
    <3>2. CASE SelectRun(p)
      BY <3>2 DEF SelectRun, IsNextRun, Goto
    <3>3. CASE SelectNothing(p)
      BY <3>3 DEF SelectNothing, Goto
    <3>4. CASE LoadRun(p)
      BY <3>4 DEF LoadRun, Goto
    <3>5. CASE StartQueued(p)
      BY <3>5 DEF StartQueued, Goto
    <3>6. CASE StartRunning(p)
      BY <3>6 DEF StartRunning, Goto
    <3>7. CASE StartNothing(p)
      BY <3>7 DEF StartNothing, Leave
    <3>8. CASE CheckStatus(p)
      BY <3>8 DEF CheckStatus, GoesOn, Goto
    <3>9. CASE CheckBlackout(p)
      BY <3>9 DEF CheckBlackout, Goto
    <3>10. CASE FetchBatch(p)
      BY <3>10 DEF FetchBatch, PendingRows, Goto
    <3>11. CASE FetchNothing(p)
      BY <3>11 DEF FetchNothing, Goto
    <3>12. CASE LoadRules(p)
      BY <3>12 DEF LoadRules, RulesNow, Goto
    <3>13. ASSUME NEW t \in Targets, ExcludeRow(p, t) PROVE ScopeInv'
      BY <3>13 DEF ExcludeRow, FilterRow
    <3>14. ASSUME NEW t \in Targets, RefuseRow(p, t) PROVE ScopeInv'
      BY <3>14 DEF RefuseRow, FilterRow
    <3>15. ASSUME NEW t \in Targets, KeepRow(p, t) PROVE ScopeInv'
      BY <3>15 DEF KeepRow, FilterRow, WithinScope
    <3>16. CASE FilterDone(p)
      BY <3>16 DEF FilterDone, Goto
    <3>17. CASE Dispatch(p)
      BY <3>17 DEF Dispatch, Goto
    <3>18. CASE Probe(p)
      BY <3>18 DEF Probe, Goto
    <3>19. ASSUME NEW t \in Targets, RecordOutcome(p, t) PROVE ScopeInv'
      BY <3>19 DEF RecordOutcome
    <3>20. CASE BatchDone(p)
      BY <3>20 DEF BatchDone, Goto
    <3>21. CASE FoundRunning(p)
      BY <3>21 DEF FoundRunning, Goto
    <3>22. CASE FoundStopped(p)
      BY <3>22 DEF FoundStopped, Leave
    <3>23. CASE CountedNone(p)
      BY <3>23 DEF CountedNone, Goto
    <3>24. CASE CountedSome(p)
      BY <3>24 DEF CountedSome, Leave
    <3>25. CASE Complete(p)
      BY <3>25 DEF Complete, Goto
    <3>26. CASE Resolved(p)
      BY <3>26 DEF Resolved, Leave
    <3>27. CASE MarkFailed(p)
      BY <3>27 DEF MarkFailed, Failed, Leave
    <3>. QED
      BY <2>2, <3>1, <3>2, <3>3, <3>4, <3>5, <3>6, <3>7, <3>8, <3>9, <3>10, <3>11,
         <3>12, <3>13, <3>14, <3>15, <3>16, <3>17, <3>18, <3>19, <3>20, <3>21, <3>22,
         <3>23, <3>24, <3>25, <3>26, <3>27 DEF Worker
  <2>3. CASE Fault
    <3>1. ASSUME NEW p \in Pollers, Throw(p) PROVE ScopeInv'
      BY <3>1 DEF Throw, Goto
    <3>2. ASSUME NEW p \in Pollers, ThrowAgain(p) PROVE ScopeInv'
      BY <3>2 DEF ThrowAgain, Leave
    <3>3. ASSUME NEW p \in Pollers, TickFails(p) PROVE ScopeInv'
      BY <3>3 DEF TickFails, Goto
    <3>4. CASE Crash
      BY <3>4 DEF Crash
    <3>. QED
      BY <2>3, <3>1, <3>2, <3>3, <3>4 DEF Fault
  <2>4. CASE UNCHANGED vars
    BY <2>4 DEF vars
  <2>. QED
    BY <2>1, <2>2, <2>3, <2>4 DEF Next
<1>3. QED
  BY <1>1, <1>2, TypedInvariant, PTL DEF Spec

\* SAFE-01: no host outside the authorised scope of its run is ever handed to
\* the adapter or recorded as probed, whatever rows, crashes and overlaps occur.
THEOREM ScopeIsSafe == Spec => []ScopeSafety
<1>1. ScopeInv => ScopeSafety
  BY DEF ScopeInv, ScopeSafety, HoldsBatch
<1>2. QED
  BY <1>1, ScopeInvariant, PTL

-----------------------------------------------------------------------------
\* A running run has no late dispatch, and a poller that has dispatched late
\* must read the status again before it can dispatch.
HaltInv ==
    /\ \A r \in Runs : status[r] = "running" => lateHalt[r] = {}
    /\ \A p \in Pollers :
          /\ pc[p] \in {"blackout", "fetching", "rules", "filtering", "dispatching"}
          /\ status[run[p]] # "running"
          => p \notin lateHalt[run[p]]

\* The history of dispatches after a halt is consistent with the program.
LEMMA HaltInvariant == Spec => []HaltInv
<1>1. Init => HaltInv
  BY DEF Init, HaltInv
<1>2. Typed /\ HaltInv /\ [Next]_vars => HaltInv'
  <2> SUFFICES ASSUME Typed, HaltInv, [Next]_vars PROVE HaltInv'
    OBVIOUS
  <2> USE DEF Typed, TypeOK, HoldsRun, Processing, RunStatus, RowStatus, PollerStep,
     database, locals, history, HaltInv
  <2>1. CASE Operator
    <3>1. ASSUME NEW r \in Runs, PlanScan(r) PROVE HaltInv'
      BY <3>1 DEF PlanScan
    <3>2. ASSUME NEW r \in Runs, CreateRun(r) PROVE HaltInv'
      BY <3>2 DEF CreateRun, Created
    <3>3. ASSUME NEW r \in Runs, Pause(r) PROVE HaltInv'
      BY <3>3 DEF Pause, Transition
    <3>4. ASSUME NEW r \in Runs, Resume(r) PROVE HaltInv'
      BY <3>4 DEF Resume, Transition
    <3>5. ASSUME NEW r \in Runs, Abort(r) PROVE HaltInv'
      BY <3>5 DEF Abort, Transition
    <3>6. ASSUME NEW r \in Runs, NEW t \in Targets, CreateVerification(r, t) PROVE HaltInv'
      BY <3>6 DEF CreateVerification, Created
    <3>7. ASSUME NEW r \in Runs, NEW t \in Targets, InjectRow(r, t) PROVE HaltInv'
      BY <3>7 DEF InjectRow
    <3>8. CASE GlobalStop
      BY <3>8 DEF GlobalStop
    <3>9. ASSUME NEW k \in Rules, ActivateRule(k) PROVE HaltInv'
      BY <3>9 DEF ActivateRule
    <3>10. ASSUME NEW k \in Rules, DeactivateRule(k) PROVE HaltInv'
      BY <3>10 DEF DeactivateRule
    <3>11. ASSUME NEW w \in Windows, OpenWindow(w) PROVE HaltInv'
      BY <3>11 DEF OpenWindow
    <3>12. ASSUME NEW w \in Windows, CloseWindow(w) PROVE HaltInv'
      BY <3>12 DEF CloseWindow
    <3>13. ASSUME NEW s \in Scopes, SupersedeScope(s) PROVE HaltInv'
      BY <3>13 DEF SupersedeScope
    <3>14. ASSUME NEW r \in Runs, NEW t \in Targets, CheckVerification(r, t) PROVE HaltInv'
      BY <3>14 DEF CheckVerification
    <3>. QED
      BY <2>1, <3>1, <3>2, <3>3, <3>4, <3>5, <3>6, <3>7, <3>8, <3>9, <3>10, <3>11,
         <3>12, <3>13, <3>14 DEF Operator
  <2>2. ASSUME NEW p \in Pollers, Worker(p) PROVE HaltInv'
    <3>1. CASE Tick(p)
      BY <3>1 DEF Tick, Goto
    <3>2. CASE SelectRun(p)
      BY <3>2 DEF SelectRun, IsNextRun, Goto
    <3>3. CASE SelectNothing(p)
      BY <3>3 DEF SelectNothing, Goto
    <3>4. CASE LoadRun(p)
      BY <3>4 DEF LoadRun, Goto
    <3>5. CASE StartQueued(p)
      BY <3>5 DEF StartQueued, Goto
    <3>6. CASE StartRunning(p)
      BY <3>6 DEF StartRunning, Goto
    <3>7. CASE StartNothing(p)
      BY <3>7 DEF StartNothing, Leave
    <3>8. CASE CheckStatus(p)
      BY <3>8 DEF CheckStatus, GoesOn, Goto
    <3>9. CASE CheckBlackout(p)
      BY <3>9 DEF CheckBlackout, Goto
    <3>10. CASE FetchBatch(p)
      BY <3>10 DEF FetchBatch, PendingRows, Goto
    <3>11. CASE FetchNothing(p)
      BY <3>11 DEF FetchNothing, Goto
    <3>12. CASE LoadRules(p)
      BY <3>12 DEF LoadRules, RulesNow, Goto
    <3>13. ASSUME NEW t \in Targets, ExcludeRow(p, t) PROVE HaltInv'
      BY <3>13 DEF ExcludeRow, FilterRow
    <3>14. ASSUME NEW t \in Targets, RefuseRow(p, t) PROVE HaltInv'
      BY <3>14 DEF RefuseRow, FilterRow
    <3>15. ASSUME NEW t \in Targets, KeepRow(p, t) PROVE HaltInv'
      BY <3>15 DEF KeepRow, FilterRow
    <3>16. CASE FilterDone(p)
      BY <3>16 DEF FilterDone, Goto
    <3>17. CASE Dispatch(p)
      BY <3>17 DEF Dispatch, Goto
    <3>18. CASE Probe(p)
      BY <3>18 DEF Probe, Goto
    <3>19. ASSUME NEW t \in Targets, RecordOutcome(p, t) PROVE HaltInv'
      BY <3>19 DEF RecordOutcome
    <3>20. CASE BatchDone(p)
      BY <3>20 DEF BatchDone, Goto
    <3>21. CASE FoundRunning(p)
      BY <3>21 DEF FoundRunning, Goto
    <3>22. CASE FoundStopped(p)
      BY <3>22 DEF FoundStopped, Leave
    <3>23. CASE CountedNone(p)
      BY <3>23 DEF CountedNone, Goto
    <3>24. CASE CountedSome(p)
      BY <3>24 DEF CountedSome, Leave
    <3>25. CASE Complete(p)
      BY <3>25 DEF Complete, Goto
    <3>26. CASE Resolved(p)
      BY <3>26 DEF Resolved, Leave
    <3>27. CASE MarkFailed(p)
      BY <3>27 DEF MarkFailed, Failed, Leave
    <3>. QED
      BY <2>2, <3>1, <3>2, <3>3, <3>4, <3>5, <3>6, <3>7, <3>8, <3>9, <3>10, <3>11,
         <3>12, <3>13, <3>14, <3>15, <3>16, <3>17, <3>18, <3>19, <3>20, <3>21, <3>22,
         <3>23, <3>24, <3>25, <3>26, <3>27 DEF Worker
  <2>3. CASE Fault
    <3>1. ASSUME NEW p \in Pollers, Throw(p) PROVE HaltInv'
      BY <3>1 DEF Throw, Goto
    <3>2. ASSUME NEW p \in Pollers, ThrowAgain(p) PROVE HaltInv'
      BY <3>2 DEF ThrowAgain, Leave
    <3>3. ASSUME NEW p \in Pollers, TickFails(p) PROVE HaltInv'
      BY <3>3 DEF TickFails, Goto
    <3>4. CASE Crash
      BY <3>4 DEF Crash
    <3>. QED
      BY <2>3, <3>1, <3>2, <3>3, <3>4 DEF Fault
  <2>4. CASE UNCHANGED vars
    BY <2>4 DEF vars
  <2>. QED
    BY <2>1, <2>2, <2>3, <2>4 DEF Next
<1>3. QED
  BY <1>1, <1>2, TypedInvariant, PTL DEF Spec

\* SAFE-07: a paused, aborted or stopped run loses at most one further batch
\* per poller, however the operators' requests and the worker interleave.
THEOREM HaltIsSafe == Spec => []HaltStopsDispatch
<1>1. HaltInv => HaltStopsDispatch
  BY DEF HaltInv, HaltStopsDispatch
<1>2. QED
  BY <1>1, HaltInvariant, PTL

-----------------------------------------------------------------------------
\* A poller that has dispatched in an open window must pass the check again.
WindowInv ==
    /\ \A w \in Windows : window[w] = "upcoming" => lateWindow[w] = {}
    /\ \A p \in Pollers, w \in Windows :
          /\ pc[p] \in {"fetching", "rules", "filtering", "dispatching"}
          /\ window[w] = "open"
          /\ Applies(WindowScope[w], run[p])
          => p \notin lateWindow[w]

\* The history of dispatches in a window is consistent with the program.
LEMMA WindowInvariant == Spec => []WindowInv
<1>1. Init => WindowInv
  BY DEF Init, WindowInv
<1>2. Typed /\ WindowInv /\ [Next]_vars => WindowInv'
  <2> SUFFICES ASSUME Typed, WindowInv, [Next]_vars PROVE WindowInv'
    OBVIOUS
  <2> USE DEF Typed, TypeOK, HoldsRun, Processing, RunStatus, RowStatus, PollerStep,
     database, locals, history, WindowInv
  <2>1. CASE Operator
    <3>1. ASSUME NEW r \in Runs, PlanScan(r) PROVE WindowInv'
      BY <3>1 DEF PlanScan
    <3>2. ASSUME NEW r \in Runs, CreateRun(r) PROVE WindowInv'
      BY <3>2 DEF CreateRun, Created
    <3>3. ASSUME NEW r \in Runs, Pause(r) PROVE WindowInv'
      BY <3>3 DEF Pause, Transition
    <3>4. ASSUME NEW r \in Runs, Resume(r) PROVE WindowInv'
      BY <3>4 DEF Resume, Transition
    <3>5. ASSUME NEW r \in Runs, Abort(r) PROVE WindowInv'
      BY <3>5 DEF Abort, Transition
    <3>6. ASSUME NEW r \in Runs, NEW t \in Targets, CreateVerification(r, t) PROVE WindowInv'
      BY <3>6 DEF CreateVerification, Created
    <3>7. ASSUME NEW r \in Runs, NEW t \in Targets, InjectRow(r, t) PROVE WindowInv'
      BY <3>7 DEF InjectRow
    <3>8. CASE GlobalStop
      BY <3>8 DEF GlobalStop
    <3>9. ASSUME NEW k \in Rules, ActivateRule(k) PROVE WindowInv'
      BY <3>9 DEF ActivateRule
    <3>10. ASSUME NEW k \in Rules, DeactivateRule(k) PROVE WindowInv'
      BY <3>10 DEF DeactivateRule
    <3>11. ASSUME NEW w \in Windows, OpenWindow(w) PROVE WindowInv'
      BY <3>11 DEF OpenWindow
    <3>12. ASSUME NEW w \in Windows, CloseWindow(w) PROVE WindowInv'
      BY <3>12 DEF CloseWindow
    <3>13. ASSUME NEW s \in Scopes, SupersedeScope(s) PROVE WindowInv'
      BY <3>13 DEF SupersedeScope
    <3>14. ASSUME NEW r \in Runs, NEW t \in Targets, CheckVerification(r, t) PROVE WindowInv'
      BY <3>14 DEF CheckVerification
    <3>. QED
      BY <2>1, <3>1, <3>2, <3>3, <3>4, <3>5, <3>6, <3>7, <3>8, <3>9, <3>10, <3>11,
         <3>12, <3>13, <3>14 DEF Operator
  <2>2. ASSUME NEW p \in Pollers, Worker(p) PROVE WindowInv'
    <3>1. CASE Tick(p)
      BY <3>1 DEF Tick, Goto
    <3>2. CASE SelectRun(p)
      BY <3>2 DEF SelectRun, IsNextRun, Goto
    <3>3. CASE SelectNothing(p)
      BY <3>3 DEF SelectNothing, Goto
    <3>4. CASE LoadRun(p)
      BY <3>4 DEF LoadRun, Goto
    <3>5. CASE StartQueued(p)
      BY <3>5 DEF StartQueued, Goto
    <3>6. CASE StartRunning(p)
      BY <3>6 DEF StartRunning, Goto
    <3>7. CASE StartNothing(p)
      BY <3>7 DEF StartNothing, Leave
    <3>8. CASE CheckStatus(p)
      BY <3>8 DEF CheckStatus, GoesOn, Goto
    <3>9. CASE CheckBlackout(p)
      BY <3>9 DEF CheckBlackout, Goto, InBlackout
    <3>10. CASE FetchBatch(p)
      BY <3>10 DEF FetchBatch, PendingRows, Goto
    <3>11. CASE FetchNothing(p)
      BY <3>11 DEF FetchNothing, Goto
    <3>12. CASE LoadRules(p)
      BY <3>12 DEF LoadRules, RulesNow, Goto
    <3>13. ASSUME NEW t \in Targets, ExcludeRow(p, t) PROVE WindowInv'
      BY <3>13 DEF ExcludeRow, FilterRow
    <3>14. ASSUME NEW t \in Targets, RefuseRow(p, t) PROVE WindowInv'
      BY <3>14 DEF RefuseRow, FilterRow
    <3>15. ASSUME NEW t \in Targets, KeepRow(p, t) PROVE WindowInv'
      BY <3>15 DEF KeepRow, FilterRow
    <3>16. CASE FilterDone(p)
      BY <3>16 DEF FilterDone, Goto
    <3>17. CASE Dispatch(p)
      BY <3>17 DEF Dispatch, Goto
    <3>18. CASE Probe(p)
      BY <3>18 DEF Probe, Goto
    <3>19. ASSUME NEW t \in Targets, RecordOutcome(p, t) PROVE WindowInv'
      BY <3>19 DEF RecordOutcome
    <3>20. CASE BatchDone(p)
      BY <3>20 DEF BatchDone, Goto
    <3>21. CASE FoundRunning(p)
      BY <3>21 DEF FoundRunning, Goto
    <3>22. CASE FoundStopped(p)
      BY <3>22 DEF FoundStopped, Leave
    <3>23. CASE CountedNone(p)
      BY <3>23 DEF CountedNone, Goto
    <3>24. CASE CountedSome(p)
      BY <3>24 DEF CountedSome, Leave
    <3>25. CASE Complete(p)
      BY <3>25 DEF Complete, Goto
    <3>26. CASE Resolved(p)
      BY <3>26 DEF Resolved, Leave
    <3>27. CASE MarkFailed(p)
      BY <3>27 DEF MarkFailed, Failed, Leave
    <3>. QED
      BY <2>2, <3>1, <3>2, <3>3, <3>4, <3>5, <3>6, <3>7, <3>8, <3>9, <3>10, <3>11,
         <3>12, <3>13, <3>14, <3>15, <3>16, <3>17, <3>18, <3>19, <3>20, <3>21, <3>22,
         <3>23, <3>24, <3>25, <3>26, <3>27 DEF Worker
  <2>3. CASE Fault
    <3>1. ASSUME NEW p \in Pollers, Throw(p) PROVE WindowInv'
      BY <3>1 DEF Throw, Goto
    <3>2. ASSUME NEW p \in Pollers, ThrowAgain(p) PROVE WindowInv'
      BY <3>2 DEF ThrowAgain, Leave
    <3>3. ASSUME NEW p \in Pollers, TickFails(p) PROVE WindowInv'
      BY <3>3 DEF TickFails, Goto
    <3>4. CASE Crash
      BY <3>4 DEF Crash
    <3>. QED
      BY <2>3, <3>1, <3>2, <3>3, <3>4 DEF Fault
  <2>4. CASE UNCHANGED vars
    BY <2>4 DEF vars
  <2>. QED
    BY <2>1, <2>2, <2>3, <2>4 DEF Next
<1>3. QED
  BY <1>1, <1>2, TypedInvariant, PTL DEF Spec

\* SAFE-06: while a blackout window lasts, each poller dispatches at most the
\* one batch it had already checked for.
THEOREM BlackoutIsSafe == Spec => []BlackoutStopsDispatch
<1>1. WindowInv => BlackoutStopsDispatch
  BY DEF WindowInv, BlackoutStopsDispatch
<1>2. QED
  BY <1>1, WindowInvariant, PTL

-----------------------------------------------------------------------------
\* A kept row matches no rule of its batch, and a poller that was late for a
\* rule has read that rule before it filters the next batch.
RuleInv ==
    /\ \A p \in Pollers :
          /\ pc[p] = "rules" => ready[p] = {}
          /\ pc[p] \in {"filtering", "dispatching"} =>
                \A k \in rulesSeen[p] : RuleCovers[k] \cap ready[p] = {}
    /\ \A p \in Pollers, k \in activeRules :
          pc[p] \in {"filtering", "dispatching"} /\ p \in lateRule[k] =>
              k \in rulesSeen[p]

\* A poller past the rules read of a batch knows every rule it is late for.
LEMMA RuleInvariant == Spec => []RuleInv
<1>1. Init => RuleInv
  BY DEF Init, RuleInv
<1>2. Typed /\ RuleInv /\ [Next]_vars => RuleInv'
  <2> SUFFICES ASSUME Typed, RuleInv, [Next]_vars PROVE RuleInv'
    OBVIOUS
  <2> USE DEF Typed, TypeOK, HoldsRun, Processing, RunStatus, RowStatus, PollerStep,
     database, locals, history, RuleInv
  <2>1. CASE Operator
    <3>1. ASSUME NEW r \in Runs, PlanScan(r) PROVE RuleInv'
      BY <3>1 DEF PlanScan
    <3>2. ASSUME NEW r \in Runs, CreateRun(r) PROVE RuleInv'
      BY <3>2 DEF CreateRun, Created
    <3>3. ASSUME NEW r \in Runs, Pause(r) PROVE RuleInv'
      BY <3>3 DEF Pause, Transition
    <3>4. ASSUME NEW r \in Runs, Resume(r) PROVE RuleInv'
      BY <3>4 DEF Resume, Transition
    <3>5. ASSUME NEW r \in Runs, Abort(r) PROVE RuleInv'
      BY <3>5 DEF Abort, Transition
    <3>6. ASSUME NEW r \in Runs, NEW t \in Targets, CreateVerification(r, t) PROVE RuleInv'
      BY <3>6 DEF CreateVerification, Created
    <3>7. ASSUME NEW r \in Runs, NEW t \in Targets, InjectRow(r, t) PROVE RuleInv'
      BY <3>7 DEF InjectRow
    <3>8. CASE GlobalStop
      BY <3>8 DEF GlobalStop
    <3>9. ASSUME NEW k \in Rules, ActivateRule(k) PROVE RuleInv'
      BY <3>9 DEF ActivateRule
    <3>10. ASSUME NEW k \in Rules, DeactivateRule(k) PROVE RuleInv'
      BY <3>10 DEF DeactivateRule
    <3>11. ASSUME NEW w \in Windows, OpenWindow(w) PROVE RuleInv'
      BY <3>11 DEF OpenWindow
    <3>12. ASSUME NEW w \in Windows, CloseWindow(w) PROVE RuleInv'
      BY <3>12 DEF CloseWindow
    <3>13. ASSUME NEW s \in Scopes, SupersedeScope(s) PROVE RuleInv'
      BY <3>13 DEF SupersedeScope
    <3>14. ASSUME NEW r \in Runs, NEW t \in Targets, CheckVerification(r, t) PROVE RuleInv'
      BY <3>14 DEF CheckVerification
    <3>. QED
      BY <2>1, <3>1, <3>2, <3>3, <3>4, <3>5, <3>6, <3>7, <3>8, <3>9, <3>10, <3>11,
         <3>12, <3>13, <3>14 DEF Operator
  <2>2. ASSUME NEW p \in Pollers, Worker(p) PROVE RuleInv'
    <3>1. CASE Tick(p)
      BY <3>1 DEF Tick, Goto
    <3>2. CASE SelectRun(p)
      BY <3>2 DEF SelectRun, IsNextRun, Goto
    <3>3. CASE SelectNothing(p)
      BY <3>3 DEF SelectNothing, Goto
    <3>4. CASE LoadRun(p)
      BY <3>4 DEF LoadRun, Goto
    <3>5. CASE StartQueued(p)
      BY <3>5 DEF StartQueued, Goto
    <3>6. CASE StartRunning(p)
      BY <3>6 DEF StartRunning, Goto
    <3>7. CASE StartNothing(p)
      BY <3>7 DEF StartNothing, Leave
    <3>8. CASE CheckStatus(p)
      BY <3>8 DEF CheckStatus, GoesOn, Goto
    <3>9. CASE CheckBlackout(p)
      BY <3>9 DEF CheckBlackout, Goto
    <3>10. CASE FetchBatch(p)
      BY <3>10 DEF FetchBatch, PendingRows, Goto
    <3>11. CASE FetchNothing(p)
      BY <3>11 DEF FetchNothing, Goto
    <3>12. CASE LoadRules(p)
      BY <3>12 DEF LoadRules, RulesNow, Goto
    <3>13. ASSUME NEW t \in Targets, ExcludeRow(p, t) PROVE RuleInv'
      BY <3>13 DEF ExcludeRow, FilterRow
    <3>14. ASSUME NEW t \in Targets, RefuseRow(p, t) PROVE RuleInv'
      BY <3>14 DEF RefuseRow, FilterRow
    <3>15. ASSUME NEW t \in Targets, KeepRow(p, t) PROVE RuleInv'
      BY <3>15 DEF KeepRow, FilterRow, Covered
    <3>16. CASE FilterDone(p)
      BY <3>16 DEF FilterDone, Goto
    <3>17. CASE Dispatch(p)
      BY <3>17 DEF Dispatch, Goto
    <3>18. CASE Probe(p)
      BY <3>18 DEF Probe, Goto
    <3>19. ASSUME NEW t \in Targets, RecordOutcome(p, t) PROVE RuleInv'
      BY <3>19 DEF RecordOutcome
    <3>20. CASE BatchDone(p)
      BY <3>20 DEF BatchDone, Goto
    <3>21. CASE FoundRunning(p)
      BY <3>21 DEF FoundRunning, Goto
    <3>22. CASE FoundStopped(p)
      BY <3>22 DEF FoundStopped, Leave
    <3>23. CASE CountedNone(p)
      BY <3>23 DEF CountedNone, Goto
    <3>24. CASE CountedSome(p)
      BY <3>24 DEF CountedSome, Leave
    <3>25. CASE Complete(p)
      BY <3>25 DEF Complete, Goto
    <3>26. CASE Resolved(p)
      BY <3>26 DEF Resolved, Leave
    <3>27. CASE MarkFailed(p)
      BY <3>27 DEF MarkFailed, Failed, Leave
    <3>. QED
      BY <2>2, <3>1, <3>2, <3>3, <3>4, <3>5, <3>6, <3>7, <3>8, <3>9, <3>10, <3>11,
         <3>12, <3>13, <3>14, <3>15, <3>16, <3>17, <3>18, <3>19, <3>20, <3>21, <3>22,
         <3>23, <3>24, <3>25, <3>26, <3>27 DEF Worker
  <2>3. CASE Fault
    <3>1. ASSUME NEW p \in Pollers, Throw(p) PROVE RuleInv'
      BY <3>1 DEF Throw, Goto
    <3>2. ASSUME NEW p \in Pollers, ThrowAgain(p) PROVE RuleInv'
      BY <3>2 DEF ThrowAgain, Leave
    <3>3. ASSUME NEW p \in Pollers, TickFails(p) PROVE RuleInv'
      BY <3>3 DEF TickFails, Goto
    <3>4. CASE Crash
      BY <3>4 DEF Crash
    <3>. QED
      BY <2>3, <3>1, <3>2, <3>3, <3>4 DEF Fault
  <2>4. CASE UNCHANGED vars
    BY <2>4 DEF vars
  <2>. QED
    BY <2>1, <2>2, <2>3, <2>4 DEF Next
<1>3. QED
  BY <1>1, <1>2, TypedInvariant, PTL DEF Spec

\* SAFE-02: an exclusion rule activated in mid-run is missed by at most one
\* batch per poller, and every later batch leaves the hosts it covers alone.
THEOREM ExclusionIsSafe == Spec => []ExclusionStopsDispatch
<1>1. RuleInv => ExclusionStopsDispatch
  BY DEF RuleInv, ExclusionStopsDispatch
<1>2. QED
  BY <1>1, RuleInvariant, PTL

-----------------------------------------------------------------------------
\* A run being processed has left the queue for good, so the rows counted by
\* the worker are all the rows the run will ever have.
Started == {"running", "paused", "completed", "failed", "aborted"}

DoneInv ==
    /\ \A p \in Pollers :
          /\ Processing(p) => status[run[p]] \notin NotCreated
          /\ Processing(p) /\ pc[p] \notin {"loading", "starting", "failing"} =>
                status[run[p]] \in Started
          /\ pc[p] = "starting" /\ seen[p] = "running" => status[run[p]] \in Started
          /\ pc[p] = "completing" =>
                \A t \in Targets : row[run[p]][t] # "pending"
    /\ \A r \in Runs : status[r] = "completed" =>
          \A t \in Targets : row[r][t] # "pending"

\* Once the worker has counted no pending rows, none appear.
LEMMA DoneInvariant == Spec => []DoneInv
<1>1. Init => DoneInv
  BY DEF Init, DoneInv, Processing, NotCreated
<1>2. Typed /\ DoneInv /\ [Next]_vars => DoneInv'
  <2> SUFFICES ASSUME Typed, DoneInv, [Next]_vars PROVE DoneInv'
    OBVIOUS
  <2> USE DEF Typed, TypeOK, HoldsRun, Processing, RunStatus, RowStatus, PollerStep,
     database, locals, history, DoneInv, Started, NotCreated
  <2>1. CASE Operator
    <3>1. ASSUME NEW r \in Runs, PlanScan(r) PROVE DoneInv'
      BY <3>1 DEF PlanScan
    <3>2. ASSUME NEW r \in Runs, CreateRun(r) PROVE DoneInv'
      BY <3>2 DEF CreateRun, Created
    <3>3. ASSUME NEW r \in Runs, Pause(r) PROVE DoneInv'
      BY <3>3 DEF Pause, Transition
    <3>4. ASSUME NEW r \in Runs, Resume(r) PROVE DoneInv'
      BY <3>4 DEF Resume, Transition
    <3>5. ASSUME NEW r \in Runs, Abort(r) PROVE DoneInv'
      BY <3>5 DEF Abort, Transition, Stoppable
    <3>6. ASSUME NEW r \in Runs, NEW t \in Targets, CreateVerification(r, t) PROVE DoneInv'
      BY <3>6 DEF CreateVerification, Created
    <3>7. ASSUME NEW r \in Runs, NEW t \in Targets, InjectRow(r, t) PROVE DoneInv'
      BY <3>7 DEF InjectRow
    <3>8. CASE GlobalStop
      BY <3>8 DEF GlobalStop, Stoppable
    <3>9. ASSUME NEW k \in Rules, ActivateRule(k) PROVE DoneInv'
      BY <3>9 DEF ActivateRule
    <3>10. ASSUME NEW k \in Rules, DeactivateRule(k) PROVE DoneInv'
      BY <3>10 DEF DeactivateRule
    <3>11. ASSUME NEW w \in Windows, OpenWindow(w) PROVE DoneInv'
      BY <3>11 DEF OpenWindow
    <3>12. ASSUME NEW w \in Windows, CloseWindow(w) PROVE DoneInv'
      BY <3>12 DEF CloseWindow
    <3>13. ASSUME NEW s \in Scopes, SupersedeScope(s) PROVE DoneInv'
      BY <3>13 DEF SupersedeScope
    <3>14. ASSUME NEW r \in Runs, NEW t \in Targets, CheckVerification(r, t) PROVE DoneInv'
      BY <3>14 DEF CheckVerification
    <3>. QED
      BY <2>1, <3>1, <3>2, <3>3, <3>4, <3>5, <3>6, <3>7, <3>8, <3>9, <3>10, <3>11,
         <3>12, <3>13, <3>14 DEF Operator
  <2>2. ASSUME NEW p \in Pollers, Worker(p) PROVE DoneInv'
    <3>1. CASE Tick(p)
      BY <3>1 DEF Tick, Goto
    <3>2. CASE SelectRun(p)
      BY <3>2 DEF SelectRun, IsNextRun, Goto, Runnable
    <3>3. CASE SelectNothing(p)
      BY <3>3 DEF SelectNothing, Goto
    <3>4. CASE LoadRun(p)
      BY <3>4 DEF LoadRun, Goto
    <3>5. CASE StartQueued(p)
      BY <3>5 DEF StartQueued, Goto
    <3>6. CASE StartRunning(p)
      BY <3>6 DEF StartRunning, Goto
    <3>7. CASE StartNothing(p)
      BY <3>7 DEF StartNothing, Leave
    <3>8. CASE CheckStatus(p)
      BY <3>8 DEF CheckStatus, GoesOn, Goto
    <3>9. CASE CheckBlackout(p)
      BY <3>9 DEF CheckBlackout, Goto
    <3>10. CASE FetchBatch(p)
      BY <3>10 DEF FetchBatch, PendingRows, Goto
    <3>11. CASE FetchNothing(p)
      BY <3>11 DEF FetchNothing, Goto
    <3>12. CASE LoadRules(p)
      BY <3>12 DEF LoadRules, RulesNow, Goto
    <3>13. ASSUME NEW t \in Targets, ExcludeRow(p, t) PROVE DoneInv'
      BY <3>13 DEF ExcludeRow, FilterRow
    <3>14. ASSUME NEW t \in Targets, RefuseRow(p, t) PROVE DoneInv'
      BY <3>14 DEF RefuseRow, FilterRow
    <3>15. ASSUME NEW t \in Targets, KeepRow(p, t) PROVE DoneInv'
      BY <3>15 DEF KeepRow, FilterRow
    <3>16. CASE FilterDone(p)
      BY <3>16 DEF FilterDone, Goto
    <3>17. CASE Dispatch(p)
      BY <3>17 DEF Dispatch, Goto
    <3>18. CASE Probe(p)
      BY <3>18 DEF Probe, Goto
    <3>19. ASSUME NEW t \in Targets, RecordOutcome(p, t) PROVE DoneInv'
      BY <3>19 DEF RecordOutcome
    <3>20. CASE BatchDone(p)
      BY <3>20 DEF BatchDone, Goto
    <3>21. CASE FoundRunning(p)
      BY <3>21 DEF FoundRunning, Goto
    <3>22. CASE FoundStopped(p)
      BY <3>22 DEF FoundStopped, Leave
    <3>23. CASE CountedNone(p)
      BY <3>23 DEF CountedNone, Goto, NothingPending, PendingRows
    <3>24. CASE CountedSome(p)
      BY <3>24 DEF CountedSome, Leave
    <3>25. CASE Complete(p)
      BY <3>25 DEF Complete, Goto
    <3>26. CASE Resolved(p)
      BY <3>26 DEF Resolved, Leave
    <3>27. CASE MarkFailed(p)
      BY <3>27 DEF MarkFailed, Failed, Leave, Runnable
    <3>. QED
      BY <2>2, <3>1, <3>2, <3>3, <3>4, <3>5, <3>6, <3>7, <3>8, <3>9, <3>10, <3>11,
         <3>12, <3>13, <3>14, <3>15, <3>16, <3>17, <3>18, <3>19, <3>20, <3>21, <3>22,
         <3>23, <3>24, <3>25, <3>26, <3>27 DEF Worker
  <2>3. CASE Fault
    <3>1. ASSUME NEW p \in Pollers, Throw(p) PROVE DoneInv'
      BY <3>1 DEF Throw, Goto
    <3>2. ASSUME NEW p \in Pollers, ThrowAgain(p) PROVE DoneInv'
      BY <3>2 DEF ThrowAgain, Leave
    <3>3. ASSUME NEW p \in Pollers, TickFails(p) PROVE DoneInv'
      BY <3>3 DEF TickFails, Goto
    <3>4. CASE Crash
      BY <3>4 DEF Crash
    <3>. QED
      BY <2>3, <3>1, <3>2, <3>3, <3>4 DEF Fault
  <2>4. CASE UNCHANGED vars
    BY <2>4 DEF vars
  <2>. QED
    BY <2>1, <2>2, <2>3, <2>4 DEF Next
<1>3. QED
  BY <1>1, <1>2, TypedInvariant, PTL DEF Spec

\* A run reported completed leaves no target without a decision, even when
\* ticks overlap, the worker crashes or an operator intervenes.
THEOREM CompletedIsComplete == Spec => []CompletedLeavesNothingPending
<1>1. DoneInv => CompletedLeavesNothingPending
  BY DEF DoneInv, CompletedLeavesNothingPending
<1>2. QED
  BY <1>1, DoneInvariant, PTL

-----------------------------------------------------------------------------
\* With a single poller the rows of its batch are where it left them, and a run
\* that has not been created has no rows but what was checked for one.
SoloInv ==
    /\ \A p \in Pollers :
          /\ pc[p] = "rules" => ready[p] = {}
          /\ pc[p] \in {"rules", "filtering"} =>
                \A t \in todo[p] : row[run[p]][t] = "pending" /\ t \notin ready[p]
          /\ pc[p] \in {"filtering", "dispatching"} =>
                \A t \in ready[p] : row[run[p]][t] = "pending"
          /\ pc[p] \in {"probing", "recording"} =>
                \A t \in ready[p] : row[run[p]][t] = "in_progress"
    /\ \A r \in Runs : status[r] \in NotCreated =>
          \A t \in Targets : row[r][t] \in {"none", "checked"}

Solo == \A p, q \in Pollers : p = q

\* Between its read of a row and its writes nobody else writes that row.
LEMMA SoloInvariant == ASSUME Solo PROVE Spec => []SoloInv
<1>1. Init => SoloInv
  BY DEF Init, SoloInv, NotCreated
<1>2. Typed /\ DoneInv /\ SoloInv /\ [Next]_vars => SoloInv'
  <2> SUFFICES ASSUME Typed, DoneInv, SoloInv, [Next]_vars PROVE SoloInv'
    OBVIOUS
  <2> USE Solo DEF Typed, TypeOK, HoldsRun, Processing, RunStatus, RowStatus,
     PollerStep, database, locals, history, SoloInv, Solo, NotCreated
  <2>1. CASE Operator
    <3>1. ASSUME NEW r \in Runs, PlanScan(r) PROVE SoloInv'
      BY <3>1 DEF PlanScan
    <3>2. ASSUME NEW r \in Runs, CreateRun(r) PROVE SoloInv'
      <4>1. \A p \in Pollers : Processing(p) => run[p] # r
        BY <3>2, DoneInv DEF CreateRun, DoneInv, Started
      <4>2. \A q \in Runs : q # r => row'[q] = row[q] /\ status'[q] = status[q]
        BY <3>2 DEF CreateRun
      <4>3. status'[r] = "queued" /\ UNCHANGED <<pc, run, ready, todo>>
        BY <3>2 DEF CreateRun
      <4>4. \A p \in Pollers : Processing(p) => run[p] \in Runs /\ row'[run[p]] = row[run[p]]
        BY <4>1, <4>2
      <4>5. \A q \in Runs : status'[q] \in NotCreated =>
              \A t \in Targets : row'[q][t] \in {"none", "checked"}
        BY <4>2, <4>3
      <4>6. QED
        BY <4>3, <4>4, <4>5 DEF Processing
    <3>3. ASSUME NEW r \in Runs, Pause(r) PROVE SoloInv'
      BY <3>3 DEF Pause, Transition
    <3>4. ASSUME NEW r \in Runs, Resume(r) PROVE SoloInv'
      BY <3>4 DEF Resume, Transition
    <3>5. ASSUME NEW r \in Runs, Abort(r) PROVE SoloInv'
      BY <3>5 DEF Abort, Transition, Stoppable
    <3>6. ASSUME NEW r \in Runs, NEW t \in Targets, CreateVerification(r, t) PROVE SoloInv'
      BY <3>6 DEF CreateVerification, Created, DoneInv, Started
    <3>7. ASSUME NEW r \in Runs, NEW t \in Targets, InjectRow(r, t) PROVE SoloInv'
      BY <3>7, DoneInv DEF InjectRow, DoneInv, Started
    <3>8. CASE GlobalStop
      BY <3>8 DEF GlobalStop, Stoppable
    <3>9. ASSUME NEW k \in Rules, ActivateRule(k) PROVE SoloInv'
      BY <3>9 DEF ActivateRule
    <3>10. ASSUME NEW k \in Rules, DeactivateRule(k) PROVE SoloInv'
      BY <3>10 DEF DeactivateRule
    <3>11. ASSUME NEW w \in Windows, OpenWindow(w) PROVE SoloInv'
      BY <3>11 DEF OpenWindow
    <3>12. ASSUME NEW w \in Windows, CloseWindow(w) PROVE SoloInv'
      BY <3>12 DEF CloseWindow
    <3>13. ASSUME NEW s \in Scopes, SupersedeScope(s) PROVE SoloInv'
      BY <3>13 DEF SupersedeScope
    <3>14. ASSUME NEW r \in Runs, NEW t \in Targets, CheckVerification(r, t) PROVE SoloInv'
      BY <3>14 DEF CheckVerification, DoneInv, Started
    <3>. QED
      BY <2>1, <3>1, <3>2, <3>3, <3>4, <3>5, <3>6, <3>7, <3>8, <3>9, <3>10, <3>11,
         <3>12, <3>13, <3>14 DEF Operator
  <2>2. ASSUME NEW p \in Pollers, Worker(p) PROVE SoloInv'
    <3>1. CASE Tick(p)
      BY <3>1 DEF Tick, Goto
    <3>2. CASE SelectRun(p)
      BY <3>2 DEF SelectRun, IsNextRun, Goto, Runnable
    <3>3. CASE SelectNothing(p)
      BY <3>3 DEF SelectNothing, Goto
    <3>4. CASE LoadRun(p)
      BY <3>4 DEF LoadRun, Goto
    <3>5. CASE StartQueued(p)
      BY <3>5 DEF StartQueued, Goto, DoneInv, Started
    <3>6. CASE StartRunning(p)
      BY <3>6 DEF StartRunning, Goto
    <3>7. CASE StartNothing(p)
      BY <3>7 DEF StartNothing, Leave
    <3>8. CASE CheckStatus(p)
      BY <3>8 DEF CheckStatus, GoesOn, Goto
    <3>9. CASE CheckBlackout(p)
      BY <3>9 DEF CheckBlackout, Goto
    <3>10. CASE FetchBatch(p)
      BY <3>10 DEF FetchBatch, PendingRows, Goto
    <3>11. CASE FetchNothing(p)
      BY <3>11 DEF FetchNothing, Goto
    <3>12. CASE LoadRules(p)
      BY <3>12 DEF LoadRules, RulesNow, Goto
    <3>13. ASSUME NEW t \in Targets, ExcludeRow(p, t) PROVE SoloInv'
      BY <3>13 DEF ExcludeRow, FilterRow
    <3>14. ASSUME NEW t \in Targets, RefuseRow(p, t) PROVE SoloInv'
      BY <3>14 DEF RefuseRow, FilterRow
    <3>15. ASSUME NEW t \in Targets, KeepRow(p, t) PROVE SoloInv'
      BY <3>15 DEF KeepRow, FilterRow
    <3>16. CASE FilterDone(p)
      BY <3>16 DEF FilterDone, Goto
    <3>17. CASE Dispatch(p)
      <4>1. /\ run[p] \in Runs
            /\ status[run[p]] \notin NotCreated
        BY <3>17 DEF Dispatch, DoneInv
      <4>2. row' = [row EXCEPT ![run[p]] =
                       [t \in Targets |-> IF t \in ready[p] THEN "in_progress" ELSE @[t]]]
        BY <3>17 DEF Dispatch
      <4>3. \A t \in Targets : t \in ready[p] => row'[run[p]][t] = "in_progress"
        BY <4>1, <4>2
      <4>4. \A r \in Runs : r # run[p] => row'[r] = row[r]
        BY <4>1, <4>2
      <4>5. /\ pc' = [pc EXCEPT ![p] = "probing"]
            /\ UNCHANGED <<status, run, todo, ready>>
        BY <3>17 DEF Dispatch, Goto
      <4>6. \A q \in Pollers : q = p
        OBVIOUS
      <4>7. \A q \in Pollers : pc'[q] = "probing" /\ run'[q] = run[p] /\ ready'[q] = ready[p]
        BY <4>5, <4>6
      <4>8. ASSUME NEW r \in Runs, status'[r] \in NotCreated, NEW t \in Targets
            PROVE row'[r][t] \in {"none", "checked"}
        <5>1. r # run[p] /\ status[r] \in NotCreated
          BY <4>1, <4>5, <4>8
        <5>2. row[r][t] \in {"none", "checked"}
          BY <5>1
        <5>. QED
          BY <4>4, <5>1, <5>2
      <4>9. \A q \in Pollers : \A t \in ready'[q] : row'[run'[q]][t] = "in_progress"
        BY <4>3, <4>7
      <4>. QED
        BY <4>7, <4>8, <4>9
    <3>18. CASE Probe(p)
      BY <3>18 DEF Probe, Goto
    <3>19. ASSUME NEW t \in Targets, RecordOutcome(p, t) PROVE SoloInv'
      BY <3>19 DEF RecordOutcome
    <3>20. CASE BatchDone(p)
      BY <3>20 DEF BatchDone, Goto
    <3>21. CASE FoundRunning(p)
      BY <3>21 DEF FoundRunning, Goto
    <3>22. CASE FoundStopped(p)
      BY <3>22 DEF FoundStopped, Leave
    <3>23. CASE CountedNone(p)
      BY <3>23 DEF CountedNone, Goto
    <3>24. CASE CountedSome(p)
      BY <3>24 DEF CountedSome, Leave
    <3>25. CASE Complete(p)
      BY <3>25 DEF Complete, Goto, DoneInv, Started
    <3>26. CASE Resolved(p)
      BY <3>26 DEF Resolved, Leave
    <3>27. CASE MarkFailed(p)
      BY <3>27 DEF MarkFailed, Failed, Leave, Runnable
    <3>. QED
      BY <2>2, <3>1, <3>2, <3>3, <3>4, <3>5, <3>6, <3>7, <3>8, <3>9, <3>10, <3>11,
         <3>12, <3>13, <3>14, <3>15, <3>16, <3>17, <3>18, <3>19, <3>20, <3>21, <3>22,
         <3>23, <3>24, <3>25, <3>26, <3>27 DEF Worker
  <2>3. CASE Fault
    <3>1. ASSUME NEW p \in Pollers, Throw(p) PROVE SoloInv'
      BY <3>1 DEF Throw, Goto
    <3>2. ASSUME NEW p \in Pollers, ThrowAgain(p) PROVE SoloInv'
      BY <3>2 DEF ThrowAgain, Leave
    <3>3. ASSUME NEW p \in Pollers, TickFails(p) PROVE SoloInv'
      BY <3>3 DEF TickFails, Goto
    <3>4. CASE Crash
      BY <3>4 DEF Crash
    <3>. QED
      BY <2>3, <3>1, <3>2, <3>3, <3>4 DEF Fault
  <2>4. CASE UNCHANGED vars
    BY <2>4 DEF vars
  <2>. QED
    BY <2>1, <2>2, <2>3, <2>4 DEF Next
<1>3. QED
  BY <1>1, <1>2, TypedInvariant, DoneInvariant, PTL DEF Spec

\* When ticks do not overlap, a row with an outcome keeps it: a restarted worker
\* never probes a finished target again.
THEOREM OutcomesStay == ASSUME Solo PROVE Spec => OutcomesAreFinal
<1> DEFINE Kept == \A r \in Runs, t \in Targets :
                 row[r][t] \in {"completed", "failed", "excluded", "refused"} =>
                     row'[r][t] = row[r][t]
<1>1. Typed /\ DoneInv /\ SoloInv /\ [Next]_vars => Kept
  <2> SUFFICES ASSUME Typed, DoneInv, SoloInv, [Next]_vars PROVE Kept
    OBVIOUS
  <2> USE DEF Typed, TypeOK, HoldsRun, Processing, RunStatus, RowStatus, PollerStep,
     database, locals, history, SoloInv, NotCreated
  <2>1. CASE Operator
    <3>1. ASSUME NEW r \in Runs, PlanScan(r) PROVE Kept
      BY <3>1 DEF PlanScan
    <3>2. ASSUME NEW r \in Runs, CreateRun(r) PROVE Kept
      BY <3>2 DEF CreateRun, Created
    <3>3. ASSUME NEW r \in Runs, Pause(r) PROVE Kept
      BY <3>3 DEF Pause, Transition
    <3>4. ASSUME NEW r \in Runs, Resume(r) PROVE Kept
      BY <3>4 DEF Resume, Transition
    <3>5. ASSUME NEW r \in Runs, Abort(r) PROVE Kept
      BY <3>5 DEF Abort, Transition
    <3>6. ASSUME NEW r \in Runs, NEW t \in Targets, CreateVerification(r, t) PROVE Kept
      BY <3>6 DEF CreateVerification, Created
    <3>7. ASSUME NEW r \in Runs, NEW t \in Targets, InjectRow(r, t) PROVE Kept
      BY <3>7 DEF InjectRow
    <3>8. CASE GlobalStop
      BY <3>8 DEF GlobalStop
    <3>9. ASSUME NEW k \in Rules, ActivateRule(k) PROVE Kept
      BY <3>9 DEF ActivateRule
    <3>10. ASSUME NEW k \in Rules, DeactivateRule(k) PROVE Kept
      BY <3>10 DEF DeactivateRule
    <3>11. ASSUME NEW w \in Windows, OpenWindow(w) PROVE Kept
      BY <3>11 DEF OpenWindow
    <3>12. ASSUME NEW w \in Windows, CloseWindow(w) PROVE Kept
      BY <3>12 DEF CloseWindow
    <3>13. ASSUME NEW s \in Scopes, SupersedeScope(s) PROVE Kept
      BY <3>13 DEF SupersedeScope
    <3>14. ASSUME NEW r \in Runs, NEW t \in Targets, CheckVerification(r, t) PROVE Kept
      BY <3>14 DEF CheckVerification
    <3>. QED
      BY <2>1, <3>1, <3>2, <3>3, <3>4, <3>5, <3>6, <3>7, <3>8, <3>9, <3>10, <3>11,
         <3>12, <3>13, <3>14 DEF Operator
  <2>2. ASSUME NEW p \in Pollers, Worker(p) PROVE Kept
    <3>1. CASE Tick(p)
      BY <3>1 DEF Tick, Goto
    <3>2. CASE SelectRun(p)
      BY <3>2 DEF SelectRun, IsNextRun, Goto
    <3>3. CASE SelectNothing(p)
      BY <3>3 DEF SelectNothing, Goto
    <3>4. CASE LoadRun(p)
      BY <3>4 DEF LoadRun, Goto
    <3>5. CASE StartQueued(p)
      BY <3>5 DEF StartQueued, Goto
    <3>6. CASE StartRunning(p)
      BY <3>6 DEF StartRunning, Goto
    <3>7. CASE StartNothing(p)
      BY <3>7 DEF StartNothing, Leave
    <3>8. CASE CheckStatus(p)
      BY <3>8 DEF CheckStatus, GoesOn, Goto
    <3>9. CASE CheckBlackout(p)
      BY <3>9 DEF CheckBlackout, Goto
    <3>10. CASE FetchBatch(p)
      BY <3>10 DEF FetchBatch, PendingRows, Goto
    <3>11. CASE FetchNothing(p)
      BY <3>11 DEF FetchNothing, Goto
    <3>12. CASE LoadRules(p)
      BY <3>12 DEF LoadRules, RulesNow, Goto
    <3>13. ASSUME NEW t \in Targets, ExcludeRow(p, t) PROVE Kept
      BY <3>13 DEF ExcludeRow, FilterRow
    <3>14. ASSUME NEW t \in Targets, RefuseRow(p, t) PROVE Kept
      BY <3>14 DEF RefuseRow, FilterRow
    <3>15. ASSUME NEW t \in Targets, KeepRow(p, t) PROVE Kept
      BY <3>15 DEF KeepRow, FilterRow
    <3>16. CASE FilterDone(p)
      BY <3>16 DEF FilterDone, Goto
    <3>17. CASE Dispatch(p)
      BY <3>17 DEF Dispatch, Goto
    <3>18. CASE Probe(p)
      BY <3>18 DEF Probe, Goto
    <3>19. ASSUME NEW t \in Targets, RecordOutcome(p, t) PROVE Kept
      BY <3>19 DEF RecordOutcome
    <3>20. CASE BatchDone(p)
      BY <3>20 DEF BatchDone, Goto
    <3>21. CASE FoundRunning(p)
      BY <3>21 DEF FoundRunning, Goto
    <3>22. CASE FoundStopped(p)
      BY <3>22 DEF FoundStopped, Leave
    <3>23. CASE CountedNone(p)
      BY <3>23 DEF CountedNone, Goto
    <3>24. CASE CountedSome(p)
      BY <3>24 DEF CountedSome, Leave
    <3>25. CASE Complete(p)
      BY <3>25 DEF Complete, Goto
    <3>26. CASE Resolved(p)
      BY <3>26 DEF Resolved, Leave
    <3>27. CASE MarkFailed(p)
      BY <3>27 DEF MarkFailed, Failed, Leave
    <3>. QED
      BY <2>2, <3>1, <3>2, <3>3, <3>4, <3>5, <3>6, <3>7, <3>8, <3>9, <3>10, <3>11,
         <3>12, <3>13, <3>14, <3>15, <3>16, <3>17, <3>18, <3>19, <3>20, <3>21, <3>22,
         <3>23, <3>24, <3>25, <3>26, <3>27 DEF Worker
  <2>3. CASE Fault
    <3>1. ASSUME NEW p \in Pollers, Throw(p) PROVE Kept
      BY <3>1 DEF Throw, Goto
    <3>2. ASSUME NEW p \in Pollers, ThrowAgain(p) PROVE Kept
      BY <3>2 DEF ThrowAgain, Leave
    <3>3. ASSUME NEW p \in Pollers, TickFails(p) PROVE Kept
      BY <3>3 DEF TickFails, Goto
    <3>4. CASE Crash
      BY <3>4 DEF Crash
    <3>. QED
      BY <2>3, <3>1, <3>2, <3>3, <3>4 DEF Fault
  <2>4. CASE UNCHANGED vars
    BY <2>4 DEF vars
  <2>. QED
    BY <2>1, <2>2, <2>3, <2>4 DEF Next
<1>2. QED
  BY <1>1, TypedInvariant, DoneInvariant, SoloInvariant, PTL DEF Spec, OutcomesAreFinal

=============================================================================
