------------------------------ MODULE ScanRuns ------------------------------
(***************************************************************************)
(* The scan-run pipeline: the operator's HTTP handlers and the CLI write   *)
(* scan_runs, scan_run_targets, exclusion_rules and blackout_windows, and  *)
(* the worker's poll loop reads and writes the same rows with no lock and  *)
(* no transaction around a run.  Every statement the worker awaits is an   *)
(* action of its own, so an operator may act between any two of them.      *)
(*                                                                         *)
(* A poller is one call of pollOnce: setInterval starts one every tick,    *)
(* whether or not the previous call has returned.  One poller models a     *)
(* database that answers within a tick, two model a tick that overtakes.   *)
(***************************************************************************)
EXTENDS Naturals, FiniteSets

CONSTANTS
    Runs,          \* rows of scan_runs, with the plan preview each comes from
    Targets,       \* addresses and hostnames
    Pollers,       \* calls of pollOnce that may be in progress together
    Scopes,        \* rows of authorized_scopes
    Rules,         \* rows of exclusion_rules
    Windows,       \* non-recurring rows of blackout_windows
    Global,        \* the NULL scope_id of a rule or of a window
    NoRun,         \* no run selected
    ScopeOf,       \* scope_id of each run
    Authorised,    \* what cidr_ranges and hostnames of a scope contain
    RuleCovers,    \* the targets an address or range rule matches
    RuleScope,     \* scope_id of each rule
    WindowScope,   \* scope_id of each window
    Strays,        \* targets a row may name although no scope put it there
    BatchSize,     \* pacing.concurrentHosts, capped at 20
    MaxFaults      \* bound on crashes and thrown errors in a behaviour

ASSUME ScopesAssumption ==
    /\ Global \notin Scopes
    /\ ScopeOf \in [Runs -> Scopes]
    /\ Authorised \in [Scopes -> SUBSET Targets]
    /\ WindowScope \in [Windows -> Scopes \cup {Global}]

ASSUME RulesAssumption ==
    /\ RuleCovers \in [Rules -> SUBSET Targets]
    /\ RuleScope \in [Rules -> Scopes \cup {Global}]

ASSUME NoRunAssumption == NoRun \notin Runs

ASSUME BoundsAssumption ==
    /\ Strays \subseteq Targets
    /\ BatchSize \in Nat \ {0}
    /\ MaxFaults \in Nat

VARIABLES
    \* database
    status,         \* scan_runs.status, or the stage of the plan or check before it
    before,         \* the runs whose queued_at is earlier
    planExcluded,   \* scan_plan_previews.excluded_targets
    row,            \* scan_run_targets.status, "none" or "checked" when there is no row
    activeRules,    \* exclusion_rules with is_active
    window,         \* where the clock stands relative to each window
    superseded,     \* scopes with superseded_by_id
    \* worker process
    inFlight,       \* main.ts: the flag that should keep ticks apart
    pc,             \* the await each poller is at
    run,            \* scanRunId of the poller
    seen,           \* scanRun.status as read on entry to processScanRun
    todo,           \* rows of pendingTargets not yet filtered
    ready,          \* dispatchable rows not yet given an outcome
    rulesSeen,      \* exclusionRules of the current batch
    faults,         \* crashes and errors so far
    \* history, read by properties only
    lateHalt,       \* pollers that dispatched since the run stopped running
    lateWindow,     \* pollers that dispatched since the window opened
    lateRule        \* pollers that probed a covered host since activation

database == <<status, before, planExcluded, row, activeRules, window, superseded>>
locals   == <<run, seen, todo, ready, rulesSeen>>
history  == <<lateHalt, lateWindow, lateRule>>
vars     == <<database, inFlight, pc, locals, faults, history>>

RunStatus == {"unplanned", "planned", "checked", "queued", "running", "paused",
              "completed", "failed", "aborted"}
\* The statuses pollOnce looks for.  Mutant: a run found running is left alone.
QueuedOnly == {"queued"}
Runnable   == {"queued", "running"}
Stoppable  == {"queued", "running", "paused"}

\* "refused" is status failed with failure_class out_of_scope.
RowStatus == {"none", "checked", "pending", "in_progress", "completed", "failed",
              "excluded", "refused"}

PollerStep == {"idle", "selecting", "loading", "starting", "checking",
               "blackout", "fetching", "rules", "filtering", "dispatching",
               "probing", "recording", "finishing", "counting", "completing",
               "resolving", "failing"}

\* Steps at which processScanRun holds rows it means to probe.
HoldsBatch == {"filtering", "dispatching", "probing", "recording"}

Applies(scope, r) == scope \in {ScopeOf[r], Global}

\* activeBlackoutWindow.  Mutant: global windows are forgotten.
InOwnBlackout(r) == \E w \in Windows : window[w] = "open" /\ WindowScope[w] = ScopeOf[r]
InBlackout(r) == \E w \in Windows : window[w] = "open" /\ Applies(WindowScope[w], r)

Covered(t, rules) == \E k \in rules : t \in RuleCovers[k]

\* isTargetWithinScope.  Mutant: no second check at dispatch.
AnyTarget(r, t) == TRUE
WithinScope(r, t) == t \in Authorised[ScopeOf[r]]

\* The rows a batch is drawn from.  Mutant: failed targets are tried again.
RetriedRows(r) == {t \in Targets : row[r][t] \in {"pending", "failed"}}
PendingRows(r) == {t \in Targets : row[r][t] = "pending"}

\* The count taken before completing.  Mutant: the run is over with its loop.
LoopOver(r) == TRUE
NothingPending(r) == PendingRows(r) = {}

\* The statuses the loop goes on for.  Mutant: an abort is only a final status.
UnlessOver(s) == s \notin {"completed", "failed"}
GoesOn(s) == s = "running"

\* The rules of a batch.  Mutant: those of the batch before it.
RulesLoadedBefore(p) == rulesSeen[p]
RulesNow(p) == activeRules

\* The status after an error.  Mutant: one scan_runs.status does not admit.
Errored(s) == IF s \in Runnable THEN "error" ELSE s
Failed(s) == IF s \in Runnable THEN "failed" ELSE s

NotCreated == {"unplanned", "planned", "checked"}
Created == {r \in Runs : status[r] \notin NotCreated}

Processing(p) == pc[p] \notin {"idle", "selecting"}

-----------------------------------------------------------------------------
Init ==
    /\ status = [r \in Runs |-> "unplanned"]
    /\ before = [r \in Runs |-> {}]
    /\ planExcluded = [r \in Runs |-> {}]
    /\ row = [r \in Runs |-> [t \in Targets |-> "none"]]
    /\ activeRules = {}
    /\ window = [w \in Windows |-> "upcoming"]
    /\ superseded = {}
    /\ inFlight = "no"
    /\ pc = [p \in Pollers |-> "idle"]
    /\ run = [p \in Pollers |-> NoRun]
    /\ seen = [p \in Pollers |-> "queued"]
    /\ todo = [p \in Pollers |-> {}]
    /\ ready = [p \in Pollers |-> {}]
    /\ rulesSeen = [p \in Pollers |-> {}]
    /\ faults = 0
    /\ lateHalt = [r \in Runs |-> {}]
    /\ lateWindow = [w \in Windows |-> {}]
    /\ lateRule = [k \in Rules |-> {}]

-----------------------------------------------------------------------------
(* Operators: HTTP handlers and the global-stop CLI. *)

\* What the API excludes: the rules of the scope of the run and the global ones.
RulesOfScope(r) == {k \in activeRules : Applies(RuleScope[k], r)}

\* POST /scan-plans.
PlanScan(r) ==
    LET scope == ScopeOf[r]
        out   == {t \in Authorised[scope] : Covered(t, RulesOfScope(r))}
    IN  /\ status[r] = "unplanned"
        /\ scope \notin superseded
        /\ out # Authorised[scope]
        /\ status' = [status EXCEPT ![r] = "planned"]
        /\ planExcluded' = [planExcluded EXCEPT ![r] = out]
        /\ UNCHANGED <<before, row, activeRules, window, superseded, inFlight,
                       pc, locals, faults, history>>

\* POST /scan-runs materialises every target of the scope in one transaction.
CreateRun(r) ==
    /\ status[r] = "planned"
    /\ status' = [status EXCEPT ![r] = "queued"]
    /\ before' = [before EXCEPT ![r] = Created]
    /\ row' = [row EXCEPT ![r] =
                  [t \in Targets |->
                      IF t \notin Authorised[ScopeOf[r]] THEN "none"
                      ELSE IF t \in planExcluded[r] THEN "excluded" ELSE "pending"]]
    /\ UNCHANGED <<planExcluded, activeRules, window, superseded, inFlight, pc,
                   locals, faults, history>>

\* POST /verification-scans looks for a scope that contains the address, and for
\* a rule that excludes it; then it plans, confirms and queues a run of the one
\* target in a transaction that looks at neither again.
CheckVerification(r, t) ==
    /\ status[r] = "unplanned"
    /\ ScopeOf[r] \notin superseded
    /\ t \in Authorised[ScopeOf[r]]
    /\ ~Covered(t, RulesOfScope(r))
    /\ status' = [status EXCEPT ![r] = "checked"]
    /\ row' = [row EXCEPT ![r][t] = "checked"]
    /\ UNCHANGED <<before, planExcluded, activeRules, window, superseded, inFlight,
                   pc, locals, faults, history>>

CreateVerification(r, t) ==
    /\ status[r] = "checked"
    /\ row[r][t] = "checked"
    /\ status' = [status EXCEPT ![r] = "queued"]
    /\ before' = [before EXCEPT ![r] = Created]
    /\ row' = [row EXCEPT ![r][t] = "pending"]
    /\ UNCHANGED <<planExcluded, activeRules, window, superseded, inFlight, pc,
                   locals, faults, history>>

\* A row the API did not write: the worker's scope check is there for it.
InjectRow(r, t) ==
    /\ t \in Strays
    /\ status[r] = "queued"
    /\ row[r][t] = "none"
    /\ row' = [row EXCEPT ![r][t] = "pending"]
    /\ UNCHANGED <<status, before, planExcluded, activeRules, window, superseded,
                   inFlight, pc, locals, faults, history>>

\* transitionScanRun: the guard and the write are one UPDATE.
Transition(r, from, to) ==
    /\ status[r] \in from
    /\ status' = [status EXCEPT ![r] = to]
    /\ lateHalt' = [lateHalt EXCEPT ![r] = IF to = "running" THEN {} ELSE @]
    /\ UNCHANGED <<before, planExcluded, row, activeRules, window, superseded,
                   inFlight, pc, locals, faults, lateWindow, lateRule>>

Pause(r)  == Transition(r, {"running", "queued"}, "paused")
Resume(r) == Transition(r, {"paused"}, "running")
Abort(r)  == Transition(r, Stoppable, "aborted")

\* POST /global-stop and the CLI abort every run that is not over.
GlobalStop ==
    /\ \E r \in Runs : status[r] \in Stoppable
    /\ status' = [r \in Runs |-> IF status[r] \in Stoppable THEN "aborted"
                                 ELSE status[r]]
    /\ UNCHANGED <<before, planExcluded, row, activeRules, window, superseded,
                   inFlight, pc, locals, faults, history>>

\* POST /exclusion-rules, and PATCH with isActive true.
ActivateRule(k) ==
    /\ k \notin activeRules
    /\ activeRules' = activeRules \cup {k}
    /\ lateRule' = [lateRule EXCEPT ![k] = {}]
    /\ UNCHANGED <<status, before, planExcluded, row, window, superseded,
                   inFlight, pc, locals, faults, lateHalt, lateWindow>>

\* PATCH with isActive false.
DeactivateRule(k) ==
    /\ k \in activeRules
    /\ activeRules' = activeRules \ {k}
    /\ UNCHANGED <<status, before, planExcluded, row, window, superseded,
                   inFlight, pc, locals, faults, history>>

\* The clock passes starts_at, or a window that covers now is created.
OpenWindow(w) ==
    /\ window[w] = "upcoming"
    /\ window' = [window EXCEPT ![w] = "open"]
    /\ UNCHANGED <<status, before, planExcluded, row, activeRules, superseded,
                   inFlight, pc, locals, faults, history>>

\* The clock passes ends_at, or the window is edited away or deleted.
CloseWindow(w) ==
    /\ window[w] = "open"
    /\ window' = [window EXCEPT ![w] = "over"]
    /\ UNCHANGED <<status, before, planExcluded, row, activeRules, superseded,
                   inFlight, pc, locals, faults, history>>

\* POST /authorized-scopes/{id}/supersede.
SupersedeScope(s) ==
    /\ s \notin superseded
    /\ superseded' = superseded \cup {s}
    /\ UNCHANGED <<status, before, planExcluded, row, activeRules, window,
                   inFlight, pc, locals, faults, history>>

Operator ==
    \/ \E r \in Runs : PlanScan(r) \/ CreateRun(r) \/ Pause(r) \/ Resume(r) \/ Abort(r)
    \/ \E r \in Runs, t \in Targets :
          CheckVerification(r, t) \/ CreateVerification(r, t) \/ InjectRow(r, t)
    \/ GlobalStop
    \/ \E k \in Rules : ActivateRule(k) \/ DeactivateRule(k)
    \/ \E w \in Windows : OpenWindow(w) \/ CloseWindow(w)
    \/ \E s \in Scopes : SupersedeScope(s)

-----------------------------------------------------------------------------
(* The worker: pollOnce and processScanRun, one action per await. *)

Goto(p, step) == pc' = [pc EXCEPT ![p] = step]

\* The flag is read here and set only after the SELECT has answered.
Tick(p) ==
    /\ pc[p] = "idle"
    /\ inFlight = "no"
    /\ \E r \in Runs : status[r] \in Runnable
    /\ Goto(p, "selecting")
    /\ UNCHANGED <<database, inFlight, locals, faults, history>>

IsNextRun(r) ==
    /\ status[r] \in Runnable
    /\ \A s \in before[r] : status[s] \notin Runnable

SelectRun(p) ==
    /\ pc[p] = "selecting"
    /\ \E r \in Runs :
          /\ IsNextRun(r)
          /\ run' = [run EXCEPT ![p] = r]
    /\ inFlight' = "yes"
    /\ Goto(p, "loading")
    /\ UNCHANGED <<database, seen, todo, ready, rulesSeen, faults, history>>

SelectNothing(p) ==
    /\ pc[p] = "selecting"
    /\ \A r \in Runs : status[r] \notin Runnable
    /\ Goto(p, "idle")
    /\ UNCHANGED <<database, inFlight, locals, faults, history>>

\* finally { inFlight = false }, whoever else is still processing.
Leave(p) ==
    /\ inFlight' = "no"
    /\ pc' = [pc EXCEPT ![p] = "idle"]
    /\ run' = [run EXCEPT ![p] = NoRun]
    /\ seen' = [seen EXCEPT ![p] = "queued"]
    /\ todo' = [todo EXCEPT ![p] = {}]
    /\ ready' = [ready EXCEPT ![p] = {}]
    /\ rulesSeen' = [rulesSeen EXCEPT ![p] = {}]

LoadRun(p) ==
    /\ pc[p] = "loading"
    /\ seen' = [seen EXCEPT ![p] = status[run[p]]]
    /\ Goto(p, "starting")
    /\ UNCHANGED <<database, inFlight, run, todo, ready, rulesSeen, faults, history>>

\* The UPDATE to running does not repeat the condition it was decided on.
StartQueued(p) ==
    /\ pc[p] = "starting"
    /\ seen[p] = "queued"
    /\ status' = [status EXCEPT ![run[p]] = "running"]
    /\ lateHalt' = [lateHalt EXCEPT ![run[p]] = {}]
    /\ Goto(p, "checking")
    /\ UNCHANGED <<before, planExcluded, row, activeRules, window, superseded,
                   inFlight, locals, faults, lateWindow, lateRule>>

\* A run found running (a restart, or a run resumed) is taken up as it is.
StartRunning(p) ==
    /\ pc[p] = "starting"
    /\ seen[p] = "running"
    /\ Goto(p, "checking")
    /\ UNCHANGED <<database, inFlight, locals, faults, history>>

StartNothing(p) ==
    /\ pc[p] = "starting"
    /\ seen[p] \notin Runnable
    /\ Leave(p)
    /\ UNCHANGED <<database, faults, history>>

\* Head of the loop.  A paused run keeps the poller here, sleeping.
CheckStatus(p) ==
    /\ pc[p] = "checking"
    /\ status[run[p]] # "paused"
    /\ Goto(p, IF GoesOn(status[run[p]]) THEN "blackout" ELSE "finishing")
    /\ UNCHANGED <<database, inFlight, locals, faults, history>>

CheckBlackout(p) ==
    /\ pc[p] = "blackout"
    /\ Goto(p, IF InBlackout(run[p]) THEN "checking" ELSE "fetching")
    /\ UNCHANGED <<database, inFlight, locals, faults, history>>

IsBatch(B, pending) ==
    /\ B # {}
    /\ \/ B = pending /\ Cardinality(pending) <= BatchSize
       \/ Cardinality(B) = BatchSize

FetchBatch(p) ==
    /\ pc[p] = "fetching"
    /\ \E B \in SUBSET PendingRows(run[p]) :
          /\ IsBatch(B, PendingRows(run[p]))
          /\ todo' = [todo EXCEPT ![p] = B]
    /\ ready' = [ready EXCEPT ![p] = {}]
    /\ Goto(p, "rules")
    /\ UNCHANGED <<database, inFlight, run, seen, rulesSeen, faults, history>>

FetchNothing(p) ==
    /\ pc[p] = "fetching"
    /\ PendingRows(run[p]) = {}
    /\ Goto(p, "finishing")
    /\ UNCHANGED <<database, inFlight, locals, faults, history>>

\* All active rules, whatever their scope.
LoadRules(p) ==
    /\ pc[p] = "rules"
    /\ rulesSeen' = [rulesSeen EXCEPT ![p] = RulesNow(p)]
    /\ Goto(p, "filtering")
    /\ UNCHANGED <<database, inFlight, run, seen, todo, ready, faults, history>>

\* One row of the batch: excluded, refused as out of scope, or kept.
FilterRow(p, t) ==
    /\ pc[p] = "filtering"
    /\ t \in todo[p]
    /\ todo' = [todo EXCEPT ![p] = @ \ {t}]
    /\ UNCHANGED <<status, before, planExcluded, activeRules, window, superseded,
                   inFlight, pc, run, seen, rulesSeen, faults, history>>

ExcludeRow(p, t) ==
    /\ FilterRow(p, t)
    /\ Covered(t, rulesSeen[p])
    /\ row' = [row EXCEPT ![run[p]][t] = "excluded"]
    /\ UNCHANGED ready

RefuseRow(p, t) ==
    /\ FilterRow(p, t)
    /\ ~Covered(t, rulesSeen[p])
    /\ ~WithinScope(run[p], t)
    /\ row' = [row EXCEPT ![run[p]][t] = "refused"]
    /\ UNCHANGED ready

KeepRow(p, t) ==
    /\ FilterRow(p, t)
    /\ ~Covered(t, rulesSeen[p])
    /\ WithinScope(run[p], t)
    /\ ready' = [ready EXCEPT ![p] = @ \cup {t}]
    /\ UNCHANGED row

FilterDone(p) ==
    /\ pc[p] = "filtering"
    /\ todo[p] = {}
    /\ Goto(p, IF ready[p] = {} THEN "checking" ELSE "dispatching")
    /\ UNCHANGED <<database, inFlight, locals, faults, history>>

\* The rows become in_progress and the adapter is handed their addresses.
Dispatch(p) ==
    LET r == run[p] IN
    /\ pc[p] = "dispatching"
    /\ row' = [row EXCEPT ![r] =
                  [t \in Targets |-> IF t \in ready[p] THEN "in_progress" ELSE @[t]]]
    /\ lateHalt' = [lateHalt EXCEPT ![r] =
                       IF status[r] = "running" THEN @ ELSE @ \cup {p}]
    /\ lateWindow' = [w \in Windows |->
                         IF window[w] = "open" /\ Applies(WindowScope[w], r)
                         THEN lateWindow[w] \cup {p} ELSE lateWindow[w]]
    /\ lateRule' = [k \in Rules |->
                       IF k \in activeRules /\ RuleCovers[k] \cap ready[p] # {}
                       THEN lateRule[k] \cup {p} ELSE lateRule[k]]
    /\ Goto(p, "probing")
    /\ UNCHANGED <<status, before, planExcluded, activeRules, window, superseded,
                   inFlight, locals, faults>>

\* adapter.execute and processObservations have returned.
Probe(p) ==
    /\ pc[p] = "probing"
    /\ Goto(p, "recording")
    /\ UNCHANGED <<database, inFlight, locals, faults, history>>

\* The outcome of one target; the adapter decides which.
RecordOutcome(p, t) ==
    /\ pc[p] = "recording"
    /\ t \in ready[p]
    /\ \E outcome \in {"completed", "failed"} :
          row' = [row EXCEPT ![run[p]][t] = outcome]
    /\ ready' = [ready EXCEPT ![p] = @ \ {t}]
    /\ UNCHANGED <<status, before, planExcluded, activeRules, window, superseded,
                   inFlight, pc, run, seen, todo, rulesSeen, faults, history>>

BatchDone(p) ==
    /\ pc[p] = "recording"
    /\ ready[p] = {}
    /\ Goto(p, "checking")
    /\ UNCHANGED <<database, inFlight, locals, faults, history>>

\* After the loop the status is read once more.
FoundRunning(p) ==
    /\ pc[p] = "finishing"
    /\ status[run[p]] = "running"
    /\ Goto(p, "counting")
    /\ UNCHANGED <<database, inFlight, locals, faults, history>>

FoundStopped(p) ==
    /\ pc[p] = "finishing"
    /\ status[run[p]] # "running"
    /\ Leave(p)
    /\ UNCHANGED <<database, faults, history>>

CountedNone(p) ==
    /\ pc[p] = "counting"
    /\ NothingPending(run[p])
    /\ Goto(p, "completing")
    /\ UNCHANGED <<database, inFlight, locals, faults, history>>

CountedSome(p) ==
    /\ pc[p] = "counting"
    /\ ~NothingPending(run[p])
    /\ Leave(p)
    /\ UNCHANGED <<database, faults, history>>

\* The UPDATE to completed does not repeat the condition it was decided on.
Complete(p) ==
    /\ pc[p] = "completing"
    /\ status' = [status EXCEPT ![run[p]] = "completed"]
    /\ Goto(p, "resolving")
    /\ UNCHANGED <<before, planExcluded, row, activeRules, window, superseded,
                   inFlight, locals, faults, history>>

\* resolveVerificationScans writes issues, not rows of this module: IssueLifecycle.
Resolved(p) ==
    /\ pc[p] = "resolving"
    /\ Leave(p)
    /\ UNCHANGED <<database, faults, history>>

\* catch in pollOnce: failed, but only from queued or running.
MarkFailed(p) ==
    /\ pc[p] = "failing"
    /\ status' = [status EXCEPT ![run[p]] = Failed(@)]
    /\ Leave(p)
    /\ UNCHANGED <<before, planExcluded, row, activeRules, window, superseded,
                   faults, history>>

Worker(p) ==
    \/ Tick(p) \/ SelectRun(p) \/ SelectNothing(p) \/ LoadRun(p)
    \/ StartQueued(p) \/ StartRunning(p) \/ StartNothing(p)
    \/ CheckStatus(p) \/ CheckBlackout(p)
    \/ FetchBatch(p) \/ FetchNothing(p) \/ LoadRules(p)
    \/ (\E t \in Targets : ExcludeRow(p, t) \/ RefuseRow(p, t) \/ KeepRow(p, t))
    \/ FilterDone(p)
    \/ Dispatch(p) \/ Probe(p)
    \/ (\E t \in Targets : RecordOutcome(p, t)) \/ BatchDone(p)
    \/ FoundRunning(p) \/ FoundStopped(p) \/ CountedNone(p) \/ CountedSome(p)
    \/ Complete(p) \/ Resolved(p)
    \/ MarkFailed(p)

-----------------------------------------------------------------------------
(* Faults *)

\* Any await of processScanRun may reject.
Throw(p) ==
    /\ faults < MaxFaults
    /\ Processing(p)
    /\ pc[p] # "failing"
    /\ faults' = faults + 1
    /\ Goto(p, "failing")
    /\ UNCHANGED <<database, inFlight, locals, history>>

\* The UPDATE to failed may reject too: the run keeps its status.
ThrowAgain(p) ==
    /\ faults < MaxFaults
    /\ pc[p] = "failing"
    /\ faults' = faults + 1
    /\ Leave(p)
    /\ UNCHANGED <<database, history>>

\* The SELECT of pollOnce is outside its try: the tick is lost.
TickFails(p) ==
    /\ faults < MaxFaults
    /\ pc[p] = "selecting"
    /\ faults' = faults + 1
    /\ Goto(p, "idle")
    /\ UNCHANGED <<database, inFlight, locals, history>>

\* The worker process dies and is restarted: only the database survives.
Crash ==
    /\ faults < MaxFaults
    /\ \E p \in Pollers : pc[p] # "idle"
    /\ faults' = faults + 1
    /\ inFlight' = "no"
    /\ pc' = [p \in Pollers |-> "idle"]
    /\ run' = [p \in Pollers |-> NoRun]
    /\ seen' = [p \in Pollers |-> "queued"]
    /\ todo' = [p \in Pollers |-> {}]
    /\ ready' = [p \in Pollers |-> {}]
    /\ rulesSeen' = [p \in Pollers |-> {}]
    /\ UNCHANGED <<database, history>>

Fault == (\E p \in Pollers : Throw(p) \/ ThrowAgain(p) \/ TickFails(p)) \/ Crash

-----------------------------------------------------------------------------
Next == Operator \/ (\E p \in Pollers : Worker(p)) \/ Fault

Spec == Init /\ [][Next]_vars

\* Timers fire, awaits answer, and a window has a finite end.
Fairness ==
    /\ \A p \in Pollers : WF_vars(Worker(p))
    /\ \A w \in Windows : WF_vars(CloseWindow(w))

FairSpec == Spec /\ Fairness

-----------------------------------------------------------------------------
(* Properties *)

\* Every variable has its type.
TypeOK ==
    /\ status \in [Runs -> RunStatus]
    /\ before \in [Runs -> SUBSET Runs]
    /\ planExcluded \in [Runs -> SUBSET Targets]
    /\ row \in [Runs -> [Targets -> RowStatus]]
    /\ activeRules \in SUBSET Rules
    /\ window \in [Windows -> {"upcoming", "open", "over"}]
    /\ superseded \in SUBSET Scopes
    /\ inFlight \in {"no", "yes"}
    /\ pc \in [Pollers -> PollerStep]
    /\ run \in [Pollers -> Runs \cup {NoRun}]
    /\ seen \in [Pollers -> RunStatus]
    /\ todo \in [Pollers -> SUBSET Targets]
    /\ ready \in [Pollers -> SUBSET Targets]
    /\ rulesSeen \in [Pollers -> SUBSET Rules]
    /\ faults \in 0..MaxFaults
    /\ lateHalt \in [Runs -> SUBSET Pollers]
    /\ lateWindow \in [Windows -> SUBSET Pollers]
    /\ lateRule \in [Rules -> SUBSET Pollers]

\* SAFE-01 (isTargetWithinScope): a host outside the scope of the run is never
\* probed, whatever wrote its row, and never ends as if it had been.
ScopeSafety ==
    /\ \A p \in Pollers : pc[p] \in {"dispatching", "probing", "recording"} =>
          ready[p] \subseteq Authorised[ScopeOf[run[p]]]
    /\ \A r \in Runs, t \in Targets :
          row[r][t] \in {"in_progress", "completed"} => t \in Authorised[ScopeOf[r]]

\* SAFE-07: after a pause, an abort or a stop, a poller hands at most one more
\* batch to the adapter, the one it had already found the run running for.
HaltStopsDispatch ==
    \A p \in Pollers :
        pc[p] = "dispatching" /\ status[run[p]] # "running" =>
            p \notin lateHalt[run[p]]

\* SAFE-06: once a window covering the run has opened, a poller hands at most
\* one more batch to the adapter while it lasts, across restarts and runs.
BlackoutStopsDispatch ==
    \A p \in Pollers, w \in Windows :
        /\ pc[p] = "dispatching"
        /\ window[w] = "open"
        /\ Applies(WindowScope[w], run[p])
        => p \notin lateWindow[w]

\* SAFE-02: a rule activated in mid-run is missed for one batch at most, the
\* one whose rules were already read; later batches leave its hosts alone.
ExclusionStopsDispatch ==
    \A p \in Pollers, k \in Rules :
        /\ pc[p] = "dispatching"
        /\ k \in activeRules
        /\ RuleCovers[k] \cap ready[p] # {}
        => p \notin lateRule[k]

\* A run reported completed has no target it still owes a decision, even when
\* two pollers worked on it.
CompletedLeavesNothingPending ==
    \A r \in Runs : status[r] = "completed" =>
        \A t \in Targets : row[r][t] # "pending"

\* scan-is-stuck.md: a restarted worker does not probe again a target whose
\* row already had an outcome; no row leaves its final status.
OutcomesAreFinal ==
    [][\A r \in Runs, t \in Targets :
          row[r][t] \in {"completed", "failed", "excluded", "refused"} =>
              row'[r][t] = row[r][t]]_vars

\* A queued or running run is eventually over, unless an operator keeps some
\* run paused: a paused run holds the one slot of the worker.
RunsFinish ==
    \A r \in Runs :
        status[r] \in {"queued", "running"} ~>
            \/ status[r] \notin {"queued", "running"}
            \/ \E s \in Runs : status[s] = "paused"

\* transitionScanRun and global stop: an aborted run stays aborted.
AbortIsFinal ==
    [][\A r \in Runs : status[r] = "aborted" => status'[r] = "aborted"]_vars

\* A run reported completed has an outcome for every target it dispatched.
CompletedMeansEveryOutcome ==
    \A r \in Runs, t \in Targets :
        status[r] = "completed" => row[r][t] # "in_progress"

\* A planned run is created only under a grant that is still the one on record.
RunsUnderCurrentGrant ==
    [][\A r \in Runs : status[r] = "planned" /\ status'[r] = "queued" =>
          ScopeOf[r] \notin superseded]_vars

=============================================================================
