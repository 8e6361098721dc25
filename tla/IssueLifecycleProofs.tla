------------------------ MODULE IssueLifecycleProofs ------------------------
(***************************************************************************)
(* Theorems about IssueLifecycle for any number of issues, exceptions,     *)
(* users, overlapping requests and overlapping worker passes.              *)
(***************************************************************************)
EXTENDS IssueLifecycle, TLAPS

\* What a process that is between its read and its write refers to.
HoldsRows ==
    /\ \A q \in Requests : pc[q] \in {"viewing", "moving", "patching"} =>
          issue[q] \in Issues
    /\ \A q \in Requests : pc[q] \in {"approving", "accepting", "rejecting", "revoking"} =>
          /\ exc[q] \in Exceptions
          /\ user[q] \in Users
          /\ issue[q] = IssueOf[exc[q]]
    /\ \A w \in Pollers : pc[w] \in {"inserting", "updating", "noting"} =>
          issue[w] \in Issues
    /\ \A q \in Requests : pc[q] = "moving" => want[q] \in ManualTargets
    /\ \A w \in Pollers : pc[w] = "updating" => want[w] # "risk_accepted"
    /\ \A q \in Requests : pc[q] \notin {"inserting", "updating", "noting"}
    /\ \A w \in Pollers : pc[w] \in {"idle", "inserting", "updating", "noting"}

Typed == TypeOK /\ HoldsRows

\* The strengthened type invariant holds in every reachable state.
LEMMA TypedInvariant == Spec => []Typed
<1>1. Init => Typed
  BY DEF Init, Typed, TypeOK, HoldsRows, Procs, ProcStep, States, ManualTargets,
     ExcStatus
<1>2. Typed /\ [Next]_vars => Typed'
  <2> SUFFICES ASSUME Typed, [Next]_vars PROVE Typed'
    OBVIOUS
  <2> USE IssueOfAssumption, NullAssumption, ProcsAssumption DEF Typed, TypeOK,
     HoldsRows, Procs, ProcStep, States, ManualTargets, ExcStatus, issueRows, excRows,
     locals
  <2>1. ASSUME NEW q \in Requests, NewRequest(q) \/ RequestStep(q) PROVE Typed'
    <3>1. CASE CommitTransition(q)
      BY <3>1 DEF CommitTransition, Leave, Touched
    <3>2. CASE CheckPatch(q)
      BY <3>2 DEF CheckPatch
    <3>3. CASE CommitPatch(q)
      BY <3>3 DEF CommitPatch, Leave, Touched
    <3>4. ASSUME NEW to \in ManualTargets, CheckTransition(q, to) PROVE Typed'
      BY <3>4 DEF CheckTransition
    <3>5. CASE LockException(q)
      BY <3>5 DEF LockException, Distinct
    <3>6. CASE CommitApprove(q)
      BY <3>6 DEF CommitApprove, Leave, Touched
    <3>7. CASE CommitReject(q)
      BY <3>7 DEF CommitReject, Distinct, Leave
    <3>8. CASE CommitRevoke(q)
      BY <3>8 DEF CommitRevoke, Reopened, Leave, Touched
    <3>9. CASE GiveUp(q)
      BY <3>9 DEF GiveUp, Leave
    <3>10. ASSUME NEW i \in Issues, View(q, i) PROVE Typed'
      BY <3>10 DEF View
    <3>11. ASSUME NEW i \in Issues, NEW to \in ManualTargets, CheckBulk(q, i, to) PROVE Typed'
      BY <3>11 DEF CheckBulk
    <3>12. ASSUME NEW u \in Users, NEW e \in Exceptions, CheckApprove(q, u, e) PROVE Typed'
      BY <3>12 DEF CheckApprove, IsPending, Decide
    <3>13. ASSUME NEW u \in Users, NEW e \in Exceptions, CheckReject(q, u, e) PROVE Typed'
      BY <3>13 DEF CheckReject, IsPending, Decide
    <3>14. ASSUME NEW u \in Users, NEW e \in Exceptions, CheckRevoke(q, u, e) PROVE Typed'
      BY <3>14 DEF CheckRevoke, Decide
    <3> HIDE DEF Typed, TypeOK, HoldsRows, Procs, ProcStep, States, ManualTargets,
       ExcStatus, issueRows, excRows, locals
    <3>. QED
      BY <2>1, <3>1, <3>2, <3>3, <3>4, <3>5, <3>6, <3>7, <3>8, <3>9, <3>10, <3>11,
         <3>12, <3>13, <3>14 DEF NewRequest, RequestStep
  <2>2. ASSUME NEW w \in Pollers, NewEvidence(w) \/ WorkerStep(w) PROVE Typed'
    <3>1. ASSUME NEW i \in Issues, ObserveNew(w, i) PROVE Typed'
      BY <3>1 DEF ObserveNew, Begin
    <3>2. ASSUME NEW i \in Issues, ObserveAgain(w, i) PROVE Typed'
      BY <3>2 DEF ObserveAgain, Begin
    <3>3. ASSUME NEW i \in Issues, Verify(w, i) PROVE Typed'
      BY <3>3 DEF Verify, Begin
    <3>4. CASE InsertIssue(w)
      BY <3>4 DEF InsertIssue, Leave
    <3>5. CASE UpdateIssue(w)
      BY <3>5 DEF UpdateIssue, Touched
    <3>6. CASE NoteHistory(w)
      BY <3>6 DEF NoteHistory, Leave
    <3>7. CASE GiveUp(w)
      BY <3>7 DEF GiveUp, Leave
    <3> HIDE DEF Typed, TypeOK, HoldsRows, Procs, ProcStep, States, ManualTargets,
       ExcStatus, issueRows, excRows, locals
    <3>. QED
      BY <2>2, <3>1, <3>2, <3>3, <3>4, <3>5, <3>6, <3>7 DEF NewEvidence, WorkerStep
  <2>3. ASSUME NEW u \in Users, NEW e \in Exceptions, RequestException(u, e) PROVE Typed'
    BY <2>3 DEF RequestException
  <2>4. CASE UNCHANGED vars
    BY <2>4 DEF vars
  <2>. QED
    BY <2>1, <2>2, <2>3, <2>4 DEF Next
<1>3. QED
  BY <1>1, <1>2, PTL DEF Spec

\* Every variable of the issue lifecycle keeps its type, whatever the instance.
THEOREM TypeCorrect == Spec => []TypeOK
  BY TypedInvariant, PTL DEF Typed

-----------------------------------------------------------------------------
Decided == {"approved", "rejected", "revoked"}

\* A process that acts on an exception acts on a requested one; a decided one
\* stays decided, by somebody other than its requester; and an issue gets into
\* risk_accepted together with a link to a decided exception of its own.
DecisionInv ==
    /\ \A q \in Requests :
          /\ pc[q] \in {"approving", "accepting", "rejecting"} => status[exc[q]] # "absent"
          /\ pc[q] = "accepting" => user[q] # requester[exc[q]]
          /\ pc[q] = "revoking" => status[exc[q]] \in Decided
    /\ \A e \in Exceptions : status[e] \in Decided =>
          approver[e] \in Users \ {requester[e]}
    /\ \A i \in Issues : state[i] = "risk_accepted" =>
          /\ link[i] \in Exceptions
          /\ IssueOf[link[i]] = i
          /\ status[link[i]] \in Decided

\* No overlap of requests and scans breaks the invariant.
LEMMA DecisionInvariant == Spec => []DecisionInv
<1>1. Init => DecisionInv
  BY DEF Init, DecisionInv, Decided, Procs
<1>2. Typed /\ DecisionInv /\ [Next]_vars => DecisionInv'
  <2> SUFFICES ASSUME Typed, DecisionInv, [Next]_vars PROVE DecisionInv'
    OBVIOUS
  <2> USE IssueOfAssumption, NullAssumption, ProcsAssumption DEF Typed, TypeOK,
     HoldsRows, Procs, ProcStep, States, ManualTargets, ExcStatus, issueRows, excRows,
     locals, DecisionInv, Decided
  <2>1. ASSUME NEW q \in Requests, NewRequest(q) \/ RequestStep(q) PROVE DecisionInv'
    <3>1. CASE CommitTransition(q)
      <4>1. issue[q] \in Issues /\ want[q] \in ManualTargets
        BY <3>1 DEF CommitTransition
      <4>2. \A i \in Issues : state'[i] = "risk_accepted" => state[i] = "risk_accepted"
        BY <3>1, <4>1 DEF CommitTransition
      <4>3. pc' = [pc EXCEPT ![q] = "idle"] /\ exc' = [exc EXCEPT ![q] = NoException]
        BY <3>1 DEF CommitTransition, Leave
      <4>4. user' = [user EXCEPT ![q] = NoUser] /\ UNCHANGED <<link, status, requester, approver>>
        BY <3>1 DEF CommitTransition, Leave
      <4>. QED
        BY <4>2, <4>3, <4>4
    <3>2. CASE CheckPatch(q)
      BY <3>2 DEF CheckPatch
    <3>3. CASE CommitPatch(q)
      BY <3>3 DEF CommitPatch, Leave, Touched
    <3>4. ASSUME NEW to \in ManualTargets, CheckTransition(q, to) PROVE DecisionInv'
      BY <3>4 DEF CheckTransition
    <3>5. CASE LockException(q)
      BY <3>5 DEF LockException, Distinct
    <3>6. CASE CommitApprove(q)
      BY <3>6 DEF CommitApprove, Leave, Touched
    <3>7. CASE CommitReject(q)
      BY <3>7 DEF CommitReject, Distinct, Leave
    <3>8. CASE CommitRevoke(q)
      BY <3>8 DEF CommitRevoke, Reopened, Leave, Touched
    <3>9. CASE GiveUp(q)
      BY <3>9 DEF GiveUp, Leave
    <3>10. ASSUME NEW i \in Issues, View(q, i) PROVE DecisionInv'
      BY <3>10 DEF View
    <3>11. ASSUME NEW i \in Issues, NEW to \in ManualTargets, CheckBulk(q, i, to) PROVE DecisionInv'
      BY <3>11 DEF CheckBulk
    <3>12. ASSUME NEW u \in Users, NEW e \in Exceptions, CheckApprove(q, u, e) PROVE DecisionInv'
      BY <3>12 DEF CheckApprove, IsPending, Decide
    <3>13. ASSUME NEW u \in Users, NEW e \in Exceptions, CheckReject(q, u, e) PROVE DecisionInv'
      BY <3>13 DEF CheckReject, IsPending, Decide
    <3>14. ASSUME NEW u \in Users, NEW e \in Exceptions, CheckRevoke(q, u, e) PROVE DecisionInv'
      BY <3>14 DEF CheckRevoke, Decide
    <3> HIDE DEF Typed, TypeOK, HoldsRows, Procs, ProcStep, States, ManualTargets,
       ExcStatus, issueRows, excRows, locals, DecisionInv, Decided
    <3>. QED
      BY <2>1, <3>1, <3>2, <3>3, <3>4, <3>5, <3>6, <3>7, <3>8, <3>9, <3>10, <3>11,
         <3>12, <3>13, <3>14 DEF NewRequest, RequestStep
  <2>2. ASSUME NEW w \in Pollers, NewEvidence(w) \/ WorkerStep(w) PROVE DecisionInv'
    <3>1. ASSUME NEW i \in Issues, ObserveNew(w, i) PROVE DecisionInv'
      BY <3>1 DEF ObserveNew, Begin
    <3>2. ASSUME NEW i \in Issues, ObserveAgain(w, i) PROVE DecisionInv'
      BY <3>2 DEF ObserveAgain, Begin
    <3>3. ASSUME NEW i \in Issues, Verify(w, i) PROVE DecisionInv'
      BY <3>3 DEF Verify, Begin
    <3>4. CASE InsertIssue(w)
      BY <3>4 DEF InsertIssue, Leave
    <3>5. CASE UpdateIssue(w)
      BY <3>5 DEF UpdateIssue, Touched
    <3>6. CASE NoteHistory(w)
      BY <3>6 DEF NoteHistory, Leave
    <3>7. CASE GiveUp(w)
      BY <3>7 DEF GiveUp, Leave
    <3> HIDE DEF Typed, TypeOK, HoldsRows, Procs, ProcStep, States, ManualTargets,
       ExcStatus, issueRows, excRows, locals, DecisionInv, Decided
    <3>. QED
      BY <2>2, <3>1, <3>2, <3>3, <3>4, <3>5, <3>6, <3>7 DEF NewEvidence, WorkerStep
  <2>3. ASSUME NEW u \in Users, NEW e \in Exceptions, RequestException(u, e) PROVE DecisionInv'
    BY <2>3 DEF RequestException
  <2>4. CASE UNCHANGED vars
    BY <2>4 DEF vars
  <2>. QED
    BY <2>1, <2>2, <2>3, <2>4 DEF Next
<1>3. QED
  BY <1>1, <1>2, TypedInvariant, PTL DEF Spec

\* MOD-12: an issue whose risk is accepted names an exception of its own that
\* somebody else than the requester decided, however requests overlap.
THEOREM AcceptedIsSafe == Spec => []AcceptedByAnother
<1>1. DecisionInv => AcceptedByAnother
  BY DEF DecisionInv, AcceptedByAnother, Decided
<1>2. QED
  BY <1>1, DecisionInvariant, PTL

\* MOD-12: no exception is ever approved or rejected by its requester.
THEOREM SeparationIsSafe == Spec => []NobodyDecidesAlone
<1>1. DecisionInv => NobodyDecidesAlone
  BY DEF DecisionInv, NobodyDecidesAlone, Decided
<1>2. QED
  BY <1>1, DecisionInvariant, PTL

-----------------------------------------------------------------------------
\* A step of a request changes no decision but its own.
LEMMA RequestDecides ==
    ASSUME Typed, NEW q \in Requests, NEW s, NEW x,
           pc' = [pc EXCEPT ![q] = s], exc' = [exc EXCEPT ![q] = x]
    PROVE  Deciding' = [Deciding EXCEPT ![q] =
               IF s \in DOMAIN Verdict THEN <<x, Verdict[s]>> ELSE <<NoException, "none">>]
  BY DEF Deciding, Typed, TypeOK, Procs

\* A step of the worker changes none.
LEMMA WorkerDecidesNothing ==
    ASSUME Typed, NEW w \in Pollers, NEW s, pc' = [pc EXCEPT ![w] = s],
           exc' = exc \/ exc' = [exc EXCEPT ![w] = NoException]
    PROVE  Deciding' = Deciding
<1>1. \A q \in Requests : pc'[q] = pc[q] /\ exc'[q] = exc[q]
  BY ProcsAssumption DEF Typed, TypeOK, Procs
<1>. QED
  BY <1>1 DEF Deciding

\* However requests overlap each other and the worker, the handlers keep the
\* promise of RiskAcceptance: a decision is taken on an exception that could be
\* decided so and is carried out once, and an issue is accepted from the grant
\* of an exception to its withdrawal at the latest.
THEOREM WorkflowIsKept == Spec => AcceptancePromise
<1> DEFINE Kept == [Promise!Next]_<<status, Accepted, Deciding>>
<1>1. Init => Promise!Init
  BY DEF Init, Promise!Init, Promise!Undecided, Accepted, Deciding, Verdict, Procs
<1>2. Typed /\ [Next]_vars => Kept
  <2> SUFFICES ASSUME Typed, [Next]_vars PROVE Kept
    OBVIOUS
  <2> HIDE DEF Kept
  <2>1. ASSUME NEW q \in Requests, NewRequest(q) \/ RequestStep(q) PROVE Kept
    <3>1. /\ pc \in [Procs -> ProcStep] /\ exc \in [Procs -> Exceptions \cup {NoException}]
          /\ q \in Procs
          /\ exc = [exc EXCEPT ![q] = exc[q]]
      BY DEF Typed, TypeOK, Procs
    <3>2. Leave(q) => Deciding' = [Deciding EXCEPT ![q] = <<NoException, "none">>]
      <4>1. "idle" \notin DOMAIN Verdict
        BY DEF Verdict
      <4>2. SUFFICES ASSUME pc' = [pc EXCEPT ![q] = "idle"],
                            exc' = [exc EXCEPT ![q] = NoException]
                     PROVE  Deciding' = [Deciding EXCEPT ![q] = <<NoException, "none">>]
        BY DEF Leave
      <4>. QED
        BY <4>1, <4>2, RequestDecides
    <3>3. ASSUME NEW s, s \notin DOMAIN Verdict, pc[q] \notin DOMAIN Verdict,
                 pc' = [pc EXCEPT ![q] = s], NEW x, exc' = [exc EXCEPT ![q] = x]
          PROVE  Deciding' = Deciding
      <4>1. Deciding' = [Deciding EXCEPT ![q] = <<NoException, "none">>]
        BY <3>3, RequestDecides
      <4>2. Deciding[q] = <<NoException, "none">>
        BY <3>3 DEF Deciding
      <4>3. Deciding = [Deciding EXCEPT ![q] = Deciding[q]]
        BY DEF Deciding
      <4>. QED
        BY <4>1, <4>2, <4>3
    <3>4. CASE CommitTransition(q)
      <4>1. issue[q] \in Issues /\ want[q] \in ManualTargets
        BY <3>4 DEF CommitTransition, Typed, HoldsRows
      <4>2. Accepted' = [Accepted EXCEPT ![issue[q]] = NoException]
        BY <3>4, <4>1, NullAssumption DEF Accepted, CommitTransition, ManualTargets, Typed, TypeOK
      <4>3. Deciding' = Deciding
        BY <3>3, <3>4 DEF CommitTransition, Leave, Verdict
      <4>. QED
        BY <3>4, <4>1, <4>2, <4>3 DEF Kept, Promise!Next, Promise!TakeUp, CommitTransition,
           excRows
    <3>5. CASE CheckPatch(q)
      <4>1. Deciding' = Deciding
        BY <3>1, <3>3, <3>5 DEF CheckPatch, locals, Verdict
      <4>. QED
        BY <3>5, <4>1 DEF Kept, CheckPatch, Accepted, issueRows, excRows
    <3>6. CASE CommitPatch(q)
      <4>1. Deciding' = Deciding
        BY <3>3, <3>6 DEF CommitPatch, Leave, Verdict
      <4>. QED
        BY <3>6, <4>1 DEF Kept, CommitPatch, Accepted, issueRows, excRows
    <3>7. ASSUME NEW to \in ManualTargets, CheckTransition(q, to) PROVE Kept
      <4>1. Deciding' = Deciding
        BY <3>1, <3>3, <3>7 DEF CheckTransition, Verdict
      <4>. QED
        BY <3>7, <4>1 DEF Kept, CheckTransition, Accepted, issueRows, excRows
    <3>8. CASE LockException(q)
      <4>1. Deciding' = [Deciding EXCEPT ![q] = <<exc[q], "approved">>]
        BY <3>1, <3>8, RequestDecides DEF LockException, Verdict
      <4>2. Deciding[q] = <<exc[q], "approved">>
        BY <3>8 DEF LockException, Deciding, Verdict
      <4>3. Deciding = [Deciding EXCEPT ![q] = Deciding[q]]
        BY DEF Deciding
      <4>4. Deciding' = Deciding
        BY <4>1, <4>2, <4>3
      <4>. QED
        BY <3>8, <4>4 DEF Kept, LockException, Accepted, issueRows, excRows
    <3>9. ASSUME pc[q] \in DOMAIN Verdict, Leave(q)
          PROVE  /\ exc[q] \in Exceptions /\ issue[q] = IssueOf[exc[q]] /\ issue[q] \in Issues
                 /\ Deciding[q] = <<exc[q], Verdict[pc[q]]>>
                 /\ Deciding' = [Deciding EXCEPT ![q] = Promise!Undecided]
      <4>1. pc[q] \in {"approving", "accepting", "rejecting", "revoking"}
        BY <3>9 DEF Verdict
      <4>2. exc[q] \in Exceptions /\ issue[q] = IssueOf[exc[q]] /\ issue[q] \in Issues
        BY <4>1, IssueOfAssumption DEF Typed, HoldsRows
      <4>3. Deciding' = [Deciding EXCEPT ![q] = <<NoException, "none">>]
        BY <3>2, <3>9
      <4>. QED
        BY <3>9, <4>2, <4>3 DEF Deciding, Promise!Undecided
    <3>10. CASE CommitApprove(q)
      <4>1. /\ exc[q] \in Exceptions /\ issue[q] = IssueOf[exc[q]] /\ issue[q] \in Issues
            /\ Deciding[q] = <<exc[q], "approved">>
            /\ Deciding' = [Deciding EXCEPT ![q] = Promise!Undecided]
        BY <3>9, <3>10 DEF CommitApprove, Verdict
      <4>2. Accepted' = [Accepted EXCEPT ![IssueOf[exc[q]]] = exc[q]]
        BY <3>10, <4>1 DEF Accepted, CommitApprove, Typed, TypeOK
      <4>3. Promise!Grant(q, exc[q])
        BY <3>10, <4>1, <4>2 DEF Promise!Grant, Promise!CarryOut, CommitApprove
      <4>. QED
        BY <4>1, <4>3 DEF Kept, Promise!Next, Promise!Decision
    <3>11. CASE CommitReject(q)
      <4>1. /\ exc[q] \in Exceptions
            /\ Deciding[q] = <<exc[q], "rejected">>
            /\ Deciding' = [Deciding EXCEPT ![q] = Promise!Undecided]
        BY <3>9, <3>11 DEF CommitReject, Verdict
      <4>2. Accepted' = Accepted
        BY <3>11 DEF Accepted, CommitReject, issueRows
      <4>3. Promise!Refuse(q, exc[q])
        BY <3>11, <4>1, <4>2 DEF Promise!Refuse, Promise!CarryOut, CommitReject
      <4>. QED
        BY <4>1, <4>3 DEF Kept, Promise!Next, Promise!Decision
    <3>12. CASE CommitRevoke(q)
      <4>1. /\ exc[q] \in Exceptions /\ issue[q] = IssueOf[exc[q]] /\ issue[q] \in Issues
            /\ Deciding[q] = <<exc[q], "revoked">>
            /\ Deciding' = [Deciding EXCEPT ![q] = Promise!Undecided]
        BY <3>9, <3>12 DEF CommitRevoke, Verdict
      <4>2. Accepted' = [Accepted EXCEPT ![IssueOf[exc[q]]] =
                            IF @ = exc[q] THEN NoException ELSE @]
        BY <3>12, <4>1, NullAssumption DEF Accepted, CommitRevoke, Reopened, Typed, TypeOK
      <4>3. Promise!Withdraw(q, exc[q])
        BY <3>12, <4>1, <4>2 DEF Promise!Withdraw, Promise!CarryOut, CommitRevoke
      <4>. QED
        BY <4>1, <4>3 DEF Kept, Promise!Next, Promise!Decision
    <3>13. CASE GiveUp(q)
      <4>1. Deciding' = [Deciding EXCEPT ![q] = Promise!Undecided]
        BY <3>2, <3>13 DEF GiveUp, Promise!Undecided
      <4>2. Promise!Drop(q)
        BY <3>13, <4>1 DEF Promise!Drop, GiveUp, Accepted, issueRows, excRows
      <4>. QED
        BY <4>2 DEF Kept, Promise!Next
    <3>14. ASSUME NEW i \in Issues, View(q, i) PROVE Kept
      <4>1. Deciding' = Deciding
        BY <3>1, <3>3, <3>14 DEF View, Verdict
      <4>. QED
        BY <3>14, <4>1 DEF Kept, View, Accepted, issueRows, excRows
    <3>15. ASSUME NEW i \in Issues, NEW to \in ManualTargets, CheckBulk(q, i, to) PROVE Kept
      <4>1. Deciding' = Deciding
        BY <3>1, <3>3, <3>15 DEF CheckBulk, Verdict
      <4>. QED
        BY <3>15, <4>1 DEF Kept, CheckBulk, Accepted, issueRows, excRows
    <3>16. ASSUME NEW u \in Users, NEW e \in Exceptions, NEW step \in DOMAIN Verdict,
                  Decide(q, u, e, step), status[e] = Promise!Before[Verdict[step]]
           PROVE  Kept
      <4>1. Deciding' = [Deciding EXCEPT ![q] = <<e, Verdict[step]>>]
        BY <3>16, RequestDecides DEF Decide
      <4>2. Deciding[q] = Promise!Undecided
        BY <3>16 DEF Decide, Deciding, Verdict, Promise!Undecided
      <4>3. Verdict[step] \in DOMAIN Promise!Before
        BY <3>16 DEF Verdict, Promise!Before
      <4>4. Promise!Take(q, e, Verdict[step])
        BY <3>16, <4>1, <4>2 DEF Promise!Take, Decide, Accepted, issueRows, excRows
      <4>. QED
        BY <4>3, <4>4 DEF Kept, Promise!Next, Promise!Decision
    <3>17. ASSUME NEW u \in Users, NEW e \in Exceptions,
                  CheckApprove(q, u, e) \/ CheckReject(q, u, e) \/ CheckRevoke(q, u, e)
           PROVE  Kept
      <4>1. CASE CheckApprove(q, u, e)
        BY <3>16, <4>1 DEF CheckApprove, IsPending, Verdict, Promise!Before
      <4>2. CASE CheckReject(q, u, e)
        BY <3>16, <4>2 DEF CheckReject, IsPending, Verdict, Promise!Before
      <4>3. CASE CheckRevoke(q, u, e)
        BY <3>16, <4>3 DEF CheckRevoke, Verdict, Promise!Before
      <4>. QED
        BY <3>17, <4>1, <4>2, <4>3
    <3>. QED
      BY <2>1, <3>4, <3>5, <3>6, <3>7, <3>8, <3>10, <3>11, <3>12, <3>13, <3>14, <3>15,
         <3>17 DEF NewRequest, RequestStep
  <2>2. ASSUME NEW w \in Pollers, NewEvidence(w) \/ WorkerStep(w) PROVE Kept
    <3>1. ASSUME NEW i \in Issues, NEW step, NEW to, Begin(w, i, step, to) PROVE Kept
      <4>1. Deciding' = Deciding
        BY <3>1, WorkerDecidesNothing DEF Begin
      <4>. QED
        BY <3>1, <4>1 DEF Kept, Begin, Accepted, issueRows, excRows
    <3>2. CASE NewEvidence(w)
      BY <3>1, <3>2 DEF NewEvidence, ObserveNew, ObserveAgain, Verify
    <3>3. ASSUME pc[w] \in {"inserting", "updating"} PROVE issue[w] \in Issues
      BY <3>3 DEF Typed, HoldsRows
    <3>4. CASE InsertIssue(w)
      <4>1. Accepted' = [Accepted EXCEPT ![issue[w]] = NoException]
        BY <3>3, <3>4 DEF Accepted, InsertIssue, Typed, TypeOK
      <4>2. Deciding' = Deciding
        BY <3>4, WorkerDecidesNothing DEF InsertIssue, Leave
      <4>. QED
        BY <3>3, <3>4, <4>1, <4>2 DEF Kept, Promise!Next, Promise!TakeUp, InsertIssue, excRows
    <3>5. CASE UpdateIssue(w)
      <4>1. want[w] # "risk_accepted"
        BY <3>5 DEF UpdateIssue, Typed, HoldsRows
      <4>2. Accepted' = [Accepted EXCEPT ![issue[w]] = NoException]
        BY <3>3, <3>5, <4>1 DEF Accepted, UpdateIssue, Typed, TypeOK
      <4>3. Deciding' = Deciding
        BY <3>5, WorkerDecidesNothing DEF UpdateIssue, locals
      <4>. QED
        BY <3>3, <3>5, <4>2, <4>3 DEF Kept, Promise!Next, Promise!TakeUp, UpdateIssue, excRows
    <3>6. CASE NoteHistory(w)
      <4>1. Deciding' = Deciding
        BY <3>6, WorkerDecidesNothing DEF NoteHistory, Leave
      <4>. QED
        BY <3>6, <4>1 DEF Kept, NoteHistory, Accepted, excRows
    <3>7. CASE GiveUp(w)
      <4>1. Deciding' = Deciding
        BY <3>7, WorkerDecidesNothing DEF GiveUp, Leave
      <4>. QED
        BY <3>7, <4>1 DEF Kept, GiveUp, Accepted, issueRows, excRows
    <3>. QED
      BY <2>2, <3>2, <3>4, <3>5, <3>6, <3>7 DEF WorkerStep
  <2>3. ASSUME NEW u \in Users, NEW e \in Exceptions, RequestException(u, e) PROVE Kept
    <3>1. Accepted' = Accepted /\ Deciding' = Deciding
      BY <2>3 DEF RequestException, Accepted, Deciding, issueRows, locals
    <3>2. Promise!Ask(e)
      BY <2>3, <3>1 DEF Promise!Ask, RequestException
    <3>. QED
      BY <3>2 DEF Kept, Promise!Next
  <2>4. CASE UNCHANGED vars
    BY <2>4 DEF Kept, vars, Accepted, Deciding, issueRows, excRows, locals
  <2>. QED
    BY <2>1, <2>2, <2>3, <2>4 DEF Next
<1>3. QED
  BY <1>1, <1>2, TypedInvariant, PTL DEF Spec, AcceptancePromise, Promise!Spec

=============================================================================
