--------------------------- MODULE IssueLifecycle ---------------------------
(***************************************************************************)
(* The life of an issue: analysts move it through the API, operators       *)
(* accept its risk through an exception, and the worker creates, reopens   *)
(* and resolves it as scans observe it or no longer do.                    *)
(*                                                                         *)
(* Every handler reads and checks first and writes later, with a WHERE on  *)
(* the id alone.  A process is one request or one pass of the worker, and  *)
(* an action is what runs between two points where others may run.         *)
(***************************************************************************)
EXTENDS Naturals, FiniteSets

CONSTANTS
    Issues,         \* fingerprints, with the issues row each may have
    Exceptions,     \* rows of exceptions
    Users,          \* users whose role admits the requests they send
    Requests,       \* HTTP requests in progress together
    Pollers,        \* worker passes in progress together
    IssueOf,        \* issue_id of each exception
    NoIssue,        \* an idle process has no issue
    NoException,    \* NULL in issues.exception_id
    NoUser          \* NULL in exceptions.approver_user_id

Procs == Requests \cup Pollers

ASSUME IssueOfAssumption == IssueOf \in [Exceptions -> Issues]

ASSUME NullAssumption ==
    NoIssue \notin Issues /\ NoException \notin Exceptions /\ NoUser \notin Users

ASSUME ProcsAssumption == Requests \cap Pollers = {}

VARIABLES
    \* database
    state,      \* issues.state, "absent" before the row exists
    link,       \* issues.exception_id
    record,     \* from_state and to_state of the last issue_state_history row
    status,     \* exceptions.status, "absent" before the row exists
    requester,  \* exceptions.requested_by
    approver,   \* exceptions.approver_user_id, which a rejection sets too
    \* each process
    pc,
    current,    \* requests whose If-Match is still the ETag of their issue
    issue,
    exc,
    user,
    seen,       \* the state that was read
    want        \* the state that is to be written

issueRows == <<state, link, record>>
excRows   == <<status, requester, approver>>
locals    == <<issue, exc, user, seen, want>>
vars      == <<issueRows, excRows, pc, current, locals>>

-----------------------------------------------------------------------------
\* What POST /issues/{id}/transitions and bulk-transitions may set.
ManualTargets == {"triaged", "in_progress", "mitigated", "reopened", "false_positive"}

States == ManualTargets \cup {"absent", "new", "verified_resolved", "risk_accepted"}

ManualTransitions ==
    [s \in States |->
        CASE s = "new"         -> {"triaged", "in_progress", "false_positive"}
          [] s = "triaged"     -> {"in_progress", "mitigated", "false_positive"}
          [] s = "in_progress" -> {"triaged", "mitigated", "false_positive"}
          [] s = "mitigated"   -> {"in_progress", "reopened", "false_positive"}
          [] s = "reopened"    -> {"triaged", "in_progress", "false_positive"}
          [] s = "absent"      -> {}
          [] OTHER             -> {"reopened"}]

Legal(from) == ManualTransitions[from]

ReopenFrom == {"mitigated", "verified_resolved"}

\* What a verification may resolve.
Promotable == {"new", "triaged", "in_progress", "mitigated", "reopened"}

ExcStatus == {"absent", "pending", "approved", "rejected", "revoked"}

\* The check of the approve handler and the CHECK constraint approver_not_requester.
\* Mutant: neither.
AnyApprover(u, e) == TRUE
Distinct(u, e) == u # requester[e]

\* Exceptions that can still be decided.  Mutant: a rejected one can too.
Undecided(e) == status[e] \in {"pending", "rejected"}
IsPending(e) == status[e] = "pending"

\* The row of an exception stays locked from its UPDATE to the commit.
Locked(e) == \E q \in Requests : pc[q] = "accepting" /\ exc[q] = e

\* Every write sets updated_at, so no ETag of the issue handed out before is valid.
Touched(i) == {q \in current : issue[q] # i}

-----------------------------------------------------------------------------
Init ==
    /\ state = [i \in Issues |-> "absent"]
    /\ link = [i \in Issues |-> NoException]
    /\ record = [i \in Issues |-> <<"absent", "absent">>]
    /\ status = [e \in Exceptions |-> "absent"]
    /\ requester = [e \in Exceptions |-> NoUser]
    /\ approver = [e \in Exceptions |-> NoUser]
    /\ pc = [p \in Procs |-> "idle"]
    /\ current = {}
    /\ issue = [p \in Procs |-> NoIssue]
    /\ exc = [p \in Procs |-> NoException]
    /\ user = [p \in Procs |-> NoUser]
    /\ seen = [p \in Procs |-> "absent"]
    /\ want = [p \in Procs |-> "absent"]

-----------------------------------------------------------------------------
\* A process answers, is refused or throws; what it committed stays.
Leave(p) ==
    /\ pc' = [pc EXCEPT ![p] = "idle"]
    /\ issue' = [issue EXCEPT ![p] = NoIssue]
    /\ exc' = [exc EXCEPT ![p] = NoException]
    /\ user' = [user EXCEPT ![p] = NoUser]
    /\ seen' = [seen EXCEPT ![p] = "absent"]
    /\ want' = [want EXCEPT ![p] = "absent"]

\* A failed check (404, 409, 422, 428), a rejected await, a lost connection.
GiveUp(p) ==
    /\ pc[p] # "idle"
    /\ Leave(p)
    /\ current' = current \ {p}
    /\ UNCHANGED <<issueRows, excRows>>

(* POST /issues/{id}/transitions, /issues/bulk-transitions, PATCH /issues/{id} *)

\* GET /issues/{id}: the client has the ETag it will send as If-Match.
View(q, i) ==
    /\ pc[q] = "idle"
    /\ state[i] # "absent"
    /\ pc' = [pc EXCEPT ![q] = "viewing"]
    /\ issue' = [issue EXCEPT ![q] = i]
    /\ current' = current \cup {q}
    /\ UNCHANGED <<issueRows, excRows, exc, user, seen, want>>

\* The issue is read once; the ETag and the legality are checked on that read.
CheckTransition(q, to) ==
    /\ pc[q] = "viewing"
    /\ q \in current
    /\ to \in Legal(state[issue[q]])
    /\ pc' = [pc EXCEPT ![q] = "moving"]
    /\ seen' = [seen EXCEPT ![q] = state[issue[q]]]
    /\ want' = [want EXCEPT ![q] = to]
    /\ UNCHANGED <<issueRows, excRows, current, issue, exc, user>>

\* One issue of a bulk request, which carries no ETag.
CheckBulk(q, i, to) ==
    /\ pc[q] = "idle"
    /\ to \in Legal(state[i])
    /\ pc' = [pc EXCEPT ![q] = "moving"]
    /\ issue' = [issue EXCEPT ![q] = i]
    /\ seen' = [seen EXCEPT ![q] = state[i]]
    /\ want' = [want EXCEPT ![q] = to]
    /\ UNCHANGED <<issueRows, excRows, current, exc, user>>

\* The transaction of both: history row and unconditional UPDATE.
CommitTransition(q) ==
    LET i == issue[q] IN
    /\ pc[q] = "moving"
    /\ state' = [state EXCEPT ![i] = want[q]]
    /\ record' = [record EXCEPT ![i] = <<seen[q], want[q]>>]
    /\ current' = Touched(i)
    /\ Leave(q)
    /\ UNCHANGED <<link, excRows>>

\* Owner and due date are not modelled: a PATCH is what it does to updated_at.
CheckPatch(q) ==
    /\ pc[q] = "viewing"
    /\ q \in current
    /\ pc' = [pc EXCEPT ![q] = "patching"]
    /\ UNCHANGED <<issueRows, excRows, current, locals>>

CommitPatch(q) ==
    /\ pc[q] = "patching"
    /\ current' = Touched(issue[q])
    /\ Leave(q)
    /\ UNCHANGED <<issueRows, excRows>>

-----------------------------------------------------------------------------
(* POST /exceptions and its approve, reject and revoke *)

\* Any state of the issue will do, and any number of requests for it.
RequestException(u, e) ==
    /\ status[e] = "absent"
    /\ state[IssueOf[e]] # "absent"
    /\ status' = [status EXCEPT ![e] = "pending"]
    /\ requester' = [requester EXCEPT ![e] = u]
    /\ UNCHANGED <<issueRows, approver, pc, current, locals>>

Decide(q, u, e, step) ==
    /\ pc[q] = "idle"
    /\ pc' = [pc EXCEPT ![q] = step]
    /\ issue' = [issue EXCEPT ![q] = IssueOf[e]]
    /\ exc' = [exc EXCEPT ![q] = e]
    /\ user' = [user EXCEPT ![q] = u]
    /\ UNCHANGED <<issueRows, excRows, current, seen, want>>

CheckApprove(q, u, e) ==
    /\ IsPending(e)
    /\ Distinct(u, e)
    /\ Decide(q, u, e, "approving")

CheckReject(q, u, e) ==
    /\ IsPending(e)
    /\ Decide(q, u, e, "rejecting")

CheckRevoke(q, u, e) ==
    /\ status[e] = "approved"
    /\ Decide(q, u, e, "revoking")

\* In the transaction: the UPDATE that locks the exception, then the SELECT of
\* the state for the history row, which locks nothing.
LockException(q) ==
    /\ pc[q] = "approving"
    /\ ~Locked(exc[q])
    /\ Distinct(user[q], exc[q])
    /\ pc' = [pc EXCEPT ![q] = "accepting"]
    /\ seen' = [seen EXCEPT ![q] = state[issue[q]]]
    /\ UNCHANGED <<issueRows, excRows, current, issue, exc, user, want>>

CommitApprove(q) ==
    LET i == issue[q]
        e == exc[q]
    IN  /\ pc[q] = "accepting"
        /\ status' = [status EXCEPT ![e] = "approved"]
        /\ approver' = [approver EXCEPT ![e] = user[q]]
        /\ state' = [state EXCEPT ![i] = "risk_accepted"]
        /\ link' = [link EXCEPT ![i] = e]
        /\ record' = [record EXCEPT ![i] = <<seen[q], "risk_accepted">>]
        /\ current' = Touched(i)
        /\ Leave(q)
        /\ UNCHANGED requester

\* A lone UPDATE: whatever the status has become since it was read.
CommitReject(q) ==
    LET e == exc[q] IN
    /\ pc[q] = "rejecting"
    /\ ~Locked(e)
    /\ Distinct(user[q], e)
    /\ status' = [status EXCEPT ![e] = "rejected"]
    /\ approver' = [approver EXCEPT ![e] = user[q]]
    /\ Leave(q)
    /\ UNCHANGED <<issueRows, requester, current>>

\* The issue is reopened if it still refers to the exception.  The history row
\* is written in either case, and says the issue was risk_accepted.
\* Mutants: a state the enum does not have; only the link is cleared.
Closed(i, e) == [state EXCEPT ![i] = IF link[i] = e THEN "closed" ELSE @]
Unlinked(i, e) == state
Reopened(i, e) ==
    IF link[i] = e THEN [state EXCEPT ![i] = "reopened"] ELSE state

CommitRevoke(q) ==
    LET i == issue[q]
        e == exc[q]
    IN  /\ pc[q] = "revoking"
        /\ ~Locked(e)
        /\ status' = [status EXCEPT ![e] = "revoked"]
        /\ state' = Reopened(i, e)
        /\ link' = IF link[i] = e THEN [link EXCEPT ![i] = NoException] ELSE link
        /\ record' = [record EXCEPT ![i] = <<"risk_accepted", "reopened">>]
        /\ current' = IF link[i] = e THEN Touched(i) ELSE current
        /\ Leave(q)
        /\ UNCHANGED <<requester, approver>>

-----------------------------------------------------------------------------
(* The worker: upsertIssue and the end of resolveVerificationScans.  Every  *)
(* statement commits on its own.                                            *)

Begin(w, i, step, to) ==
    /\ pc[w] = "idle"
    /\ pc' = [pc EXCEPT ![w] = step]
    /\ issue' = [issue EXCEPT ![w] = i]
    /\ seen' = [seen EXCEPT ![w] = state[i]]
    /\ want' = [want EXCEPT ![w] = to]
    /\ UNCHANGED <<issueRows, excRows, current, exc, user>>

\* A finding with no issue, or with one that had been recorded as resolved.
\* In any other state only last_seen moves.
ObserveNew(w, i)   == state[i] = "absent" /\ Begin(w, i, "inserting", "new")
ObserveAgain(w, i) == state[i] \in ReopenFrom /\ Begin(w, i, "updating", "reopened")

\* A verification scan confirmed the fix.
Verify(w, i) == state[i] \in Promotable /\ Begin(w, i, "updating", "verified_resolved")

\* uq_issue_fingerprint admits one row; a second INSERT throws, see GiveUp.
\* No history row is written for the creation.
InsertIssue(w) ==
    LET i == issue[w] IN
    /\ pc[w] = "inserting"
    /\ state[i] = "absent"
    /\ state' = [state EXCEPT ![i] = "new"]
    /\ Leave(w)
    /\ UNCHANGED <<link, record, excRows, current>>

UpdateIssue(w) ==
    LET i == issue[w] IN
    /\ pc[w] = "updating"
    /\ state' = [state EXCEPT ![i] = want[w]]
    /\ current' = Touched(i)
    /\ pc' = [pc EXCEPT ![w] = "noting"]
    /\ UNCHANGED <<link, record, excRows, locals>>

NoteHistory(w) ==
    /\ pc[w] = "noting"
    /\ record' = [record EXCEPT ![issue[w]] = <<seen[w], want[w]>>]
    /\ Leave(w)
    /\ UNCHANGED <<state, link, excRows, current>>

-----------------------------------------------------------------------------
RequestStep(q) ==
    \/ CommitTransition(q) \/ CheckPatch(q) \/ CommitPatch(q)
    \/ (\E to \in ManualTargets : CheckTransition(q, to))
    \/ LockException(q) \/ CommitApprove(q) \/ CommitReject(q) \/ CommitRevoke(q)
    \/ GiveUp(q)

NewRequest(q) ==
    \/ \E i \in Issues : View(q, i) \/ (\E to \in ManualTargets : CheckBulk(q, i, to))
    \/ \E u \in Users, e \in Exceptions :
           CheckApprove(q, u, e) \/ CheckReject(q, u, e) \/ CheckRevoke(q, u, e)

WorkerStep(w) == InsertIssue(w) \/ UpdateIssue(w) \/ NoteHistory(w) \/ GiveUp(w)

NewEvidence(w) ==
    \E i \in Issues : ObserveNew(w, i) \/ ObserveAgain(w, i) \/ Verify(w, i)

Next ==
    \/ \E q \in Requests : NewRequest(q) \/ RequestStep(q)
    \/ \E w \in Pollers : NewEvidence(w) \/ WorkerStep(w)
    \/ \E u \in Users, e \in Exceptions : RequestException(u, e)

Spec == Init /\ [][Next]_vars

-----------------------------------------------------------------------------
(* Properties *)

ProcStep == {"idle", "viewing", "moving", "patching", "approving", "accepting",
             "rejecting", "revoking", "inserting", "updating", "noting"}

\* Every variable has its type.
TypeOK ==
    /\ state \in [Issues -> States]
    /\ link \in [Issues -> Exceptions \cup {NoException}]
    /\ record \in [Issues -> States \X States]
    /\ status \in [Exceptions -> ExcStatus]
    /\ requester \in [Exceptions -> Users \cup {NoUser}]
    /\ approver \in [Exceptions -> Users \cup {NoUser}]
    /\ pc \in [Procs -> ProcStep]
    /\ current \in SUBSET Requests
    /\ issue \in [Procs -> Issues \cup {NoIssue}]
    /\ exc \in [Procs -> Exceptions \cup {NoException}]
    /\ user \in [Procs -> Users \cup {NoUser}]
    /\ seen \in [Procs -> States]
    /\ want \in [Procs -> States]

\* MOD-12: however requests and scans overlap, an issue whose risk is accepted
\* names an exception of its own, with an approver who did not request it.
AcceptedByAnother ==
    \A i \in Issues : state[i] = "risk_accepted" =>
        \E e \in Exceptions :
            /\ link[i] = e
            /\ IssueOf[e] = i
            /\ approver[e] \in Users \ {requester[e]}

\* MOD-12, approver_not_requester: no exception was decided by its requester.
NobodyDecidesAlone ==
    \A e \in Exceptions : status[e] \in {"approved", "rejected", "revoked"} =>
        approver[e] \in Users \ {requester[e]}

\* The exception an issue is accepted under: the one it links to, while its
\* state says so.
Accepted == [i \in Issues |-> IF state[i] = "risk_accepted" THEN link[i] ELSE NoException]

\* What a request that has checked and not yet written is going to make of its
\* exception.
Verdict == [approving |-> "approved", accepting |-> "approved",
            rejecting |-> "rejected", revoking |-> "revoked"]

Deciding ==
    [q \in Requests |->
        IF pc[q] \in DOMAIN Verdict THEN <<exc[q], Verdict[pc[q]]>>
        ELSE <<NoException, "none">>]

Promise == INSTANCE RiskAcceptance
           WITH phase <- status, accepted <- Accepted, deciding <- Deciding,
                Deciders <- Requests

\* database-schema.md: state risk_accepted corresponds to status approved.
\* However requests overlap, every decision was taken on an exception that could
\* still be decided so and is carried out once, and an acceptance begins with
\* the grant of its exception and ends with its withdrawal at the latest.
AcceptancePromise == Promise!Spec

\* Revoking reopens the issue, and the history row of a revocation says so.
RevokingReopens ==
    [][\A e \in Exceptions : status[e] # "revoked" /\ status'[e] = "revoked" =>
          state'[IssueOf[e]] = record'[IssueOf[e]][2]]_vars

=============================================================================
