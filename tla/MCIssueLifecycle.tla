-------------------------- MODULE MCIssueLifecycle --------------------------
(***************************************************************************)
(* Small instances of IssueLifecycle: one issue two exceptions compete     *)
(* for.                                                                    *)
(***************************************************************************)
EXTENDS IssueLifecycle, TLC

CONSTANTS i1, e1, e2

MCOneIssue == [e \in Exceptions |-> i1]

\* Both exceptions are of the one issue, and no request or user is special.
MCSymmetry ==
    Permutations(Requests) \cup Permutations(Users) \cup Permutations(Exceptions)

\* No step reads record, nor seen but to write record, and of the properties
\* the run checks only the type speaks of them.
MCView ==
    <<state, link, status, requester, approver, pc, current, issue, exc, user, want>>

=============================================================================
