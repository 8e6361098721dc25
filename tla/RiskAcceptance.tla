--------------------------- MODULE RiskAcceptance ---------------------------
(***************************************************************************)
(* What the exceptions workflow promises when several people decide at     *)
(* once.  An exception is asked for; a decision to grant or to refuse it   *)
(* is taken on a pending exception and one to withdraw it on a granted     *)
(* one, and each decision is carried out at most once.  A risk is accepted *)
(* only by a grant, under the exception granted, and no longer than until  *)
(* that exception is withdrawn.                                            *)
(*                                                                         *)
(* A decision stands for what its decider saw: of two taken on the same    *)
(* exception, the one carried out last has the last word, and a refusal    *)
(* after a grant leaves the risk accepted.  Decided by one person at a     *)
(* time, an exception never goes back.                                     *)
(***************************************************************************)
CONSTANTS Issues, Exceptions, IssueOf, NoException, Deciders

VARIABLES
    phase,      \* of each exception
    accepted,   \* the exception an issue is accepted under, or NoException
    deciding    \* the decision each decider has taken and not carried out yet

Undecided == <<NoException, "none">>

\* What an exception has to be for a decision to be taken on it.
Before == [approved |-> "pending", rejected |-> "pending", revoked |-> "approved"]

Init ==
    /\ phase = [e \in Exceptions |-> "absent"]
    /\ accepted = [i \in Issues |-> NoException]
    /\ deciding = [d \in Deciders |-> Undecided]

Ask(e) ==
    /\ phase[e] = "absent"
    /\ phase' = [phase EXCEPT ![e] = "pending"]
    /\ UNCHANGED <<accepted, deciding>>

Take(d, e, verdict) ==
    /\ deciding[d] = Undecided
    /\ phase[e] = Before[verdict]
    /\ deciding' = [deciding EXCEPT ![d] = <<e, verdict>>]
    /\ UNCHANGED <<phase, accepted>>

Drop(d) ==
    /\ deciding' = [deciding EXCEPT ![d] = Undecided]
    /\ UNCHANGED <<phase, accepted>>

CarryOut(d, e, verdict) ==
    /\ deciding[d] = <<e, verdict>>
    /\ phase' = [phase EXCEPT ![e] = verdict]
    /\ deciding' = [deciding EXCEPT ![d] = Undecided]

Refuse(d, e) == CarryOut(d, e, "rejected") /\ UNCHANGED accepted

Grant(d, e) ==
    /\ CarryOut(d, e, "approved")
    /\ accepted' = [accepted EXCEPT ![IssueOf[e]] = e]

Withdraw(d, e) ==
    /\ CarryOut(d, e, "revoked")
    /\ accepted' = [accepted EXCEPT ![IssueOf[e]] =
                       IF @ = e THEN NoException ELSE @]

\* Somebody works on the issue again, and the exception stays granted.
TakeUp(i) ==
    /\ accepted' = [accepted EXCEPT ![i] = NoException]
    /\ UNCHANGED <<phase, deciding>>

Decision(d, e) ==
    \/ \E verdict \in DOMAIN Before : Take(d, e, verdict)
    \/ Refuse(d, e) \/ Grant(d, e) \/ Withdraw(d, e)

Next ==
    \/ \E e \in Exceptions : Ask(e) \/ (\E d \in Deciders : Decision(d, e))
    \/ \E d \in Deciders : Drop(d)
    \/ \E i \in Issues : TakeUp(i)

Spec == Init /\ [][Next]_<<phase, accepted, deciding>>

=============================================================================
