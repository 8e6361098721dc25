---------------------------- MODULE MCWorkerJobs ----------------------------
(***************************************************************************)
(* Small instances of Rescoring, IntelImports and Verification.  They      *)
(* write no row in common, so a behaviour of several is a behaviour of     *)
(* each, interleaved: one is explored at a time, and which is chosen at    *)
(* the start.                                                              *)
(***************************************************************************)
EXTENDS Rescoring, IntelImports, Verification

CONSTANTS i1, i2, c1, c2

VARIABLE explored

allVars == <<rescoreVars, importVars, verificationVars, explored>>

MCIssues == 1..3

RescoringPart(A) ==
    explored = "rescoring" /\ A /\ UNCHANGED <<importVars, verificationVars, explored>>
ImportsPart(A) ==
    explored = "imports" /\ A /\ UNCHANGED <<rescoreVars, verificationVars, explored>>
VerificationPart(A) ==
    explored = "verification" /\ A /\ UNCHANGED <<rescoreVars, importVars, explored>>

Init ==
    /\ RescoreInit /\ ImportInit /\ VerificationInit
    /\ explored \in {"rescoring", "imports", "verification"}
    /\ explored # "verification" => finding = "new"

Next ==
    \/ RescoringPart(RescoreNext) \/ ImportsPart(ImportNext)
    \/ VerificationPart(VerificationNext)

\* Timers fire, and every await of the worker answers or rejects.
Spec ==
    /\ Init /\ [][Next]_allVars
    /\ WF_allVars(RescoringPart(Batch))
    /\ \A p \in Pollers : WF_allVars(ImportsPart(Importer(p)))

\* Every variable of the three has its type.
WorkerTypeOK == RescoreTypeOK /\ ImportTypeOK /\ VerificationTypeOK

=============================================================================
