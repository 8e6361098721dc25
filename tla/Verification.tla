---------------------------- MODULE Verification ----------------------------
(***************************************************************************)
(* Verification scans of one issue: a person asks for one, the worker      *)
(* probes the asset again, and what the run observed decides whether the   *)
(* issue is resolved.  Meanwhile the weakness may go and come back on the  *)
(* host, people move the issue, runs are aborted and the worker dies.      *)
(*                                                                         *)
(* Runs are numbers because the worker takes the oldest one first; run 0   *)
(* is the one that found the issue.  One pass of the worker runs at a time.*)
(* What a transition may do to an issue, and its history, is the subject   *)
(* of IssueLifecycle; the rating of the asset is that of Rescoring.        *)
(***************************************************************************)
EXTENDS Naturals

CONSTANTS
    Verifications,         \* 1..n
    MaxVerificationFaults  \* bound on crashes and rejected statements

ASSUME VerificationsAssumption == Verifications \subseteq Nat \ {0}
ASSUME VerificationFaultsAssumption == MaxVerificationFaults \in Nat

VARIABLES
    weakness,     \* whether the weakness is on the port of the issue
    \* database
    finding,      \* issues.state
    noted,        \* verification_scan_id of the last history row, 0 for NULL
    runStatus,    \* scan_runs.status
    aim,          \* status of the one scan_run_targets row
    artifact,     \* what the probe of the run recorded
    observedIn,   \* runs with a row in observations
    attachedIn,   \* runs with a row in issue_observations for the issue
    outcome,      \* verification_scans.outcome
    \* the worker
    doing,        \* the await of processScanRun
    handling,     \* the run it is about
    readState,    \* the state of the issue that was read
    verificationFaults

issueRow == <<finding, noted>>
runRows == <<runStatus, aim, artifact, outcome>>
evidence == <<observedIn, attachedIn>>
workerPass == <<doing, handling, readState>>
verificationVars ==
    <<weakness, issueRow, runRows, evidence, workerPass, verificationFaults>>

FindingStates == {"new", "triaged", "in_progress", "mitigated", "verified_resolved",
                  "reopened", "false_positive", "risk_accepted"}

\* MANUAL_TRANSITIONS, and the approval of an exception.
MayFollow ==
    [new |-> {"triaged", "in_progress", "false_positive"},
     triaged |-> {"in_progress", "mitigated", "false_positive"},
     in_progress |-> {"triaged", "mitigated", "false_positive"},
     mitigated |-> {"in_progress", "reopened", "false_positive"},
     reopened |-> {"triaged", "in_progress", "false_positive"},
     verified_resolved |-> {"reopened"},
     false_positive |-> {"reopened"},
     risk_accepted |-> {"reopened"}]

ReopenedWhenSeen == {"mitigated", "verified_resolved"}
PROMOTABLE == {"new", "triaged", "in_progress", "mitigated", "reopened"}

\* The join on the run.  Mutant: on the issue alone.
ReobservedEver(y) == attachedIn # {}
Reobserved(y) == y \in attachedIn

OutcomeOf(y) ==
    IF y \notin observedIn THEN "inconclusive"
    ELSE IF Reobserved(y) THEN "still_present" ELSE "confirmed_resolved"

At(here) == doing = here
GoTo(there) == doing' = there /\ UNCHANGED <<handling, readState>>

AtRest == doing' = "idle" /\ handling' = 0 /\ readState' = "none"

-----------------------------------------------------------------------------
VerificationInit ==
    /\ weakness = TRUE
    /\ finding \in FindingStates \ {"verified_resolved"}
    /\ noted = 0
    /\ runStatus = [y \in Verifications |-> "none"]
    /\ aim = [y \in Verifications |-> "none"]
    /\ artifact = [y \in Verifications |-> "none"]
    /\ observedIn = {0}
    /\ attachedIn = {0}
    /\ outcome = [y \in Verifications |-> "none"]
    /\ doing = "idle"
    /\ handling = 0
    /\ readState = "none"
    /\ verificationFaults = 0

-----------------------------------------------------------------------------
(* The host, the people and the API *)

WeaknessTurns ==
    /\ weakness' = ~weakness
    /\ UNCHANGED <<issueRow, runRows, evidence, workerPass, verificationFaults>>

\* POST /issues/{id}/transitions, and an exception approved or revoked.
Decide(to) ==
    /\ to \in MayFollow[finding] \/ to = "risk_accepted"
    /\ finding' = to
    /\ noted' = 0
    /\ UNCHANGED <<weakness, runRows, evidence, workerPass, verificationFaults>>

\* One transaction: the plan, the run, its target and the verification.
RequestVerification(y) ==
    /\ runStatus[y] = "none"
    /\ \A x \in Verifications : x < y => runStatus[x] # "none"
    /\ runStatus' = [runStatus EXCEPT ![y] = "queued"]
    /\ aim' = [aim EXCEPT ![y] = "pending"]
    /\ outcome' = [outcome EXCEPT ![y] = "pending"]
    /\ UNCHANGED <<weakness, issueRow, artifact, evidence, workerPass,
                   verificationFaults>>

AbortVerification(y) ==
    /\ runStatus[y] \in {"queued", "running"}
    /\ runStatus' = [runStatus EXCEPT ![y] = "aborted"]
    /\ UNCHANGED <<weakness, issueRow, aim, artifact, outcome, evidence, workerPass,
                   verificationFaults>>

-----------------------------------------------------------------------------
(* The worker: pollOnce, processScanRun *)

Unfinished(y) == runStatus[y] \in {"queued", "running"}

TakeVerification(y) ==
    /\ At("idle")
    /\ Unfinished(y)
    /\ \A x \in Verifications : Unfinished(x) => y <= x
    /\ runStatus' = [runStatus EXCEPT ![y] = "running"]
    /\ doing' = "dispatching"
    /\ handling' = y
    /\ UNCHANGED <<weakness, issueRow, aim, artifact, outcome, evidence, readState,
                   verificationFaults>>

\* The loop over pending targets: the gates may refuse the only one.
DispatchTarget ==
    /\ At("dispatching")
    /\ IF runStatus[handling] = "running" /\ aim[handling] = "pending"
       THEN \/ aim' = [aim EXCEPT ![handling] = "in_progress"] /\ GoTo("probing")
            \/ /\ \E refusal \in {"excluded", "failed"} :
                    aim' = [aim EXCEPT ![handling] = refusal]
               /\ GoTo("dispatching")
       ELSE GoTo("finishing") /\ UNCHANGED aim
    /\ UNCHANGED <<weakness, issueRow, runStatus, artifact, outcome, evidence,
                   verificationFaults>>

\* Whether the weakness is on the port or not it may go unseen: the host is
\* down, the port is none of the profile's, or its banner was not read.
ProbeTarget ==
    /\ At("probing")
    /\ \E seen \in {"nothing"} \cup (IF weakness THEN {"weakness"} ELSE {}) :
         artifact' = [artifact EXCEPT ![handling] = seen]
    /\ GoTo("storing")
    /\ UNCHANGED <<weakness, issueRow, runStatus, aim, outcome, evidence,
                   verificationFaults>>

\* parse returns an observation of a host that answered nothing, too.
StoreObservation ==
    /\ At("storing")
    /\ observedIn' = observedIn \cup {handling}
    /\ GoTo(IF artifact[handling] = "weakness" THEN "matching" ELSE "marking")
    /\ UNCHANGED <<weakness, issueRow, runRows, attachedIn, verificationFaults>>

\* upsertIssue
FindIssue ==
    /\ At("matching")
    /\ readState' = finding
    /\ doing' = "touching"
    /\ UNCHANGED <<weakness, issueRow, runRows, evidence, handling, verificationFaults>>

TouchIssue ==
    /\ At("touching")
    /\ finding' = IF readState \in ReopenedWhenSeen THEN "reopened" ELSE finding
    /\ GoTo(IF readState \in ReopenedWhenSeen THEN "reopening" ELSE "attaching")
    /\ UNCHANGED <<weakness, noted, runRows, evidence, verificationFaults>>

NoteReopening ==
    /\ At("reopening")
    /\ noted' = 0
    /\ GoTo("attaching")
    /\ UNCHANGED <<weakness, finding, runRows, evidence, verificationFaults>>

AttachObservation ==
    /\ At("attaching")
    /\ attachedIn' = attachedIn \cup {handling}
    /\ GoTo("marking")
    /\ UNCHANGED <<weakness, issueRow, runRows, observedIn, verificationFaults>>

MarkTarget ==
    /\ At("marking")
    /\ \E end \in {"completed", "failed"} : aim' = [aim EXCEPT ![handling] = end]
    /\ GoTo("dispatching")
    /\ UNCHANGED <<weakness, issueRow, runStatus, artifact, outcome, evidence,
                   verificationFaults>>

ReadFinalStatus ==
    /\ At("finishing")
    /\ IF runStatus[handling] = "running" THEN GoTo("completing") ELSE AtRest
    /\ UNCHANGED <<weakness, issueRow, runRows, evidence, verificationFaults>>

\* No target is pending; the UPDATE does not look at the status again.
CompleteRun ==
    /\ At("completing")
    /\ runStatus' = [runStatus EXCEPT ![handling] = "completed"]
    /\ GoTo("resolving")
    /\ UNCHANGED <<weakness, issueRow, aim, artifact, outcome, evidence,
                   verificationFaults>>

-----------------------------------------------------------------------------
(* resolveVerificationScans *)

\* Nothing else writes what the two reads before the UPDATE are of.
SetOutcome ==
    /\ At("resolving")
    /\ outcome' = [outcome EXCEPT ![handling] = OutcomeOf(handling)]
    /\ IF outcome'[handling] = "confirmed_resolved" THEN GoTo("promoting") ELSE AtRest
    /\ UNCHANGED <<weakness, issueRow, runStatus, aim, artifact, evidence,
                   verificationFaults>>

ReadForPromotion ==
    /\ At("promoting")
    /\ IF finding \in PROMOTABLE
       THEN readState' = finding /\ doing' = "resolved" /\ UNCHANGED handling
       ELSE AtRest
    /\ UNCHANGED <<weakness, issueRow, runRows, evidence, verificationFaults>>

PromoteIssue ==
    /\ At("resolved")
    /\ finding' = "verified_resolved"
    /\ GoTo("noting")
    /\ UNCHANGED <<weakness, noted, runRows, evidence, verificationFaults>>

NotePromotion ==
    /\ At("noting")
    /\ noted' = handling
    /\ AtRest
    /\ UNCHANGED <<weakness, finding, runRows, evidence, verificationFaults>>

-----------------------------------------------------------------------------
(* Faults *)

VerificationFault ==
    /\ verificationFaults < MaxVerificationFaults
    /\ verificationFaults' = verificationFaults + 1
    /\ UNCHANGED weakness

\* processObservations catches what rejects in it: the observation is dropped.
DropObservation ==
    /\ VerificationFault
    /\ doing \in {"storing", "matching", "touching", "reopening", "attaching"}
    /\ GoTo("marking")
    /\ UNCHANGED <<issueRow, runRows, evidence>>

\* What rejects elsewhere is caught by pollOnce, which fails a run not over yet.
RunThrows ==
    /\ VerificationFault
    /\ doing \in {"dispatching", "probing", "marking", "finishing", "completing",
                 "resolving", "promoting", "resolved", "noting"}
    /\ runStatus' =
         [runStatus EXCEPT ![handling] = IF Unfinished(handling) THEN "failed" ELSE @]
    /\ AtRest
    /\ UNCHANGED <<issueRow, aim, artifact, outcome, evidence>>

VerifierCrash ==
    /\ VerificationFault
    /\ doing # "idle"
    /\ AtRest
    /\ UNCHANGED <<issueRow, runRows, evidence>>

-----------------------------------------------------------------------------
ProcessVerification ==
    \/ (\E y \in Verifications : TakeVerification(y))
    \/ DispatchTarget \/ ProbeTarget \/ StoreObservation
    \/ FindIssue \/ TouchIssue \/ NoteReopening \/ AttachObservation
    \/ MarkTarget \/ ReadFinalStatus \/ CompleteRun
    \/ SetOutcome \/ ReadForPromotion \/ PromoteIssue \/ NotePromotion

VerificationNext ==
    \/ ProcessVerification
    \/ WeaknessTurns
    \/ (\E to \in FindingStates : Decide(to))
    \/ (\E y \in Verifications : RequestVerification(y) \/ AbortVerification(y))
    \/ DropObservation \/ RunThrows \/ VerifierCrash

VerificationSpec == VerificationInit /\ [][VerificationNext]_verificationVars

-----------------------------------------------------------------------------
(* Properties *)

\* Every variable has its type.
VerificationTypeOK ==
    /\ weakness \in BOOLEAN /\ finding \in FindingStates
    /\ noted \in Verifications \cup {0}
    /\ runStatus \in [Verifications -> {"none", "queued", "running", "completed",
                                        "aborted", "failed"}]
    /\ aim \in [Verifications -> {"none", "pending", "in_progress", "completed",
                                  "failed", "excluded"}]
    /\ artifact \in [Verifications -> {"none", "nothing", "weakness"}]
    /\ observedIn \subseteq Verifications \cup {0}
    /\ attachedIn \subseteq observedIn
    /\ outcome \in [Verifications -> {"none", "pending", "inconclusive", "still_present",
                                      "confirmed_resolved"}]
    /\ handling \in Verifications \cup {0}
    /\ handling = 0 <=> doing = "idle"
    /\ readState \in FindingStates \cup {"none"}
    /\ verificationFaults \in 0..MaxVerificationFaults

\* 4.6 and MOD-13: a verification that says the weakness is still there saw it
\* in its own run; one that says it is gone, did not, unless a fault took what
\* was seen; one that says nothing has no observation.  An issue is resolved
\* only after a verification said so, and the row that says which is of a run
\* that did; and when nothing failed every completed verification has said
\* something, whoever moved the issue meanwhile.
VerificationIsHonest ==
    /\ \A y \in Verifications :
         /\ outcome[y] = "still_present" => artifact[y] = "weakness"
         /\ outcome[y] = "confirmed_resolved" /\ verificationFaults = 0 =>
              artifact[y] = "nothing"
         /\ outcome[y] = "inconclusive" => y \notin observedIn
         /\ runStatus[y] = "completed" /\ At("idle") /\ verificationFaults = 0 =>
              outcome[y] # "pending"
    /\ finding = "verified_resolved" =>
         \E y \in Verifications : outcome[y] = "confirmed_resolved"
    /\ noted # 0 => outcome[noted] = "confirmed_resolved"

=============================================================================
