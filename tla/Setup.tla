-------------------------------- MODULE Setup --------------------------------
(***************************************************************************)
(* First use of an appliance: the public request that makes the first      *)
(* administrator, the steps of the wizard, and the gates in their way.     *)
(* Several people may open the wizard at once.  What was done is read from *)
(* the database by GET /setup/status, so that the wizard goes on after a   *)
(* reload; a request may be lost at any await, and a session may end.      *)
(*                                                                         *)
(* Passwords, certificates and the contents of the forms are left out, and *)
(* so are the answers 400 of the steps.                                    *)
(***************************************************************************)
EXTENDS AccountGates, FiniteSets, Sequences

CONSTANTS
    People,          \* who opens the wizard, each with an e-mail address
    Screens,         \* what their client offers beside the steps
    MfaEnforcement,  \* MFA_ENFORCEMENT
    MaxSetupFaults   \* bound on lost requests and ended sessions

ASSUME ScreensAssumption == Screens \subseteq {"sign-in", "enroll"}
ASSUME SetupFaultsAssumption == MaxSetupFaults \in Nat

VARIABLES
    accounts,    \* rows of users, all of them administrators
    enrolled,    \* those with mfa_enabled
    done,        \* what the tables say of each step, and setup_completed_at
    signedIn,    \* people with a session that resolves
    wizardStep,        \* the step the wizard shows to each
    awaits,          \* the await of each one's request
    setupFaults

setupVars == <<accounts, enrolled, done, signedIn, wizardStep, awaits, setupFaults>>

Order == <<"administrator", "organization", "tls", "scope", "safety", "complete">>

Settings == {"organization", "tls", "scope", "safety"}

Following(k) == CHOOSE n \in 1..Len(Order) : n > 1 /\ Order[n - 1] = k

\* computeSetupStatus.
Status == done \cup IF accounts = {} THEN {} ELSE {"administrator"}

\* Where the wizard resumes: the first step that is not done.
FirstIncomplete ==
    LET open == {n \in 1..5 : Order[n] \notin Status}
    IN  IF open = {} THEN "complete" ELSE Order[CHOOSE n \in open : \A k \in open : n <= k]

\* The administrator of p as requireSession sees it.
AccountOf(p) == [mustChange |-> FALSE, role |-> "administrator", mfa |-> p \in enrolled]

Allowed(p, route) == p \in signedIn /\ Admits(MfaEnforcement, AccountOf(p), route)

Free(p) == awaits[p] = "idle" /\ "complete" \notin done

At(p, to) == awaits' = [awaits EXCEPT ![p] = to]

ShowStep(p, k) == wizardStep' = [wizardStep EXCEPT ![p] = k]

-----------------------------------------------------------------------------
SetupInit ==
    /\ accounts = {}
    /\ enrolled = {}
    /\ done = {}
    /\ signedIn = {}
    /\ wizardStep = [p \in People |-> "administrator"]
    /\ awaits = [p \in People |-> "idle"]
    /\ setupFaults = 0

\* A reload, or another look at the status.
Reload(p) ==
    /\ Free(p)
    /\ wizardStep[p] # FirstIncomplete
    /\ ShowStep(p, FirstIncomplete)
    /\ UNCHANGED <<accounts, enrolled, done, signedIn, awaits, setupFaults>>

(* POST /setup/administrator *)

\* Once an administrator exists the answer is 409; two may find none.
CheckAdministrator(p) ==
    /\ Free(p)
    /\ wizardStep[p] = "administrator"
    /\ accounts = {}
    /\ At(p, "inserting")
    /\ UNCHANGED <<accounts, enrolled, done, signedIn, wizardStep, setupFaults>>

\* The row and its audit entry are one transaction.
InsertAdministrator(p) ==
    /\ awaits[p] = "inserting"
    /\ accounts' = accounts \cup {p}
    /\ At(p, "establishing")
    /\ UNCHANGED <<enrolled, done, signedIn, wizardStep, setupFaults>>

EstablishSession(p) ==
    /\ awaits[p] = "establishing"
    /\ signedIn' = signedIn \cup {p}
    /\ At(p, "idle")
    /\ ShowStep(p, "organization")
    /\ UNCHANGED <<accounts, enrolled, done, setupFaults>>

(* POST /setup/organization, tls, initial-scope and safety-acknowledgement *)

Does(p, k) ==
    /\ Free(p)
    /\ wizardStep[p] = k
    /\ Allowed(p, "work")
    /\ done' = done \cup {k}
    /\ UNCHANGED <<accounts, enrolled, signedIn, awaits>>

PostOrganization(p) == Does(p, "organization")

\* An UPDATE of the row that organization makes, and so is safety.
PostTls(p) == "organization" \in done /\ Does(p, "tls")

PostInitialScope(p) == Does(p, "scope")

PostSafety(p) == "organization" \in done /\ Does(p, "safety")

PostStep(p) == PostOrganization(p) \/ PostTls(p) \/ PostInitialScope(p) \/ PostSafety(p)

TakeStep(p) ==
    /\ PostStep(p)
    /\ ShowStep(p, Order[Following(wizardStep[p])])
    /\ UNCHANGED setupFaults

(* POST /setup/complete *)

CheckComplete(p) ==
    /\ Free(p)
    /\ wizardStep[p] = "complete"
    /\ Allowed(p, "work")
    /\ Settings \subseteq done
    /\ At(p, "completing")
    /\ UNCHANGED <<accounts, enrolled, done, signedIn, wizardStep, setupFaults>>

CompleteSetup(p) ==
    /\ awaits[p] = "completing"
    /\ done' = done \cup {"complete"}
    /\ At(p, "idle")
    /\ UNCHANGED <<accounts, enrolled, signedIn, wizardStep, setupFaults>>

(* The gates *)

SignIn(p) ==
    /\ Free(p)
    /\ "sign-in" \in Screens
    /\ p \in accounts \ signedIn
    /\ IF p \in enrolled THEN At(p, "challenged") /\ UNCHANGED signedIn
       ELSE signedIn' = signedIn \cup {p} /\ UNCHANGED awaits
    /\ UNCHANGED <<accounts, enrolled, done, wizardStep, setupFaults>>

AnswerChallenge(p) ==
    /\ awaits[p] = "challenged"
    /\ signedIn' = signedIn \cup {p}
    /\ At(p, "idle")
    /\ UNCHANGED <<accounts, enrolled, done, wizardStep, setupFaults>>

AskEnrollment(p) ==
    /\ Free(p)
    /\ "enroll" \in Screens
    /\ Allowed(p, "enroll")
    /\ Screen(MfaEnforcement, AccountOf(p)) = "enroll"
    /\ At(p, "enrolling")
    /\ UNCHANGED <<accounts, enrolled, done, signedIn, wizardStep, setupFaults>>

\* The confirmation is a request of its own and resolves the session again.
Confirm(p) ==
    /\ awaits[p] = "enrolling"
    /\ At(p, "idle")
    /\ enrolled' = IF Allowed(p, "confirm") THEN enrolled \cup {p} ELSE enrolled
    /\ UNCHANGED <<accounts, done, signedIn, wizardStep, setupFaults>>

(* Faults *)

\* The API dies, or the connection does: what was not committed is undone.
RequestLost(p) ==
    /\ setupFaults < MaxSetupFaults
    /\ setupFaults' = setupFaults + 1
    /\ awaits[p] # "idle"
    /\ At(p, "idle")
    /\ UNCHANGED <<accounts, enrolled, done, signedIn, wizardStep>>

\* The step is done and its answer lost: it may be done again.
StepAnswerLost(p) ==
    /\ setupFaults < MaxSetupFaults
    /\ setupFaults' = setupFaults + 1
    /\ PostStep(p)
    /\ UNCHANGED wizardStep

SetupSessionEnds(p) ==
    /\ setupFaults < MaxSetupFaults
    /\ setupFaults' = setupFaults + 1
    /\ p \in signedIn
    /\ signedIn' = signedIn \ {p}
    /\ UNCHANGED <<accounts, enrolled, done, wizardStep, awaits>>

-----------------------------------------------------------------------------
\* What p does next; nobody stops half way.
GoesOn(p) ==
    \/ Reload(p)
    \/ CheckAdministrator(p) \/ InsertAdministrator(p) \/ EstablishSession(p)
    \/ TakeStep(p)
    \/ CheckComplete(p) \/ CompleteSetup(p)
    \/ SignIn(p) \/ AnswerChallenge(p) \/ AskEnrollment(p) \/ Confirm(p)

SetupNext ==
    \E p \in People :
        \/ GoesOn(p) \/ RequestLost(p) \/ SetupSessionEnds(p) \/ StepAnswerLost(p)

SetupSpec ==
    /\ SetupInit /\ [][SetupNext]_setupVars
    /\ \A p \in People : WF_setupVars(GoesOn(p))

-----------------------------------------------------------------------------
(* Properties *)

\* Every variable has its type.
SetupTypeOK ==
    /\ accounts \in SUBSET People
    /\ enrolled \in SUBSET accounts
    /\ done \in SUBSET (Settings \cup {"complete"})
    /\ signedIn \in SUBSET accounts
    /\ wizardStep \in [People -> {Order[n] : n \in 1..Len(Order)}]
    /\ awaits \in [People -> {"idle", "inserting", "establishing", "completing", "challenged",
                        "enrolling"}]
    /\ setupFaults \in 0..MaxSetupFaults

\* P1-06: when somebody asked to be the first administrator, the setup is
\* completed at some time, whatever requests are lost and sessions end on the
\* way, and although the one account that can complete it is gated from the
\* start.  This is what the API lets a client do that signs in and enrols; the
\* panel's wizard, for which Screens is {}, is left at the gate (README.md).
SetupFinishes ==
    (\E p \in People : awaits[p] = "inserting") ~> ("complete" \in done)

=============================================================================
