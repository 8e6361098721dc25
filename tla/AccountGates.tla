---------------------------- MODULE AccountGates ----------------------------
(***************************************************************************)
(* What a role may do, and the two gates every request with a session      *)
(* passes: a password that has to be changed first, and a second factor    *)
(* that has to be enrolled first.  The panel shows the screen that clears  *)
(* the gate it finds in the session payload.                               *)
(*                                                                         *)
(* Routes that are in no allowlist are all alike here: "work".             *)
(***************************************************************************)
EXTENDS Naturals

Roles == {"viewer", "analyst", "operator", "administrator"}

Rank == [viewer |-> 0, analyst |-> 1, operator |-> 2, administrator |-> 3]

RequireRole(actual, required) == Rank[actual] >= Rank[required]

\* The role each capability of the payload asks for.
Needed ==
    [assets |-> "analyst", issues |-> "analyst", requests |-> "analyst",
     approvals |-> "operator", scans |-> "operator", globalStop |-> "operator",
     scopes |-> "operator", notifications |-> "operator",
     riskScoring |-> "administrator", sla |-> "administrator",
     users |-> "administrator", retention |-> "administrator",
     flags |-> "administrator"]

CapabilitiesFor(role) == {c \in DOMAIN Needed : RequireRole(role, Needed[c])}

MfaMandatoryRoles == {"operator", "administrator"}

Routes == {"session", "logout", "password", "enroll", "confirm", "work"}

PasswordChangeAllowlist == {"session", "logout", "password"}

\* Mutant: the routes that enrol are gated themselves.
EnrollmentGated == {"session", "logout", "password"}
MfaEnrollmentAllowlist == {"session", "logout", "password", "enroll", "confirm"}

\* requireSession lets the request through; an account is a row of users.
Admits(enforcement, account, route) ==
    /\ account.mustChange => route \in PasswordChangeAllowlist
    /\ (/\ enforcement = "mandatory"
        /\ account.role \in MfaMandatoryRoles
        /\ ~account.mfa)
       => route \in MfaEnrollmentAllowlist

\* sessionCapabilities: enrolment is due for the role, enrolled or not.
EnrollmentRequired(enforcement, role) ==
    enforcement = "mandatory" /\ role \in MfaMandatoryRoles

\* AuthGate, from a payload of GET /auth/session.
Screen(enforcement, account) ==
    CASE account.mustChange -> "password"
      [] ~account.mustChange /\ EnrollmentRequired(enforcement, account.role)
                             /\ ~account.mfa -> "enroll"
      [] OTHER -> "app"

\* The routes a screen calls beside those of every screen.
CalledBy(screen) ==
    CASE screen = "password" -> {"password"}
      [] screen = "enroll" -> {"enroll", "confirm"}
      [] OTHER -> Routes

=============================================================================
