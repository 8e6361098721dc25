------------------------------ MODULE Accounts ------------------------------
(***************************************************************************)
(* One account: sign-in with its rate limit, lockout and second factor,    *)
(* the sessions it opens, the change of its password, its enrolment, and   *)
(* what an administrator does to it.  Every request may stop at any await, *)
(* and the row of users a request read is not locked while it verifies a   *)
(* password.                                                               *)
(*                                                                         *)
(* Passwords are abstracted to epoch, the number of changes so far; typing *)
(* the right one or a wrong one is a choice.  A session is named after the *)
(* request that inserts it.                                                *)
(***************************************************************************)
EXTENDS AccountGates, FiniteSets

CONSTANTS
    Logins,        \* POST /auth/login
    Answers,       \* POST /auth/mfa/challenge
    Changes,       \* POST /auth/password
    OldSessions,   \* sessions that are open in the first state
    Codes,         \* recovery codes of one enrolment
    Enforcement,   \* MFA_ENFORCEMENT
    Threshold,     \* ACCOUNT_LOCKOUT_THRESHOLD
    WindowLimit,   \* LOGIN_ATTEMPTS_PER_WINDOW
    NoRequest,     \* no login, no session
    MaxAccountFaults \* bound on crashes of the API and failures of Redis

ASSUME ThresholdAssumption == Threshold \in Nat \ {0}
ASSUME LimitsAssumption == WindowLimit \in Nat /\ MaxAccountFaults \in Nat
ASSUME RequestsAssumption == IsFiniteSet(Logins) /\ IsFiniteSet(Changes)
ASSUME NoRequestAssumption ==
    NoRequest \notin Logins \cup Answers \cup OldSessions

VARIABLES
    \* database
    user,       \* the row: failed, lock, active, epoch, mfa, mustChange, role
    session,    \* revoked_at and the expiries of each row of sessions
    unused,     \* rows of mfa_recovery_codes without used_at
    \* Redis
    attempts,   \* the counter of the window, for the one source address
    challenges, \* logins whose challenge token exists
    pending,    \* an enrolment token exists
    \* API process
    loginAt, loginSaw,   \* the await of each login, and the row it read
    answerAt, answerTo,  \* the await of each answer, and its challenge
    changeAt, changeIn,  \* the await of each change, and its session
    admin,               \* the await of the administrator's request
    adminSaw,            \* the representation the administrator's ETag is of
    accountFaults,
    \* history, read by properties only
    failures,   \* failed attempts that were written
    born,       \* epoch at the INSERT of each session
    madeEpoch   \* the epoch each change made

accountVars ==
    <<user, session, unused, attempts, challenges, pending, loginAt, loginSaw,
      answerAt, answerTo, changeAt, changeIn, admin, adminSaw, accountFaults,
      failures, born, madeEpoch>>

tables == <<user, session, unused>>
redis == <<attempts, challenges, pending>>
logging == <<loginAt, loginSaw>>
answering == <<answerAt, answerTo>>
changing == <<changeAt, changeIn>>
governing == <<admin, adminSaw>>
history == <<failures, born, madeEpoch>>

Sessions == Logins \cup Answers \cup OldSessions

\* Mutant: the failure that reaches one short of the threshold locks.
LocksEarly(count) == count + 1 >= Threshold
Locks(count) == count >= Threshold

\* WHERE user_id = ... AND revoked_at IS NULL.
Unrevoked == {s \in Sessions : session[s] \in {"live", "expired"}}

\* Mutant: only the session of the request is spared and nothing revoked.
NoneBut(s) == {}
AllBut(s) == Unrevoked \ {s}

Revoked(S) == [s \in Sessions |-> IF s \in S THEN "revoked" ELSE session[s]]

-----------------------------------------------------------------------------
\* POST /users made the account, and its owner signed in twice.
AccountInit ==
    /\ \E b \in BOOLEAN :
         user = [failed |-> 0, lock |-> "open", active |-> TRUE, epoch |-> 0,
                 mfa |-> FALSE, mustChange |-> b, role |-> "viewer"]
    /\ session = [s \in Sessions |-> IF s \in OldSessions THEN "live" ELSE "none"]
    /\ unused = {}
    /\ attempts = 0
    /\ challenges = {}
    /\ pending = FALSE
    /\ loginAt = [l \in Logins |-> "new"]
    /\ loginSaw = [l \in Logins |-> [failed |-> 0, mfa |-> FALSE]]
    /\ answerAt = [x \in Answers |-> "new"]
    /\ answerTo = [x \in Answers |-> NoRequest]
    /\ changeAt = [c \in Changes |-> "new"]
    /\ changeIn = [c \in Changes |-> NoRequest]
    /\ admin = "idle"
    /\ adminSaw = "viewer"
    /\ accountFaults = 0
    /\ failures = 0
    /\ born = [s \in Sessions |-> 0]
    /\ madeEpoch = [c \in Changes |-> 0]

LoginAt(l, from, to) == loginAt[l] = from /\ loginAt' = [loginAt EXCEPT ![l] = to]
AnswerAt(x, from, to) == answerAt[x] = from /\ answerAt' = [answerAt EXCEPT ![x] = to]
ChangeAt(c, from, to) == changeAt[c] = from /\ changeAt' = [changeAt EXCEPT ![c] = to]

\* createSession: a row of its own, live from the start.
Opens(s) ==
    /\ session' = [session EXCEPT ![s] = "live"]
    /\ born' = [born EXCEPT ![s] = user.epoch]
    /\ UNCHANGED <<user, unused, failures, madeEpoch>>

-----------------------------------------------------------------------------
(* POST /auth/login *)

\* INCR in Redis: the answer decides at once, or the request goes on.
CountAttempt(l) ==
    /\ LoginAt(l, "new", IF attempts + 1 > WindowLimit THEN "done" ELSE "counted")
    /\ attempts' = IF attempts > WindowLimit THEN attempts ELSE attempts + 1
    /\ UNCHANGED <<tables, challenges, pending, loginSaw, answering, changing,
                   governing, accountFaults, history>>

\* Redis is away: this control alone fails open.
CountFails(l) ==
    /\ accountFaults < MaxAccountFaults
    /\ accountFaults' = accountFaults + 1
    /\ LoginAt(l, "new", "counted")
    /\ UNCHANGED <<tables, redis, loginSaw, answering, changing, governing, history>>

\* The lock is looked at before the password, right or wrong.
ReadLocked(l) ==
    /\ user.lock = "locked"
    /\ LoginAt(l, "counted", "done")
    /\ UNCHANGED <<tables, redis, loginSaw, answering, changing, governing,
                   accountFaults, history>>

ReadAccount(l) ==
    /\ user.lock = "open"
    /\ LoginAt(l, "counted", IF user.active THEN "verifying" ELSE "refused")
    /\ loginSaw' = [loginSaw EXCEPT ![l] = [failed |-> user.failed, mfa |-> user.mfa]]
    /\ UNCHANGED <<tables, redis, answering, changing, governing, accountFaults, history>>

PasswordWrong(l) ==
    /\ LoginAt(l, "verifying", "refused")
    /\ UNCHANGED <<tables, redis, loginSaw, answering, changing, governing,
                   accountFaults, history>>

PasswordRight(l) ==
    /\ LoginAt(l, "verifying", "passed")
    /\ UNCHANGED <<tables, redis, loginSaw, answering, changing, governing,
                   accountFaults, history>>

\* Both columns are written, the count from the row read before verifyPassword
\* and the lock as it was then, which was open.
RecordFailure(l) ==
    /\ LoginAt(l, "refused", "done")
    /\ user' = [user EXCEPT !.failed = loginSaw[l].failed + 1,
                            !.lock = IF Locks(loginSaw[l].failed + 1) THEN "locked"
                                     ELSE "open"]
    /\ failures' = failures + 1
    /\ UNCHANGED <<session, unused, redis, loginSaw, answering, changing, governing,
                   accountFaults, born, madeEpoch>>

ResetFailures(l) ==
    /\ LoginAt(l, "passed", "welcome")
    /\ user' = [user EXCEPT !.failed = 0, !.lock = "open"]
    /\ UNCHANGED <<session, unused, redis, loginSaw, answering, changing, governing,
                   accountFaults, history>>

CreateChallenge(l) ==
    /\ loginSaw[l].mfa
    /\ LoginAt(l, "welcome", "done")
    /\ challenges' = challenges \cup {l}
    /\ UNCHANGED <<tables, attempts, pending, loginSaw, answering, changing, governing,
                   accountFaults, history>>

\* An enrolment since the row was read is not seen.
CompleteLogin(l) ==
    /\ ~loginSaw[l].mfa
    /\ LoginAt(l, "welcome", "done")
    /\ Opens(l)
    /\ UNCHANGED <<redis, loginSaw, answering, changing, governing, accountFaults>>

Login(l) ==
    \/ CountAttempt(l) \/ CountFails(l) \/ ReadLocked(l) \/ ReadAccount(l)
    \/ PasswordWrong(l) \/ PasswordRight(l) \/ RecordFailure(l) \/ ResetFailures(l)
    \/ CreateChallenge(l) \/ CompleteLogin(l)

-----------------------------------------------------------------------------
(* POST /auth/mfa/challenge *)

\* GET and DEL are two commands: two answers may both get the token.
GetChallenge(x) ==
    /\ AnswerAt(x, "new", "got")
    /\ \E l \in challenges : answerTo' = [answerTo EXCEPT ![x] = l]
    /\ UNCHANGED <<tables, redis, logging, changing, governing, accountFaults, history>>

DeleteChallenge(x) ==
    /\ AnswerAt(x, "got", "consumed")
    /\ challenges' = challenges \ {answerTo[x]}
    /\ UNCHANGED <<tables, attempts, pending, logging, answerTo, changing, governing,
                   accountFaults, history>>

\* Neither the lock nor is_active is looked at again.
CodeRight(x) ==
    /\ AnswerAt(x, "consumed", "admitted")
    /\ UNCHANGED <<tables, redis, logging, answerTo, changing, governing, accountFaults,
                   history>>

CodeWrong(x) ==
    /\ AnswerAt(x, "consumed", "done")
    /\ UNCHANGED <<tables, redis, logging, answerTo, changing, governing, accountFaults,
                   history>>

\* consumeRecoveryCode: the SELECT of an unused code, then the UPDATE by id.
FindRecoveryCode(x) ==
    /\ unused # {}
    /\ AnswerAt(x, "consumed", "found")
    /\ UNCHANGED <<tables, redis, logging, answerTo, changing, governing, accountFaults,
                   history>>

UseRecoveryCode(x) ==
    /\ AnswerAt(x, "found", "admitted")
    /\ \E k \in Codes : unused' = unused \ {k}
    /\ UNCHANGED <<user, session, redis, logging, answerTo, changing, governing,
                   accountFaults, history>>

CompleteAnswer(x) ==
    /\ AnswerAt(x, "admitted", "done")
    /\ Opens(x)
    /\ UNCHANGED <<redis, logging, answerTo, changing, governing, accountFaults>>

Answer(x) ==
    \/ GetChallenge(x) \/ DeleteChallenge(x) \/ CodeRight(x) \/ CodeWrong(x)
    \/ FindRecoveryCode(x) \/ UseRecoveryCode(x) \/ CompleteAnswer(x)

-----------------------------------------------------------------------------
(* Requests with a session: resolveSession reads the session and the row of *)
(* its account together, and the gates follow.                              *)

Resolves(s, route) ==
    /\ session[s] = "live"
    /\ user.active
    /\ Admits(Enforcement, user, route)

Logout(s) ==
    /\ Resolves(s, "logout")
    /\ session' = Revoked({s})
    /\ UNCHANGED <<user, unused, redis, logging, answering, changing, governing,
                   accountFaults, history>>

\* Refused once enrolled.
Enroll(s) ==
    /\ Resolves(s, "enroll")
    /\ ~user.mfa
    /\ pending' = TRUE
    /\ UNCHANGED <<tables, attempts, challenges, logging, answering, changing, governing,
                   accountFaults, history>>

\* Whether the account was enrolled meanwhile is not looked at again.
ConfirmEnrollment(s) ==
    /\ Resolves(s, "confirm")
    /\ pending
    /\ pending' = FALSE
    /\ user' = [user EXCEPT !.mfa = TRUE]
    /\ unused' = Codes
    /\ UNCHANGED <<session, attempts, challenges, logging, answering, changing,
                   governing, accountFaults, history>>

StartChange(c, s) ==
    /\ Resolves(s, "password")
    /\ ChangeAt(c, "new", "verifying")
    /\ changeIn' = [changeIn EXCEPT ![c] = s]
    /\ UNCHANGED <<tables, redis, logging, answering, governing, accountFaults, history>>

\* The current password is wrong, or the policy refuses the new one.
RefuseChange(c) ==
    /\ ChangeAt(c, "verifying", "refused")
    /\ UNCHANGED <<tables, redis, logging, answering, changeIn, governing, accountFaults,
                   history>>

ChangePassword(c) ==
    /\ ChangeAt(c, "verifying", "revoking")
    /\ user' = [user EXCEPT !.epoch = @ + 1, !.mustChange = FALSE]
    /\ madeEpoch' = [madeEpoch EXCEPT ![c] = user.epoch + 1]
    /\ UNCHANGED <<session, unused, redis, logging, answering, changeIn, governing,
                   accountFaults, failures, born>>

RevokeOthers(c) ==
    /\ ChangeAt(c, "revoking", "done")
    /\ session' = Revoked(AllBut(changeIn[c]))
    /\ UNCHANGED <<user, unused, redis, logging, answering, changeIn, governing,
                   accountFaults, history>>

Change(c) ==
    \/ \E s \in Sessions : StartChange(c, s)
    \/ RefuseChange(c) \/ ChangePassword(c) \/ RevokeOthers(c)

-----------------------------------------------------------------------------
(* An administrator, another account: PATCH and deactivate *)

\* The ETag is of the representation the administrator was shown.
ReadRole ==
    /\ admin = "idle"
    /\ admin' = "editing"
    /\ adminSaw' = user.role
    /\ UNCHANGED <<tables, redis, logging, answering, changing, accountFaults, history>>

\* Compared with the row as it is before the UPDATE; no session is revoked.
PatchRole ==
    /\ admin = "editing"
    /\ user.role = adminSaw
    /\ admin' = "patched"
    /\ user' = [user EXCEPT !.role = "operator"]
    /\ UNCHANGED <<session, unused, redis, logging, answering, changing, adminSaw,
                   accountFaults, history>>

Deactivate ==
    /\ admin \in {"idle", "patched"}
    /\ admin' = "deactivating"
    /\ user' = [user EXCEPT !.active = FALSE]
    /\ UNCHANGED <<session, unused, redis, logging, answering, changing, adminSaw,
                   accountFaults, history>>

RevokeDeactivated ==
    /\ admin = "deactivating"
    /\ admin' = "deactivated"
    /\ session' = Revoked(Unrevoked)
    /\ UNCHANGED <<user, unused, redis, logging, answering, changing, adminSaw,
                   accountFaults, history>>

Administration == ReadRole \/ PatchRole \/ Deactivate \/ RevokeDeactivated

-----------------------------------------------------------------------------
(* Time and faults *)

WindowEnds ==
    /\ attempts # 0
    /\ attempts' = 0
    /\ UNCHANGED <<tables, challenges, pending, logging, answering, changing, governing,
                   accountFaults, history>>

LockEnds ==
    /\ user.lock = "locked"
    /\ user' = [user EXCEPT !.lock = "open"]
    /\ UNCHANGED <<session, unused, redis, logging, answering, changing, governing,
                   accountFaults, history>>

SessionEnds(s) ==
    /\ session[s] = "live"
    /\ session' = [session EXCEPT ![s] = "expired"]
    /\ UNCHANGED <<user, unused, redis, logging, answering, changing, governing,
                   accountFaults, history>>

TokensEnd ==
    /\ challenges # {} \/ pending
    /\ challenges' = {}
    /\ pending' = FALSE
    /\ UNCHANGED <<tables, attempts, logging, answering, changing, governing,
                   accountFaults, history>>

\* Every request in flight is gone, with what it had not yet written.
Lost(at) == [r \in DOMAIN at |-> IF at[r] \in {"new", "done"} THEN at[r] ELSE "lost"]

ApiCrash ==
    /\ accountFaults < MaxAccountFaults
    /\ accountFaults' = accountFaults + 1
    /\ loginAt' = Lost(loginAt)
    /\ answerAt' = Lost(answerAt)
    /\ changeAt' = Lost(changeAt)
    /\ admin' = IF admin = "deactivating" THEN "patched" ELSE admin
    /\ UNCHANGED <<tables, redis, loginSaw, answerTo, changeIn, adminSaw, history>>

-----------------------------------------------------------------------------
AccountNext ==
    \/ \E l \in Logins : Login(l)
    \/ \E x \in Answers : Answer(x)
    \/ \E c \in Changes : Change(c)
    \/ \E s \in Sessions : Logout(s) \/ Enroll(s) \/ ConfirmEnrollment(s) \/ SessionEnds(s)
    \/ Administration \/ WindowEnds \/ LockEnds \/ TokensEnd \/ ApiCrash

AccountSpec == AccountInit /\ [][AccountNext]_accountVars

-----------------------------------------------------------------------------
(* Properties *)

Accounting ==
    [failed : 0..Cardinality(Logins), lock : {"open", "locked"}, active : BOOLEAN,
     epoch : 0..Cardinality(Changes), mfa : BOOLEAN, mustChange : BOOLEAN, role : Roles]

\* Every variable has its type.
AccountTypeOK ==
    /\ user \in Accounting
    /\ session \in [Sessions -> {"none", "live", "expired", "revoked"}]
    /\ unused \in SUBSET Codes
    /\ attempts \in 0..(WindowLimit + 1)
    /\ challenges \in SUBSET Logins
    /\ pending \in BOOLEAN
    /\ loginAt \in [Logins -> {"new", "counted", "verifying", "refused", "passed",
                              "welcome", "done", "lost"}]
    /\ loginSaw \in [Logins -> [failed : 0..Cardinality(Logins), mfa : BOOLEAN]]
    /\ answerAt \in [Answers -> {"new", "got", "consumed", "found", "admitted", "done",
                                "lost"}]
    /\ answerTo \in [Answers -> Logins \cup {NoRequest}]
    /\ changeAt \in [Changes -> {"new", "verifying", "refused", "revoking", "done",
                                "lost"}]
    /\ changeIn \in [Changes -> Sessions \cup {NoRequest}]
    /\ admin \in {"idle", "editing", "patched", "deactivating", "deactivated"}
    /\ adminSaw \in Roles
    /\ accountFaults \in 0..MaxAccountFaults
    /\ failures \in 0..Cardinality(Logins)
    /\ born \in [Sessions -> 0..Cardinality(Changes)]
    /\ madeEpoch \in [Changes -> 0..Cardinality(Changes)]

\* SEC-11: an account is only locked after ACCOUNT_LOCKOUT_THRESHOLD attempts
\* failed, however the attempts overlap, succeed and overwrite each other's count.
LockIsEarned == user.lock = "locked" => failures >= Threshold

\* SEC-08: when a change of the password was answered, the sessions that were
\* open before it are over, the one that made the request excepted, whatever
\* sign-ins, other changes and crashes came in between.
ChangeEndsSessions ==
    \A c \in Changes : changeAt[c] = "done" =>
        \A s \in Sessions : session[s] = "live" /\ born[s] < madeEpoch[c] => s = changeIn[c]

=============================================================================
