----------------------------- MODULE ApiProofs ------------------------------
(****************************************************************************)
(* Theorems about the parts of the API that keep state between requests,   *)
(* for every value of their constants: accounts and their sessions, the    *)
(* first setup, the handlers that write, two or more at a time, and lists  *)
(* walked page by page.                                                    *)
(****************************************************************************)
EXTENDS Accounts, Setup, Requests, Pages, FiniteSetTheorems, SequenceTheorems,
    WellFoundedInduction, TLAPS

-----------------------------------------------------------------------------
(* Accounts *)

\* AccountTypeOK with every count a number: what each step keeps by itself.
AccountRows ==
    /\ user \in [failed : Nat, lock : {"open", "locked"}, active : BOOLEAN, epoch : Nat,
                 mfa : BOOLEAN, mustChange : BOOLEAN, role : Roles]
    /\ session \in [Sessions -> {"none", "live", "expired", "revoked"}]
    /\ unused \in SUBSET Codes
    /\ attempts \in 0..(WindowLimit + 1)
    /\ challenges \in SUBSET Logins
    /\ pending \in BOOLEAN
    /\ loginAt \in [Logins -> {"new", "counted", "verifying", "refused", "passed",
                              "welcome", "done", "lost"}]
    /\ loginSaw \in [Logins -> [failed : Nat, mfa : BOOLEAN]]
    /\ answerAt \in [Answers -> {"new", "got", "consumed", "found", "admitted", "done",
                                "lost"}]
    /\ answerTo \in [Answers -> Logins \cup {NoRequest}]
    /\ changeAt \in [Changes -> {"new", "verifying", "refused", "revoking", "done",
                                "lost"}]
    /\ changeIn \in [Changes -> Sessions \cup {NoRequest}]
    /\ admin \in {"idle", "editing", "patched", "deactivating", "deactivated"}
    /\ adminSaw \in Roles
    /\ accountFaults \in 0..MaxAccountFaults
    /\ failures \in Nat
    /\ born \in [Sessions -> Nat]
    /\ madeEpoch \in [Changes -> Nat]

\* No count a request wrote or read, however stale, is above the failures there
\* were, and no epoch is above that of the row.
AccountBounds ==
    /\ user.failed <= failures
    /\ \A l \in Logins : loginSaw[l].failed <= failures
    /\ \A s \in Sessions : born[s] <= user.epoch
    /\ \A c \in Changes : madeEpoch[c] <= user.epoch

\* The rows keep their types but for the bounds of the counts.
LEMMA AccountRowsInvariant == AccountSpec => []AccountRows
<1>1. AccountInit => AccountRows
  <2> SUFFICES ASSUME AccountInit PROVE AccountRows
    OBVIOUS
  <2>1. user \in [failed : Nat, lock : {"open", "locked"}, active : BOOLEAN, epoch : Nat,
                 mfa : BOOLEAN, mustChange : BOOLEAN, role : Roles]
    <3>1. PICK b \in BOOLEAN :
            user = [failed |-> 0, lock |-> "open", active |-> TRUE, epoch |-> 0,
                    mfa |-> FALSE, mustChange |-> b, role |-> "viewer"]
      BY DEF AccountInit
    <3>. QED
      BY <3>1 DEF Roles
  <2>2. /\ session \in [Sessions -> {"none", "live", "expired", "revoked"}]
        /\ born \in [Sessions -> Nat] /\ madeEpoch \in [Changes -> Nat] /\ failures \in Nat
        /\ changeIn \in [Changes -> Sessions \cup {NoRequest}]
    BY DEF AccountInit, Sessions
  <2>3. loginAt \in [Logins -> {"new", "counted", "verifying", "refused", "passed",
                                 "welcome", "done", "lost"}]
    BY DEF AccountInit
  <2>4. answerAt \in [Answers -> {"new", "got", "consumed", "found", "admitted", "done",
                                   "lost"}]
    BY DEF AccountInit
  <2>5. changeAt \in [Changes -> {"new", "verifying", "refused", "revoking", "done",
                                   "lost"}]
    BY DEF AccountInit
  <2>6. /\ loginSaw \in [Logins -> [failed : Nat, mfa : BOOLEAN]]
        /\ answerTo \in [Answers -> Logins \cup {NoRequest}]
    BY DEF AccountInit
  <2>7. /\ unused \in SUBSET Codes /\ attempts \in 0..(WindowLimit + 1)
        /\ challenges \in SUBSET Logins /\ accountFaults \in 0..MaxAccountFaults
    BY LimitsAssumption DEF AccountInit
  <2>8. /\ pending \in BOOLEAN /\ adminSaw \in Roles
        /\ admin \in {"idle", "editing", "patched", "deactivating", "deactivated"}
    BY DEF AccountInit, Roles
  <2>. QED
    BY <2>1, <2>2, <2>3, <2>4, <2>5, <2>6, <2>7, <2>8 DEF AccountRows
<1>2. AccountRows /\ [AccountNext]_accountVars => AccountRows'
  <2> SUFFICES ASSUME AccountRows, [AccountNext]_accountVars PROVE AccountRows'
    OBVIOUS
  <2> USE DEF AccountRows, tables, redis, logging, answering, changing, governing, history
  <2>1. ASSUME NEW l \in Logins, Login(l) PROVE AccountRows'
    <3>1. CASE CountAttempt(l)
      BY <3>1, LimitsAssumption DEF CountAttempt, LoginAt
    <3>2. CASE CountFails(l)
      BY <3>2, LimitsAssumption DEF CountFails, LoginAt
    <3>3. CASE ReadLocked(l)
      BY <3>3 DEF ReadLocked, LoginAt
    <3>4. CASE ReadAccount(l)
      BY <3>4 DEF ReadAccount, LoginAt
    <3>5. CASE PasswordWrong(l)
      BY <3>5 DEF PasswordWrong, LoginAt
    <3>6. CASE PasswordRight(l)
      BY <3>6 DEF PasswordRight, LoginAt
    <3>7. CASE RecordFailure(l)
      <4>1. loginSaw[l].failed + 1 \in Nat
        BY <3>7
      <4>2. user' \in [failed : Nat, lock : {"open", "locked"}, active : BOOLEAN, epoch : Nat,
                     mfa : BOOLEAN, mustChange : BOOLEAN, role : Roles]
        BY <3>7, <4>1 DEF RecordFailure
      <4>. QED
        BY <3>7, <4>2 DEF RecordFailure, LoginAt
    <3>8. CASE ResetFailures(l)
      BY <3>8 DEF ResetFailures, LoginAt
    <3>9. CASE CreateChallenge(l)
      BY <3>9 DEF CreateChallenge, LoginAt
    <3>10. CASE CompleteLogin(l)
      BY <3>10 DEF CompleteLogin, LoginAt, Opens, Sessions
    <3>. QED
      BY <2>1, <3>1, <3>2, <3>3, <3>4, <3>5, <3>6, <3>7, <3>8, <3>9, <3>10 DEF Login
  <2>2. ASSUME NEW x \in Answers, Answer(x) PROVE AccountRows'
    <3>1. CASE GetChallenge(x)
      BY <3>1 DEF GetChallenge, AnswerAt
    <3>2. CASE DeleteChallenge(x)
      BY <3>2 DEF DeleteChallenge, AnswerAt
    <3>3. CASE CodeRight(x)
      BY <3>3 DEF CodeRight, AnswerAt
    <3>4. CASE CodeWrong(x)
      BY <3>4 DEF CodeWrong, AnswerAt
    <3>5. CASE FindRecoveryCode(x)
      BY <3>5 DEF FindRecoveryCode, AnswerAt
    <3>6. CASE UseRecoveryCode(x)
      BY <3>6 DEF UseRecoveryCode, AnswerAt
    <3>7. CASE CompleteAnswer(x)
      BY <3>7 DEF CompleteAnswer, AnswerAt, Opens, Sessions
    <3>. QED
      BY <2>2, <3>1, <3>2, <3>3, <3>4, <3>5, <3>6, <3>7 DEF Answer
  <2>3. ASSUME NEW c \in Changes, Change(c) PROVE AccountRows'
    <3>1. ASSUME NEW s \in Sessions, StartChange(c, s) PROVE AccountRows'
      BY <3>1 DEF StartChange, ChangeAt
    <3>2. CASE RefuseChange(c)
      BY <3>2 DEF RefuseChange, ChangeAt
    <3>3. CASE ChangePassword(c)
      <4>1. user.epoch + 1 \in Nat
        BY <3>3
      <4>2. user' \in [failed : Nat, lock : {"open", "locked"}, active : BOOLEAN, epoch : Nat,
                     mfa : BOOLEAN, mustChange : BOOLEAN, role : Roles]
        BY <3>3, <4>1 DEF ChangePassword
      <4>. QED
        BY <3>3, <4>1, <4>2 DEF ChangePassword, ChangeAt
    <3>4. CASE RevokeOthers(c)
      BY <3>4 DEF RevokeOthers, ChangeAt, Revoked, AllBut, Unrevoked
    <3>. QED
      BY <2>3, <3>1, <3>2, <3>3, <3>4 DEF Change
  <2>4. ASSUME NEW s \in Sessions, Logout(s) PROVE AccountRows'
    BY <2>4 DEF Logout, Revoked
  <2>5. ASSUME NEW s \in Sessions, Enroll(s) PROVE AccountRows'
    BY <2>5 DEF Enroll
  <2>6. ASSUME NEW s \in Sessions, ConfirmEnrollment(s) PROVE AccountRows'
    BY <2>6 DEF ConfirmEnrollment
  <2>7. ASSUME NEW s \in Sessions, SessionEnds(s) PROVE AccountRows'
    BY <2>7 DEF SessionEnds
  <2>8. CASE Administration
    <3>1. CASE ReadRole
      BY <3>1 DEF ReadRole
    <3>2. CASE PatchRole
      BY <3>2 DEF PatchRole, Roles
    <3>3. CASE Deactivate
      BY <3>3 DEF Deactivate
    <3>4. CASE RevokeDeactivated
      BY <3>4 DEF RevokeDeactivated, Revoked, Unrevoked
    <3>. QED
      BY <2>8, <3>1, <3>2, <3>3, <3>4 DEF Administration
  <2>9. CASE WindowEnds
    BY <2>9, LimitsAssumption DEF WindowEnds
  <2>10. CASE LockEnds
    BY <2>10 DEF LockEnds
  <2>11. CASE TokensEnd
    BY <2>11 DEF TokensEnd
  <2>12. CASE ApiCrash
    BY <2>12, LimitsAssumption DEF ApiCrash, Lost
  <2>13. CASE UNCHANGED accountVars
    BY <2>13 DEF accountVars
  <2>. QED
    BY <2>1, <2>2, <2>3, <2>4, <2>5, <2>6, <2>7, <2>8, <2>9, <2>10, <2>11, <2>12, <2>13
      DEF AccountNext
<1>. QED
  BY <1>1, <1>2, PTL DEF AccountSpec

\* A failure is written from a row read before it, which had no more failures
\* than there were; so is an epoch.
LEMMA AccountBoundsInvariant == AccountSpec => []AccountBounds
<1>1. AccountInit => AccountBounds
  BY DEF AccountInit, AccountBounds, Sessions
<1>2. AccountRows /\ AccountBounds /\ [AccountNext]_accountVars => AccountBounds'
  <2> SUFFICES ASSUME AccountRows, AccountBounds, [AccountNext]_accountVars PROVE AccountBounds'
    OBVIOUS
  <2> USE DEF AccountRows, AccountBounds, tables, redis, logging, answering, changing,
    governing, history
  <2>1. ASSUME NEW l \in Logins, Login(l) PROVE AccountBounds'
    <3>1. CASE CountAttempt(l)
      BY <3>1 DEF CountAttempt, LoginAt
    <3>2. CASE CountFails(l)
      BY <3>2 DEF CountFails, LoginAt
    <3>3. CASE ReadLocked(l)
      BY <3>3 DEF ReadLocked, LoginAt
    <3>4. CASE ReadAccount(l)
      BY <3>4 DEF ReadAccount, LoginAt
    <3>5. CASE PasswordWrong(l)
      BY <3>5 DEF PasswordWrong, LoginAt
    <3>6. CASE PasswordRight(l)
      BY <3>6 DEF PasswordRight, LoginAt
    <3>7. CASE RecordFailure(l)
      BY <3>7 DEF RecordFailure, LoginAt
    <3>8. CASE ResetFailures(l)
      BY <3>8 DEF ResetFailures, LoginAt
    <3>9. CASE CreateChallenge(l)
      BY <3>9 DEF CreateChallenge, LoginAt
    <3>10. CASE CompleteLogin(l)
      BY <3>10 DEF CompleteLogin, LoginAt, Opens, Sessions
    <3>. QED
      BY <2>1, <3>1, <3>2, <3>3, <3>4, <3>5, <3>6, <3>7, <3>8, <3>9, <3>10 DEF Login
  <2>2. ASSUME NEW x \in Answers, Answer(x) PROVE AccountBounds'
    <3>1. CASE GetChallenge(x)
      BY <3>1 DEF GetChallenge, AnswerAt
    <3>2. CASE DeleteChallenge(x)
      BY <3>2 DEF DeleteChallenge, AnswerAt
    <3>3. CASE CodeRight(x)
      BY <3>3 DEF CodeRight, AnswerAt
    <3>4. CASE CodeWrong(x)
      BY <3>4 DEF CodeWrong, AnswerAt
    <3>5. CASE FindRecoveryCode(x)
      BY <3>5 DEF FindRecoveryCode, AnswerAt
    <3>6. CASE UseRecoveryCode(x)
      BY <3>6 DEF UseRecoveryCode, AnswerAt
    <3>7. CASE CompleteAnswer(x)
      BY <3>7 DEF CompleteAnswer, AnswerAt, Opens, Sessions
    <3>. QED
      BY <2>2, <3>1, <3>2, <3>3, <3>4, <3>5, <3>6, <3>7 DEF Answer
  <2>3. ASSUME NEW c \in Changes, Change(c) PROVE AccountBounds'
    <3>1. ASSUME NEW s \in Sessions, StartChange(c, s) PROVE AccountBounds'
      BY <3>1 DEF StartChange, ChangeAt
    <3>2. CASE RefuseChange(c)
      BY <3>2 DEF RefuseChange, ChangeAt
    <3>3. CASE ChangePassword(c)
      BY <3>3 DEF ChangePassword, ChangeAt
    <3>4. CASE RevokeOthers(c)
      BY <3>4 DEF RevokeOthers, ChangeAt, Revoked, AllBut, Unrevoked
    <3>. QED
      BY <2>3, <3>1, <3>2, <3>3, <3>4 DEF Change
  <2>4. ASSUME NEW s \in Sessions, Logout(s) PROVE AccountBounds'
    BY <2>4 DEF Logout, Revoked
  <2>5. ASSUME NEW s \in Sessions, Enroll(s) PROVE AccountBounds'
    BY <2>5 DEF Enroll
  <2>6. ASSUME NEW s \in Sessions, ConfirmEnrollment(s) PROVE AccountBounds'
    BY <2>6 DEF ConfirmEnrollment
  <2>7. ASSUME NEW s \in Sessions, SessionEnds(s) PROVE AccountBounds'
    BY <2>7 DEF SessionEnds
  <2>8. CASE Administration
    <3>1. CASE ReadRole
      BY <3>1 DEF ReadRole
    <3>2. CASE PatchRole
      BY <3>2 DEF PatchRole
    <3>3. CASE Deactivate
      BY <3>3 DEF Deactivate
    <3>4. CASE RevokeDeactivated
      BY <3>4 DEF RevokeDeactivated, Revoked, Unrevoked
    <3>. QED
      BY <2>8, <3>1, <3>2, <3>3, <3>4 DEF Administration
  <2>9. CASE WindowEnds
    BY <2>9 DEF WindowEnds
  <2>10. CASE LockEnds
    BY <2>10 DEF LockEnds
  <2>11. CASE TokensEnd
    BY <2>11 DEF TokensEnd
  <2>12. CASE ApiCrash
    BY <2>12 DEF ApiCrash, Lost
  <2>13. CASE UNCHANGED accountVars
    BY <2>13 DEF accountVars
  <2>. QED
    BY <2>1, <2>2, <2>3, <2>4, <2>5, <2>6, <2>7, <2>8, <2>9, <2>10, <2>11, <2>12, <2>13
      DEF AccountNext
<1>. QED
  BY <1>1, <1>2, AccountRowsInvariant, PTL DEF AccountSpec

\* SEC-11, for every number of sign-ins, threshold and interleaving: an account
\* is locked only after as many attempts failed as the threshold says.
THEOREM LockIsAlwaysEarned == AccountSpec => []LockIsEarned
<1>1. AccountInit => LockIsEarned
  BY DEF AccountInit, LockIsEarned
<1>2. AccountRows /\ AccountBounds /\ LockIsEarned /\ [AccountNext]_accountVars => LockIsEarned'
  <2> SUFFICES ASSUME AccountRows, AccountBounds, LockIsEarned, [AccountNext]_accountVars
      PROVE LockIsEarned'
    OBVIOUS
  <2> USE DEF AccountRows, AccountBounds, LockIsEarned, tables, redis, logging, answering,
    changing, governing, history
  <2>1. ASSUME NEW l \in Logins, Login(l) PROVE LockIsEarned'
    <3>1. CASE CountAttempt(l)
      BY <3>1 DEF CountAttempt, LoginAt
    <3>2. CASE CountFails(l)
      BY <3>2 DEF CountFails, LoginAt
    <3>3. CASE ReadLocked(l)
      BY <3>3 DEF ReadLocked, LoginAt
    <3>4. CASE ReadAccount(l)
      BY <3>4 DEF ReadAccount, LoginAt
    <3>5. CASE PasswordWrong(l)
      BY <3>5 DEF PasswordWrong, LoginAt
    <3>6. CASE PasswordRight(l)
      BY <3>6 DEF PasswordRight, LoginAt
    <3>7. CASE RecordFailure(l)
      BY <3>7, ThresholdAssumption DEF RecordFailure, LoginAt, Locks
    <3>8. CASE ResetFailures(l)
      BY <3>8 DEF ResetFailures, LoginAt
    <3>9. CASE CreateChallenge(l)
      BY <3>9 DEF CreateChallenge, LoginAt
    <3>10. CASE CompleteLogin(l)
      BY <3>10 DEF CompleteLogin, LoginAt, Opens, Sessions
    <3>. QED
      BY <2>1, <3>1, <3>2, <3>3, <3>4, <3>5, <3>6, <3>7, <3>8, <3>9, <3>10 DEF Login
  <2>2. ASSUME NEW x \in Answers, Answer(x) PROVE LockIsEarned'
    <3>1. CASE GetChallenge(x)
      BY <3>1 DEF GetChallenge, AnswerAt
    <3>2. CASE DeleteChallenge(x)
      BY <3>2 DEF DeleteChallenge, AnswerAt
    <3>3. CASE CodeRight(x)
      BY <3>3 DEF CodeRight, AnswerAt
    <3>4. CASE CodeWrong(x)
      BY <3>4 DEF CodeWrong, AnswerAt
    <3>5. CASE FindRecoveryCode(x)
      BY <3>5 DEF FindRecoveryCode, AnswerAt
    <3>6. CASE UseRecoveryCode(x)
      BY <3>6 DEF UseRecoveryCode, AnswerAt
    <3>7. CASE CompleteAnswer(x)
      BY <3>7 DEF CompleteAnswer, AnswerAt, Opens, Sessions
    <3>. QED
      BY <2>2, <3>1, <3>2, <3>3, <3>4, <3>5, <3>6, <3>7 DEF Answer
  <2>3. ASSUME NEW c \in Changes, Change(c) PROVE LockIsEarned'
    <3>1. ASSUME NEW s \in Sessions, StartChange(c, s) PROVE LockIsEarned'
      BY <3>1 DEF StartChange, ChangeAt
    <3>2. CASE RefuseChange(c)
      BY <3>2 DEF RefuseChange, ChangeAt
    <3>3. CASE ChangePassword(c)
      BY <3>3 DEF ChangePassword, ChangeAt
    <3>4. CASE RevokeOthers(c)
      BY <3>4 DEF RevokeOthers, ChangeAt, Revoked, AllBut, Unrevoked
    <3>. QED
      BY <2>3, <3>1, <3>2, <3>3, <3>4 DEF Change
  <2>4. ASSUME NEW s \in Sessions, Logout(s) PROVE LockIsEarned'
    BY <2>4 DEF Logout, Revoked
  <2>5. ASSUME NEW s \in Sessions, Enroll(s) PROVE LockIsEarned'
    BY <2>5 DEF Enroll
  <2>6. ASSUME NEW s \in Sessions, ConfirmEnrollment(s) PROVE LockIsEarned'
    BY <2>6 DEF ConfirmEnrollment
  <2>7. ASSUME NEW s \in Sessions, SessionEnds(s) PROVE LockIsEarned'
    BY <2>7 DEF SessionEnds
  <2>8. CASE Administration
    <3>1. CASE ReadRole
      BY <3>1 DEF ReadRole
    <3>2. CASE PatchRole
      BY <3>2 DEF PatchRole
    <3>3. CASE Deactivate
      BY <3>3 DEF Deactivate
    <3>4. CASE RevokeDeactivated
      BY <3>4 DEF RevokeDeactivated, Revoked, Unrevoked
    <3>. QED
      BY <2>8, <3>1, <3>2, <3>3, <3>4 DEF Administration
  <2>9. CASE WindowEnds
    BY <2>9 DEF WindowEnds
  <2>10. CASE LockEnds
    BY <2>10 DEF LockEnds
  <2>11. CASE TokensEnd
    BY <2>11 DEF TokensEnd
  <2>12. CASE ApiCrash
    BY <2>12 DEF ApiCrash, Lost
  <2>13. CASE UNCHANGED accountVars
    BY <2>13 DEF accountVars
  <2>. QED
    BY <2>1, <2>2, <2>3, <2>4, <2>5, <2>6, <2>7, <2>8, <2>9, <2>10, <2>11, <2>12, <2>13
      DEF AccountNext
<1>. QED
  BY <1>1, <1>2, AccountRowsInvariant, AccountBoundsInvariant, PTL DEF AccountSpec

\* SEC-08, for every number of sessions, sign-ins and changes: when a change was
\* answered, the sessions open before it are over but the one that asked.
THEOREM ChangeAlwaysEndsSessions == AccountSpec => []ChangeEndsSessions
<1>1. AccountInit => ChangeEndsSessions
  BY DEF AccountInit, ChangeEndsSessions
<1>2. AccountRows /\ AccountBounds /\ ChangeEndsSessions /\ [AccountNext]_accountVars
    => ChangeEndsSessions'
  <2> SUFFICES ASSUME AccountRows, AccountBounds, ChangeEndsSessions,
      [AccountNext]_accountVars PROVE ChangeEndsSessions'
    OBVIOUS
  <2> USE DEF AccountRows, AccountBounds, ChangeEndsSessions, tables, redis, logging,
    answering, changing, governing, history
  <2>1. ASSUME NEW l \in Logins, Login(l) PROVE ChangeEndsSessions'
    <3>1. CASE CountAttempt(l)
      BY <3>1 DEF CountAttempt, LoginAt
    <3>2. CASE CountFails(l)
      BY <3>2 DEF CountFails, LoginAt
    <3>3. CASE ReadLocked(l)
      BY <3>3 DEF ReadLocked, LoginAt
    <3>4. CASE ReadAccount(l)
      BY <3>4 DEF ReadAccount, LoginAt
    <3>5. CASE PasswordWrong(l)
      BY <3>5 DEF PasswordWrong, LoginAt
    <3>6. CASE PasswordRight(l)
      BY <3>6 DEF PasswordRight, LoginAt
    <3>7. CASE RecordFailure(l)
      BY <3>7 DEF RecordFailure, LoginAt
    <3>8. CASE ResetFailures(l)
      BY <3>8 DEF ResetFailures, LoginAt
    <3>9. CASE CreateChallenge(l)
      BY <3>9 DEF CreateChallenge, LoginAt
    <3>10. CASE CompleteLogin(l)
      BY <3>10 DEF CompleteLogin, LoginAt, Opens, Sessions
    <3>. QED
      BY <2>1, <3>1, <3>2, <3>3, <3>4, <3>5, <3>6, <3>7, <3>8, <3>9, <3>10 DEF Login
  <2>2. ASSUME NEW x \in Answers, Answer(x) PROVE ChangeEndsSessions'
    <3>1. CASE GetChallenge(x)
      BY <3>1 DEF GetChallenge, AnswerAt
    <3>2. CASE DeleteChallenge(x)
      BY <3>2 DEF DeleteChallenge, AnswerAt
    <3>3. CASE CodeRight(x)
      BY <3>3 DEF CodeRight, AnswerAt
    <3>4. CASE CodeWrong(x)
      BY <3>4 DEF CodeWrong, AnswerAt
    <3>5. CASE FindRecoveryCode(x)
      BY <3>5 DEF FindRecoveryCode, AnswerAt
    <3>6. CASE UseRecoveryCode(x)
      BY <3>6 DEF UseRecoveryCode, AnswerAt
    <3>7. CASE CompleteAnswer(x)
      BY <3>7 DEF CompleteAnswer, AnswerAt, Opens, Sessions
    <3>. QED
      BY <2>2, <3>1, <3>2, <3>3, <3>4, <3>5, <3>6, <3>7 DEF Answer
  <2>3. ASSUME NEW c \in Changes, Change(c) PROVE ChangeEndsSessions'
    <3>1. ASSUME NEW s \in Sessions, StartChange(c, s) PROVE ChangeEndsSessions'
      BY <3>1 DEF StartChange, ChangeAt
    <3>2. CASE RefuseChange(c)
      BY <3>2 DEF RefuseChange, ChangeAt
    <3>3. CASE ChangePassword(c)
      BY <3>3 DEF ChangePassword, ChangeAt
    <3>4. CASE RevokeOthers(c)
      BY <3>4 DEF RevokeOthers, ChangeAt, Revoked, AllBut, Unrevoked
    <3>. QED
      BY <2>3, <3>1, <3>2, <3>3, <3>4 DEF Change
  <2>4. ASSUME NEW s \in Sessions, Logout(s) PROVE ChangeEndsSessions'
    BY <2>4 DEF Logout, Revoked
  <2>5. ASSUME NEW s \in Sessions, Enroll(s) PROVE ChangeEndsSessions'
    BY <2>5 DEF Enroll
  <2>6. ASSUME NEW s \in Sessions, ConfirmEnrollment(s) PROVE ChangeEndsSessions'
    BY <2>6 DEF ConfirmEnrollment
  <2>7. ASSUME NEW s \in Sessions, SessionEnds(s) PROVE ChangeEndsSessions'
    BY <2>7 DEF SessionEnds
  <2>8. CASE Administration
    <3>1. CASE ReadRole
      BY <3>1 DEF ReadRole
    <3>2. CASE PatchRole
      BY <3>2 DEF PatchRole
    <3>3. CASE Deactivate
      BY <3>3 DEF Deactivate
    <3>4. CASE RevokeDeactivated
      BY <3>4 DEF RevokeDeactivated, Revoked, Unrevoked
    <3>. QED
      BY <2>8, <3>1, <3>2, <3>3, <3>4 DEF Administration
  <2>9. CASE WindowEnds
    BY <2>9 DEF WindowEnds
  <2>10. CASE LockEnds
    BY <2>10 DEF LockEnds
  <2>11. CASE TokensEnd
    BY <2>11 DEF TokensEnd
  <2>12. CASE ApiCrash
    BY <2>12 DEF ApiCrash, Lost
  <2>13. CASE UNCHANGED accountVars
    BY <2>13 DEF accountVars
  <2>. QED
    BY <2>1, <2>2, <2>3, <2>4, <2>5, <2>6, <2>7, <2>8, <2>9, <2>10, <2>11, <2>12, <2>13
      DEF AccountNext
<1>. QED
  BY <1>1, <1>2, AccountRowsInvariant, AccountBoundsInvariant, PTL DEF AccountSpec

-----------------------------------------------------------------------------
(* What the counts of an account are bounded by *)

\* Sign-ins that were answered, and changes that were made.
Finished == {l \in Logins : loginAt[l] = "done"}
Made == {c \in Changes : changeAt[c] \in {"revoking", "done", "lost"}}

Counted == failures <= Cardinality(Finished) /\ user.epoch <= Cardinality(Made)

\* A step that counts a failure or an epoch ends one more of the requests.
CountsItsRequest ==
    /\ Finished \subseteq Finished' /\ Made \subseteq Made'
    /\ \/ failures' = failures
       \/ failures' = failures + 1 /\ \E l \in Finished' : l \notin Finished
    /\ \/ user'.epoch = user.epoch
       \/ user'.epoch = user.epoch + 1 /\ \E c \in Made' : c \notin Made

\* Every step of an account counts a failure or an epoch with its request.
LEMMA StepsCount == AccountRows /\ [AccountNext]_accountVars => CountsItsRequest
<1> SUFFICES ASSUME AccountRows, [AccountNext]_accountVars PROVE CountsItsRequest
  OBVIOUS
<1> USE DEF AccountRows, CountsItsRequest, Finished, Made, tables, redis, logging,
  answering, changing, governing, history
<1>1. ASSUME NEW l \in Logins, Login(l) PROVE CountsItsRequest
  <2>1. CASE CountAttempt(l)
    BY <2>1 DEF CountAttempt, LoginAt
  <2>2. CASE CountFails(l)
    BY <2>2 DEF CountFails, LoginAt
  <2>3. CASE ReadLocked(l)
    BY <2>3 DEF ReadLocked, LoginAt
  <2>4. CASE ReadAccount(l)
    BY <2>4 DEF ReadAccount, LoginAt
  <2>5. CASE PasswordWrong(l)
    BY <2>5 DEF PasswordWrong, LoginAt
  <2>6. CASE PasswordRight(l)
    BY <2>6 DEF PasswordRight, LoginAt
  <2>7. CASE RecordFailure(l)
    BY <2>7 DEF RecordFailure, LoginAt
  <2>8. CASE ResetFailures(l)
    BY <2>8 DEF ResetFailures, LoginAt
  <2>9. CASE CreateChallenge(l)
    BY <2>9 DEF CreateChallenge, LoginAt
  <2>10. CASE CompleteLogin(l)
    BY <2>10 DEF CompleteLogin, LoginAt, Opens
  <2>. QED
    BY <1>1, <2>1, <2>2, <2>3, <2>4, <2>5, <2>6, <2>7, <2>8, <2>9, <2>10 DEF Login
<1>2. ASSUME NEW x \in Answers, Answer(x) PROVE CountsItsRequest
  <2>1. CASE GetChallenge(x)
    BY <2>1 DEF GetChallenge, AnswerAt
  <2>2. CASE DeleteChallenge(x)
    BY <2>2 DEF DeleteChallenge, AnswerAt
  <2>3. CASE CodeRight(x)
    BY <2>3 DEF CodeRight, AnswerAt
  <2>4. CASE CodeWrong(x)
    BY <2>4 DEF CodeWrong, AnswerAt
  <2>5. CASE FindRecoveryCode(x)
    BY <2>5 DEF FindRecoveryCode, AnswerAt
  <2>6. CASE UseRecoveryCode(x)
    BY <2>6 DEF UseRecoveryCode, AnswerAt
  <2>7. CASE CompleteAnswer(x)
    BY <2>7 DEF CompleteAnswer, AnswerAt, Opens
  <2>. QED
    BY <1>2, <2>1, <2>2, <2>3, <2>4, <2>5, <2>6, <2>7 DEF Answer
<1>3. ASSUME NEW c \in Changes, Change(c) PROVE CountsItsRequest
  <2>1. ASSUME NEW s \in Sessions, StartChange(c, s) PROVE CountsItsRequest
    BY <2>1 DEF StartChange, ChangeAt
  <2>2. CASE RefuseChange(c)
    BY <2>2 DEF RefuseChange, ChangeAt
  <2>3. CASE ChangePassword(c)
    BY <2>3 DEF ChangePassword, ChangeAt
  <2>4. CASE RevokeOthers(c)
    BY <2>4 DEF RevokeOthers, ChangeAt, Revoked, AllBut, Unrevoked
  <2>. QED
    BY <1>3, <2>1, <2>2, <2>3, <2>4 DEF Change
<1>4. ASSUME NEW s \in Sessions, Logout(s) PROVE CountsItsRequest
  BY <1>4 DEF Logout, Revoked
<1>5. ASSUME NEW s \in Sessions, Enroll(s) PROVE CountsItsRequest
  BY <1>5 DEF Enroll
<1>6. ASSUME NEW s \in Sessions, ConfirmEnrollment(s) PROVE CountsItsRequest
  BY <1>6 DEF ConfirmEnrollment
<1>7. ASSUME NEW s \in Sessions, SessionEnds(s) PROVE CountsItsRequest
  BY <1>7 DEF SessionEnds
<1>8. CASE Administration
  <2>1. CASE ReadRole
    BY <2>1 DEF ReadRole
  <2>2. CASE PatchRole
    BY <2>2 DEF PatchRole
  <2>3. CASE Deactivate
    BY <2>3 DEF Deactivate
  <2>4. CASE RevokeDeactivated
    BY <2>4 DEF RevokeDeactivated, Revoked, Unrevoked
  <2>. QED
    BY <1>8, <2>1, <2>2, <2>3, <2>4 DEF Administration
<1>9. CASE WindowEnds
  BY <1>9 DEF WindowEnds
<1>10. CASE LockEnds
  BY <1>10 DEF LockEnds
<1>11. CASE TokensEnd
  BY <1>11 DEF TokensEnd
<1>12. CASE ApiCrash
  BY <1>12 DEF ApiCrash, Lost
<1>13. CASE UNCHANGED accountVars
  BY <1>13 DEF accountVars
<1>. QED
  BY <1>1, <1>2, <1>3, <1>4, <1>5, <1>6, <1>7, <1>8, <1>9, <1>10, <1>11, <1>12, <1>13
    DEF AccountNext

\* The requests counted are finitely many.
LEMMA FinishedAreFinite ==
  /\ IsFiniteSet(Finished) /\ Cardinality(Finished) \in 0..Cardinality(Logins)
  /\ IsFiniteSet(Made) /\ Cardinality(Made) \in 0..Cardinality(Changes)
  /\ Cardinality(Logins) \in Nat /\ Cardinality(Changes) \in Nat
<1>1. Finished \subseteq Logins /\ Made \subseteq Changes
  BY DEF Finished, Made
<1>2. IsFiniteSet(Finished) /\ Cardinality(Finished) <= Cardinality(Logins)
  BY <1>1, RequestsAssumption, FS_Subset
<1>3. IsFiniteSet(Made) /\ Cardinality(Made) <= Cardinality(Changes)
  BY <1>1, RequestsAssumption, FS_Subset
<1>. QED
  BY <1>2, <1>3, RequestsAssumption, FS_CardinalityType

\* A finite set that loses nothing has at least as many elements, and one more
\* when it gains one.
LEMMA Grows ==
  ASSUME NEW S, NEW T, IsFiniteSet(T), S \subseteq T
  PROVE  /\ Cardinality(S) <= Cardinality(T)
         /\ (\E x \in T : x \notin S) => Cardinality(S) + 1 <= Cardinality(T)
<1>1. IsFiniteSet(S) /\ Cardinality(S) <= Cardinality(T)
  BY FS_Subset
<1>2. ASSUME NEW x \in T, x \notin S PROVE Cardinality(S) + 1 <= Cardinality(T)
  <2>1. S \cup {x} \subseteq T
    BY <1>2
  <2>2. Cardinality(S \cup {x}) = Cardinality(S) + 1
    BY <1>1, <1>2, FS_AddElement
  <2>3. Cardinality(S \cup {x}) <= Cardinality(T)
    BY <2>1, FS_Subset
  <2>. QED
    BY <2>2, <2>3
<1>. QED
  BY <1>1, <1>2

\* A failure is counted once for a sign-in, an epoch once for a change.
LEMMA CountedInvariant == AccountSpec => []Counted
<1>1. AccountInit => Counted
  <2> SUFFICES ASSUME AccountInit PROVE Counted
    OBVIOUS
  <2>. QED
    BY FinishedAreFinite DEF AccountInit, Counted
<1>2. AccountRows /\ Counted /\ [AccountNext]_accountVars => Counted'
  <2> SUFFICES ASSUME AccountRows, Counted, [AccountNext]_accountVars PROVE Counted'
    OBVIOUS
  <2>1. CountsItsRequest
    BY StepsCount
  <2>2. IsFiniteSet(Finished') /\ IsFiniteSet(Made')
    <3>1. Finished' \subseteq Logins /\ Made' \subseteq Changes
      BY DEF Finished, Made
    <3>. QED
      BY <3>1, RequestsAssumption, FS_Subset
  <2>3. /\ Cardinality(Finished) \in Nat /\ Cardinality(Made) \in Nat
        /\ Cardinality(Finished') \in Nat /\ Cardinality(Made') \in Nat
    BY <2>2, FinishedAreFinite, FS_CardinalityType
  <2>4. failures' <= Cardinality(Finished')
    BY <2>1, <2>2, <2>3, Grows DEF CountsItsRequest, Counted, AccountRows
  <2>5. user'.epoch <= Cardinality(Made')
    BY <2>1, <2>2, <2>3, Grows DEF CountsItsRequest, Counted, AccountRows
  <2>. QED
    BY <2>4, <2>5 DEF Counted
<1>. QED
  BY <1>1, <1>2, AccountRowsInvariant, PTL DEF AccountSpec

\* Every variable of an account keeps its type: no failure is counted twice for
\* a sign-in nor an epoch for a change.
THEOREM AccountTypeCorrect == AccountSpec => []AccountTypeOK
<1>1. AccountRows /\ AccountBounds /\ Counted => AccountTypeOK
  <2> SUFFICES ASSUME AccountRows, AccountBounds, Counted PROVE AccountTypeOK
    OBVIOUS
  <2>. /\ user.failed \in Nat /\ user.epoch \in Nat /\ failures \in Nat
       /\ Cardinality(Logins) \in Nat /\ Cardinality(Changes) \in Nat
    BY FinishedAreFinite DEF AccountRows
  <2>1. failures \in 0..Cardinality(Logins) /\ user.epoch \in 0..Cardinality(Changes)
    BY FinishedAreFinite DEF Counted, AccountRows
  <2>2. user.failed \in 0..Cardinality(Logins)
    BY <2>1 DEF AccountRows, AccountBounds
  <2>3. user \in Accounting
    BY <2>1, <2>2 DEF AccountRows, Accounting
  <2>4. loginSaw \in [Logins -> [failed : 0..Cardinality(Logins), mfa : BOOLEAN]]
    <3>1. ASSUME NEW l \in Logins
          PROVE  loginSaw[l] \in [failed : 0..Cardinality(Logins), mfa : BOOLEAN]
      BY <2>1, FinishedAreFinite DEF AccountRows, AccountBounds
    <3>. QED
      BY <3>1 DEF AccountRows
  <2>5. born \in [Sessions -> 0..Cardinality(Changes)]
    BY <2>1, FinishedAreFinite DEF AccountRows, AccountBounds
  <2>6. madeEpoch \in [Changes -> 0..Cardinality(Changes)]
    BY <2>1, FinishedAreFinite DEF AccountRows, AccountBounds
  <2>. QED
    BY <2>1, <2>3, <2>4, <2>5, <2>6 DEF AccountRows, AccountTypeOK
<1>. QED
  BY <1>1, AccountRowsInvariant, AccountBoundsInvariant, CountedInvariant, PTL

-----------------------------------------------------------------------------
(* Setup *)

Steps == {Order[n] : n \in 1..Len(Order)}

LEMMA StepsAre ==
  Steps = {"administrator", "organization", "tls", "scope", "safety", "complete"}
<1>1. Len(Order) = 6
  BY DEF Order
<1>2. /\ Order[1] = "administrator" /\ Order[2] = "organization" /\ Order[3] = "tls"
      /\ Order[4] = "scope" /\ Order[5] = "safety" /\ Order[6] = "complete"
  BY DEF Order
<1>3. 1..6 = {1, 2, 3, 4, 5, 6}
  OBVIOUS
<1>. QED
  BY <1>1, <1>2, <1>3 DEF Steps

\* The wizard resumes at one of its steps, and goes on to one.
LEMMA WizardSteps ==
  /\ FirstIncomplete \in Steps
  /\ \A k \in Settings : Order[Following(k)] \in Steps
<1>1. Len(Order) = 6
  BY DEF Order
<1>2. FirstIncomplete \in Steps
  <2>. DEFINE open == {n \in 1..5 : Order[n] \notin Status}
  <2>1. CASE open = {}
    BY <2>1, StepsAre DEF FirstIncomplete
  <2>2. CASE open # {}
    <3>1. \E n \in open : \A k \in open : n <= k
      <4>1. open \subseteq {1, 2, 3, 4, 5}
        OBVIOUS
      <4>. HIDE DEF open
      <4>2. 1 \in open \/ 2 \in open \/ 3 \in open \/ 4 \in open \/ 5 \in open
        BY <2>2, <4>1
      <4>3. CASE 1 \in open
        BY <4>1, <4>3
      <4>4. CASE 1 \notin open /\ 2 \in open
        BY <4>1, <4>4
      <4>5. CASE 1 \notin open /\ 2 \notin open /\ 3 \in open
        BY <4>1, <4>5
      <4>6. CASE 1 \notin open /\ 2 \notin open /\ 3 \notin open /\ 4 \in open
        BY <4>1, <4>6
      <4>7. CASE open = {5}
        BY <4>7
      <4>8. 1 \notin open /\ 2 \notin open /\ 3 \notin open /\ 4 \notin open => open = {5}
        BY <2>2, <4>1
      <4>. QED
        BY <4>2, <4>3, <4>4, <4>5, <4>6, <4>7, <4>8
    <3>2. (CHOOSE n \in open : \A k \in open : n <= k) \in open
      BY <3>1
    <3>3. (CHOOSE n \in open : \A k \in open : n <= k) \in 1..Len(Order)
      BY <1>1, <3>2
    <3>. QED
      BY <2>2, <3>3 DEF FirstIncomplete, Steps
  <2>. QED
    BY <2>1, <2>2
<1>3. ASSUME NEW k \in Settings PROVE Order[Following(k)] \in Steps
  <2>1. \E n \in 1..Len(Order) : n > 1 /\ Order[n - 1] = k
    <3>1. /\ Order[2] = "organization" /\ Order[3] = "tls"
          /\ Order[4] = "scope" /\ Order[5] = "safety"
      BY DEF Order
    <3>2. PICK n \in 2..5 : Order[n] = k
      BY <3>1 DEF Settings
    <3>3. n + 1 \in 1..Len(Order) /\ n + 1 > 1 /\ n + 1 - 1 = n
      BY <1>1
    <3>. QED
      BY <3>2, <3>3
  <2>2. Following(k) \in 1..Len(Order)
    BY <2>1 DEF Following
  <2>. QED
    BY <2>2 DEF Steps
<1>. QED
  BY <1>2, <1>3

\* Every variable of the setup keeps its type: there is no session without an
\* account, and no second factor.
THEOREM SetupTypeCorrect == SetupInit /\ [][SetupNext]_setupVars => []SetupTypeOK
<1>. DEFINE Waits == {"idle", "inserting", "establishing", "completing", "challenged",
                      "enrolling"}
            Typed == /\ accounts \in SUBSET People
                     /\ enrolled \in SUBSET accounts
                     /\ done \in SUBSET (Settings \cup {"complete"})
                     /\ signedIn \in SUBSET accounts
                     /\ wizardStep \in [People -> Steps]
                     /\ awaits \in [People -> Waits]
                     /\ setupFaults \in 0..MaxSetupFaults
                     /\ \A p \in People :
                          awaits[p] \in {"establishing", "challenged"} => p \in accounts
<1>1. SetupInit => Typed
  BY StepsAre, SetupFaultsAssumption DEF SetupInit
<1>2. Typed /\ [SetupNext]_setupVars => Typed'
  <2> SUFFICES ASSUME Typed, [SetupNext]_setupVars PROVE Typed'
    OBVIOUS
  <2>1. ASSUME NEW p \in People, Reload(p) PROVE Typed'
    BY <2>1, WizardSteps DEF Reload, ShowStep
  <2>2. ASSUME NEW p \in People, CheckAdministrator(p) PROVE Typed'
    BY <2>2 DEF CheckAdministrator, At
  <2>3. ASSUME NEW p \in People, InsertAdministrator(p) PROVE Typed'
    BY <2>3 DEF InsertAdministrator, At
  <2>4. ASSUME NEW p \in People, EstablishSession(p) PROVE Typed'
    BY <2>4, StepsAre DEF EstablishSession, At, ShowStep
  <2>5. ASSUME NEW p \in People, PostStep(p)
        PROVE  /\ wizardStep[p] \in Settings
               /\ done' \in SUBSET (Settings \cup {"complete"})
               /\ UNCHANGED <<accounts, enrolled, signedIn, awaits>>
    BY <2>5 DEF PostStep, PostOrganization, PostTls, PostInitialScope, PostSafety, Does, Settings
  <2>6. ASSUME NEW p \in People, TakeStep(p) PROVE Typed'
    <3>1. /\ wizardStep[p] \in Settings
          /\ done' \in SUBSET (Settings \cup {"complete"})
          /\ UNCHANGED <<accounts, enrolled, signedIn, awaits, setupFaults>>
      BY <2>5, <2>6 DEF TakeStep
    <3>2. wizardStep' \in [People -> Steps]
      BY <2>6, <3>1, WizardSteps DEF TakeStep, ShowStep
    <3>. QED
      BY <3>1, <3>2
  <2>7. ASSUME NEW p \in People, CheckComplete(p) PROVE Typed'
    BY <2>7 DEF CheckComplete, At
  <2>8. ASSUME NEW p \in People, CompleteSetup(p) PROVE Typed'
    BY <2>8 DEF CompleteSetup, At
  <2>9. ASSUME NEW p \in People, SignIn(p) PROVE Typed'
    BY <2>9 DEF SignIn, At
  <2>10. ASSUME NEW p \in People, AnswerChallenge(p) PROVE Typed'
    BY <2>10 DEF AnswerChallenge, At
  <2>11. ASSUME NEW p \in People, AskEnrollment(p) PROVE Typed'
    BY <2>11 DEF AskEnrollment, At
  <2>12. ASSUME NEW p \in People, Confirm(p) PROVE Typed'
    BY <2>12 DEF Confirm, At, Allowed
  <2>13. ASSUME NEW p \in People, RequestLost(p) PROVE Typed'
    BY <2>13, SetupFaultsAssumption DEF RequestLost, At
  <2>14. ASSUME NEW p \in People, StepAnswerLost(p) PROVE Typed'
    <3>1. /\ done' \in SUBSET (Settings \cup {"complete"})
          /\ UNCHANGED <<accounts, enrolled, signedIn, awaits, wizardStep>>
      BY <2>5, <2>14 DEF StepAnswerLost
    <3>2. setupFaults' \in 0..MaxSetupFaults
      BY <2>14, SetupFaultsAssumption DEF StepAnswerLost
    <3>. QED
      BY <3>1, <3>2
  <2>15. ASSUME NEW p \in People, SetupSessionEnds(p) PROVE Typed'
    BY <2>15, SetupFaultsAssumption DEF SetupSessionEnds
  <2>16. CASE UNCHANGED setupVars
    BY <2>16 DEF setupVars
  <2>. HIDE DEF Typed
  <2>. QED
    BY <2>1, <2>2, <2>3, <2>4, <2>6, <2>7, <2>8, <2>9, <2>10, <2>11, <2>12, <2>13, <2>14,
      <2>15, <2>16 DEF SetupNext, GoesOn
<1>3. Typed => SetupTypeOK
  BY DEF SetupTypeOK, Steps
<1>. HIDE DEF Typed
<1>. QED
  BY <1>1, <1>2, <1>3, PTL

-----------------------------------------------------------------------------
(* Requests: what the handlers have in common *)

\* A replay and an ETag are looked at first, the latter once the row is found,
\* and no entry is written after the answer is stored.
Orderly(op) ==
    /\ Len(op) \in 1..9
    /\ \A n \in 1..Len(op) :
         /\ "replay" \in op[n] => n = 1
         /\ "match" \in op[n] => n = 1 /\ "find" \in op[n]
         /\ "store" \in op[n] => \A m \in (n + 1)..Len(op) : "audit" \notin op[m]

LEMMA AfterTwo ==
  ASSUME NEW S, NEW f \in Seq(S), NEW s \in Seq(S), Len(f) = 2, Len(s) \in 1..7
  PROVE  /\ Len(f \o s) = Len(s) + 2
         /\ (f \o s)[1] = f[1] /\ (f \o s)[2] = f[2]
         /\ \A n \in 3..(Len(s) + 2) : n - 2 \in 1..Len(s) /\ (f \o s)[n] = s[n - 2]
<1>1. /\ Len(f \o s) = Len(f) + Len(s)
      /\ \A i \in 1..(Len(f) + Len(s)) :
           (f \o s)[i] = IF i <= Len(f) THEN f[i] ELSE s[i - Len(f)]
  BY ConcatProperties
<1>2. /\ 1 \in 1..(Len(f) + Len(s)) /\ 2 \in 1..(Len(f) + Len(s))
      /\ \A n \in 3..(Len(s) + 2) : n \in 1..(Len(f) + Len(s)) /\ n - 2 \in 1..Len(s) /\ ~(n <= 2)
  OBVIOUS
<1>. QED
  BY <1>1, <1>2

LEMMA TwoOneTwo ==
  ASSUME NEW S, NEW a \in Seq(S), NEW b \in Seq(S), NEW c \in Seq(S),
         Len(a) = 2, Len(b) = 1, Len(c) = 2
  PROVE  LET op == (a \o b) \o c
         IN  /\ Len(op) = 5
             /\ op[1] = a[1] /\ op[2] = a[2] /\ op[3] = b[1]
             /\ op[4] = c[1] /\ op[5] = c[2]
<1>. DEFINE d == a \o b
<1>1. /\ d \in Seq(S) /\ Len(d) = Len(a) + Len(b)
      /\ \A i \in 1..(Len(a) + Len(b)) : d[i] = IF i <= Len(a) THEN a[i] ELSE b[i - Len(a)]
  BY ConcatProperties
<1>2. Len(d) = 3 /\ d[1] = a[1] /\ d[2] = a[2] /\ d[3] = b[1]
  BY <1>1
<1>3. d \in Seq(S)
  BY <1>1
<1>. HIDE DEF d
<1>4. /\ Len(d \o c) = Len(d) + Len(c)
      /\ \A i \in 1..(Len(d) + Len(c)) :
           (d \o c)[i] = IF i <= Len(d) THEN d[i] ELSE c[i - Len(d)]
  BY <1>3, ConcatProperties
<1>5. /\ Len(d \o c) = 5 /\ (d \o c)[1] = d[1] /\ (d \o c)[2] = d[2] /\ (d \o c)[3] = d[3]
      /\ (d \o c)[4] = c[1] /\ (d \o c)[5] = c[2]
  BY <1>2, <1>4
<1>. QED
  BY <1>2, <1>5 DEF d

LEMMA CheckedIsOrderly ==
  ASSUME NEW S, NEW s \in Seq(S), Len(s) <= 7, Orderly(s),
         \A n \in 1..Len(s) : "replay" \notin s[n] /\ "match" \notin s[n]
  PROVE  Orderly(CheckedThen(s))
<1>. DEFINE f == <<{"replay"}, {"look"}>>
            T == S \cup {{"replay"}, {"look"}}
            op == f \o s
<1>1. f \in Seq(T) /\ Len(f) = 2 /\ f[1] = {"replay"} /\ f[2] = {"look"}
  OBVIOUS
<1>2. Len(s) \in 1..7 /\ s \in Seq(T)
  BY DEF Orderly
<1>. HIDE DEF f, T
<1>3. /\ Len(op) = Len(s) + 2 /\ op[1] = {"replay"} /\ op[2] = {"look"}
      /\ \A n \in 3..Len(op) : n - 2 \in 1..Len(s) /\ op[n] = s[n - 2]
  BY <1>1, <1>2, AfterTwo
<1>. HIDE DEF op
<1>4. \A n \in 1..Len(op) : n = 1 \/ n = 2 \/ n \in 3..Len(op)
  BY <1>2, <1>3
<1>5. ASSUME NEW n \in 1..Len(op), "store" \in op[n], NEW m \in (n + 1)..Len(op)
      PROVE  "audit" \notin op[m]
  <2>1. n \in 3..Len(op) /\ m \in 3..Len(op)
    BY <1>2, <1>3, <1>4, <1>5
  <2>2. /\ "store" \in s[n - 2] /\ n - 2 \in 1..Len(s)
        /\ m - 2 \in (n - 2 + 1)..Len(s) /\ op[m] = s[m - 2]
    BY <1>2, <1>3, <1>5, <2>1
  <2>. QED
    BY <2>2 DEF Orderly
<1>6. \A n \in 1..Len(op) : ("replay" \in op[n] => n = 1) /\ "match" \notin op[n]
  BY <1>3, <1>4
<1>7. Orderly(op)
  BY <1>2, <1>3, <1>5, <1>6 DEF Orderly
<1>. QED
  BY <1>7 DEF op, f, CheckedThen

LEMMA CommonAreOrderly ==
  /\ Orderly(Created)
  /\ Orderly(Edited)
  /\ Orderly(EditedUnmatched)
  /\ Orderly(Deleted)
  /\ Orderly(Read)
<1>1. Orderly(Created)
  BY DEF Orderly, Created
<1>2. Orderly(Edited)
  BY DEF Orderly, Edited
<1>3. Orderly(EditedUnmatched)
  BY DEF Orderly, EditedUnmatched
<1>4. Orderly(Deleted)
  BY DEF Orderly, Deleted
<1>5. Orderly(Read)
  BY DEF Orderly, Read
<1>. QED
  BY <1>1, <1>2, <1>3, <1>4, <1>5

\* The seven that look elsewhere first.
LEMMA CheckedAreOrderly ==
  /\ Orderly(CreateScanProfile)
  /\ Orderly(CreateSlaPolicyMatrix)
  /\ Orderly(CreateRiskScoringPolicy)
  /\ Orderly(CreateException)
  /\ Orderly(BulkTransitionIssues)
  /\ Orderly(CreateScanPlan)
  /\ Orderly(CreateVerificationScan)
<1>1. Orderly(CreateScanProfile)
  <2>. DEFINE s == <<{"insert"}, {"audit"}, {"store"}>>
  <2>1. s \in Seq({{"insert"}, {"audit"}, {"store"}})
    OBVIOUS
  <2>2. Len(s) <= 7 /\ Orderly(s) /\ \A n \in 1..Len(s) : "replay" \notin s[n]
      /\ "match" \notin s[n]
    BY DEF Orderly
  <2>. QED
    BY <2>1, <2>2, CheckedIsOrderly DEF CreateScanProfile
<1>2. Orderly(CreateSlaPolicyMatrix)
  <2>. DEFINE s == <<{"elsewhere", "insert", "audit"}, {"store"}>>
  <2>1. s \in Seq({{"elsewhere", "insert", "audit"}, {"store"}})
    OBVIOUS
  <2>2. Len(s) <= 7 /\ Orderly(s) /\ \A n \in 1..Len(s) : "replay" \notin s[n]
      /\ "match" \notin s[n]
    BY DEF Orderly
  <2>. QED
    BY <2>1, <2>2, CheckedIsOrderly DEF CreateSlaPolicyMatrix
<1>3. Orderly(CreateRiskScoringPolicy)
  <2>. DEFINE s == <<{"elsewhere", "insert", "audit"}, {"store"}>>
  <2>1. s \in Seq({{"elsewhere", "insert", "audit"}, {"store"}})
    OBVIOUS
  <2>2. Len(s) <= 7 /\ Orderly(s) /\ \A n \in 1..Len(s) : "replay" \notin s[n]
      /\ "match" \notin s[n]
    BY DEF Orderly
  <2>. QED
    BY <2>1, <2>2, CheckedIsOrderly DEF CreateRiskScoringPolicy
<1>4. Orderly(CreateException)
  <2>. DEFINE s == <<{"insert"}, {"audit"}, {"store"}>>
  <2>1. s \in Seq({{"insert"}, {"audit"}, {"store"}})
    OBVIOUS
  <2>2. Len(s) <= 7 /\ Orderly(s) /\ \A n \in 1..Len(s) : "replay" \notin s[n]
      /\ "match" \notin s[n]
    BY DEF Orderly
  <2>. QED
    BY <2>1, <2>2, CheckedIsOrderly DEF CreateException
<1>5. Orderly(BulkTransitionIssues)
  <2>. DEFINE s == <<{"update", "audit"}, {"store"}>>
  <2>1. s \in Seq({{"update", "audit"}, {"store"}})
    OBVIOUS
  <2>2. Len(s) <= 7 /\ Orderly(s) /\ \A n \in 1..Len(s) : "replay" \notin s[n]
      /\ "match" \notin s[n]
    BY DEF Orderly
  <2>. QED
    BY <2>1, <2>2, CheckedIsOrderly DEF BulkTransitionIssues
<1>6. Orderly(CreateScanPlan)
  <2>. DEFINE S == {{"replay"}, {"look"}, {"insert"}, {"store"}}
              op == (<<{"replay"}, {"look"}>> \o <<{"look"}>>) \o <<{"insert"}, {"store"}>>
  <2>1. /\ <<{"replay"}, {"look"}>> \in Seq(S) /\ <<{"look"}>> \in Seq(S)
        /\ <<{"insert"}, {"store"}>> \in Seq(S)
    OBVIOUS
  <2>2. /\ Len(op) = 5
        /\ op[1] = {"replay"} /\ op[2] = {"look"} /\ op[3] = {"look"}
        /\ op[4] = {"insert"} /\ op[5] = {"store"}
    BY <2>1, TwoOneTwo
  <2>. HIDE DEF op
  <2>3. Orderly(op)
    BY <2>2 DEF Orderly
  <2>. QED
    BY <2>3 DEF op, InsertScanPlan, CreateScanPlan, CheckedThen
<1>7. Orderly(CreateVerificationScan)
  <2>. DEFINE s == <<{"look"}, {"look"}, {"look"}, {"insert", "audit"}, {"store"}>>
  <2>1. s \in Seq({{"look"}, {"insert", "audit"}, {"store"}})
    OBVIOUS
  <2>2. Len(s) <= 7 /\ Orderly(s) /\ \A n \in 1..Len(s) : "replay" \notin s[n]
      /\ "match" \notin s[n]
    BY DEF Orderly
  <2>. QED
    BY <2>1, <2>2, CheckedIsOrderly DEF CreateVerificationScan
<1>. QED
  BY <1>1, <1>2, <1>3, <1>4, <1>5, <1>6, <1>7

LEMMA OthersAreOrderly ==
  /\ Orderly(UpdateScanProfile)
  /\ Orderly(SupersedeAuthorizedScope)
  /\ Orderly(CreateUser)
  /\ Orderly(DeactivateUser)
  /\ Orderly(UpdateAsset)
  /\ Orderly(UpdateFragileDeviceRule)
  /\ Orderly(CreateNotificationChannel)
  /\ Orderly(UpdateNotificationChannel)
  /\ Orderly(DeleteNotificationChannel)
  /\ Orderly(UpdateAssetGroup)
  /\ Orderly(AddAssetGroupMember)
  /\ Orderly(RemoveAssetGroupMember)
  /\ Orderly(CreateIntelSync)
  /\ Orderly(UpdateIntelSettings)
  /\ Orderly(UpdateIssue)
  /\ Orderly(TransitionIssue)
  /\ Orderly(DownloadEvidence)
  /\ Orderly(ExportAuditEntries)
  /\ Orderly(CreateScanRun)
<1>1. Orderly(UpdateScanProfile)
  BY DEF Orderly, UpdateScanProfile
<1>2. Orderly(SupersedeAuthorizedScope)
  BY DEF Orderly, SupersedeAuthorizedScope
<1>3. Orderly(CreateUser)
  BY DEF Orderly, CreateUser
<1>4. Orderly(DeactivateUser)
  BY DEF Orderly, DeactivateUser
<1>5. Orderly(UpdateAsset)
  BY DEF Orderly, UpdateAsset
<1>6. Orderly(UpdateFragileDeviceRule)
  BY DEF Orderly, UpdateFragileDeviceRule
<1>7. Orderly(CreateNotificationChannel)
  BY DEF Orderly, CreateNotificationChannel
<1>8. Orderly(UpdateNotificationChannel)
  BY DEF Orderly, UpdateNotificationChannel
<1>9. Orderly(DeleteNotificationChannel)
  BY DEF Orderly, DeleteNotificationChannel
<1>10. Orderly(UpdateAssetGroup)
  BY DEF Orderly, UpdateAssetGroup
<1>11. Orderly(AddAssetGroupMember)
  BY DEF Orderly, AddAssetGroupMember
<1>12. Orderly(RemoveAssetGroupMember)
  BY DEF Orderly, RemoveAssetGroupMember
<1>13. Orderly(CreateIntelSync)
  BY DEF Orderly, CreateIntelSync
<1>14. Orderly(UpdateIntelSettings)
  BY DEF Orderly, UpdateIntelSettings
<1>15. Orderly(UpdateIssue)
  BY DEF Orderly, UpdateIssue
<1>16. Orderly(TransitionIssue)
  BY DEF Orderly, TransitionIssue
<1>17. Orderly(DownloadEvidence)
  BY DEF Orderly, DownloadEvidence
<1>18. Orderly(ExportAuditEntries)
  BY DEF Orderly, ExportAuditEntries
<1>19. Orderly(CreateScanRun)
  BY DEF Orderly, CreateScanRun
<1>. QED
  BY <1>1, <1>2, <1>3, <1>4, <1>5, <1>6, <1>7, <1>8, <1>9, <1>10, <1>11, <1>12,
    <1>13, <1>14, <1>15, <1>16, <1>17, <1>18, <1>19

LEMMA HandlersAreOrderly == \A F \in Families : \A op \in F : Orderly(op)
<1>1. \A op \in { GetScanProfile, CreateScanProfile, UpdateScanProfile} : Orderly(op)
  BY CommonAreOrderly, CheckedAreOrderly, OthersAreOrderly DEF GetScanProfile
<1>2. \A op \in { GetPacingCeilings, UpdatePacingCeilings} : Orderly(op)
  BY CommonAreOrderly DEF GetPacingCeilings, UpdatePacingCeilings
<1>3. \A op \in { CreateBlackoutWindow, UpdateBlackoutWindow, DeleteBlackoutWindow} : Orderly(op)
  BY CommonAreOrderly DEF CreateBlackoutWindow, UpdateBlackoutWindow, DeleteBlackoutWindow
<1>4. \A op \in { GetScanSchedule, CreateScanSchedule, UpdateScanSchedule,
                DeleteScanSchedule} : Orderly(op)
  BY CommonAreOrderly DEF GetScanSchedule, CreateScanSchedule, UpdateScanSchedule,
    DeleteScanSchedule
<1>5. \A op \in { CreateAuthorizedScope, SupersedeAuthorizedScope} : Orderly(op)
  BY CommonAreOrderly, OthersAreOrderly DEF CreateAuthorizedScope
<1>6. \A op \in { GetExclusionRule, CreateExclusionRule, UpdateExclusionRule} : Orderly(op)
  BY CommonAreOrderly DEF GetExclusionRule, CreateExclusionRule, UpdateExclusionRule
<1>7. \A op \in { GetUser, CreateUser, UpdateUser, DeactivateUser} : Orderly(op)
  BY CommonAreOrderly, OthersAreOrderly DEF GetUser, UpdateUser
<1>8. \A op \in { GetOrganization, UpdateOrganization} : Orderly(op)
  BY CommonAreOrderly DEF GetOrganization, UpdateOrganization
<1>9. \A op \in { UpdateFeatureFlag} : Orderly(op)
  BY CommonAreOrderly DEF UpdateFeatureFlag
<1>10. \A op \in { GetSavedView, CreateSavedView, UpdateSavedView, DeleteSavedView} : Orderly(op)
  BY CommonAreOrderly DEF GetSavedView, CreateSavedView, UpdateSavedView, DeleteSavedView
<1>11. \A op \in { GetAsset, UpdateAsset} : Orderly(op)
  BY CommonAreOrderly, OthersAreOrderly DEF GetAsset
<1>12. \A op \in { UpdateFragileDeviceRule} : Orderly(op)
  BY OthersAreOrderly
<1>13. \A op \in { CreateSlaPolicyMatrix} : Orderly(op)
  BY CheckedAreOrderly
<1>14. \A op \in { CreateRiskScoringPolicy} : Orderly(op)
  BY CheckedAreOrderly
<1>15. \A op \in { CreateNotificationChannel, UpdateNotificationChannel,
                DeleteNotificationChannel} : Orderly(op)
  BY OthersAreOrderly
<1>16. \A op \in { GetAssetGroup, CreateAssetGroup, UpdateAssetGroup,
                DeleteAssetGroup, AddAssetGroupMember, RemoveAssetGroupMember} : Orderly(op)
  BY CommonAreOrderly, OthersAreOrderly DEF GetAssetGroup, CreateAssetGroup, DeleteAssetGroup
<1>17. \A op \in { GetRetentionPolicy, UpdateRetentionPolicy} : Orderly(op)
  BY CommonAreOrderly DEF GetRetentionPolicy, UpdateRetentionPolicy
<1>18. \A op \in { CreateBackup} : Orderly(op)
  BY CommonAreOrderly DEF CreateBackup
<1>19. \A op \in { CreateReport} : Orderly(op)
  BY CommonAreOrderly DEF CreateReport
<1>20. \A op \in { CreateException} : Orderly(op)
  BY CheckedAreOrderly
<1>21. \A op \in { CreateIntelSync} : Orderly(op)
  BY OthersAreOrderly
<1>22. \A op \in { GetIntelSettings, UpdateIntelSettings} : Orderly(op)
  BY CommonAreOrderly, OthersAreOrderly DEF GetIntelSettings
<1>23. \A op \in { GetIssue, UpdateIssue, TransitionIssue, BulkTransitionIssues} : Orderly(op)
  BY CommonAreOrderly, CheckedAreOrderly, OthersAreOrderly DEF GetIssue
<1>24. \A op \in { DownloadEvidence} : Orderly(op)
  BY OthersAreOrderly
<1>25. \A op \in { ExportAuditEntries} : Orderly(op)
  BY OthersAreOrderly
<1>26. \A op \in { CreateScanPlan, CreateScanRun} : Orderly(op)
  BY CheckedAreOrderly, OthersAreOrderly
<1>27. \A op \in { CreateVerificationScan} : Orderly(op)
  BY CheckedAreOrderly
<1>. QED
  BY <1>1, <1>2, <1>3, <1>4, <1>5, <1>6, <1>7, <1>8, <1>9, <1>10, <1>11, <1>12,
    <1>13, <1>14, <1>15, <1>16, <1>17, <1>18, <1>19, <1>20, <1>21, <1>22, <1>23, <1>24,
    <1>25, <1>26, <1>27 DEF Families

-----------------------------------------------------------------------------
(* Requests: types *)

Calls == [Clients -> [op : handlers \cup {<<>>}, at : 1..9,
                      key : IdempotencyKeys \cup {NoTag}, tag : 0..contents \cup {Anything},
                      answer : {"unsent", "pending", "ok", "found", "refused", "lost"}]]

Sent(r) == call[r].answer # "unsent"

\* A request that was not sent has done nothing.
UnsentIsIdle ==
    \A r \in Clients :
      /\ ~Sent(r) => /\ call[r].at = 1 /\ entries[r] = 0
                     /\ r \notin made \cup wrote
      /\ Sent(r) => /\ call[r].op \in handlers /\ call[r].at \in 1..Len(call[r].op)
                    /\ call[r].key \in IdempotencyKeys

RequestsTyped == RequestTypeOK /\ UnsentIsIdle

LEMMA HandlersTyped ==
  ASSUME RequestsTyped
  PROVE  \A op \in handlers : Orderly(op)
BY HandlersAreOrderly DEF RequestsTyped, RequestTypeOK

\* The row is kept, replaced by one that is new, or gone.
LEMMA RowTurns ==
  ASSUME NEW r \in Clients, row' \in NewContents(r)
  PROVE  row' \in {row, Gone, contents + 1}
BY DEF NewContents

\* A step in flight: where its request is afterwards, and that the others stay.
LEMMA Performs ==
  ASSUME RequestsTyped, NEW r \in Clients, Perform(r)
  PROVE  /\ call[r].answer = "pending" /\ call[r].op \in handlers /\ Orderly(call[r].op)
         /\ Len(call[r].op) \in 1..9 /\ call[r].at \in 1..Len(call[r].op)
         /\ row' \in {row, Gone, contents + 1}
         /\ contents' \in Nat /\ contents' >= contents /\ row' \in 0..contents'
         /\ call' \in Calls'
         /\ \A q \in Clients : /\ call'[q].op = call[q].op /\ call'[q].key = call[q].key
                               /\ call'[q].tag = call[q].tag
                               /\ q # r => /\ call'[q].at = call[q].at
                                           /\ call'[q].answer = call[q].answer
         /\ call[r].at = Len(call[r].op) => call'[r].at = call[r].at /\ call'[r].answer = "ok"
         /\ call[r].at # Len(call[r].op) =>
              call'[r].at = call[r].at + 1 /\ call'[r].answer = "pending"
<1>. DEFINE L == Len(call[r].op)
            at == IF call[r].at = L THEN call[r].at ELSE call[r].at + 1
            answer == IF call[r].at = L THEN "ok" ELSE "pending"
            O == handlers \cup {<<>>}
            K == IdempotencyKeys \cup {NoTag}
            W == {"unsent", "pending", "ok", "found", "refused", "lost"}
            T == 0..contents' \cup {Anything}
            A == 1..9
<1>1. call[r].answer = "pending" /\ call[r].op \in handlers /\ Orderly(call[r].op)
  BY HandlersTyped DEF Perform, InFlight, RequestsTyped, UnsentIsIdle, Sent
<1>2. L \in 1..9 /\ call[r].at \in 1..L
  BY <1>1 DEF RequestsTyped, UnsentIsIdle, Sent, Orderly
<1>3. row \in 0..contents /\ contents \in Nat
  BY DEF RequestsTyped, RequestTypeOK
<1>4. row' \in {row, Gone, contents + 1}
  BY RowTurns DEF Perform
<1>5. contents' \in Nat /\ contents' >= contents /\ row' \in 0..contents' /\ handlers' = handlers
  BY <1>3, <1>4 DEF Perform, Gone
<1>6. call' = [call EXCEPT ![r].at = at, ![r].answer = answer]
  BY DEF Perform
<1>7. at \in A
  <2>. HIDE DEF L
  <2>. QED
    BY <1>2
<1>8. answer \in W
  OBVIOUS
<1>9. call \in [Clients -> [op : O, at : A, key : K, tag : T, answer : W]]
  <2>1. 0..contents \cup {Anything} \subseteq T
    BY <1>3, <1>5
  <2>. QED
    BY <2>1 DEF RequestsTyped, RequestTypeOK
<1>. HIDE DEF at, answer, O, K, T, A, W
<1>10. /\ call' \in [Clients -> [op : O, at : A, key : K, tag : T, answer : W]]
       /\ \A q \in Clients : /\ call'[q].op = call[q].op /\ call'[q].key = call[q].key
                             /\ call'[q].tag = call[q].tag
                             /\ q # r => /\ call'[q].at = call[q].at
                                         /\ call'[q].answer = call[q].answer
       /\ call'[r].at = at /\ call'[r].answer = answer
  BY <1>6, <1>7, <1>8, <1>9
<1>11. call' \in Calls'
  BY <1>5, <1>10 DEF Calls, O, K, T, A, W
<1>12. /\ call[r].at = L => call'[r].at = call[r].at /\ call'[r].answer = "ok"
       /\ call[r].at # L => call'[r].at = call[r].at + 1 /\ call'[r].answer = "pending"
  BY <1>10 DEF at, answer
<1>. QED
  BY <1>1, <1>2, <1>4, <1>5, <1>10, <1>11, <1>12

LEMMA Sends ==
  ASSUME RequestsTyped, NEW r \in Clients, NEW op \in handlers, NEW k \in IdempotencyKeys,
         Send(r, op, k)
  PROVE  /\ call' \in Calls
         /\ \A q \in Clients : call'[q].at = call[q].at /\ (q # r => call'[q] = call[q])
         /\ call'[r].tag \in {call[r].tag, Anything}
         /\ call'[r].op = op /\ call'[r].key = k /\ call'[r].answer = "pending"
         /\ call[r].answer = "unsent" /\ call[r].at = 1
         /\ entries[r] = 0 /\ r \notin made /\ r \notin wrote
         /\ Orderly(op) /\ Len(op) \in 1..9
<1>. DEFINE O == handlers \cup {<<>>}
            K == IdempotencyKeys \cup {NoTag}
            W == {"unsent", "pending", "ok", "found", "refused", "lost"}
            T == 0..contents \cup {Anything}
            A == 1..9
<1>1. call \in [Clients -> [op : O, at : A, key : K, tag : T, answer : W]]
  BY DEF RequestsTyped, RequestTypeOK
<1>2. PICK tag \in {call[r].tag, Anything} :
        call' = [call EXCEPT ![r].op = op, ![r].key = k, ![r].tag = tag,
                             ![r].answer = "pending"]
  BY DEF Send
<1>3. "pending" \in W
  OBVIOUS
<1>4. op \in O
  OBVIOUS
<1>5. k \in K
  OBVIOUS
<1>6. call[r].answer = "unsent" /\ tag \in T
  BY <1>1 DEF Send
<1>7. call[r].at = 1 /\ entries[r] = 0 /\ r \notin made /\ r \notin wrote
  BY <1>6 DEF RequestsTyped, UnsentIsIdle, Sent
<1>8. Orderly(op)
  BY HandlersTyped
<1>9. Len(op) \in 1..9
  BY <1>8 DEF Orderly
<1>. HIDE DEF O, K, T, A, W
<1>10. /\ call' \in [Clients -> [op : O, at : A, key : K, tag : T, answer : W]]
       /\ \A q \in Clients : call'[q].at = call[q].at /\ (q # r => call'[q] = call[q])
       /\ call'[r].tag = tag
       /\ call'[r].op = op /\ call'[r].key = k /\ call'[r].answer = "pending"
  BY <1>1, <1>2, <1>3, <1>4, <1>5, <1>6
<1>11. call' \in Calls
  BY <1>10 DEF Calls, O, K, T, A, W
<1>. QED
  BY <1>6, <1>7, <1>8, <1>9, <1>10, <1>11

\* Nothing but the answer of a request in flight.
AnswerOf(r) ==
    /\ InFlight(r)
    /\ call' \in Calls
    /\ \A q \in Clients : /\ call'[q].op = call[q].op /\ call'[q].key = call[q].key
                          /\ call'[q].tag = call[q].tag /\ call'[q].at = call[q].at
                          /\ q # r => call'[q].answer = call[q].answer
    /\ call'[r].answer \in {"refused", "ok", "found"}
    /\ UNCHANGED <<handlers, row, contents, made, entries, stored, requestFaults,
                   informed, early, wrote>>

LEMMA OnlyAnswers ==
  ASSUME RequestsTyped, NEW r \in Clients, Refuse(r) \/ Replay(r) \/ FindOngoing(r)
  PROVE  AnswerOf(r) /\ (call'[r].answer = "ok" => "replay" \in Doing(r) /\ Replayable(r))
<1>. DEFINE O == handlers \cup {<<>>}
            K == IdempotencyKeys \cup {NoTag}
            W == {"unsent", "pending", "ok", "found", "refused", "lost"}
            T == 0..contents \cup {Anything}
            A == 1..9
<1>1. call \in [Clients -> [op : O, at : A, key : K, tag : T, answer : W]]
  BY DEF RequestsTyped, RequestTypeOK
<1>2. PICK a \in W : /\ Concludes(r, a) /\ a \in {"refused", "ok", "found"}
                     /\ a = "ok" => "replay" \in Doing(r) /\ Replayable(r)
  <2>1. CASE Refuse(r)
    BY <2>1 DEF Refuse
  <2>2. CASE Replay(r)
    BY <2>2 DEF Replay
  <2>3. CASE FindOngoing(r)
    BY <2>3 DEF FindOngoing
  <2>. QED
    BY <2>1, <2>2, <2>3
<1>3. /\ InFlight(r)
      /\ UNCHANGED <<handlers, row, contents, made, entries, stored, requestFaults,
                     informed, early, wrote>>
  BY DEF Refuse, Replay, FindOngoing
<1>. HIDE DEF O, K, T, A, W
<1>4. /\ call' \in [Clients -> [op : O, at : A, key : K, tag : T, answer : W]]
      /\ \A q \in Clients : /\ call'[q].op = call[q].op /\ call'[q].key = call[q].key
                            /\ call'[q].tag = call[q].tag /\ call'[q].at = call[q].at
                            /\ q # r => call'[q].answer = call[q].answer
      /\ call'[r].answer = a
  <2>1. call' = [call EXCEPT ![r].answer = a]
    BY <1>2 DEF Concludes
  <2>. QED
    BY <1>1, <2>1
<1>5. call' \in Calls
  BY <1>4 DEF Calls, O, K, T, A, W
<1>. QED
  BY <1>2, <1>3, <1>4, <1>5 DEF AnswerOf

LEMMA Gets ==
  ASSUME RequestsTyped, NEW r \in Clients, GetRow(r)
  PROVE  /\ call' \in Calls /\ call[r].answer = "unsent"
         /\ \A q \in Clients : /\ call'[q].op = call[q].op /\ call'[q].key = call[q].key
                               /\ call'[q].answer = call[q].answer /\ call'[q].at = call[q].at
                               /\ q # r => call'[q].tag = call[q].tag
         /\ UNCHANGED <<handlers, row, contents, made, entries, stored, requestFaults,
                        informed, early, wrote>>
<1>. DEFINE O == handlers \cup {<<>>}
            K == IdempotencyKeys \cup {NoTag}
            W == {"unsent", "pending", "ok", "found", "refused", "lost"}
            T == 0..contents \cup {Anything}
            A == 1..9
<1>1. call \in [Clients -> [op : O, at : A, key : K, tag : T, answer : W]] /\ row \in T
  BY DEF RequestsTyped, RequestTypeOK
<1>2. call' = [call EXCEPT ![r].tag = row]
  BY DEF GetRow
<1>3. /\ call[r].answer = "unsent"
      /\ UNCHANGED <<handlers, row, contents, made, entries, stored, requestFaults,
                     informed, early, wrote>>
  BY DEF GetRow
<1>. HIDE DEF O, K, T, A, W
<1>4. /\ call' \in [Clients -> [op : O, at : A, key : K, tag : T, answer : W]]
      /\ \A q \in Clients : /\ call'[q].op = call[q].op /\ call'[q].key = call[q].key
                            /\ call'[q].answer = call[q].answer /\ call'[q].at = call[q].at
                            /\ q # r => call'[q].tag = call[q].tag
  BY <1>1, <1>2
<1>5. call' \in Calls
  BY <1>4 DEF Calls, O, K, T, A, W
<1>. QED
  BY <1>3, <1>4, <1>5

LEMMA Crashes ==
  ASSUME RequestsTyped, RequestCrash
  PROVE  /\ call' \in Calls
         /\ \A q \in Clients :
              /\ call'[q].op = call[q].op /\ call'[q].key = call[q].key
              /\ call'[q].tag = call[q].tag /\ call'[q].at = call[q].at
              /\ InFlight(q) => call'[q].answer = "lost"
              /\ ~InFlight(q) => call'[q].answer = call[q].answer
         /\ UNCHANGED <<handlers, row, contents, made, entries, stored, informed, early, wrote>>
         /\ requestFaults' \in 0..MaxRequestFaults
<1>1. call \in Calls
  BY DEF RequestsTyped, RequestTypeOK, Calls
<1>2. \A q \in Clients :
        /\ InFlight(q) => call'[q] = [call[q] EXCEPT !.answer = "lost"]
        /\ ~InFlight(q) => call'[q] = call[q]
  BY DEF RequestCrash
<1>3. \A q \in Clients : InFlight(q) =>
        /\ call'[q].op = call[q].op /\ call'[q].key = call[q].key
        /\ call'[q].tag = call[q].tag /\ call'[q].at = call[q].at
        /\ call'[q].answer = "lost"
  BY <1>1, <1>2 DEF Calls
<1>4. call' \in Calls
  BY <1>1 DEF RequestCrash, Calls
<1>5. UNCHANGED <<handlers, row, contents, made, entries, stored, informed, early, wrote>>
  BY DEF RequestCrash
<1>6. requestFaults' \in 0..MaxRequestFaults
  BY RequestFaultsAssumption DEF RequestCrash, RequestsTyped, RequestTypeOK
<1>. QED
  BY <1>2, <1>3, <1>4, <1>5, <1>6

LEMMA RequestsTypedInvariant == RequestSpec => []RequestsTyped
<1>1. RequestInit => RequestsTyped
  BY RequestFaultsAssumption DEF RequestInit, RequestsTyped, RequestTypeOK, UnsentIsIdle,
    Sent, NoTag
<1>2. RequestsTyped /\ [RequestNext]_requestVars => RequestsTyped'
  <2> SUFFICES ASSUME RequestsTyped, [RequestNext]_requestVars PROVE RequestsTyped'
    OBVIOUS
  <2>0. RequestTypeOK /\ UnsentIsIdle
    BY DEF RequestsTyped
  <2>1. ASSUME NEW r \in Clients, GetRow(r) PROVE RequestsTyped'
    <3>1. /\ call' \in Calls /\ call[r].answer = "unsent"
          /\ \A q \in Clients : /\ call'[q].op = call[q].op /\ call'[q].key = call[q].key
                                /\ call'[q].answer = call[q].answer /\ call'[q].at = call[q].at
          /\ UNCHANGED <<handlers, row, contents, made, entries, stored, requestFaults,
                         informed, early, wrote>>
      BY <2>1, Gets
    <3>2. RequestTypeOK'
      BY <2>0, <3>1 DEF RequestTypeOK, Calls
    <3>3. UnsentIsIdle'
      BY <2>0, <3>1 DEF UnsentIsIdle, Sent
    <3>. QED
      BY <3>2, <3>3 DEF RequestsTyped
  <2>2. ASSUME NEW r \in Clients, NEW op \in handlers, NEW k \in IdempotencyKeys, Send(r, op, k)
        PROVE  RequestsTyped'
    <3>1. /\ call' \in Calls
          /\ \A q \in Clients : call'[q].at = call[q].at /\ (q # r => call'[q] = call[q])
          /\ call'[r].op = op /\ call'[r].key = k /\ call'[r].answer = "pending"
          /\ call[r].at = 1 /\ Len(op) \in 1..9
      BY <2>2, Sends
    <3>2. /\ informed' \subseteq Clients /\ early' \subseteq Clients
          /\ UNCHANGED <<handlers, row, contents, made, entries, stored, requestFaults, wrote>>
      BY <2>0, <2>2 DEF Send, RequestTypeOK
    <3>3. RequestTypeOK'
      BY <2>0, <3>1, <3>2 DEF RequestTypeOK, Calls
    <3>4. UnsentIsIdle'
      <4> SUFFICES ASSUME NEW q \in Clients
                   PROVE  /\ ~Sent(q)' => /\ call'[q].at = 1 /\ entries'[q] = 0
                                          /\ q \notin made' \cup wrote'
                          /\ Sent(q)' => /\ call'[q].op \in handlers'
                                         /\ call'[q].at \in 1..Len(call'[q].op)
                                         /\ call'[q].key \in IdempotencyKeys
        BY DEF UnsentIsIdle
      <4>1. CASE q = r
        <5>1. /\ call'[q].op = op /\ call'[q].key = k /\ call'[q].answer = "pending"
              /\ call'[q].at = 1 /\ Len(op) \in 1..9
          BY <3>1, <4>1
        <5>2. 1 \in 1..Len(op)
          <6>. DEFINE L == Len(op)
          <6>1. L \in 1..9
            BY <3>1
          <6>. HIDE DEF L
          <6>2. 1 \in 1..L
            BY <6>1
          <6>. QED
            BY <6>2 DEF L
        <5>. QED
          BY <3>2, <5>1, <5>2 DEF Sent
      <4>2. CASE q # r
        BY <2>0, <3>1, <3>2, <4>2 DEF Sent, UnsentIsIdle
      <4>. QED
        BY <4>1, <4>2
    <3>. QED
      BY <3>3, <3>4 DEF RequestsTyped
  <2>3. ASSUME NEW r \in Clients, Refuse(r) \/ Replay(r) \/ FindOngoing(r) PROVE RequestsTyped'
    <3>1. AnswerOf(r)
      BY <2>3, OnlyAnswers
    <3>2. RequestTypeOK'
      BY <2>0, <3>1 DEF AnswerOf, RequestTypeOK, Calls
    <3>3. \A q \in Clients : /\ call'[q].op = call[q].op /\ call'[q].key = call[q].key
                             /\ call'[q].at = call[q].at /\ Sent(q)' = Sent(q)
      BY <3>1 DEF AnswerOf, InFlight, Sent
    <3>4. UnsentIsIdle'
      BY <2>0, <3>1, <3>3 DEF AnswerOf, UnsentIsIdle
    <3>. QED
      BY <3>2, <3>4 DEF RequestsTyped
  <2>4. ASSUME NEW r \in Clients, Perform(r) PROVE RequestsTyped'
    <3>1. /\ call' \in Calls'
          /\ contents' \in Nat /\ row' \in 0..contents'
          /\ call[r].answer = "pending" /\ call[r].op \in handlers
      BY <2>4, Performs
    <3>2. /\ \A q \in Clients : /\ call'[q].op = call[q].op /\ call'[q].key = call[q].key
                                /\ q # r => /\ call'[q].at = call[q].at
                                            /\ call'[q].answer = call[q].answer
          /\ call'[r].answer # "unsent"
      BY <2>4, Performs
    <3>3. call'[r].at \in 1..Len(call[r].op)
      <4>1. /\ call[r].at \in 1..Len(call[r].op) /\ Len(call[r].op) \in 1..9
            /\ call[r].at = Len(call[r].op) => call'[r].at = call[r].at
            /\ call[r].at # Len(call[r].op) => call'[r].at = call[r].at + 1
        BY <2>4, Performs
      <4>. QED
        BY <4>1
    <3>4. call[r].key \in IdempotencyKeys
      BY <2>0, <3>1 DEF UnsentIsIdle, Sent
    <3>5. /\ stored' \subseteq handlers \X IdempotencyKeys
          /\ entries' \in [Clients -> Nat]
          /\ made' \subseteq Clients /\ wrote' \subseteq Clients
          /\ UNCHANGED <<handlers, requestFaults, informed, early>>
      BY <2>0, <2>4, <3>1, <3>4 DEF Perform, RequestTypeOK
    <3>6. RequestTypeOK'
      BY <2>0, <3>1, <3>5 DEF Calls, RequestTypeOK
    <3>7. \A q \in Clients : q # r => /\ entries'[q] = entries[q]
                                      /\ q \in made' => q \in made
                                      /\ q \in wrote' => q \in wrote
      BY <2>0, <2>4 DEF Perform, RequestTypeOK
    <3>8. UnsentIsIdle'
      <4> SUFFICES ASSUME NEW q \in Clients
                   PROVE  /\ ~Sent(q)' => /\ call'[q].at = 1 /\ entries'[q] = 0
                                          /\ q \notin made' \cup wrote'
                          /\ Sent(q)' => /\ call'[q].op \in handlers'
                                         /\ call'[q].at \in 1..Len(call'[q].op)
                                         /\ call'[q].key \in IdempotencyKeys
        BY DEF UnsentIsIdle
      <4>1. CASE q = r
        BY <3>1, <3>2, <3>3, <3>4, <3>5, <4>1 DEF Sent
      <4>2. CASE q # r
        BY <2>0, <3>2, <3>5, <3>7, <4>2 DEF Sent, UnsentIsIdle
      <4>. QED
        BY <4>1, <4>2
    <3>. QED
      BY <3>6, <3>8 DEF RequestsTyped
  <2>5. CASE RequestCrash
    <3>1. /\ call' \in Calls
          /\ \A q \in Clients :
               /\ call'[q].op = call[q].op /\ call'[q].key = call[q].key
               /\ call'[q].at = call[q].at
               /\ InFlight(q) => call'[q].answer = "lost"
               /\ ~InFlight(q) => call'[q].answer = call[q].answer
          /\ UNCHANGED <<handlers, row, contents, made, entries, stored, informed, early, wrote>>
          /\ requestFaults' \in 0..MaxRequestFaults
      BY <2>5, Crashes
    <3>2. RequestTypeOK'
      BY <2>0, <3>1 DEF RequestTypeOK, Calls
    <3>3. \A q \in Clients : Sent(q)' = Sent(q)
      BY <3>1 DEF Sent, InFlight
    <3>4. UnsentIsIdle'
      BY <2>0, <3>1, <3>3 DEF UnsentIsIdle
    <3>. QED
      BY <3>2, <3>4 DEF RequestsTyped
  <2>6. CASE UNCHANGED requestVars
    BY <2>0, <2>6 DEF requestVars, RequestsTyped, RequestTypeOK, UnsentIsIdle, Sent
  <2>. QED
    BY <2>1, <2>2, <2>3, <2>4, <2>5, <2>6 DEF RequestNext, Handle
<1>. QED
  BY <1>1, <1>2, PTL DEF RequestSpec

\* Every variable of the requests keeps its type, whichever handlers meet.
THEOREM RequestTypeCorrect == RequestSpec => []RequestTypeOK
<1>1. RequestsTyped => RequestTypeOK
  BY DEF RequestsTyped
<1>. QED
  BY <1>1, RequestsTypedInvariant, PTL

-----------------------------------------------------------------------------
(* Requests: whoever is told of success can find the entries *)

\* The entries a request has written when its await n begins.
AuditsBefore(op, n) == Cardinality({m \in 1..(n - 1) : "audit" \in op[m]})

LEMMA AuditsAreCounted ==
  ASSUME NEW op, NEW n \in Nat \ {0}
  PROVE  /\ AuditsBefore(op, 1) = 0
         /\ AuditsBefore(op, n) \in Nat
         /\ AuditsBefore(op, n + 1) = AuditsBefore(op, n) + (IF "audit" \in op[n] THEN 1 ELSE 0)
<1>. DEFINE B == {m \in 1..(n - 1) : "audit" \in op[m]}
            A == {m \in 1..(n + 1 - 1) : "audit" \in op[m]}
<1>1. {m \in 1..(1 - 1) : "audit" \in op[m]} = {}
  OBVIOUS
<1>2. IsFiniteSet(B)
  <2>1. IsFiniteSet(1..(n - 1))
    BY FS_Interval
  <2>. QED
    BY <2>1, FS_Subset
<1>3. A = IF "audit" \in op[n] THEN B \cup {n} ELSE B
  <2>1. 1..(n + 1 - 1) = 1..(n - 1) \cup {n}
    OBVIOUS
  <2>. QED
    BY <2>1
<1>4. n \notin B
  OBVIOUS
<1>5. AuditsBefore(op, n) = Cardinality(B)
  BY DEF AuditsBefore
<1>6. AuditsBefore(op, n + 1) = Cardinality(A)
  BY DEF AuditsBefore
<1>. HIDE DEF A, B
<1>7. Cardinality(A) = Cardinality(B) + (IF "audit" \in op[n] THEN 1 ELSE 0)
  <2>1. Cardinality(B) \in Nat
    BY <1>2, FS_CardinalityType
  <2>2. Cardinality(B \cup {n}) = Cardinality(B) + 1
    BY <1>2, <1>4, FS_AddElement
  <2>. QED
    BY <1>3, <2>1, <2>2
<1>8. Cardinality(B) \in Nat
  BY <1>2, FS_CardinalityType
<1>9. AuditsBefore(op, 1) = 0
  BY <1>1, FS_EmptySet DEF AuditsBefore
<1>. QED
  BY <1>7, <1>8, <1>5, <1>9, <1>6

\* When no entry is left to write, all are written.
LEMMA AllAuditsBefore ==
  ASSUME NEW op, NEW n \in Nat \ {0}, Len(op) \in Nat, n <= Len(op) + 1,
         \A m \in n..Len(op) : "audit" \notin op[m]
  PROVE  AuditSteps(op) = AuditsBefore(op, n)
<1>. DEFINE L == Len(op)
<1>1. L \in Nat /\ n <= L + 1 /\ \A m \in n..L : "audit" \notin op[m]
  OBVIOUS
<1>. HIDE DEF L
<1>2. \A m \in 1..L : m \in 1..(n - 1) \/ m \in n..L
  BY <1>1
<1>3. 1..(n - 1) \subseteq 1..L
  BY <1>1
<1>4. {m \in 1..L : "audit" \in op[m]} = {m \in 1..(n - 1) : "audit" \in op[m]}
  BY <1>1, <1>2, <1>3
<1>. QED
  BY <1>4 DEF L, AuditSteps, AuditsBefore

\* The requests in flight have written the entries of their awaits so far.
EntriesAreCounted ==
    \A r \in Clients : InFlight(r) => entries[r] = AuditsBefore(call[r].op, call[r].at)

\* A request that wrote all its entries, and will write no other.
Recorded(q, op, k) ==
    /\ call[q].op = op /\ call[q].key = k
    /\ Sent(q)
    /\ entries[q] = AuditSteps(op)
    /\ InFlight(q) => \A m \in call[q].at..Len(op) : "audit" \notin op[m]

StoredIsRecorded ==
    \A op \in handlers, k \in IdempotencyKeys :
      <<op, k>> \in stored => \E q \in Clients : Recorded(q, op, k)

AnsweredHasEntries ==
    \A r \in Clients : call[r].answer = "ok" =>
      \/ entries[r] = AuditSteps(call[r].op)
      \/ Has(r, "replay") /\ \E q \in Clients : Recorded(q, call[r].op, call[r].key)

RecordsKept ==
    RequestsTyped /\ EntriesAreCounted /\ StoredIsRecorded /\ AnsweredHasEntries

\* A step in flight counts its entry, and is the last or goes on.
LEMMA PerformsCounted ==
  ASSUME RequestsTyped, EntriesAreCounted, NEW r \in Clients, Perform(r)
  PROVE  /\ entries'[r] = AuditsBefore(call[r].op, call[r].at + 1)
         /\ \A q \in Clients : q # r => entries'[q] = entries[q]
         /\ "audit" \notin Doing(r) => entries'[r] = entries[r]
<1>1. /\ call[r].answer = "pending" /\ Len(call[r].op) \in 1..9
      /\ call[r].at \in 1..Len(call[r].op)
  BY Performs
<1>2. call[r].at \in Nat \ {0}
  <2>. DEFINE L == Len(call[r].op)
  <2>1. L \in 1..9 /\ call[r].at \in 1..L
    BY <1>1
  <2>. HIDE DEF L
  <2>. QED
    BY <2>1
<1>3. entries[r] = AuditsBefore(call[r].op, call[r].at)
  BY <1>1 DEF EntriesAreCounted, InFlight
<1>4. /\ entries[r] \in Nat /\ entries \in [Clients -> Nat]
      /\ entries' = [entries EXCEPT ![r] = @ + (IF "audit" \in Doing(r) THEN 1 ELSE 0)]
  BY DEF RequestsTyped, RequestTypeOK, Perform
<1>5. entries'[r] = entries[r] + (IF "audit" \in Doing(r) THEN 1 ELSE 0)
  BY <1>4
<1>6. AuditsBefore(call[r].op, call[r].at + 1)
        = AuditsBefore(call[r].op, call[r].at) + (IF "audit" \in Doing(r) THEN 1 ELSE 0)
  BY <1>2, AuditsAreCounted DEF Doing
<1>. QED
  BY <1>3, <1>4, <1>5, <1>6

LEMMA RecordedStays ==
  ASSUME RequestsTyped, EntriesAreCounted, [RequestNext]_requestVars,
         NEW q \in Clients, NEW op \in handlers, NEW k \in IdempotencyKeys, Recorded(q, op, k)
  PROVE  Recorded(q, op, k)'
<1>1. ASSUME NEW r \in Clients, GetRow(r) PROVE Recorded(q, op, k)'
  BY <1>1, Gets DEF Recorded, Sent, InFlight
<1>2. ASSUME NEW r \in Clients, NEW o \in handlers, NEW j \in IdempotencyKeys, Send(r, o, j)
      PROVE  Recorded(q, op, k)'
  <2>1. q # r /\ call'[q] = call[q]
    BY <1>2, Sends DEF Recorded, Sent
  <2>2. entries' = entries
    BY <1>2 DEF Send
  <2>. QED
    BY <2>1, <2>2 DEF Recorded, Sent, InFlight
<1>3. ASSUME NEW r \in Clients, Refuse(r) \/ Replay(r) \/ FindOngoing(r)
      PROVE  Recorded(q, op, k)'
  <2>1. AnswerOf(r)
    BY <1>3, OnlyAnswers
  <2>. QED
    BY <2>1 DEF AnswerOf, Recorded, Sent, InFlight
<1>4. ASSUME NEW r \in Clients, Perform(r) PROVE Recorded(q, op, k)'
  <2>1. CASE q # r
    <3>1. /\ call'[q].op = call[q].op /\ call'[q].key = call[q].key
          /\ call'[q].at = call[q].at /\ call'[q].answer = call[q].answer
      BY <1>4, <2>1, Performs
    <3>2. entries'[q] = entries[q]
      BY <1>4, <2>1, PerformsCounted
    <3>. QED
      BY <3>1, <3>2 DEF Recorded, Sent, InFlight
  <2>2. CASE q = r
    <3>. DEFINE L == Len(op)
    <3>1. /\ call[r].answer = "pending" /\ call[r].op = op
          /\ L \in 1..9 /\ call[r].at \in 1..L
      BY <1>4, <2>2, Performs DEF Recorded
    <3>2. \A m \in call[r].at..L : "audit" \notin op[m]
      BY <2>2, <3>1 DEF Recorded, InFlight
    <3>3. /\ call'[r].op = call[r].op /\ call'[r].key = call[r].key
          /\ call[r].at = L => call'[r].answer = "ok"
          /\ call[r].at # L => call'[r].at = call[r].at + 1 /\ call'[r].answer = "pending"
      BY <1>4, <3>1, Performs
    <3>. HIDE DEF L
    <3>4. call[r].at \in call[r].at..L
      BY <3>1
    <3>5. entries'[r] = entries[r]
      BY <1>4, <3>1, <3>2, <3>4, PerformsCounted DEF Doing
    <3>6. call[r].at # L => \A m \in (call[r].at + 1)..L : m \in call[r].at..L
      BY <3>1
    <3>7. call'[r].answer = "pending" => \A m \in call'[r].at..L : "audit" \notin op[m]
      BY <3>2, <3>3, <3>6
    <3>8. call'[r].answer # "unsent"
      BY <3>3
    <3>. QED
      BY <2>2, <3>3, <3>5, <3>7, <3>8 DEF Recorded, Sent, InFlight, L
  <2>. QED
    BY <2>1, <2>2
<1>5. CASE RequestCrash
  BY <1>5, Crashes DEF Recorded, Sent, InFlight
<1>6. CASE UNCHANGED requestVars
  BY <1>6 DEF requestVars, Recorded, Sent, InFlight
<1>. QED
  BY <1>1, <1>2, <1>3, <1>4, <1>5, <1>6 DEF RequestNext, Handle

LEMMA EntriesStayCounted ==
  ASSUME RequestsTyped, EntriesAreCounted, [RequestNext]_requestVars
  PROVE  EntriesAreCounted'
<1> SUFFICES ASSUME NEW q \in Clients, InFlight(q)'
             PROVE  entries'[q] = AuditsBefore(call'[q].op, call'[q].at)
  BY DEF EntriesAreCounted
<1>1. ASSUME NEW r \in Clients, GetRow(r)
      PROVE  entries'[q] = AuditsBefore(call'[q].op, call'[q].at)
  BY <1>1, Gets DEF EntriesAreCounted, InFlight
<1>2. ASSUME NEW r \in Clients, NEW o \in handlers, NEW j \in IdempotencyKeys, Send(r, o, j)
      PROVE  entries'[q] = AuditsBefore(call'[q].op, call'[q].at)
  <2>1. entries' = entries
    BY <1>2 DEF Send
  <2>2. CASE q = r
    <3>1. entries[r] = 0 /\ call[r].at = 1 /\ call'[r].at = call[r].at
      BY <1>2, Sends
    <3>2. AuditsBefore(call'[r].op, 1) = 0
      <4>1. 1 \in Nat \ {0}
        OBVIOUS
      <4>. QED
        BY <4>1, AuditsAreCounted
    <3>. QED
      BY <2>1, <2>2, <3>1, <3>2
  <2>3. CASE q # r
    <3>1. call'[q] = call[q]
      BY <1>2, <2>3, Sends
    <3>. QED
      BY <2>1, <3>1 DEF EntriesAreCounted, InFlight
  <2>. QED
    BY <2>2, <2>3
<1>3. ASSUME NEW r \in Clients, Refuse(r) \/ Replay(r) \/ FindOngoing(r)
      PROVE  entries'[q] = AuditsBefore(call'[q].op, call'[q].at)
  <2>1. AnswerOf(r)
    BY <1>3, OnlyAnswers
  <2>. QED
    BY <2>1 DEF AnswerOf, EntriesAreCounted, InFlight
<1>4. ASSUME NEW r \in Clients, Perform(r)
      PROVE  entries'[q] = AuditsBefore(call'[q].op, call'[q].at)
  <2>1. CASE q # r
    <3>1. /\ call'[q].op = call[q].op
          /\ call'[q].at = call[q].at /\ call'[q].answer = call[q].answer
      BY <1>4, <2>1, Performs
    <3>2. entries'[q] = entries[q]
      BY <1>4, <2>1, PerformsCounted
    <3>. QED
      BY <3>1, <3>2 DEF EntriesAreCounted, InFlight
  <2>2. CASE q = r
    <3>1. /\ call'[r].op = call[r].op
          /\ call[r].at = Len(call[r].op) => call'[r].answer = "ok"
          /\ call[r].at # Len(call[r].op) => call'[r].at = call[r].at + 1
      BY <1>4, Performs
    <3>2. call'[r].at = call[r].at + 1
      BY <2>2, <3>1 DEF InFlight
    <3>. QED
      BY <1>4, <2>2, <3>1, <3>2, PerformsCounted
  <2>. QED
    BY <2>1, <2>2
<1>5. CASE RequestCrash
  BY <1>5, Crashes DEF EntriesAreCounted, InFlight
<1>6. CASE UNCHANGED requestVars
  BY <1>6 DEF requestVars, EntriesAreCounted, InFlight
<1>. QED
  BY <1>1, <1>2, <1>3, <1>4, <1>5, <1>6 DEF RequestNext, Handle

\* An await that stores the answer has no entry after it.
LEMMA StoreIsLast ==
  ASSUME RequestsTyped, EntriesAreCounted, NEW r \in Clients, Perform(r), "store" \in Doing(r)
  PROVE  Recorded(r, call[r].op, call[r].key)'
<1>. DEFINE op == call[r].op
            L == Len(op)
            n == call[r].at
<1>1. /\ call[r].answer = "pending" /\ Orderly(op)
      /\ L \in 1..9 /\ n \in 1..L
  BY Performs
<1>2. \A m \in (n + 1)..L : "audit" \notin op[m]
  BY <1>1 DEF Orderly, Doing
<1>3. /\ call'[r].op = op /\ call'[r].key = call[r].key
      /\ n = L => call'[r].answer = "ok"
      /\ n # L => call'[r].at = n + 1 /\ call'[r].answer = "pending"
  BY Performs
<1>4. entries'[r] = AuditsBefore(op, n + 1)
  BY PerformsCounted
<1>. HIDE DEF n, L
<1>5. n + 1 \in Nat \ {0} /\ n + 1 <= L + 1 /\ L \in Nat
  BY <1>1
<1>. HIDE DEF op
<1>6. AuditSteps(op) = AuditsBefore(op, n + 1)
  BY <1>2, <1>5, AllAuditsBefore DEF L
<1>7. call'[r].answer = "pending" => \A m \in call'[r].at..L : "audit" \notin op[m]
  BY <1>2, <1>3
<1>8. call'[r].answer # "unsent"
  BY <1>3
<1>. QED
  BY <1>3, <1>4, <1>6, <1>7, <1>8 DEF Recorded, Sent, InFlight, L, op

LEMMA StoredStaysRecorded ==
  ASSUME RequestsTyped, EntriesAreCounted, StoredIsRecorded, [RequestNext]_requestVars
  PROVE  StoredIsRecorded'
<1> SUFFICES ASSUME NEW op \in handlers', NEW k \in IdempotencyKeys, <<op, k>> \in stored'
             PROVE  \E q \in Clients : Recorded(q, op, k)'
  BY DEF StoredIsRecorded
<1>1. handlers' = handlers
  <2>1. \A r \in Clients, o \in handlers, j \in IdempotencyKeys :
          Send(r, o, j) => handlers' = handlers
    BY DEF Send
  <2>. QED
    BY <2>1 DEF RequestNext, Handle, GetRow, Refuse, Replay, FindOngoing, Perform, RequestCrash,
      requestVars
<1>2. CASE <<op, k>> \in stored
  BY <1>1, <1>2, RecordedStays DEF StoredIsRecorded
<1>3. CASE <<op, k>> \notin stored
  <2>1. PICK r \in Clients : Perform(r)
    BY <1>3 DEF RequestNext, Handle, GetRow, Send, Refuse, Replay, FindOngoing, RequestCrash,
      requestVars
  <2>2. "store" \in Doing(r) /\ op = call[r].op /\ k = call[r].key
    BY <1>3, <2>1 DEF Perform
  <2>3. call'[r].op = call[r].op /\ call'[r].key = call[r].key
    BY <2>1, Performs
  <2>4. Recorded(r, call[r].op, call[r].key)'
    BY <2>1, <2>2, StoreIsLast
  <2>. QED
    BY <2>2, <2>3, <2>4
<1>. QED
  BY <1>2, <1>3

LEMMA AnsweredKeepsEntries ==
  ASSUME RequestsTyped, EntriesAreCounted, StoredIsRecorded, AnsweredHasEntries,
         [RequestNext]_requestVars
  PROVE  AnsweredHasEntries'
<1>. DEFINE Good(q) == \/ entries[q] = AuditSteps(call[q].op)
                       \/ /\ Has(q, "replay")
                          /\ \E p \in Clients : Recorded(p, call[q].op, call[q].key)
<1> SUFFICES ASSUME NEW q \in Clients, call'[q].answer = "ok"
             PROVE  Good(q)'
  BY DEF AnsweredHasEntries
<1>1. ASSUME call[q].answer = "ok", call'[q].op = call[q].op, call'[q].key = call[q].key,
             entries'[q] = entries[q]
      PROVE  Good(q)'
  <2>1. Good(q)
    BY <1>1 DEF AnsweredHasEntries
  <2>2. Has(q, "replay")' = Has(q, "replay")
    BY <1>1 DEF Has
  <2>3. call[q].op \in handlers /\ call[q].key \in IdempotencyKeys
    BY <1>1 DEF RequestsTyped, UnsentIsIdle, Sent
  <2>4. ASSUME NEW p \in Clients, Recorded(p, call[q].op, call[q].key)
        PROVE  Recorded(p, call[q].op, call[q].key)'
    BY <1>1, <2>3, <2>4, RecordedStays DEF Recorded, Sent, InFlight
  <2>. QED
    BY <1>1, <2>1, <2>2, <2>4
<1>2. ASSUME NEW r \in Clients, GetRow(r) PROVE Good(q)'
  BY <1>1, <1>2, Gets
<1>3. ASSUME NEW r \in Clients, NEW o \in handlers, NEW j \in IdempotencyKeys, Send(r, o, j)
      PROVE  Good(q)'
  <2>1. q # r /\ call'[q] = call[q]
    BY <1>3, Sends
  <2>2. entries' = entries
    BY <1>3 DEF Send
  <2>. QED
    BY <1>1, <2>1, <2>2
<1>4. ASSUME NEW r \in Clients, Refuse(r) \/ Replay(r) \/ FindOngoing(r) PROVE Good(q)'
  <2>1. AnswerOf(r) /\ (call'[r].answer = "ok" => "replay" \in Doing(r) /\ Replayable(r))
    BY <1>4, OnlyAnswers
  <2>2. /\ call'[q].op = call[q].op /\ call'[q].key = call[q].key /\ entries'[q] = entries[q]
        /\ q # r => call'[q].answer = call[q].answer
    BY <2>1 DEF AnswerOf
  <2>3. CASE q # r
    BY <1>1, <2>2, <2>3
  <2>4. CASE q = r
    <3>1. "replay" \in call[r].op[call[r].at] /\ <<call[r].op, call[r].key>> \in stored
      BY <2>1, <2>4 DEF Doing, Replayable
    <3>2. /\ call[r].op \in handlers /\ call[r].key \in IdempotencyKeys
          /\ call[r].at \in 1..Len(call[r].op)
      BY <2>1 DEF AnswerOf, InFlight, RequestsTyped, UnsentIsIdle, Sent
    <3>3. Has(r, "replay")
      BY <3>1, <3>2 DEF Has
    <3>4. PICK p \in Clients : Recorded(p, call[r].op, call[r].key)
      BY <3>1, <3>2 DEF StoredIsRecorded
    <3>5. Recorded(p, call[r].op, call[r].key)'
      BY <3>2, <3>4, RecordedStays, <2>2, <2>4 DEF Recorded, Sent, InFlight
    <3>6. Has(r, "replay")'
      BY <2>2, <2>4, <3>3 DEF Has
    <3>. QED
      BY <2>4, <3>5, <3>6
  <2>. QED
    BY <2>3, <2>4
<1>5. ASSUME NEW r \in Clients, Perform(r) PROVE Good(q)'
  <2>1. CASE q # r
    <3>1. /\ call'[q].op = call[q].op /\ call'[q].key = call[q].key
          /\ call'[q].answer = call[q].answer
      BY <1>5, <2>1, Performs
    <3>2. entries'[q] = entries[q]
      BY <1>5, <2>1, PerformsCounted
    <3>. QED
      BY <1>1, <3>1, <3>2
  <2>2. CASE q = r
    <3>. DEFINE L == Len(call[r].op)
    <3>1. /\ call'[r].op = call[r].op
          /\ call[r].at # L => call'[r].answer = "pending"
          /\ L \in 1..9
      BY <1>5, Performs
    <3>2. call[r].at = L
      BY <2>2, <3>1
    <3>3. entries'[r] = AuditsBefore(call[r].op, L + 1)
      BY <1>5, <3>2, PerformsCounted
    <3>. HIDE DEF L
    <3>4. L \in Nat /\ L + 1 \in Nat \ {0} /\ L + 1 <= L + 1 /\ (L + 1)..L = {}
      BY <3>1
    <3>5. AuditSteps(call[r].op) = AuditsBefore(call[r].op, L + 1)
      BY <3>4, AllAuditsBefore DEF L
    <3>. QED
      BY <2>2, <3>1, <3>3, <3>5
  <2>. QED
    BY <2>1, <2>2
<1>6. CASE RequestCrash
  <2>1. /\ call'[q].op = call[q].op /\ call'[q].key = call[q].key
        /\ call[q].answer = "ok" /\ entries' = entries
    BY <1>6, Crashes DEF InFlight
  <2>. QED
    BY <1>1, <2>1
<1>7. CASE UNCHANGED requestVars
  BY <1>1, <1>7 DEF requestVars
<1>. HIDE DEF Good
<1>. QED
  BY <1>2, <1>3, <1>4, <1>5, <1>6, <1>7 DEF RequestNext, Handle

\* Whoever is told that a request succeeded, by the request or by the answer
\* stored for a retry, can find its entries (ADR 0006), for every set of
\* requests and keys and wherever the API dies.
THEOREM SuccessIsRecorded == RequestSpec => []AnsweredIsRecorded
<1>1. RequestInit => EntriesAreCounted /\ StoredIsRecorded /\ AnsweredHasEntries
  BY DEF RequestInit, EntriesAreCounted, StoredIsRecorded, AnsweredHasEntries, InFlight
<1>2. RequestsTyped /\ RecordsKept /\ [RequestNext]_requestVars /\ RequestsTyped' => RecordsKept'
  BY EntriesStayCounted, StoredStaysRecorded, AnsweredKeepsEntries DEF RecordsKept
<1>3. RecordsKept => AnsweredIsRecorded
  BY DEF RecordsKept, AnsweredHasEntries, AnsweredIsRecorded, Alike, Recorded
<1>4. RequestInit /\ RequestsTyped => RecordsKept
  BY <1>1 DEF RecordsKept
<1>. QED
  BY <1>2, <1>3, <1>4, RequestsTypedInvariant, PTL DEF RequestSpec

-----------------------------------------------------------------------------
(* Requests: retries and stale ETags *)

\* A retry of an answered request does not get past the answer.
RetriesWait ==
    \A r \in Clients :
      Sent(r) /\ Has(r, "replay") /\ r \notin early =>
        /\ <<call[r].op, call[r].key>> \in stored
        /\ call[r].at = 1 /\ r \notin made

\* What a request with If-Match does not know of the row it never will.
StaleStaysStale ==
    \A r \in Clients :
      Sent(r) /\ r \notin informed =>
        /\ call[r].tag # NoTag => call[r].tag # row
        /\ Has(r, "match") /\ call[r].tag # Anything => call[r].at = 1 /\ r \notin wrote

GuardsHold == RetriesWait /\ StaleStaysStale

\* The answer stored for its key, and a tag that is not the row's, stop it.
LEMMA GuardsStop ==
  ASSUME RequestsTyped, GuardsHold, NEW r \in Clients, Perform(r)
  PROVE  /\ Has(r, "replay") => r \in early
         /\ Has(r, "match") /\ call[r].tag # Anything => r \in informed
<1>1. /\ call[r].answer = "pending" /\ Orderly(call[r].op)
      /\ call[r].op \in handlers /\ Sent(r)
  BY Performs DEF Sent
<1>2. ASSUME Has(r, "replay"), r \notin early PROVE FALSE
  <2>1. "replay" \in call[r].op[1]
    BY <1>1, <1>2 DEF Has, Orderly
  <2>2. "replay" \in Doing(r) /\ Replayable(r)
    BY <1>1, <1>2, <2>1 DEF GuardsHold, RetriesWait, Doing, Replayable
  <2>. QED
    BY <2>2 DEF Perform
<1>3. ASSUME Has(r, "match"), call[r].tag # Anything, r \notin informed PROVE FALSE
  <2>1. "match" \in call[r].op[1] /\ "find" \in call[r].op[1]
    BY <1>1, <1>3 DEF Has, Orderly
  <2>2. "match" \in Doing(r) /\ "find" \in Doing(r)
    BY <1>1, <1>3, <2>1 DEF GuardsHold, StaleStaysStale, Doing
  <2>3. row # Gone /\ call[r].tag = row
    BY <1>3, <2>2 DEF Perform, Fails, Matches
  <2>. QED
    BY <1>1, <1>3, <2>3 DEF GuardsHold, StaleStaysStale, Gone, NoTag
<1>. QED
  BY <1>2, <1>3

LEMMA GuardsStay ==
  ASSUME RequestsTyped, GuardsHold, [RequestNext]_requestVars
  PROVE  GuardsHold'
<1>0. RetriesWait /\ StaleStaysStale
  BY DEF GuardsHold
<1>1. ASSUME NEW r \in Clients, GetRow(r) PROVE GuardsHold'
  <2>1. \A q \in Clients : /\ call'[q].op = call[q].op /\ call'[q].key = call[q].key
                           /\ call'[q].at = call[q].at /\ Sent(q)' = Sent(q)
                           /\ Sent(q) => call'[q].tag = call[q].tag
    BY <1>1, Gets DEF Sent
  <2>2. UNCHANGED <<row, made, stored, informed, early, wrote>>
    BY <1>1, Gets
  <2>. QED
    BY <1>0, <2>1, <2>2 DEF GuardsHold, RetriesWait, StaleStaysStale, Has
<1>2. ASSUME NEW r \in Clients, NEW o \in handlers, NEW j \in IdempotencyKeys, Send(r, o, j)
      PROVE  GuardsHold'
  <2>1. /\ \A q \in Clients : q # r => call'[q] = call[q]
        /\ call'[r].op = o /\ call'[r].key = j /\ call'[r].at = 1
        /\ call'[r].tag \in {call[r].tag, Anything} /\ r \notin made /\ r \notin wrote
    BY <1>2, Sends
  <2>2. /\ UNCHANGED <<row, made, stored, wrote>>
        /\ informed' = IF call[r].tag = row THEN informed \cup {r} ELSE informed
        /\ early' = IF <<o, j>> \in stored THEN early ELSE early \cup {r}
    BY <1>2 DEF Send
  <2>3. \A q \in Clients : q # r => /\ Sent(q)' = Sent(q)
                                    /\ Has(q, "replay")' = Has(q, "replay")
                                    /\ Has(q, "match")' = Has(q, "match")
    BY <2>1 DEF Sent, Has
  <2>4. RetriesWait'
    BY <1>0, <2>1, <2>2, <2>3 DEF RetriesWait
  <2>5. StaleStaysStale'
    <3>1. row # Anything
      BY DEF RequestsTyped, RequestTypeOK, Anything
    <3>. QED
      BY <1>0, <2>1, <2>2, <2>3, <3>1 DEF StaleStaysStale
  <2>. QED
    BY <2>4, <2>5 DEF GuardsHold
<1>3. ASSUME NEW r \in Clients, Refuse(r) \/ Replay(r) \/ FindOngoing(r) PROVE GuardsHold'
  <2>1. AnswerOf(r)
    BY <1>3, OnlyAnswers
  <2>2. \A q \in Clients : Sent(q)' = Sent(q)
    BY <2>1 DEF AnswerOf, InFlight, Sent
  <2>. QED
    BY <1>0, <2>1, <2>2 DEF AnswerOf, GuardsHold, RetriesWait, StaleStaysStale, Has
<1>4. ASSUME NEW r \in Clients, Perform(r) PROVE GuardsHold'
  <2>1. /\ \A q \in Clients : /\ call'[q].op = call[q].op /\ call'[q].key = call[q].key
                              /\ call'[q].tag = call[q].tag
                              /\ q # r => /\ call'[q].at = call[q].at
                                          /\ call'[q].answer = call[q].answer
        /\ row' \in {row, Gone, contents + 1}
    BY <1>4, Performs
  <2>2. /\ Has(r, "replay") => r \in early
        /\ Has(r, "match") /\ call[r].tag # Anything => r \in informed
    BY <1>4, GuardsStop
  <2>3. /\ made' \subseteq made \cup {r} /\ wrote' \subseteq wrote \cup {r}
        /\ stored \subseteq stored' /\ UNCHANGED <<informed, early>>
    BY <1>4 DEF Perform
  <2>4. Sent(r) /\ \A q \in Clients : /\ q # r => Sent(q)' = Sent(q)
                                      /\ Has(q, "replay")' = Has(q, "replay")
                                      /\ Has(q, "match")' = Has(q, "match")
    BY <1>4, <2>1 DEF Perform, InFlight, Sent, Has
  <2>5. RetriesWait'
    BY <1>0, <2>1, <2>2, <2>3, <2>4 DEF RetriesWait
  <2>6. \A q \in Clients : call[q].tag \in 0..contents \cup {-1} /\ contents \in Nat
    BY DEF RequestsTyped, RequestTypeOK, Anything
  <2>7. ASSUME NEW q \in Clients, call[q].tag # NoTag, call[q].tag # row
        PROVE  call'[q].tag # row'
    BY <2>1, <2>6, <2>7 DEF Gone, NoTag
  <2>8. StaleStaysStale'
    BY <1>0, <2>1, <2>2, <2>3, <2>4, <2>7 DEF StaleStaysStale
  <2>. QED
    BY <2>5, <2>8 DEF GuardsHold
<1>5. CASE RequestCrash
  <2>1. \A q \in Clients : Sent(q)' = Sent(q)
    BY <1>5, Crashes DEF InFlight, Sent
  <2>. QED
    BY <1>0, <1>5, <2>1, Crashes DEF GuardsHold, RetriesWait, StaleStaysStale, Has
<1>6. CASE UNCHANGED requestVars
  BY <1>0, <1>6 DEF requestVars, GuardsHold, RetriesWait, StaleStaysStale, Has, Sent
<1>. QED
  BY <1>1, <1>2, <1>3, <1>4, <1>5, <1>6 DEF RequestNext, Handle

LEMMA GuardsInvariant == RequestSpec => [](RequestsTyped /\ GuardsHold)
<1>1. RequestInit => GuardsHold
  BY DEF RequestInit, GuardsHold, RetriesWait, StaleStaysStale, Sent
<1>. QED
  BY <1>1, GuardsStay, RequestsTypedInvariant, PTL DEF RequestSpec

\* A retry sent after the answer to its key was stored makes no second row
\* (ADR 0006), whatever else is in flight under that key.
THEOREM RetriesMakeNoRow == RequestSpec => []RetryMakesNoRow
<1>1. RequestsTyped /\ GuardsHold => RetryMakesNoRow
  <2> SUFFICES ASSUME RequestsTyped, GuardsHold, NEW r \in made, Has(r, "replay"), r \notin early
               PROVE  FALSE
    BY DEF RetryMakesNoRow
  <2>1. r \in Clients /\ Sent(r)
    BY DEF RequestsTyped, RequestTypeOK, UnsentIsIdle
  <2>. QED
    BY <2>1 DEF GuardsHold, RetriesWait
<1>. QED
  BY <1>1, GuardsInvariant, PTL

\* No request with an ETag in If-Match changes a row of which its sender had not
\* seen everything that was written before it was sent (lib/etag.ts).
THEOREM OverwritesAreInformed == RequestSpec => []NoBlindOverwrite
<1>1. RequestsTyped /\ GuardsHold => NoBlindOverwrite
  <2> SUFFICES ASSUME RequestsTyped, GuardsHold, NEW r \in wrote, Has(r, "match"),
                      call[r].tag # Anything, r \notin informed
               PROVE  FALSE
    BY DEF NoBlindOverwrite
  <2>1. r \in Clients /\ Sent(r)
    BY DEF RequestsTyped, RequestTypeOK, UnsentIsIdle
  <2>. QED
    BY <2>1 DEF GuardsHold, StaleStaysStale
<1>. QED
  BY <1>1, GuardsInvariant, PTL

-----------------------------------------------------------------------------
(* Pages: the first rows of a finite table *)

PageRows ==
    /\ list \in SoundLists
    /\ Present \subseteq RowIds /\ \A a \in Present : rank[a] \in Ranks
    /\ cursor \in [id : RowIds \cup {0}, rank : Ranks \cup {0, 1}]
    /\ listed \in [RowIds -> Nat]
    /\ changes \in 0..MaxChanges
    /\ steady \subseteq Present

LEMMA IdsAreNumbers ==
  /\ \A a \in RowIds : a \in Nat /\ a > 0
  /\ \A k \in Ranks : k \in Nat
<1>1. RowIds \subseteq Nat \ {0} /\ Ranks \subseteq Nat
  BY RowIdsAssumption
<1>2. ASSUME NEW a \in RowIds PROVE a \in Nat /\ a > 0
  <2>1. a \in Nat \ {0}
    BY <1>1
  <2>. QED
    BY <2>1
<1>. QED
  BY <1>1, <1>2

\* The rows of F that come before one.
Before(F, a) == {b \in F : Precedes(b, a)}

LEMMA SoundIs ==
  ASSUME PageRows
  PROVE  /\ list.cut = FALSE
         /\ \/ list.sort = "id" /\ list.cursor = "id"
            \/ list.sort = "rank" /\ list.cursor = "both"
BY DEF PageRows, SoundLists, ById, ListUsers, ListAssetIssues, ListAssetScanHistory,
  ListVulnerabilityDataImports, ListNotificationEvents, ListAssetGroups, ListExceptions,
  ListIntelImports, ListIssues, ListGlobalStops, ListAuditEntries, ListBackups, ListReports,
  ListScanRuns, ListScanRunTargets, ListAuthorizedScopes, ListExclusionRules

\* Ids differ, so the rows of a list are in a total order.
LEMMA PrecedesOrders ==
  ASSUME PageRows, NEW a \in Present, NEW b \in Present, NEW c \in Present
  PROVE  /\ ~Precedes(a, a)
         /\ a = b \/ Precedes(a, b) \/ Precedes(b, a)
         /\ ~(Precedes(a, b) /\ Precedes(b, a))
         /\ Precedes(a, b) /\ Precedes(b, c) => Precedes(a, c)
<1>1. /\ rank[a] \in Nat /\ rank[b] \in Nat /\ rank[c] \in Nat
      /\ a \in Nat /\ b \in Nat /\ c \in Nat
  BY RowIdsAssumption DEF PageRows
<1>. QED
  BY <1>1, SoundIs DEF Precedes

LEMMA TableIsFinite ==
  ASSUME PageRows, NEW F \in SUBSET Present
  PROVE  /\ IsFiniteSet(F)
         /\ \A a : IsFiniteSet(Before(F, a)) /\ Cardinality(Before(F, a)) \in Nat
<1>1. IsFiniteSet(F)
  BY RowIdsAssumption, FS_Subset DEF PageRows
<1>2. ASSUME NEW a PROVE IsFiniteSet(Before(F, a)) /\ Cardinality(Before(F, a)) \in Nat
  <2>1. Before(F, a) \in SUBSET F
    BY DEF Before
  <2>. QED
    BY <1>1, <2>1, FS_Subset, FS_CardinalityType
<1>. QED
  BY <1>1, <1>2

\* A row has fewer before it than one that it precedes.
LEMMA FewerBefore ==
  ASSUME PageRows, NEW F \in SUBSET Present, NEW a \in F, NEW b \in F, Precedes(b, a)
  PROVE  Cardinality(Before(F, b)) < Cardinality(Before(F, a))
<1>1. /\ IsFiniteSet(Before(F, b)) /\ IsFiniteSet(Before(F, a))
      /\ Cardinality(Before(F, a)) \in Nat /\ Cardinality(Before(F, b)) \in Nat
  BY TableIsFinite
<1>2. b \notin Before(F, b)
  BY PrecedesOrders DEF Before
<1>3. Before(F, b) \cup {b} \in SUBSET Before(F, a)
  BY PrecedesOrders DEF Before
<1>4. Cardinality(Before(F, b) \cup {b}) = Cardinality(Before(F, b)) + 1
  BY <1>1, <1>2, FS_AddElement
<1>5. Cardinality(Before(F, b) \cup {b}) <= Cardinality(Before(F, a))
  BY <1>1, <1>3, FS_Subset
<1>. QED
  BY <1>1, <1>4, <1>5

\* Of some subsets of a finite set one has no other inside it.
LEMMA SmallestOf ==
  ASSUME NEW F, IsFiniteSet(F), NEW D, D # {}, NEW P \in [D -> SUBSET F]
  PROVE  \E a \in D : \A b \in D : P[b] \subseteq P[a] => P[b] = P[a]
<1>. DEFINE T == {P[a] : a \in D}
<1>1. IsWellFoundedOn(StrictSubsetOrdering(F), SUBSET F)
  BY FS_StrictSubsetOrderingWellFounded, FS_FiniteSubsetsOfFinite
<1>2. T \subseteq SUBSET F /\ T # {}
  OBVIOUS
<1>3. PICK B \in T : \A C \in T : <<C, B>> \notin StrictSubsetOrdering(F)
  <2>. HIDE DEF T
  <2>. QED
    BY <1>1, <1>2, WFMin
<1>4. PICK a \in D : B = P[a]
  OBVIOUS
<1>5. ASSUME NEW b \in D, P[b] \subseteq P[a], P[b] # P[a] PROVE FALSE
  BY <1>2, <1>3, <1>4, <1>5 DEF StrictSubsetOrdering
<1>. QED
  BY <1>5

\* Some row comes first, and some row last.
LEMMA SomeFirst ==
  ASSUME PageRows, NEW D \in SUBSET Present, D # {}
  PROVE  \E a \in D : \A b \in D \ {a} : Precedes(a, b)
<1>. DEFINE P == [a \in D |-> Before(D, a)]
<1>1. P \in [D -> SUBSET D]
  BY DEF Before
<1>2. IsFiniteSet(D)
  BY TableIsFinite
<1>3. PICK a \in D : \A b \in D : P[b] \subseteq P[a] => P[b] = P[a]
  <2>. HIDE DEF P
  <2>. QED
    BY <1>1, <1>2, SmallestOf
<1>4. ASSUME NEW b \in D \ {a}, ~Precedes(a, b) PROVE FALSE
  <2>1. Precedes(b, a)
    BY <1>4, PrecedesOrders
  <2>2. Before(D, b) \subseteq Before(D, a)
    BY <2>1, PrecedesOrders DEF Before
  <2>3. b \in Before(D, a) /\ b \notin Before(D, b)
    BY <2>1, PrecedesOrders DEF Before
  <2>. QED
    BY <1>3, <2>2, <2>3
<1>. QED
  BY <1>4

LEMMA SomeLast ==
  ASSUME PageRows, NEW D \in SUBSET Present, D # {}
  PROVE  LastOf(D) \in D /\ \A b \in D \ {LastOf(D)} : Precedes(b, LastOf(D))
<1>. DEFINE After(a) == {b \in D : Precedes(a, b)}
            P == [a \in D |-> After(a)]
<1>1. P \in [D -> SUBSET D]
  OBVIOUS
<1>2. IsFiniteSet(D)
  BY TableIsFinite
<1>3. PICK a \in D : \A b \in D : P[b] \subseteq P[a] => P[b] = P[a]
  <2>. HIDE DEF P
  <2>. QED
    BY <1>1, <1>2, SmallestOf
<1>4. ASSUME NEW b \in D \ {a}, ~Precedes(b, a) PROVE FALSE
  <2>1. Precedes(a, b)
    BY <1>4, PrecedesOrders
  <2>2. After(b) \subseteq After(a)
    BY <2>1, PrecedesOrders
  <2>3. b \in After(a) /\ b \notin After(b)
    BY <2>1, PrecedesOrders
  <2>. QED
    BY <1>3, <2>2, <2>3
<1>. QED
  BY <1>4 DEF LastOf

\* What precedes one of the first rows is one of them, and they precede the rest.
LEMMA FirstAreBefore ==
  ASSUME PageRows, NEW F \in SUBSET Present, NEW n \in Nat,
         NEW a \in FirstOf(F, n), NEW b \in F
  PROVE  /\ Precedes(b, a) => b \in FirstOf(F, n)
         /\ b \notin FirstOf(F, n) => Precedes(a, b)
<1>1. a \in F /\ Cardinality(Before(F, a)) < n
  BY DEF FirstOf, Before
<1>2. /\ Cardinality(Before(F, a)) \in Nat /\ Cardinality(Before(F, b)) \in Nat
  BY TableIsFinite
<1>3. Precedes(b, a) => Cardinality(Before(F, b)) < n
  BY <1>1, <1>2, FewerBefore
<1>4. Precedes(b, a) => b \in FirstOf(F, n)
  BY <1>3 DEF FirstOf, Before
<1>. QED
  BY <1>1, <1>4, PrecedesOrders

\* The first rows of the first rows.
LEMMA FirstOfFirst ==
  ASSUME PageRows, NEW F \in SUBSET Present, NEW n \in Nat
  PROVE  FirstOf(FirstOf(F, n + 1), n) = FirstOf(F, n)
<1>. DEFINE G == FirstOf(F, n + 1)
<1>1. G \subseteq F /\ n + 1 \in Nat
  BY DEF FirstOf
<1>2. ASSUME NEW a \in G PROVE Before(G, a) = Before(F, a)
  BY <1>1, <1>2, FirstAreBefore DEF Before
<1>3. FirstOf(F, n) \subseteq G
  <2>1. \A a \in F : Cardinality(Before(F, a)) \in Nat
    BY TableIsFinite
  <2>2. \A a \in F : Cardinality(Before(F, a)) < n => Cardinality(Before(F, a)) < n + 1
    BY <2>1
  <2>. QED
    BY <2>2 DEF FirstOf, Before
<1>4. FirstOf(F, n) = {a \in F : Cardinality(Before(F, a)) < n}
  BY DEF FirstOf, Before
<1>5. FirstOf(G, n) = {a \in G : Cardinality(Before(G, a)) < n}
  BY DEF FirstOf, Before
<1>. HIDE DEF G
<1>6. FirstOf(G, n) = FirstOf(F, n)
  BY <1>1, <1>2, <1>3, <1>4, <1>5
<1>. QED
  BY <1>6 DEF G

\* When some row does not fit, the one more row that is fetched is there.
LEMMA OneMoreIsFetched ==
  ASSUME PageRows, NEW F \in SUBSET Present, NEW n \in Nat, F # FirstOf(F, n)
  PROVE  FirstOf(F, n + 1) # FirstOf(F, n)
<1>. DEFINE D == F \ FirstOf(F, n)
<1>1. D \in SUBSET Present /\ D # {}
  BY DEF FirstOf
<1>2. PICK m \in D : \A b \in D \ {m} : Precedes(m, b)
  <2>. HIDE DEF D
  <2>. QED
    BY <1>1, SomeFirst
<1>3. m \in F /\ m \notin FirstOf(F, n)
  OBVIOUS
<1>. DEFINE B == Before(F, m)
            g == [b \in B |-> Cardinality(Before(F, b)) + 1]
<1>4. B \subseteq FirstOf(F, n) /\ B \subseteq F
  <2> SUFFICES ASSUME NEW b \in B, b \notin FirstOf(F, n) PROVE FALSE
    BY DEF Before
  <2>1. b \in D /\ Precedes(b, m) /\ b \in Present /\ m \in Present
    BY DEF Before
  <2>2. b # m
    BY <2>1, PrecedesOrders
  <2>. QED
    BY <1>2, <2>1, <2>2, PrecedesOrders
<1>5. g \in [B -> 1..n]
  <2>1. \A b \in B : Cardinality(Before(F, b)) < n
    BY <1>4 DEF FirstOf, Before
  <2>2. \A b \in B : Cardinality(Before(F, b)) \in Nat
    BY TableIsFinite
  <2>3. \A b \in B : Cardinality(Before(F, b)) + 1 \in 1..n
    BY <2>1, <2>2
  <2>. QED
    BY <2>3
<1>6. ASSUME NEW b \in B, NEW c \in B, g[b] = g[c] PROVE b = c
  <2>1. Cardinality(Before(F, b)) \in Nat /\ Cardinality(Before(F, c)) \in Nat
    BY TableIsFinite
  <2>2. Cardinality(Before(F, b)) = Cardinality(Before(F, c))
    BY <1>6, <2>1
  <2>3. b \in F /\ c \in F /\ b \in Present /\ c \in Present
    BY <1>4
  <2>4. ~Precedes(b, c) /\ ~Precedes(c, b)
    BY <2>1, <2>2, <2>3, FewerBefore
  <2>. QED
    BY <2>3, <2>4, PrecedesOrders
<1>7. Cardinality(B) <= n
  <2>1. g \in Injection(B, 1..n)
    BY <1>5, <1>6 DEF Injection, IsInjective
  <2>2. IsFiniteSet(1..n) /\ Cardinality(1..n) = n
    <3>1. IsFiniteSet(1..n) /\ Cardinality(1..n) = IF 1 > n THEN 0 ELSE n - 1 + 1
      BY FS_Interval
    <3>. QED
      BY <3>1
  <2>. HIDE DEF g, B
  <2>3. Cardinality(B) <= Cardinality(1..n)
    BY <2>1, <2>2, FS_Injection
  <2>. QED
    BY <2>2, <2>3
<1>8. Cardinality(B) < n + 1
  <2>1. Cardinality(B) \in Nat
    BY TableIsFinite
  <2>. HIDE DEF B
  <2>. QED
    BY <1>7, <2>1
<1>9. m \in FirstOf(F, n + 1)
  BY <1>3, <1>8 DEF FirstOf, Before
<1>. QED
  BY <1>3, <1>9

-----------------------------------------------------------------------------
(* Pages: the walk *)

\* A row is listed before the cursor passes it, and never again.
WalkIsExact ==
    \A a \in steady :
      listed[a] = IF cursor # End /\ Follows(a) THEN 0 ELSE 1

WalkInv == PageRows /\ WalkIsExact

\* The cursor of a row is neither the start nor the end of a walk.
LEMMA PositionIs ==
  ASSUME PageRows, NEW l \in Present
  PROVE  /\ PositionOf(l) # End
         /\ PositionOf(l) \in [id : RowIds \cup {0}, rank : Ranks \cup {0, 1}]
         /\ PositionOf(l).id = l /\ PositionOf(l).rank = rank[l]
<1>1. l \in RowIds /\ l \in Nat \ {0} /\ rank[l] \in Ranks
  BY RowIdsAssumption DEF PageRows
<1>2. PositionOf(l).id = l /\ PositionOf(l).rank = rank[l]
  BY DEF PositionOf
<1>3. PositionOf(l) # End
  BY <1>1, <1>2 DEF End
<1>. QED
  BY <1>1, <1>2, <1>3 DEF PositionOf

\* Where the cursor of a row stands in the list.
LEMMA FollowsPosition ==
  ASSUME PageRows, NEW l \in Present, NEW a \in Present
  PROVE  /\ cursor = PositionOf(l) => (Follows(a) <=> Precedes(l, a))
         /\ Follows(l) /\ ~Follows(a) => Precedes(a, l)
<1>1. rank[a] \in Nat /\ rank[l] \in Nat /\ a \in Nat /\ l \in Nat
  BY RowIdsAssumption DEF PageRows
<1>2. cursor.id \in Nat /\ cursor.rank \in Nat
  <2>1. cursor.id \in RowIds \cup {0} /\ cursor.rank \in Ranks \cup {0, 1}
    BY DEF PageRows
  <2>. QED
    BY <2>1, IdsAreNumbers
<1>3. PositionOf(l).id = l /\ PositionOf(l).rank = rank[l]
  BY PositionIs
<1>4. CASE list.sort = "id" /\ list.cursor = "id"
  BY <1>1, <1>2, <1>3, <1>4 DEF Follows, Precedes
<1>5. CASE list.sort = "rank" /\ list.cursor = "both"
  BY <1>1, <1>2, <1>3, <1>5 DEF Follows, Precedes
<1>. QED
  BY <1>4, <1>5, SoundIs

\* A page and its cursor cut the rows that follow in two.
LEMMA PageCuts ==
  ASSUME PageRows, NextPage, NEW a \in Present
  PROVE  /\ cursor' \in [id : RowIds \cup {0}, rank : Ranks \cup {0, 1}]
         /\ listed'[a] = listed[a] + (IF Follows(a) /\ (cursor' # End => ~Follows(a)')
                                      THEN 1 ELSE 0)
         /\ cursor' # End /\ ~Follows(a) => ~Follows(a)'
<1>. DEFINE F == {b \in Present : Follows(b)}
            rows == FirstOf(F, PageLimit + 1)
            page == FirstOf(rows, PageLimit)
            l == LastOf(page)
<1>1. /\ listed' = [b \in RowIds |-> listed[b] + (IF b \in page THEN 1 ELSE 0)]
      /\ cursor' = IF HasMore(rows) THEN PositionOf(l) ELSE End
      /\ UNCHANGED <<list, rank, changes, steady>>
  BY SoundIs DEF NextPage, Fetch, NextCursor
<1>2. PageLimit \in Nat /\ PageLimit > 0
  BY PageAssumption
<1>3. page = FirstOf(F, PageLimit)
  BY <1>2, FirstOfFirst
<1>4. a \in RowIds /\ listed'[a] = listed[a] + (IF a \in page THEN 1 ELSE 0)
  <2>1. a \in RowIds
    BY DEF PageRows
  <2>. QED
    BY <1>1, <2>1
<1>5. HasMore(rows) <=> F # page
  <2>1. HasMore(rows) <=> rows # page
    BY DEF HasMore
  <2>2. F # page => rows # page
    BY <1>2, <1>3, OneMoreIsFetched
  <2>3. F = page => rows = F
    <3>1. \A b \in F : Cardinality(Before(F, b)) \in Nat
      BY TableIsFinite
    <3>2. ASSUME F = page, NEW b \in F PROVE b \in rows
      <4>1. Cardinality(Before(F, b)) < PageLimit
        BY <1>3, <3>2 DEF FirstOf, Before
      <4>2. Cardinality(Before(F, b)) < PageLimit + 1
        BY <1>2, <3>1, <4>1
      <4>. QED
        BY <4>2 DEF FirstOf, Before
    <3>. QED
      BY <3>2 DEF FirstOf
  <2>. QED
    BY <2>1, <2>2, <2>3
<1>6. CASE ~HasMore(rows)
  <2>1. cursor' = End /\ (a \in page <=> Follows(a))
    BY <1>1, <1>5, <1>6
  <2>2. End \in [id : RowIds \cup {0}, rank : Ranks \cup {0, 1}]
    BY DEF End
  <2>. QED
    BY <1>4, <2>1, <2>2
<1>7. CASE HasMore(rows)
  <2>1. page \in SUBSET Present /\ F \in SUBSET Present /\ page \subseteq F
    BY <1>3 DEF FirstOf
  <2>2. page # {}
    <3>1. F # {}
      BY <1>5, <1>7, <2>1
    <3>2. PICK b \in F : \A c \in F \ {b} : Precedes(b, c)
      BY <2>1, <3>1, SomeFirst
    <3>3. Before(F, b) = {}
      BY <2>1, <3>2, PrecedesOrders DEF Before
    <3>4. Cardinality(Before(F, b)) < PageLimit
      BY <1>2, <3>3, FS_EmptySet
    <3>. QED
      BY <1>3, <3>4 DEF FirstOf, Before
  <2>. HIDE DEF page, F, rows
  <2>3. l \in page /\ \A b \in page \ {l} : Precedes(b, l)
    BY <2>1, <2>2, SomeLast
  <2>4. l \in Present /\ l \in F /\ Follows(l)
    BY <2>1, <2>3 DEF F
  <2>. HIDE DEF l
  <2>5. cursor' = PositionOf(l) /\ cursor' # End
    BY <1>1, <1>7, <2>4, PositionIs
  <2>6. Follows(a)' <=> Precedes(l, a)
    <3>1. /\ rank[a] \in Nat /\ rank[l] \in Nat /\ a \in Nat /\ l \in Nat
      BY <2>4, RowIdsAssumption DEF PageRows
    <3>2. cursor'.id = l /\ cursor'.rank = rank[l]
      BY <2>4, <2>5, PositionIs
    <3>. QED
      BY <1>1, <3>1, <3>2, SoundIs DEF Follows, Precedes
  <2>7. a \in page <=> Follows(a) /\ ~Precedes(l, a)
    <3>1. a \in page => Follows(a) /\ ~Precedes(l, a)
      BY <2>1, <2>3, <2>4, PrecedesOrders DEF F
    <3>2. Follows(a) /\ a \notin page => Precedes(l, a)
      <4>1. Follows(a) => a \in F
        BY DEF F
      <4>2. l \in FirstOf(F, PageLimit)
        BY <1>3, <2>3
      <4>. QED
        BY <1>2, <1>3, <2>1, <4>1, <4>2, FirstAreBefore
    <3>. QED
      BY <3>1, <3>2
  <2>8. ~Follows(a) => ~Follows(a)'
    BY <2>4, <2>6, FollowsPosition, PrecedesOrders
  <2>9. cursor' \in [id : RowIds \cup {0}, rank : Ranks \cup {0, 1}]
    BY <2>4, <2>5, PositionIs
  <2>. QED
    BY <1>4, <2>5, <2>6, <2>7, <2>8, <2>9
<1>. QED
  BY <1>6, <1>7

LEMMA WalkInvariant == ASSUME Lists \subseteq SoundLists PROVE PageSpec => []WalkInv
<1>1. PageInit => WalkInv
  <2> SUFFICES ASSUME PageInit PROVE WalkInv
    OBVIOUS
  <2>1. PICK there \in SUBSET RowIds : rank \in [there -> Ranks]
    BY DEF PageInit
  <2>2. PageRows
    BY <2>1, PageAssumption DEF PageInit, PageRows, Present, Start
  <2>3. \A a \in Present : Follows(a)
    <3> SUFFICES ASSUME NEW a \in Present PROVE Follows(a)
      OBVIOUS
    <3>1. rank[a] \in Nat /\ a \in Nat /\ a > 0
      <4>1. a \in RowIds /\ rank[a] \in Ranks
        BY <2>2 DEF PageRows
      <4>. QED
        BY <4>1, IdsAreNumbers
    <3>2. cursor.id = 0 /\ cursor.rank = 0
      BY DEF PageInit, Start
    <3>3. CASE list.cursor = "id"
      BY <3>1, <3>2, <3>3 DEF Follows
    <3>4. CASE list.cursor = "both"
      BY <3>1, <3>2, <3>4 DEF Follows
    <3>. QED
      BY <2>2, <3>3, <3>4, SoundIs
  <2>4. cursor # End
    BY DEF PageInit, Start, End
  <2>5. WalkIsExact
    BY <2>2, <2>3, <2>4 DEF PageInit, WalkIsExact, PageRows
  <2>. QED
    BY <2>2, <2>5 DEF WalkInv
<1>2. WalkInv /\ [PageNext]_pageVars => WalkInv'
  <2> SUFFICES ASSUME WalkInv, [PageNext]_pageVars PROVE WalkInv'
    OBVIOUS
  <2>0. PageRows /\ WalkIsExact
    BY DEF WalkInv
  <2>1. CASE NextPage
    <3>1. UNCHANGED <<list, rank, changes, steady>> /\ cursor # End /\ Present' = Present
      BY <2>1 DEF NextPage, Present
    <3>2. listed' \in [RowIds -> Nat]
      BY <2>0, <2>1 DEF NextPage, PageRows
    <3>3. PageRows'
      <4>1. cursor' \in [id : RowIds \cup {0}, rank : Ranks \cup {0, 1}]
        <5>1. CASE Present = {}
          <6>1. \A n : FirstOf({}, n) = {}
            BY DEF FirstOf
          <6>2. {a \in Present : Follows(a)} = {}
            BY <5>1
          <6>3. cursor' = End
            BY <2>1, <6>1, <6>2 DEF NextPage, Fetch, NextCursor, HasMore
          <6>. QED
            BY <6>3 DEF End
        <5>2. ASSUME NEW a \in Present
              PROVE  cursor' \in [id : RowIds \cup {0}, rank : Ranks \cup {0, 1}]
          BY <2>0, <2>1, PageCuts
        <5>. QED
          BY <5>1, <5>2
      <4>. QED
        BY <2>0, <3>1, <3>2, <4>1 DEF PageRows
    <3>4. WalkIsExact'
      <4> SUFFICES ASSUME NEW a \in steady
                   PROVE  listed'[a] = IF cursor' # End /\ Follows(a)' THEN 0 ELSE 1
        BY <3>1 DEF WalkIsExact
      <4>1. a \in Present /\ listed[a] = IF Follows(a) THEN 0 ELSE 1
        BY <2>0, <3>1 DEF WalkIsExact, PageRows
      <4>2. /\ listed'[a] = listed[a] + (IF Follows(a) /\ (cursor' # End => ~Follows(a)')
                                         THEN 1 ELSE 0)
            /\ cursor' # End /\ ~Follows(a) => ~Follows(a)'
        BY <2>0, <2>1, <4>1, PageCuts
      <4>. QED
        BY <4>1, <4>2
    <3>. QED
      BY <3>3, <3>4 DEF WalkInv
  <2>2. ASSUME NEW r \in RowIds, InsertRow(r) PROVE WalkInv'
    <3>1. PICK k \in Ranks :
            rank' = [b \in Present \cup {r} |-> IF b = r THEN k ELSE rank[b]]
      BY <2>2 DEF InsertRow
    <3>2. /\ r \notin Present /\ UNCHANGED <<list, cursor, listed, steady>>
          /\ changes' \in 0..MaxChanges
      BY <2>0, <2>2, PageAssumption DEF InsertRow, Changing, PageRows
    <3>3. /\ Present' = Present \cup {r} /\ rank'[r] = k
          /\ \A a \in Present : rank'[a] = rank[a]
      BY <3>1, <3>2 DEF Present
    <3>4. PageRows'
      BY <2>0, <3>2, <3>3 DEF PageRows
    <3>5. \A a \in steady : Follows(a)' = Follows(a)
      BY <2>0, <3>2, <3>3 DEF PageRows, Follows
    <3>6. WalkIsExact'
      BY <2>0, <3>2, <3>5 DEF WalkIsExact
    <3>. QED
      BY <3>4, <3>6 DEF WalkInv
  <2>3. ASSUME NEW r \in RowIds, RemoveRow(r) PROVE WalkInv'
    <3>1. /\ UNCHANGED <<list, cursor, listed>> /\ steady' = steady \ {r}
          /\ changes' \in 0..MaxChanges
          /\ rank' = [b \in Present \ {r} |-> rank[b]]
      BY <2>0, <2>3, PageAssumption DEF RemoveRow, Changing, PageRows
    <3>2. /\ Present' = Present \ {r}
          /\ \A a \in Present \ {r} : rank'[a] = rank[a]
      BY <3>1 DEF Present
    <3>3. PageRows'
      BY <2>0, <3>1, <3>2 DEF PageRows
    <3>4. \A a \in steady' : a \in steady /\ Follows(a)' = Follows(a)
      BY <2>0, <3>1, <3>2 DEF PageRows, Follows
    <3>5. WalkIsExact'
      BY <2>0, <3>1, <3>4 DEF WalkIsExact
    <3>. QED
      BY <3>3, <3>5 DEF WalkInv
  <2>4. ASSUME NEW r \in RowIds, RankRow(r) PROVE WalkInv'
    <3>1. PICK k \in Ranks : rank' = [rank EXCEPT ![r] = k]
      BY <2>4 DEF RankRow
    <3>2. /\ UNCHANGED <<list, cursor, listed>> /\ steady' = steady \ {r} /\ r \in Present
          /\ changes' \in 0..MaxChanges
      BY <2>0, <2>4, PageAssumption DEF RankRow, Changing, PageRows
    <3>3. /\ Present' = Present /\ rank'[r] \in Ranks
          /\ \A a \in Present \ {r} : rank'[a] = rank[a]
      BY <3>1, <3>2 DEF Present
    <3>4. PageRows'
      BY <2>0, <3>2, <3>3 DEF PageRows
    <3>5. \A a \in steady' : a \in steady /\ Follows(a)' = Follows(a)
      BY <2>0, <3>2, <3>3 DEF PageRows, Follows
    <3>6. WalkIsExact'
      BY <2>0, <3>2, <3>5 DEF WalkIsExact
    <3>. QED
      BY <3>4, <3>6 DEF WalkInv
  <2>5. CASE UNCHANGED pageVars
    BY <2>0, <2>5 DEF pageVars, WalkInv, PageRows, WalkIsExact, Follows, Present
  <2>. QED
    BY <2>1, <2>2, <2>3, <2>4, <2>5 DEF PageNext
<1>. QED
  BY <1>1, <1>2, PTL DEF PageSpec

\* lib/pagination.ts: while rows come, go and change their rank, a walk of any
\* list but the two unsound ones lists each row that stays exactly once,
\* whatever the limit.
THEOREM WalksAreExact ==
  ASSUME Lists \subseteq SoundLists
  PROVE  PageSpec => []WalkSeesEveryRow
<1>1. WalkInv => WalkSeesEveryRow
  BY DEF WalkInv, WalkIsExact, WalkSeesEveryRow
<1>. QED
  BY <1>1, WalkInvariant, PTL

\* Every variable of a walk keeps its type.
THEOREM PageTypeCorrect == ASSUME Lists \subseteq SoundLists PROVE PageSpec => []PageTypeOK
<1>1. PageInit => list \in Lists
  BY DEF PageInit
<1>2. list \in Lists /\ [PageNext]_pageVars => (list \in Lists)'
  BY DEF PageNext, NextPage, InsertRow, RemoveRow, RankRow, Changing, pageVars
<1>3. WalkInv /\ list \in Lists => PageTypeOK
  BY DEF WalkInv, PageRows, PageTypeOK
<1>. QED
  BY <1>1, <1>2, <1>3, WalkInvariant, PTL DEF PageSpec

=============================================================================
