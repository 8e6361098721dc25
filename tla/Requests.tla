------------------------------ MODULE Requests ------------------------------
(***************************************************************************)
(* The API's handlers that write, two at a time.  A handler is the         *)
(* sequence of its awaits; an await is the set of the effects that commit  *)
(* together in it, a transaction being one await.  Between two awaits the  *)
(* other request goes on, or the API dies.                                 *)
(*                                                                         *)
(* One row exists in the first state; its content is a number, new with    *)
(* every UPDATE, and so is the ETag of a representation.  What a handler   *)
(* looks up in other tables, and the fields it validates, is a choice to   *)
(* go on or to refuse; the audit entry of a refusal is left out.           *)
(***************************************************************************)
EXTENDS Integers, FiniteSets, Sequences

CONSTANTS
    Clients,          \* requests, each sent once; a retry is another one
    IdempotencyKeys,             \* Idempotency-Key headers
    MaxRequestFaults  \* bound on crashes of the API

ASSUME RequestFaultsAssumption == MaxRequestFaults \in Nat

(***************************************************************************)
(* Effects.  Reads: find the row (404), match its ETag with If-Match       *)
(* (409), maybe do so when the header is sent, current (409 unless nothing *)
(* took the row yet), look elsewhere, replay the stored answer, ongoing    *)
(* (answer with the row of another request).  Writes: insert a row, unique *)
(* in its column, join to the row, update, claim (UPDATE ... WHERE nothing *)
(* took it), touch (what the ETag may leave out), remove, elsewhere (other *)
(* tables), audit, reread (500 when the row is gone), store the answer,    *)
(* tag (answer with the ETag of the row).                                  *)
(***************************************************************************)

\* Mutant: the answer is stored before the entry is written.
StoredFirst == <<{"replay"}, {"insert"}, {"store"}, {"audit"}>>
\* A POST with Idempotency-Key, the reread of its own row left out.
Created == <<{"replay"}, {"insert"}, {"audit"}, {"store"}>>

\* A POST that looks elsewhere first.
CheckedThen(steps) == <<{"replay"}, {"look"}>> \o steps

\* A PATCH with If-Match, and one without.
Edited == <<{"find", "match"}, {"update"}, {"audit"}, {"reread"}>>
EditedUnmatched == <<{"find"}, {"update"}, {"audit"}, {"reread"}>>

Deleted == <<{"find"}, {"remove"}, {"audit"}>>

\* A GET of one row, with its ETag.
Read == <<{"find", "tag"}>>

(* scheduling.ts *)
GetScanProfile == Read
GetPacingCeilings == Read
GetScanSchedule == Read
CreateScanProfile == CheckedThen(<<{"insert"}, {"audit"}, {"store"}>>)
UpdateScanProfile == <<{"find", "match"}, {"look"}, {"update"}, {"audit"}, {"reread"}>>
UpdatePacingCeilings == Edited
CreateBlackoutWindow == Created
UpdateBlackoutWindow == EditedUnmatched
DeleteBlackoutWindow == Deleted
CreateScanSchedule == Created
UpdateScanSchedule == EditedUnmatched
DeleteScanSchedule == Deleted

(* scope.ts *)
GetExclusionRule == Read
CreateAuthorizedScope == Created
SupersedeAuthorizedScope ==
    <<{"replay"}, {"find", "current"}, {"insert", "claim"}, {"audit"}, {"audit"}, {"store"}>>
CreateExclusionRule == Created
UpdateExclusionRule == Edited

(* administration.ts *)
GetUser == Read
GetOrganization == Read
CreateUser == <<{"look"}, {"insert", "unique"}, {"audit"}>>
UpdateUser == Edited
DeactivateUser == <<{"find"}, {"update"}, {"elsewhere"}, {"audit"}>>
UpdateOrganization == Edited
UpdateFeatureFlag == EditedUnmatched

(* saved-views.ts; the owner is a field of the row *)
GetSavedView == Read
CreateSavedView == Created
UpdateSavedView == Edited
DeleteSavedView == Deleted

(* assets.ts *)
\* The nested collections are read in a second await and are in the ETag; no
\* PATCH changes them.
GetAsset == Read
UpdateAsset == <<{"find", "match"}, {"look"}, {"update"}, {"audit"}, {"reread"}>>

(* catalog.ts *)
UpdateFragileDeviceRule == <<{"find"}, {"update"}, {"audit"}>>
CreateSlaPolicyMatrix == CheckedThen(<<{"elsewhere", "insert", "audit"}, {"store"}>>)
CreateRiskScoringPolicy == CheckedThen(<<{"elsewhere", "insert", "audit"}, {"store"}>>)
DeleteNotificationChannel == <<{"find"}, {"update"}, {"audit"}>>
GetAssetGroup == Read
CreateAssetGroup == Created
UpdateAssetGroup == <<{"find"}, {"maybe"}, {"touch"}, {"audit"}, {"reread"}>>
DeleteAssetGroup == Deleted
AddAssetGroupMember == <<{"find"}, {"join", "update"}, {"audit"}>>
RemoveAssetGroupMember == <<{"update"}, {"audit"}>>

(* ops.ts *)
GetRetentionPolicy == Read
UpdateRetentionPolicy == Edited
CreateBackup == Created
\* No GET answers with the ETag of a channel, but these do.
CreateNotificationChannel == <<{"replay"}, {"insert"}, {"audit"}, {"store", "tag"}>>
UpdateNotificationChannel == <<{"find", "match"}, {"update"}, {"audit"}, {"reread", "tag"}>>
ExportAuditEntries == <<{"look"}, {"audit"}>>

(* reports.ts, exceptions.ts, intel.ts, issues.ts, evidence.ts *)
CreateReport == Created
CreateException == CheckedThen(<<{"insert"}, {"audit"}, {"store"}>>)
CreateIntelSync ==
    <<{"replay"}, {"look"}, {"ongoing"}, {"insert"}, {"audit"}, {"store"}>>
GetIntelSettings == Read
UpdateIntelSettings == <<{"find", "match"}, {"update"}, {"audit"}>>
GetIssue == Read
UpdateIssue == <<{"find", "match"}, {"look"}, {"update"}, {"audit"}, {"reread"}>>
TransitionIssue == <<{"find", "match"}, {"look"}, {"update", "audit"}, {"reread"}>>
\* One issue, with no If-Match; of several each has its look and its transaction.
BulkTransitionIssues == CheckedThen(<<{"update", "audit"}, {"store"}>>)
DownloadEvidence == <<{"look"}, {"look"}, {"audit"}>>

(* scans.ts *)
\* The plan is written once the targets are counted.
InsertScanPlan == <<{"insert"}, {"store"}>>
CreateScanPlan == CheckedThen(<<{"look"}>>) \o InsertScanPlan
CreateScanRun ==
    <<{"replay"}, {"find", "current"}, {"look"}, {"update", "insert", "audit"}, {"store"}>>
CreateVerificationScan ==
    CheckedThen(<<{"look"}, {"look"}, {"look"}, {"insert", "audit"}, {"store"}>>)

\* The handlers of one table; requests of different tables do not meet.
Families ==
    {{GetScanProfile, CreateScanProfile, UpdateScanProfile},
     {GetPacingCeilings, UpdatePacingCeilings},
     {CreateBlackoutWindow, UpdateBlackoutWindow, DeleteBlackoutWindow},
     {GetScanSchedule, CreateScanSchedule, UpdateScanSchedule, DeleteScanSchedule},
     {CreateAuthorizedScope, SupersedeAuthorizedScope},
     {GetExclusionRule, CreateExclusionRule, UpdateExclusionRule},
     {GetUser, CreateUser, UpdateUser, DeactivateUser},
     {GetOrganization, UpdateOrganization}, {UpdateFeatureFlag},
     {GetSavedView, CreateSavedView, UpdateSavedView, DeleteSavedView},
     {GetAsset, UpdateAsset}, {UpdateFragileDeviceRule}, {CreateSlaPolicyMatrix},
     {CreateRiskScoringPolicy},
     {CreateNotificationChannel, UpdateNotificationChannel, DeleteNotificationChannel},
     {GetAssetGroup, CreateAssetGroup, UpdateAssetGroup, DeleteAssetGroup,
      AddAssetGroupMember, RemoveAssetGroupMember},
     {GetRetentionPolicy, UpdateRetentionPolicy}, {CreateBackup}, {CreateReport},
     {CreateException}, {CreateIntelSync}, {GetIntelSettings, UpdateIntelSettings},
     {GetIssue, UpdateIssue, TransitionIssue, BulkTransitionIssues}, {DownloadEvidence},
     {ExportAuditEntries}, {CreateScanPlan, CreateScanRun}, {CreateVerificationScan}}

-----------------------------------------------------------------------------
VARIABLES
    handlers,       \* the family this behaviour is about
    row, contents,  \* the content of the row, and how many there were
    made,           \* requests that inserted a row of their own
    entries,        \* audit entries of each request
    stored,         \* keys with a stored answer, by handler; Redis
    call,           \* each request: handler, next await, key, If-Match, answer
    requestFaults,
    \* history, read by properties only
    informed,       \* requests sent with the ETag the row then had
    early,          \* requests sent before an answer to their key was stored
    wrote           \* requests that changed the row

requestVars ==
    <<handlers, row, contents, made, entries, stored, call, requestFaults, informed,
      early, wrote>>

Gone == 0
NoTag == 0
Anything == -1    \* If-Match: *

Has(r, effect) == \E n \in 1..Len(call[r].op) : effect \in call[r].op[n]

Doing(r) == call[r].op[call[r].at]

InFlight(r) == call[r].answer = "pending"

\* The handlers that compare by ifMatchSatisfied; to all others a * is one more
\* ETag the row does not have.
KnowsAnything == {TransitionIssue, UpdateAssetGroup} \cap handlers # {}

\* Mutant: stored by key and looked up by request.
ReplayableToItself(r) == <<call[r].op, r>> \in stored
Replayable(r) == <<call[r].op, call[r].key>> \in stored

\* Mutant: the header only has to be there.
MatchesAnything(r) == call[r].tag # NoTag
Matches(r) == call[r].tag \in {row, Anything}

\* What the statement or the comparison refuses by itself.
Fails(r) ==
    \/ Doing(r) \cap {"find", "join", "reread"} # {} /\ row = Gone
    \/ "match" \in Doing(r) /\ ~Matches(r)
    \/ "maybe" \in Doing(r) /\ call[r].tag # NoTag /\ ~Matches(r)
    \/ "current" \in Doing(r) /\ row # 1
    \/ "unique" \in Doing(r) /\ made # {}

\* What may be refused for reasons the model leaves out.
MayRefuse(r) == call[r].at = 1 \/ "look" \in Doing(r)

Concludes(r, a) == call' = [call EXCEPT ![r].answer = a]

-----------------------------------------------------------------------------
RequestInit ==
    /\ handlers \in Families
    /\ row = 1
    /\ contents = 1
    /\ made = {}
    /\ entries = [r \in Clients |-> 0]
    /\ stored = {}
    /\ call = [r \in Clients |-> [op |-> <<>>, at |-> 1, key |-> NoTag, tag |-> NoTag,
                                  answer |-> "unsent"]]
    /\ requestFaults = 0
    /\ informed = {}
    /\ early = {}
    /\ wrote = {}

\* The client keeps the ETag of a GET, or of an answer to a request before.
GetRow(r) ==
    /\ call[r].answer = "unsent"
    /\ \E op \in handlers : "tag" \in op[Len(op)]
    /\ row # Gone
    /\ call' = [call EXCEPT ![r].tag = row]
    /\ UNCHANGED <<handlers, row, contents, made, entries, stored, requestFaults,
                   informed, early, wrote>>

\* A request that writes, of any age of its ETag or with none in particular, with
\* a key of its own or one used before.
Send(r, op, k) ==
    /\ call[r].answer = "unsent"
    /\ op # Read
    /\ \E tag \in {call[r].tag} \cup (IF KnowsAnything THEN {Anything} ELSE {}) :
           call' = [call EXCEPT ![r].op = op, ![r].key = k, ![r].tag = tag,
                                ![r].answer = "pending"]
    /\ informed' = IF call[r].tag = row THEN informed \cup {r} ELSE informed
    /\ early' = IF <<op, k>> \in stored THEN early ELSE early \cup {r}
    /\ UNCHANGED <<handlers, row, contents, made, entries, stored, requestFaults, wrote>>

Refuse(r) ==
    /\ InFlight(r)
    /\ Fails(r) \/ MayRefuse(r)
    /\ Concludes(r, "refused")
    /\ UNCHANGED <<handlers, row, contents, made, entries, stored, requestFaults,
                   informed, early, wrote>>

Replay(r) ==
    /\ InFlight(r)
    /\ "replay" \in Doing(r)
    /\ Replayable(r)
    /\ Concludes(r, "ok")
    /\ UNCHANGED <<handlers, row, contents, made, entries, stored, requestFaults,
                   informed, early, wrote>>

\* The synchronisation another request started is the answer.
FindOngoing(r) ==
    /\ InFlight(r)
    /\ "ongoing" \in Doing(r)
    /\ Concludes(r, "found")
    /\ UNCHANGED <<handlers, row, contents, made, entries, stored, requestFaults,
                   informed, early, wrote>>

\* An UPDATE by id touches nothing when the row is gone.
Writes(r) ==
    \/ row # Gone /\ Doing(r) \cap {"update", "touch", "remove"} # {}
    \/ row = 1 /\ "claim" \in Doing(r)

NewContents(r) ==
    CASE ~Writes(r) -> {row}
      [] Writes(r) /\ "remove" \in Doing(r) -> {Gone}
      [] Writes(r) /\ "touch" \in Doing(r) -> {row, contents + 1}
      [] OTHER -> {contents + 1}

Perform(r) ==
    /\ InFlight(r)
    /\ ~Fails(r)
    /\ "replay" \in Doing(r) => ~Replayable(r)
    /\ row' \in NewContents(r)
    /\ contents' = IF row' > contents THEN row' ELSE contents
    /\ made' = IF "insert" \in Doing(r) THEN made \cup {r} ELSE made
    /\ entries' = [entries EXCEPT ![r] = @ + (IF "audit" \in Doing(r) THEN 1 ELSE 0)]
    /\ stored' = IF "store" \in Doing(r) THEN stored \cup {<<call[r].op, call[r].key>>}
                 ELSE stored
    /\ call' = [call EXCEPT ![r].at = IF @ = Len(call[r].op) THEN @ ELSE @ + 1,
                            ![r].answer = IF call[r].at = Len(call[r].op) THEN "ok"
                                          ELSE "pending"]
    /\ wrote' = IF Writes(r) THEN wrote \cup {r} ELSE wrote
    /\ UNCHANGED <<handlers, requestFaults, informed, early>>

\* Every request in flight ends where it is.
RequestCrash ==
    /\ requestFaults < MaxRequestFaults
    /\ requestFaults' = requestFaults + 1
    /\ \E r \in Clients : InFlight(r)
    /\ call' = [r \in Clients |->
                  IF InFlight(r) THEN [call[r] EXCEPT !.answer = "lost"] ELSE call[r]]
    /\ UNCHANGED <<handlers, row, contents, made, entries, stored, informed, early, wrote>>

Handle(r) ==
    \/ GetRow(r) \/ \E op \in handlers, k \in IdempotencyKeys : Send(r, op, k)
    \/ Refuse(r) \/ Replay(r) \/ FindOngoing(r) \/ Perform(r)

RequestNext == (\E r \in Clients : Handle(r)) \/ RequestCrash

RequestSpec == RequestInit /\ [][RequestNext]_requestVars

-----------------------------------------------------------------------------
(* Properties *)

\* Every variable has its type.
RequestTypeOK ==
    /\ handlers \in Families
    /\ contents \in Nat /\ row \in 0..contents
    /\ made \subseteq Clients /\ informed \subseteq Clients
    /\ early \subseteq Clients /\ wrote \subseteq Clients
    /\ entries \in [Clients -> Nat]
    /\ stored \subseteq handlers \X IdempotencyKeys
    /\ call \in [Clients -> [op : handlers \cup {<<>>}, at : 1..9,
                             key : IdempotencyKeys \cup {NoTag}, tag : 0..contents \cup {Anything},
                             answer : {"unsent", "pending", "ok", "found", "refused", "lost"}]]
    /\ requestFaults \in 0..MaxRequestFaults

AuditSteps(op) == Cardinality({n \in 1..Len(op) : "audit" \in op[n]})

Alike(q, r) ==
    q = r \/ (Has(r, "replay") /\ call[q].op = call[r].op /\ call[q].key = call[r].key)

\* ADR 0006 and the audit trail: whoever is told that a request succeeded, by
\* the request itself or by the answer stored for a retry, can find its
\* entries, although the change, its entry and its answer are written one
\* after the other and the API may die between any two.
AnsweredIsRecorded ==
    \A r \in Clients :
        call[r].answer = "ok" =>
            \E q \in Clients : Alike(q, r) /\ entries[q] = AuditSteps(call[r].op)

\* ADR 0006: a retry sent after an answer was stored for its key makes no
\* second row, whatever else is in flight under that key.
RetryMakesNoRow == \A r \in made : Has(r, "replay") => r \in early

\* lib/etag.ts: no request with an ETag in If-Match changes a row of which its
\* sender had not seen everything that was written before it was sent.  Who sends
\* a * says to have seen nothing.
NoBlindOverwrite ==
    \A r \in wrote : Has(r, "match") /\ call[r].tag # Anything => r \in informed

=============================================================================
