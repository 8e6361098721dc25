---------------------------- MODULE IntelImports ----------------------------
(***************************************************************************)
(* Imports of vulnerability intelligence.  POST /intel/sync leaves a row   *)
(* in "validating"; the worker fetches from NVD and EPSS and applies what  *)
(* it keeps in one transaction.  Every statement either of them awaits is  *)
(* an action, and the switch of FEED-23 may turn between any two.          *)
(*                                                                         *)
(* A poller is one call of pollIntelOnce, as in ScanRuns.  A record is a   *)
(* CVE; what the import says of it is abstracted to which import said it.  *)
(***************************************************************************)
EXTENDS Naturals

CONSTANTS
    Imports,       \* rows of vulnerability_data_imports, one per request
    Records,       \* rows of vulnerabilities
    Pollers,       \* calls of pollIntelOnce that may be in progress together
    NoImport,      \* no import: nothing selected, not superseded, seeded data
    MaxIntelFaults \* bound on crashes and thrown errors in a behaviour

ASSUME NoImportAssumption == NoImport \notin Imports
ASSUME IntelFaultsAssumption == MaxIntelFaults \in Nat

VARIABLES
    \* database
    disabled,      \* intel_settings.online_updates_disabled
    importStatus,  \* status, "none" before the row is inserted
    earlier,       \* the imports whose imported_at is earlier
    superseded,    \* superseded_by_id
    corpus,        \* vulnerabilities.data_import_id
    opened,        \* imports with an audit entry egress_window_opened
    closed,        \* imports with an audit entry egress_window_closed
    \* API process
    request,       \* the await each POST /intel/sync is at
    \* worker process
    intelInFlight, \* main.ts
    step,          \* the await each poller is at
    job,           \* importId of the poller
    retained,      \* records the fetch kept
    previous,      \* imports the transaction found applied
    intelFaults,   \* crashes and errors so far
    \* history, read by properties only
    newest,        \* the import whose transaction committed last
    lateFetch      \* pollers that contacted the feeds since the last switch

rows    == <<disabled, importStatus, earlier, superseded, corpus, opened, closed>>
pending == <<job, retained, previous>>
past    == <<newest, lateFetch>>
importVars == <<rows, request, intelInFlight, step, pending, intelFaults, past>>

ImportStatus == {"none", "validating", "applied", "failed"}

RequestStep == {"new", "asking", "inserting", "opening", "done"}

PollerStep == {"idle", "selecting", "settings", "contacting", "fetching",
               "closing", "refusing", "upserting", "reading", "committing",
               "reporting", "failing"}

InTransaction == {"reading", "committing"}

\* The second check of the switch, in the worker.  Mutant: left to the API.
CheckedByApi == FALSE
RefusesFetch == disabled = "yes"

\* The status of an import that is refused or whose fetch failed.
\* Mutant: it stays until updates are enabled.
Postponed == "validating"
Refused == "failed"

\* What others see of the corpus after the upserts, which a transaction holds
\* back.  Mutant: each record is written through.
WrittenThrough(p) == [c \in Records |-> IF c \in retained[p] THEN job[p] ELSE corpus[c]]
HeldBack(p) == corpus

\* superseded_by_id after the transaction.  Mutant: the two ids are swapped.
SwappedIds(p) == [i \in Imports |-> IF i = job[p] /\ previous[p] # {}
                                    THEN CHOOSE j \in previous[p] : TRUE
                                    ELSE superseded[i]]
SupersededBy(p) == [i \in Imports |-> IF i \in previous[p] THEN job[p] ELSE superseded[i]]

\* catch in pollIntelOnce.  Mutant: the UPDATE does not look at the status.
FailedAnyway(s) == "failed"
FailedUnlessOver(s) == IF s = "validating" THEN "failed" ELSE s

-----------------------------------------------------------------------------
ImportInit ==
    /\ disabled = "no"
    /\ importStatus = [i \in Imports |-> "none"]
    /\ earlier = [i \in Imports |-> {}]
    /\ superseded = [i \in Imports |-> NoImport]
    /\ corpus = [c \in Records |-> NoImport]
    /\ opened = {}
    /\ closed = {}
    /\ request = [i \in Imports |-> "new"]
    /\ intelInFlight = "no"
    /\ step = [p \in Pollers |-> "idle"]
    /\ job = [p \in Pollers |-> NoImport]
    /\ retained = [p \in Pollers |-> {}]
    /\ previous = [p \in Pollers |-> {}]
    /\ intelFaults = 0
    /\ newest = NoImport
    /\ lateFetch = {}

-----------------------------------------------------------------------------
(* POST /intel/sync and PATCH /intel/settings *)

\* The settings allow it.
AskSync(i) ==
    /\ request[i] = "new"
    /\ disabled = "no"
    /\ request' = [request EXCEPT ![i] = "asking"]
    /\ UNCHANGED <<rows, intelInFlight, step, pending, intelFaults, past>>

\* No other sync is validating; two requests may both find that.
FindNoSync(i) ==
    /\ request[i] = "asking"
    /\ \A j \in Imports : importStatus[j] # "validating"
    /\ request' = [request EXCEPT ![i] = "inserting"]
    /\ UNCHANGED <<rows, intelInFlight, step, pending, intelFaults, past>>

\* A sync is validating: the answer is that one.
FindSync(i) ==
    /\ request[i] = "asking"
    /\ \E j \in Imports : importStatus[j] = "validating"
    /\ request' = [request EXCEPT ![i] = "done"]
    /\ UNCHANGED <<rows, intelInFlight, step, pending, intelFaults, past>>

InsertImport(i) ==
    /\ request[i] = "inserting"
    /\ importStatus' = [importStatus EXCEPT ![i] = "validating"]
    /\ earlier' = [earlier EXCEPT ![i] = {j \in Imports : importStatus[j] # "none"}]
    /\ request' = [request EXCEPT ![i] = "opening"]
    /\ UNCHANGED <<disabled, superseded, corpus, opened, closed, intelInFlight,
                   step, pending, intelFaults, past>>

\* The audit entry is a statement of its own: the worker may be faster.
RecordOpening(i) ==
    /\ request[i] = "opening"
    /\ opened' = opened \cup {i}
    /\ request' = [request EXCEPT ![i] = "done"]
    /\ UNCHANGED <<disabled, importStatus, earlier, superseded, corpus, closed,
                   intelInFlight, step, pending, intelFaults, past>>

TurnSwitch ==
    /\ disabled' = IF disabled = "yes" THEN "no" ELSE "yes"
    /\ lateFetch' = {}
    /\ UNCHANGED <<importStatus, earlier, superseded, corpus, opened, closed,
                   request, intelInFlight, step, pending, intelFaults, newest>>

Api == TurnSwitch \/ \E i \in Imports :
           AskSync(i) \/ FindNoSync(i) \/ FindSync(i) \/ InsertImport(i) \/ RecordOpening(i)

-----------------------------------------------------------------------------
(* The worker: pollIntelOnce and processIntelImport, one action per await. *)

StepTo(p, s) == step' = [step EXCEPT ![p] = s]

\* The flag is read here and set only after the SELECT has answered.
ImportTick(p) ==
    /\ step[p] = "idle"
    /\ intelInFlight = "no"
    /\ StepTo(p, "selecting")
    /\ UNCHANGED <<rows, request, intelInFlight, pending, intelFaults, past>>

SelectImport(p) ==
    /\ step[p] = "selecting"
    /\ \E i \in Imports :
          /\ importStatus[i] = "validating"
          /\ \A j \in earlier[i] : importStatus[j] # "validating"
          /\ job' = [job EXCEPT ![p] = i]
    /\ intelInFlight' = "yes"
    /\ StepTo(p, "settings")
    /\ UNCHANGED <<rows, request, retained, previous, intelFaults, past>>

SelectNoImport(p) ==
    /\ step[p] = "selecting"
    /\ \A i \in Imports : importStatus[i] # "validating"
    /\ StepTo(p, "idle")
    /\ UNCHANGED <<rows, request, intelInFlight, pending, intelFaults, past>>

CheckSettings(p) ==
    /\ step[p] = "settings"
    /\ StepTo(p, IF RefusesFetch THEN "refusing" ELSE "contacting")
    /\ UNCHANGED <<rows, request, intelInFlight, pending, intelFaults, past>>

\* The first request leaves for the feeds.
Contact(p) ==
    /\ step[p] = "contacting"
    /\ lateFetch' = IF disabled = "yes" THEN lateFetch \cup {p} ELSE lateFetch
    /\ StepTo(p, "fetching")
    /\ UNCHANGED <<rows, request, intelInFlight, pending, intelFaults, newest>>

FetchSucceeds(p) ==
    /\ step[p] = "fetching"
    /\ \E R \in SUBSET Records : retained' = [retained EXCEPT ![p] = R]
    /\ StepTo(p, "upserting")
    /\ UNCHANGED <<rows, request, intelInFlight, job, previous, intelFaults, past>>

\* No connectivity, a timeout, or an answer that is not ok.
FetchFails(p) ==
    /\ step[p] = "fetching"
    /\ StepTo(p, "closing")
    /\ UNCHANGED <<rows, request, intelInFlight, pending, intelFaults, past>>

RecordFailure(p) ==
    /\ step[p] = "closing"
    /\ closed' = closed \cup {job[p]}
    /\ StepTo(p, "refusing")
    /\ UNCHANGED <<disabled, importStatus, earlier, superseded, corpus, opened,
                   request, intelInFlight, pending, intelFaults, past>>

\* finally { intelInFlight = false }
LeaveImport(p) ==
    /\ intelInFlight' = "no"
    /\ step' = [step EXCEPT ![p] = "idle"]
    /\ job' = [job EXCEPT ![p] = NoImport]
    /\ retained' = [retained EXCEPT ![p] = {}]
    /\ previous' = [previous EXCEPT ![p] = {}]

\* The UPDATE to failed looks at the id only.
RefuseImport(p) ==
    /\ step[p] = "refusing"
    /\ importStatus' = [importStatus EXCEPT ![job[p]] = Refused]
    /\ LeaveImport(p)
    /\ UNCHANGED <<disabled, earlier, superseded, corpus, opened, closed, request,
                   intelFaults, past>>

\* The transaction inserts or updates each record, and locks its row.
Upsert(p) ==
    /\ step[p] = "upserting"
    /\ \A q \in Pollers \ {p} :
          step[q] \in InTransaction => retained[q] \cap retained[p] = {}
    /\ corpus' = HeldBack(p)
    /\ StepTo(p, "reading")
    /\ UNCHANGED <<disabled, importStatus, earlier, superseded, opened, closed,
                   request, intelInFlight, pending, intelFaults, past>>

ReadPrevious(p) ==
    /\ step[p] = "reading"
    /\ previous' = [previous EXCEPT ![p] =
                       {i \in Imports \ {job[p]} : importStatus[i] = "applied"}]
    /\ StepTo(p, "committing")
    /\ UNCHANGED <<rows, request, intelInFlight, job, retained, intelFaults, past>>

CommitImport(p) ==
    /\ step[p] = "committing"
    /\ corpus' = WrittenThrough(p)
    /\ superseded' = SupersededBy(p)
    /\ importStatus' = [importStatus EXCEPT ![job[p]] = "applied"]
    /\ newest' = job[p]
    /\ StepTo(p, "reporting")
    /\ UNCHANGED <<disabled, earlier, opened, closed, request, intelInFlight,
                   pending, intelFaults, lateFetch>>

RecordSuccess(p) ==
    /\ step[p] = "reporting"
    /\ closed' = closed \cup {job[p]}
    /\ LeaveImport(p)
    /\ UNCHANGED <<disabled, importStatus, earlier, superseded, corpus, opened,
                   request, intelFaults, past>>

CatchFailed(p) ==
    /\ step[p] = "failing"
    /\ importStatus' = [importStatus EXCEPT ![job[p]] = FailedUnlessOver(@)]
    /\ LeaveImport(p)
    /\ UNCHANGED <<disabled, earlier, superseded, corpus, opened, closed, request,
                   intelFaults, past>>

Importer(p) ==
    \/ ImportTick(p) \/ SelectImport(p) \/ SelectNoImport(p) \/ CheckSettings(p)
    \/ Contact(p) \/ FetchSucceeds(p) \/ FetchFails(p)
    \/ RecordFailure(p) \/ RefuseImport(p)
    \/ Upsert(p) \/ ReadPrevious(p) \/ CommitImport(p) \/ RecordSuccess(p)
    \/ CatchFailed(p)

-----------------------------------------------------------------------------
(* Faults *)

\* Any await of processIntelImport but the fetch may reject; a transaction
\* that has not committed leaves nothing behind.
ImportThrows(p) ==
    /\ intelFaults < MaxIntelFaults
    /\ step[p] \notin {"idle", "selecting", "contacting", "fetching", "failing"}
    /\ intelFaults' = intelFaults + 1
    /\ StepTo(p, "failing")
    /\ UNCHANGED <<rows, request, intelInFlight, pending, past>>

\* The UPDATE of the catch rejects as well: the import keeps its status.
CatchThrows(p) ==
    /\ intelFaults < MaxIntelFaults
    /\ step[p] = "failing"
    /\ intelFaults' = intelFaults + 1
    /\ LeaveImport(p)
    /\ UNCHANGED <<rows, request, past>>

\* The SELECT of pollIntelOnce is outside its try.
ImportTickFails(p) ==
    /\ intelFaults < MaxIntelFaults
    /\ step[p] = "selecting"
    /\ intelFaults' = intelFaults + 1
    /\ StepTo(p, "idle")
    /\ UNCHANGED <<rows, request, intelInFlight, pending, past>>

ImporterCrash ==
    /\ intelFaults < MaxIntelFaults
    /\ \E p \in Pollers : step[p] # "idle"
    /\ intelFaults' = intelFaults + 1
    /\ intelInFlight' = "no"
    /\ step' = [p \in Pollers |-> "idle"]
    /\ job' = [p \in Pollers |-> NoImport]
    /\ retained' = [p \in Pollers |-> {}]
    /\ previous' = [p \in Pollers |-> {}]
    /\ UNCHANGED <<rows, request, past>>

ImportFault ==
    \/ \E p \in Pollers : ImportThrows(p) \/ CatchThrows(p) \/ ImportTickFails(p)
    \/ ImporterCrash

-----------------------------------------------------------------------------
ImportNext == Api \/ (\E p \in Pollers : Importer(p)) \/ ImportFault

ImportSpec == ImportInit /\ [][ImportNext]_importVars

-----------------------------------------------------------------------------
(* Properties *)

\* Every variable has its type.
ImportTypeOK ==
    /\ disabled \in {"no", "yes"}
    /\ importStatus \in [Imports -> ImportStatus]
    /\ earlier \in [Imports -> SUBSET Imports]
    /\ superseded \in [Imports -> Imports \cup {NoImport}]
    /\ corpus \in [Records -> Imports \cup {NoImport}]
    /\ opened \in SUBSET Imports
    /\ closed \in SUBSET Imports
    /\ request \in [Imports -> RequestStep]
    /\ intelInFlight \in {"no", "yes"}
    /\ step \in [Pollers -> PollerStep]
    /\ job \in [Pollers -> Imports \cup {NoImport}]
    /\ retained \in [Pollers -> SUBSET Records]
    /\ previous \in [Pollers -> SUBSET Imports]
    /\ intelFaults \in 0..MaxIntelFaults
    /\ newest \in Imports \cup {NoImport}
    /\ lateFetch \in SUBSET Pollers

\* FEED-25: what the catalogue says of a record comes from the seed or from an
\* import that is applied.  One that failed, was refused or was cut off by a
\* crash leaves nothing in it.
CorpusIsApplied ==
    \A c \in Records : corpus[c] # NoImport => importStatus[corpus[c]] = "applied"

\* GET /intel/status looks for the applied import nothing supersedes: there is
\* exactly one, the last that was applied, whatever failed in between.
CurrentIsNewest ==
    \A i \in Imports :
        importStatus[i] = "applied" /\ superseded[i] = NoImport <=> i = newest

\* An import that was applied stays so, although the audit entry that follows
\* the commit may be refused and its error is caught as a failure.
AppliedIsFinal ==
    [][\A i \in Imports : importStatus[i] = "applied" => importStatus'[i] = "applied"]_importVars

\* FEED-23: once online updates are disabled the worker contacts the feeds at
\* most once more, for an import it had already checked, over any restarts.
DisabledStopsFetch ==
    \A p \in Pollers : step[p] = "contacting" /\ disabled = "yes" => p \notin lateFetch

\* Every import that was asked for is eventually applied or failed.
ImportsEnd ==
    \A i \in Imports : importStatus[i] = "validating" ~> importStatus[i] # "validating"

=============================================================================
