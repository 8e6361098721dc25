# Xenitex: formal models, model checks and proofs

This directory specifies the core logic of Xenitex, the vulnerability-scanning
appliance of this repository, in TLA+. The modules are translations of the
TypeScript under `src/`; TLC checks them on small instances and the TLA+ proof
system (TLAPS) proves theorems about them for every value of their constants.
`PROJECT.json` maps every definition to the lines it stands for, and lists the
runs, the mutants that show each property can fail, the hazards and the theorems.

## 1. The system

Two Node processes share a PostgreSQL database, Redis for short-lived keys and a
blob store:

* **apps/api**: Fastify handlers. A handler reads, checks, then writes. Some of
  the writes are one transaction, and most checks are made before it begins.
* **apps/worker**: one `setInterval`; every tick calls five pollers (scan runs,
  intelligence imports, reports, rescoring, backups). A poller that still awaits
  is kept from running twice by a module-level flag.

Beside them there are commands an operator runs: migrate, restore, reset, global
stop. They interact only through rows: a handler inserts a row with a status, a
poller finds it by that status, and either of them may change it while the other
awaits. So what is hard here is what happens between two awaits, across restarts,
and when a tick overtakes the one before.

### Components

| Component | State it keeps | Operations | What makes it correct | Module |
| --- | --- | --- | --- | --- |
| Scan-run pipeline (`worker/src/main.ts`, `pipeline/process-scan-run.ts`, `routes/scans.ts`, `cli/global-stop.ts`) | `scan_plan_previews`, `scan_runs`, `scan_run_targets`, the `inFlight` flag | plan, confirm, verify, pause, resume, abort, global stop; poll, dispatch a batch, record, complete, fail | nothing outside the scope is probed; halts, blackout windows and exclusions cost at most one batch; outcomes are kept over restarts; runs end | `ScanRuns` |
| TCP adapter (`scanner-adapters/src/tcp-connect-adapter.ts`) | lanes, a token bucket, a deadline | probe a batch, cut it short, parse it | the pace is kept; what was seen is not lost, what was not swept is not taken for clean | `TcpAdapter` |
| Scope, exclusion and blackout registry (`routes/scope.ts`, `routes/scheduling.ts`) | `authorized_scopes`, `exclusion_rules`, `blackout_windows`, schedules | create, edit, supersede, activate, open, close, delete | a run is created under the current grant; a scope has one successor | `ScanRuns` (as the pipeline sees it), `Requests` |
| Issue lifecycle (`routes/issues.ts`, `upsertIssue`, `resolveVerificationScans`) | `issues`, `issue_state_history` | transition, bulk transition, PATCH; create, reopen, resolve | legal transitions; the history tells what happened | `IssueLifecycle` |
| Exceptions workflow (`routes/exceptions.ts`) | `exceptions`, `issues.exception_id` | request, approve, reject, revoke | a risk is accepted only under an approval by a second person | `IssueLifecycle`, `RiskAcceptance` |
| Verification scans (`routes/scans.ts`, `resolveVerificationScans`) | `verification_scans`, the run and its target, `issue_observations` | request, abort, probe, decide, promote | an issue is resolved by what a run about it observed, and by nothing else | `Verification` |
| Audit log (`packages/db/src/audit-log.ts`) | `audit_entries`, its id sequence, an advisory lock | append in a transaction; verify | one chain in the order of ids; the verifier blames what was altered and nothing else | `AuditChain` |
| Rescoring (`pipeline/process-rescore.ts`, `routes/catalog.ts`) | `issues.risk_score*`, snapshots, policies | batch, publish a policy | every issue reaches the active policy, and keeps its snapshots | `Rescoring` |
| Scores and ratings (`domain/src/scoring/risk-scoring.ts`) | none (pure) | score, band, rating | bounded and monotone in every factor | `RiskScoring` |
| Intelligence import (`process-intel-import.ts`, `routes/intel.ts`) | `vulnerability_data_imports`, `vulnerabilities`, `intel_settings`, the `intelInFlight` flag | sync, switch; poll, fetch, apply, fail | the catalogue is that of the applied imports, one of them is current, the switch stops the fetching, imports end | `IntelImports` |
| Matching (`domain/src/matching/cpe.ts`, `matchCatalogue`) | the rows read so far | read a banner, compare versions, judge a row | the strongest row decides in any order; ranges follow the order of releases | `Matching` |
| Addresses (`domain/src/net/ipv4.ts`, `scan-targets` of plan and dispatch) | none (pure) | parse, expand, contain | the gate at dispatch agrees with the plan | `Addresses` |
| Assets (`routes/assets.ts`, `findOrCreateAsset`) | `assets`, address and hostname history, merge events | observe, merge, reverse a merge | an address has one asset; a merge can be reversed | `Assets` |
| Reports, artifacts, backups (`process-report.ts`, `process-backup.ts`, `backup-archive.ts`) | a status row each, blobs, archive files | request, claim, render, snapshot, record, restore | rows and blobs agree, also in an archive | `Archives` |
| Migrations, restore, reset (`migrate.ts`, `cli/restore.ts`, `cli/reset.ts`) | `schema_migrations`, the schema, archive files | up, down, restore, reset | a command does all or nothing, statement by statement beside other writers; by itself it is stopped only by what is known, and leaves nothing behind | `Database` |
| Authentication and sessions (`auth/*`, `routes/auth.ts`, `routes/administration.ts`) | `users`, `sessions`, recovery codes, MFA challenges and counters in Redis | log in, challenge, enrol, log out, change password or role, deactivate | no session outlives its revocation, a lock is earned | `Accounts`, `AccountGates` |
| Setup wizard (`routes/setup.ts`) | the first account, the steps | bootstrap, steps, complete | somebody can always finish | `Setup` |
| Writing handlers, idempotency, ETags (`lib/idempotency.ts`, `lib/etag.ts`, all of `routes/`) | answers in Redis, one row of each family | replay, check, write, audit, store | one row for one key; no blind overwrite; what is answered is recorded | `Requests` |
| Lists (`lib/pagination.ts`, all of `routes/`) | a cursor | walk page by page | a row that stays is listed once | `Pages` |
| Dashboards, metrics, health | none | queries | nothing changes | not modelled |
| Web panel, mock server, contracts, deployment | none | | user interface, test double, generated types | not modelled |

The adapter answers "completed" or "failed" nondeterministically in `ScanRuns`, and
`TcpAdapter` says which of the two it is and what it brings with it.

## 2. Modules

```
ScanRuns          <- MCScanRuns, ScanRunsProofs
IssueLifecycle    <- MCIssueLifecycle, IssueLifecycleProofs
   | INSTANCE WITH phase <- status, accepted <- Accepted
RiskAcceptance
AuditChain        <- MCAuditChain, AuditChainProofs

Rescoring, IntelImports, Verification   <- MCWorkerJobs <- WorkerJobsProofs

AccountGates      <- Accounts, Setup
Accounts, Setup, Requests, Pages         <- ApiProofs
TcpAdapter, Assets, Archives, Database   <- PipelineProofs
Matching, Addresses, RiskScoring         <- AlgorithmsProofs
Matching          <- MCMatching
Addresses, RiskScoring <- MCArithmetic
all of these from AccountGates on        <- MCAppliance
MCAppliance, ApiProofs, PipelineProofs, AlgorithmsProofs  <- ApplianceProofs
```

A constant is declared with its assumption where it is used; an `MC` module only
gives the instances names. A `...Proofs` module extends TLAPS and the components it is about;
it leaves their constants open, also where it extends an `MC` module for the specification of
several parts, whose named instances it does not look into.
A definition with a comment "Mutant:" is an alternative that a plausible bug would
turn the next definition into, and no action refers to it.

`MCWorkerJobs` and `MCAppliance` hold an instance of several parts. In the models these
share no row: interleaving them would only multiply their states. A behaviour
explores one of them, which `explored` says, and the rest stays as it began.
`Accounts` is explored three times (its sign-ins, its enrolment, its sessions).

### ScanRuns

A *poller* is one call of `pollOnce`. Its `pc` is the statement it awaits, so
anything may happen between two of its steps; every statement of
`processScanRun` that awaits the database or the adapter is one action. The
handlers of the API that write in one statement or one transaction are one action;
POST /verification-scans, whose reads are awaits before its transaction, is two.
`status` has three values more than the enum: `unplanned` and `planned` are the
stages of the plan preview, `checked` is between those two actions, as is the row of
the host that was checked. `before` is the order of `queued_at`. The status
`refused` of a row is `failed` with class `out_of_scope`.

The decisions read at one await and used at a later one are variables: `seen` (the
status on entry, on which the UPDATE to running is decided), `rulesSeen` (the rules
of the batch), `todo` and `ready` (the rows of the batch). `Throw` is a rejected
await, `ThrowAgain` a failing `catch`, `TickFails` a failing poll query, and `Crash`
the end of the process: only the database survives it.

`lateHalt`, `lateWindow` and `lateRule` are history: the pollers that dispatched
since the run was halted, the window opened, the rule was activated. They turn "at
most one more batch" into an invariant.

Bound: `MaxFaults` limits faults. A window goes from upcoming to open to over once.
Blackout windows that recur behave as a sequence of such windows.

### IssueLifecycle and RiskAcceptance

A request reads and checks in one action and commits in a later one; `seen` and
`want` carry what was read and decided. `current` is the set of requests whose
`If-Match` is still right, which abstracts `updated_at`. `record` is the newest
row of `issue_state_history`. An approval is two actions because its UPDATE of the
exception locks that row (`Locked`) until the transaction commits; a rejection is a
lone UPDATE. The worker's UPDATE and its history row are two actions without a
transaction.

`RiskAcceptance` is what the workflow promises while several people decide at once: to grant
or to refuse is decided on a pending exception and to withdraw on a granted one (`Take`), each
decision is carried out once or dropped (`Grant`, `Refuse`, `Withdraw`, `Drop`), and a risk is
accepted only by a grant, under the exception granted, until that is withdrawn at the latest.
Of two decisions on one exception the one carried out last has the last word: that is all the
code gives, for `rejectException` repeats no condition in its UPDATE. `Promise` instantiates
`RiskAcceptance` with `Accepted`, the exception an issue links to while its state is
`risk_accepted`, and `Deciding`, what each request has checked and is about to write.

### AuditChain

A hash is the sequence of all that was hashed since the genesis value, which is
SHA-256 without collisions; a payload is a model value with one bit, whether its
`before_state` and `after_state` have at most one key. `Serialise` is what
canonicalisation does: since version 2 the order of the keys does not matter, and in
version 1 the text as inserted differs from the text as read back from `jsonb`. The
initial states hold any chain the release before migration 0013 may have left.

`Lock`, `ReadFirst`/`ReadLast`, `Insert` and `Commit` are the statements of
`insertAuditEntry`; the advisory lock is held until the transaction ends, `nextId`
is the sequence behind `bigserial` and a rollback does not turn it back. `Alter` and
`Remove` are what the integration test and the verifier's comments speak of: a
change of the table behind the back of the application. The verifier is a set of
operators over the committed rows, as it is one SELECT.

Bounds: `MaxId` ids are taken, `MaxLegacy` entries are older.

### Rescoring

A score is the version of the policy it was computed with. Issues are numbers, in the
order of their ids, because a batch is the first `BatchSize` stale ones. Three processes
interleave: requests that publish a policy (`ReadLatest`, then the transaction), the batch
(`ReadPolicy`, `SelectStale`, one transaction for each issue), and a scan, which scores the
issues it creates with the policy it read at its start and then recomputes the rating of
the asset in a read and a write. `Unscoreable` are the issues for which `computeRiskScore`
throws; `BatchAssumption` says they are fewer than a batch holds. `unrated` and `changed`
compare the rating of the asset with the scores it was made of. `carried` is history: the
versions the recomputation gave each issue. Bound: `MaxRescoreFaults`.

### IntelImports

As in `ScanRuns`, a poller is one call of `pollIntelOnce` and every awaited statement is an
action; the handler of POST /intel/sync is four. A record of the catalogue is the import
that wrote it last. The transaction holds its writes back (`HeldBack`) and locks the records
it has upserted until `CommitImport`. `earlier` is the order of `imported_at`; `newest` and
`lateFetch` are history. What the feeds answer and which records the filter keeps is a
choice. Bound: `MaxIntelFaults`.

### RiskScoring, Matching and Addresses

Pure functions. In `RiskScoring` a score is counted in 1/`Unit`, so that nothing is
rounded; the code rounds to two places at the end, which keeps bounds and order.
`RiskBandIs` is the loop over the bands sorted by threshold, written as what it finds.

`Matching` is a state machine because the code is one: a banner is read
(`Observe`), then rows of the catalogue are considered one after the other, in the order
in which the database returns them, and the strongest verdict of each vulnerability is
kept (`Consider`, `Stronger`). A version is a sequence of numbers, one of letters, and a
mark with what follows it. `Releases`, against which `MatchesAreHonest` holds the verdicts,
are the versions of the product in the order in which it made them. That this is the order of
their numbers and letters (`ReleasesAreOrdered`), and that the versions named in the catalogue
are of releases where they can be read (`RowsNameReleases`), is not for the code to ensure. TLC
evaluates both on the instance (`ProductIsKnown`), and the theorem has them as hypotheses.

`Addresses`: an address is a number of `Width` bits. `ExpandCidrRanges` is the loop of the
plan with its cap; the gate at dispatch is `IsIpv4InCidr`. Texts that do not parse are
dropped by both and are left out.

### Verification

One issue, one asset, runs in the order of `queued_at`. A pass of the worker goes from
`TakeVerification` to `NotePromotion`, one action for each statement; between any two of them
people decide about the issue (`Decide`, which also stands for exceptions), the weakness
comes or goes, and runs are aborted. `artifact` is what the probe recorded; `attachedIn`
are the rows of `issue_observations`. `DropObservation` is the catch inside
`processObservations`, `RunThrows` that of `pollOnce`.

### TcpAdapter

`Dispatch` is one call of the adapter: a deadline, a bucket, `Lanes` that take jobs from
one cursor. Time is a clock of ticks. A token is `TicksPerSecond` units and the bucket
refills `PacketsPerSecond` of them in a tick, which is the floating point of the code
without its rounding; a rate of 0 is no pace at all (`Unpaced`). `probes` is history: when the probes of the batch were started.
`EndBatch` parses the one artifact of a batch and writes its observations and outcomes.

### Assets

`ResolveTarget` to `KeepHostname` are the statements of `resolveOrCreateAsset`: an address
is looked up, an asset inserted, then its address, then its name. The requests that merge and
reverse read first and write in a transaction later.

### Archives

A blob is the version of the data it was rendered from. `StartReport` reads, `PutFormat`
puts one format, `FinishReport` updates the row where it is still pending; a crash in between
leaves the report pending, and it is started over. A backup takes its rows in one
snapshot (`StartBackup`) and reads the blobs they name one by one. `Restore` brings back
the rows of an archive and leaves the blobs alone.

### Database

What decides whether a command that empties and fills tables succeeds is one row that
refers to another. So a behaviour follows one foreign key (`followed`, 79 of them, with
the migration that adds, defers or drops it) and `inUse` says whether a row refers by it in
what is committed.

A restore is 47 DELETEs, 47 INSERTs and a DELETE of the sessions, a reset one DELETE for each
table of its scope (`Statements`), in a READ COMMITTED transaction. `command` is the one under
way: what it runs, as which role, the last statement, whether a row it has not deleted refers by
the followed key (`finds`) and whether its archive has such a row (`loads`). `Execute` is its
next statement that the two tables or the outcome depend on (`Concerns`); the others leave them
as they are. Between two statements the API or the worker may write a row that refers (`Refer`),
the worker may take a backup, and the command may be interrupted (`Killed`). `Stops` is what makes
a statement fail: a table of a later migration, a foreign key that is not deferred, a column that
is NOT NULL, a privilege the role has not (`Denied`). `RollBack` follows, or `Commit`. What the
commands ask before they begin, arguments, environment, archive and typed phrase, is in
`Restores` and `Resets`. Migrators read the ledger once and run each file in a transaction of
its own.

### AccountGates, Accounts and Setup

`AccountGates` holds what is pure: roles, capabilities, the two gates with their
allowlists, and the screen the panel shows at each. `Accounts` is one account.
A login is up to four awaits (count the attempt, read the row, verify, write the count or
open the session), and `loginSaw` is the row it read. An answer to a challenge is GET, DEL,
then the code. `epoch` counts changes of the password and stands for it. Clocks are
`WindowEnds`, `LockEnds`, `TokensEnd` and `SessionEnds`, which may come at any time.

`Setup` is the wizard, as several people use it at once: `wizardStep` is the step each one's
browser shows, and `awaits` the request it has sent. `Screens` is what the client offers
beside the steps.

### Requests and Pages

A handler is the sequence of its awaits, and an await is the set of effects it has on what the
properties tell apart: `replay` looks for a stored answer and `store` writes one, `find`
reads the row and `match` compares `If-Match` with it, `insert`, `update` and `remove`
change it, `audit` writes an entry, and so on; effects in one set are one transaction or one
tick. There are 55 writing handlers and 12 reads that answer with an ETag, in families that
write the same table. A behaviour takes one family; two requests of it run at once, or the
second retries the first, and the API may die between two awaits. `Anything` is `If-Match: *`,
which the three handlers that compare with `ifMatchSatisfied` accept.

`Pages` is the same for lists: a list is its order, the columns of its cursor and whether the
handler cuts the rows itself; a page is the set of rows it shows, and `listed` counts for
each row the pages it was in. 19 lists are given, and 17 of them (`SoundLists`) are walked
while rows are inserted, removed and ranked anew. The other two are in section 5.

## 3. What is checked

| Run | Instance | What it shows |
| --- | --- | --- |
| `scan_one_poller` | one run, three authorised hosts, a stray row, a rule on two of them, one window, two faults | scope gate, halt, exclusions, outcomes kept over crashes |
| `scan_two_pollers` | one run, three hosts, two overlapping ticks, a global window | halt and blackout still cost each poller one batch; a completed run owes nothing |
| `scan_queue` | two runs, one host, a window and a fault, under fairness | every run ends unless one is kept paused |
| `scan_abort_lost` | one run, one host, no fault | **violated**: an abort is overwritten with running or completed |
| `scan_stranded_targets` | one run, two hosts, one crash | **violated**: a run completes with targets in progress |
| `scan_old_grant` | one run | **violated**: a plan older than the supersession of its scope is confirmed |
| `issues_two_requests` | one issue, two exceptions, two users, two requests that overlap, one worker pass | refinement of `RiskAcceptance`; an accepted risk is decided by a second person |
| `issues_revoke` | the same with one request | **violated**: a revocation records a reopening that did not happen |
| `audit_tampering` | two transactions, five ids, two legacy entries, two payloads | who is blamed; what a removal leaves; the order of commits |
| `worker_jobs` | rescoring: three issues, one of them unscoreable and first, batches of two, two publications, a fault. Imports: two imports, two records, one poller, two faults. Verification: two runs, one fault, an issue in any state. Under fairness | every issue that can be scored reaches the active policy and keeps its snapshots; failed imports leave nothing, one import is current, the switch holds, imports end; an issue is resolved by what a run about it saw |
| `rescore_rating_stale` | three issues, one publication, no fault | **violated**: rescoring leaves the rating of the asset behind |
| `appliance` | eleven parts, below | one property or two of each |

**The parts of `appliance`.**

| Part | Instance | Property |
| --- | --- | --- |
| sign-ins | three logins, threshold 2, window 2, one fault | `LockIsEarned`: no account is locked by fewer failures than the threshold, although the count is read, added to and written back |
| enrolment | one login, one answer, one recovery code, an administrator who changes the role | with the fault of a crash: types, and the steps that open the sessions the next part ends |
| sessions | one login, two changes of the password, one old session, a crash | `ChangeEndsSessions`: the sessions that were open before an answered change are over |
| setup | two people, two lost requests or ended sessions, fairness of people | `SetupFinishes` |
| requests | 27 families, two requests, one key, two crashes | `AnsweredIsRecorded`, `RetryMakesNoRow`, `NoBlindOverwrite` |
| pages | 17 lists, three ids, two ranks, pages of one, two changes | `WalkSeesEveryRow` |
| adapter | three hosts, three ports, batches of two, two lanes, 1 packet a second, two ticks a second, timeout one tick, clock to 4 | `PaceHolds`, `PartialResultsAreKept` |
| assets | three ids, an address, a name, one resolver, two merges, two reversals, two faults | `OneAssetPerAddress`, `MergedIsReversible` |
| archives | one report in two formats, an artifact, a backup, a publication, two faults or restores | `EvidenceIsWhole` |
| database | 79 foreign keys one at a time, six migrations (from any release for the seven keys that a migration after the first touches, from the newest for the others), two migrators, two runs, an archive, three passphrases, two roles; a restore or a reset, statement by statement, beside a writer | `CommandsFit` |
| matching | 17 probes, some 45 rows, 8 releases, two vulnerabilities, two rows read | `MatchesAreHonest` |

The same run evaluates `PlansAgree` (all pairs of ranges of 4-bit addresses, with three
sets of rules: the gate at dispatch lets through exactly what the plan expands to, up to
the cap), the examples of `risk-scoring.test.ts`, the order of bands, and
`VerdictsOfMarkedVersions`.

**Why the bounds are enough to be interesting.** Three hosts and batches of
two take a poller through two batches, so that a second batch after a halt, a window or
a rule is there to be prevented, and let a batch be full, partial, excluded in part or
left half done by a crash. The rule covers two hosts because a host is dispatched only
once. The second fault is what makes `failed` and a restart meet. Two pollers are the least that
overlap, and two runs the least that queue. Two exceptions of one issue are the least
that compete for its link, two requests the least that overlap, so that both decide on one
exception, and two users the least in which one may not decide. With
five ids a removed entry can have two neighbours on one side, be the oldest, or be the
last and be followed by a new one, and the table can be emptied and grow again. An
unscoreable issue at the head of batches of two leaves one place for the other two, so a
full batch and a second one are needed; two publications let a batch end under a policy
that is no longer active, and two requests take one version. Two imports are the least of
which one can supersede the other, and two records the least of which an import keeps some;
two faults let an import be retried after a crash and then fail. With two verifications
one can see what the other did not, and one fault is every way an observation can get lost.

Three logins against a threshold of two let two read the same count while the third
succeeds. Two changes of the password revoke each other's session. A bucket of one token a
second makes the second lane wait, a timeout of one tick leaves jobs untaken, and three hosts
in batches of two leave a second batch. Two merges of one asset and two reversals overlap in
every order, and a third id lets a survivor be merged itself. Two formats let a crash fall
between them, and one publication makes the formats of a restarted report differ if it kept
any. One foreign key is enough because a statement fails at the first row that is in
its way, and `Refer` may come between any two statements that concern it. Pages of one make every row the row that did not fit. Two rows of a vulnerability are
the least of which one is stronger, and the releases have two lengths, letters of one and
two places and both kinds of mark.

`CHECK_DEADLOCK FALSE` is given everywhere: each model really stops (runs end, plans
are used up, the id bound is reached) and an idle appliance is not an error.

**Where a property is limited.** `OneAssetPerAddress` is checked with one resolver: two, which
only overlapping ticks give, make two assets (section 5). `EvidenceIsWhole` claims that blobs
agree with their rows as long as there was at most one restore. `CommandsFit` speaks of an
appliance on which all migrations were applied, for the commands read tables of the newest, and
of a command that the owner of the tables runs and during which no row is written that refers by
the followed key: of the others nothing of the kind is true (section 5). The run explores them
too, and there a disturbed command may fail at any statement, for whatever reason. One command
runs at a time, it and the processes of migrate.ts do not overlap, and PostgreSQL stays up.
`PaceHolds` is about one batch and a rate that is positive (section 5). `NoBlindOverwrite`
exempts `If-Match: *`, whose sender claims to have seen nothing. `SetupFinishes` is about a client that offers
sign-in and enrolment (section 5). `DisabledStopsFetch`, `CorpusIsApplied`, `AppliedIsFinal`
are checked with one intelligence poller. In `VerificationIsHonest`, what
"confirmed resolved" says of the weakness is claimed of behaviours without faults.

**Fairness** (`scan_queue`). Weak fairness of each poller: its timer fires for
ever, a restarted container polls again, and every await is answered or rejected.
Weak fairness of closing a window: `ends_at` is finite. No fairness is assumed of
operators, so a run that is kept paused may keep the queue waiting: that is what
`RunsFinish` excuses and nothing else. In `worker_jobs`: weak fairness of the batch and of
each intelligence poller, for the same reasons (fetches have a timeout). None is assumed of
administrators, scans or the switch. A scan needs none: what it creates under an old policy
is found by a later batch, for a scan creates each issue once. In `appliance`: weak fairness
of each person who opened the wizard. It is an assumption about people, and no weaker one
would do: a setup nobody goes on with stays where it is. Every other property is a safety
property and assumes nothing.

## 4. What is proved

All theorems hold for any sets of runs, targets, pollers, issues, users, clients, keys,
hosts, assets, reports, releases and so on, any batch size, page size or rate, and any number
of faults. The assumptions on constants are those named in the modules (`ScopesAssumption`,
`BoundsAssumption`, ...), which TLC evaluates on its instances; what a theorem needs beyond
them it states as a hypothesis, and the section of its module says why. Every safety invariant
and every action property that a passing run checks is stated by a theorem. Each is proved
from an inductive invariant, which is mostly the property with what the paragraphs below name.

**ScanRunsProofs.** `TypeCorrect`; `ScopeIsSafe`, from the invariant that whatever a
poller keeps for dispatch has passed `WithinScope` for the run it works on, and that
every row the API wrote lies in the scope; `HaltIsSafe`, `BlackoutIsSafe` and
`ExclusionIsSafe`, whose invariants say which step a poller must be at if it already
dispatched since the halt, the opening or the activation: it has left the batch, or will
read the status, the window or the rules before its next one; `CompletedIsComplete`, from:
once every row of a run is decided none becomes pending again, and a poller that is at
"completing" has counted none; `OutcomesStay`, under the assumption that there is at most
one poller, from: the rows of the batch are still pending or in progress. The assumption
is needed: with two pollers TLC finds a counterexample (section 5).

**IssueLifecycleProofs.** `TypeCorrect`; `AcceptedIsSafe` and `SeparationIsSafe` for any
overlap, from the invariant that a decided exception has an approver who is another
person and that the link of an accepted issue names a decided exception of its own;
`WorkflowIsKept`, that IssueLifecycle implements `RiskAcceptance`, also for any number of
requests and worker passes that overlap in any way. Nothing is assumed of what a request has
read when it commits; the statements that do repeat a condition, or lock what they read, are
what the steps of its proof use.

**AuditChainProofs.** `TypeCorrect`; `OrderIsKept`; `BlameIsExact`; `RemovalShows`.
`Typed` says the lock has one holder, the row of a transaction comes after every committed
one, and the hash of a row is that of what was inserted, altered since or not.
`Linked` says that until something is removed each entry follows the one before it and a
transaction follows the newest. `Started` is what a removal cannot undo: an entry that
follows the genesis value was written to an empty table. With the least committed id above
a removed one (`LeastAbove`, from the well-foundedness of strict inclusion on finite
sets) either the id before it is missing or the oldest entry does not start a chain.

**WorkerJobsProofs.** Of rescoring: `RescoringTypeCorrect`, for any finite set of requests:
versions are bounded by counting the requests that ended (`Counted`), and a batch or a scan
under way has a policy (`Scored`); `HistoryStaysWhole`. Of imports: `ImportsTypeCorrect` and
`DisabledIsSafe` for any overlap of pollers: a poller that contacted the feeds since the switch
was turned off must pass the check again, and the check refuses. `CatalogueIsApplied`,
`CurrentIsTheNewest` and `AppliedStays` under the assumption of one poller at a time, from
`OneInv`: until it commits or fails, the poller's import is still validating; a poller about to
commit knows every applied import; only applied imports are superseded. With two pollers TLC
finds counterexamples (section 5). Of verification: `VerificationsAreHonest`, from
`VerificationTyped`, `RunsAreHonest`, which says for each step of the pass what its run has
observed and attached by then, unless a fault took it, and `OutcomesAreHonest`, which says the
rest of the property also of the steps between an outcome and the history row it allows.
`JobsAreParts`: a behaviour of the three together is a behaviour of each, whence
`WorkerTypeCorrect`.

**AlgorithmsProofs.** Versions: `VersionsAreOrdered` and `OrderIsTransitive`: of two readable
versions one is earlier or both are one release, whatever their numbers of segments and letters.
A difference is looked for at its first place, which exists because a set of naturals has a least
element (`FirstPlace`). `RangesAreConvex` follows. `StrongestRow`: the verdict on a vulnerability
is the strongest of its rows, for every catalogue and every order of its rows. `MatchesStayHonest`:
by the order of the releases, a bound of a range is met by exactly the releases it should be
met by (`BoundsAreReleases`), and a version is of one release (`OnePlace`), so a single row is
honest (`RowIsHonest`), and so is the strongest. Its hypotheses are `ReleasesAreOrdered` and
`RowsNameReleases`.

Scores: `ScoreIsBounded`, `ScoreIsMonotone`, `KnownExploitedNeverLowers` (for policies whose
multiplier is at least the highest a probability reaches; without that the theorem is false, and
the code does not check it), `BandIsByThreshold` for bands in any order, `RatingCoversIssues` and
`RatingIsMonotone`, with the products taken step by step.

Addresses: `InRangeIsMembership`, `ExpansionIsInRange`, `ExpansionIsComplete`, `RangesNest`, for
one range or two. They take it as a hypothesis that a range has a positive size (`Positive`), and
`RangesNest` that the larger size is a multiple of the smaller: that powers of two have these is
induction over data, as is the fold over the list of ranges of a scope.

**ApiProofs.** Accounts: `LockIsAlwaysEarned`, from: every count that is stored, or was read and
is about to be written back, is at most the number of attempts that failed (`AccountBounds`).
`ChangeAlwaysEndsSessions`: by the same bounds no session and no change is of a later password
than the row, so the statement that revokes meets every session that is too old, and those made
after it are not. `AccountTypeCorrect` adds that failures and changes are counted by the requests
that made them (`Counted`). Setup: `SetupTypeCorrect`.

Requests: that the handlers write what they write in an order that is safe is a fact about each
of the 67 (`HandlersAreOrderly`); everything else follows from that order, for any number of
clients, keys and crashes. `SuccessIsRecorded`, from: a request under way has as many entries as
audits it has passed (`EntriesAreCounted`), a stored answer is that of a request all of whose
entries are there (`StoredIsRecorded`), and so is an answer given (`AnsweredHasEntries`).
`RetriesMakeNoRow`, from `RetriesWait`: a retry sent after an answer was stored finds it at its
first await. `OverwritesAreInformed`, from `StaleStaysStale`: a request that had not seen
everything when it was sent, and names an ETag, has not passed `match`.

Pages: `WalksAreExact`, under the hypothesis that the lists are of those the handlers walk soundly
(`Lists \subseteq SoundLists`; section 5 has the two others). `WalkIsExact` is the invariant: a row
that stays is in exactly one page if it is at or before the cursor, and in none if it is after.
A page of n rows and the row after it are well-defined because a finite set of rows has a first
and a last one in the order of the list (`SomeFirst`, `SomeLast`).

**PipelineProofs.** Adapter: `PaceIsKept`, from `WithinBudget`: the tokens in the bucket and the
probes since any earlier one add up to at most the burst and what the time since added, counted
so that no product of two variables is left to the provers. `SweepsAreHonest`, from
`LanesKeepToTheBatch`: lanes probe hosts of the batch only, and these are neither waiting nor
settled.

Assets: `AddressHasOneAsset`, under the hypothesis `OneWorker`, from `AddressesAreApart`: addresses
are apart, and the one that the resolver is about to insert has no owner. With two resolvers TLC
finds counterexamples (section 5). `MergesStayReversible`, from `EventsAreNew`: no request
overwrites an event.

Archives: `EvidenceStaysWhole`, from four conjuncts: what the rows name is in the store
(`RowsAreWhole`); the formats put so far are of the data the generation read
(`GenerationIsWhole`); what the snapshot of a backup names is still there and is what was copied
(`BackupIsWhole`); and archives hold theirs, which before the first restore have not changed
either (`ArchivesAreWhole`). What is said of contents is claimed until the second restore.

Database: `OperatorsCommandsFit`, for any set of migrations that has 0016 and 0017, which are
those that defer and drop the constraints in the way. Whether a statement comes before another in a
backup or a reset is decided by the position of a table (`Place`, `DeletedAt`), so that the 79
references are compared by number: `BackupFollowsReferences` and `DeletionsFollowReferences` say
that all but those named go backwards. The invariant is `DatabaseInv`: an archive is locked with the
passphrase of the worker, it holds rows of the tables in `BackupTableOrder` only, and if it is of the
release, the migrations that add these tables are there (`ArchivesFit`); and a command that nobody
disturbed finds no row any more once it has emptied the table that refers (`CommandGoesOn`). From
it: no statement of a restore stops (`NothingStopsRestore`), those of a reset at the references
of `TripsOver` only (`WhatStopsReset`), and at the commit both tables have been emptied
(`RestoreClears`, `ResetClears`).

**ApplianceProofs.** A behaviour of `MCAppliance` is a behaviour of each of its parts, so that what
is proved of a part is true of the behaviours the run `appliance` explores; `ApplianceTypeCorrect`.

**Only model-checked:** liveness (`RunsFinish`, `EveryIssueReachesActive`, `ImportsEnd`,
`SetupFinishes`) and ENABLED, which are out of the prover's reach, as is induction over data; and
what `MCArithmetic` and `MCMatching` evaluate as assumptions: `PlansAgree`, which folds over the
list of ranges of a scope, the examples of the tests, and the verdicts of marked versions.

## 5. Known divergences and races

Found while modelling. Those marked with a run have a finding in `PROJECT.json`; the others
were seen in the models or while translating, and are given with the line or the action where
they show. Paths are short: `process-scan-run.ts` is in `apps/worker/src/pipeline`, a route in
`apps/api/src/routes`, a command in `apps/api/src/cli`.

**Scan runs**

* `UPDATE ... running` and `UPDATE ... completed` of the worker do not repeat the
  condition they were decided on: an abort in between is undone (`StartQueued`,
  `Complete`; run `scan_abort_lost`).
* After a crash, `in_progress` rows are never taken up again (`FetchBatch`; run
  `scan_stranded_targets`).
* POST /scan-runs does not look at `superseded_by_id` (`CreateRun`; run `scan_old_grant`), nor
  at whether the preview was truncated (scans.ts:516).
* `inFlight` is tested at main.ts:125 and set at 135, with an await in between. Two ticks
  can scan two runs, or one run together, and a row with an outcome can go back to
  `in_progress` (`Tick`, `SelectRun`). The pollers of imports (main.ts:29) and reports
  (main.ts:61) have the same form.
* Two confirmations of one plan (scans.ts:450), or two supersessions of one scope
  (scope.ts:286), are checked before their transactions: under different idempotency keys both
  succeed (`CreateScanRun`, `SupersedeAuthorizedScope`).
* The token bucket is made anew for each batch (tcp-connect-adapter.ts:455), so a burst is
  allowed at the start of every batch, unlike 197-211 and docs/runbooks/scan-is-stuck.md:43-46.
  A rate of 0 or less is no limit (221): scans.ts:320 asks only for a number and the ceilings of
  scheduling.ts:73 bound it from above, while openapi.yaml:3349 has a minimum of 1. A rate between
  0 and 1 never gives a token, for the bucket holds less than one: `take` goes round for ever, and
  the batch with it, for the timeout is looked at between probes only (mapWithConcurrency).
  The timeout of a batch does not depend on ports and connect timeout. A connection reset after
  it was made counts as unreachable.
* Services of an asset never stop being current, so ports that were closed stay listed.

**Issues, exceptions, verification**

* Revoking an exception the issue no longer links to writes the history row of a
  reopening (`CommitRevoke`; run `issues_revoke`).
* A rejection that read the exception as pending overwrites an approval committed since
  (`CommitReject`, exceptions.ts:331). The issue stays `risk_accepted` under an exception that is
  rejected, and that exception cannot be revoked, for only approved ones can. `RiskAcceptance`
  allows it, as a refusal that has the last word.
* POST /verification-scans looks at scopes and exclusions (scans.ts:847-886) before its
  transaction (940): a scope superseded, or a rule activated, in between is not seen there
  (`CheckVerification`, `CreateVerification`). The rules are read again at dispatch, the
  supersession is not.
* A transition whose `If-Match` was right when it was read overwrites an edit committed
  since (`CommitTransition`, issues.ts:579), unlike ADR 0006:51-53.
* The worker's UPDATE of an issue (process-scan-run.ts:803) may overwrite a decision made
  since its read, unlike its comment at 782-785, and its history row may be lost (427).
* `expires_at` of an exception is read by no job: an accepted risk never lapses.
* A verification whose run saw nothing is `confirmed_resolved` also if the host was down, the
  port was not in the profile, the banner was not captured, or the observation was dropped by the
  catch at 711, although the comment at 734-740 says such runs are inconclusive: `parse` gives
  an observation of a host that answered nothing, so every run that was parsed has evidence. A
  worker that dies between the observation and its link, and starts again, confirms a weakness
  it saw (`VerifierCrash`).
* A run that is aborted or fails, or a crash between the UPDATE to completed and
  `resolveVerificationScans`, leaves the verification `pending` for ever, unlike 726-731.
* A scan that sees the weakness again between the probe of a verification and its promotion
  does not stop the promotion, for `reopened` is promotable (`ReadForPromotion`).

**Audit log**

* A rollback consumes an id, so `isIntact` can be false although nobody touched the table;
  the runbook (appliance-suspected-compromised.md:76-77) reads this as tampering. Entries
  removed from the end leave no trace until another entry is written.
* A DELETE that overlaps a PATCH leaves an entry "updated" for a change that touched no row, and
  the PATCH answers 500 (`Requests`, "reread").

**Rescoring and scores**

* Rescoring moves the scores of issues and leaves `assets.risk_rating` as it was, unlike the
  comment of migration 0012:14-16 (`Rescore`; run `rescore_rating_stale`).
* The batch selects issues of any *other* version, so one that read its policy before a
  publication takes newer scores back to it until the next batch (`Rescore`). A scan may
  write the snapshot of an issue after the rescoring did, so that the newest snapshot, which
  the issue's page shows, explains another score (`InsertSnapshot`).
* An issue whose scan died between its two INSERTs has no snapshot and, under the active
  version, is never selected, unlike process-rescore.ts:29-33 (`ScanFails`, `WorkerCrash`).
* With 200 unscoreable issues before them the others are never rescored; this is what
  `BatchAssumption` excludes. One unscoreable issue keeps the status of the recomputation
  "in_progress" for ever (`RecomputeStatus`).
* FEED-28 (docs/cve-intel-feature-spec.md:94) wants open issues rescored when the catalogue
  changes; rescoring looks at the version of the policy only (`StaleFor`).
* The band of an issue is that of the default bands (risk-scoring.ts:240), not of the policy
  (24-29). A policy whose `knownExploitedMultiplier` is below that of certain exploitation lowers
  the score of an issue that becomes known to be exploited; the route does not check it.

**Intelligence and matching**

* Two ticks may take one import (main.ts:29 and 40). The UPDATE to failed in
  process-intel-import.ts:240-248 and 277-286 looks at the id only, so one of them may mark
  failed what the other has applied (`RefuseImport`): with two pollers TLC finds `AppliedIsFinal`
  and `CorpusIsApplied` violated.
* The entry `intel.egress_window_closed` is missing for an import that was refused by the
  switch or cut off by a crash, and may precede the one that opens the window
  (`RefuseImport`, `RecordOpening`).
* `vulnerability_cpes` is written by migration 0014 and by nothing after it. The import writes
  `vulnerabilities.affected_cpes`, so entries imported later never match, and a fresh appliance
  matches nothing, unlike the comment of the migration.
* The feed is paged by start index over a window that moves, and cut off without a word after
  `MAX_PAGES_PER_SYNC` (process-intel-import.ts:146-189).
* tcp-connect-adapter.ts:263, 356 and 378 read a version with `[\w.]+`, up to the first of
  `-`, `+`, `~`, so the backport penalty of cpe.ts:350-356 never applies to what a scan reads
  (`Captured`). Where it would, 0.40 still counts as corroborated, and no score changes.
* OpenSSH versions such as 8.9p1 do not parse (cpe.ts:132): confidence 0.25.
* Of rows of equal confidence the first stays, so reasons and explanation depend on the order in
  which the database returns them, unlike cpe.ts:449-453. The query is capped at 500 rows without
  an order: the rows beyond are never looked at.
* `matchConfigurationFindings` takes an object (known-vulnerability-seed.ts:383) and is called
  with two arguments (process-scan-run.ts:689): no configuration finding is ever raised.

**Assets**

* An address is inserted after its asset without a transaction. A crash in between leaves an asset
  without an address, and two resolvers, which overlapping ticks give, make two assets of one.
* A merged asset can be merged again, or be the survivor of another merge. Reversing one of two
  merges makes the asset active while the other stays unreversed, and a scan of a merged asset's
  address goes on being recorded for it (`ReverseMerge`, `FindOwner`).
* Names of a host never stop being current.

**Reports, backups, restore, reset, migrations**

* The scope of a report is stored and printed, and filters nothing. An asset with two current
  addresses gives its issues twice. The end of a delta report is midnight, so what was
  first seen during that day is in neither that report nor one that starts the day after
  (process-report.ts:126-170). Issues and data versions are read side by side without a snapshot.
* A restore brings rows back and leaves blobs out though the archive has them: on another
  appliance a report that comes back answers 410, and on this one a report rendered anew since may
  have other contents after a second restore.
  The record of the backup itself comes back as `running` and is done again. File names have
  the precision of a minute.
* `restore --verify --confirm-destructive` restores, although the usage says that --verify
  changes nothing. "Readable and internally consistent" says that the archive decrypts. The
  schema version of the manifest is never compared, unlike backup-archive.ts:42, and an archive
  from before 0002, 0013 or 0015 fails on columns that are NOT NULL since.
* A restore does not set the sequence of `audit_entries`, so the next entry may collide. Recovery
  codes vanish by a cascade. The usage describes an archive that backup-archive.ts does not write.
* The usage of restore.ts:7-8 and of reset.ts runs the command in the live api container, while
  the runbook (restore-from-backup.md, Step 2) stops api, worker and web first. A row that the API or
  the worker commits between two statements makes the command exit with 3, for example an
  observation after `DELETE FROM observations` and before `DELETE FROM assets`, or outlives it
  (`Refer`, `RollBack`, `Commit`).
* 0001_init.up.sql:754-782 and threat-model.md:66, 70 have the API and the worker connect as
  `xenitex_app`, from which DELETE on `audit_entries`, `observations` and `raw_artifacts` is
  revoked, and to which nothing is granted on `intel_settings` (0011; unlike 0008 and 0014). As
  that role every restore and every reset is refused (`Denied`), and every backup. `deploy/compose/.env.example:2`
  connects as the owner, `xenitex`, and then the REVOKE protects nothing from the API.
* A backup whose archive was written is recorded `failed` when the UPDATE to completed is rejected
  (process-backup.ts:165-194, `FailBackup`), and its file stays.
* `reset --scope all` sets `organization_name` to NULL, which is NOT NULL (reset.ts:153): it is
  always rolled back on an appliance that was set up. `findings` and `scans` are rolled back when
  an issue names an exception or an identity key its observation (no SET CONSTRAINTS), or, for
  `scans`, when there is a merge event, unlike reset.ts:81-85.
* `down` reverts the last migration; migrate.integration.test.ts expects that one `down` leaves
  nothing. The README of the migrations says that one constraint is deferred, 0016 defers two.
  A `down` that overlaps an `up` may leave ledger and schema apart.

**Accounts and the wizard**

* `failed_login_count` is read, added to and written back, so simultaneous failures count as one.
  A recovery code, and a challenge, are read and consumed in two commands and can be used twice
  by requests that overlap. A sign-in under way during a change of the password, or of a role,
  keeps its session. A change of role revokes no session. `confirm` does not look at
  `mfa_enabled` again.
* The check that there is no administrator and the INSERT are two statements: two people may both
  become one (`CheckAdministrator`).
* With a mandatory second factor the wizard of the panel ends at the gate: the account it
  made must enrol first, and the wizard shows no screen for it (AppRoot.tsx:36-45; README.md:63-66
  of the repository). `SetupFinishes` is true of a client that does, and TLC finds it violated when
  `Screens` is empty.
* IntelligenceTab.tsx:41 and 106 show to operators what the server lets administrators do.

**Requests and lists**

* A stored answer is read before the work and written after it: a retry that overlaps its request,
  or follows a crash before the answer was stored, makes a second row. `RetryMakesNoRow` is claimed
  of retries sent after the answer. The panel uses a key of its own for each call, and POST /users
  stores no answer though the contract requires the header.
* The contract requires `If-Match` for blackout windows, schedules and fragile-device rules; the
  handlers ignore it. `If-Match: *` is accepted by issues.ts:488, 785 and catalog.ts:837 only;
  elsewhere it is one more ETag that does not match. For asset groups it is optional, and their tag leaves out the description.
* A repeated POST /notification-channels is answered from the store without the ETag, which
  ops.ts:763-767 calls the only way to get one.
* Two publications of SLA policies that overlap leave both active. Profiles stay above ceilings
  that were lowered after them.
* GET /assets cuts its rows before it asks whether there were more (assets.ts:238-246):
  `hasMore` is never true. GET /asset-merge-candidates is sorted by confidence while its cursor is
  an id. These two are given in `Pages` (`ListAssets`, `ListMergeCandidates`) and not walked.
  The cursor of GET /issues holds `String()` of what it is sorted by, which is right for the score,
  as walked here, and not for a date or for none.

## 6. Not modelled

Wording, logging, the text of forms and the answers 400 to them; filters of lists; what a report
prints; the summary of a run; discovery of hosts nobody listed; services of an asset; owner, due
date and comments of an issue, which are contents of its row; delivery of notifications and
application of retention policies, which nothing in the repository does; schedules, from which
nothing starts a run. Dashboards, metrics and health are queries that change nothing. The panel is
present as what its wizard offers at a gate; the mock server is a test double.

Passwords, codes, hashes and encryption are choices of right or wrong. Roles are modelled in
`AccountGates`; in the other modules the handlers' role checks come before everything else, and
the actors are those who pass them. TCP, TLS and the file system are outside.
`identity-resolution.ts` declares interfaces that nothing implements.

## 7. Plan

Done: the scan pipeline, issues and exceptions, the audit log, rescoring, imports, verification,
accounts and the wizard, requests and lists, the adapter, assets, archives, the database commands,
matching, addresses and scores, with the theorems of section 4.

Left, in order of value:

1. An abstract specification of a request ("at most one effect for each key, from what its sender
   saw") that `Requests` refines for requests that do not overlap, as `RiskAcceptance` is for
   exceptions, with its proof.
2. The same for the queue: what a run promises to whoever planned it, that `ScanRuns` refines for
   one poller.
3. The contents of reports and the services of assets.
