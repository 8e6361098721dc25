----------------------------- MODULE Rescoring ------------------------------
(***************************************************************************)
(* Risk scores against a moving policy: an administrator publishes         *)
(* policies, a scan scores the issues it creates with the policy it read   *)
(* when it started, and the worker brings every other issue forward, one   *)
(* batch for each tick.  A score is the version of the policy it was       *)
(* computed with; its arithmetic is that of RiskScoring.                   *)
(* All issues are of one asset.                                            *)
(*                                                                         *)
(* Issues are numbers because a batch is taken in the order of their ids.  *)
(***************************************************************************)
EXTENDS Naturals, FiniteSets

CONSTANTS
    Issues,        \* the issues scans create, numbered in the order of their ids
    Unscoreable,   \* issues for which computeRiskScore throws by now
    Publishers,    \* POST /risk-scoring-policies, one request each
    BatchSize,     \* RESCORE_BATCH_SIZE
    MaxRescoreFaults \* bound on crashes and thrown errors in a behaviour

ASSUME IssuesAssumption ==
    /\ Issues \subseteq Nat
    /\ Unscoreable \subseteq Issues
ASSUME PublishersAssumption == IsFiniteSet(Publishers)
ASSUME BatchAssumption ==
    /\ BatchSize \in Nat
    /\ Cardinality(Unscoreable) < BatchSize
ASSUME RescoreFaultsAssumption == MaxRescoreFaults \in Nat

VARIABLES
    \* database
    active,        \* version of the policy with is_active; it is the latest
    version,       \* issues.risk_score_policy_version, 0 when there is no row
    snapshots,     \* versions in issue_risk_score_snapshots of each issue
    unrated,       \* issues whose score is not the one the asset was rated by
    \* API process
    publisher,     \* the await of each request
    latest,        \* the version each request read
    \* worker process: one batch, and the scan that creates issues
    pass,          \* the await of processRescoreBatch
    policy,        \* policy.version of the batch
    stale,         \* issues of the batch not yet scored
    scan,          \* the await of the scan
    scanPolicy,    \* riskPolicy.version of the scan
    found,         \* the issue the scan is creating, as a set
    changed,       \* issues whose score changed since the scan read it
    rescoreFaults, \* crashes and errors so far
    \* history, read by properties only
    carried        \* the versions each issue was rescored to

scores == <<active, version, snapshots, unrated>>
posts  == <<publisher, latest>>
batch  == <<pass, policy, stale>>
scanning == <<scan, scanPolicy, found, changed>>
rescoreVars == <<scores, posts, batch, scanning, rescoreFaults, carried>>

\* Mutant: one issue that cannot be scored ends the batch.
RestAbandoned(i) == {}
RestOf(i) == stale \ {i}

\* The snapshots of an issue after one more.  Mutant: it replaces them.
Overwritten(i, v) == {v}
Appended(i, v) == snapshots[i] \cup {v}

\* Issues with a score of another policy, older or newer.
StaleFor(v) == {i \in Issues : version[i] # 0 /\ version[i] # v}

\* ORDER BY id LIMIT RESCORE_BATCH_SIZE.
FirstOf(S) == {i \in S : Cardinality({j \in S : j < i}) < BatchSize}

\* GET /risk-scoring-policies/{version}/recompute-status counts rows: an issue
\* that cannot be scored keeps it from ever being completed, and one that a
\* scan creates with the policy before takes it back to in_progress.
RecomputeStatus(v) ==
    IF Cardinality({i \in Issues : version[i] = v})
         >= Cardinality({i \in Issues : version[i] # 0})
    THEN "completed" ELSE "in_progress"

\* The policy of migration 0012, version 2.  Mutant: it is left out.
NotSeeded == 0
Seeded == 2

-----------------------------------------------------------------------------
RescoreInit ==
    /\ active = Seeded
    /\ version = [i \in Issues |-> 0]
    /\ snapshots = [i \in Issues |-> {}]
    /\ unrated = {}
    /\ publisher = [a \in Publishers |-> "new"]
    /\ latest = [a \in Publishers |-> 0]
    /\ pass = "idle"
    /\ policy = 0
    /\ stale = {}
    /\ scan = "idle"
    /\ scanPolicy = 0
    /\ found = {}
    /\ changed = {}
    /\ rescoreFaults = 0
    /\ carried = [i \in Issues |-> {}]

-----------------------------------------------------------------------------
(* POST /risk-scoring-policies *)

ReadLatest(a) ==
    /\ publisher[a] = "new"
    /\ latest' = [latest EXCEPT ![a] = active]
    /\ publisher' = [publisher EXCEPT ![a] = "publishing"]
    /\ UNCHANGED <<scores, batch, scanning, rescoreFaults, carried>>

\* One transaction stands the old policy down and the new one up.
Publish(a) ==
    /\ publisher[a] = "publishing"
    /\ latest[a] = active
    /\ active' = latest[a] + 1
    /\ publisher' = [publisher EXCEPT ![a] = "done"]
    /\ UNCHANGED <<version, snapshots, unrated, latest, batch, scanning,
                   rescoreFaults, carried>>

\* Another request took the version: UNIQUE (version) rolls the transaction back.
PublishTooLate(a) ==
    /\ publisher[a] = "publishing"
    /\ latest[a] # active
    /\ publisher' = [publisher EXCEPT ![a] = "done"]
    /\ UNCHANGED <<scores, latest, batch, scanning, rescoreFaults, carried>>

-----------------------------------------------------------------------------
(* The worker: pollRescoreOnce and processRescoreBatch.  The flag is tested *)
(* and set before the first await, so there is one batch at a time.         *)

ReadPolicy ==
    /\ pass = "idle"
    /\ policy' = active
    /\ pass' = "selecting"
    /\ UNCHANGED <<scores, posts, stale, scanning, rescoreFaults, carried>>

SelectStale ==
    /\ pass = "selecting"
    /\ stale' = FirstOf(StaleFor(policy))
    /\ pass' = IF stale' = {} THEN "idle" ELSE "scoring"
    /\ policy' = IF stale' = {} THEN 0 ELSE policy
    /\ UNCHANGED <<scores, posts, scanning, rescoreFaults, carried>>

\* The loop takes the rows of the batch in the order of their ids.
IsNextIssue(i) == i \in stale /\ \A j \in stale : i <= j

\* The UPDATE and the snapshot are one transaction.  The condition on the
\* version in the UPDATE holds: no other batch runs.
Rescore(i) ==
    /\ pass = "scoring"
    /\ IsNextIssue(i)
    /\ i \notin Unscoreable
    /\ version' = [version EXCEPT ![i] = policy]
    /\ snapshots' = [snapshots EXCEPT ![i] = Appended(i, policy)]
    /\ unrated' = unrated \cup {i}
    /\ changed' = IF scan = "rating" THEN changed \cup {i} ELSE {}
    /\ carried' = [carried EXCEPT ![i] = @ \cup {policy}]
    /\ stale' = stale \ {i}
    /\ UNCHANGED <<active, posts, pass, policy, scan, scanPolicy, found, rescoreFaults>>

\* computeRiskScore throws: it is logged and the batch goes on.
SkipUnscoreable(i) ==
    /\ pass = "scoring"
    /\ IsNextIssue(i)
    /\ i \in Unscoreable
    /\ stale' = RestOf(i)
    /\ UNCHANGED <<scores, posts, pass, policy, scanning, rescoreFaults, carried>>

CountRemaining ==
    /\ pass = "scoring"
    /\ stale = {}
    /\ pass' = "idle"
    /\ policy' = 0
    /\ UNCHANGED <<scores, posts, stale, scanning, rescoreFaults, carried>>

Batch ==
    \/ ReadPolicy \/ SelectStale \/ CountRemaining
    \/ \E i \in Issues : Rescore(i) \/ SkipUnscoreable(i)

-----------------------------------------------------------------------------
(* The worker: upsertIssue in a scan run, for an issue not seen before. *)

StartScan ==
    /\ scan = "idle"
    /\ scanPolicy' = active
    /\ scan' = "observing"
    /\ UNCHANGED <<scores, posts, batch, found, changed, rescoreFaults, carried>>

\* newId is a UUIDv7: ids follow the order of creation.
InsertIssue(i) ==
    /\ scan = "observing"
    /\ version[i] = 0
    /\ \A j \in Issues : j < i => version[j] # 0
    /\ version' = [version EXCEPT ![i] = scanPolicy]
    /\ found' = {i}
    /\ unrated' = unrated \cup {i}
    /\ scan' = "snapshot"
    /\ UNCHANGED <<active, snapshots, posts, batch, scanPolicy, changed,
                   rescoreFaults, carried>>

InsertSnapshot ==
    /\ scan = "snapshot"
    /\ snapshots' = [i \in Issues |-> IF i \in found THEN Appended(i, scanPolicy)
                                      ELSE snapshots[i]]
    /\ scan' = "reading"
    /\ UNCHANGED <<active, version, unrated, posts, batch, scanPolicy, found, changed,
                   rescoreFaults, carried>>

\* recomputeAssetRiskRating reads every issue of the asset ...
ReadScores ==
    /\ scan = "reading"
    /\ changed' = {}
    /\ scan' = "rating"
    /\ UNCHANGED <<scores, posts, batch, scanPolicy, found, rescoreFaults, carried>>

\* ... and writes what it makes of them.
RateAsset ==
    /\ scan = "rating"
    /\ unrated' = changed
    /\ found' = {}
    /\ changed' = {}
    /\ scan' = "observing"
    /\ UNCHANGED <<active, version, snapshots, posts, batch, scanPolicy,
                   rescoreFaults, carried>>

EndScan ==
    /\ scan = "observing"
    /\ scan' = "idle"
    /\ scanPolicy' = 0
    /\ UNCHANGED <<scores, posts, batch, found, changed, rescoreFaults, carried>>

Scan ==
    \/ StartScan \/ (\E i \in Issues : InsertIssue(i)) \/ InsertSnapshot
    \/ ReadScores \/ RateAsset \/ EndScan

-----------------------------------------------------------------------------
(* Faults *)

Failing == rescoreFaults < MaxRescoreFaults /\ rescoreFaults' = rescoreFaults + 1

\* A statement of the batch rejects before the loop or after it.
BatchFails ==
    /\ Failing
    /\ pass \in {"selecting", "scoring"}
    /\ pass = "scoring" => stale = {}
    /\ pass' = "idle"
    /\ policy' = 0
    /\ stale' = {}
    /\ UNCHANGED <<scores, posts, scanning, carried>>

\* A transaction rejects: it leaves nothing, and the batch goes on.
RescoreFails(i) ==
    /\ Failing
    /\ pass = "scoring"
    /\ IsNextIssue(i)
    /\ stale' = RestOf(i)
    /\ UNCHANGED <<scores, posts, pass, policy, scanning, carried>>

\* A statement of upsertIssue rejects: the rest of the observation is dropped.
ScanFails ==
    /\ Failing
    /\ scan \in {"snapshot", "reading", "rating"}
    /\ scan' = "observing"
    /\ found' = {}
    /\ changed' = {}
    /\ UNCHANGED <<scores, posts, batch, scanPolicy, carried>>

WorkerCrash ==
    /\ Failing
    /\ pass # "idle" \/ scan # "idle"
    /\ pass' = "idle"
    /\ policy' = 0
    /\ stale' = {}
    /\ scan' = "idle"
    /\ scanPolicy' = 0
    /\ found' = {}
    /\ changed' = {}
    /\ UNCHANGED <<scores, posts, carried>>

-----------------------------------------------------------------------------
RescoreNext ==
    \/ \E a \in Publishers : ReadLatest(a) \/ Publish(a) \/ PublishTooLate(a)
    \/ Batch \/ Scan
    \/ (\E i \in Issues : RescoreFails(i))
    \/ BatchFails \/ ScanFails \/ WorkerCrash

RescoreSpec == RescoreInit /\ [][RescoreNext]_rescoreVars

-----------------------------------------------------------------------------
(* Properties *)

Versions == 2..(2 + Cardinality(Publishers))

\* Every variable has its type.
RescoreTypeOK ==
    /\ active \in Versions
    /\ version \in [Issues -> Versions \cup {0}]
    /\ snapshots \in [Issues -> SUBSET Versions]
    /\ unrated \in SUBSET Issues
    /\ publisher \in [Publishers -> {"new", "publishing", "done"}]
    /\ latest \in [Publishers -> Versions \cup {0}]
    /\ pass \in {"idle", "selecting", "scoring"}
    /\ policy \in Versions \cup {0}
    /\ stale \in SUBSET Issues
    /\ scan \in {"idle", "observing", "snapshot", "reading", "rating"}
    /\ scanPolicy \in Versions \cup {0}
    /\ found \in SUBSET Issues
    /\ changed \in SUBSET Issues
    /\ rescoreFaults \in 0..MaxRescoreFaults
    /\ carried \in [Issues -> SUBSET Versions]

\* MOD-18: an issue keeps a snapshot of every score the recomputation gave it,
\* whatever was published, scanned, refused or lost in a crash since.
HistoryIsWhole == \A i \in Issues : carried[i] \subseteq snapshots[i]

\* MOD-18: once policies stop changing every issue that can be scored carries
\* the active one, although some cannot be scored and come first.
EveryIssueReachesActive ==
    \A i \in Issues \ Unscoreable : []<>(version[i] \in {0, active})

\* Migration 0012: the rating of an asset is recomputed whenever one of its
\* issues is created or updated, so when the worker is at rest and the API says
\* that the active policy is fully applied the rating is of the scores they have.
RatingFollowsScores ==
    /\ pass = "idle" /\ scan = "idle" /\ rescoreFaults = 0
    /\ RecomputeStatus(active) = "completed"
    => unrated = {}

=============================================================================
