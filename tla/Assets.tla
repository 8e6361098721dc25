------------------------------- MODULE Assets -------------------------------
(***************************************************************************)
(* How an asset comes to be and what merging does to it.  The worker finds *)
(* or makes the asset of each address an observation names, statement by   *)
(* statement and without a transaction; analysts merge assets and reverse  *)
(* merges meanwhile, and neither looks at what the other writes.           *)
(*                                                                         *)
(* Services, tags and the answers 400 are left out; PATCH /assets is in    *)
(* Requests.                                                               *)
(***************************************************************************)
EXTENDS Naturals, FiniteSets

CONSTANTS
    Ids,             \* ids that newId may give to assets
    Ips, Hostnames,  \* what an authorized scope lists: addresses and names
    Resolvers,       \* targets being processed at once: one per worker
    Merges,          \* POST /asset-merges and the event each makes
    Reversals,       \* POST /asset-merge-events/{id}/reverse
    None,
    MaxAssetFaults   \* bound on crashes of worker and API

ASSUME AssetFaultsAssumption == MaxAssetFaults \in Nat
ASSUME NoneAssumption == None \notin Ids \cup Ips \cup Hostnames \cup Merges

VARIABLES
    asset,      \* rows of assets: absent, active or merged
    into,       \* merged_into_asset_id
    addresses,  \* current rows of asset_address_history
    hostnames,  \* current rows of asset_hostname_history
    event,      \* rows of asset_merge_events, by the request that inserted them
    resolver,   \* each worker: its await, target, address and asset
    merging,    \* each POST: its await, and what it is about
    reversing,
    assetFaults

assetVars ==
    <<asset, into, addresses, hostnames, event, resolver, merging, reversing, assetFaults>>

rowsOfAssets == <<asset, into>>
histories == <<addresses, hostnames>>
requests == <<merging, reversing>>

Existing == {a \in Ids : asset[a] # "absent"}

\* asset_address_history of the address, which no unique index guards.
OwnersOf(ip) == {x.asset : x \in {y \in addresses : y.ip = ip}}

\* Mutant: what is looked up is the target, before it is resolved.
OwnersByTarget(r) == OwnersOf(resolver[r].target)
OwnersFor(r) == OwnersOf(resolver[r].ip)

\* Mutant: the reversal restores the survivor.
SurvivorOf(e) == event[e].survivor
RestoredBy(e) == event[e].merged

GoesTo(r, to) == resolver' = [resolver EXCEPT ![r].at = to]
Takes(r, to, a) ==
    resolver' = [resolver EXCEPT ![r] = [at |-> to, target |-> @.target, ip |-> @.ip,
                                         asset |-> a]]

-----------------------------------------------------------------------------
AssetInit ==
    /\ asset = [a \in Ids |-> "absent"]
    /\ into = [a \in Ids |-> None]
    /\ addresses = {}
    /\ hostnames = {}
    /\ event = [m \in Merges |-> [survivor |-> None, merged |-> None, reversed |-> FALSE]]
    /\ resolver = [r \in Resolvers |-> [at |-> "idle", target |-> None, ip |-> None,
                                        asset |-> None]]
    /\ merging = [m \in Merges |-> [at |-> "new", survivor |-> None, merged |-> None]]
    /\ reversing = [v \in Reversals |-> [at |-> "new", event |-> None]]
    /\ assetFaults = 0

(* resolveOrCreateAsset *)

\* An address stands for itself; a name has the address the DNS says today.
ResolveTarget(r) ==
    /\ resolver[r].at = "idle"
    /\ \E t \in Ips \cup Hostnames, ip \in Ips :
         /\ t \in Ips => ip = t
         /\ resolver' = [resolver EXCEPT ![r] = [at |-> "resolved", target |-> t, ip |-> ip,
                                                 asset |-> None]]
    /\ UNCHANGED <<rowsOfAssets, histories, event, requests, assetFaults>>

\* A merged asset is found like any other.
FindOwner(r) ==
    /\ resolver[r].at = "resolved"
    /\ \E a \in OwnersFor(r) : Takes(r, "found", a)
    /\ UNCHANGED <<rowsOfAssets, histories, event, requests, assetFaults>>

FindNoOwner(r) ==
    /\ resolver[r].at = "resolved"
    /\ OwnersFor(r) = {}
    /\ GoesTo(r, "unknown")
    /\ UNCHANGED <<rowsOfAssets, histories, event, requests, assetFaults>>

InsertAsset(r) ==
    /\ resolver[r].at = "unknown"
    /\ Existing # Ids
    /\ LET a == CHOOSE a \in Ids : a \notin Existing
       IN  /\ asset' = [asset EXCEPT ![a] = "active"]
           /\ Takes(r, "inserted", a)
    /\ UNCHANGED <<into, histories, event, requests, assetFaults>>

InsertAddress(r) ==
    /\ resolver[r].at = "inserted"
    /\ addresses' = addresses \cup {[asset |-> resolver[r].asset, ip |-> resolver[r].ip]}
    /\ GoesTo(r, "found")
    /\ UNCHANGED <<rowsOfAssets, hostnames, event, requests, assetFaults>>

\* upsertHostnameHistory; no name ever stops being current.
KeepHostname(r) ==
    /\ resolver[r].at = "found"
    /\ hostnames' = IF resolver[r].target \in Hostnames
                    THEN hostnames \cup {[asset |-> resolver[r].asset,
                                          name |-> resolver[r].target]}
                    ELSE hostnames
    /\ GoesTo(r, "idle")
    /\ UNCHANGED <<rowsOfAssets, addresses, event, requests, assetFaults>>

Resolver(r) ==
    \/ ResolveTarget(r) \/ FindOwner(r) \/ FindNoOwner(r)
    \/ InsertAsset(r) \/ InsertAddress(r) \/ KeepHostname(r)

(* POST /asset-merges *)

\* Both exist and differ; their states are not looked at.
CheckMerge(m) ==
    /\ merging[m].at = "new"
    /\ \E a, b \in Existing :
         /\ a # b
         /\ merging' = [merging EXCEPT ![m] = [at |-> "checked", survivor |-> a,
                                               merged |-> b]]
    /\ UNCHANGED <<rowsOfAssets, histories, event, resolver, reversing, assetFaults>>

MergeAssets(m) ==
    /\ merging[m].at = "checked"
    /\ asset' = [asset EXCEPT ![merging[m].merged] = "merged"]
    /\ into' = [into EXCEPT ![merging[m].merged] = merging[m].survivor]
    /\ event' = [event EXCEPT ![m] = [survivor |-> merging[m].survivor,
                                      merged |-> merging[m].merged, reversed |-> FALSE]]
    /\ merging' = [merging EXCEPT ![m].at = "done"]
    /\ UNCHANGED <<histories, resolver, reversing, assetFaults>>

(* POST /asset-merge-events/{id}/reverse *)

\* 422 when it was reversed before.
CheckReversal(v) ==
    /\ reversing[v].at = "new"
    /\ \E e \in Merges :
         /\ event[e].merged # None
         /\ ~event[e].reversed
         /\ reversing' = [reversing EXCEPT ![v] = [at |-> "checked", event |-> e]]
    /\ UNCHANGED <<rowsOfAssets, histories, event, resolver, merging, assetFaults>>

\* Whatever merged the asset since is undone as well, and stays unreversed.
ReverseMerge(v) ==
    LET e == reversing[v].event IN
    /\ reversing[v].at = "checked"
    /\ asset' = [asset EXCEPT ![RestoredBy(e)] = "active"]
    /\ into' = [into EXCEPT ![RestoredBy(e)] = None]
    /\ event' = [event EXCEPT ![e].reversed = TRUE]
    /\ reversing' = [reversing EXCEPT ![v].at = "done"]
    /\ UNCHANGED <<histories, resolver, merging, assetFaults>>

(* Faults *)

\* An asset without an address stays behind.
ResolverCrash(r) ==
    /\ assetFaults < MaxAssetFaults
    /\ assetFaults' = assetFaults + 1
    /\ resolver[r].at # "idle"
    /\ GoesTo(r, "idle")
    /\ UNCHANGED <<rowsOfAssets, histories, event, requests>>

AssetNext ==
    \/ \E r \in Resolvers : Resolver(r) \/ ResolverCrash(r)
    \/ \E m \in Merges : CheckMerge(m) \/ MergeAssets(m)
    \/ \E v \in Reversals : CheckReversal(v) \/ ReverseMerge(v)

AssetSpec == AssetInit /\ [][AssetNext]_assetVars

-----------------------------------------------------------------------------
(* Properties *)

\* Every variable has its type.
AssetTypeOK ==
    /\ asset \in [Ids -> {"absent", "active", "merged"}]
    /\ into \in [Ids -> Existing \cup {None}]
    /\ addresses \subseteq [asset : Existing, ip : Ips]
    /\ hostnames \subseteq [asset : Existing, name : Hostnames]
    /\ event \in [Merges -> [survivor : Existing \cup {None}, merged : Existing \cup {None},
                             reversed : BOOLEAN]]
    /\ resolver \in [Resolvers -> [at : {"idle", "resolved", "found", "unknown", "inserted"},
                                   target : Ips \cup Hostnames \cup {None},
                                   ip : Ips \cup {None}, asset : Existing \cup {None}]]
    /\ merging \in [Merges -> [at : {"new", "checked", "done"},
                               survivor : Existing \cup {None},
                               merged : Existing \cup {None}]]
    /\ reversing \in [Reversals -> [at : {"new", "checked", "done"},
                                    event : Merges \cup {None}]]
    /\ assetFaults \in 0..MaxAssetFaults

\* An address that is scanned again, under its own name or a host's, after a
\* crash or after a merge, leads to the asset it led to before: no address
\* belongs to two assets.
OneAssetPerAddress == \A ip \in Ips : Cardinality(OwnersOf(ip)) <= 1

\* MOD-06, merges are reversible: a merged asset has an event that names it
\* and its survivor and is still to be reversed, however merges and reversals
\* of the same asset overlap.
MergedIsReversible ==
    \A a \in Ids :
        asset[a] = "merged" =>
            \E e \in Merges :
                /\ event[e].merged = a /\ event[e].survivor = into[a]
                /\ ~event[e].reversed

=============================================================================
