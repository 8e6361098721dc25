----------------------------- MODULE AuditChain -----------------------------
(***************************************************************************)
(* The audit log: transactions append entries that each hash the one       *)
(* before, one at a time under an advisory lock, and verifyAuditChain      *)
(* looks for what was altered or removed by someone with access to the     *)
(* table.  Ids come from a sequence, which a rollback does not turn back.  *)
(*                                                                         *)
(* A hash is the list of what was hashed since the genesis value: SHA-256  *)
(* without collisions.  An entry is its payload and the four chain columns.*)
(***************************************************************************)
EXTENDS Naturals, Sequences

CONSTANTS
    Txns,           \* transactions in progress together
    Payloads,       \* contents of an entry
    Simple,         \* those with at most one key in before_state and after_state
    NoEntry,        \* no row has this id
    MaxId,          \* bound on the ids taken from the sequence
    MaxLegacy       \* bound on the entries older than migration 0013

ASSUME PayloadsAssumption == Simple \subseteq Payloads /\ NoEntry \notin Payloads

ASSUME BoundsAssumption == MaxId \in Nat /\ MaxLegacy \in Nat /\ MaxLegacy <= MaxId

VARIABLES
    entry,          \* audit_entries by id, uncommitted rows too
    committed,      \* ids of the rows everybody sees
    nextId,         \* the sequence behind bigserial
    pc,             \* where insertAuditEntry is in each transaction
    mine,           \* id of the row a transaction has inserted, or 0
    last,           \* prevEntryHash of a transaction
    \* history, read by properties only
    written,        \* the payload each id was inserted with
    removed,        \* ids deleted behind the back of the application
    emptied         \* the highest id taken when the table was last emptied

locals  == <<pc, mine, last>>
history == <<written, removed, emptied>>
vars    == <<entry, committed, nextId, locals, history>>

Ids == 1..MaxId

-----------------------------------------------------------------------------
\* jsonb does not keep the order in which the keys were inserted.
KeyOrder == {"inserted", "stored"}

\* canonicalJson since version 2, JSON.stringify before.  Mutant: JSON.stringify.
Stringify(version, order, x) == <<x, IF x \in Simple THEN "stored" ELSE order>>
Serialise(version, order, x) ==
    <<x, IF version >= 2 \/ x \in Simple THEN "stored" ELSE order>>

Hashes == Seq(Payloads \X KeyOrder)

\* computeEntryHash
EntryHash(version, order, x, prev) == Append(prev, Serialise(version, order, x))

\* GENESIS_HASH.  Mutant: the hash of the row that is not there.
Undefined == "undefined"
Genesis == <<>>

Entry(version, x, prev) ==
    [version |-> version, payload |-> x, prev |-> prev,
     hash |-> EntryHash(version, "inserted", x, prev)]

\* The entries the release before migration 0013 left behind.
LegacyHash(s, k) == [j \in 1..k |-> Serialise(1, "inserted", s[j])]
LegacyEntry(s, k) ==
    [version |-> 1, payload |-> s[k], prev |-> LegacyHash(s, k - 1),
     hash |-> LegacyHash(s, k)]

Init ==
    /\ \E n \in 0..MaxLegacy : \E s \in [1..n -> Payloads] :
          /\ entry = [k \in Ids |-> IF k <= n THEN LegacyEntry(s, k) ELSE NoEntry]
          /\ written = [k \in Ids |-> IF k <= n THEN s[k] ELSE NoEntry]
          /\ committed = 1..n
          /\ nextId = n + 1
    /\ pc = [t \in Txns |-> "idle"]
    /\ mine = [t \in Txns |-> 0]
    /\ last = [t \in Txns |-> <<>>]
    /\ removed = {}
    /\ emptied = 0

-----------------------------------------------------------------------------
(* appendAuditEntry, inside the transaction of its caller or in its own *)

\* pg_advisory_xact_lock is held to the end of the transaction.  Mutant: no lock.
NoLock(t) == TRUE
LockFree(t) == \A u \in Txns \ {t} : pc[u] = "idle"

Lock(t) ==
    /\ pc[t] = "idle"
    /\ LockFree(t)
    /\ pc' = [pc EXCEPT ![t] = "reading"]
    /\ UNCHANGED <<entry, committed, nextId, mine, last, history>>

\* The newest entry by id, as the transaction sees the table.
ReadFirst(t) ==
    /\ pc[t] = "reading"
    /\ committed = {}
    /\ pc' = [pc EXCEPT ![t] = "hashing"]
    /\ last' = [last EXCEPT ![t] = Genesis]
    /\ UNCHANGED <<entry, committed, nextId, mine, history>>

ReadLast(t, k) ==
    /\ pc[t] = "reading"
    /\ k \in committed
    /\ \A j \in committed : j <= k
    /\ pc' = [pc EXCEPT ![t] = "hashing"]
    /\ last' = [last EXCEPT ![t] = entry[k].hash]
    /\ UNCHANGED <<entry, committed, nextId, mine, history>>

Insert(t, x) ==
    /\ pc[t] = "hashing"
    /\ nextId <= MaxId
    /\ entry' = [entry EXCEPT ![nextId] = Entry(2, x, last[t])]
    /\ written' = [written EXCEPT ![nextId] = x]
    /\ nextId' = nextId + 1
    /\ mine' = [mine EXCEPT ![t] = nextId]
    /\ pc' = [pc EXCEPT ![t] = "inserted"]
    /\ UNCHANGED <<committed, last, removed, emptied>>

Finish(t) ==
    /\ pc' = [pc EXCEPT ![t] = "idle"]
    /\ mine' = [mine EXCEPT ![t] = 0]
    /\ last' = [last EXCEPT ![t] = <<>>]

Commit(t) ==
    /\ pc[t] = "inserted"
    /\ committed' = committed \cup {mine[t]}
    /\ Finish(t)
    /\ UNCHANGED <<entry, nextId, history>>

\* A statement fails, the caller throws, the process dies.
RollbackEarly(t) ==
    /\ pc[t] \in {"reading", "hashing"}
    /\ Finish(t)
    /\ UNCHANGED <<entry, committed, nextId, history>>

RollbackInsert(t) ==
    /\ pc[t] = "inserted"
    /\ entry' = [entry EXCEPT ![mine[t]] = NoEntry]
    /\ Finish(t)
    /\ UNCHANGED <<committed, nextId, history>>

-----------------------------------------------------------------------------
(* Someone with access to the table *)

Alter(k, x) ==
    /\ k \in committed
    /\ entry' = [entry EXCEPT ![k].payload = x]
    /\ UNCHANGED <<committed, nextId, locals, history>>

Remove(k) ==
    /\ k \in committed
    /\ entry' = [entry EXCEPT ![k] = NoEntry]
    /\ committed' = committed \ {k}
    /\ removed' = removed \cup {k}
    /\ emptied' = IF committed = {k} THEN nextId - 1 ELSE emptied
    /\ UNCHANGED <<nextId, locals, written>>

Tamper == \E k \in Ids : Remove(k) \/ (\E x \in Payloads : Alter(k, x))

Step(t) ==
    \/ Lock(t) \/ ReadFirst(t) \/ (\E k \in Ids : ReadLast(t, k))
    \/ (\E x \in Payloads : Insert(t, x)) \/ Commit(t)
    \/ RollbackEarly(t) \/ RollbackInsert(t)

Next == (\E t \in Txns : Step(t)) \/ Tamper

Spec == Init /\ [][Next]_vars

-----------------------------------------------------------------------------
(* verifyAuditChain: one SELECT of the committed rows in the order of ids *)

IsOldest(k) == \A j \in committed : k <= j

IsBefore(j, k) ==
    /\ j \in committed
    /\ j < k
    /\ \A i \in committed : i <= j \/ k <= i

\* previousId.  Mutant: ids are not looked at.
IgnoreIds(k) == FALSE
IsGap(k) == ~IsOldest(k) /\ k - 1 \notin committed
Gaps == {k \in committed : IsGap(k)}

\* Applies to every version.
LinkageIntact(k) ==
    /\ IsOldest(k) => entry[k].prev = <<>>
    /\ \A j \in committed : IsBefore(j, k) => entry[k].prev = entry[j].hash

PayloadIntact(k) ==
    entry[k].hash = EntryHash(entry[k].version, "stored", entry[k].payload, entry[k].prev)

HashMismatches ==
    {k \in committed : ~LinkageIntact(k) \/ (~PayloadIntact(k) /\ entry[k].version >= 2)}

IsIntact == Gaps = {} /\ HashMismatches = {}

-----------------------------------------------------------------------------
(* Properties *)

Entries == [version : {1, 2}, payload : Payloads, prev : Hashes, hash : Hashes]

\* Every variable has its type.
TypeOK ==
    /\ entry \in [Ids -> Entries \cup {NoEntry}]
    /\ committed \in SUBSET Ids
    /\ nextId \in 1..(MaxId + 1)
    /\ pc \in [Txns -> {"idle", "reading", "hashing", "inserted"}]
    /\ mine \in [Txns -> Ids \cup {0}]
    /\ last \in [Txns -> Hashes]
    /\ written \in [Ids -> Payloads \cup {NoEntry}]
    /\ removed \in SUBSET Ids
    /\ emptied \in 0..MaxId

\* DATA-02, migration 0013: while nothing was removed, the entries reported as
\* mismatches are those altered since they were written, and none besides,
\* however appends overlap, fail or roll back.
MismatchesAreTheAltered ==
    removed = {} =>
        HashMismatches = {k \in committed : /\ entry[k].version >= 2
                                            /\ entry[k].payload # written[k]}

\* DATA-02: an entry removed from before another is missed, unless the whole
\* table was emptied since: appending goes on, and the chain is not intact.
RemovalIsSeen ==
    \A j \in removed, k \in committed : j < k /\ emptied < j => ~IsIntact

\* DATA-02: the order of commits is the order of ids: no reader of the log is
\* later shown an entry before the one it read last.
CommitsAtTheEnd ==
    [][\A k \in committed' \ committed : \A j \in committed : j < k]_vars

=============================================================================
