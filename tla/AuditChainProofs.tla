-------------------------- MODULE AuditChainProofs --------------------------
(***************************************************************************)
(* Theorems about AuditChain for any number of overlapping transactions,   *)
(* any set of payloads and any number of entries.                          *)
(***************************************************************************)
EXTENDS AuditChain, SequenceTheorems, FiniteSetTheorems, TLAPS

-----------------------------------------------------------------------------
(* The hash *)

LEMMA SerialiseType ==
    ASSUME NEW version \in {1, 2}, NEW order \in KeyOrder, NEW x \in Payloads
    PROVE  Serialise(version, order, x) \in Payloads \X KeyOrder
  BY DEF Serialise, KeyOrder

\* A hash is a hash, and never the genesis value.
LEMMA HashType ==
    ASSUME NEW version \in {1, 2}, NEW order \in KeyOrder, NEW x \in Payloads,
           NEW prev \in Hashes
    PROVE  /\ EntryHash(version, order, x, prev) \in Hashes
           /\ EntryHash(version, order, x, prev) # <<>>
  BY SerialiseType, AppendProperties DEF EntryHash, Hashes

\* Since version 2 the verifier recomputes the hash of an entry exactly when the
\* payload is the one that was hashed.
LEMMA HashTellsPayloads ==
    ASSUME NEW x \in Payloads, NEW y \in Payloads, NEW prev \in Hashes
    PROVE  EntryHash(2, "inserted", x, prev) = EntryHash(2, "stored", y, prev) <=> x = y
<1>1. /\ Serialise(2, "inserted", x) \in Payloads \X KeyOrder
      /\ Serialise(2, "stored", y) \in Payloads \X KeyOrder
  BY SerialiseType DEF KeyOrder
<1>2. Serialise(2, "inserted", x) = Serialise(2, "stored", y) <=> x = y
  BY DEF Serialise
<1>3. EntryHash(2, "inserted", x, prev) = EntryHash(2, "stored", y, prev)
         <=> Serialise(2, "inserted", x) = Serialise(2, "stored", y)
  BY <1>1, AppendInjective DEF EntryHash, Hashes
<1> QED
  BY <1>2, <1>3

LEMMA EntryFacts ==
    ASSUME NEW x \in Payloads, NEW prev \in Hashes
    PROVE  /\ Entry(2, x, prev) \in Entries
           /\ Entry(2, x, prev).version = 2
           /\ Entry(2, x, prev).payload = x
           /\ Entry(2, x, prev).prev = prev
           /\ Entry(2, x, prev).hash = EntryHash(2, "inserted", x, prev)
           /\ Entry(2, x, prev).hash # <<>>
<1>1. /\ EntryHash(2, "inserted", x, prev) \in Hashes
      /\ EntryHash(2, "inserted", x, prev) # <<>>
  BY HashType DEF KeyOrder
<1> QED
  BY <1>1 DEF Entry, Entries

\* The chain an older release left behind is well typed and linked.
LEMMA LegacyFacts ==
    ASSUME NEW n \in Nat, NEW s \in [1..n -> Payloads], NEW k \in 1..n
    PROVE  /\ LegacyEntry(s, k) \in Entries
           /\ LegacyEntry(s, k).version = 1
           /\ LegacyEntry(s, k).hash = LegacyHash(s, k)
           /\ LegacyEntry(s, k).prev = LegacyHash(s, k - 1)
           /\ LegacyHash(s, k) # <<>>
           /\ k = 1 <=> LegacyHash(s, k - 1) = <<>>
<1>1. ASSUME NEW m \in 0..n
      PROVE  LegacyHash(s, m) \in Hashes /\ Len(LegacyHash(s, m)) = m
  <2>1. \A j \in 1..m : Serialise(1, "inserted", s[j]) \in Payloads \X KeyOrder
    BY SerialiseType DEF KeyOrder
  <2>2. LegacyHash(s, m) \in [1..m -> Payloads \X KeyOrder]
    BY <2>1 DEF LegacyHash
  <2> QED
    BY <2>2 DEF Hashes
<1>2. k \in 0..n /\ k - 1 \in 0..n
  OBVIOUS
<1>3. /\ LegacyHash(s, k) \in Hashes /\ Len(LegacyHash(s, k)) = k
      /\ LegacyHash(s, k - 1) \in Hashes /\ Len(LegacyHash(s, k - 1)) = k - 1
  BY <1>1, <1>2
<1>4. /\ LegacyHash(s, k) # <<>>
      /\ k = 1 <=> LegacyHash(s, k - 1) = <<>>
  BY <1>3, EmptySeq DEF Hashes
<1> QED
  BY <1>3, <1>4 DEF LegacyEntry, Entries

\* A finite set of ids with a member above j has a least one: the one with the
\* smallest set of ids between j and itself.
LEMMA LeastAbove ==
    ASSUME NEW S \in SUBSET Ids, NEW j \in Ids, \E k \in S : j < k
    PROVE  \E k \in S : j < k /\ \A i \in S : j < i => k <= i
<1> DEFINE Between(k) == {i \in S : j < i /\ i < k}
           T == {B \in SUBSET Ids : \E k \in S : j < k /\ B = Between(k)}
<1>1. IsFiniteSet(Ids)
  BY FS_Interval, BoundsAssumption DEF Ids
<1>2. IsWellFoundedOn(StrictSubsetOrdering(Ids), SUBSET Ids)
  BY <1>1, FS_StrictSubsetOrderingWellFounded, FS_FiniteSubsetsOfFinite
<1>3. T \subseteq SUBSET Ids /\ T # {}
  <2>1. PICK k \in S : j < k
    OBVIOUS
  <2>2. Between(k) \in T
    BY <2>1
  <2> QED
    BY <2>2
<1>4. PICK B \in T : \A C \in T : <<C, B>> \notin StrictSubsetOrdering(Ids)
  BY <1>2, <1>3, WFMin
<1>5. PICK k \in S : j < k /\ B = Between(k)
  OBVIOUS
<1>6. ASSUME NEW i \in S, j < i, ~(k <= i) PROVE FALSE
  <2>1. i < k /\ i \in Between(k)
    BY <1>6, BoundsAssumption DEF Ids
  <2>2. Between(i) \subseteq Between(k) /\ i \notin Between(i)
    <3>1. \A a \in S : a \in Int
      BY BoundsAssumption DEF Ids
    <3>2. \A a \in S : a < i => a < k
      BY <2>1, <3>1
    <3>3. ~(i < i)
      BY <3>1
    <3> QED
      BY <3>2, <3>3
  <2>3. Between(i) \in T
    BY <1>6
  <2> QED
    BY <1>4, <1>5, <2>1, <2>2, <2>3 DEF StrictSubsetOrdering
<1> QED
  BY <1>5, <1>6

-----------------------------------------------------------------------------
(* The strengthened invariant *)

\* What holds of a row, altered or not: the hash is that of what was inserted.
Row(k) ==
    /\ k \in Ids /\ k < nextId
    /\ entry[k] \in Entries
    /\ written[k] \in Payloads
    /\ entry[k].hash # <<>>
    /\ entry[k].version >= 2 =>
          entry[k].hash = EntryHash(2, "inserted", written[k], entry[k].prev)

\* The row of a transaction comes after all that others see.
Draft(t) ==
    /\ Row(mine[t])
    /\ mine[t] \notin removed
    /\ \A j \in committed : j < mine[t]

Rows ==
    /\ \A k \in committed : Row(k)
    /\ \A t \in Txns : pc[t] = "inserted" => Draft(t)
    /\ \A j \in removed : j < nextId /\ j \notin committed
    /\ emptied < nextId

\* The advisory lock has one holder.
OneHolder == \A t, u \in Txns : pc[t] # "idle" /\ pc[u] # "idle" => t = u

Typed == TypeOK /\ Rows /\ OneHolder

\* What a transaction has read, or has built its entry on.
Read(t) == IF pc[t] = "inserted" THEN entry[mine[t]].prev ELSE last[t]
HasRead(t) == pc[t] \in {"hashing", "inserted"}

Newest(k) == k \in committed /\ \A j \in committed : j <= k

\* While nothing is removed, the log is a chain and its end is what was read.
Linked ==
    removed = {} =>
        /\ \A k \in committed : LinkageIntact(k)
        /\ \A t \in Txns : HasRead(t) =>
              /\ committed = {} => Read(t) = <<>>
              /\ \A k \in committed : Newest(k) => Read(t) = entry[k].hash

\* An entry that follows the genesis value was written to an empty table.
Started ==
    /\ committed = {} => \A j \in removed : j <= emptied
    /\ \A k \in committed : entry[k].prev = <<>> =>
          /\ IsOldest(k)
          /\ \A j \in removed : j < k => j <= emptied
    /\ \A t \in Txns : HasRead(t) /\ Read(t) = <<>> => committed = {}

-----------------------------------------------------------------------------
(* Types, ids and the lock *)

LEMMA InitTyped == Init => Typed
<1> SUFFICES ASSUME Init PROVE Typed
  OBVIOUS
<1>1. PICK n \in 0..MaxLegacy : \E s \in [1..n -> Payloads] :
         /\ entry = [k \in Ids |-> IF k <= n THEN LegacyEntry(s, k) ELSE NoEntry]
         /\ written = [k \in Ids |-> IF k <= n THEN s[k] ELSE NoEntry]
         /\ committed = 1..n
         /\ nextId = n + 1
  BY DEF Init
<1>2. PICK s \in [1..n -> Payloads] :
         /\ entry = [k \in Ids |-> IF k <= n THEN LegacyEntry(s, k) ELSE NoEntry]
         /\ written = [k \in Ids |-> IF k <= n THEN s[k] ELSE NoEntry]
         /\ committed = 1..n
         /\ nextId = n + 1
  BY <1>1
<1>3. n \in Nat /\ n <= MaxId /\ committed \in SUBSET Ids /\ nextId \in 1..(MaxId + 1)
  BY <1>2, BoundsAssumption DEF Ids
<1>4. ASSUME NEW k \in committed
      PROVE  /\ k \in 1..n /\ k \in Ids /\ k < nextId
             /\ entry[k] = LegacyEntry(s, k) /\ written[k] = s[k]
             /\ entry[k] \in Entries /\ entry[k].version = 1 /\ entry[k].hash # <<>>
             /\ written[k] \in Payloads
  <2>1. k \in 1..n /\ k \in Ids /\ k < nextId /\ k <= n
    BY <1>2, <1>3 DEF Ids
  <2>2. entry[k] = LegacyEntry(s, k) /\ written[k] = s[k] /\ s[k] \in Payloads
    BY <1>2, <2>1
  <2> QED
    BY <1>3, <2>1, <2>2, LegacyFacts
<1>5. \A k \in Ids : k <= n => k \in committed
  BY <1>2, <1>3 DEF Ids
<1>6. entry \in [Ids -> Entries \cup {NoEntry}]
  BY <1>2, <1>4, <1>5
<1>7. written \in [Ids -> Payloads \cup {NoEntry}]
  BY <1>2, <1>4, <1>5
<1>8. TypeOK
  BY <1>3, <1>6, <1>7, BoundsAssumption DEF Init, TypeOK, Hashes
<1>9. Rows
  <2>1. \A k \in committed : Row(k)
    BY <1>4 DEF Row
  <2> QED
    BY <2>1, <1>3 DEF Rows, Init
<1> QED
  BY <1>8, <1>9 DEF Typed, OneHolder, Init

LEMMA InsertTyped ==
    ASSUME Typed, NEW t \in Txns, NEW x \in Payloads, Insert(t, x)
    PROVE  Typed'
<1> USE DEF Typed
<1>1. nextId \in Ids /\ \A k \in committed : k < nextId /\ k \in Ids
  BY DEF Insert, TypeOK, Rows, Row, Ids
<1>2. last[t] \in Hashes
  BY DEF TypeOK
<1>3. entry' = [entry EXCEPT ![nextId] = Entry(2, x, last[t])]
  BY DEF Insert
<1>4. TypeOK'
  BY <1>1, <1>2, EntryFacts, BoundsAssumption DEF Insert, TypeOK, Ids
<1>5. \A k \in committed : Row(k)'
  <2> SUFFICES ASSUME NEW k \in committed PROVE Row(k)'
    OBVIOUS
  <2>1. entry'[k] = entry[k] /\ written'[k] = written[k] /\ k < nextId'
    BY <1>1 DEF Insert, TypeOK, Ids
  <2> QED
    BY <2>1 DEF Rows, Row
<1>6. \A u \in Txns : pc'[u] = "inserted" => u = t
  BY DEF Insert, OneHolder, TypeOK
<1>7. Draft(t)'
  <2>1. PICK n \in Ids : n = nextId
    BY <1>1
  <2>2. mine'[t] = n /\ entry'[n] = Entry(2, x, last[t]) /\ written'[n] = x
    BY <2>1 DEF Insert, TypeOK
  <2>3. n < nextId' /\ n \notin removed
    BY <2>1 DEF Insert, TypeOK, Rows, Ids
  <2>4. /\ entry'[n] \in Entries /\ entry'[n].hash # <<>>
        /\ entry'[n].hash = EntryHash(2, "inserted", written'[n], entry'[n].prev)
    BY <1>2, <2>2, EntryFacts
  <2>5. Row(n)'
    BY <2>2, <2>3, <2>4 DEF Row
  <2>6. \A j \in committed' : j < n
    BY <1>1, <2>1 DEF Insert
  <2> QED
    BY <2>2, <2>3, <2>5, <2>6 DEF Draft, Row, Insert
<1>8. Rows'
  <2>1. \A j \in removed' : j < nextId' /\ j \notin committed'
    BY DEF Insert, Rows, TypeOK, Ids
  <2>2. emptied' < nextId'
    BY DEF Insert, Rows, TypeOK
  <2> QED
    BY <1>5, <1>6, <1>7, <2>1, <2>2 DEF Rows, Insert
<1> QED
  BY <1>4, <1>8 DEF Insert, OneHolder, TypeOK

LEMMA CommitTyped ==
    ASSUME Typed, NEW t \in Txns, Commit(t)
    PROVE  Typed'
<1> USE DEF Typed, history
<1>1. PICK n \in Ids : n = mine[t]
  BY DEF Commit, Rows, Draft, Row
<1>2. Row(n) /\ n \notin removed /\ \A j \in committed : j < n
  BY <1>1 DEF Commit, Rows, Draft, Row
<1>3. TypeOK'
  <2>1. committed' \in SUBSET Ids
    BY <1>1 DEF Commit, TypeOK
  <2>2. last' \in [Txns -> Hashes] /\ mine' \in [Txns -> Ids \cup {0}]
    BY DEF Commit, Finish, TypeOK, Hashes
  <2> QED
    BY <2>1, <2>2 DEF Commit, Finish, TypeOK
<1>4. \A k \in committed' : Row(k)'
  BY <1>1, <1>2 DEF Commit, Rows, Row
<1>5. \A u \in Txns : pc'[u] # "inserted"
  BY DEF Commit, Finish, OneHolder, TypeOK
<1>6. \A j \in removed' : j < nextId' /\ j \notin committed'
  BY <1>1, <1>2 DEF Commit, Rows
<1> QED
  BY <1>3, <1>4, <1>5, <1>6 DEF Commit, Finish, Rows, OneHolder, TypeOK

LEMMA RollbackInsertTyped ==
    ASSUME Typed, NEW t \in Txns, RollbackInsert(t)
    PROVE  Typed'
<1> USE DEF Typed, history
<1>1. PICK n \in Ids : n = mine[t]
  BY DEF RollbackInsert, Rows, Draft, Row
<1>2. n \notin committed
  BY <1>1 DEF RollbackInsert, Rows, Draft, Row, Ids
<1>3. TypeOK'
  BY <1>1 DEF RollbackInsert, Finish, TypeOK, Ids, Hashes
<1>4. \A k \in committed' : Row(k)'
  <2> SUFFICES ASSUME NEW k \in committed PROVE Row(k)'
    BY DEF RollbackInsert
  <2>1. k \in Ids /\ entry'[k] = entry[k]
    BY <1>1, <1>2 DEF RollbackInsert, TypeOK
  <2> QED
    BY <2>1 DEF RollbackInsert, Rows, Row
<1>5. \A u \in Txns : pc'[u] # "inserted"
  BY DEF RollbackInsert, Finish, OneHolder, TypeOK
<1> QED
  BY <1>3, <1>4, <1>5 DEF RollbackInsert, Finish, Rows, OneHolder, TypeOK

LEMMA AlterTyped ==
    ASSUME Typed, NEW k \in Ids, NEW x \in Payloads, Alter(k, x)
    PROVE  Typed'
<1> USE DEF Typed
<1>1. k \in committed /\ entry[k] \in Entries
  BY DEF Alter, Rows, Row
<1>2. /\ entry'[k] \in Entries
      /\ entry'[k].version = entry[k].version
      /\ entry'[k].prev = entry[k].prev
      /\ entry'[k].hash = entry[k].hash
  BY <1>1 DEF Alter, Entries, TypeOK
<1>3. \A j \in Ids : j # k => entry'[j] = entry[j]
  BY DEF Alter, TypeOK
<1>4. TypeOK'
  BY <1>1, <1>2 DEF Alter, TypeOK, locals, history
<1>5. ASSUME NEW j \in Ids, Row(j) PROVE Row(j)'
  <2>1. CASE j = k
    BY <1>2, <1>5, <2>1 DEF Row, Alter, history
  <2>2. CASE j # k
    BY <1>3, <1>5, <2>2 DEF Row, Alter, history
  <2> QED
    BY <2>1, <2>2
<1>6. \A j \in committed' : Row(j)'
  BY <1>5 DEF Alter, Rows, TypeOK
<1>7. ASSUME NEW t \in Txns, pc'[t] = "inserted" PROVE Draft(t)'
  <2>1. PICK n \in Ids : n = mine[t] /\ n = mine'[t] /\ Row(n)
    BY <1>7 DEF Alter, locals, Rows, Draft, Row
  <2>2. Row(n)'
    BY <1>5, <2>1
  <2>3. n \notin removed /\ \A j \in committed : j < n
    BY <1>7, <2>1 DEF Alter, locals, Rows, Draft
  <2> QED
    BY <2>1, <2>2, <2>3 DEF Alter, history, Draft, Row
<1> QED
  BY <1>4, <1>6, <1>7 DEF Alter, Rows, OneHolder, locals, history

LEMMA RemoveTyped ==
    ASSUME Typed, NEW k \in Ids, Remove(k)
    PROVE  Typed'
<1> USE DEF Typed
<1>1. k \in committed /\ k < nextId
  BY DEF Remove, Rows, Row
<1>2. \A j \in Ids : j # k => entry'[j] = entry[j]
  BY DEF Remove, TypeOK
<1>3. emptied' \in 0..MaxId /\ emptied' < nextId
  BY BoundsAssumption DEF Remove, Rows, TypeOK
<1>4. TypeOK'
  BY <1>1, <1>3 DEF Remove, TypeOK, locals
<1>5. ASSUME NEW j \in Ids, Row(j), j # k PROVE Row(j)'
  BY <1>2, <1>5 DEF Row, Remove
<1>6. \A j \in committed' : Row(j)'
  BY <1>5 DEF Remove, Rows, TypeOK
<1>7. ASSUME NEW t \in Txns, pc'[t] = "inserted" PROVE Draft(t)'
  <2>1. PICK n \in Ids : n = mine[t] /\ n = mine'[t] /\ Row(n)
    BY <1>7 DEF Remove, locals, Rows, Draft, Row
  <2>2. n \notin removed /\ \A j \in committed : j < n
    BY <1>7, <2>1 DEF Remove, locals, Rows, Draft
  <2>3. n # k
    BY <1>1, <2>2 DEF Ids
  <2>4. Row(n)'
    BY <1>5, <2>1, <2>3
  <2> QED
    BY <2>1, <2>2, <2>3, <2>4 DEF Remove, Draft, Row
<1>8. \A j \in removed' : j < nextId' /\ j \notin committed'
  BY <1>1 DEF Remove, Rows
<1> QED
  BY <1>3, <1>4, <1>6, <1>7, <1>8 DEF Remove, Rows, OneHolder, locals

\* The steps that read, and those that end before anything was inserted.
LEMMA QuietTyped ==
    ASSUME Typed, NEW t \in Txns,
           Lock(t) \/ ReadFirst(t) \/ (\E k \in Ids : ReadLast(t, k)) \/ RollbackEarly(t)
    PROVE  Typed'
<1> USE DEF Typed
<1>1. /\ UNCHANGED <<entry, committed, nextId, history>>
      /\ \A u \in Txns : pc'[u] = "inserted" =>
            pc[u] = "inserted" /\ mine'[u] = mine[u]
  BY DEF Lock, ReadFirst, ReadLast, RollbackEarly, Finish, TypeOK, history
<1>2. Rows'
  <2>1. \A k \in committed' : Row(k)'
    BY <1>1 DEF Rows, Row, history
  <2>2. ASSUME NEW u \in Txns, pc'[u] = "inserted" PROVE Draft(u)'
    BY <1>1, <2>2 DEF Rows, Draft, Row, history
  <2> QED
    BY <1>1, <2>1, <2>2 DEF Rows, history
<1>3. CASE Lock(t)
  <2>1. OneHolder'
    BY <1>3 DEF Lock, LockFree, OneHolder, TypeOK
  <2>2. TypeOK'
    BY <1>3 DEF Lock, TypeOK, history
  <2> QED
    BY <1>2, <2>1, <2>2
<1>4. CASE ReadFirst(t)
  BY <1>2, <1>4 DEF ReadFirst, OneHolder, TypeOK, history, Genesis, Hashes
<1>5. ASSUME NEW k \in Ids, ReadLast(t, k) PROVE Typed'
  <2>1. entry[k].hash \in Hashes
    BY <1>5 DEF ReadLast, Rows, Row, Entries
  <2> QED
    BY <1>2, <1>5, <2>1 DEF ReadLast, OneHolder, TypeOK, history
<1>6. CASE RollbackEarly(t)
  BY <1>2, <1>6 DEF RollbackEarly, Finish, OneHolder, TypeOK, history, Hashes
<1> QED
  BY <1>3, <1>4, <1>5, <1>6

\* The strengthened type invariant holds in every reachable state.
LEMMA TypedInvariant == Spec => []Typed
<1>1. Typed /\ [Next]_vars => Typed'
  <2> SUFFICES ASSUME Typed, [Next]_vars PROVE Typed'
    OBVIOUS
  <2>1. ASSUME NEW t \in Txns, Step(t) PROVE Typed'
    BY <2>1, InsertTyped, CommitTyped, RollbackInsertTyped, QuietTyped DEF Step
  <2>2. CASE Tamper
    BY <2>2, AlterTyped, RemoveTyped DEF Tamper
  <2>3. CASE UNCHANGED vars
    BY <2>3 DEF vars, locals, history, Typed, TypeOK, Rows, Row, Draft, OneHolder
  <2> QED
    BY <2>1, <2>2, <2>3 DEF Next
<1> QED
  BY InitTyped, <1>1, PTL DEF Spec

\* Every variable has its type.
THEOREM TypeCorrect == Spec => []TypeOK
  BY TypedInvariant, PTL DEF Typed

\* DATA-02: ids are committed in their order, whatever rolls back in between.
THEOREM OrderIsKept == Spec => CommitsAtTheEnd
<1>1. Typed /\ [Next]_vars =>
        [\A k \in committed' \ committed : \A j \in committed : j < k]_vars
  <2> SUFFICES ASSUME Typed, [Next]_vars
               PROVE  \A k \in committed' \ committed : \A j \in committed : j < k
    OBVIOUS
  <2>1. ASSUME NEW t \in Txns, Commit(t)
        PROVE  \A k \in committed' \ committed : \A j \in committed : j < k
    BY <2>1 DEF Commit, Typed, Rows, Draft
  <2>2. (\A t \in Txns : ~Commit(t)) => committed' \subseteq committed
    BY DEF Next, Step, Lock, ReadFirst, ReadLast, Insert, RollbackEarly, RollbackInsert,
       Tamper, Alter, Remove, vars
  <2> QED
    BY <2>1, <2>2
<1> QED
  BY TypedInvariant, <1>1, PTL DEF Spec, CommitsAtTheEnd

-----------------------------------------------------------------------------
(* The links *)

LEMMA InitLinked == Init => Linked /\ Started
<1> SUFFICES ASSUME Init PROVE Linked /\ Started
  OBVIOUS
<1>1. PICK n \in 0..MaxLegacy : \E s \in [1..n -> Payloads] :
         /\ entry = [k \in Ids |-> IF k <= n THEN LegacyEntry(s, k) ELSE NoEntry]
         /\ committed = 1..n
  BY DEF Init
<1>2. PICK s \in [1..n -> Payloads] :
         /\ entry = [k \in Ids |-> IF k <= n THEN LegacyEntry(s, k) ELSE NoEntry]
         /\ committed = 1..n
  BY <1>1
<1>3. n \in Nat /\ committed \subseteq Ids
  BY <1>2, BoundsAssumption DEF Ids
<1>4. ASSUME NEW k \in committed
      PROVE  /\ k \in 1..n /\ entry[k] = LegacyEntry(s, k)
             /\ entry[k].prev = LegacyHash(s, k - 1) /\ entry[k].hash = LegacyHash(s, k)
             /\ k = 1 <=> entry[k].prev = <<>>
  <2>1. k \in 1..n /\ k \in Ids /\ k <= n
    BY <1>2, <1>3
  <2>2. entry[k] = LegacyEntry(s, k)
    BY <1>2, <2>1
  <2> QED
    BY <1>3, <2>1, <2>2, LegacyFacts
<1>5. ASSUME NEW k \in committed PROVE LinkageIntact(k)
  <2>1. IsOldest(k) => k = 1
    BY <1>2, <1>4 DEF IsOldest
  <2>2. ASSUME NEW j \in committed, IsBefore(j, k) PROVE j = k - 1
    <3>1. k - 1 \in committed
      BY <1>2, <1>3, <1>4, <2>2 DEF IsBefore
    <3> QED
      BY <1>2, <1>3, <2>2, <3>1 DEF IsBefore
  <2> QED
    BY <1>4, <2>1, <2>2 DEF LinkageIntact
<1>6. \A k \in committed : entry[k].prev = <<>> => IsOldest(k)
  <2>1. \A j \in committed : 1 <= j
    BY <1>2, <1>3
  <2> QED
    BY <1>4, <2>1 DEF IsOldest
<1>7. \A t \in Txns : ~HasRead(t)
  BY DEF Init, HasRead
<1> QED
  BY <1>5, <1>6, <1>7 DEF Linked, Started, Init

\* A step that touches neither the links of what is committed nor what is
\* removed, and after which no transaction has read anything new.
LEMMA Undisturbed ==
    ASSUME Linked, Started,
           committed' = committed, removed' = removed, emptied' = emptied,
           \A k \in committed : /\ entry'[k].prev = entry[k].prev
                                /\ entry'[k].hash = entry[k].hash,
           \A t \in Txns : HasRead(t)' => HasRead(t) /\ Read(t)' = Read(t)
    PROVE  (Linked /\ Started)'
<1>1. \A k \in committed : LinkageIntact(k) => LinkageIntact(k)'
  BY DEF LinkageIntact, IsOldest, IsBefore
<1>2. \A k : Newest(k)' <=> Newest(k)
  BY DEF Newest
<1>3. Linked'
  BY <1>1, <1>2 DEF Linked, Newest
<1>4. Started'
  BY DEF Started, IsOldest
<1> QED
  BY <1>3, <1>4

LEMMA InsertLinked ==
    ASSUME Typed, Linked, Started, NEW t \in Txns, NEW x \in Payloads, Insert(t, x)
    PROVE  (Linked /\ Started)'
<1> USE DEF Typed
<1>1. PICK n \in Ids : n = nextId
  BY DEF Insert, TypeOK, Ids
<1>2. \A k \in committed : k # n /\ entry'[k] = entry[k]
  BY <1>1 DEF Insert, TypeOK, Rows, Row, Ids
<1>3. entry'[n].prev = last[t]
  BY <1>1, EntryFacts DEF Insert, TypeOK
<1>4. HasRead(t) /\ Read(t) = last[t]
  BY DEF Insert, HasRead, Read
<1>5. Read(t)' = last[t]
  BY <1>1, <1>3 DEF Insert, Read, TypeOK
<1>6. \A u \in Txns : HasRead(u)' => u = t
  BY DEF Insert, HasRead, OneHolder, TypeOK
<1> QED
  BY <1>2, <1>4, <1>5, <1>6, Undisturbed DEF Insert

LEMMA CommitLinked ==
    ASSUME Typed, Linked, Started, NEW t \in Txns, Commit(t)
    PROVE  (Linked /\ Started)'
<1> USE DEF Typed
<1>1. PICK n \in Ids : n = mine[t]
  BY DEF Commit, Rows, Draft, Row
<1>2. /\ HasRead(t) /\ Read(t) = entry[n].prev
      /\ \A j \in committed : j < n
      /\ committed' = committed \cup {n}
  BY <1>1 DEF Commit, HasRead, Read, Rows, Draft
<1>3. committed \subseteq Nat /\ n \in Nat
  BY DEF TypeOK, Ids
<1>4. UNCHANGED <<entry, removed, emptied>>
  BY DEF Commit, history
<1>5. \A u \in Txns : ~HasRead(u)'
  BY DEF Commit, Finish, HasRead, OneHolder, TypeOK
<1>6. ASSUME removed = {}, NEW k \in committed PROVE LinkageIntact(k)'
  <2>1. LinkageIntact(k)
    BY <1>6 DEF Linked
  <2>2. IsOldest(k)' => IsOldest(k)
    BY <1>2 DEF IsOldest
  <2>3. \A j \in committed' : IsBefore(j, k)' => j \in committed /\ IsBefore(j, k)
    BY <1>2, <1>3 DEF IsBefore
  <2> QED
    BY <1>4, <2>1, <2>2, <2>3 DEF LinkageIntact
<1>7. ASSUME removed = {} PROVE LinkageIntact(n)'
  <2>1. IsOldest(n)' => committed = {}
    BY <1>2, <1>3 DEF IsOldest
  <2>2. \A j \in committed' : IsBefore(j, n)' => Newest(j)
    BY <1>2, <1>3 DEF IsBefore, Newest
  <2>3. /\ committed = {} => entry[n].prev = <<>>
        /\ \A j \in committed : Newest(j) => entry[n].prev = entry[j].hash
    BY <1>2, <1>7 DEF Linked
  <2> QED
    BY <1>4, <2>1, <2>2, <2>3 DEF LinkageIntact, Newest
<1>8. Linked'
  BY <1>2, <1>4, <1>5, <1>6, <1>7 DEF Linked
<1>9. ASSUME NEW k \in committed', entry[k].prev = <<>>
      PROVE  IsOldest(k)' /\ \A j \in removed : j < k => j <= emptied
  <2>1. CASE k = n
    <3>1. committed = {}
      BY <1>2, <1>9, <2>1 DEF Started
    <3> QED
      BY <1>2, <1>3, <2>1, <3>1 DEF Started, IsOldest
  <2>2. CASE k # n
    BY <1>2, <1>3, <1>9, <2>2 DEF Started, IsOldest
  <2> QED
    BY <2>1, <2>2
<1>10. Started'
  BY <1>2, <1>4, <1>5, <1>9 DEF Started
<1> QED
  BY <1>8, <1>10

LEMMA ReadLinked ==
    ASSUME Typed, Linked, Started, NEW t \in Txns,
           ReadFirst(t) \/ \E k \in Ids : ReadLast(t, k)
    PROVE  (Linked /\ Started)'
<1> USE DEF Typed
<1>1. UNCHANGED <<entry, committed, removed, emptied>>
  BY DEF ReadFirst, ReadLast, history
<1>2. \A u \in Txns : HasRead(u)' => u = t
  BY DEF ReadFirst, ReadLast, HasRead, OneHolder, TypeOK
<1>3. /\ committed = {} => Read(t)' = <<>>
      /\ committed # {} => \E k \in committed : Newest(k) /\ Read(t)' = entry[k].hash
  BY DEF ReadFirst, ReadLast, Read, Newest, TypeOK, Genesis
<1>4. \A j, k \in committed : Newest(j) /\ Newest(k) => j = k
  BY DEF Newest, TypeOK, Ids
<1>5. \A k \in committed : entry[k].hash # <<>>
  BY DEF Rows, Row
<1>6. Linked'
  <2>1. \A k \in committed : LinkageIntact(k) => LinkageIntact(k)'
    BY <1>1 DEF LinkageIntact, IsOldest, IsBefore
  <2>2. \A k \in committed : Newest(k) => Read(t)' = entry[k].hash
    BY <1>3, <1>4
  <2>3. \A k : Newest(k)' <=> Newest(k)
    BY <1>1 DEF Newest
  <2> QED
    BY <1>1, <1>2, <1>3, <2>1, <2>2, <2>3 DEF Linked
<1>7. Started'
  <2>1. HasRead(t)' /\ Read(t)' = <<>> => committed = {}
    BY <1>3, <1>5
  <2> QED
    BY <1>1, <1>2, <2>1 DEF Started, IsOldest
<1> QED
  BY <1>6, <1>7

LEMMA RemoveLinked ==
    ASSUME Typed, Linked, Started, NEW k \in Ids, Remove(k)
    PROVE  (Linked /\ Started)'
<1> USE DEF Typed
<1>1. /\ k \in committed /\ committed' = committed \ {k} /\ removed' = removed \cup {k}
      /\ emptied' = IF committed = {k} THEN nextId - 1 ELSE emptied
      /\ UNCHANGED <<nextId, pc, mine, last>>
  BY DEF Remove, locals
<1>2. \A j \in Ids : j # k => entry'[j] = entry[j]
  BY DEF Remove, TypeOK
<1>3. /\ nextId \in Nat /\ emptied \in Nat /\ removed \subseteq Nat
      /\ committed \subseteq Ids /\ committed \subseteq Nat /\ k \in Nat
      /\ emptied < nextId /\ k < nextId /\ \A j \in removed : j < nextId
  BY <1>1, BoundsAssumption DEF TypeOK, Ids, Rows, Row
<1>4. \A j \in removed : j <= emptied => j <= emptied'
  BY <1>1, <1>3
<1>5. committed' = {} => \A j \in removed' : j <= emptied'
  <2>1. committed' = {} => emptied' = nextId - 1
    BY <1>1
  <2>2. \A j \in removed' : j \in Nat /\ j < nextId
    BY <1>1, <1>3
  <2> QED
    BY <1>3, <2>1, <2>2
<1>6. ASSUME NEW i \in committed', entry'[i].prev = <<>>
      PROVE  IsOldest(i)' /\ \A j \in removed' : j < i => j <= emptied'
  <2>1. i \in committed /\ i # k /\ entry[i].prev = <<>>
    BY <1>1, <1>2, <1>3, <1>6
  <2>2. IsOldest(i) /\ \A j \in removed : j < i => j <= emptied
    BY <2>1 DEF Started
  <2>3. ~(k < i)
    BY <1>1, <1>3, <2>1, <2>2 DEF IsOldest
  <2> QED
    BY <1>1, <1>4, <2>2, <2>3 DEF IsOldest
<1>7. ASSUME NEW t \in Txns, HasRead(t)', Read(t)' = <<>> PROVE committed' = {}
  <2>1. HasRead(t)
    BY <1>1, <1>7 DEF HasRead
  <2>2. pc[t] = "inserted" => mine[t] \in Ids /\ mine[t] # k
    BY <1>1, <1>3 DEF Rows, Draft, Row
  <2>3. Read(t)' = Read(t)
    BY <1>1, <1>2, <2>2 DEF Read
  <2> QED
    BY <1>1, <1>7, <2>1, <2>3 DEF Started
<1>8. Started'
  BY <1>5, <1>6, <1>7 DEF Started
<1>9. Linked'
  BY <1>1 DEF Linked
<1> QED
  BY <1>8, <1>9

\* Chained is inductive together with Typed.
Chained == Typed /\ Linked /\ Started

LEMMA ChainedInvariant == Spec => []Chained
<1>1. Init => Chained
  BY InitTyped, InitLinked DEF Chained
<1>2. Typed /\ [Next]_vars /\ Linked /\ Started => (Linked /\ Started)'
  <2> SUFFICES ASSUME Typed, [Next]_vars, Linked, Started
               PROVE  (Linked /\ Started)'
    OBVIOUS
  <2> USE DEF Typed
  <2>1. ASSUME NEW t \in Txns, Lock(t) \/ RollbackEarly(t) PROVE (Linked /\ Started)'
    <3>1. /\ UNCHANGED <<entry, committed, removed, emptied>>
          /\ \A u \in Txns : HasRead(u)' => HasRead(u) /\ Read(u)' = Read(u)
      BY <2>1 DEF Lock, RollbackEarly, Finish, HasRead, Read, TypeOK, history
    <3> QED
      BY <3>1, Undisturbed
  <2>2. ASSUME NEW t \in Txns, RollbackInsert(t) PROVE (Linked /\ Started)'
    <3>1. UNCHANGED <<committed, removed, emptied>>
      BY <2>2 DEF RollbackInsert, history
    <3>2. \A k \in committed : entry'[k] = entry[k]
      BY <2>2 DEF RollbackInsert, Rows, Draft, Row, TypeOK, Ids
    <3>3. \A u \in Txns : ~HasRead(u)'
      BY <2>2 DEF RollbackInsert, Finish, HasRead, OneHolder, TypeOK
    <3> QED
      BY <3>1, <3>2, <3>3, Undisturbed
  <2>3. ASSUME NEW k \in Ids, NEW x \in Payloads, Alter(k, x)
        PROVE  (Linked /\ Started)'
    <3>1. UNCHANGED <<committed, removed, emptied, pc, mine, last>>
      BY <2>3 DEF Alter, locals, history
    <3>2. \A j \in Ids : j \in committed \/ (\E t \in Txns : pc[t] = "inserted" /\ mine[t] = j)
             => entry'[j].prev = entry[j].prev /\ entry'[j].hash = entry[j].hash
      BY <2>3 DEF Alter, TypeOK, Rows, Draft, Row, Entries
    <3>3. \A u \in Txns : HasRead(u)' => HasRead(u) /\ Read(u)' = Read(u)
      BY <3>1, <3>2 DEF HasRead, Read, Rows, Draft, Row
    <3>4. committed \subseteq Ids
      BY DEF TypeOK
    <3> QED
      BY <3>1, <3>2, <3>3, <3>4, Undisturbed
  <2>4. CASE UNCHANGED vars
    <3>1. \A u \in Txns : HasRead(u)' => HasRead(u) /\ Read(u)' = Read(u)
      BY <2>4 DEF vars, locals, HasRead, Read
    <3> QED
      BY <2>4, <3>1, Undisturbed DEF vars, history
  <2> QED
    BY <2>1, <2>2, <2>3, <2>4, InsertLinked, CommitLinked, ReadLinked, RemoveLinked
       DEF Next, Step, Tamper
<1> QED
  BY TypedInvariant, <1>1, <1>2, PTL DEF Spec, Chained

-----------------------------------------------------------------------------
(* What the verifier shows *)

\* DATA-02: whatever overlaps, fails or rolls back, the entries reported as
\* mismatches are those altered since they were written.
THEOREM BlameIsExact == Spec => []MismatchesAreTheAltered
<1>1. Chained => MismatchesAreTheAltered
  <2> SUFFICES ASSUME Chained, removed = {}, NEW k \in committed
               PROVE  ~LinkageIntact(k) \/ (~PayloadIntact(k) /\ entry[k].version >= 2)
                        <=> entry[k].version >= 2 /\ entry[k].payload # written[k]
    BY DEF MismatchesAreTheAltered, HashMismatches
  <2>1. LinkageIntact(k)
    BY DEF Chained, Linked
  <2>2. Row(k)
    BY DEF Chained, Typed, Rows
  <2>3. ASSUME entry[k].version >= 2
        PROVE  PayloadIntact(k) <=> entry[k].payload = written[k]
    <3>1. /\ entry[k].version = 2
          /\ entry[k].payload \in Payloads /\ written[k] \in Payloads
          /\ entry[k].prev \in Hashes
      BY <2>2, <2>3 DEF Row, Entries
    <3>2. entry[k].hash = EntryHash(2, "inserted", written[k], entry[k].prev)
      BY <2>2, <2>3 DEF Row
    <3> QED
      BY <3>1, <3>2, HashTellsPayloads DEF PayloadIntact
  <2> QED
    BY <2>1, <2>3
<1> QED
  BY ChainedInvariant, <1>1, PTL

\* DATA-02: an entry removed from before another leaves a gap in the ids or a
\* broken link for ever, unless the table is emptied.
THEOREM RemovalShows == Spec => []RemovalIsSeen
<1>1. Chained => RemovalIsSeen
  <2> SUFFICES ASSUME Chained, NEW j \in removed, NEW m \in committed, j < m, emptied < j
               PROVE  ~IsIntact
    BY DEF RemovalIsSeen
  <2>1. /\ committed \in SUBSET Ids /\ j \in Ids /\ emptied \in Nat
        /\ j \notin committed
    BY BoundsAssumption DEF Chained, Typed, TypeOK, Rows
  <2>2. PICK k \in committed : j < k /\ \A i \in committed : j < i => k <= i
    BY <2>1, LeastAbove
  <2>3. \A i \in Ids : i \in Int
    BY DEF Ids
  <2>4. k - 1 \notin committed
    BY <2>1, <2>2, <2>3
  <2>5. CASE IsOldest(k)
    <3>1. entry[k].prev # <<>>
      <4>1. entry[k].prev = <<>> => j <= emptied
        BY <2>2 DEF Chained, Started
      <4> QED
        BY <4>1, <2>1, <2>3
    <3>2. ~LinkageIntact(k)
      BY <2>5, <3>1 DEF LinkageIntact
    <3> QED
      BY <3>2 DEF IsIntact, HashMismatches
  <2>6. CASE ~IsOldest(k)
    BY <2>4, <2>6 DEF IsIntact, Gaps, IsGap
  <2> QED
    BY <2>5, <2>6
<1> QED
  BY ChainedInvariant, <1>1, PTL

=============================================================================
