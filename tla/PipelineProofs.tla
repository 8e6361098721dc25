--------------------------- MODULE PipelineProofs ---------------------------
(****************************************************************************)
(* Theorems about what scans leave behind, for every value of their        *)
(* constants: the pace and the results of the tcp-connect adapter, the     *)
(* assets that observations are resolved to, the archives and reports made *)
(* of them, and the database below.                                        *)
(****************************************************************************)
EXTENDS TcpAdapter, Assets, Archives, Database, FiniteSetTheorems,
    SequenceTheorems, TLAPS

-----------------------------------------------------------------------------
(* The tcp-connect adapter *)

LEMMA PaceOfTokens ==
    /\ PacketsPerSecond \in Nat /\ (~Unpaced => PacketsPerSecond > 0)
    /\ TicksPerSecond \in Nat /\ TicksPerSecond > 0
    /\ Burst \in Nat
    /\ Horizon \in Nat /\ JobTimeout \in Nat
BY PaceAssumption DEF Burst, Unpaced

LEMMA Products ==
  /\ \A a, b \in Nat : a * b \in Nat
  /\ \A a, b, c \in Int : (a + b) * c = a * c + b * c
  /\ \A a \in Int : 1 * a = a
OBVIOUS

LEMMA OneMore ==
  ASSUME NEW a \in Nat
  PROVE  (a + 1) * TicksPerSecond = a * TicksPerSecond + TicksPerSecond
BY PaceOfTokens

\* Between a token and none: a wait is at most a second.
LEMMA WaitsASecond ==
  ASSUME ~Unpaced, NEW t \in Nat, t < TicksPerSecond
  PROVE  WaitFor(t) \in 0..TicksPerSecond
<1>. DEFINE T == TicksPerSecond
            P == PacketsPerSecond
            x == (T - t) + P - 1
<1>1. T \in Nat /\ P \in Nat /\ P > 0 /\ T > 0
  BY PaceOfTokens
<1>2. x \in Nat
  BY <1>1
<1>3. x < T * P + P
  <2>1. T * P >= T
    BY <1>1
  <2>. QED
    BY <1>1, <2>1
<1>4. (T + 1) * P = T * P + P
  BY <1>1
<1>. HIDE DEF x
<1>5. x \div P \in Nat /\ x \div P < T + 1
  BY <1>1, <1>2, <1>3, <1>4
<1>. QED
  BY <1>1, <1>5 DEF x, WaitFor

\* Every clock the lanes, the bucket and the batch go by.
LanesTyped ==
    /\ clock \in 0..Horizon /\ deadline \in 0..(Horizon + JobTimeout)
    /\ waiting \subseteq Hosts /\ batch \subseteq Hosts
    /\ untaken \subseteq batch \X Ports
    /\ bucketTokens \in 0..Burst /\ lastRefill \in 0..clock
    /\ lane \in [Lanes -> [doing : {"gone", "free", "pacing", "probing"},
                           job : (Hosts \X Ports) \cup {NoJob},
                           time : 0..(Horizon + TicksPerSecond)]]
    /\ result \in [Hosts \X Ports -> Outcomes \cup {"none"}]
    /\ targetStatus \in [Hosts -> {"pending", "completed", "failed"}]
    /\ probes \in Seq(Nat)

\* A refill keeps to the burst.
LEMMA RefilledTyped ==
  ASSUME LanesTyped
  PROVE  /\ Refilled \in 0..Burst
         /\ clock - lastRefill \in Nat
         /\ Refilled <= bucketTokens + (clock - lastRefill) * PacketsPerSecond
<1>1. clock \in Nat /\ lastRefill \in Nat /\ clock - lastRefill \in Nat
  BY PaceOfTokens DEF LanesTyped
<1>2. (clock - lastRefill) * PacketsPerSecond \in Nat
  BY <1>1, PaceOfTokens, Products
<1>3. bucketTokens \in Nat /\ Burst \in Nat
  BY PaceOfTokens DEF LanesTyped
<1>4. bucketTokens + (clock - lastRefill) * PacketsPerSecond \in Nat
  BY <1>2, <1>3
<1>. QED
  BY <1>1, <1>3, <1>4 DEF Refilled, Lower

LEMMA LanesTypedInvariant == AdapterSpec => []LanesTyped
<1>1. AdapterInit => LanesTyped
  BY PaceOfTokens DEF AdapterInit, LanesTyped
<1>2. LanesTyped /\ [AdapterNext]_adapterVars => LanesTyped'
  <2> SUFFICES ASSUME LanesTyped, [AdapterNext]_adapterVars PROVE LanesTyped'
    OBVIOUS
  <2>1. CASE Dispatch
    BY <2>1, PaceOfTokens DEF Dispatch, LanesTyped
  <2>2. CASE EndBatch
    BY <2>2, PaceOfTokens DEF EndBatch, LanesTyped, bucket
  <2>3. CASE Tick
    BY <2>3, PaceOfTokens DEF Tick, LanesTyped, bucket
  <2>4. ASSUME NEW w \in Lanes, EndLane(w) PROVE LanesTyped'
    BY <2>4, PaceOfTokens DEF EndLane, LanesTyped, LaneAs, bucket, table
  <2>5. ASSUME NEW w \in Lanes, TakeJob(w) PROVE LanesTyped'
    <3>1. PICK j \in untaken : untaken' = untaken \ {j} /\ LaneAs(w, "pacing", j, clock)
      BY <2>5 DEF TakeJob
    <3>2. j \in Hosts \X Ports
      BY <3>1 DEF LanesTyped
    <3>. QED
      BY <2>5, <3>1, <3>2, PaceOfTokens DEF TakeJob, LanesTyped, LaneAs, bucket, table
  <2>6. ASSUME NEW w \in Lanes, TakeToken(w) PROVE LanesTyped'
    <3>1. bucketTokens' \in 0..Burst /\ lastRefill' \in 0..clock
      <4>1. CASE Unpaced
        BY <2>6, <4>1 DEF TakeToken, bucket, LanesTyped
      <4>2. CASE ~Unpaced
        <5>1. Refilled - TicksPerSecond \in 0..Burst
          BY <2>6, <4>2, RefilledTyped, PaceOfTokens DEF TakeToken, HasToken
        <5>. QED
          BY <2>6, <4>2, <5>1, PaceOfTokens DEF TakeToken, LanesTyped
      <4>. QED
        BY <4>1, <4>2
    <3>2. probes' \in Seq(Nat)
      BY <2>6, AppendProperties DEF TakeToken, LanesTyped
    <3>3. lane[w].job \in (Hosts \X Ports) \cup {NoJob}
      BY DEF LanesTyped
    <3>. QED
      BY <2>6, <3>1, <3>2, <3>3, PaceOfTokens DEF TakeToken, LanesTyped, LaneAs, table
  <2>7. ASSUME NEW w \in Lanes, WaitForToken(w) PROVE LanesTyped'
    <3>1. /\ Refilled \in 0..Burst /\ Refilled \in Nat /\ Refilled < TicksPerSecond
          /\ ~Unpaced
      BY <2>7, RefilledTyped, PaceOfTokens DEF WaitForToken, HasToken
    <3>2. clock + WaitFor(Refilled) \in 0..(Horizon + TicksPerSecond)
      BY <3>1, WaitsASecond, PaceOfTokens DEF LanesTyped
    <3>3. lane[w].job \in (Hosts \X Ports) \cup {NoJob}
      BY DEF LanesTyped
    <3>. QED
      BY <2>7, <3>1, <3>2, <3>3, PaceOfTokens DEF WaitForToken, LanesTyped, LaneAs, table
  <2>8. ASSUME NEW w \in Lanes, Settle(w) PROVE LanesTyped'
    <3>1. PICK o \in Outcomes : result' = [result EXCEPT ![lane[w].job] = o]
      BY <2>8 DEF Settle
    <3>2. result' \in [Hosts \X Ports -> Outcomes \cup {"none"}]
      BY <3>1 DEF LanesTyped
    <3>3. lane' \in [Lanes -> [doing : {"gone", "free", "pacing", "probing"},
                             job : (Hosts \X Ports) \cup {NoJob},
                             time : 0..(Horizon + TicksPerSecond)]]
      BY <2>8, PaceOfTokens DEF Settle, LaneAs, LanesTyped
    <3>. QED
      BY <2>8, <3>2, <3>3 DEF Settle, LanesTyped, bucket, table
  <2>9. CASE UNCHANGED adapterVars
    BY <2>9 DEF adapterVars, LanesTyped
  <2>. QED
    BY <2>1, <2>2, <2>3, <2>4, <2>5, <2>6, <2>7, <2>8, <2>9 DEF AdapterNext
<1>. QED
  BY <1>1, <1>2, PTL DEF AdapterSpec

-----------------------------------------------------------------------------
(* The pace *)

\* Everything started from a probe on, and the tokens that are left, fits in
\* the burst and what the time since that probe refilled.
WithinBudget ==
    ~Unpaced => \A m \in 1..Len(probes) :
        /\ probes[m] <= lastRefill
        /\ (Len(probes) - m + 1) * TicksPerSecond + bucketTokens
             <= Burst + (lastRefill - probes[m]) * PacketsPerSecond

Paced == WithinBudget /\ PaceHolds

\* What is added up at a refill.
LEMMA RefillKeepsBudget ==
  ASSUME NEW started \in Nat, NEW p \in Nat, NEW last \in Nat, NEW now \in Nat,
         NEW left \in Nat, NEW filled \in Nat,
         p <= last, last <= now,
         started * TicksPerSecond + left <= Burst + (last - p) * PacketsPerSecond,
         filled <= left + (now - last) * PacketsPerSecond
  PROVE  started * TicksPerSecond + filled <= Burst + (now - p) * PacketsPerSecond
<1>1. now - last \in Nat /\ last - p \in Nat /\ (now - last) + (last - p) = now - p
  OBVIOUS
<1>2. (now - p) * PacketsPerSecond
        = (now - last) * PacketsPerSecond + (last - p) * PacketsPerSecond
  BY <1>1, PaceOfTokens, Products
<1>3. /\ (now - last) * PacketsPerSecond \in Nat /\ (last - p) * PacketsPerSecond \in Nat
      /\ started * TicksPerSecond \in Nat
  BY <1>1, PaceOfTokens, Products
<1>. QED
  BY <1>2, <1>3, PaceOfTokens

\* SAFE-04, for any pace, burst and number of lanes: between two probes of a
\* batch there are never more than the burst and what the time between refills.
THEOREM PaceIsKept == AdapterSpec => []PaceHolds
<1>1. AdapterInit => Paced
  BY DEF AdapterInit, Paced, WithinBudget, PaceHolds
<1>2. LanesTyped /\ Paced /\ [AdapterNext]_adapterVars => Paced'
  <2> SUFFICES ASSUME LanesTyped, Paced, [AdapterNext]_adapterVars, ~Unpaced PROVE Paced'
    BY DEF Paced, WithinBudget, PaceHolds
  <2>1. CASE Dispatch
    <3>1. probes' = <<>> /\ Len(probes') = 0
      BY <2>1 DEF Dispatch
    <3>. QED
      BY <3>1 DEF Paced, WithinBudget, PaceHolds
  <2>2. CASE EndBatch
    <3>1. probes' = probes /\ bucketTokens' = bucketTokens /\ lastRefill' = lastRefill
      BY <2>2 DEF EndBatch, bucket
    <3>. QED
      BY <3>1 DEF Paced, WithinBudget, PaceHolds
  <2>3. CASE Tick
    <3>1. probes' = probes /\ bucketTokens' = bucketTokens /\ lastRefill' = lastRefill
      BY <2>3 DEF Tick, bucket
    <3>. QED
      BY <3>1 DEF Paced, WithinBudget, PaceHolds
  <2>4. ASSUME NEW w \in Lanes, EndLane(w) PROVE Paced'
    <3>1. probes' = probes /\ bucketTokens' = bucketTokens /\ lastRefill' = lastRefill
      BY <2>4 DEF EndLane, bucket
    <3>. QED
      BY <3>1 DEF Paced, WithinBudget, PaceHolds
  <2>5. ASSUME NEW w \in Lanes, TakeJob(w) PROVE Paced'
    <3>1. probes' = probes /\ bucketTokens' = bucketTokens /\ lastRefill' = lastRefill
      BY <2>5 DEF TakeJob, bucket
    <3>. QED
      BY <3>1 DEF Paced, WithinBudget, PaceHolds
  <2>6. ASSUME NEW w \in Lanes, TakeToken(w) PROVE Paced'
    <3>. DEFINE L == Len(probes)
    <3>1. /\ probes' = Append(probes, clock) /\ lastRefill' = clock
          /\ bucketTokens' = Refilled - TicksPerSecond
          /\ Refilled >= TicksPerSecond
      BY <2>6 DEF TakeToken, HasToken
    <3>2. /\ L \in Nat /\ Len(probes') = L + 1 /\ probes'[L + 1] = clock
          /\ \A m \in 1..L : probes'[m] = probes[m] /\ probes[m] \in Nat
      <4>1. probes \in Seq(Nat) /\ clock \in Nat
        BY PaceOfTokens DEF LanesTyped
      <4>. QED
        BY <3>1, <4>1, AppendProperties, LenProperties, ElementOfSeq
    <3>3. /\ bucketTokens \in Nat /\ lastRefill \in Nat /\ clock \in Nat /\ lastRefill <= clock
      BY PaceOfTokens DEF LanesTyped
    <3>4. /\ Refilled \in 0..Burst
          /\ Refilled <= bucketTokens + (clock - lastRefill) * PacketsPerSecond
      BY RefilledTyped
    <3>5. Refilled \in Nat /\ Refilled <= Burst
      BY <3>4, PaceOfTokens
    <3>6. ASSUME NEW m \in 1..L
          PROVE  /\ probes[m] <= clock
                 /\ (L - m + 2) * TicksPerSecond + bucketTokens'
                      <= Burst + (clock - probes[m]) * PacketsPerSecond
      <4>1. /\ L - m + 1 \in Nat /\ probes[m] \in Nat
        BY <3>2
      <4>2. /\ probes[m] <= lastRefill
            /\ (L - m + 1) * TicksPerSecond + bucketTokens
                 <= Burst + (lastRefill - probes[m]) * PacketsPerSecond
        BY DEF Paced, WithinBudget
      <4>3. (L - m + 1) * TicksPerSecond + Refilled
          <= Burst + (clock - probes[m]) * PacketsPerSecond
        BY <3>3, <3>4, <3>5, <4>1, <4>2, RefillKeepsBudget
      <4>4. (L - m + 2) * TicksPerSecond = (L - m + 1) * TicksPerSecond + TicksPerSecond
        <5>1. L - m + 2 = (L - m + 1) + 1
          BY <3>2
        <5>. QED
          BY <4>1, <5>1, OneMore
      <4>5. /\ (L - m + 1) * TicksPerSecond \in Nat
            /\ (clock - probes[m]) * PacketsPerSecond \in Nat
        <5>1. clock - probes[m] \in Nat
          BY <3>3, <4>1, <4>2
        <5>. QED
          BY <4>1, <5>1, PaceOfTokens, Products
      <4>. QED
        BY <3>1, <3>3, <3>5, <4>1, <4>2, <4>3, <4>4, <4>5, PaceOfTokens
    <3>7. WithinBudget'
      <4> SUFFICES ASSUME NEW m \in 1..(L + 1)
                   PROVE  /\ probes'[m] <= clock
                          /\ ((L + 1) - m + 1) * TicksPerSecond + bucketTokens'
                               <= Burst + (clock - probes'[m]) * PacketsPerSecond
        BY <3>1, <3>2 DEF WithinBudget
      <4>1. CASE m \in 1..L
        <5>1. (L + 1) - m + 1 = L - m + 2
          BY <3>2
        <5>. QED
          BY <4>1, <5>1, <3>2, <3>6
      <4>2. CASE m = L + 1
        <5>1. (L + 1) - m + 1 = 1 /\ clock - probes'[m] = 0 /\ probes'[m] = clock
          BY <4>2, <3>2, <3>3
        <5>2. 1 * TicksPerSecond = TicksPerSecond /\ 0 * PacketsPerSecond = 0
          BY PaceOfTokens
        <5>. QED
          BY <5>1, <5>2, <3>1, <3>3, <3>5, PaceOfTokens
      <4>. QED
        BY <4>1, <4>2, <3>2
    <3>8. PaceHolds'
      <4> SUFFICES ASSUME NEW m \in 1..(L + 1), NEW n \in 1..(L + 1), m <= n
                   PROVE  (n - m + 1) * TicksPerSecond
                            <= Burst + (probes'[n] - probes'[m]) * PacketsPerSecond
        BY <3>2 DEF PaceHolds
      <4>1. CASE n \in 1..L
        BY <4>1, <3>2 DEF Paced, PaceHolds
      <4>2. CASE n = L + 1
        <5>1. /\ (n - m + 1) * TicksPerSecond + bucketTokens'
                   <= Burst + (clock - probes'[m]) * PacketsPerSecond
              /\ probes'[m] <= clock
          BY <4>2, <3>1, <3>2, <3>7 DEF WithinBudget
        <5>2. /\ n - m + 1 \in Nat /\ probes'[m] \in Nat /\ bucketTokens' \in Nat
              /\ clock - probes'[m] \in Nat
          BY <5>1, <3>1, <3>2, <3>3, <3>5, PaceOfTokens
        <5>3. (n - m + 1) * TicksPerSecond \in Nat
            /\ (clock - probes'[m]) * PacketsPerSecond \in Nat
          BY <5>2, PaceOfTokens, Products
        <5>. QED
          BY <4>2, <5>1, <5>2, <5>3, <3>2, PaceOfTokens
      <4>. QED
        BY <4>1, <4>2, <3>2
    <3>. QED
      BY <3>7, <3>8 DEF Paced
  <2>7. ASSUME NEW w \in Lanes, WaitForToken(w) PROVE Paced'
    <3>1. probes' = probes /\ bucketTokens' = Refilled /\ lastRefill' = clock
      BY <2>7 DEF WaitForToken
    <3>2. WithinBudget'
      <4> SUFFICES ASSUME NEW m \in 1..Len(probes)
                   PROVE  /\ probes[m] <= clock
                          /\ (Len(probes) - m + 1) * TicksPerSecond + Refilled
                               <= Burst + (clock - probes[m]) * PacketsPerSecond
        BY <3>1 DEF WithinBudget
      <4>1. /\ Len(probes) - m + 1 \in Nat /\ probes[m] \in Nat
            /\ bucketTokens \in Nat /\ lastRefill \in Nat /\ clock \in Nat /\ lastRefill <= clock
        BY PaceOfTokens, ElementOfSeq, LenProperties DEF LanesTyped
      <4>2. Refilled \in Nat /\ Refilled <= bucketTokens + (clock - lastRefill) * PacketsPerSecond
        BY RefilledTyped, PaceOfTokens
      <4>3. /\ probes[m] <= lastRefill
            /\ (Len(probes) - m + 1) * TicksPerSecond + bucketTokens
                 <= Burst + (lastRefill - probes[m]) * PacketsPerSecond
        BY DEF Paced, WithinBudget
      <4>4. (Len(probes) - m + 1) * TicksPerSecond + Refilled
                <= Burst + (clock - probes[m]) * PacketsPerSecond
        BY <4>1, <4>2, <4>3, RefillKeepsBudget
      <4>. QED
        BY <4>1, <4>3, <4>4
    <3>. QED
      BY <3>1, <3>2 DEF Paced, PaceHolds
  <2>8. ASSUME NEW w \in Lanes, Settle(w) PROVE Paced'
    <3>1. probes' = probes /\ bucketTokens' = bucketTokens /\ lastRefill' = lastRefill
      BY <2>8 DEF Settle, bucket
    <3>. QED
      BY <3>1 DEF Paced, WithinBudget, PaceHolds
  <2>9. CASE UNCHANGED adapterVars
    BY <2>9 DEF adapterVars, Paced, WithinBudget, PaceHolds
  <2>. QED
    BY <2>1, <2>2, <2>3, <2>4, <2>5, <2>6, <2>7, <2>8, <2>9 DEF AdapterNext
<1>3. Paced => PaceHolds
  BY DEF Paced
<1>. QED
  BY <1>1, <1>2, <1>3, LanesTypedInvariant, PTL DEF AdapterSpec

\* Every variable of the adapter keeps its type; probes are started in the past.
THEOREM AdapterTypeCorrect == AdapterSpec => []AdapterTypeOK
<1>. DEFINE Past == \A m \in 1..Len(probes) : probes[m] <= clock
<1>1. AdapterInit => Past
  BY DEF AdapterInit
<1>2. LanesTyped /\ Past /\ [AdapterNext]_adapterVars => Past'
  <2> SUFFICES ASSUME LanesTyped, Past, [AdapterNext]_adapterVars PROVE Past'
    OBVIOUS
  <2>1. clock \in Nat /\ Len(probes) \in Nat /\ \A m \in 1..Len(probes) : probes[m] \in Nat
    BY PaceOfTokens, LenProperties, ElementOfSeq DEF LanesTyped
  <2>2. CASE probes' = probes /\ clock' \in {clock, clock + 1}
    BY <2>1, <2>2
  <2>3. CASE probes' = <<>>
    BY <2>3
  <2>4. CASE probes' = Append(probes, clock) /\ clock' = clock
    BY <2>1, <2>4, AppendProperties DEF LanesTyped
  <2>. QED
    BY <2>2, <2>3, <2>4 DEF AdapterNext, adapterVars, Dispatch, EndBatch, Tick, EndLane,
      TakeJob, TakeToken, WaitForToken, Settle
<1>3. LanesTyped /\ Past => AdapterTypeOK
  <2> SUFFICES ASSUME LanesTyped, Past PROVE AdapterTypeOK
    OBVIOUS
  <2>1. \A m \in 1..Len(probes) : probes[m] \in 0..clock
    BY PaceOfTokens, LenProperties, ElementOfSeq DEF LanesTyped
  <2>2. probes \in Seq(0..clock)
    BY <2>1, SeqDef, LenProperties DEF LanesTyped
  <2>. QED
    BY <2>2, PaceOfTokens DEF LanesTyped, AdapterTypeOK
<1>. QED
  BY <1>1, <1>2, <1>3, LanesTypedInvariant, PTL DEF AdapterSpec

-----------------------------------------------------------------------------
(* What a sweep found *)

\* Lanes probe hosts of the batch only, and a batch in progress is of hosts
\* that are neither waiting nor settled.
LanesKeepToTheBatch ==
    /\ \A w \in Lanes :
         /\ batch = {} => lane[w].doing = "gone"
         /\ lane[w].doing \in {"pacing", "probing"} => lane[w].job \in batch \X Ports
    /\ batch \cap waiting = {}
    /\ \A h \in batch \cup waiting : targetStatus[h] = "pending"

Kept == LanesKeepToTheBatch /\ PartialResultsAreKept

\* P2-02 and P2-03, for any hosts, ports, lanes and timeout: a completed host
\* was swept, a failed one was not, and each open port seen is observed.
THEOREM SweepsAreHonest == AdapterSpec => []PartialResultsAreKept
<1>1. AdapterInit => Kept
  BY DEF AdapterInit, Kept, LanesKeepToTheBatch, PartialResultsAreKept
<1>2. LanesTyped /\ Kept /\ [AdapterNext]_adapterVars => Kept'
  <2> SUFFICES ASSUME LanesTyped, Kept, [AdapterNext]_adapterVars PROVE Kept'
    OBVIOUS
  <2>1. CASE Dispatch
    BY <2>1 DEF Dispatch, LanesTyped, LaneAs, bucket, table, Kept, LanesKeepToTheBatch,
      PartialResultsAreKept, Answered, OpenPorts
  <2>2. CASE EndBatch
    <3>1. LanesKeepToTheBatch'
      BY <2>2 DEF EndBatch, LanesTyped, Kept, LanesKeepToTheBatch
    <3>2. \A h \in Hosts : Answered(h)' = Answered(h) /\ OpenPorts(h)' = OpenPorts(h)
      BY <2>2 DEF EndBatch, Answered, OpenPorts
    <3>3. \A h \in batch : \A p \in OpenPorts(h) : [host |-> h, port |-> p] \in Parsed(batch)
      <4> SUFFICES ASSUME NEW h \in batch, NEW p \in OpenPorts(h)
                   PROVE  [host |-> h, port |-> p] \in Parse(batch)
        BY DEF Parsed
      <4>1. [host |-> h, port |-> p] \in {[host |-> h, port |-> q] : q \in OpenPorts(h)}
        OBVIOUS
      <4>2. [host |-> h, port |-> p]
              \in UNION {{[host |-> g, port |-> q] : q \in OpenPorts(g)} : g \in batch}
        BY <4>1
      <4>. QED
        BY <4>2, Zenon DEF Parse
    <3>4. PartialResultsAreKept'
      <4> SUFFICES ASSUME NEW h \in Hosts, targetStatus'[h] # "pending"
                   PROVE  /\ targetStatus'[h] = "completed" <=> Answered(h) = Ports
                          /\ \A p \in OpenPorts(h) : [host |-> h, port |-> p] \in observed'
        BY <3>2 DEF PartialResultsAreKept
      <4>1. CASE h \in batch
        BY <2>2, <3>3, <4>1 DEF EndBatch, Swept
      <4>2. CASE h \notin batch
        BY <2>2, <4>2 DEF EndBatch, Kept, PartialResultsAreKept
      <4>. QED
        BY <4>1, <4>2
    <3>. QED
      BY <3>1, <3>4 DEF Kept
  <2>3. CASE Tick
    BY <2>3 DEF Tick, LanesTyped, LaneAs, bucket, table, Kept, LanesKeepToTheBatch,
      PartialResultsAreKept, Answered, OpenPorts
  <2>4. ASSUME NEW w \in Lanes, EndLane(w) PROVE Kept'
    BY <2>4 DEF EndLane, LanesTyped, LaneAs, bucket, table, Kept, LanesKeepToTheBatch,
      PartialResultsAreKept, Answered, OpenPorts
  <2>5. ASSUME NEW w \in Lanes, TakeJob(w) PROVE Kept'
    <3>1. PICK j \in untaken : untaken' = untaken \ {j} /\ LaneAs(w, "pacing", j, clock)
      BY <2>5 DEF TakeJob
    <3>2. j \in batch \X Ports
      BY <3>1 DEF LanesTyped
    <3>. QED
      BY <2>5, <3>1, <3>2
      DEF TakeJob, LanesTyped, LaneAs, bucket, table, Kept, LanesKeepToTheBatch,
        PartialResultsAreKept, Answered, OpenPorts
  <2>6. ASSUME NEW w \in Lanes, TakeToken(w) PROVE Kept'
    BY <2>6 DEF TakeToken, LanesTyped, LaneAs, bucket, table, Kept, LanesKeepToTheBatch,
      PartialResultsAreKept, Answered, OpenPorts
  <2>7. ASSUME NEW w \in Lanes, WaitForToken(w) PROVE Kept'
    BY <2>7 DEF WaitForToken, LanesTyped, LaneAs, bucket, table, Kept, LanesKeepToTheBatch,
      PartialResultsAreKept, Answered, OpenPorts
  <2>8. ASSUME NEW w \in Lanes, Settle(w) PROVE Kept'
    <3>1. PICK o \in Outcomes : result' = [result EXCEPT ![lane[w].job] = o]
      BY <2>8 DEF Settle
    <3>2. lane[w].job \in batch \X Ports
      BY <2>8 DEF Settle, Kept, LanesKeepToTheBatch
    <3>3. \A h \in Hosts, p \in Ports : h \notin batch => result'[<<h, p>>] = result[<<h, p>>]
      <4>1. \A j \in Hosts \X Ports : j # lane[w].job => result'[j] = result[j]
        BY <3>1 DEF LanesTyped
      <4>2. \A h \in Hosts, p \in Ports : h \notin batch => <<h, p>> # lane[w].job
        BY <3>2
      <4>. QED
        BY <4>1, <4>2
    <3>4. \A h \in Hosts : h \notin batch
        => Answered(h)' = Answered(h) /\ OpenPorts(h)' = OpenPorts(h)
      BY <3>3 DEF Answered, OpenPorts
    <3>5. LanesKeepToTheBatch'
      BY <2>8 DEF Settle, LaneAs, LanesTyped, table, Kept, LanesKeepToTheBatch
    <3>6. PartialResultsAreKept'
      BY <2>8, <3>4 DEF Settle, LanesTyped, table, Kept, LanesKeepToTheBatch, PartialResultsAreKept
    <3>. QED
      BY <3>5, <3>6 DEF Kept
  <2>9. CASE UNCHANGED adapterVars
    BY <2>9 DEF adapterVars, LanesTyped, LaneAs, bucket, table, Kept, LanesKeepToTheBatch,
      PartialResultsAreKept, Answered, OpenPorts, LanesTyped, LaneAs, bucket, table, Kept,
      LanesKeepToTheBatch, PartialResultsAreKept, Answered, OpenPorts
  <2>. QED
    BY <2>1, <2>2, <2>3, <2>4, <2>5, <2>6, <2>7, <2>8, <2>9 DEF AdapterNext
<1>3. Kept => PartialResultsAreKept
  BY DEF Kept
<1>. QED
  BY <1>1, <1>2, <1>3, LanesTypedInvariant, PTL DEF AdapterSpec

-----------------------------------------------------------------------------
(* Assets *)

\* A reversal changes one column of one event.
LEMMA ReversesEvent ==
  ASSUME NEW M, NEW E, NEW f \in [M -> [survivor : E, merged : E, reversed : BOOLEAN]],
         NEW e \in M, NEW g, g = [f EXCEPT ![e].reversed = TRUE]
  PROVE  /\ g \in [M -> [survivor : E, merged : E, reversed : BOOLEAN]]
         /\ \A x \in M : g[x].merged = f[x].merged /\ g[x].survivor = f[x].survivor
         /\ \A x \in M \ {e} : g[x].reversed = f[x].reversed
OBVIOUS

\* What a request or a worker holds between two awaits is there; without it
\* AssetTypeOK is not inductive.
HoldsAssets ==
    /\ \A r \in Resolvers :
         /\ resolver[r].at # "idle" => resolver[r].ip \in Ips
         /\ resolver[r].at \in {"inserted", "found"} => resolver[r].asset \in Existing
    /\ \A m \in Merges :
         merging[m].at = "checked" => {merging[m].survivor, merging[m].merged} \subseteq Existing
    /\ \A v \in Reversals :
         reversing[v].at = "checked" =>
           reversing[v].event \in Merges /\ event[reversing[v].event].merged \in Existing

AssetsTyped == AssetTypeOK /\ HoldsAssets

Resolving == [Resolvers -> [at : {"idle", "resolved", "found", "unknown", "inserted"},
                            target : Ips \cup Hostnames \cup {None},
                            ip : Ips \cup {None}, asset : Existing \cup {None}]]

\* No asset that exists is deleted, and what a worker or a request holds exists.
LEMMA AssetsTypedInvariant == AssetSpec => []AssetsTyped
<1>1. AssetInit => AssetsTyped
  BY AssetFaultsAssumption DEF AssetInit, AssetsTyped, AssetTypeOK, HoldsAssets, Existing
<1>2. AssetsTyped /\ [AssetNext]_assetVars => AssetsTyped'
  <2> SUFFICES ASSUME AssetsTyped, [AssetNext]_assetVars PROVE AssetsTyped'
    OBVIOUS
  <2>1. ASSUME NEW r \in Resolvers, Resolver(r) PROVE AssetsTyped'
    <3>1. CASE ResolveTarget(r)
      BY <3>1 DEF ResolveTarget, Existing, AssetsTyped, AssetTypeOK, HoldsAssets,
        rowsOfAssets, histories, requests
    <3>2. CASE FindOwner(r)
      <4>1. PICK a \in OwnersFor(r) : Takes(r, "found", a)
        BY <3>2 DEF FindOwner
      <4>2. a \in Existing
        BY DEF OwnersFor, OwnersOf, AssetsTyped, AssetTypeOK
      <4>3. Existing' = Existing
        BY <3>2 DEF FindOwner, Existing, rowsOfAssets
      <4>4. /\ resolver' \in Resolving
            /\ \A q \in Resolvers \ {r} : resolver'[q] = resolver[q]
            /\ resolver'[r].at = "found" /\ resolver'[r].asset = a
                 /\ resolver'[r].ip = resolver[r].ip
        BY <4>1, <4>2 DEF Takes, AssetsTyped, AssetTypeOK, Resolving
      <4>5. resolver[r].ip \in Ips
        BY <3>2 DEF FindOwner, AssetsTyped, HoldsAssets
      <4>6. AssetTypeOK'
        BY <3>2, <4>3, <4>4 DEF FindOwner, AssetsTyped, AssetTypeOK, Resolving, rowsOfAssets,
          histories, requests
      <4>7. HoldsAssets'
        BY <3>2, <4>2, <4>3, <4>4, <4>5 DEF FindOwner, AssetsTyped, HoldsAssets, requests
      <4>. QED
        BY <4>6, <4>7 DEF AssetsTyped
    <3>3. CASE FindNoOwner(r)
      BY <3>3, SMTT(30) DEF FindNoOwner, GoesTo, Existing, AssetsTyped, AssetTypeOK,
        HoldsAssets, rowsOfAssets, histories, requests
    <3>4. CASE InsertAsset(r)
      <4>. DEFINE a == CHOOSE a \in Ids : a \notin Existing
      <4>1. a \in Ids /\ a \notin Existing
        BY <3>4 DEF InsertAsset, Existing
      <4>2. /\ asset' = [asset EXCEPT ![a] = "active"]
            /\ Takes(r, "inserted", a)
            /\ UNCHANGED <<into, histories, event, requests, assetFaults>>
        BY <3>4 DEF InsertAsset
      <4>. HIDE DEF a
      <4>3. Existing' = Existing \cup {a} /\ asset' \in [Ids -> {"absent", "active", "merged"}]
        BY <4>1, <4>2 DEF Existing, AssetsTyped, AssetTypeOK
      <4>4. resolver \in [Resolvers -> [at : {"idle", "resolved", "found", "unknown", "inserted"},
                                       target : Ips \cup Hostnames \cup {None},
                                       ip : Ips \cup {None}, asset : Existing' \cup {None}]]
        BY <4>3 DEF AssetsTyped, AssetTypeOK
      <4>5. /\ resolver' \in Resolving'
            /\ \A q \in Resolvers \ {r} : resolver'[q] = resolver[q]
            /\ resolver'[r].at = "inserted" /\ resolver'[r].asset = a
            /\ resolver'[r].ip = resolver[r].ip
        BY <4>1, <4>2, <4>3, <4>4 DEF Takes, Resolving
      <4>6. resolver[r].ip \in Ips
        BY <3>4 DEF InsertAsset, AssetsTyped, HoldsAssets
      <4>7. AssetTypeOK'
        BY <4>2, <4>3, <4>5 DEF AssetsTyped, AssetTypeOK, Resolving, histories, requests
      <4>8. HoldsAssets'
        BY <4>1, <4>2, <4>3, <4>5, <4>6 DEF AssetsTyped, HoldsAssets, requests
      <4>. QED
        BY <4>7, <4>8 DEF AssetsTyped
    <3>5. CASE InsertAddress(r)
      BY <3>5 DEF InsertAddress, GoesTo, Existing, AssetsTyped, AssetTypeOK, HoldsAssets,
        rowsOfAssets, histories, requests
    <3>6. CASE KeepHostname(r)
      BY <3>6, SMTT(60) DEF KeepHostname, GoesTo, Existing, AssetsTyped, AssetTypeOK,
        HoldsAssets, rowsOfAssets, histories, requests
    <3>. QED
      BY <2>1, <3>1, <3>2, <3>3, <3>4, <3>5, <3>6 DEF Resolver
  <2>2. ASSUME NEW r \in Resolvers, ResolverCrash(r) PROVE AssetsTyped'
    BY <2>2, AssetFaultsAssumption DEF ResolverCrash, GoesTo, Existing, AssetsTyped,
      AssetTypeOK, HoldsAssets, rowsOfAssets, histories, requests
  <2>3. ASSUME NEW m \in Merges, CheckMerge(m) PROVE AssetsTyped'
    BY <2>3 DEF CheckMerge, Existing, AssetsTyped, AssetTypeOK, HoldsAssets, rowsOfAssets,
      histories, requests
  <2>4. ASSUME NEW m \in Merges, MergeAssets(m) PROVE AssetsTyped'
    BY <2>4 DEF MergeAssets, Existing, AssetsTyped, AssetTypeOK, HoldsAssets, rowsOfAssets,
      histories, requests
  <2>5. ASSUME NEW v \in Reversals, CheckReversal(v) PROVE AssetsTyped'
    BY <2>5 DEF CheckReversal, Existing, AssetsTyped, AssetTypeOK, HoldsAssets,
      rowsOfAssets, histories, requests
  <2>6. ASSUME NEW v \in Reversals, ReverseMerge(v) PROVE AssetsTyped'
    <3>. DEFINE e == reversing[v].event
    <3>1. /\ e \in Merges /\ event[e].merged \in Existing
      BY <2>6 DEF ReverseMerge, AssetsTyped, HoldsAssets
    <3>2. /\ asset' = [asset EXCEPT ![event[e].merged] = "active"]
          /\ into' = [into EXCEPT ![event[e].merged] = None]
          /\ event' = [event EXCEPT ![e].reversed = TRUE]
          /\ reversing' = [reversing EXCEPT ![v].at = "done"]
          /\ UNCHANGED <<histories, resolver, merging, assetFaults>>
      BY <2>6 DEF ReverseMerge, RestoredBy
    <3>. HIDE DEF e
    <3>3. Existing' = Existing
      BY <3>1, <3>2 DEF Existing, AssetsTyped, AssetTypeOK
    <3>4. /\ event' \in [Merges -> [survivor : Existing \cup {None}, merged : Existing \cup {None},
                                   reversed : BOOLEAN]]
          /\ \A x \in Merges : event'[x].merged = event[x].merged
      <4>1. event \in [Merges -> [survivor : Existing \cup {None}, merged : Existing \cup {None},
                                 reversed : BOOLEAN]]
        BY DEF AssetsTyped, AssetTypeOK
      <4>. QED
        BY <3>1, <3>2, <4>1, ReversesEvent
    <3>5. asset' \in [Ids -> {"absent", "active",
        "merged"}] /\ into' \in [Ids -> Existing \cup {None}]
      BY <3>1, <3>2 DEF AssetsTyped, AssetTypeOK, Existing
    <3>6. reversing' \in [Reversals -> [at : {"new", "checked", "done"},
        event : Merges \cup {None}]]
      BY <3>2 DEF AssetsTyped, AssetTypeOK
    <3>7. AssetTypeOK'
      BY <3>2, <3>3, <3>4, <3>5, <3>6 DEF AssetsTyped, AssetTypeOK, histories
    <3>8. HoldsAssets'
      BY <3>2, <3>3, <3>4 DEF AssetsTyped, AssetTypeOK, HoldsAssets
    <3>. QED
      BY <3>7, <3>8 DEF AssetsTyped
  <2>7. CASE UNCHANGED assetVars
    BY <2>7 DEF assetVars, Existing, AssetsTyped, AssetTypeOK, HoldsAssets, rowsOfAssets,
      histories, requests
  <2>. QED
    BY <2>1, <2>2, <2>3, <2>4, <2>5, <2>6, <2>7 DEF AssetNext
<1>. QED
  BY <1>1, <1>2, PTL DEF AssetSpec

\* Every variable of the assets keeps its type; no row names one that is absent.
THEOREM AssetTypeCorrect == AssetSpec => []AssetTypeOK
<1>1. AssetsTyped => AssetTypeOK
  BY DEF AssetsTyped
<1>. QED
  BY <1>1, AssetsTypedInvariant, PTL

-----------------------------------------------------------------------------
(* One asset for an address *)

OneWorker == \A q, r \in Resolvers : q = r

\* What one worker adds to asset_address_history is of an address that no row
\* has: it looked, and nobody else inserts rows.
AddressesAreApart ==
    /\ \A x, y \in addresses : x.ip = y.ip => x.asset = y.asset
    /\ \A r \in Resolvers :
         resolver[r].at \in {"unknown", "inserted"} =>
           \A x \in addresses : x.ip # resolver[r].ip

LEMMA AddressesAreApartInvariant == ASSUME OneWorker PROVE AssetSpec => []AddressesAreApart
<1>1. AssetInit => AddressesAreApart
  BY DEF AssetInit, AddressesAreApart
<1>2. AssetsTyped /\ AddressesAreApart /\ [AssetNext]_assetVars => AddressesAreApart'
  <2> SUFFICES ASSUME AssetsTyped, AddressesAreApart, [AssetNext]_assetVars PROVE AddressesAreApart'
    OBVIOUS
  <2> USE DEF OneWorker, AssetsTyped, AssetTypeOK, HoldsAssets, AddressesAreApart,
    rowsOfAssets, histories, requests
  <2>1. ASSUME NEW r \in Resolvers, Resolver(r) PROVE AddressesAreApart'
    <3>1. CASE ResolveTarget(r)
      BY <3>1 DEF ResolveTarget, Existing
    <3>2. CASE FindOwner(r)
      <4>1. PICK a \in OwnersFor(r) : Takes(r, "found", a)
        BY <3>2 DEF FindOwner
      <4>. QED
        BY <3>2, <4>1 DEF FindOwner, Takes
    <3>3. CASE FindNoOwner(r)
      <4>1. \A x \in addresses : x.ip = resolver[r].ip => x.asset \in OwnersFor(r)
        BY DEF OwnersFor, OwnersOf
      <4>2. \A x \in addresses : x.ip # resolver[r].ip
        BY <3>3, <4>1 DEF FindNoOwner
      <4>. QED
        BY <3>3, <4>2 DEF FindNoOwner, GoesTo
    <3>4. CASE InsertAsset(r)
      <4>1. /\ resolver[r].at = "unknown" /\ addresses' = addresses
            /\ \A q \in Resolvers : resolver'[q].ip = resolver[q].ip
        BY <3>4 DEF InsertAsset, Takes
      <4>. QED
        BY <3>4, <4>1
    <3>5. CASE InsertAddress(r)
      BY <3>5 DEF InsertAddress, GoesTo, Existing
    <3>6. CASE KeepHostname(r)
      BY <3>6, SMTT(60) DEF KeepHostname, GoesTo, Existing
    <3>. QED
      BY <2>1, <3>1, <3>2, <3>3, <3>4, <3>5, <3>6 DEF Resolver
  <2>2. ASSUME NEW r \in Resolvers, ResolverCrash(r) PROVE AddressesAreApart'
    BY <2>2, AssetFaultsAssumption DEF ResolverCrash, GoesTo, Existing
  <2>3. ASSUME NEW m \in Merges, CheckMerge(m) PROVE AddressesAreApart'
    BY <2>3 DEF CheckMerge, Existing
  <2>4. ASSUME NEW m \in Merges, MergeAssets(m) PROVE AddressesAreApart'
    BY <2>4 DEF MergeAssets, Existing
  <2>5. ASSUME NEW v \in Reversals, CheckReversal(v) PROVE AddressesAreApart'
    BY <2>5 DEF CheckReversal, Existing
  <2>6. ASSUME NEW v \in Reversals, ReverseMerge(v) PROVE AddressesAreApart'
    BY <2>6 DEF ReverseMerge, RestoredBy
  <2>7. CASE UNCHANGED assetVars
    BY <2>7 DEF assetVars
  <2>. QED
    BY <2>1, <2>2, <2>3, <2>4, <2>5, <2>6, <2>7 DEF AssetNext
<1>. QED
  BY <1>1, <1>2, AssetsTypedInvariant, PTL DEF AssetSpec

\* With one worker, whatever merges, reversals and crashes there are and however
\* hosts are named, no address belongs to two assets.
THEOREM AddressHasOneAsset == ASSUME OneWorker PROVE AssetSpec => []OneAssetPerAddress
<1>1. AddressesAreApart => OneAssetPerAddress
  <2> SUFFICES ASSUME AddressesAreApart, NEW ip \in Ips PROVE Cardinality(OwnersOf(ip)) <= 1
    BY DEF OneAssetPerAddress
  <2>1. CASE OwnersOf(ip) = {}
    BY <2>1, FS_EmptySet
  <2>2. ASSUME NEW a \in OwnersOf(ip) PROVE Cardinality(OwnersOf(ip)) <= 1
    <3>1. OwnersOf(ip) = {a}
      BY DEF AddressesAreApart, OwnersOf
    <3>. QED
      BY <3>1, FS_Singleton
  <2>. QED
    BY <2>1, <2>2
<1>. QED
  BY <1>1, AddressesAreApartInvariant, PTL

-----------------------------------------------------------------------------
(* Merges *)

\* A request that has not merged has no event, so that none is overwritten.
EventsAreNew == \A m \in Merges : merging[m].at # "done" => event[m].merged = None

\* MOD-06, for any number of merges and reversals of the same assets: a merged
\* asset has an event that names it and its survivor and is still to be reversed.
THEOREM MergesStayReversible == AssetSpec => [](EventsAreNew /\ MergedIsReversible)
<1>1. AssetInit => EventsAreNew /\ MergedIsReversible
  BY DEF AssetInit, EventsAreNew, MergedIsReversible
<1>2. AssetsTyped /\ EventsAreNew /\ MergedIsReversible /\ [AssetNext]_assetVars
    => (EventsAreNew /\ MergedIsReversible)'
  <2> SUFFICES ASSUME AssetsTyped, EventsAreNew, MergedIsReversible,
      [AssetNext]_assetVars PROVE (EventsAreNew /\ MergedIsReversible)'
    OBVIOUS
  <2> USE DEF AssetsTyped, AssetTypeOK, HoldsAssets, EventsAreNew, MergedIsReversible,
    rowsOfAssets, histories, requests
  <2>1. ASSUME NEW r \in Resolvers, Resolver(r) PROVE (EventsAreNew /\ MergedIsReversible)'
    <3>1. CASE ResolveTarget(r)
      BY <3>1 DEF ResolveTarget, Existing
    <3>2. CASE FindOwner(r)
      BY <3>2, SMTT(20) DEF FindOwner
    <3>3. CASE FindNoOwner(r)
      BY <3>3, SMTT(30) DEF FindNoOwner, GoesTo, Existing
    <3>4. CASE InsertAsset(r)
      <4>. DEFINE a == CHOOSE a \in Ids : a \notin Existing
      <4>1. a \in Ids /\ asset' = [asset EXCEPT ![a] = "active"]
        BY <3>4 DEF InsertAsset, Existing
      <4>. HIDE DEF a
      <4>. QED
        BY <3>4, <4>1 DEF InsertAsset
    <3>5. CASE InsertAddress(r)
      BY <3>5 DEF InsertAddress, GoesTo, Existing
    <3>6. CASE KeepHostname(r)
      BY <3>6, SMTT(60) DEF KeepHostname, GoesTo, Existing
    <3>. QED
      BY <2>1, <3>1, <3>2, <3>3, <3>4, <3>5, <3>6 DEF Resolver
  <2>2. ASSUME NEW r \in Resolvers, ResolverCrash(r) PROVE (EventsAreNew /\ MergedIsReversible)'
    BY <2>2, AssetFaultsAssumption DEF ResolverCrash, GoesTo, Existing
  <2>3. ASSUME NEW m \in Merges, CheckMerge(m) PROVE (EventsAreNew /\ MergedIsReversible)'
    BY <2>3 DEF CheckMerge, Existing
  <2>4. ASSUME NEW m \in Merges, MergeAssets(m) PROVE (EventsAreNew /\ MergedIsReversible)'
    BY <2>4, NoneAssumption, SMTT(60) DEF MergeAssets, Existing
  <2>5. ASSUME NEW v \in Reversals, CheckReversal(v) PROVE (EventsAreNew /\ MergedIsReversible)'
    BY <2>5 DEF CheckReversal, Existing
  <2>6. ASSUME NEW v \in Reversals, ReverseMerge(v) PROVE (EventsAreNew /\ MergedIsReversible)'
    <3>. DEFINE e == reversing[v].event
    <3>1. /\ e \in Merges /\ event[e].merged \in Ids
      BY <2>6 DEF ReverseMerge, Existing
    <3>2. /\ asset' = [asset EXCEPT ![event[e].merged] = "active"]
          /\ into' = [into EXCEPT ![event[e].merged] = None]
          /\ event' = [event EXCEPT ![e].reversed = TRUE]
          /\ UNCHANGED merging
      BY <2>6 DEF ReverseMerge, RestoredBy
    <3>. HIDE DEF e
    <3>3. \A x \in Merges : /\ event'[x].merged = event[x].merged
                            /\ event'[x].survivor = event[x].survivor
                            /\ x # e => event'[x].reversed = event[x].reversed
      <4>1. event \in [Merges -> [survivor : Existing \cup {None}, merged : Existing \cup {None},
                                 reversed : BOOLEAN]]
        OBVIOUS
      <4>2. event' = [event EXCEPT ![e].reversed = TRUE]
        BY <3>2
      <4>3. e \in Merges
        BY <3>1
      <4>4. \A x \in Merges : /\ event'[x].merged = event[x].merged
                              /\ event'[x].survivor = event[x].survivor
        BY <4>1, <4>2, <4>3, ReversesEvent
      <4>. QED
        BY <4>1, <4>2, <4>3, <4>4, ReversesEvent
    <3>4. EventsAreNew'
      BY <3>2, <3>3
    <3>5. MergedIsReversible'
      BY <3>1, <3>2, <3>3
    <3>. QED
      BY <3>4, <3>5
  <2>7. CASE UNCHANGED assetVars
    BY <2>7 DEF assetVars
  <2>. QED
    BY <2>1, <2>2, <2>3, <2>4, <2>5, <2>6, <2>7 DEF AssetNext
<1>. QED
  BY <1>1, <1>2, AssetsTypedInvariant, PTL DEF AssetSpec

-----------------------------------------------------------------------------
(* Archives *)

Statuses == {"none", "pending", "completed", "failed"}
Versions == 0..(MaxVersions + 1)
ReportRows == [ReportIds -> [status : Statuses, formats : SUBSET Formats, data : Versions]]
BackupRows == [BackupIds -> {"none", "running", "completed", "failed"}]
Stores == [StoreKeys -> Versions]
Snapshots == [reports : ReportRows, artifacts : SUBSET ArtifactIds, backups : BackupRows]

\* Snapshots and archives are rows and blobs like those they were made of.
ArchivesTyped ==
    /\ reports \in ReportRows
    /\ artifacts \in SUBSET ArtifactIds
    /\ backups \in BackupRows
    /\ blobs \in Stores
    /\ version \in 1..(MaxVersions + 1)
    /\ generating \in {Idle} \cup [doing : ReportIds, data : 1..(MaxVersions + 1),
                                   left : SUBSET Formats]
    /\ archiving \in {Idle} \cup [doing : BackupIds, snapshot : Snapshots,
                                  left : SUBSET StoreKeys, copied : Stores, written : BOOLEAN]
    /\ archives \subseteq [snapshot : Snapshots, copied : Stores]
    /\ restores \in 0..archiveFaults /\ archiveFaults \in 0..MaxArchiveFaults

\* A backup takes one blob off its list and copies it.
LEMMA CopiesOne ==
  ASSUME NEW B, NEW S, NEW K, NEW V, NEW k \in K, NEW v \in V,
         NEW f \in [doing : B, snapshot : S, left : SUBSET K, copied : [K -> V],
                    written : BOOLEAN],
         NEW g, g = [f EXCEPT !.left = @ \ {k}, !.copied[k] = v]
  PROVE  /\ g \in [doing : B, snapshot : S, left : SUBSET K, copied : [K -> V],
                   written : BOOLEAN]
         /\ g.snapshot = f.snapshot /\ g.left = f.left \ {k}
         /\ g.copied[k] = v /\ \A q \in K \ {k} : g.copied[q] = f.copied[q]
OBVIOUS

LEMMA KeysOfBlobs ==
  /\ \A r \in ReportIds, f \in Formats : Key(r, f) \in StoreKeys
  /\ \A a \in ArtifactIds : <<"artifact", a>> \in StoreKeys
  /\ \A r, q \in ReportIds, f, g \in Formats : Key(r, f) = Key(q, g) => r = q /\ f = g
  /\ \A r \in ReportIds, f \in Formats, a \in ArtifactIds : Key(r, f) # <<"artifact", a>>
  /\ \A s \in Snapshots : BlobKeys(s) \subseteq StoreKeys
BY DEF Key, StoreKeys, BlobKeys, Snapshots, ReportRows

LEMMA AtMostFaults == MaxVersions \in Nat /\ MaxArchiveFaults \in Nat
                      /\ NoRow \notin ReportIds /\ NoRow \notin BackupIds
BY ArchiveAssumption

LEMMA ArchivesTypedInvariant == ArchiveSpec => []ArchivesTyped
<1>1. ArchiveInit => ArchivesTyped
  BY AtMostFaults DEF ArchiveInit, ArchivesTyped, ReportRows, BackupRows, Stores, Statuses, Versions
<1>2. ArchivesTyped /\ [ArchiveNext]_archiveVars => ArchivesTyped'
  <2> SUFFICES ASSUME ArchivesTyped, [ArchiveNext]_archiveVars PROVE ArchivesTyped'
    OBVIOUS
  <2>1. CASE Publish
    BY <2>1, AtMostFaults DEF Publish, ArchivesTyped, ReportRows, BackupRows, Statuses,
      Versions, records, jobs, kept, Idle, ArchiveFault, Generates, ArchivesWith,
      BackupEnds, ReportAs, ReportsIn, BackupsIn
  <2>2. CASE FinishReport
    BY <2>2, AtMostFaults DEF FinishReport, ArchivesTyped, ReportRows, BackupRows, Statuses,
      Versions, records, jobs, kept, Idle, ArchiveFault, Generates, ArchivesWith,
      BackupEnds, ReportAs, ReportsIn, BackupsIn
  <2>3. CASE FailReport
    BY <2>3, AtMostFaults DEF FailReport, ArchivesTyped, ReportRows, BackupRows, Statuses,
      Versions, records, jobs, kept, Idle, ArchiveFault, Generates, ArchivesWith,
      BackupEnds, ReportAs, ReportsIn, BackupsIn
  <2>4. CASE WriteArchive
    <3>1. archiving \in [doing : BackupIds, snapshot : Snapshots,
                         left : SUBSET StoreKeys, copied : Stores, written : BOOLEAN]
      BY <2>4 DEF WriteArchive, ArchivesTyped
    <3>2. archiving' = [archiving EXCEPT !.written = TRUE]
      BY <2>4 DEF WriteArchive, ArchivesWith
    <3>3. archiving' \in [doing : BackupIds, snapshot : Snapshots,
                          left : SUBSET StoreKeys, copied : Stores, written : BOOLEAN]
      BY <3>1, <3>2
    <3>4. archives' \subseteq [snapshot : Snapshots, copied : Stores]
      BY <2>4, <3>1 DEF WriteArchive, ArchivesTyped
    <3>. QED
      BY <2>4, <3>3, <3>4 DEF WriteArchive, ArchivesTyped, ArchivesWith
  <2>5. CASE FinishBackup
    BY <2>5, AtMostFaults DEF FinishBackup, ArchivesTyped, ReportRows, BackupRows, Statuses,
      Versions, records, jobs, kept, Idle, ArchiveFault, Generates, ArchivesWith,
      BackupEnds, ReportAs, ReportsIn, BackupsIn
  <2>6. CASE FailBackup
    BY <2>6, AtMostFaults DEF FailBackup, ArchivesTyped, ReportRows, BackupRows, Statuses,
      Versions, records, jobs, kept, Idle, ArchiveFault, Generates, ArchivesWith,
      BackupEnds, ReportAs, ReportsIn, BackupsIn
  <2>7. CASE CrashOfWorker
    BY <2>7, AtMostFaults DEF CrashOfWorker, ArchivesTyped, ReportRows, BackupRows,
      Statuses, Versions, records, jobs, kept, Idle, ArchiveFault, Generates, ArchivesWith,
      BackupEnds, ReportAs, ReportsIn, BackupsIn
  <2>8. ASSUME NEW r \in ReportIds, StartReport(r) PROVE ArchivesTyped'
    <3>1. reports[r].formats \in SUBSET Formats /\ version \in 1..(MaxVersions + 1)
      BY DEF ArchivesTyped, ReportRows
    <3>2. generating' \in [doing : ReportIds, data : 1..(MaxVersions + 1), left : SUBSET Formats]
      BY <2>8, <3>1 DEF StartReport, Generates, FormatsToPut
    <3>. QED
      BY <2>8, <3>2 DEF StartReport, Generates, ArchivesTyped, kept
  <2>9. ASSUME NEW r \in ReportIds, NEW formats \in SUBSET Formats, AskForReport(r,
      formats) PROVE ArchivesTyped'
    BY <2>9, AtMostFaults DEF AskForReport, ArchivesTyped, ReportRows, BackupRows, Statuses,
      Versions, records, jobs, kept, Idle, ArchiveFault, Generates, ArchivesWith,
      BackupEnds, ReportAs, ReportsIn, BackupsIn
  <2>10. ASSUME NEW f \in Formats, PutFormat(f) PROVE ArchivesTyped'
    <3>1. generating \in [doing : ReportIds, data : 1..(MaxVersions + 1), left : SUBSET Formats]
      BY <2>10 DEF PutFormat, ArchivesTyped
    <3>2. generating.data \in Versions
      BY <3>1, AtMostFaults DEF Versions
    <3>3. blobs' \in Stores
      BY <2>10, <3>2 DEF PutFormat, ArchivesTyped, Stores
    <3>4. generating' = [generating EXCEPT !.left = @ \ {f}]
      BY <2>10 DEF PutFormat, Generates
    <3>5. generating' \in [doing : ReportIds, data : 1..(MaxVersions + 1), left : SUBSET Formats]
      BY <3>1, <3>4
    <3>. QED
      BY <2>10, <3>3, <3>5 DEF PutFormat, Generates, ArchivesTyped, kept
  <2>11. ASSUME NEW a \in ArtifactIds, PutArtifact(a) PROVE ArchivesTyped'
    <3>1. version \in Versions
      BY AtMostFaults DEF ArchivesTyped, Versions
    <3>2. blobs' \in Stores
      BY <2>11, <3>1 DEF PutArtifact, ArchivesTyped, Stores
    <3>. QED
      BY <2>11, <3>2 DEF PutArtifact, ArchivesTyped, records, jobs, kept
  <2>12. ASSUME NEW a \in ArtifactIds, RecordArtifact(a) PROVE ArchivesTyped'
    BY <2>12, AtMostFaults DEF RecordArtifact, ArchivesTyped, ReportRows, BackupRows,
      Statuses, Versions, records, jobs, kept, Idle, ArchiveFault, Generates, ArchivesWith,
      BackupEnds, ReportAs, ReportsIn, BackupsIn
  <2>13. ASSUME NEW b \in BackupIds, AskForBackup(b) PROVE ArchivesTyped'
    BY <2>13, AtMostFaults DEF AskForBackup, ArchivesTyped, ReportRows, BackupRows,
      Statuses, Versions, records, jobs, kept, Idle, ArchiveFault, Generates, ArchivesWith,
      BackupEnds, ReportAs, ReportsIn, BackupsIn
  <2>14. ASSUME NEW b \in BackupIds, StartBackup(b) PROVE ArchivesTyped'
    <3>. DEFINE snapshot == [reports |-> reports, artifacts |-> artifacts, backups |-> backups]
    <3>1. snapshot \in Snapshots
      BY DEF ArchivesTyped, Snapshots
    <3>2. BlobKeys(snapshot) \in SUBSET StoreKeys /\ [k \in StoreKeys |-> 0] \in Stores
      BY <3>1, KeysOfBlobs, AtMostFaults DEF Stores, Versions
    <3>3. archiving' = [doing |-> b, snapshot |-> snapshot, left |-> BlobKeys(snapshot),
                        copied |-> [k \in StoreKeys |-> 0], written |-> FALSE]
      BY <2>14 DEF StartBackup, ArchivesWith
    <3>. HIDE DEF snapshot
    <3>4. archiving' \in [doing : BackupIds, snapshot : Snapshots,
                          left : SUBSET StoreKeys, copied : Stores, written : BOOLEAN]
      BY <3>1, <3>2, <3>3
    <3>. QED
      BY <2>14, <3>4 DEF StartBackup, ArchivesWith, ArchivesTyped
  <2>15. ASSUME NEW archive \in archives, Restore(archive) PROVE ArchivesTyped'
    <3>1. archive.snapshot \in Snapshots
      BY DEF ArchivesTyped
    <3>. QED
      BY <2>15, <3>1, AtMostFaults DEF Restore, ArchivesTyped, Snapshots, ArchiveFault
  <2>16. ASSUME NEW k \in StoreKeys, CopyBlob(k) PROVE ArchivesTyped'
    <3>1. archiving \in [doing : BackupIds, snapshot : Snapshots,
                         left : SUBSET StoreKeys, copied : [StoreKeys -> Versions],
                           written : BOOLEAN]
      BY <2>16 DEF CopyBlob, ArchivesTyped, Stores
    <3>2. archiving' = [archiving EXCEPT !.left = @ \ {k}, !.copied[k] = blobs[k]]
      BY <2>16 DEF CopyBlob, ArchivesWith
    <3>3. blobs[k] \in Versions
      BY DEF ArchivesTyped, Stores
    <3>4. archiving' \in [doing : BackupIds, snapshot : Snapshots,
                          left : SUBSET StoreKeys, copied : [StoreKeys -> Versions],
                            written : BOOLEAN]
      BY <3>1, <3>2, <3>3, CopiesOne
    <3>. QED
      BY <2>16, <3>4 DEF CopyBlob, ArchivesWith, ArchivesTyped, Stores
  <2>17. CASE UNCHANGED archiveVars
    BY <2>17 DEF archiveVars, ArchivesTyped, Idle
  <2>. QED
    BY <2>1, <2>2, <2>3, <2>4, <2>5, <2>6, <2>7, <2>8, <2>9, <2>10, <2>11, <2>12, <2>13,
       <2>14, <2>15, <2>16, <2>17 DEF ArchiveNext
<1>. QED
  BY <1>1, <1>2, PTL DEF ArchiveSpec

\* Every variable of reports, scans' artifacts and backups keeps its type.
THEOREM ArchiveTypeCorrect == ArchiveSpec => []ArchiveTypeOK
<1>1. ArchivesTyped => ArchiveTypeOK
  BY AtMostFaults DEF ArchivesTyped, ArchiveTypeOK, ReportRows, BackupRows, Stores, Statuses,
    Versions, Idle
<1>. QED
  BY <1>1, ArchivesTypedInvariant, PTL

-----------------------------------------------------------------------------
(* Evidence *)

\* Holds and Agrees, with what GET /reports/{id}/download answers read off.
HeldBy(rows, ids, store) ==
    /\ \A r \in ReportIds : \A f \in rows[r].formats :
         rows[r].status = "completed" => store[Key(r, f)] # 0
    /\ \A a \in ids : store[<<"artifact", a>>] # 0

AgreesWith(rows, store) ==
    \A r \in ReportIds : \A f \in rows[r].formats :
      rows[r].status = "completed" => store[Key(r, f)] = rows[r].data

DatedIfCompleted(rows) == \A r \in ReportIds : rows[r].status = "completed" <=> rows[r].data # 0

\* The completed reports and the artifacts of these rows have the same rows now.
StillThere(rows, ids) ==
    /\ \A r \in ReportIds : rows[r].status = "completed" => reports[r] = rows[r]
    /\ ids \subseteq artifacts

RowsAreWhole ==
    /\ DatedIfCompleted(reports)
    /\ HeldBy(reports, artifacts, blobs)
    /\ restores < 2 => AgreesWith(reports, blobs)

\* A report is pending until it is done, and each format put is of the data
\* that was read at the start.
GenerationIsWhole ==
    generating # Idle =>
      /\ reports[generating.doing].status = "pending"
      /\ \A f \in reports[generating.doing].formats \ generating.left :
           blobs[Key(generating.doing, f)] = generating.data

\* A blob that the snapshot's rows name does not change until it is copied, nor
\* after.
BackupIsWhole ==
    archiving # Idle =>
      /\ DatedIfCompleted(archiving.snapshot.reports)
      /\ StillThere(archiving.snapshot.reports, archiving.snapshot.artifacts)
      /\ \A k \in BlobKeys(archiving.snapshot) \ archiving.left : archiving.copied[k] = blobs[k]

\* What a restore brings back is still stored; before the first one it has not
\* even changed.
ArchivesAreWhole ==
    \A x \in archives :
      /\ DatedIfCompleted(x.snapshot.reports)
      /\ HeldBy(x.snapshot.reports, x.snapshot.artifacts, blobs)
      /\ HeldBy(x.snapshot.reports, x.snapshot.artifacts, x.copied)
      /\ restores < 2 => AgreesWith(x.snapshot.reports, x.copied)
      /\ restores = 0 => StillThere(x.snapshot.reports, x.snapshot.artifacts)

Whole == RowsAreWhole /\ GenerationIsWhole /\ BackupIsWhole /\ ArchivesAreWhole

\* A blob that is stored stays.
LEMMA StoreGrows ==
  ASSUME NEW rows \in ReportRows, NEW ids \in SUBSET ArtifactIds,
         NEW store, NEW store2, \A k \in StoreKeys : store[k] # 0 => store2[k] # 0,
         HeldBy(rows, ids, store)
  PROVE  HeldBy(rows, ids, store2)
BY KeysOfBlobs DEF HeldBy, ReportRows

LEMMA DownloadsHeld ==
  ASSUME NEW rows, rows.reports \in ReportRows, NEW store,
         HeldBy(rows.reports, rows.artifacts, store)
  PROVE  /\ Holds(rows, store)
         /\ AgreesWith(rows.reports, store) => Agrees(rows, store)
<1>. SUFFICES ASSUME NEW r \in ReportIds, NEW f \in Formats
     PROVE  /\ DownloadStatus(rows, store, r, f) # 410
            /\ AgreesWith(rows.reports, store) /\ DownloadStatus(rows, store, r, f) = 200
                 => store[Key(r, f)] = rows.reports[r].data
  BY DEF Holds, Agrees, HeldBy
<1>1. rows.reports[r].status \in Statuses
  BY DEF ReportRows
<1>2. CASE rows.reports[r].status = "none"
  BY <1>2 DEF DownloadStatus
<1>3. CASE rows.reports[r].status \in {"pending", "failed"}
  BY <1>3 DEF DownloadStatus
<1>4. CASE rows.reports[r].status = "completed" /\ f \notin rows.reports[r].formats
  BY <1>4 DEF DownloadStatus
<1>5. CASE rows.reports[r].status = "completed" /\ f \in rows.reports[r].formats
  <2>1. store[Key(r, f)] # 0
    BY <1>5 DEF HeldBy
  <2>2. DownloadStatus(rows, store, r, f) = 200
    BY <1>5, <2>1 DEF DownloadStatus
  <2>. QED
    BY <1>5, <2>2 DEF AgreesWith
<1>. QED
  BY <1>1, <1>2, <1>3, <1>4, <1>5 DEF Statuses

\* The keys a snapshot names are those its completed reports and artifacts hold.
LEMMA NamedKeys ==
  ASSUME NEW rows \in Snapshots, DatedIfCompleted(rows.reports)
  PROVE  /\ \A r \in ReportIds : \A f \in rows.reports[r].formats :
              rows.reports[r].status = "completed" => Key(r, f) \in BlobKeys(rows)
         /\ \A a \in rows.artifacts : <<"artifact", a>> \in BlobKeys(rows)
         /\ \A k \in BlobKeys(rows) :
              \/ \E a \in rows.artifacts : k = <<"artifact", a>>
              \/ \E r \in ReportIds : \E f \in rows.reports[r].formats :
                   k = Key(r, f) /\ rows.reports[r].status = "completed"
<1>1. ASSUME NEW r \in ReportIds, NEW f \in rows.reports[r].formats,
             rows.reports[r].status = "completed"
      PROVE  Key(r, f) \in BlobKeys(rows)
  <2>1. r \in {q \in ReportIds : rows.reports[q].data # 0}
    BY <1>1 DEF DatedIfCompleted
  <2>2. Key(r, f) \in {Key(r, g) : g \in rows.reports[r].formats}
    OBVIOUS
  <2>. QED
    BY <2>1, <2>2 DEF BlobKeys
<1>2. \A k \in BlobKeys(rows) :
        \/ \E a \in rows.artifacts : k = <<"artifact", a>>
        \/ \E r \in ReportIds : \E f \in rows.reports[r].formats :
             k = Key(r, f) /\ rows.reports[r].data # 0
  BY DEF BlobKeys
<1>. QED
  BY <1>1, <1>2 DEF BlobKeys, DatedIfCompleted

\* DATA-01 and DATA-05, for any reports, artifacts and backups and however they
\* overlap with crashes and restores: no completed report answers 410, archives
\* hold what their rows name, and reports what their rows say.
THEOREM EvidenceStaysWhole == ArchiveSpec => []EvidenceIsWhole
<1>1. ArchiveInit => Whole
  BY DEF ArchiveInit, Whole, RowsAreWhole, GenerationIsWhole, BackupIsWhole, ArchivesAreWhole,
    DatedIfCompleted, HeldBy, AgreesWith
<1>2. ArchivesTyped /\ Whole /\ [ArchiveNext]_archiveVars => Whole'
  <2> SUFFICES ASSUME ArchivesTyped, Whole, [ArchiveNext]_archiveVars PROVE Whole'
    OBVIOUS
  <2>1. CASE Publish
    <3>1. RowsAreWhole'
      BY <2>1 DEF Publish, Whole, RowsAreWhole, DatedIfCompleted, HeldBy, AgreesWith, records,
        jobs, kept, Generates, ArchivesWith, ArchiveFault
    <3>2. GenerationIsWhole'
      BY <2>1 DEF Publish, Whole, GenerationIsWhole, records, jobs, kept, Generates, ArchivesWith,
        ArchiveFault
    <3>3. BackupIsWhole'
      BY <2>1 DEF Publish, Whole, BackupIsWhole, DatedIfCompleted, StillThere, records, jobs, kept,
        Generates, ArchivesWith, ArchiveFault
    <3>4. ArchivesAreWhole'
      BY <2>1 DEF Publish, Whole, ArchivesAreWhole, DatedIfCompleted, HeldBy, AgreesWith,
        StillThere, records, jobs, kept, Generates, ArchivesWith, ArchiveFault
    <3>. QED
      BY <3>1, <3>2, <3>3, <3>4 DEF Whole
  <2>2. CASE FinishReport
    <3>. DEFINE d == generating.doing
                v == generating.data
    <3>1. generating \in [doing : ReportIds, data : 1..(MaxVersions + 1), left : SUBSET Formats]
      BY <2>2 DEF FinishReport, ArchivesTyped
    <3>2. /\ d \in ReportIds /\ reports[d].status = "pending"
          /\ reports' = [reports EXCEPT ![d].status = "completed", ![d].data = v]
          /\ UNCHANGED <<artifacts, blobs, archiving, archives, restores>>
          /\ generating' = Idle
      BY <2>2, <3>1 DEF FinishReport, Whole, GenerationIsWhole, ReportsIn, ReportAs, Generates, kept
    <3>3. v # 0 /\ \A f \in reports[d].formats : blobs[Key(d, f)] = v
      BY <2>2, <3>1 DEF FinishReport, Whole, GenerationIsWhole
    <3>. HIDE DEF d, v
    <3>4. /\ \A q \in ReportIds : q # d => reports'[q] = reports[q]
          /\ reports'[d].status = "completed" /\ reports'[d].data = v
          /\ reports'[d].formats = reports[d].formats
      BY <3>2 DEF ArchivesTyped, ReportRows
    <3>5. RowsAreWhole'
      <4>1. DatedIfCompleted(reports)'
        BY <3>2, <3>3, <3>4 DEF Whole, RowsAreWhole, DatedIfCompleted
      <4>2. HeldBy(reports, artifacts, blobs)'
        BY <3>2, <3>3, <3>4 DEF Whole, RowsAreWhole, HeldBy
      <4>3. restores < 2 => AgreesWith(reports, blobs)'
        BY <3>2, <3>3, <3>4 DEF Whole, RowsAreWhole, AgreesWith
      <4>. QED
        BY <3>2, <4>1, <4>2, <4>3 DEF RowsAreWhole
    <3>6. GenerationIsWhole'
      BY <3>2 DEF GenerationIsWhole
    <3>7. BackupIsWhole'
      BY <3>2, <3>4 DEF Whole, BackupIsWhole, DatedIfCompleted, StillThere
    <3>8. ArchivesAreWhole'
      <4> SUFFICES ASSUME NEW x \in archives
                   PROVE  restores = 0 => StillThere(x.snapshot.reports, x.snapshot.artifacts)'
        BY <3>2 DEF Whole, ArchivesAreWhole
      <4>. QED
        BY <3>2, <3>4 DEF Whole, ArchivesAreWhole, StillThere
    <3>. QED
      BY <3>5, <3>6, <3>7, <3>8 DEF Whole
  <2>3. CASE FailReport
    <3>. DEFINE d == generating.doing
                v == 0
    <3>1. generating \in [doing : ReportIds, data : 1..(MaxVersions + 1), left : SUBSET Formats]
      BY <2>3 DEF FailReport, ArchivesTyped
    <3>2. /\ d \in ReportIds /\ reports[d].status = "pending"
          /\ reports' = [reports EXCEPT ![d].status = "failed", ![d].data = v]
          /\ UNCHANGED <<artifacts, blobs, archiving, archives, restores>>
          /\ generating' = Idle
      BY <2>3, <3>1 DEF FailReport, Whole, GenerationIsWhole, ReportsIn, ReportAs, Generates, kept
    <3>3. v = 0
      OBVIOUS
    <3>. HIDE DEF d, v
    <3>4. /\ \A q \in ReportIds : q # d => reports'[q] = reports[q]
          /\ reports'[d].status = "failed" /\ reports'[d].data = v
          /\ reports'[d].formats = reports[d].formats
      BY <3>2 DEF ArchivesTyped, ReportRows
    <3>5. RowsAreWhole'
      <4>1. DatedIfCompleted(reports)'
        BY <3>2, <3>3, <3>4 DEF Whole, RowsAreWhole, DatedIfCompleted
      <4>2. HeldBy(reports, artifacts, blobs)'
        BY <3>2, <3>3, <3>4 DEF Whole, RowsAreWhole, HeldBy
      <4>3. restores < 2 => AgreesWith(reports, blobs)'
        BY <3>2, <3>3, <3>4 DEF Whole, RowsAreWhole, AgreesWith
      <4>. QED
        BY <3>2, <4>1, <4>2, <4>3 DEF RowsAreWhole
    <3>6. GenerationIsWhole'
      BY <3>2 DEF GenerationIsWhole
    <3>7. BackupIsWhole'
      BY <3>2, <3>4 DEF Whole, BackupIsWhole, DatedIfCompleted, StillThere
    <3>8. ArchivesAreWhole'
      <4> SUFFICES ASSUME NEW x \in archives
                   PROVE  restores = 0 => StillThere(x.snapshot.reports, x.snapshot.artifacts)'
        BY <3>2 DEF Whole, ArchivesAreWhole
      <4>. QED
        BY <3>2, <3>4 DEF Whole, ArchivesAreWhole, StillThere
    <3>. QED
      BY <3>5, <3>6, <3>7, <3>8 DEF Whole
  <2>4. CASE WriteArchive
    <3>. DEFINE s == archiving.snapshot
    <3>1. archiving \in [doing : BackupIds, snapshot : Snapshots, left : SUBSET StoreKeys,
                         copied : Stores, written : BOOLEAN]
      BY <2>4 DEF WriteArchive, ArchivesTyped
    <3>2. /\ archiving' = [archiving EXCEPT !.written = TRUE]
          /\ archives' = archives \cup {[snapshot |-> s, copied |-> archiving.copied]}
          /\ UNCHANGED <<reports, artifacts, blobs, generating, restores>>
      BY <2>4 DEF WriteArchive, ArchivesWith
    <3>3. /\ archiving'.snapshot = s /\ archiving'.left = archiving.left
          /\ archiving'.copied = archiving.copied /\ s \in Snapshots
      BY <3>1, <3>2
    <3>4. /\ DatedIfCompleted(s.reports) /\ StillThere(s.reports, s.artifacts)
          /\ \A k \in BlobKeys(s) : archiving.copied[k] = blobs[k]
      BY <2>4 DEF WriteArchive, Whole, BackupIsWhole
    <3>. HIDE DEF s
    <3>5. HeldBy(s.reports, s.artifacts, blobs) /\ (restores < 2 => AgreesWith(s.reports, blobs))
      BY <3>4 DEF Whole, RowsAreWhole, HeldBy, AgreesWith, StillThere
    <3>6. /\ HeldBy(s.reports, s.artifacts, archiving.copied)
          /\ restores < 2 => AgreesWith(s.reports, archiving.copied)
      BY <3>3, <3>4, <3>5, NamedKeys DEF HeldBy, AgreesWith
    <3>7. RowsAreWhole'
      BY <3>2 DEF Whole, RowsAreWhole
    <3>8. GenerationIsWhole'
      BY <3>2 DEF Whole, GenerationIsWhole
    <3>9. BackupIsWhole'
      <4>1. archiving # Idle
        BY <2>4 DEF WriteArchive
      <4>. QED
        BY <3>2, <3>3, <4>1 DEF s, Whole, BackupIsWhole, StillThere
    <3>10. ArchivesAreWhole'
      <4>1. ASSUME NEW x \in archives
            PROVE  restores = 0 => StillThere(x.snapshot.reports, x.snapshot.artifacts)'
        BY <3>2 DEF Whole, ArchivesAreWhole, StillThere
      <4>2. ASSUME NEW x, x = [snapshot |-> s, copied |-> archiving.copied]
            PROVE  /\ DatedIfCompleted(x.snapshot.reports)
                   /\ HeldBy(x.snapshot.reports, x.snapshot.artifacts, blobs)
                   /\ HeldBy(x.snapshot.reports, x.snapshot.artifacts, x.copied)
                   /\ restores < 2 => AgreesWith(x.snapshot.reports, x.copied)
                   /\ StillThere(x.snapshot.reports, x.snapshot.artifacts)'
        <5>1. x.snapshot = s /\ x.copied = archiving.copied
          BY <4>2
        <5>. QED
          BY <5>1, <3>2, <3>4, <3>5, <3>6 DEF StillThere
      <4>. QED
        BY <3>2, <4>1, <4>2 DEF Whole, ArchivesAreWhole
    <3>. QED
      BY <3>7, <3>8, <3>9, <3>10 DEF Whole
  <2>5. CASE FinishBackup
    <3>1. RowsAreWhole'
      BY <2>5 DEF FinishBackup, Whole, RowsAreWhole, DatedIfCompleted, HeldBy, AgreesWith, records,
        jobs, kept, Generates, ArchivesWith, ArchiveFault, BackupEnds
    <3>2. GenerationIsWhole'
      BY <2>5 DEF FinishBackup, Whole, GenerationIsWhole, records, jobs, kept, Generates,
        ArchivesWith, ArchiveFault, BackupEnds
    <3>3. BackupIsWhole'
      BY <2>5 DEF FinishBackup, Whole, BackupIsWhole, DatedIfCompleted, StillThere, records, jobs,
        kept, Generates, ArchivesWith, ArchiveFault, BackupEnds
    <3>4. ArchivesAreWhole'
      BY <2>5 DEF FinishBackup, Whole, ArchivesAreWhole, DatedIfCompleted, HeldBy, AgreesWith,
        StillThere, records, jobs, kept, Generates, ArchivesWith, ArchiveFault, BackupEnds
    <3>. QED
      BY <3>1, <3>2, <3>3, <3>4 DEF Whole
  <2>6. CASE FailBackup
    <3>1. RowsAreWhole'
      BY <2>6 DEF FailBackup, Whole, RowsAreWhole, DatedIfCompleted, HeldBy, AgreesWith, records,
        jobs, kept, Generates, ArchivesWith, ArchiveFault, BackupEnds
    <3>2. GenerationIsWhole'
      BY <2>6 DEF FailBackup, Whole, GenerationIsWhole, records, jobs, kept, Generates,
        ArchivesWith, ArchiveFault, BackupEnds
    <3>3. BackupIsWhole'
      BY <2>6 DEF FailBackup, Whole, BackupIsWhole, DatedIfCompleted, StillThere, records, jobs,
        kept, Generates, ArchivesWith, ArchiveFault, BackupEnds
    <3>4. ArchivesAreWhole'
      BY <2>6 DEF FailBackup, Whole, ArchivesAreWhole, DatedIfCompleted, HeldBy, AgreesWith,
        StillThere, records, jobs, kept, Generates, ArchivesWith, ArchiveFault, BackupEnds
    <3>. QED
      BY <3>1, <3>2, <3>3, <3>4 DEF Whole
  <2>7. CASE CrashOfWorker
    <3>1. RowsAreWhole'
      BY <2>7 DEF CrashOfWorker, Whole, RowsAreWhole, DatedIfCompleted, HeldBy, AgreesWith,
        records, jobs, kept, Generates, ArchivesWith, ArchiveFault
    <3>2. GenerationIsWhole'
      BY <2>7 DEF CrashOfWorker, Whole, GenerationIsWhole, records, jobs, kept, Generates,
        ArchivesWith, ArchiveFault
    <3>3. BackupIsWhole'
      BY <2>7 DEF CrashOfWorker, Whole, BackupIsWhole, DatedIfCompleted, StillThere, records, jobs,
        kept, Generates, ArchivesWith, ArchiveFault
    <3>4. ArchivesAreWhole'
      BY <2>7 DEF CrashOfWorker, Whole, ArchivesAreWhole, DatedIfCompleted, HeldBy, AgreesWith,
        StillThere, records, jobs, kept, Generates, ArchivesWith, ArchiveFault
    <3>. QED
      BY <3>1, <3>2, <3>3, <3>4 DEF Whole
  <2>8. ASSUME NEW r \in ReportIds, StartReport(r) PROVE Whole'
    <3>1. RowsAreWhole'
      BY <2>8 DEF StartReport, Whole, RowsAreWhole, DatedIfCompleted, HeldBy, AgreesWith, records,
        jobs, kept, Generates, ArchivesWith, ArchiveFault, ReportsIn, FormatsToPut, Idle
    <3>2. GenerationIsWhole'
      BY <2>8 DEF StartReport, Whole, GenerationIsWhole, records, jobs, kept, Generates,
        ArchivesWith, ArchiveFault, ReportsIn, FormatsToPut, Idle
    <3>3. BackupIsWhole'
      BY <2>8 DEF StartReport, Whole, BackupIsWhole, DatedIfCompleted, StillThere, records, jobs,
        kept, Generates, ArchivesWith, ArchiveFault, ReportsIn, FormatsToPut, Idle
    <3>4. ArchivesAreWhole'
      BY <2>8 DEF StartReport, Whole, ArchivesAreWhole, DatedIfCompleted, HeldBy, AgreesWith,
        StillThere, records, jobs, kept, Generates, ArchivesWith, ArchiveFault, ReportsIn,
        FormatsToPut, Idle
    <3>. QED
      BY <3>1, <3>2, <3>3, <3>4 DEF Whole
  <2>9. ASSUME NEW r \in ReportIds, NEW formats \in SUBSET Formats, AskForReport(r,
      formats) PROVE Whole'
    <3>1. /\ reports[r].status = "none"
          /\ reports' = [reports EXCEPT ![r] = [status |-> "pending", formats |-> formats,
               data |-> 0]]
          /\ UNCHANGED <<artifacts, blobs, generating, archiving, archives, restores>>
      BY <2>9 DEF AskForReport, jobs, kept
    <3>2. /\ \A q \in ReportIds : q # r => reports'[q] = reports[q]
          /\ reports'[r].status = "pending" /\ reports'[r].data = 0
      BY <3>1 DEF ArchivesTyped, ReportRows
    <3>3. generating # Idle => generating.doing \in ReportIds
      BY DEF ArchivesTyped
    <3>4. RowsAreWhole'
      BY <3>1, <3>2 DEF Whole, RowsAreWhole, DatedIfCompleted, HeldBy, AgreesWith
    <3>5. GenerationIsWhole'
      BY <3>1, <3>2, <3>3 DEF Whole, GenerationIsWhole
    <3>6. BackupIsWhole'
      BY <3>1, <3>2 DEF Whole, BackupIsWhole, DatedIfCompleted, StillThere
    <3>7. ArchivesAreWhole'
      BY <3>1, <3>2 DEF Whole, ArchivesAreWhole, StillThere
    <3>. QED
      BY <3>4, <3>5, <3>6, <3>7 DEF Whole
  <2>10. ASSUME NEW f \in Formats, PutFormat(f) PROVE Whole'
    <3>. DEFINE d == generating.doing
                key == Key(d, f)
    <3>1. generating \in [doing : ReportIds, data : 1..(MaxVersions + 1), left : SUBSET Formats]
      BY <2>10 DEF PutFormat, ArchivesTyped
    <3>2. /\ blobs' = [blobs EXCEPT ![key] = generating.data]
          /\ generating' = [generating EXCEPT !.left = @ \ {f}]
          /\ f \in generating.left /\ reports[d].status = "pending"
          /\ UNCHANGED <<reports, artifacts, archiving, archives, restores>>
      BY <2>10 DEF PutFormat, Generates, kept, Whole, GenerationIsWhole
    <3>3. /\ d \in ReportIds /\ key \in StoreKeys /\ generating.data # 0
          /\ generating'.doing = d /\ generating'.data = generating.data
          /\ generating'.left = generating.left \ {f}
      BY <3>1, <3>2, KeysOfBlobs, AtMostFaults
    <3>4. blobs'[key] = generating.data /\ \A k \in StoreKeys : k # key => blobs'[k] = blobs[k]
      BY <3>2, <3>3 DEF ArchivesTyped, Stores
    <3>. HIDE DEF key, d
    <3>5. \A r \in ReportIds : \A g \in reports[r].formats :
            reports[r].status = "completed" => Key(r, g) # key /\ Key(r, g) \in StoreKeys
      BY <3>2, <3>3, KeysOfBlobs DEF ArchivesTyped, ReportRows, key, d
    <3>6. \A a \in artifacts : <<"artifact", a>> # key /\ <<"artifact", a>> \in StoreKeys
      BY <3>3, KeysOfBlobs DEF ArchivesTyped, key
    <3>7. RowsAreWhole'
      BY <3>2, <3>4, <3>5, <3>6 DEF Whole, RowsAreWhole, HeldBy, AgreesWith
    <3>8. GenerationIsWhole'
      <4> SUFFICES ASSUME NEW g \in reports[d].formats \ (generating.left \ {f})
                   PROVE  blobs'[Key(d, g)] = generating.data
        BY <3>2, <3>3 DEF GenerationIsWhole
      <4>1. CASE g = f
        BY <4>1, <3>4 DEF key
      <4>2. CASE g # f
        <5>1. g \in Formats /\ Key(d, g) \in StoreKeys /\ Key(d, g) # key
          BY <3>1, <3>2, <3>3, <4>2, KeysOfBlobs DEF key, ArchivesTyped, ReportRows
        <5>2. blobs[Key(d, g)] = generating.data
          BY <2>10, <4>2 DEF d, PutFormat, Whole, GenerationIsWhole
        <5>. QED
          BY <5>1, <5>2, <3>4
      <4>. QED
        BY <4>1, <4>2
    <3>9. BackupIsWhole'
      <4> SUFFICES ASSUME archiving # Idle,
                           NEW k \in BlobKeys(archiving.snapshot) \ archiving.left
                   PROVE  blobs'[k] = blobs[k]
        BY <3>2 DEF Whole, BackupIsWhole, StillThere
      <4>1. archiving.snapshot \in Snapshots
        BY DEF ArchivesTyped
      <4>2. k # key /\ k \in StoreKeys
        BY <3>5, <3>6, <4>1, NamedKeys, KeysOfBlobs DEF Whole, BackupIsWhole, StillThere
      <4>. QED
        BY <4>2, <3>4
    <3>10. ArchivesAreWhole'
      <4>1. \A k \in StoreKeys : blobs[k] # 0 => blobs'[k] # 0
        BY <3>3, <3>4
      <4>2. ASSUME NEW x \in archives
            PROVE  /\ HeldBy(x.snapshot.reports, x.snapshot.artifacts, blobs')
                   /\ restores = 0 => StillThere(x.snapshot.reports, x.snapshot.artifacts)'
        <5>1. x.snapshot.reports \in ReportRows /\ x.snapshot.artifacts \in SUBSET ArtifactIds
          BY DEF ArchivesTyped, Snapshots
        <5>. QED
          BY <3>2, <4>1, <5>1, StoreGrows DEF Whole, ArchivesAreWhole, StillThere
      <4>. QED
        BY <3>2, <4>2 DEF Whole, ArchivesAreWhole
    <3>. QED
      BY <3>7, <3>8, <3>9, <3>10 DEF Whole
  <2>11. ASSUME NEW a \in ArtifactIds, PutArtifact(a) PROVE Whole'
    <3>. DEFINE key == <<"artifact", a>>
    <3>1. /\ blobs[key] = 0 /\ blobs' = [blobs EXCEPT ![key] = version]
          /\ UNCHANGED <<reports, artifacts, generating, archiving, archives, restores>>
      BY <2>11 DEF PutArtifact, records, jobs, kept
    <3>2. key \in StoreKeys /\ version # 0
      BY KeysOfBlobs, AtMostFaults DEF ArchivesTyped
    <3>3. blobs'[key] = version /\ \A k \in StoreKeys : k # key => blobs'[k] = blobs[k]
      BY <3>1, <3>2 DEF ArchivesTyped, Stores
    <3>4. \A r \in ReportIds, f \in Formats : Key(r, f) # key /\ Key(r, f) \in StoreKeys
      BY KeysOfBlobs
    <3>5. \A b \in artifacts : <<"artifact", b>> # key /\ <<"artifact", b>> \in StoreKeys
      <4>1. \A b \in artifacts : blobs[<<"artifact", b>>] # 0
        BY DEF Whole, RowsAreWhole, HeldBy
      <4>. QED
        BY <3>1, <4>1, KeysOfBlobs DEF ArchivesTyped
    <3>. HIDE DEF key
    <3>6. \A k \in StoreKeys : blobs[k] # 0 => blobs'[k] # 0
      BY <3>2, <3>3
    <3>7. RowsAreWhole'
      BY <3>1, <3>3, <3>4, <3>5 DEF Whole, RowsAreWhole, HeldBy, AgreesWith, ArchivesTyped,
        ReportRows
    <3>8. GenerationIsWhole'
      <4>1. generating # Idle => generating.doing \in ReportIds
        BY DEF ArchivesTyped
      <4>2. generating # Idle => reports[generating.doing].formats \subseteq Formats
        BY <4>1 DEF ArchivesTyped, ReportRows
      <4>. QED
        BY <3>1, <3>3, <3>4, <4>1, <4>2 DEF Whole, GenerationIsWhole
    <3>9. BackupIsWhole'
      <4> SUFFICES ASSUME archiving # Idle,
                           NEW k \in BlobKeys(archiving.snapshot) \ archiving.left
                   PROVE  blobs'[k] = blobs[k]
        BY <3>1 DEF Whole, BackupIsWhole, StillThere
      <4>1. archiving.snapshot \in Snapshots
        BY DEF ArchivesTyped
      <4>2. \A r \in ReportIds : archiving.snapshot.reports[r].formats \subseteq Formats
        BY <4>1 DEF Snapshots, ReportRows
      <4>3. k # key /\ k \in StoreKeys
        BY <3>4, <3>5, <4>1, <4>2, NamedKeys, KeysOfBlobs DEF Whole, BackupIsWhole, StillThere
      <4>. QED
        BY <4>3, <3>3
    <3>10. ArchivesAreWhole'
      <4>1. ASSUME NEW x \in archives
            PROVE  /\ HeldBy(x.snapshot.reports, x.snapshot.artifacts, blobs')
                   /\ restores = 0 => StillThere(x.snapshot.reports, x.snapshot.artifacts)'
        <5>1. x.snapshot.reports \in ReportRows /\ x.snapshot.artifacts \in SUBSET ArtifactIds
          BY DEF ArchivesTyped, Snapshots
        <5>. QED
          BY <3>1, <3>6, <5>1, StoreGrows DEF Whole, ArchivesAreWhole, StillThere
      <4>. QED
        BY <3>1, <4>1 DEF Whole, ArchivesAreWhole
    <3>. QED
      BY <3>7, <3>8, <3>9, <3>10 DEF Whole
  <2>12. ASSUME NEW a \in ArtifactIds, RecordArtifact(a) PROVE Whole'
    <3>1. RowsAreWhole'
      BY <2>12 DEF RecordArtifact, Whole, RowsAreWhole, DatedIfCompleted, HeldBy, AgreesWith,
        records, jobs, kept, Generates, ArchivesWith, ArchiveFault
    <3>2. GenerationIsWhole'
      BY <2>12 DEF RecordArtifact, Whole, GenerationIsWhole, records, jobs, kept, Generates,
        ArchivesWith, ArchiveFault
    <3>3. BackupIsWhole'
      BY <2>12 DEF RecordArtifact, Whole, BackupIsWhole, DatedIfCompleted, StillThere, records,
        jobs, kept, Generates, ArchivesWith, ArchiveFault
    <3>4. ArchivesAreWhole'
      BY <2>12 DEF RecordArtifact, Whole, ArchivesAreWhole, DatedIfCompleted, HeldBy, AgreesWith,
        StillThere, records, jobs, kept, Generates, ArchivesWith, ArchiveFault
    <3>. QED
      BY <3>1, <3>2, <3>3, <3>4 DEF Whole
  <2>13. ASSUME NEW b \in BackupIds, AskForBackup(b) PROVE Whole'
    <3>1. RowsAreWhole'
      BY <2>13 DEF AskForBackup, Whole, RowsAreWhole, DatedIfCompleted, HeldBy, AgreesWith, records,
        jobs, kept, Generates, ArchivesWith, ArchiveFault
    <3>2. GenerationIsWhole'
      BY <2>13 DEF AskForBackup, Whole, GenerationIsWhole, records, jobs, kept, Generates,
        ArchivesWith, ArchiveFault
    <3>3. BackupIsWhole'
      BY <2>13 DEF AskForBackup, Whole, BackupIsWhole, DatedIfCompleted, StillThere, records, jobs,
        kept, Generates, ArchivesWith, ArchiveFault
    <3>4. ArchivesAreWhole'
      BY <2>13 DEF AskForBackup, Whole, ArchivesAreWhole, DatedIfCompleted, HeldBy, AgreesWith,
        StillThere, records, jobs, kept, Generates, ArchivesWith, ArchiveFault
    <3>. QED
      BY <3>1, <3>2, <3>3, <3>4 DEF Whole
  <2>14. ASSUME NEW b \in BackupIds, StartBackup(b) PROVE Whole'
    <3>. DEFINE s == [reports |-> reports, artifacts |-> artifacts, backups |-> backups]
    <3>1. /\ archiving' = [doing |-> b, snapshot |-> s, left |-> BlobKeys(s),
                           copied |-> [k \in StoreKeys |-> 0], written |-> FALSE]
          /\ UNCHANGED <<reports, artifacts, blobs, generating, archives, restores>>
      BY <2>14 DEF StartBackup, ArchivesWith
    <3>2. s.reports = reports /\ s.artifacts = artifacts
      OBVIOUS
    <3>. HIDE DEF s
    <3>3. RowsAreWhole'
      BY <3>1 DEF Whole, RowsAreWhole
    <3>4. GenerationIsWhole'
      BY <3>1 DEF Whole, GenerationIsWhole
    <3>5. BackupIsWhole'
      BY <3>1, <3>2 DEF Whole, RowsAreWhole, BackupIsWhole, StillThere
    <3>6. ArchivesAreWhole'
      BY <3>1 DEF Whole, ArchivesAreWhole, StillThere
    <3>. QED
      BY <3>3, <3>4, <3>5, <3>6 DEF Whole
  <2>15. ASSUME NEW archive \in archives, Restore(archive) PROVE Whole'
    <3>1. /\ reports' = archive.snapshot.reports /\ artifacts' = archive.snapshot.artifacts
          /\ generating' = Idle /\ archiving' = Idle /\ restores' = restores + 1
          /\ UNCHANGED <<blobs, archives>> /\ restores \in Nat
      BY <2>15, AtMostFaults DEF Restore, ArchivesTyped
    <3>2. /\ DatedIfCompleted(archive.snapshot.reports)
          /\ HeldBy(archive.snapshot.reports, archive.snapshot.artifacts, blobs)
          /\ restores = 0 => StillThere(archive.snapshot.reports, archive.snapshot.artifacts)
      BY DEF Whole, ArchivesAreWhole
    <3>3. restores = 0 => AgreesWith(archive.snapshot.reports, blobs)
      BY <3>2 DEF Whole, RowsAreWhole, AgreesWith, StillThere
    <3>4. RowsAreWhole'
      BY <3>1, <3>2, <3>3 DEF RowsAreWhole
    <3>5. GenerationIsWhole'
      BY <3>1 DEF GenerationIsWhole
    <3>6. BackupIsWhole'
      BY <3>1 DEF BackupIsWhole
    <3>7. ArchivesAreWhole'
      BY <3>1 DEF Whole, ArchivesAreWhole
    <3>. QED
      BY <3>4, <3>5, <3>6, <3>7 DEF Whole
  <2>16. ASSUME NEW k \in StoreKeys, CopyBlob(k) PROVE Whole'
    <3>1. archiving \in [doing : BackupIds, snapshot : Snapshots, left : SUBSET StoreKeys,
                         copied : [StoreKeys -> Versions], written : BOOLEAN]
      BY <2>16 DEF CopyBlob, ArchivesTyped, Stores
    <3>2. /\ archiving' = [archiving EXCEPT !.left = @ \ {k}, !.copied[k] = blobs[k]]
          /\ UNCHANGED <<reports, artifacts, blobs, generating, archives, restores>>
      BY <2>16 DEF CopyBlob, ArchivesWith
    <3>3. blobs[k] \in Versions
      BY DEF ArchivesTyped, Stores
    <3>4. /\ archiving'.snapshot = archiving.snapshot /\ archiving'.left = archiving.left \ {k}
          /\ archiving'.copied[k] = blobs[k]
          /\ \A q \in StoreKeys \ {k} : archiving'.copied[q] = archiving.copied[q]
      BY <3>1, <3>2, <3>3, CopiesOne
    <3>5. BlobKeys(archiving.snapshot) \subseteq StoreKeys
      BY <3>1, KeysOfBlobs
    <3>6. RowsAreWhole'
      BY <3>2 DEF Whole, RowsAreWhole
    <3>7. GenerationIsWhole'
      BY <3>2 DEF Whole, GenerationIsWhole
    <3>8. BackupIsWhole'
      <4>1. archiving # Idle
        BY <2>16 DEF CopyBlob
      <4>. QED
        BY <3>2, <3>4, <3>5, <4>1 DEF Whole, BackupIsWhole, StillThere
    <3>9. ArchivesAreWhole'
      BY <3>2 DEF Whole, ArchivesAreWhole, StillThere
    <3>. QED
      BY <3>6, <3>7, <3>8, <3>9 DEF Whole
  <2>17. CASE UNCHANGED archiveVars
    BY <2>17 DEF archiveVars, Whole, RowsAreWhole, GenerationIsWhole, BackupIsWhole,
      ArchivesAreWhole, StillThere
  <2>. QED
    BY <2>1, <2>2, <2>3, <2>4, <2>5, <2>6, <2>7, <2>8, <2>9, <2>10, <2>11, <2>12, <2>13,
       <2>14, <2>15, <2>16, <2>17 DEF ArchiveNext
<1>3. ArchivesTyped /\ Whole => EvidenceIsWhole
  <2> SUFFICES ASSUME ArchivesTyped, Whole PROVE EvidenceIsWhole
    OBVIOUS
  <2>. DEFINE now == [reports |-> reports, artifacts |-> artifacts]
  <2>1. now.reports = reports /\ now.artifacts = artifacts /\ reports \in ReportRows
    BY DEF ArchivesTyped
  <2>. HIDE DEF now
  <2>2. Holds(now, blobs) /\ (restores < 2 => Agrees(now, blobs))
    BY <2>1, DownloadsHeld DEF Whole, RowsAreWhole
  <2>3. ASSUME NEW x \in archives
        PROVE  /\ Holds(x.snapshot, x.copied)
               /\ restores < 2 => Agrees(x.snapshot, x.copied)
    <3>1. x.snapshot.reports \in ReportRows
      BY DEF ArchivesTyped, Snapshots
    <3>. QED
      BY <3>1, DownloadsHeld DEF Whole, ArchivesAreWhole
  <2>. QED
    BY <2>2, <2>3 DEF EvidenceIsWhole, now
<1>. QED
  BY <1>1, <1>2, <1>3, ArchivesTypedInvariant, PTL DEF ArchiveSpec

-----------------------------------------------------------------------------
(* Database *)

\* Every command is a list of so many statements.
LEMMA ListsOfStatements ==
  /\ Len(Statements["nothing"]) = 0
  /\ Len(Statements["restore"]) = 95
  /\ \A scope \in ResetScope : Len(Statements[scope]) \in Nat
<1>1. Len(BackupTableOrder) = 47
  BY DEF BackupTableOrder
<1>2. Statements["nothing"] = << >> /\ Statements["restore"] = RestoreStatements
  BY DEF Statements, ResetScope
<1>3. Len(RestoreStatements) = 95
  BY <1>1 DEF RestoreStatements
<1>4. ASSUME NEW scope \in ResetScope PROVE Len(Statements[scope]) \in Nat
  <2>1. Statements[scope] = ResetStatements(scope)
    BY DEF Statements, ResetScope
  <2>2. Len(TablesForScope(scope)) \in Nat
    BY DEF TablesForScope, FindingsTables, ScanTables, ConfigurationTables, ResetScope
  <2>. DEFINE last == Len(TablesForScope(scope)) + (IF scope = "all" THEN 1 ELSE 0)
  <2>3. last \in Nat
    BY <2>2
  <2>4. Len(ResetStatements(scope)) = last
    BY <2>3 DEF ResetStatements
  <2>. QED
    BY <2>1, <2>3, <2>4
<1>. QED
  BY <1>2, <1>3, <1>4

Commands ==
    [runs : {"nothing", "restore"} \cup ResetScope, role : DatabaseRoles, loads : BOOLEAN,
     released : BOOLEAN, at : Nat, finds : BOOLEAN, disturbed : BOOLEAN]

\* Every variable of the database keeps its type.
THEOREM DatabaseTypeCorrect == DatabaseSpec => []DatabaseTypeOK
<1>. DEFINE Files == [released : BOOLEAN, inUse : BOOLEAN, key : {WorkerPassphrase}]
            Runs == [doing : {"nothing", "up", "down"}, left : SUBSET Migrations]
<1>0. NoCommand \in Commands
  BY DEF NoCommand, Commands, DatabaseRoles
<1>1. DatabaseInit => DatabaseTypeOK
  <2> SUFFICES ASSUME DatabaseInit PROVE DatabaseTypeOK
    OBVIOUS
  <2>1. ledger \subseteq Migrations /\ schema \subseteq Migrations
    BY DEF DatabaseInit
  <2>2. migrator \in [Migrators -> [doing : {"nothing", "up", "down"}, left : SUBSET Migrations]]
    BY DEF DatabaseInit
  <2>3. migratorRuns \in 0..MaxMigratorRuns
    <3>1. MaxMigratorRuns \in Nat
      BY MigrationsAssumption
    <3>. QED
      BY <3>1 DEF DatabaseInit
  <2>4. followed \in References /\ inUse \in BOOLEAN /\ saved = {} /\ command \in Commands
    BY <1>0 DEF DatabaseInit
  <2>. QED
    BY <2>1, <2>2, <2>3, <2>4 DEF DatabaseTypeOK, Commands
<1>2. DatabaseTypeOK /\ [DatabaseNext]_databaseVars => DatabaseTypeOK'
  <2> SUFFICES ASSUME DatabaseTypeOK, [DatabaseNext]_databaseVars PROVE DatabaseTypeOK'
    OBVIOUS
  <2>0. /\ ledger \subseteq Migrations /\ schema \subseteq Migrations
        /\ migrator \in [Migrators -> Runs]
        /\ migratorRuns \in 0..MaxMigratorRuns
        /\ followed \in References /\ inUse \in BOOLEAN
        /\ saved \subseteq Files
        /\ command \in Commands
    BY DEF DatabaseTypeOK, Commands
  <2>1. ASSUME NEW p \in Migrators, NEW doing \in {"nothing", "up", "down"},
               NEW left \in SUBSET Migrations, MigratorAs(p, doing, left)
        PROVE  migrator' \in [Migrators -> Runs]
    <3>1. [doing |-> doing, left |-> left] \in Runs
      OBVIOUS
    <3>. HIDE DEF Runs
    <3>. QED
      BY <2>0, <2>1, <3>1 DEF MigratorAs
  <2>2. ASSUME NEW p \in Migrators, NEW direction \in {"up", "down"},
               StartMigrating(p, direction), UNCHANGED command
        PROVE  DatabaseTypeOK'
    <3>. DEFINE left == IF direction = "up" THEN Migrations \ ledger
                        ELSE {m \in ledger : \A n \in ledger : n <= m}
    <3>1. left \in SUBSET Migrations
      BY <2>0
    <3>2. MigratorAs(p, direction, left) /\ UNCHANGED <<ledger, schema, followed, inUse, saved>>
      BY <2>2 DEF StartMigrating, rowVars
    <3>3. migratorRuns' \in 0..MaxMigratorRuns
      BY <2>0, <2>2, MigrationsAssumption DEF StartMigrating
    <3>. HIDE DEF left, Runs
    <3>4. migrator' \in [Migrators -> Runs]
      BY <2>1, <3>1, <3>2
    <3>. QED
      BY <2>0, <2>2, <3>2, <3>3, <3>4 DEF DatabaseTypeOK, Runs, Commands
  <2>3. ASSUME NEW p \in Migrators, NEW m \in Migrations, ApplyNext(p, m) \/ RevertLast(p, m),
               UNCHANGED command
        PROVE  DatabaseTypeOK'
    <3>1. migrator[p].left \ {m} \in SUBSET Migrations
      BY <2>0
    <3>2. /\ ledger' \subseteq Migrations /\ schema' \subseteq Migrations
          /\ UNCHANGED <<migratorRuns, followed, saved>>
          /\ StillInUse
          /\ MigratorAs(p, "up", migrator[p].left \ {m}) \/ MigratorAs(p, "down", {})
      BY <2>0, <2>3 DEF ApplyNext, RevertLast
    <3>3. inUse' \in BOOLEAN
      BY <3>2 DEF StillInUse
    <3>. HIDE DEF Runs
    <3>4. migrator' \in [Migrators -> Runs]
      BY <2>1, <3>1, <3>2
    <3>. QED
      BY <2>0, <2>3, <3>2, <3>3, <3>4 DEF DatabaseTypeOK, Runs, Commands
  <2>4. ASSUME NEW p \in Migrators, MigratorEnds(p), UNCHANGED command PROVE DatabaseTypeOK'
    <3>1. /\ MigratorAs(p, "nothing", {})
          /\ UNCHANGED <<ledger, schema, migratorRuns, followed, inUse, saved>>
      BY <2>4 DEF MigratorEnds, rowVars
    <3>. HIDE DEF Runs
    <3>2. migrator' \in [Migrators -> Runs]
      BY <2>1, <3>1
    <3>. QED
      BY <2>0, <2>4, <3>1, <3>2 DEF DatabaseTypeOK, Runs, Commands
  <2>5. CASE Refer
    <3>1. command' \in Commands
      BY <2>0, <2>5 DEF Refer, Commands
    <3>. QED
      BY <2>0, <2>5, <3>1 DEF Refer, schemaVars, DatabaseTypeOK, Commands
  <2>6. CASE SaveRows
    <3>. DEFINE file == [released |-> schema = Migrations, key |-> WorkerPassphrase,
                         inUse |-> inUse /\ followed.from \in Listed(BackupTableOrder)]
    <3>1. file \in Files
      BY <2>0
    <3>2. saved' = {file} /\ UNCHANGED <<schemaVars, followed, inUse, command>>
      BY <2>6 DEF SaveRows
    <3>. HIDE DEF file, Files
    <3>3. saved' \subseteq Files
      BY <3>1, <3>2
    <3>. QED
      BY <2>0, <3>2, <3>3 DEF schemaVars, DatabaseTypeOK, Files, Commands
  <2>7. ASSUME command' \in Commands, UNCHANGED <<schemaVars, followed, saved>>,
               inUse' \in BOOLEAN
        PROVE  DatabaseTypeOK'
    BY <2>0, <2>7 DEF schemaVars, DatabaseTypeOK, Commands
  <2>8. ASSUME NEW role \in DatabaseRoles, NEW given \in Passphrases, NEW archive \in saved,
               BeginRestore(role, given, archive)
        PROVE  DatabaseTypeOK'
    <3>1. archive.inUse \in BOOLEAN /\ archive.released \in BOOLEAN
      BY <2>0
    <3>2. command' \in Commands
      BY <2>0, <2>8, <3>1 DEF BeginRestore, Begin, Commands
    <3>. QED
      BY <2>0, <2>7, <2>8, <3>2 DEF BeginRestore, Begin, rowVars
  <2>9. ASSUME NEW role \in DatabaseRoles, NEW scope \in ResetScope, NEW typed \in ResetScope,
               BeginReset(role, scope, typed)
        PROVE  DatabaseTypeOK'
    <3>1. command' \in Commands
      BY <2>0, <2>9 DEF BeginReset, Begin, Commands
    <3>. QED
      BY <2>0, <2>7, <2>9, <3>1 DEF BeginReset, Begin, rowVars
  <2>10. CASE Execute
    <3>1. PICK n \in Upcoming : \E b : command' = [command EXCEPT !.at = n, !.finds = @ /\ b]
      <4>1. PICK n \in Upcoming : 
               command' = [command EXCEPT !.at = n, !.finds = @
                   /\ ~(Statements[command.runs][n].verb = "delete"
                        /\ Statements[command.runs][n].table = followed.from)
                   /\ (Statements[command.runs][n].verb = "delete"
                        /\ Statements[command.runs][n].table = followed.to => Waits)]
        BY <2>10 DEF Execute
      <4>. QED
        BY <4>1
    <3>2. n \in Nat
      <4>1. Len(Statements[command.runs]) \in Nat /\ command.at \in Nat
        BY <2>0, ListsOfStatements DEF Commands
      <4>. QED
        BY <4>1 DEF Upcoming, Ahead
    <3>3. command' \in Commands
      BY <2>0, <3>1, <3>2 DEF Commands
    <3>. QED
      BY <2>0, <2>7, <2>10, <3>3 DEF Execute, rowVars
  <2>11. CASE Commit \/ RollBack \/ Killed
    <3>1. command' \in Commands /\ inUse' \in BOOLEAN /\ UNCHANGED <<schemaVars, followed, saved>>
      BY <1>0, <2>0, <2>11 DEF Commit, RollBack, Killed, rowVars
    <3>. QED
      BY <2>7, <3>1
  <2>12. CASE UNCHANGED databaseVars
    BY <2>0, <2>12 DEF databaseVars, schemaVars, rowVars, DatabaseTypeOK, Commands
  <2>13. ASSUME NEW p \in Migrators, Migrate(p) PROVE DatabaseTypeOK'
    BY <2>2, <2>3, <2>4, <2>13 DEF Migrate
  <2>. QED
    BY <2>5, <2>6, <2>8, <2>9, <2>10, <2>11, <2>12, <2>13 DEF DatabaseNext
<1>. QED
  BY <1>1, <1>2, PTL DEF DatabaseSpec

\* BACKUP_TABLE_ORDER, name by name.
LEMMA BackupTables ==
  /\ Len(BackupTableOrder) = 47
  /\ BackupTableOrder[1] = "false_positive_reasons"
  /\ BackupTableOrder[2] = "users"
  /\ BackupTableOrder[3] = "organization_settings"
  /\ BackupTableOrder[4] = "feature_flags"
  /\ BackupTableOrder[5] = "intel_settings"
  /\ BackupTableOrder[6] = "identity_resolution_policies"
  /\ BackupTableOrder[7] = "risk_scoring_policies"
  /\ BackupTableOrder[8] = "sla_policies"
  /\ BackupTableOrder[9] = "authorized_scopes"
  /\ BackupTableOrder[10] = "exclusion_rules"
  /\ BackupTableOrder[11] = "scan_profiles"
  /\ BackupTableOrder[12] = "pacing_ceilings"
  /\ BackupTableOrder[13] = "fragile_device_rules"
  /\ BackupTableOrder[14] = "blackout_windows"
  /\ BackupTableOrder[15] = "scan_schedules"
  /\ BackupTableOrder[16] = "scanner_adapters"
  /\ BackupTableOrder[17] = "vulnerability_data_imports"
  /\ BackupTableOrder[18] = "vulnerabilities"
  /\ BackupTableOrder[19] = "vulnerability_cpes"
  /\ BackupTableOrder[20] = "remediation_guidance"
  /\ BackupTableOrder[21] = "assets"
  /\ BackupTableOrder[22] = "asset_identity_keys"
  /\ BackupTableOrder[23] = "asset_address_history"
  /\ BackupTableOrder[24] = "asset_hostname_history"
  /\ BackupTableOrder[25] = "asset_services"
  /\ BackupTableOrder[26] = "asset_groups"
  /\ BackupTableOrder[27] = "asset_group_members"
  /\ BackupTableOrder[28] = "asset_merge_events"
  /\ BackupTableOrder[29] = "scan_plan_previews"
  /\ BackupTableOrder[30] = "scan_runs"
  /\ BackupTableOrder[31] = "scan_run_targets"
  /\ BackupTableOrder[32] = "raw_artifacts"
  /\ BackupTableOrder[33] = "observations"
  /\ BackupTableOrder[34] = "issues"
  /\ BackupTableOrder[35] = "issue_observations"
  /\ BackupTableOrder[36] = "verification_scans"
  /\ BackupTableOrder[37] = "issue_state_history"
  /\ BackupTableOrder[38] = "exceptions"
  /\ BackupTableOrder[39] = "issue_risk_score_snapshots"
  /\ BackupTableOrder[40] = "reports"
  /\ BackupTableOrder[41] = "notification_channels"
  /\ BackupTableOrder[42] = "notification_events"
  /\ BackupTableOrder[43] = "retention_policies"
  /\ BackupTableOrder[44] = "backup_records"
  /\ BackupTableOrder[45] = "saved_views"
  /\ BackupTableOrder[46] = "global_stop_events"
  /\ BackupTableOrder[47] = "audit_entries"
BY DEF BackupTableOrder

\* Where each table is in BackupTableOrder.
Place ==
    [false_positive_reasons |-> 1, users |-> 2, organization_settings |-> 3,
     feature_flags |-> 4, intel_settings |-> 5, identity_resolution_policies |-> 6,
     risk_scoring_policies |-> 7, sla_policies |-> 8, authorized_scopes |-> 9,
     exclusion_rules |-> 10, scan_profiles |-> 11, pacing_ceilings |-> 12,
     fragile_device_rules |-> 13, blackout_windows |-> 14, scan_schedules |-> 15,
     scanner_adapters |-> 16, vulnerability_data_imports |-> 17, vulnerabilities |-> 18,
     vulnerability_cpes |-> 19, remediation_guidance |-> 20, assets |-> 21,
     asset_identity_keys |-> 22, asset_address_history |-> 23,
     asset_hostname_history |-> 24, asset_services |-> 25, asset_groups |-> 26,
     asset_group_members |-> 27, asset_merge_events |-> 28, scan_plan_previews |-> 29,
     scan_runs |-> 30, scan_run_targets |-> 31, raw_artifacts |-> 32, observations |-> 33,
     issues |-> 34, issue_observations |-> 35, verification_scans |-> 36,
     issue_state_history |-> 37, exceptions |-> 38, issue_risk_score_snapshots |-> 39,
     reports |-> 40, notification_channels |-> 41, notification_events |-> 42,
     retention_policies |-> 43, backup_records |-> 44, saved_views |-> 45,
     global_stop_events |-> 46, audit_entries |-> 47]

LEMMA BackupPlaces ==
  ASSUME NEW t \in DOMAIN Place
  PROVE  Place[t] \in 1..Len(BackupTableOrder) /\ BackupTableOrder[Place[t]] = t
BY BackupTables DEF Place

\* No table is twice in it.
LEMMA PlacesOfTables ==
  \A n \in 1..47 : BackupTableOrder[n] \in DOMAIN Place /\ Place[BackupTableOrder[n]] = n
BY BackupTables DEF Place

LEMMA InOrderByPlace ==
  ASSUME NEW a \in DOMAIN Place, NEW b \in DOMAIN Place, Place[a] < Place[b]
  PROVE  InOrder(BackupTableOrder, a, b)
BY BackupPlaces DEF InOrder

\* A sign-in does not outlive a restore.
LEMMA SessionsAreNotSaved ==
  Listed(BackupTableOrder) \cap {"sessions", "mfa_recovery_codes"} = {}
<1>1. ASSUME NEW n \in 1..47
      PROVE  BackupTableOrder[n] \notin {"sessions", "mfa_recovery_codes"}
  BY BackupTables
<1>. QED
  BY <1>1, BackupTables DEF Listed

\* The two references that no order of the tables can follow, each being part
\* of a cycle.
OutOfOrder ==
    RefersTo("exceptions", {"issues"}) \cup RefersTo("observations", {"asset_identity_keys"})

\* What a row refers to is inserted before it, but for those two.
LEMMA BackupFollowsReferences ==
  ASSUME NEW r \in References, r.from # r.to,
         r \notin AuditReferences \cup SessionsOf \cup OutOfOrder
  PROVE  r.to \in DOMAIN Place /\ r.from \in DOMAIN Place /\ Place[r.to] < Place[r.from]
<1>. DEFINE Follows(q) ==
              q.from # q.to /\ q \notin OutOfOrder =>
                q.to \in DOMAIN Place /\ q.from \in DOMAIN Place /\ Place[q.to] < Place[q.from]
<1>1. r \in ScopeReferences => Follows(r)
  BY DEF ScopeReferences, RefersTo, OutOfOrder, Place
<1>2. r \in ScanReferences => Follows(r)
  BY DEF ScanReferences, RefersTo, OutOfOrder, Place
<1>3. r \in EvidenceReferences => Follows(r)
  BY DEF EvidenceReferences, RefersTo, OutOfOrder, Place
<1>4. r \in AssetReferences => Follows(r)
  BY DEF AssetReferences, RefersTo, OutOfOrder, Place
<1>5. r \in PartsOfAssets => Follows(r)
  BY DEF PartsOfAssets, RefersTo, OutOfOrder, Place
<1>6. r \in IssueReferences => Follows(r)
  BY DEF IssueReferences, RefersTo, OutOfOrder, Place
<1>7. r \in PartsOfIssues => Follows(r)
  BY DEF PartsOfIssues, RefersTo, OutOfOrder, Place
<1>8. r \in RecordReferences => Follows(r)
  BY DEF RecordReferences, RefersTo, OutOfOrder, Place
<1>9. r \in ViewReferences => Follows(r)
  BY DEF ViewReferences, RefersTo, OutOfOrder, Place
<1>10. r \in IntelReferences => Follows(r)
  BY DEF IntelReferences, RefersTo, OutOfOrder, Place
<1>11. r \in CpeReferences => Follows(r)
  BY DEF CpeReferences, RefersTo, OutOfOrder, Place
<1>12. r \in RefersTo("scan_runs", {"scan_run_targets"}) => Follows(r)
  BY DEF RefersTo, OutOfOrder, Place
<1>. QED
  BY <1>1, <1>2, <1>3, <1>4, <1>5, <1>6, <1>7, <1>8, <1>9, <1>10, <1>11, <1>12
  DEF References, Cascading

\* Whatever refers to something is saved, but for what belongs to a sign-in.
LEMMA ReferringIsSaved ==
  ASSUME NEW r \in References
  PROVE  r.from \in DOMAIN Place \/ r \in SessionsOf
<1>1. r \in ScopeReferences => r.from \in DOMAIN Place
  BY DEF ScopeReferences, RefersTo, Place
<1>2. r \in ScanReferences => r.from \in DOMAIN Place
  BY DEF ScanReferences, RefersTo, Place
<1>3. r \in EvidenceReferences => r.from \in DOMAIN Place
  BY DEF EvidenceReferences, RefersTo, Place
<1>4. r \in AssetReferences => r.from \in DOMAIN Place
  BY DEF AssetReferences, RefersTo, Place
<1>5. r \in PartsOfAssets => r.from \in DOMAIN Place
  BY DEF PartsOfAssets, RefersTo, Place
<1>6. r \in IssueReferences => r.from \in DOMAIN Place
  BY DEF IssueReferences, RefersTo, Place
<1>7. r \in PartsOfIssues => r.from \in DOMAIN Place
  BY DEF PartsOfIssues, RefersTo, Place
<1>8. r \in RecordReferences => r.from \in DOMAIN Place
  BY DEF RecordReferences, RefersTo, Place
<1>9. r \in AuditReferences \cup ViewReferences \cup IntelReferences \cup CpeReferences =>
        r.from \in DOMAIN Place
  BY DEF AuditReferences, ViewReferences, IntelReferences, CpeReferences, RefersTo, Place
<1>10. r \in RefersTo("scan_runs", {"scan_run_targets"}) => r.from \in DOMAIN Place
  BY DEF RefersTo, Place
<1>. QED
  BY <1>1, <1>2, <1>3, <1>4, <1>5, <1>6, <1>7, <1>8, <1>9, <1>10 DEF References, Cascading

\* Where each table is in the order in which a reset of scans deletes.
DeletedAt ==
    [issue_risk_score_snapshots |-> 1, issue_state_history |-> 2, exceptions |-> 3,
     verification_scans |-> 4, issue_observations |-> 5, issues |-> 6, observations |-> 7,
     raw_artifacts |-> 8, reports |-> 9, notification_events |-> 10,
     scan_run_targets |-> 11, scan_runs |-> 12, scan_plan_previews |-> 13,
     scan_schedules |-> 14, asset_group_members |-> 15, asset_groups |-> 16,
     asset_services |-> 17, asset_hostname_history |-> 18, asset_address_history |-> 19,
     asset_identity_keys |-> 20, assets |-> 21]

FirstDeleted(n) == {t \in DOMAIN DeletedAt : DeletedAt[t] <= n}

LEMMA FindingsDeleted ==
  /\ Len(FindingsTables) = 10
  /\ \A t \in FirstDeleted(10) : FindingsTables[DeletedAt[t]] = t
  /\ Listed(FindingsTables) = FirstDeleted(10)
  /\ \A n \in 1..10 : DeletedAt[FindingsTables[n]] = n
<1>. DEFINE Order == FindingsTables
<1>1. /\ Len(Order) = 10
      /\ Order[1] = "issue_risk_score_snapshots"
      /\ Order[2] = "issue_state_history"
      /\ Order[3] = "exceptions"
      /\ Order[4] = "verification_scans"
      /\ Order[5] = "issue_observations"
      /\ Order[6] = "issues"
      /\ Order[7] = "observations"
      /\ Order[8] = "raw_artifacts"
      /\ Order[9] = "reports"
      /\ Order[10] = "notification_events"
  BY DEF FindingsTables
<1>. HIDE DEF Order
<1>2. \A t \in FirstDeleted(10) : DeletedAt[t] \in 1..10 /\ Order[DeletedAt[t]] = t
  BY <1>1 DEF FirstDeleted, DeletedAt
<1>3. \A n \in 1..10 : Order[n] \in FirstDeleted(10) /\ DeletedAt[Order[n]] = n
  BY <1>1 DEF FirstDeleted, DeletedAt
<1>4. Listed(Order) \subseteq FirstDeleted(10)
  BY <1>1, <1>3 DEF Listed
<1>5. FirstDeleted(10) \subseteq Listed(Order)
  BY <1>1, <1>2 DEF Listed
<1>. QED
  BY <1>1, <1>2, <1>3, <1>4, <1>5 DEF Order

LEMMA ScansDeleted ==
  /\ Len(FindingsTables \o ScanTables) = 21
  /\ \A t \in FirstDeleted(21) : (FindingsTables \o ScanTables)[DeletedAt[t]] = t
  /\ Listed(FindingsTables \o ScanTables) = FirstDeleted(21)
  /\ \A n \in 1..21 : DeletedAt[(FindingsTables \o ScanTables)[n]] = n
<1>. DEFINE Order == FindingsTables \o ScanTables
<1>1. /\ Len(Order) = 21
      /\ Order[1] = "issue_risk_score_snapshots"
      /\ Order[2] = "issue_state_history"
      /\ Order[3] = "exceptions"
      /\ Order[4] = "verification_scans"
      /\ Order[5] = "issue_observations"
      /\ Order[6] = "issues"
      /\ Order[7] = "observations"
      /\ Order[8] = "raw_artifacts"
      /\ Order[9] = "reports"
      /\ Order[10] = "notification_events"
      /\ Order[11] = "scan_run_targets"
      /\ Order[12] = "scan_runs"
      /\ Order[13] = "scan_plan_previews"
      /\ Order[14] = "scan_schedules"
      /\ Order[15] = "asset_group_members"
      /\ Order[16] = "asset_groups"
      /\ Order[17] = "asset_services"
      /\ Order[18] = "asset_hostname_history"
      /\ Order[19] = "asset_address_history"
      /\ Order[20] = "asset_identity_keys"
      /\ Order[21] = "assets"
  BY DEF FindingsTables, ScanTables
<1>. HIDE DEF Order
<1>2. \A t \in FirstDeleted(21) : DeletedAt[t] \in 1..21 /\ Order[DeletedAt[t]] = t
  BY <1>1 DEF FirstDeleted, DeletedAt
<1>3. \A n \in 1..21 : Order[n] \in FirstDeleted(21) /\ DeletedAt[Order[n]] = n
  BY <1>1 DEF FirstDeleted, DeletedAt
<1>4. Listed(Order) \subseteq FirstDeleted(21)
  BY <1>1, <1>3 DEF Listed
<1>5. FirstDeleted(21) \subseteq Listed(Order)
  BY <1>1, <1>2 DEF Listed
<1>. QED
  BY <1>1, <1>2, <1>3, <1>4, <1>5 DEF Order

\* A reset deletes a row before what it refers to, where TripsOver does not say
\* otherwise.
LEMMA DeletionsFollowReferences ==
  ASSUME NEW r \in References, r \notin Cascading, r.from # r.to, r \notin TripsOver("scans"),
         r.to \in DOMAIN DeletedAt
  PROVE  r.from \in DOMAIN DeletedAt /\ DeletedAt[r.from] < DeletedAt[r.to]
<1>. DEFINE Precedes(q) ==
              q.from # q.to /\ q \notin TripsOver("scans") /\ q.to \in DOMAIN DeletedAt =>
                q.from \in DOMAIN DeletedAt /\ DeletedAt[q.from] < DeletedAt[q.to]
<1>1. r \in ScopeReferences => Precedes(r)
  BY DEF ScopeReferences, RefersTo, TripsOver, DeletedAt
<1>2. r \in ScanReferences => Precedes(r)
  BY DEF ScanReferences, RefersTo, TripsOver, DeletedAt
<1>3. r \in EvidenceReferences => Precedes(r)
  BY DEF EvidenceReferences, RefersTo, TripsOver, DeletedAt
<1>4. r \in AssetReferences => Precedes(r)
  BY DEF AssetReferences, RefersTo, TripsOver, DeletedAt
<1>5. r \in IssueReferences => Precedes(r)
  BY DEF IssueReferences, RefersTo, TripsOver, DeletedAt
<1>6. r \in RecordReferences => Precedes(r)
  BY DEF RecordReferences, RefersTo, TripsOver, DeletedAt
<1>7. r \in AuditReferences => Precedes(r)
  BY DEF AuditReferences, RefersTo, TripsOver, DeletedAt
<1>8. r \in ViewReferences => Precedes(r)
  BY DEF ViewReferences, RefersTo, TripsOver, DeletedAt
<1>9. r \in IntelReferences => Precedes(r)
  BY DEF IntelReferences, RefersTo, TripsOver, DeletedAt
<1>. QED
  BY <1>1, <1>2, <1>3, <1>4, <1>5, <1>6, <1>7, <1>8, <1>9 DEF References

LEMMA ScanReferencesAreLater ==
  ASSUME NEW r \in TripsOver("scans"), r \notin OutOfOrder
  PROVE  DeletedAt[r.to] > 10
BY DEF TripsOver, OutOfOrder, RefersTo, DeletedAt

\* The statements of a restore, and of a reset.
LEMMA StatementsOfRestore ==
  /\ \A n \in 1..47 :
       Statements["restore"][n] = Statement("delete", BackupTableOrder[48 - n])
  /\ \A n \in 48..94 :
       Statements["restore"][n] = Statement("insert", BackupTableOrder[n - 47])
  /\ Statements["restore"][95] = Statement("delete", "sessions")
<1>1. Statements["restore"] = RestoreStatements
  BY DEF Statements, ResetScope
<1>. QED
  BY <1>1, BackupTables DEF RestoreStatements

LEMMA StatementsOfReset ==
  ASSUME NEW scope \in ResetScope
  PROVE  /\ Len(TablesForScope(scope)) \in Nat
         /\ Len(Statements[scope]) =
              Len(TablesForScope(scope)) + (IF scope = "all" THEN 1 ELSE 0)
         /\ \A n \in 1..Len(TablesForScope(scope)) :
              Statements[scope][n] = Statement("delete", TablesForScope(scope)[n])
<1>1. Statements[scope] = ResetStatements(scope)
  BY DEF Statements, ResetScope
<1>2. Len(TablesForScope(scope)) \in Nat
  BY DEF TablesForScope, FindingsTables, ScanTables, ConfigurationTables, ResetScope
<1>. DEFINE last == Len(TablesForScope(scope)) + (IF scope = "all" THEN 1 ELSE 0)
<1>3. last \in Nat /\ Len(TablesForScope(scope)) <= last
  BY <1>2
<1>4. Len(ResetStatements(scope)) = last
  BY <1>3 DEF ResetStatements
<1>5. \A n \in 1..Len(TablesForScope(scope)) :
        ResetStatements(scope)[n] = Statement("delete", TablesForScope(scope)[n])
  BY <1>2, <1>3 DEF ResetStatements
<1>. QED
  BY <1>1, <1>2, <1>4, <1>5

\* A statement after which nothing the command had found refers by the key
\* followed any more.
Clears(s) ==
    s.verb = "delete" /\ (s.table = followed.from \/ (s.table = followed.to /\ ~Waits))

\* What an archive says of the row followed, and when it was made.
ArchivesFit ==
    \A archive \in saved :
        /\ archive.inUse => followed.from \in Listed(BackupTableOrder)
        /\ archive.released =>
             \A t \in Listed(BackupTableOrder) \cap DOMAIN Added : Added[t] \in Migrations

\* The same of the archive a command restores; and while nobody else writes, what
\* a command has found and cleared stays away.
CommandGoesOn ==
    /\ command.loads =>
         command.runs = "restore" /\ followed.from \in Listed(BackupTableOrder)
    /\ command.released =>
         \A t \in Listed(BackupTableOrder) \cap DOMAIN Added : Added[t] \in Migrations
    /\ command.finds /\ ~command.disturbed =>
         \A n \in 1 .. command.at : ~Clears(Statements[command.runs][n])

DatabaseInv == DatabaseTypeOK /\ ArchivesFit /\ CommandGoesOn

\* What a command is and has done it keeps until it ends, at a schema that stays.
LEMMA CommandsStatements ==
  ASSUME DatabaseTypeOK
  PROVE  Len(Statements[command.runs]) \in Nat /\ command.at \in Nat
BY ListsOfStatements DEF DatabaseTypeOK

LEMMA DatabaseInvariant == DatabaseSpec => [](ArchivesFit /\ CommandGoesOn)
<1>1. DatabaseInit => ArchivesFit /\ CommandGoesOn
  BY DEF DatabaseInit, ArchivesFit, CommandGoesOn, NoCommand
<1>2. DatabaseTypeOK /\ ArchivesFit /\ CommandGoesOn /\ [DatabaseNext]_databaseVars =>
        ArchivesFit' /\ CommandGoesOn'
  <2> SUFFICES ASSUME DatabaseTypeOK, ArchivesFit, CommandGoesOn, [DatabaseNext]_databaseVars
               PROVE  ArchivesFit' /\ CommandGoesOn'
    OBVIOUS
  <2>1. followed' = followed
    BY DEF DatabaseNext, Migrate, StartMigrating, ApplyNext, RevertLast, MigratorEnds, Refer,
      SaveRows, BeginRestore, BeginReset, Begin, Execute, Commit, RollBack, Killed,
      databaseVars, rowVars
  <2>2. ArchivesFit'
    <3>1. CASE SaveRows
      <4>. DEFINE file == [released |-> schema = Migrations, key |-> WorkerPassphrase,
                           inUse |-> inUse /\ followed.from \in Listed(BackupTableOrder)]
      <4>1. /\ saved' = {file}
            /\ \A t \in Listed(BackupTableOrder) : ~Missing(t)
        BY <3>1 DEF SaveRows
      <4>2. file.inUse => followed.from \in Listed(BackupTableOrder)
        OBVIOUS
      <4>3. file.released => schema = Migrations
        OBVIOUS
      <4>. HIDE DEF file
      <4>. QED
        BY <2>1, <4>1, <4>2, <4>3 DEF ArchivesFit, Missing
    <3>2. ~SaveRows => saved' = saved
      BY DEF DatabaseNext, Migrate, StartMigrating, ApplyNext, RevertLast, MigratorEnds, Refer,
        BeginRestore, BeginReset, Begin, Execute, Commit, RollBack, Killed, databaseVars,
        rowVars
    <3>. QED
      BY <2>1, <3>1, <3>2 DEF ArchivesFit
  <2>3. CommandGoesOn'
    <3>1. ASSUME command' = NoCommand PROVE CommandGoesOn'
      BY <3>1 DEF CommandGoesOn, NoCommand
    <3>2. ASSUME command' = command, ~UnderWay \/ UNCHANGED schemaVars PROVE CommandGoesOn'
      <4>1. CASE UnderWay
        <5>1. Waits' = Waits
          BY <2>1, <3>2, <4>1 DEF Waits, Deferred, schemaVars
        <5>. QED
          BY <2>1, <3>2, <5>1 DEF CommandGoesOn, Clears
      <4>2. CASE ~UnderWay
        <5>1. Waits' = Waits
          BY <3>2, <4>2 DEF Waits, UnderWay
        <5>. QED
          BY <2>1, <3>2, <5>1 DEF CommandGoesOn, Clears
      <4>. QED
        BY <4>1, <4>2
    <3>3. CASE Refer
      <4>1. CASE UnderWay
        <5>1. /\ command'.loads = command.loads /\ command'.released = command.released
              /\ command'.runs = command.runs /\ command'.disturbed
          BY <3>3, <4>1 DEF Refer, DatabaseTypeOK
        <5>. QED
          BY <2>1, <5>1 DEF CommandGoesOn
      <4>2. CASE ~UnderWay
        BY <3>2, <3>3, <4>2 DEF Refer
      <4>. QED
        BY <4>1, <4>2
    <3>4. ASSUME NEW role \in DatabaseRoles, NEW given \in Passphrases, NEW archive \in saved,
                 BeginRestore(role, given, archive)
          PROVE  CommandGoesOn'
      <4>1. /\ command'.runs = "restore" /\ command'.at = 0
            /\ command'.loads = archive.inUse /\ command'.released = archive.released
        BY <3>4 DEF BeginRestore, Begin
      <4>2. 1 .. command'.at = {}
        BY <4>1
      <4>. QED
        BY <2>1, <4>1, <4>2 DEF CommandGoesOn, ArchivesFit
    <3>5. ASSUME NEW role \in DatabaseRoles, NEW scope \in ResetScope, NEW typed \in ResetScope,
                 BeginReset(role, scope, typed)
          PROVE  CommandGoesOn'
      <4>1. ~command'.loads /\ ~command'.released /\ command'.at = 0
        BY <3>5 DEF BeginReset, Begin
      <4>2. 1 .. command'.at = {}
        BY <4>1
      <4>. QED
        BY <4>1, <4>2 DEF CommandGoesOn
    <3>6. CASE Execute
      <4>1. PICK n \in Upcoming :
              command' = [command EXCEPT !.at = n, !.finds = @
                 /\ ~(Statements[command.runs][n].verb = "delete"
                      /\ Statements[command.runs][n].table = followed.from)
                 /\ (Statements[command.runs][n].verb = "delete"
                      /\ Statements[command.runs][n].table = followed.to => Waits)]
        BY <3>6 DEF Execute
      <4>2. /\ command'.loads = command.loads /\ command'.released = command.released
            /\ command'.runs = command.runs /\ command'.disturbed = command.disturbed
            /\ command'.at = n
            /\ command'.finds => command.finds /\ ~Clears(Statements[command.runs][n])
        BY <4>1 DEF DatabaseTypeOK, Clears
      <4>3. Waits' = Waits
        BY <2>1, <3>6, <4>2 DEF Waits, Deferred, Execute, schemaVars
      <4>4. /\ n \in command.at + 1 .. Len(Statements[command.runs])
            /\ \A m \in Ahead : n <= m
        BY DEF Upcoming, Ahead
      <4>5. ASSUME NEW m \in 1 .. n, command'.finds, ~command'.disturbed
            PROVE  ~Clears(Statements[command.runs][m])
        <5>1. CASE m = n
          BY <4>2, <4>5, <5>1
        <5>2. CASE m <= command.at
          BY <4>2, <4>5, <5>2, CommandsStatements DEF CommandGoesOn
        <5>3. CASE m > command.at /\ m < n
          <6>1. m \in command.at + 1 .. Len(Statements[command.runs])
            BY <4>4, <5>3, CommandsStatements
          <6>2. m \notin Ahead
            BY <4>4, <5>3, CommandsStatements
          <6>3. ~Concerns(Statements[command.runs][m])
            BY <6>1, <6>2 DEF Ahead
          <6>. QED
            BY <6>3 DEF Concerns, Clears
        <5>. QED
          BY <4>4, <5>1, <5>2, <5>3, CommandsStatements
      <4>. QED
        BY <2>1, <4>2, <4>3, <4>5 DEF CommandGoesOn, Clears
    <3>7. CASE Commit \/ RollBack \/ Killed
      BY <3>1, <3>7 DEF Commit, RollBack, Killed
    <3>8. ASSUME NEW p \in Migrators, Migrate(p) PROVE CommandGoesOn'
      BY <3>2, <3>8 DEF Migrate
    <3>9. CASE SaveRows
      BY <3>2, <3>9 DEF SaveRows
    <3>10. CASE UNCHANGED databaseVars
      BY <3>2, <3>10 DEF databaseVars
    <3>. QED
      BY <3>3, <3>4, <3>5, <3>6, <3>7, <3>8, <3>9, <3>10 DEF DatabaseNext
  <2>. QED
    BY <2>2, <2>3
<1>. QED
  BY <1>1, <1>2, DatabaseTypeCorrect, PTL DEF DatabaseSpec

\* In a command nobody has disturbed that still finds a row, what clears it is
\* ahead.
LEMMA ClearingIsAhead ==
  ASSUME DatabaseInv, command.finds, ~command.disturbed,
         NEW n \in 1 .. Len(Statements[command.runs]), Clears(Statements[command.runs][n])
  PROVE  n \in Ahead
<1>1. n > command.at
  BY CommandsStatements DEF DatabaseInv, CommandGoesOn
<1>2. n \in command.at + 1 .. Len(Statements[command.runs])
  BY <1>1, CommandsStatements DEF DatabaseInv
<1>. QED
  BY <1>2 DEF Ahead, Concerns, Clears

\* With every migration there, a restore of an archive of the release is stopped
\* by no statement.
LEMMA NothingStopsRestore ==
  ASSUME DatabaseInv, {16, 17} \subseteq Migrations, schema = Migrations,
         command.runs = "restore", command.role = "xenitex", command.released,
         ~command.disturbed, NEW n \in Upcoming
  PROVE  ~Stops(Statements[command.runs][n])
<1>. DEFINE s == Statements["restore"][n]
<1>1. n \in 1..95 /\ n \in Ahead /\ \A m \in Ahead : n <= m
  <2>1. n \in Ahead /\ \A m \in Ahead : n <= m
    BY DEF Upcoming
  <2>2. n \in command.at + 1 .. 95
    BY <2>1, ListsOfStatements DEF Ahead
  <2>3. command.at \in Nat
    BY CommandsStatements DEF DatabaseInv
  <2>. QED
    BY <2>1, <2>2, <2>3
<1>2. /\ n \in 1..47 => s = Statement("delete", BackupTableOrder[48 - n])
      /\ n \in 48..94 => s = Statement("insert", BackupTableOrder[n - 47])
      /\ n = 95 => s = Statement("delete", "sessions")
  BY StatementsOfRestore
<1>3. s.verb # "update" /\ ~Denied(command.role, s)
  BY <1>1, <1>2 DEF Statement, Denied
<1>4. ~Missing(s.table)
  <2>1. n \in 1..94 => s.table \in Listed(BackupTableOrder)
    BY <1>2, BackupTables DEF Listed, Statement
  <2>2. n = 95 => s.table \notin DOMAIN Added
    BY <1>2 DEF Statement, Added
  <2>3. 1 \in Migrations
    BY MigrationsAssumption
  <2>. QED
    BY <1>1, <2>1, <2>2, <2>3 DEF Missing, DatabaseInv, CommandGoesOn
<1>5. ASSUME InForce(followed), followed.from # followed.to, ~Waits, followed \notin SessionsOf
      PROVE  /\ followed.to \in DOMAIN Place /\ followed.from \in DOMAIN Place
             /\ Place[followed.to] < Place[followed.from]
  <2>1. followed \notin OutOfOrder
    BY <1>5 DEF Waits, Deferred, OutOfOrder
  <2>2. followed \notin AuditReferences
    BY <1>5 DEF InForce
  <2>. QED
    BY <1>5, <2>1, <2>2, BackupFollowsReferences DEF DatabaseInv, DatabaseTypeOK
<1>6. ASSUME InForce(followed), followed.from # followed.to, ~Waits,
             s.verb = "delete", s.table = followed.to, command.finds, followed \notin Cascading
      PROVE  FALSE
  <2>1. /\ followed.to \in DOMAIN Place /\ followed.from \in DOMAIN Place
        /\ Place[followed.to] < Place[followed.from]
    BY <1>5, <1>6 DEF Cascading
  <2>2. n \in 1..47 /\ BackupTableOrder[48 - n] = followed.to
    <3>1. n \notin 48..94
      BY <1>2, <1>6 DEF Statement
    <3>2. n # 95
      BY <1>2, <1>6, <2>1 DEF Statement, Place
    <3>3. n \in 1..47
      BY <1>1, <3>1, <3>2
    <3>. QED
      BY <1>2, <1>6, <3>3 DEF Statement
  <2>3. Place[followed.to] = 48 - n
    BY <2>2, PlacesOfTables
  <2>. DEFINE m == 48 - Place[followed.from]
  <2>4. Place[followed.from] \in 1..47 /\ BackupTableOrder[Place[followed.from]] = followed.from
    BY <2>1, BackupPlaces, BackupTables
  <2>5. m \in 1..47 /\ m < n
    BY <2>1, <2>2, <2>3, <2>4
  <2>6. BackupTableOrder[48 - m] = followed.from
    BY <2>4
  <2>. HIDE DEF m
  <2>7. Statements["restore"][m] = Statement("delete", followed.from)
    BY <2>5, <2>6, StatementsOfRestore
  <2>8. Clears(Statements["restore"][m])
    BY <2>7 DEF Clears, Statement
  <2>9. m \in Ahead
    <3>1. m \in 1 .. Len(Statements[command.runs]) /\ Clears(Statements[command.runs][m])
      BY <2>5, <2>8, ListsOfStatements
    <3>2. command.finds
      BY <1>6
    <3>. QED
      BY <3>1, <3>2, ClearingIsAhead
  <2>. QED
    BY <1>1, <2>2, <2>5, <2>9
<1>7. ASSUME InForce(followed), followed.from # followed.to, ~Waits,
             s.verb = "insert", s.table = followed.from, command.loads
      PROVE  InOrder(BackupTableOrder, followed.to, followed.from)
  <2>1. followed \notin SessionsOf
    BY <1>7, SessionsAreNotSaved DEF DatabaseInv, CommandGoesOn, SessionsOf, RefersTo
  <2>. QED
    BY <1>5, <1>7, <2>1, InOrderByPlace
<1>. QED
  BY <1>3, <1>4, <1>6, <1>7 DEF Stops

\* With every migration there, a reset of findings or scans is stopped by what
\* TripsOver names only.
LEMMA WhatStopsReset ==
  ASSUME DatabaseInv, schema = Migrations, command.runs \in {"findings", "scans"},
         command.role = "xenitex", ~command.disturbed,
         NEW n \in Upcoming, Stops(Statements[command.runs][n])
  PROVE  followed \in TripsOver(command.runs)
<1>. DEFINE order == TablesForScope(command.runs)
            last == IF command.runs = "findings" THEN 10 ELSE 21
            s == Statements[command.runs][n]
<1>1. /\ Len(order) = last /\ Listed(order) = FirstDeleted(last)
      /\ \A k \in 1..last : DeletedAt[order[k]] = k /\ order[k] \in FirstDeleted(last)
      /\ \A t \in FirstDeleted(last) : DeletedAt[t] \in 1..last /\ order[DeletedAt[t]] = t
  <2>1. /\ TablesForScope("findings") = FindingsTables
        /\ TablesForScope("scans") = FindingsTables \o ScanTables
    BY DEF TablesForScope
  <2>2. CASE command.runs = "findings"
    <3>1. order = FindingsTables /\ last = 10
      BY <2>1, <2>2
    <3>. HIDE DEF order, last
    <3>2. \A k \in 1..10 : order[k] \in Listed(order)
      BY <3>1, FindingsDeleted DEF Listed
    <3>3. \A t \in FirstDeleted(10) : DeletedAt[t] \in 1..10
      BY DEF FirstDeleted, DeletedAt
    <3>. QED
      BY <3>1, <3>2, <3>3, FindingsDeleted
  <2>3. CASE command.runs = "scans"
    <3>1. order = FindingsTables \o ScanTables /\ last = 21
      BY <2>1, <2>3
    <3>. HIDE DEF order, last
    <3>2. \A k \in 1..21 : order[k] \in Listed(order)
      BY <3>1, ScansDeleted DEF Listed
    <3>3. \A t \in FirstDeleted(21) : DeletedAt[t] \in 1..21
      BY DEF FirstDeleted, DeletedAt
    <3>. QED
      BY <3>1, <3>2, <3>3, ScansDeleted
  <2>. QED
    BY <2>2, <2>3
<1>2. /\ Len(Statements[command.runs]) = last
      /\ \A k \in 1..last : Statements[command.runs][k] = Statement("delete", order[k])
  BY <1>1, StatementsOfReset DEF ResetScope
<1>3. n \in 1..last /\ \A m \in Ahead : n <= m
  BY <1>2, CommandsStatements DEF Upcoming, Ahead, DatabaseInv
<1>4. s = Statement("delete", order[n])
  BY <1>2, <1>3
<1>5. ~Missing(s.table) /\ s.verb = "delete" /\ ~Denied(command.role, s)
  <2>. DEFINE t == s.table
  <2>1. t \in FirstDeleted(last)
    BY <1>1, <1>3, <1>4 DEF Statement
  <2>. HIDE DEF t
  <2>2. t \notin DOMAIN Added
    BY <2>1 DEF FirstDeleted, DeletedAt, Added
  <2>3. ~Missing(t)
    BY <2>2, MigrationsAssumption DEF Missing
  <2>4. s.verb = "delete" /\ ~Denied(command.role, s)
    BY <1>4 DEF Statement, Denied
  <2>. QED
    BY <2>3, <2>4 DEF t
<1>6. /\ followed.from # followed.to /\ followed \notin Cascading
      /\ s.table = followed.to /\ command.finds
  BY <1>5 DEF Stops
<1>7. SUFFICES ASSUME followed \notin TripsOver(command.runs) PROVE FALSE
  OBVIOUS
<1>8. DeletedAt[followed.to] = n /\ followed.to \in FirstDeleted(last)
  BY <1>1, <1>3, <1>4, <1>6 DEF Statement
<1>9. followed \notin TripsOver("scans")
  <2>1. followed \notin OutOfOrder
    BY <1>7 DEF TripsOver, OutOfOrder
  <2>2. CASE command.runs = "findings"
    <3>1. DeletedAt[followed.to] <= 10
      BY <1>3, <1>8, <2>2
    <3>. QED
      BY <2>1, <3>1, ScanReferencesAreLater, <1>8 DEF FirstDeleted, DeletedAt
  <2>3. CASE command.runs = "scans"
    BY <1>7, <2>3
  <2>. QED
    BY <2>2, <2>3
<1>10. followed.from \in DOMAIN DeletedAt /\ DeletedAt[followed.from] < DeletedAt[followed.to]
  BY <1>6, <1>8, <1>9, DeletionsFollowReferences
  DEF DatabaseInv, DatabaseTypeOK, FirstDeleted
<1>. DEFINE m == DeletedAt[followed.from]
<1>11. m \in Nat
  BY <1>10 DEF DeletedAt
<1>12. followed.from \in FirstDeleted(last) /\ m < n
  BY <1>3, <1>8, <1>10, <1>11 DEF FirstDeleted
<1>13. m \in 1..last /\ order[m] = followed.from
  BY <1>1, <1>12
<1>14. Clears(Statements[command.runs][m])
  <2>. HIDE DEF m, order, last
  <2>1. Statements[command.runs][m] = Statement("delete", followed.from)
    BY <1>2, <1>13
  <2>. QED
    BY <2>1 DEF Clears, Statement
<1>15. m \in Ahead
  BY <1>2, <1>6, <1>13, <1>14, ClearingIsAhead
<1>. QED
  BY <1>3, <1>12, <1>13, <1>15

\* A restore has cleared what it found by the time it is committed.
LEMMA RestoreClears ==
  ASSUME DatabaseInv, command.runs = "restore", ~command.disturbed, Ahead = {}
  PROVE  ~command.finds
<1>1. \E n \in 1..95 : Clears(Statements["restore"][n])
  <2>1. CASE followed.from \in DOMAIN Place
    <3>. DEFINE n == 48 - Place[followed.from]
    <3>1. Place[followed.from] \in 1..47 /\ BackupTableOrder[Place[followed.from]] = followed.from
      BY <2>1, BackupPlaces, BackupTables
    <3>2. n \in 1..47 /\ BackupTableOrder[48 - n] = followed.from
      BY <3>1
    <3>. HIDE DEF n
    <3>3. Statements["restore"][n] = Statement("delete", followed.from)
      BY <3>2, StatementsOfRestore
    <3>4. Clears(Statements["restore"][n])
      BY <3>3 DEF Clears, Statement
    <3>5. n \in 1..95
      BY <3>2
    <3>. QED
      BY <3>4, <3>5
  <2>2. CASE followed \in SessionsOf
    <3>1. followed.to = "users" /\ ~Waits
      BY <2>2 DEF SessionsOf, RefersTo, Waits, Deferred
    <3>2. Statements["restore"][46] = Statement("delete", "users")
      BY StatementsOfRestore, BackupTables
    <3>3. Clears(Statements["restore"][46])
      BY <3>1, <3>2 DEF Clears, Statement
    <3>. QED
      BY <3>3
  <2>. QED
    BY <2>1, <2>2, ReferringIsSaved DEF DatabaseInv, DatabaseTypeOK
<1>. QED
  BY <1>1, ClearingIsAhead, ListsOfStatements

\* So has a reset of what is in its tables.
LEMMA ResetClears ==
  ASSUME DatabaseInv, command.runs \in ResetScope, ~command.disturbed, Ahead = {},
         command.finds
  PROVE  {followed.from, followed.to} \cap Listed(TablesForScope(command.runs)) = {}
<1>. DEFINE order == TablesForScope(command.runs)
<1>1. ASSUME NEW t \in {followed.from, followed.to}, t \in Listed(order) PROVE FALSE
  <2>1. PICK n \in 1..Len(order) : order[n] = t
    BY <1>1 DEF Listed
  <2>2. /\ Statements[command.runs][n] = Statement("delete", t)
        /\ n \in 1 .. Len(Statements[command.runs])
    BY <2>1, StatementsOfReset
  <2>3. Clears(Statements[command.runs][n])
    BY <1>1, <2>2 DEF Clears, Statement, Waits, ResetScope
  <2>. QED
    BY <2>2, <2>3, ClearingIsAhead
<1>. QED
  BY <1>1

\* migrate.ts, cli/restore.ts, cli/reset.ts: with migrations 0016 and 0017 among
\* those there are, for every foreign key, any number of processes that migrate
\* up and down, and any passphrase, an archive of the release is restored and a
\* reset is stopped by what TripsOver names only, if their owner empties the
\* tables and nobody writes meanwhile; and they leave nothing behind.
THEOREM OperatorsCommandsFit ==
  ASSUME {16, 17} \subseteq Migrations
  PROVE  DatabaseSpec => CommandsFit
<1>. DEFINE Fits ==
       schema = Migrations /\ command.role = "xenitex" /\ ~command.disturbed =>
        /\ RollBack =>
             CASE command.runs = "restore" -> ~command.released
               [] command.runs = "all" -> TRUE
               [] OTHER -> followed \in TripsOver(command.runs)
        /\ Commit /\ command.runs = "restore" /\ inUse' => command.loads
        /\ Commit /\ command.runs # "restore" /\ inUse' =>
             {followed.from, followed.to} \cap Listed(TablesForScope(command.runs)) = {}
<1>1. ASSUME DatabaseInv PROVE Fits
  <2> SUFFICES ASSUME schema = Migrations, command.role = "xenitex", ~command.disturbed
               PROVE  /\ RollBack =>
                           CASE command.runs = "restore" -> ~command.released
                             [] command.runs = "all" -> TRUE
                             [] OTHER -> followed \in TripsOver(command.runs)
                      /\ Commit /\ command.runs = "restore" /\ inUse' => command.loads
                      /\ Commit /\ command.runs # "restore" /\ inUse' =>
                           {followed.from, followed.to}
                             \cap Listed(TablesForScope(command.runs)) = {}
    OBVIOUS
  <2>1. command.runs \in {"nothing", "restore"} \cup ResetScope
    BY <1>1 DEF DatabaseInv, DatabaseTypeOK
  <2>2. ASSUME RollBack
        PROVE  CASE command.runs = "restore" -> ~command.released
                 [] command.runs = "all" -> TRUE
                 [] OTHER -> followed \in TripsOver(command.runs)
    <3>1. PICK n \in Upcoming : Stops(Statements[command.runs][n])
      BY <2>2 DEF RollBack
    <3>2. command.runs = "restore" => ~command.released
      BY <1>1, <3>1, NothingStopsRestore
    <3>3. command.runs \in {"findings", "scans"} => followed \in TripsOver(command.runs)
      BY <1>1, <3>1, WhatStopsReset
    <3>4. command.runs \in {"restore", "findings", "scans", "all"}
      BY <2>1, <2>2 DEF RollBack, UnderWay, ResetScope
    <3>. QED
      BY <3>2, <3>3, <3>4
  <2>3. Commit /\ command.runs = "restore" /\ inUse' => command.loads
    BY <1>1, RestoreClears DEF Commit
  <2>4. ASSUME Commit, command.runs # "restore", inUse'
        PROVE  {followed.from, followed.to} \cap Listed(TablesForScope(command.runs)) = {}
    <3>1. command.runs \in ResetScope /\ ~command.loads
      BY <1>1, <2>1, <2>4 DEF Commit, UnderWay, DatabaseInv, CommandGoesOn
    <3>2. command.finds /\ Ahead = {}
      BY <2>4, <3>1 DEF Commit
    <3>. QED
      BY <1>1, <3>1, <3>2, ResetClears
  <2>. QED
    BY <2>2, <2>3, <2>4
<1>2. DatabaseSpec => []DatabaseInv
  BY DatabaseTypeCorrect, DatabaseInvariant, PTL DEF DatabaseInv
<1>3. DatabaseInv => [Fits]_databaseVars
  BY <1>1
<1>. QED
  BY <1>2, <1>3, PTL DEF CommandsFit

=============================================================================
