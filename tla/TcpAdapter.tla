----------------------------- MODULE TcpAdapter -----------------------------
(***************************************************************************)
(* How a scan run's hosts are probed: batches of hosts, lanes that take    *)
(* probes from one cursor, the token bucket that paces them, the timeout   *)
(* of a batch, and what becomes of the hosts it cut short.                 *)
(*                                                                         *)
(* Time is counted in ticks; a timer fires when it is due or later.        *)
(* Tokens are counted in 1/TicksPerSecond, so that a tick refills          *)
(* PacketsPerSecond of them.                                               *)
(***************************************************************************)
EXTENDS Naturals, FiniteSets, Sequences

CONSTANTS
    Hosts, Ports,      \* targets of the run, and the ports of its profile
    BatchSize,         \* pacing.concurrentHosts
    Lanes,             \* concurrentHosts * concurrentPortsPerHost, at most 200
    PacketsPerSecond,  \* of the profile, which may have 0
    TicksPerSecond,
    ConnectTicks,      \* a probe takes no longer
    JobTimeout,        \* jobTimeoutMs
    NoJob,
    Horizon            \* bound on the clock

ASSUME PaceAssumption ==
    /\ PacketsPerSecond \in Nat /\ TicksPerSecond \in Nat \ {0}
    /\ ConnectTicks \in Nat /\ JobTimeout \in Nat /\ Horizon \in Nat
    /\ BatchSize \in Nat \ {0}
ASSUME JobAssumption == NoJob \notin Hosts \X Ports

VARIABLES
    clock,
    waiting,     \* hosts whose target row is pending
    batch,       \* hosts in_progress
    untaken,     \* probes of the batch that no lane has taken
    deadline,
    bucketTokens, lastRefill,
    lane,        \* each lane: what it does, its probe, and since or until when
    result,      \* outcome of the probes answered
    targetStatus,      \* completed or failed target rows
    observed,    \* observations stored
    probes       \* history: when each probe of the batch was started, in order

adapterVars ==
    <<clock, waiting, batch, untaken, deadline, bucketTokens, lastRefill, lane, result,
      targetStatus, observed, probes>>

bucket == <<bucketTokens, lastRefill>>
table == <<waiting, targetStatus, observed>>

Outcomes == {"open", "closed", "unreachable"}

\* take returns at once.
Unpaced == PacketsPerSecond = 0

Burst == PacketsPerSecond * TicksPerSecond

Lower(a, b) == IF a < b THEN a ELSE b

\* Mutant: what has accrued is not capped.
Uncapped == bucketTokens + (clock - lastRefill) * PacketsPerSecond
Refilled == Lower(Burst, bucketTokens + (clock - lastRefill) * PacketsPerSecond)

\* Mutant: a part of a token will do.
HasSome == Refilled > 0
HasToken == Refilled >= TicksPerSecond

\* The ticks until one token is there, rounded up and never none.
WaitFor(t) == ((TicksPerSecond - t) + PacketsPerSecond - 1) \div PacketsPerSecond

Answered(h) == {p \in Ports : result[<<h, p>>] # "none"}

Swept(h) == Answered(h) = Ports

OpenPorts(h) == {p \in Ports : result[<<h, p>>] = "open"}

Up(h) == \E p \in Ports : result[<<h, p>>] \in {"open", "closed"}

\* parse: an observation per open port, or one of the host.
Parse(hosts) ==
    UNION {{[host |-> h, port |-> p] : p \in OpenPorts(h)} : h \in hosts}
    \cup {[host |-> h, up |-> Up(h)] : h \in {g \in hosts : OpenPorts(g) = {}}}

\* Mutant: the artifact of a batch is looked for in completed outcomes only.
ParsedIfCompleted(hosts) == IF \E h \in hosts : Swept(h) THEN Parse(hosts) ELSE {}
\* The one artifact of the batch comes with every outcome, partial ones too.
Parsed(hosts) == Parse(hosts)

LaneAs(w, doing, job, time) ==
    lane' = [lane EXCEPT ![w] = [doing |-> doing, job |-> job, time |-> time]]

-----------------------------------------------------------------------------
AdapterInit ==
    /\ clock = 0
    /\ waiting = Hosts
    /\ batch = {}
    /\ untaken = {}
    /\ deadline = 0
    /\ bucketTokens = 0
    /\ lastRefill = 0
    /\ lane = [w \in Lanes |-> [doing |-> "gone", job |-> NoJob, time |-> 0]]
    /\ result = [j \in Hosts \X Ports |-> "none"]
    /\ targetStatus = [h \in Hosts |-> "pending"]
    /\ observed = {}
    /\ probes = <<>>

\* processScanRun takes the next hosts; execute makes a limiter of its own.
Dispatch ==
    /\ batch = {}
    /\ \E hosts \in SUBSET waiting :
         /\ Cardinality(hosts) = Lower(BatchSize, Cardinality(waiting))
         /\ hosts # {}
         /\ batch' = hosts
         /\ waiting' = waiting \ hosts
         /\ untaken' = hosts \X Ports
    /\ deadline' = clock + JobTimeout
    /\ bucketTokens' = Burst
    /\ lastRefill' = clock
    /\ lane' = [w \in Lanes |-> [doing |-> "free", job |-> NoJob, time |-> clock]]
    /\ probes' = <<>>
    /\ UNCHANGED <<clock, result, targetStatus, observed>>

\* shouldStop and the cursor, looked at between two probes.
EndLane(w) ==
    /\ lane[w].doing = "free"
    /\ clock >= deadline \/ untaken = {}
    /\ LaneAs(w, "gone", NoJob, clock)
    /\ UNCHANGED <<clock, batch, untaken, deadline, bucket, table, result, probes>>

TakeJob(w) ==
    /\ lane[w].doing = "free"
    /\ clock < deadline
    /\ untaken # {}
    /\ LET j == CHOOSE j \in untaken : TRUE
       IN  untaken' = untaken \ {j} /\ LaneAs(w, "pacing", j, clock)
    /\ UNCHANGED <<clock, batch, deadline, bucket, table, result, probes>>

\* The loop of take, from one setTimeout to the next.
TakeToken(w) ==
    /\ lane[w].doing = "pacing"
    /\ clock >= lane[w].time
    /\ IF Unpaced THEN UNCHANGED bucket
       ELSE /\ HasToken
            /\ bucketTokens' = Refilled - TicksPerSecond
            /\ lastRefill' = clock
    /\ LaneAs(w, "probing", lane[w].job, clock)
    /\ probes' = Append(probes, clock)
    /\ UNCHANGED <<clock, batch, untaken, deadline, table, result>>

WaitForToken(w) ==
    /\ lane[w].doing = "pacing"
    /\ clock >= lane[w].time
    /\ ~Unpaced /\ ~HasToken
    /\ bucketTokens' = Refilled
    /\ lastRefill' = clock
    /\ LaneAs(w, "pacing", lane[w].job, clock + WaitFor(Refilled))
    /\ UNCHANGED <<clock, batch, untaken, deadline, table, result, probes>>

\* probePort settles once, whichever of its events comes first.
Settle(w) ==
    /\ lane[w].doing = "probing"
    /\ \E o \in Outcomes : result' = [result EXCEPT ![lane[w].job] = o]
    /\ LaneAs(w, "free", NoJob, clock)
    /\ UNCHANGED <<clock, batch, untaken, deadline, bucket, table, probes>>

\* Every lane has ended: the artifact, its observations and the target rows.
EndBatch ==
    /\ batch # {}
    /\ \A w \in Lanes : lane[w].doing = "gone"
    /\ targetStatus' = [h \in Hosts |-> IF h \notin batch THEN targetStatus[h]
                                  ELSE IF Swept(h) THEN "completed" ELSE "failed"]
    /\ observed' = observed \cup Parsed(batch)
    /\ batch' = {}
    /\ untaken' = {}
    /\ UNCHANGED <<clock, waiting, deadline, bucket, lane, result, probes>>

\* Lanes go from one probe to the next at once, and no probe outlasts its
\* timeout.
Tick ==
    /\ clock < Horizon
    /\ \A w \in Lanes :
         /\ lane[w].doing # "free"
         /\ lane[w].doing = "probing" => clock - lane[w].time < ConnectTicks
    /\ clock' = clock + 1
    /\ UNCHANGED <<waiting, batch, untaken, deadline, bucket, lane, result, targetStatus,
                   observed, probes>>

AdapterNext ==
    \/ Dispatch \/ EndBatch \/ Tick
    \/ \E w \in Lanes :
         EndLane(w) \/ TakeJob(w) \/ TakeToken(w) \/ WaitForToken(w) \/ Settle(w)

AdapterSpec == AdapterInit /\ [][AdapterNext]_adapterVars

-----------------------------------------------------------------------------
(* Properties *)

\* Every variable has its type.
AdapterTypeOK ==
    /\ clock \in 0..Horizon /\ deadline \in 0..(Horizon + JobTimeout)
    /\ waiting \subseteq Hosts /\ batch \subseteq Hosts
    /\ untaken \subseteq batch \X Ports
    /\ bucketTokens \in Nat /\ lastRefill \in 0..clock
    /\ lane \in [Lanes -> [doing : {"gone", "free", "pacing", "probing"},
                           job : (Hosts \X Ports) \cup {NoJob},
                           time : 0..(Horizon + TicksPerSecond)]]
    /\ result \in [Hosts \X Ports -> Outcomes \cup {"none"}]
    /\ targetStatus \in [Hosts -> {"pending", "completed", "failed"}]
    /\ probes \in Seq(0..clock)

\* SAFE-04: a burst of at most the per-second budget and then the pace: from
\* any probe of a batch to any later one there are no more than the budget, and
\* what the time between them adds, whichever lanes start them.  A profile whose
\* budget is none at all has no pace.
PaceHolds ==
    ~Unpaced => \A m, n \in 1..Len(probes) :
        m <= n => (n - m + 1) * TicksPerSecond
                  <= Burst + (probes[n] - probes[m]) * PacketsPerSecond

\* P2-02 and P2-03: a sweep the timeout cut short is not taken for a clean
\* one, and an open port that was seen is observed, whatever became of the
\* other ports and hosts of the batch.
PartialResultsAreKept ==
    \A h \in Hosts :
        targetStatus[h] # "pending" =>
            /\ targetStatus[h] = "completed" <=> Answered(h) = Ports
            /\ \A p \in OpenPorts(h) : [host |-> h, port |-> p] \in observed

=============================================================================
