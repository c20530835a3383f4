------------------------------- MODULE Stats -------------------------------
(***************************************************************************)
(* stats.Collector: the counters of the devices, which the handlers of the *)
(* relay change one atomic word at a time; Totals, which reads them shard  *)
(* by shard while they change; the sampler, which turns two Totals into a  *)
(* rate; and the two ring buffers the WebUI reads.  One of the two byte    *)
(* counters stands for both.                                               *)
(***************************************************************************)
EXTENDS Integers, Sequences, FiniteSets, FiniteSetsExt, SequencesExt

CONSTANTS
  Conns, Devices,
  DeviceOf,    \* the source address of a connection
  Bytes,       \* what a connection carries
  ShardOf,     \* shardFor: the shard of a device
  NumShards,
  RecentCap, SampleCap,  \* recentCap and sampleCap
  MaxSamples   \* bound: readings the sampler takes

ASSUME StatsAssumption ==
  /\ IsFiniteSet(Conns) /\ IsFiniteSet(Devices)
  /\ DeviceOf \in [Conns -> Devices] /\ Bytes \in [Conns -> Nat]
  /\ NumShards \in Nat \ {0} /\ ShardOf \in [Devices -> 1 .. NumShards]
  /\ RecentCap \in Nat \ {0} /\ SampleCap \in Nat \ {0} /\ MaxSamples \in Nat

Unset == -1  \* a sample whose Timestamp is zero

VARIABLES
  pc,          \* pc[c]: where the handler of c is in OpenConn or RecordConn
  known,       \* devices that have an entry in their shard
  total, active, tx,                \* deviceStat
  recent, recentIdx, recentLen,     \* the ring of recent connections
  reader,      \* Totals: "idle", "shards", "tx", "active", "total", "read"
  shard, left, at,                  \* its shard, the devices to read, the one it reads
  sum,         \* the Totals it builds
  samples, sampleIdx,               \* the ring of samples, here what rate * elapsed is
  started, lastTx,                  \* lastSample is not zero; lastTx
  \* History variables, read by properties only.
  log,         \* every record ever pushed
  sampled,     \* every sample ever taken
  firstTx,     \* lastTx of the first reading
  readings     \* readings taken

connVars   == <<pc, known, total, active, tx>>
recentVars == <<recent, recentIdx, recentLen, log>>
readerVars == <<reader, shard, left, at, sum>>
sampleVars == <<samples, sampleIdx, started, lastTx, sampled, firstTx, readings>>
vars == <<connVars, recentVars, readerVars, sampleVars>>

Words == {"tx", "active", "total"}  \* what is loaded of a device, one by one
ZeroTotals == [tx |-> 0, active |-> 0, total |-> 0, devices |-> 0]

TypeOK ==
  /\ pc \in [Conns -> {"none", "lookup", "create", "total", "active", "open",
                       "inactive", "bytes", "push", "done"}]
  /\ known \subseteq Devices
  /\ total \in [Devices -> Nat] /\ active \in [Devices -> Nat]
  /\ tx \in [Devices -> Nat]
  /\ recentIdx \in 0 .. RecentCap - 1 /\ recentLen \in 0 .. RecentCap
  /\ recent \in [0 .. RecentCap - 1 -> Conns \cup {"unset"}] /\ log \in Seq(Conns)
  /\ reader \in {"idle", "shards", "read"} \cup Words
  /\ shard \in 1 .. NumShards + 1 /\ left \subseteq Devices
  /\ reader \in Words => at \in Devices
  /\ sum \in [tx : Nat, active : Nat, total : Nat, devices : Nat]
  /\ samples \in [0 .. SampleCap - 1 -> Nat \cup {Unset}]
  /\ sampleIdx \in 0 .. SampleCap - 1
  /\ started \in BOOLEAN /\ lastTx \in Nat /\ readings \in Nat
  /\ sampled \in Seq(Nat) /\ firstTx \in Nat

Init ==
  /\ pc = [c \in Conns |-> "none"] /\ known = {}
  /\ total = [d \in Devices |-> 0]
  /\ active = [d \in Devices |-> 0]
  /\ tx = [d \in Devices |-> 0]
  /\ recent = [i \in 0 .. RecentCap - 1 |-> "unset"]
  /\ recentIdx = 0 /\ recentLen = 0 /\ log = <<>>
  /\ reader = "idle" /\ shard = 1 /\ left = {} /\ at = CHOOSE d \in Devices : TRUE
  /\ sum = ZeroTotals
  /\ samples = [i \in 0 .. SampleCap - 1 |-> Unset]
  /\ sampleIdx = 0 /\ started = FALSE /\ lastTx = 0
  /\ sampled = <<>> /\ firstTx = 0 /\ readings = 0

Goto(c, p) == pc' = [pc EXCEPT ![c] = p]
Bump(counter, d, n) == counter' = [counter EXCEPT ![d] = @ + n]

\* The reader holds the lock of this device's shard.
ReadLocked(d) == reader \in Words /\ ShardOf[at] = ShardOf[d]

-----------------------------------------------------------------------------
(***************************************************************************)
(* OpenConn and RecordConn, as handleConn calls them for c.                *)
(***************************************************************************)
Handle(c) ==
  /\ pc[c] = "none" /\ Goto(c, "lookup")
  /\ UNCHANGED <<known, total, active, tx, recentVars, readerVars, sampleVars>>

\* device(): look under the read lock.
Lookup(c) ==
  /\ pc[c] = "lookup"
  /\ Goto(c, IF DeviceOf[c] \in known THEN "total" ELSE "create")
  /\ UNCHANGED <<known, total, active, tx, recentVars, readerVars, sampleVars>>

\* (slip: the entry is made without looking again)
Missing(d) == TRUE

\* The second look, under the write lock.
Absent(d) == d \notin known

\* An entry with zero counters, unless another handler has made one.
CreateDevice(c) ==
  /\ pc[c] = "create" /\ ~ReadLocked(DeviceOf[c])
  /\ LET d == DeviceOf[c]
         new(counter) == IF Absent(d) THEN [counter EXCEPT ![d] = 0] ELSE counter
     IN /\ known' = known \cup {d}
        /\ total' = new(total) /\ active' = new(active) /\ tx' = new(tx)
  /\ Goto(c, "total")
  /\ UNCHANGED <<recentVars, readerVars, sampleVars>>

AddTotal(c) ==
  /\ pc[c] = "total" /\ Bump(total, DeviceOf[c], 1) /\ Goto(c, "active")
  /\ UNCHANGED <<known, active, tx, recentVars, readerVars, sampleVars>>

AddActive(c) ==
  /\ pc[c] = "active" /\ Bump(active, DeviceOf[c], 1) /\ Goto(c, "open")
  /\ UNCHANGED <<known, total, tx, recentVars, readerVars, sampleVars>>

\* The connection is over: RecordConn finds its device.
EndConn(c) ==
  /\ pc[c] = "open" /\ Goto(c, "inactive")
  /\ UNCHANGED <<known, total, active, tx, recentVars, readerVars, sampleVars>>

SubActive(c) ==
  /\ pc[c] = "inactive" /\ Bump(active, DeviceOf[c], -1) /\ Goto(c, "bytes")
  /\ UNCHANGED <<known, total, tx, recentVars, readerVars, sampleVars>>

AddBytes(c) ==
  /\ pc[c] = "bytes" /\ Bump(tx, DeviceOf[c], Bytes[c]) /\ Goto(c, "push")
  /\ UNCHANGED <<known, total, active, recentVars, readerVars, sampleVars>>

\* (slip: the index sticks at the end)
NextIdxSticks(idx, cap) == IF idx + 1 < cap THEN idx + 1 ELSE idx

NextIdx(idx, cap) == (idx + 1) % cap

Push(c) ==
  /\ pc[c] = "push"
  /\ recent' = [recent EXCEPT ![recentIdx] = c]
  /\ recentIdx' = NextIdx(recentIdx, RecentCap)
  /\ recentLen' = IF recentLen < RecentCap THEN recentLen + 1 ELSE recentLen
  /\ log' = Append(log, c)
  /\ Goto(c, "done")
  /\ UNCHANGED <<known, total, active, tx, readerVars, sampleVars>>

ConnStep(c) ==
  \/ Handle(c) \/ Lookup(c) \/ CreateDevice(c) \/ AddTotal(c) \/ AddActive(c)
  \/ EndConn(c) \/ SubActive(c) \/ AddBytes(c) \/ Push(c)

\* What Recent returns: from the newest backwards.
Recent(limit) ==
  LET n == IF limit > recentLen THEN recentLen ELSE limit
  IN [i \in 1 .. n |-> recent[(recentIdx - i + RecentCap) % RecentCap]]

-----------------------------------------------------------------------------
(***************************************************************************)
(* Totals, called by the sampler and by /api/status.                       *)
(***************************************************************************)
StartTotals ==
  /\ reader = "idle"
  /\ reader' = "shards" /\ shard' = 1 /\ left' = {} /\ sum' = ZeroTotals
  /\ UNCHANGED <<at, connVars, recentVars, sampleVars>>

\* The next device of this shard, in the order of the map: none in particular.
ReadNext(devices) ==
  IF devices = {}
  THEN reader' = "shards" /\ shard' = shard + 1 /\ UNCHANGED <<left, at>>
  ELSE /\ \E d \in devices : at' = d /\ left' = devices \ {d}
       /\ reader' = "tx" /\ UNCHANGED shard

OpenShard ==
  /\ reader = "shards" /\ shard <= NumShards
  /\ LET here == {d \in known : ShardOf[d] = shard} IN
     /\ ReadNext(here)
     /\ sum' = [sum EXCEPT !.devices = @ + Cardinality(here)]
  /\ UNCHANGED <<connVars, recentVars, sampleVars>>

\* (slip: the connections ever opened are read before the active ones)
AfterLoadTotalFirst(word) ==
  CASE word = "tx" -> "total" [] word = "total" -> "active" [] OTHER -> "next"

AfterLoad(word) ==
  CASE word = "tx" -> "active" [] word = "active" -> "total" [] OTHER -> "next"

Word(word) ==
  CASE word = "tx" -> tx [] word = "active" -> active [] OTHER -> total

\* One atomic Load, added to the sum.
Load ==
  /\ reader \in Words
  /\ sum' = [sum EXCEPT ![reader] = @ + Word(reader)[at]]
  /\ IF AfterLoad(reader) = "next"
     THEN ReadNext(left)
     ELSE reader' = AfterLoad(reader) /\ UNCHANGED <<shard, left, at>>
  /\ UNCHANGED <<connVars, recentVars, sampleVars>>

EndTotals ==
  /\ reader = "shards" /\ shard > NumShards
  /\ reader' = "read"
  /\ UNCHANGED <<shard, left, at, sum, connVars, recentVars, sampleVars>>

\* /api/status answers with the sum.
Status ==
  /\ reader = "read" /\ reader' = "idle"
  /\ UNCHANGED <<shard, left, at, sum, connVars, recentVars, sampleVars>>

(***************************************************************************)
(* sample: the first reading is the base, one too soon is dropped.         *)
(***************************************************************************)
\* (slip: a dropped reading moves the base)
BaseMoved == sum.tx

\* The base for the next rate when a reading is dropped.
BaseKept == lastTx

Sample(tooSoon) ==
  /\ reader = "read" /\ readings < MaxSamples
  /\ reader' = "idle" /\ readings' = readings + 1
  /\ IF ~started
     THEN /\ started' = TRUE /\ lastTx' = sum.tx /\ firstTx' = sum.tx
          /\ UNCHANGED <<samples, sampleIdx, sampled>>
     ELSE IF tooSoon
     THEN /\ lastTx' = BaseKept
          /\ UNCHANGED <<samples, sampleIdx, started, sampled, firstTx>>
     ELSE /\ samples' = [samples EXCEPT ![sampleIdx] = sum.tx - lastTx]
          /\ sampleIdx' = NextIdx(sampleIdx, SampleCap)
          /\ lastTx' = sum.tx
          /\ sampled' = Append(sampled, sum.tx - lastTx)
          /\ UNCHANGED <<started, firstTx>>
  /\ UNCHANGED <<shard, left, at, sum, connVars, recentVars>>

\* The loop of TrafficSamples: from the oldest, leaving out what is not set.
Collected(ring, first) ==
  LET out[n \in 0 .. SampleCap] ==
        IF n = 0 THEN <<>>
        ELSE LET v == ring[(first + n - 1) % SampleCap]
             IN IF v = Unset THEN out[n - 1] ELSE Append(out[n - 1], v)
  IN out[SampleCap]

TrafficSamples ==
  IF sampleIdx = 0 /\ samples[0] = Unset
  THEN <<>>
  ELSE Collected(samples, sampleIdx)

-----------------------------------------------------------------------------
ReaderStep ==
  \/ StartTotals \/ OpenShard \/ Load \/ EndTotals \/ Status
  \/ \E tooSoon \in BOOLEAN : Sample(tooSoon)

Next == ReaderStep \/ \E c \in Conns : ConnStep(c)

Spec == Init /\ [][Next]_vars

-----------------------------------------------------------------------------
(***************************************************************************)
(* Properties.                                                             *)
(***************************************************************************)
\* Whoever makes the entry of a device, no handler's update is lost: the
\* counters are those of the connections that have got so far (stats.go device,
\* the second look under the lock).
NoUpdateLost ==
  \A d \in Devices :
    LET At(S) == {c \in Conns : DeviceOf[c] = d /\ pc[c] \in S} IN
    /\ total[d] = Cardinality(At({"active", "open", "inactive", "bytes", "push", "done"}))
    /\ active[d] = Cardinality(At({"open", "inactive"}))
    /\ tx[d] = SumFunctionOnSet(Bytes, At({"push", "done"}))

\* Totals is no snapshot, yet what it returns hangs together: never more active
\* connections than were ever opened, because active is added after and read
\* before total; and no byte or connection that does not exist yet.
TotalsHangTogether ==
  reader = "read" =>
    /\ sum.active <= sum.total
    /\ sum.total <= SumFunctionOnSet(total, Devices)
    /\ sum.tx <= SumFunctionOnSet(tx, Devices)

\* The difference of two readings is never negative, although the counters
\* change under both: the unsigned subtraction of sample cannot wrap around.
RateNeverWraps == (reader = "read" /\ started) => sum.tx >= lastTx

\* The samples ever taken add up to what was read between the first and the last
\* of them: a reading dropped as too soon loses no traffic.
SamplesAddUp ==
  SumFunction(sampled) = lastTx - firstTx

\* The ring of connections is a bounded log: Recent(n) is its newest n, newest
\* first, for every n, before and after the ring has wrapped around.
RecentIsNewest ==
  \A limit \in 0 .. RecentCap + 1 :
    LET n == Min({limit, RecentCap, Len(log)})
    IN Recent(limit) = [i \in 1 .. n |-> log[Len(log) + 1 - i]]

\* So is the ring of samples: TrafficSamples is the newest of them in the order
\* they were taken.
SamplesAreNewest ==
  LET n == Min({SampleCap, Len(sampled)})
  IN TrafficSamples = SubSeq(sampled, Len(sampled) - n + 1, Len(sampled))
=============================================================================
