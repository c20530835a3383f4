---------------------------- MODULE StatsProofs ----------------------------
(***************************************************************************)
(* Proofs about Stats, for any connections, devices, shards and ring       *)
(* sizes.  Three arguments that do not depend on each other: the counters  *)
(* of a device count its connections at certain places; a pass of Totals   *)
(* reads of each device what it had at some moment of the pass; and a ring *)
(* holds the end of the sequence of what was written to it.                *)
(***************************************************************************)
EXTENDS Stats, Sums, SequenceTheorems

(***************************************************************************)
(* Rings.                                                                  *)
(***************************************************************************)
\* The place i steps before idx.
Back(idx, i, cap) == IF i <= idx THEN idx - i ELSE idx - i + cap

\* The ring holds the end of the sequence, the last element just before idx.
HoldsEnd(ring, idx, cap, seq) ==
  \A i \in 1 .. cap : i <= Len(seq) => ring[Back(idx, i, cap)] = seq[Len(seq) + 1 - i]

LEMMA Around ==
  ASSUME NEW cap \in Nat \ {0}, NEW idx \in 0 .. cap - 1
  PROVE  /\ NextIdx(idx, cap) = IF idx + 1 = cap THEN 0 ELSE idx + 1
         /\ NextIdx(idx, cap) \in 0 .. cap - 1
         /\ \A i \in 1 .. cap : /\ Back(idx, i, cap) \in 0 .. cap - 1
                                /\ (idx - i + cap) % cap = Back(idx, i, cap)
                                /\ (idx + (cap - i)) % cap = Back(idx, i, cap)
         /\ Back(NextIdx(idx, cap), 1, cap) = idx
         /\ \A i \in 2 .. cap : /\ Back(NextIdx(idx, cap), i, cap) = Back(idx, i - 1, cap)
                                /\ Back(idx, i - 1, cap) # idx
<1>1. \A x \in 0 .. cap - 1 : x % cap = x OBVIOUS
<1>2. \A x \in cap .. 2 * cap - 1 : x % cap = x - cap OBVIOUS
<1>3. NextIdx(idx, cap) = IF idx + 1 = cap THEN 0 ELSE idx + 1
  BY <1>1, <1>2 DEF NextIdx
<1>4. ASSUME NEW i \in 1 .. cap
      PROVE  /\ Back(idx, i, cap) \in 0 .. cap - 1
             /\ (idx - i + cap) % cap = Back(idx, i, cap)
             /\ (idx + (cap - i)) % cap = Back(idx, i, cap)
  BY <1>1, <1>2 DEF Back
<1> QED BY <1>3, <1>4 DEF Back

\* What Push and Sample do to a ring.
LEMMA RingPush ==
  ASSUME NEW cap \in Nat \ {0}, NEW idx \in 0 .. cap - 1,
         NEW T, NEW ring \in [0 .. cap - 1 -> T],
         NEW S, NEW seq \in Seq(S), NEW v \in S,
         HoldsEnd(ring, idx, cap, seq)
  PROVE  HoldsEnd([ring EXCEPT ![idx] = v], NextIdx(idx, cap), cap, Append(seq, v))
<1> DEFINE new == [ring EXCEPT ![idx] = v]
           all == Append(seq, v)
           next == NextIdx(idx, cap)
<1> SUFFICES ASSUME NEW i \in 1 .. cap, i <= Len(all)
             PROVE  new[Back(next, i, cap)] = all[Len(all) + 1 - i]
  BY DEF HoldsEnd
<1>1. Len(seq) \in Nat /\ Len(all) = Len(seq) + 1 OBVIOUS
<1>2. CASE i = 1
  <2>1. Back(next, i, cap) = idx BY <1>2, Around
  <2>2. all[Len(seq) + 1] = v OBVIOUS
  <2>3. Len(all) + 1 - i = Len(seq) + 1 BY <1>1, <1>2
  <2> QED BY <2>1, <2>2, <2>3
<1>3. CASE i # 1
  <2>1. i \in 2 .. cap /\ i - 1 \in 1 .. cap /\ i - 1 <= Len(seq) BY <1>1, <1>3
  <2>2. Back(next, i, cap) = Back(idx, i - 1, cap) /\ Back(idx, i - 1, cap) # idx
        /\ Back(idx, i - 1, cap) \in 0 .. cap - 1
    BY <2>1, Around
  <2>3. new[Back(next, i, cap)] = ring[Back(idx, i - 1, cap)] BY <2>2
  <2>4. ring[Back(idx, i - 1, cap)] = seq[Len(seq) + 1 - (i - 1)] BY <2>1 DEF HoldsEnd
  <2>5. Len(seq) + 1 - (i - 1) = Len(all) + 1 - i BY <1>1
  <2>6. Len(seq) + 1 - (i - 1) \in 1 .. Len(seq) BY <1>1, <2>1
  <2>7. all[Len(seq) + 1 - (i - 1)] = seq[Len(seq) + 1 - (i - 1)] BY <2>6
  <2> QED BY <2>3, <2>4, <2>5, <2>7
<1> QED BY <1>2, <1>3

-----------------------------------------------------------------------------
(***************************************************************************)
(* The loop of TrafficSamples.  It is a recursive function: that there is  *)
(* one, and what it yields, is shown by induction.                         *)
(***************************************************************************)
Loop(ring, first, out) ==
  out = [n \in 0 .. SampleCap |->
          IF n = 0 THEN <<>>
          ELSE LET v == ring[(first + n - 1) % SampleCap]
               IN IF v = Unset THEN out[n - 1] ELSE Append(out[n - 1], v)]

LEMMA LoopExists ==
  ASSUME NEW ring, NEW first PROVE \E out : Loop(ring, first, out)
<1> DEFINE Step(out, n) ==
             IF n = 0 THEN <<>>
             ELSE LET v == ring[(first + n - 1) % SampleCap]
                  IN IF v = Unset THEN out[n - 1] ELSE Append(out[n - 1], v)
           Runs(m) == \E out : \A n \in 0 .. m : out[n] = Step(out, n)
           N == {m \in Nat : Runs(m)}
<1>1. 0 \in N
  <2>1. [n \in 0 .. 0 |-> <<>>][0] = <<>> OBVIOUS
  <2>2. \A n \in 0 .. 0 : n = 0 OBVIOUS
  <2> QED BY <2>1, <2>2
<1>2. ASSUME NEW m \in N PROVE m + 1 \in N
  <2>1. PICK out : \A n \in 0 .. m : out[n] = Step(out, n) OBVIOUS
  <2> DEFINE more == [n \in 0 .. m + 1 |-> Step(out, n)]
  <2>2. \A n \in 0 .. m : more[n] = out[n] BY <2>1
  <2>3. ASSUME NEW n \in 0 .. m + 1 PROVE more[n] = Step(more, n)
    <3>1. more[n] = Step(out, n) OBVIOUS
    <3>2. CASE n = 0 BY <3>1, <3>2
    <3>3. CASE n # 0
      <4>1. n - 1 \in 0 .. m BY <3>3
      <4>2. more[n - 1] = out[n - 1] BY <2>2, <4>1
      <4> HIDE DEF more
      <4> QED BY <3>1, <4>2
    <3> QED BY <3>2, <3>3
  <2> HIDE DEF more
  <2>4. Runs(m + 1) BY <2>3
  <2> HIDE DEF Runs
  <2> QED BY <2>4
<1>3. SampleCap \in N
  <2>1. N \in SUBSET Nat OBVIOUS
  <2> HIDE DEF N
  <2> QED BY <1>1, <1>2, <2>1, Induction, StatsAssumption
<1>4. PICK out : \A n \in 0 .. SampleCap : out[n] = Step(out, n) BY <1>3
<1> DEFINE all == [n \in 0 .. SampleCap |-> Step(out, n)]
<1>5. \A n \in 0 .. SampleCap : all[n] = out[n] BY <1>4
<1>6. \A n \in 0 .. SampleCap : Step(all, n) = Step(out, n)
  <2> SUFFICES ASSUME NEW n \in 0 .. SampleCap, n # 0 PROVE all[n - 1] = out[n - 1]
    OBVIOUS
  <2>1. n - 1 \in 0 .. SampleCap BY StatsAssumption
  <2> QED BY <1>5, <2>1
<1>7. all = [n \in 0 .. SampleCap |-> Step(all, n)] BY <1>6
<1> HIDE DEF all
<1>8. Loop(ring, first, all) BY <1>7 DEF Loop
<1> QED BY <1>8

LEMMA LoopRuns ==
  ASSUME NEW ring, NEW first
  PROVE  \E out : Loop(ring, first, out) /\ Collected(ring, first) = out[SampleCap]
<1> DEFINE out == CHOOSE o : Loop(ring, first, o)
<1>1. Loop(ring, first, out) BY LoopExists
<1>2. Collected(ring, first) = out[SampleCap] BY DEF Collected, Loop
<1> QED BY <1>1, <1>2

\* The samples are in the ring, newest before idx, and the other places unset.
SamplesHold(ring, idx, seq) ==
  /\ ring \in [0 .. SampleCap - 1 -> Nat \cup {Unset}]
  /\ idx \in 0 .. SampleCap - 1 /\ seq \in Seq(Nat)
  /\ Len(seq) < SampleCap => idx = Len(seq)
  /\ HoldsEnd(ring, idx, SampleCap, seq)
  /\ \A i \in 1 .. SampleCap : i > Len(seq) => ring[Back(idx, i, SampleCap)] = Unset

LEMMA SubSeqAppend ==
  ASSUME NEW S, NEW seq \in Seq(S), NEW a \in 1 .. Len(seq), NEW b \in a - 1 .. Len(seq) - 1
  PROVE  Append(SubSeq(seq, a, b), seq[b + 1]) = SubSeq(seq, a, b + 1)
<1>1. b + 1 \in a .. Len(seq) /\ a \in Int /\ b \in Int /\ (b + 1) - 1 = b OBVIOUS
<1>2. SubSeq(seq, a, b + 1) = SubSeq(seq, a, b) \o <<seq[b + 1]>>
  BY <1>1, SubSeqRecursiveSecond
<1>3. \A i \in a .. b : seq[i] \in S BY <1>1
<1>4. SubSeq(seq, a, b) \in Seq(S) BY <1>1, <1>3, SubSeqProperties
<1>5. seq[b + 1] \in S BY <1>1
<1> QED BY <1>2, <1>4, <1>5, AppendIsConcat

LEMMA CollectedIsEnd ==
  ASSUME NEW idx \in 0 .. SampleCap - 1, NEW ring,
         NEW seq \in Seq(Nat), NEW l \in Nat, Len(seq) = l,
         SamplesHold(ring, idx, seq),
         NEW m \in Nat, m <= SampleCap, m <= l, m = SampleCap \/ m = l
  PROVE  Collected(ring, idx) = SubSeq(seq, l - m + 1, l)
<1>0. SampleCap \in Nat \ {0} BY StatsAssumption
<1>1. PICK out : Loop(ring, idx, out) /\ Collected(ring, idx) = out[SampleCap]
  BY LoopRuns
<1> DEFINE a == l - m + 1
           end(n) == l - SampleCap + n
           N == {n \in Nat : n <= SampleCap => out[n] = SubSeq(seq, a, end(n))}
<1>2. a \in Int /\ a >= 1 /\ end(0) \in Int /\ end(0) < a /\ end(SampleCap) = l BY <1>0
<1>3. 0 \in N
  <2>1. out[0] = <<>> BY <1>0, <1>1 DEF Loop
  <2> HIDE DEF a, end
  <2>2. SubSeq(seq, a, end(0)) = <<>> BY <1>2, SubSeqEmpty
  <2> QED BY <2>1, <2>2
<1>4. ASSUME NEW n \in Nat, n + 1 <= SampleCap, out[n] = SubSeq(seq, a, end(n))
      PROVE  out[n + 1] = SubSeq(seq, a, end(n + 1))
  <2> DEFINE i == SampleCap - n
             v == ring[Back(idx, i, SampleCap)]
  <2>1. i \in 1 .. SampleCap /\ n = SampleCap - i BY <1>0, <1>4
  <2>2. (idx + (n + 1) - 1) % SampleCap = Back(idx, i, SampleCap)
    <3>1. (idx + (SampleCap - i)) % SampleCap = Back(idx, i, SampleCap)
      BY <1>0, <2>1, Around
    <3>2. idx + (n + 1) - 1 = idx + (SampleCap - i) BY <1>0, <2>1
    <3> QED BY <3>1, <3>2
  <2>3. out[n + 1] = IF v = Unset THEN out[n] ELSE Append(out[n], v)
    <3>1. n + 1 \in 0 .. SampleCap /\ n + 1 # 0 /\ (n + 1) - 1 = n BY <1>0, <1>4
    <3>2. out[n + 1] = LET w == ring[(idx + (n + 1) - 1) % SampleCap]
                       IN IF w = Unset THEN out[(n + 1) - 1] ELSE Append(out[(n + 1) - 1], w)
      BY <1>1, <3>1 DEF Loop
    <3> QED BY <2>2, <3>1, <3>2
  <2>4. end(n) \in Int /\ end(n + 1) = end(n) + 1 /\ end(n) = l - i BY <1>0, <2>1
  <2>5. CASE i > l
    <3>1. v = Unset BY <2>1, <2>5 DEF SamplesHold
    <3>2. end(n) < a /\ end(n + 1) < a /\ end(n + 1) \in Int BY <1>0, <2>4, <2>1, <2>5
    <3> HIDE DEF v, a, end
    <3>3. SubSeq(seq, a, end(n)) = <<>> /\ SubSeq(seq, a, end(n + 1)) = <<>>
      BY <1>2, <2>4, <3>2, SubSeqEmpty
    <3> QED BY <1>4, <2>3, <3>1, <3>3
  <2>6. CASE i <= l
    <3>1. v = seq[l + 1 - i] BY <2>1, <2>6 DEF SamplesHold, HoldsEnd
    <3>2. l + 1 - i = end(n) + 1 /\ end(n) + 1 \in 1 .. l BY <1>0, <2>1, <2>6
    <3>3. v \in Nat /\ v # Unset BY <3>1, <3>2 DEF Unset
    <3>4. a \in 1 .. l /\ end(n) \in a - 1 .. l - 1 BY <1>0, <2>1, <2>6
    <3> HIDE DEF v, a, end
    <3>5. Append(SubSeq(seq, a, end(n)), seq[end(n) + 1]) = SubSeq(seq, a, end(n) + 1)
      BY <3>4, SubSeqAppend
    <3> QED BY <1>4, <2>3, <2>4, <3>1, <3>2, <3>3, <3>5
  <2> QED BY <1>0, <2>1, <2>5, <2>6
<1> HIDE DEF a, end
<1>5. ASSUME NEW n \in N PROVE n + 1 \in N
  <2>1. CASE n + 1 <= SampleCap
    <3>1. n \in Nat /\ out[n] = SubSeq(seq, a, end(n)) BY <1>0, <2>1
    <3>2. out[n + 1] = SubSeq(seq, a, end(n + 1)) BY <1>4, <2>1, <3>1
    <3> QED BY <3>1, <3>2
  <2>2. CASE ~(n + 1 <= SampleCap) BY <2>2
  <2> QED BY <2>1, <2>2
<1>6. SampleCap \in N
  <2>1. N \in SUBSET Nat OBVIOUS
  <2> HIDE DEF N
  <2> QED BY <1>0, <1>3, <1>5, <2>1, Induction
<1>7. out[SampleCap] = SubSeq(seq, a, end(SampleCap)) BY <1>0, <1>6
<1> QED BY <1>1, <1>2, <1>7 DEF a

-----------------------------------------------------------------------------
(***************************************************************************)
(* The counters of the devices.                                            *)
(***************************************************************************)
Added     == {"push", "done"}
Activated == {"open", "inactive"}
Totalled  == {"active", "open", "inactive", "bytes", "push", "done"}

Of(d, S) == {c \in Conns : DeviceOf[c] = d /\ pc[c] \in S}

\* The handlers that use the entry of a device found or made it, and each
\* counter is that of the connections at certain places.
Counts ==
  /\ \A c \in Conns : pc[c] \in Totalled \cup {"total"} => DeviceOf[c] \in known
  /\ \A d \in Devices : total[d] = Cardinality(Of(d, Totalled))
  /\ \A d \in Devices : active[d] = Cardinality(Of(d, Activated))
  /\ \A d \in Devices : tx[d] = SumFunctionOnSet(Bytes, Of(d, Added))

ConnPC == {"none", "lookup", "create", "total", "active", "open", "inactive", "bytes",
           "push", "done"}

Bit(p) == IF p THEN 1 ELSE 0

LEMMA OfIsFinite ==
  ASSUME NEW d, NEW S
  PROVE  /\ IsFiniteSet(Of(d, S)) /\ Cardinality(Of(d, S)) \in Nat
         /\ Summable(Bytes, Of(d, S)) /\ SumFunctionOnSet(Bytes, Of(d, S)) \in Nat
<1>1. Of(d, S) \subseteq Conns BY DEF Of
<1>2. IsFiniteSet(Of(d, S)) BY <1>1, StatsAssumption, FS_Subset
<1>3. \A c \in Of(d, S) : Bytes[c] \in Nat BY <1>1, StatsAssumption
<1> QED BY <1>2, <1>3, FS_CardinalityType, SumNat DEF Summable

\* A device without an entry has nothing in its counters.
LEMMA UnknownIsZero ==
  ASSUME Counts, NEW d \in Devices, d \notin known
  PROVE  total[d] = 0 /\ active[d] = 0 /\ tx[d] = 0
<1>1. Of(d, Totalled) = {} /\ Of(d, Activated) = {} /\ Of(d, Added) = {}
  BY DEF Counts, Of, Totalled, Activated, Added
<1> QED BY <1>1, FS_EmptySet, SumEmpty DEF Counts

LEMMA ActiveWithinTotal ==
  ASSUME Counts, NEW d \in Devices
  PROVE  active[d] <= total[d]
<1>1. Of(d, Activated) \subseteq Of(d, Totalled) BY DEF Of, Activated, Totalled
<1> QED BY <1>1, OfIsFinite, FS_Subset DEF Counts

\* One connection goes from one place to another.
LEMMA Move ==
  ASSUME pc \in [Conns -> ConnPC], NEW c \in Conns, NEW q, Goto(c, q), NEW S
  PROVE  \A d \in Devices :
           Cardinality(Of(d, S)')
             = Cardinality(Of(d, S))
                 + (IF d = DeviceOf[c] THEN Bit(q \in S) - Bit(pc[c] \in S) ELSE 0)
<1> SUFFICES ASSUME NEW d \in Devices
    PROVE  Cardinality(Of(d, S)')
             = Cardinality(Of(d, S))
                 + (IF d = DeviceOf[c] THEN Bit(q \in S) - Bit(pc[c] \in S) ELSE 0)
  OBVIOUS
<1> DEFINE A == Of(d, S)
           B == Of(d, S)'
<1>0. IsFiniteSet(A) /\ Cardinality(A) \in Nat BY OfIsFinite
<1>1. CASE d = DeviceOf[c] /\ q \in S /\ pc[c] \notin S
  <2>1. B = A \cup {c} /\ c \notin A BY <1>1 DEF Of, Goto
  <2>2. Cardinality(B) = Cardinality(A) + 1 BY <1>0, <2>1, FS_AddElement
  <2> QED BY <1>0, <1>1, <2>2 DEF Bit
<1>2. CASE d = DeviceOf[c] /\ q \notin S /\ pc[c] \in S
  <2>1. B = A \ {c} /\ c \in A BY <1>2 DEF Of, Goto
  <2>2. Cardinality(B) = Cardinality(A) - 1 BY <1>0, <2>1, FS_RemoveElement
  <2> QED BY <1>0, <1>2, <2>2 DEF Bit
<1>3. CASE d # DeviceOf[c] \/ (q \in S <=> pc[c] \in S)
  <2>1. B = A BY <1>3 DEF Of, Goto
  <2> QED BY <1>0, <1>3, <2>1 DEF Bit
<1> QED BY <1>1, <1>2, <1>3

\* The entry a handler makes changes no counter: it is made once.
LEMMA CreateResetsNothing ==
  ASSUME TypeOK, Counts, NEW c \in Conns, CreateDevice(c)
  PROVE  UNCHANGED <<total, active, tx>>
<1> DEFINE d == DeviceOf[c]
<1>1. d \in Devices BY StatsAssumption
<1>2. CASE d \in known BY <1>2 DEF CreateDevice, Absent
<1>3. CASE d \notin known
  <2>1. total[d] = 0 /\ active[d] = 0 /\ tx[d] = 0 BY <1>1, <1>3, UnknownIsZero
  <2>2. /\ total' = [total EXCEPT ![d] = 0] /\ active' = [active EXCEPT ![d] = 0]
        /\ tx' = [tx EXCEPT ![d] = 0]
    BY <1>3 DEF CreateDevice, Absent
  <2> QED BY <1>1, <2>1, <2>2 DEF TypeOK
<1> QED BY <1>2, <1>3

\* What a step of c to q does to the counters, those of its device and no others.
Counted(c, q) ==
  /\ total' \in [Devices -> Int] /\ active' \in [Devices -> Int] /\ tx' \in [Devices -> Int]
  /\ \A d \in Devices \ {DeviceOf[c]} :
       total'[d] = total[d] /\ active'[d] = active[d] /\ tx'[d] = tx[d]
  /\ \A d \in {DeviceOf[c]} :
       /\ total'[d] = total[d] + (Bit(q \in Totalled) - Bit(pc[c] \in Totalled))
       /\ active'[d] = active[d] + (Bit(q \in Activated) - Bit(pc[c] \in Activated))
       /\ IF q \in Added /\ pc[c] \notin Added
          THEN tx'[d] = tx[d] + Bytes[c]
          ELSE tx'[d] = tx[d]

Placed(c, q) ==
  /\ Goto(c, q) /\ q \in ConnPC
  /\ known \subseteq known' /\ known' \subseteq Devices
  /\ q \in Totalled \cup {"total"} => DeviceOf[c] \in known'
  /\ pc[c] \in Added => q \in Added
  /\ pc[c] \in Totalled => q \in Totalled

LEMMA NothingCounted ==
  ASSUME TypeOK, NEW c \in Conns, NEW q, UNCHANGED <<total, active, tx>>,
         q \in Totalled <=> pc[c] \in Totalled, q \in Activated <=> pc[c] \in Activated,
         q \in Added <=> pc[c] \in Added
  PROVE  Counted(c, q)
<1>1. DeviceOf[c] \in Devices BY StatsAssumption
<1>2. /\ Bit(q \in Totalled) - Bit(pc[c] \in Totalled) = 0
      /\ Bit(q \in Activated) - Bit(pc[c] \in Activated) = 0
  BY DEF Bit
<1>3. total[DeviceOf[c]] \in Nat /\ active[DeviceOf[c]] \in Nat
  BY <1>1 DEF TypeOK
<1>4. total[DeviceOf[c]] + 0 = total[DeviceOf[c]] /\ active[DeviceOf[c]] + 0 = active[DeviceOf[c]]
  BY <1>3
<1> QED BY <1>2, <1>4 DEF Counted, TypeOK

LEMMA ConnStepMoves ==
  ASSUME TypeOK, Counts, NEW c \in Conns, ConnStep(c)
  PROVE  \E q : Placed(c, q) /\ Counted(c, q)
<1> DEFINE d == DeviceOf[c]
<1>0. /\ d \in Devices /\ Bytes[c] \in Nat
      /\ total \in [Devices -> Nat] /\ active \in [Devices -> Nat] /\ tx \in [Devices -> Nat]
      /\ pc[c] \in Totalled \cup {"total"} => d \in known
      /\ known \subseteq Devices
  BY StatsAssumption DEF TypeOK, Counts
<1> USE DEF Totalled, Activated, Added
<1>1. CASE Handle(c)
  <2>1. Placed(c, "lookup") BY <1>0, <1>1 DEF Handle, Placed, ConnPC
  <2>2. Counted(c, "lookup") BY <1>1, NothingCounted DEF Handle
  <2> QED BY <2>1, <2>2
<1>2. CASE Lookup(c)
  <2> DEFINE q == IF d \in known THEN "total" ELSE "create"
  <2>1. Placed(c, q) BY <1>0, <1>2 DEF Lookup, Placed, ConnPC
  <2>2. Counted(c, q) BY <1>2, NothingCounted DEF Lookup
  <2> QED BY <2>1, <2>2
<1>3. CASE CreateDevice(c)
  <2>1. Placed(c, "total") BY <1>0, <1>3 DEF CreateDevice, Placed, ConnPC
  <2>2. UNCHANGED <<total, active, tx>> BY <1>3, CreateResetsNothing
  <2>3. Counted(c, "total") BY <1>3, <2>2, NothingCounted DEF CreateDevice
  <2> QED BY <2>1, <2>3
<1>4. CASE AddTotal(c)
  <2>1. Placed(c, "active") BY <1>0, <1>4 DEF AddTotal, Placed, ConnPC
  <2>2. total' = [total EXCEPT ![d] = @ + 1] /\ UNCHANGED <<active, tx>> /\ pc[c] = "total"
    BY <1>4 DEF AddTotal, Bump
  <2>3. Counted(c, "active") BY <1>0, <2>2 DEF Counted, Bit
  <2> QED BY <2>1, <2>3
<1>5. CASE AddActive(c)
  <2>1. Placed(c, "open") BY <1>0, <1>5 DEF AddActive, Placed, ConnPC
  <2>2. active' = [active EXCEPT ![d] = @ + 1] /\ UNCHANGED <<total, tx>> /\ pc[c] = "active"
    BY <1>5 DEF AddActive, Bump
  <2>3. Counted(c, "open") BY <1>0, <2>2 DEF Counted, Bit
  <2> QED BY <2>1, <2>3
<1>6. CASE EndConn(c)
  <2>1. Placed(c, "inactive") BY <1>0, <1>6 DEF EndConn, Placed, ConnPC
  <2>2. Counted(c, "inactive") BY <1>6, NothingCounted DEF EndConn
  <2> QED BY <2>1, <2>2
<1>7. CASE SubActive(c)
  <2>1. Placed(c, "bytes") BY <1>0, <1>7 DEF SubActive, Placed, ConnPC
  <2>2. active' = [active EXCEPT ![d] = @ + -1] /\ UNCHANGED <<total, tx>> /\ pc[c] = "inactive"
    BY <1>7 DEF SubActive, Bump
  <2>3. Counted(c, "bytes") BY <1>0, <2>2 DEF Counted, Bit
  <2> QED BY <2>1, <2>3
<1>8. CASE AddBytes(c)
  <2>1. Placed(c, "push") BY <1>0, <1>8 DEF AddBytes, Placed, ConnPC
  <2>2. tx' = [tx EXCEPT ![d] = @ + Bytes[c]] /\ UNCHANGED <<total, active>> /\ pc[c] = "bytes"
    BY <1>8 DEF AddBytes, Bump
  <2>3. Counted(c, "push") BY <1>0, <2>2 DEF Counted, Bit
  <2> QED BY <2>1, <2>3
<1>9. CASE Push(c)
  <2>1. Placed(c, "done") BY <1>0, <1>9 DEF Push, Placed, ConnPC
  <2>2. Counted(c, "done") BY <1>9, NothingCounted DEF Push
  <2> QED BY <2>1, <2>2
<1> QED BY <1>1, <1>2, <1>3, <1>4, <1>5, <1>6, <1>7, <1>8, <1>9 DEF ConnStep

LEMMA CountsKept ==
  ASSUME TypeOK, Counts, NEW c \in Conns, NEW q, Placed(c, q), Counted(c, q)
  PROVE  Counts'
<1> DEFINE here == DeviceOf[c]
<1>0. pc \in [Conns -> ConnPC] /\ here \in Devices /\ Goto(c, q)
  BY StatsAssumption DEF TypeOK, ConnPC, Placed
<1>1. \A e \in Conns : pc'[e] \in Totalled \cup {"total"} => DeviceOf[e] \in known'
  BY <1>0 DEF Placed, Counts, Goto
<1>2. ASSUME NEW d \in Devices
      PROVE  total'[d] = Cardinality(Of(d, Totalled)') /\ active'[d] = Cardinality(Of(d, Activated)')
  <2> DEFINE T == Cardinality(Of(d, Totalled))
             A == Cardinality(Of(d, Activated))
             dT == Bit(q \in Totalled) - Bit(pc[c] \in Totalled)
             dA == Bit(q \in Activated) - Bit(pc[c] \in Activated)
  <2>1. /\ Cardinality(Of(d, Totalled)') = T + (IF d = here THEN dT ELSE 0)
        /\ Cardinality(Of(d, Activated)') = A + (IF d = here THEN dA ELSE 0)
    BY <1>0, Move
  <2>2. T \in Nat /\ A \in Nat /\ total[d] = T /\ active[d] = A BY OfIsFinite DEF Counts
  <2>3. CASE d = here
    <3>1. total'[d] = total[d] + dT /\ active'[d] = active[d] + dA BY <2>3 DEF Counted
    <3> QED BY <2>1, <2>2, <2>3, <3>1
  <2>4. CASE d # here
    <3>1. total'[d] = total[d] /\ active'[d] = active[d] BY <2>4 DEF Counted
    <3> QED BY <2>1, <2>2, <2>4, <3>1
  <2> QED BY <2>3, <2>4
<1>3. ASSUME NEW d \in Devices
      PROVE  tx'[d] = SumFunctionOnSet(Bytes, Of(d, Added)')
  <2>1. CASE d = here /\ q \in Added /\ pc[c] \notin Added
    <3>1. Of(d, Added)' = Of(d, Added) \cup {c} /\ c \notin Of(d, Added)
      BY <1>0, <2>1 DEF Of, Goto
    <3>2. Bytes[c] \in Int BY StatsAssumption
    <3>3. SumFunctionOnSet(Bytes, Of(d, Added)') = SumFunctionOnSet(Bytes, Of(d, Added)) + Bytes[c]
      BY <3>1, <3>2, OfIsFinite, SumAdd
    <3> QED BY <2>1, <3>3 DEF Counts, Counted
  <2>2. CASE ~(d = here /\ q \in Added /\ pc[c] \notin Added)
    <3>1. Of(d, Added)' = Of(d, Added) BY <1>0, <2>2 DEF Of, Goto, Placed
    <3>2. tx'[d] = tx[d] BY <2>2 DEF Counted
    <3> QED BY <3>1, <3>2 DEF Counts
  <2> QED BY <2>1, <2>2
<1> QED BY <1>1, <1>2, <1>3 DEF Counts

\* The counters that Totals reads only grow, and no entry goes away.
Grown == \A d \in Devices : total[d] <= total'[d] /\ tx[d] <= tx'[d]

LEMMA CountersGrow ==
  ASSUME TypeOK, NEW c \in Conns, NEW q, Placed(c, q), Counted(c, q)
  PROVE  Grown
<1> SUFFICES ASSUME NEW d \in Devices PROVE total[d] <= total'[d] /\ tx[d] <= tx'[d]
  BY DEF Grown
<1>1. total[d] \in Nat /\ tx[d] \in Nat /\ Bytes[c] \in Nat BY StatsAssumption DEF TypeOK
<1>2. Bit(q \in Totalled) - Bit(pc[c] \in Totalled) \in {0, 1} BY DEF Placed, Bit
<1>3. CASE d # DeviceOf[c] BY <1>1, <1>3 DEF Counted
<1>4. CASE d = DeviceOf[c]
  <2>1. total'[d] = total[d] + (Bit(q \in Totalled) - Bit(pc[c] \in Totalled))
    BY <1>4 DEF Counted
  <2>2. tx'[d] = tx[d] \/ tx'[d] = tx[d] + Bytes[c] BY <1>4 DEF Counted
  <2> QED BY <1>1, <1>2, <2>1, <2>2
<1> QED BY <1>3, <1>4

LEMMA CountersAreNat ==
  ASSUME TypeOK, Counts, NEW c \in Conns, NEW q, Placed(c, q), Counted(c, q)
  PROVE  total' \in [Devices -> Nat] /\ active' \in [Devices -> Nat] /\ tx' \in [Devices -> Nat]
<1>1. ASSUME NEW d \in Devices PROVE total'[d] \in Nat /\ active'[d] \in Nat /\ tx'[d] \in Nat
  <2>1. /\ total'[d] = Cardinality(Of(d, Totalled)') /\ active'[d] = Cardinality(Of(d, Activated)')
        /\ tx'[d] = SumFunctionOnSet(Bytes, Of(d, Added)')
    BY CountsKept DEF Counts
  <2>2. ASSUME NEW S PROVE Of(d, S)' \in SUBSET Conns BY DEF Of
  <2>3. ASSUME NEW s \in SUBSET Conns
        PROVE  Cardinality(s) \in Nat /\ SumFunctionOnSet(Bytes, s) \in Nat
    <3>1. IsFiniteSet(s) /\ \A e \in s : Bytes[e] \in Nat BY StatsAssumption, FS_Subset
    <3> QED BY <3>1, FS_CardinalityType, SumNat
  <2> QED BY <2>1, <2>2, <2>3
<1> QED BY <1>1 DEF Counted

-----------------------------------------------------------------------------
(***************************************************************************)
(* The ring of connections.                                                *)
(***************************************************************************)
RecentHolds ==
  /\ HoldsEnd(recent, recentIdx, RecentCap, log)
  /\ recentLen = IF RecentCap <= Len(log) THEN RecentCap ELSE Len(log)

LEMMA RecentKept ==
  ASSUME TypeOK, RecentHolds, NEW c \in Conns, Push(c)
  PROVE  /\ RecentHolds'
         /\ recent' \in [0 .. RecentCap - 1 -> Conns \cup {"unset"}] /\ log' \in Seq(Conns)
         /\ recentIdx' \in 0 .. RecentCap - 1 /\ recentLen' \in 0 .. RecentCap
<1>0. /\ RecentCap \in Nat \ {0} /\ recentIdx \in 0 .. RecentCap - 1
      /\ recent \in [0 .. RecentCap - 1 -> Conns \cup {"unset"}] /\ log \in Seq(Conns)
      /\ recentLen \in 0 .. RecentCap
  BY StatsAssumption DEF TypeOK
<1>1. /\ recent' = [recent EXCEPT ![recentIdx] = c] /\ log' = Append(log, c)
      /\ recentIdx' = NextIdx(recentIdx, RecentCap)
      /\ recentLen' = IF recentLen < RecentCap THEN recentLen + 1 ELSE recentLen
  BY DEF Push
<1>2. HoldsEnd([recent EXCEPT ![recentIdx] = c], NextIdx(recentIdx, RecentCap), RecentCap,
               Append(log, c))
  BY <1>0, RingPush DEF RecentHolds
<1>3. HoldsEnd(recent', recentIdx', RecentCap, log') BY <1>1, <1>2
<1>4. Len(log) \in Nat /\ Len(log') = Len(log) + 1 /\ log' \in Seq(Conns)
  BY <1>0, <1>1, AppendProperties, LenProperties
<1>5. recentLen = IF RecentCap <= Len(log) THEN RecentCap ELSE Len(log) BY DEF RecentHolds
<1>6. recentLen' = IF RecentCap <= Len(log') THEN RecentCap ELSE Len(log')
  BY <1>0, <1>1, <1>4, <1>5
<1>7. recentIdx' \in 0 .. RecentCap - 1 BY <1>0, <1>1, Around
<1>8. recent' \in [0 .. RecentCap - 1 -> Conns \cup {"unset"}] BY <1>0, <1>1
<1>9. recentLen' \in 0 .. RecentCap BY <1>0, <1>1
<1>10. HoldsEnd(recent, recentIdx, RecentCap, log)' BY <1>3 DEF HoldsEnd, Back
<1> QED BY <1>4, <1>6, <1>7, <1>8, <1>9, <1>10 DEF RecentHolds

LEMMA MinOfThree ==
  ASSUME NEW a \in Nat, NEW b \in Nat, NEW e \in Nat
  PROVE  /\ Min({a, b, e}) \in Nat
         /\ Min({a, b, e}) <= a /\ Min({a, b, e}) <= b /\ Min({a, b, e}) <= e
         /\ Min({a, b, e}) \in {a, b, e}
<1>1. \E x \in {a, b, e} : \A y \in {a, b, e} : x <= y
  <2>1. CASE a <= b /\ a <= e BY <2>1
  <2>2. CASE b <= a /\ b <= e BY <2>2
  <2>3. CASE e <= a /\ e <= b BY <2>3
  <2> QED BY <2>1, <2>2, <2>3
<1>2. Min({a, b, e}) \in {a, b, e} /\ \A y \in {a, b, e} : Min({a, b, e}) <= y
  BY <1>1 DEF Min
<1> QED BY <1>2

LEMMA RecentReadsEnd == TypeOK /\ RecentHolds => RecentIsNewest
<1> SUFFICES ASSUME TypeOK, RecentHolds, NEW limit \in 0 .. RecentCap + 1
             PROVE  Recent(limit) = [i \in 1 .. Min({limit, RecentCap, Len(log)})
                                       |-> log[Len(log) + 1 - i]]
  BY DEF RecentIsNewest
<1>0. RecentCap \in Nat \ {0} /\ recentIdx \in 0 .. RecentCap - 1 /\ Len(log) \in Nat
  BY StatsAssumption, LenProperties DEF TypeOK
<1> DEFINE n == Min({limit, RecentCap, Len(log)})
           k == IF limit > recentLen THEN recentLen ELSE limit
<1>1. limit \in Nat BY <1>0
<1>2. recentLen = IF RecentCap <= Len(log) THEN RecentCap ELSE Len(log) BY DEF RecentHolds
<1>3. n \in Nat /\ n <= limit /\ n <= RecentCap /\ n <= Len(log) /\ n \in {limit, RecentCap, Len(log)}
  BY <1>0, <1>1, MinOfThree
<1> HIDE DEF n
<1>4. k = n BY <1>0, <1>1, <1>2, <1>3
<1>5. ASSUME NEW i \in 1 .. n
      PROVE  recent[(recentIdx - i + RecentCap) % RecentCap] = log[Len(log) + 1 - i]
  <2>1. i \in 1 .. RecentCap /\ i <= Len(log) BY <1>0, <1>3
  <2>2. (recentIdx - i + RecentCap) % RecentCap = Back(recentIdx, i, RecentCap)
    BY <1>0, <2>1, Around
  <2> QED BY <2>1, <2>2 DEF RecentHolds, HoldsEnd
<1>6. Recent(limit) = [i \in 1 .. k |-> recent[(recentIdx - i + RecentCap) % RecentCap]]
  BY DEF Recent
<1> HIDE DEF k
<1> QED BY <1>4, <1>5, <1>6 DEF n

-----------------------------------------------------------------------------
(***************************************************************************)
(* A pass of Totals.                                                       *)
(***************************************************************************)
\* The devices the pass has not begun to read, and those whose tx or total it
\* has not read.  A device that gets its entry behind the reader is not Ahead.
Ahead == {d \in Devices : \/ d \in left
                          \/ ShardOf[d] > shard
                          \/ reader \notin Words /\ ShardOf[d] = shard}
TxAhead    == {d \in Devices : d \in Ahead \/ (reader = "tx" /\ d = at)}
TotalAhead == {d \in Devices : d \in Ahead \/ (reader \in Words /\ d = at)}

Position ==
  /\ reader \in Words => at \in Devices /\ ShardOf[at] = shard /\ at \notin left
  /\ \A d \in left : ShardOf[d] = shard
  /\ reader \notin Words => left = {}
  /\ reader = "read" => shard > NumShards

\* Active is read before total, and of a device it is never more than total is
\* by then.
ActiveBound ==
  sum.active <= sum.total + (IF reader = "total" THEN total[at] ELSE 0)

\* cur and seen are what the pass has read of each device, base is what the
\* pass that lastTx comes from had read.  None exceeds what the device has now;
\* and of a device the pass is through with it has read at least the base.
Snapshot(cur, seen, base) ==
  /\ sum.tx = SumFunctionOnSet(cur, Devices)
  /\ sum.total = SumFunctionOnSet(seen, Devices)
  /\ lastTx = SumFunctionOnSet(base, Devices)
  /\ \A d \in Devices : cur[d] <= tx[d] /\ seen[d] <= total[d] /\ base[d] <= tx[d]
  /\ reader # "idle" =>
       \A d \in Devices : /\ d \in TxAhead => cur[d] = 0
                          /\ d \in TotalAhead => seen[d] = 0
                          /\ d \notin TxAhead => base[d] <= cur[d]

Reading ==
  /\ Position /\ ActiveBound
  /\ \E cur, seen, base \in [Devices -> Nat] : Snapshot(cur, seen, base)

LEMMA NatSummable ==
  ASSUME NEW f \in [Devices -> Nat]
  PROVE  Summable(f, Devices) /\ SumFunctionOnSet(f, Devices) \in Nat
BY StatsAssumption, SumNat DEF Summable

\* A pass that is over.
LEMMA ReadingHangsTogether ==
  ASSUME TypeOK, Reading, reader = "read"
  PROVE  /\ sum.active <= sum.total
         /\ sum.total <= SumFunctionOnSet(total, Devices)
         /\ sum.tx <= SumFunctionOnSet(tx, Devices)
         /\ sum.tx >= lastTx
<1>1. PICK cur, seen, base \in [Devices -> Nat] : Snapshot(cur, seen, base)
  BY DEF Reading
<1>2. TxAhead = {}
  <2>1. \A d \in Devices : ShardOf[d] <= NumShards /\ ShardOf[d] \in Int BY StatsAssumption
  <2>2. shard > NumShards /\ left = {} /\ shard \in Int /\ NumShards \in Int
    BY StatsAssumption DEF Reading, Position, Words, TypeOK
  <2> QED BY <2>1, <2>2 DEF TxAhead, Ahead
<1>3. \A d \in Devices : cur[d] <= tx[d] /\ seen[d] <= total[d] /\ base[d] <= cur[d]
  BY <1>1, <1>2 DEF Snapshot
<1>4. Summable(tx, Devices) /\ Summable(total, Devices) BY NatSummable DEF TypeOK
<1>5. Summable(cur, Devices) /\ Summable(seen, Devices) /\ Summable(base, Devices)
  BY NatSummable
<1>6. /\ SumFunctionOnSet(cur, Devices) <= SumFunctionOnSet(tx, Devices)
      /\ SumFunctionOnSet(seen, Devices) <= SumFunctionOnSet(total, Devices)
      /\ SumFunctionOnSet(base, Devices) <= SumFunctionOnSet(cur, Devices)
  BY <1>3, <1>4, <1>5, SumMonotone
<1>7. sum.active <= sum.total
  <2>1. sum.active <= sum.total + 0 BY DEF Reading, ActiveBound
  <2> QED BY <2>1 DEF TypeOK
<1>8. SumFunctionOnSet(base, Devices) \in Nat /\ SumFunctionOnSet(cur, Devices) \in Nat
  BY NatSummable
<1> QED BY <1>1, <1>6, <1>7, <1>8 DEF Snapshot

\* While a handler takes a step nothing that was read becomes too much.
LEMMA ReadingOutlivesConns ==
  ASSUME TypeOK, Reading, Grown, UNCHANGED <<reader, shard, left, at, sum, lastTx>>,
         total' \in [Devices -> Nat], tx' \in [Devices -> Nat]
  PROVE  Reading'
<1>1. PICK cur, seen, base \in [Devices -> Nat] : Snapshot(cur, seen, base)
  BY DEF Reading
<1>2. TxAhead' = TxAhead /\ TotalAhead' = TotalAhead BY DEF TxAhead, TotalAhead, Ahead, Words
<1>3. ASSUME NEW d \in Devices
      PROVE  cur[d] <= tx'[d] /\ seen[d] <= total'[d] /\ base[d] <= tx'[d]
  <2>1. cur[d] <= tx[d] /\ seen[d] <= total[d] /\ base[d] <= tx[d]
    BY <1>1 DEF Snapshot
  <2>2. total[d] <= total'[d] /\ tx[d] <= tx'[d] BY DEF Grown
  <2>3. /\ cur[d] \in Nat /\ seen[d] \in Nat /\ base[d] \in Nat /\ tx[d] \in Nat
        /\ total[d] \in Nat /\ tx'[d] \in Nat /\ total'[d] \in Nat
    BY DEF TypeOK
  <2> QED BY <2>1, <2>2, <2>3
<1>4. Snapshot(cur, seen, base)' BY <1>1, <1>2, <1>3 DEF Snapshot
<1>5. Position' BY DEF Reading, Position, Words
<1>6. ActiveBound'
  <2>1. CASE reader = "total"
    <3>1. at \in Devices BY <2>1 DEF TypeOK, Words
    <3>2. total[at] <= total'[at] /\ total[at] \in Nat /\ total'[at] \in Nat
      BY <3>1 DEF Grown, TypeOK
    <3>3. sum.active <= sum.total + total[at] BY <2>1 DEF Reading, ActiveBound
    <3>4. sum.active \in Nat /\ sum.total \in Nat BY DEF TypeOK
    <3>5. sum.active <= sum.total + total'[at] BY <3>2, <3>3, <3>4
    <3> QED BY <2>1, <3>5 DEF ActiveBound
  <2>2. CASE reader # "total" BY <2>2 DEF Reading, ActiveBound
  <2> QED BY <2>1, <2>2
<1> QED BY <1>4, <1>5, <1>6 DEF Reading

\* Where the reader goes next, and what it has not read from there on.
LEMMA NextPosition ==
  ASSUME TypeOK, shard <= NumShards,
         NEW here \in SUBSET Devices, \A d \in here : ShardOf[d] = shard,
         here = {} => left = {}, ReadNext(here)
  PROVE  /\ Position' /\ reader' \in {"shards", "tx"}
         /\ shard' \in 1 .. NumShards + 1 /\ left' \subseteq Devices
         /\ reader' \in Words => at' \in Devices
         /\ TxAhead' = {d \in Devices : d \in here \/ ShardOf[d] > shard}
         /\ TotalAhead' = {d \in Devices : d \in here \/ ShardOf[d] > shard}
<1>0. /\ shard \in Int /\ NumShards \in Nat /\ shard >= 1
      /\ \A d \in Devices : ShardOf[d] \in Int
  BY StatsAssumption DEF TypeOK
<1>1. CASE here = {}
  <2>1. reader' = "shards" /\ shard' = shard + 1 /\ left' = {} /\ at' = at
    BY <1>1 DEF ReadNext
  <2>2. \A d \in Devices : ShardOf[d] > shard + 1 \/ ShardOf[d] = shard + 1 <=> ShardOf[d] > shard
    BY <1>0
  <2>3. Ahead' = {d \in Devices : ShardOf[d] > shard}
    BY <2>1, <2>2 DEF Ahead, Words
  <2> QED BY <1>0, <1>1, <2>1, <2>3 DEF TxAhead, TotalAhead, Position, Words
<1>2. CASE here # {}
  <2>1. PICK e \in here : at' = e /\ left' = here \ {e} BY <1>2 DEF ReadNext
  <2>2. reader' = "tx" /\ shard' = shard BY <1>2 DEF ReadNext
  <2>3. Ahead' = {d \in Devices : d \in here \ {e} \/ ShardOf[d] > shard}
    BY <2>1, <2>2 DEF Ahead, Words
  <2> QED BY <1>0, <2>1, <2>2, <2>3 DEF TxAhead, TotalAhead, Position, Words
<1> QED BY <1>1, <1>2

LEMMA ReadingStarts ==
  ASSUME TypeOK, Reading, StartTotals PROVE Reading'
<1>1. PICK cur, seen, base \in [Devices -> Nat] : Snapshot(cur, seen, base)
  BY DEF Reading
<1> DEFINE zero == [d \in Devices |-> 0]
<1>2. zero \in [Devices -> Nat] OBVIOUS
<1>3. reader' = "shards" /\ shard' = 1 /\ left' = {} /\ sum' = ZeroTotals
      /\ UNCHANGED <<lastTx, tx, total>>
  BY DEF StartTotals, connVars, sampleVars
<1>4. SumFunctionOnSet(zero, Devices) = 0 BY StatsAssumption, SumZero
<1>5. TxAhead' = Devices /\ TotalAhead' = Devices
  <2>1. \A d \in Devices : ShardOf[d] > 1 \/ ShardOf[d] = 1 BY StatsAssumption
  <2> QED BY <1>3, <2>1 DEF TxAhead, TotalAhead, Ahead, Words
<1>6. \A d \in Devices : tx[d] >= 0 /\ total[d] >= 0 BY DEF TypeOK
<1> HIDE DEF zero
<1>7. \A d \in Devices : zero[d] = 0 BY DEF zero
<1>8. Snapshot(zero, zero, base)'
  BY <1>1, <1>3, <1>4, <1>5, <1>6, <1>7 DEF Snapshot, ZeroTotals
<1>9. Position' BY <1>3 DEF Position, Words
<1>10. ActiveBound' BY <1>3 DEF ActiveBound, ZeroTotals
<1> QED BY <1>2, <1>8, <1>9, <1>10 DEF Reading, zero

LEMMA ReadingOpens ==
  ASSUME TypeOK, Counts, Reading, OpenShard PROVE Reading'
<1>1. PICK cur, seen, base \in [Devices -> Nat] : Snapshot(cur, seen, base)
  BY DEF Reading
<1> DEFINE here == {d \in known : ShardOf[d] = shard}
<1>2. /\ reader = "shards" /\ shard <= NumShards /\ ReadNext(here)
      /\ sum'.tx = sum.tx /\ sum'.total = sum.total /\ sum'.active = sum.active
      /\ UNCHANGED <<lastTx, tx, total>>
  BY DEF OpenShard, connVars, sampleVars, TypeOK
<1>3. here \in SUBSET Devices /\ left = {} /\ \A d \in here : ShardOf[d] = shard
  BY <1>2 DEF TypeOK, Reading, Position, Words
<1>4. /\ Position' /\ reader' \in {"shards", "tx"}
      /\ TxAhead' = {d \in Devices : d \in here \/ ShardOf[d] > shard}
      /\ TotalAhead' = {d \in Devices : d \in here \/ ShardOf[d] > shard}
  BY <1>2, <1>3, NextPosition
<1>5. TxAhead = {d \in Devices : ShardOf[d] > shard \/ ShardOf[d] = shard}
      /\ TotalAhead = TxAhead
  BY <1>2, <1>3 DEF TxAhead, TotalAhead, Ahead, Words
\* A device that is skipped has no entry, so nothing was ever read of it.
<1>6. ASSUME NEW d \in Devices, d \notin TxAhead'
      PROVE  base[d] <= cur[d]
  <2>1. CASE d \notin TxAhead BY <1>1, <1>2, <2>1 DEF Snapshot
  <2>2. CASE d \in TxAhead
    <3>1. d \notin known BY <1>4, <1>5, <1>6, <2>2
    <3>2. tx[d] = 0 BY <3>1, UnknownIsZero
    <3>3. base[d] <= 0 BY <1>1, <3>2 DEF Snapshot
    <3> QED BY <3>3
  <2> QED BY <2>1, <2>2
<1>7. Snapshot(cur, seen, base)'
  BY <1>1, <1>2, <1>4, <1>5, <1>6 DEF Snapshot
<1>8. ActiveBound'
  <2>1. sum.active <= sum.total + 0 BY <1>2 DEF Reading, ActiveBound
  <2>2. reader' # "total" BY <1>4
  <2> QED BY <1>2, <2>1, <2>2 DEF ActiveBound
<1> QED BY <1>4, <1>7, <1>8 DEF Reading

LEMMA ReadingLoads ==
  ASSUME TypeOK, Counts, Reading, Load PROVE Reading'
<1>1. PICK cur, seen, base \in [Devices -> Nat] : Snapshot(cur, seen, base)
  BY DEF Reading
<1>2. /\ reader \in Words /\ at \in Devices /\ ShardOf[at] = shard /\ at \notin left
      /\ left \in SUBSET Devices /\ \A d \in left : ShardOf[d] = shard
      /\ shard \in Int /\ shard <= NumShards /\ NumShards \in Int
  BY StatsAssumption DEF Load, Reading, Position, TypeOK
<1>3. /\ sum.tx \in Nat /\ sum.total \in Nat /\ sum.active \in Nat
      /\ tx[at] \in Nat /\ active[at] \in Nat /\ total[at] \in Nat
      /\ UNCHANGED <<lastTx, tx, total>>
  BY <1>2 DEF TypeOK, Load, connVars, sampleVars
<1>4. Ahead = {d \in Devices : d \in left \/ ShardOf[d] > shard} /\ at \notin Ahead
  BY <1>2 DEF Ahead
<1>5. \A d \in Devices : cur[d] <= tx[d] /\ seen[d] <= total[d] /\ base[d] <= tx[d]
  BY <1>1 DEF Snapshot
<1>6. CASE reader = "tx"
  <2>1. /\ sum'.tx = sum.tx + tx[at] /\ sum'.total = sum.total /\ sum'.active = sum.active
        /\ reader' = "active" /\ UNCHANGED <<shard, left, at>>
    BY <1>6 DEF Load, Word, AfterLoad, TypeOK
  <2>2. cur[at] = 0 BY <1>1, <1>2, <1>6 DEF Snapshot, TxAhead
  <2>3. PICK new \in [Devices -> Nat] :
          new[at] = tx[at] /\ \A d \in Devices \ {at} : new[d] = cur[d]
    <3>1. [cur EXCEPT ![at] = tx[at]] \in [Devices -> Nat] BY <1>2, <1>3
    <3> QED BY <1>2, <3>1
  <2>4. SumFunctionOnSet(new, Devices) = SumFunctionOnSet(cur, Devices) + (new[at] - cur[at])
    <3>1. Summable(cur, Devices) /\ new[at] \in Int BY <1>3, <2>3, NatSummable
    <3> QED BY <1>2, <2>3, <3>1, SumBump
  <2>5. SumFunctionOnSet(new, Devices) = sum'.tx
    BY <1>1, <1>3, <2>1, <2>2, <2>3, <2>4 DEF Snapshot
  <2>6. Ahead' = Ahead BY <1>6, <2>1 DEF Ahead, Words
  <2>7. TxAhead' = Ahead /\ TotalAhead' = TotalAhead /\ TxAhead = Ahead \cup {at}
    BY <1>2, <1>6, <2>1, <2>6 DEF TxAhead, TotalAhead, Words, Ahead
  <2>8. ASSUME NEW d \in Devices
        PROVE  /\ new[d] <= tx[d]
               /\ d \in TxAhead' => new[d] = 0
               /\ d \in TotalAhead' => seen[d] = 0
               /\ d \notin TxAhead' => base[d] <= new[d]
    <3>1. d \in TotalAhead => seen[d] = 0 BY <1>1, <1>6 DEF Snapshot
    <3>2. d # at => /\ d \in TxAhead => cur[d] = 0
                    /\ d \notin TxAhead => base[d] <= cur[d]
      BY <1>1, <1>6 DEF Snapshot
    <3>3. CASE d = at BY <1>3, <1>4, <1>5, <2>3, <2>7, <3>1, <3>3
    <3>4. CASE d # at BY <1>5, <2>3, <2>7, <3>1, <3>2, <3>4
    <3> QED BY <3>3, <3>4
  <2>9. Snapshot(new, seen, base)' BY <1>1, <1>3, <1>5, <2>1, <2>5, <2>8 DEF Snapshot
  <2>10. Position' BY <1>2, <2>1 DEF Position, Words
  <2>11. ActiveBound' BY <1>6, <2>1 DEF Reading, ActiveBound
  <2> QED BY <2>3, <2>9, <2>10, <2>11 DEF Reading
<1>7. CASE reader = "active"
  <2>1. /\ sum'.tx = sum.tx /\ sum'.total = sum.total /\ sum'.active = sum.active + active[at]
        /\ reader' = "total" /\ UNCHANGED <<shard, left, at>>
    BY <1>7 DEF Load, Word, AfterLoad, TypeOK
  <2>2. TxAhead' = TxAhead /\ TotalAhead' = TotalAhead
    BY <1>7, <2>1 DEF TxAhead, TotalAhead, Ahead, Words
  <2>3. Snapshot(cur, seen, base)' BY <1>1, <1>3, <1>7, <2>1, <2>2 DEF Snapshot
  <2>4. Position' BY <1>2, <2>1 DEF Position, Words
  <2>5. active[at] <= total[at] BY <1>2, ActiveWithinTotal
  <2>6. sum.active <= sum.total + 0 BY <1>7 DEF Reading, ActiveBound
  <2>7. sum.active + active[at] <= sum.total + total[at] BY <1>3, <2>5, <2>6
  <2>8. ActiveBound' BY <1>3, <2>1, <2>7 DEF ActiveBound
  <2> QED BY <2>3, <2>4, <2>8 DEF Reading
<1>8. CASE reader = "total"
  <2>1. /\ sum'.tx = sum.tx /\ sum'.total = sum.total + total[at] /\ sum'.active = sum.active
        /\ ReadNext(left)
    BY <1>8 DEF Load, Word, AfterLoad, TypeOK
  <2>2. seen[at] = 0 BY <1>1, <1>2, <1>8 DEF Snapshot, TotalAhead
  <2>3. PICK new \in [Devices -> Nat] :
          new[at] = total[at] /\ \A d \in Devices \ {at} : new[d] = seen[d]
    <3>1. [seen EXCEPT ![at] = total[at]] \in [Devices -> Nat] BY <1>2, <1>3
    <3> QED BY <1>2, <3>1
  <2>4. SumFunctionOnSet(new, Devices) = SumFunctionOnSet(seen, Devices) + (new[at] - seen[at])
    <3>1. Summable(seen, Devices) /\ new[at] \in Int BY <1>3, <2>3, NatSummable
    <3> QED BY <1>2, <2>3, <3>1, SumBump
  <2>5. SumFunctionOnSet(new, Devices) = sum'.total
    BY <1>1, <1>3, <2>1, <2>2, <2>3, <2>4 DEF Snapshot
  <2>6. /\ Position' /\ reader' \in {"shards", "tx"}
        /\ TxAhead' = Ahead /\ TotalAhead' = Ahead
    BY <1>2, <1>4, <2>1, NextPosition
  <2>7. TxAhead = Ahead /\ TotalAhead = Ahead \cup {at}
    BY <1>2, <1>8 DEF TxAhead, TotalAhead, Words, Ahead
  <2>8. ASSUME NEW d \in Devices
        PROVE  /\ new[d] <= total[d]
               /\ d \in TxAhead' => cur[d] = 0
               /\ d \in TotalAhead' => new[d] = 0
               /\ d \notin TxAhead' => base[d] <= cur[d]
    <3>1. /\ d \in TxAhead => cur[d] = 0
          /\ d \notin TxAhead => base[d] <= cur[d]
          /\ d \in TotalAhead => seen[d] = 0
      BY <1>1, <1>8 DEF Snapshot
    <3>2. CASE d = at BY <1>3, <1>4, <2>3, <2>6, <2>7, <3>1, <3>2
    <3>3. CASE d # at BY <1>5, <2>3, <2>6, <2>7, <3>1, <3>3
    <3> QED BY <3>2, <3>3
  <2>9. Snapshot(cur, new, base)' BY <1>1, <1>3, <1>5, <2>1, <2>5, <2>8 DEF Snapshot
  <2>10. ActiveBound'
    <3>1. sum.active <= sum.total + total[at] BY <1>8 DEF Reading, ActiveBound
    <3>2. reader' # "total" BY <2>6
    <3>3. sum'.active <= sum'.total + 0 BY <1>3, <2>1, <3>1
    <3> QED BY <3>2, <3>3 DEF ActiveBound
  <2> QED BY <2>3, <2>6, <2>9, <2>10 DEF Reading
<1> QED BY <1>2, <1>6, <1>7, <1>8 DEF Words

LEMMA ReadingRests ==
  ASSUME TypeOK, Reading, EndTotals \/ Status \/ \E tooSoon \in BOOLEAN : Sample(tooSoon)
  PROVE  Reading'
<1>1. PICK cur, seen, base \in [Devices -> Nat] : Snapshot(cur, seen, base)
  BY DEF Reading
<1>2. UNCHANGED <<shard, left, at, sum, tx, total>> /\ reader \notin Words /\ left = {}
  BY DEF EndTotals, Status, Sample, connVars, Reading, Position, Words
<1>3. ActiveBound'
  <2>1. reader # "total" /\ reader' # "total" BY DEF EndTotals, Status, Sample
  <2> QED BY <1>2, <2>1 DEF Reading, ActiveBound
<1>4. Position'
  BY <1>2 DEF EndTotals, Status, Sample, Position, Words
<1>5. CASE EndTotals
  <2>1. TxAhead' = TxAhead /\ TotalAhead' = TotalAhead
    BY <1>2, <1>5 DEF EndTotals, TxAhead, TotalAhead, Ahead, Words
  <2>2. lastTx' = lastTx /\ reader # "idle" BY <1>5 DEF EndTotals, sampleVars
  <2>3. Snapshot(cur, seen, base)' BY <1>1, <1>2, <2>1, <2>2 DEF Snapshot
  <2> QED BY <1>3, <1>4, <2>3 DEF Reading
<1>6. CASE reader' = "idle" /\ lastTx' = lastTx
  <2>1. Snapshot(cur, seen, base)' BY <1>1, <1>2, <1>6 DEF Snapshot
  <2> QED BY <1>3, <1>4, <2>1 DEF Reading
\* A reading that is kept becomes the base of the next.
<1>7. CASE reader' = "idle" /\ lastTx' = sum.tx
  <2>1. Snapshot(cur, seen, cur)' BY <1>1, <1>2, <1>7 DEF Snapshot
  <2> QED BY <1>3, <1>4, <2>1 DEF Reading
<1> QED BY <1>5, <1>6, <1>7 DEF Status, Sample, BaseKept, sampleVars

-----------------------------------------------------------------------------
(***************************************************************************)
(* The samples.                                                            *)
(***************************************************************************)
Sampled ==
  /\ SamplesHold(samples, sampleIdx, sampled)
  /\ ~started => sampled = <<>>
  /\ SumFunction(sampled) = lastTx - firstTx

LEMMA SumAppend ==
  ASSUME NEW seq \in Seq(Nat), NEW v \in Nat
  PROVE  SumFunction(Append(seq, v)) = SumFunction(seq) + v
<1> DEFINE n == Len(seq)
           all == Append(seq, v)
<1>1. n \in Nat /\ DOMAIN seq = 1 .. n /\ all \in Seq(Nat) /\ Len(all) = n + 1
      /\ DOMAIN all = 1 .. n + 1 /\ all[n + 1] = v /\ \A i \in 1 .. n : all[i] = seq[i]
  BY LenProperties, AppendProperties
<1> HIDE DEF n, all
<1>2. IsFiniteSet(1 .. n) BY <1>1, FS_Interval
<1>3. Summable(all, 1 .. n) /\ Summable(seq, 1 .. n)
  <2>1. \A i \in 1 .. n : seq[i] \in Nat BY <1>1, ElementOfSeq DEF n
  <2> QED BY <1>1, <1>2, <2>1 DEF Summable
<1>4. 1 .. n + 1 = (1 .. n) \cup {n + 1} /\ n + 1 \notin 1 .. n BY <1>1
<1>5. SumFunctionOnSet(all, 1 .. n + 1) = SumFunctionOnSet(all, 1 .. n) + v
  BY <1>1, <1>3, <1>4, SumAdd
<1>6. SumFunctionOnSet(all, 1 .. n) = SumFunctionOnSet(seq, 1 .. n)
  BY <1>1, <1>3, SumSame
<1>7. SumFunction(all) = SumFunctionOnSet(all, 1 .. n + 1)
      /\ SumFunction(seq) = SumFunctionOnSet(seq, 1 .. n)
  BY <1>1 DEF SumFunction
<1> QED BY <1>5, <1>6, <1>7 DEF all

\* A sample goes into the ring.
LEMMA SamplePushed ==
  ASSUME NEW ring, NEW idx, NEW seq, NEW v \in Nat, SamplesHold(ring, idx, seq)
  PROVE  SamplesHold([ring EXCEPT ![idx] = v], NextIdx(idx, SampleCap), Append(seq, v))
<1> DEFINE ring2 == [ring EXCEPT ![idx] = v]
           idx2  == NextIdx(idx, SampleCap)
           seq2  == Append(seq, v)
<1> USE DEF SamplesHold
<1>0. SampleCap \in Nat \ {0} BY StatsAssumption
<1>1. Len(seq) \in Nat /\ Len(seq2) = Len(seq) + 1 /\ seq2 \in Seq(Nat)
  BY AppendProperties, LenProperties
<1>2. HoldsEnd(ring2, idx2, SampleCap, seq2) BY <1>0, RingPush DEF SamplesHold
<1>3. idx2 \in 0 .. SampleCap - 1
      /\ idx2 = IF idx + 1 = SampleCap THEN 0 ELSE idx + 1
  BY <1>0, Around
<1>4. ASSUME NEW i \in 1 .. SampleCap, i > Len(seq2)
      PROVE  ring2[Back(idx2, i, SampleCap)] = Unset
  <2>1. i \in 2 .. SampleCap /\ i - 1 \in 1 .. SampleCap /\ i - 1 > Len(seq)
    BY <1>0, <1>1, <1>4
  <2>2. /\ Back(idx2, i, SampleCap) = Back(idx, i - 1, SampleCap)
        /\ Back(idx, i - 1, SampleCap) # idx
        /\ Back(idx, i - 1, SampleCap) \in 0 .. SampleCap - 1
    <3>1. \A k \in 2 .. SampleCap :
            /\ Back(NextIdx(idx, SampleCap), k, SampleCap) = Back(idx, k - 1, SampleCap)
            /\ Back(idx, k - 1, SampleCap) # idx
      BY <1>0, Around
    <3>2. \A k \in 1 .. SampleCap : Back(idx, k, SampleCap) \in 0 .. SampleCap - 1
      BY <1>0, Around
    <3> QED BY <2>1, <3>1, <3>2
  <2>3. ring2[Back(idx, i - 1, SampleCap)] = ring[Back(idx, i - 1, SampleCap)] BY <2>2
  <2> QED BY <2>1, <2>2, <2>3 DEF SamplesHold
<1>5. Len(seq2) < SampleCap => idx2 = Len(seq2) BY <1>0, <1>1, <1>3
<1> QED BY <1>1, <1>2, <1>3, <1>4, <1>5 DEF SamplesHold

LEMMA SampledKept ==
  ASSUME TypeOK, Reading, Sampled, NEW tooSoon \in BOOLEAN, Sample(tooSoon)
  PROVE  /\ Sampled'
         /\ samples' \in [0 .. SampleCap - 1 -> Nat \cup {Unset}]
         /\ sampleIdx' \in 0 .. SampleCap - 1 /\ sampled' \in Seq(Nat)
         /\ started' \in BOOLEAN /\ lastTx' \in Nat /\ firstTx' \in Nat /\ readings' \in Nat
<1>0. /\ sum.tx \in Nat /\ lastTx \in Nat /\ firstTx \in Nat /\ readings' \in Nat
      /\ sampled \in Seq(Nat) /\ started \in BOOLEAN
  BY DEF TypeOK, Sample
<1>1. CASE ~started
  <2>1. /\ UNCHANGED <<samples, sampleIdx, sampled>>
        /\ started' = TRUE /\ lastTx' = sum.tx /\ firstTx' = sum.tx
    BY <1>1 DEF Sample
  <2>2. sampled = <<>> BY <1>1 DEF Sampled
  <2>3. SumFunction(sampled) = 0
    <3>1. DOMAIN sampled = {} BY <2>2
    <3> QED BY <3>1, SumEmpty DEF SumFunction
  <2>4. SumFunction(sampled') = lastTx' - firstTx'
    <3>1. lastTx' - firstTx' = 0 BY <1>0, <2>1
    <3> QED BY <2>1, <2>3, <3>1
  <2>5. SamplesHold(samples, sampleIdx, sampled)'
    BY <2>1 DEF Sampled, SamplesHold, HoldsEnd, Back, Unset
  <2> QED BY <1>0, <2>1, <2>4, <2>5 DEF Sampled, TypeOK
<1>2. CASE started /\ tooSoon
  <2>1. UNCHANGED <<samples, sampleIdx, sampled, started, lastTx, firstTx>>
    BY <1>2 DEF Sample, BaseKept
  <2>2. SamplesHold(samples, sampleIdx, sampled)'
    BY <2>1 DEF Sampled, SamplesHold, HoldsEnd, Back, Unset
  <2> QED BY <1>0, <2>1, <2>2 DEF Sampled, TypeOK
<1>3. CASE started /\ ~tooSoon
  <2> DEFINE v == sum.tx - lastTx
  <2>1. /\ samples' = [samples EXCEPT ![sampleIdx] = v]
        /\ sampleIdx' = NextIdx(sampleIdx, SampleCap) /\ lastTx' = sum.tx
        /\ sampled' = Append(sampled, v) /\ UNCHANGED <<started, firstTx>>
    BY <1>3 DEF Sample
  <2>2. v \in Nat
    <3>1. sum.tx >= lastTx BY ReadingHangsTogether DEF Sample
    <3> QED BY <1>0, <3>1
  <2> HIDE DEF v
  <2>4. SamplesHold(samples', sampleIdx', sampled')
    <3>1. SamplesHold([samples EXCEPT ![sampleIdx] = v], NextIdx(sampleIdx, SampleCap),
                      Append(sampled, v))
      BY <2>2, SamplePushed DEF Sampled
    <3> QED BY <2>1, <3>1
  <2>5. SumFunction(sampled') = SumFunction(sampled) + v BY <1>0, <2>1, <2>2, SumAppend
  <2>6. SumFunction(sampled') = lastTx' - firstTx'
    <3>1. SumFunction(sampled) = lastTx - firstTx BY DEF Sampled
    <3>2. v = lastTx' - lastTx /\ lastTx' \in Nat BY <1>0, <2>1 DEF v
    <3> QED BY <1>0, <2>1, <2>5, <3>1, <3>2
  <2>7. SamplesHold(samples, sampleIdx, sampled)'
    BY <2>4 DEF SamplesHold, HoldsEnd, Back, Unset
  <2> QED BY <1>0, <1>3, <2>1, <2>4, <2>6, <2>7 DEF Sampled, SamplesHold
<1> QED BY <1>0, <1>1, <1>2, <1>3

LEMMA SamplesReadEnd == TypeOK /\ Sampled => SamplesAreNewest
<1> SUFFICES ASSUME TypeOK, Sampled PROVE SamplesAreNewest OBVIOUS
<1> DEFINE l == Len(sampled)
           n == Min({SampleCap, l})
<1>0. SampleCap \in Nat \ {0} /\ l \in Nat /\ sampled \in Seq(Nat)
      /\ sampleIdx \in 0 .. SampleCap - 1
  BY StatsAssumption, LenProperties DEF TypeOK
<1> HIDE DEF l
<1>1. n \in Nat /\ n <= SampleCap /\ n <= l /\ (n = SampleCap \/ n = l)
  <2>1. {SampleCap, l} = {SampleCap, l, l} OBVIOUS
  <2> HIDE DEF n
  <2>2. n = Min({SampleCap, l, l}) BY <2>1 DEF n
  <2> QED BY <1>0, <2>2, MinOfThree
<1> HIDE DEF n
<1>2. CASE sampleIdx = 0 /\ samples[0] = Unset
  <2>1. Back(sampleIdx, SampleCap, SampleCap) = 0 BY <1>0, <1>2 DEF Back
  <2>2. ~(SampleCap <= l)
    <3> SUFFICES ASSUME SampleCap <= l PROVE FALSE OBVIOUS
    <3>1. samples[0] = sampled[l + 1 - SampleCap]
      <4>1. \A i \in 1 .. SampleCap :
              i <= l => samples[Back(sampleIdx, i, SampleCap)] = sampled[l + 1 - i]
        BY DEF Sampled, SamplesHold, HoldsEnd, l
      <4>2. SampleCap \in 1 .. SampleCap BY <1>0
      <4>3. samples[Back(sampleIdx, SampleCap, SampleCap)] = sampled[l + 1 - SampleCap]
        BY <4>1, <4>2
      <4> QED BY <2>1, <4>3
    <3>2. l + 1 - SampleCap \in 1 .. l BY <1>0
    <3>3. sampled[l + 1 - SampleCap] \in Nat BY <1>0, <3>2, ElementOfSeq DEF l
    <3> QED BY <1>2, <3>1, <3>3 DEF Unset
  <2>3. l = 0 BY <1>0, <1>2, <2>2 DEF Sampled, SamplesHold, l
  <2>4. n = 0 BY <1>1, <2>3
  <2>5. SubSeq(sampled, l - n + 1, l) = <<>> BY <2>3, <2>4, SubSeqEmpty
  <2> QED BY <1>2, <2>5 DEF SamplesAreNewest, TrafficSamples, l, n
<1>3. CASE ~(sampleIdx = 0 /\ samples[0] = Unset)
  <2>1. Collected(samples, sampleIdx) = SubSeq(sampled, l - n + 1, l)
    BY <1>0, <1>1, CollectedIsEnd DEF Sampled, l
  <2> QED BY <1>3, <2>1 DEF SamplesAreNewest, TrafficSamples, l, n
<1> QED BY <1>2, <1>3

-----------------------------------------------------------------------------
(***************************************************************************)
(* The inductive invariant.                                                *)
(***************************************************************************)
IInv == TypeOK /\ Counts /\ RecentHolds /\ Reading /\ Sampled

LEMMA InitHolds == Init => IInv
<1> SUFFICES ASSUME Init PROVE IInv OBVIOUS
<1>0. /\ RecentCap \in Nat \ {0} /\ SampleCap \in Nat \ {0} /\ NumShards \in Nat \ {0}
      /\ \A d \in Devices : ShardOf[d] \in 1 .. NumShards
  BY StatsAssumption
<1>1. TypeOK
  <2>1. /\ pc \in [Conns -> {"none", "lookup", "create", "total", "active", "open",
                            "inactive", "bytes", "push", "done"}]
        /\ known \subseteq Devices
        /\ total \in [Devices -> Nat] /\ active \in [Devices -> Nat]
        /\ tx \in [Devices -> Nat]
    BY DEF Init
  <2>2. /\ recentIdx \in 0 .. RecentCap - 1 /\ recentLen \in 0 .. RecentCap
        /\ recent \in [0 .. RecentCap - 1 -> Conns \cup {"unset"}]
    BY <1>0 DEF Init
  <2>3. log \in Seq(Conns) /\ sampled \in Seq(Nat) BY EmptySeq DEF Init
  <2>4. /\ reader \in {"idle", "shards", "read"} \cup Words
        /\ shard \in 1 .. NumShards + 1 /\ left \subseteq Devices
        /\ reader \notin Words
    BY <1>0 DEF Init, Words
  <2>5. sum \in [tx : Nat, active : Nat, total : Nat, devices : Nat]
    BY DEF Init, ZeroTotals
  <2>6. /\ samples \in [0 .. SampleCap - 1 -> Nat \cup {Unset}]
        /\ sampleIdx \in 0 .. SampleCap - 1
    BY <1>0 DEF Init
  <2>7. started \in BOOLEAN /\ lastTx \in Nat /\ readings \in Nat /\ firstTx \in Nat
    BY DEF Init
  <2> QED BY <2>1, <2>2, <2>3, <2>4, <2>5, <2>6, <2>7 DEF TypeOK
<1>2. Counts
  <2>1. \A d \in Devices :
          Of(d, Totalled) = {} /\ Of(d, Activated) = {} /\ Of(d, Added) = {}
    BY DEF Init, Of, Totalled, Activated, Added
  <2> QED BY <2>1, FS_EmptySet, SumEmpty DEF Init, Counts, Totalled
<1>3. RecentHolds
  <2>1. log = <<>> /\ Len(log) = 0 /\ recentLen = 0 BY EmptySeq DEF Init
  <2>2. \A i \in 1 .. RecentCap : ~(i <= Len(log)) BY <1>0, <2>1
  <2> QED BY <1>0, <2>1, <2>2 DEF RecentHolds, HoldsEnd
<1>4. Reading
  <2> DEFINE zero == [d \in Devices |-> 0]
  <2>1. zero \in [Devices -> Nat] OBVIOUS
  <2>2. SumFunctionOnSet(zero, Devices) = 0 BY SumZero, StatsAssumption
  <2>3. reader = "idle" /\ left = {} /\ sum = ZeroTotals /\ lastTx = 0
        /\ tx = zero /\ total = zero
    BY DEF Init
  <2>4. \A d \in Devices : zero[d] <= tx[d] /\ zero[d] <= total[d] BY <2>3
  <2> HIDE DEF zero
  <2>5. Snapshot(zero, zero, zero) BY <2>2, <2>3, <2>4 DEF Snapshot, ZeroTotals
  <2>6. Position BY <2>3 DEF Position, Words
  <2>7. ActiveBound BY <2>3 DEF ActiveBound, ZeroTotals
  <2> QED BY <2>1, <2>5, <2>6, <2>7 DEF Reading
<1>5. Sampled
  <2>1. sampled = <<>> /\ Len(sampled) = 0 /\ sampleIdx = 0 /\ sampled \in Seq(Nat)
        /\ samples = [i \in 0 .. SampleCap - 1 |-> Unset] /\ lastTx = 0 /\ firstTx = 0
    BY EmptySeq DEF Init
  <2>2. \A i \in 1 .. SampleCap : ~(i <= Len(sampled)) BY <1>0, <2>1
  <2>3. \A i \in 1 .. SampleCap : samples[Back(sampleIdx, i, SampleCap)] = Unset
    BY <1>0, <2>1, Around
  <2>4. SamplesHold(samples, sampleIdx, sampled)
    BY <1>0, <2>1, <2>2, <2>3 DEF SamplesHold, HoldsEnd
  <2>5. SumFunction(sampled) = 0
    <3>1. DOMAIN sampled = {} BY <2>1
    <3> QED BY <3>1, SumEmpty DEF SumFunction
  <2> QED BY <2>1, <2>4, <2>5 DEF Sampled
<1> QED BY <1>1, <1>2, <1>3, <1>4, <1>5 DEF IInv

LEMMA ConnStepKeeps == ASSUME IInv, NEW c \in Conns, ConnStep(c) PROVE IInv'
<1> USE DEF IInv
<1>1. PICK q : Placed(c, q) /\ Counted(c, q) BY ConnStepMoves
<1>2. Counts' BY <1>1, CountsKept
<1>3. total' \in [Devices -> Nat] /\ active' \in [Devices -> Nat] /\ tx' \in [Devices -> Nat]
  BY <1>1, CountersAreNat
<1>4. UNCHANGED <<readerVars, sampleVars>>
  BY DEF ConnStep, Handle, Lookup, CreateDevice, AddTotal, AddActive, EndConn, SubActive,
         AddBytes, Push
<1>5. UNCHANGED <<reader, shard, left, at, sum, samples, sampleIdx, started, lastTx,
                  sampled, firstTx, readings>>
  BY <1>4 DEF readerVars, sampleVars
<1>6. Reading' BY <1>1, <1>3, <1>5, CountersGrow, ReadingOutlivesConns
<1>7. Sampled'
  BY <1>5 DEF Sampled, SamplesHold, HoldsEnd, Back, Unset
<1>8. /\ RecentHolds'
      /\ recent' \in [0 .. RecentCap - 1 -> Conns \cup {"unset"}] /\ log' \in Seq(Conns)
      /\ recentIdx' \in 0 .. RecentCap - 1 /\ recentLen' \in 0 .. RecentCap
  <2>1. CASE Push(c) BY <2>1, RecentKept
  <2>2. CASE ~Push(c)
    <3>1. UNCHANGED <<recent, recentIdx, recentLen, log>>
      BY <2>2 DEF ConnStep, Handle, Lookup, CreateDevice, AddTotal, AddActive, EndConn,
                  SubActive, AddBytes, recentVars
    <3> QED BY <3>1 DEF TypeOK, RecentHolds, HoldsEnd, Back
  <2> QED BY <2>1, <2>2
<1>9. TypeOK'
  <2>1. pc' \in [Conns -> ConnPC] /\ known' \subseteq Devices
    BY <1>1 DEF TypeOK, Placed, Goto, ConnPC
  <2> QED BY <1>3, <1>5, <1>8, <2>1 DEF TypeOK, ConnPC, Words
<1> QED BY <1>2, <1>6, <1>7, <1>8, <1>9

\* Adding a natural number to one field of the Totals keeps their type.
LEMMA FieldGrows ==
  ASSUME NEW s \in [tx : Nat, active : Nat, total : Nat, devices : Nat], NEW n \in Nat
  PROVE  /\ [s EXCEPT !.tx = @ + n] \in [tx : Nat, active : Nat, total : Nat, devices : Nat]
         /\ [s EXCEPT !.active = @ + n] \in [tx : Nat, active : Nat, total : Nat, devices : Nat]
         /\ [s EXCEPT !.total = @ + n] \in [tx : Nat, active : Nat, total : Nat, devices : Nat]
         /\ [s EXCEPT !.devices = @ + n] \in [tx : Nat, active : Nat, total : Nat, devices : Nat]
<1>1. s.tx + n \in Nat /\ s.active + n \in Nat /\ s.total + n \in Nat /\ s.devices + n \in Nat
  OBVIOUS
<1> QED BY <1>1

\* What the reader writes keeps its type.
LEMMA ReaderTyped ==
  ASSUME TypeOK, Reading, StartTotals \/ OpenShard \/ Load
  PROVE  /\ reader' \in {"shards", "tx", "active", "total"}
         /\ shard' \in 1 .. NumShards + 1 /\ left' \subseteq Devices
         /\ reader' \in Words => at' \in Devices
         /\ sum' \in [tx : Nat, active : Nat, total : Nat, devices : Nat]
<1>0. NumShards \in Nat \ {0} /\ \A d \in Devices : ShardOf[d] \in 1 .. NumShards
  BY StatsAssumption
<1>1. CASE StartTotals BY <1>0, <1>1 DEF StartTotals, ZeroTotals, Words
<1>2. CASE OpenShard
  <2> DEFINE here == {d \in known : ShardOf[d] = shard}
  <2>1. /\ reader = "shards" /\ shard <= NumShards /\ ReadNext(here)
        /\ sum' = [sum EXCEPT !.devices = @ + Cardinality(here)]
    BY <1>2 DEF OpenShard
  <2>2. here \in SUBSET Devices /\ left = {} /\ \A d \in here : ShardOf[d] = shard
    BY <2>1 DEF TypeOK, Reading, Position, Words
  <2>3. Cardinality(here) \in Nat BY <2>2, StatsAssumption, FS_Subset, FS_CardinalityType
  <2> HIDE DEF here
  <2>4. sum' \in [tx : Nat, active : Nat, total : Nat, devices : Nat]
    BY <2>1, <2>3, FieldGrows DEF TypeOK
  <2> QED BY <2>1, <2>2, <2>4, NextPosition
<1>3. CASE Load
  <2>1. /\ reader \in Words /\ at \in Devices /\ shard <= NumShards
        /\ left \in SUBSET Devices /\ \A d \in left : ShardOf[d] = shard
    BY <1>0, <1>3 DEF Load, TypeOK, Reading, Position
  <2>2. sum' \in [tx : Nat, active : Nat, total : Nat, devices : Nat]
    <3>1. Word(reader)[at] \in Nat BY <2>1 DEF Word, Words, TypeOK
    <3>2. PICK n \in Nat : n = Word(reader)[at] BY <3>1
    <3>3. sum \in [tx : Nat, active : Nat, total : Nat, devices : Nat] BY DEF TypeOK
    <3>4. sum' = [sum EXCEPT ![reader] = @ + n] BY <1>3, <3>2 DEF Load
    <3>5. CASE reader = "tx"
      <4>1. sum' = [sum EXCEPT !.tx = @ + n] BY <3>4, <3>5
      <4> QED BY <3>3, <4>1, FieldGrows
    <3>6. CASE reader = "active"
      <4>1. sum' = [sum EXCEPT !.active = @ + n] BY <3>4, <3>6
      <4> QED BY <3>3, <4>1, FieldGrows
    <3>7. CASE reader = "total"
      <4>1. sum' = [sum EXCEPT !.total = @ + n] BY <3>4, <3>7
      <4> QED BY <3>3, <4>1, FieldGrows
    <3> QED BY <2>1, <3>5, <3>6, <3>7 DEF Words
  <2>3. CASE AfterLoad(reader) = "next"
    <3>1. ReadNext(left) BY <1>3, <2>3 DEF Load
    <3> QED BY <2>1, <2>2, <3>1, NextPosition
  <2>4. CASE AfterLoad(reader) # "next"
    BY <1>3, <2>1, <2>2, <2>4 DEF Load, AfterLoad, Words, TypeOK
  <2> QED BY <2>3, <2>4
<1> QED BY <1>1, <1>2, <1>3

LEMMA ReaderStepKeeps == ASSUME IInv, ReaderStep PROVE IInv'
<1> USE DEF IInv
<1>1. UNCHANGED <<connVars, recentVars>>
  BY DEF ReaderStep, StartTotals, OpenShard, Load, EndTotals, Status, Sample
<1>2. UNCHANGED <<pc, known, total, active, tx, recent, recentIdx, recentLen, log>>
  BY <1>1 DEF connVars, recentVars
<1>3. Counts' BY <1>2 DEF Counts, Of
<1>4. RecentHolds' BY <1>2 DEF RecentHolds, HoldsEnd, Back
<1>5. Reading'
  BY ReadingStarts, ReadingOpens, ReadingLoads, ReadingRests DEF ReaderStep
<1>6. /\ Sampled'
      /\ samples' \in [0 .. SampleCap - 1 -> Nat \cup {Unset}]
      /\ sampleIdx' \in 0 .. SampleCap - 1 /\ sampled' \in Seq(Nat)
      /\ started' \in BOOLEAN /\ lastTx' \in Nat /\ firstTx' \in Nat /\ readings' \in Nat
  <2>1. CASE \E tooSoon \in BOOLEAN : Sample(tooSoon) BY <2>1, SampledKept
  <2>2. CASE ~\E tooSoon \in BOOLEAN : Sample(tooSoon)
    <3>1. UNCHANGED sampleVars
      BY <2>2 DEF ReaderStep, StartTotals, OpenShard, Load, EndTotals, Status
    <3>2. UNCHANGED <<samples, sampleIdx, started, lastTx, sampled, firstTx, readings>>
      BY <3>1 DEF sampleVars
    <3> QED BY <3>2 DEF TypeOK, Sampled, SamplesHold, HoldsEnd, Back, Unset
  <2> QED BY <2>1, <2>2
<1>7. /\ reader' \in {"idle", "shards", "read"} \cup Words
      /\ shard' \in 1 .. NumShards + 1 /\ left' \subseteq Devices
      /\ reader' \in Words => at' \in Devices
      /\ sum' \in [tx : Nat, active : Nat, total : Nat, devices : Nat]
  <2>1. CASE StartTotals \/ OpenShard \/ Load BY <2>1, ReaderTyped DEF Words
  <2>2. CASE ~(StartTotals \/ OpenShard \/ Load)
    <3>1. /\ UNCHANGED <<shard, left, at, sum>> /\ reader' \in {"idle", "read"}
      BY <2>2 DEF ReaderStep, EndTotals, Status, Sample
    <3> QED BY <3>1 DEF TypeOK, Words
  <2> QED BY <2>1, <2>2
<1>8. TypeOK' BY <1>2, <1>6, <1>7 DEF TypeOK, Words
<1> QED BY <1>3, <1>4, <1>5, <1>6, <1>8

LEMMA Inductive == IInv /\ [Next]_vars => IInv'
<1> SUFFICES ASSUME IInv, [Next]_vars PROVE IInv' OBVIOUS
<1>1. CASE UNCHANGED vars
  <2>1. UNCHANGED <<pc, known, total, active, tx, recent, recentIdx, recentLen, log,
                    reader, shard, left, at, sum, samples, sampleIdx, started, lastTx,
                    sampled, firstTx, readings>>
    BY <1>1 DEF vars, connVars, recentVars, readerVars, sampleVars
  <2>2. TypeOK' BY <2>1 DEF IInv, TypeOK, Words
  <2>3. Counts' BY <2>1 DEF IInv, Counts, Of
  <2>4. RecentHolds' BY <2>1 DEF IInv, RecentHolds, HoldsEnd, Back
  <2>5. Reading' BY <2>1 DEF IInv, Reading, Position, ActiveBound, Snapshot, TxAhead,
                             TotalAhead, Ahead, Words
  <2>6. Sampled' BY <2>1 DEF IInv, Sampled, SamplesHold, HoldsEnd, Back, Unset
  <2> QED BY <2>2, <2>3, <2>4, <2>5, <2>6 DEF IInv
<1> QED BY <1>1, ConnStepKeeps, ReaderStepKeeps DEF Next

LEMMA Invariant == Spec => []IInv
<1> QED BY InitHolds, Inductive, PTL DEF Spec

-----------------------------------------------------------------------------
(***************************************************************************)
(* The theorems.                                                           *)
(***************************************************************************)
\* Every variable keeps its type: no counter falls below zero, no index leaves
\* its ring, no sample is negative (stats.go).
THEOREM TypeCorrect == Spec => []TypeOK
<1>1. IInv => TypeOK BY DEF IInv
<1> QED BY <1>1, Invariant, PTL

\* However many handlers of one device begin at once, each is counted: the entry
\* is made once (stats.go device).
THEOREM NoneIsForgotten == Spec => []NoUpdateLost
<1>1. IInv => NoUpdateLost
  BY DEF IInv, Counts, NoUpdateLost, Of, Totalled, Activated, Added
<1> QED BY <1>1, Invariant, PTL

\* Whatever handlers do while Totals reads, it never reports more active
\* connections than ever opened, nor traffic there has not been (stats.go
\* Totals).
THEOREM PassHangsTogether == Spec => []TotalsHangTogether
<1>1. IInv => TotalsHangTogether
  BY ReadingHangsTogether DEF IInv, TotalsHangTogether
<1> QED BY <1>1, Invariant, PTL

\* Of each device a pass reads at least what the pass before had read, so the
\* unsigned difference of their sums does not wrap around (stats.go sample).
THEOREM RatesAreNatural == Spec => []RateNeverWraps
<1>1. IInv => RateNeverWraps
  BY ReadingHangsTogether DEF IInv, RateNeverWraps
<1> QED BY <1>1, Invariant, PTL

\* No traffic is lost between two samples or counted in both (stats.go sample).
THEOREM NothingIsSkipped == Spec => []SamplesAddUp
<1>1. IInv => SamplesAddUp BY DEF IInv, Sampled, SamplesAddUp
<1> QED BY <1>1, Invariant, PTL

\* Recent returns the newest connections, newest first, for a ring of any size
\* and any history (stats.go RecordConn, Recent).
THEOREM RecentIsEndOfLog == Spec => []RecentIsNewest
<1>1. IInv => RecentIsNewest BY RecentReadsEnd DEF IInv
<1> QED BY <1>1, Invariant, PTL

\* TrafficSamples returns the newest samples, oldest first, for a ring of any
\* size and any history (stats.go sample, TrafficSamples).
THEOREM SamplesAreEndOfLog == Spec => []SamplesAreNewest
<1>1. IInv => SamplesAreNewest BY SamplesReadEnd DEF IInv
<1> QED BY <1>1, Invariant, PTL
=============================================================================
