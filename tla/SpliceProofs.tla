---------------------------- MODULE SpliceProofs ----------------------------
(***************************************************************************)
(* Proofs about Splice, for every idle limit, window and number of chunks, *)
(* and both kinds of upstream connection.                                  *)
(***************************************************************************)
EXTENDS Splice, TLAPS

(***************************************************************************)
(* What the position of a goroutine says about its counts.  A goroutine    *)
(* that has left its loop holds a chunk it could not deliver only if its   *)
(* destination reset; without a reset and a deadline it left at the end of *)
(* the stream.                                                             *)
(***************************************************************************)
Ended(d) == pc[d] \in {"shut", "done"}

CopyInv ==
  \A d \in Directions :
    /\ consumed[d] <= put[d] /\ total[d] <= sent[d]
    /\ pc[d] = "read"  => total[d] = put[d]
    /\ pc[d] = "write" => total[d] = put[d] + 1
    /\ Ended(d) => total[d] = put[d] \/ (total[d] = put[d] + 1 /\ reset[Dst(d)])
    /\ Ended(d) /\ ~timedOut[d] =>
         (fin[d] /\ total[d] = sent[d]) \/ \E p \in Peers : reset[p]

IInv == TypeOK /\ CopyInv

LEMMA PeersOf == \A d \in Directions : Src(d) \in Peers /\ Dst(d) \in Peers
BY DEF Src, Dst, Peers, Directions

LEMMA InitInv == Init => IInv
<1> SUFFICES ASSUME Init PROVE IInv
  OBVIOUS
<1>1. closed \in BOOLEAN
  BY Zenon DEF Init
<1> QED
  BY <1>1, SpliceAssumption DEF Init, IInv, TypeOK, CopyInv, Ended

LEMMA NextInv == IInv /\ [Next]_vars => IInv'
<1> SUFFICES ASSUME IInv, [Next]_vars PROVE IInv'
  OBVIOUS
<1> USE SpliceAssumption, PeersOf DEF IInv, TypeOK, CopyInv, Ended, peerVars, copyVars
<1>1. CASE Tick
  BY <1>1 DEF Tick, Waiting
<1>2. ASSUME NEW p \in Peers, Reset(p) PROVE IInv'
  BY <1>2 DEF Reset
<1>3. ASSUME NEW d \in Directions, Send(d) PROVE IInv'
  BY <1>3 DEF Send
<1>4. ASSUME NEW d \in Directions, EndStream(d) PROVE IInv'
  BY <1>4 DEF EndStream
<1>5. ASSUME NEW d \in Directions, Consume(d) PROVE IInv'
  BY <1>5 DEF Consume
<1>6. ASSUME NEW d \in Directions, Read(d) PROVE IInv'
  BY <1>6 DEF Read, Goto
<1>7. ASSUME NEW d \in Directions, Write(d) PROVE IInv'
  BY <1>7 DEF Write, Goto
<1>8. ASSUME NEW d \in Directions, ReadFails(d) PROVE IInv'
  BY <1>8 DEF ReadFails, Drained, Goto
<1>9. ASSUME NEW d \in Directions, ReadTimesOut(d) PROVE IInv'
  BY <1>9 DEF ReadTimesOut, Goto
<1>10. ASSUME NEW d \in Directions, WriteFails(d) PROVE IInv'
  BY <1>10 DEF WriteFails, Goto
<1>11. ASSUME NEW d \in Directions, Shut(d) PROVE IInv'
  BY <1>11 DEF Shut, Goto, HasCloseWrite
<1>12. CASE Close
  BY <1>12 DEF Close
<1>13. CASE UNCHANGED vars
  BY <1>13 DEF vars
<1> QED
  BY <1>1, <1>2, <1>3, <1>4, <1>5, <1>6, <1>7, <1>8, <1>9, <1>10, <1>11, <1>12, <1>13
     DEF Next, CopyStep

LEMMA Inductive == Spec => []IInv
BY InitInv, NextInv, PTL DEF Spec

-----------------------------------------------------------------------------
\* Every count stays within the chunks that were sent and the idle time within
\* its limit (relay.go bidirectionalCopy).
THEOREM TypeCorrect == Spec => []TypeOK
BY Inductive, PTL DEF IInv

\* A stream that ended by itself arrived whole, for streams of any length
\* (relay.go copyWithTimeout).
THEOREM NothingIsLost == Spec => []NothingLost
<1>1. IInv => NothingLost
  <2> SUFFICES ASSUME IInv, NEW d \in Directions, Ended(d), ~timedOut[d],
                      \A p \in Peers : ~reset[p]
               PROVE  fin[d] /\ put[d] = sent[d]
    BY DEF NothingLost, Ended
  <2>1. fin[d] /\ total[d] = sent[d]
    BY DEF IInv, CopyInv
  <2>2. total[d] = put[d]
    BY PeersOf DEF IInv, CopyInv
  <2> QED
    BY <2>1, <2>2
<1> QED
  BY <1>1, Inductive, PTL

\* The counted bytes are those delivered, up to one buffer whose Write a reset
\* made fail (relay.go:291).
THEOREM CountsAreHonest == Spec => []CountsDelivered
<1>1. IInv => CountsDelivered
  <2> SUFFICES ASSUME IInv, NEW d \in Directions
               PROVE  /\ put[d] <= total[d] /\ total[d] <= put[d] + 1
                      /\ (pc[d] \in {"shut", "done"} /\ total[d] > put[d]) => reset[Dst(d)]
    BY DEF CountsDelivered
  <2>1. put[d] \in Nat /\ total[d] \in Nat
    BY SpliceAssumption DEF IInv, TypeOK
  <2>2. pc[d] \in {"read", "write", "shut", "done"}
    BY DEF IInv, TypeOK
  <2> QED
    BY <2>1, <2>2 DEF IInv, CopyInv, Ended
<1> QED
  BY <1>1, Inductive, PTL
=============================================================================
