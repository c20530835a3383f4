---------------------------- MODULE RelayProofs ----------------------------
(***************************************************************************)
(* Proofs about Relay, for any number of connections, any limit, with and  *)
(* without the fallback.  What keeps the counters right is that each       *)
(* counts the connections at certain places of handleConn: the invariant   *)
(* says which.                                                             *)
(***************************************************************************)
EXTENDS Relay, Sums

\* Between `r.activeConns.Add(1)` and its deferred counterpart.
Counted == HandlerPC \ {"spawned", "closeClient", "wgDone"}

Bit(p) == IF p THEN 1 ELSE 0

Counts ==
  /\ activeConns = Cardinality(In(Counted))
  /\ wg = Cardinality(In(HandlerPC)) + Bit(acceptor # "returned")
  /\ openConns = Cardinality(In(Opened))
  /\ totalConns = Cardinality(In(Opened \cup Settled))

\* Which sockets a handler holds, and how its connection was served, follows
\* from where it is.
Where ==
  \A c \in Conns :
    /\ pc[c] \in {"none", "backlog", "refused", "reset", "wgDone", "done"} => socks[c] = {}
    /\ pc[c] \in {"held", "spawned", "counted", "dial", "direct", "uncount",
                  "closeClient"} => socks[c] = {"client"}
    /\ pc[c] = "handshake" => socks[c] = {"client", "proxy"}
    /\ pc[c] \in {"copy", "closeUp"} =>
         kind[c] \in {"proxy", "direct"} /\ socks[c] = {"client", kind[c]}
    /\ pc[c] \in {"record", "push"} =>
         \/ kind[c] = "failed" /\ socks[c] = {"client"}
         \/ kind[c] \in {"proxy", "direct"} /\ socks[c] = {"client", kind[c]}
    /\ kind[c] = "failed" =>
         pc[c] \in {"record", "push", "uncount", "closeClient", "wgDone", "done"}

\* The accept loop holds one connection at most, and none between two rounds.
\* Stop leaves no connection in the queue, and returns when nobody is counted.
Loop ==
  /\ \A c, d \in Conns : pc[c] = "held" /\ pc[d] = "held" => c = d
  /\ acceptor \in {"accept", "returned"} => \A c \in Conns : pc[c] # "held"
  /\ listening \/ \A c \in Conns : pc[c] # "backlog"
  /\ stop \in {"wait", "returned"} => ~listening
  /\ stop = "returned" => wg = 0

IInv == TypeOK /\ Where /\ Loop /\ Counts

-----------------------------------------------------------------------------
(***************************************************************************)
(* Counting.                                                               *)
(***************************************************************************)
LEMMA InIsFinite ==
  ASSUME NEW S
  PROVE  IsFiniteSet(In(S)) /\ Cardinality(In(S)) \in Nat
BY RelayAssumption, FS_Subset, FS_CardinalityType DEF In

\* One connection goes from one place to another.
LEMMA Move ==
  ASSUME pc \in [Conns -> ConnPC], NEW c \in Conns, NEW q, Goto(c, q), NEW S
  PROVE  Cardinality(In(S)') = Cardinality(In(S)) + Bit(q \in S) - Bit(pc[c] \in S)
<1> DEFINE A == In(S)
           B == In(S)'
<1>0. /\ IsFiniteSet(A) /\ Cardinality(A) \in Nat
  BY InIsFinite
<1>1. CASE q \in S /\ pc[c] \notin S
  <2>1. B = A \cup {c} /\ c \notin A BY <1>1 DEF In, Goto
  <2>2. Cardinality(B) = Cardinality(A) + 1 BY <1>0, <2>1, FS_AddElement
  <2> QED BY <1>0, <1>1, <2>2 DEF Bit
<1>2. CASE q \notin S /\ pc[c] \in S
  <2>1. B = A \ {c} /\ c \in A BY <1>2 DEF In, Goto
  <2>2. Cardinality(B) = Cardinality(A) - 1 BY <1>0, <2>1, FS_RemoveElement
  <2> QED BY <1>0, <1>2, <2>2 DEF Bit
<1>3. CASE q \in S <=> pc[c] \in S
  <2>1. B = A BY <1>3 DEF In, Goto
  <2> QED BY <1>0, <1>3, <2>1 DEF Bit
<1> QED BY <1>1, <1>2, <1>3

\* What a move does to the four sets the counters are about.
Placed(c, q, S) == Cardinality(In(S)') = Cardinality(In(S)) + Bit(q \in S) - Bit(pc[c] \in S)

LEMMA Moves ==
  ASSUME pc \in [Conns -> ConnPC], NEW c \in Conns, NEW q, Goto(c, q)
  PROVE  /\ Placed(c, q, Counted) /\ Placed(c, q, HandlerPC)
         /\ Placed(c, q, Opened) /\ Placed(c, q, Opened \cup Settled)
BY Move DEF Placed

LEMMA CountersAreNat ==
  ASSUME Counts
  PROVE  activeConns \in Nat /\ wg \in Nat /\ openConns \in Nat /\ totalConns \in Nat
BY InIsFinite DEF Counts, Bit

-----------------------------------------------------------------------------
LEMMA InitHolds == Init => IInv
<1> SUFFICES ASSUME Init PROVE IInv OBVIOUS
<1> USE DEF Init
<1>1. TypeOK BY RelayAssumption DEF TypeOK, ConnPC
<1>2. Where BY DEF Where
<1>3. Loop BY DEF Loop
<1>4. /\ In(Counted) = {} /\ In(HandlerPC) = {} /\ In(Opened) = {}
      /\ In(Opened \cup Settled) = {}
  BY DEF In, Counted, HandlerPC, Opened, Settled
<1>5. Counts
  <2>1. Bit(acceptor # "returned") = 1 BY DEF Bit
  <2>2. activeConns = 0 /\ wg = 1 /\ openConns = 0 /\ totalConns = 0 OBVIOUS
  <2>3. Cardinality({}) = 0 BY FS_EmptySet
  <2> HIDE DEF Init
  <2> QED BY <1>4, <2>1, <2>2, <2>3 DEF Counts
<1> QED BY <1>1, <1>2, <1>3, <1>5 DEF IInv

-----------------------------------------------------------------------------
(***************************************************************************)
(* The accept loop's steps.                                                *)
(***************************************************************************)
LEMMA LoopStepKeeps == IInv /\ (LoopStep \/ StopBegins) => IInv'
<1> SUFFICES ASSUME IInv, LoopStep \/ StopBegins PROVE IInv' OBVIOUS
<1> USE DEF IInv, TypeOK, connVars, acceptVars, counterVars, statVars
<1>1. CASE AcceptorReturns
  <2> USE <1>1 DEF AcceptorReturns
  <2>0. wg = Cardinality(In(HandlerPC)) + 1 BY DEF Counts, Bit
  <2>1. Counts'
    <3>1. \A S : In(S)' = In(S) BY DEF In
    <3> QED BY <2>0, <3>1, InIsFinite DEF Counts, Bit
  <2>2. TypeOK'
    <3>1. wg' = wg - 1 OBVIOUS
    <3>2. Cardinality(In(HandlerPC)) \in Nat BY InIsFinite
    <3>3. wg' \in Nat
      <4> HIDE DEF IInv, TypeOK
      <4> QED BY <2>0, <3>1, <3>2
    <3> QED BY <3>3
  <2>3. Where' BY DEF Where
  <2>4. stop # "returned" BY InIsFinite DEF Loop, Counts, Bit
  <2>5. Loop' BY <2>4 DEF Loop
  <2> QED BY <2>1, <2>2, <2>3, <2>5
<1>2. CASE CheckCap
  <2>1. \A S : In(S)' = In(S) BY <1>2 DEF CheckCap, In
  <2>2. Counts' BY <1>2, <2>1 DEF CheckCap, Counts, Bit
  <2>3. TypeOK' BY <1>2 DEF CheckCap
  <2>4. Where' BY <1>2 DEF CheckCap, Where
  <2>5. Loop' BY <1>2 DEF CheckCap, Loop
  <2> QED BY <2>2, <2>3, <2>4, <2>5
<1>3. CASE CloseListener
  <2> USE <1>3 DEF CloseListener
  <2>1. /\ In(Counted)' = In(Counted) /\ In(HandlerPC)' = In(HandlerPC)
        /\ In(Opened)' = In(Opened) /\ In(Opened \cup Settled)' = In(Opened \cup Settled)
    BY DEF In, Counted, HandlerPC, Opened, Settled
  <2>2. Counts' BY <2>1 DEF Counts
  <2>3. TypeOK'
    <3>1. pc' \in [Conns -> ConnPC] BY DEF ConnPC
    <3>2. listening' \in BOOLEAN /\ closed' \in BOOLEAN OBVIOUS
    <3> QED BY <3>1, <3>2
  <2>4. Where' BY DEF Where
  <2>5. Loop' BY DEF Loop
  <2> QED BY <2>2, <2>3, <2>4, <2>5
<1>4. CASE StopReturns \/ StopBegins
  <2> USE <1>4 DEF StopReturns, StopBegins
  <2>1. \A S : In(S)' = In(S) BY DEF In
  <2>2. Counts' BY <2>1 DEF Counts
  <2>3. TypeOK' OBVIOUS
  <2>4. Where' BY DEF Where
  <2>5. Loop' BY DEF Loop
  <2> QED BY <2>2, <2>3, <2>4, <2>5
<1> QED BY <1>1, <1>2, <1>3, <1>4 DEF LoopStep

-----------------------------------------------------------------------------
(***************************************************************************)
(* The steps of one connection.                                            *)
(***************************************************************************)
ConnStep(c) == OwnStep(c) \/ DialEnds(c) \/ PeerStep(c)

\* Nobody moves a connection of a relay that has stopped, but for those whose
\* client never came.
LEMMA StoppedIsQuiet ==
  IInv /\ stop = "returned" =>
    /\ acceptor = "returned" /\ wg = 0 /\ ~listening
    /\ \A c \in Conns : pc[c] \notin HandlerPC
<1> SUFFICES ASSUME IInv, stop = "returned"
             PROVE  /\ acceptor = "returned" /\ wg = 0 /\ ~listening
                    /\ \A c \in Conns : pc[c] \notin HandlerPC
  OBVIOUS
<1> USE DEF IInv
<1>1. wg = 0 /\ ~listening BY DEF Loop
<1>2. Cardinality(In(HandlerPC)) \in Nat /\ IsFiniteSet(In(HandlerPC)) BY InIsFinite
<1>3. Cardinality(In(HandlerPC)) = 0 /\ acceptor = "returned"
  BY <1>1, <1>2 DEF Counts, Bit
<1>4. In(HandlerPC) = {} BY <1>2, <1>3, FS_EmptySet
<1> QED BY <1>1, <1>3, <1>4 DEF In

\* Every step of a connection takes it to another place.
LEMMA ConnStepMoves ==
  ASSUME NEW c \in Conns, ConnStep(c)
  PROVE  \E q \in ConnPC : Goto(c, q)
BY DEF ConnStep, OwnStep, DialEnds, PeerStep, Accept, Refuse, Spawn, Count, OpenConn,
       RecordCounters, RecordPush, CloseUpstream, Uncount, CloseClient, WgDone,
       ProxyConnects, ProxyUnreachable, DirectConnects, DirectFails, Connect,
       ProxyAgrees, ProxyRefuses, CopyEnds, AfterProxyFailed, AfterRecord, ConnPC, HandlerPC

LEMMA WhereKept == ASSUME IInv, NEW c \in Conns, ConnStep(c) PROVE Where'
<1> USE DEF IInv, TypeOK, Where, Goto, Hold, Drop, connVars
<1>1. CASE OwnStep(c)
  <2>1. CASE Accept(c) BY <2>1 DEF Accept
  <2>2. CASE Refuse(c) BY <2>2 DEF Refuse
  <2>3. CASE Spawn(c) BY <2>3 DEF Spawn
  <2>4. CASE Count(c) BY <2>4 DEF Count
  <2>5. CASE OpenConn(c) BY <2>5 DEF OpenConn
  <2>6. CASE RecordCounters(c) BY <2>6 DEF RecordCounters
  <2>7. CASE RecordPush(c) BY <2>7 DEF RecordPush, AfterRecord
  <2>8. CASE CloseUpstream(c) BY <2>8 DEF CloseUpstream
  <2>9. CASE Uncount(c) BY <2>9 DEF Uncount
  <2>10. CASE CloseClient(c) BY <2>10 DEF CloseClient
  <2>11. CASE WgDone(c) BY <2>11 DEF WgDone
  <2> QED BY <1>1, <2>1, <2>2, <2>3, <2>4, <2>5, <2>6, <2>7, <2>8, <2>9, <2>10, <2>11
          DEF OwnStep
<1>2. CASE DialEnds(c)
  <2>1. CASE ProxyConnects(c) BY <2>1 DEF ProxyConnects
  <2>2. CASE ProxyUnreachable(c) BY <2>2 DEF ProxyUnreachable, AfterProxyFailed
  <2>3. CASE DirectConnects(c) BY <2>3 DEF DirectConnects
  <2>4. CASE DirectFails(c) BY <2>4 DEF DirectFails
  <2> QED BY <1>2, <2>1, <2>2, <2>3, <2>4 DEF DialEnds
<1>3. CASE PeerStep(c)
  <2>1. CASE Connect(c) BY <2>1 DEF Connect
  <2>2. CASE ProxyAgrees(c) BY <2>2 DEF ProxyAgrees
  <2>3. CASE ProxyRefuses(c) BY <2>3 DEF ProxyRefuses, AfterProxyFailed
  <2>4. CASE CopyEnds(c) BY <2>4 DEF CopyEnds
  <2> QED BY <1>3, <2>1, <2>2, <2>3, <2>4 DEF PeerStep
<1> QED BY <1>1, <1>2, <1>3 DEF ConnStep

LEMMA LoopKept == ASSUME IInv, NEW c \in Conns, ConnStep(c) PROVE Loop'
<1> USE DEF IInv, TypeOK
<1>1. CASE stop = "returned"
  <2>1. /\ acceptor = "returned" /\ wg = 0 /\ ~listening
        /\ \A d \in Conns : pc[d] \notin HandlerPC
    BY <1>1, StoppedIsQuiet
  <2>2. pc[c] # "held" BY <2>1 DEF Loop
  <2> QED BY <2>1, <2>2
          DEF ConnStep, OwnStep, DialEnds, PeerStep, Accept, Refuse, Spawn, Count, OpenConn,
              RecordCounters, RecordPush, CloseUpstream, Uncount, CloseClient, WgDone,
              ProxyConnects, ProxyUnreachable, DirectConnects, DirectFails, Connect,
              ProxyAgrees, ProxyRefuses, CopyEnds, HandlerPC
<1>2. CASE stop # "returned"
  <2>1. stop' = stop /\ listening' = listening
    BY DEF ConnStep, OwnStep, DialEnds, PeerStep, Accept, Refuse, Spawn, Count, OpenConn,
           RecordCounters, RecordPush, CloseUpstream, Uncount, CloseClient, WgDone,
           ProxyConnects, ProxyUnreachable, DirectConnects, DirectFails, Connect,
           ProxyAgrees, ProxyRefuses, CopyEnds, acceptVars
  <2>2. CASE Connect(c) BY <1>2, <2>1, <2>2 DEF Connect, Goto, Loop, acceptVars
  <2>3. CASE Accept(c) BY <1>2, <2>1, <2>3 DEF Accept, Goto, Loop
  <2>4. CASE Refuse(c) \/ Spawn(c) BY <1>2, <2>1, <2>4 DEF Refuse, Spawn, Goto, Loop
  <2>5. CASE ~(Connect(c) \/ Accept(c) \/ Refuse(c) \/ Spawn(c))
    <3>1. PICK q \in HandlerPC \cup {"done"} : Goto(c, q)
      BY <2>5 DEF ConnStep, OwnStep, DialEnds, PeerStep, Count, OpenConn,
           RecordCounters, RecordPush, CloseUpstream, Uncount, CloseClient, WgDone,
           ProxyConnects, ProxyUnreachable, DirectConnects, DirectFails,
           ProxyAgrees, ProxyRefuses, CopyEnds, AfterProxyFailed, AfterRecord, HandlerPC
    <3>2. acceptor' = acceptor
      BY <2>5 DEF ConnStep, OwnStep, DialEnds, PeerStep, Count, OpenConn,
           RecordCounters, RecordPush, CloseUpstream, Uncount, CloseClient, WgDone,
           ProxyConnects, ProxyUnreachable, DirectConnects, DirectFails,
           ProxyAgrees, ProxyRefuses, CopyEnds, acceptVars
    <3>3. \A d \in Conns : /\ pc'[d] = "held" => pc[d] = "held"
                           /\ pc'[d] = "backlog" => pc[d] = "backlog"
      BY <3>1 DEF Goto, HandlerPC
    <3> QED BY <1>2, <2>1, <3>2, <3>3 DEF Loop
  <2> QED BY <2>2, <2>3, <2>4, <2>5
<1> QED BY <1>1, <1>2

\* The counters and the places move together.
LEMMA CountsKept == ASSUME IInv, NEW c \in Conns, ConnStep(c) PROVE Counts'
<1> USE DEF IInv, TypeOK, acceptVars, counterVars, statVars
<1>0. /\ Cardinality(In(Counted)) \in Nat /\ Cardinality(In(HandlerPC)) \in Nat
      /\ Cardinality(In(Opened)) \in Nat /\ Cardinality(In(Opened \cup Settled)) \in Nat
  BY InIsFinite
<1>1. PICK q \in ConnPC : Goto(c, q) BY ConnStepMoves
<1>2. pc'[c] = q BY <1>1 DEF Goto
<1>3. /\ Placed(c, q, Counted) /\ Placed(c, q, HandlerPC)
      /\ Placed(c, q, Opened) /\ Placed(c, q, Opened \cup Settled)
  BY <1>1, Moves
<1> DEFINE Kept == /\ activeConns' = activeConns + Bit(q \in Counted) - Bit(pc[c] \in Counted)
                   /\ wg' = wg + Bit(q \in HandlerPC) - Bit(pc[c] \in HandlerPC)
                   /\ acceptor' = "returned" <=> acceptor = "returned"
                   /\ openConns' = openConns + Bit(q \in Opened) - Bit(pc[c] \in Opened)
                   /\ totalConns' = totalConns + Bit(q \in Opened \cup Settled)
                                               - Bit(pc[c] \in Opened \cup Settled)
<1>4. Kept
  <2> USE <1>2 DEF Counted, HandlerPC, Opened, Settled, Bit, Goto
  <2>1. CASE Accept(c) BY <2>1 DEF Accept
  <2>2. CASE Refuse(c) BY <2>2 DEF Refuse
  <2>3. CASE Spawn(c) BY <2>3 DEF Spawn, WgWithSpawned
  <2>4. CASE Count(c) BY <2>4 DEF Count
  <2>5. CASE OpenConn(c) BY <2>5 DEF OpenConn
  <2>6. CASE RecordCounters(c) BY <2>6 DEF RecordCounters
  <2>7. CASE RecordPush(c)
    <3>1. pc[c] = "push" /\ q \in {"uncount", "closeUp"}
      BY <2>7 DEF RecordPush, AfterRecord
    <3> QED BY <2>7, <3>1 DEF RecordPush
  <2>8. CASE CloseUpstream(c) BY <2>8 DEF CloseUpstream
  <2>9. CASE Uncount(c) BY <2>9 DEF Uncount
  <2>10. CASE CloseClient(c) BY <2>10 DEF CloseClient
  <2>11. CASE WgDone(c) BY <2>11 DEF WgDone
  <2>12. CASE ProxyConnects(c) BY <2>12 DEF ProxyConnects
  <2>13. CASE ProxyUnreachable(c) BY <2>13 DEF ProxyUnreachable, AfterProxyFailed
  <2>14. CASE DirectConnects(c) BY <2>14 DEF DirectConnects
  <2>15. CASE DirectFails(c) BY <2>15 DEF DirectFails
  <2>16. CASE Connect(c) BY <2>16 DEF Connect
  <2>17. CASE ProxyAgrees(c) BY <2>17 DEF ProxyAgrees
  <2>18. CASE ProxyRefuses(c) BY <2>18 DEF ProxyRefuses, AfterProxyFailed
  <2>19. CASE CopyEnds(c) BY <2>19 DEF CopyEnds
  <2> QED BY <2>1, <2>2, <2>3, <2>4, <2>5, <2>6, <2>7, <2>8, <2>9, <2>10, <2>11, <2>12,
             <2>13, <2>14, <2>15, <2>16, <2>17, <2>18, <2>19
          DEF ConnStep, OwnStep, DialEnds, PeerStep
<1>5. /\ \A S : Bit(q \in S) \in Int /\ Bit(pc[c] \in S) \in Int
      /\ Bit(acceptor # "returned") \in Int
  BY DEF Bit
<1>6. Bit((acceptor # "returned")') = Bit(acceptor # "returned") BY <1>4 DEF Bit
<1>7. Counts BY DEF IInv
<1> HIDE DEF IInv, TypeOK
<1>8. activeConns' = Cardinality(In(Counted)')
  BY <1>0, <1>3, <1>4, <1>5, <1>7 DEF Counts, Placed
<1>9. wg' = Cardinality(In(HandlerPC)') + Bit((acceptor # "returned")')
  BY <1>0, <1>3, <1>4, <1>5, <1>6, <1>7 DEF Counts, Placed
<1>10. /\ openConns' = Cardinality(In(Opened)')
       /\ totalConns' = Cardinality(In(Opened \cup Settled)')
  BY <1>0, <1>3, <1>4, <1>5, <1>7 DEF Counts, Placed
<1> QED BY <1>8, <1>9, <1>10 DEF Counts

LEMMA TypesKept == ASSUME IInv, NEW c \in Conns, ConnStep(c) PROVE TypeOK'
<1> USE DEF IInv, TypeOK
<1>1. PICK q \in ConnPC : Goto(c, q) BY ConnStepMoves
<1>2. pc' \in [Conns -> ConnPC] BY <1>1 DEF Goto
<1>3. activeConns' \in Nat /\ wg' \in Nat /\ openConns' \in Nat /\ totalConns' \in Nat
  <2>1. Counts' BY CountsKept
  <2>2. /\ Cardinality(In(Counted)') \in Nat /\ Cardinality(In(HandlerPC)') \in Nat
        /\ Cardinality(In(Opened)') \in Nat
        /\ Cardinality(In(Opened \cup Settled)') \in Nat
    <3>1. \A S \in {Counted, HandlerPC, Opened, Opened \cup Settled} : In(S)' \in SUBSET Conns
      BY DEF In
    <3> QED BY <3>1, RelayAssumption, FS_Subset, FS_CardinalityType
  <2>3. Bit((acceptor # "returned")') \in Nat BY DEF Bit
  <2> HIDE DEF IInv, TypeOK
  <2> QED BY <2>1, <2>2, <2>3 DEF Counts
<1>4. /\ socks' \in [Conns -> SUBSET {"client", "proxy", "direct"}]
      /\ kind' \in [Conns -> {"none", "proxy", "direct", "failed"}]
  BY DEF ConnStep, OwnStep, DialEnds, PeerStep, Accept, Refuse, Spawn, Count, OpenConn,
         RecordCounters, RecordPush, CloseUpstream, Uncount, CloseClient, WgDone,
         ProxyConnects, ProxyUnreachable, DirectConnects, DirectFails, Connect,
         ProxyAgrees, ProxyRefuses, CopyEnds, AfterProxyFailed, Hold, Drop, connVars
<1>5. carried' \in [Conns -> Traffic]
  BY DEF ConnStep, OwnStep, DialEnds, PeerStep, Accept, Refuse, Spawn, Count, OpenConn,
         RecordCounters, RecordPush, CloseUpstream, Uncount, CloseClient, WgDone,
         ProxyConnects, ProxyUnreachable, DirectConnects, DirectFails, Connect,
         ProxyAgrees, ProxyRefuses, CopyEnds, connVars
<1>6. txBytes' \in Nat /\ rxBytes' \in Nat /\ logged' \in [Conns -> Nat]
  <2>1. carried[c][1] \in Nat /\ carried[c][2] \in Nat BY RelayAssumption
  <2> QED BY <2>1
      DEF ConnStep, OwnStep, DialEnds, PeerStep, Accept, Refuse, Spawn, Count, OpenConn,
         RecordCounters, RecordPush, CloseUpstream, Uncount, CloseClient, WgDone,
         ProxyConnects, ProxyUnreachable, DirectConnects, DirectFails, Connect,
         ProxyAgrees, ProxyRefuses, CopyEnds, statVars
<1>7. /\ acceptor' \in {"accept", "check", "spawn", "refuse", "returned"}
      /\ closed' = closed /\ listening' = listening /\ stop' = stop
  BY DEF ConnStep, OwnStep, DialEnds, PeerStep, Accept, Refuse, Spawn, Count, OpenConn,
         RecordCounters, RecordPush, CloseUpstream, Uncount, CloseClient, WgDone,
         ProxyConnects, ProxyUnreachable, DirectConnects, DirectFails, Connect,
         ProxyAgrees, ProxyRefuses, CopyEnds, acceptVars
<1> QED BY <1>2, <1>3, <1>4, <1>5, <1>6, <1>7

LEMMA Inductive == IInv /\ [Next]_vars => IInv'
<1> SUFFICES ASSUME IInv, [Next]_vars PROVE IInv' OBVIOUS
<1>1. CASE LoopStep \/ StopBegins BY <1>1, LoopStepKeeps
<1>2. ASSUME NEW c \in Conns, ConnStep(c) PROVE IInv'
  BY <1>2, TypesKept, WhereKept, LoopKept, CountsKept DEF IInv
<1>3. CASE UNCHANGED vars
  BY <1>3 DEF vars, connVars, acceptVars, counterVars, statVars, IInv, TypeOK, Where, Loop,
              Counts, In
<1> QED BY <1>1, <1>2, <1>3 DEF Next, ConnStep

LEMMA Invariant == Spec => []IInv
<1> QED BY InitHolds, Inductive, PTL DEF Spec

-----------------------------------------------------------------------------
(***************************************************************************)
(* The theorems.                                                           *)
(***************************************************************************)
\* Every variable keeps its type; no counter of the relay or of the statistics
\* falls below zero (relay.go, stats.go).
THEOREM TypeCorrect == Spec => []TypeOK
<1>1. IInv => TypeOK BY DEF IInv
<1> QED BY <1>1, Invariant, PTL

\* Whatever way a connection ends it holds no socket afterwards, and none of a
\* proxy that was given up (relay.go handleConn, dialUpstreamOrFallback).
THEOREM NoLeaks == Spec => []NoSocketLeaks
<1>1. IInv => NoSocketLeaks
  <2> SUFFICES ASSUME IInv, NEW c \in Conns
               PROVE  /\ ~({"proxy", "direct"} \subseteq socks[c])
                      /\ kind[c] = "failed" => socks[c] \subseteq {"client"}
                      /\ pc[c] \in {"refused", "reset", "done"} => socks[c] = {}
    BY DEF NoSocketLeaks
  <2> QED BY DEF IInv, TypeOK, ConnPC, HandlerPC, Where
<1> QED BY <1>1, Invariant, PTL

\* The bytes of the statistics are those of the settled connections, and each
\* handler past RecordConn has its entry.
Sent     == [c \in Conns |-> carried[c][1]]
Received == [c \in Conns |-> carried[c][2]]
Entered  == Settled \ {"push"}

Tally ==
  /\ txBytes = SumFunctionOnSet(Sent, In(Settled))
  /\ rxBytes = SumFunctionOnSet(Received, In(Settled))
  /\ \A c \in Conns : logged[c] = IF pc[c] \in Entered THEN 1 ELSE 0

LEMMA BytesAddUp ==
  ASSUME TypeOK
  PROVE  /\ Summable(Sent, In(Settled)) /\ Summable(Received, In(Settled))
         /\ \A c \in Conns : Sent[c] \in Int /\ Received[c] \in Int
<1>1. \A c \in Conns : Sent[c] \in Int /\ Received[c] \in Int
  BY RelayAssumption DEF TypeOK, Sent, Received
<1>2. IsFiniteSet(In(Settled)) BY InIsFinite
<1> QED BY <1>1, <1>2 DEF Summable, In

LEMMA TallyHolds == Init => Tally
<1> SUFFICES ASSUME Init PROVE Tally OBVIOUS
<1>1. In(Settled) = {} BY DEF Init, In, Settled
<1>2. \A c \in Conns : logged[c] = 0 /\ pc[c] \notin Entered
  BY DEF Init, Entered, Settled
<1>3. SumFunctionOnSet(Sent, {}) = 0 /\ SumFunctionOnSet(Received, {}) = 0 BY SumEmpty
<1>4. txBytes = 0 /\ rxBytes = 0 BY DEF Init
<1> QED BY <1>1, <1>2, <1>3, <1>4 DEF Tally

LEMMA TallyKept == IInv /\ Tally /\ [Next]_vars => Tally'
<1> SUFFICES ASSUME IInv, Tally, [Next]_vars PROVE Tally' OBVIOUS
<1> USE DEF IInv
<1>0. /\ Summable(Sent, In(Settled)) /\ Summable(Received, In(Settled))
      /\ \A c \in Conns : Sent[c] \in Int /\ Received[c] \in Int
  BY BytesAddUp
<1> DEFINE Noted == \A c \in Conns : logged'[c] = IF pc'[c] \in Entered THEN 1 ELSE 0
\* RecordConn adds the bytes of c when c is settled.
<1>1. ASSUME NEW c \in Conns, RecordCounters(c) PROVE Tally'
  <2>1. In(Settled)' = In(Settled) \cup {c} /\ c \notin In(Settled)
    BY <1>1 DEF RecordCounters, Goto, In, Settled, TypeOK
  <2>2. Sent' = Sent /\ Received' = Received
    BY <1>1 DEF RecordCounters, connVars, Sent, Received
  <2>3. txBytes' = txBytes + Sent[c] /\ rxBytes' = rxBytes + Received[c]
    BY <1>1 DEF RecordCounters, Sent, Received
  <2>4. txBytes' = SumFunctionOnSet(Sent', In(Settled)')
    BY <1>0, <2>1, <2>2, <2>3, SumAdd DEF Tally
  <2>5. rxBytes' = SumFunctionOnSet(Received', In(Settled)')
    BY <1>0, <2>1, <2>2, <2>3, SumAdd DEF Tally
  <2>6. Noted
    BY <1>1 DEF RecordCounters, Goto, Tally, Entered, Settled, TypeOK
  <2> QED BY <2>4, <2>5, <2>6 DEF Tally
\* No other step settles a connection or changes what a settled one carried.
<1>2. ASSUME In(Settled)' = In(Settled), \A c \in In(Settled) : carried'[c] = carried[c],
             UNCHANGED <<txBytes, rxBytes>>, Noted
      PROVE  Tally'
  <2>1. \A c \in In(Settled) : Sent'[c] = Sent[c] /\ Received'[c] = Received[c]
    BY <1>2 DEF Sent, Received, In
  <2>2. /\ SumFunctionOnSet(Sent, In(Settled)) = SumFunctionOnSet(Sent', In(Settled))
        /\ SumFunctionOnSet(Received, In(Settled)) = SumFunctionOnSet(Received', In(Settled))
    BY <1>0, <2>1, SumSame
  <2> QED BY <1>2, <2>2 DEF Tally
<1>3. ASSUME NEW c \in Conns, ConnStep(c), ~RecordCounters(c) PROVE Tally'
  <2>1. UNCHANGED <<txBytes, rxBytes>>
    BY <1>3 DEF ConnStep, OwnStep, DialEnds, PeerStep, Accept, Refuse, Spawn, Count, OpenConn,
       RecordPush, CloseUpstream, Uncount, CloseClient, WgDone, ProxyConnects,
       ProxyUnreachable, DirectConnects, DirectFails, Connect, ProxyAgrees, ProxyRefuses,
       CopyEnds, statVars
  <2>2. PICK q \in ConnPC : Goto(c, q) /\ (q \in Settled <=> pc[c] \in Settled)
    BY <1>3 DEF ConnStep, OwnStep, DialEnds, PeerStep, Accept, Refuse, Spawn, Count, OpenConn,
       RecordPush, CloseUpstream, Uncount, CloseClient, WgDone, ProxyConnects,
       ProxyUnreachable, DirectConnects, DirectFails, Connect, ProxyAgrees, ProxyRefuses,
       CopyEnds, AfterProxyFailed, AfterRecord, Settled, ConnPC, HandlerPC
  <2>3. In(Settled)' = In(Settled) BY <2>2 DEF In, Goto, TypeOK
  <2>4. \A d \in In(Settled) : carried'[d] = carried[d]
    BY <1>3 DEF ConnStep, OwnStep, DialEnds, PeerStep, Accept, Refuse, Spawn, Count, OpenConn,
       RecordPush, CloseUpstream, Uncount, CloseClient, WgDone, ProxyConnects,
       ProxyUnreachable, DirectConnects, DirectFails, Connect, ProxyAgrees, ProxyRefuses,
       CopyEnds, In, Settled, TypeOK, connVars
  <2>5. Noted
    <3>1. CASE RecordPush(c)
      BY <3>1 DEF RecordPush, AfterRecord, Goto, Tally, Entered, Settled, TypeOK
    <3>2. CASE ~RecordPush(c)
      <4>1. UNCHANGED logged /\ pc[c] # "push"
        BY <1>3, <3>2 DEF ConnStep, OwnStep, DialEnds, PeerStep, Accept, Refuse, Spawn, Count,
           OpenConn, CloseUpstream, Uncount, CloseClient, WgDone, ProxyConnects,
           ProxyUnreachable, DirectConnects, DirectFails, Connect, ProxyAgrees, ProxyRefuses,
           CopyEnds, statVars
      <4>2. pc'[c] # "push"
        BY <1>3, <3>2 DEF ConnStep, OwnStep, DialEnds, PeerStep, Accept, Refuse, Spawn, Count,
           OpenConn, CloseUpstream, Uncount, CloseClient, WgDone, ProxyConnects,
           ProxyUnreachable, DirectConnects, DirectFails, Connect, ProxyAgrees, ProxyRefuses,
           CopyEnds, AfterProxyFailed, Goto, TypeOK
      <4> QED BY <2>2, <4>1, <4>2 DEF Goto, Tally, Entered, TypeOK
    <3> QED BY <3>1, <3>2
  <2> HIDE DEF Noted, IInv
  <2> QED BY <1>2, <2>1, <2>3, <2>4, <2>5
<1>4. CASE LoopStep \/ StopBegins \/ UNCHANGED vars
  <2>1. UNCHANGED <<carried, txBytes, rxBytes, logged>>
    BY <1>4 DEF LoopStep, AcceptorReturns, CheckCap, CloseListener, StopReturns, StopBegins,
       vars, connVars, statVars
  <2>2. \A c \in Conns : \/ pc'[c] = pc[c]
                         \/ pc[c] = "backlog" /\ pc'[c] = "reset"
    BY <1>4 DEF LoopStep, AcceptorReturns, CheckCap, CloseListener, StopReturns, StopBegins,
       vars, TypeOK
  <2>3. In(Settled)' = In(Settled) BY <2>2 DEF In, Settled
  <2>4. Noted BY <2>1, <2>2 DEF Tally, Entered, Settled
  <2> QED BY <1>2, <2>1, <2>3, <2>4
<1> QED BY <1>1, <1>3, <1>4 DEF Next, ConnStep

\* The counters of the WebUI agree with the handlers at every moment: none is
\* late or forgotten on any way through handleConn (stats.go OpenConn,
\* RecordConn).
THEOREM BooksAreHonest == Spec => []BooksBalance
<1>1. IInv /\ Tally => BooksBalance
  BY DEF IInv, Counts, Tally, Entered, Sent, Received, BooksBalance
<1> QED BY <1>1, TallyHolds, TallyKept, Invariant, PTL DEF Spec

\* When Stop returns every handler has ended and every socket is closed, however
\* many connections there were (relay.go Stop).
THEOREM NothingIsLeft == Spec => []StopLeavesNothing
<1>1. IInv => StopLeavesNothing
  <2> SUFFICES ASSUME IInv, stop = "returned"
               PROVE  /\ \A c \in Conns : /\ pc[c] \in {"none", "refused", "reset", "done"}
                                          /\ socks[c] = {}
                      /\ acceptor = "returned" /\ activeConns = 0 /\ openConns = 0
    BY DEF StopLeavesNothing
  <2>1. /\ acceptor = "returned" /\ ~listening /\ \A c \in Conns : pc[c] \notin HandlerPC
    BY StoppedIsQuiet
  <2>2. \A c \in Conns : pc[c] \in {"none", "refused", "reset", "done"} /\ socks[c] = {}
    BY <2>1 DEF IInv, TypeOK, ConnPC, Where, Loop
  <2>3. In(Counted) = {} /\ In(Opened) = {}
    BY <2>1 DEF In, Counted, Opened, HandlerPC
  <2>4. activeConns = 0 /\ openConns = 0
    BY <2>3, FS_EmptySet DEF IInv, Counts
  <2> QED BY <2>1, <2>2, <2>4
<1> QED BY <1>1, Invariant, PTL

\* Clients are turned away only when the limit is really reached: activeConns
\* counts no handler that has closed its client socket (relay.go acceptLoop).
THEOREM RefusalsAreDue == Spec => RefusedOnlyWhenFull
<1> DEFINE Holding == {c \in Conns : "client" \in socks[c] /\ pc[c] # "held"}
           Due == (acceptor = "check" /\ acceptor' = "refuse")
                    => Cardinality(Holding) >= MaxConnections
<1>1. IInv /\ [Next]_vars => [Due]_vars
  <2> SUFFICES ASSUME IInv, [Next]_vars, acceptor = "check", acceptor' = "refuse"
               PROVE  Cardinality(Holding) >= MaxConnections
    OBVIOUS
  <2>1. AtCap
    BY DEF Next, LoopStep, AcceptorReturns, CheckCap, CloseListener, StopReturns, StopBegins,
       OwnStep, DialEnds, PeerStep, Accept, Refuse, Spawn, Count, OpenConn,
       RecordCounters, RecordPush, CloseUpstream, Uncount, CloseClient, WgDone,
       ProxyConnects, ProxyUnreachable, DirectConnects, DirectFails, Connect,
       ProxyAgrees, ProxyRefuses, CopyEnds, acceptVars, vars
  <2>2. In(Counted) \subseteq Holding
    BY DEF IInv, TypeOK, Where, In, Counted, HandlerPC
  <2>3. IsFiniteSet(Holding) /\ Cardinality(Holding) \in Nat
    BY RelayAssumption, FS_Subset, FS_CardinalityType
  <2>4. Cardinality(In(Counted)) <= Cardinality(Holding) BY <2>2, <2>3, FS_Subset
  <2>5. activeConns = Cardinality(In(Counted)) /\ activeConns \in Nat
    BY DEF IInv, TypeOK, Counts
  <2> HIDE DEF Holding
  <2> QED BY <2>1, <2>3, <2>4, <2>5, RelayAssumption DEF AtCap
<1> QED BY <1>1, Invariant, PTL DEF Spec, RefusedOnlyWhenFull

\* The relay implements the ledger: each connection is refused, or opened and
\* settled once, and nothing is open when the relay has finished (Ledger.tla;
\* relay.go handleConn, stats.go OpenConn, RecordConn).
THEOREM KeepsTheLedger == Spec => ImplementsLedger
<1> DEFINE St == [c \in Conns |->
              CASE pc[c] \in Opened   -> "open"
                [] pc[c] \in Settled  -> "settled"
                [] pc[c] = "refused"  -> "refused"
                [] OTHER              -> "absent"]
<1>1. Init => Books!LInit
  BY DEF Init, Books!LInit, Opened, Settled
<1>2. IInv /\ [Next]_vars => [Books!LNext]_(Books!lvars)
  <2> SUFFICES ASSUME IInv, [Next]_vars PROVE [Books!LNext]_(Books!lvars)
    OBVIOUS
  <2> USE DEF IInv, TypeOK
  <2>1. ASSUME UNCHANGED <<txBytes, rxBytes>>, St' = St,
               (stop = "returned")' = (stop = "returned")
        PROVE  UNCHANGED Books!lvars
    BY <2>1 DEF Books!lvars
  <2>2. CASE AcceptorReturns \/ CheckCap \/ StopBegins \/ CloseListener
    <3>1. UNCHANGED <<txBytes, rxBytes>>
      BY <2>2 DEF AcceptorReturns, CheckCap, StopBegins, CloseListener, statVars
    <3>2. St' = St
      BY <2>2 DEF AcceptorReturns, CheckCap, StopBegins, CloseListener, Opened, Settled
    <3>3. (stop = "returned")' = (stop = "returned")
      BY <2>2 DEF AcceptorReturns, CheckCap, StopBegins, CloseListener
    <3> QED BY <2>1, <3>1, <3>2, <3>3
  <2>3. CASE StopReturns
    <3>1. IInv' BY Inductive
    <3>2. \A c \in Conns : pc'[c] \notin HandlerPC
      <4>1. (stop = "returned" => \A c \in Conns : pc[c] \notin HandlerPC)'
        BY <3>1, StoppedIsQuiet, PTL
      <4> QED BY <2>3, <4>1 DEF StopReturns
    <3> QED BY <2>3, <3>2 DEF StopReturns, Books!LNext, Books!Finish, Opened, HandlerPC, statVars
  <2>4. ASSUME NEW c \in Conns, OpenConn(c) PROVE Books!Open(c)
    <3>1. pc[c] = "counted" BY <2>4 DEF OpenConn
    <3>2. stop # "returned" BY <3>1, StoppedIsQuiet DEF HandlerPC
    <3>3. St' = [St EXCEPT ![c] = "open"] /\ St[c] = "absent"
      BY <2>4 DEF OpenConn, Goto, Opened, Settled
    <3> QED BY <2>4, <3>2, <3>3 DEF OpenConn, Books!Open, acceptVars
  <2>5. ASSUME NEW c \in Conns, Refuse(c) PROVE Books!Refuse(c)
    <3>1. acceptor = "refuse" /\ pc[c] = "held" BY <2>5 DEF Refuse
    <3>2. stop # "returned" BY <3>1, StoppedIsQuiet
    <3>3. St' = [St EXCEPT ![c] = "refused"] /\ St[c] = "absent"
      BY <2>5 DEF Refuse, Goto, Opened, Settled
    <3> QED BY <2>5, <3>2, <3>3 DEF Refuse, Books!Refuse, statVars
  <2>6. ASSUME NEW c \in Conns, RecordCounters(c) PROVE Books!Settle(c)
    <3>1. St' = [St EXCEPT ![c] = "settled"] /\ St[c] = "open"
      BY <2>6 DEF RecordCounters, Goto, Opened, Settled
    <3>2. carried[c] \in Traffic OBVIOUS
    <3> QED BY <2>6, <3>1, <3>2 DEF RecordCounters, Books!Settle, acceptVars
  <2>7. ASSUME NEW c \in Conns, ConnStep(c), ~OpenConn(c), ~Refuse(c), ~RecordCounters(c)
        PROVE  UNCHANGED Books!lvars
    <3>1. UNCHANGED <<txBytes, rxBytes, stop>>
      BY <2>7 DEF ConnStep, OwnStep, DialEnds, PeerStep, Accept, Spawn, Count,
         RecordPush, CloseUpstream, Uncount, CloseClient, WgDone, ProxyConnects,
         ProxyUnreachable, DirectConnects, DirectFails, Connect, ProxyAgrees, ProxyRefuses,
         CopyEnds, acceptVars, statVars
    <3>2. PICK q \in ConnPC :
            /\ Goto(c, q)
            /\ q # "refused" /\ pc[c] # "refused"
            /\ q \in Opened <=> pc[c] \in Opened
            /\ q \in Settled <=> pc[c] \in Settled
      BY <2>7 DEF ConnStep, OwnStep, DialEnds, PeerStep, Accept, Spawn, Count,
         RecordPush, CloseUpstream, Uncount, CloseClient, WgDone, ProxyConnects,
         ProxyUnreachable, DirectConnects, DirectFails, Connect, ProxyAgrees, ProxyRefuses,
         CopyEnds, AfterProxyFailed, AfterRecord, Opened, Settled, ConnPC, HandlerPC
    <3>3. St' = St BY <3>2 DEF Goto
    <3>4. (stop = "returned")' = (stop = "returned") BY <3>1
    <3> QED BY <2>1, <3>1, <3>3, <3>4
  <2>8. CASE UNCHANGED vars
    BY <2>8 DEF vars, statVars, acceptVars, Books!lvars
  <2> QED BY <2>2, <2>3, <2>4, <2>5, <2>6, <2>7, <2>8
          DEF Next, LoopStep, ConnStep, Books!LNext
<1> QED BY <1>1, <1>2, Invariant, PTL DEF Spec, ImplementsLedger, Books!LSpec
=============================================================================
