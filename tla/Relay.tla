------------------------------- MODULE Relay -------------------------------
(***************************************************************************)
(* The relay: the accept loop with its connection limit, one handler       *)
(* goroutine per connection, the dial through the upstream proxy with the  *)
(* fallback to a direct dial, the accounting in stats.Collector, and Stop. *)
(* It begins where Relay.Start has returned; the copying between the two   *)
(* sockets of a connection is one phase here and a module of its own,      *)
(* Splice.                                                                 *)
(***************************************************************************)
EXTENDS Integers, FiniteSets, FiniteSetsExt

CONSTANTS
  Conns,           \* connections clients may open
  MaxConnections,  \* cfg.TProxy.MaxConnections, 0 means no limit
  FallbackDirect,  \* cfg.TProxy.FallbackDirect
  Traffic          \* the <<tx, rx>> a connection may carry

ASSUME RelayAssumption ==
  /\ IsFiniteSet(Conns)
  /\ MaxConnections \in Nat
  /\ FallbackDirect \in BOOLEAN
  /\ Traffic \subseteq Nat \X Nat /\ <<0, 0>> \in Traffic

VARIABLES
  pc,         \* pc[c]: where connection c is
  socks,      \* socks[c]: the sockets of c the process holds
  kind,       \* kind[c]: how c was served, RecordConn's upstream argument
  carried,    \* carried[c]: what bidirectionalCopy returned
  acceptor,   \* the accept loop: "accept", "check", "spawn", "refuse", "returned"
  activeConns, wg,                 \* Relay.activeConns, Relay.wg
  closed, listening,               \* closeCh is closed, the listener is open
  stop,       \* Stop: "none", "close", "wait", "returned"
  totalConns, openConns, txBytes, rxBytes,  \* stats.Collector, over all devices
  logged      \* logged[c]: entries for c in the recent connections

acceptVars  == <<acceptor, closed, listening, stop>>
counterVars == <<activeConns, wg>>
statVars    == <<totalConns, openConns, txBytes, rxBytes, logged>>
connVars    == <<socks, kind, carried>>
vars == <<pc, connVars, acceptVars, counterVars, statVars>>

\* "none" to "held": before the handler.  "refused" and "reset": never handled.
HandlerPC ==
  {"spawned", "counted", "dial", "handshake", "direct", "copy", "record",
   "push", "closeUp", "uncount", "closeClient", "wgDone"}
ConnPC == {"none", "backlog", "held", "refused", "reset", "done"} \cup HandlerPC

TypeOK ==
  /\ pc \in [Conns -> ConnPC]
  /\ socks \in [Conns -> SUBSET {"client", "proxy", "direct"}]
  /\ kind \in [Conns -> {"none", "proxy", "direct", "failed"}]
  /\ carried \in [Conns -> Traffic]
  /\ acceptor \in {"accept", "check", "spawn", "refuse", "returned"}
  /\ activeConns \in Nat /\ wg \in Nat
  /\ closed \in BOOLEAN /\ listening \in BOOLEAN
  /\ stop \in {"none", "close", "wait", "returned"}
  /\ totalConns \in Nat /\ openConns \in Nat
  /\ txBytes \in Nat /\ rxBytes \in Nat
  /\ logged \in [Conns -> Nat]

Init ==
  /\ pc = [c \in Conns |-> "none"]
  /\ socks = [c \in Conns |-> {}]
  /\ kind = [c \in Conns |-> "none"]
  /\ carried = [c \in Conns |-> <<0, 0>>]
  /\ acceptor = "accept"
  /\ activeConns = 0 /\ wg = 1
  /\ closed = FALSE /\ listening = TRUE /\ stop = "none"
  /\ totalConns = 0 /\ openConns = 0 /\ txBytes = 0 /\ rxBytes = 0
  /\ logged = [c \in Conns |-> 0]

Goto(c, p) == pc' = [pc EXCEPT ![c] = p]
Hold(c, s) == socks' = [socks EXCEPT ![c] = @ \cup {s}]
Drop(c, S) == socks' = [socks EXCEPT ![c] = @ \ S]

-----------------------------------------------------------------------------
(***************************************************************************)
(* The clients and the kernel (external).                                  *)
(***************************************************************************)
Connect(c) ==
  /\ listening /\ pc[c] = "none"
  /\ Goto(c, "backlog")
  /\ UNCHANGED <<connVars, acceptVars, counterVars, statVars>>

(***************************************************************************)
(* The accept loop.  An error of Accept that does not come from Stop is    *)
(* slept over and changes nothing.                                         *)
(***************************************************************************)
Accept(c) ==
  /\ acceptor = "accept" /\ listening /\ pc[c] = "backlog"
  /\ Goto(c, "held") /\ Hold(c, "client")
  /\ acceptor' = "check"
  /\ UNCHANGED <<kind, carried, closed, listening, stop, counterVars, statVars>>

\* Accept fails and closeCh is closed.
AcceptorReturns ==
  /\ acceptor = "accept" /\ closed
  /\ acceptor' = "returned" /\ wg' = wg - 1
  /\ UNCHANGED <<pc, connVars, closed, listening, stop, activeConns, statVars>>

\* (slip: one connection too early)
AtCapEarly == MaxConnections > 0 /\ activeConns + 1 >= MaxConnections

AtCap == MaxConnections > 0 /\ activeConns >= MaxConnections

CheckCap ==
  /\ acceptor = "check"
  /\ acceptor' = IF AtCap THEN "refuse" ELSE "spawn"
  /\ UNCHANGED <<pc, connVars, closed, listening, stop, counterVars, statVars>>

\* (slip: the loop returns where it should continue)
RefuseReturns(c) ==
  /\ acceptor = "refuse" /\ pc[c] = "held"
  /\ Goto(c, "refused") /\ Drop(c, {"client"})
  /\ acceptor' = "returned"
  /\ UNCHANGED <<kind, carried, closed, listening, stop, counterVars, statVars>>

Refuse(c) ==
  /\ acceptor = "refuse" /\ pc[c] = "held"
  /\ Goto(c, "refused") /\ Drop(c, {"client"})
  /\ acceptor' = "accept"
  /\ UNCHANGED <<kind, carried, closed, listening, stop, counterVars, statVars>>

\* (slip: the handler is not counted)
WgUncounted == wg

\* The loop counts the handler into wg before it starts it.
WgWithSpawned == wg + 1

Spawn(c) ==
  /\ acceptor = "spawn" /\ pc[c] = "held"
  /\ wg' = WgWithSpawned
  /\ Goto(c, "spawned")
  /\ acceptor' = "accept"
  /\ UNCHANGED <<connVars, closed, listening, stop, activeConns, statVars>>

-----------------------------------------------------------------------------
(***************************************************************************)
(* handleConn.  The address of an accepted TCP connection always splits.   *)
(***************************************************************************)
Count(c) ==
  /\ pc[c] = "spawned"
  /\ activeConns' = activeConns + 1
  /\ Goto(c, "counted")
  /\ UNCHANGED <<connVars, acceptVars, wg, statVars>>

OpenConn(c) ==
  /\ pc[c] = "counted"
  /\ totalConns' = totalConns + 1 /\ openConns' = openConns + 1
  /\ Goto(c, "dial")
  /\ UNCHANGED <<connVars, acceptVars, counterVars, txBytes, rxBytes, logged>>

\* dialUpstream: the TCP connection to the proxy, at most five seconds.
ProxyConnects(c) ==
  /\ pc[c] = "dial"
  /\ Hold(c, "proxy") /\ Goto(c, "handshake")
  /\ UNCHANGED <<kind, carried, acceptVars, counterVars, statVars>>

\* What dialUpstreamOrFallback does when the proxy failed.
AfterProxyFailed(c) ==
  IF FallbackDirect
  THEN Goto(c, "direct") /\ UNCHANGED kind
  ELSE Goto(c, "record") /\ kind' = [kind EXCEPT ![c] = "failed"]

ProxyUnreachable(c) ==
  /\ pc[c] = "dial"
  /\ AfterProxyFailed(c)
  /\ UNCHANGED <<socks, carried, acceptVars, counterVars, statVars>>

\* The reply to CONNECT, or the SOCKS5 exchange: nothing limits the wait.
ProxyAgrees(c) ==
  /\ pc[c] = "handshake"
  /\ kind' = [kind EXCEPT ![c] = "proxy"] /\ Goto(c, "copy")
  /\ UNCHANGED <<socks, carried, acceptVars, counterVars, statVars>>

\* (slip: the error path does not close the socket)
ProxyRefusesLeaks(c) ==
  /\ pc[c] = "handshake"
  /\ AfterProxyFailed(c)
  /\ UNCHANGED <<socks, carried, acceptVars, counterVars, statVars>>

ProxyRefuses(c) ==
  /\ pc[c] = "handshake"
  /\ Drop(c, {"proxy"}) /\ AfterProxyFailed(c)
  /\ UNCHANGED <<carried, acceptVars, counterVars, statVars>>

\* The direct dial, at most five seconds.
DirectConnects(c) ==
  /\ pc[c] = "direct"
  /\ Hold(c, "direct")
  /\ kind' = [kind EXCEPT ![c] = "direct"] /\ Goto(c, "copy")
  /\ UNCHANGED <<carried, acceptVars, counterVars, statVars>>

\* (slip: the failed connection is not recorded)
DirectFailsUnrecorded(c) ==
  /\ pc[c] = "direct"
  /\ kind' = [kind EXCEPT ![c] = "failed"] /\ Goto(c, "uncount")
  /\ UNCHANGED <<socks, carried, acceptVars, counterVars, statVars>>

DirectFails(c) ==
  /\ pc[c] = "direct"
  /\ kind' = [kind EXCEPT ![c] = "failed"] /\ Goto(c, "record")
  /\ UNCHANGED <<socks, carried, acceptVars, counterVars, statVars>>

\* bidirectionalCopy returns.
CopyEnds(c) ==
  /\ pc[c] = "copy"
  /\ \E t \in Traffic : carried' = [carried EXCEPT ![c] = t]
  /\ Goto(c, "record")
  /\ UNCHANGED <<socks, kind, acceptVars, counterVars, statVars>>

\* RecordConn: the counters of the device, then the ring of recent connections.
RecordCounters(c) ==
  /\ pc[c] = "record"
  /\ openConns' = openConns - 1
  /\ txBytes' = txBytes + carried[c][1] /\ rxBytes' = rxBytes + carried[c][2]
  /\ Goto(c, "push")
  /\ UNCHANGED <<connVars, acceptVars, counterVars, totalConns, logged>>

\* (slip: a connection is recorded twice)
AfterRecordAgain(c) ==
  IF logged[c] = 0 THEN "record"
  ELSE IF kind[c] = "failed" THEN "uncount" ELSE "closeUp"

\* A handler that has no upstream has not deferred its Close.
AfterRecord(c) == IF kind[c] = "failed" THEN "uncount" ELSE "closeUp"

RecordPush(c) ==
  /\ pc[c] = "push"
  /\ logged' = [logged EXCEPT ![c] = @ + 1]
  /\ Goto(c, AfterRecord(c))
  /\ UNCHANGED <<connVars, acceptVars, counterVars, totalConns, openConns,
                 txBytes, rxBytes>>

\* The deferred calls, last deferred first.
CloseUpstream(c) ==
  /\ pc[c] = "closeUp"
  /\ Drop(c, {"proxy", "direct"}) /\ Goto(c, "uncount")
  /\ UNCHANGED <<kind, carried, acceptVars, counterVars, statVars>>

Uncount(c) ==
  /\ pc[c] = "uncount"
  /\ activeConns' = activeConns - 1 /\ Goto(c, "closeClient")
  /\ UNCHANGED <<connVars, acceptVars, wg, statVars>>

CloseClient(c) ==
  /\ pc[c] = "closeClient"
  /\ Drop(c, {"client"}) /\ Goto(c, "wgDone")
  /\ UNCHANGED <<kind, carried, acceptVars, counterVars, statVars>>

\* (slip: a path without wg.Done)
WgDoneMissing(c) ==
  /\ pc[c] = "wgDone"
  /\ Goto(c, "done")
  /\ UNCHANGED <<connVars, acceptVars, counterVars, statVars>>

WgDone(c) ==
  /\ pc[c] = "wgDone"
  /\ wg' = wg - 1 /\ Goto(c, "done")
  /\ UNCHANGED <<connVars, acceptVars, activeConns, statVars>>

-----------------------------------------------------------------------------
(***************************************************************************)
(* Stop, called once on a relay that has started.                          *)
(***************************************************************************)
StopBegins ==
  /\ stop = "none"
  /\ closed' = TRUE /\ stop' = "close"
  /\ UNCHANGED <<pc, connVars, acceptor, listening, counterVars, statVars>>

\* Connections the kernel has queued for the listener are reset.
CloseListener ==
  /\ stop = "close"
  /\ listening' = FALSE /\ stop' = "wait"
  /\ pc' = [c \in Conns |-> IF pc[c] = "backlog" THEN "reset" ELSE pc[c]]
  /\ UNCHANGED <<connVars, acceptor, closed, counterVars, statVars>>

StopReturns ==
  /\ stop = "wait" /\ wg = 0
  /\ stop' = "returned"
  /\ UNCHANGED <<pc, connVars, acceptor, closed, listening, counterVars,
                 statVars>>

-----------------------------------------------------------------------------
\* What the gateway does by itself once the scheduler lets it.
OwnStep(c) ==
  \/ Accept(c) \/ Refuse(c) \/ Spawn(c) \/ Count(c) \/ OpenConn(c)
  \/ RecordCounters(c) \/ RecordPush(c)
  \/ CloseUpstream(c) \/ Uncount(c) \/ CloseClient(c) \/ WgDone(c)

\* A dial that ends by itself, at the latest by its timeout.
DialEnds(c) ==
  ProxyConnects(c) \/ ProxyUnreachable(c) \/ DirectConnects(c) \/ DirectFails(c)

\* What a peer may do or leave.
PeerStep(c) == Connect(c) \/ ProxyAgrees(c) \/ ProxyRefuses(c) \/ CopyEnds(c)

LoopStep == AcceptorReturns \/ CheckCap \/ CloseListener \/ StopReturns

Next ==
  \/ LoopStep \/ StopBegins
  \/ \E c \in Conns : OwnStep(c) \/ DialEnds(c) \/ PeerStep(c)

Spec == Init /\ [][Next]_vars

\* Goroutines are scheduled and dials time out; a peer need not do anything.
FairSpec ==
  /\ Spec
  /\ WF_vars(LoopStep)
  /\ \A c \in Conns : WF_vars(OwnStep(c)) /\ WF_vars(DialEnds(c))

-----------------------------------------------------------------------------
(***************************************************************************)
(* Properties.                                                             *)
(***************************************************************************)
Unhandled == {"none", "backlog", "held", "refused", "reset"}
Opened    == {"dial", "handshake", "direct", "copy", "record"}
Settled   == {"push", "closeUp", "uncount", "closeClient", "wgDone", "done"}
In(S)     == {c \in Conns : pc[c] \in S}

\* The relay keeps honest books for its connections: what it shows is what a
\* Ledger of them would (Ledger.tla; relay.go handleConn "recorded only once",
\* stats.go OpenConn, RecordConn).
Books == INSTANCE Ledger WITH
  state <- [c \in Conns |->
              CASE pc[c] \in Opened   -> "open"
                [] pc[c] \in Settled  -> "settled"
                [] pc[c] = "refused"  -> "refused"
                [] OTHER              -> "absent"],
  tx <- txBytes, rx <- rxBytes, finished <- (stop = "returned")

ImplementsLedger == Books!LSpec

\* At every moment the counters of the WebUI agree with the handlers: active
\* and total connections, the bytes of the settled ones, one entry in the
\* recent connections for each handler past RecordConn, none for the others.
BooksBalance ==
  /\ openConns = Cardinality(In(Opened))
  /\ totalConns = Cardinality(In(Opened \cup Settled))
  /\ txBytes = SumFunctionOnSet([c \in Conns |-> carried[c][1]], In(Settled))
  /\ rxBytes = SumFunctionOnSet([c \in Conns |-> carried[c][2]], In(Settled))
  /\ \A c \in Conns :
       logged[c] = IF pc[c] \in Settled \ {"push"} THEN 1 ELSE 0

\* When Stop has returned nothing of the relay is left: every handler has ended,
\* every socket is closed and no connection counts as active (relay.go Stop:
\* "waits until all connections are closed").
StopLeavesNothing ==
  stop = "returned" =>
    /\ \A c \in Conns : pc[c] \in {"none", "refused", "reset", "done"} /\ socks[c] = {}
    /\ acceptor = "returned" /\ activeConns = 0 /\ openConns = 0

\* A handler holds the client socket and at most one upstream socket, none of a
\* proxy it gave up; a connection that is over holds none (the error paths of
\* dialHTTP and the deferred Close of handleConn).
NoSocketLeaks ==
  \A c \in Conns :
    /\ ~({"proxy", "direct"} \subseteq socks[c])
    /\ kind[c] = "failed" => socks[c] \subseteq {"client"}
    /\ pc[c] \in {"refused", "reset", "done"} => socks[c] = {}

\* No connection is refused unless as many others as the limit allows hold
\* their client socket at the moment of the check: a counter that a handler
\* forgets to lower would turn clients away from an idle gateway.
RefusedOnlyWhenFull ==
  [][(acceptor = "check" /\ acceptor' = "refuse") =>
       Cardinality({c \in Conns : "client" \in socks[c] /\ pc[c] # "held"})
         >= MaxConnections]_vars

\* Stop ends unless a peer holds it up: a silent proxy in its handshake, or the
\* two ends of a connection still being copied.
StopHeldOnlyByPeers ==
  (stop = "close") ~> (stop = "returned" \/ In({"handshake", "copy"}) # {})

\* Every client that reached the listener gets an answer from the accept loop
\* or a reset, however long the handlers of others take.
AcceptLoopNeverStalls ==
  \A c \in Conns : (pc[c] = "backlog") ~> (pc[c] \notin {"backlog", "held"})

(***************************************************************************)
(* A claim of the repository that a run refutes.                           *)
(***************************************************************************)
\* relay.go:124: the deadline keeps connections from leaking; README.md:34: when
\* the proxy fails the connection goes direct.
DialSettles ==
  \A c \in Conns : (pc[c] = "dial") ~> (pc[c] \in {"copy", "record"})
=============================================================================
