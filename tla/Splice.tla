------------------------------- MODULE Splice -------------------------------
(***************************************************************************)
(* bidirectionalCopy for one connection: two goroutines copy between the   *)
(* client and the upstream socket, each with its own idle deadline on the  *)
(* socket it reads, and pass an end of stream on with CloseWrite where the *)
(* type of the destination has it; then handleConn closes both sockets.    *)
(* The two peers send, end their streams, reset, read slowly or not at all.*)
(***************************************************************************)
EXTENDS Naturals

CONSTANTS
  IdleLimit,  \* the two minutes of copyWithTimeout, in ticks
  Window,     \* chunks a peer's receive window holds
  MaxChunks   \* bound: chunks each peer sends

ASSUME SpliceAssumption ==
  /\ IdleLimit \in Nat \ {0} /\ Window \in Nat \ {0} /\ MaxChunks \in Nat

Peers      == {"client", "server"}
Directions == {"up", "down"}         \* client to upstream, upstream to client
Src(d)   == IF d = "up" THEN "client" ELSE "server"
Dst(d)   == IF d = "up" THEN "server" ELSE "client"
Other(d) == IF d = "up" THEN "down" ELSE "up"

VARIABLES
  upstream,  \* "http": dialHTTP's *bufferedConn; "tcp": SOCKS5 and direct
  pc,        \* pc[d]: the goroutine of d: "read", "write", "shut", "done"
  sent,      \* sent[d]: chunks the source peer has sent
  fin,       \* fin[d]: the source peer has ended its stream
  reset,     \* reset[p]: peer p has reset its connection
  total,     \* total[d]: chunks copyWithTimeout has counted
  put,       \* put[d]: chunks written to the destination
  consumed,  \* consumed[d]: chunks the destination peer has taken
  eof,       \* eof[d]: CloseWrite has told the destination peer of the end
  idle,      \* idle[d]: ticks since the read deadline was armed
  closed,    \* handleConn has closed both sockets
  timedOut   \* timedOut[d]: the goroutine gave up on its deadline (history)

peerVars == <<sent, fin, reset, consumed>>
copyVars == <<upstream, pc, total, put, eof, idle, closed, timedOut>>
vars == <<peerVars, copyVars>>

TypeOK ==
  /\ upstream \in {"http", "tcp"}
  /\ pc \in [Directions -> {"read", "write", "shut", "done"}]
  /\ sent \in [Directions -> 0 .. MaxChunks]
  /\ fin \in [Directions -> BOOLEAN]
  /\ reset \in [Peers -> BOOLEAN]
  /\ total \in [Directions -> 0 .. MaxChunks]
  /\ put \in [Directions -> 0 .. MaxChunks]
  /\ consumed \in [Directions -> 0 .. MaxChunks]
  /\ eof \in [Directions -> BOOLEAN]
  /\ idle \in [Directions -> 0 .. IdleLimit]
  /\ closed \in BOOLEAN
  /\ timedOut \in [Directions -> BOOLEAN]

\* The connection that dialUpstreamOrFallback came back with: with an http
\* proxy configured it is of one kind, and of the other after a fallback.
Init ==
  /\ upstream \in {"http", "tcp"}
  /\ pc = [d \in Directions |-> "read"]
  /\ sent = [d \in Directions |-> 0]
  /\ fin = [d \in Directions |-> FALSE]
  /\ reset = [p \in Peers |-> FALSE]
  /\ total = [d \in Directions |-> 0]
  /\ put = [d \in Directions |-> 0]
  /\ consumed = [d \in Directions |-> 0]
  /\ eof = [d \in Directions |-> FALSE]
  /\ idle = [d \in Directions |-> 0]
  /\ closed = FALSE
  /\ timedOut = [d \in Directions |-> FALSE]

-----------------------------------------------------------------------------
(***************************************************************************)
(* The peers and the clock (external).                                     *)
(***************************************************************************)
Send(d) ==
  /\ ~fin[d] /\ ~reset[Src(d)] /\ sent[d] < MaxChunks
  /\ sent' = [sent EXCEPT ![d] = @ + 1]
  /\ UNCHANGED <<fin, reset, consumed, copyVars>>

EndStream(d) ==
  /\ ~fin[d] /\ ~reset[Src(d)]
  /\ fin' = [fin EXCEPT ![d] = TRUE]
  /\ UNCHANGED <<sent, reset, consumed, copyVars>>

Reset(p) ==
  /\ ~reset[p]
  /\ reset' = [reset EXCEPT ![p] = TRUE]
  /\ UNCHANGED <<sent, fin, consumed, copyVars>>

Consume(d) ==
  /\ ~reset[Dst(d)] /\ consumed[d] < put[d]
  /\ consumed' = [consumed EXCEPT ![d] = @ + 1]
  /\ UNCHANGED <<sent, fin, reset, copyVars>>

\* (slip: none is armed on the upstream socket)
WaitingUnarmed(d) == pc[d] = "read" /\ idle[d] < IdleLimit /\ d = "up"

\* Time passes for the goroutines that read; Write has no deadline.
Waiting(d) == pc[d] = "read" /\ idle[d] < IdleLimit

Tick ==
  /\ \E d \in Directions : Waiting(d)
  /\ idle' = [d \in Directions |-> IF Waiting(d) THEN idle[d] + 1 ELSE idle[d]]
  /\ UNCHANGED <<peerVars, upstream, pc, total, put, eof, closed, timedOut>>

-----------------------------------------------------------------------------
(***************************************************************************)
(* copyWithTimeout, one goroutine per direction.                           *)
(***************************************************************************)
Goto(d, p) == pc' = [pc EXCEPT ![d] = p]

Read(d) ==
  /\ pc[d] = "read" /\ ~reset[Src(d)] /\ total[d] < sent[d]
  /\ total' = [total EXCEPT ![d] = @ + 1]
  /\ Goto(d, "write")
  /\ UNCHANGED <<peerVars, upstream, put, eof, idle, closed, timedOut>>

\* (slip: what is still buffered is dropped)
DrainedEarly(d) == fin[d]

Drained(d) == fin[d] /\ total[d] = sent[d]

\* Read returns an error and no data: end of stream or a reset.
ReadFails(d) ==
  /\ pc[d] = "read" /\ (Drained(d) \/ reset[Src(d)])
  /\ Goto(d, "shut")
  /\ UNCHANGED <<peerVars, upstream, total, put, eof, idle, closed, timedOut>>

\* The deadline has passed: Read fails even if a chunk has just come in.
ReadTimesOut(d) ==
  /\ pc[d] = "read" /\ idle[d] = IdleLimit
  /\ Goto(d, "shut")
  /\ timedOut' = [timedOut EXCEPT ![d] = TRUE]
  /\ UNCHANGED <<peerVars, upstream, total, put, eof, idle, closed>>

\* Write waits for room without a deadline; the next Read arms a new one.
Write(d) ==
  /\ pc[d] = "write" /\ ~reset[Dst(d)] /\ put[d] - consumed[d] < Window
  /\ put' = [put EXCEPT ![d] = @ + 1]
  /\ Goto(d, "read")
  /\ idle' = [idle EXCEPT ![d] = 0]
  /\ UNCHANGED <<peerVars, upstream, total, eof, closed, timedOut>>

\* (slip: the loop goes on after a failed Write)
WriteFailsIgnored(d) ==
  /\ pc[d] = "write" /\ reset[Dst(d)]
  /\ Goto(d, "read")
  /\ UNCHANGED <<peerVars, upstream, total, put, eof, idle, closed, timedOut>>

WriteFails(d) ==
  /\ pc[d] = "write" /\ reset[Dst(d)]
  /\ Goto(d, "shut")
  /\ UNCHANGED <<peerVars, upstream, total, put, eof, idle, closed, timedOut>>

\* The destination is a *net.TCPConn; *bufferedConn hides CloseWrite.
HasCloseWrite(d) == d = "down" \/ upstream = "tcp"

\* (slip: the sockets are half-closed when both directions have ended)
ShutTogether(d) ==
  /\ pc[d] = "shut" /\ pc[Other(d)] \in {"shut", "done"}
  /\ eof' = [eof EXCEPT ![d] = HasCloseWrite(d)]
  /\ Goto(d, "done")
  /\ UNCHANGED <<peerVars, upstream, total, put, idle, closed, timedOut>>

\* The goroutine of d passes the end on, if it can, and is done.
Shut(d) ==
  /\ pc[d] = "shut"
  /\ eof' = [eof EXCEPT ![d] = HasCloseWrite(d)]
  /\ Goto(d, "done")
  /\ UNCHANGED <<peerVars, upstream, total, put, idle, closed, timedOut>>

CopyStep(d) ==
  Read(d) \/ ReadFails(d) \/ ReadTimesOut(d) \/ Write(d) \/ WriteFails(d) \/ Shut(d)

\* Both goroutines have reported; handleConn returns and closes the sockets.
Close ==
  /\ ~closed /\ \A d \in Directions : pc[d] = "done"
  /\ closed' = TRUE
  /\ UNCHANGED <<peerVars, upstream, pc, total, put, eof, idle, timedOut>>

Next ==
  \/ Tick \/ Close
  \/ \E p \in Peers : Reset(p)
  \/ \E d \in Directions :
       Send(d) \/ EndStream(d) \/ Consume(d) \/ CopyStep(d)

Spec == Init /\ [][Next]_vars

\* The goroutines run and time passes; the peers need not do anything.
FairSpec ==
  /\ Spec /\ WF_vars(Tick) /\ WF_vars(Close)
  /\ \A d \in Directions : WF_vars(CopyStep(d))

-----------------------------------------------------------------------------
(***************************************************************************)
(* Properties.                                                             *)
(***************************************************************************)
\* A stream that ended by itself was delivered whole before its end was passed
\* on: the copy loses nothing that a peer sent unless a peer reset or a
\* deadline passed (relay.go bidirectionalCopy).
NothingLost ==
  \A d \in Directions :
    (pc[d] \in {"shut", "done"} /\ ~timedOut[d] /\ \A p \in Peers : ~reset[p]) =>
      fin[d] /\ put[d] = sent[d]

\* The byte counts of RecordConn exceed what the destination got by at most the
\* one buffer whose Write failed.
CountsDelivered ==
  \A d \in Directions :
    /\ put[d] <= total[d] /\ total[d] <= put[d] + 1
    /\ (pc[d] \in {"shut", "done"} /\ total[d] > put[d]) => reset[Dst(d)]

\* The goroutine of d is in a Write that waits for its peer to take something.
HeldByPeer(d) ==
  pc[d] = "write" /\ ~reset[Dst(d)] /\ put[d] - consumed[d] = Window

\* A peer that ends its stream is heard of at the other end, even if the other
\* direction never ends: only the hearer can hold this up, by not taking what
\* was sent before.  An upstream server behind the http proxy is the exception:
\* it hears of the client's end when the handler closes, so after its own
\* direction has ended, and a client that does not read holds that up for ever
\* (relay.go:248-251, 258-261, 305: bufferedConn is no *net.TCPConn).
EndsAreLearned ==
  \A d \in Directions :
    fin[d] ~> \/ eof[d] \/ HeldByPeer(d)
              \/ d = "up" /\ upstream = "http" /\ (closed \/ HeldByPeer("down"))

\* A silent peer does not keep a connection: if the peers send finitely much,
\* each goroutine ends or stays in a Write that its own destination, and no one
\* else, holds.  Write has no deadline, so that this may be for ever
\* (relay.go:280-296).
CopyEnds ==
  \A d \in Directions : <>[](pc[d] = "done" \/ HeldByPeer(d))
=============================================================================
