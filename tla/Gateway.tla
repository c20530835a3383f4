------------------------------ MODULE Gateway ------------------------------
(***************************************************************************)
(* The life of one gateway host: the `run` process (its main goroutine and *)
(* the goroutine that executes App.Run), the `clean` command, and the      *)
(* kernel state they configure through /proc, ip and nft.                  *)
(*                                                                         *)
(* The kernel state outlives the process: a killed process leaves behind   *)
(* what it had installed, and the next process starts from there.  Every   *)
(* external command is one step, so that the two goroutines and the clean  *)
(* command interleave between any two of them.                             *)
(***************************************************************************)
EXTENDS Naturals

CONSTANTS
  EnableIPv6,  \* cfg.TProxy.EnableIPv6
  HostForward, \* bound: the sets of switches a host may have on beforehand
  MaxStarts,   \* bound: how often the process is started
  MaxFaults,   \* bound: spurious failures in one phase (start, stop or clean)
  MaxConns     \* bound: relayed connections in flight

ASSUME GatewayAssumption ==
  /\ EnableIPv6 \in BOOLEAN
  /\ HostForward \subseteq SUBSET {"fwd4", "fwd6"}
  /\ MaxStarts \in Nat
  /\ MaxFaults \in Nat
  /\ MaxConns \in Nat

Forward  == {"fwd4", "fwd6"}                         \* the two /proc switches
Policy   == {"rule4", "route4", "rule6", "route6"}   \* ip rule, ip route
Resource == Forward \cup Policy \cup {"table"}       \* table inet lanproxy_gw

\* What Setup installs with this configuration.
Managed ==
  IF EnableIPv6 THEN Resource ELSE Resource \ {"fwd6", "rule6", "route6"}

VARIABLES
  kern,       \* the kernel: which resources are switched on or present
  faults,     \* spurious failures since the last Start, Stop or lone clean
  proc,       \* "off", "up", or how the last process ended
  starts,     \* processes started so far
  applied,    \* the managers' applied* fields
  was,        \* route.Manager.forwardWasEnabled, forward6WasEnabled
  run,        \* where the goroutine of App.Run is
  runAt,      \* the resource Setup, or the Restore it calls, is at
  main,       \* where the main goroutine is
  mainAt,     \* the resource Stop's Restore or ForceClean is at
  attempt,    \* the attempt of retry, 1..3
  errs,       \* route.Restore has collected an error in this attempt
  stopBy,     \* the select branch main took: "none", "signal", "error"
  closed,     \* relay.closeCh is closed
  listening,  \* relay.listener accepts connections
  conns,      \* connections the relay is serving
  cleaner,    \* where the `clean` command is
  \* History variables, read by properties only.
  orig,       \* the kernel state before the first process
  entry,      \* the kernel state when this process started
  stopAt,     \* how far Run had come when main began to stop
  meddled,    \* the clean command ran while this process was up
  alone       \* no process has been up since the clean command began

osVars    == <<kern, faults>>
procVars  == <<proc, starts>>
mgrVars   == <<applied, was>>
runVars   == <<run, runAt>>
mainVars  == <<main, mainAt, attempt, errs, stopBy>>
relayVars == <<closed, listening, conns>>
ghostVars == <<orig, entry, stopAt, meddled, alone>>
vars == <<osVars, procVars, mgrVars, runVars, mainVars, relayVars, cleaner,
          ghostVars>>

RunPC ==
  {"relayStart", "prepare", "apply", "record", "serving",
   "undo", "relayClose", "relayWait", "failed", "webFailed", "finished"}
MainPC ==
  {"select", "nfRestore", "nfForceList", "nfForceDelete",
   "rtRestore", "rtForce", "relayClose", "relayWait"}
CleanPC == {"idle", "list", "table", "done"} \cup Policy
Ended   == {"ok", "error", "panic", "killed", "hup"}

TypeOK ==
  /\ kern \in [Resource -> BOOLEAN]
  /\ faults \in 0 .. MaxFaults
  /\ proc \in {"off", "up"} \cup Ended
  /\ starts \in 0 .. MaxStarts
  /\ applied \in [Resource -> BOOLEAN]
  /\ was \in [Forward -> BOOLEAN]
  /\ run \in RunPC
  /\ runAt \in Resource
  /\ main \in MainPC
  /\ mainAt \in Resource
  /\ attempt \in 1 .. 3
  /\ errs \in BOOLEAN
  /\ stopBy \in {"none", "signal", "error"}
  /\ closed \in BOOLEAN
  /\ listening \in BOOLEAN
  /\ conns \in 0 .. MaxConns
  /\ cleaner \in CleanPC
  /\ orig \in [Resource -> BOOLEAN]
  /\ entry \in [Resource -> BOOLEAN]
  /\ stopAt \in {"none", "starting", "failed", "served"}
  /\ meddled \in BOOLEAN
  /\ alone \in BOOLEAN

Init ==
  /\ \E on \in HostForward : kern = [r \in Resource |-> r \in on]
  /\ faults = 0
  /\ proc = "off"
  /\ starts = 0
  /\ applied = [r \in Resource |-> FALSE]
  /\ was = [f \in Forward |-> FALSE]
  /\ run = "finished" /\ runAt = "fwd4"
  /\ main = "select" /\ mainAt = "route6" /\ attempt = 1 /\ errs = FALSE
  /\ stopBy = "none"
  /\ closed = FALSE /\ listening = FALSE /\ conns = 0
  /\ cleaner = "idle"
  /\ orig = kern /\ entry = kern
  /\ stopAt = "none" /\ meddled = FALSE /\ alone = TRUE

-----------------------------------------------------------------------------
(***************************************************************************)
(* External commands.  A command fails because the kernel refuses it (the  *)
(* rule to delete does not exist) or spuriously (fork failed, a lock is    *)
(* held): the latter costs one of MaxFaults.                               *)
(***************************************************************************)
Fault == faults < MaxFaults /\ faults' = faults + 1

\* `ip rule del`, `ip route del`, `nft delete table`: fails if r is absent.
Delete(r, ok) ==
  \/ ok  /\ kern[r]  /\ kern' = [kern EXCEPT ![r] = FALSE] /\ UNCHANGED faults
  \/ ~ok /\ ~kern[r] /\ UNCHANGED <<kern, faults>>
  \/ ~ok /\ kern[r]  /\ Fault /\ UNCHANGED kern

\* Writing "0" to a forwarding switch.
SwitchOff(f, ok) ==
  \/ ok  /\ kern' = [kern EXCEPT ![f] = FALSE] /\ UNCHANGED faults
  \/ ~ok /\ Fault /\ UNCHANGED kern

(***************************************************************************)
(* The order of the operations.                                            *)
(***************************************************************************)
\* (slip: the IPv4 route is forgotten)
SetupNextNoRoute4(r) ==
  CASE r = "fwd4"  -> "rule4"
    [] r = "rule4" -> IF EnableIPv6 THEN "fwd6" ELSE "table"
    [] r = "fwd6"  -> "rule6"
    [] r = "rule6" -> "route6"
    [] r = "route6" -> "table"
    [] OTHER       -> "done"

SetupNext(r) ==
  CASE r = "fwd4"   -> "rule4"
    [] r = "rule4"  -> "route4"
    [] r = "route4" -> IF EnableIPv6 THEN "fwd6" ELSE "table"
    [] r = "fwd6"   -> "rule6"
    [] r = "rule6"  -> "route6"
    [] r = "route6" -> "table"
    [] OTHER        -> "done"

RestoreNext(r) ==
  CASE r = "route6" -> "rule6"
    [] r = "rule6"  -> "route4"
    [] r = "route4" -> "rule4"
    [] r = "rule4"  -> "fwd6"
    [] r = "fwd6"   -> "fwd4"
    [] OTHER        -> "done"

\* (slip: the IPv6 rule is forgotten)
ForceNextNoRule6(r) ==
  CASE r = "route4" -> "rule4"
    [] r = "rule4"  -> "route6"
    [] OTHER        -> "done"

ForceNext(r) ==
  CASE r = "route4" -> "rule4"
    [] r = "rule4"  -> "route6"
    [] r = "route6" -> "rule6"
    [] OTHER        -> "done"

(***************************************************************************)
(* The process: started by systemd, docker or hand, ended by main, by a    *)
(* panic, or by a signal it does not handle.                               *)
(***************************************************************************)
\* The fields of App, route.Manager, netfilter.Manager and Relay as New makes
\* them, and the goroutines but for App.Run's.
FreshMemory ==
  /\ applied' = [r \in Resource |-> FALSE]
  /\ was' = [f \in Forward |-> FALSE]
  /\ runAt' = "fwd4"
  /\ main' = "select" /\ mainAt' = "route6" /\ attempt' = 1 /\ errs' = FALSE
  /\ stopBy' = "none"
  /\ closed' = FALSE /\ listening' = FALSE /\ conns' = 0

Start ==
  /\ proc # "up" /\ starts < MaxStarts
  /\ proc' = "up" /\ starts' = starts + 1
  /\ FreshMemory /\ run' = "relayStart"
  /\ faults' = 0
  /\ entry' = kern /\ stopAt' = "none" /\ meddled' = FALSE /\ alone' = FALSE
  /\ UNCHANGED <<kern, cleaner, orig>>

\* Memory, sockets and goroutines go with the process; the kernel state stays.
ExitWith(how) ==
  /\ proc' = how
  /\ FreshMemory /\ run' = "finished"
  /\ UNCHANGED starts

\* SIGKILL, the OOM killer, the power switch of the container.
Kill ==
  /\ proc = "up"
  /\ ExitWith("killed")
  /\ UNCHANGED <<osVars, cleaner, ghostVars>>

\* ExecReload sends SIGHUP, which signal.Notify does not subscribe to.
Reload ==
  /\ proc = "up"
  /\ ExitWith("hup")
  /\ UNCHANGED <<osVars, cleaner, ghostVars>>

(***************************************************************************)
(* The relay, as far as starting and stopping it goes.                     *)
(***************************************************************************)
\* Accepted through the rules, through what an earlier process left of them,
\* or by a client that dials the port itself.
OpenConn ==
  /\ proc = "up" /\ listening /\ conns < MaxConns
  /\ conns' = conns + 1
  /\ UNCHANGED <<osVars, procVars, mgrVars, runVars, mainVars, closed,
                 listening, cleaner, ghostVars>>

CloseConn ==
  /\ proc = "up" /\ conns > 0
  /\ conns' = conns - 1
  /\ UNCHANGED <<osVars, procVars, mgrVars, runVars, mainVars, closed,
                 listening, cleaner, ghostVars>>

\* (slip: the listener is not closed)
StopRelayListening(next) ==
  \/ /\ ~closed
     /\ closed' = TRUE /\ UNCHANGED listening
     /\ next
     /\ UNCHANGED <<procVars, mgrVars, conns>>
  \/ closed /\ ExitWith("panic")

\* relay.Stop up to wg.Wait: closing a closed channel panics.
StopRelay(next) ==
  \/ /\ ~closed
     /\ closed' = TRUE /\ listening' = FALSE
     /\ next
     /\ UNCHANGED <<procVars, mgrVars, conns>>
  \/ closed /\ ExitWith("panic")

\* wg.Wait: the accept loop and every handler have returned.
RelayDrained == ~listening /\ conns = 0

-----------------------------------------------------------------------------
(***************************************************************************)
(* The goroutine of App.Run: relay.Start, route.Setup, netfilter.Setup,    *)
(* then it waits for the context or for the WebUI.                         *)
(***************************************************************************)
RunRelayStart ==
  /\ proc = "up" /\ run = "relayStart"
  /\ \/ listening' = TRUE /\ run' = "prepare" /\ UNCHANGED faults
     \/ Fault /\ run' = "failed" /\ UNCHANGED listening
  /\ UNCHANGED <<kern, procVars, mgrVars, runAt, mainVars, closed, conns,
                 cleaner, ghostVars>>

SetupAdvances ==
  IF SetupNext(runAt) = "done"
  THEN run' = "serving" /\ UNCHANGED runAt
  ELSE run' = "prepare" /\ runAt' = SetupNext(runAt)

\* A failed route.Setup is not undone by Run; a failed netfilter.Setup is.
SetupFails ==
  IF runAt = "table"
  THEN run' = "undo" /\ runAt' = "route6"
  ELSE run' = "relayClose" /\ UNCHANGED runAt

\* Remember how the switch stood; leave it alone if it is on.
ReadForward ==
  /\ proc = "up" /\ run = "prepare" /\ runAt \in Forward
  /\ \/ /\ was' = [was EXCEPT ![runAt] = kern[runAt]]
        /\ IF kern[runAt]
           THEN SetupAdvances
           ELSE run' = "apply" /\ UNCHANGED runAt
        /\ UNCHANGED faults
     \/ Fault /\ SetupFails /\ UNCHANGED was
  /\ UNCHANGED <<kern, procVars, applied, mainVars, relayVars, cleaner,
                 ghostVars>>

\* Delete what an earlier process left, whatever comes of it.  Only
\* netfilter.Setup can fail here: LookPath does not find nft.
DropStale ==
  /\ proc = "up" /\ run = "prepare" /\ runAt \notin Forward
  /\ \/ /\ \E ok \in BOOLEAN : Delete(runAt, ok)
        /\ run' = "apply" /\ UNCHANGED runAt
     \/ runAt = "table" /\ Fault /\ SetupFails /\ UNCHANGED kern
  /\ UNCHANGED <<procVars, mgrVars, mainVars, relayVars, cleaner, ghostVars>>

\* `ip ... add` refuses what exists; writing "1" and `nft -f` do not.  The
\* nft -f child is in the process group of the gateway: a signal to the group
\* can kill it after its transaction is committed.
Apply ==
  /\ proc = "up" /\ run = "apply"
  /\ \/ /\ runAt \in Policy => ~kern[runAt]
        /\ kern' = [kern EXCEPT ![runAt] = TRUE]
        /\ run' = "record" /\ UNCHANGED <<faults, runAt>>
     \/ runAt \in Policy /\ kern[runAt] /\ SetupFails /\ UNCHANGED osVars
     \/ Fault /\ SetupFails /\ UNCHANGED kern
     \/ /\ runAt = "table" /\ Fault /\ SetupFails
        /\ kern' = [kern EXCEPT !["table"] = TRUE]
  /\ UNCHANGED <<procVars, mgrVars, mainVars, relayVars, cleaner, ghostVars>>

Record ==
  /\ proc = "up" /\ run = "record"
  /\ applied' = [applied EXCEPT ![runAt] = TRUE]
  /\ SetupAdvances
  /\ UNCHANGED <<osVars, procVars, was, mainVars, relayVars, cleaner,
                 ghostVars>>

\* (slip: forwarding is lowered whoever raised it)
ToUndoForward(r) == applied[r] \/ r \in Forward

\* route.Restore undoes r if this process switched it on or added it.
ToUndo(r) == applied[r] /\ (r \in Forward => ~was[r])

Undo(r, ok) == IF r \in Forward THEN SwitchOff(r, ok) ELSE Delete(r, ok)

\* Run calls route.Restore once when netfilter.Setup failed, and drops its error.
RunUndo ==
  /\ proc = "up" /\ run = "undo"
  /\ IF ToUndo(runAt) THEN \E ok \in BOOLEAN : Undo(runAt, ok)
                      ELSE UNCHANGED osVars
  /\ IF RestoreNext(runAt) = "done"
     THEN run' = "relayClose" /\ UNCHANGED runAt
     ELSE runAt' = RestoreNext(runAt) /\ UNCHANGED run
  /\ UNCHANGED <<procVars, mgrVars, mainVars, relayVars, cleaner, ghostVars>>

RunRelayClose ==
  /\ proc = "up" /\ run = "relayClose"
  /\ StopRelay(run' = "relayWait" /\ UNCHANGED <<runAt, mainVars>>)
  /\ UNCHANGED <<osVars, cleaner, ghostVars>>

RunRelayWait ==
  /\ proc = "up" /\ run = "relayWait" /\ RelayDrained
  /\ run' = "failed"
  /\ UNCHANGED <<osVars, procVars, mgrVars, runAt, mainVars, relayVars,
                 cleaner, ghostVars>>

\* Stop cancels the context, or the WebUI cannot serve any more.
RunEnds ==
  /\ proc = "up" /\ run = "serving"
  /\ \/ main # "select" /\ run' = "finished"
     \/ run' = "webFailed"
  /\ UNCHANGED <<osVars, procVars, mgrVars, runAt, mainVars, relayVars,
                 cleaner, ghostVars>>

RunStep ==
  \/ RunRelayStart \/ ReadForward \/ DropStale \/ Apply \/ Record
  \/ RunUndo \/ RunRelayClose \/ RunRelayWait \/ RunEnds

-----------------------------------------------------------------------------
(***************************************************************************)
(* The main goroutine: wait for a signal or for Run's error, then App.Stop.*)
(***************************************************************************)
\* (slip: the routes are cleaned before the table)
RoutesFirst == "rtRestore"

FirstCleanup == "nfRestore"

StopBegins(by) ==
  /\ main = "select"
  /\ main' = FirstCleanup /\ mainAt' = "route6" /\ attempt' = 1 /\ errs' = FALSE
  /\ stopBy' = by
  /\ faults' = 0
  /\ stopAt' = CASE run \in {"serving", "webFailed"} -> "served"
                 [] run = "failed"                   -> "failed"
                 [] OTHER                            -> "starting"

Signal ==
  /\ proc = "up"
  /\ StopBegins("signal")
  /\ UNCHANGED <<kern, procVars, mgrVars, runVars, relayVars, cleaner, orig,
                 entry, meddled, alone>>

RunError ==
  /\ proc = "up" /\ run \in {"failed", "webFailed"}
  /\ StopBegins("error")
  /\ UNCHANGED <<kern, procVars, mgrVars, runVars, relayVars, cleaner, orig,
                 entry, meddled, alone>>

\* (slips: one attempt too many, one too few, attempts without end)
RetryFour(restore, force) ==
  IF attempt < 4
  THEN main' = restore /\ attempt' = attempt + 1
  ELSE main' = force /\ attempt' = 1

RetryTwice(restore, force) ==
  IF attempt < 2
  THEN main' = restore /\ attempt' = attempt + 1
  ELSE main' = force /\ attempt' = 1

RetryForever(restore, force) == main' = restore /\ UNCHANGED attempt

\* What main does when Restore fails: retry it, or fall back to ForceClean.
Retry(restore, force) ==
  IF attempt < 3
  THEN main' = restore /\ attempt' = attempt + 1
  ELSE main' = force /\ attempt' = 1

\* netfilter.Restore under retry.
NfRestore ==
  /\ proc = "up" /\ main = "nfRestore"
  /\ \/ /\ ~applied["table"]
        /\ main' = "rtRestore" /\ attempt' = 1
        /\ UNCHANGED <<osVars, applied>>
     \/ /\ applied["table"] /\ Delete("table", TRUE)
        /\ applied' = [applied EXCEPT !["table"] = FALSE]
        /\ main' = "rtRestore" /\ attempt' = 1
     \/ /\ applied["table"] /\ Delete("table", FALSE)
        /\ Retry("nfRestore", "nfForceList")
        /\ UNCHANGED applied
  /\ UNCHANGED <<procVars, was, runVars, mainAt, errs, stopBy, relayVars,
                 cleaner, ghostVars>>

\* `nft list` says whether there is a table; when it fails there is none.
ListTable(found) ==
  \/ found  /\ kern["table"]  /\ UNCHANGED osVars
  \/ ~found /\ ~kern["table"] /\ UNCHANGED osVars
  \/ ~found /\ kern["table"]  /\ Fault /\ UNCHANGED kern

NfForceList ==
  /\ proc = "up" /\ main = "nfForceList"
  /\ \E found \in BOOLEAN :
       /\ ListTable(found)
       /\ main' = IF found THEN "nfForceDelete" ELSE "rtRestore"
  /\ UNCHANGED <<procVars, mgrVars, runVars, mainAt, attempt, errs, stopBy,
                 relayVars, cleaner, ghostVars>>

NfForceDelete ==
  /\ proc = "up" /\ main = "nfForceDelete"
  /\ \E ok \in BOOLEAN : Delete("table", ok)
  /\ main' = "rtRestore"
  /\ UNCHANGED <<procVars, mgrVars, runVars, mainAt, attempt, errs, stopBy,
                 relayVars, cleaner, ghostVars>>

\* One step of route.Restore under retry; the applied flags are never cleared,
\* so a retry deletes again what the attempt before has deleted, and fails.
RtRestore ==
  /\ proc = "up" /\ main = "rtRestore"
  /\ \E ok \in BOOLEAN :
       /\ IF ToUndo(mainAt) THEN Undo(mainAt, ok) ELSE ok /\ UNCHANGED osVars
       /\ LET failed == errs \/ ~ok IN
          IF RestoreNext(mainAt) # "done"
          THEN /\ mainAt' = RestoreNext(mainAt) /\ errs' = failed
               /\ UNCHANGED <<main, attempt>>
          ELSE /\ errs' = FALSE
               /\ IF failed
                  THEN /\ Retry("rtRestore", "rtForce")
                       /\ mainAt' = IF attempt < 3 THEN "route6" ELSE "route4"
                  ELSE main' = "relayClose" /\ UNCHANGED <<mainAt, attempt>>
  /\ UNCHANGED <<procVars, mgrVars, runVars, stopBy, relayVars, cleaner,
                 ghostVars>>

\* route.ForceClean: both families, errors ignored, forwarding left alone.
RtForce ==
  /\ proc = "up" /\ main = "rtForce"
  /\ \E ok \in BOOLEAN : Delete(mainAt, ok)
  /\ IF ForceNext(mainAt) = "done"
     THEN main' = "relayClose" /\ UNCHANGED mainAt
     ELSE mainAt' = ForceNext(mainAt) /\ UNCHANGED main
  /\ UNCHANGED <<procVars, mgrVars, runVars, attempt, errs, stopBy, relayVars,
                 cleaner, ghostVars>>

MainRelayClose ==
  /\ proc = "up" /\ main = "relayClose"
  /\ StopRelay(/\ main' = "relayWait"
               /\ UNCHANGED <<mainAt, attempt, errs, stopBy, runVars>>)
  /\ UNCHANGED <<osVars, cleaner, ghostVars>>

\* wg.Wait has returned: runCmd returns nil after a signal, else Run's error.
MainExit ==
  /\ proc = "up" /\ main = "relayWait" /\ RelayDrained
  /\ ExitWith(IF stopBy = "signal" THEN "ok" ELSE "error")
  /\ UNCHANGED <<osVars, cleaner, ghostVars>>

MainStep ==
  \/ RunError \/ NfRestore \/ NfForceList \/ NfForceDelete
  \/ RtRestore \/ RtForce \/ MainRelayClose \/ MainExit

-----------------------------------------------------------------------------
(***************************************************************************)
(* `lanproxy-gateway clean`, meant for the residue of a killed process.    *)
(* Nothing stops anyone from running it beside a process that serves, and  *)
(* the supervisor may start the next process in the middle of it.          *)
(***************************************************************************)
CleanStart ==
  /\ cleaner = "idle"
  /\ cleaner' = "list"
  /\ alone' = (proc # "up")
  /\ faults' = IF proc = "up" THEN faults ELSE 0
  /\ meddled' = (meddled \/ proc = "up")
  /\ UNCHANGED <<kern, procVars, mgrVars, runVars, mainVars, relayVars, orig,
                 entry, stopAt>>

CleanListTable ==
  /\ cleaner = "list"
  /\ \E found \in BOOLEAN :
       /\ ListTable(found)
       /\ cleaner' = IF found THEN "table" ELSE "route4"
  /\ meddled' = (meddled \/ proc = "up")
  /\ UNCHANGED <<procVars, mgrVars, runVars, mainVars, relayVars, orig, entry,
                 stopAt, alone>>

CleanDelete ==
  /\ cleaner \in Policy \cup {"table"}
  /\ \E ok \in BOOLEAN : Delete(cleaner, ok)
  /\ cleaner' = IF cleaner = "table" THEN "route4" ELSE ForceNext(cleaner)
  /\ meddled' = (meddled \/ proc = "up")
  /\ UNCHANGED <<procVars, mgrVars, runVars, mainVars, relayVars, orig, entry,
                 stopAt, alone>>

CleanStep == CleanStart \/ CleanListTable \/ CleanDelete

-----------------------------------------------------------------------------
Next ==
  \/ Start \/ Kill \/ Reload \/ OpenConn \/ CloseConn
  \/ RunStep \/ Signal \/ MainStep \/ CleanStep

Spec == Init /\ [][Next]_vars

\* The scheduler runs both goroutines; nothing makes anyone start, signal or
\* kill the process, or a connection end.
FairSpec == Spec /\ WF_vars(RunStep) /\ WF_vars(MainStep)

-----------------------------------------------------------------------------
(***************************************************************************)
(* Properties.                                                             *)
(***************************************************************************)
Up    == proc = "up"
Exits == {"ok", "error"}

\* Once App.Run reports itself ready and nobody has begun to stop it, traffic
\* is intercepted completely: the listener accepts and every rule, route, table
\* and forwarding switch of the configuration is in place, whatever an earlier
\* process left behind (app.go Run, route.go Setup, netfilter.go Setup).
ServingIsComplete ==
  (Up /\ run = "serving" /\ main = "select" /\ ~meddled) =>
    /\ listening
    /\ \A r \in Managed : kern[r]

\* A hijacking rule never points at a dead port while a process that served is
\* stopping: as long as the table is loaded, the listener and the routes that
\* carry the marked packets are there, unless all three attempts to delete the
\* table and the forced removal failed (app.go Stop: "the order matters").
OrderlyTeardown ==
  (Up /\ stopAt = "served" /\ ~meddled /\ kern["table"] /\ faults < 4) =>
    /\ listening
    /\ \A r \in Managed \cap Policy : kern[r]

\* What an orderly exit may leave: a rule, route or table only after four
\* failed commands, a forwarding switch the process had raised only after
\* three, because ForceClean does not touch the switches (app.go Stop, retry).
\* A clean command that runs beside the process, and makes Stop's commands fail
\* on what is already gone, does not change that; one that begins after the
\* exit starts an account of its own.
ResidueCostsFaults ==
  (proc \in Exits /\ stopAt = "served" /\ ~alone) =>
    /\ (\E r \in Resource \ Forward : kern[r]) => faults >= 4
    /\ (\E f \in Forward : kern[f] # entry[f]) => faults >= 3

\* Forwarding is lowered only by the process that raised it, never when it was
\* on as this process started: the host may be a router on its own account
\* (route.go enableForward, Restore).
ForwardLoweredByItsRaiser ==
  [][\A f \in Forward :
       (kern[f] /\ ~kern'[f]) => (Up /\ ~entry[f] /\ applied[f])]_vars

\* A host that forwarded before the gateway was installed forwards at all
\* times, through every crash, restart and clean.
ForwardingNeverLost == \A f \in Forward : orig[f] => kern[f]

\* The clean command leaves no rule, route or table behind when no command
\* failed and no process was up meanwhile, whether or not the configuration it
\* reads still enables IPv6 (main.go cleanCmd).
CleanRemovesResidue ==
  (cleaner = "done" /\ alone /\ faults = 0) =>
    \A r \in Resource \ Forward : ~kern[r]

\* Once main has left its select, the cleanup commands come to their end: Stop
\* closes the relay or the process is gone, however often the commands fail
\* (app.go Stop).
StopReachesRelay ==
  (Up /\ stopBy # "none") ~> (~Up \/ main = "relayWait")

\* Only a peer can hold start-up: a process nobody stops comes to serve, or to
\* report its error to main, unless a set-up that failed waits for connections
\* that were accepted before it closed the listener.  The promise is made again
\* in every state, and the number of those connections only falls, so that what
\* holds start-up for ever is a peer that never ends its connection.  Then the
\* process neither serves nor exits (app.go:85,92, relay.go Stop: wg.Wait).
StartHeldOnlyByPeers ==
  (Up /\ main = "select") ~>
    \/ ~Up \/ main # "select"
    \/ run = "serving"
    \/ run = "relayWait" /\ conns > 0

(***************************************************************************)
(* Claims of the repository that the runs refute.                          *)
(***************************************************************************)
\* main.go:76-78: after a signal Stop runs synchronously, so that the rules are
\* gone before the process exits.
SignalledExitIsClean ==
  (proc = "ok" /\ faults = 0) => \A r \in Resource \ Forward : ~kern[r]

\* app.go:118: "Stop stops gracefully and cleans all system state".
StopNeverPanics == proc # "panic"
=============================================================================
