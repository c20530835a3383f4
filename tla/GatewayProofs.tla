--------------------------- MODULE GatewayProofs ---------------------------
(***************************************************************************)
(* Proofs about Gateway, for both values of EnableIPv6 and every bound,    *)
(* about Ruleset and about Traffic, which composes them.  First one        *)
(* process at a time: what start and rollback leave.  Then the end of a    *)
(* process that has served, and the clean command.  Last what the rendered *)
(* chain does with every packet, and what becomes of the packets during    *)
(* the life of a process.                                                  *)
(***************************************************************************)
EXTENDS Traffic, TLAPS

\* The groups of variables that an action leaves alone.
USE DEF osVars, procVars, mgrVars, runVars, mainVars, relayVars, ghostVars

(***************************************************************************)
(* The orders of the operations stay inside the sets they walk.            *)
(***************************************************************************)
LEMMA OrdersTyped ==
  /\ \A r \in Resource : SetupNext(r) = "done" \/ SetupNext(r) \in Resource
  /\ \A r \in Resource : RestoreNext(r) = "done" \/ RestoreNext(r) \in Resource
  /\ \A r \in Policy : ForceNext(r) \in Policy \cup {"done"}
BY DEF SetupNext, RestoreNext, ForceNext, Resource, Forward, Policy

(***************************************************************************)
(* External commands keep the kernel state and the fault counter typed.    *)
(***************************************************************************)
LEMMA CommandsTyped ==
  ASSUME TypeOK, NEW r \in Resource, NEW ok \in BOOLEAN
  PROVE  /\ Fault => faults' \in 0 .. MaxFaults
         /\ Delete(r, ok) =>
              kern' \in [Resource -> BOOLEAN] /\ faults' \in 0 .. MaxFaults
         /\ Undo(r, ok) =>
              kern' \in [Resource -> BOOLEAN] /\ faults' \in 0 .. MaxFaults
<1> USE GatewayAssumption DEF TypeOK, Fault
<1>1. Fault => faults' \in 0 .. MaxFaults
  OBVIOUS
<1>2. Delete(r, ok) =>
        kern' \in [Resource -> BOOLEAN] /\ faults' \in 0 .. MaxFaults
  BY <1>1 DEF Delete
<1>3. SwitchOff(r, ok) =>
        kern' \in [Resource -> BOOLEAN] /\ faults' \in 0 .. MaxFaults
  BY <1>1 DEF SwitchOff
<1> QED
  BY <1>1, <1>2, <1>3 DEF Undo

LEMMA FreshMemoryTyped ==
  FreshMemory =>
    /\ applied' \in [Resource -> BOOLEAN] /\ was' \in [Forward -> BOOLEAN]
    /\ runAt' \in Resource
    /\ main' \in MainPC /\ mainAt' \in Resource /\ attempt' \in 1 .. 3
    /\ errs' \in BOOLEAN /\ stopBy' \in {"none", "signal", "error"}
    /\ closed' \in BOOLEAN /\ listening' \in BOOLEAN /\ conns' \in 0 .. MaxConns
<1> SUFFICES ASSUME FreshMemory
             PROVE  /\ applied' \in [Resource -> BOOLEAN] /\ was' \in [Forward -> BOOLEAN]
                    /\ runAt' \in Resource
                    /\ main' \in MainPC /\ mainAt' \in Resource /\ attempt' \in 1 .. 3
                    /\ errs' \in BOOLEAN /\ stopBy' \in {"none", "signal", "error"}
                    /\ closed' \in BOOLEAN /\ listening' \in BOOLEAN
                    /\ conns' \in 0 .. MaxConns
  OBVIOUS
<1>1. applied' \in [Resource -> BOOLEAN] /\ was' \in [Forward -> BOOLEAN]
  BY DEF FreshMemory
<1>2. runAt' \in Resource /\ mainAt' \in Resource
  BY DEF FreshMemory, Resource, Forward, Policy
<1>3. main' \in MainPC /\ attempt' \in 1 .. 3 /\ stopBy' \in {"none", "signal", "error"}
  BY DEF FreshMemory, MainPC
<1>4. errs' \in BOOLEAN /\ closed' \in BOOLEAN /\ listening' \in BOOLEAN
  BY Zenon DEF FreshMemory
<1>5. conns' \in 0 .. MaxConns
  BY GatewayAssumption DEF FreshMemory
<1> QED
  BY <1>1, <1>2, <1>3, <1>4, <1>5

LEMMA StopBeginsTyped ==
  ASSUME NEW by \in {"none", "signal", "error"}, StopBegins(by)
  PROVE  /\ main' \in MainPC /\ mainAt' \in Resource /\ attempt' \in 1 .. 3
         /\ errs' \in BOOLEAN /\ stopBy' \in {"none", "signal", "error"}
         /\ faults' \in 0 .. MaxFaults
         /\ stopAt' \in {"none", "starting", "failed", "served"}
<1>1. errs' \in BOOLEAN
  BY Zenon DEF StopBegins, FirstCleanup
<1>2. main' \in MainPC /\ mainAt' \in Resource
  BY DEF StopBegins, FirstCleanup, MainPC, Resource, Policy
<1>3. attempt' \in 1 .. 3 /\ faults' \in 0 .. MaxFaults
  BY GatewayAssumption DEF StopBegins, FirstCleanup
<1>4. /\ stopBy' \in {"none", "signal", "error"}
      /\ stopAt' \in {"none", "starting", "failed", "served"}
  BY DEF StopBegins, FirstCleanup
<1> QED
  BY <1>1, <1>2, <1>3, <1>4

(***************************************************************************)
(* Every variable keeps its type: in particular the fault, connection and  *)
(* start counters stay within their bounds, and no order of the operations *)
(* walks off its list.                                                     *)
(***************************************************************************)
LEMMA TypeStep == TypeOK /\ [Next]_vars => TypeOK'
<1> SUFFICES ASSUME TypeOK, [Next]_vars PROVE TypeOK'
  OBVIOUS
<1> USE GatewayAssumption
<1>1. CASE Start
  <2>1. meddled' \in BOOLEAN /\ alone' \in BOOLEAN
    BY <1>1, Zenon DEF Start
  <2>2. faults' \in 0 .. MaxFaults /\ starts' \in 0 .. MaxStarts
    BY <1>1 DEF Start, TypeOK
  <2> QED
    BY <1>1, <2>1, <2>2, FreshMemoryTyped DEF Start, TypeOK, RunPC
<1>2. CASE Kill \/ Reload
  BY <1>2, FreshMemoryTyped DEF Kill, Reload, ExitWith, TypeOK, RunPC, Ended
<1>3. CASE OpenConn \/ CloseConn
  BY <1>3 DEF OpenConn, CloseConn, TypeOK
<1>4. CASE Signal
  BY <1>4, StopBeginsTyped DEF Signal, TypeOK
<1>5. CASE RunStep
  <2>1. CASE RunRelayStart
    BY <2>1, CommandsTyped DEF RunRelayStart, TypeOK, RunPC
  <2>2. CASE ReadForward
    BY <2>2, CommandsTyped, OrdersTyped
       DEF ReadForward, SetupAdvances, SetupFails, TypeOK, RunPC, Resource, Forward, Policy
  <2>3. CASE DropStale
    BY <2>3, CommandsTyped
       DEF DropStale, SetupFails, TypeOK, RunPC, Resource, Policy
  <2>4. CASE Apply
    <3>1. kern' \in [Resource -> BOOLEAN]
      BY <2>4 DEF Apply, TypeOK
    <3>2. faults' \in 0 .. MaxFaults
      BY <2>4, CommandsTyped DEF Apply, TypeOK, Resource
    <3>3. run' \in RunPC /\ runAt' \in Resource
      BY <2>4 DEF Apply, SetupFails, TypeOK, RunPC, Resource, Policy
    <3> QED
      BY <2>4, <3>1, <3>2, <3>3 DEF Apply, TypeOK
  <2>5. CASE Record
    BY <2>5, OrdersTyped DEF Record, SetupAdvances, TypeOK, RunPC
  <2>6. CASE RunUndo
    BY <2>6, CommandsTyped, OrdersTyped DEF RunUndo, TypeOK, RunPC
  <2>7. CASE RunRelayClose
    BY <2>7, FreshMemoryTyped
       DEF RunRelayClose, StopRelay, ExitWith, TypeOK, RunPC, Ended
  <2>8. CASE RunRelayWait
    BY <2>8 DEF RunRelayWait, TypeOK, RunPC
  <2>9. CASE RunEnds
    BY <2>9 DEF RunEnds, TypeOK, RunPC
  <2> QED
    BY <1>5, <2>1, <2>2, <2>3, <2>4, <2>5, <2>6, <2>7, <2>8, <2>9 DEF RunStep
<1>6. CASE MainStep
  <2>1. CASE RunError
    BY <2>1, StopBeginsTyped DEF RunError, TypeOK
  <2>2. CASE NfRestore
    <3>1. "table" \in Resource
      BY DEF Resource
    <3>2. kern' \in [Resource -> BOOLEAN] /\ faults' \in 0 .. MaxFaults
      BY <2>2, <3>1, CommandsTyped DEF NfRestore, TypeOK
    <3>3. applied' \in [Resource -> BOOLEAN]
      BY <2>2 DEF NfRestore, TypeOK
    <3>4. \/ main' = "rtRestore" /\ attempt' = 1
          \/ Retry("nfRestore", "nfForceList")
      BY <2>2 DEF NfRestore
    <3>5. main' \in MainPC /\ attempt' \in 1 .. 3
      BY <3>4 DEF Retry, TypeOK, MainPC
    <3> QED
      BY <2>2, <3>2, <3>3, <3>5 DEF NfRestore, TypeOK
  <2>3. CASE NfForceList
    BY <2>3, CommandsTyped DEF NfForceList, ListTable, TypeOK, MainPC
  <2>4. CASE NfForceDelete
    BY <2>4, CommandsTyped DEF NfForceDelete, TypeOK, MainPC, Resource
  <2>5. CASE RtRestore
    <3>1. mainAt' \in Resource
      BY <2>5, OrdersTyped DEF RtRestore, TypeOK, Resource, Policy
    <3>2. kern' \in [Resource -> BOOLEAN] /\ faults' \in 0 .. MaxFaults
      BY <2>5, CommandsTyped DEF RtRestore, TypeOK
    <3>3. main' \in MainPC /\ attempt' \in 1 .. 3
      BY <2>5 DEF RtRestore, Retry, TypeOK, MainPC
    <3>4. errs' \in BOOLEAN
      BY <2>5 DEF RtRestore, TypeOK
    <3> QED
      BY <2>5, <3>1, <3>2, <3>3, <3>4 DEF RtRestore, TypeOK
  <2>6. CASE RtForce
    BY <2>6, CommandsTyped, OrdersTyped
       DEF RtForce, ForceNext, TypeOK, MainPC, Resource, Policy
  <2>7. CASE MainRelayClose
    BY <2>7, FreshMemoryTyped
       DEF MainRelayClose, StopRelay, ExitWith, TypeOK, RunPC, MainPC, Ended
  <2>8. CASE MainExit
    BY <2>8, FreshMemoryTyped DEF MainExit, ExitWith, TypeOK, RunPC, Ended
  <2> QED
    BY <1>6, <2>1, <2>2, <2>3, <2>4, <2>5, <2>6, <2>7, <2>8 DEF MainStep
<1>7. CASE CleanStep
  <2>1. CASE CleanStart
    <3>1. alone' \in BOOLEAN /\ meddled' \in BOOLEAN
      BY <2>1, Zenon DEF CleanStart
    <3>2. faults' \in 0 .. MaxFaults
      BY <2>1 DEF CleanStart, TypeOK
    <3> QED
      BY <2>1, <3>1, <3>2 DEF CleanStart, TypeOK, CleanPC
  <2>2. CASE CleanListTable
    BY <2>2, CommandsTyped DEF CleanListTable, ListTable, TypeOK, CleanPC, Policy
  <2>3. CASE CleanDelete
    BY <2>3, CommandsTyped, OrdersTyped
       DEF CleanDelete, TypeOK, CleanPC, Resource, Policy
  <2> QED
    BY <1>7, <2>1, <2>2, <2>3 DEF CleanStep
<1>8. CASE UNCHANGED vars
  BY <1>8 DEF vars, TypeOK
<1> QED
  BY <1>1, <1>2, <1>3, <1>4, <1>5, <1>6, <1>7, <1>8 DEF Next

THEOREM TypeCorrect == Spec => []TypeOK
<1>1. Init => TypeOK
  <2> SUFFICES ASSUME Init PROVE TypeOK
    OBVIOUS
  <2>1. /\ errs \in BOOLEAN /\ closed \in BOOLEAN /\ listening \in BOOLEAN
        /\ meddled \in BOOLEAN /\ alone \in BOOLEAN
    BY Zenon DEF Init
  <2>2. /\ kern \in [Resource -> BOOLEAN]
        /\ orig \in [Resource -> BOOLEAN]
        /\ entry \in [Resource -> BOOLEAN]
    BY DEF Init
  <2>3. applied \in [Resource -> BOOLEAN] /\ was \in [Forward -> BOOLEAN]
    BY DEF Init
  <2>4. /\ faults \in 0 .. MaxFaults /\ starts \in 0 .. MaxStarts
        /\ attempt \in 1 .. 3 /\ conns \in 0 .. MaxConns
    BY GatewayAssumption DEF Init
  <2>5. /\ proc \in {"off", "up"} \cup Ended
        /\ run \in RunPC /\ main \in MainPC /\ cleaner \in CleanPC
        /\ runAt \in Resource /\ mainAt \in Resource
        /\ stopBy \in {"none", "signal", "error"}
        /\ stopAt \in {"none", "starting", "failed", "served"}
    BY DEF Init, RunPC, MainPC, CleanPC, Resource, Forward, Policy
  <2> QED
    BY <2>1, <2>2, <2>3, <2>4, <2>5 DEF TypeOK
<1> QED
  BY <1>1, TypeStep, PTL DEF Spec

-----------------------------------------------------------------------------
(***************************************************************************)
(* Forwarding.  Only route.Restore lowers a switch, and only one whose     *)
(* applied flag is set; the flag is set for a switch that was read as off, *)
(* and a switch that was on when the process started never reads as off.   *)
(***************************************************************************)
ForwardInv ==
  \A f \in Forward :
    /\ orig[f] => kern[f]
    /\ Up /\ orig[f] => entry[f]
    /\ Up /\ entry[f] => kern[f]
    /\ Up /\ entry[f] => ~applied[f]
    /\ Up /\ entry[f] => ~(run \in {"apply", "record"} /\ runAt = f)

\* route.ForceClean walks the rules and routes only.
ForceInv == main = "rtForce" => mainAt \in Policy

LEMMA NamesDiffer ==
  /\ "table" \in Resource \ Forward
  /\ \A r \in Policy : r \in Resource \ Forward
BY DEF Resource, Forward, Policy

\* A command on a rule, route or table leaves the switches alone.
LEMMA DeleteKeepsForward ==
  ASSUME TypeOK, NEW r \in Resource \ Forward, NEW ok \in BOOLEAN, Delete(r, ok)
  PROVE  \A f \in Forward : kern'[f] = kern[f]
BY DEF Delete, TypeOK, Resource

LEMMA UndoLowersApplied ==
  ASSUME TypeOK, NEW r \in Resource, NEW ok \in BOOLEAN, ToUndo(r), Undo(r, ok),
         NEW f \in Forward, ~applied[f]
  PROVE  kern'[f] = kern[f]
<1>1. CASE r \in Forward
  BY <1>1 DEF ToUndo, Undo, SwitchOff, TypeOK, Resource
<1>2. CASE r \notin Forward
  BY <1>2, DeleteKeepsForward DEF Undo
<1> QED
  BY <1>1, <1>2

LEMMA LoweredByUndoOnly ==
  ASSUME TypeOK, ForceInv, [Next]_vars, NEW f \in Forward, kern[f], ~kern'[f]
  PROVE  Up /\ applied[f]
<1>1. CASE RunStep
  <2>1. Up
    BY <1>1 DEF RunStep, RunRelayStart, ReadForward, DropStale, Apply, Record,
                RunUndo, RunRelayClose, RunRelayWait, RunEnds, Up
  <2>2. CASE DropStale
    BY <2>2, DeleteKeepsForward DEF DropStale, TypeOK
  <2>3. CASE Apply
    BY <2>3 DEF Apply, TypeOK, Resource
  <2>4. CASE RunUndo
    BY <2>1, <2>4, UndoLowersApplied DEF RunUndo, TypeOK
  <2>5. CASE \/ RunRelayStart \/ ReadForward \/ Record
             \/ RunRelayClose \/ RunRelayWait \/ RunEnds
    BY <2>5 DEF RunRelayStart, ReadForward, Record, RunRelayClose,
                RunRelayWait, RunEnds
  <2> QED
    BY <1>1, <2>2, <2>3, <2>4, <2>5 DEF RunStep
<1>2. CASE MainStep
  <2>1. Up
    BY <1>2 DEF MainStep, RunError, NfRestore, NfForceList, NfForceDelete,
                RtRestore, RtForce, MainRelayClose, MainExit, Up
  <2>2. CASE RtRestore
    BY <2>1, <2>2, UndoLowersApplied DEF RtRestore, TypeOK
  <2>3. CASE NfRestore \/ NfForceDelete
    BY <2>3, NamesDiffer, DeleteKeepsForward DEF NfRestore, NfForceDelete
  <2>4. CASE RtForce
    <3>1. mainAt \in Resource \ Forward
      BY <2>4, NamesDiffer DEF RtForce, ForceInv
    <3> QED
      BY <2>4, <3>1, DeleteKeepsForward DEF RtForce
  <2>5. CASE RunError \/ NfForceList \/ MainRelayClose \/ MainExit
    BY <2>5 DEF RunError, NfForceList, ListTable, MainRelayClose, MainExit
  <2> QED
    BY <1>2, <2>2, <2>3, <2>4, <2>5 DEF MainStep
<1>3. CASE CleanStep
  BY <1>3, NamesDiffer, DeleteKeepsForward
     DEF CleanStep, CleanStart, CleanListTable, ListTable, CleanDelete
<1>4. CASE Start \/ Kill \/ Reload \/ OpenConn \/ CloseConn \/ Signal \/ UNCHANGED vars
  BY <1>4 DEF Start, Kill, Reload, OpenConn, CloseConn, Signal, vars
<1> QED
  BY <1>1, <1>2, <1>3, <1>4 DEF Next

LEMMA ForceStep == TypeOK /\ ForceInv /\ [Next]_vars => ForceInv'
<1> SUFFICES ASSUME TypeOK, ForceInv, [Next]_vars, main' = "rtForce"
             PROVE  mainAt' \in Policy
  BY DEF ForceInv
<1>1. CASE MainStep
  <2>1. CASE RtRestore
    BY <2>1 DEF RtRestore, Retry, Policy
  <2>2. CASE RtForce
    BY <2>2, OrdersTyped DEF RtForce, ForceInv
  <2>3. CASE \/ RunError \/ NfRestore \/ NfForceList \/ NfForceDelete
             \/ MainRelayClose \/ MainExit
    BY <2>3 DEF RunError, StopBegins, FirstCleanup, NfRestore, Retry, NfForceList,
                NfForceDelete, MainRelayClose, StopRelay, MainExit, ExitWith,
                FreshMemory
  <2> QED
    BY <1>1, <2>1, <2>2, <2>3 DEF MainStep
<1>2. CASE RunStep
  BY <1>2 DEF RunStep, RunRelayStart, ReadForward, DropStale, Apply, Record,
              RunUndo, RunRelayClose, StopRelay, ExitWith, FreshMemory,
              RunRelayWait, RunEnds, ForceInv
<1>3. CASE CleanStep \/ OpenConn \/ CloseConn \/ UNCHANGED vars
  BY <1>3 DEF CleanStep, CleanStart, CleanListTable, CleanDelete, OpenConn,
              CloseConn, vars, ForceInv
<1>4. CASE Start \/ Kill \/ Reload \/ Signal
  BY <1>4 DEF Start, Kill, Reload, ExitWith, FreshMemory, Signal, StopBegins, FirstCleanup
<1> QED
  BY <1>1, <1>2, <1>3, <1>4 DEF Next

LEMMA ForwardStep ==
  TypeOK /\ ForceInv /\ ForwardInv /\ [Next]_vars => ForwardInv'
<1> SUFFICES ASSUME TypeOK, ForceInv, ForwardInv, [Next]_vars, NEW f \in Forward
             PROVE  /\ orig'[f] => kern'[f]
                    /\ Up' /\ orig'[f] => entry'[f]
                    /\ Up' /\ entry'[f] => kern'[f]
                    /\ Up' /\ entry'[f] => ~applied'[f]
                    /\ Up' /\ entry'[f] =>
                         ~(run' \in {"apply", "record"} /\ runAt' = f)
  BY DEF ForwardInv
<1>1. kern[f] /\ ~kern'[f] => Up /\ applied[f]
  BY LoweredByUndoOnly
<1>2. f \in Resource
  BY DEF Resource
<1>3. CASE Start
  BY <1>2, <1>3 DEF Start, FreshMemory, ForwardInv, Up
<1>4. CASE Kill \/ Reload
  BY <1>4 DEF Kill, Reload, ExitWith, ForwardInv, Up
<1>5. CASE RunStep
  <2>1. Up /\ orig' = orig /\ entry' = entry
    BY <1>5 DEF RunStep, RunRelayStart, ReadForward, DropStale, Apply, Record,
                RunUndo, RunRelayClose, RunRelayWait, RunEnds, Up
  <2>2. /\ orig'[f] => kern'[f]
        /\ Up' /\ orig'[f] => entry'[f]
        /\ Up' /\ entry'[f] => kern'[f]
    BY <1>1, <2>1 DEF ForwardInv
  <2>3. /\ Up' /\ entry'[f] => ~applied'[f]
        /\ Up' /\ entry'[f] => ~(run' \in {"apply", "record"} /\ runAt' = f)
    <3>1. CASE RunRelayStart \/ RunUndo \/ RunRelayWait \/ RunEnds
      BY <2>1, <3>1 DEF RunRelayStart, RunUndo, RunRelayWait, RunEnds,
                        ForwardInv
    <3>2. CASE ReadForward
      BY <2>1, <3>2 DEF ReadForward, SetupAdvances, SetupFails, ForwardInv
    <3>3. CASE DropStale
      BY <2>1, <3>3 DEF DropStale, SetupFails, ForwardInv
    <3>4. CASE Apply
      BY <2>1, <3>4 DEF Apply, SetupFails, ForwardInv
    <3>5. CASE Record
      BY <1>2, <2>1, <3>5 DEF Record, SetupAdvances, ForwardInv, TypeOK
    <3>6. CASE RunRelayClose
      BY <2>1, <3>6
         DEF RunRelayClose, StopRelay, ExitWith, FreshMemory, ForwardInv, Up
    <3> QED
      BY <1>5, <3>1, <3>2, <3>3, <3>4, <3>5, <3>6 DEF RunStep
  <2> QED
    BY <2>2, <2>3
<1>6. CASE MainStep
  <2>1. Up /\ orig' = orig /\ entry' = entry
    BY <1>6 DEF MainStep, RunError, NfRestore, NfForceList, NfForceDelete,
                RtRestore, RtForce, MainRelayClose, MainExit, Up
  <2>2. CASE MainRelayClose \/ MainExit
    BY <1>1, <2>1, <2>2 DEF MainRelayClose, MainExit, StopRelay, ExitWith,
                            FreshMemory, ForwardInv, Up
  <2>3. CASE \/ RunError \/ NfForceList \/ NfForceDelete \/ RtRestore \/ RtForce
    BY <1>1, <2>1, <2>3 DEF RunError, NfForceList, NfForceDelete, RtRestore,
                            RtForce, ForwardInv
  <2>4. CASE NfRestore
    <3>1. f # "table"
      BY NamesDiffer
    <3>2. applied'[f] = applied[f]
      BY <2>4, <3>1, <1>2 DEF NfRestore, TypeOK
    <3> QED
      BY <1>1, <2>1, <2>4, <3>2 DEF NfRestore, ForwardInv
  <2> QED
    BY <1>6, <2>2, <2>3, <2>4 DEF MainStep
<1>7. CASE CleanStep \/ OpenConn \/ CloseConn \/ Signal \/ UNCHANGED vars
  BY <1>1, <1>7 DEF CleanStep, CleanStart, CleanListTable, CleanDelete,
                    OpenConn, CloseConn, Signal, vars, ForwardInv, Up
<1> QED
  BY <1>3, <1>4, <1>5, <1>6, <1>7 DEF Next

LEMMA ForwardInductive == Spec => [](TypeOK /\ ForceInv /\ ForwardInv)
<1>1. Init => ForceInv /\ ForwardInv
  BY DEF Init, ForceInv, ForwardInv, Up
<1>2. TypeOK /\ ForceInv /\ ForwardInv /\ [Next]_vars => (ForceInv /\ ForwardInv)'
  BY ForceStep, ForwardStep
<1> QED
  BY <1>1, <1>2, TypeCorrect, PTL DEF Spec

\* A host that forwarded before the gateway came forwards at all times.
THEOREM ForwardingKept == Spec => []ForwardingNeverLost
<1>1. ForwardInv => ForwardingNeverLost
  BY DEF ForwardInv, ForwardingNeverLost
<1> QED
  BY <1>1, ForwardInductive, PTL

\* Only the process that raised a forwarding switch lowers it.
THEOREM ForwardLowered == Spec => ForwardLoweredByItsRaiser
<1>1. TypeOK /\ ForceInv /\ ForwardInv /\ [Next]_vars =>
        [\A f \in Forward :
           (kern[f] /\ ~kern'[f]) => (Up /\ ~entry[f] /\ applied[f])]_vars
  BY LoweredByUndoOnly DEF ForwardInv
<1> QED
  BY <1>1, ForwardInductive, PTL DEF Spec, ForwardLoweredByItsRaiser

-----------------------------------------------------------------------------
(***************************************************************************)
(* Serving.  While main waits and no clean command interferes, Setup keeps *)
(* everything it has passed installed; nothing but its own next step       *)
(* touches the kernel.                                                     *)
(***************************************************************************)
\* The resources Setup has dealt with when it comes to r.
Earlier(r) ==
  CASE r = "fwd4"   -> {}
    [] r = "rule4"  -> {"fwd4"}
    [] r = "route4" -> {"fwd4", "rule4"}
    [] r = "fwd6"   -> {"fwd4", "rule4", "route4"}
    [] r = "rule6"  -> {"fwd4", "rule4", "route4", "fwd6"}
    [] r = "route6" -> {"fwd4", "rule4", "route4", "fwd6", "rule6"}
    [] OTHER        -> Managed \ {"table"}

SettingUp == run \in {"prepare", "apply", "record"}

ServingInv ==
  (Up /\ main = "select" /\ ~meddled) =>
    /\ run = "relayStart" => runAt = "fwd4"
    /\ SettingUp => /\ listening /\ runAt \in Managed
                    /\ \A r \in Earlier(runAt) : kern[r]
    /\ run = "record" => kern[runAt]
    /\ run \in {"serving", "webFailed"} => listening /\ \A r \in Managed : kern[r]

LEMMA EarlierNext ==
  ASSUME NEW r \in Managed
  PROVE  /\ Earlier(r) \subseteq Managed /\ r \notin Earlier(r)
         /\ SetupNext(r) = "done" => Managed \subseteq Earlier(r) \cup {r}
         /\ SetupNext(r) # "done" =>
              /\ SetupNext(r) \in Managed
              /\ Earlier(SetupNext(r)) = Earlier(r) \cup {r}
BY DEF Earlier, Managed, Resource, Forward, Policy, SetupNext

LEMMA ManagedInResource == Managed \subseteq Resource
BY DEF Managed

\* Setup passes a resource that is in place.
LEMMA AdvanceKeeps ==
  ASSUME TypeOK, SetupAdvances, SettingUp, listening, runAt \in Managed,
         \A r \in Earlier(runAt) : kern[r], kern[runAt],
         UNCHANGED <<kern, listening>>
  PROVE  /\ run' = "prepare" =>
              /\ listening' /\ runAt' \in Managed
              /\ \A r \in Earlier(runAt') : kern'[r]
         /\ run' = "serving" => listening' /\ \A r \in Managed : kern'[r]
         /\ run' \in {"prepare", "serving"}
BY EarlierNext DEF SetupAdvances

LEMMA ServingStep == TypeOK /\ ServingInv /\ [Next]_vars => ServingInv'
<1> SUFFICES ASSUME TypeOK, ServingInv, [Next]_vars,
                    Up', main' = "select", ~meddled'
             PROVE  /\ run' = "relayStart" => runAt' = "fwd4"
                    /\ SettingUp' => /\ listening' /\ runAt' \in Managed
                                     /\ \A r \in Earlier(runAt') : kern'[r]
                    /\ run' = "record" => kern'[runAt']
                    /\ run' \in {"serving", "webFailed"} =>
                         listening' /\ \A r \in Managed : kern'[r]
  BY DEF ServingInv
<1>1. CASE Start
  BY <1>1 DEF Start, FreshMemory, SettingUp
<1>2. CASE RunStep
  <2>1. Up /\ main = "select" /\ ~meddled
    BY <1>2 DEF RunStep, RunRelayStart, ReadForward, DropStale, Apply, Record,
                RunUndo, RunRelayClose, StopRelay, ExitWith, RunRelayWait,
                RunEnds, Up
  <2>2. CASE RunRelayStart
    <3>1. "fwd4" \in Managed /\ Earlier("fwd4") = {}
      BY DEF Managed, Resource, Forward, Policy, Earlier
    <3> QED
      BY <2>1, <2>2, <3>1 DEF RunRelayStart, ServingInv, SettingUp
  <2>3. CASE ReadForward
    <3>1. CASE SetupAdvances /\ kern[runAt]
      BY <2>1, <2>3, <3>1, AdvanceKeeps DEF ReadForward, ServingInv, SettingUp
    <3>2. CASE ~(SetupAdvances /\ kern[runAt])
      BY <2>1, <2>3, <3>2 DEF ReadForward, SetupFails, ServingInv, SettingUp
    <3> QED
      BY <3>1, <3>2
  <2>4. CASE DropStale
    <3>1. \/ /\ run' = "apply" /\ runAt' = runAt /\ listening' = listening
             /\ \E ok \in BOOLEAN : Delete(runAt, ok)
          \/ run' \in {"undo", "relayClose"}
      BY <2>4 DEF DropStale, SetupFails
    <3>2. ASSUME NEW ok \in BOOLEAN, Delete(runAt, ok),
                 NEW r \in Resource, r # runAt
          PROVE  kern'[r] = kern[r]
      BY <3>2 DEF Delete, TypeOK
    <3>3. listening /\ runAt \in Managed /\ \A r \in Earlier(runAt) : kern[r]
      BY <2>1, <2>4 DEF DropStale, ServingInv, SettingUp
    <3>4. Earlier(runAt) \subseteq Resource /\ runAt \notin Earlier(runAt)
      BY <3>3, EarlierNext, ManagedInResource
    <3> QED
      BY <3>1, <3>2, <3>3, <3>4 DEF SettingUp
  <2>5. CASE Apply
    <3>1. \/ /\ run' = "record" /\ runAt' = runAt /\ listening' = listening
             /\ kern' = [kern EXCEPT ![runAt] = TRUE]
          \/ run' \in {"undo", "relayClose"}
      BY <2>5 DEF Apply, SetupFails
    <3>2. listening /\ runAt \in Managed /\ \A r \in Earlier(runAt) : kern[r]
      BY <2>1, <2>5 DEF Apply, ServingInv, SettingUp
    <3>3. Earlier(runAt) \subseteq Resource /\ runAt \in Resource
      BY <3>2, EarlierNext, ManagedInResource
    <3> QED
      BY <3>1, <3>2, <3>3 DEF SettingUp, TypeOK
  <2>6. CASE Record
    BY <2>1, <2>6, AdvanceKeeps DEF Record, ServingInv, SettingUp
  <2>7. CASE RunUndo \/ RunRelayClose \/ RunRelayWait \/ RunEnds
    BY <2>1, <2>7 DEF RunUndo, RunRelayClose, StopRelay, ExitWith,
                      RunRelayWait, RunEnds, ServingInv, SettingUp, Up
  <2> QED
    BY <1>2, <2>2, <2>3, <2>4, <2>5, <2>6, <2>7 DEF RunStep
<1>3. CASE Kill \/ Reload
  BY <1>3 DEF Kill, Reload, ExitWith, Up
<1>4. CASE MainStep
  BY <1>4 DEF MainStep, RunError, StopBegins, FirstCleanup, NfRestore, Retry, NfForceList,
              NfForceDelete, RtRestore, RtForce, MainRelayClose, StopRelay,
              MainExit, ExitWith, Up
<1>5. CASE Signal
  BY <1>5 DEF Signal, StopBegins, FirstCleanup
<1>6. CASE CleanStep
  BY <1>6 DEF CleanStep, CleanStart, CleanListTable, CleanDelete, Up
<1>7. CASE OpenConn \/ CloseConn \/ UNCHANGED vars
  BY <1>7 DEF OpenConn, CloseConn, vars, ServingInv, SettingUp, Up
<1> QED
  BY <1>1, <1>2, <1>3, <1>4, <1>5, <1>6, <1>7 DEF Next

\* A gateway that is ready and not being stopped intercepts completely,
\* whatever an earlier process, killed at any point, left in the kernel.
THEOREM ServingComplete == Spec => []ServingIsComplete
<1>1. Init => ServingInv
  BY DEF Init, ServingInv, Up
<1>2. ServingInv => ServingIsComplete
  BY DEF ServingInv, ServingIsComplete
<1> QED
  BY <1>1, <1>2, ServingStep, TypeCorrect, PTL DEF Spec

-----------------------------------------------------------------------------
(***************************************************************************)
(* The end of a process that has served: the order in which App.Stop takes *)
(* down the table, the routes and the listener, and what failing commands  *)
(* may leave behind.  The argument follows a resource: each attempt that   *)
(* leaves it in place has cost one failure.  At the end, the clean         *)
(* command.                                                                *)
(***************************************************************************)
-----------------------------------------------------------------------------
(***************************************************************************)
(* Before Stop: what Setup has passed is recorded as this process's work,  *)
(* and the forwarding switches it has not come to stand as they stood.     *)
(* The clean command beside it takes rules away, and changes none of this. *)
(***************************************************************************)
Mine(r) ==
  /\ r \in Forward    => entry[r] \/ (applied[r] /\ ~was[r])
  /\ r \notin Forward => applied[r]

Ready == listening /\ \A r \in Managed : Mine(r)

Untouched(f) == kern[f] = entry[f] /\ ~applied[f]

RecordInv ==
  (Up /\ main = "select") =>
    /\ run = "relayStart" => \A f \in Forward : Untouched(f)
    /\ SettingUp =>
         /\ listening
         /\ \A r \in Earlier(runAt) : Mine(r)
         /\ \A f \in Forward \ Earlier(runAt) :
              ~applied[f] /\ (kern[f] = entry[f] \/ (f = runAt /\ run = "record"))
    /\ (run \in {"apply", "record"} /\ runAt \in Forward) => ~was[runAt]
    /\ run \in {"serving", "webFailed"} =>
         Ready /\ \A f \in Forward \ Managed : Untouched(f)

\* Setup walks the resources of the configuration, and nothing else is raised.
ManagedInv ==
  /\ (Up /\ run = "relayStart") => runAt = "fwd4"
  /\ (Up /\ SettingUp) => runAt \in Managed
  /\ \A r \in Resource \ (Managed \cup Forward) : ~kern[r]

LEMMA MineStays ==
  ASSUME NEW r \in Resource, Mine(r), applied'[r] = applied[r], entry' = entry,
         r \in Forward => was'[r] = was[r]
  PROVE  Mine(r)'
BY Zenon DEF Mine

\* What Run's own steps need to know of each other.
LEMMA RecordAdvance ==
  ASSUME TypeOK, SettingUp, runAt \in Managed, SetupAdvances, listening,
         \A r \in Earlier(runAt) : Mine(r),
         \A f \in Forward \ (Earlier(runAt) \cup {runAt}) : Untouched(f),
         \A r \in {runAt} : Mine(r)',
         UNCHANGED <<kern, listening, entry>>,
         \A r \in Resource : r # runAt => applied'[r] = applied[r],
         \A f \in Forward : f # runAt => was'[f] = was[f]
  PROVE  /\ run' = "prepare" =>
              /\ listening' /\ \A r \in Earlier(runAt') : Mine(r)'
              /\ \A f \in Forward \ Earlier(runAt') : Untouched(f)'
         /\ run' = "serving" =>
              Ready' /\ \A f \in Forward \ Managed : Untouched(f)'
         /\ run' \in {"prepare", "serving"}
<1>1. \A r \in Earlier(runAt) \cup {runAt} : Mine(r)'
  <2>1. SUFFICES ASSUME NEW r \in Earlier(runAt), r # runAt, r \in Resource
                 PROVE  Mine(r)'
    BY EarlierNext, ManagedInResource
  <2>2. Mine(r) /\ applied'[r] = applied[r] /\ entry' = entry
        /\ (r \in Forward => was'[r] = was[r])
    BY <2>1
  <2> QED BY <2>1, <2>2, MineStays
<1>2. \A f \in Forward \ (Earlier(runAt) \cup {runAt}) : Untouched(f)'
  BY DEF Untouched, Resource
<1>3. CASE SetupNext(runAt) = "done"
  <2>1. run' = "serving" BY <1>3 DEF SetupAdvances
  <2>2. Managed \subseteq Earlier(runAt) \cup {runAt}
        /\ Earlier(runAt) \cup {runAt} \subseteq Managed
    BY <1>3, EarlierNext
  <2>3. Ready' BY <1>1, <2>2 DEF Ready
  <2>4. \A f \in Forward \ Managed : Untouched(f)'
    BY <1>2, <2>2
  <2> QED BY <2>1, <2>3, <2>4
<1>4. CASE SetupNext(runAt) # "done"
  <2>1. run' = "prepare" /\ runAt' = SetupNext(runAt) BY <1>4 DEF SetupAdvances
  <2>2. Earlier(runAt') = Earlier(runAt) \cup {runAt} BY <1>4, <2>1, EarlierNext
  <2> QED BY <1>1, <1>2, <2>1, <2>2
<1> QED BY <1>3, <1>4

LEMMA RecordStep == TypeOK /\ ManagedInv /\ RecordInv /\ [Next]_vars => RecordInv'
<1> SUFFICES ASSUME TypeOK, ManagedInv, RecordInv, [Next]_vars,
                    Up', main' = "select"
             PROVE  RecordInv'
  BY DEF RecordInv
<1>1. CASE Start
  <2>1. run' = "relayStart" /\ kern' = kern /\ entry' = kern
        /\ applied' = [r \in Resource |-> FALSE]
    BY <1>1 DEF Start, FreshMemory
  <2>2. \A f \in Forward : Untouched(f)' BY <2>1 DEF Untouched, Resource
  <2> QED BY <2>1, <2>2 DEF RecordInv, SettingUp
<1>2. CASE RunStep
  <2>1. Up /\ main = "select" /\ entry' = entry
    BY <1>2 DEF RunStep, RunRelayStart, ReadForward, DropStale, Apply, Record,
                RunUndo, RunRelayClose, StopRelay, ExitWith, RunRelayWait,
                RunEnds, Up
  <2>2. CASE RunRelayStart
    <3>1. /\ Earlier(runAt) = {} /\ runAt = runAt' /\ run = "relayStart"
          /\ UNCHANGED <<kern, applied, was>>
          /\ run' = "failed" \/ (run' = "prepare" /\ listening')
      BY <2>1, <2>2 DEF RunRelayStart, ManagedInv, Earlier
    <3>2. \A f \in Forward : Untouched(f) BY <2>1, <3>1 DEF RecordInv
    <3> QED BY <2>1, <3>1, <3>2 DEF RecordInv, SettingUp, Untouched
  <2>3. CASE ReadForward \/ Record
    <3>1. /\ SettingUp /\ runAt \in Managed /\ listening
          /\ \A r \in Earlier(runAt) : Mine(r)
          /\ runAt \in Resource
      BY <2>1, <2>3, ManagedInResource DEF ReadForward, Record, ManagedInv, RecordInv, SettingUp
    <3>2. \A f \in Forward \ (Earlier(runAt) \cup {runAt}) : Untouched(f)
      BY <2>1, <3>1 DEF RecordInv, Untouched
    <3>3. CASE ReadForward /\ SetupAdvances /\ kern[runAt]
      <4>0. runAt \in Forward /\ ~applied[runAt] /\ kern[runAt] = entry[runAt]
        <5>1. runAt \in Forward /\ run = "prepare" BY <3>3 DEF ReadForward
        <5>2. runAt \notin Earlier(runAt) BY <3>1, EarlierNext
        <5> QED BY <2>1, <3>1, <5>1, <5>2 DEF RecordInv
      <4>1. \A r \in {runAt} : Mine(r)'
        <5>1. kern[runAt] BY <3>3
        <5>2. entry'[runAt] BY <2>1, <4>0, <5>1
        <5> QED BY <4>0, <5>2 DEF Mine
      <4>2. UNCHANGED <<kern, listening, entry, applied>>
            /\ \A f \in Forward : f # runAt => was'[f] = was[f]
        <5>1. UNCHANGED <<kern, listening, entry, applied>> BY <3>3 DEF ReadForward
        <5>2. was' = [was EXCEPT ![runAt] = kern[runAt]] \/ was' = was
          BY <3>3 DEF ReadForward
        <5> QED BY <5>1, <5>2 DEF TypeOK
      <4> HIDE DEF Untouched
      <4>3. /\ run' = "prepare" =>
                 /\ listening' /\ \A r \in Earlier(runAt') : Mine(r)'
                 /\ \A f \in Forward \ Earlier(runAt') : Untouched(f)'
            /\ run' = "serving" =>
                 Ready' /\ \A f \in Forward \ Managed : Untouched(f)'
            /\ run' \in {"prepare", "serving"}
        BY <3>1, <3>2, <3>3, <4>1, <4>2, RecordAdvance
      <4> QED BY <4>3 DEF RecordInv, SettingUp, Untouched
    <3>4. CASE Record
      <4>0. run = "record" /\ (runAt \in Forward => ~was[runAt])
        BY <2>1, <3>4 DEF Record, RecordInv
      <4>1. UNCHANGED <<kern, listening, entry, was>>
            /\ applied' = [applied EXCEPT ![runAt] = TRUE] /\ SetupAdvances
        BY <3>4 DEF Record
      <4>2. \A r \in {runAt} : Mine(r)'
        <5>1. applied'[runAt] BY <3>1, <4>1 DEF TypeOK
        <5>2. runAt \in Forward => ~was'[runAt] BY <4>0, <4>1
        <5> QED BY <5>1, <5>2 DEF Mine
      <4>3. \A r \in Resource : r # runAt => applied'[r] = applied[r]
        BY <4>1 DEF TypeOK
      <4>4. /\ run' = "prepare" =>
                 /\ listening' /\ \A r \in Earlier(runAt') : Mine(r)'
                 /\ \A f \in Forward \ Earlier(runAt') : Untouched(f)'
            /\ run' = "serving" =>
                 Ready' /\ \A f \in Forward \ Managed : Untouched(f)'
            /\ run' \in {"prepare", "serving"}
        BY <3>1, <3>2, <4>0, <4>1, <4>2, <4>3, RecordAdvance
      <4> QED BY <4>4 DEF RecordInv, SettingUp, Untouched
    <3>5. CASE ReadForward /\ ~(SetupAdvances /\ kern[runAt])
      <4>1. \/ /\ run' = "apply" /\ runAt' = runAt /\ ~kern[runAt]
               /\ was' = [was EXCEPT ![runAt] = kern[runAt]]
            \/ run' \in {"undo", "relayClose"}
        BY <3>5 DEF ReadForward, SetupFails
      <4>2. run = "prepare" /\ runAt \in Forward
            /\ UNCHANGED <<kern, applied, entry, listening>>
        BY <3>5 DEF ReadForward
      <4>3. CASE run' = "apply" /\ runAt' = runAt /\ ~kern[runAt]
                 /\ was' = [was EXCEPT ![runAt] = kern[runAt]]
        <5>1. ~was'[runAt] /\ \A f \in Forward : f # runAt => was'[f] = was[f]
          BY <4>2, <4>3 DEF TypeOK
        <5>2. runAt \notin Earlier(runAt) BY <3>1, EarlierNext
        <5>3. \A r \in Earlier(runAt) : Mine(r)'
          BY <3>1, <4>2, <5>1, <5>2 DEF Mine
        <5>4. \A f \in Forward \ Earlier(runAt) : ~applied'[f] /\ kern'[f] = entry'[f]
          BY <2>1, <3>1, <4>2 DEF RecordInv
        <5> QED BY <3>1, <4>2, <4>3, <5>1, <5>3, <5>4 DEF RecordInv, SettingUp
      <4>4. CASE run' \in {"undo", "relayClose"} BY <4>4 DEF RecordInv, SettingUp
      <4> QED BY <4>1, <4>3, <4>4
    <3> QED BY <2>3, <3>3, <3>4, <3>5
  <2>4. CASE DropStale
    <3>1. \/ /\ run' = "apply" /\ runAt' = runAt
             /\ \E ok \in BOOLEAN : Delete(runAt, ok)
          \/ run' \in {"undo", "relayClose"}
      BY <2>4 DEF DropStale, SetupFails
    <3>2. run = "prepare" /\ runAt \notin Forward
          /\ UNCHANGED <<applied, was, entry, listening>> /\ runAt \in Resource
      BY <2>4 DEF DropStale, TypeOK
    <3>3. CASE run' = "apply" /\ runAt' = runAt /\ \E ok \in BOOLEAN : Delete(runAt, ok)
      <4>1. \A f \in Forward : kern'[f] = kern[f]
        BY <3>2, <3>3, DeleteKeepsForward
      <4>2. /\ listening' /\ \A r \in Earlier(runAt) : Mine(r)
            /\ \A f \in Forward \ Earlier(runAt) : ~applied[f] /\ kern[f] = entry[f]
        BY <2>1, <3>2 DEF RecordInv, SettingUp
      <4>3. \A r \in Earlier(runAt) : Mine(r)' BY <3>2, <4>2 DEF Mine
      <4>4. ASSUME NEW f \in Forward \ Earlier(runAt)
            PROVE  ~applied'[f] /\ kern'[f] = entry'[f]
        <5>1. kern'[f] = kern[f] /\ kern[f] = entry[f] /\ ~applied[f] BY <4>1, <4>2
        <5>2. applied' = applied /\ entry' = entry BY <3>2
        <5> QED BY <5>1, <5>2, Zenon
      <4>5. run' = "apply" /\ runAt' = runAt /\ runAt \notin Forward BY <3>2, <3>3
      <4> QED BY <4>2, <4>3, <4>4, <4>5 DEF RecordInv, SettingUp
    <3>4. CASE run' \in {"undo", "relayClose"} BY <3>4 DEF RecordInv, SettingUp
    <3> QED BY <3>1, <3>3, <3>4
  <2>5. CASE Apply
    <3>1. \/ /\ run' = "record" /\ runAt' = runAt
             /\ kern' = [kern EXCEPT ![runAt] = TRUE]
          \/ run' \in {"undo", "relayClose"}
      BY <2>5 DEF Apply, SetupFails
    <3>2. run = "apply" /\ UNCHANGED <<applied, was, entry, listening>> /\ runAt \in Resource
      BY <2>5 DEF Apply, TypeOK
    <3>3. CASE run' = "record" /\ runAt' = runAt /\ kern' = [kern EXCEPT ![runAt] = TRUE]
      <4>1. \A f \in Forward : f # runAt => kern'[f] = kern[f]
        BY <3>3 DEF TypeOK, Resource
      <4>2. /\ listening' /\ \A r \in Earlier(runAt) : Mine(r)
            /\ \A f \in Forward \ Earlier(runAt) : ~applied[f] /\ kern[f] = entry[f]
        BY <2>1, <3>2 DEF RecordInv, SettingUp
      <4>3. runAt \in Forward => ~was[runAt] BY <2>1, <3>2 DEF RecordInv
      <4>4. \A r \in Earlier(runAt) : Mine(r)' BY <3>2, <4>2 DEF Mine
      <4>5. ASSUME NEW f \in Forward \ Earlier(runAt)
            PROVE  ~applied'[f] /\ (f # runAt => kern'[f] = entry'[f])
        <5>1. kern[f] = entry[f] /\ ~applied[f] BY <4>2
        <5>2. f # runAt => kern'[f] = kern[f] BY <4>1
        <5>3. applied' = applied /\ entry' = entry BY <3>2
        <5> QED BY <5>1, <5>2, <5>3, Zenon
      <4>6. run' = "record" /\ runAt' = runAt BY <3>3
      <4>7. runAt \in Forward => ~was'[runAt] BY <3>2, <4>3
      <4> QED BY <4>2, <4>4, <4>5, <4>6, <4>7 DEF RecordInv, SettingUp
    <3>4. CASE run' \in {"undo", "relayClose"} BY <3>4 DEF RecordInv, SettingUp
    <3> QED BY <3>1, <3>3, <3>4
  <2>6. CASE RunEnds
    <3>1. run = "serving" /\ run' = "webFailed" /\ UNCHANGED <<kern, applied, was, listening>>
      BY <2>1, <2>6 DEF RunEnds
    <3> QED BY <2>1, <3>1 DEF RecordInv, Ready, Mine, SettingUp, Untouched
  <2>7. CASE RunUndo \/ RunRelayClose \/ RunRelayWait
    <3>1. run' \in {"undo", "relayClose", "relayWait", "failed", "finished"}
      BY <2>7 DEF RunUndo, RunRelayClose, StopRelay, ExitWith, RunRelayWait
    <3> QED BY <3>1 DEF RecordInv, SettingUp
  <2> QED
    BY <1>2, <2>2, <2>3, <2>4, <2>5, <2>6, <2>7 DEF RunStep
<1>3. CASE Kill \/ Reload BY <1>3 DEF Kill, Reload, ExitWith, Up
<1>4. CASE MainStep
  BY <1>4 DEF MainStep, RunError, StopBegins, FirstCleanup, NfRestore, Retry, NfForceList,
              NfForceDelete, RtRestore, RtForce, MainRelayClose, StopRelay,
              MainExit, ExitWith, Up
<1>5. CASE Signal BY <1>5 DEF Signal, StopBegins, FirstCleanup
<1>6. CASE CleanStep
  <2>1. /\ Up /\ main = "select"
        /\ UNCHANGED <<run, runAt, applied, was, entry, listening>>
    BY <1>6 DEF CleanStep, CleanStart, CleanListTable, CleanDelete, Up
  <2>2. \A f \in Forward : kern'[f] = kern[f]
    BY <1>6, NamesDiffer, DeleteKeepsForward
       DEF CleanStep, CleanStart, CleanListTable, ListTable, CleanDelete
  <2> QED BY <2>1, <2>2 DEF RecordInv, SettingUp, Ready, Mine, Untouched
<1>7. CASE OpenConn \/ CloseConn \/ UNCHANGED vars
  BY <1>7 DEF OpenConn, CloseConn, vars, RecordInv, SettingUp, Up, Ready, Mine, Untouched
<1> QED BY <1>1, <1>2, <1>3, <1>4, <1>5, <1>6, <1>7 DEF Next

-----------------------------------------------------------------------------
(***************************************************************************)
(* Only Apply raises anything, and only what the configuration manages.    *)
(***************************************************************************)
LEMMA OnlyApplyRaises ==
  ASSUME TypeOK, [Next]_vars, ~Apply, NEW r \in Resource, ~kern[r]
  PROVE  ~kern'[r]
<1>1. ASSUME NEW x \in Resource, NEW ok \in BOOLEAN, Delete(x, ok) \/ SwitchOff(x, ok)
      PROVE  ~kern'[r]
  BY <1>1 DEF Delete, SwitchOff, TypeOK
<1>2. "table" \in Resource /\ \A x \in Policy : x \in Resource
  BY DEF Resource
<1>3. CASE RunStep
  <2>1. CASE DropStale BY <1>1, <2>1 DEF DropStale, TypeOK
  <2>2. CASE RunUndo BY <1>1, <2>2 DEF RunUndo, Undo, TypeOK
  <2>3. CASE \/ RunRelayStart \/ ReadForward \/ Record \/ RunRelayClose
             \/ RunRelayWait \/ RunEnds
    BY <2>3 DEF RunRelayStart, ReadForward, Record, RunRelayClose, RunRelayWait, RunEnds
  <2> QED BY <1>3, <2>1, <2>2, <2>3 DEF RunStep
<1>4. CASE MainStep
  <2>1. CASE NfRestore \/ NfForceDelete
    BY <1>1, <1>2, <2>1 DEF NfRestore, NfForceDelete
  <2>2. CASE RtRestore BY <1>1, <2>2 DEF RtRestore, Undo, TypeOK
  <2>3. CASE RtForce BY <1>1, <2>3 DEF RtForce, TypeOK
  <2>4. CASE RunError \/ NfForceList \/ MainRelayClose \/ MainExit
    BY <2>4 DEF RunError, NfForceList, ListTable, MainRelayClose, MainExit
  <2> QED BY <1>4, <2>1, <2>2, <2>3, <2>4 DEF MainStep
<1>5. CASE CleanStep
  BY <1>1, <1>2, <1>5 DEF CleanStep, CleanStart, CleanListTable, ListTable, CleanDelete
<1>6. CASE Start \/ Kill \/ Reload \/ OpenConn \/ CloseConn \/ Signal \/ UNCHANGED vars
  BY <1>6 DEF Start, Kill, Reload, OpenConn, CloseConn, Signal, vars
<1> QED BY <1>3, <1>4, <1>5, <1>6 DEF Next

LEMMA ManagedStep == TypeOK /\ ManagedInv /\ [Next]_vars => ManagedInv'
<1> SUFFICES ASSUME TypeOK, ManagedInv, [Next]_vars PROVE ManagedInv'
  OBVIOUS
<1>1. \A r \in Resource \ (Managed \cup Forward) : ~kern'[r]
  <2> SUFFICES ASSUME NEW r \in Resource \ (Managed \cup Forward) PROVE ~kern'[r]
    OBVIOUS
  <2>1. ~kern[r] BY DEF ManagedInv
  <2>2. CASE Apply
    <3>1. runAt \in Managed BY <2>2 DEF Apply, ManagedInv, SettingUp, Up
    <3>2. kern' = kern \/ kern' = [kern EXCEPT ![runAt] = TRUE] BY <2>2 DEF Apply
    <3> QED BY <2>1, <3>1, <3>2 DEF TypeOK
  <2> QED BY <2>1, <2>2, OnlyApplyRaises
<1>2. (Up' /\ run' = "relayStart") => runAt' = "fwd4"
  BY DEF ManagedInv, Next, Start, FreshMemory, Kill, Reload, ExitWith, OpenConn, CloseConn,
         RunStep, RunRelayStart, ReadForward, SetupAdvances, SetupFails, DropStale,
         Apply, Record, RunUndo, RunRelayClose, StopRelay, RunRelayWait, RunEnds,
         Signal, MainStep, RunError, NfRestore, NfForceList, NfForceDelete, RtRestore,
         RtForce, MainRelayClose, MainExit, CleanStep, CleanStart, CleanListTable,
         CleanDelete, vars, Up
<1>3. (Up' /\ SettingUp') => runAt' \in Managed
  <2> SUFFICES ASSUME Up', SettingUp' PROVE runAt' \in Managed
    OBVIOUS
  <2>1. CASE RunStep
    <3>1. "fwd4" \in Managed BY DEF Managed, Resource, Forward, Policy
    <3>2. CASE RunRelayStart BY <3>1, <3>2 DEF RunRelayStart, ManagedInv, Up
    <3>3. CASE ReadForward \/ DropStale \/ Apply \/ Record
      <4>1. runAt \in Managed
        BY <3>3 DEF ReadForward, DropStale, Apply, Record, ManagedInv, SettingUp, Up
      <4>2. runAt' = runAt \/ SetupAdvances \/ run' \in {"undo", "relayClose"}
        BY <3>3 DEF ReadForward, DropStale, Apply, Record, SetupFails
      <4> QED BY <4>1, <4>2, EarlierNext DEF SetupAdvances, SettingUp
    <3>4. CASE RunUndo \/ RunRelayClose \/ RunRelayWait \/ RunEnds
      BY <3>4 DEF RunUndo, RunRelayClose, StopRelay, ExitWith, RunRelayWait, RunEnds,
                  SettingUp
    <3> QED BY <2>1, <3>2, <3>3, <3>4 DEF RunStep
  <2>2. CASE ~RunStep
    BY <2>2 DEF ManagedInv, Next, Start, FreshMemory, Kill, Reload, ExitWith, OpenConn,
         CloseConn, Signal, MainStep, RunError, NfRestore, NfForceList, NfForceDelete,
         RtRestore, RtForce, MainRelayClose, StopRelay, MainExit, CleanStep, CleanStart,
         CleanListTable, CleanDelete, vars, Up, SettingUp
  <2> QED BY <2>1, <2>2
<1> QED BY <1>1, <1>2, <1>3 DEF ManagedInv

-----------------------------------------------------------------------------
(***************************************************************************)
(* Stop, in a process that has served.  A resource that is still there has *)
(* survived every attempt that passed it, and each of them failed on it;   *)
(* one that the clean command has taken is not there.                      *)
(***************************************************************************)
Stopping == Up /\ stopAt = "served"

TakesTable == {"nfRestore", "nfForceList", "nfForceDelete"}

\* What route.Restore and route.ForceClean have passed when they come to r.
RestoredBefore(r) ==
  CASE r = "rule6"  -> {"route6"}
    [] r = "route4" -> {"route6", "rule6"}
    [] r = "rule4"  -> {"route6", "rule6", "route4"}
    [] r = "fwd6"   -> {"route6", "rule6", "route4", "rule4"}
    [] r = "fwd4"   -> {"route6", "rule6", "route4", "rule4", "fwd6"}
    [] OTHER        -> {}

ForcedBefore(r) ==
  CASE r = "rule4"  -> {"route4"}
    [] r = "route6" -> {"route4", "rule4"}
    [] r = "rule6"  -> {"route4", "rule4", "route6"}
    [] OTHER        -> {}

Routing == Resource \ {"table"}

\* A forwarding switch is left behind if this process has raised it.
Left(r) == kern[r] /\ (r \in Forward => ~entry[r])

StopFrame ==
  /\ main # "select" /\ run \in {"serving", "webFailed", "finished"}
  /\ \A f \in Forward \ Managed : Untouched(f)

TableGoesFirst ==
  /\ main \in TakesTable =>
       /\ listening /\ mainAt = "route6"
       /\ ~meddled => \A r \in Managed \ {"table"} : kern[r]
  /\ main \in TakesTable \cup {"rtRestore"} => \A r \in Managed \ {"table"} : Mine(r)

TableCosts ==
  /\ main = "nfRestore" => applied["table"] /\ (kern["table"] => faults >= attempt - 1)
  /\ main \in {"nfForceList", "nfForceDelete"} =>
       attempt = 1 /\ (kern["table"] => faults >= 3)
  /\ main \notin TakesTable => (kern["table"] => faults >= 4)

RoutingCosts ==
  \A r \in Routing : Left(r) =>
    /\ main = "rtRestore" =>
         faults >= attempt - 1 /\ (r \in RestoredBefore(mainAt) => errs /\ faults >= attempt)
    /\ main = "rtForce" =>
         faults >= 3 /\ (r \in ForcedBefore(mainAt) => faults >= 4)
    /\ main \in {"relayClose", "relayWait"} =>
         faults >= 3 /\ (r \in Policy => faults >= 4)

StopInv ==
  Stopping => /\ StopFrame /\ TableGoesFirst /\ TableCosts /\ RoutingCosts
              /\ main = "rtRestore" => mainAt \in Routing

LEMMA StopOrders ==
  /\ \A r \in Routing :
       /\ r \notin RestoredBefore(r)
       /\ RestoreNext(r) = "done" => RestoredBefore(r) \cup {r} = Routing
       /\ RestoreNext(r) # "done" =>
            /\ RestoreNext(r) \in Routing
            /\ RestoredBefore(RestoreNext(r)) = RestoredBefore(r) \cup {r}
  /\ \A r \in Policy :
       /\ r \notin ForcedBefore(r)
       /\ ForceNext(r) = "done" => ForcedBefore(r) \cup {r} = Policy
       /\ ForceNext(r) # "done" =>
            ForcedBefore(ForceNext(r)) = ForcedBefore(r) \cup {r}
  /\ "route6" \in Routing /\ RestoredBefore("route6") = {}
  /\ ForcedBefore("route4") = {}
  /\ Routing = Forward \cup Policy /\ "table" \in Managed
BY DEF RestoredBefore, ForcedBefore, RestoreNext, ForceNext, Routing, Resource,
       Forward, Policy, Managed

\* Nothing is left behind anew.
LEMMA LeftShrinks ==
  ASSUME TypeOK, [Next]_vars, ~Apply, entry' = entry, NEW r \in Resource, Left(r)'
  PROVE  Left(r)
BY OnlyApplyRaises DEF Left

\* A command that is given on a resource which is there removes it or fails.
LEMMA UndoCosts ==
  ASSUME TypeOK, NEW r \in Resource, NEW ok \in BOOLEAN, Undo(r, ok), kern[r]
  PROVE  /\ ok => ~kern'[r] /\ faults' = faults
         /\ ~ok => faults' = faults + 1
         /\ faults' >= faults
         /\ \A x \in Resource \ {r} : kern'[x] = kern[x]
<1>1. faults \in Nat BY GatewayAssumption DEF TypeOK
<1>2. CASE r \in Forward
  BY <1>1, <1>2 DEF Undo, SwitchOff, Fault, TypeOK
<1>3. CASE r \notin Forward
  BY <1>1, <1>3 DEF Undo, Delete, Fault, TypeOK
<1> QED BY <1>2, <1>3

LEMMA DeleteCosts ==
  ASSUME TypeOK, NEW r \in Resource, NEW ok \in BOOLEAN, Delete(r, ok)
  PROVE  /\ kern'[r] => kern[r] /\ faults' = faults + 1
         /\ kern[r] /\ ~ok => faults' = faults + 1 /\ kern' = kern
         /\ faults' = faults \/ faults' = faults + 1
         /\ \A x \in Resource \ {r} : kern'[x] = kern[x]
BY GatewayAssumption DEF Delete, Fault, TypeOK

LEMMA NfRestoreStep ==
  ASSUME TypeOK, StopInv, Stopping, NfRestore
  PROVE  TableGoesFirst' /\ TableCosts' /\ RoutingCosts'
         /\ (main' = "rtRestore" => mainAt' \in Routing)
<1> USE GatewayAssumption
<1>1. /\ listening /\ mainAt = "route6" /\ \A r \in Managed \ {"table"} : Mine(r)
      /\ ~meddled => \A r \in Managed \ {"table"} : kern[r]
      /\ applied["table"] /\ (kern["table"] => faults >= attempt - 1)
      /\ main = "nfRestore"
  BY DEF NfRestore, StopInv, TableGoesFirst, TableCosts, TakesTable
<1>2. faults \in Nat /\ attempt \in 1 .. 3 BY DEF TypeOK
<1>3. UNCHANGED <<listening, mainAt, entry, was, errs, meddled>> BY DEF NfRestore
<1>4. "table" \in Resource /\ Managed \subseteq Resource BY ManagedInResource DEF Resource
<1>5. \A r \in Managed \ {"table"} : Mine(r)'
  <2> SUFFICES ASSUME NEW r \in Managed \ {"table"} PROVE Mine(r)'
    OBVIOUS
  <2>1. applied'[r] = applied[r] BY <1>4 DEF NfRestore, TypeOK
  <2> QED BY <1>1, <1>3, <1>4, <2>1, MineStays
<1>6. CASE Delete("table", TRUE) /\ main' = "rtRestore" /\ attempt' = 1
  <2>1. ~kern'["table"] /\ faults' = faults BY <1>4, <1>6 DEF Delete, TypeOK
  <2>2. RoutingCosts'
    <3>1. faults' >= attempt' - 1 BY <1>2, <1>6, <2>1
    <3> QED BY <1>1, <1>3, <1>6, <3>1, StopOrders DEF RoutingCosts
  <2> QED BY <1>1, <1>3, <1>5, <1>6, <2>1, <2>2, StopOrders
             DEF TableGoesFirst, TableCosts, TakesTable
<1>7. CASE Delete("table", FALSE) /\ Retry("nfRestore", "nfForceList") /\ applied' = applied
  <2>1. kern' = kern /\ (kern["table"] => faults' = faults + 1)
    BY <1>4, <1>7, DeleteCosts DEF Delete
  <2>2. \/ attempt < 3 /\ main' = "nfRestore" /\ attempt' = attempt + 1
        \/ attempt = 3 /\ main' = "nfForceList" /\ attempt' = 1
    BY <1>2, <1>7 DEF Retry
  <2>3. kern["table"] /\ main' = "nfRestore" => faults' >= attempt' - 1
    BY <1>1, <1>2, <2>1, <2>2
  <2>4. kern["table"] /\ main' = "nfForceList" => faults' >= 3
    BY <1>1, <1>2, <2>1, <2>2
  <2>5. main' = "nfRestore" \/ (main' = "nfForceList" /\ attempt' = 1) BY <2>2
  <2>6. TableGoesFirst' BY <1>1, <1>3, <1>5, <2>1 DEF TableGoesFirst
  <2>7. TableCosts' BY <1>1, <1>7, <2>1, <2>3, <2>4, <2>5 DEF TableCosts, TakesTable
  <2> QED BY <2>5, <2>6, <2>7 DEF RoutingCosts
<1> QED BY <1>1, <1>6, <1>7 DEF NfRestore

LEMMA NfForceStep ==
  ASSUME TypeOK, StopInv, Stopping, NfForceList \/ NfForceDelete
  PROVE  TableGoesFirst' /\ TableCosts' /\ RoutingCosts'
         /\ (main' = "rtRestore" => mainAt' \in Routing)
<1> USE GatewayAssumption
<1>1. /\ listening /\ mainAt = "route6" /\ \A r \in Managed \ {"table"} : Mine(r)
      /\ ~meddled => \A r \in Managed \ {"table"} : kern[r]
      /\ attempt = 1 /\ (kern["table"] => faults >= 3)
  BY DEF NfForceList, NfForceDelete, StopInv, TableGoesFirst, TableCosts, TakesTable
<1>2. faults \in Nat BY DEF TypeOK
<1>3. UNCHANGED <<listening, mainAt, entry, was, errs, applied, attempt, meddled>>
  BY DEF NfForceList, NfForceDelete
<1>4. "table" \in Resource /\ Managed \subseteq Resource BY ManagedInResource DEF Resource
<1>5. \A r \in Managed \ {"table"} : Mine(r)'
  BY <1>1, <1>3, <1>4, MineStays
<1>6. /\ \A r \in Resource \ {"table"} : kern'[r] = kern[r]
      /\ faults' = faults \/ faults' = faults + 1
      /\ kern'["table"] => kern["table"]
      /\ \/ main' = "nfForceDelete"
         \/ main' = "rtRestore" /\ (kern'["table"] => faults' = faults + 1)
  <2>1. CASE NfForceList
    BY <2>1 DEF NfForceList, ListTable, Fault
  <2>2. CASE NfForceDelete
    BY <1>4, <2>2, DeleteCosts DEF NfForceDelete
  <2> QED BY <2>1, <2>2
<1>7. /\ kern'["table"] => faults' >= 3
      /\ main' = "rtRestore" /\ kern'["table"] => faults' >= 4
  BY <1>1, <1>2, <1>6
<1>8. TableGoesFirst' BY <1>1, <1>3, <1>4, <1>5, <1>6 DEF TableGoesFirst
<1>9. TableCosts' BY <1>1, <1>3, <1>6, <1>7 DEF TableCosts, TakesTable
<1>10. RoutingCosts'
  <2>1. faults' >= attempt' - 1 BY <1>1, <1>2, <1>3, <1>6
  <2>2. RestoredBefore(mainAt') = {} BY <1>1, <1>3, StopOrders
  <2>3. main' \in {"nfForceDelete", "rtRestore"} BY <1>6
  <2> QED BY <2>1, <2>2, <2>3 DEF RoutingCosts
<1> QED BY <1>1, <1>3, <1>8, <1>9, <1>10, StopOrders

LEMMA RtRestoreStep ==
  ASSUME TypeOK, ForwardInv, StopInv, Stopping, ManagedInv, RtRestore, [Next]_vars
  PROVE  TableGoesFirst' /\ TableCosts' /\ RoutingCosts'
         /\ (main' = "rtRestore" => mainAt' \in Routing)
<1> USE GatewayAssumption
<1>1. /\ main = "rtRestore" /\ mainAt \in Routing
      /\ \A r \in Managed \ {"table"} : Mine(r)
      /\ kern["table"] => faults >= 4
      /\ \A f \in Forward \ Managed : Untouched(f)
  BY DEF RtRestore, StopInv, StopFrame, TableGoesFirst, TableCosts, TakesTable
<1>2. \A r \in Routing : Left(r) =>
        faults >= attempt - 1 /\ (r \in RestoredBefore(mainAt) => errs /\ faults >= attempt)
  BY <1>1 DEF StopInv, RoutingCosts
<1>3. faults \in Nat /\ attempt \in 1 .. 3 /\ Routing \subseteq Resource
      /\ "table" \in Resource /\ mainAt # "table"
  BY <1>1 DEF TypeOK, Routing, Resource
<1>4. UNCHANGED <<entry, was, applied>> /\ ~Apply
  BY DEF RtRestore, Apply, StopInv, StopFrame
<1>5. PICK ok \in BOOLEAN :
        /\ IF ToUndo(mainAt) THEN Undo(mainAt, ok) ELSE ok /\ UNCHANGED osVars
        /\ LET failed == errs \/ ~ok IN
           IF RestoreNext(mainAt) # "done"
           THEN /\ mainAt' = RestoreNext(mainAt) /\ errs' = failed
                /\ UNCHANGED <<main, attempt>>
           ELSE /\ errs' = FALSE
                /\ IF failed
                   THEN /\ Retry("rtRestore", "rtForce")
                        /\ mainAt' = IF attempt < 3 THEN "route6" ELSE "route4"
                   ELSE main' = "relayClose" /\ UNCHANGED <<mainAt, attempt>>
  BY DEF RtRestore
\* What is left behind is undone, or costs a failure.
<1>6. Left(mainAt) => ToUndo(mainAt)
  <2> SUFFICES ASSUME Left(mainAt) PROVE ToUndo(mainAt)
    OBVIOUS
  <2>1. mainAt \in Managed
    <3>1. CASE mainAt \in Forward
      BY <1>1, <3>1, Zenon DEF Left, Untouched
    <3>2. CASE mainAt \notin Forward
      BY <1>1, <1>3, <3>2 DEF Left, ManagedInv
    <3> QED BY <3>1, <3>2
  <2>2. Mine(mainAt) BY <1>1, <1>3, <2>1
  <2>3. mainAt \in Forward => ~entry[mainAt] BY DEF Left
  <2> QED BY <2>2, <2>3, Zenon DEF ToUndo, Mine
<1>7. faults' \in Nat /\ faults' >= faults /\ kern'["table"] = kern["table"]
  <2>1. CASE ToUndo(mainAt)
    <3>1. Undo(mainAt, ok) BY <1>5, <2>1
    <3>2. CASE mainAt \in Forward
      BY <1>3, <3>1, <3>2 DEF Undo, SwitchOff, Fault, TypeOK
    <3>3. CASE mainAt \notin Forward
      <4>1. Delete(mainAt, ok) BY <3>1, <3>3 DEF Undo
      <4>2. kern'["table"] = kern["table"] BY <1>1, <1>3, <4>1, DeleteCosts DEF Routing
      <4>3. faults' = faults \/ faults' = faults + 1 BY <1>1, <4>1, DeleteCosts DEF Routing
      <4> QED BY <1>3, <4>2, <4>3
    <3> QED BY <3>2, <3>3
  <2>2. CASE ~ToUndo(mainAt) BY <1>3, <1>5, <2>2
  <2> QED BY <2>1, <2>2
<1>9. ASSUME NEW r \in Routing, Left(r)'
      PROVE  /\ Left(r)
             /\ r = mainAt => ~ok /\ faults' = faults + 1
  <2>1. Left(r) BY <1>3, <1>4, <1>9, LeftShrinks
  <2>2. CASE r = mainAt
    <3>1. Undo(r, ok) /\ kern[r] /\ kern'[r]
      BY <1>5, <1>6, <1>9, <2>1, <2>2 DEF Left
    <3> QED BY <1>3, <2>1, <3>1, UndoCosts
  <2> QED BY <2>1, <2>2
<1>10. ASSUME NEW r \in Routing, Left(r)'
       PROVE  /\ faults' >= attempt - 1
              /\ r \in RestoredBefore(mainAt) \cup {mainAt} =>
                   (errs \/ ~ok) /\ faults' >= attempt
  <2>1. Left(r) /\ (r = mainAt => ~ok /\ faults' = faults + 1) BY <1>9, <1>10
  <2>2. faults >= attempt - 1 /\ (r \in RestoredBefore(mainAt) => errs /\ faults >= attempt)
    BY <1>2, <2>1
  <2>3. faults' >= attempt - 1 BY <1>3, <1>7, <2>2
  <2>4. r \in RestoredBefore(mainAt) => faults' >= attempt BY <1>3, <1>7, <2>2
  <2>5. r = mainAt => faults' >= attempt BY <1>3, <2>1, <2>2
  <2> QED BY <2>1, <2>2, <2>3, <2>4, <2>5
<1>11. kern'["table"] => faults' >= 4 BY <1>1, <1>3, <1>7
<1>12. \A r \in Managed \ {"table"} : Mine(r)'
  BY <1>1, <1>4, ManagedInResource, MineStays
<1>13. CASE RestoreNext(mainAt) # "done"
  <2>1. /\ mainAt' = RestoreNext(mainAt) /\ (errs' <=> (errs \/ ~ok))
        /\ main' = "rtRestore" /\ attempt' = attempt
    BY <1>1, <1>5, <1>13
  <2>2. mainAt' \in Routing /\ RestoredBefore(mainAt') = RestoredBefore(mainAt) \cup {mainAt}
    BY <1>1, <1>13, <2>1, StopOrders
  <2>3. RoutingCosts' BY <1>10, <2>1, <2>2 DEF RoutingCosts
  <2> QED BY <1>11, <1>12, <2>1, <2>2, <2>3 DEF TableGoesFirst, TableCosts, TakesTable
<1>14. CASE RestoreNext(mainAt) = "done" /\ (errs \/ ~ok)
  <2>1. Retry("rtRestore", "rtForce")
        /\ mainAt' = IF attempt < 3 THEN "route6" ELSE "route4"
    BY <1>5, <1>14
  <2>2. \A r \in Routing : Left(r)' => faults' >= attempt
    BY <1>1, <1>10, <1>14, StopOrders
  <2>3. CASE attempt < 3
    <3>1. main' = "rtRestore" /\ attempt' = attempt + 1 /\ mainAt' = "route6"
      BY <2>1, <2>3 DEF Retry
    <3>2. \A r \in Routing : Left(r)' => faults' >= attempt' - 1
      BY <1>3, <2>2, <3>1
    <3>3. RoutingCosts' BY <3>1, <3>2, StopOrders DEF RoutingCosts
    <3> QED BY <1>11, <1>12, <3>1, <3>3, StopOrders DEF TableGoesFirst, TableCosts, TakesTable
  <2>4. CASE ~(attempt < 3)
    <3>1. main' = "rtForce" /\ mainAt' = "route4" BY <2>1, <2>4 DEF Retry
    <3>2. \A r \in Routing : Left(r)' => faults' >= 3 BY <1>3, <2>2, <2>4
    <3>3. RoutingCosts' BY <3>1, <3>2, StopOrders DEF RoutingCosts
    <3> QED BY <1>11, <3>1, <3>3 DEF TableGoesFirst, TableCosts, TakesTable
  <2> QED BY <2>3, <2>4
<1>15. CASE RestoreNext(mainAt) = "done" /\ ~(errs \/ ~ok)
  <2>1. main' = "relayClose" BY <1>5, <1>15
  <2>2. \A r \in Routing : ~Left(r)' BY <1>1, <1>10, <1>15, StopOrders
  <2> QED BY <1>11, <2>1, <2>2 DEF TableGoesFirst, TableCosts, TakesTable, RoutingCosts
<1> QED BY <1>13, <1>14, <1>15

LEMMA RtForceStep ==
  ASSUME TypeOK, ForceInv, StopInv, Stopping, RtForce
  PROVE  TableGoesFirst' /\ TableCosts' /\ RoutingCosts'
         /\ (main' = "rtRestore" => mainAt' \in Routing)
<1> USE GatewayAssumption
<1>1. /\ main = "rtForce" /\ mainAt \in Policy
      /\ kern["table"] => faults >= 4
  BY DEF RtForce, StopInv, TableCosts, TakesTable, ForceInv
<1>2. \A r \in Routing : Left(r) =>
        faults >= 3 /\ (r \in ForcedBefore(mainAt) => faults >= 4)
  BY <1>1 DEF StopInv, RoutingCosts
<1>3. faults \in Nat /\ mainAt \in Resource /\ mainAt # "table" /\ "table" \in Resource
      /\ Routing \subseteq Resource
  BY <1>1 DEF TypeOK, Policy, Routing, Resource
<1>4. PICK ok \in BOOLEAN : Delete(mainAt, ok) BY DEF RtForce
<1>5. /\ kern'[mainAt] => kern[mainAt] /\ faults' = faults + 1
      /\ faults' = faults \/ faults' = faults + 1
      /\ \A x \in Resource \ {mainAt} : kern'[x] = kern[x]
  BY <1>3, <1>4, DeleteCosts
<1>6. kern'["table"] => faults' >= 4 BY <1>1, <1>3, <1>5
<1>7. ASSUME NEW r \in Routing, Left(r)'
      PROVE  faults' >= 3 /\ (r \in ForcedBefore(mainAt) \cup {mainAt} => faults' >= 4)
  <2>1. entry' = entry BY DEF RtForce
  <2>2. kern'[r] /\ kern[r] BY <1>3, <1>5, <1>7 DEF Left
  <2>3. Left(r) BY <1>7, <2>1, <2>2, Zenon DEF Left
  <2>4. faults >= 3 /\ (r \in ForcedBefore(mainAt) => faults >= 4) BY <1>2, <2>3
  <2>5. r = mainAt => faults' = faults + 1 BY <1>5, <2>2
  <2> QED BY <1>3, <1>5, <2>4, <2>5
<1>8. CASE ForceNext(mainAt) = "done"
  <2>1. main' = "relayClose" BY <1>8 DEF RtForce
  <2>2. \A r \in Policy : r \in ForcedBefore(mainAt) \cup {mainAt}
    BY <1>1, <1>8, StopOrders
  <2> QED BY <1>6, <1>7, <2>1, <2>2 DEF TableGoesFirst, TableCosts, TakesTable, RoutingCosts
<1>9. CASE ForceNext(mainAt) # "done"
  <2>1. main' = "rtForce" /\ ForcedBefore(mainAt') = ForcedBefore(mainAt) \cup {mainAt}
    BY <1>1, <1>9, StopOrders DEF RtForce
  <2> QED BY <1>6, <1>7, <2>1 DEF TableGoesFirst, TableCosts, TakesTable, RoutingCosts
<1> QED BY <1>8, <1>9

\* The clean command beside a process only takes away rules, routes and table.
LEMMA CleanTakes ==
  ASSUME TypeOK, CleanStep, CleanStart => Up
  PROVE  /\ faults' \in Nat /\ faults' >= faults
         /\ \A r \in Resource : kern'[r] => kern[r]
         /\ \A f \in Forward : kern'[f] = kern[f]
         /\ Up => meddled'
         /\ UNCHANGED <<procVars, mgrVars, runVars, mainVars, relayVars, orig, entry, stopAt>>
<1> USE GatewayAssumption
<1>1. faults \in Nat BY DEF TypeOK
<1>2. "table" \in Resource \ Forward /\ \A r \in Policy : r \in Resource \ Forward
  BY NamesDiffer
<1>3. UNCHANGED <<procVars, mgrVars, runVars, mainVars, relayVars, orig, entry, stopAt>>
  BY DEF CleanStep, CleanStart, CleanListTable, CleanDelete
<1>4. Up => meddled'
  BY Zenon DEF CleanStep, CleanStart, CleanListTable, CleanDelete, Up
<1>5. CASE CleanStart
  BY <1>1, <1>3, <1>4, <1>5 DEF CleanStart, Up
<1>6. CASE CleanListTable
  BY <1>1, <1>3, <1>4, <1>6 DEF CleanListTable, ListTable, Fault
<1>7. CASE CleanDelete
  <2>1. PICK ok \in BOOLEAN : Delete(cleaner, ok) BY <1>7 DEF CleanDelete
  <2>2. cleaner \in Resource \ Forward BY <1>2, <1>7 DEF CleanDelete
  <2>3. /\ kern'[cleaner] => kern[cleaner]
        /\ faults' = faults \/ faults' = faults + 1
        /\ \A x \in Resource \ {cleaner} : kern'[x] = kern[x]
    BY <2>1, <2>2, DeleteCosts
  <2>4. faults' \in Nat /\ faults' >= faults BY <1>1, <2>3
  <2>5. \A f \in Forward : kern'[f] = kern[f] BY <2>1, <2>2, DeleteKeepsForward
  <2> QED BY <1>3, <1>4, <2>3, <2>4, <2>5
<1> QED BY <1>5, <1>6, <1>7 DEF CleanStep

\* Until main exits, its steps and the clean command alone decide what Stop
\* leaves; Run's goroutine and the connections have no part in it.
LEMMA StopStep ==
  ASSUME TypeOK, ForceInv, ForwardInv, ServingInv, RecordInv, ManagedInv, StopInv,
         [Next]_vars
  PROVE  StopInv'
<1> SUFFICES ASSUME Stopping'
             PROVE  /\ StopFrame' /\ TableGoesFirst' /\ TableCosts' /\ RoutingCosts'
                    /\ main' = "rtRestore" => mainAt' \in Routing
  BY DEF StopInv
<1>1. CASE Signal \/ RunError
  <2>1. /\ Up /\ main = "select" /\ run \in {"serving", "webFailed"}
        /\ UNCHANGED <<kern, entry, applied, was, run, listening, meddled>>
        /\ main' = "nfRestore" /\ mainAt' = "route6" /\ attempt' = 1 /\ faults' = 0
    BY <1>1 DEF Signal, RunError, StopBegins, FirstCleanup, Stopping, Up
  <2>2. Ready /\ \A f \in Forward \ Managed : Untouched(f) BY <2>1 DEF RecordInv
  <2>3. /\ listening' /\ \A r \in Managed : Mine(r)'
        /\ ~meddled' => \A r \in Managed : kern'[r]
    <3>1. \A r \in Managed : Mine(r)' BY <2>1, <2>2, ManagedInResource, MineStays DEF Ready
    <3>2. ~meddled' => \A r \in Managed : kern'[r] BY <2>1 DEF ServingInv
    <3> QED BY <2>1, <2>2, <3>1, <3>2 DEF Ready
  <2>4. \A f \in Forward \ Managed : Untouched(f)'
    BY <2>1, <2>2 DEF Untouched
  <2>5. applied'["table"]
    <3>1. "table" \in Managed /\ "table" \notin Forward BY NamesDiffer, StopOrders
    <3>2. Mine("table")' BY <2>3, <3>1
    <3> QED BY <3>1, <3>2 DEF Mine
  <2>6. StopFrame' BY <2>1, <2>4 DEF StopFrame
  <2>7. TableGoesFirst' BY <2>1, <2>3 DEF TableGoesFirst
  <2>8. TableCosts'
    <3>1. faults' >= attempt' - 1 BY <2>1
    <3> QED BY <2>1, <2>5, <3>1 DEF TableCosts, TakesTable
  <2>9. RoutingCosts' BY <2>1 DEF RoutingCosts
  <2> QED BY <2>1, <2>6, <2>7, <2>8, <2>9
<1>2. CASE ~(Signal \/ RunError)
  <2>1. Stopping
    <3>1. stopAt' = "served" /\ Up' BY DEF Stopping
    <3>2. CASE Start \/ Kill \/ Reload
      BY <3>1, <3>2 DEF Start, Kill, Reload, ExitWith, Up
    <3>3. CASE RunStep
      BY <3>1, <3>3 DEF RunStep, RunRelayStart, ReadForward, DropStale, Apply, Record,
         RunUndo, RunRelayClose, RunRelayWait, RunEnds, Stopping, Up
    <3>4. CASE MainStep
      <4>1. Up
        BY <1>2, <3>4 DEF MainStep, NfRestore, NfForceList, NfForceDelete,
           RtRestore, RtForce, MainRelayClose, MainExit, Up
      <4>2. stopAt' = stopAt
        BY <1>2, <3>4 DEF MainStep, NfRestore, NfForceList, NfForceDelete,
           RtRestore, RtForce, MainRelayClose, MainExit
      <4> QED BY <3>1, <4>1, <4>2 DEF Stopping
    <3>5. CASE OpenConn \/ CloseConn \/ UNCHANGED vars
      BY <3>1, <3>5 DEF OpenConn, CloseConn, vars, Stopping, Up
    <3>6. CASE CleanStep
      <4>1. proc' = proc /\ stopAt' = stopAt
        BY <3>6 DEF CleanStep, CleanStart, CleanListTable, CleanDelete
      <4> QED BY <3>1, <4>1 DEF Stopping, Up
    <3> QED BY <1>2, <3>2, <3>3, <3>4, <3>5, <3>6 DEF Next
  <2>2. /\ main # "select" /\ run \in {"serving", "webFailed", "finished"}
        /\ \A f \in Forward \ Managed : Untouched(f)
    BY <2>1 DEF StopInv, StopFrame
  <2>3. CASE RunStep \/ OpenConn \/ CloseConn \/ UNCHANGED vars
    <3>1. /\ UNCHANGED <<kern, faults, entry, applied, was, main, mainAt, attempt, errs,
                        listening, meddled>>
          /\ run' \in {"serving", "webFailed", "finished"}
      BY <2>2, <2>3 DEF RunStep, RunRelayStart, ReadForward, DropStale, Apply, Record,
           RunUndo, RunRelayClose, RunRelayWait, RunEnds, OpenConn, CloseConn, vars
    <3>2. /\ StopFrame /\ TableGoesFirst /\ TableCosts /\ RoutingCosts
          /\ main = "rtRestore" => mainAt \in Routing
      BY <2>1 DEF StopInv
    <3>3. StopFrame' BY <3>1, <3>2 DEF StopFrame, Untouched
    <3>4. TableGoesFirst' BY <3>1, <3>2 DEF TableGoesFirst, Mine
    <3>5. TableCosts' BY <3>1, <3>2 DEF TableCosts
    <3>6. RoutingCosts' BY <3>1, <3>2 DEF RoutingCosts, Left
    <3> QED BY <3>1, <3>2, <3>3, <3>4, <3>5, <3>6
  <2>4. CASE MainStep
    <3>1. StopFrame'
      <4>1. main' # "select" /\ run' = run
        BY <1>2, <2>4 DEF MainStep, NfRestore, Retry, NfForceList, NfForceDelete,
             RtRestore, RtForce, MainRelayClose, StopRelay, MainExit, ExitWith,
             Stopping, Up
      <4>2. ASSUME NEW f \in Forward \ Managed PROVE Untouched(f)'
        <5>1. f \in Resource /\ f # "table" BY NamesDiffer DEF Resource
        <5>2. applied'[f] = applied[f] /\ entry' = entry
          BY <1>2, <2>4, <5>1 DEF MainStep, NfRestore, NfForceList, NfForceDelete,
             RtRestore, RtForce, MainRelayClose, StopRelay, MainExit, ExitWith,
             Stopping, Up, TypeOK
        <5>3. ~kern[f] => ~kern'[f]
          BY <2>2, <5>1, OnlyApplyRaises DEF Apply
        <5>4. kern[f] => kern'[f]
          BY <2>2, LoweredByUndoOnly DEF Untouched
        <5>5. kern'[f] \in BOOLEAN /\ kern[f] \in BOOLEAN
          BY <5>1, TypeStep DEF TypeOK
        <5> QED BY <2>2, <5>2, <5>3, <5>4, <5>5 DEF Untouched
      <4> QED BY <2>2, <4>1, <4>2 DEF StopFrame
    <3>2. CASE NfRestore BY <2>1, <3>1, <3>2, NfRestoreStep
    <3>3. CASE NfForceList \/ NfForceDelete BY <2>1, <3>1, <3>3, NfForceStep
    <3>4. CASE RtRestore BY <2>1, <3>1, <3>4, RtRestoreStep
    <3>5. CASE RtForce BY <2>1, <3>1, <3>5, RtForceStep
    <3>6. CASE MainRelayClose
      <4>1. main = "relayClose" /\ main' = "relayWait" /\ UNCHANGED <<kern, faults, entry>>
        BY <3>6 DEF MainRelayClose, StopRelay, ExitWith, Stopping, Up
      <4>2. TableCosts /\ RoutingCosts BY <2>1 DEF StopInv
      <4>3. TableCosts' BY <4>1, <4>2 DEF TableCosts, TakesTable
      <4>4. RoutingCosts' BY <4>1, <4>2 DEF RoutingCosts, Left
      <4> QED BY <3>1, <4>1, <4>3, <4>4 DEF TableGoesFirst, TakesTable
    <3>7. CASE MainExit BY <3>7 DEF MainExit, ExitWith, Stopping, Up
    <3> QED BY <1>2, <2>4, <3>2, <3>3, <3>4, <3>5, <3>6, <3>7 DEF MainStep
  <2>5. CASE Start \/ Kill \/ Reload
    BY <2>5 DEF Start, Kill, Reload, ExitWith, Stopping, Up
  <2>6. CASE CleanStep
    <3>1. Up BY <2>1 DEF Stopping
    <3>2. /\ faults' \in Nat /\ faults' >= faults /\ meddled'
          /\ \A r \in Resource : kern'[r] => kern[r]
          /\ \A f \in Forward : kern'[f] = kern[f]
          /\ UNCHANGED <<entry, applied, was, run, main, mainAt, attempt, errs, listening>>
      BY <2>6, <3>1, CleanTakes
    <3>3. /\ TableGoesFirst /\ TableCosts /\ RoutingCosts
          /\ main = "rtRestore" => mainAt \in Routing
          /\ faults \in Nat /\ attempt \in 1 .. 3 /\ "table" \in Resource
          /\ Routing \subseteq Resource
      BY <2>1, GatewayAssumption DEF StopInv, TypeOK, Resource, Routing
    <3>4. StopFrame' BY <2>2, <3>2 DEF StopFrame, Untouched
    <3>5. TableGoesFirst' BY <3>2, <3>3 DEF TableGoesFirst, Mine
    <3>6. \A n \in {attempt - 1, attempt, 3, 4} : faults >= n => faults' >= n
      BY <3>2, <3>3
    <3>7. TableCosts'
      <4>1. kern'["table"] => kern["table"] BY <3>2, <3>3
      <4> QED BY <3>2, <3>3, <3>6, <4>1 DEF TableCosts
    <3>8. \A r \in Routing : Left(r)' => Left(r) BY <3>2, <3>3 DEF Left
    <3>9. RoutingCosts' BY <3>2, <3>3, <3>6, <3>8 DEF RoutingCosts
    <3> QED BY <3>2, <3>3, <3>4, <3>5, <3>7, <3>9
  <2> QED BY <1>2, <2>3, <2>4, <2>5, <2>6 DEF Next
<1> QED BY <1>1, <1>2

-----------------------------------------------------------------------------
\* What is there when main exits was left by Stop; a clean command that began
\* before goes on taking from it, and each of its failures counts too.
LEMMA ResidueStep ==
  ASSUME TypeOK, ForwardInv, ManagedInv, StopInv, ResidueCostsFaults, [Next]_vars
  PROVE  ResidueCostsFaults'
<1> SUFFICES ASSUME proc' \in Exits, stopAt' = "served", ~alone'
             PROVE  /\ (\E r \in Resource \ Forward : kern'[r]) => faults' >= 4
                    /\ (\E f \in Forward : kern'[f] # entry'[f]) => faults' >= 3
  BY DEF ResidueCostsFaults
<1>1. CASE MainExit
  <2>1. Stopping /\ main = "relayWait" /\ UNCHANGED <<kern, faults, entry>>
    BY <1>1 DEF MainExit, Stopping, Up
  <2>2. /\ kern["table"] => faults >= 4
        /\ \A r \in Routing : Left(r) => faults >= 3 /\ (r \in Policy => faults >= 4)
    BY <2>1 DEF StopInv, TableCosts, RoutingCosts, TakesTable
  <2>3. ASSUME NEW r \in Resource \ Forward, kern[r] PROVE faults >= 4
    <3>1. CASE r = "table" BY <2>2, <2>3, <3>1
    <3>2. CASE r # "table"
      BY <2>2, <2>3, <3>2, StopOrders DEF Routing, Left
    <3> QED BY <3>1, <3>2
  <2>4. ASSUME NEW f \in Forward, kern[f] # entry[f] PROVE faults >= 3
    <3>1. f \in Routing /\ kern[f] \in BOOLEAN /\ entry[f] \in BOOLEAN
      BY StopOrders DEF TypeOK, Routing
    <3>2. entry[f] => kern[f] BY <2>1 DEF ForwardInv, Stopping
    <3>3. Left(f) BY <2>4, <3>1, <3>2 DEF Left
    <3> QED BY <2>2, <3>1, <3>3
  <2> QED BY <2>1, <2>3, <2>4
<1>2. CASE CleanStep
  <2>1. ~CleanStart /\ UNCHANGED <<proc, stopAt, entry, alone>>
    <3>1. proc' = proc /\ proc # "up"
      BY <1>2 DEF CleanStep, CleanStart, CleanListTable, CleanDelete, Exits
    <3>2. ~CleanStart BY <3>1, Zenon DEF CleanStart
    <3> QED BY <1>2, <3>2 DEF CleanStep, CleanListTable, CleanDelete
  <2>2. /\ faults' \in Nat /\ faults' >= faults
        /\ \A r \in Resource : kern'[r] => kern[r]
        /\ \A f \in Forward : kern'[f] = kern[f]
    BY <1>2, <2>1, CleanTakes
  <2>3. /\ (\E r \in Resource \ Forward : kern[r]) => faults >= 4
        /\ (\E f \in Forward : kern[f] # entry[f]) => faults >= 3
    BY <2>1 DEF ResidueCostsFaults
  <2>4. faults \in Nat BY GatewayAssumption DEF TypeOK
  <2>5. (faults >= 4 => faults' >= 4) /\ (faults >= 3 => faults' >= 3) BY <2>2, <2>4
  <2> QED BY <2>1, <2>2, <2>3, <2>5
<1>3. CASE ~MainExit /\ ~CleanStep
  <2>1. UNCHANGED <<proc, stopAt, alone, kern, faults, entry>>
    BY <1>3 DEF Next, Start, Kill, Reload, ExitWith, OpenConn, CloseConn,
         RunStep, RunRelayStart, ReadForward, DropStale, Apply, Record, RunUndo,
         RunRelayClose, StopRelay, RunRelayWait, RunEnds, Signal, MainStep, RunError,
         StopBegins, NfRestore, NfForceList, NfForceDelete, RtRestore, RtForce,
         MainRelayClose, vars, Exits
  <2> QED BY <2>1 DEF ResidueCostsFaults
<1> QED BY <1>1, <1>2, <1>3

TeardownInv ==
  /\ ForceInv /\ ForwardInv /\ ServingInv /\ RecordInv /\ ManagedInv /\ StopInv
  /\ ResidueCostsFaults

LEMMA TeardownInductive == Spec => [](TypeOK /\ TeardownInv)
<1>1. Init => TeardownInv
  <2> SUFFICES ASSUME Init PROVE TeardownInv
    OBVIOUS
  <2>1. \A r \in Resource \ Forward : ~kern[r]
    BY GatewayAssumption DEF Init, Forward
  <2>2. ~Up /\ main = "select" /\ orig = kern /\ proc = "off"
    BY DEF Init, Up
  <2> QED
    BY <2>1, <2>2 DEF TeardownInv, ForceInv, ForwardInv, ServingInv, RecordInv, ManagedInv,
         StopInv, Stopping, ResidueCostsFaults, Exits
<1>2. TypeOK /\ TeardownInv /\ [Next]_vars => TeardownInv'
  BY ForceStep, ForwardStep, ServingStep, RecordStep, ManagedStep, StopStep, ResidueStep
     DEF TeardownInv
<1> QED BY <1>1, <1>2, TypeCorrect, PTL DEF Spec

\* While the table sends the clients' packets to the relay, the relay listens
\* and the routes to it are in place, unless four commands have failed (app.go Run,
\* Stop).
THEOREM StopIsOrderly == Spec => []OrderlyTeardown
<1>1. TypeOK /\ TeardownInv => OrderlyTeardown
  <2> SUFFICES ASSUME TypeOK, TeardownInv, Stopping, ~meddled, kern["table"], faults < 4
               PROVE  listening /\ \A r \in Managed \cap Policy : kern[r]
    BY DEF OrderlyTeardown, Stopping
  <2>1. TableGoesFirst /\ TableCosts BY DEF TeardownInv, StopInv
  <2>2. main \in TakesTable
    <3>1. faults \in Nat /\ ~(faults >= 4) BY GatewayAssumption DEF TypeOK
    <3> QED BY <2>1, <3>1 DEF TableCosts
  <2> QED BY <2>1, <2>2 DEF TableGoesFirst, Policy
<1> QED BY <1>1, TeardownInductive, PTL

\* A process that has served leaves a rule, route or table behind only if four
\* of its commands failed, a forwarding switch only if three did (app.go retry,
\* route.go and netfilter.go Restore).
THEOREM ResidueIsEarned == Spec => []ResidueCostsFaults
<1>1. TeardownInv => ResidueCostsFaults BY DEF TeardownInv
<1> QED BY <1>1, TeardownInductive, PTL

-----------------------------------------------------------------------------
(***************************************************************************)
(* The clean command, as long as no process is up beside it: what it has   *)
(* passed is gone, or a command has failed.                                *)
(***************************************************************************)
CleanInv ==
  (cleaner # "idle" /\ alone) =>
    /\ ~Up
    /\ faults = 0 =>
         /\ cleaner \in Policy \cup {"done"} => ~kern["table"]
         /\ cleaner \in Policy => \A r \in ForcedBefore(cleaner) : ~kern[r]
         /\ cleaner = "done" => \A r \in Policy : ~kern[r]

LEMMA CleanInductive == TypeOK /\ CleanInv /\ [Next]_vars => CleanInv'
<1> SUFFICES ASSUME TypeOK, CleanInv, [Next]_vars, cleaner' # "idle", alone'
             PROVE  /\ ~Up'
                    /\ faults' = 0 =>
                         /\ cleaner' \in Policy \cup {"done"} => ~kern'["table"]
                         /\ cleaner' \in Policy => \A r \in ForcedBefore(cleaner') : ~kern'[r]
                         /\ cleaner' = "done" => \A r \in Policy : ~kern'[r]
  BY DEF CleanInv
<1>1. "table" \in Resource /\ Policy \subseteq Resource /\ "table" \notin Policy
      /\ "done" \notin Policy /\ "idle" \notin Policy
  BY DEF Resource, Policy
<1>2. faults \in Nat BY GatewayAssumption DEF TypeOK
<1>3. CASE CleanStart
  <2>1. ~Up' BY <1>3, Zenon DEF CleanStart, Up
  <2>2. cleaner' = "list" BY <1>3 DEF CleanStart
  <2> QED BY <2>1, <2>2 DEF Policy
<1>4. CASE CleanListTable
  <2>1. ~Up /\ alone /\ proc' = proc /\ cleaner = "list"
    BY <1>4 DEF CleanListTable, CleanInv
  <2>2. \/ cleaner' = "table"
        \/ cleaner' = "route4" /\ (faults' = 0 => ~kern'["table"])
    BY <1>2, <1>4 DEF CleanListTable, ListTable, Fault
  <2> QED BY <1>1, <2>1, <2>2, StopOrders DEF Up
<1>5. CASE CleanDelete
  <2>1. ~Up /\ alone /\ proc' = proc /\ cleaner \in Policy \cup {"table"}
    BY <1>1, <1>5 DEF CleanDelete, CleanInv
  <2>2. PICK ok \in BOOLEAN : Delete(cleaner, ok) BY <1>5 DEF CleanDelete
  <2>3. /\ kern'[cleaner] => kern[cleaner] /\ faults' = faults + 1
        /\ faults' = faults \/ faults' = faults + 1
        /\ \A x \in Resource \ {cleaner} : kern'[x] = kern[x]
    BY <1>1, <2>1, <2>2, DeleteCosts
  <2>4. faults' = 0 => faults = 0 /\ ~kern'[cleaner] BY <1>2, <2>3
  <2>5. CASE cleaner = "table"
    <3>1. cleaner' = "route4" BY <1>5, <2>5 DEF CleanDelete
    <3> QED BY <1>1, <2>1, <2>4, <2>5, <3>1, StopOrders DEF Up
  <2>6. CASE cleaner \in Policy
    <3>1. cleaner' = ForceNext(cleaner) /\ cleaner # "table"
      BY <1>1, <1>5, <2>6 DEF CleanDelete
    <3>2. ASSUME faults' = 0
          PROVE  ~kern'["table"] /\ \A r \in ForcedBefore(cleaner) \cup {cleaner} : ~kern'[r]
      <4>1. ~kern["table"] /\ \A r \in ForcedBefore(cleaner) : ~kern[r]
        BY <1>1, <2>1, <2>4, <2>6, <3>2 DEF CleanInv
      <4>2. ForcedBefore(cleaner) \subseteq Resource BY DEF ForcedBefore, Resource, Policy
      <4> QED BY <1>1, <2>3, <2>4, <3>1, <3>2, <4>1, <4>2
    <3>3. CASE ForceNext(cleaner) = "done"
      <4>1. ForcedBefore(cleaner) \cup {cleaner} = Policy BY <2>6, <3>3, StopOrders
      <4> QED BY <1>1, <2>1, <3>1, <3>2, <3>3, <4>1 DEF Up
    <3>4. CASE ForceNext(cleaner) # "done"
      <4>1. ForcedBefore(cleaner') = ForcedBefore(cleaner) \cup {cleaner}
        BY <2>6, <3>1, <3>4, StopOrders
      <4> QED BY <2>1, <3>1, <3>2, <3>4, <4>1 DEF Up
    <3> QED BY <3>3, <3>4
  <2> QED BY <2>1, <2>5, <2>6
<1>6. CASE Start \/ Kill \/ Reload \/ OpenConn \/ CloseConn \/ RunStep \/ Signal \/ MainStep
  <2>1. Start \/ proc = "up"
    BY <1>6 DEF Kill, Reload, OpenConn, CloseConn, Signal, RunStep, RunRelayStart,
         ReadForward, DropStale, Apply, Record, RunUndo, RunRelayClose, RunRelayWait,
         RunEnds, MainStep, RunError, NfRestore, NfForceList, NfForceDelete, RtRestore,
         RtForce, MainRelayClose, MainExit
  <2>2. Start \/ (alone' = alone /\ cleaner' = cleaner)
    BY <1>6 DEF Kill, Reload, OpenConn, CloseConn, Signal, RunStep, RunRelayStart,
         ReadForward, DropStale, Apply, Record, RunUndo, RunRelayClose, RunRelayWait,
         RunEnds, MainStep, RunError, NfRestore, NfForceList, NfForceDelete, RtRestore,
         RtForce, MainRelayClose, MainExit
  <2>3. Start => ~alone' BY Zenon DEF Start
  <2> QED BY <2>1, <2>2, <2>3 DEF CleanInv, Up
<1>7. CASE UNCHANGED vars
  BY <1>7 DEF vars, CleanInv, Up
<1> QED BY <1>3, <1>4, <1>5, <1>6, <1>7 DEF Next, CleanStep

\* The clean command removes every rule, route and table, for either setting of
\* IPv6, unless a command failed or a process was up beside it (main.go
\* cleanCmd, route.go and netfilter.go ForceClean).
THEOREM CleanIsComplete == Spec => []CleanRemovesResidue
<1>1. Init => CleanInv
  BY DEF Init, CleanInv
<1>2. CleanInv => CleanRemovesResidue
  <2>1. \A r \in Resource \ Forward : r = "table" \/ r \in Policy BY DEF Resource
  <2> QED BY <2>1 DEF CleanInv, CleanRemovesResidue
<1> QED BY <1>1, <1>2, CleanInductive, TypeCorrect, PTL DEF Spec

-----------------------------------------------------------------------------
(***************************************************************************)
(* Ruleset and Traffic: what the chain does with every packet for every    *)
(* configuration and every state of the kernel it depends on, and from     *)
(* this and the order of start and stop, what becomes of the packets.      *)
(***************************************************************************)
IsConfig(c) == c.quic \in BOOLEAN /\ c.v6 \in BOOLEAN
IsPacket(p) == p.family \in {4, 6}

\* The families whose packets the rendered chain may mark.
Marked(c) == IF c.v6 THEN {4, 6} ELSE {4}

(***************************************************************************)
(* The CHOOSE of Classify, without CHOOSE: the chain ends with its policy  *)
(* or at a rule all of whose predecessors do not apply.                    *)
(***************************************************************************)
LEMMA FirstApplies ==
  ASSUME NEW c, NEW k, NEW p, NEW i \in RuleIndex, Applies(c, k, p, i),
         \A j \in RuleIndex : j < i => ~Applies(c, k, p, j)
  PROVE  Classify(c, k, p) = Verdict(i)
<1> DEFINE First(n) == /\ Applies(c, k, p, n)
                       /\ \A j \in RuleIndex : Applies(c, k, p, j) => n <= j
<1>1. First(i)
  BY DEF RuleIndex
<1>2. \A n \in RuleIndex : First(n) => n = i
  BY <1>1 DEF RuleIndex
<1>3. (CHOOSE n \in RuleIndex : First(n)) = i
  BY <1>1, <1>2
<1> QED
  BY <1>3 DEF Classify

LEMMA ChainEnds ==
  ASSUME NEW c, NEW k, NEW p
  PROVE  \/ /\ \A i \in RuleIndex : ~Applies(c, k, p, i)
            /\ Classify(c, k, p) = "forward"
         \/ \E i \in RuleIndex :
              /\ Applies(c, k, p, i)
              /\ \A j \in RuleIndex : j < i => ~Applies(c, k, p, j)
              /\ Classify(c, k, p) = Verdict(i)
<1>1. CASE \A i \in RuleIndex : ~Applies(c, k, p, i)
  BY <1>1 DEF Classify
<1>2. CASE \E i \in RuleIndex : Applies(c, k, p, i)
  <2>1. PICK i \in RuleIndex : /\ Applies(c, k, p, i)
                               /\ \A j \in RuleIndex : j < i => ~Applies(c, k, p, j)
    <3>1. RuleIndex = {1, 2, 3, 4, 5, 6, 7, 8}
      BY DEF RuleIndex
    <3> QED
      BY <1>2, <3>1
  <2> QED
    BY <2>1, FirstApplies
<1> QED
  BY <1>1, <1>2

-----------------------------------------------------------------------------
(***************************************************************************)
(* When each line applies.                                                 *)
(***************************************************************************)
LEMMA Lines ==
  ASSUME NEW c, NEW k, NEW p, IsConfig(c)
  PROVE  /\ Applies(c, k, p, 1) <=> p.iif # c.lan
         /\ Applies(c, k, p, 2) <=> c.quic /\ p.family = 4 /\ p.proto = "udp" /\ p.dport = 443
         /\ Applies(c, k, p, 3) <=> c.quic /\ p.family = 6 /\ p.proto = "udp" /\ p.dport = 443
         /\ Applies(c, k, p, 4) <=> p.proto # "tcp"
         /\ Applies(c, k, p, 5) <=> p.family = 4 /\ p.dst \in c.bypass4
         /\ Applies(c, k, p, 6) <=> p.family = 4 /\ p.proto = "tcp" /\ k.listening
         /\ Applies(c, k, p, 7) <=> c.v6 /\ p.family = 6 /\ p.dst \in c.bypass6
         /\ Applies(c, k, p, 8) <=> c.v6 /\ p.family = 6 /\ p.proto = "tcp" /\ k.listening
BY DEF IsConfig, Applies, Rendered, Matches,
       NotLAN, Quic4, Quic6, NotTCP, Bypass4, Tproxy4, Bypass6, Tproxy6

LEMMA Verdicts ==
  /\ Verdict(2) = "reject" /\ Verdict(3) = "reject"
  /\ Verdict(6) = "tproxy" /\ Verdict(8) = "tproxy"
  /\ \A i \in {1, 4, 5, 7} : Verdict(i) = "forward"
BY DEF Verdict, Quic4, Quic6, Tproxy4, Tproxy6

-----------------------------------------------------------------------------
(***************************************************************************)
(* The verdict: a packet is marked only if it is meant for the relay, and  *)
(* unless its listener is missing that is the only way to forward it.      *)
(***************************************************************************)
VerdictFits(c, k, p) ==
  /\ Classify(c, k, p) = "tproxy" => Intended(c, p) = "relay" /\ p.family \in Marked(c)
  /\ Classify(c, k, p) # "tproxy" =>
       \/ Classify(c, k, p) = Intended(c, p)
       \/ Classify(c, k, p) = "forward" /\ ~k.listening

LEMMA VerdictIsFit ==
  ASSUME NEW c, NEW k, NEW p, IsConfig(c), IsPacket(p), k.listening \in BOOLEAN
  PROVE  VerdictFits(c, k, p)
<1> DEFINE A(n) == Applies(c, k, p, n)
<1>1. RuleIndex = {1, 2, 3, 4, 5, 6, 7, 8}
  BY DEF RuleIndex
<1>2. CASE (\A i \in RuleIndex : ~A(i)) /\ Classify(c, k, p) = "forward"
  BY <1>1, <1>2, Lines DEF VerdictFits, Intended, IsConfig, IsPacket, Marked
<1>3. ASSUME NEW i \in RuleIndex, A(i), \A j \in RuleIndex : j < i => ~A(j),
             Classify(c, k, p) = Verdict(i)
      PROVE  VerdictFits(c, k, p)
  <2>1. CASE i = 1
    BY <1>3, <2>1, Lines, Verdicts DEF VerdictFits, Intended
  <2>2. p.iif = c.lan \/ i = 1
    BY <1>1, <1>3, Lines
  <2>3. CASE i \in {2, 3}
    BY <1>3, <2>2, <2>3, Lines, Verdicts DEF VerdictFits, Intended
  <2>4. CASE i = 4
    <3>1. ~A(2) /\ ~A(3) /\ A(4)
      BY <1>1, <1>3, <2>4
    <3> QED
      BY <1>3, <2>2, <2>4, <3>1, Lines, Verdicts DEF VerdictFits, Intended, IsPacket
  <2>5. CASE i \in {5, 6, 7, 8}
    <3>1. p.proto = "tcp" /\ p.iif = c.lan
      BY <1>1, <1>3, <2>2, <2>5, Lines
    <3>2. CASE i \in {5, 7}
      BY <1>3, <3>1, <3>2, Lines, Verdicts DEF VerdictFits, Intended, IsPacket
    <3>3. CASE i = 6
      <4>1. ~A(5) /\ A(6)
        BY <1>1, <1>3, <3>3
      <4> QED
        BY <1>3, <3>1, <3>3, <4>1, Lines, Verdicts DEF VerdictFits, Intended, Marked
    <3>4. CASE i = 8
      <4>1. ~A(7) /\ A(8)
        BY <1>1, <1>3, <3>4
      <4> QED
        BY <1>3, <3>1, <3>4, <4>1, Lines, Verdicts DEF VerdictFits, Intended, Marked
    <3> QED
      BY <2>5, <3>2, <3>3, <3>4
  <2> QED
    BY <1>1, <2>1, <2>3, <2>4, <2>5
<1> QED
  BY <1>2, <1>3, ChainEnds

-----------------------------------------------------------------------------
\* With the table loaded, the relay listening and the routes of every family the
\* chain marks, each packet fares as the README promises (netfilter.go render).
THEOREM ServedAsPromised ==
  ASSUME NEW c, NEW k, NEW p, IsConfig(c), IsPacket(p),
         k.table = TRUE, k.listening = TRUE, Marked(c) \subseteq k.policy
  PROVE  Fate(c, k, p) = Intended(c, p)
<1>1. VerdictFits(c, k, p)
  BY VerdictIsFit
<1> QED
  BY <1>1 DEF Fate, VerdictFits

\* Whatever the state of table and listener: a packet fares as promised or as if
\* there were no gateway, and none is lost, as long as the routes are there
\* whenever the table is.  So set-up and teardown may show any intermediate
\* state that keeps this order (app.go Run, Stop).
THEOREM NoneIsLost ==
  ASSUME NEW c, NEW k, NEW p, IsConfig(c), IsPacket(p),
         k.table \in BOOLEAN, k.listening \in BOOLEAN,
         k.table => Marked(c) \subseteq k.policy
  PROVE  Fate(c, k, p) \in {Intended(c, p), "forward"}
<1>1. VerdictFits(c, k, p)
  BY VerdictIsFit
<1> QED
  BY <1>1 DEF Fate, VerdictFits

-----------------------------------------------------------------------------
(***************************************************************************)
(* Packets.  While a process starts, the table comes last: as long as it   *)
(* is not there, and there was none before, no packet is marked.           *)
(***************************************************************************)
StartInv ==
  Up => /\ stopAt = "none" => main = "select"
        /\ main = "select" => run # "finished"
        /\ (/\ main = "select" /\ ~entry["table"] /\ ~meddled
            /\ run = "relayStart" \/ SettingUp
            /\ runAt # "table") => ~kern["table"]

LEMMA StartStep == TypeOK /\ ManagedInv /\ StartInv /\ [Next]_vars => StartInv'
<1> SUFFICES ASSUME TypeOK, ManagedInv, StartInv, [Next]_vars, Up'
             PROVE  /\ stopAt' = "none" => main' = "select"
                    /\ main' = "select" => run' # "finished"
                    /\ (/\ main' = "select" /\ ~entry'["table"] /\ ~meddled'
                        /\ run' = "relayStart" \/ SettingUp'
                        /\ runAt' # "table") => ~kern'["table"]
  BY DEF StartInv
<1>1. CASE Start
  BY <1>1 DEF Start, FreshMemory
<1>2. CASE Kill \/ Reload
  BY <1>2 DEF Kill, Reload, ExitWith, Up
<1>3. CASE Signal \/ RunError
  <2>1. main' = "nfRestore" /\ stopAt' # "none"
    BY <1>3 DEF Signal, RunError, StopBegins, FirstCleanup
  <2> QED BY <2>1
<1>4. CASE MainStep /\ ~RunError
  <2>1. main # "select" /\ main' # "select" /\ stopAt' = stopAt /\ Up
    BY <1>4 DEF MainStep, NfRestore, Retry, NfForceList, NfForceDelete, RtRestore,
         RtForce, MainRelayClose, StopRelay, MainExit, ExitWith, Up
  <2> QED BY <2>1 DEF StartInv
<1>5. CASE RunStep
  <2>1. Up /\ UNCHANGED <<main, stopAt, entry, meddled>> /\ "table" \in Resource
    BY <1>5 DEF RunStep, RunRelayStart, ReadForward, DropStale, Apply, Record,
         RunUndo, RunRelayClose, StopRelay, ExitWith, RunRelayWait, RunEnds, Up, Resource
  <2>2. main' = "select" => run' # "finished"
    BY <1>5, <2>1 DEF RunStep, RunRelayStart, ReadForward, SetupAdvances, SetupFails,
         DropStale, Apply, Record, RunUndo, RunRelayClose, StopRelay, ExitWith,
         RunRelayWait, RunEnds, Up, StartInv
  <2>3. ASSUME main' = "select", ~entry'["table"], ~meddled',
               run' = "relayStart" \/ SettingUp', runAt' # "table"
        PROVE  ~kern'["table"]
    <3>1. (run = "relayStart" \/ SettingUp) /\ runAt # "table"
      <4>1. CASE RunRelayStart
        BY <2>1, <4>1, <2>3 DEF RunRelayStart
      <4>2. CASE ReadForward \/ DropStale \/ Apply \/ Record
        BY <2>3, <4>2 DEF ReadForward, DropStale, Apply, Record, SetupAdvances, SetupFails,
             SettingUp, SetupNext
      <4>3. CASE RunUndo \/ RunRelayClose \/ RunRelayWait \/ RunEnds
        BY <2>1, <2>3, <4>3 DEF RunUndo, RunRelayClose, StopRelay, ExitWith,
             RunRelayWait, RunEnds, SettingUp, Up
      <4> QED BY <1>5, <4>1, <4>2, <4>3 DEF RunStep
    <3>2. ~kern["table"] BY <2>1, <2>3, <3>1 DEF StartInv
    <3>3. CASE Apply
      BY <2>1, <3>1, <3>2, <3>3 DEF Apply, TypeOK
    <3> QED BY <2>1, <3>2, <3>3, OnlyApplyRaises
  <2> QED BY <2>1, <2>2, <2>3 DEF StartInv
<1>6. CASE CleanStep
  <2>1. Up /\ UNCHANGED <<main, stopAt, entry, run, runAt>>
    BY <1>6 DEF CleanStep, CleanStart, CleanListTable, CleanDelete, Up
  <2>2. meddled'
    BY <1>6, <2>1, Zenon DEF CleanStep, CleanStart, CleanListTable, CleanDelete, Up
  <2> QED BY <2>1, <2>2 DEF StartInv
<1>7. CASE OpenConn \/ CloseConn \/ UNCHANGED vars
  BY <1>7 DEF OpenConn, CloseConn, vars, StartInv, SettingUp, Up
<1> QED BY <1>1, <1>2, <1>3, <1>4, <1>5, <1>6, <1>7 DEF Next

\* The state of the kernel in the terms of the rules.
LEMMA RoutesServeMarks ==
  ASSUME \A r \in Managed \cap Policy : kern[r]
  PROVE  Marked(Options) \subseteq KernelNow.policy
BY GatewayAssumption DEF Managed, Policy, Resource, Forward, Marked, Options, KernelNow

\* Through start, service and an orderly stop of a process that found no table,
\* a packet is treated as promised or as if there were no gateway (app.go Run,
\* Stop with netfilter.go render).
THEOREM PacketsAreSafe == Spec => []NoPacketIsLost
<1>1. Init => StartInv
  BY DEF Init, StartInv, Up
<1>2. TypeOK /\ TeardownInv /\ StartInv => NoPacketIsLost
  <2> SUFFICES ASSUME TypeOK, TeardownInv, StartInv, Up, ~meddled, faults < 4,
                      ~entry["table"], stopAt \in {"none", "served"},
                      run \notin {"undo", "relayClose", "relayWait", "failed"},
                      NEW p \in Packets
               PROVE  /\ Fate(Options, KernelNow, p) \in {Intended(Options, p), "forward"}
                      /\ (run = "serving" /\ main = "select") =>
                           Fate(Options, KernelNow, p) = Intended(Options, p)
    BY DEF NoPacketIsLost
  <2>1. kern["table"] => \A r \in Managed \cap Policy : kern[r]
    <3>1. CASE stopAt = "served"
      <4>1. TableGoesFirst /\ TableCosts BY <3>1 DEF TeardownInv, StopInv, Stopping
      <4>2. ASSUME kern["table"] PROVE main \in TakesTable
        <5>1. faults \in Nat /\ ~(faults >= 4) BY GatewayAssumption DEF TypeOK
        <5> QED BY <4>1, <4>2, <5>1 DEF TableCosts
      <4> QED BY <4>1, <4>2 DEF TableGoesFirst, Policy
    <3>2. CASE stopAt = "none"
      <4>1. main = "select" /\ run # "finished" BY <3>2 DEF StartInv
      <4>2. CASE run \in {"serving", "webFailed"}
        BY <4>1, <4>2 DEF TeardownInv, ServingInv
      <4>3. CASE run = "relayStart" \/ SettingUp
        <5>1. CASE runAt # "table" BY <4>1, <4>3, <5>1 DEF StartInv
        <5>2. CASE runAt = "table" /\ SettingUp
          BY <4>1, <5>2 DEF TeardownInv, ServingInv, Earlier, Policy
        <5>3. run = "relayStart" => runAt = "fwd4" BY DEF TeardownInv, ManagedInv
        <5> QED BY <4>3, <5>1, <5>2, <5>3
      <4> QED BY <4>1, <4>2, <4>3 DEF TypeOK, RunPC, SettingUp
    <3> QED BY <3>1, <3>2
  <2>2. IsConfig(Options) /\ IsPacket(p)
    BY GatewayAssumption, TrafficAssumption DEF IsConfig, Options, IsPacket, Packets
  <2>3. KernelNow.table = kern["table"] /\ KernelNow.listening = (Up /\ listening)
    BY DEF KernelNow
  <2>4. KernelNow.table \in BOOLEAN /\ KernelNow.listening \in BOOLEAN
    BY <2>3 DEF TypeOK, Resource
  <2>5. KernelNow.table => Marked(Options) \subseteq KernelNow.policy
    BY <2>1, <2>3, RoutesServeMarks
  <2>6. Fate(Options, KernelNow, p) \in {Intended(Options, p), "forward"}
    BY <2>2, <2>4, <2>5, NoneIsLost
  <2>7. ASSUME run = "serving", main = "select"
        PROVE  Fate(Options, KernelNow, p) = Intended(Options, p)
    <3>1. listening /\ \A r \in Managed : kern[r]
      BY <2>7 DEF TeardownInv, ServingInv
    <3>2. "table" \in Managed BY StopOrders
    <3>3. KernelNow.table /\ KernelNow.listening BY <2>3, <3>1, <3>2
    <3>4. Marked(Options) \subseteq KernelNow.policy BY <3>1, RoutesServeMarks
    <3> QED BY <2>2, <3>3, <3>4, ServedAsPromised
  <2> QED BY <2>6, <2>7
<1>3. TypeOK /\ TeardownInv /\ StartInv /\ [Next]_vars => StartInv'
  BY StartStep DEF TeardownInv
<1> QED BY <1>1, <1>2, <1>3, TeardownInductive, PTL DEF Spec
=============================================================================
