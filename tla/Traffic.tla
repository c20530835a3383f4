------------------------------ MODULE Traffic ------------------------------
(***************************************************************************)
(* The gateway's life (Gateway) together with the packets of the LAN       *)
(* (Ruleset): what happens to a packet at every moment at which a process  *)
(* starts, serves, fails or stops.                                         *)
(***************************************************************************)
EXTENDS Gateway, Ruleset

CONSTANT BlockQUIC  \* cfg.TProxy.BlockQUIC

ASSUME TrafficAssumption == BlockQUIC \in BOOLEAN

\* What app.New hands to the two managers.
Options ==
  [lan |-> "lan", quic |-> BlockQUIC, v6 |-> EnableIPv6,
   bypass4 |-> {"private"}, bypass6 |-> {"private"}]

\* What the packets of the LAN meet in this state of the kernel.
KernelNow ==
  [table     |-> kern["table"],
   listening |-> Up /\ listening,
   policy    |-> {f \in {4, 6} :
                    IF f = 4 THEN kern["rule4"] /\ kern["route4"]
                             ELSE kern["rule6"] /\ kern["route6"]}]

\* One packet of every kind the rules tell apart.
Packets ==
  [iif : {"lan", "wan"}, family : {4, 6}, proto : {"tcp"}, dport : {443},
   dst : {"private", "public"}]
    \cup
  [iif : {"lan"}, family : {4, 6}, proto : {"udp"}, dport : {53, 443},
   dst : {"private", "public"}]

-----------------------------------------------------------------------------
\* While a process starts, serves or stops after serving, a packet is treated as
\* the README says or routed as if there were no gateway, and while the gateway
\* serves it is treated as the README says: at no moment is a packet marked that
\* no route catches (app.go Run and Stop: relay, then routes, then table, and
\* back).  Excepted are a table left by a killed process, the clean command
\* beside a running process, four failed commands, and a set-up that failed or
\* was interrupted by a signal.
NoPacketIsLost ==
  (/\ Up /\ ~meddled /\ faults < 4 /\ ~entry["table"]
   /\ stopAt \in {"none", "served"}
   /\ run \notin {"undo", "relayClose", "relayWait", "failed"}) =>
    \A p \in Packets :
      LET fate == Fate(Options, KernelNow, p) IN
      /\ fate \in {Intended(Options, p), "forward"}
      /\ (run = "serving" /\ main = "select") => fate = Intended(Options, p)
=============================================================================
