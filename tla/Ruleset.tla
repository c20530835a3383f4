------------------------------ MODULE Ruleset ------------------------------
(***************************************************************************)
(* The table inet lanproxy_gw: the rules the template renders for a        *)
(* configuration, and what becomes of a packet that meets them in the      *)
(* prerouting hook, given the listener and the policy routes the marked    *)
(* packets need.                                                           *)
(*                                                                         *)
(* A configuration c is a record with the fields lan, quic, v6, bypass4    *)
(* and bypass6; a packet p has iif, family, proto, dport and dst.  The     *)
(* kernel state k has table, listening, and policy, the set of families    *)
(* that have both their ip rule and their local route.                     *)
(***************************************************************************)
EXTENDS Naturals

\* The lines of the chain, in the order of the template.
RuleIndex == 1 .. 8
NotLAN   == 1  Quic4   == 2  Quic6   == 3  NotTCP  == 4
Bypass4  == 5  Tproxy4 == 6  Bypass6 == 7  Tproxy6 == 8

\* Which of them the template renders.
Rendered(c, i) ==
  CASE i \in {Quic4, Quic6}     -> c.quic
    [] i \in {Bypass6, Tproxy6} -> c.v6
    [] OTHER                    -> TRUE

\* (slips: the table catches every interface; only IPv4 is kept off QUIC)
MatchesAnyIface(c, p, i) ==
  CASE i = NotLAN  -> FALSE
    [] i = Quic4   -> p.family = 4 /\ p.proto = "udp" /\ p.dport = 443
    [] i = Quic6   -> p.family = 6 /\ p.proto = "udp" /\ p.dport = 443
    [] i = NotTCP  -> p.proto # "tcp"
    [] i = Bypass4 -> p.family = 4 /\ p.dst \in c.bypass4
    [] i = Bypass6 -> p.family = 6 /\ p.dst \in c.bypass6
    [] i = Tproxy4 -> p.family = 4 /\ p.proto = "tcp"
    [] i = Tproxy6 -> p.family = 6 /\ p.proto = "tcp"

\* A tproxy statement of one family passes packets of the other on (kernel).
Matches(c, p, i) ==
  CASE i = NotLAN  -> p.iif # c.lan
    [] i = Quic4   -> p.family = 4 /\ p.proto = "udp" /\ p.dport = 443
    [] i = Quic6   -> p.family = 6 /\ p.proto = "udp" /\ p.dport = 443
    [] i = NotTCP  -> p.proto # "tcp"
    [] i = Bypass4 -> p.family = 4 /\ p.dst \in c.bypass4
    [] i = Bypass6 -> p.family = 6 /\ p.dst \in c.bypass6
    [] i = Tproxy4 -> p.family = 4 /\ p.proto = "tcp"
    [] i = Tproxy6 -> p.family = 6 /\ p.proto = "tcp"

\* It also passes them on when no socket listens on its port (kernel).
Applies(c, k, p, i) ==
  /\ Rendered(c, i)
  /\ Matches(c, p, i)
  /\ i \in {Tproxy4, Tproxy6} => k.listening

Verdict(i) ==
  CASE i \in {Quic4, Quic6}     -> "reject"
    [] i \in {Tproxy4, Tproxy6} -> "tproxy"
    [] OTHER                    -> "forward"

\* The first rule that applies decides; the policy of the chain is accept.
Classify(c, k, p) ==
  IF \A i \in RuleIndex : ~Applies(c, k, p, i) THEN "forward"
  ELSE Verdict(CHOOSE i \in RuleIndex :
                 /\ Applies(c, k, p, i)
                 /\ \A j \in RuleIndex : Applies(c, k, p, j) => i <= j)

\* A marked packet that the local route does not catch is dropped, because a
\* packet with a socket is not forwarded (kernel).
Fate(c, k, p) ==
  LET verdict == IF k.table THEN Classify(c, k, p) ELSE "forward" IN
  IF verdict # "tproxy" THEN verdict
  ELSE IF p.family \in k.policy THEN "relay" ELSE "dropped"

-----------------------------------------------------------------------------
\* What the README promises of a packet (README.md "features", the table of the
\* settings): TCP of the LAN goes through the relay unless its destination is
\* bypassed or its family is not enabled; UDP to port 443 is rejected for both
\* families if QUIC is blocked; everything else is routed.
Intended(c, p) ==
  CASE p.iif # c.lan -> "forward"
    [] p.iif = c.lan /\ p.proto = "tcp" ->
         IF \/ p.family = 4 /\ p.dst \notin c.bypass4
            \/ p.family = 6 /\ c.v6 /\ p.dst \notin c.bypass6
         THEN "relay" ELSE "forward"
    [] p.iif = c.lan /\ p.proto # "tcp" ->
         IF c.quic /\ p.proto = "udp" /\ p.dport = 443
         THEN "reject" ELSE "forward"
=============================================================================
