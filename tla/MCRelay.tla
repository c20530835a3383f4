------------------------------ MODULE MCRelay ------------------------------
(***************************************************************************)
(* Instances of Relay for TLC.                                             *)
(***************************************************************************)
EXTENDS Relay

CONSTANTS c1, c2, c3

\* A connection that carries nothing, and one with different byte counts.
MCTraffic == {<<0, 0>>, <<1, 2>>}
=============================================================================
