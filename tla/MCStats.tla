------------------------------ MODULE MCStats ------------------------------
(***************************************************************************)
(* An instance of Stats for TLC: two connections of one device and one of  *)
(* another, in two shards.                                                 *)
(***************************************************************************)
EXTENDS Stats

CONSTANTS c1, c2, c3, d1, d2

MCDeviceOf == [c \in Conns |-> IF c = c3 THEN d2 ELSE d1]
MCBytes    == [c \in Conns |-> IF c = c2 THEN 2 ELSE 1]
MCShardOf  == [d \in Devices |-> IF d = d1 THEN 2 ELSE 1]
=============================================================================
