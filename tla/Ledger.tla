------------------------------- MODULE Ledger -------------------------------
(***************************************************************************)
(* What the relay promises about the connections it takes over: each is    *)
(* refused, or opened and then settled exactly once with the traffic it    *)
(* carried; and once the relay has finished, the books are closed.         *)
(***************************************************************************)
EXTENDS Naturals

CONSTANTS
  Conns,    \* connections clients may open
  Traffic   \* the <<tx, rx>> a connection may carry, <<0, 0>> among them

VARIABLES
  state,    \* state[c]: "absent", "refused", "open" or "settled"
  tx, rx,   \* bytes settled so far
  finished  \* the relay has stopped

lvars == <<state, tx, rx, finished>>

LInit ==
  /\ state = [c \in Conns |-> "absent"]
  /\ tx = 0 /\ rx = 0
  /\ finished = FALSE

Open(c) ==
  /\ ~finished /\ state[c] = "absent"
  /\ state' = [state EXCEPT ![c] = "open"]
  /\ UNCHANGED <<tx, rx, finished>>

Refuse(c) ==
  /\ ~finished /\ state[c] = "absent"
  /\ state' = [state EXCEPT ![c] = "refused"]
  /\ UNCHANGED <<tx, rx, finished>>

Settle(c) ==
  /\ state[c] = "open"
  /\ state' = [state EXCEPT ![c] = "settled"]
  /\ \E t \in Traffic : tx' = tx + t[1] /\ rx' = rx + t[2]
  /\ UNCHANGED finished

Finish ==
  /\ \A c \in Conns : state[c] # "open"
  /\ finished' = TRUE
  /\ UNCHANGED <<state, tx, rx>>

LNext == Finish \/ \E c \in Conns : Open(c) \/ Refuse(c) \/ Settle(c)

LSpec == LInit /\ [][LNext]_lvars
=============================================================================
