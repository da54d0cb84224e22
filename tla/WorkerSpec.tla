----------------------------- MODULE WorkerSpec -----------------------------
(***************************************************************************)
(* What a worker promises to its clients: every packet is answered once or *)
(* lost, the receive slot of one that was answered is then given back, and *)
(* there are never more packets unreturned than slots.  (A packet is lost  *)
(* because receive leaves its payload_len unassigned; see Worker.)  Once   *)
(* the simulator raises client_done, packets may stay unanswered, and the  *)
(* worker stops; before, it stops only with a packet lost.                 *)
(***************************************************************************)
EXTENDS Integers

CONSTANTS
  Slots,       \* receive slots
  MaxPackets   \* bound: packets that arrive

VARIABLES
  arrived,     \* packets the NIC has delivered
  answered,    \* replies it has transmitted
  lost,        \* packets the worker misread
  returned,    \* receive slots it has got back
  client_done,
  stopped

vars == <<arrived, answered, lost, returned, client_done, stopped>>

Init ==
  /\ arrived = 0 /\ answered = 0 /\ lost = 0 /\ returned = 0
  /\ client_done = FALSE /\ stopped = FALSE

Deliver ==
  /\ arrived - returned < Slots
  /\ arrived < MaxPackets
  /\ arrived' = arrived + 1
  /\ UNCHANGED <<answered, lost, returned, client_done, stopped>>

Answer ==
  /\ answered + lost < arrived
  /\ answered' = answered + 1
  /\ UNCHANGED <<arrived, lost, returned, client_done, stopped>>

Lose ==
  /\ ~client_done /\ ~stopped
  /\ answered + lost < arrived
  /\ lost' = lost + 1
  /\ UNCHANGED <<arrived, answered, returned, client_done, stopped>>

Return ==
  /\ returned < answered
  /\ returned' = returned + 1
  /\ UNCHANGED <<arrived, answered, lost, client_done, stopped>>

ClientDone ==
  /\ ~client_done
  /\ client_done' = TRUE
  /\ UNCHANGED <<arrived, answered, lost, returned, stopped>>

Stop ==
  /\ client_done \/ lost > 0
  /\ ~stopped
  /\ stopped' = TRUE
  /\ UNCHANGED <<arrived, answered, lost, returned, client_done>>

Next == Deliver \/ Answer \/ Lose \/ Return \/ ClientDone \/ Stop

Spec == Init /\ [][Next]_vars

LiveSpec ==
  /\ Spec
  /\ WF_vars(~client_done /\ ~stopped /\ Answer)
  /\ WF_vars(~client_done /\ Return)
  /\ WF_vars(client_done /\ Stop)
=============================================================================
