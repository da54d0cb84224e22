-------------------------- MODULE MCCircularBuffer --------------------------
(* A ring of four entries and enough messages for three laps, with credits *)
(* for up to the whole ring at a time: every relative position of tail,    *)
(* senders_head and head occurs, with both senses.                         *)
EXTENDS CircularBuffer
=============================================================================
