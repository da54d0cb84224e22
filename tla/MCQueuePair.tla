---------------------------- MODULE MCQueuePair ----------------------------
(* The rings of QueuePair, two slots each: every position of the two sides *)
(* relative to each other and to the end of the ring occurs, with both     *)
(* senses of every slot, and two requests tell the order of the queue.     *)
EXTENDS QueuePair
=============================================================================
