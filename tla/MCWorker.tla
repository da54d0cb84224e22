------------------------------ MODULE MCWorker ------------------------------
(* A worker small enough for exhaustive exploration.  The bounds keep the  *)
(* proportions of the code: POLL_LIMIT, WARMUP and BatchSize are small     *)
(* enough to be crossed several times by the packets that arrive.          *)
EXTENDS Worker
=============================================================================
