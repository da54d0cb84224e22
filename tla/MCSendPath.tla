----------------------------- MODULE MCSendPath -----------------------------
(* An int small enough to be counted all the way round, and a ring of two  *)
(* slots, which hold old entries of both senses after a lap.               *)
EXTENDS SendPath
=============================================================================
