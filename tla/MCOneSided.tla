----------------------------- MODULE MCOneSided -----------------------------
(* Two clients, two server threads and buffers of two entries; every pair  *)
(* of channels is explored together, with enough messages for each ring to *)
(* wrap.                                                                   *)
EXTENDS OneSided
=============================================================================
