----------------------------- MODULE MCStartup -----------------------------
(* Up to three threads and queue pairs, set by up to three options in any  *)
(* order, and a packet for every worker.                                   *)
EXTENDS Startup
=============================================================================
