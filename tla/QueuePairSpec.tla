--------------------------- MODULE QueuePairSpec ---------------------------
(***************************************************************************)
(* What a queue pair of libzsim promises to the two sides that share it:   *)
(* the work queue (application to NIC) and the completion queue (NIC to    *)
(* application) are bounded FIFO queues.  Nothing posted is lost,          *)
(* duplicated, reordered or overwritten.                                   *)
(*                                                                         *)
(* QueuePair (the sense-reversing rings of zsim_nic_defines.cpp) is shown  *)
(* to implement this module; Worker is built on top of it.                 *)
(***************************************************************************)
EXTENDS Naturals, Sequences

CONSTANTS
  MAX_NUM_WQ,   \* number of slots of each ring (512 in the code)
  Requests,     \* what the application posts (wq_entry_t, without the flags)
  Completions   \* what the NIC reports (cq_entry_t, without the flags)

VARIABLES
  wqueue,       \* posted requests the NIC has not fetched yet, oldest first
  cqueue        \* completions the application has not taken yet, oldest first

vars == <<wqueue, cqueue>>

TypeOK ==
  /\ wqueue \in Seq(Requests)
  /\ cqueue \in Seq(Completions)
  /\ Len(wqueue) <= MAX_NUM_WQ
  /\ Len(cqueue) <= MAX_NUM_WQ

(* A post finds the queue full when every slot holds an unfetched request. *)
Full == Len(wqueue) >= MAX_NUM_WQ

Init ==
  /\ wqueue = <<>>
  /\ cqueue = <<>>

(* The application posts a request (rmc_hw_send, rmc_hw_recv). *)
Post(r) ==
  /\ ~Full
  /\ wqueue' = Append(wqueue, r)
  /\ UNCHANGED cqueue

(* The NIC fetches the oldest request. *)
Fetch ==
  /\ wqueue # <<>>
  /\ wqueue' = Tail(wqueue)
  /\ UNCHANGED cqueue

(* The NIC reports a completion. *)
Complete(c) ==
  /\ Len(cqueue) < MAX_NUM_WQ
  /\ cqueue' = Append(cqueue, c)
  /\ UNCHANGED wqueue

(* The application takes the oldest completion (rmc_check_cq). *)
Take ==
  /\ cqueue # <<>>
  /\ cqueue' = Tail(cqueue)
  /\ UNCHANGED wqueue

Next ==
  \/ \E r \in Requests : Post(r)
  \/ Fetch
  \/ \E c \in Completions : Complete(c)
  \/ Take

Spec == Init /\ [][Next]_vars

(* The NIC keeps fetching while there is something to fetch. *)
LiveSpec == Spec /\ WF_vars(Fetch)
=============================================================================
