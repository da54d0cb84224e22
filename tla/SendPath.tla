------------------------------ MODULE SendPath ------------------------------
(***************************************************************************)
(* From a packet to the NIC, at the grain of the machine.  Modules Worker  *)
(* and QueuePair count packets with a natural number and store a           *)
(* work-queue entry in one step; here                                      *)
(*                                                                         *)
(* - tmp_count is the int of the code, in two's complement of a small      *)
(*   width, and is counted past its largest value.  It decides the size of *)
(*   the batch (the warm-up test) and, as an unsigned int, the send buffer *)
(*   of every reply;                                                       *)
(* - create_wq_entry assigns a struct, which the machine carries out as    *)
(*   several stores in an order of its own, and a notification tells the   *)
(*   NIC of the write: after the stores of the volatile fields, but not    *)
(*   necessarily after the others.                                         *)
(*                                                                         *)
(* The NIC, external and modelled from this use, spends one notification   *)
(* to fetch the entry at the slot it expects next, which valid and SR must *)
(* show to be new.                                                         *)
(***************************************************************************)
EXTENDS Integers, Sequences

CONSTANTS
  IntMod,         \* int and unsigned int have this many values; 2^32
  WARMUP,         \* 1010
  BatchSize,      \* params.batch_size
  MSGS_PER_PAIR,  \* send buffers; 256
  MAX_NUM_WQ,     \* slots of the work queue; 512
  MaxPackets      \* bound: packets received

ASSUME SendPathAssumption ==
  /\ {IntMod, BatchSize, MSGS_PER_PAIR, MAX_NUM_WQ, MaxPackets} \subseteq Nat \ {0}
  /\ WARMUP \in Nat /\ WARMUP < IntMod \div 2
  /\ IntMod % MSGS_PER_PAIR = 0

AsUnsigned(n) == n % IntMod
AsInt(n)      == LET u == n % IntMod
                 IN  IF u < IntMod \div 2 THEN u ELSE u - IntMod

VARIABLES
  received,       \* packets received, without wrapping
  tmp_count,
  rpcs,           \* the open batch: packets by number
  requests,       \* what batch_process_simpNF has still to post
  pc,             \* "receive", "post", "store" or "advance"
  todo,           \* fields of the entry not stored yet
  q,              \* slot -> entry
  head, SR,       \* the worker's index and sense
  notifications,  \* raised and not yet spent
  nic_tail, nic_SR,
  posted,         \* history: requests whose entries were begun
  replies,        \* history: packet and send buffer of the replies among them
  fetched         \* history: how many of them the NIC fetched

loopVars == <<received, tmp_count, rpcs>>
wqVars   == <<todo, q, head, SR, notifications>>
nicVars  == <<nic_tail, nic_SR, fetched>>
vars     == <<loopVars, requests, pc, wqVars, nicVars, posted, replies>>

Slots == 0 .. MAX_NUM_WQ - 1

(* valid and SR, which the NIC looks at, and fields that say what to do:   *)
(* the operation, and the buffer.                                          *)
Fields == {"valid", "SR", "op", "buf_addr"}

Init ==
  /\ received = 0 /\ tmp_count = 0 /\ rpcs = <<>>
  /\ requests = <<>> /\ pc = "receive" /\ todo = {}
  /\ q = [s \in Slots |-> [valid |-> FALSE, SR |-> FALSE, op |-> "", buf_addr |-> <<>>]]
  /\ head = 0 /\ SR = TRUE /\ notifications = 0
  /\ nic_tail = 0 /\ nic_SR = TRUE
  /\ posted = <<>> /\ replies = <<>> /\ fetched = 0

-----------------------------------------------------------------------------
(* run_worker: an iteration of the loop up to batch_process_simpNF. *)
CurrentBatchSize == IF tmp_count < WARMUP THEN 1 ELSE BatchSize

(* Mutant: the count of sends stays signed, and C's remainder of a         *)
(* negative number is negative.                                            *)
lbuf_offset_signed(n) ==
  IF AsInt(n) < 0 THEN -((-AsInt(n)) % MSGS_PER_PAIR) ELSE AsInt(n) % MSGS_PER_PAIR

lbuf_offset(n) == AsUnsigned(n) % MSGS_PER_PAIR

(* batch_process_simpNF: for each of the first batch_size packets a reply  *)
(* from the next send buffer, and the return of its receive slot.          *)
BatchRequests(batch, count, batch_size) ==
  [k \in 1 .. 2 * batch_size |->
     LET i == (k - 1) \div 2
     IN  IF k % 2 = 1
           THEN [op |-> "SEND",
                 buf_addr |-> <<batch[i + 1], lbuf_offset((count - batch_size) + i)>>]
           ELSE [op |-> "RECV", buf_addr |-> <<batch[i + 1]>>]]

(* The batch is processed, and forgotten, as soon as it holds batch_size   *)
(* packets or more.                                                        *)
Dispatch(batch, count, batch_size) ==
  IF Len(batch) >= batch_size
    THEN /\ requests' = BatchRequests(batch, count, batch_size)
         /\ rpcs' = <<>>
         /\ pc' = "post"
    ELSE rpcs' = batch /\ UNCHANGED <<requests, pc>>

Packet ==
  /\ pc = "receive"
  /\ received < MaxPackets
  /\ received' = received + 1
  /\ tmp_count' = AsInt(tmp_count + 1)
  /\ Dispatch(Append(rpcs, received'), tmp_count', CurrentBatchSize)
  /\ UNCHANGED <<wqVars, nicVars, posted, replies>>

(* Mutant: the batch is closed one packet short. *)
TimeoutShort ==
  /\ pc = "receive"
  /\ rpcs # <<>>
  /\ Dispatch(rpcs, tmp_count, Len(rpcs) - 1)
  /\ UNCHANGED <<received, tmp_count, wqVars, nicVars, posted, replies>>

(* A receive that gave up (0xbeef) closes the batch as it is.  (For an     *)
(* empty batch nothing happens.)                                           *)
Timeout ==
  /\ pc = "receive"
  /\ rpcs # <<>>
  /\ Dispatch(rpcs, tmp_count, Len(rpcs))
  /\ UNCHANGED <<received, tmp_count, wqVars, nicVars, posted, replies>>

BatchDone ==
  /\ pc = "post"
  /\ requests = <<>>
  /\ pc' = "receive"
  /\ UNCHANGED <<loopVars, requests, wqVars, nicVars, posted, replies>>

-----------------------------------------------------------------------------
(* Mutant: the slot is not tested for a request the NIC has still to fetch. *)
PostBeginUnchecked ==
  /\ pc = "post"
  /\ requests # <<>>
  /\ posted' = Append(posted, Head(requests))
  /\ replies' = IF Head(requests).op = "SEND"
                  THEN Append(replies, Head(requests).buf_addr) ELSE replies
  /\ todo' = Fields
  /\ pc' = "store"
  /\ UNCHANGED <<loopVars, requests, q, head, SR, notifications, nicVars>>

(* rmc_hw_send and rmc_hw_recv.  A refused send is tried again, a refused  *)
(* recv is not.                                                            *)
PostBegin ==
  /\ pc = "post"
  /\ requests # <<>>
  /\ ~q[head].valid
  /\ posted' = Append(posted, Head(requests))
  /\ replies' = IF Head(requests).op = "SEND"
                  THEN Append(replies, Head(requests).buf_addr) ELSE replies
  /\ todo' = Fields
  /\ pc' = "store"
  /\ UNCHANGED <<loopVars, requests, q, head, SR, notifications, nicVars>>

RecvDropped ==
  /\ pc = "post"
  /\ requests # <<>>
  /\ Head(requests).op = "RECV"
  /\ q[head].valid
  /\ requests' = Tail(requests)
  /\ UNCHANGED <<loopVars, pc, wqVars, nicVars, posted, replies>>

(* create_wq_entry: the stores of the entry, in any order ... *)
anEntry == [valid |-> TRUE, SR |-> SR,
            op |-> Head(requests).op, buf_addr |-> Head(requests).buf_addr]

Store ==
  /\ pc \in {"store", "advance"}
  /\ \E f \in todo :
       /\ q' = [q EXCEPT ![head] = [@ EXCEPT ![f] = anEntry[f]]]
       /\ todo' = todo \ {f}
  /\ UNCHANGED <<loopVars, requests, pc, head, SR, notifications, nicVars, posted, replies>>

(* Mutant: valid and SR are not volatile either. *)
NotifyAnyTime ==
  /\ pc = "store"
  /\ notifications' = notifications + 1
  /\ pc' = "advance"
  /\ UNCHANGED <<loopVars, requests, todo, q, head, SR, nicVars, posted, replies>>

(* ... and the notification.  register_buffer's asm is volatile, and so    *)
(* comes after the stores of valid and SR, which are, too; but it does not *)
(* declare to touch memory, so that the other stores may come after it,    *)
(* up to the return from rmc_hw_send or rmc_hw_recv.                       *)
Notify ==
  /\ pc = "store"
  /\ todo \cap {"valid", "SR"} = {}
  /\ notifications' = notifications + 1
  /\ pc' = "advance"
  /\ UNCHANGED <<loopVars, requests, todo, q, head, SR, nicVars, posted, replies>>

Advance ==
  /\ pc = "advance"
  /\ todo = {}
  /\ head' = (head + 1) % MAX_NUM_WQ
  /\ SR' = IF head' = 0 THEN ~SR ELSE SR
  /\ requests' = Tail(requests)
  /\ pc' = "post"
  /\ UNCHANGED <<loopVars, todo, q, notifications, nicVars, posted, replies>>

-----------------------------------------------------------------------------
(* The NIC (external). *)
New == q[nic_tail].valid /\ q[nic_tail].SR = nic_SR

NicFetch ==
  /\ notifications > 0
  /\ New
  /\ notifications' = notifications - 1
  /\ fetched' = fetched + 1
  /\ q' = [q EXCEPT ![nic_tail].valid = FALSE]
  /\ nic_tail' = (nic_tail + 1) % MAX_NUM_WQ
  /\ nic_SR' = IF nic_tail' = 0 THEN ~nic_SR ELSE nic_SR
  /\ UNCHANGED <<loopVars, requests, pc, todo, head, SR, posted, replies>>

Next ==
  \/ Packet \/ Timeout \/ BatchDone
  \/ PostBegin \/ RecvDropped \/ Store \/ Notify \/ Advance
  \/ NicFetch

Spec == Init /\ [][Next]_vars
-----------------------------------------------------------------------------
(* What the NIC is to do for the k-th entry; the slots are zero before the *)
(* first of them.                                                          *)
Request(k) == IF k > 0 THEN posted[k] ELSE [op |-> "", buf_addr |-> <<>>]

(* Half-written requests: what a notified NIC finds in its slot is the     *)
(* next request posted, whatever the order of the stores.  Only a field    *)
(* whose store is still to come can be wrong (the notification may         *)
(* overtake it), and it then shows what the slot held a lap earlier.       *)
WholeOnceStored ==
  notifications > 0 =>
    LET k == fetched + 1
    IN  /\ k <= Len(posted)
        /\ \A f \in {"op", "buf_addr"} :
             q[nic_tail][f] = IF k = Len(posted) /\ f \in todo
                                THEN Request(k - MAX_NUM_WQ)[f] ELSE Request(k)[f]

(* No lost wake-up: a notification always finds a new entry, and there is  *)
(* one for every request in the queue, so that the NIC spends none in vain *)
(* and never sleeps with a request left.                                   *)
NoLostWakeup ==
  /\ notifications > 0 => New
  /\ pc # "store" => notifications = Len(posted) - fetched

(* Replies answer the packets in their order, each once, and whatever the  *)
(* count of packets wraps to, the send buffers are used in turn: one is    *)
(* used again only when all the others have been, up to the few a batch    *)
(* cut short at the wrap leaves out.                                       *)
BuffersInTurn ==
  \A k \in 1 .. Len(replies) :
    /\ replies[k][2] \in 0 .. MSGS_PER_PAIR - 1
    /\ \A j \in 1 .. k - 1 :
         /\ replies[j][1] < replies[k][1]
         /\ k - j <= MSGS_PER_PAIR - BatchSize =>
              replies[j][2] # replies[k][2]

(* How often the count has passed its largest value. *)
overflows == (received + IntMod \div 2) \div IntMod

(* What run_worker warns of (a batch larger than batch_size, whose excess  *)
(* packets are never answered) happens only when the count overflows in    *)
(* the middle of a batch, because the warm-up test then holds again: at    *)
(* most BatchSize - 1 packets are skipped each time, and none before.      *)
SkipsOnlyAtOverflow ==
  pc = "receive" =>
    received - Len(replies) - Len(rpcs) <= overflows * (BatchSize - 1)
=============================================================================
