------------------------------- MODULE Worker -------------------------------
(***************************************************************************)
(* One worker thread of simpNF (run_worker) on its queue pair: it polls    *)
(* the completion queue for packets, collects them into batches, answers   *)
(* every packet of a batch with an RMC_SEND to its sender and gives the    *)
(* receive slot back with an RMC_RECV.  The packet path of rpc.cpp         *)
(* (receiveRPCRequest_zsim_l3fwd, sendToNode_zsim, do_Recv_zsim) is part   *)
(* of the module.  The queue pair is the one QueuePairSpec promises, which *)
(* QueuePair implements; the NIC on its other side, which also delivers    *)
(* packets and raises client_done, is external.                            *)
(***************************************************************************)
EXTENDS Integers, Sequences, FiniteSets

CONSTANTS
  MAX_NUM_WQ,     \* slots of each queue; 512 in zsim_nic_defines.hpp
  MSGS_PER_PAIR,  \* receive slots per node, and send buffers; 256 in rpc.h
  NumNodes,       \* ctx_struct.num_nodes (--total-nodes)
  BatchSize,      \* params.batch_size (--batchsize)
  POLL_LIMIT,     \* polls before receive gives up; 500
  WARMUP,         \* packets answered one by one; 1010
  NidMod,         \* source_node_ids keeps a uint16_t of the tid; 65536
  UninitLen,      \* payload_len of a packet, which receive never assigns, as
                  \* far as the worker tells values apart
  MaxPackets,     \* bound: packets that arrive
  MaxOther        \* bound: completions that are not packets

Nodes     == 0 .. NumNodes - 1
RecvSlots == Nodes \X (0 .. MSGS_PER_PAIR - 1)
Batch     == 0 .. BatchSize - 1
NoSlot    == <<>>           \* a garbage rpc.payload
Lbufs     == 0 .. MSGS_PER_PAIR - 1
Sends     == [op : {"SEND"}, nid : 0 .. NidMod - 1, buf : Lbufs, seq : Nat]
Recvs     == [op : {"RECV"}, slot : RecvSlots]
Requests  == Sends \cup Recvs

(* A completion is an incoming packet in its slot (the slot tells the      *)
(* node), an incoming response, or the completion of a work-queue entry.   *)
Packets     == [op : {"RMC_INCOMING_SEND"}, slot : RecvSlots]
RESP        == [op |-> "RMC_INCOMING_RESP"]
DONE        == [op |-> "WQ_DONE"]
INVAL       == [op |-> "RMC_INVAL"]
Completions == Packets \cup {RESP, DONE}

Lens == {"DEAD", "BEEF", "OTHER"}

ASSUME WorkerAssumption ==
  /\ {MAX_NUM_WQ, MSGS_PER_PAIR, NumNodes, BatchSize, POLL_LIMIT, NidMod}
       \subseteq Nat \ {0}
  /\ {WARMUP, MaxPackets, MaxOther} \subseteq Nat
  /\ NumNodes <= NidMod      \* ctx_struct.num_nodes is a uint16_t, too
  /\ UninitLen \subseteq Lens

VARIABLES
  wq,              \* the queue pair
  cq,
  pc,              \* where the worker is
  count,           \* polls of the current receive call
  raw_wqe,         \* did rmc_check_cq find the work queue full?
  ret,             \* what rmc_check_cq returned
  payload_len,     \* rpcs[batch_counter].payload_len
  rpcs,            \* batch index -> receive slot (rpcs[i].payload)
  source_node_ids, \* batch index -> node to reply to
  batch_counter,
  batch_size,
  tmp_count,       \* packets accepted so far
  i,               \* loop index of batch_process_simpNF
  lbuf,            \* send buffer -> number of the send that last wrote it
  client_done,     \* *client_done, raised by the simulator
  freeSlots,       \* NIC: receive slots a packet may be delivered into
  arrived,         \* NIC: packets delivered so far
  others,          \* NIC: other completions reported so far
  sent,            \* history: the replies the NIC has transmitted
  accepted,        \* history: the slots of the packets the worker accepted
  misread          \* history: the slots of the packets it took for something else

batchVars == <<rpcs, source_node_ids, batch_counter, batch_size,
               tmp_count, accepted, misread>>
pollVars  == <<count, raw_wqe, ret, payload_len>>
nicVars   == <<client_done, freeSlots, arrived, others, sent>>
vars      == <<wq, cq, pc, i, lbuf, batchVars, pollVars, nicVars>>

QP == INSTANCE QueuePairSpec WITH wqueue <- wq, cqueue <- cq

Init ==
  /\ QP!Init
  /\ pc = "poll"
  /\ count = 0 /\ raw_wqe = FALSE /\ ret = INVAL /\ payload_len = "OTHER"
  /\ rpcs = [b \in Batch |-> NoSlot]
  /\ source_node_ids = [b \in Batch |-> 0]
  /\ batch_counter = 0 /\ batch_size = BatchSize /\ tmp_count = 0
  /\ i = 0
  /\ lbuf = [b \in Lbufs |-> -1]
  /\ client_done = FALSE
  /\ freeSlots = RecvSlots
  /\ arrived = 0 /\ others = 0
  /\ sent = <<>> /\ accepted = <<>> /\ misread = <<>>

-----------------------------------------------------------------------------
(***************************************************************************)
(* receiveRPCRequest_zsim_l3fwd: at most POLL_LIMIT calls of rmc_check_cq, *)
(* until one returns a packet or the client is done.                       *)
(***************************************************************************)
PollTimeout ==
  /\ pc = "poll"
  /\ count >= POLL_LIMIT
  /\ payload_len' = "BEEF"
  /\ rpcs' = [rpcs EXCEPT ![batch_counter] = NoSlot]
  /\ pc' = "dispatch"
  /\ UNCHANGED <<wq, cq, i, lbuf, count, raw_wqe, ret, source_node_ids,
                 batch_counter, batch_size, tmp_count, accepted, misread, nicVars>>

PollCheck ==
  /\ pc = "poll"
  /\ count < POLL_LIMIT
  /\ count' = count + 1
  /\ pc' = "outer"
  /\ UNCHANGED <<wq, cq, i, lbuf, raw_wqe, ret, payload_len, batchVars, nicVars>>

(* rmc_check_cq, on the queues the rings implement. *)
CheckOuter ==
  /\ pc = "outer"
  /\ raw_wqe' = QP!Full
  /\ pc' = "inner"
  /\ UNCHANGED <<wq, cq, i, lbuf, count, ret, payload_len, batchVars, nicVars>>

CheckTake ==
  /\ pc = "inner"
  /\ QP!Take
  /\ IF Head(cq) = DONE
       THEN UNCHANGED <<pc, ret>>
       ELSE pc' = "returned" /\ ret' = Head(cq)
  /\ UNCHANGED <<i, lbuf, count, raw_wqe, payload_len, batchVars, nicVars>>

CheckEmpty ==
  /\ pc = "inner"
  /\ cq = <<>>
  /\ IF raw_wqe
       THEN pc' = "outer" /\ UNCHANGED ret
       ELSE pc' = "returned" /\ ret' = INVAL
  /\ UNCHANGED <<wq, cq, i, lbuf, count, raw_wqe, payload_len, batchVars, nicVars>>

(* Mutant: the polling loop does not look at client_done. *)
ReceiveRetryDeaf ==
  /\ pc = "returned"
  /\ ret \notin Packets
  /\ pc' = "poll"
  /\ UNCHANGED <<wq, cq, i, lbuf, pollVars, batchVars, nicVars>>

(* Mutant: the poll limit is tested at the end of the loop, where it also  *)
(* throws away a packet found at the last poll.                            *)
ReceiveRetryAtLimit ==
  /\ pc = "returned"
  /\ ret \notin Packets \/ count >= POLL_LIMIT
  /\ ~client_done
  /\ pc' = "poll"
  /\ UNCHANGED <<wq, cq, i, lbuf, pollVars, batchVars, nicVars>>

ReceiveRetry ==
  /\ pc = "returned"
  /\ ret \notin Packets
  /\ ~client_done
  /\ pc' = "poll"
  /\ UNCHANGED <<wq, cq, i, lbuf, pollVars, batchVars, nicVars>>

(* client_done wins over a packet that was just taken: it is dropped.      *)
ReceiveDone ==
  /\ pc = "returned"
  /\ client_done
  /\ payload_len' = "DEAD"
  /\ rpcs' = [rpcs EXCEPT ![batch_counter] = NoSlot]
  /\ pc' = "dispatch"
  /\ UNCHANGED <<wq, cq, i, lbuf, count, raw_wqe, ret, source_node_ids,
                 batch_counter, batch_size, tmp_count, accepted, misread, nicVars>>

(* Mutant: the sender is stored at the first index of the batch. *)
ReceivePacketFirst ==
  /\ pc = "returned"
  /\ ret \in Packets
  /\ ~client_done
  /\ payload_len' \in UninitLen
  /\ misread' = IF payload_len' = "OTHER" THEN misread ELSE Append(misread, ret.slot)
  /\ rpcs' = [rpcs EXCEPT ![batch_counter] = ret.slot]
  /\ source_node_ids' = [source_node_ids EXCEPT ![0] = ret.slot[1] % NidMod]
  /\ pc' = "dispatch"
  /\ UNCHANGED <<wq, cq, i, lbuf, count, raw_wqe, ret,
                 batch_counter, batch_size, tmp_count, accepted, nicVars>>

(* Nothing assigns payload_len: the caller finds in it what happens to be  *)
(* there.  A packet whose payload_len is one of the two magic values is    *)
(* misread by run_worker, as a time-out or as the end.                     *)
ReceivePacket ==
  /\ pc = "returned"
  /\ ret \in Packets
  /\ ~client_done
  /\ payload_len' \in UninitLen
  /\ misread' = IF payload_len' = "OTHER" THEN misread ELSE Append(misread, ret.slot)
  /\ rpcs' = [rpcs EXCEPT ![batch_counter] = ret.slot]
  /\ source_node_ids' =
       [source_node_ids EXCEPT ![batch_counter] = ret.slot[1] % NidMod]
  /\ pc' = "dispatch"
  /\ UNCHANGED <<wq, cq, i, lbuf, count, raw_wqe, ret,
                 batch_counter, batch_size, tmp_count, accepted, nicVars>>

-----------------------------------------------------------------------------
(***************************************************************************)
(* run_worker, after receive returned.  The warm-up test looks at          *)
(* tmp_count before the packet is counted.  A time-out closes the batch at *)
(* whatever it holds.                                                      *)
(***************************************************************************)
WorkerExit ==
  /\ pc = "dispatch"
  /\ payload_len = "DEAD"
  /\ pc' = "exit"
  /\ UNCHANGED <<wq, cq, i, lbuf, pollVars, batchVars, nicVars>>

CurrentBatchSize == IF tmp_count < WARMUP THEN 1 ELSE BatchSize

(* Mutant: a batch is processed only once it is overfull. *)
DispatchPacketOverfull ==
  /\ pc = "dispatch"
  /\ payload_len = "OTHER"
  /\ batch_size' = CurrentBatchSize
  /\ batch_counter' = batch_counter + 1
  /\ tmp_count' = tmp_count + 1
  /\ accepted' = Append(accepted, rpcs[batch_counter])
  /\ pc' = IF batch_counter' > batch_size' THEN "send" ELSE "poll"
  /\ i' = 0 /\ count' = 0 /\ ret' = INVAL
  /\ UNCHANGED <<wq, cq, lbuf, raw_wqe, payload_len, rpcs, source_node_ids,
                 misread, nicVars>>

DispatchPacket ==
  /\ pc = "dispatch"
  /\ payload_len = "OTHER"
  /\ batch_size' = CurrentBatchSize
  /\ batch_counter' = batch_counter + 1
  /\ tmp_count' = tmp_count + 1
  /\ accepted' = Append(accepted, rpcs[batch_counter])
  /\ pc' = IF batch_counter' >= batch_size' THEN "send" ELSE "poll"
  /\ i' = 0 /\ count' = 0 /\ ret' = INVAL
  /\ UNCHANGED <<wq, cq, lbuf, raw_wqe, payload_len, rpcs, source_node_ids,
                 misread, nicVars>>

(* Mutant: a time-out does not close the batch. *)
DispatchTimeoutKeepsWaiting ==
  /\ pc = "dispatch"
  /\ payload_len = "BEEF"
  /\ batch_size' = CurrentBatchSize
  /\ pc' = IF batch_counter >= batch_size' THEN "send" ELSE "poll"
  /\ i' = 0 /\ count' = 0 /\ ret' = INVAL
  /\ UNCHANGED <<wq, cq, lbuf, raw_wqe, payload_len, rpcs, source_node_ids,
                 batch_counter, tmp_count, accepted, misread, nicVars>>

(* Mutant: a time-out discards the batch. *)
DispatchTimeoutDiscards ==
  /\ pc = "dispatch"
  /\ payload_len = "BEEF"
  /\ batch_size' = CurrentBatchSize
  /\ batch_counter' = 0
  /\ pc' = "poll"
  /\ i' = 0 /\ count' = 0 /\ ret' = INVAL
  /\ UNCHANGED <<wq, cq, lbuf, raw_wqe, payload_len, rpcs, source_node_ids,
                 tmp_count, accepted, misread, nicVars>>

DispatchTimeout ==
  /\ pc = "dispatch"
  /\ payload_len = "BEEF"
  /\ batch_size' = batch_counter
  /\ pc' = "send"
  /\ i' = 0 /\ count' = 0 /\ ret' = INVAL
  /\ UNCHANGED <<wq, cq, lbuf, raw_wqe, payload_len, rpcs, source_node_ids,
                 batch_counter, tmp_count, accepted, misread, nicVars>>

-----------------------------------------------------------------------------
(***************************************************************************)
(* batch_process_simpNF: for every packet of the batch a reply and the     *)
(* return of its receive slot.  sendToNode_zsim writes the send buffer     *)
(* first and then retries rmc_hw_send until it succeeds; do_Recv_zsim      *)
(* calls rmc_hw_recv once and ignores its result.                          *)
(***************************************************************************)
rpc_send_count == (tmp_count - batch_size) + i

(* Mutant: the last send buffer is not used. *)
lbuf_offset_short(n) == n % (MSGS_PER_PAIR - 1)

lbuf_offset(n) == n % MSGS_PER_PAIR

SendHeader ==
  /\ pc = "send"
  /\ i < batch_size
  /\ lbuf' = [lbuf EXCEPT ![lbuf_offset(rpc_send_count)] = rpc_send_count]
  /\ pc' = "post"
  /\ UNCHANGED <<wq, cq, i, pollVars, batchVars, nicVars>>

(* Mutant: every reply of a batch goes to the sender of its first packet. *)
SendPostFirst ==
  /\ pc = "post"
  /\ QP!Post([op |-> "SEND", nid |-> source_node_ids[0],
              buf |-> lbuf_offset(rpc_send_count), seq |-> rpc_send_count])
  /\ pc' = "recv"
  /\ UNCHANGED <<i, lbuf, pollVars, batchVars, nicVars>>

SendPost ==
  /\ pc = "post"
  /\ QP!Post([op |-> "SEND", nid |-> source_node_ids[i],
              buf |-> lbuf_offset(rpc_send_count), seq |-> rpc_send_count])
  /\ pc' = "recv"
  /\ UNCHANGED <<i, lbuf, pollVars, batchVars, nicVars>>

(* Mutant: the slot of the batch's first packet is returned every time. *)
RecvPostFirst ==
  /\ pc = "recv"
  /\ QP!Post([op |-> "RECV", slot |-> rpcs[0]])
  /\ i' = i + 1
  /\ pc' = "send"
  /\ UNCHANGED <<lbuf, pollVars, batchVars, nicVars>>

RecvPost ==
  /\ pc = "recv"
  /\ QP!Post([op |-> "RECV", slot |-> rpcs[i]])
  /\ i' = i + 1
  /\ pc' = "send"
  /\ UNCHANGED <<lbuf, pollVars, batchVars, nicVars>>

RecvDropped ==
  /\ pc = "recv"
  /\ QP!Full
  /\ i' = i + 1
  /\ pc' = "send"
  /\ UNCHANGED <<wq, cq, lbuf, pollVars, batchVars, nicVars>>

BatchDone ==
  /\ pc = "send"
  /\ i >= batch_size
  /\ batch_counter' = 0
  /\ pc' = "poll"
  /\ UNCHANGED <<wq, cq, i, lbuf, pollVars, rpcs, source_node_ids,
                 batch_size, tmp_count, accepted, misread, nicVars>>

-----------------------------------------------------------------------------
(***************************************************************************)
(* The NIC and the simulator (external).                                   *)
(***************************************************************************)
NicTransmit ==
  /\ QP!Fetch
  /\ Head(wq).op = "SEND"
  /\ sent' = Append(sent, Head(wq))
  /\ UNCHANGED <<pc, i, lbuf, pollVars, batchVars, client_done, freeSlots, arrived, others>>

NicFree ==
  /\ QP!Fetch
  /\ Head(wq).op = "RECV"
  /\ freeSlots' = freeSlots \cup {Head(wq).slot}
  /\ UNCHANGED <<pc, i, lbuf, pollVars, batchVars, client_done, arrived, others, sent>>

NicDeliver(s) ==
  /\ s \in freeSlots
  /\ arrived < MaxPackets
  /\ QP!Complete([op |-> "RMC_INCOMING_SEND", slot |-> s])
  /\ freeSlots' = freeSlots \ {s}
  /\ arrived' = arrived + 1
  /\ UNCHANGED <<pc, i, lbuf, pollVars, batchVars, client_done, others, sent>>

NicComplete ==
  /\ others < MaxOther
  /\ \E c \in {RESP, DONE} : QP!Complete(c)
  /\ others' = others + 1
  /\ UNCHANGED <<pc, i, lbuf, pollVars, batchVars, client_done, freeSlots, arrived, sent>>

ClientDone ==
  /\ ~client_done
  /\ client_done' = TRUE
  /\ UNCHANGED <<wq, cq, pc, i, lbuf, pollVars, batchVars, freeSlots, arrived, others, sent>>

(* The worker has returned; the rest of the program goes on without it. *)
Stopped == pc = "exit" /\ UNCHANGED vars
-----------------------------------------------------------------------------
Receive  == PollTimeout \/ PollCheck \/ CheckOuter \/ CheckTake \/ CheckEmpty
              \/ ReceiveRetry \/ ReceiveDone \/ ReceivePacket
Dispatch == WorkerExit \/ DispatchPacket \/ DispatchTimeout
Process  == SendHeader \/ SendPost \/ RecvPost \/ RecvDropped \/ BatchDone

WorkerStep == Receive \/ Dispatch \/ Process
Egress     == NicTransmit \/ NicFree

Next ==
  \/ WorkerStep
  \/ Egress
  \/ \E s \in RecvSlots : NicDeliver(s)
  \/ NicComplete
  \/ ClientDone
  \/ Stopped

Spec == Init /\ [][Next]_vars

(* The worker thread has a core of its own (sched_setaffinity) and the NIC *)
(* keeps draining the work queue.  Arrivals and client_done may never      *)
(* happen.                                                                 *)
FairSpec == Spec /\ WF_vars(WorkerStep) /\ WF_vars(Egress)
-----------------------------------------------------------------------------
(* Type invariant of the worker's locals, the queues and the NIC's state.  *)
TypeOK ==
  /\ QP!TypeOK
  /\ pc \in {"poll", "outer", "inner", "returned", "dispatch",
             "send", "post", "recv", "exit"}
  /\ count \in 0 .. POLL_LIMIT
  /\ raw_wqe \in BOOLEAN
  /\ ret \in Packets \cup {RESP, INVAL}
  /\ payload_len \in Lens
  /\ rpcs \in [Batch -> RecvSlots \cup {NoSlot}]
  /\ source_node_ids \in [Batch -> 0 .. NidMod - 1]
  /\ batch_counter \in 0 .. BatchSize
  /\ batch_size \in 0 .. BatchSize
  /\ tmp_count \in Nat
  /\ i \in 0 .. BatchSize
  /\ lbuf \in [Lbufs -> Nat \cup {-1}]
  /\ client_done \in BOOLEAN
  /\ freeSlots \subseteq RecvSlots
  /\ arrived \in 0 .. MaxPackets
  /\ others \in 0 .. MaxOther
  /\ sent \in Seq(Sends)
  /\ {accepted, misread} \subseteq Seq(RecvSlots)

Processing == pc \in {"send", "post", "recv"}

(***************************************************************************)
(* The batch arrays, allocated once for params.batch_size entries, are     *)
(* never overrun, although the batch size changes at the end of the        *)
(* warm-up and at every time-out: whenever receive may write               *)
(* rpcs[batch_counter] there is room, and a batch that is processed holds  *)
(* exactly batch_size packets, all of them accepted packets with a real    *)
(* receive slot.  (The WARNING of run_worker is not printed as long as     *)
(* tmp_count does not overflow; module SendPath has what happens then.)    *)
(***************************************************************************)
BatchInBounds ==
  /\ ~Processing /\ pc # "exit" => batch_counter < BatchSize
  /\ Processing => batch_counter = batch_size /\ i <= batch_size
  /\ pc \in {"post", "recv"} => i < batch_size
  /\ \A b \in 0 .. batch_counter - 1 : rpcs[b] \in RecvSlots

(***************************************************************************)
(* The k-th reply that leaves the NIC answers the k-th packet the worker   *)
(* accepted: it goes to the node that sent it and is the k-th message sent *)
(* from the send buffers, through batches of changing size and a queue     *)
(* that may be full.                                                       *)
(***************************************************************************)
RepliesInOrder ==
  /\ Len(sent) <= Len(accepted)
  /\ \A k \in 1 .. Len(sent) :
       sent[k].nid = accepted[k][1] /\ sent[k].seq = k - 1

-----------------------------------------------------------------------------
(***************************************************************************)
(* Why replies stay in order.  The batch holds the last batch_counter      *)
(* packets accepted, with their senders; there is none during the warm-up, *)
(* when packets are answered one by one; and what receive hands over as a  *)
(* packet is one.                                                          *)
(***************************************************************************)
BatchRecorded ==
  /\ Len(accepted) = tmp_count
  /\ batch_counter <= tmp_count
  /\ \A b \in 0 .. batch_counter - 1 :
       /\ rpcs[b] = accepted[tmp_count - batch_counter + b + 1]
       /\ source_node_ids[b] = rpcs[b][1]

BatchOpen ==
  /\ ~Processing /\ pc # "exit" /\ tmp_count < WARMUP => batch_counter = 0
  /\ pc = "dispatch" /\ payload_len = "OTHER" =>
       /\ rpcs[batch_counter] \in RecvSlots
       /\ source_node_ids[batch_counter] = rpcs[batch_counter][1]

(* The packets whose replies have been posted. *)
replied ==
  IF ~Processing THEN tmp_count - batch_counter
  ELSE IF pc = "recv" THEN (tmp_count - batch_size) + i + 1
  ELSE (tmp_count - batch_size) + i

(* The replies posted and not yet transmitted are in the work queue, in    *)
(* order, each for its packet.                                             *)
RepliesQueued ==
  /\ Len(sent) <= replied
  /\ \A k \in 1 .. Len(wq) : wq[k].op = "SEND" =>
       /\ Len(sent) <= wq[k].seq /\ wq[k].seq < replied
       /\ wq[k].nid = accepted[wq[k].seq + 1][1]
  /\ \A j, k \in 1 .. Len(wq) :
       j < k /\ wq[j].op = "SEND" /\ wq[k].op = "SEND" => wq[j].seq < wq[k].seq
  /\ \A n \in Len(sent) .. replied - 1 :
       \E k \in 1 .. Len(wq) : wq[k].op = "SEND" /\ wq[k].seq = n

(* The inductive invariant. *)
WorkerInv ==
  /\ TypeOK /\ BatchInBounds /\ RepliesInOrder
  /\ BatchRecorded /\ BatchOpen /\ RepliesQueued

-----------------------------------------------------------------------------
(* Who may hold receive slot s: the NIC as free, a packet waiting in the   *)
(* completion queue, the packet rmc_check_cq returned, the batch, or a     *)
(* request to free it.                                                     *)
Pending == IF Processing THEN i .. batch_size - 1 ELSE 0 .. batch_counter - 1

InHand(s) ==
  \/ pc = "returned" /\ ret \in Packets /\ ret.slot = s
  \/ pc = "dispatch" /\ rpcs[batch_counter] = s

Owners(s) ==
  (IF s \in freeSlots THEN { <<"free", 0>> } ELSE {})
    \cup { <<"cq", k>> : k \in {k \in 1 .. Len(cq) : cq[k] \in Packets /\ cq[k].slot = s} }
    \cup { <<"wq", k>> : k \in {k \in 1 .. Len(wq) : wq[k] \in Recvs /\ wq[k].slot = s} }
    \cup { <<"batch", b>> : b \in {b \in Pending : rpcs[b] = s} }
    \cup (IF InHand(s) THEN { <<"hand", 0>> } ELSE {})

(* No receive slot is ever in two hands: a packet is not processed twice,  *)
(* and the NIC is never told a slot is free while its packet is in use.    *)
SlotOwnedOnce == \A s \in RecvSlots : Cardinality(Owners(s)) <= 1

(***************************************************************************)
(* Flow control.  As long as the client is not done, every receive slot is *)
(* free or on its way to become free: do_Recv_zsim never loses one,        *)
(* although it ignores that the work queue is full, and run_worker none    *)
(* but those of packets it misread.                                        *)
(***************************************************************************)
Misread(s) == \E k \in 1 .. Len(misread) : misread[k] = s

RecvSlotsFreed ==
  ~client_done => \A s \in RecvSlots : Owners(s) # {} \/ Misread(s)

(* A reply that is still in the work queue finds its send buffer as it     *)
(* left it: sendToNode_zsim, which writes the buffer before it knows there *)
(* is room in the queue, has not wrapped around to it.                     *)
LbufOwned ==
  \A k \in 1 .. Len(wq) :
    wq[k] \in Sends => lbuf[wq[k].buf] = wq[k].seq

-----------------------------------------------------------------------------
(* Packets taken from the completion queue so far. *)
Taken == arrived - Cardinality({k \in 1 .. Len(cq) : cq[k] \in Packets})

(* Shutting down loses little: of the packets taken from the completion    *)
(* queue and not misread, the only ones left unanswered are those of the   *)
(* batch being collected and the one client_done was seen with, less than  *)
(* BatchSize and one; no batch that was closed is lost.                    *)
BoundedLossAtShutdown ==
  pc = "exit" =>
    LET queued == Cardinality({k \in 1 .. Len(wq) : wq[k] \in Sends})
    IN  /\ Taken - queued - Len(sent) - Len(misread) <= batch_counter + 1
        /\ batch_counter < BatchSize

(* Between two receives, a packet that was taken from the completion queue *)
(* has been counted, once, or was misread for want of a payload_len:       *)
(* nothing else (the poll limit, a response, a skipped completion, the end *)
(* of a batch) makes the worker pass over a packet or count one twice.     *)
OnlyMisreadMissed == pc = "poll" => tmp_count + Len(misread) = Taken

(* What the comment on run_worker's dispatch says of a receive that came   *)
(* back with a packet: it counts, also when it came back for another       *)
(* reason as well.  Between two receives, every packet taken from the      *)
(* completion queue has been counted, and so belongs to some batch.        *)
PacketsCounted == pc = "poll" /\ ~client_done => tmp_count = Taken

(* Every packet that arrives is answered or misread, unless the client is  *)
(* done or the worker has misread a packet as the end: a batch that does   *)
(* not fill up is closed by the poll limit.                                *)
ArrivalAnswered ==
  \A n \in 1 .. MaxPackets :
    (arrived >= n) ~> \/ Len(sent) + Len(misread) >= n
                      \/ client_done
                      \/ pc = "exit" /\ misread # <<>>

(* The worker stops once the client is done, also from the middle of a     *)
(* batch and with full queues.                                             *)
ClientDoneStops == client_done ~> pc = "exit"
-----------------------------------------------------------------------------
(* The worker as its clients see it.  A receive slot has been returned     *)
(* when the NIC has it back as free.                                       *)
Returned == arrived - (Cardinality(RecvSlots) - Cardinality(freeSlots))

Service == INSTANCE WorkerSpec WITH
             Slots <- Cardinality(RecvSlots), answered <- Len(sent),
             lost <- Len(misread), returned <- Returned, stopped <- (pc = "exit")

(* All of run_worker, its queues and its send buffers implement the simple *)
(* service of WorkerSpec: one answer for every packet that is not misread, *)
(* then its slot back, until the client is done, and then a stop.          *)
ImplementsService == Service!LiveSpec
=============================================================================
