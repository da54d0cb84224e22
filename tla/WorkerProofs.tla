---------------------------- MODULE WorkerProofs ----------------------------
(***************************************************************************)
(* Proofs about Worker for every queue size, batch size, warm-up, poll     *)
(* limit and number of nodes, and for every value the unassigned           *)
(* payload_len may hold: the worker's state is well typed, its batch stays *)
(* inside its arrays, the replies answer the accepted packets in order,    *)
(* and a receive slot is never in two hands.  When the work queue covers   *)
(* the receive slots, none is lost and no return of one is refused; and    *)
(* then, for one node, no send buffer is reused before it was sent.        *)
(***************************************************************************)
EXTENDS Worker, FiniteSetTheorems, TLAPS

-----------------------------------------------------------------------------
(* Facts about the data. *)

(* The constants are what the code says they are. *)
LEMMA Constants ==
  /\ MAX_NUM_WQ \in Nat /\ MAX_NUM_WQ > 0
  /\ MSGS_PER_PAIR \in Nat /\ MSGS_PER_PAIR > 0
  /\ NumNodes \in Nat /\ NumNodes > 0
  /\ BatchSize \in Nat /\ BatchSize > 0
  /\ POLL_LIMIT \in Nat /\ POLL_LIMIT > 0
  /\ NidMod \in Nat /\ NidMod > 0 /\ NumNodes <= NidMod
  /\ WARMUP \in Nat /\ MaxPackets \in Nat /\ MaxOther \in Nat
  /\ UninitLen \subseteq Lens
BY WorkerAssumption

(* The remainder of a number by a positive divisor. *)
LEMMA Remainder ==
  ASSUME NEW n \in Nat, NEW d \in Nat, d > 0
  PROVE  n % d \in 0 .. d - 1 /\ (n < d => n % d = n)
OBVIOUS

(* A node number survives being stored in a uint16_t. *)
LEMMA NodeOfSlot ==
  ASSUME NEW s \in RecvSlots
  PROVE  /\ s[1] \in 0 .. NidMod - 1
         /\ s[1] % NidMod = s[1]
<1>1. s[1] \in 0 .. NumNodes - 1
  BY DEF RecvSlots, Nodes
<1>2. s[1] \in Nat /\ s[1] < NidMod
  BY <1>1, Constants
<1> QED
  BY <1>2, Constants, Remainder

(* The send buffer of a message exists. *)
LEMMA OffsetInRange == ASSUME NEW n \in Nat PROVE lbuf_offset(n) \in Lbufs
BY Constants, Remainder DEF lbuf_offset, Lbufs

(* What the fields of a request and of a completion can be. *)
LEMMA RequestFields ==
  ASSUME NEW r \in Requests
  PROVE  /\ r.op = "SEND" => r \in Sends /\ r.seq \in Nat
         /\ r.op = "RECV" => r.slot \in RecvSlots
BY DEF Requests, Sends, Recvs

LEMMA CompletionKinds ==
  /\ \A c \in Completions : c # DONE => c \in Packets \cup {RESP, INVAL}
  /\ \A p \in Packets : p.slot \in RecvSlots
  /\ RESP \in Completions /\ DONE \in Completions
  /\ \A s \in RecvSlots : [op |-> "RMC_INCOMING_SEND", slot |-> s] \in Completions
BY DEF Completions, Packets, RESP, DONE, INVAL

-----------------------------------------------------------------------------
(* Type correctness. *)

(* The initial state is well typed. *)
LEMMA TypeInit == Init => TypeOK
<1> SUFFICES ASSUME Init PROVE TypeOK
  OBVIOUS
<1> USE Constants DEF Init
<1>1. QP!TypeOK
  <2>1. wq = <<>> /\ cq = <<>>
    BY DEF QP!Init
  <2> QED
    BY <2>1 DEF QP!TypeOK
<1>2. /\ rpcs \in [Batch -> RecvSlots \cup {NoSlot}]
      /\ source_node_ids \in [Batch -> 0 .. NidMod - 1]
      /\ lbuf \in [Lbufs -> Nat \cup {-1}]
  OBVIOUS
<1>3. /\ sent \in Seq(Sends) /\ {accepted, misread} \subseteq Seq(RecvSlots)
      /\ freeSlots \subseteq RecvSlots
  OBVIOUS
<1>4. ret \in Packets \cup {RESP, INVAL} /\ payload_len \in Lens
  BY DEF Lens
<1>5. raw_wqe \in BOOLEAN /\ client_done \in BOOLEAN
  BY Zenon
<1>6. /\ count \in 0 .. POLL_LIMIT /\ tmp_count \in Nat
      /\ batch_counter \in 0 .. BatchSize /\ batch_size \in 0 .. BatchSize
      /\ i \in 0 .. BatchSize /\ arrived \in 0 .. MaxPackets /\ others \in 0 .. MaxOther
  OBVIOUS
<1>7. pc = "poll"
  OBVIOUS
<1> HIDE DEF Init
<1> QED
  BY <1>1, <1>2, <1>3, <1>4, <1>5, <1>6, <1>7 DEF TypeOK

(* Every step of the receive path keeps the types. *)
LEMMA TypeReceive == WorkerInv /\ Receive => TypeOK'
<1> SUFFICES ASSUME WorkerInv, Receive PROVE TypeOK'
  OBVIOUS
<1> USE Constants DEF TypeOK, QP!TypeOK, batchVars, pollVars, nicVars
<1>0. TypeOK /\ BatchInBounds
  BY DEF WorkerInv
<1>a. pc \in {"poll", "returned"} => batch_counter \in Batch
  BY <1>0 DEF BatchInBounds, Processing, Batch
<1>1. CASE PollTimeout
  BY <1>0, <1>1 DEF PollTimeout, Lens
<1>2. CASE PollCheck
  BY <1>0, <1>2 DEF PollCheck
<1>3. CASE CheckOuter
  <2>1. raw_wqe' \in BOOLEAN
    BY <1>3 DEF CheckOuter, QP!Full
  <2> QED
    BY <1>0, <1>3, <2>1 DEF CheckOuter
<1>4. CASE CheckTake
  <2>1. /\ cq # <<>> /\ cq' = Tail(cq) /\ wq' = wq
        /\ cq \in Seq(Completions) /\ Len(cq) <= MAX_NUM_WQ
    BY <1>0, <1>4 DEF CheckTake, QP!Take
  <2>2. cq' \in Seq(Completions) /\ Len(cq') <= MAX_NUM_WQ /\ Head(cq) \in Completions
    BY <2>1
  <2>3. ret' \in Packets \cup {RESP, INVAL}
    BY <1>0, <1>4, <2>2, CompletionKinds DEF CheckTake
  <2> QED
    BY <1>0, <1>4, <2>1, <2>2, <2>3 DEF CheckTake
<1>5. CASE CheckEmpty
  BY <1>0, <1>5 DEF CheckEmpty
<1>6. CASE ReceiveRetry
  BY <1>0, <1>6 DEF ReceiveRetry
<1>7. CASE ReceiveDone
  BY <1>0, <1>7 DEF ReceiveDone, Lens
<1>8. CASE ReceivePacket
  <2>1. ret.slot \in RecvSlots /\ ret.slot[1] % NidMod \in 0 .. NidMod - 1
    BY <1>8, CompletionKinds, NodeOfSlot DEF ReceivePacket
  <2>2. /\ rpcs' \in [Batch -> RecvSlots \cup {NoSlot}]
        /\ source_node_ids' \in [Batch -> 0 .. NidMod - 1]
        /\ payload_len' \in Lens
    BY <1>0, <1>8, <2>1 DEF ReceivePacket
  <2>3. misread' \in Seq(RecvSlots)
    BY <1>0, <1>8, <2>1 DEF ReceivePacket
  <2> QED
    BY <1>0, <1>8, <2>2, <2>3 DEF ReceivePacket
<1> QED
  BY <1>1, <1>2, <1>3, <1>4, <1>5, <1>6, <1>7, <1>8 DEF Receive

(* So does every step of the dispatch. *)
LEMMA TypeDispatch == WorkerInv /\ Dispatch => TypeOK'
<1> SUFFICES ASSUME WorkerInv, Dispatch PROVE TypeOK'
  OBVIOUS
<1> USE Constants DEF TypeOK, QP!TypeOK, batchVars, pollVars, nicVars
<1>0. TypeOK /\ BatchInBounds /\ BatchOpen
  BY DEF WorkerInv
<1>1. CASE WorkerExit
  BY <1>0, <1>1 DEF WorkerExit
<1>2. CASE DispatchPacket
  <2>1. batch_counter < BatchSize /\ rpcs[batch_counter] \in RecvSlots
    BY <1>0, <1>2 DEF DispatchPacket, BatchInBounds, BatchOpen, Processing
  <2>2. batch_size' \in 0 .. BatchSize /\ batch_counter' \in 0 .. BatchSize
    BY <1>0, <1>2, <2>1 DEF DispatchPacket, CurrentBatchSize
  <2>3. accepted' \in Seq(RecvSlots)
    BY <1>0, <1>2, <2>1 DEF DispatchPacket
  <2>4. pc' \in {"send", "poll"}
    BY <1>2 DEF DispatchPacket
  <2> QED
    BY <1>0, <1>2, <2>2, <2>3, <2>4 DEF DispatchPacket
<1>3. CASE DispatchTimeout
  BY <1>0, <1>3 DEF DispatchTimeout
<1> QED
  BY <1>1, <1>2, <1>3 DEF Dispatch

(* And every step of the processing of a batch, where the number of the    *)
(* reply is not negative because the batch holds accepted packets only.    *)
LEMMA TypeProcess == WorkerInv /\ Process => TypeOK'
<1> SUFFICES ASSUME WorkerInv, Process PROVE TypeOK'
  OBVIOUS
<1> USE Constants DEF TypeOK, QP!TypeOK, batchVars, pollVars, nicVars
<1>0. TypeOK /\ BatchInBounds /\ BatchRecorded
  BY DEF WorkerInv
<1>a. Processing => rpc_send_count \in Nat
  <2>1. batch_counter <= tmp_count
    BY <1>0 DEF BatchRecorded
  <2>2. Processing => batch_counter = batch_size
    BY <1>0 DEF BatchInBounds
  <2>3. tmp_count \in Nat /\ batch_size \in Nat /\ i \in Nat
    BY <1>0
  <2> QED
    BY <2>1, <2>2, <2>3 DEF rpc_send_count
<1>1. CASE SendHeader
  <2>1. rpc_send_count \in Nat /\ lbuf_offset(rpc_send_count) \in Lbufs
    BY <1>1, <1>a, OffsetInRange DEF SendHeader, Processing
  <2>2. lbuf' \in [Lbufs -> Nat \cup {-1}]
    BY <1>0, <1>1, <2>1 DEF SendHeader
  <2> QED
    BY <1>0, <1>1, <2>2 DEF SendHeader
<1>2. CASE SendPost
  <2> DEFINE r == [op |-> "SEND", nid |-> source_node_ids[i],
                   buf |-> lbuf_offset(rpc_send_count), seq |-> rpc_send_count]
  <2>1. rpc_send_count \in Nat /\ lbuf_offset(rpc_send_count) \in Lbufs
    BY <1>2, <1>a, OffsetInRange DEF SendPost, Processing
  <2>2. i \in Batch
    BY <1>0, <1>2 DEF SendPost, BatchInBounds, Batch
  <2>3. r \in Requests
    BY <1>0, <2>1, <2>2 DEF Requests, Sends
  <2>4. /\ wq' = Append(wq, r) /\ cq' = cq /\ Len(wq) < MAX_NUM_WQ
    BY <1>0, <1>2 DEF SendPost, QP!Post, QP!Full
  <2>5. wq' \in Seq(Requests) /\ Len(wq') <= MAX_NUM_WQ
    BY <1>0, <2>3, <2>4
  <2> QED
    BY <1>0, <1>2, <2>4, <2>5 DEF SendPost
<1>3. CASE RecvPost
  <2> DEFINE r == [op |-> "RECV", slot |-> rpcs[i]]
  <2>1. i \in 0 .. batch_counter - 1 /\ i' \in 0 .. BatchSize
    BY <1>0, <1>3 DEF RecvPost, BatchInBounds, Processing
  <2>2. r \in Requests
    BY <1>0, <2>1 DEF BatchInBounds, Requests, Recvs
  <2>3. /\ wq' = Append(wq, r) /\ cq' = cq /\ Len(wq) < MAX_NUM_WQ
    BY <1>0, <1>3 DEF RecvPost, QP!Post, QP!Full
  <2>4. wq' \in Seq(Requests) /\ Len(wq') <= MAX_NUM_WQ
    BY <1>0, <2>2, <2>3
  <2> QED
    BY <1>0, <1>3, <2>1, <2>3, <2>4 DEF RecvPost
<1>4. CASE RecvDropped
  <2>1. i' \in 0 .. BatchSize
    BY <1>0, <1>4 DEF RecvDropped, BatchInBounds
  <2> QED
    BY <1>0, <1>4, <2>1 DEF RecvDropped
<1>5. CASE BatchDone
  BY <1>0, <1>5 DEF BatchDone
<1> QED
  BY <1>1, <1>2, <1>3, <1>4, <1>5 DEF Process

(* The NIC and the simulator keep the types, too. *)
LEMMA TypeNic ==
  TypeOK /\ (Egress \/ (\E s \in RecvSlots : NicDeliver(s)) \/ NicComplete
             \/ ClientDone \/ UNCHANGED vars) => TypeOK'
<1> USE Constants DEF TypeOK, QP!TypeOK, batchVars, pollVars, nicVars
<1>1. ASSUME TypeOK, NicTransmit PROVE TypeOK'
  <2>1. /\ wq # <<>> /\ wq' = Tail(wq) /\ cq' = cq /\ sent' = Append(sent, Head(wq))
        /\ Head(wq).op = "SEND" /\ wq \in Seq(Requests)
    BY <1>1 DEF NicTransmit, QP!Fetch
  <2>2. wq' \in Seq(Requests) /\ Len(wq') <= MAX_NUM_WQ /\ Head(wq) \in Requests
    BY <1>1, <2>1
  <2>3. sent' \in Seq(Sends)
    BY <1>1, <2>1, <2>2, RequestFields
  <2> QED
    BY <1>1, <2>1, <2>2, <2>3 DEF NicTransmit
<1>2. ASSUME TypeOK, NicFree PROVE TypeOK'
  <2>1. /\ wq # <<>> /\ wq' = Tail(wq) /\ cq' = cq
        /\ Head(wq).op = "RECV" /\ wq \in Seq(Requests)
    BY <1>2 DEF NicFree, QP!Fetch
  <2>2. wq' \in Seq(Requests) /\ Len(wq') <= MAX_NUM_WQ /\ Head(wq) \in Requests
    BY <1>2, <2>1
  <2>3. Head(wq).slot \in RecvSlots
    BY <2>1, <2>2, RequestFields
  <2> QED
    BY <1>2, <2>1, <2>2, <2>3 DEF NicFree
<1>3. ASSUME TypeOK, NEW s \in RecvSlots, NicDeliver(s) PROVE TypeOK'
  <2> DEFINE c == [op |-> "RMC_INCOMING_SEND", slot |-> s]
  <2>1. c \in Completions
    BY CompletionKinds
  <2>2. cq' = Append(cq, c) /\ wq' = wq /\ Len(cq) < MAX_NUM_WQ
    BY <1>3 DEF NicDeliver, QP!Complete
  <2>3. cq' \in Seq(Completions) /\ Len(cq') <= MAX_NUM_WQ
    BY <1>3, <2>1, <2>2
  <2> QED
    BY <1>3, <2>2, <2>3 DEF NicDeliver
<1>4. ASSUME TypeOK, NicComplete PROVE TypeOK'
  <2>1. PICK c \in {RESP, DONE} : QP!Complete(c)
    BY <1>4 DEF NicComplete
  <2>2. cq' = Append(cq, c) /\ wq' = wq /\ Len(cq) < MAX_NUM_WQ
    BY <2>1 DEF QP!Complete
  <2>3. cq' \in Seq(Completions) /\ Len(cq') <= MAX_NUM_WQ
    BY <1>4, <2>2, CompletionKinds
  <2> QED
    BY <1>4, <2>2, <2>3 DEF NicComplete
<1>5. ASSUME TypeOK, ClientDone PROVE TypeOK'
  BY <1>5 DEF ClientDone
<1>6. ASSUME TypeOK, UNCHANGED vars PROVE TypeOK'
  BY <1>6 DEF vars
<1> QED
  BY <1>1, <1>2, <1>3, <1>4, <1>5, <1>6 DEF Egress

(* Type correctness is preserved by every step. *)
LEMMA TypeStep == WorkerInv /\ [Next]_vars => TypeOK'
BY TypeReceive, TypeDispatch, TypeProcess, TypeNic DEF Next, WorkerStep, Stopped, WorkerInv

-----------------------------------------------------------------------------
(* The batch. *)

BatchInv == BatchInBounds /\ BatchRecorded /\ BatchOpen

(* Polling leaves the batch alone. *)
LEMMA BatchPolling ==
  ASSUME WorkerInv, UNCHANGED <<i, batchVars>>,
         pc \in {"poll", "outer", "inner", "returned"},
         pc' \in {"poll", "outer", "inner", "returned"}
  PROVE  BatchInv'
BY DEF WorkerInv, BatchInv, BatchInBounds, BatchRecorded, BatchOpen, Processing, batchVars

(* A receive that returns writes only the entry at batch_counter. *)
LEMMA BatchReceive == WorkerInv /\ Receive => BatchInv'
<1> SUFFICES ASSUME WorkerInv, Receive PROVE BatchInv'
  OBVIOUS
<1>0. TypeOK /\ BatchInBounds /\ BatchRecorded /\ BatchOpen
  BY DEF WorkerInv
<1>1. CASE PollCheck \/ CheckOuter \/ CheckTake \/ CheckEmpty \/ ReceiveRetry
  BY <1>1, BatchPolling
     DEF PollCheck, CheckOuter, CheckTake, CheckEmpty, ReceiveRetry
<1>2. ASSUME pc \in {"poll", "returned"}, pc' = "dispatch",
             UNCHANGED <<i, batch_counter, batch_size, tmp_count, accepted>>,
             NEW slot, rpcs' = [rpcs EXCEPT ![batch_counter] = slot],
             NEW n, source_node_ids' = [source_node_ids EXCEPT ![batch_counter] = n],
             payload_len' = "OTHER" => slot \in RecvSlots /\ n = slot[1]
      PROVE  BatchInv'
  <2>1. batch_counter \in 0 .. BatchSize - 1 /\ batch_counter \in Batch
    BY <1>0, <1>2, Constants DEF BatchInBounds, Processing, TypeOK, Batch
  <2>2. /\ \A b \in 0 .. batch_counter - 1 :
             /\ b \in Batch /\ b # batch_counter
             /\ rpcs'[b] = rpcs[b] /\ source_node_ids'[b] = source_node_ids[b]
        /\ rpcs'[batch_counter] = slot /\ source_node_ids'[batch_counter] = n
    BY <1>0, <1>2, <2>1, Constants DEF TypeOK, Batch
  <2>3. BatchInBounds'
    BY <1>0, <1>2, <2>1, <2>2 DEF BatchInBounds, Processing
  <2>4. BatchRecorded'
    BY <1>0, <1>2, <2>1, <2>2 DEF BatchRecorded
  <2>5. BatchOpen'
    BY <1>0, <1>2, <2>1, <2>2 DEF BatchOpen, Processing
  <2> QED
    BY <2>3, <2>4, <2>5 DEF BatchInv
<1>3. source_node_ids = [source_node_ids EXCEPT ![batch_counter] = source_node_ids[batch_counter]]
  BY <1>0 DEF TypeOK
<1>4. CASE PollTimeout
  BY <1>2, <1>3, <1>4 DEF PollTimeout
<1>5. CASE ReceiveDone
  BY <1>2, <1>3, <1>5 DEF ReceiveDone
<1>6. CASE ReceivePacket
  <2>1. ret.slot \in RecvSlots /\ ret.slot[1] % NidMod = ret.slot[1]
    BY <1>6, CompletionKinds, NodeOfSlot DEF ReceivePacket
  <2> QED
    BY <1>2, <1>6, <2>1 DEF ReceivePacket
<1> QED
  BY <1>1, <1>4, <1>5, <1>6 DEF Receive

(* Dispatching a packet adds it to the batch.  During the warm-up the      *)
(* batch was empty, so that it never holds more than batch_size packets.   *)
LEMMA BatchDispatch == WorkerInv /\ Dispatch => BatchInv'
<1> SUFFICES ASSUME WorkerInv, Dispatch PROVE BatchInv'
  OBVIOUS
<1>0. TypeOK /\ BatchInBounds /\ BatchRecorded /\ BatchOpen
  BY DEF WorkerInv
<1>1. CASE WorkerExit
  BY <1>0, <1>1 DEF WorkerExit, BatchInv, BatchInBounds, BatchRecorded, BatchOpen,
                    Processing, batchVars
<1>2. CASE DispatchTimeout
  BY <1>0, <1>2, Constants
     DEF DispatchTimeout, BatchInv, BatchInBounds, BatchRecorded, BatchOpen,
         Processing, TypeOK
<1>3. CASE DispatchPacket
  <2>1. /\ batch_counter \in 0 .. BatchSize - 1 /\ tmp_count \in Nat
        /\ rpcs[batch_counter] \in RecvSlots
        /\ source_node_ids[batch_counter] = rpcs[batch_counter][1]
        /\ tmp_count < WARMUP => batch_counter = 0
    <3>1. pc = "dispatch" /\ payload_len = "OTHER"
      BY <1>3 DEF DispatchPacket
    <3>2. batch_counter < BatchSize /\ batch_counter \in Nat /\ tmp_count \in Nat
      BY <1>0, <3>1, Constants DEF BatchInBounds, Processing, TypeOK
    <3>3. /\ rpcs[batch_counter] \in RecvSlots
          /\ source_node_ids[batch_counter] = rpcs[batch_counter][1]
          /\ tmp_count < WARMUP => batch_counter = 0
      BY <1>0, <3>1 DEF BatchOpen, Processing
    <3> QED
      BY <3>2, <3>3, Constants
  <2>2. /\ batch_counter' = batch_counter + 1 /\ tmp_count' = tmp_count + 1
        /\ UNCHANGED <<rpcs, source_node_ids>> /\ i' = 0
        /\ accepted' = Append(accepted, rpcs[batch_counter])
        /\ batch_size' = IF tmp_count < WARMUP THEN 1 ELSE BatchSize
    BY <1>3 DEF DispatchPacket, CurrentBatchSize
  <2>3. pc' = IF batch_counter' >= batch_size' THEN "send" ELSE "poll"
    BY <1>3 DEF DispatchPacket
  <2>4. /\ batch_counter' >= batch_size' => batch_counter' = batch_size'
        /\ batch_counter' < batch_size' => batch_counter' < BatchSize /\ tmp_count >= WARMUP
    BY <2>1, <2>2, Constants
  <2>5. /\ Len(accepted') = tmp_count + 1
        /\ \A k \in 1 .. tmp_count : accepted'[k] = accepted[k]
        /\ accepted'[tmp_count + 1] = rpcs[batch_counter]
    BY <1>0, <2>1, <2>2 DEF BatchRecorded, TypeOK
  <2>6. \A b \in 0 .. batch_counter :
          /\ rpcs[b] = accepted'[(tmp_count + 1) - (batch_counter + 1) + b + 1]
          /\ source_node_ids[b] = rpcs[b][1]
    <3> SUFFICES ASSUME NEW b \in 0 .. batch_counter
                 PROVE  /\ rpcs[b] = accepted'[(tmp_count + 1) - (batch_counter + 1) + b + 1]
                        /\ source_node_ids[b] = rpcs[b][1]
      OBVIOUS
    <3>1. CASE b = batch_counter
      <4>1. (tmp_count + 1) - (batch_counter + 1) + b + 1 = tmp_count + 1
        BY <2>1, <3>1
      <4> QED
        BY <2>1, <2>5, <3>1, <4>1
    <3>2. CASE b # batch_counter
      <4>1. b \in 0 .. batch_counter - 1
        BY <2>1, <3>2
      <4>2. /\ (tmp_count + 1) - (batch_counter + 1) + b + 1 = tmp_count - batch_counter + b + 1
            /\ tmp_count - batch_counter + b + 1 \in 1 .. tmp_count
        BY <1>0, <2>1, <4>1 DEF BatchRecorded
      <4>3. /\ rpcs[b] = accepted[tmp_count - batch_counter + b + 1]
            /\ source_node_ids[b] = rpcs[b][1]
        BY <1>0, <4>1 DEF BatchRecorded
      <4> QED
        BY <2>5, <4>2, <4>3
    <3> QED
      BY <3>1, <3>2
  <2>7. BatchRecorded'
    <3>1. batch_counter + 1 <= tmp_count + 1
      BY <1>0, <2>1 DEF BatchRecorded
    <3>2. (batch_counter + 1) - 1 = batch_counter
      BY <2>1
    <3> QED
      BY <2>2, <2>5, <2>6, <3>1, <3>2 DEF BatchRecorded
  <2>8. \A b \in 0 .. batch_counter : rpcs[b] \in RecvSlots
    BY <1>0, <2>1 DEF BatchInBounds
  <2>9. BatchInBounds'
    BY <2>1, <2>2, <2>3, <2>4, <2>8, Constants DEF BatchInBounds, Processing
  <2>10. BatchOpen'
    BY <2>1, <2>2, <2>3, <2>4, Constants DEF BatchOpen, Processing
  <2> QED
    BY <2>7, <2>9, <2>10 DEF BatchInv
<1> QED
  BY <1>1, <1>2, <1>3 DEF Dispatch

(* Processing a batch walks through it and then empties it. *)
LEMMA BatchProcess == WorkerInv /\ Process => BatchInv'
<1> SUFFICES ASSUME WorkerInv, Process PROVE BatchInv'
  OBVIOUS
<1>0. TypeOK /\ BatchInBounds /\ BatchRecorded /\ BatchOpen
  BY DEF WorkerInv
<1>1. CASE SendHeader \/ SendPost
  BY <1>0, <1>1 DEF SendHeader, SendPost, BatchInv, BatchInBounds, BatchRecorded,
                    BatchOpen, Processing, batchVars
<1>2. CASE RecvPost \/ RecvDropped
  <2>1. /\ pc = "recv" /\ pc' = "send" /\ i' = i + 1 /\ UNCHANGED batchVars
        /\ i \in Nat /\ batch_size \in Nat /\ i < batch_size
    BY <1>0, <1>2 DEF RecvPost, RecvDropped, BatchInBounds, TypeOK
  <2> QED
    BY <1>0, <2>1 DEF BatchInv, BatchInBounds, BatchRecorded,
                      BatchOpen, Processing, batchVars
<1>3. CASE BatchDone
  <2>1. /\ pc' = "poll" /\ batch_counter' = 0
        /\ UNCHANGED <<rpcs, source_node_ids, tmp_count, accepted>>
        /\ tmp_count \in Nat
    BY <1>0, <1>3 DEF BatchDone, TypeOK
  <2> QED
    BY <1>0, <2>1, Constants
       DEF BatchInv, BatchInBounds, BatchRecorded, BatchOpen, Processing
<1> QED
  BY <1>1, <1>2, <1>3 DEF Process

(* Every step preserves what the worker knows of its batch. *)
LEMMA BatchStep == WorkerInv /\ [Next]_vars => BatchInv'
<1> SUFFICES ASSUME WorkerInv, [Next]_vars PROVE BatchInv'
  OBVIOUS
<1>1. ASSUME UNCHANGED <<pc, i, batchVars, pollVars>> PROVE BatchInv'
  BY <1>1 DEF WorkerInv, BatchInv, BatchInBounds, BatchRecorded, BatchOpen, Processing,
              batchVars, pollVars
<1>2. CASE Egress \/ (\E s \in RecvSlots : NicDeliver(s)) \/ NicComplete \/ ClientDone
  BY <1>1, <1>2 DEF Egress, NicTransmit, NicFree, NicDeliver, NicComplete, ClientDone
<1>3. CASE UNCHANGED vars
  BY <1>1, <1>3 DEF vars
<1> QED
  BY <1>2, <1>3, BatchReceive, BatchDispatch, BatchProcess DEF Next, WorkerStep, Stopped

-----------------------------------------------------------------------------
(* The replies. *)

QueueInv == RepliesInOrder /\ RepliesQueued

(* Only accepted packets are answered. *)
LEMMA RepliedBound == WorkerInv => replied \in Nat /\ replied <= tmp_count
<1> SUFFICES ASSUME WorkerInv PROVE replied \in Nat /\ replied <= tmp_count
  OBVIOUS
<1>1. /\ tmp_count \in Nat /\ batch_counter \in Nat /\ batch_size \in Nat /\ i \in Nat
      /\ batch_counter <= tmp_count
  BY Constants DEF WorkerInv, TypeOK, BatchRecorded
<1>2. Processing => batch_counter = batch_size /\ i <= batch_size
  BY DEF WorkerInv, BatchInBounds
<1>3. pc = "recv" => i < batch_size
  BY DEF WorkerInv, BatchInBounds
<1> QED
  BY <1>1, <1>2, <1>3 DEF replied

(* A step that posts, transmits and accepts nothing. *)
LEMMA QueueQuiet ==
  ASSUME WorkerInv, UNCHANGED <<wq, sent, accepted>>, replied' = replied
  PROVE  QueueInv'
BY DEF WorkerInv, QueueInv, RepliesInOrder, RepliesQueued

(* Accepting a packet adds to the end of the accepted ones. *)
LEMMA QueueAccept ==
  ASSUME WorkerInv, NEW s, accepted' = Append(accepted, s),
         UNCHANGED <<wq, sent>>, replied' = replied
  PROVE  QueueInv'
<1>1. /\ RepliesInOrder /\ RepliesQueued /\ Len(accepted) = tmp_count /\ TypeOK
      /\ replied \in Nat /\ replied <= tmp_count
  BY RepliedBound DEF WorkerInv, BatchRecorded
<1>2. /\ accepted \in Seq(RecvSlots) /\ sent \in Seq(Sends) /\ wq \in Seq(Requests)
      /\ tmp_count \in Nat
  BY <1>1 DEF TypeOK, QP!TypeOK
<1>3. /\ Len(accepted') = tmp_count + 1
      /\ \A k \in 1 .. tmp_count : accepted'[k] = accepted[k]
  BY <1>1, <1>2
<1>4. RepliesInOrder'
  BY <1>1, <1>2, <1>3 DEF RepliesInOrder
<1>5. ASSUME NEW k \in 1 .. Len(wq), wq[k].op = "SEND"
      PROVE  wq[k].nid = accepted'[wq[k].seq + 1][1]
  <2>1. wq[k] \in Requests
    BY <1>2
  <2>2. wq[k].seq \in Nat
    BY <1>5, <2>1, RequestFields
  <2>3. wq[k].seq < replied /\ wq[k].nid = accepted[wq[k].seq + 1][1]
    BY <1>1, <1>5 DEF RepliesQueued
  <2>4. wq[k].seq + 1 \in 1 .. tmp_count
    BY <1>1, <1>2, <2>2, <2>3
  <2> QED
    BY <1>3, <2>3, <2>4
<1>6. RepliesQueued'
  BY <1>1, <1>5 DEF RepliesQueued
<1> QED
  BY <1>4, <1>6 DEF QueueInv

(* Posting the return of a receive slot puts no reply in the queue. *)
LEMMA QueuePostRecv ==
  ASSUME WorkerInv, NEW r, r.op # "SEND", wq' = Append(wq, r),
         UNCHANGED <<sent, accepted>>, replied' = replied
  PROVE  QueueInv'
<1>1. RepliesInOrder /\ RepliesQueued /\ wq \in Seq(Requests)
  BY DEF WorkerInv, TypeOK, QP!TypeOK
<1>2. /\ Len(wq') = Len(wq) + 1 /\ Len(wq) \in Nat
      /\ \A k \in 1 .. Len(wq) : wq'[k] = wq[k]
      /\ wq'[Len(wq) + 1] = r
  BY <1>1
<1>3. \A k \in 1 .. Len(wq') :
        wq'[k].op = "SEND" => k \in 1 .. Len(wq) /\ wq'[k] = wq[k]
  BY <1>2
<1>4. \A k \in 1 .. Len(wq) : k \in 1 .. Len(wq') /\ wq'[k] = wq[k]
  BY <1>2
<1>5. RepliesQueued'
  <2>1. Len(sent) <= replied
    BY <1>1 DEF RepliesQueued
  <2>2. \A k \in 1 .. Len(wq') : wq'[k].op = "SEND" =>
          /\ Len(sent) <= wq'[k].seq /\ wq'[k].seq < replied
          /\ wq'[k].nid = accepted[wq'[k].seq + 1][1]
    BY <1>1, <1>3 DEF RepliesQueued
  <2>3. ASSUME NEW j \in 1 .. Len(wq'), NEW k \in 1 .. Len(wq'),
               j < k, wq'[j].op = "SEND", wq'[k].op = "SEND"
        PROVE  wq'[j].seq < wq'[k].seq
    <3>1. j \in 1 .. Len(wq) /\ k \in 1 .. Len(wq) /\ wq'[j] = wq[j] /\ wq'[k] = wq[k]
      BY <1>3, <2>3
    <3> QED
      BY <1>1, <2>3, <3>1 DEF RepliesQueued
  <2>4. \A n \in Len(sent) .. replied - 1 :
          \E k \in 1 .. Len(wq') : wq'[k].op = "SEND" /\ wq'[k].seq = n
    BY <1>1, <1>4 DEF RepliesQueued
  <2> QED
    BY <2>1, <2>2, <2>3, <2>4 DEF RepliesQueued
<1> QED
  BY <1>1, <1>5 DEF QueueInv, RepliesInOrder

(* Posting a reply adds the next one at the end of the queue. *)
LEMMA QueuePostSend ==
  ASSUME WorkerInv, NEW r, r.op = "SEND", r.seq = replied,
         r.nid = accepted[replied + 1][1], wq' = Append(wq, r),
         UNCHANGED <<sent, accepted>>, replied' = replied + 1
  PROVE  QueueInv'
<1>1. /\ RepliesInOrder /\ RepliesQueued
      /\ wq \in Seq(Requests) /\ sent \in Seq(Sends) /\ replied \in Nat
  BY RepliedBound DEF WorkerInv, TypeOK, QP!TypeOK
<1>2. /\ Len(wq') = Len(wq) + 1 /\ Len(wq) \in Nat /\ Len(sent) \in Nat
      /\ \A k \in 1 .. Len(wq) : wq'[k] = wq[k]
      /\ wq'[Len(wq) + 1] = r
  BY <1>1
<1>3. \A k \in 1 .. Len(wq') :
        (k \in 1 .. Len(wq) /\ wq'[k] = wq[k]) \/ (k = Len(wq) + 1 /\ wq'[k] = r)
  BY <1>2
<1>4. \A k \in 1 .. Len(wq) : k \in 1 .. Len(wq') /\ wq'[k] = wq[k]
  BY <1>2
<1>5. \A k \in 1 .. Len(wq) : wq[k].op = "SEND" =>
        /\ wq[k].seq \in Nat
        /\ Len(sent) <= wq[k].seq /\ wq[k].seq < replied
        /\ wq[k].nid = accepted[wq[k].seq + 1][1]
  <2>1. \A k \in 1 .. Len(wq) : wq[k] \in Requests
    BY <1>1
  <2> QED
    BY <1>1, <2>1, RequestFields DEF RepliesQueued
<1>6. Len(sent) <= replied
  BY <1>1 DEF RepliesQueued
<1>7. \A k \in 1 .. Len(wq') : wq'[k].op = "SEND" =>
        /\ Len(sent) <= wq'[k].seq /\ wq'[k].seq < replied + 1
        /\ wq'[k].nid = accepted[wq'[k].seq + 1][1]
  BY <1>1, <1>2, <1>3, <1>5, <1>6
<1>8. ASSUME NEW j \in 1 .. Len(wq'), NEW k \in 1 .. Len(wq'),
             j < k, wq'[j].op = "SEND", wq'[k].op = "SEND"
      PROVE  wq'[j].seq < wq'[k].seq
  <2>1. j \in 1 .. Len(wq) /\ wq'[j] = wq[j]
    BY <1>2, <1>8
  <2>2. CASE k \in 1 .. Len(wq) /\ wq'[k] = wq[k]
    BY <1>1, <1>8, <2>1, <2>2 DEF RepliesQueued
  <2>3. CASE wq'[k] = r
    BY <1>5, <1>8, <2>1, <2>3
  <2> QED
    BY <1>3, <2>2, <2>3
<1>9. ASSUME NEW n \in Len(sent) .. (replied + 1) - 1
      PROVE  \E k \in 1 .. Len(wq') : wq'[k].op = "SEND" /\ wq'[k].seq = n
  <2>1. CASE n = replied
    <3>1. Len(wq) + 1 \in 1 .. Len(wq')
      BY <1>2
    <3> QED
      BY <1>2, <2>1, <3>1
  <2>2. CASE n # replied
    <3>1. n \in Len(sent) .. replied - 1
      BY <1>1, <1>2, <2>2
    <3>2. PICK k \in 1 .. Len(wq) : wq[k].op = "SEND" /\ wq[k].seq = n
      BY <1>1, <3>1 DEF RepliesQueued
    <3> QED
      BY <1>4, <3>2
  <2> QED
    BY <2>1, <2>2
<1>10. Len(sent) <= replied + 1
  BY <1>1, <1>2, <1>6
<1>11. RepliesQueued'
  BY <1>7, <1>8, <1>9, <1>10 DEF RepliesQueued
<1> QED
  BY <1>1, <1>11 DEF QueueInv, RepliesInOrder

(* Fetching moves every entry of the queue one place forward. *)
LEMMA Shift ==
  ASSUME wq \in Seq(Requests), wq # <<>>, wq' = Tail(wq)
  PROVE  /\ Len(wq') = Len(wq) - 1 /\ Len(wq) \in Nat /\ 1 \in 1 .. Len(wq)
         /\ Head(wq) = wq[1]
         /\ \A k \in 1 .. Len(wq') : k + 1 \in 1 .. Len(wq) /\ wq'[k] = wq[k + 1]
         /\ \A k \in 1 .. Len(wq) :
              k # 1 => k - 1 \in 1 .. Len(wq') /\ wq'[k - 1] = wq[k]
<1>1. /\ Len(wq') = Len(wq) - 1 /\ Len(wq) \in Nat /\ Len(wq) > 0
      /\ Head(wq) = wq[1]
      /\ \A k \in 1 .. Len(wq) - 1 : wq'[k] = wq[k + 1]
  OBVIOUS
<1>2. ASSUME NEW k \in 1 .. Len(wq), k # 1
      PROVE  k - 1 \in 1 .. Len(wq') /\ wq'[k - 1] = wq[k]
  <2>1. k - 1 \in 1 .. Len(wq) - 1 /\ (k - 1) + 1 = k
    BY <1>1, <1>2
  <2> QED
    BY <1>1, <2>1
<1>3. ASSUME NEW k \in 1 .. Len(wq')
      PROVE  k + 1 \in 1 .. Len(wq) /\ wq'[k] = wq[k + 1]
  BY <1>1
<1> QED
  BY <1>1, <1>2, <1>3

(* The queue that is left after a fetch is in order if it was. *)
LEMMA ShiftOrdered ==
  ASSUME WorkerInv, wq # <<>>, wq' = Tail(wq),
         NEW j \in 1 .. Len(wq'), NEW k \in 1 .. Len(wq'),
         j < k, wq'[j].op = "SEND", wq'[k].op = "SEND"
  PROVE  wq'[j].seq < wq'[k].seq
<1>1. wq \in Seq(Requests) /\ RepliesQueued
  BY DEF WorkerInv, TypeOK, QP!TypeOK
<1>2. /\ j + 1 \in 1 .. Len(wq) /\ k + 1 \in 1 .. Len(wq) /\ j + 1 < k + 1
      /\ wq'[j] = wq[j + 1] /\ wq'[k] = wq[k + 1]
  BY <1>1, Shift
<1> QED
  BY <1>1, <1>2 DEF RepliesQueued

(* Fetching the return of a receive slot takes no reply from the queue. *)
LEMMA QueueFetchRecv ==
  ASSUME WorkerInv, wq # <<>>, Head(wq).op # "SEND", wq' = Tail(wq),
         UNCHANGED <<sent, accepted>>, replied' = replied
  PROVE  QueueInv'
<1>1. RepliesInOrder /\ RepliesQueued /\ wq \in Seq(Requests)
  BY DEF WorkerInv, TypeOK, QP!TypeOK
<1>2. \A k \in 1 .. Len(wq') : wq'[k].op = "SEND" =>
        /\ Len(sent) <= wq'[k].seq /\ wq'[k].seq < replied
        /\ wq'[k].nid = accepted[wq'[k].seq + 1][1]
  BY <1>1, Shift DEF RepliesQueued
<1>3. ASSUME NEW n \in Len(sent) .. replied - 1
      PROVE  \E k \in 1 .. Len(wq') : wq'[k].op = "SEND" /\ wq'[k].seq = n
  <2>1. PICK k \in 1 .. Len(wq) : wq[k].op = "SEND" /\ wq[k].seq = n
    BY <1>1 DEF RepliesQueued
  <2>2. k - 1 \in 1 .. Len(wq') /\ wq'[k - 1] = wq[k]
    BY <1>1, <2>1, Shift
  <2> QED
    BY <2>1, <2>2
<1>4. RepliesQueued'
  BY <1>1, <1>2, <1>3, ShiftOrdered DEF RepliesQueued
<1> QED
  BY <1>1, <1>4 DEF QueueInv, RepliesInOrder

(* The reply the NIC transmits is the next one: a later reply cannot be in *)
(* front of it.                                                            *)
LEMMA QueueTransmit ==
  ASSUME WorkerInv, wq # <<>>, Head(wq).op = "SEND", wq' = Tail(wq),
         sent' = Append(sent, Head(wq)), UNCHANGED accepted, replied' = replied
  PROVE  QueueInv'
<1>1. /\ RepliesInOrder /\ RepliesQueued /\ Len(accepted) = tmp_count
      /\ wq \in Seq(Requests) /\ sent \in Seq(Sends)
      /\ replied \in Nat /\ replied <= tmp_count /\ tmp_count \in Nat
  BY RepliedBound DEF WorkerInv, TypeOK, QP!TypeOK, BatchRecorded
<1>2. Head(wq) = wq[1] /\ 1 \in 1 .. Len(wq) /\ Len(wq) \in Nat /\ Len(sent) \in Nat
  BY <1>1, Shift
<1>3. \A k \in 1 .. Len(wq) : wq[k].op = "SEND" =>
        /\ wq[k].seq \in Nat
        /\ Len(sent) <= wq[k].seq /\ wq[k].seq < replied
        /\ wq[k].nid = accepted[wq[k].seq + 1][1]
  <2>1. \A k \in 1 .. Len(wq) : wq[k] \in Requests
    BY <1>1
  <2> QED
    BY <1>1, <2>1, RequestFields DEF RepliesQueued
<1>4. wq[1].seq = Len(sent)
  <2>1. Len(sent) \in Len(sent) .. replied - 1
    BY <1>1, <1>2, <1>3
  <2>2. PICK k \in 1 .. Len(wq) : wq[k].op = "SEND" /\ wq[k].seq = Len(sent)
    BY <1>1, <2>1 DEF RepliesQueued
  <2>3. k # 1 => wq[1].seq < wq[k].seq
    <3>1. k # 1 => 1 < k
      BY <1>2
    <3> QED
      BY <1>1, <1>2, <2>2, <3>1 DEF RepliesQueued
  <2> QED
    BY <1>2, <1>3, <2>2, <2>3
<1>5. /\ Len(sent') = Len(sent) + 1
      /\ \A k \in 1 .. Len(sent) : sent'[k] = sent[k]
      /\ sent'[Len(sent) + 1] = wq[1]
  <2>1. Head(wq) \in Sends
    <3>1. Head(wq) \in Requests
      BY <1>1, <1>2
    <3> QED
      BY <3>1, RequestFields
  <2> QED
    BY <1>1, <1>2, <2>1
<1>6. RepliesInOrder'
  <2>1. Len(sent) + 1 <= Len(accepted)
    BY <1>1, <1>2, <1>3, <1>4
  <2>2. ASSUME NEW k \in 1 .. Len(sent) + 1
        PROVE  sent'[k].nid = accepted[k][1] /\ sent'[k].seq = k - 1
    <3>1. CASE k = Len(sent) + 1
      BY <1>2, <1>3, <1>4, <1>5, <3>1
    <3>2. CASE k # Len(sent) + 1
      <4>1. k \in 1 .. Len(sent)
        BY <1>2, <3>2
      <4> QED
        BY <1>1, <1>5, <4>1 DEF RepliesInOrder
    <3> QED
      BY <3>1, <3>2
  <2> QED
    BY <1>5, <2>1, <2>2 DEF RepliesInOrder
<1>7. RepliesQueued'
  <2>1. Len(sent) + 1 <= replied
    BY <1>1, <1>2, <1>3, <1>4
  <2>2. ASSUME NEW k \in 1 .. Len(wq'), wq'[k].op = "SEND"
        PROVE  /\ Len(sent) + 1 <= wq'[k].seq /\ wq'[k].seq < replied
               /\ wq'[k].nid = accepted[wq'[k].seq + 1][1]
    <3>1. k + 1 \in 1 .. Len(wq) /\ wq'[k] = wq[k + 1] /\ 1 < k + 1
      BY <1>1, Shift
    <3>2. wq[1].seq < wq[k + 1].seq
      BY <1>1, <1>2, <2>2, <3>1 DEF RepliesQueued
    <3> QED
      BY <1>2, <1>3, <1>4, <2>2, <3>1, <3>2
  <2>3. ASSUME NEW n \in Len(sent) + 1 .. replied - 1
        PROVE  \E k \in 1 .. Len(wq') : wq'[k].op = "SEND" /\ wq'[k].seq = n
    <3>1. n \in Len(sent) .. replied - 1 /\ n # Len(sent)
      BY <1>1, <1>2
    <3>2. PICK k \in 1 .. Len(wq) : wq[k].op = "SEND" /\ wq[k].seq = n
      BY <1>1, <3>1 DEF RepliesQueued
    <3>3. k - 1 \in 1 .. Len(wq') /\ wq'[k - 1] = wq[k]
      BY <1>1, <1>4, <3>1, <3>2, Shift
    <3> QED
      BY <3>2, <3>3
  <2> QED
    BY <1>5, <2>1, <2>2, <2>3, ShiftOrdered DEF RepliesQueued
<1> QED
  BY <1>6, <1>7 DEF QueueInv

(* Every step of the worker keeps the replies in order. *)
LEMMA QueueWorker == WorkerInv /\ WorkerStep => QueueInv'
<1> SUFFICES ASSUME WorkerInv, WorkerStep PROVE QueueInv'
  OBVIOUS
<1>0. /\ TypeOK /\ BatchInBounds /\ BatchRecorded /\ BatchOpen
      /\ tmp_count \in Nat /\ batch_counter \in Nat /\ batch_size \in Nat /\ i \in Nat
  BY Constants DEF WorkerInv, TypeOK
<1>1. CASE Receive
  <2>1. UNCHANGED <<wq, sent, accepted, tmp_count, batch_counter, batch_size, i>>
    BY <1>1 DEF Receive, PollTimeout, PollCheck, CheckOuter, CheckTake, CheckEmpty,
                ReceiveRetry, ReceiveDone, ReceivePacket, QP!Take,
                batchVars, pollVars, nicVars
  <2>2. ~Processing /\ ~Processing'
    BY <1>1 DEF Receive, PollTimeout, PollCheck, CheckOuter, CheckTake, CheckEmpty,
                ReceiveRetry, ReceiveDone, ReceivePacket, Processing
  <2>3. replied' = replied
    BY <2>1, <2>2 DEF replied
  <2> QED
    BY <2>1, <2>3, QueueQuiet
<1>2. CASE WorkerExit
  <2>1. UNCHANGED <<wq, sent, accepted, tmp_count, batch_counter>>
    BY <1>2 DEF WorkerExit, batchVars, pollVars, nicVars
  <2>2. replied' = replied
    BY <1>2, <2>1 DEF WorkerExit, replied, Processing
  <2> QED
    BY <2>1, <2>2, QueueQuiet
<1>3. CASE DispatchTimeout
  <2>1. UNCHANGED <<wq, sent, accepted, tmp_count, batch_counter>>
    BY <1>3 DEF DispatchTimeout, nicVars
  <2>2. replied' = replied
    BY <1>0, <1>3, <2>1 DEF DispatchTimeout, replied, Processing
  <2> QED
    BY <2>1, <2>2, QueueQuiet
<1>4. CASE DispatchPacket
  <2>1. /\ UNCHANGED <<wq, sent>> /\ accepted' = Append(accepted, rpcs[batch_counter])
        /\ pc = "dispatch" /\ tmp_count' = tmp_count + 1
        /\ batch_counter' = batch_counter + 1 /\ i' = 0
        /\ pc' = IF batch_counter' >= batch_size' THEN "send" ELSE "poll"
    BY <1>4 DEF DispatchPacket, nicVars
  <2>2. batch_counter' >= batch_size' => batch_counter' = batch_size'
    <3>1. BatchInBounds'
      BY <1>4, BatchDispatch DEF Dispatch, BatchInv
    <3> QED
      BY <2>1, <3>1 DEF BatchInBounds, Processing
  <2>3. replied' = replied
    BY <1>0, <2>1, <2>2 DEF replied, Processing
  <2> QED
    BY <2>1, <2>3, QueueAccept
<1>5. CASE SendHeader
  <2>1. UNCHANGED <<wq, sent, accepted, tmp_count, batch_size, i>>
    BY <1>5 DEF SendHeader, batchVars, pollVars, nicVars
  <2>2. replied' = replied
    BY <1>5, <2>1 DEF SendHeader, replied, Processing
  <2> QED
    BY <2>1, <2>2, QueueQuiet
<1>6. CASE SendPost
  <2> DEFINE r == [op |-> "SEND", nid |-> source_node_ids[i],
                   buf |-> lbuf_offset(rpc_send_count), seq |-> rpc_send_count]
  <2>1. /\ wq' = Append(wq, r) /\ pc = "post" /\ pc' = "recv"
        /\ UNCHANGED <<sent, accepted, tmp_count, batch_size, i>>
    BY <1>6 DEF SendPost, QP!Post, batchVars, pollVars, nicVars
  <2>2. replied = rpc_send_count /\ replied' = replied + 1
    BY <1>0, <2>1 DEF replied, Processing, rpc_send_count
  <2>3. i \in 0 .. batch_counter - 1 /\ batch_counter = batch_size
    BY <1>0, <2>1 DEF BatchInBounds, Processing
  <2>4. /\ source_node_ids[i] = accepted[tmp_count - batch_counter + i + 1][1]
        /\ tmp_count - batch_counter + i + 1 = replied + 1
    BY <1>0, <2>2, <2>3 DEF BatchRecorded, rpc_send_count
  <2>5. r.op = "SEND" /\ r.seq = replied /\ r.nid = accepted[replied + 1][1]
    BY <2>2, <2>4
  <2> HIDE DEF r
  <2> QED
    BY <2>1, <2>2, <2>5, QueuePostSend
<1>7. CASE RecvPost
  <2> DEFINE r == [op |-> "RECV", slot |-> rpcs[i]]
  <2>1. /\ wq' = Append(wq, r) /\ pc = "recv" /\ pc' = "send" /\ i' = i + 1
        /\ UNCHANGED <<sent, accepted, tmp_count, batch_size>>
    BY <1>7 DEF RecvPost, QP!Post, batchVars, pollVars, nicVars
  <2>2. replied' = replied
    BY <1>0, <2>1 DEF replied, Processing
  <2>3. r.op # "SEND"
    OBVIOUS
  <2> HIDE DEF r
  <2> QED
    BY <2>1, <2>2, <2>3, QueuePostRecv
<1>8. CASE RecvDropped
  <2>1. /\ pc = "recv" /\ pc' = "send" /\ i' = i + 1
        /\ UNCHANGED <<wq, sent, accepted, tmp_count, batch_size>>
    BY <1>8 DEF RecvDropped, batchVars, pollVars, nicVars
  <2>2. replied' = replied
    BY <1>0, <2>1 DEF replied, Processing
  <2> QED
    BY <2>1, <2>2, QueueQuiet
<1>9. CASE BatchDone
  <2>1. /\ pc = "send" /\ pc' = "poll" /\ batch_counter' = 0 /\ i >= batch_size
        /\ UNCHANGED <<wq, sent, accepted, tmp_count, batch_size, i>>
    BY <1>9 DEF BatchDone, nicVars
  <2>2. i <= batch_size
    BY <1>0, <2>1 DEF BatchInBounds, Processing
  <2>3. replied' = replied
    BY <1>0, <2>1, <2>2 DEF replied, Processing
  <2> QED
    BY <2>1, <2>3, QueueQuiet
<1> QED
  BY <1>1, <1>2, <1>3, <1>4, <1>5, <1>6, <1>7, <1>8, <1>9
     DEF WorkerStep, Dispatch, Process

(* So does every step of the NIC. *)
LEMMA QueueStep == WorkerInv /\ [Next]_vars => QueueInv'
<1> SUFFICES ASSUME WorkerInv, [Next]_vars PROVE QueueInv'
  OBVIOUS
<1>1. ASSUME UNCHANGED <<pc, i, batchVars>> PROVE replied' = replied /\ accepted' = accepted
  BY <1>1 DEF replied, Processing, batchVars
<1>2. CASE NicTransmit
  BY <1>1, <1>2, QueueTransmit DEF NicTransmit, QP!Fetch
<1>3. CASE NicFree
  BY <1>1, <1>3, QueueFetchRecv DEF NicFree, QP!Fetch
<1>4. CASE (\E s \in RecvSlots : NicDeliver(s)) \/ NicComplete \/ ClientDone
  BY <1>1, <1>4, QueueQuiet DEF NicDeliver, NicComplete, ClientDone, QP!Complete
<1>5. CASE UNCHANGED vars
  BY <1>1, <1>5, QueueQuiet DEF vars, nicVars
<1> QED
  BY <1>2, <1>3, <1>4, <1>5, QueueWorker DEF Next, Egress, Stopped

-----------------------------------------------------------------------------
(* The inductive invariant holds initially ... *)
LEMMA InitInv == Init => WorkerInv
<1> SUFFICES ASSUME Init PROVE WorkerInv
  OBVIOUS
<1>1. TypeOK
  BY TypeInit
<1>2. /\ pc = "poll" /\ wq = <<>> /\ sent = <<>> /\ accepted = <<>>
      /\ batch_counter = 0 /\ tmp_count = 0
  BY DEF Init, QP!Init
<1>3. replied = 0
  BY <1>2 DEF replied, Processing
<1>4. BatchInBounds /\ BatchRecorded /\ BatchOpen
  BY <1>2, Constants DEF BatchInBounds, BatchRecorded, BatchOpen, Processing
<1>5. RepliesInOrder /\ RepliesQueued
  BY <1>2, <1>3 DEF RepliesInOrder, RepliesQueued
<1> QED
  BY <1>1, <1>4, <1>5 DEF WorkerInv

(* ... and is preserved by every step. *)
LEMMA StepInv == WorkerInv /\ [Next]_vars => WorkerInv'
BY TypeStep, BatchStep, QueueStep DEF WorkerInv, BatchInv, QueueInv

(* The worker's inductive invariant: types, the bounds of the batch, what  *)
(* it holds, and the replies in the work queue.                            *)
THEOREM WorkerInvariant == Spec => []WorkerInv
<1> QED
  BY InitInv, StepInv, PTL DEF Spec

(* The worker's locals, the queues and the NIC's state are well typed in   *)
(* every run of run_worker.                                                *)
THEOREM WorkerTypeCorrect == Spec => []TypeOK
<1>1. WorkerInv => TypeOK
  BY DEF WorkerInv
<1> QED
  BY <1>1, WorkerInvariant, PTL

(* run_worker never writes outside rpcs and source_node_ids, and processes *)
(* exactly the packets it collected, for every batch size and warm-up.     *)
THEOREM BatchStaysInBounds == Spec => []BatchInBounds
<1>1. WorkerInv => BatchInBounds
  BY DEF WorkerInv
<1> QED
  BY <1>1, WorkerInvariant, PTL

(* The k-th reply that leaves the NIC answers the k-th packet the worker   *)
(* accepted, for every batch size, queue size and number of nodes, with    *)
(* refused posts and time-outs at any moment.                              *)
THEOREM RepliesStayInOrder == Spec => []RepliesInOrder
<1>1. WorkerInv => RepliesInOrder
  BY DEF WorkerInv
<1> QED
  BY <1>1, WorkerInvariant, PTL

-----------------------------------------------------------------------------
(* Owners, as a relation. *)
Held(x, s) ==
  \/ x = <<"free", 0>> /\ s \in freeSlots
  \/ \E k \in 1 .. Len(cq) : x = <<"cq", k>> /\ cq[k] \in Packets /\ cq[k].slot = s
  \/ \E k \in 1 .. Len(wq) : x = <<"wq", k>> /\ wq[k] \in Recvs /\ wq[k].slot = s
  \/ \E b \in Pending : x = <<"batch", b>> /\ rpcs[b] = s
  \/ x = <<"hand", 0>> /\ InHand(s)

(* At most one owner. *)
HeldOnce == \A s \in RecvSlots : \A x, y : Held(x, s) /\ Held(y, s) => x = y

(* The inductive invariant. *)
SlotInv == WorkerInv /\ HeldOnce

(* Held says who the owners are.                                           *)
LEMMA OwnersHeld == ASSUME NEW s PROVE \A x : x \in Owners(s) <=> Held(x, s)
BY DEF Owners, Held

(* Hence the two ways to say that a slot is owned once agree.              *)
LEMMA HeldOnceIsOwnedOnce == HeldOnce => SlotOwnedOnce
<1> SUFFICES ASSUME HeldOnce, NEW s \in RecvSlots PROVE Cardinality(Owners(s)) <= 1
  BY DEF SlotOwnedOnce
<1>1. CASE Owners(s) = {}
  BY <1>1, FS_EmptySet
<1>2. CASE Owners(s) # {}
  <2>1. PICK x : x \in Owners(s)
    BY <1>2
  <2>2. Owners(s) = {x}
    BY <2>1, OwnersHeld DEF HeldOnce
  <2>3. Cardinality({x}) = 1
    BY FS_Singleton
  <2> QED
    BY <2>2, <2>3
<1> QED
  BY <1>1, <1>2

(* What the queues hold at the start and what the types say.               *)
LEMMA QueueTypes ==
  ASSUME WorkerInv
  PROVE  /\ wq \in Seq(Requests) /\ cq \in Seq(Completions)
         /\ Len(wq) \in Nat /\ Len(cq) \in Nat
         /\ \A k \in 1 .. Len(wq) : wq[k] \in Requests
         /\ \A k \in 1 .. Len(cq) : cq[k] \in Completions
         /\ batch_counter \in Nat /\ batch_size \in Nat /\ i \in Nat /\ tmp_count \in Nat
BY Constants DEF WorkerInv, TypeOK, QP!TypeOK

(* Nothing is both a request to send and one to free a slot.               *)
LEMMA SendIsNoRecv == \A r : r \in Recvs => r.op = "RECV" /\ r.slot \in RecvSlots
BY DEF Recvs

(* The payload that a time-out leaves is no slot.                          *)
LEMMA NoSlotIsNoSlot == NoSlot \notin RecvSlots
<1>1. \A s \in RecvSlots : s = <<s[1], s[2]>>
  BY DEF RecvSlots
<1>2. \A a, b : <<a, b>> # <<>>
  OBVIOUS
<1> QED
  BY <1>1, <1>2 DEF NoSlot

(* At the start the NIC has all the slots.                                 *)
LEMMA HeldInit == Init => HeldOnce
<1> SUFFICES ASSUME Init, NEW s \in RecvSlots, NEW x, Held(x, s) PROVE x = <<"free", 0>>
  BY DEF HeldOnce
<1>1. Len(wq) = 0 /\ Len(cq) = 0
  BY DEF Init, QP!Init
<1>2. Pending = {} /\ ~InHand(s)
  BY DEF Init, Pending, Processing, InHand
<1> QED
  BY <1>1, <1>2 DEF Held

-----------------------------------------------------------------------------
(* Steps that give up slots, or leave them where they are. *)

(* Nothing is taken: the owners after the step are owners before it.       *)
LEMMA NothingTaken ==
  ASSUME HeldOnce, \A s \in RecvSlots : \A x : Held(x, s)' => Held(x, s)
  PROVE  HeldOnce'
BY DEF HeldOnce

(* ... in particular when only the batch and the packet in hand change.    *)
LEMMA OnlyBatch ==
  ASSUME HeldOnce, UNCHANGED <<wq, cq, freeSlots>>,
         \A s \in RecvSlots :
           /\ \A b \in Pending' : rpcs'[b] = s => b \in Pending /\ rpcs[b] = s
           /\ InHand(s)' => InHand(s)
  PROVE  HeldOnce'
<1> SUFFICES ASSUME NEW s \in RecvSlots, NEW x, Held(x, s)' PROVE Held(x, s)
  BY NothingTaken
<1>1. \/ x = <<"free", 0>> /\ s \in freeSlots
      \/ \E k \in 1 .. Len(cq) : x = <<"cq", k>> /\ cq[k] \in Packets /\ cq[k].slot = s
      \/ \E k \in 1 .. Len(wq) : x = <<"wq", k>> /\ wq[k] \in Recvs /\ wq[k].slot = s
      \/ \E b \in Pending' : x = <<"batch", b>> /\ rpcs'[b] = s
      \/ x = <<"hand", 0>> /\ InHand(s)'
  BY DEF Held
<1> QED
  BY <1>1 DEF Held

(* Polling, and the receive that comes back.  What it writes at            *)
(* batch_counter is not part of the batch yet.                             *)
LEMMA ReceiveKeepsSlots ==
  ASSUME WorkerInv, HeldOnce, Receive, ~CheckTake
  PROVE  HeldOnce'
<1>1. /\ UNCHANGED <<wq, cq, freeSlots, i, batch_counter, batch_size>>
      /\ ~Processing /\ ~Processing'
  BY DEF Receive, PollTimeout, PollCheck, CheckOuter, CheckEmpty, ReceiveRetry, ReceiveDone,
         ReceivePacket, Processing, nicVars, batchVars
<1>2. /\ Pending = 0 .. batch_counter - 1 /\ Pending' = 0 .. batch_counter - 1
      /\ batch_counter \in Nat /\ batch_counter \notin Pending
      /\ rpcs \in [Batch -> RecvSlots \cup {NoSlot}] /\ pc # "exit"
      /\ batch_counter \in Batch
  <2>1. pc # "exit" /\ batch_counter < BatchSize
    BY <1>1 DEF WorkerInv, BatchInBounds, Receive, PollTimeout, PollCheck, CheckOuter, CheckEmpty,
                ReceiveRetry, ReceiveDone, ReceivePacket
  <2> QED
    BY <1>1, <2>1, Constants DEF Pending, WorkerInv, TypeOK, Batch
<1>3. ASSUME UNCHANGED rpcs, NEW s \in RecvSlots
      PROVE  \A b \in Pending' : rpcs'[b] = s => b \in Pending /\ rpcs[b] = s
  BY <1>2, <1>3
<1>4. ASSUME NEW v, rpcs' = [rpcs EXCEPT ![batch_counter] = v], NEW s \in RecvSlots
      PROVE  \A b \in Pending' : rpcs'[b] = s => b \in Pending /\ rpcs[b] = s
  BY <1>2, <1>4
<1>5. CASE PollCheck \/ CheckOuter \/ CheckEmpty \/ ReceiveRetry
  <2>1. UNCHANGED rpcs
    BY <1>5 DEF PollCheck, CheckOuter, CheckEmpty, ReceiveRetry, batchVars
  <2>2. ASSUME NEW s \in RecvSlots, InHand(s)' PROVE InHand(s)
    <3>1. INVAL \notin Packets
      BY DEF INVAL, Packets
    <3>2. pc' # "dispatch" /\ ~(pc' = "returned" /\ ret' \in Packets)
      BY <1>5, <3>1 DEF PollCheck, CheckOuter, CheckEmpty, ReceiveRetry
    <3> QED
      BY <2>2, <3>2 DEF InHand
  <2> QED
    BY <1>1, <1>3, <2>1, <2>2, OnlyBatch
<1>6. CASE PollTimeout \/ ReceiveDone
  <2>1. rpcs' = [rpcs EXCEPT ![batch_counter] = NoSlot] /\ pc' = "dispatch"
    BY <1>6 DEF PollTimeout, ReceiveDone
  <2>2. ASSUME NEW s \in RecvSlots PROVE ~InHand(s)'
    <3>1. rpcs'[batch_counter'] = NoSlot
      BY <1>1, <1>2, <2>1
    <3> QED
      BY <2>1, <3>1, NoSlotIsNoSlot DEF InHand
  <2> QED
    BY <1>1, <1>4, <2>1, <2>2, OnlyBatch
<1>7. CASE ReceivePacket
  <2>1. rpcs' = [rpcs EXCEPT ![batch_counter] = ret.slot] /\ pc' = "dispatch"
        /\ pc = "returned" /\ ret \in Packets
    BY <1>7 DEF ReceivePacket
  <2>2. ASSUME NEW s \in RecvSlots, InHand(s)' PROVE InHand(s)
    <3>1. rpcs'[batch_counter'] = ret.slot
      BY <1>1, <1>2, <2>1
    <3> QED
      BY <2>1, <2>2, <3>1 DEF InHand
  <2> QED
    BY <1>1, <1>4, <2>1, <2>2, OnlyBatch
<1> QED
  BY <1>5, <1>6, <1>7 DEF Receive

(* The other steps of the worker that take no slot.                        *)
LEMMA LoopKeepsSlots ==
  ASSUME WorkerInv, HeldOnce, WorkerExit \/ DispatchTimeout \/ SendHeader \/ RecvDropped \/ BatchDone
  PROVE  HeldOnce'
<1>1. /\ UNCHANGED <<wq, cq, freeSlots, rpcs>>
      /\ pc' \notin {"returned", "dispatch"}
  BY DEF WorkerExit, DispatchTimeout, SendHeader, RecvDropped, BatchDone, batchVars, nicVars
<1>2. Pending' \subseteq Pending
  <2>1. /\ batch_counter \in Nat /\ batch_size \in Nat /\ i \in Nat
        /\ Processing => batch_counter = batch_size
    BY QueueTypes DEF WorkerInv, BatchInBounds
  <2>2. CASE WorkerExit
    BY <2>2 DEF WorkerExit, Pending, Processing, batchVars
  <2>3. CASE DispatchTimeout
    BY <2>1, <2>3 DEF DispatchTimeout, Pending, Processing
  <2>4. CASE SendHeader
    BY <2>4 DEF SendHeader, Pending, Processing, batchVars
  <2>5. CASE RecvDropped
    BY <2>1, <2>5 DEF RecvDropped, Pending, Processing, batchVars
  <2>6. CASE BatchDone
    BY <2>1, <2>6 DEF BatchDone, Pending, Processing
  <2> QED
    BY <2>2, <2>3, <2>4, <2>5, <2>6
<1>3. \A s \in RecvSlots : ~InHand(s)'
  BY <1>1 DEF InHand
<1> QED
  BY <1>1, <1>2, <1>3, OnlyBatch
-----------------------------------------------------------------------------
(* Steps that move a slot from one owner to another, or the owners along   *)
(* in their queue. *)

Tokens == ({"free", "hand"} \X {0}) \cup ({"cq", "wq"} \X (Nat \ {0})) \cup ({"batch"} \X Nat)

(* Owners are tokens.                                                      *)
LEMMA HeldTokens == WorkerInv => \A s, x : Held(x, s) => x \in Tokens
<1> SUFFICES ASSUME WorkerInv PROVE \A s, x : Held(x, s) => x \in Tokens
  OBVIOUS
<1>1. Pending \subseteq Nat
  BY QueueTypes DEF Pending
<1> QED
  BY <1>1, QueueTypes DEF Held, Tokens

(* ... also after the step.                                                *)
LEMMA HeldTokensNext == WorkerInv' => \A s, x : Held(x, s)' => x \in Tokens
<1>1. (WorkerInv => \A s, x : Held(x, s) => x \in Tokens)'
  BY HeldTokens, PTL
<1> QED
  BY <1>1

(* Taking the first element of a queue.                                    *)
LEMMA TailOf ==
  ASSUME NEW S, NEW q \in Seq(S), q # <<>>
  PROVE  /\ Len(q) \in Nat \ {0} /\ Len(Tail(q)) = Len(q) - 1 /\ Head(q) = q[1]
         /\ \A k \in 1 .. Len(Tail(q)) : k + 1 \in 1 .. Len(q) /\ Tail(q)[k] = q[k + 1]
OBVIOUS

(* Adding an element.                                                      *)
LEMMA AppendTo ==
  ASSUME NEW S, NEW q \in Seq(S), NEW e
  PROVE  /\ Len(Append(q, e)) = Len(q) + 1 /\ Len(q) \in Nat
         /\ \A k \in 1 .. Len(q) : Append(q, e)[k] = q[k]
         /\ Append(q, e)[Len(q) + 1] = e
OBVIOUS

(* rmc_check_cq takes a completion: a packet passes from the head of the   *)
(* queue to the hand.                                                      *)
LEMMA TakeMovesSlot ==
  ASSUME WorkerInv, WorkerInv', HeldOnce, CheckTake
  PROVE  HeldOnce'
<1>1. /\ cq # <<>> /\ cq' = Tail(cq) /\ pc = "inner" /\ pc' # "dispatch"
      /\ UNCHANGED <<wq, freeSlots, rpcs, i, batch_counter, batch_size>>
      /\ pc' = "returned" => ret' = cq[1]
      /\ ~Processing /\ ~Processing' /\ cq \in Seq(Completions)
  <2>1. cq \in Seq(Completions)
    BY QueueTypes
  <2> QED
    BY <2>1, TailOf DEF CheckTake, QP!Take, Processing, nicVars, batchVars
<1>2. /\ Len(cq) \in Nat \ {0} /\ Len(cq') = Len(cq) - 1
      /\ \A k \in 1 .. Len(cq') : k + 1 \in 1 .. Len(cq) /\ cq'[k] = cq[k + 1]
  BY <1>1, TailOf
<1>3. Pending' = Pending
  BY <1>1 DEF Pending
<1> SUFFICES ASSUME NEW s \in RecvSlots, NEW x, NEW y, Held(x, s)', Held(y, s)'
             PROVE  x = y
  BY DEF HeldOnce
<1> DEFINE before(z) == IF z = <<"hand", 0>> THEN <<"cq", 1>>
                        ELSE IF z[1] = "cq" THEN <<"cq", z[2] + 1>> ELSE z
<1>4. ASSUME NEW z, Held(z, s)' PROVE Held(before(z), s)
  <2>1. CASE z = <<"free", 0>> /\ s \in freeSlots'
    <3>1. before(z) = <<"free", 0>>
      BY <2>1
    <3> QED
      BY <1>1, <2>1, <3>1 DEF Held
  <2>2. ASSUME NEW k \in 1 .. Len(cq'), z = <<"cq", k>>, cq'[k] \in Packets, cq'[k].slot = s
        PROVE  Held(before(z), s)
    <3>1. before(z) = <<"cq", k + 1>>
      BY <2>2
    <3> QED
      BY <1>2, <2>2, <3>1 DEF Held
  <2>3. ASSUME NEW k \in 1 .. Len(wq'), z = <<"wq", k>>, wq'[k] \in Recvs, wq'[k].slot = s
        PROVE  Held(before(z), s)
    <3>1. before(z) = <<"wq", k>>
      BY <2>3
    <3> QED
      BY <1>1, <2>3, <3>1 DEF Held
  <2>4. ASSUME NEW b \in Pending', z = <<"batch", b>>, rpcs'[b] = s
        PROVE  Held(before(z), s)
    <3>1. before(z) = <<"batch", b>>
      BY <2>4
    <3> QED
      BY <1>1, <1>3, <2>4, <3>1 DEF Held
  <2>5. CASE z = <<"hand", 0>> /\ InHand(s)'
    <3>1. before(z) = <<"cq", 1>> /\ 1 \in 1 .. Len(cq)
      BY <1>2, <2>5
    <3>2. cq[1] \in Packets /\ cq[1].slot = s
      <4>1. pc' = "returned" /\ ret' \in Packets /\ ret'.slot = s
        BY <1>1, <2>5 DEF InHand
      <4> QED
        BY <1>1, <4>1
    <3> QED
      BY <3>1, <3>2 DEF Held
  <2> QED
    BY <1>4, <2>1, <2>2, <2>3, <2>4, <2>5 DEF Held
<1>5. before(x) = before(y)
  BY <1>4 DEF HeldOnce
<1>6. x \in Tokens /\ y \in Tokens
  BY HeldTokensNext
<1> QED
  BY <1>5, <1>6 DEF Tokens

(* The packet in hand joins the batch.                                     *)
LEMMA AcceptMovesSlot ==
  ASSUME WorkerInv, WorkerInv', HeldOnce, DispatchPacket
  PROVE  HeldOnce'
<1>1. /\ UNCHANGED <<wq, cq, freeSlots, rpcs>> /\ pc = "dispatch"
      /\ pc' \in {"send", "poll"} /\ batch_counter' = batch_counter + 1
      /\ i' = 0
  BY DEF DispatchPacket, nicVars
<1>2. /\ Pending = 0 .. batch_counter - 1 /\ Pending' = 0 .. batch_counter
      /\ batch_counter \in Nat
  <2>1. batch_counter \in Nat /\ (Processing' => batch_counter' = batch_size')
    BY QueueTypes DEF WorkerInv, BatchInBounds
  <2> QED
    BY <1>1, <2>1 DEF Pending, Processing
<1>3. \A s : ~InHand(s)'
  BY <1>1 DEF InHand
<1> SUFFICES ASSUME NEW s \in RecvSlots, NEW x, NEW y, Held(x, s)', Held(y, s)'
             PROVE  x = y
  BY DEF HeldOnce
<1> DEFINE before(z) == IF z = <<"batch", batch_counter>> THEN <<"hand", 0>> ELSE z
<1>4. ASSUME NEW z, Held(z, s)' PROVE Held(before(z), s) /\ z # <<"hand", 0>>
  <2>1. \/ z = <<"free", 0>> /\ s \in freeSlots
        \/ \E k \in 1 .. Len(cq) : z = <<"cq", k>> /\ cq[k] \in Packets /\ cq[k].slot = s
        \/ \E k \in 1 .. Len(wq) : z = <<"wq", k>> /\ wq[k] \in Recvs /\ wq[k].slot = s
        \/ \E b \in 0 .. batch_counter : z = <<"batch", b>> /\ rpcs[b] = s
    BY <1>1, <1>2, <1>3, <1>4 DEF Held
  <2>2. z # <<"hand", 0>>
    BY <2>1
  <2>3. CASE z = <<"batch", batch_counter>>
    <3>1. rpcs[batch_counter] = s
      BY <2>1, <2>3
    <3> QED
      BY <1>1, <2>2, <2>3, <3>1 DEF Held, InHand
  <2>4. CASE z # <<"batch", batch_counter>>
    <3>1. ASSUME NEW b \in 0 .. batch_counter, z = <<"batch", b>>, rpcs[b] = s
          PROVE  b \in Pending
      BY <1>2, <2>4, <3>1
    <3> QED
      BY <2>1, <2>2, <2>4, <3>1 DEF Held
  <2> QED
    BY <2>3, <2>4
<1>5. before(x) = before(y) /\ x # <<"hand", 0>> /\ y # <<"hand", 0>>
  BY <1>4 DEF HeldOnce
<1> QED
  BY <1>5

(* A posted reply owns no slot.                                            *)
LEMMA SendKeepsSlots ==
  ASSUME WorkerInv, HeldOnce, SendPost
  PROVE  HeldOnce'
<1>1. PICK r : r.op = "SEND" /\ wq' = Append(wq, r)
  BY DEF SendPost, QP!Post
<1>2. UNCHANGED <<cq, freeSlots, rpcs>> /\ Pending' = Pending /\ \A s : ~InHand(s)'
  BY DEF SendPost, QP!Post, Pending, Processing, InHand, batchVars, nicVars
<1>3. /\ Len(wq') = Len(wq) + 1 /\ Len(wq) \in Nat /\ wq'[Len(wq) + 1] = r
      /\ \A k \in 1 .. Len(wq) : wq'[k] = wq[k]
  BY <1>1, QueueTypes, AppendTo
<1>4. ASSUME NEW k \in 1 .. Len(wq'), wq'[k] \in Recvs
      PROVE  k \in 1 .. Len(wq) /\ wq'[k] = wq[k]
  <2>1. k # Len(wq) + 1
    BY <1>1, <1>3, <1>4, SendIsNoRecv
  <2> QED
    BY <1>3, <2>1
<1> SUFFICES ASSUME NEW s \in RecvSlots, NEW x, Held(x, s)' PROVE Held(x, s)
  BY NothingTaken
<1>5. \/ x = <<"free", 0>> /\ s \in freeSlots
      \/ \E k \in 1 .. Len(cq) : x = <<"cq", k>> /\ cq[k] \in Packets /\ cq[k].slot = s
      \/ \E k \in 1 .. Len(wq') : x = <<"wq", k>> /\ wq'[k] \in Recvs /\ wq'[k].slot = s
      \/ \E b \in Pending : x = <<"batch", b>> /\ rpcs[b] = s
  BY <1>2 DEF Held
<1> QED
  BY <1>4, <1>5 DEF Held

(* do_Recv_zsim passes a slot from the batch to the work queue.            *)
LEMMA FreeMovesSlot ==
  ASSUME WorkerInv, HeldOnce, RecvPost
  PROVE  HeldOnce'
<1> DEFINE r == [op |-> "RECV", slot |-> rpcs[i]]
<1>1. /\ wq' = Append(wq, r) /\ pc = "recv" /\ pc' = "send"
      /\ UNCHANGED <<cq, freeSlots, rpcs, batch_size>> /\ i' = i + 1
  BY DEF RecvPost, QP!Post, batchVars, nicVars
<1>2. i \in Nat /\ batch_size \in Nat /\ i < batch_size
  BY <1>1, QueueTypes DEF WorkerInv, BatchInBounds
<1>3. /\ Pending = i .. batch_size - 1 /\ Pending' = i + 1 .. batch_size - 1
      /\ \A s : ~InHand(s)'
  BY <1>1 DEF Pending, Processing, InHand
<1>4. /\ Len(wq') = Len(wq) + 1 /\ Len(wq) \in Nat /\ wq'[Len(wq) + 1].slot = rpcs[i]
      /\ \A k \in 1 .. Len(wq) : wq'[k] = wq[k]
  BY <1>1, QueueTypes, AppendTo
<1> SUFFICES ASSUME NEW s \in RecvSlots, NEW x, NEW y, Held(x, s)', Held(y, s)'
             PROVE  x = y
  BY DEF HeldOnce
<1> DEFINE before(z) == IF z = <<"wq", Len(wq) + 1>> THEN <<"batch", i>> ELSE z
<1>5. ASSUME NEW z, Held(z, s)' PROVE Held(before(z), s) /\ z # <<"batch", i>>
  <2>1. \/ z = <<"free", 0>> /\ s \in freeSlots
        \/ \E k \in 1 .. Len(cq) : z = <<"cq", k>> /\ cq[k] \in Packets /\ cq[k].slot = s
        \/ \E k \in 1 .. Len(wq) + 1 : z = <<"wq", k>> /\ wq'[k] \in Recvs /\ wq'[k].slot = s
        \/ \E b \in i + 1 .. batch_size - 1 : z = <<"batch", b>> /\ rpcs[b] = s
    BY <1>1, <1>3, <1>4, <1>5 DEF Held
  <2>2. z # <<"batch", i>>
    BY <1>2, <2>1
  <2>3. CASE z = <<"wq", Len(wq) + 1>>
    <3>1. rpcs[i] = s /\ i \in Pending
      BY <1>2, <1>3, <1>4, <2>1, <2>3
    <3> QED
      BY <2>2, <2>3, <3>1 DEF Held
  <2>4. CASE z # <<"wq", Len(wq) + 1>>
    <3>1. ASSUME NEW k \in 1 .. Len(wq) + 1, z = <<"wq", k>>
          PROVE  k \in 1 .. Len(wq) /\ wq'[k] = wq[k]
      BY <1>4, <2>4, <3>1
    <3>2. \A b \in i + 1 .. batch_size - 1 : b \in Pending
      BY <1>2, <1>3
    <3> QED
      BY <2>1, <2>2, <2>4, <3>1, <3>2 DEF Held
  <2> QED
    BY <2>3, <2>4
<1>6. before(x) = before(y) /\ x # <<"batch", i>> /\ y # <<"batch", i>>
  BY <1>5 DEF HeldOnce
<1> QED
  BY <1>6

(* A step of the NIC leaves the worker's slots alone.                      *)
LEMMA NicLeavesBatch ==
  ASSUME UNCHANGED <<pc, i, batchVars, pollVars>>
  PROVE  Pending' = Pending /\ rpcs' = rpcs /\ \A s : InHand(s)' <=> InHand(s)
BY DEF Pending, Processing, InHand, batchVars, pollVars

(* The NIC fetches a request; a slot that is freed becomes free.           *)
LEMMA EgressMovesSlot ==
  ASSUME WorkerInv, WorkerInv', HeldOnce, Egress
  PROVE  HeldOnce'
<1>1. /\ wq # <<>> /\ wq' = Tail(wq) /\ cq' = cq /\ UNCHANGED <<pc, i, batchVars, pollVars>>
      /\ \/ freeSlots' = freeSlots /\ Head(wq).op = "SEND"
         \/ freeSlots' = freeSlots \cup {Head(wq).slot} /\ Head(wq).op = "RECV"
  BY DEF Egress, NicTransmit, NicFree, QP!Fetch
<1>2. Pending' = Pending /\ rpcs' = rpcs /\ \A s : InHand(s)' <=> InHand(s)
  BY <1>1, NicLeavesBatch
<1>3. /\ Len(wq) \in Nat \ {0} /\ Len(wq') = Len(wq) - 1 /\ Head(wq) = wq[1]
      /\ \A k \in 1 .. Len(wq') : k + 1 \in 1 .. Len(wq) /\ wq'[k] = wq[k + 1]
  BY <1>1, QueueTypes, TailOf
<1>4. wq[1].op = "RECV" => wq[1] \in Recvs
  BY <1>3, QueueTypes DEF Requests, Sends
<1> SUFFICES ASSUME NEW s \in RecvSlots, NEW x, NEW y, Held(x, s)', Held(y, s)'
             PROVE  x = y
  BY DEF HeldOnce
<1> DEFINE freed == Head(wq).op = "RECV" /\ Head(wq).slot = s
           before(z) == IF z = <<"free", 0>> /\ freed THEN <<"wq", 1>>
                        ELSE IF z[1] = "wq" THEN <<"wq", z[2] + 1>> ELSE z
<1>5. ASSUME NEW z, Held(z, s)' PROVE Held(before(z), s)
  <2>1. CASE z = <<"free", 0>> /\ s \in freeSlots'
    <3>1. CASE freed
      <4>1. before(z) = <<"wq", 1>> /\ 1 \in 1 .. Len(wq)
        BY <1>3, <2>1, <3>1
      <4>2. wq[1] \in Recvs /\ wq[1].slot = s
        BY <1>3, <1>4, <3>1
      <4> QED
        BY <4>1, <4>2 DEF Held
    <3>2. CASE ~freed
      <4>1. before(z) = <<"free", 0>> /\ s \in freeSlots
        BY <1>1, <2>1, <3>2
      <4> QED
        BY <4>1 DEF Held
    <3> QED
      BY <3>1, <3>2
  <2>2. ASSUME NEW k \in 1 .. Len(wq'), z = <<"wq", k>>, wq'[k] \in Recvs, wq'[k].slot = s
        PROVE  Held(before(z), s)
    <3>1. before(z) = <<"wq", k + 1>>
      BY <2>2
    <3> QED
      BY <1>3, <2>2, <3>1 DEF Held
  <2>3. ASSUME NEW k \in 1 .. Len(cq'), z = <<"cq", k>>, cq'[k] \in Packets, cq'[k].slot = s
        PROVE  Held(before(z), s)
    <3>1. before(z) = <<"cq", k>>
      BY <2>3
    <3> QED
      BY <1>1, <2>3, <3>1 DEF Held
  <2>4. ASSUME NEW b \in Pending', z = <<"batch", b>>, rpcs'[b] = s
        PROVE  Held(before(z), s)
    <3>1. before(z) = <<"batch", b>>
      BY <2>4
    <3> QED
      BY <1>2, <2>4, <3>1 DEF Held
  <2>5. CASE z = <<"hand", 0>> /\ InHand(s)'
    <3>1. before(z) = <<"hand", 0>>
      BY <2>5
    <3> QED
      BY <1>2, <2>5, <3>1 DEF Held
  <2> QED
    BY <1>5, <2>1, <2>2, <2>3, <2>4, <2>5 DEF Held
<1>6. before(x) = before(y)
  BY <1>5 DEF HeldOnce
<1>7. x \in Tokens /\ y \in Tokens
  BY HeldTokensNext
<1> HIDE DEF freed
<1> QED
  BY <1>6, <1>7 DEF Tokens

(* The NIC reports a completion; a packet takes its slot along.            *)
LEMMA CompleteMovesSlot ==
  ASSUME WorkerInv, HeldOnce, NEW c, cq' = Append(cq, c), wq' = wq,
         UNCHANGED <<pc, i, batchVars, pollVars>>,
         \/ c \notin Packets /\ freeSlots' = freeSlots
         \/ c \in Packets /\ c.slot \in freeSlots /\ freeSlots' = freeSlots \ {c.slot}
  PROVE  HeldOnce'
<1>1. Pending' = Pending /\ rpcs' = rpcs /\ \A s : InHand(s)' <=> InHand(s)
  BY NicLeavesBatch
<1>2. /\ Len(cq') = Len(cq) + 1 /\ Len(cq) \in Nat /\ cq'[Len(cq) + 1] = c
      /\ \A k \in 1 .. Len(cq) : cq'[k] = cq[k]
  BY QueueTypes, AppendTo
<1> SUFFICES ASSUME NEW s \in RecvSlots, NEW x, NEW y, Held(x, s)', Held(y, s)'
             PROVE  x = y
  BY DEF HeldOnce
<1> DEFINE last == <<"cq", Len(cq) + 1>>
           before(z) == IF z = last THEN <<"free", 0>> ELSE z
<1>3. ASSUME NEW z, Held(z, s)'
      PROVE  /\ Held(before(z), s)
             /\ z = last => s \notin freeSlots'
             /\ z = <<"free", 0>> => s \in freeSlots'
  <2>1. \/ z = <<"free", 0>> /\ s \in freeSlots'
        \/ \E k \in 1 .. Len(cq) + 1 : z = <<"cq", k>> /\ cq'[k] \in Packets /\ cq'[k].slot = s
        \/ \E k \in 1 .. Len(wq) : z = <<"wq", k>> /\ wq[k] \in Recvs /\ wq[k].slot = s
        \/ \E b \in Pending : z = <<"batch", b>> /\ rpcs[b] = s
        \/ z = <<"hand", 0>> /\ InHand(s)
    BY <1>1, <1>2, <1>3 DEF Held
  <2>2. z = <<"free", 0>> => s \in freeSlots'
    BY <2>1
  <2>3. CASE z = last
    <3>1. c \in Packets /\ c.slot = s
      BY <1>2, <2>1, <2>3
    <3> QED
      BY <2>2, <2>3, <3>1 DEF Held
  <2>4. CASE z # last
    <3>1. ASSUME NEW k \in 1 .. Len(cq) + 1, z = <<"cq", k>>
          PROVE  k \in 1 .. Len(cq) /\ cq'[k] = cq[k]
      BY <1>2, <2>4, <3>1
    <3> QED
      BY <2>1, <2>2, <2>4, <3>1 DEF Held
  <2> QED
    BY <2>3, <2>4
<1>4. before(x) = before(y)
  BY <1>3 DEF HeldOnce
<1> QED
  BY <1>3, <1>4

-----------------------------------------------------------------------------
(* Every step keeps the slots apart.                                       *)
LEMMA SlotStep == SlotInv /\ [Next]_vars => SlotInv'
<1> SUFFICES ASSUME SlotInv, [Next]_vars PROVE SlotInv'
  OBVIOUS
<1>1. WorkerInv /\ HeldOnce /\ WorkerInv'
  BY StepInv DEF SlotInv
<1> SUFFICES HeldOnce'
  BY <1>1 DEF SlotInv
<1>2. CASE Receive
  BY <1>1, <1>2, ReceiveKeepsSlots, TakeMovesSlot
<1>3. CASE Dispatch
  BY <1>1, <1>3, LoopKeepsSlots, AcceptMovesSlot DEF Dispatch
<1>4. CASE Process
  BY <1>1, <1>4, LoopKeepsSlots, SendKeepsSlots, FreeMovesSlot DEF Process
<1>5. CASE Egress
  BY <1>1, <1>5, EgressMovesSlot
<1>6. ASSUME NEW s \in RecvSlots, NicDeliver(s) PROVE HeldOnce'
  <2> DEFINE c == [op |-> "RMC_INCOMING_SEND", slot |-> s]
  <2>1. c \in Packets /\ c.slot = s
    BY DEF Packets
  <2>2. cq' = Append(cq, c) /\ wq' = wq /\ UNCHANGED <<pc, i, batchVars, pollVars>>
          /\ s \in freeSlots /\ freeSlots' = freeSlots \ {s}
    BY <1>6 DEF NicDeliver, QP!Complete
  <2> HIDE DEF c
  <2> QED
    BY <1>1, <2>1, <2>2, CompleteMovesSlot
<1>7. CASE NicComplete
  <2>1. RESP \notin Packets /\ DONE \notin Packets
    BY DEF RESP, DONE, Packets
  <2>2. PICK c \in {RESP, DONE} : QP!Complete(c)
    BY <1>7 DEF NicComplete
  <2>3. cq' = Append(cq, c) /\ wq' = wq /\ UNCHANGED <<pc, i, batchVars, pollVars, freeSlots>>
    BY <1>7, <2>2 DEF NicComplete, QP!Complete
  <2> QED
    BY <1>1, <2>1, <2>2, <2>3, CompleteMovesSlot
<1>8. ASSUME UNCHANGED <<wq, cq, pc, i, batchVars, pollVars, freeSlots>> PROVE HeldOnce'
  BY <1>1, <1>8, NicLeavesBatch, OnlyBatch
<1>9. CASE ClientDone \/ UNCHANGED vars
  BY <1>8, <1>9 DEF ClientDone, vars, nicVars
<1> QED
  BY <1>2, <1>3, <1>4, <1>5, <1>6, <1>7, <1>9 DEF Next, WorkerStep, Stopped

(* The inductive invariant holds always.                                   *)
LEMMA SlotInvariant == Spec => []SlotInv
<1>1. Init => SlotInv
  BY InitInv, HeldInit DEF SlotInv
<1> QED
  BY <1>1, SlotStep, PTL DEF Spec

(* No receive slot is ever in two hands, for every number of nodes, queue  *)
(* and batch size and every value of the unassigned payload_len: a packet  *)
(* is not processed twice and the NIC is never told that a slot is free    *)
(* while it is in use.                                                     *)
THEOREM SlotsOwnedOnce == Spec => []SlotOwnedOnce
<1>1. SlotInv => SlotOwnedOnce
  BY HeldOnceIsOwnedOnce DEF SlotInv
<1> QED
  BY <1>1, SlotInvariant, PTL

-----------------------------------------------------------------------------
(* Flow control. *)

(* The work queue has room for a reply and a request to free the slot, for *)
(* every receive slot; with 512 and 256 this is one node.                  *)
QueueCoversSlots == MAX_NUM_WQ >= 2 * (NumNodes * MSGS_PER_PAIR)

(* Replies and freed slots alternate in the work queue. *)
Alternates ==
  /\ \A k \in 1 .. Len(wq) - 1 : wq[k].op # wq[k + 1].op
  /\ wq # <<>> => (wq[Len(wq)].op = "SEND" <=> pc = "recv")

(* A receive that comes back without a packet leaves no slot in hand, or   *)
(* that of a packet which is misread.                                      *)
HandEmpty ==
  pc = "dispatch" /\ payload_len # "OTHER" =>
    rpcs[batch_counter] = NoSlot \/ Misread(rpcs[batch_counter])

(* Somebody owns slot s. *)
Owned(s) ==
  \/ s \in freeSlots
  \/ \E k \in 1 .. Len(cq) : cq[k] \in Packets /\ cq[k].slot = s
  \/ \E k \in 1 .. Len(wq) : wq[k] \in Recvs /\ wq[k].slot = s
  \/ \E b \in Pending : rpcs[b] = s
  \/ InHand(s)

AllOwned == ~client_done => \A s \in RecvSlots : Owned(s) \/ Misread(s)

FlowInv == SlotInv /\ Alternates /\ HandEmpty /\ AllOwned

(* Owned says that there is an owner.                                      *)
LEMMA OwnedHasOwner == ASSUME NEW s, Owned(s) PROVE Owners(s) # {}
<1> SUFFICES \E x : Held(x, s)
  BY OwnersHeld
<1>1. CASE s \in freeSlots
  <2>1. Held(<<"free", 0>>, s)
    BY <1>1 DEF Held
  <2> QED
    BY <2>1
<1>2. ASSUME NEW k \in 1 .. Len(cq), cq[k] \in Packets, cq[k].slot = s PROVE \E x : Held(x, s)
  <2>1. Held(<<"cq", k>>, s)
    BY <1>2 DEF Held
  <2> QED
    BY <2>1
<1>3. ASSUME NEW k \in 1 .. Len(wq), wq[k] \in Recvs, wq[k].slot = s PROVE \E x : Held(x, s)
  <2>1. Held(<<"wq", k>>, s)
    BY <1>3 DEF Held
  <2> QED
    BY <2>1
<1>4. ASSUME NEW b \in Pending, rpcs[b] = s PROVE \E x : Held(x, s)
  <2>1. Held(<<"batch", b>>, s)
    BY <1>4 DEF Held
  <2> QED
    BY <2>1
<1>5. CASE InHand(s)
  <2>1. Held(<<"hand", 0>>, s)
    BY <1>5 DEF Held
  <2> QED
    BY <2>1
<1> QED
  BY <1>1, <1>2, <1>3, <1>4, <1>5 DEF Owned

(* The receive slots are finitely many. *)
LEMMA SlotsFinite ==
  /\ IsFiniteSet(RecvSlots)
  /\ Cardinality(RecvSlots) = NumNodes * MSGS_PER_PAIR
<1> DEFINE M == 0 .. MSGS_PER_PAIR - 1
<1>1. IsFiniteSet(Nodes) /\ Cardinality(Nodes) = NumNodes
  BY Constants, FS_Interval DEF Nodes
<1>2. IsFiniteSet(M) /\ Cardinality(M) = MSGS_PER_PAIR
  BY Constants, FS_Interval
<1> HIDE DEF M
<1>3. IsFiniteSet(Nodes \X M) /\ Cardinality(Nodes \X M) = Cardinality(Nodes) * Cardinality(M)
  BY <1>1, <1>2, FS_Product
<1> QED
  BY <1>1, <1>2, <1>3 DEF M, RecvSlots

(* Requests are of one of two kinds.                                       *)
LEMMA TwoKinds ==
  ASSUME WorkerInv, NEW k \in 1 .. Len(wq)
  PROVE  /\ wq[k].op \in {"SEND", "RECV"}
         /\ wq[k].op = "RECV" => wq[k] \in Recvs /\ wq[k].slot \in RecvSlots
<1>1. wq[k] \in Requests
  BY QueueTypes
<1> QED
  BY <1>1 DEF Requests, Sends, Recvs

(* Two slots that are owned under different names are different.           *)
LEMMA TokensDiffer ==
  ASSUME HeldOnce, NEW s \in RecvSlots, NEW x, NEW y, Held(x, s), Held(y, s)
  PROVE  x = y
BY DEF HeldOnce

(* When a slot is to be freed the work queue has room for it: the queue    *)
(* would otherwise hold requests to free as many different slots as there  *)
(* are, and this one is still in the batch.                                *)
LEMMA RoomToFree ==
  ASSUME QueueCoversSlots, SlotInv, Alternates, pc = "recv"
  PROVE  ~QP!Full
<1> DEFINE R == Cardinality(RecvSlots)
           place(j) == IF wq[2 * j].op = "RECV" THEN 2 * j ELSE 2 * j - 1
           slot(j) == IF j = 0 THEN rpcs[i] ELSE wq[place(j)].slot
           token(j) == IF j = 0 THEN <<"batch", i>> ELSE <<"wq", place(j)>>
           f == [j \in 0 .. R |-> slot(j)]
<1>1. WorkerInv /\ HeldOnce
  BY DEF SlotInv
<1>2. R \in Nat /\ MAX_NUM_WQ >= 2 * R /\ MAX_NUM_WQ \in Nat /\ IsFiniteSet(RecvSlots)
  BY SlotsFinite, FS_CardinalityType, Constants DEF QueueCoversSlots
<1> HIDE DEF R
<1> SUFFICES ASSUME Len(wq) >= MAX_NUM_WQ PROVE FALSE
  BY <1>1, <1>2, QueueTypes DEF QP!Full
<1>3. Len(wq) \in Nat /\ i \in Pending /\ rpcs[i] \in RecvSlots
  <2>1. /\ i < batch_size /\ batch_counter = batch_size
        /\ \A b \in 0 .. batch_counter - 1 : rpcs[b] \in RecvSlots
    BY <1>1 DEF WorkerInv, BatchInBounds, Processing
  <2> QED
    BY <1>1, <2>1, QueueTypes DEF Pending, Processing
<1>4. ASSUME NEW j \in 1 .. R
      PROVE  /\ place(j) \in 1 .. Len(wq) /\ place(j) \in {2 * j, 2 * j - 1}
             /\ wq[place(j)] \in Recvs /\ wq[place(j)].slot \in RecvSlots
  <2>1. /\ 2 * j \in 1 .. Len(wq) /\ 2 * j - 1 \in 1 .. Len(wq) /\ 2 * j - 1 \in 1 .. Len(wq) - 1
        /\ (2 * j - 1) + 1 = 2 * j
    BY <1>2, <1>3
  <2>2. wq[2 * j - 1].op # wq[2 * j].op
    BY <2>1 DEF Alternates
  <2>3. wq[2 * j].op \in {"SEND", "RECV"} /\ wq[2 * j - 1].op \in {"SEND", "RECV"}
    BY <1>1, <2>1, TwoKinds
  <2>4. place(j) \in 1 .. Len(wq) /\ place(j) \in {2 * j, 2 * j - 1} /\ wq[place(j)].op = "RECV"
    BY <2>1, <2>2, <2>3
  <2> HIDE DEF place
  <2> QED
    BY <1>1, <2>4, TwoKinds
<1>5. ASSUME NEW j \in 0 .. R
      PROVE  slot(j) \in RecvSlots /\ Held(token(j), slot(j))
  <2>1. CASE j = 0
    BY <1>3, <2>1 DEF Held
  <2>2. CASE j # 0
    <3>1. j \in 1 .. R
      BY <1>2, <2>2
    <3> HIDE DEF place
    <3> QED
      BY <1>4, <2>2, <3>1 DEF Held
  <2> QED
    BY <2>1, <2>2
<1>6. ASSUME NEW x \in 0 .. R, NEW y \in 0 .. R, token(x) = token(y) PROVE x = y
  <2>1. \A j \in 0 .. R : j # 0 => place(j) \in {2 * j, 2 * j - 1}
    BY <1>2, <1>4
  <2> HIDE DEF place
  <2> QED
    BY <1>2, <1>6, <2>1
<1> HIDE DEF slot, token
<1>7. PICK x, y \in 0 .. R : x # y /\ f[x] = f[y]
  <2>1. f \in [0 .. R -> RecvSlots]
    BY <1>5
  <2>2. IsFiniteSet(0 .. R) /\ Cardinality(0 .. R) = R + 1
    BY <1>2, FS_Interval
  <2>3. Cardinality(RecvSlots) < Cardinality(0 .. R)
    BY <1>2, <2>2 DEF R
  <2> HIDE DEF f
  <2> QED
    BY <1>2, <2>1, <2>2, <2>3, FS_PigeonHole
<1>8. slot(x) = slot(y)
  BY <1>7
<1>9. token(x) = token(y)
  BY <1>1, <1>5, <1>8, TokensDiffer
<1> QED
  BY <1>6, <1>7, <1>9

(* Hence no slot is dropped. *)
LEMMA NothingDropped == QueueCoversSlots /\ FlowInv => ~RecvDropped
BY RoomToFree DEF FlowInv, RecvDropped

(* An element of the other kind is added to the queue.                     *)
LEMMA AlternatesPost ==
  ASSUME WorkerInv, Alternates, NEW r, wq' = Append(wq, r), r.op \in {"SEND", "RECV"},
         r.op = "SEND" <=> pc # "recv", pc' = "recv" <=> pc # "recv"
  PROVE  Alternates'
<1>1. wq \in Seq(Requests) /\ Len(wq) \in Nat /\ ((wq = <<>>) <=> (Len(wq) = 0))
  BY QueueTypes
<1>2. /\ Len(wq') = Len(wq) + 1 /\ wq'[Len(wq) + 1] = r /\ wq' # <<>>
      /\ \A k \in 1 .. Len(wq) : wq'[k] = wq[k]
  BY <1>1, AppendTo
<1>3. ASSUME NEW k \in 1 .. Len(wq') - 1 PROVE wq'[k].op # wq'[k + 1].op
  <2>1. CASE k = Len(wq)
    <3>1. wq # <<>> /\ wq'[k] = wq[Len(wq)] /\ wq'[k + 1] = r
      BY <1>1, <1>2, <1>3, <2>1
    <3>2. wq[Len(wq)].op \in {"SEND", "RECV"}
      BY <1>1, <3>1, TwoKinds
    <3> QED
      BY <3>1, <3>2 DEF Alternates
  <2>2. CASE k # Len(wq)
    <3>1. k \in 1 .. Len(wq) - 1 /\ k \in 1 .. Len(wq) /\ k + 1 \in 1 .. Len(wq)
      BY <1>1, <1>2, <1>3, <2>2
    <3> QED
      BY <1>2, <3>1 DEF Alternates
  <2> QED
    BY <2>1, <2>2
<1>4. wq'[Len(wq')].op = "SEND" <=> pc' = "recv"
  BY <1>2
<1> QED
  BY <1>3, <1>4 DEF Alternates

(* Replies and freed slots keep alternating.                               *)
LEMMA AlternatesStep ==
  ASSUME WorkerInv, Alternates, ~RecvDropped, [Next]_vars
  PROVE  Alternates'
<1>1. CASE SendPost
  <2>1. PICK r : wq' = Append(wq, r) /\ r.op = "SEND"
    BY <1>1 DEF SendPost, QP!Post
  <2>2. pc = "post" /\ pc' = "recv"
    BY <1>1 DEF SendPost
  <2> QED
    BY <2>1, <2>2, AlternatesPost
<1>2. CASE RecvPost
  <2>1. PICK r : wq' = Append(wq, r) /\ r.op = "RECV"
    BY <1>2 DEF RecvPost, QP!Post
  <2>2. pc = "recv" /\ pc' = "send"
    BY <1>2 DEF RecvPost
  <2> QED
    BY <2>1, <2>2, AlternatesPost
<1>3. CASE Egress
  <2>1. wq # <<>> /\ wq' = Tail(wq) /\ pc' = pc /\ wq \in Seq(Requests)
    BY <1>3, QueueTypes DEF Egress, NicTransmit, NicFree, QP!Fetch
  <2>2. /\ Len(wq) \in Nat \ {0} /\ Len(wq') = Len(wq) - 1
        /\ \A k \in 1 .. Len(wq') : k + 1 \in 1 .. Len(wq) /\ wq'[k] = wq[k + 1]
    BY <2>1, TailOf
  <2>3. ASSUME NEW k \in 1 .. Len(wq') - 1 PROVE wq'[k].op # wq'[k + 1].op
    <3>1. k \in 1 .. Len(wq') /\ k + 1 \in 1 .. Len(wq') /\ k + 1 \in 1 .. Len(wq) - 1
      BY <2>2, <2>3
    <3>2. wq'[k] = wq[k + 1] /\ wq'[k + 1] = wq[(k + 1) + 1]
      BY <2>2, <3>1
    <3> QED
      BY <3>1, <3>2 DEF Alternates
  <2>4. ASSUME wq' # <<>> PROVE wq'[Len(wq')].op = "SEND" <=> pc = "recv"
    <3>1. Len(wq') # 0
      BY <2>1, <2>4
    <3>2. Len(wq') \in 1 .. Len(wq') /\ Len(wq') + 1 = Len(wq)
      BY <2>2, <3>1
    <3>3. wq'[Len(wq')] = wq[Len(wq)]
      BY <2>2, <3>2
    <3> QED
      BY <2>1, <3>3 DEF Alternates
  <2> QED
    BY <2>1, <2>3, <2>4 DEF Alternates
<1>4. ASSUME ~SendPost, ~RecvPost, ~Egress PROVE wq' = wq /\ (pc' = "recv" <=> pc = "recv")
  BY <1>4 DEF Next, WorkerStep, Receive, Dispatch, Process, PollTimeout, PollCheck, CheckOuter,
     CheckTake, CheckEmpty, ReceiveRetry, ReceiveDone, ReceivePacket, WorkerExit,
     DispatchPacket, DispatchTimeout, SendHeader, BatchDone,
     NicDeliver, NicComplete, ClientDone, Stopped, vars, QP!Take, QP!Complete
<1>5. CASE ~SendPost /\ ~RecvPost /\ ~Egress
  BY <1>4, <1>5 DEF Alternates
<1> QED
  BY <1>1, <1>2, <1>3, <1>5

(* The history of misread packets only grows, by a packet receive returned *)
(* with one of the two codes.                                              *)
LEMMA MisreadStep ==
  ASSUME WorkerInv, [Next]_vars
  PROVE  \/ misread' = misread /\ (ReceivePacket => payload_len' = "OTHER")
         \/ /\ ReceivePacket /\ payload_len' # "OTHER" /\ ret.slot \in RecvSlots
            /\ misread' = Append(misread, ret.slot)
<1>1. CASE ReceivePacket
  BY <1>1, CompletionKinds DEF ReceivePacket
<1>2. CASE ~ReceivePacket
  BY <1>2 DEF Next, WorkerStep, Receive, Dispatch, Process, PollTimeout, PollCheck, CheckOuter,
     CheckTake, CheckEmpty, ReceiveRetry, ReceiveDone, WorkerExit, DispatchPacket, DispatchTimeout,
     SendHeader, SendPost, RecvPost, RecvDropped, BatchDone, Egress, NicTransmit, NicFree,
     NicDeliver, NicComplete, ClientDone, Stopped, vars, batchVars
<1> QED
  BY <1>1, <1>2

(* A slot that was misread remains so. *)
LEMMA MisreadKept ==
  ASSUME WorkerInv, [Next]_vars
  PROVE  /\ \A s : Misread(s) => Misread(s)'
         /\ ReceivePacket /\ payload_len' # "OTHER" => Misread(ret.slot)'
<1>1. misread \in Seq(RecvSlots) /\ Len(misread) \in Nat
  BY DEF WorkerInv, TypeOK
<1>2. CASE misread' = misread /\ (ReceivePacket => payload_len' = "OTHER")
  BY <1>2 DEF Misread
<1>3. CASE /\ ReceivePacket /\ payload_len' # "OTHER" /\ ret.slot \in RecvSlots
           /\ misread' = Append(misread, ret.slot)
  <2>1. /\ Len(misread') = Len(misread) + 1 /\ misread'[Len(misread) + 1] = ret.slot
        /\ \A k \in 1 .. Len(misread) : misread'[k] = misread[k]
    BY <1>1, <1>3, AppendTo
  <2>2. /\ Len(misread) + 1 \in 1 .. Len(misread')
        /\ \A k \in 1 .. Len(misread) : k \in 1 .. Len(misread')
    BY <1>1, <2>1
  <2>3. ASSUME NEW s, Misread(s) PROVE Misread(s)'
    BY <2>1, <2>2, <2>3 DEF Misread
  <2>4. (\E k \in 1 .. Len(misread') : misread'[k] = ret.slot)
    BY <2>1, <2>2
  <2> QED
    BY <2>3, <2>4, <1>3 DEF Misread, ReceivePacket
<1> QED
  BY <1>2, <1>3, MisreadStep

(* Only a packet that counts is left in hand.                              *)
LEMMA HandEmptyStep ==
  ASSUME WorkerInv, HandEmpty, [Next]_vars
  PROVE  HandEmpty'
<1>1. CASE PollTimeout \/ ReceiveDone
  <2>1. batch_counter \in Batch /\ rpcs \in [Batch -> RecvSlots \cup {NoSlot}]
    <3>1. pc \in {"poll", "returned"}
      BY <1>1 DEF PollTimeout, ReceiveDone
    <3>2. batch_counter < BatchSize
      BY <3>1 DEF WorkerInv, BatchInBounds, Processing
    <3> QED
      BY <3>2, QueueTypes, Constants DEF WorkerInv, TypeOK, Batch
  <2>2. rpcs' = [rpcs EXCEPT ![batch_counter] = NoSlot] /\ batch_counter' = batch_counter
    BY <1>1 DEF PollTimeout, ReceiveDone
  <2> QED
    BY <2>1, <2>2 DEF HandEmpty
<1>2. CASE ReceivePacket
  <2>1. batch_counter \in Batch /\ rpcs \in [Batch -> RecvSlots \cup {NoSlot}]
    <3>1. pc = "returned"
      BY <1>2 DEF ReceivePacket
    <3>2. batch_counter < BatchSize
      BY <3>1 DEF WorkerInv, BatchInBounds, Processing
    <3> QED
      BY <3>2, QueueTypes, Constants DEF WorkerInv, TypeOK, Batch
  <2>2. /\ rpcs' = [rpcs EXCEPT ![batch_counter] = ret.slot]
        /\ batch_counter' = batch_counter /\ ret' = ret
    BY <1>2 DEF ReceivePacket
  <2>3. rpcs'[batch_counter'] = ret.slot
    BY <2>1, <2>2
  <2>4. payload_len' # "OTHER" => \E k \in 1 .. Len(misread') : misread'[k] = ret.slot
    BY <1>2, <2>2, MisreadKept DEF Misread
  <2> QED
    BY <2>3, <2>4 DEF HandEmpty, Misread
<1>3. ASSUME ~PollTimeout, ~ReceiveDone, ~ReceivePacket
      PROVE  pc' # "dispatch" \/ UNCHANGED <<pc, payload_len, rpcs, batch_counter>>
  BY <1>3 DEF Next, WorkerStep, Receive, Dispatch, Process, PollCheck, CheckOuter,
     CheckTake, CheckEmpty, ReceiveRetry, WorkerExit, DispatchPacket, DispatchTimeout,
     SendHeader, SendPost, RecvPost, RecvDropped, BatchDone, Egress, NicTransmit, NicFree,
     NicDeliver, NicComplete, ClientDone, Stopped, vars, pollVars, batchVars
<1>4. CASE ~PollTimeout /\ ~ReceiveDone /\ ~ReceivePacket
  <2>1. misread' = misread
    BY <1>4, MisreadStep
  <2> QED
    BY <1>3, <1>4, <2>1 DEF HandEmpty, Misread
<1> QED
  BY <1>1, <1>2, <1>4

(* A step that leaves the queues and the free slots alone keeps a slot     *)
(* owned if the batch and the hand do.                                     *)
LEMMA BatchKeepsOwned ==
  ASSUME NEW s, Owned(s), UNCHANGED <<wq, cq, freeSlots>>,
         \A b \in Pending : rpcs[b] = s => b \in Pending' /\ rpcs'[b] = s,
         InHand(s) => InHand(s)' \/ \E b \in Pending' : rpcs'[b] = s
  PROVE  Owned(s)'
BY DEF Owned

(* No step of the worker that leaves the queues alone loses a slot: what   *)
(* is in hand is a packet, and goes on to the batch, or is misread.        *)
LEMMA LoopKeepsOwned ==
  ASSUME WorkerInv, WorkerInv', HandEmpty, NEW s \in RecvSlots, Owned(s), ~Misread(s),
         WorkerStep, ~CheckTake, ~ReceiveDone, ~SendPost, ~RecvPost, ~RecvDropped
  PROVE  Owned(s)'
<1>1. /\ batch_counter \in Nat /\ batch_size \in Nat /\ i \in Nat
      /\ Processing => batch_counter = batch_size /\ i <= batch_size
      /\ rpcs \in [Batch -> RecvSlots \cup {NoSlot}]
      /\ ~Processing /\ pc # "exit" => batch_counter \in Batch
  <2>1. batch_counter \in Nat /\ batch_size \in Nat /\ i \in Nat
    BY QueueTypes
  <2>2. rpcs \in [Batch -> RecvSlots \cup {NoSlot}]
    BY DEF WorkerInv, TypeOK
  <2>3. BatchInBounds
    BY DEF WorkerInv
  <2>4. ~Processing /\ pc # "exit" => batch_counter \in Batch
    BY <2>1, <2>3, Constants DEF BatchInBounds, Batch
  <2> QED
    BY <2>1, <2>2, <2>3, <2>4 DEF BatchInBounds
<1>2. CASE PollCheck \/ CheckOuter \/ CheckEmpty \/ ReceiveRetry
  <2>1. /\ UNCHANGED <<wq, cq, freeSlots, rpcs, batch_counter>>
        /\ ~Processing /\ ~Processing' /\ pc # "dispatch"
        /\ pc = "returned" => ret \notin Packets
    BY <1>2 DEF PollCheck, CheckOuter, CheckEmpty, ReceiveRetry, Processing, batchVars, nicVars
  <2>2. Pending' = Pending /\ ~InHand(s)
    BY <2>1 DEF Pending, InHand
  <2> QED
    BY <2>1, <2>2, BatchKeepsOwned
<1>3. CASE PollTimeout \/ ReceivePacket
  <2>1. PICK v : rpcs' = [rpcs EXCEPT ![batch_counter] = v] /\ (pc = "returned" => v = ret.slot)
    BY <1>3 DEF PollTimeout, ReceivePacket
  <2>2. /\ UNCHANGED <<wq, cq, freeSlots, batch_counter>> /\ pc' = "dispatch"
        /\ pc \in {"poll", "returned"}
    BY <1>3 DEF PollTimeout, ReceivePacket, nicVars
  <2>3. batch_counter \in Batch /\ Pending = 0 .. batch_counter - 1 /\ Pending' = Pending
    BY <1>1, <2>2 DEF Pending, Processing
  <2>4. \A b \in Pending : rpcs[b] = s => b \in Pending' /\ rpcs'[b] = s
    BY <1>1, <2>1, <2>3 DEF Batch
  <2>5. InHand(s) => InHand(s)'
    <3>1. rpcs'[batch_counter'] = v
      BY <1>1, <2>1, <2>2, <2>3
    <3> QED
      BY <2>1, <2>2, <3>1 DEF InHand
  <2> QED
    BY <2>2, <2>4, <2>5, BatchKeepsOwned
<1>4. CASE WorkerExit \/ DispatchTimeout
  <2>1. /\ UNCHANGED <<wq, cq, freeSlots, rpcs, batch_counter>>
        /\ pc = "dispatch" /\ payload_len # "OTHER"
        /\ pc' = "exit" \/ (pc' = "send" /\ i' = 0 /\ batch_size' = batch_counter)
    BY <1>4 DEF WorkerExit, DispatchTimeout, batchVars, nicVars
  <2>2. Pending' = Pending
    BY <2>1 DEF Pending, Processing
  <2>3. ~InHand(s)
    BY <2>1, NoSlotIsNoSlot DEF HandEmpty, InHand
  <2> QED
    BY <2>1, <2>2, <2>3, BatchKeepsOwned
<1>5. CASE DispatchPacket
  <2>1. /\ UNCHANGED <<wq, cq, freeSlots, rpcs>> /\ pc = "dispatch"
        /\ pc' \in {"send", "poll"} /\ batch_counter' = batch_counter + 1 /\ i' = 0
    BY <1>5 DEF DispatchPacket, nicVars
  <2>2. Pending = 0 .. batch_counter - 1 /\ Pending' = 0 .. batch_counter
    <3>1. Processing' => batch_counter' = batch_size'
      BY DEF WorkerInv, BatchInBounds
    <3> QED
      BY <1>1, <2>1, <3>1 DEF Pending, Processing
  <2>3. \A b \in Pending : b \in Pending'
    BY <1>1, <2>2
  <2>4. InHand(s) => \E b \in Pending' : rpcs'[b] = s
    BY <1>1, <2>1, <2>2 DEF InHand
  <2> QED
    BY <2>1, <2>3, <2>4, BatchKeepsOwned
<1>6. CASE SendHeader \/ BatchDone
  <2>1. /\ UNCHANGED <<wq, cq, freeSlots, rpcs>> /\ pc = "send"
        /\ \/ pc' = "post" /\ UNCHANGED <<i, batch_size>>
           \/ i >= batch_size
    BY <1>6 DEF SendHeader, BatchDone, batchVars, nicVars
  <2>2. ~InHand(s) /\ Pending = i .. batch_size - 1
    BY <2>1 DEF InHand, Pending, Processing
  <2>3. \A b \in Pending : b \in Pending'
    BY <1>1, <2>1, <2>2 DEF Pending, Processing
  <2> QED
    BY <2>1, <2>2, <2>3, BatchKeepsOwned
<1> QED
  BY <1>2, <1>3, <1>4, <1>5, <1>6 DEF WorkerStep, Receive, Dispatch, Process

(* rmc_check_cq hands a packet over with its slot.                         *)
LEMMA TakeKeepsOwned ==
  ASSUME WorkerInv, NEW s \in RecvSlots, Owned(s), CheckTake
  PROVE  Owned(s)'
<1>1. /\ cq # <<>> /\ cq' = Tail(cq) /\ pc = "inner" /\ cq \in Seq(Completions)
      /\ UNCHANGED <<wq, freeSlots, rpcs, batch_counter>>
      /\ ~Processing /\ ~Processing'
      /\ Head(cq) # DONE => pc' = "returned" /\ ret' = Head(cq)
  BY QueueTypes DEF CheckTake, QP!Take, Processing, batchVars, nicVars
<1>2. /\ Len(cq) \in Nat \ {0} /\ Len(cq') = Len(cq) - 1 /\ Head(cq) = cq[1]
      /\ \A k \in 1 .. Len(cq') : k + 1 \in 1 .. Len(cq) /\ cq'[k] = cq[k + 1]
  BY <1>1, TailOf
<1>3. Pending' = Pending /\ ~InHand(s)
  BY <1>1 DEF Pending, InHand
<1>4. ASSUME NEW k \in 1 .. Len(cq), cq[k] \in Packets, cq[k].slot = s PROVE Owned(s)'
  <2>1. CASE k = 1
    <3>1. Head(cq) # DONE
      BY <1>2, <1>4, <2>1 DEF DONE, Packets
    <3> QED
      BY <1>1, <1>2, <1>4, <2>1, <3>1 DEF Owned, InHand
  <2>2. CASE k # 1
    <3>1. k - 1 \in 1 .. Len(cq') /\ (k - 1) + 1 = k
      BY <1>2, <2>2
    <3>2. cq'[k - 1] = cq[k]
      BY <1>2, <3>1
    <3> QED
      BY <1>4, <3>1, <3>2 DEF Owned
  <2> QED
    BY <2>1, <2>2
<1> QED
  BY <1>1, <1>3, <1>4 DEF Owned

(* A post keeps what the queue holds, and the slot it frees.               *)
LEMMA PostKeepsOwned ==
  ASSUME WorkerInv, NEW s \in RecvSlots, Owned(s), SendPost \/ RecvPost
  PROVE  Owned(s)'
<1> DEFINE r == [op |-> "RECV", slot |-> rpcs[i]]
<1>1. PICK e : wq' = Append(wq, e) /\ (RecvPost => e = r)
  BY DEF SendPost, RecvPost, QP!Post
<1> HIDE DEF r
<1>2. /\ UNCHANGED <<cq, freeSlots, rpcs, batch_size>> /\ pc \in {"post", "recv"}
      /\ pc' \in {"send", "recv"} /\ (i' = i \/ (i' = i + 1 /\ RecvPost))
  BY DEF SendPost, RecvPost, QP!Post, batchVars, nicVars
<1>3. /\ Len(wq') = Len(wq) + 1 /\ Len(wq) \in Nat /\ wq'[Len(wq) + 1] = e
      /\ \A k \in 1 .. Len(wq) : wq'[k] = wq[k]
  BY <1>1, QueueTypes, AppendTo
<1>4. /\ Pending = i .. batch_size - 1 /\ Pending' = i' .. batch_size - 1 /\ ~InHand(s)
      /\ i \in Nat /\ batch_size \in Nat
  BY <1>2, QueueTypes DEF Pending, Processing, InHand
<1>5. ASSUME NEW k \in 1 .. Len(wq), wq[k] \in Recvs, wq[k].slot = s PROVE Owned(s)'
  <2>1. k \in 1 .. Len(wq') /\ wq'[k] = wq[k]
    BY <1>3
  <2> QED
    BY <1>5, <2>1 DEF Owned
<1>6. ASSUME NEW b \in Pending, rpcs[b] = s PROVE Owned(s)'
  <2>1. CASE b \in Pending'
    BY <1>2, <1>6, <2>1 DEF Owned
  <2>2. CASE b \notin Pending'
    <3>1. b = i /\ RecvPost
      BY <1>2, <1>4, <2>2
    <3>2. r \in Recvs /\ r.slot = s
      BY <1>6, <3>1 DEF Recvs, r
    <3>3. Len(wq) + 1 \in 1 .. Len(wq') /\ wq'[Len(wq) + 1] = r
      BY <1>1, <1>3, <3>1
    <3> QED
      BY <3>2, <3>3 DEF Owned
  <2> QED
    BY <2>1, <2>2
<1> QED
  BY <1>2, <1>4, <1>5, <1>6 DEF Owned

(* What the NIC fetches to free becomes free.                              *)
LEMMA EgressKeepsOwned ==
  ASSUME WorkerInv, NEW s \in RecvSlots, Owned(s), Egress
  PROVE  Owned(s)'
<1>1. /\ wq # <<>> /\ wq' = Tail(wq) /\ cq' = cq /\ UNCHANGED <<pc, i, batchVars, pollVars>>
      /\ \/ freeSlots' = freeSlots /\ Head(wq).op = "SEND"
         \/ freeSlots' = freeSlots \cup {Head(wq).slot} /\ Head(wq).op = "RECV"
  BY DEF Egress, NicTransmit, NicFree, QP!Fetch
<1>2. Pending' = Pending /\ rpcs' = rpcs /\ (InHand(s)' <=> InHand(s))
  BY <1>1, NicLeavesBatch
<1>3. /\ Len(wq) \in Nat \ {0} /\ Len(wq') = Len(wq) - 1 /\ Head(wq) = wq[1]
      /\ \A k \in 1 .. Len(wq') : k + 1 \in 1 .. Len(wq) /\ wq'[k] = wq[k + 1]
  BY <1>1, QueueTypes, TailOf
<1>4. ASSUME NEW k \in 1 .. Len(wq), wq[k] \in Recvs, wq[k].slot = s PROVE Owned(s)'
  <2>1. CASE k = 1
    <3>1. wq[1].op = "RECV" /\ wq[1].slot = s
      BY <1>4, <2>1, SendIsNoRecv
    <3>2. s \in freeSlots'
      BY <1>1, <1>3, <3>1
    <3> QED
      BY <3>2 DEF Owned
  <2>2. CASE k # 1
    <3>1. k - 1 \in 1 .. Len(wq') /\ (k - 1) + 1 = k
      BY <1>3, <2>2
    <3>2. wq'[k - 1] = wq[k]
      BY <1>3, <3>1
    <3> QED
      BY <1>4, <3>1, <3>2 DEF Owned
  <2> QED
    BY <2>1, <2>2
<1>5. s \in freeSlots => s \in freeSlots'
  BY <1>1
<1> QED
  BY <1>1, <1>2, <1>4, <1>5 DEF Owned

(* A completion keeps what the queue holds, and the slot of its packet.    *)
LEMMA CompleteKeepsOwned ==
  ASSUME WorkerInv, NEW s \in RecvSlots, Owned(s), NEW c, cq' = Append(cq, c), wq' = wq,
         UNCHANGED <<pc, i, batchVars, pollVars>>,
         \/ freeSlots' = freeSlots
         \/ c \in Packets /\ freeSlots' = freeSlots \ {c.slot}
  PROVE  Owned(s)'
<1>1. Pending' = Pending /\ rpcs' = rpcs /\ (InHand(s)' <=> InHand(s))
  BY NicLeavesBatch
<1>2. /\ Len(cq') = Len(cq) + 1 /\ Len(cq) \in Nat /\ cq'[Len(cq) + 1] = c
      /\ \A k \in 1 .. Len(cq) : cq'[k] = cq[k]
  BY QueueTypes, AppendTo
<1>3. ASSUME NEW k \in 1 .. Len(cq), cq[k] \in Packets, cq[k].slot = s PROVE Owned(s)'
  <2>1. k \in 1 .. Len(cq') /\ cq'[k] = cq[k]
    BY <1>2
  <2> QED
    BY <1>3, <2>1 DEF Owned
<1>4. CASE s \in freeSlots
  <2>1. CASE s \in freeSlots'
    BY <2>1 DEF Owned
  <2>2. CASE s \notin freeSlots'
    <3>1. c \in Packets /\ c.slot = s
      BY <1>4, <2>2
    <3>2. Len(cq) + 1 \in 1 .. Len(cq')
      BY <1>2
    <3> QED
      BY <1>2, <3>1, <3>2 DEF Owned
  <2> QED
    BY <2>1, <2>2
<1> QED
  BY <1>1, <1>3, <1>4 DEF Owned

(* As long as the client is not done, no step loses a slot but by          *)
(* misreading its packet.                                                  *)
LEMMA AllOwnedStep ==
  ASSUME WorkerInv, WorkerInv', HandEmpty, AllOwned, ~RecvDropped, [Next]_vars
  PROVE  AllOwned'
<1> SUFFICES ASSUME ~client_done', NEW s \in RecvSlots, ~Misread(s)' PROVE Owned(s)'
  BY DEF AllOwned
<1>1. ~client_done
  BY DEF Next, WorkerStep, Receive, Dispatch, Process, PollTimeout, PollCheck, CheckOuter,
     CheckTake, CheckEmpty, ReceiveRetry, ReceiveDone, ReceivePacket, WorkerExit,
     DispatchPacket, DispatchTimeout, SendHeader, SendPost, RecvPost, RecvDropped, BatchDone,
     Egress, NicTransmit, NicFree, NicDeliver, NicComplete, ClientDone, Stopped, vars, nicVars
<1>2. Owned(s) /\ ~Misread(s) /\ ~ReceiveDone
  BY <1>1, MisreadKept DEF AllOwned, ReceiveDone
<1>3. CASE WorkerStep
  BY <1>2, <1>3, LoopKeepsOwned, TakeKeepsOwned, PostKeepsOwned
<1>4. CASE Egress
  BY <1>2, <1>4, EgressKeepsOwned
<1>5. ASSUME NEW t \in RecvSlots, NicDeliver(t) PROVE Owned(s)'
  <2> DEFINE c == [op |-> "RMC_INCOMING_SEND", slot |-> t]
  <2>1. c \in Packets /\ c.slot = t
    BY DEF Packets
  <2>2. cq' = Append(cq, c) /\ wq' = wq /\ UNCHANGED <<pc, i, batchVars, pollVars>>
          /\ freeSlots' = freeSlots \ {t}
    BY <1>5 DEF NicDeliver, QP!Complete
  <2> HIDE DEF c
  <2> QED
    BY <1>2, <2>1, <2>2, CompleteKeepsOwned
<1>6. CASE NicComplete
  <2>1. PICK c \in {RESP, DONE} : QP!Complete(c)
    BY <1>6 DEF NicComplete
  <2>2. cq' = Append(cq, c) /\ wq' = wq /\ UNCHANGED <<pc, i, batchVars, pollVars, freeSlots>>
    BY <1>6, <2>1 DEF NicComplete, QP!Complete
  <2> QED
    BY <1>2, <2>2, CompleteKeepsOwned
<1>7. CASE ClientDone
  BY <1>7 DEF ClientDone
<1>8. CASE UNCHANGED vars
  <2>1. /\ UNCHANGED <<wq, cq, freeSlots, rpcs>> /\ Pending' = Pending
        /\ InHand(s)' <=> InHand(s)
    BY <1>8, NicLeavesBatch DEF vars, nicVars, batchVars
  <2> QED
    BY <1>2, <2>1 DEF Owned
<1> QED
  BY <1>3, <1>4, <1>5, <1>6, <1>7, <1>8 DEF Next, Stopped

(* The inductive invariant of flow control holds at the start ...          *)
LEMMA FlowInit == Init => FlowInv
<1> SUFFICES ASSUME Init PROVE FlowInv
  OBVIOUS
<1>1. SlotInv
  BY InitInv, HeldInit DEF SlotInv
<1>2. wq = <<>> /\ pc = "poll" /\ freeSlots = RecvSlots
  BY DEF Init, QP!Init
<1>3. Alternates /\ HandEmpty
  BY <1>2 DEF Alternates, HandEmpty
<1>4. AllOwned
  BY <1>2 DEF AllOwned, Owned
<1> QED
  BY <1>1, <1>3, <1>4 DEF FlowInv

(* ... and is kept by every step.                                          *)
LEMMA FlowStep ==
  ASSUME QueueCoversSlots
  PROVE  FlowInv /\ [Next]_vars => FlowInv'
<1> SUFFICES ASSUME FlowInv, [Next]_vars PROVE FlowInv'
  OBVIOUS
<1>1. SlotInv'
  BY SlotStep DEF FlowInv
<1>2. WorkerInv /\ WorkerInv' /\ Alternates /\ HandEmpty /\ AllOwned
  BY <1>1 DEF FlowInv, SlotInv
<1>3. ~RecvDropped
  BY NothingDropped
<1> QED
  BY <1>1, <1>2, <1>3, AlternatesStep, HandEmptyStep, AllOwnedStep DEF FlowInv

(* As long as the client is not done no receive slot is lost but those of  *)
(* misread packets, although do_Recv_zsim ignores a full work queue,       *)
(* provided the queue has room for two requests per receive slot: it is    *)
(* then never full when a slot is to be freed.                             *)
THEOREM NoSlotLost ==
  ASSUME QueueCoversSlots
  PROVE  Spec => []RecvSlotsFreed
<1>1. FlowInv /\ [Next]_vars => FlowInv'
  BY FlowStep
<1>2. FlowInv => RecvSlotsFreed
  BY OwnedHasOwner DEF FlowInv, AllOwned, RecvSlotsFreed
<1> QED
  BY <1>1, <1>2, FlowInit, PTL DEF Spec

(* Nor does do_Recv_zsim ever meet a full queue.                           *)
THEOREM RecvNeverRefused ==
  ASSUME QueueCoversSlots
  PROVE  Spec => [][~RecvDropped]_vars
<1>1. FlowInv /\ [Next]_vars => FlowInv'
  BY FlowStep
<1>2. FlowInv /\ [Next]_vars => [~RecvDropped]_vars
  BY NothingDropped
<1> QED
  BY <1>1, <1>2, FlowInit, PTL DEF Spec

-----------------------------------------------------------------------------
(* The send buffers. *)

(* A reply in the work queue, or about to be posted, is in its buffer. *)
BuffersKept ==
  /\ pc = "post" => lbuf[lbuf_offset(rpc_send_count)] = rpc_send_count
  /\ \A k \in 1 .. Len(wq) : wq[k].op = "SEND" =>
       wq[k].buf = lbuf_offset(wq[k].seq) /\ lbuf[wq[k].buf] = wq[k].seq

BufferInv == FlowInv /\ BuffersKept

(* Products grow with their factors.                                       *)
LEMMA ProductGrows ==
  ASSUME NEW m \in Nat, NEW x \in Nat, NEW y \in Nat, x < y
  PROVE  m * x + m <= m * y
<1>1. PICK d \in Nat : y = x + 1 + d
  <2>1. y - x - 1 \in Nat /\ y = x + 1 + (y - x - 1)
    OBVIOUS
  <2> QED
    BY <2>1
<1>2. m * y = m * x + m + m * d
  BY <1>1
<1>3. m * d \in Nat
  OBVIOUS
<1> QED
  BY <1>2, <1>3

(* Two replies less than a lap of the send buffers apart use different     *)
(* buffers.                                                                *)
LEMMA BuffersDiffer ==
  ASSUME NEW a \in Nat, NEW b \in Nat, a < b, b - a < MSGS_PER_PAIR
  PROVE  lbuf_offset(a) # lbuf_offset(b)
<1> DEFINE m == MSGS_PER_PAIR
           x == a \div m
           y == b \div m
<1>1. m \in Nat \ {0}
  BY Constants
<1>2. /\ x \in Nat /\ a % m \in 0 .. m - 1 /\ a = m * x + (a % m)
      /\ y \in Nat /\ b % m \in 0 .. m - 1 /\ b = m * y + (b % m)
  BY <1>1
<1> SUFFICES ASSUME a % m = b % m PROVE FALSE
  BY DEF lbuf_offset
<1> HIDE DEF x, y, m
<1>3. m * x \in Nat /\ m * y \in Nat /\ b - a = m * y - m * x
  BY <1>1, <1>2
<1>4. CASE x < y
  BY <1>1, <1>2, <1>3, <1>4, ProductGrows DEF m
<1>5. CASE y < x
  BY <1>1, <1>2, <1>3, <1>5, ProductGrows
<1>6. CASE x = y
  BY <1>3, <1>6
<1> QED
  BY <1>2, <1>4, <1>5, <1>6

(* When a reply is written there are fewer replies in the work queue than  *)
(* receive slots: each is followed by the request to free its slot, and    *)
(* the slot of this one is still in the batch.                             *)
LEMMA FewReplies ==
  ASSUME FlowInv, pc = "send", i < batch_size
  PROVE  replied - Len(sent) < NumNodes * MSGS_PER_PAIR
<1> DEFINE R == Cardinality(RecvSlots)
           place(j) == CHOOSE k \in 1 .. Len(wq) :
                         wq[k].op = "SEND" /\ wq[k].seq = Len(sent) + j - 1
           slot(j) == IF j = 0 THEN rpcs[i] ELSE wq[place(j) + 1].slot
           token(j) == IF j = 0 THEN <<"batch", i>> ELSE <<"wq", place(j) + 1>>
           f == [j \in 0 .. R |-> slot(j)]
<1>1. WorkerInv /\ HeldOnce /\ Alternates
  BY DEF FlowInv, SlotInv
<1>2. R \in Nat /\ R = NumNodes * MSGS_PER_PAIR /\ IsFiniteSet(RecvSlots)
  BY SlotsFinite, FS_CardinalityType
<1> HIDE DEF R
<1>3. Len(wq) \in Nat /\ Len(sent) \in Nat /\ replied \in Int
  <2>1. sent \in Seq(Sends)
    BY <1>1 DEF WorkerInv, TypeOK
  <2> QED
    BY <1>1, <2>1, QueueTypes DEF replied
<1> SUFFICES ASSUME replied - Len(sent) >= R PROVE FALSE
  BY <1>2, <1>3
<1>4. i \in Pending /\ rpcs[i] \in RecvSlots
  <2>1. /\ batch_counter = batch_size
        /\ \A b \in 0 .. batch_counter - 1 : rpcs[b] \in RecvSlots
    BY <1>1 DEF WorkerInv, BatchInBounds, Processing
  <2> QED
    BY <1>1, <2>1, QueueTypes DEF Pending, Processing
<1>5. ASSUME NEW j \in 1 .. R
      PROVE  /\ place(j) \in 1 .. Len(wq) /\ wq[place(j)].seq = Len(sent) + j - 1
             /\ place(j) + 1 \in 1 .. Len(wq)
             /\ wq[place(j) + 1] \in Recvs /\ wq[place(j) + 1].slot \in RecvSlots
  <2>1. Len(sent) + j - 1 \in Len(sent) .. replied - 1
    BY <1>2, <1>3
  <2>2. \E k \in 1 .. Len(wq) : wq[k].op = "SEND" /\ wq[k].seq = Len(sent) + j - 1
    BY <1>1, <2>1 DEF WorkerInv, RepliesQueued
  <2>3. /\ place(j) \in 1 .. Len(wq) /\ wq[place(j)].op = "SEND"
        /\ wq[place(j)].seq = Len(sent) + j - 1
    BY <2>2
  <2> HIDE DEF place
  <2>4. place(j) # Len(wq)
    <3>1. wq # <<>>
      BY <1>3, <2>3
    <3> QED
      BY <1>1, <2>3, <3>1 DEF Alternates
  <2>5. place(j) \in 1 .. Len(wq) - 1 /\ place(j) + 1 \in 1 .. Len(wq)
    BY <1>3, <2>3, <2>4
  <2>6. wq[place(j) + 1].op = "RECV"
    BY <1>1, <2>3, <2>5, TwoKinds DEF Alternates
  <2> QED
    BY <1>1, <2>3, <2>5, <2>6, TwoKinds
<1> HIDE DEF place
<1>6. ASSUME NEW j \in 0 .. R
      PROVE  slot(j) \in RecvSlots /\ Held(token(j), slot(j))
  <2>1. CASE j = 0
    BY <1>4, <2>1 DEF Held
  <2>2. CASE j # 0
    <3>1. j \in 1 .. R
      BY <1>2, <2>2
    <3> QED
      BY <1>5, <2>2, <3>1 DEF Held
  <2> QED
    BY <2>1, <2>2
<1>7. ASSUME NEW x \in 0 .. R, NEW y \in 0 .. R, token(x) = token(y) PROVE x = y
  <2>1. \A j \in 0 .. R : j # 0 => place(j) \in Nat /\ wq[place(j)].seq = Len(sent) + j - 1
    BY <1>2, <1>3, <1>5
  <2>2. x = 0 <=> y = 0
    BY <1>7
  <2>3. CASE x # 0
    <3>1. place(x) + 1 = place(y) + 1
      BY <1>7, <2>2, <2>3
    <3>2. place(x) = place(y)
      BY <2>1, <2>2, <2>3, <3>1
    <3>3. Len(sent) + x - 1 = Len(sent) + y - 1
      BY <2>1, <2>2, <2>3, <3>2
    <3> QED
      BY <1>2, <1>3, <3>3
  <2> QED
    BY <2>2, <2>3
<1> HIDE DEF slot, token
<1>8. PICK x, y \in 0 .. R : x # y /\ f[x] = f[y]
  <2>1. f \in [0 .. R -> RecvSlots]
    BY <1>6
  <2>2. IsFiniteSet(0 .. R) /\ Cardinality(0 .. R) = R + 1
    BY <1>2, FS_Interval
  <2>3. Cardinality(RecvSlots) < Cardinality(0 .. R)
    BY <1>2, <2>2 DEF R
  <2> HIDE DEF f
  <2> QED
    BY <1>2, <2>1, <2>2, <2>3, FS_PigeonHole
<1>9. slot(x) = slot(y)
  BY <1>8
<1>10. token(x) = token(y)
  BY <1>1, <1>6, <1>9, TokensDiffer
<1> QED
  BY <1>7, <1>8, <1>10

(* sendToNode_zsim writes a buffer that no reply in the queue uses.        *)
LEMMA HeaderKeepsBuffers ==
  ASSUME NumNodes = 1, BufferInv, SendHeader
  PROVE  BuffersKept'
<1> DEFINE n == rpc_send_count
<1>1. WorkerInv /\ FlowInv /\ BuffersKept
  BY DEF BufferInv, FlowInv, SlotInv
<1>2. /\ pc = "send" /\ i < batch_size /\ lbuf' = [lbuf EXCEPT ![lbuf_offset(n)] = n]
      /\ wq' = wq /\ UNCHANGED <<i, tmp_count, batch_size>>
  BY DEF SendHeader, batchVars
<1>3. rpc_send_count' = n
  BY <1>2 DEF rpc_send_count
<1>4. n = replied
  BY <1>2 DEF rpc_send_count, replied, Processing
<1>5. n \in Nat
  <2>1. batch_counter <= tmp_count /\ batch_counter = batch_size
    BY <1>1, <1>2 DEF WorkerInv, BatchRecorded, BatchInBounds, Processing
  <2> QED
    BY <1>1, <2>1, QueueTypes DEF rpc_send_count
<1>6. lbuf_offset(n) \in Lbufs /\ lbuf \in [Lbufs -> Nat \cup {-1}]
  BY <1>1, <1>5, OffsetInRange DEF WorkerInv, TypeOK
<1>7. replied - Len(sent) < MSGS_PER_PAIR /\ Len(sent) \in Nat
  <2>1. replied - Len(sent) < 1 * MSGS_PER_PAIR
    BY <1>1, <1>2, FewReplies
  <2>2. sent \in Seq(Sends)
    BY <1>1 DEF WorkerInv, TypeOK
  <2> QED
    BY <2>1, <2>2, Constants
<1> HIDE DEF n
<1>8. lbuf'[lbuf_offset(n)] = n
  BY <1>2, <1>6
<1>9. ASSUME NEW k \in 1 .. Len(wq), wq[k].op = "SEND"
      PROVE  wq[k].buf = lbuf_offset(wq[k].seq) /\ lbuf'[wq[k].buf] = wq[k].seq
  <2>1. wq[k].buf = lbuf_offset(wq[k].seq) /\ lbuf[wq[k].buf] = wq[k].seq
    BY <1>1, <1>9 DEF BuffersKept
  <2>2. Len(sent) <= wq[k].seq /\ wq[k].seq < replied
    BY <1>1, <1>9 DEF WorkerInv, RepliesQueued
  <2>3. wq[k].seq \in Nat
    BY <1>1, <1>9, QueueTypes, RequestFields
  <2>4. n - wq[k].seq < MSGS_PER_PAIR
    BY <1>4, <1>5, <1>7, <2>2, <2>3, Constants
  <2>5. lbuf_offset(wq[k].seq) # lbuf_offset(n)
    BY <1>4, <1>5, <2>2, <2>3, <2>4, BuffersDiffer
  <2>6. lbuf_offset(wq[k].seq) \in Lbufs
    BY <2>3, OffsetInRange
  <2>7. lbuf'[lbuf_offset(wq[k].seq)] = lbuf[lbuf_offset(wq[k].seq)]
    BY <1>2, <1>6, <2>5, <2>6
  <2> QED
    BY <2>1, <2>7
<1>10. lbuf'[lbuf_offset(rpc_send_count)'] = rpc_send_count'
  BY <1>3, <1>8 DEF lbuf_offset
<1> QED
  BY <1>2, <1>9, <1>10 DEF BuffersKept, lbuf_offset

(* A post adds a reply that is in its buffer, or no reply.                 *)
LEMMA PostKeepsBuffers ==
  ASSUME WorkerInv, BuffersKept, NEW r, wq' = Append(wq, r), UNCHANGED lbuf, pc' # "post",
         r.op = "SEND" => r.buf = lbuf_offset(r.seq) /\ lbuf[r.buf] = r.seq
  PROVE  BuffersKept'
<1>1. /\ Len(wq') = Len(wq) + 1 /\ Len(wq) \in Nat /\ wq'[Len(wq) + 1] = r
      /\ \A k \in 1 .. Len(wq) : wq'[k] = wq[k]
  BY QueueTypes, AppendTo
<1>2. ASSUME NEW k \in 1 .. Len(wq'), wq'[k].op = "SEND"
      PROVE  wq'[k].buf = lbuf_offset(wq'[k].seq) /\ lbuf[wq'[k].buf] = wq'[k].seq
  <2>1. CASE k = Len(wq) + 1
    BY <1>1, <1>2, <2>1
  <2>2. CASE k # Len(wq) + 1
    <3>1. k \in 1 .. Len(wq) /\ wq'[k] = wq[k]
      BY <1>1, <2>2
    <3> QED
      BY <1>2, <3>1 DEF BuffersKept
  <2> QED
    BY <2>1, <2>2
<1> QED
  BY <1>2 DEF BuffersKept, lbuf_offset

(* Every step keeps the buffers of the replies in the queue.               *)
LEMMA BuffersStep ==
  ASSUME NumNodes = 1, BufferInv, [Next]_vars
  PROVE  BuffersKept'
<1>1. WorkerInv /\ BuffersKept
  BY DEF BufferInv, FlowInv, SlotInv
<1>2. CASE SendHeader
  BY <1>2, HeaderKeepsBuffers
<1>3. CASE SendPost
  <2> DEFINE r == [op |-> "SEND", nid |-> source_node_ids[i],
                   buf |-> lbuf_offset(rpc_send_count), seq |-> rpc_send_count]
  <2>1. wq' = Append(wq, r) /\ UNCHANGED lbuf /\ pc = "post" /\ pc' = "recv"
    BY <1>3 DEF SendPost, QP!Post
  <2>2. r.buf = lbuf_offset(r.seq) /\ lbuf[r.buf] = r.seq
    BY <1>1, <2>1 DEF BuffersKept
  <2> HIDE DEF r
  <2> QED
    BY <1>1, <2>1, <2>2, PostKeepsBuffers
<1>4. CASE RecvPost
  <2> DEFINE r == [op |-> "RECV", slot |-> rpcs[i]]
  <2>1. wq' = Append(wq, r) /\ UNCHANGED lbuf /\ pc' = "send" /\ r.op # "SEND"
    BY <1>4 DEF RecvPost, QP!Post
  <2> HIDE DEF r
  <2> QED
    BY <1>1, <2>1, PostKeepsBuffers
<1>5. CASE Egress
  <2>1. /\ wq # <<>> /\ wq' = Tail(wq) /\ wq \in Seq(Requests)
        /\ UNCHANGED <<pc, lbuf, i, tmp_count, batch_size>>
    BY <1>1, <1>5, QueueTypes DEF Egress, NicTransmit, NicFree, QP!Fetch, batchVars
  <2>2. \A k \in 1 .. Len(wq') : k + 1 \in 1 .. Len(wq) /\ wq'[k] = wq[k + 1]
    BY <2>1, TailOf
  <2>3. rpc_send_count' = rpc_send_count
    BY <2>1 DEF rpc_send_count
  <2>4. \A k \in 1 .. Len(wq') : wq'[k].op = "SEND" =>
          wq'[k].buf = lbuf_offset(wq'[k].seq) /\ lbuf'[wq'[k].buf] = wq'[k].seq
    BY <1>1, <2>1, <2>2 DEF BuffersKept
  <2>5. pc' = "post" => lbuf'[lbuf_offset(rpc_send_count)'] = rpc_send_count'
    BY <1>1, <2>1, <2>3 DEF BuffersKept, lbuf_offset
  <2> QED
    BY <2>4, <2>5 DEF BuffersKept, lbuf_offset
<1>6. ASSUME ~SendHeader, ~SendPost, ~RecvPost, ~Egress
      PROVE  UNCHANGED <<wq, lbuf>> /\ (pc' # "post" \/ UNCHANGED <<pc, i, tmp_count, batch_size>>)
  BY <1>6 DEF Next, WorkerStep, Receive, Dispatch, Process, PollTimeout, PollCheck, CheckOuter,
     CheckTake, CheckEmpty, ReceiveRetry, ReceiveDone, ReceivePacket, WorkerExit,
     DispatchPacket, DispatchTimeout, RecvDropped, BatchDone,
     NicDeliver, NicComplete, ClientDone, Stopped, vars, batchVars, QP!Take, QP!Complete
<1>7. CASE ~SendHeader /\ ~SendPost /\ ~RecvPost /\ ~Egress
  <2>1. pc' = "post" => lbuf'[lbuf_offset(rpc_send_count)'] = rpc_send_count'
    BY <1>1, <1>6, <1>7 DEF BuffersKept, lbuf_offset, rpc_send_count
  <2>2. \A k \in 1 .. Len(wq') : wq'[k].op = "SEND" =>
          wq'[k].buf = lbuf_offset(wq'[k].seq) /\ lbuf'[wq'[k].buf] = wq'[k].seq
    BY <1>1, <1>6, <1>7 DEF BuffersKept
  <2> QED
    BY <2>1, <2>2 DEF BuffersKept, lbuf_offset
<1> QED
  BY <1>2, <1>3, <1>4, <1>5, <1>7

(* With one node, a reply in the work queue finds its send buffer as it    *)
(* left it, although sendToNode_zsim writes the buffer before it knows     *)
(* that there is room in the queue: the receive slots bound the replies    *)
(* on their way, and there are as many send buffers.                       *)
THEOREM SendBuffersOwned ==
  ASSUME QueueCoversSlots, NumNodes = 1
  PROVE  Spec => []LbufOwned
<1>1. Init => BufferInv
  <2> SUFFICES ASSUME Init PROVE BuffersKept
    BY FlowInit DEF BufferInv
  <2>1. wq = <<>> /\ pc = "poll"
    BY DEF Init, QP!Init
  <2> QED
    BY <2>1 DEF BuffersKept
<1>2. BufferInv /\ [Next]_vars => BufferInv'
  BY FlowStep, BuffersStep DEF BufferInv
<1>3. BufferInv => LbufOwned
  BY DEF BufferInv, BuffersKept, LbufOwned, Sends
<1> QED
  BY <1>1, <1>2, <1>3, PTL DEF Spec
=============================================================================
