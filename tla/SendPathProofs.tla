--------------------------- MODULE SendPathProofs ---------------------------
(***************************************************************************)
(* Proofs about SendPath for every size of the work queue, every width of  *)
(* the int and every batch size: what a notified NIC finds is the next     *)
(* request, but for fields whose stores the notification overtook, and no  *)
(* notification is lost or spent in vain; replies take the send buffers in *)
(* turn across overflows of the count, and packets are left unanswered     *)
(* only there.                                                             *)
(***************************************************************************)
EXTENDS SendPath, SequenceTheorems, TLAPS

Reqs     == [op : {"SEND", "RECV"}, buf_addr : Seq(Nat)]
Entry    == [valid : BOOLEAN, SR : BOOLEAN, op : {"", "SEND", "RECV"}, buf_addr : Seq(Nat)]

NewEntry == [valid : BOOLEAN, SR : BOOLEAN, op : {"SEND", "RECV"}, buf_addr : Seq(Nat)]

LoopTypes ==
  /\ received \in Nat /\ tmp_count \in Int /\ rpcs \in Seq(Nat)
  /\ requests \in Seq(Reqs)
  /\ pc \in {"receive", "post", "store", "advance"}

QueueTypes ==
  /\ todo \subseteq Fields /\ q \in [Slots -> Entry]
  /\ head \in Slots /\ SR \in BOOLEAN
  /\ nic_tail \in Slots /\ nic_SR \in BOOLEAN
  /\ posted \in Seq(Reqs) /\ fetched \in Nat

(* The entries that were begun and not fetched. *)
inQueue == Len(posted) - fetched

(* The worker is about to go on to the next slot. *)
Writing == pc \in {"store", "advance"}

(* Slot s, counted on from the start of a lap, and whether it is still on  *)
(* that lap.                                                               *)
Wrap(s) == IF s < MAX_NUM_WQ THEN s ELSE s - MAX_NUM_WQ
SameLap(s) == s < MAX_NUM_WQ

(* Where the worker goes on, and whether it does so with the NIC's sense.  *)
nextHead == IF Writing THEN Wrap(head + 1) ELSE head
SameSense == (SR = nic_SR) <=> (Writing => SameLap(head + 1))

(* The j-th entry that the NIC has not fetched. *)
unfetched(j) == q[Wrap(nic_tail + j - 1)]

(* The worker is inQueue slots ahead of the NIC, never more than a lap, and *)
(* its sense differs from the NIC's exactly when it is a lap ahead.  There  *)
(* is a notification for every entry but the one being written.            *)
Distance ==
  /\ inQueue \in 0 .. MAX_NUM_WQ
  /\ nextHead = Wrap(nic_tail + inQueue)
  /\ SameSense <=> SameLap(nic_tail + inQueue)
  /\ pc = "store" => inQueue >= 1
  /\ notifications = IF pc = "store" THEN inQueue - 1 ELSE inQueue

(* The entry being written is the last one posted.  It is not valid before *)
(* valid is stored, and has its sense once SR is; no store is late that    *)
(* the NIC looks for, or that would come after the return.                 *)
EntryBegun ==
  /\ Writing => /\ requests # <<>> /\ posted # <<>>
                /\ Head(requests) = posted[Len(posted)]
  /\ pc = "store" =>
       /\ "valid" \notin todo <=> q[head].valid
       /\ "SR" \notin todo => q[head].SR = SR
  /\ pc = "advance" => "valid" \notin todo /\ "SR" \notin todo
  /\ ~Writing => todo = {}

(* The other entries are new to the NIC.                                   *)
EntriesNew ==
  \A j \in 1 .. inQueue :
    ~(pc = "store" /\ j = inQueue) =>
       /\ unfetched(j).valid
       /\ (unfetched(j).SR = nic_SR) <=> SameLap(nic_tail + j - 1)

(* The slots in between are free.                                          *)
RestFree ==
  \A j \in inQueue + 1 .. MAX_NUM_WQ : ~unfetched(j).valid

(* The slot of the i-th last entry, and what a slot of the k-th entry      *)
(* holds: a field that is not stored yet is that of a lap before.          *)
lastSlot(i) == Wrap(nextHead + MAX_NUM_WQ - i)
Held(k, f) == IF k = Len(posted) /\ f \in todo
                THEN Request(k - MAX_NUM_WQ)[f] ELSE Request(k)[f]

(* Fetched or not, the slots hold the entries of the last lap.             *)
SlotsHold ==
  \A i \in 1 .. MAX_NUM_WQ : \A f \in {"op", "buf_addr"} :
    q[lastSlot(i)][f] = Held(Len(posted) + 1 - i, f)

(* The inductive invariant. *)
SendInv ==
  /\ LoopTypes /\ QueueTypes
  /\ Distance /\ EntryBegun /\ EntriesNew /\ RestFree
  /\ SlotsHold
-----------------------------------------------------------------------------
(* Types. *)

(* The constants, one by one. *)
LEMMA Constants ==
  /\ IntMod \in Nat \ {0} /\ BatchSize \in Nat \ {0} /\ MSGS_PER_PAIR \in Nat \ {0}
  /\ MAX_NUM_WQ \in Nat \ {0} /\ MaxPackets \in Nat \ {0}
BY SendPathAssumption

(* Converted to int, a count is an integer; as an unsigned int it gives    *)
(* the offset of a send buffer.                                            *)
LEMMA Conversions ==
  ASSUME NEW n \in Int
  PROVE  AsInt(n) \in Int /\ lbuf_offset(n) \in Nat
<1>1. n % IntMod \in 0 .. IntMod - 1
  BY Constants
<1>2. AsInt(n) \in Int
  BY <1>1, Constants DEF AsInt
<1>3. lbuf_offset(n) \in Nat
  BY <1>1, Constants DEF lbuf_offset, AsUnsigned
<1> QED
  BY <1>2, <1>3

(* A batch of at least batch_size packets gives well-formed requests.      *)
LEMMA RequestsType ==
  ASSUME NEW batch \in Seq(Nat), NEW count \in Int, NEW batch_size \in Nat,
         batch_size <= Len(batch)
  PROVE  BatchRequests(batch, count, batch_size) \in Seq(Reqs)
<1> DEFINE R(k) == LET b == (k - 1) \div 2
                   IN  IF k % 2 = 1
                         THEN [op |-> "SEND",
                               buf_addr |-> <<batch[b + 1], lbuf_offset((count - batch_size) + b)>>]
                         ELSE [op |-> "RECV", buf_addr |-> <<batch[b + 1]>>]
<1>1. ASSUME NEW k \in 1 .. 2 * batch_size PROVE R(k) \in Reqs
  <2> DEFINE b == (k - 1) \div 2
  <2>1. b \in 0 .. batch_size - 1
    OBVIOUS
  <2> HIDE DEF b
  <2>2. batch[b + 1] \in Nat /\ (count - batch_size) + b \in Int
    <3>1. b + 1 \in 1 .. Len(batch)
      BY <2>1
    <3> QED
      BY <2>1, <3>1, ElementOfSeq
  <2>3. lbuf_offset((count - batch_size) + b) \in Nat
    BY <2>2, Conversions
  <2>4. <<batch[b + 1], lbuf_offset((count - batch_size) + b)>> \in Seq(Nat)
    BY <2>2, <2>3
  <2>5. <<batch[b + 1]>> \in Seq(Nat)
    BY <2>2
  <2> QED
    BY <2>4, <2>5 DEF Reqs, b
<1>2. BatchRequests(batch, count, batch_size) = [k \in 1 .. 2 * batch_size |-> R(k)]
  BY DEF BatchRequests
<1> HIDE DEF R
<1>3. BatchRequests(batch, count, batch_size) \in [1 .. 2 * batch_size -> Reqs]
  BY <1>1, <1>2
<1> QED
  BY <1>3, SeqDef

(* ... which is what the loop asks of its batches. *)
LEMMA DispatchType ==
  ASSUME NEW batch \in Seq(Nat), NEW count \in Int, NEW batch_size \in Nat,
         requests \in Seq(Reqs), pc = "receive", Dispatch(batch, count, batch_size)
  PROVE  requests' \in Seq(Reqs) /\ rpcs' \in Seq(Nat) /\ pc' \in {"receive", "post"}
<1>1. CASE Len(batch) >= batch_size
  <2>1. batch_size <= Len(batch)
    BY <1>1, LenProperties
  <2>2. BatchRequests(batch, count, batch_size) \in Seq(Reqs)
    BY <2>1, RequestsType
  <2> QED
    BY <1>1, <2>2, EmptySeq DEF Dispatch
<1>2. CASE ~(Len(batch) >= batch_size)
  BY <1>2 DEF Dispatch
<1> QED
  BY <1>1, <1>2

(* The loop's variables keep their types.                                  *)
LEMMA LoopTypesStep ==
  ASSUME LoopTypes, EntryBegun, [Next]_vars
  PROVE  LoopTypes'
<1>1. /\ received \in Nat /\ tmp_count \in Int /\ rpcs \in Seq(Nat)
      /\ requests \in Seq(Reqs)
      /\ pc \in {"receive", "post", "store", "advance"}
  BY DEF LoopTypes
<1>2. CASE Packet
  <2>1. received' \in Nat /\ tmp_count' \in Int
    BY <1>1, <1>2, Conversions DEF Packet
  <2>2. Append(rpcs, received') \in Seq(Nat) /\ CurrentBatchSize \in Nat
    BY <1>1, <2>1, Constants, AppendProperties DEF CurrentBatchSize
  <2> QED
    BY <1>1, <1>2, <2>1, <2>2, DispatchType DEF Packet, LoopTypes
<1>3. CASE Timeout
  <2>1. Len(rpcs) \in Nat
    BY <1>1, LenProperties
  <2> QED
    BY <1>1, <1>3, <2>1, DispatchType DEF Timeout, LoopTypes
<1>4. CASE BatchDone
  BY <1>1, <1>4 DEF BatchDone, LoopTypes, loopVars
<1>5. CASE PostBegin
  BY <1>1, <1>5 DEF PostBegin, LoopTypes, loopVars
<1>6. CASE RecvDropped
  BY <1>1, <1>6, HeadTailProperties DEF RecvDropped, LoopTypes, loopVars
<1>7. CASE Store
  BY <1>1, <1>7 DEF Store, LoopTypes, loopVars
<1>8. CASE Notify
  BY <1>1, <1>8 DEF Notify, LoopTypes, loopVars
<1>9. CASE Advance
  BY <1>1, <1>9, HeadTailProperties DEF Advance, LoopTypes, loopVars, EntryBegun, Writing
<1>10. CASE NicFetch
  BY <1>1, <1>10 DEF NicFetch, LoopTypes, loopVars
<1>11. CASE UNCHANGED vars
  BY <1>1, <1>11 DEF vars, LoopTypes, loopVars
<1> QED
  BY <1>2, <1>3, <1>4, <1>5, <1>6, <1>7, <1>8, <1>9, <1>10, <1>11 DEF Next

(* One slot further round the ring.                                        *)
LEMMA NextSlot ==
  ASSUME NEW s \in Slots
  PROVE  /\ (s + 1) % MAX_NUM_WQ = Wrap(s + 1) /\ Wrap(s + 1) \in Slots
         /\ Wrap(s + 1) = 0 <=> ~SameLap(s + 1)
<1>1. s \in 0 .. MAX_NUM_WQ - 1 /\ MAX_NUM_WQ \in Nat \ {0}
  BY Constants DEF Slots
<1>2. (s + 1) % MAX_NUM_WQ = IF s + 1 < MAX_NUM_WQ THEN s + 1 ELSE s + 1 - MAX_NUM_WQ
  BY <1>1
<1> QED
  BY <1>1, <1>2 DEF Wrap, SameLap, Slots

(* Reversing a sense. *)
LEMMA Reversed ==
  ASSUME NEW a \in BOOLEAN, NEW b \in BOOLEAN, NEW c, c = ~a
  PROVE  c \in BOOLEAN /\ ((c = b) <=> ~(a = b))
BY Zenon

-----------------------------------------------------------------------------
(* The ring of the work queue. *)

(* The places of the next lap from t on are different slots.               *)
LEMMA Places ==
  ASSUME NEW t \in Slots, NEW j \in 1 .. MAX_NUM_WQ
  PROVE  /\ Wrap(t + j - 1) \in Slots
         /\ \A k \in 1 .. MAX_NUM_WQ : Wrap(t + j - 1) = Wrap(t + k - 1) => j = k
BY Constants DEF Wrap, Slots

(* The next lap from one slot further on.                                  *)
LEMMA PlacesMove ==
  ASSUME NEW t \in Slots
  PROVE  /\ \A j \in 1 .. MAX_NUM_WQ - 1 :
              Wrap(Wrap(t + 1) + j - 1) = Wrap(t + (j + 1) - 1)
         /\ Wrap(Wrap(t + 1) + MAX_NUM_WQ - 1) = t
         /\ Wrap(t + 1 - 1) = t
BY Constants DEF Wrap, Slots

(* The lengths, which are natural numbers.                                 *)
LEMMA Lengths ==
  ASSUME QueueTypes
  PROVE  Len(posted) \in Nat /\ fetched \in Nat /\ inQueue \in Int
<1>1. Len(posted) \in Nat /\ fetched \in Nat
  BY LenProperties DEF QueueTypes
<1> QED
  BY <1>1 DEF inQueue

(* The entry being written is the last one in the queue.                   *)
LEMMA CurrentSlot ==
  ASSUME QueueTypes, Distance, pc = "store"
  PROVE  /\ head = Wrap(nic_tail + inQueue - 1)
         /\ (SR = nic_SR) <=> SameLap(nic_tail + inQueue - 1)
<1>1. /\ head \in 0 .. MAX_NUM_WQ - 1 /\ nic_tail \in 0 .. MAX_NUM_WQ - 1
      /\ MAX_NUM_WQ \in Nat \ {0} /\ SR \in BOOLEAN /\ nic_SR \in BOOLEAN
  BY Constants DEF QueueTypes, Slots
<1>2. /\ inQueue \in 1 .. MAX_NUM_WQ
      /\ Wrap(head + 1) = Wrap(nic_tail + inQueue)
      /\ ((SR = nic_SR) <=> SameLap(head + 1)) <=> SameLap(nic_tail + inQueue)
  BY DEF Distance, nextHead, SameSense, Writing
<1>3. head = Wrap(nic_tail + inQueue - 1)
  BY <1>1, <1>2 DEF Wrap
<1>4. CASE SameLap(head + 1)
  <2>1. SameLap(nic_tail + inQueue) <=> SameLap(nic_tail + inQueue - 1)
    BY <1>1, <1>2, <1>3, <1>4 DEF SameLap, Wrap
  <2> QED
    BY <1>2, <1>3, <1>4, <2>1
<1>5. CASE ~SameLap(head + 1)
  <2>1. ~SameLap(nic_tail + inQueue) /\ SameLap(nic_tail + inQueue - 1)
    BY <1>1, <1>2, <1>3, <1>5 DEF SameLap, Wrap
  <2> QED
    BY <1>2, <1>3, <1>5, <2>1
<1> QED
  BY <1>3, <1>4, <1>5

(* What the invariant says of the queue. *)
QueueInv == QueueTypes /\ Distance /\ EntryBegun /\ EntriesNew /\ RestFree

(* The empty queue.                                                        *)
LEMMA SendInit == Init => SendInv
<1> SUFFICES ASSUME Init PROVE SendInv
  OBVIOUS
<1> DEFINE zero == [valid |-> FALSE, SR |-> FALSE, op |-> "", buf_addr |-> <<>>]
<1>0. /\ posted = <<>> /\ fetched = 0 /\ pc = "receive" /\ requests = <<>>
      /\ received = 0 /\ tmp_count = 0 /\ rpcs = <<>> /\ todo = {}
      /\ head = 0 /\ nic_tail = 0 /\ notifications = 0
      /\ q = [s \in Slots |-> zero]
  BY Zenon DEF Init
<1> HIDE DEF zero
<1>1. /\ Len(posted) = 0 /\ fetched = 0 /\ inQueue = 0 /\ pc = "receive"
      /\ MAX_NUM_WQ \in Nat \ {0}
  BY <1>0, Constants DEF inQueue
<1>2. LoopTypes
  BY <1>0, EmptySeq DEF LoopTypes
<1>3. QueueTypes
  <2>1. zero \in Entry
    <3>1. <<>> \in Seq(Nat)
      BY EmptySeq
    <3> QED
      BY <3>1, Zenon DEF Entry, zero
  <2>2. SR \in BOOLEAN /\ nic_SR \in BOOLEAN
    BY Zenon DEF Init
  <2> QED
    BY <1>0, <2>1, <2>2, EmptySeq, Constants DEF QueueTypes, Slots
<1>4. Distance
  <2>1. Wrap(0) = 0 /\ SameLap(0)
    BY <1>1 DEF Wrap, SameLap
  <2>2. nic_tail = 0 /\ nextHead = 0 /\ notifications = 0
    BY <1>0, Zenon DEF nextHead, Writing
  <2>3. SameSense
    BY <1>0, Zenon DEF Init, SameSense, Writing
  <2> QED
    BY <1>1, <2>1, <2>2, <2>3 DEF Distance
<1>5. EntryBegun /\ EntriesNew
  BY <1>0, <1>1 DEF EntryBegun, EntriesNew, Writing
<1>6. RestFree
  <2> SUFFICES ASSUME NEW j \in 1 .. MAX_NUM_WQ PROVE ~unfetched(j).valid
    BY <1>1 DEF RestFree
  <2>1. Wrap(nic_tail + j - 1) \in Slots
    BY <1>3, Places DEF QueueTypes
  <2> QED
    BY <1>0, <2>1 DEF zero, unfetched
<1>7. SlotsHold
  <2> SUFFICES ASSUME NEW i \in 1 .. MAX_NUM_WQ, NEW f \in {"op", "buf_addr"}
               PROVE  q[lastSlot(i)][f] = Held(Len(posted) + 1 - i, f)
    BY DEF SlotsHold
  <2>1. nextHead \in Slots
    BY <1>0, Constants DEF nextHead, Writing, Slots
  <2>2. lastSlot(i) \in Slots
    BY <2>1, Constants DEF lastSlot, Wrap, Slots
  <2>3. Held(Len(posted) + 1 - i, f) = [op |-> "", buf_addr |-> <<>>][f]
    <3>1. ~(Len(posted) + 1 - i > 0) /\ f \notin todo
      BY <1>0, <1>1
    <3> QED
      BY <3>1, Zenon DEF Held, Request
  <2>4. q[lastSlot(i)] = zero
    BY <1>0, <2>2, Zenon
  <2> DEFINE blank == [op |-> "", buf_addr |-> <<>>]
  <2>5. zero.op = blank.op /\ zero.buf_addr = blank.buf_addr
    BY DEF zero
  <2>6. Held(Len(posted) + 1 - i, f) = blank[f]
    BY <2>3
  <2> HIDE DEF blank
  <2> QED
    BY <2>4, <2>5, <2>6
<1> QED
  BY <1>2, <1>3, <1>4, <1>5, <1>6, <1>7 DEF SendInv

(* Steps that leave the queue alone.                                       *)
LEMMA LoopKeepsQueue ==
  ASSUME QueueInv, UNCHANGED <<wqVars, nicVars, posted>>,
         \/ pc' = pc /\ UNCHANGED requests
         \/ ~Writing /\ ~Writing'
  PROVE  QueueInv'
<1>1. /\ UNCHANGED <<todo, q, head, SR, notifications, nic_tail, nic_SR, fetched, posted>>
      /\ Writing' = Writing /\ (pc' = "store" <=> pc = "store")
      /\ (pc' = "advance" <=> pc = "advance")
      /\ Writing => UNCHANGED requests
  BY DEF wqVars, nicVars, Writing
<1>2. UNCHANGED <<inQueue, nextHead>> /\ (SameSense' <=> SameSense) /\ \A j : unfetched(j)' = unfetched(j)
  BY <1>1 DEF inQueue, nextHead, SameSense, unfetched
<1>3. QueueTypes'
  BY <1>1 DEF QueueInv, QueueTypes
<1>4. Distance'
  BY <1>1, <1>2 DEF QueueInv, Distance
<1>5. EntryBegun'
  BY <1>1 DEF QueueInv, EntryBegun
<1>6. EntriesNew' /\ RestFree'
  BY <1>1, <1>2 DEF QueueInv, EntriesNew, RestFree
<1> QED
  BY <1>3, <1>4, <1>5, <1>6 DEF QueueInv

(* A free slot at head means there is room.                                *)
LEMMA PostKeepsQueue ==
  ASSUME QueueInv, requests \in Seq(Reqs), PostBegin
  PROVE  QueueInv'
<1>1. QueueTypes /\ Distance /\ EntriesNew /\ RestFree
  BY DEF QueueInv
<1>2. /\ head \in 0 .. MAX_NUM_WQ - 1 /\ nic_tail \in 0 .. MAX_NUM_WQ - 1
      /\ MAX_NUM_WQ \in Nat \ {0} /\ nic_tail \in Slots
      /\ inQueue \in 0 .. MAX_NUM_WQ
      /\ Len(posted) \in Nat /\ fetched \in Nat
  BY <1>1, Constants, Lengths DEF QueueTypes, Slots, Distance
<1>3. /\ pc = "post" /\ pc' = "store" /\ ~Writing /\ Writing' /\ requests # <<>>
      /\ ~q[head].valid /\ todo' = Fields
      /\ posted' = Append(posted, Head(requests))
      /\ UNCHANGED <<requests, q, head, SR, notifications, nic_tail, nic_SR, fetched>>
  BY DEF PostBegin, Writing, nicVars
<1>4. /\ head = Wrap(nic_tail + inQueue)
      /\ (SR = nic_SR) <=> SameLap(nic_tail + inQueue)
      /\ notifications = inQueue
  BY <1>1, <1>3 DEF Distance, nextHead, SameSense
<1>5. inQueue < MAX_NUM_WQ
  <2> SUFFICES ASSUME inQueue = MAX_NUM_WQ PROVE FALSE
    BY <1>2
  <2>1. Wrap(nic_tail + 1 - 1) = head
    BY <1>2, <1>4 DEF Wrap
  <2>2. unfetched(1).valid
    BY <1>1, <1>2, <1>3 DEF EntriesNew
  <2> QED
    BY <1>3, <2>1, <2>2 DEF unfetched
<1>6. /\ Head(requests) \in Reqs
      /\ posted' \in Seq(Reqs) /\ Len(posted') = Len(posted) + 1 /\ posted' # <<>>
      /\ \A k \in 1 .. Len(posted) : posted'[k] = posted[k]
      /\ posted'[Len(posted')] = Head(requests)
  <2>1. Head(requests) \in Reqs
    BY <1>3, HeadTailProperties
  <2> QED
    BY <1>1, <1>3, <2>1, AppendProperties DEF QueueTypes
<1>7. inQueue' = inQueue + 1
  BY <1>2, <1>3, <1>6 DEF inQueue
<1>8. QueueTypes'
  BY <1>1, <1>3, <1>6 DEF QueueTypes
<1>9. Distance'
  <2>1. nextHead' = Wrap(head + 1) /\ (SameSense' <=> ((SR = nic_SR) <=> SameLap(head + 1)))
    BY <1>3 DEF nextHead, SameSense, Wrap, SameLap
  <2>2. Wrap(head + 1) = Wrap(nic_tail + inQueue')
    BY <1>2, <1>4, <1>5, <1>7 DEF Wrap
  <2>3. (SameLap(nic_tail + inQueue) <=> SameLap(head + 1)) <=> SameLap(nic_tail + inQueue')
    BY <1>2, <1>4, <1>5, <1>7 DEF Wrap, SameLap
  <2>4. inQueue' \in 1 .. MAX_NUM_WQ /\ notifications' = inQueue' - 1
    BY <1>2, <1>3, <1>4, <1>5, <1>7
  <2>5. nextHead' = Wrap(nic_tail' + inQueue') /\ (SameSense' <=> SameLap(nic_tail' + inQueue'))
    BY <1>3, <1>4, <2>1, <2>2, <2>3
  <2> QED
    BY <1>2, <1>3, <2>4, <2>5 DEF Distance
<1>10. EntryBegun'
  <2>1. {"valid", "SR", "op", "buf_addr"} \subseteq todo'
    BY <1>3 DEF Fields
  <2> QED
    BY <1>3, <1>6, <2>1 DEF EntryBegun
<1>11. \A j : unfetched(j)' = unfetched(j)
  BY <1>3 DEF unfetched, Wrap
<1>12. EntriesNew'
  <2> SUFFICES ASSUME NEW j \in 1 .. inQueue', j # inQueue'
               PROVE  /\ unfetched(j)'.valid
                      /\ (unfetched(j)'.SR = nic_SR') <=> SameLap(nic_tail' + j - 1)
    BY <1>3 DEF EntriesNew, SameLap
  <2>1. j \in 1 .. inQueue
    BY <1>2, <1>7
  <2> QED
    BY <1>1, <1>3, <1>11, <2>1 DEF EntriesNew
<1>13. RestFree'
  <2>1. \A j \in inQueue' + 1 .. MAX_NUM_WQ : j \in inQueue + 1 .. MAX_NUM_WQ
    BY <1>2, <1>7
  <2> QED
    BY <1>1, <1>11, <2>1 DEF RestFree
<1> QED
  BY <1>8, <1>9, <1>10, <1>12, <1>13 DEF QueueInv

(* A store changes one field of the slot of the entry being written.       *)
LEMMA OneStore ==
  ASSUME QueueTypes, EntryBegun, Store
  PROVE  \E f \in todo :
           /\ todo' = todo \ {f}
           /\ q' \in [Slots -> Entry]
           /\ \A s \in Slots : s # head => q'[s] = q[s]
           /\ q'[head].valid    = IF f = "valid" THEN TRUE ELSE q[head].valid
           /\ q'[head].SR       = IF f = "SR" THEN SR ELSE q[head].SR
           /\ q'[head].op       = IF f = "op" THEN posted[Len(posted)].op ELSE q[head].op
           /\ q'[head].buf_addr = IF f = "buf_addr" THEN posted[Len(posted)].buf_addr
                                                   ELSE q[head].buf_addr
<1>1. /\ head \in Slots /\ todo \subseteq Fields /\ q \in [Slots -> Entry]
      /\ SR \in BOOLEAN
  BY DEF QueueTypes
<1>2. PICK f \in todo : /\ q' = [q EXCEPT ![head] = [@ EXCEPT ![f] = anEntry[f]]]
                        /\ todo' = todo \ {f}
  BY DEF Store
<1>3. /\ posted # <<>> /\ requests # <<>> /\ Head(requests) = posted[Len(posted)]
      /\ posted[Len(posted)] \in Reqs
  <2>1. posted # <<>> /\ requests # <<>> /\ Head(requests) = posted[Len(posted)]
    BY DEF EntryBegun, Store, Writing
  <2>2. Len(posted) \in 1 .. Len(posted)
    BY <2>1, EmptySeq DEF QueueTypes
  <2> QED
    BY <2>1, <2>2, ElementOfSeq DEF QueueTypes
<1>4. /\ anEntry \in NewEntry
      /\ anEntry.valid = TRUE /\ anEntry.SR = SR /\ anEntry.op = posted[Len(posted)].op
      /\ anEntry.buf_addr = posted[Len(posted)].buf_addr
  BY <1>1, <1>3 DEF anEntry, NewEntry, Reqs
<1> HIDE DEF anEntry
<1>5. /\ q'[head] = [q[head] EXCEPT ![f] = anEntry[f]]
      /\ \A s \in Slots : s # head => q'[s] = q[s]
      /\ q[head] \in Entry /\ f \in Fields
  BY <1>1, <1>2
<1>6. /\ q'[head] \in Entry
      /\ q'[head].valid    = IF f = "valid" THEN anEntry.valid ELSE q[head].valid
      /\ q'[head].SR       = IF f = "SR" THEN anEntry.SR ELSE q[head].SR
      /\ q'[head].op       = IF f = "op" THEN anEntry.op ELSE q[head].op
      /\ q'[head].buf_addr = IF f = "buf_addr" THEN anEntry.buf_addr ELSE q[head].buf_addr
  <2> DEFINE e == q[head]
             x == q'[head]
  <2>1. e \in Entry /\ f \in Fields /\ anEntry \in NewEntry
          /\ x = [e EXCEPT ![f] = anEntry[f]]
    BY <1>4, <1>5
  <2> HIDE DEF e, x
  <2>2. /\ x \in Entry
        /\ x.valid    = IF f = "valid" THEN anEntry.valid ELSE e.valid
        /\ x.SR       = IF f = "SR" THEN anEntry.SR ELSE e.SR
        /\ x.op       = IF f = "op" THEN anEntry.op ELSE e.op
        /\ x.buf_addr = IF f = "buf_addr" THEN anEntry.buf_addr ELSE e.buf_addr
    <3>1. CASE f = "valid"
      BY <2>1, <3>1 DEF Entry, NewEntry
    <3>2. CASE f = "SR"
      BY <2>1, <3>2 DEF Entry, NewEntry
    <3>3. CASE f = "op"
      BY <2>1, <3>3 DEF Entry, NewEntry
    <3>4. CASE f = "buf_addr"
      BY <2>1, <3>4 DEF Entry, NewEntry
    <3> QED
      BY <2>1, <3>1, <3>2, <3>3, <3>4 DEF Fields
  <2> QED
    BY <2>2 DEF e, x
<1>7. q' \in [Slots -> Entry]
  BY <1>1, <1>2, <1>5, <1>6
<1>8. /\ q'[head].valid    = IF f = "valid" THEN TRUE ELSE q[head].valid
      /\ q'[head].SR       = IF f = "SR" THEN SR ELSE q[head].SR
      /\ q'[head].op       = IF f = "op" THEN posted[Len(posted)].op ELSE q[head].op
      /\ q'[head].buf_addr = IF f = "buf_addr" THEN posted[Len(posted)].buf_addr
                                              ELSE q[head].buf_addr
  BY <1>4, <1>6, Zenon
<1> QED
  BY <1>2, <1>5, <1>7, <1>8, Zenon

(* It leaves alone what the NIC has been told of.                          *)
LEMMA StoreKeepsQueue ==
  ASSUME QueueInv, Store
  PROVE  QueueInv'
<1>1. QueueTypes /\ Distance /\ EntryBegun /\ EntriesNew /\ RestFree
  BY DEF QueueInv
<1>2. /\ MAX_NUM_WQ \in Nat \ {0} /\ nic_tail \in Slots /\ head \in Slots
      /\ inQueue \in 0 .. MAX_NUM_WQ /\ (pc = "store" => inQueue >= 1)
      /\ todo \subseteq Fields
  BY <1>1, Constants, Lengths DEF QueueTypes, Distance
<1>3. PICK f \in todo :
        /\ todo' = todo \ {f}
        /\ q' \in [Slots -> Entry]
        /\ \A s \in Slots : s # head => q'[s] = q[s]
        /\ q'[head].valid = IF f = "valid" THEN TRUE ELSE q[head].valid
        /\ q'[head].SR    = IF f = "SR" THEN SR ELSE q[head].SR
  BY <1>1, OneStore
<1>4. /\ pc \in {"store", "advance"} /\ pc' = pc /\ Writing /\ Writing'
      /\ UNCHANGED <<requests, head, SR, notifications, nic_tail, nic_SR, fetched, posted>>
  BY DEF Store, Writing, nicVars
<1>5. QueueTypes'
  BY <1>1, <1>2, <1>3, <1>4 DEF QueueTypes
<1>6. inQueue' = inQueue
  BY <1>4 DEF inQueue
<1>7. Distance'
  BY <1>1, <1>4, <1>6 DEF Distance, nextHead, SameSense, Wrap, SameLap
<1>8. EntryBegun'
  <2>1. /\ requests # <<>> /\ posted # <<>> /\ Head(requests) = posted[Len(posted)]
        /\ pc = "advance" => "valid" \notin todo /\ "SR" \notin todo
        /\ pc = "store" => /\ "valid" \notin todo <=> q[head].valid
                           /\ "SR" \notin todo => q[head].SR = SR
    BY <1>1, <1>4 DEF EntryBegun
  <2>2. pc = "store" => ("valid" \notin todo' <=> q'[head].valid)
    BY <1>3, <2>1
  <2>3. pc = "store" => ("SR" \notin todo' => q'[head].SR = SR)
    BY <1>3, <2>1
  <2> QED
    BY <1>3, <1>4, <2>1, <2>2, <2>3 DEF EntryBegun
<1>9. ASSUME NEW j \in 1 .. MAX_NUM_WQ, ~(pc = "store" /\ j = inQueue)
      PROVE  unfetched(j)'.valid = unfetched(j).valid /\ unfetched(j)'.SR = unfetched(j).SR
  <2>1. Wrap(nic_tail + j - 1) \in Slots
    BY <1>2, Places
  <2>2. unfetched(j)' = q'[Wrap(nic_tail + j - 1)]
    BY <1>4 DEF unfetched, Wrap
  <2>3. CASE pc = "store"
    <3>1. head = Wrap(nic_tail + inQueue - 1)
      BY <1>1, <2>3, CurrentSlot
    <3>2. inQueue \in 1 .. MAX_NUM_WQ
      BY <1>2, <2>3
    <3>3. Wrap(nic_tail + j - 1) # head
      BY <1>2, <1>9, <2>3, <3>1, <3>2, Places
    <3> QED
      BY <1>3, <2>1, <2>2, <3>3 DEF unfetched
  <2>4. CASE pc = "advance"
    <3>1. q'[head].valid = q[head].valid /\ q'[head].SR = q[head].SR
      BY <1>1, <1>3, <2>4 DEF EntryBegun
    <3> QED
      BY <1>3, <2>1, <2>2, <3>1 DEF unfetched
  <2> QED
    BY <1>4, <2>3, <2>4
<1>10. EntriesNew'
  <2>1. \A j \in 1 .. inQueue : j \in 1 .. MAX_NUM_WQ
    BY <1>2
  <2> QED
    BY <1>1, <1>4, <1>6, <1>9, <2>1 DEF EntriesNew, SameLap
<1>11. RestFree'
  <2>1. \A j \in inQueue + 1 .. MAX_NUM_WQ : j \in 1 .. MAX_NUM_WQ /\ j # inQueue
    BY <1>2
  <2> QED
    BY <1>1, <1>6, <1>9, <2>1 DEF RestFree
<1> QED
  BY <1>5, <1>7, <1>8, <1>10, <1>11 DEF QueueInv

(* The notification comes when valid and SR have been stored.              *)
LEMMA NotifyKeepsQueue ==
  ASSUME QueueInv, Notify
  PROVE  QueueInv'
<1>1. QueueTypes /\ Distance /\ EntryBegun /\ EntriesNew /\ RestFree
  BY DEF QueueInv
<1>2. /\ pc = "store" /\ pc' = "advance" /\ Writing /\ Writing'
      /\ "valid" \notin todo /\ "SR" \notin todo
      /\ notifications' = notifications + 1
      /\ UNCHANGED <<requests, todo, q, head, SR, nic_tail, nic_SR, fetched, posted>>
  BY DEF Notify, Writing, nicVars
<1>3. /\ UNCHANGED <<inQueue, nextHead>> /\ (SameSense' <=> SameSense)
      /\ \A j : unfetched(j)' = unfetched(j)
      /\ inQueue \in 1 .. MAX_NUM_WQ
      /\ Len(posted) \in Nat /\ fetched \in Nat
  BY <1>1, <1>2, Lengths DEF inQueue, nextHead, SameSense, unfetched, Wrap, SameLap, Distance
<1>4. QueueTypes'
  BY <1>1, <1>2 DEF QueueTypes
<1>5. Distance'
  BY <1>1, <1>2, <1>3, Constants DEF Distance, Wrap, SameLap
<1>6. EntryBegun'
  BY <1>1, <1>2 DEF EntryBegun
<1>7. EntriesNew'
  <2>1. /\ unfetched(inQueue).valid
        /\ (unfetched(inQueue).SR = nic_SR) <=> SameLap(nic_tail + inQueue - 1)
    <3>1. /\ head = Wrap(nic_tail + inQueue - 1)
          /\ (SR = nic_SR) <=> SameLap(nic_tail + inQueue - 1)
      BY <1>1, <1>2, CurrentSlot
    <3> QED
      BY <1>1, <1>2, <3>1 DEF EntryBegun, unfetched
  <2> QED
    BY <1>1, <1>2, <1>3, <2>1 DEF EntriesNew, SameLap
<1>8. RestFree'
  BY <1>1, <1>3 DEF RestFree
<1> QED
  BY <1>4, <1>5, <1>6, <1>7, <1>8 DEF QueueInv

(* Then the worker goes on to the next slot.                               *)
LEMMA AdvanceKeepsQueue ==
  ASSUME QueueInv, Advance
  PROVE  QueueInv'
<1>1. QueueTypes /\ Distance /\ EntriesNew /\ RestFree
  BY DEF QueueInv
<1>2. /\ pc = "advance" /\ pc' = "post" /\ Writing /\ ~Writing' /\ todo = {}
      /\ head' = (head + 1) % MAX_NUM_WQ
      /\ SR' = IF head' = 0 THEN ~SR ELSE SR
      /\ UNCHANGED <<todo, q, notifications, nic_tail, nic_SR, fetched, posted>>
  BY DEF Advance, Writing, nicVars
<1>3. /\ head' = Wrap(head + 1) /\ head' \in Slots
      /\ head' = 0 <=> ~SameLap(head + 1)
  BY <1>1, <1>2, NextSlot DEF QueueTypes
<1>4. SR' \in BOOLEAN /\ ((SR' = nic_SR) <=> ((SR = nic_SR) <=> SameLap(head + 1)))
  <2>1. SR \in BOOLEAN /\ nic_SR \in BOOLEAN
    BY <1>1 DEF QueueTypes
  <2>2. CASE head' = 0
    <3>1. SR' = ~SR
      BY <1>2, <2>2
    <3>2. SR' \in BOOLEAN /\ ((SR' = nic_SR) <=> ~(SR = nic_SR))
      BY <2>1, <3>1, Reversed
    <3> QED
      BY <1>3, <2>2, <3>2
  <2>3. CASE head' # 0
    BY <1>2, <1>3, <2>1, <2>3
  <2> QED
    BY <2>2, <2>3
<1>5. /\ inQueue' = inQueue /\ \A j : unfetched(j)' = unfetched(j)
      /\ nextHead' = nextHead /\ (SameSense' <=> SameSense)
  BY <1>2, <1>3, <1>4 DEF inQueue, unfetched, nextHead, SameSense, Wrap, SameLap
<1>6. QueueTypes'
  BY <1>1, <1>2, <1>3, <1>4 DEF QueueTypes
<1>7. Distance'
  BY <1>1, <1>2, <1>5 DEF Distance, Wrap, SameLap
<1>8. EntryBegun'
  BY <1>2 DEF EntryBegun
<1>9. EntriesNew' /\ RestFree'
  BY <1>1, <1>2, <1>5 DEF EntriesNew, RestFree, SameLap
<1> QED
  BY <1>6, <1>7, <1>8, <1>9 DEF QueueInv

(* The NIC takes the first of the entries it was told of.                  *)
LEMMA FetchKeepsQueue ==
  ASSUME QueueInv, NicFetch
  PROVE  QueueInv'
<1>1. QueueTypes /\ Distance /\ EntryBegun /\ EntriesNew /\ RestFree
  BY DEF QueueInv
<1>2. /\ notifications > 0 /\ notifications' = notifications - 1
      /\ fetched' = fetched + 1
      /\ q' = [q EXCEPT ![nic_tail].valid = FALSE]
      /\ nic_tail' = (nic_tail + 1) % MAX_NUM_WQ
      /\ nic_SR' = IF nic_tail' = 0 THEN ~nic_SR ELSE nic_SR
      /\ UNCHANGED <<requests, pc, todo, head, SR, posted>>
  BY DEF NicFetch
<1>3. /\ MAX_NUM_WQ \in Nat \ {0} /\ nic_tail \in Slots /\ head \in Slots
      /\ Slots = 0 .. MAX_NUM_WQ - 1
      /\ inQueue \in 1 .. MAX_NUM_WQ /\ (pc = "store" => inQueue >= 2)
      /\ Len(posted) \in Nat /\ fetched \in Nat
      /\ q \in [Slots -> Entry]
      /\ SR \in BOOLEAN /\ nic_SR \in BOOLEAN
  BY <1>1, <1>2, Constants, Lengths DEF QueueTypes, Distance, Slots
<1>4. /\ nic_tail' = Wrap(nic_tail + 1) /\ nic_tail' \in Slots
      /\ nic_tail' = 0 <=> ~SameLap(nic_tail + 1)
  BY <1>2, <1>3, NextSlot
<1>5. nic_SR' \in BOOLEAN
      /\ \A s \in BOOLEAN : (s = nic_SR') <=> ((s = nic_SR) <=> SameLap(nic_tail + 1))
  <2>1. CASE nic_tail' = 0
    <3>1. nic_SR' = ~nic_SR
      BY <1>2, <2>1
    <3>2. nic_SR' \in BOOLEAN /\ \A s \in BOOLEAN : (nic_SR' = s) <=> ~(nic_SR = s)
      BY <1>3, <3>1, Reversed
    <3> QED
      BY <1>4, <2>1, <3>2
  <2>2. CASE nic_tail' # 0
    BY <1>2, <1>3, <1>4, <2>2
  <2> QED
    BY <2>1, <2>2
<1>6. /\ \A s \in Slots : s # nic_tail => q'[s] = q[s]
      /\ q' \in [Slots -> Entry] /\ ~q'[nic_tail].valid
  <2>1. /\ \A s \in Slots : s # nic_tail => q'[s] = q[s]
        /\ q'[nic_tail] = [q[nic_tail] EXCEPT !.valid = FALSE] /\ q[nic_tail] \in Entry
        /\ q' \in [Slots -> {q'[s] : s \in Slots}]
    BY <1>2, <1>3
  <2>2. q'[nic_tail] \in Entry /\ ~q'[nic_tail].valid
    BY <2>1 DEF Entry
  <2> QED
    BY <1>3, <2>1, <2>2
<1>9. inQueue' = inQueue - 1 /\ inQueue' \in 0 .. MAX_NUM_WQ - 1
  BY <1>2, <1>3 DEF inQueue
<1>10. QueueTypes'
  BY <1>1, <1>2, <1>3, <1>4, <1>5, <1>6 DEF QueueTypes
<1>12. Distance'
  <2>1. nextHead = Wrap(nic_tail + inQueue) /\ (SameSense <=> SameLap(nic_tail + inQueue))
          /\ (Writing' <=> Writing)
    BY <1>1, <1>2 DEF Distance, Writing
  <2>2. nextHead' = nextHead
    BY <1>2, <2>1 DEF nextHead, Wrap
  <2>3. SameSense' <=> (SameSense <=> SameLap(nic_tail + 1))
    <3>1. SameSense' <=> ((SR = nic_SR') <=> (Writing => SameLap(head + 1)))
      BY <1>2, <2>1 DEF SameSense, SameLap
    <3>2. (SR = nic_SR') <=> ((SR = nic_SR) <=> SameLap(nic_tail + 1))
      BY <1>3, <1>5
    <3> QED
      BY <3>1, <3>2 DEF SameSense
  <2>4. Wrap(nic_tail' + inQueue') = Wrap(nic_tail + inQueue)
    BY <1>3, <1>4, <1>9 DEF Wrap
  <2>5. SameLap(nic_tail' + inQueue') <=> (SameLap(nic_tail + inQueue) <=> SameLap(nic_tail + 1))
    BY <1>3, <1>4, <1>9 DEF Wrap, SameLap
  <2>6. /\ notifications' = IF pc = "store" THEN inQueue' - 1 ELSE inQueue'
        /\ pc = "store" => inQueue' >= 1
    BY <1>1, <1>2, <1>3, <1>9 DEF Distance
  <2>7. nextHead' = Wrap(nic_tail' + inQueue') /\ (SameSense' <=> SameLap(nic_tail' + inQueue'))
    BY <2>1, <2>2, <2>3, <2>4, <2>5
  <2> QED
    BY <1>2, <1>3, <1>9, <2>6, <2>7 DEF Distance
<1>13. ASSUME pc = "store" PROVE q'[head] = q[head]
  <2>1. head = Wrap(nic_tail + inQueue - 1) /\ nic_tail = Wrap(nic_tail + 1 - 1)
    BY <1>1, <1>3, <1>13, CurrentSlot, PlacesMove
  <2>2. inQueue \in 1 .. MAX_NUM_WQ /\ 1 \in 1 .. MAX_NUM_WQ /\ inQueue # 1
    BY <1>3, <1>13
  <2>3. head # nic_tail
    BY <1>3, <2>1, <2>2, Places
  <2> QED
    BY <1>3, <1>6, <2>3
<1>14. EntryBegun'
  <2>1. Writing' <=> Writing
    BY <1>2 DEF Writing
  <2> QED
    BY <1>1, <1>2, <1>13, <2>1 DEF EntryBegun
<1>15. ASSUME NEW j \in 1 .. MAX_NUM_WQ - 1
       PROVE  unfetched(j)' = unfetched(j + 1)
  <2>1. Wrap(nic_tail' + j - 1) = Wrap(nic_tail + (j + 1) - 1)
    BY <1>3, <1>4, PlacesMove
  <2>2. Wrap(nic_tail + (j + 1) - 1) \in Slots /\ Wrap(nic_tail + (j + 1) - 1) # nic_tail
    <3>1. j + 1 \in 1 .. MAX_NUM_WQ /\ 1 \in 1 .. MAX_NUM_WQ /\ j + 1 # 1
      BY <1>3
    <3>2. Wrap(nic_tail + 1 - 1) = nic_tail
      BY <1>3, PlacesMove
    <3> QED
      BY <1>3, <3>1, <3>2, Places
  <2>3. unfetched(j)' = q'[Wrap(nic_tail' + j - 1)]
    BY DEF unfetched, Wrap
  <2> QED
    BY <1>6, <2>1, <2>2, <2>3 DEF unfetched
<1>16. EntriesNew'
  <2> SUFFICES ASSUME NEW j \in 1 .. inQueue', ~(pc' = "store" /\ j = inQueue')
               PROVE  /\ unfetched(j)'.valid
                      /\ (unfetched(j)'.SR = nic_SR') <=> SameLap(nic_tail' + j - 1)
    BY DEF EntriesNew, SameLap
  <2>1. /\ j \in 1 .. MAX_NUM_WQ - 1 /\ j + 1 \in 1 .. inQueue
        /\ ~(pc = "store" /\ j + 1 = inQueue)
    <3>1. j \in 1 .. inQueue - 1 /\ ~(pc = "store" /\ j = inQueue - 1)
      BY <1>2, <1>9
    <3> QED
      BY <1>3, <3>1
  <2>2. /\ unfetched(j + 1).valid
        /\ (unfetched(j + 1).SR = nic_SR) <=> SameLap(nic_tail + (j + 1) - 1)
    BY <1>1, <2>1 DEF EntriesNew
  <2>3. unfetched(j + 1).SR \in BOOLEAN
    <3>1. j + 1 \in 1 .. MAX_NUM_WQ
      BY <1>3, <2>1
    <3>2. Wrap(nic_tail + (j + 1) - 1) \in Slots
      BY <1>3, <3>1, Places
    <3> QED
      BY <1>3, <3>2 DEF unfetched, Entry
  <2>4. SameLap(nic_tail' + j - 1)
           <=> (SameLap(nic_tail + (j + 1) - 1) <=> SameLap(nic_tail + 1))
    BY <1>3, <1>4, <2>1 DEF Wrap, SameLap
  <2>5. unfetched(j)' = unfetched(j + 1)
    BY <1>15, <2>1
  <2> QED
    BY <1>2, <1>5, <2>1, <2>2, <2>3, <2>4, <2>5
<1>17. RestFree'
  <2> SUFFICES ASSUME NEW j \in inQueue' + 1 .. MAX_NUM_WQ PROVE ~unfetched(j)'.valid
    BY DEF RestFree
  <2>1. CASE j = MAX_NUM_WQ
    <3>1. Wrap(nic_tail' + j - 1) = nic_tail
      BY <1>3, <1>4, <2>1, PlacesMove
    <3>2. unfetched(j)' = q'[Wrap(nic_tail' + j - 1)]
      BY DEF unfetched, Wrap
    <3> QED
      BY <1>6, <3>1, <3>2
  <2>2. CASE j # MAX_NUM_WQ
    <3>1. j \in 1 .. MAX_NUM_WQ - 1 /\ j + 1 \in inQueue + 1 .. MAX_NUM_WQ
      BY <1>3, <1>9, <2>2
    <3> QED
      BY <1>1, <1>15, <3>1 DEF RestFree
  <2> QED
    BY <2>1, <2>2
<1> QED
  BY <1>10, <1>12, <1>14, <1>16, <1>17 DEF QueueInv

-----------------------------------------------------------------------------
(* What the slots hold. *)

(* Going back round the ring from slot h, and from the one after it.       *)
LEMMA PlacesBack ==
  ASSUME NEW h \in Slots
  PROVE  /\ \A i \in 1 .. MAX_NUM_WQ : Wrap(h + MAX_NUM_WQ - i) \in Slots
         /\ Wrap(h + MAX_NUM_WQ - MAX_NUM_WQ) = h
         /\ Wrap(Wrap(h + 1) + MAX_NUM_WQ - 1) = h
         /\ \A i \in 2 .. MAX_NUM_WQ :
              /\ Wrap(Wrap(h + 1) + MAX_NUM_WQ - i) = Wrap(h + MAX_NUM_WQ - (i - 1))
              /\ Wrap(Wrap(h + 1) + MAX_NUM_WQ - i) # h
BY Constants DEF Wrap, Slots

(* A slot keeps what it holds in every step but a store, also when the NIC *)
(* fetches it.                                                             *)
LEMMA SlotsKept ==
  ASSUME QueueTypes, SlotsHold, UNCHANGED <<posted, todo, nextHead>>, nextHead \in Slots,
         \A s \in Slots : q'[s].op = q[s].op /\ q'[s].buf_addr = q[s].buf_addr
  PROVE  SlotsHold'
<1> SUFFICES ASSUME NEW i \in 1 .. MAX_NUM_WQ, NEW f \in {"op", "buf_addr"}
             PROVE  q'[lastSlot(i)'][f] = Held(Len(posted) + 1 - i, f)'
  BY DEF SlotsHold
<1>1. lastSlot(i)' = lastSlot(i) /\ Held(Len(posted) + 1 - i, f)' = Held(Len(posted) + 1 - i, f)
  BY DEF lastSlot, Wrap, Held, Request
<1>2. lastSlot(i) \in Slots
  BY PlacesBack DEF lastSlot
<1>3. q'[lastSlot(i)][f] = q[lastSlot(i)][f]
  BY <1>2
<1> QED
  BY <1>1, <1>3 DEF SlotsHold

(* An entry that is begun takes over the slot of the entry a lap before.   *)
LEMMA PostHolds ==
  ASSUME QueueInv, SlotsHold, PostBegin, requests \in Seq(Reqs)
  PROVE  SlotsHold'
<1>0. PICK n : n = Len(posted)
  OBVIOUS
<1>1. /\ head \in Slots /\ MAX_NUM_WQ \in Nat \ {0} /\ n \in Nat
      /\ posted \in Seq(Reqs)
  BY <1>0, Constants, Lengths DEF QueueInv, QueueTypes
<1>2. /\ nextHead = head /\ nextHead' = Wrap(head + 1) /\ UNCHANGED q
      /\ todo = {} /\ todo' = Fields
      /\ posted' = Append(posted, Head(requests)) /\ requests # <<>>
  BY DEF PostBegin, QueueInv, EntryBegun, nextHead, Writing, Wrap
<1>3. Len(posted') = n + 1 /\ \A k \in 1 .. n : posted'[k] = posted[k]
  BY <1>0, <1>1, <1>2, HeadTailProperties, AppendProperties
<1>4. ASSUME NEW k \in Int, k <= n
      PROVE  Request(k)' = Request(k)
  <2>1. k > 0 => posted'[k] = posted[k]
    BY <1>1, <1>3, <1>4
  <2> QED
    BY <2>1, Zenon DEF Request
<1>5. ASSUME NEW k \in Int, NEW f
      PROVE  Held(k, f) = Request(k)[f]
  BY <1>2 DEF Held
<1> SUFFICES ASSUME NEW i \in 1 .. MAX_NUM_WQ, NEW f \in {"op", "buf_addr"}
             PROVE  q'[lastSlot(i)'][f] = Held(Len(posted) + 1 - i, f)'
  BY DEF SlotsHold
<1>6. lastSlot(i)' = Wrap(Wrap(head + 1) + MAX_NUM_WQ - i)
  BY <1>2 DEF lastSlot, Wrap
<1>7. \A l \in 1 .. MAX_NUM_WQ :
        q[Wrap(head + MAX_NUM_WQ - l)][f] = Held(n + 1 - l, f)
  BY <1>0, <1>2 DEF SlotsHold, lastSlot
<1>8. CASE i = 1
  <2>1. lastSlot(i)' = head /\ Wrap(head + MAX_NUM_WQ - MAX_NUM_WQ) = head
    BY <1>1, <1>6, <1>8, PlacesBack
  <2>2. q[head][f] = Held(n + 1 - MAX_NUM_WQ, f) /\ n + 1 - MAX_NUM_WQ \in Int
          /\ n + 1 - MAX_NUM_WQ <= n
    <3>1. MAX_NUM_WQ \in 1 .. MAX_NUM_WQ
      BY <1>1
    <3> QED
      BY <1>1, <1>7, <2>1, <3>1
  <2>3. Held(Len(posted) + 1 - i, f)' = Request(n + 1 - MAX_NUM_WQ)'[f]
    <3>1. Len(posted') + 1 - i = Len(posted') /\ f \in todo'
      BY <1>1, <1>2, <1>3, <1>8 DEF Fields
    <3>2. PICK m : m = Len(posted') - MAX_NUM_WQ
      OBVIOUS
    <3>3. Held(Len(posted) + 1 - i, f)' = Request(m)'[f]
      <4>1. Held(Len(posted) + 1 - i, f)' = Request(Len(posted) - MAX_NUM_WQ)'[f]
        BY <3>1, Zenon DEF Held, Request
      <4>2. Request(Len(posted) - MAX_NUM_WQ)' = Request(m)'
        BY <3>2 DEF Request
      <4> QED
        BY <4>1, <4>2, Zenon
    <3>4. m = n + 1 - MAX_NUM_WQ
      BY <1>1, <1>3, <3>2
    <3> QED
      BY <3>3, <3>4
  <2>4. Request(n + 1 - MAX_NUM_WQ)' = Request(n + 1 - MAX_NUM_WQ)
    BY <1>4, <2>2
  <2> QED
    BY <1>2, <1>5, <2>1, <2>2, <2>3, <2>4
<1>9. CASE i # 1
  <2>1. i \in 2 .. MAX_NUM_WQ /\ i - 1 \in 1 .. MAX_NUM_WQ
    BY <1>1, <1>9
  <2>2. lastSlot(i)' = Wrap(head + MAX_NUM_WQ - (i - 1))
    BY <1>1, <1>6, <2>1, PlacesBack
  <2>3. q[Wrap(head + MAX_NUM_WQ - (i - 1))][f] = Held(n + 1 - (i - 1), f)
    BY <1>7, <2>1
  <2>4. /\ n + 1 - (i - 1) = n + 2 - i /\ n + 2 - i \in Int /\ n + 2 - i <= n
        /\ Len(posted') + 1 - i = n + 2 - i /\ n + 2 - i # Len(posted')
    BY <1>1, <1>3, <2>1
  <2>5. Held(Len(posted) + 1 - i, f)' = Request(n + 2 - i)'[f]
    BY <2>4, Zenon DEF Held, Request
  <2>6. Request(n + 2 - i)' = Request(n + 2 - i)
    BY <1>4, <2>4
  <2> QED
    BY <1>2, <1>5, <2>2, <2>3, <2>4, <2>5, <2>6
<1> QED
  BY <1>8, <1>9

(* A store brings one more field of the last entry.                        *)
LEMMA StoreHolds ==
  ASSUME QueueInv, SlotsHold, Store
  PROVE  SlotsHold'
<1>0. PICK n : n = Len(posted)
  OBVIOUS
<1>1. /\ QueueTypes /\ EntryBegun /\ head \in Slots /\ MAX_NUM_WQ \in Nat \ {0} /\ n \in Nat
      /\ posted # <<>>
  BY <1>0, Constants, Lengths DEF QueueInv, QueueTypes, EntryBegun, Store, Writing
<1>2. n > 0
  BY <1>0, <1>1, EmptySeq DEF QueueTypes
<1>3. /\ nextHead = Wrap(head + 1) /\ nextHead' = Wrap(head + 1)
      /\ UNCHANGED <<posted, head>>
  BY DEF Store, nextHead, Writing, Wrap
<1>4. PICK g \in todo :
        /\ todo' = todo \ {g}
        /\ \A s \in Slots : s # head => q'[s] = q[s]
        /\ q'[head].op       = IF g = "op" THEN posted[n].op ELSE q[head].op
        /\ q'[head].buf_addr = IF g = "buf_addr" THEN posted[n].buf_addr ELSE q[head].buf_addr
  BY <1>0, <1>1, OneStore
<1> SUFFICES ASSUME NEW i \in 1 .. MAX_NUM_WQ, NEW f \in {"op", "buf_addr"}
             PROVE  q'[lastSlot(i)'][f] = Held(Len(posted) + 1 - i, f)'
  BY DEF SlotsHold
<1>5. lastSlot(i)' = lastSlot(i) /\ lastSlot(i) = Wrap(Wrap(head + 1) + MAX_NUM_WQ - i)
        /\ Len(posted') = n
  BY <1>0, <1>3 DEF lastSlot, Wrap
<1>6. q[lastSlot(i)][f] = Held(n + 1 - i, f)
  BY <1>0 DEF SlotsHold
<1>7. \A k : Request(k)' = Request(k)
  BY <1>3, Zenon DEF Request
<1>8. CASE i = 1
  <2>1. lastSlot(i) = head /\ n + 1 - i = n
    BY <1>1, <1>5, <1>8, PlacesBack
  <2>2. CASE f = g
    <3>1. q'[head][f] = posted[n][f]
      BY <1>4, <2>2
    <3>2. Held(Len(posted) + 1 - i, f)' = Request(n)'[f]
      BY <1>4, <1>5, <2>1, <2>2 DEF Held, Request
    <3>3. Request(n) = posted[n]
      BY <1>2 DEF Request
    <3> QED
      BY <1>5, <1>7, <2>1, <3>1, <3>2, <3>3
  <2>3. CASE f # g
    <3>1. q'[head][f] = q[head][f] /\ (f \in todo' <=> f \in todo)
      BY <1>4, <2>3
    <3>2. Held(Len(posted) + 1 - i, f)' = Held(n, f)
      BY <1>0, <1>3, <1>5, <2>1, <3>1 DEF Held, Request
    <3> QED
      BY <1>5, <1>6, <2>1, <3>1, <3>2
  <2> QED
    BY <2>2, <2>3
<1>9. CASE i # 1
  <2>1. i \in 2 .. MAX_NUM_WQ /\ n + 1 - i # n
    BY <1>1, <1>9
  <2>2. lastSlot(i) # head /\ lastSlot(i) \in Slots
    <3>1. Wrap(head + 1) \in Slots
      BY <1>1, NextSlot
    <3> QED
      BY <1>1, <1>5, <2>1, <3>1, PlacesBack
  <2>3. Held(Len(posted) + 1 - i, f)' = Request(n + 1 - i)'[f] /\ Held(n + 1 - i, f) = Request(n + 1 - i)[f]
    BY <1>0, <1>5, <2>1 DEF Held, Request
  <2> QED
    BY <1>4, <1>5, <1>6, <1>7, <2>2, <2>3
<1> QED
  BY <1>8, <1>9

(* Where the worker goes on is a slot.                                     *)
LEMMA NextHeadSlot ==
  ASSUME QueueTypes
  PROVE  nextHead \in Slots
BY NextSlot DEF QueueTypes, nextHead

(* The NIC changes valid only.                                             *)
LEMMA FetchHolds ==
  ASSUME QueueInv, SlotsHold, NicFetch
  PROVE  SlotsHold'
<1>1. /\ QueueTypes /\ q \in [Slots -> Entry] /\ nic_tail \in Slots
      /\ q' = [q EXCEPT ![nic_tail].valid = FALSE]
      /\ UNCHANGED <<posted, todo, pc, head>>
  BY DEF QueueInv, QueueTypes, NicFetch
<1>2. ASSUME NEW s \in Slots
      PROVE  q'[s].op = q[s].op /\ q'[s].buf_addr = q[s].buf_addr
  BY <1>1 DEF Entry
<1>3. UNCHANGED nextHead
  BY <1>1 DEF nextHead, Writing, Wrap
<1> QED
  BY <1>1, <1>2, <1>3, SlotsKept, NextHeadSlot

(* When the worker goes on, all the fields have been stored.               *)
LEMMA AdvanceHolds ==
  ASSUME QueueInv, SlotsHold, Advance
  PROVE  SlotsHold'
<1>1. QueueTypes /\ head \in Slots /\ head' = (head + 1) % MAX_NUM_WQ
        /\ pc = "advance" /\ pc' = "post" /\ UNCHANGED <<posted, todo, q>>
  BY DEF QueueInv, QueueTypes, Advance
<1>2. UNCHANGED nextHead
  BY <1>1, NextSlot DEF nextHead, Writing, Wrap
<1> QED
  BY <1>1, <1>2, SlotsKept, NextHeadSlot

-----------------------------------------------------------------------------
(* The invariant is inductive.                                             *)
LEMMA SendStep == SendInv /\ [Next]_vars => SendInv'
<1> SUFFICES ASSUME SendInv, [Next]_vars PROVE SendInv'
  OBVIOUS
<1>1. LoopTypes /\ QueueInv /\ SlotsHold /\ requests \in Seq(Reqs)
  BY DEF SendInv, QueueInv, LoopTypes
<1>2. LoopTypes'
  BY <1>1, LoopTypesStep DEF QueueInv
<1> SUFFICES QueueInv' /\ SlotsHold'
  BY <1>2 DEF SendInv, QueueInv
<1>3. ASSUME UNCHANGED <<wqVars, posted>>, Writing' = Writing
      PROVE  SlotsHold'
  <2>1. UNCHANGED <<posted, todo, q, head>>
    BY <1>3 DEF wqVars
  <2>2. UNCHANGED nextHead /\ QueueTypes
    BY <1>1, <1>3, <2>1 DEF nextHead, Wrap, QueueInv
  <2> QED
    BY <1>1, <2>1, <2>2, SlotsKept, NextHeadSlot
<1>4. CASE Packet \/ Timeout
  <2>1. ~Writing /\ ~Writing' /\ UNCHANGED <<wqVars, nicVars, posted>>
    BY <1>4 DEF Packet, Timeout, Dispatch, Writing
  <2> QED
    BY <1>1, <1>3, <2>1, LoopKeepsQueue DEF Writing
<1>5. CASE BatchDone \/ RecvDropped
  <2>1. ~Writing /\ ~Writing' /\ UNCHANGED <<wqVars, nicVars, posted>>
    BY <1>5 DEF BatchDone, RecvDropped, Writing
  <2> QED
    BY <1>1, <1>3, <2>1, LoopKeepsQueue DEF Writing
<1>6. CASE UNCHANGED vars
  <2>1. UNCHANGED <<wqVars, nicVars, posted, requests, pc>> /\ Writing' = Writing
    BY <1>6 DEF vars, Writing
  <2> QED
    BY <1>1, <1>3, <2>1, LoopKeepsQueue
<1>7. CASE PostBegin
  BY <1>1, <1>7, PostKeepsQueue, PostHolds
<1>8. CASE Store
  BY <1>1, <1>8, StoreKeepsQueue, StoreHolds
<1>9. CASE Notify
  <2>1. UNCHANGED <<posted, todo, q, head>> /\ Writing' = Writing
    BY <1>9 DEF Notify, Writing
  <2>2. UNCHANGED nextHead /\ QueueTypes
    BY <1>1, <2>1 DEF nextHead, Wrap, QueueInv
  <2> QED
    BY <1>1, <1>9, <2>1, <2>2, NotifyKeepsQueue, SlotsKept, NextHeadSlot
<1>10. CASE Advance
  BY <1>1, <1>10, AdvanceKeepsQueue, AdvanceHolds
<1>11. CASE NicFetch
  BY <1>1, <1>11, FetchKeepsQueue, FetchHolds
<1> QED
  BY <1>4, <1>5, <1>6, <1>7, <1>8, <1>9, <1>10, <1>11 DEF Next

(* The inductive invariant holds always.                                   *)
LEMMA SendInvariant == Spec => []SendInv
BY SendInit, SendStep, PTL DEF Spec

-----------------------------------------------------------------------------
(* What a notified NIC finds is the next request posted, for any order of  *)
(* the stores of create_wq_entry, any size of the ring and any lap; a      *)
(* field can be wrong only while its store has still to come.              *)
THEOREM EntriesWholeOnceStored == Spec => []WholeOnceStored
<1>1. SendInv => WholeOnceStored
  <2> SUFFICES ASSUME SendInv, notifications > 0
               PROVE  /\ fetched + 1 <= Len(posted)
                      /\ \A f \in {"op", "buf_addr"} : q[nic_tail][f] = Held(fetched + 1, f)
    BY DEF WholeOnceStored, Held
  <2>1. /\ QueueTypes /\ Distance /\ SlotsHold
        /\ nic_tail \in 0 .. MAX_NUM_WQ - 1 /\ MAX_NUM_WQ \in Nat \ {0}
        /\ Len(posted) \in Nat /\ fetched \in Nat
    BY Constants, Lengths DEF SendInv, QueueTypes, Slots
  <2>2. inQueue \in 1 .. MAX_NUM_WQ /\ nextHead = Wrap(nic_tail + inQueue)
    BY <2>1 DEF Distance
  <2>3. fetched + 1 <= Len(posted) /\ Len(posted) + 1 - inQueue = fetched + 1
    BY <2>1, <2>2 DEF inQueue
  <2>4. lastSlot(inQueue) = nic_tail
    BY <2>1, <2>2 DEF lastSlot, Wrap
  <2> QED
    BY <2>1, <2>2, <2>3, <2>4 DEF SlotsHold
<1> QED
  BY <1>1, SendInvariant, PTL

(* Every notification finds a new entry and every entry has one.           *)
THEOREM WakeupsNotLost == Spec => []NoLostWakeup
<1>1. SendInv => NoLostWakeup
  <2> SUFFICES ASSUME SendInv PROVE NoLostWakeup
    OBVIOUS
  <2>1. /\ QueueTypes /\ Distance /\ EntriesNew /\ nic_tail \in Slots
        /\ MAX_NUM_WQ \in Nat \ {0} /\ inQueue \in 0 .. MAX_NUM_WQ
    BY Constants DEF SendInv, QueueTypes, Distance
  <2>2. ASSUME notifications > 0 PROVE New
    <3>1. 1 \in 1 .. inQueue /\ ~(pc = "store" /\ 1 = inQueue)
      BY <2>1, <2>2 DEF Distance
    <3>2. Wrap(nic_tail + 1 - 1) = nic_tail /\ SameLap(nic_tail + 1 - 1)
      BY <2>1 DEF Wrap, SameLap, Slots
    <3> QED
      BY <2>1, <3>1, <3>2 DEF EntriesNew, unfetched, New
  <2>3. pc # "store" => notifications = Len(posted) - fetched
    BY <2>1 DEF Distance, inQueue
  <2> QED
    BY <2>2, <2>3 DEF NoLostWakeup
<1> QED
  BY <1>1, SendInvariant, PTL
-----------------------------------------------------------------------------
(* Remainders. *)

(* Quotient and remainder are unique. *)
LEMMA RemainderUnique ==
  ASSUME NEW m \in Nat \ {0}, NEW a \in Int, NEW r \in 0 .. m - 1
  PROVE  (m * a + r) % m = r
OBVIOUS

(* Taking away laps does not change where one is in a lap. *)
LEMMA RemainderShift ==
  ASSUME NEW m \in Nat \ {0}, NEW n \in Int, NEW a \in Int
  PROVE  (n - m * a) % m = n % m
<1> DEFINE b == n \div m
           r == n % m
<1>1. b \in Int /\ r \in 0 .. m - 1 /\ n = m * b + r
  OBVIOUS
<1> HIDE DEF b, r
<1>2. n - m * a = m * (b - a) + r /\ b - a \in Int
  BY <1>1
<1>3. (m * (b - a) + r) % m = r
  BY <1>1, <1>2, RemainderUnique
<1> QED
  BY <1>2, <1>3 DEF r

(* Products grow with their factors. *)
LEMMA ProductGrows ==
  ASSUME NEW m \in Nat, NEW x \in Int, NEW y \in Int, x <= y
  PROVE  m * x <= m * y /\ (x < y => m * x + m <= m * y)
<1>1. m * (y - x) = m * y - m * x /\ y - x \in Nat
  OBVIOUS
<1>2. m * (y - x) >= 0 /\ (y - x >= 1 => m * (y - x) >= m)
  <2>1. y - x >= 1 => m * (y - x) = m * (y - x - 1) + m /\ y - x - 1 \in Nat
    OBVIOUS
  <2>2. y - x >= 1 => m * (y - x - 1) >= 0
    BY <2>1
  <2>3. y - x < 1 => m * (y - x) = 0
    BY <1>1
  <2> QED
    BY <1>1, <2>1, <2>2, <2>3
<1> QED
  BY <1>1, <1>2

(* Two numbers with one remainder are equal or at least a lap apart. *)
LEMMA LapApart ==
  ASSUME NEW m \in Nat \ {0}, NEW a \in Int, NEW b \in Int, a < b, a % m = b % m
  PROVE  b - a >= m
<1> DEFINE x == a \div m
           y == b \div m
           r == a % m
<1>1. x \in Int /\ y \in Int /\ r \in 0 .. m - 1 /\ a = m * x + r /\ b = m * y + r
  OBVIOUS
<1> HIDE DEF x, y, r
<1>2. x < y
  <2>1. y <= x => m * y <= m * x
    BY <1>1, ProductGrows
  <2> QED
    BY <1>1, <2>1
<1>3. m * x + m <= m * y
  BY <1>1, <1>2, ProductGrows
<1> QED
  BY <1>1, <1>3

(* Quotients grow with their dividends. *)
LEMMA QuotientGrows ==
  ASSUME NEW m \in Nat \ {0}, NEW a \in Nat, NEW b \in Nat, a <= b
  PROVE  a \div m \in Nat /\ b \div m \in Nat /\ a \div m <= b \div m
<1> DEFINE x == a \div m
           y == b \div m
           r == a % m
           s == b % m
<1>1. /\ x \in Nat /\ y \in Nat /\ r \in 0 .. m - 1 /\ s \in 0 .. m - 1
      /\ a = m * x + r /\ b = m * y + s
  OBVIOUS
<1> HIDE DEF x, y, r, s
<1>2. x <= y
  <2>1. y < x => m * y + m <= m * x
    BY <1>1, ProductGrows
  <2> QED
    BY <1>1, <2>1
<1> QED
  BY <1>1, <1>2 DEF x, y

(* Where an int turns negative. *)
firstNegative == IntMod \div 2

(* The send buffers are taken in turn whatever the int of the count: the   *)
(* unsigned count is a multiple of MSGS_PER_PAIR away from the true one.   *)
LEMMA BufferOfCount ==
  ASSUME NEW r \in Nat, NEW x \in Int
  PROVE  lbuf_offset(AsInt(r) + x) = (r + x) % MSGS_PER_PAIR
<1> DEFINE M == IntMod
           P == MSGS_PER_PAIR
           c == IntMod \div MSGS_PER_PAIR
<1>1. M \in Nat \ {0} /\ P \in Nat \ {0} /\ c \in Int /\ M = P * c
  <2>1. IntMod \in Nat \ {0} /\ MSGS_PER_PAIR \in Nat \ {0} /\ IntMod % MSGS_PER_PAIR = 0
    BY SendPathAssumption
  <2> QED
    BY <2>1
<1>2. PICK a \in Int : AsInt(r) = r - M * a
  <2>1. r \div M \in Int /\ r % M = r - M * (r \div M) /\ (r % M) - M = r - M * (r \div M + 1)
    BY <1>1
  <2> QED
    BY <2>1 DEF AsInt
<1> DEFINE n == AsInt(r) + x
           b == n \div M
<1>3. n \in Int /\ n = r + x - M * a
  BY <1>1, <1>2
<1>4. lbuf_offset(AsInt(r) + x) = (n % M) % P
  BY DEF lbuf_offset, AsUnsigned
<1> HIDE DEF n
<1>5. b \in Int /\ n % M = n - M * b
  BY <1>1, <1>3
<1> HIDE DEF b, M, P, c
<1>6. n % M = (r + x) - P * (c * a + c * b) /\ c * a + c * b \in Int
  <2>1. M * a = P * (c * a) /\ M * b = P * (c * b) /\ c * a \in Int /\ c * b \in Int
    BY <1>1, <1>2, <1>5
  <2>2. P * (c * a) + P * (c * b) = P * (c * a + c * b)
    BY <1>1, <2>1
  <2> QED
    BY <1>1, <1>3, <1>5, <2>1, <2>2
<1>7. ((r + x) - P * (c * a + c * b)) % P = (r + x) % P
  <2> DEFINE y == r + x
             z == c * a + c * b
  <2>1. y \in Int /\ z \in Int /\ P \in Nat \ {0}
    BY <1>1, <1>6
  <2> HIDE DEF y, z
  <2>2. (y - P * z) % P = y % P
    BY <2>1, RemainderShift
  <2> QED
    BY <2>2 DEF y, z
<1> QED
  BY <1>4, <1>6, <1>7 DEF P

(* The warm-up test comes true again only where the count overflows. *)
LEMMA TestHoldsAgain ==
  ASSUME NEW r \in Nat \ {0}, AsInt(r - 1) >= WARMUP, AsInt(r) < WARMUP
  PROVE  r % IntMod = firstNegative
<1> DEFINE M == IntMod
           u == (r - 1) % M
           v == r % M
           h == M \div 2
<1>1. M \in Nat \ {0} /\ WARMUP \in Nat /\ h \in Nat /\ h < M
  BY SendPathAssumption
<1>2. /\ u \in 0 .. M - 1 /\ v \in 0 .. M - 1
      /\ v = IF u + 1 < M THEN u + 1 ELSE 0
  <2>1. r - 1 \in Nat
    OBVIOUS
  <2> DEFINE a == (r - 1) \div M
  <2>2. a \in Int /\ u \in 0 .. M - 1 /\ v \in 0 .. M - 1 /\ r - 1 = M * a + u
    BY <1>1, <2>1
  <2> HIDE DEF a, u, v, M
  <2>3. CASE u + 1 < M
    <3>1. r = M * a + (u + 1) /\ u + 1 \in 0 .. M - 1
      BY <1>1, <2>2, <2>3
    <3>2. (M * a + (u + 1)) % M = u + 1
      BY <1>1, <2>2, <3>1, RemainderUnique
    <3> QED
      BY <2>2, <2>3, <3>1, <3>2 DEF v
  <2>4. CASE ~(u + 1 < M)
    <3>1. r = M * (a + 1) + 0 /\ a + 1 \in Int /\ 0 \in 0 .. M - 1
      BY <1>1, <2>2, <2>4
    <3>2. (M * (a + 1) + 0) % M = 0
      BY <1>1, <3>1, RemainderUnique
    <3> QED
      BY <2>2, <2>4, <3>1, <3>2 DEF v
  <2> QED
    BY <2>3, <2>4
<1>3. /\ AsInt(r - 1) = IF u < h THEN u ELSE u - M
      /\ AsInt(r) = IF v < h THEN v ELSE v - M
  BY DEF AsInt
<1> HIDE DEF u, v, h, M
<1>4. v = h
  BY <1>1, <1>2, <1>3
<1> QED
  BY <1>4 DEF v, h, M, firstNegative

(* How often the count was incremented past its largest value. *)
passed(r) == (r + IntMod - 1 - firstNegative) \div IntMod

(* It grows with the packets, and where the int turns negative. *)
LEMMA PassedGrows ==
  ASSUME NEW r \in Nat
  PROVE  /\ passed(r) \in Nat /\ passed(r + 1) \in Nat /\ passed(r) <= passed(r + 1)
         /\ r % IntMod = firstNegative => passed(r) + 1 <= passed(r + 1)
         /\ passed(r) <= (r + IntMod \div 2) \div IntMod
<1> DEFINE M == IntMod
           h == M \div 2
           n == r + M - 1 - h
<1>1. M \in Nat \ {0} /\ h \in Nat /\ h < M /\ M <= 2 * h + 1
  BY SendPathAssumption
<1>2. n \in Nat /\ n + 1 = (r + 1) + M - 1 - h /\ n <= r + h /\ r + h \in Nat
  BY <1>1
<1>3. passed(r) = n \div M /\ passed(r + 1) = (n + 1) \div M
  BY <1>2 DEF passed, firstNegative
<1>4. ASSUME r % M = h PROVE n \div M + 1 <= (n + 1) \div M
  <2> DEFINE a == r \div M
  <2>1. a \in Int /\ r = M * a + h
    BY <1>1, <1>4
  <2> HIDE DEF a, h
  <2>2. n = M * a + (M - 1) /\ n + 1 = M * (a + 1) + 0 /\ M - 1 \in 0 .. M - 1
    BY <1>1, <2>1
  <2>3. ASSUME NEW x \in Int, NEW s \in 0 .. M - 1 PROVE (M * x + s) \div M = x
    BY <1>1
  <2>4. (M * a + (M - 1)) \div M = a /\ (M * (a + 1) + 0) \div M = a + 1
    BY <1>1, <2>1, <2>2, <2>3
  <2> QED
    BY <2>1, <2>2, <2>4
<1> HIDE DEF n, M, h
<1>5. n \div M \in Nat /\ (n + 1) \div M \in Nat /\ n \div M <= (n + 1) \div M
  BY <1>1, <1>2, QuotientGrows
<1>6. n \div M <= (r + h) \div M
  BY <1>1, <1>2, QuotientGrows
<1> QED
  BY <1>3, <1>4, <1>5, <1>6 DEF M, h, firstNegative

-----------------------------------------------------------------------------
(* The numbers of the replies.  A reply's number is what tmp_count would   *)
(* have made it if it did not wrap: it is one more than the number before, *)
(* unless a batch was cut short at an overflow, which skips some numbers.  *)

(* The j-th and the k-th number differ by as much as their places, unless  *)
(* numbers were skipped in between.  The last skip then led to a count     *)
(* that overflowed, and there was only one, of less than a batch, unless   *)
(* nearly all values of the int were counted through.                      *)
InStep(S, j, k) ==
  /\ S[k] - S[j] >= k - j
  /\ S[k] - S[j] # k - j =>
       \E l \in j + 1 .. k : S[k] - S[l] = k - l /\ S[l] % IntMod = firstNegative
  /\ S[k] - S[j] <= k - j + BatchSize - 1 \/ k - j > IntMod - BatchSize

Numbered(S) == \A k \in 1 .. Len(S) : \A j \in 1 .. k - 1 : InStep(S, j, k)

(* The number after those in S if none is skipped. *)
following(S) == IF S = <<>> THEN 0 ELSE S[Len(S)] + 1

(* All numbers are below the following one. *)
LEMMA BelowFollowing ==
  ASSUME NEW S \in Seq(Nat), Numbered(S)
  PROVE  /\ following(S) \in Nat /\ Len(S) \in Nat
         /\ \A j \in 1 .. Len(S) : S[j] \in Nat /\ S[j] + 1 <= following(S)
<1>1. Len(S) \in Nat /\ \A j \in 1 .. Len(S) : S[j] \in Nat
  BY LenProperties, ElementOfSeq
<1>2. CASE S = <<>>
  <2>1. Len(S) = 0 /\ following(S) = 0
    BY <1>2 DEF following
  <2> QED
    BY <2>1
<1>3. CASE S # <<>>
  <2>1. Len(S) \in 1 .. Len(S) /\ following(S) = S[Len(S)] + 1
    BY <1>1, <1>3, EmptySeq DEF following
  <2>2. ASSUME NEW j \in 1 .. Len(S) PROVE S[j] <= S[Len(S)]
    <3>1. CASE j = Len(S)
      BY <1>1, <3>1
    <3>2. CASE j # Len(S)
      <4>1. j \in 1 .. Len(S) - 1
        BY <1>1, <3>2
      <4>2. S[Len(S)] - S[j] >= Len(S) - j
        BY <2>1, <4>1 DEF Numbered, InStep
      <4> QED
        BY <1>1, <2>1, <4>1, <4>2
    <3> QED
      BY <3>1, <3>2
  <2> QED
    BY <1>1, <2>1, <2>2
<1> QED
  BY <1>2, <1>3

(* A number further on, at most a batch, and none skipped or an overflow.  *)
LEMMA NumberedAppend ==
  ASSUME NEW S \in Seq(Nat), Numbered(S), NEW g \in 0 .. BatchSize - 1,
         g # 0 => (following(S) + g) % IntMod = firstNegative
  PROVE  /\ Append(S, following(S) + g) \in Seq(Nat)
         /\ Numbered(Append(S, following(S) + g))
         /\ following(Append(S, following(S) + g)) = following(S) + g + 1
<1> DEFINE n == Len(S)
           s == following(S) + g
           T == Append(S, s)
<1>1. /\ n \in Nat /\ s \in Nat /\ BatchSize \in Nat \ {0} /\ IntMod \in Nat \ {0}
      /\ g \in Nat
      /\ \A j \in 1 .. n : S[j] \in Nat /\ S[j] < s
  BY BelowFollowing, Constants
<1>2. T \in Seq(Nat) /\ Len(T) = n + 1 /\ T[n + 1] = s /\ \A j \in 1 .. n : T[j] = S[j]
  BY <1>1, AppendProperties
<1>3. ASSUME NEW k \in 1 .. n, NEW j \in 1 .. k - 1 PROVE InStep(T, j, k)
  <2>1. InStep(S, j, k)
    BY <1>3 DEF Numbered
  <2>2. j \in 1 .. n /\ T[k] = S[k] /\ \A l \in j .. k : l \in 1 .. n /\ T[l] = S[l]
    BY <1>1, <1>2
  <2>3. j \in j .. k
    BY <1>1
  <2> HIDE DEF T, n
  <2>4. ASSUME T[k] - T[j] # k - j
        PROVE  \E l \in j + 1 .. k : T[k] - T[l] = k - l /\ T[l] % IntMod = firstNegative
    <3>1. PICK l \in j + 1 .. k : S[k] - S[l] = k - l /\ S[l] % IntMod = firstNegative
      BY <2>1, <2>2, <2>3, <2>4 DEF InStep
    <3>2. l \in j .. k
      BY <1>1
    <3> QED
      BY <2>2, <3>1, <3>2
  <2>5. /\ T[k] - T[j] >= k - j
        /\ T[k] - T[j] <= k - j + BatchSize - 1 \/ k - j > IntMod - BatchSize
    BY <2>1, <2>2, <2>3 DEF InStep
  <2> QED
    BY <2>4, <2>5 DEF InStep
<1>4. ASSUME NEW j \in 1 .. n PROVE InStep(T, j, n + 1)
  <2> DEFINE a == S[n]
             b == S[j]
  <2>1. /\ n \in 1 .. n /\ S # <<>> /\ s = a + 1 + g /\ a \in Nat /\ b \in Nat
        /\ a - b >= n - j /\ T[j] = b
    <3>1. n \in 1 .. n /\ S # <<>>
      BY <1>1, EmptySeq
    <3>2. a - b >= n - j
      <4>1. CASE j = n
        BY <1>1, <3>1, <4>1
      <4>2. CASE j # n
        <5>1. j \in 1 .. n - 1
          BY <1>1, <4>2
        <5> QED
          BY <3>1, <5>1 DEF Numbered, InStep
      <4> QED
        BY <4>1, <4>2
    <3> QED
      BY <1>1, <1>2, <3>1, <3>2 DEF following
  <2> HIDE DEF n, s, T, a, b
  <2>2. T[n + 1] - T[j] >= (n + 1) - j
    BY <1>1, <1>2, <2>1
  <2>3. a - b # n - j => \E l \in j + 1 .. n : a - S[l] = n - l /\ S[l] % IntMod = firstNegative
    <3>1. CASE j = n
      BY <1>1, <2>1, <3>1 DEF a, b
    <3>2. CASE j # n
      <4>1. j \in 1 .. n - 1
        BY <1>1, <3>2
      <4> QED
        BY <2>1, <4>1 DEF Numbered, InStep, a, b, n
    <3> QED
      BY <3>1, <3>2
  <2>4. ASSUME T[n + 1] - T[j] # (n + 1) - j
        PROVE  \E l \in j + 1 .. n + 1 :
                 T[n + 1] - T[l] = (n + 1) - l /\ T[l] % IntMod = firstNegative
    <3>1. CASE g # 0
      <4>1. n + 1 \in j + 1 .. n + 1 /\ T[n + 1] - T[n + 1] = (n + 1) - (n + 1)
        BY <1>1, <1>2
      <4>2. T[n + 1] % IntMod = firstNegative
        BY <1>2, <3>1 DEF s
      <4> QED
        BY <4>1, <4>2
    <3>2. CASE g = 0
      <4>1. a - b # n - j
        BY <1>1, <1>2, <2>1, <2>4, <3>2
      <4>2. PICK l \in j + 1 .. n : a - S[l] = n - l /\ S[l] % IntMod = firstNegative
        BY <2>3, <4>1
      <4>3. l \in 1 .. n /\ l \in j + 1 .. n + 1 /\ T[l] = S[l]
        BY <1>1, <1>2
      <4>4. T[n + 1] - T[l] = (n + 1) - l
        <5>1. a - S[l] = n - l /\ S[l] \in Nat /\ T[l] = S[l] /\ l \in Int
          BY <1>1, <4>2, <4>3
        <5>2. T[n + 1] = s /\ s = a + 1 + g /\ n \in Nat /\ a \in Nat
          BY <1>1, <1>2, <2>1
        <5> QED
          BY <3>2, <5>1, <5>2
      <4> QED
        BY <4>2, <4>3, <4>4
    <3> QED
      BY <3>1, <3>2
  <2>5. T[n + 1] - T[j] <= (n + 1) - j + BatchSize - 1 \/ (n + 1) - j > IntMod - BatchSize
    <3>1. CASE g = 0
      <4>1. a - b <= n - j + BatchSize - 1 \/ n - j > IntMod - BatchSize
        <5>1. CASE j = n
          BY <1>1, <2>1, <5>1 DEF a, b
        <5>2. CASE j # n
          <6>1. j \in 1 .. n - 1
            BY <1>1, <5>2
          <6> QED
            BY <2>1, <6>1 DEF Numbered, InStep, a, b, n
        <5> QED
          BY <5>1, <5>2
      <4> QED
        BY <1>1, <1>2, <2>1, <3>1, <4>1
    <3>2. CASE g # 0 /\ a - b = n - j
      BY <1>1, <1>2, <2>1, <3>2
    <3>3. CASE g # 0 /\ a - b # n - j
      <4>1. PICK l \in j + 1 .. n : a - S[l] = n - l /\ S[l] % IntMod = firstNegative
        BY <2>3, <3>3
      <4>2. l \in 1 .. n
        BY <1>1
      <4>3. S[l] \in Nat /\ S[l] < s /\ s % IntMod = firstNegative
        BY <1>1, <3>3, <4>2 DEF s
      <4>4. s - S[l] >= IntMod
        BY <1>1, <4>1, <4>3, LapApart
      <4>5. n - l + 1 + g >= IntMod
        <5>1. a - S[l] = n - l /\ S[l] \in Nat
          BY <4>1, <4>3
        <5> QED
          BY <1>1, <2>1, <4>4, <5>1
      <4>6. l \in j + 1 .. n
        OBVIOUS
      <4> QED
        BY <1>1, <4>5, <4>6
    <3> QED
      BY <3>1, <3>2, <3>3
  <2> QED
    BY <2>2, <2>4, <2>5 DEF InStep
<1>5. Numbered(T)
  <2> SUFFICES ASSUME NEW k \in 1 .. n + 1, NEW j \in 1 .. k - 1 PROVE InStep(T, j, k)
    BY <1>2 DEF Numbered
  <2>1. k \in 1 .. n \/ (k = n + 1 /\ j \in 1 .. n)
    BY <1>1
  <2> QED
    BY <1>3, <1>4, <2>1
<1>6. following(T) = s + 1
  <2>1. T # <<>>
    BY <1>1, <1>2, EmptySeq
  <2> QED
    BY <1>2, <2>1 DEF following
<1> QED
  BY <1>1, <1>2, <1>5, <1>6
-----------------------------------------------------------------------------
(* The requests of a batch. *)

(* Replies still to come among the requests C: they alternate with the     *)
(* returns of receive slots, which come second.                            *)
left(C) == Len(C) \div 2

(* Counted from the end, the requests answer the last of r packets, from   *)
(* the buffers with the last numbers; a batch cut short answers packets g  *)
(* before those.                                                           *)
WellFormed(C, r, g) ==
  \A k \in 1 .. Len(C) :
    LET m == (Len(C) - k) \div 2 + 1
    IN  IF (Len(C) - k) % 2 = 1
          THEN /\ C[k].op = "SEND"
               /\ C[k].buf_addr = <<r - m + 1 - g, (r - m) % MSGS_PER_PAIR>>
          ELSE C[k].op = "RECV"

(* The rest of the requests. *)
LEMMA TailWellFormed ==
  ASSUME NEW C \in Seq(Reqs), NEW r \in Nat, NEW g \in Nat, C # <<>>, WellFormed(C, r, g)
  PROVE  /\ Tail(C) \in Seq(Reqs) /\ Len(Tail(C)) = Len(C) - 1
         /\ WellFormed(Tail(C), r, g)
<1>1. /\ Tail(C) \in Seq(Reqs) /\ Len(C) \in Nat /\ Len(Tail(C)) = Len(C) - 1
      /\ \A k \in 1 .. Len(Tail(C)) : Tail(C)[k] = C[k + 1]
  BY HeadTailProperties, LenProperties
<1>2. ASSUME NEW k \in 1 .. Len(Tail(C))
      PROVE  k + 1 \in 1 .. Len(C) /\ Len(Tail(C)) - k = Len(C) - (k + 1)
  BY <1>1
<1>3. WellFormed(Tail(C), r, g)
  <2> SUFFICES ASSUME NEW k \in 1 .. Len(Tail(C))
               PROVE  LET m == (Len(Tail(C)) - k) \div 2 + 1
                      IN  IF (Len(Tail(C)) - k) % 2 = 1
                            THEN /\ Tail(C)[k].op = "SEND"
                                 /\ Tail(C)[k].buf_addr = <<r - m + 1 - g, (r - m) % MSGS_PER_PAIR>>
                            ELSE Tail(C)[k].op = "RECV"
    BY Zenon DEF WellFormed
  <2>1. k + 1 \in 1 .. Len(C) /\ Len(Tail(C)) - k = Len(C) - (k + 1) /\ Tail(C)[k] = C[k + 1]
    BY <1>1, <1>2
  <2> QED
    BY <2>1, Zenon DEF WellFormed
<1> QED
  BY <1>1, <1>3

(* The first of the requests. *)
LEMMA HeadWellFormed ==
  ASSUME NEW C \in Seq(Reqs), NEW r \in Nat, NEW g \in Nat, C # <<>>, WellFormed(C, r, g)
  PROVE  /\ left(C) \in Nat /\ left(Tail(C)) \in Nat
         /\ C[1].op = "SEND" =>
              /\ C[1].buf_addr = <<r - left(C) + 1 - g, (r - left(C)) % MSGS_PER_PAIR>>
              /\ left(C) = left(Tail(C)) + 1
         /\ C[1].op # "SEND" => left(C) = left(Tail(C))
<1> DEFINE n == Len(C)
           m == (n - 1) \div 2 + 1
<1>1. n \in Nat \ {0} /\ 1 \in 1 .. n /\ Len(Tail(C)) = n - 1
  BY HeadTailProperties, LenProperties, EmptySeq
<1>2. IF (n - 1) % 2 = 1
        THEN C[1].op = "SEND" /\ C[1].buf_addr = <<r - m + 1 - g, (r - m) % MSGS_PER_PAIR>>
        ELSE C[1].op = "RECV"
  BY <1>1, Zenon DEF WellFormed
<1>3. /\ left(C) = n \div 2 /\ left(Tail(C)) = (n - 1) \div 2
      /\ left(C) \in Nat /\ left(Tail(C)) \in Nat
  BY <1>1 DEF left
<1>4. CASE (n - 1) % 2 = 1
  <2>1. m = n \div 2 /\ n \div 2 = (n - 1) \div 2 + 1
    BY <1>1, <1>4
  <2>2. C[1].op = "SEND" /\ C[1].buf_addr = <<r - m + 1 - g, (r - m) % MSGS_PER_PAIR>>
    BY <1>2, <1>4
  <2>3. m = left(C) /\ left(C) = left(Tail(C)) + 1
    BY <1>3, <2>1
  <2> HIDE DEF m, n
  <2> QED
    BY <1>3, <2>2, <2>3, Zenon
<1>5. CASE (n - 1) % 2 # 1
  <2>1. n \div 2 = (n - 1) \div 2
    BY <1>1, <1>5
  <2>2. C[1].op = "RECV"
    BY <1>2, <1>5
  <2>3. C[1].op # "SEND"
    BY <2>2
  <2> QED
    BY <1>3, <2>1, <2>3, Zenon
<1> QED
  BY <1>4, <1>5

(* The requests for the last packets received, all of them or, in a batch  *)
(* cut short, the first batch_size.                                        *)
LEMMA BatchWellFormed ==
  ASSUME NEW r \in Nat, NEW batch \in Seq(Nat), Len(batch) <= r,
         \A i \in 1 .. Len(batch) : batch[i] = r - Len(batch) + i,
         NEW batch_size \in 1 .. Len(batch)
  PROVE  /\ BatchRequests(batch, AsInt(r), batch_size) \in Seq(Reqs)
         /\ Len(BatchRequests(batch, AsInt(r), batch_size)) = 2 * batch_size
         /\ WellFormed(BatchRequests(batch, AsInt(r), batch_size), r, Len(batch) - batch_size)
<1> DEFINE C == BatchRequests(batch, AsInt(r), batch_size)
           L == Len(batch)
<1>1. L \in Nat /\ batch_size \in Nat /\ batch_size <= L /\ AsInt(r) \in Int
  BY LenProperties, Conversions
<1>2. C \in Seq(Reqs)
  BY <1>1, RequestsType
<1>3. Len(C) = 2 * batch_size
  <2>1. DOMAIN C = 1 .. 2 * batch_size /\ 2 * batch_size \in Nat
    BY <1>1 DEF BatchRequests
  <2> QED
    BY <1>2, <2>1, LenProperties
<1>4. ASSUME NEW k \in 1 .. 2 * batch_size
      PROVE  LET m == (2 * batch_size - k) \div 2 + 1
             IN  IF (2 * batch_size - k) % 2 = 1
                   THEN /\ C[k].op = "SEND"
                        /\ C[k].buf_addr = <<r - m + 1 - (L - batch_size), (r - m) % MSGS_PER_PAIR>>
                   ELSE C[k].op = "RECV"
  <2> DEFINE i == (k - 1) \div 2
             m == (2 * batch_size - k) \div 2 + 1
  <2>1. C[k] = IF k % 2 = 1
                 THEN [op |-> "SEND",
                       buf_addr |-> <<batch[i + 1], lbuf_offset((AsInt(r) - batch_size) + i)>>]
                 ELSE [op |-> "RECV", buf_addr |-> <<batch[i + 1]>>]
    BY DEF BatchRequests
  <2>2. (2 * batch_size - k) % 2 = 1 <=> k % 2 = 1
    BY <1>1
  <2>3. ASSUME k % 2 = 1
        PROVE  C[k].op = "SEND" /\ C[k].buf_addr = <<r - m + 1 - (L - batch_size), (r - m) % MSGS_PER_PAIR>>
    <3>1. i \in 0 .. batch_size - 1 /\ m = batch_size - i
      BY <1>1, <2>3
    <3> DEFINE u == batch[i + 1]
               w == lbuf_offset((AsInt(r) - batch_size) + i)
    <3>2. C[k] = [op |-> "SEND", buf_addr |-> <<u, w>>]
      BY <2>1, <2>3
    <3> HIDE DEF i, m, C, L
    <3>3. u = r - m + 1 - (L - batch_size)
      <4>1. i + 1 \in 1 .. L
        BY <1>1, <3>1
      <4>2. batch[i + 1] = r - L + (i + 1)
        BY <4>1 DEF L
      <4> QED
        BY <1>1, <3>1, <4>2
    <3>4. w = (r - m) % MSGS_PER_PAIR
      <4>1. (AsInt(r) - batch_size) + i = AsInt(r) + (i - batch_size) /\ i - batch_size \in Int
        BY <1>1, <3>1
      <4>2. lbuf_offset(AsInt(r) + (i - batch_size)) = (r + (i - batch_size)) % MSGS_PER_PAIR
        BY <4>1, BufferOfCount
      <4>3. r + (i - batch_size) = r - m
        BY <1>1, <3>1
      <4> QED
        BY <4>1, <4>2, <4>3
    <3> HIDE DEF u, w
    <3> QED
      BY <3>2, <3>3, <3>4
  <2>4. ASSUME k % 2 # 1 PROVE C[k].op = "RECV"
    BY <2>1, <2>4
  <2> QED
    BY <2>2, <2>3, <2>4
<1>5. WellFormed(C, r, L - batch_size)
  BY <1>3, <1>4, Zenon DEF WellFormed
<1> QED
  BY <1>2, <1>3, <1>5
-----------------------------------------------------------------------------
(* The replies, those posted and those to come.                            *)

(* Reply k was posted from the buffer that its number gives.  It answers   *)
(* the packet of that number, or in a batch cut short an earlier one, but  *)
(* later than all packets that were answered before.                       *)
Labelled(S, R) ==
  /\ R \in Seq(Seq(Nat)) /\ Len(R) = Len(S)
  /\ \A k \in 1 .. Len(R) :
       /\ R[k][1] \in Nat /\ R[k][1] <= S[k] + 1
       /\ R[k][2] = S[k] % MSGS_PER_PAIR
       /\ \A j \in 1 .. k - 1 : S[j] + 1 < R[k][1]

(* Every one of r packets has been given a number: those of the replies    *)
(* posted, of the g packets that the batch leaves out, of the replies to   *)
(* come and of the L packets of the open batch.  Packets are left out only *)
(* by a batch of one, which the packet that overflows the count closes.    *)
Accounted(S, g, R, C, r, L) ==
  /\ Numbered(S) /\ Labelled(S, R) /\ WellFormed(C, r, g)
  /\ r = following(S) + g + left(C) + L
  /\ g # 0 => left(C) = 1 /\ (r - 1) % IntMod = firstNegative
  /\ r - Len(R) - left(C) - L <= passed(r) * (BatchSize - 1)

(* The last request is a return. *)
LEMMA Zero == (1 - 1) % 2 # 1 /\ 1 \in 1 .. 1 /\ \A k \in 1 .. 1 : k = 1
OBVIOUS

(* A reply is posted. *)
LEMMA AccountedSend ==
  ASSUME NEW S \in Seq(Nat), NEW g \in 0 .. BatchSize - 1, NEW R, NEW C \in Seq(Reqs),
         NEW r \in Nat, Accounted(S, g, R, C, r, 0), C # <<>>, C[1].op = "SEND"
  PROVE  \E T \in Seq(Nat) : Accounted(T, 0, Append(R, C[1].buf_addr), Tail(C), r, 0)
<1> DEFINE s == following(S) + g
           T == Append(S, s)
           b == C[1].buf_addr
           l == left(C)
           n == Len(S)
<1>1. /\ Numbered(S) /\ Labelled(S, R) /\ WellFormed(C, r, g)
      /\ r = following(S) + g + l + 0
      /\ g # 0 => l = 1 /\ (r - 1) % IntMod = firstNegative
      /\ r - Len(R) - l - 0 <= passed(r) * (BatchSize - 1)
  BY DEF Accounted
<1>2. /\ g \in Nat /\ BatchSize \in Nat \ {0} /\ following(S) \in Nat /\ n \in Nat
      /\ \A j \in 1 .. n : S[j] \in Nat /\ S[j] + 1 <= following(S)
  BY <1>1, Constants, BelowFollowing
<1>3. /\ l \in Nat /\ left(Tail(C)) \in Nat /\ l = left(Tail(C)) + 1
      /\ b = <<r - l + 1 - g, (r - l) % MSGS_PER_PAIR>>
  BY <1>1, <1>2, HeadWellFormed
<1>4. /\ Tail(C) \in Seq(Reqs) /\ Len(Tail(C)) = Len(C) - 1 /\ Len(C) \in Nat
      /\ WellFormed(Tail(C), r, g)
  BY <1>1, <1>2, TailWellFormed, LenProperties
<1>5. s = r - l /\ s \in Nat /\ following(S) = s - g
  <2>1. l \in Nat
    BY <1>3
  <2> HIDE DEF l
  <2>2. r = following(S) + g + l
    BY <1>1, <1>2, <2>1
  <2> QED
    BY <1>2, <2>1, <2>2
<1>6. T \in Seq(Nat) /\ Numbered(T) /\ following(T) = s + 1
  <2>1. g # 0 => s % IntMod = firstNegative
    <3>1. g # 0 => l = 1 /\ (r - 1) % IntMod = firstNegative
      BY <1>1
    <3>2. l = 1 => s = r - 1
      BY <1>5
    <3> HIDE DEF s, l
    <3> QED
      BY <3>1, <3>2, Zenon
  <2> QED
    BY <1>1, <2>1, NumberedAppend
<1>7. /\ R \in Seq(Seq(Nat)) /\ Len(R) = n
      /\ Append(R, b) \in Seq(Seq(Nat)) /\ Len(Append(R, b)) = n + 1
      /\ Append(R, b)[n + 1] = b /\ \A k \in 1 .. n : Append(R, b)[k] = R[k]
  <2>1. R \in Seq(Seq(Nat)) /\ Len(R) = n
    BY <1>1 DEF Labelled
  <2>2. b \in Seq(Nat)
    <3>1. C[1] \in Reqs
      <4>1. 1 \in 1 .. Len(C)
        BY <1>4, EmptySeq
      <4> QED
        BY <4>1, ElementOfSeq
    <3> QED
      BY <3>1 DEF Reqs
  <2> HIDE DEF b
  <2> QED
    BY <2>1, <2>2, AppendProperties
<1>8. Len(T) = n + 1 /\ T[n + 1] = s /\ \A k \in 1 .. n : T[k] = S[k]
  BY <1>5, AppendProperties
<1>9. b[1] = s + 1 - g /\ b[2] = s % MSGS_PER_PAIR
  <2>1. b[1] = r - l + 1 - g /\ b[2] = (r - l) % MSGS_PER_PAIR
    <3> HIDE DEF b, l
    <3> QED
      BY <1>3
  <2> HIDE DEF b, l, s
  <2> QED
    BY <1>5, <2>1
<1> HIDE DEF T, b, s, l, n
<1>10. Labelled(T, Append(R, b))
  <2>1. ASSUME NEW k \in 1 .. n
        PROVE  /\ R[k][1] \in Nat /\ R[k][1] <= T[k] + 1
               /\ R[k][2] = T[k] % MSGS_PER_PAIR
               /\ \A j \in 1 .. k - 1 : T[j] + 1 < R[k][1]
    <3>1. \A j \in 1 .. k - 1 : j \in 1 .. n /\ T[j] = S[j]
      BY <1>2, <1>8
    <3>2. T[k] = S[k]
      BY <1>8
    <3> QED
      BY <1>1, <1>7, <3>1, <3>2, Zenon DEF Labelled
  <2>2. b[1] \in Nat /\ b[1] <= s + 1 /\ \A j \in 1 .. n : T[j] + 1 < b[1]
    <3>1. b[1] = following(S) + 1
      BY <1>2, <1>5, <1>9
    <3>2. \A j \in 1 .. n : T[j] + 1 < following(S) + 1
      <4> SUFFICES ASSUME NEW j \in 1 .. n PROVE T[j] + 1 < following(S) + 1
        OBVIOUS
      <4>1. T[j] = S[j] /\ S[j] \in Nat /\ S[j] + 1 <= following(S)
        BY <1>2, <1>8
      <4> QED
        BY <1>2, <4>1
    <3>3. s + 1 - g \in Int /\ s + 1 - g <= s + 1 /\ following(S) + 1 \in Nat
      BY <1>2, <1>5
    <3> QED
      BY <1>9, <3>1, <3>2, <3>3
  <2>3. ASSUME NEW k \in 1 .. n + 1
        PROVE  /\ Append(R, b)[k][1] \in Nat /\ Append(R, b)[k][1] <= T[k] + 1
               /\ Append(R, b)[k][2] = T[k] % MSGS_PER_PAIR
               /\ \A j \in 1 .. k - 1 : T[j] + 1 < Append(R, b)[k][1]
    <3>1. CASE k \in 1 .. n
      <4>1. Append(R, b)[k] = R[k]
        BY <1>7, <3>1
      <4> QED
        BY <2>1, <3>1, <4>1, Zenon
    <3>2. CASE k = n + 1
      <4>1. Append(R, b)[k] = b /\ T[k] = s /\ 1 .. k - 1 = 1 .. n
        BY <1>2, <1>7, <1>8, <3>2
      <4> QED
        BY <1>9, <2>2, <4>1, Zenon
    <3>3. k \in 1 .. n \/ k = n + 1
      BY <1>2
    <3> QED
      BY <3>1, <3>2, <3>3
  <2> QED
    BY <1>7, <1>8, <2>3, Zenon DEF Labelled
<1>11. WellFormed(Tail(C), r, 0)
  <2>1. CASE g = 0
    BY <1>4, <2>1
  <2>2. CASE g # 0
    <3>1. Len(C) \div 2 = 1 /\ left(Tail(C)) = 0
      BY <1>1, <1>3, <2>2 DEF l, left
    <3>2. Len(Tail(C)) = 1
      <4>1. (Len(C) - 1) \div 2 = 0
        BY <1>4, <3>1 DEF left
      <4> QED
        BY <1>4, <3>1, <4>1
    <3>3. Tail(C)[1].op = "RECV"
      <4>1. 1 \in 1 .. Len(Tail(C)) /\ (Len(Tail(C)) - 1) % 2 # 1
        BY <3>2, Zero, Zenon
      <4> QED
        BY <1>4, <4>1, Zenon DEF WellFormed
    <3>4. ASSUME NEW k \in 1 .. Len(Tail(C))
          PROVE  (Len(Tail(C)) - k) % 2 # 1 /\ Tail(C)[k].op = "RECV"
      <4>1. k = 1
        BY <3>2, Zero, Zenon
      <4>2. (Len(Tail(C)) - k) % 2 # 1
        BY <3>2, <4>1, Zero, Zenon
      <4> QED
        BY <3>3, <4>1, <4>2
    <3> QED
      BY <3>4, Zenon DEF WellFormed
  <2> QED
    BY <2>1, <2>2
<1>i. l \in Nat /\ left(Tail(C)) \in Nat /\ l = left(Tail(C)) + 1
  BY <1>3
<1>12. r = following(T) + 0 + left(Tail(C)) + 0
  <2> DEFINE t == left(Tail(C))
             f == following(T)
  <2>1. f = s + 1 /\ s \in Nat /\ s = r - l /\ l = t + 1 /\ t \in Nat
    BY <1>i, <1>5, <1>6
  <2> HIDE DEF t, f
  <2>2. r = f + 0 + t + 0
    BY <2>1
  <2> QED
    BY <2>2 DEF t, f
<1>13. r - Len(Append(R, b)) - left(Tail(C)) - 0 <= passed(r) * (BatchSize - 1)
  <2>1. r - Len(Append(R, b)) - left(Tail(C)) - 0 = r - Len(R) - l - 0
    <3>1. Len(Append(R, b)) = Len(R) + 1 /\ Len(R) \in Nat
      BY <1>2, <1>7
    <3> QED
      BY <1>i, <3>1
  <2> QED
    BY <1>1, <2>1
<1>14. Accounted(T, 0, Append(R, b), Tail(C), r, 0)
  BY <1>6, <1>10, <1>11, <1>12, <1>13, Zenon DEF Accounted
<1> QED
  BY <1>6, <1>14 DEF b

(* A receive slot is returned, or dropped. *)
LEMMA AccountedRecv ==
  ASSUME NEW S \in Seq(Nat), NEW g \in 0 .. BatchSize - 1, NEW R, NEW C \in Seq(Reqs),
         NEW r \in Nat, NEW L, Accounted(S, g, R, C, r, L), C # <<>>, C[1].op # "SEND"
  PROVE  Accounted(S, g, R, Tail(C), r, L)
<1>1. g \in Nat /\ WellFormed(C, r, g)
  BY Constants DEF Accounted
<1>2. left(C) = left(Tail(C)) /\ WellFormed(Tail(C), r, g)
  BY <1>1, HeadWellFormed, TailWellFormed
<1> QED
  BY <1>2, Zenon DEF Accounted

(* No requests. *)
LEMMA NoRequests ==
  ASSUME NEW C \in Seq(Reqs), C = <<>>, NEW r, NEW g
  PROVE  left(C) = 0 /\ WellFormed(C, r, g)
<1>1. Len(C) = 0
  BY EmptySeq
<1> QED
  BY <1>1 DEF left, WellFormed

(* A packet joins the open batch.  At an overflow, the bound on what may   *)
(* be left out grows by a batch less one.                                  *)
LEMMA AccountedPacket ==
  ASSUME NEW S \in Seq(Nat), NEW g \in 0 .. BatchSize - 1, NEW R, NEW C \in Seq(Reqs),
         NEW r \in Nat, NEW L \in Nat, Accounted(S, g, R, C, r, L), C = <<>>
  PROVE  /\ Accounted(S, 0, R, C, r + 1, L + 1)
         /\ r % IntMod = firstNegative =>
              (r + 1) - Len(R) - (L + 1) + (BatchSize - 1) <= passed(r + 1) * (BatchSize - 1)
<1> DEFINE x == passed(r)
           y == passed(r + 1)
           B == BatchSize - 1
<1>1. g \in Nat /\ left(C) = 0 /\ WellFormed(C, r + 1, 0) /\ g = 0 /\ B \in Nat
  <2>1. g \in Nat /\ B \in Nat
    BY Constants
  <2>2. left(C) = 0 /\ WellFormed(C, r + 1, 0)
    BY NoRequests
  <2>3. g = 0
    BY <2>2 DEF Accounted
  <2> QED
    BY <2>1, <2>2, <2>3
<1>2. /\ Numbered(S) /\ Labelled(S, R)
      /\ following(S) \in Nat /\ Len(R) \in Nat
  <2>1. Numbered(S) /\ Labelled(S, R)
    BY DEF Accounted
  <2> QED
    BY <2>1, BelowFollowing DEF Labelled
<1>3. /\ r = following(S) + 0 + 0 + L
      /\ r - Len(R) - 0 - L <= x * B
  BY <1>1 DEF Accounted
<1>4. /\ x \in Nat /\ y \in Nat /\ x <= y
      /\ r % IntMod = firstNegative => x + 1 <= y
  BY PassedGrows
<1> HIDE DEF x, y, B
<1>5. B * x <= B * y /\ (x < y => B * x + B <= B * y) /\ x * B = B * x /\ y * B = B * y
  BY <1>1, <1>4, ProductGrows
<1> DEFINE u == x * B
           v == y * B
<1>6. u \in Int /\ v \in Int /\ u <= v /\ (x < y => u + B <= v)
  BY <1>1, <1>4, <1>5
<1>7. r - Len(R) - L <= u /\ r = following(S) + L
  BY <1>2, <1>3
<1> HIDE DEF u, v
<1>n. /\ left(C) = 0 /\ B \in Nat /\ following(S) \in Nat /\ Len(R) \in Nat
      /\ u \in Int /\ v \in Int /\ u <= v /\ (x < y => u + B <= v)
  BY <1>1, <1>2, <1>6
<1>8. r + 1 = following(S) + 0 + left(C) + (L + 1)
  BY <1>n, <1>7
<1> DEFINE d == Len(R)
<1>d. d \in Nat /\ r - d - L <= u
  BY <1>n, <1>7
<1> HIDE DEF d
<1>e. (r + 1) - d - 0 - (L + 1) <= v /\ (x < y => (r + 1) - d - (L + 1) + B <= v)
  BY <1>n, <1>d
<1>9. (r + 1) - Len(R) - left(C) - (L + 1) <= v
  BY <1>n, <1>e DEF d
<1>10. r % IntMod = firstNegative => (r + 1) - Len(R) - (L + 1) + B <= v
  <2>1. r % IntMod = firstNegative => x < y
    BY <1>4
  <2>2. x < y => (r + 1) - Len(R) - (L + 1) + B <= v
    BY <1>e DEF d
  <2> QED
    BY <2>1, <2>2
<1>11. Accounted(S, 0, R, C, r + 1, L + 1)
  BY <1>1, <1>2, <1>8, <1>9, Zenon DEF Accounted, v, y, B
<1> QED
  BY <1>10, <1>11 DEF v, y, B

(* The batch is processed, all of it or, at an overflow, one packet.       *)
LEMMA AccountedBatch ==
  ASSUME NEW S \in Seq(Nat), NEW R, NEW C \in Seq(Reqs), C = <<>>,
         NEW r \in Nat, NEW batch \in Seq(Nat), Len(batch) <= r,
         \A i \in 1 .. Len(batch) : batch[i] = r - Len(batch) + i,
         NEW batch_size \in 1 .. Len(batch), Len(batch) <= BatchSize,
         Accounted(S, 0, R, C, r, Len(batch)),
         batch_size # Len(batch) =>
           /\ batch_size = 1 /\ (r - 1) % IntMod = firstNegative
           /\ r - Len(R) - Len(batch) + (BatchSize - 1) <= passed(r) * (BatchSize - 1)
  PROVE  \E g \in 0 .. BatchSize - 1 :
           Accounted(S, g, R, BatchRequests(batch, AsInt(r), batch_size), r, 0)
<1> DEFINE D == BatchRequests(batch, AsInt(r), batch_size)
           L == Len(batch)
           g == L - batch_size
           v == passed(r) * (BatchSize - 1)
<1>1. L \in Nat /\ batch_size \in 1 .. L /\ BatchSize \in Nat \ {0} /\ L <= BatchSize
  BY LenProperties, Constants
<1>2. Len(D) = 2 * batch_size /\ WellFormed(D, r, g)
  BY BatchWellFormed
<1>3. left(D) = batch_size
  <2> HIDE DEF D
  <2> QED
    BY <1>1, <1>2 DEF left
<1>4. /\ Numbered(S) /\ Labelled(S, R)
      /\ r = following(S) + 0 + left(C) + L
      /\ r - Len(R) - left(C) - L <= v
  BY DEF Accounted
<1>5. left(C) = 0 /\ following(S) \in Nat /\ Len(R) \in Nat /\ v \in Int
  <2>1. passed(r) \in Nat
    BY PassedGrows
  <2>2. v \in Int
    BY <1>1, <2>1
  <2> QED
    BY <1>4, <2>2, NoRequests, BelowFollowing DEF Labelled
<1>6. g # 0 => batch_size = 1 /\ (r - 1) % IntMod = firstNegative
               /\ r - Len(R) - L + (BatchSize - 1) <= v
  <2>1. g # 0 => batch_size # L
    BY <1>1
  <2> QED
    BY <2>1
<1> HIDE DEF D, L, v
<1>7. g \in 0 .. BatchSize - 1
  BY <1>1
<1>8. r = following(S) + g + left(D) + 0
  BY <1>1, <1>3, <1>4, <1>5
<1>9. r - Len(R) - left(D) - 0 <= v
  <2>1. CASE g = 0
    BY <1>1, <1>3, <1>4, <1>5, <2>1
  <2>2. CASE g # 0
    <3>1. batch_size = 1 /\ r - Len(R) - L + (BatchSize - 1) <= v
      BY <1>6, <2>2
    <3> QED
      BY <1>1, <1>3, <1>5, <3>1
  <2> QED
    BY <2>1, <2>2
<1>10. g # 0 => left(D) = 1 /\ (r - 1) % IntMod = firstNegative
  BY <1>3, <1>6, Zenon
<1> HIDE DEF g
<1>11. Accounted(S, g, R, D, r, 0)
  BY <1>2, <1>4, <1>8, <1>9, <1>10, Zenon DEF Accounted, v
<1> QED
  BY <1>7, <1>11 DEF D
-----------------------------------------------------------------------------
(* The worker. *)

(* The requests whose entries are not begun. *)
coming == IF Writing THEN Tail(requests) ELSE requests

(* The open batch holds the last packets received, fewer than BatchSize,   *)
(* and was left open because the warm-up test failed.  There are requests  *)
(* or an open batch, never both.                                           *)
OpenBatch ==
  /\ tmp_count = AsInt(received)
  /\ Len(rpcs) < BatchSize /\ Len(rpcs) <= received
  /\ \A i \in 1 .. Len(rpcs) : rpcs[i] = received - Len(rpcs) + i
  /\ Len(rpcs) # 0 => AsInt(received - 1) >= WARMUP
  /\ pc # "receive" => Len(rpcs) = 0
  /\ pc = "receive" => requests = <<>>

InTurn ==
  \E S \in Seq(Nat), g \in 0 .. BatchSize - 1 :
    Accounted(S, g, replies, coming, received, Len(rpcs))

(* Counting is the same before and after the conversion to int. *)
LEMMA CountOn ==
  ASSUME NEW r \in Nat
  PROVE  AsInt(AsInt(r) + 1) = AsInt(r + 1) /\ AsInt(0) = 0
<1> DEFINE M == IntMod
<1>1. M \in Nat \ {0} /\ M \div 2 \in Nat /\ 0 < M \div 2 /\ 0 % M = 0
  <2>1. M \in Nat \ {0} /\ M \div 2 \in Nat
    BY Constants
  <2>2. 0 < M \div 2
    BY <2>1, SendPathAssumption
  <2> QED
    BY <2>1, <2>2
<1>2. AsInt(0) = 0
  BY <1>1 DEF AsInt
<1>3. PICK a \in Int : AsInt(r) = r - M * a
  <2>1. r \div M \in Int /\ r % M = r - M * (r \div M) /\ (r % M) - M = r - M * (r \div M + 1)
    BY <1>1
  <2> QED
    BY <2>1 DEF AsInt
<1>4. (AsInt(r) + 1) % M = (r + 1) % M
  <2>1. r - M * a + 1 = (r + 1) - M * a
    BY <1>1
  <2> DEFINE n == r + 1
  <2>2. n \in Int
    OBVIOUS
  <2> HIDE DEF n, M
  <2>3. (n - M * a) % M = n % M
    BY <1>1, <2>2, RemainderShift
  <2> QED
    BY <1>3, <2>1, <2>3 DEF n
<1> QED
  BY <1>2, <1>4 DEF AsInt

(* Steps that begin no request and change no batch. *)
LEMMA SameTurn ==
  ASSUME InTurn, received' = received, replies' = replies, coming' = coming, rpcs' = rpcs
  PROVE  InTurn'
BY Zenon DEF InTurn

(* The start. *)
LEMMA TurnInit == Init => OpenBatch /\ InTurn
<1> SUFFICES ASSUME Init PROVE OpenBatch /\ InTurn
  OBVIOUS
<1>1. /\ received = 0 /\ tmp_count = 0 /\ rpcs = <<>> /\ requests = <<>> /\ pc = "receive"
      /\ replies = <<>>
  BY Zenon DEF Init
<1>2. Len(rpcs) = 0 /\ Len(replies) = 0 /\ BatchSize \in Nat \ {0} /\ AsInt(0) = 0
  BY <1>1, Constants, CountOn
<1>3. OpenBatch
  <2>1. Len(rpcs) < BatchSize /\ Len(rpcs) <= 0 /\ 1 .. Len(rpcs) = {}
    BY <1>2
  <2>2. Len(rpcs) < BatchSize /\ Len(rpcs) <= received /\ tmp_count = AsInt(received)
    BY <1>1, <1>2, <2>1, Zenon
  <2> QED
    BY <1>1, <1>2, <2>1, <2>2, Zenon DEF OpenBatch
<1>4. coming \in Seq(Reqs) /\ coming = <<>>
  BY <1>1, EmptySeq DEF coming, Writing
<1> DEFINE S == <<>>
<1>5. S \in Seq(Nat) /\ Len(S) = 0 /\ following(S) = 0
  BY EmptySeq DEF following
<1>6. Numbered(S)
  BY <1>5 DEF Numbered
<1>7. Labelled(S, replies)
  <2>1. replies \in Seq(Seq(Nat)) /\ Len(replies) = Len(S) /\ 1 .. Len(replies) = {}
    BY <1>1, <1>2, <1>5, EmptySeq
  <2> QED
    BY <2>1, Zenon DEF Labelled
<1>8. left(coming) = 0 /\ WellFormed(coming, received, 0)
  BY <1>4, NoRequests
<1>9. 0 <= passed(0) * (BatchSize - 1)
  <2>1. passed(0) \in Nat
    BY PassedGrows
  <2> QED
    BY <1>2, <2>1
<1>10. /\ 0 = 0 + 0 + 0 + 0 /\ 0 - 0 - 0 - 0 <= passed(0) * (BatchSize - 1)
       /\ 0 \in 0 .. BatchSize - 1
  BY <1>2, <1>9
<1> HIDE DEF S
<1>11. received = following(S) + 0 + left(coming) + Len(rpcs)
  BY <1>1, <1>2, <1>5, <1>8, <1>10, Zenon
<1>12. received - Len(replies) - left(coming) - Len(rpcs) <= passed(received) * (BatchSize - 1)
  BY <1>1, <1>2, <1>8, <1>10, Zenon
<1>13. Accounted(S, 0, replies, coming, received, Len(rpcs))
  BY <1>6, <1>7, <1>8, <1>11, <1>12, Zenon DEF Accounted
<1> QED
  BY <1>3, <1>5, <1>10, <1>13, Zenon DEF InTurn

(* A packet. *)
LEMMA TurnPacket ==
  ASSUME LoopTypes, OpenBatch, InTurn, Packet
  PROVE  OpenBatch' /\ InTurn'
<1> DEFINE r == received
           L == Len(rpcs)
           batch == Append(rpcs, r + 1)
           size == IF AsInt(r) < WARMUP THEN 1 ELSE BatchSize
<1>1. /\ r \in Nat /\ rpcs \in Seq(Nat) /\ L \in Nat /\ BatchSize \in Nat \ {0}
      /\ requests \in Seq(Reqs) /\ requests = <<>> /\ pc = "receive"
      /\ received' = r + 1 /\ replies' = replies
  BY LenProperties, Constants DEF LoopTypes, OpenBatch, Packet
<1>2. /\ L < BatchSize /\ L <= r /\ AsInt(r) \in Int /\ AsInt(r + 1) \in Int /\ WARMUP \in Nat
      /\ \A i \in 1 .. L : rpcs[i] = r - L + i
      /\ L # 0 => AsInt(r - 1) >= WARMUP
  BY <1>1, Conversions, SendPathAssumption DEF OpenBatch
<1>3. /\ tmp_count' = AsInt(r + 1) /\ CurrentBatchSize = size
      /\ Dispatch(batch, AsInt(r + 1), size)
  <2>1. tmp_count = AsInt(r) /\ tmp_count' = AsInt(AsInt(r) + 1)
    BY DEF OpenBatch, Packet
  <2>2. tmp_count' = AsInt(r + 1)
    BY <1>1, <2>1, CountOn
  <2>3. CurrentBatchSize = size
    BY <2>1 DEF CurrentBatchSize
  <2>4. Dispatch(Append(rpcs, received'), tmp_count', CurrentBatchSize)
    BY DEF Packet
  <2> QED
    BY <1>1, <2>2, <2>3, <2>4
<1>4. /\ batch \in Seq(Nat) /\ Len(batch) = L + 1
      /\ \A i \in 1 .. L + 1 : batch[i] = (r + 1) - (L + 1) + i
  <2>1. /\ batch \in Seq(Nat) /\ Len(batch) = L + 1 /\ batch[L + 1] = r + 1
        /\ \A i \in 1 .. L : batch[i] = rpcs[i]
    BY <1>1, AppendProperties
  <2>2. ASSUME NEW i \in 1 .. L + 1 PROVE batch[i] = (r + 1) - (L + 1) + i
    <3>1. CASE i = L + 1
      BY <1>1, <2>1, <3>1
    <3>2. CASE i \in 1 .. L
      BY <1>1, <1>2, <2>1, <3>2
    <3> QED
      BY <1>1, <3>1, <3>2
  <2> QED
    BY <2>1, <2>2
<1>5. coming = requests
  BY <1>1 DEF coming, Writing
<1>6. PICK S \in Seq(Nat), g \in 0 .. BatchSize - 1 : Accounted(S, g, replies, requests, r, L)
  BY <1>5 DEF InTurn
<1>7. /\ Accounted(S, 0, replies, requests, r + 1, L + 1)
      /\ r % IntMod = firstNegative =>
           (r + 1) - Len(replies) - (L + 1) + (BatchSize - 1) <= passed(r + 1) * (BatchSize - 1)
  BY <1>1, <1>6, AccountedPacket
<1>8. CASE Len(batch) >= size
  <2>1. /\ requests' = BatchRequests(batch, AsInt(r + 1), size) /\ rpcs' = <<>> /\ pc' = "post"
    BY <1>3, <1>8, Zenon DEF Dispatch
  <2>2. Len(rpcs') = 0 /\ coming' = requests'
    BY <2>1 DEF coming, Writing
  <2>3. OpenBatch'
    <3>1. Len(rpcs') < BatchSize /\ Len(rpcs') <= r + 1 /\ 1 .. Len(rpcs') = {}
      BY <1>1, <2>2
    <3>2. pc' # "receive"
      BY <2>1
    <3> QED
      BY <1>1, <1>3, <2>2, <3>1, <3>2, Zenon DEF OpenBatch
  <2>4. size \in 1 .. L + 1 /\ L + 1 <= BatchSize /\ L + 1 <= r + 1
    BY <1>1, <1>2, <1>4, <1>8
  <2>5. size # L + 1 =>
          /\ size = 1 /\ ((r + 1) - 1) % IntMod = firstNegative
          /\ (r + 1) - Len(replies) - (L + 1) + (BatchSize - 1) <= passed(r + 1) * (BatchSize - 1)
    <3> SUFFICES ASSUME size # L + 1
                 PROVE  size = 1 /\ ((r + 1) - 1) % IntMod = firstNegative
                        /\ r % IntMod = firstNegative
      BY <1>7
    <3>1. size # BatchSize
      BY <1>1, <1>2, <2>4
    <3>2. AsInt(r) < WARMUP /\ size = 1
      BY <3>1
    <3>3. L # 0
      BY <1>1, <3>2
    <3>4. r \in Nat \ {0} /\ AsInt(r - 1) >= WARMUP
      BY <1>1, <1>2, <3>3
    <3>5. r % IntMod = firstNegative
      BY <3>2, <3>4, TestHoldsAgain
    <3>6. (r + 1) - 1 = r
      BY <1>1
    <3> HIDE DEF size
    <3> QED
      BY <3>2, <3>5, <3>6
  <2>6. \E h \in 0 .. BatchSize - 1 :
          Accounted(S, h, replies, BatchRequests(batch, AsInt(r + 1), size), r + 1, 0)
    <3> DEFINE n == r + 1
               m == L + 1
    <3>1. n \in Nat /\ Len(batch) = m /\ batch \in Seq(Nat)
      BY <1>1, <1>4
    <3>2. m <= n /\ m <= BatchSize /\ size \in 1 .. m
      BY <2>4
    <3>3. \A i \in 1 .. m : batch[i] = n - m + i
      BY <1>4
    <3>4. Accounted(S, 0, replies, requests, n, m)
      BY <1>7
    <3>5. size # m =>
            /\ size = 1 /\ (n - 1) % IntMod = firstNegative
            /\ n - Len(replies) - m + (BatchSize - 1) <= passed(n) * (BatchSize - 1)
      BY <2>5
    <3> HIDE DEF batch, size, n, m
    <3>6. /\ Len(batch) <= n /\ Len(batch) <= BatchSize /\ size \in 1 .. Len(batch)
          /\ \A i \in 1 .. Len(batch) : batch[i] = n - Len(batch) + i
          /\ Accounted(S, 0, replies, requests, n, Len(batch))
          /\ size # Len(batch) =>
               /\ size = 1 /\ (n - 1) % IntMod = firstNegative
               /\ n - Len(replies) - Len(batch) + (BatchSize - 1) <= passed(n) * (BatchSize - 1)
      BY <3>1, <3>2, <3>3, <3>4, <3>5, Zenon
    <3>7. \E h \in 0 .. BatchSize - 1 :
            Accounted(S, h, replies, BatchRequests(batch, AsInt(n), size), n, 0)
      BY <1>1, <3>1, <3>6, AccountedBatch
    <3> QED
      BY <3>7 DEF n
  <2>7. \E h \in 0 .. BatchSize - 1 :
          Accounted(S, h, replies', coming', received', Len(rpcs'))
    <3> HIDE DEF batch, size, r
    <3> QED
      BY <1>1, <2>1, <2>2, <2>6, Zenon
  <2>8. InTurn'
    BY <2>7, Zenon DEF InTurn
  <2> QED
    BY <2>3, <2>8
<1>9. CASE ~(Len(batch) >= size)
  <2>1. rpcs' = batch /\ requests' = requests /\ pc' = pc
    BY <1>3, <1>9 DEF Dispatch
  <2>2. coming' = requests
    BY <1>1, <2>1 DEF coming, Writing
  <2>3. AsInt(r) >= WARMUP /\ L + 1 < BatchSize /\ (r + 1) - 1 = r
    BY <1>1, <1>2, <1>4, <1>9
  <2>4. Len(rpcs') = L + 1 /\ L + 1 <= r + 1
    BY <1>1, <1>2, <1>4, <2>1
  <2> HIDE DEF batch, size, r, L
  <2>5. OpenBatch'
    <3>1. Len(rpcs') < BatchSize /\ Len(rpcs') <= received' /\ AsInt(received' - 1) >= WARMUP
      BY <1>1, <2>3, <2>4, Zenon
    <3>2. \A i \in 1 .. Len(rpcs') : rpcs'[i] = received' - Len(rpcs') + i
      BY <1>1, <1>4, <2>1, <2>4, Zenon
    <3>3. pc' = "receive" /\ requests' = <<>> /\ tmp_count' = AsInt(received')
      BY <1>1, <1>3, <2>1, Zenon
    <3>4. pc' # "receive" => Len(rpcs') = 0
      BY <3>3
    <3> QED
      BY <3>1, <3>2, <3>3, <3>4, Zenon DEF OpenBatch
  <2>6. Accounted(S, 0, replies', coming', received', Len(rpcs'))
    BY <1>1, <1>7, <2>2, <2>4, Zenon
  <2>7. 0 \in 0 .. BatchSize - 1
    BY <1>1
  <2>8. InTurn'
    BY <2>6, <2>7, Zenon DEF InTurn
  <2> QED
    BY <2>5, <2>8
<1> QED
  BY <1>8, <1>9

(* A receive that gave up. *)
LEMMA TurnTimeout ==
  ASSUME LoopTypes, OpenBatch, InTurn, Timeout
  PROVE  OpenBatch' /\ InTurn'
<1> DEFINE r == received
           L == Len(rpcs)
<1>1. /\ r \in Nat /\ rpcs \in Seq(Nat) /\ L \in Nat /\ BatchSize \in Nat \ {0}
      /\ requests \in Seq(Reqs) /\ requests = <<>> /\ pc = "receive"
      /\ received' = r /\ replies' = replies /\ tmp_count' = tmp_count
      /\ tmp_count = AsInt(r)
  BY LenProperties, Constants DEF LoopTypes, OpenBatch, Timeout
<1>2. L \in 1 .. L /\ L <= r /\ L <= BatchSize /\ \A i \in 1 .. L : rpcs[i] = r - L + i
  <2>1. L # 0
    BY <1>1, EmptySeq DEF Timeout
  <2>2. L < BatchSize /\ L <= r /\ \A i \in 1 .. L : rpcs[i] = r - L + i
    BY DEF OpenBatch
  <2> QED
    BY <1>1, <2>1, <2>2
<1>3. /\ requests' = BatchRequests(rpcs, AsInt(r), L) /\ rpcs' = <<>> /\ pc' = "post"
  <2>1. L >= L
    BY <1>1
  <2> QED
    BY <1>1, <2>1, Zenon DEF Timeout, Dispatch
<1>4. Len(rpcs') = 0 /\ coming' = requests' /\ coming = requests
  BY <1>1, <1>3 DEF coming, Writing
<1>5. OpenBatch'
  <2>1. Len(rpcs') < BatchSize /\ Len(rpcs') <= r /\ 1 .. Len(rpcs') = {} /\ pc' # "receive"
    BY <1>1, <1>3, <1>4
  <2> QED
    BY <1>1, <1>4, <2>1, Zenon DEF OpenBatch
<1>6. PICK S \in Seq(Nat), g \in 0 .. BatchSize - 1 : Accounted(S, g, replies, requests, r, L)
  BY <1>4 DEF InTurn
<1>7. g = 0
  <2>1. left(requests) = 0
    BY <1>1, NoRequests
  <2> QED
    BY <1>6, <2>1 DEF Accounted
<1>8. \E h \in 0 .. BatchSize - 1 :
        Accounted(S, h, replies, BatchRequests(rpcs, AsInt(r), L), r, 0)
  <2>1. Accounted(S, 0, replies, requests, r, L)
    BY <1>6, <1>7
  <2> QED
    BY <1>1, <1>2, <2>1, AccountedBatch
<1>9. \E h \in 0 .. BatchSize - 1 : Accounted(S, h, replies', coming', received', Len(rpcs'))
  BY <1>1, <1>3, <1>4, <1>8, Zenon
<1>10. InTurn'
  BY <1>9, Zenon DEF InTurn
<1> QED
  BY <1>5, <1>10

(* A request is posted, or dropped. *)
LEMMA TurnRequest ==
  ASSUME LoopTypes, OpenBatch, InTurn, PostBegin \/ RecvDropped
  PROVE  OpenBatch' /\ InTurn'
<1>1. /\ received \in Nat /\ requests \in Seq(Reqs) /\ requests # <<>> /\ pc = "post"
      /\ pc' # "receive" /\ UNCHANGED <<received, tmp_count, rpcs>> /\ Len(rpcs) = 0
  BY DEF LoopTypes, OpenBatch, PostBegin, RecvDropped, loopVars
<1>2. coming = requests /\ coming' = Tail(requests)
  BY <1>1 DEF coming, Writing, PostBegin, RecvDropped
<1>3. OpenBatch'
  BY <1>1, Zenon DEF OpenBatch
<1>4. PICK S \in Seq(Nat), g \in 0 .. BatchSize - 1 :
        Accounted(S, g, replies, requests, received, 0)
  BY <1>1, <1>2 DEF InTurn
<1>5. Head(requests) = requests[1]
  BY <1>1
<1>6. CASE PostBegin /\ requests[1].op = "SEND"
  <2>1. replies' = Append(replies, requests[1].buf_addr)
    BY <1>5, <1>6, Zenon DEF PostBegin
  <2>2. \E T \in Seq(Nat) :
          Accounted(T, 0, Append(replies, requests[1].buf_addr), Tail(requests), received, 0)
    BY <1>1, <1>4, <1>6, AccountedSend
  <2>3. \E T \in Seq(Nat) : Accounted(T, 0, replies', coming', received', Len(rpcs'))
    BY <1>1, <1>2, <2>1, <2>2, Zenon
  <2>4. 0 \in 0 .. BatchSize - 1
    BY Constants
  <2>5. InTurn'
    BY <2>3, <2>4, Zenon DEF InTurn
  <2> QED
    BY <1>3, <2>5
<1>7. CASE requests[1].op # "SEND"
  <2>1. replies' = replies
    BY <1>5, <1>7 DEF PostBegin, RecvDropped
  <2>2. Accounted(S, g, replies, Tail(requests), received, 0)
    BY <1>1, <1>4, <1>7, AccountedRecv
  <2>3. Accounted(S, g, replies', coming', received', Len(rpcs'))
    BY <1>1, <1>2, <2>1, <2>2, Zenon
  <2>4. InTurn'
    BY <2>3, Zenon DEF InTurn
  <2> QED
    BY <1>3, <2>4
<1>8. RecvDropped => requests[1].op # "SEND"
  BY <1>5 DEF RecvDropped
<1> QED
  BY <1>6, <1>7, <1>8

(* Every step. *)
LEMMA TurnStep ==
  ASSUME LoopTypes, OpenBatch, InTurn, [Next]_vars
  PROVE  OpenBatch' /\ InTurn'
<1>1. CASE Packet
  BY <1>1, TurnPacket
<1>2. CASE Timeout
  BY <1>2, TurnTimeout
<1>3. CASE PostBegin \/ RecvDropped
  BY <1>3, TurnRequest
<1>4. CASE BatchDone
  <2>1. /\ pc = "post" /\ pc' = "receive" /\ requests = <<>>
        /\ UNCHANGED <<received, tmp_count, rpcs, requests, replies>>
    BY <1>4, Zenon DEF BatchDone, loopVars
  <2>2. coming' = coming
    BY <2>1 DEF coming, Writing
  <2> QED
    BY <2>1, <2>2, SameTurn, Zenon DEF OpenBatch
<1>5. CASE Store \/ Notify
  <2>1. /\ UNCHANGED <<received, tmp_count, rpcs, requests, replies>>
        /\ pc \in {"store", "advance"} /\ pc' \in {"store", "advance"}
    BY <1>5 DEF Store, Notify, loopVars
  <2>2. coming' = coming /\ pc # "receive" /\ pc' # "receive"
    BY <2>1 DEF coming, Writing
  <2> QED
    BY <2>1, <2>2, SameTurn, Zenon DEF OpenBatch
<1>6. CASE Advance
  <2>1. /\ UNCHANGED <<received, tmp_count, rpcs, replies>> /\ requests' = Tail(requests)
        /\ pc = "advance" /\ pc' = "post"
    BY <1>6 DEF Advance, loopVars
  <2>2. coming' = coming /\ pc # "receive" /\ pc' # "receive"
    BY <2>1 DEF coming, Writing
  <2> QED
    BY <2>1, <2>2, SameTurn, Zenon DEF OpenBatch
<1>7. CASE NicFetch \/ UNCHANGED vars
  <2>1. UNCHANGED <<received, tmp_count, rpcs, requests, replies, pc>>
    BY <1>7 DEF NicFetch, vars, loopVars
  <2>2. coming' = coming
    BY <2>1 DEF coming, Writing
  <2> QED
    BY <2>1, <2>2, SameTurn, Zenon DEF OpenBatch
<1> QED
  BY <1>1, <1>2, <1>3, <1>4, <1>5, <1>6, <1>7 DEF Next

(* The invariant of the worker's part. *)
LEMMA TurnInvariant == Spec => [](LoopTypes /\ OpenBatch /\ InTurn)
<1>1. SendInv => LoopTypes
  BY DEF SendInv
<1>2. Init => OpenBatch /\ InTurn
  BY TurnInit
<1>3. LoopTypes /\ OpenBatch /\ InTurn /\ [Next]_vars => (OpenBatch /\ InTurn)'
  BY TurnStep
<1> QED
  BY <1>1, <1>2, <1>3, SendInvariant, PTL DEF Spec

(* For every width of the int, every batch size and every number of        *)
(* packets: replies answer the packets in their order, each at most once,  *)
(* and batch_process_simpNF's count of sends takes the send buffers in     *)
(* turn, across every overflow of tmp_count.                               *)
THEOREM BuffersTakenInTurn == Spec => []BuffersInTurn
<1>1. LoopTypes /\ OpenBatch /\ InTurn => BuffersInTurn
  <2> SUFFICES ASSUME InTurn, NEW k \in 1 .. Len(replies)
               PROVE  /\ replies[k][2] \in 0 .. MSGS_PER_PAIR - 1
                      /\ \A j \in 1 .. k - 1 :
                           /\ replies[j][1] < replies[k][1]
                           /\ k - j <= MSGS_PER_PAIR - BatchSize =>
                                replies[j][2] # replies[k][2]
    BY DEF BuffersInTurn
  <2>1. PICK S \in Seq(Nat) : Numbered(S) /\ Labelled(S, replies)
    BY DEF InTurn, Accounted
  <2>2. /\ Len(S) \in Nat /\ Len(replies) = Len(S)
        /\ \A j \in 1 .. Len(S) : S[j] \in Nat
    BY <2>1, BelowFollowing DEF Labelled
  <2>3. /\ MSGS_PER_PAIR \in Nat \ {0} /\ BatchSize \in Nat \ {0} /\ IntMod \in Nat \ {0}
        /\ MSGS_PER_PAIR <= IntMod
    <3>1. IntMod % MSGS_PER_PAIR = 0
      BY SendPathAssumption
    <3> QED
      BY <3>1, Constants
  <2>4. k \in 1 .. Len(S) /\ S[k] \in Nat /\ replies[k][2] = S[k] % MSGS_PER_PAIR
    BY <2>1, <2>2 DEF Labelled
  <2>5. replies[k][2] \in 0 .. MSGS_PER_PAIR - 1
    BY <2>3, <2>4
  <2>6. ASSUME NEW j \in 1 .. k - 1
        PROVE  /\ replies[j][1] < replies[k][1]
               /\ k - j <= MSGS_PER_PAIR - BatchSize => replies[j][2] # replies[k][2]
    <3>1. j \in 1 .. Len(S) /\ S[j] \in Nat
      BY <2>2
    <3>2. /\ replies[j][1] \in Nat /\ replies[j][1] <= S[j] + 1
          /\ replies[k][1] \in Nat /\ S[j] + 1 < replies[k][1]
          /\ replies[j][2] = S[j] % MSGS_PER_PAIR
      BY <2>1, <2>2, <3>1 DEF Labelled
    <3>3. replies[j][1] < replies[k][1]
      <4>1. /\ replies[j][1] \in Nat /\ replies[j][1] <= S[j] + 1
            /\ replies[k][1] \in Nat /\ S[j] + 1 < replies[k][1]
        BY <3>2
      <4> QED
        BY <3>1, <4>1
    <3>4. ASSUME k - j <= MSGS_PER_PAIR - BatchSize, S[j] % MSGS_PER_PAIR = S[k] % MSGS_PER_PAIR
          PROVE  FALSE
      <4>1. /\ S[k] - S[j] >= k - j
            /\ S[k] - S[j] <= k - j + BatchSize - 1 \/ k - j > IntMod - BatchSize
        BY <2>1, <2>4 DEF Numbered, InStep
      <4>2. j \in Int /\ k \in Int /\ j < k
        OBVIOUS
      <4>3. k - j <= MSGS_PER_PAIR - BatchSize
        BY <3>4
      <4>n. S[j] \in Nat /\ S[k] \in Nat
        BY <2>4, <3>1
      <4>4. S[j] < S[k] /\ S[k] - S[j] < MSGS_PER_PAIR
        BY <2>3, <4>n, <4>1, <4>2, <4>3
      <4>5. S[k] - S[j] >= MSGS_PER_PAIR
        <5> DEFINE x == S[j]
                   y == S[k]
        <5>1. x \in Int /\ y \in Int /\ x < y /\ x % MSGS_PER_PAIR = y % MSGS_PER_PAIR
          BY <3>4, <4>n, <4>4
        <5> HIDE DEF x, y
        <5>2. y - x >= MSGS_PER_PAIR
          BY <2>3, <5>1, LapApart
        <5> QED
          BY <5>2 DEF x, y
      <4> QED
        BY <2>3, <4>n, <4>4, <4>5
    <3> QED
      BY <2>4, <3>2, <3>3, <3>4
  <2> QED
    BY <2>5, <2>6
<1> QED
  BY <1>1, TurnInvariant, PTL

(* For every width of the int and every batch size: a packet is left       *)
(* unanswered only when tmp_count overflows, at most BatchSize - 1 each    *)
(* time, so none before the first overflow.                                *)
THEOREM SkippedOnlyAtOverflow == Spec => []SkipsOnlyAtOverflow
<1>1. LoopTypes /\ OpenBatch /\ InTurn => SkipsOnlyAtOverflow
  <2> SUFFICES ASSUME LoopTypes, OpenBatch, InTurn, pc = "receive"
               PROVE  received - Len(replies) - Len(rpcs) <= overflows * (BatchSize - 1)
    BY DEF SkipsOnlyAtOverflow
  <2>1. requests \in Seq(Reqs) /\ requests = <<>> /\ coming = requests
    BY DEF LoopTypes, OpenBatch, coming, Writing
  <2>2. left(coming) = 0
    BY <2>1, NoRequests
  <2>3. PICK S \in Seq(Nat), g \in 0 .. BatchSize - 1 :
          Accounted(S, g, replies, coming, received, Len(rpcs))
    BY DEF InTurn
  <2> DEFINE x == passed(received)
             y == overflows
             B == BatchSize - 1
             r == received
             d == Len(replies)
             L == Len(rpcs)
  <2>4. r \in Nat /\ d \in Nat /\ L \in Nat /\ B \in Nat
    <3>1. d \in Nat
      BY <2>3, LenProperties DEF Accounted, Labelled
    <3>2. L \in Nat
      BY LenProperties DEF LoopTypes
    <3> QED
      BY <3>1, <3>2, Constants DEF LoopTypes
  <2>5. r - d - 0 - L <= x * B
    BY <2>2, <2>3 DEF Accounted
  <2>6. x \in Nat /\ y \in Nat /\ x <= y
    <3>1. x \in Nat /\ x <= y
      BY <2>4, PassedGrows DEF overflows
    <3>2. y \in Nat
      <4> DEFINE n == received + IntMod \div 2
      <4>1. n \in Nat
        BY <2>4, Constants
      <4>2. n \div IntMod \in Nat
        BY <4>1, Constants, QuotientGrows
      <4> QED
        BY <4>2 DEF overflows
    <3> QED
      BY <3>1, <3>2
  <2> HIDE DEF x, y, B, r, d, L
  <2>7. B * x <= B * y /\ x * B = B * x /\ y * B = B * y
    BY <2>4, <2>6, ProductGrows
  <2>8. x * B \in Int /\ y * B \in Int
    BY <2>4, <2>6
  <2>9. r - d - L <= y * B
    BY <2>4, <2>5, <2>7, <2>8
  <2> QED
    BY <2>9 DEF y, B, r, d, L
<1> QED
  BY <1>1, TurnInvariant, PTL
=============================================================================
