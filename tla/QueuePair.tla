----------------------------- MODULE QueuePair -----------------------------
(***************************************************************************)
(* The queue pair of libzsim (zsim_nic_defines.hpp / .cpp): a work-queue   *)
(* ring and a completion-queue ring of MAX_NUM_WQ slots in memory shared   *)
(* by one application thread and the simulated NIC.  There is no shared    *)
(* index: the application keeps wq->head and cq->tail, the NIC keeps its   *)
(* own positions, and the two sides agree through the valid flag and the   *)
(* sense-reverse (SR) bit of every slot, whose meaning flips on each lap.  *)
(*                                                                         *)
(* The application is any single thread that calls rmc_hw_send,            *)
(* rmc_hw_recv and rmc_check_cq in any order (every worker owns its queue  *)
(* pair).  The NIC can act between the steps of a call: between the store  *)
(* of an entry and the update of head, and between the copy of a           *)
(* completion, its release and its use.  Storing an entry, with the test   *)
(* of its slot, is one step here, and so is copying a completion;          *)
(* SendPath takes the store apart.  The NIC is not part of the repository: *)
(* it is modelled from how the library uses the rings and marked external. *)
(***************************************************************************)
EXTENDS Integers, Sequences

CONSTANTS
  MAX_NUM_WQ,   \* slots per ring; 512 in zsim_nic_defines.hpp
  Requests,     \* contents of a wq_entry_t (op, buf_addr, cid, nid, length)
  Tags,         \* contents of a cq_entry_t (tid, recv_buf_addr)
  NoValue       \* contents of a slot nobody has written yet

(* cq_entry_t.success, by what rmc_check_cq does with it: 0x7F is an       *)
(* incoming packet, 1 an incoming response, anything else the completion   *)
(* of a work-queue entry.                                                  *)
Successes == {"INCOMING_SEND", "INCOMING_RESP", "WQ_DONE"}

Completions == [success : Successes, tag : Tags]

ASSUME SizeAssumption == MAX_NUM_WQ \in Nat \ {0}

ASSUME NoValueAssumption == NoValue \notin Requests /\ NoValue \notin Completions

VARIABLES
  wq,       \* wq->q     : slot -> [valid, SR, val]
  head,     \* wq->head  : next slot the application posts to
  wqSR,     \* wq->SR    : the application's sense on the work queue
  cq,       \* cq->q     : slot -> [valid, SR, val]
  tail,     \* cq->tail  : next slot the application reads
  cqSR,     \* cq->SR    : the application's sense on the completion queue
  nicTail,  \* NIC: next work-queue slot to fetch
  nicWqSR,  \* NIC: its sense on the work queue
  nicHead,  \* NIC: next completion-queue slot to fill
  nicCqSR,  \* NIC: its sense on the completion queue
  pc,       \* where the application is inside a library call
  wqeValid, \* raw_wqe.valid : the work-queue slot at head, as last read
  cqe,      \* raw_cqe_entry : the completion copied out of the ring
  ret       \* what the last library call returned, "none" during a call

appVars == <<head, wqSR, tail, cqSR, pc, wqeValid, cqe, ret>>
nicVars == <<nicTail, nicWqSR, nicHead, nicCqSR>>
vars    == <<wq, cq, appVars, nicVars>>

Slots == 0 .. MAX_NUM_WQ - 1
Sense == {0, 1}

-----------------------------------------------------------------------------
(***************************************************************************)
(* Positions on a ring.  A side that moves past the last slot goes back to *)
(* slot 0 and flips its sense.                                             *)
(***************************************************************************)
NextSlot(i) == IF i + 1 >= MAX_NUM_WQ THEN 0 ELSE i + 1

(* Mutant: the sense is not reversed at the end of a lap. *)
NextSenseKept(i, sr) == sr

NextSense(i, sr) == IF i + 1 >= MAX_NUM_WQ THEN 1 - sr ELSE sr

(***************************************************************************)
(* The NIC (external) hands out rings whose slots are all invalid and      *)
(* carry the sense opposite to the first lap's, and starts with the sense  *)
(* the application starts with.                                            *)
(***************************************************************************)
Init ==
  /\ wq = [s \in Slots |-> [valid |-> 0, SR |-> 0, val |-> NoValue]]
  /\ cq = [s \in Slots |-> [valid |-> 0, SR |-> 0, val |-> NoValue]]
  /\ head = 0 /\ wqSR = 1
  /\ tail = 0 /\ cqSR = 1
  /\ nicTail = 0 /\ nicWqSR = 1
  /\ nicHead = 0 /\ nicCqSR = 1
  /\ pc = "idle"
  /\ wqeValid = 0
  /\ cqe = NoValue
  /\ ret = "none"

-----------------------------------------------------------------------------
(***************************************************************************)
(* rmc_hw_send and rmc_hw_recv differ only in the entry they build.  Both  *)
(* refuse when the slot at head is still valid; otherwise create_wq_entry  *)
(* writes the slot and notifies the NIC, and only then is head advanced.   *)
(* The NIC may fetch the entry before head moves.                          *)
(***************************************************************************)
PostRefused ==
  /\ pc = "idle"
  /\ wq[head].valid # 0
  /\ ret' = "full"
  /\ UNCHANGED <<wq, cq, head, wqSR, tail, cqSR, pc, wqeValid, cqe, nicVars>>

(* Mutant: the slot is overwritten without looking at its valid flag. *)
CreateWqEntryUnchecked(r) ==
  /\ pc = "idle"
  /\ wq' = [wq EXCEPT ![head] = [valid |-> 1, SR |-> wqSR, val |-> r]]
  /\ pc' = "advance"
  /\ ret' = "none"
  /\ UNCHANGED <<cq, head, wqSR, tail, cqSR, wqeValid, cqe, nicVars>>

(* Mutant: the entry keeps the sense the slot had. *)
CreateWqEntryOldSense(r) ==
  /\ pc = "idle"
  /\ wq[head].valid = 0
  /\ wq' = [wq EXCEPT ![head] = [valid |-> 1, SR |-> wq[head].SR, val |-> r]]
  /\ pc' = "advance"
  /\ ret' = "none"
  /\ UNCHANGED <<cq, head, wqSR, tail, cqSR, wqeValid, cqe, nicVars>>

CreateWqEntry(r) ==
  /\ pc = "idle"
  /\ wq[head].valid = 0
  /\ wq' = [wq EXCEPT ![head] = [valid |-> 1, SR |-> wqSR, val |-> r]]
  /\ pc' = "advance"
  /\ ret' = "none"
  /\ UNCHANGED <<cq, head, wqSR, tail, cqSR, wqeValid, cqe, nicVars>>

AdvanceHead ==
  /\ pc = "advance"
  /\ head' = NextSlot(head)
  /\ wqSR' = NextSense(head, wqSR)
  /\ ret' = "posted"
  /\ pc' = "idle"
  /\ UNCHANGED <<wq, cq, tail, cqSR, wqeValid, cqe, nicVars>>

-----------------------------------------------------------------------------
(***************************************************************************)
(* rmc_check_cq.  The outer loop reads the work-queue slot at head; the    *)
(* inner loop copies the completion at tail, and if its sense is the       *)
(* application's, clears its valid flag, advances tail and looks at the    *)
(* copy: an incoming packet or response is returned, a work-queue          *)
(* completion is skipped.  (Its RMC_SABRE branch is left out: no call of   *)
(* the library posts an RMC_SABRE.)  When the inner loop ends the outer    *)
(* one repeats as long as the work-queue slot was seen valid, that is, as  *)
(* long as the work queue was full.  The locals raw_wqe and raw_cqe_entry  *)
(* are cleared when their values are no longer used.                       *)
(***************************************************************************)
CheckBegin ==
  /\ pc = "idle"
  /\ pc' = "outer"
  /\ ret' = "none"
  /\ UNCHANGED <<wq, cq, head, wqSR, tail, cqSR, wqeValid, cqe, nicVars>>

CheckOuter ==
  /\ pc = "outer"
  /\ wqeValid' = wq[head].valid
  /\ pc' = "inner"
  /\ UNCHANGED <<wq, cq, head, wqSR, tail, cqSR, cqe, ret, nicVars>>

(* Mutant: the inner loop is retried on the work-queue slot read before. *)
CheckNothingStale ==
  /\ pc = "inner"
  /\ cq[tail].SR # cqSR
  /\ IF wqeValid # 0
       THEN pc' = "inner" /\ UNCHANGED <<ret, wqeValid>>
       ELSE pc' = "idle"  /\ ret' = "empty" /\ wqeValid' = 0
  /\ UNCHANGED <<wq, cq, head, wqSR, tail, cqSR, cqe, nicVars>>

CheckNothing ==
  /\ pc = "inner"
  /\ cq[tail].SR # cqSR
  /\ IF wqeValid # 0
       THEN pc' = "outer" /\ UNCHANGED ret
       ELSE pc' = "idle"  /\ ret' = "empty"
  /\ wqeValid' = 0
  /\ UNCHANGED <<wq, cq, head, wqSR, tail, cqSR, cqe, nicVars>>

CheckCopy ==
  /\ pc = "inner"
  /\ cq[tail].SR = cqSR
  /\ cqe' = cq[tail].val
  /\ pc' = "invalidate"
  /\ UNCHANGED <<wq, cq, head, wqSR, tail, cqSR, wqeValid, ret, nicVars>>

CheckInvalidate ==
  /\ pc = "invalidate"
  /\ cq' = [cq EXCEPT ![tail].valid = 0]
  /\ pc' = "consume"
  /\ UNCHANGED <<wq, head, wqSR, tail, cqSR, wqeValid, cqe, ret, nicVars>>

CheckAdvance ==
  /\ pc = "consume"
  /\ tail' = NextSlot(tail)
  /\ cqSR' = NextSense(tail, cqSR)
  /\ IF cqe.success = "WQ_DONE"
       THEN pc' = "inner" /\ UNCHANGED <<wqeValid, ret>>
       ELSE pc' = "idle"  /\ ret' = cqe.success /\ wqeValid' = 0
  /\ cqe' = NoValue
  /\ UNCHANGED <<wq, cq, head, wqSR, nicVars>>

-----------------------------------------------------------------------------
(***************************************************************************)
(* The NIC (external).  It fetches a valid request whose sense is its own  *)
(* and clears the valid flag; it fills a completion slot the application   *)
(* has invalidated.                                                        *)
(***************************************************************************)
NicFetch ==
  /\ wq[nicTail].valid # 0
  /\ wq[nicTail].SR = nicWqSR
  /\ wq' = [wq EXCEPT ![nicTail].valid = 0]
  /\ nicTail' = NextSlot(nicTail)
  /\ nicWqSR' = NextSense(nicTail, nicWqSR)
  /\ UNCHANGED <<cq, appVars, nicHead, nicCqSR>>

NicComplete(c) ==
  /\ cq[nicHead].valid = 0
  /\ cq' = [cq EXCEPT ![nicHead] = [valid |-> 1, SR |-> nicCqSR, val |-> c]]
  /\ nicHead' = NextSlot(nicHead)
  /\ nicCqSR' = NextSense(nicHead, nicCqSR)
  /\ UNCHANGED <<wq, appVars, nicTail, nicWqSR>>

-----------------------------------------------------------------------------
(* The steps of a call that has begun. *)
CallStep ==
  \/ AdvanceHead
  \/ CheckOuter \/ CheckNothing
  \/ CheckCopy \/ CheckInvalidate \/ CheckAdvance

AppStep ==
  \/ PostRefused
  \/ \E r \in Requests : CreateWqEntry(r)
  \/ CheckBegin
  \/ CallStep

NicStep ==
  \/ NicFetch
  \/ \E c \in Completions : NicComplete(c)

Next == AppStep \/ NicStep

Spec == Init /\ [][Next]_vars

(* The simulated NIC is never descheduled: it keeps polling the work       *)
(* queue.  A worker is bound to a core of its own (run_worker): a call it  *)
(* has begun keeps running.  Nothing is assumed of which calls the         *)
(* application makes, or of arrivals.                                      *)
FairSpec == Spec /\ WF_vars(NicFetch) /\ WF_vars(CallStep)
-----------------------------------------------------------------------------
(***************************************************************************)
(* Reading the rings.  Between writing a slot and advancing its own index  *)
(* a side has already changed the queue: its effective position is the     *)
(* one it is about to store.                                               *)
(***************************************************************************)
appHead     == IF pc = "advance" THEN NextSlot(head) ELSE head
appHeadSR   == IF pc = "advance" THEN NextSense(head, wqSR) ELSE wqSR
appTail     == IF pc = "consume" THEN NextSlot(tail) ELSE tail
appTailSR   == IF pc = "consume" THEN NextSense(tail, cqSR) ELSE cqSR

(* A producer at position h with sense e and a consumer at t with sense f  *)
(* are on the same lap when e = f; otherwise the producer is a lap ahead.  *)
Ordered(h, e, t, f) == IF e = f THEN t <= h ELSE h <= t

InFlight(h, e, t, f, s) ==
  IF e = f THEN t <= s /\ s < h ELSE s < h \/ t <= s

Count(h, e, t, f) == IF e = f THEN h - t ELSE h + MAX_NUM_WQ - t

(* The slot of the k-th oldest entry of a ring whose consumer is at t.     *)
SlotAt(t, k) ==
  IF t + k - 1 < MAX_NUM_WQ THEN t + k - 1 ELSE t + k - 1 - MAX_NUM_WQ

Contents(ring, h, e, t, f) ==
  [k \in 1 .. Count(h, e, t, f) |-> ring[SlotAt(t, k)].val]

wqContents == Contents(wq, appHead, appHeadSR, nicTail, nicWqSR)
cqContents == Contents(cq, nicHead, nicCqSR, appTail, appTailSR)

-----------------------------------------------------------------------------
WqSlot == [valid : {0, 1}, SR : Sense, val : Requests \cup {NoValue}]
CqSlot == [valid : {0, 1}, SR : Sense, val : Completions \cup {NoValue}]

(* Type invariant of the rings, the two sides' positions and the locals of *)
(* the library calls.                                                      *)
TypeOK ==
  /\ wq \in [Slots -> WqSlot]
  /\ cq \in [Slots -> CqSlot]
  /\ head \in Slots /\ tail \in Slots /\ nicTail \in Slots /\ nicHead \in Slots
  /\ wqSR \in Sense /\ cqSR \in Sense /\ nicWqSR \in Sense /\ nicCqSR \in Sense
  /\ pc \in {"idle", "advance", "outer", "inner", "invalidate", "consume"}
  /\ wqeValid \in {0, 1}
  /\ cqe \in Completions \cup {NoValue}
  /\ ret \in {"none", "full", "posted", "empty", "INCOMING_SEND", "INCOMING_RESP"}

(***************************************************************************)
(* The invariant that makes the rings work.  The two sides' senses tell    *)
(* which of them wrapped last; exactly the slots between the consumer and  *)
(* the producer are valid and hold entries; every slot the producer passed *)
(* on its current lap carries the producer's sense and every other slot    *)
(* the opposite one.                                                       *)
(***************************************************************************)
WqAgreement ==
  /\ Ordered(appHead, appHeadSR, nicTail, nicWqSR)
  /\ \A s \in Slots :
       /\ (wq[s].valid = 1) <=> InFlight(appHead, appHeadSR, nicTail, nicWqSR, s)
       /\ wq[s].valid = 1 => wq[s].val \in Requests
       /\ wq[s].SR = IF s < appHead THEN appHeadSR ELSE 1 - appHeadSR

CqAgreement ==
  /\ Ordered(nicHead, nicCqSR, appTail, appTailSR)
  /\ \A s \in Slots :
       /\ (cq[s].valid = 1) <=> InFlight(nicHead, nicCqSR, appTail, appTailSR, s)
       /\ cq[s].valid = 1 => cq[s].val \in Completions
       /\ cq[s].SR = IF s < nicHead THEN nicCqSR ELSE 1 - nicCqSR

(* The completion rmc_check_cq has copied out and is about to consume is   *)
(* the oldest one the NIC reported and nobody has consumed: never a stale  *)
(* slot of an earlier lap, never one ahead of its turn.                    *)
CopyIsOldest ==
  pc = "invalidate" => /\ cqContents # <<>>
                       /\ cqe = cqContents[1]

(* A completion that was copied is a real one also once its slot has been  *)
(* given back to the NIC: rmc_check_cq goes on with the copy, not the slot.*)
CopyIsCompletion ==
  pc \in {"invalidate", "consume"} => cqe \in Completions

(***************************************************************************)
(* Each side decides with one look at one slot.  That look is exact: the   *)
(* application finds the slot at head valid just when all slots hold       *)
(* unfetched requests, finds its own sense at tail just when a completion  *)
(* is waiting, and the NIC never meets a valid request of the wrong sense  *)
(* (on which it would wait for ever).                                      *)
(***************************************************************************)
LocalTestsExact ==
  /\ pc # "advance" =>
       (wq[head].valid # 0 <=> Len(wqContents) = MAX_NUM_WQ)
  /\ pc # "consume" =>
       (cq[tail].SR = cqSR <=> cqContents # <<>>)
  /\ wq[nicTail].valid # 0 => wq[nicTail].SR = nicWqSR
  /\ wq[nicTail].valid # 0 <=> wqContents # <<>>
  /\ cq[nicHead].valid # 0 <=> Len(cqContents) = MAX_NUM_WQ

(* The inductive invariant. *)
IInv == TypeOK /\ WqAgreement /\ CqAgreement /\ CopyIsOldest /\ CopyIsCompletion

-----------------------------------------------------------------------------
(* The two rings are two bounded FIFO queues.                              *)
FIFO == INSTANCE QueuePairSpec WITH wqueue <- wqContents, cqueue <- cqContents

FifoSpec == FIFO!Spec

(* The rings implement the queue pair's specification: every step of the   *)
(* application or the NIC posts, fetches, completes or takes exactly one   *)
(* entry at the right end of a queue or leaves both queues alone, and as   *)
(* long as requests are waiting the NIC keeps fetching them.               *)
ImplementsFifo == FIFO!LiveSpec

(* rmc_check_cq returns, although it repeats its outer loop as long as it  *)
(* finds the work queue full and its inner loop as long as it finds        *)
(* completions of work-queue entries: it can only be kept by a NIC that    *)
(* reports such completions for ever.                                      *)
CheckReturns ==
  \/ pc = "outer" ~> pc = "idle"
  \/ []<>(pc = "consume" /\ cqe.success = "WQ_DONE")
=============================================================================
