-------------------------- MODULE QueuePairProofs --------------------------
(***************************************************************************)
(* Proofs about QueuePair, for every ring size and every set of requests   *)
(* and completions: the inductive invariant of the sense-reversing rings,  *)
(* the exactness of the one-slot tests both sides rely on, and that the    *)
(* rings implement the bounded FIFO queues of QueuePairSpec.               *)
(***************************************************************************)
EXTENDS QueuePair, SequenceTheorems, TLAPS

-----------------------------------------------------------------------------
(* Ring arithmetic. *)

(* Moving past a slot stays on the ring (the wrap in rmc_hw_send).         *)
LEMMA NextInRange ==
  ASSUME NEW i \in Slots, NEW sr \in Sense
  PROVE  NextSlot(i) \in Slots /\ NextSense(i, sr) \in Sense
BY SizeAssumption DEF NextSlot, NextSense, Slots, Sense

(* What the positions say at the two ends: the number of entries is        *)
(* bounded by the ring, the producer's slot is in flight only when the     *)
(* ring is full, the consumer's only when it is not empty.                 *)
LEMMA RingEnds ==
  ASSUME NEW h \in Slots, NEW e \in Sense, NEW t \in Slots, NEW f \in Sense,
         Ordered(h, e, t, f)
  PROVE  /\ Count(h, e, t, f) \in 0 .. MAX_NUM_WQ
         /\ InFlight(h, e, t, f, h) <=> Count(h, e, t, f) = MAX_NUM_WQ
         /\ InFlight(h, e, t, f, t) <=> Count(h, e, t, f) # 0
         /\ SlotAt(t, 1) = t
BY SizeAssumption DEF Slots, Sense, Ordered, Count, InFlight, SlotAt

(* The k-th oldest entry sits in a slot that is in flight.                 *)
LEMMA SlotAtInFlight ==
  ASSUME NEW h \in Slots, NEW e \in Sense, NEW t \in Slots, NEW f \in Sense,
         Ordered(h, e, t, f), NEW k \in 1 .. Count(h, e, t, f)
  PROVE  SlotAt(t, k) \in Slots /\ InFlight(h, e, t, f, SlotAt(t, k))
BY SizeAssumption DEF Slots, Sense, Ordered, Count, InFlight, SlotAt

(* A producer that fills the slot at its position and moves on adds one    *)
(* entry, at the young end, and changes the expected sense of that slot    *)
(* only.                                                                   *)
LEMMA Produce ==
  ASSUME NEW h \in Slots, NEW e \in Sense, NEW t \in Slots, NEW f \in Sense,
         Ordered(h, e, t, f), ~InFlight(h, e, t, f, h)
  PROVE  LET h1 == NextSlot(h)
             e1 == NextSense(h, e)
         IN  /\ Ordered(h1, e1, t, f)
             /\ Count(h1, e1, t, f) = Count(h, e, t, f) + 1
             /\ SlotAt(t, Count(h, e, t, f) + 1) = h
             /\ \A s \in Slots : InFlight(h1, e1, t, f, s)
                                   <=> InFlight(h, e, t, f, s) \/ s = h
             /\ \A s \in Slots \ {h} : (IF s < h1 THEN e1 ELSE 1 - e1)
                                        = (IF s < h THEN e ELSE 1 - e)
             /\ (IF h < h1 THEN e1 ELSE 1 - e1) = e
BY SizeAssumption
   DEF Slots, Sense, Ordered, Count, InFlight, SlotAt, NextSlot, NextSense

(* A consumer that empties the slot at its position and moves on removes   *)
(* the oldest entry and shifts the others down by one.                     *)
LEMMA Consume ==
  ASSUME NEW h \in Slots, NEW e \in Sense, NEW t \in Slots, NEW f \in Sense,
         Ordered(h, e, t, f), InFlight(h, e, t, f, t)
  PROVE  LET t1 == NextSlot(t)
             f1 == NextSense(t, f)
         IN  /\ Ordered(h, e, t1, f1)
             /\ Count(h, e, t1, f1) = Count(h, e, t, f) - 1
             /\ \A k \in 1 .. Count(h, e, t, f) - 1 :
                  SlotAt(t1, k) = SlotAt(t, k + 1)
             /\ \A s \in Slots : InFlight(h, e, t1, f1, s)
                                   <=> InFlight(h, e, t, f, s) /\ s # t
BY SizeAssumption
   DEF Slots, Sense, Ordered, Count, InFlight, SlotAt, NextSlot, NextSense

(* The sequence read off a ring has as many elements as the ring has       *)
(* entries in flight.                                                      *)
LEMMA ContentsSeq ==
  ASSUME NEW S, NEW ring, NEW h \in Slots, NEW e \in Sense,
         NEW t \in Slots, NEW f \in Sense, Ordered(h, e, t, f),
         \A s \in Slots : InFlight(h, e, t, f, s) => ring[s].val \in S
  PROVE  /\ Contents(ring, h, e, t, f) \in Seq(S)
         /\ Len(Contents(ring, h, e, t, f)) = Count(h, e, t, f)
         /\ Contents(ring, h, e, t, f) = <<>> <=> Count(h, e, t, f) = 0
<1> DEFINE n == Count(h, e, t, f)
           c == Contents(ring, h, e, t, f)
<1>1. n \in Nat
  BY RingEnds, SizeAssumption
<1>2. \A k \in 1 .. n : ring[SlotAt(t, k)].val \in S
  BY SlotAtInFlight
<1>3. c \in [1 .. n -> S]
  BY <1>2 DEF Contents
<1>4. c \in Seq(S)
  BY <1>1, <1>3, SeqDef
<1>5. Len(c) = n
  BY <1>1, <1>3, <1>4, LenProperties
<1> QED
  BY <1>4, <1>5, EmptySeq

(* The same without a type for the values: any ring's contents form a      *)
(* sequence of the values it holds.                                        *)
LEMMA ContentsAnySeq ==
  ASSUME NEW ring, NEW h \in Slots, NEW e \in Sense,
         NEW t \in Slots, NEW f \in Sense, Ordered(h, e, t, f)
  PROVE  /\ Contents(ring, h, e, t, f) \in Seq({ring[s].val : s \in Slots})
         /\ Len(Contents(ring, h, e, t, f)) = Count(h, e, t, f)
<1> DEFINE S == {ring[s].val : s \in Slots}
           n == Count(h, e, t, f)
           c == Contents(ring, h, e, t, f)
<1>1. n \in Nat
  BY RingEnds, SizeAssumption
<1>2. \A k \in 1 .. n : ring[SlotAt(t, k)].val \in S
  BY SlotAtInFlight
<1>3. c \in [1 .. n -> S]
  BY <1>2 DEF Contents
<1>4. c \in Seq(S)
  BY <1>1, <1>3, SeqDef
<1>5. Len(c) = n
  BY <1>1, <1>3, <1>4, LenProperties
<1> QED
  BY <1>4, <1>5

-----------------------------------------------------------------------------
(* The effective positions are positions on the ring.                      *)
LEMMA PositionTypes ==
  ASSUME TypeOK
  PROVE  /\ appHead \in Slots /\ appHeadSR \in Sense
         /\ appTail \in Slots /\ appTailSR \in Sense
BY NextInRange DEF TypeOK, appHead, appHeadSR, appTail, appTailSR

(* The two queues are sequences of requests and of completions, as long as *)
(* the rings have entries in flight.                                       *)
LEMMA QueuesAreSeqs ==
  ASSUME TypeOK, WqAgreement, CqAgreement
  PROVE  /\ wqContents \in Seq(Requests)
         /\ Len(wqContents) = Count(appHead, appHeadSR, nicTail, nicWqSR)
         /\ wqContents = <<>> <=> Count(appHead, appHeadSR, nicTail, nicWqSR) = 0
         /\ cqContents \in Seq(Completions)
         /\ Len(cqContents) = Count(nicHead, nicCqSR, appTail, appTailSR)
         /\ cqContents = <<>> <=> Count(nicHead, nicCqSR, appTail, appTailSR) = 0
<1>1. /\ nicTail \in Slots /\ nicWqSR \in Sense
      /\ nicHead \in Slots /\ nicCqSR \in Sense
  BY DEF TypeOK
<1>2. /\ Ordered(appHead, appHeadSR, nicTail, nicWqSR)
      /\ \A s \in Slots : InFlight(appHead, appHeadSR, nicTail, nicWqSR, s)
                            => wq[s].val \in Requests
  BY DEF WqAgreement
<1>3. /\ Ordered(nicHead, nicCqSR, appTail, appTailSR)
      /\ \A s \in Slots : InFlight(nicHead, nicCqSR, appTail, appTailSR, s)
                            => cq[s].val \in Completions
  BY DEF CqAgreement
<1>4. /\ appHead \in Slots /\ appHeadSR \in Sense
      /\ appTail \in Slots /\ appTailSR \in Sense
  BY PositionTypes
<1>5. LET c == Contents(wq, appHead, appHeadSR, nicTail, nicWqSR)
          n == Count(appHead, appHeadSR, nicTail, nicWqSR)
      IN  c \in Seq(Requests) /\ Len(c) = n /\ (c = <<>> <=> n = 0)
  BY <1>1, <1>2, <1>4, ContentsSeq
<1>6. LET c == Contents(cq, nicHead, nicCqSR, appTail, appTailSR)
          n == Count(nicHead, nicCqSR, appTail, appTailSR)
      IN  c \in Seq(Completions) /\ Len(c) = n /\ (c = <<>> <=> n = 0)
  BY <1>1, <1>3, <1>4, ContentsSeq
<1> QED
  BY <1>5, <1>6 DEF wqContents, cqContents

(* The oldest completion is the one in the slot at tail.                   *)
LEMMA OldestAtTail ==
  TypeOK /\ WqAgreement /\ CqAgreement /\ pc # "consume" =>
    /\ cqContents # <<>> <=> InFlight(nicHead, nicCqSR, tail, cqSR, tail)
    /\ cqContents # <<>> => cqContents[1] = cq[tail].val
<1> SUFFICES ASSUME TypeOK, WqAgreement, CqAgreement, pc # "consume"
             PROVE  /\ cqContents # <<>>
                         <=> InFlight(nicHead, nicCqSR, tail, cqSR, tail)
                    /\ cqContents # <<>> => cqContents[1] = cq[tail].val
  OBVIOUS
<1>1. appTail = tail /\ appTailSR = cqSR
  BY DEF appTail, appTailSR
<1>2. /\ nicHead \in Slots /\ nicCqSR \in Sense
      /\ tail \in Slots /\ cqSR \in Sense
      /\ Ordered(nicHead, nicCqSR, tail, cqSR)
  BY <1>1 DEF TypeOK, CqAgreement
<1>3. /\ Count(nicHead, nicCqSR, tail, cqSR) \in 0 .. MAX_NUM_WQ
      /\ InFlight(nicHead, nicCqSR, tail, cqSR, tail)
           <=> Count(nicHead, nicCqSR, tail, cqSR) # 0
      /\ SlotAt(tail, 1) = tail
  BY <1>2, RingEnds
<1>4. cqContents = <<>> <=> Count(nicHead, nicCqSR, tail, cqSR) = 0
  BY <1>1, QueuesAreSeqs
<1>5. ASSUME cqContents # <<>> PROVE cqContents[1] = cq[tail].val
  <2>1. 1 \in 1 .. Count(nicHead, nicCqSR, tail, cqSR)
    BY <1>3, <1>4, <1>5, SizeAssumption
  <2> QED
    BY <1>1, <1>3, <2>1 DEF cqContents, Contents
<1> QED
  BY <1>3, <1>4, <1>5

(* The one-slot tests are exact (see LocalTestsExact).                     *)
LEMMA TestsExact == IInv => LocalTestsExact
<1> SUFFICES ASSUME IInv PROVE LocalTestsExact
  OBVIOUS
<1> USE DEF IInv
<1>1. /\ nicTail \in Slots /\ nicWqSR \in Sense
      /\ nicHead \in Slots /\ nicCqSR \in Sense
      /\ head \in Slots /\ tail \in Slots /\ cqSR \in Sense /\ wqSR \in Sense
      /\ \A s \in Slots : wq[s].valid \in {0, 1} /\ cq[s].valid \in {0, 1}
  BY DEF TypeOK, WqSlot, CqSlot
<1>2. /\ appHead \in Slots /\ appHeadSR \in Sense
      /\ appTail \in Slots /\ appTailSR \in Sense
  BY PositionTypes
<1>3. pc # "advance" => (wq[head].valid # 0 <=> Len(wqContents) = MAX_NUM_WQ)
  <2> SUFFICES ASSUME pc # "advance"
               PROVE  wq[head].valid # 0 <=> Len(wqContents) = MAX_NUM_WQ
    OBVIOUS
  <2>1. appHead = head /\ appHeadSR = wqSR
    BY DEF appHead, appHeadSR
  <2>2. wq[head].valid # 0 <=> InFlight(head, wqSR, nicTail, nicWqSR, head)
    BY <1>1, <2>1 DEF WqAgreement
  <2>3. InFlight(head, wqSR, nicTail, nicWqSR, head)
          <=> Count(head, wqSR, nicTail, nicWqSR) = MAX_NUM_WQ
    BY <1>1, <2>1, RingEnds DEF WqAgreement
  <2> QED
    BY <2>1, <2>2, <2>3, QueuesAreSeqs
<1>4. pc # "consume" => (cq[tail].SR = cqSR <=> cqContents # <<>>)
  <2> SUFFICES ASSUME pc # "consume"
               PROVE  cq[tail].SR = cqSR <=> cqContents # <<>>
    OBVIOUS
  <2>1. appTail = tail /\ appTailSR = cqSR
    BY DEF appTail, appTailSR
  <2>2. cq[tail].SR = IF tail < nicHead THEN nicCqSR ELSE 1 - nicCqSR
    BY <1>1 DEF CqAgreement
  <2>3. Ordered(nicHead, nicCqSR, tail, cqSR)
    BY <2>1 DEF CqAgreement
  <2>4. cq[tail].SR = cqSR <=> InFlight(nicHead, nicCqSR, tail, cqSR, tail)
    BY <1>1, <2>2, <2>3, SizeAssumption
       DEF Ordered, InFlight, Slots, Sense
  <2> QED
    BY <2>4, OldestAtTail
<1>5. /\ wq[nicTail].valid # 0 => wq[nicTail].SR = nicWqSR
      /\ wq[nicTail].valid # 0 <=> wqContents # <<>>
  <2>1. wq[nicTail].valid # 0
          <=> InFlight(appHead, appHeadSR, nicTail, nicWqSR, nicTail)
    BY <1>1 DEF WqAgreement
  <2>2. wq[nicTail].SR = IF nicTail < appHead THEN appHeadSR ELSE 1 - appHeadSR
    BY <1>1 DEF WqAgreement
  <2>3. InFlight(appHead, appHeadSR, nicTail, nicWqSR, nicTail)
          => wq[nicTail].SR = nicWqSR
    BY <1>1, <1>2, <2>2, SizeAssumption
       DEF WqAgreement, Ordered, InFlight, Slots, Sense
  <2>4. InFlight(appHead, appHeadSR, nicTail, nicWqSR, nicTail)
          <=> Count(appHead, appHeadSR, nicTail, nicWqSR) # 0
    BY <1>1, <1>2, RingEnds DEF WqAgreement
  <2> QED
    BY <2>1, <2>3, <2>4, QueuesAreSeqs
<1>6. cq[nicHead].valid # 0 <=> Len(cqContents) = MAX_NUM_WQ
  <2>1. cq[nicHead].valid # 0
          <=> InFlight(nicHead, nicCqSR, appTail, appTailSR, nicHead)
    BY <1>1 DEF CqAgreement
  <2>2. InFlight(nicHead, nicCqSR, appTail, appTailSR, nicHead)
          <=> Count(nicHead, nicCqSR, appTail, appTailSR) = MAX_NUM_WQ
    BY <1>1, <1>2, RingEnds DEF CqAgreement
  <2> QED
    BY <2>1, <2>2, QueuesAreSeqs
<1> QED
  BY <1>3, <1>4, <1>5, <1>6 DEF LocalTestsExact

-----------------------------------------------------------------------------
(* Filling the producer's slot keeps the agreement of a ring: this is what *)
(* create_wq_entry does to the work queue and the NIC to the completion    *)
(* queue.                                                                  *)
LEMMA WqProduced ==
  ASSUME TypeOK, WqAgreement, pc = "idle", wq[head].valid = 0,
         NEW r \in Requests,
         wq' = [wq EXCEPT ![head] = [valid |-> 1, SR |-> wqSR, val |-> r]],
         pc' = "advance",
         UNCHANGED <<head, wqSR, nicTail, nicWqSR>>
  PROVE  WqAgreement'
<1>1. /\ head \in Slots /\ wqSR \in Sense
      /\ nicTail \in Slots /\ nicWqSR \in Sense
      /\ wq \in [Slots -> WqSlot]
  BY DEF TypeOK
<1>2. /\ appHead = head /\ appHeadSR = wqSR
      /\ appHead' = NextSlot(head) /\ appHeadSR' = NextSense(head, wqSR)
  BY DEF appHead, appHeadSR
<1>3. /\ Ordered(head, wqSR, nicTail, nicWqSR)
      /\ ~InFlight(head, wqSR, nicTail, nicWqSR, head)
  BY <1>1, <1>2 DEF WqAgreement
<1> DEFINE h1 == NextSlot(head)
           e1 == NextSense(head, wqSR)
<1>4. /\ Ordered(h1, e1, nicTail, nicWqSR)
      /\ \A s \in Slots : InFlight(h1, e1, nicTail, nicWqSR, s)
                   <=> InFlight(head, wqSR, nicTail, nicWqSR, s) \/ s = head
      /\ \A s \in Slots \ {head} : (IF s < h1 THEN e1 ELSE 1 - e1)
                   = (IF s < head THEN wqSR ELSE 1 - wqSR)
      /\ (IF head < h1 THEN e1 ELSE 1 - e1) = wqSR
  BY <1>1, <1>3, Produce
<1> HIDE DEF h1, e1
<1>5. ASSUME NEW s \in Slots
      PROVE  /\ (wq'[s].valid = 1) <=> InFlight(h1, e1, nicTail, nicWqSR, s)
             /\ wq'[s].valid = 1 => wq'[s].val \in Requests
             /\ wq'[s].SR = IF s < h1 THEN e1 ELSE 1 - e1
  <2>1. CASE s = head
    BY <1>1, <1>4, <2>1
  <2>2. CASE s # head
    <3>1. wq'[s] = wq[s]
      BY <1>1, <2>2
    <3> QED
      BY <1>2, <1>4, <2>2, <3>1 DEF WqAgreement
  <2> QED
    BY <2>1, <2>2
<1> QED
  BY <1>2, <1>4, <1>5 DEF WqAgreement, h1, e1

LEMMA CqProduced ==
  ASSUME TypeOK, CqAgreement, cq[nicHead].valid = 0, NEW c \in Completions,
         NicComplete(c)
  PROVE  CqAgreement'
<1>1. /\ nicHead \in Slots /\ nicCqSR \in Sense
      /\ cq \in [Slots -> CqSlot]
  BY DEF TypeOK
<1>2. /\ appTail \in Slots /\ appTailSR \in Sense
      /\ appTail' = appTail /\ appTailSR' = appTailSR
      /\ nicHead' = NextSlot(nicHead) /\ nicCqSR' = NextSense(nicHead, nicCqSR)
      /\ cq' = [cq EXCEPT ![nicHead] = [valid |-> 1, SR |-> nicCqSR, val |-> c]]
  BY PositionTypes DEF NicComplete, appVars, appTail, appTailSR
<1>3. /\ Ordered(nicHead, nicCqSR, appTail, appTailSR)
      /\ ~InFlight(nicHead, nicCqSR, appTail, appTailSR, nicHead)
  BY <1>1, <1>2 DEF CqAgreement
<1> DEFINE h1 == NextSlot(nicHead)
           e1 == NextSense(nicHead, nicCqSR)
<1>4. /\ Ordered(h1, e1, appTail, appTailSR)
      /\ \A s \in Slots : InFlight(h1, e1, appTail, appTailSR, s)
                   <=> InFlight(nicHead, nicCqSR, appTail, appTailSR, s) \/ s = nicHead
      /\ \A s \in Slots \ {nicHead} : (IF s < h1 THEN e1 ELSE 1 - e1)
                   = (IF s < nicHead THEN nicCqSR ELSE 1 - nicCqSR)
      /\ (IF nicHead < h1 THEN e1 ELSE 1 - e1) = nicCqSR
  BY <1>1, <1>2, <1>3, Produce
<1> HIDE DEF h1, e1
<1>5. ASSUME NEW s \in Slots
      PROVE  /\ (cq'[s].valid = 1) <=> InFlight(h1, e1, appTail, appTailSR, s)
             /\ cq'[s].valid = 1 => cq'[s].val \in Completions
             /\ cq'[s].SR = IF s < h1 THEN e1 ELSE 1 - e1
  <2>1. CASE s = nicHead
    BY <1>1, <1>2, <1>4, <2>1
  <2>2. CASE s # nicHead
    <3>1. cq'[s] = cq[s]
      BY <1>1, <1>2, <2>2
    <3> QED
      BY <1>4, <2>2, <3>1 DEF CqAgreement
  <2> QED
    BY <2>1, <2>2
<1> QED
  BY <1>2, <1>4, <1>5 DEF CqAgreement, h1, e1

(* Invalidating the consumer's slot keeps the agreement of a ring: this is *)
(* what the NIC does to the work queue and rmc_check_cq to the completion  *)
(* queue.                                                                  *)
LEMMA WqConsumed ==
  ASSUME TypeOK, WqAgreement, NicFetch
  PROVE  WqAgreement'
<1>1. /\ nicTail \in Slots /\ nicWqSR \in Sense
      /\ wq \in [Slots -> WqSlot]
  BY DEF TypeOK
<1>2. /\ appHead \in Slots /\ appHeadSR \in Sense
      /\ appHead' = appHead /\ appHeadSR' = appHeadSR
      /\ nicTail' = NextSlot(nicTail) /\ nicWqSR' = NextSense(nicTail, nicWqSR)
      /\ wq' = [wq EXCEPT ![nicTail].valid = 0]
      /\ wq[nicTail].valid # 0
  BY PositionTypes DEF NicFetch, appVars, appHead, appHeadSR
<1>3. /\ Ordered(appHead, appHeadSR, nicTail, nicWqSR)
      /\ InFlight(appHead, appHeadSR, nicTail, nicWqSR, nicTail)
  <2>1. wq[nicTail].valid = 1
    BY <1>1, <1>2 DEF WqSlot
  <2> QED
    BY <1>1, <2>1 DEF WqAgreement
<1> DEFINE t1 == NextSlot(nicTail)
           f1 == NextSense(nicTail, nicWqSR)
<1>4. /\ Ordered(appHead, appHeadSR, t1, f1)
      /\ \A s \in Slots : InFlight(appHead, appHeadSR, t1, f1, s)
            <=> InFlight(appHead, appHeadSR, nicTail, nicWqSR, s) /\ s # nicTail
  BY <1>1, <1>2, <1>3, Consume
<1> HIDE DEF t1, f1
<1>5. ASSUME NEW s \in Slots
      PROVE  /\ (wq'[s].valid = 1) <=> InFlight(appHead, appHeadSR, t1, f1, s)
             /\ wq'[s].valid = 1 => wq'[s].val \in Requests
             /\ wq'[s].SR = IF s < appHead THEN appHeadSR ELSE 1 - appHeadSR
  <2>1. /\ wq'[s].SR = wq[s].SR /\ wq'[s].val = wq[s].val
        /\ wq'[s].valid = IF s = nicTail THEN 0 ELSE wq[s].valid
    BY <1>1, <1>2 DEF WqSlot
  <2> QED
    BY <1>4, <2>1 DEF WqAgreement
<1> QED
  BY <1>2, <1>4, <1>5 DEF WqAgreement, t1, f1

LEMMA CqConsumed ==
  ASSUME TypeOK, WqAgreement, CqAgreement, CopyIsOldest, CheckInvalidate
  PROVE  CqAgreement'
<1>1. /\ nicHead \in Slots /\ nicCqSR \in Sense
      /\ tail \in Slots /\ cqSR \in Sense
      /\ cq \in [Slots -> CqSlot]
  BY DEF TypeOK
<1>2. /\ appTail = tail /\ appTailSR = cqSR
      /\ appTail' = NextSlot(tail) /\ appTailSR' = NextSense(tail, cqSR)
      /\ nicHead' = nicHead /\ nicCqSR' = nicCqSR
      /\ cq' = [cq EXCEPT ![tail].valid = 0]
      /\ pc = "invalidate"
  BY DEF CheckInvalidate, nicVars, appTail, appTailSR
<1>3. /\ Ordered(nicHead, nicCqSR, tail, cqSR)
      /\ InFlight(nicHead, nicCqSR, tail, cqSR, tail)
  BY <1>2, OldestAtTail DEF CqAgreement, CopyIsOldest
<1> DEFINE t1 == NextSlot(tail)
           f1 == NextSense(tail, cqSR)
<1>4. /\ Ordered(nicHead, nicCqSR, t1, f1)
      /\ \A s \in Slots : InFlight(nicHead, nicCqSR, t1, f1, s)
            <=> InFlight(nicHead, nicCqSR, tail, cqSR, s) /\ s # tail
  BY <1>1, <1>2, <1>3, Consume
<1> HIDE DEF t1, f1
<1>5. ASSUME NEW s \in Slots
      PROVE  /\ (cq'[s].valid = 1) <=> InFlight(nicHead, nicCqSR, t1, f1, s)
             /\ cq'[s].valid = 1 => cq'[s].val \in Completions
             /\ cq'[s].SR = IF s < nicHead THEN nicCqSR ELSE 1 - nicCqSR
  <2>1. /\ cq'[s].SR = cq[s].SR /\ cq'[s].val = cq[s].val
        /\ cq'[s].valid = IF s = tail THEN 0 ELSE cq[s].valid
    BY <1>1, <1>2 DEF CqSlot
  <2> QED
    BY <1>2, <1>4, <2>1 DEF CqAgreement
<1> QED
  BY <1>2, <1>4, <1>5 DEF CqAgreement, t1, f1

-----------------------------------------------------------------------------
(* Type correctness is preserved by every step.                            *)
LEMMA TypeStep ==
  ASSUME TypeOK, CopyIsCompletion, [Next]_vars
  PROVE  TypeOK'
<1> USE DEF TypeOK, appVars, nicVars, WqSlot, CqSlot
<1>1. CASE PostRefused
  BY <1>1 DEF PostRefused
<1>2. ASSUME NEW r \in Requests, CreateWqEntry(r) PROVE TypeOK'
  BY <1>2 DEF CreateWqEntry
<1>3. CASE AdvanceHead
  BY <1>3, NextInRange DEF AdvanceHead
<1>4. CASE CheckBegin
  BY <1>4 DEF CheckBegin
<1>5. CASE CheckOuter
  BY <1>5 DEF CheckOuter
<1>6. CASE CheckNothing
  BY <1>6 DEF CheckNothing
<1>7. CASE CheckCopy
  BY <1>7 DEF CheckCopy
<1>8. CASE CheckInvalidate
  BY <1>8 DEF CheckInvalidate
<1>9. CASE CheckAdvance
  <2>1. cqe.success \in Successes
    BY <1>9 DEF CheckAdvance, CopyIsCompletion, Completions
  <2> QED
    BY <1>9, <2>1, NextInRange DEF CheckAdvance, Successes
<1>10. CASE NicFetch
  BY <1>10, NextInRange DEF NicFetch
<1>11. ASSUME NEW c \in Completions, NicComplete(c) PROVE TypeOK'
  BY <1>11, NextInRange DEF NicComplete, Sense
<1>12. CASE UNCHANGED vars
  BY <1>12 DEF vars
<1> QED
  BY <1>1, <1>2, <1>3, <1>4, <1>5, <1>6, <1>7, <1>8, <1>9, <1>10, <1>11, <1>12
     DEF Next, AppStep, CallStep, NicStep

(* The work queue's agreement is preserved by every step: only the post    *)
(* and the NIC's fetch touch the ring.                                     *)
LEMMA WqStep ==
  ASSUME TypeOK, WqAgreement, [Next]_vars
  PROVE  WqAgreement'
<1> USE DEF appVars, nicVars
<1>1. ASSUME wq' = wq, appHead' = appHead, appHeadSR' = appHeadSR,
             nicTail' = nicTail, nicWqSR' = nicWqSR
      PROVE  WqAgreement'
  BY <1>1 DEF WqAgreement
<1>2. ASSUME NEW r \in Requests, CreateWqEntry(r) PROVE WqAgreement'
  BY <1>2, WqProduced DEF CreateWqEntry
<1>3. CASE NicFetch
  BY <1>3, WqConsumed
<1>4. CASE AdvanceHead
  BY <1>1, <1>4 DEF AdvanceHead, appHead, appHeadSR
<1>5. CASE PostRefused
  BY <1>1, <1>5 DEF PostRefused, appHead, appHeadSR
<1>6. CASE CheckBegin \/ CheckOuter \/ CheckNothing
  BY <1>1, <1>6 DEF CheckBegin, CheckOuter, CheckNothing, appHead, appHeadSR
<1>7. CASE CheckCopy \/ CheckInvalidate
  BY <1>1, <1>7 DEF CheckCopy, CheckInvalidate, appHead, appHeadSR
<1>8. CASE CheckAdvance
  BY <1>1, <1>8 DEF CheckAdvance, appHead, appHeadSR
<1>9. ASSUME NEW c \in Completions, NicComplete(c) PROVE WqAgreement'
  BY <1>1, <1>9 DEF NicComplete, appHead, appHeadSR
<1>10. CASE UNCHANGED vars
  BY <1>1, <1>10 DEF vars, appHead, appHeadSR
<1> QED
  BY <1>2, <1>3, <1>4, <1>5, <1>6, <1>7, <1>8, <1>9, <1>10
     DEF Next, AppStep, CallStep, NicStep

(* The completion queue's agreement is preserved by every step: only       *)
(* rmc_check_cq and the NIC's completion touch the ring.                   *)
LEMMA CqStep ==
  ASSUME TypeOK, WqAgreement, CqAgreement, CopyIsOldest, [Next]_vars
  PROVE  CqAgreement'
<1> USE DEF appVars, nicVars
<1>1. ASSUME cq' = cq, appTail' = appTail, appTailSR' = appTailSR,
             nicHead' = nicHead, nicCqSR' = nicCqSR
      PROVE  CqAgreement'
  BY <1>1 DEF CqAgreement
<1>2. ASSUME NEW c \in Completions, NicComplete(c) PROVE CqAgreement'
  <2>1. cq[nicHead].valid = 0
    BY <1>2 DEF NicComplete
  <2> QED
    BY <1>2, <2>1, CqProduced
<1>3. CASE CheckInvalidate
  BY <1>3, CqConsumed
<1>4. CASE CheckAdvance
  BY <1>1, <1>4 DEF CheckAdvance, appTail, appTailSR
<1>5. CASE PostRefused \/ AdvanceHead
  BY <1>1, <1>5 DEF PostRefused, AdvanceHead, appTail, appTailSR
<1>6. CASE CheckBegin \/ CheckOuter \/ CheckNothing \/ CheckCopy
  BY <1>1, <1>6
     DEF CheckBegin, CheckOuter, CheckNothing, CheckCopy, appTail, appTailSR
<1>7. ASSUME NEW r \in Requests, CreateWqEntry(r) PROVE CqAgreement'
  BY <1>1, <1>7 DEF CreateWqEntry, appTail, appTailSR
<1>8. CASE NicFetch
  BY <1>1, <1>8 DEF NicFetch, appTail, appTailSR
<1>9. CASE UNCHANGED vars
  BY <1>1, <1>9 DEF vars, appTail, appTailSR
<1> QED
  BY <1>2, <1>3, <1>4, <1>5, <1>6, <1>7, <1>8, <1>9
     DEF Next, AppStep, CallStep, NicStep

(* The copy rmc_check_cq works on stays the oldest completion while the    *)
(* NIC goes on filling slots, and stays a completion afterwards.           *)
LEMMA CopyStep ==
  ASSUME IInv, TypeOK', WqAgreement', CqAgreement', [Next]_vars
  PROVE  CopyIsOldest' /\ CopyIsCompletion'
<1> USE DEF appVars, nicVars
<1> DEFINE AtTail == /\ InFlight(nicHead, nicCqSR, tail, cqSR, tail)
                     /\ cqe = cq[tail].val
                     /\ cqe \in Completions
<1>1. ASSUME pc = "invalidate" PROVE AtTail
  BY <1>1, OldestAtTail DEF IInv, CopyIsOldest, CopyIsCompletion
<1>2. ASSUME pc' = "invalidate", AtTail'
      PROVE  CopyIsOldest' /\ CopyIsCompletion'
  <2>1. (TypeOK /\ WqAgreement /\ CqAgreement /\ pc # "consume" =>
           /\ cqContents # <<>> <=> InFlight(nicHead, nicCqSR, tail, cqSR, tail)
           /\ cqContents # <<>> => cqContents[1] = cq[tail].val)'
    BY OldestAtTail, PTL
  <2> QED
    BY <1>2, <2>1 DEF CopyIsOldest, CopyIsCompletion
<1>3. ASSUME pc' # "invalidate", pc' # "consume"
      PROVE  CopyIsOldest' /\ CopyIsCompletion'
  BY <1>3 DEF CopyIsOldest, CopyIsCompletion
<1>4. ASSUME pc' = "consume", cqe' \in Completions
      PROVE  CopyIsOldest' /\ CopyIsCompletion'
  BY <1>4 DEF CopyIsOldest, CopyIsCompletion
<1>5. ASSUME UNCHANGED <<pc, tail, cqSR, cqe>>, cq'[tail] = cq[tail],
             InFlight(nicHead, nicCqSR, tail, cqSR, tail)
               => InFlight(nicHead', nicCqSR', tail, cqSR, tail)
      PROVE  CopyIsOldest' /\ CopyIsCompletion'
  <2>1. CASE pc = "invalidate"
    <3>1. AtTail'
      BY <1>1, <1>5, <2>1
    <3> QED
      BY <1>2, <1>5, <2>1, <3>1
  <2>2. CASE pc = "consume"
    BY <1>4, <1>5, <2>2 DEF IInv, CopyIsCompletion
  <2>3. CASE pc # "invalidate" /\ pc # "consume"
    BY <1>3, <1>5, <2>3
  <2> QED
    BY <2>1, <2>2, <2>3
<1>6. CASE CheckCopy
  <2>1. cqContents # <<>>
    BY <1>6, TestsExact DEF CheckCopy, LocalTestsExact
  <2>2. InFlight(nicHead, nicCqSR, tail, cqSR, tail)
    BY <1>6, <2>1, OldestAtTail DEF CheckCopy, IInv
  <2>3. cq[tail].val \in Completions
    BY <1>6, <2>2 DEF CheckCopy, IInv, TypeOK, CqAgreement, appTail, appTailSR
  <2>4. AtTail' /\ pc' = "invalidate"
    BY <1>6, <2>2, <2>3 DEF CheckCopy
  <2> QED
    BY <1>2, <2>4
<1>7. CASE CheckInvalidate
  <2>1. cqe \in Completions
    BY <1>7 DEF CheckInvalidate, IInv, CopyIsCompletion
  <2> QED
    BY <1>4, <1>7, <2>1 DEF CheckInvalidate
<1>8. CASE CheckAdvance \/ CheckBegin \/ CheckOuter \/ CheckNothing
  BY <1>3, <1>8 DEF CheckAdvance, CheckBegin, CheckOuter, CheckNothing
<1>9. CASE PostRefused \/ AdvanceHead
  BY <1>3, <1>9 DEF PostRefused, AdvanceHead
<1>10. ASSUME NEW r \in Requests, CreateWqEntry(r)
       PROVE  CopyIsOldest' /\ CopyIsCompletion'
  BY <1>3, <1>10 DEF CreateWqEntry
<1>11. CASE NicFetch
  BY <1>5, <1>11 DEF NicFetch
<1>12. ASSUME NEW c \in Completions, NicComplete(c)
       PROVE  CopyIsOldest' /\ CopyIsCompletion'
  <2>1. CASE pc = "invalidate"
    <3>1. /\ nicHead \in Slots /\ nicCqSR \in Sense
          /\ tail \in Slots /\ cqSR \in Sense /\ cq \in [Slots -> CqSlot]
          /\ appTail = tail /\ appTailSR = cqSR
      BY <2>1 DEF IInv, TypeOK, appTail, appTailSR
    <3>2. /\ Ordered(nicHead, nicCqSR, tail, cqSR)
          /\ ~InFlight(nicHead, nicCqSR, tail, cqSR, nicHead)
          /\ InFlight(nicHead, nicCqSR, tail, cqSR, tail)
      BY <1>1, <1>12, <2>1, <3>1 DEF IInv, CqAgreement, NicComplete
    <3>3. InFlight(nicHead', nicCqSR', tail, cqSR, tail)
      BY <1>12, <3>1, <3>2, Produce DEF NicComplete
    <3>4. cq'[tail] = cq[tail]
      BY <1>12, <3>1, <3>2 DEF NicComplete
    <3> QED
      BY <1>5, <1>12, <3>3, <3>4 DEF NicComplete
  <2>2. CASE pc = "consume"
    BY <1>4, <1>12, <2>2 DEF IInv, CopyIsCompletion, NicComplete
  <2>3. CASE pc # "invalidate" /\ pc # "consume"
    BY <1>3, <1>12, <2>3 DEF NicComplete
  <2> QED
    BY <2>1, <2>2, <2>3
<1>13. CASE UNCHANGED vars
  BY <1>5, <1>13 DEF vars
<1> QED
  BY <1>6, <1>7, <1>8, <1>9, <1>10, <1>11, <1>12, <1>13
     DEF Next, AppStep, CallStep, NicStep

(* The initial rings agree: nothing is in flight and every slot carries    *)
(* the sense of the lap before the first.                                  *)
LEMMA InitInv == Init => IInv
<1> SUFFICES ASSUME Init PROVE IInv
  OBVIOUS
<1> USE SizeAssumption DEF Init, Slots, Sense
<1>1. TypeOK
  BY DEF TypeOK, WqSlot, CqSlot
<1>2. WqAgreement
  BY DEF WqAgreement, appHead, appHeadSR, Ordered, InFlight
<1>3. CqAgreement
  BY DEF CqAgreement, appTail, appTailSR, Ordered, InFlight
<1>4. CopyIsOldest /\ CopyIsCompletion
  BY DEF CopyIsOldest, CopyIsCompletion
<1> QED
  BY <1>1, <1>2, <1>3, <1>4 DEF IInv

(* The invariant is inductive.                                             *)
LEMMA StepInv == IInv /\ [Next]_vars => IInv'
<1> SUFFICES ASSUME IInv, [Next]_vars PROVE IInv'
  OBVIOUS
<1>1. TypeOK'
  BY TypeStep DEF IInv
<1>2. WqAgreement'
  BY WqStep DEF IInv
<1>3. CqAgreement'
  BY CqStep DEF IInv
<1>4. CopyIsOldest' /\ CopyIsCompletion'
  BY <1>1, <1>2, <1>3, CopyStep
<1> QED
  BY <1>1, <1>2, <1>3, <1>4 DEF IInv

(***************************************************************************)
(* The rings always agree with the two sides' positions: exactly the slots *)
(* between consumer and producer are valid, every slot carries the sense   *)
(* of the lap it was last written in, and rmc_check_cq works on a copy of  *)
(* the oldest completion.                                                  *)
(***************************************************************************)
THEOREM RingsAgree == Spec => []IInv
BY InitInv, StepInv, PTL DEF Spec

(* The variables of the rings and of the library calls keep their types.   *)
THEOREM TypeCorrect == Spec => []TypeOK
<1>1. IInv => TypeOK
  BY DEF IInv
<1> QED
  BY <1>1, RingsAgree, PTL

(***************************************************************************)
(* One look at one slot tells each side exactly whether its queue is full  *)
(* or empty, on every ring size and however often the rings have wrapped.  *)
(***************************************************************************)
THEOREM OneSlotTestsExact == Spec => []LocalTestsExact
BY RingsAgree, TestsExact, PTL

-----------------------------------------------------------------------------
(* Refinement: the rings implement the bounded FIFO queues.                *)

(* A ring before and after slot h was written (kept folded below).         *)
SameElsewhere(ring, ring2, h) ==
  \A s \in Slots : s # h => ring2[s].val = ring[s].val

(* Filling the producer's slot appends its value to the queue.             *)
LEMMA ContentsAppend ==
  ASSUME NEW ring, NEW ring2, NEW h \in Slots, NEW e \in Sense,
         NEW t \in Slots, NEW f \in Sense,
         Ordered(h, e, t, f), ~InFlight(h, e, t, f, h),
         SameElsewhere(ring, ring2, h)
  PROVE  Contents(ring2, NextSlot(h), NextSense(h, e), t, f)
           = Append(Contents(ring, h, e, t, f), ring2[h].val)
<1> DEFINE v == ring2[h].val
           R == {ring[s].val : s \in Slots}
           S == R \cup {v}
           n == Count(h, e, t, f)
           c == Contents(ring, h, e, t, f)
           d == Contents(ring2, NextSlot(h), NextSense(h, e), t, f)
<1>1. n \in Nat
  BY RingEnds, SizeAssumption
<1>2. c \in Seq(S) /\ Len(c) = n
  <2>1. c \in Seq(R) /\ Len(c) = n
    BY ContentsAnySeq
  <2>2. R \subseteq S
    OBVIOUS
  <2> HIDE DEF R, S, c, n
  <2> QED
    BY <2>1, <2>2, SeqMonotonic
<1>3. /\ Count(NextSlot(h), NextSense(h, e), t, f) = n + 1
      /\ SlotAt(t, n + 1) = h
  BY Produce
<1>4. d = [k \in 1 .. n + 1 |-> ring2[SlotAt(t, k)].val]
  BY <1>3 DEF Contents
<1>5. ASSUME NEW k \in 1 .. n PROVE ring2[SlotAt(t, k)].val = c[k]
  <2>1. SlotAt(t, k) \in Slots /\ InFlight(h, e, t, f, SlotAt(t, k))
    BY SlotAtInFlight
  <2> QED
    BY <2>1 DEF Contents, SameElsewhere
<1>6. v \in S
  OBVIOUS
<1> HIDE DEF R, S, n, c, d, v
<1>7. /\ Append(c, v) \in Seq(S)
      /\ Len(Append(c, v)) = n + 1
      /\ \A k \in 1 .. n : Append(c, v)[k] = c[k]
      /\ Append(c, v)[n + 1] = v
  BY <1>1, <1>2, <1>6, AppendProperties
<1>8. Append(c, v) \in [1 .. n + 1 -> S]
  BY <1>7, LenProperties
<1>9. ASSUME NEW k \in 1 .. n + 1
      PROVE  ring2[SlotAt(t, k)].val = Append(c, v)[k]
  <2>1. CASE k = n + 1
    BY <1>3, <1>7, <2>1 DEF v
  <2>2. CASE k \in 1 .. n
    BY <1>5, <1>7, <2>2
  <2>3. k = n + 1 \/ k \in 1 .. n
    BY <1>1
  <2> QED
    BY <2>1, <2>2, <2>3
<1>10. d = Append(c, v)
  BY <1>4, <1>8, <1>9
<1> QED
  BY <1>10 DEF c, d, v

(* Emptying the consumer's slot removes the head of the queue.             *)
LEMMA ContentsTail ==
  ASSUME NEW ring, NEW ring2, NEW h \in Slots, NEW e \in Sense,
         NEW t \in Slots, NEW f \in Sense,
         Ordered(h, e, t, f), InFlight(h, e, t, f, t),
         \A s \in Slots : ring2[s].val = ring[s].val
  PROVE  /\ Contents(ring, h, e, t, f) # <<>>
         /\ Contents(ring2, h, e, NextSlot(t), NextSense(t, f))
              = Tail(Contents(ring, h, e, t, f))
<1> DEFINE S == {ring[s].val : s \in Slots}
           n == Count(h, e, t, f)
           c == Contents(ring, h, e, t, f)
           d == Contents(ring2, h, e, NextSlot(t), NextSense(t, f))
<1>1. n \in Nat /\ n # 0
  BY RingEnds, SizeAssumption
<1>2. c \in Seq(S) /\ Len(c) = n
  BY ContentsAnySeq
<1>3. /\ Count(h, e, NextSlot(t), NextSense(t, f)) = n - 1
      /\ \A k \in 1 .. n - 1 : SlotAt(NextSlot(t), k) = SlotAt(t, k + 1)
  BY Consume
<1>4. d = [k \in 1 .. n - 1 |-> ring2[SlotAt(NextSlot(t), k)].val]
  BY <1>3 DEF Contents
<1>5. ASSUME NEW k \in 1 .. n - 1
      PROVE  ring2[SlotAt(NextSlot(t), k)].val = c[k + 1]
  <2>1. k + 1 \in 1 .. n
    BY <1>1
  <2>2. SlotAt(t, k + 1) \in Slots
    BY <2>1, SlotAtInFlight
  <2> QED
    BY <1>3, <2>1, <2>2 DEF Contents
<1> HIDE DEF S, n, c, d
<1>6. c # <<>>
  BY <1>1, <1>2, EmptySeq
<1>7. /\ Tail(c) \in Seq(S)
      /\ Len(Tail(c)) = n - 1
      /\ \A k \in 1 .. n - 1 : Tail(c)[k] = c[k + 1]
  BY <1>1, <1>2, <1>6, HeadTailProperties
<1>8. Tail(c) \in [1 .. n - 1 -> S]
  BY <1>7, LenProperties
<1>9. d = Tail(c)
  BY <1>4, <1>5, <1>7, <1>8
<1> QED
  BY <1>9, <1>6 DEF c, d

(* The initial rings are empty queues.                                     *)
LEMMA InitRefines == Init => FIFO!Init
<1> SUFFICES ASSUME Init PROVE FIFO!Init
  OBVIOUS
<1>1. IInv
  BY InitInv
<1>2. /\ Count(appHead, appHeadSR, nicTail, nicWqSR) = 0
      /\ Count(nicHead, nicCqSR, appTail, appTailSR) = 0
  BY DEF Init, Count, appHead, appHeadSR, appTail, appTailSR
<1> QED
  BY <1>1, <1>2, QueuesAreSeqs DEF IInv, FIFO!Init

(* create_wq_entry appends to the work queue.                              *)
LEMMA PostRefines ==
  ASSUME IInv, NEW r \in Requests, CreateWqEntry(r)
  PROVE  FIFO!Post(r)
<1>1. /\ head \in Slots /\ wqSR \in Sense
      /\ nicTail \in Slots /\ nicWqSR \in Sense
      /\ wq \in [Slots -> WqSlot]
  BY DEF IInv, TypeOK
<1>2. /\ appHead = head /\ appHeadSR = wqSR
      /\ appHead' = NextSlot(head) /\ appHeadSR' = NextSense(head, wqSR)
      /\ nicTail' = nicTail /\ nicWqSR' = nicWqSR
      /\ wq' = [wq EXCEPT ![head] = [valid |-> 1, SR |-> wqSR, val |-> r]]
      /\ wq[head].valid = 0
  BY DEF CreateWqEntry, appHead, appHeadSR, nicVars
<1>3. /\ Ordered(head, wqSR, nicTail, nicWqSR)
      /\ ~InFlight(head, wqSR, nicTail, nicWqSR, head)
      /\ \A s \in Slots : InFlight(head, wqSR, nicTail, nicWqSR, s)
                            => wq[s].val \in Requests
  BY <1>1, <1>2 DEF IInv, WqAgreement
<1>4. /\ wq'[head].val = r
      /\ SameElsewhere(wq, wq', head)
  BY <1>1, <1>2 DEF SameElsewhere
<1>5. Contents(wq', NextSlot(head), NextSense(head, wqSR), nicTail, nicWqSR)
        = Append(Contents(wq, head, wqSR, nicTail, nicWqSR), wq'[head].val)
  BY <1>1, <1>3, <1>4, ContentsAppend
<1>6. wqContents' = Append(wqContents, r)
  BY <1>2, <1>4, <1>5 DEF wqContents
<1>7. cqContents' = cqContents
  BY DEF CreateWqEntry, cqContents, appTail, appTailSR, nicVars
<1>8. ~(Len(wqContents) >= MAX_NUM_WQ)
  <2>1. Len(wqContents) # MAX_NUM_WQ
    BY <1>2, TestsExact DEF LocalTestsExact, CreateWqEntry
  <2>2. Len(wqContents) \in 0 .. MAX_NUM_WQ
    BY <1>1, <1>2, <1>3, RingEnds, QueuesAreSeqs DEF IInv
  <2> QED
    BY <2>1, <2>2, SizeAssumption
<1> QED
  BY <1>6, <1>7, <1>8 DEF FIFO!Post, FIFO!Full

(* The NIC's fetch removes the oldest request.                             *)
LEMMA FetchRefines ==
  ASSUME IInv, NicFetch
  PROVE  FIFO!Fetch
<1>1. /\ nicTail \in Slots /\ nicWqSR \in Sense
      /\ wq \in [Slots -> WqSlot]
      /\ appHead \in Slots /\ appHeadSR \in Sense
  BY PositionTypes DEF IInv, TypeOK
<1>2. /\ appHead' = appHead /\ appHeadSR' = appHeadSR
      /\ nicTail' = NextSlot(nicTail) /\ nicWqSR' = NextSense(nicTail, nicWqSR)
      /\ wq' = [wq EXCEPT ![nicTail].valid = 0]
      /\ wq[nicTail].valid # 0
  BY DEF NicFetch, appVars, appHead, appHeadSR
<1>3. wq[nicTail].valid = 1
  BY <1>1, <1>2 DEF WqSlot
<1>4. /\ Ordered(appHead, appHeadSR, nicTail, nicWqSR)
      /\ InFlight(appHead, appHeadSR, nicTail, nicWqSR, nicTail)
      /\ \A s \in Slots : InFlight(appHead, appHeadSR, nicTail, nicWqSR, s)
                            => wq[s].val \in Requests
  BY <1>1, <1>3 DEF IInv, WqAgreement
<1>5. \A s \in Slots : wq'[s].val = wq[s].val
  BY <1>1, <1>2 DEF WqSlot
<1>6. LET c == Contents(wq, appHead, appHeadSR, nicTail, nicWqSR)
      IN  /\ c # <<>>
          /\ Contents(wq', appHead, appHeadSR, NextSlot(nicTail),
                      NextSense(nicTail, nicWqSR)) = Tail(c)
  BY <1>1, <1>4, <1>5, ContentsTail
<1>7. wqContents # <<>> /\ wqContents' = Tail(wqContents)
  BY <1>2, <1>6 DEF wqContents
<1>8. cqContents' = cqContents
  BY DEF NicFetch, cqContents, appTail, appTailSR, appVars
<1> QED
  BY <1>7, <1>8 DEF FIFO!Fetch

(* The NIC's completion is appended to the completion queue.               *)
LEMMA CompleteRefines ==
  ASSUME IInv, NEW c \in Completions, NicComplete(c)
  PROVE  FIFO!Complete(c)
<1>1. /\ nicHead \in Slots /\ nicCqSR \in Sense
      /\ cq \in [Slots -> CqSlot]
      /\ appTail \in Slots /\ appTailSR \in Sense
  BY PositionTypes DEF IInv, TypeOK
<1>2. /\ appTail' = appTail /\ appTailSR' = appTailSR
      /\ nicHead' = NextSlot(nicHead) /\ nicCqSR' = NextSense(nicHead, nicCqSR)
      /\ cq' = [cq EXCEPT ![nicHead] = [valid |-> 1, SR |-> nicCqSR, val |-> c]]
      /\ cq[nicHead].valid = 0
  BY DEF NicComplete, appVars, appTail, appTailSR
<1>3. /\ Ordered(nicHead, nicCqSR, appTail, appTailSR)
      /\ ~InFlight(nicHead, nicCqSR, appTail, appTailSR, nicHead)
      /\ \A s \in Slots : InFlight(nicHead, nicCqSR, appTail, appTailSR, s)
                            => cq[s].val \in Completions
  BY <1>1, <1>2 DEF IInv, CqAgreement
<1>4. /\ cq'[nicHead].val = c
      /\ SameElsewhere(cq, cq', nicHead)
  BY <1>1, <1>2 DEF SameElsewhere
<1>5. Contents(cq', NextSlot(nicHead), NextSense(nicHead, nicCqSR),
               appTail, appTailSR)
        = Append(Contents(cq, nicHead, nicCqSR, appTail, appTailSR),
                 cq'[nicHead].val)
  BY <1>1, <1>3, <1>4, ContentsAppend
<1>6. cqContents' = Append(cqContents, c)
  BY <1>2, <1>4, <1>5 DEF cqContents
<1>7. wqContents' = wqContents
  BY DEF NicComplete, wqContents, appHead, appHeadSR, appVars
<1>8. Len(cqContents) < MAX_NUM_WQ
  <2>1. Len(cqContents) # MAX_NUM_WQ
    BY <1>2, TestsExact DEF LocalTestsExact
  <2>2. Len(cqContents) \in 0 .. MAX_NUM_WQ
    BY <1>1, <1>3, RingEnds, QueuesAreSeqs DEF IInv
  <2> QED
    BY <2>1, <2>2, SizeAssumption
<1> QED
  BY <1>6, <1>7, <1>8 DEF FIFO!Complete

(* The step in which rmc_check_cq invalidates its slot takes the oldest    *)
(* completion.                                                             *)
LEMMA TakeRefines ==
  ASSUME IInv, CheckInvalidate
  PROVE  FIFO!Take
<1>1. /\ nicHead \in Slots /\ nicCqSR \in Sense
      /\ tail \in Slots /\ cqSR \in Sense /\ cq \in [Slots -> CqSlot]
  BY DEF IInv, TypeOK
<1>2. /\ appTail = tail /\ appTailSR = cqSR
      /\ appTail' = NextSlot(tail) /\ appTailSR' = NextSense(tail, cqSR)
      /\ nicHead' = nicHead /\ nicCqSR' = nicCqSR
      /\ cq' = [cq EXCEPT ![tail].valid = 0]
      /\ pc = "invalidate"
  BY DEF CheckInvalidate, nicVars, appTail, appTailSR
<1>3. /\ Ordered(nicHead, nicCqSR, tail, cqSR)
      /\ InFlight(nicHead, nicCqSR, tail, cqSR, tail)
      /\ \A s \in Slots : InFlight(nicHead, nicCqSR, tail, cqSR, s)
                            => cq[s].val \in Completions
  BY <1>2, OldestAtTail DEF IInv, CqAgreement, CopyIsOldest
<1>4. \A s \in Slots : cq'[s].val = cq[s].val
  BY <1>1, <1>2 DEF CqSlot
<1>5. LET c == Contents(cq, nicHead, nicCqSR, tail, cqSR)
      IN  /\ c # <<>>
          /\ Contents(cq', nicHead, nicCqSR, NextSlot(tail),
                      NextSense(tail, cqSR)) = Tail(c)
  BY <1>1, <1>3, <1>4, ContentsTail
<1>6. cqContents # <<>> /\ cqContents' = Tail(cqContents)
  BY <1>2, <1>5 DEF cqContents
<1>7. wqContents' = wqContents
  BY DEF CheckInvalidate, wqContents, appHead, appHeadSR, nicVars
<1> QED
  BY <1>6, <1>7 DEF FIFO!Take

(* Every step of the rings is a step of the queues or leaves them alone.   *)
LEMMA StepRefines == IInv /\ [Next]_vars => [FIFO!Next]_FIFO!vars
<1> SUFFICES ASSUME IInv, [Next]_vars PROVE [FIFO!Next]_FIFO!vars
  OBVIOUS
<1> USE DEF appVars, nicVars
<1>1. ASSUME wqContents' = wqContents, cqContents' = cqContents
      PROVE  [FIFO!Next]_FIFO!vars
  BY <1>1 DEF FIFO!vars
<1>2. ASSUME NEW r \in Requests, CreateWqEntry(r) PROVE [FIFO!Next]_FIFO!vars
  BY <1>2, PostRefines DEF FIFO!Next
<1>3. CASE NicFetch
  BY <1>3, FetchRefines DEF FIFO!Next
<1>4. ASSUME NEW c \in Completions, NicComplete(c) PROVE [FIFO!Next]_FIFO!vars
  BY <1>4, CompleteRefines DEF FIFO!Next
<1>5. CASE CheckInvalidate
  BY <1>5, TakeRefines DEF FIFO!Next
<1> USE DEF wqContents, cqContents, appHead, appHeadSR, appTail, appTailSR
<1>6. CASE PostRefused \/ AdvanceHead
  BY <1>1, <1>6 DEF PostRefused, AdvanceHead
<1>7. CASE CheckBegin \/ CheckOuter \/ CheckNothing \/ CheckCopy
  BY <1>1, <1>7 DEF CheckBegin, CheckOuter, CheckNothing, CheckCopy
<1>8. CASE CheckAdvance
  BY <1>1, <1>8 DEF CheckAdvance
<1>9. CASE UNCHANGED vars
  BY <1>1, <1>9 DEF vars
<1> QED
  BY <1>2, <1>3, <1>4, <1>5, <1>6, <1>7, <1>8, <1>9
     DEF Next, AppStep, CallStep, NicStep

(***************************************************************************)
(* The rings implement the queues: for every ring size, whatever the       *)
(* interleaving of the application and the NIC, nothing posted or          *)
(* completed is lost, duplicated, reordered or overwritten.                *)
(***************************************************************************)
THEOREM RingsImplementFifo == Spec => FifoSpec
BY RingsAgree, InitRefines, StepRefines, PTL DEF Spec, FifoSpec, FIFO!Spec
=============================================================================
