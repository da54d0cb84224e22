------------------------ MODULE WorkerServiceProofs ------------------------
(***************************************************************************)
(* Proofs about what the clients of Worker see: which packets are counted, *)
(* how few are lost when the worker stops, and that run_worker implements  *)
(* the service of WorkerSpec.                                              *)
(***************************************************************************)
EXTENDS WorkerProofs

-----------------------------------------------------------------------------
(* Counting the elements of a kind in a queue. *)

Count(q, P) == Cardinality({k \in 1 .. Len(q) : q[k] \in P})

(* The places of a queue are finitely many. *)
LEMMA PlacesFinite ==
  ASSUME NEW S, NEW q \in Seq(S), NEW P
  PROVE  /\ IsFiniteSet({k \in 1 .. Len(q) : q[k] \in P})
         /\ Count(q, P) \in Nat
<1>1. IsFiniteSet(1 .. Len(q))
  BY FS_Interval
<1>2. {k \in 1 .. Len(q) : q[k] \in P} \in SUBSET (1 .. Len(q))
  OBVIOUS
<1>3. IsFiniteSet({k \in 1 .. Len(q) : q[k] \in P})
  BY <1>1, <1>2, FS_Subset
<1> QED
  BY <1>3, FS_CardinalityType DEF Count

(* An element that is added counts. *)
LEMMA CountAppend ==
  ASSUME NEW S, NEW q \in Seq(S), NEW P, NEW e
  PROVE  Count(Append(q, e), P) = Count(q, P) + (IF e \in P THEN 1 ELSE 0)
<1> DEFINE A == {k \in 1 .. Len(q) : q[k] \in P}
           B == {k \in 1 .. Len(Append(q, e)) : Append(q, e)[k] \in P}
<1>1. /\ Len(Append(q, e)) = Len(q) + 1 /\ Len(q) \in Nat
      /\ \A k \in 1 .. Len(q) : Append(q, e)[k] = q[k]
      /\ Append(q, e)[Len(q) + 1] = e
  BY AppendTo
<1>2. IsFiniteSet(A) /\ Cardinality(A) \in Nat
  BY PlacesFinite DEF Count
<1>3. CASE e \in P
  <2>1. B = A \cup {Len(q) + 1}
    BY <1>1, <1>3
  <2>2. Len(q) + 1 \notin A
    BY <1>1
  <2>3. Cardinality(B) = Cardinality(A) + 1
    BY <1>2, <2>1, <2>2, FS_AddElement
  <2> QED
    BY <1>3, <2>3 DEF Count
<1>4. CASE e \notin P
  <2>1. B = A
    BY <1>1, <1>4
  <2> HIDE DEF A, B
  <2>2. Cardinality(B) = Cardinality(A) + 0
    BY <1>2, <2>1
  <2> QED
    BY <1>4, <2>2 DEF Count, A, B
<1> QED
  BY <1>3, <1>4

(* The element that is taken counts no longer. *)
LEMMA CountTail ==
  ASSUME NEW S, NEW q \in Seq(S), NEW P, q # <<>>
  PROVE  Count(q, P) = Count(Tail(q), P) + (IF Head(q) \in P THEN 1 ELSE 0)
<1> DEFINE A == {k \in 1 .. Len(q) : q[k] \in P}
           B == {k \in 1 .. Len(Tail(q)) : Tail(q)[k] \in P}
           f == [k \in B |-> k + 1]
<1>1. /\ Len(q) \in Nat \ {0} /\ Len(Tail(q)) = Len(q) - 1 /\ Head(q) = q[1]
      /\ \A k \in 1 .. Len(Tail(q)) : k + 1 \in 1 .. Len(q) /\ Tail(q)[k] = q[k + 1]
  BY TailOf
<1>2. IsFiniteSet(A) /\ Cardinality(A) \in Nat
  BY PlacesFinite DEF Count
<1>3. Tail(q) \in Seq(S)
  OBVIOUS
<1>4. IsFiniteSet(B) /\ Cardinality(B) \in Nat
  BY <1>3, PlacesFinite DEF Count
<1>5. Cardinality(A \ {1}) = Cardinality(B)
  <2>1. f \in [B -> A \ {1}]
    BY <1>1
  <2>2. \A j, k \in B : f[j] = f[k] => j = k
    BY <1>1
  <2>3. ASSUME NEW k \in A \ {1} PROVE \E j \in B : f[j] = k
    <3>1. k - 1 \in B
      BY <1>1
    <3>2. f[k - 1] = k
      BY <1>1, <3>1
    <3> QED
      BY <3>1, <3>2
  <2> HIDE DEF f, A, B
  <2>4. f \in Bijection(B, A \ {1})
    BY <2>1, <2>2, <2>3 DEF Bijection, Injection, Surjection, IsInjective
  <2>5. ExistsBijection(B, A \ {1})
    BY <2>4 DEF ExistsBijection
  <2> QED
    BY <1>4, <2>5, FS_Bijection
<1>6. Cardinality(A \ {1}) = IF 1 \in A THEN Cardinality(A) - 1 ELSE Cardinality(A)
  BY <1>2, FS_RemoveElement
<1>7. 1 \in A <=> Head(q) \in P
  BY <1>1
<1> HIDE DEF A, B
<1>8. Cardinality(A) = Cardinality(B) + (IF Head(q) \in P THEN 1 ELSE 0)
  BY <1>2, <1>4, <1>5, <1>6, <1>7
<1> QED
  BY <1>8 DEF Count, A, B
-----------------------------------------------------------------------------
(* Packets, from the completion queue to the batch. *)

(* The packet that has been taken and not been counted yet. *)
HandCount ==
  IF (pc = "returned" /\ ret \in Packets) \/ (pc = "dispatch" /\ payload_len = "OTHER")
    THEN 1 ELSE 0

(* The packets accounted for: counted, in hand or misread. *)
Accounted == tmp_count + HandCount + Len(misread)

(* The worker is about to stop, or has. *)
Leaving == pc = "exit" \/ (pc = "dispatch" /\ payload_len = "DEAD")

(* Every packet taken is accounted for, once, but for the one that         *)
(* client_done is seen with.                                               *)
CountedAll ==
  /\ Leaving => Taken \in {Accounted, Accounted + 1}
  /\ ~Leaving => Taken = Accounted

(* These are numbers. *)
LEMMA AccountedTypes ==
  ASSUME WorkerInv
  PROVE  /\ tmp_count \in Nat /\ HandCount \in {0, 1} /\ Len(misread) \in Nat
         /\ Accounted \in Nat
<1>1. misread \in Seq(RecvSlots) /\ Len(misread) \in Nat
  BY DEF WorkerInv, TypeOK
<1>2. HandCount \in {0, 1} /\ tmp_count \in Nat
  BY QueueTypes DEF HandCount
<1> QED
  BY <1>1, <1>2 DEF Accounted

(* Taken counts the packets that arrived and are not waiting. *)
LEMMA TakenIs == WorkerInv => Taken = arrived - Count(cq, Packets) /\ Taken \in Int
<1> SUFFICES ASSUME WorkerInv PROVE Taken = arrived - Count(cq, Packets) /\ Taken \in Int
  OBVIOUS
<1>1. Count(cq, Packets) \in Nat
  BY QueueTypes, PlacesFinite
<1>2. arrived \in Nat
  BY Constants DEF WorkerInv, TypeOK
<1>3. Taken = arrived - Count(cq, Packets)
  BY DEF Taken, Count
<1> QED
  BY <1>1, <1>2, <1>3

(* ... also after the step. *)
LEMMA TakenIsNext == WorkerInv' => Taken' = arrived' - Count(cq', Packets) /\ Taken' \in Int
<1>1. (WorkerInv => Taken = arrived - Count(cq, Packets) /\ Taken \in Int)'
  BY TakenIs, PTL
<1> QED
  BY <1>1 DEF Count

(* Only rmc_check_cq takes packets, one at a time. *)
LEMMA TakenStep ==
  ASSUME WorkerInv, WorkerInv', [Next]_vars
  PROVE  Taken' = Taken + (IF CheckTake /\ Head(cq) \in Packets THEN 1 ELSE 0)
<1>1. /\ Taken = arrived - Count(cq, Packets) /\ Taken' = arrived' - Count(cq', Packets)
      /\ Taken \in Int /\ Taken' \in Int
  BY TakenIs, TakenIsNext
<1>2. /\ cq \in Seq(Completions) /\ Count(cq, Packets) \in Nat /\ arrived \in Nat
  <2>1. cq \in Seq(Completions)
    BY QueueTypes
  <2>2. arrived \in Nat
    BY Constants DEF WorkerInv, TypeOK
  <2> QED
    BY <2>1, <2>2, PlacesFinite
<1>3. CASE CheckTake
  <2>1. cq # <<>> /\ cq' = Tail(cq) /\ arrived' = arrived
    BY <1>3 DEF CheckTake, QP!Take, nicVars
  <2>2. Count(cq, Packets) = Count(cq', Packets) + (IF Head(cq) \in Packets THEN 1 ELSE 0)
    BY <1>2, <2>1, CountTail
  <2>3. Count(cq', Packets) \in Nat
    <3>1. cq' \in Seq(Completions)
      BY <1>2, <2>1
    <3> QED
      BY <3>1, PlacesFinite
  <2>4. CASE Head(cq) \in Packets
    BY <1>1, <1>2, <1>3, <2>1, <2>2, <2>3, <2>4
  <2>5. CASE Head(cq) \notin Packets
    BY <1>1, <1>2, <1>3, <2>1, <2>2, <2>3, <2>5
  <2> QED
    BY <2>4, <2>5
<1>4. ASSUME NEW s \in RecvSlots, NicDeliver(s) PROVE Taken' = Taken
  <2> DEFINE c == [op |-> "RMC_INCOMING_SEND", slot |-> s]
  <2>1. c \in Packets /\ cq' = Append(cq, c) /\ arrived' = arrived + 1
    BY <1>4 DEF NicDeliver, QP!Complete, Packets
  <2> HIDE DEF c
  <2>2. Count(cq', Packets) = Count(cq, Packets) + 1
    BY <1>2, <2>1, CountAppend
  <2> QED
    BY <1>1, <1>2, <2>1, <2>2
<1>5. ASSUME NicComplete PROVE Taken' = Taken
  <2>1. PICK c \in {RESP, DONE} : cq' = Append(cq, c) /\ arrived' = arrived
    BY <1>5 DEF NicComplete, QP!Complete
  <2>2. c \notin Packets
    BY <2>1 DEF RESP, DONE, Packets
  <2>3. Count(cq', Packets) = Count(cq, Packets) + 0
    BY <1>2, <2>1, <2>2, CountAppend
  <2> QED
    BY <1>1, <1>2, <2>1, <2>3
<1>6. ASSUME UNCHANGED <<cq, arrived>> PROVE Taken' = Taken
  BY <1>1, <1>6
<1>7. ASSUME ~CheckTake, Receive \/ Dispatch \/ Process \/ Egress \/ ClientDone \/ UNCHANGED vars
      PROVE  UNCHANGED <<cq, arrived>>
  BY <1>7 DEF Receive, Dispatch, Process, Egress, PollTimeout, PollCheck, CheckOuter, CheckEmpty,
     ReceiveRetry, ReceiveDone, ReceivePacket, WorkerExit, DispatchPacket, DispatchTimeout,
     SendHeader, SendPost, RecvPost, RecvDropped, BatchDone, NicTransmit, NicFree, ClientDone,
     QP!Post, QP!Fetch, nicVars, vars
<1>8. CheckTake \/ (~CheckTake /\ Taken' = Taken)
  BY <1>4, <1>5, <1>6, <1>7 DEF Next, WorkerStep, Stopped
<1>9. CASE ~CheckTake
  BY <1>1, <1>8, <1>9
<1> QED
  BY <1>3, <1>9

(* How the packet in hand is counted. *)
LEMMA HandStep ==
  ASSUME WorkerInv, WorkerInv', [Next]_vars
  PROVE  \/ Accounted' = Accounted /\ Taken' = Taken
         \/ Accounted' = Accounted + 1 /\ Taken' = Taken + 1 /\ CheckTake
         \/ Accounted' = Accounted - 1 /\ Taken' = Taken /\ ReceiveDone
<1>1. tmp_count \in Nat /\ HandCount \in {0, 1} /\ Len(misread) \in Nat /\ Taken \in Int
  BY AccountedTypes, TakenIs
<1>2. HandCount' \in {0, 1}
  BY DEF HandCount
<1>0. ASSUME ~ReceivePacket PROVE misread' = misread
  BY <1>0, MisreadStep
<1>3. CASE CheckTake
  <2>1. pc = "inner" /\ tmp_count' = tmp_count /\ HandCount = 0 /\ misread' = misread
    BY <1>3 DEF CheckTake, batchVars, HandCount
  <2>2. DONE \notin Packets
    BY DEF DONE, Packets
  <2>3. HandCount' = (IF Head(cq) \in Packets THEN 1 ELSE 0)
    BY <1>3, <2>1, <2>2 DEF CheckTake, HandCount
  <2>4. Taken' = Taken + (IF Head(cq) \in Packets THEN 1 ELSE 0)
    BY <1>3, TakenStep
  <2>5. CASE Head(cq) \in Packets
    BY <1>1, <1>3, <2>1, <2>3, <2>4, <2>5 DEF Accounted
  <2>6. CASE Head(cq) \notin Packets
    BY <1>1, <1>3, <2>1, <2>3, <2>4, <2>6 DEF Accounted
  <2> QED
    BY <2>5, <2>6
<1>4. ASSUME ~CheckTake PROVE Taken' = Taken
  BY <1>1, <1>4, TakenStep
<1>6. ASSUME Receive, ~CheckTake, ~ReceiveDone, ~ReceivePacket
      PROVE  tmp_count' = tmp_count /\ HandCount' = HandCount
  <2>1. INVAL \notin Packets
    BY DEF INVAL, Packets
  <2> QED
    BY <1>6, <2>1 DEF Receive, PollTimeout, PollCheck, CheckOuter, CheckEmpty, ReceiveRetry,
       HandCount, batchVars
<1>7. ASSUME ReceiveDone
      PROVE  /\ tmp_count' = tmp_count /\ misread' = misread /\ ~CheckTake
             /\ HandCount' = HandCount \/ HandCount' = HandCount - 1
  BY <1>7 DEF ReceiveDone, CheckTake, HandCount
<1>8. ASSUME ReceivePacket
      PROVE  ~CheckTake /\ Accounted' = Accounted
  <2>1. /\ tmp_count' = tmp_count /\ ~CheckTake /\ HandCount = 1
        /\ HandCount' = (IF payload_len' = "OTHER" THEN 1 ELSE 0)
    BY <1>8 DEF ReceivePacket, CheckTake, HandCount
  <2>2. Len(misread') = Len(misread) + (IF payload_len' = "OTHER" THEN 0 ELSE 1)
    <3>1. misread \in Seq(RecvSlots)
      BY DEF WorkerInv, TypeOK
    <3>2. CASE misread' = misread /\ payload_len' = "OTHER"
      BY <1>1, <3>2
    <3>3. CASE payload_len' # "OTHER" /\ misread' = Append(misread, ret.slot)
      BY <1>1, <3>1, <3>3, AppendTo
    <3> QED
      BY <1>8, <3>2, <3>3, MisreadStep
  <2>3. CASE payload_len' = "OTHER"
    BY <1>1, <2>1, <2>2, <2>3 DEF Accounted
  <2>4. CASE payload_len' # "OTHER"
    BY <1>1, <2>1, <2>2, <2>4 DEF Accounted
  <2> QED
    BY <2>1, <2>3, <2>4
<1>9. ASSUME Dispatch
      PROVE  tmp_count' + HandCount' = tmp_count + HandCount /\ ~CheckTake /\ ~ReceivePacket
  BY <1>1, <1>9 DEF Dispatch, WorkerExit, DispatchPacket, DispatchTimeout, CheckTake, HandCount,
     ReceivePacket, batchVars
<1>10. ASSUME Process
       PROVE  tmp_count' = tmp_count /\ HandCount' = HandCount /\ ~CheckTake /\ ~ReceivePacket
  BY <1>10 DEF Process, SendHeader, SendPost, RecvPost, RecvDropped, BatchDone, CheckTake,
     HandCount, ReceivePacket, batchVars
<1>11. ASSUME ~WorkerStep
       PROVE  tmp_count' = tmp_count /\ HandCount' = HandCount /\ misread' = misread
  <2>1. UNCHANGED <<pc, batchVars, pollVars>>
    BY <1>11 DEF Next, Egress, NicTransmit, NicFree, NicDeliver, NicComplete, ClientDone, Stopped,
       vars
  <2> QED
    BY <2>1 DEF HandCount, batchVars, pollVars
<1>12. CASE ~CheckTake
  <2>0. Taken' = Taken
    BY <1>4, <1>12
  <2>1. CASE Receive /\ ~ReceiveDone /\ ~ReceivePacket
    BY <1>0, <1>6, <1>12, <2>0, <2>1 DEF Accounted
  <2>2. CASE ReceiveDone
    BY <1>1, <1>2, <1>7, <2>0, <2>2 DEF Accounted
  <2>3. CASE ReceivePacket
    BY <1>8, <2>0, <2>3
  <2>4. CASE Dispatch
    BY <1>0, <1>1, <1>9, <2>0, <2>4 DEF Accounted
  <2>5. CASE Process
    BY <1>0, <1>10, <2>0, <2>5 DEF Accounted
  <2>6. CASE ~WorkerStep
    BY <1>11, <2>0, <2>6 DEF Accounted
  <2> QED
    BY <2>1, <2>2, <2>3, <2>4, <2>5, <2>6 DEF WorkerStep
<1> QED
  BY <1>3, <1>12

(* What has been accounted for is a number after the step as well. *)
LEMMA AccountedTypesNext == WorkerInv' => Accounted' \in Nat
<1>1. WorkerInv => Accounted \in Nat
  BY AccountedTypes
<1>2. (WorkerInv => Accounted \in Nat)'
  BY <1>1, PTL
<1> QED
  BY <1>2

(* Arithmetic: at most one packet is dropped. *)
LEMMA OneDropped ==
  ASSUME NEW t \in Int, NEW a \in Nat, NEW b \in Nat, t = a, b = a \/ b = a - 1
  PROVE  t \in {b, b + 1}
OBVIOUS

(* Every packet stays accounted for. *)
LEMMA CountedAllStep ==
  ASSUME WorkerInv, WorkerInv', CountedAll, [Next]_vars
  PROVE  CountedAll'
<1>1. Accounted \in Nat /\ Accounted' \in Nat /\ Taken \in Int /\ Taken' \in Int
  BY AccountedTypes, AccountedTypesNext, TakenIs, TakenIsNext
<1>2. CASE ReceiveDone
  <2>1. Leaving' /\ ~Leaving /\ ~CheckTake
    BY <1>2 DEF ReceiveDone, Leaving, CheckTake
  <2>2. Taken = Accounted
    BY <2>1 DEF CountedAll
  <2>3. Taken' = Taken /\ (Accounted' = Accounted \/ Accounted' = Accounted - 1)
    BY <2>1, HandStep
  <2>4. Taken \in {Accounted', Accounted' + 1}
    BY <1>1, <2>2, <2>3, OneDropped, Zenon
  <2> QED
    BY <2>1, <2>3, <2>4 DEF CountedAll
<1>3. Leaving => Leaving'
  <2>1. CASE Receive
    BY <2>1 DEF Receive, PollTimeout, PollCheck, CheckOuter, CheckTake,
       CheckEmpty, ReceiveRetry, ReceiveDone, ReceivePacket, Leaving
  <2>2. CASE Dispatch
    BY <2>2 DEF Dispatch, WorkerExit, DispatchPacket, DispatchTimeout, Leaving
  <2>3. CASE Process
    BY <2>3 DEF Process, SendHeader, SendPost, RecvPost, RecvDropped, BatchDone, Leaving
  <2>4. CASE ~WorkerStep
    <3>1. UNCHANGED <<pc, payload_len>>
      BY <2>4 DEF Next, Egress, NicTransmit, NicFree, NicDeliver, NicComplete, ClientDone,
         Stopped, vars, pollVars
    <3> QED
      BY <3>1 DEF Leaving
  <2> QED
    BY <2>1, <2>2, <2>3, <2>4 DEF WorkerStep
<1>4. CASE ~ReceiveDone
  <2>1. \/ Accounted' = Accounted /\ Taken' = Taken
        \/ Accounted' = Accounted + 1 /\ Taken' = Taken + 1
    BY <1>4, HandStep
  <2>2. Taken \in {Accounted, Accounted + 1} => Taken' \in {Accounted', Accounted' + 1}
    BY <1>1, <2>1
  <2>3. Taken = Accounted => Taken' = Accounted'
    BY <1>1, <2>1
  <2> QED
    BY <1>3, <2>2, <2>3 DEF CountedAll
<1> QED
  BY <1>2, <1>4
-----------------------------------------------------------------------------
(* What is left when the worker stops. *)

(* A worker that stops had room for one more packet in its batch. *)
RoomAtExit == pc = "exit" => batch_counter < BatchSize

(* The exit is taken from the dispatch of a receive that had room, and     *)
(* the batch does not change any more. *)
LEMMA RoomStep == WorkerInv /\ RoomAtExit /\ [Next]_vars => RoomAtExit'
<1> SUFFICES ASSUME WorkerInv, RoomAtExit, [Next]_vars PROVE RoomAtExit'
  OBVIOUS
<1>1. CASE WorkerExit
  BY <1>1 DEF WorkerExit, WorkerInv, BatchInBounds, Processing, RoomAtExit, batchVars
<1>2. ASSUME WorkerStep, ~WorkerExit PROVE pc' # "exit"
  BY <1>2 DEF WorkerStep, Receive, Dispatch, Process, PollTimeout, PollCheck, CheckOuter,
     CheckTake, CheckEmpty, ReceiveRetry, ReceiveDone, ReceivePacket, DispatchPacket,
     DispatchTimeout, SendHeader, SendPost, RecvPost, RecvDropped, BatchDone
<1>3. ASSUME ~WorkerStep PROVE UNCHANGED <<pc, batch_counter>>
  BY <1>3 DEF Next, Egress, NicTransmit, NicFree, NicDeliver, NicComplete, ClientDone, Stopped,
     vars, batchVars
<1> QED
  BY <1>1, <1>2, <1>3 DEF RoomAtExit

(* Every reply that was posted and not transmitted is in the work queue.   *)
LEMMA RepliesWaiting ==
  ASSUME WorkerInv
  PROVE  replied - Len(sent) <= Cardinality({k \in 1 .. Len(wq) : wq[k] \in Sends})
<1> DEFINE W == {k \in 1 .. Len(wq) : wq[k] \in Sends}
           R == Len(sent) .. replied - 1
           place(n) == CHOOSE k \in 1 .. Len(wq) : wq[k].op = "SEND" /\ wq[k].seq = n
           f == [n \in R |-> place(n)]
<1>1. RepliesQueued /\ wq \in Seq(Requests)
  BY QueueTypes DEF WorkerInv
<1>2. Len(sent) \in Nat /\ replied \in Int
  <2>1. sent \in Seq(Sends)
    BY DEF WorkerInv, TypeOK
  <2> QED
    BY <2>1, QueueTypes DEF replied
<1>3. ASSUME NEW n \in R
      PROVE  /\ place(n) \in 1 .. Len(wq)
             /\ wq[place(n)].op = "SEND" /\ wq[place(n)].seq = n
  BY <1>1, <1>3 DEF RepliesQueued
<1>4. f \in [R -> W]
  BY <1>3, QueueTypes, RequestFields
<1>5. \A m, n \in R : f[m] = f[n] => m = n
  BY <1>3
<1>6. IsFiniteSet(W) /\ Cardinality(W) \in Nat
  BY <1>1, PlacesFinite DEF Count
<1>7. Cardinality(R) = IF Len(sent) > replied - 1 THEN 0 ELSE (replied - 1) - Len(sent) + 1
  BY <1>2, FS_Interval
<1> HIDE DEF f, W, R
<1>8. f \in Injection(R, W)
  BY <1>4, <1>5 DEF Injection, IsInjective
<1>9. Cardinality(R) <= Cardinality(W)
  BY <1>6, <1>8, FS_Injection
<1>10. replied - Len(sent) <= Cardinality(W)
  BY <1>2, <1>6, <1>7, <1>9
<1> QED
  BY <1>10 DEF W

(* The inductive invariant. *)
CountInv == WorkerInv /\ CountedAll /\ RoomAtExit

(* It holds at the start ... *)
LEMMA CountInit == Init => CountInv
<1> SUFFICES ASSUME Init PROVE CountInv
  OBVIOUS
<1>1. WorkerInv
  BY InitInv
<1>2. pc = "poll" /\ cq = <<>> /\ arrived = 0 /\ tmp_count = 0 /\ Len(misread) = 0
  BY DEF Init, QP!Init
<1>3. Taken = 0
  <2>1. {k \in 1 .. Len(cq) : cq[k] \in Packets} = {}
    BY <1>2
  <2>2. Cardinality({k \in 1 .. Len(cq) : cq[k] \in Packets}) = 0
    BY <2>1, FS_EmptySet
  <2> QED
    BY <1>2, <2>2 DEF Taken
<1>4. HandCount = 0 /\ ~Leaving /\ RoomAtExit
  BY <1>2 DEF HandCount, Leaving, RoomAtExit
<1> QED
  BY <1>1, <1>2, <1>3, <1>4 DEF CountInv, CountedAll, Accounted

(* ... and always. *)
LEMMA CountInvariant == Spec => []CountInv
<1>1. CountInv /\ [Next]_vars => CountInv'
  BY StepInv, CountedAllStep, RoomStep DEF CountInv
<1> QED
  BY <1>1, CountInit, PTL DEF Spec

(* Whatever the payload_len of a packet, which receive does not assign,    *)
(* happens to hold, and for every batch, queue and warm-up size: a packet  *)
(* that receive takes is counted, once, and so belongs to a batch, unless  *)
(* run_worker misreads it for that payload_len.                            *)
THEOREM NoOtherPacketMissed == Spec => []OnlyMisreadMissed
<1>1. CountInv => OnlyMisreadMissed
  <2> SUFFICES ASSUME CountInv, pc = "poll" PROVE tmp_count + Len(misread) = Taken
    BY DEF OnlyMisreadMissed
  <2>1. Taken = Accounted /\ tmp_count \in Nat /\ Len(misread) \in Nat
    BY AccountedTypes DEF CountInv, CountedAll, Leaving
  <2>2. HandCount = 0
    BY DEF HandCount
  <2> QED
    BY <2>1, <2>2 DEF Accounted
<1> QED
  BY <1>1, CountInvariant, PTL

(* A worker that stops leaves fewer than BatchSize + 1 of the packets it   *)
(* took and did not misread unanswered, for all sizes.                     *)
THEOREM LossIsBounded == Spec => []BoundedLossAtShutdown
<1>1. CountInv => BoundedLossAtShutdown
  <2> DEFINE queued == Cardinality({k \in 1 .. Len(wq) : wq[k] \in Sends})
  <2> SUFFICES ASSUME CountInv, pc = "exit"
               PROVE  /\ Taken - queued - Len(sent) - Len(misread) <= batch_counter + 1
                      /\ batch_counter < BatchSize
    BY DEF BoundedLossAtShutdown
  <2>0. WorkerInv /\ Taken \in {Accounted, Accounted + 1} /\ batch_counter < BatchSize
    BY DEF CountInv, CountedAll, Leaving, RoomAtExit
  <2>6. tmp_count \in Nat /\ Len(misread) \in Nat /\ HandCount = 0
    BY <2>0, AccountedTypes DEF HandCount
  <2>1. WorkerInv /\ Taken <= (tmp_count + Len(misread)) + 1 /\ batch_counter < BatchSize
    BY <2>0, <2>6 DEF Accounted
  <2>2. replied = tmp_count - batch_counter
    BY DEF replied, Processing
  <2>3. replied - Len(sent) <= queued
    BY <2>1, RepliesWaiting
  <2>4. tmp_count \in Nat /\ batch_counter \in Nat /\ Taken \in Int
    BY <2>1, QueueTypes, TakenIs
  <2>5. Len(sent) \in Nat /\ queued \in Nat
    <3>1. sent \in Seq(Sends) /\ wq \in Seq(Requests)
      BY <2>1, QueueTypes DEF WorkerInv, TypeOK
    <3>2. Len(sent) \in Nat
      BY <3>1
    <3>3. Count(wq, Sends) \in Nat
      BY <3>1, PlacesFinite
    <3> QED
      BY <3>2, <3>3 DEF Count
  <2> HIDE DEF queued
  <2> QED
    BY <2>1, <2>2, <2>3, <2>4, <2>5, <2>6
<1> QED
  BY <1>1, CountInvariant, PTL
-----------------------------------------------------------------------------
(* The service. *)

(* Answered packets whose slots the NIC has not got back. *)
Unreturned == Len(sent) - Returned

(* A slot is given back only after its packet was answered: in the work    *)
(* queue no RECV follows another, and one at the head of the queue has its *)
(* reply already transmitted.                                              *)
AnswersFirst ==
  /\ \A k \in 1 .. Len(wq) - 1 : wq[k].op = "RECV" => wq[k + 1].op = "SEND"
  /\ pc = "recv" /\ wq # <<>> => wq[Len(wq)].op = "SEND"
  /\ Unreturned >= 0
  /\ wq # <<>> => (wq[1].op = "RECV" => Unreturned >= 1)
  /\ wq = <<>> /\ pc = "recv" => Unreturned >= 1

(* The worker ends only when the client is done, or with a packet misread. *)
EndSeen == pc = "dispatch" /\ payload_len = "DEAD" => client_done \/ Len(misread) > 0

ServiceInv == SlotInv /\ CountedAll /\ AnswersFirst /\ EndSeen

(* The free slots are finitely many. *)
LEMMA FreeFinite ==
  ASSUME NEW F \in SUBSET RecvSlots
  PROVE  /\ IsFiniteSet(F) /\ Cardinality(F) \in Nat /\ Cardinality(RecvSlots) \in Nat
         /\ Cardinality(F) <= Cardinality(RecvSlots)
BY SlotsFinite, FS_Subset, FS_CardinalityType

(* A request to free a slot finds the slot in use. *)
LEMMA FreedWasUsed ==
  ASSUME WorkerInv, HeldOnce, NicFree
  PROVE  Head(wq).slot \in RecvSlots /\ Head(wq).slot \notin freeSlots
<1>1. wq # <<>> /\ Head(wq).op = "RECV" /\ wq \in Seq(Requests)
  BY QueueTypes DEF NicFree, QP!Fetch
<1>2. Head(wq) = wq[1] /\ 1 \in 1 .. Len(wq) /\ wq[1] \in Requests
  BY <1>1, TailOf, QueueTypes
<1>3. wq[1] \in Recvs /\ wq[1].slot \in RecvSlots
  BY <1>1, <1>2 DEF Requests, Sends, Recvs
<1> DEFINE s == wq[1].slot
<1>4. Held(<<"wq", 1>>, s)
  BY <1>2, <1>3 DEF Held
<1>5. ASSUME s \in freeSlots PROVE FALSE
  <2>1. Held(<<"free", 0>>, s)
    BY <1>5 DEF Held
  <2>2. <<"wq", 1>> = <<"free", 0>>
    BY <1>3, <1>4, <2>1 DEF HeldOnce
  <2> QED
    BY <2>2
<1> QED
  BY <1>2, <1>3, <1>5

(* Slots come back one at a time, when the NIC fetches an RMC_RECV.        *)
LEMMA ReturnedStep ==
  ASSUME WorkerInv, HeldOnce, [Next]_vars
  PROVE  /\ Returned \in Int
         /\ Returned' = Returned + (IF NicFree THEN 1 ELSE 0)
<1>1. freeSlots \in SUBSET RecvSlots /\ arrived \in Nat
  BY Constants DEF WorkerInv, TypeOK
<1>2. /\ IsFiniteSet(freeSlots) /\ Cardinality(freeSlots) \in Nat
      /\ Cardinality(RecvSlots) \in Nat
  BY <1>1, FreeFinite
<1>3. Returned \in Int
  BY <1>1, <1>2 DEF Returned
<1>4. CASE NicFree
  <2> DEFINE s == Head(wq).slot
  <2>1. freeSlots' = freeSlots \cup {s} /\ arrived' = arrived /\ s \notin freeSlots
    BY <1>4, FreedWasUsed DEF NicFree
  <2> HIDE DEF s
  <2>2. Cardinality(freeSlots') = Cardinality(freeSlots) + 1
    BY <1>2, <2>1, FS_AddElement
  <2>3. Returned' = Returned + 1
    BY <1>1, <1>2, <2>1, <2>2 DEF Returned
  <2> QED
    BY <1>3, <1>4, <2>3
<1>5. ASSUME NEW s \in RecvSlots, NicDeliver(s) PROVE Returned' = Returned
  <2>1. freeSlots' = freeSlots \ {s} /\ arrived' = arrived + 1 /\ s \in freeSlots
    BY <1>5 DEF NicDeliver
  <2>2. Cardinality(freeSlots') = Cardinality(freeSlots) - 1
    BY <1>2, <2>1, FS_RemoveElement
  <2> QED
    BY <1>1, <1>2, <2>1, <2>2 DEF Returned
<1>6. ASSUME UNCHANGED <<arrived, freeSlots>> PROVE Returned' = Returned
  BY <1>6 DEF Returned
<1>7. ASSUME WorkerStep \/ NicTransmit \/ NicComplete \/ ClientDone \/ UNCHANGED vars
      PROVE  UNCHANGED <<arrived, freeSlots>>
  BY <1>7 DEF WorkerStep, Receive, Dispatch, Process, PollTimeout, PollCheck, CheckOuter,
     CheckTake, CheckEmpty, ReceiveRetry, ReceiveDone, ReceivePacket, WorkerExit,
     DispatchPacket, DispatchTimeout, SendHeader, SendPost, RecvPost, RecvDropped, BatchDone,
     NicTransmit, NicComplete, ClientDone, vars, nicVars
<1>8. CASE ~NicFree
  <2>1. Returned' = Returned
    BY <1>5, <1>6, <1>7, <1>8 DEF Next, Egress, Stopped
  <2> QED
    BY <1>3, <1>8, <2>1
<1> QED
  BY <1>4, <1>8

(* The difference changes with what the NIC fetches. *)
LEMMA UnreturnedStep ==
  ASSUME WorkerInv, HeldOnce, [Next]_vars
  PROVE  /\ Unreturned \in Int
         /\ NicTransmit => Unreturned' = Unreturned + 1
         /\ NicFree => Unreturned' = Unreturned - 1
         /\ ~NicTransmit /\ ~NicFree => Unreturned' = Unreturned
<1>1. sent \in Seq(Sends) /\ Len(sent) \in Nat
  BY DEF WorkerInv, TypeOK
<1>2. Returned \in Int /\ Returned' = Returned + (IF NicFree THEN 1 ELSE 0)
  BY ReturnedStep
<1>3. CASE NicTransmit
  <2>1. sent' = Append(sent, Head(wq)) /\ ~NicFree
    BY <1>3 DEF NicTransmit, NicFree
  <2>2. Len(sent') = Len(sent) + 1
    BY <1>1, <2>1, AppendTo
  <2> QED
    BY <1>1, <1>2, <1>3, <2>1, <2>2 DEF Unreturned
<1>4. ASSUME ~NicTransmit PROVE sent' = sent
  BY <1>4 DEF Next, WorkerStep, Receive, Dispatch, Process, PollTimeout, PollCheck, CheckOuter,
     CheckTake, CheckEmpty, ReceiveRetry, ReceiveDone, ReceivePacket, WorkerExit,
     DispatchPacket, DispatchTimeout, SendHeader, SendPost, RecvPost, RecvDropped, BatchDone,
     Egress, NicFree, NicDeliver, NicComplete, ClientDone, Stopped, vars, nicVars
<1>5. CASE ~NicTransmit
  BY <1>1, <1>2, <1>4, <1>5 DEF Unreturned
<1> QED
  BY <1>3, <1>5

(* Every step answers before it returns. *)
LEMMA AnswersFirstStep ==
  ASSUME WorkerInv, HeldOnce, AnswersFirst, [Next]_vars
  PROVE  AnswersFirst'
<1>1. wq \in Seq(Requests) /\ Len(wq) \in Nat /\ Unreturned \in Int
  BY QueueTypes, UnreturnedStep
<1>2. (wq = <<>>) <=> (Len(wq) = 0)
  BY <1>1
<1>3. CASE SendPost
  <2>1. PICK r : wq' = Append(wq, r) /\ r.op = "SEND"
    BY <1>3 DEF SendPost, QP!Post
  <2>2. pc' = "recv" /\ Unreturned' = Unreturned
    <3>1. ~NicTransmit /\ ~NicFree
      BY <1>3 DEF SendPost, NicTransmit, NicFree
    <3> QED
      BY <1>3, <3>1, UnreturnedStep DEF SendPost
  <2>3. /\ Len(wq') = Len(wq) + 1 /\ wq'[Len(wq) + 1].op = "SEND" /\ wq' # <<>>
        /\ \A k \in 1 .. Len(wq) : wq'[k] = wq[k]
    BY <1>1, <2>1, AppendTo
  <2>4. \A k \in 1 .. Len(wq') - 1 : wq'[k].op = "RECV" => wq'[k + 1].op = "SEND"
    <3> SUFFICES ASSUME NEW k \in 1 .. Len(wq), wq[k].op = "RECV" PROVE wq'[k + 1].op = "SEND"
      BY <1>1, <2>3
    <3>1. CASE k = Len(wq)
      BY <2>3, <3>1
    <3>2. CASE k # Len(wq)
      <4>1. k \in 1 .. Len(wq) - 1 /\ k + 1 \in 1 .. Len(wq)
        BY <1>1, <3>2
      <4> QED
        BY <2>3, <4>1 DEF AnswersFirst
    <3> QED
      BY <3>1, <3>2
  <2>5. wq'[1].op = "RECV" => Unreturned >= 1
    <3>1. CASE wq = <<>>
      BY <1>1, <1>2, <2>3, <3>1
    <3>2. CASE wq # <<>>
      <4>1. 1 \in 1 .. Len(wq)
        BY <1>1, <1>2, <3>2
      <4> QED
        BY <2>3, <3>2, <4>1 DEF AnswersFirst
    <3> QED
      BY <3>1, <3>2
  <2>6. wq'[Len(wq')].op = "SEND"
    BY <2>3
  <2> QED
    BY <2>2, <2>3, <2>4, <2>5, <2>6 DEF AnswersFirst
<1>4. CASE RecvPost
  <2>1. PICK r : wq' = Append(wq, r)
    BY <1>4 DEF RecvPost, QP!Post
  <2>2. pc = "recv" /\ pc' = "send" /\ Unreturned' = Unreturned
    <3>1. ~NicTransmit /\ ~NicFree
      BY <1>4 DEF RecvPost, NicTransmit, NicFree
    <3> QED
      BY <1>4, <3>1, UnreturnedStep DEF RecvPost
  <2>3. /\ Len(wq') = Len(wq) + 1 /\ wq' # <<>>
        /\ \A k \in 1 .. Len(wq) : wq'[k] = wq[k]
    BY <1>1, <2>1, AppendTo
  <2>4. \A k \in 1 .. Len(wq') - 1 : wq'[k].op = "RECV" => wq'[k + 1].op = "SEND"
    <3> SUFFICES ASSUME NEW k \in 1 .. Len(wq), wq[k].op = "RECV" PROVE wq'[k + 1].op = "SEND"
      BY <1>1, <2>3
    <3>1. k # Len(wq)
      BY <1>1, <1>2, <2>2 DEF AnswersFirst
    <3>2. k \in 1 .. Len(wq) - 1 /\ k + 1 \in 1 .. Len(wq)
      BY <1>1, <3>1
    <3> QED
      BY <2>3, <3>2 DEF AnswersFirst
  <2>5. wq'[1].op = "RECV" => Unreturned >= 1
    <3>1. CASE wq = <<>>
      BY <2>2, <3>1 DEF AnswersFirst
    <3>2. CASE wq # <<>>
      <4>1. 1 \in 1 .. Len(wq)
        BY <1>1, <1>2, <3>2
      <4> QED
        BY <2>3, <3>2, <4>1 DEF AnswersFirst
    <3> QED
      BY <3>1, <3>2
  <2> QED
    BY <2>2, <2>3, <2>4, <2>5 DEF AnswersFirst
<1>5. CASE NicTransmit \/ NicFree
  <2>1. /\ wq # <<>> /\ wq' = Tail(wq) /\ pc' = pc
        /\ NicFree => wq[1].op = "RECV"
    BY <1>1, <1>5, TailOf DEF NicTransmit, NicFree, QP!Fetch
  <2>2. /\ Len(wq) \in Nat \ {0} /\ Len(wq') = Len(wq) - 1 /\ Head(wq) = wq[1]
        /\ \A k \in 1 .. Len(wq') : k + 1 \in 1 .. Len(wq) /\ wq'[k] = wq[k + 1]
    BY <1>1, <2>1, TailOf
  <2>3. (wq' = <<>>) <=> (Len(wq') = 0)
    <3>1. wq' \in Seq(Requests)
      BY <1>1, <2>1
    <3> QED
      BY <3>1
  <2>4. \A k \in 1 .. Len(wq') - 1 : wq'[k].op = "RECV" => wq'[k + 1].op = "SEND"
    <3> SUFFICES ASSUME NEW k \in 1 .. Len(wq') - 1, wq'[k].op = "RECV"
                 PROVE  wq'[k + 1].op = "SEND"
      OBVIOUS
    <3>1. /\ k \in 1 .. Len(wq') /\ k + 1 \in 1 .. Len(wq') /\ k + 1 \in 1 .. Len(wq) - 1
      BY <2>2
    <3>2. wq'[k] = wq[k + 1] /\ wq'[k + 1] = wq[(k + 1) + 1]
      BY <2>2, <3>1
    <3> QED
      BY <3>1, <3>2 DEF AnswersFirst
  <2>5. pc = "recv" /\ wq' # <<>> => wq'[Len(wq')].op = "SEND"
    <3> SUFFICES ASSUME pc = "recv", wq' # <<>> PROVE wq'[Len(wq')].op = "SEND"
      OBVIOUS
    <3>1. Len(wq') \in 1 .. Len(wq') /\ Len(wq') + 1 = Len(wq)
      BY <2>2, <2>3
    <3>2. wq'[Len(wq')] = wq[Len(wq)]
      BY <2>2, <3>1
    <3> QED
      BY <2>1, <3>2 DEF AnswersFirst
  <2>6. CASE NicTransmit
    <3>1. Unreturned' = Unreturned + 1 /\ Unreturned >= 0
      BY <2>6, UnreturnedStep DEF AnswersFirst
    <3>2. Unreturned' >= 1 /\ Unreturned' >= 0
      BY <1>1, <3>1
    <3> QED
      BY <2>1, <2>4, <2>5, <3>2 DEF AnswersFirst
  <2>7. CASE NicFree
    <3>1. Unreturned' = Unreturned - 1 /\ Unreturned >= 1
      BY <2>1, <2>7, UnreturnedStep DEF AnswersFirst
    <3>2. Unreturned' >= 0
      BY <1>1, <3>1
    <3>3. wq' # <<>> => wq'[1].op # "RECV"
      <4> SUFFICES ASSUME wq' # <<>> PROVE wq'[1].op # "RECV"
        OBVIOUS
      <4>1. 1 \in 1 .. Len(wq) - 1 /\ 1 \in 1 .. Len(wq')
        BY <2>2, <2>3
      <4>2. wq'[1] = wq[1 + 1] /\ wq[1 + 1].op = "SEND"
        BY <2>1, <2>2, <2>7, <4>1 DEF AnswersFirst
      <4> QED
        BY <4>2
    <3>4. wq' = <<>> => pc # "recv"
      <4> SUFFICES ASSUME wq' = <<>> PROVE pc # "recv"
        OBVIOUS
      <4>1. Len(wq) = 1
        BY <2>2, <2>3
      <4> QED
        BY <2>1, <2>7, <4>1 DEF AnswersFirst
    <3> QED
      BY <2>1, <2>4, <2>5, <3>2, <3>3, <3>4 DEF AnswersFirst
  <2> QED
    BY <1>5, <2>6, <2>7
<1>6. ASSUME ~SendPost, ~RecvPost, ~NicTransmit, ~NicFree
      PROVE  wq' = wq /\ (pc' = pc \/ pc' # "recv")
  BY <1>6 DEF Next, WorkerStep, Receive, Dispatch, Process, PollTimeout, PollCheck, CheckOuter,
     CheckTake, CheckEmpty, ReceiveRetry, ReceiveDone, ReceivePacket, WorkerExit,
     DispatchPacket, DispatchTimeout, SendHeader, RecvDropped, BatchDone,
     Egress, NicDeliver, NicComplete, ClientDone, Stopped, vars, QP!Take, QP!Complete
<1>7. CASE ~SendPost /\ ~RecvPost /\ ~NicTransmit /\ ~NicFree
  BY <1>6, <1>7, UnreturnedStep DEF AnswersFirst
<1> QED
  BY <1>3, <1>4, <1>5, <1>7

(* "DEAD" reaches the dispatch only from a receive that saw client_done or *)
(* left it in the payload_len of a packet.                                 *)
LEMMA EndSeenStep ==
  ASSUME WorkerInv, EndSeen, [Next]_vars
  PROVE  EndSeen'
<1>1. misread \in Seq(RecvSlots) /\ Len(misread) \in Nat
  BY DEF WorkerInv, TypeOK
<1>2. CASE ReceivePacket
  <2>1. payload_len' # "OTHER" => Len(misread') = Len(misread) + 1
    BY <1>1, <1>2, MisreadStep, AppendTo
  <2>2. payload_len' # "OTHER" => Len(misread') > 0
    BY <1>1, <2>1
  <2> QED
    BY <2>2 DEF EndSeen
<1>3. CASE WorkerStep /\ ~ReceivePacket
  <2>1. misread' = misread
    BY <1>3, MisreadStep
  <2> QED
    BY <1>3, <2>1 DEF WorkerStep, Receive, Dispatch, Process, PollTimeout, PollCheck, CheckOuter,
       CheckTake, CheckEmpty, ReceiveRetry, ReceiveDone, WorkerExit,
       DispatchPacket, DispatchTimeout, SendHeader, SendPost, RecvPost, RecvDropped, BatchDone,
       EndSeen, nicVars
<1>4. CASE ~WorkerStep
  <2>1. UNCHANGED <<pc, payload_len, misread>>
    BY <1>4 DEF Next, Egress, NicTransmit, NicFree, NicDeliver, NicComplete, ClientDone, Stopped,
       vars, pollVars, batchVars
  <2>2. client_done' = client_done \/ client_done' = TRUE
    BY <1>4 DEF Next, Egress, NicTransmit, NicFree, NicDeliver, NicComplete, ClientDone, Stopped,
       vars, nicVars
  <2> QED
    BY <2>1, <2>2 DEF EndSeen
<1> QED
  BY <1>2, <1>3, <1>4

(* The inductive invariant of the refinement holds at the start ...        *)
LEMMA ServiceInit == Init => ServiceInv /\ Service!Init
<1> SUFFICES ASSUME Init PROVE ServiceInv /\ Service!Init
  OBVIOUS
<1>1. SlotInv
  BY InitInv, HeldInit DEF SlotInv
<1>2. /\ pc = "poll" /\ wq = <<>> /\ arrived = 0 /\ tmp_count = 0 /\ sent = <<>>
      /\ freeSlots = RecvSlots /\ Len(misread) = 0
  BY DEF Init, QP!Init
<1>3. client_done = FALSE
  BY DEF Init
<1>4. Returned = 0 /\ Len(sent) = 0
  <2>1. Cardinality(freeSlots) \in Nat
    BY <1>2, FreeFinite
  <2> QED
    BY <1>2, <2>1 DEF Returned
<1>5. CountedAll
  BY CountInit DEF CountInv
<1>6. AnswersFirst /\ EndSeen
  BY <1>2, <1>4 DEF AnswersFirst, EndSeen, Unreturned
<1>7. Service!Init
  BY <1>2, <1>3, <1>4 DEF Service!Init
<1> QED
  BY <1>1, <1>5, <1>6, <1>7 DEF ServiceInv

(* ... and is kept by every step.                                          *)
LEMMA ServiceInvStep == ServiceInv /\ [Next]_vars => ServiceInv'
<1> SUFFICES ASSUME ServiceInv, [Next]_vars PROVE ServiceInv'
  OBVIOUS
<1>1. SlotInv'
  BY SlotStep DEF ServiceInv
<1>2. WorkerInv /\ HeldOnce /\ WorkerInv'
  BY <1>1 DEF ServiceInv, SlotInv
<1> QED
  BY <1>1, <1>2, CountedAllStep, AnswersFirstStep, EndSeenStep DEF ServiceInv

(* No more packets are answered and misread than have been taken, and one  *)
(* less as long as one is in hand or a reply on its way.                   *)
LEMMA AnsweredArrived ==
  ASSUME ServiceInv, NicTransmit \/ HandCount = 1
  PROVE  Len(sent) + Len(misread) < arrived
<1>1. WorkerInv /\ CountedAll
  BY DEF ServiceInv, SlotInv
<1>2. /\ Len(sent) \in Nat /\ replied \in Int /\ Len(sent) <= replied
  <2>1. sent \in Seq(Sends) /\ RepliesQueued
    BY <1>1 DEF WorkerInv, TypeOK
  <2> QED
    BY <1>1, <2>1, QueueTypes DEF RepliesQueued, replied
<1>3. ASSUME NicTransmit PROVE Len(sent) < replied
  <2>1. wq # <<>> /\ Head(wq).op = "SEND" /\ wq \in Seq(Requests)
    BY <1>1, <1>3, QueueTypes DEF NicTransmit, QP!Fetch
  <2>2. Head(wq) = wq[1] /\ 1 \in 1 .. Len(wq) /\ wq[1] \in Requests
    BY <1>1, <2>1, TailOf, QueueTypes
  <2>3. Len(sent) <= wq[1].seq /\ wq[1].seq < replied
    BY <1>1, <2>1, <2>2 DEF WorkerInv, RepliesQueued
  <2>4. wq[1].seq \in Nat
    BY <1>1, <2>1, <2>2, RequestFields
  <2> QED
    BY <1>2, <2>3, <2>4
<1>4. replied <= tmp_count
  <2>1. /\ batch_counter <= tmp_count /\ (Processing => batch_counter = batch_size /\ i <= batch_size)
        /\ (pc = "recv" => i < batch_size)
    BY <1>1 DEF WorkerInv, BatchRecorded, BatchInBounds
  <2> QED
    BY <1>1, <2>1, QueueTypes DEF replied
<1>5. /\ tmp_count \in Nat /\ HandCount \in {0, 1} /\ Len(misread) \in Nat
      /\ tmp_count + HandCount + Len(misread) <= Taken /\ Taken \in Int
  BY <1>1, AccountedTypes, TakenIs DEF CountedAll, Accounted
<1>6. Taken <= arrived /\ arrived \in Nat
  <2>1. Count(cq, Packets) \in Nat
    BY <1>1, QueueTypes, PlacesFinite
  <2>2. arrived \in Nat
    BY <1>1, Constants DEF WorkerInv, TypeOK
  <2> QED
    BY <1>1, <2>1, <2>2, TakenIs
<1> QED
  BY <1>2, <1>3, <1>4, <1>5, <1>6

(* Every step of the worker and of the NIC is a step of the service, or    *)
(* one its clients do not see.                                             *)
LEMMA ServiceStep == ServiceInv /\ [Next]_vars => [Service!Next]_(Service!vars)
<1> SUFFICES ASSUME ServiceInv, [Next]_vars PROVE [Service!Next]_(Service!vars)
  OBVIOUS
<1>1. WorkerInv /\ HeldOnce /\ AnswersFirst /\ EndSeen
  BY DEF ServiceInv, SlotInv
<1>2. Returned \in Int /\ Returned' = Returned + (IF NicFree THEN 1 ELSE 0)
  BY <1>1, ReturnedStep
<1>3. sent \in Seq(Sends) /\ Len(sent) \in Nat /\ arrived \in Nat
  BY <1>1, Constants DEF WorkerInv, TypeOK
<1>4. ASSUME ~NicFree PROVE Returned' = Returned
  BY <1>2, <1>4
<1>5. CASE NicTransmit
  <2>1. /\ sent' = Append(sent, Head(wq)) /\ UNCHANGED <<pc, client_done, arrived, misread>>
        /\ ~NicFree
    BY <1>5 DEF NicTransmit, NicFree, batchVars
  <2>2. Len(sent') = Len(sent) + 1
    BY <1>3, <2>1, AppendTo
  <2>3. Service!Answer
    BY <1>4, <1>5, <2>1, <2>2, AnsweredArrived DEF Service!Answer
  <2> QED
    BY <2>3 DEF Service!Next
<1>6. CASE NicFree
  <2>1. /\ UNCHANGED <<pc, client_done, arrived, sent, misread>> /\ wq # <<>> /\ wq[1].op = "RECV"
    BY <1>1, <1>6, QueueTypes, TailOf DEF NicFree, QP!Fetch, batchVars
  <2>2. Returned < Len(sent) /\ Returned' = Returned + 1
    BY <1>1, <1>2, <1>3, <1>6, <2>1 DEF AnswersFirst, Unreturned
  <2>3. Service!Return
    BY <2>1, <2>2 DEF Service!Return
  <2> QED
    BY <2>3 DEF Service!Next
<1>7. ASSUME NEW s \in RecvSlots, NicDeliver(s) PROVE Service!Deliver
  <2>1. /\ arrived' = arrived + 1 /\ arrived < MaxPackets /\ s \in freeSlots
        /\ UNCHANGED <<pc, client_done, sent, misread>>
    BY <1>7 DEF NicDeliver, batchVars
  <2>2. ~NicFree
    BY <1>3, <2>1 DEF NicFree
  <2>3. arrived - Returned < Cardinality(RecvSlots)
    <3>1. freeSlots \in SUBSET RecvSlots
      BY <1>1 DEF WorkerInv, TypeOK
    <3>2. /\ IsFiniteSet(freeSlots) /\ Cardinality(freeSlots) \in Nat
          /\ Cardinality(RecvSlots) \in Nat
      BY <3>1, FreeFinite
    <3>3. Cardinality(freeSlots) # 0
      BY <2>1, <3>2, FS_EmptySet
    <3> QED
      BY <1>3, <3>2, <3>3 DEF Returned
  <2> QED
    BY <1>4, <2>1, <2>2, <2>3 DEF Service!Deliver
<1>8. CASE ClientDone
  <2>1. /\ ~client_done /\ client_done' = TRUE /\ UNCHANGED <<pc, arrived, sent, misread>>
    BY <1>8 DEF ClientDone, batchVars
  <2>2. freeSlots' = freeSlots
    BY <1>8 DEF ClientDone
  <2>3. Returned' = Returned
    BY <2>1, <2>2 DEF Returned
  <2>4. Service!ClientDone
    BY <2>1, <2>3 DEF Service!ClientDone
  <2> QED
    BY <2>4 DEF Service!Next
<1>9. ASSUME WorkerStep
      PROVE  UNCHANGED <<client_done, arrived, sent>> /\ Returned' = Returned
  <2>1. UNCHANGED nicVars
    BY <1>9 DEF WorkerStep, Receive, Dispatch, Process, PollTimeout, PollCheck, CheckOuter,
       CheckTake, CheckEmpty, ReceiveRetry, ReceiveDone, ReceivePacket, WorkerExit,
       DispatchPacket, DispatchTimeout, SendHeader, SendPost, RecvPost, RecvDropped, BatchDone
  <2> QED
    BY <2>1 DEF nicVars, Returned
<1>10. CASE WorkerExit
  <2>1. pc = "dispatch" /\ pc' = "exit" /\ (client_done \/ Len(misread) > 0) /\ misread' = misread
    BY <1>1, <1>10 DEF WorkerExit, EndSeen, batchVars
  <2>2. Service!Stop
    BY <1>9, <1>10, <2>1 DEF Service!Stop, WorkerStep, Dispatch
  <2> QED
    BY <2>2 DEF Service!Next
<1>13. CASE ReceivePacket /\ payload_len' # "OTHER"
  <2>1. /\ pc = "returned" /\ pc' = "dispatch" /\ ret \in Packets /\ ~client_done
    BY <1>13 DEF ReceivePacket
  <2>2. Len(misread') = Len(misread) + 1
    <3>1. misread \in Seq(RecvSlots) /\ misread' = Append(misread, ret.slot)
      BY <1>1, <1>13, MisreadStep DEF WorkerInv, TypeOK
    <3> QED
      BY <3>1, AppendTo
  <2>3. Len(sent) + Len(misread) < arrived
    BY <2>1, AnsweredArrived DEF HandCount
  <2>4. UNCHANGED <<client_done, arrived, sent>> /\ Returned' = Returned
    BY <1>9, <1>13 DEF WorkerStep, Receive
  <2>5. Service!Lose
    BY <2>1, <2>2, <2>3, <2>4 DEF Service!Lose
  <2> QED
    BY <2>5 DEF Service!Next
<1>11. CASE WorkerStep /\ ~WorkerExit /\ ~(ReceivePacket /\ payload_len' # "OTHER")
  <2>1. pc # "exit" /\ pc' # "exit"
    BY <1>11 DEF WorkerStep, Receive, Dispatch, Process, PollTimeout, PollCheck, CheckOuter,
       CheckTake, CheckEmpty, ReceiveRetry, ReceiveDone, ReceivePacket, DispatchPacket,
       DispatchTimeout, SendHeader, SendPost, RecvPost, RecvDropped, BatchDone
  <2>2. misread' = misread
    BY <1>1, <1>11, MisreadStep
  <2> QED
    BY <1>9, <1>11, <2>1, <2>2 DEF Service!vars
<1>12. CASE NicComplete \/ UNCHANGED vars
  <2>1. UNCHANGED <<pc, client_done, arrived, sent, freeSlots, misread>>
    BY <1>12 DEF NicComplete, vars, nicVars, batchVars
  <2> QED
    BY <2>1 DEF Service!vars, Returned
<1> QED
  BY <1>5, <1>6, <1>7, <1>8, <1>10, <1>11, <1>12, <1>13
     DEF Next, Egress, Stopped, Service!Next

(* run_worker, its queues, its send buffers and the NIC implement the      *)
(* service of WorkerSpec, for all sizes and whatever the unassigned        *)
(* payload_len of a packet holds: a packet is answered at most once and    *)
(* not if it was misread, a slot is given back only after an answer, and   *)
(* the worker stops only once the client is done or a packet was misread.  *)
THEOREM ServiceImplemented == Spec => Service!Spec
<1>1. ServiceInv /\ [Next]_vars => ServiceInv'
  BY ServiceInvStep
<1>2. ServiceInv /\ [Next]_vars => [Service!Next]_(Service!vars)
  BY ServiceStep
<1> QED
  BY <1>1, <1>2, ServiceInit, PTL DEF Spec, Service!Spec
=============================================================================
