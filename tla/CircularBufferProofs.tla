------------------------ MODULE CircularBufferProofs ------------------------
(***************************************************************************)
(* Proofs about CircularBuffer for every ring size and whatever credits    *)
(* arrive and when: the sense bits of the sender's copy always split the   *)
(* ring at tail, hence the assertion at the end of incTail never fails; no *)
(* unread message is overwritten; and the sender's view of the free space  *)
(* is exact until a credit is misapplied.                                  *)
(***************************************************************************)
EXTENDS CircularBuffer, TLAPS

(* The fresh ring has the sense of "the lap before" everywhere.            *)
LEMMA SenseInit == Init => SenseInv
<1> SUFFICES ASSUME Init PROVE SenseInv
  OBVIOUS
<1>1. TypeOK
  <2>1. sr_vector \in [Entries -> BOOLEAN] /\ is_full \in BOOLEAN
                                           /\ buffer_sr \in BOOLEAN
    BY Zenon DEF Init
  <2>2. mem \in [Entries -> Nat] /\ 0 \in Entries
    BY EntriesAssumption DEF Init, Entries
  <2> QED
    BY <2>1, <2>2 DEF Init, TypeOK
<1>2. ASSUME NEW e \in Entries
      PROVE  /\ sr_vector[e] # buffer_sr
             /\ ~(e < tail \/ (e = tail /\ pc = "written"))
  <2>1. sr_vector[e] = TRUE /\ buffer_sr = FALSE
    BY DEF Init
  <2>2. tail = 0 /\ pc = "idle"
    BY DEF Init
  <2>3. ~(e < tail)
    BY <2>2, EntriesAssumption DEF Entries
  <2> QED
    BY <2>1, <2>2, <2>3
<1> QED
  BY <1>1, <1>2 DEF SenseInv, SenseSplitsAtTail

(* Type correctness is preserved by every step.                            *)
LEMMA TypeStep == TypeOK /\ [Next]_vars => TypeOK'
<1> SUFFICES ASSUME TypeOK, [Next]_vars PROVE TypeOK'
  OBVIOUS
<1> USE EntriesAssumption, CreditAssumption DEF TypeOK, Entries, senderVars
<1>1. CASE WriteEntry
  BY <1>1 DEF WriteEntry
<1>2. CASE IncTail
  <2>1. is_full' \in BOOLEAN /\ buffer_sr' \in BOOLEAN
    BY <1>2, Zenon DEF IncTail
  <2>2. tail' \in Entries
    BY <1>2 DEF IncTail
  <2> QED
    BY <1>2, <2>1, <2>2 DEF IncTail
<1>3. ASSUME NEW inc \in Increments, UpdateSendersHead(inc) PROVE TypeOK'
  BY <1>3 DEF UpdateSendersHead
<1>4. CASE ProcessHead
  BY <1>4 DEF ProcessHead, incHead
<1>5. CASE UNCHANGED vars
  BY <1>5 DEF vars
<1> QED
  BY <1>1, <1>2, <1>3, <1>4, <1>5 DEF Next

(* Writing the entry at tail moves it to this lap's side of the split;     *)
(* incTail at the end of the ring reverses the sense, which puts every     *)
(* entry on the other side.                                                *)
LEMMA SenseStep == SenseInv /\ [Next]_vars => SenseInv'
<1> SUFFICES ASSUME SenseInv, [Next]_vars PROVE SenseInv'
  OBVIOUS
<1>1. TypeOK'
  BY TypeStep DEF SenseInv
<1> SUFFICES SenseSplitsAtTail'
  BY <1>1 DEF SenseInv
<1>2. /\ tail \in Entries /\ buffer_sr \in BOOLEAN
      /\ sr_vector \in [Entries -> BOOLEAN]
      /\ SenseSplitsAtTail
  BY DEF SenseInv, TypeOK
<1>3. ASSUME UNCHANGED <<tail, buffer_sr, sr_vector, pc>>
      PROVE  SenseSplitsAtTail'
  BY <1>2, <1>3 DEF SenseSplitsAtTail
<1>4. CASE WriteEntry
  <2> SUFFICES ASSUME NEW e \in Entries
               PROVE  (sr_vector'[e] = buffer_sr')
                         <=> (e < tail' \/ (e = tail' /\ pc' = "written"))
    BY DEF SenseSplitsAtTail
  <2>1. /\ sr_vector'[e] = IF e = tail THEN buffer_sr ELSE sr_vector[e]
        /\ buffer_sr' = buffer_sr /\ tail' = tail
        /\ pc' = "written" /\ pc = "idle"
    BY <1>2, <1>4 DEF WriteEntry
  <2>2. (sr_vector[e] = buffer_sr) <=> e < tail
    BY <1>2, <2>1 DEF SenseSplitsAtTail
  <2> QED
    BY <2>1, <2>2
<1>5. CASE IncTail
  <2> SUFFICES ASSUME NEW e \in Entries
               PROVE  (sr_vector'[e] = buffer_sr')
                         <=> (e < tail' \/ (e = tail' /\ pc' = "written"))
    BY DEF SenseSplitsAtTail
  <2>1. sr_vector' = sr_vector /\ pc = "written" /\ pc' = "idle"
    BY <1>5 DEF IncTail
  <2>2. (sr_vector[e] = buffer_sr) <=> (e < tail \/ e = tail)
    BY <1>2, <2>1 DEF SenseSplitsAtTail
  <2>3. sr_vector[e] \in BOOLEAN
    BY <1>2
  <2>4. CASE tail + 1 >= numEntries
    <3>1. tail' = 0 /\ buffer_sr' = ~buffer_sr
      BY <1>5, <2>4 DEF IncTail
    <3>2. e < tail \/ e = tail
      BY <1>2, <2>4, EntriesAssumption DEF Entries
    <3>3. ~(e < tail')
      BY <3>1 DEF Entries
    <3>4. sr_vector'[e] # buffer_sr'
      BY <1>2, <2>1, <2>2, <2>3, <3>1, <3>2
    <3> QED
      BY <2>1, <3>3, <3>4
  <2>5. CASE ~(tail + 1 >= numEntries)
    <3>1. tail' = tail + 1 /\ buffer_sr' = buffer_sr
      BY <1>5, <2>5 DEF IncTail
    <3>2. e < tail' <=> (e < tail \/ e = tail)
      BY <1>2, <3>1, EntriesAssumption DEF Entries
    <3> QED
      BY <2>1, <2>2, <3>1, <3>2
  <2> QED
    BY <2>4, <2>5
<1>6. ASSUME NEW inc \in Increments, UpdateSendersHead(inc)
      PROVE  SenseSplitsAtTail'
  BY <1>3, <1>6 DEF UpdateSendersHead
<1>7. CASE ProcessHead
  BY <1>3, <1>7 DEF ProcessHead, senderVars
<1>8. CASE UNCHANGED vars
  BY <1>3, <1>8 DEF vars, senderVars
<1> QED
  BY <1>4, <1>5, <1>6, <1>7, <1>8 DEF Next

(* The sense bits always split the ring at tail.                           *)
THEOREM SenseInvariant == Spec => []SenseInv
BY SenseInit, SenseStep, PTL DEF Spec

(* The assertion in incTail never fails.                                   *)
THEOREM IncTailNeverAborts == Spec => []IncTailAssertion
<1>1. SenseInv => IncTailAssertion
  BY EntriesAssumption
     DEF SenseInv, TypeOK, SenseSplitsAtTail, IncTailAssertion, Entries
<1> QED
  BY <1>1, SenseInvariant, PTL
-----------------------------------------------------------------------------
(* Remainders by the size of the ring. *)

(* Quotient and remainder. *)
LEMMA Division ==
  ASSUME NEW n \in Nat \ {0}, NEW a \in Nat
  PROVE  a \div n \in Nat /\ a % n \in 0 .. n - 1 /\ a = n * (a \div n) + (a % n)
OBVIOUS

(* ... and they are the only such numbers. *)
LEMMA DivisionUnique ==
  ASSUME NEW n \in Nat \ {0}, NEW q \in Nat, NEW r \in 0 .. n - 1
  PROVE  (n * q + r) % n = r
OBVIOUS

(* Going on by at most a lap: the position moves by the distance, less the *)
(* ring's size if it passes the end.                                       *)
LEMMA Ahead ==
  ASSUME NEW n \in Nat \ {0}, NEW a \in Nat, NEW d \in 0 .. n
  PROVE  (a + d) % n = IF (a % n) + d < n THEN (a % n) + d ELSE (a % n) + d - n
<1> DEFINE q == a \div n
           r == a % n
<1>1. q \in Nat /\ r \in 0 .. n - 1 /\ a = n * q + r
  BY Division
<1> HIDE DEF q, r
<1>2. CASE r + d < n
  <2>1. r + d \in 0 .. n - 1 /\ a + d = n * q + (r + d)
    BY <1>1, <1>2
  <2>2. (n * q + (r + d)) % n = r + d
    BY <1>1, <2>1, DivisionUnique
  <2> QED
    BY <1>2, <2>1, <2>2 DEF r
<1>3. CASE ~(r + d < n)
  <2>1. r + d - n \in 0 .. n - 1 /\ q + 1 \in Nat
    BY <1>1, <1>3
  <2>2. n * (q + 1) = n * q + n
    BY <1>1
  <2>3. a + d = n * (q + 1) + (r + d - n)
    BY <1>1, <2>2
  <2>4. (n * (q + 1) + (r + d - n)) % n = r + d - n
    BY <2>1, DivisionUnique
  <2> QED
    BY <1>3, <2>3, <2>4 DEF r
<1> QED
  BY <1>2, <1>3

(* One further. *)
LEMMA OneAhead ==
  ASSUME NEW a \in Nat
  PROVE  (a + 1) % numEntries
           = IF (a % numEntries) + 1 < numEntries THEN (a % numEntries) + 1
             ELSE (a % numEntries) + 1 - numEntries
<1>1. 1 \in 0 .. numEntries /\ numEntries \in Nat \ {0}
  BY EntriesAssumption
<1> QED
  BY <1>1, Ahead

-----------------------------------------------------------------------------
(* The ring as a queue. *)

(* Messages are written, processed and credited in this order, and no more *)
(* than a ring of them is outstanding.                                     *)
CountsOrdered ==
  /\ credited <= received /\ received <= sent
  /\ sent - credited <= numEntries
  /\ pc = "written" => credited < sent

(* The messages the sender's tail has passed. *)
passed == IF pc = "written" THEN sent - 1 ELSE sent

(* Each side's index counts its messages round the ring. *)
Positions == tail = passed % numEntries /\ head = received % numEntries

(* The inductive invariant behind NothingOverwritten. *)
RingInv == TypeOK /\ CountsOrdered /\ Positions /\ NothingOverwritten

(* The k-th entry from h on. *)
LEMMA Place ==
  ASSUME NEW n \in Nat \ {0}, NEW h \in 0 .. n - 1, NEW k \in 1 .. n
  PROVE  (h + k - 1) % n = IF h + k - 1 < n THEN h + k - 1 ELSE h + k - 1 - n
OBVIOUS

(* The fresh ring is empty. *)
LEMMA RingInit == Init => RingInv
<1> SUFFICES ASSUME Init PROVE RingInv
  OBVIOUS
<1>1. TypeOK
  BY SenseInit DEF SenseInv
<1>2. CountsOrdered /\ Positions
  BY EntriesAssumption DEF Init, CountsOrdered, Positions, passed
<1>3. NothingOverwritten
  <2>1. \A k \in 1 .. numEntries : (0 + k - 1) % numEntries \in Entries
    BY Place, EntriesAssumption DEF Entries
  <2> QED
    BY <2>1, EntriesAssumption DEF Init, NothingOverwritten
<1> QED
  BY <1>1, <1>2, <1>3 DEF RingInv

(* What the indices and the counters say of each other. *)
LEMMA CountsStep == RingInv /\ [Next]_vars => CountsOrdered' /\ Positions'
<1> SUFFICES ASSUME RingInv, [Next]_vars PROVE CountsOrdered' /\ Positions'
  OBVIOUS
<1> USE EntriesAssumption, CreditAssumption
<1>1. /\ TypeOK /\ CountsOrdered /\ Positions
      /\ sent \in Nat /\ received \in Nat /\ credited \in Nat
      /\ pc \in {"idle", "written"} /\ passed \in Nat
  BY DEF RingInv, TypeOK, passed, CountsOrdered
<1>2. CASE WriteEntry
  BY <1>1, <1>2 DEF WriteEntry, CountsOrdered, Positions, passed
<1>3. CASE IncTail
  <2>1. passed' = passed + 1
    BY <1>1, <1>3 DEF IncTail, passed
  <2>2. tail' = (passed + 1) % numEntries
    <3>1. tail \in 0 .. numEntries - 1 /\ tail = passed % numEntries
      BY <1>1 DEF TypeOK, Positions, Entries
    <3>2. tail' = IF tail + 1 < numEntries THEN tail + 1 ELSE tail + 1 - numEntries
      BY <1>3, <3>1 DEF IncTail
    <3> QED
      BY <1>1, <3>1, <3>2, OneAhead
  <2> QED
    BY <1>1, <1>3, <2>1, <2>2 DEF IncTail, CountsOrdered, Positions
<1>4. ASSUME NEW inc \in Increments, UpdateSendersHead(inc)
      PROVE  CountsOrdered' /\ Positions'
  BY <1>1, <1>4 DEF UpdateSendersHead, CountsOrdered, Positions, passed
<1>5. CASE ProcessHead
  <2>1. head \in 0 .. numEntries - 1 /\ mem[head] # 0
    BY <1>1, <1>5 DEF ProcessHead, TypeOK, Entries
  <2>2. received < sent
    <3> SUFFICES ASSUME received = sent PROVE FALSE
      BY <1>1 DEF CountsOrdered
    <3>1. 1 \in sent - received + 1 .. numEntries /\ (head + 1 - 1) % numEntries = head
      BY <1>1, <2>1, Place
    <3> QED
      BY <2>1, <3>1 DEF RingInv, NothingOverwritten
  <2>3. head' = (received + 1) % numEntries
    <3>1. head = received % numEntries
      BY <1>1 DEF Positions
    <3>2. head' = IF head + 1 < numEntries THEN head + 1 ELSE head + 1 - numEntries
      BY <1>5, <2>1 DEF ProcessHead, incHead
    <3> QED
      BY <1>1, <3>1, <3>2, OneAhead
  <2> QED
    BY <1>1, <1>5, <2>2, <2>3
       DEF ProcessHead, senderVars, CountsOrdered, Positions, passed
<1>6. CASE UNCHANGED vars
  BY <1>1, <1>6 DEF vars, senderVars, CountsOrdered, Positions, passed
<1> QED
  BY <1>2, <1>3, <1>4, <1>5, <1>6 DEF Next

(* A write goes to the first free entry, and processing frees the first    *)
(* one in use.                                                             *)
LEMMA RingStep == RingInv /\ [Next]_vars => RingInv'
<1> SUFFICES ASSUME RingInv, [Next]_vars PROVE RingInv'
  OBVIOUS
<1> USE EntriesAssumption, CreditAssumption
<1>1. TypeOK' /\ CountsOrdered' /\ Positions'
  BY TypeStep, CountsStep DEF RingInv
<1> SUFFICES NothingOverwritten'
  BY <1>1 DEF RingInv
<1>2. /\ TypeOK /\ CountsOrdered /\ Positions /\ NothingOverwritten
      /\ sent \in Nat /\ received \in Nat /\ credited \in Nat
      /\ head \in 0 .. numEntries - 1 /\ tail \in 0 .. numEntries - 1
      /\ mem \in [0 .. numEntries - 1 -> Nat]
  BY DEF RingInv, TypeOK, Entries
<1> DEFINE at(k) == (head + k - 1) % numEntries
<1>3. ASSUME NEW k \in 1 .. numEntries
      PROVE  /\ at(k) = IF head + k - 1 < numEntries THEN head + k - 1
                        ELSE head + k - 1 - numEntries
             /\ at(k) \in 0 .. numEntries - 1
  <2>1. at(k) = IF head + k - 1 < numEntries THEN head + k - 1
                ELSE head + k - 1 - numEntries
    BY <1>2, Place
  <2> HIDE DEF at
  <2> QED
    BY <1>2, <2>1
<1>4. ASSUME UNCHANGED <<mem, head, sent, received>>
      PROVE  NothingOverwritten'
  BY <1>2, <1>4 DEF NothingOverwritten
<1>5. CASE WriteEntry
  <2> DEFINE d == sent - received
  <2>1. d \in 0 .. numEntries - 1
    BY <1>2, <1>5 DEF WriteEntry, CountsOrdered
  <2>2. tail = at(d + 1)
    <3>1. tail = sent % numEntries
      BY <1>2, <1>5 DEF WriteEntry, Positions, passed
    <3>2. (received + d) % numEntries
             = IF (received % numEntries) + d < numEntries
                 THEN (received % numEntries) + d
                 ELSE (received % numEntries) + d - numEntries
      <4>1. numEntries \in Nat \ {0} /\ d \in 0 .. numEntries
        BY <2>1
      <4> HIDE DEF d
      <4> QED
        BY <1>2, <4>1, Ahead
    <3>3. received + d = sent /\ head = received % numEntries /\ d + 1 \in 1 .. numEntries
      BY <1>2, <2>1 DEF Positions
    <3> HIDE DEF at, d
    <3>4. at(d + 1) = IF head + d < numEntries THEN head + d ELSE head + d - numEntries
      BY <1>2, <1>3, <2>1, <3>3
    <3> QED
      BY <3>1, <3>2, <3>3, <3>4
  <2>3. /\ mem' = [mem EXCEPT ![tail] = sent + 1]
        /\ sent' = sent + 1 /\ UNCHANGED <<head, received>>
    BY <1>5 DEF WriteEntry
  <2>4. ASSUME NEW k \in 1 .. numEntries, k # d + 1
        PROVE  mem'[at(k)] = mem[at(k)]
    <3>1. d + 1 \in 1 .. numEntries
      BY <2>1
    <3>2. at(k) # at(d + 1)
      <4> HIDE DEF at, d
      <4>1. at(k) = IF head + k - 1 < numEntries THEN head + k - 1
                    ELSE head + k - 1 - numEntries
        BY <1>3
      <4>2. at(d + 1) = IF head + d < numEntries THEN head + d
                        ELSE head + d - numEntries
        BY <1>2, <1>3, <2>1, <3>1
      <4> QED
        BY <1>2, <2>1, <2>4, <4>1, <4>2
    <3> HIDE DEF at
    <3> QED
      BY <1>2, <1>3, <2>2, <2>3, <3>2
  <2>5. mem'[at(d + 1)] = sent + 1
    <3> HIDE DEF at
    <3> QED
      BY <1>2, <2>2, <2>3
  <2>6. ASSUME NEW k \in 1 .. (sent - received)' PROVE mem'[at(k)] = received + k
    <3>1. CASE k = d + 1
      <4>1. received + k = sent + 1
        BY <1>2, <3>1
      <4> QED
        BY <2>5, <3>1, <4>1
    <3>2. CASE k # d + 1
      <4>1. k \in 1 .. numEntries /\ k \in 1 .. sent - received
        BY <1>2, <2>1, <2>3, <3>2
      <4> QED
        BY <1>2, <2>4, <3>2, <4>1 DEF NothingOverwritten
    <3> QED
      BY <3>1, <3>2
  <2>7. ASSUME NEW k \in (sent - received)' + 1 .. numEntries PROVE mem'[at(k)] = 0
    <3>1. k \in 1 .. numEntries /\ k \in sent - received + 1 .. numEntries /\ k # d + 1
      BY <1>2, <2>1, <2>3
    <3> QED
      BY <1>2, <2>4, <3>1 DEF NothingOverwritten
  <2> QED
    BY <2>3, <2>6, <2>7 DEF NothingOverwritten
<1>6. CASE ProcessHead
  <2>1. /\ mem' = [mem EXCEPT ![head] = 0]
        /\ head' = IF head + 1 >= numEntries THEN 0 ELSE head + 1
        /\ received' = received + 1 /\ sent' = sent
    BY <1>6 DEF ProcessHead, incHead, senderVars
  <2>2. head' \in 0 .. numEntries - 1 /\ sent - received \in 1 .. numEntries
    BY <1>1, <1>2, <2>1 DEF TypeOK, CountsOrdered, Entries
  <2> DEFINE next(k) == (head' + k - 1) % numEntries
  <2>3. ASSUME NEW k \in 1 .. numEntries
        PROVE  next(k) = IF head' + k - 1 < numEntries THEN head' + k - 1
                         ELSE head' + k - 1 - numEntries
    BY <2>2, Place
  <2>4. ASSUME NEW k \in 1 .. numEntries - 1
        PROVE  next(k) = at(k + 1) /\ next(k) # head /\ mem'[next(k)] = mem[at(k + 1)]
    <3>1. k \in 1 .. numEntries /\ k + 1 \in 1 .. numEntries
      OBVIOUS
    <3> HIDE DEF at, next
    <3>2. next(k) = at(k + 1) /\ next(k) # head
      <4>1. next(k) = IF head' + k - 1 < numEntries THEN head' + k - 1
                      ELSE head' + k - 1 - numEntries
        BY <2>3, <3>1
      <4>2. at(k + 1) = IF head + k < numEntries THEN head + k
                        ELSE head + k - numEntries
        BY <1>2, <1>3, <3>1
      <4> QED
        BY <1>2, <2>1, <4>1, <4>2
    <3>3. at(k + 1) \in 0 .. numEntries - 1
      BY <1>3, <3>1
    <3> QED
      BY <1>2, <2>1, <3>2, <3>3
  <2>5. mem'[next(numEntries)] = 0
    <3>1. next(numEntries) = head
      BY <1>2, <2>1, <2>3
    <3> HIDE DEF next
    <3> QED
      BY <1>2, <2>1, <3>1
  <2>6. ASSUME NEW k \in 1 .. (sent - received)' PROVE mem'[next(k)] = received' + k
    <3>1. k \in 1 .. numEntries - 1 /\ k + 1 \in 1 .. sent - received
      BY <1>2, <2>1, <2>2
    <3>2. mem[at(k + 1)] = received + (k + 1)
      BY <1>2, <3>1 DEF NothingOverwritten
    <3> QED
      BY <1>2, <2>1, <2>4, <3>1, <3>2
  <2>7. ASSUME NEW k \in (sent - received)' + 1 .. numEntries PROVE mem'[next(k)] = 0
    <3>1. CASE k = numEntries
      BY <2>5, <3>1
    <3>2. CASE k # numEntries
      <4>1. k \in 1 .. numEntries - 1 /\ k + 1 \in sent - received + 1 .. numEntries
        BY <1>2, <2>1, <2>2, <3>2
      <4>2. mem[at(k + 1)] = 0
        BY <1>2, <4>1 DEF NothingOverwritten
      <4> QED
        BY <2>4, <4>1, <4>2
    <3> QED
      BY <3>1, <3>2
  <2> QED
    BY <2>6, <2>7 DEF NothingOverwritten
<1>7. CASE IncTail
  BY <1>4, <1>7 DEF IncTail
<1>8. ASSUME NEW inc \in Increments, UpdateSendersHead(inc)
      PROVE  NothingOverwritten'
  BY <1>4, <1>8 DEF UpdateSendersHead
<1>9. CASE UNCHANGED vars
  BY <1>4, <1>9 DEF vars
<1> QED
  BY <1>5, <1>6, <1>7, <1>8, <1>9 DEF Next

(* The inductive invariant of the ring holds always. *)
LEMMA RingInvariant == Spec => []RingInv
BY RingInit, RingStep, PTL DEF Spec

(* No unread message is overwritten or skipped, for any size of the ring   *)
(* and credits of any size that arrive at any time.                        *)
THEOREM NothingIsOverwritten == Spec => []NothingOverwritten
<1>1. RingInv => NothingOverwritten
  BY DEF RingInv
<1> QED
  BY <1>1, RingInvariant, PTL
-----------------------------------------------------------------------------
(* The sender's view of the ring. *)

(* What getAvailSlots counts on. *)
ViewCore ==
  /\ senders_head = credited % numEntries
  /\ is_full <=> passed - credited = numEntries

(* How far tail is ahead of senders_head. *)
LEMMA TailAhead ==
  ASSUME RingInv, senders_head = credited % numEntries
  PROVE  /\ passed - credited \in 0 .. numEntries
         /\ tail = IF senders_head + (passed - credited) < numEntries
                     THEN senders_head + (passed - credited)
                     ELSE senders_head + (passed - credited) - numEntries
<1>1. /\ passed \in Nat /\ credited \in Nat /\ tail = passed % numEntries
      /\ passed - credited \in 0 .. numEntries
  BY EntriesAssumption DEF RingInv, TypeOK, CountsOrdered, Positions, passed
<1> DEFINE d == passed - credited
<1>2. credited + d = passed /\ d \in 0 .. numEntries
  BY <1>1
<1>3. numEntries \in Nat \ {0}
  BY EntriesAssumption
<1> HIDE DEF d
<1>4. (credited + d) % numEntries
         = IF (credited % numEntries) + d < numEntries THEN (credited % numEntries) + d
           ELSE (credited % numEntries) + d - numEntries
  BY <1>1, <1>2, <1>3, Ahead
<1> QED
  BY <1>1, <1>2, <1>4 DEF d

(* Where senders_head and is_full are right, getAvailSlots is. *)
LEMMA CoreIsView == RingInv => (ViewCore <=> ViewExact)
<1> SUFFICES ASSUME RingInv PROVE ViewCore <=> ViewExact
  OBVIOUS
<1>1. passed - credited = IF pc = "written" THEN outstanding - 1 ELSE outstanding
  BY DEF passed, outstanding, RingInv, TypeOK
<1>2. ViewExact => ViewCore
  BY <1>1 DEF ViewExact, ViewCore
<1>3. ASSUME ViewCore, ~is_full
      PROVE  getAvailSlots = numEntries - (passed - credited)
  <2> DEFINE d == passed - credited
  <2>1. /\ d \in 0 .. numEntries
        /\ tail = IF senders_head + d < numEntries THEN senders_head + d
                  ELSE senders_head + d - numEntries
    BY <1>3, TailAhead DEF ViewCore
  <2>2. d # numEntries /\ senders_head \in 0 .. numEntries - 1
    BY <1>3 DEF ViewCore, RingInv, TypeOK, Entries
  <2> HIDE DEF d
  <2>3. getAvailSlots = numEntries - d
    BY <1>3, <2>1, <2>2, EntriesAssumption DEF getAvailSlots, getBufferSize, isEmpty
  <2> QED
    BY <2>3 DEF d
<1> QED
  BY <1>1, <1>2, <1>3 DEF ViewExact, ViewCore

(* Every step but a misapplied credit keeps the view exact.                *)
LEMMA ViewStep ==
  ASSUME RingInv, ViewCore, ~CreditMisapplied, [Next]_vars
  PROVE  ViewCore'
<1> USE EntriesAssumption, CreditAssumption
<1>1. /\ senders_head \in 0 .. numEntries - 1 /\ tail \in 0 .. numEntries - 1
      /\ credited \in Nat /\ received \in Nat /\ sent \in Nat
      /\ passed \in Nat /\ is_full \in BOOLEAN
      /\ CountsOrdered /\ pc \in {"idle", "written"}
  BY DEF RingInv, TypeOK, Entries, CountsOrdered, passed
<1>2. /\ senders_head = credited % numEntries
      /\ is_full <=> passed - credited = numEntries
  BY DEF ViewCore
<1> DEFINE d == passed - credited
<1>3. /\ d \in 0 .. numEntries
      /\ tail = IF senders_head + d < numEntries THEN senders_head + d
                ELSE senders_head + d - numEntries
  BY <1>2, TailAhead
<1>4. ASSUME UNCHANGED <<senders_head, credited, is_full, passed>> PROVE ViewCore'
  BY <1>2, <1>4 DEF ViewCore
<1>5. CASE WriteEntry
  <2>1. passed' = passed
    BY <1>1, <1>5 DEF WriteEntry, passed
  <2> QED
    BY <1>4, <1>5, <2>1 DEF WriteEntry
<1>6. CASE IncTail
  <2>1. passed' = passed + 1 /\ d < numEntries
    BY <1>1, <1>6 DEF IncTail, passed, CountsOrdered
  <2>2. tail' = IF tail + 1 >= numEntries THEN 0 ELSE tail + 1
    BY <1>6 DEF IncTail
  <2>3. tail' = senders_head <=> d + 1 = numEntries
    <3> HIDE DEF d
    <3> QED
      BY <1>1, <1>3, <2>1, <2>2
  <2>4. ~is_full
    BY <1>1, <1>2, <2>1
  <2>5. is_full' <=> d + 1 = numEntries
    BY <1>6, <2>3, <2>4 DEF IncTail
  <2>6. passed' - credited' = d + 1
    BY <1>1, <1>6, <2>1 DEF IncTail
  <2> QED
    BY <1>2, <1>6, <2>5, <2>6 DEF ViewCore, IncTail
<1>7. ASSUME NEW inc \in Increments, UpdateSendersHead(inc) PROVE ViewCore'
  <2>1. inc \in Nat \ {0} /\ credited' = credited + inc /\ passed' = passed
    BY <1>7 DEF UpdateSendersHead, passed
  <2>2. senders_head + inc <= numEntries /\ inc # numEntries
    BY <1>1, <2>1 DEF CreditMisapplied
  <2>3. senders_head' = IF senders_head + inc >= numEntries THEN 0 ELSE senders_head + inc
    BY <1>7 DEF UpdateSendersHead
  <2>4. senders_head' = credited' % numEntries
    <3>1. inc \in 0 .. numEntries /\ numEntries \in Nat \ {0}
      BY <1>1, <2>1, <2>2
    <3>2. (credited + inc) % numEntries
             = IF (credited % numEntries) + inc < numEntries
                 THEN (credited % numEntries) + inc
                 ELSE (credited % numEntries) + inc - numEntries
      BY <1>1, <3>1, Ahead
    <3> QED
      BY <1>1, <1>2, <2>1, <2>2, <2>3, <3>2
  <2>5. passed' - credited' # numEntries
    BY <1>1, <1>3, <2>1
  <2>6. ~is_full'
    <3> SUFFICES ASSUME is_full PROVE tail # senders_head'
      BY <1>7 DEF UpdateSendersHead
    <3>1. d = numEntries
      BY <1>2
    <3> HIDE DEF d
    <3> QED
      BY <1>1, <1>3, <2>1, <2>2, <2>3, <3>1
  <2> QED
    BY <2>4, <2>5, <2>6 DEF ViewCore
<1>8. CASE ProcessHead
  <2>1. passed' = passed
    BY <1>8 DEF ProcessHead, passed
  <2> QED
    BY <1>4, <1>8, <2>1 DEF ProcessHead, senderVars
<1>9. CASE UNCHANGED vars
  <2>1. passed' = passed
    BY <1>9 DEF vars, passed
  <2> QED
    BY <1>4, <1>9, <2>1 DEF vars, senderVars
<1> QED
  BY <1>5, <1>6, <1>7, <1>8, <1>9 DEF Next

(* The sender's view of the free space is exact until a credit that goes   *)
(* past the end of the ring, or one for the whole ring, is applied; no     *)
(* interleaving of writes, processing and other credits makes it wrong.    *)
THEOREM SendersViewIsExact == Spec => SendersViewExact
<1>1. Init => ViewExact
  <2> SUFFICES ASSUME Init PROVE ViewCore
    BY RingInit, CoreIsView
  <2>1. 0 % numEntries = 0
    BY EntriesAssumption
  <2> QED
    BY <2>1, EntriesAssumption DEF Init, ViewCore, passed
<1>2. RingInv' => (ViewCore' <=> ViewExact')
  BY CoreIsView, PTL
<1>3. RingInv /\ [Next]_vars => [ViewExact /\ ~CreditMisapplied => ViewExact']_vars
  BY <1>2, RingStep, CoreIsView, ViewStep
<1> QED
  BY <1>1, <1>3, RingInvariant, PTL DEF Spec, SendersViewExact
=============================================================================
