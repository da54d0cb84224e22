--------------------------- MODULE CircularBuffer ---------------------------
(***************************************************************************)
(* CircularReceiveBuffer (cbuf.h, cbuf.cpp): a ring of entries in memory   *)
(* that a sender writes remotely and a receiver polls.  Sender and         *)
(* receiver each have an object of the class: the sender's copy keeps      *)
(* tail, senders_head, is_full, buffer_sr and sr_vector, the receiver's    *)
(* copy keeps head.  The receiver frees entries by credit messages, which  *)
(* the sender applies with flowControlUpdateSendersHead; until then the    *)
(* sender's view of the free space is stale.                               *)
(*                                                                         *)
(* The order of the calls on the sending side is that of remoteBufferWrite *)
(* (rpc.cpp), which is compiled out: the sender here is a caller that      *)
(* counts its credits and writes only when it holds one.                   *)
(***************************************************************************)
EXTENDS Integers

CONSTANTS
  numEntries,  \* entries of the ring; MSGS_PER_PAIR (256) in the code
  Increments,  \* the "inc" of the credit messages
  MaxMsgs      \* bound: messages sent

(* With a single entry is_full could never be cleared.                     *)
ASSUME EntriesAssumption == numEntries \in Nat \ {0, 1}

ASSUME CreditAssumption == Increments \subseteq Nat \ {0} /\ MaxMsgs \in Nat

VARIABLES
  mem,           \* entry -> number of the message in it, 0 when zeroed
  tail,          \* sender's copy
  senders_head,
  is_full,
  buffer_sr,
  sr_vector,
  pc,            \* sender: "idle", or "written" between the write and incTail
  head,          \* receiver's copy
  sent,          \* messages written so far
  received,      \* messages processed so far
  credited       \* messages whose entries the sender knows to be free

senderVars == <<tail, senders_head, is_full, buffer_sr, sr_vector>>
vars == <<mem, senderVars, pc, head, sent, received, credited>>

Entries == 0 .. numEntries - 1

Init ==
  /\ mem = [e \in Entries |-> 0]
  /\ tail = 0 /\ senders_head = 0 /\ is_full = FALSE
  /\ buffer_sr = FALSE
  /\ sr_vector = [e \in Entries |-> TRUE]
  /\ pc = "idle"
  /\ head = 0
  /\ sent = 0 /\ received = 0 /\ credited = 0

-----------------------------------------------------------------------------
(* The sender's getters. *)
isEmpty == ~is_full /\ senders_head = tail

getBufferSize ==
  IF isEmpty THEN numEntries
  ELSE IF tail >= senders_head THEN tail - senders_head
  ELSE (numEntries - senders_head) + tail

getAvailSlots == IF isEmpty THEN numEntries ELSE numEntries - getBufferSize

-----------------------------------------------------------------------------
(* The caller holds a credit; the entry at tail gets the current sense     *)
(* (writeSRMetadata) and the message.                                      *)
WriteEntry ==
  /\ pc = "idle"
  /\ sent - credited < numEntries
  /\ sent < MaxMsgs
  /\ sr_vector' = [sr_vector EXCEPT ![tail] = buffer_sr]
  /\ mem' = [mem EXCEPT ![tail] = sent + 1]
  /\ sent' = sent + 1
  /\ pc' = "written"
  /\ UNCHANGED <<tail, senders_head, is_full, buffer_sr, head, received, credited>>

(* Mutant: the sense is not reversed at the end of a lap. *)
IncTailSameSense ==
  /\ pc = "written"
  /\ tail' = IF tail + 1 >= numEntries THEN 0 ELSE tail + 1
  /\ is_full' = (is_full \/ tail' = senders_head)
  /\ pc' = "idle"
  /\ UNCHANGED <<mem, senders_head, buffer_sr, sr_vector, head, sent, received, credited>>

IncTail ==
  /\ pc = "written"
  /\ tail' = IF tail + 1 >= numEntries THEN 0 ELSE tail + 1
  /\ buffer_sr' = IF tail + 1 >= numEntries THEN ~buffer_sr ELSE buffer_sr
  /\ is_full' = (is_full \/ tail' = senders_head)
  /\ pc' = "idle"
  /\ UNCHANGED <<mem, senders_head, sr_vector, head, sent, received, credited>>

(* Mutant: applying a credit does not clear is_full. *)
UpdateSendersHeadStillFull(inc) ==
  /\ pc = "idle"
  /\ credited + inc <= received
  /\ senders_head' = IF senders_head + inc >= numEntries THEN 0
                     ELSE senders_head + inc
  /\ credited' = credited + inc
  /\ UNCHANGED <<mem, tail, is_full, buffer_sr, sr_vector, pc, head, sent, received>>

(* flowControlUpdateSendersHead *)
UpdateSendersHead(inc) ==
  /\ pc = "idle"
  /\ credited + inc <= received
  /\ senders_head' = IF senders_head + inc >= numEntries THEN 0
                     ELSE senders_head + inc
  /\ is_full' = (is_full /\ tail = senders_head')
  /\ credited' = credited + inc
  /\ UNCHANGED <<mem, tail, buffer_sr, sr_vector, pc, head, sent, received>>

-----------------------------------------------------------------------------
(* Mutant: the head wraps one entry early. *)
incHeadEarly(h) == IF h + 2 >= numEntries THEN 0 ELSE h + 1

(* incHeadAfterMsgProcessed *)
incHead(h) == IF h + 1 >= numEntries THEN 0 ELSE h + 1

(* The receiver polls the entry at head, processes a message it finds      *)
(* there, zeroes the entry and moves on: pollOnBufferNumber,               *)
(* zeroOutRBufHead, incrementBufferHead.                                   *)
ProcessHead ==
  /\ mem[head] # 0
  /\ mem' = [mem EXCEPT ![head] = 0]
  /\ head' = incHead(head)
  /\ received' = received + 1
  /\ UNCHANGED <<senderVars, pc, sent, credited>>

-----------------------------------------------------------------------------
Next ==
  \/ WriteEntry
  \/ IncTail
  \/ \E inc \in Increments : UpdateSendersHead(inc)
  \/ ProcessHead

Spec == Init /\ [][Next]_vars
-----------------------------------------------------------------------------
(* Type invariant of both copies and the memory they share.                *)
TypeOK ==
  /\ mem \in [Entries -> Nat]
  /\ tail \in Entries /\ senders_head \in Entries /\ head \in Entries
  /\ is_full \in BOOLEAN /\ buffer_sr \in BOOLEAN
  /\ sr_vector \in [Entries -> BOOLEAN]
  /\ pc \in {"idle", "written"}
  /\ sent \in Nat /\ received \in Nat /\ credited \in Nat

(* Every entry the sender passed on this lap carries its sense, every      *)
(* other entry the opposite one.                                           *)
SenseSplitsAtTail ==
  \A e \in Entries :
    (sr_vector[e] = buffer_sr) <=> (e < tail \/ (e = tail /\ pc = "written"))

(* The assertion at the end of incTail holds: the entry the new tail       *)
(* points to was last written on the previous lap.                         *)
IncTailAssertion == pc = "idle" => sr_vector[tail] # buffer_sr

(* The inductive invariant behind IncTailAssertion.                        *)
SenseInv == TypeOK /\ SenseSplitsAtTail

(* Messages that were written and not processed are all in the ring, in    *)
(* order, starting at the receiver's head, and the other entries are zero: *)
(* no unread message is overwritten or skipped, although the sender knows  *)
(* of free entries only through credits that arrive late.                  *)
NothingOverwritten ==
  /\ \A k \in 1 .. sent - received : mem[(head + k - 1) % numEntries] = received + k
  /\ \A k \in sent - received + 1 .. numEntries :
       mem[(head + k - 1) % numEntries] = 0

outstanding == sent - credited

(* The sender's view: senders_head is where the credits have come to,      *)
(* is_full says exactly when no credit is left, and otherwise              *)
(* getAvailSlots counts the credits.  A write counts from incTail on.      *)
ViewExact ==
  LET used == IF pc = "written" THEN outstanding - 1 ELSE outstanding
  IN  /\ senders_head = credited % numEntries
      /\ is_full <=> used = numEntries
      /\ ~is_full => getAvailSlots = numEntries - used

(* incSendersHeadToFreeSpace goes to entry 0 whenever a credit passes the  *)
(* end of the ring, also when a credit for several entries should have     *)
(* gone further; and a credit for the whole ring at once leaves            *)
(* senders_head, and so is_full, as they were.                             *)
CreditMisapplied ==
  LET inc == credited' - credited
  IN  inc > 0 /\ (senders_head + inc > numEntries \/ inc = numEntries)

(* Nothing else makes the sender's view wrong: with credits of any size it *)
(* is exact until such a credit is applied.                                *)
SendersViewExact ==
  ViewExact /\ [][ViewExact /\ ~CreditMisapplied => ViewExact']_vars

(* What the comment on getAvailSlots says of it: it tells how many entries *)
(* are free.                                                               *)
AvailSlotsExact == pc = "idle" => getAvailSlots = numEntries - outstanding
=============================================================================
