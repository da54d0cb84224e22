------------------------------ MODULE OneSided ------------------------------
(***************************************************************************)
(* The one-sided message path of rpc.cpp: threads of client nodes write    *)
(* messages with remoteBufferWrite into circular buffers that lie in the   *)
(* memory context (pgas) of a server, and the server's threads poll them.  *)
(* setupCircularBuffers lays the buffers out one after the other,          *)
(* getCBufIdx gives every (client, client thread, server thread) its       *)
(* buffer, and every process keeps copies of its own of all the buffer     *)
(* objects.  The module composes this layout with the rings; the sense     *)
(* bits and the free-space bookkeeping of one ring are CircularBuffer.     *)
(*                                                                         *)
(* remoteBufferWrite looks at getAvailSlots but writes whatever it says    *)
(* (at most it sleeps first), so that bookkeeping decides nothing here.    *)
(* What keeps a ring from overflowing is its caller: a client thread has   *)
(* at most WINDOW messages outstanding.  The caller, and the loop of the   *)
(* server over its buffers, are not in the repository.                     *)
(***************************************************************************)
EXTENDS Integers, Sequences, FiniteSets

CONSTANTS
  totalNodeCount,    \* the server (node 0) and its clients
  threadsPerClient,
  ServThreads,       \* number of server threads
  numEntries,        \* entries of a buffer; MSGS_PER_PAIR (256) in the code
  WINDOW,            \* messages a caller keeps outstanding
  MaxMsgs,           \* bound: messages per sender
  MaxShape           \* bound: clients and threads in LayoutExact

ASSUME OneSidedAssumption ==
  /\ {totalNodeCount - 1, threadsPerClient, ServThreads, numEntries, WINDOW}
       \subseteq Nat \ {0}
  /\ {MaxMsgs, MaxShape} \subseteq Nat

getNumClients == totalNodeCount - 1

(* A channel: client node, thread of the client, thread of the server;     *)
(* with n clients that have t threads each.                                *)
ChannelsOf(n, t) == (1 .. n) \X (0 .. t - 1) \X (0 .. ServThreads - 1)
Channels         == ChannelsOf(getNumClients, threadsPerClient)

(* setupCircularBuffers: one buffer for each sender and receiver.  Memory  *)
(* is counted in entries; an entry is a page (EMULATOR_SW_PAGE_SIZE).      *)
numBuffers             == (getNumClients * threadsPerClient) * ServThreads
Buffers                == 0 .. numBuffers - 1
GetReservedMemoryBytes == numEntries
basePointer(b)         == b * GetReservedMemoryBytes
Memory                 == 0 .. numBuffers * numEntries - 1
ZERO                   == <<>>

(* Mutant: clients are not shifted to start from 0. *)
bufIdxUnshifted(n, t, c) == c[3] * (n * t) + (c[1] * n + c[2])

(* getCBufIdx, with n clients that have t threads each. *)
bufIdx(n, t, c) == c[3] * (n * t) + ((c[1] - 1) * n + c[2])

getCBufIdx(c) == bufIdx(getNumClients, threadsPerClient, c)

(* The buffers of server thread s, which it polls. *)
RegionOf(n, t, s) == s * (n * t) .. (s + 1) * (n * t) - 1
ServerRegion(s)   == RegionOf(getNumClients, threadsPerClient, s)

VARIABLES
  active,    \* the channels in use
  mem,       \* page of pgas -> message in it, ZERO when zeroed
  tail,      \* client node, buffer -> tail of that node's copy of the buffer
  pc,        \* channel -> "idle", or "written" between the write and incTail
  head,      \* buffer -> head of the server's copy
  sent,      \* channel -> messages written
  credited,  \* channel -> messages the caller knows to be processed
  got        \* history: buffer -> messages the server processed from it

vars == <<active, mem, tail, pc, head, sent, credited, got>>

(* Any two channels can be in use together. *)
Init ==
  /\ active \in {A \in SUBSET Channels : Cardinality(A) = 2}
  /\ mem = [a \in Memory |-> ZERO]
  /\ tail = [nb \in (1 .. getNumClients) \X Buffers |-> 0]
  /\ pc = [c \in Channels |-> "idle"]
  /\ head = [b \in Buffers |-> 0]
  /\ sent = [c \in Channels |-> 0]
  /\ credited = [c \in Channels |-> 0]
  /\ got = [b \in Buffers |-> <<>>]

-----------------------------------------------------------------------------
(* remoteBufferWrite, up to the remote write.  circ_buffers.at throws for  *)
(* a buffer that does not exist: nothing is written then.                  *)
RemoteBufferWrite(c) ==
  LET b == getCBufIdx(c)
      tailAddress == basePointer(b) + tail[<<c[1], b>>]
  IN  /\ pc[c] = "idle"
      /\ sent[c] - credited[c] < WINDOW
      /\ sent[c] < MaxMsgs
      /\ b \in Buffers
      /\ mem' = [mem EXCEPT ![tailAddress] = <<c, sent[c] + 1>>]
      /\ sent' = [sent EXCEPT ![c] = @ + 1]
      /\ pc' = [pc EXCEPT ![c] = "written"]
      /\ UNCHANGED <<active, tail, head, credited, got>>

(* Mutant: the tail wraps one entry early. *)
incTailEarly(t) == IF t + 1 >= numEntries - 1 THEN 0 ELSE t + 1

incTail(t) == IF t + 1 >= numEntries THEN 0 ELSE t + 1

(* ... and the rest of it. *)
IncTail(c) ==
  /\ pc[c] = "written"
  /\ tail' = [tail EXCEPT ![<<c[1], getCBufIdx(c)>>] = incTail(@)]
  /\ pc' = [pc EXCEPT ![c] = "idle"]
  /\ UNCHANGED <<active, mem, head, sent, credited, got>>

incHeadAfterMsgProcessed(h) == IF h + 1 >= numEntries THEN 0 ELSE h + 1

(* Mutant: the entry is not zeroed. *)
ProcessHeadNoZero(b) ==
  LET headAddress == basePointer(b) + head[b]
  IN  /\ mem[headAddress] # ZERO
      /\ got' = [got EXCEPT ![b] = Append(@, mem[headAddress])]
      /\ head' = [head EXCEPT ![b] = incHeadAfterMsgProcessed(@)]
      /\ UNCHANGED <<active, mem, tail, pc, sent, credited>>

(* pollOnBufferNumber, zeroOutRBufHead, incrementBufferHead *)
ProcessHead(b) ==
  LET headAddress == basePointer(b) + head[b]
  IN  /\ mem[headAddress] # ZERO
      /\ got' = [got EXCEPT ![b] = Append(@, mem[headAddress])]
      /\ mem' = [mem EXCEPT ![headAddress] = ZERO]
      /\ head' = [head EXCEPT ![b] = incHeadAfterMsgProcessed(@)]
      /\ UNCHANGED <<active, tail, pc, sent, credited>>

(* The answer to a message of channel c comes back (external). *)
Credit(c) ==
  /\ \E k \in 1 .. Len(got[getCBufIdx(c)]) :
       got[getCBufIdx(c)][k] = <<c, credited[c] + 1>>
  /\ credited' = [credited EXCEPT ![c] = @ + 1]
  /\ UNCHANGED <<active, mem, tail, pc, head, sent, got>>

-----------------------------------------------------------------------------
ServerStep(s) == \E b \in ServerRegion(s) : ProcessHead(b)

Next ==
  \/ \E c \in active : RemoteBufferWrite(c) \/ IncTail(c) \/ Credit(c)
  \/ \E s \in 0 .. ServThreads - 1 : ServerStep(s)

Spec == Init /\ [][Next]_vars

(* A call of remoteBufferWrite that has begun keeps running, and a server  *)
(* thread polls all its buffers for ever.                                  *)
FairSpec ==
  /\ Spec
  /\ \A c \in Channels : WF_vars(IncTail(c))
  /\ \A s \in 0 .. ServThreads - 1 : \A b \in ServerRegion(s) : WF_vars(ProcessHead(b))
-----------------------------------------------------------------------------
(* Every channel has a buffer of its own, in the region of its server      *)
(* thread, when n clients have t threads each.                             *)
LayoutRight(n, t) ==
  /\ \A c \in ChannelsOf(n, t) : bufIdx(n, t, c) \in RegionOf(n, t, c[3])
  /\ \A c, d \in ChannelsOf(n, t) : bufIdx(n, t, c) = bufIdx(n, t, d) => c = d

(* A client's part of a region has one buffer for each of its threads, but *)
(* getCBufIdx multiplies by the number of clients to find it.              *)
LayoutExact == \A n, t \in 1 .. MaxShape : LayoutRight(n, t) <=> n = 1 \/ n = t

(* The layout of getCBufIdx's comment: it is right exactly when there are  *)
(* as many threads per client as clients, or only one client; and then, at *)
(* work, a server thread finds in its own buffers only messages for        *)
(* itself, and a buffer only ever holds messages of one sender.            *)
MessagesInRegion ==
  /\ LayoutExact
  /\ \A b \in Buffers :
       LET held == {mem[basePointer(b) + e] : e \in 0 .. numEntries - 1} \ {ZERO}
       IN  /\ \A m \in held : b \in ServerRegion(m[1][3])
           /\ Cardinality({m[1] : m \in held}) <= 1

(* Every channel delivers its messages in order, each once and none        *)
(* missing: although all rings lie in one memory, and sender and server    *)
(* share no index, no ring writes into another and none overtakes its      *)
(* reader.                                                                 *)
ChannelsFifo ==
  \A c \in active :
    getCBufIdx(c) \in Buffers =>
      \A k \in 1 .. Len(got[getCBufIdx(c)]) : got[getCBufIdx(c)][k] = <<c, k>>

(* Every message written is processed. *)
MessagesDelivered ==
  \A c \in Channels : \A n \in 1 .. MaxMsgs :
    (sent[c] >= n) ~> (Len(got[getCBufIdx(c)]) >= n)

=============================================================================
