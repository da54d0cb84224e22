--------------------------- MODULE OneSidedProofs ---------------------------
(***************************************************************************)
(* Proofs about OneSided: for which numbers of clients and threads the     *)
(* layout of getCBufIdx is right, that the messages then stay in the       *)
(* buffers of their channels, and that every channel is a queue.           *)
(***************************************************************************)
EXTENDS OneSided, FiniteSetTheorems, TLAPS

-----------------------------------------------------------------------------
(* Arithmetic. *)

(* Products grow with their factors. *)
LEMMA ProductGrows ==
  ASSUME NEW m \in Nat, NEW x \in Nat, NEW y \in Nat, x < y
  PROVE  x * m + m <= y * m /\ x * m \in Nat /\ y * m \in Nat
<1>1. PICK d \in Nat : y = x + 1 + d
  <2>1. y - x - 1 \in Nat /\ y = x + 1 + (y - x - 1)
    OBVIOUS
  <2> QED
    BY <2>1
<1>2. y * m = x * m + m + d * m
  BY <1>1
<1>3. d * m \in Nat /\ x * m \in Nat /\ y * m \in Nat
  OBVIOUS
<1> QED
  BY <1>2, <1>3

(* A number of two digits of base m tells its digits. *)
LEMMA Digits ==
  ASSUME NEW m \in Nat, NEW x \in Nat, NEW y \in Nat,
         NEW r \in 0 .. m - 1, NEW q \in 0 .. m - 1, x * m + r = y * m + q
  PROVE  x = y /\ r = q
<1>1. x * m \in Nat /\ y * m \in Nat
  OBVIOUS
<1>2. CASE x < y
  BY <1>1, <1>2, ProductGrows
<1>3. CASE y < x
  BY <1>1, <1>3, ProductGrows
<1>4. CASE x = y
  <2>1. x * m = y * m
    BY <1>4
  <2> QED
    BY <1>1, <1>4, <2>1
<1> QED
  BY <1>2, <1>3, <1>4

(* A number of two digits is below the next power. *)
LEMMA DigitsBelow ==
  ASSUME NEW m \in Nat, NEW n \in Nat, NEW x \in 0 .. n - 1, NEW r \in 0 .. m - 1
  PROVE  x * m + r \in 0 .. n * m - 1
<1>1. x * m + m <= n * m /\ x * m \in Nat /\ n * m \in Nat
  BY ProductGrows
<1> QED
  BY <1>1

-----------------------------------------------------------------------------
(* The layout. *)

(* The constants are what the code says they are. *)
LEMMA Constants ==
  /\ getNumClients \in Nat \ {0} /\ threadsPerClient \in Nat \ {0}
  /\ ServThreads \in Nat \ {0} /\ numEntries \in Nat \ {0} /\ WINDOW \in Nat \ {0}
  /\ MaxMsgs \in Nat /\ MaxShape \in Nat
BY OneSidedAssumption DEF getNumClients

(* The place of a channel among the buffers of its server thread. *)
offset(n, c) == (c[1] - 1) * n + c[2]

(* A layout is right if the places of the channels of one server thread    *)
(* are different and inside its region.                                    *)
LEMMA RightIfPlaced ==
  ASSUME NEW n \in Nat \ {0}, NEW t \in Nat \ {0},
         \A c \in ChannelsOf(n, t) : offset(n, c) \in 0 .. n * t - 1,
         \A c, d \in ChannelsOf(n, t) :
           offset(n, c) = offset(n, d) => c[1] = d[1] /\ c[2] = d[2]
  PROVE  LayoutRight(n, t)
<1>1. n * t \in Nat
  OBVIOUS
<1> DEFINE m == n * t
<1>2. \A c \in ChannelsOf(n, t) : /\ bufIdx(n, t, c) = c[3] * m + offset(n, c) /\ c[3] \in Nat
                                  /\ offset(n, c) \in 0 .. m - 1
  BY Constants DEF ChannelsOf, bufIdx, offset
<1> HIDE DEF m
<1>3. m \in Nat
  BY <1>1 DEF m
<1>4. ASSUME NEW c \in ChannelsOf(n, t) PROVE bufIdx(n, t, c) \in RegionOf(n, t, c[3])
  <2>1. c[3] * m + m <= (c[3] + 1) * m /\ c[3] * m \in Nat /\ (c[3] + 1) * m \in Nat
    BY <1>2, <1>3, ProductGrows
  <2>2. c[3] * m + offset(n, c) \in c[3] * m .. (c[3] + 1) * m - 1
    BY <1>2, <1>3, <2>1
  <2> QED
    BY <1>2, <2>2 DEF RegionOf, m
<1>5. ASSUME NEW c \in ChannelsOf(n, t), NEW d \in ChannelsOf(n, t),
             bufIdx(n, t, c) = bufIdx(n, t, d)
      PROVE  c = d
  <2> DEFINE x == c[3]
             y == d[3]
             r == offset(n, c)
             q == offset(n, d)
  <2>1. x * m + r = y * m + q /\ x \in Nat /\ y \in Nat /\ r \in 0 .. m - 1 /\ q \in 0 .. m - 1
    BY <1>2, <1>5
  <2> HIDE DEF x, y, r, q
  <2>2. x = y /\ r = q
    BY <1>3, <2>1, Digits
  <2>3. c[3] = d[3] /\ c[1] = d[1] /\ c[2] = d[2]
    BY <2>2 DEF x, y, r, q
  <2> QED
    BY <2>3 DEF ChannelsOf
<1> QED
  BY <1>4, <1>5 DEF LayoutRight

(* getCBufIdx gives every channel a buffer of its own in the region of its *)
(* server thread exactly when there is one client or there are as many     *)
(* threads per client as clients.                                          *)
LEMMA LayoutShape ==
  ASSUME NEW n \in Nat \ {0}, NEW t \in Nat \ {0}
  PROVE  LayoutRight(n, t) <=> n = 1 \/ n = t
<1>1. CASE n = 1
  <2>1. \A c \in ChannelsOf(n, t) :
          c[1] = 1 /\ c[2] \in 0 .. t - 1 /\ offset(n, c) = c[2] /\ n * t = t
    BY <1>1 DEF ChannelsOf, offset
  <2>2. LayoutRight(n, t)
    BY <2>1, RightIfPlaced
  <2> QED
    BY <1>1, <2>2
<1>2. CASE n = t
  <2>1. \A c \in ChannelsOf(n, t) : c[1] \in 1 .. n /\ c[1] - 1 \in 0 .. n - 1 /\ c[2] \in 0 .. n - 1
    BY <1>2 DEF ChannelsOf
  <2>2. ASSUME NEW c \in ChannelsOf(n, t) PROVE offset(n, c) \in 0 .. n * t - 1
    BY <1>2, <2>1, DigitsBelow DEF offset
  <2>3. ASSUME NEW c \in ChannelsOf(n, t), NEW d \in ChannelsOf(n, t),
               offset(n, c) = offset(n, d)
        PROVE  c[1] = d[1] /\ c[2] = d[2]
    <3> DEFINE x == c[1] - 1
               y == d[1] - 1
               r == c[2]
               q == d[2]
    <3>1. /\ x * n + r = y * n + q /\ x \in Nat /\ y \in Nat
          /\ r \in 0 .. n - 1 /\ q \in 0 .. n - 1
      BY <2>1, <2>3 DEF offset
    <3> HIDE DEF x, y, r, q
    <3>2. x = y /\ r = q
      BY <3>1, Digits
    <3> QED
      BY <2>1, <3>2 DEF x, y, r, q
  <2>4. LayoutRight(n, t)
    BY <2>2, <2>3, RightIfPlaced
  <2> QED
    BY <1>2, <2>4
<1>3. CASE n # 1 /\ n < t
  <2> DEFINE c == <<1, n, 0>>
             d == <<2, 0, 0>>
  <2>1. c \in ChannelsOf(n, t) /\ d \in ChannelsOf(n, t) /\ c # d
    BY <1>3, Constants DEF ChannelsOf
  <2>2. bufIdx(n, t, c) = bufIdx(n, t, d)
    BY DEF bufIdx
  <2>3. ~LayoutRight(n, t)
    BY <2>1, <2>2 DEF LayoutRight
  <2> QED
    BY <1>3, <2>3
<1>4. CASE n # 1 /\ t < n
  <2> DEFINE c == <<n, 0, 0>>
  <2>1. c \in ChannelsOf(n, t) /\ c[3] = 0
    BY Constants DEF ChannelsOf
  <2>2. bufIdx(n, t, c) = (n - 1) * n
    BY DEF bufIdx
  <2>3. t * n <= (n - 1) * n
    <3>1. t = n - 1 \/ (t < n - 1 /\ n - 1 \in Nat)
      BY <1>4
    <3>2. CASE t = n - 1
      BY <3>2
    <3>3. CASE t < n - 1 /\ n - 1 \in Nat
      BY <3>3, ProductGrows
    <3> QED
      BY <3>1, <3>2, <3>3
  <2>4. RegionOf(n, t, 0) = 0 .. t * n - 1
    BY DEF RegionOf
  <2>5. bufIdx(n, t, c) \notin RegionOf(n, t, c[3])
    BY <2>1, <2>2, <2>3, <2>4
  <2>6. ~LayoutRight(n, t)
    BY <2>1, <2>5 DEF LayoutRight
  <2> QED
    BY <1>4, <2>6
<1> QED
  BY <1>1, <1>2, <1>3, <1>4

(* The layout of getCBufIdx is right for one client, or as many threads    *)
(* per client as clients, and for no other numbers of clients and threads. *)
THEOREM LayoutIsExact == LayoutExact
BY LayoutShape, Constants DEF LayoutExact

(* The shapes for which the layout is right. *)
Shape == getNumClients = 1 \/ getNumClients = threadsPerClient

(* The buffers of a server thread exist. *)
LEMMA RegionInBuffers ==
  ASSUME NEW s \in 0 .. ServThreads - 1, NEW b \in ServerRegion(s)
  PROVE  b \in Buffers
<1> DEFINE m == getNumClients * threadsPerClient
<1>1. m \in Nat /\ s \in Nat /\ ServThreads \in Nat
  BY Constants
<1>2. b \in s * m .. (s + 1) * m - 1 /\ Buffers = 0 .. m * ServThreads - 1
  BY DEF ServerRegion, RegionOf, Buffers, numBuffers
<1> HIDE DEF m
<1>3. s * m \in Nat /\ (s + 1) * m = s * m + m
  BY <1>1
<1>4. s * m + m <= ServThreads * m /\ ServThreads * m = m * ServThreads
  BY <1>1, ProductGrows
<1>5. m * ServThreads \in Nat
  BY <1>1
<1> QED
  BY <1>1, <1>2, <1>3, <1>4, <1>5

(* With a right layout every channel has a buffer of its own.              *)
LEMMA ChannelBuffers ==
  ASSUME Shape
  PROVE  /\ \A c \in Channels : /\ getCBufIdx(c) \in ServerRegion(c[3])
                                /\ getCBufIdx(c) \in Buffers
                                /\ c[1] \in 1 .. getNumClients
         /\ \A c, d \in Channels : getCBufIdx(c) = getCBufIdx(d) => c = d
<1>1. LayoutRight(getNumClients, threadsPerClient)
  BY LayoutShape, Constants DEF Shape
<1>2. ASSUME NEW c \in Channels
      PROVE  getCBufIdx(c) \in ServerRegion(c[3]) /\ c[3] \in 0 .. ServThreads - 1
               /\ c[1] \in 1 .. getNumClients
  BY <1>1 DEF LayoutRight, Channels, getCBufIdx, ServerRegion, ChannelsOf
<1>3. \A c, d \in Channels : getCBufIdx(c) = getCBufIdx(d) => c = d
  BY <1>1 DEF LayoutRight, Channels, getCBufIdx
<1> QED
  BY <1>2, <1>3, RegionInBuffers

Entries     == 0 .. numEntries - 1
page(b, e)  == basePointer(b) + e

(* The pages of the buffers are in memory ... *)
LEMMA PageInMemory == \A b \in Buffers, e \in Entries : page(b, e) \in Memory
<1> SUFFICES ASSUME NEW b \in Buffers, NEW e \in Entries PROVE page(b, e) \in Memory
  OBVIOUS
<1>1. numEntries \in Nat /\ numBuffers \in Nat
  BY Constants DEF numBuffers
<1>2. b \in 0 .. numBuffers - 1 /\ e \in 0 .. numEntries - 1
  BY DEF Buffers, Entries
<1>3. b * numEntries + e \in 0 .. numBuffers * numEntries - 1
  BY <1>1, <1>2, DigitsBelow
<1> QED
  BY <1>3 DEF page, basePointer, GetReservedMemoryBytes, Memory

(* ... and different. *)
LEMMA PagesDiffer ==
  ASSUME NEW b \in Buffers, NEW d \in Buffers, NEW e \in Entries, NEW f \in Entries,
         page(b, e) = page(d, f)
  PROVE  b = d /\ e = f
<1>1. /\ numEntries \in Nat /\ b \in Nat /\ d \in Nat
      /\ e \in 0 .. numEntries - 1 /\ f \in 0 .. numEntries - 1
  BY Constants DEF Entries, Buffers
<1>2. b * numEntries + e = d * numEntries + f
  BY DEF page, basePointer, GetReservedMemoryBytes
<1> QED
  BY <1>1, <1>2, Digits

-----------------------------------------------------------------------------
(* What the memory and the indices of the rings can be. *)
Messages == Channels \X Nat

Types ==
  /\ active \subseteq Channels
  /\ mem \in [Memory -> {ZERO} \cup Messages]
  /\ tail \in [(1 .. getNumClients) \X Buffers -> Entries]
  /\ pc \in [Channels -> {"idle", "written"}]
  /\ head \in [Buffers -> Entries]
  /\ sent \in [Channels -> Nat] /\ credited \in [Channels -> Nat]
  /\ got \in [Buffers -> Seq(Messages)]

(* A message is in the buffer of its channel. *)
Placed ==
  \A b \in Buffers, e \in Entries :
    mem[page(b, e)] # ZERO => getCBufIdx(mem[page(b, e)][1]) = b

(* A message is not an empty page. *)
LEMMA MessageNotZero == ZERO \notin Messages /\ \A m \in Messages : m[1] \in Channels
<1>1. \A m \in Messages : m = <<m[1], m[2]>> /\ m[1] \in Channels
  BY DEF Messages
<1>2. \A a, b : <<a, b>> # <<>>
  OBVIOUS
<1> QED
  BY <1>1, <1>2 DEF ZERO

(* The next place in a ring. *)
LEMMA NextEntry ==
  ASSUME NEW t \in Entries
  PROVE  incTail(t) \in Entries /\ incHeadAfterMsgProcessed(t) \in Entries
BY Constants DEF Entries, incTail, incHeadAfterMsgProcessed

(* At the start all is empty. *)
LEMMA PlacedInit == Init => Types /\ Placed
<1> SUFFICES ASSUME Init PROVE Types /\ Placed
  OBVIOUS
<1>1. /\ mem = [a \in Memory |-> ZERO] /\ active \subseteq Channels
      /\ tail = [nb \in (1 .. getNumClients) \X Buffers |-> 0]
      /\ pc = [c \in Channels |-> "idle"] /\ head = [b \in Buffers |-> 0]
      /\ sent = [c \in Channels |-> 0] /\ credited = [c \in Channels |-> 0]
  BY DEF Init
<1>2. got = [b \in Buffers |-> <<>>]
  BY DEF Init
<1>3. 0 \in Entries
  BY Constants DEF Entries
<1>4. <<>> \in Seq(Messages)
  OBVIOUS
<1>5. got \in [Buffers -> Seq(Messages)]
  BY <1>2, <1>4
<1>6. Types
  BY <1>1, <1>3, <1>5 DEF Types
<1>7. Placed
  BY <1>1, PageInMemory DEF Placed
<1> QED
  BY <1>6, <1>7

(* remoteBufferWrite writes into the buffer of its channel. *)
LEMMA WritePlaced ==
  ASSUME Shape, Types, Placed, NEW c \in active, RemoteBufferWrite(c)
  PROVE  /\ Types' /\ Placed'
         /\ tail[<<c[1], getCBufIdx(c)>>] \in Entries
         /\ \A b \in Buffers, e \in Entries :
              mem'[page(b, e)] = IF b = getCBufIdx(c) /\ e = tail[<<c[1], b>>]
                                   THEN <<c, sent[c] + 1>> ELSE mem[page(b, e)]
<1> DEFINE b0 == getCBufIdx(c)
           e0 == tail[<<c[1], b0>>]
           m0 == <<c, sent[c] + 1>>
<1>1. /\ c \in Channels /\ b0 \in Buffers /\ c[1] \in 1 .. getNumClients
      /\ mem' = [mem EXCEPT ![page(b0, e0)] = m0]
      /\ sent' = [sent EXCEPT ![c] = @ + 1]
      /\ pc' = [pc EXCEPT ![c] = "written"]
      /\ UNCHANGED <<active, tail, head, credited, got>>
  BY ChannelBuffers DEF Types, RemoteBufferWrite, page
<1>2. e0 \in Entries /\ m0 \in Messages /\ sent[c] + 1 \in Nat
  BY <1>1 DEF Types, Messages
<1> HIDE DEF e0, m0
<1>3. page(b0, e0) \in Memory
  BY <1>1, <1>2, PageInMemory
<1>4. Types'
  BY <1>1, <1>2, <1>3 DEF Types
<1>5. ASSUME NEW b \in Buffers, NEW e \in Entries
      PROVE  mem'[page(b, e)] = IF b = b0 /\ e = e0 THEN m0 ELSE mem[page(b, e)]
  <2>1. page(b, e) \in Memory /\ (page(b, e) = page(b0, e0) => b = b0 /\ e = e0)
    BY <1>1, <1>2, PageInMemory, PagesDiffer
  <2> QED
    BY <1>1, <1>3, <2>1 DEF Types
<1>6. Placed'
  <2>1. m0[1] = c
    BY DEF m0
  <2> QED
    BY <1>5, <2>1 DEF Placed
<1>7. ASSUME NEW b \in Buffers, NEW e \in Entries
      PROVE  mem'[page(b, e)] = IF b = getCBufIdx(c) /\ e = tail[<<c[1], b>>]
                                  THEN <<c, sent[c] + 1>> ELSE mem[page(b, e)]
  <2>1. CASE b = b0
    BY <1>5, <2>1 DEF e0, m0
  <2>2. CASE b # b0
    BY <1>5, <2>2
  <2> QED
    BY <2>1, <2>2
<1> QED
  BY <1>2, <1>4, <1>6, <1>7 DEF e0

(* The server reads and zeroes a page of the buffer it polls. *)
LEMMA ProcessPlaced ==
  ASSUME Types, Placed, NEW b \in Buffers, ProcessHead(b)
  PROVE  /\ Types' /\ Placed'
         /\ head[b] \in Entries /\ mem[page(b, head[b])] # ZERO
         /\ got' = [got EXCEPT ![b] = Append(@, mem[page(b, head[b])])]
         /\ \A d \in Buffers, e \in Entries :
              mem'[page(d, e)] = IF d = b /\ e = head[b] THEN ZERO ELSE mem[page(d, e)]
<1> DEFINE e0 == head[b]
           m0 == mem[page(b, e0)]
<1>1. /\ m0 # ZERO /\ got' = [got EXCEPT ![b] = Append(@, m0)]
      /\ mem' = [mem EXCEPT ![page(b, e0)] = ZERO]
      /\ head' = [head EXCEPT ![b] = incHeadAfterMsgProcessed(@)]
      /\ UNCHANGED <<active, tail, pc, sent, credited>>
  BY DEF ProcessHead, page
<1>2. e0 \in Entries
  BY DEF Types
<1> HIDE DEF e0
<1>3. page(b, e0) \in Memory /\ m0 \in Messages
  BY <1>1, <1>2, PageInMemory DEF Types
<1> HIDE DEF m0
<1>4. got' \in [Buffers -> Seq(Messages)]
  <2>1. got[b] \in Seq(Messages) /\ Append(got[b], m0) \in Seq(Messages)
    BY <1>3 DEF Types
  <2> QED
    BY <1>1, <2>1 DEF Types
<1>5. head' \in [Buffers -> Entries] /\ mem' \in [Memory -> {ZERO} \cup Messages]
  BY <1>1, <1>3, NextEntry DEF Types
<1>6. Types'
  BY <1>1, <1>4, <1>5 DEF Types
<1>7. ASSUME NEW d \in Buffers, NEW e \in Entries
      PROVE  mem'[page(d, e)] = IF d = b /\ e = e0 THEN ZERO ELSE mem[page(d, e)]
  <2>1. page(d, e) \in Memory /\ (page(d, e) = page(b, e0) => d = b /\ e = e0)
    BY <1>2, PageInMemory, PagesDiffer
  <2> QED
    BY <1>1, <1>3, <2>1 DEF Types
<1>8. Placed'
  BY <1>7 DEF Placed
<1> QED
  BY <1>1, <1>2, <1>6, <1>7, <1>8 DEF e0, m0

(* The other two steps leave the memory alone. *)
LEMMA IndexPlaced ==
  ASSUME Shape, Types, Placed, NEW c \in active, IncTail(c) \/ Credit(c)
  PROVE  Types' /\ Placed'
<1>1. UNCHANGED <<active, mem, head, sent, got>> /\ c \in Channels
  BY DEF IncTail, Credit, Types
<1>2. Placed'
  BY <1>1 DEF Placed
<1>3. CASE IncTail(c)
  <2>1. <<c[1], getCBufIdx(c)>> \in (1 .. getNumClients) \X Buffers
    BY <1>1, ChannelBuffers
  <2>2. /\ tail' = [tail EXCEPT ![<<c[1], getCBufIdx(c)>>] = incTail(@)]
        /\ pc' = [pc EXCEPT ![c] = "idle"] /\ credited' = credited
    BY <1>3 DEF IncTail
  <2>3. tail' \in [(1 .. getNumClients) \X Buffers -> Entries]
    BY <2>1, <2>2, NextEntry DEF Types
  <2> QED
    BY <1>1, <1>2, <2>2, <2>3 DEF Types
<1>4. CASE Credit(c)
  BY <1>1, <1>2, <1>4 DEF Credit, Types
<1> QED
  BY <1>3, <1>4

(* Every step keeps the messages in their buffers. *)
LEMMA PlacedStep ==
  ASSUME Shape
  PROVE  Types /\ Placed /\ [Next]_vars => Types' /\ Placed'
<1> SUFFICES ASSUME Types, Placed, [Next]_vars PROVE Types' /\ Placed'
  OBVIOUS
<1>1. ASSUME NEW s \in 0 .. ServThreads - 1, ServerStep(s) PROVE Types' /\ Placed'
  BY <1>1, RegionInBuffers, ProcessPlaced DEF ServerStep
<1>2. ASSUME UNCHANGED vars PROVE Types' /\ Placed'
  BY <1>2 DEF vars, Types, Placed
<1> QED
  BY <1>1, <1>2, WritePlaced, IndexPlaced DEF Next

(* When there is one client, or as many threads per client as clients, a   *)
(* server thread finds in its own buffers only messages for itself, and a  *)
(* buffer only ever holds messages of one sender, whatever the window.     *)
THEOREM MessagesStayInRegion ==
  ASSUME Shape PROVE Spec => []MessagesInRegion
<1>1. Types /\ Placed => MessagesInRegion
  <2> SUFFICES ASSUME Types, Placed, NEW b \in Buffers
               PROVE  LET held == {mem[basePointer(b) + e] : e \in 0 .. numEntries - 1} \ {ZERO}
                      IN  /\ \A m \in held : b \in ServerRegion(m[1][3])
                          /\ Cardinality({m[1] : m \in held}) <= 1
    BY LayoutIsExact DEF MessagesInRegion
  <2> DEFINE held == {mem[basePointer(b) + e] : e \in 0 .. numEntries - 1} \ {ZERO}
             senders == {m[1] : m \in held}
  <2>1. ASSUME NEW m \in held PROVE m[1] \in Channels /\ getCBufIdx(m[1]) = b
    <3>1. PICK e \in Entries : m = mem[page(b, e)]
      BY <2>1 DEF Entries, page
    <3>2. m \in Messages
      BY <2>1, <3>1, PageInMemory DEF Types
    <3> QED
      BY <2>1, <3>1, <3>2, MessageNotZero DEF Placed
  <2>2. \A m \in held : b \in ServerRegion(m[1][3])
    BY <2>1, ChannelBuffers
  <2>3. Cardinality(senders) <= 1
    <3>1. \A c, d \in senders : c = d
      BY <2>1, ChannelBuffers
    <3> HIDE DEF senders
    <3>2. CASE senders = {}
      BY <3>2, FS_EmptySet
    <3>3. CASE senders # {}
      <4>1. PICK c : senders = {c}
        BY <3>1, <3>3
      <4> QED
        BY <4>1, FS_Singleton
    <3> QED
      BY <3>2, <3>3
  <2> QED
    BY <2>2, <2>3
<1>2. Types /\ Placed /\ [Next]_vars => Types' /\ Placed'
  BY PlacedStep
<1> QED
  BY <1>1, <1>2, PlacedInit, PTL DEF Spec
-----------------------------------------------------------------------------
(* Every channel is a queue. *)

(* The entry in which the message after the first n is put. *)
place(n) == n % numEntries

(* Going on by less than a lap, d entries further. *)
LEMMA PlaceAhead ==
  ASSUME NEW a \in Nat, NEW d \in 0 .. numEntries - 1
  PROVE  place(a + d) = IF place(a) + d < numEntries THEN place(a) + d
                                                     ELSE place(a) + d - numEntries
<1> DEFINE n == numEntries
           q == a \div n
           r == a % n
<1>1. n \in Nat \ {0} /\ d \in 0 .. n - 1
  BY Constants
<1> HIDE DEF n
<1>2. q \in Nat /\ r \in 0 .. n - 1 /\ a = n * q + r
  BY <1>1
<1> HIDE DEF q, r
<1>3. ASSUME NEW p \in Nat, NEW s \in 0 .. n - 1 PROVE (n * p + s) % n = s
  BY <1>1
<1>4. CASE r + d < n
  <2>1. r + d \in 0 .. n - 1 /\ a + d = n * q + (r + d)
    BY <1>1, <1>2, <1>4
  <2>2. (n * q + (r + d)) % n = r + d
    BY <1>2, <1>3, <2>1
  <2> QED
    BY <1>4, <2>1, <2>2 DEF r, n, place
<1>5. CASE ~(r + d < n)
  <2>1. r + d - n \in 0 .. n - 1 /\ q + 1 \in Nat
    BY <1>1, <1>2, <1>5
  <2>2. n * (q + 1) = n * q + n
    BY <1>1, <1>2
  <2>3. a + d = n * (q + 1) + (r + d - n)
    BY <1>1, <1>2, <2>2
  <2>4. (n * (q + 1) + (r + d - n)) % n = r + d - n
    BY <1>3, <2>1
  <2> QED
    BY <1>5, <2>3, <2>4 DEF r, n, place
<1> QED
  BY <1>4, <1>5

(* A place is an entry. *)
LEMMA PlaceIsEntry == \A n \in Nat : place(n) \in Entries
BY Constants DEF place, Entries

(* incTail and incHeadAfterMsgProcessed go to the next place. *)
LEMMA PlaceNext ==
  ASSUME NEW a \in Nat
  PROVE  incTail(place(a)) = place(a + 1) /\ incHeadAfterMsgProcessed(place(a)) = place(a + 1)
<1>1. numEntries \in Nat \ {0} /\ place(a) \in 0 .. numEntries - 1
  BY Constants, PlaceIsEntry DEF Entries
<1>2. CASE numEntries = 1
  <2>1. place(a + 1) = 0
    <3>1. place(a + 1) \in 0 .. 0
      BY <1>2, PlaceIsEntry DEF Entries
    <3> QED
      BY <3>1
  <2> QED
    BY <1>1, <1>2, <2>1 DEF incTail, incHeadAfterMsgProcessed
<1>3. CASE numEntries # 1
  <2>1. 1 \in 0 .. numEntries - 1
    BY <1>1, <1>3
  <2>2. place(a + 1) = IF place(a) + 1 < numEntries THEN place(a) + 1
                                                    ELSE place(a) + 1 - numEntries
    BY <2>1, PlaceAhead
  <2> QED
    BY <1>1, <2>2 DEF incTail, incHeadAfterMsgProcessed
<1> QED
  BY <1>2, <1>3

(* Within a lap no place comes twice. *)
LEMMA PlacesDiffer ==
  ASSUME NEW a \in Nat, NEW n \in a .. a + numEntries - 1, place(n) = place(a)
  PROVE  n = a
<1>1. numEntries \in Nat \ {0} /\ place(a) \in 0 .. numEntries - 1
  BY Constants, PlaceIsEntry DEF Entries
<1>2. n - a \in 0 .. numEntries - 1 /\ n = a + (n - a)
  BY <1>1
<1> DEFINE d == n - a
<1>3. d \in 0 .. numEntries - 1 /\ n = a + d
  BY <1>2
<1> HIDE DEF d
<1>4. place(a + d) = IF place(a) + d < numEntries THEN place(a) + d
                                                  ELSE place(a) + d - numEntries
  BY <1>3, PlaceAhead
<1> QED
  BY <1>1, <1>3, <1>4

(* The messages of channel c that are in its ring follow those processed,  *)
(* each in its place, and there are at most WINDOW of them; the client's   *)
(* tail and the server's head count the messages written and processed.    *)
Ring(c) ==
  LET b == getCBufIdx(c)
  IN  /\ credited[c] <= Len(got[b]) /\ Len(got[b]) <= sent[c]
      /\ sent[c] <= credited[c] + WINDOW
      /\ pc[c] = "idle" => tail[<<c[1], b>>] = place(sent[c])
      /\ pc[c] = "written" => sent[c] >= 1 /\ tail[<<c[1], b>>] = place(sent[c] - 1)
      /\ head[b] = place(Len(got[b]))
      /\ \A k \in 1 .. Len(got[b]) : got[b][k] = <<c, k>>
      /\ \A e \in Entries : mem[page(b, e)] # ZERO =>
           \E n \in Len(got[b]) .. sent[c] - 1 : mem[page(b, e)] = <<c, n + 1>> /\ e = place(n)

Rings == \A c \in Channels : Ring(c)

FifoInv == Types /\ Placed /\ Rings

(* What a step leaves alone of a channel, it leaves a queue. *)
LEMMA RingKept ==
  ASSUME NEW d \in Channels, Ring(d),
         sent'[d] = sent[d], credited'[d] = credited[d], pc'[d] = pc[d],
         tail'[<<d[1], getCBufIdx(d)>>] = tail[<<d[1], getCBufIdx(d)>>],
         head'[getCBufIdx(d)] = head[getCBufIdx(d)],
         got'[getCBufIdx(d)] = got[getCBufIdx(d)],
         \A e \in Entries : mem'[page(getCBufIdx(d), e)] = mem[page(getCBufIdx(d), e)]
  PROVE  Ring(d)'
BY DEF Ring

(* At the start all rings are empty. *)
LEMMA RingsInit == ASSUME Shape PROVE Init => FifoInv
<1> SUFFICES ASSUME Init PROVE Rings
  BY PlacedInit DEF FifoInv
<1> SUFFICES ASSUME NEW c \in Channels PROVE Ring(c)
  BY DEF Rings
<1> DEFINE b == getCBufIdx(c)
<1>1. b \in Buffers /\ <<c[1], b>> \in (1 .. getNumClients) \X Buffers
  BY ChannelBuffers
<1>2. /\ sent[c] = 0 /\ credited[c] = 0 /\ pc[c] = "idle" /\ head[b] = 0
      /\ tail[<<c[1], b>>] = 0
  BY <1>1 DEF Init
<1>3. got[b] = <<>>
  <2>1. got = [x \in Buffers |-> <<>>]
    BY DEF Init
  <2> QED
    BY <1>1, <2>1
<1>4. Len(got[b]) = 0
  BY <1>3
<1>5. \A e \in Entries : mem[page(b, e)] = ZERO
  BY <1>1, PageInMemory DEF Init
<1>6. place(0) = 0
  BY Constants DEF place
<1> HIDE DEF b
<1> QED
  BY <1>2, <1>4, <1>5, <1>6, Constants DEF Ring, b

(* remoteBufferWrite puts the next message in its place. *)
LEMMA WriteRings ==
  ASSUME Shape, FifoInv, NEW c \in active, RemoteBufferWrite(c)
  PROVE  Rings'
<1> DEFINE b0 == getCBufIdx(c)
<1>1. Types /\ Placed /\ Rings /\ c \in Channels /\ b0 \in Buffers
  BY ChannelBuffers DEF FifoInv, Types
<1>2. /\ pc[c] = "idle" /\ sent[c] - credited[c] < WINDOW
      /\ sent' = [sent EXCEPT ![c] = @ + 1]
      /\ pc' = [pc EXCEPT ![c] = "written"]
      /\ UNCHANGED <<active, tail, head, credited, got>>
  BY DEF RemoteBufferWrite
<1>3. \A b \in Buffers, e \in Entries :
        mem'[page(b, e)] = IF b = b0 /\ e = tail[<<c[1], b>>]
                             THEN <<c, sent[c] + 1>> ELSE mem[page(b, e)]
  BY <1>1, WritePlaced
<1>4. ASSUME NEW d \in Channels, d # c PROVE Ring(d)'
  <2>1. getCBufIdx(d) # b0 /\ getCBufIdx(d) \in Buffers /\ Ring(d)
    BY <1>1, <1>4, ChannelBuffers DEF Rings
  <2>2. sent'[d] = sent[d] /\ pc'[d] = pc[d]
    BY <1>2, <1>4 DEF Types
  <2>3. \A e \in Entries : mem'[page(getCBufIdx(d), e)] = mem[page(getCBufIdx(d), e)]
    BY <1>3, <2>1
  <2> QED
    BY <1>2, <2>1, <2>2, <2>3, RingKept
<1>5. Ring(c)'
  <2> DEFINE G == Len(got[b0])
             S == sent[c]
             t == tail[<<c[1], b0>>]
  <2>1. /\ G \in Nat /\ S \in Nat /\ credited[c] \in Nat /\ WINDOW \in Nat
        /\ credited[c] <= G /\ G <= S /\ t = place(S)
    BY <1>1, <1>2, Constants DEF Types, Rings, Ring
  <2>2. sent'[c] = S + 1 /\ pc'[c] = "written"
    BY <1>1, <1>2 DEF Types
  <2>3. \A e \in Entries : mem'[page(b0, e)] = IF e = t THEN <<c, S + 1>> ELSE mem[page(b0, e)]
    BY <1>1, <1>3
  <2>4. \A e \in Entries : mem[page(b0, e)] # ZERO =>
          \E n \in G .. S - 1 : mem[page(b0, e)] = <<c, n + 1>> /\ e = place(n)
    BY <1>1 DEF Rings, Ring
  <2>5. \A e \in Entries : mem'[page(b0, e)] # ZERO =>
          \E n \in G .. (S + 1) - 1 : mem'[page(b0, e)] = <<c, n + 1>> /\ e = place(n)
    <3> SUFFICES ASSUME NEW e \in Entries, mem'[page(b0, e)] # ZERO
                 PROVE  \E n \in G .. (S + 1) - 1 :
                          mem'[page(b0, e)] = <<c, n + 1>> /\ e = place(n)
      OBVIOUS
    <3>1. CASE e = t
      <4>1. mem'[page(b0, e)] = <<c, S + 1>> /\ e = place(S) /\ S \in G .. (S + 1) - 1
        BY <2>1, <2>3, <3>1
      <4> QED
        BY <4>1
    <3>2. CASE e # t
      <4>1. mem'[page(b0, e)] = mem[page(b0, e)]
        BY <2>3, <3>2
      <4>2. PICK n \in G .. S - 1 : mem[page(b0, e)] = <<c, n + 1>> /\ e = place(n)
        BY <2>4, <4>1
      <4>3. n \in G .. (S + 1) - 1
        BY <2>1
      <4> QED
        BY <4>1, <4>2, <4>3
    <3> QED
      BY <3>1, <3>2
  <2>6. head[b0] = place(G) /\ \A k \in 1 .. G : got[b0][k] = <<c, k>>
    BY <1>1 DEF Rings, Ring
  <2>7. S + 1 <= credited[c] + WINDOW /\ G <= S + 1 /\ S + 1 >= 1 /\ (S + 1) - 1 = S
    BY <1>2, <2>1
  <2> QED
    BY <1>2, <2>1, <2>2, <2>5, <2>6, <2>7 DEF Ring
<1> QED
  BY <1>4, <1>5 DEF Rings

(* incTail moves the client's tail to the place of the next message. *)
LEMMA IncTailRings ==
  ASSUME Shape, FifoInv, NEW c \in active, IncTail(c)
  PROVE  Rings'
<1> DEFINE b0 == getCBufIdx(c)
<1>1. Types /\ Rings /\ c \in Channels /\ <<c[1], b0>> \in (1 .. getNumClients) \X Buffers
  BY ChannelBuffers DEF FifoInv, Types
<1>2. /\ pc[c] = "written" /\ pc' = [pc EXCEPT ![c] = "idle"]
      /\ tail' = [tail EXCEPT ![<<c[1], b0>>] = incTail(@)]
      /\ UNCHANGED <<active, mem, head, sent, credited, got>>
  BY DEF IncTail
<1>3. ASSUME NEW d \in Channels, d # c PROVE Ring(d)'
  <2>1. getCBufIdx(d) # b0 /\ Ring(d) /\ <<d[1], getCBufIdx(d)>> \in (1 .. getNumClients) \X Buffers
    BY <1>1, <1>3, ChannelBuffers DEF Rings
  <2>2. <<d[1], getCBufIdx(d)>> # <<c[1], b0>>
    BY <2>1
  <2>3. tail'[<<d[1], getCBufIdx(d)>>] = tail[<<d[1], getCBufIdx(d)>>] /\ pc'[d] = pc[d]
    BY <1>1, <1>2, <1>3, <2>1, <2>2 DEF Types
  <2> QED
    BY <1>2, <2>1, <2>3, RingKept
<1>4. Ring(c)'
  <2>1. sent[c] \in Nat /\ sent[c] >= 1 /\ tail[<<c[1], b0>>] = place(sent[c] - 1)
    BY <1>1, <1>2 DEF Types, Rings, Ring
  <2>2. sent[c] - 1 \in Nat /\ (sent[c] - 1) + 1 = sent[c]
    BY <2>1
  <2>3. incTail(place(sent[c] - 1)) = place(sent[c])
    BY <2>2, PlaceNext
  <2>4. tail'[<<c[1], b0>>] = place(sent[c]) /\ pc'[c] = "idle"
    BY <1>1, <1>2, <2>1, <2>3 DEF Types
  <2> QED
    BY <1>1, <1>2, <2>4 DEF Rings, Ring
<1> QED
  BY <1>3, <1>4 DEF Rings

(* An answer is to a message that was processed. *)
LEMMA CreditRings ==
  ASSUME Shape, FifoInv, NEW c \in active, Credit(c)
  PROVE  Rings'
<1> DEFINE b0 == getCBufIdx(c)
<1>1. Types /\ Rings /\ c \in Channels /\ b0 \in Buffers
  BY ChannelBuffers DEF FifoInv, Types
<1>2. /\ credited' = [credited EXCEPT ![c] = @ + 1]
      /\ UNCHANGED <<active, mem, tail, pc, head, sent, got>>
  BY DEF Credit
<1>3. PICK k \in 1 .. Len(got[b0]) : got[b0][k] = <<c, credited[c] + 1>>
  BY DEF Credit
<1>4. ASSUME NEW d \in Channels, d # c PROVE Ring(d)'
  <2>1. credited'[d] = credited[d] /\ Ring(d)
    BY <1>1, <1>2, <1>4 DEF Types, Rings
  <2> QED
    BY <1>2, <2>1, RingKept
<1>5. Ring(c)'
  <2>1. got[b0][k] = <<c, k>>
    BY <1>1 DEF Rings, Ring
  <2>2. k = credited[c] + 1
    BY <1>3, <2>1
  <2>3. /\ Len(got[b0]) \in Nat /\ sent[c] \in Nat /\ credited[c] \in Nat /\ WINDOW \in Nat
        /\ credited'[c] = credited[c] + 1 /\ sent[c] <= credited[c] + WINDOW
    <3>1. sent[c] <= credited[c] + WINDOW
      BY <1>1 DEF Rings, Ring
    <3>2. got[b0] \in Seq(Messages) /\ sent[c] \in Nat /\ credited[c] \in Nat
      BY <1>1 DEF Types
    <3>3. credited'[c] = credited[c] + 1
      BY <1>1, <1>2 DEF Types
    <3> QED
      BY <3>1, <3>2, <3>3, Constants
  <2>4. credited'[c] <= Len(got[b0]) /\ sent[c] <= credited'[c] + WINDOW
    BY <2>2, <2>3
  <2> QED
    BY <1>1, <1>2, <2>4 DEF Rings, Ring
<1> QED
  BY <1>4, <1>5 DEF Rings

(* The server processes the next message of the channel: no other that is  *)
(* in the ring has its place, because the window is no longer than it.     *)
LEMMA ProcessRings ==
  ASSUME Shape, WINDOW <= numEntries, FifoInv, NEW b \in Buffers, ProcessHead(b)
  PROVE  Rings'
<1>1. Types /\ Placed /\ Rings
  BY DEF FifoInv
<1>2. /\ head' = [head EXCEPT ![b] = incHeadAfterMsgProcessed(@)]
      /\ UNCHANGED <<active, tail, pc, sent, credited>>
  BY DEF ProcessHead
<1> DEFINE m0 == mem[page(b, head[b])]
<1>3. /\ head[b] \in Entries /\ m0 # ZERO
      /\ got' = [got EXCEPT ![b] = Append(@, m0)]
      /\ \A d \in Buffers, e \in Entries :
           mem'[page(d, e)] = IF d = b /\ e = head[b] THEN ZERO ELSE mem[page(d, e)]
  BY <1>1, ProcessPlaced
<1> HIDE DEF m0
<1> SUFFICES ASSUME NEW c \in Channels PROVE Ring(c)'
  BY DEF Rings
<1>4. Ring(c) /\ getCBufIdx(c) \in Buffers
  BY <1>1, ChannelBuffers DEF Rings
<1>5. CASE getCBufIdx(c) # b
  <2>1. /\ head'[getCBufIdx(c)] = head[getCBufIdx(c)]
        /\ got'[getCBufIdx(c)] = got[getCBufIdx(c)]
    BY <1>1, <1>2, <1>3, <1>4, <1>5 DEF Types
  <2>2. \A e \in Entries : mem'[page(getCBufIdx(c), e)] = mem[page(getCBufIdx(c), e)]
    BY <1>3, <1>4, <1>5
  <2> QED
    BY <1>2, <1>4, <2>1, <2>2, RingKept
<1>6. CASE getCBufIdx(c) = b
  <2> DEFINE G == Len(got[b])
             S == sent[c]
             h == head[b]
  <2>1. /\ G \in Nat /\ S \in Nat /\ credited[c] \in Nat /\ WINDOW \in Nat /\ numEntries \in Nat
        /\ credited[c] <= G /\ G <= S /\ S <= credited[c] + WINDOW /\ h = place(G)
    BY <1>1, <1>4, <1>6, Constants DEF Types, Ring
  <2>2. \A e \in Entries : mem[page(b, e)] # ZERO =>
          \E n \in G .. S - 1 : mem[page(b, e)] = <<c, n + 1>> /\ e = place(n)
    BY <1>4, <1>6 DEF Ring
  <2>3. \A k \in 1 .. G : got[b][k] = <<c, k>>
    BY <1>4, <1>6 DEF Ring
  <2>4. got[b] \in Seq(Messages) /\ got'[b] = Append(got[b], m0)
    BY <1>1, <1>3 DEF Types
  <2>5. head'[b] = place(G + 1)
    BY <1>1, <1>2, <2>1, PlaceNext DEF Types
  <2>6. m0 = <<c, G + 1>> /\ G < S
    <3>1. PICK n \in G .. S - 1 : m0 = <<c, n + 1>> /\ h = place(n)
      BY <1>3, <2>2 DEF m0
    <3>2. n \in G .. G + numEntries - 1 /\ place(n) = place(G)
      BY <2>1, <3>1
    <3>3. n = G
      BY <2>1, <3>2, PlacesDiffer
    <3> QED
      BY <2>1, <3>1, <3>3
  <2>7. /\ Len(got'[b]) = G + 1 /\ got'[b][G + 1] = m0
        /\ \A k \in 1 .. G : got'[b][k] = got[b][k]
    BY <2>4
  <2> HIDE DEF G, S, h
  <2>8. \A k \in 1 .. G + 1 : got'[b][k] = <<c, k>>
    <3> SUFFICES ASSUME NEW k \in 1 .. G + 1 PROVE got'[b][k] = <<c, k>>
      OBVIOUS
    <3>1. k \in 1 .. G \/ k = G + 1
      BY <2>1
    <3> QED
      BY <2>3, <2>6, <2>7, <3>1
  <2>9. \A e \in Entries : mem'[page(b, e)] # ZERO =>
          \E n \in G + 1 .. S - 1 : mem'[page(b, e)] = <<c, n + 1>> /\ e = place(n)
    <3> SUFFICES ASSUME NEW e \in Entries, mem'[page(b, e)] # ZERO
                 PROVE  \E n \in G + 1 .. S - 1 :
                          mem'[page(b, e)] = <<c, n + 1>> /\ e = place(n)
      OBVIOUS
    <3>1. e # h /\ mem'[page(b, e)] = mem[page(b, e)]
      BY <1>3 DEF h
    <3>2. PICK n \in G .. S - 1 : mem[page(b, e)] = <<c, n + 1>> /\ e = place(n)
      BY <2>2, <3>1
    <3>3. n # G
      BY <2>1, <3>1, <3>2
    <3>4. n \in G + 1 .. S - 1
      BY <2>1, <3>3
    <3> QED
      BY <3>1, <3>2, <3>4
  <2>10. credited[c] <= G + 1 /\ G + 1 <= S /\ S <= credited[c] + WINDOW
    BY <2>1, <2>6
  <2>11. /\ pc[c] = "idle" => tail[<<c[1], b>>] = place(S)
         /\ pc[c] = "written" => S >= 1 /\ tail[<<c[1], b>>] = place(S - 1)
    BY <1>4, <1>6 DEF Ring, S
  <2> QED
    BY <1>2, <1>6, <2>5, <2>7, <2>8, <2>9, <2>10, <2>11 DEF Ring, S
<1> QED
  BY <1>5, <1>6

(* Every step leaves every channel a queue. *)
LEMMA FifoStep ==
  ASSUME Shape, WINDOW <= numEntries
  PROVE  FifoInv /\ [Next]_vars => FifoInv'
<1> SUFFICES ASSUME FifoInv, [Next]_vars PROVE Rings'
  BY PlacedStep DEF FifoInv
<1>1. ASSUME NEW s \in 0 .. ServThreads - 1, ServerStep(s) PROVE Rings'
  BY <1>1, RegionInBuffers, ProcessRings DEF ServerStep
<1>2. ASSUME UNCHANGED vars PROVE Rings'
  BY <1>2 DEF vars, FifoInv, Rings, Ring
<1> QED
  BY <1>1, <1>2, WriteRings, IncTailRings, CreditRings DEF Next

(* When the layout is right and the callers keep no more messages          *)
(* outstanding than a buffer has entries, every channel delivers its       *)
(* messages in order, each once and none missing: no ring writes into      *)
(* another, and none overtakes its reader.                                 *)
THEOREM ChannelsAreQueues ==
  ASSUME Shape, WINDOW <= numEntries PROVE Spec => []ChannelsFifo
<1>1. FifoInv => ChannelsFifo
  BY DEF FifoInv, Types, Rings, Ring, ChannelsFifo
<1> QED
  BY <1>1, RingsInit, FifoStep, PTL DEF Spec
=============================================================================
