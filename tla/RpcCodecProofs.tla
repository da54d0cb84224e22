--------------------------- MODULE RpcCodecProofs ---------------------------
(***************************************************************************)
(* Proofs about RpcCodec for every payload, every identifier and both      *)
(* platforms: what packPayload stores where, what unpackBufferToRPCLayer   *)
(* makes of it whatever the buffer held before, and that nothing is stored *)
(* beyond the announced length.                                            *)
(***************************************************************************)
EXTENDS RpcCodec, SequenceTheorems, TLAPS

-----------------------------------------------------------------------------
(* The bytes of an integer. *)

(* A number by its last byte and the rest. *)
LEMMA LastByte ==
  ASSUME NEW v \in Nat
  PROVE  /\ v = 256 * (v \div 256) + (v % 256) /\ v \div 256 \in Nat /\ v % 256 \in Nat
         /\ v \div 1 = v /\ (v < 256 => v % 256 = v)
<1>1. v = 256 * (v \div 256) + (v % 256) /\ v \div 256 \in Nat /\ v % 256 \in Nat
  BY SMT
<1>2. v \div 1 = v
  BY SMT
<1>3. v < 256 => v % 256 = v
  BY SMT
<1> QED
  BY <1>1, <1>2, <1>3

(* A load of two bytes of the host gives back what was stored.             *)
LEMMA TwoBytes ==
  ASSUME NEW v \in uint16_t
  PROVE  HostValue(HostBytes(v, 2)) = v
<1> DEFINE b == HostBytes(v, 2)
           w == v \div 256
           x == v % 256
<1>1. b[1] = (v \div 1) % 256 /\ b[2] = w % 256 /\ Len(b) = 2
  BY SMT DEF HostBytes, Weight
<1>2. v \in Nat /\ w \in Nat /\ w < 256
  BY SMT DEF uint16_t
<1>3. HostValue(b) = b[1] + b[2] * 256 + 0
  <2> HIDE DEF b
  <2> QED
    BY SMT, <1>1 DEF HostValue, Weight
<1>4. v = 256 * w + x /\ x \in Nat /\ v \div 1 = v
  BY <1>2, LastByte
<1> HIDE DEF b, w
<1>5. w % 256 = w
  BY <1>2, LastByte
<1>6. HostValue(b) = x + w * 256 + 0
  BY <1>1, <1>3, <1>4, <1>5
<1> HIDE DEF x
<1> QED
  BY SMT, <1>2, <1>4, <1>6 DEF b

(* ... and so does a load of four.                                         *)
LEMMA FourBytes ==
  ASSUME NEW v \in Nat, v \div (256 * 256) < 256 * 128
  PROVE  HostValue(HostBytes(v, 4)) = v
<1> DEFINE b  == HostBytes(v, 4)
           w1 == v \div 256
           w2 == v \div (256 * 256)
           w3 == v \div (256 * 256 * 256)
           x0 == v % 256
           x1 == w1 % 256
           x2 == w2 % 256
<1>1. /\ b[1] = (v \div 1) % 256 /\ b[2] = x1 /\ b[3] = x2 /\ b[4] = w3 % 256
      /\ Len(b) = 4
  BY SMT DEF HostBytes, Weight
<1>2. /\ w1 \div 256 = w2 /\ w2 \div 256 = w3
      /\ w1 \in Nat /\ w2 \in Nat /\ w3 \in Nat /\ w3 < 256
  BY SMT
<1>3. HostValue(b) = b[1] + b[2] * 256 + (b[3] * (256 * 256) + b[4] * (256 * 256 * 256))
  <2> HIDE DEF b
  <2> QED
    BY SMT, <1>1 DEF HostValue, Weight
<1>4. v = 256 * w1 + x0 /\ x0 \in Nat /\ v \div 1 = v
  BY LastByte
<1> HIDE DEF b, w1, w2, w3
<1>5. w1 = 256 * w2 + x1 /\ x1 \in Nat
  BY <1>2, LastByte
<1>6. w2 = 256 * w3 + x2 /\ x2 \in Nat /\ w3 % 256 = w3
  BY <1>2, LastByte
<1>7. HostValue(b) = x0 + x1 * 256 + (x2 * (256 * 256) + w3 * (256 * 256 * 256))
  BY <1>1, <1>3, <1>4, <1>6
<1> HIDE DEF x0, x1, x2
<1>8. /\ 256 * w1 = 256 * (256 * w2) + 256 * x1
      /\ (256 * 256) * w2 = (256 * 256) * (256 * w3) + (256 * 256) * x2
  BY SMT, <1>2, <1>5, <1>6
<1>9. x0 + x1 * 256 + (x2 * (256 * 256) + w3 * (256 * 256 * 256)) = v
  BY SMT, <1>2, <1>4, <1>5, <1>6, <1>8
<1> QED
  BY <1>7, <1>9 DEF b

(* Integers keep their number of bytes on their way to the network and     *)
(* back, and turning them round twice changes nothing.                     *)
LEMMA ThereAndBack ==
  ASSUME NEW v, NEW n \in {2, 4}
  PROVE  /\ Len(Network(HostBytes(v, n))) = n
         /\ DOMAIN Network(HostBytes(v, n)) = 1 .. n
         /\ Network(Network(HostBytes(v, n))) = HostBytes(v, n)
<1> DEFINE b == HostBytes(v, n)
<1>1. b = [k \in 1 .. n |-> b[k]] /\ Len(b) = n /\ n \in Nat
  BY SMT DEF HostBytes
<1> HIDE DEF b
<1>2. CASE Platform = "ZSIM"
  BY SMT, <1>1, <1>2 DEF Network, b
<1>3. CASE Platform # "ZSIM"
  <2> DEFINE c == Network(b)
  <2>1. c = [k \in 1 .. n |-> b[n + 1 - k]]
    BY SMT, <1>1, <1>3 DEF Network
  <2>2. Len(c) = n /\ DOMAIN c = 1 .. n
    BY SMT, <1>1, <2>1
  <2> HIDE DEF c
  <2>3. Network(c) = [k \in 1 .. n |-> c[n + 1 - k]]
    BY SMT, <1>3, <2>2 DEF Network
  <2>4. ASSUME NEW k \in 1 .. n PROVE c[n + 1 - k] = b[k]
    <3>1. n + 1 - k \in 1 .. n /\ n + 1 - (n + 1 - k) = k
      BY SMT, <1>1
    <3> QED
      BY SMT, <2>1, <3>1
  <2>5. Network(c) = b
    BY SMT, <1>1, <2>3, <2>4
  <2> QED
    BY <2>2, <2>5 DEF c, b
<1> QED
  BY <1>2, <1>3
-----------------------------------------------------------------------------
(* Memory. *)

(* A header of 16 bytes, and the payload behind it.                        *)
LEMMA Layout ==
  /\ calcTotalHeaderBytes = 16 /\ Buf \in Nat /\ Align(Buf + 12) = Buf + 16
BY SMT, RpcCodecAssumption DEF calcTotalHeaderBytes, Align, getAlignmentReq

(* Memory k is m with the n bytes b stored from address a on.              *)
Stored(k, m, a, n, b) ==
  /\ DOMAIN k = Memory
  /\ \A x \in Memory : /\ x >= a /\ x < a + n => k[x] = b[x - a + 1]
                       /\ x < a \/ x >= a + n => k[x] = m[x]

(* The n bytes b.                                                          *)
IsBytes(b, n) == b = [i \in 1 .. n |-> b[i]] /\ Len(b) = n

(* memcpy stores the bytes at the address, and nothing else.               *)
LEMMA MemcpyStores ==
  ASSUME NEW m, DOMAIN m = Memory, NEW a \in Nat, NEW n \in Nat, NEW b, IsBytes(b, n)
  PROVE  Stored(memcpy(m, a, b), m, a, n, b)
<1>1. DOMAIN memcpy(m, a, b) = Memory /\ Len(b) = n
  BY SMT DEF memcpy, IsBytes
<1>2. ASSUME NEW x \in Memory
      PROVE  /\ x >= a /\ x < a + n => memcpy(m, a, b)[x] = b[x - a + 1]
             /\ x < a \/ x >= a + n => memcpy(m, a, b)[x] = m[x]
  <2>1. x \in Nat
    BY Layout, RpcCodecAssumption DEF Memory
  <2>2. memcpy(m, a, b)[x] = IF x \in a .. a + n - 1 THEN b[x - a + 1] ELSE m[x]
    BY SMT, <1>1 DEF memcpy
  <2>3. x \in a .. a + n - 1 <=> x >= a /\ x < a + n
    BY SMT, <2>1
  <2>4. x < a \/ x >= a + n => ~(x >= a /\ x < a + n)
    BY SMT, <2>1
  <2> QED
    BY SMT, <2>2, <2>3, <2>4
<1> QED
  BY <1>1, <1>2 DEF Stored

(* There is room for w bytes at address c, and they are not among the n    *)
(* bytes at a.                                                             *)
Room(c, w) == \A x \in Nat : x >= c /\ x < c + w => x \in Memory
Apart(c, w, a, n) == c + w <= a \/ c >= a + n

(* Reading what was stored.                                                *)
LEMMA LoadStored ==
  ASSUME NEW m, NEW k, NEW a \in Nat, NEW n \in Nat, NEW b, IsBytes(b, n),
         Stored(k, m, a, n, b), Room(a, n)
  PROVE  load(k, a, n) = b
<1>1. ASSUME NEW i \in 1 .. n PROVE k[a + i - 1] = b[i]
  <2> DEFINE x == a + i - 1
  <2>1. x \in Nat /\ x >= a /\ x < a + n /\ x - a + 1 = i
    BY SMT
  <2> HIDE DEF x
  <2>2. x \in Memory
    BY <2>1 DEF Room
  <2>3. k[x] = b[x - a + 1]
    BY <2>1, <2>2, Zenon DEF Stored
  <2> QED
    BY <2>1, <2>3 DEF x
<1>2. load(k, a, n) = [i \in 1 .. n |-> b[i]]
  BY <1>1, Zenon DEF load
<1> QED
  BY <1>2, Zenon DEF IsBytes

(* Reading elsewhere.                                                      *)
LEMMA LoadElsewhere ==
  ASSUME NEW m, NEW k, NEW a \in Nat, NEW n \in Nat, NEW b, Stored(k, m, a, n, b),
         NEW c \in Nat, NEW w \in Nat, Room(c, w), Apart(c, w, a, n)
  PROVE  load(k, c, w) = load(m, c, w)
<1>1. ASSUME NEW i \in 1 .. w PROVE k[c + i - 1] = m[c + i - 1]
  <2> DEFINE x == c + i - 1
  <2>1. x \in Nat /\ x >= c /\ x < c + w /\ (x < a \/ x >= a + n)
    BY SMT DEF Apart
  <2> HIDE DEF x
  <2>2. x \in Memory
    BY <2>1 DEF Room
  <2>3. k[x] = m[x]
    BY <2>1, <2>2, Zenon DEF Stored
  <2> QED
    BY <2>3 DEF x
<1> QED
  BY <1>1, Zenon DEF load

(* An RPC that a caller may create for payload p.                          *)
IsRPC(r, p) ==
  /\ p \in Payloads
  /\ \E t \in Types, id, qp, nid \in Ids : r = createRPCStruct(t, id, qp, nid, Len(p))

(* Its fields, and where they go in memory. *)
LEMMA FieldsOfRPC ==
  ASSUME NEW r, NEW p, IsRPC(r, p)
  PROVE  /\ p \in Seq(uint8_t) /\ Len(p) \in Nat /\ 16 + Len(p) <= BufSize
         /\ r.rpc_len = 16 + Len(p) /\ r.payload_len = Len(p)
         /\ r.rpc_len \in Nat /\ r.rpc_len \div (256 * 256) < 256 * 128
         /\ r.rpc_id \in uint16_t /\ r.senders_qp \in uint16_t /\ r.senders_nid \in uint16_t
         /\ r = createRPCStruct(r.rpc_type, r.rpc_id, r.senders_qp, r.senders_nid, Len(p))
<1>1. p \in Seq(uint8_t) /\ Len(p) \in Nat
  BY RpcCodecAssumption, LenProperties DEF IsRPC
<1>2. 16 + Len(p) <= BufSize /\ BufSize \in Nat /\ BufSize \div (256 * 256) < 256 * 128
  BY RpcCodecAssumption, Layout, SMT DEF IsRPC
<1>3. PICK t \in Types, id \in Ids, qp \in Ids, nid \in Ids :
        r = createRPCStruct(t, id, qp, nid, Len(p))
  BY Zenon DEF IsRPC
<1>4. /\ r.rpc_len = calcTotalHeaderBytes + Len(p) /\ r.payload_len = Len(p)
      /\ r.rpc_type = t /\ r.rpc_id = id /\ r.senders_qp = qp /\ r.senders_nid = nid
  BY <1>3, SMT DEF createRPCStruct
<1>5. r.rpc_len = 16 + Len(p)
  BY <1>4, Layout
<1>6. 16 + Len(p) \in Nat /\ (16 + Len(p)) \div (256 * 256) < 256 * 128
  BY <1>1, <1>2, SMT
<1>7. id \in uint16_t /\ qp \in uint16_t /\ nid \in uint16_t
  BY RpcCodecAssumption
<1> QED
  BY <1>1, <1>2, <1>3, <1>4, <1>5, <1>6, <1>7, Zenon

(* The bytes of RPC r with payload p lie in m as packPayload lays them     *)
(* out.                                                                    *)
Packed(m, r, p) ==
  /\ load(m, Buf, 4) = Network(HostBytes(r.rpc_len, 4))
  /\ m[Buf + 4] = r.rpc_type
  /\ load(m, Buf + 6, 2) = Network(HostBytes(r.rpc_id, 2))
  /\ load(m, Buf + 8, 2) = Network(HostBytes(r.senders_qp, 2))
  /\ load(m, Buf + 10, 2) = Network(HostBytes(r.senders_nid, 2))
  /\ load(m, Buf + 16, Len(p)) = p

(* Network order keeps integers functions on 1 .. n. *)
LEMMA BytesOf ==
  ASSUME NEW v, NEW n \in {2, 4}, NEW b, b = Network(HostBytes(v, n))
  PROVE  IsBytes(b, n)
<1>1. Len(b) = n /\ DOMAIN b = 1 .. n
  BY ThereAndBack
<1>2. b = [k \in DOMAIN b |-> b[k]]
  <2>1. HostBytes(v, n) = [k \in DOMAIN HostBytes(v, n) |-> HostBytes(v, n)[k]]
    BY Zenon DEF HostBytes
  <2>2. CASE Platform = "ZSIM"
    BY <2>1, <2>2, Zenon DEF Network
  <2>3. CASE Platform # "ZSIM"
    <3>1. b = [k \in 1 .. Len(HostBytes(v, n)) |->
                 HostBytes(v, n)[Len(HostBytes(v, n)) + 1 - k]]
      BY <2>3, Zenon DEF Network
    <3> QED
      BY <3>1, Zenon
  <2> QED
    BY <2>2, <2>3
<1> QED
  BY <1>1, <1>2, Zenon DEF IsBytes

(* What packPayload stores does not overlap, is all of the RPC, and ends   *)
(* with it.                                                                *)
LEMMA PackStores ==
  ASSUME NEW m, DOMAIN m = Memory, NEW r, NEW p, IsRPC(r, p)
  PROVE  /\ DOMAIN packPayload(m, r, p) = Memory
         /\ Packed(packPayload(m, r, p), r, p)
         /\ \A x \in Memory : x >= Buf + r.rpc_len => packPayload(m, r, p)[x] = m[x]
<1> DEFINE len == Network(HostBytes(r.rpc_len, 4))
           typ == <<r.rpc_type>>
           id  == Network(HostBytes(r.rpc_id, 2))
           qp  == Network(HostBytes(r.senders_qp, 2))
           nid == Network(HostBytes(r.senders_nid, 2))
           m1  == memcpy(m, Buf, len)
           m2  == memcpy(m1, Buf + 4, typ)
           m3  == memcpy(m2, Buf + 6, id)
           m4  == memcpy(m3, Buf + 8, qp)
           m5  == memcpy(m4, Buf + 10, nid)
           m6  == memcpy(m5, Buf + 16, p)
           n   == Len(p)
<1>1. /\ n \in Nat /\ 16 + n <= BufSize /\ r.rpc_len = 16 + n
      /\ BufSize \in Nat
  BY FieldsOfRPC, RpcCodecAssumption
<1>2. packPayload(m, r, p) = m6
  BY Layout DEF packPayload
<1>3. /\ IsBytes(len, 4) /\ IsBytes(typ, 1) /\ IsBytes(id, 2) /\ IsBytes(qp, 2)
      /\ IsBytes(nid, 2) /\ IsBytes(p, n)
  <2>1. 2 \in {2, 4} /\ 4 \in {2, 4}
    OBVIOUS
  <2>2. IsBytes(len, 4) /\ IsBytes(id, 2) /\ IsBytes(qp, 2) /\ IsBytes(nid, 2)
    <3>1. IsBytes(len, 4)
      BY <2>1, BytesOf
    <3>2. IsBytes(id, 2)
      BY <2>1, BytesOf
    <3>3. IsBytes(qp, 2)
      BY <2>1, BytesOf
    <3>4. IsBytes(nid, 2)
      BY <2>1, BytesOf
    <3> QED
      BY <3>1, <3>2, <3>3, <3>4, Zenon
  <2>3. IsBytes(typ, 1)
    BY SMT DEF IsBytes
  <2>4. IsBytes(p, n)
    <3>1. p \in Seq(uint8_t)
      BY FieldsOfRPC
    <3> QED
      BY <3>1, LenProperties DEF IsBytes
  <2> QED
    BY <2>2, <2>3, <2>4, Zenon
<1>4. typ[1] = r.rpc_type
  BY SMT
<1> HIDE DEF n
<1>5. /\ Memory \subseteq Nat /\ Buf \in Nat /\ Buf + 4 \in Nat /\ Buf + 6 \in Nat
      /\ Buf + 8 \in Nat /\ Buf + 10 \in Nat /\ Buf + 16 \in Nat
      /\ 1 \in Nat /\ 2 \in Nat /\ 4 \in Nat
  BY <1>1, Layout, SMT DEF Memory
<1>6. /\ Room(Buf, 4) /\ Room(Buf + 4, 1) /\ Room(Buf + 6, 2)
      /\ Room(Buf + 8, 2) /\ Room(Buf + 10, 2) /\ Room(Buf + 16, n)
  <2>1. ASSUME NEW x \in Nat, x >= Buf, x < Buf + (16 + n) PROVE x \in Memory
    BY <1>1, <1>5, <2>1, SMT DEF Memory
  <2>2. Room(Buf, 4) /\ Room(Buf + 4, 1) /\ Room(Buf + 6, 2)
    <3>1. \A x \in Nat : /\ x >= Buf /\ x < Buf + 4 => x < Buf + (16 + n)
                         /\ x >= Buf + 4 /\ x < Buf + 4 + 1 => x >= Buf /\ x < Buf + (16 + n)
                         /\ x >= Buf + 6 /\ x < Buf + 6 + 2 => x >= Buf /\ x < Buf + (16 + n)
      BY <1>1, <1>5, SMT
    <3> QED
      BY <2>1, <3>1, Zenon DEF Room
  <2>3. Room(Buf + 8, 2) /\ Room(Buf + 10, 2) /\ Room(Buf + 16, n)
    <3>1. \A x \in Nat : /\ x >= Buf + 8 /\ x < Buf + 8 + 2 => x >= Buf /\ x < Buf + (16 + n)
                         /\ x >= Buf + 10 /\ x < Buf + 10 + 2 => x >= Buf /\ x < Buf + (16 + n)
                         /\ x >= Buf + 16 /\ x < Buf + 16 + n => x >= Buf /\ x < Buf + (16 + n)
      BY <1>1, <1>5, SMT
    <3> QED
      BY <2>1, <3>1, Zenon DEF Room
  <2> QED
    BY <2>2, <2>3, Zenon
<1> HIDE DEF len, typ, id, qp, nid
<1>7. Stored(m1, m, Buf, 4, len) /\ DOMAIN m1 = Memory
  <2>1. Stored(m1, m, Buf, 4, len)
    BY <1>3, <1>5, MemcpyStores
  <2> QED
    BY <2>1, Zenon DEF Stored
<1> HIDE DEF m1
<1>8. Stored(m2, m1, Buf + 4, 1, typ) /\ DOMAIN m2 = Memory
  <2>1. Stored(m2, m1, Buf + 4, 1, typ)
    BY <1>3, <1>5, <1>7, MemcpyStores
  <2> QED
    BY <2>1, Zenon DEF Stored
<1> HIDE DEF m2
<1>9. Stored(m3, m2, Buf + 6, 2, id) /\ DOMAIN m3 = Memory
  <2>1. Stored(m3, m2, Buf + 6, 2, id)
    BY <1>3, <1>5, <1>8, MemcpyStores
  <2> QED
    BY <2>1, Zenon DEF Stored
<1> HIDE DEF m3
<1>10. Stored(m4, m3, Buf + 8, 2, qp) /\ DOMAIN m4 = Memory
  <2>1. Stored(m4, m3, Buf + 8, 2, qp)
    BY <1>3, <1>5, <1>9, MemcpyStores
  <2> QED
    BY <2>1, Zenon DEF Stored
<1> HIDE DEF m4
<1>11. Stored(m5, m4, Buf + 10, 2, nid) /\ DOMAIN m5 = Memory
  <2>1. Stored(m5, m4, Buf + 10, 2, nid)
    BY <1>3, <1>5, <1>10, MemcpyStores
  <2> QED
    BY <2>1, Zenon DEF Stored
<1> HIDE DEF m5
<1>12. Stored(m6, m5, Buf + 16, n, p) /\ DOMAIN m6 = Memory
  <2>1. Stored(m6, m5, Buf + 16, n, p)
    BY <1>1, <1>3, <1>5, <1>11, MemcpyStores
  <2> QED
    BY <2>1, Zenon DEF Stored
<1> HIDE DEF m6
(* No two fields overlap. *)
<1>13. /\ Apart(Buf, 4, Buf + 4, 1) /\ Apart(Buf, 4, Buf + 6, 2) /\ Apart(Buf, 4, Buf + 8, 2)
       /\ Apart(Buf, 4, Buf + 10, 2) /\ Apart(Buf, 4, Buf + 16, n)
       /\ Apart(Buf + 4, 1, Buf + 6, 2) /\ Apart(Buf + 4, 1, Buf + 8, 2)
       /\ Apart(Buf + 4, 1, Buf + 10, 2) /\ Apart(Buf + 4, 1, Buf + 16, n)
       /\ Apart(Buf + 6, 2, Buf + 8, 2) /\ Apart(Buf + 6, 2, Buf + 10, 2)
       /\ Apart(Buf + 6, 2, Buf + 16, n)
       /\ Apart(Buf + 8, 2, Buf + 10, 2) /\ Apart(Buf + 8, 2, Buf + 16, n)
       /\ Apart(Buf + 10, 2, Buf + 16, n)
  BY <1>1, <1>5, SMT DEF Apart
<1>14. load(m6, Buf, 4) = len
  <2>1. load(m1, Buf, 4) = len
    BY <1>3, <1>5, <1>6, <1>7, LoadStored
  <2>2. load(m2, Buf, 4) = load(m1, Buf, 4)
    BY <1>5, <1>6, <1>7, <1>8, <1>13, LoadElsewhere
  <2>3. load(m3, Buf, 4) = load(m2, Buf, 4)
    BY <1>5, <1>6, <1>8, <1>9, <1>13, LoadElsewhere
  <2>4. load(m4, Buf, 4) = load(m3, Buf, 4)
    BY <1>5, <1>6, <1>9, <1>10, <1>13, LoadElsewhere
  <2>5. load(m5, Buf, 4) = load(m4, Buf, 4)
    BY <1>5, <1>6, <1>10, <1>11, <1>13, LoadElsewhere
  <2>6. load(m6, Buf, 4) = load(m5, Buf, 4)
    BY <1>1, <1>5, <1>6, <1>11, <1>12, <1>13, LoadElsewhere
  <2> QED
    BY <2>1, <2>2, <2>3, <2>4, <2>5, <2>6, Zenon
<1>15. load(m6, Buf + 4, 1) = typ
  <2>1. load(m2, Buf + 4, 1) = typ
    BY <1>3, <1>5, <1>6, <1>8, LoadStored
  <2>2. load(m3, Buf + 4, 1) = load(m2, Buf + 4, 1)
    BY <1>5, <1>6, <1>8, <1>9, <1>13, LoadElsewhere
  <2>3. load(m4, Buf + 4, 1) = load(m3, Buf + 4, 1)
    BY <1>5, <1>6, <1>9, <1>10, <1>13, LoadElsewhere
  <2>4. load(m5, Buf + 4, 1) = load(m4, Buf + 4, 1)
    BY <1>5, <1>6, <1>10, <1>11, <1>13, LoadElsewhere
  <2>5. load(m6, Buf + 4, 1) = load(m5, Buf + 4, 1)
    BY <1>1, <1>5, <1>6, <1>11, <1>12, <1>13, LoadElsewhere
  <2> QED
    BY <2>1, <2>2, <2>3, <2>4, <2>5, Zenon
<1>16. load(m6, Buf + 6, 2) = id
  <2>1. load(m3, Buf + 6, 2) = id
    BY <1>3, <1>5, <1>6, <1>8, <1>9, LoadStored
  <2>2. load(m4, Buf + 6, 2) = load(m3, Buf + 6, 2)
    BY <1>5, <1>6, <1>9, <1>10, <1>13, LoadElsewhere
  <2>3. load(m5, Buf + 6, 2) = load(m4, Buf + 6, 2)
    BY <1>5, <1>6, <1>10, <1>11, <1>13, LoadElsewhere
  <2>4. load(m6, Buf + 6, 2) = load(m5, Buf + 6, 2)
    BY <1>1, <1>5, <1>6, <1>11, <1>12, <1>13, LoadElsewhere
  <2> QED
    BY <2>1, <2>2, <2>3, <2>4, Zenon
<1>17. load(m6, Buf + 8, 2) = qp
  <2>1. load(m4, Buf + 8, 2) = qp
    BY <1>3, <1>5, <1>6, <1>9, <1>10, LoadStored
  <2>2. load(m5, Buf + 8, 2) = load(m4, Buf + 8, 2)
    BY <1>5, <1>6, <1>10, <1>11, <1>13, LoadElsewhere
  <2>3. load(m6, Buf + 8, 2) = load(m5, Buf + 8, 2)
    BY <1>1, <1>5, <1>6, <1>11, <1>12, <1>13, LoadElsewhere
  <2> QED
    BY <2>1, <2>2, <2>3, Zenon
<1>18. load(m6, Buf + 10, 2) = nid
  <2>1. load(m5, Buf + 10, 2) = nid
    BY <1>3, <1>5, <1>6, <1>10, <1>11, LoadStored
  <2>2. load(m6, Buf + 10, 2) = load(m5, Buf + 10, 2)
    BY <1>1, <1>5, <1>6, <1>11, <1>12, <1>13, LoadElsewhere
  <2> QED
    BY <2>1, <2>2, Zenon
<1>19. load(m6, Buf + 16, n) = p
  BY <1>1, <1>3, <1>5, <1>6, <1>12, LoadStored
<1>20. m6[Buf + 4] = r.rpc_type
  <2>1. load(m6, Buf + 4, 1)[1] = m6[Buf + 4 + 1 - 1] /\ Buf + 4 + 1 - 1 = Buf + 4
    BY <1>5, SMT DEF load
  <2> QED
    BY <1>4, <1>15, <2>1
<1>21. ASSUME NEW x \in Memory, x >= Buf + r.rpc_len PROVE m6[x] = m[x]
  <2>1. /\ x >= Buf + 16 + n /\ x >= Buf + 10 + 2 /\ x >= Buf + 8 + 2 /\ x >= Buf + 6 + 2
        /\ x >= Buf + 4 + 1 /\ x >= Buf + 4
    <3>1. x \in Nat /\ x >= Buf + (16 + n) /\ n \in Nat
      BY <1>1, <1>5, <1>21 DEF n
    <3> QED
      BY <1>5, <3>1, SMT
  <2>2. m6[x] = m5[x]
    BY <1>11, <1>12, <2>1, Zenon DEF Stored
  <2>3. m5[x] = m4[x]
    BY <1>10, <1>11, <2>1, Zenon DEF Stored
  <2>4. m4[x] = m3[x]
    BY <1>9, <1>10, <2>1, Zenon DEF Stored
  <2>5. m3[x] = m2[x]
    BY <1>8, <1>9, <2>1, Zenon DEF Stored
  <2>6. m2[x] = m1[x]
    BY <1>7, <1>8, <2>1, Zenon DEF Stored
  <2>7. m1[x] = m[x]
    BY <1>7, <2>1, Zenon DEF Stored
  <2> QED
    BY <2>2, <2>3, <2>4, <2>5, <2>6, <2>7, Zenon
<1>22. Packed(m6, r, p)
  BY <1>14, <1>16, <1>17, <1>18, <1>19, <1>20, Zenon DEF Packed, len, id, qp, nid, n
<1> QED
  BY <1>2, <1>12, <1>21, <1>22

(* unpackBufferToRPCLayer undoes packPayload: all but rpc_id, senders_qp   *)
(* and senders_nid on both platforms, and these in the simulators' build.  *)
LEMMA UnpackUndoesPack ==
  ASSUME NEW m, NEW r, NEW p, IsRPC(r, p), Packed(m, r, p)
  PROVE  /\ unpackBufferToRPCLayer(m).rpc_len = r.rpc_len
         /\ unpackBufferToRPCLayer(m).rpc_type = r.rpc_type
         /\ unpackBufferToRPCLayer(m).payload_len = Len(p)
         /\ Platform = "ZSIM" => unpackBufferToRPCLayer(m) = r
<1> DEFINE field(a, n) == HostValue(Network(load(m, a, n)))
           fields == Buf + (IF Platform = "ZSIM" THEN 6 ELSE 5)
           g == unpackBufferToRPCLayer(m)
<1>1. /\ Len(p) \in Nat /\ r.rpc_len = 16 + Len(p)
      /\ r.rpc_len \in Nat /\ r.rpc_len \div (256 * 256) < 256 * 128
      /\ r.rpc_id \in uint16_t /\ r.senders_qp \in uint16_t /\ r.senders_nid \in uint16_t
      /\ r = createRPCStruct(r.rpc_type, r.rpc_id, r.senders_qp, r.senders_nid, Len(p))
  BY FieldsOfRPC
<1>2. 2 \in {2, 4} /\ 4 \in {2, 4}
  OBVIOUS
<1>3. field(Buf, 4) = r.rpc_len
  <2> DEFINE v == r.rpc_len
  <2>1. load(m, Buf, 4) = Network(HostBytes(v, 4))
    BY Zenon DEF Packed
  <2>2. Network(Network(HostBytes(v, 4))) = HostBytes(v, 4)
    BY <1>2, ThereAndBack, Zenon
  <2>3. v \in Nat /\ v \div (256 * 256) < 256 * 128
    BY <1>1
  <2> HIDE DEF v
  <2>4. HostValue(HostBytes(v, 4)) = v
    BY <2>3, FourBytes
  <2>5. field(Buf, 4) = v
    BY <2>1, <2>2, <2>4, Zenon
  <2> QED
    BY <2>5 DEF v
<1>4. g = createRPCStruct(m[Buf + 4], field(fields, 2), field(fields + 2, 2),
                          field(fields + 4, 2), field(Buf, 4) - calcTotalHeaderBytes)
  BY Zenon DEF unpackBufferToRPCLayer
<1>5. m[Buf + 4] = r.rpc_type /\ field(Buf, 4) - calcTotalHeaderBytes = Len(p)
  <2>1. m[Buf + 4] = r.rpc_type
    BY Zenon DEF Packed
  <2> HIDE DEF field
  <2>2. field(Buf, 4) - calcTotalHeaderBytes = Len(p)
    BY <1>1, <1>3, Layout
  <2> QED
    BY <2>1, <2>2
<1> HIDE DEF g, field, fields
<1>6. g = createRPCStruct(r.rpc_type, field(fields, 2), field(fields + 2, 2),
                          field(fields + 4, 2), Len(p))
  BY <1>4, <1>5
<1>7. g.rpc_len = calcTotalHeaderBytes + Len(p) /\ g.rpc_type = r.rpc_type /\ g.payload_len = Len(p)
  BY <1>6, SMT DEF createRPCStruct
<1>8. ASSUME Platform = "ZSIM" PROVE g = r
  <2>1. ASSUME NEW v \in uint16_t, NEW a, load(m, a, 2) = Network(HostBytes(v, 2))
        PROVE  field(a, 2) = v
    <3>1. Network(Network(HostBytes(v, 2))) = HostBytes(v, 2)
      BY <1>2, ThereAndBack, Zenon
    <3>2. HostValue(HostBytes(v, 2)) = v
      BY TwoBytes
    <3> QED
      BY <2>1, <3>1, <3>2, Zenon DEF field
  <2>2. fields = Buf + 6 /\ fields + 2 = Buf + 8 /\ fields + 4 = Buf + 10
    BY <1>8, Layout, SMT DEF fields
  <2>3. field(Buf + 6, 2) = r.rpc_id
    BY <1>1, <2>1, Zenon DEF Packed
  <2>4. field(Buf + 8, 2) = r.senders_qp
    BY <1>1, <2>1, Zenon DEF Packed
  <2>5. field(Buf + 10, 2) = r.senders_nid
    BY <1>1, <2>1, Zenon DEF Packed
  <2> QED
    BY <1>1, <1>6, <2>2, <2>3, <2>4, <2>5, Zenon
<1> QED
  BY <1>1, <1>7, <1>8, Layout DEF g
-----------------------------------------------------------------------------
(* The inductive invariant: from its creation on the RPC is one that a     *)
(* caller passes, from packPayload on its bytes are in memory, and at the  *)
(* end the receiver has what unpackBufferToRPCLayer makes of them.         *)
CodecInv ==
  /\ pc \in {"create", "pack", "unpack", "unpacked"}
  /\ DOMAIN mem = Memory
  /\ pc # "create" => IsRPC(rpc, payload)
  /\ pc \in {"unpack", "unpacked"} => Packed(mem, rpc, payload)
  /\ pc = "unpacked" => got = unpackBufferToRPCLayer(mem)

(* It holds in every state. *)
LEMMA CodecInvariant == Spec => []CodecInv
<1>1. Init => CodecInv
  <2> SUFFICES ASSUME Init PROVE CodecInv
    OBVIOUS
  <2>1. pc = "create" /\ DOMAIN mem = Memory
    BY DEF Init
  <2> QED
    BY <2>1 DEF CodecInv
<1>2. CodecInv /\ [Next]_vars => CodecInv'
  <2> SUFFICES ASSUME CodecInv, [Next]_vars PROVE CodecInv'
    OBVIOUS
  <2>1. CASE Create
    <3>1. pc' = "pack" /\ mem' = mem
      BY <2>1 DEF Create
    <3>2. IsRPC(rpc', payload')
      <4>1. PICK t \in Types, id \in Ids, qp \in Ids, nid \in Ids, p \in Payloads :
              rpc' = createRPCStruct(t, id, qp, nid, Len(p)) /\ payload' = p
        BY <2>1, Zenon DEF Create
      <4> QED
        BY <4>1, Zenon DEF IsRPC
    <3> QED
      BY <3>1, <3>2 DEF CodecInv
  <2>2. CASE Pack
    <3>1. /\ pc = "pack" /\ pc' = "unpack" /\ mem' = packPayload(mem, rpc, payload)
          /\ UNCHANGED <<Platform, rpc, payload>>
      BY <2>2 DEF Pack
    <3>2. DOMAIN mem = Memory /\ IsRPC(rpc, payload)
      BY <3>1 DEF CodecInv
    <3>3. DOMAIN mem' = Memory /\ Packed(mem', rpc, payload)
      BY <3>1, <3>2, PackStores
    <3>4. Packed(mem, rpc, payload)' /\ IsRPC(rpc, payload)'
      BY <3>1, <3>2, <3>3 DEF Packed, Network
    <3> QED
      BY <3>1, <3>3, <3>4 DEF CodecInv
  <2>3. CASE Unpack
    <3>1. /\ pc = "unpack" /\ pc' = "unpacked" /\ got' = unpackBufferToRPCLayer(mem)
          /\ UNCHANGED <<Platform, mem, rpc, payload>>
      BY <2>3 DEF Unpack
    <3>2. unpackBufferToRPCLayer(mem)' = unpackBufferToRPCLayer(mem)
      BY <3>1 DEF unpackBufferToRPCLayer, Network
    <3>3. Packed(mem, rpc, payload)' /\ IsRPC(rpc, payload)'
      BY <3>1 DEF CodecInv, Packed, Network
    <3> QED
      BY <3>1, <3>2, <3>3 DEF CodecInv
  <2>4. CASE Reuse
    BY <2>4 DEF Reuse, CodecInv
  <2>5. CASE UNCHANGED vars
    <3>1. UNCHANGED <<Platform, pc, mem, rpc, payload, got>>
      BY <2>5 DEF vars
    <3>2. unpackBufferToRPCLayer(mem)' = unpackBufferToRPCLayer(mem)
      BY <3>1 DEF unpackBufferToRPCLayer, Network
    <3>3. Packed(mem, rpc, payload)' = Packed(mem, rpc, payload)
      BY <3>1 DEF Packed, Network
    <3> QED
      BY <3>1, <3>2, <3>3 DEF CodecInv
  <2> QED
    BY <2>1, <2>2, <2>3, <2>4, <2>5 DEF Next
<1> QED
  BY <1>1, <1>2, PTL DEF Spec

(* For every payload that fits, every identifier and whatever the buffer   *)
(* held before: unpackBufferToRPCLayer returns the type, the lengths and   *)
(* the payload that packPayload stored, and in the simulators' build the   *)
(* whole header.                                                           *)
THEOREM RoundTripHolds == Spec => []RoundTrip
<1>1. CodecInv => RoundTrip
  <2> SUFFICES ASSUME CodecInv, pc = "unpacked"
               PROVE  /\ \A f \in {"rpc_len", "rpc_type", "payload_len"} : got[f] = rpc[f]
                      /\ load(mem, Buf + calcTotalHeaderBytes, got.payload_len) = payload
                      /\ Platform = "ZSIM" => got = rpc
    BY DEF RoundTrip
  <2>1. /\ IsRPC(rpc, payload) /\ Packed(mem, rpc, payload)
        /\ got = unpackBufferToRPCLayer(mem)
    BY DEF CodecInv
  <2>2. /\ got.rpc_len = rpc.rpc_len /\ got.rpc_type = rpc.rpc_type
        /\ got.payload_len = Len(payload) /\ (Platform = "ZSIM" => got = rpc)
    BY <2>1, UnpackUndoesPack
  <2>3. rpc.payload_len = Len(payload)
    BY <2>1, FieldsOfRPC
  <2>4. load(mem, Buf + calcTotalHeaderBytes, got.payload_len) = payload
    <3>1. load(mem, Buf + 16, Len(payload)) = payload
      BY <2>1, Zenon DEF Packed
    <3> QED
      BY <2>2, <3>1, Layout
  <2> QED
    BY <2>2, <2>3, <2>4
<1> QED
  BY <1>1, CodecInvariant, PTL

(* For every payload that fits: packPayload changes no byte outside the    *)
(* rpc_len bytes from the start of the buffer on, and nothing else changes *)
(* any.                                                                    *)
THEOREM PackStaysWithin == Spec => PackWithinRpcLen
<1> DEFINE Within == \A a \in Memory : mem'[a] # mem[a] => a \in Buf .. Buf + rpc.rpc_len - 1
<1>1. CodecInv /\ [Next]_vars => [Within]_vars
  <2> SUFFICES ASSUME CodecInv, Next PROVE Within
    OBVIOUS
  <2>1. CASE Pack
    <3>1. mem' = packPayload(mem, rpc, payload) /\ DOMAIN mem = Memory /\ IsRPC(rpc, payload)
      BY <2>1 DEF Pack, CodecInv
    <3>2. rpc.rpc_len \in Nat /\ Buf \in Nat /\ BufSize \in Nat
      BY <3>1, FieldsOfRPC, Layout, RpcCodecAssumption
    <3> SUFFICES ASSUME NEW a \in Memory, mem'[a] # mem[a]
                 PROVE  a \in Buf .. Buf + rpc.rpc_len - 1
      OBVIOUS
    <3>3. ~(a >= Buf + rpc.rpc_len)
      BY <3>1, PackStores
    <3>4. a \in Int /\ a >= Buf
      BY <3>2, SMT DEF Memory
    <3> QED
      BY <3>2, <3>3, <3>4, SMT
  <2>2. CASE Create \/ Unpack \/ Reuse
    <3>1. mem' = mem
      BY <2>2 DEF Create, Unpack, Reuse
    <3> QED
      BY <3>1
  <2> QED
    BY <2>1, <2>2 DEF Next
<1> QED
  BY <1>1, CodecInvariant, PTL DEF Spec, PackWithinRpcLen
=============================================================================
