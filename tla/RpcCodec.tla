------------------------------ MODULE RpcCodec ------------------------------
(***************************************************************************)
(* The encapsulation of an RPC in a network buffer (rpc.cpp):              *)
(* createRPCStruct fills the header, packPayload stores it and the payload *)
(* byte by byte into a buffer, unpackBufferToRPCLayer reads it back on the *)
(* other side.  The buffer is used for one RPC after the other and keeps   *)
(* what the last one left.  The code has two variants, chosen when it is   *)
(* compiled: the simulators (ZSIM) keep the order of bytes of the host,    *)
(* the other platform ("VM" in the code) uses the network's.               *)
(***************************************************************************)
EXTENDS Integers, Sequences

CONSTANTS
  Platforms,          \* the variants to look at
  Buf, BufSize,       \* address of the buffer, and its bytes
  Types, Ids, Payloads  \* what callers pass; payloads are sequences of bytes

VARIABLES
  Platform, \* the variant that was compiled
  pc,       \* the next call
  mem,      \* address -> byte
  rpc,      \* the sender's RPC
  payload,  \* and its payload
  got       \* the receiver's

vars == <<Platform, pc, mem, rpc, payload, got>>

getAlignmentReq == 8

(* Mutant: the header is taken for the bytes of its fields alone. *)
calcTotalHeaderBytesUnaligned == 4 + 2 + 2 + 2 + 2

(* rpc_len, rpc_type (twice its size), rpc_id, senders_qp, senders_nid *)
calcTotalHeaderBytes ==
  LET hbytes == 4 + 2 + 2 + 2 + 2
  IN  hbytes + (hbytes % getAlignmentReq)

createRPCStruct(aType, anRPCId, aQPId, aNID, aPayloadLen) ==
  [rpc_len |-> calcTotalHeaderBytes + aPayloadLen, rpc_type |-> aType,
   rpc_id |-> anRPCId, senders_qp |-> aQPId, senders_nid |-> aNID,
   payload_len |-> aPayloadLen]

uint8_t  == 0 .. 256 - 1
uint16_t == 0 .. 256 * 256 - 1

ASSUME RpcCodecAssumption ==
  /\ Platforms \subseteq {"ZSIM", "VM"}
  /\ Buf \in Nat /\ Buf % 8 = 0   \* the buffers are pages
  /\ BufSize \in Nat /\ BufSize \div (256 * 256) < 256 * 128   \* below 2^31
  /\ Types \subseteq uint8_t /\ Ids \subseteq uint16_t
  /\ Payloads \subseteq Seq(uint8_t)
  /\ \A p \in Payloads : calcTotalHeaderBytes + Len(p) <= BufSize

-----------------------------------------------------------------------------
(* Memory.  The host is little-endian; htonl and htons turn the bytes      *)
(* round on it, ntohl and ntohs turn them back.  Integers have two or four *)
(* bytes.                                                                  *)
Weight == <<1, 256, 256 * 256, 256 * 256 * 256>>
HostBytes(v, n)  == [k \in 1 .. n |-> (v \div Weight[k]) % 256]
HostValue(bytes) ==
  bytes[1] + bytes[2] * Weight[2]
  + IF Len(bytes) = 2 THEN 0 ELSE bytes[3] * Weight[3] + bytes[4] * Weight[4]
Network(bytes)   ==
  IF Platform = "ZSIM" THEN bytes
  ELSE [k \in 1 .. Len(bytes) |-> bytes[Len(bytes) + 1 - k]]

memcpy(m, a, bytes) ==
  [x \in DOMAIN m |-> IF x \in a .. a + Len(bytes) - 1 THEN bytes[x - a + 1] ELSE m[x]]
load(m, a, n) == [k \in 1 .. n |-> m[a + k - 1]]

Align(a) == a + (a % getAlignmentReq)

(* Mutant: the next field follows rpc_type at once. *)
packPayloadTight(m, r, p) ==
  LET len == memcpy(m,   Buf,     Network(HostBytes(r.rpc_len, 4)))
      typ == memcpy(len, Buf + 4, <<r.rpc_type>>)
      id  == memcpy(typ, Buf + 5, Network(HostBytes(r.rpc_id, 2)))
      qp  == memcpy(id,  Buf + 7, Network(HostBytes(r.senders_qp, 2)))
      nid == memcpy(qp,  Buf + 9, Network(HostBytes(r.senders_nid, 2)))
  IN  memcpy(nid, Align(Buf + 12), p)

packPayload(m, r, p) ==
  LET len == memcpy(m,   Buf,      Network(HostBytes(r.rpc_len, 4)))
      typ == memcpy(len, Buf + 4,  <<r.rpc_type>>)
      id  == memcpy(typ, Buf + 6,  Network(HostBytes(r.rpc_id, 2)))
      qp  == memcpy(id,  Buf + 8,  Network(HostBytes(r.senders_qp, 2)))
      nid == memcpy(qp,  Buf + 10, Network(HostBytes(r.senders_nid, 2)))
  IN  memcpy(nid, Align(Buf + 12), p)

(* The payload stays in the buffer, calcTotalHeaderBytes after its start.  *)
(* The simulators' variant skips two bytes for rpc_type, the other one.    *)
unpackBufferToRPCLayer(m) ==
  LET field(a, n) == HostValue(Network(load(m, a, n)))
      fields      == Buf + (IF Platform = "ZSIM" THEN 6 ELSE 5)
  IN  createRPCStruct(m[Buf + 4], field(fields, 2), field(fields + 2, 2),
                      field(fields + 4, 2), field(Buf, 4) - calcTotalHeaderBytes)

-----------------------------------------------------------------------------
NoRPC  == [rpc_len |-> -1]
Memory == Buf .. Buf + BufSize - 1

Init ==
  /\ Platform \in Platforms
  /\ pc = "create"
  /\ mem = [a \in Memory |-> 0]
  /\ rpc = NoRPC /\ payload = <<>> /\ got = NoRPC

Create ==
  /\ pc = "create"
  /\ \E t \in Types, id, qp, nid \in Ids, p \in Payloads :
       rpc' = createRPCStruct(t, id, qp, nid, Len(p)) /\ payload' = p
  /\ pc' = "pack"
  /\ UNCHANGED <<Platform, mem, got>>

Pack ==
  /\ pc = "pack"
  /\ mem' = packPayload(mem, rpc, payload)
  /\ pc' = "unpack"
  /\ UNCHANGED <<Platform, rpc, payload, got>>

Unpack ==
  /\ pc = "unpack"
  /\ got' = unpackBufferToRPCLayer(mem)
  /\ pc' = "unpacked"
  /\ UNCHANGED <<Platform, mem, rpc, payload>>

(* The buffer goes to the next caller. *)
Reuse ==
  /\ pc = "unpacked"
  /\ pc' = "create"
  /\ rpc' = NoRPC /\ payload' = <<>> /\ got' = NoRPC
  /\ UNCHANGED <<Platform, mem>>

Next == Create \/ Pack \/ Unpack \/ Reuse

Spec == Init /\ [][Next]_vars
-----------------------------------------------------------------------------
(* What survives the way through the buffer, whatever the buffer held      *)
(* before: on both platforms the type, the lengths and the payload, where  *)
(* the receiver looks for it; in the simulators' variant all of the        *)
(* header (the other variant reads rpc_id, senders_qp and senders_nid one  *)
(* byte early).                                                            *)
RoundTrip ==
  pc = "unpacked" =>
    /\ \A f \in {"rpc_len", "rpc_type", "payload_len"} : got[f] = rpc[f]
    /\ load(mem, Buf + calcTotalHeaderBytes, got.payload_len) = payload
    /\ Platform = "ZSIM" => got = rpc

(* packPayload stays inside the rpc_len bytes it announces, so that a      *)
(* transfer of rpc_len bytes carries the whole RPC and a buffer of that    *)
(* size is enough.                                                         *)
PackWithinRpcLen ==
  [][ \A a \in Memory :
        mem'[a] # mem[a] => a \in Buf .. Buf + rpc.rpc_len - 1 ]_vars
=============================================================================
