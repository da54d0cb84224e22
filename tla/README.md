# A TLA+ verification project for simpNF

simpNF is a small network function that runs under the zsim simulator: worker
threads poll a simulated NIC for packets, answer every packet to its sender and
give the receive buffer back. The code comes in three layers:

* `simpNF/` - the program: `main.c` starts the threads, `worker.c` is the packet
  loop with batching;
* `rpc_shm/` - the RPC layer: the context shared by the threads, the send and
  receive paths, a circular receive buffer for one-sided writes, a header codec;
* `libzsim/` - the queue pairs shared with the NIC and the set-up of the
  messaging buffers.

The NIC itself (zsim) is not in the repository. Everything it does is modelled
from how this code uses it, and is marked external in `PROJECT.json`. The models
are of the ZSIM build, the one the worker is written for; `RpcCodec` also looks
at the other variant of the codec.

## 1. Inventory

| Part | State | Operations | Interacts with |
|---|---|---|---|
| Queue pair (`zsim_nic_defines.*`) | two rings of 512 slots (valid, SR, contents), `wq->head`, `wq->SR`, `cq->tail`, `cq->SR` | `rmc_hw_send`, `rmc_hw_recv`, `create_wq_entry`, `rmc_check_cq` | one worker and the NIC, through shared memory without locks |
| Worker (`worker.c`, packet path of `rpc.cpp`) | the batch (`rpcs`, `source_node_ids`, `batch_counter`, `batch_size`), `tmp_count`, the send buffers | `receiveRPCRequest_zsim_l3fwd`, dispatch, `batch_process_simpNF`, `sendToNode_zsim`, `do_Recv_zsim` | its queue pair; `client_done`, raised by the simulator |
| Start and stop (`main.c`, `createRPCNUMAContext`, set-up of `run_worker`) | arguments, `ctx->qps`, `ctx->app_buffers`, the barrier, the threads | argument check, context creation, spawn, register, barrier, join | all workers |
| CircularReceiveBuffer (`cbuf.*`) | sender's copy: `tail`, `senders_head`, `is_full`, `buffer_sr`, `sr_vector`; receiver's copy: `head`; the entries | `writeSRMetadata`, `incTail`, `incSendersHeadToFreeSpace`, `incHeadAfterMsgProcessed`, `zeroEntryNumber`, getters | a remote sender and a polling receiver |
| One-sided messages (`getCBufIdx`, `setupCircularBuffers`, `remoteBufferWrite`) | one buffer per client thread and server thread, all in one memory; a copy of every buffer object in each process | index arithmetic, remote write, poll | client threads and server threads; no caller in the build |
| RPC codec (`createRPCStruct`, `packPayload`, `unpackBufferToRPCLayer`) | a buffer that is used again | conversion, in two variants | no caller in the build |
| StatsContainer, DumpHex, `notify_*`, `RMCdefines.h` | - | files, printing, simulator hooks, unused definitions | - |

What is hard here:

* *Lock-free sharing with the NIC.* The two sides of a ring share no index. They
  agree only through a valid flag and a sense bit per slot whose meaning flips on
  each lap, and each operation touches shared memory several times: the NIC may
  act between the publication of an entry and the update of `head`, or between
  the release of a completion slot and the use of its copy.
* *A batch size that changes while a batch is open*: at the end of the warm-up,
  and at every poll time-out.
* *A full work queue*: `sendToNode_zsim` spins, `do_Recv_zsim` gives up silently,
  `rmc_check_cq` loops.
* *Shutdown at any moment*: `client_done` is raised by the simulator and read at
  two places.
* *Start-up*: registrations of all workers before any of them polls, packets
  that arrive while workers still wait, threads and memory that cannot be had,
  unsigned arithmetic on the number of queue pairs.
* *The machine underneath*: a packet count that is a wrapping int, a struct that
  is stored in pieces, some of them possibly after the NIC was told of it.
* *Stale views*: the sender of a circular buffer knows the free space only from
  credits that arrive late; `payload_len` of a received packet is never assigned.

`PROJECT.json` lists each of these under "hazards", at its line, with the
properties that watch it, or a note why none does.

## 2. Modules

| Module | Models |
|---|---|
| `QueuePairSpec` | what a queue pair promises: two bounded FIFO queues |
| `QueuePair` | the rings of `zsim_nic_defines.cpp`, step by step; implements `QueuePairSpec` |
| `QueuePairProofs` | its proofs |
| `Worker` | one worker thread and its packet path, composed with `QueuePairSpec` by INSTANCE, and the NIC behind the queues |
| `WorkerProofs` | its proofs: batches and replies, receive slots, flow control, send buffers |
| `WorkerServiceProofs` | its proofs: counting, loss at shutdown, the refinement of `WorkerSpec` |
| `WorkerSpec` | what a worker promises: an answer for every packet, its slot back, a stop; implemented by `Worker` |
| `SendPath`, `SendPathProofs` | the worker's loop and `create_wq_entry` at the grain of the machine, and proofs |
| `CircularBuffer`, `CircularBufferProofs` | `CircularReceiveBuffer`, sender's and receiver's copies, and proofs |
| `OneSided`, `OneSidedProofs` | many circular buffers in one memory: layout, remote writes, polling servers; and proofs |
| `RpcCodec`, `RpcCodecProofs` | the conversion between an RPC and the bytes of a buffer, both variants; and proofs |
| `Startup`, `StartupProofs` | `main` with its options, the shared context and the workers up to the barrier; after it each worker is the service of `WorkerSpec`; and proofs |
| `MC*` | instances for TLC |

Definitions named "Mutant" in their comment are single-fault variants of the
definition below them; they are not part of any specification and are used to
see that each property can fail.

### QueuePair

`wq` and `cq` are the `q` arrays of `rmc_wq_t` and `rmc_cq_t`; `head`, `wqSR`,
`tail`, `cqSR` are the application's fields and `nicTail`, `nicWqSR`, `nicHead`,
`nicCqSR` the NIC's own positions. `pc` is the place inside a library call; the
NIC can act between any two of its steps:

| Action | Code |
|---|---|
| `PostRefused`, `CreateWqEntry(r)`, `AdvanceHead` | `rmc_hw_send` / `rmc_hw_recv`: the -1 return; the store of the entry with the notification; the update of `head` and `SR` |
| `CheckBegin`, `CheckOuter`, `CheckCopy`, `CheckInvalidate`, `CheckAdvance`, `CheckNothing` | `rmc_check_cq`: the read of the slot at `head`; the copy of the slot at `tail` and the sense test; `valid = 0`; the update of `tail` and the decision on the copy; the end of the inner loop and the test of the outer one |
| `NicFetch`, `NicComplete(c)` | the NIC (external) |

The contents of an entry are a model value. The test of a slot and the store of an
entry into it are one step, and so is the copy of a completion: a slot that is
free stays the application's, one that holds a completion too. That the entry is
whole when the NIC looks is an assumption of this module; `SendPath` takes the store
apart and says how far it holds.

### Worker

The worker runs `rmc_check_cq` on abstract queues (`CheckOuter`, `CheckTake`,
`CheckEmpty`), inside the polling loop of `receiveRPCRequest_zsim_l3fwd`
(`PollCheck`, `PollTimeout`, `ReceiveRetry`, `ReceiveDone`, `ReceivePacket`), inside
the loop of `run_worker` (`WorkerExit`, `DispatchPacket`, `DispatchTimeout`), which
calls `batch_process_simpNF` (`SendHeader`, `SendPost`, `RecvPost`, `RecvDropped`,
`BatchDone`). A receive slot is a pair of node and index; a reply carries the
node, the send buffer and its number. `payload_len` is reduced to what
`run_worker` compares it with (0xdead, 0xbeef, anything else); for a received
packet it is a nondeterministic member of the constant `UninitLen`, which is all
three in the passing runs. `sent`, `accepted` and `misread` are history variables;
`misread` has the slots of the packets that `run_worker` takes for a time-out or for
the end because of their `payload_len`.

`WorkerSpec` is the worker seen from outside: counts of packets delivered,
answered, lost and returned, with `Deliver`, `Answer`, `Lose`, `Return`, `ClientDone`
and `Stop`. `Worker` maps onto it with the lengths of `sent` and `misread` and the
receive slots the NIC has back (`ImplementsService`). `NicTransmit` is `Answer`,
`ReceivePacket` is `Lose` when the packet is misread, `NicFree` is `Return`.

### SendPath

The same loop (`Packet`, `Timeout`, `BatchDone`) and the same posts (`PostBegin`,
`RecvDropped`, `Store`, `Notify`, `Advance`), with two abstractions undone.
`tmp_count` is an int in two's complement of `IntMod` values; signed overflow
wraps, which is what the build does. `Store` writes one field of the entry at a
time in any order. `Notify` needs the stores of `valid` and `SR` only: these are
volatile and so stay before the volatile asm of `register_buffer`, but the asm has no
"memory" clobber, so nothing keeps the other stores before it. They come before
the return from `rmc_hw_send` or `rmc_hw_recv` at the latest (`Advance`). The NIC
fetches the slot it expects next when it holds a notification. What `Worker` and
`QueuePair` already show (receiving, completions) is left out. `posted`, `fetched` (a
number) and `replies` (the number and the send buffer of each reply, in the order
they were posted) are histories.

### CircularBuffer

The sender's and the receiver's objects, and the memory between them. The method
that would call the sender's side (`remoteBufferWrite`) is compiled out, so the
caller is an environment: it writes when it holds a credit, in the order
`writeSRMetadata`, write, `incTail`. A credit may be for several entries.

### OneSided

`mem` is the memory of the server the buffers are laid out in, one entry (page) per
cell; `tail[<<n, b>>]` is the tail in client node n's copy of buffer b, `head[b]` the
head in the server's. A channel is a client node, one of its threads and a server
thread; `bufIdx` is `getCBufIdx`, with the numbers of clients and threads as
parameters. `RemoteBufferWrite` and `IncTail` are the two halves of
`remoteBufferWrite` (under `#if 0`), `ProcessHead` is the server's poll, zeroing and
step. The caller's window and its answers (`Credit`) and the server's loop
(`ServerStep`) are external. Any two channels are explored together.

### RpcCodec

Memory is a function from the `BufSize` addresses of the buffer to bytes.
`packPayload` stores the header
fields and the payload at the offsets and in the byte order of the variant,
`unpackBufferToRPCLayer` reads them back; the buffer keeps what it held before. The
variant (`Platform`) is chosen in the initial state. Buffers are aligned to 8
bytes: `packPayload` pads by the remainder of the address, so for other addresses
the payload is not where the reader looks.

### Startup

`mpc` and `i` are main's position, `thread[t]` the position of worker t. The options
are read one at a time (`ParseOption`), in any order and with repetition, the ones
that end in an assertion or a crash too. `CreateContext` contains
`kal_reg_ctx` and `kal_reg_send_recv_bufs`. Allocations and `pthread_create` may
fail. A barrier releases its waiters in one step (`BarrierOpens`, external).
Packets arrive for a queue pair from its registration on (`NicDeliver`,
external). After the barrier a worker answers and stops as in `WorkerSpec`
(`WorkerAnswers`, `WorkerReturns`) without `Lose`, or dies dividing by an unassigned
`msgs_per_dest` (`WorkerDividesByZero`). A context vector index out of range shows as
a violation of `RegisterInRange`.

## 3. Runs

| Run | Question | Result |
|---|---|---|
| `queue_pair` | Do the two sides of the rings agree in every interleaving? Are the one-slot tests exact? Are the rings FIFO queues, with liveness? Does `rmc_check_cq` return? | pass |
| `worker_safety` | Batch bounds, order and addressee of replies, single ownership of receive slots, and a stop once the client is done, with any value of the unassigned `payload_len` and a queue that fills up | pass |
| `worker_flow` | In the code's proportions with one node, and any value of `payload_len`: is every packet counted and answered, and every receive slot given back, but for the misread ones? No early reuse of a send buffer, bounded loss at shutdown; the worker implements `WorkerSpec` | pass |
| `send_path` | What can the NIC find of a half-written entry, and does it miss one? What happens to send buffers and batches when `tmp_count` overflows? | pass |
| `cbuf_ring` | Credits of any size, sense bits and overwriting | pass |
| `onesided` | Does every channel keep its messages, in order, in a ring of its own? Are they delivered? For which numbers of clients and threads is the layout right? | pass |
| `codec` | Does an RPC survive the way through a used buffer? Does packing stay inside `rpc_len`? | pass |
| `startup` | Registration before polling, ranges, exit after the workers, with failures; does the process end, are early packets answered? | pass |
| `worker_recv_dropped` | Is a slot ever lost when there are two nodes? | violated: finding 1 |
| `worker_uninit_len` | Is every packet counted when `payload_len` may hold anything? | violated: finding 2 |
| `cbuf_avail` | Is `getAvailSlots` right? | violated: finding 3 |
| `startup_mapped` | Do "Ctx buffer was registered" and "Succeeded mapping" mean it? | violated: finding 4 |

Findings:

1. `do_Recv_zsim` ignores that `rmc_hw_recv` was refused. Each packet takes two
   work-queue entries. One node has at most 256 packets in the worker's hands,
   so 512 slots always suffice (`worker_flow`, same ratio). With two nodes or more
   the queue can be full when a slot is returned, and the slot is lost.
2. The `payload_len` of a received packet is not assigned. If the memory holds
   0xbeef, for example from the previous time-out, the packet is silently lost
   together with its receive slot. `OnlyMisreadMissed` (`worker_flow`) says that
   nothing else makes the worker miss a packet.
3. `getAvailSlots` returns `numEntries` when the ring is full.
   `SendersViewExact` states what is true of it.
4. The failure of `kal_reg_send_recv_bufs` is ignored and its success printed.

Other disagreements, met while modelling, which the passing properties state
exactly instead of a run of their own:

* "NOTIFY zsim of wq write" (zsim_nic_defines.cpp:179) comes after the store of the
  entry in the source, but the compiler need not keep that order for `op`, `buf_addr`
  and the other fields that are not volatile, because the asm of `register_buffer`
  does not declare that it touches memory. (gcc 12 at -O3 happens to keep it.) A NIC
  that fetches at once would then find a request with fields of the one a lap
  before. `WholeOnceStored` states this exactly: a field is wrong only as long as
  its store is still to come.
* `kal_reg_ctx` (zsim_nic_defines.cpp:293) drops the result of `posix_memalign`, so that
  "Ctx buffer was registered" (rpc.cpp:179) is printed without one. `Startup` has
  the step, but no run states a property of it.
* `getCBufIdx` (rpc.cpp:629) multiplies the client by the number of clients, where
  a region has one buffer per client *thread*. The layout its comment describes
  (rpc.cpp:612) is right exactly for one client or as many threads per client as
  clients, as in the comment's example (`LayoutExact` in `MessagesInRegion`).
* `incSendersHeadToFreeSpace` (cbuf.cpp:54) goes to entry 0 when a credit for
  several entries passes the end of the ring, and a credit for the whole ring
  leaves `senders_head`, and with it `is_full`, as they were (found by the proof:
  TLC had looked at credits of up to three entries in a ring of four). Nothing else
  makes the sender's view wrong (`SendersViewExact`), and a caller that counts its credits itself is
  safe (`NothingOverwritten`).
* `tmp_count` overflows after 2^31 packets. The warm-up test (worker.c:163) then
  holds again: a batch that is open at this moment is cut to one packet and its
  others are never answered, which worker.c:188 warns of. It happens at no other
  moment (`SkipsOnlyAtOverflow`).
* The VM variant of `unpackBufferToRPCLayer` (rpc.cpp:740) skips one byte for
  `rpc_type` where `packPayload` skips two, so that rpc_id, senders_qp and
  senders_nid come out wrong; the rest survives (`RoundTrip`).
* `remoteBufferWrite` (rpc.cpp:332, compiled out) finds the ring full, sleeps once and writes over
  an unread message; `ChannelsFifo` holds for callers that keep at most a ring of
  messages outstanding.
* The buffers (256 pages each) are laid out in a memory context of two pages
  (rpc.cpp:142, 522). `OneSided` gives them memory of their own.
* Nothing assigns `totalNodeCount` and `threadsPerClient` of the context; they are
  constants of `OneSided`.

### Bounds

* Queue pair: 2 slots cover all relative positions of the two sides and of the
  end of the ring, both senses, full and empty, and two requests tell order; the
  state space is finite without any other bound, so laps are unlimited. The
  proofs cover every size.
* Worker: `MaxPackets` (3 to 5) packets with `BatchSize` 2, `WARMUP` 1 and
  `POLL_LIMIT` 1 make the warm-up end, full and timed-out batches and empty
  time-outs all occur, several times; with `MAX_NUM_WQ` 2 or 3 the queue fills up.
  `worker_flow` keeps the ratio 512 : 256 as 4 : 2. `MaxOther` = 1 completion that
  is not a packet exercises the skipped and the response branches. `payload_len` of
  a packet takes all its values. `NidMod` stands for 65536.
* SendPath: an int of 8 values (4 is the first negative), 9 packets: the count
  overflows with and without an open batch and comes back to 0. Two queue slots,
  used for several laps, hold old entries of both senses. `IntMod` is a multiple of
  the number of send buffers, as 2^32 is of 256.
* CircularBuffer: 4 entries, 12 messages (three laps), credits of one to four
  entries, the whole ring.
* OneSided: 2 clients with 2 threads, 2 server threads, rings of 2 entries and 3
  messages per channel, so that each ring wraps; all 28 pairs of channels.
  `LayoutExact` looks at up to 4 clients with up to 4 threads.
* RpcCodec: identifiers with one and two significant bytes, payloads of 0, 1 and 3
  bytes, each over each other's remains, in a buffer of 32 bytes. The proofs cover
  every identifier and every payload that fits a buffer below 2^31 bytes.
* Startup: up to 3 threads, 3 options and a packet per worker; `UIntMod` stands for
  2^32.

### Fairness

* The NIC keeps fetching work-queue entries (`WF(NicFetch)`, `WF(Egress)`): it is
  simulated hardware and is woken by every post. Arrivals, other completions and
  `client_done` are not fair.
* A library call that has begun, and a worker thread, keep running
  (`WF(CallStep)`, `WF(WorkerStep)`): each worker is bound to a core of its own by
  `sched_setaffinity`. Which calls an application makes is left open in
  `QueuePair`.
* In `Startup` every thread that can run is scheduled, and a barrier that is
  complete opens. A running worker answers, which is what `WorkerSpec!LiveSpec`
  promises and `worker_flow` shows. `ProcessEnds` and `PacketsAnswered` except a thread
  that could not be created: the barrier, initialised for all threads, then
  never opens.
* In `OneSided` a call of `remoteBufferWrite` that has begun goes on, and a server
  thread polls all its buffers for ever. That a caller sends is not fair.

Deadlock is checked for the rings and the worker (an exited worker may stutter).
`CircularBuffer`, `OneSided` and `SendPath` stop when their bound of messages or
packets is reached, and `Startup` when the process has ended, or hangs at the
barrier after a failed thread creation. `RpcCodec` never stops.

## 4. Proofs

`QueuePairProofs`, for every `MAX_NUM_WQ` > 0, every set of requests and tags
(assumptions `SizeAssumption`, and `NoValueAssumption`: an unwritten slot's
contents is neither a request nor a completion):

* `RingsAgree`: `Spec => []IInv`. The inductive invariant says, for each ring: the
  senses of the two sides tell which of them wrapped last (`Ordered`); a slot is
  valid exactly when it lies between consumer and producer (`InFlight`); a slot
  carries the producer's sense exactly when the producer has passed it on this
  lap. The positions are the *effective* ones (`appHead`, `appTail`): between the
  store and the update of the index a side counts as already advanced, without
  which the invariant would not be inductive across the NIC's steps. `CopyIsOldest`
  relates the local copy of `rmc_check_cq` to the ring while the slot is still
  the application's, `CopyIsCompletion` after it was given back.
* `TypeCorrect` and `OneSlotTestsExact` follow from it.
* `RingsImplementFifo`: `Spec => FifoSpec`. Under the mapping that reads each ring
  from consumer to producer, `CreateWqEntry` is Post, `NicFetch` is Fetch,
  `NicComplete` is Complete, `CheckInvalidate` is Take and every other step
  stutters. `ContentsAppend` and `ContentsTail` are the lemmas on reading a ring.

`WorkerProofs`, for every queue size, batch size, warm-up, poll limit, number of
nodes and set of values of the unassigned `payload_len` (assumption
`WorkerAssumption`; it includes that node numbers fit the uint16_t they are stored
in, as `num_nodes` is a uint16_t itself):

* `WorkerInvariant`: `Spec => []WorkerInv`. Besides the types and the two properties
  below it says that the batch holds the last `batch_counter` accepted packets with
  their senders (`BatchRecorded`); that it is empty between receives during the
  warm-up (`BatchOpen`), without which a batch could hold more than the 1 packet
  the warm-up processes; and that the replies in the work queue are strictly
  increasing in number, start at the number of replies transmitted and miss none
  (`RepliesQueued`), although returns of receive slots are interleaved with them
  and some of those are dropped. The last part is what makes the head of the queue
  the next reply.
* `BatchStaysInBounds` and `RepliesStayInOrder` follow, and type correctness
  (`WorkerTypeCorrect`).

The receive slots, in the same module, go on from `WorkerInv`:

* `SlotsOwnedOnce` (`SlotOwnedOnce`), with no other assumption. `HeldOnce` says the
  property as a relation between owners and slots; with `WorkerInv` it is inductive,
  because every step moves a slot from one owner to the next.
* `NoSlotLost` (`RecvSlotsFreed`: no slot is lost but those of misread packets) and
  `RecvNeverRefused` (`[][~RecvDropped]_vars`), under the hypothesis
  `QueueCoversSlots`: the work queue has two entries for each receive slot. With the
  512 and 256 of the code this is one node; finding 1 is what happens with two. The argument: replies and freed slots
  alternate in the work queue (`Alternates`), so that a full queue holds
  `MAX_NUM_WQ / 2` requests to free *different* slots, which with the slot in hand
  are more than there are (`RoomToFree`, a pigeonhole over `SlotsOwnedOnce`).
  `HandEmpty` says that a receive without a packet holds no slot that could be
  lost.
* `SendBuffersOwned` (`LbufOwned`), with `NumNodes` = 1 besides. Each waiting reply
  is followed by a slot of its own (`FewReplies`), so that fewer than `MSGS_PER_PAIR`
  replies wait when the next header is written; their numbers are consecutive
  (`RepliesQueued`), so their buffers differ (`BuffersDiffer`).

`WorkerServiceProofs`:

* `NoOtherPacketMissed` (`OnlyMisreadMissed`) and `LossIsBounded`
  (`BoundedLossAtShutdown`), with no hypothesis on `payload_len`. `CountedAll` follows a
  packet from the completion queue through the receive's local state to `tmp_count`
  or to `misread` (`Accounted`); the lemmas `CountAppend` and `CountTail` say how the
  number of packets in a queue changes.
* `ServiceImplemented`: `Spec => Service!Spec`, the safety part of
  `ImplementsService`, again for any `payload_len` and also when the queue refuses a
  slot. `AnswersFirst` says that a slot is returned after its reply, `CountedAll` that no
  packet is answered twice, `EndSeen` that a worker on its way out has seen
  `client_done` or misread a packet.

`CircularBufferProofs`, for every `numEntries` > 1: `SenseInvariant` (the sense bits
split the ring at `tail`) and `IncTailNeverAborts` (the assertion of `incTail`);
`NothingIsOverwritten`, for credits of any size, from `RingInv`: each index is its
side's count of messages modulo the ring, and at most a ring of messages is not
credited; and the action property `SendersViewIsExact`. Remainders are handled by
`DivisionUnique` and `Ahead`.

`StartupProofs`, for every number of threads, command line and combination of
failures: `TypeCorrect`, `RegisteredBeforeRunning`, `RegistersInRange`,
`ExitsAfterWorkers`. The inductive invariant `StartInv` adds that the context holds
exactly what the threads registered (`ContextExact`), that threads pass the barrier
together (`PassedTogether`), and what main's loop index says of the threads
(`LoopIndex`).

`SendPathProofs`, for every queue size, every width of the int and every order of
stores:

* `EntriesWholeOnceStored` (`WholeOnceStored`) and `WakeupsNotLost`
  (`NoLostWakeup`). `SendInv` counts the distance between the worker and the NIC,
  which share no index, from the histories (`Distance`); the entries in between are
  new to the NIC (`EntriesNew`) except the one whose `valid` and `SR` are being stored
  (`EntryBegun`), and the rest of the ring is not valid (`RestFree`). `SlotsHold` says
  what the other fields of *every* slot are, fetched or not: those of the last entry
  begun there, or of the one a lap before where a store is outstanding. It is needed
  for all slots because an entry that is begun inherits its old fields from a slot
  the NIC has long passed.
* `BuffersTakenInTurn` (`BuffersInTurn`) and `SkippedOnlyAtOverflow`
  (`SkipsOnlyAtOverflow`), for every batch size and warm-up shorter than half the range of the
  int. The send buffer of a reply is computed from `tmp_count`, which has forgotten
  how often it wrapped; because `IntMod` is a multiple of `MSGS_PER_PAIR`
  (`SendPathAssumption`) the remainder is that of the true number of packets.
  `OpenBatch` says that the batch is the last packets received and that the
  warm-up was over when the first of them came; so the batch can be cut short only
  by the packet that turns the int negative (`firstNegative`). `InTurn` says, with the
  requests of the present batch counted in, that every packet is answered, in the
  open batch, or was skipped at such a moment (`Accounted`), and that between two
  replies the numbers grow by one per reply except where packets were skipped
  (`Numbered`, `InStep`). Two moments of this kind are `IntMod` packets apart, so that
  fewer than `BatchSize` numbers are missing among replies that are close to each other,
  and their buffers differ; and `passed`, the number of such moments, bounds
  the packets that are lost.

`OneSidedProofs`:

* `LayoutIsExact`: the layout of `getCBufIdx` is right exactly for one client or as
  many threads per client as clients. `LayoutShape` shows it for *all* numbers of
  clients and threads, with two channels that collide, or one outside its region,
  for every other shape.
* `MessagesStayInRegion` (`MessagesInRegion`), for these shapes (`Shape`), every
  number of server threads and size of rings, and any window.
* `ChannelsAreQueues` (`ChannelsFifo`), if besides `WINDOW` <= `numEntries`: a longer
  window overwrites unread messages, as `remoteBufferWrite` does not refuse. `Ring`
  says that the messages in a ring are those written and not processed, each in
  the place its number gives; `PlacesDiffer` is where the window is needed: within
  a lap no place comes twice, so the message at the head is the next one.

`RpcCodecProofs`, for both variants, all types, identifiers and payloads, and
whatever the buffer held before. `RpcCodecAssumption` asks of the buffer what the
code takes for granted: it is aligned to 8 bytes, every RPC of the callers fits it,
and it has fewer than 2^31 bytes, so that a length fits the four bytes of `rpc_len`:

* `RoundTripHolds` (`RoundTrip`). `TwoBytes` and `FourBytes` say that an integer is the
  sum of its bytes, `ThereAndBack` that turning the bytes round twice changes
  nothing; `LoadStored` and `LoadElsewhere` say what a load finds after a store to the
  same and to another place. With `Layout` (16 header bytes, the payload right
  behind them, the five fields apart from each other) `PackStores` gives the bytes of
  every field after `packPayload`, and `UnpackUndoesPack` reads them back. The
  inductive invariant `CodecInv` carries these bytes from the call of `packPayload` to
  that of `unpackBufferToRPCLayer`.
* `PackStaysWithin` (`PackWithinRpcLen`), an action property: the six stores of
  `packPayload` lie between the start of the buffer and `rpc_len`, padding included,
  and no other step stores anything.

Only model-checked:

* every liveness property (`CheckReturns`, `ClientDoneStops`, `ArrivalAnswered`,
  `ProcessEnds`, `PacketsAnswered`, `MessagesDelivered`) and the liveness parts of
  `ImplementsFifo` and `ImplementsService` (the `LiveSpec` of the two abstract
  specifications): fairness is out of the prover's reach. The safety parts of both
  refinements are the theorems `RingsImplementFifo` and `ServiceImplemented`.

Every invariant and every safety action property of a passing run is a theorem. Those
of the violation runs are false of the code; `NoSlotLost` names the hypothesis under
which the first one holds, and `NoOtherPacketMissed` says how the second one is false.

## 5. Not modelled

StatsContainer (sequential file I/O that no thread calls), DumpHex (printing) and the
notifications (simulator hooks without effect on the modelled state);
`RMCdefines.h` (included by nothing) and `test_htonl.c`; `destroyRPCNUMAContext`, which
is never called; code under `#if 0` except `remoteBufferWrite`; the FLEXUS and QFLEX
builds; `--batchsize 0`, for which the arrays are empty and the first receive writes
outside them. The `RMC_SABRE` branch of `rmc_check_cq` is dead: nothing posts that
operation.

## 6. Plan

Done: the rings and their specification, and the worker on top of the
specification, proofs included; the worker's own specification, and start and
stop on top of it; the circular buffer, the one-sided path built from it and the
codec; the send path at machine grain.

Proved besides: the safety invariants of the worker (slots, flow control, send
buffers, counting, shutdown) and its refinement of `WorkerSpec`, start and stop, the
stores of the send path and its wrapping count, the circular buffer, the one-sided
path and the codec.

Next: several workers, each on its queue pair, sharing one NIC and one set of
receive slots.
