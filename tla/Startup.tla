------------------------------ MODULE Startup ------------------------------
(***************************************************************************)
(* The life of the simpNF process (main.c): main reads its options,        *)
(* creates the RPC context (createRPCNUMAContext with kal_reg_ctx and      *)
(* kal_reg_send_recv_bufs), initialises the start barrier, creates the     *)
(* worker threads and joins them.  Every worker registers its local buffer *)
(* and its queue pair in the shared context and then waits at the barrier, *)
(* so that no worker polls before all are set up.  The NIC may deliver     *)
(* packets to a queue pair as soon as it is registered.  After the barrier *)
(* a worker is the service of WorkerSpec, which module Worker implements,  *)
(* as long as it loses no packet (lost = 0; what makes it lose one, an     *)
(* unassigned payload_len, is module Worker's subject).                    *)
(***************************************************************************)
EXTENDS Integers

CONSTANTS
  MaxThreads,     \* bound: --num-threads and --qps-to-create up to here
  PacketSizes,    \* the values of --packet-size
  MaxOptions,     \* bound: options on the command line
  MaxPackets,     \* bound: packets that arrive for a worker
  CreateMayFail,  \* may pthread_create fail?
  AllocMayFail,   \* may an allocation or pthread_mutex_init fail?
  UIntMod         \* unsigned int arithmetic is modulo this; 2^32

CACHE_BLOCK_SIZE == 64

ASSUME StartupAssumption ==
  /\ {MaxThreads, MaxOptions, MaxPackets} \subseteq Nat
  /\ PacketSizes \subseteq Nat
  /\ {CreateMayFail, AllocMayFail} \subseteq BOOLEAN
  /\ UIntMod \in Nat /\ UIntMod > MaxThreads

VARIABLES
  num_threads, qps, packet_size,  \* the arguments
  options,      \* options read so far
  mpc,          \* where main is
  i,            \* main's loop index
  num_qps,      \* length of ctx->qps and ctx->app_buffers
  pgas,         \* kal_reg_ctx has allocated the memory context
  mapped,       \* kal_reg_send_recv_bufs has set up ctx_struct
  claimed,      \* createRPCNUMAContext has reported success for both
  arrays,       \* param_arr and thread_arr could be allocated
  thread,       \* worker -> where it is, "none" if it was not created
  app_buffers,  \* workers that registered their local buffer
  ctx_qps,      \* workers that registered their queue pair
  arrived,      \* worker -> packets the NIC has delivered to it
  answered,     \* worker -> replies
  client_done

args    == <<num_threads, qps, packet_size, options>>
ctxVars == <<num_qps, pgas, mapped, claimed, arrays>>
regVars == <<app_buffers, ctx_qps, arrived, answered>>
vars    == <<args, ctxVars, regVars, mpc, i, thread, client_done>>

Threads == 0 .. MaxThreads - 1

(* The defaults of main; the options are read one by one. *)
Init ==
  /\ num_threads = 0 /\ qps = 0 /\ packet_size = 512
  /\ options = 0
  /\ mpc = "options"
  /\ i = 0
  /\ num_qps = 0 /\ pgas = FALSE /\ mapped = FALSE /\ claimed = FALSE /\ arrays = FALSE
  /\ thread = [t \in Threads |-> "none"]
  /\ app_buffers = {} /\ ctx_qps = {}
  /\ arrived = [t \in Threads |-> 0] /\ answered = [t \in Threads |-> 0]
  /\ client_done = FALSE

-----------------------------------------------------------------------------
(* main *)

(* The options that matter here set one argument each, the last one wins;  *)
(* the others with a case of their own are read and change nothing here.   *)
(* "master" and "is-client" are declared and have no case: the default     *)
(* asserts.  The short -p is declared without an argument and atoi gets a  *)
(* null pointer.  For an unknown long option getopt_long runs past the     *)
(* table, which has no last element of zeros: it finds nothing or crashes. *)
ParseOption ==
  /\ mpc = "options"
  /\ options < MaxOptions
  /\ options' = options + 1
  /\ \/ \E n \in 0 .. MaxThreads :
          /\ \/ num_threads' = n /\ UNCHANGED qps
             \/ qps' = n /\ UNCHANGED num_threads
          /\ UNCHANGED <<packet_size, mpc>>
     \/ packet_size' \in PacketSizes /\ UNCHANGED <<num_threads, qps, mpc>>
     \/ mpc' \in {"options", "abort", "crash"} /\ UNCHANGED <<num_threads, qps, packet_size>>
  /\ UNCHANGED <<ctxVars, regVars, i, thread, client_done>>

(* assert(qps >= num_threads) *)
CheckArguments ==
  /\ mpc = "options"
  /\ mpc' = IF qps >= num_threads THEN "context" ELSE "abort"
  /\ UNCHANGED <<args, ctxVars, regVars, i, thread, client_done>>

(* kal_reg_ctx does not look at the result of posix_memalign and returns 0.*)
AllocSucceeds == {TRUE} \cup {~AllocMayFail}

(* kal_reg_send_recv_bufs refuses an entry size that is not a multiple of  *)
(* a cache block, and a missing send_ctrl.                                 *)
MappingSucceeds == {packet_size % CACHE_BLOCK_SIZE = 0 /\ ok : ok \in AllocSucceeds}

(* Mutant: the number of queue pairs is off by one. *)
CreateContextShort ==
  /\ mpc = "context"
  /\ pgas' \in AllocSucceeds
  /\ mapped' \in MappingSucceeds
  /\ claimed' = TRUE
  /\ num_qps' = IF num_threads = 0 THEN 0 ELSE num_threads - 1
  /\ mpc' = "barrier"
  /\ UNCHANGED <<args, arrays, regVars, i, thread, client_done>>

(* The result of kal_reg_send_recv_bufs is ignored, that of kal_reg_ctx    *)
(* shows no failure.  The last queue pair is num_threads - 1, in unsigned  *)
(* arithmetic, so there are ((num_threads - 1) - 0) + 1 of them.           *)
CreateContext ==
  /\ mpc = "context"
  /\ pgas' \in AllocSucceeds
  /\ mapped' \in MappingSucceeds
  /\ claimed' = TRUE
  /\ num_qps' = (((num_threads - 1) % UIntMod) + 1) % UIntMod
  /\ mpc' = "barrier"
  /\ UNCHANGED <<args, arrays, regVars, i, thread, client_done>>

(* main ends if the barrier or the lock cannot be allocated or initialised *)
(* (pthread_barrier_init also fails for no threads), and does not look     *)
(* whether its arrays could be.                                            *)
InitBarrier ==
  /\ mpc = "barrier"
  /\ arrays' \in AllocSucceeds
  /\ \/ mpc' = "exit1" /\ (num_threads = 0 \/ AllocMayFail)
     \/ mpc' = "spawn" /\ num_threads # 0
  /\ i' = 0
  /\ UNCHANGED <<args, num_qps, pgas, mapped, claimed, regVars, thread, client_done>>

(* The first access to an array that is missing. *)
SpawnCrash ==
  /\ mpc = "spawn"
  /\ ~arrays
  /\ mpc' = "crash"
  /\ UNCHANGED <<args, ctxVars, regVars, i, thread, client_done>>

(* Mutant: one thread too many. *)
SpawnWorkerExtra ==
  /\ mpc = "spawn"
  /\ arrays
  /\ i <= num_threads
  /\ \/ thread' = [thread EXCEPT ![i] = "created"]
     \/ CreateMayFail /\ UNCHANGED thread
  /\ i' = i + 1
  /\ UNCHANGED <<args, ctxVars, regVars, mpc, client_done>>

(* A failure of pthread_create is reported and otherwise ignored.          *)
SpawnWorker ==
  /\ mpc = "spawn"
  /\ arrays
  /\ i < num_threads
  /\ \/ thread' = [thread EXCEPT ![i] = "created"]
     \/ CreateMayFail /\ UNCHANGED thread
  /\ i' = i + 1
  /\ UNCHANGED <<args, ctxVars, regVars, mpc, client_done>>

SpawnDone ==
  /\ mpc = "spawn"
  /\ i >= num_threads
  /\ i' = 0
  /\ mpc' = "join"
  /\ UNCHANGED <<args, ctxVars, regVars, thread, client_done>>

(* Joining a thread that was never created uses an uninitialised           *)
(* pthread_t: the call comes back with an error or main crashes.           *)
JoinWorker ==
  /\ mpc = "join"
  /\ i < num_threads
  /\ thread[i] \in {"done", "none"}
  /\ \/ i' = i + 1 /\ UNCHANGED mpc
     \/ thread[i] = "none" /\ mpc' = "crash" /\ UNCHANGED i
  /\ UNCHANGED <<args, ctxVars, regVars, thread, client_done>>

(* Mutant: the last worker is not joined. *)
JoinDoneEarly ==
  /\ mpc = "join"
  /\ i >= num_threads - 1
  /\ mpc' = "exit0"
  /\ UNCHANGED <<args, ctxVars, regVars, i, thread, client_done>>

(* All joined: the barrier and the lock are freed and main returns.        *)
JoinDone ==
  /\ mpc = "join"
  /\ i >= num_threads
  /\ mpc' = "exit0"
  /\ UNCHANGED <<args, ctxVars, regVars, i, thread, client_done>>

-----------------------------------------------------------------------------
(* run_worker, up to the end of its set-up *)

RegisterLocalBuffer(t) ==
  /\ thread[t] = "created"
  /\ app_buffers' = app_buffers \cup {t}
  /\ thread' = [thread EXCEPT ![t] = "buffer"]
  /\ UNCHANGED <<args, ctxVars, ctx_qps, arrived, answered, mpc, i, client_done>>

RegisterQP(t) ==
  /\ thread[t] = "buffer"
  /\ ctx_qps' = ctx_qps \cup {t}
  /\ thread' = [thread EXCEPT ![t] = "barrier"]
  /\ UNCHANGED <<args, ctxVars, app_buffers, arrived, answered, mpc, i, client_done>>

AtBarrier == {t \in Threads : thread[t] = "barrier"}

(* Mutant: a worker does not wait for the others. *)
BarrierOpensAlone ==
  /\ \E t \in AtBarrier : thread' = [thread EXCEPT ![t] = "running"]
  /\ UNCHANGED <<args, ctxVars, regVars, mpc, i, client_done>>

(* Mutant: the barrier also counts main. *)
BarrierOpensWithMain ==
  /\ num_threads > 0
  /\ AtBarrier = 0 .. num_threads
  /\ thread' = [t \in Threads |-> IF t \in AtBarrier THEN "running" ELSE thread[t]]
  /\ UNCHANGED <<args, ctxVars, regVars, mpc, i, client_done>>

(* pthread_barrier_wait releases its num_threads waiters together.         *)
BarrierOpens ==
  /\ mpc # "crash"
  /\ num_threads > 0
  /\ AtBarrier = 0 .. num_threads - 1
  /\ thread' = [t \in Threads |-> IF t \in AtBarrier THEN "running" ELSE thread[t]]
  /\ UNCHANGED <<args, ctxVars, regVars, mpc, i, client_done>>

(* After the barrier: Answer and Stop of WorkerSpec.                       *)
WorkerAnswers(t) ==
  /\ mpc # "crash"
  /\ thread[t] = "running"
  /\ answered[t] < arrived[t]
  /\ answered' = [answered EXCEPT ![t] = @ + 1]
  /\ UNCHANGED <<args, ctxVars, app_buffers, ctx_qps, arrived, mpc, i, thread, client_done>>

(* After a refused entry size msgs_per_dest was never assigned, and        *)
(* sendToNode_zsim takes a remainder by it: if it is 0 the process dies.   *)
WorkerDividesByZero(t) ==
  /\ thread[t] = "running"
  /\ answered[t] < arrived[t]
  /\ packet_size % CACHE_BLOCK_SIZE # 0
  /\ mpc' = "crash"
  /\ UNCHANGED <<args, ctxVars, regVars, i, thread, client_done>>

WorkerReturns(t) ==
  /\ thread[t] = "running"
  /\ client_done
  /\ thread' = [thread EXCEPT ![t] = "done"]
  /\ UNCHANGED <<args, ctxVars, regVars, mpc, i, client_done>>

ThreadStep(t) ==
  /\ mpc # "crash"
  /\ RegisterLocalBuffer(t) \/ RegisterQP(t) \/ WorkerReturns(t)

(* The simulator (external).  A queue pair that is registered receives.    *)
NicDeliver(t) ==
  /\ t \in ctx_qps
  /\ mpc \in {"spawn", "join"}
  /\ arrived[t] < MaxPackets
  /\ arrived' = [arrived EXCEPT ![t] = @ + 1]
  /\ UNCHANGED <<args, ctxVars, app_buffers, ctx_qps, answered, mpc, i, thread, client_done>>

ClientDone ==
  /\ ~client_done
  /\ client_done' = TRUE
  /\ UNCHANGED <<args, ctxVars, regVars, mpc, i, thread>>

-----------------------------------------------------------------------------
MainStep ==
  \/ ParseOption \/ CheckArguments \/ CreateContext \/ InitBarrier
  \/ SpawnCrash \/ SpawnWorker \/ SpawnDone \/ JoinWorker \/ JoinDone

Next ==
  \/ MainStep
  \/ \E t \in Threads :
       ThreadStep(t) \/ WorkerAnswers(t) \/ WorkerDividesByZero(t) \/ NicDeliver(t)
  \/ BarrierOpens
  \/ ClientDone

Spec == Init /\ [][Next]_vars

(* Every thread is scheduled by the operating system as long as it can     *)
(* run, and a worker's answers are those of WorkerSpec!LiveSpec.           *)
FairSpec ==
  /\ Spec
  /\ WF_vars(MainStep)
  /\ WF_vars(BarrierOpens)
  /\ \A t \in Threads : WF_vars(ThreadStep(t))
  /\ \A t \in Threads : WF_vars(~client_done /\ WorkerAnswers(t))
-----------------------------------------------------------------------------
(* Type invariant of main's locals, the context and the threads.           *)
TypeOK ==
  /\ num_threads \in 0 .. MaxThreads /\ qps \in 0 .. MaxThreads
  /\ packet_size \in PacketSizes \cup {512} /\ options \in 0 .. MaxOptions
  /\ mpc \in {"options", "context", "barrier", "spawn", "join",
              "exit0", "exit1", "abort", "crash"}
  /\ i \in 0 .. MaxThreads
  /\ num_qps \in Nat
  /\ {pgas, mapped, claimed, arrays} \subseteq BOOLEAN
  /\ thread \in [Threads -> {"none", "created", "buffer", "barrier", "running", "done"}]
  /\ app_buffers \subseteq Threads /\ ctx_qps \subseteq Threads
  /\ {arrived, answered} \subseteq [Threads -> 0 .. MaxPackets]
  /\ client_done \in BOOLEAN

(* No worker polls before every worker has registered its local buffer and *)
(* its queue pair in the shared context, also when some threads could not  *)
(* be created.                                                             *)
AllRegisteredBeforeRunning ==
  (\E t \in Threads : thread[t] \in {"running", "done"})
     => /\ app_buffers = 0 .. num_threads - 1
        /\ ctx_qps = 0 .. num_threads - 1

(* The vectors of the context have a place for every worker that           *)
(* registers: app_buffers.at and qps.at do not throw.                      *)
RegisterInRange == app_buffers \cup ctx_qps \subseteq 0 .. num_qps - 1

(* main frees the barrier and ends the process only when no worker is      *)
(* running or waiting at the barrier.                                      *)
ExitAfterWorkers ==
  mpc = "exit0" => \A t \in Threads : thread[t] \in {"none", "done"}

(* main waits in pthread_join and some thread could not be created: the    *)
(* others wait at a barrier that nobody can open.                          *)
SomeMissing == mpc = "join" /\ \E t \in 0 .. num_threads - 1 : thread[t] = "none"

(* Once the client is done the process ends: nobody waits for ever at the  *)
(* barrier or in a join, unless a thread could not be created.             *)
ProcessEnds ==
  client_done ~> (mpc \in {"exit0", "exit1", "abort", "crash"} \/ SomeMissing)

(* Every packet is answered, unless the client is done first, the process  *)
(* crashes or a thread could not be created: also a packet that arrived    *)
(* while its worker was still waiting at the barrier, or while main was    *)
(* still creating the others.                                              *)
PacketsAnswered ==
  \A t \in Threads : \A n \in 1 .. MaxPackets :
    (arrived[t] >= n) ~> (answered[t] >= n \/ client_done \/ SomeMissing \/ mpc = "crash")

(* What main is told: after "Ctx buffer was registered" there is a memory  *)
(* context, and after "Succeeded mapping send/recv slots for rpcvalet..."  *)
(* the send and receive slots are mapped.                                  *)
SuccessMeansMapped == claimed => pgas /\ mapped
=============================================================================
