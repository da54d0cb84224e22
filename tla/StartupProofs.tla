--------------------------- MODULE StartupProofs ---------------------------
(***************************************************************************)
(* Proofs about Startup for every number of threads, every option line and *)
(* every combination of failures: type correctness, and the three safety   *)
(* properties of the start barrier, the registration in the context and    *)
(* the end of the process.                                                 *)
(***************************************************************************)
EXTENDS Startup, TLAPS

(* A thread exists only once main creates threads, its number is below     *)
(* num_threads, and the context has as many places as there are threads.   *)
ThreadsStarted ==
  /\ \A t \in Threads :
       thread[t] # "none" =>
         t < num_threads /\ num_qps = num_threads
           /\ mpc \in {"spawn", "join", "exit0", "crash"}
  /\ mpc \in {"barrier", "spawn"} => num_qps = num_threads

(* main's loop index: the threads from i on are still to be created, or    *)
(* those before i have been joined.                                        *)
LoopIndex ==
  /\ mpc = "spawn" => \A t \in Threads : t >= i => thread[t] = "none"
  /\ mpc = "join"  => \A t \in Threads : t < i => thread[t] \in {"none", "done"}

(* The context holds exactly what the threads have registered.             *)
ContextExact ==
  /\ app_buffers = {t \in Threads : thread[t] \in {"buffer", "barrier", "running", "done"}}
  /\ ctx_qps = {t \in Threads : thread[t] \in {"barrier", "running", "done"}}

(* The threads pass the barrier together.                                  *)
PassedTogether ==
  \A t, u \in Threads :
    thread[t] \in {"running", "done"} /\ u < num_threads
       => thread[u] \in {"running", "done"}

(* The inductive invariant. *)
StartInv ==
  /\ TypeOK /\ ThreadsStarted /\ LoopIndex /\ ContextExact /\ PassedTogether
  /\ ExitAfterWorkers
-----------------------------------------------------------------------------
(* The defaults have the right types, and there are no threads.            *)
LEMMA StartInit == Init => StartInv
<1> SUFFICES ASSUME Init PROVE StartInv
  OBVIOUS
<1>1. {pgas, mapped, claimed, arrays} \subseteq BOOLEAN /\ client_done \in BOOLEAN
  BY Zenon DEF Init
<1>2. TypeOK
  BY <1>1, StartupAssumption DEF Init, TypeOK
<1>3. ThreadsStarted /\ LoopIndex /\ PassedTogether /\ ExitAfterWorkers
  BY DEF Init, ThreadsStarted, LoopIndex, PassedTogether, ExitAfterWorkers
<1>4. ContextExact
  BY DEF Init, ContextExact
<1> QED
  BY <1>2, <1>3, <1>4 DEF StartInv

(* The Boolean variables stay Boolean.                                     *)
LEMMA BooleanStep ==
  ASSUME TypeOK, [Next]_vars
  PROVE  {pgas', mapped', claimed', arrays'} \subseteq BOOLEAN /\ client_done' \in BOOLEAN
<1>1. {pgas, mapped, claimed, arrays} \subseteq BOOLEAN /\ client_done \in BOOLEAN
  BY DEF TypeOK
<1>2. AllocSucceeds \subseteq BOOLEAN /\ MappingSucceeds \subseteq BOOLEAN
  BY Zenon DEF AllocSucceeds, MappingSucceeds
<1>3. CASE CreateContext
  BY <1>1, <1>2, <1>3, Zenon DEF CreateContext
<1>4. CASE InitBarrier
  BY <1>1, <1>2, <1>4, Zenon DEF InitBarrier
<1>5. CASE ClientDone
  BY <1>1, <1>5, Zenon DEF ClientDone, ctxVars
<1>6. ASSUME UNCHANGED <<ctxVars, client_done>>
      PROVE  {pgas', mapped', claimed', arrays'} \subseteq BOOLEAN /\ client_done' \in BOOLEAN
  BY <1>1, <1>6, Zenon DEF ctxVars
<1>7. CASE ParseOption \/ CheckArguments \/ SpawnCrash \/ SpawnWorker
             \/ SpawnDone \/ JoinWorker \/ JoinDone
  BY <1>6, <1>7 DEF ParseOption, CheckArguments, SpawnCrash, SpawnWorker,
                    SpawnDone, JoinWorker, JoinDone
<1>8. ASSUME NEW t \in Threads,
             ThreadStep(t) \/ WorkerAnswers(t) \/ WorkerDividesByZero(t) \/ NicDeliver(t)
      PROVE  UNCHANGED <<ctxVars, client_done>>
  BY <1>8 DEF ThreadStep, RegisterLocalBuffer, RegisterQP, WorkerReturns,
              WorkerAnswers, WorkerDividesByZero, NicDeliver
<1>9. CASE BarrierOpens
  BY <1>6, <1>9 DEF BarrierOpens
<1>10. CASE UNCHANGED vars
  BY <1>6, <1>10 DEF vars
<1> QED
  BY <1>3, <1>4, <1>5, <1>6, <1>7, <1>8, <1>9, <1>10 DEF Next, MainStep

(* kal_reg_ctx counts the queue pairs in unsigned arithmetic: from 0 to    *)
(* num_threads - 1 there are num_threads of them, also when there are none.*)
LEMMA QueuePairCount ==
  ASSUME NEW n \in Nat, NEW m \in Nat, n < m
  PROVE  (((n - 1) % m) + 1) % m = n
<1>1. CASE n = 0
  <2>1. (0 - 1) % m = m - 1
    OBVIOUS
  <2>2. (m - 1) + 1 = m /\ m % m = 0
    OBVIOUS
  <2> QED
    BY <1>1, <2>1, <2>2
<1>2. CASE n # 0
  <2>1. (n - 1) % m = n - 1 /\ n % m = n
    BY <1>2
  <2> QED
    BY <1>2, <2>1
<1> QED
  BY <1>1, <1>2
(* Every step of main keeps the invariant.                                 *)
LEMMA MainKeepsInv == StartInv /\ MainStep => StartInv'
<1> SUFFICES ASSUME StartInv, MainStep PROVE StartInv'
  OBVIOUS
<1> USE StartupAssumption
<1>1. TypeOK /\ ThreadsStarted /\ LoopIndex /\ ContextExact /\ PassedTogether
        /\ ExitAfterWorkers
  BY DEF StartInv
<1>2. {pgas', mapped', claimed', arrays'} \subseteq BOOLEAN /\ client_done' \in BOOLEAN
  BY <1>1, BooleanStep DEF Next
<1>3. ASSUME UNCHANGED <<num_threads, thread, app_buffers, ctx_qps>>
      PROVE  ContextExact' /\ PassedTogether'
  BY <1>1, <1>3 DEF ContextExact, PassedTogether
<1>4. ASSUME mpc \in {"options", "context", "barrier"}
      PROVE  \A t \in Threads : thread[t] = "none"
  BY <1>1, <1>4 DEF ThreadsStarted
<1>5. CASE ParseOption
  <2>1. TypeOK'
    BY <1>1, <1>2, <1>5 DEF TypeOK, ParseOption, ctxVars, regVars
  <2>2. ThreadsStarted' /\ LoopIndex' /\ PassedTogether' /\ ExitAfterWorkers'
    BY <1>4, <1>5 DEF ParseOption, ThreadsStarted, LoopIndex, PassedTogether, ExitAfterWorkers
  <2>3. ContextExact'
    BY <1>1, <1>5 DEF ParseOption, regVars, ContextExact
  <2> QED
    BY <2>1, <2>2, <2>3 DEF StartInv
<1>6. CASE CheckArguments
  <2>1. TypeOK'
    BY <1>1, <1>2, <1>6 DEF TypeOK, CheckArguments, ctxVars, regVars, args
  <2>2. ThreadsStarted' /\ LoopIndex' /\ ExitAfterWorkers'
    BY <1>4, <1>6 DEF CheckArguments, ThreadsStarted, LoopIndex, ExitAfterWorkers
  <2> QED
    BY <1>3, <1>6, <2>1, <2>2 DEF StartInv, CheckArguments, args, regVars
<1>7. CASE CreateContext
  <2>1. num_qps' = num_threads /\ num_threads \in Nat
    BY <1>1, <1>7, QueuePairCount DEF TypeOK, CreateContext
  <2>2. TypeOK'
    BY <1>1, <1>2, <1>7, <2>1 DEF TypeOK, CreateContext, regVars, args
  <2>3. ThreadsStarted' /\ LoopIndex' /\ ExitAfterWorkers'
    BY <1>4, <1>7, <2>1 DEF CreateContext, args, ThreadsStarted, LoopIndex, ExitAfterWorkers
  <2> QED
    BY <1>3, <1>7, <2>2, <2>3 DEF StartInv, CreateContext, args, regVars
<1>8. CASE InitBarrier
  <2>1. TypeOK'
    BY <1>1, <1>2, <1>8 DEF TypeOK, InitBarrier, regVars, args
  <2>2. ThreadsStarted' /\ LoopIndex' /\ ExitAfterWorkers'
    BY <1>1, <1>4, <1>8 DEF InitBarrier, args, ThreadsStarted, LoopIndex, ExitAfterWorkers
  <2> QED
    BY <1>3, <1>8, <2>1, <2>2 DEF StartInv, InitBarrier, args, regVars
<1>9. CASE SpawnCrash
  <2>1. TypeOK'
    BY <1>1, <1>2, <1>9 DEF TypeOK, SpawnCrash, ctxVars, regVars, args
  <2>2. ThreadsStarted' /\ LoopIndex' /\ ExitAfterWorkers'
    BY <1>1, <1>9 DEF SpawnCrash, args, ctxVars, ThreadsStarted, LoopIndex, ExitAfterWorkers
  <2> QED
    BY <1>3, <1>9, <2>1, <2>2 DEF StartInv, SpawnCrash, args, regVars
<1>10. CASE SpawnWorker
  <2>1. /\ i \in Threads /\ i < num_threads /\ thread[i] = "none"
        /\ num_qps = num_threads /\ mpc = "spawn" /\ i \in Nat
    BY <1>1, <1>10 DEF TypeOK, SpawnWorker, Threads, LoopIndex, ThreadsStarted
  <2>2. \A t \in Threads : t \in Nat
    BY DEF Threads
  <2>3. \A t \in Threads : thread'[t] = thread[t] \/ (t = i /\ thread'[t] = "created")
    BY <1>1, <1>10 DEF TypeOK, SpawnWorker
  <2>4. TypeOK'
    BY <1>1, <1>2, <1>10, <2>1 DEF TypeOK, SpawnWorker, ctxVars, regVars, args
  <2>5. ThreadsStarted' /\ LoopIndex' /\ ExitAfterWorkers'
    BY <1>1, <1>10, <2>1, <2>2, <2>3
       DEF SpawnWorker, args, ctxVars, ThreadsStarted, LoopIndex, ExitAfterWorkers
  <2>6. ContextExact'
    BY <1>1, <1>10, <2>1, <2>3 DEF SpawnWorker, regVars, ContextExact
  <2>7. PassedTogether'
    BY <1>1, <1>10, <2>1, <2>3 DEF SpawnWorker, args, PassedTogether
  <2> QED
    BY <2>4, <2>5, <2>6, <2>7 DEF StartInv
<1>11. CASE SpawnDone
  <2>1. TypeOK'
    BY <1>1, <1>2, <1>11 DEF TypeOK, SpawnDone, ctxVars, regVars, args
  <2>2. ThreadsStarted' /\ LoopIndex' /\ ExitAfterWorkers'
    BY <1>1, <1>11 DEF SpawnDone, args, ctxVars, Threads, ThreadsStarted, LoopIndex,
                       ExitAfterWorkers
  <2> QED
    BY <1>3, <1>11, <2>1, <2>2 DEF StartInv, SpawnDone, args, regVars
<1>12. CASE JoinWorker
  <2>1. TypeOK'
    BY <1>1, <1>2, <1>12 DEF TypeOK, JoinWorker, ctxVars, regVars, args
  <2>2. i \in Nat /\ \A t \in Threads : t \in Nat
    BY <1>1 DEF TypeOK, Threads
  <2>3. ThreadsStarted' /\ LoopIndex' /\ ExitAfterWorkers'
    BY <1>1, <1>12, <2>2 DEF JoinWorker, args, ctxVars, ThreadsStarted, LoopIndex,
                             ExitAfterWorkers
  <2> QED
    BY <1>3, <1>12, <2>1, <2>3 DEF StartInv, JoinWorker, args, regVars
<1>13. CASE JoinDone
  <2>1. TypeOK'
    BY <1>1, <1>2, <1>13 DEF TypeOK, JoinDone, ctxVars, regVars, args
  <2>2. i \in Nat /\ num_threads \in Nat /\ \A t \in Threads : t \in Nat
    BY <1>1 DEF TypeOK, Threads
  <2>3. \A t \in Threads : thread[t] \in {"none", "done"}
    BY <1>1, <1>13, <2>2 DEF JoinDone, ThreadsStarted, LoopIndex
  <2>4. ThreadsStarted' /\ LoopIndex' /\ ExitAfterWorkers'
    BY <1>1, <1>13, <2>3 DEF JoinDone, args, ctxVars, ThreadsStarted, LoopIndex,
                             ExitAfterWorkers
  <2> QED
    BY <1>3, <1>13, <2>1, <2>4 DEF StartInv, JoinDone, args, regVars
<1> QED
  BY <1>5, <1>6, <1>7, <1>8, <1>9, <1>10, <1>11, <1>12, <1>13 DEF MainStep

(* Every step of a worker, alone, keeps the invariant.                     *)
LEMMA ThreadKeepsInv ==
  ASSUME StartInv, NEW t \in Threads,
         ThreadStep(t) \/ WorkerAnswers(t) \/ WorkerDividesByZero(t) \/ NicDeliver(t)
  PROVE  StartInv'
<1> USE StartupAssumption
<1>1. TypeOK /\ ThreadsStarted /\ LoopIndex /\ ContextExact /\ PassedTogether
        /\ ExitAfterWorkers
  BY DEF StartInv
<1>2. {pgas', mapped', claimed', arrays'} \subseteq BOOLEAN /\ client_done' \in BOOLEAN
  BY <1>1, BooleanStep DEF Next
<1>3. ASSUME UNCHANGED <<args, num_qps, i, thread, app_buffers, ctx_qps>>,
             mpc' = mpc \/ mpc' = "crash"
      PROVE  ThreadsStarted' /\ LoopIndex' /\ ContextExact' /\ PassedTogether'
               /\ ExitAfterWorkers'
  BY <1>1, <1>3 DEF args, ThreadsStarted, LoopIndex, ContextExact, PassedTogether,
                    ExitAfterWorkers
<1>4. CASE WorkerAnswers(t)
  <2>1. TypeOK'
    BY <1>1, <1>2, <1>4 DEF TypeOK, WorkerAnswers, ctxVars, args
  <2> QED
    BY <1>3, <1>4, <2>1 DEF StartInv, WorkerAnswers, ctxVars
<1>5. CASE WorkerDividesByZero(t)
  <2>1. TypeOK'
    BY <1>1, <1>2, <1>5 DEF TypeOK, WorkerDividesByZero, ctxVars, regVars, args
  <2> QED
    BY <1>3, <1>5, <2>1 DEF StartInv, WorkerDividesByZero, ctxVars, regVars
<1>6. CASE NicDeliver(t)
  <2>1. TypeOK'
    BY <1>1, <1>2, <1>6 DEF TypeOK, NicDeliver, ctxVars, args
  <2> QED
    BY <1>3, <1>6, <2>1 DEF StartInv, NicDeliver, ctxVars
<1>7. ASSUME NEW from, NEW to,
             thread[t] = from, thread' = [thread EXCEPT ![t] = to],
             <<from, to>> \in {<<"created", "buffer">>, <<"buffer", "barrier">>,
                               <<"running", "done">>},
             UNCHANGED <<args, num_qps, i, mpc>>
      PROVE  ThreadsStarted' /\ LoopIndex' /\ PassedTogether' /\ ExitAfterWorkers'
  <2>1. \A u \in Threads : thread'[u] = IF u = t THEN to ELSE thread[u]
    BY <1>1, <1>7 DEF TypeOK
  <2>2. from \notin {"none", "done"} /\ to # "none"
    BY <1>7
  <2>3. ThreadsStarted' /\ LoopIndex' /\ ExitAfterWorkers'
    BY <1>1, <1>7, <2>1, <2>2 DEF args, ThreadsStarted, LoopIndex, ExitAfterWorkers
  <2>4. \A u \in Threads : thread'[u] \in {"running", "done"}
                              <=> thread[u] \in {"running", "done"}
    BY <1>7, <2>1
  <2> QED
    BY <1>1, <1>7, <2>3, <2>4 DEF args, PassedTogether
<1>8. CASE RegisterLocalBuffer(t)
  <2>1. TypeOK'
    BY <1>1, <1>2, <1>8 DEF TypeOK, RegisterLocalBuffer, ctxVars, args
  <2>2. ThreadsStarted' /\ LoopIndex' /\ PassedTogether' /\ ExitAfterWorkers'
    BY <1>7, <1>8 DEF RegisterLocalBuffer, ctxVars
  <2>3. ContextExact'
    BY <1>1, <1>8 DEF TypeOK, RegisterLocalBuffer, ContextExact
  <2> QED
    BY <2>1, <2>2, <2>3 DEF StartInv
<1>9. CASE RegisterQP(t)
  <2>1. TypeOK'
    BY <1>1, <1>2, <1>9 DEF TypeOK, RegisterQP, ctxVars, args
  <2>2. ThreadsStarted' /\ LoopIndex' /\ PassedTogether' /\ ExitAfterWorkers'
    BY <1>7, <1>9 DEF RegisterQP, ctxVars
  <2>3. ContextExact'
    BY <1>1, <1>9 DEF TypeOK, RegisterQP, ContextExact
  <2> QED
    BY <2>1, <2>2, <2>3 DEF StartInv
<1>10. CASE WorkerReturns(t)
  <2>1. TypeOK'
    BY <1>1, <1>2, <1>10 DEF TypeOK, WorkerReturns, ctxVars, regVars, args
  <2>2. ThreadsStarted' /\ LoopIndex' /\ PassedTogether' /\ ExitAfterWorkers'
    BY <1>7, <1>10 DEF WorkerReturns, ctxVars
  <2>3. ContextExact'
    BY <1>1, <1>10 DEF TypeOK, WorkerReturns, regVars, ContextExact
  <2> QED
    BY <2>1, <2>2, <2>3 DEF StartInv
<1> QED
  BY <1>4, <1>5, <1>6, <1>8, <1>9, <1>10 DEF ThreadStep

(* The barrier lets through all the threads that main counted, or none.    *)
LEMMA BarrierKeepsInv == StartInv /\ BarrierOpens => StartInv'
<1> SUFFICES ASSUME StartInv, BarrierOpens PROVE StartInv'
  OBVIOUS
<1> USE StartupAssumption
<1>1. TypeOK /\ ThreadsStarted /\ LoopIndex /\ ContextExact /\ PassedTogether
        /\ ExitAfterWorkers
  BY DEF StartInv
<1>2. {pgas', mapped', claimed', arrays'} \subseteq BOOLEAN /\ client_done' \in BOOLEAN
  BY <1>1, BooleanStep DEF Next
<1>3. /\ AtBarrier = 0 .. num_threads - 1
      /\ UNCHANGED <<args, ctxVars, regVars, mpc, i, client_done>>
      /\ \A t \in Threads : thread'[t] = IF thread[t] = "barrier" THEN "running" ELSE thread[t]
  BY DEF BarrierOpens, AtBarrier
<1>4. TypeOK'
  BY <1>1, <1>2 DEF TypeOK, BarrierOpens, ctxVars, regVars, args
<1>5. ThreadsStarted' /\ LoopIndex' /\ ExitAfterWorkers'
  BY <1>1, <1>3 DEF args, ctxVars, ThreadsStarted, LoopIndex, ExitAfterWorkers
<1>6. ContextExact'
  BY <1>1, <1>3 DEF regVars, ContextExact
<1>7. PassedTogether'
  <2>1. \A u \in Threads : u < num_threads => thread[u] = "barrier"
    BY <1>1, <1>3 DEF AtBarrier, Threads, TypeOK
  <2> QED
    BY <1>3, <2>1 DEF args, PassedTogether
<1> QED
  BY <1>4, <1>5, <1>6, <1>7 DEF StartInv

(* The invariant is inductive.                                             *)
LEMMA StartStep == StartInv /\ [Next]_vars => StartInv'
<1> SUFFICES ASSUME StartInv, [Next]_vars PROVE StartInv'
  OBVIOUS
<1>1. ASSUME UNCHANGED <<args, ctxVars, regVars, mpc, i, thread>> PROVE StartInv'
  <2>1. {pgas', mapped', claimed', arrays'} \subseteq BOOLEAN /\ client_done' \in BOOLEAN
    BY BooleanStep DEF StartInv
  <2>2. TypeOK'
    BY <1>1, <2>1 DEF StartInv, TypeOK, args, ctxVars, regVars
  <2> QED
    BY <1>1, <2>2 DEF StartInv, ThreadsStarted, LoopIndex, ContextExact, PassedTogether,
                      ExitAfterWorkers, args, ctxVars, regVars
<1>2. CASE ClientDone
  BY <1>1, <1>2 DEF ClientDone
<1>3. CASE UNCHANGED vars
  BY <1>1, <1>3 DEF vars
<1> QED
  BY <1>2, <1>3, MainKeepsInv, ThreadKeepsInv, BarrierKeepsInv DEF Next

(* The inductive invariant holds always.                                   *)
LEMMA StartInvariant == Spec => []StartInv
BY StartInit, StartStep, PTL DEF Spec

-----------------------------------------------------------------------------
(* Every variable of the start-up keeps its type; main's loop index stays  *)
(* within its arrays and the number of queue pairs does not wrap.          *)
THEOREM TypeCorrect == Spec => []TypeOK
<1>1. StartInv => TypeOK
  BY DEF StartInv
<1> QED
  BY <1>1, StartInvariant, PTL

(* No worker polls before all have registered with the context, for any    *)
(* number of threads and whichever of them could not be created.           *)
THEOREM RegisteredBeforeRunning == Spec => []AllRegisteredBeforeRunning
<1>1. ASSUME StartInv, NEW t \in Threads, thread[t] \in {"running", "done"}
      PROVE  app_buffers = 0 .. num_threads - 1 /\ ctx_qps = 0 .. num_threads - 1
  <2>1. 0 .. num_threads - 1 \subseteq Threads
    BY <1>1, StartupAssumption DEF StartInv, TypeOK, Threads
  <2>2. \A u \in 0 .. num_threads - 1 : thread[u] \in {"running", "done"}
    BY <1>1, <2>1 DEF StartInv, TypeOK, PassedTogether
  <2>3. \A u \in Threads : thread[u] # "none" => u \in 0 .. num_threads - 1
    BY StartupAssumption, <1>1 DEF StartInv, TypeOK, ThreadsStarted, Threads
  <2> QED
    BY <1>1, <2>1, <2>2, <2>3 DEF StartInv, ContextExact
<1>2. StartInv => AllRegisteredBeforeRunning
  BY <1>1 DEF AllRegisteredBeforeRunning
<1> QED
  BY <1>2, StartInvariant, PTL

(* A worker that registers finds its place in the vectors of the context:  *)
(* at() does not throw.                                                    *)
THEOREM RegistersInRange == Spec => []RegisterInRange
<1>1. StartInv => RegisterInRange
  <2> SUFFICES ASSUME StartInv, NEW t \in app_buffers \cup ctx_qps
               PROVE  t \in 0 .. num_qps - 1
    BY DEF RegisterInRange
  <2>1. t \in Threads /\ thread[t] # "none"
    BY DEF StartInv, ContextExact
  <2> QED
    BY <2>1, StartupAssumption DEF StartInv, TypeOK, ThreadsStarted, Threads
<1> QED
  BY <1>1, StartInvariant, PTL

(* main frees the barrier and leaves only when every worker has returned.  *)
THEOREM ExitsAfterWorkers == Spec => []ExitAfterWorkers
<1>1. StartInv => ExitAfterWorkers
  BY DEF StartInv
<1> QED
  BY <1>1, StartInvariant, PTL
=============================================================================
