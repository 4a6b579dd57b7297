-------------------------- MODULE ThreadPoolProofs --------------------------
(***************************************************************************)
(* For every number of threads and of functions: the destructor of the     *)
(* pool of execution/simple_threadpool.h returns only when everything that *)
(* was scheduled has run, once, and no thread is left.                     *)
(***************************************************************************)
EXTENDS ThreadPool, SequenceTheorems, FiniteSetTheorems, TLAPS

\* Inv in parts, with the operators every step needs.
USE BoundsAssumption DEF nullptr, Workers, Alive

-----------------------------------------------------------------------------
(* Critical sections of WorkLoop and of ~ThreadPool.                       *)

\* The function popped is the next of the calls of Schedule while there is
\* one, and a signal afterwards; the rest of the queue is still in order.
LEMMA PopInOrder ==
  ASSUME Inv, NEW w \in Workers, Pop(w)
  PROVE  /\ Head(queue) = IF taken + 1 <= scheduled THEN taken + 1 ELSE nullptr
         /\ queue' \in Seq(0..MaxTasks)
         /\ taken' \in Nat
         /\ Len(queue') = Len(queue) - 1
         /\ \A i \in 1..Len(queue') :
              queue'[i] = IF taken' + i <= scheduled THEN taken' + i ELSE nullptr
<1>1. queue \in Seq(0..MaxTasks) /\ queue # <<>> /\ taken \in Nat
  BY DEF Inv, TypeOK, Pop
<1>2. Len(queue) \in Nat \ {0}
  BY <1>1, EmptySeq
<1>3. /\ queue' \in Seq(0..MaxTasks)
      /\ Len(queue') = Len(queue) - 1
      /\ \A i \in 1..Len(queue') : queue'[i] = queue[i + 1]
  BY <1>1, HeadTailProperties DEF Pop
<1>4. Head(queue) = queue[1]
  BY <1>1
<1>5. taken' = taken + 1
  BY DEF Pop
<1>6. scheduled \in Nat
  BY DEF Inv, TypeOK
<1>7. \A i \in 1..Len(queue) :
        queue[i] = IF taken + i <= scheduled THEN taken + i ELSE nullptr
  BY DEF Inv, QueueInOrder
<1>8. \A i \in 1..Len(queue') :
        queue'[i] = IF taken' + i <= scheduled THEN taken' + i ELSE nullptr
  <2>1. TAKE i \in 1..Len(queue')
  <2>2. i + 1 \in 1..Len(queue)
    BY <1>2, <1>3
  <2>3. taken' + i = taken + (i + 1)
    BY <1>1, <1>5
  <2> QED
    BY <1>3, <1>7, <2>2, <2>3
<1> QED
  BY <1>1, <1>2, <1>3, <1>4, <1>5, <1>7, <1>8

\* The destructor's signals come after everything that is queued.
LEMMA SignalsInOrder ==
  ASSUME Inv, PushShutdown
  PROVE  /\ queue' \in Seq(0..MaxTasks)
         /\ Len(queue') = Len(queue) + threads
         /\ \A i \in 1..Len(queue') :
              queue'[i] = IF taken + i <= scheduled THEN taken + i ELSE nullptr
<1> DEFINE signals == [i \in 1..threads |-> nullptr]
<1>1. queue \in Seq(0..MaxTasks) /\ threads \in Nat /\ Len(queue) \in Nat
  BY DEF Inv, TypeOK
<1>2. signals \in Seq(0..MaxTasks) /\ Len(signals) = threads
  BY <1>1
<1>3. /\ queue' \in Seq(0..MaxTasks)
      /\ Len(queue') = Len(queue) + threads
      /\ \A i \in 1..(Len(queue) + threads) :
           queue'[i] = IF i <= Len(queue) THEN queue[i]
                                          ELSE signals[i - Len(queue)]
  BY <1>1, <1>2, ConcatProperties DEF PushShutdown
<1>4. taken + Len(queue) = scheduled /\ taken \in Nat /\ scheduled \in Nat
  BY DEF Inv, TypeOK, QueueInOrder, Closing, PushShutdown
<1>5. \A i \in 1..Len(queue) :
        queue[i] = IF taken + i <= scheduled THEN taken + i ELSE nullptr
  BY DEF Inv, QueueInOrder
<1>6. \A i \in 1..(Len(queue) + threads) : i > Len(queue) =>
        signals[i - Len(queue)] = nullptr /\ ~ (taken + i <= scheduled)
  BY <1>1, <1>4
<1>7. ASSUME NEW i \in 1..Len(queue')
      PROVE  queue'[i] = IF taken + i <= scheduled THEN taken + i ELSE nullptr
  <2>1. i \in 1..(Len(queue) + threads)
    BY <1>3
  <2>2. CASE i <= Len(queue)
    BY <1>1, <1>3, <1>5, <2>1, <2>2
  <2>3. CASE i > Len(queue)
    BY <1>1, <1>3, <1>6, <2>1, <2>3
  <2> QED
    BY <1>1, <2>1, <2>2, <2>3
<1> QED
  BY <1>3, <1>7

-----------------------------------------------------------------------------
(* Inv is inductive: one lemma for the owner's actions, one for a worker's. *)

LEMMA InitInv == Init => Inv
<1> SUFFICES ASSUME Init PROVE Inv
  OBVIOUS
<1>1. TypeOK
  BY DEF Init, TypeOK
<1>2. QueueInOrder /\ TakenAccounted /\ ThreadsAccounted /\ OwnerInOrder
  BY DEF Init, QueueInOrder, TakenAccounted, ThreadsAccounted, OwnerInOrder,
         Closing
<1> QED
  BY <1>1, <1>2 DEF Inv

LEMMA OwnerKeepsInv == Inv /\ OwnerStep => Inv'
<1> SUFFICES ASSUME Inv, OwnerStep PROVE Inv'
  OBVIOUS
<1> USE DEF Inv
<1>1. CASE SpawnWorker
  <2>1. TypeOK'
    BY <1>1 DEF TypeOK, SpawnWorker
  <2>2. QueueInOrder' /\ OwnerInOrder'
    BY <1>1 DEF QueueInOrder, OwnerInOrder, SpawnWorker, Closing
  <2>3. TakenAccounted'
    BY <1>1 DEF TypeOK, TakenAccounted, ThreadsAccounted, SpawnWorker
  <2>4. ThreadsAccounted'
    BY <1>1 DEF TypeOK, ThreadsAccounted, SpawnWorker, Closing
  <2> QED
    BY <2>1, <2>2, <2>3, <2>4
<1>2. CASE SpawnFails
  BY <1>2 DEF TypeOK, QueueInOrder, TakenAccounted, ThreadsAccounted,
              OwnerInOrder, SpawnFails, Closing
<1>3. CASE Started
  BY <1>3 DEF TypeOK, QueueInOrder, TakenAccounted, ThreadsAccounted,
              OwnerInOrder, Started, Closing
<1>4. CASE Schedule
  <2>1. TypeOK'
    BY <1>4 DEF TypeOK, Schedule
  <2>2. QueueInOrder'
    <3>1. /\ taken \in Nat /\ scheduled \in Nat /\ Len(queue) \in Nat
          /\ taken + Len(queue) = scheduled
      BY <1>4 DEF TypeOK, QueueInOrder, Schedule, Closing
    <3>2. scheduled' = scheduled + 1 /\ taken' = taken /\ ~Closing'
      BY <1>4 DEF Schedule, Closing
    <3>3. /\ Len(queue') = Len(queue) + 1
          /\ \A i \in 1..Len(queue) : queue'[i] = queue[i]
          /\ queue'[Len(queue) + 1] = scheduled + 1
      BY <1>4, AppendProperties DEF TypeOK, Schedule
    <3>4. \A i \in 1..Len(queue) : queue[i] = taken + i
      BY <3>1 DEF QueueInOrder
    <3>5. ASSUME NEW i \in 1..Len(queue')
          PROVE  queue'[i] = taken + i /\ taken + i <= scheduled'
      <4>1. CASE i = Len(queue) + 1
        BY <3>1, <3>2, <3>3, <4>1
      <4>2. CASE i \in 1..Len(queue)
        BY <3>1, <3>2, <3>3, <3>4, <4>2
      <4> QED
        BY <3>1, <3>3, <4>1, <4>2
    <3> QED
      BY <3>1, <3>2, <3>3, <3>5 DEF QueueInOrder
  <2>3. TakenAccounted'
    BY <1>4 DEF TypeOK, QueueInOrder, TakenAccounted, Schedule, Closing
  <2>4. ThreadsAccounted' /\ OwnerInOrder'
    BY <1>4 DEF TypeOK, ThreadsAccounted, OwnerInOrder, Schedule, Closing
  <2> QED
    BY <2>1, <2>2, <2>3, <2>4
<1>5. CASE PushShutdown
  <2>1. TypeOK'
    BY <1>5, SignalsInOrder DEF TypeOK, PushShutdown
  <2>2. QueueInOrder'
    <3>1. /\ taken' = taken /\ scheduled' = scheduled /\ threads' = threads
          /\ ~Closing /\ Closing'
      BY <1>5 DEF PushShutdown, Closing
    <3>2. /\ taken \in Nat /\ scheduled \in Nat /\ threads \in Nat
          /\ Len(queue) \in Nat
      BY DEF TypeOK
    <3>3. taken + Len(queue) = scheduled
      BY <1>5, <3>1, <3>2 DEF QueueInOrder, PushShutdown
    <3>4. /\ Len(queue') = Len(queue) + threads
          /\ \A i \in 1..Len(queue') :
               queue'[i] = IF taken + i <= scheduled THEN taken + i ELSE nullptr
      BY <1>5, SignalsInOrder
    <3>5. \A i \in 1..Len(queue') :
            queue'[i] = IF taken' + i <= scheduled' THEN taken' + i ELSE nullptr
      BY <3>1, <3>4
    <3>6. taken' + Len(queue') = scheduled' + threads'
      BY <3>1, <3>2, <3>3, <3>4
    <3> QED
      BY <3>1, <3>5, <3>6 DEF QueueInOrder
  <2>3. TakenAccounted'
    BY <1>5 DEF TakenAccounted, PushShutdown
  <2>4. ThreadsAccounted' /\ OwnerInOrder'
    BY <1>5 DEF ThreadsAccounted, OwnerInOrder, PushShutdown, Closing
  <2> QED
    BY <2>1, <2>2, <2>3, <2>4
<1>6. CASE Join
  BY <1>6 DEF TypeOK, QueueInOrder, TakenAccounted, ThreadsAccounted,
              OwnerInOrder, Join, Closing
<1>7. CASE Destroy
  BY <1>7 DEF TypeOK, QueueInOrder, TakenAccounted, ThreadsAccounted,
              OwnerInOrder, Destroy, Closing
<1> QED
  BY <1>1, <1>2, <1>3, <1>4, <1>5, <1>6, <1>7 DEF OwnerStep

LEMMA WorkerKeepsInv == ASSUME NEW w \in Workers PROVE Inv /\ WorkerStep(w) => Inv'
<1> SUFFICES ASSUME Inv, WorkerStep(w) PROVE Inv'
  OBVIOUS
<1> USE DEF Inv
<1>1. CASE Take(w)
  <2>1. Pop(w) /\ Head(queue) # nullptr
    BY <1>1 DEF Take
  <2>2. Head(queue) = taken + 1 /\ taken + 1 <= scheduled /\ taken' = taken + 1
    BY <2>1, PopInOrder DEF Pop
  <2>3. TypeOK'
    BY <1>1, <2>1, <2>2, PopInOrder DEF TypeOK, Take, Pop
  <2>4. QueueInOrder'
    <3>1. scheduled' = scheduled /\ threads' = threads /\ Closing' = Closing
      BY <1>1 DEF Take, Closing
    <3>2. /\ taken \in Nat /\ scheduled \in Nat /\ threads \in Nat
          /\ Len(queue) \in Nat
      BY DEF TypeOK
    <3>3. /\ Len(queue') = Len(queue) - 1
          /\ \A i \in 1..Len(queue') :
               queue'[i] = IF taken' + i <= scheduled' THEN taken' + i ELSE nullptr
      BY <2>1, <3>1, PopInOrder
    <3>4. taken' + Len(queue') = taken + Len(queue)
      BY <2>2, <3>2, <3>3
    <3> QED
      BY <2>1, <3>1, <3>3, <3>4 DEF QueueInOrder, Pop
  <2>5. TakenAccounted'
    <3>1. /\ worker' = [worker EXCEPT ![w] = "running"] /\ worker[w] = "waiting"
          /\ func' = [func EXCEPT ![w] = taken + 1]
          /\ taken' = taken + 1 /\ scheduled' = scheduled /\ done' = done
      BY <1>1, <2>2 DEF Take, Pop
    <3>2. /\ taken \in Nat /\ scheduled \in Nat
          /\ worker \in [Workers -> {"none", "waiting", "running", "exited"}]
          /\ func \in [Workers -> 0..MaxTasks]
      BY DEF TypeOK
    <3>3. ASSUME NEW t \in 1..scheduled', t <= taken'
          PROVE  t \in done' \/ \E v \in Workers :
                                   worker'[v] = "running" /\ func'[v] = t
      <4>1. CASE t = taken + 1
        BY <3>1, <3>2, <4>1
      <4>2. CASE t <= taken
        <5>1. CASE t \in done
          BY <3>1, <5>1
        <5>2. CASE \E v \in Workers : worker[v] = "running" /\ func[v] = t
          BY <3>1, <3>2, <5>2
        <5> QED
          BY <3>1, <4>2, <5>1, <5>2 DEF TakenAccounted
      <4> QED
        BY <3>1, <3>2, <3>3, <4>1, <4>2
    <3>4. \A t \in done' : t \in 1..scheduled' /\ t <= taken'
      BY <3>1, <3>2 DEF TakenAccounted
    <3>5. ASSUME NEW u \in Workers, worker'[u] = "running"
          PROVE  /\ func'[u] \in 1..scheduled'
                 /\ func'[u] <= taken'
                 /\ func'[u] \notin done'
                 /\ \A v \in Workers :
                      worker'[v] = "running" /\ func'[v] = func'[u] => v = u
      <4>1. \A v \in Workers : worker[v] = "running" =>
              func[v] \in 1..scheduled /\ func[v] <= taken
        BY DEF TakenAccounted
      <4>2. CASE u = w
        BY <2>2, <3>1, <3>2, <4>1, <4>2 DEF TakenAccounted
      <4>3. CASE u # w
        BY <2>2, <3>1, <3>2, <3>5, <4>1, <4>3 DEF TakenAccounted
      <4> QED
        BY <4>2, <4>3
    <3> QED
      BY <3>3, <3>4, <3>5 DEF TakenAccounted
  <2>6. ThreadsAccounted'
    BY <1>1, <2>1, <2>2 DEF TypeOK, ThreadsAccounted, Take, Pop, Closing
  <2>7. OwnerInOrder'
    BY <1>1 DEF OwnerInOrder, Take, Closing
  <2> QED
    BY <2>3, <2>4, <2>5, <2>6, <2>7
<1>2. CASE TakeShutdown(w)
  <2>1. Pop(w) /\ Head(queue) = nullptr
    BY <1>2 DEF TakeShutdown
  <2>2. taken + 1 > scheduled /\ taken' = taken + 1
    <3>1. taken \in Nat /\ scheduled \in Nat
      BY DEF TypeOK
    <3>2. Head(queue) = IF taken + 1 <= scheduled THEN taken + 1 ELSE nullptr
      BY <2>1, PopInOrder
    <3> QED
      BY <2>1, <3>1, <3>2 DEF Pop
  <2>3. Closing
    <3>1. Len(queue) > 0
      BY <2>1, EmptySeq DEF Pop, TypeOK
    <3> QED
      BY <2>1, <2>2, <3>1 DEF QueueInOrder, TypeOK, Pop
  <2>4. TypeOK'
    BY <1>2, <2>1, PopInOrder DEF TypeOK, TakeShutdown, Pop
  <2>5. QueueInOrder'
    <3>1. scheduled' = scheduled /\ threads' = threads /\ Closing' = Closing
      BY <1>2 DEF TakeShutdown, Closing
    <3>2. /\ taken \in Nat /\ scheduled \in Nat /\ threads \in Nat
          /\ Len(queue) \in Nat
      BY DEF TypeOK
    <3>3. /\ Len(queue') = Len(queue) - 1
          /\ \A i \in 1..Len(queue') :
               queue'[i] = IF taken' + i <= scheduled' THEN taken' + i ELSE nullptr
      BY <2>1, <3>1, PopInOrder
    <3>4. taken' + Len(queue') = taken + Len(queue)
      BY <2>2, <3>2, <3>3
    <3> QED
      BY <2>1, <3>1, <3>3, <3>4 DEF QueueInOrder, Pop
  <2>6. TakenAccounted'
    <3>1. /\ worker' = [worker EXCEPT ![w] = "exited"] /\ worker[w] = "waiting"
          /\ func' = [func EXCEPT ![w] = nullptr]
          /\ taken' = taken + 1 /\ scheduled' = scheduled /\ done' = done
      BY <1>2, <2>1 DEF TakeShutdown, Pop
    <3>2. /\ taken \in Nat /\ scheduled \in Nat /\ done \subseteq Nat
          /\ worker \in [Workers -> {"none", "waiting", "running", "exited"}]
          /\ func \in [Workers -> 0..MaxTasks]
      BY DEF TypeOK
    <3>3. \A v \in Workers :
            worker'[v] = "running" <=> worker[v] = "running" /\ v # w
      BY <3>1, <3>2
    <3>4. \A v \in Workers : v # w => func'[v] = func[v]
      BY <3>1, <3>2
    <3>5. \A t \in 1..scheduled : t <= taken
      BY <2>2, <3>2
    <3>6. \A v \in Workers : worker'[v] = "running" =>
            worker[v] = "running" /\ func'[v] = func[v]
      BY <3>3, <3>4
    <3>7. \A v \in Workers : worker[v] = "running" =>
            worker'[v] = "running" /\ func'[v] = func[v]
      BY <3>1, <3>3, <3>4
    <3>8. \A t \in 1..scheduled' :
            t \in done' \/ \E v \in Workers : worker'[v] = "running" /\ func'[v] = t
      BY <3>1, <3>5, <3>7 DEF TakenAccounted
    <3>9. \A t \in done' : t \in 1..scheduled' /\ t <= taken'
      BY <3>1, <3>2 DEF TakenAccounted
    <3>10. \A u \in Workers : worker'[u] = "running" =>
             /\ func'[u] \in 1..scheduled'
             /\ func'[u] <= taken'
             /\ func'[u] \notin done'
             /\ \A v \in Workers :
                  worker'[v] = "running" /\ func'[v] = func'[u] => v = u
      BY <3>1, <3>2, <3>6 DEF TakenAccounted
    <3> QED
      BY <3>8, <3>9, <3>10 DEF TakenAccounted
  <2>7. ThreadsAccounted'
    BY <1>2, <2>1, <2>2, <2>3
       DEF TypeOK, ThreadsAccounted, TakeShutdown, Pop, Closing
  <2>8. OwnerInOrder'
    BY <1>2 DEF OwnerInOrder, TakeShutdown, Closing
  <2> QED
    BY <2>4, <2>5, <2>6, <2>7, <2>8
<1>3. CASE Return(w)
  <2>1. TypeOK'
    <3>1. func[w] \in 1..scheduled /\ scheduled <= MaxTasks /\ scheduled \in Nat
      BY <1>3 DEF TypeOK, TakenAccounted, Return
    <3>2. done' \subseteq 1..MaxTasks
      <4>1. done' = done \cup {func[w]} /\ done \subseteq 1..MaxTasks
        BY <1>3 DEF TypeOK, Return
      <4>2. func[w] \in 1..MaxTasks
        BY <3>1
      <4> QED
        BY <4>1, <4>2
    <3>3. /\ worker' \in [Workers -> {"none", "waiting", "running", "exited"}]
          /\ func' \in [Workers -> 0..MaxTasks]
      BY <1>3 DEF TypeOK, Return
    <3> QED
      BY <1>3, <3>2, <3>3 DEF TypeOK, Return
  <2>2. QueueInOrder' /\ OwnerInOrder'
    BY <1>3 DEF QueueInOrder, OwnerInOrder, Return, Closing
  <2>3. TakenAccounted'
    BY <1>3 DEF TypeOK, TakenAccounted, Return
  <2>4. ThreadsAccounted'
    BY <1>3 DEF TypeOK, ThreadsAccounted, Return, Closing
  <2> QED
    BY <2>1, <2>2, <2>3, <2>4
<1> QED
  BY <1>1, <1>2, <1>3 DEF WorkerStep

\* A function that throws changes nothing but that the process is over.
LEMMA ThrowKeepsInv == ASSUME NEW w \in Workers PROVE Inv /\ Throw(w) => Inv'
BY DEF Inv, Throw, TypeOK, QueueInOrder, TakenAccounted, ThreadsAccounted,
       OwnerInOrder, Closing

LEMMA StutterKeepsInv == Inv /\ UNCHANGED vars => Inv'
BY DEF Inv, vars, TypeOK, QueueInOrder, TakenAccounted, ThreadsAccounted,
       OwnerInOrder, Closing

\* Every reachable state of a pool accounts for its functions and threads.
THEOREM InvHolds == Spec => []Inv
<1>1. Init => Inv
  BY InitInv
<1>2. Inv /\ [Next]_vars => Inv'
  BY OwnerKeepsInv, WorkerKeepsInv, ThrowKeepsInv, StutterKeepsInv
     DEF Next, Finished
<1> QED
  BY <1>1, <1>2, PTL DEF Spec

-----------------------------------------------------------------------------
(* What follows from Inv.                                                  *)

\* The pool's variables keep their types.
THEOREM TypeCorrect == Spec => []TypeOK
<1>1. Inv => TypeOK
  BY DEF Inv
<1> QED
  BY <1>1, InvHolds, PTL

\* simple_threadpool.h:48-50: once every thread is joined, all is run.
THEOREM AllRun == Spec => []AllRunBeforeDestroyed
<1>1. Inv => AllRunBeforeDestroyed
  <2> SUFFICES ASSUME Inv, owner = "destroyed", numThreads > 0
               PROVE  done = 1..numTasks
    BY DEF AllRunBeforeDestroyed
  <2>1. /\ scheduled = numTasks /\ joined = numThreads
        /\ threads = numThreads /\ numThreads \in 1..MaxThreads
    BY DEF Inv, OwnerInOrder, Closing, TypeOK
  <2>2. \A w \in 1..numThreads : worker[w] = "exited"
    BY <2>1 DEF Inv, ThreadsAccounted
  <2>3. taken > numTasks
    BY <2>1, <2>2 DEF Inv, ThreadsAccounted
  <2>4. \A w \in Workers : worker[w] # "running"
    BY <2>1, <2>2 DEF Inv, ThreadsAccounted, TypeOK
  <2>5. 1..numTasks \subseteq done
    BY <2>1, <2>3, <2>4 DEF Inv, TakenAccounted, TypeOK
  <2>6. done \subseteq 1..numTasks
    BY <2>1 DEF Inv, TakenAccounted
  <2> QED
    BY <2>5, <2>6
<1> QED
  BY <1>1, InvHolds, PTL

\* simple_threadpool.h:48-50: no thread is left when ~ThreadPool returns.
THEOREM NoThreadLeft == Spec => []NoThreadOutlivesPool
<1>1. Inv => NoThreadOutlivesPool
  BY DEF Inv, NoThreadOutlivesPool, ThreadsAccounted, OwnerInOrder, TypeOK
<1> QED
  BY <1>1, InvHolds, PTL

\* simple_threadpool.h:78-81: the functions are begun in the order in which
\* they were scheduled.
THEOREM InOrder == Spec => BegunInOrder
<1>1. Inv /\ [Next]_vars => [BeginsNext]_vars
  <2> SUFFICES ASSUME Inv, Next,
                      NEW w \in Workers, worker[w] = "waiting",
                      worker'[w] = "running",
                      NEW t \in 1..numTasks
               PROVE  t < func'[w] <=> t \in done \/ \E v \in Workers :
                                         worker[v] = "running" /\ func[v] = t
    BY DEF BeginsNext
  <2>1. Take(w)
    BY DEF Next, OwnerStep, WorkerStep, Finished, vars, SpawnWorker, SpawnFails,
           Started, Schedule, PushShutdown, Join, Destroy, Take, TakeShutdown,
           Return, Throw, Pop, Inv, TypeOK, ThreadsAccounted
  <2>2. func'[w] = taken + 1 /\ taken + 1 <= scheduled /\ taken \in Nat
        /\ scheduled \in Nat
    <3>1. Pop(w) /\ Head(queue) # nullptr
      BY <2>1 DEF Take
    <3>2. Head(queue) = taken + 1 /\ taken + 1 <= scheduled
      BY <3>1, PopInOrder
    <3> QED
      BY <3>1, <3>2 DEF Pop, Inv, TypeOK
  <2>3. t \in Nat
    OBVIOUS
  <2> QED
    BY <2>2, <2>3 DEF Inv, TakenAccounted
<1> QED
  BY <1>1, InvHolds, PTL DEF Spec, BegunInOrder

\* simple_threadpool.h:78-81: a function is moved out of the queue once.
THEOREM RunOnce == Spec => []RunAtMostOnce
<1>1. Inv => RunAtMostOnce
  BY DEF Inv, RunAtMostOnce, TakenAccounted
<1> QED
  BY <1>1, InvHolds, PTL

-----------------------------------------------------------------------------
(* Counting threads and signals.                                           *)

\* Each signal taken has ended one thread.
LiveCounted ==
  Cardinality(LiveThreads)
    = threads - (IF taken > scheduled THEN taken - scheduled ELSE 0)

LEMMA LiveFinite == Inv => IsFiniteSet(LiveThreads)
<1> SUFFICES ASSUME Inv PROVE IsFiniteSet(LiveThreads)
  OBVIOUS
<1>1. IsFiniteSet(1..threads)
  BY FS_Interval DEF Inv, TypeOK
<1> QED
  BY <1>1, FS_Subset DEF LiveThreads

LEMMA NoneLiveAtFirst == Init => LiveCounted
<1> SUFFICES ASSUME Init PROVE LiveCounted
  OBVIOUS
<1>1. LiveThreads = {}
  BY DEF Init, LiveThreads
<1> QED
  BY <1>1, FS_EmptySet DEF Init, LiveCounted

LEMMA LiveCountedKept == Inv /\ LiveCounted /\ [Next]_vars => LiveCounted'
<1> SUFFICES ASSUME Inv, LiveCounted, [Next]_vars PROVE LiveCounted'
  OBVIOUS
<1>1. /\ taken \in Nat /\ scheduled \in Nat /\ threads \in Nat
      /\ threads <= MaxThreads /\ Len(queue) \in Nat
      /\ worker \in [Workers -> {"none", "waiting", "running", "exited"}]
  BY DEF Inv, TypeOK
<1>2. IsFiniteSet(LiveThreads)
  BY LiveFinite
<1>3. ASSUME UNCHANGED <<threads, taken, scheduled>>,
             \A w \in 1..threads : worker'[w] = "exited" <=> worker[w] = "exited"
      PROVE  LiveCounted'
  <2>1. LiveThreads' = LiveThreads
    BY <1>3 DEF LiveThreads
  <2> QED
    BY <1>3, <2>1 DEF LiveCounted
<1>4. CASE SpawnWorker
  <2>1. threads + 1 \notin LiveThreads /\ threads + 1 \in Workers
    BY <1>1, <1>4 DEF LiveThreads, SpawnWorker, Inv, TypeOK
  <2>2. /\ threads' = threads + 1 /\ taken' = taken /\ scheduled' = scheduled
        /\ worker' = [worker EXCEPT ![threads + 1] = "waiting"]
    BY <1>4 DEF SpawnWorker
  <2>3. LiveThreads' = LiveThreads \cup {threads + 1}
    BY <1>1, <2>1, <2>2 DEF LiveThreads
  <2>4. Cardinality(LiveThreads') = Cardinality(LiveThreads) + 1
    BY <1>2, <2>1, <2>3, FS_AddElement
  <2> QED
    BY <1>1, <2>2, <2>4 DEF LiveCounted
<1>5. CASE Schedule
  <2>1. taken <= scheduled /\ scheduled' = scheduled + 1 /\ taken' = taken
    BY <1>1, <1>5 DEF Schedule, Inv, QueueInOrder, Closing
  <2>2. LiveThreads' = LiveThreads /\ threads' = threads
    BY <1>5 DEF Schedule, LiveThreads
  <2> QED
    BY <1>1, <2>1, <2>2 DEF LiveCounted
<1>6. ASSUME NEW w \in Workers, Take(w) PROVE LiveCounted'
  <2>1. taken + 1 <= scheduled /\ taken' = taken + 1 /\ scheduled' = scheduled
    <3>1. Pop(w) /\ Head(queue) # nullptr
      BY <1>6 DEF Take
    <3> QED
      BY <1>6, <3>1, PopInOrder DEF Take, Pop
  <2>2. LiveThreads' = LiveThreads /\ threads' = threads
    BY <1>1, <1>6 DEF Take, Pop, LiveThreads
  <2> QED
    BY <1>1, <2>1, <2>2 DEF LiveCounted
<1>7. ASSUME NEW w \in Workers, TakeShutdown(w) PROVE LiveCounted'
  <2>1. Pop(w) /\ Head(queue) = nullptr
    BY <1>7 DEF TakeShutdown
  <2>2. Head(queue) = IF taken + 1 <= scheduled THEN taken + 1 ELSE nullptr
    BY <2>1, PopInOrder
  <2>3. taken >= scheduled /\ taken' = taken + 1 /\ scheduled' = scheduled
    BY <1>1, <1>7, <2>1, <2>2 DEF TakeShutdown, Pop
  <2>4. w \in LiveThreads
    BY <1>1, <2>1 DEF Pop, LiveThreads, Inv, ThreadsAccounted
  <2>5. LiveThreads' = LiveThreads \ {w} /\ threads' = threads
    BY <1>1, <1>7 DEF TakeShutdown, LiveThreads
  <2>6. Cardinality(LiveThreads') = Cardinality(LiveThreads) - 1
    BY <1>2, <2>4, <2>5, FS_RemoveElement
  <2> QED
    BY <1>1, <2>3, <2>5, <2>6 DEF LiveCounted
<1>8. ASSUME NEW w \in Workers, Return(w) PROVE LiveCounted'
  BY <1>1, <1>3, <1>8 DEF Return
<1>9. CASE SpawnFails \/ Started \/ PushShutdown \/ Join \/ Destroy
             \/ (\E w \in Workers : Throw(w)) \/ UNCHANGED vars
  <2>1. UNCHANGED <<threads, taken, scheduled, worker>>
    BY <1>9 DEF SpawnFails, Started, PushShutdown, Join, Destroy, Throw, vars
  <2> QED
    BY <1>3, <2>1
<1> QED
  BY <1>4, <1>5, <1>6, <1>7, <1>8, <1>9
     DEF Next, OwnerStep, WorkerStep, Finished

\* While the destructor joins, the signals left are as many as the threads
\* left.
LEMMA SignalsMatch == Inv /\ LiveCounted => OneSignalPerLiveThread
<1> SUFFICES ASSUME Inv, LiveCounted, owner = "joining"
             PROVE  Cardinality(Signals) = Cardinality(LiveThreads)
  BY DEF OneSignalPerLiveThread
<1> DEFINE functions == IF taken <= scheduled THEN scheduled - taken ELSE 0
<1>1. /\ taken \in Nat /\ scheduled \in Nat /\ threads \in Nat
      /\ Len(queue) \in Nat
  BY DEF Inv, TypeOK
<1>2. taken + Len(queue) = scheduled + threads
  BY DEF Inv, QueueInOrder, Closing
<1>3. \A i \in 1..Len(queue) : queue[i] = nullptr <=> i > functions
  BY <1>1 DEF Inv, QueueInOrder
<1>4. functions \in Nat
  BY <1>1
<1>5. Signals = (functions + 1)..Len(queue)
  BY <1>1, <1>3, <1>4 DEF Signals
<1>6. functions <= Len(queue)
  BY <1>1, <1>2
<1>7. Cardinality(Signals) = Len(queue) - functions
  <2> HIDE DEF functions
  <2>1. functions + 1 \in Int /\ Len(queue) \in Int
    BY <1>1, <1>4
  <2>2. Cardinality(Signals) = IF functions + 1 > Len(queue) THEN 0
                               ELSE Len(queue) - (functions + 1) + 1
    BY <1>5, <2>1, FS_Interval
  <2> QED
    BY <1>1, <1>4, <1>6, <2>2
<1> QED
  BY <1>1, <1>2, <1>7 DEF LiveCounted

\* simple_threadpool.h:44-46: pushing one signal per thread is what it takes:
\* no thread is left without its signal, and no signal without its thread.
THEOREM SignalsSuffice == Spec => []OneSignalPerLiveThread
<1>1. Init => LiveCounted
  BY NoneLiveAtFirst
<1>2. Inv /\ LiveCounted => OneSignalPerLiveThread
  BY SignalsMatch
<1> QED
  BY <1>1, <1>2, LiveCountedKept, InvHolds, PTL DEF Spec

-----------------------------------------------------------------------------
(* Why ~ThreadPool returns, without a word on fairness: the pool has only   *)
(* finitely many steps, and as long as it lives one of them can be taken.   *)

LEMMA AtMost ==
  ASSUME NEW n \in Nat, NEW S, S \subseteq 1..n
  PROVE  IsFiniteSet(S) /\ Cardinality(S) \in Nat /\ Cardinality(S) <= n
<1>1. IsFiniteSet(1..n) /\ Cardinality(1..n) = n
  BY FS_Interval
<1> QED
  BY <1>1, FS_Subset, FS_CardinalityType

\* What is counted by StepsLeft is still to come.
LEMMA LeftOver ==
  ASSUME Inv, Alive
  PROVE  /\ numThreads - threads \in Nat
         /\ numTasks - scheduled \in Nat
         /\ numTasks + numThreads - taken \in Nat
         /\ numTasks - Cardinality(done) \in Nat
         /\ numThreads - joined \in Nat
         /\ IsFiniteSet(done)
         /\ Cardinality(done) \in Nat
<1>1. /\ numThreads \in Nat /\ numTasks \in Nat /\ threads \in 0..numThreads
      /\ scheduled \in 0..numTasks /\ joined \in 0..threads /\ taken \in Nat
      /\ Len(queue) \in Nat
  BY DEF Inv, TypeOK
<1>2. taken <= numTasks + numThreads
  BY <1>1 DEF Inv, QueueInOrder
<1>3. done \subseteq 1..numTasks
  BY <1>1 DEF Inv, TakenAccounted
<1>4. /\ IsFiniteSet(done) /\ Cardinality(done) \in Nat
      /\ Cardinality(done) <= numTasks
  BY <1>1, <1>3, AtMost
<1> QED
  BY <1>1, <1>2, <1>4

\* simple_threadpool.h:68-86: a step that changes anything is one of a number
\* fixed when the pool is made, whichever thread takes it.
THEOREM StepsEnd == Spec => StepsRunOut
<1>1. Inv /\ [Next]_vars => [Shortens]_vars
  <2> SUFFICES ASSUME Inv, Next, ~ UNCHANGED vars PROVE Shortens
    OBVIOUS
  <2> DEFINE phase == CASE owner = "starting"   -> 3
                        [] owner = "scheduling" -> 2
                        [] owner = "joining"    -> 1
                        [] OTHER                -> 0
  <2>1. /\ numThreads \in Nat /\ numTasks \in Nat /\ threads \in Nat
        /\ scheduled \in Nat /\ joined \in Nat /\ taken \in Nat
        /\ Cardinality(done) \in Nat
    <3>1. done \subseteq 1..MaxTasks
      BY DEF Inv, TypeOK
    <3>2. Cardinality(done) \in Nat
      BY <3>1, AtMost
    <3> QED
      BY <3>2 DEF Inv, TypeOK
  <2>2. UNCHANGED <<numThreads, numTasks>>
    BY DEF Next, OwnerStep, WorkerStep, Finished, SpawnWorker, SpawnFails,
           Started, Schedule, PushShutdown, Join, Destroy, Take, TakeShutdown,
           Return, Throw, vars
  <2>3. Alive
    BY DEF Next, OwnerStep, WorkerStep, Finished, SpawnWorker, SpawnFails,
           Started, Schedule, PushShutdown, Join, Destroy, Take, TakeShutdown,
           Return, Throw, Pop
  <2>4. /\ numThreads - threads \in Nat
        /\ numTasks - scheduled \in Nat
        /\ numTasks + numThreads - taken \in Nat
        /\ numTasks - Cardinality(done) \in Nat
        /\ numThreads - joined \in Nat
        /\ IsFiniteSet(done)
    BY <2>3, LeftOver
  <2>5. StepsLeft \in Nat
    BY <2>4 DEF StepsLeft
  <2> DEFINE rest == (numThreads - threads) + (numTasks - scheduled)
                       + (numTasks + numThreads - taken)
                       + (numTasks - Cardinality(done))
                       + (numThreads - joined)
  <2>6. phase \in 0..3 /\ rest \in Nat /\ StepsLeft = rest + phase
    BY <2>4 DEF StepsLeft
  <2>7. StepsLeft' = rest' + phase'
    BY DEF StepsLeft
  <2>8. SUFFICES /\ rest' \in Nat /\ phase' \in Nat
                 /\ rest' + phase' < rest + phase
    BY <2>6, <2>7 DEF Shortens
  <2>9. ASSUME UNCHANGED <<threads, scheduled, taken, done, joined>>,
               phase' \in Nat, phase' < phase
        PROVE  rest' \in Nat /\ rest' + phase' < rest + phase
    <3>1. rest' = rest
      BY <2>2, <2>9
    <3> QED
      BY <2>6, <2>9, <3>1
  <2>10. ASSUME owner' = owner, rest' = rest - 1, rest - 1 \in Nat
         PROVE  /\ rest' \in Nat /\ phase' \in Nat
                /\ rest' + phase' < rest + phase
    <3>1. phase' = phase
      BY <2>10
    <3> HIDE DEF phase, rest
    <3> QED
      BY <2>6, <2>10, <3>1
  <2>11. CASE SpawnWorker
    <3>1. /\ threads' = threads + 1 /\ threads + 1 <= numThreads
          /\ owner' = owner /\ UNCHANGED <<scheduled, joined, taken, done>>
      BY <2>1, <2>11 DEF SpawnWorker
    <3>2. rest' = rest - 1
      BY <2>1, <2>2, <3>1
    <3>3. rest - 1 \in Nat
      BY <2>1, <2>4, <3>1
    <3> QED
      BY <2>10, <3>1, <3>2, <3>3
  <2>12. CASE Schedule
    <3>1. /\ scheduled' = scheduled + 1 /\ scheduled + 1 <= numTasks
          /\ owner' = owner /\ UNCHANGED <<threads, joined, taken, done>>
      BY <2>1, <2>12 DEF Schedule
    <3>2. rest' = rest - 1
      BY <2>1, <2>2, <3>1
    <3>3. rest - 1 \in Nat
      BY <2>1, <2>4, <3>1
    <3> QED
      BY <2>10, <3>1, <3>2, <3>3
  <2>13. CASE Join
    <3>1. /\ joined' = joined + 1 /\ joined + 1 <= threads /\ owner' = owner
          /\ UNCHANGED <<threads, scheduled, taken, done>>
      BY <2>1, <2>13 DEF Join
    <3>2. rest' = rest - 1
      BY <2>1, <2>2, <3>1
    <3>3. numThreads - joined' \in Nat /\ rest - 1 \in Nat
      BY <2>1, <2>4, <3>1
    <3> QED
      BY <2>10, <3>1, <3>2, <3>3
  <2>14. CASE SpawnFails \/ Started \/ PushShutdown \/ Destroy
                \/ \E w \in Workers : Throw(w)
    <3>1. UNCHANGED <<threads, scheduled, taken, done, joined>>
      BY <2>14 DEF SpawnFails, Started, PushShutdown, Destroy, Throw
    <3>2. phase' \in Nat /\ phase' < phase
      <4>1. \/ owner = "starting" /\ owner' \in {"scheduling", "terminated"}
            \/ owner = "scheduling" /\ owner' \in {"joining", "terminated"}
            \/ owner = "joining" /\ owner' \in {"destroyed", "terminated"}
        <5>1. CASE \E w \in Workers : Throw(w)
          <6>1. owner # "destroyed"
            BY <5>1 DEF Throw, Inv, TypeOK, ThreadsAccounted, OwnerInOrder
          <6> QED
            BY <2>3, <5>1, <6>1 DEF Throw, Inv, TypeOK
        <5> QED
          BY <2>14, <5>1 DEF SpawnFails, Started, PushShutdown, Destroy
      <4> QED
        BY <4>1
    <3> QED
      BY <2>9, <3>1, <3>2
  <2>15. ASSUME NEW w \in Workers, Take(w) \/ TakeShutdown(w)
         PROVE  /\ rest' \in Nat /\ phase' \in Nat
                /\ rest' + phase' < rest + phase
    <3>1. /\ taken' = taken + 1 /\ owner' = owner /\ queue # <<>>
          /\ UNCHANGED <<threads, scheduled, done, joined>>
      BY <2>15 DEF Take, TakeShutdown, Pop
    <3>2. taken + 1 <= numTasks + numThreads
      <4>1. queue \in Seq(0..MaxTasks) /\ scheduled <= numTasks
            /\ threads <= numThreads
        BY DEF Inv, TypeOK
      <4>2. Len(queue) \in Nat \ {0}
        BY <3>1, <4>1, EmptySeq
      <4>3. taken + Len(queue) <= scheduled + threads
        BY <2>1, <2>3, <4>2 DEF Inv, QueueInOrder
      <4> QED
        BY <2>1, <4>1, <4>2, <4>3
    <3>3. rest' = rest - 1
      BY <2>1, <2>2, <3>1
    <3>4. rest - 1 \in Nat
      BY <2>1, <2>4, <3>2
    <3> QED
      BY <2>10, <3>1, <3>3, <3>4
  <2>16. ASSUME NEW w \in Workers, Return(w)
         PROVE  /\ rest' \in Nat /\ phase' \in Nat
                /\ rest' + phase' < rest + phase
    <3>1. /\ done' = done \cup {func[w]} /\ owner' = owner
          /\ UNCHANGED <<threads, scheduled, taken, joined>>
      BY <2>16 DEF Return
    <3>2. func[w] \notin done
      BY <2>16 DEF Return, Inv, TakenAccounted
    <3>3. Cardinality(done') = Cardinality(done) + 1
      BY <2>4, <3>1, <3>2, FS_AddElement
    <3>4. Inv'
      BY <2>16, WorkerKeepsInv DEF WorkerStep
    <3>5. Cardinality(done) + 1 <= numTasks
      <4>1. done' \subseteq 1..numTasks
        BY <2>2, <3>4 DEF Inv, TypeOK, TakenAccounted
      <4> QED
        BY <2>1, <3>3, <4>1, AtMost
    <3>6. rest' = rest - 1
      BY <2>1, <2>2, <3>1, <3>3
    <3>7. rest - 1 \in Nat
      BY <2>1, <2>4, <3>5
    <3> QED
      BY <2>10, <3>1, <3>6, <3>7
  <2> QED
    BY <2>11, <2>12, <2>13, <2>14, <2>15, <2>16
       DEF Next, OwnerStep, WorkerStep, Finished
<1> QED
  BY <1>1, InvHolds, PTL DEF Spec, StepsRunOut

\* The bound is a number, also when the process has ended.
THEOREM StepsCounted == Spec => [](StepsLeft \in Nat)
<1>1. Init /\ Inv => StepsLeft \in Nat
  <2> SUFFICES ASSUME Init, Inv PROVE StepsLeft \in Nat
    OBVIOUS
  <2>1. owner = "starting" /\ Alive
    BY DEF Init
  <2> QED
    BY <2>1, LeftOver DEF StepsLeft
<1>2. StepsLeft \in Nat /\ [Shortens]_vars => (StepsLeft \in Nat)'
  <2>1. UNCHANGED vars => StepsLeft' = StepsLeft
    BY DEF vars, StepsLeft
  <2> QED
    BY <2>1 DEF Shortens
<1> QED
  BY <1>1, <1>2, InvHolds, StepsEnd, PTL DEF Spec, StepsRunOut

\* The owner is not blocked in thread::join.
OwnerCanMove ==
  \/ owner \in {"starting", "scheduling"}
  \/ owner = "joining" /\ (joined < threads => worker[joined + 1] = "exited")

\* Thread w runs a function, or Await finds an entry for it.
WorkerCanMove(w) ==
  worker[w] = "running" \/ (worker[w] = "waiting" /\ queue # <<>>)

\* simple_threadpool.h:44-50: a thread for which thread::join waits can itself
\* go on, so the destructor waits for nobody who waits for it.
JoinWaitsForNobodyStuck ==
  owner \notin {"destroyed", "terminated"} /\ ~OwnerCanMove =>
    joined + 1 \in Workers /\ WorkerCanMove(joined + 1)

THEOREM NobodyIsStuck == Spec => []JoinWaitsForNobodyStuck
<1>1. Inv /\ LiveCounted => JoinWaitsForNobodyStuck
  <2> SUFFICES ASSUME Inv, LiveCounted, ~OwnerCanMove,
                      owner \notin {"destroyed", "terminated"}
               PROVE  joined + 1 \in Workers /\ WorkerCanMove(joined + 1)
    BY DEF JoinWaitsForNobodyStuck
  <2>1. /\ owner = "joining" /\ joined < threads
        /\ worker[joined + 1] # "exited"
    BY DEF OwnerCanMove, Inv, TypeOK
  <2>2. /\ taken \in Nat /\ scheduled \in Nat /\ threads \in Nat
        /\ threads <= MaxThreads /\ joined \in Nat
        /\ queue \in Seq(0..MaxTasks) /\ Len(queue) \in Nat
    BY DEF Inv, TypeOK
  <2>3. joined + 1 \in Workers /\ joined + 1 \in 1..threads
    BY <2>1, <2>2
  <2>4. worker[joined + 1] \in {"waiting", "running"}
    BY <2>1, <2>2, <2>3 DEF Inv, TypeOK, ThreadsAccounted
  <2>5. joined + 1 \in LiveThreads
    BY <2>1, <2>3 DEF LiveThreads
  <2>6. Cardinality(LiveThreads) \in Nat /\ Cardinality(LiveThreads) # 0
    BY <2>5, LiveFinite, FS_CardinalityType, FS_EmptySet
  <2>7. Len(queue) # 0
    <3>1. taken + Len(queue) = scheduled + threads
      BY <2>1 DEF Inv, QueueInOrder, Closing
    <3> QED
      BY <2>1, <2>2, <2>6, <3>1 DEF LiveCounted
  <2>8. queue # <<>>
    BY <2>7
  <2> QED
    BY <2>3, <2>4, <2>8 DEF WorkerCanMove
<1>2. Init => LiveCounted
  BY NoneLiveAtFirst
<1> QED
  BY <1>1, <1>2, LiveCountedKept, InvHolds, PTL DEF Spec

=============================================================================
