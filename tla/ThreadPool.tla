----------------------------- MODULE ThreadPool -----------------------------
(***************************************************************************)
(* The fixed-size thread pool of execution/simple_threadpool.h, together   *)
(* with the protocol every caller in the repository follows: construct the *)
(* pool, StartWorkers, Schedule each function once, and leave the scope,   *)
(* which runs the destructor.                                              *)
(*                                                                         *)
(* Every access to queue_ is inside one absl::MutexLock, so each critical  *)
(* section is one action.  A scheduled function is abstracted to the       *)
(* number of the Schedule call that passed it; the empty function that     *)
(* tells a worker to stop is 0.                                            *)
(***************************************************************************)
EXTENDS Naturals, Sequences, FiniteSets

CONSTANTS
  MaxThreads,   \* bound on num_threads_
  MaxTasks      \* bound on the number of Schedule calls

ASSUME BoundsAssumption == MaxThreads \in Nat /\ MaxTasks \in Nat

VARIABLES
  numThreads,   \* num_threads_, fixed by the constructor
  numTasks,     \* how many functions the owner is going to schedule
  owner,        \* where the owning thread is in the pool's life
  threads,      \* threads_.size()
  scheduled,    \* Schedule calls made so far
  queue,        \* queue_
  joined,       \* how many of threads_ the destructor has joined
  worker,       \* worker[w]: where thread w is in WorkLoop
  func,         \* func[w]: the function thread w runs
  taken,        \* history: how many entries have been popped from queue_
  done          \* history: the functions that have returned

vars == <<numThreads, numTasks, owner, threads, scheduled, queue, joined,
          worker, func, taken, done>>

nullptr == 0

Workers == 1..MaxThreads

\* An exception in StartWorkers or in WorkLoop is caught nowhere: the process
\* ends.
Alive == owner # "terminated"

TypeOK ==
  /\ numThreads \in 0..MaxThreads
  /\ numTasks \in 0..MaxTasks
  /\ owner \in {"starting", "scheduling", "joining", "destroyed", "terminated"}
  /\ threads \in 0..numThreads
  /\ scheduled \in 0..numTasks
  /\ queue \in Seq(0..MaxTasks)
  /\ joined \in 0..threads
  /\ worker \in [Workers -> {"none", "waiting", "running", "exited"}]
  /\ func \in [Workers -> 0..MaxTasks]
  /\ taken \in Nat
  /\ done \subseteq 1..MaxTasks

\* A constructed pool: no thread, an empty queue.
Init ==
  /\ numThreads \in 0..MaxThreads
  /\ numTasks \in 0..MaxTasks
  /\ owner = "starting"
  /\ threads = 0
  /\ scheduled = 0
  /\ queue = <<>>
  /\ joined = 0
  /\ worker = [w \in Workers |-> "none"]
  /\ func = [w \in Workers |-> nullptr]
  /\ taken = 0
  /\ done = {}

-----------------------------------------------------------------------------
(* The owner: StartWorkers, Schedule, ~ThreadPool.                         *)

\* One iteration of the loop of StartWorkers.  The thread runs at once.
SpawnWorker ==
  /\ owner = "starting"
  /\ threads < numThreads
  /\ threads' = threads + 1
  /\ worker' = [worker EXCEPT ![threads + 1] = "waiting"]
  /\ UNCHANGED <<numThreads, numTasks, owner, scheduled, queue, joined, func,
                 taken, done>>

\* std::thread's constructor throws when the system has no thread to give.
\* started_ is still false, so the destructor returns early; the threads
\* made so far are destroyed joinable, or, when there are none, the exception
\* leaves main.  Either way std::terminate ends the process.
SpawnFails ==
  /\ owner = "starting"
  /\ threads < numThreads
  /\ owner' = "terminated"
  /\ UNCHANGED <<numThreads, numTasks, threads, scheduled, queue, joined,
                 worker, func, taken, done>>

\* The loop of StartWorkers ends and started_ becomes true.
Started ==
  /\ owner = "starting"
  /\ threads = numThreads
  /\ owner' = "scheduling"
  /\ UNCHANGED <<numThreads, numTasks, threads, scheduled, queue, joined,
                 worker, func, taken, done>>

\* Fault: a stack in the place of the queue.
ScheduleInFront ==
  /\ owner = "scheduling"
  /\ scheduled < numTasks
  /\ scheduled' = scheduled + 1
  /\ queue' = <<scheduled + 1>> \o queue
  /\ UNCHANGED <<numThreads, numTasks, owner, threads, joined, worker, func,
                 taken, done>>

Schedule ==
  /\ owner = "scheduling"
  /\ scheduled < numTasks
  /\ scheduled' = scheduled + 1
  /\ queue' = Append(queue, scheduled + 1)
  /\ UNCHANGED <<numThreads, numTasks, owner, threads, joined, worker, func,
                 taken, done>>

\* Fault: the shutdown signals overtake the functions.
PushShutdownInFront ==
  /\ owner = "scheduling"
  /\ scheduled = numTasks
  /\ queue' = [i \in 1..threads |-> nullptr] \o queue
  /\ owner' = "joining"
  /\ UNCHANGED <<numThreads, numTasks, threads, scheduled, joined, worker,
                 func, taken, done>>

\* Fault: one signal for all threads.
PushShutdownOnce ==
  /\ owner = "scheduling"
  /\ scheduled = numTasks
  /\ queue' = Append(queue, nullptr)
  /\ owner' = "joining"
  /\ UNCHANGED <<numThreads, numTasks, threads, scheduled, joined, worker,
                 func, taken, done>>

\* ~ThreadPool, first part: one shutdown signal per thread, under the lock.
PushShutdown ==
  /\ owner = "scheduling"
  /\ scheduled = numTasks
  /\ queue' = queue \o [i \in 1..threads |-> nullptr]
  /\ owner' = "joining"
  /\ UNCHANGED <<numThreads, numTasks, threads, scheduled, joined, worker,
                 func, taken, done>>

\* Fault: detach in the place of join.
Detach ==
  /\ owner = "joining"
  /\ joined < threads
  /\ joined' = joined + 1
  /\ UNCHANGED <<numThreads, numTasks, owner, threads, scheduled, queue,
                 worker, func, taken, done>>

\* ~ThreadPool, second part: join the threads in the order of threads_.
Join ==
  /\ owner = "joining"
  /\ joined < threads
  /\ worker[joined + 1] = "exited"
  /\ joined' = joined + 1
  /\ UNCHANGED <<numThreads, numTasks, owner, threads, scheduled, queue,
                 worker, func, taken, done>>

\* All threads are joined: the destructor returns and the pool is gone.
Destroy ==
  /\ owner = "joining"
  /\ joined = threads
  /\ owner' = "destroyed"
  /\ UNCHANGED <<numThreads, numTasks, threads, scheduled, queue, joined,
                 worker, func, taken, done>>

-----------------------------------------------------------------------------
(* A worker: WorkLoop.                                                     *)

\* Fault: queue_.pop() is forgotten.
PopNothing(w) ==
  /\ Alive
  /\ worker[w] = "waiting"
  /\ queue # <<>>
  /\ func' = [func EXCEPT ![w] = Head(queue)]
  /\ queue' = queue
  /\ taken' = taken

\* mu_.Await(WorkAvailable), then pop the front of the queue.
Pop(w) ==
  /\ Alive
  /\ worker[w] = "waiting"
  /\ queue # <<>>
  /\ func' = [func EXCEPT ![w] = Head(queue)]
  /\ queue' = Tail(queue)
  /\ taken' = taken + 1

Take(w) ==
  /\ Pop(w)
  /\ Head(queue) # nullptr
  /\ worker' = [worker EXCEPT ![w] = "running"]
  /\ UNCHANGED <<numThreads, numTasks, owner, threads, scheduled, joined, done>>

\* Fault: the loop does not end at the signal, which is put back.
RepostShutdown(w) ==
  /\ Alive
  /\ worker[w] = "waiting"
  /\ queue # <<>>
  /\ Head(queue) = nullptr
  /\ queue' = Append(Tail(queue), nullptr)
  /\ UNCHANGED <<numThreads, numTasks, owner, threads, scheduled, joined,
                 worker, func, taken, done>>

\* The shutdown signal breaks the loop and the thread ends.
TakeShutdown(w) ==
  /\ Pop(w)
  /\ Head(queue) = nullptr
  /\ worker' = [worker EXCEPT ![w] = "exited"]
  /\ UNCHANGED <<numThreads, numTasks, owner, threads, scheduled, joined, done>>

\* func() returns and the loop goes round.
Return(w) ==
  /\ Alive
  /\ worker[w] = "running"
  /\ worker' = [worker EXCEPT ![w] = "waiting"]
  /\ func' = [func EXCEPT ![w] = nullptr]
  /\ done' = done \cup {func[w]}
  /\ UNCHANGED <<numThreads, numTasks, owner, threads, scheduled, queue,
                 joined, taken>>

\* func() throws: WorkLoop catches nothing, and std::terminate ends the process,
\* whatever the other threads are doing.
Throw(w) ==
  /\ Alive
  /\ worker[w] = "running"
  /\ owner' = "terminated"
  /\ UNCHANGED <<numThreads, numTasks, threads, scheduled, queue, joined,
                 worker, func, taken, done>>

-----------------------------------------------------------------------------
OwnerStep ==
  SpawnWorker \/ SpawnFails \/ Started \/ Schedule \/ PushShutdown \/ Join
  \/ Destroy

WorkerStep(w) == Take(w) \/ TakeShutdown(w) \/ Return(w)

\* The pool is gone, or the process is: nothing more happens.
Finished == owner \in {"destroyed", "terminated"} /\ UNCHANGED vars

Next ==
  OwnerStep \/ (\E w \in Workers : WorkerStep(w) \/ Throw(w)) \/ Finished

\* The scheduler of the operating system runs every thread that can run, and
\* every scheduled function returns or throws.
Fairness == WF_vars(OwnerStep) /\ \A w \in Workers : WF_vars(WorkerStep(w))

Spec == Init /\ [][Next]_vars
FairSpec == Spec /\ Fairness

-----------------------------------------------------------------------------
(* The inductive invariant.                                                *)

\* The destructor has pushed its signals.
Closing == owner \in {"joining", "destroyed"}

\* The functions are numbered in the order of the calls, so the queue holds
\* the numbers that follow the last one taken, and then the signals.
QueueInOrder ==
  /\ Alive => taken + Len(queue) = scheduled + (IF Closing THEN threads ELSE 0)
  /\ \A i \in 1..Len(queue) :
       queue[i] = IF taken + i <= scheduled THEN taken + i ELSE nullptr

\* A function that was taken has returned or is running, on one thread.
TakenAccounted ==
  /\ \A t \in 1..scheduled : t <= taken =>
       t \in done \/ \E w \in Workers : worker[w] = "running" /\ func[w] = t
  /\ \A t \in done : t \in 1..scheduled /\ t <= taken
  /\ \A w \in Workers : worker[w] = "running" =>
       /\ func[w] \in 1..scheduled
       /\ func[w] <= taken
       /\ func[w] \notin done
       /\ \A v \in Workers : worker[v] = "running" /\ func[v] = func[w] => v = w

\* A thread ends only at a signal, when every function has been taken.
ThreadsAccounted ==
  /\ \A w \in Workers : worker[w] = "none" <=> w > threads
  /\ \A w \in Workers : worker[w] = "exited" =>
       (Alive => Closing) /\ taken > scheduled
  /\ \A w \in 1..joined : worker[w] = "exited"

\* The owner goes through the life of the pool in order.
OwnerInOrder ==
  /\ owner = "starting" => scheduled = 0
  /\ owner = "scheduling" => threads = numThreads
  /\ Closing => threads = numThreads /\ scheduled = numTasks
  /\ owner = "destroyed" => joined = threads

\* Whatever has been taken and whatever has ended, nothing is lost, nothing is
\* run twice, and no thread ends early: the code's reason why ~ThreadPool may
\* return after the joins.
Inv ==
  TypeOK /\ QueueInOrder /\ TakenAccounted /\ ThreadsAccounted /\ OwnerInOrder

-----------------------------------------------------------------------------
(* Properties.                                                             *)

\* What every caller relies on when the functions it schedules capture its
\* locals by reference: when the destructor has returned, every scheduled
\* function has run to its end.  A pool of no threads runs nothing.
AllRunBeforeDestroyed ==
  owner = "destroyed" /\ numThreads > 0 => done = 1..numTasks

\* No thread is left that could touch mu_ or queue_ after the destructor.
NoThreadOutlivesPool ==
  owner = "destroyed" => \A w \in Workers : worker[w] \in {"none", "exited"}

\* No function is run by two threads, or again after it has returned.
RunAtMostOnce ==
  \A w \in Workers : worker[w] = "running" =>
    /\ func[w] \notin done
    /\ \A v \in Workers : worker[v] = "running" /\ func[v] = func[w] => v = w

Signals == {i \in 1..Len(queue) : queue[i] = nullptr}
LiveThreads == {w \in 1..threads : worker[w] # "exited"}

\* The destructor's signals are neither too few nor too many: until the last
\* thread has ended, the queue holds one signal for each thread that has not,
\* so no join waits for ever.
OneSignalPerLiveThread ==
  owner = "joining" => Cardinality(Signals) = Cardinality(LiveThreads)

\* The function that is begun is the first that is not done or running.
BeginsNext ==
  \A w \in Workers : worker[w] = "waiting" /\ worker'[w] = "running" =>
    \A t \in 1..numTasks :
      t < func'[w] <=> t \in done \/ \E v \in Workers :
                                       worker[v] = "running" /\ func[v] = t

\* Functions are begun in the order in which they were scheduled.
BegunInOrder == [][BeginsNext]_vars

\* A bound on what the owner and the threads can still do: the threads to
\* start, the functions to schedule, the entries to pop, the functions to
\* return, the threads to join, and the parts of the pool's life to come.
StepsLeft ==
  (numThreads - threads) + (numTasks - scheduled)
    + (numTasks + numThreads - taken) + (numTasks - Cardinality(done))
    + (numThreads - joined)
    + (CASE owner = "starting"   -> 3
         [] owner = "scheduling" -> 2
         [] owner = "joining"    -> 1
         [] OTHER                -> 0)

Shortens == StepsLeft' \in Nat /\ StepsLeft' < StepsLeft

\* No loop of the pool goes round for nothing: a thread that leaves Await finds
\* an entry, no entry is ever put back, so every step uses up one of the finitely
\* many a pool has, whatever the order in which the threads run.
StepsRunOut == [][Shortens]_vars

\* The destructor returns once it is entered, unless a function throws.
DestructorReturns == owner = "joining" ~> owner = "destroyed" \/ ~Alive

=============================================================================
