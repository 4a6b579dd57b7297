-------------------------- MODULE SandboxRunProofs --------------------------
(***************************************************************************)
(* For pipes of every capacity and programs that write any amount: a run   *)
(* gives back its descriptors, answers only with all of the output, always *)
(* has a reader for a program that is held up, and implements RunContract. *)
(***************************************************************************)
EXTENDS SandboxRun, TLAPS

PoolProofs == INSTANCE ThreadPoolProofs WITH MaxThreads <- 2, MaxTasks <- 2

-----------------------------------------------------------------------------
(* The pool.                                                               *)

LEMMA PoolStep == [Next]_vars => [Pool!Next]_(Pool!vars)
<1> SUFFICES ASSUME [Next]_vars PROVE [Pool!Next]_(Pool!vars)
  OBVIOUS
<1> USE DEF poolVars, Pool!vars
<1>1. CASE CallerStep
  BY <1>1 DEF CallerStep, BufferFails, ReceiveFds, PolicyFails,
     ConstructSandbox, MoveSandbox, DestroyMovedFrom, RunAsyncFails, RunAsync,
     SetWalltimeLimit, OwnPool, ReadFailed, Drained, ReturnResult,
     AwaitCompilation, CallerReads, CallerReadsStdout, CallerReadsStderr,
     CallerReadFails, Pool!Next
<1>2. ASSUME NEW w \in Readers, WorkerStep(w) PROVE [Pool!Next]_(Pool!vars)
  <2>1. CASE Pool!Take(w) \/ Pool!TakeShutdown(w) \/ Pool!Return(w)
    BY <2>1 DEF Pool!Next, Pool!WorkerStep, Pool!Workers, Readers
  <2>2. CASE UNCHANGED poolVars
    BY <2>2
  <2> QED
    BY <1>2, <2>1, <2>2 DEF WorkerStep, TakeStream, EndThread, WorkerReads,
       WorkerFinishes
<1>3. CASE ProgramStep \/ Killed \/ LimitReached
  BY <1>3 DEF ProgramStep, BeginWrite, EndWrite, WriteRefused, CloseStream,
     Exit, Killed, LimitReached, Ends
<1>4. CASE Finished \/ UNCHANGED vars
  BY <1>4 DEF Finished, vars
<1> QED
  BY <1>1, <1>2, <1>3, <1>4 DEF Next, RunStep

\* tester_sandboxer.cc:436-441 uses the pool as ThreadPool says it is used.
THEOREM UsesPool == Spec => Pool!Spec
<1>1. Init => Pool!Init
  BY DEF Init, InitWithReaders
<1> QED
  BY <1>1, PoolStep, PTL DEF Spec, Pool!Spec

\* The two instances of the pool have the same definitions.
LEMMA SamePool ==
  /\ Pool!Init <=> PoolProofs!Init
  /\ Pool!Next <=> PoolProofs!Next
  /\ Pool!Inv <=> PoolProofs!Inv
<1> USE DEF Pool!Workers, PoolProofs!Workers, Pool!nullptr, PoolProofs!nullptr,
            Pool!Alive, PoolProofs!Alive, Pool!vars, PoolProofs!vars
<1>1. Pool!Init <=> PoolProofs!Init
  BY DEF Pool!Init, PoolProofs!Init
<1>2. Pool!OwnerStep <=> PoolProofs!OwnerStep
  BY DEF Pool!SpawnWorker, PoolProofs!SpawnWorker, Pool!SpawnFails,
         PoolProofs!SpawnFails, Pool!Started, PoolProofs!Started,
         Pool!Schedule, PoolProofs!Schedule, Pool!PushShutdown,
         PoolProofs!PushShutdown, Pool!Join, PoolProofs!Join, Pool!Destroy,
         PoolProofs!Destroy, Pool!OwnerStep, PoolProofs!OwnerStep
<1>3. ASSUME NEW w \in Pool!Workers
      PROVE  Pool!WorkerStep(w) <=> PoolProofs!WorkerStep(w)
  BY DEF Pool!Take, PoolProofs!Take, Pool!TakeShutdown,
         PoolProofs!TakeShutdown, Pool!Return, PoolProofs!Return,
         Pool!WorkerStep, PoolProofs!WorkerStep, Pool!Pop, PoolProofs!Pop
<1>4. /\ Pool!Finished <=> PoolProofs!Finished
      /\ \A w \in Pool!Workers : Pool!Throw(w) <=> PoolProofs!Throw(w)
  BY DEF Pool!Finished, PoolProofs!Finished, Pool!Throw, PoolProofs!Throw
<1>5. Pool!Next <=> PoolProofs!Next
  BY <1>2, <1>3, <1>4 DEF Pool!Next, PoolProofs!Next
<1>6. Pool!Inv <=> PoolProofs!Inv
  BY DEF Pool!Inv, PoolProofs!Inv, Pool!TypeOK, PoolProofs!TypeOK,
         Pool!Closing, PoolProofs!Closing, Pool!QueueInOrder,
         PoolProofs!QueueInOrder, Pool!TakenAccounted,
         PoolProofs!TakenAccounted, Pool!ThreadsAccounted,
         PoolProofs!ThreadsAccounted, Pool!OwnerInOrder,
         PoolProofs!OwnerInOrder
<1> QED
  BY <1>1, <1>5, <1>6

LEMMA PoolSpecs == Spec => PoolProofs!Spec
<1>1. [Pool!Next]_(Pool!vars) => [PoolProofs!Next]_(PoolProofs!vars)
  BY SamePool DEF Pool!vars, PoolProofs!vars
<1>2. Pool!Init => PoolProofs!Init
  BY SamePool
<1> QED
  BY <1>1, <1>2, UsesPool, PTL DEF Pool!Spec, PoolProofs!Spec

\* What ThreadPoolProofs proves of the pool, for the pool of a run.
LEMMA PoolHolds == Spec => [](Pool!Inv /\ Pool!AllRunBeforeDestroyed)
<1>1. 2 \in Nat
  OBVIOUS
<1>2. PoolProofs!Spec => []PoolProofs!Inv
  BY <1>1, PoolProofs!InvHolds, PTL
<1>3. PoolProofs!Spec => []PoolProofs!AllRunBeforeDestroyed
  BY <1>1, PoolProofs!AllRun, PTL
<1>4. PoolProofs!Inv => Pool!Inv
  BY SamePool
<1>5. PoolProofs!AllRunBeforeDestroyed => Pool!AllRunBeforeDestroyed
  BY DEF PoolProofs!AllRunBeforeDestroyed, Pool!AllRunBeforeDestroyed
<1> QED
  BY <1>2, <1>3, <1>4, <1>5, PoolSpecs, PTL

-----------------------------------------------------------------------------
(* Pool!Inv in the names of SandboxRun, and what a step of the pool leaves  *)
(* alone.                                                                  *)

LEMMA PoolFacts ==
  ASSUME Pool!Inv, numTasks = 2
  PROVE  /\ worker \in [Readers -> {"none", "waiting", "running", "exited"}]
         /\ func \in [Readers -> 0..2]
         /\ done \subseteq Streams
         /\ \A w \in Readers : worker[w] = "running" =>
              /\ func[w] \in Streams \ done
              /\ owner \notin {"starting", "destroyed"}
              /\ \A v \in Readers :
                   worker[v] = "running" /\ func[v] = func[w] => v = w
         /\ owner = "starting" => done = {}
BY DEF Pool!Inv, Pool!TypeOK, Pool!TakenAccounted, Pool!ThreadsAccounted,
       Pool!OwnerInOrder, Pool!Closing, Pool!Workers, Readers, Streams,
       stdout, stderr

LEMMA OwnerFrame ==
  ASSUME Pool!OwnerStep
  PROVE  /\ UNCHANGED <<numThreads, numTasks, done>>
         /\ owner # "destroyed"
BY DEF Pool!OwnerStep, Pool!SpawnWorker, Pool!SpawnFails, Pool!Started,
       Pool!Schedule, Pool!PushShutdown, Pool!Join, Pool!Destroy

LEMMA WorkerFrame ==
  ASSUME NEW w \in Readers, Pool!Take(w) \/ Pool!TakeShutdown(w)
  PROVE  UNCHANGED <<numThreads, numTasks, owner, done>>
BY DEF Pool!Take, Pool!TakeShutdown, Pool!Pop

LEMMA ReturnFrame ==
  ASSUME NEW w \in Readers, Pool!Return(w)
  PROVE  /\ worker[w] = "running"
         /\ done' = done \cup {func[w]}
         /\ UNCHANGED <<numThreads, numTasks, owner>>
BY DEF Pool!Return

-----------------------------------------------------------------------------
(* Inv is inductive.                                                       *)

USE PipeAssumption DEF Streams, stdout, stderr, Readers, NotOk, FinalStatuses,
                       Ended, Running

LEMMA InitInv == Init /\ Pool!Inv => Inv
<1> SUFFICES ASSUME Init, Pool!Inv PROVE Inv
  OBVIOUS
<1>1. TypeOK
  <2>1. 0 \in 0..MaxBlocks /\ 0 \in 0..PipeCapacity
    OBVIOUS
  <2>2. /\ pipe \in [Streams -> 0..PipeCapacity]
        /\ sent \in [Streams -> 0..MaxBlocks]
        /\ received \in [Streams -> 0..MaxBlocks]
    BY <2>1 DEF Init, InitWithReaders
  <2>3. contents \in [Streams -> SUBSET (0..MaxBlocks)]
    BY DEF Init, InitWithReaders
  <2>4. holds \in [{"status", "local"} -> SUBSET Streams]
    BY DEF Init, InitWithReaders
  <2> QED
    BY <2>2, <2>3, <2>4 DEF Init, InitWithReaders, TypeOK, Pool!Inv
<1>2. CallerInOrder
  BY DEF Init, InitWithReaders, CallerInOrder, Pool!Init
<1>3. HoldersOwn /\ StreamsClosed
  BY DEF Init, InitWithReaders, HoldersOwn, StreamsClosed
<1>4. BlocksAccounted /\ ContentsRead
  BY DEF Init, InitWithReaders, BlocksAccounted, ContentsRead
<1> QED
  BY <1>1, <1>2, <1>3, <1>4 DEF Inv

\* Up to the start of the drain: the pool has not been made.
LEMMA CreateKeepsInv ==
  ASSUME Inv, Pool!Inv',
         \/ BufferFails \/ ReceiveFds \/ PolicyFails \/ ConstructSandbox
         \/ MoveSandbox \/ DestroyMovedFrom
         \/ RunAsyncFails \/ RunAsync \/ SetWalltimeLimit
  PROVE  Inv'
<1> USE DEF BufferFails, ReceiveFds, PolicyFails, ConstructSandbox, MoveSandbox,
            DestroyMovedFrom, RunAsyncFails, RunAsync, SetWalltimeLimit,
            Returns, Destroys
<1>1. TypeOK'
  BY DEF Inv, TypeOK, Pool!Inv, fdVars, pipeVars, programVars
<1>2. CallerInOrder'
  BY DEF Inv, TypeOK, CallerInOrder, poolVars, programVars
<1>3. HoldersOwn'
  BY DEF Inv, TypeOK, HoldersOwn, fdVars
<1>4. StreamsClosed'
  <2>1. owner = "starting" => done = {}
    BY PoolFacts DEF Inv, CallerInOrder
  <2> QED
    BY <2>1 DEF Inv, TypeOK, CallerInOrder, HoldersOwn, StreamsClosed, fdVars,
       poolVars
<1>5. BlocksAccounted'
  BY DEF Inv, TypeOK, BlocksAccounted, CallerInOrder, ContentsRead, fdVars,
     pipeVars, programVars
<1>6. ContentsRead'
  BY DEF Inv, TypeOK, ContentsRead, CallerInOrder, fdVars
<1> QED
  BY <1>1, <1>2, <1>3, <1>4, <1>5, <1>6 DEF Inv

\* The pool's own steps, and the reader that begins or ends.
LEMMA PoolKeepsInv ==
  ASSUME Inv, Pool!Inv',
         OwnPool \/ \E w \in Readers : TakeStream(w) \/ EndThread(w)
  PROVE  Inv'
<1>1. /\ UNCHANGED <<numThreads, numTasks, done, callerVars, fdVars,
                     programVars, pipeVars>>
      /\ pc # "drain" => UNCHANGED owner
      /\ pc = "drain" \/ UNCHANGED owner
  BY OwnerFrame, WorkerFrame DEF OwnPool, TakeStream, EndThread
<1>2. TypeOK'
  BY <1>1 DEF Inv, TypeOK, Pool!Inv, callerVars, fdVars, programVars, pipeVars
<1>3. CallerInOrder'
  BY <1>1 DEF Inv, CallerInOrder, callerVars, programVars
<1>4. HoldersOwn' /\ StreamsClosed' /\ BlocksAccounted' /\ ContentsRead'
  BY <1>1 DEF Inv, HoldersOwn, StreamsClosed, BlocksAccounted, ContentsRead,
     callerVars, fdVars, programVars, pipeVars
<1> QED
  BY <1>2, <1>3, <1>4 DEF Inv

\* After the drain, when its results are used.
LEMMA AnswerKeepsInv ==
  ASSUME Inv, Pool!Inv', Pool!AllRunBeforeDestroyed,
         \/ ReadFailed \/ Drained \/ ReturnResult
         \/ AwaitCompilation \/ CallerReadFails
  PROVE  Inv'
<1> USE DEF ReadFailed, Drained, ReturnResult, AwaitCompilation,
            CallerReadFails, Returns, Destroys
<1>1. TypeOK'
  BY DEF Inv, TypeOK, Pool!Inv, fdVars, pipeVars, programVars
<1>2. CallerInOrder'
  BY DEF Inv, TypeOK, CallerInOrder, poolVars, programVars
<1>3. HoldersOwn'
  BY DEF Inv, TypeOK, HoldersOwn, fdVars
<1>4. StreamsClosed'
  <2>1. owner = "destroyed" => done = Streams
    BY DEF Inv, CallerInOrder, Pool!AllRunBeforeDestroyed
  <2> QED
    BY <2>1 DEF Inv, TypeOK, CallerInOrder, HoldersOwn, StreamsClosed, fdVars,
       poolVars
<1>5. BlocksAccounted' /\ ContentsRead'
  BY DEF Inv, BlocksAccounted, ContentsRead, CallerInOrder, fdVars, pipeVars,
     programVars
<1> QED
  BY <1>1, <1>2, <1>3, <1>4, <1>5 DEF Inv

\* A block on its way from the pipe to its reader.
LEMMA BlockKeepsInv ==
  ASSUME Inv, Pool!Inv', CallerReads \/ \E w \in Readers : WorkerReads(w)
  PROVE  Inv'
<1>1. PICK s \in Streams :
        /\ ReadBlock(s)
        /\ pc \in {"drain", "stdout", "stderr"}
        /\ s \in open
        /\ UNCHANGED <<poolVars, callerVars, programVars>>
  <2>1. CASE CallerReads
    BY <2>1 DEF CallerReads, Reading, Inv, StreamsClosed
  <2>2. ASSUME NEW w \in Readers, WorkerReads(w) PROVE func[w] \in Streams /\ func[w] \notin done /\ pc = "drain"
    BY <2>2, PoolFacts DEF WorkerReads, Inv, CallerInOrder
  <2> QED
    BY <2>1, <2>2 DEF WorkerReads, CallerReads, Inv, StreamsClosed
<1>2. contents[s] = NotOk
  BY <1>1 DEF ReadBlock, Inv, TypeOK, BlocksAccounted
<1>3. /\ pipe' = [pipe EXCEPT ![s] = @ - 1]
      /\ received' = [received EXCEPT ![s] = @ + 1]
      /\ pipe[s] > 0
      /\ UNCHANGED <<fdVars, sent>>
  BY <1>1 DEF ReadBlock
<1>4. /\ sent \in [Streams -> 0..MaxBlocks]
      /\ pipe \in [Streams -> 0..PipeCapacity]
      /\ received \in [Streams -> 0..MaxBlocks]
      /\ sent[s] = received[s] + pipe[s]
  BY DEF Inv, TypeOK, BlocksAccounted
<1>5. TypeOK'
  <2>1. pipe[s] - 1 \in 0..PipeCapacity /\ received[s] + 1 \in 0..MaxBlocks
    BY <1>3, <1>4
  <2> QED
    BY <1>1, <1>3, <1>4, <2>1 DEF Inv, TypeOK, Pool!Inv, callerVars, fdVars,
       programVars
<1>6. BlocksAccounted'
  BY <1>1, <1>2, <1>3, <1>4
     DEF Inv, TypeOK, BlocksAccounted, fdVars, programVars
<1>7. CallerInOrder' /\ HoldersOwn' /\ StreamsClosed' /\ ContentsRead'
  BY <1>1, <1>3
     DEF Inv, CallerInOrder, HoldersOwn, StreamsClosed, ContentsRead, poolVars,
         callerVars, fdVars, programVars
<1> QED
  BY <1>5, <1>6, <1>7 DEF Inv

\* A reader is done with its stream and closes it.
LEMMA CloseKeepsInv ==
  ASSUME Inv, Pool!Inv',
         \/ CallerReadsStdout \/ CallerReadsStderr
         \/ \E w \in Readers : WorkerFinishes(w)
  PROVE  Inv'
<1>1. PICK s \in Streams :
        /\ EndOfFile(s) \/ ReadError(s)
        /\ s \in open
        /\ UNCHANGED <<numThreads, numTasks, owner, call, limitSet, programVars>>
        /\ \/ /\ pc = "drain" /\ UNCHANGED <<pc, ret>>
              /\ done' = done \cup {s}
           \/ /\ pc = "stdout" /\ s = stdout /\ EndOfFile(s)
              /\ pc' = "stderr" /\ UNCHANGED <<ret, done>>
           \/ /\ pc = "stderr" /\ s = stderr /\ EndOfFile(s)
              /\ pc' = "returned" /\ ret' = "OK" /\ UNCHANGED done
  <2>1. CASE CallerReadsStdout
    BY <2>1 DEF CallerReadsStdout, Inv, StreamsClosed, poolVars
  <2>2. CASE CallerReadsStderr
    BY <2>2 DEF CallerReadsStderr, Inv, StreamsClosed, poolVars
  <2>3. ASSUME NEW w \in Readers, WorkerFinishes(w)
        PROVE  /\ func[w] \in Streams \ done /\ pc = "drain"
               /\ done' = done \cup {func[w]}
               /\ UNCHANGED <<numThreads, numTasks, owner>>
    BY <2>3, PoolFacts, ReturnFrame DEF WorkerFinishes, Inv, CallerInOrder
  <2> QED
    BY <2>1, <2>2, <2>3 DEF WorkerFinishes, Inv, StreamsClosed, callerVars
<1>2. /\ contents' = [contents EXCEPT ![s] = {received[s]}]
           /\ pipe[s] = 0 /\ s \notin writable
      \/ contents' = [contents EXCEPT ![s] = NotOk]
  BY <1>1 DEF EndOfFile, ReadError, ReadAndClose
<1>3. /\ open' = open \ {s}
      /\ holds' = [holds EXCEPT !["local"] = @ \ {s}]
      /\ UNCHANGED pipeVars
  BY <1>1 DEF EndOfFile, ReadError, ReadAndClose
<1>4. TypeOK'
  <2>1. contents' \in [Streams -> SUBSET (0..MaxBlocks)]
    <3>1. {received[s]} \in SUBSET (0..MaxBlocks)
      BY DEF Inv, TypeOK
    <3> QED
      BY <1>2, <3>1 DEF Inv, TypeOK
  <2> QED
    BY <1>1, <1>3, <2>1 DEF Inv, TypeOK, Pool!Inv, pipeVars, programVars
<1>5. CallerInOrder'
  BY <1>1 DEF Inv, CallerInOrder, programVars
<1>6. HoldersOwn' /\ StreamsClosed'
  BY <1>1, <1>3 DEF Inv, TypeOK, CallerInOrder, HoldersOwn, StreamsClosed
<1>7. BlocksAccounted'
  BY <1>1, <1>2, <1>3 DEF Inv, TypeOK, BlocksAccounted, pipeVars, programVars
<1>8. ContentsRead'
  <2>1. EndOfFile(s) => contents' = [contents EXCEPT ![s] = {received[s]}]
    BY DEF EndOfFile, ReadAndClose
  <2> QED
    BY <1>1, <1>2, <2>1 DEF Inv, TypeOK, CallerInOrder, ContentsRead, programVars
<1> QED
  BY <1>4, <1>5, <1>6, <1>7, <1>8 DEF Inv

\* The program writes, closes a stream, ends or is killed.
LEMMA ProgramKeepsInv ==
  ASSUME Inv, Pool!Inv', ProgramStep \/ Killed \/ LimitReached
  PROVE  Inv'
<1>1. /\ program = "running"
      /\ UNCHANGED <<poolVars, callerVars, fdVars>>
  BY DEF ProgramStep, BeginWrite, EndWrite, WriteRefused, CloseStream, Exit,
     Killed, LimitReached, Ends
<1>2. program' = "running" \/ program' \in FinalStatuses
  BY <1>1 DEF ProgramStep, BeginWrite, EndWrite, WriteRefused, CloseStream,
     Exit, Killed, LimitReached, Ends
<1>3. TypeOK' /\ BlocksAccounted'
  <2>1. CASE \E s \in Streams : BeginWrite(s) \/ WriteRefused(s) \/ CloseStream(s)
    <3>1. PICK s \in Streams : BeginWrite(s) \/ WriteRefused(s) \/ CloseStream(s)
      BY <2>1
    <3>2. /\ UNCHANGED <<pipeVars, program>>
          /\ \/ /\ writable' = writable /\ s \in writable /\ sent[s] < MaxBlocks
                /\ blocked' = blocked \cup {s}
             \/ writable' = writable /\ blocked' = blocked \ {s}
             \/ /\ writable' = writable \ {s} /\ blocked' = blocked
                /\ s \notin blocked
      BY <3>1 DEF BeginWrite, WriteRefused, CloseStream
    <3>3. TypeOK'
      BY <1>1, <3>2 DEF Inv, TypeOK, Pool!Inv, callerVars, fdVars, pipeVars
    <3>4. BlocksAccounted'
      BY <1>1, <3>2 DEF Inv, TypeOK, BlocksAccounted, fdVars, pipeVars
    <3> QED
      BY <3>3, <3>4
  <2>2. ASSUME NEW s \in Streams, EndWrite(s) PROVE TypeOK' /\ BlocksAccounted'
    <3>1. /\ s \in writable /\ contents[s] = NotOk
          /\ sent[s] < MaxBlocks /\ pipe[s] < PipeCapacity
      BY <2>2 DEF EndWrite, Inv, TypeOK, BlocksAccounted
    <3>2. sent[s] + 1 \in 0..MaxBlocks /\ pipe[s] + 1 \in 0..PipeCapacity
      BY <3>1 DEF Inv, TypeOK
    <3> QED
      BY <1>1, <2>2, <3>1, <3>2 DEF Inv, TypeOK, Pool!Inv, BlocksAccounted,
         EndWrite, callerVars, fdVars
  <2>3. CASE Exit \/ Killed \/ LimitReached
    BY <1>1, <2>3 DEF Inv, TypeOK, Pool!Inv, BlocksAccounted, Exit, Killed,
       LimitReached, Ends, callerVars, fdVars, pipeVars
  <2> QED
    BY <2>1, <2>2, <2>3 DEF ProgramStep
<1>4. CallerInOrder' /\ HoldersOwn' /\ StreamsClosed' /\ ContentsRead'
  BY <1>1, <1>2 DEF Inv, TypeOK, CallerInOrder, HoldersOwn, StreamsClosed,
     ContentsRead, poolVars, callerVars, fdVars
<1> QED
  BY <1>3, <1>4 DEF Inv

LEMMA StutterKeepsInv == ASSUME Inv, Pool!Inv', UNCHANGED vars PROVE Inv'
<1> USE DEF vars, poolVars, callerVars, fdVars, programVars, pipeVars
<1>1. TypeOK' /\ CallerInOrder' /\ HoldersOwn' /\ StreamsClosed'
  BY DEF Inv, TypeOK, CallerInOrder, HoldersOwn, StreamsClosed, Pool!Inv
<1>2. BlocksAccounted' /\ ContentsRead'
  BY DEF Inv, BlocksAccounted, ContentsRead
<1> QED
  BY <1>1, <1>2 DEF Inv

\* Descriptors, streams and blocks are accounted for in every reachable state.
THEOREM InvHolds == Spec => []Inv
<1>1. Init /\ Pool!Inv => Inv
  BY InitInv
<1>2. Inv /\ Pool!Inv' /\ Pool!AllRunBeforeDestroyed /\ [Next]_vars => Inv'
  BY CreateKeepsInv, PoolKeepsInv, AnswerKeepsInv, BlockKeepsInv,
     CloseKeepsInv, ProgramKeepsInv, StutterKeepsInv
     DEF Next, RunStep, CallerStep, WorkerStep, Finished
<1> QED
  BY <1>1, <1>2, PoolHolds, PTL DEF Spec

-----------------------------------------------------------------------------
(* What follows from Inv.                                                  *)

\* The variables of a run keep their types.
THEOREM TypeCorrect == Spec => []TypeOK
<1>1. Inv => TypeOK
  BY DEF Inv
<1> QED
  BY <1>1, InvHolds, PTL

\* tester_sandboxer.cc:207-250: a descriptor is closed once, by the one object
\* that has it, and is read only while it is open.
THEOREM OwnedOnce == Spec => []OneOwner
<1>1. Inv => OneOwner
  <2> SUFFICES ASSUME Inv PROVE OneOwner
    OBVIOUS
  <2>1. holds["status"] \cap holds["local"] = {}
    BY DEF Inv, HoldersOwn
  <2>2. holds["status"] \cup holds["local"] \subseteq open
    BY DEF Inv, HoldersOwn
  <2>3. ASSUME NEW w \in Readers, worker[w] = "running" PROVE func[w] \in open
    BY <2>3, PoolFacts DEF Inv, CallerInOrder, StreamsClosed
  <2> QED
    BY <2>1, <2>2, <2>3 DEF OneOwner
<1> QED
  BY <1>1, InvHolds, PTL

\* tester_sandboxer.cc:422-445 and py_tester_sandboxer.cc:78-93: on every path
\* but the failure of CreatePolicy, the descriptors are given back.
THEOREM GivenBack == Spec => DescriptorsGivenBack
<1>1. ASSUME Inv, Next, pc' = "returned", pc \notin {"policy", "returned"}
      PROVE  open' = {}
  <2> USE <1>1 DEF Inv, TypeOK, CallerInOrder, HoldersOwn, StreamsClosed
  <2>1. CASE CallerStep
    BY <2>1 DEF CallerStep, BufferFails, ReceiveFds, PolicyFails,
       ConstructSandbox, MoveSandbox, DestroyMovedFrom, RunAsyncFails,
       RunAsync, SetWalltimeLimit, OwnPool, ReadFailed, Drained, ReturnResult,
       AwaitCompilation, CallerReads, CallerReadsStdout, CallerReadsStderr,
       CallerReadFails, Returns, Destroys, EndOfFile, ReadAndClose, callerVars
  <2>2. CASE \/ \E w \in Readers : WorkerStep(w)
             \/ ProgramStep \/ Killed \/ LimitReached \/ Finished
    <3>1. pc' = pc
      BY <2>2 DEF WorkerStep, TakeStream, EndThread, WorkerReads,
         WorkerFinishes, ProgramStep, BeginWrite, EndWrite, WriteRefused,
         CloseStream, Exit, Killed, LimitReached, Ends, Finished, callerVars,
         vars
    <3> QED
      BY <3>1
  <2> QED
    BY <2>1, <2>2 DEF Next, RunStep
<1>2. Inv /\ [Next]_vars => [GivesBack]_vars
  BY <1>1 DEF GivesBack
<1> QED
  BY <1>2, InvHolds, PTL DEF Spec, DescriptorsGivenBack

\* What an OK answer of either caller says about the output.
LEMMA AnswerComplete == Inv => OutputComplete
<1> SUFFICES ASSUME Inv, ret = "OK", NEW s \in Streams
             PROVE  Ended /\ contents[s] = {sent[s]}
  BY DEF OutputComplete, Inv, TypeOK, BlocksAccounted, ContentsRead
<1>1. contents[s] # {} /\ \A n \in contents[s] : n = received[s] /\ pipe[s] = 0
  BY DEF Inv, BlocksAccounted, ContentsRead
<1>2. sent[s] = received[s] + pipe[s] /\ received[s] \in Nat
  BY DEF Inv, TypeOK, BlocksAccounted
<1>3. contents[s] = {sent[s]}
  BY <1>1, <1>2
<1> QED
  BY <1>3 DEF Inv, ContentsRead

\* tester_sandboxer.cc:442-450: the output of an OK answer is all of it.
THEOREM OutputIsComplete == Spec => []OutputComplete
BY AnswerComplete, InvHolds, PTL

\* tester_sandboxer.cc:436-441: two readers are enough for two pipes.
THEOREM AlwaysRead == Spec => []BlockedProgramIsRead
<1>1. Inv => BlockedProgramIsRead
  <2> SUFFICES ASSUME Inv, owner = "joining", NEW s \in blocked \cap open
               PROVE  \E w \in Readers :
                        \/ worker[w] = "running" /\ func[w] = s
                        \/ /\ worker[w] = "waiting"
                           /\ \E i \in DOMAIN queue : queue[i] = s
    BY DEF BlockedProgramIsRead
  <2> USE DEF Inv, CallerInOrder
  <2>1. s \in Streams \ done
    BY DEF TypeOK, StreamsClosed
  <2>2. /\ scheduled = 2 /\ threads = 2 /\ taken \in Nat
        /\ queue \in Seq(0..2)
    BY DEF Pool!Inv, Pool!TypeOK, Pool!OwnerInOrder, Pool!Closing
  <2>3. CASE s <= taken
    BY <2>1, <2>2, <2>3 DEF Pool!Inv, Pool!TakenAccounted, Pool!Workers
  <2>4. CASE s > taken
    <3>1. \E w \in Readers : worker[w] = "waiting"
      <4> SUFFICES ASSUME \A w \in Readers : worker[w] # "waiting" PROVE FALSE
        OBVIOUS
      <4>1. \A w \in Readers : worker[w] = "running"
        BY <2>1, <2>2, <2>4, PoolFacts
           DEF Pool!Inv, Pool!ThreadsAccounted, Pool!Workers
      <4>2. \A w \in Readers : func[w] \in Streams /\ func[w] <= taken
        BY <2>2, <4>1, PoolFacts DEF Pool!Inv, Pool!TakenAccounted, Pool!Workers
      <4>3. func[1] = 1 /\ func[2] = 1
        BY <2>1, <2>2, <2>4, <4>2
      <4> QED
        BY <4>1, <4>3, PoolFacts
    <3>2. s - taken \in DOMAIN queue /\ queue[s - taken] = s
      BY <2>1, <2>2, <2>4
         DEF Pool!Inv, Pool!QueueInOrder, Pool!Closing, Pool!Alive
    <3> QED
      BY <3>1, <3>2
  <2> QED
    BY <2>1, <2>2, <2>3, <2>4
<1> QED
  BY <1>1, InvHolds, PTL

-----------------------------------------------------------------------------
(* Nobody waits in a circle, and all waiting is over after finitely many    *)
(* steps.                                                                  *)

\* The owner of the pool waits in a join only for a reader that can be taken
\* on, or that reads.
LEMMA JoinedReader ==
  ASSUME Inv, PoolProofs!JoinWaitsForNobodyStuck, owner = "joining",
         joined < threads, worker[joined + 1] # "exited"
  PROVE  /\ joined + 1 \in Readers
         /\ \/ worker[joined + 1] = "running"
            \/ worker[joined + 1] = "waiting" /\ queue # <<>>
BY DEF PoolProofs!JoinWaitsForNobodyStuck, PoolProofs!OwnerCanMove,
       PoolProofs!WorkerCanMove, PoolProofs!Workers

\* tester_sandboxer.cc:436-446 and py_tester_sandboxer.cc:84-91: only a compiler
\* that is awaited before it is read can wait for ever.
THEOREM StallsOnlyCompiler == Spec => []OnlyFullPipeStalls
<1>1. PoolProofs!Spec => []PoolProofs!JoinWaitsForNobodyStuck
  <2>1. 2 \in Nat
    OBVIOUS
  <2> QED
    BY <2>1, PoolProofs!NobodyIsStuck, PTL
<1>2. Inv /\ BlockedProgramIsRead /\ PoolProofs!JoinWaitsForNobodyStuck
        => OnlyFullPipeStalls
  <2> SUFFICES ASSUME Inv, BlockedProgramIsRead,
                      PoolProofs!JoinWaitsForNobodyStuck,
                      ~Over, ~CallerCanMove, ~ProgramCanMove,
                      \A w \in Readers : ~ReaderCanMove(w)
               PROVE  /\ call = "CompileCode" /\ pc = "await"
                      /\ \E s \in blocked : pipe[s] = PipeCapacity
    BY DEF OnlyFullPipeStalls
  <2>1. /\ pc \in {"drain", "await", "stdout", "stderr"}
        /\ program # "none" /\ program \in {"none", "running"} \cup FinalStatuses
    BY DEF Inv, TypeOK, CallerInOrder, Over, CallerCanMove
  <2>2. Ended => writable = {}
    BY DEF Inv, BlocksAccounted
  <2>3. pc \notin {"stdout", "stderr"}
    BY <2>2 DEF Inv, CallerInOrder, CallerCanMove, Readable, Reading
  <2>4. \A s \in Streams : pipe[s] \in 0..PipeCapacity
    BY DEF Inv, TypeOK
  <2>5. CASE pc = "await"
    <3>1. Running
      BY <2>1, <2>5 DEF CallerCanMove
    <3>2. PICK s \in blocked : s \in open /\ ~(pipe[s] < PipeCapacity)
      BY <3>1 DEF ProgramCanMove
    <3>3. s \in Streams
      BY DEF Inv, TypeOK
    <3>4. pipe[s] = PipeCapacity
      BY <2>4, <3>2, <3>3
    <3>5. call = "CompileCode"
      BY <2>5, <3>2 DEF Inv, StreamsClosed
    <3> QED
      BY <2>5, <3>4, <3>5
  <2>6. CASE pc = "drain"
    <3>1. owner = "joining" /\ joined < threads /\ worker[joined + 1] # "exited"
      BY <2>6 DEF CallerCanMove, Over, ProcessEnded, Inv, Pool!Inv, Pool!TypeOK
    <3>2. joined + 1 \in Readers /\ worker[joined + 1] = "running"
      BY <3>1, JoinedReader DEF ReaderCanMove
    <3> DEFINE t == func[joined + 1]
    <3>3. t \in Streams \ done
      BY <3>2, PoolFacts DEF Inv, CallerInOrder
    <3>4. t \in writable
      BY <3>2 DEF ReaderCanMove, Readable
    <3>5. Running
      BY <2>1, <2>2, <3>4
    <3>6. PICK s \in blocked : s \in open /\ ~(pipe[s] < PipeCapacity)
      BY <3>5 DEF ProgramCanMove
    <3>7. pipe[s] > 0
      BY <2>4, <3>6 DEF Inv, TypeOK
    <3>8. PICK w \in Readers :
            \/ worker[w] = "running" /\ func[w] = s
            \/ worker[w] = "waiting" /\ \E i \in DOMAIN queue : queue[i] = s
      BY <3>1, <3>6 DEF BlockedProgramIsRead
    <3>9. ReaderCanMove(w)
      <4>1. CASE worker[w] = "running" /\ func[w] = s
        BY <3>7, <4>1 DEF ReaderCanMove, Readable
      <4>2. CASE worker[w] = "waiting" /\ \E i \in DOMAIN queue : queue[i] = s
        <5>1. queue # <<>>
          BY <4>2
        <5> QED
          BY <4>2, <5>1 DEF ReaderCanMove
      <4> QED
        BY <3>8, <4>1, <4>2
    <3> QED
      BY <3>9
  <2> QED
    BY <2>1, <2>3, <2>5, <2>6
<1> QED
  BY <1>1, <1>2, PoolSpecs, InvHolds, AlwaysRead, PTL

\* The count of the pool's steps is the same in both instances.
LEMMA SamePoolSteps ==
  /\ Pool!StepsLeft = PoolProofs!StepsLeft
  /\ [PoolProofs!Shortens]_(PoolProofs!vars) => [Pool!Shortens]_(Pool!vars)
<1>1. ASSUME NEW S PROVE Pool!Cardinality(S) = PoolProofs!Cardinality(S)
  BY DEF Pool!Cardinality, PoolProofs!Cardinality
<1>2. Pool!StepsLeft = PoolProofs!StepsLeft
  <2>1. Pool!Cardinality(done) = PoolProofs!Cardinality(done)
    BY <1>1
  <2> QED
    BY <2>1 DEF PoolProofs!StepsLeft, Pool!StepsLeft
<1>3. Pool!StepsLeft' = PoolProofs!StepsLeft'
  <2>1. Pool!Cardinality(done') = PoolProofs!Cardinality(done')
    BY <1>1
  <2> QED
    BY <2>1 DEF PoolProofs!StepsLeft, Pool!StepsLeft
<1> QED
  BY <1>2, <1>3
     DEF PoolProofs!Shortens, Pool!Shortens, PoolProofs!vars, Pool!vars

LEMMA StreamCountBounds ==
  ASSUME NEW S
  PROVE  /\ StreamCount(S) \in 0..2 /\ StreamCount({}) = 0
         /\ StreamCount(Streams) = 2
         /\ \A s \in Streams \cap S : StreamCount(S \ {s}) = StreamCount(S) - 1
BY DEF StreamCount

ProgramLeft == IF program = "none" THEN 2 ELSE IF Running THEN 1 ELSE 0

\* What is left but for the pool's steps.
RestLeft ==
  RunSteps[pc] + pipe[stdout] + pipe[stderr] + 2 * StreamCount(blocked)
    + StreamCount(writable) + ProgramLeft

LEMMA RestTypes ==
  ASSUME Inv, Inv'
  PROVE  /\ RunSteps[pc] \in Nat /\ RunSteps[pc'] \in Nat
         /\ pipe[stdout] \in Nat /\ pipe'[stdout] \in Nat
         /\ pipe[stderr] \in Nat /\ pipe'[stderr] \in Nat
         /\ StreamCount(blocked) \in Nat /\ StreamCount(blocked') \in Nat
         /\ StreamCount(writable) \in Nat /\ StreamCount(writable') \in Nat
         /\ ProgramLeft \in 0..2 /\ ProgramLeft' \in 0..2
         /\ RestLeft \in Nat /\ RestLeft' \in Nat
<1>1. RunSteps[pc] \in Nat /\ RunSteps[pc'] \in Nat
  BY DEF Inv, TypeOK, RunSteps
<1>2. /\ pipe[stdout] \in Nat /\ pipe'[stdout] \in Nat
      /\ pipe[stderr] \in Nat /\ pipe'[stderr] \in Nat
  BY DEF Inv, TypeOK
<1>3. /\ StreamCount(blocked) \in Nat /\ StreamCount(blocked') \in Nat
      /\ StreamCount(writable) \in Nat /\ StreamCount(writable') \in Nat
  BY StreamCountBounds
<1>4. ProgramLeft \in 0..2 /\ ProgramLeft' \in 0..2
  BY DEF ProgramLeft
<1> QED
  BY <1>1, <1>2, <1>3, <1>4 DEF RestLeft

\* The caller outside the pool: it goes on in its function, or takes a block.
LEMMA CallerShortens ==
  ASSUME Inv, Inv', CallerStep, ~OwnPool
  PROVE  UNCHANGED poolVars /\ RestLeft' < RestLeft
<1> USE DEF fdVars, programVars, pipeVars, RunSteps
<1>1. CASE ReceiveFds
  <2>1. /\ UNCHANGED <<poolVars, program, blocked, pipe>>
        /\ RunSteps[pc] = 12 /\ RunSteps[pc'] = 9 /\ writable' = Streams
    BY <1>1 DEF ReceiveFds
  <2>2. StreamCount(writable') = 2
    BY <2>1, StreamCountBounds
  <2>3. ProgramLeft' = ProgramLeft
    BY <2>1 DEF ProgramLeft
  <2> QED
    BY <2>1, <2>2, <2>3, RestTypes DEF RestLeft
<1>2. CASE PolicyFails \/ RunAsyncFails
  <2>1. /\ UNCHANGED <<poolVars, program, blocked, pipe>>
        /\ RunSteps[pc'] < RunSteps[pc] /\ writable' = {}
    BY <1>2 DEF PolicyFails, RunAsyncFails, Returns
  <2>2. StreamCount(writable') = 0
    BY <2>1, StreamCountBounds
  <2>3. ProgramLeft' = ProgramLeft
    BY <2>1 DEF ProgramLeft
  <2> QED
    BY <2>1, <2>2, <2>3, RestTypes DEF RestLeft
<1>3. CASE RunAsync
  <2>1. /\ UNCHANGED <<poolVars, blocked, writable, pipe>>
        /\ RunSteps[pc'] < RunSteps[pc]
        /\ program = "none" /\ program' = "running"
    BY <1>3 DEF RunAsync, Inv, CallerInOrder
  <2>2. ProgramLeft' < ProgramLeft
    BY <2>1 DEF ProgramLeft
  <2> QED
    BY <2>1, <2>2, RestTypes DEF RestLeft
<1>4. CASE CallerReads
  <2>1. PICK s \in Streams : pipe[s] > 0 /\ pipe' = [pipe EXCEPT ![s] = @ - 1]
    BY <1>4 DEF CallerReads, Reading, ReadBlock
  <2>2. UNCHANGED <<poolVars, pc, program, blocked, writable>>
    BY <1>4 DEF CallerReads, callerVars
  <2>3. ProgramLeft' = ProgramLeft
    BY <2>2 DEF ProgramLeft
  <2>4. pipe'[stdout] + pipe'[stderr] < pipe[stdout] + pipe[stderr]
    BY <2>1 DEF Inv, TypeOK
  <2> QED
    BY <2>2, <2>3, <2>4, RestTypes DEF RestLeft
<1>5. CASE \/ BufferFails \/ ConstructSandbox \/ MoveSandbox \/ DestroyMovedFrom
           \/ SetWalltimeLimit \/ ReadFailed \/ Drained \/ ReturnResult
           \/ AwaitCompilation \/ CallerReadsStdout \/ CallerReadsStderr
           \/ CallerReadFails
  <2>1. /\ UNCHANGED <<poolVars, program, blocked, writable, pipe>>
        /\ RunSteps[pc'] < RunSteps[pc]
    BY <1>5 DEF BufferFails, ConstructSandbox, MoveSandbox, DestroyMovedFrom,
       SetWalltimeLimit, ReadFailed, Drained, ReturnResult, AwaitCompilation,
       CallerReadsStdout, CallerReadsStderr, CallerReadFails, Returns,
       EndOfFile, ReadAndClose
  <2>2. ProgramLeft' = ProgramLeft
    BY <2>1 DEF ProgramLeft
  <2> QED
    BY <2>1, <2>2, RestTypes DEF RestLeft
<1> QED
  BY <1>1, <1>2, <1>3, <1>4, <1>5 DEF CallerStep

\* The program and its monitor, when no write begins.
LEMMA ProgramShortens ==
  ASSUME Inv, Inv', ProgramStep \/ Killed \/ LimitReached,
         \A s \in Streams : ~BeginWrite(s)
  PROVE  UNCHANGED poolVars /\ RestLeft' < RestLeft
<1> USE DEF callerVars, fdVars, pipeVars
<1>1. ASSUME NEW s \in Streams, EndWrite(s)
      PROVE  UNCHANGED poolVars /\ RestLeft' < RestLeft
  <2>1. /\ UNCHANGED <<poolVars, pc, program, writable>>
        /\ s \in blocked /\ blocked' = blocked \ {s}
        /\ pipe' = [pipe EXCEPT ![s] = @ + 1]
    BY <1>1 DEF EndWrite
  <2>2. StreamCount(blocked') = StreamCount(blocked) - 1
    BY <2>1, StreamCountBounds
  <2>3. pipe'[stdout] + pipe'[stderr] = pipe[stdout] + pipe[stderr] + 1
    BY <2>1 DEF Inv, TypeOK
  <2>4. ProgramLeft' = ProgramLeft
    BY <2>1 DEF ProgramLeft
  <2> QED
    BY <2>1, <2>2, <2>3, <2>4, RestTypes DEF RestLeft
<1>2. ASSUME NEW s \in Streams, WriteRefused(s) \/ CloseStream(s)
      PROVE  UNCHANGED poolVars /\ RestLeft' < RestLeft
  <2>1. /\ UNCHANGED <<poolVars, pc, program, pipe>>
        /\ \/ s \in blocked /\ blocked' = blocked \ {s} /\ UNCHANGED writable
           \/ s \in writable /\ writable' = writable \ {s} /\ UNCHANGED blocked
    BY <1>2 DEF WriteRefused, CloseStream
  <2>2. 2 * StreamCount(blocked') + StreamCount(writable')
          < 2 * StreamCount(blocked) + StreamCount(writable)
    <3>1. CASE s \in blocked /\ blocked' = blocked \ {s} /\ UNCHANGED writable
      <4>1. StreamCount(blocked') = StreamCount(blocked) - 1
        BY <3>1, StreamCountBounds
      <4>2. StreamCount(writable') = StreamCount(writable)
        BY <3>1 DEF StreamCount
      <4> QED
        BY <4>1, <4>2, RestTypes
    <3>2. CASE s \in writable /\ writable' = writable \ {s} /\ UNCHANGED blocked
      <4>1. StreamCount(writable') = StreamCount(writable) - 1
        BY <3>2, StreamCountBounds
      <4>2. StreamCount(blocked') = StreamCount(blocked)
        BY <3>2 DEF StreamCount
      <4> QED
        BY <4>1, <4>2, RestTypes
    <3> QED
      BY <2>1, <3>1, <3>2
  <2>3. ProgramLeft' = ProgramLeft
    BY <2>1 DEF ProgramLeft
  <2> QED
    BY <2>1, <2>2, <2>3, RestTypes DEF RestLeft
<1>3. CASE Exit \/ Killed \/ LimitReached
  <2>1. /\ UNCHANGED <<poolVars, pc, pipe>>
        /\ program = "running" /\ program' \in FinalStatuses
        /\ blocked' = {} /\ writable' = {}
    BY <1>3 DEF Exit, Killed, LimitReached, Ends
  <2>2. ProgramLeft' < ProgramLeft
    BY <2>1 DEF ProgramLeft
  <2>3. StreamCount(blocked') = 0 /\ StreamCount(writable') = 0
    BY <2>1, StreamCountBounds
  <2> QED
    BY <2>1, <2>2, <2>3, RestTypes DEF RestLeft
<1> QED
  BY <1>1, <1>2, <1>3 DEF ProgramStep

\* The pool, and the readers in it.
LEMMA PoolShortens ==
  ASSUME Inv, Inv', OwnPool \/ \E w \in Readers : WorkerStep(w), ~ UNCHANGED vars
  PROVE  \/ ~ UNCHANGED Pool!vars /\ RestLeft' = RestLeft
         \/ UNCHANGED poolVars /\ RestLeft' < RestLeft
<1> USE DEF callerVars, fdVars, pipeVars, programVars
<1>1. CASE OwnPool
  <2>1. UNCHANGED <<callerVars, fdVars, programVars, pipeVars>>
    BY <1>1 DEF OwnPool
  <2>2. ~ UNCHANGED Pool!vars
    BY <2>1 DEF vars, poolVars, Pool!vars
  <2>3. RestLeft' = RestLeft
    BY <2>1 DEF RestLeft, ProgramLeft
  <2> QED
    BY <2>2, <2>3
<1>2. ASSUME NEW w \in Readers, TakeStream(w) \/ EndThread(w) \/ WorkerFinishes(w)
      PROVE  ~ UNCHANGED Pool!vars /\ RestLeft' = RestLeft
  <2>1. UNCHANGED <<pc, programVars, pipeVars>>
    BY <1>2 DEF TakeStream, EndThread, WorkerFinishes, EndOfFile, ReadError,
       ReadAndClose
  <2>2. worker' # worker
    <3>1. \/ worker[w] = "waiting" /\ worker'[w] \in {"running", "exited"}
          \/ worker[w] = "running" /\ worker'[w] = "waiting"
      BY <1>2, PoolFacts
         DEF TakeStream, EndThread, WorkerFinishes, Pool!Take,
             Pool!TakeShutdown, Pool!Return, Pool!Pop, Inv, CallerInOrder
    <3> QED
      BY <3>1
  <2>3. RestLeft' = RestLeft
    BY <2>1 DEF RestLeft, ProgramLeft
  <2> QED
    BY <2>2, <2>3 DEF Pool!vars
<1>3. ASSUME NEW w \in Readers, WorkerReads(w)
      PROVE  UNCHANGED poolVars /\ RestLeft' < RestLeft
  <2>1. PICK s \in Streams : pipe[s] > 0 /\ pipe' = [pipe EXCEPT ![s] = @ - 1]
    BY <1>3, PoolFacts DEF WorkerReads, ReadBlock, Inv, CallerInOrder
  <2>2. UNCHANGED <<poolVars, pc, program, blocked, writable>>
    BY <1>3 DEF WorkerReads
  <2>3. ProgramLeft' = ProgramLeft
    BY <2>2 DEF ProgramLeft
  <2>4. pipe'[stdout] + pipe'[stderr] < pipe[stdout] + pipe[stderr]
    BY <2>1 DEF Inv, TypeOK
  <2> QED
    BY <2>2, <2>3, <2>4, RestTypes DEF RestLeft
<1> QED
  BY <1>1, <1>2, <1>3 DEF WorkerStep

\* tester_sandboxer.cc:95-125, 436-446: a run has finitely many steps besides the
\* writes its program begins, whatever the order in which its readers run.
THEOREM StepsEnd == Spec => StepsRunOut
<1>1. 2 \in Nat
  OBVIOUS
<1>2. PoolProofs!Spec => [][PoolProofs!Shortens]_(PoolProofs!vars)
  BY <1>1, PoolProofs!StepsEnd DEF PoolProofs!StepsRunOut
<1>3. PoolProofs!Spec => [](PoolProofs!StepsLeft \in Nat)
  BY <1>1, PoolProofs!StepsCounted, PTL
<1>4. PoolProofs!StepsLeft \in Nat => Pool!StepsLeft \in Nat
  BY SamePoolSteps
<1>5. [PoolProofs!Shortens]_(PoolProofs!vars) => [Pool!Shortens]_(Pool!vars)
  BY SamePoolSteps
<1>6. Inv /\ Inv' /\ [Next]_vars /\ [Pool!Shortens]_(Pool!vars)
        /\ Pool!StepsLeft \in Nat
        => [ShortensOrWrites]_vars
  <2> SUFFICES ASSUME Inv, Inv', Next, ~ UNCHANGED vars,
                      [Pool!Shortens]_(Pool!vars), Pool!StepsLeft \in Nat,
                      \A s \in Streams : ~BeginWrite(s)
               PROVE  Shortens
    BY DEF ShortensOrWrites
  <2>1. \/ ~ UNCHANGED Pool!vars /\ RestLeft' = RestLeft
        \/ UNCHANGED poolVars /\ RestLeft' < RestLeft
    BY CallerShortens, ProgramShortens, PoolShortens
       DEF Next, RunStep, Finished, CallerStep
  <2>2. RestLeft \in Nat /\ RestLeft' \in Nat
    BY RestTypes
  <2>3. \/ Pool!StepsLeft' \in Nat /\ Pool!StepsLeft' < Pool!StepsLeft
             /\ RestLeft' = RestLeft
        \/ Pool!StepsLeft' = Pool!StepsLeft /\ RestLeft' < RestLeft
    BY <2>1 DEF Pool!Shortens, poolVars, Pool!StepsLeft
  <2>4. StepsLeft = Pool!StepsLeft + RestLeft
        /\ StepsLeft' = Pool!StepsLeft' + RestLeft'
    BY <2>3, RestTypes DEF StepsLeft, RestLeft, ProgramLeft
  <2> QED
    BY <2>2, <2>3, <2>4 DEF Shortens
<1> QED
  BY <1>2, <1>3, <1>4, <1>5, <1>6, PoolSpecs, InvHolds, PTL
     DEF Spec, StepsRunOut

-----------------------------------------------------------------------------
(* SandboxRun implements RunContract.                                      *)

\* Steps that return, and the start of the program.
LEMMA CallerStepContract ==
  ASSUME Inv, Inv', OutputComplete', CallerStep
  PROVE  [Contract!Next]_(Contract!vars)
<1> USE DEF Contract!vars, Contract!Next, fdVars, pipeVars, programVars,
            callerVars
<1>1. CASE BufferFails \/ PolicyFails \/ RunAsyncFails \/ ReadFailed
             \/ CallerReadFails
  <2>1. ret = "pending" /\ ret' = "error" /\ UNCHANGED <<program, sent>>
    BY <1>1 DEF BufferFails, PolicyFails, RunAsyncFails, ReadFailed,
       CallerReadFails, Returns, Inv, CallerInOrder
  <2> QED
    BY <2>1 DEF Contract!Fail
<1>2. CASE ReceiveFds \/ ConstructSandbox \/ MoveSandbox \/ DestroyMovedFrom
             \/ SetWalltimeLimit \/ OwnPool \/ Drained \/ AwaitCompilation
             \/ CallerReads \/ CallerReadsStdout
  <2>1. UNCHANGED <<ret, program, sent>>
    BY <1>2 DEF ReceiveFds, ConstructSandbox, MoveSandbox, DestroyMovedFrom,
       SetWalltimeLimit, OwnPool, Drained, AwaitCompilation, CallerReads,
       CallerReadsStdout, EndOfFile, ReadAndClose, ReadBlock
  <2>2. ret # "OK"
    BY <1>2 DEF ReceiveFds, ConstructSandbox, MoveSandbox, DestroyMovedFrom,
       SetWalltimeLimit, OwnPool, Drained, AwaitCompilation, CallerReads,
       CallerReadsStdout, Inv, CallerInOrder
  <2> QED
    BY <2>1, <2>2
<1>3. CASE RunAsync
  BY <1>3 DEF RunAsync, Contract!Start, Inv, CallerInOrder
<1>4. CASE ReturnResult \/ CallerReadsStderr
  <2>1. ret = "pending" /\ ret' = "OK" /\ Ended /\ UNCHANGED <<program, sent>>
    BY <1>4 DEF ReturnResult, CallerReadsStderr, Returns, Inv, CallerInOrder,
       EndOfFile, ReadAndClose
  <2>2. \A s \in Streams : contents'[s] = {sent[s]}
    BY <2>1 DEF OutputComplete
  <2>3. contents' = [s \in Streams |-> {sent[s]}]
    BY <2>2 DEF Inv, TypeOK
  <2> QED
    BY <2>1, <2>3 DEF Contract!Answer, Contract!Streams
<1> QED
  BY <1>1, <1>2, <1>3, <1>4 DEF CallerStep

\* The readers are invisible to the caller of a run until it returns.
LEMMA WorkerStepContract ==
  ASSUME Inv, NEW w \in Readers, WorkerStep(w)
  PROVE  UNCHANGED Contract!vars
<1> USE DEF Contract!vars
<1>1. CASE TakeStream(w) \/ EndThread(w)
  BY <1>1 DEF TakeStream, EndThread, fdVars, pipeVars, programVars, callerVars
<1>2. CASE WorkerReads(w) \/ WorkerFinishes(w)
  <2>1. ret # "OK"
    BY <1>2, PoolFacts, ReturnFrame DEF WorkerReads, WorkerFinishes, Inv,
       CallerInOrder
  <2>2. UNCHANGED <<ret, program, sent>>
    BY <1>2 DEF WorkerReads, WorkerFinishes, ReadBlock, EndOfFile, ReadError,
       ReadAndClose, pipeVars, programVars, callerVars
  <2> QED
    BY <2>1, <2>2
<1> QED
  BY <1>1, <1>2 DEF WorkerStep

LEMMA ProgramStepContract ==
  ASSUME Inv, ProgramStep \/ Killed \/ LimitReached
  PROVE  [Contract!Next]_(Contract!vars)
<1> USE DEF Contract!vars, Contract!Next, Contract!Streams, callerVars, fdVars,
            pipeVars
<1>1. ASSUME NEW s \in Streams, EndWrite(s) PROVE Contract!Write(s)
  BY <1>1 DEF EndWrite, Contract!Write
<1>2. CASE \E s \in Streams : BeginWrite(s) \/ WriteRefused(s) \/ CloseStream(s)
  BY <1>2 DEF BeginWrite, WriteRefused, CloseStream
<1>3. CASE Exit \/ Killed \/ LimitReached
  BY <1>3 DEF Exit, Killed, LimitReached, Ends, Contract!End
<1> QED
  BY <1>1, <1>2, <1>3 DEF ProgramStep

\* A run, with its pipes, descriptors and readers, promises what the contract
\* says: an error, or a final status with the complete output.
THEOREM Refines == Spec => ImplementsContract
<1>1. Init => Contract!Init
  BY DEF Init, InitWithReaders, Contract!Init, Contract!Streams
<1>2. Inv /\ Inv' /\ OutputComplete' /\ [Next]_vars
        => [Contract!Next]_(Contract!vars)
  <2> SUFFICES ASSUME Inv, Inv', OutputComplete', [Next]_vars
               PROVE  [Contract!Next]_(Contract!vars)
    OBVIOUS
  <2>1. CASE Finished \/ UNCHANGED vars
    BY <2>1 DEF Finished, vars, Contract!vars, callerVars, fdVars, programVars,
       pipeVars
  <2> QED
    BY <2>1, CallerStepContract, WorkerStepContract, ProgramStepContract
       DEF Next, RunStep
<1> QED
  BY <1>1, <1>2, InvHolds, OutputIsComplete, PTL
     DEF Spec, ImplementsContract, Contract!Spec

=============================================================================
