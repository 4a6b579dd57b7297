----------------------- MODULE TesterSandboxerProofs -----------------------
(***************************************************************************)
(* For every number of threads and inputs, whatever the sandbox reports:   *)
(* the pool inside a call of TesterSandboxer::Test is a ThreadPool, and    *)
(* should_stop, overall_status and the results stay consistent however     *)
(* the workers interleave.                                                 *)
(***************************************************************************)
EXTENDS TesterSandboxer, FiniteSetTheorems, TLAPS

PoolProofs == INSTANCE ThreadPoolProofs WITH MaxTasks <- MaxInputs

-----------------------------------------------------------------------------
(* The pool.                                                               *)

LEMMA PoolStep == [Next]_vars => [Pool!Next]_(Pool!vars)
<1> SUFFICES ASSUME [Next]_vars PROVE [Pool!Next]_(Pool!vars)
  OBVIOUS
<1> USE DEF poolVars, Pool!vars
<1>1. CASE CallerStep
  BY <1>1 DEF CallerStep, RejectArguments, MakeTempPath, CompileError,
     CompileThrows, CompileFailed, Compiled, OwnPool, ReturnResults, Pool!Next
<1>2. ASSUME NEW w \in Workers, WorkerStep(w) PROVE [Pool!Next]_(Pool!vars)
  <2>1. CASE \/ Pool!Take(w) \/ Pool!TakeShutdown(w) \/ Pool!Return(w)
             \/ Pool!Throw(w)
    BY <2>1 DEF Pool!Next, Pool!WorkerStep, Pool!Workers, Workers
  <2>2. CASE UNCHANGED poolVars
    BY <2>2
  <2> QED
    BY <1>2, <2>1, <2>2 DEF WorkerStep, BeginTask, EndThread, LeaveTask,
       PassCheck, Cancel, RunReports, RunFails, RunThrows, Resume, CommitError,
       CommitResult
<1>3. CASE Finished \/ UNCHANGED vars
  BY <1>3 DEF Finished, vars
<1> QED
  BY <1>1, <1>2, <1>3 DEF Next

\* tester_sandboxer.cc:377-415 uses the pool as ThreadPool says it is used.
THEOREM UsesPool == Spec => Pool!Spec
<1>1. Init => Pool!Init
  BY DEF Init
<1> QED
  BY <1>1, PoolStep, PTL DEF Spec, Pool!Spec

\* The pool of ThreadPoolProofs is the pool of TesterSandboxer: the two
\* instances have the same definitions.
LEMMA SamePool ==
  /\ Pool!Init <=> PoolProofs!Init
  /\ Pool!Next <=> PoolProofs!Next
  /\ Pool!Inv <=> PoolProofs!Inv
<1> USE DEF Pool!Workers, PoolProofs!Workers, Pool!nullptr, PoolProofs!nullptr,
            Pool!Alive, PoolProofs!Alive, Pool!vars, PoolProofs!vars
<1>1. Pool!Init <=> PoolProofs!Init
  BY DEF Pool!Init, PoolProofs!Init
<1>2. Pool!OwnerStep <=> PoolProofs!OwnerStep
  BY DEF Pool!SpawnWorker, PoolProofs!SpawnWorker, Pool!SpawnFails, PoolProofs!SpawnFails, Pool!Started, PoolProofs!Started, Pool!Schedule, PoolProofs!Schedule, Pool!PushShutdown, PoolProofs!PushShutdown, Pool!Join, PoolProofs!Join, Pool!Destroy, PoolProofs!Destroy, Pool!OwnerStep, PoolProofs!OwnerStep
<1>3. ASSUME NEW w \in Pool!Workers
      PROVE  Pool!WorkerStep(w) <=> PoolProofs!WorkerStep(w)
  BY DEF Pool!Take, PoolProofs!Take, Pool!TakeShutdown, PoolProofs!TakeShutdown, Pool!Return, PoolProofs!Return, Pool!WorkerStep, PoolProofs!WorkerStep, Pool!Pop, PoolProofs!Pop
<1>4. /\ Pool!Finished <=> PoolProofs!Finished
      /\ \A w \in Pool!Workers : Pool!Throw(w) <=> PoolProofs!Throw(w)
  BY DEF Pool!Finished, PoolProofs!Finished, Pool!Throw, PoolProofs!Throw
<1>5. Pool!Next <=> PoolProofs!Next
  BY <1>2, <1>3, <1>4 DEF Pool!Next, PoolProofs!Next
<1>6. Pool!Inv <=> PoolProofs!Inv
  BY DEF Pool!Inv, PoolProofs!Inv, Pool!TypeOK, PoolProofs!TypeOK, Pool!Closing, PoolProofs!Closing, Pool!QueueInOrder, PoolProofs!QueueInOrder, Pool!TakenAccounted, PoolProofs!TakenAccounted, Pool!ThreadsAccounted, PoolProofs!ThreadsAccounted, Pool!OwnerInOrder, PoolProofs!OwnerInOrder
<1> QED
  BY <1>1, <1>5, <1>6

\* So what is proved of the pool holds of the pool of every call.
LEMMA PoolSpecs == Spec => PoolProofs!Spec
<1>1. [Pool!Next]_(Pool!vars) => [PoolProofs!Next]_(PoolProofs!vars)
  BY SamePool DEF Pool!vars, PoolProofs!vars
<1>2. Pool!Init => PoolProofs!Init
  BY SamePool
<1> QED
  BY <1>1, <1>2, UsesPool, PTL DEF Pool!Spec, PoolProofs!Spec

LEMMA PoolInv == Spec => []Pool!Inv
<1>1. PoolProofs!Spec => []PoolProofs!Inv
  BY CallAssumption, PoolProofs!InvHolds, PTL
<1>2. PoolProofs!Inv => Pool!Inv
  BY SamePool
<1> QED
  BY <1>1, <1>2, PoolSpecs, PTL

-----------------------------------------------------------------------------
(* Pool!Inv in the names of TesterSandboxer.                               *)

LEMMA PoolFacts ==
  ASSUME Pool!Inv
  PROVE  /\ numThreads \in 0..MaxThreads /\ numTasks \in 0..MaxInputs
         /\ threads \in 0..MaxThreads /\ taken \in Nat
         /\ worker \in [Workers -> {"none", "waiting", "running", "exited"}]
         /\ func \in [Workers -> 0..MaxInputs]
         /\ done \subseteq Inputs
         /\ \A t \in done : t <= taken
         /\ \A w \in Workers : worker[w] = "running" =>
              /\ func[w] \in Inputs /\ func[w] <= taken /\ func[w] \notin done
              /\ threads > 0
              /\ owner # "destroyed"
              /\ \A v \in Workers :
                   worker[v] = "running" /\ func[v] = func[w] => v = w
         /\ owner = "starting" => done = {}
BY CallAssumption
   DEF Pool!Inv, Pool!TypeOK, Pool!TakenAccounted, Pool!ThreadsAccounted,
       Pool!OwnerInOrder, Pool!Closing, Pool!Workers, Workers, Inputs

\* What a step of the owner leaves alone.
LEMMA OwnerFrame ==
  ASSUME Pool!Inv, Pool!OwnerStep
  PROVE  /\ UNCHANGED <<numThreads, numTasks, func, taken, done>>
         /\ \A w \in Workers : worker'[w] = "running" <=> worker[w] = "running"
         /\ owner # "destroyed"
<1>1. CASE Pool!SpawnWorker
  <2>1. threads + 1 \in Workers /\ worker[threads + 1] = "none"
    BY <1>1, CallAssumption
       DEF Pool!SpawnWorker, Pool!Inv, Pool!TypeOK, Pool!ThreadsAccounted,
           Pool!Workers, Workers
  <2>2. worker' = [worker EXCEPT ![threads + 1] = "waiting"]
    BY <1>1 DEF Pool!SpawnWorker
  <2>3. \A w \in Workers : worker'[w] = "running" <=> worker[w] = "running"
    BY <2>1, <2>2, PoolFacts
  <2> QED
    BY <1>1, <2>3 DEF Pool!SpawnWorker
<1>2. CASE Pool!SpawnFails \/ Pool!Started \/ Pool!Schedule \/ Pool!PushShutdown
             \/ Pool!Join \/ Pool!Destroy
  BY <1>2 DEF Pool!SpawnFails, Pool!Started, Pool!Schedule, Pool!PushShutdown,
              Pool!Join, Pool!Destroy
<1> QED
  BY <1>1, <1>2 DEF Pool!OwnerStep

\* A worker that begins a task gets the first input that was not taken.
LEMMA TakeFrame ==
  ASSUME Pool!Inv, NEW w \in Workers, Pool!Take(w)
  PROVE  /\ worker[w] = "waiting"
         /\ worker' = [worker EXCEPT ![w] = "running"]
         /\ func' = [func EXCEPT ![w] = taken + 1]
         /\ taken' = taken + 1 /\ taken + 1 \in Inputs
         /\ UNCHANGED <<numThreads, numTasks, owner, threads, done>>
<1>1. PoolProofs!Inv /\ w \in PoolProofs!Workers /\ PoolProofs!Pop(w)
  BY SamePool DEF Pool!Take, Pool!Pop, PoolProofs!Pop, Pool!Alive,
     PoolProofs!Alive, PoolProofs!Workers, Workers
<1>2. Head(queue) = IF taken + 1 <= scheduled THEN taken + 1 ELSE 0
  BY <1>1, CallAssumption, PoolProofs!PopInOrder DEF PoolProofs!nullptr
<1>3. taken \in Nat /\ scheduled \in 0..numTasks /\ numTasks \in Nat
  BY DEF Pool!Inv, Pool!TypeOK
<1>4. Head(queue) = taken + 1 /\ taken + 1 <= scheduled
  BY <1>2 DEF Pool!Take, Pool!nullptr
<1>5. taken + 1 \in Inputs
  BY <1>3, <1>4 DEF Inputs
<1> QED
  BY <1>4, <1>5 DEF Pool!Take, Pool!Pop

\* A worker that leaves a task.
LEMMA ReturnFrame ==
  ASSUME Pool!Inv, NEW w \in Workers, LeaveTask(w)
  PROVE  /\ worker[w] = "running"
         /\ worker' = [worker EXCEPT ![w] = "waiting"]
         /\ func' = [func EXCEPT ![w] = 0]
         /\ done' = done \cup {func[w]}
         /\ phase' = [phase EXCEPT ![w] = "idle"]
         /\ got' = [got EXCEPT ![w] = NotOk]
         /\ UNCHANGED <<numThreads, numTasks, owner, threads, taken>>
BY DEF LeaveTask, Pool!Return, Pool!nullptr

-----------------------------------------------------------------------------
(* Inv is inductive.                                                       *)

LEMMA InitInv == Init /\ Pool!Inv => Inv
<1> SUFFICES ASSUME Init, Pool!Inv PROVE Inv
  OBVIOUS
<1>1. TypeOK
  <2>1. Pool!TypeOK
    BY DEF Pool!Inv
  <2>2. 0 \in 0..kMaxTestAttempts /\ NotOk \in SUBSET Report
    BY DEF kMaxTestAttempts, NotOk
  <2> QED
    BY <2>1, <2>2 DEF Init, TypeOK
<1>2. \A w \in Workers : worker[w] = "none"
  BY DEF Init, Pool!Init, Pool!Workers, Workers
<1>3. done = {} /\ owner = "starting" /\ threads = 0
  BY DEF Init, Pool!Init
<1>4. WorkersInLambda /\ CallerInOrder /\ OptionsValid /\ CauseKept
  BY <1>2, <1>3
     DEF Init, WorkersInLambda, CallerInOrder, OptionsValid, CauseKept,
         FailedInputs, Error, kMaxTestAttempts
<1>5. TriesCounted /\ ResultsAccounted
  BY DEF Init, TriesCounted, ResultsAccounted, NotOk
<1> QED
  BY <1>1, <1>4, <1>5 DEF Inv

\* The actions of the calling thread outside the scope of the pool.
LEMMA CallerKeepsInv ==
  ASSUME Inv, Pool!Inv', 
         RejectArguments \/ MakeTempPath \/ CompileError \/ CompileThrows
           \/ CompileFailed \/ Compiled \/ ReturnResults
  PROVE  Inv'
<1> USE DEF Inv, Error, kMaxTestAttempts
<1>1. /\ UNCHANGED <<poolVars, options, taskVars, shouldStop, overall>>
      /\ WorkersInLambda'
  BY DEF RejectArguments, MakeTempPath, CompileError, CompileThrows,
         CompileFailed, Compiled, ReturnResults, poolVars, options, taskVars, callVars, sharedVars,
         WorkersInLambda
<1>2. Pool!TypeOK' /\ NotRun \in ExecutionResult
  BY DEF Pool!Inv, NotRun, ExecutionResult, ProgramStatus, Optional, nullopt
<1>3. /\ numExpected' \in 0..MaxInputs /\ stopOnFirst' \in BOOLEAN
      /\ shouldStop' \in BOOLEAN /\ overall' \in {"OK", Error}
      /\ phase' \in [Workers -> {"idle", "check", "run", "pause", "commit"}]
      /\ tries' \in [1..MaxInputs -> 0..kMaxTestAttempts]
      /\ got' \in [Workers -> SUBSET Report]
  BY <1>1 DEF TypeOK, options, taskVars
<1>4. TypeOK' /\ CallerInOrder' /\ OptionsValid'
  <2> USE <1>1, <1>2, <1>3
      DEF TypeOK, CallerInOrder, OptionsValid, ArgumentsValid, CheckingOutputs,
          poolVars, options, Inputs
  <2>1. CASE RejectArguments
    BY <2>1 DEF RejectArguments, sharedVars
  <2>2. CASE MakeTempPath
    BY <2>2 DEF MakeTempPath, sharedVars
  <2>3. CASE CompileError
    BY <2>3 DEF CompileError, sharedVars
  <2>4. CASE CompileFailed
    BY <2>4 DEF CompileFailed, sharedVars
  <2>5. CASE Compiled
    BY <2>5 DEF Compiled
  <2>6. CASE ReturnResults
    BY <2>6 DEF ReturnResults, sharedVars
  <2>7. CASE CompileThrows
    BY <2>7 DEF CompileThrows, sharedVars
  <2> QED
    BY <2>1, <2>2, <2>3, <2>4, <2>5, <2>6, <2>7
<1>5. TriesCounted'
  BY <1>1 DEF TriesCounted, poolVars, taskVars
<1>6. CASE Compiled
  <2>1. /\ owner = "starting" /\ threads = 0 /\ results = <<>>
        /\ compilation = "kUnknown"
    BY <1>6 DEF Compiled, CallerInOrder
  <2>2. done = {} /\ \A w \in Workers : phase[w] = "idle"
    BY <2>1, PoolFacts DEF WorkersInLambda
  <2>3. results' = [i \in Inputs |-> NotRun]
    BY <1>6 DEF Compiled
  <2>4. ResultsAccounted'
    BY <1>1, <2>2, <2>3 DEF ResultsAccounted, poolVars, taskVars, Inputs
  <2>5. FailedInputs' = {} /\ FailedInputs = {}
    <3>1. {FALSE} # {}
      OBVIOUS
    <3>2. \A i \in Inputs : results'[i].passed = {}
      BY <2>3 DEF NotRun, nullopt
    <3>3. DOMAIN results' = Inputs /\ DOMAIN results = {}
      BY <2>1, <2>3
    <3> QED
      BY <3>1, <3>2, <3>3 DEF FailedInputs
  <2>6. CauseKept'
    BY <1>1, <2>2, <2>5 DEF CauseKept, poolVars, options, taskVars
  <2> QED
    BY <1>1, <1>4, <1>5, <2>4, <2>6
<1>7. CASE RejectArguments \/ MakeTempPath \/ CompileError \/ CompileThrows
             \/ CompileFailed \/ ReturnResults
  <2>1. results' = results /\ (compilation' = "kSuccess" => compilation = "kSuccess")
    BY <1>7 DEF RejectArguments, MakeTempPath, CompileError, CompileThrows,
                CompileFailed, ReturnResults, sharedVars
  <2>2. ResultsAccounted' /\ CauseKept'
    BY <1>1, <2>1 DEF ResultsAccounted, CauseKept, FailedInputs, poolVars,
       options, taskVars, Inputs
  <2> QED
    BY <1>1, <1>4, <1>5, <2>2
<1> QED
  BY <1>6, <1>7

LEMMA OwnerKeepsInv == ASSUME Inv, Pool!Inv', OwnPool PROVE Inv'
<1> USE DEF Inv
<1>1. /\ UNCHANGED <<options, callVars, sharedVars, taskVars>>
      /\ UNCHANGED <<numThreads, numTasks, func, taken, done>>
      /\ \A w \in Workers : worker'[w] = "running" <=> worker[w] = "running"
      /\ pc = "testing"
  BY OwnerFrame DEF OwnPool
<1>2. TypeOK'
  BY <1>1 DEF TypeOK, Pool!Inv, options, callVars, sharedVars, taskVars, Inputs
<1>3. WorkersInLambda' /\ CallerInOrder' /\ OptionsValid'
  BY <1>1 DEF WorkersInLambda, CallerInOrder, OptionsValid, ArgumentsValid,
     CheckingOutputs, options, callVars, sharedVars, taskVars, Inputs
<1>4. TriesCounted' /\ ResultsAccounted' /\ CauseKept'
  BY <1>1 DEF TriesCounted, ResultsAccounted, CauseKept, FailedInputs, options,
     callVars, sharedVars, taskVars, Inputs
<1> QED
  BY <1>2, <1>3, <1>4
\* A worker in the lambda runs an input of its own that has no result yet, in a
\* call that has compiled the code and has not returned.
LEMMA InLambda ==
  ASSUME Inv, NEW w \in Workers, phase[w] # "idle"
  PROVE  /\ worker[w] = "running"
         /\ func[w] \in Inputs /\ func[w] \in 1..MaxInputs
         /\ func[w] <= taken /\ func[w] \notin done
         /\ \A v \in Workers : phase[v] # "idle" /\ func[v] = func[w] => v = w
         /\ compilation = "kSuccess" /\ results \in [Inputs -> ExecutionResult]
         /\ results[func[w]] = NotRun
         /\ pc # "returned"
<1>1. worker[w] = "running"
  BY DEF Inv, WorkersInLambda
<1>2. /\ func[w] \in Inputs /\ func[w] <= taken /\ func[w] \notin done
      /\ threads > 0 /\ owner # "destroyed" /\ numTasks \in 0..MaxInputs
      /\ \A v \in Workers : worker[v] = "running" /\ func[v] = func[w] => v = w
  BY <1>1, PoolFacts DEF Inv
<1>3. func[w] \in 1..MaxInputs
  BY <1>2, CallAssumption DEF Inputs
<1>4. compilation = "kSuccess" /\ results \in [Inputs -> ExecutionResult]
  BY <1>2 DEF Inv, CallerInOrder
<1>5. pc # "returned"
  BY <1>2, <1>4 DEF Inv, CallerInOrder
<1>6. results[func[w]] = NotRun
  BY <1>4 DEF Inv, ResultsAccounted
<1> QED
  BY <1>1, <1>2, <1>3, <1>4, <1>5, <1>6 DEF Inv, WorkersInLambda

\* The check, the runs and the pauses: nothing that is shared changes.
LEMMA AttemptKeepsInv ==
  ASSUME Inv, Pool!Inv', NEW w \in Workers,
         PassCheck(w) \/ RunReports(w) \/ RunFails(w) \/ Resume(w)
  PROVE  Inv'
<1> USE DEF Inv, kMaxTestAttempts, NotOk
<1>1. /\ UNCHANGED <<poolVars, options, callVars, sharedVars>>
      /\ phase[w] \in {"check", "run", "pause"}
  BY DEF PassCheck, RunReports, RunFails, Resume
<1>2. /\ func[w] \in 1..MaxInputs /\ func[w] <= taken /\ func[w] \notin done
      /\ \A v \in Workers : phase[v] # "idle" /\ func[v] = func[w] => v = w
      /\ worker[w] = "running"
  BY <1>1, InLambda
<1>3. /\ phase \in [Workers -> {"idle", "check", "run", "pause", "commit"}]
      /\ tries \in [1..MaxInputs -> 0..kMaxTestAttempts]
      /\ got \in [Workers -> SUBSET Report]
      /\ taken \in Nat
  BY PoolFacts DEF TypeOK
<1>4. /\ phase' \in [Workers -> {"idle", "check", "run", "pause", "commit"}]
      /\ phase'[w] # "idle"
      /\ \A v \in Workers : v # w => phase'[v] = phase[v] /\ got'[v] = got[v]
      /\ \A i \in 1..MaxInputs : i # func[w] => tries'[i] = tries[i]
      /\ tries' \in [1..MaxInputs -> 0..kMaxTestAttempts]
      /\ got' \in [Workers -> SUBSET Report]
  <2>1. CASE PassCheck(w)
    BY <1>1, <1>3, <2>1 DEF PassCheck
  <2>2. CASE RunReports(w)
    <3>1. Reports[func[w]] \subseteq Report
      BY <1>2, CallAssumption
    <3>2. tries[func[w]] < kMaxTestAttempts
      BY <2>2 DEF RunReports, TriesCounted
    <3> QED
      BY <1>2, <1>3, <2>2, <3>1, <3>2 DEF RunReports
  <2>3. CASE RunFails(w)
    <3>1. tries[func[w]] < kMaxTestAttempts
      BY <2>3 DEF RunFails, TriesCounted
    <3> QED
      BY <1>2, <1>3, <2>3, <3>1 DEF RunFails
  <2>4. CASE Resume(w)
    BY <1>3, <2>4 DEF Resume
  <2> QED
    BY <2>1, <2>2, <2>3, <2>4
<1>5. TypeOK'
  BY <1>1, <1>4 DEF TypeOK, Pool!Inv, options, callVars, sharedVars, poolVars,
     Inputs
<1>6. WorkersInLambda' /\ CallerInOrder' /\ OptionsValid'
  BY <1>1, <1>2, <1>3, <1>4
     DEF WorkersInLambda, CallerInOrder, OptionsValid, ArgumentsValid,
         CheckingOutputs, poolVars, options, callVars, sharedVars, Inputs
<1>7. /\ phase'[w] \in {"check", "run"} => tries'[func[w]] < kMaxTestAttempts
      /\ phase'[w] = "commit" /\ got'[w] = NotOk =>
           tries'[func[w]] = kMaxTestAttempts
      /\ phase'[w] # "commit" => got'[w] = NotOk
  <2>1. /\ phase[w] \in {"check", "run"} => tries[func[w]] < kMaxTestAttempts
        /\ got[w] = NotOk
    BY <1>1 DEF TriesCounted
  <2>2. tries[func[w]] \in 0..kMaxTestAttempts
    BY <1>2, <1>3
  <2>3. CASE PassCheck(w)
    BY <1>3, <2>1, <2>3 DEF PassCheck
  <2>4. CASE RunReports(w)
    BY <1>3, <2>4 DEF RunReports
  <2>5. CASE RunFails(w)
    BY <1>3, <2>5 DEF RunFails
  <2>6. CASE Resume(w)
    BY <1>3, <2>1, <2>2, <2>6 DEF Resume
  <2> QED
    BY <2>3, <2>4, <2>5, <2>6
<1>8. TriesCounted'
  <2>1. func' = func /\ taken' = taken
    BY <1>1 DEF poolVars
  <2>2. \A i \in 1..MaxInputs : i > taken => tries'[i] = 0
    BY <1>2, <1>3, <1>4 DEF TriesCounted
  <2>3. ASSUME NEW v \in Workers, v # w
        PROVE  /\ phase'[v] \in {"check", "run"} =>
                    tries'[func[v]] < kMaxTestAttempts
               /\ phase'[v] = "commit" /\ got'[v] = NotOk =>
                    tries'[func[v]] = kMaxTestAttempts
               /\ phase'[v] # "commit" => got'[v] = NotOk
    <3>1. phase[v] # "idle" => tries'[func[v]] = tries[func[v]]
      BY <1>2, <1>4, <2>3, InLambda
    <3> QED
      BY <1>4, <2>3, <3>1 DEF TriesCounted
  <2> QED
    BY <1>7, <2>1, <2>2, <2>3 DEF TriesCounted
<1>9. ResultsAccounted'
  BY <1>1, <1>4, InLambda
     DEF ResultsAccounted, poolVars, callVars, sharedVars, Inputs
<1>10. CauseKept'
  <2>1. \A i \in done : tries'[i] = tries[i]
    BY <1>2, <1>4, PoolFacts, CallAssumption DEF Inputs
  <2> QED
    BY <1>1, <2>1
       DEF CauseKept, FailedInputs, poolVars, options, sharedVars
<1> QED
  BY <1>5, <1>6, <1>8, <1>9, <1>10

\* A worker that throws ends the process, and the shared variables stay as they
\* are.
LEMMA ThrowKeepsInv ==
  ASSUME Inv, Pool!Inv', NEW w \in Workers, RunThrows(w)
  PROVE  Inv'
<1> USE DEF Inv
<1>1. /\ UNCHANGED <<options, callVars, sharedVars, taskVars>>
      /\ UNCHANGED <<numThreads, numTasks, threads, worker, func, taken, done>>
      /\ phase[w] # "idle"
  BY DEF RunThrows, Pool!Throw
<1>2. pc # "returned" /\ compilation = "kSuccess" /\ owner # "starting"
  <2>1. pc # "returned" /\ compilation = "kSuccess" /\ worker[w] = "running"
    BY <1>1, InLambda
  <2>2. func[w] \in 1..scheduled
    BY <2>1 DEF Pool!Inv, Pool!TakenAccounted, Pool!Workers, Workers
  <2> QED
    BY <2>1, <2>2 DEF Pool!Inv, Pool!OwnerInOrder
<1>3. pc = "testing"
  BY <1>2 DEF TypeOK, CallerInOrder
<1>4. TypeOK'
  BY <1>1 DEF TypeOK, Pool!Inv, options, callVars, sharedVars, taskVars, Inputs
<1>5. WorkersInLambda' /\ CallerInOrder' /\ OptionsValid'
  BY <1>1, <1>2, <1>3 DEF WorkersInLambda, CallerInOrder, OptionsValid,
     ArgumentsValid, CheckingOutputs, options, callVars, sharedVars, taskVars,
     Inputs
<1>6. TriesCounted' /\ ResultsAccounted' /\ CauseKept'
  BY <1>1 DEF TriesCounted, ResultsAccounted, CauseKept, FailedInputs, options,
     callVars, sharedVars, taskVars, Inputs
<1> QED
  BY <1>4, <1>5, <1>6

\* Entering a task, and the thread's end.
LEMMA EnterKeepsInv ==
  ASSUME Inv, Pool!Inv', NEW w \in Workers, BeginTask(w) \/ EndThread(w)
  PROVE  Inv'
<1> USE DEF Inv
<1>1. UNCHANGED <<options, callVars, sharedVars, tries, got>>
  BY DEF BeginTask, EndThread, taskVars
<1>2. CASE BeginTask(w)
  <2>1. /\ worker[w] = "waiting"
        /\ worker' = [worker EXCEPT ![w] = "running"]
        /\ func' = [func EXCEPT ![w] = taken + 1]
        /\ taken' = taken + 1 /\ taken + 1 \in Inputs
        /\ UNCHANGED <<numThreads, numTasks, owner, threads, done>>
    BY <1>2, TakeFrame DEF BeginTask
  <2>2. phase' = [phase EXCEPT ![w] = "check"]
    BY <1>2 DEF BeginTask
  <2>3. phase[w] = "idle"
    BY <2>1 DEF WorkersInLambda
  <2>4. /\ phase \in [Workers -> {"idle", "check", "run", "pause", "commit"}]
        /\ worker \in [Workers -> {"none", "waiting", "running", "exited"}]
        /\ func \in [Workers -> 0..MaxInputs] /\ taken \in Nat
        /\ taken + 1 \in 1..MaxInputs
    BY <2>1, PoolFacts, CallAssumption DEF TypeOK, Inputs
  <2>5. TypeOK'
    BY <1>1, <2>1, <2>2, <2>4
       DEF TypeOK, Pool!Inv, options, callVars, sharedVars, Inputs
  <2>6. WorkersInLambda'
    BY <2>1, <2>2, <2>4 DEF WorkersInLambda
  <2>7. CallerInOrder' /\ OptionsValid'
    BY <1>1, <2>1 DEF CallerInOrder, OptionsValid, ArgumentsValid,
       CheckingOutputs, options, callVars, sharedVars, Inputs
  <2>8. TriesCounted'
    BY <1>1, <2>1, <2>2, <2>3, <2>4 DEF TriesCounted, kMaxTestAttempts
  <2>9. ResultsAccounted'
    BY <1>1, <2>1, <2>2, <2>3, <2>4
       DEF ResultsAccounted, callVars, sharedVars, Inputs
  <2>10. CauseKept'
    BY <1>1, <2>1 DEF CauseKept, FailedInputs, options, sharedVars
  <2> QED
    BY <2>5, <2>6, <2>7, <2>8, <2>9, <2>10
<1>3. CASE EndThread(w)
  <2>1. /\ worker[w] = "waiting"
        /\ worker' = [worker EXCEPT ![w] = "exited"]
        /\ func' = [func EXCEPT ![w] = Head(queue)]
        /\ taken' = taken + 1
        /\ UNCHANGED <<numThreads, numTasks, owner, threads, done, phase>>
    BY <1>3 DEF EndThread, Pool!TakeShutdown, Pool!Pop, taskVars
  <2>2. phase[w] = "idle"
    BY <2>1 DEF WorkersInLambda
  <2>3. /\ worker \in [Workers -> {"none", "waiting", "running", "exited"}]
        /\ func \in [Workers -> 0..MaxInputs] /\ taken \in Nat
    BY PoolFacts
  <2>4. TypeOK'
    BY <1>1, <2>1
       DEF TypeOK, Pool!Inv, options, callVars, sharedVars, Inputs
  <2>5. WorkersInLambda'
    BY <2>1, <2>3 DEF WorkersInLambda
  <2>6. CallerInOrder' /\ OptionsValid'
    BY <1>1, <2>1 DEF CallerInOrder, OptionsValid, ArgumentsValid,
       CheckingOutputs, options, callVars, sharedVars, Inputs
  <2>7. TriesCounted'
    BY <1>1, <2>1, <2>2, <2>3 DEF TriesCounted
  <2>8. ResultsAccounted'
    BY <1>1, <2>1, <2>2, <2>3
       DEF ResultsAccounted, callVars, sharedVars, Inputs
  <2>9. CauseKept'
    BY <1>1, <2>1 DEF CauseKept, FailedInputs, options, sharedVars
  <2> QED
    BY <2>4, <2>5, <2>6, <2>7, <2>8, <2>9
<1> QED
  BY <1>2, <1>3

\* Leaving a task: cancelled, with an error or with a result.
LEMMA LeaveKeepsInv ==
  ASSUME Inv, Pool!Inv', NEW w \in Workers,
         Cancel(w) \/ CommitError(w) \/ CommitResult(w)
  PROVE  Inv'
<1> USE DEF Inv
<1>1. /\ phase[w] # "idle"
      /\ LeaveTask(w)
      /\ UNCHANGED <<options, callVars, tries>>
  BY DEF Cancel, CommitError, CommitResult
<1>2. /\ worker[w] = "running"
      /\ worker' = [worker EXCEPT ![w] = "waiting"]
      /\ func' = [func EXCEPT ![w] = 0]
      /\ done' = done \cup {func[w]}
      /\ phase' = [phase EXCEPT ![w] = "idle"]
      /\ got' = [got EXCEPT ![w] = NotOk]
      /\ UNCHANGED <<numThreads, numTasks, owner, threads, taken>>
  BY <1>1, ReturnFrame
<1>3. /\ func[w] \in Inputs /\ func[w] \in 1..MaxInputs
      /\ func[w] <= taken /\ func[w] \notin done
      /\ \A v \in Workers : phase[v] # "idle" /\ func[v] = func[w] => v = w
      /\ compilation = "kSuccess" /\ results \in [Inputs -> ExecutionResult]
      /\ results[func[w]] = NotRun
      /\ pc # "returned"
  BY <1>1, InLambda
<1>4. /\ phase \in [Workers -> {"idle", "check", "run", "pause", "commit"}]
      /\ got \in [Workers -> SUBSET Report]
      /\ worker \in [Workers -> {"none", "waiting", "running", "exited"}]
      /\ func \in [Workers -> 0..MaxInputs] /\ taken \in Nat
      /\ done \subseteq Inputs
      /\ NotOk \in SUBSET Report
  BY PoolFacts DEF TypeOK, NotOk
<1>5. /\ results' \in [Inputs -> ExecutionResult]
      /\ \A i \in Inputs : i # func[w] => results'[i] = results[i]
      /\ shouldStop' \in BOOLEAN /\ overall' \in {"OK", Error}
      /\ shouldStop => shouldStop'
      /\ results'[func[w]] = NotRun => shouldStop'
  <2>1. CASE Cancel(w)
    BY <1>3, <2>1 DEF Cancel, TypeOK, sharedVars
  <2>2. CASE CommitError(w)
    BY <1>3, <2>2 DEF CommitError, TypeOK
  <2>3. CASE CommitResult(w)
    <3>1. PICK r \in Report :
            /\ results' = [results EXCEPT ![func[w]] = Checked(r)]
            /\ shouldStop' = (shouldStop \/ Stops(r))
      BY <1>4, <2>3 DEF CommitResult
    <3>2. Stops(r) \in BOOLEAN /\ r.matches \in BOOLEAN
      BY DEF Stops, Report
    <3>3. Checked(r) \in ExecutionResult /\ Checked(r) # NotRun
      BY <3>2 DEF Checked, ExecutionResultFromTestSandboxResult, ExecutionResult,
         ProgramStatus, Optional, nullopt, NotRun
    <3> QED
      BY <1>3, <2>3, <3>1, <3>2, <3>3 DEF CommitResult, TypeOK
  <2> QED
    BY <2>1, <2>2, <2>3
<1>6. TypeOK'
  BY <1>1, <1>2, <1>4, <1>5 DEF TypeOK, Pool!Inv, options, callVars, Inputs
<1>7. WorkersInLambda'
  BY <1>2, <1>4 DEF WorkersInLambda
<1>8. CallerInOrder' /\ OptionsValid'
  BY <1>1, <1>2, <1>3, <1>5
     DEF CallerInOrder, OptionsValid, ArgumentsValid, CheckingOutputs, options,
         callVars, Inputs
<1>9. TriesCounted'
  BY <1>1, <1>2, <1>4 DEF TriesCounted
<1>10. ResultsAccounted'
  BY <1>1, <1>2, <1>3, <1>4, <1>5, InLambda DEF ResultsAccounted, callVars, Inputs
<1>11. CauseKept'
  <2>1. /\ results' \in [Inputs -> ExecutionResult]
        /\ FailedInputs \subseteq FailedInputs'
    <3>1. func[w] \notin FailedInputs
      <4>1. results[func[w]].passed = {}
        BY <1>3 DEF NotRun, nullopt
      <4>2. {FALSE} # {}
        OBVIOUS
      <4> QED
        BY <4>1, <4>2 DEF FailedInputs
    <3>2. DOMAIN results = Inputs /\ DOMAIN results' = Inputs
      BY <1>3, <1>5
    <3> QED
      BY <1>5, <3>1, <3>2 DEF FailedInputs
  <2>2. \A i \in done : results[i] = NotRun => results'[i] = NotRun
    BY <1>3, <1>4, <1>5
  <2>3. CASE Cancel(w)
    <3>1. UNCHANGED sharedVars /\ shouldStop
      BY <2>3 DEF Cancel
    <3> QED
      BY <1>1, <1>2, <3>1 DEF CauseKept, FailedInputs, options, sharedVars
  <2>4. CASE CommitError(w)
    <3>1. /\ shouldStop' /\ results' = results /\ got[w] = NotOk
          /\ phase[w] = "commit" /\ overall' = Error
      BY <2>4 DEF CommitError, TypeOK
    <3>2. tries[func[w]] = kMaxTestAttempts
      BY <3>1 DEF TriesCounted
    <3> QED
      BY <1>1, <1>2, <1>3, <3>1, <3>2 DEF CauseKept
  <2>5. CASE CommitResult(w)
    <3>1. PICK r \in Report :
            /\ results' = [results EXCEPT ![func[w]] = Checked(r)]
            /\ shouldStop' = (shouldStop \/ Stops(r))
      BY <1>4, <2>5 DEF CommitResult
    <3>2. overall' = overall /\ numExpected' = numExpected
          /\ stopOnFirst' = stopOnFirst
      BY <1>1, <2>5 DEF CommitResult, options
    <3>3. Stops(r) => stopOnFirst /\ func[w] \in FailedInputs'
      <4>1. SUFFICES ASSUME Stops(r) PROVE stopOnFirst /\ func[w] \in FailedInputs'
        OBVIOUS
      <4>2. CheckingOutputs /\ stopOnFirst /\ r.matches = FALSE
        BY <4>1 DEF Stops, Report
      <4>3. Checked(r).passed = {FALSE}
        BY <4>2 DEF Checked, ExecutionResultFromTestSandboxResult
      <4>4. results'[func[w]] = Checked(r) /\ func[w] \in DOMAIN results'
        BY <1>3, <3>1
      <4> QED
        BY <4>2, <4>3, <4>4 DEF FailedInputs
    <3>4. stopOnFirst /\ func[w] \in FailedInputs' => Stops(r)
      <4>1. SUFFICES ASSUME stopOnFirst, func[w] \in FailedInputs' PROVE Stops(r)
        OBVIOUS
      <4>2. CheckingOutputs
        BY <1>3, <4>1 DEF OptionsValid, ArgumentsValid
      <4>3. Checked(r).passed = {FALSE}
        BY <1>3, <3>1, <4>1 DEF FailedInputs
      <4>4. Checked(r).passed = {r.matches}
        BY <4>2 DEF Checked, ExecutionResultFromTestSandboxResult
      <4>5. ~r.matches
        BY <4>3, <4>4
      <4> QED
        BY <4>1, <4>2, <4>5 DEF Stops
    <3>5. \A i \in FailedInputs' : i = func[w] \/ i \in FailedInputs
      BY <1>3, <1>5 DEF FailedInputs
    <3>6. shouldStop' => overall' = Error \/ (stopOnFirst' /\ FailedInputs' # {})
      BY <2>1, <3>1, <3>2, <3>3 DEF CauseKept
    <3>7. overall' = Error =>
            \E i \in done' : tries'[i] = kMaxTestAttempts /\ results'[i] = NotRun
      BY <1>1, <1>2, <2>2, <3>2 DEF CauseKept
    <3>8. stopOnFirst' /\ FailedInputs' # {} => shouldStop'
      BY <3>1, <3>2, <3>4, <3>5 DEF CauseKept
    <3> QED
      BY <3>6, <3>7, <3>8 DEF CauseKept
  <2> QED
    BY <2>3, <2>4, <2>5
<1> QED
  BY <1>6, <1>7, <1>8, <1>9, <1>10, <1>11

LEMMA StutterKeepsInv == ASSUME Inv, Pool!Inv', UNCHANGED vars PROVE Inv'
<1> USE DEF Inv, vars, poolVars, options, callVars, sharedVars, taskVars, Inputs
<1>1. TypeOK'
  BY DEF TypeOK, Pool!Inv
<1>2. WorkersInLambda' /\ CallerInOrder' /\ OptionsValid'
  BY DEF WorkersInLambda, CallerInOrder, OptionsValid, ArgumentsValid,
         CheckingOutputs
<1>3. TriesCounted' /\ ResultsAccounted' /\ CauseKept'
  BY DEF TriesCounted, ResultsAccounted, CauseKept, FailedInputs
<1> QED
  BY <1>1, <1>2, <1>3

\* The pool, the workers' place in the lambda and what Test shares with them
\* are consistent in every reachable state.
THEOREM InvHolds == Spec => []Inv
<1>1. Init /\ Pool!Inv => Inv
  BY InitInv
<1>2. Inv /\ Pool!Inv' /\ [Next]_vars => Inv'
  BY CallerKeepsInv, OwnerKeepsInv, AttemptKeepsInv, EnterKeepsInv,
     ThrowKeepsInv, LeaveKeepsInv, StutterKeepsInv
     DEF Next, CallerStep, WorkerStep, Finished
<1> QED
  BY <1>1, <1>2, PoolInv, PTL DEF Spec

-----------------------------------------------------------------------------
(* What follows from Inv.                                                  *)

\* The variables of Test keep their types.
THEOREM TypeCorrect == Spec => []TypeOK
<1>1. Inv => TypeOK
  BY DEF Inv
<1> QED
  BY <1>1, InvHolds, PTL

\* tester_sandboxer.cc:401-406: should_stop always has a cause.
THEOREM StopCaused == Spec => []StopHasCause
<1>1. Inv => StopHasCause
  BY DEF Inv, CauseKept, StopHasCause
<1> QED
  BY <1>1, InvHolds, PTL

\* tester_sandboxer.cc:381-415: an input without a result in an OK answer is
\* explained by a failed test in it.
THEOREM SkippedExplained == Spec => []SkippedOnlyAfterFailure
<1>1. Inv /\ Pool!AllRunBeforeDestroyed => SkippedOnlyAfterFailure
  <2> SUFFICES ASSUME Inv, Pool!AllRunBeforeDestroyed, ret = "OK",
                      compilation = "kSuccess", numThreads > 0,
                      NEW i \in Inputs, results[i] = NotRun
               PROVE  stopOnFirst /\ FailedInputs # {}
    BY DEF SkippedOnlyAfterFailure
  <2>1. pc = "returned"
    BY DEF Inv, TypeOK, CallerInOrder
  <2>2. owner = "destroyed" /\ overall = "OK"
    BY <2>1 DEF Inv, CallerInOrder
  <2>3. i \in done
    BY <2>2 DEF Pool!AllRunBeforeDestroyed, Inputs
  <2>4. shouldStop
    BY <2>3 DEF Inv, ResultsAccounted
  <2> QED
    BY <2>2, <2>4 DEF Inv, CauseKept, Error
<1>2. PoolProofs!Spec => []PoolProofs!AllRunBeforeDestroyed
  BY CallAssumption, PoolProofs!AllRun, PTL
<1>3. PoolProofs!AllRunBeforeDestroyed => Pool!AllRunBeforeDestroyed
  BY DEF PoolProofs!AllRunBeforeDestroyed, Pool!AllRunBeforeDestroyed
<1> QED
  BY <1>1, <1>2, <1>3, InvHolds, PoolSpecs, PTL

\* tester_sandboxer.cc:78-93: an error has been tried for three times.
THEOREM ErrorTried == Spec => []ErrorOnlyAfterRetries
<1>1. Inv => ErrorOnlyAfterRetries
  BY PoolFacts DEF Inv, CauseKept, ErrorOnlyAfterRetries
<1> QED
  BY <1>1, InvHolds, PTL

-----------------------------------------------------------------------------
(* A call has finitely many steps, and nobody in it waits for somebody who  *)
(* waits for him.                                                           *)

LEMMA Fewer ==
  ASSUME NEW S, IsFiniteSet(S), NEW T, T \subseteq S, NEW x \in S, x \notin T
  PROVE  Cardinality(T) <= Cardinality(S) - 1
<1>1. T \subseteq S \ {x}
  OBVIOUS
<1>2. IsFiniteSet(S \ {x}) /\ Cardinality(S \ {x}) = Cardinality(S) - 1
  BY FS_RemoveElement
<1> QED
  BY <1>1, <1>2, FS_Subset

LEMMA OneMore ==
  ASSUME NEW S, IsFiniteSet(S), NEW x
  PROVE  /\ IsFiniteSet(S \cup {x})
         /\ Cardinality(S) \in Nat /\ Cardinality(S \cup {x}) \in Nat
         /\ Cardinality(S \cup {x}) <= Cardinality(S) + 1
<1>1. Cardinality(S) \in Nat
  BY FS_CardinalityType
<1>2. /\ IsFiniteSet(S \cup {x})
      /\ Cardinality(S \cup {x}) \in {Cardinality(S), Cardinality(S) + 1}
  BY FS_AddElement
<1> QED
  BY <1>1, <1>2

LEMMA ThreeMore ==
  ASSUME NEW S, IsFiniteSet(S), NEW a, NEW b, NEW c,
         NEW T, T \subseteq S \cup {a, b, c}
  PROVE  Cardinality(T) <= Cardinality(S) + 3
<1> DEFINE S1 == S \cup {a}
           S2 == S1 \cup {b}
           S3 == S2 \cup {c}
<1>1. T \subseteq S3
  OBVIOUS
<1>2. /\ IsFiniteSet(S1) /\ Cardinality(S) \in Nat /\ Cardinality(S1) \in Nat
      /\ Cardinality(S1) <= Cardinality(S) + 1
  BY OneMore
<1> HIDE DEF S1
<1>3. /\ IsFiniteSet(S2) /\ Cardinality(S2) \in Nat
      /\ Cardinality(S2) <= Cardinality(S1) + 1
  BY <1>2, OneMore
<1> HIDE DEF S2
<1>4. /\ IsFiniteSet(S3) /\ Cardinality(S3) \in Nat
      /\ Cardinality(S3) <= Cardinality(S2) + 1
  BY <1>3, OneMore
<1> HIDE DEF S3
<1>5. IsFiniteSet(T) /\ Cardinality(T) <= Cardinality(S3)
  BY <1>1, <1>4, FS_Subset
<1>6. Cardinality(T) \in Nat
  BY <1>5, FS_CardinalityType
<1> QED
  BY <1>2, <1>3, <1>4, <1>5, <1>6

\* What is left of the attempts of all inputs, and of those under way.
AttemptsLeft ==
  {a \in Inputs \X (1..kMaxTestAttempts) : tries[a[1]] < a[2]}
UnderWay == {a \in Workers \X (1..4) : a[2] <= AttemptSteps[phase[a[1]]]}

LEMMA PairsCounted ==
  ASSUME NEW m \in Nat, NEW n \in Nat, NEW T, T \subseteq (1..m) \X (1..n)
  PROVE  IsFiniteSet(T) /\ Cardinality(T) \in Nat
<1>1. IsFiniteSet(1..m) /\ IsFiniteSet(1..n)
  BY FS_Interval
<1>2. IsFiniteSet((1..m) \X (1..n))
  BY <1>1, FS_Product
<1>3. IsFiniteSet(T)
  BY <1>2, FS_Subset
<1> QED
  BY <1>3, FS_CardinalityType

LEMMA LeftFinite ==
  ASSUME Inv, numTasks' = numTasks
  PROVE  /\ IsFiniteSet(AttemptsLeft) /\ Cardinality(AttemptsLeft) \in Nat
         /\ IsFiniteSet(UnderWay) /\ Cardinality(UnderWay) \in Nat
         /\ Cardinality(AttemptsLeft') \in Nat
         /\ Cardinality(UnderWay') \in Nat
<1>1. /\ numTasks \in Nat /\ MaxThreads \in Nat /\ kMaxTestAttempts \in Nat
      /\ 4 \in Nat
  BY CallAssumption DEF Inv, Pool!Inv, Pool!TypeOK, kMaxTestAttempts
<1>2. /\ AttemptsLeft \subseteq (1..numTasks) \X (1..kMaxTestAttempts)
      /\ AttemptsLeft' \subseteq (1..numTasks) \X (1..kMaxTestAttempts)
      /\ UnderWay \subseteq (1..MaxThreads) \X (1..4)
      /\ UnderWay' \subseteq (1..MaxThreads) \X (1..4)
  BY DEF AttemptsLeft, UnderWay, Inputs, Workers
<1> HIDE DEF AttemptsLeft, UnderWay
<1> QED
  BY <1>1, <1>2, PairsCounted

\* An attempt that is counted is one less to make.
LEMMA AttemptCounted ==
  ASSUME Inv, NEW w \in Workers, phase[w] = "run", numTasks' = numTasks,
         tries' = [tries EXCEPT ![func[w]] = @ + 1]
  PROVE  Cardinality(AttemptsLeft') <= Cardinality(AttemptsLeft) - 1
<1>1. /\ func[w] \in Inputs /\ func[w] \in 1..MaxInputs
      /\ tries \in [1..MaxInputs -> 0..kMaxTestAttempts]
      /\ tries[func[w]] < kMaxTestAttempts
      /\ Inputs \subseteq 1..MaxInputs
  <2>1. numTasks \in 0..MaxInputs /\ MaxInputs \in Nat
    BY CallAssumption DEF Inv, Pool!Inv, Pool!TypeOK
  <2>2. func[w] \in Inputs /\ func[w] \in 1..MaxInputs
    BY InLambda
  <2>3. /\ tries \in [1..MaxInputs -> 0..kMaxTestAttempts]
        /\ tries[func[w]] < kMaxTestAttempts
    BY DEF Inv, TypeOK, TriesCounted
  <2> QED
    BY <2>1, <2>2, <2>3 DEF Inputs
<1> DEFINE next == <<func[w], tries[func[w]] + 1>>
<1>2. tries[func[w]] + 1 \in 1..kMaxTestAttempts
  BY <1>1 DEF kMaxTestAttempts
<1>3. next \in AttemptsLeft
  BY <1>1, <1>2 DEF AttemptsLeft
<1>4. AttemptsLeft' \subseteq AttemptsLeft
  BY <1>1 DEF AttemptsLeft, Inputs, kMaxTestAttempts
<1>5. next \notin AttemptsLeft'
  BY <1>1, <1>2 DEF AttemptsLeft
<1> HIDE DEF next
<1> QED
  BY <1>3, <1>4, <1>5, LeftFinite, Fewer

\* The steps of the attempts under way when one worker goes on: one less, or at
\* most three more when it enters the lambda or pauses.
LEMMA WorkerGoesOn ==
  ASSUME Inv, NEW w \in Workers, NEW p \in DOMAIN AttemptSteps,
         numTasks' = numTasks, phase' = [phase EXCEPT ![w] = p]
  PROVE  /\ AttemptSteps[p] < AttemptSteps[phase[w]] =>
              Cardinality(UnderWay') <= Cardinality(UnderWay) - 1
         /\ AttemptSteps[p] <= AttemptSteps[phase[w]] + 3 =>
              Cardinality(UnderWay') <= Cardinality(UnderWay) + 3
<1> DEFINE old == AttemptSteps[phase[w]]
           new == AttemptSteps[p]
<1>1. /\ phase \in [Workers -> DOMAIN AttemptSteps]
      /\ DOMAIN AttemptSteps = {"idle", "check", "run", "pause", "commit"}
      /\ old \in 0..4 /\ new \in 0..4
  BY DEF Inv, TypeOK, AttemptSteps
<1>2. \A a \in Workers \X (1..4) :
        a \in UnderWay' <=> IF a[1] = w THEN a[2] <= new ELSE a \in UnderWay
  BY <1>1 DEF UnderWay
<1>3. \A a \in Workers \X (1..4) : a[1] = w => (a \in UnderWay <=> a[2] <= old)
  BY DEF UnderWay
<1>4. UnderWay \subseteq Workers \X (1..4) /\ UnderWay' \subseteq Workers \X (1..4)
  BY DEF UnderWay
<1> HIDE DEF old, new
<1>5. IsFiniteSet(UnderWay) /\ Cardinality(UnderWay) \in Nat
  BY LeftFinite
<1>6. ASSUME new < old PROVE Cardinality(UnderWay') <= Cardinality(UnderWay) - 1
  <2>1. old \in 1..4 /\ <<w, old>> \in Workers \X (1..4)
    BY <1>1, <1>6
  <2>2. <<w, old>> \in UnderWay /\ <<w, old>> \notin UnderWay'
    BY <1>1, <1>2, <1>3, <1>6, <2>1
  <2>3. UnderWay' \subseteq UnderWay
    BY <1>1, <1>2, <1>3, <1>4, <1>6
  <2> QED
    BY <1>5, <2>2, <2>3, Fewer
<1>7. ASSUME new <= old + 3
      PROVE  Cardinality(UnderWay') <= Cardinality(UnderWay) + 3
  <2>1. UnderWay' \subseteq
          UnderWay \cup {<<w, old + 1>>, <<w, old + 2>>, <<w, old + 3>>}
    <3>1. SUFFICES ASSUME NEW a \in UnderWay', a \notin UnderWay
                   PROVE  a \in {<<w, old + 1>>, <<w, old + 2>>, <<w, old + 3>>}
      OBVIOUS
    <3>2. a \in Workers \X (1..4) /\ a[1] = w /\ a[2] <= new /\ ~(a[2] <= old)
      BY <1>2, <1>3, <1>4, <3>1
    <3>3. a[2] \in {old + 1, old + 2, old + 3}
      BY <1>1, <1>7, <3>2
    <3>4. a = <<w, a[2]>>
      BY <3>2
    <3> QED
      BY <3>3, <3>4
  <2> QED
    BY <1>5, <2>1, ThreeMore
<1> QED
  BY <1>6, <1>7 DEF old, new

LEMMA SameCardinality ==
  ASSUME NEW S
  PROVE  /\ Pool!Cardinality(S) = PoolProofs!Cardinality(S)
         /\ Pool!Cardinality(S) = Cardinality(S)
BY DEF Pool!Cardinality, PoolProofs!Cardinality, Cardinality

\* The pool's own count, as ThreadPoolProofs has it.
LEMMA PoolLeft ==
  ASSUME Pool!Inv, Pool!Alive
  PROVE  Pool!StepsLeft \in Nat
<1>1. PoolProofs!Inv /\ PoolProofs!Alive
  BY SamePool DEF Pool!Alive, PoolProofs!Alive
<1>2. /\ numThreads - threads \in Nat
      /\ numTasks - scheduled \in Nat
      /\ numTasks + numThreads - taken \in Nat
      /\ numTasks - PoolProofs!Cardinality(done) \in Nat
      /\ numThreads - joined \in Nat
  BY <1>1, CallAssumption, PoolProofs!LeftOver
<1>3. numTasks - Pool!Cardinality(done) \in Nat
  BY <1>2, SameCardinality
<1>4. owner \in {"starting", "scheduling", "joining", "destroyed"}
  BY DEF Pool!Inv, Pool!TypeOK, Pool!Alive
<1> QED
  BY <1>2, <1>3, <1>4 DEF Pool!StepsLeft

LEMMA SamePoolSteps ==
  [PoolProofs!Shortens]_(PoolProofs!vars) => [Pool!Shortens]_(Pool!vars)
<1>1. Pool!StepsLeft = PoolProofs!StepsLeft
  <2>1. Pool!Cardinality(done) = PoolProofs!Cardinality(done)
    BY SameCardinality
  <2> QED
    BY <2>1 DEF PoolProofs!StepsLeft, Pool!StepsLeft
<1>2. Pool!StepsLeft' = PoolProofs!StepsLeft'
  <2>1. Pool!Cardinality(done') = PoolProofs!Cardinality(done')
    BY SameCardinality
  <2> QED
    BY <2>1 DEF PoolProofs!StepsLeft, Pool!StepsLeft
<1> QED
  BY <1>1, <1>2
     DEF PoolProofs!Shortens, Pool!Shortens, PoolProofs!vars, Pool!vars

LEMMA AttemptPays ==
  ASSUME NEW p \in Nat, NEW a \in Nat, NEW b \in Nat, NEW c \in Nat,
         NEW aa \in Nat, NEW bb \in Nat, NEW cc \in Nat,
         aa <= a - 1, bb <= b + 3, cc = c
  PROVE  /\ 4 * p + 4 * aa + bb + cc \in Nat
         /\ 4 * p + 4 * aa + bb + cc < 4 * p + 4 * a + b + c
OBVIOUS

LEMMA PhasePays ==
  ASSUME NEW p \in Nat, NEW a \in Nat, NEW b \in Nat, NEW c \in Nat,
         NEW bb \in Nat, NEW cc \in Nat,
         bb <= b - 1, cc = c
  PROVE  /\ 4 * p + 4 * a + bb + cc \in Nat
         /\ 4 * p + 4 * a + bb + cc < 4 * p + 4 * a + b + c
OBVIOUS

LEMMA CallPays ==
  ASSUME NEW p \in Nat, NEW a \in Nat, NEW b \in Nat, NEW c \in Nat,
         NEW cc \in Nat, cc < c
  PROVE  /\ 4 * p + 4 * a + b + cc \in Nat
         /\ 4 * p + 4 * a + b + cc < 4 * p + 4 * a + b + c
OBVIOUS

LEMMA PoolPays ==
  ASSUME NEW p \in Nat, NEW a \in Nat, NEW b \in Nat, NEW c \in Nat,
         NEW pp \in Nat, NEW aa \in Nat, NEW bb \in Nat, NEW cc \in Nat,
         pp < p, aa <= a, bb <= b + 3, cc = c
  PROVE  /\ 4 * pp + 4 * aa + bb + cc \in Nat
         /\ 4 * pp + 4 * aa + bb + cc < 4 * p + 4 * a + b + c
OBVIOUS

LEMMA SumRegroups ==
  ASSUME NEW p \in Nat, NEW a \in Nat, NEW b \in Nat,
         NEW d \in Nat, NEW e \in Nat
  PROVE  4 * p + 4 * a + b + d + e = 4 * p + 4 * a + b + (d + e)
OBVIOUS

LEMMA StepShortens ==
  ASSUME Inv, Inv', Next, ~ UNCHANGED vars, [Pool!Shortens]_(Pool!vars)
  PROVE  Shortens
<1> DEFINE P == Pool!StepsLeft
           A == Cardinality(AttemptsLeft)
           B == Cardinality(UnderWay)
           C == (kMaxTestAttempts - compileTries) + CallSteps[pc]
<1>0. /\ kMaxTestAttempts - compileTries \in Nat
      /\ kMaxTestAttempts - compileTries' \in Nat
      /\ CallSteps[pc] \in Nat /\ CallSteps[pc'] \in Nat
  <2>1. /\ pc \in {"validate", "compile", "testing", "returned", "aborted"}
        /\ pc' \in {"validate", "compile", "testing", "returned", "aborted"}
        /\ compileTries \in 0..3 /\ compileTries' \in 0..3
    BY DEF Inv, TypeOK, kMaxTestAttempts
  <2>2. CallSteps[pc] \in Nat /\ CallSteps[pc'] \in Nat
    BY <2>1 DEF CallSteps
  <2>3. \A n \in 0..3 : kMaxTestAttempts - n \in Nat
    BY DEF kMaxTestAttempts
  <2> QED
    BY <2>1, <2>2, <2>3
<1>1. Pool!Alive /\ numTasks' = numTasks
  <2>1. CASE CallerStep
    BY <2>1, OwnerFrame
       DEF CallerStep, RejectArguments, MakeTempPath, CompileError,
           CompileThrows, CompileFailed, Compiled, OwnPool, ReturnResults,
           Pool!OwnerStep, Pool!SpawnWorker, Pool!SpawnFails, Pool!Started,
           Pool!Schedule, Pool!PushShutdown, Pool!Join, Pool!Destroy,
           Pool!Alive, poolVars, Inv, CallerInOrder
  <2>2. CASE \E w \in Workers : WorkerStep(w)
    BY <2>2 DEF WorkerStep, BeginTask, EndThread, LeaveTask, PassCheck, Cancel,
       RunReports, RunFails, RunThrows, Resume, CommitError, CommitResult,
       Pool!Take, Pool!TakeShutdown, Pool!Return, Pool!Throw, Pool!Pop, poolVars
  <2> QED
    BY <2>1, <2>2 DEF Next, Finished
<1>2. P \in Nat /\ A \in Nat /\ B \in Nat /\ A' \in Nat /\ B' \in Nat
  BY <1>1, PoolLeft, LeftFinite DEF Inv
<1>3. C \in Nat /\ C' \in Nat
  BY <1>0
<1>4. /\ StepsLeft = 4 * P + 4 * A + B + C
      /\ StepsLeft' = 4 * P' + 4 * A' + B' + C'
  <2>1. StepsLeft = 4 * P + 4 * A + B + (kMaxTestAttempts - compileTries)
                      + CallSteps[pc]
    BY Zenon DEF StepsLeft, AttemptsLeft, UnderWay
  <2>2. StepsLeft' = 4 * P' + 4 * A' + B' + (kMaxTestAttempts - compileTries')
                      + CallSteps[pc']
    BY Zenon DEF StepsLeft, AttemptsLeft, UnderWay, kMaxTestAttempts, CallSteps
  <2>3. P' \in Nat
    <3>1. UNCHANGED Pool!vars => P' = P
      BY DEF Pool!vars, Pool!StepsLeft
    <3> QED
      BY <1>2, <3>1 DEF Pool!Shortens
  <2> DEFINE D == kMaxTestAttempts - compileTries
             E == CallSteps[pc]
             DD == kMaxTestAttempts - compileTries'
             EE == CallSteps[pc']
  <2>4. C = D + E /\ C' = DD + EE
    BY Zenon DEF kMaxTestAttempts, CallSteps
  <2>5. StepsLeft = 4 * P + 4 * A + B + D + E
    BY <2>1
  <2>6. StepsLeft' = 4 * P' + 4 * A' + B' + DD + EE
    BY <2>2
  <2>7. D \in Nat /\ E \in Nat /\ DD \in Nat /\ EE \in Nat
    BY <1>0
  <2> HIDE DEF P, A, B, C, D, E, DD, EE
  <2>8. StepsLeft = 4 * P + 4 * A + B + C
    BY <1>2, <2>4, <2>5, <2>7, SumRegroups
  <2>9. StepsLeft' = 4 * P' + 4 * A' + B' + C'
    BY <1>2, <2>3, <2>4, <2>6, <2>7, SumRegroups
  <2> QED
    BY <2>8, <2>9
<1>5. ASSUME ~ UNCHANGED Pool!vars, A' <= A, B' <= B + 3, C' = C
      PROVE  Shortens
  <2>1. P' \in Nat /\ P' < P
    BY <1>5 DEF Pool!Shortens
  <2> HIDE DEF P, A, B, C
  <2>2. A' <= A /\ B' <= B + 3 /\ C' = C
    BY <1>5
  <2>3. /\ 4 * P' + 4 * A' + B' + C' \in Nat
        /\ 4 * P' + 4 * A' + B' + C' < 4 * P + 4 * A + B + C
    BY <1>2, <1>3, <2>1, <2>2, PoolPays
  <2> QED
    BY <1>4, <2>3 DEF Shortens
<1>6. ASSUME UNCHANGED poolVars,
             \/ A' <= A - 1 /\ B' <= B + 3 /\ C' = C
             \/ A' = A /\ B' <= B - 1 /\ C' = C
             \/ A' = A /\ B' = B /\ C' < C
      PROVE  Shortens
  <2>1. P' = P
    BY <1>6 DEF poolVars, Pool!StepsLeft
  <2> HIDE DEF P, A, B, C
  <2> QED
    <3>1. /\ 4 * P' + 4 * A' + B' + C' \in Nat
          /\ 4 * P' + 4 * A' + B' + C' < 4 * P + 4 * A + B + C
      <4>1. CASE A' <= A - 1 /\ B' <= B + 3 /\ C' = C
        BY <1>2, <1>3, <2>1, <4>1, AttemptPays
      <4>2. CASE A' = A /\ B' <= B - 1 /\ C' = C
        BY <1>2, <1>3, <2>1, <4>2, PhasePays
      <4>3. CASE A' = A /\ B' = B /\ C' < C
        BY <1>2, <1>3, <2>1, <4>3, CallPays
      <4> QED
        BY <1>6, <4>1, <4>2, <4>3
    <3> QED
      BY <1>4, <3>1 DEF Shortens
<1>7. UNCHANGED tries => A' = A
  BY <1>1 DEF AttemptsLeft, Inputs
<1>8. UNCHANGED phase => B' = B
  BY DEF UnderWay
<1>9. UNCHANGED callVars => C' = C
  BY DEF callVars
<1>10. CASE \/ RejectArguments \/ MakeTempPath \/ CompileError \/ CompileThrows
            \/ CompileFailed \/ Compiled \/ ReturnResults
  <2>1. UNCHANGED poolVars /\ UNCHANGED <<tries, phase>>
    BY <1>10 DEF RejectArguments, MakeTempPath, CompileError, CompileThrows,
       CompileFailed, Compiled, ReturnResults, taskVars
  <2>2. C' < C
    BY <1>10 DEF RejectArguments, MakeTempPath, CompileError, CompileThrows,
       CompileFailed, Compiled, ReturnResults, Inv, TypeOK, kMaxTestAttempts,
       CallSteps
  <2> HIDE DEF A, B, C
  <2> QED
    BY <1>6, <1>7, <1>8, <2>1, <2>2
<1>11. CASE OwnPool
  <2>1. UNCHANGED <<options, callVars, sharedVars, taskVars>>
    BY <1>11 DEF OwnPool
  <2>2. ~ UNCHANGED Pool!vars
    BY <2>1 DEF vars, poolVars, Pool!vars
  <2>3. A' = A /\ B' = B /\ C' = C
    BY <1>7, <1>8, <1>9, <2>1 DEF taskVars
  <2> HIDE DEF A, B, C
  <2> QED
    BY <1>2, <1>5, <2>2, <2>3
<1>12. ASSUME NEW w \in Workers,
              \/ BeginTask(w) \/ EndThread(w) \/ Cancel(w) \/ RunThrows(w)
              \/ CommitError(w) \/ CommitResult(w)
       PROVE  Shortens
  <2>1. UNCHANGED <<callVars, tries>>
    BY <1>12 DEF BeginTask, EndThread, Cancel, RunThrows, CommitError,
       CommitResult, taskVars
  <2>2. ~ UNCHANGED Pool!vars
    <3>1. worker' # worker \/ owner' # owner
      <4>1. CASE \/ BeginTask(w) \/ EndThread(w) \/ Cancel(w) \/ CommitError(w)
                 \/ CommitResult(w)
        <5>1. \/ worker[w] = "waiting" /\ worker'[w] = "running"
              \/ worker[w] = "waiting" /\ worker'[w] = "exited"
              \/ worker[w] = "running" /\ worker'[w] = "waiting"
          BY <4>1, PoolFacts
             DEF BeginTask, EndThread, Cancel, CommitError, CommitResult,
                 LeaveTask, Pool!Take, Pool!TakeShutdown, Pool!Return, Pool!Pop,
                 Inv
        <5> QED
          BY <5>1
      <4>2. CASE RunThrows(w)
        BY <4>2 DEF RunThrows, Pool!Throw, Pool!Alive
      <4> QED
        BY <1>12, <4>1, <4>2
    <3> QED
      BY <3>1 DEF Pool!vars
  <2>3. B' <= B + 3
    <3>1. phase[w] \in DOMAIN AttemptSteps /\ AttemptSteps[phase[w]] \in 0..4
      BY DEF Inv, TypeOK, AttemptSteps
    <3>2. CASE BeginTask(w)
      <4>1. phase[w] = "idle"
        BY <3>2 DEF BeginTask, Pool!Take, Pool!Pop, Inv, WorkersInLambda
      <4>2. phase' = [phase EXCEPT ![w] = "check"]
        BY <3>2 DEF BeginTask
      <4>3. "check" \in DOMAIN AttemptSteps
            /\ AttemptSteps["check"] <= AttemptSteps[phase[w]] + 3
        BY <4>1 DEF AttemptSteps
      <4> QED
        BY <1>1, <4>2, <4>3, WorkerGoesOn
    <3>3. CASE Cancel(w) \/ CommitError(w) \/ CommitResult(w)
      <4>1. phase' = [phase EXCEPT ![w] = "idle"]
        BY <3>3 DEF Cancel, CommitError, CommitResult, LeaveTask
      <4>2. "idle" \in DOMAIN AttemptSteps
            /\ AttemptSteps["idle"] <= AttemptSteps[phase[w]] + 3
        BY <3>1 DEF AttemptSteps
      <4> QED
        BY <1>1, <4>1, <4>2, WorkerGoesOn
    <3>4. CASE EndThread(w) \/ RunThrows(w)
      <4>1. B' = B
        BY <1>8, <3>4 DEF EndThread, RunThrows, taskVars
      <4> HIDE DEF B
      <4> QED
        BY <1>2, <4>1
    <3> QED
      BY <1>12, <3>2, <3>3, <3>4
  <2>4. A' = A /\ C' = C
    BY <1>7, <1>9, <2>1
  <2> HIDE DEF A, B, C
  <2> QED
    BY <1>2, <1>5, <2>2, <2>3, <2>4
<1>13. ASSUME NEW w \in Workers, PassCheck(w) \/ Resume(w)
       PROVE  Shortens
  <2>1. UNCHANGED <<poolVars, callVars, tries>>
    BY <1>13 DEF PassCheck, Resume
  <2>2. PICK p \in DOMAIN AttemptSteps :
          /\ phase' = [phase EXCEPT ![w] = p]
          /\ AttemptSteps[p] < AttemptSteps[phase[w]]
    <3>1. CASE PassCheck(w)
      <4>1. phase[w] = "check" /\ phase' = [phase EXCEPT ![w] = "run"]
        BY <3>1 DEF PassCheck
      <4>2. /\ "run" \in DOMAIN AttemptSteps
            /\ AttemptSteps["run"] < AttemptSteps["check"]
        BY DEF AttemptSteps
      <4> QED
        BY <4>1, <4>2
    <3>2. CASE Resume(w)
      <4>1. PICK q \in {"check", "commit"} : phase' = [phase EXCEPT ![w] = q]
        BY <3>2 DEF Resume
      <4>2. phase[w] = "pause"
        BY <3>2 DEF Resume
      <4>3. q \in DOMAIN AttemptSteps /\ AttemptSteps[q] < AttemptSteps["pause"]
        BY DEF AttemptSteps
      <4> QED
        BY <4>1, <4>2, <4>3
    <3> QED
      BY <1>13, <3>1, <3>2
  <2>3. B' <= B - 1
    BY <1>1, <2>2, WorkerGoesOn
  <2>4. A' = A /\ C' = C
    BY <1>7, <1>9, <2>1
  <2> HIDE DEF A, B, C
  <2> QED
    BY <1>6, <2>1, <2>3, <2>4
<1>14. ASSUME NEW w \in Workers, RunReports(w) \/ RunFails(w)
       PROVE  Shortens
  <2>1. /\ UNCHANGED <<poolVars, callVars>> /\ phase[w] = "run"
        /\ tries' = [tries EXCEPT ![func[w]] = @ + 1]
    BY <1>14 DEF RunReports, RunFails
  <2>2. PICK p \in {"commit", "pause"} : phase' = [phase EXCEPT ![w] = p]
    BY <1>14 DEF RunReports, RunFails
  <2>3. p \in DOMAIN AttemptSteps /\ AttemptSteps[p] <= AttemptSteps[phase[w]] + 3
    BY <2>1 DEF AttemptSteps
  <2>4. B' <= B + 3
    BY <1>1, <2>2, <2>3, WorkerGoesOn
  <2>5. A' <= A - 1
    BY <1>1, <2>1, AttemptCounted
  <2>6. C' = C
    BY <1>9, <2>1
  <2> HIDE DEF A, B, C
  <2> QED
    BY <1>6, <2>1, <2>4, <2>5, <2>6
<1> QED
  BY <1>10, <1>11, <1>12, <1>13, <1>14
     DEF Next, CallerStep, WorkerStep, Finished

\* tester_sandboxer.cc:78-93, 377-415: every call has finitely many steps,
\* whichever of its threads takes them.
THEOREM StepsEnd == Spec => StepsRunOut
<1>1. PoolProofs!Spec => [][PoolProofs!Shortens]_(PoolProofs!vars)
  BY CallAssumption, PoolProofs!StepsEnd DEF PoolProofs!StepsRunOut
<1>2. [PoolProofs!Shortens]_(PoolProofs!vars) => [Pool!Shortens]_(Pool!vars)
  BY SamePoolSteps
<1>3. Inv /\ Inv' /\ [Next]_vars /\ [Pool!Shortens]_(Pool!vars)
        => [Shortens]_vars
  BY StepShortens
<1> QED
  BY <1>1, <1>2, <1>3, PoolSpecs, InvHolds, PTL DEF Spec, StepsRunOut

\* The calling thread is not blocked in a join of ~ThreadPool.
CallerCanMove ==
  \/ pc \in {"validate", "compile"}
  \/ pc = "testing" /\ owner \in {"starting", "scheduling", "destroyed"}
  \/ pc = "testing" /\ owner = "joining"
       /\ (joined < threads => worker[joined + 1] = "exited")

\* Worker w is in the lambda, where it waits for nobody but the sandbox, or
\* finds an entry in the queue.
WorkerCanMove(w) ==
  phase[w] # "idle" \/ (worker[w] = "waiting" /\ queue # <<>>)

\* tester_sandboxer.cc:377-417: when the calling thread of Test waits, it waits
\* for a thread that can go on.
CallWaitsForNobodyStuck ==
  pc # "returned" /\ ~ProcessEnded /\ ~CallerCanMove =>
    joined + 1 \in Workers /\ WorkerCanMove(joined + 1)

THEOREM NobodyIsStuck == Spec => []CallWaitsForNobodyStuck
<1>1. PoolProofs!Spec => []PoolProofs!JoinWaitsForNobodyStuck
  BY CallAssumption, PoolProofs!NobodyIsStuck, PTL
<1>2. Inv /\ PoolProofs!JoinWaitsForNobodyStuck => CallWaitsForNobodyStuck
  <2> SUFFICES ASSUME Inv, PoolProofs!JoinWaitsForNobodyStuck, pc # "returned",
                      ~ProcessEnded, ~CallerCanMove
               PROVE  joined + 1 \in Workers /\ WorkerCanMove(joined + 1)
    BY DEF CallWaitsForNobodyStuck
  <2>1. pc = "testing" /\ owner = "joining"
    BY DEF Inv, TypeOK, Pool!Inv, Pool!TypeOK, ProcessEnded, CallerCanMove
  <2>2. joined + 1 \in Workers
        /\ (worker[joined + 1] = "running"
              \/ (worker[joined + 1] = "waiting" /\ queue # <<>>))
    BY <2>1 DEF PoolProofs!JoinWaitsForNobodyStuck, PoolProofs!OwnerCanMove,
       PoolProofs!WorkerCanMove, PoolProofs!Workers, Workers, CallerCanMove
  <2> QED
    BY <2>2 DEF Inv, WorkersInLambda, WorkerCanMove
<1> QED
  BY <1>1, <1>2, PoolSpecs, InvHolds, PTL

=============================================================================
