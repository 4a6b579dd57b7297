-------------------------- MODULE TesterSandboxer --------------------------
(***************************************************************************)
(* One call of TesterSandboxer::Test (execution/tester_sandboxer.cc): it   *)
(* validates its arguments, makes a temporary directory, compiles the code *)
(* with retries, and runs it on every input in a thread pool.              *)
(*                                                                         *)
(* The workers share should_stop, overall_status and the result vector     *)
(* under output_mutex.  A worker reads should_stop under the reader lock,  *)
(* drops the lock, runs the sandbox, and takes the writer lock to record   *)
(* what happened: those are separate actions, and anything may come        *)
(* between them.  The pool is the module ThreadPool.                       *)
(*                                                                         *)
(* What the sandbox reports for an input is a record                       *)
(*   [final, code, matches]                                                *)
(* of its final status, its reason code and whether compare_outputs        *)
(* accepts the program's output.                                           *)
(***************************************************************************)
EXTENDS Naturals, Sequences, FiniteSets

CONSTANTS
  MaxThreads,   \* bound on TestOptions::num_threads
  MaxInputs,    \* bound on test_inputs.size()
  Reports       \* Reports[i]: what the sandbox may report for input i

FinalStatuses == {"OK", "TIMEOUT", "SIGNALED", "VIOLATION"}

Report == [final : FinalStatuses, code : {0, 1}, matches : BOOLEAN]

ASSUME CallAssumption ==
  /\ MaxThreads \in Nat
  /\ MaxInputs \in Nat
  /\ Reports \in [1..MaxInputs -> SUBSET Report]

VARIABLES
  numThreads, numTasks, owner, threads, scheduled, queue, joined, worker,
  func, taken, done,      \* the pool; numTasks is test_inputs.size()
  numExpected,      \* expected_test_outputs.size()
  stopOnFirst,      \* TestOptions::stop_on_first_failure
  pc,               \* where the calling thread is in Test
  compileTries,     \* attempts of CompileCode made
  compilation,      \* multi_test_result.compilation_result.program_status
  results,          \* multi_test_result.test_results
  shouldStop,       \* should_stop
  overall,          \* overall_status
  ret,              \* the status Test returns
  phase,            \* phase[w]: where worker w is in its task
  tries,            \* tries[i]: attempts of RunCodeOnInput made for input i
  got               \* got[w]: test_result of worker w's task

poolVars == <<numThreads, numTasks, owner, threads, scheduled, queue, joined,
              worker, func, taken, done>>
options == <<numExpected, stopOnFirst>>
callVars == <<pc, compileTries, compilation, ret>>
sharedVars == <<results, shouldStop, overall>>
taskVars == <<phase, tries, got>>

vars == <<poolVars, options, callVars, sharedVars, taskVars>>

Pool == INSTANCE ThreadPool WITH MaxTasks <- MaxInputs

Workers == 1..MaxThreads
Inputs == 1..numTasks

kMaxTestAttempts == 3

-----------------------------------------------------------------------------
(* Data.                                                                   *)

ProgramStatus == {"kUnknown", "kSuccess", "kFailed", "kTimeout"}

\* std::optional<bool>: a set of at most one Boolean.
nullopt == {}
Optional == {nullopt, {TRUE}, {FALSE}}

ExecutionResult == [program_status : ProgramStatus, passed : Optional]

\* A value-initialised ExecutionResult: the input has not been run.
NotRun == [program_status |-> "kUnknown", passed |-> nullopt]

\* SIGNALED is how the sandbox reports a broken rlimit.
ExecutionResultFromTestSandboxResult(r) ==
  [program_status |->
     CASE r.final \in {"TIMEOUT", "SIGNALED"} -> "kTimeout"
       [] r.final = "OK" /\ r.code = 0        -> "kSuccess"
       [] OTHER                               -> "kFailed",
   passed |-> nullopt]

\* A non-OK status other than kCancelled; its code is of no consequence.
Error == "error"

\* A StatusOr<ExecutionResult> is the set of the report it was made from; it
\* is empty when it holds a non-OK status, as it does from its declaration on
\* ("No attempts made.").
NotOk == {}

CheckingOutputs == numExpected # 0

ArgumentsValid ==
  /\ CheckingOutputs => numTasks = numExpected
  /\ stopOnFirst => CheckingOutputs

TypeOK ==
  /\ Pool!TypeOK
  /\ numExpected \in 0..MaxInputs
  /\ stopOnFirst \in BOOLEAN
  /\ pc \in {"validate", "compile", "testing", "returned", "aborted"}
  /\ compileTries \in 0..kMaxTestAttempts
  /\ compilation \in {"kUnknown", "kSuccess", "kFailed"}
  /\ \/ results = <<>>
     \/ results \in [Inputs -> ExecutionResult]
  /\ shouldStop \in BOOLEAN
  /\ overall \in {"OK", Error}
  /\ ret \in {"pending", "OK", "InvalidArgument", Error}
  /\ phase \in [Workers -> {"idle", "check", "run", "pause", "commit"}]
  /\ tries \in [1..MaxInputs -> 0..kMaxTestAttempts]
  /\ got \in [Workers -> SUBSET Report]

Init ==
  /\ Pool!Init
  /\ numExpected \in 0..MaxInputs
  /\ stopOnFirst \in BOOLEAN
  /\ pc = "validate"
  /\ compileTries = 0
  /\ compilation = "kUnknown"
  /\ results = <<>>
  /\ shouldStop = FALSE
  /\ overall = "OK"
  /\ ret = "pending"
  /\ phase = [w \in Workers |-> "idle"]
  /\ tries = [i \in 1..MaxInputs |-> 0]
  /\ got = [w \in Workers |-> NotOk]

-----------------------------------------------------------------------------
(* The calling thread.                                                     *)

RejectArguments ==
  /\ pc = "validate"
  /\ ~ArgumentsValid
  /\ ret' = "InvalidArgument"
  /\ pc' = "returned"
  /\ UNCHANGED <<poolVars, options, compileTries, compilation, sharedVars,
                 taskVars>>

\* TempPath's constructor makes the directory, or aborts the process when
\* the name is taken or the directory cannot be made.
MakeTempPath ==
  /\ pc = "validate"
  /\ ArgumentsValid
  /\ pc' \in {"compile", "aborted"}
  /\ UNCHANGED <<poolVars, options, compileTries, compilation, ret, sharedVars,
                 taskVars>>

\* An attempt of CompileCode ends with a non-OK status.  RetryIfFail makes
\* another until there have been kMaxTestAttempts.
CompileError ==
  /\ pc = "compile"
  /\ compileTries' = compileTries + 1
  /\ IF compileTries + 1 < kMaxTestAttempts
       THEN UNCHANGED <<pc, ret>>
       ELSE pc' = "returned" /\ ret' = Error
  /\ UNCHANGED <<poolVars, options, compilation, sharedVars, taskVars>>

\* CompileCode throws, which it may when the system has no file or descriptor to
\* give: RetryIfFail retries a status, and nothing catches an exception.
CompileThrows ==
  /\ pc = "compile"
  /\ pc' = "aborted"
  /\ UNCHANGED <<poolVars, options, compileTries, compilation, ret, sharedVars,
                 taskVars>>

\* The compiler rejects the code: that is a result, without test results.
CompileFailed ==
  /\ pc = "compile"
  /\ compilation' = "kFailed"
  /\ pc' = "returned"
  /\ ret' = "OK"
  /\ UNCHANGED <<poolVars, options, compileTries, sharedVars, taskVars>>

Compiled ==
  /\ pc = "compile"
  /\ compilation' = "kSuccess"
  /\ pc' = "testing"
  /\ results' = [i \in Inputs |-> NotRun]
  /\ UNCHANGED <<poolVars, options, compileTries, ret, shouldStop, overall,
                 taskVars>>

\* The scope of the pool: construction, StartWorkers, the Schedule loop and
\* the destructor.
OwnPool ==
  /\ pc = "testing"
  /\ Pool!OwnerStep
  /\ UNCHANGED <<options, callVars, sharedVars, taskVars>>

\* Fault: the pool outlives the scope, so Test does not wait for its threads.
ReturnResultsEarly ==
  /\ pc = "testing"
  /\ owner \in {"joining", "destroyed"}
  /\ ret' = overall
  /\ pc' = "returned"
  /\ UNCHANGED <<poolVars, options, compileTries, compilation, sharedVars,
                 taskVars>>

\* The pool is gone.  An error discards the results.
ReturnResults ==
  /\ pc = "testing"
  /\ owner = "destroyed"
  /\ ret' = overall
  /\ pc' = "returned"
  /\ UNCHANGED <<poolVars, options, compileTries, compilation, sharedVars,
                 taskVars>>

-----------------------------------------------------------------------------
(* A worker inside the scheduled lambda.                                   *)

BeginTask(w) ==
  /\ Pool!Take(w)
  /\ phase' = [phase EXCEPT ![w] = "check"]
  /\ UNCHANGED <<options, callVars, sharedVars, tries, got>>

EndThread(w) ==
  /\ Pool!TakeShutdown(w)
  /\ UNCHANGED <<options, callVars, sharedVars, taskVars>>

\* The lambda returns to WorkLoop and its locals are gone.
LeaveTask(w) ==
  /\ Pool!Return(w)
  /\ phase' = [phase EXCEPT ![w] = "idle"]
  /\ got' = [got EXCEPT ![w] = NotOk]

\* Under the reader lock: should_stop is clear.  The lock is then released.
PassCheck(w) ==
  /\ Pool!Alive
  /\ phase[w] = "check"
  /\ ~shouldStop
  /\ phase' = [phase EXCEPT ![w] = "run"]
  /\ UNCHANGED <<poolVars, options, callVars, sharedVars, tries, got>>

\* Fault: a cancellation goes on to the lock like any other status.
CancelCommitted(w) ==
  /\ Pool!Alive
  /\ phase[w] = "check"
  /\ shouldStop
  /\ phase' = [phase EXCEPT ![w] = "commit"]
  /\ UNCHANGED <<poolVars, options, callVars, sharedVars, tries, got>>

\* Under the reader lock: should_stop is set.  The attempt is cancelled, a
\* cancellation is not retried, and the lambda returns without a result.
Cancel(w) ==
  /\ phase[w] = "check"
  /\ shouldStop
  /\ LeaveTask(w)
  /\ UNCHANGED <<options, callVars, sharedVars, tries>>

\* RunCodeOnInput returns the result of the sandbox.
RunReports(w) ==
  /\ Pool!Alive
  /\ phase[w] = "run"
  /\ \E r \in Reports[func[w]] : got' = [got EXCEPT ![w] = {r}]
  /\ tries' = [tries EXCEPT ![func[w]] = @ + 1]
  /\ phase' = [phase EXCEPT ![w] = "commit"]
  /\ UNCHANGED <<poolVars, options, callVars, sharedVars>>

\* Fault: RetryIfFail does not count its attempts.
RunFailsUncounted(w) ==
  /\ Pool!Alive
  /\ phase[w] = "run"
  /\ got' = [got EXCEPT ![w] = NotOk]
  /\ phase' = [phase EXCEPT ![w] = "pause"]
  /\ UNCHANGED <<poolVars, options, callVars, sharedVars, tries>>

\* RunCodeOnInput returns a non-OK status, and RetryIfFail pauses.
RunFails(w) ==
  /\ Pool!Alive
  /\ phase[w] = "run"
  /\ got' = [got EXCEPT ![w] = NotOk]
  /\ tries' = [tries EXCEPT ![func[w]] = @ + 1]
  /\ phase' = [phase EXCEPT ![w] = "pause"]
  /\ UNCHANGED <<poolVars, options, callVars, sharedVars>>

\* RunCodeOnInput throws, in the start of its reading threads: the exception
\* leaves WorkLoop, and the other workers go with the process.
RunThrows(w) ==
  /\ phase[w] = "run"
  /\ Pool!Throw(w)
  /\ UNCHANGED <<options, callVars, sharedVars, taskVars>>

\* The pause is over: try again, or give up with the status of the last try.
Resume(w) ==
  /\ Pool!Alive
  /\ phase[w] = "pause"
  /\ phase' = [phase EXCEPT ![w] = IF tries[func[w]] < kMaxTestAttempts
                                     THEN "check" ELSE "commit"]
  /\ UNCHANGED <<poolVars, options, callVars, sharedVars, tries, got>>

\* Fault: the status is not kept.
CommitErrorDropped(w) ==
  /\ phase[w] = "commit"
  /\ got[w] = NotOk
  /\ shouldStop' = TRUE
  /\ LeaveTask(w)
  /\ UNCHANGED <<options, callVars, results, overall, tries>>

\* Under the writer lock: the first error is kept and stops everything.
CommitError(w) ==
  /\ phase[w] = "commit"
  /\ got[w] = NotOk
  /\ overall' = IF overall = "OK" THEN Error ELSE overall
  /\ shouldStop' = TRUE
  /\ LeaveTask(w)
  /\ UNCHANGED <<options, callVars, results, tries>>

\* Fault: stop_on_first_failure is not consulted.
StopsOnAnyFailure(r) == CheckingOutputs /\ ~r.matches

\* Fault: a failure does not set should_stop.
NeverStops(r) == FALSE

\* A failed test sets should_stop when the caller asked for it.
Stops(r) == CheckingOutputs /\ stopOnFirst /\ ~r.matches

\* The result that is stored: the output is compared whatever the status.
Checked(r) ==
  [ExecutionResultFromTestSandboxResult(r) EXCEPT
     !.passed = IF CheckingOutputs THEN {r.matches} ELSE nullopt]

\* Fault: the lambda captures i by reference.
CommitResultAtLoopIndex(w) ==
  /\ phase[w] = "commit"
  /\ \E r \in got[w] :
       /\ results' = [results EXCEPT ![scheduled] = Checked(r)]
       /\ shouldStop' = (shouldStop \/ Stops(r))
  /\ LeaveTask(w)
  /\ UNCHANGED <<options, callVars, overall, tries>>

\* Under the writer lock: the output is compared, if it is to be, and the
\* result is stored.
CommitResult(w) ==
  /\ phase[w] = "commit"
  /\ \E r \in got[w] :
       /\ results' = [results EXCEPT ![func[w]] = Checked(r)]
       /\ shouldStop' = (shouldStop \/ Stops(r))
  /\ LeaveTask(w)
  /\ UNCHANGED <<options, callVars, overall, tries>>

-----------------------------------------------------------------------------
CallerStep ==
  RejectArguments \/ MakeTempPath \/ CompileError \/ CompileThrows
  \/ CompileFailed \/ Compiled \/ OwnPool \/ ReturnResults

WorkerStep(w) ==
  BeginTask(w) \/ EndThread(w) \/ PassCheck(w) \/ Cancel(w) \/ RunReports(w)
  \/ RunFails(w) \/ RunThrows(w) \/ Resume(w) \/ CommitError(w) \/ CommitResult(w)

ProcessEnded == pc = "aborted" \/ owner = "terminated"

\* Test has returned, or the process has ended: nothing more happens.
Finished == (pc = "returned" \/ ProcessEnded) /\ UNCHANGED vars

Next == CallerStep \/ (\E w \in Workers : WorkerStep(w)) \/ Finished

\* Every thread that can run is run.  RunCodeOnInput returns: the sandbox is
\* given a wall time limit (tester_sandboxer.cc:432).
Fairness == WF_vars(CallerStep) /\ \A w \in Workers : WF_vars(WorkerStep(w))

Spec == Init /\ [][Next]_vars
FairSpec == Spec /\ Fairness
-----------------------------------------------------------------------------
(* The inductive invariant.                                                *)

FailedInputs == {i \in DOMAIN results : results[i].passed = {FALSE}}

\* A worker is somewhere in the lambda just while the pool runs a function.
WorkersInLambda ==
  \A w \in Workers : phase[w] # "idle" <=> worker[w] = "running"

\* The caller goes through Test in order, and there is a pool only in between.
CallerInOrder ==
  /\ pc \in {"validate", "compile", "aborted"} =>
       owner = "starting" /\ threads = 0 /\ ret = "pending"
  /\ pc \in {"validate", "compile", "aborted"} => compilation = "kUnknown"
  /\ pc \in {"validate", "compile"} => compileTries < kMaxTestAttempts
  /\ pc = "testing" => compilation = "kSuccess" /\ ret = "pending"
  /\ compilation = "kSuccess" => results \in [Inputs -> ExecutionResult]
  /\ compilation # "kSuccess" =>
       results = <<>> /\ owner = "starting" /\ threads = 0
  /\ pc = "returned" =>
       IF compilation = "kSuccess" THEN owner = "destroyed" /\ ret = overall
                                   ELSE ret # "pending"

\* The arguments of a call that compiles or tests have passed the validation.
OptionsValid ==
  pc \in {"compile", "testing"} \/ compilation = "kSuccess" => ArgumentsValid

\* RetryIfFail keeps count, and a task starts with no attempt and no result.
TriesCounted ==
  /\ \A i \in 1..MaxInputs : i > taken => tries[i] = 0
  /\ \A w \in Workers :
       /\ phase[w] \in {"check", "run"} => tries[func[w]] < kMaxTestAttempts
       /\ phase[w] = "commit" /\ got[w] = NotOk =>
            tries[func[w]] = kMaxTestAttempts
       /\ phase[w] # "commit" => got[w] = NotOk

\* A slot is written by its own task only, when that task ends; a task that
\* ended without a result has found should_stop set.
ResultsAccounted ==
  compilation = "kSuccess" =>
    /\ \A i \in Inputs : i > taken => results[i] = NotRun
    /\ \A w \in Workers : phase[w] # "idle" => results[func[w]] = NotRun
    /\ \A i \in done : results[i] = NotRun => shouldStop

\* should_stop and overall_status are set together with what they stand for.
CauseKept ==
  /\ shouldStop => overall = Error \/ (stopOnFirst /\ FailedInputs # {})
  /\ overall = Error =>
       \E i \in done : tries[i] = kMaxTestAttempts /\ results[i] = NotRun
  /\ stopOnFirst /\ FailedInputs # {} => shouldStop

\* What relates the pool, the workers' place in the lambda and the shared
\* variables of Test at every moment, under the lock or not.
Inv ==
  /\ TypeOK
  /\ Pool!Inv
  /\ WorkersInLambda
  /\ CallerInOrder
  /\ OptionsValid
  /\ TriesCounted
  /\ ResultsAccounted
  /\ CauseKept

-----------------------------------------------------------------------------
(* Properties.                                                             *)

\* should_stop is never set without a reason a reader of the results can see:
\* an error that will be returned, or a failed test when stop_on_first_failure
\* was asked for.  So no input is cancelled for nothing.
StopHasCause ==
  shouldStop => overall = Error \/ (stopOnFirst /\ FailedInputs # {})

\* An input left without a result in an OK answer is explained by a failed
\* test in the same answer; without stop_on_first_failure there is none.
SkippedOnlyAfterFailure ==
  ret = "OK" /\ compilation = "kSuccess" /\ numThreads > 0 =>
    \/ \A i \in Inputs : results[i] # NotRun
    \/ stopOnFirst /\ FailedInputs # {}

\* The answer is an error only if some input was tried kMaxTestAttempts times
\* and has no result: one transient failure never loses the whole answer, and
\* a cancellation is never mistaken for an error.
ErrorOnlyAfterRetries ==
  overall = Error =>
    \E i \in Inputs : tries[i] = kMaxTestAttempts /\ results[i] = NotRun

\* With stop_on_first_failure more than one test can fail, because workers
\* that are already past the check of should_stop still finish; but each of
\* them records at most one failure (solve_example.cc:220).
FailuresBounded == stopOnFirst => Cardinality(FailedInputs) <= numThreads

\* Each result stands in the slot of its own input: it is what the sandbox
\* reported for that input, whichever worker ran it and whenever it finished.
ResultsBelongToInputs ==
  \A i \in DOMAIN results : results[i] # NotRun =>
    \E r \in Reports[i] : results[i] = Checked(r)

\* What Test promises its caller, whatever the interleaving of its workers:
\* above all, that the vector it returns is not written after it returns.
Contract == INSTANCE TestContract
ImplementsContract == Contract!Spec

\* How far a worker is from the end of its attempt, and the caller from the end
\* of the call.
AttemptSteps ==
  [idle |-> 0, commit |-> 1, run |-> 2, check |-> 3, pause |-> 4]
CallSteps ==
  [validate |-> 3, compile |-> 2, testing |-> 1, returned |-> 0, aborted |-> 0]

\* A bound on what a call can still do: four steps for every step of the pool
\* and for every attempt RetryIfFail may still make, and those of the attempts
\* that are under way.
StepsLeft ==
  4 * Pool!StepsLeft
    + 4 * Cardinality({a \in Inputs \X (1..kMaxTestAttempts) : tries[a[1]] < a[2]})
    + Cardinality({a \in Workers \X (1..4) : a[2] <= AttemptSteps[phase[a[1]]]})
    + (kMaxTestAttempts - compileTries) + CallSteps[pc]

Shortens == StepsLeft' \in Nat /\ StepsLeft' < StepsLeft

\* A call ends after a number of steps that its arguments bound, in whatever
\* order its workers run and however often the sandbox fails: the retries of an
\* input are counted wherever the worker that makes them is interrupted.
StepsRunOut == [][Shortens]_vars

\* Test returns, unless the process ends first.
TestReturns == <>(pc = "returned" \/ ProcessEnded)

=============================================================================
