---------------------------- MODULE TestContract ----------------------------
(***************************************************************************)
(* What a call of TesterSandboxer::Test promises (the comments in          *)
(* execution/tester_sandboxer.h at MultiTestResult and at Test), without   *)
(* threads, locks, retries or sandboxes: results are filled in one by one, *)
(* in any order and each at most once, and then an answer is given that    *)
(* never changes again.                                                    *)
(***************************************************************************)
EXTENDS Naturals

VARIABLES
  numTasks,     \* the number of inputs
  numThreads,   \* TestOptions::num_threads
  stopOnFirst,  \* TestOptions::stop_on_first_failure
  compilation,  \* the status of the compilation
  results,      \* test_results
  ret           \* the status returned, or "pending"

vars == <<numTasks, numThreads, stopOnFirst, compilation, results, ret>>
parameters == <<numTasks, numThreads, stopOnFirst>>

Inputs == 1..numTasks
NotRun == [program_status |-> "kUnknown", passed |-> {}]

Ran ==
  [program_status : {"kSuccess", "kFailed", "kTimeout"},
   passed : {{}, {TRUE}, {FALSE}}]

Init ==
  /\ numTasks \in Nat
  /\ numThreads \in Nat
  /\ stopOnFirst \in BOOLEAN
  /\ compilation = "kUnknown"
  /\ results = <<>>
  /\ ret = "pending"

\* The call fails: there is a status and no answer.
Fail ==
  /\ ret = "pending"
  /\ ret' \in {"InvalidArgument", "error"}
  /\ UNCHANGED <<parameters, compilation, results>>

\* The code does not compile: an answer without test results.
RejectCode ==
  /\ ret = "pending"
  /\ compilation = "kUnknown"
  /\ compilation' = "kFailed"
  /\ ret' = "OK"
  /\ UNCHANGED <<parameters, results>>

\* The code compiles: as many results as inputs.
AcceptCode ==
  /\ ret = "pending"
  /\ compilation = "kUnknown"
  /\ compilation' = "kSuccess"
  /\ results' = [i \in Inputs |-> NotRun]
  /\ UNCHANGED <<parameters, ret>>

RecordResult(i) ==
  /\ ret = "pending"
  /\ compilation = "kSuccess"
  /\ results[i] = NotRun
  /\ \E r \in Ran : results' = [results EXCEPT ![i] = r]
  /\ UNCHANGED <<parameters, compilation, ret>>

\* Every input has its result, or some test failed and the caller asked to
\* stop there, or the caller gave no thread to run anything on.
Answerable ==
  \/ \A i \in Inputs : results[i] # NotRun
  \/ stopOnFirst /\ \E i \in Inputs : results[i].passed = {FALSE}
  \/ numThreads = 0

Answer ==
  /\ ret = "pending"
  /\ compilation = "kSuccess"
  /\ Answerable
  /\ ret' = "OK"
  /\ UNCHANGED <<parameters, compilation, results>>

Next ==
  Fail \/ RejectCode \/ AcceptCode \/ (\E i \in Inputs : RecordResult(i))
  \/ Answer

Spec == Init /\ [][Next]_vars

=============================================================================
