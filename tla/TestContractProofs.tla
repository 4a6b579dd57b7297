------------------------- MODULE TestContractProofs -------------------------
(***************************************************************************)
(* What the caller of TesterSandboxer::Test may rely on, for every number  *)
(* of threads and inputs: the contract of TestContract, results in their   *)
(* own slots, and a bound on the failures after the first.                 *)
(***************************************************************************)
EXTENDS TesterSandboxerProofs, FiniteSetTheorems

-----------------------------------------------------------------------------
(* The contract.                                                           *)

LEMMA CheckedRan == ASSUME NEW r \in Report PROVE Checked(r) \in Contract!Ran
BY DEF Checked, ExecutionResultFromTestSandboxResult, Contract!Ran, Report,
       nullopt

LEMMA SameNotRun == Contract!NotRun = NotRun
BY DEF Contract!NotRun, NotRun, nullopt

\* When Test returns OK after a compilation, nothing is left to run, or a
\* failure explains it, or there is no thread.
LEMMA Answerable ==
  ASSUME Inv, Pool!AllRunBeforeDestroyed, ReturnResults, overall = "OK"
  PROVE  \/ \A i \in Inputs : results[i] # NotRun
         \/ stopOnFirst /\ \E i \in Inputs : results[i].passed = {FALSE}
         \/ numThreads = 0
<1> SUFFICES ASSUME NEW i \in Inputs, results[i] = NotRun, numThreads # 0
             PROVE  stopOnFirst /\ \E j \in Inputs : results[j].passed = {FALSE}
  OBVIOUS
<1>1. /\ owner = "destroyed" /\ compilation = "kSuccess"
      /\ results \in [Inputs -> ExecutionResult]
  BY DEF ReturnResults, Inv, CallerInOrder
<1>2. numThreads > 0
  BY PoolFacts DEF Inv
<1>3. i \in done
  BY <1>1, <1>2 DEF Pool!AllRunBeforeDestroyed, Inputs
<1>4. shouldStop
  BY <1>1, <1>3 DEF Inv, ResultsAccounted
<1>5. stopOnFirst /\ FailedInputs # {}
  BY <1>4 DEF Inv, CauseKept, Error
<1> QED
  BY <1>1, <1>5 DEF FailedInputs

LEMMA CallerStepContract ==
  ASSUME Inv, Pool!AllRunBeforeDestroyed, CallerStep
  PROVE  [Contract!Next]_(Contract!vars)
<1> USE DEF Contract!vars, Contract!Next, Contract!parameters
<1>1. CASE RejectArguments
  BY <1>1 DEF RejectArguments, Contract!Fail, Inv, CallerInOrder, poolVars,
     options, sharedVars
<1>2. CASE MakeTempPath \/ CompileThrows
  BY <1>2 DEF MakeTempPath, CompileThrows, poolVars, options, sharedVars
<1>3. CASE CompileError
  BY <1>3 DEF CompileError, Contract!Fail, Inv, CallerInOrder, poolVars, options,
     sharedVars, Error
<1>4. CASE CompileFailed
  BY <1>4 DEF CompileFailed, Contract!RejectCode, Inv, CallerInOrder, poolVars,
     options, sharedVars
<1>5. CASE Compiled
  BY <1>5, SameNotRun DEF Compiled, Contract!AcceptCode, Contract!Inputs, Inputs,
     Inv, CallerInOrder, poolVars, options
<1>6. CASE OwnPool
  BY <1>6, OwnerFrame DEF OwnPool, Inv, options, callVars, sharedVars
<1>7. CASE ReturnResults
  <2>1. /\ ret = "pending" /\ compilation = "kSuccess" /\ ret' = overall
        /\ overall \in {"OK", Error}
        /\ UNCHANGED <<numTasks, numThreads, stopOnFirst, compilation, results>>
    BY <1>7 DEF ReturnResults, Inv, TypeOK, CallerInOrder, poolVars, options,
       sharedVars
  <2>2. CASE overall = "OK"
    BY <1>7, <2>1, <2>2, Answerable, SameNotRun
       DEF Contract!Answer, Contract!Answerable, Contract!Inputs, Inputs
  <2>3. CASE overall = Error
    BY <2>1, <2>3 DEF Contract!Fail, Error
  <2> QED
    BY <2>1, <2>2, <2>3
<1> QED
  BY <1>1, <1>2, <1>3, <1>4, <1>5, <1>6, <1>7 DEF CallerStep

LEMMA WorkerStepContract ==
  ASSUME Inv, NEW w \in Workers, WorkerStep(w)
  PROVE  [Contract!Next]_(Contract!vars)
<1> USE DEF Contract!vars, Contract!Next, Contract!parameters
<1>1. CASE BeginTask(w)
  BY <1>1, TakeFrame DEF BeginTask, Inv, options, callVars, sharedVars
<1>2. CASE EndThread(w)
  BY <1>2 DEF EndThread, Pool!TakeShutdown, options, callVars, sharedVars
<1>3. CASE PassCheck(w) \/ RunReports(w) \/ RunFails(w) \/ Resume(w)
  BY <1>3 DEF PassCheck, RunReports, RunFails, Resume, poolVars, options,
     callVars, sharedVars
<1>4. CASE Cancel(w) \/ CommitError(w)
  BY <1>4, ReturnFrame DEF Cancel, CommitError, Inv, options, callVars, sharedVars
<1>5. CASE CommitResult(w)
  <2>1. /\ func[w] \in Inputs /\ compilation = "kSuccess"
        /\ results[func[w]] = NotRun /\ pc # "returned"
    BY <1>5, InLambda DEF CommitResult
  <2>2. ret = "pending"
    BY <2>1 DEF Inv, TypeOK, CallerInOrder
  <2>3. PICK r \in Report : results' = [results EXCEPT ![func[w]] = Checked(r)]
    BY <1>5 DEF CommitResult, Inv, TypeOK
  <2>4. UNCHANGED <<numTasks, numThreads, stopOnFirst, compilation, ret>>
    BY <1>5, ReturnFrame DEF CommitResult, Inv, options, callVars
  <2>5. Contract!RecordResult(func[w])
    BY <2>1, <2>2, <2>3, <2>4, CheckedRan, SameNotRun
       DEF Contract!RecordResult
  <2> QED
    BY <2>1, <2>5 DEF Contract!Inputs, Inputs
<1>6. CASE RunThrows(w)
  BY <1>6 DEF RunThrows, Pool!Throw, options, callVars, sharedVars
<1> QED
  BY <1>1, <1>2, <1>3, <1>4, <1>5, <1>6 DEF WorkerStep

LEMMA PoolAllRun == Spec => []Pool!AllRunBeforeDestroyed
<1>1. PoolProofs!Spec => []PoolProofs!AllRunBeforeDestroyed
  BY CallAssumption, PoolProofs!AllRun, PTL
<1>2. PoolProofs!AllRunBeforeDestroyed => Pool!AllRunBeforeDestroyed
  BY DEF PoolProofs!AllRunBeforeDestroyed, Pool!AllRunBeforeDestroyed
<1> QED
  BY <1>1, <1>2, PoolSpecs, PTL

\* tester_sandboxer.h:79-85 and 154-161: a call of Test, threads and all, does
\* what the contract says, and the answer is final when it is given.
THEOREM Refines == Spec => ImplementsContract
<1>1. Init => Contract!Init
  BY DEF Init, Contract!Init, Pool!Init
<1>2. Inv /\ Pool!AllRunBeforeDestroyed /\ [Next]_vars
        => [Contract!Next]_(Contract!vars)
  <2> SUFFICES ASSUME Inv, Pool!AllRunBeforeDestroyed, [Next]_vars
               PROVE  [Contract!Next]_(Contract!vars)
    OBVIOUS
  <2>1. CASE Finished \/ UNCHANGED vars
    BY <2>1 DEF Finished, vars, Contract!vars, poolVars, options, callVars,
       sharedVars
  <2> QED
    BY <2>1, CallerStepContract, WorkerStepContract DEF Next
<1> QED
  BY <1>1, <1>2, InvHolds, PoolAllRun, PTL
     DEF Spec, ImplementsContract, Contract!Spec

\* tester_sandboxer.h:79-85: an OK answer says that the code does not compile, or
\* has as many results as there are inputs and explains those that are missing.
AnswerExplained ==
  ret = "OK" =>
    \/ compilation = "kFailed" /\ results = <<>>
    \/ compilation = "kSuccess" /\ Contract!Answerable

THEOREM AnswersExplained == Spec => []AnswerExplained
<1> DEFINE Before == compilation = "kUnknown" => results = <<>>
<1>1. Contract!Init => AnswerExplained /\ Before
  BY DEF Contract!Init, AnswerExplained
<1>2. AnswerExplained /\ Before /\ [Contract!Next]_(Contract!vars)
        => AnswerExplained' /\ Before'
  <2> SUFFICES ASSUME AnswerExplained, Before, [Contract!Next]_(Contract!vars)
               PROVE  AnswerExplained' /\ Before'
    OBVIOUS
  <2> USE DEF Contract!parameters, AnswerExplained
  <2>1. CASE UNCHANGED Contract!vars
    BY <2>1 DEF Contract!vars, Contract!Answerable, Contract!Inputs
  <2>2. CASE Contract!Fail \/ Contract!RejectCode \/ Contract!AcceptCode
    BY <2>2 DEF Contract!Fail, Contract!RejectCode, Contract!AcceptCode
  <2>3. CASE \E i \in Contract!Inputs : Contract!RecordResult(i)
    BY <2>3 DEF Contract!RecordResult
  <2>4. CASE Contract!Answer
    <3>1. Contract!Answerable' <=> Contract!Answerable
      BY <2>4 DEF Contract!Answer, Contract!Answerable, Contract!Inputs
    <3> QED
      BY <2>4, <3>1 DEF Contract!Answer
  <2> QED
    BY <2>1, <2>2, <2>3, <2>4 DEF Contract!Next
<1> QED
  BY <1>1, <1>2, Refines, PTL DEF ImplementsContract, Contract!Spec

-----------------------------------------------------------------------------
(* Results in their own slots.                                             *)

\* A report that a worker holds was made for the input it runs.
ReportsBelong ==
  \A w \in Workers : phase[w] = "commit" => got[w] \subseteq Reports[func[w]]

LEMMA BelongKept ==
  Inv /\ ResultsBelongToInputs /\ ReportsBelong /\ [Next]_vars
    => ResultsBelongToInputs' /\ ReportsBelong'
<1> SUFFICES ASSUME Inv, ResultsBelongToInputs, ReportsBelong, [Next]_vars
             PROVE  ResultsBelongToInputs' /\ ReportsBelong'
  OBVIOUS
<1>1. ASSUME UNCHANGED <<results, numExpected>> PROVE ResultsBelongToInputs'
  BY <1>1 DEF ResultsBelongToInputs, Checked, CheckingOutputs
<1>2. ASSUME UNCHANGED <<phase, got, func>> PROVE ReportsBelong'
  BY <1>2 DEF ReportsBelong
<1>3. /\ phase \in [Workers -> {"idle", "check", "run", "pause", "commit"}]
      /\ got \in [Workers -> SUBSET Report]
      /\ func \in [Workers -> 0..MaxInputs]
  BY PoolFacts DEF Inv, TypeOK
<1>4. CASE RejectArguments \/ MakeTempPath \/ CompileError \/ CompileThrows
             \/ CompileFailed \/ ReturnResults \/ Finished \/ UNCHANGED vars
  BY <1>1, <1>2, <1>4 DEF RejectArguments, MakeTempPath, CompileError,
     CompileThrows, CompileFailed, ReturnResults, Finished, vars, poolVars, options, sharedVars,
     taskVars
<1>5. CASE Compiled
  <2>1. ResultsBelongToInputs'
    BY <1>5 DEF Compiled, ResultsBelongToInputs
  <2> QED
    BY <1>2, <1>5, <2>1 DEF Compiled, poolVars, taskVars
<1>6. CASE OwnPool
  BY <1>1, <1>2, <1>6, OwnerFrame DEF OwnPool, Inv, options, sharedVars, taskVars
<1>7. ASSUME NEW w \in Workers, BeginTask(w)
      PROVE  ResultsBelongToInputs' /\ ReportsBelong'
  <2>1. ReportsBelong'
    BY <1>3, <1>7, TakeFrame DEF BeginTask, ReportsBelong, Inv
  <2> QED
    BY <1>1, <1>7, <2>1 DEF BeginTask, options, sharedVars
<1>8. ASSUME NEW w \in Workers, EndThread(w)
      PROVE  ResultsBelongToInputs' /\ ReportsBelong'
  <2>1. phase[w] = "idle"
    BY <1>8 DEF EndThread, Pool!TakeShutdown, Pool!Pop, Inv, WorkersInLambda
  <2>2. ReportsBelong'
    BY <1>3, <1>8, <2>1 DEF EndThread, Pool!TakeShutdown, Pool!Pop,
       ReportsBelong, taskVars
  <2> QED
    BY <1>1, <1>8, <2>2 DEF EndThread, options, sharedVars
<1>9. ASSUME NEW w \in Workers,
             PassCheck(w) \/ RunReports(w) \/ RunFails(w) \/ Resume(w)
      PROVE  ResultsBelongToInputs' /\ ReportsBelong'
  <2>1. UNCHANGED <<poolVars, options, sharedVars>>
    BY <1>9 DEF PassCheck, RunReports, RunFails, Resume
  <2>2. got[w] = {} /\ phase[w] # "commit"
    BY <1>9 DEF PassCheck, RunReports, RunFails, Resume, Inv, TriesCounted, NotOk
  <2>3. \A v \in Workers : v # w => phase'[v] = phase[v] /\ got'[v] = got[v]
    BY <1>3, <1>9 DEF PassCheck, RunReports, RunFails, Resume
  <2>4. got'[w] \subseteq Reports[func[w]]
    BY <1>3, <1>9, <2>2 DEF PassCheck, RunReports, RunFails, Resume, NotOk
  <2>5. ReportsBelong'
    BY <2>1, <2>3, <2>4 DEF ReportsBelong, poolVars
  <2> QED
    BY <1>1, <2>1, <2>5 DEF options, sharedVars
<1>10. ASSUME NEW w \in Workers, RunThrows(w)
       PROVE  ResultsBelongToInputs' /\ ReportsBelong'
  BY <1>1, <1>2, <1>10 DEF RunThrows, Pool!Throw, options, sharedVars, taskVars
<1>11. ASSUME NEW w \in Workers, Cancel(w) \/ CommitError(w) \/ CommitResult(w)
       PROVE  ResultsBelongToInputs' /\ ReportsBelong'
  <2>1. /\ func' = [func EXCEPT ![w] = 0]
        /\ phase' = [phase EXCEPT ![w] = "idle"]
        /\ got' = [got EXCEPT ![w] = NotOk]
        /\ numExpected' = numExpected
    BY <1>11, ReturnFrame DEF Cancel, CommitError, CommitResult, Inv, options
  <2>2. ReportsBelong'
    BY <1>3, <2>1 DEF ReportsBelong
  <2>3. CASE Cancel(w) \/ CommitError(w)
    BY <1>1, <2>1, <2>2, <2>3 DEF Cancel, CommitError, sharedVars
  <2>4. CASE CommitResult(w)
    <3>1. phase[w] = "commit" /\ results \in [Inputs -> ExecutionResult]
      BY <2>4, InLambda DEF CommitResult
    <3>2. PICK r \in Reports[func[w]] :
            results' = [results EXCEPT ![func[w]] = Checked(r)]
      BY <2>4, <3>1 DEF CommitResult, ReportsBelong
    <3>3. \A q : Checked(q)' = Checked(q)
      BY <2>1 DEF Checked, CheckingOutputs
    <3>4. ResultsBelongToInputs'
      BY <3>1, <3>2, <3>3 DEF ResultsBelongToInputs
    <3> QED
      BY <2>2, <3>4
  <2> QED
    BY <1>11, <2>3, <2>4
<1> QED
  BY <1>4, <1>5, <1>6, <1>7, <1>8, <1>9, <1>10,
     <1>11 DEF Next, CallerStep, WorkerStep

\* tester_sandboxer.cc:381 and 411: the lambda's own copy of i selects both the
\* input that is run and the slot that is written.
THEOREM ResultsBelong == Spec => []ResultsBelongToInputs
<1>1. Init => ResultsBelongToInputs /\ ReportsBelong
  BY DEF Init, ResultsBelongToInputs, ReportsBelong
<1> QED
  BY <1>1, BelongKept, InvHolds, PTL DEF Spec

\* run_sample_eval.cc:158-181: what ReportResults may count on.  An OK answer to a
\* call that stops at the first failure says which tests ran and which of them
\* the code passes; if not all of them ran, then one that did has failed.  It is
\* one of the answers that SampleEval takes.
AnswerOfTests ==
  ret = "OK" /\ stopOnFirst /\ numThreads > 0 =>
    \/ compilation = "kFailed" /\ results = <<>>
    \/ /\ compilation = "kSuccess" /\ DOMAIN results = Inputs
       /\ \E ran, truth \in SUBSET Inputs :
            /\ \A i \in Inputs :
                 results[i].passed = CASE i \in ran \cap truth -> {TRUE}
                                       [] i \in ran \ truth    -> {FALSE}
                                       [] i \notin ran         -> {}
            /\ ran # Inputs => ran \ truth # {}

THEOREM AnswersCanBeCounted == Spec => []AnswerOfTests
<1>1. Inv /\ AnswerExplained /\ ResultsBelongToInputs => AnswerOfTests
  <2> SUFFICES ASSUME Inv, AnswerExplained, ResultsBelongToInputs,
                      ret = "OK", stopOnFirst, numThreads > 0,
                      compilation = "kSuccess"
               PROVE  AnswerOfTests
    BY DEF AnswerOfTests, AnswerExplained
  <2>1. results \in [Inputs -> ExecutionResult] /\ ArgumentsValid
    BY DEF Inv, CallerInOrder, OptionsValid
  <2>2. CheckingOutputs
    BY <2>1 DEF ArgumentsValid
  <2>3. ASSUME NEW i \in Inputs, results[i] # NotRun
        PROVE  results[i].passed \in {{TRUE}, {FALSE}}
    <3>1. PICK r \in Reports[i] : results[i] = Checked(r)
      BY <2>1, <2>3 DEF ResultsBelongToInputs
    <3>2. i \in 1..MaxInputs
      <4>1. numTasks \in 0..MaxInputs /\ MaxInputs \in Nat
        BY CallAssumption DEF Inv, Pool!Inv, Pool!TypeOK
      <4> QED
        BY <4>1 DEF Inputs
    <3>3. r \in Report
      BY <3>1, <3>2, CallAssumption
    <3> QED
      BY <2>2, <3>1, <3>3
         DEF Checked, ExecutionResultFromTestSandboxResult, Report
  <2> DEFINE ran == {i \in Inputs : results[i] # NotRun}
             truth == {i \in Inputs : results[i].passed = {TRUE}}
  <2>4. ASSUME NEW i \in Inputs
        PROVE  results[i].passed = CASE i \in ran \cap truth -> {TRUE}
                                     [] i \in ran \ truth    -> {FALSE}
                                     [] i \notin ran         -> {}
    <3>1. CASE i \in ran
      <4>1. results[i].passed \in {{TRUE}, {FALSE}}
        BY <2>3, <3>1
      <4> QED
        BY <3>1, <4>1
    <3>2. CASE i \notin ran
      <4>1. results[i].passed = {}
        BY <3>2 DEF NotRun, nullopt
      <4> QED
        BY <3>2, <4>1
    <3> QED
      BY <3>1, <3>2
  <2>5. ran # Inputs => ran \ truth # {}
    <3> SUFFICES ASSUME NEW i \in Inputs, results[i] = NotRun
                 PROVE  ran \ truth # {}
      OBVIOUS
    <3>1. Contract!Answerable /\ Contract!Inputs = Inputs /\ numThreads # 0
      BY PoolFacts DEF AnswerExplained, Contract!Inputs, Inputs, Inv
    <3>2. PICK j \in Inputs : results[j].passed = {FALSE}
      BY <3>1, SameNotRun DEF Contract!Answerable
    <3>3. results[j] # NotRun
      <4>1. NotRun.passed = {}
        BY DEF NotRun, nullopt
      <4> QED
        BY <3>2, <4>1
    <3>4. j \in ran /\ j \notin truth
      BY <3>2, <3>3
    <3> QED
      BY <3>4
  <2>6. DOMAIN results = Inputs
    BY <2>1
  <2> HIDE DEF ran, truth
  <2>7. ran \in SUBSET Inputs /\ truth \in SUBSET Inputs
    BY DEF ran, truth
  <2> QED
    BY <2>4, <2>5, <2>6, <2>7 DEF AnswerOfTests
<1> QED
  BY <1>1, InvHolds, AnswersExplained, ResultsBelong, PTL

-----------------------------------------------------------------------------
(* The failures after the first.                                           *)

\* The workers that may still store a result after should_stop is set.
InFlight ==
  {w \in Workers : phase[w] = "run" \/ (phase[w] = "commit" /\ got[w] # NotOk)}

\* Every failure that was stored was in flight when should_stop was set.
FailuresCounted ==
  stopOnFirst /\ shouldStop =>
    Cardinality(FailedInputs) + Cardinality(InFlight) <= numThreads

\* The counts are of finite sets, and only threads of the pool are in flight.
Counts ==
  /\ IsFiniteSet(FailedInputs) /\ IsFiniteSet(InFlight)
  /\ Cardinality(FailedInputs) \in Nat /\ Cardinality(InFlight) \in Nat
  /\ Cardinality(InFlight) <= numThreads
  /\ numThreads \in Nat

LEMMA CountsHold == Inv => Counts
<1> SUFFICES ASSUME Inv PROVE Counts
  OBVIOUS
<1>1. numTasks \in Nat /\ numThreads \in Nat /\ threads \in 0..numThreads
  BY CallAssumption DEF Inv, Pool!Inv, Pool!TypeOK
<1>2. FailedInputs \subseteq 1..numTasks
  <2>1. DOMAIN results = Inputs \/ results = <<>>
    BY DEF Inv, TypeOK
  <2>2. DOMAIN results \subseteq Inputs
    BY <2>1
  <2> QED
    BY <2>2 DEF FailedInputs, Inputs
<1>3. InFlight \subseteq 1..threads
  BY DEF Inv, WorkersInLambda, InFlight, Pool!Inv, Pool!ThreadsAccounted,
         Pool!Workers, Workers, Pool!TypeOK
<1>4. IsFiniteSet(1..numTasks) /\ IsFiniteSet(1..threads)
      /\ Cardinality(1..threads) = threads
  BY <1>1, FS_Interval
<1>5. IsFiniteSet(FailedInputs) /\ IsFiniteSet(InFlight)
      /\ Cardinality(InFlight) <= threads
  BY <1>2, <1>3, <1>4, FS_Subset
<1>6. Cardinality(FailedInputs) \in Nat /\ Cardinality(InFlight) \in Nat
  BY <1>5, FS_CardinalityType
<1> QED
  BY <1>1, <1>5, <1>6 DEF Counts

\* A step that stores no result and lets no worker pass the check.
LEMMA CountKept ==
  ASSUME Counts, Counts', FailuresCounted, InFlight' \subseteq InFlight,
         UNCHANGED <<results, stopOnFirst, shouldStop, numThreads>>
  PROVE  FailuresCounted'
<1>1. Cardinality(InFlight') <= Cardinality(InFlight)
  BY FS_Subset DEF Counts
<1>2. FailedInputs' = FailedInputs
  BY DEF FailedInputs
<1> QED
  BY <1>1, <1>2 DEF FailuresCounted, Counts

LEMMA CommitCounted ==
  ASSUME Inv, Counts, Counts', FailuresCounted, NEW w \in Workers,
         CommitResult(w)
  PROVE  FailuresCounted'
<1> SUFFICES ASSUME stopOnFirst', shouldStop'
             PROVE  Cardinality(FailedInputs') + Cardinality(InFlight')
                      <= numThreads'
  BY DEF FailuresCounted
<1>1. /\ phase[w] = "commit" /\ func[w] \in Inputs
      /\ results \in [Inputs -> ExecutionResult]
  BY InLambda DEF CommitResult
<1>2. /\ phase' = [phase EXCEPT ![w] = "idle"]
      /\ got' = [got EXCEPT ![w] = NotOk]
      /\ numThreads' = numThreads /\ stopOnFirst' = stopOnFirst
  BY ReturnFrame DEF CommitResult, Inv, options
<1>3. w \in InFlight
  BY <1>1 DEF CommitResult, InFlight, NotOk
<1>4. InFlight' = InFlight \ {w}
  BY <1>2 DEF InFlight, Inv, TypeOK
<1>5. Cardinality(InFlight') = Cardinality(InFlight) - 1
  BY <1>3, <1>4, FS_RemoveElement DEF Counts
<1>6. FailedInputs' \subseteq FailedInputs \cup {func[w]}
  BY <1>1 DEF CommitResult, FailedInputs
<1>7. Cardinality(FailedInputs') <= Cardinality(FailedInputs) + 1
  <2>1. /\ IsFiniteSet(FailedInputs \cup {func[w]})
        /\ Cardinality(FailedInputs \cup {func[w]})
             <= Cardinality(FailedInputs) + 1
    <3>1. IsFiniteSet(FailedInputs) /\ Cardinality(FailedInputs) \in Nat
      BY DEF Counts
    <3>2. /\ IsFiniteSet(FailedInputs \cup {func[w]})
          /\ Cardinality(FailedInputs \cup {func[w]}) =
               IF func[w] \in FailedInputs THEN Cardinality(FailedInputs)
                                           ELSE Cardinality(FailedInputs) + 1
      BY <3>1, FS_AddElement
    <3> QED
      BY <3>1, <3>2
  <2>2. /\ Cardinality(FailedInputs')
             <= Cardinality(FailedInputs \cup {func[w]})
        /\ Cardinality(FailedInputs \cup {func[w]}) \in Nat
    BY <1>6, <2>1, FS_Subset, FS_CardinalityType
  <2> QED
    BY <2>1, <2>2 DEF Counts
<1>8. /\ Cardinality(FailedInputs') \in Nat /\ Cardinality(InFlight') \in Nat
      /\ Cardinality(FailedInputs) \in Nat /\ Cardinality(InFlight) \in Nat
      /\ Cardinality(InFlight) <= numThreads /\ numThreads \in Nat
  BY DEF Counts
<1>9. CASE shouldStop
  BY <1>2, <1>5, <1>7, <1>8, <1>9 DEF FailuresCounted
<1>10. CASE ~shouldStop
  <2>1. FailedInputs = {}
    BY <1>2, <1>10 DEF Inv, CauseKept
  <2>2. Cardinality(FailedInputs) = 0
    BY <2>1, FS_EmptySet
  <2> QED
    BY <1>2, <1>5, <1>7, <1>8, <2>2
<1> QED
  BY <1>9, <1>10 DEF Inv, TypeOK

LEMMA FailuresCountedKept ==
  Inv /\ Counts /\ Counts' /\ FailuresCounted /\ [Next]_vars
    => FailuresCounted'
<1> SUFFICES ASSUME Inv, Counts, Counts', FailuresCounted, [Next]_vars
             PROVE  FailuresCounted'
  OBVIOUS
<1>1. /\ phase \in [Workers -> {"idle", "check", "run", "pause", "commit"}]
      /\ got \in [Workers -> SUBSET Report]
  BY DEF Inv, TypeOK
<1>2. CASE RejectArguments \/ MakeTempPath \/ CompileError \/ CompileThrows
             \/ CompileFailed \/ ReturnResults \/ Finished \/ UNCHANGED vars
  BY <1>2, CountKept DEF RejectArguments, MakeTempPath, CompileError,
     CompileThrows, CompileFailed, ReturnResults, Finished, vars, poolVars, options, sharedVars,
     taskVars, InFlight
<1>3. CASE Compiled
  <2>1. ~shouldStop'
    <3>1. compilation # "kSuccess" /\ shouldStop' = shouldStop
          /\ stopOnFirst' = stopOnFirst /\ done = {} /\ results = <<>>
      BY <1>3, PoolFacts DEF Compiled, Inv, CallerInOrder, options
    <3>2. FailedInputs = {} /\ overall # Error
      BY <3>1 DEF FailedInputs, Inv, CauseKept
    <3> QED
      BY <3>1, <3>2 DEF Inv, CauseKept
  <2> QED
    BY <2>1 DEF FailuresCounted
<1>4. CASE OwnPool
  BY <1>4, CountKept, OwnerFrame DEF OwnPool, Inv, options, sharedVars, taskVars,
     InFlight
<1>5. ASSUME NEW w \in Workers, BeginTask(w) PROVE FailuresCounted'
  <2>1. InFlight' \subseteq InFlight
    BY <1>1, <1>5 DEF BeginTask, InFlight
  <2> QED
    BY <1>5, <2>1, CountKept, TakeFrame DEF BeginTask, Inv, options, sharedVars
<1>6. ASSUME NEW w \in Workers, EndThread(w) PROVE FailuresCounted'
  BY <1>6, CountKept DEF EndThread, Pool!TakeShutdown, options, sharedVars,
     taskVars, InFlight
<1>7. ASSUME NEW w \in Workers, PassCheck(w) PROVE FailuresCounted'
  BY <1>7 DEF PassCheck, sharedVars, FailuresCounted
<1>8. ASSUME NEW w \in Workers, RunReports(w) \/ RunFails(w) \/ Resume(w)
      PROVE  FailuresCounted'
  <2>1. InFlight' \subseteq InFlight
    <3>1. phase[w] # "commit" => got[w] = NotOk
      BY DEF Inv, TriesCounted
    <3> QED
      BY <1>1, <1>8, <3>1 DEF RunReports, RunFails, Resume, InFlight
  <2> QED
    BY <1>8, <2>1, CountKept DEF RunReports, RunFails, Resume, poolVars, options,
       sharedVars
<1>9. ASSUME NEW w \in Workers, Cancel(w) PROVE FailuresCounted'
  <2>1. InFlight' \subseteq InFlight
    BY <1>1, <1>9 DEF Cancel, LeaveTask, InFlight
  <2> QED
    BY <1>9, <2>1, CountKept, ReturnFrame DEF Cancel, Inv, options, sharedVars
<1>10. ASSUME NEW w \in Workers, CommitError(w) PROVE FailuresCounted'
  <2>1. InFlight' \subseteq InFlight
    BY <1>1, <1>10 DEF CommitError, LeaveTask, InFlight
  <2>2. /\ results' = results /\ stopOnFirst' = stopOnFirst
        /\ numThreads' = numThreads
    BY <1>10, ReturnFrame DEF CommitError, Inv, options
  <2>3. CASE shouldStop
    BY <1>10, <2>1, <2>2, <2>3, CountKept DEF CommitError
  <2>4. CASE ~shouldStop /\ stopOnFirst
    <3>1. FailedInputs' = {}
      BY <2>2, <2>4 DEF Inv, CauseKept, FailedInputs
    <3>2. Cardinality(FailedInputs') = 0
      BY <3>1, FS_EmptySet
    <3> QED
      BY <3>2 DEF FailuresCounted, Counts
  <2> QED
    BY <2>2, <2>3, <2>4 DEF FailuresCounted, Inv, TypeOK
<1>11. ASSUME NEW w \in Workers, RunThrows(w) PROVE FailuresCounted'
  BY <1>11, CountKept DEF RunThrows, Pool!Throw, options, sharedVars, taskVars,
     InFlight
<1> QED
  BY <1>2, <1>3, <1>4, <1>5, <1>6, <1>7, <1>8, <1>9, <1>10, <1>11, CommitCounted
     DEF Next, CallerStep, WorkerStep

\* solve_example.cc:220: more than one failure may occur before all threads
\* stop, but no more than there are threads.
THEOREM FailuresAreBounded == Spec => []FailuresBounded
<1>1. Init => FailuresCounted
  BY DEF Init, FailuresCounted
<1>2. Inv /\ FailuresCounted => FailuresBounded
  <2> SUFFICES ASSUME Inv, FailuresCounted, stopOnFirst
               PROVE  Cardinality(FailedInputs) <= numThreads
    BY DEF FailuresBounded
  <2>1. CASE FailedInputs = {}
    BY <2>1, CountsHold, FS_EmptySet DEF Counts
  <2>2. CASE FailedInputs # {}
    BY <2>2, CountsHold DEF Inv, CauseKept, FailuresCounted, Counts
  <2> QED
    BY <2>1, <2>2
<1> QED
  BY <1>1, <1>2, FailuresCountedKept, CountsHold, InvHolds, PTL DEF Spec

=============================================================================
