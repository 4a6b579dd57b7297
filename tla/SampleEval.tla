----------------------------- MODULE SampleEval -----------------------------
(***************************************************************************)
(* execution/run_sample_eval.cc: for each line of a file of sampled        *)
(* solutions, every Python solution of one problem is tested, the results  *)
(* are added up, and two files are written anew: the results of all        *)
(* problems so far, and their metrics.                                     *)
(*                                                                         *)
(* A solution is the set of the tests that it would pass; the public tests *)
(* are the first ones.  Test answers what TestContract allows.             *)
(*                                                                         *)
(* A file is the set of what can be read from it that this evaluation has  *)
(* written: nothing if it is not there, was cut short, or holds what an    *)
(* earlier evaluation has left in the same directory.                      *)
(***************************************************************************)
EXTENDS Naturals, Sequences, FiniteSetsExt

CONSTANTS
  MaxProblems,   \* bound on the lines of the sample file
  MaxSolutions,  \* bound on the solutions in a line
  MaxTests,      \* bound on the tests of a problem
  SampleSize,    \* the size of the sample of calculate_metrics; 10 in the code
  Ks             \* the k of the estimates of pass@k; 1, 10 and 100 in the code

ASSUME EvalAssumption ==
  MaxProblems \in Nat /\ MaxSolutions \in Nat /\ MaxTests \in Nat
  /\ SampleSize \in Nat \ {0}
  /\ Ks \subseteq Nat \ {0}

VARIABLES
  pc,              \* where main is
  line,            \* lines read
  numSolutions,    \* solutions in this line
  numTests,        \* inputs.size()
  numPublic,       \* num_public_tests
  solution,        \* solutions of this line dealt with
  compiled,        \* did the last solution compile?
  truth,           \* history: the tests that the last solution would pass
  ran,             \* the tests whose results have a value
  testResults,     \* single_problem_results["test_results"]
  results,         \* results
  passedProblems,  \* number_passed_problems
  tenProblems,     \* number_passed_ten_at_k_problems
  evaluated,       \* number_evaluated_problems
  resultsFile,     \* problems in test_results.json
  metricsFile,     \* test_metrics.json
  opened           \* could the last OutputFile1 open test_results.json?

problemVars == <<numSolutions, numTests, numPublic>>
solutionVars == <<solution, compiled, truth, ran, testResults>>
totals == <<results, passedProblems, tenProblems, evaluated>>
files == <<resultsFile, metricsFile, opened>>

vars == <<pc, line, problemVars, solutionVars, totals, files>>

Tests == 1..numTests
PublicTests == 1..numPublic

\* Solutions counted from 1.
TestResult ==
  [compilation : {"success", "fail"},
   passed_all_tests : BOOLEAN,
   passed_public_tests : BOOLEAN]

ProblemResult ==
  [sample_size : 1..MaxSolutions,
   number_passes : 0..MaxSolutions,
   pass_at_k_passed : BOOLEAN,
   ten_at_k_passed : BOOLEAN]

\* Fault: the product begins one factor too late.
CodexFromNext(n, c, k) ==
  IF n - c < k
    THEN [num |-> 1, den |-> 1]
    ELSE LET Prod[i \in Nat] ==
               IF i <= n - c + 1
                 THEN [num |-> 1, den |-> 1]
                 ELSE [num |-> Prod[i - 1].num * (i - k), den |-> Prod[i - 1].den * i]
         IN  [num |-> Prod[n].den - Prod[n].num, den |-> Prod[n].den]

\* codex_pass_at_1, codex_pass_at_10 and codex_pass_at_100: 1 minus the product of
\* 1 - k / i for i from n - c + 1 to n.  The fractions are exact, the doubles of
\* the code are near them.
CodexPassAtK(n, c, k) ==
  IF n - c < k
    THEN [num |-> 1, den |-> 1]
    ELSE LET Prod[i \in Nat] ==
               IF i <= n - c
                 THEN [num |-> 1, den |-> 1]
                 ELSE [num |-> Prod[i - 1].num * (i - k), den |-> Prod[i - 1].den * i]
         IN  [num |-> Prod[n].den - Prod[n].num, den |-> Prod[n].den]

Estimates == {CodexPassAtK(n, c, k) : n, c \in 0..MaxProblems, k \in Ks}

\* The numerators of pass_at_k and ten_at_k, whose denominator is k.
Metrics ==
  [k : 0..MaxProblems, c : 0..MaxProblems, c_cluster : 0..MaxProblems,
   pass_at_k : 0..MaxProblems, ten_at_k : 0..MaxProblems,
   codex : [Ks -> Estimates]]

TypeOK ==
  /\ pc \in {"read", "solve", "test", "open results", "write results",
             "open metrics", "write metrics", "finished", "stopped"}
  /\ line \in 0..MaxProblems
  /\ numSolutions \in 0..MaxSolutions
  /\ numTests \in 0..MaxTests
  /\ numPublic \in 0..numTests
  /\ solution \in 0..numSolutions
  /\ compiled \in BOOLEAN
  /\ truth \subseteq Tests
  /\ ran \subseteq Tests
  /\ testResults \in Seq(TestResult)
  /\ results \in Seq(ProblemResult)
  /\ passedProblems \in 0..evaluated
  /\ tenProblems \in 0..passedProblems
  /\ evaluated \in 0..line
  /\ resultsFile \in SUBSET (0..MaxProblems)
  /\ metricsFile \in SUBSET Metrics
  /\ opened \in BOOLEAN

Init ==
  /\ pc = "read"
  /\ line = 0
  /\ numSolutions = 0 /\ numTests = 0 /\ numPublic = 0
  /\ solution = 0
  /\ compiled = FALSE
  /\ truth = {} /\ ran = {}
  /\ testResults = <<>>
  /\ results = <<>>
  /\ passedProblems = 0 /\ tenProblems = 0 /\ evaluated = 0
  /\ resultsFile = {} /\ metricsFile = {}
  /\ opened = TRUE

-----------------------------------------------------------------------------
(* SolveProblem.                                                           *)

\* main reads a line.
ReadLine ==
  /\ pc = "read"
  /\ line < MaxProblems
  /\ line' = line + 1
  /\ pc' = "solve"
  /\ UNCHANGED <<problemVars, solutionVars, totals, files>>

\* The file has no more lines.
EndOfFile ==
  /\ pc = "read"
  /\ pc' = "finished"
  /\ UNCHANGED <<line, problemVars, solutionVars, totals, files>>

\* FindProblem does not find the problem in the data set.
ProblemNotFound ==
  /\ pc = "solve"
  /\ pc' = "open results"
  /\ UNCHANGED <<line, problemVars, solutionVars, totals, files>>

\* GetInputs and GetOutputs, and the loop over the solutions begins.
BeginProblem ==
  /\ pc = "solve"
  /\ numSolutions' \in 0..MaxSolutions
  /\ numTests' \in 0..MaxTests
  /\ numPublic' \in 0..numTests'
  /\ solution' = 0
  /\ compiled' = FALSE
  /\ truth' = {} /\ ran' = {}
  /\ testResults' = <<>>
  /\ pc' = "test"
  /\ UNCHANGED <<line, totals, files>>

\* A solution in another language.
SkipSolution ==
  /\ pc = "test"
  /\ solution < numSolutions
  /\ solution' = solution + 1
  /\ UNCHANGED <<pc, line, problemVars, compiled, truth, ran, testResults,
                 totals, files>>

\* Test returns a status: SolveProblem returns it, and what it has found out
\* about the problem is gone.
TestFails ==
  /\ pc = "test"
  /\ solution < numSolutions
  /\ pc' = "open results"
  /\ UNCHANGED <<line, problemVars, solutionVars, totals, files>>

\* ReportResults: the counts for the answer of Test.
cnt_passed_tests == Cardinality(ran \cap truth)
cnt_failed_tests == Cardinality(ran \ truth)
cnt_crashed_tests == IF compiled THEN Cardinality(Tests \ ran) ELSE 0
cnt_passed_public_tests == Cardinality(ran \cap truth \cap PublicTests)
cnt_ran_tests == cnt_passed_tests + cnt_failed_tests + cnt_crashed_tests

\* Fault: nothing has failed.
NothingFailed == cnt_failed_tests = 0

PassedAllTests == cnt_passed_tests = cnt_ran_tests /\ cnt_ran_tests # 0

PassedPublicTests == cnt_passed_public_tests = numPublic /\ numPublic # 0

\* The results of the last solution as Test gives them.  program_status is not
\* looked at, so those that have a value may as well have the same.
result_output ==
  [i \in Tests |->
     [program_status |-> IF i \in ran THEN "kFailed" ELSE "kUnknown",
      passed |-> CASE i \in ran \cap truth -> {TRUE}
                   [] i \in ran \ truth    -> {FALSE}
                   [] i \notin ran         -> {}]]

\* The options of main, under which Test stops at the first failure.
num_threads == 4

Test == INSTANCE TestContract WITH
  numTasks <- numTests, numThreads <- num_threads, stopOnFirst <- TRUE,
  compilation <- IF compiled THEN "kSuccess" ELSE "kFailed",
  results <- result_output, ret <- "OK"

\* Test answers.  A problem without a test is rejected by Test, because
\* stop_on_first_failure needs expected outputs.
TestSolution ==
  /\ pc = "test"
  /\ solution < numSolutions
  /\ numTests > 0
  /\ solution' = solution + 1
  /\ compiled' \in BOOLEAN
  /\ truth' \in SUBSET Tests
  /\ ran' \in IF compiled' THEN SUBSET Tests ELSE {{}}
  /\ UNCHANGED <<pc, line, problemVars, totals, files>>
  /\ compiled' => Test!Answerable'
  /\ testResults' =
       Append(testResults,
              [compilation |-> IF cnt_ran_tests' = 0 THEN "fail" ELSE "success",
               passed_all_tests |-> PassedAllTests',
               passed_public_tests |-> PassedPublicTests'])

-----------------------------------------------------------------------------
(* calculate_metrics.                                                      *)

Passing == {i \in DOMAIN testResults : testResults[i].passed_all_tests}
idx_passed_public_tests ==
  {i \in DOMAIN testResults : testResults[i].passed_public_tests}

\* std::sample: all of them, if they are too few.
Samples ==
  {S \in SUBSET idx_passed_public_tests :
     \/ Cardinality(S) = SampleSize
     \/ S = idx_passed_public_tests /\ Cardinality(S) < SampleSize}

\* 10@k: every solution of the sample passes all tests.
TenAtKPassed(sample) == sample # {} /\ sample \subseteq Passing

\* Fault: the result is not pushed.
CountProblemOnly ==
  /\ pc = "test"
  /\ solution = numSolutions
  /\ passedProblems' = passedProblems + (IF Passing # {} THEN 1 ELSE 0)
  /\ evaluated' = evaluated + (IF testResults # <<>> THEN 1 ELSE 0)
  /\ pc' = "open results"
  /\ UNCHANGED <<line, problemVars, solutionVars, results, tenProblems, files>>

\* Fault: every passing solution counts.
CountSolutions ==
  /\ pc = "test"
  /\ solution = numSolutions
  /\ passedProblems' = passedProblems + Cardinality(Passing)
  /\ evaluated' = evaluated + (IF testResults # <<>> THEN 1 ELSE 0)
  /\ pc' = "open results"
  /\ UNCHANGED <<line, problemVars, solutionVars, results, tenProblems, files>>

\* The end of SolveProblem.  A problem none of whose solutions is in Python is
\* left out.
CalculateMetrics ==
  /\ pc = "test"
  /\ solution = numSolutions
  /\ \E sample \in Samples :
       /\ passedProblems' = passedProblems + (IF Passing # {} THEN 1 ELSE 0)
       /\ tenProblems' = tenProblems + (IF TenAtKPassed(sample) THEN 1 ELSE 0)
       /\ IF testResults = <<>>
            THEN UNCHANGED <<results, evaluated>>
            ELSE /\ results' =
                      Append(results,
                             [sample_size |-> Len(testResults),
                              number_passes |-> Cardinality(Passing),
                              pass_at_k_passed |-> Passing # {},
                              ten_at_k_passed |-> TenAtKPassed(sample)])
                 /\ evaluated' = evaluated + 1
  /\ pc' = "open results"
  /\ UNCHANGED <<line, problemVars, solutionVars, files>>

-----------------------------------------------------------------------------
(* main: the files.  Nothing asks the streams whether they have failed.    *)

\* Opening the file for writing cuts it short.
OpenResults ==
  /\ pc = "open results"
  /\ resultsFile' = {}
  /\ opened' = TRUE
  /\ pc' = "write results"
  /\ UNCHANGED <<line, problemVars, solutionVars, totals, metricsFile>>

\* The file stays as it was, and what is written to the stream goes nowhere.
OpenResultsFails ==
  /\ pc = "open results"
  /\ opened' = FALSE
  /\ pc' = "open metrics"
  /\ UNCHANGED <<line, problemVars, solutionVars, totals, resultsFile,
                 metricsFile>>

\* Fault: only the results of this problem are written.
WriteThisProblem ==
  /\ pc = "write results"
  /\ resultsFile' = {1}
  /\ pc' = "open metrics"
  /\ UNCHANGED <<line, problemVars, solutionVars, totals, metricsFile, opened>>

\* results only grows, so its length says what is in the file.  A write that
\* fails leaves the file cut short.
WriteResults ==
  /\ pc = "write results"
  /\ resultsFile' \in {{Len(results)}, {}}
  /\ pc' = "open metrics"
  /\ UNCHANGED <<line, problemVars, solutionVars, totals, metricsFile, opened>>

OpenMetrics ==
  /\ pc = "open metrics"
  /\ metricsFile' = {}
  /\ pc' = "write metrics"
  /\ UNCHANGED <<line, problemVars, solutionVars, totals, resultsFile, opened>>

OpenMetricsFails ==
  /\ pc = "open metrics"
  /\ pc' = "read"
  /\ UNCHANGED <<line, problemVars, solutionVars, totals, files>>

\* result_metrics; its "ten_at_k" is pass_at_k.
result_metrics ==
  [k |-> evaluated, c |-> passedProblems, c_cluster |-> tenProblems,
   pass_at_k |-> passedProblems, ten_at_k |-> passedProblems,
   codex |-> [k \in Ks |-> CodexPassAtK(evaluated, passedProblems, k)]]

WriteMetrics ==
  /\ pc = "write metrics"
  /\ metricsFile' \in {{result_metrics}, {}}
  /\ pc' = "read"
  /\ UNCHANGED <<line, problemVars, solutionVars, totals, resultsFile, opened>>

Over == pc \in {"finished", "stopped"}

\* The process is killed, or aborts inside Test.
Stop ==
  /\ ~Over
  /\ pc' = "stopped"
  /\ UNCHANGED <<line, problemVars, solutionVars, totals, files>>

Next ==
  \/ ReadLine \/ EndOfFile
  \/ ProblemNotFound \/ BeginProblem
  \/ SkipSolution \/ TestFails \/ TestSolution \/ CalculateMetrics
  \/ OpenResults \/ OpenResultsFails \/ WriteResults
  \/ OpenMetrics \/ OpenMetricsFails \/ WriteMetrics
  \/ Stop
  \/ Over /\ UNCHANGED vars

Spec == Init /\ [][Next]_vars

-----------------------------------------------------------------------------
(* Properties.                                                             *)

\* The problems among the first n results that are passed.
PassedUpTo(n) == Cardinality({i \in 1..n : results[i].pass_at_k_passed})
TenUpTo(n) == Cardinality({i \in 1..n : results[i].ten_at_k_passed})

\* The counters of calculate_metrics, which are changed before it is known
\* whether the problem is left out, agree with the results that are kept; and
\* 10@k is never better than pass@k.
CountersMatchResults ==
  /\ evaluated = Len(results)
  /\ passedProblems = PassedUpTo(evaluated)
  /\ tenProblems = TenUpTo(evaluated)
  /\ tenProblems <= passedProblems

\* What is recorded of a solution, from counts of results some of which may be
\* missing, is true: passed_all_tests says exactly whether it passes all tests,
\* although Test stops at the first failure; passed_public_tests is never wrong
\* when it is true; and "fail" is recorded just for a solution that did not
\* compile.
RecordTruthful ==
  testResults # <<>> =>
    LET record == testResults[Len(testResults)]
    IN  /\ record.passed_all_tests <=> compiled /\ truth = Tests
        /\ record.passed_public_tests => compiled /\ PublicTests \subseteq truth
        /\ record.compilation = "success" <=> compiled

\* Wherever the process stops and whichever streams fail, a metrics file that can
\* be read describes the first k of the results.  They are in the results file,
\* if that can be read, unless the last attempt to open it has failed: an export
\* that opens it makes good what any number of failed ones have left, before the
\* metrics are written again.
MetricsDescribeResults ==
  \A m \in metricsFile :
    /\ m.k <= Len(results)
    /\ m.c = PassedUpTo(m.k)
    /\ m.c_cluster = TenUpTo(m.k)
    /\ opened => \A r \in resultsFile : m.k <= r

\* As long as there are k problems, the estimate of pass@k in the metrics file
\* is the share of the choices of k of the evaluated problems in which at least
\* one is passed.
EstimateIsShare ==
  \A m \in metricsFile : \A k \in {k \in Ks : k <= m.k} :
    LET Draws == kSubset(k, 1..m.k)
        Successes == {S \in Draws : \E i \in S : results[i].pass_at_k_passed}
    IN  m.codex[k].num * Cardinality(Draws)
          = m.codex[k].den * Cardinality(Successes)

-----------------------------------------------------------------------------
(* The inductive invariant.                                                *)

\* A line is read before its problem is counted, and a solution is taken before
\* its result is.
CountedAfterRead ==
  /\ pc \in {"solve", "test"} => evaluated < line
  /\ Len(testResults) <= solution

\* When the metrics are written a results file that was opened has all results,
\* or is cut short.
ResultsWritten ==
  pc \in {"open metrics", "write metrics"} /\ opened =>
    resultsFile \subseteq {Len(results)}

\* The estimates in the metrics file are those of its own counts.
EstimatesOfCounts ==
  \A m \in metricsFile : m.codex = [k \in Ks |-> CodexPassAtK(m.k, m.c, k)]

\* What is counted, recorded and written agrees, at every moment.
Inv ==
  /\ TypeOK
  /\ CountedAfterRead
  /\ ResultsWritten
  /\ CountersMatchResults
  /\ RecordTruthful
  /\ MetricsDescribeResults
  /\ EstimatesOfCounts

=============================================================================
