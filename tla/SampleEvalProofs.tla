-------------------------- MODULE SampleEvalProofs --------------------------
(***************************************************************************)
(* For any number of lines, solutions and tests and any size of the        *)
(* sample: the counts of run_sample_eval agree with the results, what it   *)
(* records of a solution is true, and its metrics file describes results   *)
(* that its results file has, unless that could not be opened.             *)
(***************************************************************************)
EXTENDS SampleEval, FiniteSetTheorems, TLAPS

-----------------------------------------------------------------------------
(* Counting.                                                               *)

\* A solution's results, in counts: T are the tests, R those that were run and
\* G those that it would pass.
LEMMA CountsOfTests ==
  ASSUME NEW n \in Nat, NEW R \in SUBSET (1..n), NEW G
  PROVE  /\ Cardinality(R \cap G) \in Nat
         /\ Cardinality(R \ G) \in Nat
         /\ Cardinality((1..n) \ R) \in Nat
         /\ Cardinality(R \ G) = 0 <=> R \subseteq G
         /\ Cardinality((1..n) \ R) = 0 <=> R = 1..n
         /\ Cardinality(R \cap G) = 0 <=> R \cap G = {}
<1>1. IsFiniteSet(1..n)
  BY FS_Interval
<1>2. \A S \in SUBSET (1..n) :
        IsFiniteSet(S) /\ Cardinality(S) \in Nat
          /\ (Cardinality(S) = 0 <=> S = {})
  BY <1>1, FS_Subset, FS_CardinalityType, FS_EmptySet
<1>3. R \cap G \in SUBSET (1..n) /\ R \ G \in SUBSET (1..n)
        /\ (1..n) \ R \in SUBSET (1..n)
  OBVIOUS
<1>4. Cardinality(R \ G) \in Nat /\ (Cardinality(R \ G) = 0 <=> R \ G = {})
  BY <1>2, <1>3
<1>5. Cardinality((1..n) \ R) \in Nat
        /\ (Cardinality((1..n) \ R) = 0 <=> (1..n) \ R = {})
  BY <1>2, <1>3
<1>6. Cardinality(R \cap G) \in Nat
        /\ (Cardinality(R \cap G) = 0 <=> R \cap G = {})
  BY <1>2, <1>3
<1> QED
  BY <1>4, <1>5, <1>6

\* No more are counted than there are.
LEMMA CountAtMost ==
  ASSUME NEW n \in Nat, NEW S \in SUBSET (1..n)
  PROVE  Cardinality(S) \in 0..n
<1>1. IsFiniteSet(1..n) /\ Cardinality(1..n) = n
  BY FS_Interval
<1>2. IsFiniteSet(S) /\ Cardinality(S) <= n
  BY <1>1, FS_Subset
<1>3. Cardinality(S) \in Nat
  BY <1>2, FS_CardinalityType
<1> QED
  BY <1>2, <1>3

\* As many public tests as there are have passed: all of them have.
LEMMA AllPublicTests ==
  ASSUME NEW p \in Nat, NEW S \in SUBSET (1..p), Cardinality(S) = p
  PROVE  S = 1..p
<1>1. IsFiniteSet(1..p) /\ Cardinality(1..p) = p
  BY FS_Interval
<1> QED
  BY <1>1, FS_Subset

\* One result more adds at most its own number to a set of results.
LEMMA CountOneMore ==
  ASSUME NEW n \in Nat, NEW S \in SUBSET (1..n)
  PROVE  /\ IsFiniteSet(S)
         /\ Cardinality(S) \in Nat
         /\ Cardinality(S \cup {n + 1}) = Cardinality(S) + 1
<1>1. IsFiniteSet(1..n)
  BY FS_Interval
<1>2. IsFiniteSet(S) /\ Cardinality(S) \in Nat
  BY <1>1, FS_Subset, FS_CardinalityType
<1>3. n + 1 \notin S
  OBVIOUS
<1> QED
  BY <1>2, <1>3, FS_AddElement

\* Keeping a result leaves the counts of the earlier ones alone, and counts it
\* if it is passed.
LEMMA CountAppended ==
  ASSUME NEW r \in ProblemResult, results \in Seq(ProblemResult),
         results' = Append(results, r), NEW n \in Nat, n = Len(results)
  PROVE  /\ \A k \in 0..n :
              PassedUpTo(k)' = PassedUpTo(k) /\ TenUpTo(k)' = TenUpTo(k)
         /\ PassedUpTo(n) \in Nat /\ TenUpTo(n) \in Nat
         /\ PassedUpTo(n + 1)' =
              PassedUpTo(n) + (IF r.pass_at_k_passed THEN 1 ELSE 0)
         /\ TenUpTo(n + 1)' =
              TenUpTo(n) + (IF r.ten_at_k_passed THEN 1 ELSE 0)
<1> DEFINE P == {i \in 1..n : results[i].pass_at_k_passed}
           Q == {i \in 1..n : results[i].ten_at_k_passed}
           P1 == {i \in 1..(n + 1) : results'[i].pass_at_k_passed}
           Q1 == {i \in 1..(n + 1) : results'[i].ten_at_k_passed}
<1>1. /\ \A i \in 1..n : results'[i] = results[i]
      /\ results'[n + 1] = r
  OBVIOUS
<1>2. ASSUME NEW k \in 0..n
      PROVE  PassedUpTo(k)' = PassedUpTo(k) /\ TenUpTo(k)' = TenUpTo(k)
  <2>1. \A i \in 1..k : results'[i] = results[i]
    BY <1>1
  <2>2. {i \in 1..k : results'[i].pass_at_k_passed} =
          {i \in 1..k : results[i].pass_at_k_passed}
    BY <2>1
  <2>3. {i \in 1..k : results'[i].ten_at_k_passed} =
          {i \in 1..k : results[i].ten_at_k_passed}
    BY <2>1
  <2> QED
    BY <2>2, <2>3 DEF PassedUpTo, TenUpTo
<1>3. 1..(n + 1) = (1..n) \cup {n + 1}
  OBVIOUS
<1>4. P1 = IF r.pass_at_k_passed THEN P \cup {n + 1} ELSE P
  <2>1. \A i : i \in P1 <=> i \in P \/ (i = n + 1 /\ r.pass_at_k_passed)
    BY <1>1, <1>3
  <2> QED
    BY <2>1, Zenon
<1>5. Q1 = IF r.ten_at_k_passed THEN Q \cup {n + 1} ELSE Q
  <2>1. \A i : i \in Q1 <=> i \in Q \/ (i = n + 1 /\ r.ten_at_k_passed)
    BY <1>1, <1>3
  <2> QED
    BY <2>1, Zenon
<1>6. Cardinality(P) \in Nat /\ Cardinality(P \cup {n + 1}) = Cardinality(P) + 1
  BY CountOneMore
<1>7. Cardinality(Q) \in Nat /\ Cardinality(Q \cup {n + 1}) = Cardinality(Q) + 1
  BY CountOneMore
<1>8. /\ PassedUpTo(n) = Cardinality(P) /\ TenUpTo(n) = Cardinality(Q)
      /\ PassedUpTo(n + 1)' = Cardinality(P1)
      /\ TenUpTo(n + 1)' = Cardinality(Q1)
  BY DEF PassedUpTo, TenUpTo
<1>9. /\ Cardinality(P1) = Cardinality(P) + (IF r.pass_at_k_passed THEN 1 ELSE 0)
      /\ Cardinality(Q1) = Cardinality(Q) + (IF r.ten_at_k_passed THEN 1 ELSE 0)
  <2> HIDE DEF P, Q, P1, Q1
  <2> QED
    BY <1>4, <1>5, <1>6, <1>7
<1> QED
  BY <1>2, <1>6, <1>7, <1>8, <1>9

-----------------------------------------------------------------------------
(* The invariant.                                                          *)

LEMMA InitInv == Init => Inv
<1> SUFFICES ASSUME Init PROVE Inv
  OBVIOUS
<1> USE EvalAssumption DEF Init
<1>1. TypeOK
  <2>1. testResults \in Seq(TestResult) /\ results \in Seq(ProblemResult)
    OBVIOUS
  <2>2. line \in 0..MaxProblems /\ numSolutions \in 0..MaxSolutions
          /\ numTests \in 0..MaxTests
    OBVIOUS
  <2>3. resultsFile \in SUBSET (0..MaxProblems)
          /\ metricsFile \in SUBSET Metrics /\ opened \in BOOLEAN
    OBVIOUS
  <2>4. numPublic \in 0..numTests /\ solution \in 0..numSolutions
          /\ passedProblems \in 0..evaluated
          /\ tenProblems \in 0..passedProblems /\ evaluated \in 0..line
    OBVIOUS
  <2>5. pc = "read" /\ compiled \in BOOLEAN /\ truth \subseteq Tests
          /\ ran \subseteq Tests
    OBVIOUS
  <2> QED
    BY <2>1, <2>2, <2>3, <2>4, <2>5 DEF TypeOK
<1>2. CountersMatchResults
  <2>1. PassedUpTo(0) = Cardinality({}) /\ TenUpTo(0) = Cardinality({})
    <3>1. {i \in 1..0 : results[i].pass_at_k_passed} = {}
      OBVIOUS
    <3>2. {i \in 1..0 : results[i].ten_at_k_passed} = {}
      OBVIOUS
    <3> QED
      BY <3>1, <3>2 DEF PassedUpTo, TenUpTo
  <2> QED
    BY <2>1, FS_EmptySet DEF CountersMatchResults
<1> QED
  BY <1>1, <1>2 DEF Inv, CountedAfterRead, ResultsWritten, RecordTruthful,
     MetricsDescribeResults, EstimatesOfCounts

\* The metrics file is left alone, or cut short, in this step.
LEMMA EstimatesFrame ==
  metricsFile' \in {metricsFile, {}} /\ EstimatesOfCounts => EstimatesOfCounts'
BY DEF EstimatesOfCounts

\* Nothing is counted in this step.
LEMMA TotalsFrame ==
  UNCHANGED totals =>
    /\ CountersMatchResults <=> CountersMatchResults'
    /\ \A k : PassedUpTo(k)' = PassedUpTo(k) /\ TenUpTo(k)' = TenUpTo(k)
BY DEF totals, CountersMatchResults, PassedUpTo, TenUpTo

\* No solution is dealt with in this step.
LEMMA SolutionFrame ==
  UNCHANGED <<problemVars, compiled, truth, ran, testResults>> =>
    (RecordTruthful <=> RecordTruthful')
BY DEF problemVars, RecordTruthful, Tests, PublicTests

\* What the contract says of an answer in which tests have no result: one that
\* was run failed.
LEMMA FailureIfIncomplete ==
  ASSUME Test!Answerable', ran' \subseteq Tests'
  PROVE  ran' = Tests' \/ ran' \ truth' # {}
<1>1. num_threads' # 0 /\ Test!Inputs' = Tests'
  BY DEF Test!Inputs, Tests, num_threads
<1>2. CASE \A i \in Test!Inputs' : result_output'[i] # Test!NotRun'
  <2>1. ASSUME NEW i \in Tests', i \notin ran'
        PROVE  result_output'[i] = Test!NotRun'
    BY <2>1 DEF result_output, Test!NotRun
  <2> QED
    BY <1>1, <1>2, <2>1
<1>3. CASE \E i \in Test!Inputs' : result_output'[i].passed = {FALSE}
  <2>1. PICK i \in Tests' : result_output'[i].passed = {FALSE}
    BY <1>1, <1>3
  <2>2. result_output'[i].passed =
          CASE i \in ran' \cap truth' -> {TRUE}
            [] i \in ran' \ truth'    -> {FALSE}
            [] i \notin ran'          -> {}
    BY DEF result_output
  <2>3. i \in ran' \ truth'
    BY <2>1, <2>2
  <2> QED
    BY <2>3
<1> QED
  BY <1>1, <1>2, <1>3 DEF Test!Answerable

\* run_sample_eval.cc:158-181 and 325-346: what is recorded of a solution whose
\* tests may have been cut short by the first that failed.
LEMMA RecordOfTest == TypeOK /\ TestSolution => RecordTruthful'
<1> SUFFICES ASSUME TypeOK, TestSolution PROVE RecordTruthful'
  OBVIOUS
<1> DEFINE R == ran'  G == truth'  n == numTests  p == numPublic
<1>1. /\ n \in Nat /\ n > 0 /\ p \in 0..n /\ numTests' = n /\ numPublic' = p
      /\ compiled' \in BOOLEAN
      /\ R \subseteq 1..n /\ G \subseteq 1..n
      /\ ~compiled' => R = {}
      /\ compiled' => R = 1..n \/ R \ G # {}
  <2>1. /\ n \in Nat /\ n > 0 /\ p \in 0..n /\ numTests' = n /\ numPublic' = p
        /\ compiled' \in BOOLEAN
        /\ R \subseteq 1..n /\ G \subseteq 1..n
        /\ ~compiled' => R = {}
        /\ compiled' => Test!Answerable'
    BY EvalAssumption DEF TypeOK, TestSolution, Tests, problemVars
  <2>2. Tests' = 1..n
    BY <2>1 DEF Tests
  <2> QED
    BY <2>1, <2>2, FailureIfIncomplete
<1>2. /\ cnt_passed_tests' = Cardinality(R \cap G)
      /\ cnt_failed_tests' = Cardinality(R \ G)
      /\ cnt_crashed_tests' =
           IF compiled' THEN Cardinality((1..n) \ R) ELSE 0
      /\ cnt_passed_public_tests' = Cardinality(R \cap G \cap (1..p))
  BY <1>1 DEF cnt_passed_tests, cnt_failed_tests, cnt_crashed_tests,
     cnt_passed_public_tests, Tests, PublicTests
<1>3. /\ Cardinality(R \cap G) \in Nat
      /\ Cardinality(R \ G) \in Nat
      /\ Cardinality((1..n) \ R) \in Nat
      /\ Cardinality(R \ G) = 0 <=> R \subseteq G
      /\ Cardinality((1..n) \ R) = 0 <=> R = 1..n
      /\ Cardinality(R \cap G) = 0 <=> R \cap G = {}
  BY <1>1, CountsOfTests
<1>4. cnt_ran_tests' =
        Cardinality(R \cap G) + Cardinality(R \ G)
          + (IF compiled' THEN Cardinality((1..n) \ R) ELSE 0)
  BY <1>2 DEF cnt_ran_tests
<1> DEFINE record ==
             [compilation |-> IF cnt_ran_tests' = 0 THEN "fail" ELSE "success",
              passed_all_tests |-> PassedAllTests',
              passed_public_tests |-> PassedPublicTests']
<1>5. testResults' = Append(testResults, record) /\ record \in TestResult
  <2>1. testResults' = Append(testResults, record)
    BY DEF TestSolution
  <2>2. PassedAllTests' \in BOOLEAN /\ PassedPublicTests' \in BOOLEAN
    BY DEF PassedAllTests, PassedPublicTests
  <2> QED
    BY <2>1, <2>2 DEF TestResult
<1>6. /\ testResults'[Len(testResults')] = record
      /\ record.compilation = "success" <=> cnt_ran_tests' # 0
      /\ record.passed_all_tests = PassedAllTests'
      /\ record.passed_public_tests = PassedPublicTests'
  <2> testResults \in Seq(TestResult)
    BY DEF TypeOK
  <2>1. testResults'[Len(testResults')] = record
    <3> HIDE DEF record
    <3> QED
      BY <1>5
  <2> QED
    BY <2>1
<1> HIDE DEF R, G, n, p, record
<1>7. PassedAllTests' <=> compiled' /\ G = 1..n
  <2>1. CASE compiled'
    <3>1. PassedAllTests' <=>
            /\ Cardinality(R \ G) = 0 /\ Cardinality((1..n) \ R) = 0
            /\ Cardinality(R \cap G) # 0
      BY <1>2, <1>3, <1>4, <2>1 DEF PassedAllTests
    <3>2. 1 \in 1..n
      BY <1>1
    <3> QED
      BY <1>1, <1>3, <2>1, <3>1, <3>2
  <2>2. CASE ~compiled'
    BY <1>1, <1>2, <1>3, <1>4, <2>2 DEF PassedAllTests
  <2> QED
    BY <1>1, <2>1, <2>2
<1>8. PassedPublicTests' => compiled' /\ 1..p \subseteq G
  <2> SUFFICES ASSUME PassedPublicTests'
               PROVE  compiled' /\ 1..p \subseteq G
    OBVIOUS
  <2>1. Cardinality(R \cap G \cap (1..p)) = p /\ p # 0
    BY <1>1, <1>2 DEF PassedPublicTests
  <2>2. R \cap G \cap (1..p) = 1..p
    <3>1. p \in Nat /\ R \cap G \cap (1..p) \in SUBSET (1..p)
      BY <1>1
    <3> QED
      BY <2>1, <3>1, AllPublicTests
  <2>3. 1 \in 1..p
    BY <1>1, <2>1
  <2> QED
    BY <1>1, <2>2, <2>3
<1>9. cnt_ran_tests' # 0 <=> compiled'
  <2>1. CASE compiled'
    <3>1. CASE R = 1..n
      <4>1. 1 \in R
        BY <1>1, <3>1
      <4> QED
        BY <1>3, <1>4, <2>1, <4>1
    <3>2. CASE R # 1..n
      BY <1>3, <1>4, <2>1, <3>2
    <3> QED
      BY <3>1, <3>2
  <2>2. CASE ~compiled'
    BY <1>1, <1>3, <1>4, <2>2
  <2> QED
    BY <1>1, <2>1, <2>2
<1> QED
  BY <1>1, <1>6, <1>7, <1>8, <1>9
     DEF RecordTruthful, Tests, PublicTests, G, n, p

\* What the type invariant says of the sequences.
LEMMA SequenceTypes ==
  ASSUME TypeOK
  PROVE  /\ testResults \in Seq(TestResult) /\ Len(testResults) \in Nat
         /\ results \in Seq(ProblemResult) /\ Len(results) \in Nat
<1>1. testResults \in Seq(TestResult) /\ results \in Seq(ProblemResult)
  BY DEF TypeOK
<1> QED
  BY <1>1

\* And of the numbers.
LEMMA NumberTypes ==
  ASSUME TypeOK
  PROVE  /\ line \in Nat /\ line <= MaxProblems
         /\ evaluated \in Nat /\ evaluated <= line
         /\ passedProblems \in Nat /\ passedProblems <= evaluated
         /\ tenProblems \in Nat /\ tenProblems <= passedProblems
         /\ numSolutions \in Nat /\ numSolutions <= MaxSolutions
         /\ solution \in Nat /\ solution <= numSolutions
<1>1. /\ line \in 0..MaxProblems /\ evaluated \in 0..line
      /\ passedProblems \in 0..evaluated /\ tenProblems \in 0..passedProblems
      /\ numSolutions \in 0..MaxSolutions /\ solution \in 0..numSolutions
  BY Zenon DEF TypeOK
<1> QED
  BY <1>1, EvalAssumption

LEMMA TestInv == Inv /\ TestSolution => Inv'
<1> SUFFICES ASSUME Inv, TestSolution PROVE Inv'
  OBVIOUS
<1> USE EvalAssumption DEF Inv
<1>1. TypeOK' /\ CountedAfterRead'
  <2>1. PICK record \in TestResult : testResults' = Append(testResults, record)
    <3>1. PassedAllTests' \in BOOLEAN /\ PassedPublicTests' \in BOOLEAN
      BY DEF PassedAllTests, PassedPublicTests
    <3> QED
      BY <3>1 DEF TestSolution, TestResult
  <2>2. /\ testResults' \in Seq(TestResult)
        /\ Len(testResults') = Len(testResults) + 1
    BY <2>1, SequenceTypes
  <2>3. /\ solution' = solution + 1 /\ solution' \in 0..numSolutions'
        /\ compiled' \in BOOLEAN /\ truth' \subseteq Tests'
        /\ ran' \subseteq Tests'
    BY DEF TestSolution, TypeOK, Tests, problemVars
  <2>4. Len(testResults) \in Nat
    BY SequenceTypes
  <2>5. CountedAfterRead'
    BY <2>2, <2>3, <2>4 DEF TestSolution, TypeOK, CountedAfterRead, totals
  <2> QED
    BY <2>2, <2>3, <2>5 DEF TestSolution, TypeOK, problemVars, totals, files
<1>2. RecordTruthful'
  BY RecordOfTest
<1>3. ResultsWritten' /\ CountersMatchResults' /\ MetricsDescribeResults'
  <2>1. UNCHANGED totals /\ UNCHANGED files /\ pc' = pc
    BY DEF TestSolution
  <2> QED
    BY <2>1, TotalsFrame
       DEF ResultsWritten, MetricsDescribeResults, totals, files
<1>4. EstimatesOfCounts'
  BY EstimatesFrame DEF TestSolution, files
<1> QED
  BY <1>1, <1>2, <1>3, <1>4

\* A problem is passed, and passed at 10, only if it has solutions.
LEMMA SamplePasses ==
  ASSUME TypeOK, NEW sample \in Samples, TenAtKPassed(sample)
  PROVE  Passing # {}
BY DEF Samples, TenAtKPassed, Passing

LEMMA MetricsInv == Inv /\ CalculateMetrics => Inv'
<1> SUFFICES ASSUME Inv, CalculateMetrics PROVE Inv'
  OBVIOUS
<1> USE EvalAssumption
<1> DEFINE passes == IF Passing # {} THEN 1 ELSE 0
<1>1. PICK sample \in Samples :
        /\ passedProblems' = passedProblems + passes
        /\ tenProblems' = tenProblems + (IF TenAtKPassed(sample) THEN 1 ELSE 0)
        /\ IF testResults = <<>>
             THEN UNCHANGED <<results, evaluated>>
             ELSE /\ results' =
                       Append(results,
                              [sample_size |-> Len(testResults),
                               number_passes |-> Cardinality(Passing),
                               pass_at_k_passed |-> Passing # {},
                               ten_at_k_passed |-> TenAtKPassed(sample)])
                  /\ evaluated' = evaluated + 1
  BY DEF CalculateMetrics
<1> DEFINE tens == IF TenAtKPassed(sample) THEN 1 ELSE 0
           r == [sample_size |-> Len(testResults),
                 number_passes |-> Cardinality(Passing),
                 pass_at_k_passed |-> Passing # {},
                 ten_at_k_passed |-> TenAtKPassed(sample)]
<1>2. /\ pc = "test" /\ pc' = "open results"
      /\ UNCHANGED <<line, problemVars, solutionVars, files>>
  BY DEF CalculateMetrics
<1>3. /\ passes \in {0, 1} /\ tens \in {0, 1} /\ tens <= passes
      /\ passes = 1 => testResults # <<>>
  <2>1. testResults = <<>> => Passing = {}
    BY DEF Passing
  <2> QED
    BY <2>1, SamplePasses DEF Inv
<1>4. /\ evaluated \in Nat /\ evaluated = Len(results) /\ evaluated < line
      /\ results \in Seq(ProblemResult)
      /\ passedProblems \in Nat /\ passedProblems = PassedUpTo(evaluated)
      /\ tenProblems \in Nat /\ tenProblems = TenUpTo(evaluated)
      /\ passedProblems <= evaluated /\ tenProblems <= passedProblems
      /\ line \in 0..MaxProblems
  <2>1. TypeOK /\ CountersMatchResults /\ CountedAfterRead
    BY DEF Inv
  <2>2. evaluated < line
    BY <1>2, <2>1 DEF CountedAfterRead
  <2>3. /\ evaluated = Len(results) /\ passedProblems = PassedUpTo(evaluated)
        /\ tenProblems = TenUpTo(evaluated)
    BY <2>1 DEF CountersMatchResults
  <2>4. line \in Nat /\ MaxProblems \in Nat /\ line <= MaxProblems
    BY <2>1, NumberTypes
  <2> QED
    BY <2>1, <2>2, <2>3, <2>4, SequenceTypes, NumberTypes
<1>5. RecordTruthful' /\ ResultsWritten' /\ CountedAfterRead'
        /\ EstimatesOfCounts'
  <2>1. RecordTruthful' /\ ResultsWritten' /\ CountedAfterRead'
    BY <1>2, SolutionFrame
       DEF Inv, ResultsWritten, CountedAfterRead, solutionVars
  <2>2. EstimatesOfCounts'
    BY <1>2, EstimatesFrame DEF Inv, files
  <2> QED
    BY <2>1, <2>2
<1>6. ASSUME testResults = <<>> PROVE Inv'
  <2>1. UNCHANGED totals
    BY <1>1, <1>3, <1>4, <1>6 DEF totals
  <2>2. CountersMatchResults' /\ MetricsDescribeResults'
    BY <1>2, <2>1, TotalsFrame
       DEF Inv, MetricsDescribeResults, totals, files
  <2>3. TypeOK'
    BY <1>2, <2>1 DEF Inv, TypeOK, Tests, problemVars, solutionVars, totals,
       files
  <2> QED
    BY <1>5, <2>2, <2>3 DEF Inv
<1>7. ASSUME testResults # <<>> PROVE Inv'
  <2>1. results' = Append(results, r) /\ evaluated' = evaluated + 1
    BY <1>1, <1>7
  <2>2. r \in ProblemResult
    <3>1. testResults \in Seq(TestResult) /\ Len(testResults) \in 1..MaxSolutions
      <4>1. Len(testResults) <= MaxSolutions
        BY SequenceTypes, NumberTypes DEF Inv, CountedAfterRead
      <4>2. Len(testResults) # 0
        BY <1>7, SequenceTypes DEF Inv
      <4> QED
        BY <4>1, <4>2, SequenceTypes DEF Inv
    <3>2. Passing \in SUBSET (1..Len(testResults))
      BY <3>1 DEF Passing
    <3>3. Cardinality(Passing) \in 0..MaxSolutions
      <4>1. Len(testResults) \in Nat /\ Len(testResults) <= MaxSolutions
        BY <3>1
      <4>2. Cardinality(Passing) \in 0..Len(testResults)
        BY <3>2, <4>1, CountAtMost, Zenon
      <4> QED
        BY <4>1, <4>2
    <3>4. TenAtKPassed(sample) \in BOOLEAN /\ (Passing # {}) \in BOOLEAN
      BY DEF TenAtKPassed
    <3> QED
      BY <3>1, <3>3, <3>4 DEF ProblemResult
  <2>3. PICK n \in Nat, rec \in ProblemResult : n = evaluated /\ rec = r
    BY <1>4, <2>2
  <2> HIDE DEF r, passes, tens
  <2>4. /\ \A k \in 0..n :
             PassedUpTo(k)' = PassedUpTo(k) /\ TenUpTo(k)' = TenUpTo(k)
        /\ PassedUpTo(n + 1)' =
             PassedUpTo(n) + (IF rec.pass_at_k_passed THEN 1 ELSE 0)
        /\ TenUpTo(n + 1)' =
             TenUpTo(n) + (IF rec.ten_at_k_passed THEN 1 ELSE 0)
    BY <1>4, <2>1, <2>3, CountAppended
  <2>5. /\ (IF rec.pass_at_k_passed THEN 1 ELSE 0) = passes
        /\ (IF rec.ten_at_k_passed THEN 1 ELSE 0) = tens
    BY <2>3 DEF r, passes, tens
  <2>6. /\ passedProblems' = passedProblems + passes
        /\ tenProblems' = tenProblems + tens
    BY <1>1 DEF passes, tens
  <2>7. results' \in Seq(ProblemResult) /\ Len(results') = n + 1
    BY <1>4, <2>1, <2>2, <2>3
  <2>8. CountersMatchResults'
    <3>1. evaluated' = n + 1
      BY <2>1, <2>3
    <3>2. PassedUpTo(evaluated)' = PassedUpTo(n + 1)'
            /\ TenUpTo(evaluated)' = TenUpTo(n + 1)'
      BY <3>1 DEF PassedUpTo, TenUpTo
    <3>3. tenProblems' <= passedProblems'
      BY <1>3, <1>4, <2>6
    <3> QED
      BY <1>4, <2>3, <2>4, <2>5, <2>6, <2>7, <3>1, <3>2, <3>3
         DEF CountersMatchResults
  <2>9. MetricsDescribeResults'
    <3> SUFFICES ASSUME NEW m \in metricsFile
                 PROVE  /\ m.k <= Len(results')
                        /\ m.c = PassedUpTo(m.k)' /\ m.c_cluster = TenUpTo(m.k)'
                        /\ opened => \A k \in resultsFile : m.k <= k
      BY <1>2 DEF MetricsDescribeResults, files
    <3>1. m.k \in Nat
      <4>1. m \in Metrics
        BY DEF Inv, TypeOK
      <4> QED
        BY <4>1 DEF Metrics
    <3>2. /\ m.k <= n
          /\ m.c = PassedUpTo(m.k) /\ m.c_cluster = TenUpTo(m.k)
          /\ opened => \A k \in resultsFile : m.k <= k
      BY <1>4, <2>3 DEF Inv, MetricsDescribeResults
    <3> QED
      BY <2>4, <2>7, <3>1, <3>2
  <2>10. TypeOK'
    <3>1. /\ evaluated' \in 0..line /\ passedProblems' \in 0..evaluated'
          /\ tenProblems' \in 0..passedProblems'
      <4>1. passes \in {0, 1} /\ tens \in {0, 1} /\ tens <= passes
        BY <1>3
      <4>2. /\ evaluated \in Nat /\ passedProblems \in Nat
            /\ tenProblems \in Nat /\ line \in Nat /\ evaluated < line
            /\ passedProblems <= evaluated /\ tenProblems <= passedProblems
        BY <1>4
      <4> HIDE DEF passes, tens
      <4> QED
        BY <2>1, <2>6, <4>1, <4>2
    <3> QED
      BY <1>2, <2>7, <3>1 DEF Inv, TypeOK, Tests, problemVars, solutionVars,
         files
  <2> QED
    BY <1>5, <2>8, <2>9, <2>10 DEF Inv
<1> QED
  BY <1>6, <1>7

\* The next line, and its problem.
LEMMA LineInv ==
  Inv /\ (ReadLine \/ EndOfFile \/ ProblemNotFound \/ BeginProblem
            \/ SkipSolution \/ TestFails \/ Stop) => Inv'
<1> SUFFICES ASSUME Inv,
                    ReadLine \/ EndOfFile \/ ProblemNotFound \/ BeginProblem
                      \/ SkipSolution \/ TestFails \/ Stop
             PROVE  Inv'
  OBVIOUS
<1> USE EvalAssumption DEF Inv
<1>1. UNCHANGED totals /\ UNCHANGED files
  BY DEF ReadLine, EndOfFile, ProblemNotFound, BeginProblem, SkipSolution,
     TestFails, Stop
<1>2. CountersMatchResults' /\ MetricsDescribeResults' /\ EstimatesOfCounts'
  <2>1. CountersMatchResults' /\ MetricsDescribeResults'
    BY <1>1, TotalsFrame DEF MetricsDescribeResults, totals, files
  <2>2. EstimatesOfCounts'
    BY <1>1, EstimatesFrame DEF files
  <2> QED
    BY <2>1, <2>2
<1>3. /\ line \in Nat /\ line' \in 0..MaxProblems /\ line <= line'
      /\ evaluated' \in 0..line'
      /\ pc' \in {"solve", "test"} => evaluated' < line'
      /\ pc' \in {"read", "solve", "test", "open results", "finished",
                  "stopped"}
  <2>1. evaluated' = evaluated
    BY <1>1 DEF totals
  <2>2. pc \in {"solve", "test"} => evaluated < line
    BY DEF CountedAfterRead
  <2>3. CASE ReadLine
    BY <2>1, <2>3, NumberTypes DEF ReadLine
  <2>4. CASE ~ReadLine
    <3>1. line' = line
      BY <2>4 DEF EndOfFile, ProblemNotFound, BeginProblem, SkipSolution,
         TestFails, Stop
    <3>2. /\ pc' \in {"solve", "test"} => pc \in {"solve", "test"}
          /\ pc' \in {"read", "solve", "test", "open results", "finished",
                      "stopped"}
      BY <2>4 DEF EndOfFile, ProblemNotFound, BeginProblem, SkipSolution,
         TestFails, Stop
    <3>3. line \in Nat /\ line' \in 0..MaxProblems /\ line <= line'
            /\ evaluated' \in 0..line'
      BY <2>1, <3>1, NumberTypes
    <3> QED
      BY <2>1, <2>2, <3>1, <3>2, <3>3
  <2> QED
    BY <2>3, <2>4
<1>4. ResultsWritten'
  BY <1>3 DEF ResultsWritten
<1>5. CASE BeginProblem
  <2>1. /\ numTests' \in 0..MaxTests /\ numPublic' \in 0..numTests'
        /\ numSolutions' \in 0..MaxSolutions /\ solution' = 0
        /\ compiled' = FALSE /\ truth' = {} /\ ran' = {} /\ testResults' = <<>>
    BY <1>5 DEF BeginProblem
  <2>2. RecordTruthful'
    BY <2>1 DEF RecordTruthful
  <2>3. TypeOK'
    <3>1. testResults' \in Seq(TestResult) /\ solution' \in 0..numSolutions'
      BY <2>1
    <3>2. compiled' \in BOOLEAN /\ truth' \subseteq Tests' /\ ran' \subseteq Tests'
      BY <2>1
    <3>3. /\ results' \in Seq(ProblemResult)
          /\ passedProblems' \in 0..evaluated'
          /\ tenProblems' \in 0..passedProblems'
          /\ resultsFile' \in SUBSET (0..MaxProblems)
          /\ metricsFile' \in SUBSET Metrics /\ opened' \in BOOLEAN
      BY <1>1 DEF TypeOK, totals, files
    <3>4. pc' = "test" /\ line' \in 0..MaxProblems /\ evaluated' \in 0..line'
      BY <1>3, <1>5 DEF BeginProblem
    <3> QED
      BY <2>1, <3>1, <3>2, <3>3, <3>4 DEF TypeOK
  <2>4. CountedAfterRead'
    <3>1. Len(testResults') <= solution'
      BY <2>1
    <3> QED
      BY <1>3, <3>1 DEF CountedAfterRead
  <2> QED
    BY <1>2, <1>4, <2>2, <2>3, <2>4
<1>6. CASE ~BeginProblem
  <2>1. /\ UNCHANGED <<problemVars, compiled, truth, ran, testResults>>
        /\ solution' \in {solution, solution + 1}
        /\ solution' \in 0..numSolutions
    <3>1. solution \in Nat /\ numSolutions \in Nat /\ solution <= numSolutions
      BY NumberTypes
    <3>2. CASE SkipSolution
      BY <3>1, <3>2 DEF SkipSolution
    <3>3. CASE ~SkipSolution
      <4>1. UNCHANGED <<problemVars, solutionVars>>
        BY <1>6, <3>3 DEF ReadLine, EndOfFile, ProblemNotFound, TestFails, Stop
      <4> QED
        BY <3>1, <4>1 DEF solutionVars
    <3> QED
      BY <3>2, <3>3
  <2>2. RecordTruthful'
    BY <2>1, SolutionFrame
  <2>3. Len(testResults') <= solution'
    <3>1. Len(testResults) \in Nat /\ solution \in Nat
            /\ Len(testResults) <= solution
      BY SequenceTypes, NumberTypes DEF CountedAfterRead
    <3> QED
      BY <2>1, <3>1
  <2>4. TypeOK'
    BY <1>1, <1>3, <2>1 DEF TypeOK, Tests, problemVars, totals, files
  <2> QED
    BY <1>2, <1>3, <1>4, <2>2, <2>3, <2>4 DEF CountedAfterRead
<1> QED
  BY <1>5, <1>6

\* What main writes are metrics.
LEMMA MetricsType ==
  ASSUME TypeOK
  PROVE  result_metrics \in Metrics
<1>1. /\ evaluated \in 0..MaxProblems /\ passedProblems \in 0..MaxProblems
      /\ tenProblems \in 0..MaxProblems
  BY NumberTypes, EvalAssumption
<1>2. [k \in Ks |-> CodexPassAtK(evaluated, passedProblems, k)]
        \in [Ks -> Estimates]
  BY <1>1 DEF Estimates
<1> QED
  BY <1>1, <1>2 DEF Metrics, result_metrics

\* A step on the results file: it is not opened, or is cut short, or gets all
\* results.
LEMMA ResultsFileInv ==
  Inv /\ (OpenResults \/ OpenResultsFails \/ WriteResults) => Inv'
<1> SUFFICES ASSUME Inv, OpenResults \/ OpenResultsFails \/ WriteResults
             PROVE  Inv'
  OBVIOUS
<1> USE EvalAssumption DEF Inv
<1>1. /\ UNCHANGED <<line, problemVars, solutionVars, totals, metricsFile>>
      /\ pc' \in {"write results", "open metrics"}
      /\ opened' \in BOOLEAN
  BY DEF OpenResults, OpenResultsFails, WriteResults, TypeOK
<1>2. /\ opened' => resultsFile' \subseteq {Len(results)}
      /\ resultsFile' \in SUBSET (0..MaxProblems)
  <2>1. Len(results) \in 0..MaxProblems
    BY SequenceTypes, NumberTypes DEF CountersMatchResults
  <2>2. resultsFile' \subseteq {Len(results)} \/ (~opened' /\ resultsFile' = resultsFile)
    BY DEF OpenResults, OpenResultsFails, WriteResults
  <2> QED
    BY <2>1, <2>2 DEF TypeOK
<1>3. CountersMatchResults' /\ RecordTruthful' /\ CountedAfterRead'
  BY <1>1, TotalsFrame, SolutionFrame DEF CountedAfterRead, solutionVars
<1>4. ResultsWritten'
  <2>1. results' = results
    BY <1>1 DEF totals
  <2> QED
    BY <1>2, <2>1 DEF ResultsWritten
<1>5. MetricsDescribeResults'
  <2> SUFFICES ASSUME NEW m \in metricsFile
               PROVE  /\ m.k <= Len(results')
                      /\ m.c = PassedUpTo(m.k)' /\ m.c_cluster = TenUpTo(m.k)'
                      /\ opened' => \A r \in resultsFile' : m.k <= r
    BY <1>1 DEF MetricsDescribeResults
  <2>1. /\ m.k <= Len(results)
        /\ m.c = PassedUpTo(m.k) /\ m.c_cluster = TenUpTo(m.k)
    BY DEF MetricsDescribeResults
  <2>2. results' = results
    BY <1>1 DEF totals
  <2>3. PassedUpTo(m.k)' = PassedUpTo(m.k) /\ TenUpTo(m.k)' = TenUpTo(m.k)
    BY <1>1, TotalsFrame, Zenon
  <2> QED
    BY <1>2, <2>1, <2>2, <2>3
<1>6. EstimatesOfCounts'
  BY <1>1, EstimatesFrame
<1>7. TypeOK'
  BY <1>1, <1>2 DEF TypeOK, Tests, problemVars, solutionVars, totals
<1> QED
  BY <1>3, <1>4, <1>5, <1>6, <1>7

\* A step on the metrics file: it is not opened, or is cut short, or gets the
\* metrics of all results.
LEMMA MetricsFileInv ==
  Inv /\ (OpenMetrics \/ OpenMetricsFails \/ WriteMetrics) => Inv'
<1> SUFFICES ASSUME Inv, OpenMetrics \/ OpenMetricsFails \/ WriteMetrics
             PROVE  Inv'
  OBVIOUS
<1> USE EvalAssumption DEF Inv
<1>1. /\ UNCHANGED <<line, problemVars, solutionVars, totals, resultsFile, opened>>
      /\ pc \in {"open metrics", "write metrics"}
      /\ pc' \in {"write metrics", "read"}
      /\ metricsFile' \in {metricsFile, {}, {result_metrics}}
      /\ pc' = "write metrics" => pc = "open metrics"
  BY DEF OpenMetrics, OpenMetricsFails, WriteMetrics, files
<1>2. CountersMatchResults' /\ RecordTruthful' /\ CountedAfterRead'
  BY <1>1, TotalsFrame, SolutionFrame DEF CountedAfterRead, solutionVars
<1>3. results' = results
  BY <1>1 DEF totals
<1>4. ResultsWritten'
  BY <1>1, <1>3 DEF ResultsWritten
<1>5. metricsFile' \in SUBSET Metrics
  BY <1>1, MetricsType DEF TypeOK
<1>6. TypeOK'
  BY <1>1, <1>5 DEF TypeOK, Tests, problemVars, solutionVars, totals
<1>7. /\ result_metrics.k = evaluated /\ result_metrics.c = passedProblems
      /\ result_metrics.c_cluster = tenProblems
      /\ result_metrics.codex =
           [k \in Ks |-> CodexPassAtK(result_metrics.k, result_metrics.c, k)]
  BY DEF result_metrics
<1>8. MetricsDescribeResults'
  <2> SUFFICES ASSUME NEW m \in metricsFile'
               PROVE  /\ m.k <= Len(results')
                      /\ m.c = PassedUpTo(m.k)' /\ m.c_cluster = TenUpTo(m.k)'
                      /\ opened' => \A r \in resultsFile' : m.k <= r
    BY DEF MetricsDescribeResults
  <2>1. PassedUpTo(m.k)' = PassedUpTo(m.k) /\ TenUpTo(m.k)' = TenUpTo(m.k)
    BY <1>1, TotalsFrame, Zenon
  <2>2. CASE m \in metricsFile
    BY <1>1, <1>3, <2>1, <2>2 DEF MetricsDescribeResults
  <2>3. CASE m = result_metrics
    <3>1. /\ m.k = Len(results) /\ Len(results) \in Nat
          /\ m.c = PassedUpTo(m.k) /\ m.c_cluster = TenUpTo(m.k)
      <4>1. /\ m.k = evaluated /\ m.c = passedProblems
            /\ m.c_cluster = tenProblems
        BY <1>7, <2>3
      <4>2. /\ evaluated = Len(results) /\ Len(results) \in Nat
            /\ passedProblems = PassedUpTo(evaluated)
            /\ tenProblems = TenUpTo(evaluated)
        BY SequenceTypes DEF CountersMatchResults
      <4> QED
        BY <4>1, <4>2, Zenon
    <3>2. opened' => \A r \in resultsFile' : r = m.k
      BY <1>1, <3>1 DEF ResultsWritten
    <3>3. m.k <= Len(results') /\ \A r : r = m.k => m.k <= r
      BY <1>3, <3>1
    <3>4. m.c = PassedUpTo(m.k)' /\ m.c_cluster = TenUpTo(m.k)'
      BY <2>1, <3>1, Zenon
    <3> QED
      BY <3>2, <3>3, <3>4, Zenon
  <2> QED
    BY <1>1, <2>2, <2>3
<1>9. EstimatesOfCounts'
  BY <1>1, <1>7 DEF EstimatesOfCounts
<1> QED
  BY <1>2, <1>4, <1>6, <1>8, <1>9

LEMMA StutterInv == Inv /\ UNCHANGED vars => Inv'
<1> SUFFICES ASSUME Inv, UNCHANGED vars PROVE Inv'
  OBVIOUS
<1>1. CountersMatchResults' /\ RecordTruthful'
  BY TotalsFrame, SolutionFrame DEF Inv, vars, solutionVars
<1>2. TypeOK' /\ CountedAfterRead' /\ ResultsWritten'
  BY DEF Inv, TypeOK, Tests, CountedAfterRead, ResultsWritten, vars,
     problemVars, solutionVars, totals, files
<1>3. MetricsDescribeResults'
  BY TotalsFrame DEF Inv, MetricsDescribeResults, vars, totals, files
<1>4. EstimatesOfCounts'
  BY EstimatesFrame DEF Inv, vars, files
<1> QED
  BY <1>1, <1>2, <1>3, <1>4 DEF Inv

-----------------------------------------------------------------------------
(* The theorems.                                                           *)

\* The inductive invariant of main's loop (run_sample_eval.cc:399-487).
THEOREM InvHolds == Spec => []Inv
<1>1. Inv /\ [Next]_vars => Inv'
  BY TestInv, MetricsInv, LineInv, ResultsFileInv, MetricsFileInv,
     StutterInv DEF Next
<1> QED
  BY InitInv, <1>1, PTL DEF Spec

\* Every variable keeps its type.
THEOREM TypeCorrect == Spec => []TypeOK
<1>1. Inv => TypeOK
  BY DEF Inv
<1> QED
  BY <1>1, InvHolds, PTL

\* The counters that calculate_metrics changes before the problem is kept or
\* left out agree with the results that are kept.
THEOREM CountersMatch == Spec => []CountersMatchResults
<1>1. Inv => CountersMatchResults
  BY DEF Inv
<1> QED
  BY <1>1, InvHolds, PTL

\* What SolveProblem records of a solution is true, although Test leaves out
\* tests after the first failure.
THEOREM RecordsAreTrue == Spec => []RecordTruthful
<1>1. Inv => RecordTruthful
  BY DEF Inv
<1> QED
  BY <1>1, InvHolds, PTL

\* MetricsDescribeResults, with streams that fail unnoticed
\* (run_sample_eval.cc:422-424 and 483-485) and main stopped anywhere: the metrics
\* describe the first results, and the results file has them if main could open
\* it at the last attempt.
THEOREM MetricsMatch == Spec => []MetricsDescribeResults
<1>1. Inv => MetricsDescribeResults
  BY DEF Inv
<1> QED
  BY <1>1, InvHolds, PTL

=============================================================================
