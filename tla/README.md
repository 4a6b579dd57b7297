# A verification of CodeContests' solution tester

This directory holds TLA+ specifications of the program in the parent
repository that executes candidate solutions on test inputs, the TLC
configurations that model-check them, and theorems about them checked by TLAPS.

    tlc -workers 2 -config MCThreadPool.cfg MCThreadPool     # model-check
    tlapm TesterSandboxerProofs.tla                          # check proofs

Line numbers refer to files under `execution/` unless a path is given.

## 1. Inventory

### The system

`run_sample_eval` and `solve_example` read problems and solutions from files
and, for each solution, make one call of `TesterSandboxer::Test`. That call
compiles the solution, then runs it on every test input inside a sandbox2
sandbox, several inputs at a time on a thread pool, and answers with one
`ExecutionResult` per input. `run_sample_eval` adds these up into metrics. The
rest of the repository prints or converts the data set.

    run_sample_eval, solve_example
            |  call                                 files in, metrics out
            v
    TesterSandboxer::Test ----owns----> ThreadPool --threads--> lambda, once per input
            |  CompileCode                                          |  RunCodeOnInput
            v                                                       v
    Py3/Py2TesterSandboxer --files--> TempPath          sandbox2, two pipes, two reader threads

### Components

| Component | State | Operations | Talks to | What is hard | What makes it correct |
|---|---|---|---|---|---|
| **ThreadPool** (`simple_threadpool.h`) | `queue_` under `mu_`, `threads_`, `num_threads_`, `started_` | constructor, `StartWorkers`, `Schedule`, `WorkLoop`, destructor | its owner's thread; the functions it is given | producers and consumers on one queue; shutdown by signals in the same queue; joins without a limit; threads that cannot be made | every function runs, once, in order, before the destructor returns; the destructor returns |
| **TesterSandboxer::Test** (`tester_sandboxer.cc:335`) | `should_stop`, `overall_status`, `multi_test_result` under `output_mutex`; the attempts of `RetryIfFail` | `Test`: validate, temporary directory, compile, run, answer | ThreadPool, `CompileCode`, `RunCodeOnInput`, TempPath | the lock is dropped between the check of `should_stop` and the update after the run; retries with a pause; first failure stops the rest; one error discards all results; lambdas hold references to the caller's locals | the answer says of every input what happened to it, or explains why nothing did; errors only after the retries; nothing is written after the answer |
| **RunCodeOnInput**, `CreateSandboxWithFds`, `SandboxWithOutputFds` (`tester_sandboxer.cc:207-328, 422-452`) | the file descriptors of two pipes and of stdin; the sandboxee; two reader threads | create, move, run asynchronously, drain, await | sandbox2, the operating system | ownership of descriptors on every path; deadlock between draining and awaiting; the wall time limit that is set after the start | no descriptor leaks or is closed twice; a program that writes much ends; the run ends |
| **Py3TesterSandboxer / Py2TesterSandboxer** (`py_tester_sandboxer.cc`) | the code file and the compiler's output in a temporary directory | `CompileCode`, `CreateTestSandbox`, `CreatePolicy` | sandbox2, the file system | steps that fail one by one, under the retries of `Test`; awaiting before draining | a status that is not OK for what is not the code's fault, `kFailed` for what is |
| **TempPath** (`temp_path.h`) | a directory | constructor, destructor, `path` | the file system | a random name may exist; the directory is left behind | two live TempPaths never share a directory |
| **OutputsMatch** (`tester_sandboxer.cc:135-165, 256-264`) | none | tokenising and comparing outputs | – | doubles, integers, exact strings in one relation | accepts equal token lists, up to case and 1e-5 |
| **run_sample_eval** (`run_sample_eval.cc`) | results per problem, per-problem counts, the two output files | `SolveProblem`, `ReportResults`, `calculate_metrics`, `main` | Test, files | a failed call ends a problem half way; results cut short by `stop_on_first_failure` are counted; files are rewritten after each problem | each count adds up, each metric is the estimator it is named for |
| **solve_example** (`solve_example.cc`) | none | three calls of `Test`, a report | Test, files | – | – |
| **sandbox policy** (`tester_sandboxer.cc:461-629`, `py_tester_sandboxer.cc:156-193`) | none | a list of allowed system calls | sandbox2 | – | – |
| **data set tools** (`print_names.cc`, `print_problems.cc`, `load_data_test.cc`, `contest_problem.proto`) | none | read and print | files | – | – |
| **Python scripts** (`*.py`) | none | convert and print | files | – | – |
| **nlohmann/json** | – | vendored | – | – | – |

`PROJECT.json` lists the same components with their modelling status, and under
`hazards` each place in the code that is hard to test, at its line, with the
properties that cover it or the reason why none does.

## 2. Plan

| # | Module | What it models | Composes | State |
|---|---|---|---|---|
| 1 | `ThreadPool` | `simple_threadpool.h` | – | done, proved |
| 2 | `TesterSandboxer` | one call of `Test` | `ThreadPool` | done, proved |
| 3 | `TestContract` | what `Test` promises (abstract) | refined by 2 | done, proved |
| 4 | `SandboxRun` | `CreateSandboxWithFds`, `RunCodeOnInput`, and the compiler's run: descriptors, pipes of bounded capacity, reader threads, limit | `ThreadPool` | done, proved |
| 5 | `RunContract` | what a sandboxed run promises: an error, or a final status with all the output (abstract) | refined by 4 | done, proved |
| 6 | `SampleEval` | `SolveProblem`, `ReportResults`, `calculate_metrics`, the output files | `TestContract`, for the answers it takes | done, proved |
| 7 | `PyCompile` | `CompileCode`'s steps on files, `TempPath`, the attempts | `TesterSandboxer`: refines its compiling steps | done, proved |
| 8 | `CompareOutputs` | `OutputsMatch`: words and their comparison, against sameness | what `matches` of a report in 2 stands for | done, proved |
| 9 | the estimates of pass@k | `main` (433-467), against the share of choices with a passed problem | in `SampleEval` | done, proved |

What is left: `SandboxRun` and the run in `TesterSandboxer` are joined by their outcomes
only, not by an `INSTANCE`. Two compilations at a time, which no program of the
repository starts, would need a table of descriptors that is shared.

## 3. The modules and how they correspond to the code

### ThreadPool

State: `numThreads`, `threads`, `queue`, `started_` (as the value of `owner`)
are the fields. `owner` is the owner's place in the life of the pool, `worker`
and `func` the place and the local variable of every thread in `WorkLoop`.
`taken` and `done` are history variables. A scheduled function is the number of
the `Schedule` call that passed it; the empty function that stops a worker is 0.

Granularity: every access to `queue_` is inside an `absl::MutexLock`, so a
critical section is one action: `Schedule` (61-67), `PushShutdown` (38-47, all
signals under one lock), `Take` and `TakeShutdown` (74-85: await, pop, test for
the empty function). `SpawnWorker` and `SpawnFails` are iterations of the loop
in `StartWorkers` (53-59); the exception of `std::thread` is caught nowhere and
`started_` is still false, so the process ends. `Join` and `Destroy` are lines
48-51. `Return` is the call of the function coming back, and `Throw` that an
exception leaves it: `WorkLoop` (86) does not catch it, so `std::terminate` ends
the process (`owner = "terminated"`) whatever the other threads are doing.

The callers in the repository construct, start, schedule and destroy in that
order and from one thread, so the model has that one order. Calls of `Schedule`
before `StartWorkers` or from a worker do not occur.

### TesterSandboxer

One call of `Test`. It instantiates `ThreadPool` on its own variables, and the
actions `OwnPool`, `BeginTask`, `EndThread` and `LeaveTask` are steps of the pool:
the pool is not modelled a second time.

`pc` is the calling thread's place; `RejectArguments`, `MakeTempPath`,
`CompileError`, `CompileFailed`, `Compiled` and `ReturnResults` are the lines
341-420 in order. `phase[w]` is worker w's place in the lambda (381-413):
`check` before the reader lock, `run` between the locks, `pause` in
`RetryIfFail`, `commit` before the writer lock. The check of `should_stop`, the
run and the update after it are separate actions because the lock is dropped
between them (384, 391, 396); that is where the interesting interleavings are.
`tries[i]` counts `RetryIfFail`'s attempts for input i. A non-OK status is one
value, `Error`: the code tells non-OK statuses apart only in the cancellation,
which is `Cancel`. `ret` is the status of the answer.

`Reports[i]` is what the sandbox may report for input i: final status, reason
code, and whether `compare_outputs` accepts the output. It is a constant, and
the theorems hold for every value of it, so nothing is assumed of the program
under test. `CompileCode` and `RunCodeOnInput` are single steps here whose
outcome (a report, or any status, or an exception: `CompileThrows`, `RunThrows`)
is open: their insides are `PyCompile` and `SandboxRun`.

An optional value is a set of at most one element (`passed`, `got`).

### TestContract

The abstract specification: no threads, lock, retry or pool. Results are filled in one at a time,
each at most once, then one answer is given and nothing changes any more. An
answer `OK` needs every result, or a failed test when the caller asked to stop
at the first, or zero threads. The comments at `tester_sandboxer.h:79-85` and
154-161 are its origin; the disjunct for zero threads is what the code does,
although the comment says that code which could not be evaluated gets a non-OK
status: a pool without threads runs nothing and nothing goes wrong.

### SandboxRun

One sandboxed run, made by `RunCodeOnInput` or by `CompileCode` (`call`).
`CreateSandboxWithFds` is the actions `BufferFails`, `ReceiveFds`, `PolicyFails`
and `ConstructSandbox` (273-328): between `ReceiveFds` and `ConstructSandbox` the
reading ends are plain integers that no object owns. `holds` has the valid
descriptors of the two `SandboxWithOutputFds` there can be, the one inside the
`StatusOr` and the caller's local one; `MoveSandbox` is the move constructor
(222-230) and `Destroys` the destructor (213-220). Then the two callers differ:

* `RunCodeOnInput` (428-452) starts the program, sets the wall time limit, drains
  both pipes with two threads, and only then awaits the result. The threads are
  those of an instance of `ThreadPool` (`OwnPool`, `TakeStream`, `EndThread`,
  `WorkerFinishes`), so that a stream is the number of its `Schedule` call.
* `CompileCode` (`py_tester_sandboxer.cc:79-94`) sets no limit of its own, awaits
  the result, and reads one pipe after the other.

A pipe holds blocks, of which only the number matters: `ReadBlock`, `EndOfFile`
and `ReadError` are the three outcomes of `read` in `ReadFd` (95-119), and
`ReadAndClose` is `UseCacheOrReadAndClose` (121-133). The cache is what
`contents` holds; neither caller reads a stream twice.

The program is external and as free as the kernel lets it be: it may have
threads that write to both streams (`BeginWrite`, `EndWrite` when there is room,
`WriteRefused` when nobody can read any more), close a stream, exit, be killed
(`Killed`) or run into a limit (`LimitReached`), or do nothing. Its ends of the
pipes are closed when it is over: sandbox2 kills what the program left behind.

### RunContract

The abstract specification of a run: a program writes and ends, and the answer
is an error at any time, or, once the program is over, everything it wrote. No
descriptors, pipes or threads.

### SampleEval

`main`'s loop (399-487). `ReadLine`, `ProblemNotFound` and `BeginProblem` are the
beginning of `SolveProblem`; `SkipSolution`, `TestFails` and `TestSolution` are an
iteration of its loop (297-360), with `ReportResults` in the operators `cnt_...`;
`CalculateMetrics` is the end of `SolveProblem` (191-257 and 362-371).

The two files are opened, which cuts them short, and written in separate steps,
since the process may be stopped in between (`Stop`). Nothing asks the streams
whether they have failed (422-424, 483-485), so main goes on when a file cannot
be opened and stays as it was (`OpenResultsFails`, `OpenMetricsFails`), and when
what was written is cut short (`WriteResults`, `WriteMetrics`). A file is the set of what a reader gets from
it: empty if there is none, if it is cut short, or if this evaluation has not
written it. `opened` remembers whether the last attempt to open the results file
succeeded, which `MetricsDescribeResults` depends on. It says what the files are
good for in spite of such failures: readable metrics describe the first `k` results
there have been, and results that have been written anew since are enough for
them, whatever was lost on earlier lines.

A solution is the set of the tests it would pass (`truth`), a history variable
that the code does not have. What `Test` answers is which tests have a result
(`ran`). `result_output` puts that in the terms of `Test`, and `TestSolution` takes any
answer that `TestContract` calls `Answerable` with four threads and a stop at the
first failure: all tests have results, or one that was run failed. With four
workers that can be any such set, not a prefix. A solution that does not compile has no results. The sample
of `calculate_metrics` is any one of the right size. `resultsFile` holds the length
of the results written, which says which, because results are only added.
Metrics are the numerators over `k`. `CodexPassAtK` is the loop of 433-467 for
one k, as an exact fraction: the doubles of the code differ from it by rounding.
It is a recursive function, evaluated for as many problems as the run has.
`debug` and `fast_run` are false, as the code defines them.

### PyCompile

The compiling half of `Test`, call after call, in the directories that the calls
leave behind. A call (`BeginCall`) makes a directory whose name is not taken, or
the process ends (`MakeTempPath`, `TempPathFails`; `temp_path.h:34-44`, where
`abort` is for a taken name and the exception of `create_directory` for
everything else). Then `RetryIfFail` makes up to three attempts in the same
directory (`RetryOrGiveUp`). An attempt is `CompileCode` (69-139), a step for
each thing that can fail on its own:

| Lines | Action | How it fails |
|---|---|---|
| 73-75 | `WriteCode` | silently: the file is not opened and stays as it was, or a part is written |
| 79-94 | `SandboxCreated`, `AttemptFails` | with a status, which is retried |
| 90-92 | `CompilerAccepts`, `CompilerRejects`, `CompilerKilled` | the compiler is killed, and leaves half a file |
| 96-98 | `CodeIsInvalid`, `CodeIsValid`, `BinaryExists` | |
| 99-114 | `CopyOnlyMatch`, `NotIdentified`, `FileSystemThrows` | with a status, or an exception of `directory_iterator` or `copy` |
| 117-135 | `LoadBinary`, `FileSystemThrows` | an exception: `find` returns `npos`, and `replace` throws |

`beside` is the difference between the interpreters: Python 2 writes `code.pyc`
beside the source, Python 3 into `__pycache__`, through a file with another name
that is renamed when it is complete. `Compiles` is the set of sources the compiler
accepts, parts of a program among them; nothing is assumed of it but that it is a
function of the source. A compiler that exits with 1 because the system has kept it
from writing is `CompilerKilled` too: the code cannot tell it from one that
rejects the source. An exception ends the process; whoever starts it again
(`Restart`) finds the directories, as nothing ever removes one (`temp_path.h:46`).

`program_data` is the byte code as the interpreters lay it out, which is external: a
header with the time, and, before the path of the source, its length, in one byte
with Python 3 (for paths this short) and in four with Python 2, the low one first.
Python 2 writes the path again for each function; Python 3 refers to the first.
`Deterministic` (125-135) does with it what the code does: the first path and the one
byte before it give way to `code.py`, and the header is cut off. So Python 3 leaves
nothing of the directory, and Python 2 leaves three bytes of the length and the
paths of the functions. `Length` is the length of each directory's path, for the names that
`temp_path.h:40` draws differ in theirs, and `WithFunctions` the sources that define
a function.

That exceptions are not statuses defeats the retries in the one case they are
for: with no descriptor left, `directory_iterator` (102) and `copy` (114) throw,
and the `ifstream` of 119 reads nothing, so that 130 throws.

### CompareOutputs

`OutputsMatch` (256-264) with `SplitAndLowercase` (135-144) and `ValuesMatch`
(146-165). A text is a sequence of words with gaps before them; characters are
not modelled. A word has a spelling and may have capitals in it; of a spelling
`Class` says whether it is an integer, another finite numeral, an infinity, a NaN
or none of these, and `Value` what it is worth. Spellings and values are constants, so
that "7", "+7" and "7.0" may be there with one value. `IsInt` and `IsDouble` are the
answers of `absl::SimpleAtoi` and `SimpleAtod`. Of the doubles only `Rounded` is
known, and that it is at most `RoundingError` away; for the numerals of a run an
assumption, not a fact about IEEE 754. A difference with an infinity or a NaN
is less than nothing (`IsFinite` in `WithinPrecision`).

The module says a few things on the side that hold in the code and may surprise:
every `int` is a double, so line 164 (`ai == bi`) is never reached, and integers
wider than 53 bits match when their doubles do, as `AcceptedIsNear` bounds it;
"inf 1" and "inf 1.0" do not match although each of the words would, because an
infinity is only accepted when the lists are equal as a whole (259); and the
relation is not transitive.

## 4. What is checked

| Run | Question | Bounds | Properties |
|---|---|---|---|
| `thread_pool` | Is each function run once, in order, before the destructor returns, and does it return? | up to 3 threads, 4 functions; 2 154 states | `Inv`, `AllRunBeforeDestroyed`, `NoThreadOutlivesPool`, `RunAtMostOnce`, `OneSignalPerLiveThread`, `StepsRunOut`, `BegunInOrder`, `DestructorReturns` |
| `test_call` | Are `should_stop`, `overall_status`, retries and results consistent at every moment; is each result that of its own input; does a call keep its promise, and return? | up to 2 threads, 3 inputs, and reports by which they can be told apart; 388 962 states | `Inv`, `StopHasCause`, `SkippedOnlyAfterFailure`, `ErrorOnlyAfterRetries`, `FailuresBounded`, `ResultsBelongToInputs`, `ImplementsContract`, `StepsRunOut`, `TestReturns` |
| `sandbox_run` | Is each descriptor owned once and given back, is the output complete, can it get stuck, does a run keep its promise, and return? | pipes of 2 blocks, 3 blocks a stream; 39 017 states | `Inv`, `OneOwner`, `OutputComplete`, `OnlyFullPipeStalls`, `DescriptorsGivenBack`, `ImplementsContract`, `StepsRunOut`, `RunReturns`, `OnlyCompilerStalls` |
| `sample_eval` | Do totals, records, estimates and files agree with what the solutions are, however calls and streams fail and wherever the process stops? | 3 lines, 2 solutions, 2 tests, samples of 1, k of 1 to 3; 2 870 866 states | `Inv`, `CountersMatchResults`, `RecordTruthful`, `MetricsDescribeResults`, `EstimateIsShare` |
| `py_compile` | Is what is accepted this call's code, is an error explained, is the answer the compiler's, how far is the hash the program's, and is compiling the part of `Test` that `TesterSandboxer` says it is? | 2 calls, 3 names of two lengths, 2 codes and their parts, 3 attempts, both interpreters; 789 006 states | `Inv`, `BinaryOfThisCall`, `ErrorExplained`, `AnswerIsCompilers`, `SameProgramSameHash`, `CompilesAsTest` |
| `outputs_match` | Is what is the same accepted, and nothing that is far from it? | all pairs of texts of up to 2 words from 12 spellings, some in two layouts; 116 427 states | `AnswerIsSameness`, `AcceptedIsNear`, `SameWordsAccepted` |
| `stop_claim` | Does an early failure stop at least one other test? No. | 2 threads, 4 inputs | `AtLeastOneStopped` |
| `fd_claim` | Are all descriptors closed when a run has returned? No. | 1 block, 1 block | `DescriptorsClosed` |
| `public_claim` | Is every solution that passes the public tests found? No. | 1 line, 2 solutions, 2 tests | `PublicPassesFound` |
| `export_claim` | Is the exported 10@k the one that is printed? No. | 1 line, 2 solutions, 2 tests | `ExportsTenAtK` |
| `estimate_claim` | Does an estimate above zero have a passed problem behind it? No. | 1 line, k of 1 and 2 | `EstimateNeedsPass` |
| `unable_claim` | Is code only answered for when the compiler had all of it? No. | as `py_compile` | `UnableIsAnError` |

Why the bounds are enough: three threads and four functions give a pool that is
larger than, equal to and smaller than its work, signals overtaken by no
function, and threads that end in every order. In a call of Test two workers
show every pair of orders around the lock, and the third input is one that
neither holds: it is cancelled, taken later, or left. The number of attempts is
the code's own, 3. Numbers of threads and inputs of zero are included. `Reports`
are chosen so that a result tells which input it belongs to and both outcomes of
a test occur for each (`Distinct`). In a run of the sandbox, a pipe of one or
two blocks and one block more than it holds show a pipe that is empty, partly
filled, full, and full with a write waiting. In an evaluation, two tests give a
public and a private one, either of which may be the one without a result, and
two solutions a sample that is smaller than the pool; three lines give estimates
for k below, at and above the number of problems, with none, some and all of
them passed, and exports that fail before and after one that does not. Two calls
of the compiler are enough for one to find what another
has left, under the same name or another, and three attempts are the code's; of
three names two are equally long, and the code that compiles has functions in it, a
part of it none. The
spellings of `outputs_match` have each class and each pair that is easy to take
for another: equal values spelt differently, integers that round to the same
double, a decimal within the precision and one on its edge; two words show one
that matches beside one that does not. Above all, every safety property here is
also proved for all bounds (section 5).

`FairSpec` assumes weak fairness of the owner's steps and of each thread's: the
operating system runs every thread that can run (`DestructorReturns`,
`TestReturns`, `RunReturns`, `OnlyCompilerStalls`). That a scheduled function
returns or throws is assumed of the pool's clients in `ThreadPool`; in
`TesterSandboxer` it rests on `RunCodeOnInput` returning, which the wall time
limit (`tester_sandboxer.cc:432`) is for, beside the default limit of sandbox2. In `SandboxRun` that duty is
discharged. Its `FairSpec` is fair to the caller and to the readers only,
counting steps in which no read fails (`NoReadError`), so that no run returns
because of an error that need not happen. What is assumed of the program is said
in the property: `RunReturns` supposes that a limit which has been set is
enforced (`LimitEnforced`) and nothing of the program; `OnlyCompilerStalls`
supposes no limit, and a program that writes finitely often, whose writes return
when there is room, and which exits when none is held up (`ProgramIsFinite`). It
then says that the one way to wait for ever is a compiler with a full pipe, for
which `CompileCode` waits before it reads. No fairness is assumed of the locks
beyond that: a critical section is one step, and every await has a condition
that stays true until its thread moves or another one takes the entry.

`Inv` has `TypeOK` as its first conjunct, so the types are checked with it. The types of
`CompareOutputs`, which has no other invariant to carry them, are proved.

Deadlock is checked in every run; `Finished` is the only step of a system that
has returned or whose process has ended.

### Disagreements between documents and code

* `stop_claim`: `tester_sandboxer_test.cc:443` expects that at least one test is
  stopped after an early failure. Nothing orders the failing worker's update
  before the others' checks, so all results may be there; that test can fail
  on a loaded machine.
* `fd_claim`: `tester_sandboxer.h:101` says that descriptors are closed when they are
  read from or their object is destroyed. When `CreatePolicy` fails (323-324) the
  two that `ReceiveFd` has returned have no object yet, and stay open.
  `DescriptorsGivenBack` shows that this is the only path on which they do.
* `public_claim`: the public tests come first, but four workers take them at
  once, and a private test may fail before a public one has looked at
  `should_stop`. That one then has no result and the solution is not counted as
  passing the public tests, for which `num_public_tests` exists
  (`run_sample_eval.cc:98`). The error is on one side only: `RecordTruthful`.
* `export_claim`: line 474 stores `pass_at_k` as `ten_at_k`; the number printed as
  "Alphacode 10@k" (496) is in no file.
* `estimate_claim`: `n - c < k` (434, 446, 458) is meant for samples of which so few fail
  that any k of them hold a passed one. It also holds when there are fewer than k
  problems at all: after nine problems, none of them passed, the file says 1 for
  pass@10 and pass@100. The line quoted (237) is about AlphaCode's pass@k, but the
  event is the one whose probability is estimated here. With k problems or more the
  estimates are right (`EstimateIsShare`).
* `unable_claim`: `tester_sandboxer.h:154` promises a status that is not OK when the
  code could not be evaluated. The stream that writes the code file is not asked
  (`py_tester_sandboxer.cc:73-75`), so a file that could not be opened is a
  compilation error, and one that was written in part is another program. It is not
  the only failure that is answered for: a compiler which the sandbox kills, or
  which exits with 1 because it cannot write its byte code, is `kFailed` beside an
  OK status, and `AnswerIsCompilers` exempts it (`killed`). The failures that give a status
  end in an error or in the right answer (`ErrorExplained`, `AnswerIsCompilers`).

Five more are seen without a run. `run_sample_eval.cc:285` describes a passed
solution as one that "runs successfully and gives the correct answer"; the
output is compared whatever the status (`tester_sandboxer.cc:402`), so `passed`
may be true beside `kTimeout` or `kFailed`, as `TestContract` has it. The
comment at `run_sample_eval.cc:244-245` asks that at least one solution of the
sample passes, and the code (246) that all do, as `TenAtKPassed` has it; and
"crashed" (287, "The program does not compile") counts the tests without a
result (167-169), which a solution that does not compile has none of, as
`cnt_crashed_tests` has it. `tester_sandboxer.h:58` calls the hash "the same for all
identical programs compiled with the same binary"; with Python 2 it is another one if
the program has functions or the directory's name another length, which
`SameProgramSameHash` excludes. And the two files that are exported after each line
(`run_sample_eval.cc:419`, 480) need not fit: when the results file cannot be opened
(422) it stays as it was and larger metrics are written beside it, until a later
line can open it. `MetricsDescribeResults` excludes that with `opened`.

## 5. What is proved

All theorems hold for every value of the constants. They rest on
`BoundsAssumption` (the bounds are natural numbers), `CallAssumption` (the same,
and `Reports` gives each input a set of reports), `PipeAssumption` (a pipe holds
at least one block), `EvalAssumption` (the bounds are natural numbers, a sample
is not empty and no k is 0), `CompileAssumption` (the compiler accepts sources,
some of which have functions, and the lengths of paths are natural numbers) and `CompareAssumption` (what
the constants of `CompareOutputs` are; that a double is within `RoundingError`
of its numeral, and that different integers are farther apart than the
precision), and on nothing else.

**ThreadPoolProofs.** The invariant `Inv` is inductive. Its core is
`QueueInOrder`: functions are numbered in the order of the calls and `taken`
counts the pops, so the queue is exactly the numbers after `taken` and then the
signals. Without it nothing says why a thread that finds a signal may end; with
it, a signal at the head means `taken >= scheduled`, hence `TakenAccounted` gives
that every function has returned or is running, and `ThreadsAccounted` that a
joined thread runs nothing. From `Inv` follow `AllRun`, `NoThreadLeft`,
`RunOnce` and the action property `InOrder`. `SignalsSuffice`, that signals and
live threads are equal in number while the destructor joins, is a second
invariant proved by counting both sets, step by step, on top of the first.

**TesterSandboxerProofs.** `UsesPool` shows that every behaviour of a call of
Test is, on the pool's variables, a behaviour of `ThreadPool`: all that is proved
there carries over through the INSTANCE. `InvHolds` proves the inductive
invariant of the call. It ties three things that no single lock protects
together: that a worker is in the lambda exactly while the pool runs its
function (`WorkersInLambda`), that a slot is written only by its own task and only
when that task ends (`ResultsAccounted`), and that `should_stop` and
`overall_status` change together with what they stand for (`CauseKept`). The
properties `StopCaused`, `SkippedExplained` and `ErrorTried` follow from it.

**TestContractProofs.** `Refines`: initial states map to initial states and
each step to a step of `TestContract` or to a stutter. The only steps that are
not stutters are `CompileFailed`, `Compiled`, `CommitResult` and those that
answer. A result may be recorded because the invariant says that its slot is
still empty and the pool, hence the caller, is still there. `ResultsBelong`
is an invariant of its own. `FailuresAreBounded` counts: once `should_stop` is
set, the failures recorded and the workers that still may record one are together at
most `numThreads`.

Two more theorems say what the contract is good for. `AnswersExplained` is an
invariant of the contract, carried over by `Refines`. With it `AnswersCanBeCounted`
shows that whatever `Test` answers to a call that stops at the first failure is one
of the answers for which `SampleEval` is checked and proved: the numbers that
`ReportResults` counts do not depend on an answer that the model leaves out.

**SandboxRunProofs.** `UsesPool` carries the theorems of the pool over to the two
readers. `InvHolds` rests on them: only because all functions have run and no
thread is left when the pool is destroyed (`AllRunBeforeDestroyed`) may the caller
look at both contents. Its conjuncts say who owns which descriptor at which line
(`HoldersOwn`), that a stream is open as long as its reader is not done
(`StreamsClosed`), that no block is lost between `write` and `contents`
(`BlocksAccounted`), and what has been read when it is used (`ContentsRead`).
`OwnedOnce`, `GivenBack` and `OutputIsComplete` follow. `AlwaysRead` needs the pool's
invariant once more: when both streams have been scheduled, each is in the
queue, being read, or done, and a stream in the queue has a free thread since
there are two of each. `Refines` maps the steps to those of `RunContract`; an
answer is a step of it because the program is over and both streams are complete.

**SampleEvalProofs.** `CountAppended` says what one more result does to a count, by
the cardinality of the set it is counted by. `RecordOfTest` is the argument
that stopping early does not harm the record: if tests are missing, a failed one
is there, so all counted tests have passed exactly when all tests have.
`InvHolds` adds to the properties that, if the results file could be opened,
whatever can be read from it when the metrics are opened is all the results
(`ResultsWritten`): without it nothing relates the two files. `MetricsMatch` has to follow old metrics
through later lines too, since a file that cannot be opened keeps them.

**PyCompileProofs.** What a directory holds is only known because its name was new
when the call began (`NewIsEmpty`), and everything in it was then made by this
call (`FilesOfCall`); that is why `BinaryOfThisCall` survives attempts which leave
things behind. `AttemptsAccounted` ties the attempts to the failures: an attempt that
does not find its byte code has a killed compiler before it, in an attempt that the
system made fail, and hence `ErrorsExplained`. `CompileRefines` joins the module to
`TesterSandboxer`: under the mapping `TestPc`, `AttemptsFailed` every step that
`Test` can see is one of the steps it is modelled with there, an attempt that fails
being `CompileError` whatever made it fail. `HashIsStable` rests on two facts: what is
loaded is whole and was made in this very directory (`StatusKept`, `FilesOfCall`),
so that each hash depends on the source and the directory alone
(`HashesDeterministic`), and `HashedParts` computes which bytes of the directory
`Deterministic` leaves: the same in two calls under the property's conditions.

**CompareOutputsProofs.** `MatchMeans` reduces `ValuesMatch` to one case distinction,
`PartsMatchMeans` an answer to the words of the texts, for sequences of any length. Then
`NearValues` is the triangle inequality over the two roundings, and `PlainValues` the
case in which there are none. `SameWordsAreAccepted` needs the comparison of the lists
as a whole: word by word a NaN would fail.

**EstimateProofs.** `EstimatesAreShares`: the loop of `run_sample_eval.cc:433-467` ends
with the share of the choices of k problems that contain a passed one. The library's
induction theorems cannot be used here, since they take an operator as a
parameter; `WFMin` takes a set, and gives `InductionOnNat`. From it follow that the
function defined by recursion exists (`FunctionBySteps`, with the functions on
`0..m` glued together), how many choices there are with one problem more (Pascal's
rule, for the sets of choices themselves: those with the new problem and those
without), that `C(n + 1, k) * (n + 1 - k) = (n + 1) * C(n, k)` (`Absorption`), and by
these the loop's invariant (`ProductIsShare`), that the product so far is the share
of choices without a passed problem. The
theorem needs that no more problems are counted as passed than there are, which
is the conjunct `EstimatesOfCounts` of `Inv`.

**Termination, as far as it is safety.** That `Test` and the runs return needs fairness
and stays with TLC, but of the two reasons why they do both are proved for all bounds.
One is that steps run out: `StepsLeft` is a natural number that every step makes
smaller (`StepsRunOut`, theorems `StepsEnd` and `StepsCounted`). In `ThreadPool` it
counts threads to make, functions to schedule, take and return from and signals
to push, take and join; in `TesterSandboxer` the pool's count is weighted, since
between two steps of the pool a worker goes through a task with up to three
attempts: `AttemptCounted` shows that each run uses one up, and `WorkerGoesOn` what
the other steps do. Sums over workers and inputs are written as cardinalities of
sets of pairs, so that no recursion is needed. In
`SandboxRun` a program may write for ever, and then only a write that it begins
may lengthen the run (`ShortensOrWrites`): a reader never takes a step that gets
it nothing. The other is that nobody is stuck. `NobodyIsStuck` says for the pool
and for `Test` that a thread that is waited for can go on, `OnlyFullPipeStalls`
(theorem `StallsOnlyCompiler`) for a run that caller, readers and program never
wait in a circle but in `CompileCode` with a full pipe. What a thread can do is
written out there as the guards of its actions (`OwnerCanMove`, `WorkerCanMove`,
`CallerCanMove`, `ReaderCanMove`, `ProgramCanMove`), since the prover has no rules for
`ENABLED`; TLC's runs check for deadlock, and the liveness properties there do
without these formulas.

**Only model-checked.** `DestructorReturns`, `TestReturns`, `RunReturns` and
`OnlyCompilerStalls`: the step from "steps run out and nobody is stuck" to "it
returns" is fairness, which is outside the prover's reach.

## 6. What is not modelled, and why

* `sandbox2`, the kernel and the programs under test: external; their outcomes
  are open.
* `nlohmann/json`: vendored. It is 22 111 of the 24 670 lines of implementation in the
  repository, so that whatever is modelled of the program itself is a small share of
  all lines.
* `solve_example`: sequential, keeps no state; its `GetInputs` and `ReportResults` are an
  earlier copy of those of `run_sample_eval`.
* The sandbox policy: a fixed list of system calls handed to a library. The data set
  tools and the Python scripts: straight-line reading and printing. `status_macros`
  and `status_matchers`: early returns, which the guards contain, and matchers of tests.
* In `run_sample_eval`, which tests `GetInputs` and `GetOutputs` take (91-137), and the
  summary at the end, which prints values that were never assigned when the file has
  no line (387-395, 490-499). A quotient over zero evaluated problems (430-431) is
  kept as its numerator and denominator.
* That two programs may have one fingerprint (`farmhash`, 135): a hash is what is
  hashed. A read of `code.pyc` (119-122) that breaks off within the file: it would be
  hashed as far as it was read.
* In `CompareOutputs`, the rounding of the subtraction itself: it is monotone, so that
  a difference within the precision stays within it.
* A process that outlives the program and keeps its end of a pipe: sandbox2 is
  assumed to kill what is left behind. `OutputComplete` is about OK answers; a read
  error (`tester_sandboxer.cc:442`) gives none, and what it leaves is the matter of
  `DescriptorsGivenBack`.
* A predicate `compare_outputs` that throws: it ends the process as a run that throws does.
* Time. The pauses of `RetryIfFail` are actions without a duration; time limits
  end a run with `TIMEOUT`.
* The move assignment of `SandboxWithOutputFds` (232-242), which forgets the
  descriptors it overwrites: nothing in the repository uses it.
