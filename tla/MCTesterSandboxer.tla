------------------------- MODULE MCTesterSandboxer -------------------------
(* TesterSandboxer on small instances, and what the repository's text says *)
(* of Test that its code does not do.                                      *)
EXTENDS TesterSandboxer

Right == [final |-> "OK", code |-> 0, matches |-> TRUE]
Wrong == [final |-> "OK", code |-> 0, matches |-> FALSE]
RightButLate == [final |-> "TIMEOUT", code |-> 0, matches |-> TRUE]
Killed == [final |-> "SIGNALED", code |-> 0, matches |-> FALSE]
RightButFailed == [final |-> "OK", code |-> 1, matches |-> TRUE]
Violation == [final |-> "VIOLATION", code |-> 0, matches |-> FALSE]

\* An input may end in two ways of its own: the result tells the input.
Distinct ==
  [i \in 1..MaxInputs |->
     CASE i = 1 -> {Right, Killed}
       [] i = 2 -> {RightButLate, Wrong}
       [] OTHER -> {RightButFailed, Violation}]

\* tester_sandboxer_test.cc:423: one input early on is answered wrongly.
OneWrong == [i \in 1..MaxInputs |-> IF i = 1 THEN {Wrong} ELSE {Right}]

-----------------------------------------------------------------------------
\* tester_sandboxer_test.cc:443: "Seeing as we failed early, we expect at
\* least one of the tests to have stopped instead of running in full."  The
\* failing worker may be held up between its run and the lock while the other
\* workers finish every other input.
AtLeastOneStopped ==
  ret = "OK" /\ compilation = "kSuccess" /\ stopOnFirst
    /\ numTasks = MaxInputs /\ numThreads \in 1..(numTasks - 1) =>
      \E i \in Inputs : results[i].passed = nullopt
=============================================================================
