---------------------------- MODULE RunContract ----------------------------
(***************************************************************************)
(* What a sandboxed run promises the function that makes it (RunCodeOnInput *)
(* and CompileCode): the program writes and ends as it likes, and the      *)
(* answer is an error, or the final status with all that was written.      *)
(***************************************************************************)
EXTENDS Naturals

VARIABLES
  program,   \* the program: its state, or its final status
  sent,      \* sent[s]: the blocks it has written to stream s
  ret,       \* the status returned, or "pending"
  output     \* output[s]: what is returned of stream s

vars == <<program, sent, ret, output>>

Streams == 1..2

Init ==
  /\ program = "none"
  /\ sent = [s \in Streams |-> 0]
  /\ ret = "pending"
  /\ output = [s \in Streams |-> {}]

Start ==
  /\ program = "none"
  /\ ret = "pending"
  /\ program' = "running"
  /\ UNCHANGED <<sent, ret, output>>

Write(s) ==
  /\ program = "running"
  /\ sent' = [sent EXCEPT ![s] = @ + 1]
  /\ UNCHANGED <<program, ret, output>>

End ==
  /\ program = "running"
  /\ program' \in {"OK", "TIMEOUT", "SIGNALED", "VIOLATION"}
  /\ UNCHANGED <<sent, ret, output>>

Fail ==
  /\ ret = "pending"
  /\ ret' = "error"
  /\ UNCHANGED <<program, sent, output>>

\* The program is over, so that what is answered is final.
Answer ==
  /\ ret = "pending"
  /\ program \notin {"none", "running"}
  /\ ret' = "OK"
  /\ output' = [s \in Streams |-> {sent[s]}]
  /\ UNCHANGED <<program, sent>>

Next == Start \/ (\E s \in Streams : Write(s)) \/ End \/ Fail \/ Answer

Spec == Init /\ [][Next]_vars

=============================================================================
