---------------------------- MODULE MCPyCompile ----------------------------
(* PyCompile in a small file system, and a claim about it.                 *)
EXTENDS PyCompile, TLC

\* One code compiles and one does not; part of either may.
Accepted == {s \in Source : s.code = "good" \/ ~s.whole}

\* The name of one directory is longer.
LengthOfPath == ("d1" :> 27 @@ "d2" :> 27 @@ "d3" :> 28)

\* The program defines functions, a part of it does not.
Functional == [code : Codes, whole : {TRUE}]

\* tester_sandboxer.h:154: "A non-OK status is returned in the event that we
\* were unable to evaluate the code."  Here it is said of the code file only: an
\* answer about the code is given when the compiler has had all of it.
UnableIsAnError ==
  ret \in {"kSuccess", "kFailed"} =>
    codeFile[dir] = {[code |-> code, whole |-> TRUE]}
=============================================================================
