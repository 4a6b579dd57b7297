----------------------------- MODULE PyCompile -----------------------------
(***************************************************************************)
(* How a Python solution is compiled (execution/py_tester_sandboxer.cc,    *)
(* PyTesterSandboxer::CompileCode): the first half of every call of Test,  *)
(* with TempPath and RetryIfFail.  The calls come one after the other.     *)
(*                                                                         *)
(* The code goes into a file of a new directory and comes back as byte     *)
(* code.  Any step on the way may fail: with a status, which is retried in *)
(* the same directory; silently; or with an exception, which ends the      *)
(* process.  Nothing is ever removed, neither between attempts nor after   *)
(* the call, so each step may find what an earlier one has left.           *)
(*                                                                         *)
(* A file is the set of its content, empty when there is no such file.     *)
(***************************************************************************)
EXTENDS Naturals, Sequences

CONSTANTS
  Names,         \* the names that TempPath may draw under /tmp
  Length,        \* Length[d]: of the path of the code file in directory d
  Codes,         \* the solutions
  Compiles,      \* the sources that the compiler accepts
  WithFunctions, \* the sources that define functions
  MaxCalls       \* bound on the calls of Test

kCodeFile == "code.py"

\* A code file: a solution, or the part of it that was written before a write
\* failed.
Source == [code : Codes, whole : BOOLEAN]

ASSUME CompileAssumption ==
  /\ Compiles \subseteq Source
  /\ WithFunctions \subseteq Source
  /\ Length \in [Names -> Nat]
  /\ MaxCalls \in Nat

VARIABLES
  beside,   \* the interpreter is Python 2, which writes code.pyc beside code.py
  made,     \* the directories that exist
  codeFile, \* codeFile[d]: code.py
  binary,   \* binary[d]: code.pyc
  pycache,  \* pycache[d]: the files of __pycache__
  calls,    \* calls of Test so far
  pc,       \* where the process is in the present one
  code,     \* its argument
  dir,      \* its temp_path
  tries,    \* its attempts of CompileCode
  status,   \* execution_result.program_status of the present attempt
  ret,      \* the outcome: a program_status, "error" or "pending"
  lost,     \* history: attempts of the call that the system made fail
  killed,   \* history: a compiler of the call was killed, or could not write
  hashes    \* history: each program_hash given, with what was compiled, and where

files == <<made, codeFile, binary, pycache>>
attempt == <<tries, status, lost, killed>>

vars == <<beside, files, calls, pc, code, dir, attempt, ret, hashes>>

-----------------------------------------------------------------------------
(* Data.                                                                   *)

\* Byte code: what it was made from, in which directory and when.  It may have
\* been cut short.
ByteCode == [source : Source, path : Names, time : 0..MaxCalls, whole : BOOLEAN]

Compiled(src) == [source |-> src, path |-> dir, time |-> calls, whole |-> TRUE]

\* A file of __pycache__ gets its name when it is complete; a killed compiler
\* leaves one that has not got it.
CacheFile == [named : BOOLEAN, data : ByteCode]

Named(b) == [named |-> TRUE, data |-> b]
Unnamed(b) == [named |-> FALSE, data |-> b]

kMaxTestAttempts == 3

\* The path of the code file in directory d as it stands in byte code: after its
\* length, which Python 3 writes in one byte and Python 2 in four, the low one first.
PathAt(d) ==
  [length |-> IF beside THEN <<Length[d], 0, 0, 0>> ELSE <<Length[d]>>,
   path |-> d]

\* Byte code as CompileCode reads it: a header, and the path among the code.
\* Python 2 writes the path once more for every function, Python 3 only once.
program_data(b) ==
  [header |-> b.time, program |-> b.source, whole |-> b.whole,
   first |-> PathAt(b.path),
   others |-> IF beside /\ b.source \in WithFunctions THEN {PathAt(b.path)} ELSE {}]

\* Fault: the byte before the path stays.
KeepsLength(data) ==
  [program |-> data.program, whole |-> data.whole, others |-> data.others,
   first |-> [data.first EXCEPT !.path = kCodeFile]]

\* The bytes that are hashed: the first path and the byte before it give way to
\* kCodeFile, and the header is cut off.
Deterministic(data) ==
  [program |-> data.program, whole |-> data.whole, others |-> data.others,
   first |-> [length |-> SubSeq(data.first.length, 1, Len(data.first.length) - 1),
              path |-> kCodeFile]]

Path == [length : Seq(Nat), path : Names \cup {kCodeFile}]

Hashed ==
  [program : Source, whole : BOOLEAN, first : Path, others : SUBSET Path]

TypeOK ==
  /\ beside \in BOOLEAN
  /\ made \subseteq Names
  /\ codeFile \in [Names -> SUBSET Source]
  /\ binary \in [Names -> SUBSET ByteCode]
  /\ pycache \in [Names -> SUBSET CacheFile]
  /\ calls \in 0..MaxCalls
  /\ pc \in {"idle", "temp", "write", "sandbox", "compile", "output", "find",
             "load", "ended"}
  /\ code \in Codes
  /\ dir \in Names
  /\ tries \in 0..kMaxTestAttempts
  /\ status \in {"kUnknown", "kSuccess", "kFailed"}
  /\ ret \in {"pending", "kSuccess", "kFailed", "error"}
  /\ lost \in 0..kMaxTestAttempts
  /\ killed \in BOOLEAN
  /\ hashes \subseteq [source : Source, dir : Names, hash : Hashed]

Init ==
  /\ beside \in BOOLEAN
  /\ made = {}
  /\ codeFile = [d \in Names |-> {}]
  /\ binary = [d \in Names |-> {}]
  /\ pycache = [d \in Names |-> {}]
  /\ calls = 0
  /\ pc = "idle"
  /\ code \in Codes
  /\ dir \in Names
  /\ tries = 0
  /\ status = "kUnknown"
  /\ ret = "pending"
  /\ lost = 0
  /\ killed = FALSE
  /\ hashes = {}

-----------------------------------------------------------------------------
(* The call: TempPath, then the attempts of RetryIfFail.                   *)

\* The tests of the call before, if it got that far, are over.
BeginCall ==
  /\ pc = "idle"
  /\ calls < MaxCalls
  /\ calls' = calls + 1
  /\ code' \in Codes
  /\ pc' = "temp"
  /\ tries' = 0
  /\ status' = "kUnknown"
  /\ ret' = "pending"
  /\ lost' = 0
  /\ killed' = FALSE
  /\ UNCHANGED <<beside, files, dir, hashes>>

\* Fault: create_directory's answer is not looked at.
ReuseTempPath ==
  /\ pc = "temp"
  /\ dir' \in Names
  /\ made' = made \cup {dir'}
  /\ pc' = "write"
  /\ UNCHANGED <<beside, codeFile, binary, pycache, calls, code, attempt, ret,
                 hashes>>

MakeTempPath ==
  /\ pc = "temp"
  /\ dir' \in Names \ made
  /\ made' = made \cup {dir'}
  /\ pc' = "write"
  /\ UNCHANGED <<beside, codeFile, binary, pycache, calls, code, attempt, ret,
                 hashes>>

\* The process ends: abort when the name is taken, an exception otherwise.
EndProcess ==
  /\ pc' = "ended"
  /\ UNCHANGED <<beside, files, calls, code, dir, attempt, ret, hashes>>

TempPathFails == pc = "temp" /\ EndProcess

\* The call returns what CompileCode has returned.
Return(outcome) ==
  /\ ret' = outcome
  /\ pc' = "idle"

\* Fault: an error is not retried.
GiveUp == Return("error")

\* CompileCode returns a status: RetryIfFail pauses and tries again.
RetryOrGiveUp ==
  IF tries < kMaxTestAttempts
    THEN pc' = "write" /\ UNCHANGED ret
    ELSE Return("error")

-----------------------------------------------------------------------------
(* An attempt: CompileCode.                                                *)

\* The stream is not asked whether it could open the file, which leaves the file
\* as it was, or write all of it.
WriteCode ==
  /\ pc = "write"
  /\ tries' = tries + 1
  /\ status' = "kUnknown"
  /\ codeFile' \in
       {codeFile} \cup
       {[codeFile EXCEPT ![dir] = {[code |-> code, whole |-> w]}] :
          w \in BOOLEAN}
  /\ pc' = "sandbox"
  /\ UNCHANGED <<beside, made, binary, pycache, calls, code, dir, ret, lost,
                 killed, hashes>>

SandboxCreated ==
  /\ pc = "sandbox"
  /\ pc' = "compile"
  /\ UNCHANGED <<beside, files, calls, code, dir, attempt, ret, hashes>>

\* The system fails the attempt, with a status: the sandbox cannot be created or
\* started, or its output cannot be read.
AttemptFails ==
  /\ pc \in {"sandbox", "output"}
  /\ lost' = lost + 1
  /\ RetryOrGiveUp
  /\ UNCHANGED <<beside, files, calls, code, dir, tries, status, killed, hashes>>

\* The compiler exits with 0 and has replaced the byte code.
CompilerAccepts ==
  /\ pc = "compile"
  /\ \E src \in codeFile[dir] \cap Compiles :
       IF beside
         THEN /\ binary' = [binary EXCEPT ![dir] = {Compiled(src)}]
              /\ UNCHANGED pycache
         ELSE /\ pycache' = [pycache EXCEPT ![dir] =
                    {f \in @ : ~f.named} \cup {Named(Compiled(src))}]
              /\ UNCHANGED binary
  /\ status' = "kSuccess"
  /\ pc' = "output"
  /\ UNCHANGED <<beside, made, codeFile, calls, code, dir, tries, ret, lost,
                 killed, hashes>>

\* The compiler exits with 1: it finds no file, or an error in it.
CompilerRejects ==
  /\ pc = "compile"
  /\ codeFile[dir] \cap Compiles = {}
  /\ status' = "kFailed"
  /\ pc' = "output"
  /\ UNCHANGED <<beside, files, calls, code, dir, tries, ret, lost, killed,
                 hashes>>

\* Fault: only the reason code is looked at.
KilledSucceeds ==
  /\ pc = "compile"
  /\ status' = "kSuccess"
  /\ killed' = TRUE
  /\ pc' = "output"
  /\ UNCHANGED <<beside, files, calls, code, dir, tries, ret, lost, hashes>>

\* The sandbox ends the compiler, or the system keeps it from writing and it exits
\* with 1: either may leave byte code half written.
CompilerKilled ==
  /\ pc = "compile"
  /\ \/ UNCHANGED <<binary, pycache>>
     \/ \E src \in codeFile[dir] \cap Compiles, w \in BOOLEAN :
          LET b == [Compiled(src) EXCEPT !.whole = w] IN
          IF beside
            THEN /\ binary' = [binary EXCEPT ![dir] = {b}]
                 /\ UNCHANGED pycache
            ELSE /\ pycache' = [pycache EXCEPT ![dir] = @ \cup {Unnamed(b)}]
                 /\ UNCHANGED binary
  /\ status' = "kFailed"
  /\ killed' = TRUE
  /\ pc' = "output"
  /\ UNCHANGED <<beside, made, codeFile, calls, code, dir, tries, ret, lost,
                 hashes>>

\* Both streams have been read.
CodeIsInvalid ==
  /\ pc = "output"
  /\ status = "kFailed"
  /\ Return("kFailed")
  /\ UNCHANGED <<beside, files, calls, code, dir, attempt, hashes>>

CodeIsValid ==
  /\ pc = "output"
  /\ status = "kSuccess"
  /\ pc' = "find"
  /\ UNCHANGED <<beside, files, calls, code, dir, attempt, ret, hashes>>

BinaryExists ==
  /\ pc = "find"
  /\ binary[dir] # {}
  /\ pc' = "load"
  /\ UNCHANGED <<beside, files, calls, code, dir, attempt, ret, hashes>>

\* Fault: the first file that is found will do.
CopyFirstMatch ==
  /\ pc = "find"
  /\ binary[dir] = {}
  /\ \E f \in pycache[dir] : binary' = [binary EXCEPT ![dir] = {f.data}]
  /\ pc' = "load"
  /\ UNCHANGED <<beside, made, codeFile, pycache, calls, code, dir, attempt,
                 ret, hashes>>

CopyOnlyMatch ==
  /\ pc = "find"
  /\ binary[dir] = {}
  /\ \E f \in pycache[dir] :
       /\ pycache[dir] = {f}
       /\ binary' = [binary EXCEPT ![dir] = {f.data}]
  /\ pc' = "load"
  /\ UNCHANGED <<beside, made, codeFile, pycache, calls, code, dir, attempt,
                 ret, hashes>>

\* matches.size() != 1: an error, which is retried among the same files.
NotIdentified ==
  /\ pc = "find"
  /\ binary[dir] = {}
  /\ \A f \in pycache[dir] : pycache[dir] # {f}
  /\ RetryOrGiveUp
  /\ UNCHANGED <<beside, files, calls, code, dir, attempt, hashes>>

\* The byte code is hashed, and stays where the tests will find it.
LoadBinary ==
  /\ pc = "load"
  /\ \E b \in binary[dir] :
       hashes' = hashes \cup {[source |-> b.source, dir |-> dir,
                               hash |-> Deterministic(program_data(b))]}
  /\ Return("kSuccess")
  /\ UNCHANGED <<beside, files, calls, code, dir, attempt>>

\* directory_iterator or copy throws; or code.pyc cannot be opened, so that
\* program_data is empty, find returns npos and replace throws.
FileSystemThrows ==
  /\ \/ pc = "find" /\ binary[dir] = {}
     \/ pc = "load"
  /\ EndProcess

\* The evaluation is started again, among the directories that are left.
Restart ==
  /\ pc = "ended"
  /\ calls < MaxCalls
  /\ pc' = "idle"
  /\ UNCHANGED <<beside, files, calls, code, dir, attempt, ret, hashes>>

-----------------------------------------------------------------------------
CallStep == BeginCall \/ MakeTempPath \/ TempPathFails

CompileCode ==
  \/ WriteCode \/ SandboxCreated \/ AttemptFails
  \/ CompilerAccepts \/ CompilerRejects \/ CompilerKilled
  \/ CodeIsInvalid \/ CodeIsValid
  \/ BinaryExists \/ CopyOnlyMatch \/ NotIdentified \/ LoadBinary
  \/ FileSystemThrows

\* The bound on calls is reached.
Finished == pc \in {"idle", "ended"} /\ calls = MaxCalls /\ UNCHANGED vars

Next == CallStep \/ CompileCode \/ Restart \/ Finished

Spec == Init /\ [][Next]_vars

-----------------------------------------------------------------------------
(* Properties.                                                             *)

\* Code that is accepted is this code: what the tests will run was compiled in
\* this call from what the call has written, though the directory may have been
\* left dirty by an attempt, and other directories by other calls.
BinaryOfThisCall ==
  ret = "kSuccess" =>
    \E b \in binary[dir] : binary[dir] = {b} /\ b.whole /\ b.source.code = code

\* An error is answered only after the system has made three attempts fail, or
\* one of them after a compiler had been killed and had left its file behind.
ErrorExplained ==
  ret = "error" => lost = kMaxTestAttempts \/ (killed /\ lost > 0)

\* What one attempt leaves never misleads the next, and without failures of the
\* system the answer is the compiler's: a source that it accepts is accepted.
AnswerIsCompilers ==
  /\ ret = "kSuccess" => codeFile[dir] \subseteq Compiles
  /\ ret = "kFailed" /\ ~killed => codeFile[dir] \cap Compiles = {}

\* How far the hash is "the same for all identical programs compiled with the
\* same binary" (tester_sandboxer.h:58): with Python 3 in every call, whatever the
\* name of the directory and the time; with Python 2 only for a program without
\* functions, and among directories whose names are equally long.
SameProgramSameHash ==
  \A g, h \in hashes :
    /\ g.source = h.source
    /\ beside => g.source \notin WithFunctions /\ Length[g.dir] = Length[h.dir]
    => g.hash = h.hash

\* The call has its directory.
Begun == pc \in {"write", "sandbox", "compile", "output", "find", "load"}
Answered == pc = "idle" /\ ret # "pending"

\* The call of Test that compiles, as TesterSandboxer has it.  It has not made its
\* pool nor looked at its inputs; as if there were none.
TestPc ==
  CASE pc = "temp"                       -> "validate"
    [] Begun                             -> "compile"
    [] pc = "ended"                      -> "aborted"
    [] pc = "idle" /\ ret = "pending"    -> "validate"
    [] pc = "idle" /\ ret = "kSuccess"   -> "testing"
    [] pc = "idle" /\ ret \in {"kFailed", "error"} -> "returned"

\* The attempts that have failed with a status.
AttemptsFailed ==
  IF pc = "idle" /\ ret = "pending" THEN 0
  ELSE IF pc = "write" \/ ret = "error" \/ tries = 0 THEN tries
  ELSE tries - 1

Test == INSTANCE TesterSandboxer WITH
  MaxThreads <- 0, MaxInputs <- 0, Reports <- <<>>,
  numThreads <- 0, numTasks <- 0, owner <- "starting", threads <- 0,
  scheduled <- 0, queue <- <<>>, joined <- 0, worker <- <<>>, func <- <<>>,
  taken <- 0, done <- {}, numExpected <- 0, stopOnFirst <- FALSE,
  shouldStop <- FALSE, overall <- "OK", results <- <<>>, phase <- <<>>,
  tries <- <<>>, got <- <<>>,
  pc <- TestPc,
  compileTries <- AttemptsFailed,
  compilation <- IF ret \in {"kSuccess", "kFailed"} THEN ret ELSE "kUnknown",
  ret <- IF ret = "kSuccess" THEN "pending" ELSE IF ret = "kFailed" THEN "OK" ELSE ret

\* Files, failures and all, compiling is what TesterSandboxer says it is: a step
\* of MakeTempPath, CompileError, CompileThrows, CompileFailed or Compiled, or
\* nothing that Test could see; or another call begins.
StepOfTest ==
  \/ Test!MakeTempPath \/ Test!CompileError \/ Test!CompileThrows
  \/ Test!CompileFailed \/ Test!Compiled
  \/ (BeginCall \/ Restart) /\ Test!Init'
CompilesAsTest == Test!Init /\ [][StepOfTest]_(Test!vars)

-----------------------------------------------------------------------------
(* The inductive invariant.                                                *)

\* A directory that has not been made holds nothing.
NewIsEmpty ==
  \A d \in Names \ made : codeFile[d] = {} /\ binary[d] = {} /\ pycache[d] = {}

\* Everything in the directory of a call was made there in this call, and what has
\* a compiler's name for it is whole unless a compiler was killed.
FilesOfCall ==
  Begun \/ Answered =>
    /\ dir \in made
    /\ \A s \in codeFile[dir] : s.code = code /\ codeFile[dir] = {s}
    /\ \A b \in binary[dir] :
         b.source.code = code /\ b.path = dir /\ binary[dir] = {b}
    /\ \A f \in pycache[dir] :
         /\ f.data.source.code = code /\ f.data.path = dir
         /\ f.named => f.data.whole
    /\ \A f, g \in pycache[dir] : f.named /\ g.named => f = g
    /\ IF beside THEN pycache[dir] = {}
                 ELSE pc \in {"load", "idle"} \/ binary[dir] = {}

\* Where there is an outcome, and what the last attempt has come to.
StatusKept ==
  /\ pc \notin {"idle"} => ret = "pending"
  /\ pc \in {"find", "load"} => status = "kSuccess"
  /\ pc \in {"output", "find", "load"} /\ status = "kSuccess" =>
       /\ codeFile[dir] \cap Compiles # {}
       /\ beside => \E b \in binary[dir] : b.whole
       /\ ~beside => \E f \in pycache[dir] : f.named
  /\ pc = "output" /\ status # "kSuccess" =>
       status = "kFailed" /\ (killed \/ codeFile[dir] \cap Compiles = {})
  /\ pc = "load" => \E b \in binary[dir] : b.whole

\* Each attempt that failed was lost to the system, or found a file that a killed
\* compiler had left in an attempt that was lost.
AttemptsAccounted ==
  /\ lost <= tries
  /\ pc = "temp" => tries = 0
  /\ pc = "write" => tries < kMaxTestAttempts
  /\ Begun /\ pc # "write" => 0 < tries /\ lost < tries
  /\ pc = "write" => lost = tries \/ (killed /\ lost > 0)
  /\ Begun /\ pc # "write" => lost = tries - 1 \/ (killed /\ lost > 0)
  /\ Begun => \A f \in pycache[dir] : ~f.named =>
       killed /\ (lost > 0 \/ (pc = "output" /\ status = "kFailed"))

\* Each hash is that of byte code which is whole and was made in its directory, at
\* whatever time.
HashesDeterministic ==
  \A h \in hashes :
    h.hash = Deterministic(program_data([source |-> h.source, path |-> h.dir,
                                         time |-> 0, whole |-> TRUE]))

\* What each file in the directories is and how many attempts there have been,
\* at every step of a call.
Inv ==
  /\ TypeOK
  /\ NewIsEmpty
  /\ FilesOfCall
  /\ StatusKept
  /\ AttemptsAccounted
  /\ HashesDeterministic
  /\ BinaryOfThisCall
  /\ ErrorExplained
  /\ AnswerIsCompilers
=============================================================================
