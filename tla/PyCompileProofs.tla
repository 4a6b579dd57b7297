-------------------------- MODULE PyCompileProofs --------------------------
(***************************************************************************)
(* Proofs about PyCompile, for any set of directory names and codes, any   *)
(* compiler, and any number of calls.                                      *)
(***************************************************************************)
EXTENDS PyCompile, SequenceTheorems, TLAPS

-----------------------------------------------------------------------------
(* The actions by what they do to the directories.                         *)

\* Steps that leave every file as it is.
KeepsFiles ==
  \/ BeginCall \/ TempPathFails \/ SandboxCreated \/ AttemptFails
  \/ CompilerRejects \/ CodeIsInvalid \/ CodeIsValid \/ BinaryExists
  \/ NotIdentified \/ LoadBinary \/ FileSystemThrows \/ Restart \/ Finished

\* Every step keeps the files or is one of these five.
LEMMA StepCases ==
  ASSUME Next
  PROVE  KeepsFiles \/ MakeTempPath \/ WriteCode \/ CompilerAccepts
         \/ CompilerKilled \/ CopyOnlyMatch
  BY DEF Next, CallStep, CompileCode, KeepsFiles

\* What a compiler makes is byte code, whole or not.
LEMMA CompiledType ==
  ASSUME TypeOK, NEW src \in Source, NEW w \in BOOLEAN
  PROVE  /\ Compiled(src) \in ByteCode
         /\ [Compiled(src) EXCEPT !.whole = w] \in ByteCode
         /\ [Compiled(src) EXCEPT !.whole = w].source = src
         /\ [Compiled(src) EXCEPT !.whole = w].whole = w
         /\ [Compiled(src) EXCEPT !.whole = w].path = dir
         /\ Compiled(src).source = src
         /\ Compiled(src).path = dir
         /\ Compiled(src).whole = TRUE
  BY CompileAssumption DEF TypeOK, Compiled, ByteCode

\* The path in byte code, less the byte before it.
LEMMA PathType ==
  ASSUME NEW d \in Names
  PROVE  /\ PathAt(d) \in Path
         /\ SubSeq(PathAt(d).length, 1, Len(PathAt(d).length) - 1)
              = IF beside THEN <<Length[d], 0, 0>> ELSE <<>>
<1>1. Length[d] \in Nat
  BY CompileAssumption
<1>2. <<Length[d], 0, 0, 0>> \in Seq(Nat) /\ <<Length[d]>> \in Seq(Nat)
  BY <1>1
<1>3. PathAt(d).length = IF beside THEN <<Length[d], 0, 0, 0>> ELSE <<Length[d]>>
  BY DEF PathAt
<1>4. PathAt(d) \in Path
  BY <1>2 DEF PathAt, Path
<1>5. SubSeq(<<Length[d]>>, 1, 0) = <<>>
  BY SubSeqEmpty
<1>6. SubSeq(<<Length[d], 0, 0, 0>>, 1, 3) = <<Length[d], 0, 0>>
  <2> DEFINE s == <<Length[d], 0, 0, 0>>
             t == <<Length[d], 0, 0>>
  <2>1. /\ s[1] = Length[d] /\ s[2] = 0 /\ s[3] = 0
        /\ t[1] = Length[d] /\ t[2] = 0 /\ t[3] = 0
        /\ t \in Seq(Nat) /\ Len(t) = 3
    BY <1>1
  <2> HIDE DEF s, t
  <2>2. \A i \in 1..3 : i = 1 \/ i = 2 \/ i = 3
    OBVIOUS
  <2>3. \A i \in 1..3 : s[i] \in Nat /\ s[i] = t[i]
    BY <1>1, <2>1, <2>2
  <2>4. /\ SubSeq(s, 1, 3) \in Seq(Nat)
        /\ Len(SubSeq(s, 1, 3)) = 3
        /\ \A i \in 1..3 : SubSeq(s, 1, 3)[i] = s[i]
    <3>1. /\ SubSeq(s, 1, 3) \in Seq(Nat)
          /\ Len(SubSeq(s, 1, 3)) = IF 1 <= 3 THEN 3 - 1 + 1 ELSE 0
          /\ \A i \in 1 .. 3 - 1 + 1 : SubSeq(s, 1, 3)[i] = s[1 + i - 1]
      BY <2>3, SubSeqProperties
    <3> QED
      BY <3>1
  <2>5. SubSeq(s, 1, 3) = t
    BY <2>1, <2>3, <2>4, SeqEqual
  <2> QED
    BY <2>5 DEF s, t
<1>7. Len(<<Length[d], 0, 0, 0>>) = 4 /\ Len(<<Length[d]>>) = 1
  OBVIOUS
<1>8. CASE beside
  BY <1>3, <1>4, <1>6, <1>7, <1>8
<1>9. CASE ~beside
  BY <1>3, <1>4, <1>5, <1>7, <1>9
<1> QED
  BY <1>8, <1>9

\* What is hashed of byte code: not the time, and of the directory the bytes of the
\* length but one, and the paths of functions.
LEMMA HashedParts ==
  ASSUME NEW b \in ByteCode
  PROVE  /\ Deterministic(program_data(b)) \in Hashed
         /\ Deterministic(program_data(b)) =
              [program |-> b.source, whole |-> b.whole,
               others |-> IF beside /\ b.source \in WithFunctions
                            THEN {PathAt(b.path)} ELSE {},
               first |-> [length |-> IF beside THEN <<Length[b.path], 0, 0>>
                                               ELSE <<>>,
                          path |-> kCodeFile]]
<1>1. b.source \in Source /\ b.whole \in BOOLEAN /\ b.path \in Names
  BY DEF ByteCode
<1>2. Deterministic(program_data(b)) =
        [program |-> b.source, whole |-> b.whole,
         others |-> IF beside /\ b.source \in WithFunctions
                      THEN {PathAt(b.path)} ELSE {},
         first |-> [length |-> IF beside THEN <<Length[b.path], 0, 0>> ELSE <<>>,
                    path |-> kCodeFile]]
  BY <1>1, PathType DEF Deterministic, program_data
<1>3. [length |-> IF beside THEN <<Length[b.path], 0, 0>> ELSE <<>>,
       path |-> kCodeFile] \in Path
  <2>1. Length[b.path] \in Nat
    BY <1>1, CompileAssumption
  <2> QED
    BY <2>1 DEF Path
<1>4. PathAt(b.path) \in Path
  BY <1>1, PathType
<1> QED
  BY <1>1, <1>2, <1>3, <1>4 DEF Hashed

\* A file of __pycache__ is its name and its data.
LEMMA CacheFileType ==
  ASSUME NEW b \in ByteCode
  PROVE  /\ Named(b) \in CacheFile /\ Named(b).named = TRUE /\ Named(b).data = b
         /\ Unnamed(b) \in CacheFile /\ Unnamed(b).named = FALSE
         /\ Unnamed(b).data = b
  BY DEF Named, Unnamed, CacheFile

-----------------------------------------------------------------------------
(* Types.                                                                  *)

\* The type invariant, one action at a time.
LEMMA TypeStep ==
  ASSUME TypeOK, AttemptsAccounted, Next
  PROVE  TypeOK'
<1>1. CASE BeginCall
  <2>1. calls' \in 0..MaxCalls /\ 0 \in 0..kMaxTestAttempts
    BY <1>1, CompileAssumption DEF TypeOK, BeginCall, kMaxTestAttempts
  <2> QED
    BY <1>1, <2>1 DEF TypeOK, BeginCall, files
<1>2. CASE MakeTempPath
  BY <1>2 DEF TypeOK, MakeTempPath, attempt
<1>3. CASE TempPathFails
  BY <1>3 DEF TypeOK, TempPathFails, EndProcess, files, attempt
<1>4. CASE WriteCode
  <2>1. codeFile' \in [Names -> SUBSET Source]
    BY <1>4 DEF TypeOK, WriteCode, Source
  <2>2. tries' \in 0..kMaxTestAttempts
    BY <1>4 DEF TypeOK, WriteCode, AttemptsAccounted, kMaxTestAttempts
  <2> QED
    BY <1>4, <2>1, <2>2 DEF TypeOK, WriteCode
<1>5. CASE SandboxCreated
  BY <1>5 DEF TypeOK, SandboxCreated, files, attempt
<1>6. CASE AttemptFails
  BY <1>6 DEF TypeOK, AttemptFails, RetryOrGiveUp, Return, files,
     AttemptsAccounted, Begun, kMaxTestAttempts
<1>7. CASE CompilerAccepts
  <2> PICK src \in codeFile[dir] \cap Compiles :
        IF beside
          THEN /\ binary' = [binary EXCEPT ![dir] = {Compiled(src)}]
               /\ UNCHANGED pycache
          ELSE /\ pycache' = [pycache EXCEPT ![dir] =
                     {f \in @ : ~f.named} \cup {Named(Compiled(src))}]
               /\ UNCHANGED binary
    BY <1>7 DEF CompilerAccepts
  <2>1. src \in Source
    BY CompileAssumption
  <2>2. Compiled(src) \in ByteCode
    BY <2>1, CompiledType
  <2>3. Named(Compiled(src)) \in CacheFile
    BY <2>2, CacheFileType
  <2>4. /\ binary' \in [Names -> SUBSET ByteCode]
        /\ pycache' \in [Names -> SUBSET CacheFile]
    BY <2>2, <2>3 DEF TypeOK
  <2> QED
    BY <1>7, <2>4 DEF TypeOK, CompilerAccepts
<1>8. CASE CompilerRejects
  BY <1>8 DEF TypeOK, CompilerRejects, files
<1>9. CASE CompilerKilled
  <2>1. /\ binary' \in [Names -> SUBSET ByteCode]
        /\ pycache' \in [Names -> SUBSET CacheFile]
    <3>1. CASE UNCHANGED <<binary, pycache>>
      BY <3>1 DEF TypeOK
    <3>2. ASSUME NEW src \in codeFile[dir] \cap Compiles, NEW w \in BOOLEAN,
                 LET b == [Compiled(src) EXCEPT !.whole = w] IN
                 IF beside
                   THEN /\ binary' = [binary EXCEPT ![dir] = {b}]
                        /\ UNCHANGED pycache
                   ELSE /\ pycache' = [pycache EXCEPT ![dir] = @ \cup {Unnamed(b)}]
                        /\ UNCHANGED binary
          PROVE  /\ binary' \in [Names -> SUBSET ByteCode]
                 /\ pycache' \in [Names -> SUBSET CacheFile]
      <4> DEFINE b == [Compiled(src) EXCEPT !.whole = w]
      <4>1. src \in Source
        BY CompileAssumption
      <4>2. b \in ByteCode
        BY <4>1, CompiledType
      <4>3. Unnamed(b) \in CacheFile
        BY <4>2, CacheFileType
      <4> HIDE DEF b
      <4> QED
        BY <3>2, <4>2, <4>3 DEF TypeOK, b
    <3> QED
      BY <1>9, <3>1, <3>2 DEF CompilerKilled
  <2> QED
    BY <1>9, <2>1 DEF TypeOK, CompilerKilled
<1>10. CASE CodeIsInvalid
  BY <1>10 DEF TypeOK, CodeIsInvalid, Return, files, attempt
<1>11. CASE CodeIsValid
  BY <1>11 DEF TypeOK, CodeIsValid, files, attempt
<1>12. CASE BinaryExists
  BY <1>12 DEF TypeOK, BinaryExists, files, attempt
<1>13. CASE CopyOnlyMatch
  <2>1. binary' \in [Names -> SUBSET ByteCode]
    BY <1>13 DEF TypeOK, CopyOnlyMatch, CacheFile
  <2> QED
    BY <1>13, <2>1 DEF TypeOK, CopyOnlyMatch, attempt
<1>14. CASE NotIdentified
  BY <1>14 DEF TypeOK, NotIdentified, RetryOrGiveUp, Return, files, attempt
<1>15. CASE LoadBinary
  <2>1. hashes' \subseteq [source : Source, dir : Names, hash : Hashed]
    <3> PICK b \in binary[dir] :
          hashes' = hashes \cup {[source |-> b.source, dir |-> dir,
                                  hash |-> Deterministic(program_data(b))]}
      BY <1>15 DEF LoadBinary
    <3>1. b \in ByteCode /\ dir \in Names
      BY DEF TypeOK
    <3>2. b.source \in Source /\ Deterministic(program_data(b)) \in Hashed
      BY <3>1, HashedParts DEF ByteCode
    <3> QED
      BY <3>1, <3>2 DEF TypeOK
  <2> QED
    BY <1>15, <2>1 DEF TypeOK, LoadBinary, Return, files, attempt
<1>16. CASE FileSystemThrows
  BY <1>16 DEF TypeOK, FileSystemThrows, EndProcess, files, attempt
<1>17. CASE Restart
  BY <1>17 DEF TypeOK, Restart, files, attempt
<1>18. CASE Finished
  BY <1>18 DEF TypeOK, Finished, vars, files, attempt
<1> QED
  BY <1>1, <1>2, <1>3, <1>4, <1>5, <1>6, <1>7, <1>8, <1>9, <1>10, <1>11,
     <1>12, <1>13, <1>14, <1>15, <1>16, <1>17, <1>18
     DEF Next, CallStep, CompileCode

-----------------------------------------------------------------------------
(* The files.                                                              *)

\* A step changes files of the call's own directory only.
LEMMA OthersKept ==
  ASSUME TypeOK, Next
  PROVE  /\ made \subseteq made'
         /\ ~MakeTempPath => made' = made
         /\ \A d \in Names : (~Begun \/ d # dir) =>
              /\ codeFile'[d] = codeFile[d]
              /\ binary'[d] = binary[d]
              /\ pycache'[d] = pycache[d]
<1>1. CASE KeepsFiles
  BY <1>1 DEF KeepsFiles, BeginCall, TempPathFails, EndProcess, SandboxCreated,
     AttemptFails, CompilerRejects, CodeIsInvalid, CodeIsValid, BinaryExists,
     NotIdentified, LoadBinary, FileSystemThrows, Restart, Finished, vars, files
<1>2. CASE MakeTempPath
  BY <1>2 DEF MakeTempPath
<1>3. CASE WriteCode
  BY <1>3 DEF WriteCode, TypeOK, Begun
<1>4. CASE CompilerAccepts
  BY <1>4 DEF CompilerAccepts, TypeOK, Begun
<1>5. CASE CompilerKilled
  BY <1>5 DEF CompilerKilled, TypeOK, Begun
<1>6. CASE CopyOnlyMatch
  BY <1>6 DEF CopyOnlyMatch, TypeOK, Begun
<1> QED
  BY <1>1, <1>2, <1>3, <1>4, <1>5, <1>6, StepCases

LEMMA NewIsEmptyStep ==
  ASSUME TypeOK, NewIsEmpty, FilesOfCall, Next
  PROVE  NewIsEmpty'
BY OthersKept DEF NewIsEmpty, FilesOfCall

\* What the compiler leaves when it accepts, by the place it leaves it in.
LEMMA AcceptedFiles ==
  ASSUME TypeOK, CompilerAccepts
  PROVE  \E src \in codeFile[dir] \cap Compiles, b \in ByteCode :
           /\ b.source = src /\ b.path = dir /\ b.whole
           /\ beside => binary'[dir] = {b} /\ pycache'[dir] = pycache[dir]
           /\ ~beside => /\ binary'[dir] = binary[dir]
                         /\ pycache'[dir] =
                              {f \in pycache[dir] : ~f.named} \cup {Named(b)}
<1> PICK src \in codeFile[dir] \cap Compiles :
      IF beside
        THEN /\ binary' = [binary EXCEPT ![dir] = {Compiled(src)}]
             /\ UNCHANGED pycache
        ELSE /\ pycache' = [pycache EXCEPT ![dir] =
                   {f \in @ : ~f.named} \cup {Named(Compiled(src))}]
             /\ UNCHANGED binary
  BY DEF CompilerAccepts
<1>1. src \in Source
  BY CompileAssumption
<1>2. /\ Compiled(src) \in ByteCode /\ Compiled(src).source = src
      /\ Compiled(src).path = dir /\ Compiled(src).whole
  BY <1>1, CompiledType
<1>3. /\ beside => binary'[dir] = {Compiled(src)} /\ pycache'[dir] = pycache[dir]
      /\ ~beside => /\ binary'[dir] = binary[dir]
                    /\ pycache'[dir] = {f \in pycache[dir] : ~f.named}
                         \cup {Named(Compiled(src))}
  BY DEF TypeOK
<1> QED
  BY <1>2, <1>3

\* What a killed compiler leaves.
LEMMA KilledFiles ==
  ASSUME TypeOK, CompilerKilled
  PROVE  \/ binary'[dir] = binary[dir] /\ pycache'[dir] = pycache[dir]
         \/ \E src \in codeFile[dir] \cap Compiles, b \in ByteCode :
              /\ b.source = src /\ b.path = dir
              /\ beside => binary'[dir] = {b} /\ pycache'[dir] = pycache[dir]
              /\ ~beside => /\ binary'[dir] = binary[dir]
                            /\ pycache'[dir] = pycache[dir] \cup {Unnamed(b)}
<1>1. CASE UNCHANGED <<binary, pycache>>
  BY <1>1
<1>2. ASSUME NEW src \in codeFile[dir] \cap Compiles, NEW w \in BOOLEAN,
             LET b == [Compiled(src) EXCEPT !.whole = w] IN
             IF beside
               THEN /\ binary' = [binary EXCEPT ![dir] = {b}]
                    /\ UNCHANGED pycache
               ELSE /\ pycache' = [pycache EXCEPT ![dir] = @ \cup {Unnamed(b)}]
                    /\ UNCHANGED binary
      PROVE  \E b \in ByteCode :
               /\ b.source = src /\ b.path = dir
               /\ beside => binary'[dir] = {b} /\ pycache'[dir] = pycache[dir]
               /\ ~beside => /\ binary'[dir] = binary[dir]
                             /\ pycache'[dir] = pycache[dir] \cup {Unnamed(b)}
  <2> DEFINE b == [Compiled(src) EXCEPT !.whole = w]
  <2>1. src \in Source
    BY CompileAssumption
  <2>2. b \in ByteCode /\ b.source = src /\ b.path = dir
    BY <2>1, CompiledType
  <2>3. /\ beside => binary'[dir] = {b} /\ pycache'[dir] = pycache[dir]
        /\ ~beside => /\ binary'[dir] = binary[dir]
                      /\ pycache'[dir] = pycache[dir] \cup {Unnamed(b)}
    BY <1>2 DEF TypeOK
  <2> HIDE DEF b
  <2> QED
    BY <2>2, <2>3
<1> QED
  BY <1>1, <1>2 DEF CompilerKilled

\* Everything in the directory is of this call.
LEMMA FilesOfCallStep ==
  ASSUME TypeOK, NewIsEmpty, FilesOfCall, StatusKept, Next
  PROVE  FilesOfCall'
<1>1. CASE BeginCall
  BY <1>1 DEF BeginCall, FilesOfCall, Begun, Answered
<1>2. CASE MakeTempPath
  BY <1>2 DEF MakeTempPath, FilesOfCall, Begun, Answered, NewIsEmpty, TypeOK
<1>3. CASE WriteCode
  <2>1. /\ dir' = dir /\ made' = made /\ code' = code /\ beside' = beside
        /\ binary' = binary /\ pycache' = pycache
        /\ codeFile'[dir] = codeFile[dir]
           \/ \E w \in BOOLEAN : codeFile'[dir] = {[code |-> code, whole |-> w]}
    BY <1>3 DEF WriteCode, TypeOK
  <2>2. \A s \in codeFile'[dir] : s.code = code /\ codeFile'[dir] = {s}
    BY <1>3, <2>1 DEF FilesOfCall, Begun, WriteCode
  <2> QED
    BY <1>3, <2>1, <2>2 DEF FilesOfCall, Begun, WriteCode
<1>4. CASE CompilerAccepts
  <2> PICK src \in codeFile[dir] \cap Compiles, b \in ByteCode :
        /\ b.source = src /\ b.path = dir /\ b.whole
        /\ beside => binary'[dir] = {b} /\ pycache'[dir] = pycache[dir]
        /\ ~beside => /\ binary'[dir] = binary[dir]
                      /\ pycache'[dir] =
                           {f \in pycache[dir] : ~f.named} \cup {Named(b)}
    BY <1>4, AcceptedFiles
  <2>1. Named(b).named /\ Named(b).data = b
    BY CacheFileType
  <2>2. /\ dir' = dir /\ made' = made /\ code' = code /\ beside' = beside
        /\ codeFile' = codeFile /\ Begun /\ pc = "compile" /\ pc' = "output"
    BY <1>4 DEF CompilerAccepts, Begun
  <2>3. b.source.code = code
    BY <2>2 DEF FilesOfCall
  <2>4. \A c \in binary'[dir] :
          c.source.code = code /\ c.path = dir /\ binary'[dir] = {c}
    BY <2>2, <2>3 DEF FilesOfCall, TypeOK
  <2>5. /\ \A f \in pycache'[dir] :
             /\ f.data.source.code = code /\ f.data.path = dir
             /\ f.named => f.data.whole
        /\ \A f, g \in pycache'[dir] : f.named /\ g.named => f = g
    BY <2>1, <2>2, <2>3 DEF FilesOfCall, TypeOK
  <2>6. IF beside THEN pycache'[dir] = {} ELSE binary'[dir] = {}
    BY <2>2 DEF FilesOfCall, TypeOK
  <2> QED
    BY <2>2, <2>4, <2>5, <2>6 DEF FilesOfCall
<1>5. CASE CompilerKilled
  <2>2. /\ dir' = dir /\ made' = made /\ code' = code /\ beside' = beside
        /\ codeFile' = codeFile /\ Begun /\ pc = "compile" /\ pc' = "output"
    BY <1>5 DEF CompilerKilled, Begun
  <2>3. CASE binary'[dir] = binary[dir] /\ pycache'[dir] = pycache[dir]
    BY <2>2, <2>3 DEF FilesOfCall
  <2>4. ASSUME NEW src \in codeFile[dir] \cap Compiles, NEW b \in ByteCode,
               /\ b.source = src /\ b.path = dir
               /\ beside => binary'[dir] = {b} /\ pycache'[dir] = pycache[dir]
               /\ ~beside => /\ binary'[dir] = binary[dir]
                             /\ pycache'[dir] = pycache[dir] \cup {Unnamed(b)}
        PROVE  FilesOfCall'
    <3>1. ~Unnamed(b).named /\ Unnamed(b).data = b
      BY CacheFileType
    <3>2. b.source.code = code
      BY <2>2, <2>4 DEF FilesOfCall
    <3>3. \A c \in binary'[dir] :
          c.source.code = code /\ c.path = dir /\ binary'[dir] = {c}
      BY <2>2, <2>4, <3>2 DEF FilesOfCall, TypeOK
    <3>4. /\ \A f \in pycache'[dir] :
               /\ f.data.source.code = code /\ f.data.path = dir
               /\ f.named => f.data.whole
          /\ \A f, g \in pycache'[dir] : f.named /\ g.named => f = g
      BY <2>2, <2>4, <3>1, <3>2 DEF FilesOfCall, TypeOK
    <3>5. IF beside THEN pycache'[dir] = {} ELSE binary'[dir] = {}
      BY <2>2, <2>4 DEF FilesOfCall, TypeOK
    <3> QED
      BY <2>2, <3>3, <3>4, <3>5 DEF FilesOfCall
  <2> QED
    BY <1>5, <2>3, <2>4, KilledFiles
<1>6. CASE CopyOnlyMatch
  <2> PICK f \in pycache[dir] :
        pycache[dir] = {f} /\ binary' = [binary EXCEPT ![dir] = {f.data}]
    BY <1>6 DEF CopyOnlyMatch
  <2>1. /\ dir' = dir /\ made' = made /\ code' = code /\ beside' = beside
        /\ codeFile' = codeFile /\ pycache' = pycache /\ Begun /\ pc' = "load"
    BY <1>6 DEF CopyOnlyMatch, Begun
  <2>2. binary'[dir] = {f.data} /\ f.data.source.code = code /\ f.data.path = dir
    BY <2>1 DEF TypeOK, FilesOfCall
  <2> QED
    BY <2>1, <2>2 DEF FilesOfCall
<1>7. CASE TempPathFails \/ FileSystemThrows
  BY <1>7 DEF TempPathFails, FileSystemThrows, EndProcess, FilesOfCall, Begun,
     Answered
<1>8. CASE Restart
  BY <1>8 DEF Restart, FilesOfCall, Begun, Answered, StatusKept
<1>9. CASE KeepsFiles /\ ~(BeginCall \/ TempPathFails \/ FileSystemThrows \/ Restart)
  <2>1. /\ UNCHANGED <<files, beside, dir, code>>
        /\ Begun' \/ Answered' => Begun \/ Answered
        /\ pc' \in {"load", "idle"} \/ pc \notin {"load", "idle"}
        /\ pc = "find" /\ pc' = "load" => binary[dir] # {}
    BY <1>9 DEF KeepsFiles, SandboxCreated, AttemptFails, RetryOrGiveUp, Return,
       CompilerRejects, CodeIsInvalid, CodeIsValid, BinaryExists, NotIdentified,
       LoadBinary, Finished, vars, Begun, Answered
  <2> QED
    BY <2>1 DEF FilesOfCall, files
<1> QED
  BY <1>1, <1>2, <1>3, <1>4, <1>5, <1>6, <1>7, <1>8, <1>9, StepCases

-----------------------------------------------------------------------------
(* The outcome of an attempt and of a call.                                *)

\* The status tells what the compiler did with the file it was given.
LEMMA StatusKeptStep ==
  ASSUME TypeOK, FilesOfCall, StatusKept, Next
  PROVE  StatusKept'
<1>1. CASE CompilerAccepts
  <2> PICK src \in codeFile[dir] \cap Compiles, b \in ByteCode :
        /\ b.source = src /\ b.whole
        /\ beside => binary'[dir] = {b} /\ pycache'[dir] = pycache[dir]
        /\ ~beside => /\ binary'[dir] = binary[dir]
                      /\ pycache'[dir] =
                           {f \in pycache[dir] : ~f.named} \cup {Named(b)}
    BY <1>1, AcceptedFiles
  <2>1. Named(b).named
    BY CacheFileType
  <2>2. /\ dir' = dir /\ beside' = beside /\ codeFile' = codeFile /\ ret' = ret
        /\ pc = "compile" /\ pc' = "output" /\ status' = "kSuccess"
    BY <1>1 DEF CompilerAccepts
  <2>3. beside => \E c \in binary'[dir] : c.whole
    OBVIOUS
  <2>4. ~beside => \E f \in pycache'[dir] : f.named
    BY <2>1
  <2> QED
    BY <2>2, <2>3, <2>4 DEF StatusKept
<1>2. CASE CopyOnlyMatch
  <2> PICK f \in pycache[dir] :
        pycache[dir] = {f} /\ binary' = [binary EXCEPT ![dir] = {f.data}]
    BY <1>2 DEF CopyOnlyMatch
  <2>1. /\ dir' = dir /\ beside' = beside /\ codeFile' = codeFile /\ ret' = ret
        /\ pycache' = pycache /\ pc = "find" /\ pc' = "load" /\ status' = status
        /\ binary[dir] = {}
    BY <1>2 DEF CopyOnlyMatch, attempt
  <2>2. ~beside /\ f.named /\ f.data.whole
    BY <2>1 DEF StatusKept, FilesOfCall, Begun
  <2>3. binary'[dir] = {f.data}
    BY DEF TypeOK
  <2> QED
    BY <2>1, <2>2, <2>3 DEF StatusKept
<1>3. CASE BeginCall \/ TempPathFails \/ MakeTempPath \/ WriteCode
           \/ SandboxCreated \/ AttemptFails
  BY <1>3 DEF StatusKept, BeginCall, TempPathFails, EndProcess, MakeTempPath,
     WriteCode, SandboxCreated, AttemptFails, RetryOrGiveUp, Return, attempt, files
<1>4. CASE CompilerRejects \/ CompilerKilled \/ CodeIsInvalid \/ CodeIsValid
  BY <1>4 DEF StatusKept, CompilerRejects, CompilerKilled, CodeIsInvalid,
     CodeIsValid, Return, attempt, files, TypeOK
<1>5. CASE BinaryExists
  BY <1>5 DEF StatusKept, BinaryExists, FilesOfCall, Begun, attempt, files
<1>6. CASE NotIdentified \/ LoadBinary \/ FileSystemThrows \/ Restart \/ Finished
  BY <1>6 DEF StatusKept, NotIdentified, RetryOrGiveUp, LoadBinary, Return,
     FileSystemThrows, EndProcess, Restart, Finished, vars, attempt, files
<1> QED
  BY <1>1, <1>2, <1>3, <1>4, <1>5, <1>6, StepCases DEF KeepsFiles

\* A second match is the file of a killed compiler, whose attempt was lost.
LEMMA SecondMatch ==
  ASSUME TypeOK, FilesOfCall, StatusKept, AttemptsAccounted, NotIdentified
  PROVE  killed /\ lost > 0
<1>1. /\ pc = "find" /\ binary[dir] = {} /\ Begun
      /\ \A f \in pycache[dir] : pycache[dir] # {f}
  BY DEF NotIdentified, Begun
<1>2. ~beside /\ \E f \in pycache[dir] : f.named
  BY <1>1 DEF StatusKept
<1> PICK f \in pycache[dir] : f.named
  BY <1>2
<1>3. PICK g \in pycache[dir] : g # f
  BY <1>1
<1>4. ~g.named
  BY <1>1, <1>3 DEF FilesOfCall
<1> QED
  BY <1>1, <1>4 DEF AttemptsAccounted

\* Every attempt that failed has its reason.
LEMMA AttemptsStep ==
  ASSUME TypeOK, FilesOfCall, StatusKept, AttemptsAccounted, NewIsEmpty, Next
  PROVE  AttemptsAccounted'
<1> USE DEF kMaxTestAttempts
<1>0. tries \in Nat /\ lost \in Nat
  BY DEF TypeOK
<1>1. CASE BeginCall
  BY <1>1 DEF BeginCall, AttemptsAccounted, Begun
<1>2. CASE MakeTempPath
  <2>1. pycache'[dir'] = {} /\ pc = "temp" /\ pc' = "write"
    BY <1>2 DEF MakeTempPath, NewIsEmpty, TypeOK
  <2> QED
    BY <1>0, <1>2, <2>1 DEF MakeTempPath, AttemptsAccounted, attempt
<1>3. CASE WriteCode
  BY <1>0, <1>3 DEF WriteCode, AttemptsAccounted, Begun
<1>4. CASE SandboxCreated \/ CodeIsValid \/ CompilerRejects
  BY <1>0, <1>4 DEF SandboxCreated, CodeIsValid, CompilerRejects, attempt, files,
     AttemptsAccounted, Begun
<1>5. CASE AttemptFails
  <2>1. CASE tries < kMaxTestAttempts
    BY <1>0, <1>5, <2>1 DEF AttemptFails, RetryOrGiveUp, files, AttemptsAccounted,
       Begun
  <2>2. CASE tries >= kMaxTestAttempts
    BY <1>0, <1>5, <2>2 DEF AttemptFails, RetryOrGiveUp, Return, files,
       AttemptsAccounted, Begun
  <2> QED
    BY <1>0, <2>1, <2>2
<1>6. CASE CompilerAccepts
  <2> PICK src \in codeFile[dir] \cap Compiles, b \in ByteCode :
        /\ b.source = src /\ b.whole
        /\ beside => binary'[dir] = {b} /\ pycache'[dir] = pycache[dir]
        /\ ~beside => /\ binary'[dir] = binary[dir]
                      /\ pycache'[dir] =
                           {f \in pycache[dir] : ~f.named} \cup {Named(b)}
    BY <1>6, AcceptedFiles
  <2>1. Named(b).named
    BY CacheFileType
  <2>2. \A f \in pycache'[dir] : ~f.named => f \in pycache[dir]
    BY <2>1, <1>6 DEF TypeOK
  <2> QED
    BY <1>0, <1>6, <2>2 DEF CompilerAccepts, AttemptsAccounted, Begun
<1>7. CASE CompilerKilled
  BY <1>0, <1>7 DEF CompilerKilled, AttemptsAccounted, Begun
<1>8. CASE CodeIsInvalid \/ LoadBinary
  BY <1>0, <1>8 DEF CodeIsInvalid, LoadBinary, Return, attempt, files,
     AttemptsAccounted, Begun
<1>9. CASE BinaryExists \/ CopyOnlyMatch
  BY <1>0, <1>9 DEF BinaryExists, CopyOnlyMatch, attempt, files, AttemptsAccounted,
     Begun
<1>10. CASE NotIdentified
  <2>1. killed /\ lost > 0
    BY <1>10, SecondMatch
  <2> QED
    BY <1>0, <1>10, <2>1 DEF NotIdentified, RetryOrGiveUp, Return, attempt, files,
       AttemptsAccounted, Begun
<1>11. CASE TempPathFails \/ FileSystemThrows \/ Restart \/ Finished
  BY <1>0, <1>11 DEF TempPathFails, FileSystemThrows, EndProcess, Restart, Finished,
     vars, attempt, files, AttemptsAccounted, Begun
<1> QED
  BY <1>1, <1>2, <1>3, <1>4, <1>5, <1>6, <1>7, <1>8, <1>9, <1>10, <1>11,
     StepCases DEF KeepsFiles

\* The interpreter stays the same, and so does what is hashed of byte code.
LEMMA HashesAsBefore ==
  ASSUME UNCHANGED beside,
         \A h \in hashes' :
           h.hash = Deterministic(program_data([source |-> h.source, path |-> h.dir,
                                                time |-> 0, whole |-> TRUE]))
  PROVE  HashesDeterministic'
<1> SUFFICES ASSUME NEW h \in hashes'
             PROVE  h.hash = Deterministic(program_data(
                              [source |-> h.source, path |-> h.dir,
                               time |-> 0, whole |-> TRUE]))'
  BY DEF HashesDeterministic
<1>1. h.hash = Deterministic(program_data([source |-> h.source, path |-> h.dir,
                                           time |-> 0, whole |-> TRUE]))
  OBVIOUS
<1>2. PathAt(h.dir)' = PathAt(h.dir)
  BY DEF PathAt
<1> QED
  BY <1>1, <1>2 DEF Deterministic, program_data

\* A hash is made of byte code that is whole, and was made in this directory.
LEMMA HashesStep ==
  ASSUME TypeOK, FilesOfCall, StatusKept, HashesDeterministic, Next
  PROVE  HashesDeterministic'
<1> DEFINE Whole(src, d) ==
             [source |-> src, path |-> d, time |-> 0, whole |-> TRUE]
<1>0. UNCHANGED beside
  BY DEF Next, CallStep, CompileCode, BeginCall, MakeTempPath, TempPathFails,
     EndProcess, WriteCode, SandboxCreated, AttemptFails, CompilerAccepts,
     CompilerRejects, CompilerKilled, CodeIsInvalid, CodeIsValid, BinaryExists,
     CopyOnlyMatch, NotIdentified, LoadBinary, FileSystemThrows, Restart, Finished,
     vars
<1>1. CASE LoadBinary
  <2> PICK b \in binary[dir] :
        hashes' = hashes \cup {[source |-> b.source, dir |-> dir,
                                hash |-> Deterministic(program_data(b))]}
    BY <1>1 DEF LoadBinary
  <2>1. b.whole /\ b.path = dir
    BY <1>1 DEF LoadBinary, StatusKept, FilesOfCall, Begun
  <2>2. b \in ByteCode /\ b.whole = TRUE /\ b.source \in Source /\ dir \in Names
    BY <2>1 DEF TypeOK, ByteCode
  <2>3. Whole(b.source, dir) \in ByteCode
    BY <2>2, CompileAssumption DEF ByteCode
  <2>4. Deterministic(program_data(b)) = Deterministic(program_data(Whole(b.source, dir)))
    <3>1. Deterministic(program_data(Whole(b.source, dir))) =
            [program |-> b.source, whole |-> TRUE,
             others |-> IF beside /\ b.source \in WithFunctions
                          THEN {PathAt(dir)} ELSE {},
             first |-> [length |-> IF beside THEN <<Length[dir], 0, 0>> ELSE <<>>,
                        path |-> kCodeFile]]
      <4>1. /\ Whole(b.source, dir).source = b.source
            /\ Whole(b.source, dir).path = dir
            /\ Whole(b.source, dir).whole = TRUE
        OBVIOUS
      <4> HIDE DEF Whole
      <4> QED
        BY <2>3, <4>1, HashedParts
    <3> QED
      BY <2>1, <2>2, <3>1, HashedParts
  <2>5. ASSUME NEW h \in hashes'
        PROVE  h.hash = Deterministic(program_data(Whole(h.source, h.dir)))
    <3>1. CASE h \in hashes
      BY <3>1 DEF HashesDeterministic
    <3>2. CASE h = [source |-> b.source, dir |-> dir,
                    hash |-> Deterministic(program_data(b))]
      <4>1. /\ h.source = b.source /\ h.dir = dir
            /\ h.hash = Deterministic(program_data(b))
        BY <3>2
      <4> QED
        BY <2>4, <4>1
    <3> QED
      BY <3>1, <3>2
  <2> QED
    BY <1>0, <2>5, HashesAsBefore
<1>2. CASE ~LoadBinary
  <2>1. hashes' = hashes
    BY <1>2 DEF Next, CallStep, CompileCode, BeginCall, MakeTempPath, TempPathFails,
       EndProcess, WriteCode, SandboxCreated, AttemptFails, CompilerAccepts,
       CompilerRejects, CompilerKilled, CodeIsInvalid, CodeIsValid, BinaryExists,
       CopyOnlyMatch, NotIdentified, FileSystemThrows, Restart, Finished, vars
  <2> QED
    BY <1>0, <2>1, HashesAsBefore DEF HashesDeterministic
<1> QED
  BY <1>1, <1>2

-----------------------------------------------------------------------------
(* The answers.                                                            *)

Outcomes == BinaryOfThisCall /\ ErrorExplained /\ AnswerIsCompilers

\* Each of the four steps that answer has the right to.
LEMMA OutcomesStep ==
  ASSUME TypeOK, FilesOfCall, StatusKept, AttemptsAccounted, Outcomes, Next
  PROVE  Outcomes'
<1> USE DEF Outcomes
<1>1. CASE ret' = "pending"
  BY <1>1 DEF BinaryOfThisCall, ErrorExplained, AnswerIsCompilers
<1>2. CASE Finished
  BY <1>2 DEF Finished, vars, files, attempt, BinaryOfThisCall, ErrorExplained,
     AnswerIsCompilers
<1>3. CASE Restart
  BY <1>3 DEF Restart, StatusKept, BinaryOfThisCall, ErrorExplained,
     AnswerIsCompilers
<1>4. CASE LoadBinary
  <2>1. /\ ret' = "kSuccess" /\ UNCHANGED <<files, code, dir>>
        /\ pc = "load" /\ Begun
    BY <1>4 DEF LoadBinary, Return, Begun
  <2>2. PICK b \in binary[dir] : b.whole
    BY <2>1 DEF StatusKept
  <2>3. binary[dir] = {b} /\ b.source.code = code
    BY <2>1 DEF FilesOfCall
  <2>4. BinaryOfThisCall'
    BY <2>1, <2>2, <2>3 DEF BinaryOfThisCall, files
  <2>5. codeFile[dir] \cap Compiles # {} /\ \A s \in codeFile[dir] : codeFile[dir] = {s}
    BY <2>1 DEF StatusKept, FilesOfCall
  <2>6. codeFile[dir] \subseteq Compiles
    BY <2>5
  <2> QED
    BY <2>1, <2>4, <2>6 DEF ErrorExplained, AnswerIsCompilers, files
<1>5. CASE CodeIsInvalid
  BY <1>5 DEF CodeIsInvalid, Return, StatusKept, files, attempt, BinaryOfThisCall,
     ErrorExplained, AnswerIsCompilers
<1>6. CASE AttemptFails
  <2>1. ret' = "error" => lost' = kMaxTestAttempts \/ (killed' /\ lost' > 0)
    BY <1>6 DEF AttemptFails, RetryOrGiveUp, AttemptsAccounted, Begun, StatusKept,
       kMaxTestAttempts, TypeOK
  <2>2. ret' \in {"pending", "error"}
    BY <1>6 DEF AttemptFails, RetryOrGiveUp, Return, StatusKept
  <2> QED
    BY <2>1, <2>2 DEF BinaryOfThisCall, ErrorExplained, AnswerIsCompilers
<1>7. CASE NotIdentified
  <2>1. killed /\ lost > 0
    BY <1>7, SecondMatch
  <2>2. ret' \in {"pending", "error"} /\ UNCHANGED attempt
    BY <1>7 DEF NotIdentified, RetryOrGiveUp, Return, StatusKept
  <2> QED
    BY <2>1, <2>2 DEF attempt, BinaryOfThisCall, ErrorExplained, AnswerIsCompilers
<1>8. CASE ~(LoadBinary \/ CodeIsInvalid \/ AttemptFails \/ NotIdentified \/ Restart
             \/ Finished)
  <2>1. ret' = "pending"
    BY <1>8 DEF Next, CallStep, CompileCode, BeginCall, MakeTempPath, TempPathFails,
       EndProcess, WriteCode, SandboxCreated, CompilerAccepts, CompilerRejects,
       CompilerKilled, CodeIsValid, BinaryExists, CopyOnlyMatch, FileSystemThrows,
       StatusKept
  <2> QED
    BY <1>1, <2>1
<1> QED
  BY <1>2, <1>3, <1>4, <1>5, <1>6, <1>7, <1>8

-----------------------------------------------------------------------------
(* The theorems.                                                           *)

\* Inv holds of every state of every sequence of calls: what is in the directory
\* of a call is of that call, and every failed attempt has its reason.
THEOREM InvHolds == Spec => []Inv
<1>1. Init => Inv
  <2> SUFFICES ASSUME Init PROVE Inv
    OBVIOUS
  <2>1. TypeOK
    <3>1. 0 \in 0..MaxCalls /\ 0 \in 0..kMaxTestAttempts
      BY CompileAssumption DEF kMaxTestAttempts
    <3>2. /\ codeFile \in [Names -> SUBSET Source]
          /\ binary \in [Names -> SUBSET ByteCode]
          /\ pycache \in [Names -> SUBSET CacheFile]
      BY DEF Init
    <3>3. made \subseteq Names /\ hashes \subseteq [source : Source, dir : Names, hash : Hashed]
      BY DEF Init
    <3> QED
      BY <3>1, <3>2, <3>3 DEF Init, TypeOK
  <2>2. NewIsEmpty
    BY DEF Init, NewIsEmpty
  <2>4. FilesOfCall /\ StatusKept
    BY DEF Init, FilesOfCall, Begun, Answered, StatusKept
  <2>5. AttemptsAccounted
    BY DEF Init, Begun, AttemptsAccounted
  <2>3. HashesDeterministic /\ BinaryOfThisCall /\ ErrorExplained /\ AnswerIsCompilers
    BY DEF Init, HashesDeterministic, BinaryOfThisCall, ErrorExplained,
       AnswerIsCompilers
  <2> QED
    BY <2>1, <2>2, <2>3, <2>4, <2>5 DEF Inv
<1>2. Inv /\ [Next]_vars => Inv'
  <2> SUFFICES ASSUME Inv, [Next]_vars PROVE Inv'
    OBVIOUS
  <2>1. CASE Next
    BY <2>1, TypeStep, NewIsEmptyStep, FilesOfCallStep, StatusKeptStep,
       AttemptsStep, HashesStep, OutcomesStep DEF Inv, Outcomes
  <2>2. CASE UNCHANGED vars
    <3>1. HashesDeterministic'
      BY <2>2, HashesAsBefore DEF vars, Inv, HashesDeterministic
    <3> QED
      BY <2>2, <3>1 DEF vars, files, attempt, Inv, TypeOK, NewIsEmpty, FilesOfCall,
         Begun, Answered, StatusKept, AttemptsAccounted, BinaryOfThisCall,
         ErrorExplained, AnswerIsCompilers
  <2> QED
    BY <2>1, <2>2
<1> QED
  BY <1>1, <1>2, PTL DEF Spec

\* TypeOK: every variable keeps its type, and there are at most three attempts.
THEOREM TypeCorrect == Spec => []TypeOK
<1>1. Inv => TypeOK
  BY DEF Inv
<1> QED
  BY <1>1, InvHolds, PTL

\* BinaryOfThisCall: the tests run what was compiled, in this call, from the code
\* of this call.
THEOREM RunsItsOwnCode == Spec => []BinaryOfThisCall
<1>1. Inv => BinaryOfThisCall
  BY DEF Inv
<1> QED
  BY <1>1, InvHolds, PTL

\* ErrorExplained: no error without three lost attempts, or one and a compiler
\* that was killed.
THEOREM ErrorsExplained == Spec => []ErrorExplained
<1>1. Inv => ErrorExplained
  BY DEF Inv
<1> QED
  BY <1>1, InvHolds, PTL

\* AnswerIsCompilers: the answer is what the compiler says of the code file.
THEOREM AnswersAreCompilers == Spec => []AnswerIsCompilers
<1>1. Inv => AnswerIsCompilers
  BY DEF Inv
<1> QED
  BY <1>1, InvHolds, PTL

\* SameProgramSameHash: with Python 3 two calls that compile the same source give
\* one hash, however long the names of their directories are; with Python 2 if the
\* names are equally long and the program has no functions.
THEOREM HashIsStable == Spec => []SameProgramSameHash
<1>1. Inv => SameProgramSameHash
  <2> SUFFICES ASSUME Inv, NEW g \in hashes, NEW h \in hashes,
                      g.source = h.source,
                      beside => /\ g.source \notin WithFunctions
                                /\ Length[g.dir] = Length[h.dir]
               PROVE  g.hash = h.hash
    BY DEF SameProgramSameHash
  <2> DEFINE Whole(x) ==
               [source |-> x.source, path |-> x.dir, time |-> 0, whole |-> TRUE]
  <2>1. ASSUME NEW x \in hashes
        PROVE  x.hash = [program |-> x.source, whole |-> TRUE,
                         others |-> IF beside /\ x.source \in WithFunctions
                                      THEN {PathAt(x.dir)} ELSE {},
                         first |-> [length |-> IF beside THEN <<Length[x.dir], 0, 0>>
                                                         ELSE <<>>,
                                    path |-> kCodeFile]]
    <3>1. x.source \in Source /\ x.dir \in Names
      BY DEF Inv, TypeOK
    <3>2. Whole(x) \in ByteCode
      BY <3>1, CompileAssumption DEF ByteCode
    <3>3. /\ Whole(x).source = x.source /\ Whole(x).path = x.dir
          /\ Whole(x).whole = TRUE
      OBVIOUS
    <3>4. x.hash = Deterministic(program_data(Whole(x)))
      BY DEF Inv, HashesDeterministic
    <3> HIDE DEF Whole
    <3> QED
      BY <3>2, <3>3, <3>4, HashedParts
  <2> QED
    BY <2>1
<1> QED
  BY <1>1, InvHolds, PTL

-----------------------------------------------------------------------------
(* Compiling as a part of Test.                                            *)

\* What the call of Test looks like when it begins.
LEMMA CallBegins ==
  TestPc = "validate" /\ AttemptsFailed = 0 /\ ret = "pending" => Test!Init
  BY DEF Test!Init, Test!Pool!Init, Test!Workers, Test!Pool!Workers,
     Test!NotOk

\* What the other variables of Test are throughout.
LEMMA NoInputs ==
  /\ UNCHANGED <<Test!poolVars, Test!options, Test!sharedVars, Test!taskVars>>
  /\ Test!ArgumentsValid /\ <<>> = [i \in Test!Inputs |-> Test!NotRun]
  BY DEF Test!poolVars, Test!options, Test!sharedVars, Test!taskVars,
     Test!ArgumentsValid, Test!CheckingOutputs, Test!Inputs

\* The attempts, by where the call is.
LEMMA AttemptsSoFar ==
  ASSUME Inv
  PROVE  /\ tries \in 0..3 /\ AttemptsFailed \in 0..3
         /\ pc # "idle" => ret = "pending"
         /\ pc = "temp" => AttemptsFailed = 0 /\ tries = 0
         /\ pc = "write" => AttemptsFailed = tries /\ tries < 3
         /\ Begun /\ pc # "write" => AttemptsFailed = tries - 1 /\ 0 < tries
         /\ TestPc = "validate" => AttemptsFailed = 0 /\ ret = "pending"
<1>1. /\ tries \in 0..3
      /\ pc # "idle" => ret = "pending"
      /\ pc = "temp" => tries = 0
      /\ pc = "write" => tries < 3
      /\ Begun /\ pc # "write" => 0 < tries
  BY DEF Inv, TypeOK, StatusKept, AttemptsAccounted, kMaxTestAttempts
<1>2. AttemptsFailed \in 0..3
  BY <1>1 DEF AttemptsFailed
<1>3. ASSUME TestPc = "validate"
      PROVE  AttemptsFailed = 0 /\ ret = "pending"
  <2>1. /\ pc \in {"idle", "temp", "write", "sandbox", "compile", "output",
                   "find", "load", "ended"}
        /\ ret \in {"pending", "kSuccess", "kFailed", "error"}
    BY DEF Inv, TypeOK
  <2>2. pc = "temp" \/ (pc = "idle" /\ ret = "pending")
    BY <1>3, <2>1 DEF TestPc, Begun
  <2> QED
    BY <1>1, <2>2 DEF AttemptsFailed
<1> QED
  BY <1>1, <1>2, <1>3 DEF AttemptsFailed, Begun

\* A step between write and answer, but for those that end an attempt.
LEMMA AttemptGoesOn ==
  ASSUME Inv, Inv',
         \/ WriteCode \/ SandboxCreated \/ CompilerAccepts \/ CompilerRejects
         \/ CompilerKilled \/ CodeIsValid \/ BinaryExists \/ CopyOnlyMatch
  PROVE  UNCHANGED <<TestPc, AttemptsFailed, ret>>
<1>1. CASE WriteCode
  <2>1. /\ pc = "write" /\ pc' = "sandbox" /\ tries' = tries + 1 /\ ret' = ret
    BY <1>1 DEF WriteCode
  <2> QED
    BY <2>1, AttemptsSoFar DEF TestPc, AttemptsFailed, Begun
<1>2. CASE SandboxCreated \/ CompilerAccepts \/ CompilerRejects
             \/ CompilerKilled \/ CodeIsValid \/ BinaryExists \/ CopyOnlyMatch
  <2>1. /\ pc \in {"sandbox", "compile", "output", "find"}
        /\ pc' \in {"compile", "output", "find", "load"}
        /\ tries' = tries /\ ret' = ret
    BY <1>2 DEF SandboxCreated, CompilerAccepts, CompilerRejects,
       CompilerKilled, CodeIsValid, BinaryExists, CopyOnlyMatch, attempt
  <2> QED
    BY <2>1, AttemptsSoFar DEF TestPc, AttemptsFailed, Begun
<1> QED
  BY <1>1, <1>2

\* RetryIfFail.
LEMMA AttemptEnds ==
  ASSUME Inv, Inv', AttemptFails \/ NotIdentified
  PROVE  Test!CompileError
<1>1. /\ pc \in {"sandbox", "output", "find"} /\ tries' = tries
      /\ IF tries < 3 THEN pc' = "write" /\ ret' = ret
                      ELSE pc' = "idle" /\ ret' = "error"
  BY DEF AttemptFails, NotIdentified, RetryOrGiveUp, Return, attempt,
     kMaxTestAttempts
<1>2. /\ TestPc = "compile" /\ ret = "pending"
      /\ AttemptsFailed = tries - 1 /\ tries \in 1..3
  BY <1>1, AttemptsSoFar DEF TestPc, Begun
<1>3. /\ AttemptsFailed' = AttemptsFailed + 1
      /\ IF tries < 3 THEN TestPc' = "compile" /\ ret' = "pending"
                      ELSE TestPc' = "returned" /\ ret' = "error"
  BY <1>1, <1>2 DEF AttemptsFailed, TestPc, Begun
<1> QED
  BY <1>2, <1>3, NoInputs
     DEF Test!CompileError, Test!kMaxTestAttempts, Test!Error

\* CompileCode answers or throws.
LEMMA CompileEnds ==
  ASSUME Inv, Inv', CodeIsInvalid \/ LoadBinary \/ FileSystemThrows
  PROVE  Test!CompileFailed \/ Test!Compiled \/ Test!CompileThrows
<1>1. /\ pc \in {"output", "find", "load"} /\ tries' = tries
      /\ \/ CodeIsInvalid /\ pc' = "idle" /\ ret' = "kFailed"
         \/ LoadBinary /\ pc' = "idle" /\ ret' = "kSuccess"
         \/ FileSystemThrows /\ pc' = "ended" /\ ret' = ret
  BY DEF CodeIsInvalid, LoadBinary, FileSystemThrows, EndProcess, Return,
     attempt
<1>2. /\ TestPc = "compile" /\ ret = "pending"
      /\ AttemptsFailed = tries - 1 /\ tries \in 1..3
  BY <1>1, AttemptsSoFar DEF TestPc, Begun
<1>3. AttemptsFailed' = AttemptsFailed
  BY <1>1, <1>2 DEF AttemptsFailed
<1>4. CASE ret' = "kFailed"
  <2>1. TestPc' = "returned"
    BY <1>1, <1>2, <1>4 DEF TestPc, Begun
  <2> QED
    BY <1>2, <1>3, <1>4, <2>1, NoInputs DEF Test!CompileFailed
<1>5. CASE ret' = "kSuccess"
  <2>1. TestPc' = "testing"
    BY <1>1, <1>2, <1>5 DEF TestPc, Begun
  <2> QED
    BY <1>2, <1>3, <1>5, <2>1, NoInputs
       DEF Test!Compiled, Test!poolVars, Test!options, Test!taskVars
<1>6. CASE pc' = "ended" /\ ret' = ret
  <2>1. TestPc' = "aborted"
    BY <1>6 DEF TestPc, Begun
  <2> QED
    BY <1>2, <1>3, <1>6, <2>1, NoInputs DEF Test!CompileThrows
<1> QED
  BY <1>1, <1>2, <1>4, <1>5, <1>6

\* TempPath, and the beginning of the next call.
LEMMA CallGoesOn ==
  ASSUME Inv, Inv', BeginCall \/ Restart \/ MakeTempPath \/ TempPathFails
  PROVE  \/ Test!MakeTempPath
         \/ (BeginCall \/ Restart) /\ TestPc' = "validate"
<1>1. CASE BeginCall
  BY <1>1 DEF BeginCall, TestPc, Begun
<1>2. CASE Restart
  <2>1. pc' = "idle" /\ ret' = "pending"
    BY <1>2, AttemptsSoFar DEF Restart
  <2> QED
    BY <1>2, <2>1 DEF TestPc, Begun
<1>3. CASE MakeTempPath \/ TempPathFails
  <2>1. /\ pc = "temp" /\ pc' \in {"write", "ended"}
        /\ tries' = tries /\ ret' = ret
    BY <1>3 DEF MakeTempPath, TempPathFails, EndProcess, attempt
  <2>2. /\ TestPc = "validate" /\ TestPc' \in {"compile", "aborted"}
        /\ AttemptsFailed' = AttemptsFailed
    BY <2>1, AttemptsSoFar DEF TestPc, AttemptsFailed, Begun
  <2> QED
    BY <2>1, <2>2, NoInputs DEF Test!MakeTempPath
<1> QED
  BY <1>1, <1>2, <1>3

\* A call that has just begun.
New == TestPc = "validate"

\* CompilesAsTest (py_tester_sandboxer.cc:69-139 inside tester_sandboxer.cc:341-375):
\* whatever happens to files, the steps that Test sees are those it is modelled
\* with.
THEOREM CompileRefines == Spec => CompilesAsTest
<1>1. Init => Test!Init
  <2>1. Init => TestPc = "validate" /\ AttemptsFailed = 0 /\ ret = "pending"
    BY DEF Init, TestPc, AttemptsFailed, Begun
  <2> QED
    BY <2>1, CallBegins
<1>2. Inv /\ New => Test!Init
  BY AttemptsSoFar, CallBegins DEF New
<1>3. Inv /\ Inv' /\ [Next]_vars /\ (New' => Test!Init')
        => [StepOfTest]_(Test!vars)
  <2> SUFFICES ASSUME Inv, Inv', [Next]_vars, New' => Test!Init'
               PROVE  [StepOfTest]_(Test!vars)
    OBVIOUS
  <2>1. CASE UNCHANGED <<TestPc, AttemptsFailed, ret>>
    BY <2>1, NoInputs DEF Test!vars, Test!callVars
  <2>2. CASE Finished \/ UNCHANGED vars
    <3>1. UNCHANGED <<pc, ret, tries>>
      BY <2>2 DEF Finished, vars, attempt
    <3> QED
      BY <2>1, <3>1 DEF TestPc, AttemptsFailed, Begun
  <2>3. CASE BeginCall \/ Restart \/ MakeTempPath \/ TempPathFails
    BY <2>3, CallGoesOn DEF StepOfTest, New
  <2>4. CASE AttemptFails \/ NotIdentified
    BY <2>4, AttemptEnds DEF StepOfTest
  <2>5. CASE CodeIsInvalid \/ LoadBinary \/ FileSystemThrows
    BY <2>5, CompileEnds DEF StepOfTest
  <2>6. CASE \/ WriteCode \/ SandboxCreated \/ CompilerAccepts \/ CompilerRejects
             \/ CompilerKilled \/ CodeIsValid \/ BinaryExists \/ CopyOnlyMatch
    BY <2>1, <2>6, AttemptGoesOn
  <2> QED
    BY <2>2, <2>3, <2>4, <2>5, <2>6 DEF Next, CallStep, CompileCode
<1> QED
  BY <1>1, <1>2, <1>3, InvHolds, PTL DEF Spec, CompilesAsTest

=============================================================================
