----------------------------- MODULE SandboxRun -----------------------------
(***************************************************************************)
(* One sandboxed run (execution/tester_sandboxer.cc): CreateSandboxWithFds, *)
(* and the caller that starts the sandbox, drains its two output pipes and *)
(* awaits its result.  RunCodeOnInput drains with two threads of a pool    *)
(* before it awaits; CompileCode (py_tester_sandboxer.cc) awaits first and *)
(* then reads one pipe after the other.                                    *)
(*                                                                         *)
(* The program in the sandbox is anything: it may write, block in a write  *)
(* to a full pipe, close a stream, stay idle, end, or be killed.  A pipe   *)
(* holds blocks of which only the number matters.  A stream has the number *)
(* of the Schedule call that reads it.                                     *)
(***************************************************************************)
EXTENDS Naturals, Sequences

CONSTANTS
  PipeCapacity,   \* blocks a pipe can hold
  MaxBlocks       \* bound on the blocks the program writes to a stream

ASSUME PipeAssumption == PipeCapacity \in Nat \ {0} /\ MaxBlocks \in Nat

VARIABLES
  numThreads, numTasks, owner, threads, scheduled, queue, joined, worker,
  func, taken, done,   \* the pool of RunCodeOnInput
  call,       \* which function makes the run
  pc,         \* where the caller is
  open,       \* the streams whose reading end is open
  holds,      \* the valid file descriptors of each SandboxWithOutputFds
  limitSet,   \* the wall time limit is set
  contents,   \* contents[s]: the StatusOr<string> read from stream s
  ret,        \* the status the caller returns
  program,    \* the sandboxed program: its state, or its final status
  blocked,    \* the streams the program is in the middle of writing to
  writable,   \* the streams whose writing end is open
  pipe,       \* pipe[s]: the blocks in the pipe
  sent,       \* sent[s]: the blocks written in all
  received    \* received[s]: the blocks in the reader's buffer

poolVars == <<numThreads, numTasks, owner, threads, scheduled, queue, joined,
              worker, func, taken, done>>
callerVars == <<call, pc, limitSet, ret>>
fdVars == <<open, holds, contents>>
programVars == <<program, blocked, writable>>
pipeVars == <<pipe, sent, received>>

vars == <<poolVars, callerVars, fdVars, programVars, pipeVars>>

Pool == INSTANCE ThreadPool WITH MaxThreads <- 2, MaxTasks <- 2

Readers == 1..2

stdout == 1
stderr == 2
Streams == {stdout, stderr}

FinalStatuses == {"OK", "TIMEOUT", "SIGNALED", "VIOLATION"}
Ended == program \in FinalStatuses

\* A StatusOr<string>: empty when it holds a non-OK status, as it does from its
\* declaration on.
NotOk == {}

ProcessEnded == owner = "terminated"

TypeOK ==
  /\ Pool!TypeOK
  /\ call \in {"RunCodeOnInput", "CompileCode"}
  /\ pc \in {"create", "policy", "move", "destroy", "run", "limit", "drain",
             "await", "stdout", "stderr", "returned"}
  /\ open \subseteq Streams
  /\ holds \in [{"status", "local"} -> SUBSET Streams]
  /\ limitSet \in BOOLEAN
  /\ contents \in [Streams -> SUBSET (0..MaxBlocks)]
  /\ ret \in {"pending", "OK", "error"}
  /\ program \in {"none", "running"} \cup FinalStatuses
  /\ blocked \in SUBSET Streams
  /\ writable \in SUBSET Streams
  /\ pipe \in [Streams -> 0..PipeCapacity]
  /\ sent \in [Streams -> 0..MaxBlocks]
  /\ received \in [Streams -> 0..MaxBlocks]

\* Nothing has been created, and the pool will have so many readers.
InitWithReaders(n) ==
  /\ Pool!Init
  /\ numThreads = n /\ numTasks = 2
  /\ call \in {"RunCodeOnInput", "CompileCode"}
  /\ pc = "create"
  /\ open = {}
  /\ holds = [h \in {"status", "local"} |-> {}]
  /\ limitSet = FALSE
  /\ contents = [s \in Streams |-> NotOk]
  /\ ret = "pending"
  /\ program = "none"
  /\ blocked = {}
  /\ writable = {}
  /\ pipe = [s \in Streams |-> 0]
  /\ sent = [s \in Streams |-> 0]
  /\ received = [s \in Streams |-> 0]

\* Fault: ThreadPool pool(1).
InitOneReader == InitWithReaders(1)

Init == InitWithReaders(2)

-----------------------------------------------------------------------------
(* Descriptors.                                                            *)

\* Fault: the destructor forgets stderr_fd_.
DestroysStdoutOnly(h) ==
  /\ open' = open \ (holds[h] \cap {stdout})
  /\ holds' = [holds EXCEPT ![h] = {}]

\* ~SandboxWithOutputFds closes what the object still holds.
Destroys(h) ==
  /\ open' = open \ holds[h]
  /\ holds' = [holds EXCEPT ![h] = {}]

\* The caller returns, and its sandbox_with_fds is destroyed.
Returns(status) ==
  /\ Destroys("local")
  /\ ret' = status
  /\ pc' = "returned"

-----------------------------------------------------------------------------
(* CreateSandboxWithFds.                                                   *)

\* The buffer for stdin cannot be made: no descriptor has been received.
BufferFails ==
  /\ pc = "create"
  /\ Returns("error")
  /\ UNCHANGED <<poolVars, call, limitSet, contents, programVars, pipeVars>>

\* ReceiveFd twice: the reading ends are plain integers, owned by nothing, and
\* the executor has the writing ends.
ReceiveFds ==
  /\ pc = "create"
  /\ pc' = "policy"
  /\ open' = Streams
  /\ writable' = Streams
  /\ UNCHANGED <<poolVars, call, limitSet, ret, holds, contents, program,
                 blocked, pipeVars>>

\* CreatePolicy returns a status, and so does CreateSandboxWithFds.  The
\* executor goes with its ends; nothing closes the other ones.
PolicyFails ==
  /\ pc = "policy"
  /\ Returns("error")
  /\ writable' = {}
  /\ UNCHANGED <<poolVars, call, limitSet, contents, program, blocked,
                 pipeVars>>

\* The object is made, inside the StatusOr that is returned.
ConstructSandbox ==
  /\ pc = "policy"
  /\ pc' = "move"
  /\ holds' = [holds EXCEPT !["status"] = Streams]
  /\ UNCHANGED <<poolVars, call, limitSet, ret, open, contents, programVars,
                 pipeVars>>

\* Fault: the move constructor leaves other's descriptors valid.
MoveSandboxKeepsSource ==
  /\ pc = "move"
  /\ pc' = "destroy"
  /\ holds' = [holds EXCEPT !["local"] = holds["status"]]
  /\ UNCHANGED <<poolVars, call, limitSet, ret, open, contents, programVars,
                 pipeVars>>

\* ASSIGN_OR_RETURN moves the object out of the StatusOr.
MoveSandbox ==
  /\ pc = "move"
  /\ pc' = "destroy"
  /\ holds' = [holds EXCEPT !["local"] = holds["status"], !["status"] = {}]
  /\ UNCHANGED <<poolVars, call, limitSet, ret, open, contents, programVars,
                 pipeVars>>

\* The StatusOr goes, and the moved-from object with it.
DestroyMovedFrom ==
  /\ pc = "destroy"
  /\ pc' = "run"
  /\ Destroys("status")
  /\ UNCHANGED <<poolVars, call, limitSet, ret, contents, programVars,
                 pipeVars>>

-----------------------------------------------------------------------------
(* The caller: RunCodeOnInput or CompileCode.                              *)

\* RunAsync returns false.
RunAsyncFails ==
  /\ pc = "run"
  /\ Returns("error")
  /\ writable' = {}
  /\ UNCHANGED <<poolVars, call, limitSet, contents, program, blocked,
                 pipeVars>>

\* The program runs from here on.  Only RunCodeOnInput sets a limit.
RunAsync ==
  /\ pc = "run"
  /\ program' = "running"
  /\ pc' = IF call = "RunCodeOnInput" THEN "limit" ELSE "await"
  /\ UNCHANGED <<poolVars, call, limitSet, ret, fdVars, blocked, writable,
                 pipeVars>>

\* Fault: there is no limit.
NoWalltimeLimit ==
  /\ pc = "limit"
  /\ pc' = "drain"
  /\ UNCHANGED <<poolVars, call, limitSet, ret, fdVars, programVars, pipeVars>>

SetWalltimeLimit ==
  /\ pc = "limit"
  /\ limitSet' = TRUE
  /\ pc' = "drain"
  /\ UNCHANGED <<poolVars, call, ret, fdVars, programVars, pipeVars>>

\* The scope of the pool with two readers.
OwnPool ==
  /\ pc = "drain"
  /\ Pool!OwnerStep
  /\ UNCHANGED <<callerVars, fdVars, programVars, pipeVars>>

\* The pool is gone.  A stream that could not be read is the end of it: the
\* sandbox is destroyed without having been awaited.
ReadFailed ==
  /\ pc = "drain"
  /\ owner = "destroyed"
  /\ \E s \in Streams : contents[s] = NotOk
  /\ Returns("error")
  /\ UNCHANGED <<poolVars, call, limitSet, contents, programVars, pipeVars>>

Drained ==
  /\ pc = "drain"
  /\ owner = "destroyed"
  /\ \A s \in Streams : contents[s] # NotOk
  /\ pc' = "await"
  /\ UNCHANGED <<poolVars, call, limitSet, ret, fdVars, programVars, pipeVars>>

\* Fault: AwaitResult is not called.
ReturnResultUnawaited ==
  /\ pc = "await"
  /\ call = "RunCodeOnInput"
  /\ Returns("OK")
  /\ UNCHANGED <<poolVars, call, limitSet, contents, programVars, pipeVars>>

\* AwaitResult, the last thing RunCodeOnInput waits for.
ReturnResult ==
  /\ pc = "await"
  /\ call = "RunCodeOnInput"
  /\ Ended
  /\ Returns("OK")
  /\ UNCHANGED <<poolVars, call, limitSet, contents, programVars, pipeVars>>

\* AwaitResult in CompileCode, with nothing read so far.
AwaitCompilation ==
  /\ pc = "await"
  /\ call = "CompileCode"
  /\ Ended
  /\ pc' = "stdout"
  /\ UNCHANGED <<poolVars, call, limitSet, ret, fdVars, programVars, pipeVars>>

-----------------------------------------------------------------------------
(* Reading: ReadFd and UseCacheOrReadAndClose.                             *)

\* Fault: a block is read and stays in the pipe.
ReadBlockStale(s) ==
  /\ pipe[s] > 0
  /\ received' = [received EXCEPT ![s] = @ + 1]
  /\ UNCHANGED <<fdVars, pipe, sent>>

\* read returns a block.
ReadBlock(s) ==
  /\ pipe[s] > 0
  /\ pipe' = [pipe EXCEPT ![s] = @ - 1]
  /\ received' = [received EXCEPT ![s] = @ + 1]
  /\ UNCHANGED <<fdVars, sent>>

\* Whatever ReadFd returned is cached and the descriptor is closed.
ReadAndClose(s, content) ==
  /\ contents' = [contents EXCEPT ![s] = content]
  /\ open' = open \ {s}
  /\ holds' = [holds EXCEPT !["local"] = @ \ {s}]
  /\ UNCHANGED pipeVars

\* Fault: an empty pipe is taken for the end of the file.
EndOfPipe(s) == pipe[s] = 0 /\ ReadAndClose(s, {received[s]})

\* read returns 0: the pipe is empty and no one can write to it.
EndOfFile(s) ==
  /\ pipe[s] = 0
  /\ s \notin writable
  /\ ReadAndClose(s, {received[s]})

\* read returns an error other than EINTR and EAGAIN.
ReadError(s) == ReadAndClose(s, NotOk)

\* Two workers of the pool read for RunCodeOnInput.
TakeStream(w) ==
  /\ Pool!Take(w)
  /\ UNCHANGED <<callerVars, fdVars, programVars, pipeVars>>

EndThread(w) ==
  /\ Pool!TakeShutdown(w)
  /\ UNCHANGED <<callerVars, fdVars, programVars, pipeVars>>

WorkerReads(w) ==
  /\ Pool!Alive
  /\ worker[w] = "running"
  /\ ReadBlock(func[w])
  /\ UNCHANGED <<poolVars, callerVars, programVars>>

WorkerFinishes(w) ==
  /\ Pool!Return(w)
  /\ EndOfFile(func[w]) \/ ReadError(func[w])
  /\ UNCHANGED <<callerVars, programVars>>

\* CompileCode reads in its own thread.
Reading == IF pc = "stdout" THEN stdout ELSE stderr

CallerReads ==
  /\ pc \in {"stdout", "stderr"}
  /\ ReadBlock(Reading)
  /\ UNCHANGED <<poolVars, callerVars, programVars>>

CallerReadsStdout ==
  /\ pc = "stdout"
  /\ EndOfFile(stdout)
  /\ pc' = "stderr"
  /\ UNCHANGED <<poolVars, call, limitSet, ret, programVars>>

CallerReadsStderr ==
  /\ pc = "stderr"
  /\ EndOfFile(stderr)
  /\ pc' = "returned"
  /\ ret' = "OK"
  /\ UNCHANGED <<poolVars, call, limitSet, programVars>>

\* Reading closes the descriptor, and returning from CompileCode the other one.
CallerReadFails ==
  /\ pc \in {"stdout", "stderr"}
  /\ Returns("error")
  /\ UNCHANGED <<poolVars, call, limitSet, contents, programVars, pipeVars>>

-----------------------------------------------------------------------------
(* The program in the sandbox, and the sandbox's monitor.                  *)

Running == program = "running"

\* A thread of the program calls write and is held up until it returns.
BeginWrite(s) ==
  /\ Running
  /\ s \in writable \ blocked
  /\ sent[s] < MaxBlocks
  /\ blocked' = blocked \cup {s}
  /\ UNCHANGED <<poolVars, callerVars, fdVars, program, writable, pipeVars>>

\* There is room: the write returns.
EndWrite(s) ==
  /\ Running
  /\ s \in blocked \cap open
  /\ pipe[s] < PipeCapacity
  /\ pipe' = [pipe EXCEPT ![s] = @ + 1]
  /\ sent' = [sent EXCEPT ![s] = @ + 1]
  /\ blocked' = blocked \ {s}
  /\ UNCHANGED <<poolVars, callerVars, fdVars, program, writable, received>>

\* Nobody has the reading end any more: the write returns an error.
WriteRefused(s) ==
  /\ Running
  /\ s \in blocked \ open
  /\ blocked' = blocked \ {s}
  /\ UNCHANGED <<poolVars, callerVars, fdVars, program, writable, pipeVars>>

CloseStream(s) ==
  /\ Running
  /\ s \in writable \ blocked
  /\ writable' = writable \ {s}
  /\ UNCHANGED <<poolVars, callerVars, fdVars, program, blocked, pipeVars>>

\* The program is over and its ends of the pipes are closed.
Ends(status) ==
  /\ program' = status
  /\ blocked' = {}
  /\ writable' = {}
  /\ UNCHANGED <<poolVars, callerVars, fdVars, pipeVars>>

Exit == Running /\ blocked = {} /\ Ends("OK")

\* A violation of the policy, or of an rlimit.
Killed == Running /\ \E status \in {"SIGNALED", "VIOLATION"} : Ends(status)

\* The monitor ends a program that has reached its wall time limit: the one that
\* was set, or one that the sandbox has by default.
LimitReached == Running /\ Ends("TIMEOUT")

-----------------------------------------------------------------------------
CallerStep ==
  \/ BufferFails \/ ReceiveFds \/ PolicyFails \/ ConstructSandbox
  \/ MoveSandbox \/ DestroyMovedFrom
  \/ RunAsyncFails \/ RunAsync \/ SetWalltimeLimit
  \/ OwnPool \/ ReadFailed \/ Drained \/ ReturnResult
  \/ AwaitCompilation \/ CallerReads \/ CallerReadsStdout
  \/ CallerReadsStderr \/ CallerReadFails

WorkerStep(w) ==
  TakeStream(w) \/ EndThread(w) \/ WorkerReads(w) \/ WorkerFinishes(w)

ProgramStep ==
  \/ \E s \in Streams :
       BeginWrite(s) \/ EndWrite(s) \/ WriteRefused(s) \/ CloseStream(s)
  \/ Exit

\* The caller has returned, or the process has ended.
Over == pc = "returned" \/ ProcessEnded

Finished == Over /\ UNCHANGED vars

RunStep ==
  CallerStep \/ (\E w \in Readers : WorkerStep(w)) \/ ProgramStep \/ Killed

Next == RunStep \/ LimitReached \/ Finished

\* No read fails in this step: a stream that is closed has been read.
NoReadError == \A s \in open \ open' : contents'[s] # NotOk

\* The system runs the threads of the tester; that it fails their reads is not
\* to be counted on.
TesterRuns ==
  /\ WF_vars(CallerStep /\ NoReadError)
  /\ \A w \in Readers : WF_vars(WorkerStep(w) /\ NoReadError)

Spec == Init /\ [][Next]_vars
FairSpec == Spec /\ TesterRuns

\* The monitor of the sandbox enforces a limit that has been set.
LimitEnforced == WF_vars(limitSet /\ LimitReached)

\* A program of which only this is known, that it writes finitely often, that its
\* writes return when they can, and that it exits unless a write holds it up.
ProgramIsFinite ==
  /\ <>[][\A s \in Streams : ~BeginWrite(s)]_vars
  /\ \A s \in Streams : WF_vars(EndWrite(s) \/ WriteRefused(s))
  /\ WF_vars(Exit)

-----------------------------------------------------------------------------
(* The inductive invariant.                                                *)

\* The caller goes through its function in order, and there is a pool only while
\* it drains.
CallerInOrder ==
  /\ numThreads = 2 /\ numTasks = 2
  /\ pc \in {"create", "policy", "move", "destroy", "run"} => program = "none"
  /\ pc \in {"limit", "drain", "await", "stdout", "stderr"} => program # "none"
  /\ pc \in {"limit", "drain"} => call = "RunCodeOnInput"
  /\ pc \in {"stdout", "stderr"} => call = "CompileCode" /\ Ended
  /\ pc # "returned" <=> ret = "pending"
  /\ pc \in {"create", "policy", "move", "destroy", "run", "limit"} =>
       owner = "starting"
  /\ pc # "drain" => owner \in {"starting", "destroyed"}

\* The descriptors that an object holds are open, and no other object has them.
HoldersOwn ==
  /\ holds["status"] = IF pc = "move" THEN Streams ELSE {}
  /\ holds["local"] \subseteq open
  /\ pc \in {"create", "returned"} => holds["local"] = {}
  /\ pc = "create" => open = {}
  /\ pc = "policy" => open = Streams /\ holds["local"] = {}
  /\ pc = "move" => open = Streams /\ holds["local"] = {}
  /\ pc \in {"destroy", "run", "limit"} => holds["local"] = Streams
  /\ pc \in {"drain", "await", "stdout", "stderr"} => holds["local"] = open

\* A stream is closed when its reader is done with it.
StreamsClosed ==
  /\ pc = "drain" => open = Streams \ done
  /\ pc = "await" => open = IF call = "CompileCode" THEN Streams ELSE {}
  /\ pc = "stdout" => open = Streams
  /\ pc = "stderr" => open = {stderr}

\* No block is lost on its way, and what a reader returns is all there is.
BlocksAccounted ==
  /\ \A s \in Streams : sent[s] = received[s] + pipe[s]
  /\ \A s \in Streams : \A n \in contents[s] :
       n = received[s] /\ pipe[s] = 0 /\ s \notin writable
  /\ blocked \subseteq writable
  /\ \A s \in blocked : sent[s] < MaxBlocks
  /\ Ended => writable = {}
  /\ blocked # {} => Running

\* What has been read by the time the caller uses it.
ContentsRead ==
  /\ pc = "create" => \A s \in Streams : contents[s] = NotOk
  /\ pc = "await" /\ call = "RunCodeOnInput" =>
       \A s \in Streams : contents[s] # NotOk
  /\ pc = "stderr" => contents[stdout] # NotOk
  /\ ret = "OK" => Ended /\ \A s \in Streams : contents[s] # NotOk

\* Who owns which descriptor, who reads which pipe and what has become of
\* every block, at every moment of a run.
Inv ==
  /\ TypeOK
  /\ Pool!Inv
  /\ CallerInOrder
  /\ HoldersOwn
  /\ StreamsClosed
  /\ BlocksAccounted
  /\ ContentsRead

-----------------------------------------------------------------------------
(* Properties.                                                             *)

\* A descriptor has at most one owner, and an owner's descriptor is open: none
\* is closed twice, or read after another thread of the tester may have been
\* given the same number.
OneOwner ==
  /\ holds["status"] \cap holds["local"] = {}
  /\ holds["status"] \cup holds["local"] \subseteq open
  /\ \A w \in Readers : worker[w] = "running" => func[w] \in open

\* A run that ends gives back the descriptors it was given, by whichever path
\* it returns, unless CreatePolicy failed.
GivesBack == pc' = "returned" /\ pc \notin {"policy", "returned"} => open' = {}
DescriptorsGivenBack == [][GivesBack]_vars

\* An OK answer is given only when the program is over, and has all the program
\* wrote to each stream; and a reader is never content with less than that.
OutputComplete ==
  /\ ret = "OK" => Ended /\ \A s \in Streams : contents[s] = {sent[s]}
  /\ \A s \in writable : contents[s] = NotOk

\* Once the readers have been scheduled, a program that is held up by a pipe has
\* a reader on that very pipe, or a free thread that will be one: the program is
\* never waiting for a reader that is waiting for the program.
BlockedProgramIsRead ==
  owner = "joining" =>
    \A s \in blocked \cap open :
      \E w \in Readers :
        \/ worker[w] = "running" /\ func[w] = s
        \/ worker[w] = "waiting" /\ \E i \in DOMAIN queue : queue[i] = s

\* A read of the stream returns at once.
Readable(s) == pipe[s] > 0 \/ s \notin writable

ReaderCanMove(w) ==
  \/ worker[w] = "waiting" /\ queue # <<>>
  \/ worker[w] = "running" /\ Readable(func[w])

CallerCanMove ==
  \/ pc \in {"create", "policy", "move", "destroy", "run", "limit"}
  \/ pc = "drain" /\ owner \in {"starting", "scheduling", "destroyed"}
  \/ /\ pc = "drain" /\ owner = "joining"
     /\ joined < threads => worker[joined + 1] = "exited"
  \/ pc = "await" /\ Ended
  \/ pc \in {"stdout", "stderr"} /\ Readable(Reading)

\* The program can exit, or one of its writes can return.
ProgramCanMove ==
  Running /\ (blocked # {} =>
                \E s \in blocked : s \notin open \/ pipe[s] < PipeCapacity)

\* Caller, readers and program never wait for each other in a circle, but in
\* CompileCode: it awaits the compiler, which waits for a reader of its pipe.
OnlyFullPipeStalls ==
  \/ Over \/ CallerCanMove \/ ProgramCanMove
  \/ \E w \in Readers : ReaderCanMove(w)
  \/ /\ call = "CompileCode" /\ pc = "await"
     /\ \E s \in blocked : pipe[s] = PipeCapacity

\* A bound on what a run can still do if the program begins no further write.
StreamCount(S) ==
  (IF stdout \in S THEN 1 ELSE 0) + (IF stderr \in S THEN 1 ELSE 0)
RunSteps ==
  [create |-> 12, policy |-> 9, move |-> 8, destroy |-> 7, run |-> 6,
   limit |-> 5, drain |-> 4, await |-> 3, stdout |-> 2, stderr |-> 1,
   returned |-> 0]
StepsLeft ==
  Pool!StepsLeft + RunSteps[pc] + pipe[stdout] + pipe[stderr]
    + 2 * StreamCount(blocked) + StreamCount(writable)
    + (IF program = "none" THEN 2 ELSE IF Running THEN 1 ELSE 0)

Shortens == StepsLeft' \in Nat /\ StepsLeft' < StepsLeft

\* Reading takes no step that gets nothing: all that makes a run longer is a
\* write that the program begins.
ShortensOrWrites == Shortens \/ \E s \in Streams : BeginWrite(s)
StepsRunOut == [][ShortensOrWrites]_vars

\* What a run promises its caller.
Contract == INSTANCE RunContract WITH
  output <- IF ret = "OK" THEN contents ELSE [s \in Streams |-> NotOk]
ImplementsContract == Contract!Spec

\* RunCodeOnInput returns even if the program never ends by itself, because of
\* the wall time limit that it sets after the start.
RunReturns == LimitEnforced => (call = "RunCodeOnInput" => <>Over)

\* Without any limit, nothing keeps a run of a finite program from returning but
\* a compiler that has filled a pipe: CompileCode awaits it before it reads.
OnlyCompilerStalls ==
  ProgramIsFinite =>
    \/ <>Over
    \/ call = "CompileCode" /\ <>[](\E s \in blocked : pipe[s] = PipeCapacity)

=============================================================================
