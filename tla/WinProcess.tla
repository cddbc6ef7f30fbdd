----------------------------- MODULE WinProcess -----------------------------
(***************************************************************************)
(* One spawned child on Windows, as src/win32/spawn.cpp runs it: the       *)
(* handles that platform_spawn makes and closes again, the job object that *)
(* stands for the supervisor of UnixProcess, the threads that read the     *)
(* outputs and feed stdin, and the calls on the handle.  The child may     *)
(* start a descendant, which inherits its streams and its job.             *)
(*                                                                         *)
(* A step is the code between two points where another process or thread   *)
(* can interfere; termination takes effect in the step that asks for it.   *)
(* write_stdin() and close_stdin() are those of Stdio: here one is seen    *)
(* only by the mutex that it holds.                                        *)
(***************************************************************************)
EXTENDS Integers

CONSTANTS
    Half,       \* half of what a DWORD can hold, 2^31: the first code int cannot
    Codes,      \* exit codes the child may return
    Modes,      \* ways to spawn it that are considered
    Faults      \* what may fail, a subset of FaultKinds

Stream     == {"out", "err"}
Process    == {"child", "kid"}
FaultKinds == {"pipe_fails", "list_fails", "create_fails", "no_job", "assign_fails",
               "handle_reused"}
AllModes   == [headless : BOOLEAN,
               stdin : {"inherit", "closed", "pipe", "content"},  \* content: file as well
               out : {"capture", "discard", "inherit"}, err : {"capture", "discard", "inherit"},
               merge : BOOLEAN]

STILL_ACTIVE == 259

ASSUME HalfAssumption   == Half \in Nat /\ Half > STILL_ACTIVE
ASSUME CodesAssumption  == Codes \subseteq 0..2*Half-1
ASSUME ModesAssumption  == Modes \subseteq AllModes
ASSUME FaultsAssumption == Faults \subseteq FaultKinds

VARIABLES
    mode,
    lib,        \* where the thread that owns the handle is
    op,         \* the call it is executing, or executed last
    answer,     \* what that call answered
    told,       \* the exit codes that were reported to the caller
    handles,    \* the handles the library has open
    route,      \* where each output of the child goes: to a pipe, "nul", "parent", "nowhere"
    job,        \* the job object: "none", "kill" (kill on close), "plain"
    members,    \* the processes that were put in it
    life,       \* each process: "none", "live", "dead"
    code, by,   \* how the child ended
    stuck,      \* the pipe that the child filled and waits for, or "no"
    reader,     \* the thread that reads each stream
    writer,     \* who holds stdin_mutex in write_stdin(): a reader's callback, "caller", "nobody"
    feeder      \* the thread that writes stdin_content

libVars    == <<lib, op, answer, told>>
worldVars  == <<life, code, by>>
threadVars == <<reader, writer, feeder>>
vars == <<mode, libVars, handles, route, job, members, worldVars, stuck, threadVars>>

Over     == {"failed", "gone", "dead"}
Spawning == {"stdin", "stdout", "stderr", "job", "create", "assign", "threads"}

ReadEnd  == [out |-> "out_r", err |-> "err_r"]
WriteEnd == [out |-> "out_w", err |-> "err_w"]
ForChild == {"stdin_r", "out_w", "err_w", "nul_r", "nul_w"}

(* Everybody who could hold an inherited stream has ended. *)
StreamsFree == \A p \in Process : life[p] # "live"

(* GetExitCodeProcess() == STILL_ACTIVE: also of a child that returned it. *)
IsAlive == life["child"] = "live" \/ code = STILL_ACTIVE

(* static_cast<int>() of a DWORD. *)
AsInt(dword) == IF dword < Half THEN dword ELSE dword - 2 * Half

(* The child shares the console, and whatever the parent's handles are.    *)
Interactive == ~mode.headless /\ mode.stdin = "inherit" /\ mode.out = "inherit"
                              /\ mode.err = "inherit"

(* Definitions whose name has a Bug suffix are faulty variants of the one  *)
(* that follows them; the properties are expected to reject them.          *)

(* A discarded stdout is given the pipe that was made for it. *)
StdOutputBugNoNul == IF mode.out = "inherit" THEN "parent" ELSE "out"

(* si.hStdOutput *)
StdOutput == CASE mode.out = "capture" -> "out"
               [] mode.out = "discard" -> "nul"
               [] mode.out = "inherit" -> "parent"

(* si.hStdError: when merged, the write end that was made for stderr, be   *)
(* it a duplicate of stdout's or, stdout being inherited, one of its own.  *)
StdError == CASE Interactive -> "parent"
              [] mode.merge /\ "out_w" \in handles -> "out"
              [] mode.merge /\ "out_w" \notin handles ->
                     IF "err_w" \in handles THEN "err" ELSE "nowhere"
              [] ~mode.merge /\ mode.err = "capture" -> "err"
              [] ~mode.merge /\ mode.err = "discard" -> "nul"
              [] ~mode.merge /\ mode.err = "inherit" -> "parent"

-----------------------------------------------------------------------------
Init ==
    /\ mode \in Modes
    /\ lib = "stdin" /\ op = "spawn" /\ answer = "none" /\ told = {}
    /\ handles = {} /\ route = [s \in Stream |-> "nowhere"] /\ job = "none" /\ members = {}
    /\ life = [p \in Process |-> "none"] /\ code = 0 /\ by = "nobody"
    /\ stuck = "no"
    /\ reader = [s \in Stream |-> "none"] /\ writer = "nobody" /\ feeder = "none"

-----------------------------------------------------------------------------
(* platform_spawn *)

SpawnFrame == UNCHANGED <<mode, op, answer, told, members, worldVars, stuck, threadVars>>

(* Makes the handles of one stage, or closes the given ones and gives up. *)
Make(stage, next, made, fault, closed) ==
    /\ lib = stage
    /\ \/ handles' = handles \cup made /\ lib' = next
       \/ made # {} /\ fault \in Faults /\ handles' = handles \ closed /\ lib' = "failed"
    /\ UNCHANGED <<route, job>>
    /\ SpawnFrame

MakeStdin == Make("stdin", "stdout",
    IF mode.stdin \in {"pipe", "content"} THEN {"stdin_r", "stdin_w"} ELSE {}, "pipe_fails", {})

(* A pipe is made for discard too, though the child gets NUL. *)
MakeStdout == Make("stdout", "stderr",
    IF mode.out # "inherit" THEN {"out_r", "out_w"} ELSE {}, "pipe_fails",
    {"stdin_r", "stdin_w"})

(* A failure here forgets the pipe of stdout. *)
MakeStderrBugLeak ==
    IF mode.merge /\ "out_w" \in handles
    THEN Make("stderr", "job", {"err_w"}, "none", {})
    ELSE Make("stderr", "job",
              IF mode.err # "inherit" THEN {"err_r", "err_w"} ELSE {}, "pipe_fails",
              {"stdin_r", "stdin_w"})

(* Merged: a duplicate of stdout's write end, if it has one. *)
MakeStderr ==
    IF mode.merge /\ "out_w" \in handles
    THEN Make("stderr", "job", {"err_w"}, "none", {})
    ELSE Make("stderr", "job",
              IF mode.err # "inherit" THEN {"err_r", "err_w"} ELSE {}, "pipe_fails",
              {"stdin_r", "stdin_w", "out_r", "out_w"})

(* NUL; the handles that STARTUPINFO gives to the child; the job object    *)
(* with kill-on-close, whose failure is passed over; and the whitelist of  *)
(* inherited handles.                                                      *)
MakeJob ==
    /\ lib = "job"
    /\ LET nul  == (IF mode.stdin = "closed" THEN {"nul_r"} ELSE {})
                   \cup (IF "discard" \in {mode.out, mode.err} THEN {"nul_w"} ELSE {})
           made == handles \cup nul
       IN \/ /\ handles' = made \cup {"job"}
             /\ job' = "kill" /\ lib' = "create"
          \/ /\ "no_job" \in Faults
             /\ handles' = made
             /\ lib' = "create" /\ UNCHANGED job
          \/ /\ "list_fails" \in Faults
             /\ handles' = (made \cup {"job"}) \ {"stdin_r", "out_w", "err_w", "nul_w", "nul_r",
                                                  "stdin_w", "out_r", "err_r", "job"}
             /\ lib' = "failed" /\ UNCHANGED job
    /\ route' = [out |-> StdOutput, err |-> StdError]
    /\ SpawnFrame

(* CreateProcess(); the child runs from here on.  The library closes what  *)
(* it made for the child either way, and the rest if there is no child.    *)
CreateProcess ==
    /\ lib = "create"
    /\ LET mine == handles \ {"stdin_r", "out_w", "err_w", "nul_w", "nul_r"}
       IN \/ /\ life' = [life EXCEPT !["child"] = "live"]
             /\ handles' = mine \cup {"process", "thread"}
             /\ lib' = "assign"
          \/ /\ "create_fails" \in Faults
             /\ handles' = mine \ {"stdin_w", "out_r", "err_r", "job"} /\ lib' = "failed"
             /\ UNCHANGED life
    /\ UNCHANGED <<mode, op, answer, told, route, job, members, code, by, stuck, threadVars>>

(* AssignProcessToJobObject(), whose result is not looked at.  What the    *)
(* child started before is not taken along.                                *)
AssignToJob ==
    /\ lib = "assign"
    /\ lib' = "threads"
    /\ handles' = handles \ {"thread"}
    /\ \/ job # "none" /\ members' = {"child"}
       \/ (job = "none" \/ "assign_fails" \in Faults) /\ UNCHANGED members
    /\ UNCHANGED <<mode, op, answer, told, route, job, worldVars, stuck, threadVars>>

(* The threads, and the handle: spawn() returns it, run() waits on it.  The *)
(* feeder has stdin_w from now on, unless a live pipe was asked for.       *)
StartThreads ==
    /\ lib = "threads"
    /\ feeder' = IF mode.stdin = "content" THEN "writing" ELSE "none"
    /\ reader' = [s \in Stream |-> IF mode[s] = "capture" THEN "starting" ELSE "none"]
    /\ \/ lib' = "idle" /\ op' = "spawn"
       \/ lib' = "joinFeeder" /\ op' = "run"        \* no timeout: wait()
       \/ lib' = "poll" /\ op' = "runFor"           \* wait_for_and_kill()
    /\ UNCHANGED <<mode, answer, told, handles, route, job, members, worldVars, stuck, writer>>

-----------------------------------------------------------------------------
(* Ends of processes *)

(* TerminateJobObject(job, -1). *)
EndBugMinusOne(victims) ==
    /\ life' = [p \in Process |-> IF p \in victims /\ life[p] = "live" THEN "dead" ELSE life[p]]
    /\ IF "child" \in victims /\ life["child"] = "live"
       THEN code' = -1 /\ by' = "us" ELSE UNCHANGED <<code, by>>

(* The child gets exit code 1 from whoever ends it by force. *)
End(victims) ==
    /\ life' = [p \in Process |-> IF p \in victims /\ life[p] = "live" THEN "dead" ELSE life[p]]
    /\ IF "child" \in victims /\ life["child"] = "live"
       THEN code' = 1 /\ by' = "us" ELSE UNCHANGED <<code, by>>

(* TerminateProcess() is called although there is a job. *)
KillTreeBugSingle == End({"child"})

(* TerminateJobObject(), or TerminateProcess() where there is no job. *)
KillTree == End(IF job = "none" THEN {"child"} ELSE members)

(* The last handle of the job is closed. *)
CloseJob == End(IF job = "kill" THEN members ELSE {})

-----------------------------------------------------------------------------
(* The calls on a handle *)

CallFrame == UNCHANGED <<mode, handles, route, job, members, stuck, threadVars>>

CallWait ==
    /\ lib = "idle"
    /\ \/ op' = "wait" /\ lib' = "joinFeeder"
       \/ op' = "wait_for" /\ lib' = "poll"
    /\ answer' = "none"
    /\ UNCHANGED <<told, worldVars>>
    /\ CallFrame

JoinFeeder ==
    /\ lib = "joinFeeder" /\ feeder # "writing"
    /\ lib' = "process"
    /\ UNCHANGED <<op, answer, told, worldVars>>
    /\ CallFrame

(* WaitForSingleObject() sees the end of the child. *)
ProcessSignalled ==
    /\ lib \in {"process", "poll"} /\ life["child"] = "dead"
    /\ lib' = "joinReaders"
    /\ UNCHANGED <<op, answer, told, worldVars>>
    /\ CallFrame

(* WAIT_TIMEOUT: wait_for() returns, run() kills the tree. *)
WaitTimesOut ==
    /\ lib = "poll" /\ life["child"] # "dead"
    /\ IF op = "wait_for"
       THEN lib' = "idle" /\ answer' = "running" /\ UNCHANGED <<op, worldVars>>
       ELSE lib' = "joinReaders" /\ op' = "timeout" /\ KillTree /\ UNCHANGED answer
    /\ UNCHANGED told
    /\ CallFrame

ReadersDone == \A s \in Stream : reader[s] \in {"none", "done"}

(* join_pipe_readers(), the exit code unless it timed out; run() destroys. *)
Answer ==
    /\ lib = "joinReaders" /\ ReadersDone
    /\ IF op = "timeout" THEN answer' = "timeout" /\ UNCHANGED told
                         ELSE answer' = "exit" /\ told' = told \cup {AsInt(code)}
    /\ lib' = IF op \in {"run", "runFor", "timeout"} THEN "closing" ELSE "idle"
    /\ UNCHANGED <<op, worldVars>>
    /\ CallFrame

(* kill(), and ~RunningProcess(), which calls it and does not wait.  The   *)
(* program does not destroy or assign a handle that one of its own threads *)
(* is using.                                                               *)
CallKill ==
    /\ lib = "idle"
    /\ \/ op' = "kill" /\ UNCHANGED lib
       \/ op' = "destroy" /\ lib' = "closing" /\ writer # "caller"
    /\ IF IsAlive THEN KillTree /\ answer' = "true"
                  ELSE UNCHANGED worldVars /\ answer' = "false"
    /\ UNCHANGED told
    /\ CallFrame

(* terminate() sends CTRL_BREAK to the child's group, which may end it;    *)
(* interrupt() never sends anything.  Both throw on an interactive child.  *)
CallSignal ==
    /\ lib = "idle"
    /\ op' \in {"terminate", "interrupt"}
    /\ IF ~mode.headless
       THEN answer' = "mode_error" /\ UNCHANGED worldVars
       ELSE IF op' = "terminate" /\ IsAlive
       THEN answer' = "true" /\ \E v \in SUBSET Process : End(v)
       ELSE answer' = "false" /\ UNCHANGED worldVars
    /\ UNCHANGED <<lib, told>>
    /\ CallFrame

(* A move assignment destroys the old Impl without a kill(). *)
CallMoveAssign ==
    /\ lib = "idle" /\ writer # "caller"
    /\ op' = "move" /\ lib' = "closing"
    /\ UNCHANGED <<answer, told, worldVars>>
    /\ CallFrame

(* What ~Win32ProcessImpl() closes; stdin_write_handle is set for a live   *)
(* pipe only.                                                              *)
StdinHandle == IF mode.stdin = "pipe" THEN {"stdin_w"} ELSE {}

(* ~Win32ProcessImpl(): the threads first, then every handle. *)
Close ==
    /\ lib = "closing" /\ feeder # "writing" /\ ReadersDone
    /\ lib' = "gone"
    /\ handles' = handles \ ({"out_r", "err_r", "process", "job"} \cup StdinHandle)
    /\ CloseJob
    /\ UNCHANGED <<mode, op, answer, told, route, job, members, stuck, threadVars>>

(* detach() asks for stdin_mutex first, which a write_stdin() may hold ... *)
CallDetach ==
    /\ lib = "idle"
    /\ op' = "detach" /\ lib' = "lock" /\ answer' = "none"
    /\ UNCHANGED <<told, worldVars>>
    /\ CallFrame

(* ... and closes the child's stdin under it. *)
DetachCloses ==
    /\ lib = "lock" /\ writer = "nobody"
    /\ lib' = "release"
    /\ handles' = handles \ StdinHandle
    /\ UNCHANGED <<mode, op, answer, told, route, job, members, worldVars, stuck, threadVars>>

(* The limit of the job is left as it is. *)
ReleaseBugKeepsLimit ==
    /\ lib = "release"
    /\ lib' = "cancel"
    /\ UNCHANGED <<op, answer, told, worldVars>>
    /\ CallFrame

(* The job no longer kills when it is closed. *)
Release ==
    /\ lib = "release"
    /\ lib' = "cancel"
    /\ job' = IF job = "kill" THEN "plain" ELSE job
    /\ UNCHANGED <<mode, op, answer, told, handles, route, members, worldVars, stuck, threadVars>>

(* The readers are joined and nothing has told them to stop. *)
CancelReadersBugNoClose ==
    /\ lib = "cancel"
    /\ lib' = "detachJoin"
    /\ UNCHANGED <<op, answer, told, worldVars>>
    /\ CallFrame

(* The read ends are closed under the readers, to wake them. *)
CancelReaders ==
    /\ lib = "cancel"
    /\ lib' = "detachJoin"
    /\ handles' = handles \ {"out_r", "err_r"}
    /\ UNCHANGED <<mode, op, answer, told, route, job, members, worldVars, stuck, threadVars>>

(* ... and joined; detach() then destroys the Impl. *)
DetachJoins ==
    /\ lib = "detachJoin" /\ ReadersDone
    /\ lib' = "closing"
    /\ UNCHANGED <<op, answer, told, worldVars>>
    /\ CallFrame

(* The program ends without unwinding: the system closes its handles. *)
LibraryDies ==
    /\ lib \notin Over
    /\ lib' = "dead"
    /\ handles' = {}
    /\ reader' = [s \in Stream |-> "none"] /\ writer' = "nobody" /\ feeder' = "none"
    /\ CloseJob
    /\ UNCHANGED <<mode, op, answer, told, route, job, members, stuck>>

-----------------------------------------------------------------------------
(* The threads *)

ReaderFrame == UNCHANGED <<mode, libVars, handles, route, job, members, worldVars, feeder>>

ReaderGoes(s, to) ==
    /\ reader' = [reader EXCEPT ![s] = to]
    /\ UNCHANGED <<stuck, writer>>
    /\ ReaderFrame

(* The thread takes the handle from the Impl: none if there is no pipe of  *)
(* that stream, or if detach() was faster.                                 *)
ReaderStarts(s) ==
    /\ reader[s] = "starting"
    /\ ReaderGoes(s, IF ReadEnd[s] \in handles THEN "between" ELSE "done")

(* ReadFile() on the handle it took.  If that is closed by now the call    *)
(* fails, or the number belongs to somebody else's pipe.                   *)
ReaderReads(s) ==
    /\ reader[s] = "between"
    /\ IF ReadEnd[s] \in handles THEN ReaderGoes(s, "inside")
       ELSE \/ ReaderGoes(s, "done")
            \/ "handle_reused" \in Faults /\ ReaderGoes(s, "stray")

(* The other calls on the handle, and those of callbacks, are made while   *)
(* there is one: not in run(), and not once it is being destroyed.         *)
Usable == /\ lib \in {"idle", "joinFeeder", "process", "poll", "joinReaders", "lock"}
          /\ op \notin {"run", "runFor", "timeout"}
          /\ mode.stdin = "pipe"

(* It returns with a chunk, which the callback may answer with a call of   *)
(* write_stdin(); or it fails at EOF or because detach() closed the handle *)
(* under it.                                                               *)
ReaderReturns(s) ==
    /\ reader[s] = "inside"
    /\ \/ /\ ~StreamsFree /\ ReadEnd[s] \in handles
          /\ \E to \in {"between"} \cup (IF Usable THEN {"writing"} ELSE {}) :
                reader' = [reader EXCEPT ![s] = to]
          /\ stuck' = IF stuck = s THEN "no" ELSE stuck
          /\ UNCHANGED writer
          /\ ReaderFrame
       \/ (StreamsFree \/ ReadEnd[s] \notin handles) /\ ReaderGoes(s, "done")

(* The callback gets the mutex, or a ModeError, which it has to catch, if  *)
(* detach() was faster.                                                    *)
CallbackLocks(s) ==
    /\ reader[s] = "writing" /\ writer = "nobody"
    /\ IF "stdin_w" \in handles
       THEN writer' = s /\ UNCHANGED <<reader, stuck>> /\ ReaderFrame
       ELSE ReaderGoes(s, "between")

(* Another thread of the program calls write_stdin(), and gets the mutex. *)
CallerWrites ==
    /\ Usable /\ lib # "lock" /\ "stdin_w" \in handles
    /\ writer = "nobody" /\ writer' = "caller"
    /\ UNCHANGED <<reader, stuck>>
    /\ ReaderFrame

(* The child has read what was written, or cannot any more: the write ends. *)
WriteEnds ==
    /\ writer # "nobody" /\ writer' = "nobody"
    /\ reader' = [s \in Stream |-> IF s = writer THEN "between" ELSE reader[s]]
    /\ UNCHANGED stuck
    /\ ReaderFrame

(* The thread closes the handle it was given when it has written. *)
FeederEnds(may) ==
    /\ feeder = "writing" /\ may
    /\ feeder' = "done"
    /\ handles' = handles \ {"stdin_w"}
    /\ UNCHANGED <<mode, libVars, route, job, members, worldVars, stuck, reader, writer>>

(* Whoever holds the read end of stdin has read everything, or is gone. *)
FeederWritten == FeederEnds(~StreamsFree)
FeederBroken  == FeederEnds(StreamsFree)

-----------------------------------------------------------------------------
(* The child and its descendant *)

OutsideFrame == UNCHANGED <<mode, libVars, handles, route, job, members, threadVars>>

(* A write to a full pipe waits; it fails when the read end is closed. *)
Blocked == life["child"] = "live" /\ stuck # "no" /\ ReadEnd[stuck] \in handles

(* It writes on and on, to a pipe that fills up. *)
ChildFillsPipe ==
    /\ life["child"] = "live" /\ ~Blocked
    /\ \E s \in Stream :
          /\ route[s] \in Stream /\ ReadEnd[route[s]] \in handles
          /\ stuck' = route[s]
    /\ UNCHANGED worldVars
    /\ OutsideFrame

ChildStartsKid ==
    /\ life["child"] = "live" /\ life["kid"] = "none" /\ ~Blocked
    /\ life' = [life EXCEPT !["kid"] = "live"]
    /\ members' = IF "child" \in members THEN members \cup {"kid"} ELSE members
    /\ UNCHANGED <<mode, libVars, handles, route, job, code, by, stuck, threadVars>>

ChildExits ==
    /\ life["child"] = "live" /\ ~Blocked
    /\ life' = [life EXCEPT !["child"] = "dead"]
    /\ code' \in Codes /\ by' = "other"
    /\ UNCHANGED stuck
    /\ OutsideFrame

KidExits ==
    /\ life["kid"] = "live"
    /\ life' = [life EXCEPT !["kid"] = "dead"]
    /\ UNCHANGED <<code, by, stuck>>
    /\ OutsideFrame

Finished == lib \in Over /\ StreamsFree /\ UNCHANGED vars

-----------------------------------------------------------------------------
SpawnStep  == MakeStdin \/ MakeStdout \/ MakeStderr \/ MakeJob \/ CreateProcess
              \/ AssignToJob \/ StartThreads
Call       == CallWait \/ CallKill \/ CallSignal \/ CallMoveAssign \/ CallDetach
CallStep   == JoinFeeder \/ ProcessSignalled \/ WaitTimesOut \/ Answer \/ Close
              \/ DetachCloses \/ Release \/ CancelReaders \/ DetachJoins
ReaderStep(s) == ReaderStarts(s) \/ ReaderReads(s) \/ ReaderReturns(s) \/ CallbackLocks(s)

Next == SpawnStep \/ Call \/ CallStep \/ LibraryDies
        \/ (\E s \in Stream : ReaderStep(s)) \/ CallerWrites \/ WriteEnds
        \/ FeederWritten \/ FeederBroken
        \/ ChildFillsPipe \/ ChildStartsKid \/ ChildExits \/ KidExits \/ Finished

(* Threads that can go on do; nobody is obliged to make a call, and the    *)
(* child is obliged neither to read nor to exit.  A write is sure to end   *)
(* only when nobody is left who could read it.                             *)
Fairness ==
    /\ WF_vars(SpawnStep) /\ WF_vars(CallStep)
    /\ \A s \in Stream : WF_vars(ReaderStep(s))
    /\ WF_vars(FeederBroken) /\ WF_vars(StreamsFree /\ WriteEnds)

Spec     == Init /\ [][Next]_vars
FairSpec == Spec /\ Fairness

-----------------------------------------------------------------------------
TypeOK ==
    /\ mode \in Modes
    /\ lib \in Spawning \cup Over \cup {"idle", "joinFeeder", "process", "poll", "joinReaders",
                                        "closing", "lock", "release", "cancel", "detachJoin"}
    /\ op \in {"spawn", "run", "runFor", "timeout", "wait", "wait_for", "kill", "destroy",
               "terminate", "interrupt", "move", "detach"}
    /\ answer \in {"none", "exit", "running", "timeout", "true", "false", "mode_error"}
    /\ told \in SUBSET (-Half..Half-1)
    /\ handles \in SUBSET (ForChild \cup {"stdin_w", "out_r", "err_r", "job", "process", "thread"})
    /\ route \in [Stream -> Stream \cup {"nul", "parent", "nowhere"}]
    /\ job \in {"none", "kill", "plain"} /\ members \in SUBSET Process
    /\ life \in [Process -> {"none", "live", "dead"}]
    /\ code \in 0..2*Half-1 /\ by \in {"nobody", "us", "other"} /\ stuck \in Stream \cup {"no"}
    /\ reader \in [Stream -> {"none", "starting", "between", "inside", "writing", "stray", "done"}]
    /\ writer \in Stream \cup {"caller", "nobody"}
    /\ feeder \in {"none", "writing", "done"}

(* The child that was not put in a job is not supervised: no job could be  *)
(* made, or the assignment failed.                                         *)
Supervised == lib \in (Spawning \ {"threads"}) \cup {"failed"} \/ "child" \in members

(* Whatever way a spawn fails, and whatever way a handle goes, every       *)
(* handle that was made has been closed, be it by the stage that fails, by *)
(* the destructor, by detach() or by the feeder; and the ends that are the *)
(* child's are closed as soon as it has them, or EOF would never come.     *)
NoHandleLeak ==
    /\ lib \in {"failed", "gone"} => handles = {}
    /\ lib \notin Spawning => handles \cap (ForChild \cup {"thread"}) = {}

(* "Non-detached children die with the parent": once the program is dead,  *)
(* or the handle gone without detach(), all that runs on was never in the  *)
(* job - because it ran before the assignment, or because this failed.     *)
OnlyOutsidersSurvive ==
    lib \in {"dead", "gone"} /\ (op = "detach" => job = "kill") =>
        \A p \in members : life[p] # "live"

(* kill() and the timeout of run() end every member of the job.  The child *)
(* itself survives only a job that it was not put into: kill() says "true" *)
(* then although it ended nothing.                                         *)
KillTakesTheTree ==
    op = "timeout" \/ (op \in {"kill", "destroy"} /\ answer = "true") =>
        /\ \A p \in members : life[p] # "live"
        /\ life["child"] = "live" => job # "none" /\ "child" \notin members

(* However a process is ended, the job takes the whole tree. *)
TreeDies == OnlyOutsidersSurvive /\ KillTakesTheTree

(* A child that blocks on a full pipe has a thread that reads it, or will  *)
(* when its callback returns: nothing that is discarded goes to a pipe,    *)
(* and no reader ends while the child writes - but stderr merged into a    *)
(* stream that is discarded goes to a pipe to which nobody listens.        *)
FullPipesAreRead ==
    Blocked /\ lib \notin Spawning =>
        \/ reader[stuck] \in {"starting", "between", "inside", "writing"}
        \/ mode.merge /\ mode[stuck] = "discard"

(* run() returns after its timeout: the kill ends all that hold the pipes, *)
(* but for a process outside the job.                                      *)
TimeoutReturns ==
    op = "timeout" ~> lib \in Over \/ \E p \in Process \ members : life[p] = "live"

(* detach() returns while the child runs and keeps its outputs open - but  *)
(* it waits for the feeder, for a write_stdin() of any thread, and for a   *)
(* reader that was caught between two reads, each of which may take for    *)
(* ever.                                                                   *)
DetachReturns ==
    <>[](writer = "nobody" /\ feeder # "writing" /\ \A s \in Stream : reader[s] # "stray")
        => (op = "detach" ~> lib \in Over)

(* The promises of RunningProcess, with the job in the supervisor's place. *)
Owner ==
    CASE lib \in Spawning -> "spawning"
      [] lib = "failed" -> "refused"
      [] op = "detach" /\ lib \in {"cancel", "detachJoin", "closing", "gone"} -> "released"
      [] op = "detach" /\ lib = "dead" /\ job # "kill" -> "released"
      [] lib = "gone" /\ op # "detach" -> "finished"
      [] lib = "dead" /\ (op = "detach" => job = "kill") -> "dead"
      [] OTHER -> "handle"

Contract == INSTANCE ProcessContract WITH
    owner  <- Owner,
    child  <- CASE life["child"] = "none" -> "none"
                [] life["child"] = "live" -> "running"
                [] life["child"] = "dead" -> "ended",
    truth  <- AsInt(code),
    by     <- by,
    report <- told,
    intact <- Supervised

(* Every behaviour is one that the contract of RunningProcess allows. *)
KeepsContract == Contract!Spec
=============================================================================
