---------------------------- MODULE UnixProcess ----------------------------
(***************************************************************************)
(* One spawned child on Unix, as src/unix/spawn.cpp runs it: the library   *)
(* thread that owns the RunningProcess handle, the supervisor process      *)
(* between the library and the child, the target itself, one descendant of *)
(* the target, and the reader thread that drains captured output.          *)
(*                                                                         *)
(* A step is the code between two points where another process or thread   *)
(* can interfere: a blocking or observing system call.  Signals take       *)
(* effect in the step that sends them.  Data that no property tells apart  *)
(* (output bytes, errno values, pids) is left out.                         *)
(***************************************************************************)
EXTENDS Integers, Sequences

CONSTANTS
    Codes,      \* exit codes the target may return
    Sigs,       \* signals an outsider may kill the target with
    Sigpipe,    \* dispositions of SIGPIPE the caller may have: "default", "ignored"
    Faults      \* environment faults that may happen, a subset of FaultKinds

SIGINT  == 2
SIGKILL == 9
SIGTERM == 15

FaultKinds == {"fork_fails", "exec_fails", "eintr", "poll_fails",
               "supervisor_killed", "group_killed", "pid_reused"}

ASSUME CodesAssumption   == Codes \subseteq 0..255
ASSUME SigsAssumption    == Sigs \subseteq 1..64
ASSUME SigpipeAssumption == Sigpipe \subseteq {"default", "ignored"}
ASSUME FaultsAssumption  == Faults \subseteq FaultKinds

VARIABLES
    mode,       \* how the child was spawned, and the caller's SIGPIPE disposition
    lib,        \* where the library thread is
    op,         \* the call it is executing, or executed last
    result,     \* what the last call answered
    supPid,     \* supervisor_pid > 0: the handle still owns the supervisor
    cached,     \* cached_exit_code
    waited,     \* the field of that name
    fds,        \* the library's ends of the three protocol pipes that are open
    shutdown,   \* reader_shutdown
    reader,     \* the pipe reader thread; "writing" in a callback's write_stdin()
    stdin,      \* who holds stdin_mutex in write_stdin(), or "closed"
    sup,        \* where the supervisor is
    supExit,    \* how it ended
    supGroup,   \* the process group it is in
    revents,    \* what its current poll() has sampled
    info,       \* the info pipe
    release,    \* the release byte was written
    probe,      \* the target wrote an errno into the exec probe
    tgt,        \* the target process
    status,     \* its wait status, once it is a zombie
    killer,     \* who ended it with a signal
    kid,        \* a descendant of the target that holds its stdout
    pidOwner,   \* what the number target_pid names
    strangerHit,\* a signal of ours reached an unrelated process
    eintr       \* the system call that a signal handler interrupted, if any

ownVars  == <<supPid, cached, waited>>
pipeVars == <<fds, shutdown, reader, stdin>>
supVars  == <<sup, supExit, supGroup, revents>>
wireVars == <<info, release, probe>>
tgtVars  == <<tgt, status, killer, kid, pidOwner, strangerHit>>

(* What a step of the library, the supervisor, or the target leaves alone. *)
world        == <<mode, supVars, wireVars, tgtVars, eintr>>
libSide      == <<mode, lib, op, result, ownVars, pipeVars, release>>
aroundTarget == <<libSide, supVars, info, probe, eintr>>

vars == <<lib, op, result, ownVars, pipeVars, world>>

-----------------------------------------------------------------------------
(* Helpers *)

Live      == {"forked", "running"}
SupLive   == {"forking", "probe", "fail", "failReap", "report", "own",
              "poll", "pollRelease", "awake", "reap0", "reap1"}
HasHandle == {"idle", "poll", "signal", "reap", "join", "detachLock", "detachReap",
              "detachJoin", "dtorJoin", "dtorReap"}
Over      == {"failed", "gone", "crashed"}

Message       == [tag : 0..2, flag : 0..1, payload : Nat]
OkMsg         == [tag |-> 0, flag |-> 0, payload |-> 0]
ErrMsg        == [tag |-> 1, flag |-> 0, payload |-> 0]
ExitMsg(st)   == [tag |-> 2, flag |-> st.flag, payload |-> st.payload]
Exited(c)     == [flag |-> 0, payload |-> c]
Signalled(s)  == [flag |-> 1, payload |-> s]

(* Definitions whose name has a Bug suffix are faulty variants of the one  *)
(* that follows them; the properties are expected to reject them.          *)
EncodeBugNegative(m) == IF m.flag = 0 THEN m.payload ELSE -m.payload

(* The exit code a wait status becomes, as shells encode it. *)
Encode(m) == IF m.flag = 0 THEN m.payload ELSE 128 + m.payload

(* An abnormal end of the supervisor taken for exit code 0. *)
ExitCodeReadBugZero == IF info # <<>> /\ Head(info).tag = 2 THEN Encode(Head(info)) ELSE 0

(* cached_exit_code after the supervisor was reaped: the exit message if it *)
(* exited with 0 and left one, -1 otherwise.                               *)
ExitCodeRead == IF supExit = "zero" /\ info # <<>> /\ Head(info).tag = 2
                THEN Encode(Head(info)) ELSE -1

(* kill(target_pid, 0) == 0: true of a zombie, and of whatever process has *)
(* the number once the supervisor has reaped the target.                   *)
IsAlive == pidOwner # "free"

(* kill(-pid) finds no group before the grandchild's own setpgid. *)
TargetReached == pidOwner = "target" /\ ~(mode.headless /\ tgt = "forked")
TreeReached   == mode.headless /\ kid = "live"
Delivered     == TargetReached \/ TreeReached \/ pidOwner = "stranger"

(* kill(pid) where kill(-pid) is meant. *)
SendFatalBugSingle(who, s) ==
    /\ IF TargetReached /\ tgt \in Live
       THEN tgt' = "zombie" /\ status' = Signalled(s) /\ killer' = who
       ELSE UNCHANGED <<tgt, status, killer>>
    /\ strangerHit' = (strangerHit \/ pidOwner = "stranger")
    /\ UNCHANGED <<kid, pidOwner>>

(* kill(sig_target, s), s fatal: the whole group when the target has one, *)
(* the single process otherwise.                                          *)
SendFatal(who, s) ==
    /\ IF TargetReached /\ tgt \in Live
       THEN tgt' = "zombie" /\ status' = Signalled(s) /\ killer' = who
       ELSE UNCHANGED <<tgt, status, killer>>
    /\ kid' = IF TreeReached THEN "dead" ELSE kid
    /\ strangerHit' = (strangerHit \/ pidOwner = "stranger")
    /\ UNCHANGED pidOwner

(* The parent's waitpid() collects the target: its number becomes free. *)
ReapTarget ==
    /\ tgt = "zombie"
    /\ tgt' = "reaped"
    /\ pidOwner' = "free"
    /\ UNCHANGED <<status, killer, kid, strangerHit>>

(* The library's waitpid() collects the supervisor. *)
ReapSupervisor == sup = "exited" /\ sup' = "reaped" /\ UNCHANGED <<supExit, supGroup, revents>>

SupervisorEnds(how) == sup' = "exited" /\ supExit' = how

-----------------------------------------------------------------------------
(* platform_spawn, library side *)

Init ==
    /\ mode \in [headless : BOOLEAN, captured : BOOLEAN, sigpipe : Sigpipe]
    /\ lib = "start" /\ op = "spawn" /\ result = "none"
    /\ supPid = FALSE /\ cached = -1 /\ waited = FALSE
    /\ fds = {} /\ shutdown = FALSE /\ reader = "none" /\ stdin = "free"
    /\ sup = "none" /\ supExit = "none" /\ supGroup = "library"
    /\ revents = {}
    /\ info = <<>> /\ release = FALSE /\ probe = FALSE
    /\ tgt = "none" /\ status = Exited(0) /\ killer = "none" /\ kid = "none"
    /\ pidOwner = "free" /\ strangerHit = FALSE
    /\ eintr = "none"

(* pipe() or the first fork() fails: every pipe is closed again. *)
SpawnFails ==
    /\ lib = "start"
    /\ "fork_fails" \in Faults
    /\ lib' = "failed"
    /\ UNCHANGED <<world, op, result, ownVars, pipeVars>>

ForkSupervisor ==
    /\ lib = "start"
    /\ lib' = "message1"
    /\ sup' = "forking"
    /\ fds' = {"info", "lifecycle", "release"}
    /\ UNCHANGED <<mode, op, result, ownVars, shutdown, reader, stdin, supExit, supGroup,
                   revents, wireVars, tgtVars, eintr>>

(* Message 1 is peeked at and left in the pipe. *)
ReadSpawnOkBugPeek ==
    /\ lib = "message1"
    /\ info # <<>> /\ Head(info).tag = 0
    /\ lib' = "idle" /\ op' = "spawn"
    /\ supPid' = TRUE
    /\ reader' = IF mode.captured THEN "running" ELSE "none"
    /\ UNCHANGED <<world, result, cached, waited, fds, shutdown, stdin>>

(* Message 1 says ok: the handle is built and the reader thread started.  *)
(* spawn() hands it to the caller; run() with a timeout goes straight into *)
(* wait_for_and_kill().                                                    *)
ReadSpawnOk ==
    /\ lib = "message1"
    /\ info # <<>> /\ Head(info).tag = 0
    /\ info' = Tail(info)
    /\ \/ lib' = "idle" /\ op' = "spawn"
       \/ lib' = "poll" /\ op' = "run"
    /\ supPid' = TRUE
    /\ reader' = IF mode.captured THEN "running" ELSE "none"
    /\ UNCHANGED <<mode, result, cached, waited, fds, shutdown, stdin, supVars, release,
                   probe, tgtVars, eintr>>

(* A read that found nothing yet is taken for the end of the pipe. *)
InfoEofBugShortRead == info = <<>>

(* The info pipe has no writer left: the supervisor is gone, and the       *)
(* grandchild has closed its copy of the write end, which it does first.   *)
InfoEof == info = <<>> /\ sup \notin SupLive

(* Message 1 is an error, or the supervisor died without one. *)
ReadSpawnError ==
    /\ lib = "message1"
    /\ InfoEof \/ (info # <<>> /\ Head(info).tag = 1)
    /\ info' = <<>>
    /\ fds' = {}
    /\ lib' = "spawnReap"
    /\ UNCHANGED <<mode, op, result, ownVars, shutdown, reader, stdin, supVars, release,
                   probe, tgtVars, eintr>>

ReapFailedSupervisor ==
    /\ lib = "spawnReap"
    /\ ReapSupervisor
    /\ lib' = "failed"
    /\ UNCHANGED <<mode, op, result, ownVars, pipeVars, wireVars, tgtVars, eintr>>

-----------------------------------------------------------------------------
(* The calls on a handle *)

(* wait(), wait_for() and kill() on a handle already waited for answer at  *)
(* once; otherwise wait() blocks on the supervisor, wait_for() polls it.   *)
CallWait ==
    /\ lib = "idle"
    /\ \E call \in {"wait", "wait_for"} :
         /\ op' = call
         /\ IF waited
            THEN lib' = "idle" /\ result' = "exit"
            ELSE lib' = (IF call = "wait" THEN "reap" ELSE "poll") /\ result' = "none"
    /\ UNCHANGED <<world, ownVars, pipeVars>>

(* terminate() and interrupt() throw ModeError on an interactive child. *)
Refused(call) == call \in {"terminate", "interrupt"} /\ ~mode.headless

(* kill(), terminate(), interrupt() first ask is_alive(). *)
CallSignal ==
    /\ lib = "idle"
    /\ \E call \in {"kill", "terminate", "interrupt"} :
         /\ op' = call
         /\ IF ~Refused(call) /\ IsAlive
            THEN lib' = "signal" /\ result' = "none"
            ELSE /\ lib' = "idle"
                 /\ result' = IF Refused(call) THEN "mode_error" ELSE "false"
    /\ UNCHANGED <<world, ownVars, pipeVars>>

(* ~RunningProcess(): kill() if still alive, then ~UnixProcessImpl().  No  *)
(* other thread may be using the handle then.                              *)
CallDestroy ==
    /\ lib = "idle" /\ stdin # "caller"
    /\ op' = "destroy"
    /\ result' = "none"
    /\ lib' = IF IsAlive THEN "signal" ELSE "dtorJoin"
    /\ UNCHANGED <<world, ownVars, pipeVars>>

(* The defaulted move assignment destroys the old Impl without a kill(). *)
CallMoveAssign ==
    /\ lib = "idle" /\ stdin # "caller"
    /\ op' = "move"
    /\ result' = "none"
    /\ lib' = "dtorJoin"
    /\ UNCHANGED <<world, ownVars, pipeVars>>

(* The deadline of wait_for() or wait_for_and_kill() passes. *)
PollTimesOut ==
    /\ lib = "poll"
    /\ IF op = "wait_for"
       THEN lib' = "idle" /\ result' = "running" /\ UNCHANGED op
       ELSE lib' = "signal" /\ op' = "timeout" /\ UNCHANGED result
    /\ UNCHANGED <<world, ownVars, pipeVars>>

(* SIGKILL, from kill(), the destructor, or run() on timeout. *)
SignalKill ==
    /\ lib = "signal"
    /\ op \in {"kill", "destroy", "timeout"}
    /\ SendFatal("handle", SIGKILL)
    /\ result' = IF Delivered THEN "true" ELSE "false"
    /\ lib' = IF ~waited THEN "reap" ELSE IF op = "kill" THEN "idle" ELSE "dtorJoin"
    /\ UNCHANGED <<mode, op, ownVars, pipeVars, supVars, wireVars, eintr>>

(* SIGTERM or SIGINT: the target may catch it, and so may its descendant. *)
SignalRequest ==
    /\ lib = "signal"
    /\ op \in {"terminate", "interrupt"}
    /\ \/ SendFatal("handle", IF op = "terminate" THEN SIGTERM ELSE SIGINT)
       \/ /\ strangerHit' = (strangerHit \/ pidOwner = "stranger")
          /\ UNCHANGED <<tgt, status, killer, kid, pidOwner>>
    /\ result' = IF Delivered THEN "true" ELSE "false"
    /\ lib' = "idle"
    /\ UNCHANGED <<mode, op, ownVars, pipeVars, supVars, wireVars, eintr>>

(* supervisor_pid keeps its value after the waitpid(). *)
ReapBugKeepsPid ==
    /\ lib \in {"poll", "reap"}
    /\ ReapSupervisor
    /\ cached' = ExitCodeRead
    /\ info' = <<>>
    /\ lib' = "join"
    /\ UNCHANGED <<mode, op, result, supPid, waited, pipeVars, release, probe, tgtVars, eintr>>

(* reap_supervisor_and_read_exit(), and the same lines in the polling loops *)
(* of wait_for() and wait_for_and_kill().                                   *)
Reap ==
    /\ lib \in {"poll", "reap"}
    /\ ReapSupervisor
    /\ cached' = ExitCodeRead
    /\ info' = <<>>
    /\ supPid' = FALSE
    /\ lib' = "join"
    /\ UNCHANGED <<mode, op, result, waited, pipeVars, release, probe, tgtVars, eintr>>

(* The reader thread has returned, or there is none. *)
ReaderDone == reader \in {"none", "done"}

(* join_pipe_reader(), waited = true, and the answer.  run() then destroys *)
(* the Impl, as the destructor does.                                       *)
Join ==
    /\ lib = "join"
    /\ ReaderDone
    /\ waited' = TRUE
    /\ lib' = IF op \in {"run", "timeout", "destroy"} THEN "dtorJoin" ELSE "idle"
    /\ result' = IF op \in {"wait", "wait_for", "run"} THEN "exit"
                 ELSE IF op = "timeout" THEN "timeout" ELSE result
    /\ UNCHANGED <<world, op, supPid, cached, pipeVars>>

(* The pipes are closed and nobody waits for the supervisor to act on it. *)
DtorCloseBugNoWait ==
    /\ lib = "dtorJoin"
    /\ ReaderDone
    /\ lib' = "gone"
    /\ fds' = {} /\ stdin' = "closed"
    /\ UNCHANGED <<world, op, result, ownVars, shutdown, reader>>

(* ~UnixProcessImpl(): the reader first, then stdin, the lifecycle and the *)
(* release pipes, then the supervisor, and the info pipe last.             *)
DtorClose ==
    /\ lib = "dtorJoin"
    /\ ReaderDone
    /\ lib' = IF supPid THEN "dtorReap" ELSE "gone"
    /\ fds' = IF supPid THEN {"info"} ELSE {}
    /\ stdin' = "closed"
    /\ UNCHANGED <<world, op, result, ownVars, shutdown, reader>>

DtorReap ==
    /\ lib = "dtorReap"
    /\ ReapSupervisor
    /\ supPid' = FALSE
    /\ lib' = "gone"
    /\ fds' = {}
    /\ UNCHANGED <<mode, op, result, cached, waited, shutdown, reader, stdin, wireVars,
                   tgtVars, eintr>>

(* Nobody reads the release pipe once the supervisor is gone. *)
ReleasePipeBroken == sup \notin SupLive

(* detach() asks for stdin_mutex first, which a write_stdin() may hold. *)
CallDetach ==
    /\ lib = "idle"
    /\ op' = "detaching" /\ result' = "none"
    /\ lib' = "detachLock"
    /\ UNCHANGED <<world, ownVars, pipeVars>>

(* It closes the child's stdin under the mutex.  Then the release byte is  *)
(* written, with SIGPIPE unmasked.                                         *)
DetachReleases ==
    /\ lib = "detachLock"
    /\ stdin = "free"
    /\ op' = "detach"
    /\ stdin' = "closed"
    /\ IF ReleasePipeBroken /\ mode.sigpipe = "default"
       THEN lib' = "crashed" /\ fds' = {} /\ reader' = "none" /\ UNCHANGED release
       ELSE /\ lib' = "detachReap"
            /\ fds' = fds \ {"release"}
            /\ release' = ~ReleasePipeBroken
            /\ UNCHANGED reader
    /\ UNCHANGED <<mode, result, ownVars, shutdown, supVars, info, probe, tgtVars, eintr>>

(* The reader is joined without being told to stop. *)
DetachReapBugNoShutdown ==
    /\ lib = "detachReap"
    /\ IF supPid THEN ReapSupervisor ELSE UNCHANGED supVars
    /\ supPid' = FALSE
    /\ fds' = {}
    /\ lib' = "detachJoin"
    /\ UNCHANGED <<mode, op, result, cached, waited, shutdown, reader, stdin, wireVars,
                   tgtVars, eintr>>

(* ... the supervisor is reaped before the lifecycle pipe closes. *)
DetachReap ==
    /\ lib = "detachReap"
    /\ IF supPid THEN ReapSupervisor ELSE UNCHANGED supVars
    /\ supPid' = FALSE
    /\ fds' = {}
    /\ shutdown' = TRUE
    /\ lib' = "detachJoin"
    /\ UNCHANGED <<mode, op, result, cached, waited, reader, stdin, wireVars, tgtVars, eintr>>

DetachJoin ==
    /\ lib = "detachJoin"
    /\ ReaderDone
    /\ waited' = TRUE
    /\ lib' = "gone"
    /\ UNCHANGED <<world, op, result, supPid, cached, pipeVars>>

(* A handler without SA_RESTART makes a blocking waitpid(supervisor) fail: *)
(* the caller forgets the supervisor and goes on.                          *)
ReapInterrupted ==
    /\ "eintr" \in Faults /\ eintr = "none"
    /\ \/ lib = "reap" /\ lib' = "join" /\ UNCHANGED <<fds, shutdown>>
       \/ lib = "spawnReap" /\ lib' = "failed" /\ UNCHANGED <<fds, shutdown>>
       \/ lib = "dtorReap" /\ lib' = "gone" /\ fds' = {} /\ UNCHANGED shutdown
       \/ lib = "detachReap" /\ supPid /\ lib' = "detachJoin" /\ fds' = {} /\ shutdown' = TRUE
    /\ supPid' = FALSE
    /\ eintr' = "reap"
    /\ UNCHANGED <<mode, op, result, cached, waited, reader, stdin, supVars, wireVars, tgtVars>>

(* The library process ends without unwinding: exit, crash, SIGKILL. *)
LibraryDies ==
    /\ lib \notin Over \cup {"start"}
    /\ lib' = "crashed"
    /\ fds' = {}
    /\ reader' = "none" /\ stdin' = "closed"
    /\ UNCHANGED <<world, op, result, ownVars, shutdown>>

-----------------------------------------------------------------------------
(* The supervisor *)

(* A write to the info pipe after the library closed or lost its end kills *)
(* the supervisor by SIGPIPE, unless the caller had it ignored.            *)
InfoReaderGone == "info" \notin fds

SupForksTarget ==
    /\ sup = "forking"
    /\ sup' = "probe"
    /\ tgt' = "forked"
    /\ pidOwner' = "target"
    /\ UNCHANGED <<libSide, supExit, supGroup, revents, info, probe, status, killer, kid,
                   strangerHit, eintr>>

SupForkFails ==
    /\ "fork_fails" \in Faults
    /\ sup = "forking"
    /\ IF InfoReaderGone
       THEN /\ SupervisorEnds(IF mode.sigpipe = "default" THEN "signal" ELSE "one")
            /\ UNCHANGED info
       ELSE SupervisorEnds("one") /\ info' = Append(info, ErrMsg)
    /\ UNCHANGED <<libSide, supGroup, revents, probe, tgtVars, eintr>>

(* The errno in the probe is not looked at. *)
SupReadsProbeBugIgnored ==
    /\ sup = "probe"
    /\ tgt # "forked"
    /\ sup' = "report"
    /\ UNCHANGED <<libSide, supExit, supGroup, revents, info, probe, tgtVars, eintr>>

(* The read of the exec probe: an errno, or EOF once the grandchild has no *)
(* write end any more - because execve succeeded or because it died.       *)
SupReadsProbe ==
    /\ sup = "probe"
    /\ tgt # "forked"
    /\ sup' = IF probe THEN "fail" ELSE "report"
    /\ UNCHANGED <<libSide, supExit, supGroup, revents, info, probe, tgtVars, eintr>>

(* An interrupted read returns -1, which the code treats as EOF. *)
SupProbeInterrupted ==
    /\ "eintr" \in Faults /\ eintr = "none"
    /\ sup = "probe"
    /\ sup' = "report"
    /\ eintr' = "probe"
    /\ UNCHANGED <<libSide, supExit, supGroup, revents, info, probe, tgtVars>>

SupReportsError ==
    /\ sup = "fail"
    /\ IF InfoReaderGone
       THEN /\ IF mode.sigpipe = "default" THEN SupervisorEnds("signal")
                                           ELSE sup' = "failReap" /\ UNCHANGED supExit
            /\ UNCHANGED info
       ELSE sup' = "failReap" /\ info' = Append(info, ErrMsg) /\ UNCHANGED supExit
    /\ UNCHANGED <<libSide, supGroup, revents, probe, tgtVars, eintr>>

SupReapsFailed ==
    /\ sup = "failReap"
    /\ ReapTarget
    /\ SupervisorEnds("zero")
    /\ UNCHANGED <<libSide, supGroup, revents, info, probe, eintr>>

(* Message 1.  If it cannot be written the library is dead: kill and bail. *)
SupReportsOk ==
    /\ sup = "report"
    /\ IF ~InfoReaderGone
       THEN /\ info' = Append(info, OkMsg)
            /\ sup' = "own"
            /\ UNCHANGED <<supExit, tgtVars>>
       ELSE /\ UNCHANGED info
            /\ IF mode.sigpipe = "default"
               THEN SupervisorEnds("signal") /\ UNCHANGED tgtVars
               ELSE sup' = "reap1" /\ UNCHANGED supExit
                    /\ SendFatal("supervisor", SIGKILL)
    /\ UNCHANGED <<libSide, supGroup, revents, probe, eintr>>

SupMovesToOwnGroup ==
    /\ sup = "own"
    /\ supGroup' = "own"
    /\ sup' = "poll"
    /\ UNCHANGED <<libSide, supExit, revents, info, probe, tgtVars, eintr>>

(* poll() looks at its descriptors in the order of the array: lifecycle,   *)
(* then release.  Some systems report POLLIN at the EOF of a pipe as well. *)
SupSamplesLifecycle ==
    /\ sup = "poll"
    /\ sup' = "pollRelease"
    /\ revents' = IF "lifecycle" \in fds THEN {} ELSE {"lifecycle"}
    /\ UNCHANGED <<libSide, supExit, supGroup, info, probe, tgtVars, eintr>>

SupSamplesRelease ==
    /\ sup = "pollRelease"
    /\ sup' = "awake"
    /\ \/ ~release /\ UNCHANGED revents
       \/ /\ release \/ "release" \notin fds
          /\ revents' = revents \cup {"release"}
    /\ UNCHANGED <<libSide, supExit, supGroup, info, probe, tgtVars, eintr>>

(* POLLIN alone is believed. *)
ReleaseSeenBugPollin == "release" \in revents

(* The read of the release pipe confirms that a byte landed. *)
ReleaseSeen   == "release" \in revents /\ release
LifecycleSeen == "lifecycle" \in revents

(* detach(): the supervisor exits and leaves the target alone. *)
SupLetsGo ==
    /\ sup = "awake"
    /\ ReleaseSeen
    /\ SupervisorEnds("zero")
    /\ UNCHANGED <<libSide, supGroup, revents, info, probe, tgtVars, eintr>>

(* The lifecycle pipe is looked at first. *)
SupKillsTargetBugOrder ==
    /\ sup = "awake"
    /\ LifecycleSeen
    /\ SendFatal("supervisor", SIGKILL)
    /\ sup' = "reap0"
    /\ UNCHANGED <<libSide, supExit, supGroup, revents, info, probe, eintr>>

(* Library death: the lifecycle pipe is at EOF and no release byte landed. *)
SupKillsTarget ==
    /\ sup = "awake"
    /\ ~ReleaseSeen /\ LifecycleSeen
    /\ SendFatal("supervisor", SIGKILL)
    /\ sup' = "reap0"
    /\ UNCHANGED <<libSide, supExit, supGroup, revents, info, probe, eintr>>

(* The target is reaped and reported, and the loop goes on. *)
SupChecksTargetBugNoExit ==
    /\ sup = "awake"
    /\ ~ReleaseSeen /\ ~LifecycleSeen
    /\ IF tgt = "zombie"
       THEN ReapTarget /\ info' = IF InfoReaderGone THEN info ELSE Append(info, ExitMsg(status))
       ELSE UNCHANGED <<info, tgtVars>>
    /\ sup' = "poll"
    /\ revents' = {}
    /\ UNCHANGED <<libSide, supExit, supGroup, probe, eintr>>

(* Only WIFEXITED counts as an end of the target. *)
SupChecksTargetBugSignal ==
    /\ sup = "awake"
    /\ ~ReleaseSeen /\ ~LifecycleSeen
    /\ IF tgt = "zombie" /\ status.flag = 0
       THEN /\ ReapTarget
            /\ info' = IF InfoReaderGone THEN info ELSE Append(info, ExitMsg(status))
            /\ SupervisorEnds("zero")
            /\ UNCHANGED revents
       ELSE /\ sup' = "poll"
            /\ revents' = {}
            /\ UNCHANGED <<supExit, info, tgtVars>>
    /\ UNCHANGED <<libSide, supGroup, probe, eintr>>

(* waitpid(target, WNOHANG) and, if it was a zombie, the exit message. *)
SupChecksTarget ==
    /\ sup = "awake"
    /\ ~ReleaseSeen /\ ~LifecycleSeen
    /\ IF tgt = "zombie"
       THEN /\ ReapTarget
            /\ info' = IF InfoReaderGone THEN info ELSE Append(info, ExitMsg(status))
            /\ SupervisorEnds(IF InfoReaderGone /\ mode.sigpipe = "default"
                              THEN "signal" ELSE "zero")
            /\ UNCHANGED revents
       ELSE /\ sup' = "poll"
            /\ revents' = {}
            /\ UNCHANGED <<supExit, info, tgtVars>>
    /\ UNCHANGED <<libSide, supGroup, probe, eintr>>

(* poll() fails: fail safe by killing the target. *)
SupPollFails ==
    /\ "poll_fails" \in Faults
    /\ sup = "poll"
    /\ SendFatal("supervisor", SIGKILL)
    /\ sup' = "reap1"
    /\ UNCHANGED <<libSide, supExit, supGroup, revents, info, probe, eintr>>

SupReapsKilled ==
    /\ sup \in {"reap0", "reap1"}
    /\ ReapTarget
    /\ SupervisorEnds(IF sup = "reap0" THEN "zero" ELSE "one")
    /\ UNCHANGED <<libSide, supGroup, revents, info, probe, eintr>>

-----------------------------------------------------------------------------
(* The target, its descendant, the reader thread, and the outside *)

TargetExecs ==
    /\ tgt = "forked"
    /\ tgt' = "running"
    /\ UNCHANGED <<aroundTarget, status, killer, kid, pidOwner, strangerHit>>

(* execve fails: the errno into the probe, then _exit(127). *)
TargetExecFails ==
    /\ "exec_fails" \in Faults
    /\ tgt = "forked"
    /\ probe' = TRUE
    /\ tgt' = "zombie"
    /\ status' = Exited(127)
    /\ UNCHANGED <<libSide, supVars, info, killer, kid, pidOwner, strangerHit, eintr>>

TargetForksKid ==
    /\ tgt = "running" /\ kid = "none"
    /\ kid' = "live"
    /\ UNCHANGED <<aroundTarget, tgt, status, killer, pidOwner, strangerHit>>

TargetExits ==
    /\ tgt = "running"
    /\ tgt' = "zombie"
    /\ \E c \in Codes : status' = Exited(c)
    /\ UNCHANGED <<aroundTarget, killer, kid, pidOwner, strangerHit>>

(* A crash of the target, or a signal somebody else sends it. *)
TargetKilled ==
    /\ tgt \in Live
    /\ tgt' = "zombie"
    /\ \E s \in Sigs : status' = Signalled(s)
    /\ killer' = "other"
    /\ UNCHANGED <<aroundTarget, kid, pidOwner, strangerHit>>

KidExits ==
    /\ kid = "live"
    /\ kid' = "dead"
    /\ UNCHANGED <<aroundTarget, tgt, status, killer, pidOwner, strangerHit>>

(* The target of a dead supervisor is a child of PID 1. *)
InitReaps ==
    /\ sup \notin SupLive
    /\ ReapTarget
    /\ UNCHANGED <<aroundTarget>>

(* A pid is not given away while a process group carries its number. *)
PidReused ==
    /\ "pid_reused" \in Faults
    /\ lib \notin Over /\ tgt = "reaped"
    /\ \/ pidOwner = "free" /\ ~TreeReached /\ pidOwner' = "stranger"
       \/ pidOwner = "stranger" /\ pidOwner' = "free"
    /\ UNCHANGED <<aroundTarget, tgt, status, killer, kid, strangerHit>>

(* Nobody holds the write end of the captured output any more, nor the     *)
(* read end of stdin.                                                      *)
StdoutEof == tgt \in {"zombie", "reaped"} /\ kid # "live"

(* The caller may use the handle in another thread or in a callback: it    *)
(* has one, which run() never gives, and does not take it away.            *)
Usable == /\ lib \in {"idle", "poll", "signal", "reap", "join"}
          /\ op \notin {"run", "timeout", "destroy"}

(* Another thread calls write_stdin() on a child with a pipe for stdin, and *)
(* gets the mutex.  (A write nobody can read any more fails at once.)       *)
CallerWrites ==
    /\ Usable /\ ~StdoutEof
    /\ stdin = "free" /\ stdin' = "caller"
    /\ UNCHANGED <<world, lib, op, result, ownVars, fds, shutdown, reader>>

(* A callback for output calls write_stdin() on the reader thread ... *)
CallbackWrites ==
    /\ Usable \/ lib = "detachLock"
    /\ ~StdoutEof
    /\ reader = "running" /\ reader' = "writing"
    /\ UNCHANGED <<world, lib, op, result, ownVars, fds, shutdown, stdin>>

(* ... and gets the mutex, or a ModeError if detach() was faster. *)
CallbackLocks ==
    /\ reader = "writing"
    /\ \/ stdin = "free" /\ stdin' = "reader" /\ UNCHANGED reader
       \/ stdin = "closed" /\ reader' = "running" /\ UNCHANGED stdin
    /\ UNCHANGED <<world, lib, op, result, ownVars, fds, shutdown>>

(* The child has read what was written, or cannot any more: the write ends. *)
WriteEnds ==
    /\ stdin \in {"caller", "reader"}
    /\ stdin' = "free"
    /\ reader' = IF stdin = "reader" THEN "running" ELSE reader
    /\ UNCHANGED <<world, lib, op, result, ownVars, fds, shutdown>>

(* The reader never notices that the last writer closed the pipe. *)
ReaderStopsBugNoEof ==
    /\ reader = "running"
    /\ shutdown
    /\ reader' = "done"
    /\ UNCHANGED <<world, lib, op, result, ownVars, fds, shutdown, stdin>>

(* The reader sees EOF, or reader_shutdown within one poll timeout; not    *)
(* while it is in a callback.                                              *)
ReaderStops ==
    /\ reader = "running"
    /\ StdoutEof \/ shutdown
    /\ reader' = "done"
    /\ UNCHANGED <<world, lib, op, result, ownVars, fds, shutdown, stdin>>

(* An outsider kills the supervisor alone. *)
SupervisorKilled ==
    /\ "supervisor_killed" \in Faults
    /\ sup \in SupLive
    /\ SupervisorEnds("signal")
    /\ UNCHANGED <<libSide, supGroup, revents, info, probe, tgtVars, eintr>>

(* An outsider sends SIGKILL to the library's process group: the library,  *)
(* whoever still shares its group, and an interactive child with its own.  *)
GroupKilled ==
    /\ "group_killed" \in Faults
    /\ lib \notin Over \cup {"start"}
    /\ lib' = "crashed" /\ fds' = {} /\ reader' = "none" /\ stdin' = "closed"
    /\ IF sup \in SupLive /\ supGroup = "library" THEN SupervisorEnds("signal")
                                                  ELSE UNCHANGED <<sup, supExit>>
    /\ IF tgt \in Live /\ (~mode.headless \/ tgt = "forked")
       THEN tgt' = "zombie" /\ status' = Signalled(SIGKILL) /\ killer' = "other"
       ELSE UNCHANGED <<tgt, status, killer>>
    /\ kid' = IF ~mode.headless /\ kid = "live" THEN "dead" ELSE kid
    /\ UNCHANGED <<mode, op, result, ownVars, shutdown, supGroup, revents, wireVars,
                   pidOwner, strangerHit, eintr>>

(* Everything has ended. *)
Finished ==
    /\ lib \in Over
    /\ sup \notin SupLive /\ tgt \in {"none", "reaped"} /\ kid # "live"
    /\ UNCHANGED vars

-----------------------------------------------------------------------------
SpawnStep == ForkSupervisor \/ ReadSpawnOk \/ ReadSpawnError \/ ReapFailedSupervisor
Call      == CallWait \/ CallSignal \/ CallDestroy \/ CallMoveAssign \/ CallDetach
Writing   == CallerWrites \/ CallbackWrites \/ WriteEnds
CallStep  == PollTimesOut \/ SignalKill \/ SignalRequest \/ Reap \/ Join
             \/ DtorClose \/ DtorReap \/ DetachReleases \/ DetachReap \/ DetachJoin
SupStep   == SupForksTarget \/ SupReadsProbe \/ SupReportsError \/ SupReapsFailed
             \/ SupReportsOk \/ SupMovesToOwnGroup \/ SupSamplesLifecycle
             \/ SupSamplesRelease \/ SupLetsGo \/ SupKillsTarget \/ SupChecksTarget
             \/ SupReapsKilled
Outside   == TargetExecFails \/ TargetForksKid \/ TargetExits \/ TargetKilled \/ KidExits
             \/ PidReused
Fault     == SpawnFails \/ SupForkFails \/ SupProbeInterrupted \/ SupPollFails
             \/ ReapInterrupted \/ LibraryDies \/ SupervisorKilled \/ GroupKilled

Next == SpawnStep \/ Call \/ CallStep \/ SupStep \/ TargetExecs \/ Writing
        \/ CallbackLocks \/ ReaderStops \/ InitReaps \/ Outside \/ Fault \/ Finished

(* Threads and processes that can go on do go on; nobody is obliged to     *)
(* make a call, and the target is not obliged to exit or to read its       *)
(* stdin: a write is sure to end only when nobody is left to read it.      *)
Fairness ==
    /\ WF_vars(SpawnStep)
    /\ WF_vars(CallStep)
    /\ WF_vars(SupStep)
    /\ WF_vars(TargetExecs)
    /\ WF_vars(ReaderStops)
    /\ WF_vars(CallbackLocks)
    /\ WF_vars(StdoutEof /\ WriteEnds)
    /\ WF_vars(InitReaps)

Spec     == Init /\ [][Next]_vars
FairSpec == Spec /\ Fairness

-----------------------------------------------------------------------------
(* Safety *)

LibTypeOK ==
    /\ mode \in [headless : BOOLEAN, captured : BOOLEAN, sigpipe : Sigpipe]
    /\ lib \in HasHandle \cup Over \cup {"start", "message1", "spawnReap"}
    /\ op \in {"spawn", "run", "timeout", "wait", "wait_for", "kill", "terminate",
               "interrupt", "destroy", "move", "detaching", "detach"}
    /\ result \in {"none", "exit", "running", "timeout", "true", "false", "mode_error"}
    /\ supPid \in BOOLEAN /\ waited \in BOOLEAN /\ shutdown \in BOOLEAN
    /\ cached \in Nat \cup {-1}
    /\ fds \in SUBSET {"info", "lifecycle", "release"}
    /\ reader \in {"none", "running", "writing", "done"}
    /\ stdin \in {"free", "caller", "reader", "closed"}

SupTypeOK ==
    /\ sup \in SupLive \cup {"none", "exited", "reaped"}
    /\ supExit \in {"none", "zero", "one", "signal"}
    /\ supGroup \in {"library", "own"}
    /\ revents \in SUBSET {"lifecycle", "release"}
    /\ info \in Seq(Message)
    /\ release \in BOOLEAN /\ probe \in BOOLEAN

TgtTypeOK ==
    /\ tgt \in Live \cup {"none", "zombie", "reaped"}
    /\ status \in [flag : 0..1, payload : Nat]
    /\ killer \in {"none", "handle", "supervisor", "other"}
    /\ kid \in {"none", "live", "dead"}
    /\ pidOwner \in {"target", "free", "stranger"}
    /\ strangerHit \in BOOLEAN
    /\ eintr \in {"none", "reap", "probe"}

(* Every variable has its type; an exit code is never negative but for -1. *)
TypeOK == LibTypeOK /\ SupTypeOK /\ TgtTypeOK

(* A finished wait reports the target's true exit code, 128 + n for signal *)
(* n; it reports -1 only if the supervisor ended abnormally or the wait    *)
(* for it was interrupted (reap_supervisor_and_read_exit, wait_for).       *)
ExitCodeTruth ==
    waited /\ op # "detach" =>
        \/ tgt = "reaped" /\ cached = Encode(status)
        \/ cached = -1 /\ (supExit \in {"one", "signal"} \/ eintr = "reap")

(* Detach wins: once the release byte is written, the supervisor does not  *)
(* kill the target even if the library dies in the same instant; only its  *)
(* fail-safe for a broken poll() does (release check of supervisor_main).  *)
ReleaseWins ==
    release /\ killer = "supervisor" => sup = "reap1" \/ supExit = "one" \/ supExit = "signal"

(* waitpid() on the supervisor is only called with a pid the handle owns,  *)
(* never with -1 or with a child that was reaped before.                   *)
HandleOwnsSupervisor ==
    /\ lib \in {"poll", "reap"} => supPid
    /\ supPid => sup \notin {"none", "reaped"}
    /\ lib = "idle" => (supPid <=> ~waited)

(* While the supervisor watches, target_pid names the target: it is the    *)
(* parent that reaps, so no signal of the supervisor hits another process. *)
PidPinned == sup \in SupLive \ {"forking"} => pidOwner = "target"

(* RAII: when the handle is gone without detach(), the target is not       *)
(* running.  The destructor that finds it alive signals it itself; run()   *)
(* and move assignment rely on the supervisor.                             *)
NothingLeftRunning ==
    lib = "gone" /\ op # "detach" /\ tgt \in Live =>
        \/ eintr # "none"
        \/ supExit = "signal" /\ op \in {"run", "move"}

(* A kill that says it was delivered has ended the target and, headless,   *)
(* every member of its group (kill, destructor, run() on timeout).         *)
KillTakesTheTree ==
    result = "true" /\ op \in {"kill", "destroy", "timeout"} =>
        tgt \notin Live /\ (mode.headless => kid # "live")

(* A spawn that reports an error leaves no pipe open, no supervisor to be  *)
(* reaped (an interrupted waitpid gives up on it), and no target running   *)
(* (unless somebody killed the supervisor before it could answer).         *)
FailedSpawnLeavesNothing ==
    lib = "failed" =>
        /\ fds = {}
        /\ sup \in {"none", "reaped"} \/ eintr = "reap"
        /\ tgt \in Live => supExit = "signal"

(* A handle is given only once the target's execve is over and did not     *)
(* fail: it succeeded, or somebody killed the target before it.  Message 1 *)
(* waits for the exec probe (whose interrupted read is taken for an EOF).  *)
HandleAfterExec ==
    lib \in HasHandle => (~probe /\ tgt # "forked") \/ eintr = "probe"

(* The two messages on the info pipe never meet: whoever reads message 2   *)
(* finds nothing, or exactly one exit message.                             *)
InfoFraming ==
    lib \in HasHandle => info = <<>> \/ (Len(info) = 1 /\ info[1].tag = 2)

-----------------------------------------------------------------------------
(* Liveness *)

(* Once the supervisor has reported the spawn, the death of the library    *)
(* kills the target, unless it was released or the supervisor was killed.  *)
LibraryDeathKillsTarget ==
    lib = "crashed" /\ ~release /\ sup \in {"own", "poll", "pollRelease", "awake"}
        ~> tgt \notin Live \/ supExit = "signal"

(* No zombie stays: the supervisor, or PID 1 after it, collects the target. *)
TargetIsReaped == tgt = "zombie" ~> tgt = "reaped"

(* A blocked wait returns once nobody can write to the captured output. *)
WaitReturns ==
    lib \in {"reap", "join"} /\ StdoutEof ~> lib \notin {"reap", "join"}

(* kill(), the destructor and a timed-out run() return: the signal ends    *)
(* everybody who could hold the output, unless the child is interactive.   *)
KillReturns ==
    lib = "signal" /\ (mode.headless \/ ~mode.captured) ~> lib \in Over \cup {"idle"}

(* detach() returns although the target keeps running with its output open. *)
(* It may wait for ever behind a write_stdin() to a child that does not     *)
(* read, of another thread or of a callback; nothing else holds it up.      *)
DetachReturns ==
    <>[](stdin \notin {"caller", "reader"}) => (lib = "detachLock" ~> lib \in Over)

-----------------------------------------------------------------------------
(* What the documentation says and the code does not do *)

(* "Library died before we could tell it - kill target and bail": a        *)
(* library that dies before message 1 takes the target with it.            *)
EarlyDeathKillsTarget ==
    lib = "crashed" /\ sup = "report" ~> tgt \notin Live

(* "Release ownership - child survives. Returns PID": detach() comes back  *)
(* to its caller.  It does not write a byte that kills the caller.         *)
DetachNeverCrashesCaller ==
    [][lib = "detachLock" /\ op' = "detach" => lib' # "crashed"]_vars

(* "The signal methods all act on the target you spawned": no signal of a  *)
(* handle reaches a process that merely got the target's old pid.          *)
SignalsActOnTheTarget == ~strangerHit
=============================================================================
