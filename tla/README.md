# collab-process: models and proofs

`collab-process` is a C++ library that runs child processes: `run()` waits for
a result, `spawn()` gives a `RunningProcess` handle, `spawn_detached()` lets a
child go. This directory holds TLA+ models of what is hard in it, TLC
configurations that check them, and TLAPS proofs. Paths below are relative to
the repository root; `spawn.cpp` is `src/unix/spawn.cpp` unless said otherwise.

## The system

| Component | State | Operations | Talks to |
|---|---|---|---|
| Entry points `run`, `spawn`, `spawn_detached` (`src/run.cpp`) | none | resolve the program, build the environment, call `platform_spawn`, then wait, hand out the handle, or detach | everything below |
| `RunningProcess` (`src/running_process.cpp`) | `impl_` | public calls; destructor kills if alive; move assignment drops the old `Impl` | the `Impl` |
| Unix handle (`UnixProcessImpl`) | `supervisor_pid`, `target_pid`, pipe descriptors, `waited`, `cached_exit_code`, `reader_shutdown`, stdin fields under `stdin_mutex` | `wait`, `wait_for`, `wait_for_and_kill`, `terminate`, `interrupt`, `kill`, `write_stdin`, `close_stdin`, `release_for_detach`, destructor | the supervisor by three pipes and `waitpid`; the target by `kill`; the reader thread by a flag and `join` |
| Supervisor (`supervisor_main`) | a forked copy of the library that never execs; its inherited descriptors | read the exec probe, send message 1, move to its own group, poll, kill, let go, reap, send message 2 | the library by the info, lifecycle and release pipes; the target as its parent |
| Target | the spawned program and its descendants | exec or fail, exit, be killed | holds its stdio; on its death the supervisor reaps it |
| Reader thread (`read_pipes`) | captured text | poll and read until EOF or shutdown, calling callbacks | the target's output pipes |
| Stdin writers | a detached thread (content, file) or the caller (pipe) | write, close | the target's stdin |
| Environment block, dotenv, `find_executable` | none | pure computation over the environment and the file system | the entry points |
| `ProcessRef` | a pid | `is_alive`, `kill` on the bare number | the kernel |
| Windows backend (`src/win32/spawn.cpp`) | process and job handles, reader and stdin threads | the same operations with a Job Object in place of the supervisor | the kernel |
| Builder, config, results, errors, PE check, console reset | plain data | setters, text | - |

The protocol on Unix (the comment at `spawn.cpp:22-58` draws it):

- *info*, supervisor to library: message 1 (spawn ok with the pid, or an errno)
  and message 2 (how the target ended).
- *lifecycle*, held open by the library: its EOF means the library is gone, and
  the supervisor kills the target.
- *release*: one byte from `detach()`, after which the supervisor exits and
  leaves the target alone. Release wins over lifecycle.
- *exec probe*, target to supervisor: closed by a successful `execve`, or an
  errno. Message 1 waits for one or the other.

What is hard: three processes and two or three threads with no lock between
them; deaths at any point; SIGPIPE on a pipe whose reader died; signals by pid
and by group; a pid that is reaped by one process and remembered by another;
calls that block on the end of a pipe others may hold, or on a mutex that a blocked write
holds; descriptors inherited by a fork that is never followed by an exec. `PROJECT.json` lists each hazard at
its line.

What makes each part correct:

- *Handle*: exit codes are the target's; waits name only the own supervisor;
  nothing is left running when it is gone; a delivered kill takes the tree; the
  blocking calls return.
- *Supervisor*: it never kills after a release, always kills after a death of
  the library, always reaps, and its signals never reach a stranger.
- *Spawn*: an error leaves nothing behind; a handle comes only when the target's
  `execve` is over and did not fail (it succeeded, or somebody killed the target before
  it); the messages do not run into each other.
- *Descriptors*: every EOF that somebody waits for does come; nothing leaks.
- *Streams*: a write is whole and contiguous, captured output is complete, and
  full pipes do not make the calls wait for each other.
- *Windows*: the job takes the tree; each way out closes every handle; a pipe that can
  fill up has a reader.
- *Launch*: the child is the one asked for, whatever order the setters were called in,
  and an error names its cause.

Each of these has exceptions in the code; they are listed under *Runs*.

## Modules

| Module | What it is |
|---|---|
| `ProcessContract` | abstract: what a handle promises on every platform |
| `UnixProcess` | one handle on Unix: library thread, supervisor, target, a descendant, reader thread, and the environment's faults |
| `UnixContract` | the refinement mapping from `UnixProcess` to `ProcessContract` |
| `UnixProcessInv` | the inductive invariants of `UnixProcess`, conjunct by conjunct |
| `UnixProcessProofs`, `UnixContractProofs` | theorems about `UnixProcess`; the refinement, proved |
| `ForkedFds`, `ForkedFdsProofs` | several spawns of one program: which process holds which pipe end; theorems |
| `Stdio`, `StdioProofs` | the standard streams of one child on Unix: writers, feeder, readers, callbacks, full pipes; theorems |
| `WinProcess`, `WinProcessProofs` | one handle on Windows: handles, job object, threads, calls; its mapping to `ProcessContract`; theorems and the refinement, proved |
| `CommandLine`, `CommandLineProofs` | the Windows command line and how a child takes it apart: pure operators; arguments that survive the trip, proved |
| `Launch`, `LaunchProofs` | the builder and all that comes before a child exists: dotenv, search, directory, environment, exec; theorems |
| `FoldFacts` | what a fold computes, for every operator and every sequence: the facts the two modules of proofs above take instances of |
| `MCUnixProcess`, `MCStdio`, `MCWinProcess`, `MCLaunch` | constants for TLC |

How they fit: `UnixProcess` and `WinProcess` each implement `ProcessContract`.
`Stdio` has in detail what `UnixProcess` sees of the streams ("the reader has ended")
and reduces the supervision to "the child has ended". `ForkedFds` looks at what
`UnixProcess` has once, several times. `Launch` ends where `UnixProcess` and
`WinProcess` begin; its result is what those two call a success or a failure of
`platform_spawn`.

### `UnixProcess`

`lib` is where the library thread is (in `platform_spawn`, idle with a handle,
or blocked in a call named by `op`) and `result` is what the last call answered.
`supPid` stands for `supervisor_pid > 0`; `cached`, `waited` and `shutdown` are
the fields of those names; `fds` are the library's protocol descriptors that
are still open. `sup`, `supExit`, `supGroup` and `revents` are the supervisor's
program counter, wait status, process group and poll result. `info`, `release`
and `probe` are the contents of the pipes. `tgt`, `status` and `kid` are the
kernel's view of the target and one descendant that holds its stdout.
`stdin` says who is inside a `write_stdin` with `stdin_mutex`: nobody, another
thread of the caller, or a callback on the reader thread (`reader = "writing"`).
`pidOwner` says what the number `target_pid` names now.
`killer`, `strangerHit` and `eintr` are history variables.

Each action is the code between two system calls at which another process can
be observed or can interfere:

| Code | Actions |
|---|---|
| `platform_spawn`, library side | `SpawnFails`, `ForkSupervisor`, `ReadSpawnOk`, `ReadSpawnError`, `ReapFailedSupervisor` |
| `wait`, `wait_for`, `wait_for_and_kill`, `reap_supervisor_and_read_exit` | `CallWait`, `PollTimesOut`, `Reap`, `Join`, `ReapInterrupted` |
| `terminate`, `interrupt`, `kill` | `CallSignal`, `SignalKill`, `SignalRequest`, then `Reap` and `Join` |
| `~RunningProcess`, `~UnixProcessImpl`, move assignment | `CallDestroy`, `CallMoveAssign`, `DtorClose`, `DtorReap` |
| `detach`, `release_for_detach` | `CallDetach` (waits for `stdin_mutex`), `DetachReleases`, `DetachReap`, `DetachJoin` |
| `write_stdin`, as far as a `detach` can meet it | `CallerWrites`; `CallbackWrites`, `CallbackLocks`; `WriteEnds` |
| second fork, target side | `SupForksTarget`, `SupForkFails`, `TargetExecs`, `TargetExecFails` |
| `supervisor_main` | the `Sup...` actions, in the order of the code |
| `read_pipes` | `ReaderStops` |

The check-then-act pairs are kept apart where the code has them apart:
`is_alive()` and the `kill()` after it, the two samples inside one `poll()`,
the sampling and the reading of the release byte, the reaping of the
supervisor and the join of the reader. A reader that is in a callback does not look at
`reader_shutdown`, so `ReaderStops` is not for it. What is written to stdin, and how far a
write has come, is `Stdio`'s: here a write only begins and ends. `run()` is a spawn that goes on as `op = "run"` when it has a
timeout, and a spawn, a wait and a destruction otherwise.

Abstractions: pids, errno values, output bytes and time are left out (a
deadline may pass at any moment, a poll of 50 ms may happen at any moment).
The target's `setpgid` and `execve` are one step. A SIGKILL takes effect in the
step that sends it. A pipe message is written whole, which POSIX guarantees for
its size. One descendant stands for the tree, because signals reach all of it
or none. At most one system call per behaviour is interrupted (`eintr`), which
is enough to see what each interruption does. Where the caller's disposition of
SIGPIPE matters, both are possible.

`Faults` selects what the environment may do: a fork or exec fails, a handler
without SA_RESTART interrupts a call, `poll` fails, an outsider kills the
supervisor or the library's process group, a free pid is given to a stranger.
The library may die at any point in every run.

### `ForkedFds`

`UnixProcess` looks at one child; what goes wrong *between* children is about
inherited descriptors. A supervisor is forked and never execs, so CLOEXEC does
not close what it inherits: only the closes at `spawn.cpp:709-711` and
`806-814` do, and those name only the pipes of its own child. `libFds`,
`supFds` and `tgtFds` are the descriptor tables; `...Bare` are the descriptors
without FD_CLOEXEC (between `pipe()` and `fcntl()` in `make_cloexec_pipe`). `Eof` is
true of a pipe end when no process holds it. A supervisor that is `probing` waits for the
EOF of the exec probe, of which another child's supervisor may have inherited the write
end; then it sends message 1 (`SupervisorReports`), or finds that nobody is left to read it
(`SupervisorBreaks`: SIGPIPE or, if that is ignored, a kill). Its loop afterwards is
collapsed to `SupervisorStops`: `UnixProcess` has it in detail. `MayStop` and
`MayReturn` are the guards of that action and of `WaitReturns`. `Sequential`
says that at most one thread is in `platform_spawn`. The pipes of one spawn are
created in one step and their flags set in another; spawn failures are not
repeated here.

### `ProcessContract`

Five abstract variables: who answers for the child (`owner`), how the child
stands, its true exit code (`truth`), who ended it (`by`), what was reported;
and `intact`, whether supervision still works. A step may be anything that
keeps the promises: a handle always has a child, a refused spawn leaves none
running, a handle that goes without `detach()` takes its child with it, a released
child is not ended by the library, and a report is true. The child starts once and ends once.
The promises hold only while `intact` is true; both mappings say in their
definition of it which faults end it, and these are the named exceptions of
the concrete properties too: on Unix a supervisor that is killed from outside, a failed
`poll()`, an interrupted wait; on Windows a child that is not in its job.

### `Stdio`

`pc` has one entry per thread: the callers (one of them, `Main`, also waits, kills,
detaches and destroys), the reader of each stream, and the feeder. `mutex`,
`stdinOpen`, `closed`, `shutdown`, `waited` and `content` are the fields
`stdin_mutex`, `stdin_fd >= 0`, `stdin_closed`, `reader_shutdown`, `waited` and the two content
strings. `sent` is every byte put into the stdin pipe, named by the call that wrote
it; `inPipe` and `piped` count what the pipes hold.

| Code | Actions |
|---|---|
| `write_stdin` | `CallWrite`, `StartWrite` (lock and mode checks), `WriteByte` (the loop), `WriteBroken` (EPIPE), `WriteFails` (any other error) |
| `close_stdin` | `CallClose`, `CloseStdin` |
| feeder threads of `platform_spawn` | `Feed` |
| `read_pipes`, callbacks | `ReadChunk`, which may begin a `write_stdin`; `StopReading` |
| `wait`, `build_result` | `CallWait`, `JoinForResult`; `Trimmed` is the trim of trailing blanks |
| `kill`, destructor | `CallKill`, `JoinAfterKill`, `Destroy` |
| `release_for_detach` | `CallDetach`, `DetachCloses` (under the mutex), `DetachReleases` (the release byte, SIGPIPE unmasked), `DetachJoins` |
| the child (external) | `ChildReads`, `ChildSpeaks`, `ChildWrites`, `ChildSeesEof`, `ChildClosesStdin`, `ChildExits` |

A ModeError thrown in a callback leaves the reader thread, which ends the program
(`host = "terminated"`); SIGPIPE in the feeder or at the release byte ends it too.
`Blank` says which bytes of the output are newline, carriage return or space. That no other
thread is inside a call when the handle is destroyed, moved or detached is the
caller's part, and the guard `Alone` says so.

### `WinProcess`

`handles` is the set of handles the library has open. Every stage of
`platform_spawn` adds to it, or fails and closes exactly the handles its error return
names (`Make`, `MakeStdin`, `MakeStdout`, `MakeStderr`, `MakeJob`, `CreateProcess`); so do the
destructor (`Close`), `detach()` (`DetachCloses`, `CancelReaders`) and the feeder
(`FeederEnds`). A forgotten `CloseHandle` stays in the set. `route` is where STARTUPINFO sends
each output of the child (`StdOutput`, `StdError`: a pipe, NUL, the parent's handle, nowhere);
`Interactive` is the case in which it names none. `job` and `members` are the job object and what
is in it: what the child starts before `AssignToJob` stays outside. `CallWait` to `Close` are
the calls on the handle, step by step; `KillTree` is `TerminateJobObject` or `TerminateProcess`,
`CloseJob` what the closing of the last job handle does. A reader takes its handle from the
`Impl`, and is `between` two `ReadFile` calls or `inside` one; `detach()`
closes the handle under it (`CancelReaders`), and between two calls the number may
have got another owner by then (`stray`). `writer` holds `stdin_mutex` in `write_stdin`: another
thread of the caller (`CallerWrites`) or a reader in a callback (`CallbackLocks`), until `WriteEnds`;
`detach()` waits for it in `lock`. What is written, and `close_stdin`, are as on Unix
(`Stdio`) and not repeated.

An exit code is a DWORD, `0..2*Half-1`; `AsInt` is the `static_cast<int>` by which it is
reported. `IsAlive` compares it with 259 as the code does.

### `Launch` and `CommandLine`

`Build` is any setter that `Launch` tells apart; `Start` is `spawn` or `spawn_detached`, and
`run` goes the way of `spawn`. `ApplyDotenv`, `FindExecutable`, `CheckDirectory` and
`BuildEnvBlock` are those functions; `ExecUnix` is what the grandchild does after the fork
(absolute path, `chdir`, `execve`), `ExecWindows` is `CreateProcess`. `Others` changes the file
system between any two of them.

Under each name there is nothing, a `plain` file (no right to execute; no PE), a `script` whose
interpreter does not exist, a `broken` program that the system cannot run (another
architecture, a bad format), an `exec`utable one, or the system does not tell (`unknown`). A
directory may be `hidden` in the same way. There the throwing overloads of
`std::filesystem` raise `filesystem_error` out of `run()` and `spawn()`; it is one more outcome. `short` is a launch that the
system refuses for lack of room, whatever the file (ENOMEM, E2BIG). `Refused` is the switch over errno
at `spawn.cpp:860-866`. On Windows every failure of `CreateProcess` is a `platform_error`.

A text is a value. One that is not ASCII (`NotAscii`) becomes `Garbled` where the Windows
backend reads the environment in the ANSI code page or widens bytes one by one (`Garble`,
`GarbleAll`; `src/env_block.cpp:22`, `src/win32/spawn.cpp:427`). In `CommandLine`
an argument is a sequence of characters, and `Widen` (`src/win32/spawn.cpp:404`) does the
same to its characters.

`CommandLine` has `build_command_line` and, as an external definition, the rules by which the C
runtime of the child parses it, with its rule that a second quote right behind the one that
closed a quoted part is a literal one. `Keep`, `Without` and `AddEntry` are the two loops of
`build_env_block`, `AddChar` and `AddArg` those of `build_command_line`; both are folds of them.

## Runs

All runs that pass use the constants in the `.cfg` files.

| Run | Shows | Bounds |
|---|---|---|
| `handle_safety` | ten invariants of one handle under all faults, and that it implements `ProcessContract`; deadlock is checked, and only states in which everybody has ended may stop | two exit codes, one outside signal, both SIGPIPE dispositions; 956,065 states |
| `handle_liveness` | five liveness properties of one handle | one exit code; no EINTR (a waiter that gives up) and no group kill (a death of the library with extras); 198,807 states |
| `fds_sequential` | descriptors of three children, one spawning thread: inherited ends point to earlier children, nothing leaks, and every EOF that a spawn, a wait or a supervisor needs does come | N = 3; 10,906 states. Deadlock is not checked: the program may stop with children running or ended |
| `stdio` | writes are whole and contiguous, no closed descriptor is used, SIGPIPE ends the program in two named places only, no output is lost, and `write_stdin`, `close_stdin`, `kill` and the destructor do what they should in the end | two threads and the readers, one call each of 2 bytes, pipes of 1 byte, 2 bytes of output, one of each stream a blank; two captured streams, one with a callback that writes, and content mode; 346,808 states. No deadlock check: nobody need call |
| `windows` | every way out closes every handle, the job takes the tree, a full pipe has a reader, `run()` and `detach()` return, and the contract is kept | all faults; all combinations of the outputs with and without merge, and every stdin; exit codes 259 and one that is negative as `int`; 187,415 states |
| `launch` | the child that runs is the one asked for; errors have their causes | both platforms, 2 builder calls, 2 variables and 2 values, one of each not ASCII, 2 PATH directories, 2 of the 4 Windows extensions, 2 files for the search to meet; one argument of up to 2 characters, one of 3 quotes and backslashes, or two of up to 1; 1 outside change; 3,152,081 states. No deadlock check: a launch ends |
| `early_death` | *violation*: `EarlyDeathKillsTarget` | |
| `detach_sigpipe` | *violation*: `DetachNeverCrashesCaller` | |
| `pid_reuse` | *violation*: `SignalsActOnTheTarget` | |
| `fds_close_stdin` | *violation*: `CloseStdinGivesEof` | N = 2 |
| `fds_concurrent` | *violation*: `NoOrphans` with two spawning threads | N = 2 |
| `stdio_callback` | *violation*: `CallbackWriteReturns` | one thread, pipes of 1 byte, 3 bytes of output |

Why the bounds are enough:

- `UnixProcess` has no counters; two exit codes tell a true code from a made-up
  one, and a signal tells 128 + n from both. `WinProcess` has none either.
- Three children give a supervisor with two predecessors, and a middle child
  that inherits and is inherited from.
- A pipe of one byte makes every write of two bytes block in the middle, which is
  the case the mutex, the loop and the readers exist for. Two bytes of output
  fill a stdout pipe and leave one owed. The loops have no other counter than
  the bytes. One result is enough: what a second `wait()` returns is empty in
  the code, and no property is about it.
- Two builder calls are enough for any pair of setters to meet in either
  order; what a third adds (a third value for a key) the fold treats like the
  second. Two characters have every pair of neighbours that the quoting can meet; three
  quotes and backslashes have runs of backslashes before a quote and at the end. One
  outside change breaks each check-then-use pair once.
- 512 for 2^31 keeps the exit codes small: what counts is one code on either side of
  the sign, and that 259 is on the lower.

The theorems below remove the bounds for the properties they name.

Every property of a passing run is also run against a faulty variant of one
definition (the `...Bug...` definitions next to the correct ones) and is violated there.

### What the properties leave out by name

Where a property holds except for a case, the case is written in it:

- `ExitCodeTruth`, `NothingLeftRunning`: a signal handler interrupted a wait; for the second,
  in `run()` and move assignment, also that the supervisor was killed from outside.
- `FailedSpawnLeavesNothing`: the supervisor stays unreaped if the wait for it was
  interrupted, and the target runs on if somebody killed the supervisor before it could
  answer. No descriptor stays open in either case.
- `HandleAfterExec`: an interrupted read of the exec probe is taken for EOF. And a target
  killed before its `execve` gives EOF, hence a handle, for a program that never ran.
- `KillTakesTheTree`, `KillReturns` on Unix: of an interactive child only the target gets
  the signal. Its descendants go on, and with the output captured `kill()` waits for them,
  although `running_process.hpp:57` says that it works in both modes.
- `DetachReturns`: `detach()` takes `stdin_mutex` (`spawn.cpp:608`, `src/win32/spawn.cpp:346`) and
  joins the readers (638, and 383-384). A `write_stdin` of another thread, or of a callback on the reader
  thread, that is blocked on a child which does not read its stdin holds up the one or the
  other, for as long as the child likes. The comment at `spawn.cpp:360-365`, by which
  `reader_shutdown` ends the reader in bounded time, is about a reader that is in `poll`. So the property
  has the premise that no write stays blocked. On Windows it also excepts the feeder, which
  is joined too, and a reader caught between two reads whose handle number was given
  to somebody else.
- `CallerSurvives`: the feeder of content and file mode writes with SIGPIPE unmasked, and so
  does `detach()` its release byte.
- `TreeDies`, `TimeoutReturns`: a process that runs outside the job, because it
  was started before the assignment or the assignment failed.
- `FullPipesAreRead`: stderr merged into a discarded stream goes to the pipe that was made for
  that stream and that no thread reads; a child that fills it blocks.
- `EnvAsAsked`: on Windows no name and no value that is not ASCII arrives as it is.
- `ProgramAsAsked`: on Windows a program that is no PE and has a relative name
  is checked in the caller's directory and looked up by `cmd` in the child's.
- `DirectoryAsAsked`: on Unix the directory went away after it was checked.
- `RestAsAsked`: on Windows arguments that are `AtRisk`: not ASCII, or quoted with a backslash
  before a quote or at the end, which is not escaped (`Ambiguous`); what `cmd` passes on is
  left open.
- `ErrorsHaveCauses`: `command_not_found` also means that a script's interpreter is
  missing; what the system cannot or will not run is a `platform_error`; on Windows so is
  whatever changed since it was looked at; and where the system does not tell what a place
  holds, an exception that is no `SpawnError` is thrown.

### What the violations say

- `early_death`: `spawn.cpp:169` says "Library died before we could tell it —
  kill target and bail". With the default SIGPIPE the failed write at line 168
  kills the supervisor first; the target stays.
- `detach_sigpipe`: `running_process.hpp:93` promises that `detach()` returns
  the pid. If the target has already ended the release pipe has no reader, and
  the write at `spawn.cpp:620` is not guarded against SIGPIPE as `write_stdin`'s is.
- `pid_reuse`: `README.md:195` says that the signal methods act on the target
  you spawned. The supervisor reaps it while the handle still has its number.
- `fds_close_stdin`: `running_process.hpp:87` says that `close_stdin()` sends
  EOF. The supervisor of a later child holds the write end too.
- `fds_concurrent`: `README.md:39` says "No orphans". Of two supervisors forked at
  once each holds what the other waits for: one waits for the end of a lifecycle pipe, the
  other for that of a lifecycle pipe too, or still for that of its exec probe, and then the
  second spawn hangs as well. Neither sees the death of the library.
- `stdio_callback`: `running_process.hpp:70-73` and `README.md:320` say that
  writing from inside an `on_stdout` callback is fully supported. The callback
  runs on the thread that drains stdout: when its write blocks on a full
  stdin pipe and the child on its full stdout, neither goes on.

### Fairness

Weak fairness of the spawn, of a call in progress, of the supervisor, of a
forked target up to its exec, of the reader thread and of PID 1's reaping: each
is a thread or process that the scheduler runs when it can run, and none of
the waits it covers is for a lock that others can take first for ever. A `write_stdin` is sure
to end only when nobody is left to read (`StdoutEof /\ WriteEnds`). No fairness is assumed of the
caller (who may never call), of the target (which may run for ever and never read), of a
descendant, or of any fault. `FilterSpec` of
`ForkedFds`, used for `fds_close_stdin` only, adds that the children are
filters: a child that reads its stdin to the end terminates at EOF.

`Stdio` assumes that every thread goes on when it can, the mutex included
(calls are bounded, so nobody can be overtaken for ever), and that the child
keeps reading its stdin and finishes a write that it has begun and that fits; the three
properties are about such children. `WinProcess` assumes it of the spawn, of the call in
progress, of each reader, and of a feeder or a `write_stdin` whose pipe is broken
(`FeederBroken`, `StreamsFree /\ WriteEnds`); the child need neither read nor exit.

## Proofs

Assumptions: the constants' named ones only. For `UnixProcess`, `Codes` within
0..255, `Sigs` within 1..64, any SIGPIPE dispositions, any set of faults; for
`ForkedFds`, `N` a natural number; for `Stdio`, any set of callers with `Main`
among them whose names are not those of the library's threads, any sizes of
buffers, capacities of at least one byte, any modes, any blanks; for `WinProcess`, exit
codes that fit in a DWORD of any width that holds 259 in its lower half, any modes, any
faults; for `Launch`, that the garbled text is none of the variables and values, that the caller's
environment and the dotenv files are sequences of entries, that PATH names
directories other than the caller's own, that the extensions are a
sequence for each platform, and that arguments are lists of texts.

`UnixProcessProofs` proves, as theorems of `Spec`, `TypeCorrect`,
`ExitCodeIsTrue`, `ReleaseIsFinal`, `OwnsSupervisor` and `SupervisorPinsPid`.
None of the properties is inductive. `IInv` adds what they rest on:

- `LifeInv`: only a living supervisor reaps the target, and having reaped it
  ends. So its pid is pinned while the supervisor lives.
- `OwnInv`: `supPid` holds exactly in the phases between message 1 and a reap.
- `PipeInv`: the library's ends stay open as long as the handle may use them,
  and `poll` reports the lifecycle pipe only after it was closed.
- `KillerInv`: a supervisor killed either by its fail-safe or with the lifecycle
  pipe closed and no release byte written. The conjunct about `awake` is
  the heart of it: if lifecycle was sampled closed and a release byte exists, then
  release was sampled too, because the library writes before it closes and poll
  looks at lifecycle first.
- `InfoInv`: what the info pipe holds in each phase.
- `CodeInv`: the exit code, from the moment it is read.

`UnixContractProofs` proves the other five invariants of `handle_safety`
(`NothingStaysBehind`, `KillsTakeTheTree`, `FailedSpawnsAreClean`, `HandlesFollowExec`,
`MessagesAreFramed`) and the refinement `UnixKeepsContract`. `FullInv` adds to `IInv`:

- `HandleInv`: who has or had a handle has a target, and at most message 2 waits.
- `ProbeInv`: until the exec probe is read, and for ever when the exec failed,
  there is no handle; a failed exec is known before message 1 is written.
- `SpawnInv`: what message 1 says of the target, and what a refusal leaves.
- `TreeInv`: a descendant exists only after the target ran, so a kill that is
  answered has hit all there is.
- `FateInv`: a supervisor that ended by itself has reaped its target or was told
  to let go; a handle that goes has waited for it, or has killed the target.

The refinement is the initial state, and one lemma (`ContractStep`) that every
step of a state with `FullInv` is a step or a stutter of the contract. It rests
on `StepFacts` (what any action can do to the mapped variables) and on
`OwnerPhases` (what the owner can become), so that the cases of the contract are argued
once and not once per action.

`ForkedFdsProofs` proves, for any number of children, `TypeCorrect`,
`LeaksAreOrdered`, `TargetsStayClean` and `DescriptorsAreClosed`, from the order in
which one thread spawns (`OrderInv`), what the library itself holds
(`LibraryInv`) and what is inherited from it (`InheritedInv`).

Liveness itself is out of reach, but what it rests on is not: in no reachable state
does everybody wait for somebody else. `OrphansNeverDeadlock` says that when the
library is dead and a child it had a handle for is not, some supervisor or forked
target can step; `CallsNeverDeadlock` says (`CallsAreServed`) that a spawn which has begun can go on,
and that when a child has ended its
supervisor can stop or the wait for it can return. `ProcessInv` (a process that
is gone holds nothing, and which phases of the library, the supervisor and the
target go together), `ReportInv` (who holds the pipe ends that message 1 depends on) and `HoldersInv` (what a
supervisor has closed, and what a
target can hold before its exec) are added for them; `ProbeIsNotHeld` says that nobody but the
target keeps an exec probe open. The argument for the first is an order:
inherited ends point to earlier children, so nobody but the dead library held the
lifecycle pipe of the *last* child still watched (`LastChild`, `LastIsNotHeld`).
`fds_concurrent` shows that this is what a second spawning thread destroys.

`StdioProofs` proves all six invariants of `stdio`, for any number of threads,
calls, sizes and capacities. Its parts:

- `PhaseInv`: which thread can be where; nobody is inside a call when the handle ends.
- `LockInv`: who writes holds the mutex, and stdin is open then.
- `OrderInv`: while a call writes, its bytes are a suffix of all that was sent;
  afterwards they are a segment. Only `WriteByte` extends `sent`, and the lock
  holder's suffix grows by its own byte. Every other step is `Quiet`: each call
  stays as it is or begins anew under a number that no byte carries yet.
- `DeliveryInv`: the bytes of a call and what it has left make up its buffer.
- `BytesInv`, `EndInv`: every byte of the child is in its pipe, in the reader's content or
  in a result, and a reader that was not told to stop ends only when the child
  is dead and its pipe empty. Lemma `Drained` puts the two together.

`WinProcessProofs` proves the four invariants of `windows` and the refinement
`WindowsKeepsContract`, for any exit codes, modes and faults. `StageInv` says what
exists at each stage of the spawn, `JobInv` that a job is disarmed by `detach()` and nothing
else, `ReportInv` that a report is made of a child that has ended. `HandleInv` says which
handles can be open at each stage and in each phase of the handle, from which
`HandlesAreClosed` follows close by close. `BlockedIsRead` rests on `RouteInv` (an output of the child
goes to a pipe only if that stream is captured, or is discarded with the other merged into
it) and `ReaderInv` (a captured stream has a reader that serves it as long as its end is open
and somebody can write). `Steps` splits a step into actions and sets
aside those of the threads; `EndFacts` says what a termination does to whomever.

`FoldFacts` proves what a fold does with nothing, with one more element and with two
sequences one after the other (`FoldEmpty`, `FoldAppend`, `FoldConcat`), from the
definition of `FoldLeft` in the community modules. Two
things make that possible without an induction theorem that takes a predicate: induction is
stated for sets (`NatSetInduction`, `SeqSetInduction`: a set with the empty sequence, closed
under `Append`, has all sequences), proved from the well-foundedness of `<`; and
the operator that is folded is a constant of the module, of which each user takes an instance.

`CommandLineProofs` proves of the Windows command line, for every list of arguments of
every length:

- `RoundTrip`: if none of the arguments is `AtRisk`, the child reads back what it
  was given. `Reads` says what the runtime's state is after a text: the text so far, apart
  from a run of backslashes that are not settled yet.

The converse is not claimed: some of the arguments at risk survive, such as a last
one that ends in a backslash behind which the runtime meets two quotes. The program's
name is one plain character; a blank and a tab are the same here.

`LaunchProofs` proves the three invariants of `launch`: `TypeCorrect`, `ChildIsAsAsked`,
`ErrorsAreCaused`. Properties of the end say nothing of the way there, so
`IInv` adds `Settled`, which says what each step has settled for the later ones:

- after `ApplyDotenv`, the additions; after the search, that `resolved` is the first
  candidate that was a file, or is in a directory that others have changed; after the
  check, that the directory exists or was changed. Each check-then-use pair of the code is one of
  these conjuncts, and `OthersStep` is the lemma that the change of another program keeps them.
- after `BuildEnvBlock`, that the block is the fold of the additions over what remained.
  `EnvRight` turns that into what the property says of each variable: one entry, with the last
  value added, or else what the caller has (`WithoutFacts`, `BlockFacts`, `LastConcat`:
  inductions over the list of additions). `GarbleFacts` and `ShownRight` carry it through the two
  conversions of the Windows backend: for a name that is ASCII nothing else becomes an entry
  of it, and a value that is not arrives garbled.
- on Windows, that a program without the `cmd` wrapper was a PE when it was looked at, which is why
  a `platform_error` means that the system refuses it or that somebody changed something.

`FindStep`, `CheckDirectoryStep`, `ExecUnixStep` and `ExecWindowsStep` have one case per outcome;
the last cites `RoundTrip` for the arguments.

`IInv`, `FullInv`, `ProcessInv`, `HoldersInv` and the invariants of `StdioProofs`, `WinProcessProofs` and
`LaunchProofs` were checked by TLC before they were proved. Each has a lemma with one
step, or one lemma, per action.

Every invariant of a passing run is a theorem, and so is the refinement of
`ProcessContract` by both backends. Only model-checked: the liveness properties,
which with fairness and ENABLED are out of reach of the proof system.

## Not modelled

- `ProcessRef`: stateless wrappers of a call on a bare number.
- Results, errors and configuration as plain data; texts of errors.
- Console modes and their restoration; parsing of a PE header (a file is one or not).
- The error returns between the stdio pipes on Unix (`spawn.cpp:666-680`).
- SIGCHLD set to ignored in the caller.
- Relative and empty PATH entries; environment names that differ in case (which Windows
  takes for the same); what `cmd` makes of its arguments. The caller's own directory is taken to
  exist, so that `current_path()` does not throw.
- That another thread uses the handle while it is destroyed, moved or detached, other than by a
  `write_stdin` that had begun: that is the caller's part.
- The time a termination takes on Windows (`TerminateProcess` returns before the process has ended).

`PROJECT.json` says which components this leaves partly modelled.

## Plan

1. `UnixProcess`, its invariant and proofs. *Done.*
2. `ForkedFds` and its proofs. *Done.*
3. `Stdio` and its proofs. *Done.*
4. `ProcessContract`; `UnixProcess` implements it, proved. *Done.*
5. `Launch` and `CommandLine`. *Done.*
6. `WinProcess` implements the same contract, proved. *Done.*
7. Facts about folds; arguments that survive the command line; the invariants of
   `Launch`; no cycle among the waits of `ForkedFds`. All proved. *Done.*
8. Left: SIGCHLD ignored, and the stdio error returns, as further faults of
   `UnixProcess`; for `UnixProcess` and `Stdio`, proofs that in no reachable state
   everybody waits, as `ForkedFds` has them, behind `WaitReturns`, `KillReturns`,
   `WriteReturns` and `EofArrives`.
