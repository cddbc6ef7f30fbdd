----------------------------- MODULE ForkedFds -----------------------------
(***************************************************************************)
(* Which process holds which end of which pipe when one program spawns     *)
(* several children through platform_spawn.  A supervisor is forked and    *)
(* never execs, so CLOEXEC does not touch what it inherits: it closes the  *)
(* pipes of its own child and keeps every other descriptor the library had *)
(* open at the fork.  The end of a pipe is seen only when the last holder  *)
(* of its write end is gone.                                               *)
(*                                                                         *)
(* Every child here is spawned with StdinMode::pipe and captured stdout.   *)
(* The supervisor's steps after the spawn are those of UnixProcess, taken  *)
(* together.                                                               *)
(***************************************************************************)
EXTENDS Integers

CONSTANTS
    N,          \* how many children the program spawns
    Sequential  \* TRUE: platform_spawn is never run by two threads at once

ASSUME NAssumption          == N \in Nat
ASSUME SequentialAssumption == Sequential \in BOOLEAN

Child == 1..N

LibraryEnds    == {"info_r", "lifecycle_w", "release_w"}
SupervisorEnds == {"info_w", "lifecycle_r", "release_r"}
ProbeEnds      == {"probe_r", "probe_w"}
ParentStdio    == {"stdin_w", "stdout_r"}
ChildStdio     == {"stdin_r", "stdout_w"}
End            == LibraryEnds \cup SupervisorEnds \cup ProbeEnds \cup ParentStdio \cup ChildStdio
Fd             == Child \X End

VARIABLES
    alive,              \* the library process
    spawn,              \* how far the library is with each child
    sup, tgt,           \* the supervisor and the target of each child
    libFds,             \* the descriptors the library holds,
    supFds, tgtFds,     \* each supervisor and each target,
    libBare,            \* and those among them without FD_CLOEXEC
    supBare, tgtBare

libVars  == <<libFds, libBare>>
supVars  == <<sup, supFds, supBare>>
tgtVars  == <<tgt, tgtFds, tgtBare>>
vars     == <<alive, spawn, libVars, supVars, tgtVars>>

Of(c, ends) == {c} \X ends

(* No process holds this end of the pipe: its peer reads EOF. *)
Eof(c, end) ==
    /\ <<c, end>> \notin libFds
    /\ \A d \in Child : <<c, end>> \notin supFds[d] /\ <<c, end>> \notin tgtFds[d]

-----------------------------------------------------------------------------
Init ==
    /\ alive = TRUE
    /\ spawn = [c \in Child |-> "none"]
    /\ sup = [c \in Child |-> "none"]
    /\ tgt = [c \in Child |-> "none"]
    /\ libFds = {} /\ libBare = {}
    /\ supFds = [c \in Child |-> {}] /\ supBare = [c \in Child |-> {}]
    /\ tgtFds = [c \in Child |-> {}] /\ tgtBare = [c \in Child |-> {}]

Spawning == {"pipes", "cloexec", "forked", "reading"}

(* Definitions whose name has a Bug suffix are faulty variants of one that *)
(* follows; the properties are expected to reject them.                    *)

(* The fcntl() is forgotten. *)
SetCloexecBugMissing(c) ==
    /\ alive
    /\ spawn[c] = "pipes"
    /\ spawn' = [spawn EXCEPT ![c] = "cloexec"]
    /\ UNCHANGED <<alive, libVars, supVars, tgtVars>>

(* make_cloexec_pipe(): pipe(), and fcntl(FD_CLOEXEC) as a second step.    *)
(* Children are numbered in the order in which their spawns begin.         *)
CreatePipes(c) ==
    /\ alive
    /\ spawn[c] = "none"
    /\ \A d \in Child : d < c => spawn[d] # "none"
    /\ Sequential => \A d \in Child : spawn[d] \notin Spawning
    /\ spawn' = [spawn EXCEPT ![c] = "pipes"]
    /\ libFds' = libFds \cup Of(c, End)
    /\ libBare' = libBare \cup Of(c, End)
    /\ UNCHANGED <<alive, supVars, tgtVars>>

SetCloexec(c) ==
    /\ alive
    /\ spawn[c] = "pipes"
    /\ spawn' = [spawn EXCEPT ![c] = "cloexec"]
    /\ libBare' = libBare \ Of(c, End)
    /\ UNCHANGED <<alive, libFds, supVars, tgtVars>>

(* fork(): the supervisor has a copy of every descriptor of the library. *)
ForkSupervisor(c) ==
    /\ alive
    /\ spawn[c] = "cloexec"
    /\ spawn' = [spawn EXCEPT ![c] = "forked"]
    /\ sup' = [sup EXCEPT ![c] = "started"]
    /\ supFds' = [supFds EXCEPT ![c] = libFds]
    /\ supBare' = [supBare EXCEPT ![c] = libBare]
    /\ UNCHANGED <<alive, libVars, tgtVars>>

(* The supervisor keeps the library's ends of its own pipes. *)
ForkTargetBugKeepsEnds(c) ==
    LET mine == supFds[c] IN
    /\ sup[c] = "started"
    /\ sup' = [sup EXCEPT ![c] = "probing"]
    /\ tgt' = [tgt EXCEPT ![c] = "forked"]
    /\ supFds' = [supFds EXCEPT ![c] = mine \ Of(c, ParentStdio \cup ChildStdio \cup {"probe_w"})]
    /\ tgtFds' = [tgtFds EXCEPT ![c] = mine \ Of(c, SupervisorEnds \cup ParentStdio \cup {"probe_r"})]
    /\ tgtBare' = [tgtBare EXCEPT ![c] = supBare[c] \ Of(c, End)]
    /\ UNCHANGED <<alive, spawn, libVars, supBare>>

(* The supervisor closes the library's ends, forks the target, and closes  *)
(* the stdio of its child; the target closes what is not its stdio.  They  *)
(* share the exec probe, which the target writes and the supervisor reads. *)
ForkTarget(c) ==
    LET mine == supFds[c] \ Of(c, LibraryEnds) IN
    /\ sup[c] = "started"
    /\ sup' = [sup EXCEPT ![c] = "probing"]
    /\ tgt' = [tgt EXCEPT ![c] = "forked"]
    /\ supFds' = [supFds EXCEPT ![c] = mine \ Of(c, ParentStdio \cup ChildStdio \cup {"probe_w"})]
    /\ tgtFds' = [tgtFds EXCEPT ![c] = mine \ Of(c, SupervisorEnds \cup ParentStdio \cup {"probe_r"})]
    /\ tgtBare' = [tgtBare EXCEPT ![c] = supBare[c] \ Of(c, End)]
    /\ UNCHANGED <<alive, spawn, libVars, supBare>>

(* execve(): descriptors 0 and 1, and what has no FD_CLOEXEC. *)
Exec(c) ==
    /\ tgt[c] = "forked"
    /\ tgt' = [tgt EXCEPT ![c] = "running"]
    /\ tgtFds' = [tgtFds EXCEPT ![c] = (@ \cap Of(c, ChildStdio)) \cup tgtBare[c]]
    /\ UNCHANGED <<alive, spawn, libVars, supVars, tgtBare>>

(* The probe is at EOF: execve succeeded.  Message 1 is written.           *)
SupervisorReports(c) ==
    /\ sup[c] = "probing"
    /\ Eof(c, "probe_w") /\ ~Eof(c, "info_r")
    /\ sup' = [sup EXCEPT ![c] = "watching"]
    /\ supFds' = [supFds EXCEPT ![c] = @ \ Of(c, ProbeEnds)]
    /\ UNCHANGED <<alive, spawn, libVars, supBare, tgtVars>>

(* Nobody is left to read message 1: SIGPIPE ends the supervisor, or, if   *)
(* it is ignored, the supervisor kills the target.                         *)
SupervisorBreaks(c) ==
    /\ sup[c] = "probing"
    /\ Eof(c, "probe_w") /\ Eof(c, "info_r")
    /\ sup' = [sup EXCEPT ![c] = "gone"]
    /\ supFds' = [supFds EXCEPT ![c] = {}] /\ supBare' = [supBare EXCEPT ![c] = {}]
    /\ \/ UNCHANGED tgtVars
       \/ /\ tgt' = [tgt EXCEPT ![c] = "dead"]
          /\ tgtFds' = [tgtFds EXCEPT ![c] = {}] /\ tgtBare' = [tgtBare EXCEPT ![c] = {}]
    /\ UNCHANGED <<alive, spawn, libVars>>

(* The library keeps the child's ends of the stdio pipes. *)
CloseChildEndsBugKeepsStdio(c) ==
    /\ alive
    /\ spawn[c] = "forked"
    /\ spawn' = [spawn EXCEPT ![c] = "reading"]
    /\ libFds' = libFds \ Of(c, SupervisorEnds \cup ProbeEnds)
    /\ UNCHANGED <<alive, libBare, supVars, tgtVars>>

(* The library keeps the exec probe. *)
CloseChildEndsBugKeepsProbe(c) ==
    /\ alive
    /\ spawn[c] = "forked"
    /\ spawn' = [spawn EXCEPT ![c] = "reading"]
    /\ libFds' = libFds \ Of(c, SupervisorEnds \cup ChildStdio)
    /\ UNCHANGED <<alive, libBare, supVars, tgtVars>>

(* The library closes the ends of the supervisor and of the child. *)
CloseChildEnds(c) ==
    /\ alive
    /\ spawn[c] = "forked"
    /\ spawn' = [spawn EXCEPT ![c] = "reading"]
    /\ libFds' = libFds \ Of(c, SupervisorEnds \cup ProbeEnds \cup ChildStdio)
    /\ UNCHANGED <<alive, libBare, supVars, tgtVars>>

(* Message 1 is in. *)
ReadSpawnOk(c) ==
    /\ alive
    /\ spawn[c] = "reading"
    /\ sup[c] \in {"watching", "gone"}
    /\ spawn' = [spawn EXCEPT ![c] = "up"]
    /\ UNCHANGED <<alive, libVars, supVars, tgtVars>>

(* close_stdin() *)
CloseStdin(c) ==
    /\ alive
    /\ spawn[c] = "up"
    /\ <<c, "stdin_w">> \in libFds
    /\ libFds' = libFds \ Of(c, {"stdin_w"})
    /\ UNCHANGED <<alive, spawn, libBare, supVars, tgtVars>>

(* The target ends, on its own or because it was signalled. *)
TargetEnds(c) ==
    /\ tgt[c] = "running"
    /\ tgt' = [tgt EXCEPT ![c] = "dead"]
    /\ tgtFds' = [tgtFds EXCEPT ![c] = {}]
    /\ tgtBare' = [tgtBare EXCEPT ![c] = {}]
    /\ UNCHANGED <<alive, spawn, libVars, supVars>>

(* A filter ends when it has read its stdin to the end. *)
TargetReadsEof(c) == Eof(c, "stdin_w") /\ TargetEnds(c)

(* The supervisor ends with its target, or kills it at lifecycle EOF. *)
MayStop(c) ==
    /\ sup[c] = "watching"
    /\ \/ tgt[c] = "dead"
       \/ tgt[c] = "running" /\ Eof(c, "lifecycle_w")

SupervisorStops(c) ==
    /\ MayStop(c)
    /\ sup' = [sup EXCEPT ![c] = "gone"]
    /\ tgt' = [tgt EXCEPT ![c] = "dead"]
    /\ supFds' = [supFds EXCEPT ![c] = {}] /\ supBare' = [supBare EXCEPT ![c] = {}]
    /\ tgtFds' = [tgtFds EXCEPT ![c] = {}] /\ tgtBare' = [tgtBare EXCEPT ![c] = {}]
    /\ UNCHANGED <<alive, spawn, libVars>>

(* wait() has reaped the supervisor and its reader has seen EOF; the handle *)
(* is destroyed.                                                            *)
MayReturn(c) ==
    /\ alive
    /\ spawn[c] = "up"
    /\ sup[c] = "gone"
    /\ Eof(c, "stdout_w")

WaitReturns(c) ==
    /\ MayReturn(c)
    /\ spawn' = [spawn EXCEPT ![c] = "closed"]
    /\ libFds' = libFds \ Of(c, End)
    /\ UNCHANGED <<alive, libBare, supVars, tgtVars>>

(* The read end of the captured output is not closed. *)
DetachBugKeepsStdout(c) ==
    /\ alive
    /\ spawn[c] = "up"
    /\ spawn' = [spawn EXCEPT ![c] = "detached"]
    /\ sup' = [sup EXCEPT ![c] = "gone"]
    /\ libFds' = libFds \ Of(c, LibraryEnds \cup {"stdin_w"})
    /\ supFds' = [supFds EXCEPT ![c] = {}] /\ supBare' = [supBare EXCEPT ![c] = {}]
    /\ UNCHANGED <<alive, libBare, tgtVars>>

(* detach(): the supervisor lets go, the library closes everything. *)
Detach(c) ==
    /\ alive
    /\ spawn[c] = "up"
    /\ spawn' = [spawn EXCEPT ![c] = "detached"]
    /\ sup' = [sup EXCEPT ![c] = "gone"]
    /\ libFds' = libFds \ Of(c, End)
    /\ supFds' = [supFds EXCEPT ![c] = {}] /\ supBare' = [supBare EXCEPT ![c] = {}]
    /\ UNCHANGED <<alive, libBare, tgtVars>>

LibraryDies ==
    /\ alive
    /\ alive' = FALSE
    /\ libFds' = {} /\ libBare' = {}
    /\ UNCHANGED <<spawn, supVars, tgtVars>>

Next ==
    \/ \E c \in Child :
         \/ CreatePipes(c) \/ SetCloexec(c) \/ ForkSupervisor(c) \/ ForkTarget(c) \/ Exec(c)
         \/ SupervisorReports(c) \/ SupervisorBreaks(c) \/ CloseChildEnds(c) \/ ReadSpawnOk(c)
         \/ CloseStdin(c) \/ TargetEnds(c) \/ SupervisorStops(c) \/ WaitReturns(c) \/ Detach(c)
    \/ LibraryDies

(* Forked processes and a spawn that began go on, a waiting library returns *)
(* when it can.                                                             *)
Fairness ==
    \A c \in Child :
        /\ WF_vars(SetCloexec(c)) /\ WF_vars(ForkSupervisor(c)) /\ WF_vars(CloseChildEnds(c))
        /\ WF_vars(ReadSpawnOk(c)) /\ WF_vars(ForkTarget(c)) /\ WF_vars(Exec(c))
        /\ WF_vars(SupervisorReports(c)) /\ WF_vars(SupervisorBreaks(c))
        /\ WF_vars(SupervisorStops(c)) /\ WF_vars(WaitReturns(c))

Spec     == Init /\ [][Next]_vars
FairSpec == Spec /\ Fairness

(* The children are filters: each ends when it has read its stdin. *)
FilterSpec == FairSpec /\ \A c \in Child : WF_vars(TargetReadsEof(c))

-----------------------------------------------------------------------------
(* Properties *)

(* Every variable has its type. *)
TypeOK ==
    /\ alive \in BOOLEAN
    /\ spawn \in [Child -> Spawning \cup {"none", "up", "closed", "detached"}]
    /\ sup \in [Child -> {"none", "started", "probing", "watching", "gone"}]
    /\ tgt \in [Child -> {"none", "forked", "running", "dead"}]
    /\ libFds \in SUBSET Fd /\ libBare \in SUBSET Fd
    /\ supFds \in [Child -> SUBSET Fd] /\ supBare \in [Child -> SUBSET Fd]
    /\ tgtFds \in [Child -> SUBSET Fd] /\ tgtBare \in [Child -> SUBSET Fd]

(* The library has no descriptor of a child it has no handle for: not of   *)
(* one it waited for and destroyed, nor of one it detached.                *)
NoDescriptorLeaks ==
    \A c \in Child : spawn[c] \in {"none", "closed", "detached"} =>
        libFds \cap Of(c, End) = {}

(* With one spawning thread a supervisor only ever holds pipes of children *)
(* spawned before its own, and of those only the library's own ends: who   *)
(* keeps whom from seeing an EOF has no cycle.                             *)
LeaksPointBack ==
    Sequential => \A c, d \in Child : \A e \in End :
        <<d, e>> \in supFds[c] /\ d # c => d < c /\ e \in LibraryEnds \cup ParentStdio

(* A running target has its own stdio and nothing of this library's pipes. *)
TargetsAreClean ==
    Sequential => \A c \in Child :
        tgt[c] = "running" => tgtFds[c] \subseteq Of(c, ChildStdio)

(* "No orphans": when the library is dead, every child it had a handle for *)
(* dies too.  (What a death before message 1 does is in UnixProcess.)      *)
NoOrphans ==
    \A c \in Child : ~alive /\ spawn[c] = "up" ~> tgt[c] = "dead"

(* A spawn returns: nobody keeps its exec probe from closing.  And once the *)
(* target is dead a wait for it returns: nobody else keeps its output open. *)
CallsReturn ==
    \A c \in Child :
        /\ spawn[c] \in Spawning ~> spawn[c] \notin Spawning \/ ~alive
        /\ tgt[c] = "dead" /\ spawn[c] = "up"
               ~> spawn[c] \in {"closed", "detached"} \/ ~alive

(* "Send EOF to the child by closing the write end": a child that reads    *)
(* its stdin to the end terminates after close_stdin().                    *)
CloseStdinGivesEof ==
    \A c \in Child : alive /\ spawn[c] = "up" /\ <<c, "stdin_w">> \notin libFds
                         ~> tgt[c] = "dead" \/ spawn[c] = "detached" \/ ~alive
=============================================================================
