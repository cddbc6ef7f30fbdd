-------------------------- MODULE UnixProcessInv ---------------------------
(* The inductive invariant behind the safety properties of UnixProcess. *)
EXTENDS UnixProcess

(* Where the library thread can still read message 1, or make a call. *)
Early    == {"start", "message1", "spawnReap", "failed"}
Owning   == {"idle", "poll", "signal", "reap"}
Watching == {"own", "poll", "pollRelease", "awake", "reap1"}

(* Which process exists when: only a living supervisor reaps, and it ends  *)
(* when it has reaped.                                                     *)
LifeInv ==
    /\ lib = "start" => sup = "none"
    /\ sup \in {"none", "forking"} => tgt = "none"
    /\ sup \in SupLive \ {"forking"} => tgt \in Live \cup {"zombie"}
    /\ tgt \in Live \cup {"zombie"} => pidOwner = "target"

(* Who owns the supervisor's pid. *)
OwnInv ==
    /\ supPid => sup \notin {"none", "reaped"} /\ cached = -1
    /\ lib \in Early => ~supPid /\ ~waited /\ cached = -1
    /\ lib \in {"message1", "spawnReap"} => sup \notin {"none", "reaped"}
    /\ lib \in {"idle", "signal", "detachLock"} => (supPid <=> ~waited)
    /\ lib \in {"poll", "reap"} => supPid /\ ~waited
    /\ lib = "join" => ~supPid

(* The pipes are open as long as the handle may need them, and lifecycle   *)
(* is seen closed only once it is.                                         *)
PipeInv ==
    /\ lib \in Owning \cup {"message1", "join", "dtorJoin", "detachLock"} =>
           fds = {"info", "lifecycle", "release"}
    /\ lib \in {"start", "spawnReap", "failed"} => fds = {}
    /\ sup \in {"pollRelease", "awake"} /\ "lifecycle" \in revents => "lifecycle" \notin fds
    /\ release => lib \in {"detachReap", "detachJoin", "gone", "crashed"}
    /\ lib \in Owning \cup {"join", "dtorJoin"} => op # "detach"
    /\ lib \in {"detachReap", "detachJoin"} => op = "detach"
    /\ lib = "detachLock" => op = "detaching"
    /\ op = "detaching" => lib \in {"detachLock", "crashed"}

(* A kill by the supervisor is the work of its fail-safe, or the library   *)
(* closed the lifecycle pipe and never released the target.                *)
KillerInv ==
    /\ sup \in {"exited", "reaped"} <=> supExit # "none"
    /\ sup = "awake" /\ "lifecycle" \in revents /\ release => "release" \in revents
    /\ killer = "supervisor" =>
           \/ sup = "reap1" \/ supExit \in {"one", "signal"}
           \/ (sup = "reap0" \/ supExit = "zero") /\ "lifecycle" \notin fds /\ ~release
    /\ sup = "reap0" => "lifecycle" \notin fds

(* What is in the info pipe: nothing, message 1, message 2, or both. *)
InfoInv ==
    /\ lib = "start" => info = <<>>
    /\ lib = "message1" =>
        /\ sup \in {"forking", "probe", "fail", "report"} => info = <<>>
        /\ sup = "failReap" => info = <<ErrMsg>>
        /\ sup \in Watching => info = <<OkMsg>>
        /\ sup # "reap0"
        /\ sup = "exited" =>
             \/ info = <<>> /\ supExit \in {"one", "signal"}
             \/ info = <<ErrMsg>>
             \/ info = <<OkMsg>> /\ supExit \in {"one", "signal"}
             \/ info = <<OkMsg, ExitMsg(status)>> /\ tgt = "reaped"
    /\ lib \in Owning /\ supPid =>
        /\ sup \in Watching \cup {"exited"}
        /\ \/ info = <<>> /\ (sup = "exited" => supExit \in {"one", "signal"})
           \/ info = <<ExitMsg(status)>> /\ sup = "exited" /\ tgt = "reaped"

(* The exit code that was read is the true one, or -1 for a known reason. *)
CodeKnown ==
    \/ tgt = "reaped" /\ cached = Encode(status)
    \/ cached = -1 /\ (supExit \in {"one", "signal"} \/ eintr = "reap")

CodeInv ==
    lib = "join" \/ (waited /\ op # "detach") => CodeKnown

IInv == TypeOK /\ LifeInv /\ OwnInv /\ PipeInv /\ KillerInv /\ InfoInv /\ CodeInv

-----------------------------------------------------------------------------
(* What the promises of a handle rest on, beyond IInv. *)

(* There is a handle, or there was one, because message 1 said so: a       *)
(* target was started, and the info pipe holds at most message 2.          *)
HandleInv ==
    lib \in HasHandle \cup {"gone"} \/ op = "detach" =>
        /\ sup \in Watching \cup {"reap0", "exited", "reaped"}
        /\ tgt # "none"
        /\ \/ info = <<>>
           \/ info = <<ExitMsg(status)>> /\ tgt = "reaped" /\ sup \in {"exited", "reaped"}

(* As long as the exec is not known, and for ever when it failed, nobody   *)
(* takes the spawn for a success, unless the read of the probe was         *)
(* interrupted.                                                            *)
ProbeInv ==
    /\ probe => tgt \in {"zombie", "reaped"}
    /\ sup \in {"fail", "failReap"} => probe
    /\ sup \in {"none", "forking", "probe", "fail", "report"} => info = <<>>
    /\ eintr # "probe" /\ (tgt = "forked" \/ probe) =>
           /\ sup \in {"probe", "fail", "failReap", "exited", "reaped"}
           /\ lib \notin HasHandle
           /\ info = <<>> \/ info = <<ErrMsg>>

(* What message 1 says of the target, and what is left of a refused spawn. *)
SpawnInv ==
    /\ lib = "message1" /\ info # <<>> =>
           /\ Head(info) = ErrMsg => tgt \notin Live
           /\ Head(info) = OkMsg => tgt # "none"
    /\ lib = "failed" => sup \in {"none", "reaped"} \/ eintr = "reap"
    /\ lib \in {"spawnReap", "failed"} =>
           /\ sup \in {"none", "failReap", "exited", "reaped"}
           /\ tgt \in Live => supExit = "signal"

(* A descendant is forked by a running target only. *)
TreeInv ==
    /\ lib \in {"start", "message1", "poll"} => result = "none"
    /\ result # "none" => sup \notin {"none", "forking"}
    /\ kid # "none" => tgt \in {"running", "zombie", "reaped"}
    /\ KillTakesTheTree

(* A supervisor that ends by itself has reaped its target or was told to   *)
(* let it go; a handle that goes has waited for it, and the destructor and *)
(* the timeout of run() have killed the target before.                     *)
FateInv ==
    /\ supExit \in {"zero", "one"} => tgt \in {"none", "reaped"} \/ release
    /\ release => op = "detach"
    /\ op = "detach" => /\ lib \in {"detachReap", "detachJoin", "gone", "crashed"}
                        /\ sup \in SupLive => release
    /\ lib \in {"dtorJoin", "dtorReap"} \/ (lib = "gone" /\ op # "detach") =>
           op \in {"run", "timeout", "destroy", "move"}
    /\ lib = "poll" => op \in {"wait_for", "run"}
    /\ lib \in {"gone", "detachJoin"} => ~supPid
    /\ eintr = "none" =>
           /\ lib \in HasHandle \cup {"gone"} /\ ~supPid => sup = "reaped"
           /\ /\ op \in {"destroy", "timeout"}
              /\ lib \in {"reap", "join", "dtorJoin", "dtorReap", "gone"}
              => tgt \notin Live

FullInv == IInv /\ HandleInv /\ ProbeInv /\ SpawnInv /\ TreeInv /\ FateInv
=============================================================================
