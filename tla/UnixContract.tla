---------------------------- MODULE UnixContract ----------------------------
(* UnixProcess keeps the promises of ProcessContract. *)
EXTENDS UnixProcess

(* detach() is past the mutex, or else: no handle yet, a handle, none any more. *)
Owner ==
    CASE op = "detach"                                        -> "released"
      [] op # "detach" /\ lib \in HasHandle                   -> "handle"
      [] op # "detach" /\ lib \in {"start", "message1", "spawnReap"} -> "spawning"
      [] op # "detach" /\ lib = "failed"                      -> "refused"
      [] op # "detach" /\ lib = "gone"                        -> "finished"
      [] op # "detach" /\ lib = "crashed"                     -> "dead"

ChildIs ==
    IF tgt = "none" THEN "none" ELSE IF tgt \in Live THEN "running" ELSE "ended"

EndedBy ==
    CASE killer = "none" -> "nobody"
      [] killer = "other" -> "other"
      [] killer \in {"handle", "supervisor"} -> "us"

(* The code a shell would report, whatever the library makes of the status. *)
TrueCode == status.payload + 128 * status.flag

(* Supervision breaks down when the supervisor ends other than with 0, or  *)
(* is about to after a failed poll(), and when a signal handler interrupts *)
(* one of the waits that do not retry.                                     *)
Intact == supExit \notin {"one", "signal"} /\ sup # "reap1" /\ eintr = "none"

Contract == INSTANCE ProcessContract WITH
    owner  <- Owner,
    child  <- ChildIs,
    truth  <- TrueCode,
    by     <- EndedBy,
    report <- IF waited /\ op # "detach" THEN {cached} ELSE {},
    intact <- Intact

(* Every behaviour of the handle, the supervisor and the target is one that *)
(* the contract of RunningProcess allows.                                   *)
KeepsContract == Contract!Spec
=============================================================================
