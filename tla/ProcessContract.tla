-------------------------- MODULE ProcessContract ---------------------------
(***************************************************************************)
(* What a RunningProcess promises, on every platform, to the program that  *)
(* spawned a child (README "Lifecycle", include/.../running_process.hpp):  *)
(* who answers for the child, how the child stands, and what was said      *)
(* about its end.  The promises are void once supervision has broken down  *)
(* by a fault from outside: intact says that it has not.                   *)
(*                                                                         *)
(* A step is any change that keeps every promise; several parts may change *)
(* at once, as when one signal ends a whole group of processes.            *)
(***************************************************************************)
EXTENDS Integers

VARIABLES
    owner,      \* who answers for the child
    child,      \* "none", "running", "ended"
    truth,      \* the exit code with which it ended
    by,         \* who ended it: "nobody", "us", "other"
    report,     \* the exit code that was told to the caller: {} or {code}
    intact      \* supervision works

vars == <<owner, child, truth, by, report, intact>>

Init ==
    /\ owner = "spawning" /\ child = "none"
    /\ truth = 0 /\ by = "nobody" /\ report = {}
    /\ intact = TRUE

(* spawn() grants a handle or refuses; a handle is released by detach(),   *)
(* finished by its destructor or by the end of run(); and until then the   *)
(* program may die.                                                        *)
OwnerMoves == {<<"spawning", "handle">>, <<"spawning", "refused">>, <<"spawning", "dead">>,
               <<"handle", "released">>, <<"handle", "finished">>, <<"handle", "dead">>}

Becomes(who) == owner # who /\ owner' = who

(* A handle always has a child, and a refused spawn leaves none running.   *)
SpawnHonest ==
    /\ Becomes("handle")  => child' # "none"
    /\ Becomes("refused") => child' # "running"

(* RAII: a handle that was not released takes its child with it. *)
NoOrphan == Becomes("finished") => child' # "running"

(* A released child is never ended by the library. *)
ReleaseHolds == by # "us" /\ by' = "us" => owner' # "released"

(* What is reported of a child is how it really ended. *)
ReportTrue == report' \subseteq report \/ (child' = "ended" /\ report' = {truth'})

(* A child is started once, during the spawn, and ends once. *)
OneLife ==
    /\ child = "running" => child' # "none"
    /\ child = "ended" => UNCHANGED <<child, truth, by>>
    /\ child = "none" /\ child' # "none" => owner \in {"spawning", "dead"}

Next ==
    /\ owner' = owner \/ <<owner, owner'>> \in OwnerMoves
    /\ OneLife
    /\ intact' => intact /\ SpawnHonest /\ NoOrphan /\ ReleaseHolds /\ ReportTrue

Spec == Init /\ [][Next]_vars
=============================================================================
