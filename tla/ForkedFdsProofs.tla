-------------------------- MODULE ForkedFdsProofs --------------------------
(* Proofs about ForkedFds, for any number of children. *)
EXTENDS ForkedFds, WellFoundedInduction, TLAPS

(* Spawns begin in the order of the children's numbers, and one at a time  *)
(* when there is one spawning thread.                                      *)
OrderInv ==
    /\ \A c, d \in Child : c < d /\ spawn[d] # "none" => spawn[c] # "none"
    /\ Sequential => \A c, d \in Child : spawn[c] \in Spawning =>
           /\ c < d => spawn[d] = "none"
           /\ c # d => spawn[d] \notin Spawning

(* What the library holds: the pipes of the children it is spawning, and   *)
(* its own ends of those it has a handle for.                              *)
LibraryInv ==
    /\ \A d \in Child, e \in End : <<d, e>> \in libFds =>
           /\ spawn[d] \in Spawning \cup {"up"}
           /\ spawn[d] \in {"reading", "up"} => e \in LibraryEnds \cup ParentStdio
    /\ \A d \in Child, e \in End : <<d, e>> \in libBare => spawn[d] = "pipes"

(* What a supervisor and a target inherit from it. *)
InheritedInv ==
    Sequential => \A c \in Child :
        /\ \A d \in Child, e \in End : <<d, e>> \in supFds[c] /\ d # c =>
               d < c /\ e \in LibraryEnds \cup ParentStdio
        /\ supBare[c] = {} /\ tgtBare[c] = {}
        /\ tgt[c] = "running" => tgtFds[c] \subseteq Of(c, ChildStdio)

IInv == TypeOK /\ OrderInv /\ LibraryInv /\ InheritedInv

(* Every action preserves the types. *)
LEMMA TypeStep == ASSUME TypeOK, [Next]_vars PROVE TypeOK'
<1> USE NAssumption, SequentialAssumption DEF TypeOK, Spawning, Of, Fd, End, LibraryEnds,
        SupervisorEnds, ProbeEnds, ParentStdio, ChildStdio, libVars, supVars, tgtVars
<1>1. ASSUME NEW c \in Child, CreatePipes(c) PROVE TypeOK'
  BY <1>1 DEF CreatePipes
<1>2. ASSUME NEW c \in Child, SetCloexec(c) PROVE TypeOK'
  BY <1>2 DEF SetCloexec
<1>3. ASSUME NEW c \in Child, ForkSupervisor(c) PROVE TypeOK'
  BY <1>3 DEF ForkSupervisor
<1>4. ASSUME NEW c \in Child, ForkTarget(c) PROVE TypeOK'
  BY <1>4 DEF ForkTarget
<1>21. ASSUME NEW c \in Child, SupervisorReports(c) PROVE TypeOK'
  BY <1>21 DEF SupervisorReports
<1>22. ASSUME NEW c \in Child, SupervisorBreaks(c) PROVE TypeOK'
  BY <1>22 DEF SupervisorBreaks
<1>5. ASSUME NEW c \in Child, Exec(c) PROVE TypeOK'
  BY <1>5 DEF Exec
<1>6. ASSUME NEW c \in Child, CloseChildEnds(c) PROVE TypeOK'
  BY <1>6 DEF CloseChildEnds
<1>14. ASSUME NEW c \in Child, ReadSpawnOk(c) PROVE TypeOK'
  BY <1>14 DEF ReadSpawnOk
<1>7. ASSUME NEW c \in Child, CloseStdin(c) PROVE TypeOK'
  BY <1>7 DEF CloseStdin
<1>8. ASSUME NEW c \in Child, TargetEnds(c) PROVE TypeOK'
  BY <1>8 DEF TargetEnds
<1>9. ASSUME NEW c \in Child, SupervisorStops(c) PROVE TypeOK'
  BY <1>9 DEF SupervisorStops, MayStop
<1>10. ASSUME NEW c \in Child, WaitReturns(c) PROVE TypeOK'
  BY <1>10 DEF WaitReturns, MayReturn
<1>11. ASSUME NEW c \in Child, Detach(c) PROVE TypeOK'
  BY <1>11 DEF Detach
<1>12. CASE LibraryDies
  BY <1>12 DEF LibraryDies
<1>13. CASE UNCHANGED vars
  BY <1>13 DEF vars
<1> QED
  BY <1>1, <1>2, <1>3, <1>4, <1>5, <1>6, <1>7, <1>8, <1>9, <1>10, <1>11, <1>12, <1>13, <1>14, <1>21, <1>22 DEF Next

(* Spawns stay in order. *)
LEMMA OrderStep == ASSUME TypeOK, OrderInv, [Next]_vars PROVE OrderInv'
<1> USE NAssumption, SequentialAssumption DEF TypeOK, OrderInv, Spawning, Child, libVars, supVars, tgtVars
<1>1. ASSUME NEW c \in Child, CreatePipes(c) PROVE OrderInv'
  BY <1>1 DEF CreatePipes
<1>2. ASSUME NEW c \in Child, SetCloexec(c) PROVE OrderInv'
  BY <1>2 DEF SetCloexec
<1>3. ASSUME NEW c \in Child, ForkSupervisor(c) PROVE OrderInv'
  BY <1>3 DEF ForkSupervisor
<1>4. ASSUME NEW c \in Child, ForkTarget(c) PROVE OrderInv'
  BY <1>4 DEF ForkTarget
<1>21. ASSUME NEW c \in Child, SupervisorReports(c) PROVE OrderInv'
  BY <1>21 DEF SupervisorReports
<1>22. ASSUME NEW c \in Child, SupervisorBreaks(c) PROVE OrderInv'
  BY <1>22 DEF SupervisorBreaks
<1>5. ASSUME NEW c \in Child, Exec(c) PROVE OrderInv'
  BY <1>5 DEF Exec
<1>6. ASSUME NEW c \in Child, CloseChildEnds(c) PROVE OrderInv'
  BY <1>6 DEF CloseChildEnds
<1>14. ASSUME NEW c \in Child, ReadSpawnOk(c) PROVE OrderInv'
  BY <1>14 DEF ReadSpawnOk
<1>7. ASSUME NEW c \in Child, CloseStdin(c) PROVE OrderInv'
  BY <1>7 DEF CloseStdin
<1>8. ASSUME NEW c \in Child, TargetEnds(c) PROVE OrderInv'
  BY <1>8 DEF TargetEnds
<1>9. ASSUME NEW c \in Child, SupervisorStops(c) PROVE OrderInv'
  BY <1>9 DEF SupervisorStops, MayStop
<1>10. ASSUME NEW c \in Child, WaitReturns(c) PROVE OrderInv'
  BY <1>10 DEF WaitReturns, MayReturn
<1>11. ASSUME NEW c \in Child, Detach(c) PROVE OrderInv'
  BY <1>11 DEF Detach
<1>12. CASE LibraryDies
  BY <1>12 DEF LibraryDies
<1>13. CASE UNCHANGED vars
  BY <1>13 DEF vars
<1> QED
  BY <1>1, <1>2, <1>3, <1>4, <1>5, <1>6, <1>7, <1>8, <1>9, <1>10, <1>11, <1>12, <1>13, <1>14, <1>21, <1>22 DEF Next

(* The library closes what it must. *)
LEMMA LibraryStep == ASSUME TypeOK, LibraryInv, [Next]_vars PROVE LibraryInv'
<1> USE NAssumption, SequentialAssumption DEF TypeOK, LibraryInv, Spawning, Of, Fd, End, LibraryEnds,
        SupervisorEnds, ProbeEnds, ParentStdio, ChildStdio, libVars, supVars, tgtVars
<1>1. ASSUME NEW c \in Child, CreatePipes(c) PROVE LibraryInv'
  <2>1. /\ spawn' = [spawn EXCEPT ![c] = "pipes"]
        /\ libFds' = libFds \cup Of(c, End) /\ libBare' = libBare \cup Of(c, End)
    BY <1>1 DEF CreatePipes
  <2>2. spawn'[c] = "pipes" /\ \A d \in Child : d # c => spawn'[d] = spawn[d]
    BY <2>1
  <2>3. \A d \in Child, e \in End : d # c =>
            /\ <<d, e>> \in libFds' => <<d, e>> \in libFds
            /\ <<d, e>> \in libBare' => <<d, e>> \in libBare
    BY <2>1
  <2> QED
    BY <2>2, <2>3
<1>2. ASSUME NEW c \in Child, SetCloexec(c) PROVE LibraryInv'
  BY <1>2 DEF SetCloexec
<1>3. ASSUME NEW c \in Child, ForkSupervisor(c) PROVE LibraryInv'
  BY <1>3 DEF ForkSupervisor
<1>4. ASSUME NEW c \in Child, ForkTarget(c) PROVE LibraryInv'
  BY <1>4 DEF ForkTarget
<1>21. ASSUME NEW c \in Child, SupervisorReports(c) PROVE LibraryInv'
  BY <1>21 DEF SupervisorReports
<1>22. ASSUME NEW c \in Child, SupervisorBreaks(c) PROVE LibraryInv'
  BY <1>22 DEF SupervisorBreaks
<1>5. ASSUME NEW c \in Child, Exec(c) PROVE LibraryInv'
  BY <1>5 DEF Exec
<1>6. ASSUME NEW c \in Child, CloseChildEnds(c) PROVE LibraryInv'
  BY <1>6 DEF CloseChildEnds
<1>14. ASSUME NEW c \in Child, ReadSpawnOk(c) PROVE LibraryInv'
  BY <1>14 DEF ReadSpawnOk
<1>7. ASSUME NEW c \in Child, CloseStdin(c) PROVE LibraryInv'
  BY <1>7 DEF CloseStdin
<1>8. ASSUME NEW c \in Child, TargetEnds(c) PROVE LibraryInv'
  BY <1>8 DEF TargetEnds
<1>9. ASSUME NEW c \in Child, SupervisorStops(c) PROVE LibraryInv'
  BY <1>9 DEF SupervisorStops, MayStop
<1>10. ASSUME NEW c \in Child, WaitReturns(c) PROVE LibraryInv'
  BY <1>10 DEF WaitReturns, MayReturn
<1>11. ASSUME NEW c \in Child, Detach(c) PROVE LibraryInv'
  BY <1>11, ZenonT(60) DEF Detach
<1>12. CASE LibraryDies
  BY <1>12 DEF LibraryDies
<1>13. CASE UNCHANGED vars
  BY <1>13 DEF vars
<1> QED
  BY <1>1, <1>2, <1>3, <1>4, <1>5, <1>6, <1>7, <1>8, <1>9, <1>10, <1>11, <1>12, <1>13, <1>14, <1>21, <1>22 DEF Next

(* What is inherited points back, and execve leaves only the stdio. *)
LEMMA InheritedStep == ASSUME TypeOK, OrderInv, LibraryInv, InheritedInv, [Next]_vars PROVE InheritedInv'
<1> USE NAssumption, SequentialAssumption DEF TypeOK, OrderInv, LibraryInv, InheritedInv, Spawning, Of, Fd, Child,
        libVars, supVars, tgtVars
<1>1. ASSUME NEW c \in Child, CreatePipes(c) PROVE InheritedInv'
  BY <1>1 DEF CreatePipes
<1>2. ASSUME NEW c \in Child, SetCloexec(c) PROVE InheritedInv'
  BY <1>2 DEF SetCloexec
<1>3. ASSUME NEW c \in Child, ForkSupervisor(c) PROVE InheritedInv'
  BY <1>3 DEF ForkSupervisor
<1>4. ASSUME NEW c \in Child, ForkTarget(c) PROVE InheritedInv'
  BY <1>4 DEF ForkTarget
<1>21. ASSUME NEW c \in Child, SupervisorReports(c) PROVE InheritedInv'
  BY <1>21 DEF SupervisorReports
<1>22. ASSUME NEW c \in Child, SupervisorBreaks(c) PROVE InheritedInv'
  BY <1>22 DEF SupervisorBreaks
<1>5. ASSUME NEW c \in Child, Exec(c) PROVE InheritedInv'
  BY <1>5 DEF Exec
<1>6. ASSUME NEW c \in Child, CloseChildEnds(c) PROVE InheritedInv'
  BY <1>6 DEF CloseChildEnds
<1>14. ASSUME NEW c \in Child, ReadSpawnOk(c) PROVE InheritedInv'
  BY <1>14 DEF ReadSpawnOk
<1>7. ASSUME NEW c \in Child, CloseStdin(c) PROVE InheritedInv'
  BY <1>7 DEF CloseStdin
<1>8. ASSUME NEW c \in Child, TargetEnds(c) PROVE InheritedInv'
  BY <1>8 DEF TargetEnds
<1>9. ASSUME NEW c \in Child, SupervisorStops(c) PROVE InheritedInv'
  BY <1>9 DEF SupervisorStops, MayStop
<1>10. ASSUME NEW c \in Child, WaitReturns(c) PROVE InheritedInv'
  BY <1>10 DEF WaitReturns, MayReturn
<1>11. ASSUME NEW c \in Child, Detach(c) PROVE InheritedInv'
  BY <1>11 DEF Detach
<1>12. CASE LibraryDies
  BY <1>12 DEF LibraryDies
<1>13. CASE UNCHANGED vars
  BY <1>13 DEF vars
<1> QED
  BY <1>1, <1>2, <1>3, <1>4, <1>5, <1>6, <1>7, <1>8, <1>9, <1>10, <1>11, <1>12, <1>13, <1>14, <1>21, <1>22 DEF Next

-----------------------------------------------------------------------------
LEMMA InitIInv == Init => IInv
BY SequentialAssumption DEF Init, IInv, TypeOK, OrderInv, LibraryInv, InheritedInv, Spawning

LEMMA StepIInv == IInv /\ [Next]_vars => IInv'
BY TypeStep, OrderStep, LibraryStep, InheritedStep DEF IInv

(* The inductive invariant holds in every reachable state. *)
THEOREM Invariance == Spec => []IInv
BY InitIInv, StepIInv, PTL DEF Spec

(* Every variable keeps its type. *)
THEOREM TypeCorrect == Spec => []TypeOK
<1>1. IInv => TypeOK
  BY DEF IInv
<1> QED
  BY Invariance, <1>1, PTL

(* Whatever a supervisor holds of another child points back in time. *)
THEOREM LeaksAreOrdered == Spec => []LeaksPointBack
<1>1. IInv => LeaksPointBack
  BY DEF IInv, InheritedInv, LeaksPointBack
<1> QED
  BY Invariance, <1>1, PTL

(* A running target holds its own stdio and nothing else of the library's. *)
THEOREM TargetsStayClean == Spec => []TargetsAreClean
<1>1. IInv => TargetsAreClean
  BY DEF IInv, InheritedInv, TargetsAreClean
<1> QED
  BY Invariance, <1>1, PTL

(* The library keeps no descriptor of a child it has no handle for. *)
THEOREM DescriptorsAreClosed == Spec => []NoDescriptorLeaks
<1>1. IInv => NoDescriptorLeaks
  BY DEF IInv, LibraryInv, NoDescriptorLeaks, Of, Spawning
<1> QED
  BY Invariance, <1>1, PTL
-----------------------------------------------------------------------------
(* Nobody waits for ever: what the two liveness properties need of every   *)
(* reachable state.                                                        *)

(* Who is there, and what goes with a process that is not.                 *)
ProcessInv ==
    /\ ~alive => libFds = {}
    /\ \A c \in Child :
         /\ spawn[c] \in {"none", "pipes", "cloexec"} <=> sup[c] = "none"
         /\ sup[c] \in {"none", "started"} <=> tgt[c] = "none"
         /\ sup[c] \in {"none", "gone"} => supFds[c] = {}
         /\ tgt[c] \in {"none", "dead"} => tgtFds[c] = {}
         /\ sup[c] \in {"watching", "gone"} => tgt[c] \in {"running", "dead"}
         /\ spawn[c] \in {"up", "closed", "detached"} => sup[c] \in {"watching", "gone"}
         /\ sup[c] = "gone" /\ spawn[c] # "detached" /\ (alive \/ spawn[c] = "up") => tgt[c] = "dead"

(* Who holds the ends that the report of a spawn goes through.             *)
ReportInv ==
    \A c \in Child :
        /\ alive /\ spawn[c] \in Spawning => <<c, "info_r">> \in libFds
        /\ alive /\ spawn[c] \in {"pipes", "cloexec"} => <<c, "probe_w">> \in libFds
        /\ sup[c] = "started" => <<c, "probe_w">> \in supFds[c]
        /\ tgt[c] = "forked" => <<c, "probe_w">> \in tgtFds[c]

(* What a supervisor has closed, and what a target that has not exec'd yet *)
(* can hold of the other children.                                         *)
HoldersInv ==
    /\ \A c \in Child, e \in LibraryEnds \cup ParentStdio \cup ChildStdio \cup {"probe_w"} :
           sup[c] \in {"probing", "watching"} => <<c, e>> \notin supFds[c]
    /\ Sequential => \A c, d \in Child, e \in End :
           <<d, e>> \in tgtFds[c] /\ d # c => e \in LibraryEnds \cup ParentStdio

(* A process that has something to do: the supervisor is about to fork the *)
(* target, the target is about to exec, the supervisor reads the probe's   *)
(* EOF, or it sees the end.                                                *)
ProbeDone(d) == sup[d] = "probing" /\ Eof(d, "probe_w")
MayMove(d)   == sup[d] = "started" \/ tgt[d] = "forked" \/ ProbeDone(d) \/ MayStop(d)

(* When the library is dead and one of its children is not, some process   *)
(* of that many can still move.                                            *)
OrphansAreWatched ==
    Sequential => \A c \in Child :
        ~alive /\ spawn[c] = "up" /\ tgt[c] # "dead" => \E d \in Child : MayMove(d)

(* When a child has ended, its supervisor may stop, or the wait return; and *)
(* when a spawn waits for message 1, somebody is about to bring it.         *)
CallsAreServed ==
    Sequential => \A c \in Child :
        /\ alive /\ spawn[c] = "up" /\ tgt[c] = "dead" => MayStop(c) \/ MayReturn(c)
        /\ alive /\ spawn[c] = "reading" =>
               \/ sup[c] = "started" \/ tgt[c] = "forked"
               \/ ProbeDone(c) /\ ~Eof(c, "info_r")
               \/ sup[c] \in {"watching", "gone"}

(* Who is there stays consistent. *)
LEMMA ProcessStep == ASSUME TypeOK, LibraryInv, ProcessInv, ReportInv, [Next]_vars PROVE ProcessInv'
<1> USE NAssumption, SequentialAssumption DEF TypeOK, ProcessInv, Spawning,
        libVars, supVars, tgtVars
<1>1. ASSUME NEW c \in Child, CreatePipes(c) PROVE ProcessInv'
  BY <1>1 DEF CreatePipes
<1>2. ASSUME NEW c \in Child, SetCloexec(c) PROVE ProcessInv'
  BY <1>2 DEF SetCloexec
<1>3. ASSUME NEW c \in Child, ForkSupervisor(c) PROVE ProcessInv'
  BY <1>3 DEF ForkSupervisor
<1>4. ASSUME NEW c \in Child, ForkTarget(c) PROVE ProcessInv'
  BY <1>4 DEF ForkTarget
<1>21. ASSUME NEW c \in Child, SupervisorReports(c) PROVE ProcessInv'
  <2>1. tgt[c] \in {"running", "dead"}
    BY <1>21 DEF SupervisorReports, Eof, ReportInv
  <2> QED
    BY <1>21, <2>1 DEF SupervisorReports
<1>22. ASSUME NEW c \in Child, SupervisorBreaks(c) PROVE ProcessInv'
  <2>1. tgt[c] \in {"running", "dead"}
    BY <1>22 DEF SupervisorBreaks, Eof, ReportInv
  <2>2. spawn[c] # "up" /\ (alive => spawn[c] = "detached")
    <3>1. alive => spawn[c] \notin Spawning
      BY <1>22 DEF SupervisorBreaks, Eof, ReportInv
    <3>2. spawn[c] \notin {"none", "pipes", "cloexec", "up"} /\ (alive => spawn[c] # "closed")
      BY <1>22 DEF SupervisorBreaks
    <3> QED
      BY <3>1, <3>2
  <2> QED
    BY <1>22, <2>1, <2>2 DEF SupervisorBreaks
<1>5. ASSUME NEW c \in Child, Exec(c) PROVE ProcessInv'
  BY <1>5 DEF Exec
<1>6. ASSUME NEW c \in Child, CloseChildEnds(c) PROVE ProcessInv'
  BY <1>6 DEF CloseChildEnds
<1>7. ASSUME NEW c \in Child, ReadSpawnOk(c) PROVE ProcessInv'
  BY <1>7 DEF ReadSpawnOk
<1>8. ASSUME NEW c \in Child, CloseStdin(c) PROVE ProcessInv'
  BY <1>8 DEF CloseStdin
<1>9. ASSUME NEW c \in Child, TargetEnds(c) PROVE ProcessInv'
  BY <1>9 DEF TargetEnds
<1>10. ASSUME NEW c \in Child, SupervisorStops(c) PROVE ProcessInv'
  BY <1>10 DEF SupervisorStops, MayStop
<1>11. ASSUME NEW c \in Child, WaitReturns(c) PROVE ProcessInv'
  BY <1>11 DEF WaitReturns, MayReturn
<1>12. ASSUME NEW c \in Child, Detach(c) PROVE ProcessInv'
  BY <1>12 DEF Detach
<1>13. CASE LibraryDies
  BY <1>13 DEF LibraryDies
<1>14. CASE UNCHANGED vars
  BY <1>14 DEF vars
<1> QED
  BY <1>1, <1>2, <1>3, <1>4, <1>5, <1>6, <1>7, <1>8, <1>9, <1>10, <1>11, <1>12, <1>13, <1>14, <1>21, <1>22 DEF Next

(* The ends the report goes through stay open until it is made. *)
LEMMA ReportStep == ASSUME TypeOK, ProcessInv, ReportInv, [Next]_vars PROVE ReportInv'
<1> USE NAssumption, SequentialAssumption DEF TypeOK, ProcessInv, ReportInv, Spawning, Of, End,
        LibraryEnds, SupervisorEnds, ProbeEnds, ParentStdio, ChildStdio, libVars, supVars, tgtVars
<1>1. ASSUME NEW c \in Child, CreatePipes(c) PROVE ReportInv'
  BY <1>1 DEF CreatePipes
<1>2. ASSUME NEW c \in Child, SetCloexec(c) PROVE ReportInv'
  BY <1>2 DEF SetCloexec
<1>3. ASSUME NEW c \in Child, ForkSupervisor(c) PROVE ReportInv'
  BY <1>3 DEF ForkSupervisor
<1>4. ASSUME NEW c \in Child, ForkTarget(c) PROVE ReportInv'
  BY <1>4 DEF ForkTarget
<1>5. ASSUME NEW c \in Child, Exec(c) PROVE ReportInv'
  BY <1>5 DEF Exec
<1>6. ASSUME NEW c \in Child, SupervisorReports(c) PROVE ReportInv'
  BY <1>6 DEF SupervisorReports
<1>7. ASSUME NEW c \in Child, SupervisorBreaks(c) PROVE ReportInv'
  BY <1>7, ZenonT(60) DEF SupervisorBreaks
<1>8. ASSUME NEW c \in Child, CloseChildEnds(c) PROVE ReportInv'
  BY <1>8, ZenonT(60) DEF CloseChildEnds
<1>9. ASSUME NEW c \in Child, ReadSpawnOk(c) PROVE ReportInv'
  BY <1>9 DEF ReadSpawnOk
<1>10. ASSUME NEW c \in Child, CloseStdin(c) PROVE ReportInv'
  BY <1>10 DEF CloseStdin
<1>11. ASSUME NEW c \in Child, TargetEnds(c) PROVE ReportInv'
  BY <1>11 DEF TargetEnds
<1>12. ASSUME NEW c \in Child, SupervisorStops(c) PROVE ReportInv'
  BY <1>12 DEF SupervisorStops, MayStop
<1>13. ASSUME NEW c \in Child, WaitReturns(c) PROVE ReportInv'
  BY <1>13, ZenonT(60) DEF WaitReturns, MayReturn
<1>14. ASSUME NEW c \in Child, Detach(c) PROVE ReportInv'
  BY <1>14, ZenonT(60) DEF Detach
<1>15. CASE LibraryDies
  BY <1>15 DEF LibraryDies
<1>16. CASE UNCHANGED vars
  BY <1>16 DEF vars
<1> QED
  BY <1>1, <1>2, <1>3, <1>4, <1>5, <1>6, <1>7, <1>8, <1>9, <1>10, <1>11, <1>12, <1>13, <1>14, <1>15, <1>16 DEF Next

(* What is closed stays closed. *)
LEMMA HoldersStep == ASSUME TypeOK, LibraryInv, InheritedInv, ProcessInv, HoldersInv, [Next]_vars PROVE HoldersInv'
<1> USE NAssumption, SequentialAssumption DEF TypeOK, InheritedInv, ProcessInv, HoldersInv, Of, End,
        LibraryEnds, SupervisorEnds, ProbeEnds, ParentStdio, ChildStdio, libVars, supVars, tgtVars
<1>1. ASSUME NEW c \in Child, CreatePipes(c) PROVE HoldersInv'
  BY <1>1 DEF CreatePipes
<1>2. ASSUME NEW c \in Child, SetCloexec(c) PROVE HoldersInv'
  BY <1>2 DEF SetCloexec
<1>3. ASSUME NEW c \in Child, ForkSupervisor(c) PROVE HoldersInv'
  BY <1>3, ZenonT(60) DEF ForkSupervisor
<1>4. ASSUME NEW c \in Child, ForkTarget(c) PROVE HoldersInv'
  BY <1>4, ZenonT(60) DEF ForkTarget
<1>21. ASSUME NEW c \in Child, SupervisorReports(c) PROVE HoldersInv'
  BY <1>21, ZenonT(60) DEF SupervisorReports
<1>22. ASSUME NEW c \in Child, SupervisorBreaks(c) PROVE HoldersInv'
  <2>1. /\ sup' = [sup EXCEPT ![c] = "gone"] /\ supFds' = [supFds EXCEPT ![c] = {}]
        /\ tgtFds' \in {tgtFds, [tgtFds EXCEPT ![c] = {}]}
    BY <1>22 DEF SupervisorBreaks
  <2>2. \A d \in Child : /\ supFds'[d] \subseteq supFds[d] /\ tgtFds'[d] \subseteq tgtFds[d]
                         /\ sup'[d] \in {sup[d], "gone"}
    BY <2>1
  <2> QED
    BY <2>2, ZenonT(120)
<1>5. ASSUME NEW c \in Child, Exec(c) PROVE HoldersInv'
  BY <1>5, ZenonT(60) DEF Exec
<1>6. ASSUME NEW c \in Child, CloseChildEnds(c) PROVE HoldersInv'
  BY <1>6 DEF CloseChildEnds
<1>7. ASSUME NEW c \in Child, ReadSpawnOk(c) PROVE HoldersInv'
  BY <1>7 DEF ReadSpawnOk
<1>8. ASSUME NEW c \in Child, CloseStdin(c) PROVE HoldersInv'
  BY <1>8 DEF CloseStdin
<1>9. ASSUME NEW c \in Child, TargetEnds(c) PROVE HoldersInv'
  BY <1>9, ZenonT(60) DEF TargetEnds
<1>10. ASSUME NEW c \in Child, SupervisorStops(c) PROVE HoldersInv'
  BY <1>10, ZenonT(60) DEF SupervisorStops, MayStop
<1>11. ASSUME NEW c \in Child, WaitReturns(c) PROVE HoldersInv'
  BY <1>11 DEF WaitReturns, MayReturn
<1>12. ASSUME NEW c \in Child, Detach(c) PROVE HoldersInv'
  BY <1>12, ZenonT(60) DEF Detach
<1>13. CASE LibraryDies
  BY <1>13 DEF LibraryDies
<1>14. CASE UNCHANGED vars
  BY <1>14 DEF vars
<1> QED
  BY <1>1, <1>2, <1>3, <1>4, <1>5, <1>6, <1>7, <1>8, <1>9, <1>10, <1>11, <1>12, <1>13, <1>14, <1>21, <1>22 DEF Next

(* A set of children that is not empty has a last one: no descent for ever *)
(* among the distances from N.                                             *)
LEMMA LastChild ==
    ASSUME NEW S \in SUBSET Child, S # {}
    PROVE  \E d \in S : \A x \in S : x <= d
<1> USE NAssumption DEF Child
<1> DEFINE R == {ss \in Nat \X Nat : ss[1] < ss[2]}
           U == {n \in Nat : N - n \in S}
<1>1. U \subseteq Nat /\ U # {}
  <2>1. PICK x \in S : TRUE
    OBVIOUS
  <2>2. N - x \in Nat /\ N - (N - x) = x
    OBVIOUS
  <2> QED BY <2>1, <2>2
<1>2. IsWellFoundedOn(R, Nat)
  BY NatLessThanWellFounded DEF OpToRel
<1>3. PICK n \in U : \A y \in U : ~(<<y, n>> \in R)
  <2> HIDE DEF R, U
  <2> QED BY <1>1, <1>2, WFMin
<1>4. N - n \in S
  BY <1>3
<1>5. ASSUME NEW x \in S PROVE x <= N - n
  <2>1. x \in Int /\ n \in Nat /\ N - x \in Nat /\ N - (N - x) = x
    BY <1>3
  <2>2. N - x \in U
    BY <2>1
  <2>3. ~(N - x < n)
    BY <1>3, <2>1, <2>2
  <2> QED BY <2>1, <2>3
<1> QED BY <1>4, <1>5

(* A target that has exec'd holds nothing but its stdio: an end that is    *)
(* neither stdio, nor the library's, nor a supervisor's, is closed.        *)
LEMMA ClosedEnd ==
    ASSUME IInv, ProcessInv, Sequential, NEW d \in Child, NEW e \in End \ ChildStdio,
           <<d, e>> \notin libFds, \A x \in Child : <<d, e>> \notin supFds[x],
           \A x \in Child : tgt[x] = "forked" => <<d, e>> \notin tgtFds[x]
    PROVE  Eof(d, e)
<1>1. ASSUME NEW x \in Child PROVE <<d, e>> \notin tgtFds[x]
  <2>1. CASE tgt[x] = "running"
    BY <2>1 DEF IInv, InheritedInv, Of
  <2>2. CASE tgt[x] # "running"
    BY <2>2 DEF IInv, TypeOK, ProcessInv
  <2> QED BY <2>1, <2>2
<1> QED BY <1>1 DEF Eof

(* Nobody else holds the write end of a child's exec probe.                *)
LEMMA ProbeIsNotHeld ==
    ASSUME IInv, ProcessInv, HoldersInv, Sequential, NEW d \in Child, sup[d] = "probing",
           tgt[d] # "forked", ~alive \/ spawn[d] = "reading"
    PROVE  ProbeDone(d)
<1>0. "probe_w" \in End \ (ChildStdio \cup LibraryEnds \cup ParentStdio)
  BY DEF End, LibraryEnds, ProbeEnds, ParentStdio, ChildStdio
<1>1. <<d, "probe_w">> \notin libFds
  BY <1>0 DEF ProcessInv, IInv, LibraryInv
<1>2. ASSUME NEW x \in Child PROVE <<d, "probe_w">> \notin supFds[x]
  BY <1>0 DEF HoldersInv, IInv, InheritedInv
<1>3. ASSUME NEW x \in Child, tgt[x] = "forked" PROVE <<d, "probe_w">> \notin tgtFds[x]
  BY <1>0, <1>3 DEF HoldersInv
<1>4. Eof(d, "probe_w")
  BY <1>0, <1>1, <1>2, <1>3, ClosedEnd
<1> QED BY <1>4 DEF ProbeDone

(* With the library dead, whoever is spawned last sees its end.            *)
LEMMA LastIsNotHeld ==
    ASSUME IInv, ProcessInv, HoldersInv, Sequential, ~alive, NEW d \in Child, sup[d] = "watching",
           \A x \in Child : sup[x] = "watching" => x <= d,
           \A x \in Child : sup[x] \notin {"started", "probing"} /\ tgt[x] # "forked"
    PROVE  Eof(d, "lifecycle_w")
<1>0. "lifecycle_w" \in LibraryEnds /\ "lifecycle_w" \in End \ ChildStdio
  BY DEF End, LibraryEnds, ChildStdio
<1>1. <<d, "lifecycle_w">> \notin libFds
  BY DEF ProcessInv
<1>2. ASSUME NEW x \in Child PROVE <<d, "lifecycle_w">> \notin supFds[x]
  <2>1. CASE x = d
    BY <1>0, <2>1 DEF HoldersInv
  <2>2. CASE x # d /\ sup[x] = "watching"
    <3>1. x <= d
      BY <2>2
    <3>2. <<d, "lifecycle_w">> \in supFds[x] => d < x
      BY <1>0, <2>2 DEF IInv, InheritedInv
    <3> QED BY <3>1, <3>2, NAssumption DEF Child
  <2>3. CASE sup[x] # "watching"
    BY <2>3 DEF IInv, TypeOK, ProcessInv
  <2> QED BY <2>1, <2>2, <2>3
<1> QED BY <1>0, <1>1, <1>2, ClosedEnd

(* An orphan's supervisor is never stuck behind another.                   *)
LEMMA OrphansMove == IInv /\ ProcessInv /\ HoldersInv => OrphansAreWatched
<1> SUFFICES ASSUME IInv, ProcessInv, HoldersInv, Sequential, NEW c \in Child,
                    ~alive, spawn[c] = "up", tgt[c] # "dead",
                    \A x \in Child : sup[x] # "started" /\ tgt[x] # "forked" /\ ~ProbeDone(x)
             PROVE  \E d \in Child : MayMove(d)
  BY DEF OrphansAreWatched, MayMove
<1> DEFINE S == {x \in Child : sup[x] = "watching"}
<1>0. \A x \in Child : sup[x] # "probing"
  BY ProbeIsNotHeld
<1>1. c \in S
  BY DEF IInv, TypeOK, ProcessInv
<1>2. PICK d \in S : \A x \in S : x <= d
  <2> HIDE DEF S
  <2>1. S \subseteq Child /\ S # {}
    BY <1>1 DEF S
  <2> QED BY <2>1, LastChild
<1>3. d \in Child /\ sup[d] = "watching" /\ \A x \in Child : sup[x] = "watching" => x <= d
  BY <1>2
<1>4. Eof(d, "lifecycle_w")
  BY <1>0, <1>3, LastIsNotHeld
<1>5. tgt[d] \in {"running", "dead"}
  BY <1>3 DEF IInv, TypeOK, ProcessInv
<1>6. MayMove(d)
  BY <1>3, <1>4, <1>5 DEF MayMove, MayStop
<1> QED BY <1>3, <1>6

(* When the child has ended nobody holds its output but its supervisor.    *)
LEMMA WaitMoves ==
    ASSUME IInv, ProcessInv, HoldersInv, Sequential, NEW c \in Child,
           alive, spawn[c] = "up", tgt[c] = "dead", sup[c] # "watching"
    PROVE  MayReturn(c)
<1>1. sup[c] = "gone"
  BY DEF IInv, TypeOK, ProcessInv
<1>0. "stdout_w" \in End /\ "stdout_w" \notin LibraryEnds \cup ParentStdio
  BY DEF End, LibraryEnds, ParentStdio, ChildStdio
<1>2. <<c, "stdout_w">> \notin libFds
  BY <1>0 DEF IInv, LibraryInv
<1>3. ASSUME NEW x \in Child PROVE <<c, "stdout_w">> \notin supFds[x]
  <2>1. CASE x = c
    BY <1>1, <2>1 DEF ProcessInv
  <2>2. CASE x # c
    BY <1>0, <2>2 DEF IInv, InheritedInv
  <2> QED BY <2>1, <2>2
<1>4. ASSUME NEW x \in Child PROVE <<c, "stdout_w">> \notin tgtFds[x]
  <2>1. CASE x = c
    BY <2>1 DEF ProcessInv
  <2>2. CASE x # c
    BY <1>0, <2>2 DEF HoldersInv
  <2> QED BY <2>1, <2>2
<1> QED BY <1>1, <1>2, <1>3, <1>4 DEF MayReturn, Eof

(* A spawn that waits for message 1 has a supervisor to bring it.          *)
LEMMA CallsMove == IInv /\ ProcessInv /\ ReportInv /\ HoldersInv => CallsAreServed
<1> SUFFICES ASSUME IInv, ProcessInv, ReportInv, HoldersInv, Sequential, NEW c \in Child,
                    alive, spawn[c] = "reading", sup[c] \notin {"started", "watching", "gone"},
                    tgt[c] # "forked"
             PROVE  ProbeDone(c) /\ ~Eof(c, "info_r")
  BY WaitMoves DEF CallsAreServed, MayStop
<1>1. sup[c] = "probing"
  BY DEF IInv, TypeOK, ReportInv, ProcessInv
<1>2. ~Eof(c, "info_r")
  BY DEF ReportInv, Spawning, Eof
<1> QED BY <1>1, <1>2, ProbeIsNotHeld

(* The invariants hold in every reachable state.                           *)
LEMMA HoldersInvariance == Spec => [](IInv /\ ProcessInv /\ ReportInv /\ HoldersInv)
<1>1. Init => ProcessInv /\ ReportInv /\ HoldersInv
  BY DEF Init, ProcessInv, ReportInv, HoldersInv, Spawning
<1>2. IInv /\ ProcessInv /\ ReportInv /\ HoldersInv /\ [Next]_vars
          => (ProcessInv /\ ReportInv /\ HoldersInv)'
  BY ProcessStep, ReportStep, HoldersStep DEF IInv
<1> QED BY <1>1, <1>2, InitIInv, StepIInv, PTL DEF Spec

(* "No orphans": however many children a program with one spawning thread  *)
(* has, when it dies no supervisor waits for a lifecycle EOF that only     *)
(* another waiting supervisor could give.                                  *)
THEOREM OrphansNeverDeadlock == Spec => []OrphansAreWatched
BY HoldersInvariance, OrphansMove, PTL

(* Neither a wait for a child that has ended nor a spawn that waits for    *)
(* message 1 is ever held up by a descriptor that another child's          *)
(* processes inherited.                                                    *)
THEOREM CallsNeverDeadlock == Spec => []CallsAreServed
BY HoldersInvariance, CallsMove, PTL
=============================================================================
