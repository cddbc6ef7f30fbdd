-------------------------- MODULE WinProcessProofs --------------------------
(* Proofs about WinProcess, for any exit codes, modes and faults. *)
EXTENDS WinProcess, TLAPS

coreVars == <<mode, libVars, route, job, members, worldVars>>

(* How far the spawn is, and what exists then. *)
StageInv ==
    /\ lib \in {"stdin", "stdout", "stderr", "job", "create", "failed"} =>
           life["child"] = "none"
    /\ lib \in {"stdin", "stdout", "stderr", "job"} => job = "none"
    /\ lib \notin {"stdin", "stdout", "stderr", "job", "create", "failed", "dead"} =>
           life["child"] # "none"
    /\ lib \in Spawning \cup {"failed"} => op = "spawn" /\ told = {}
    /\ life["child"] = "none" => life["kid"] = "none" /\ members = {} /\ told = {}
    /\ lib = "assign" => members = {}
    /\ \A p \in members : life[p] # "none"

(* When the job is there, and when it no longer kills: after detach(). *)
JobInv ==
    /\ job = "none" => members = {}
    /\ job = "plain" => op = "detach"
    /\ op = "detach" => lib \in {"lock", "release", "cancel", "detachJoin", "closing", "gone", "dead"}
    /\ lib \in {"lock", "release", "cancel", "detachJoin"} => op = "detach"
    /\ lib \in {"cancel", "detachJoin"} \/ (lib \in {"closing", "gone"} /\ op = "detach") =>
           job # "kill"

(* What is reported is the exit code of a child that has ended. *)
ReportInv ==
    /\ told # {} => life["child"] = "dead" /\ told = {AsInt(code)}
    /\ lib = "joinReaders" /\ op # "timeout" => life["child"] = "dead"

(* What is open at most at each stage, and who is to close stdin's end.    *)
HandleInv ==
    /\ lib = "stdin" \/ lib \in Over => handles = {}
    /\ lib = "stdout" => handles \subseteq {"stdin_r", "stdin_w"}
    /\ lib = "stderr" => handles \subseteq {"stdin_r", "stdin_w", "out_r", "out_w"}
    /\ lib = "job" => handles \subseteq {"stdin_r", "stdin_w", "out_r", "out_w", "err_r", "err_w"}
    /\ lib = "create" => handles \subseteq {"stdin_r", "stdin_w", "out_r", "out_w", "err_r", "err_w",
                                            "nul_r", "nul_w", "job"}
    /\ lib = "assign" => handles \subseteq {"stdin_w", "out_r", "err_r", "job", "process", "thread"}
    /\ lib \notin Spawning \ {"threads"} =>
           handles \subseteq {"stdin_w", "out_r", "err_r", "job", "process"}
    /\ "stdin_w" \in handles =>
           /\ mode.stdin \in {"pipe", "content"}
           /\ lib \in Spawning \/ mode.stdin = "pipe" \/ feeder = "writing"

(* A pipe that is read, or the one that a merged stream shares unread.     *)
Fed(p) == mode[p] = "capture" \/ (mode.merge /\ mode[p] = "discard")

(* An output goes to no other pipe. *)
RouteInv ==
    /\ "out_w" \in handles => mode.out # "inherit"
    /\ "err_w" \in handles /\ "out_w" \notin handles => mode.err # "inherit"
    /\ \A s \in Stream : route[s] \in Stream => Fed(route[s])
    /\ stuck # "no" => Fed(stuck)

Serving == {"starting", "between", "inside", "writing"}

(* A captured pipe has its reader as long as the child can write to it.    *)
ReaderInv ==
    lib \notin Spawning /\ life["child"] = "live" =>
        \A s \in Stream : mode[s] = "capture" /\ ReadEnd[s] \in handles => reader[s] \in Serving

IInv == TypeOK /\ StageInv /\ JobInv /\ ReportInv /\ HandleInv /\ RouteInv /\ ReaderInv /\ TreeDies

-----------------------------------------------------------------------------
(* What a termination does, whomever it is meant for: it ends processes    *)
(* that live, those it is meant for at least, and the child's exit code is *)
(* settled when it ends.                                                   *)
LEMMA EndFacts ==
    ASSUME TypeOK, NEW victims, End(victims)
    PROVE  /\ life' \in [Process -> {"none", "live", "dead"}]
           /\ code' \in 0..2*Half-1 /\ by' \in {"nobody", "us", "other"}
           /\ \A p \in Process : IF p \in victims /\ life[p] = "live" THEN life'[p] = "dead"
                                                                     ELSE life'[p] = life[p]
           /\ life["child"] # "live" \/ "child" \notin victims => UNCHANGED <<code, by>>
  BY HalfAssumption DEF TypeOK, End, Process, STILL_ACTIVE

(* The conversion of an exit code stays in int's range. *)
LEMMA AsIntType == ASSUME TypeOK PROVE AsInt(code) \in -Half..Half-1
  BY HalfAssumption DEF TypeOK, AsInt

(* The steps of the threads, and of a child that fills a pipe, which do    *)
(* not touch processes, job or calls; stuttering is among them.            *)
Aside ==
    /\ UNCHANGED coreVars
    /\ \/ UNCHANGED <<handles, feeder>>
       \/ feeder = "writing" /\ feeder' = "done" /\ handles' = handles \ {"stdin_w"}
    /\ reader' \in [Stream -> Serving \cup {"none", "stray", "done"}]
    /\ writer' \in Stream \cup {"caller", "nobody"}
    /\ \A s \in Stream : life["child"] = "live" /\ ReadEnd[s] \in handles /\ reader[s] \in Serving
                           => reader'[s] \in Serving
    /\ \/ stuck' \in {stuck, "no"}
       \/ \E s \in Stream : route[s] \in Stream /\ stuck' = route[s]

(* Every step is one of these. *)
LEMMA Steps ==
    ASSUME TypeOK, [Next]_vars
    PROVE  \/ MakeStdin \/ MakeStdout \/ MakeStderr \/ MakeJob \/ CreateProcess \/ AssignToJob
           \/ StartThreads \/ CallWait \/ CallKill \/ CallSignal \/ CallMoveAssign \/ CallDetach
           \/ JoinFeeder \/ ProcessSignalled \/ WaitTimesOut \/ Answer \/ Close \/ DetachCloses
           \/ Release \/ CancelReaders \/ DetachJoins \/ LibraryDies \/ ChildStartsKid
           \/ ChildExits \/ KidExits \/ Aside
<1> USE DEF TypeOK, Aside, coreVars, libVars, worldVars, Serving
<1>1. ASSUME NEW s \in Stream, ReaderStep(s) PROVE Aside
  <2> USE <1>1 DEF ReaderGoes, ReaderFrame
  <2>1. CASE ReaderStarts(s)
    BY <2>1 DEF ReaderStarts
  <2>2. CASE ReaderReads(s)
    BY <2>2 DEF ReaderReads
  <2>3. CASE ReaderReturns(s)
    BY <2>3 DEF ReaderReturns, StreamsFree, Process
  <2>4. CASE CallbackLocks(s)
    BY <2>4 DEF CallbackLocks
  <2> QED
    BY <1>1, <2>1, <2>2, <2>3, <2>4 DEF ReaderStep
<1>2. CASE FeederWritten \/ FeederBroken
  BY <1>2 DEF FeederWritten, FeederBroken, FeederEnds
<1>3. CASE ChildFillsPipe
  BY <1>3 DEF ChildFillsPipe, OutsideFrame, threadVars
<1>4. CASE UNCHANGED vars
  BY <1>4 DEF vars, threadVars
<1>5. CASE CallerWrites
  BY <1>5 DEF CallerWrites, ReaderFrame
<1>6. CASE WriteEnds
  BY <1>6 DEF WriteEnds, ReaderFrame
<1> QED
  BY <1>1, <1>2, <1>3, <1>4, <1>5, <1>6 DEF Next, SpawnStep, Call, CallStep, Finished

(* What is written to STARTUPINFO is a place of the model. *)
LEMMA RouteTypes ==
    ASSUME mode \in AllModes
    PROVE  /\ StdOutput \in Stream \cup {"nul", "parent", "nowhere"}
           /\ StdError \in Stream \cup {"nul", "parent", "nowhere"}
<1>1. /\ mode.out \in {"capture", "discard", "inherit"} /\ mode.err \in {"capture", "discard", "inherit"}
      /\ mode.merge \in BOOLEAN
  BY DEF AllModes
<1>2. StdOutput \in Stream \cup {"nul", "parent", "nowhere"}
  BY <1>1 DEF StdOutput, Stream
<1>3. StdError \in Stream \cup {"nul", "parent", "nowhere"}
  BY <1>1 DEF StdError, Stream
<1> QED
  BY <1>2, <1>3

(* The stages of the spawn move on, with some of the handles there are. *)
LEMMA SpawnTypes ==
    ASSUME TypeOK,
           MakeStdin \/ MakeStdout \/ MakeStderr \/ MakeJob \/ CreateProcess \/ AssignToJob
    PROVE  /\ lib' \in Spawning \cup Over
           /\ handles' \in SUBSET (ForChild \cup {"stdin_w", "out_r", "err_r", "job", "process", "thread"})
           /\ job' \in {"none", "kill", "plain"}
<1> USE DEF TypeOK, Spawning, Over, ForChild, Make
<1>1. lib' \in Spawning \cup Over
  BY DEF MakeStdin, MakeStdout, MakeStderr, MakeJob, CreateProcess, AssignToJob
<1>2. handles' \in SUBSET (ForChild \cup {"stdin_w", "out_r", "err_r", "job", "process", "thread"})
  BY ZenonT(60) DEF MakeStdin, MakeStdout, MakeStderr, MakeJob, CreateProcess, AssignToJob
<1>3. job' \in {"none", "kill", "plain"}
  BY DEF MakeStdin, MakeStdout, MakeStderr, MakeJob, CreateProcess, AssignToJob
<1> QED
  BY <1>1, <1>2, <1>3

(* Every step keeps the types. *)
LEMMA TypeStep == ASSUME TypeOK, [Next]_vars PROVE TypeOK'
<1> USE CodesAssumption, HalfAssumption DEF TypeOK, libVars, worldVars, threadVars
<1>1. CASE MakeStdin
  BY <1>1, SpawnTypes DEF MakeStdin, Make, SpawnFrame
<1>2. CASE MakeStdout
  BY <1>2, SpawnTypes DEF MakeStdout, Make, SpawnFrame
<1>3. CASE MakeStderr
  <2>1. SpawnFrame /\ UNCHANGED route
    BY <1>3 DEF MakeStderr, Make
  <2> QED
    BY <1>3, <2>1, SpawnTypes DEF SpawnFrame
<1>4. CASE MakeJob
  <2>1. route' \in [Stream -> Stream \cup {"nul", "parent", "nowhere"}]
    BY <1>4, ModesAssumption, RouteTypes DEF MakeJob, Stream
  <2>2. SpawnFrame
    BY <1>4 DEF MakeJob
  <2> QED
    BY <1>4, <2>1, <2>2, SpawnTypes DEF SpawnFrame
<1>5. CASE CreateProcess
  BY <1>5, SpawnTypes DEF CreateProcess, Process
<1>6. CASE AssignToJob
  <2>1. UNCHANGED <<mode, op, answer, told, route, worldVars, stuck, threadVars>>
    BY <1>6 DEF AssignToJob
  <2>2. members' \in SUBSET Process
    BY <1>6 DEF AssignToJob, Process
  <2> QED
    BY <1>6, <2>1, <2>2, SpawnTypes
<1>7. CASE StartThreads
  BY <1>7 DEF StartThreads, Spawning, Over, ForChild, Process, Stream
<1>8. CASE CallWait
  BY <1>8 DEF CallWait, CallFrame, Spawning, Over, ForChild, Process, Stream
<1>9. CASE CallKill
  BY <1>9, EndFacts DEF CallKill, KillTree, CallFrame, Spawning, Over, ForChild, Process, Stream
<1>10. CASE CallSignal
  BY <1>10, EndFacts DEF CallSignal, CallFrame, Spawning, Over, ForChild, Process, Stream
<1>11. CASE CallMoveAssign
  BY <1>11 DEF CallMoveAssign, CallFrame, Spawning, Over, ForChild, Process, Stream
<1>12. CASE CallDetach
  BY <1>12 DEF CallDetach, CallFrame, Spawning, Over, ForChild, Process, Stream
<1>13. CASE JoinFeeder
  BY <1>13 DEF JoinFeeder, CallFrame, Spawning, Over, ForChild, Process, Stream
<1>14. CASE ProcessSignalled
  BY <1>14 DEF ProcessSignalled, CallFrame, Spawning, Over, ForChild, Process, Stream
<1>15. CASE WaitTimesOut
  BY <1>15, EndFacts DEF WaitTimesOut, KillTree, CallFrame, Spawning, Over, ForChild, Process, Stream
<1>16. CASE Answer
  <2>1. told' \in SUBSET (-Half..Half-1)
    BY <1>16, AsIntType DEF Answer
  <2> QED
    BY <1>16, <2>1 DEF Answer, CallFrame, Spawning, Over, ForChild, Process, Stream
<1>17. CASE Close
  <2>1. End(IF job = "kill" THEN members ELSE {})
    BY <1>17 DEF Close, CloseJob
  <2>2. /\ handles' \in SUBSET (ForChild \cup {"stdin_w", "out_r", "err_r", "job", "process", "thread"})
        /\ lib' = "gone"
        /\ UNCHANGED <<mode, op, answer, told, route, job, members, stuck, threadVars>>
    BY <1>17 DEF Close, StdinHandle
  <2>3. /\ life' \in [Process -> {"none", "live", "dead"}]
        /\ code' \in 0..2*Half-1 /\ by' \in {"nobody", "us", "other"}
    BY <2>1, EndFacts
  <2> QED
    BY <2>2, <2>3 DEF Spawning, Over
<1>18. CASE Release
  BY <1>18 DEF Release, Spawning, Over, ForChild, Process, Stream
<1>19. CASE CancelReaders
  BY <1>19 DEF CancelReaders, Spawning, Over, ForChild, Process, Stream
<1>20. CASE DetachJoins
  BY <1>20 DEF DetachJoins, CallFrame, Spawning, Over, ForChild, Process, Stream
<1>21. CASE LibraryDies
  BY <1>21, EndFacts DEF LibraryDies, CloseJob, Spawning, Over, ForChild, Process, Stream
<1>22. CASE ChildStartsKid
  BY <1>22 DEF ChildStartsKid, Spawning, Over, ForChild, Process, Stream
<1>23. CASE ChildExits
  BY <1>23 DEF ChildExits, OutsideFrame, Spawning, Over, ForChild, Process, Stream
<1>24. CASE KidExits
  BY <1>24 DEF KidExits, OutsideFrame, Spawning, Over, ForChild, Process, Stream
<1>25. CASE Aside
  <2>1. stuck' \in Stream \cup {"no"}
    BY <1>25 DEF Aside
  <2>2. /\ handles' \in SUBSET (ForChild \cup {"stdin_w", "out_r", "err_r", "job", "process", "thread"})
        /\ feeder' \in {"none", "writing", "done"}
    BY <1>25 DEF Aside
  <2>3. reader' \in [Stream -> {"none", "starting", "between", "inside", "writing", "stray", "done"}]
    BY <1>25 DEF Aside, Serving
  <2> QED
    BY <1>25, <2>1, <2>2, <2>3 DEF Aside, coreVars
<1>26. CASE DetachCloses
  BY <1>26 DEF DetachCloses, StdinHandle, Spawning, Over
<1> QED
  BY <1>1, <1>2, <1>3, <1>4, <1>5, <1>6, <1>7, <1>8, <1>9, <1>10, <1>11, <1>12, <1>13, <1>14, <1>15, <1>16, <1>17, <1>18, <1>19, <1>20, <1>21, <1>22, <1>23, <1>24, <1>25, <1>26, Steps

(* The stages of the spawn follow each other. *)
LEMMA StageStep == ASSUME TypeOK, StageInv, [Next]_vars PROVE StageInv'
<1> USE DEF TypeOK, StageInv, Spawning, Over, Process, libVars, worldVars
<1>1. CASE MakeStdin
  BY <1>1 DEF MakeStdin, Make, SpawnFrame
<1>2. CASE MakeStdout
  BY <1>2 DEF MakeStdout, Make, SpawnFrame
<1>3. CASE MakeStderr
  BY <1>3 DEF MakeStderr, Make, SpawnFrame
<1>4. CASE MakeJob
  BY <1>4 DEF MakeJob, SpawnFrame
<1>5. CASE CreateProcess
  BY <1>5 DEF CreateProcess
<1>6. CASE AssignToJob
  BY <1>6 DEF AssignToJob
<1>7. CASE StartThreads
  BY <1>7 DEF StartThreads
<1>8. CASE CallWait
  BY <1>8 DEF CallWait, CallFrame
<1>9. CASE CallKill
  BY <1>9, EndFacts DEF CallKill, KillTree, CallFrame
<1>10. CASE CallSignal
  BY <1>10, EndFacts DEF CallSignal, CallFrame
<1>11. CASE CallMoveAssign
  BY <1>11 DEF CallMoveAssign, CallFrame
<1>12. CASE CallDetach
  BY <1>12 DEF CallDetach, CallFrame
<1>13. CASE JoinFeeder
  BY <1>13 DEF JoinFeeder, CallFrame
<1>14. CASE ProcessSignalled
  BY <1>14 DEF ProcessSignalled, CallFrame
<1>15. CASE WaitTimesOut
  BY <1>15, EndFacts DEF WaitTimesOut, KillTree, CallFrame
<1>16. CASE Answer
  BY <1>16 DEF Answer, CallFrame
<1>17. CASE Close
  BY <1>17, EndFacts DEF Close, CloseJob
<1>18. CASE Release
  BY <1>18 DEF Release
<1>19. CASE CancelReaders
  BY <1>19 DEF CancelReaders
<1>20. CASE DetachJoins
  BY <1>20 DEF DetachJoins, CallFrame
<1>21. CASE LibraryDies
  BY <1>21, EndFacts DEF LibraryDies, CloseJob
<1>22. CASE ChildStartsKid
  BY <1>22 DEF ChildStartsKid
<1>23. CASE ChildExits
  BY <1>23 DEF ChildExits, OutsideFrame
<1>24. CASE KidExits
  BY <1>24 DEF KidExits, OutsideFrame
<1>25. CASE Aside
  BY <1>25 DEF Aside, coreVars
<1>26. CASE DetachCloses
  BY <1>26 DEF DetachCloses
<1> QED
  BY <1>1, <1>2, <1>3, <1>4, <1>5, <1>6, <1>7, <1>8, <1>9, <1>10, <1>11, <1>12, <1>13, <1>14, <1>15, <1>16, <1>17, <1>18, <1>19, <1>20, <1>21, <1>22, <1>23, <1>24, <1>25, <1>26, Steps

(* The job is made once, and disarmed by detach() only. *)
LEMMA JobStep == ASSUME TypeOK, StageInv, JobInv, [Next]_vars PROVE JobInv'
<1> USE DEF StageInv, JobInv, Spawning, Over, libVars, worldVars
<1>1. CASE MakeStdin
  BY <1>1 DEF MakeStdin, Make, SpawnFrame
<1>2. CASE MakeStdout
  BY <1>2 DEF MakeStdout, Make, SpawnFrame
<1>3. CASE MakeStderr
  BY <1>3 DEF MakeStderr, Make, SpawnFrame
<1>4. CASE MakeJob
  BY <1>4 DEF MakeJob, SpawnFrame
<1>5. CASE CreateProcess
  BY <1>5 DEF CreateProcess
<1>6. CASE AssignToJob
  BY <1>6 DEF AssignToJob
<1>7. CASE StartThreads
  BY <1>7 DEF StartThreads
<1>8. CASE CallWait
  BY <1>8 DEF CallWait, CallFrame
<1>9. CASE CallKill
  BY <1>9, EndFacts DEF CallKill, KillTree, CallFrame
<1>10. CASE CallSignal
  BY <1>10, EndFacts DEF CallSignal, CallFrame
<1>11. CASE CallMoveAssign
  BY <1>11 DEF CallMoveAssign, CallFrame
<1>12. CASE CallDetach
  BY <1>12 DEF CallDetach, CallFrame
<1>13. CASE JoinFeeder
  BY <1>13 DEF JoinFeeder, CallFrame
<1>14. CASE ProcessSignalled
  BY <1>14 DEF ProcessSignalled, CallFrame
<1>15. CASE WaitTimesOut
  BY <1>15, EndFacts DEF WaitTimesOut, KillTree, CallFrame
<1>16. CASE Answer
  BY <1>16 DEF Answer, CallFrame
<1>17. CASE Close
  BY <1>17, EndFacts DEF Close, CloseJob
<1>18. CASE Release
  BY <1>18 DEF Release
<1>19. CASE CancelReaders
  BY <1>19 DEF CancelReaders
<1>20. CASE DetachJoins
  BY <1>20 DEF DetachJoins, CallFrame
<1>21. CASE LibraryDies
  BY <1>21, EndFacts DEF LibraryDies, CloseJob
<1>22. CASE ChildStartsKid
  BY <1>22 DEF ChildStartsKid
<1>23. CASE ChildExits
  BY <1>23 DEF ChildExits, OutsideFrame
<1>24. CASE KidExits
  BY <1>24 DEF KidExits, OutsideFrame
<1>25. CASE Aside
  BY <1>25 DEF Aside, coreVars
<1>26. CASE DetachCloses
  BY <1>26 DEF DetachCloses
<1> QED
  BY <1>1, <1>2, <1>3, <1>4, <1>5, <1>6, <1>7, <1>8, <1>9, <1>10, <1>11, <1>12, <1>13, <1>14, <1>15, <1>16, <1>17, <1>18, <1>19, <1>20, <1>21, <1>22, <1>23, <1>24, <1>25, <1>26, Steps

(* Who answers has seen the end of the child. *)
LEMMA ReportStep == ASSUME TypeOK, StageInv, ReportInv, [Next]_vars PROVE ReportInv'
<1> USE DEF TypeOK, StageInv, ReportInv, Spawning, Over, Process, libVars, worldVars
<1>1. CASE MakeStdin
  BY <1>1 DEF MakeStdin, Make, SpawnFrame
<1>2. CASE MakeStdout
  BY <1>2 DEF MakeStdout, Make, SpawnFrame
<1>3. CASE MakeStderr
  BY <1>3 DEF MakeStderr, Make, SpawnFrame
<1>4. CASE MakeJob
  BY <1>4 DEF MakeJob, SpawnFrame
<1>5. CASE CreateProcess
  BY <1>5 DEF CreateProcess
<1>6. CASE AssignToJob
  BY <1>6 DEF AssignToJob
<1>7. CASE StartThreads
  BY <1>7 DEF StartThreads
<1>8. CASE CallWait
  BY <1>8 DEF CallWait, CallFrame
<1>9. CASE CallKill
  BY <1>9, EndFacts DEF CallKill, KillTree, CallFrame
<1>10. CASE CallSignal
  BY <1>10, EndFacts DEF CallSignal, CallFrame
<1>11. CASE CallMoveAssign
  BY <1>11 DEF CallMoveAssign, CallFrame
<1>12. CASE CallDetach
  BY <1>12 DEF CallDetach, CallFrame
<1>13. CASE JoinFeeder
  BY <1>13 DEF JoinFeeder, CallFrame
<1>14. CASE ProcessSignalled
  BY <1>14 DEF ProcessSignalled, CallFrame
<1>15. CASE WaitTimesOut
  BY <1>15, EndFacts DEF WaitTimesOut, KillTree, CallFrame
<1>16. CASE Answer
  BY <1>16 DEF Answer, CallFrame
<1>17. CASE Close
  BY <1>17, EndFacts DEF Close, CloseJob
<1>18. CASE Release
  BY <1>18 DEF Release
<1>19. CASE CancelReaders
  BY <1>19 DEF CancelReaders
<1>20. CASE DetachJoins
  BY <1>20 DEF DetachJoins, CallFrame
<1>21. CASE LibraryDies
  BY <1>21, EndFacts DEF LibraryDies, CloseJob
<1>22. CASE ChildStartsKid
  BY <1>22 DEF ChildStartsKid
<1>23. CASE ChildExits
  BY <1>23 DEF ChildExits, OutsideFrame
<1>24. CASE KidExits
  BY <1>24 DEF KidExits, OutsideFrame
<1>25. CASE Aside
  BY <1>25 DEF Aside, coreVars
<1>26. CASE DetachCloses
  BY <1>26 DEF DetachCloses
<1> QED
  BY <1>1, <1>2, <1>3, <1>4, <1>5, <1>6, <1>7, <1>8, <1>9, <1>10, <1>11, <1>12, <1>13, <1>14, <1>15, <1>16, <1>17, <1>18, <1>19, <1>20, <1>21, <1>22, <1>23, <1>24, <1>25, <1>26, Steps

(* Every stage adds its own handles, and whoever gives up closes all that  *)
(* the stages before it made.                                              *)
LEMMA HandleStep == ASSUME TypeOK, HandleInv, [Next]_vars PROVE HandleInv'
<1> USE ModesAssumption, FaultsAssumption
        DEF TypeOK, HandleInv, Spawning, Over, libVars, threadVars, FaultKinds
<1>1. CASE MakeStdin
  BY <1>1 DEF MakeStdin, Make, SpawnFrame
<1>2. CASE MakeStdout
  BY <1>2 DEF MakeStdout, Make, SpawnFrame
<1>3. CASE MakeStderr
  BY <1>3 DEF MakeStderr, Make, SpawnFrame
<1>4. CASE MakeJob
  BY <1>4 DEF MakeJob, SpawnFrame
<1>5. CASE CreateProcess
  BY <1>5 DEF CreateProcess
<1>6. CASE AssignToJob
  BY <1>6 DEF AssignToJob
<1>7. CASE StartThreads
  BY <1>7 DEF StartThreads
<1>8. CASE CallWait
  BY <1>8 DEF CallWait, CallFrame
<1>9. CASE CallKill
  BY <1>9 DEF CallKill, CallFrame
<1>10. CASE CallSignal
  BY <1>10 DEF CallSignal, CallFrame
<1>11. CASE CallMoveAssign
  BY <1>11 DEF CallMoveAssign, CallFrame
<1>12. CASE CallDetach
  BY <1>12 DEF CallDetach, CallFrame
<1>13. CASE JoinFeeder
  BY <1>13 DEF JoinFeeder, CallFrame
<1>14. CASE ProcessSignalled
  BY <1>14 DEF ProcessSignalled, CallFrame
<1>15. CASE WaitTimesOut
  BY <1>15 DEF WaitTimesOut, CallFrame
<1>16. CASE Answer
  BY <1>16 DEF Answer, CallFrame
<1>17. CASE Close
  <2>1. handles \subseteq {"stdin_w", "out_r", "err_r", "job", "process"}
    BY <1>17 DEF Close
  <2>2. "stdin_w" \in handles => StdinHandle = {"stdin_w"}
    BY <1>17 DEF Close, StdinHandle
  <2>3. handles' = {} /\ lib' = "gone"
    BY ZenonT(60), <1>17, <2>1, <2>2 DEF Close
  <2> QED
    BY <2>3
<1>18. CASE Release
  BY <1>18 DEF Release
<1>19. CASE CancelReaders
  BY <1>19 DEF CancelReaders
<1>20. CASE DetachJoins
  BY <1>20 DEF DetachJoins, CallFrame
<1>21. CASE LibraryDies
  BY <1>21 DEF LibraryDies
<1>22. CASE ChildStartsKid
  BY <1>22 DEF ChildStartsKid
<1>23. CASE ChildExits
  BY <1>23 DEF ChildExits, OutsideFrame
<1>24. CASE KidExits
  BY <1>24 DEF KidExits, OutsideFrame
<1>25. CASE Aside
  BY <1>25 DEF Aside, coreVars
<1>26. CASE DetachCloses
  BY <1>26 DEF DetachCloses
<1> QED
  BY <1>1, <1>2, <1>3, <1>4, <1>5, <1>6, <1>7, <1>8, <1>9, <1>10, <1>11, <1>12, <1>13, <1>14, <1>15, <1>16, <1>17, <1>18, <1>19, <1>20, <1>21, <1>22, <1>23, <1>24, <1>25, <1>26, Steps

(* Members of a job that was ended do not come back, and none joins. *)
LEMMA TreeStep == ASSUME TypeOK, StageInv, JobInv, TreeDies, [Next]_vars PROVE TreeDies'
<1> USE DEF TypeOK, StageInv, JobInv, TreeDies, OnlyOutsidersSurvive, KillTakesTheTree, Spawning, Over,
        Process, libVars, worldVars
<1>1. CASE MakeStdin
  BY <1>1 DEF MakeStdin, Make, SpawnFrame
<1>2. CASE MakeStdout
  BY <1>2 DEF MakeStdout, Make, SpawnFrame
<1>3. CASE MakeStderr
  BY <1>3 DEF MakeStderr, Make, SpawnFrame
<1>4. CASE MakeJob
  BY <1>4 DEF MakeJob, SpawnFrame
<1>5. CASE CreateProcess
  BY <1>5 DEF CreateProcess
<1>6. CASE AssignToJob
  BY <1>6 DEF AssignToJob
<1>7. CASE StartThreads
  BY <1>7 DEF StartThreads
<1>8. CASE CallWait
  BY <1>8 DEF CallWait, CallFrame
<1>9. CASE CallKill
  BY <1>9, EndFacts DEF CallKill, KillTree, CallFrame
<1>10. CASE CallSignal
  BY <1>10, EndFacts DEF CallSignal, CallFrame
<1>11. CASE CallMoveAssign
  BY <1>11 DEF CallMoveAssign, CallFrame
<1>12. CASE CallDetach
  BY <1>12 DEF CallDetach, CallFrame
<1>13. CASE JoinFeeder
  BY <1>13 DEF JoinFeeder, CallFrame
<1>14. CASE ProcessSignalled
  BY <1>14 DEF ProcessSignalled, CallFrame
<1>15. CASE WaitTimesOut
  BY <1>15, EndFacts DEF WaitTimesOut, KillTree, CallFrame
<1>16. CASE Answer
  BY <1>16 DEF Answer, CallFrame
<1>17. CASE Close
  BY <1>17, EndFacts DEF Close, CloseJob
<1>18. CASE Release
  BY <1>18 DEF Release
<1>19. CASE CancelReaders
  BY <1>19 DEF CancelReaders
<1>20. CASE DetachJoins
  BY <1>20 DEF DetachJoins, CallFrame
<1>21. CASE LibraryDies
  BY <1>21, EndFacts DEF LibraryDies, CloseJob
<1>22. CASE ChildStartsKid
  BY <1>22 DEF ChildStartsKid
<1>23. CASE ChildExits
  BY <1>23 DEF ChildExits, OutsideFrame
<1>24. CASE KidExits
  BY <1>24 DEF KidExits, OutsideFrame
<1>25. CASE Aside
  BY <1>25 DEF Aside, coreVars
<1>26. CASE DetachCloses
  BY <1>26 DEF DetachCloses
<1> QED
  BY <1>1, <1>2, <1>3, <1>4, <1>5, <1>6, <1>7, <1>8, <1>9, <1>10, <1>11, <1>12, <1>13, <1>14, <1>15, <1>16, <1>17, <1>18, <1>19, <1>20, <1>21, <1>22, <1>23, <1>24, <1>25, <1>26, Steps
(* Where the outputs go is settled by MakeJob, and no other pipe fills up. *)
LEMMA RouteStep == ASSUME TypeOK, HandleInv, RouteInv, [Next]_vars PROVE RouteInv'
<1> USE DEF TypeOK, HandleInv, RouteInv, Fed, Spawning, Over
<1>1. CASE MakeStdin
  BY <1>1 DEF MakeStdin, Make, SpawnFrame
<1>2. CASE MakeStdout
  BY <1>2 DEF MakeStdout, Make, SpawnFrame
<1>3. CASE MakeStderr
  BY <1>3 DEF MakeStderr, Make, SpawnFrame
<1>4. CASE MakeJob
  <2> USE <1>4 DEF MakeJob, SpawnFrame
  <2>1. mode \in AllModes
    BY ModesAssumption
  <2>2. /\ mode.out \in {"capture", "discard", "inherit"} /\ mode.err \in {"capture", "discard", "inherit"}
        /\ mode.merge \in BOOLEAN
    BY <2>1 DEF AllModes
  <2>3. StdOutput \in Stream => Fed(StdOutput)
    BY <2>2 DEF StdOutput, Stream
  <2>4. StdError \in Stream => Fed(StdError)
    BY <2>2 DEF StdError, Stream
  <2>5. /\ mode' = mode /\ stuck' = stuck
        /\ "out_w" \in handles' => "out_w" \in handles
        /\ "err_w" \in handles' => "err_w" \in handles
        /\ "out_w" \in handles /\ "err_w" \in handles' => "out_w" \in handles'
    OBVIOUS
  <2>6. \A s \in Stream : route'[s] \in Stream => Fed(route'[s])
    BY <2>3, <2>4 DEF Stream
  <2> QED
    BY <2>5, <2>6
<1>5. CASE CreateProcess
  BY <1>5 DEF CreateProcess
<1>6. CASE AssignToJob
  BY <1>6 DEF AssignToJob
<1>7. CASE StartThreads
  BY <1>7 DEF StartThreads
<1>8. CASE CallWait
  BY <1>8 DEF CallWait, CallFrame
<1>9. CASE CallKill
  BY <1>9 DEF CallKill, CallFrame
<1>10. CASE CallSignal
  BY <1>10 DEF CallSignal, CallFrame
<1>11. CASE CallMoveAssign
  BY <1>11 DEF CallMoveAssign, CallFrame
<1>12. CASE CallDetach
  BY <1>12 DEF CallDetach, CallFrame
<1>13. CASE JoinFeeder
  BY <1>13 DEF JoinFeeder, CallFrame
<1>14. CASE ProcessSignalled
  BY <1>14 DEF ProcessSignalled, CallFrame
<1>15. CASE WaitTimesOut
  BY <1>15 DEF WaitTimesOut, CallFrame
<1>16. CASE Answer
  BY <1>16 DEF Answer, CallFrame
<1>17. CASE Close
  BY <1>17 DEF Close
<1>18. CASE Release
  BY <1>18 DEF Release
<1>19. CASE CancelReaders
  BY <1>19 DEF CancelReaders
<1>20. CASE DetachJoins
  BY <1>20 DEF DetachJoins, CallFrame
<1>21. CASE LibraryDies
  BY <1>21 DEF LibraryDies
<1>22. CASE ChildStartsKid
  BY <1>22 DEF ChildStartsKid
<1>23. CASE ChildExits
  BY <1>23 DEF ChildExits, OutsideFrame
<1>24. CASE KidExits
  BY <1>24 DEF KidExits, OutsideFrame
<1>25. CASE Aside
  BY <1>25 DEF Aside, coreVars
<1>26. CASE DetachCloses
  BY <1>26 DEF DetachCloses
<1> QED
  BY <1>1, <1>2, <1>3, <1>4, <1>5, <1>6, <1>7, <1>8, <1>9, <1>10, <1>11, <1>12, <1>13, <1>14, <1>15, <1>16, <1>17, <1>18, <1>19, <1>20, <1>21, <1>22, <1>23, <1>24, <1>25, <1>26, Steps

(* Readers are started for what is captured; while the child writes, they  *)
(* stop only if the read end has been closed under them.                   *)
LEMMA ReadersStep ==
    ASSUME TypeOK, StageInv, HandleInv, HandleInv', ReaderInv, [Next]_vars PROVE ReaderInv'
<1> USE DEF TypeOK, StageInv, HandleInv, ReaderInv, Spawning, Over, Process, libVars, worldVars,
        threadVars, Serving
<1>1. CASE MakeStdin
  BY <1>1 DEF MakeStdin, Make, SpawnFrame
<1>2. CASE MakeStdout
  BY <1>2 DEF MakeStdout, Make, SpawnFrame
<1>3. CASE MakeStderr
  BY <1>3 DEF MakeStderr, Make, SpawnFrame
<1>4. CASE MakeJob
  BY <1>4 DEF MakeJob, SpawnFrame
<1>5. CASE CreateProcess
  BY <1>5 DEF CreateProcess
<1>6. CASE AssignToJob
  BY <1>6 DEF AssignToJob
<1>7. CASE StartThreads
  BY <1>7 DEF StartThreads
<1>8. CASE CallWait
  BY <1>8 DEF CallWait, CallFrame
<1>9. CASE CallKill
  BY <1>9, EndFacts DEF CallKill, KillTree, CallFrame
<1>10. CASE CallSignal
  BY <1>10, EndFacts DEF CallSignal, CallFrame
<1>11. CASE CallMoveAssign
  BY <1>11 DEF CallMoveAssign, CallFrame
<1>12. CASE CallDetach
  BY <1>12 DEF CallDetach, CallFrame
<1>13. CASE JoinFeeder
  BY <1>13 DEF JoinFeeder, CallFrame
<1>14. CASE ProcessSignalled
  BY <1>14 DEF ProcessSignalled, CallFrame
<1>15. CASE WaitTimesOut
  BY <1>15, EndFacts DEF WaitTimesOut, KillTree, CallFrame
<1>16. CASE Answer
  BY <1>16 DEF Answer, CallFrame
<1>17. CASE Close
  BY <1>17, EndFacts DEF Close, CloseJob
<1>18. CASE Release
  BY <1>18 DEF Release
<1>19. CASE CancelReaders
  BY <1>19 DEF CancelReaders
<1>20. CASE DetachJoins
  BY <1>20 DEF DetachJoins, CallFrame
<1>21. CASE LibraryDies
  BY <1>21, EndFacts DEF LibraryDies, CloseJob
<1>22. CASE ChildStartsKid
  BY <1>22 DEF ChildStartsKid
<1>23. CASE ChildExits
  BY <1>23 DEF ChildExits, OutsideFrame
<1>24. CASE KidExits
  BY <1>24 DEF KidExits, OutsideFrame
<1>25. CASE Aside
  BY <1>25 DEF Aside, coreVars
<1>26. CASE DetachCloses
  BY <1>26 DEF DetachCloses
<1> QED
  BY <1>1, <1>2, <1>3, <1>4, <1>5, <1>6, <1>7, <1>8, <1>9, <1>10, <1>11, <1>12, <1>13, <1>14, <1>15, <1>16, <1>17, <1>18, <1>19, <1>20, <1>21, <1>22, <1>23, <1>24, <1>25, <1>26, Steps

-----------------------------------------------------------------------------
(* The invariant holds at the start, and every step keeps it. *)
LEMMA Inductive == Spec => []IInv
<1>1. Init => IInv
  <2> SUFFICES ASSUME Init PROVE IInv
    OBVIOUS
  <2> USE DEF Init
  <2>1. TypeOK
    BY HalfAssumption DEF TypeOK, Spawning, Process, Stream, STILL_ACTIVE
  <2>2. StageInv /\ JobInv /\ ReportInv /\ HandleInv /\ RouteInv /\ ReaderInv
    BY DEF StageInv, JobInv, ReportInv, HandleInv, RouteInv, ReaderInv, Spawning, Over, Process, Stream
  <2>3. TreeDies
    BY DEF TreeDies, OnlyOutsidersSurvive, KillTakesTheTree
  <2> QED
    BY <2>1, <2>2, <2>3 DEF IInv
<1>2. IInv /\ [Next]_vars => IInv'
  BY TypeStep, StageStep, JobStep, ReportStep, HandleStep, RouteStep, ReadersStep, TreeStep DEF IInv
<1> QED
  BY <1>1, <1>2, PTL DEF Spec

(* Every variable of the model has its type in every reachable state. *)
THEOREM TypeCorrect == Spec => []TypeOK
<1>1. IInv => TypeOK
  BY DEF IInv
<1> QED
  BY <1>1, Inductive, PTL

(* Whichever stage a spawn fails at and in whichever way a handle goes,    *)
(* the closes of the code together leave nothing open, and what is made    *)
(* for the child is closed once it has it.                                 *)
THEOREM HandlesAreClosed == Spec => []NoHandleLeak
<1>1. IInv => NoHandleLeak
  BY DEF IInv, HandleInv, NoHandleLeak, Over, Spawning, ForChild
<1> QED
  BY <1>1, Inductive, PTL

(* Whatever ends the child by force takes the members of its job along.    *)
THEOREM JobsTakeTheTree == Spec => []TreeDies
<1>1. IInv => TreeDies
  BY DEF IInv
<1> QED
  BY <1>1, Inductive, PTL

(* A child that blocks on a full pipe has a reader, but for a stream that  *)
(* is merged into a discarded one.                                         *)
THEOREM BlockedIsRead == Spec => []FullPipesAreRead
<1>1. ASSUME IInv PROVE FullPipesAreRead
  <2> SUFFICES ASSUME Blocked, lib \notin Spawning PROVE
                   \/ reader[stuck] \in {"starting", "between", "inside", "writing"}
                   \/ mode.merge /\ mode[stuck] = "discard"
    BY DEF FullPipesAreRead
  <2>1. life["child"] = "live" /\ stuck \in Stream /\ ReadEnd[stuck] \in handles
    BY <1>1 DEF Blocked, IInv, TypeOK
  <2>2. Fed(stuck) /\ ReaderInv
    BY <1>1, <2>1, SMTT(60) DEF IInv, RouteInv, Stream
  <2> QED
    BY <2>1, <2>2 DEF Fed, ReaderInv, Serving
<1> QED
  BY <1>1, Inductive, PTL

-----------------------------------------------------------------------------
(* What a step can do to the owner, the child and the supervision. *)
OwnerStep == Owner' = Owner \/ <<Owner, Owner'>> \in Contract!OwnerMoves

LifeStep ==
    /\ life["child"] = "live" => life'["child"] # "none"
    /\ life["child"] = "dead" => life'["child"] = "dead" /\ UNCHANGED <<code, by>>
    /\ life["child"] = "none" /\ life'["child"] # "none" => lib = "create"

SupervisionStep ==
    /\ Supervised' => Supervised
    /\ by # "us" /\ by' = "us" => Owner' # "released"

(* Who answers for the child changes as the contract says. *)
LEMMA OwnerMoves == ASSUME TypeOK, StageInv, JobInv, [Next]_vars PROVE OwnerStep
<1> USE DEF StageInv, JobInv, OwnerStep, Owner, Contract!OwnerMoves, Spawning, Over, libVars
<1>1. CASE MakeStdin
  BY <1>1 DEF MakeStdin, Make, SpawnFrame
<1>2. CASE MakeStdout
  BY <1>2 DEF MakeStdout, Make, SpawnFrame
<1>3. CASE MakeStderr
  BY <1>3 DEF MakeStderr, Make, SpawnFrame
<1>4. CASE MakeJob
  BY <1>4 DEF MakeJob, SpawnFrame
<1>5. CASE CreateProcess
  BY <1>5 DEF CreateProcess
<1>6. CASE AssignToJob
  BY <1>6 DEF AssignToJob
<1>7. CASE StartThreads
  BY <1>7 DEF StartThreads
<1>8. CASE CallWait
  BY <1>8 DEF CallWait, CallFrame
<1>9. CASE CallKill
  BY <1>9, EndFacts DEF CallKill, KillTree, CallFrame
<1>10. CASE CallSignal
  BY <1>10, EndFacts DEF CallSignal, CallFrame
<1>11. CASE CallMoveAssign
  BY <1>11 DEF CallMoveAssign, CallFrame
<1>12. CASE CallDetach
  BY <1>12 DEF CallDetach, CallFrame
<1>13. CASE JoinFeeder
  BY <1>13 DEF JoinFeeder, CallFrame
<1>14. CASE ProcessSignalled
  BY <1>14 DEF ProcessSignalled, CallFrame
<1>15. CASE WaitTimesOut
  BY <1>15, EndFacts DEF WaitTimesOut, KillTree, CallFrame
<1>16. CASE Answer
  BY <1>16 DEF Answer, CallFrame
<1>17. CASE Close
  BY <1>17, EndFacts DEF Close, CloseJob
<1>18. CASE Release
  BY <1>18 DEF Release
<1>19. CASE CancelReaders
  BY <1>19 DEF CancelReaders
<1>20. CASE DetachJoins
  BY <1>20 DEF DetachJoins, CallFrame
<1>21. CASE LibraryDies
  BY <1>21, EndFacts DEF LibraryDies, CloseJob
<1>22. CASE ChildStartsKid
  BY <1>22 DEF ChildStartsKid
<1>23. CASE ChildExits
  BY <1>23 DEF ChildExits, OutsideFrame
<1>24. CASE KidExits
  BY <1>24 DEF KidExits, OutsideFrame
<1>25. CASE Aside
  BY <1>25 DEF Aside, coreVars
<1>26. CASE DetachCloses
  BY <1>26 DEF DetachCloses
<1> QED
  BY <1>1, <1>2, <1>3, <1>4, <1>5, <1>6, <1>7, <1>8, <1>9, <1>10, <1>11, <1>12, <1>13, <1>14, <1>15, <1>16, <1>17, <1>18, <1>19, <1>20, <1>21, <1>22, <1>23, <1>24, <1>25, <1>26, Steps

(* A child is started by CreateProcess() and ends once. *)
LEMMA LifeMoves == ASSUME TypeOK, StageInv, [Next]_vars PROVE LifeStep
<1> USE DEF TypeOK, StageInv, LifeStep, Process, worldVars
<1>1. CASE MakeStdin
  BY <1>1 DEF MakeStdin, Make, SpawnFrame
<1>2. CASE MakeStdout
  BY <1>2 DEF MakeStdout, Make, SpawnFrame
<1>3. CASE MakeStderr
  BY <1>3 DEF MakeStderr, Make, SpawnFrame
<1>4. CASE MakeJob
  BY <1>4 DEF MakeJob, SpawnFrame
<1>5. CASE CreateProcess
  BY <1>5 DEF CreateProcess
<1>6. CASE AssignToJob
  BY <1>6 DEF AssignToJob
<1>7. CASE StartThreads
  BY <1>7 DEF StartThreads
<1>8. CASE CallWait
  BY <1>8 DEF CallWait, CallFrame
<1>9. CASE CallKill
  BY <1>9, EndFacts DEF CallKill, KillTree, CallFrame
<1>10. CASE CallSignal
  BY <1>10, EndFacts DEF CallSignal, CallFrame
<1>11. CASE CallMoveAssign
  BY <1>11 DEF CallMoveAssign, CallFrame
<1>12. CASE CallDetach
  BY <1>12 DEF CallDetach, CallFrame
<1>13. CASE JoinFeeder
  BY <1>13 DEF JoinFeeder, CallFrame
<1>14. CASE ProcessSignalled
  BY <1>14 DEF ProcessSignalled, CallFrame
<1>15. CASE WaitTimesOut
  BY <1>15, EndFacts DEF WaitTimesOut, KillTree, CallFrame
<1>16. CASE Answer
  BY <1>16 DEF Answer, CallFrame
<1>17. CASE Close
  BY <1>17, EndFacts DEF Close, CloseJob
<1>18. CASE Release
  BY <1>18 DEF Release
<1>19. CASE CancelReaders
  BY <1>19 DEF CancelReaders
<1>20. CASE DetachJoins
  BY <1>20 DEF DetachJoins, CallFrame
<1>21. CASE LibraryDies
  BY <1>21, EndFacts DEF LibraryDies, CloseJob
<1>22. CASE ChildStartsKid
  BY <1>22 DEF ChildStartsKid
<1>23. CASE ChildExits
  BY <1>23 DEF ChildExits, OutsideFrame
<1>24. CASE KidExits
  BY <1>24 DEF KidExits, OutsideFrame
<1>25. CASE Aside
  BY <1>25 DEF Aside, coreVars
<1>26. CASE DetachCloses
  BY <1>26 DEF DetachCloses
<1> QED
  BY <1>1, <1>2, <1>3, <1>4, <1>5, <1>6, <1>7, <1>8, <1>9, <1>10, <1>11, <1>12, <1>13, <1>14, <1>15, <1>16, <1>17, <1>18, <1>19, <1>20, <1>21, <1>22, <1>23, <1>24, <1>25, <1>26, Steps

(* Supervision is not regained, and the library ends no released child. *)
LEMMA SupervisionMoves ==
    ASSUME TypeOK, StageInv, JobInv, [Next]_vars PROVE SupervisionStep
<1> USE DEF StageInv, JobInv, SupervisionStep, Supervised, Owner, Spawning, Process, libVars, worldVars
<1>1. CASE MakeStdin
  BY <1>1 DEF MakeStdin, Make, SpawnFrame
<1>2. CASE MakeStdout
  BY <1>2 DEF MakeStdout, Make, SpawnFrame
<1>3. CASE MakeStderr
  BY <1>3 DEF MakeStderr, Make, SpawnFrame
<1>4. CASE MakeJob
  BY <1>4 DEF MakeJob, SpawnFrame
<1>5. CASE CreateProcess
  BY <1>5 DEF CreateProcess
<1>6. CASE AssignToJob
  BY <1>6 DEF AssignToJob
<1>7. CASE StartThreads
  BY <1>7 DEF StartThreads
<1>8. CASE CallWait
  BY <1>8 DEF CallWait, CallFrame
<1>9. CASE CallKill
  BY <1>9, EndFacts DEF CallKill, KillTree, CallFrame
<1>10. CASE CallSignal
  BY <1>10, EndFacts DEF CallSignal, CallFrame
<1>11. CASE CallMoveAssign
  BY <1>11 DEF CallMoveAssign, CallFrame
<1>12. CASE CallDetach
  BY <1>12 DEF CallDetach, CallFrame
<1>13. CASE JoinFeeder
  BY <1>13 DEF JoinFeeder, CallFrame
<1>14. CASE ProcessSignalled
  BY <1>14 DEF ProcessSignalled, CallFrame
<1>15. CASE WaitTimesOut
  BY <1>15, EndFacts DEF WaitTimesOut, KillTree, CallFrame
<1>16. CASE Answer
  BY <1>16 DEF Answer, CallFrame
<1>17. CASE Close
  BY <1>17, EndFacts DEF Close, CloseJob
<1>18. CASE Release
  BY <1>18 DEF Release
<1>19. CASE CancelReaders
  BY <1>19 DEF CancelReaders
<1>20. CASE DetachJoins
  BY <1>20 DEF DetachJoins, CallFrame
<1>21. CASE LibraryDies
  BY <1>21, EndFacts DEF LibraryDies, CloseJob
<1>22. CASE ChildStartsKid
  BY <1>22 DEF ChildStartsKid
<1>23. CASE ChildExits
  BY <1>23 DEF ChildExits, OutsideFrame
<1>24. CASE KidExits
  BY <1>24 DEF KidExits, OutsideFrame
<1>25. CASE Aside
  BY <1>25 DEF Aside, coreVars
<1>26. CASE DetachCloses
  BY <1>26 DEF DetachCloses
<1> QED
  BY <1>1, <1>2, <1>3, <1>4, <1>5, <1>6, <1>7, <1>8, <1>9, <1>10, <1>11, <1>12, <1>13, <1>14, <1>15, <1>16, <1>17, <1>18, <1>19, <1>20, <1>21, <1>22, <1>23, <1>24, <1>25, <1>26, Steps

(* Every step is one of the contract, or changes nothing that it sees. *)
LEMMA ContractStep == ASSUME IInv, IInv', [Next]_vars PROVE Contract!Next
<1> USE DEF IInv
<1>1. OwnerStep /\ LifeStep /\ SupervisionStep
  BY OwnerMoves, LifeMoves, SupervisionMoves
<1>2. life["child"] \in {"none", "live", "dead"} /\ life'["child"] \in {"none", "live", "dead"}
  BY DEF TypeOK, Process
<1>3. Contract!OneLife
  BY <1>1, <1>2 DEF LifeStep, Contract!OneLife, Owner, Spawning
<1>4. Contract!SpawnHonest
  BY <1>2 DEF Contract!SpawnHonest, Contract!Becomes, Owner, StageInv, Spawning
<1>5. Supervised' => Contract!NoOrphan
  BY <1>2 DEF Contract!NoOrphan, Contract!Becomes, Owner, Supervised, TreeDies, OnlyOutsidersSurvive, Spawning
<1>6. Contract!ReleaseHolds
  BY <1>1 DEF SupervisionStep, Contract!ReleaseHolds
<1>7. Contract!ReportTrue
  BY <1>2 DEF Contract!ReportTrue, ReportInv
<1> QED
  BY <1>1, <1>3, <1>4, <1>5, <1>6, <1>7 DEF Contract!Next, OwnerStep, SupervisionStep

(* The Windows backend implements the contract of a handle, as long as the *)
(* child is in its job.                                                    *)
THEOREM WindowsKeepsContract == Spec => KeepsContract
<1>1. Init => Contract!Init
  BY HalfAssumption DEF Init, Contract!Init, Owner, Supervised, Spawning, Process, AsInt, STILL_ACTIVE
<1>2. IInv /\ IInv' /\ [Next]_vars => [Contract!Next]_(Contract!vars)
  BY ContractStep
<1> QED
  BY <1>1, <1>2, Inductive, PTL DEF Spec, KeepsContract, Contract!Spec
=============================================================================
