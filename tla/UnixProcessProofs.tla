------------------------- MODULE UnixProcessProofs -------------------------
(* Proofs about UnixProcess, for every value of its constants.  Each part of *)
(* the inductive invariant has a lemma with one step per action; the        *)
(* theorems at the end put them together.                                   *)
EXTENDS UnixProcessInv, SequenceTheorems, TLAPS

-----------------------------------------------------------------------------
(* What is put into the info pipe, and read from it, has its type. *)
LEMMA InfoTypes ==
    ASSUME TypeOK
    PROVE  /\ Append(info, OkMsg) \in Seq(Message)
           /\ Append(info, ErrMsg) \in Seq(Message)
           /\ Append(info, ExitMsg(status)) \in Seq(Message)
           /\ info # <<>> => Tail(info) \in Seq(Message)
           /\ <<>> \in Seq(Message)
           /\ ExitCodeRead \in Nat \cup {-1}
<1>1. OkMsg \in Message /\ ErrMsg \in Message /\ ExitMsg(status) \in Message
  BY DEF TypeOK, TgtTypeOK, OkMsg, ErrMsg, ExitMsg, Message
<1>2. info # <<>> => Head(info) \in Message /\ Tail(info) \in Seq(Message)
  BY HeadTailProperties DEF TypeOK, SupTypeOK
<1>3. \A m \in Message : Append(info, m) \in Seq(Message)
  BY AppendProperties DEF TypeOK, SupTypeOK
<1>4. \A m \in Message : Encode(m) \in Nat
  BY DEF Encode, Message
<1>5. ExitCodeRead \in Nat \cup {-1}
  BY <1>2, <1>4, SMTT(60) DEF ExitCodeRead
<1> QED
  BY <1>1, <1>2, <1>3, <1>5, EmptySeq

(* Every action preserves the types. *)
LEMMA TypeStep == ASSUME TypeOK, [Next]_vars PROVE TypeOK'
<1> USE CodesAssumption, SigsAssumption DEF TypeOK, LibTypeOK, SupTypeOK, TgtTypeOK,
        Live, SupLive, HasHandle, Over, ownVars, pipeVars, supVars, wireVars, tgtVars, world, libSide,
        aroundTarget, SendFatal,
        ReapTarget, ReapSupervisor, SupervisorEnds, Exited, Signalled, SIGKILL, SIGTERM, SIGINT
<1>1. CASE SpawnFails
  BY <1>1 DEF SpawnFails
<1>2. CASE ForkSupervisor
  BY <1>2 DEF ForkSupervisor
<1>3. CASE ReadSpawnOk
  BY <1>3, InfoTypes DEF ReadSpawnOk
<1>4. CASE ReadSpawnError
  BY <1>4 DEF ReadSpawnError
<1>5. CASE ReapFailedSupervisor
  BY <1>5 DEF ReapFailedSupervisor
<1>6. CASE CallWait
  BY <1>6 DEF CallWait
<1>7. CASE CallSignal
  BY <1>7 DEF CallSignal
<1>8. CASE CallDestroy
  BY <1>8 DEF CallDestroy
<1>9. CASE CallMoveAssign
  BY <1>9 DEF CallMoveAssign
<1>10. CASE CallDetach
  BY <1>10 DEF CallDetach
<1>51. CASE DetachReleases
  <2>1. release' \in BOOLEAN
    BY <1>51, Zenon DEF DetachReleases
  <2>5. fds' \in SUBSET {"info", "lifecycle", "release"} /\ UNCHANGED ownVars
    BY <1>51 DEF DetachReleases
  <2>6. /\ lib' \in HasHandle \cup Over /\ op' = "detach" /\ stdin' = "closed"
        /\ reader' \in {"none", reader} /\ UNCHANGED <<mode, result, shutdown>>
    BY <1>51 DEF DetachReleases
  <2>2. LibTypeOK'
    BY <2>5, <2>6
  <2>3. SupTypeOK'
    BY <1>51, <2>1 DEF DetachReleases
  <2>4. TgtTypeOK'
    BY <1>51, <2>1 DEF DetachReleases
  <2> QED
    BY <2>2, <2>3, <2>4
<1>52. CASE CallerWrites
  BY <1>52 DEF CallerWrites
<1>53. CASE CallbackWrites
  BY <1>53 DEF CallbackWrites
<1>54. CASE CallbackLocks
  BY <1>54 DEF CallbackLocks
<1>55. CASE WriteEnds
  BY <1>55 DEF WriteEnds
<1>12. CASE PollTimesOut
  BY <1>12 DEF PollTimesOut
<1>13. CASE SignalKill
  BY <1>13 DEF SignalKill
<1>14. CASE SignalRequest
  <2>1. strangerHit' \in BOOLEAN
    BY <1>14, Zenon DEF SignalRequest
  <2>2. LibTypeOK'
    BY <1>14, <2>1 DEF SignalRequest
  <2>3. SupTypeOK'
    BY <1>14, <2>1 DEF SignalRequest
  <2>4. TgtTypeOK'
    BY <1>14, <2>1 DEF SignalRequest
  <2> QED
    BY <2>2, <2>3, <2>4
<1>15. CASE Reap
  <2>1. supPid' \in BOOLEAN
    BY <1>15, Zenon DEF Reap
  <2>2. LibTypeOK'
    BY <1>15, <2>1, InfoTypes DEF Reap
  <2>3. SupTypeOK'
    BY <1>15, <2>1, InfoTypes DEF Reap
  <2>4. TgtTypeOK'
    BY <1>15, <2>1 DEF Reap
  <2> QED
    BY <2>2, <2>3, <2>4
<1>16. CASE Join
  BY <1>16 DEF Join
<1>17. CASE DtorClose
  BY <1>17 DEF DtorClose
<1>18. CASE DtorReap
  <2>1. supPid' \in BOOLEAN
    BY <1>18, Zenon DEF DtorReap
  <2>2. LibTypeOK'
    BY <1>18, <2>1 DEF DtorReap
  <2>3. SupTypeOK'
    BY <1>18, <2>1 DEF DtorReap
  <2>4. TgtTypeOK'
    BY <1>18, <2>1 DEF DtorReap
  <2> QED
    BY <2>2, <2>3, <2>4
<1>19. CASE DetachReap
  <2>1. supPid' \in BOOLEAN
    BY <1>19, Zenon DEF DetachReap
  <2>2. LibTypeOK'
    BY <1>19, <2>1 DEF DetachReap
  <2>3. SupTypeOK'
    BY <1>19, <2>1, ZenonT(60) DEF DetachReap
  <2>4. TgtTypeOK'
    BY <1>19, <2>1 DEF DetachReap
  <2> QED
    BY <2>2, <2>3, <2>4
<1>20. CASE DetachJoin
  BY <1>20 DEF DetachJoin
<1>21. CASE ReapInterrupted
  <2>1. supPid' \in BOOLEAN /\ shutdown' \in BOOLEAN
    BY <1>21, Zenon DEF ReapInterrupted
  <2>2. /\ lib' \in HasHandle \cup Over
        /\ fds' \in SUBSET {"info", "lifecycle", "release"}
    BY <1>21 DEF ReapInterrupted
  <2>3. UNCHANGED <<mode, op, result, cached, waited, reader, stdin>>
    BY <1>21 DEF ReapInterrupted
  <2>4. LibTypeOK'
    BY <2>1, <2>2, <2>3
  <2>5. SupTypeOK'
    BY <1>21 DEF ReapInterrupted
  <2>6. TgtTypeOK'
    BY <1>21 DEF ReapInterrupted
  <2> QED
    BY <2>4, <2>5, <2>6
<1>22. CASE LibraryDies
  BY <1>22 DEF LibraryDies
<1>23. CASE SupForksTarget
  BY <1>23 DEF SupForksTarget
<1>24. CASE SupForkFails
  BY <1>24, InfoTypes DEF SupForkFails
<1>25. CASE SupReadsProbe
  BY <1>25 DEF SupReadsProbe
<1>26. CASE SupProbeInterrupted
  BY <1>26 DEF SupProbeInterrupted
<1>27. CASE SupReportsError
  <2>1. LibTypeOK' /\ TgtTypeOK'
    BY <1>27 DEF SupReportsError
  <2>2. SupTypeOK'
    BY <1>27, InfoTypes DEF SupReportsError
  <2> QED
    BY <2>1, <2>2
<1>28. CASE SupReapsFailed
  BY <1>28 DEF SupReapsFailed
<1>29. CASE SupReportsOk
  <2>1. LibTypeOK'
    BY <1>29, InfoTypes DEF SupReportsOk
  <2>2. SupTypeOK'
    BY <1>29, InfoTypes, ZenonT(60) DEF SupReportsOk
  <2>3. strangerHit' \in BOOLEAN
    BY <1>29, Zenon DEF SupReportsOk
  <2>4. TgtTypeOK'
    BY <1>29, <2>3 DEF SupReportsOk
  <2> QED
    BY <2>1, <2>2, <2>4
<1>30. CASE SupMovesToOwnGroup
  BY <1>30 DEF SupMovesToOwnGroup
<1>31. CASE SupSamplesLifecycle
  BY <1>31 DEF SupSamplesLifecycle
<1>32. CASE SupSamplesRelease
  <2>1. revents' \in SUBSET {"lifecycle", "release"}
    BY <1>32, ZenonT(60) DEF SupSamplesRelease
  <2>2. LibTypeOK' /\ TgtTypeOK'
    BY <1>32 DEF SupSamplesRelease
  <2>3. SupTypeOK'
    BY <1>32, <2>1 DEF SupSamplesRelease
  <2> QED
    BY <2>2, <2>3
<1>33. CASE SupLetsGo
  BY <1>33 DEF SupLetsGo
<1>34. CASE SupKillsTarget
  BY <1>34 DEF SupKillsTarget
<1>35. CASE SupChecksTarget
  <2>1. LibTypeOK'
    BY <1>35, InfoTypes DEF SupChecksTarget
  <2>2. SupTypeOK'
    BY <1>35, InfoTypes, ZenonT(60) DEF SupChecksTarget
  <2>3. TgtTypeOK'
    BY <1>35 DEF SupChecksTarget
  <2> QED
    BY <2>1, <2>2, <2>3
<1>36. CASE SupPollFails
  BY <1>36 DEF SupPollFails
<1>37. CASE SupReapsKilled
  BY <1>37 DEF SupReapsKilled
<1>38. CASE TargetExecs
  BY <1>38 DEF TargetExecs
<1>39. CASE TargetExecFails
  BY <1>39 DEF TargetExecFails
<1>40. CASE TargetForksKid
  BY <1>40 DEF TargetForksKid
<1>41. CASE TargetExits
  BY <1>41 DEF TargetExits
<1>42. CASE TargetKilled
  BY <1>42 DEF TargetKilled
<1>43. CASE KidExits
  BY <1>43 DEF KidExits
<1>44. CASE InitReaps
  BY <1>44 DEF InitReaps
<1>45. CASE PidReused
  BY <1>45 DEF PidReused
<1>46. CASE ReaderStops
  BY <1>46 DEF ReaderStops
<1>47. CASE SupervisorKilled
  BY <1>47 DEF SupervisorKilled
<1>48. CASE GroupKilled
  BY <1>48 DEF GroupKilled
<1>49. CASE Finished
  BY <1>49 DEF Finished, vars
<1>50. CASE UNCHANGED vars
  BY <1>50 DEF vars
<1> QED
  BY <1>1, <1>2, <1>3, <1>4, <1>5, <1>6, <1>7, <1>8, <1>9, <1>10, <1>12, <1>13, <1>14, <1>15, <1>16, <1>17, <1>18, <1>19, <1>20, <1>21, <1>22, <1>23, <1>24, <1>25, <1>26, <1>27, <1>28, <1>29, <1>30, <1>31, <1>32, <1>33, <1>34, <1>35, <1>36, <1>37, <1>38, <1>39, <1>40, <1>41, <1>42, <1>43, <1>44, <1>45, <1>46, <1>47, <1>48, <1>49, <1>50, <1>51, <1>52, <1>53, <1>54, <1>55 DEF Next, Writing, SpawnStep, Call, CallStep, SupStep, Outside, Fault

-----------------------------------------------------------------------------
(* The target exists, and is reaped, in step with the supervisor. *)
LEMMA LifeStep == ASSUME LifeInv, [Next]_vars PROVE LifeInv'
<1> USE DEF
        LifeInv, Live, SupLive, Over, ownVars, pipeVars, supVars, wireVars,
        tgtVars, world, libSide, aroundTarget, SupervisorEnds, SendFatal,
        ReapTarget, ReapSupervisor
<1>1. CASE SpawnFails
  BY <1>1 DEF SpawnFails
<1>2. CASE ForkSupervisor
  BY <1>2 DEF ForkSupervisor
<1>3. CASE ReadSpawnOk
  BY <1>3 DEF ReadSpawnOk
<1>4. CASE ReadSpawnError
  BY <1>4 DEF ReadSpawnError
<1>5. CASE ReapFailedSupervisor
  BY <1>5 DEF ReapFailedSupervisor
<1>6. CASE CallWait
  BY <1>6 DEF CallWait
<1>7. CASE CallSignal
  BY <1>7 DEF CallSignal
<1>8. CASE CallDestroy
  BY <1>8 DEF CallDestroy
<1>9. CASE CallMoveAssign
  BY <1>9 DEF CallMoveAssign
<1>10. CASE CallDetach
  BY <1>10 DEF CallDetach
<1>51. CASE DetachReleases
  BY <1>51 DEF DetachReleases
<1>52. CASE CallerWrites
  BY <1>52 DEF CallerWrites
<1>53. CASE CallbackWrites
  BY <1>53 DEF CallbackWrites
<1>54. CASE CallbackLocks
  BY <1>54 DEF CallbackLocks
<1>55. CASE WriteEnds
  BY <1>55 DEF WriteEnds
<1>12. CASE PollTimesOut
  BY <1>12 DEF PollTimesOut
<1>13. CASE SignalKill
  BY <1>13 DEF SignalKill
<1>14. CASE SignalRequest
  BY <1>14 DEF SignalRequest
<1>15. CASE Reap
  BY <1>15 DEF Reap
<1>16. CASE Join
  BY <1>16 DEF Join
<1>17. CASE DtorClose
  BY <1>17 DEF DtorClose
<1>18. CASE DtorReap
  BY <1>18 DEF DtorReap
<1>19. CASE DetachReap
  BY <1>19 DEF DetachReap
<1>20. CASE DetachJoin
  BY <1>20 DEF DetachJoin
<1>21. CASE ReapInterrupted
  BY <1>21 DEF ReapInterrupted
<1>22. CASE LibraryDies
  BY <1>22 DEF LibraryDies
<1>23. CASE SupForksTarget
  BY <1>23 DEF SupForksTarget
<1>24. CASE SupForkFails
  BY <1>24 DEF SupForkFails
<1>25. CASE SupReadsProbe
  BY <1>25 DEF SupReadsProbe
<1>26. CASE SupProbeInterrupted
  BY <1>26 DEF SupProbeInterrupted
<1>27. CASE SupReportsError
  BY <1>27 DEF SupReportsError
<1>28. CASE SupReapsFailed
  BY <1>28 DEF SupReapsFailed
<1>29. CASE SupReportsOk
  BY <1>29 DEF SupReportsOk
<1>30. CASE SupMovesToOwnGroup
  BY <1>30 DEF SupMovesToOwnGroup
<1>31. CASE SupSamplesLifecycle
  BY <1>31 DEF SupSamplesLifecycle
<1>32. CASE SupSamplesRelease
  BY <1>32 DEF SupSamplesRelease
<1>33. CASE SupLetsGo
  BY <1>33 DEF SupLetsGo
<1>34. CASE SupKillsTarget
  BY <1>34 DEF SupKillsTarget
<1>35. CASE SupChecksTarget
  BY <1>35 DEF SupChecksTarget
<1>36. CASE SupPollFails
  BY <1>36 DEF SupPollFails
<1>37. CASE SupReapsKilled
  BY <1>37 DEF SupReapsKilled
<1>38. CASE TargetExecs
  BY <1>38 DEF TargetExecs
<1>39. CASE TargetExecFails
  BY <1>39 DEF TargetExecFails
<1>40. CASE TargetForksKid
  BY <1>40 DEF TargetForksKid
<1>41. CASE TargetExits
  BY <1>41 DEF TargetExits
<1>42. CASE TargetKilled
  BY <1>42 DEF TargetKilled
<1>43. CASE KidExits
  BY <1>43 DEF KidExits
<1>44. CASE InitReaps
  BY <1>44 DEF InitReaps
<1>45. CASE PidReused
  BY <1>45 DEF PidReused
<1>46. CASE ReaderStops
  BY <1>46 DEF ReaderStops
<1>47. CASE SupervisorKilled
  BY <1>47 DEF SupervisorKilled
<1>48. CASE GroupKilled
  BY <1>48 DEF GroupKilled
<1>49. CASE Finished
  BY <1>49 DEF Finished, vars
<1>50. CASE UNCHANGED vars
  BY <1>50 DEF vars
<1> QED
  BY <1>1, <1>2, <1>3, <1>4, <1>5, <1>6, <1>7, <1>8, <1>9, <1>10, <1>12, <1>13, <1>14, <1>15, <1>16, <1>17, <1>18, <1>19, <1>20, <1>21, <1>22, <1>23, <1>24, <1>25, <1>26, <1>27, <1>28, <1>29, <1>30, <1>31, <1>32, <1>33, <1>34, <1>35, <1>36, <1>37, <1>38, <1>39, <1>40, <1>41, <1>42, <1>43, <1>44, <1>45, <1>46, <1>47, <1>48, <1>49, <1>50, <1>51, <1>52, <1>53, <1>54, <1>55 DEF Next, Writing, SpawnStep, Call, CallStep, SupStep, Outside, Fault

(* The handle owns the pid of a supervisor nobody has reaped. *)
LEMMA OwnStep == ASSUME LifeInv, OwnInv, [Next]_vars PROVE OwnInv'
<1> USE DEF
        LifeInv, OwnInv, Early, Live, SupLive, Over, ownVars, pipeVars, supVars,
        wireVars, tgtVars, world, libSide, aroundTarget, SupervisorEnds,
        SendFatal, ReapTarget, ReapSupervisor
<1>1. CASE SpawnFails
  BY <1>1 DEF SpawnFails
<1>2. CASE ForkSupervisor
  BY <1>2 DEF ForkSupervisor
<1>3. CASE ReadSpawnOk
  BY <1>3 DEF ReadSpawnOk
<1>4. CASE ReadSpawnError
  BY <1>4 DEF ReadSpawnError
<1>5. CASE ReapFailedSupervisor
  BY <1>5 DEF ReapFailedSupervisor
<1>6. CASE CallWait
  BY <1>6 DEF CallWait
<1>7. CASE CallSignal
  BY <1>7 DEF CallSignal
<1>8. CASE CallDestroy
  BY <1>8 DEF CallDestroy
<1>9. CASE CallMoveAssign
  BY <1>9 DEF CallMoveAssign
<1>10. CASE CallDetach
  BY <1>10 DEF CallDetach
<1>51. CASE DetachReleases
  BY <1>51 DEF DetachReleases
<1>52. CASE CallerWrites
  BY <1>52 DEF CallerWrites
<1>53. CASE CallbackWrites
  BY <1>53 DEF CallbackWrites
<1>54. CASE CallbackLocks
  BY <1>54 DEF CallbackLocks
<1>55. CASE WriteEnds
  BY <1>55 DEF WriteEnds
<1>12. CASE PollTimesOut
  BY <1>12 DEF PollTimesOut
<1>13. CASE SignalKill
  BY <1>13 DEF SignalKill
<1>14. CASE SignalRequest
  BY <1>14 DEF SignalRequest
<1>15. CASE Reap
  BY <1>15 DEF Reap
<1>16. CASE Join
  BY <1>16 DEF Join
<1>17. CASE DtorClose
  BY <1>17 DEF DtorClose
<1>18. CASE DtorReap
  BY <1>18 DEF DtorReap
<1>19. CASE DetachReap
  BY <1>19 DEF DetachReap
<1>20. CASE DetachJoin
  BY <1>20 DEF DetachJoin
<1>21. CASE ReapInterrupted
  BY <1>21 DEF ReapInterrupted
<1>22. CASE LibraryDies
  BY <1>22 DEF LibraryDies
<1>23. CASE SupForksTarget
  BY <1>23 DEF SupForksTarget
<1>24. CASE SupForkFails
  BY <1>24 DEF SupForkFails
<1>25. CASE SupReadsProbe
  BY <1>25 DEF SupReadsProbe
<1>26. CASE SupProbeInterrupted
  BY <1>26 DEF SupProbeInterrupted
<1>27. CASE SupReportsError
  BY <1>27 DEF SupReportsError
<1>28. CASE SupReapsFailed
  BY <1>28 DEF SupReapsFailed
<1>29. CASE SupReportsOk
  BY <1>29 DEF SupReportsOk
<1>30. CASE SupMovesToOwnGroup
  BY <1>30 DEF SupMovesToOwnGroup
<1>31. CASE SupSamplesLifecycle
  BY <1>31 DEF SupSamplesLifecycle
<1>32. CASE SupSamplesRelease
  BY <1>32 DEF SupSamplesRelease
<1>33. CASE SupLetsGo
  BY <1>33 DEF SupLetsGo
<1>34. CASE SupKillsTarget
  BY <1>34 DEF SupKillsTarget
<1>35. CASE SupChecksTarget
  BY <1>35 DEF SupChecksTarget
<1>36. CASE SupPollFails
  BY <1>36 DEF SupPollFails
<1>37. CASE SupReapsKilled
  BY <1>37 DEF SupReapsKilled
<1>38. CASE TargetExecs
  BY <1>38 DEF TargetExecs
<1>39. CASE TargetExecFails
  BY <1>39 DEF TargetExecFails
<1>40. CASE TargetForksKid
  BY <1>40 DEF TargetForksKid
<1>41. CASE TargetExits
  BY <1>41 DEF TargetExits
<1>42. CASE TargetKilled
  BY <1>42 DEF TargetKilled
<1>43. CASE KidExits
  BY <1>43 DEF KidExits
<1>44. CASE InitReaps
  BY <1>44 DEF InitReaps
<1>45. CASE PidReused
  BY <1>45 DEF PidReused
<1>46. CASE ReaderStops
  BY <1>46 DEF ReaderStops
<1>47. CASE SupervisorKilled
  BY <1>47 DEF SupervisorKilled
<1>48. CASE GroupKilled
  BY <1>48 DEF GroupKilled
<1>49. CASE Finished
  BY <1>49 DEF Finished, vars
<1>50. CASE UNCHANGED vars
  BY <1>50 DEF vars
<1> QED
  BY <1>1, <1>2, <1>3, <1>4, <1>5, <1>6, <1>7, <1>8, <1>9, <1>10, <1>12, <1>13, <1>14, <1>15, <1>16, <1>17, <1>18, <1>19, <1>20, <1>21, <1>22, <1>23, <1>24, <1>25, <1>26, <1>27, <1>28, <1>29, <1>30, <1>31, <1>32, <1>33, <1>34, <1>35, <1>36, <1>37, <1>38, <1>39, <1>40, <1>41, <1>42, <1>43, <1>44, <1>45, <1>46, <1>47, <1>48, <1>49, <1>50, <1>51, <1>52, <1>53, <1>54, <1>55 DEF Next, Writing, SpawnStep, Call, CallStep, SupStep, Outside, Fault

(* The pipes stay open while the handle needs them. *)
LEMMA PipeStep == ASSUME OwnInv, PipeInv, [Next]_vars PROVE PipeInv'
<1> USE DEF
        OwnInv, PipeInv, Early, Owning, SupLive, Over, ownVars, pipeVars,
        supVars, wireVars, tgtVars, world, libSide, aroundTarget,
        SupervisorEnds, ReapSupervisor
<1>1. CASE SpawnFails
  BY <1>1 DEF SpawnFails
<1>2. CASE ForkSupervisor
  BY <1>2 DEF ForkSupervisor
<1>3. CASE ReadSpawnOk
  BY <1>3 DEF ReadSpawnOk
<1>4. CASE ReadSpawnError
  BY <1>4 DEF ReadSpawnError
<1>5. CASE ReapFailedSupervisor
  BY <1>5 DEF ReapFailedSupervisor
<1>6. CASE CallWait
  BY <1>6 DEF CallWait
<1>7. CASE CallSignal
  BY <1>7 DEF CallSignal
<1>8. CASE CallDestroy
  BY <1>8 DEF CallDestroy
<1>9. CASE CallMoveAssign
  BY <1>9 DEF CallMoveAssign
<1>10. CASE CallDetach
  BY <1>10 DEF CallDetach
<1>51. CASE DetachReleases
  BY <1>51 DEF DetachReleases
<1>52. CASE CallerWrites
  BY <1>52 DEF CallerWrites
<1>53. CASE CallbackWrites
  BY <1>53 DEF CallbackWrites
<1>54. CASE CallbackLocks
  BY <1>54 DEF CallbackLocks
<1>55. CASE WriteEnds
  BY <1>55 DEF WriteEnds
<1>12. CASE PollTimesOut
  BY <1>12 DEF PollTimesOut
<1>13. CASE SignalKill
  BY <1>13 DEF SignalKill
<1>14. CASE SignalRequest
  BY <1>14 DEF SignalRequest
<1>15. CASE Reap
  BY <1>15 DEF Reap
<1>16. CASE Join
  BY <1>16 DEF Join
<1>17. CASE DtorClose
  BY <1>17 DEF DtorClose
<1>18. CASE DtorReap
  BY <1>18 DEF DtorReap
<1>19. CASE DetachReap
  BY <1>19 DEF DetachReap
<1>20. CASE DetachJoin
  BY <1>20 DEF DetachJoin
<1>21. CASE ReapInterrupted
  BY <1>21 DEF ReapInterrupted
<1>22. CASE LibraryDies
  BY <1>22 DEF LibraryDies
<1>23. CASE SupForksTarget
  BY <1>23 DEF SupForksTarget
<1>24. CASE SupForkFails
  BY <1>24 DEF SupForkFails
<1>25. CASE SupReadsProbe
  BY <1>25 DEF SupReadsProbe
<1>26. CASE SupProbeInterrupted
  BY <1>26 DEF SupProbeInterrupted
<1>27. CASE SupReportsError
  BY <1>27 DEF SupReportsError
<1>28. CASE SupReapsFailed
  BY <1>28 DEF SupReapsFailed
<1>29. CASE SupReportsOk
  BY <1>29 DEF SupReportsOk
<1>30. CASE SupMovesToOwnGroup
  BY <1>30 DEF SupMovesToOwnGroup
<1>31. CASE SupSamplesLifecycle
  BY <1>31 DEF SupSamplesLifecycle
<1>32. CASE SupSamplesRelease
  BY <1>32 DEF SupSamplesRelease
<1>33. CASE SupLetsGo
  BY <1>33 DEF SupLetsGo
<1>34. CASE SupKillsTarget
  BY <1>34 DEF SupKillsTarget
<1>35. CASE SupChecksTarget
  BY <1>35 DEF SupChecksTarget
<1>36. CASE SupPollFails
  BY <1>36 DEF SupPollFails
<1>37. CASE SupReapsKilled
  BY <1>37 DEF SupReapsKilled
<1>38. CASE TargetExecs
  BY <1>38 DEF TargetExecs
<1>39. CASE TargetExecFails
  BY <1>39 DEF TargetExecFails
<1>40. CASE TargetForksKid
  BY <1>40 DEF TargetForksKid
<1>41. CASE TargetExits
  BY <1>41 DEF TargetExits
<1>42. CASE TargetKilled
  BY <1>42 DEF TargetKilled
<1>43. CASE KidExits
  BY <1>43 DEF KidExits
<1>44. CASE InitReaps
  BY <1>44 DEF InitReaps
<1>45. CASE PidReused
  BY <1>45 DEF PidReused
<1>46. CASE ReaderStops
  BY <1>46 DEF ReaderStops
<1>47. CASE SupervisorKilled
  BY <1>47 DEF SupervisorKilled
<1>48. CASE GroupKilled
  BY <1>48 DEF GroupKilled
<1>49. CASE Finished
  BY <1>49 DEF Finished, vars
<1>50. CASE UNCHANGED vars
  BY <1>50 DEF vars
<1> QED
  BY <1>1, <1>2, <1>3, <1>4, <1>5, <1>6, <1>7, <1>8, <1>9, <1>10, <1>12, <1>13, <1>14, <1>15, <1>16, <1>17, <1>18, <1>19, <1>20, <1>21, <1>22, <1>23, <1>24, <1>25, <1>26, <1>27, <1>28, <1>29, <1>30, <1>31, <1>32, <1>33, <1>34, <1>35, <1>36, <1>37, <1>38, <1>39, <1>40, <1>41, <1>42, <1>43, <1>44, <1>45, <1>46, <1>47, <1>48, <1>49, <1>50, <1>51, <1>52, <1>53, <1>54, <1>55 DEF Next, Writing, SpawnStep, Call, CallStep, SupStep, Outside, Fault

(* The supervisor kills for a reason, and never after a release it could see. *)
LEMMA KillerStep == ASSUME LifeInv, PipeInv, KillerInv, [Next]_vars PROVE KillerInv'
<1> USE DEF
        LifeInv, PipeInv, KillerInv, Owning, Live, SupLive, Over, ownVars,
        pipeVars, supVars, wireVars, tgtVars, world, libSide, aroundTarget,
        SupervisorEnds, SendFatal, ReapTarget, ReapSupervisor, ReleaseSeen,
        LifecycleSeen
<1>1. CASE SpawnFails
  BY <1>1 DEF SpawnFails
<1>2. CASE ForkSupervisor
  BY <1>2 DEF ForkSupervisor
<1>3. CASE ReadSpawnOk
  BY <1>3 DEF ReadSpawnOk
<1>4. CASE ReadSpawnError
  BY <1>4 DEF ReadSpawnError
<1>5. CASE ReapFailedSupervisor
  BY <1>5 DEF ReapFailedSupervisor
<1>6. CASE CallWait
  BY <1>6 DEF CallWait
<1>7. CASE CallSignal
  BY <1>7 DEF CallSignal
<1>8. CASE CallDestroy
  BY <1>8 DEF CallDestroy
<1>9. CASE CallMoveAssign
  BY <1>9 DEF CallMoveAssign
<1>10. CASE CallDetach
  BY <1>10 DEF CallDetach
<1>51. CASE DetachReleases
  BY <1>51 DEF DetachReleases
<1>52. CASE CallerWrites
  BY <1>52 DEF CallerWrites
<1>53. CASE CallbackWrites
  BY <1>53 DEF CallbackWrites
<1>54. CASE CallbackLocks
  BY <1>54 DEF CallbackLocks
<1>55. CASE WriteEnds
  BY <1>55 DEF WriteEnds
<1>12. CASE PollTimesOut
  BY <1>12 DEF PollTimesOut
<1>13. CASE SignalKill
  BY <1>13 DEF SignalKill
<1>14. CASE SignalRequest
  BY <1>14 DEF SignalRequest
<1>15. CASE Reap
  BY <1>15 DEF Reap
<1>16. CASE Join
  BY <1>16 DEF Join
<1>17. CASE DtorClose
  BY <1>17 DEF DtorClose
<1>18. CASE DtorReap
  BY <1>18 DEF DtorReap
<1>19. CASE DetachReap
  BY <1>19 DEF DetachReap
<1>20. CASE DetachJoin
  BY <1>20 DEF DetachJoin
<1>21. CASE ReapInterrupted
  BY <1>21 DEF ReapInterrupted
<1>22. CASE LibraryDies
  BY <1>22 DEF LibraryDies
<1>23. CASE SupForksTarget
  BY <1>23 DEF SupForksTarget
<1>24. CASE SupForkFails
  BY <1>24 DEF SupForkFails
<1>25. CASE SupReadsProbe
  BY <1>25 DEF SupReadsProbe
<1>26. CASE SupProbeInterrupted
  BY <1>26 DEF SupProbeInterrupted
<1>27. CASE SupReportsError
  BY <1>27 DEF SupReportsError
<1>28. CASE SupReapsFailed
  BY <1>28 DEF SupReapsFailed
<1>29. CASE SupReportsOk
  BY <1>29 DEF SupReportsOk
<1>30. CASE SupMovesToOwnGroup
  BY <1>30 DEF SupMovesToOwnGroup
<1>31. CASE SupSamplesLifecycle
  BY <1>31 DEF SupSamplesLifecycle
<1>32. CASE SupSamplesRelease
  BY <1>32 DEF SupSamplesRelease
<1>33. CASE SupLetsGo
  BY <1>33 DEF SupLetsGo
<1>34. CASE SupKillsTarget
  BY <1>34 DEF SupKillsTarget
<1>35. CASE SupChecksTarget
  BY <1>35 DEF SupChecksTarget
<1>36. CASE SupPollFails
  BY <1>36 DEF SupPollFails
<1>37. CASE SupReapsKilled
  BY <1>37 DEF SupReapsKilled
<1>38. CASE TargetExecs
  BY <1>38 DEF TargetExecs
<1>39. CASE TargetExecFails
  BY <1>39 DEF TargetExecFails
<1>40. CASE TargetForksKid
  BY <1>40 DEF TargetForksKid
<1>41. CASE TargetExits
  BY <1>41 DEF TargetExits
<1>42. CASE TargetKilled
  BY <1>42 DEF TargetKilled
<1>43. CASE KidExits
  BY <1>43 DEF KidExits
<1>44. CASE InitReaps
  BY <1>44 DEF InitReaps
<1>45. CASE PidReused
  BY <1>45 DEF PidReused
<1>46. CASE ReaderStops
  BY <1>46 DEF ReaderStops
<1>47. CASE SupervisorKilled
  BY <1>47 DEF SupervisorKilled
<1>48. CASE GroupKilled
  BY <1>48 DEF GroupKilled
<1>49. CASE Finished
  BY <1>49 DEF Finished, vars
<1>50. CASE UNCHANGED vars
  BY <1>50 DEF vars
<1> QED
  BY <1>1, <1>2, <1>3, <1>4, <1>5, <1>6, <1>7, <1>8, <1>9, <1>10, <1>12, <1>13, <1>14, <1>15, <1>16, <1>17, <1>18, <1>19, <1>20, <1>21, <1>22, <1>23, <1>24, <1>25, <1>26, <1>27, <1>28, <1>29, <1>30, <1>31, <1>32, <1>33, <1>34, <1>35, <1>36, <1>37, <1>38, <1>39, <1>40, <1>41, <1>42, <1>43, <1>44, <1>45, <1>46, <1>47, <1>48, <1>49, <1>50, <1>51, <1>52, <1>53, <1>54, <1>55 DEF Next, Writing, SpawnStep, Call, CallStep, SupStep, Outside, Fault

-----------------------------------------------------------------------------
(* Sequences of up to two messages. *)
LEMMA AppendToOne == ASSUME NEW m, NEW n PROVE Append(<<n>>, m) = <<n, m>>
<1>1. <<n>> \in Seq({m, n}) /\ <<n, m>> \in Seq({m, n}) /\ Len(<<n>>) = 1
  OBVIOUS
<1>2. /\ Append(<<n>>, m) \in Seq({m, n}) /\ Len(Append(<<n>>, m)) = 2
      /\ Append(<<n>>, m)[1] = n /\ Append(<<n>>, m)[2] = m
  BY <1>1, AppendProperties
<1>3. Len(<<n, m>>) = 2 /\ <<n, m>>[1] = n /\ <<n, m>>[2] = m
  OBVIOUS
<1>4. \A i \in 1..Len(Append(<<n>>, m)) : Append(<<n>>, m)[i] = <<n, m>>[i]
  <2>1. \A i \in 1..2 : i = 1 \/ i = 2
    OBVIOUS
  <2> QED
    BY <2>1, <1>2, <1>3
<1> QED
  BY <1>1, <1>2, <1>3, <1>4, SeqEqual, Zenon

LEMMA PipeFacts ==
    ASSUME NEW m, NEW n
    PROVE  /\ Append(<<>>, m) = <<m>>
           /\ <<m>> # <<>> /\ <<m, n>> # <<>>
           /\ Head(<<m>>) = m /\ Tail(<<m>>) = <<>>
           /\ Head(<<m, n>>) = m /\ Tail(<<m, n>>) = <<n>>
  OBVIOUS

(* A message 1 that says ok comes from a supervisor that watches the       *)
(* target, or has already reported its exit behind it. *)
LEMMA ReadOk ==
    ASSUME OwnInv, KillerInv, InfoInv, SupTypeOK,
           lib = "message1", info # <<>>, Head(info).tag = 0
    PROVE  /\ sup \in Watching \cup {"exited"}
           /\ \/ info = <<OkMsg>> /\ (sup = "exited" => supExit \in {"one", "signal"})
              \/ info = <<OkMsg, ExitMsg(status)>> /\ sup = "exited" /\ tgt = "reaped"
<1>1. info # <<ErrMsg>>
  BY DEF ErrMsg
<1>2. sup \notin {"none", "reaped"}
  BY DEF OwnInv
<1> QED
  BY <1>1, <1>2 DEF InfoInv, SupTypeOK, SupLive, Watching

(* What a reap of the supervisor reads: the target's exit code if the      *)
(* supervisor reported it, -1 only if it ended abnormally. *)
LEMMA ExitRead ==
    ASSUME OwnInv, KillerInv, InfoInv, SupTypeOK, lib \in {"poll", "reap"}, sup = "exited"
    PROVE  \/ tgt = "reaped" /\ ExitCodeRead = Encode(status)
           \/ ExitCodeRead = -1 /\ supExit \in {"one", "signal"}
<1>1. supPid
  BY DEF OwnInv
<1>2. CASE info = <<>> /\ supExit \in {"one", "signal"}
  BY <1>2 DEF ExitCodeRead
<1>3. CASE info = <<ExitMsg(status)>> /\ tgt = "reaped"
  <2>1. Head(info) = ExitMsg(status) /\ info # <<>>
    BY <1>3
  <2>2. Encode(Head(info)) = Encode(status) /\ Head(info).tag = 2
    BY <2>1 DEF Encode, ExitMsg
  <2>3. supExit \in {"zero", "one", "signal"}
    BY DEF KillerInv, SupTypeOK
  <2> QED
    BY <1>3, <2>1, <2>2, <2>3 DEF ExitCodeRead
<1> QED
  BY <1>1, <1>2, <1>3 DEF InfoInv, Owning

(* The messages on the info pipe keep their order and their place. *)
LEMMA InfoStep == ASSUME SupTypeOK, LifeInv, OwnInv, PipeInv, KillerInv, InfoInv, [Next]_vars PROVE InfoInv'
<1> USE DEF
        LifeInv, OwnInv, PipeInv, KillerInv, InfoInv, Early, Owning, Watching,
        Live, SupLive, Over, ownVars, pipeVars, supVars, wireVars, tgtVars,
        world, libSide, aroundTarget, SupervisorEnds, SendFatal, ReapTarget,
        ReapSupervisor, InfoReaderGone, ReleaseSeen, LifecycleSeen, InfoEof
<1>1. CASE SpawnFails
  BY <1>1 DEF SpawnFails
<1>2. CASE ForkSupervisor
  BY <1>2 DEF ForkSupervisor
<1>3. CASE ReadSpawnOk
  <2>1. CASE info = <<OkMsg>> /\ (sup = "exited" => supExit \in {"one", "signal"})
    BY <1>3, <2>1, ReadOk, PipeFacts DEF ReadSpawnOk
  <2>2. CASE info = <<OkMsg, ExitMsg(status)>> /\ sup = "exited" /\ tgt = "reaped"
    BY <1>3, <2>2, ReadOk, PipeFacts DEF ReadSpawnOk
  <2> QED
    BY <1>3, <2>1, <2>2, ReadOk DEF ReadSpawnOk
<1>4. CASE ReadSpawnError
  BY <1>4, PipeFacts DEF ReadSpawnError
<1>5. CASE ReapFailedSupervisor
  BY <1>5 DEF ReapFailedSupervisor
<1>6. CASE CallWait
  BY <1>6 DEF CallWait
<1>7. CASE CallSignal
  BY <1>7 DEF CallSignal
<1>8. CASE CallDestroy
  BY <1>8 DEF CallDestroy
<1>9. CASE CallMoveAssign
  BY <1>9 DEF CallMoveAssign
<1>10. CASE CallDetach
  BY <1>10 DEF CallDetach
<1>51. CASE DetachReleases
  BY <1>51 DEF DetachReleases
<1>52. CASE CallerWrites
  BY <1>52 DEF CallerWrites
<1>53. CASE CallbackWrites
  BY <1>53 DEF CallbackWrites
<1>54. CASE CallbackLocks
  BY <1>54 DEF CallbackLocks
<1>55. CASE WriteEnds
  BY <1>55 DEF WriteEnds
<1>12. CASE PollTimesOut
  BY <1>12 DEF PollTimesOut
<1>13. CASE SignalKill
  BY <1>13 DEF SignalKill
<1>14. CASE SignalRequest
  BY <1>14 DEF SignalRequest
<1>15. CASE Reap
  BY <1>15 DEF Reap
<1>16. CASE Join
  BY <1>16 DEF Join
<1>17. CASE DtorClose
  BY <1>17 DEF DtorClose
<1>18. CASE DtorReap
  BY <1>18 DEF DtorReap
<1>19. CASE DetachReap
  BY <1>19 DEF DetachReap
<1>20. CASE DetachJoin
  BY <1>20 DEF DetachJoin
<1>21. CASE ReapInterrupted
  BY <1>21 DEF ReapInterrupted
<1>22. CASE LibraryDies
  BY <1>22 DEF LibraryDies
<1>23. CASE SupForksTarget
  BY <1>23 DEF SupForksTarget
<1>24. CASE SupForkFails
  BY <1>24, PipeFacts DEF SupForkFails
<1>25. CASE SupReadsProbe
  BY <1>25 DEF SupReadsProbe
<1>26. CASE SupProbeInterrupted
  BY <1>26 DEF SupProbeInterrupted
<1>27. CASE SupReportsError
  BY <1>27, PipeFacts DEF SupReportsError
<1>28. CASE SupReapsFailed
  BY <1>28 DEF SupReapsFailed
<1>29. CASE SupReportsOk
  BY <1>29, PipeFacts DEF SupReportsOk
<1>30. CASE SupMovesToOwnGroup
  BY <1>30 DEF SupMovesToOwnGroup
<1>31. CASE SupSamplesLifecycle
  BY <1>31 DEF SupSamplesLifecycle
<1>32. CASE SupSamplesRelease
  BY <1>32 DEF SupSamplesRelease
<1>33. CASE SupLetsGo
  BY <1>33 DEF SupLetsGo
<1>34. CASE SupKillsTarget
  BY <1>34 DEF SupKillsTarget
<1>35. CASE SupChecksTarget
  <2>1. CASE tgt # "zombie"
    BY <1>35, <2>1 DEF SupChecksTarget
  <2>2. CASE tgt = "zombie" /\ lib = "message1"
    <3>1. info' = <<OkMsg, ExitMsg(status)>>
      BY <1>35, <2>2, AppendToOne DEF SupChecksTarget
    <3> QED
      BY <1>35, <2>2, <3>1 DEF SupChecksTarget
  <2>3. CASE tgt = "zombie" /\ lib \in Owning /\ supPid
    <3>1. info' = <<ExitMsg(status)>>
      BY <1>35, <2>3, PipeFacts DEF SupChecksTarget
    <3> QED
      BY <1>35, <2>3, <3>1 DEF SupChecksTarget
  <2>4. CASE lib # "message1" /\ ~(lib \in Owning /\ supPid)
    BY <1>35, <2>4 DEF SupChecksTarget
  <2> QED
    BY <2>1, <2>2, <2>3, <2>4
<1>36. CASE SupPollFails
  BY <1>36 DEF SupPollFails
<1>37. CASE SupReapsKilled
  BY <1>37 DEF SupReapsKilled
<1>38. CASE TargetExecs
  BY <1>38 DEF TargetExecs
<1>39. CASE TargetExecFails
  BY <1>39 DEF TargetExecFails
<1>40. CASE TargetForksKid
  BY <1>40 DEF TargetForksKid
<1>41. CASE TargetExits
  BY <1>41 DEF TargetExits
<1>42. CASE TargetKilled
  BY <1>42 DEF TargetKilled
<1>43. CASE KidExits
  BY <1>43 DEF KidExits
<1>44. CASE InitReaps
  BY <1>44 DEF InitReaps
<1>45. CASE PidReused
  BY <1>45 DEF PidReused
<1>46. CASE ReaderStops
  BY <1>46 DEF ReaderStops
<1>47. CASE SupervisorKilled
  BY <1>47 DEF SupervisorKilled
<1>48. CASE GroupKilled
  BY <1>48 DEF GroupKilled
<1>49. CASE Finished
  BY <1>49 DEF Finished, vars
<1>50. CASE UNCHANGED vars
  BY <1>50 DEF vars
<1> QED
  BY <1>1, <1>2, <1>3, <1>4, <1>5, <1>6, <1>7, <1>8, <1>9, <1>10, <1>12, <1>13, <1>14, <1>15, <1>16, <1>17, <1>18, <1>19, <1>20, <1>21, <1>22, <1>23, <1>24, <1>25, <1>26, <1>27, <1>28, <1>29, <1>30, <1>31, <1>32, <1>33, <1>34, <1>35, <1>36, <1>37, <1>38, <1>39, <1>40, <1>41, <1>42, <1>43, <1>44, <1>45, <1>46, <1>47, <1>48, <1>49, <1>50, <1>51, <1>52, <1>53, <1>54, <1>55 DEF Next, Writing, SpawnStep, Call, CallStep, SupStep, Outside, Fault

(* The exit code, once read, stays the true one. *)
LEMMA CodeStep == ASSUME SupTypeOK, LifeInv, OwnInv, PipeInv, KillerInv, InfoInv, CodeInv, [Next]_vars PROVE CodeInv'
<1> USE DEF
        LifeInv, OwnInv, PipeInv, CodeInv, CodeKnown, Early, Owning, Live,
        SupLive, Over, ownVars, pipeVars, supVars, wireVars, tgtVars, world,
        libSide, aroundTarget, SupervisorEnds, SendFatal, ReapTarget,
        ReapSupervisor, Encode
<1>1. CASE SpawnFails
  BY <1>1 DEF SpawnFails
<1>2. CASE ForkSupervisor
  BY <1>2 DEF ForkSupervisor
<1>3. CASE ReadSpawnOk
  BY <1>3 DEF ReadSpawnOk
<1>4. CASE ReadSpawnError
  BY <1>4 DEF ReadSpawnError
<1>5. CASE ReapFailedSupervisor
  BY <1>5 DEF ReapFailedSupervisor
<1>6. CASE CallWait
  BY <1>6 DEF CallWait
<1>7. CASE CallSignal
  BY <1>7 DEF CallSignal
<1>8. CASE CallDestroy
  BY <1>8 DEF CallDestroy
<1>9. CASE CallMoveAssign
  BY <1>9 DEF CallMoveAssign
<1>10. CASE CallDetach
  BY <1>10 DEF CallDetach
<1>51. CASE DetachReleases
  BY <1>51 DEF DetachReleases
<1>52. CASE CallerWrites
  BY <1>52 DEF CallerWrites
<1>53. CASE CallbackWrites
  BY <1>53 DEF CallbackWrites
<1>54. CASE CallbackLocks
  BY <1>54 DEF CallbackLocks
<1>55. CASE WriteEnds
  BY <1>55 DEF WriteEnds
<1>12. CASE PollTimesOut
  BY <1>12 DEF PollTimesOut
<1>13. CASE SignalKill
  BY <1>13 DEF SignalKill
<1>14. CASE SignalRequest
  BY <1>14 DEF SignalRequest
<1>15. CASE Reap
  BY <1>15, ExitRead DEF Reap
<1>16. CASE Join
  BY <1>16 DEF Join
<1>17. CASE DtorClose
  BY <1>17 DEF DtorClose
<1>18. CASE DtorReap
  BY <1>18 DEF DtorReap
<1>19. CASE DetachReap
  BY <1>19 DEF DetachReap
<1>20. CASE DetachJoin
  BY <1>20 DEF DetachJoin
<1>21. CASE ReapInterrupted
  BY <1>21 DEF ReapInterrupted
<1>22. CASE LibraryDies
  BY <1>22 DEF LibraryDies
<1>23. CASE SupForksTarget
  BY <1>23 DEF SupForksTarget
<1>24. CASE SupForkFails
  BY <1>24 DEF SupForkFails
<1>25. CASE SupReadsProbe
  BY <1>25 DEF SupReadsProbe
<1>26. CASE SupProbeInterrupted
  BY <1>26 DEF SupProbeInterrupted
<1>27. CASE SupReportsError
  BY <1>27 DEF SupReportsError
<1>28. CASE SupReapsFailed
  BY <1>28 DEF SupReapsFailed, KillerInv
<1>29. CASE SupReportsOk
  BY <1>29 DEF SupReportsOk
<1>30. CASE SupMovesToOwnGroup
  BY <1>30 DEF SupMovesToOwnGroup
<1>31. CASE SupSamplesLifecycle
  BY <1>31 DEF SupSamplesLifecycle
<1>32. CASE SupSamplesRelease
  BY <1>32 DEF SupSamplesRelease
<1>33. CASE SupLetsGo
  BY <1>33 DEF SupLetsGo, KillerInv
<1>34. CASE SupKillsTarget
  BY <1>34 DEF SupKillsTarget
<1>35. CASE SupChecksTarget
  BY <1>35 DEF SupChecksTarget, KillerInv
<1>36. CASE SupPollFails
  BY <1>36 DEF SupPollFails
<1>37. CASE SupReapsKilled
  BY <1>37 DEF SupReapsKilled, KillerInv
<1>38. CASE TargetExecs
  BY <1>38 DEF TargetExecs
<1>39. CASE TargetExecFails
  BY <1>39 DEF TargetExecFails
<1>40. CASE TargetForksKid
  BY <1>40 DEF TargetForksKid
<1>41. CASE TargetExits
  BY <1>41 DEF TargetExits
<1>42. CASE TargetKilled
  BY <1>42 DEF TargetKilled
<1>43. CASE KidExits
  BY <1>43 DEF KidExits
<1>44. CASE InitReaps
  BY <1>44 DEF InitReaps
<1>45. CASE PidReused
  BY <1>45 DEF PidReused
<1>46. CASE ReaderStops
  BY <1>46 DEF ReaderStops
<1>47. CASE SupervisorKilled
  BY <1>47 DEF SupervisorKilled
<1>48. CASE GroupKilled
  BY <1>48 DEF GroupKilled
<1>49. CASE Finished
  BY <1>49 DEF Finished, vars
<1>50. CASE UNCHANGED vars
  BY <1>50 DEF vars
<1> QED
  BY <1>1, <1>2, <1>3, <1>4, <1>5, <1>6, <1>7, <1>8, <1>9, <1>10, <1>12, <1>13, <1>14, <1>15, <1>16, <1>17, <1>18, <1>19, <1>20, <1>21, <1>22, <1>23, <1>24, <1>25, <1>26, <1>27, <1>28, <1>29, <1>30, <1>31, <1>32, <1>33, <1>34, <1>35, <1>36, <1>37, <1>38, <1>39, <1>40, <1>41, <1>42, <1>43, <1>44, <1>45, <1>46, <1>47, <1>48, <1>49, <1>50, <1>51, <1>52, <1>53, <1>54, <1>55 DEF Next, Writing, SpawnStep, Call, CallStep, SupStep, Outside, Fault

-----------------------------------------------------------------------------
LEMMA InitIInv == Init => IInv
<1> SUFFICES ASSUME Init PROVE IInv
  OBVIOUS
<1> USE DEF Init
<1>1. TypeOK
  <2>1. supPid \in BOOLEAN /\ waited \in BOOLEAN /\ shutdown \in BOOLEAN
    BY Zenon
  <2>2. release \in BOOLEAN /\ probe \in BOOLEAN /\ strangerHit \in BOOLEAN
    BY Zenon
  <2>3. LibTypeOK
    BY <2>1 DEF LibTypeOK
  <2>4. SupTypeOK
    BY <2>2, EmptySeq DEF SupTypeOK
  <2>5. TgtTypeOK
    BY <2>2 DEF TgtTypeOK, Exited
  <2> QED
    BY <2>3, <2>4, <2>5 DEF TypeOK
<1>2. LifeInv /\ OwnInv /\ PipeInv /\ KillerInv
  BY DEF LifeInv, OwnInv, PipeInv, KillerInv, SupLive, Live, Early, Owning
<1>3. InfoInv /\ CodeInv
  BY DEF InfoInv, CodeInv, Owning
<1> QED
  BY <1>1, <1>2, <1>3 DEF IInv

LEMMA StepIInv == IInv /\ [Next]_vars => IInv'
BY TypeStep, LifeStep, OwnStep, PipeStep, KillerStep, InfoStep, CodeStep DEF IInv, TypeOK

(* The inductive invariant holds in every reachable state. *)
THEOREM Invariance == Spec => []IInv
BY InitIInv, StepIInv, PTL DEF Spec

(* Every variable keeps its type, whatever faults the environment has. *)
THEOREM TypeCorrect == Spec => []TypeOK
<1>1. IInv => TypeOK
  BY DEF IInv
<1> QED
  BY Invariance, <1>1, PTL

(* A finished wait reports the true exit code, or -1 for a known reason. *)
THEOREM ExitCodeIsTrue == Spec => []ExitCodeTruth
<1>1. IInv => ExitCodeTruth
  BY DEF IInv, CodeInv, CodeKnown, ExitCodeTruth
<1> QED
  BY Invariance, <1>1, PTL

(* A target that was released is not killed by the supervisor. *)
THEOREM ReleaseIsFinal == Spec => []ReleaseWins
<1>1. IInv => ReleaseWins
  BY DEF IInv, KillerInv, ReleaseWins
<1> QED
  BY Invariance, <1>1, PTL

(* waitpid() is only called on a supervisor the handle owns. *)
THEOREM OwnsSupervisor == Spec => []HandleOwnsSupervisor
<1>1. IInv => HandleOwnsSupervisor
  BY DEF IInv, OwnInv, HandleOwnsSupervisor
<1> QED
  BY Invariance, <1>1, PTL

(* The supervisor never signals or reaps another process by the number. *)
THEOREM SupervisorPinsPid == Spec => []PidPinned
<1>1. IInv => PidPinned
  BY DEF IInv, LifeInv, PidPinned
<1> QED
  BY Invariance, <1>1, PTL
=============================================================================
