------------------------- MODULE UnixContractProofs -------------------------
(* Proofs that a handle on Unix keeps its promises: what a kill, a failed   *)
(* spawn and the end of a handle leave behind, and that every step of       *)
(* UnixProcess is one that ProcessContract allows.                          *)
EXTENDS UnixContract, UnixProcessProofs

(* A kill takes the tree, and only a running target has one. *)
LEMMA TreeStep == ASSUME LifeInv, HandleInv, TreeInv, [Next]_vars PROVE TreeInv'
<1> USE DEF LifeInv, TreeInv, HandleInv, Watching, KillTakesTheTree, TargetReached, TreeReached, Delivered, Live, SupLive, HasHandle, Over, ownVars, pipeVars, supVars, wireVars, tgtVars,
        world, libSide, aroundTarget, SupervisorEnds, SendFatal, ReapTarget, ReapSupervisor
<1>1. CASE SpawnFails
  BY <1>1 DEF SpawnFails
<1>2. CASE ForkSupervisor
  BY <1>2 DEF ForkSupervisor
<1>3. CASE ReadSpawnOk
  BY <1>3 DEF ReadSpawnOk
<1>4. CASE ReadSpawnError
  BY <1>4 DEF ReadSpawnError
<1>5. CASE ReapFailedSupervisor
  BY <1>5 DEF ReapFailedSupervisor
<1>6. CASE CallWait
  BY <1>6 DEF CallWait
<1>7. CASE CallSignal
  BY <1>7 DEF CallSignal
<1>8. CASE CallDestroy
  BY <1>8 DEF CallDestroy
<1>9. CASE CallMoveAssign
  BY <1>9 DEF CallMoveAssign
<1>10. CASE CallDetach
  BY <1>10 DEF CallDetach
<1>51. CASE DetachReleases
  BY <1>51 DEF DetachReleases
<1>52. CASE CallerWrites
  BY <1>52 DEF CallerWrites
<1>53. CASE CallbackWrites
  BY <1>53 DEF CallbackWrites
<1>54. CASE CallbackLocks
  BY <1>54 DEF CallbackLocks
<1>55. CASE WriteEnds
  BY <1>55 DEF WriteEnds
<1>11. CASE PollTimesOut
  BY <1>11 DEF PollTimesOut
<1>12. CASE SignalKill
  BY <1>12 DEF SignalKill
<1>13. CASE SignalRequest
  BY <1>13 DEF SignalRequest
<1>14. CASE Reap
  BY <1>14 DEF Reap
<1>15. CASE Join
  BY <1>15 DEF Join
<1>16. CASE DtorClose
  BY <1>16 DEF DtorClose
<1>17. CASE DtorReap
  BY <1>17 DEF DtorReap
<1>18. CASE DetachReap
  BY <1>18 DEF DetachReap
<1>19. CASE DetachJoin
  BY <1>19 DEF DetachJoin
<1>20. CASE ReapInterrupted
  BY <1>20 DEF ReapInterrupted
<1>21. CASE LibraryDies
  BY <1>21 DEF LibraryDies
<1>22. CASE SupForksTarget
  BY <1>22 DEF SupForksTarget
<1>23. CASE SupForkFails
  BY <1>23 DEF SupForkFails
<1>24. CASE SupReadsProbe
  BY <1>24 DEF SupReadsProbe
<1>25. CASE SupProbeInterrupted
  BY <1>25 DEF SupProbeInterrupted
<1>26. CASE SupReportsError
  BY <1>26 DEF SupReportsError
<1>27. CASE SupReapsFailed
  BY <1>27 DEF SupReapsFailed
<1>28. CASE SupReportsOk
  BY <1>28 DEF SupReportsOk
<1>29. CASE SupMovesToOwnGroup
  BY <1>29 DEF SupMovesToOwnGroup
<1>30. CASE SupSamplesLifecycle
  BY <1>30 DEF SupSamplesLifecycle
<1>31. CASE SupSamplesRelease
  BY <1>31 DEF SupSamplesRelease
<1>32. CASE SupLetsGo
  BY <1>32 DEF SupLetsGo
<1>33. CASE SupKillsTarget
  BY <1>33 DEF SupKillsTarget
<1>34. CASE SupChecksTarget
  BY <1>34 DEF SupChecksTarget
<1>35. CASE SupPollFails
  BY <1>35 DEF SupPollFails
<1>36. CASE SupReapsKilled
  BY <1>36 DEF SupReapsKilled
<1>37. CASE TargetExecs
  BY <1>37 DEF TargetExecs
<1>38. CASE TargetExecFails
  BY <1>38 DEF TargetExecFails
<1>39. CASE TargetForksKid
  BY <1>39 DEF TargetForksKid
<1>40. CASE TargetExits
  BY <1>40 DEF TargetExits
<1>41. CASE TargetKilled
  BY <1>41 DEF TargetKilled
<1>42. CASE KidExits
  BY <1>42 DEF KidExits
<1>43. CASE InitReaps
  BY <1>43 DEF InitReaps
<1>44. CASE PidReused
  BY <1>44 DEF PidReused
<1>45. CASE ReaderStops
  BY <1>45 DEF ReaderStops
<1>46. CASE SupervisorKilled
  BY <1>46 DEF SupervisorKilled
<1>47. CASE GroupKilled
  BY <1>47 DEF GroupKilled
<1>48. CASE Finished
  BY <1>48 DEF Finished, vars
<1>49. CASE UNCHANGED vars
  BY <1>49 DEF vars
<1> QED
  BY <1>1, <1>2, <1>3, <1>4, <1>5, <1>6, <1>7, <1>8, <1>9, <1>10, <1>11, <1>12,
     <1>13, <1>14, <1>15, <1>16, <1>17, <1>18, <1>19, <1>20, <1>21, <1>22, <1>23,
     <1>24, <1>25, <1>26, <1>27, <1>28, <1>29, <1>30, <1>31, <1>32, <1>33, <1>34,
     <1>35, <1>36, <1>37, <1>38, <1>39, <1>40, <1>41, <1>42, <1>43, <1>44, <1>45,
     <1>46, <1>47, <1>48, <1>49,
     <1>51, <1>52, <1>53, <1>54, <1>55 DEF Next, Writing, SpawnStep, Call, CallStep, SupStep, Outside, Fault

(* Message 1 made the handle, and at most message 2 is in the pipe. *)
LEMMA HandleStep == ASSUME SupTypeOK, LifeInv, OwnInv, PipeInv, KillerInv, InfoInv, HandleInv, SpawnInv, [Next]_vars PROVE HandleInv'
<1> USE DEF LifeInv, OwnInv, PipeInv, HandleInv, Early, Owning, Watching, Live, SupLive, HasHandle, Over, ownVars, pipeVars, supVars, wireVars, tgtVars,
        world, libSide, aroundTarget, SupervisorEnds, SendFatal, ReapTarget, ReapSupervisor, InfoReaderGone
<1>1. CASE SpawnFails
  BY <1>1 DEF SpawnFails
<1>2. CASE ForkSupervisor
  BY <1>2 DEF ForkSupervisor
<1>3. CASE ReadSpawnOk
  <2>1. tgt # "none" /\ (info = <<OkMsg>> \/ info = <<OkMsg, ExitMsg(status)>>)
    BY <1>3, ReadOk, PipeFacts DEF ReadSpawnOk, SpawnInv
  <2>2. info' = <<>> \/ (info' = <<ExitMsg(status)>> /\ tgt = "reaped" /\ sup = "exited")
    <3>1. info' = Tail(info)
      BY <1>3 DEF ReadSpawnOk
    <3>2. CASE info = <<OkMsg>>
      BY <3>1, <3>2, PipeFacts
    <3>3. CASE info = <<OkMsg, ExitMsg(status)>>
      <4>1. info # <<OkMsg>>
        BY <3>3
      <4> QED
        BY <1>3, <3>1, <3>3, <4>1, ReadOk, PipeFacts DEF ReadSpawnOk
    <3> QED
      BY <2>1, <3>2, <3>3
  <2> QED
    BY <1>3, <2>1, <2>2, ReadOk DEF ReadSpawnOk
<1>4. CASE ReadSpawnError
  BY <1>4 DEF ReadSpawnError
<1>5. CASE ReapFailedSupervisor
  BY <1>5 DEF ReapFailedSupervisor
<1>6. CASE CallWait
  BY <1>6 DEF CallWait
<1>7. CASE CallSignal
  BY <1>7 DEF CallSignal
<1>8. CASE CallDestroy
  BY <1>8 DEF CallDestroy
<1>9. CASE CallMoveAssign
  BY <1>9 DEF CallMoveAssign
<1>10. CASE CallDetach
  BY <1>10 DEF CallDetach
<1>51. CASE DetachReleases
  BY <1>51 DEF DetachReleases
<1>52. CASE CallerWrites
  BY <1>52 DEF CallerWrites
<1>53. CASE CallbackWrites
  BY <1>53 DEF CallbackWrites
<1>54. CASE CallbackLocks
  BY <1>54 DEF CallbackLocks
<1>55. CASE WriteEnds
  BY <1>55 DEF WriteEnds
<1>11. CASE PollTimesOut
  BY <1>11 DEF PollTimesOut
<1>12. CASE SignalKill
  BY <1>12 DEF SignalKill
<1>13. CASE SignalRequest
  BY <1>13 DEF SignalRequest
<1>14. CASE Reap
  BY <1>14 DEF Reap
<1>15. CASE Join
  BY <1>15 DEF Join
<1>16. CASE DtorClose
  BY <1>16 DEF DtorClose
<1>17. CASE DtorReap
  BY <1>17 DEF DtorReap
<1>18. CASE DetachReap
  BY <1>18 DEF DetachReap
<1>19. CASE DetachJoin
  BY <1>19 DEF DetachJoin
<1>20. CASE ReapInterrupted
  BY <1>20 DEF ReapInterrupted
<1>21. CASE LibraryDies
  BY <1>21 DEF LibraryDies
<1>22. CASE SupForksTarget
  BY <1>22 DEF SupForksTarget
<1>23. CASE SupForkFails
  BY <1>23 DEF SupForkFails
<1>24. CASE SupReadsProbe
  BY <1>24 DEF SupReadsProbe
<1>25. CASE SupProbeInterrupted
  BY <1>25 DEF SupProbeInterrupted
<1>26. CASE SupReportsError
  BY <1>26 DEF SupReportsError
<1>27. CASE SupReapsFailed
  BY <1>27 DEF SupReapsFailed
<1>28. CASE SupReportsOk
  BY <1>28 DEF SupReportsOk
<1>29. CASE SupMovesToOwnGroup
  BY <1>29 DEF SupMovesToOwnGroup
<1>30. CASE SupSamplesLifecycle
  BY <1>30 DEF SupSamplesLifecycle
<1>31. CASE SupSamplesRelease
  BY <1>31 DEF SupSamplesRelease
<1>32. CASE SupLetsGo
  BY <1>32 DEF SupLetsGo
<1>33. CASE SupKillsTarget
  BY <1>33 DEF SupKillsTarget
<1>34. CASE SupChecksTarget
  <2>1. CASE tgt # "zombie"
    BY <1>34, <2>1 DEF SupChecksTarget
  <2>2. CASE tgt = "zombie" /\ info = <<>>
    <3>1. info' = <<>> \/ info' = <<ExitMsg(status)>>
      BY <1>34, <2>2, PipeFacts DEF SupChecksTarget
    <3> QED
      BY <1>34, <2>2, <3>1 DEF SupChecksTarget
  <2>3. CASE info # <<>>
    BY <1>34, <2>3 DEF SupChecksTarget
  <2> QED
    BY <2>1, <2>2, <2>3
<1>35. CASE SupPollFails
  BY <1>35 DEF SupPollFails
<1>36. CASE SupReapsKilled
  BY <1>36 DEF SupReapsKilled
<1>37. CASE TargetExecs
  BY <1>37 DEF TargetExecs
<1>38. CASE TargetExecFails
  BY <1>38 DEF TargetExecFails
<1>39. CASE TargetForksKid
  BY <1>39 DEF TargetForksKid
<1>40. CASE TargetExits
  BY <1>40 DEF TargetExits
<1>41. CASE TargetKilled
  BY <1>41 DEF TargetKilled
<1>42. CASE KidExits
  BY <1>42 DEF KidExits
<1>43. CASE InitReaps
  BY <1>43 DEF InitReaps
<1>44. CASE PidReused
  BY <1>44 DEF PidReused
<1>45. CASE ReaderStops
  BY <1>45 DEF ReaderStops
<1>46. CASE SupervisorKilled
  BY <1>46 DEF SupervisorKilled
<1>47. CASE GroupKilled
  BY <1>47 DEF GroupKilled
<1>48. CASE Finished
  BY <1>48 DEF Finished, vars
<1>49. CASE UNCHANGED vars
  BY <1>49 DEF vars
<1> QED
  BY <1>1, <1>2, <1>3, <1>4, <1>5, <1>6, <1>7, <1>8, <1>9, <1>10, <1>11, <1>12,
     <1>13, <1>14, <1>15, <1>16, <1>17, <1>18, <1>19, <1>20, <1>21, <1>22, <1>23,
     <1>24, <1>25, <1>26, <1>27, <1>28, <1>29, <1>30, <1>31, <1>32, <1>33, <1>34,
     <1>35, <1>36, <1>37, <1>38, <1>39, <1>40, <1>41, <1>42, <1>43, <1>44, <1>45,
     <1>46, <1>47, <1>48, <1>49,
     <1>51, <1>52, <1>53, <1>54, <1>55 DEF Next, Writing, SpawnStep, Call, CallStep, SupStep, Outside, Fault

(* A failed exec is never taken for a success. *)
LEMMA ProbeStep == ASSUME SupTypeOK, LifeInv, OwnInv, PipeInv, KillerInv, InfoInv, HandleInv, ProbeInv, [Next]_vars PROVE ProbeInv'
<1> USE DEF LifeInv, OwnInv, PipeInv, ProbeInv, Early, Owning, Watching, Live, SupLive, HasHandle, Over, ownVars, pipeVars, supVars, wireVars, tgtVars,
        world, libSide, aroundTarget, SupervisorEnds, SendFatal, ReapTarget, ReapSupervisor, InfoReaderGone
<1>1. CASE SpawnFails
  BY <1>1 DEF SpawnFails
<1>2. CASE ForkSupervisor
  BY <1>2 DEF ForkSupervisor
<1>3. CASE ReadSpawnOk
  <2>1. info # <<>> /\ info # <<ErrMsg>>
    BY <1>3, PipeFacts DEF ReadSpawnOk, ErrMsg
  <2>2. sup \in Watching \cup {"exited"}
    BY <1>3, ReadOk DEF ReadSpawnOk
  <2> QED
    BY <1>3, <2>1, <2>2 DEF ReadSpawnOk
<1>4. CASE ReadSpawnError
  BY <1>4 DEF ReadSpawnError
<1>5. CASE ReapFailedSupervisor
  BY <1>5 DEF ReapFailedSupervisor
<1>6. CASE CallWait
  BY <1>6 DEF CallWait
<1>7. CASE CallSignal
  BY <1>7 DEF CallSignal
<1>8. CASE CallDestroy
  BY <1>8 DEF CallDestroy
<1>9. CASE CallMoveAssign
  BY <1>9 DEF CallMoveAssign
<1>10. CASE CallDetach
  BY <1>10 DEF CallDetach
<1>51. CASE DetachReleases
  BY <1>51 DEF DetachReleases
<1>52. CASE CallerWrites
  BY <1>52 DEF CallerWrites
<1>53. CASE CallbackWrites
  BY <1>53 DEF CallbackWrites
<1>54. CASE CallbackLocks
  BY <1>54 DEF CallbackLocks
<1>55. CASE WriteEnds
  BY <1>55 DEF WriteEnds
<1>11. CASE PollTimesOut
  BY <1>11 DEF PollTimesOut
<1>12. CASE SignalKill
  BY <1>12 DEF SignalKill
<1>13. CASE SignalRequest
  BY <1>13 DEF SignalRequest
<1>14. CASE Reap
  BY <1>14 DEF Reap
<1>15. CASE Join
  BY <1>15 DEF Join
<1>16. CASE DtorClose
  BY <1>16 DEF DtorClose
<1>17. CASE DtorReap
  BY <1>17 DEF DtorReap
<1>18. CASE DetachReap
  BY <1>18 DEF DetachReap
<1>19. CASE DetachJoin
  BY <1>19 DEF DetachJoin
<1>20. CASE ReapInterrupted
  BY <1>20 DEF ReapInterrupted
<1>21. CASE LibraryDies
  BY <1>21 DEF LibraryDies
<1>22. CASE SupForksTarget
  BY <1>22 DEF SupForksTarget, HandleInv
<1>23. CASE SupForkFails
  BY <1>23 DEF SupForkFails
<1>24. CASE SupReadsProbe
  BY <1>24 DEF SupReadsProbe
<1>25. CASE SupProbeInterrupted
  BY <1>25 DEF SupProbeInterrupted
<1>26. CASE SupReportsError
  BY <1>26 DEF SupReportsError
<1>27. CASE SupReapsFailed
  BY <1>27 DEF SupReapsFailed
<1>28. CASE SupReportsOk
  BY <1>28 DEF SupReportsOk
<1>29. CASE SupMovesToOwnGroup
  BY <1>29 DEF SupMovesToOwnGroup
<1>30. CASE SupSamplesLifecycle
  BY <1>30 DEF SupSamplesLifecycle
<1>31. CASE SupSamplesRelease
  BY <1>31 DEF SupSamplesRelease
<1>32. CASE SupLetsGo
  BY <1>32 DEF SupLetsGo
<1>33. CASE SupKillsTarget
  BY <1>33 DEF SupKillsTarget
<1>34. CASE SupChecksTarget
  BY <1>34 DEF SupChecksTarget
<1>35. CASE SupPollFails
  BY <1>35 DEF SupPollFails
<1>36. CASE SupReapsKilled
  BY <1>36 DEF SupReapsKilled
<1>37. CASE TargetExecs
  BY <1>37 DEF TargetExecs
<1>38. CASE TargetExecFails
  BY <1>38 DEF TargetExecFails
<1>39. CASE TargetForksKid
  BY <1>39 DEF TargetForksKid
<1>40. CASE TargetExits
  BY <1>40 DEF TargetExits
<1>41. CASE TargetKilled
  BY <1>41 DEF TargetKilled
<1>42. CASE KidExits
  BY <1>42 DEF KidExits
<1>43. CASE InitReaps
  BY <1>43 DEF InitReaps
<1>44. CASE PidReused
  BY <1>44 DEF PidReused
<1>45. CASE ReaderStops
  BY <1>45 DEF ReaderStops
<1>46. CASE SupervisorKilled
  BY <1>46 DEF SupervisorKilled
<1>47. CASE GroupKilled
  BY <1>47 DEF GroupKilled
<1>48. CASE Finished
  BY <1>48 DEF Finished, vars
<1>49. CASE UNCHANGED vars
  BY <1>49 DEF vars
<1> QED
  BY <1>1, <1>2, <1>3, <1>4, <1>5, <1>6, <1>7, <1>8, <1>9, <1>10, <1>11, <1>12,
     <1>13, <1>14, <1>15, <1>16, <1>17, <1>18, <1>19, <1>20, <1>21, <1>22, <1>23,
     <1>24, <1>25, <1>26, <1>27, <1>28, <1>29, <1>30, <1>31, <1>32, <1>33, <1>34,
     <1>35, <1>36, <1>37, <1>38, <1>39, <1>40, <1>41, <1>42, <1>43, <1>44, <1>45,
     <1>46, <1>47, <1>48, <1>49,
     <1>51, <1>52, <1>53, <1>54, <1>55 DEF Next, Writing, SpawnStep, Call, CallStep, SupStep, Outside, Fault

(* A refused spawn leaves no target. *)
LEMMA SpawnStepInv == ASSUME SupTypeOK, LifeInv, OwnInv, PipeInv, KillerInv, InfoInv, ProbeInv, SpawnInv, FateInv, [Next]_vars PROVE SpawnInv'
<1> USE DEF LifeInv, OwnInv, PipeInv, SpawnInv, Early, Owning, Watching, Live, SupLive, HasHandle, Over, ownVars, pipeVars, supVars, wireVars, tgtVars,
        world, libSide, aroundTarget, SupervisorEnds, SendFatal, ReapTarget, ReapSupervisor, InfoReaderGone
<1>1. CASE SpawnFails
  BY <1>1 DEF SpawnFails
<1>2. CASE ForkSupervisor
  BY <1>2 DEF ForkSupervisor, InfoInv
<1>3. CASE ReadSpawnOk
  BY <1>3 DEF ReadSpawnOk
<1>4. CASE ReadSpawnError
  <2>1. sup \notin {"none", "reaped"} /\ ~release /\ info' = <<>> /\ lib' = "spawnReap"
        /\ UNCHANGED <<sup, supExit, tgt>>
    BY <1>4 DEF ReadSpawnError
  <2>2. CASE InfoEof
    <3>1. sup = "exited" /\ supExit \in {"one", "signal"}
      BY <1>4, <2>1, <2>2, PipeFacts DEF ReadSpawnError, InfoEof, InfoInv, SupTypeOK
    <3> QED
      BY <2>1, <3>1 DEF FateInv
  <2>3. CASE info # <<>> /\ Head(info).tag = 1
    <3>1. Head(info) # OkMsg
      BY <2>3 DEF OkMsg
    <3>2. info = <<ErrMsg>> /\ sup \in {"failReap", "exited"}
      BY <1>4, <2>1, <2>3, <3>1, PipeFacts DEF ReadSpawnError, InfoInv, SupTypeOK
    <3> QED
      BY <1>4, <2>1, <2>3, <3>2, PipeFacts DEF ReadSpawnError
  <2> QED
    BY <1>4, <2>2, <2>3 DEF ReadSpawnError
<1>5. CASE ReapFailedSupervisor
  BY <1>5 DEF ReapFailedSupervisor
<1>6. CASE CallWait
  BY <1>6 DEF CallWait
<1>7. CASE CallSignal
  BY <1>7 DEF CallSignal
<1>8. CASE CallDestroy
  BY <1>8 DEF CallDestroy
<1>9. CASE CallMoveAssign
  BY <1>9 DEF CallMoveAssign
<1>10. CASE CallDetach
  BY <1>10 DEF CallDetach
<1>51. CASE DetachReleases
  BY <1>51 DEF DetachReleases
<1>52. CASE CallerWrites
  BY <1>52 DEF CallerWrites
<1>53. CASE CallbackWrites
  BY <1>53 DEF CallbackWrites
<1>54. CASE CallbackLocks
  BY <1>54 DEF CallbackLocks
<1>55. CASE WriteEnds
  BY <1>55 DEF WriteEnds
<1>11. CASE PollTimesOut
  BY <1>11 DEF PollTimesOut
<1>12. CASE SignalKill
  BY <1>12 DEF SignalKill
<1>13. CASE SignalRequest
  BY <1>13 DEF SignalRequest
<1>14. CASE Reap
  BY <1>14 DEF Reap
<1>15. CASE Join
  BY <1>15 DEF Join
<1>16. CASE DtorClose
  BY <1>16 DEF DtorClose
<1>17. CASE DtorReap
  BY <1>17 DEF DtorReap
<1>18. CASE DetachReap
  BY <1>18 DEF DetachReap
<1>19. CASE DetachJoin
  BY <1>19 DEF DetachJoin
<1>20. CASE ReapInterrupted
  BY <1>20 DEF ReapInterrupted
<1>21. CASE LibraryDies
  BY <1>21 DEF LibraryDies
<1>22. CASE SupForksTarget
  BY <1>22 DEF SupForksTarget, ProbeInv
<1>23. CASE SupForkFails
  <2>1. info = <<>> /\ ErrMsg # OkMsg
    BY <1>23 DEF SupForkFails, ProbeInv, ErrMsg, OkMsg
  <2> QED
    BY <1>23, <2>1, PipeFacts DEF SupForkFails, ProbeInv
<1>24. CASE SupReadsProbe
  BY <1>24 DEF SupReadsProbe
<1>25. CASE SupProbeInterrupted
  BY <1>25 DEF SupProbeInterrupted
<1>26. CASE SupReportsError
  <2>1. info = <<>> /\ ErrMsg # OkMsg
    BY <1>26 DEF SupReportsError, ProbeInv, ErrMsg, OkMsg
  <2> QED
    BY <1>26, <2>1, PipeFacts DEF SupReportsError, ProbeInv
<1>27. CASE SupReapsFailed
  BY <1>27 DEF SupReapsFailed
<1>28. CASE SupReportsOk
  <2>1. info = <<>> /\ ErrMsg # OkMsg
    BY <1>28 DEF SupReportsOk, ProbeInv, ErrMsg, OkMsg
  <2> QED
    BY <1>28, <2>1, PipeFacts DEF SupReportsOk, ProbeInv
<1>29. CASE SupMovesToOwnGroup
  BY <1>29 DEF SupMovesToOwnGroup
<1>30. CASE SupSamplesLifecycle
  BY <1>30 DEF SupSamplesLifecycle
<1>31. CASE SupSamplesRelease
  BY <1>31 DEF SupSamplesRelease
<1>32. CASE SupLetsGo
  BY <1>32 DEF SupLetsGo
<1>33. CASE SupKillsTarget
  BY <1>33 DEF SupKillsTarget
<1>34. CASE SupChecksTarget
  BY <1>34 DEF SupChecksTarget
<1>35. CASE SupPollFails
  BY <1>35 DEF SupPollFails
<1>36. CASE SupReapsKilled
  BY <1>36 DEF SupReapsKilled
<1>37. CASE TargetExecs
  BY <1>37 DEF TargetExecs
<1>38. CASE TargetExecFails
  BY <1>38 DEF TargetExecFails
<1>39. CASE TargetForksKid
  BY <1>39 DEF TargetForksKid
<1>40. CASE TargetExits
  BY <1>40 DEF TargetExits
<1>41. CASE TargetKilled
  BY <1>41 DEF TargetKilled
<1>42. CASE KidExits
  BY <1>42 DEF KidExits
<1>43. CASE InitReaps
  BY <1>43 DEF InitReaps
<1>44. CASE PidReused
  BY <1>44 DEF PidReused
<1>45. CASE ReaderStops
  BY <1>45 DEF ReaderStops
<1>46. CASE SupervisorKilled
  BY <1>46 DEF SupervisorKilled
<1>47. CASE GroupKilled
  BY <1>47 DEF GroupKilled
<1>48. CASE Finished
  BY <1>48 DEF Finished, vars
<1>49. CASE UNCHANGED vars
  BY <1>49 DEF vars
<1> QED
  BY <1>1, <1>2, <1>3, <1>4, <1>5, <1>6, <1>7, <1>8, <1>9, <1>10, <1>11, <1>12,
     <1>13, <1>14, <1>15, <1>16, <1>17, <1>18, <1>19, <1>20, <1>21, <1>22, <1>23,
     <1>24, <1>25, <1>26, <1>27, <1>28, <1>29, <1>30, <1>31, <1>32, <1>33, <1>34,
     <1>35, <1>36, <1>37, <1>38, <1>39, <1>40, <1>41, <1>42, <1>43, <1>44, <1>45,
     <1>46, <1>47, <1>48, <1>49,
     <1>51, <1>52, <1>53, <1>54, <1>55 DEF Next, Writing, SpawnStep, Call, CallStep, SupStep, Outside, Fault

(* The supervisor's end, and what the destructor relies on. *)
LEMMA FateStep == ASSUME LifeInv, OwnInv, PipeInv, KillerInv, HandleInv, ProbeInv, SpawnInv, FateInv, [Next]_vars PROVE FateInv'
<1> USE DEF LifeInv, OwnInv, PipeInv, KillerInv, HandleInv, FateInv, TargetReached, IsAlive, ReleasePipeBroken, Early, Owning, Watching, Live, SupLive, HasHandle, Over, ownVars, pipeVars, supVars, wireVars, tgtVars,
        world, libSide, aroundTarget, SupervisorEnds, SendFatal, ReapTarget, ReapSupervisor
<1>1. CASE SpawnFails
  BY <1>1 DEF SpawnFails
<1>2. CASE ForkSupervisor
  BY <1>2 DEF ForkSupervisor
<1>3. CASE ReadSpawnOk
  BY <1>3 DEF ReadSpawnOk
<1>4. CASE ReadSpawnError
  BY <1>4 DEF ReadSpawnError
<1>5. CASE ReapFailedSupervisor
  BY <1>5 DEF ReapFailedSupervisor
<1>6. CASE CallWait
  BY <1>6 DEF CallWait
<1>7. CASE CallSignal
  BY <1>7 DEF CallSignal
<1>8. CASE CallDestroy
  BY <1>8 DEF CallDestroy
<1>9. CASE CallMoveAssign
  BY <1>9 DEF CallMoveAssign
<1>10. CASE CallDetach
  BY <1>10 DEF CallDetach
<1>51. CASE DetachReleases
  BY <1>51 DEF DetachReleases
<1>52. CASE CallerWrites
  BY <1>52 DEF CallerWrites
<1>53. CASE CallbackWrites
  BY <1>53 DEF CallbackWrites
<1>54. CASE CallbackLocks
  BY <1>54 DEF CallbackLocks
<1>55. CASE WriteEnds
  BY <1>55 DEF WriteEnds
<1>11. CASE PollTimesOut
  BY <1>11 DEF PollTimesOut
<1>12. CASE SignalKill
  BY <1>12 DEF SignalKill, ProbeInv
<1>13. CASE SignalRequest
  BY <1>13 DEF SignalRequest
<1>14. CASE Reap
  BY <1>14 DEF Reap
<1>15. CASE Join
  BY <1>15 DEF Join
<1>16. CASE DtorClose
  BY <1>16 DEF DtorClose
<1>17. CASE DtorReap
  BY <1>17 DEF DtorReap
<1>18. CASE DetachReap
  BY <1>18 DEF DetachReap
<1>19. CASE DetachJoin
  BY <1>19 DEF DetachJoin
<1>20. CASE ReapInterrupted
  BY <1>20 DEF ReapInterrupted
<1>21. CASE LibraryDies
  BY <1>21 DEF LibraryDies
<1>22. CASE SupForksTarget
  BY <1>22 DEF SupForksTarget
<1>23. CASE SupForkFails
  BY <1>23 DEF SupForkFails
<1>24. CASE SupReadsProbe
  BY <1>24 DEF SupReadsProbe
<1>25. CASE SupProbeInterrupted
  BY <1>25 DEF SupProbeInterrupted
<1>26. CASE SupReportsError
  BY <1>26 DEF SupReportsError
<1>27. CASE SupReapsFailed
  BY <1>27 DEF SupReapsFailed
<1>28. CASE SupReportsOk
  BY <1>28 DEF SupReportsOk
<1>29. CASE SupMovesToOwnGroup
  BY <1>29 DEF SupMovesToOwnGroup
<1>30. CASE SupSamplesLifecycle
  BY <1>30 DEF SupSamplesLifecycle
<1>31. CASE SupSamplesRelease
  BY <1>31 DEF SupSamplesRelease
<1>32. CASE SupLetsGo
  BY <1>32 DEF SupLetsGo, ReleaseSeen
<1>33. CASE SupKillsTarget
  BY <1>33 DEF SupKillsTarget
<1>34. CASE SupChecksTarget
  BY <1>34 DEF SupChecksTarget
<1>35. CASE SupPollFails
  BY <1>35 DEF SupPollFails
<1>36. CASE SupReapsKilled
  BY <1>36 DEF SupReapsKilled
<1>37. CASE TargetExecs
  BY <1>37 DEF TargetExecs
<1>38. CASE TargetExecFails
  BY <1>38 DEF TargetExecFails
<1>39. CASE TargetForksKid
  BY <1>39 DEF TargetForksKid
<1>40. CASE TargetExits
  BY <1>40 DEF TargetExits
<1>41. CASE TargetKilled
  BY <1>41 DEF TargetKilled
<1>42. CASE KidExits
  BY <1>42 DEF KidExits
<1>43. CASE InitReaps
  BY <1>43 DEF InitReaps
<1>44. CASE PidReused
  BY <1>44 DEF PidReused
<1>45. CASE ReaderStops
  BY <1>45 DEF ReaderStops
<1>46. CASE SupervisorKilled
  BY <1>46 DEF SupervisorKilled
<1>47. CASE GroupKilled
  BY <1>47 DEF GroupKilled
<1>48. CASE Finished
  BY <1>48 DEF Finished, vars
<1>49. CASE UNCHANGED vars
  BY <1>49 DEF vars
<1> QED
  BY <1>1, <1>2, <1>3, <1>4, <1>5, <1>6, <1>7, <1>8, <1>9, <1>10, <1>11, <1>12,
     <1>13, <1>14, <1>15, <1>16, <1>17, <1>18, <1>19, <1>20, <1>21, <1>22, <1>23,
     <1>24, <1>25, <1>26, <1>27, <1>28, <1>29, <1>30, <1>31, <1>32, <1>33, <1>34,
     <1>35, <1>36, <1>37, <1>38, <1>39, <1>40, <1>41, <1>42, <1>43, <1>44, <1>45,
     <1>46, <1>47, <1>48, <1>49,
     <1>51, <1>52, <1>53, <1>54, <1>55 DEF Next, Writing, SpawnStep, Call, CallStep, SupStep, Outside, Fault

-----------------------------------------------------------------------------
(* The extended invariant holds in the beginning. *)
LEMMA InitFullInv == ASSUME Init PROVE FullInv
<1>1. IInv
  BY InitIInv
<1>2. HandleInv /\ ProbeInv /\ SpawnInv /\ TreeInv /\ FateInv
  BY DEF Init, HandleInv, ProbeInv, SpawnInv, TreeInv, KillTakesTheTree, FateInv, HasHandle, SupLive,
         Live
<1> QED
  BY <1>1, <1>2 DEF FullInv

(* Every step keeps the extended invariant. *)
LEMMA StepFullInv == ASSUME FullInv, [Next]_vars PROVE FullInv'
<1>1. IInv'
  BY StepIInv DEF FullInv
<1>2. SupTypeOK /\ LifeInv /\ OwnInv /\ PipeInv /\ KillerInv /\ InfoInv
  BY DEF FullInv, IInv, TypeOK
<1> QED
  BY <1>1, <1>2, HandleStep, ProbeStep, SpawnStepInv, TreeStep, FateStep DEF FullInv

(* The extended invariant holds in every reachable state. *)
THEOREM FullInvariance == Spec => []FullInv
BY InitFullInv, StepFullInv, PTL DEF Spec

(* A handle that is gone without detach() leaves no target running, unless *)
(* a signal handler or an outsider broke the supervision.                  *)
THEOREM NothingStaysBehind == Spec => []NothingLeftRunning
<1>1. FullInv => NothingLeftRunning
  BY DEF FullInv, IInv, TypeOK, SupTypeOK, KillerInv, FateInv, NothingLeftRunning, Live
<1> QED
  BY FullInvariance, <1>1, PTL

(* A kill that was delivered ended the target and, headless, its group. *)
THEOREM KillsTakeTheTree == Spec => []KillTakesTheTree
<1>1. FullInv => KillTakesTheTree
  BY DEF FullInv, TreeInv
<1> QED
  BY FullInvariance, <1>1, PTL

(* A spawn that reports an error has closed its pipes and reaped its       *)
(* supervisor, and leaves no target running, but for the named faults.     *)
THEOREM FailedSpawnsAreClean == Spec => []FailedSpawnLeavesNothing
<1>1. FullInv => FailedSpawnLeavesNothing
  BY DEF FullInv, IInv, PipeInv, SpawnInv, FailedSpawnLeavesNothing
<1> QED
  BY FullInvariance, <1>1, PTL

(* No handle is given before the target's execve is over, or after it      *)
(* failed, unless the read of the probe was interrupted.                   *)
THEOREM HandlesFollowExec == Spec => []HandleAfterExec
<1>1. FullInv => HandleAfterExec
  BY DEF FullInv, ProbeInv, HandleAfterExec
<1> QED
  BY FullInvariance, <1>1, PTL

(* The exit message never runs into message 1. *)
THEOREM MessagesAreFramed == Spec => []InfoFraming
<1>1. FullInv => InfoFraming
  <2> SUFFICES ASSUME FullInv, lib \in HasHandle, info # <<>>
               PROVE  Len(info) = 1 /\ info[1].tag = 2
    BY DEF InfoFraming
  <2>1. info = <<ExitMsg(status)>>
    BY DEF FullInv, HandleInv
  <2> QED
    BY <2>1 DEF ExitMsg
<1> QED
  BY FullInvariance, <1>1, PTL

-----------------------------------------------------------------------------
(* What a step can do to the owner, the child and the supervision. *)
StepOK ==
    /\ op = "detach" => op' = "detach"
    /\ op # "detach" /\ op' = "detach" => lib = "detachLock"
    /\ lib \in HasHandle => lib' \in HasHandle \cup {"gone", "crashed"}
    /\ lib \in {"start", "message1", "spawnReap"} => lib' # "gone"
    /\ lib \in Over => lib' = lib
    /\ tgt \in Live => tgt' # "none"
    /\ tgt \in {"zombie", "reaped"} =>
           tgt' \in {"zombie", "reaped"} /\ UNCHANGED <<status, killer>>
    /\ tgt = "none" /\ tgt' # "none" => sup = "forking"
    /\ Intact' => Intact
    /\ op' = "detach" /\ Intact' /\ killer' # killer => killer' = "other"

LEMMA StepFacts == ASSUME FullInv, [Next]_vars PROVE StepOK
<1> USE DEF FullInv, IInv, LifeInv, PipeInv, KillerInv, FateInv, StepOK, Intact, Owning,
        ReleaseSeen, LifecycleSeen, Live, SupLive, HasHandle, Over, ownVars, pipeVars,
        supVars, wireVars, tgtVars, world, libSide, aroundTarget, SupervisorEnds, SendFatal,
        ReapTarget, ReapSupervisor
<1>1. CASE SpawnFails
  BY <1>1 DEF SpawnFails
<1>2. CASE ForkSupervisor
  BY <1>2 DEF ForkSupervisor
<1>3. CASE ReadSpawnOk
  BY <1>3 DEF ReadSpawnOk
<1>4. CASE ReadSpawnError
  BY <1>4 DEF ReadSpawnError
<1>5. CASE ReapFailedSupervisor
  BY <1>5 DEF ReapFailedSupervisor
<1>6. CASE CallWait
  BY <1>6 DEF CallWait
<1>7. CASE CallSignal
  BY <1>7 DEF CallSignal
<1>8. CASE CallDestroy
  BY <1>8 DEF CallDestroy
<1>9. CASE CallMoveAssign
  BY <1>9 DEF CallMoveAssign
<1>10. CASE CallDetach
  BY <1>10 DEF CallDetach
<1>51. CASE DetachReleases
  BY <1>51 DEF DetachReleases
<1>52. CASE CallerWrites
  BY <1>52 DEF CallerWrites
<1>53. CASE CallbackWrites
  BY <1>53 DEF CallbackWrites
<1>54. CASE CallbackLocks
  BY <1>54 DEF CallbackLocks
<1>55. CASE WriteEnds
  BY <1>55 DEF WriteEnds
<1>11. CASE PollTimesOut
  BY <1>11 DEF PollTimesOut
<1>12. CASE SignalKill
  BY <1>12 DEF SignalKill
<1>13. CASE SignalRequest
  BY <1>13 DEF SignalRequest
<1>14. CASE Reap
  BY <1>14 DEF Reap
<1>15. CASE Join
  BY <1>15 DEF Join
<1>16. CASE DtorClose
  BY <1>16 DEF DtorClose
<1>17. CASE DtorReap
  BY <1>17 DEF DtorReap
<1>18. CASE DetachReap
  BY <1>18 DEF DetachReap
<1>19. CASE DetachJoin
  BY <1>19 DEF DetachJoin
<1>20. CASE ReapInterrupted
  BY <1>20 DEF ReapInterrupted
<1>21. CASE LibraryDies
  BY <1>21 DEF LibraryDies
<1>22. CASE SupForksTarget
  BY <1>22 DEF SupForksTarget
<1>23. CASE SupForkFails
  BY <1>23 DEF SupForkFails
<1>24. CASE SupReadsProbe
  BY <1>24 DEF SupReadsProbe
<1>25. CASE SupProbeInterrupted
  BY <1>25 DEF SupProbeInterrupted
<1>26. CASE SupReportsError
  BY <1>26 DEF SupReportsError
<1>27. CASE SupReapsFailed
  BY <1>27 DEF SupReapsFailed
<1>28. CASE SupReportsOk
  BY <1>28 DEF SupReportsOk
<1>29. CASE SupMovesToOwnGroup
  BY <1>29 DEF SupMovesToOwnGroup
<1>30. CASE SupSamplesLifecycle
  BY <1>30 DEF SupSamplesLifecycle
<1>31. CASE SupSamplesRelease
  BY <1>31 DEF SupSamplesRelease
<1>32. CASE SupLetsGo
  BY <1>32 DEF SupLetsGo
<1>33. CASE SupKillsTarget
  BY <1>33 DEF SupKillsTarget
<1>34. CASE SupChecksTarget
  BY <1>34 DEF SupChecksTarget
<1>35. CASE SupPollFails
  BY <1>35 DEF SupPollFails
<1>36. CASE SupReapsKilled
  BY <1>36 DEF SupReapsKilled
<1>37. CASE TargetExecs
  BY <1>37 DEF TargetExecs
<1>38. CASE TargetExecFails
  BY <1>38 DEF TargetExecFails
<1>39. CASE TargetForksKid
  BY <1>39 DEF TargetForksKid
<1>40. CASE TargetExits
  BY <1>40 DEF TargetExits
<1>41. CASE TargetKilled
  BY <1>41 DEF TargetKilled
<1>42. CASE KidExits
  BY <1>42 DEF KidExits
<1>43. CASE InitReaps
  BY <1>43 DEF InitReaps
<1>44. CASE PidReused
  BY <1>44 DEF PidReused
<1>45. CASE ReaderStops
  BY <1>45 DEF ReaderStops
<1>46. CASE SupervisorKilled
  BY <1>46 DEF SupervisorKilled
<1>47. CASE GroupKilled
  BY <1>47 DEF GroupKilled
<1>48. CASE Finished
  BY <1>48 DEF Finished, vars
<1>49. CASE UNCHANGED vars
  BY <1>49 DEF vars
<1> QED
  BY <1>1, <1>2, <1>3, <1>4, <1>5, <1>6, <1>7, <1>8, <1>9, <1>10, <1>11, <1>12,
     <1>13, <1>14, <1>15, <1>16, <1>17, <1>18, <1>19, <1>20, <1>21, <1>22, <1>23,
     <1>24, <1>25, <1>26, <1>27, <1>28, <1>29, <1>30, <1>31, <1>32, <1>33, <1>34,
     <1>35, <1>36, <1>37, <1>38, <1>39, <1>40, <1>41, <1>42, <1>43, <1>44, <1>45,
     <1>46, <1>47, <1>48, <1>49,
     <1>51, <1>52, <1>53, <1>54, <1>55 DEF Next, Writing, SpawnStep, Call, CallStep, SupStep, Outside, Fault

-----------------------------------------------------------------------------
(* Who answers for the child, phase by phase, before and after a step. *)
LEMMA OwnerPhases ==
    ASSUME LibTypeOK, LibTypeOK'
    PROVE  /\ (Owner = "released") <=> op = "detach"
           /\ op # "detach" =>
                  /\ (Owner = "handle") <=> lib \in HasHandle
                  /\ (Owner = "spawning") <=> lib \in {"start", "message1", "spawnReap"}
                  /\ (Owner = "refused") <=> lib = "failed"
                  /\ (Owner = "finished") <=> lib = "gone"
                  /\ (Owner = "dead") <=> lib = "crashed"
           /\ (Owner' = "released") <=> op' = "detach"
           /\ op' # "detach" =>
                  /\ (Owner' = "handle") <=> lib' \in HasHandle
                  /\ (Owner' = "spawning") <=> lib' \in {"start", "message1", "spawnReap"}
                  /\ (Owner' = "refused") <=> lib' = "failed"
                  /\ (Owner' = "finished") <=> lib' = "gone"
                  /\ (Owner' = "dead") <=> lib' = "crashed"
BY DEF LibTypeOK, Owner, HasHandle, Over

(* Every step is one that the contract allows. *)
LEMMA ContractStep == ASSUME FullInv, FullInv', [Next]_vars PROVE Contract!Next
<1>1. StepOK
  BY StepFacts
<1>2. LibTypeOK /\ LibTypeOK' /\ TgtTypeOK /\ TgtTypeOK'
  BY DEF FullInv, IInv, TypeOK
<1>3. Owner' = Owner \/ <<Owner, Owner'>> \in Contract!OwnerMoves
  <2>1. CASE op = "detach"
    BY <1>1, <1>2, <2>1, OwnerPhases DEF StepOK
  <2>2. CASE op # "detach" /\ op' = "detach"
    BY <1>1, <1>2, <2>2, OwnerPhases DEF StepOK, HasHandle, Contract!OwnerMoves
  <2>3. CASE op # "detach" /\ op' # "detach" /\ lib \in HasHandle
    BY <1>1, <1>2, <2>3, OwnerPhases DEF StepOK, Contract!OwnerMoves
  <2>4. CASE op # "detach" /\ op' # "detach" /\ lib \in {"start", "message1", "spawnReap"}
    <3>1. Owner = "spawning" /\ Owner' \in {"spawning", "handle", "refused", "dead"}
      BY <1>1, <1>2, <2>4, OwnerPhases DEF StepOK, LibTypeOK, Over
    <3> QED
      BY <3>1 DEF Contract!OwnerMoves
  <2>5. CASE op # "detach" /\ op' # "detach" /\ lib \in Over
    BY <1>1, <1>2, <2>5, OwnerPhases DEF StepOK, Over
  <2> QED
    BY <1>2, <2>1, <2>2, <2>3, <2>4, <2>5 DEF LibTypeOK
<1>4. Contract!OneLife
  <2>1. ChildIs = "running" => ChildIs' # "none"
    BY <1>1, <1>2 DEF StepOK, ChildIs, TgtTypeOK, Live
  <2>2. ChildIs = "ended" => UNCHANGED <<ChildIs, TrueCode, EndedBy>>
    BY <1>1, <1>2 DEF StepOK, ChildIs, TrueCode, EndedBy, TgtTypeOK, Live
  <2>3. ChildIs = "none" /\ ChildIs' # "none" => Owner \in {"spawning", "dead"}
    <3> SUFFICES ASSUME tgt = "none", tgt' # "none" PROVE Owner \in {"spawning", "dead"}
      BY <1>2 DEF ChildIs, TgtTypeOK, Live
    <3>1. sup = "forking"
      BY <1>1 DEF StepOK
    <3>2. op # "detach" /\ lib \notin HasHandle \cup {"gone", "failed"}
      BY <3>1 DEF FullInv, HandleInv, SpawnInv, Watching
    <3> QED
      BY <1>2, <3>2, OwnerPhases DEF LibTypeOK, Over
  <2> QED
    BY <2>1, <2>2, <2>3 DEF Contract!OneLife
<1>5. ASSUME Intact' PROVE Contract!SpawnHonest
  <2>1. Owner' = "handle" => tgt' # "none"
    BY <1>2, OwnerPhases DEF FullInv, HandleInv
  <2>2. Owner' = "refused" => tgt' \notin Live
    BY <1>2, <1>5, OwnerPhases DEF FullInv, SpawnInv, Intact
  <2> QED
    BY <1>2, <2>1, <2>2 DEF Contract!SpawnHonest, Contract!Becomes, ChildIs, TgtTypeOK, Live
<1>6. ASSUME Intact' PROVE Contract!NoOrphan
  <2>1. NothingLeftRunning'
    BY DEF FullInv, IInv, TypeOK, SupTypeOK, KillerInv, FateInv, NothingLeftRunning, Live
  <2>2. Owner' = "finished" => tgt' \notin Live
    BY <1>2, <1>6, <2>1, OwnerPhases DEF NothingLeftRunning, Intact
  <2> QED
    BY <1>2, <2>2 DEF Contract!NoOrphan, Contract!Becomes, ChildIs, TgtTypeOK, Live
<1>7. ASSUME Intact' PROVE Contract!ReleaseHolds
  <2>1. Owner' = "released" /\ killer' # killer => killer' = "other"
    BY <1>1, <1>2, <1>7, OwnerPhases DEF StepOK
  <2> QED
    BY <1>2, <2>1 DEF Contract!ReleaseHolds, EndedBy, TgtTypeOK
<1>8. ASSUME Intact' PROVE Contract!ReportTrue
  <2> DEFINE Report == IF waited /\ op # "detach" THEN {cached} ELSE {}
  <2>1. CASE ~(waited' /\ op' # "detach")
    BY <2>1 DEF Contract!ReportTrue
  <2>2. CASE waited' /\ op' # "detach"
    <3>1. tgt' = "reaped" /\ cached' = Encode(status)'
      BY <1>8, <2>2 DEF FullInv, IInv, CodeInv, CodeKnown, Intact
    <3>2. Encode(status)' = TrueCode'
      BY <1>2 DEF Encode, TrueCode, TgtTypeOK
    <3>3. ChildIs' = "ended" /\ Report' = {TrueCode'}
      BY <2>2, <3>1, <3>2 DEF ChildIs, Live
    <3> QED
      BY <3>3 DEF Contract!ReportTrue
  <2> QED
    BY <2>1, <2>2
<1> QED
  BY <1>1, <1>3, <1>4, <1>5, <1>6, <1>7, <1>8 DEF StepOK, Contract!Next

(* The handle, its supervisor and the target, with every fault, implement  *)
(* the contract of RunningProcess: while the supervision is intact, a      *)
(* handle has a child, no orphan stays, a released child is left alone,    *)
(* and what is reported of its end is true.                                *)
THEOREM UnixKeepsContract == Spec => KeepsContract
<1>1. Init => Contract!Init
  BY DEF Init, Contract!Init, Owner, ChildIs, TrueCode, EndedBy, Intact, Exited, HasHandle
<1>2. FullInv /\ FullInv' /\ [Next]_vars => [Contract!Next]_(Contract!vars)
  BY ContractStep
<1> QED
  BY <1>1, <1>2, FullInvariance, PTL DEF Spec, KeepsContract, Contract!Spec
=============================================================================
