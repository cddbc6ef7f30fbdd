---------------------------- MODULE StdioProofs ----------------------------
(* Proofs about Stdio, for every value of its constants: any number of      *)
(* threads, sizes of buffers and of pipes, and ways to spawn the child.     *)
EXTENDS Stdio, WellFoundedInduction, SequenceTheorems, FiniteSetTheorems, TLAPS

Others == Callers \ {Main}

(* Which thread may be where, and what the program's part of the contract  *)
(* (nobody else inside a call at the end of the handle) gives.             *)
PhaseInv ==
    /\ \A a \in Others : pc[a] \in {"idle", "lock", "write", "closing"}
    /\ pc[Main] \notin {"loop", "feed", "done"}
    /\ \A s \in Stream : /\ pc[s] \in {"loop", "lock", "write", "done"}
                         /\ s \notin mode.captured => pc[s] = "done"
    /\ pc["feeder"] \in {"feed", "done"}
    /\ pc["feeder"] = "feed" => mode.stdin = "content"
    /\ CallerSurvives
    /\ ~InUse => \A a \in Others : pc[a] = "idle"
    /\ pc[Main] = "gone" => ReadersDone

(* One writer at a time, and never after a close. *)
LockInv ==
    /\ \A a \in Writer : pc[a] = "write" <=> mutex = a
    /\ \A a \in Writer : pc[a] = "write" => mode.stdin = "pipe" /\ ~closed
    /\ mode.stdin = "pipe" /\ ~closed /\ pc[Main] # "gone" => stdinOpen

(* The bytes of one call: none before it has the lock, a suffix of what    *)
(* was ever sent while it holds it, a segment afterwards.                  *)
OrderInv ==
    /\ Contiguous
    /\ \A a \in Writer, i \in DOMAIN sent : sent[i][1] = a => sent[i][2] <= calls[a]
    /\ \A a \in Writer, i \in DOMAIN sent :
           /\ pc[a] = "lock" => sent[i] # <<a, calls[a]>>
           /\ pc[a] = "write" /\ sent[i] = <<a, calls[a]>> =>
                  \A k \in i..Len(sent) : sent[k] = sent[i]

Mine(a) == {i \in DOMAIN sent : sent[i] = <<a, calls[a]>>}

(* What is in the pipe and what is left make up the buffer. *)
DeliveryInv ==
    \A a \in Writer :
        /\ IsFiniteSet(Mine(a))
        /\ Cardinality(Mine(a)) = size[a] - left[a]
        /\ answer[a] = "ok" \/ pc[a] = "closing" => left[a] = 0
        /\ pc[a] \in {"lock", "write"} => answer[a] = "none"
        /\ pc[a] = "write" => left[a] > 0

(* Where the bytes of the child are. *)
BytesInv ==
    /\ readEnds \subseteq mode.captured
    /\ \A s \in Stream : s \notin mode.captured => piped[s] = 0
    /\ results = <<>> => \A s \in Stream : content[s] + piped[s] = wrote[s]
    /\ results # <<>> => child = "dead" /\ results[1] = [s \in Stream |-> Trimmed(s, wrote[s])]

(* A reader that was not told to stop ends when there is nothing more to   *)
(* come, and who has waited has waited for that.                           *)
EndInv ==
    /\ pc[Main] = "joining" => child = "dead"
    /\ pc[Main] = "waiting" => results = <<>>
    /\ shutdown => pc[Main] \in {"detachJoin", "gone"}
    /\ ~shutdown => \A s \in mode.captured \cap Stream :
                        pc[s] = "done" => child = "dead" /\ piped[s] = 0
    /\ waited /\ pc[Main] # "gone" => child = "dead" /\ ReadersDone

IInv == TypeOK /\ PhaseInv /\ LockInv /\ OrderInv /\ DeliveryInv /\ BytesInv /\ EndInv

-----------------------------------------------------------------------------
(* What a call may do to the variables of its thread keeps their types. *)
LEMMA CallTypes ==
    ASSUME CallTypeOK, NEW a \in Writer
    PROVE  /\ \A n \in Nat, where \in {"lock", "closing"} :
                  BeginCall(a, n, where) => CallTypeOK'
           /\ \A what \in {"ok", "write_error", "mode_error"} :
                  /\ Returns(a, what) /\ UNCHANGED <<calls, size>>
                  /\ left' \in [Writer -> Nat]
                  => CallTypeOK'
           /\ Throws(a) => CallTypeOK' /\ host' \in {host, "terminated"}
           /\ \A where \in {"idle", "write", "waiting", "joining", "destroying", "detaching",
                             "releasing", "detachJoin", "gone", "done"} :
                  /\ Goes(a, where) /\ UNCHANGED <<calls, size, answer>>
                  /\ left' \in [Writer -> Nat]
                  => CallTypeOK'
<1> USE DEF CallTypeOK, Actor, Writer, Goes, Returns, Home
<1>1. ASSUME NEW n \in Nat, NEW where \in {"lock", "closing"}, BeginCall(a, n, where)
      PROVE  CallTypeOK'
  <2>1. calls' \in [Writer -> 0..MaxCalls]
    BY <1>1, BoundsAssumption DEF BeginCall
  <2> QED
    BY <1>1, <2>1 DEF BeginCall
<1>2. ASSUME NEW what \in {"ok", "write_error", "mode_error"}, Returns(a, what),
             UNCHANGED <<calls, size>>, left' \in [Writer -> Nat]
      PROVE  CallTypeOK'
  BY <1>2
<1>3. ASSUME Throws(a) PROVE CallTypeOK' /\ host' \in {host, "terminated"}
  BY <1>3 DEF Throws, callVars
<1>4. ASSUME NEW where \in {"idle", "write", "waiting", "joining", "destroying", "detaching",
                            "releasing", "detachJoin", "gone", "done"},
             Goes(a, where), UNCHANGED <<calls, size, answer>>, left' \in [Writer -> Nat]
      PROVE  CallTypeOK'
  BY <1>4
<1> QED
  BY <1>1, <1>2, <1>3, <1>4

(* What the child may write to is a captured stream. *)
LEMMA CapturedIsStream == ASSUME mode \in Modes
                          PROVE  mode.captured \subseteq Stream /\ MaySpeak \subseteq Stream
BY ModesAssumption DEF AllModes, MaySpeak

(* trim() is defined: it stops at the latest when nothing is left.         *)
LEMMA TrimmedType ==
    ASSUME NEW s, NEW n \in Nat
    PROVE  Trimmed(s, n) \in 0..n
<1> DEFINE R == {ss \in Nat \X Nat : ss[1] < ss[2]}
           U == {k \in 0..n : k = n \/ <<s, n - k>> \notin Blank}
<1>1. IsWellFoundedOn(R, Nat)
  BY NatLessThanWellFounded DEF OpToRel
<1>2. U \subseteq Nat /\ U # {}
  <2>1. n \in U
    OBVIOUS
  <2> QED
    BY <2>1
<1>3. PICK k \in U : \A m \in U : ~(<<m, k>> \in R)
  <2> HIDE DEF R, U
  <2> QED
    BY <1>1, <1>2, WFMin
<1>4. k \in 0..n /\ (k = n \/ <<s, n - k>> \notin Blank)
  OBVIOUS
<1>5. ASSUME NEW j \in (n - k) + 1..n PROVE <<s, j>> \in Blank
  <2>1. n - j \in 0..n /\ n - j < k /\ n - (n - j) = j
    BY <1>4
  <2>2. <<n - j, k>> \in R
    BY <1>4, <2>1
  <2>3. n - j \notin U
    BY <1>3, <2>2
  <2> QED
    BY <2>1, <2>3
<1>6. n - k \in 0..n /\ (n - k > 0 => <<s, n - k>> \notin Blank)
  BY <1>4
<1>7. \A j \in (n - k) + 1..n : <<s, j>> \in Blank
  BY <1>5
<1> QED
  BY <1>6, <1>7 DEF Trimmed

(* A result has the length of both streams. *)
LEMMA BuildTypes ==
    ASSUME results \in Seq([Stream -> Nat]), content \in [Stream -> Nat], BuildResult
    PROVE  results' \in Seq([Stream -> Nat]) /\ content' \in [Stream -> Nat]
<1> DEFINE r == [s \in Stream |-> Trimmed(s, content[s])]
<1>1. \A s \in Stream : Trimmed(s, content[s]) \in Nat
  BY TrimmedType
<1>2. r \in [Stream -> Nat]
  BY <1>1
<1>3. results' = Append(results, r) /\ content' \in [Stream -> Nat]
  BY DEF BuildResult
<1> HIDE DEF r
<1> QED
  BY <1>2, <1>3, AppendProperties

(* Every action preserves the types; left counts down to 0 and no further. *)
LEMMA TypeStep == ASSUME TypeOK, DeliveryInv, [Next]_vars PROVE TypeOK'
<1> USE CallersAssumption, SizesAssumption, BoundsAssumption, ModesAssumption
        DEF TypeOK, StdinTypeOK, OutTypeOK, Actor, Writer, stdinVars, outVars, childVars
<1>1. ASSUME NEW a \in Writer, StartWrite(a) PROVE TypeOK'
  <2>1. CallTypeOK' /\ host' \in {host, "terminated"}
    BY <1>1, CallTypes DEF StartWrite, CallTypeOK
  <2> QED
    BY <1>1, <2>1 DEF StartWrite
<1>2. ASSUME NEW a \in Writer, WriteByte(a) PROVE TypeOK'
  <2>1. left' \in [Writer -> Nat]
    <3>1. pc[a] = "write" /\ left' = [left EXCEPT ![a] = @ - 1]
      BY <1>2 DEF WriteByte
    <3>2. left[a] > 0
      BY <3>1, Zenon DEF DeliveryInv, Writer
    <3>3. left \in [Writer -> Nat]
      BY DEF CallTypeOK
    <3> QED
      BY <3>1, <3>2, <3>3
  <2>2. CallTypeOK'
    BY <1>2, <2>1, CallTypes DEF WriteByte, CallTypeOK
  <2>3. <<a, calls[a]>> \in Writer \X (0..MaxCalls)
    BY DEF CallTypeOK
  <2>4. sent' \in Seq(Writer \X (0..MaxCalls))
    BY <1>2, <2>3, AppendProperties DEF WriteByte
  <2>5. mutex' \in Writer \cup {Nobody} /\ inPipe' \in 0..StdinCap
    BY <1>2 DEF WriteByte
  <2> QED
    BY <1>2, <2>2, <2>4, <2>5 DEF WriteByte
<1>3. ASSUME NEW a \in Writer, WriteBroken(a) PROVE TypeOK'
  <2>1. CallTypeOK'
    BY <1>3, CallTypes DEF WriteBroken, CallTypeOK
  <2> QED
    BY <1>3, <2>1 DEF WriteBroken
<1>4. ASSUME NEW a \in Writer, CloseStdin(a) PROVE TypeOK'
  <2>1. CallTypeOK' /\ host' \in {host, "terminated"}
    BY <1>4, CallTypes DEF CloseStdin, CallTypeOK
  <2> QED
    BY <1>4, <2>1, ZenonT(90) DEF CloseStdin
<1>5. ASSUME NEW a \in Writer, CallWrite(a) PROVE TypeOK'
  <2>1. CallTypeOK'
    BY <1>5, CallTypes DEF CallWrite, InUse, CallTypeOK
  <2> QED
    BY <1>5, <2>1 DEF CallWrite, InUse
<1>6. ASSUME NEW a \in Writer, CallClose(a) PROVE TypeOK'
  <2>1. CallTypeOK'
    BY <1>6, CallTypes DEF CallClose, InUse, CallTypeOK
  <2> QED
    BY <1>6, <2>1 DEF CallClose, InUse
<1>7. ASSUME NEW s \in Stream, ReadChunk(s) PROVE TypeOK'
  <2>1. CallTypeOK'
    BY <1>7, CallTypes DEF ReadChunk, CallTypeOK, callVars
  <2>2. piped' \in [Stream -> 0..StdoutCap] /\ content' \in [Stream -> Nat]
    <3>1. PICK n \in 1..piped[s] : /\ piped' = [piped EXCEPT ![s] = @ - n]
                                   /\ content' = [content EXCEPT ![s] = @ + n]
      BY <1>7 DEF ReadChunk
    <3>2. piped[s] - n \in 0..StdoutCap /\ content[s] + n \in Nat
      OBVIOUS
    <3> QED
      BY <3>1, <3>2
  <2> QED
    BY <1>7, <2>1, <2>2 DEF ReadChunk
<1>8. ASSUME NEW s \in Stream, StopReading(s) PROVE TypeOK'
  <2>1. CallTypeOK'
    BY <1>8, CallTypes DEF StopReading, CallTypeOK
  <2> QED
    BY <1>8, <2>1 DEF StopReading
<1>9. CASE Feed
  <2>1. CallTypeOK'
    BY <1>9 DEF Feed, CallTypeOK, Goes
  <2> QED
    BY <1>9, <2>1 DEF Feed
<1>10. CASE CallWait
  <2>1. CallTypeOK'
    BY <1>10, CallTypes DEF CallWait, MainCalls, BuildResult, CallTypeOK
  <2> QED
    <3>2. results' \in Seq([Stream -> Nat]) /\ content' \in [Stream -> Nat]
      <4>1. CASE waited /\ BuildResult
        BY <4>1, BuildTypes
      <4>2. CASE UNCHANGED <<results, content>>
        BY <4>2
      <4> QED
        BY <1>10, <4>1, <4>2 DEF CallWait
    <3> QED
      BY <1>10, <2>1, <3>2, SMTT(60) DEF CallWait
<1>11. CASE JoinForResult
  <2>1. CallTypeOK'
    BY <1>11, CallTypes DEF JoinForResult, BuildResult, CallTypeOK
  <2>2. results' \in Seq([Stream -> Nat]) /\ content' \in [Stream -> Nat]
    BY <1>11, BuildTypes DEF JoinForResult
  <2> QED
    BY <1>11, <2>1, <2>2 DEF JoinForResult, BuildResult
<1>12. CASE JoinAfterKill
  <2>1. CallTypeOK'
    BY <1>12, CallTypes DEF JoinAfterKill, CallTypeOK
  <2> QED
    BY <1>12, <2>1 DEF JoinAfterKill
<1>13. CASE CallKill
  <2>1. CallTypeOK'
    BY <1>13, CallTypes DEF CallKill, MainCalls, Alone, CallTypeOK
  <2> QED
    BY <1>13, <2>1 DEF CallKill, MainCalls, Alone
<1>14. CASE Destroy
  <2>1. CallTypeOK'
    BY <1>14, CallTypes DEF Destroy, CallTypeOK
  <2> QED
    BY <1>14, <2>1 DEF Destroy
<1>15. CASE CallDetach
  <2>1. CallTypeOK'
    BY <1>15, CallTypes DEF CallDetach, MainCalls, Alone, CallTypeOK
  <2> QED
    BY <1>15, <2>1 DEF CallDetach, MainCalls, Alone
<1>16. CASE DetachCloses
  <2>1. CallTypeOK'
    BY <1>16, CallTypes DEF DetachCloses, CallTypeOK
  <2> QED
    BY <1>16, <2>1 DEF DetachCloses
<1>17. CASE DetachJoins
  <2>1. CallTypeOK'
    BY <1>17, CallTypes DEF DetachJoins, CallTypeOK
  <2> QED
    BY <1>17, <2>1 DEF DetachJoins
<1>18. CASE ChildReads
  BY <1>18, CapturedIsStream, SMTT(60) DEF ChildReads, callVars, CallTypeOK
<1>19. CASE ChildSeesEof
  BY <1>19 DEF ChildSeesEof, StdinEof, callVars, CallTypeOK
<1>20. CASE ChildWrites
  <2>1. CallTypeOK' /\ StdinTypeOK'
    BY <1>20 DEF ChildWrites, callVars, CallTypeOK
  <2>2. piped' \in [Stream -> 0..StdoutCap] /\ wrote' \in [Stream -> Nat]
    <3>1. CASE UNCHANGED <<piped, wrote>>
      BY <3>1
    <3>2. ASSUME owed \in readEnds, piped[owed] < StdoutCap,
                 piped' = [piped EXCEPT ![owed] = @ + 1], wrote' = [wrote EXCEPT ![owed] = @ + 1]
          PROVE  piped' \in [Stream -> 0..StdoutCap] /\ wrote' \in [Stream -> Nat]
      <4>1. owed \in Stream /\ piped[owed] + 1 \in 0..StdoutCap /\ wrote[owed] + 1 \in Nat
        BY <3>2
      <4> QED
        BY <3>2, <4>1
    <3> QED
      BY <1>20, <3>1, <3>2 DEF ChildWrites
  <2> QED
    BY <1>20, <2>1, <2>2 DEF ChildWrites
<1>21. CASE ChildSpeaks
  BY <1>21, CapturedIsStream, SMTT(60) DEF ChildSpeaks, callVars, CallTypeOK
<1>22. CASE ChildClosesStdin
  BY <1>22 DEF ChildClosesStdin, callVars, CallTypeOK
<1>23. CASE ChildExits
  BY <1>23, SMTT(60) DEF ChildExits, callVars, CallTypeOK
<1>24. CASE UNCHANGED vars
  <2>1. CallTypeOK' /\ StdinTypeOK' /\ OutTypeOK'
    BY <1>24 DEF vars, callVars, CallTypeOK
  <2> QED
    BY <1>24, <2>1 DEF vars
<1>25. ASSUME NEW a \in Writer, WriteFails(a) PROVE TypeOK'
  <2>1. CallTypeOK'
    BY <1>25, CallTypes DEF WriteFails, CallTypeOK
  <2> QED
    BY <1>25, <2>1 DEF WriteFails
<1>26. CASE DetachReleases
  <2>1. CallTypeOK'
    BY <1>26, CallTypes DEF DetachReleases, CallTypeOK
  <2> QED
    BY <1>26, <2>1, ZenonT(90) DEF DetachReleases
<1> QED
  BY <1>1, <1>2, <1>3, <1>4, <1>5, <1>6, <1>7, <1>8, <1>9, <1>10, <1>11, <1>12,
     <1>13, <1>14, <1>15, <1>16, <1>17, <1>18, <1>19, <1>20, <1>21, <1>22, <1>23,
     <1>24, <1>25, <1>26
     DEF Next, HostNext, WriteStep, ReadStep, MainStep, ChildStep

(* Where a step of one thread takes it; the others stay where they are. *)
Moves(a, where) == pc'[a] = where /\ \A b \in Actor \ {a} : pc'[b] = pc[b]

LEMMA PcMoves ==
    ASSUME CallTypeOK, NEW a \in Actor
    PROVE  /\ \A where : Goes(a, where) => Moves(a, where)
           /\ \A what : Returns(a, what) => Moves(a, Home(a))
           /\ \A n, where : BeginCall(a, n, where) => Moves(a, where)
           /\ Throws(a) => (Moves(a, pc[a]) \/ Moves(a, Home(a))) /\ host' \in {host, "terminated"}
           /\ UNCHANGED pc => Moves(a, pc[a])
BY DEF CallTypeOK, Goes, Returns, Throws, BeginCall, callVars, Moves

(* Who is who among the threads, and where they return to. *)
LEMMA HomeIs == /\ \A a : Home(a) \in {"loop", "idle"}
                /\ \A a \in Callers : Home(a) = "idle"
                /\ \A s \in Stream : Home(s) = "loop"
                /\ Main \in Actor /\ Writer \subseteq Actor /\ "feeder" \in Actor
                /\ Stream \subseteq Writer /\ Callers \subseteq Writer
                /\ Nobody \notin Writer /\ Main \in Callers /\ "feeder" \notin Writer
                /\ Main \notin Stream
BY CallersAssumption DEF Home, Stream, Actor, Writer, Nobody

(* The mutex and the flag keep writers off a closed descriptor. *)
LEMMA LockStep == ASSUME TypeOK, PhaseInv, LockInv, [Next]_vars PROVE LockInv'
<1> USE PcMoves, HomeIs DEF TypeOK, Moves, LockInv, MainCalls, callVars, stdinVars, outVars, childVars
<1>1. ASSUME NEW a \in Writer, StartWrite(a) PROVE LockInv'
  BY <1>1 DEF StartWrite
<1>2. ASSUME NEW a \in Writer, WriteByte(a) PROVE LockInv'
  BY <1>2 DEF WriteByte
<1>3. ASSUME NEW a \in Writer, WriteBroken(a) PROVE LockInv'
  BY <1>3 DEF WriteBroken
<1>4. ASSUME NEW a \in Writer, CloseStdin(a) PROVE LockInv'
  BY <1>4 DEF CloseStdin
<1>5. ASSUME NEW a \in Writer, CallWrite(a) PROVE LockInv'
  BY <1>5 DEF CallWrite, InUse
<1>6. ASSUME NEW a \in Writer, CallClose(a) PROVE LockInv'
  BY <1>6 DEF CallClose, InUse
<1>7. ASSUME NEW s \in Stream, ReadChunk(s) PROVE LockInv'
  BY <1>7 DEF ReadChunk
<1>8. ASSUME NEW s \in Stream, StopReading(s) PROVE LockInv'
  BY <1>8 DEF StopReading
<1>9. CASE Feed
  BY <1>9 DEF Feed
<1>10. CASE CallWait
  BY <1>10 DEF CallWait, MainCalls, BuildResult
<1>11. CASE JoinForResult
  BY <1>11 DEF JoinForResult, BuildResult
<1>12. CASE JoinAfterKill
  BY <1>12 DEF JoinAfterKill
<1>13. CASE CallKill
  BY <1>13 DEF CallKill, MainCalls, Alone
<1>14. CASE Destroy
  BY <1>14 DEF Destroy
<1>15. CASE CallDetach
  BY <1>15 DEF CallDetach, MainCalls, Alone
<1>16. CASE DetachCloses
  BY <1>16 DEF DetachCloses
<1>17. CASE DetachJoins
  BY <1>17 DEF DetachJoins
<1>18. CASE ChildReads
  BY <1>18 DEF ChildReads, MaySpeak
<1>19. CASE ChildSeesEof
  BY <1>19 DEF ChildSeesEof, StdinEof
<1>20. CASE ChildWrites
  BY <1>20 DEF ChildWrites
<1>21. CASE ChildSpeaks
  BY <1>21 DEF ChildSpeaks, MaySpeak
<1>22. CASE ChildClosesStdin
  BY <1>22 DEF ChildClosesStdin
<1>23. CASE ChildExits
  BY <1>23 DEF ChildExits
<1>24. CASE UNCHANGED vars
  BY <1>24 DEF vars, callVars, stdinVars, outVars, childVars
<1>25. ASSUME NEW a \in Writer, WriteFails(a) PROVE LockInv'
  BY <1>25 DEF WriteFails
<1>26. CASE DetachReleases
  BY <1>26 DEF DetachReleases
<1> QED
  BY <1>1, <1>2, <1>3, <1>4, <1>5, <1>6, <1>7, <1>8, <1>9, <1>10, <1>11, <1>12,
     <1>13, <1>14, <1>15, <1>16, <1>17, <1>18, <1>19, <1>20, <1>21, <1>22, <1>23,
     <1>24, <1>25, <1>26
     DEF Next, HostNext, WriteStep, ReadStep, MainStep, ChildStep

(* Threads stay where they may be. *)
LEMMA PhaseStep == ASSUME TypeOK, PhaseInv, LockInv, [Next]_vars PROVE PhaseInv'
<1> USE PcMoves, HomeIs DEF TypeOK, Moves, PhaseInv, CallerSurvives, LockInv, Others, InUse, ReadersDone, MainCalls, callVars, stdinVars, outVars, childVars
<1>1. ASSUME NEW a \in Writer, StartWrite(a) PROVE PhaseInv'
  BY <1>1 DEF StartWrite
<1>2. ASSUME NEW a \in Writer, WriteByte(a) PROVE PhaseInv'
  BY <1>2 DEF WriteByte
<1>3. ASSUME NEW a \in Writer, WriteBroken(a) PROVE PhaseInv'
  BY <1>3 DEF WriteBroken
<1>4. ASSUME NEW a \in Writer, CloseStdin(a) PROVE PhaseInv'
  BY <1>4 DEF CloseStdin
<1>5. ASSUME NEW a \in Writer, CallWrite(a) PROVE PhaseInv'
  BY <1>5 DEF CallWrite, InUse
<1>6. ASSUME NEW a \in Writer, CallClose(a) PROVE PhaseInv'
  BY <1>6 DEF CallClose, InUse
<1>7. ASSUME NEW s \in Stream, ReadChunk(s) PROVE PhaseInv'
  BY <1>7 DEF ReadChunk
<1>8. ASSUME NEW s \in Stream, StopReading(s) PROVE PhaseInv'
  BY <1>8 DEF StopReading
<1>9. CASE Feed
  BY <1>9 DEF Feed
<1>10. CASE CallWait
  BY <1>10 DEF CallWait, MainCalls, BuildResult
<1>11. CASE JoinForResult
  BY <1>11 DEF JoinForResult, BuildResult
<1>12. CASE JoinAfterKill
  BY <1>12 DEF JoinAfterKill
<1>13. CASE CallKill
  BY <1>13 DEF CallKill, MainCalls, Alone
<1>14. CASE Destroy
  BY <1>14 DEF Destroy
<1>15. CASE CallDetach
  BY <1>15 DEF CallDetach, MainCalls, Alone
<1>16. CASE DetachCloses
  BY <1>16 DEF DetachCloses
<1>17. CASE DetachJoins
  BY <1>17 DEF DetachJoins
<1>18. CASE ChildReads
  BY <1>18 DEF ChildReads, MaySpeak
<1>19. CASE ChildSeesEof
  BY <1>19 DEF ChildSeesEof, StdinEof
<1>20. CASE ChildWrites
  BY <1>20 DEF ChildWrites
<1>21. CASE ChildSpeaks
  BY <1>21 DEF ChildSpeaks, MaySpeak
<1>22. CASE ChildClosesStdin
  BY <1>22 DEF ChildClosesStdin
<1>23. CASE ChildExits
  BY <1>23 DEF ChildExits
<1>24. CASE UNCHANGED vars
  BY <1>24 DEF vars, callVars, stdinVars, outVars, childVars
<1>25. ASSUME NEW a \in Writer, WriteFails(a) PROVE PhaseInv'
  BY <1>25 DEF WriteFails
<1>26. ASSUME host = "up", DetachReleases PROVE PhaseInv'
  BY <1>26 DEF DetachReleases
<1> QED
  BY <1>1, <1>2, <1>3, <1>4, <1>5, <1>6, <1>7, <1>8, <1>9, <1>10, <1>11, <1>12,
     <1>13, <1>14, <1>15, <1>16, <1>17, <1>18, <1>19, <1>20, <1>21, <1>22, <1>23,
     <1>24, <1>25, <1>26
     DEF Next, HostNext, WriteStep, ReadStep, MainStep, ChildStep

(* A step that puts nothing on stdin leaves a call as it is, or answers   *)
(* it, or lets it have the lock, or begins a new one.                      *)
Steady(a) ==
    /\ calls'[a] = calls[a] /\ size'[a] = size[a] /\ left'[a] = left[a]
    /\ pc'[a] \in {"lock", "closing"} => pc'[a] = pc[a]
    /\ pc'[a] = "write" => pc[a] = "write" \/ (pc[a] = "lock" /\ left[a] # 0)
    /\ pc'[a] \in {"lock", "write"} => answer'[a] = answer[a]
    /\ answer'[a] = "ok" => answer[a] = "ok" \/ left[a] = 0

Begins(a) ==
    /\ calls'[a] = calls[a] + 1 /\ size'[a] \in Nat /\ left'[a] = size'[a]
    /\ pc'[a] \in {"lock", "closing"}
    /\ pc'[a] = "closing" => left'[a] = 0
    /\ answer'[a] = "none"

Quiet == UNCHANGED sent /\ \A a \in Writer : Steady(a) \/ Begins(a)

(* What the pieces of an action do to the calls of all threads. *)
LEMMA CallMoves ==
    ASSUME CallTypeOK
    PROVE  /\ UNCHANGED callVars => \A b \in Writer : Steady(b)
           /\ \A a \in Writer, n \in Nat, where \in {"lock", "closing"} :
                  BeginCall(a, n, where) /\ (where = "closing" => n = 0)
                  => \A b \in Writer : Steady(b) \/ Begins(b)
           /\ \A a \in Writer, what \in {"ok", "write_error", "mode_error"} :
                  /\ Returns(a, what) /\ UNCHANGED <<calls, size, left>>
                  /\ what = "ok" => left[a] = 0
                  => \A b \in Writer : Steady(b)
           /\ \A a \in Writer : Throws(a) => \A b \in Writer : Steady(b)
           /\ \A a \in Actor : \A where :
                  /\ Goes(a, where) /\ UNCHANGED <<calls, size, left, answer>>
                  /\ where \notin {"lock", "closing"}
                  /\ where = "write" => pc[a] = "lock" /\ left[a] # 0
                  => \A b \in Writer : Steady(b)
<1> USE HomeIs DEF CallTypeOK, Steady
<1>1. ASSUME UNCHANGED callVars PROVE \A b \in Writer : Steady(b)
  BY <1>1 DEF callVars
<1>2. ASSUME NEW a \in Writer, NEW n \in Nat, NEW where \in {"lock", "closing"},
             BeginCall(a, n, where), where = "closing" => n = 0, NEW b \in Writer
      PROVE  Steady(b) \/ Begins(b)
  <2>1. CASE b = a
    BY <1>2, <2>1 DEF BeginCall, Begins, Goes
  <2>2. CASE b # a
    BY <1>2, <2>2 DEF BeginCall, Goes
  <2> QED
    BY <2>1, <2>2
<1>3. ASSUME NEW a \in Writer, NEW what \in {"ok", "write_error", "mode_error"},
             Returns(a, what), UNCHANGED <<calls, size, left>>, what = "ok" => left[a] = 0
      PROVE  \A b \in Writer : Steady(b)
  BY <1>3 DEF Returns, Goes
<1>4. ASSUME NEW a \in Writer, Throws(a) PROVE \A b \in Writer : Steady(b)
  BY <1>1, <1>3, <1>4 DEF Throws
<1>5. ASSUME NEW a \in Actor, NEW where, Goes(a, where), UNCHANGED <<calls, size, left, answer>>,
             where \notin {"lock", "closing"}, where = "write" => pc[a] = "lock" /\ left[a] # 0
      PROVE  \A b \in Writer : Steady(b)
  BY <1>5 DEF Goes
<1> QED
  BY <1>1, <1>2, <1>3, <1>4, <1>5

(* Every action but WriteByte is quiet in this sense. *)
LEMMA QuietSteps ==
    ASSUME TypeOK, DeliveryInv, [Next]_vars
    PROVE  Quiet \/ \E a \in Writer : WriteByte(a)
<1> USE CallMoves, HomeIs DEF TypeOK, Quiet, MainCalls, stdinVars, outVars, childVars
<1>1. ASSUME NEW a \in Writer, StartWrite(a) PROVE Quiet
  BY <1>1 DEF StartWrite
<1>3. ASSUME NEW a \in Writer, WriteBroken(a) PROVE Quiet
  BY <1>3 DEF WriteBroken
<1>4. ASSUME NEW a \in Writer, CloseStdin(a) PROVE Quiet
  <2>1. left[a] = 0
    BY <1>4, Zenon DEF CloseStdin, DeliveryInv
  <2> QED
    BY <1>4, <2>1 DEF CloseStdin
<1>5. ASSUME NEW a \in Writer, CallWrite(a) PROVE Quiet
  BY <1>5, SizesAssumption DEF CallWrite
<1>6. ASSUME NEW a \in Writer, CallClose(a) PROVE Quiet
  BY <1>6 DEF CallClose, InUse
<1>7. ASSUME NEW s \in Stream, ReadChunk(s) PROVE Quiet
  BY <1>7, SizesAssumption DEF ReadChunk
<1>8. ASSUME NEW s \in Stream, StopReading(s) PROVE Quiet
  BY <1>8 DEF StopReading
<1>9. CASE Feed
  BY <1>9 DEF Feed, callVars
<1>10. CASE CallWait
  BY <1>10 DEF CallWait, callVars
<1>11. CASE JoinForResult
  BY <1>11 DEF JoinForResult, BuildResult
<1>12. CASE JoinAfterKill
  BY <1>12 DEF JoinAfterKill
<1>13. CASE CallKill
  BY <1>13 DEF CallKill, MainCalls, Alone
<1>14. CASE Destroy
  BY <1>14 DEF Destroy
<1>15. CASE CallDetach
  BY <1>15 DEF CallDetach, MainCalls, Alone
<1>16. CASE DetachCloses
  BY <1>16 DEF DetachCloses
<1>17. CASE DetachJoins
  BY <1>17 DEF DetachJoins
<1>18. CASE ChildReads
  BY <1>18 DEF ChildReads, MaySpeak
<1>19. CASE ChildSeesEof
  BY <1>19 DEF ChildSeesEof, StdinEof
<1>20. CASE ChildWrites
  BY <1>20 DEF ChildWrites
<1>21. CASE ChildSpeaks
  BY <1>21 DEF ChildSpeaks, MaySpeak
<1>22. CASE ChildClosesStdin
  BY <1>22 DEF ChildClosesStdin
<1>23. CASE ChildExits
  BY <1>23 DEF ChildExits
<1>24. CASE UNCHANGED vars
  BY <1>24 DEF vars
<1>25. ASSUME NEW a \in Writer, WriteFails(a) PROVE Quiet
  BY <1>25 DEF WriteFails
<1>26. CASE DetachReleases
  BY <1>26 DEF DetachReleases, callVars
<1> QED
  BY <1>1, <1>3, <1>4, <1>5, <1>6, <1>7, <1>8, <1>9, <1>10, <1>11, <1>12, <1>13,
     <1>14, <1>15, <1>16, <1>17, <1>18, <1>19, <1>20, <1>21, <1>22, <1>23, <1>24, <1>25, <1>26
     DEF Next, HostNext, WriteStep, ReadStep, MainStep, ChildStep

(* Bytes of one call stay together. *)
LEMMA OrderStep ==
    ASSUME TypeOK, LockInv, OrderInv, DeliveryInv, [Next]_vars
    PROVE  OrderInv'
<1>1. /\ sent \in Seq(Writer \X (0..MaxCalls)) /\ calls \in [Writer -> 0..MaxCalls]
      /\ \A i \in DOMAIN sent : sent[i] \in Writer \X (0..MaxCalls)
  BY ElementOfSeq DEF TypeOK, CallTypeOK, StdinTypeOK
<1>2. CASE Quiet
  <2>1. Contiguous'
    <3>1. sent' = sent /\ Contiguous
      BY <1>2 DEF Quiet, OrderInv
    <3> QED
      BY <3>1 DEF Contiguous
  <2>2. ASSUME NEW a \in Writer, NEW i \in DOMAIN sent
        PROVE  /\ sent[i][1] = a => sent[i][2] <= calls'[a]
               /\ pc'[a] = "lock" => sent[i] # <<a, calls'[a]>>
               /\ pc'[a] = "write" /\ sent[i] = <<a, calls'[a]>> =>
                      \A k \in i..Len(sent) : sent[k] = sent[i]
    <3>1. sent[i][2] \in Nat /\ calls[a] \in Nat
      BY <1>1, BoundsAssumption
    <3>2. /\ sent[i][1] = a => sent[i][2] <= calls[a]
          /\ pc[a] = "lock" => sent[i] # <<a, calls[a]>>
          /\ pc[a] = "write" /\ sent[i] = <<a, calls[a]>> =>
                 \A k \in i..Len(sent) : sent[k] = sent[i]
      BY <2>2 DEF OrderInv
    <3>3. CASE Steady(a)
      BY <3>2, <3>3 DEF Steady
    <3>4. CASE Begins(a)
      <4>1. sent[i] # <<a, calls[a] + 1>>
        BY <3>1, <3>2
      <4> QED
        BY <3>1, <3>2, <3>4, <4>1 DEF Begins
    <3> QED
      BY <1>2, <3>3, <3>4 DEF Quiet
  <2> QED
    BY <1>2, <2>1, <2>2 DEF Quiet, OrderInv
<1>3. ASSUME NEW a \in Writer, WriteByte(a) PROVE OrderInv'
  <2> DEFINE e == <<a, calls[a]>>
             n == Len(sent)
  <2>1. /\ pc[a] = "write" /\ sent' = Append(sent, e) /\ calls' = calls
        /\ \A b \in Writer : b # a => pc'[b] = pc[b]
        /\ pc'[a] # "lock"
    BY <1>3, PcMoves, HomeIs DEF WriteByte, Moves, TypeOK
  <2>2. \A b \in Writer : b # a => pc'[b] # "write"
    BY <2>1 DEF LockInv
  <2>3. e \in Writer \X (0..MaxCalls)
    BY <1>1
  <2>4. /\ n \in Nat /\ DOMAIN sent = 1..n /\ DOMAIN sent' = 1..n+1 /\ Len(sent') = n + 1
        /\ sent'[n+1] = e /\ \A i \in 1..n : sent'[i] = sent[i]
    BY <1>1, <2>1, <2>3, AppendProperties, LenProperties
  <2>5. \A i \in 1..n : sent[i] = e => \A k \in i..n : sent[k] = e
    BY <2>1, <2>4 DEF OrderInv
  <2>6. \A i \in 1..n+1 : sent'[i] = e => \A k \in i..n+1 : sent'[k] = e
    <3> SUFFICES ASSUME NEW i \in 1..n+1, sent'[i] = e, NEW k \in i..n+1
                 PROVE  sent'[k] = e
      OBVIOUS
    <3>1. CASE k = n + 1
      BY <2>4, <3>1
    <3>2. CASE k # n + 1
      <4>1. n \in Nat
        BY <2>4
      <4>2. i \in 1..n /\ k \in i..n /\ k \in 1..n
        BY <3>2, <4>1
      <4> HIDE DEF n, e
      <4> QED
        BY <2>4, <2>5, <4>2
    <3> QED
      BY <3>1, <3>2
  <2>7. Contiguous'
    <3> SUFFICES ASSUME NEW i \in 1..n+1, NEW k \in 1..n+1, i < k, sent'[i] = sent'[k],
                        NEW j \in i..k
                 PROVE  sent'[j] = sent'[i]
      BY <2>4 DEF Contiguous
    <3>1. CASE k = n + 1
      BY <2>4, <2>6, <3>1
    <3>2. CASE k # n + 1
      <4> HIDE DEF n, e
      <4>1. i \in 1..n /\ k \in 1..n /\ j \in 1..n
        BY <2>4, <3>2
      <4>2. sent[i] = sent[k] /\ sent'[i] = sent[i] /\ sent'[j] = sent[j]
        BY <2>4, <4>1
      <4> QED
        BY <2>4, <4>1, <4>2 DEF OrderInv, Contiguous
    <3> QED
      BY <3>1, <3>2
  <2>8. ASSUME NEW b \in Writer, NEW i \in 1..n+1
        PROVE  /\ sent'[i][1] = b => sent'[i][2] <= calls'[b]
               /\ pc'[b] = "lock" => sent'[i] # <<b, calls'[b]>>
               /\ pc'[b] = "write" /\ sent'[i] = <<b, calls'[b]>> =>
                      \A k \in i..n+1 : sent'[k] = sent'[i]
    <3>1. pc'[b] = "write" /\ sent'[i] = <<b, calls'[b]>> =>
              \A k \in i..n+1 : sent'[k] = sent'[i]
      BY <2>1, <2>2, <2>6
    <3>2. CASE i = n + 1
      <4>1. sent'[i] = <<a, calls[a]>> /\ calls' = calls /\ pc'[a] # "lock"
        BY <2>1, <2>4, <3>2
      <4>2. calls[a] \in Nat
        BY <1>1, BoundsAssumption
      <4> HIDE DEF n, e
      <4> QED
        BY <3>1, <4>1, <4>2
    <3>3. CASE i \in 1..n
      <4>1. /\ sent'[i] = sent[i] /\ calls' = calls
            /\ sent[i][1] = b => sent[i][2] <= calls[b]
            /\ pc[b] = "lock" => sent[i] # <<b, calls[b]>>
        BY <2>1, <2>4, <3>3 DEF OrderInv
      <4> HIDE DEF n, e
      <4> QED
        BY <2>1, <3>1, <4>1
    <3>4. n \in Nat
      BY <2>4
    <3> HIDE DEF n
    <3>5. i = n + 1 \/ i \in 1..n
      BY <3>4
    <3> QED
      BY <3>2, <3>3, <3>5
  <2> QED
    BY <2>4, <2>7, <2>8 DEF OrderInv
<1> QED
  BY <1>2, <1>3, QuietSteps

(* What is in the pipe and what is left make up the buffer. *)
LEMMA DeliveryStep ==
    ASSUME TypeOK, LockInv, OrderInv, DeliveryInv, [Next]_vars
    PROVE  DeliveryInv'
<1>1. /\ sent \in Seq(Writer \X (0..MaxCalls)) /\ calls \in [Writer -> 0..MaxCalls]
      /\ \A i \in DOMAIN sent : sent[i] \in Writer \X (0..MaxCalls)
      /\ left \in [Writer -> Nat] /\ size \in [Writer -> Nat] /\ CallTypeOK
  BY ElementOfSeq DEF TypeOK, CallTypeOK, StdinTypeOK
<1> DEFINE Fine(b) ==
        /\ IsFiniteSet(Mine(b))
        /\ Cardinality(Mine(b)) = size[b] - left[b]
        /\ answer[b] = "ok" \/ pc[b] = "closing" => left[b] = 0
        /\ pc[b] \in {"lock", "write"} => answer[b] = "none"
        /\ pc[b] = "write" => left[b] > 0
<1>2. \A b \in Writer : Fine(b)
  BY Zenon DEF DeliveryInv
<1>3. CASE Quiet
  <2> SUFFICES ASSUME NEW b \in Writer PROVE Fine(b)'
    BY Zenon DEF DeliveryInv
  <2>1. left[b] \in Nat /\ sent' = sent
    BY <1>1, <1>3 DEF Quiet
  <2>2. CASE Steady(b)
    <3>1. Mine(b)' = Mine(b)
      BY <2>1, <2>2 DEF Mine, Steady
    <3> QED
      BY <1>2, <2>1, <2>2, <3>1 DEF Steady
  <2>3. CASE Begins(b)
    <3>1. \A i \in DOMAIN sent : sent[i] # <<b, calls[b] + 1>>
      <4> SUFFICES ASSUME NEW i \in DOMAIN sent PROVE sent[i] # <<b, calls[b] + 1>>
        OBVIOUS
      <4>1. sent[i][2] \in Nat /\ calls[b] \in Nat
        BY <1>1, BoundsAssumption
      <4>2. sent[i][1] = b => sent[i][2] <= calls[b]
        BY DEF OrderInv
      <4> QED
        BY <4>1, <4>2
    <3>2. Mine(b)' = {}
      BY <2>1, <2>3, <3>1 DEF Mine, Begins
    <3>3. IsFiniteSet(Mine(b)') /\ Cardinality(Mine(b)') = 0
      BY <3>2, FS_EmptySet
    <3> QED
      BY <2>3, <3>3 DEF Begins
  <2> QED
    BY <1>3, <2>2, <2>3 DEF Quiet
<1>4. ASSUME NEW a \in Writer, WriteByte(a) PROVE DeliveryInv'
  <2> DEFINE e == <<a, calls[a]>>
             n == Len(sent)
  <2>1. /\ pc[a] = "write" /\ sent' = Append(sent, e) /\ calls' = calls /\ size' = size
        /\ left' = [left EXCEPT ![a] = @ - 1]
        /\ \A b \in Writer : b # a => pc'[b] = pc[b] /\ answer'[b] = answer[b]
        /\ IF left[a] = 1 THEN pc'[a] = Home(a) ELSE pc'[a] = pc[a] /\ answer'[a] = answer[a]
    BY <1>1, <1>3, <1>4, PcMoves, HomeIs DEF WriteByte, Moves, Returns, CallTypeOK
  <2>2. e \in Writer \X (0..MaxCalls)
    BY <1>1
  <2>3. /\ n \in Nat /\ DOMAIN sent = 1..n /\ DOMAIN sent' = 1..n+1
        /\ sent'[n+1] = e /\ \A i \in 1..n : sent'[i] = sent[i]
    BY <1>1, <2>1, <2>2, AppendProperties, LenProperties
  <2> SUFFICES ASSUME NEW b \in Writer PROVE Fine(b)'
    BY Zenon DEF DeliveryInv
  <2>4. CASE b = a
    <3>1. Mine(a)' = Mine(a) \cup {n + 1} /\ n + 1 \notin Mine(a)
      <4> HIDE DEF n
      <4> QED
        BY <2>1, <2>3 DEF Mine
    <3>2. IsFiniteSet(Mine(a)') /\ Cardinality(Mine(a)') = Cardinality(Mine(a)) + 1
      BY <1>2, <3>1, FS_AddElement
    <3>3. /\ left[a] \in Nat /\ left[a] > 0 /\ size[a] \in Nat /\ left'[a] = left[a] - 1
          /\ size'[a] = size[a] /\ Cardinality(Mine(a)) = size[a] - left[a] /\ answer[a] = "none"
      BY <1>1, <1>2, <2>1
    <3> HIDE DEF Mine
    <3>4. Cardinality(Mine(a)') = size'[a] - left'[a]
      BY <3>2, <3>3
    <3> QED
      <4>1. CASE left[a] = 1
        <5>1. left'[a] = 0 /\ pc'[a] \in {"loop", "idle"}
          BY <2>1, <3>3, <4>1, HomeIs
        <5> QED
          BY <2>4, <3>2, <3>4, <5>1
      <4>2. CASE left[a] # 1
        <5>1. left'[a] > 0 /\ pc'[a] = "write" /\ answer'[a] = "none"
          BY <2>1, <3>3, <4>2
        <5> QED
          BY <2>4, <3>2, <3>4, <5>1
      <4> QED
        BY <4>1, <4>2
  <2>5. CASE b # a
    <3>1. Mine(b)' = Mine(b)
      <4> HIDE DEF n
      <4> QED
        BY <2>1, <2>3, <2>5 DEF Mine
    <3>2. left'[b] = left[b] /\ size'[b] = size[b] /\ pc'[b] = pc[b] /\ answer'[b] = answer[b]
      BY <1>1, <2>1, <2>5
    <3> QED
      BY <1>2, <3>1, <3>2
  <2> QED
    BY <2>4, <2>5
<1> QED
  BY <1>3, <1>4, QuietSteps

(* What the end of a reader means. *)
LEMMA EndStep == ASSUME TypeOK, PhaseInv, EndInv, [Next]_vars PROVE EndInv'
<1> USE PcMoves, HomeIs DEF TypeOK, Moves, PhaseInv, EndInv, ReadersDone, MainCalls, callVars, stdinVars, outVars, childVars
<1>1. ASSUME NEW a \in Writer, StartWrite(a) PROVE EndInv'
  BY <1>1 DEF StartWrite
<1>2. ASSUME NEW a \in Writer, WriteByte(a) PROVE EndInv'
  BY <1>2 DEF WriteByte
<1>3. ASSUME NEW a \in Writer, WriteBroken(a) PROVE EndInv'
  BY <1>3 DEF WriteBroken
<1>4. ASSUME NEW a \in Writer, CloseStdin(a) PROVE EndInv'
  BY <1>4 DEF CloseStdin
<1>5. ASSUME NEW a \in Writer, CallWrite(a) PROVE EndInv'
  BY <1>5 DEF CallWrite, InUse
<1>6. ASSUME NEW a \in Writer, CallClose(a) PROVE EndInv'
  BY <1>6 DEF CallClose, InUse
<1>7. ASSUME NEW s \in Stream, ReadChunk(s) PROVE EndInv'
  BY <1>7 DEF ReadChunk
<1>8. ASSUME NEW s \in Stream, StopReading(s) PROVE EndInv'
  BY <1>8 DEF StopReading
<1>9. CASE Feed
  BY <1>9 DEF Feed
<1>10. CASE CallWait
  BY <1>10 DEF CallWait, MainCalls, BuildResult
<1>11. CASE JoinForResult
  BY <1>11 DEF JoinForResult, BuildResult
<1>12. CASE JoinAfterKill
  BY <1>12 DEF JoinAfterKill
<1>13. CASE CallKill
  BY <1>13 DEF CallKill, MainCalls, Alone
<1>14. CASE Destroy
  BY <1>14 DEF Destroy
<1>15. CASE CallDetach
  BY <1>15 DEF CallDetach, MainCalls, Alone
<1>16. CASE DetachCloses
  BY <1>16 DEF DetachCloses
<1>17. CASE DetachJoins
  BY <1>17 DEF DetachJoins
<1>18. CASE ChildReads
  BY <1>18 DEF ChildReads, MaySpeak
<1>19. CASE ChildSeesEof
  BY <1>19 DEF ChildSeesEof, StdinEof
<1>20. CASE ChildWrites
  BY <1>20 DEF ChildWrites
<1>21. CASE ChildSpeaks
  BY <1>21 DEF ChildSpeaks, MaySpeak
<1>22. CASE ChildClosesStdin
  BY <1>22 DEF ChildClosesStdin
<1>23. CASE ChildExits
  BY <1>23 DEF ChildExits
<1>24. CASE UNCHANGED vars
  BY <1>24 DEF vars, callVars, stdinVars, outVars, childVars
<1>25. ASSUME NEW a \in Writer, WriteFails(a) PROVE EndInv'
  BY <1>25 DEF WriteFails
<1>26. CASE DetachReleases
  BY <1>26 DEF DetachReleases
<1> QED
  BY <1>1, <1>2, <1>3, <1>4, <1>5, <1>6, <1>7, <1>8, <1>9, <1>10, <1>11, <1>12,
     <1>13, <1>14, <1>15, <1>16, <1>17, <1>18, <1>19, <1>20, <1>21, <1>22, <1>23,
     <1>24, <1>25, <1>26
     DEF Next, HostNext, WriteStep, ReadStep, MainStep, ChildStep

(* When the readers have ended by themselves, they have everything. *)
LEMMA Drained ==
    ASSUME TypeOK, BytesInv, EndInv, ReadersDone, ~shutdown, results = <<>>
    PROVE  LET r == [s \in Stream |-> Trimmed(s, content[s])] IN
           /\ content = wrote
           /\ Append(results, r) # <<>> /\ Append(results, r)[1] = r
<1>1. \A s \in Stream : piped[s] = 0
  BY DEF BytesInv, EndInv, ReadersDone
<1>2. \A s \in Stream : content[s] \in Nat /\ wrote[s] \in Nat /\ content[s] + piped[s] = wrote[s]
  BY DEF TypeOK, OutTypeOK, BytesInv
<1>3. \A s \in Stream : content[s] = wrote[s]
  BY <1>1, <1>2
<1>4. content = wrote
  BY <1>3 DEF TypeOK, OutTypeOK
<1> QED
  BY <1>4

(* The child's bytes are in its pipes or with the readers until wait() has them. *)
LEMMA BytesStep == ASSUME TypeOK, PhaseInv, BytesInv, EndInv, [Next]_vars PROVE BytesInv'
<1> USE PcMoves, HomeIs DEF TypeOK, OutTypeOK, BytesInv, callVars, stdinVars, outVars, childVars
<1>1. ASSUME NEW a \in Writer, StartWrite(a) PROVE BytesInv'
  BY <1>1 DEF StartWrite
<1>2. ASSUME NEW a \in Writer, WriteByte(a) PROVE BytesInv'
  BY <1>2 DEF WriteByte
<1>3. ASSUME NEW a \in Writer, WriteBroken(a) PROVE BytesInv'
  BY <1>3 DEF WriteBroken
<1>4. ASSUME NEW a \in Writer, CloseStdin(a) PROVE BytesInv'
  BY <1>4 DEF CloseStdin
<1>5. ASSUME NEW a \in Writer, CallWrite(a) PROVE BytesInv'
  BY <1>5 DEF CallWrite, InUse
<1>6. ASSUME NEW a \in Writer, CallClose(a) PROVE BytesInv'
  BY <1>6 DEF CallClose, InUse
<1>7. ASSUME NEW s \in Stream, ReadChunk(s) PROVE BytesInv'
  BY <1>7 DEF ReadChunk
<1>8. ASSUME NEW s \in Stream, StopReading(s) PROVE BytesInv'
  BY <1>8 DEF StopReading
<1>9. CASE Feed
  BY <1>9 DEF Feed
<1>10. CASE CallWait
  <2>1. CASE waited /\ pc[Main] = "idle" /\ BuildResult
    <3>1. ReadersDone /\ ~shutdown /\ results = <<>> /\ child = "dead"
      BY <1>10, <2>1 DEF EndInv, CallWait
    <3> QED
      BY <1>10, <2>1, <3>1, Drained DEF CallWait, BuildResult
  <2>2. CASE UNCHANGED <<results, content>>
    BY <1>10, <2>2 DEF CallWait
  <2> QED
    BY <1>10, <2>1, <2>2 DEF CallWait
<1>11. CASE JoinForResult
  <2>1. ReadersDone /\ ~shutdown /\ results = <<>>
    BY <1>11 DEF EndInv, JoinForResult
  <2> QED
    BY <1>11, <2>1, Drained DEF JoinForResult, BuildResult
<1>12. CASE JoinAfterKill
  BY <1>12 DEF JoinAfterKill
<1>13. CASE CallKill
  BY <1>13 DEF CallKill, MainCalls, Alone
<1>14. CASE Destroy
  BY <1>14 DEF Destroy
<1>15. CASE CallDetach
  BY <1>15 DEF CallDetach, MainCalls, Alone
<1>16. CASE DetachCloses
  BY <1>16 DEF DetachCloses
<1>17. CASE DetachJoins
  BY <1>17 DEF DetachJoins
<1>18. CASE ChildReads
  BY <1>18 DEF ChildReads, MaySpeak
<1>19. CASE ChildSeesEof
  BY <1>19 DEF ChildSeesEof, StdinEof
<1>20. CASE ChildWrites
  <2>1. results = <<>>
    BY <1>20 DEF ChildWrites
  <2>2. CASE UNCHANGED <<piped, wrote>>
    BY <1>20, <2>1, <2>2 DEF ChildWrites
  <2>3. ASSUME owed \in readEnds, piped' = [piped EXCEPT ![owed] = @ + 1],
               wrote' = [wrote EXCEPT ![owed] = @ + 1]
        PROVE  BytesInv'
    <3>1. UNCHANGED <<mode, readEnds, content, results>> /\ owed \in mode.captured
      BY <1>20, <2>3 DEF ChildWrites
    <3>2. \A s \in Stream : s \notin mode.captured => piped'[s] = 0
      BY <2>3, <3>1
    <3>3. \A s \in Stream : content[s] + piped'[s] = wrote'[s]
      BY <2>1, <2>3
    <3> QED
      BY <2>1, <3>1, <3>2, <3>3
  <2> QED
    BY <1>20, <2>2, <2>3 DEF ChildWrites
<1>21. CASE ChildSpeaks
  BY <1>21 DEF ChildSpeaks, MaySpeak
<1>22. CASE ChildClosesStdin
  BY <1>22 DEF ChildClosesStdin
<1>23. CASE ChildExits
  BY <1>23 DEF ChildExits
<1>24. CASE UNCHANGED vars
  BY <1>24 DEF vars, callVars, stdinVars, outVars, childVars
<1>25. ASSUME NEW a \in Writer, WriteFails(a) PROVE BytesInv'
  BY <1>25 DEF WriteFails
<1>26. CASE DetachReleases
  BY <1>26 DEF DetachReleases
<1> QED
  BY <1>1, <1>2, <1>3, <1>4, <1>5, <1>6, <1>7, <1>8, <1>9, <1>10, <1>11, <1>12,
     <1>13, <1>14, <1>15, <1>16, <1>17, <1>18, <1>19, <1>20, <1>21, <1>22, <1>23,
     <1>24, <1>25, <1>26
     DEF Next, HostNext, WriteStep, ReadStep, MainStep, ChildStep

-----------------------------------------------------------------------------
(* The invariant holds when the handle is made. *)
LEMMA InitInv == ASSUME Init PROVE IInv
<1> USE DEF Init
<1>1. TypeOK
  <2>1. CallTypeOK
    BY BoundsAssumption, HomeIs DEF CallTypeOK, Actor, Writer, Stream
  <2>2. stdinOpen \in BOOLEAN
    BY Zenon
  <2>3. StdinTypeOK
    <3>1. <<>> \in Seq(Writer \X (0..MaxCalls)) /\ 0 \in 0..StdinCap
      BY BoundsAssumption
    <3> QED
      BY <2>2, <3>1 DEF StdinTypeOK
  <2>4. OutTypeOK
    <3>1. <<>> \in Seq([Stream -> Nat]) /\ 0 \in 0..StdoutCap /\ mode.captured \in SUBSET Stream
      BY BoundsAssumption, CapturedIsStream
    <3> QED
      BY <3>1 DEF OutTypeOK
  <2> QED
    BY <2>1, <2>3, <2>4 DEF TypeOK
<1>2. PhaseInv
  BY CallersAssumption, CapturedIsStream
     DEF PhaseInv, CallerSurvives, Others, InUse, Actor, Writer, Stream, ReadersDone
<1>3. LockInv
  BY CallersAssumption DEF LockInv, Actor, Writer, Stream, Nobody
<1>4. DOMAIN sent = {} /\ OrderInv
  BY DEF OrderInv, Contiguous
<1>5. DeliveryInv
  <2>1. ASSUME NEW a \in Writer
        PROVE  IsFiniteSet(Mine(a)) /\ Cardinality(Mine(a)) = size[a] - left[a]
    <3>1. Mine(a) = {}
      BY <1>4 DEF Mine
    <3> QED
      BY <3>1, FS_EmptySet
  <2>2. \A a \in Writer : /\ answer[a] = "none" /\ left[a] = 0
                           /\ pc[a] \notin {"lock", "write", "closing"}
    BY DEF Actor, Writer, Stream
  <2> QED
    BY <2>1, <2>2 DEF DeliveryInv
<1>6. BytesInv /\ EndInv
  BY CallersAssumption DEF BytesInv, EndInv, Actor, Writer, Stream, ReadersDone
<1> QED
  BY <1>1, <1>2, <1>3, <1>4, <1>5, <1>6 DEF IInv

(* The invariant holds in every reachable state. *)
LEMMA Inductive == Spec => []IInv
<1>1. Init => IInv
  BY InitInv
<1>2. IInv /\ [Next]_vars => IInv'
  BY TypeStep, PhaseStep, LockStep, OrderStep, DeliveryStep, BytesStep, EndStep DEF IInv
<1> QED
  BY <1>1, <1>2, PTL DEF Spec

(* Every variable of the model has its type in every reachable state. *)
THEOREM TypeCorrect == Spec => []TypeOK
<1>1. IInv => TypeOK
  BY DEF IInv
<1> QED
  BY <1>1, Inductive, PTL

(* Concurrent calls of write_stdin(), from any number of threads and from  *)
(* callbacks, with buffers of any sizes, never mix their bytes.            *)
THEOREM WritesAreContiguous == Spec => []Contiguous
<1>1. IInv => Contiguous
  BY DEF IInv, OrderInv
<1> QED
  BY <1>1, Inductive, PTL

(* write_stdin() that returned normally has put its whole buffer into the  *)
(* pipe, and at any moment exactly the bytes it counts as written are      *)
(* there.                                                                  *)
THEOREM WritesAreWhole == Spec => []OkMeansDelivered
<1>1. IInv => OkMeansDelivered
  BY DEF IInv, DeliveryInv, OkMeansDelivered, Mine
<1> QED
  BY <1>1, Inductive, PTL

(* No thread is ever inside the write of a descriptor that was closed.     *)
THEOREM NoWriteAfterClose == Spec => []NeverOnClosedFd
<1>1. IInv => NeverOnClosedFd
  BY HomeIs, CallersAssumption
     DEF IInv, PhaseInv, LockInv, NeverOnClosedFd, InUse, ReadersDone, Others, Writer
<1> QED
  BY <1>1, Inductive, PTL

(* SIGPIPE never kills the program on account of a write_stdin(), whatever *)
(* thread or callback calls it and whatever else goes on: if it does, that *)
(* was the feeder, or the release byte of detach() for an ended child.     *)
THEOREM NoSigpipeFromWrites == Spec => []CallerSurvives
<1>1. IInv => CallerSurvives
  BY DEF IInv, PhaseInv
<1> QED
  BY <1>1, Inductive, PTL

(* The first result has everything that the child wrote before it ended,   *)
(* after a kill() too.                                                     *)
THEOREM NothingWrittenIsLost == Spec => []OutputComplete
<1>1. IInv => OutputComplete
  BY DEF IInv, BytesInv, OutputComplete
<1> QED
  BY <1>1, Inductive, PTL
=============================================================================
