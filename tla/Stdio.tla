------------------------------- MODULE Stdio -------------------------------
(***************************************************************************)
(* The standard streams of one child on Unix: write_stdin() and            *)
(* close_stdin() from several threads, the thread that feeds StdinMode     *)
(* content or file, the reader threads with their callbacks, and a child   *)
(* that reads and answers, through pipes that fill up.                     *)
(*                                                                         *)
(* Supervision is UnixProcess; here the child and its end are seen only    *)
(* through its streams.  Bytes on stdin are named by the call that wrote   *)
(* them, bytes on stdout and stderr are counted; which of these are blank  *)
(* is the constant Blank.                                                  *)
(***************************************************************************)
EXTENDS Integers, Sequences, FiniteSets

CONSTANTS
    Callers,    \* threads of the program that use the handle,
    Main,       \* the one among them that waits, kills, detaches and destroys
    Sizes,      \* how many bytes a call of write_stdin() is given
    StdinCap, StdoutCap,    \* what the pipes hold
    MaxCalls,   \* bound: calls of write_stdin() and close_stdin() per thread
    MaxOutput,  \* bound: bytes the child writes to its two outputs
    Blank,      \* where a stream has a space or the end of a line: <<stream, position>>
    Modes       \* ways to spawn the child that are considered

Stream  == {"stdout", "stderr"}
AllModes == [stdin : {"pipe", "content"},   \* content stands for file as well
             captured : SUBSET Stream,
             callback : BOOLEAN,            \* the callbacks call write_stdin()
             sigpipe : {"default", "ignored"}]

ASSUME CallersAssumption ==
    /\ Main \in Callers
    /\ Callers \cap (Stream \cup {"feeder", "nobody"}) = {}
ASSUME SizesAssumption   == Sizes \subseteq Nat
ASSUME BoundsAssumption  ==
    /\ StdinCap \in Nat \ {0} /\ StdoutCap \in Nat \ {0}
    /\ MaxCalls \in Nat /\ MaxOutput \in Nat
ASSUME BlankAssumption   == Blank \subseteq Stream \X Nat
ASSUME ModesAssumption   == Modes \subseteq AllModes

(* The reader thread of a stream is named after it. *)
Writer == Callers \cup Stream
Actor  == Writer \cup {"feeder"}
Nobody == "nobody"

VARIABLES
    mode,
    host,       \* the program itself: "up", "sigpipe" (killed), "terminated" (std::terminate)
    pc,         \* where each thread is
    calls,      \* how many calls it has begun
    size, left, \* bytes of its write_stdin(), and those still to write
    answer,     \* what its last call returned; both kinds of WriteError are one
    mutex,      \* stdin_mutex
    stdinOpen,  \* stdin_fd >= 0
    closed,     \* stdin_closed
    sent,       \* the call that wrote each byte ever put into the stdin pipe
    inPipe,     \* how many of them, or of the feeder's, the child has not read
    shutdown,   \* reader_shutdown
    readEnds,   \* the captured streams whose read end is open
    piped,      \* bytes in each output pipe
    wrote,      \* bytes the child has put there
    content,    \* bytes in stdout_content and stderr_content
    waited,     \* the field of that name
    results,    \* what wait() has returned of the two streams, in order
    child,      \* the child process
    owed,       \* the stream it is about to write to, if any
    childIn     \* its stdin: "open", "eof" (seen), "closed"

callVars  == <<pc, calls, size, left, answer>>
stdinVars == <<mutex, stdinOpen, closed, sent, inPipe>>
outVars   == <<shutdown, readEnds, piped, wrote, content, waited, results>>
childVars == <<child, owed, childIn>>
vars      == <<mode, host, callVars, stdinVars, outVars, childVars>>

-----------------------------------------------------------------------------
Init ==
    /\ mode \in Modes
    /\ host = "up"
    /\ pc = [a \in Actor |->
               IF a \in Stream THEN IF a \in mode.captured THEN "loop" ELSE "done"
               ELSE IF a = "feeder" THEN IF mode.stdin = "content" THEN "feed" ELSE "done"
               ELSE "idle"]
    /\ calls = [a \in Writer |-> 0]
    /\ size = [a \in Writer |-> 0] /\ left = [a \in Writer |-> 0]
    /\ answer = [a \in Writer |-> "none"]
    /\ mutex = Nobody
    /\ stdinOpen = (mode.stdin = "pipe") /\ closed = FALSE
    /\ sent = <<>> /\ inPipe = 0
    /\ shutdown = FALSE /\ readEnds = mode.captured
    /\ piped = [s \in Stream |-> 0] /\ wrote = [s \in Stream |-> 0]
    /\ content = [s \in Stream |-> 0]
    /\ waited = FALSE /\ results = <<>>
    /\ child = "up" /\ owed = "nothing" /\ childIn = "open"

(* Nobody can read from the stdin pipe any more: a write gets EPIPE. *)
StdinBroken == child = "dead" \/ childIn = "closed"

(* Nobody can write to it any more: a read gets EOF. *)
StdinEof == inPipe = 0 /\ (host = "up" => ~stdinOpen /\ pc["feeder"] # "feed")

ReadersDone == \A s \in Stream : pc[s] = "done"

(* detach(), the destructor and the move of a handle are not called while  *)
(* another thread of the program is inside a call: that is the caller's    *)
(* part.  Reader threads are the library's own.                            *)
Alone    == \A a \in Callers : pc[a] = "idle"
InUse    == pc[Main] \in {"idle", "lock", "write", "closing", "waiting", "joining"}
Home(a)  == IF a \in Stream THEN "loop" ELSE "idle"

Goes(a, where) == pc' = [pc EXCEPT ![a] = where]

Returns(a, what) ==
    /\ Goes(a, Home(a))
    /\ answer' = [answer EXCEPT ![a] = what]

-----------------------------------------------------------------------------
(* write_stdin() and close_stdin() *)

(* Definitions whose name has a Bug suffix are faulty variants of the one  *)
(* that follows them; the properties are expected to reject them.          *)

BeginCall(a, n, where) ==
    /\ calls[a] < MaxCalls
    /\ Goes(a, where)
    /\ calls' = [calls EXCEPT ![a] = @ + 1]
    /\ size' = [size EXCEPT ![a] = n] /\ left' = [left EXCEPT ![a] = n]
    /\ answer' = [answer EXCEPT ![a] = "none"]

CallWrite(a) ==
    /\ a \in Callers /\ pc[a] = "idle" /\ InUse
    /\ \E n \in Sizes : BeginCall(a, n, "lock")
    /\ UNCHANGED <<mode, host, stdinVars, outVars, childVars>>

CallClose(a) ==
    /\ a \in Callers /\ pc[a] = "idle" /\ InUse
    /\ BeginCall(a, 0, "closing")
    /\ UNCHANGED <<mode, host, stdinVars, outVars, childVars>>

(* A ModeError that leaves a callback leaves the reader thread too. *)
Throws(a) ==
    IF a \in Stream
    THEN host' = "terminated" /\ UNCHANGED callVars
    ELSE Returns(a, "mode_error") /\ UNCHANGED <<host, calls, size, left>>

(* The lock_guard is missing: several threads write at once. *)
StartWriteBugNoLock(a) ==
    /\ pc[a] = "lock"
    /\ IF ~stdinOpen THEN Throws(a)
       ELSE Goes(a, "write") /\ UNCHANGED <<host, calls, size, left, answer>>
    /\ UNCHANGED <<mode, stdinVars, outVars, childVars>>

(* The lock, the two mode checks, and the answer to an empty write. *)
StartWrite(a) ==
    /\ pc[a] = "lock"
    /\ mutex = Nobody
    /\ \/ /\ mode.stdin # "pipe" \/ closed
          /\ Throws(a)
          /\ UNCHANGED mutex
       \/ /\ mode.stdin = "pipe" /\ ~closed
          /\ IF left[a] = 0 THEN Returns(a, "ok") /\ UNCHANGED mutex
                            ELSE Goes(a, "write") /\ mutex' = a /\ UNCHANGED answer
          /\ UNCHANGED <<host, calls, size, left>>
    /\ UNCHANGED <<mode, stdinOpen, closed, sent, inPipe, outVars, childVars>>

(* The loop writes one byte too many. *)
WriteByteBugOverrun(a) ==
    /\ pc[a] = "write" /\ ~StdinBroken /\ inPipe < StdinCap
    /\ sent' = Append(sent, <<a, calls[a]>>) /\ inPipe' = inPipe + 1
    /\ left' = [left EXCEPT ![a] = @ - 1]
    /\ IF left[a] = 0 THEN Returns(a, "ok") /\ mutex' = Nobody
                      ELSE UNCHANGED <<pc, answer, mutex>>
    /\ UNCHANGED <<mode, host, calls, size, stdinOpen, closed, outVars, childVars>>

(* A short write is taken for a whole one. *)
WriteByteBugShort(a) ==
    /\ pc[a] = "write" /\ ~StdinBroken /\ inPipe < StdinCap
    /\ sent' = Append(sent, <<a, calls[a]>>) /\ inPipe' = inPipe + 1
    /\ left' = [left EXCEPT ![a] = @ - 1]
    /\ Returns(a, "ok") /\ mutex' = Nobody
    /\ UNCHANGED <<mode, host, calls, size, stdinOpen, closed, outVars, childVars>>

(* write() takes what fits; the loop goes on until nothing is left. *)
WriteByte(a) ==
    /\ pc[a] = "write" /\ ~StdinBroken /\ inPipe < StdinCap
    /\ sent' = Append(sent, <<a, calls[a]>>) /\ inPipe' = inPipe + 1
    /\ left' = [left EXCEPT ![a] = @ - 1]
    /\ IF left[a] = 1 THEN Returns(a, "ok") /\ mutex' = Nobody
                      ELSE UNCHANGED <<pc, answer, mutex>>
    /\ UNCHANGED <<mode, host, calls, size, stdinOpen, closed, outVars, childVars>>

(* SIGPIPE is not masked around the write. *)
WriteBrokenBugUnmasked(a) ==
    /\ pc[a] = "write" /\ StdinBroken
    /\ host' = IF mode.sigpipe = "default" THEN "sigpipe" ELSE "up"
    /\ Returns(a, "write_error") /\ mutex' = Nobody
    /\ UNCHANGED <<mode, calls, size, left, stdinOpen, closed, sent, inPipe, outVars, childVars>>

(* EPIPE is retried as EINTR is. *)
WriteBrokenBugRetry(a) == pc[a] = "write" /\ StdinBroken /\ UNCHANGED vars

(* EPIPE, with SIGPIPE masked, and drained before the mask is restored. *)
WriteBroken(a) ==
    /\ pc[a] = "write" /\ StdinBroken
    /\ Returns(a, "write_error") /\ mutex' = Nobody
    /\ UNCHANGED <<mode, host, calls, size, left, stdinOpen, closed, sent, inPipe,
                   outVars, childVars>>

(* Any other error of write(), of a pipe that is not broken. *)
WriteFails(a) ==
    /\ pc[a] = "write" /\ ~StdinBroken
    /\ Returns(a, "write_error") /\ mutex' = Nobody
    /\ UNCHANGED <<mode, host, calls, size, left, stdinOpen, closed, sent, inPipe,
                   outVars, childVars>>

(* The flag is set and the descriptor stays open. *)
CloseStdinBugFlagOnly(a) ==
    /\ pc[a] = "closing"
    /\ mutex = Nobody
    /\ IF mode.stdin # "pipe" \/ closed
       THEN Throws(a) /\ UNCHANGED closed
       ELSE closed' = TRUE /\ Returns(a, "ok") /\ UNCHANGED <<host, calls, size, left>>
    /\ UNCHANGED <<mode, mutex, stdinOpen, sent, inPipe, outVars, childVars>>

CloseStdin(a) ==
    /\ pc[a] = "closing"
    /\ mutex = Nobody
    /\ IF mode.stdin # "pipe" \/ closed
       THEN Throws(a) /\ UNCHANGED <<stdinOpen, closed>>
       ELSE /\ stdinOpen' = FALSE /\ closed' = TRUE
            /\ Returns(a, "ok") /\ UNCHANGED <<host, calls, size, left>>
    /\ UNCHANGED <<mode, mutex, sent, inPipe, outVars, childVars>>

(* The detached thread of content and file mode writes without the mutex,  *)
(* to a descriptor of its own, and with SIGPIPE as the program has it.  It *)
(* looks at no result: an interrupted write loses what is left.            *)
Feed ==
    /\ pc["feeder"] = "feed"
    /\ \/ /\ ~StdinBroken /\ inPipe < StdinCap
          /\ inPipe' = inPipe + 1
          /\ UNCHANGED <<pc, host>>
       \/ /\ StdinBroken /\ mode.sigpipe = "default"
          /\ host' = "sigpipe"
          /\ UNCHANGED <<pc, inPipe>>
       \/ /\ Goes("feeder", "done")
          /\ UNCHANGED <<host, inPipe>>
    /\ UNCHANGED <<mode, calls, size, left, answer, mutex, stdinOpen, closed, sent,
                   outVars, childVars>>

-----------------------------------------------------------------------------
(* read_pipes(): one thread per captured stream *)

(* One thread for both: stderr is read when stdout has ended. *)
ReadChunkBugSequential(s) ==
    /\ pc[s] = "loop" /\ ~shutdown /\ piped[s] > 0
    /\ s = "stderr" => pc["stdout"] = "done"
    /\ \E n \in 1..piped[s] :
         /\ piped' = [piped EXCEPT ![s] = @ - n]
         /\ content' = [content EXCEPT ![s] = @ + n]
    /\ UNCHANGED <<mode, host, callVars, stdinVars, shutdown, readEnds, wrote, waited, results,
                   childVars>>

(* A chunk is read; the callback may answer with a write_stdin(), and the  *)
(* thread is back in its loop when that returns.                           *)
ReadChunk(s) ==
    /\ pc[s] = "loop" /\ ~shutdown /\ piped[s] > 0
    /\ \E n \in 1..piped[s] :
         /\ piped' = [piped EXCEPT ![s] = @ - n]
         /\ content' = [content EXCEPT ![s] = @ + n]
    /\ \/ UNCHANGED callVars
       \/ /\ mode.callback
          /\ \E n \in Sizes : BeginCall(s, n, "lock")
    /\ UNCHANGED <<mode, host, stdinVars, shutdown, readEnds, wrote, waited, results, childVars>>

(* The thread ends at EOF, or within one poll() once told to. *)
StopReading(s) ==
    /\ pc[s] = "loop"
    /\ shutdown \/ (child = "dead" /\ piped[s] = 0)
    /\ Goes(s, "done")
    /\ UNCHANGED <<mode, host, calls, size, left, answer, stdinVars, outVars, childVars>>

-----------------------------------------------------------------------------
(* The calls that join the readers *)

MainCalls(where) == pc[Main] = "idle" /\ Goes(Main, where)

(* What trim() leaves of the first n bytes of a stream: all of them up to  *)
(* the last that is not blank.                                             *)
Trimmed(s, n) ==
    CHOOSE i \in 0..n :
        /\ i > 0 => <<s, i>> \notin Blank
        /\ \A j \in i+1..n : <<s, j>> \in Blank

(* build_result() trims the contents and moves them out. *)
BuildResult ==
    /\ results' = Append(results, [s \in Stream |-> Trimmed(s, content[s])])
    /\ content' = [s \in Stream |-> 0]

CallWait ==
    /\ results = <<>>     \* bound: one result; a second one would be empty
    /\ IF waited
       THEN pc[Main] = "idle" /\ BuildResult /\ UNCHANGED pc
       ELSE MainCalls("waiting") /\ UNCHANGED <<results, content>>
    /\ UNCHANGED <<mode, host, calls, size, left, answer, stdinVars, shutdown, readEnds, piped,
                   wrote, waited, childVars>>

(* wait() goes on when the supervisor has ended, that is after the child. *)
JoinForResult ==
    /\ pc[Main] = "waiting" /\ child = "dead" /\ ReadersDone
    /\ Goes(Main, "idle")
    /\ waited' = TRUE
    /\ BuildResult
    /\ UNCHANGED <<mode, host, calls, size, left, answer, stdinVars, shutdown, readEnds, piped,
                   wrote, childVars>>

(* kill(), and ~RunningProcess(), which calls it if the child is alive.  A *)
(* kill() of a child that was reaped answers false and changes nothing.    *)
CallKill ==
    /\ \/ MainCalls("joining")
       \/ Alone /\ MainCalls("destroying")
    /\ child' = "dead"
    /\ UNCHANGED <<mode, host, calls, size, left, answer, stdinVars, outVars, owed, childIn>>

(* kill() sets waited before the reader has drained the final bytes. *)
JoinAfterKillBugNoJoin ==
    /\ pc[Main] = "joining"
    /\ Goes(Main, "idle")
    /\ waited' = TRUE
    /\ UNCHANGED <<mode, host, calls, size, left, answer, stdinVars, shutdown, readEnds, piped,
                   wrote, content, results, childVars>>

JoinAfterKill ==
    /\ pc[Main] = "joining" /\ ReadersDone
    /\ Goes(Main, "idle")
    /\ waited' = TRUE
    /\ UNCHANGED <<mode, host, calls, size, left, answer, stdinVars, shutdown, readEnds, piped,
                   wrote, content, results, childVars>>

(* The streams are closed before the reader has ended. *)
DestroyBugCloseFirst ==
    /\ pc[Main] = "destroying"
    /\ Goes(Main, "gone")
    /\ stdinOpen' = FALSE /\ readEnds' = {}
    /\ UNCHANGED <<mode, host, calls, size, left, answer, mutex, closed, sent, inPipe, shutdown,
                   piped, wrote, content, waited, results, childVars>>

(* ~UnixProcessImpl(): join, then close, without the mutex. *)
Destroy ==
    /\ pc[Main] = "destroying" /\ ReadersDone
    /\ Goes(Main, "gone")
    /\ stdinOpen' = FALSE /\ readEnds' = {}
    /\ UNCHANGED <<mode, host, calls, size, left, answer, mutex, closed, sent, inPipe, shutdown,
                   piped, wrote, content, waited, results, childVars>>

CallDetach ==
    /\ Alone /\ MainCalls("detaching")
    /\ UNCHANGED <<mode, host, calls, size, left, answer, stdinVars, outVars, childVars>>

(* release_for_detach(): stdin is closed under the mutex. *)
DetachCloses ==
    /\ pc[Main] = "detaching" /\ mutex = Nobody
    /\ Goes(Main, "releasing")
    /\ stdinOpen' = FALSE /\ closed' = TRUE
    /\ UNCHANGED <<mode, host, calls, size, left, answer, mutex, sent, inPipe, outVars,
                   childVars>>

(* The release byte lets the supervisor go (UnixProcess), and the readers   *)
(* are told to stop.  The byte is written with SIGPIPE as the program has  *)
(* it: the signal kills the program if the supervisor ended with its child *)
(* before, as it has when a wait() or kill() reaped it.                    *)
DetachReleases ==
    /\ pc[Main] = "releasing"
    /\ \/ /\ ~waited \/ mode.sigpipe = "ignored"
          /\ Goes(Main, "detachJoin") /\ shutdown' = TRUE
          /\ UNCHANGED host
       \/ /\ child = "dead" /\ mode.sigpipe = "default"
          /\ host' = "sigpipe"
          /\ UNCHANGED <<pc, shutdown>>
    /\ UNCHANGED <<mode, calls, size, left, answer, stdinVars, readEnds, piped, wrote, content,
                   waited, results, childVars>>

DetachJoins ==
    /\ pc[Main] = "detachJoin" /\ ReadersDone
    /\ Goes(Main, "gone")
    /\ readEnds' = {} /\ waited' = TRUE
    /\ UNCHANGED <<mode, host, calls, size, left, answer, stdinVars, shutdown, piped, wrote,
                   content, results, childVars>>

-----------------------------------------------------------------------------
(* The child *)

(* An output that is not captured never blocks the child: left out. *)
MaySpeak == IF wrote["stdout"] + wrote["stderr"] < MaxOutput THEN mode.captured ELSE {}

(* It reads a byte, and it may owe an answer for it on either output. *)
ChildReads ==
    /\ child = "up" /\ owed = "nothing" /\ childIn = "open" /\ inPipe > 0
    /\ inPipe' = inPipe - 1
    /\ owed' \in MaySpeak \cup {"nothing"}
    /\ UNCHANGED <<mode, host, callVars, mutex, stdinOpen, closed, sent, outVars, child, childIn>>

ChildSeesEof ==
    /\ child = "up" /\ owed = "nothing" /\ childIn = "open" /\ StdinEof
    /\ childIn' = "eof"
    /\ UNCHANGED <<mode, host, callVars, stdinVars, outVars, child, owed>>

ChildSpeaks ==
    /\ child = "up" /\ owed = "nothing"
    /\ owed' \in MaySpeak
    /\ UNCHANGED <<mode, host, callVars, stdinVars, outVars, child, childIn>>

(* A write blocks while the pipe is full.  It kills the child when the read *)
(* end is closed, by detach() or by the end of the program.                *)
ChildWrites ==
    /\ child = "up" /\ owed # "nothing"
    /\ \/ /\ owed \notin readEnds \/ host # "up"
          /\ child' = "dead" /\ UNCHANGED <<piped, wrote, owed>>
       \/ /\ owed \in readEnds /\ host = "up" /\ piped[owed] < StdoutCap
          /\ piped' = [piped EXCEPT ![owed] = @ + 1]
          /\ wrote' = [wrote EXCEPT ![owed] = @ + 1]
          /\ owed' = "nothing" /\ UNCHANGED child
    /\ UNCHANGED <<mode, host, callVars, stdinVars, shutdown, readEnds, content, waited, results,
                   childIn>>

ChildClosesStdin ==
    /\ child = "up" /\ owed = "nothing" /\ childIn # "closed"
    /\ childIn' = "closed"
    /\ UNCHANGED <<mode, host, callVars, stdinVars, outVars, child, owed>>

ChildExits ==
    /\ child = "up"
    /\ child' = "dead"
    /\ UNCHANGED <<mode, host, callVars, stdinVars, outVars, owed, childIn>>

-----------------------------------------------------------------------------
WriteStep(a) == StartWrite(a) \/ WriteByte(a) \/ WriteBroken(a) \/ CloseStdin(a)
ReadStep(s)  == ReadChunk(s) \/ StopReading(s)
MainStep     == JoinForResult \/ JoinAfterKill \/ Destroy
                \/ DetachCloses \/ DetachReleases \/ DetachJoins
ChildStep    == ChildReads \/ ChildSeesEof \/ ChildWrites

HostNext ==
    /\ host = "up"
    /\ \/ \E a \in Writer : WriteStep(a) \/ WriteFails(a) \/ CallWrite(a) \/ CallClose(a)
       \/ \E s \in Stream : ReadStep(s)
       \/ Feed
       \/ CallWait \/ CallKill \/ CallDetach \/ MainStep

Next == HostNext \/ ChildStep \/ ChildSpeaks \/ ChildClosesStdin \/ ChildExits

(* Every thread goes on if it can, and the child keeps reading its stdin   *)
(* and writing what it has to say.  Nobody is obliged to make a call.      *)
Fairness ==
    /\ \A a \in Writer : WF_vars(host = "up" /\ WriteStep(a))
    /\ \A s \in Stream : WF_vars(host = "up" /\ ReadStep(s))
    /\ WF_vars(host = "up" /\ MainStep)
    /\ WF_vars(ChildStep)

Spec     == Init /\ [][Next]_vars
FairSpec == Spec /\ Fairness

-----------------------------------------------------------------------------
CallTypeOK ==
    /\ pc \in [Actor -> {"idle", "lock", "write", "closing", "waiting", "joining", "destroying",
                         "detaching", "releasing", "detachJoin", "gone", "loop", "feed", "done"}]
    /\ calls \in [Writer -> 0..MaxCalls]
    /\ size \in [Writer -> Nat] /\ left \in [Writer -> Nat]
    /\ answer \in [Writer -> {"none", "ok", "write_error", "mode_error"}]

StdinTypeOK ==
    /\ mutex \in Writer \cup {Nobody}
    /\ stdinOpen \in BOOLEAN /\ closed \in BOOLEAN
    /\ sent \in Seq(Writer \X (0..MaxCalls)) /\ inPipe \in 0..StdinCap

OutTypeOK ==
    /\ shutdown \in BOOLEAN /\ readEnds \in SUBSET Stream /\ waited \in BOOLEAN
    /\ piped \in [Stream -> 0..StdoutCap]
    /\ wrote \in [Stream -> Nat] /\ content \in [Stream -> Nat]
    /\ results \in Seq([Stream -> Nat])

TypeOK ==
    /\ mode \in Modes /\ host \in {"up", "sigpipe", "terminated"}
    /\ child \in {"up", "dead"} /\ owed \in Stream \cup {"nothing"}
    /\ childIn \in {"open", "eof", "closed"}
    /\ CallTypeOK /\ StdinTypeOK /\ OutTypeOK

(* "Concurrent writes from multiple threads land contiguously": no byte of *)
(* another call lies between two bytes of one call of write_stdin().       *)
Contiguous ==
    \A i, k \in DOMAIN sent :
        i < k /\ sent[i] = sent[k] => \A j \in i..k : sent[j] = sent[i]

(* "On success, the entire buffer was delivered to the kernel pipe": the   *)
(* bytes in the pipe and those still to be written make up the buffer, and *)
(* nothing is left when write_stdin() answers that all went well.          *)
OkMeansDelivered ==
    \A a \in Writer :
        LET mine == {i \in DOMAIN sent : sent[i] = <<a, calls[a]>>} IN
        /\ answer[a] = "ok" => left[a] = 0
        /\ Cardinality(mine) = size[a] - left[a]

(* write() is never called on a stdin_fd that close_stdin(), detach() or   *)
(* the destructor has closed, and whose number may name another file.      *)
NeverOnClosedFd == \A a \in Writer : pc[a] = "write" => stdinOpen

(* "A broken pipe never crashes the calling process": no write_stdin(),    *)
(* from whatever thread, lets SIGPIPE reach it.  The thread that feeds     *)
(* StdinMode content or file does, and so does the release byte of a       *)
(* detach() whose child has ended.                                         *)
CallerSurvives ==
    host = "sigpipe" =>
        mode.stdin = "content" \/ (pc[Main] = "releasing" /\ child = "dead")

(* The first result that a wait returns has every byte that the child      *)
(* wrote to a captured stream up to its last that is not blank, whether    *)
(* the child ended or kill() ended it.                                     *)
OutputComplete == results # <<>> => results[1] = [s \in Stream |-> Trimmed(s, wrote[s])]

(* Whoever writes while the child reads, and no callback writes, returns:  *)
(* the background readers keep the child from blocking on its outputs.     *)
WriteReturns ==
    \A a \in Callers :
        pc[a] \in {"lock", "write"} /\ ~mode.callback ~> pc[a] = "idle" \/ host # "up"

(* After close_stdin() or detach() a child that reads comes to the end of  *)
(* its input.                                                              *)
EofArrives == closed /\ mode.stdin = "pipe" ~> childIn # "open" \/ child = "dead"

(* kill() and the destructor return although a callback, or a writer, is   *)
(* blocked on a full pipe at that moment.                                  *)
TeardownReturns ==
    pc[Main] \in {"joining", "destroying"} ~> pc[Main] \in {"idle", "gone"} \/ host # "up"

(* "Writing from inside an on_stdout callback is fully supported": it      *)
(* returns as long as the child reads its stdin and says what it has to.   *)
CallbackWriteReturns ==
    \A s \in Stream : pc[s] \in {"lock", "write"} ~> pc[s] = "loop" \/ host # "up"
=============================================================================
