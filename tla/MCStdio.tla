------------------------------ MODULE MCStdio ------------------------------
(* Small instances of Stdio for TLC. *)
EXTENDS Stdio

\* Two captured streams, which one thread could serve wrongly; one whose
\* callback writes; and the thread that feeds content, which SIGPIPE can kill.
MCModes ==
    {m \in AllModes :
        /\ m.sigpipe = "default"
        /\ \/ m.stdin = "pipe" /\ m.captured = Stream /\ ~m.callback
           \/ m.stdin = "pipe" /\ m.captured = {"stdout"} /\ m.callback
           \/ m.stdin = "content" /\ m.captured = {"stdout"} /\ ~m.callback}

\* Each stream has a byte that a result may have to leave out, and keep when
\* another follows.
MCBlank == {<<"stdout", 2>>, <<"stderr", 1>>}

\* One captured stream whose callback writes.
CallbackModes == {m \in AllModes : m.stdin = "pipe" /\ m.captured = {"stdout"} /\ m.callback
                                   /\ m.sigpipe = "default"}
=============================================================================
