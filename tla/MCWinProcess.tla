---------------------------- MODULE MCWinProcess ----------------------------
(* Small instances of WinProcess for TLC. *)
EXTENDS WinProcess

\* One exit code that reads as "still running", and one that is negative as int.
MCCodes == {STILL_ACTIVE, 2 * Half - 1}

\* Every combination of the two outputs with and without the merge, with a
\* stdin that needs no thread; and every stdin beside one captured output.
MCModes ==
    {m \in AllModes :
        \/ m.stdin = "closed" /\ m.headless
        \/ m.stdin # "closed" /\ m.out = "capture" /\ m.err = "inherit" /\ ~m.merge}

AllFaults == FaultKinds
=============================================================================
