--------------------------- MODULE MCUnixProcess ---------------------------
(* Small instances of UnixProcess for TLC. *)
EXTENDS UnixProcessInv, UnixContract

\* Two exit codes and one outside signal: enough to tell a code that is
\* reported from one that is not, and a signal from an exit.
MCCodes   == {0, 7}
MCSigs    == {SIGTERM}
AllFaults == FaultKinds

\* The liveness run: no EINTR, which makes a waiter give up, and no kill of
\* the process group, which is a death of the library plus that of the others.
LivenessFaults == FaultKinds \ {"eintr", "group_killed"}
=============================================================================
