---------------------------- MODULE MCProcessLock ----------------------------
(* Two places for loggers, three PIDs: the one of a logger that has died is  *)
(* soon given to another, and a PID is always free.                          *)
EXTENDS ProcessLock

CONSTANTS r1, r2

TwoRuns == {r1, r2}
=============================================================================
