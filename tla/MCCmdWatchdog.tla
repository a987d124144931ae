--------------------------- MODULE MCCmdWatchdog ---------------------------
(* CmdWatchdog with the node's own numbers: a tick is 50 ms, so the timer    *)
(* has period 1 and the timeout of 0.40 s is 8 ticks.                        *)
EXTENDS CmdWatchdog

CONSTANTS m1, m2
TwoMoves == {m1, m2}
=============================================================================
