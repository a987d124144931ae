---------------------- MODULE MCImperativeController ----------------------
(* ImperativeController in ticks of half a second: the input timeout, a      *)
(* cycle with its rollout and the watchdog's timeout of 0.4 s are one tick   *)
(* each, so that inputs may expire, a cycle may end and the watchdog may     *)
(* stop the base in any order.                                               *)
EXTENDS ImperativeController
=============================================================================
