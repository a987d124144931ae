------------------------- MODULE MCHybridController -------------------------
(* HybridController on small instances.  Two global plans are enough for a   *)
(* search to straddle setPlan; a third lets an earlier foreign guide meet a  *)
(* later plan.  Three guides give two of one plan and one of another.        *)
EXTENDS HybridController

Either == {TRUE, FALSE}
Never  == {FALSE}
BothModes  == {"shadow", "active"}
ActiveOnly == {"active"}
=============================================================================
