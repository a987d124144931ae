-------------------------- MODULE MCScopePredictor --------------------------
(* The bounds of the run ScopePredictor.cfg.                                *)
EXTENDS ScopePredictor

OdometryOnly == {"odom"}
=============================================================================
