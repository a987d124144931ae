-------------------------- MODULE MCPlanningCycle --------------------------
(* PlanningCycle with at most two detections in a scan and few ids.          *)
EXTENDS PlanningCycle
=============================================================================
