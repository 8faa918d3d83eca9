------------------------ MODULE MCPlanningWorkflow ------------------------
(***************************************************************************)
(* PlanningWorkflow for TLC.  The bounds are in PlanningWorkflow.cfg.      *)
(***************************************************************************)
EXTENDS PlanningWorkflow
=============================================================================
