---------------------------- MODULE MCWorkflowRun ----------------------------
(* Instances of WorkflowRun for TLC: the configurations choose the plan.   *)
EXTENDS WorkflowRun
=============================================================================
