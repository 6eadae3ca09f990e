-------------------------- MODULE MCSeniorWorkflow --------------------------
(* SeniorWorkflow with two invocations at a time, one work item of either   *)
(* kind and a few executions that end early.                                *)
EXTENDS SeniorWorkflow

CONSTANTS A, B

=============================================================================
