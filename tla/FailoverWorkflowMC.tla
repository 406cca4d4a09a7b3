------------------------- MODULE FailoverWorkflowMC -------------------------
(* Instances of FailoverWorkflow for TLC.                                  *)
EXTENDS FailoverWorkflow

CONSTANTS c1, c2, p1, p2

(* One operator in each cluster.                                           *)
MCClusterOf == [p \in Procs |-> IF p = p1 THEN c1 ELSE c2]
=============================================================================
