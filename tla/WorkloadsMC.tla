---------------------------- MODULE WorkloadsMC ----------------------------
(* Instances of Workloads for TLC.                                         *)
EXTENDS Workloads

CONSTANTS p1, p2

(* One goroutine makes every call, another works on single objects.        *)
MCCalls == [p \in Procs |-> IF p = p1 THEN AllCalls ELSE {"flux"}]
=============================================================================
