---------------------------- MODULE GroupStoreMC ---------------------------
(* Instances of GroupStore for TLC.                                        *)
EXTENDS GroupStore

CONSTANTS c1, c2, c3, p1, p2, p3

(* Two operators, in two of the clusters.                                  *)
MCClusterOf == [p \in Procs |-> IF p = p1 THEN c1 ELSE c2]
=============================================================================
