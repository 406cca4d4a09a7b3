---------------------------- MODULE GroupLockMC ----------------------------
(* Instances of GroupLock for TLC.                                         *)
EXTENDS GroupLock

CONSTANTS a, b

(* The clock of b's cluster is one second ahead.                           *)
MCSkew == [c \in Callers |-> IF c = b THEN 1 ELSE 0]
=============================================================================
