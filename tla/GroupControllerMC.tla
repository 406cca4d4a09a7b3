------------------------ MODULE GroupControllerMC -------------------------
(* Two clusters.  Reconcile runs in both, and in some runs the periodic    *)
(* synchronisation in c1, whose FailoverGroup may be deleted.              *)
EXTENDS GroupController
CONSTANTS c1, c2

TwoClusters == {c1, c2}
OneDeletable == {c1}
TwoGoroutines == {<<c1, "reconcile">>, <<c2, "reconcile">>}
ThreeGoroutines == {<<c1, "reconcile">>, <<c1, "sync">>, <<c2, "reconcile">>}
=============================================================================
