----------------------------- MODULE Ownership -----------------------------
(***************************************************************************)
(* What ExecuteFailover and ExecuteFailback promise of a FailoverGroup:    *)
(* the owner in the CONFIG item and the roles in the CLUSTER# items change *)
(* together, in one step, from the cluster that owns the group to the      *)
(* cluster that takes over.                                                *)
(*                                                                         *)
(* GroupStore, the sequence of requests behind the two calls, implements   *)
(* this module.                                                            *)
(***************************************************************************)
CONSTANTS Clusters,    \* the clusters a group may run in
          NoCluster    \* the empty name, not among them

Roles == {"PRIMARY", "STANDBY", "FAILOVER", "FAILBACK", "NONE"}

VARIABLES owner,       \* the owner of the group, NoCluster before it exists
          role         \* role[c]: the role in c's item, "NONE" when there is none

ownershipVars == <<owner, role>>

OwnershipTypeOK ==
  /\ owner \in Clusters \cup {NoCluster}
  /\ role \in [Clusters -> Roles]

(* Only the owner may already be registered as the primary.                *)
OwnershipInit ==
  /\ owner \in Clusters \cup {NoCluster}
  /\ role \in [Clusters -> {"PRIMARY", "STANDBY", "NONE"}]
  /\ \A c \in Clusters : role[c] = "PRIMARY" => c = owner

(* The first operator that asks for the group makes its cluster the owner. *)
Adopt(c) ==
  /\ owner = NoCluster
  /\ owner' = c
  /\ UNCHANGED role

(* The owner gives way to another cluster, and both change their roles.    *)
SwitchOver(from, to, left, taken) ==
  /\ owner = from
  /\ to # from
  /\ owner' = to
  /\ role' = [role EXCEPT ![from] = left, ![to] = taken]

OwnershipNext ==
  \/ \E c \in Clusters : Adopt(c)
  \/ \E from, to \in Clusters :
       \/ SwitchOver(from, to, "FAILOVER", "PRIMARY")
       \/ SwitchOver(from, to, "FAILBACK", "PRIMARY")

OwnershipSpec == OwnershipInit /\ [][OwnershipNext]_ownershipVars

----------------------------------------------------------------------------
(* No cluster other than the owner is recorded as the primary: a group     *)
(* never has two primaries (executeFailoverTransaction).                   *)
OnePrimary == \A c \in Clusters : role[c] = "PRIMARY" => c = owner
=============================================================================
