-------------------------- MODULE GroupController --------------------------
(***************************************************************************)
(* One FailoverGroup as the operators of all clusters keep it: Reconcile,  *)
(* the periodic synchronisation and handleDeletion of every cluster, over  *)
(* the CONFIG item, the CLUSTER# items and the cache of DynamoDBService.   *)
(*                                                                         *)
(* Each cluster has its own FailoverGroup object.  Two goroutines work on  *)
(* it, both every 30 seconds: "reconcile" and "sync".  A pass of either    *)
(* takes a copy of the object, learns the owner of the group, publishes it *)
(* in the status, and writes the cluster's role to its CLUSTER# item.      *)
(*                                                                         *)
(* Switch-overs come from outside (GroupStore has their steps).  Of a      *)
(* CONFIG item only the owner matters, and whether its version is still    *)
(* the one that was read; of a CLUSTER# item the state and whether its     *)
(* heartbeat is older than 5 minutes.  Health is always OK: the functions  *)
(* that gather it are placeholders.  The suspended flag, which Reconcile   *)
(* copies from spec to status, and the volume stages, which start from a   *)
(* state that no code can store, are left out, and so is the lock, whose   *)
(* release in handleDeletion has the holder's name for the token.          *)
(***************************************************************************)
EXTENDS Integers, FiniteSets

CONSTANTS Clusters,     \* the clusters of the group
          NoCluster,    \* the empty name
          Goroutines,   \* the goroutines, pairs of cluster and kind
          Deletable,    \* the clusters whose FailoverGroup may be deleted
          MaxSwitches,  \* bound on the switch-overs
          MaxFaults,    \* bound on the failing requests, the crashes and the
                        \* 5 minutes without a heartbeat of a living cluster
          MaxTicks      \* bound on the "sync" passes begun during deletions

ASSUME GroupControllerAssumption ==
  /\ NoCluster \notin Clusters
  /\ Goroutines \subseteq Clusters \X {"reconcile", "sync"}
  /\ Deletable \subseteq Clusters
  /\ {MaxSwitches, MaxFaults, MaxTicks} \subseteq Nat

VARIABLES
  owner,    \* the owner in the CONFIG item, NoCluster when there is none
  row,      \* row[c]: the state in the CLUSTER# item of c, or "none"
  old,      \* the clusters whose heartbeat is older than 5 minutes
  object,   \* object[c]: the FailoverGroup in c's API server
  cache,    \* cache[c]: the owner in c's cache, NoCluster when not cached
  pc,       \* pc[t]: the next request of goroutine t
  local,    \* local[t]: what t has read
  switches, faults, ticks,
  owned     \* auxiliary: the clusters that ever owned the group

vars == <<owner, row, old, object, cache, pc, local, switches, faults, ticks,
          owned>>

RowStates == {"PRIMARY", "STANDBY", "FAILOVER"}
Maybe == Clusters \cup {NoCluster}

Object == [active : Maybe, finalizer : BOOLEAN, deleting : BOOLEAN, gone : BOOLEAN]

Local == [active : Maybe,                        \* GlobalState.ActiveCluster
          fresh : BOOLEAN,                       \* the resourceVersion is current
          seen : SUBSET Clusters,                \* clusters with a CLUSTER# item
          state : RowStates \cup {"none"},       \* the state of the own item
          conf : Maybe,                          \* the owner in the CONFIG item
          version : {"same", "newer", "any"}]    \* its version, since it was read

Labels == {"idle", "addFinalizer", "register", "registering", "config", "fill",
           "publish", "heartbeat", "beat", "status", "cleanup", "remove",
           "stages", "statuses", "owner", "fillOwner", "deleteConfig",
           "queryRows", "deleteRows", "transfer", "transferring", "dropConfig",
           "removeSelf", "readVolume", "putVolume", "finalizer"}

GroupTypeOK ==
  /\ owner \in Maybe
  /\ row \in [Clusters -> RowStates \cup {"none"}]
  /\ old \subseteq {c \in Clusters : row[c] # "none"}
  /\ object \in [Clusters -> Object]
  /\ cache \in [Clusters -> Maybe]
  /\ pc \in [Goroutines -> Labels]
  /\ local \in [Goroutines -> Local]
  /\ switches \in 0 .. MaxSwitches
  /\ faults \in 0 .. MaxFaults
  /\ ticks \in 0 .. MaxTicks
  /\ owned \subseteq Clusters

NoLocal == [active |-> NoCluster, fresh |-> FALSE, seen |-> {},
            state |-> "none", conf |-> NoCluster, version |-> "same"]

(* The FailoverGroup was just created in every cluster.                    *)
Init ==
  /\ owner = NoCluster
  /\ row = [c \in Clusters |-> "none"]
  /\ old = {}
  /\ object = [c \in Clusters |-> [active |-> NoCluster, finalizer |-> FALSE,
                                   deleting |-> FALSE, gone |-> FALSE]]
  /\ cache = [c \in Clusters |-> NoCluster]
  /\ pc = [t \in Goroutines |-> "idle"]
  /\ local = [t \in Goroutines |-> NoLocal]
  /\ switches = 0 /\ faults = 0 /\ ticks = 0
  /\ owned = {}

Live(c) == ~object[c].deleting /\ ~object[c].gone
Registered == {c \in Clusters : row[c] # "none"}
Cluster(t) == t[1]

----------------------------------------------------------------------------
(* Requests and their failures.                                            *)
Fault == faults < MaxFaults /\ faults' = faults + 1
NoFault == UNCHANGED faults

counters == <<switches, ticks>>

(* Goroutine t goes on to label with l as its local state.                 *)
Goto(t, label, l) ==
  /\ pc' = [pc EXCEPT ![t] = label]
  /\ local' = [local EXCEPT ![t] = IF label = "idle" THEN NoLocal ELSE l]

(* The CONFIG item is written.  Those that have read it and will put it    *)
(* back find that its version is newer, or, after it was deleted or written *)
(* without a condition, possibly the same by chance.                       *)
SetOwner(c) == owner' = c /\ owned' = owned \cup ({c} \ {NoCluster})
Outdated(version) ==
  [u \in Goroutines |->
     IF pc[u] = "putVolume" /\ local[u].version # "any"
     THEN [local[u] EXCEPT !.version = version] ELSE local[u]]
GotoOutdating(t, version, label, l) ==
  /\ pc' = [pc EXCEPT ![t] = label]
  /\ local' = [Outdated(version) EXCEPT ![t] = l]

(* GetGroupConfig creates the item, with its own cluster as the owner.  A   *)
(* creation that loses a race to another one is a failing request.         *)
Stored(c) == IF owner = NoCluster THEN c ELSE owner
GetGroupConfig(c) == SetOwner(Stored(c))
GetGroupConfigLost(c) == Fault /\ (GetGroupConfig(c) \/ UNCHANGED <<owner, owned>>)

(* UpdateClusterStatus and the deletion of a CLUSTER# item.                *)
PutRow(c, state) == row' = [row EXCEPT ![c] = state] /\ old' = old \ {c}
DeleteRows(S) ==
  /\ row' = [c \in Clusters |-> IF c \in S THEN "none" ELSE row[c]]
  /\ old' = old \ S

(* A request whose error is ignored: applied, or lost, or its answer is.   *)
Applied == NoFault \/ Fault
Lost == Fault /\ UNCHANGED <<row, old>>

(* A write of the object.  The other goroutine's copy is then outdated.    *)
WriteObject(t, label, l, obj) ==
  LET c == Cluster(t) IN
  /\ local[t].fresh
  /\ ~object[c].gone
  /\ object' = [object EXCEPT ![c] = obj]
  /\ pc' = [pc EXCEPT ![t] = label]
  /\ local' = [u \in Goroutines |->
       IF u = t THEN (IF label = "idle" THEN NoLocal ELSE l)
       ELSE [local[u] EXCEPT !.fresh = @ /\ Cluster(u) # c]]

WriteRefused(t) == ~local[t].fresh \/ object[Cluster(t)].gone

store == <<owner, row, old, owned>>

----------------------------------------------------------------------------
(* Faulty variant: the finalizer is added back instead of handling the     *)
(* deletion.                                                               *)
FirstFinalizer(t) ==
  IF t[2] = "sync" THEN "register"
  ELSE IF ~object[Cluster(t)].finalizer THEN "addFinalizer" ELSE "config"

(* A pass begins with a copy of the object, from a cache of the API server *)
(* that is taken to be up to date then.                                    *)
First(t) ==
  LET obj == object[Cluster(t)] IN
  IF t[2] = "sync" THEN "register"
  ELSE IF obj.deleting THEN (IF obj.finalizer THEN "statuses" ELSE "idle")
  ELSE IF ~obj.finalizer THEN "addFinalizer"
  ELSE "config"

Begin(t) ==
  /\ pc[t] = "idle"
  /\ ~object[Cluster(t)].gone
  /\ First(t) # "idle"
  /\ Goto(t, First(t), [NoLocal EXCEPT !.active = IF First(t) = "statuses" THEN NoCluster
                                                  ELSE object[Cluster(t)].active,
                                       !.fresh = TRUE])
  /\ UNCHANGED <<store, object, cache, faults, switches>>

Reconcile(t) == t[2] = "reconcile" /\ Begin(t) /\ UNCHANGED ticks

(* The periodic synchronisation lists objects that are being deleted too.  *)
SyncAll(t) ==
  /\ t[2] = "sync"
  /\ Begin(t)
  /\ IF object[Cluster(t)].deleting
     THEN ticks < MaxTicks /\ ticks' = ticks + 1
     ELSE UNCHANGED ticks

AddFinalizer(t) ==
  /\ pc[t] = "addFinalizer"
  /\ \/ /\ WriteObject(t, "idle", NoLocal, [object[Cluster(t)] EXCEPT !.finalizer = TRUE])
        /\ Applied
     \/ /\ IF WriteRefused(t) THEN NoFault ELSE Fault
        /\ Goto(t, "idle", NoLocal)
        /\ UNCHANGED object
  /\ UNCHANGED <<store, cache, counters>>

(* syncAllFailoverGroups registers a cluster that it does not find.        *)
Register(t) ==
  /\ pc[t] = "register"
  /\ \/ Cluster(t) \in Registered /\ NoFault /\ Goto(t, "config", local[t])
     \/ Cluster(t) \notin Registered /\ NoFault /\ Goto(t, "registering", local[t])
     \/ Fault /\ Goto(t, "registering", local[t])
  /\ UNCHANGED <<store, object, cache, counters>>

(* Faulty variant: no role while the owner is not known.                   *)
RoleUnknown(t) ==
  IF local[t].active = NoCluster THEN "UNKNOWN"
  ELSE IF local[t].active = Cluster(t) THEN "PRIMARY" ELSE "STANDBY"

Role(t) == IF local[t].active = Cluster(t) THEN "PRIMARY" ELSE "STANDBY"

RegisterSelf(t) ==
  /\ pc[t] = "registering"
  /\ (PutRow(Cluster(t), Role(t)) /\ Applied) \/ Lost
  /\ Goto(t, "config", local[t])
  /\ UNCHANGED <<owner, owned, object, cache, counters>>

----------------------------------------------------------------------------
(* SyncWithDynamoDB: GetGroupState, whose result is not used but which     *)
(* creates the CONFIG item unless its own cache has an answer, ...         *)
GetGroupState(t) ==
  /\ pc[t] = "config"
  /\ owner = NoCluster
  /\ GetGroupConfig(Cluster(t))
  /\ UNCHANGED <<row, old, object, cache, pc, local, faults, counters>>

(* ... and updateLocalStatus.  The status is written if anything in it has *)
(* changed: the heartbeat times, for one, unless they are of this second.  *)
AfterSync(t) == IF t[2] = "reconcile" THEN "heartbeat" ELSE "status"
Synced(t) == [local[t] EXCEPT !.fresh = FALSE, !.conf = NoCluster]
Learn(t, active) ==
  \/ Goto(t, "publish", [local[t] EXCEPT !.active = active, !.conf = NoCluster])
  \/ active = local[t].active /\ Goto(t, AfterSync(t), Synced(t))

CacheHit(t) ==
  /\ pc[t] = "config"
  /\ cache[Cluster(t)] # NoCluster
  /\ Learn(t, cache[Cluster(t)])
  /\ UNCHANGED <<store, object, cache, faults, counters>>

(* The answer is put in the cache later than it was read.                  *)
CacheMiss(t) ==
  /\ \/ pc[t] = "config" /\ Goto(t, "fill", [local[t] EXCEPT !.conf = Stored(Cluster(t))])
     \/ pc[t] = "owner" /\ Goto(t, "fillOwner", [local[t] EXCEPT !.conf = Stored(Cluster(t))])
  /\ cache[Cluster(t)] = NoCluster
  /\ GetGroupConfig(Cluster(t))
  /\ UNCHANGED <<row, old, object, cache, faults, counters>>

CacheFill(t) ==
  /\ pc[t] = "fill"
  /\ cache' = [cache EXCEPT ![Cluster(t)] = local[t].conf]
  /\ Learn(t, local[t].conf)
  /\ UNCHANGED <<store, object, faults, counters>>

(* Faulty variant: without an answer the cluster takes itself for the      *)
(* active one.                                                             *)
GetGroupConfigFailsSelf(t) ==
  /\ pc[t] = "config"
  /\ cache[Cluster(t)] = NoCluster
  /\ Fault
  /\ Learn(t, Cluster(t))
  /\ UNCHANGED <<store, object, cache, counters>>

(* Without an answer the active cluster stays; the first time it is the    *)
(* operator's own.                                                         *)
GetGroupConfigFails(t) ==
  /\ pc[t] = "config"
  /\ cache[Cluster(t)] = NoCluster
  /\ Fault
  /\ Learn(t, IF local[t].active = NoCluster THEN Cluster(t) ELSE local[t].active)
  /\ UNCHANGED <<store, object, cache, counters>>

(* After an error "sync" gives this group up, and "reconcile" goes on.  The*)
(* status updates that follow each other here without a read are one.      *)
Publish(t) ==
  LET failed == IF t[2] = "reconcile" THEN "heartbeat" ELSE "idle"
      obj == [object[Cluster(t)] EXCEPT !.active = local[t].active]
  IN
  /\ pc[t] = "publish"
  /\ \/ WriteObject(t, AfterSync(t), Synced(t), obj) /\ NoFault
     \/ WriteObject(t, failed, Synced(t), obj) /\ Fault
     \/ /\ IF WriteRefused(t) THEN NoFault ELSE Fault
        /\ Goto(t, failed, Synced(t))
        /\ UNCHANGED object
  /\ UNCHANGED <<store, cache, counters>>

----------------------------------------------------------------------------
(* UpdateHeartbeat puts back the state that it read, or PRIMARY.           *)
ReadRow(t) ==
  /\ pc[t] = "heartbeat"
  /\ \/ /\ row[Cluster(t)] # "none"
        /\ NoFault
        /\ Goto(t, "beat", [local[t] EXCEPT !.state = row[Cluster(t)]])
     \/ /\ IF row[Cluster(t)] = "none" THEN NoFault ELSE Fault
        /\ Goto(t, "beat", [local[t] EXCEPT !.state = "PRIMARY"])
  /\ UNCHANGED <<store, object, cache, counters>>

Beat(t) ==
  /\ pc[t] = "beat"
  /\ (PutRow(Cluster(t), local[t].state) /\ Applied) \/ Lost
  /\ Goto(t, "status", [local[t] EXCEPT !.state = "none"])
  /\ UNCHANGED <<owner, owned, object, cache, counters>>

(* Faulty variant: the state is left as it is.                             *)
UpdateStatusKeepsState(t) ==
  /\ pc[t] = "status"
  /\ PutRow(Cluster(t), IF row[Cluster(t)] = "none" THEN Role(t) ELSE row[Cluster(t)])
  /\ NoFault
  /\ Goto(t, "cleanup", NoLocal)
  /\ UNCHANGED <<owner, owned, object, cache, counters>>

(* UpdateDynamoDBStatus writes the role that the status shows.             *)
UpdateStatus(t) ==
  /\ pc[t] = "status"
  /\ (PutRow(Cluster(t), Role(t)) /\ Applied) \/ Lost
  /\ Goto(t, "cleanup", NoLocal)
  /\ UNCHANGED <<owner, owned, object, cache, counters>>

(* CleanupStaleClusterStatuses removes the others whose heartbeat was too  *)
(* old when it read them.                                                  *)
Last(t) == IF t[2] = "reconcile" THEN "stages" ELSE "idle"
Remove(t, S) ==
  Goto(t, IF S = {} THEN Last(t) ELSE "remove", [local[t] EXCEPT !.seen = S])

(* Faulty variant: no item counts as stale.                                *)
ReadStaleNever(t) ==
  /\ pc[t] = "cleanup"
  /\ NoFault
  /\ Remove(t, {})
  /\ UNCHANGED <<store, object, cache, counters>>

ReadStale(t) ==
  /\ pc[t] = "cleanup"
  /\ \/ NoFault /\ Remove(t, old \ {Cluster(t)})
     \/ Fault /\ \E S \in SUBSET (old \ {Cluster(t)}) : Remove(t, S)
  /\ UNCHANGED <<store, object, cache, counters>>

RemoveStale(t) ==
  /\ pc[t] = "remove"
  /\ \E c \in local[t].seen :
       /\ (DeleteRows({c}) /\ Applied) \/ Lost
       /\ Remove(t, local[t].seen \ {c})
  /\ UNCHANGED <<owner, owned, object, cache, counters>>

(* checkAndHandleFailoverStages finds no volume state, and creates the     *)
(* CONFIG item by looking for one.                                         *)
CheckStages(t) ==
  /\ pc[t] = "stages"
  /\ (GetGroupConfig(Cluster(t)) /\ NoFault) \/ GetGroupConfigLost(Cluster(t))
  /\ Goto(t, "idle", NoLocal)
  /\ UNCHANGED <<row, old, object, cache, counters>>

----------------------------------------------------------------------------
(* handleDeletion.  The requests about history and lock are left out.      *)

(* GetAllClusterStatuses returns what it has got, never an error.          *)
ReadStatuses(t) ==
  /\ pc[t] = "statuses"
  /\ \/ NoFault /\ Goto(t, "owner", [local[t] EXCEPT !.seen = Registered])
     \/ Fault /\ \E S \in SUBSET Registered :
                   Goto(t, "owner", [local[t] EXCEPT !.seen = S])
  /\ UNCHANGED <<store, object, cache, counters>>

(* A cluster that sees no other one takes itself for the last.             *)
Decide(t, knownOwner) ==
  LET last == Cardinality(local[t].seen) <= 1
      others == local[t].seen \ {Cluster(t)}
  IN
  Goto(t, IF last THEN "deleteConfig"
          ELSE IF knownOwner = Cluster(t) THEN "transfer" ELSE "removeSelf",
       [local[t] EXCEPT !.conf = NoCluster,
          !.seen = IF ~last /\ knownOwner = Cluster(t) THEN others ELSE {}])

DecideCached(t) ==
  /\ pc[t] = "owner"
  /\ cache[Cluster(t)] # NoCluster
  /\ Decide(t, cache[Cluster(t)])
  /\ UNCHANGED <<store, object, cache, faults, counters>>

DecideFilled(t) ==
  /\ pc[t] = "fillOwner"
  /\ cache' = [cache EXCEPT ![Cluster(t)] = local[t].conf]
  /\ Decide(t, local[t].conf)
  /\ UNCHANGED <<store, object, faults, counters>>

DecideUnknown(t) ==
  /\ pc[t] = "owner"
  /\ cache[Cluster(t)] = NoCluster
  /\ GetGroupConfigLost(Cluster(t))
  /\ Decide(t, NoCluster)
  /\ UNCHANGED <<row, old, object, cache, counters>>

(* The last cluster tears the group down: DeleteGroupConfig, and           *)
(* DeleteAllClusterStatuses, whose query is not consistent: it may miss    *)
(* items and return some that were deleted.                                *)
DeleteGroupConfig(t, next) ==
  \/ SetOwner(NoCluster) /\ GotoOutdating(t, "any", next, local[t]) /\ Applied
  \/ Fault /\ Goto(t, next, local[t]) /\ UNCHANGED <<owner, owned>>

TearDown(t) ==
  /\ pc[t] = "deleteConfig"
  /\ DeleteGroupConfig(t, "queryRows")
  /\ UNCHANGED <<row, old, object, cache, counters>>

QueryRows(t) ==
  /\ pc[t] = "queryRows"
  /\ \/ /\ NoFault
        /\ \E S \in SUBSET Clusters :
             Goto(t, IF S = {} THEN "readVolume" ELSE "deleteRows",
                  [local[t] EXCEPT !.seen = S])
     \/ Fault /\ Goto(t, "readVolume", local[t])
  /\ UNCHANGED <<store, object, cache, counters>>

DeleteAllClusterStatuses(t) ==
  /\ pc[t] = "deleteRows"
  /\ \/ NoFault /\ DeleteRows(local[t].seen)
     \/ Fault /\ \E S \in SUBSET local[t].seen : DeleteRows(S)
  /\ Goto(t, "readVolume", [local[t] EXCEPT !.seen = {}])
  /\ UNCHANGED <<owner, owned, object, cache, counters>>

(* The owner tries to hand the group to the others, in any order, until it *)
(* succeeds.  TransferOwnership writes the owner whatever the version is.  *)
TryNext(t, others) ==
  Goto(t, IF others = {} THEN "dropConfig" ELSE "transfer",
       [local[t] EXCEPT !.seen = others, !.conf = NoCluster])

ReadOwner(t) ==
  /\ pc[t] = "transfer"
  /\ \E d \in local[t].seen :
       \/ /\ NoFault
          /\ GetGroupConfig(Cluster(t))
          /\ IF Stored(Cluster(t)) = d
             THEN Goto(t, "removeSelf", [local[t] EXCEPT !.seen = {}])
             ELSE Goto(t, "transferring", [local[t] EXCEPT !.seen = @ \ {d}, !.conf = d])
       \/ GetGroupConfigLost(Cluster(t)) /\ TryNext(t, local[t].seen \ {d})
  /\ UNCHANGED <<row, old, object, cache, counters>>

TransferOwnership(t) ==
  /\ pc[t] = "transferring"
  /\ \/ /\ NoFault
        /\ SetOwner(local[t].conf)
        /\ GotoOutdating(t, "any", "removeSelf",
                         [local[t] EXCEPT !.seen = {}, !.conf = NoCluster])
     \/ /\ Fault
        /\ SetOwner(local[t].conf) \/ UNCHANGED <<owner, owned>>
        /\ TryNext(t, local[t].seen)
  /\ UNCHANGED <<row, old, object, cache, counters>>

DropConfig(t) ==
  /\ pc[t] = "dropConfig"
  /\ DeleteGroupConfig(t, "removeSelf")
  /\ UNCHANGED <<row, old, object, cache, counters>>

RemoveSelf(t) ==
  /\ pc[t] = "removeSelf"
  /\ (DeleteRows({Cluster(t)}) /\ Applied) \/ Lost
  /\ Goto(t, "readVolume", local[t])
  /\ UNCHANGED <<owner, owned, object, cache, counters>>

(* RemoveVolumeState reads the CONFIG item, which may create it again, and *)
(* puts it back.                                                           *)
ReadVolumeState(t) ==
  /\ pc[t] = "readVolume"
  /\ \/ /\ NoFault
        /\ GetGroupConfig(Cluster(t))
        /\ Goto(t, "putVolume", [local[t] EXCEPT !.conf = Stored(Cluster(t)), !.version = "same"])
     \/ GetGroupConfigLost(Cluster(t)) /\ Goto(t, "finalizer", local[t])
  /\ UNCHANGED <<row, old, object, cache, counters>>

RemoveVolumeState(t) ==
  LET l == [local[t] EXCEPT !.conf = NoCluster, !.version = "same"] IN
  /\ pc[t] = "putVolume"
  /\ \/ /\ owner = NoCluster \/ local[t].version # "newer"
        /\ SetOwner(local[t].conf)
        /\ GotoOutdating(t, "newer", "finalizer", l)
        /\ Applied
     \/ /\ IF owner # NoCluster /\ local[t].version # "same" THEN NoFault ELSE Fault
        /\ Goto(t, "finalizer", l)
        /\ UNCHANGED <<owner, owned>>
  /\ UNCHANGED <<row, old, object, cache, counters>>

(* The object goes with its finalizer.  When the update is refused or lost *)
(* the deletion starts again.                                              *)
Gone == [active |-> NoCluster, finalizer |-> FALSE, deleting |-> TRUE, gone |-> TRUE]

RemoveFinalizer(t) ==
  /\ pc[t] = "finalizer"
  /\ \/ WriteObject(t, "idle", NoLocal, Gone) /\ Applied
     \/ /\ IF WriteRefused(t) THEN NoFault ELSE Fault
        /\ Goto(t, "idle", NoLocal)
        /\ UNCHANGED object
  /\ UNCHANGED <<store, cache, counters>>

----------------------------------------------------------------------------
(* The environment.                                                        *)

(* ExecuteFailover, forced or not, by anybody.                             *)
SwitchOver ==
  /\ switches < MaxSwitches
  /\ switches' = switches + 1
  /\ owner # NoCluster
  /\ \E to \in Registered \ {owner} :
       /\ SetOwner(to)
       /\ row' = [row EXCEPT ![owner] = "FAILOVER", ![to] = "PRIMARY"]
       /\ old' = old \ {owner, to}
  /\ local' = Outdated("newer")
  /\ UNCHANGED <<object, cache, pc, faults, ticks>>

(* A user deletes the FailoverGroup of one cluster.                        *)
Delete(c) ==
  /\ Live(c)
  /\ object' = [object EXCEPT ![c] = IF @.finalizer THEN [@ EXCEPT !.deleting = TRUE]
                                     ELSE Gone]
  /\ local' = [u \in Goroutines |-> [local[u] EXCEPT !.fresh = @ /\ Cluster(u) # c]]
  /\ UNCHANGED <<store, cache, pc, faults, counters>>

(* 30 seconds pass, ...                                                    *)
CacheExpires(c) ==
  /\ cache[c] # NoCluster
  /\ cache' = [cache EXCEPT ![c] = NoCluster]
  /\ UNCHANGED <<store, object, pc, local, faults, counters>>

(* ... and 5 minutes without a heartbeat.                                  *)
Ages(c) ==
  /\ c \in Registered \ old
  /\ old' = old \cup {c}
  /\ IF object[c].gone THEN NoFault ELSE Fault
  /\ UNCHANGED <<owner, row, owned, object, cache, pc, local, counters>>

(* The operator of a cluster crashes and starts again.                     *)
Crash(c) ==
  /\ Fault
  /\ \E t \in Goroutines : Cluster(t) = c /\ pc[t] # "idle"
  /\ pc' = [t \in Goroutines |-> IF Cluster(t) = c THEN "idle" ELSE pc[t]]
  /\ local' = [t \in Goroutines |-> IF Cluster(t) = c THEN NoLocal ELSE local[t]]
  /\ cache' = [cache EXCEPT ![c] = NoCluster]
  /\ UNCHANGED <<store, object, counters>>

----------------------------------------------------------------------------
SyncSteps(t) ==
  \/ Register(t) \/ RegisterSelf(t)
  \/ GetGroupState(t)
  \/ CacheHit(t) \/ CacheMiss(t) \/ CacheFill(t) \/ GetGroupConfigFails(t)
  \/ Publish(t)
  \/ ReadRow(t) \/ Beat(t)
  \/ UpdateStatus(t)
  \/ ReadStale(t) \/ RemoveStale(t)
  \/ CheckStages(t)

DeletionSteps(t) ==
  \/ ReadStatuses(t)
  \/ DecideCached(t) \/ DecideFilled(t) \/ DecideUnknown(t)
  \/ TearDown(t) \/ QueryRows(t) \/ DeleteAllClusterStatuses(t)
  \/ ReadOwner(t) \/ TransferOwnership(t) \/ DropConfig(t) \/ RemoveSelf(t)
  \/ ReadVolumeState(t) \/ RemoveVolumeState(t)
  \/ RemoveFinalizer(t)

Step(t) ==
  Reconcile(t) \/ SyncAll(t) \/ AddFinalizer(t) \/ SyncSteps(t) \/ DeletionSteps(t)

Next ==
  \/ \E t \in Goroutines : Step(t)
  \/ SwitchOver
  \/ \E c \in Deletable : Delete(c)
  \/ \E c \in Clusters : CacheExpires(c) \/ Ages(c) \/ Crash(c)

Spec == Init /\ [][Next]_vars

(* Reconcile is repeated after 30 seconds or an error, the ticker ticks,   *)
(* and time passes.                                                        *)
FairSpec ==
  /\ Spec
  /\ \A t \in Goroutines : WF_vars(Step(t))
  /\ \A c \in Clusters : WF_vars(CacheExpires(c)) /\ WF_vars(object[c].gone /\ Ages(c))

----------------------------------------------------------------------------
(* A cluster that knows another one to be the active one takes the role    *)
(* back only if it was made the owner: no failing request and no stale     *)
(* cache promotes it ("will use current state").                           *)
SelfPromotion ==
  [][\A c \in Clusters :
       /\ object[c].active \notin {NoCluster, c}
       /\ object'[c].active = c
       => c \in owned]_vars

(* When the switch-overs and failures are over, the status of every        *)
(* cluster names the owner and every cluster has the role that the CONFIG  *)
(* item says, although the heartbeat and the cache write and use what they *)
(* read before ("to ensure the local view matches the global state").      *)
RoleIsRight(c) ==
  /\ object[c].active = owner
  /\ row[c] = IF owner = c THEN "PRIMARY" ELSE "STANDBY"
RolesConverge == <>[](\A c \in Clusters : Live(c) => RoleIsRight(c))

(* A FailoverGroup that is deleted goes away, although the other goroutine *)
(* writes the object at the same time.                                     *)
GroupDeletionCompletes == \A c \in Clusters : object[c].deleting ~> object[c].gone

(* The item of a cluster that is gone goes too, even when a late write of  *)
(* the other goroutine created it again ("won't show up in other clusters' *)
(* lists anymore"), as long as a cluster with the group is left.           *)
ZombiesRemoved ==
  <>[](\A c \in Clusters : object[c].gone /\ (\E d \in Clusters : Live(d)) => row[c] = "none")
=============================================================================
