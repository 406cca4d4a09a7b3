------------------------- MODULE GroupController_proof -------------------------
(***************************************************************************)
(* Theorems about the reconciliation of a FailoverGroup, for any number of *)
(* clusters and goroutines and any bounds.                                 *)
(*                                                                         *)
(* That a cluster takes a role back only as the owner rests on what a pass *)
(* knows on its way: an owner that it read owned the group once, and what  *)
(* it did not read it copied from the object, unless the object has been   *)
(* written since, in which case its own write is refused.                  *)
(***************************************************************************)
EXTENDS GroupController, TLAPS

(* The owner that the CONFIG item or a cache names has owned the group.    *)
OwnerKnown == owner # NoCluster => owner \in owned
CacheKnown == \A c \in Clusters : cache[c] # NoCluster => cache[c] \in owned

(* Where a pass still has the active cluster that it began with.           *)
Learning == {"register", "registering", "config", "fill"}

(* What goroutine u knows, at label with local state l, while the object   *)
(* has this active cluster and the clusters in own have owned the group.   *)
KnownAt(u, label, l, active, own) ==
  /\ label \in {"fill", "fillOwner"} => l.conf \in own
  /\ l.fresh /\ label \in Learning => l.active = active
  /\ l.fresh /\ label = "publish" /\ l.active = Cluster(u)
       => active \in {NoCluster, Cluster(u)} \/ Cluster(u) \in own

Known(u) == KnownAt(u, pc[u], local[u], object[Cluster(u)].active, owned)

GroupInv ==
  /\ GroupTypeOK
  /\ OwnerKnown
  /\ CacheKnown
  /\ \A t \in Goroutines : Known(t)

----------------------------------------------------------------------------
(* The parts of a step.                                                    *)
StoreWell ==
  /\ owner \in Maybe
  /\ row \in [Clusters -> RowStates \cup {"none"}]
  /\ old \subseteq {c \in Clusters : row[c] # "none"}
  /\ owned \subseteq Clusters
  /\ OwnerKnown

CountersWell ==
  /\ switches \in 0 .. MaxSwitches
  /\ faults \in 0 .. MaxFaults
  /\ ticks \in 0 .. MaxTicks

CacheWell == cache \in [Clusters -> Maybe] /\ CacheKnown

StoreGrows == StoreWell' /\ owned \subseteq owned'

(* The other goroutines go on with what they had; a copy of an object that *)
(* was written is not fresh.                                               *)
Calm(u) ==
  /\ pc'[u] = pc[u]
  /\ local'[u].active = local[u].active
  /\ local'[u].conf = local[u].conf
  /\ local'[u].fresh => /\ local[u].fresh
                        /\ object'[Cluster(u)].active = object[Cluster(u)].active

LEMMA ClusterType == \A t \in Goroutines : Cluster(t) \in Clusters
  BY GroupControllerAssumption DEF Cluster

LEMMA NoLocalType == NoLocal \in Local
  BY DEF NoLocal, Local, Maybe

LEMMA CalmKnown ==
  ASSUME NEW u, Known(u), Calm(u), owned \subseteq owned' PROVE Known(u)'
  BY DEF Known, KnownAt, Calm, Cluster

LEMMA PassStep ==
  ASSUME GroupInv, NEW t \in Goroutines,
         pc' \in [Goroutines -> Labels], local' \in [Goroutines -> Local],
         \A u \in Goroutines \ {t} : Calm(u), Known(t)',
         StoreGrows, CacheWell', CountersWell', object' \in [Clusters -> Object]
  PROVE  GroupInv'
<1>1. GroupTypeOK'
  BY DEF GroupTypeOK, StoreGrows, StoreWell, CacheWell, CountersWell
<1>2. \A u \in Goroutines : Known(u)'
  BY CalmKnown DEF GroupInv, StoreGrows
<1> QED
  BY <1>1, <1>2 DEF GroupInv, StoreGrows, StoreWell, CacheWell

LEMMA SameCache ==
  ASSUME GroupInv, UNCHANGED cache, owned \subseteq owned' PROVE CacheWell'
  BY DEF GroupInv, GroupTypeOK, CacheWell, CacheKnown

LEMMA SameStore ==
  ASSUME GroupInv, UNCHANGED store PROVE StoreGrows
  BY DEF GroupInv, GroupTypeOK, StoreGrows, StoreWell, store, OwnerKnown

LEMMA FaultCount ==
  ASSUME GroupInv, Fault \/ NoFault, UNCHANGED counters PROVE CountersWell'
<1>1. faults' \in 0 .. MaxFaults
  BY GroupControllerAssumption DEF GroupInv, GroupTypeOK, Fault, NoFault
<1> QED
  BY <1>1 DEF GroupInv, GroupTypeOK, CountersWell, counters

LEMMA OwnerGrows ==
  ASSUME GroupInv, NEW c \in Maybe, SetOwner(c), UNCHANGED <<row, old>>
  PROVE  StoreGrows /\ (c # NoCluster => c \in owned')
  BY DEF GroupInv, GroupTypeOK, StoreGrows, StoreWell, SetOwner, OwnerKnown, Maybe

(* GetGroupConfig returns a cluster that owns the group from then on.      *)
LEMMA ConfigGrows ==
  ASSUME GroupInv, NEW c \in Clusters, GetGroupConfig(c), UNCHANGED <<row, old>>
  PROVE  StoreGrows /\ Stored(c) \in Clusters /\ Stored(c) \in owned'
<1>1. Stored(c) \in Clusters /\ Stored(c) # NoCluster
  BY GroupControllerAssumption DEF GroupInv, GroupTypeOK, Stored, Maybe
<1> QED
  BY <1>1, OwnerGrows DEF GetGroupConfig, Maybe

LEMMA LostGrows ==
  ASSUME GroupInv, NEW c \in Clusters, GetGroupConfigLost(c), UNCHANGED <<row, old>>
  PROVE  StoreGrows /\ Fault
  BY ConfigGrows, SameStore DEF GetGroupConfigLost, store

LEMMA RowsGrow ==
  ASSUME GroupInv, UNCHANGED <<owner, owned>>,
         \/ \E c \in Clusters, state \in RowStates \cup {"none"} : PutRow(c, state)
         \/ \E S \in SUBSET Clusters : DeleteRows(S)
         \/ UNCHANGED <<row, old>>
  PROVE  StoreGrows
<1>1. ASSUME NEW c \in Clusters, NEW state \in RowStates \cup {"none"}, PutRow(c, state)
      PROVE  StoreGrows
  BY <1>1 DEF GroupInv, GroupTypeOK, StoreGrows, StoreWell, PutRow, OwnerKnown
<1>2. ASSUME NEW S \in SUBSET Clusters, DeleteRows(S) PROVE StoreGrows
  BY <1>2 DEF GroupInv, GroupTypeOK, StoreGrows, StoreWell, DeleteRows, OwnerKnown
<1>3. ASSUME UNCHANGED <<row, old>> PROVE StoreGrows
  BY <1>3, SameStore DEF store
<1> QED
  BY <1>1, <1>2, <1>3

(* A request that does not write the object.                               *)
LEMMA GotoStep ==
  ASSUME GroupInv, NEW t \in Goroutines, NEW label \in Labels, NEW l \in Local,
         Goto(t, label, l), StoreGrows, CacheWell', Fault \/ NoFault,
         UNCHANGED <<object, counters>>,
         label # "idle" => KnownAt(t, label, l, object'[Cluster(t)].active, owned')
  PROVE  GroupInv'
<1>1. /\ pc' = [pc EXCEPT ![t] = label]
      /\ local' = [local EXCEPT ![t] = IF label = "idle" THEN NoLocal ELSE l]
      /\ pc \in [Goroutines -> Labels] /\ local \in [Goroutines -> Local]
  BY DEF Goto, GroupInv, GroupTypeOK
<1>2. pc' \in [Goroutines -> Labels] /\ local' \in [Goroutines -> Local]
  BY <1>1, NoLocalType
<1>3. \A u \in Goroutines \ {t} : Calm(u)
  BY <1>1 DEF Calm
<1>4. Known(t)'
  <2>1. pc'[t] = label /\ local'[t] = IF label = "idle" THEN NoLocal ELSE l
    BY <1>1
  <2> QED
    BY <2>1 DEF Known, KnownAt, NoLocal, Learning
<1>5. CountersWell' /\ object' \in [Clusters -> Object]
  BY FaultCount DEF GroupInv, GroupTypeOK
<1> QED
  BY <1>2, <1>3, <1>4, <1>5, PassStep

(* A write of the CONFIG item by a call that others may have overtaken.    *)
LEMMA OutdatedStep ==
  ASSUME GroupInv, NEW t \in Goroutines, NEW label \in Labels, NEW l \in Local,
         NEW version \in {"newer", "any"}, GotoOutdating(t, version, label, l),
         StoreGrows, CacheWell', Fault \/ NoFault, UNCHANGED <<object, counters>>,
         label \notin {"fill", "fillOwner", "publish"} \cup Learning
  PROVE  GroupInv'
<1>1. pc \in [Goroutines -> Labels] /\ local \in [Goroutines -> Local]
  BY DEF GroupInv, GroupTypeOK
<1>2. /\ pc' = [pc EXCEPT ![t] = label]
      /\ local' = [Outdated(version) EXCEPT ![t] = l]
  BY DEF GotoOutdating
<1>3. \A u \in Goroutines :
        /\ Outdated(version)[u] \in Local
        /\ Outdated(version)[u].active = local[u].active
        /\ Outdated(version)[u].conf = local[u].conf
        /\ Outdated(version)[u].fresh = local[u].fresh
  BY <1>1 DEF Outdated, Local
<1>4. Outdated(version) \in [Goroutines -> Local]
  BY <1>3 DEF Outdated
<1>5. pc' \in [Goroutines -> Labels] /\ local' \in [Goroutines -> Local]
  BY <1>1, <1>2, <1>4
<1>6. \A u \in Goroutines \ {t} : Calm(u)
  BY <1>1, <1>2, <1>3, <1>4 DEF Calm
<1>7. Known(t)'
  BY <1>1, <1>2 DEF Known, KnownAt
<1>8. CountersWell' /\ object' \in [Clusters -> Object]
  BY FaultCount DEF GroupInv, GroupTypeOK
<1> QED
  BY <1>5, <1>6, <1>7, <1>8, PassStep

(* A write of the object.                                                  *)
LEMMA WriteStep ==
  ASSUME GroupInv, NEW t \in Goroutines, NEW label \in Labels, NEW l \in Local,
         NEW obj \in Object, WriteObject(t, label, l, obj),
         Fault \/ NoFault, UNCHANGED <<store, cache, counters>>,
         label = "idle" \/ (~l.fresh /\ label \notin {"fill", "fillOwner"})
  PROVE  GroupInv'
<1>1. pc \in [Goroutines -> Labels] /\ local \in [Goroutines -> Local]
  BY DEF GroupInv, GroupTypeOK
<1>2. /\ pc' = [pc EXCEPT ![t] = label]
      /\ object' = [object EXCEPT ![Cluster(t)] = obj]
      /\ local' = [u \in Goroutines |->
           IF u = t THEN (IF label = "idle" THEN NoLocal ELSE l)
           ELSE [local[u] EXCEPT !.fresh = @ /\ Cluster(u) # Cluster(t)]]
  BY DEF WriteObject
<1>3. \A u \in Goroutines :
        LET e == [local[u] EXCEPT !.fresh = @ /\ Cluster(u) # Cluster(t)]
        IN  /\ e \in Local /\ e.active = local[u].active /\ e.conf = local[u].conf
            /\ e.fresh => local[u].fresh /\ Cluster(u) # Cluster(t)
  BY <1>1 DEF Local
<1>4. pc' \in [Goroutines -> Labels] /\ local' \in [Goroutines -> Local]
  BY <1>1, <1>2, <1>3, NoLocalType
<1>5. object' \in [Clusters -> Object] /\ object \in [Clusters -> Object]
  BY <1>2 DEF GroupInv, GroupTypeOK
<1>6. \A u \in Goroutines \ {t} : Calm(u)
  BY <1>1, <1>2, <1>3, <1>5, ClusterType DEF Calm
<1>7. Known(t)'
  BY <1>1, <1>2 DEF Known, KnownAt, NoLocal, Learning
<1>8. StoreGrows /\ CacheWell' /\ CountersWell'
  BY SameStore, SameCache, FaultCount DEF store
<1> QED
  BY <1>4, <1>5, <1>6, <1>7, <1>8, PassStep

----------------------------------------------------------------------------
(* The steps of a pass.                                                    *)

LEMMA LocalType == GroupInv => \A t \in Goroutines : local[t] \in Local
  BY DEF GroupInv, GroupTypeOK

(* The changes that steps make to what a goroutine has read.               *)
LEMMA LocalUpdate ==
  ASSUME NEW l \in Local
  PROVE  /\ \A a \in Maybe : LET m == [l EXCEPT !.conf = a]
              IN m \in Local /\ m.conf = a /\ m.active = l.active /\ m.fresh = l.fresh
         /\ \A S \in SUBSET Clusters : [l EXCEPT !.seen = S] \in Local
         /\ \A s \in RowStates \cup {"none"} : [l EXCEPT !.state = s] \in Local
         /\ \A a \in Maybe, S \in SUBSET Clusters :
              [l EXCEPT !.conf = a, !.seen = S] \in Local
  BY DEF Local

LEMMA BeginStep ==
  ASSUME GroupInv, NEW t \in Goroutines, Begin(t), ticks' \in 0 .. MaxTicks
  PROVE  GroupInv'
<1> DEFINE a == IF First(t) = "statuses" THEN NoCluster ELSE object[Cluster(t)].active
           l == [NoLocal EXCEPT !.active = a, !.fresh = TRUE]
<1>1. object[Cluster(t)] \in Object
  BY ClusterType DEF GroupInv, GroupTypeOK
<1>2. a \in Maybe
  BY <1>1 DEF Object, Maybe
<1>3. l \in Local /\ l.active = a
  <2> HIDE DEF a
  <2> QED
    BY <1>2, NoLocalType DEF Local
<1>4. First(t) \in {"register", "statuses", "addFinalizer", "config"}
  BY DEF First, Begin
<1>5. /\ pc' = [pc EXCEPT ![t] = First(t)] /\ local' = [local EXCEPT ![t] = l]
      /\ pc \in [Goroutines -> Labels] /\ local \in [Goroutines -> Local]
  BY <1>4 DEF Begin, Goto, GroupInv, GroupTypeOK
<1>6. First(t) \in Labels
  BY <1>4 DEF Labels
<1>7. pc' \in [Goroutines -> Labels] /\ local' \in [Goroutines -> Local]
  <2> HIDE DEF l
  <2> QED
    BY <1>3, <1>5, <1>6
<1>8. UNCHANGED <<store, object, cache, faults, switches>>
  BY DEF Begin
<1>9. \A u \in Goroutines \ {t} : Calm(u)
  BY <1>5, <1>8 DEF Calm
<1>10. Known(t)'
  <2>1. pc'[t] = First(t) /\ local'[t] = l
    BY <1>5
  <2>2. First(t) \in Learning => l.active = object[Cluster(t)].active
    BY <1>3 DEF Learning
  <2> HIDE DEF l
  <2> QED
    BY <1>4, <1>8, <2>1, <2>2 DEF Known, KnownAt
<1>11. StoreGrows /\ CacheWell' /\ CountersWell' /\ object' \in [Clusters -> Object]
  BY <1>8, SameStore, SameCache DEF store, GroupInv, GroupTypeOK, CountersWell
<1> QED
  BY <1>7, <1>9, <1>10, <1>11, PassStep

(* What becomes known at a label where nothing needs to be.                *)
LEMMA NothingKnown ==
  ASSUME NEW u, NEW label, NEW l, NEW active, NEW own,
         label \notin {"fill", "fillOwner", "publish"} \cup Learning
  PROVE  KnownAt(u, label, l, active, own)
  BY DEF KnownAt

LEMMA RestStep ==
  ASSUME GroupInv, NEW t \in Goroutines, NEW label \in Labels, NEW l \in Local,
         Goto(t, label, l), StoreGrows, Fault \/ NoFault,
         UNCHANGED <<object, cache, counters>>,
         label \notin {"fill", "fillOwner", "publish"} \cup Learning
  PROVE  GroupInv'
  BY GotoStep, NothingKnown, SameCache DEF StoreGrows

(* A pass that has learnt the active cluster.  It names its own only if    *)
(* the cluster owned the group, or was already named.                      *)
LEMMA LearnStep ==
  ASSUME GroupInv, NEW t \in Goroutines, NEW active \in Maybe, Learn(t, active),
         Fault \/ NoFault, UNCHANGED <<store, object, counters>>, CacheWell',
         local[t].fresh /\ active = Cluster(t)
           => \/ object[Cluster(t)].active \in {NoCluster, Cluster(t)}
              \/ Cluster(t) \in owned
  PROVE  GroupInv'
<1>1. local[t] \in Local
  BY LocalType
<1>2. CASE Goto(t, "publish", [local[t] EXCEPT !.active = active, !.conf = NoCluster])
  <2> DEFINE l == [local[t] EXCEPT !.active = active, !.conf = NoCluster]
  <2>1. l \in Local /\ l.active = active /\ l.fresh = local[t].fresh
    BY <1>1 DEF Local, Maybe
  <2>2. Goto(t, "publish", l) /\ "publish" \in Labels /\ "publish" \notin Learning
    BY <1>2 DEF Labels, Learning
  <2> HIDE DEF l
  <2>3. KnownAt(t, "publish", l, object'[Cluster(t)].active, owned')
    BY <2>1, <2>2 DEF KnownAt, store
  <2> QED
    BY <2>1, <2>2, <2>3, GotoStep, SameStore
<1>3. CASE Goto(t, AfterSync(t), Synced(t))
  <2>1. Synced(t) \in Local
    BY <1>1 DEF Synced, Local, Maybe
  <2>2. AfterSync(t) \in {"heartbeat", "status"}
    BY DEF AfterSync
  <2>3. AfterSync(t) \in Labels
    BY <2>2 DEF Labels
  <2>4. KnownAt(t, AfterSync(t), Synced(t), object'[Cluster(t)].active, owned')
    BY <2>2, NothingKnown DEF Learning
  <2> QED
    BY <1>3, <2>1, <2>3, <2>4, GotoStep, SameStore
<1> QED
  BY <1>2, <1>3 DEF Learn

(* A CONFIG item that was read goes to the cache.                          *)
LEMMA FillCache ==
  ASSUME GroupInv, NEW c \in Clusters, NEW value \in Maybe, value \in owned,
         cache' = [cache EXCEPT ![c] = value], UNCHANGED owned
  PROVE  CacheWell'
  BY DEF GroupInv, GroupTypeOK, CacheWell, CacheKnown

LEMMA KnownNow ==
  ASSUME GroupInv, NEW t \in Goroutines
  PROVE  KnownAt(t, pc[t], local[t], object[Cluster(t)].active, owned)
  BY DEF GroupInv, Known

LEMMA SyncStep ==
  ASSUME GroupInv, NEW t \in Goroutines, SyncSteps(t) PROVE GroupInv'
<1> DEFINE c == Cluster(t)
<1>0. c \in Clusters /\ local[t] \in Local /\ Role(t) \in RowStates
  BY ClusterType, LocalType DEF Role, RowStates
<1> HIDE DEF c
<1>00. c = Cluster(t)
  BY DEF c
<1>1. CASE Register(t)
  <2>1. PICK label \in {"config", "registering"} : Goto(t, label, local[t])
    BY <1>1 DEF Register
  <2>2. pc[t] = "register" /\ label \in Labels /\ label \in Learning
    BY <1>1 DEF Register, Labels, Learning
  <2>3. UNCHANGED <<store, object, cache, counters>> /\ (Fault \/ NoFault)
    BY <1>1 DEF Register
  <2>4. KnownAt(t, label, local[t], object'[Cluster(t)].active, owned')
    BY <2>1, <2>2, <2>3, KnownNow DEF KnownAt, store, Learning
  <2>5. StoreGrows /\ CacheWell'
    BY <2>3, SameStore, SameCache DEF store
  <2> QED
    BY <1>0, <2>1, <2>2, <2>3, <2>4, <2>5, GotoStep
<1>2. CASE RegisterSelf(t)
  <2>1. /\ pc[t] = "registering" /\ Goto(t, "config", local[t])
        /\ UNCHANGED <<owner, owned, object, cache, counters>> /\ (Fault \/ NoFault)
        /\ PutRow(Cluster(t), Role(t)) \/ UNCHANGED <<row, old>>
    BY <1>2 DEF RegisterSelf, Applied, Lost
  <2>2. StoreGrows /\ CacheWell'
    BY <1>0, <1>00, <2>1, RowsGrow, SameCache
  <2>3. KnownAt(t, "config", local[t], object'[Cluster(t)].active, owned')
    BY <2>1, KnownNow DEF KnownAt, Learning
  <2>4. "config" \in Labels
    BY DEF Labels
  <2> QED
    BY <1>0, <2>1, <2>2, <2>3, <2>4, GotoStep
<1>3. CASE GetGroupState(t)
  <2>1. /\ pc[t] = "config" /\ GetGroupConfig(c)
        /\ UNCHANGED <<row, old, object, cache, pc, local, faults, counters>>
    BY <1>3, <1>00 DEF GetGroupState
  <2>2. StoreGrows /\ CacheWell'
    BY <1>0, <2>1, ConfigGrows, SameCache DEF StoreGrows
  <2>3. CountersWell' /\ object' \in [Clusters -> Object]
    BY <2>1, FaultCount DEF NoFault, GroupInv, GroupTypeOK
  <2>4. pc' \in [Goroutines -> Labels] /\ local' \in [Goroutines -> Local]
    BY <2>1 DEF GroupInv, GroupTypeOK
  <2>5. \A u \in Goroutines : Calm(u)
    BY <2>1 DEF Calm
  <2>6. Known(t)'
    BY <2>2, <2>5, CalmKnown DEF GroupInv, StoreGrows
  <2> QED
    BY <2>2, <2>3, <2>4, <2>5, <2>6, PassStep
<1>4. CASE CacheHit(t)
  <2>1. /\ Learn(t, cache[c]) /\ cache[c] # NoCluster
        /\ UNCHANGED <<store, object, cache, faults, counters>>
    BY <1>4, <1>00 DEF CacheHit
  <2>2. cache[c] \in Maybe /\ cache[c] \in owned /\ CacheWell'
    BY <1>0, <2>1, SameCache DEF GroupInv, GroupTypeOK, CacheKnown, store
  <2> QED
    BY <2>1, <2>2, LearnStep DEF NoFault
<1>5. CASE CacheMiss(t)
  <2> DEFINE l == [local[t] EXCEPT !.conf = Stored(c)]
  <2>1. PICK label \in {"fill", "fillOwner"} :
          /\ Goto(t, label, l)
          /\ label = "fill" => pc[t] = "config"
    BY <1>5, <1>00 DEF CacheMiss
  <2>2. /\ GetGroupConfig(c)
        /\ UNCHANGED <<row, old, object, cache, faults, counters>>
    BY <1>5, <1>00 DEF CacheMiss
  <2>3. StoreGrows /\ Stored(c) \in Maybe /\ Stored(c) \in owned' /\ CacheWell'
    BY <1>0, <2>2, ConfigGrows, SameCache DEF StoreGrows, Maybe
  <2>4. l \in Local /\ l.conf = Stored(c) /\ l.active = local[t].active
        /\ l.fresh = local[t].fresh
    BY <1>0, <2>3 DEF Local
  <2> HIDE DEF l
  <2>5. KnownAt(t, label, l, object'[Cluster(t)].active, owned')
    BY <2>1, <2>2, <2>3, <2>4, KnownNow DEF KnownAt, Learning
  <2>6. label \in Labels
    BY DEF Labels
  <2> QED
    BY <2>1, <2>2, <2>3, <2>4, <2>5, <2>6, GotoStep DEF NoFault
<1>6. CASE CacheFill(t)
  <2>1. /\ pc[t] = "fill" /\ cache' = [cache EXCEPT ![c] = local[t].conf]
        /\ Learn(t, local[t].conf) /\ UNCHANGED <<store, object, faults, counters>>
    BY <1>6, <1>00 DEF CacheFill
  <2>2. local[t].conf \in Maybe /\ local[t].conf \in owned
    BY <1>0, <2>1, KnownNow DEF KnownAt, Local
  <2>3. CacheWell'
    BY <1>0, <2>1, <2>2, FillCache DEF store
  <2> QED
    BY <2>1, <2>2, <2>3, LearnStep DEF NoFault
<1>7. CASE GetGroupConfigFails(t)
  <2> DEFINE a == IF local[t].active = NoCluster THEN c ELSE local[t].active
  <2>1. /\ pc[t] = "config" /\ Fault /\ Learn(t, a)
        /\ UNCHANGED <<store, object, cache, counters>>
    BY <1>7, <1>00 DEF GetGroupConfigFails
  <2>2. a \in Maybe
    BY <1>0 DEF Local, Maybe
  <2>3. local[t].fresh /\ a = c => object[c].active \in {NoCluster, c}
    BY <1>00, <2>1, KnownNow DEF KnownAt, Learning
  <2>4. CacheWell'
    BY <2>1, SameCache DEF store
  <2> HIDE DEF a
  <2> QED
    BY <1>00, <2>1, <2>2, <2>3, <2>4, LearnStep
<1>8. CASE Publish(t)
  <2> DEFINE obj == [object[c] EXCEPT !.active = local[t].active]
             l == Synced(t)
  <2>1. obj \in Object
    BY <1>0 DEF GroupInv, GroupTypeOK, Object, Local
  <2>2. l \in Local /\ l.fresh = FALSE
    BY <1>0 DEF Synced, Local, Maybe
  <2>3. PICK label \in {"heartbeat", "status", "idle"} :
          /\ Fault \/ NoFault
          /\ \/ WriteObject(t, label, l, obj)
             \/ Goto(t, label, l) /\ UNCHANGED object
    BY <1>8, <1>00 DEF Publish, AfterSync
  <2>4. UNCHANGED <<store, cache, counters>>
    BY <1>8 DEF Publish
  <2>5. label \in Labels /\ label \notin {"fill", "fillOwner", "publish"} \cup Learning
    BY DEF Labels, Learning
  <2> HIDE DEF obj, l
  <2> QED
    BY <2>1, <2>2, <2>3, <2>4, <2>5, WriteStep, RestStep, SameStore
<1>9. CASE ReadRow(t)
  <2>1. PICK s \in RowStates \cup {"none"} : Goto(t, "beat", [local[t] EXCEPT !.state = s])
    BY <1>0, <1>00, <1>9 DEF ReadRow, GroupInv, GroupTypeOK, RowStates
  <2>2. UNCHANGED <<store, object, cache, counters>> /\ (Fault \/ NoFault)
    BY <1>9 DEF ReadRow
  <2>3. [local[t] EXCEPT !.state = s] \in Local
    BY <1>0, LocalUpdate
  <2> QED
    BY <2>1, <2>2, <2>3, RestStep, SameStore DEF Labels, Learning
<1>10. CASE Beat(t)
  <2>1. /\ Goto(t, "status", [local[t] EXCEPT !.state = "none"])
        /\ UNCHANGED <<owner, owned, object, cache, counters>> /\ (Fault \/ NoFault)
        /\ PutRow(c, local[t].state) \/ UNCHANGED <<row, old>>
    BY <1>10, <1>00 DEF Beat, Applied, Lost
  <2>2. local[t].state \in RowStates \cup {"none"}
    BY <1>0 DEF Local
  <2>3. StoreGrows
    BY <1>0, <2>1, <2>2, RowsGrow
  <2>4. [local[t] EXCEPT !.state = "none"] \in Local
    BY <1>0, LocalUpdate
  <2> QED
    BY <2>1, <2>3, <2>4, RestStep DEF Labels, Learning
<1>11. CASE UpdateStatus(t)
  <2>1. /\ Goto(t, "cleanup", NoLocal)
        /\ UNCHANGED <<owner, owned, object, cache, counters>> /\ (Fault \/ NoFault)
        /\ PutRow(c, Role(t)) \/ UNCHANGED <<row, old>>
    BY <1>11, <1>00 DEF UpdateStatus, Applied, Lost
  <2>2. StoreGrows
    BY <1>0, <2>1, RowsGrow
  <2> QED
    BY <2>1, <2>2, RestStep, NoLocalType DEF Labels, Learning
<1>12. ASSUME NEW S \in SUBSET Clusters, Remove(t, S), StoreGrows, Fault \/ NoFault,
              UNCHANGED <<object, cache, counters>>
       PROVE  GroupInv'
  <2>1. PICK label \in {"stages", "idle", "remove"} :
          Goto(t, label, [local[t] EXCEPT !.seen = S])
    BY <1>12 DEF Remove, Last
  <2>2. [local[t] EXCEPT !.seen = S] \in Local
    BY <1>0, LocalUpdate
  <2>3. label \in Labels /\ label \notin {"fill", "fillOwner", "publish"} \cup Learning
    BY DEF Labels, Learning
  <2> QED
    BY <1>12, <2>1, <2>2, <2>3, RestStep
<1>13. CASE ReadStale(t)
  <2>1. PICK S \in SUBSET (old \ {Cluster(t)}) : Remove(t, S)
    BY <1>13 DEF ReadStale
  <2>2. UNCHANGED <<store, object, cache, counters>> /\ (Fault \/ NoFault)
    BY <1>13 DEF ReadStale
  <2>3. S \in SUBSET Clusters
    BY DEF GroupInv, GroupTypeOK
  <2> QED
    BY <1>12, <2>1, <2>2, <2>3, SameStore
<1>14. CASE RemoveStale(t)
  <2>1. PICK d \in local[t].seen :
          /\ (DeleteRows({d}) /\ Applied) \/ Lost
          /\ Remove(t, local[t].seen \ {d})
    BY <1>14 DEF RemoveStale
  <2>2. UNCHANGED <<owner, owned, object, cache, counters>>
    BY <1>14 DEF RemoveStale
  <2>3. local[t].seen \subseteq Clusters
    BY <1>0 DEF Local
  <2>4. StoreGrows /\ (Fault \/ NoFault)
    <3>1. DeleteRows({d}) \/ UNCHANGED <<row, old>>
      BY <2>1 DEF Lost
    <3> QED
      BY <2>1, <2>2, <2>3, <3>1, RowsGrow DEF Applied, Lost
  <2> QED
    BY <1>12, <2>1, <2>2, <2>3, <2>4
<1>15. CASE CheckStages(t)
  <2>1. /\ Goto(t, "idle", NoLocal) /\ UNCHANGED <<row, old, object, cache, counters>>
        /\ (GetGroupConfig(c) /\ NoFault) \/ GetGroupConfigLost(c)
    BY <1>15, <1>00 DEF CheckStages
  <2>2. StoreGrows /\ (Fault \/ NoFault)
    BY <1>0, <2>1, ConfigGrows, LostGrows
  <2> QED
    BY <2>1, <2>2, RestStep, NoLocalType DEF Labels, Learning
<1> QED
  BY <1>1, <1>2, <1>3, <1>4, <1>5, <1>6, <1>7, <1>8, <1>9, <1>10, <1>11, <1>13,
     <1>14, <1>15
  DEF SyncSteps

(* handleDeletion goes on to a label where nothing needs to be known.      *)
LEMMA TryNextStep ==
  ASSUME GroupInv, NEW t \in Goroutines, NEW S \in SUBSET Clusters, TryNext(t, S),
         StoreGrows, Fault \/ NoFault, UNCHANGED <<object, cache, counters>>
  PROVE  GroupInv'
<1> DEFINE l == [local[t] EXCEPT !.seen = S, !.conf = NoCluster]
<1>1. l \in Local
  BY LocalType DEF Local, Maybe
<1>2. PICK label \in {"dropConfig", "transfer"} : Goto(t, label, l)
  BY DEF TryNext
<1>3. label \in Labels /\ label \notin {"fill", "fillOwner", "publish"} \cup Learning
  BY DEF Labels, Learning
<1> HIDE DEF l
<1> QED
  BY <1>1, <1>2, <1>3, RestStep

LEMMA DecideStep ==
  ASSUME GroupInv, NEW t \in Goroutines, NEW knownOwner, Decide(t, knownOwner),
         StoreGrows, CacheWell', Fault \/ NoFault, UNCHANGED <<object, counters>>
  PROVE  GroupInv'
<1> DEFINE S == IF ~(Cardinality(local[t].seen) <= 1) /\ knownOwner = Cluster(t)
                THEN local[t].seen \ {Cluster(t)} ELSE {}
           l == [local[t] EXCEPT !.conf = NoCluster, !.seen = S]
<1>1. S \in SUBSET Clusters /\ NoCluster \in Maybe /\ local[t] \in Local
  BY LocalType DEF Local, Maybe
<1>2. PICK label \in {"deleteConfig", "transfer", "removeSelf"} : Goto(t, label, l)
  BY DEF Decide
<1>3. l \in Local
  <2> HIDE DEF S
  <2> QED
    BY <1>1, LocalUpdate
<1>4. label \in Labels /\ label \notin {"fill", "fillOwner", "publish"} \cup Learning
  BY DEF Labels, Learning
<1> HIDE DEF l
<1>5. KnownAt(t, label, l, object'[Cluster(t)].active, owned')
  BY <1>4, NothingKnown
<1> QED
  BY <1>2, <1>3, <1>4, <1>5, GotoStep

LEMMA DeleteConfigStep ==
  ASSUME GroupInv, NEW t \in Goroutines, NEW next \in {"queryRows", "removeSelf"},
         DeleteGroupConfig(t, next), UNCHANGED <<row, old, object, cache, counters>>
  PROVE  GroupInv'
<1>0. local[t] \in Local /\ NoCluster \in Maybe
  BY LocalType DEF Maybe
<1>1. next \in Labels /\ next \notin {"fill", "fillOwner", "publish"} \cup Learning
  BY DEF Labels, Learning
<1>2. CASE SetOwner(NoCluster) /\ GotoOutdating(t, "any", next, local[t]) /\ Applied
  <2>1. StoreGrows /\ (Fault \/ NoFault)
    BY <1>0, <1>2, OwnerGrows DEF Applied
  <2>2. CacheWell'
    BY <2>1, SameCache DEF StoreGrows
  <2> QED
    BY <1>0, <1>1, <1>2, <2>1, <2>2, OutdatedStep
<1>3. CASE Fault /\ Goto(t, next, local[t]) /\ UNCHANGED <<owner, owned>>
  BY <1>0, <1>1, <1>3, RestStep, SameStore DEF store
<1> QED
  BY <1>2, <1>3 DEF DeleteGroupConfig

LEMMA DeletionStep ==
  ASSUME GroupInv, NEW t \in Goroutines, DeletionSteps(t) PROVE GroupInv'
<1> DEFINE c == Cluster(t)
<1>0. c \in Clusters /\ local[t] \in Local /\ local[t].seen \subseteq Clusters
      /\ local[t].conf \in Maybe
  BY ClusterType, LocalType DEF Local
<1> HIDE DEF c
<1>00. c = Cluster(t)
  BY DEF c
<1>01. ASSUME NEW label \in Labels, NEW S \in SUBSET Clusters,
              Goto(t, label, [local[t] EXCEPT !.seen = S]), StoreGrows,
              Fault \/ NoFault, UNCHANGED <<object, cache, counters>>,
              label \in {"owner", "readVolume", "deleteRows", "removeSelf"}
       PROVE  GroupInv'
  <2>1. [local[t] EXCEPT !.seen = S] \in Local
    BY <1>0, LocalUpdate
  <2> QED
    BY <1>01, <2>1, RestStep DEF Learning
<1>1. CASE ReadStatuses(t)
  <2>1. PICK S \in SUBSET Registered : Goto(t, "owner", [local[t] EXCEPT !.seen = S])
    BY <1>1 DEF ReadStatuses
  <2>2. UNCHANGED <<store, object, cache, counters>> /\ (Fault \/ NoFault)
    BY <1>1 DEF ReadStatuses
  <2>3. S \in SUBSET Clusters /\ "owner" \in Labels
    BY DEF Registered, Labels
  <2> QED
    BY <1>01, <2>1, <2>2, <2>3, SameStore
<1>2. CASE DecideCached(t)
  BY <1>2, DecideStep, SameStore, SameCache DEF DecideCached, NoFault, store
<1>3. CASE DecideFilled(t)
  <2>1. /\ pc[t] = "fillOwner" /\ cache' = [cache EXCEPT ![c] = local[t].conf]
        /\ Decide(t, local[t].conf) /\ UNCHANGED <<store, object, faults, counters>>
    BY <1>3, <1>00 DEF DecideFilled
  <2>2. local[t].conf \in owned
    BY <2>1, KnownNow DEF KnownAt
  <2>3. CacheWell'
    BY <1>0, <2>1, <2>2, FillCache DEF store
  <2> QED
    BY <2>1, <2>3, DecideStep, SameStore DEF NoFault
<1>4. CASE DecideUnknown(t)
  <2>1. /\ GetGroupConfigLost(c) /\ Decide(t, NoCluster)
        /\ UNCHANGED <<row, old, object, cache, counters>>
    BY <1>4, <1>00 DEF DecideUnknown
  <2>2. StoreGrows /\ Fault /\ CacheWell'
    BY <1>0, <2>1, LostGrows, SameCache DEF StoreGrows
  <2> QED
    BY <2>1, <2>2, DecideStep
<1>5. CASE TearDown(t) \/ DropConfig(t)
  BY <1>5, DeleteConfigStep DEF TearDown, DropConfig
<1>6. CASE QueryRows(t)
  <2>1. UNCHANGED <<store, object, cache, counters>> /\ (Fault \/ NoFault)
    BY <1>6 DEF QueryRows
  <2>2. CASE Goto(t, "readVolume", local[t])
    BY <1>0, <2>1, <2>2, RestStep, SameStore DEF Labels, Learning
  <2>3. ASSUME NEW S \in SUBSET Clusters,
               Goto(t, IF S = {} THEN "readVolume" ELSE "deleteRows",
                    [local[t] EXCEPT !.seen = S])
        PROVE  GroupInv'
    <3>1. PICK label \in {"readVolume", "deleteRows"} :
            Goto(t, label, [local[t] EXCEPT !.seen = S])
      BY <2>3
    <3>2. label \in Labels
      BY DEF Labels
    <3> QED
      BY <1>01, <2>1, <3>1, <3>2, SameStore
  <2> QED
    BY <1>6, <2>2, <2>3 DEF QueryRows
<1>7. CASE DeleteAllClusterStatuses(t)
  <2>1. /\ Goto(t, "readVolume", [local[t] EXCEPT !.seen = {}])
        /\ UNCHANGED <<owner, owned, object, cache, counters>> /\ (Fault \/ NoFault)
    BY <1>7 DEF DeleteAllClusterStatuses
  <2>2. PICK S \in SUBSET local[t].seen : DeleteRows(S)
    BY <1>7 DEF DeleteAllClusterStatuses
  <2>3. StoreGrows /\ "readVolume" \in Labels
    BY <1>0, <2>1, <2>2, RowsGrow DEF Labels
  <2> QED
    BY <1>01, <2>1, <2>3
<1>8. CASE ReadOwner(t)
  <2>1. PICK d \in local[t].seen :
       \/ /\ NoFault
          /\ GetGroupConfig(c)
          /\ IF Stored(c) = d
             THEN Goto(t, "removeSelf", [local[t] EXCEPT !.seen = {}])
             ELSE Goto(t, "transferring", [local[t] EXCEPT !.seen = @ \ {d}, !.conf = d])
       \/ GetGroupConfigLost(c) /\ TryNext(t, local[t].seen \ {d})
    BY <1>8, <1>00 DEF ReadOwner
  <2>2. UNCHANGED <<row, old, object, cache, counters>>
    BY <1>8 DEF ReadOwner
  <2>3. CASE GetGroupConfigLost(c) /\ TryNext(t, local[t].seen \ {d})
    BY <1>0, <2>2, <2>3, LostGrows, TryNextStep
  <2>4. CASE NoFault /\ GetGroupConfig(c)
             /\ Goto(t, "removeSelf", [local[t] EXCEPT !.seen = {}])
    <3>1. StoreGrows /\ "removeSelf" \in Labels
      BY <1>0, <2>2, <2>4, ConfigGrows DEF Labels
    <3> QED
      BY <1>01, <2>2, <2>4, <3>1
  <2>5. CASE NoFault /\ GetGroupConfig(c)
             /\ Goto(t, "transferring", [local[t] EXCEPT !.seen = @ \ {d}, !.conf = d])
    <3> DEFINE l == [local[t] EXCEPT !.seen = @ \ {d}, !.conf = d]
    <3>1. l \in Local
      <4> DEFINE S == local[t].seen \ {d}
      <4>1. S \in SUBSET Clusters /\ d \in Maybe
        BY <1>0, <2>1 DEF Maybe
      <4> HIDE DEF S
      <4>2. [local[t] EXCEPT !.seen = S, !.conf = d] \in Local
        BY <1>0, <4>1 DEF Local
      <4> QED
        BY <4>2 DEF S
    <3>2. StoreGrows
      BY <1>0, <2>2, <2>5, ConfigGrows
    <3>3. Goto(t, "transferring", l) /\ "transferring" \in Labels
      BY <2>5 DEF Labels
    <3> HIDE DEF l
    <3> QED
      BY <2>2, <2>5, <3>1, <3>2, <3>3, RestStep DEF Learning
  <2> QED
    BY <2>1, <2>3, <2>4, <2>5
<1>9. CASE TransferOwnership(t)
  <2>1. UNCHANGED <<row, old, object, cache, counters>>
    BY <1>9 DEF TransferOwnership
  <2>2. CASE Fault /\ TryNext(t, local[t].seen)
             /\ (SetOwner(local[t].conf) \/ UNCHANGED <<owner, owned>>)
    <3>1. StoreGrows
      BY <1>0, <2>1, <2>2, OwnerGrows, SameStore DEF store
    <3> QED
      BY <1>0, <2>1, <2>2, <3>1, TryNextStep
  <2>3. CASE NoFault /\ SetOwner(local[t].conf)
             /\ GotoOutdating(t, "any", "removeSelf",
                              [local[t] EXCEPT !.seen = {}, !.conf = NoCluster])
    <3> DEFINE l == [local[t] EXCEPT !.seen = {}, !.conf = NoCluster]
    <3>1. l \in Local
      BY <1>0 DEF Local, Maybe
    <3>2. StoreGrows
      BY <1>0, <2>1, <2>3, OwnerGrows
    <3>3. CacheWell'
      BY <2>1, <3>2, SameCache DEF StoreGrows
    <3>4. GotoOutdating(t, "any", "removeSelf", l) /\ "removeSelf" \in Labels
      BY <2>3 DEF Labels
    <3> HIDE DEF l
    <3> QED
      BY <2>1, <2>3, <3>1, <3>2, <3>3, <3>4, OutdatedStep DEF Learning
  <2> QED
    BY <1>9, <2>2, <2>3 DEF TransferOwnership
<1>10. CASE RemoveSelf(t)
  <2>1. /\ Goto(t, "readVolume", local[t]) /\ (Fault \/ NoFault)
        /\ UNCHANGED <<owner, owned, object, cache, counters>>
        /\ DeleteRows({c}) \/ UNCHANGED <<row, old>>
    BY <1>10, <1>00 DEF RemoveSelf, Applied, Lost
  <2>2. StoreGrows
    BY <1>0, <2>1, RowsGrow
  <2> QED
    BY <1>0, <2>1, <2>2, RestStep DEF Labels, Learning
<1>11. CASE ReadVolumeState(t)
  <2>1. UNCHANGED <<row, old, object, cache, counters>>
    BY <1>11 DEF ReadVolumeState
  <2>2. CASE GetGroupConfigLost(c) /\ Goto(t, "finalizer", local[t])
    BY <1>0, <2>1, <2>2, LostGrows, RestStep DEF Labels, Learning
  <2>3. CASE /\ NoFault /\ GetGroupConfig(c)
             /\ Goto(t, "putVolume",
                     [local[t] EXCEPT !.conf = Stored(c), !.version = "same"])
    <3> DEFINE l == [local[t] EXCEPT !.conf = Stored(c), !.version = "same"]
    <3>1. StoreGrows /\ Stored(c) \in Maybe
      BY <1>0, <2>1, <2>3, ConfigGrows DEF Maybe
    <3>2. l \in Local
      BY <1>0, <3>1 DEF Local
    <3>3. Goto(t, "putVolume", l) /\ "putVolume" \in Labels
      BY <2>3 DEF Labels
    <3> HIDE DEF l
    <3> QED
      BY <2>1, <2>3, <3>1, <3>2, <3>3, RestStep DEF Learning
  <2> QED
    BY <1>00, <1>11, <2>2, <2>3 DEF ReadVolumeState
<1>12. CASE RemoveVolumeState(t)
  <2> DEFINE l == [local[t] EXCEPT !.conf = NoCluster, !.version = "same"]
  <2>1. l \in Local /\ "finalizer" \in Labels
    BY <1>0 DEF Local, Maybe, Labels
  <2>2. UNCHANGED <<row, old, object, cache, counters>>
    BY <1>12 DEF RemoveVolumeState
  <2>3. \/ /\ SetOwner(local[t].conf) /\ Applied
           /\ GotoOutdating(t, "newer", "finalizer", l)
        \/ /\ Goto(t, "finalizer", l) /\ UNCHANGED <<owner, owned>>
           /\ Fault \/ NoFault
    BY <1>12 DEF RemoveVolumeState
  <2> HIDE DEF l
  <2>4. CASE /\ SetOwner(local[t].conf) /\ Applied
             /\ GotoOutdating(t, "newer", "finalizer", l)
    <3>1. StoreGrows /\ (Fault \/ NoFault)
      BY <1>0, <2>2, <2>4, OwnerGrows DEF Applied
    <3>2. CacheWell'
      BY <2>2, <3>1, SameCache DEF StoreGrows
    <3> QED
      BY <2>1, <2>2, <2>4, <3>1, <3>2, OutdatedStep DEF Learning
  <2>5. CASE /\ Goto(t, "finalizer", l) /\ UNCHANGED <<owner, owned>>
             /\ Fault \/ NoFault
    BY <2>1, <2>2, <2>5, RestStep, SameStore DEF Learning, store
  <2> QED
    BY <2>3, <2>4, <2>5
<1>13. CASE RemoveFinalizer(t)
  <2>1. Gone \in Object /\ "idle" \in Labels
    BY DEF Gone, Object, Maybe, Labels
  <2>2. UNCHANGED <<store, cache, counters>> /\ (Fault \/ NoFault)
    BY <1>13 DEF RemoveFinalizer, Applied
  <2>3. WriteObject(t, "idle", NoLocal, Gone) \/ (Goto(t, "idle", NoLocal) /\ UNCHANGED object)
    BY <1>13 DEF RemoveFinalizer
  <2> QED
    BY <2>1, <2>2, <2>3, WriteStep, RestStep, SameStore, NoLocalType DEF Learning
<1> QED
  BY <1>1, <1>2, <1>3, <1>4, <1>5, <1>6, <1>7, <1>8, <1>9, <1>10, <1>11, <1>12, <1>13
  DEF DeletionSteps

LEMMA FinalizerStep ==
  ASSUME GroupInv, NEW t \in Goroutines, AddFinalizer(t) PROVE GroupInv'
<1> DEFINE obj == [object[Cluster(t)] EXCEPT !.finalizer = TRUE]
<1>1. obj \in Object /\ "idle" \in Labels
  BY ClusterType DEF GroupInv, GroupTypeOK, Object, Labels
<1>2. UNCHANGED <<store, cache, counters>> /\ (Fault \/ NoFault)
  BY DEF AddFinalizer, Applied
<1>3. WriteObject(t, "idle", NoLocal, obj) \/ (Goto(t, "idle", NoLocal) /\ UNCHANGED object)
  BY DEF AddFinalizer
<1> HIDE DEF obj
<1> QED
  BY <1>1, <1>2, <1>3, WriteStep, RestStep, SameStore, NoLocalType DEF Learning

----------------------------------------------------------------------------
(* The steps of the environment.                                           *)

LEMMA CalmStep ==
  ASSUME GroupInv, \A u \in Goroutines : Calm(u) \/ Known(u)',
         pc' \in [Goroutines -> Labels], local' \in [Goroutines -> Local],
         StoreGrows, CacheWell', CountersWell', object' \in [Clusters -> Object]
  PROVE  GroupInv'
<1>1. GroupTypeOK'
  BY DEF GroupTypeOK, StoreGrows, StoreWell, CacheWell, CountersWell
<1>2. \A u \in Goroutines : Known(u)'
  BY CalmKnown DEF GroupInv, StoreGrows
<1> QED
  BY <1>1, <1>2 DEF GroupInv, StoreGrows, StoreWell, CacheWell

LEMMA SwitchOverStep == ASSUME GroupInv, SwitchOver PROVE GroupInv'
<1>1. PICK to \in Registered \ {owner} :
        /\ SetOwner(to)
        /\ row' = [row EXCEPT ![owner] = "FAILOVER", ![to] = "PRIMARY"]
        /\ old' = old \ {owner, to}
  BY DEF SwitchOver
<1>2. /\ owner # NoCluster /\ local' = Outdated("newer")
      /\ UNCHANGED <<object, cache, pc, faults, ticks>>
      /\ switches < MaxSwitches /\ switches' = switches + 1
  BY DEF SwitchOver
<1>3. owner \in Clusters /\ to \in Clusters
  BY <1>2 DEF GroupInv, GroupTypeOK, Maybe, Registered
<1>4. StoreGrows
  BY <1>1, <1>3
  DEF GroupInv, GroupTypeOK, StoreGrows, StoreWell, SetOwner, OwnerKnown, Maybe, RowStates
<1>5. CacheWell'
  BY <1>2, <1>4, SameCache DEF StoreGrows
<1>6. CountersWell'
  BY <1>2, GroupControllerAssumption DEF GroupInv, GroupTypeOK, CountersWell
<1>7. \A u \in Goroutines :
        /\ local'[u] \in Local
        /\ local'[u].active = local[u].active
        /\ local'[u].conf = local[u].conf
        /\ local'[u].fresh = local[u].fresh
  BY <1>2, LocalType DEF Outdated, Local
<1>8. local' \in [Goroutines -> Local]
  BY <1>2, <1>7 DEF Outdated
<1>9. \A u \in Goroutines : Calm(u)
  BY <1>2, <1>7 DEF Calm
<1> QED
  BY <1>2, <1>4, <1>5, <1>6, <1>8, <1>9, CalmStep DEF GroupInv, GroupTypeOK

LEMMA DeleteStep == ASSUME GroupInv, NEW c \in Clusters, Delete(c) PROVE GroupInv'
<1>1. /\ object' = [object EXCEPT ![c] = IF @.finalizer THEN [@ EXCEPT !.deleting = TRUE]
                                         ELSE Gone]
      /\ local' = [u \in Goroutines |-> [local[u] EXCEPT !.fresh = @ /\ Cluster(u) # c]]
      /\ UNCHANGED <<store, cache, pc, faults, counters>>
  BY DEF Delete
<1>2. object' \in [Clusters -> Object] /\ object \in [Clusters -> Object]
  <2>1. object[c] \in Object /\ object \in [Clusters -> Object]
    BY DEF GroupInv, GroupTypeOK
  <2>2. [object[c] EXCEPT !.deleting = TRUE] \in Object /\ Gone \in Object
    BY <2>1 DEF Gone, Object, Maybe
  <2> QED
    BY <1>1, <2>1, <2>2
<1>3. \A u \in Goroutines :
        LET e == [local[u] EXCEPT !.fresh = @ /\ Cluster(u) # c]
        IN  /\ e \in Local /\ e.active = local[u].active /\ e.conf = local[u].conf
            /\ e.fresh => local[u].fresh /\ Cluster(u) # c
  BY LocalType DEF Local
<1>4. local' \in [Goroutines -> Local]
  BY <1>1, <1>3
<1>5. \A u \in Goroutines : Calm(u)
  BY <1>1, <1>2, <1>3, ClusterType DEF Calm
<1>6. StoreGrows /\ CacheWell' /\ CountersWell'
  BY <1>1, SameStore, SameCache, FaultCount DEF store, NoFault
<1> QED
  BY <1>1, <1>2, <1>4, <1>5, <1>6, CalmStep DEF GroupInv, GroupTypeOK

LEMMA TimeStep ==
  ASSUME GroupInv, NEW c \in Clusters, CacheExpires(c) \/ Ages(c) PROVE GroupInv'
<1>1. UNCHANGED <<object, pc, local, counters>> /\ (Fault \/ NoFault)
  BY DEF CacheExpires, Ages, NoFault
<1>2. StoreGrows
  BY DEF CacheExpires, Ages, Registered, GroupInv, GroupTypeOK, StoreGrows, StoreWell,
         store, OwnerKnown
<1>3. CacheWell'
  <2>1. CASE CacheExpires(c)
    BY <2>1 DEF CacheExpires, GroupInv, GroupTypeOK, CacheWell, CacheKnown, Maybe, store
  <2>2. CASE Ages(c)
    BY <2>2, SameCache DEF Ages
  <2> QED
    BY <2>1, <2>2
<1>4. CountersWell'
  BY <1>1, FaultCount
<1>5. \A u \in Goroutines : Calm(u)
  BY <1>1 DEF Calm
<1> QED
  BY <1>1, <1>2, <1>3, <1>4, <1>5, CalmStep DEF GroupInv, GroupTypeOK

LEMMA CrashStep == ASSUME GroupInv, NEW c \in Clusters, Crash(c) PROVE GroupInv'
<1>1. /\ pc' = [t \in Goroutines |-> IF Cluster(t) = c THEN "idle" ELSE pc[t]]
      /\ local' = [t \in Goroutines |-> IF Cluster(t) = c THEN NoLocal ELSE local[t]]
      /\ cache' = [cache EXCEPT ![c] = NoCluster]
      /\ UNCHANGED <<store, object, counters>> /\ Fault
  BY DEF Crash
<1>2. pc' \in [Goroutines -> Labels] /\ local' \in [Goroutines -> Local]
  BY <1>1, NoLocalType DEF GroupInv, GroupTypeOK, Labels
<1>3. \A u \in Goroutines : Calm(u) \/ Known(u)'
  BY <1>1 DEF Calm, Known, KnownAt, NoLocal, Learning
<1>4. StoreGrows /\ CountersWell'
  BY <1>1, SameStore, FaultCount
<1>5. CacheWell'
  BY <1>1 DEF GroupInv, GroupTypeOK, CacheWell, CacheKnown, Maybe, store
<1> QED
  BY <1>1, <1>2, <1>3, <1>4, <1>5, CalmStep DEF GroupInv, GroupTypeOK

LEMMA GroupNext == GroupInv /\ [Next]_vars => GroupInv'
<1> SUFFICES ASSUME GroupInv, [Next]_vars PROVE GroupInv'
  OBVIOUS
<1>1. ASSUME NEW t \in Goroutines, Reconcile(t) \/ SyncAll(t) PROVE GroupInv'
  <2>1. ticks' \in 0 .. MaxTicks
    BY <1>1, GroupControllerAssumption DEF Reconcile, SyncAll, GroupInv, GroupTypeOK
  <2> QED
    BY <1>1, <2>1, BeginStep DEF Reconcile, SyncAll
<1>2. CASE UNCHANGED vars
  BY <1>2
  DEF vars, GroupInv, GroupTypeOK, OwnerKnown, CacheKnown, Known, KnownAt, Cluster
<1> QED
  BY <1>1, <1>2, SyncStep, DeletionStep, FinalizerStep, SwitchOverStep, DeleteStep,
     TimeStep, CrashStep, GroupControllerAssumption
  DEF Next, Step

LEMMA GroupInit == Init => GroupInv
<1> SUFFICES ASSUME Init PROVE GroupInv
  OBVIOUS
<1>1. [active |-> NoCluster, finalizer |-> FALSE, deleting |-> FALSE, gone |-> FALSE]
        \in Object
  BY DEF Object, Maybe
<1>2. GroupTypeOK
  BY <1>1, NoLocalType, GroupControllerAssumption DEF Init, GroupTypeOK, Labels, Maybe
<1>3. \A t \in Goroutines : Known(t)
  BY DEF Init, Known, KnownAt, NoLocal, Learning
<1> QED
  BY <1>2, <1>3 DEF Init, GroupInv, OwnerKnown, CacheKnown

(* An owner that an operator has read or cached has owned the group, and a *)
(* pass whose copy of the object is current has the active cluster in it.  *)
THEOREM GroupInvariant == Spec => []GroupInv
  BY GroupInit, GroupNext, PTL DEF Spec

(* The items, the objects and what the goroutines have read are of the     *)
(* declared types, whatever fails and whoever deletes the group.           *)
THEOREM GroupTypeCorrect == Spec => []GroupTypeOK
<1>1. GroupInv => GroupTypeOK
  BY DEF GroupInv
<1> QED
  BY <1>1, GroupInvariant, PTL

----------------------------------------------------------------------------
(* Who names a cluster the active one in its own object.                   *)
Promotes(c) == object[c].active \notin {NoCluster, c} /\ object'[c].active = c

LEMMA WritePromotes ==
  ASSUME GroupInv, NEW t \in Goroutines, NEW label, NEW l, NEW obj,
         WriteObject(t, label, l, obj), NEW c \in Clusters, Promotes(c)
  PROVE  c = Cluster(t) /\ obj.active = c /\ local[t].fresh
  BY DEF GroupInv, GroupTypeOK, WriteObject, Promotes

(* Only the synchronisation writes an active cluster.                      *)
LEMMA PromotionStep ==
  ASSUME GroupInv, [Next]_vars, NEW c \in Clusters, Promotes(c) PROVE c \in owned
<1>0. c # NoCluster /\ object \in [Clusters -> Object]
  BY GroupControllerAssumption DEF GroupInv, GroupTypeOK
<1>1. ~UNCHANGED object
  BY DEF Promotes
<1>2. ASSUME NEW t \in Goroutines, Publish(t) PROVE c \in owned
  <2> DEFINE obj == [object[Cluster(t)] EXCEPT !.active = local[t].active]
  <2>1. PICK label \in {"heartbeat", "status", "idle"} :
          WriteObject(t, label, Synced(t), obj)
    BY <1>1, <1>2 DEF Publish, AfterSync
  <2>2. obj.active = local[t].active
    BY <1>0, ClusterType DEF Object
  <2> HIDE DEF obj
  <2>3. c = Cluster(t) /\ local[t].active = c /\ local[t].fresh
    BY <2>1, <2>2, WritePromotes
  <2> QED
    BY <1>2, <2>3, KnownNow DEF Publish, KnownAt, Promotes
<1>3. ASSUME NEW t \in Goroutines, AddFinalizer(t) PROVE FALSE
  <2> DEFINE obj == [object[Cluster(t)] EXCEPT !.finalizer = TRUE]
  <2>1. WriteObject(t, "idle", NoLocal, obj)
    BY <1>1, <1>3 DEF AddFinalizer
  <2>2. obj.active = object[Cluster(t)].active
    BY <1>0, ClusterType DEF Object
  <2> HIDE DEF obj
  <2> QED
    BY <2>1, <2>2, WritePromotes DEF Promotes
<1>4. ASSUME NEW t \in Goroutines, RemoveFinalizer(t) PROVE FALSE
  <2>1. WriteObject(t, "idle", NoLocal, Gone)
    BY <1>1, <1>4 DEF RemoveFinalizer
  <2> QED
    BY <1>0, <2>1, WritePromotes DEF Gone
<1>5. ASSUME NEW d \in Clusters, Delete(d) PROVE FALSE
  <2>1. object'[c].active \in {object[c].active, NoCluster}
    BY <1>0, <1>5 DEF Delete, Gone, Object
  <2> QED
    BY <1>0, <2>1 DEF Promotes
<1>6. ASSUME NEW t \in Goroutines, DeletionSteps(t), ~RemoveFinalizer(t) PROVE FALSE
  BY <1>1, <1>6
  DEF DeletionSteps, ReadStatuses, DecideCached, DecideFilled, DecideUnknown, TearDown,
      QueryRows, DeleteAllClusterStatuses, ReadOwner, TransferOwnership, DropConfig,
      RemoveSelf, ReadVolumeState, RemoveVolumeState
<1>7. ASSUME NEW t \in Goroutines, SyncSteps(t), ~Publish(t) PROVE FALSE
  BY <1>1, <1>7
  DEF SyncSteps, Register, RegisterSelf, GetGroupState, CacheHit, CacheMiss, CacheFill,
      GetGroupConfigFails, ReadRow, Beat, UpdateStatus, ReadStale, RemoveStale, CheckStages
<1>8. ASSUME NEW t \in Goroutines, Reconcile(t) \/ SyncAll(t) PROVE FALSE
  BY <1>1, <1>8 DEF Reconcile, SyncAll, Begin
<1>9. ~SwitchOver /\ ~UNCHANGED vars
  BY <1>1 DEF SwitchOver, vars
<1>10. ASSUME NEW d \in Clusters, CacheExpires(d) \/ Ages(d) \/ Crash(d) PROVE FALSE
  BY <1>1, <1>10 DEF CacheExpires, Ages, Crash
<1> QED
  BY <1>2, <1>3, <1>4, <1>5, <1>6, <1>7, <1>8, <1>9, <1>10, GroupControllerAssumption
  DEF Next, Step

(* No failing request, stale cache or late write makes a cluster take back *)
(* the role that another one is known to have, unless it was the owner     *)
(* (updateLocalStatus: "will use current state").                          *)
THEOREM NoSelfPromotion == Spec => SelfPromotion
<1>1. GroupInv /\ [Next]_vars
        => [\A c \in Clusters :
              /\ object[c].active \notin {NoCluster, c}
              /\ object'[c].active = c
              => c \in owned]_vars
  BY PromotionStep DEF Promotes
<1> QED
  BY <1>1, GroupInvariant, PTL DEF Spec, SelfPromotion
=============================================================================
