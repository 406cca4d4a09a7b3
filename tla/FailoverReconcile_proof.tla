----------------------- MODULE FailoverReconcile_proof -----------------------
(***************************************************************************)
(* Theorems about the life of a Failover, for any number of groups, any    *)
(* share of them that is this operator's, and any number of failing        *)
(* requests and crashes.                                                   *)
(*                                                                         *)
(* That a record is true is not inductive by itself: what is stored comes  *)
(* from Reconcile's memory, and that from the cache.  All three copies     *)
(* have to be sound, and a step that will record an outcome has to know    *)
(* that the workflow ended that way.                                       *)
(***************************************************************************)
EXTENDS FailoverReconcile, TLAPS

(* What obj records of its groups and of the whole has happened.           *)
Sound(obj) ==
  /\ \A g \in Groups : obj.group[g] = "SUCCESS" => g \in won
  /\ obj.status = "SUCCESS" => won # {}
  /\ obj.status = "FAILED" => lost # {} \/ faults > 0

Records == Sound(stored) /\ Sound(cache) /\ Sound(mem)

(* Where Reconcile may be only after the workflow of the group it is at.   *)
Positions ==
  /\ pc \in {"wonState", "wonStatus", "wonGroup"} => at \in won
  /\ pc \in {"lostState", "lostStatus"} => lost # {}
  /\ pc = "missing" => faults > 0
  /\ pc \in {"mark", "state", "tasks", "lostState", "lostStatus", "lostGroup",
             "wonState", "wonStatus", "wonGroup", "missing"} => at \in Groups

ReconcileInv == ReconcileTypeOK /\ Records /\ Positions

----------------------------------------------------------------------------
(* The edits of an object.                                                 *)

LEMMA NewObjectSound == NewObject \in Object /\ Sound(NewObject)
  BY DEF NewObject, Object, GroupStatus, Sound

LEMMA StatusEdit ==
  ASSUME NEW o \in Object, NEW s \in {"none", "IN_PROGRESS", "SUCCESS", "FAILED"},
         Sound(o), s = "SUCCESS" => won # {}, s = "FAILED" => lost # {} \/ faults > 0
  PROVE  [o EXCEPT !.status = s] \in Object /\ Sound([o EXCEPT !.status = s])
  BY DEF Object, Sound

LEMMA GroupEdit ==
  ASSUME NEW o \in Object, NEW g \in Groups, NEW s \in GroupStatus,
         Sound(o), s = "SUCCESS" => g \in won
  PROVE  [o EXCEPT !.group[g] = s] \in Object /\ Sound([o EXCEPT !.group[g] = s])
<1> DEFINE e == [o EXCEPT !.group[g] = s]
<1>1. e \in Object
  BY DEF Object
<1>2. e.status = o.status /\ \A h \in Groups : e.group[h] = IF h = g THEN s ELSE o.group[h]
  BY DEF Object
<1> QED
  BY <1>1, <1>2 DEF Sound

(* A write, applied or not, of a sound object keeps the copies sound.      *)
LEMMA WriteStep ==
  ASSUME ReconcileTypeOK, Records, NEW obj \in Object, Sound(obj),
         NEW next \in PCs, NEW onError \in PCs, Write(obj, next, onError),
         UNCHANGED <<cache, locked, won, lost>>,
         gone' \in BOOLEAN, at' \in Groups \cup {NumGroups + 1}
  PROVE  ReconcileTypeOK' /\ Records' /\ pc' \in {next, onError}
<1> USE FailoverReconcileAssumption
<1>1. stored' \in {stored, obj} /\ mem' \in {obj, NewObject} /\ pc' \in {next, onError}
  BY DEF Write, Goto
<1>2. faults' \in {faults, faults + 1} /\ faults' \in 0 .. MaxFaults
  BY DEF Write, Fault, NoFault, ReconcileTypeOK
<1>3. cacheFresh' \in BOOLEAN /\ memFresh' \in BOOLEAN
  BY DEF Write, ReconcileTypeOK
<1>4. ReconcileTypeOK'
  BY <1>1, <1>2, <1>3, NewObjectSound DEF ReconcileTypeOK
<1>5. \A o \in Object : Sound(o) => Sound(o)'
  BY <1>2 DEF Sound, ReconcileTypeOK
<1>6. Sound(stored') /\ Sound(mem') /\ Sound(cache')
  BY <1>1, NewObjectSound DEF Records
<1>7. Records'
  BY <1>2, <1>6 DEF Records, Sound, ReconcileTypeOK
<1> QED
  BY <1>1, <1>4, <1>7

(* A step that writes nothing.                                             *)
LEMMA PlainStep ==
  ASSUME ReconcileTypeOK, Records, NEW label \in PCs, Step(label),
         UNCHANGED <<gone, cache, locked, won, lost>>,
         at' \in Groups \cup {NumGroups + 1}
  PROVE  ReconcileTypeOK' /\ Records' /\ pc' = label
<1>1. stored' = stored /\ mem' \in {mem, NewObject} /\ pc' = label
  BY DEF Step, Goto
<1>2. ReconcileTypeOK'
  BY <1>1, NewObjectSound DEF ReconcileTypeOK, Step
<1>3. Records'
  BY <1>1, NewObjectSound DEF Records, Sound, Step
<1> QED
  BY <1>1, <1>2, <1>3

(* More outcomes leave a record as true as it was.                         *)
LEMMA QuietStep ==
  ASSUME ReconcileTypeOK, Records, ReconcileTypeOK',
         won \subseteq won', lost \subseteq lost', faults <= faults',
         stored' \in {stored, [stored EXCEPT !.deleting = TRUE]},
         cache' \in {cache, stored}, mem' \in {mem, cache, NewObject}
  PROVE  Records'
<1>1. \A o \in Object : Sound(o) => Sound([o EXCEPT !.deleting = TRUE])
  BY DEF Sound, Object
<1>2. Sound(stored') /\ Sound(cache') /\ Sound(mem')
  BY <1>1, NewObjectSound DEF Records, ReconcileTypeOK
<1> QED
  BY <1>2 DEF Records, Sound, ReconcileTypeOK

----------------------------------------------------------------------------
LEMMA ReconcileInitInv == Init => ReconcileInv
<1> SUFFICES ASSUME Init PROVE ReconcileInv
  OBVIOUS
<1> USE FailoverReconcileAssumption
<1>1. at \in Groups \cup {NumGroups + 1} /\ faults \in 0 .. MaxFaults
  BY DEF Init, Groups
<1>2. ReconcileTypeOK
  BY <1>1, NewObjectSound DEF Init, ReconcileTypeOK, PCs
<1>3. Records
  BY NewObjectSound DEF Init, Records
<1> QED
  BY <1>2, <1>3 DEF Init, ReconcileInv, Positions

LEMMA ReconcileNextInv == ReconcileInv /\ [Next]_vars => ReconcileInv'
<1> SUFFICES ASSUME ReconcileInv, [Next]_vars PROVE ReconcileInv'
  OBVIOUS
<1> USE DEF ReconcileInv
<1> USE FailoverReconcileAssumption
<1> DEFINE Types == ReconcileTypeOK' /\ Records'
<1>0. /\ stored \in Object /\ mem \in Object /\ cache \in Object
      /\ Sound(stored) /\ Sound(mem) /\ Sound(cache)
      /\ at \in Groups \cup {NumGroups + 1} /\ gone \in BOOLEAN
  BY DEF ReconcileTypeOK, Records
<1>1. CASE Reconcile
  <2>1. ReconcileTypeOK' /\ pc' = First(cache)
    BY <1>1, NewObjectSound DEF Reconcile, ReconcileTypeOK, Goto, First, PCs, Groups
  <2>2. Records'
    BY <1>1, <2>1, QuietStep DEF Reconcile, Goto, ReconcileTypeOK
  <2> QED
    BY <2>1, <2>2 DEF Positions, First
<1>2. CASE AddFinalizer
  <2>1. [mem EXCEPT !.finalizer = TRUE] \in Object /\ Sound([mem EXCEPT !.finalizer = TRUE])
    BY <1>0 DEF Object, Sound
  <2>2. Types /\ pc' = "idle"
    BY <1>2, <1>0, <2>1, WriteStep DEF AddFinalizer, rest, PCs
  <2> QED
    BY <2>2 DEF Positions
<1>3. CASE MarkInProgress
  <2>1. Types /\ pc' \in {"init", "idle"}
    BY <1>3, <1>0, StatusEdit, WriteStep DEF MarkInProgress, rest, PCs
  <2> QED
    BY <2>1 DEF Positions
<1>4. CASE InitGroups
  <2> DEFINE e == [mem EXCEPT !.group = [g \in Groups |-> "PENDING"]]
  <2>1. e \in Object /\ Sound(e)
    BY <1>0 DEF Object, Sound, GroupStatus
  <2>2. Types /\ pc' \in {"group", "idle"}
    BY <1>4, <1>0, <2>1, WriteStep, PlainStep DEF InitGroups, rest, PCs
  <2> QED
    BY <2>2 DEF Positions
<1>5. CASE SkipGroup
  <2>1. at + 1 \in Groups \cup {NumGroups + 1}
    BY <1>5 DEF SkipGroup, Groups
  <2>2. Types /\ pc' = "group"
    BY <1>5, <1>0, <2>1, PlainStep DEF SkipGroup, NextGroup, PCs
  <2> QED
    BY <2>2 DEF Positions
<1>6. CASE TakeGroup
  <2>1. Types /\ pc' = "mark" /\ at' \in Groups
    BY <1>6, <1>0, PlainStep DEF TakeGroup, rest, PCs
  <2> QED
    BY <2>1 DEF Positions
<1>7. CASE GroupMissing
  <2>1. ReconcileTypeOK' /\ pc' = "missing" /\ mem' = mem /\ faults' > 0 /\ at' \in Groups
    BY <1>7 DEF GroupMissing, ReconcileTypeOK, Goto, Fault, rest, PCs
  <2>2. Records'
    BY <1>7, <2>1, QuietStep DEF GroupMissing, Fault, rest, ReconcileTypeOK
  <2> QED
    BY <2>1, <2>2 DEF Positions
<1>8. CASE RecordMissing
  <2> DEFINE e == [mem EXCEPT !.group[at] = "FAILED"]
             f == [mem EXCEPT !.group[at] = "FAILED", !.status = "FAILED"]
  <2>1. at \in Groups /\ faults > 0
    BY <1>8 DEF RecordMissing, Positions
  <2>2. e \in Object /\ Sound(e)
    BY <1>0, <2>1, GroupEdit DEF GroupStatus
  <2>3. f = [e EXCEPT !.status = "FAILED"]
    BY <1>0 DEF Object
  <2>4. f \in Object /\ Sound(f)
    BY <2>1, <2>2, <2>3, StatusEdit
  <2>5. Types /\ pc' = "idle"
    BY <1>8, <1>0, <2>4, WriteStep DEF RecordMissing, rest, PCs
  <2> QED
    BY <2>5 DEF Positions
<1>9. CASE MarkGroup
  <2>1. at \in Groups
    BY <1>9 DEF MarkGroup, Positions
  <2>2. Types /\ pc' \in {"state", "idle"} /\ at' \in Groups
    BY <1>9, <1>0, <2>1, GroupEdit, WriteStep DEF MarkGroup, rest, PCs, GroupStatus
  <2> QED
    BY <2>2 DEF Positions
<1>10. CASE PublishState
  <2>1. Types /\ pc' = "tasks" /\ at' \in Groups
    BY <1>10, <1>0, WriteStep DEF PublishState, rest, PCs, Positions
  <2> QED
    BY <2>1 DEF Positions
<1>11. CASE TaskWritesCopy
  <2>1. ReconcileTypeOK'
    BY <1>11 DEF TaskWritesCopy, ReconcileTypeOK
  <2>2. Records'
    BY <1>11, <2>1, QuietStep DEF TaskWritesCopy, ReconcileTypeOK
  <2> QED
    BY <1>11, <2>1, <2>2 DEF TaskWritesCopy, Positions
<1>12. CASE WorkflowSucceeds
  <2>1. at \in Groups /\ faults' \in 0 .. MaxFaults /\ faults <= faults'
    BY <1>12 DEF WorkflowSucceeds, TasksDone, Positions, Fault, NoFault, ReconcileTypeOK
  <2>2. ReconcileTypeOK'
    BY <1>12, <2>1 DEF WorkflowSucceeds, TasksDone, ReconcileTypeOK, PCs
  <2>3. Records'
    BY <1>12, <2>1, <2>2, QuietStep DEF WorkflowSucceeds, TasksDone
  <2> QED
    BY <1>12, <2>1, <2>2, <2>3 DEF WorkflowSucceeds, TasksDone, Positions
<1>13. CASE WorkflowFails
  <2>1. at \in Groups /\ faults' \in 0 .. MaxFaults /\ faults <= faults'
    BY <1>13 DEF WorkflowFails, TasksDone, Positions, Fault, NoFault, ReconcileTypeOK
  <2>2. ReconcileTypeOK'
    BY <1>13, <2>1 DEF WorkflowFails, TasksDone, ReconcileTypeOK, PCs
  <2>3. Records'
    BY <1>13, <2>1, <2>2, QuietStep DEF WorkflowFails, TasksDone
  <2> QED
    BY <1>13, <2>1, <2>2, <2>3 DEF WorkflowFails, TasksDone, Positions
<1>14. CASE PublishLost
  <2>1. Types /\ pc' = "lostStatus" /\ at' \in Groups /\ lost' # {}
    BY <1>14, <1>0, WriteStep DEF PublishLost, rest, PCs, Positions
  <2> QED
    BY <2>1 DEF Positions
<1>15. CASE RecordLostStatus
  <2>1. Types /\ pc' = "lostGroup" /\ at' \in Groups
    BY <1>15, <1>0, StatusEdit, WriteStep DEF RecordLostStatus, rest, PCs, Positions
  <2> QED
    BY <2>1 DEF Positions
<1>16. CASE RecordLostGroup
  <2>1. at \in Groups
    BY <1>16 DEF RecordLostGroup, Positions
  <2>2. Types /\ pc' = "idle"
    BY <1>16, <1>0, <2>1, GroupEdit, WriteStep DEF RecordLostGroup, rest, PCs, GroupStatus
  <2> QED
    BY <2>2 DEF Positions
<1>17. CASE PublishWon
  <2>1. Types /\ pc' = "wonStatus" /\ at' \in Groups /\ at' \in won'
    BY <1>17, <1>0, WriteStep DEF PublishWon, rest, PCs, Positions
  <2> QED
    BY <2>1 DEF Positions
<1>18. CASE RecordWonStatus
  <2>1. at \in Groups /\ at \in won
    BY <1>18 DEF RecordWonStatus, Positions
  <2>2. Types /\ pc' \in {"wonGroup", "lostGroup"}
    BY <1>18, <1>0, <2>1, StatusEdit, WriteStep DEF RecordWonStatus, rest, PCs
  <2> QED
    BY <1>18, <2>1, <2>2 DEF RecordWonStatus, rest, Positions
<1>19. CASE RecordWonGroup
  <2>1. at \in Groups /\ at \in won /\ at + 1 \in Groups \cup {NumGroups + 1}
    BY <1>19 DEF RecordWonGroup, Positions, Groups
  <2>2. Types /\ pc' \in {"group", "idle"}
    BY <1>19, <1>0, <2>1, GroupEdit, WriteStep DEF RecordWonGroup, NextGroup, PCs, GroupStatus
  <2> QED
    BY <2>2 DEF Positions
<1>20. CASE RecordOverall
  <2>1. CASE Step("idle")
    <3>1. Types /\ pc' = "idle"
      BY <1>20, <2>1, <1>0, PlainStep DEF RecordOverall, rest, PCs
    <3> QED
      BY <3>1 DEF Positions
  <2>2. CASE /\ \A g \in Groups : mem.group[g] = "SUCCESS"
             /\ Write([mem EXCEPT !.status = "SUCCESS"], "idle", "idle")
    <3>1. won # {}
      (* there is a first group, and what is recorded of it is true        *)
      <4>1. 1 \in Groups
        BY DEF Groups
      <4> QED
        BY <4>1, <2>2, <1>0 DEF Sound
    <3>2. Types /\ pc' = "idle"
      BY <1>20, <2>2, <3>1, <1>0, StatusEdit, WriteStep DEF RecordOverall, rest, PCs
    <3> QED
      BY <3>2 DEF Positions
  <2> QED
    BY <1>20, <2>1, <2>2 DEF RecordOverall
<1>21. CASE CleanUpLocks
  <2>1. Types /\ pc' = "remove"
    BY <1>21, <1>0, PlainStep DEF CleanUpLocks, rest, PCs
  <2> QED
    BY <2>1 DEF Positions
<1>22. CASE RemoveFinalizer
  <2>1. [mem EXCEPT !.finalizer = FALSE] \in Object /\ Sound([mem EXCEPT !.finalizer = FALSE])
    BY <1>0 DEF Object, Sound
  <2>2. gone' \in BOOLEAN
    BY <1>22 DEF RemoveFinalizer
  <2>3. Types /\ pc' = "idle"
    BY <1>22, <1>0, <2>1, <2>2, WriteStep DEF RemoveFinalizer, PCs
  <2> QED
    BY <2>3 DEF Positions
<1>23. CASE Delete
  <2>1. stored' \in Object /\ gone' \in BOOLEAN
    BY <1>23, <1>0 DEF Delete, Object
  <2>2. ReconcileTypeOK'
    BY <1>23, <2>1 DEF Delete, ReconcileTypeOK
  <2>3. Records'
    BY <1>23, <2>2, QuietStep DEF Delete, ReconcileTypeOK
  <2> QED
    BY <1>23, <2>2, <2>3 DEF Delete, Positions
<1>24. CASE CacheSync
  <2>1. ReconcileTypeOK'
    BY <1>24 DEF CacheSync, ReconcileTypeOK
  <2>2. Records'
    BY <1>24, <2>1, QuietStep DEF CacheSync, ReconcileTypeOK
  <2> QED
    BY <1>24, <2>1, <2>2 DEF CacheSync, Positions
<1>25. CASE LeaseExpires
  <2>1. ReconcileTypeOK'
    BY <1>25 DEF LeaseExpires, ReconcileTypeOK
  <2>2. Records'
    BY <1>25, <2>1, QuietStep DEF LeaseExpires, ReconcileTypeOK
  <2> QED
    BY <1>25, <2>1, <2>2 DEF LeaseExpires, Positions
<1>26. CASE Crash
  <2>1. locked' \subseteq Groups
    BY <1>26 DEF Crash, ReconcileTypeOK
  <2>2. pc' = "idle" /\ mem' = NewObject /\ faults' \in 0 .. MaxFaults /\ faults <= faults'
    BY <1>26 DEF Crash, ReconcileTypeOK, Goto, Fault
  <2>3. ReconcileTypeOK'
    BY <1>26, <2>1, <2>2, NewObjectSound DEF Crash, ReconcileTypeOK, PCs
  <2>4. Records'
    BY <1>26, <2>2, <2>3, QuietStep DEF Crash, ReconcileTypeOK
  <2> QED
    BY <2>2, <2>3, <2>4 DEF Positions
<1>27. CASE UNCHANGED vars
  <2>1. ReconcileTypeOK'
    BY <1>27 DEF vars, ReconcileTypeOK
  <2>2. Records'
    BY <1>27, <2>1, QuietStep DEF vars, ReconcileTypeOK
  <2> QED
    BY <1>27, <2>1, <2>2 DEF vars, Positions
<1> QED
  BY <1>1, <1>2, <1>3, <1>4, <1>5, <1>6, <1>7, <1>8, <1>9, <1>10, <1>11, <1>12,
     <1>13, <1>14, <1>15, <1>16, <1>17, <1>18, <1>19, <1>20, <1>21, <1>22, <1>23,
     <1>24, <1>25, <1>26, <1>27
  DEF Next, Controller

(* The three copies of the Failover are sound, wherever Reconcile is.      *)
THEOREM ReconcileInvariant == Spec => []ReconcileInv
  BY ReconcileInitInv, ReconcileNextInv, PTL DEF Spec

(* Every state of Reconcile and of the object is of the declared types.    *)
THEOREM ReconcileTypeCorrect == Spec => []ReconcileTypeOK
<1>1. ReconcileInv => ReconcileTypeOK
  BY DEF ReconcileInv
<1> QED
  BY <1>1, ReconcileInvariant, PTL

(* ProcessFailover and Reconcile record no group as failed over whose      *)
(* workflow did not succeed, with any lag of the cache.                    *)
THEOREM RecordsAreTrue == Spec => []RecordedMeansWon
<1>1. ReconcileInv => RecordedMeansWon
  BY DEF ReconcileInv, Records, Sound, RecordedMeansWon
<1> QED
  BY <1>1, ReconcileInvariant, PTL

(* The status of the whole Failover is SUCCESS only if a group has moved   *)
(* and FAILED only if a workflow or a request has failed.                  *)
THEOREM StatusHasReason == Spec => []OverallHasReason
<1>1. ReconcileInv => OverallHasReason
  BY DEF ReconcileInv, Records, Sound, OverallHasReason
<1> QED
  BY <1>1, ReconcileInvariant, PTL

----------------------------------------------------------------------------
(* An outcome stays because every group from the one that Reconcile is at  *)
(* on is undecided: it never begins with an object that has an outcome,    *)
(* and the status of the whole tells whether there is one.                 *)
Outcomes == {"SUCCESS", "FAILED"}

(* A copy that is up to date has the outcomes that are stored.             *)
Fresh ==
  /\ cacheFresh => cache = stored
  /\ memFresh => mem.group = stored.group

StatusTells(obj) ==
  (\E g \in Groups : obj.group[g] \in Outcomes) => obj.status \in Outcomes

Undecided ==
  /\ pc \in {"begin", "init"} => at = 1
  /\ pc \in {"begin", "init", "group", "mark", "state", "tasks", "lostState",
             "lostStatus", "lostGroup", "wonState", "wonStatus", "wonGroup",
             "missing"}
       => \A g \in Groups : g >= at => mem.group[g] \notin Outcomes
  /\ pc \in {"lostGroup", "wonGroup"} => mem.status \in Outcomes

OutcomeInv ==
  /\ ReconcileInv
  /\ Fresh
  /\ StatusTells(stored) /\ StatusTells(cache) /\ StatusTells(mem)
  /\ Undecided

OutcomesKept ==
  \A g \in Groups : stored.group[g] \in Outcomes => stored'.group[g] = stored.group[g]

(* What a step keeps but for Undecided.                                    *)
OutcomeStep ==
  /\ OutcomesKept
  /\ Fresh'
  /\ StatusTells(stored)' /\ StatusTells(cache)' /\ StatusTells(mem)'

LEMMA NewObjectUndecided ==
  StatusTells(NewObject) /\ \A g \in Groups : NewObject.group[g] \notin Outcomes
  BY DEF NewObject, StatusTells, Outcomes

(* A write may change the undecided groups only, and a copy whose write    *)
(* was refused is given up if it changed one.                              *)
LEMMA OutcomeWrite ==
  ASSUME OutcomeInv, NEW obj \in Object, NEW next \in PCs, NEW onError \in PCs,
         Write(obj, next, onError), cache' = cache, StatusTells(obj),
         onError = "idle" \/ obj.group = mem.group,
         \A g \in Groups : mem.group[g] \in Outcomes => obj.group[g] = mem.group[g]
  PROVE  OutcomeStep /\ mem' = IF pc' = "idle" THEN NewObject ELSE obj
<1> USE DEF OutcomeInv
<1>1. mem' = IF pc' = "idle" THEN NewObject ELSE obj
  BY DEF Write, Goto
<1>2. StatusTells(mem')
  BY <1>1, NewObjectUndecided
<1>3. CASE memFresh /\ stored' = obj /\ ~cacheFresh' /\ (memFresh' => pc' = next /\ next # "idle")
  <2>1. OutcomesKept
    BY <1>3 DEF Fresh, OutcomesKept
  <2> QED
    BY <1>1, <1>2, <1>3, <2>1 DEF OutcomeStep, Fresh, StatusTells
<1>4. CASE UNCHANGED <<stored, cacheFresh>> /\ pc' = onError /\ memFresh' = (memFresh /\ onError # "idle")
  <2>1. Fresh'
    BY <1>1, <1>4 DEF Fresh
  <2> QED
    BY <1>1, <1>2, <1>4, <2>1 DEF OutcomeStep, OutcomesKept, StatusTells
<1> QED
  BY <1>1, <1>3, <1>4 DEF Write, Goto

LEMMA OutcomePlain ==
  ASSUME OutcomeInv, NEW label \in PCs, Step(label), cache' = cache
  PROVE  OutcomeStep /\ mem' = IF pc' = "idle" THEN NewObject ELSE mem
<1> USE DEF OutcomeInv
<1>1. mem' = IF pc' = "idle" THEN NewObject ELSE mem
  BY DEF Step, Goto
<1>2. StatusTells(mem')
  BY <1>1, NewObjectUndecided
<1>3. Fresh'
  BY <1>1 DEF Fresh, Step, Goto
<1> QED
  BY <1>1, <1>2, <1>3 DEF OutcomeStep, OutcomesKept, StatusTells, Step

LEMMA OutcomeInit == Init => OutcomeInv
<1> SUFFICES ASSUME Init PROVE OutcomeInv
  OBVIOUS
<1>1. ReconcileInv
  BY ReconcileInitInv
<1>2. StatusTells(stored) /\ StatusTells(cache) /\ StatusTells(mem)
  BY NewObjectUndecided DEF Init
<1> QED
  BY <1>1, <1>2 DEF Init, OutcomeInv, Fresh, Undecided

LEMMA OutcomeNext == OutcomeInv /\ [Next]_vars => OutcomesKept /\ OutcomeInv'
<1> SUFFICES ASSUME OutcomeInv, [Next]_vars PROVE OutcomeStep /\ Undecided'
  BY ReconcileNextInv DEF OutcomeInv, OutcomeStep
<1> USE DEF OutcomeInv
<1>0. /\ stored \in Object /\ mem \in Object /\ cache \in Object
      /\ at \in Groups \cup {NumGroups + 1} /\ at \in Int /\ Groups \subseteq Int
      /\ \A g \in Groups : g >= 1
  BY FailoverReconcileAssumption DEF ReconcileInv, ReconcileTypeOK, Groups
<1>1. CASE Reconcile
  <2>1. mem' = cache /\ pc' = First(cache) /\ pc' # "idle" /\ at' = 1
    BY <1>1 DEF Reconcile, Goto
  <2>2. OutcomeStep
    BY <1>1, <2>1 DEF Reconcile, OutcomeStep, OutcomesKept, Fresh, StatusTells
  <2>3. pc' \in {"begin", "init"} => cache.status \notin Outcomes
    BY <2>1 DEF First, Outcomes
  <2>4. pc' \in {"begin", "init"} => \A g \in Groups : mem'.group[g] \notin Outcomes
    BY <2>1, <2>3 DEF StatusTells
  <2>5. pc' \in {"cleanup", "finalizer", "begin", "init"}
    BY <2>1 DEF First
  <2> QED
    BY <2>1, <2>2, <2>4, <2>5 DEF Undecided
<1>2. CASE AddFinalizer
  <2> DEFINE e == [mem EXCEPT !.finalizer = TRUE]
  <2>1. e \in Object /\ e.group = mem.group /\ e.status = mem.status
    BY <1>0 DEF Object
  <2>2. StatusTells(e)
    BY <2>1 DEF StatusTells
  <2>3. OutcomeStep
    BY <1>2, <2>1, <2>2, OutcomeWrite DEF AddFinalizer, rest, PCs
  <2>4. pc' = "idle"
    BY <1>2 DEF AddFinalizer, Write, Goto
  <2> QED
    BY <2>3, <2>4 DEF Undecided
<1>3. CASE MarkInProgress
  <2> DEFINE e == [mem EXCEPT !.status = "IN_PROGRESS"]
  <2>1. e \in Object /\ e.group = mem.group
    BY <1>0 DEF Object
  <2>2. at = 1 /\ \A g \in Groups : mem.group[g] \notin Outcomes
    BY <1>3, <1>0 DEF MarkInProgress, Undecided
  <2>3. StatusTells(e)
    BY <2>1, <2>2 DEF StatusTells
  <2>4. OutcomeStep /\ mem' = IF pc' = "idle" THEN NewObject ELSE e
    BY <1>3, <2>1, <2>3, OutcomeWrite DEF MarkInProgress, rest, PCs
  <2>5. pc' \in {"init", "idle"} /\ at' = at
    BY <1>3 DEF MarkInProgress, Write, Goto, rest
  <2> QED
    BY <2>1, <2>2, <2>4, <2>5 DEF Undecided
<1>4. CASE InitGroups
  <2> DEFINE e == [mem EXCEPT !.group = [g \in Groups |-> "PENDING"]]
  <2>1. at = 1 /\ \A g \in Groups : mem.group[g] \notin Outcomes
    BY <1>4, <1>0 DEF InitGroups, Undecided
  <2>2. e \in Object /\ \A g \in Groups : e.group[g] \notin Outcomes
    BY <1>0 DEF Object, GroupStatus, Outcomes
  <2>3. StatusTells(e)
    BY <2>2 DEF StatusTells
  <2>4. CASE Write(e, "group", "idle")
    <3>1. OutcomeStep /\ mem' = IF pc' = "idle" THEN NewObject ELSE e
      BY <1>4, <2>1, <2>2, <2>3, <2>4, OutcomeWrite DEF InitGroups, rest, PCs
    <3>2. pc' \in {"group", "idle"} /\ at' = at
      BY <1>4, <2>4 DEF InitGroups, Write, Goto, rest
    <3> QED
      BY <2>1, <2>2, <3>1, <3>2 DEF Undecided
  <2>5. CASE Step("group")
    <3>1. OutcomeStep /\ mem' = mem /\ pc' = "group" /\ at' = at
      BY <1>4, <2>5, OutcomePlain DEF InitGroups, Step, Goto, rest, PCs
    <3> QED
      BY <2>1, <3>1 DEF Undecided
  <2> QED
    BY <1>4, <2>4, <2>5 DEF InitGroups
<1>5. CASE SkipGroup
  <2>1. OutcomeStep /\ mem' = mem /\ pc' = "group" /\ at' = at + 1
    BY <1>5, OutcomePlain DEF SkipGroup, NextGroup, Step, Goto, PCs
  <2>2. \A g \in Groups : g >= at + 1 => mem.group[g] \notin Outcomes
    BY <1>5, <1>0 DEF SkipGroup, Undecided
  <2> QED
    BY <2>1, <2>2 DEF Undecided
<1>6. CASE TakeGroup
  <2>1. OutcomeStep /\ mem' = mem /\ pc' = "mark" /\ at' = at
    BY <1>6, OutcomePlain DEF TakeGroup, Step, Goto, rest, PCs
  <2> QED
    BY <1>6, <2>1 DEF TakeGroup, Undecided
<1>7. CASE GroupMissing
  <2>1. OutcomeStep /\ mem' = mem /\ pc' = "missing" /\ at' = at
    BY <1>7 DEF GroupMissing, Goto, rest, OutcomeStep, OutcomesKept, Fresh
  <2> QED
    BY <1>7, <2>1 DEF GroupMissing, Undecided
<1>8. CASE RecordMissing
  <2> DEFINE f == [mem EXCEPT !.group[at] = "FAILED", !.status = "FAILED"]
  <2>1. at \in Groups /\ mem.group[at] \notin Outcomes
    BY <1>8, <1>0 DEF RecordMissing, Undecided, ReconcileInv, Positions
  <2>2. /\ f \in Object /\ StatusTells(f)
        /\ \A g \in Groups \ {at} : f.group[g] = mem.group[g]
    BY <1>0, <2>1 DEF Object, GroupStatus, StatusTells, Outcomes
  <2>3. OutcomeStep /\ pc' = "idle"
    BY <1>8, <2>1, <2>2, OutcomeWrite DEF RecordMissing, rest, PCs, Write, Goto
  <2> QED
    BY <2>3 DEF Undecided
<1>9. CASE MarkGroup
  <2> DEFINE e == [mem EXCEPT !.group[at] = "IN_PROGRESS"]
  <2>1. at \in Groups /\ \A g \in Groups : g >= at => mem.group[g] \notin Outcomes
    BY <1>9 DEF MarkGroup, Undecided, ReconcileInv, Positions
  <2>2. /\ e \in Object /\ e.status = mem.status
        /\ \A g \in Groups : e.group[g] = IF g = at THEN "IN_PROGRESS" ELSE mem.group[g]
    BY <1>0, <2>1 DEF Object, GroupStatus
  <2>3. StatusTells(e) /\ mem.group[at] \notin Outcomes
    BY <1>0, <2>1, <2>2 DEF StatusTells, Outcomes
  <2>4. OutcomeStep /\ mem' = IF pc' = "idle" THEN NewObject ELSE e
    BY <1>9, <2>1, <2>2, <2>3, OutcomeWrite DEF MarkGroup, rest, PCs
  <2>5. pc' \in {"state", "idle"} /\ at' = at
    BY <1>9 DEF MarkGroup, Write, Goto, rest
  <2> QED
    BY <2>1, <2>2, <2>4, <2>5 DEF Undecided, Outcomes
<1>10. CASE PublishState \/ PublishLost \/ PublishWon
  <2>1. PICK next \in PCs : Write(mem, next, next) /\ pc' = next /\ at' = at /\ cache' = cache
    BY <1>10 DEF PublishState, PublishLost, PublishWon, Write, Goto, rest, PCs
  <2>2. OutcomeStep /\ mem' = IF pc' = "idle" THEN NewObject ELSE mem
    BY <1>0, <2>1, OutcomeWrite
  <2>3. pc \in {"state", "lostState", "wonState"} /\ pc' \in {"tasks", "lostStatus", "wonStatus"}
    BY <1>10 DEF PublishState, PublishLost, PublishWon, Write, Goto
  <2> QED
    BY <2>1, <2>2, <2>3 DEF Undecided
<1>11. CASE TaskWritesCopy \/ WorkflowSucceeds \/ WorkflowFails
  <2>1. /\ UNCHANGED <<stored, cache, mem, at>>
        /\ pc = "tasks" /\ pc' \in {"tasks", "wonState", "lostState"}
        /\ cacheFresh' => cacheFresh
        /\ memFresh' => memFresh
    BY <1>11 DEF TaskWritesCopy, WorkflowSucceeds, WorkflowFails, TasksDone
  <2>2. OutcomeStep
    BY <2>1 DEF OutcomeStep, OutcomesKept, Fresh
  <2> QED
    BY <2>1, <2>2 DEF Undecided
<1>12. CASE RecordLostStatus
  <2> DEFINE e == [mem EXCEPT !.status = "FAILED"]
  <2>1. e \in Object /\ e.group = mem.group /\ e.status \in Outcomes
    BY <1>0 DEF Object, Outcomes
  <2>2. StatusTells(e)
    BY <2>1 DEF StatusTells
  <2>3. OutcomeStep /\ mem' = IF pc' = "idle" THEN NewObject ELSE e
    BY <1>12, <2>1, <2>2, OutcomeWrite DEF RecordLostStatus, rest, PCs
  <2>4. pc = "lostStatus" /\ pc' = "lostGroup" /\ at' = at
    BY <1>12 DEF RecordLostStatus, Write, Goto, rest
  <2> QED
    BY <2>1, <2>3, <2>4 DEF Undecided
<1>13. CASE RecordWonStatus
  <2> DEFINE e == [mem EXCEPT !.status = "SUCCESS"]
  <2>1. e \in Object /\ e.group = mem.group /\ e.status \in Outcomes
    BY <1>0 DEF Object, Outcomes
  <2>2. StatusTells(e)
    BY <2>1 DEF StatusTells
  <2>3. OutcomeStep /\ mem' = IF pc' = "idle" THEN NewObject ELSE e
    BY <1>13, <2>1, <2>2, OutcomeWrite DEF RecordWonStatus, rest, PCs
  <2>4. pc = "wonStatus" /\ pc' \in {"wonGroup", "lostGroup"} /\ at' = at
    BY <1>13 DEF RecordWonStatus, Write, Goto, rest
  <2> QED
    BY <2>1, <2>3, <2>4 DEF Undecided
<1>14. CASE RecordLostGroup
  <2> DEFINE e == [mem EXCEPT !.group[at] = "FAILED"]
  <2>1. at \in Groups /\ mem.group[at] \notin Outcomes /\ mem.status \in Outcomes
    BY <1>14, <1>0 DEF RecordLostGroup, Undecided, ReconcileInv, Positions
  <2>2. /\ e \in Object /\ e.status = mem.status
        /\ \A g \in Groups \ {at} : e.group[g] = mem.group[g]
    BY <1>0, <2>1 DEF Object, GroupStatus
  <2>3. StatusTells(e)
    BY <2>1, <2>2 DEF StatusTells
  <2>4. OutcomeStep /\ pc' = "idle"
    BY <1>14, <2>1, <2>2, <2>3, OutcomeWrite DEF RecordLostGroup, rest, PCs, Write, Goto
  <2> QED
    BY <2>4 DEF Undecided
<1>15. CASE RecordWonGroup
  <2> DEFINE e == [mem EXCEPT !.group[at] = "SUCCESS"]
  <2>1. /\ at \in Groups /\ mem.group[at] \notin Outcomes /\ mem.status \in Outcomes
        /\ \A g \in Groups : g >= at => mem.group[g] \notin Outcomes
    BY <1>15, <1>0 DEF RecordWonGroup, Undecided, ReconcileInv, Positions
  <2>2. /\ e \in Object /\ e.status = mem.status
        /\ \A g \in Groups \ {at} : e.group[g] = mem.group[g]
    BY <1>0, <2>1 DEF Object, GroupStatus
  <2>3. StatusTells(e)
    BY <2>1, <2>2 DEF StatusTells
  <2>4. OutcomeStep /\ mem' = IF pc' = "idle" THEN NewObject ELSE e
    BY <1>15, <2>1, <2>2, <2>3, OutcomeWrite DEF RecordWonGroup, NextGroup, PCs
  <2>5. pc' \in {"group", "idle"} /\ at' = at + 1
    BY <1>15 DEF RecordWonGroup, Write, Goto, NextGroup
  <2>6. \A g \in Groups : g >= at + 1 => g # at /\ g >= at
    BY <1>0
  <2> QED
    BY <2>1, <2>2, <2>4, <2>5, <2>6 DEF Undecided
<1>16. CASE RecordOverall
  <2> DEFINE e == [mem EXCEPT !.status = "SUCCESS"]
  <2>1. e \in Object /\ e.group = mem.group /\ e.status \in Outcomes
    BY <1>0 DEF Object, Outcomes
  <2>2. StatusTells(e)
    BY <2>1 DEF StatusTells
  <2>3. OutcomeStep /\ pc' = "idle"
    BY <1>16, <2>1, <2>2, OutcomeWrite, OutcomePlain
    DEF RecordOverall, rest, PCs, Write, Step, Goto
  <2> QED
    BY <2>3 DEF Undecided
<1>17. CASE CleanUpLocks
  <2>1. OutcomeStep /\ pc' = "remove"
    BY <1>17, OutcomePlain DEF CleanUpLocks, Step, Goto, rest, PCs
  <2> QED
    BY <2>1 DEF Undecided
<1>18. CASE RemoveFinalizer
  <2> DEFINE e == [mem EXCEPT !.finalizer = FALSE]
  <2>1. e \in Object /\ e.group = mem.group /\ e.status = mem.status
    BY <1>0 DEF Object
  <2>2. StatusTells(e)
    BY <2>1 DEF StatusTells
  <2>3. OutcomeStep /\ pc' = "idle"
    BY <1>18, <2>1, <2>2, OutcomeWrite DEF RemoveFinalizer, PCs, Write, Goto
  <2> QED
    BY <2>3 DEF Undecided
<1>19. CASE Delete
  <2>1. /\ stored'.group = stored.group /\ stored'.status = stored.status
        /\ ~cacheFresh' /\ ~memFresh' /\ UNCHANGED <<cache, mem, pc, at>>
    BY <1>19, <1>0 DEF Delete, Object
  <2> QED
    BY <2>1 DEF OutcomeStep, OutcomesKept, Fresh, StatusTells, Undecided
<1>20. CASE CacheSync
  <2>1. cache' = stored /\ UNCHANGED <<stored, mem, memFresh, pc, at>>
    BY <1>20 DEF CacheSync
  <2> QED
    BY <2>1 DEF OutcomeStep, OutcomesKept, Fresh, StatusTells, Undecided
<1>21. CASE Crash
  <2>1. mem' = NewObject /\ pc' = "idle" /\ ~memFresh' /\ UNCHANGED <<stored, cache, cacheFresh>>
    BY <1>21 DEF Crash, Goto
  <2> QED
    BY <2>1, NewObjectUndecided DEF OutcomeStep, OutcomesKept, Fresh, StatusTells, Undecided
<1>22. CASE LeaseExpires \/ UNCHANGED vars
  <2>1. UNCHANGED <<stored, cache, cacheFresh, mem, memFresh, pc, at>>
    BY <1>22 DEF LeaseExpires, vars
  <2> QED
    BY <2>1 DEF OutcomeStep, OutcomesKept, Fresh, StatusTells, Undecided
<1> QED
  BY <1>1, <1>2, <1>3, <1>4, <1>5, <1>6, <1>7, <1>8, <1>9, <1>10, <1>11, <1>12,
     <1>13, <1>14, <1>15, <1>16, <1>17, <1>18, <1>19, <1>20, <1>21, <1>22
  DEF Next, Controller

(* What is stored as the outcome of a group stays, although Reconcile      *)
(* reads a cache that lags behind, writes from a copy in memory, and is    *)
(* repeated after every error and crash.                                   *)
THEOREM OutcomesStay == Spec => OutcomeStays
<1>1. OutcomeInv /\ [Next]_vars => [OutcomesKept]_vars
  BY OutcomeNext
<1>2. OutcomeInv /\ [Next]_vars => OutcomeInv'
  BY OutcomeNext
<1>3. Spec => [][OutcomesKept]_vars
  BY <1>1, <1>2, OutcomeInit, PTL DEF Spec
<1>4. OutcomesKept <=>
        \A g \in Groups : stored.group[g] \in {"SUCCESS", "FAILED"} =>
          stored'.group[g] = stored.group[g]
  BY DEF OutcomesKept, Outcomes
<1> QED
  BY <1>3, <1>4, PTL DEF OutcomeStays

----------------------------------------------------------------------------
(* The status of the whole stays because a copy that is up to date never   *)
(* lags behind what is stored, and a Reconcile that is at work has not     *)
(* begun with a status that is final, or has not yet failed.               *)
Follows(obj) ==
  /\ stored.status = "FAILED" => obj.status = "FAILED"
  /\ stored.status = "SUCCESS" => obj.status \in Outcomes

AtWork ==
  /\ pc = "begin" => mem.status \notin Outcomes
  /\ pc \in {"begin", "init", "group", "mark", "state", "tasks", "wonState",
             "wonStatus", "wonGroup"} => mem.status # "FAILED"

OverallInv == OutcomeInv /\ (memFresh => Follows(mem)) /\ AtWork

OverallKept == Follows(stored')

OverallStep == OverallKept /\ (memFresh => Follows(mem))'

(* A write that is taken follows the stored status, and one that is not    *)
(* leaves a copy in memory that does, or none.                             *)
LEMMA OverallWrite ==
  ASSUME OverallInv, NEW obj, NEW next, NEW onError, Write(obj, next, onError),
         memFresh => Follows(obj)
  PROVE  OverallStep /\ mem' = IF pc' = "idle" THEN NewObject ELSE obj
<1>1. mem' = IF pc' = "idle" THEN NewObject ELSE obj
  BY DEF Write, Goto
<1>2. \A o : o.status = stored'.status => Follows(o)'
  BY DEF Follows, Outcomes
<1>3. CASE memFresh /\ stored' = obj /\ (memFresh' => pc' # "idle")
  BY <1>1, <1>2, <1>3 DEF OverallStep, OverallKept
<1>4. CASE stored' = stored /\ (memFresh' => memFresh /\ pc' # "idle")
  BY <1>1, <1>4 DEF OverallStep, OverallKept, Follows, Outcomes
<1> QED
  BY <1>1, <1>3, <1>4 DEF Write, Goto

LEMMA OverallNext == OverallInv /\ [Next]_vars => OverallKept /\ OverallInv'
<1> SUFFICES ASSUME OverallInv, [Next]_vars PROVE OverallStep /\ AtWork'
  BY OutcomeNext DEF OverallInv, OverallStep
<1> USE DEF OverallInv
<1>0. mem \in Object /\ cache \in Object /\ stored \in Object
  BY DEF OutcomeInv, ReconcileInv, ReconcileTypeOK
<1>1. CASE Reconcile
  <2>1. mem' = cache /\ pc' = First(cache) /\ stored' = stored /\ memFresh' = cacheFresh
    BY <1>1 DEF Reconcile, Goto
  <2>2. cacheFresh => cache = stored
    BY DEF OutcomeInv, Fresh
  <2>3. OverallStep
    BY <2>1, <2>2 DEF OverallStep, OverallKept, Follows, Outcomes
  <2>4. pc' \in {"cleanup", "idle", "finalizer", "begin", "init"}
        /\ (pc' \in {"begin", "init"} => cache.status \notin Outcomes)
    BY <2>1 DEF First, Outcomes
  <2> QED
    BY <2>1, <2>3, <2>4 DEF AtWork, Outcomes
(* Writes that leave the status alone.                                     *)
<1>2. ASSUME NEW o \in Object, NEW next, NEW onError, Write(o, next, onError),
             o.status = mem.status
      PROVE  /\ OverallStep
             /\ pc' \in {next, onError}
             /\ pc' # "idle" => mem'.status = mem.status
  <2>1. memFresh => Follows(o)
    BY <1>2 DEF Follows
  <2>2. OverallStep /\ mem' = IF pc' = "idle" THEN NewObject ELSE o
    BY <1>2, <2>1, OverallWrite
  <2>3. pc' \in {next, onError}
    BY <1>2 DEF Write, Goto
  <2> QED
    BY <1>2, <2>2, <2>3
<1>3. ASSUME NEW label, Step(label)
      PROVE  OverallStep /\ pc' = label /\ (pc' # "idle" => mem' = mem)
  BY <1>3 DEF Step, Goto, OverallStep, OverallKept, Follows, Outcomes
<1>4. CASE AddFinalizer \/ RemoveFinalizer
  <2>1. \A b \in BOOLEAN : /\ [mem EXCEPT !.finalizer = b] \in Object
                           /\ [mem EXCEPT !.finalizer = b].status = mem.status
    BY <1>0 DEF Object
  <2>2. OverallStep /\ pc' = "idle"
    BY <1>2, <1>4, <2>1 DEF AddFinalizer, RemoveFinalizer
  <2> QED
    BY <2>2 DEF AtWork
<1>5. CASE MarkInProgress
  <2> DEFINE e == [mem EXCEPT !.status = "IN_PROGRESS"]
  <2>1. e.status = "IN_PROGRESS"
    BY <1>0 DEF Object
  <2>2. memFresh => Follows(e)
    BY <1>5 DEF MarkInProgress, AtWork, Follows, Outcomes
  <2>3. OverallStep /\ mem' = IF pc' = "idle" THEN NewObject ELSE e
    BY <1>5, <2>2, OverallWrite DEF MarkInProgress
  <2>4. pc' \in {"init", "idle"}
    BY <1>5 DEF MarkInProgress, Write, Goto
  <2> QED
    BY <2>1, <2>3, <2>4 DEF AtWork
<1>6. CASE InitGroups
  <2> DEFINE e == [mem EXCEPT !.group = [g \in Groups |-> "PENDING"]]
  <2>1. e \in Object /\ e.status = mem.status
    BY <1>0 DEF Object, GroupStatus
  <2>2. OverallStep /\ pc' \in {"group", "idle"} /\ (pc' # "idle" => mem'.status = mem.status)
    BY <1>2, <1>3, <1>6, <2>1 DEF InitGroups
  <2> QED
    BY <1>6, <2>2 DEF AtWork, InitGroups
<1>7. CASE SkipGroup \/ TakeGroup \/ CleanUpLocks
  <2>1. /\ OverallStep /\ pc' \in {"group", "mark", "remove"} /\ mem' = mem
        /\ pc' # "remove" => pc = "group"
    BY <1>3, <1>7 DEF SkipGroup, TakeGroup, CleanUpLocks
  <2> QED
    BY <2>1 DEF AtWork
<1>8. CASE GroupMissing
  <2>1. pc' = "missing" /\ UNCHANGED <<stored, mem, memFresh>>
    BY <1>8 DEF GroupMissing, Goto
  <2> QED
    BY <2>1 DEF AtWork, OverallStep, OverallKept, Follows, Outcomes
<1>9. CASE RecordMissing
  <2> DEFINE e == [mem EXCEPT !.group[at] = "FAILED", !.status = "FAILED"]
  <2>1. e.status = "FAILED"
    BY <1>0 DEF Object
  <2>2. Follows(e)
    BY <2>1 DEF Follows, Outcomes
  <2>3. OverallStep /\ pc' = "idle"
    BY <1>9, <2>2, OverallWrite DEF RecordMissing, Write, Goto
  <2> QED
    BY <2>3 DEF AtWork
<1>10. CASE MarkGroup \/ RecordLostGroup \/ RecordWonGroup
  <2>1. at \in Groups
    BY <1>10 DEF MarkGroup, RecordLostGroup, RecordWonGroup, OutcomeInv, ReconcileInv, Positions
  <2>2. \A s \in GroupStatus : /\ [mem EXCEPT !.group[at] = s] \in Object
                               /\ [mem EXCEPT !.group[at] = s].status = mem.status
    BY <1>0, <2>1 DEF Object
  <2>3. /\ OverallStep /\ pc' \in {"state", "idle", "group"}
        /\ pc' # "idle" => mem'.status = mem.status /\ pc \in {"mark", "wonGroup"}
    BY <1>2, <1>10, <2>2 DEF MarkGroup, RecordLostGroup, RecordWonGroup, GroupStatus
  <2> QED
    BY <2>3 DEF AtWork
<1>11. CASE PublishState \/ PublishLost \/ PublishWon
  <2>1. /\ OverallStep /\ pc' \in {"tasks", "lostStatus", "wonStatus"}
        /\ mem'.status = mem.status
        /\ pc' # "lostStatus" => pc \in {"state", "wonState"}
    BY <1>0, <1>2, <1>11 DEF PublishState, PublishLost, PublishWon
  <2> QED
    BY <2>1 DEF AtWork
<1>12. CASE TaskWritesCopy \/ WorkflowSucceeds \/ WorkflowFails
  <2>1. /\ UNCHANGED <<stored, mem>> /\ (memFresh' => memFresh)
        /\ pc = "tasks" /\ pc' \in {"tasks", "wonState", "lostState"}
    BY <1>12 DEF TaskWritesCopy, WorkflowSucceeds, WorkflowFails, TasksDone
  <2> QED
    BY <2>1 DEF AtWork, OverallStep, OverallKept, Follows, Outcomes
<1>13. CASE RecordLostStatus
  <2> DEFINE e == [mem EXCEPT !.status = "FAILED"]
  <2>1. e.status = "FAILED"
    BY <1>0 DEF Object
  <2>2. Follows(e)
    BY <2>1 DEF Follows, Outcomes
  <2>3. OverallStep /\ pc' = "lostGroup"
    BY <1>13, <2>2, OverallWrite DEF RecordLostStatus, Write, Goto
  <2> QED
    BY <2>3 DEF AtWork
<1>14. CASE RecordWonStatus \/ (RecordOverall /\ ~Step("idle"))
  <2> DEFINE e == [mem EXCEPT !.status = "SUCCESS"]
  <2>1. e.status = "SUCCESS"
    BY <1>0 DEF Object
  <2>2. mem.status # "FAILED"
    BY <1>14 DEF RecordWonStatus, RecordOverall, AtWork
  <2>3. memFresh => Follows(e)
    BY <2>1, <2>2 DEF Follows, Outcomes
  <2>4. /\ OverallStep /\ mem' = IF pc' = "idle" THEN NewObject ELSE e
        /\ pc' \in {"wonGroup", "lostGroup", "idle"}
    BY <1>14, <2>3, OverallWrite DEF RecordWonStatus, RecordOverall, Write, Goto
  <2> QED
    BY <2>1, <2>4 DEF AtWork
<1>15. CASE RecordOverall /\ Step("idle")
  BY <1>3, <1>15 DEF AtWork
<1>16. CASE Delete
  <2>1. stored'.status = stored.status /\ ~memFresh' /\ UNCHANGED <<mem, pc>>
    BY <1>16, <1>0 DEF Delete, Object
  <2> QED
    BY <2>1 DEF AtWork, OverallStep, OverallKept, Follows, Outcomes
<1>17. CASE Crash
  <2>1. pc' = "idle" /\ ~memFresh' /\ stored' = stored
    BY <1>17 DEF Crash, Goto
  <2> QED
    BY <2>1 DEF AtWork, OverallStep, OverallKept, Follows, Outcomes
<1>18. CASE CacheSync \/ LeaseExpires \/ UNCHANGED vars
  <2>1. UNCHANGED <<stored, mem, memFresh, pc>>
    BY <1>18 DEF CacheSync, LeaseExpires, vars
  <2> QED
    BY <2>1 DEF AtWork, OverallStep, OverallKept, Follows, Outcomes
<1> QED
  BY <1>1, <1>4, <1>5, <1>6, <1>7, <1>8, <1>9, <1>10, <1>11, <1>12, <1>13, <1>14,
     <1>15, <1>16, <1>17, <1>18
  DEF Next, Controller

(* A Failover that has failed is not taken up again, nor one that has      *)
(* succeeded: Reconcile and ProcessFailover never write a status over a    *)
(* final one, whatever the cache, refused writes and crashes do.           *)
THEOREM OverallStaysFinal == Spec => OverallStays
<1>1. OverallInv /\ [Next]_vars => [OverallKept]_vars
  BY OverallNext
<1>2. OverallInv /\ [Next]_vars => OverallInv'
  BY OverallNext
<1>3. Init => OverallInv
  BY OutcomeInit DEF Init, OverallInv, AtWork
<1>4. Spec => [][OverallKept]_vars
  BY <1>1, <1>2, <1>3, PTL DEF Spec
<1>5. OverallKept <=>
        /\ stored.status = "FAILED" => stored'.status = "FAILED"
        /\ stored.status = "SUCCESS" => stored'.status \in {"SUCCESS", "FAILED"}
  BY DEF OverallKept, Follows, Outcomes
<1> QED
  BY <1>4, <1>5, PTL DEF OverallStays
=============================================================================
