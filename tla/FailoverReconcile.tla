------------------------- MODULE FailoverReconcile --------------------------
(***************************************************************************)
(* The life of one Failover object: FailoverReconciler.Reconcile and       *)
(* handleDeletion, with the status writes of ManagerAdapter.ProcessFailover*)
(* and of the workflow's tasks.                                            *)
(*                                                                         *)
(* The object lives in the API server (external), which refuses a write    *)
(* whose resourceVersion is not the stored one.  The reconciler reads a    *)
(* cache that lags behind, works on its copy in memory and writes the      *)
(* status many times.  Only whether a copy is up to date matters, so the   *)
(* resourceVersion is a flag per copy.  The tasks write a DeepCopy of the  *)
(* object: their success makes the reconciler's own copy outdated.         *)
(*                                                                         *)
(* What a workflow does to its group is the subject of FailoverWorkflow;   *)
(* here it succeeds or fails, and one that fails may leave its lock.       *)
(* State and Message strings, metrics and conditions are left out.         *)
(***************************************************************************)
EXTENDS Integers

CONSTANTS NumGroups,  \* the groups that the Failover names
          Mine,       \* those with the OperatorID of this operator
          MaxFaults   \* bound on the failing requests and crashes

Groups == 1 .. NumGroups

ASSUME FailoverReconcileAssumption ==
  /\ NumGroups \in Nat \ {0}
  /\ Mine \subseteq Groups
  /\ MaxFaults \in Nat

GroupStatus == {"none", "PENDING", "IN_PROGRESS", "SUCCESS", "FAILED"}
Object == [status : {"none", "IN_PROGRESS", "SUCCESS", "FAILED"},
           group : [Groups -> GroupStatus],
           finalizer : BOOLEAN,
           deleting : BOOLEAN]

NewObject == [status |-> "none", group |-> [g \in Groups |-> "none"],
              finalizer |-> FALSE, deleting |-> FALSE]

VARIABLES
  stored,      \* the object in the API server
  gone,        \* it was removed
  cache,       \* the object in the informer's cache
  cacheFresh,  \* the cache has the stored resourceVersion
  mem,         \* the object in Reconcile's memory
  memFresh,    \* Reconcile's copy has the stored resourceVersion
  pc,          \* the next step of Reconcile
  at,          \* the group that Reconcile's loop is at
  locked,      \* the groups whose lock a workflow has left behind
  faults,      \* how many requests failed and how often the operator crashed
  won, lost    \* auxiliary: the groups whose workflow succeeded, failed

vars == <<stored, gone, cache, cacheFresh, mem, memFresh, pc, at, locked,
          faults, won, lost>>

PCs == {"idle", "finalizer", "begin", "init", "group", "mark", "state", "tasks",
        "lostState", "lostStatus", "lostGroup", "wonState", "wonStatus",
        "wonGroup", "missing", "overall", "cleanup", "remove"}

ReconcileTypeOK ==
  /\ stored \in Object
  /\ cache \in Object
  /\ mem \in Object
  /\ gone \in BOOLEAN
  /\ cacheFresh \in BOOLEAN
  /\ memFresh \in BOOLEAN
  /\ pc \in PCs
  /\ at \in Groups \cup {NumGroups + 1}
  /\ locked \subseteq Groups
  /\ faults \in 0 .. MaxFaults
  /\ won \subseteq Groups
  /\ lost \subseteq Groups

Init ==
  /\ stored = NewObject
  /\ gone = FALSE
  /\ cache = NewObject
  /\ cacheFresh = TRUE
  /\ mem = NewObject
  /\ memFresh = FALSE
  /\ pc = "idle"
  /\ at = 1
  /\ locked = {}
  /\ faults = 0
  /\ won = {}
  /\ lost = {}

----------------------------------------------------------------------------
(* Writes.                                                                 *)

(* Reconcile goes to label with obj in its memory; "idle" ends it.         *)
Goto(label, obj) ==
  /\ pc' = label
  /\ mem' = IF label = "idle" THEN NewObject ELSE obj

Fault == faults < MaxFaults /\ faults' = faults + 1
NoFault == UNCHANGED faults

(* Faulty variant: a write without a resourceVersion is always taken.      *)
WriteAlways(obj, next, onError) ==
  /\ NoFault
  /\ stored' = obj
  /\ cacheFresh' = FALSE
  /\ Goto(next, obj)
  /\ memFresh' = (next # "idle")

(* The API server takes the write if the copy is up to date, and the copy  *)
(* is up to date afterwards.  A write may be lost, or only its answer.     *)
Write(obj, next, onError) ==
  \/ /\ memFresh
     /\ NoFault
     /\ stored' = obj
     /\ cacheFresh' = FALSE
     /\ Goto(next, obj)
     /\ memFresh' = (next # "idle")
  \/ /\ memFresh
     /\ Fault
     /\ stored' = obj
     /\ cacheFresh' = FALSE
     /\ Goto(onError, obj)
     /\ memFresh' = FALSE
  \/ /\ IF memFresh THEN Fault ELSE NoFault
     /\ Goto(onError, obj)
     /\ memFresh' = (memFresh /\ onError # "idle")
     /\ UNCHANGED <<stored, cacheFresh>>

Step(label) ==
  /\ Goto(label, mem)
  /\ memFresh' = (memFresh /\ label # "idle")
  /\ UNCHANGED <<stored, cacheFresh, faults>>

rest == <<gone, cache, at, locked, won, lost>>

----------------------------------------------------------------------------
(* Reconcile.                                                              *)

(* Faulty variant: a Failover that is done is left alone first.            *)
DoneFirst(obj) ==
  IF obj.status \in {"SUCCESS", "FAILED"} THEN "idle"
  ELSE IF obj.deleting THEN (IF obj.finalizer THEN "cleanup" ELSE "idle")
  ELSE IF ~obj.finalizer THEN "finalizer"
  ELSE IF obj.status # "IN_PROGRESS" THEN "begin"
  ELSE "init"

(* Faulty variant: a Failover that is done is begun again.                 *)
FirstAgain(obj) ==
  IF obj.deleting THEN (IF obj.finalizer THEN "cleanup" ELSE "idle")
  ELSE IF ~obj.finalizer THEN "finalizer"
  ELSE IF obj.status # "IN_PROGRESS" THEN "begin"
  ELSE "init"

(* The object is taken from the cache.  A Failover that has succeeded or   *)
(* failed is left alone.                                                   *)
First(obj) ==
  IF obj.deleting THEN (IF obj.finalizer THEN "cleanup" ELSE "idle")
  ELSE IF ~obj.finalizer THEN "finalizer"
  ELSE IF obj.status \in {"SUCCESS", "FAILED"} THEN "idle"
  ELSE IF obj.status # "IN_PROGRESS" THEN "begin"
  ELSE "init"

Reconcile ==
  /\ pc = "idle"
  /\ ~gone
  /\ First(cache) # "idle"
  /\ Goto(First(cache), cache)
  /\ memFresh' = cacheFresh
  /\ at' = 1
  /\ UNCHANGED <<stored, gone, cache, cacheFresh, locked, faults, won, lost>>

AddFinalizer ==
  /\ pc = "finalizer"
  /\ Write([mem EXCEPT !.finalizer = TRUE], "idle", "idle")
  /\ UNCHANGED rest

(* Faulty variant: the status of a group is written as the whole's.        *)
MarkPending ==
  /\ pc = "begin"
  /\ Write([mem EXCEPT !.status = "PENDING"], "init", "idle")
  /\ UNCHANGED rest

MarkInProgress ==
  /\ pc = "begin"
  /\ Write([mem EXCEPT !.status = "IN_PROGRESS"], "init", "idle")
  /\ UNCHANGED rest

InitGroups ==
  /\ pc = "init"
  /\ \/ /\ \A g \in Groups : mem.group[g] = "none"
        /\ Write([mem EXCEPT !.group = [g \in Groups |-> "PENDING"]], "group", "idle")
     \/ /\ \E g \in Groups : mem.group[g] # "none"
        /\ Step("group")
  /\ UNCHANGED rest

(* The loop: a group of another operator, or one that is done, is skipped. *)
Skipped(g) == g \notin Mine \/ mem.group[g] \in {"SUCCESS", "FAILED"}

NextGroup == at' = at + 1 /\ UNCHANGED <<gone, cache, locked, won, lost>>

SkipGroup ==
  /\ pc = "group"
  /\ at \in Groups
  /\ Skipped(at)
  /\ Step("group")
  /\ NextGroup

TakeGroup ==
  /\ pc = "group"
  /\ at \in Groups
  /\ ~Skipped(at)
  /\ Step("mark")
  /\ UNCHANGED rest

(* The FailoverGroup cannot be read: the Failover fails, error or not.     *)
GroupMissing ==
  /\ pc = "group"
  /\ at \in Groups
  /\ Fault
  /\ Goto("missing", mem)
  /\ UNCHANGED <<stored, cacheFresh, memFresh, rest>>

RecordMissing ==
  /\ pc = "missing"
  /\ Write([mem EXCEPT !.group[at] = "FAILED", !.status = "FAILED"], "idle", "idle")
  /\ UNCHANGED rest

MarkGroup ==
  /\ pc = "mark"
  /\ Write([mem EXCEPT !.group[at] = "IN_PROGRESS"], "state", "idle")
  /\ UNCHANGED rest

(* ProcessFailover publishes its state; an error does not matter to it.    *)
PublishState ==
  /\ pc = "state"
  /\ Write(mem, "tasks", "tasks")
  /\ UNCHANGED rest

(* UpdateFailoverState writes a DeepCopy.                                  *)
TaskWritesCopy ==
  /\ pc = "tasks"
  /\ memFresh
  /\ memFresh' = FALSE
  /\ cacheFresh' = FALSE
  /\ UNCHANGED <<stored, gone, cache, mem, pc, at, locked, faults, won, lost>>

(* The copy is not taken: the API server limits the rate, for one.         *)
TasksDone ==
  /\ pc = "tasks"
  /\ IF memFresh THEN Fault ELSE NoFault
  /\ UNCHANGED <<stored, gone, cache, cacheFresh, mem, memFresh, at>>

WorkflowSucceeds ==
  /\ TasksDone
  /\ pc' = "wonState"
  /\ won' = won \cup {at}
  /\ UNCHANGED <<locked, lost>>

(* Faulty variant: the error of the workflow is ignored.                   *)
WorkflowFailsUnseen ==
  /\ TasksDone
  /\ pc' = "wonState"
  /\ lost' = lost \cup {at}
  /\ UNCHANGED <<locked, won>>

WorkflowFails ==
  /\ TasksDone
  /\ pc' = "lostState"
  /\ lost' = lost \cup {at}
  /\ locked' \in {locked, locked \cup {at}}
  /\ UNCHANGED won

(* After a failure ProcessFailover writes the status twice and Reconcile   *)
(* once more; none of the errors is looked at.                             *)
PublishLost ==
  /\ pc = "lostState"
  /\ Write(mem, "lostStatus", "lostStatus")
  /\ UNCHANGED rest

RecordLostStatus ==
  /\ pc = "lostStatus"
  /\ Write([mem EXCEPT !.status = "FAILED"], "lostGroup", "lostGroup")
  /\ UNCHANGED rest

RecordLostGroup ==
  /\ pc = "lostGroup"
  /\ Write([mem EXCEPT !.group[at] = "FAILED"], "idle", "idle")
  /\ UNCHANGED rest

(* After a success it also sets the status of the whole Failover, and an   *)
(* error of that write counts as a failure of the group.                   *)
PublishWon ==
  /\ pc = "wonState"
  /\ Write(mem, "wonStatus", "wonStatus")
  /\ UNCHANGED rest

RecordWonStatus ==
  /\ pc = "wonStatus"
  /\ Write([mem EXCEPT !.status = "SUCCESS"], "wonGroup", "lostGroup")
  /\ UNCHANGED rest

RecordWonGroup ==
  /\ pc = "wonGroup"
  /\ Write([mem EXCEPT !.group[at] = "SUCCESS"], "group", "idle")
  /\ NextGroup

(* After the loop.                                                         *)
RecordOverall ==
  /\ pc = "group"
  /\ at \notin Groups
  /\ \/ /\ \A g \in Groups : mem.group[g] = "SUCCESS"
        /\ Write([mem EXCEPT !.status = "SUCCESS"], "idle", "idle")
     \/ /\ \E g \in Groups : mem.group[g] # "SUCCESS"
        /\ Step("idle")
  /\ UNCHANGED rest

----------------------------------------------------------------------------
(* handleDeletion.  Its ReleaseLock passes the operator ID, the namespace  *)
(* and the group's name for the namespace, the name and the lease token:   *)
(* no lock item carries such a token, and the request changes nothing.     *)
CleanUpLocks ==
  /\ pc = "cleanup"
  /\ Step("remove")
  /\ UNCHANGED rest

(* An object that is being deleted goes when its last finalizer does.      *)
RemoveFinalizer ==
  /\ pc = "remove"
  /\ Write([mem EXCEPT !.finalizer = FALSE], "idle", "idle")
  /\ gone' = (stored'.deleting /\ ~stored'.finalizer)
  /\ UNCHANGED <<cache, at, locked, won, lost>>

----------------------------------------------------------------------------
(* The environment.                                                        *)

(* A user deletes the object.  Without a finalizer it is gone at once.     *)
Delete ==
  /\ ~gone
  /\ ~stored.deleting
  /\ stored' = [stored EXCEPT !.deleting = TRUE]
  /\ gone' = ~stored.finalizer
  /\ cacheFresh' = FALSE
  /\ memFresh' = FALSE
  /\ UNCHANGED <<cache, mem, pc, at, locked, faults, won, lost>>

CacheSync ==
  /\ ~cacheFresh
  /\ cache' = stored
  /\ cacheFresh' = TRUE
  /\ UNCHANGED <<stored, gone, mem, memFresh, pc, at, locked, faults, won, lost>>

LeaseExpires ==
  /\ \E g \in locked : locked' = locked \ {g}
  /\ UNCHANGED <<stored, gone, cache, cacheFresh, mem, memFresh, pc, at, faults,
                 won, lost>>

Crash ==
  /\ Fault
  /\ pc # "idle"
  /\ Goto("idle", mem)
  /\ memFresh' = FALSE
  /\ locked' \in {locked} \cup {locked \cup {g} : g \in {h \in Groups : pc = "tasks" /\ h = at}}
  /\ UNCHANGED <<stored, gone, cache, cacheFresh, at, won, lost>>

Controller ==
  \/ Reconcile
  \/ AddFinalizer
  \/ MarkInProgress
  \/ InitGroups
  \/ SkipGroup
  \/ TakeGroup
  \/ GroupMissing
  \/ RecordMissing
  \/ MarkGroup
  \/ PublishState
  \/ TaskWritesCopy
  \/ WorkflowSucceeds
  \/ WorkflowFails
  \/ PublishLost
  \/ RecordLostStatus
  \/ RecordLostGroup
  \/ PublishWon
  \/ RecordWonStatus
  \/ RecordWonGroup
  \/ RecordOverall
  \/ CleanUpLocks
  \/ RemoveFinalizer

Next == Controller \/ Delete \/ CacheSync \/ LeaseExpires \/ Crash

Spec == Init /\ [][Next]_vars

(* The work queue retries a Reconcile until it returns no error, and the   *)
(* watch delivers every change in the end.                                 *)
FairSpec == Spec /\ WF_vars(Controller) /\ WF_vars(CacheSync)

----------------------------------------------------------------------------
(* What is recorded of a group as its outcome stays, although Reconcile    *)
(* starts from a cache that lags behind, is repeated after every error and *)
(* is cut off by crashes ("Skip if already processed", "Skip if failed").  *)
OutcomeStays ==
  [][\A g \in Groups : stored.group[g] \in {"SUCCESS", "FAILED"} =>
       stored'.group[g] = stored.group[g]]_vars

(* A Failover that has failed stays failed, and one recorded as a success  *)
(* is never taken up again: it can only turn out to have failed, at one of *)
(* its other groups.  Five places write the status, each from a copy that  *)
(* may be old or hold a write that never arrived ("Failover already failed,*)
(* no automatic retry", "already completed successfully").                 *)
OverallStays ==
  [][/\ stored.status = "FAILED" => stored'.status = "FAILED"
     /\ stored.status = "SUCCESS" => stored'.status \in {"SUCCESS", "FAILED"}]_vars

(* No group is recorded as failed over whose workflow did not succeed.     *)
RecordedMeansWon == \A g \in Groups : stored.group[g] = "SUCCESS" => g \in won

(* The status of the whole Failover has its reason, although four places   *)
(* write it, each from a copy of its own: it is a success only if some     *)
(* group has moved, and a failure only if some workflow or request failed. *)
OverallHasReason ==
  /\ stored.status = "SUCCESS" => won # {}
  /\ stored.status = "FAILED" => lost # {} \/ faults > 0

(* A Failover that is deleted goes away: the finalizer never holds it up   *)
(* for good, even if it is deleted in the middle of a workflow.            *)
DeletionCompletes == stored.deleting ~> gone

----------------------------------------------------------------------------
(* What the comments say and the code does not do.                         *)

(* "Failover already failed, no automatic retry".                          *)
NoAutomaticRetry ==
  [][pc = "mark" /\ pc' = "state" => at \notin lost]_vars
=============================================================================
