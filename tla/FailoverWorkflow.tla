-------------------------- MODULE FailoverWorkflow --------------------------
(***************************************************************************)
(* One Failover of one FailoverGroup, as ManagerAdapter.ProcessFailover    *)
(* runs it: validate, AcquireLock, the tasks that prepare the clusters,    *)
(* UpdateGlobalState, ReleaseLock.                                         *)
(*                                                                         *)
(* The module drives the operations of GroupStore: a workflow calls        *)
(* ExecuteFailover and TransferOwnership as subroutines, whose steps are   *)
(* the steps of GroupStore, and holds a lock of its own while it does.     *)
(* The tasks between AcquireLock and UpdateGlobalState (network, scaling,  *)
(* volumes, Flux) log what they would do, change nothing and never fail;   *)
(* they appear as the time in which others take their steps.               *)
(*                                                                         *)
(* A workflow knows the group from the status of the FailoverGroup object  *)
(* of its cluster, which follows the table with a delay, and looks at it   *)
(* once, at the start.  The model lets it see the table as it is at that   *)
(* moment: a workflow that starts with an old status is one that started   *)
(* earlier and then waited.                                                *)
(***************************************************************************)
EXTENDS GroupStore

CONSTANTS Modes,      \* the failover modes that are asked for
          Forces,     \* whether the Failovers are forced
          MaxRuns,    \* bound on the number of workflows
          NoJob       \* no workflow is running

VARIABLES
  stage,     \* stage[p]: the task that p executes
  job,       \* job[p]: the WorkflowContext
  lease,     \* job's LeaseToken, NoToken when none was acquired
  committed, \* committed[p]: ExecuteFailover's transaction went through
  refusal,   \* refusal[p]: the lock that made ExecuteFailover give up
  result,    \* result[p]: how p's last workflow ended
  reached,   \* auxiliary: the target owned the group during the workflow
  runs       \* how many workflows were started

wfVars == <<stage, job, lease, committed, refusal, result, reached, runs>>
allVars == <<vars, wfVars>>

Stages == {"idle", "lock", "source", "target", "execute", "executing",
           "break", "transfer", "transferring", "release", "failed"}

Job == [target : Clusters, mode : Modes, force : Forces, source : Clusters]

ASSUME FailoverWorkflowAssumption ==
  /\ Modes \subseteq {"CONSISTENCY", "UPTIME"}
  /\ Forces \subseteq BOOLEAN
  /\ MaxRuns \in Nat
  /\ NoJob \notin Job

WorkflowTypeOK ==
  /\ TypeOK
  /\ stage \in [Procs -> Stages]
  /\ job \in [Procs -> Job \cup {NoJob}]
  /\ lease \in [Procs -> Tokens \cup {NoToken}]
  /\ committed \in [Procs -> BOOLEAN]
  /\ refusal \in [Procs -> Tokens \cup {NoToken}]
  /\ result \in [Procs -> {"none", "SUCCESS", "FAILED"}]
  /\ reached \in [Procs -> BOOLEAN]
  /\ runs \in 0 .. MaxRuns

(* GlobalState of the FailoverGroup in p's cluster, as updateLocalStatus   *)
(* builds it: the clusters that have registered, p's own included in any   *)
(* case and as healthy.  Only the owner counts as PRIMARY, whatever the    *)
(* items say.  Validation also accepts the health DEGRADED; no item here   *)
(* has it.                                                                 *)
GlobalState(p) ==
  LET active == IF config = NoConfig THEN ClusterOf[p] ELSE config.owner
      listed == {c \in Clusters : c = ClusterOf[p] \/ rows[c] # NoRow}
  IN [primary |-> listed \cap {active},
      standby |-> listed \ {active},
      healthy |-> {c \in listed : c = ClusterOf[p] \/ rows[c].health = "OK"}]

(* The group is known and every cluster has registered.                    *)
WorkflowInit ==
  /\ Init
  /\ config # NoConfig
  /\ config.prev = NoCluster
  /\ \A c \in Clusters : rows[c] # NoRow
  /\ stage = [p \in Procs |-> "idle"]
  /\ job = [p \in Procs |-> NoJob]
  /\ lease = [p \in Procs |-> NoToken]
  /\ committed = [p \in Procs |-> FALSE]
  /\ refusal = [p \in Procs |-> NoToken]
  /\ result = [p \in Procs |-> "none"]
  /\ reached = [p \in Procs |-> FALSE]
  /\ runs = 0

----------------------------------------------------------------------------
Enter(p, task) == stage' = [stage EXCEPT ![p] = task]

(* The workflow ends.  Nothing is undone: a task that fails leaves what    *)
(* the tasks before it did, the lock included.                             *)
Finish(p, how) ==
  /\ Enter(p, "idle")
  /\ job' = [job EXCEPT ![p] = NoJob]
  /\ lease' = [lease EXCEPT ![p] = NoToken]
  /\ committed' = [committed EXCEPT ![p] = FALSE]
  /\ result' = [result EXCEPT ![p] = how]
  /\ UNCHANGED <<refusal, runs>>

(* Who owned the group while the workflows ran.                            *)
Observe ==
  reached' = [p \in Procs |->
    reached[p] \/ (job[p] # NoJob /\ config' # NoConfig
                   /\ config'.owner = job[p].target)]

(* NewWorkflowContext and ValidateFailoverTask.  The source is the cluster *)
(* that the status shows as PRIMARY.                                       *)
Valid(view, target, force) ==
  /\ target \in view.primary \cup view.standby
  /\ target \in view.standby \cap view.healthy \/ force

ProcessFailover(p, target, mode, force) ==
  /\ stage[p] = "idle"
  /\ runs < MaxRuns
  /\ Valid(GlobalState(p), target, force)
  /\ \E source \in GlobalState(p).primary :
       job' = [job EXCEPT ![p] = [target |-> target, mode |-> mode,
                                  force |-> force, source |-> source]]
  /\ Enter(p, IF force THEN "source" ELSE "lock")
  /\ reached' = [reached EXCEPT ![p] = FALSE]
  /\ refusal' = [refusal EXCEPT ![p] = NoToken]
  /\ result' = [result EXCEPT ![p] = "none"]
  /\ runs' = runs + 1
  /\ UNCHANGED <<vars, lease, committed>>

(* AcquireLockTask; a forced workflow takes no lock.                       *)
TaskLock(p) ==
  /\ stage[p] = "lock"
  /\ calls < MaxCalls
  /\ WriteLock(p, calls + 1)
  /\ calls' = calls + 1
  /\ UNCHANGED <<procVars, second>>

AcquireLockTask(p) ==
  /\ TaskLock(p)
  /\ lease' = [lease EXCEPT ![p] = calls + 1]
  /\ Enter(p, "source")
  /\ UNCHANGED <<job, committed, refusal, result, reached, runs>>

(* Faulty variant: the role is put without the health.                     *)
UpdateRoleOnly(p, c, state) ==
  /\ rows' = IF ClusterOf[p] = c THEN [rows EXCEPT ![c] = [state |-> state]] ELSE rows
  /\ UNCHANGED <<config, history, lockVars, procVars, calls, second,
                 job, lease, committed, refusal, result, reached, runs>>

(* UpdateGlobalStateTask: first the role of this operator's cluster, ...   *)
(* The task fails when the answer of a write that was applied is lost.     *)
UpdateRole(p, c, state) ==
  /\ rows' = IF ClusterOf[p] = c
             THEN [rows EXCEPT ![c] = [health |-> "OK", state |-> state]]
             ELSE rows
  /\ UNCHANGED <<config, history, lockVars, procVars, calls, second,
                 job, lease, committed, refusal, result, reached, runs>>

UpdateSourceRole(p) ==
  /\ stage[p] = "source"
  /\ UpdateRole(p, job[p].source, "STANDBY")
  /\ Enter(p, "target") \/ Enter(p, "failed")

UpdateTargetRole(p) ==
  /\ stage[p] = "target"
  /\ UpdateRole(p, job[p].target, "PRIMARY")
  /\ Enter(p, "execute") \/ Enter(p, "failed")

(* ... then ExecuteFailover.                                               *)
CallExecuteFailover(p) ==
  /\ stage[p] = "execute"
  /\ ExecuteFailover(p, job[p].target, job[p].mode = "UPTIME")
  /\ Enter(p, "executing")
  /\ UNCHANGED <<job, lease, committed, refusal, result, runs>>
  /\ Observe

(* A step of the call that does not end it.                                *)
CallStep(p) ==
  /\ stage[p] \in {"executing", "transferring"}
  /\ \/ SwitchOverSteps(p)
     \/ ConfigSteps(p)
     \/ CallFails(p)
     \/ AnswerLost(p)
  /\ pc'[p] # "idle"
  /\ committed' = [committed EXCEPT ![p] =
                     @ \/ (pc[p] = "tx" /\ pc'[p] = "history")]
  /\ UNCHANGED <<stage, job, lease, refusal, result, runs>>
  /\ Observe

(* Faulty variant: the error of ExecuteFailover is ignored.                *)
CallAlwaysSucceeds(p) ==
  /\ stage[p] = "executing"
  /\ pc[p] = "release"
  /\ ReleaseLock(p) \/ CallFails(p)
  /\ Enter(p, "release")
  /\ UNCHANGED <<job, lease, committed, refusal, result, runs>>
  /\ Observe

CallSucceeds(p) ==
  /\ \/ stage[p] = "executing" /\ committed[p] /\ ReleaseLock(p)
     \/ stage[p] = "executing" /\ committed[p] /\ pc[p] = "release" /\ CallFails(p)
     \/ stage[p] = "transferring" /\ AlreadyOwner(p)
     \/ stage[p] = "transferring" /\ PutTransfer(p)
     \/ stage[p] = "transferring" /\ ForceTransfer(p)
  /\ Enter(p, "release")
  /\ UNCHANGED <<job, lease, committed, refusal, result, runs>>
  /\ Observe

CallErrs(p) ==
  /\ stage[p] \in {"executing", "transferring"}
  /\ ~committed[p]
  /\ \/ ReleaseLock(p)
     \/ CallFails(p)
     \/ pc[p] = "lock" /\ AnswerLost(p)
     \/ PutTransfer(p) \/ ForceTransfer(p)   \* the answer is lost
  /\ pc'[p] = "idle"
  /\ Enter(p, "failed")
  /\ UNCHANGED <<job, lease, committed, refusal, result, runs>>
  /\ Observe

(* ValidateFailoverPreconditions finds lock k: "failover group is locked   *)
(* by".  The read may be stale.  A lock of the source cluster is ignored   *)
(* in CONSISTENCY mode and by a forced workflow.  The code looks for its   *)
(* name in the text of the error, so that a cluster whose name begins with *)
(* that of the source would do too: here names are equal or unlike.        *)
MayBreak(p, k) ==
  /\ lockedBy[k] = job[p].source
  /\ job[p].mode = "CONSISTENCY" \/ job[p].force

Refused(p, k) ==
  /\ stage[p] = "executing"
  /\ pc[p] = "isLocked"
  /\ lockedBy[k] # NoCluster
  /\ k \notin over
  /\ Return(p)
  /\ UNCHANGED <<storeVars, lockVars>>

BreakLock(p, k) ==
  /\ Refused(p, k)
  /\ MayBreak(p, k)
  /\ Enter(p, "break")
  /\ refusal' = [refusal EXCEPT ![p] = k]
  /\ UNCHANGED <<job, lease, committed, result, reached, runs>>

RefusedByLock(p, k) ==
  /\ Refused(p, k)
  /\ ~MayBreak(p, k)
  /\ Enter(p, "idle")
  /\ job' = [job EXCEPT ![p] = NoJob]
  /\ lease' = [lease EXCEPT ![p] = NoToken]
  /\ refusal' = [refusal EXCEPT ![p] = k]
  /\ result' = [result EXCEPT ![p] = "FAILED"]
  /\ UNCHANGED <<committed, reached, runs>>

(* Faulty variant: the lock is broken without a token.                     *)
ReleaseAny(p, next) ==
  /\ current' \in {current, NoToken}
  /\ Enter(p, next)
  /\ UNCHANGED <<storeVars, lockedBy, over, procVars, calls, second>>

(* The lock is "broken" with the workflow's own token; any error of that   *)
(* request is ignored, and the ownership is transferred.  The code keeps   *)
(* the token of an item that is gone, which is as good as none.            *)
ReleaseOwn(p, next) ==
  /\ \/ current = lease[p] /\ current' = NoToken
     \/ UNCHANGED current
  /\ Enter(p, next)
  /\ UNCHANGED <<storeVars, lockedBy, over, procVars, calls, second>>

ReleaseToBreak(p) ==
  /\ stage[p] = "break"
  /\ ReleaseOwn(p, "transfer")
  /\ lease' = [lease EXCEPT ![p] = IF current' # current THEN NoToken ELSE @]
  /\ UNCHANGED <<job, committed, refusal, result, reached, runs>>

CallTransferOwnership(p) ==
  /\ stage[p] = "transfer"
  /\ TransferOwnership(p, job[p].target)
  /\ Enter(p, "transferring")
  /\ UNCHANGED <<job, lease, committed, refusal, result, runs>>
  /\ Observe

(* ReleaseLockTask: a token that does not match is not an error, but an    *)
(* answer that is lost is one, although the item may be gone.              *)
ReleaseLockTask(p) ==
  /\ stage[p] = "release"
  /\ IF current = lease[p]
     THEN /\ current' = NoToken
          /\ Finish(p, "SUCCESS") \/ Finish(p, "FAILED")
     ELSE UNCHANGED current /\ Finish(p, "SUCCESS")
  /\ UNCHANGED <<storeVars, lockedBy, over, procVars, calls, second, reached>>

----------------------------------------------------------------------------
(* A request of a task is refused or lost, or its call has failed.         *)
TaskFails(p) ==
  /\ stage[p] \in {"lock", "source", "target", "release", "failed"}
  /\ Finish(p, "FAILED")
  /\ UNCHANGED <<vars, reached>>

(* The lock is written and the answer lost.                                *)
TaskLockLost(p) ==
  /\ TaskLock(p)
  /\ Finish(p, "FAILED")
  /\ UNCHANGED reached

(* The operator dies, and the workflow with it.                            *)
OperatorCrash(p) ==
  /\ stage[p] # "idle"
  /\ pc' = [pc EXCEPT ![p] = "idle"]
  /\ call' = [call EXCEPT ![p] = NoCall]
  /\ held' = [held EXCEPT ![p] = NoToken]
  /\ Finish(p, "none")
  /\ UNCHANGED <<storeVars, lockVars, calls, second, reached>>

LeaseRunsOut == Expire /\ UNCHANGED <<wfVars>>

WorkflowNext ==
  \/ \E p \in Procs :
       \/ \E t \in Clusters, m \in Modes, f \in Forces : ProcessFailover(p, t, m, f)
       \/ AcquireLockTask(p)
       \/ UpdateSourceRole(p)
       \/ UpdateTargetRole(p)
       \/ CallExecuteFailover(p)
       \/ CallStep(p)
       \/ CallSucceeds(p)
       \/ CallErrs(p)
       \/ \E k \in Tokens : BreakLock(p, k) \/ RefusedByLock(p, k)
       \/ ReleaseToBreak(p)
       \/ CallTransferOwnership(p)
       \/ ReleaseLockTask(p)
       \/ TaskFails(p)
       \/ TaskLockLost(p)
       \/ OperatorCrash(p)
  \/ LeaseRunsOut

WorkflowSpec == WorkflowInit /\ [][WorkflowNext]_allVars

----------------------------------------------------------------------------
(* A workflow that reports success has made its target the owner, however  *)
(* the lock was taken, lost or broken on the way: at some moment between   *)
(* its start and its end the target owned the group (UpdateGlobalState).   *)
SuccessMeansOwner == \A p \in Procs : result[p] = "SUCCESS" => reached[p]

(* The workflow's lock and the one that ExecuteFailover takes inside it    *)
(* compete like any two callers, and breaking a lock with one's own token  *)
(* never removes the lock of another workflow (module Lease).              *)
WL == INSTANCE Lease WITH
        Callers <- Procs \X {"task", "call"},
        granted <- Granted,
        held    <- [x \in Procs \X {"task", "call"} |->
                      IF x[2] = "task" THEN lease[x[1]] ELSE held[x[1]]]
WorkflowLease == WL!LeaseSpec

----------------------------------------------------------------------------
(* What the documentation says and the code does not do.                   *)

Ends(p) == stage[p] # "idle" /\ stage'[p] = "idle"

(* The operator acquires the lock and then updates the ownership record:   *)
(* the lock of a workflow does not stop its own ExecuteFailover.           *)
OwnLockDoesNotBlock ==
  [][\A p \in Procs : Ends(p) /\ result'[p] = "FAILED" /\ lease[p] # NoToken =>
       refusal'[p] # lease[p]]_allVars
=============================================================================
