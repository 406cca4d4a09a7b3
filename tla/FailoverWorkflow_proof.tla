------------------------ MODULE FailoverWorkflow_proof -------------------------
(***************************************************************************)
(* Theorems about the workflows of Failovers, for any clusters, operators, *)
(* modes and bounds.                                                       *)
(*                                                                         *)
(* A workflow drives the operations of module GroupStore, so what          *)
(* GroupStore_proof knows of a call, StoreInv, is half of the invariant.   *)
(* The other half ties the call to the workflow that makes it: the call is *)
(* for the workflow's target, and it has committed only after a            *)
(* transaction that made the target the owner.                             *)
(***************************************************************************)
EXTENDS FailoverWorkflow, GroupStore_proof

(* Where ExecuteFailover is after its transaction.                         *)
AfterCommit == {"history", "readLast", "putLast", "release"}

(* Where TransferOwnership is.                                             *)
Transferring == {"readTransfer", "putTransfer", "forceTransfer"}

JobInv(p) ==
  /\ stage[p] # "idle" => job[p] \in Job
  /\ stage[p] \in {"executing", "transferring"}
       => pc[p] # "readBack" /\ call[p].target = job[p].target
  /\ stage[p] = "transferring" => pc[p] \in Transferring
  /\ stage[p] \in {"idle", "lock"} => lease[p] = NoToken
  /\ committed[p] => \/ stage[p] = "executing" /\ pc[p] \in AfterCommit
                     \/ stage[p] = "release"
  /\ committed[p] \/ stage[p] = "release" \/ result[p] = "SUCCESS" => reached[p]

WfTypes ==
  /\ stage \in [Procs -> Stages]
  /\ job \in [Procs -> Job \cup {NoJob}]
  /\ lease \in [Procs -> Tokens \cup {NoToken}]
  /\ committed \in [Procs -> BOOLEAN]
  /\ refusal \in [Procs -> Tokens \cup {NoToken}]
  /\ result \in [Procs -> {"none", "SUCCESS", "FAILED"}]
  /\ reached \in [Procs -> BOOLEAN]
  /\ runs \in 0 .. MaxRuns

WorkflowInv ==
  /\ StoreInv
  /\ WfTypes
  /\ \A p \in Procs : JobInv(p)

----------------------------------------------------------------------------
(* Steps of calls.                                                         *)

LEMMA GotoOthers ==
  ASSUME StoreInv, NEW p \in Procs, NEW label, Goto(p, label),
         \A q \in Procs \ {p} : call'[q] = call[q]
  PROVE  OthersStay(p)
  BY DEF Goto, StoreInv, TypeOK, OthersStay

LEMMA ReturnOthers ==
  ASSUME StoreInv, NEW p \in Procs, Return(p) PROVE OthersStay(p) /\ pc'[p] = "idle"
  BY DEF Return, StoreInv, TypeOK, OthersStay

LEMMA BeginOthers ==
  ASSUME StoreInv, NEW p \in Procs, NEW name, NEW first, NEW target, NEW flag,
         Begin(p, name, first, target, flag)
  PROVE  OthersStay(p) /\ pc'[p] = first /\ call'[p].target = target
<1>1. /\ pc' = [pc EXCEPT ![p] = first] /\ held' = held
  BY DEF Begin
<1>2. PICK s \in second .. MaxSecond :
        call' = [call EXCEPT ![p] =
             [NoCall EXCEPT !.op = name, !.target = target, !.flag = flag,
                            !.start = s, !.id = calls + 1]]
  BY DEF Begin
<1>3. call \in [Procs -> CallRecord] /\ pc \in [Procs -> PCs]
  BY DEF StoreInv, TypeOK
<1>4. call'[p].target = target
  BY <1>2, <1>3 DEF NoCall
<1> QED
  BY <1>1, <1>2, <1>3, <1>4 DEF OthersStay

(* A step of a call that does not end it keeps its target and stays within *)
(* the operation; after the transaction it stays there.                    *)
CallMoves(p) ==
  /\ OthersStay(p)
  /\ pc'[p] # "idle" /\ pc[p] # "readBack"
       => /\ pc'[p] # "readBack"
          /\ call'[p].target = call[p].target
          /\ pc[p] \in AfterCommit => pc'[p] \in AfterCommit
          /\ pc[p] \in Transferring => pc'[p] \in Transferring

LEMMA GotoMoves ==
  ASSUME StoreInv, NEW p \in Procs, NEW label, Goto(p, label), UNCHANGED call,
         label # "readBack", pc[p] \in AfterCommit => label \in AfterCommit,
         pc[p] \in Transferring => label \in Transferring
  PROVE  CallMoves(p)
<1>1. OthersStay(p)
  BY GotoOthers
<1>2. pc'[p] = label
  BY DEF Goto, StoreInv, TypeOK
<1> QED
  BY <1>1, <1>2 DEF CallMoves

LEMMA ReturnMoves ==
  ASSUME StoreInv, NEW p \in Procs, Return(p) PROVE CallMoves(p)
  BY ReturnOthers DEF CallMoves

LEMMA ReadMoves ==
  ASSUME StoreInv, NEW p \in Procs, NEW label, Read(p, label),
         label # "readBack", pc[p] \in AfterCommit => label \in AfterCommit,
         pc[p] \in Transferring => label \in Transferring
  PROVE  CallMoves(p)
<1>1. call' = [call EXCEPT ![p].snap = Stored(p)] /\ Goto(p, label)
  BY DEF Read
<1>2. call \in [Procs -> CallRecord]
  BY DEF StoreInv, TypeOK
<1>3. call'[p].target = call[p].target
  BY <1>1, <1>2 DEF CallRecord
<1>4. \A q \in Procs \ {p} : call'[q] = call[q]
  BY <1>1, <1>2
<1>5. OthersStay(p)
  BY <1>1, <1>4, GotoOthers
<1>6. pc'[p] = label
  BY <1>1 DEF Goto, StoreInv, TypeOK
<1> QED
  BY <1>3, <1>5, <1>6 DEF CallMoves

LEMMA SwitchOverMoves ==
  ASSUME StoreInv, NEW p \in Procs, SwitchOverSteps(p) PROVE CallMoves(p)
<1>0. call \in [Procs -> CallRecord] /\ pc \in [Procs -> PCs]
  BY DEF StoreInv, TypeOK
<1> USE DEF AfterCommit, Transferring
<1>1. CASE ReadPreviousOwner(p)
  <2>1. \A q \in Procs \ {p} : call'[q] = call[q]
    BY <1>0, <1>1 DEF ReadPreviousOwner
  <2>2. pc[p] = "readBack" /\ OthersStay(p)
    BY <1>1, <2>1, GotoOthers DEF ReadPreviousOwner
  <2> QED
    BY <2>2 DEF CallMoves
<1>2. CASE CheckLock(p)
  BY <1>2, GotoMoves DEF CheckLock
<1>3. CASE CheckSuspended(p)
  BY <1>3, GotoMoves DEF CheckSuspended
<1>4. CASE CheckHealth(p)
  <2>1. PICK label \in {"lock", "source"} : Goto(p, label)
    BY <1>4 DEF CheckHealth
  <2> QED
    BY <1>4, <2>1, GotoMoves DEF CheckHealth
<1>5. CASE ReadSource(p)
  <2>1. /\ pc[p] = "source" /\ Goto(p, "lock")
        /\ call' = [call EXCEPT ![p].src = Stored(p).owner]
    BY <1>5 DEF ReadSource
  <2>2. call'[p].target = call[p].target /\ \A q \in Procs \ {p} : call'[q] = call[q]
    BY <1>0, <2>1 DEF CallRecord
  <2>3. OthersStay(p) /\ pc'[p] = "lock"
    BY <1>0, <2>1, <2>2, GotoOthers DEF Goto
  <2> QED
    BY <2>1, <2>2, <2>3 DEF CallMoves
<1>6. CASE AcquireLock(p)
  BY <1>0, <1>6 DEF AcquireLock, PutLock, CallMoves, OthersStay, StoreInv, TypeOK
<1>7. CASE ReadVersion(p)
  BY <1>7, ReadMoves DEF ReadVersion
<1>8. CASE Transaction(p)
  BY <1>8, GotoMoves DEF Transaction, ApplyTransaction
<1>9. CASE RecordHistory(p)
  BY <1>9, GotoMoves DEF RecordHistory, PutHistory
<1>10. CASE ReadLastFailover(p)
  BY <1>10, ReadMoves DEF ReadLastFailover
<1>11. CASE PutLastFailover(p)
  BY <1>11, GotoMoves DEF PutLastFailover
<1>12. CASE ReleaseLock(p)
  BY <1>12, ReturnMoves DEF ReleaseLock
<1> QED
  BY <1>1, <1>2, <1>3, <1>4, <1>5, <1>6, <1>7, <1>8, <1>9, <1>10, <1>11, <1>12
  DEF SwitchOverSteps

LEMMA ConfigMoves ==
  ASSUME StoreInv, NEW p \in Procs, ConfigSteps(p) PROVE CallMoves(p)
<1> USE DEF AfterCommit, Transferring
<1>1. CASE ReadSuspension(p) \/ ReadOwner(p)
  BY <1>1, ReadMoves DEF ReadSuspension, ReadOwner
<1>2. CASE PutSuspension(p) \/ AlreadyOwner(p) \/ PutTransfer(p) \/ ForceTransfer(p)
  BY <1>2, ReturnMoves DEF PutSuspension, AlreadyOwner, PutTransfer, ForceTransfer
<1>3. CASE TransferConflict(p)
  BY <1>3, GotoMoves DEF TransferConflict
<1> QED
  BY <1>1, <1>2, <1>3 DEF ConfigSteps

LEMMA FailureMoves ==
  ASSUME StoreInv, NEW p \in Procs, CallFails(p) \/ AnswerLost(p) PROVE CallMoves(p)
<1> USE DEF AfterCommit, Transferring
<1>1. CASE CallFails(p)
  <2>1. Return(p) \/ (pc[p] \in Underway /\ Goto(p, "release") /\ UNCHANGED call)
    BY <1>1 DEF CallFails, Continue
  <2> QED
    BY <2>1, ReturnMoves, GotoMoves DEF Underway
<1>2. CASE AnswerLost(p)
  BY <1>2, ReturnMoves, GotoMoves DEF AnswerLost, ApplyTransaction, PutHistory
<1> QED
  BY <1>1, <1>2

(* The transaction makes the target of the call the owner.                 *)
LEMMA TransactionOwns ==
  ASSUME StoreInv, NEW p \in Procs, ApplyTransaction(p)
  PROVE  config' # NoConfig /\ config'.owner = call[p].target
<1>1. config \in ConfigRecord
  BY DEF ApplyTransaction, TxCondition, StoreInv, Proper
<1>2. config' \in ConfigRecord
  BY TransactionItems DEF Proper
<1>3. config'.owner = call[p].target
  BY <1>1 DEF ApplyTransaction, ConfigRecord
<1> QED
  BY <1>2, <1>3, GroupStoreAssumption

LEMMA CommitOwns ==
  ASSUME StoreInv, NEW p \in Procs, pc[p] = "tx", pc'[p] = "history",
         SwitchOverSteps(p) \/ ConfigSteps(p) \/ CallFails(p) \/ AnswerLost(p)
  PROVE  config' # NoConfig /\ config'.owner = call[p].target
<1>1. ~ConfigSteps(p)
  BY DEF ConfigSteps, ReadSuspension, PutSuspension, ReadOwner, AlreadyOwner,
         PutTransfer, TransferConflict, ForceTransfer
<1>2. ~CallFails(p)
  <2>1. CallFails(p) => Goto(p, "release")
    BY DEF CallFails, Continue, Underway
  <2>2. Goto(p, "release") => pc'[p] = "release"
    BY DEF Goto, StoreInv, TypeOK
  <2> QED
    BY <2>1, <2>2
<1>3. AnswerLost(p) => ApplyTransaction(p)
  BY DEF AnswerLost, PutLock, PutHistory
<1>4. SwitchOverSteps(p) => ApplyTransaction(p)
  BY DEF SwitchOverSteps, ReadPreviousOwner, CheckLock, CheckSuspended, CheckHealth,
         ReadSource, AcquireLock, PutLock, ReadVersion, Transaction, RecordHistory,
         PutHistory, ReadLastFailover, PutLastFailover, ReleaseLock
<1> QED
  BY <1>1, <1>2, <1>3, <1>4, TransactionOwns

(* A transfer that returns without an error leaves its target as the owner.*)
LEMMA TransferOwns ==
  ASSUME StoreInv, NEW p \in Procs,
         AlreadyOwner(p) \/ PutTransfer(p) \/ ForceTransfer(p)
  PROVE  config' # NoConfig /\ config'.owner = call[p].target
<1>1. CASE AlreadyOwner(p)
  <2>1. config' = Stored(p) /\ Stored(p).owner = call[p].target
    BY <1>1 DEF AlreadyOwner, GetGroupConfig
  <2> QED
    BY <2>1, StoredProper, GroupStoreAssumption DEF Proper
<1>2. CASE PutTransfer(p)
  <2> DEFINE s == call[p].snap
             o == call[p].target
             q == s.owner
             n == s.version + 1
             value == [s EXCEPT !.prev = q, !.owner = o, !.version = n]
  <2>1. /\ s \in ConfigRecord /\ o \in Clusters /\ q \in Clusters /\ n \in Nat
    BY <1>2
    DEF PutTransfer, StoreInv, ArgsKnown, SnapKnown, TargetKnown, Proper, ConfigRecord
  <2>2. config' = [value EXCEPT !.version = @ + 1]
    BY <1>2 DEF PutTransfer, UpdateGroupConfig, TransferValue
  <2> HIDE DEF s, o, q, n
  <2>3. value \in ConfigRecord /\ value.owner = o
    BY <2>1 DEF ConfigRecord
  <2> HIDE DEF value
  <2>4. config' \in ConfigRecord /\ config'.owner = o
    BY <2>2, <2>3 DEF ConfigRecord
  <2> QED
    BY <2>4, GroupStoreAssumption DEF o
<1>3. CASE ForceTransfer(p)
  <2>1. config' = [owner |-> call[p].target,
                   prev |-> call[p].snap.owner,
                   version |-> call[p].snap.version + 3,
                   suspended |-> config # NoConfig /\ config.suspended]
    BY <1>3 DEF ForceTransfer
  <2>2. config'.owner = call[p].target
    BY <2>1
  <2>3. config' \in ConfigRecord
    <3>1. /\ call[p].snap \in ConfigRecord /\ call[p].target \in Clusters
      BY <1>3
      DEF ForceTransfer, StoreInv, ArgsKnown, SnapKnown, TargetKnown, Proper
    <3>2. (config # NoConfig /\ config.suspended) \in BOOLEAN
      OBVIOUS
    <3> QED
      BY <2>1, <3>1, <3>2 DEF ConfigRecord
  <2> QED
    BY <2>2, <2>3, GroupStoreAssumption
<1> QED
  BY <1>1, <1>2, <1>3

----------------------------------------------------------------------------
(* Steps of workflows.                                                     *)

OthersWait(p) ==
  \A q \in Procs \ {p} :
    /\ stage'[q] = stage[q] /\ job'[q] = job[q] /\ lease'[q] = lease[q]
    /\ committed'[q] = committed[q] /\ result'[q] = result[q]
    /\ reached[q] => reached'[q]

LEMMA WorkStep ==
  ASSUME WorkflowInv, NEW p \in Procs, OthersStay(p), OthersWait(p),
         StoreInv', WfTypes', JobInv(p)'
  PROVE  WorkflowInv'
<1> SUFFICES ASSUME NEW q \in Procs \ {p} PROVE JobInv(q)'
  BY DEF WorkflowInv
<1>1. JobInv(q) /\ reached' \in [Procs -> BOOLEAN]
  BY DEF WorkflowInv, WfTypes
<1>2. /\ pc'[q] = pc[q] /\ call'[q] = call[q]
      /\ stage'[q] = stage[q] /\ job'[q] = job[q] /\ lease'[q] = lease[q]
      /\ committed'[q] = committed[q] /\ result'[q] = result[q]
      /\ reached[q] => reached'[q]
  BY DEF OthersStay, OthersWait
<1> QED
  BY <1>1, <1>2 DEF JobInv

(* The steps of the calls are steps of GroupStore.                         *)
LEMMA CallNext ==
  ASSUME NEW p \in Procs,
         SwitchOverSteps(p) \/ ConfigSteps(p) \/ CallFails(p) \/ AnswerLost(p)
  PROVE  Next
  BY DEF Next, Failures

(* What a workflow knows while its call runs.                              *)
LEMMA Observed ==
  ASSUME WorkflowInv, Observe
  PROVE  /\ reached' \in [Procs -> BOOLEAN]
         /\ \A q \in Procs : reached[q] => reached'[q]
         /\ \A q \in Procs : /\ job[q] \in Job /\ config' # NoConfig
                             /\ config'.owner = job[q].target
                             => reached'[q]
  BY FailoverWorkflowAssumption DEF Observe

(* A step of the workflow's own call, after which the workflow is at next. *)
LEMMA CallTypes ==
  ASSUME WorkflowInv, NEW p \in Procs, Observe, UNCHANGED <<job, lease, refusal, result, runs>>,
         NEW next \in Stages, Enter(p, next) \/ (UNCHANGED stage /\ next = stage[p]),
         committed' \in [Procs -> BOOLEAN],
         \A q \in Procs \ {p} : committed'[q] = committed[q]
  PROVE  WfTypes' /\ OthersWait(p) /\ stage'[p] = next
<1>1. stage' \in [Procs -> Stages] /\ stage'[p] = next
      /\ \A q \in Procs \ {p} : stage'[q] = stage[q]
  BY DEF Enter, WorkflowInv, WfTypes
<1> QED
  BY <1>1, Observed DEF WorkflowInv, WfTypes, OthersWait

LEMMA CallBeginsStep ==
  ASSUME WorkflowInv, NEW p \in Procs,
         CallExecuteFailover(p) \/ CallTransferOwnership(p)
  PROVE  WorkflowInv'
<1>1. job[p] \in Job
  BY DEF CallExecuteFailover, CallTransferOwnership, WorkflowInv, JobInv
<1>2. PICK next \in {"executing", "transferring"} : Enter(p, next)
  BY DEF CallExecuteFailover, CallTransferOwnership
<1>3. /\ UNCHANGED <<job, lease, committed, refusal, result, runs>> /\ Observe
      /\ stage[p] \in {"execute", "transfer"}
  BY DEF CallExecuteFailover, CallTransferOwnership
<1>4. job[p].target \in Clusters /\ (job[p].mode = "UPTIME") \in BOOLEAN
  BY <1>1 DEF Job
<1>5. Calls(p)
  BY <1>4 DEF CallExecuteFailover, CallTransferOwnership, Calls
<1>6. StoreInv'
  BY <1>5, CallsStep DEF WorkflowInv
<1>7. /\ OthersStay(p) /\ call'[p].target = job[p].target /\ pc'[p] # "readBack"
      /\ next = "transferring" => pc'[p] \in Transferring
  <2>1. CASE CallExecuteFailover(p)
    <3>1. PICK fast \in BOOLEAN : Begin(p, "failover", "isLocked", job[p].target, fast)
      BY <2>1 DEF CallExecuteFailover, ExecuteFailover
    <3>2. next = "executing"
      BY <1>2, <2>1 DEF CallExecuteFailover, Enter, WorkflowInv, WfTypes
    <3> QED
      BY <3>1, <3>2, BeginOthers DEF WorkflowInv
  <2>2. CASE CallTransferOwnership(p)
    <3>1. PICK flag \in BOOLEAN :
            Begin(p, "transfer", "readTransfer", job[p].target, flag)
      BY <2>2 DEF CallTransferOwnership, TransferOwnership
    <3> QED
      BY <3>1, BeginOthers DEF WorkflowInv, Transferring
  <2> QED
    BY <2>1, <2>2
<1>8. WfTypes' /\ OthersWait(p) /\ stage'[p] = next
  BY <1>2, <1>3, CallTypes DEF Stages, WorkflowInv, WfTypes
<1>9. JobInv(p)'
  BY <1>1, <1>3, <1>7, <1>8, Observed DEF JobInv, WorkflowInv, AfterCommit
<1> QED
  BY <1>6, <1>7, <1>8, <1>9, WorkStep

LEMMA CallGoesOnStep ==
  ASSUME WorkflowInv, NEW p \in Procs, CallStep(p) PROVE WorkflowInv'
<1>1. /\ stage[p] \in {"executing", "transferring"}
      /\ SwitchOverSteps(p) \/ ConfigSteps(p) \/ CallFails(p) \/ AnswerLost(p)
      /\ pc'[p] # "idle"
      /\ committed' = [committed EXCEPT ![p] =
                         @ \/ (pc[p] = "tx" /\ pc'[p] = "history")]
      /\ UNCHANGED <<stage, job, lease, refusal, result, runs>> /\ Observe
  BY DEF CallStep
<1>2. StoreInv'
  BY <1>1, CallNext, StoreNext DEF WorkflowInv
<1>3. CallMoves(p)
  BY <1>1, SwitchOverMoves, ConfigMoves, FailureMoves DEF WorkflowInv
<1>4. JobInv(p) /\ job[p] \in Job /\ call[p].target = job[p].target
  BY <1>1 DEF WorkflowInv, JobInv
<1>5. committed' \in [Procs -> BOOLEAN] /\ stage[p] \in Stages
      /\ \A q \in Procs \ {p} : committed'[q] = committed[q]
  BY <1>1 DEF WorkflowInv, WfTypes
<1>6. WfTypes' /\ OthersWait(p)
  BY <1>1, <1>5, CallTypes
<1>7. committed'[p] <=> committed[p] \/ (pc[p] = "tx" /\ pc'[p] = "history")
  BY <1>1 DEF WorkflowInv, WfTypes
<1>8. pc'[p] # "readBack" /\ call'[p].target = job[p].target
      /\ (pc[p] \in AfterCommit => pc'[p] \in AfterCommit)
      /\ (pc[p] \in Transferring => pc'[p] \in Transferring)
  BY <1>1, <1>3, <1>4 DEF CallMoves, JobInv
<1>9. CASE pc[p] = "tx" /\ pc'[p] = "history"
  <2>1. reached'[p]
    BY <1>1, <1>4, <1>9, CommitOwns, Observed DEF WorkflowInv
  <2>2. stage[p] = "executing"
    BY <1>1, <1>4, <1>9 DEF JobInv, Transferring
  <2> QED
    BY <1>1, <1>2, <1>3, <1>4, <1>6, <1>8, <1>9, <2>1, <2>2, WorkStep
    DEF JobInv, CallMoves, AfterCommit
<1>10. CASE ~(pc[p] = "tx" /\ pc'[p] = "history")
  <2>1. JobInv(p)'
    BY <1>1, <1>4, <1>7, <1>8, <1>10, Observed DEF JobInv
  <2> QED
    BY <1>2, <1>3, <1>6, <2>1, WorkStep DEF CallMoves
<1> QED
  BY <1>9, <1>10

LEMMA CallSucceedsStep ==
  ASSUME WorkflowInv, NEW p \in Procs, CallSucceeds(p) PROVE WorkflowInv'
<1>1. /\ stage[p] \in {"executing", "transferring"} /\ Enter(p, "release")
      /\ UNCHANGED <<job, lease, committed, refusal, result, runs>> /\ Observe
      /\ SwitchOverSteps(p) \/ ConfigSteps(p) \/ CallFails(p)
  BY DEF CallSucceeds, SwitchOverSteps, ConfigSteps
<1>2. StoreInv'
  BY <1>1, CallNext, StoreNext DEF WorkflowInv
<1>3. OthersStay(p)
  BY <1>1, SwitchOverMoves, ConfigMoves, FailureMoves DEF WorkflowInv, CallMoves
<1>4. JobInv(p) /\ job[p] \in Job /\ call[p].target = job[p].target
  BY <1>1 DEF WorkflowInv, JobInv
<1>5. WfTypes' /\ OthersWait(p) /\ stage'[p] = "release"
  BY <1>1, CallTypes DEF Stages, WorkflowInv, WfTypes
<1>6. reached'[p]
  <2>1. CASE committed[p]
    BY <1>1, <1>4, <2>1, Observed DEF JobInv
  <2>2. CASE AlreadyOwner(p) \/ PutTransfer(p) \/ ForceTransfer(p)
    BY <1>1, <1>4, <2>2, TransferOwns, Observed DEF WorkflowInv
  <2> QED
    BY <2>1, <2>2 DEF CallSucceeds
<1>7. JobInv(p)'
  BY <1>1, <1>4, <1>5, <1>6 DEF JobInv
<1> QED
  BY <1>2, <1>3, <1>5, <1>7, WorkStep

LEMMA CallErrsStep ==
  ASSUME WorkflowInv, NEW p \in Procs, CallErrs(p) PROVE WorkflowInv'
<1>1. /\ stage[p] \in {"executing", "transferring"} /\ Enter(p, "failed")
      /\ ~committed[p]
      /\ UNCHANGED <<job, lease, committed, refusal, result, runs>> /\ Observe
      /\ SwitchOverSteps(p) \/ ConfigSteps(p) \/ CallFails(p) \/ AnswerLost(p)
  BY DEF CallErrs, SwitchOverSteps, ConfigSteps
<1>2. StoreInv'
  BY <1>1, CallNext, StoreNext DEF WorkflowInv
<1>3. OthersStay(p)
  BY <1>1, SwitchOverMoves, ConfigMoves, FailureMoves DEF WorkflowInv, CallMoves
<1>4. JobInv(p) /\ job[p] \in Job
  BY <1>1 DEF WorkflowInv, JobInv
<1>5. WfTypes' /\ OthersWait(p) /\ stage'[p] = "failed"
  BY <1>1, CallTypes DEF Stages, WorkflowInv, WfTypes
<1>6. JobInv(p)'
  BY <1>1, <1>4, <1>5, Observed DEF JobInv
<1> QED
  BY <1>2, <1>3, <1>5, <1>6, WorkStep

(* The workflow ends; it reports success only from its last task.          *)
LEMMA FinishJob ==
  ASSUME WorkflowInv, NEW p \in Procs, NEW how \in {"none", "SUCCESS", "FAILED"},
         Finish(p, how), UNCHANGED reached, how = "SUCCESS" => stage[p] = "release"
  PROVE  WfTypes' /\ OthersWait(p) /\ JobInv(p)' /\ stage'[p] = "idle" /\ lease'[p] = NoToken
<1>1. JobInv(p)
  BY DEF WorkflowInv
<1>2. /\ stage' = [stage EXCEPT ![p] = "idle"] /\ job' = [job EXCEPT ![p] = NoJob]
      /\ lease' = [lease EXCEPT ![p] = NoToken]
      /\ committed' = [committed EXCEPT ![p] = FALSE]
      /\ result' = [result EXCEPT ![p] = how] /\ UNCHANGED <<refusal, runs, reached>>
  BY DEF Finish, Enter
<1>3. /\ stage'[p] = "idle" /\ lease'[p] = NoToken /\ committed'[p] = FALSE
      /\ result'[p] = how /\ reached'[p] = reached[p]
  BY <1>2 DEF WorkflowInv, WfTypes
<1>4. WfTypes' /\ OthersWait(p)
  BY <1>2 DEF WorkflowInv, WfTypes, OthersWait, Stages
<1>5. JobInv(p)'
  BY <1>1, <1>3 DEF JobInv
<1> QED
  BY <1>3, <1>4, <1>5

(* A task that leaves what the workflow knows as it is.                    *)
LEMMA EnterJob ==
  ASSUME WorkflowInv, NEW p \in Procs, NEW next \in Stages, Enter(p, next),
         UNCHANGED <<job, committed, result, reached, runs>>,
         stage[p] \in {"lock", "source", "target", "break", "executing"},
         stage[p] = "executing" => pc[p] = "isLocked",
         next \in {"source", "target", "execute", "failed", "break", "transfer"},
         NEW k \in Tokens \cup {NoToken}, lease' = [lease EXCEPT ![p] = k],
         NEW r \in Tokens \cup {NoToken}, refusal' = [refusal EXCEPT ![p] = r]
  PROVE  WfTypes' /\ OthersWait(p) /\ JobInv(p)'
<1>1. JobInv(p)
  BY DEF WorkflowInv
<1>2. WfTypes' /\ OthersWait(p) /\ stage'[p] = next
  BY DEF Enter, WorkflowInv, WfTypes, OthersWait
<1>3. JobInv(p)'
  BY <1>1, <1>2 DEF JobInv, AfterCommit
<1> QED
  BY <1>2, <1>3

LEMMA SameTokens ==
  ASSUME WorkflowInv, NEW p \in Procs
  PROVE  /\ lease[p] \in Tokens \cup {NoToken} /\ lease = [lease EXCEPT ![p] = lease[p]]
         /\ refusal[p] \in Tokens \cup {NoToken}
         /\ refusal = [refusal EXCEPT ![p] = refusal[p]]
  BY DEF WorkflowInv, WfTypes

LEMMA CallsStay ==
  ASSUME UNCHANGED procVars, NEW p \in Procs PROVE OthersStay(p)
  BY DEF procVars, OthersStay

(* The item is removed or left alone, and no call moves.                   *)
LEMMA LockTaskStep ==
  ASSUME StoreInv, UNCHANGED <<storeVars, lockedBy, over, procVars, calls, second>>,
         current' \in {current, NoToken}
  PROVE  StoreInv'
<1>1. calls <= MaxCalls /\ over \subseteq Tokens
  BY GroupStoreAssumption DEF StoreInv, TypeOK
<1> QED
  BY <1>1, SameItems, RequestStep

(* AcquireLockTask writes the item with a token that no call has.          *)
LEMMA TaskLockStep ==
  ASSUME StoreInv, NEW p \in Procs, TaskLock(p)
  PROVE  StoreInv' /\ calls + 1 \in Tokens /\ lockedBy[calls + 1] = NoCluster
<1> USE GroupStoreAssumption
<1>1. calls \in Nat /\ calls + 1 \in Tokens /\ calls' = calls + 1 /\ calls' \in 0 .. MaxCalls
  BY DEF TaskLock, StoreInv, TypeOK, Tokens
<1>2. /\ current' = calls + 1
      /\ lockedBy' = [lockedBy EXCEPT ![calls + 1] = ClusterOf[p]]
      /\ UNCHANGED <<storeVars, over, procVars, second>>
  BY DEF TaskLock, WriteLock
<1>3. lockedBy[calls + 1] = NoCluster
  BY <1>1 DEF StoreInv, LockGranted
<1>4. TypeOK'
  BY <1>1, <1>2 DEF StoreInv, TypeOK, storeVars, procVars
<1>5. \A q \in Procs : ArgsKnown(q)'
  BY <1>2
  DEF StoreInv, ArgsKnown, TargetKnown, SourceKnown, SnapKnown, OpKnown, Proper, procVars
<1>6. \A q \in Procs : TokenFresh(q)'
  <2> SUFFICES ASSUME NEW q \in Procs PROVE TokenFresh(q)'
    OBVIOUS
  <2>1. pc[q] # "idle" => /\ call[q].id \in Tokens /\ call[q].id <= calls
                          /\ call[q].id # calls + 1
    BY <1>1 DEF StoreInv, TokenFresh, Tokens
  <2>2. pc[q] # "idle" => lockedBy'[call[q].id] = lockedBy[call[q].id]
    BY <1>2, <2>1 DEF StoreInv, TypeOK
  <2> QED
    BY <1>1, <1>2, <2>1, <2>2 DEF StoreInv, TokenFresh, procVars, Tokens
<1>7. TokensApart'
  BY <1>2 DEF StoreInv, TokensApart, procVars
<1>8. LockGranted'
  <2>1. current' # NoToken => lockedBy'[current'] # NoCluster
    BY <1>1, <1>2 DEF StoreInv, TypeOK
  <2>2. \A k \in Tokens : lockedBy'[k] # NoCluster => k <= calls'
    BY <1>1, <1>2 DEF StoreInv, TypeOK, LockGranted, Tokens
  <2> QED
    BY <2>1, <2>2 DEF LockGranted
<1>9. ItemsWell'
  BY <1>2, SameItems
<1> QED
  BY <1>1, <1>3, <1>4, <1>5, <1>6, <1>7, <1>8, <1>9 DEF StoreInv, ItemsWell

LEMMA ProcessStep ==
  ASSUME WorkflowInv, NEW p \in Procs, NEW t \in Clusters, NEW m \in Modes, NEW f \in Forces,
         ProcessFailover(p, t, m, f)
  PROVE  WorkflowInv'
<1>1. JobInv(p) /\ stage[p] = "idle"
  BY DEF ProcessFailover, WorkflowInv
<1>2. PICK source \in GlobalState(p).primary :
        job' = [job EXCEPT ![p] = [target |-> t, mode |-> m, force |-> f, source |-> source]]
  BY DEF ProcessFailover
<1>3. [target |-> t, mode |-> m, force |-> f, source |-> source] \in Job
  BY DEF GlobalState, Job
<1>4. PICK next \in {"source", "lock"} : Enter(p, next)
  BY DEF ProcessFailover
<1>5. /\ reached' = [reached EXCEPT ![p] = FALSE]
      /\ refusal' = [refusal EXCEPT ![p] = NoToken]
      /\ result' = [result EXCEPT ![p] = "none"]
      /\ runs < MaxRuns /\ runs' = runs + 1
      /\ UNCHANGED <<vars, lease, committed>>
  BY DEF ProcessFailover
<1>6. WfTypes' /\ OthersWait(p)
  BY <1>2, <1>3, <1>4, <1>5, FailoverWorkflowAssumption
  DEF WorkflowInv, WfTypes, OthersWait, Enter, Stages
<1>7. stage'[p] = next /\ job'[p] \in Job /\ result'[p] = "none"
  BY <1>2, <1>3, <1>4, <1>5 DEF WorkflowInv, WfTypes, Enter
<1>8. JobInv(p)'
  BY <1>1, <1>5, <1>7 DEF JobInv
<1>9. StoreInv' /\ OthersStay(p)
  BY <1>5, StoreNext DEF WorkflowInv, vars, OthersStay
<1> QED
  BY <1>6, <1>8, <1>9, WorkStep

LEMMA LockStep ==
  ASSUME WorkflowInv, NEW p \in Procs, AcquireLockTask(p) \/ TaskLockLost(p)
  PROVE  WorkflowInv'
<1>1. TaskLock(p)
  BY DEF AcquireLockTask, TaskLockLost
<1>2. StoreInv' /\ calls + 1 \in Tokens /\ OthersStay(p) /\ stage[p] = "lock"
  BY <1>1, TaskLockStep, CallsStay DEF WorkflowInv, TaskLock
<1>3. CASE AcquireLockTask(p)
  <2>1. WfTypes' /\ OthersWait(p) /\ JobInv(p)'
    BY <1>2, <1>3, EnterJob, SameTokens DEF AcquireLockTask, Stages
  <2> QED
    BY <1>2, <2>1, WorkStep
<1>4. CASE TaskLockLost(p)
  BY <1>2, <1>4, FinishJob, WorkStep DEF TaskLockLost
<1> QED
  BY <1>3, <1>4

LEMMA RoleStep ==
  ASSUME WorkflowInv, NEW p \in Procs, UpdateSourceRole(p) \/ UpdateTargetRole(p)
  PROVE  WorkflowInv'
<1>1. PICK state \in {"STANDBY", "PRIMARY"} : \E c : UpdateRole(p, c, state)
  BY DEF UpdateSourceRole, UpdateTargetRole
<1>2. PICK next \in {"target", "execute", "failed"} : Enter(p, next)
  BY DEF UpdateSourceRole, UpdateTargetRole
<1>3. /\ UNCHANGED <<config, history, lockVars, procVars, calls, second>>
      /\ UNCHANGED <<job, lease, committed, refusal, result, reached, runs>>
      /\ stage[p] \in {"source", "target"}
  BY DEF UpdateSourceRole, UpdateTargetRole, UpdateRole
<1>4. ItemsWell'
  <2>1. [health |-> "OK", state |-> state] \in RowRecord
    BY DEF RowRecord, Healths, RowStates
  <2>2. rows' = rows \/ \E c : rows' = [rows EXCEPT ![c] = [health |-> "OK", state |-> state]]
    BY <1>1 DEF UpdateRole
  <2>3. rows' \in [Clusters -> RowRecord \cup {NoRow}]
    BY <2>1, <2>2 DEF WorkflowInv, StoreInv, TypeOK
  <2> QED
    BY <1>3, <2>3 DEF WorkflowInv, StoreInv, TypeOK, ItemsWell, Proper
<1>5. StoreInv'
  <2>1. calls <= MaxCalls /\ over \subseteq Tokens
    BY GroupStoreAssumption DEF WorkflowInv, StoreInv, TypeOK
  <2> QED
    BY <1>3, <1>4, <2>1, RequestStep DEF WorkflowInv, lockVars
<1>6. OthersStay(p)
  BY <1>3, CallsStay
<1>7. WfTypes' /\ OthersWait(p) /\ JobInv(p)'
  BY <1>2, <1>3, EnterJob, SameTokens DEF Stages
<1> QED
  BY <1>5, <1>6, <1>7, WorkStep

LEMMA RefusedStep ==
  ASSUME WorkflowInv, NEW p \in Procs, NEW k \in Tokens,
         BreakLock(p, k) \/ RefusedByLock(p, k)
  PROVE  WorkflowInv'
<1>1. /\ stage[p] = "executing" /\ pc[p] = "isLocked" /\ Return(p)
      /\ UNCHANGED <<storeVars, lockVars>>
  BY DEF BreakLock, RefusedByLock, Refused
<1>2. StoreInv' /\ OthersStay(p)
  BY <1>1, SameItems, ReturnStep, ReturnOthers DEF WorkflowInv, lockVars
<1>3. JobInv(p)
  BY DEF WorkflowInv
<1>4. CASE BreakLock(p, k)
  <2>1. WfTypes' /\ OthersWait(p) /\ JobInv(p)'
    BY <1>1, <1>4, EnterJob, SameTokens DEF BreakLock, Stages
  <2> QED
    BY <1>2, <2>1, WorkStep
<1>5. CASE RefusedByLock(p, k)
  <2>1. /\ stage' = [stage EXCEPT ![p] = "idle"] /\ job' = [job EXCEPT ![p] = NoJob]
        /\ lease' = [lease EXCEPT ![p] = NoToken] /\ refusal' = [refusal EXCEPT ![p] = k]
        /\ result' = [result EXCEPT ![p] = "FAILED"]
        /\ UNCHANGED <<committed, reached, runs>>
    BY <1>5 DEF RefusedByLock, Enter
  <2>2. WfTypes' /\ OthersWait(p)
    BY <2>1 DEF WorkflowInv, WfTypes, OthersWait, Stages
  <2>3. stage'[p] = "idle" /\ lease'[p] = NoToken /\ result'[p] = "FAILED"
    BY <2>1 DEF WorkflowInv, WfTypes
  <2>4. JobInv(p)'
    BY <1>1, <1>3, <2>1, <2>3 DEF JobInv, AfterCommit
  <2> QED
    BY <1>2, <2>2, <2>4, WorkStep
<1> QED
  BY <1>4, <1>5

LEMMA ReleaseStep ==
  ASSUME WorkflowInv, NEW p \in Procs, ReleaseToBreak(p) \/ ReleaseLockTask(p)
  PROVE  WorkflowInv'
<1>1. /\ UNCHANGED <<storeVars, lockedBy, over, procVars, calls, second>>
      /\ current' \in {current, NoToken}
  BY DEF ReleaseToBreak, ReleaseOwn, ReleaseLockTask
<1>2. StoreInv' /\ OthersStay(p)
  BY <1>1, LockTaskStep, CallsStay DEF WorkflowInv
<1>3. CASE ReleaseToBreak(p)
  <2> DEFINE k == IF current' # current THEN NoToken ELSE lease[p]
  <2>1. k \in Tokens \cup {NoToken} /\ lease' = [lease EXCEPT ![p] = k]
    BY <1>3, SameTokens DEF ReleaseToBreak
  <2> HIDE DEF k
  <2>2. WfTypes' /\ OthersWait(p) /\ JobInv(p)'
    BY <1>3, <2>1, EnterJob, SameTokens DEF ReleaseToBreak, ReleaseOwn, Stages
  <2> QED
    BY <1>2, <2>2, WorkStep
<1>4. CASE ReleaseLockTask(p)
  BY <1>2, <1>4, FinishJob, WorkStep DEF ReleaseLockTask
<1> QED
  BY <1>3, <1>4

LEMMA TaskFailsStep ==
  ASSUME WorkflowInv, NEW p \in Procs, TaskFails(p) PROVE WorkflowInv'
<1>1. StoreInv' /\ OthersStay(p)
  BY StoreNext DEF TaskFails, WorkflowInv, vars, OthersStay
<1> QED
  BY <1>1, FinishJob, WorkStep DEF TaskFails

LEMMA OperatorCrashStep ==
  ASSUME WorkflowInv, NEW p \in Procs, OperatorCrash(p) PROVE WorkflowInv'
<1>1. Return(p) /\ UNCHANGED <<storeVars, lockVars>>
  BY DEF OperatorCrash, Return
<1>2. StoreInv' /\ OthersStay(p)
  BY <1>1, SameItems, ReturnStep, ReturnOthers DEF WorkflowInv, lockVars
<1> QED
  BY <1>2, FinishJob, WorkStep DEF OperatorCrash

LEMMA WorkflowStays ==
  ASSUME WorkflowInv, StoreInv', UNCHANGED <<wfVars, procVars>> PROVE WorkflowInv'
  BY DEF wfVars, procVars, WorkflowInv, WfTypes, JobInv

LEMMA WorkflowNextInv == WorkflowInv /\ [WorkflowNext]_allVars => WorkflowInv'
<1> SUFFICES ASSUME WorkflowInv, [WorkflowNext]_allVars PROVE WorkflowInv'
  OBVIOUS
<1>1. CASE LeaseRunsOut
  BY <1>1, ExpireStep, WorkflowStays DEF LeaseRunsOut, Expire, WorkflowInv
<1>2. CASE UNCHANGED allVars
  BY <1>2, StoreNext, WorkflowStays DEF allVars, vars, procVars, WorkflowInv
<1> QED
  BY <1>1, <1>2, ProcessStep, LockStep, RoleStep, CallBeginsStep, CallGoesOnStep,
     CallSucceedsStep, CallErrsStep, RefusedStep, ReleaseStep, TaskFailsStep,
     OperatorCrashStep
  DEF WorkflowNext

LEMMA WorkflowInitInv == WorkflowInit => WorkflowInv
<1> SUFFICES ASSUME WorkflowInit PROVE WorkflowInv
  OBVIOUS
<1>1. StoreInv
  BY StoreInit DEF WorkflowInit
<1>2. WfTypes
  BY FailoverWorkflowAssumption DEF WorkflowInit, WfTypes, Stages
<1>3. \A p \in Procs : JobInv(p)
  BY DEF WorkflowInit, JobInv
<1> QED
  BY <1>1, <1>2, <1>3 DEF WorkflowInv

(* The call that a workflow makes is for its target and commits only by a  *)
(* transaction, and what the call writes is known (module GroupStore).     *)
THEOREM WorkflowInvariant == WorkflowSpec => []WorkflowInv
  BY WorkflowInitInv, WorkflowNextInv, PTL DEF WorkflowSpec

(* Items, calls and workflows are of the declared types, wherever a task   *)
(* fails and whichever lock is broken.                                     *)
THEOREM WorkflowTypeCorrect == WorkflowSpec => []WorkflowTypeOK
<1>1. WorkflowInv => WorkflowTypeOK
  BY DEF WorkflowInv, StoreInv, WfTypes, WorkflowTypeOK
<1> QED
  BY <1>1, WorkflowInvariant, PTL

(* A Failover that is reported as a success has made its target the owner  *)
(* of the group, by ExecuteFailover or by the transfer after a broken lock.*)
THEOREM SuccessIsOwned == WorkflowSpec => []SuccessMeansOwner
<1>1. WorkflowInv => SuccessMeansOwner
  BY DEF WorkflowInv, JobInv, SuccessMeansOwner
<1> QED
  BY <1>1, WorkflowInvariant, PTL

----------------------------------------------------------------------------
(* The locks of workflows and calls (module Lease).                        *)
absHeld == [x \in Procs \X {"task", "call"} |->
              IF x[2] = "task" THEN lease[x[1]] ELSE held[x[1]]]

WorkLease == [WL!LeaseNext]_WL!leaseVars

LEMMA WorkTokens == WL!NoToken = NoToken /\ L!NoToken = NoToken
  BY DEF WL!NoToken, L!NoToken, NoToken

LEMMA WorkLeaseStays ==
  ASSUME UNCHANGED <<lockVars, held, lease>> PROVE WorkLease
<1>1. absHeld' = absHeld /\ Granted' = Granted
  BY DEF absHeld, Granted, lockVars
<1> QED
  BY <1>1 DEF WorkLease, WL!leaseVars, absHeld, lockVars

(* What absHeld becomes when a call, or a workflow, gets or loses a token. *)
LEMMA CallTokenChanges ==
  ASSUME NEW c \in Procs, NEW k, UNCHANGED lease,
         held \in [Procs -> Tokens \cup {NoToken}], held' = [held EXCEPT ![c] = k]
  PROVE  absHeld' = [absHeld EXCEPT ![<<c, "call">>] = k]
<1> DEFINE Callers == Procs \X {"task", "call"}
<1>1. ASSUME NEW q \in Procs, NEW s \in {"task", "call"}
      PROVE  absHeld'[<<q, s>>] = IF <<q, s>> = <<c, "call">> THEN k ELSE absHeld[<<q, s>>]
  <2>1. CASE s = "task"
    BY <2>1 DEF absHeld
  <2>2. CASE s = "call"
    <3>1. held'[q] = IF q = c THEN k ELSE held[q]
      OBVIOUS
    <3> QED
      BY <2>2, <3>1 DEF absHeld
  <2> QED
    BY <2>1, <2>2
<1>2. \A x \in Callers : absHeld'[x] = IF x = <<c, "call">> THEN k ELSE absHeld[x]
  <2> SUFFICES ASSUME NEW x \in Callers
               PROVE  absHeld'[x] = IF x = <<c, "call">> THEN k ELSE absHeld[x]
    OBVIOUS
  <2>1. PICK q \in Procs : \E s \in {"task", "call"} : x = <<q, s>>
    OBVIOUS
  <2> QED
    BY <1>1, <2>1
<1>3. /\ absHeld = [x \in Callers |-> absHeld[x]]
      /\ absHeld' = [x \in Callers |-> absHeld'[x]]
  BY DEF absHeld
<1>4. [absHeld EXCEPT ![<<c, "call">>] = k]
        = [x \in Callers |-> IF x = <<c, "call">> THEN k ELSE absHeld[x]]
  BY <1>3
<1> QED
  BY <1>2, <1>3, <1>4

LEMMA TaskTokenChanges ==
  ASSUME NEW p \in Procs, NEW k, UNCHANGED held,
         lease \in [Procs -> Tokens \cup {NoToken}], lease' = [lease EXCEPT ![p] = k]
  PROVE  absHeld' = [absHeld EXCEPT ![<<p, "task">>] = k]
<1> DEFINE Callers == Procs \X {"task", "call"}
<1>1. ASSUME NEW q \in Procs, NEW s \in {"task", "call"}
      PROVE  absHeld'[<<q, s>>] = IF <<q, s>> = <<p, "task">> THEN k ELSE absHeld[<<q, s>>]
  <2>1. CASE s = "call"
    BY <2>1 DEF absHeld
  <2>2. CASE s = "task"
    <3>1. lease'[q] = IF q = p THEN k ELSE lease[q]
      OBVIOUS
    <3> QED
      BY <2>2, <3>1 DEF absHeld
  <2> QED
    BY <2>1, <2>2
<1>2. \A x \in Callers : absHeld'[x] = IF x = <<p, "task">> THEN k ELSE absHeld[x]
  <2> SUFFICES ASSUME NEW x \in Callers
               PROVE  absHeld'[x] = IF x = <<p, "task">> THEN k ELSE absHeld[x]
    OBVIOUS
  <2>1. PICK q \in Procs : \E s \in {"task", "call"} : x = <<q, s>>
    OBVIOUS
  <2> QED
    BY <1>1, <2>1
<1>3. /\ absHeld = [x \in Callers |-> absHeld[x]]
      /\ absHeld' = [x \in Callers |-> absHeld'[x]]
  BY DEF absHeld
<1>4. [absHeld EXCEPT ![<<p, "task">>] = k]
        = [x \in Callers |-> IF x = <<p, "task">> THEN k ELSE absHeld[x]]
  BY <1>3
<1> QED
  BY <1>2, <1>3, <1>4

(* What a call does with its lock, while the workflow keeps its own.       *)
LEMMA CallLease ==
  ASSUME WorkflowInv, [Next]_vars, UNCHANGED lease PROVE WorkLease
<1> DEFINE Callers == Procs \X {"task", "call"}
<1>0. held \in [Procs -> Tokens \cup {NoToken}] /\ LeaseStep
  BY NextLease DEF WorkflowInv, StoreInv, TypeOK
<1>00. \A q \in Procs : <<q, "call">> \in Callers
  OBVIOUS
<1>1. ASSUME NEW c \in Procs, NEW k \in Tokens, L!Grant(c, k)
      PROVE  WL!Grant(<<c, "call">>, k)
  <2>1. absHeld[<<c, "call">>] = NoToken
    BY <1>1, WorkTokens DEF L!Grant, absHeld
  <2>2. CASE held' = held
    <3>1. absHeld' = absHeld
      BY <2>2 DEF absHeld
    <3> QED
      BY <1>1, <2>1, <3>1, WorkTokens DEF L!Grant, WL!Grant, absHeld
  <2>3. CASE held' = [held EXCEPT ![c] = k]
    <3>1. absHeld' = [absHeld EXCEPT ![<<c, "call">>] = k]
      BY <1>0, <2>3, CallTokenChanges
    <3> QED
      BY <1>1, <2>1, <3>1, WorkTokens DEF L!Grant, WL!Grant, absHeld
  <2> QED
    BY <1>1, <2>2, <2>3 DEF L!Grant
<1>2. ASSUME NEW c \in Procs, L!GiveUp(c) PROVE WL!GiveUp(<<c, "call">>)
  <2>1. absHeld[<<c, "call">>] = held[c] /\ held[c] # NoToken
    BY <1>2, WorkTokens DEF L!GiveUp, absHeld
  <2>2. absHeld' = [absHeld EXCEPT ![<<c, "call">>] = NoToken]
    BY <1>0, <1>2, WorkTokens, CallTokenChanges DEF L!GiveUp
  <2> QED
    BY <1>2, <2>1, <2>2, WorkTokens DEF L!GiveUp, WL!GiveUp, absHeld
<1>3. ASSUME NEW S \in SUBSET Procs, L!Forget(S) PROVE WL!Forget(S \X {"call"})
  <2>1. held' = [c \in Procs |-> IF c \in S THEN NoToken ELSE held[c]]
    BY <1>3, WorkTokens DEF L!Forget
  <2>2. absHeld' = [x \in Callers |-> IF x \in S \X {"call"} THEN NoToken ELSE absHeld[x]]
    BY <2>1 DEF absHeld
  <2> QED
    BY <1>3, <2>2, WorkTokens DEF L!Forget, WL!Forget, absHeld
<1>4. ASSUME L!Expire PROVE WL!Expire
  <2>1. absHeld' = absHeld
    BY <1>4 DEF L!Expire, absHeld
  <2> QED
    BY <1>4, <2>1 DEF L!Expire, WL!Expire, absHeld
<1>5. ASSUME L!TearDown PROVE WL!TearDown
  <2>1. absHeld' = absHeld
    BY <1>5 DEF L!TearDown, absHeld
  <2> QED
    BY <1>5, <2>1, WorkTokens DEF L!TearDown, WL!TearDown, absHeld
<1>6. ASSUME UNCHANGED L!leaseVars PROVE WorkLease
  <2>1. absHeld' = absHeld
    BY <1>6 DEF L!leaseVars, absHeld
  <2> QED
    BY <1>6, <2>1 DEF L!leaseVars, WorkLease, WL!leaseVars, absHeld
<1>7. \A S \in SUBSET Procs : S \X {"call"} \in SUBSET Callers
  OBVIOUS
<1> QED
  BY <1>0, <1>00, <1>1, <1>2, <1>3, <1>4, <1>5, <1>6, <1>7
  DEF LeaseStep, L!LeaseNext, WorkLease, WL!LeaseNext

(* A workflow that stops using its lock; the item goes only if it is the   *)
(* workflow's.                                                             *)
LEMMA TaskGivesUp ==
  ASSUME WorkflowInv, NEW p \in Procs, lease' = [lease EXCEPT ![p] = NoToken],
         UNCHANGED <<held, lockedBy, over>>,
         current' = current \/ (current = lease[p] /\ current' = NoToken)
  PROVE  WorkLease
<1>1. lease \in [Procs -> Tokens \cup {NoToken}] /\ Granted' = Granted
  BY DEF WorkflowInv, WfTypes, Granted
<1>2. CASE lease[p] = NoToken
  BY <1>1, <1>2, WorkLeaseStays DEF lockVars
<1>3. CASE lease[p] # NoToken
  <2>1. <<p, "task">> \in Procs \X {"task", "call"} /\ absHeld[<<p, "task">>] = lease[p]
    BY DEF absHeld
  <2>2. absHeld' = [absHeld EXCEPT ![<<p, "task">>] = NoToken]
    BY <1>1, TaskTokenChanges
  <2>3. WL!GiveUp(<<p, "task">>)
    BY <1>1, <1>3, <2>1, <2>2, WorkTokens DEF WL!GiveUp, absHeld
  <2> QED
    BY <2>1, <2>3 DEF WorkLease, WL!LeaseNext
<1> QED
  BY <1>2, <1>3

LEMMA GrantIsLease ==
  ASSUME NEW x \in Procs \X {"task", "call"}, NEW k \in Tokens, WL!Grant(x, k)
  PROVE  WorkLease
  BY DEF WorkLease, WL!LeaseNext

(* The write of AcquireLockTask is a grant, known to the workflow or not.  *)
LEMMA TaskGrants ==
  ASSUME WorkflowInv, NEW p \in Procs, TaskLock(p), lease[p] = NoToken,
         lease' = [lease EXCEPT ![p] = calls + 1] \/ lease' = lease
  PROVE  WorkLease
<1> DEFINE x == <<p, "task">>
<1>0. calls + 1 \in Tokens /\ lockedBy[calls + 1] = NoCluster
  BY TaskLockStep DEF WorkflowInv
<1>1. PICK k \in Tokens : k = calls + 1 /\ lockedBy[k] = NoCluster
  BY <1>0
<1>2. /\ current = NoToken \/ current \in over
      /\ current' = k /\ over' = over /\ held' = held
      /\ lockedBy' = [lockedBy EXCEPT ![k] = ClusterOf[p]]
  BY <1>1 DEF TaskLock, WriteLock, procVars
<1>3. lease \in [Procs -> Tokens \cup {NoToken}]
      /\ lockedBy \in [Tokens -> Clusters \cup {NoCluster}]
  BY DEF WorkflowInv, WfTypes, StoreInv, TypeOK
<1>4. k \in Tokens \ Granted /\ Granted' = Granted \cup {k}
  <2>1. ClusterOf[p] # NoCluster
    BY GroupStoreAssumption
  <2> QED
    BY <1>1, <1>2, <1>3, <2>1 DEF Granted
<1>5. x \in Procs \X {"task", "call"} /\ absHeld[x] = NoToken
  BY DEF absHeld
<1>6. absHeld' \in {absHeld, [absHeld EXCEPT ![x] = k]}
  <2>1. CASE lease' = lease
    BY <1>2, <2>1 DEF absHeld
  <2>2. CASE lease' = [lease EXCEPT ![p] = k]
    BY <1>2, <1>3, <2>2, TaskTokenChanges
  <2> QED
    BY <1>1, <2>1, <2>2
<1> HIDE DEF x
<1>7. WL!Grant(x, k)
  BY <1>2, <1>4, <1>5, <1>6, WorkTokens DEF WL!Grant, absHeld
<1> QED
  BY <1>1, <1>5, <1>7, GrantIsLease

(* A crash loses the workflow's token and the one of its call.             *)
LEMMA CrashForgets ==
  ASSUME WorkflowInv, NEW p \in Procs, OperatorCrash(p) PROVE WorkLease
<1> DEFINE S == {p} \X {"task", "call"}
<1>1. /\ held' = [held EXCEPT ![p] = NoToken] /\ lease' = [lease EXCEPT ![p] = NoToken]
      /\ UNCHANGED lockVars
  BY DEF OperatorCrash, Finish
<1>2. /\ held \in [Procs -> Tokens \cup {NoToken}]
      /\ lease \in [Procs -> Tokens \cup {NoToken}]
  BY DEF WorkflowInv, WfTypes, StoreInv, TypeOK
<1>3. absHeld' = [x \in Procs \X {"task", "call"} |-> IF x \in S THEN NoToken ELSE absHeld[x]]
  BY <1>1, <1>2 DEF absHeld
<1>4. S \in SUBSET (Procs \X {"task", "call"}) /\ Granted' = Granted
  BY <1>1 DEF Granted, lockVars
<1> HIDE DEF S
<1>5. WL!Forget(S)
  BY <1>1, <1>3, <1>4, WorkTokens DEF WL!Forget, absHeld, lockVars
<1> QED
  BY <1>4, <1>5 DEF WorkLease, WL!LeaseNext

LEMMA WorkflowNextLease == WorkflowInv /\ [WorkflowNext]_allVars => WorkLease
<1> SUFFICES ASSUME WorkflowInv, [WorkflowNext]_allVars PROVE WorkLease
  OBVIOUS
<1>0. \A p \in Procs : JobInv(p)
  BY DEF WorkflowInv
<1>1. ASSUME NEW p \in Procs, NEW t \in Clusters, NEW m \in Modes, NEW f \in Forces,
             ProcessFailover(p, t, m, f)
      PROVE  WorkLease
  BY <1>1, CallLease DEF ProcessFailover
<1>2. ASSUME NEW p \in Procs, AcquireLockTask(p) \/ TaskLockLost(p) PROVE WorkLease
  <2>1. TaskLock(p) /\ lease[p] = NoToken
    BY <1>0, <1>2 DEF AcquireLockTask, TaskLockLost, TaskLock, JobInv
  <2>2. lease' = [lease EXCEPT ![p] = calls + 1] \/ lease' = lease
    BY <1>2, <2>1 DEF AcquireLockTask, TaskLockLost, Finish, WorkflowInv, WfTypes
  <2> QED
    BY <2>1, <2>2, TaskGrants
<1>3. ASSUME NEW p \in Procs, UpdateSourceRole(p) \/ UpdateTargetRole(p) PROVE WorkLease
  BY <1>3, WorkLeaseStays DEF UpdateSourceRole, UpdateTargetRole, UpdateRole, procVars
<1>4. ASSUME NEW p \in Procs, CallExecuteFailover(p) \/ CallTransferOwnership(p)
      PROVE  WorkLease
  <2>1. job[p] \in Job
    BY <1>0, <1>4 DEF CallExecuteFailover, CallTransferOwnership, JobInv
  <2>2. job[p].target \in Clusters /\ (job[p].mode = "UPTIME") \in BOOLEAN
    BY <2>1 DEF Job
  <2>3. Next /\ UNCHANGED lease
    BY <1>4, <2>2 DEF CallExecuteFailover, CallTransferOwnership, Calls, Next
  <2> QED
    BY <2>3, CallLease
<1>5. ASSUME NEW p \in Procs, CallStep(p) \/ CallSucceeds(p) \/ CallErrs(p) PROVE WorkLease
  <2>1. SwitchOverSteps(p) \/ ConfigSteps(p) \/ CallFails(p) \/ AnswerLost(p)
    BY <1>5 DEF CallStep, CallSucceeds, CallErrs, SwitchOverSteps, ConfigSteps
  <2>2. UNCHANGED lease
    BY <1>5 DEF CallStep, CallSucceeds, CallErrs
  <2> QED
    BY <2>1, <2>2, CallNext, CallLease
<1>6. ASSUME NEW p \in Procs, NEW k \in Tokens, BreakLock(p, k) PROVE WorkLease
  <2>1. Crash(p) /\ UNCHANGED lease
    BY <1>6 DEF BreakLock, Refused, Crash
  <2> QED
    BY <2>1, CallLease DEF Next, Failures
<1>7. ASSUME NEW p \in Procs, NEW k \in Tokens, RefusedByLock(p, k) PROVE WorkLease
  <2>1. /\ pc[p] = "isLocked" /\ held' = [held EXCEPT ![p] = NoToken]
        /\ UNCHANGED lockVars /\ lease' = [lease EXCEPT ![p] = NoToken]
    BY <1>7 DEF RefusedByLock, Refused, Return
  <2>2. held' = held
    BY <2>1 DEF WorkflowInv, StoreInv, TypeOK, TokenFresh, Holding, Underway
  <2> QED
    BY <2>1, <2>2, TaskGivesUp DEF lockVars
<1>8. ASSUME NEW p \in Procs, ReleaseToBreak(p) PROVE WorkLease
  <2>1. /\ (current = lease[p] /\ current' = NoToken) \/ UNCHANGED current
        /\ lease' = [lease EXCEPT ![p] = IF current' # current THEN NoToken ELSE @]
        /\ UNCHANGED <<lockedBy, over, held>>
    BY <1>8 DEF ReleaseToBreak, ReleaseOwn, procVars
  <2>2. CASE current' = current
    BY <2>1, <2>2, WorkLeaseStays DEF lockVars, WorkflowInv, WfTypes
  <2>3. CASE current' # current
    BY <2>1, <2>3, TaskGivesUp
  <2> QED
    BY <2>2, <2>3
<1>9. ASSUME NEW p \in Procs, ReleaseLockTask(p) PROVE WorkLease
  BY <1>9, TaskGivesUp DEF ReleaseLockTask, Finish, procVars
<1>10. ASSUME NEW p \in Procs, TaskFails(p) PROVE WorkLease
  BY <1>10, TaskGivesUp DEF TaskFails, Finish, vars
<1>11. CASE LeaseRunsOut
  BY <1>11, CallLease DEF LeaseRunsOut, Next, wfVars
<1>12. CASE UNCHANGED allVars
  BY <1>12, CallLease DEF allVars, wfVars
<1> QED
  BY <1>1, <1>2, <1>3, <1>4, <1>5, <1>6, <1>7, <1>8, <1>9, <1>10, <1>11, <1>12,
     CrashForgets
  DEF WorkflowNext

(* The lock of a workflow and the lock of the ExecuteFailover inside it    *)
(* compete as any two leases do, and breaking a lock with one's own token  *)
(* removes no other workflow's lock.                                       *)
THEOREM WorkflowLeases == WorkflowSpec => WorkflowLease
<1>1. WorkflowInit => WL!LeaseInit
  <2> SUFFICES ASSUME WorkflowInit PROVE WL!LeaseInit
    OBVIOUS
  <2>1. absHeld = [x \in Procs \X {"task", "call"} |-> NoToken]
    BY DEF WorkflowInit, Init, absHeld
  <2> QED
    BY <2>1, WorkTokens DEF WorkflowInit, Init, WL!LeaseInit, absHeld, Granted
<1>2. WorkflowInv /\ [WorkflowNext]_allVars => [WL!LeaseNext]_WL!leaseVars
  BY WorkflowNextLease DEF WorkLease
<1> QED
  BY <1>1, <1>2, WorkflowInvariant, PTL DEF WorkflowSpec, WL!LeaseSpec, WorkflowLease

WLP == INSTANCE Lease_proof WITH
         Callers <- Procs \X {"task", "call"}, granted <- Granted, held <- absHeld

OneLiveLock ==
  \A x, y \in Procs \X {"task", "call"} :
    /\ x # y
    /\ absHeld[x] # NoToken
    /\ absHeld[y] # NoToken
    => absHeld[x] \in over \/ absHeld[y] \in over

(* Of two workflows, and of a workflow and its own ExecuteFailover, only   *)
(* one holds a lock that is not over, however locks are broken: the lock   *)
(* of AcquireLockTask stands in the way of the call that follows it.       *)
THEOREM WorkflowsExclude == WorkflowSpec => []OneLiveLock
<1>1. WLP!NoToken \notin Tokens
  BY GroupStoreAssumption DEF WLP!NoToken, Tokens
<1>2. WLP!LeaseSpec => []WLP!Exclusive
  BY <1>1, WLP!LeaseExclusive
<1>3. WL!LeaseInit => WLP!LeaseInit
  BY DEF WL!LeaseInit, WLP!LeaseInit, WL!NoToken, WLP!NoToken, absHeld
<1>4. [WL!LeaseNext]_WL!leaseVars => [WLP!LeaseNext]_WLP!leaseVars
  BY DEF WL!leaseVars, WLP!leaseVars, WL!LeaseNext, WLP!LeaseNext, WL!Grant, WLP!Grant,
         WL!GiveUp, WLP!GiveUp, WL!Forget, WLP!Forget, WL!Expire, WLP!Expire,
         WL!TearDown, WLP!TearDown, WL!NoToken, WLP!NoToken, absHeld
<1>5. WorkflowLease => WLP!LeaseSpec
  BY <1>3, <1>4, PTL DEF WorkflowLease, WL!LeaseSpec, WLP!LeaseSpec
<1>6. WLP!Exclusive => OneLiveLock
  BY DEF WLP!Exclusive, OneLiveLock, WLP!NoToken, NoToken
<1> QED
  BY <1>2, <1>5, <1>6, WorkflowLeases, PTL
=============================================================================
