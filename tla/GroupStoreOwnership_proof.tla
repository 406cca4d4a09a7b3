----------------------- MODULE GroupStoreOwnership_proof -----------------------
(***************************************************************************)
(* Theorems about the CONFIG item that ExecuteFailover and ExecuteFailback *)
(* write: its versions, its owner and the roles that go with it.           *)
(*                                                                         *)
(* Beyond what module GroupStore_proof knows of a call, the proofs need    *)
(* that a snapshot with the stored version is the stored item: the write   *)
(* of lastFailover puts the whole item back, its owner included.           *)
(***************************************************************************)
EXTENDS GroupStore_proof

----------------------------------------------------------------------------
(* The version of the CONFIG item.                                         *)

(* Without TransferOwnership, whose second update has no condition, and    *)
(* without the deletion of the group, every write follows the one before.  *)
Counted == Ops \cap {"transfer", "delete"} = {}

LEMMA ReadKeeps ==
  ASSUME NEW p \in Procs, config # NoConfig, GetGroupConfig(p) PROVE config' = config
  BY DEF GetGroupConfig, Stored

NextVersion == config' # NoConfig /\ config'.version = config.version + 1

LEMMA VersionStep ==
  ASSUME Counted, StoreInv, [Next]_vars, config # NoConfig, config' # config
  PROVE  NextVersion
<1>0. config \in ConfigRecord
  BY DEF StoreInv, Proper
<1>1. ASSUME NEW p \in Procs, ApplyTransaction(p) PROVE NextVersion
  <2>1. config' \in ConfigRecord
    BY <1>1, TransactionItems DEF Proper
  <2>2. config' = [config EXCEPT
          !.owner = call[p].target,
          !.prev = IF call[p].op = "failback" THEN NoCluster ELSE call[p].src,
          !.version = call[p].snap.version + 1]
    BY <1>1 DEF ApplyTransaction
  <2>3. config'.version = call[p].snap.version + 1
    BY <1>0, <2>2 DEF ConfigRecord
  <2>4. call[p].snap.version = config.version
    BY <1>1 DEF ApplyTransaction, TxCondition
  <2> QED
    BY <2>1, <2>3, <2>4, GroupStoreAssumption DEF NextVersion
<1>2. ASSUME NEW value \in ConfigRecord, UpdateGroupConfig(value) PROVE NextVersion
  <2>1. config.version = value.version /\ config' = [value EXCEPT !.version = @ + 1]
    BY <1>2 DEF UpdateGroupConfig, PutAllowed
  <2>2. config' \in ConfigRecord /\ config'.version = value.version + 1
    BY <2>1 DEF ConfigRecord
  <2> QED
    BY <2>1, <2>2, GroupStoreAssumption DEF NextVersion
<1>3. ASSUME NEW p \in Procs, Calls(p) PROVE FALSE
  BY <1>3
  DEF Calls, ExecuteFailover, ExecuteFailback, UpdateSuspension, TransferOwnership,
      Begin, storeVars
<1>4. ASSUME NEW p \in Procs, SwitchOverSteps(p) PROVE NextVersion
  <2>1. CASE Transaction(p)
    BY <1>1, <2>1 DEF Transaction
  <2>2. CASE PutLastFailover(p)
    <3>1. call[p].snap \in ConfigRecord
      BY <2>2 DEF PutLastFailover, StoreInv, ArgsKnown, SnapKnown, Proper
    <3> QED
      BY <1>2, <2>2, <3>1 DEF PutLastFailover
  <2>3. CASE \/ ReadPreviousOwner(p) \/ CheckSuspended(p) \/ ReadSource(p)
             \/ ReadVersion(p) \/ ReadLastFailover(p)
    BY <2>3, ReadKeeps
    DEF ReadPreviousOwner, CheckSuspended, ReadSource, ReadVersion, ReadLastFailover, Read
  <2>4. CASE \/ CheckLock(p) \/ CheckHealth(p) \/ AcquireLock(p) \/ RecordHistory(p)
             \/ ReleaseLock(p)
    BY <2>4
    DEF CheckLock, CheckHealth, AcquireLock, PutLock, WriteLock, RecordHistory,
        PutHistory, ReleaseLock, storeVars
  <2> QED
    BY <1>4, <2>1, <2>2, <2>3, <2>4 DEF SwitchOverSteps
<1>5. ASSUME NEW p \in Procs, ConfigSteps(p) PROVE NextVersion
  <2>1. CASE ReadSuspension(p)
    BY <2>1, ReadKeeps DEF ReadSuspension, Read
  <2>2. CASE PutSuspension(p)
    <3> DEFINE s == call[p].snap
               f == call[p].flag
               n == s.version + 1
    <3>1. /\ s \in ConfigRecord /\ f \in BOOLEAN /\ n \in Nat
      BY <2>2
      DEF PutSuspension, StoreInv, TypeOK, CallRecord, ArgsKnown, SnapKnown, Proper, ConfigRecord
    <3>2. UpdateGroupConfig([s EXCEPT !.suspended = f, !.version = n])
      BY <2>2 DEF PutSuspension
    <3> HIDE DEF s, f, n
    <3>3. [s EXCEPT !.suspended = f, !.version = n] \in ConfigRecord
      BY <3>1 DEF ConfigRecord
    <3> QED
      BY <1>2, <3>2, <3>3
  <2>3. ~(\/ ReadOwner(p) \/ AlreadyOwner(p) \/ PutTransfer(p)
          \/ TransferConflict(p) \/ ForceTransfer(p))
    <3>1. pc[p] \notin {"readTransfer", "putTransfer", "forceTransfer"}
      BY DEF Counted, StoreInv, ArgsKnown, OpKnown
    <3> QED
      BY <3>1 DEF ReadOwner, AlreadyOwner, PutTransfer, TransferConflict, ForceTransfer
  <2> QED
    BY <1>5, <2>1, <2>2, <2>3 DEF ConfigSteps
<1>6. ASSUME NEW p \in Procs, Requests(p) PROVE FALSE
  BY <1>6
  DEF Requests, UpdateClusterStatus, RemoveClusterStatus, DeleteGroupConfig,
      DeleteLock, Request, Counted
<1>7. ASSUME NEW p \in Procs, Failures(p) PROVE NextVersion
  <2>1. CASE CallFails(p) \/ Crash(p)
    BY <2>1 DEF CallFails, Crash, storeVars
  <2>2. CASE AnswerLost(p)
    BY <1>1, <2>2 DEF AnswerLost, PutLock, WriteLock, PutHistory, storeVars
  <2>3. CASE CreateOnly(p)
    BY <2>3 DEF CreateOnly
  <2> QED
    BY <1>7, <2>1, <2>2, <2>3 DEF Failures
<1>8. ~Expire /\ ~UNCHANGED vars
  BY DEF Expire, storeVars, vars
<1> QED
  BY <1>3, <1>4, <1>5, <1>6, <1>7, <1>8 DEF Next

(* No write of the CONFIG item is lost to another one: UpdateGroupConfig   *)
(* and the transaction of ExecuteFailover compare the version.             *)
THEOREM VersionsCount == ASSUME Counted PROVE Spec => VersionCounts
<1>1. StoreInv /\ [Next]_vars
        => [config # NoConfig /\ config' # config
              => config' # NoConfig /\ config'.version = config.version + 1]_vars
  BY VersionStep DEF NextVersion
<1> QED
  BY <1>1, StoreInvariant, PTL DEF Spec, VersionCounts

----------------------------------------------------------------------------
(* Snapshots.                                                              *)

(* A snapshot that is to be written back is of an earlier version, or it   *)
(* is the item.                                                            *)
SnapCurrent(p) ==
  pc[p] \in {"tx", "putLast"} =>
    /\ config # NoConfig
    /\ call[p].snap.version <= config.version
    /\ call[p].snap.version = config.version => call[p].snap = config

VersionInv == StoreInv /\ \A p \in Procs : SnapCurrent(p)

(* A call that is about to write has just read the CONFIG item, or is      *)
(* where it was.                                                           *)
SnapKept(q) == pc'[q] = pc[q] /\ call'[q] = call[q]
SnapRead(q) == config' # NoConfig /\ call'[q].snap = config'

LEMMA SnapReadStep ==
  ASSUME StoreInv, NEW p \in Procs, NEW next \in PCs, Read(p, next)
  PROVE  \A q \in Procs : SnapKept(q) \/ SnapRead(q)
<1>1. /\ config' = Stored(p) /\ call' = [call EXCEPT ![p].snap = Stored(p)]
      /\ pc' = [pc EXCEPT ![p] = next]
  BY DEF Read, Goto, GetGroupConfig
<1>2. Stored(p) # NoConfig
  BY StoredProper, GroupStoreAssumption DEF Proper
<1>3. call \in [Procs -> CallRecord] /\ pc \in [Procs -> PCs]
  BY DEF StoreInv, TypeOK
<1>4. call'[p].snap = Stored(p)
  <2>1. call[p] \in CallRecord
    BY <1>3
  <2>2. call'[p] = [call[p] EXCEPT !.snap = Stored(p)]
    BY <1>1, <1>3
  <2> QED
    BY <2>1, <2>2 DEF CallRecord
<1> QED
  BY <1>1, <1>2, <1>3, <1>4 DEF SnapKept, SnapRead

LEMMA SnapGoto ==
  ASSUME StoreInv, NEW p \in Procs, NEW label \in PCs, label \notin {"tx", "putLast"},
         pc' = [pc EXCEPT ![p] = label], \A q \in Procs \ {p} : call'[q] = call[q]
  PROVE  \A q \in Procs : pc'[q] \in {"tx", "putLast"} => SnapKept(q) \/ SnapRead(q)
  BY DEF StoreInv, TypeOK, SnapKept

LEMMA SnapTaken ==
  ASSUME StoreInv, [Next]_vars
  PROVE  \A q \in Procs : pc'[q] \in {"tx", "putLast"} => SnapKept(q) \/ SnapRead(q)
<1> DEFINE Taken == \A q \in Procs :
                      pc'[q] \in {"tx", "putLast"} => SnapKept(q) \/ SnapRead(q)
<1>0. call \in [Procs -> CallRecord] /\ pc \in [Procs -> PCs]
  BY DEF StoreInv, TypeOK
<1>1. ASSUME NEW p \in Procs, Return(p) PROVE Taken
  <2>1. "idle" \in PCs /\ \A q \in Procs \ {p} : call'[q] = call[q]
    BY <1>0, <1>1 DEF Return, PCs
  <2> QED
    BY <1>1, <2>1, SnapGoto DEF Return
<1>2. ASSUME NEW p \in Procs, NEW label \in PCs \ {"tx", "putLast"}, Goto(p, label),
             \A q \in Procs \ {p} : call'[q] = call[q]
      PROVE  Taken
  BY <1>2, SnapGoto DEF Goto
<1>3. ASSUME NEW p \in Procs, NEW label \in PCs, Read(p, label) PROVE Taken
  BY <1>3, SnapReadStep
<1>4. ASSUME NEW p \in Procs, NEW name, NEW first \in PCs \ {"tx", "putLast"},
             NEW target, NEW flag, Begin(p, name, first, target, flag)
      PROVE  Taken
  <2>1. \A q \in Procs \ {p} : call'[q] = call[q]
    BY <1>0, <1>4 DEF Begin
  <2> QED
    BY <1>4, <2>1, SnapGoto DEF Begin
<1>5. ASSUME NEW p \in Procs, Calls(p) PROVE Taken
  BY <1>4, <1>5
  DEF Calls, ExecuteFailover, ExecuteFailback, UpdateSuspension, TransferOwnership, PCs
<1>6. ASSUME NEW p \in Procs, SwitchOverSteps(p) PROVE Taken
  <2> USE DEF PCs
  <2>1. CASE ReadPreviousOwner(p)
    <3>1. \A q \in Procs \ {p} : call'[q] = call[q]
      BY <1>0, <2>1 DEF ReadPreviousOwner
    <3> QED
      BY <1>2, <2>1, <3>1 DEF ReadPreviousOwner
  <2>2. CASE ReadSource(p)
    <3>1. \A q \in Procs \ {p} : call'[q] = call[q]
      BY <1>0, <2>2 DEF ReadSource
    <3> QED
      BY <1>2, <2>2, <3>1 DEF ReadSource
  <2>3. CASE CheckLock(p) \/ CheckSuspended(p)
    BY <1>2, <2>3 DEF CheckLock, CheckSuspended
  <2>4. CASE CheckHealth(p)
    <3>1. Goto(p, "lock") \/ Goto(p, "source")
      BY <2>4 DEF CheckHealth
    <3> QED
      BY <1>2, <2>4, <3>1 DEF CheckHealth
  <2>5. CASE AcquireLock(p)
    BY <2>5, SnapGoto DEF AcquireLock
  <2>6. CASE ReadVersion(p) \/ ReadLastFailover(p)
    BY <1>3, <2>6 DEF ReadVersion, ReadLastFailover
  <2>7. CASE Transaction(p)
    BY <1>2, <2>7 DEF Transaction, ApplyTransaction
  <2>8. CASE RecordHistory(p) \/ PutLastFailover(p)
    BY <1>2, <2>8 DEF RecordHistory, PutHistory, PutLastFailover
  <2>9. CASE ReleaseLock(p)
    BY <1>1, <2>9 DEF ReleaseLock
  <2> QED
    BY <1>6, <2>1, <2>2, <2>3, <2>4, <2>5, <2>6, <2>7, <2>8, <2>9 DEF SwitchOverSteps
<1>7. ASSUME NEW p \in Procs, ConfigSteps(p) PROVE Taken
  <2> USE DEF PCs
  <2>1. CASE ReadSuspension(p) \/ ReadOwner(p)
    BY <1>3, <2>1 DEF ReadSuspension, ReadOwner
  <2>2. CASE PutSuspension(p) \/ AlreadyOwner(p) \/ PutTransfer(p) \/ ForceTransfer(p)
    BY <1>1, <2>2 DEF PutSuspension, AlreadyOwner, PutTransfer, ForceTransfer
  <2>3. CASE TransferConflict(p)
    BY <1>2, <2>3 DEF TransferConflict
  <2> QED
    BY <1>7, <2>1, <2>2, <2>3 DEF ConfigSteps
<1>8. ASSUME NEW p \in Procs, Requests(p) PROVE Taken
  BY <1>8
  DEF Requests, UpdateClusterStatus, RemoveClusterStatus, DeleteGroupConfig,
      DeleteLock, Request, procVars, SnapKept
<1>9. ASSUME NEW p \in Procs, Failures(p) PROVE Taken
  <2>1. ASSUME Continue(p) PROVE Taken
    BY <1>1, <1>2, <2>1 DEF Continue, PCs
  <2>2. CASE AnswerLost(p)
    <3>1. CASE PutLock(p) /\ Return(p)
      BY <1>1, <3>1
    <3>2. CASE ApplyTransaction(p) /\ Goto(p, "release")
      BY <1>2, <3>2 DEF ApplyTransaction, PCs
    <3>3. CASE PutHistory(p) /\ Goto(p, "release")
      BY <1>2, <3>3 DEF PutHistory, PCs
    <3> QED
      BY <2>2, <3>1, <3>2, <3>3 DEF AnswerLost
  <2> QED
    BY <1>1, <1>9, <2>1, <2>2 DEF Failures, CallFails, CreateOnly, Crash
<1>10. CASE Expire \/ UNCHANGED vars
  BY <1>10 DEF Expire, vars, procVars, SnapKept
<1> QED
  BY <1>5, <1>6, <1>7, <1>8, <1>9, <1>10 DEF Next

LEMMA VersionNext == Counted /\ VersionInv /\ [Next]_vars => VersionInv'
<1> SUFFICES ASSUME Counted, VersionInv, [Next]_vars PROVE VersionInv'
  OBVIOUS
<1> USE DEF VersionInv
<1>1. StoreInv'
  BY StoreNext
<1> SUFFICES ASSUME NEW q \in Procs, pc'[q] \in {"tx", "putLast"}
             PROVE  /\ config' # NoConfig
                    /\ call'[q].snap.version <= config'.version
                    /\ call'[q].snap.version = config'.version => call'[q].snap = config'
  BY <1>1 DEF SnapCurrent
<1>2. CASE SnapRead(q)
  <2>1. config'.version \in Nat
    BY <1>1, <1>2 DEF SnapRead, StoreInv, Proper, ConfigRecord
  <2> QED
    BY <1>2, <2>1 DEF SnapRead
<1>3. CASE SnapKept(q)
  <2>1. /\ config # NoConfig /\ call[q].snap.version <= config.version
        /\ call[q].snap.version = config.version => call[q].snap = config
        /\ call'[q].snap = call[q].snap
    BY <1>3 DEF SnapKept, SnapCurrent
  <2>2. call[q].snap.version \in Nat /\ config.version \in Nat
    BY <1>3, <2>1 DEF SnapKept, StoreInv, ArgsKnown, SnapKnown, Proper, ConfigRecord
  <2>3. config' = config \/ NextVersion
    BY <2>1, VersionStep
  <2> QED
    BY <2>1, <2>2, <2>3 DEF NextVersion
<1> QED
  BY <1>2, <1>3, SnapTaken

LEMMA VersionInit == Init => VersionInv
  BY StoreInit DEF VersionInv, Init, SnapCurrent

(* A call that writes back what it has read writes the item that is        *)
(* stored, or its write is refused: the snapshot that ExecuteFailover      *)
(* takes for lastFailover does not bring an old owner back.                *)
THEOREM SnapshotsCurrent ==
  ASSUME Counted PROVE Spec => [](\A p \in Procs : SnapCurrent(p))
<1>1. VersionInv /\ [Next]_vars => VersionInv'
  BY VersionNext
<1>2. VersionInv => \A p \in Procs : SnapCurrent(p)
  BY DEF VersionInv
<1> QED
  BY <1>1, <1>2, VersionInit, PTL DEF Spec

----------------------------------------------------------------------------
(* The owner and the roles (module Ownership).                             *)

(* ExecuteFailover and ExecuteFailback are left to themselves.             *)
SwitchOnly == Ops \subseteq {"failover", "failback"}

absOwner == IF config = NoConfig THEN NoCluster ELSE config.owner
absRole == [c \in Clusters |-> IF rows[c] = NoRow THEN "NONE" ELSE rows[c].state]

OwnershipStep == [R!OwnershipNext]_R!ownershipVars

LEMMA SameOwnership ==
  ASSUME absOwner' = absOwner, absRole' = absRole PROVE OwnershipStep
  BY DEF OwnershipStep, R!ownershipVars, absOwner, absRole

(* GetGroupConfig makes its cluster the owner of a group without one.      *)
LEMMA ReadAdopts ==
  ASSUME StoreInv, NEW p \in Procs, GetGroupConfig(p) PROVE OwnershipStep
<1>1. absRole' = absRole
  BY DEF GetGroupConfig, absRole
<1>2. CASE config # NoConfig
  <2>1. config' = config
    BY <1>2, ReadKeeps
  <2> QED
    BY <1>1, <2>1, SameOwnership DEF absOwner
<1>3. CASE config = NoConfig
  <2>1. config' = DefaultConfig(p)
    BY <1>3 DEF GetGroupConfig, Stored
  <2>2. config' # NoConfig
    BY <2>1, <1>3, StoredProper, GroupStoreAssumption DEF Stored, Proper
  <2>3. absOwner = NoCluster /\ absOwner' = ClusterOf[p] /\ ClusterOf[p] \in Clusters
    BY <1>3, <2>1, <2>2, GroupStoreAssumption DEF absOwner, DefaultConfig
  <2>4. R!Adopt(ClusterOf[p])
    BY <1>1, <2>3 DEF R!Adopt, absOwner, absRole
  <2> QED
    BY <2>3, <2>4 DEF OwnershipStep, R!OwnershipNext
<1> QED
  BY <1>2, <1>3

(* The transaction is the switch.                                          *)
LEMMA TransactionSwitches ==
  ASSUME StoreInv, NEW p \in Procs, ApplyTransaction(p) PROVE OwnershipStep
<1> DEFINE src == call[p].src
           target == call[p].target
<1>1. src \in Clusters /\ target \in Clusters /\ src # target
  BY DEF ApplyTransaction, StoreInv, ArgsKnown, TargetKnown, SourceKnown, Underway
<1>2. config \in ConfigRecord /\ config # NoConfig /\ config.owner = src
  BY DEF ApplyTransaction, TxCondition, StoreInv, Proper
<1>3. config' \in ConfigRecord /\ config' # NoConfig
  BY TransactionItems, GroupStoreAssumption DEF Proper
<1>4. config'.owner = target
  BY <1>2 DEF ApplyTransaction, ConfigRecord
<1>5. absOwner = src /\ absOwner' = target
  BY <1>2, <1>3, <1>4 DEF absOwner
<1>6. absRole' = [absRole EXCEPT ![src] = SourceState(p), ![target] = "PRIMARY"]
  <2>1. rows \in [Clusters -> RowRecord \cup {NoRow}]
    BY DEF StoreInv, TypeOK
  <2>2. rows' = [rows EXCEPT ![src] = WithState(@, SourceState(p)),
                             ![target] = WithState(@, "PRIMARY")]
    BY DEF ApplyTransaction
  <2>3. ASSUME NEW r \in RowRecord \cup {NoRow}, NEW s \in RowStates
        PROVE  WithState(r, s) # NoRow /\ WithState(r, s).state = s
    <3>1. WithState(r, s) \in RowRecord
      BY <2>3 DEF WithState, RowRecord, Healths
    <3>2. WithState(r, s).state = s
      BY <2>3 DEF WithState, RowRecord
    <3> QED
      BY <3>1, <3>2, GroupStoreAssumption
  <2>4. SourceState(p) \in RowStates /\ "PRIMARY" \in RowStates
    BY DEF SourceState, RowStates
  <2> HIDE DEF src, target
  <2>5. /\ rows'[src] # NoRow /\ rows'[src].state = SourceState(p)
        /\ rows'[target] # NoRow /\ rows'[target].state = "PRIMARY"
        /\ \A c \in Clusters \ {src, target} : rows'[c] = rows[c]
    BY <1>1, <2>1, <2>2, <2>3, <2>4
  <2> QED
    BY <1>1, <2>5 DEF absRole
<1>7. SourceState(p) \in {"FAILOVER", "FAILBACK"}
  BY DEF SourceState
<1>8. R!SwitchOver(src, target, SourceState(p), "PRIMARY")
  BY <1>1, <1>5, <1>6 DEF R!SwitchOver, absOwner, absRole
<1> QED
  BY <1>1, <1>7, <1>8 DEF OwnershipStep, R!OwnershipNext

(* The write of lastFailover keeps the owner.                              *)
LEMMA PutLastKeeps ==
  ASSUME VersionInv, NEW p \in Procs, PutLastFailover(p) PROVE OwnershipStep
<1>1. /\ pc[p] = "putLast" /\ UpdateGroupConfig(call[p].snap)
      /\ config # NoConfig /\ call[p].snap = config
  BY DEF PutLastFailover, UpdateGroupConfig, PutAllowed, VersionInv, SnapCurrent
<1>2. config \in ConfigRecord
  BY <1>1 DEF VersionInv, StoreInv, Proper
<1>3. config' = [config EXCEPT !.version = @ + 1] /\ rows' = rows
  BY <1>1 DEF UpdateGroupConfig
<1>4. config' \in ConfigRecord /\ config'.owner = config.owner
  BY <1>2, <1>3 DEF ConfigRecord
<1> QED
  BY <1>1, <1>3, <1>4, SameOwnership, GroupStoreAssumption DEF absOwner, absRole

(* Every step of the two operations switches the owner and the roles as    *)
(* the specification says, or leaves both alone.                           *)
LEMMA NextOwnership ==
  ASSUME Ops \subseteq {"failover", "failback", "remove"}, VersionInv, [Next]_vars
  PROVE  OwnershipStep \/ \E p \in Procs, c \in Clusters : RemoveClusterStatus(p, c)
<1> USE DEF VersionInv
<1>1. ASSUME UNCHANGED <<config, rows>> PROVE OwnershipStep
  BY <1>1, SameOwnership DEF absOwner, absRole
<1>2. ASSUME NEW p \in Procs, Calls(p) PROVE OwnershipStep
  BY <1>1, <1>2
  DEF Calls, ExecuteFailover, ExecuteFailback, UpdateSuspension, TransferOwnership,
      Begin, storeVars
<1>3. ASSUME NEW p \in Procs, SwitchOverSteps(p) PROVE OwnershipStep
  <2>1. CASE Transaction(p)
    BY <2>1, TransactionSwitches DEF Transaction
  <2>2. CASE PutLastFailover(p)
    BY <2>2, PutLastKeeps
  <2>3. CASE \/ ReadPreviousOwner(p) \/ CheckSuspended(p) \/ ReadSource(p)
             \/ ReadVersion(p) \/ ReadLastFailover(p)
    BY <2>3, ReadAdopts
    DEF ReadPreviousOwner, CheckSuspended, ReadSource, ReadVersion, ReadLastFailover, Read
  <2>4. CASE \/ CheckLock(p) \/ CheckHealth(p) \/ AcquireLock(p) \/ RecordHistory(p)
             \/ ReleaseLock(p)
    BY <1>1, <2>4
    DEF CheckLock, CheckHealth, AcquireLock, PutLock, WriteLock, RecordHistory,
        PutHistory, ReleaseLock, storeVars
  <2> QED
    BY <1>3, <2>1, <2>2, <2>3, <2>4 DEF SwitchOverSteps
<1>4. ASSUME NEW p \in Procs PROVE ~ConfigSteps(p)
  <2>1. pc[p] \notin {"readSuspend", "putSuspend", "readTransfer", "putTransfer",
                      "forceTransfer"}
    BY DEF StoreInv, ArgsKnown, OpKnown
  <2> QED
    BY <2>1
    DEF ConfigSteps, ReadSuspension, PutSuspension, ReadOwner, AlreadyOwner,
        PutTransfer, TransferConflict, ForceTransfer
<1>5. ASSUME NEW p \in Procs, Requests(p)
      PROVE  \E c \in Clusters : RemoveClusterStatus(p, c)
  BY <1>5
  DEF Requests, UpdateClusterStatus, DeleteGroupConfig, DeleteLock, Request
<1>6. ASSUME NEW p \in Procs, Failures(p) PROVE OwnershipStep
  <2>1. CASE CallFails(p) \/ Crash(p)
    BY <1>1, <2>1 DEF CallFails, Crash, storeVars
  <2>2. CASE AnswerLost(p)
    BY <1>1, <2>2, TransactionSwitches
    DEF AnswerLost, PutLock, WriteLock, PutHistory, storeVars
  <2>3. CASE CreateOnly(p)
    BY <2>3, ReadAdopts DEF CreateOnly
  <2> QED
    BY <1>6, <2>1, <2>2, <2>3 DEF Failures
<1>7. CASE Expire \/ UNCHANGED vars
  BY <1>1, <1>7 DEF Expire, vars, storeVars
<1> QED
  BY <1>2, <1>3, <1>4, <1>5, <1>6, <1>7 DEF Next

(* The requests of the two operations, however they are interleaved and    *)
(* wherever they fail, implement the one step that module Ownership has    *)
(* for a switch of owner and roles.                                        *)
THEOREM OwnershipRefinement == ASSUME SwitchOnly PROVE Spec => ImplementsOwnership
<1>1. Init => R!OwnershipInit
  <2> SUFFICES ASSUME Init PROVE R!OwnershipInit
    OBVIOUS
  <2>1. absOwner \in Clusters \cup {NoCluster}
    BY StoreInit DEF absOwner, StoreInv, Proper, ConfigRecord
  <2>2. \A c \in Clusters : rows[c] # NoRow => rows[c].state \in {"PRIMARY", "STANDBY"}
    BY DEF Init
  <2>3. absRole \in [Clusters -> {"PRIMARY", "STANDBY", "NONE"}]
    BY <2>2 DEF absRole
  <2>4. \A c \in Clusters : absRole[c] = "PRIMARY" => c = absOwner
    BY DEF Init, absRole, absOwner
  <2> QED
    BY <2>1, <2>3, <2>4 DEF R!OwnershipInit, absOwner, absRole
<1>2. Counted
  BY DEF SwitchOnly, Counted
<1>3. VersionInv /\ [Next]_vars => [R!OwnershipNext]_R!ownershipVars
  BY NextOwnership
  DEF SwitchOnly, OwnershipStep, RemoveClusterStatus, Request
<1>4. VersionInv /\ [Next]_vars => VersionInv'
  BY <1>2, VersionNext
<1> QED
  BY <1>1, <1>3, <1>4, VersionInit, PTL DEF Spec, R!OwnershipSpec, ImplementsOwnership

LEMMA OnePrimaryStep ==
  ASSUME OnePrimary, OwnershipStep PROVE OnePrimary'
<1> USE DEF OnePrimary, R!OnePrimary
<1>1. ASSUME NEW c \in Clusters, R!Adopt(c) PROVE OnePrimary'
  BY <1>1, GroupStoreAssumption DEF R!Adopt
<1>2. ASSUME NEW from \in Clusters, NEW to \in Clusters,
             NEW left \in {"FAILOVER", "FAILBACK"},
             R!SwitchOver(from, to, left, "PRIMARY")
      PROVE  OnePrimary'
  BY <1>2 DEF R!SwitchOver
<1>3. CASE UNCHANGED R!ownershipVars
  BY <1>3 DEF R!ownershipVars
<1> QED
  BY <1>1, <1>2, <1>3 DEF OwnershipStep, R!OwnershipNext

(* No cluster but the owner is recorded as the primary, also when clusters *)
(* leave the group while others take it over.                              *)
THEOREM OwnerIsPrimary ==
  ASSUME Ops \subseteq {"failover", "failback", "remove"} PROVE Spec => []OnePrimary
<1> DEFINE I == VersionInv /\ OnePrimary
<1>1. Init => OnePrimary
  BY DEF Init, OnePrimary, R!OnePrimary
<1>2. I /\ [Next]_vars => I'
  <2> SUFFICES ASSUME I, [Next]_vars PROVE I'
    OBVIOUS
  <2>1. VersionInv'
    BY VersionNext DEF Counted
  <2>2. ASSUME NEW p \in Procs, NEW c \in Clusters, RemoveClusterStatus(p, c)
        PROVE  OnePrimary'
    <3>1. /\ config' = config /\ rows' = [rows EXCEPT ![c] = NoRow]
          /\ rows \in [Clusters -> RowRecord \cup {NoRow}]
      BY <2>2 DEF RemoveClusterStatus, VersionInv, StoreInv, TypeOK
    <3> QED
      BY <3>1 DEF OnePrimary, R!OnePrimary
  <2> QED
    BY <2>1, <2>2, NextOwnership, OnePrimaryStep
<1> QED
  BY <1>1, <1>2, VersionInit, PTL DEF Spec
=============================================================================
