---------------------------- MODULE GroupStore -----------------------------
(***************************************************************************)
(* The DynamoDB items of one FailoverGroup and the operations of           *)
(* OperationsManager on them, request by request: ExecuteFailover,         *)
(* ExecuteFailback, UpdateSuspension and TransferOwnership, and the single *)
(* requests UpdateClusterStatus, RemoveClusterStatus, DeleteGroupConfig    *)
(* and DeleteLock.                                                         *)
(*                                                                         *)
(* A call runs in a goroutine of some operator and is interleaved with the *)
(* calls of the others.  DynamoDB itself is external: it applies one       *)
(* request at a time, may refuse or lose any of them, and may apply one    *)
(* whose answer is lost.  An operator may crash at any point.              *)
(*                                                                         *)
(* The LOCK item is modelled at the level of module Lease, which GroupLock *)
(* shows to be right.  Heartbeat times, components, reasons and the        *)
(* lastFailover reference are data that no step below depends on.          *)
(***************************************************************************)
EXTENDS Integers

CONSTANTS Clusters,   \* the clusters of the group
          NoCluster,  \* the empty cluster name
          Procs,      \* the goroutines that call the operations
          ClusterOf,  \* ClusterOf[p]: the cluster of p's operator
          Ops,        \* the operations that are called
          NoConfig,   \* there is no CONFIG item
          NoRow,      \* there is no CLUSTER# item
          MaxCalls,   \* bound on the number of calls
          MaxSecond   \* bound on the time at which a call starts

Healths == {"OK", "ERROR"}      \* "ERROR" stands for "DEGRADED" too
RowStates == {"PRIMARY", "STANDBY", "FAILOVER", "FAILBACK"}

ConfigRecord == [owner : Clusters, prev : Clusters \cup {NoCluster},
                 version : Nat, suspended : BOOLEAN]
RowRecord == [health : Healths, state : RowStates]

Tokens == 1 .. MaxCalls
NoToken == 0

ASSUME GroupStoreAssumption ==
  /\ ClusterOf \in [Procs -> Clusters]
  /\ NoCluster \notin Clusters
  /\ NoConfig \notin ConfigRecord
  /\ NoRow \notin RowRecord
  /\ MaxCalls \in Nat
  /\ MaxSecond \in Nat

VARIABLES
  config,    \* the CONFIG item
  rows,      \* rows[c]: the CLUSTER# item of c
  history,   \* the HISTORY# items: which switch-over began at which second
  current,   \* the token in the LOCK item, NoToken when there is none
  lockedBy,  \* lockedBy[k]: the cluster written to it with token k
  over,      \* the tokens whose lease is over (module Lease)
  pc,        \* pc[p]: the request that p issues next
  call,      \* call[p]: the arguments of the call and what it has read
  held,      \* held[p]: the token of the lock that p's call acquired
  calls,     \* how many calls were made
  second     \* the time, in seconds

storeVars == <<config, rows, history>>
lockVars == <<current, lockedBy, over>>
procVars == <<pc, call, held>>
vars == <<config, rows, history, current, lockedBy, over, pc, call, held,
          calls, second>>

HistoryRecord == [start : 0 .. MaxSecond, src : Clusters, target : Clusters]

CallRecord == [op : {"failover", "failback", "suspend", "transfer", "none"},
               target : Clusters \cup {NoCluster},
               flag : BOOLEAN,     \* forceFastMode, or suspended
               src : Clusters \cup {NoCluster},
               snap : ConfigRecord \cup {NoConfig},
               start : 0 .. MaxSecond,
               id : 0 .. MaxCalls]

NoCall == [op |-> "none", target |-> NoCluster, flag |-> FALSE,
           src |-> NoCluster, snap |-> NoConfig, start |-> 0, id |-> 0]

PCs == {"idle", "readBack", "isLocked", "validate", "health", "source",
        "lock", "readTx", "tx", "history", "readLast", "putLast", "release",
        "readSuspend", "putSuspend", "readTransfer", "putTransfer",
        "forceTransfer"}

TypeOK ==
  /\ config \in ConfigRecord \cup {NoConfig}
  /\ rows \in [Clusters -> RowRecord \cup {NoRow}]
  /\ history \subseteq HistoryRecord
  /\ current \in Tokens \cup {NoToken}
  /\ lockedBy \in [Tokens -> Clusters \cup {NoCluster}]
  /\ over \subseteq Tokens
  /\ pc \in [Procs -> PCs]
  /\ call \in [Procs -> CallRecord]
  /\ held \in [Procs -> Tokens \cup {NoToken}]
  /\ calls \in 0 .. MaxCalls
  /\ second \in 0 .. MaxSecond

(* A group that is not known yet, or one that some cluster owns, with the  *)
(* clusters that have registered; it may have failed over before.          *)
Init ==
  /\ \/ config = NoConfig
     \/ \E o \in Clusters, q \in Clusters \cup {NoCluster} :
          /\ o # q
          /\ config = [owner |-> o, prev |-> q, version |-> 2, suspended |-> FALSE]
  /\ rows \in [Clusters -> {NoRow} \cup
                 [health : {"OK"}, state : {"PRIMARY", "STANDBY"}]]
  /\ \A c \in Clusters : rows[c] # NoRow =>
       (rows[c].state = "PRIMARY") <=> (config # NoConfig /\ config.owner = c)
  /\ history = {}
  /\ current = NoToken
  /\ lockedBy = [k \in Tokens |-> NoCluster]
  /\ over = {}
  /\ pc = [p \in Procs |-> "idle"]
  /\ call = [p \in Procs |-> NoCall]
  /\ held = [p \in Procs |-> NoToken]
  /\ calls = 0
  /\ second = 0

----------------------------------------------------------------------------
(* Control flow.                                                           *)

(* A call of operation name begins with request first.                     *)
Begin(p, name, first, target, flag) ==
  /\ name \in Ops
  /\ pc[p] = "idle"
  /\ calls < MaxCalls
  /\ calls' = calls + 1
  /\ \E s \in second .. MaxSecond :
       /\ s <= second + 1
       /\ second' = s
       /\ call' = [call EXCEPT ![p] =
            [NoCall EXCEPT !.op = name, !.target = target, !.flag = flag,
                           !.start = s, !.id = calls + 1]]
  /\ pc' = [pc EXCEPT ![p] = first]
  /\ UNCHANGED <<storeVars, lockVars, held>>

Goto(p, label) ==
  /\ pc' = [pc EXCEPT ![p] = label]
  /\ UNCHANGED <<held, calls, second>>

Return(p) ==
  /\ pc' = [pc EXCEPT ![p] = "idle"]
  /\ call' = [call EXCEPT ![p] = NoCall]
  /\ held' = [held EXCEPT ![p] = NoToken]
  /\ UNCHANGED <<calls, second>>

(* The call goes on, or returns, to the deferred ReleaseLock.              *)
Underway == {"readTx", "tx", "history", "readLast", "putLast"}
Continue(p) == IF pc[p] \in Underway THEN Goto(p, "release") /\ UNCHANGED call
                                     ELSE Return(p)

(* Faulty variant: the default has no owner.                               *)
DefaultWithoutOwner(p) == [owner |-> NoCluster, prev |-> NoCluster,
                           version |-> 2, suspended |-> FALSE]

(* GetGroupConfig.  The first read of a group creates its CONFIG item, and *)
(* UpdateGroupConfig turns the version 1 of the default into 2.            *)
DefaultConfig(p) == [owner |-> ClusterOf[p], prev |-> NoCluster,
                     version |-> 2, suspended |-> FALSE]
Stored(p) == IF config = NoConfig THEN DefaultConfig(p) ELSE config

GetGroupConfig(p) ==
  /\ config' = Stored(p)
  /\ UNCHANGED <<rows, history, lockVars>>

Read(p, next) ==
  /\ GetGroupConfig(p)
  /\ call' = [call EXCEPT ![p].snap = Stored(p)]
  /\ Goto(p, next)

(* Faulty variant: the version is not compared.                            *)
PutAlways(value) == TRUE

(* UpdateGroupConfig puts value, whose version is already incremented by   *)
(* as much as the caller did, and increments it once more.                 *)
PutAllowed(value) == config # NoConfig => config.version = value.version
UpdateGroupConfig(value) ==
  /\ PutAllowed(value)
  /\ config' = [value EXCEPT !.version = @ + 1]
  /\ UNCHANGED <<rows, history, lockVars>>

----------------------------------------------------------------------------
(* ExecuteFailover and ExecuteFailback.                                    *)
ExecuteFailover(p, target, fast) ==
  Begin(p, "failover", "isLocked", target, fast)

ExecuteFailback(p) == Begin(p, "failback", "readBack", NoCluster, FALSE)

(* ExecuteFailback takes source and target from the CONFIG item, before it *)
(* validates anything.                                                     *)
ReadPreviousOwner(p) ==
  /\ pc[p] = "readBack"
  /\ Stored(p).prev # NoCluster
  /\ GetGroupConfig(p)
  /\ call' = [call EXCEPT ![p].src = Stored(p).owner, ![p].target = Stored(p).prev]
  /\ Goto(p, "isLocked")

(* ValidateFailoverPreconditions: the read of the LOCK item may be stale   *)
(* and does not bind anybody.                                              *)
CheckLock(p) ==
  /\ pc[p] = "isLocked"
  /\ Goto(p, "validate")
  /\ UNCHANGED <<storeVars, lockVars, call>>

CheckSuspended(p) ==
  /\ pc[p] = "validate"
  /\ ~Stored(p).suspended
  /\ GetGroupConfig(p)
  /\ UNCHANGED call
  /\ \/ call[p].op = "failover" /\ call[p].flag /\ Goto(p, "source")
     \/ ~(call[p].op = "failover" /\ call[p].flag) /\ Goto(p, "health")

(* A target without an item makes the code dereference nil: the goroutine  *)
(* panics, which ends the call (CallFails).                                *)
CheckHealth(p) ==
  /\ pc[p] = "health"
  /\ rows[call[p].target] # NoRow
  /\ rows[call[p].target].health = "OK"
  /\ Goto(p, IF call[p].op = "failback" THEN "lock" ELSE "source")
  /\ UNCHANGED <<storeVars, lockVars, call>>

ReadSource(p) ==
  /\ pc[p] = "source"
  /\ Stored(p).owner # call[p].target
  /\ GetGroupConfig(p)
  /\ call' = [call EXCEPT ![p].src = Stored(p).owner]
  /\ Goto(p, "lock")

(* Faulty variant: the LOCK item is overwritten.                           *)
WriteLockAnyway(p, k) ==
  /\ current' = k
  /\ lockedBy' = [lockedBy EXCEPT ![k] = ClusterOf[p]]
  /\ UNCHANGED <<storeVars, over>>

(* AcquireLock as its last request: see GroupLock for the others.          *)
WriteLock(p, k) ==
  /\ current = NoToken \/ current \in over
  /\ current' = k
  /\ lockedBy' = [lockedBy EXCEPT ![k] = ClusterOf[p]]
  /\ UNCHANGED <<storeVars, over>>

PutLock(p) ==
  /\ pc[p] = "lock"
  /\ WriteLock(p, call[p].id)

AcquireLock(p) ==
  /\ PutLock(p)
  /\ held' = [held EXCEPT ![p] = call[p].id]
  /\ pc' = [pc EXCEPT ![p] = "readTx"]
  /\ UNCHANGED <<call, calls, second>>

ReadVersion(p) == pc[p] = "readTx" /\ Read(p, "tx")

(* Faulty variant: the transaction creates an item without health.         *)
WithStateOnly(row, state) ==
  IF row = NoRow THEN [state |-> state] ELSE [row EXCEPT !.state = state]

(* Faulty variant: the transaction does not compare the owner.             *)
TxConditionVersion(p) ==
  config # NoConfig /\ config.version = call[p].snap.version

(* TransactWriteItems: the condition on the CONFIG item guards all three   *)
(* updates, and an item that is missing is created.                        *)
SourceState(p) == IF call[p].op = "failback" THEN "FAILBACK" ELSE "FAILOVER"
WithState(row, state) ==
  IF row = NoRow THEN [health |-> "OK", state |-> state]
                 ELSE [row EXCEPT !.state = state]

TxCondition(p) ==
  /\ config # NoConfig
  /\ config.owner = call[p].src
  /\ config.version = call[p].snap.version

ApplyTransaction(p) ==
  LET src == call[p].src
      target == call[p].target
  IN
  /\ pc[p] = "tx"
  /\ TxCondition(p)
  /\ config' = [config EXCEPT
       !.owner = target,
       !.prev = IF call[p].op = "failback" THEN NoCluster ELSE src,
       !.version = call[p].snap.version + 1]
  /\ rows' = [rows EXCEPT ![src] = WithState(@, SourceState(p)),
                          ![target] = WithState(@, "PRIMARY")]
  /\ UNCHANGED <<history, lockVars, call>>

Transaction(p) == ApplyTransaction(p) /\ Goto(p, "history")

(* recordFailoverEvent: the key of the item is the second in which the     *)
(* call began, so a later item of the same second replaces it.             *)
PutHistory(p) ==
  /\ pc[p] = "history"
  /\ history' = {h \in history : h.start # call[p].start} \cup
       {[start |-> call[p].start, src |-> call[p].src, target |-> call[p].target]}
  /\ UNCHANGED <<config, rows, lockVars, call>>
RecordHistory(p) == PutHistory(p) /\ Goto(p, "readLast")

ReadLastFailover(p) == pc[p] = "readLast" /\ Read(p, "putLast")

PutLastFailover(p) ==
  /\ pc[p] = "putLast"
  /\ UpdateGroupConfig(call[p].snap)
  /\ Goto(p, "release")
  /\ UNCHANGED call

(* Faulty variant: the LOCK item is removed whoever holds it.              *)
ReleaseAnyLock(p) ==
  /\ pc[p] = "release"
  /\ current # NoToken
  /\ current' = NoToken
  /\ Return(p)
  /\ UNCHANGED <<storeVars, lockedBy, over>>

ReleaseLock(p) ==
  /\ pc[p] = "release"
  /\ current = held[p]
  /\ current' = NoToken
  /\ Return(p)
  /\ UNCHANGED <<storeVars, lockedBy, over>>

----------------------------------------------------------------------------
(* UpdateSuspension increments the version itself before                   *)
(* UpdateGroupConfig compares it with the stored one.                      *)
UpdateSuspension(p, suspended) ==
  Begin(p, "suspend", "readSuspend", NoCluster, suspended)

ReadSuspension(p) == pc[p] = "readSuspend" /\ Read(p, "putSuspend")

PutSuspension(p) ==
  /\ pc[p] = "putSuspend"
  /\ UpdateGroupConfig([call[p].snap EXCEPT !.suspended = call[p].flag,
                                            !.version = @ + 1])
  /\ Return(p)

----------------------------------------------------------------------------
(* transferOwnership does the same, and takes the refusal for a conflict   *)
(* that it resolves with an update that has no condition.                  *)
TransferOwnership(p, newOwner) ==
  Begin(p, "transfer", "readTransfer", newOwner, FALSE)

ReadOwner(p) ==
  /\ pc[p] = "readTransfer"
  /\ Stored(p).owner # call[p].target
  /\ Read(p, "putTransfer")

(* The target owns the group already: there is nothing to write.           *)
AlreadyOwner(p) ==
  /\ pc[p] = "readTransfer"
  /\ Stored(p).owner = call[p].target
  /\ GetGroupConfig(p)
  /\ Return(p)

TransferValue(p) ==
  [call[p].snap EXCEPT !.prev = call[p].snap.owner, !.owner = call[p].target,
                       !.version = @ + 1]

PutTransfer(p) ==
  /\ pc[p] = "putTransfer"
  /\ UpdateGroupConfig(TransferValue(p))
  /\ Return(p)

TransferConflict(p) ==
  /\ pc[p] = "putTransfer"
  /\ ~PutAllowed(TransferValue(p))
  /\ Goto(p, "forceTransfer")
  /\ UNCHANGED <<storeVars, lockVars, call>>

(* UpdateGroupConfig has incremented the version although it failed, and   *)
(* the update adds one more.  An item that is missing is created.          *)
ForceTransfer(p) ==
  /\ pc[p] = "forceTransfer"
  /\ config' = [owner |-> call[p].target,
                prev |-> call[p].snap.owner,
                version |-> call[p].snap.version + 3,
                suspended |-> config # NoConfig /\ config.suspended]
  /\ Return(p)
  /\ UNCHANGED <<rows, history, lockVars>>

----------------------------------------------------------------------------
(* Operations that are one request.  They have no condition.               *)
Request(p, name) ==
  /\ name \in Ops
  /\ pc[p] = "idle"
  /\ calls < MaxCalls
  /\ calls' = calls + 1
  /\ UNCHANGED <<history, lockedBy, procVars, second>>

UpdateClusterStatus(p, c, health, state) ==
  /\ Request(p, "status")
  /\ rows' = [rows EXCEPT ![c] = [health |-> health, state |-> state]]
  /\ UNCHANGED <<config, current, over>>

RemoveClusterStatus(p, c) ==
  /\ Request(p, "remove")
  /\ rows[c] # NoRow
  /\ rows' = [rows EXCEPT ![c] = NoRow]
  /\ UNCHANGED <<config, current, over>>

DeleteGroupConfig(p) ==
  /\ Request(p, "delete")
  /\ config # NoConfig
  /\ config' = NoConfig
  /\ UNCHANGED <<rows, current, over>>

DeleteLock(p) ==
  /\ Request(p, "delete")
  /\ current # NoToken
  /\ current' = NoToken
  /\ over' = over \cup {current}
  /\ UNCHANGED <<config, rows>>

----------------------------------------------------------------------------
(* Failures and time.                                                      *)

(* The request is refused or lost, or the call finds what it read          *)
(* unacceptable: it returns, over ReleaseLock if it holds the lock.        *)
CallFails(p) ==
  /\ pc[p] # "idle"
  /\ Continue(p)
  /\ UNCHANGED <<storeVars, lockVars>>

(* The request is applied and its answer is lost.                          *)
AnswerLost(p) ==
  \/ PutLock(p) /\ Return(p)
  \/ ApplyTransaction(p) /\ Goto(p, "release")
  \/ PutHistory(p) /\ Goto(p, "release")

(* GetGroupConfig creates the CONFIG item, and then the call fails.        *)
CreateOnly(p) ==
  /\ pc[p] \in {"readBack", "validate", "source", "readTx", "readLast",
               "readSuspend", "readTransfer"}
  /\ config = NoConfig
  /\ GetGroupConfig(p)
  /\ Continue(p)

(* The operator process dies.  What it wrote stays, its lock too.          *)
Crash(p) ==
  /\ pc[p] # "idle"
  /\ Return(p)
  /\ UNCHANGED <<storeVars, lockVars>>

(* Time passes, and the lease in the LOCK item runs out.                   *)
Expire ==
  /\ current # NoToken
  /\ current \notin over
  /\ over' = over \cup {current}
  /\ UNCHANGED <<storeVars, current, lockedBy, procVars, calls, second>>

----------------------------------------------------------------------------
Calls(p) ==
  \/ \E t \in Clusters, fast \in BOOLEAN : ExecuteFailover(p, t, fast)
  \/ ExecuteFailback(p)
  \/ \E s \in BOOLEAN : UpdateSuspension(p, s)
  \/ \E t \in Clusters : TransferOwnership(p, t)

SwitchOverSteps(p) ==
  \/ ReadPreviousOwner(p)
  \/ CheckLock(p)
  \/ CheckSuspended(p)
  \/ CheckHealth(p)
  \/ ReadSource(p)
  \/ AcquireLock(p)
  \/ ReadVersion(p)
  \/ Transaction(p)
  \/ RecordHistory(p)
  \/ ReadLastFailover(p)
  \/ PutLastFailover(p)
  \/ ReleaseLock(p)

ConfigSteps(p) ==
  \/ ReadSuspension(p)
  \/ PutSuspension(p)
  \/ ReadOwner(p)
  \/ AlreadyOwner(p)
  \/ PutTransfer(p)
  \/ TransferConflict(p)
  \/ ForceTransfer(p)

Requests(p) ==
  \/ \E c \in Clusters, h \in Healths, s \in RowStates :
       UpdateClusterStatus(p, c, h, s)
  \/ \E c \in Clusters : RemoveClusterStatus(p, c)
  \/ DeleteGroupConfig(p)
  \/ DeleteLock(p)

Failures(p) == CallFails(p) \/ AnswerLost(p) \/ CreateOnly(p) \/ Crash(p)

Next ==
  \/ \E p \in Procs :
       Calls(p) \/ SwitchOverSteps(p) \/ ConfigSteps(p) \/ Requests(p) \/ Failures(p)
  \/ Expire

Spec == Init /\ [][Next]_vars

----------------------------------------------------------------------------
(* ExecuteFailover and ExecuteFailback, left to themselves, switch owner   *)
(* and roles in one step as module Ownership says, however many run at the *)
(* same time, whatever fails and whether or not their locks have expired.  *)
R == INSTANCE Ownership WITH
       owner <- IF config = NoConfig THEN NoCluster ELSE config.owner,
       role  <- [c \in Clusters |-> IF rows[c] = NoRow THEN "NONE"
                                                      ELSE rows[c].state]
ImplementsOwnership == R!OwnershipSpec

(* Whatever two concurrent calls and their failures leave behind, no       *)
(* cluster but the owner is recorded as the primary                        *)
(* (executeFailoverTransaction, one transaction for owner and roles).      *)
OnePrimary == R!OnePrimary

(* The lock that the operations take is the lease of module Lease: every   *)
(* token is granted once, and only its holder gives it up.                 *)
Granted == {k \in Tokens : lockedBy[k] # NoCluster}
L == INSTANCE Lease WITH Callers <- Procs, granted <- Granted
ImplementsLease == L!LeaseSpec

(* No write of the CONFIG item is lost: each one starts from the version   *)
(* that is stored, and leaves the next (UpdateGroupConfig, optimistic      *)
(* concurrency control; the condition of executeFailoverTransaction).      *)
VersionCounts ==
  [][config # NoConfig /\ config' # config =>
       config' # NoConfig /\ config'.version = config.version + 1]_vars

----------------------------------------------------------------------------
(* What the documentation or the comments say and the code does not do.    *)

(* Suspending or resuming a group does not change its owner.               *)
SuspensionKeepsOwner ==
  [][config # NoConfig /\ config' # NoConfig
     /\ config'.suspended # config.suspended => config'.owner = config.owner]_vars
=============================================================================
