-------------------------- MODULE GroupStore_proof --------------------------
(***************************************************************************)
(* Theorems about the operations of OperationsManager on the items of a    *)
(* FailoverGroup, for any clusters, goroutines, operations and bounds.     *)
(*                                                                         *)
(* The types are not inductive by themselves: a call writes what it was    *)
(* given and what it has read, so its arguments must be clusters and its   *)
(* snapshot a CONFIG item by the time they are written.  That the lock is  *)
(* a lease needs the tokens of pending calls to be fresh.                  *)
(***************************************************************************)
EXTENDS GroupStore, TLAPS

(* Where a call holds its lock.                                            *)
Holding == Underway \cup {"release"}

(* A CONFIG item that can be in the table.                                 *)
Proper(c) == c \in ConfigRecord /\ c.owner # c.prev

(* What a call knows by the time it needs it.                              *)
TargetKnown(p) ==
  pc[p] \in {"isLocked", "validate", "health", "source", "lock",
             "readTransfer", "putTransfer", "forceTransfer"} \cup Underway
    => call[p].target \in Clusters

SourceKnown(p) ==
  (\/ pc[p] \in {"isLocked", "validate", "health"} /\ call[p].op = "failback"
   \/ pc[p] \in {"lock"} \cup Underway)
    => call[p].src \in Clusters /\ call[p].src # call[p].target

SnapKnown(p) ==
  /\ pc[p] \in {"tx", "putLast", "putSuspend", "putTransfer", "forceTransfer"}
       => Proper(call[p].snap)
  /\ pc[p] \in {"putTransfer", "forceTransfer"}
       => call[p].snap.owner # call[p].target

OpKnown(p) ==
  /\ pc[p] \in {"readSuspend", "putSuspend"} => "suspend" \in Ops
  /\ pc[p] \in {"readTransfer", "putTransfer", "forceTransfer"} => "transfer" \in Ops

ArgsKnown(p) == TargetKnown(p) /\ SourceKnown(p) /\ SnapKnown(p) /\ OpKnown(p)

(* The token of a call is its own, and is granted to it at most.           *)
TokenFresh(p) ==
  /\ pc[p] # "idle" => call[p].id \in Tokens /\ call[p].id <= calls
  /\ held[p] = IF pc[p] \in Holding THEN call[p].id ELSE NoToken
  /\ pc[p] \notin Holding \cup {"idle"} => lockedBy[call[p].id] = NoCluster

TokensApart ==
  \A p, q \in Procs : pc[p] # "idle" /\ pc[q] # "idle" /\ p # q
                        => call[p].id # call[q].id

LockGranted ==
  /\ current # NoToken => lockedBy[current] # NoCluster
  /\ \A k \in Tokens : lockedBy[k] # NoCluster => k <= calls

StoreInv ==
  /\ TypeOK
  /\ config # NoConfig => Proper(config)
  /\ \A p \in Procs : ArgsKnown(p)
  /\ \A p \in Procs : TokenFresh(p)
  /\ TokensApart
  /\ LockGranted

----------------------------------------------------------------------------
(* How a step of p's call moves it, and what the step may do to the items. *)
OthersStay(p) ==
  \A q \in Procs \ {p} : pc'[q] = pc[q] /\ call'[q] = call[q] /\ held'[q] = held[q]

ItemsWell ==
  /\ config \in ConfigRecord \cup {NoConfig}
  /\ config # NoConfig => Proper(config)
  /\ rows \in [Clusters -> RowRecord \cup {NoRow}]
  /\ history \subseteq HistoryRecord

(* The calls of the others are as they were, if p's step grants at most a  *)
(* token of its own.                                                       *)
LEMMA OthersKnown ==
  ASSUME StoreInv, NEW p \in Procs, OthersStay(p), calls' \in Nat, calls <= calls',
         NEW k \in Tokens, k > calls \/ (pc[p] # "idle" /\ k = call[p].id),
         \A j \in Tokens \ {k} : lockedBy'[j] = lockedBy[j]
  PROVE  \A q \in Procs \ {p} : ArgsKnown(q)' /\ TokenFresh(q)'
<1> TAKE q \in Procs \ {p}
<1>1. pc'[q] = pc[q] /\ call'[q] = call[q] /\ held'[q] = held[q]
  BY DEF OthersStay
<1>2. ArgsKnown(q)'
  BY <1>1 DEF StoreInv, ArgsKnown, TargetKnown, SourceKnown, SnapKnown, OpKnown, Proper
<1>3. TokenFresh(q)'
  <2>1. pc[q] # "idle" => call[q].id \in Tokens /\ call[q].id <= calls /\ call[q].id # k
    BY GroupStoreAssumption DEF StoreInv, TokenFresh, TokensApart, TypeOK, Tokens
  <2>2. calls \in Nat
    BY GroupStoreAssumption DEF StoreInv, TypeOK
  <2> QED
    BY <1>1, <2>1, <2>2 DEF StoreInv, TokenFresh, Tokens
<1> QED
  BY <1>2, <1>3

(* p's call goes on with other arguments, and the lock stays as it is.     *)
LEMMA AdvanceStep ==
  ASSUME StoreInv, NEW p \in Procs, NEW label \in PCs, NEW c \in CallRecord,
         pc[p] # "idle", label # "idle", label \in Holding <=> pc[p] \in Holding,
         pc' = [pc EXCEPT ![p] = label],
         call' = [call EXCEPT ![p] = c], c.id = call[p].id,
         UNCHANGED <<held, calls, second, lockVars>>,
         ItemsWell', ArgsKnown(p)'
  PROVE  StoreInv'
<1> USE GroupStoreAssumption
<1>1. TypeOK'
  BY DEF StoreInv, TypeOK, ItemsWell, lockVars
<1>2. pc'[p] = label /\ call'[p] = c /\ held'[p] = held[p] /\ OthersStay(p)
  BY DEF StoreInv, TypeOK, OthersStay
<1>3. call[p].id \in Tokens /\ calls \in Nat
  BY DEF StoreInv, TypeOK, TokenFresh
<1>4. \A q \in Procs \ {p} : ArgsKnown(q)' /\ TokenFresh(q)'
  BY <1>2, <1>3, OthersKnown DEF lockVars
<1>5. TokenFresh(p)'
  BY <1>2 DEF StoreInv, TokenFresh, lockVars
<1>6. TokensApart'
  BY <1>2 DEF StoreInv, TokensApart, OthersStay
<1>7. LockGranted'
  BY DEF StoreInv, LockGranted, lockVars
<1> QED
  BY <1>1, <1>4, <1>5, <1>6, <1>7 DEF StoreInv, ItemsWell

(* p's call returns, and the LOCK item stays or is removed.                *)
LEMMA ReturnStep ==
  ASSUME StoreInv, NEW p \in Procs, Return(p), ItemsWell',
         UNCHANGED <<lockedBy, over>>, current' \in {current, NoToken}
  PROVE  StoreInv'
<1> USE GroupStoreAssumption
<1>1. /\ pc' = [pc EXCEPT ![p] = "idle"]
      /\ call' = [call EXCEPT ![p] = NoCall]
      /\ held' = [held EXCEPT ![p] = NoToken]
      /\ UNCHANGED <<calls, second>>
  BY DEF Return
<1>2. NoCall \in CallRecord
  BY DEF NoCall, CallRecord
<1>3. TypeOK'
  BY <1>1, <1>2 DEF StoreInv, TypeOK, ItemsWell, PCs
<1>4. pc'[p] = "idle" /\ call'[p] = NoCall /\ held'[p] = NoToken /\ OthersStay(p)
  BY <1>1 DEF StoreInv, TypeOK, OthersStay
<1>5. \A q \in Procs \ {p} : ArgsKnown(q)' /\ TokenFresh(q)'
  <2> SUFFICES ASSUME NEW q \in Procs \ {p} PROVE ArgsKnown(q)' /\ TokenFresh(q)'
    OBVIOUS
  <2>1. pc'[q] = pc[q] /\ call'[q] = call[q] /\ held'[q] = held[q]
    BY <1>4 DEF OthersStay
  <2> QED
    BY <1>1, <2>1
    DEF StoreInv, TokenFresh, ArgsKnown, TargetKnown, SourceKnown, SnapKnown,
        OpKnown, Proper
<1>6. ArgsKnown(p)'
  BY <1>4 DEF ArgsKnown, TargetKnown, SourceKnown, SnapKnown, OpKnown, Underway
<1>7. TokenFresh(p)'
  BY <1>4 DEF TokenFresh, Holding, Underway
<1>8. TokensApart'
  BY <1>4 DEF StoreInv, TokensApart, OthersStay
<1>9. LockGranted'
  BY <1>1 DEF StoreInv, LockGranted
<1> QED
  BY <1>3, <1>5, <1>6, <1>7, <1>8, <1>9 DEF StoreInv, ItemsWell

----------------------------------------------------------------------------
(* The steps of the operations.                                            *)

(* GetGroupConfig finds a proper item or creates one.                      *)
LEMMA StoredProper ==
  ASSUME StoreInv, NEW p \in Procs PROVE Proper(Stored(p))
<1>1. Proper(DefaultConfig(p))
  BY GroupStoreAssumption DEF DefaultConfig, Proper, ConfigRecord
<1> QED
  BY <1>1 DEF StoreInv, Stored

LEMMA GetStep ==
  ASSUME StoreInv, NEW p \in Procs, GetGroupConfig(p)
  PROVE  ItemsWell' /\ UNCHANGED lockVars
  BY StoredProper DEF StoreInv, TypeOK, ItemsWell, GetGroupConfig, Proper

LEMMA SameItems ==
  ASSUME StoreInv, UNCHANGED storeVars PROVE ItemsWell'
  BY DEF StoreInv, TypeOK, ItemsWell, storeVars, Proper

(* A call begins with a token that nobody has had.                         *)
LEMMA BeginStep ==
  ASSUME StoreInv, NEW p \in Procs, NEW first \in PCs, NEW target, NEW flag \in BOOLEAN,
         NEW name \in {"failover", "failback", "suspend", "transfer"},
         Begin(p, name, first, target, flag),
         \/ name = "failover" /\ first = "isLocked" /\ target \in Clusters
         \/ name = "failback" /\ first = "readBack" /\ target = NoCluster
         \/ name = "suspend" /\ first = "readSuspend" /\ target = NoCluster
         \/ name = "transfer" /\ first = "readTransfer" /\ target \in Clusters
  PROVE  StoreInv'
<1> USE GroupStoreAssumption
<1>1. PICK s \in second .. MaxSecond :
        /\ second' = s
        /\ call' = [call EXCEPT ![p] =
             [NoCall EXCEPT !.op = name, !.target = target, !.flag = flag,
                            !.start = s, !.id = calls + 1]]
  BY DEF Begin
<1> DEFINE c == [NoCall EXCEPT !.op = name, !.target = target, !.flag = flag,
                               !.start = s, !.id = calls + 1]
<1>2. calls \in Nat /\ calls < MaxCalls /\ calls + 1 \in Tokens /\ calls' = calls + 1
  BY DEF Begin, StoreInv, TypeOK, Tokens
<1>3. s \in 0 .. MaxSecond
  BY DEF StoreInv, TypeOK
<1>4. c \in CallRecord /\ c.op = name /\ c.target = target /\ c.id = calls + 1
  <2>1. NoCall \in CallRecord
    BY DEF NoCall, CallRecord
  <2>2. target \in Clusters \cup {NoCluster} /\ calls + 1 \in 0 .. MaxCalls
    BY <1>2 DEF Tokens
  <2> QED
    BY <1>3, <2>1, <2>2 DEF CallRecord
<1>6. /\ pc' = [pc EXCEPT ![p] = first] /\ call' = [call EXCEPT ![p] = c]
      /\ UNCHANGED <<storeVars, lockVars, held>> /\ pc[p] = "idle"
  BY <1>1 DEF Begin
<1> HIDE DEF c
<1>7. TypeOK'
  BY <1>1, <1>2, <1>3, <1>4, <1>6 DEF StoreInv, TypeOK, storeVars, lockVars
<1>8. /\ pc'[p] = first /\ call'[p] = c /\ held'[p] = held[p] /\ OthersStay(p)
      /\ UNCHANGED lockedBy
  BY <1>6 DEF StoreInv, TypeOK, OthersStay, lockVars
<1>9. \A q \in Procs \ {p} : ArgsKnown(q)' /\ TokenFresh(q)'
  BY <1>2, <1>8, OthersKnown
<1>10. ArgsKnown(p)'
  BY <1>4, <1>8
  DEF Begin, ArgsKnown, TargetKnown, SourceKnown, SnapKnown, OpKnown, Underway
<1>11. lockedBy[calls + 1] = NoCluster
  BY <1>2 DEF StoreInv, LockGranted
<1>12. TokenFresh(p)'
  <2>1. held[p] = NoToken
    BY <1>6 DEF StoreInv, TokenFresh, Holding, Underway
  <2>2. first \notin Holding
    BY DEF Holding, Underway
  <2> QED
    BY <1>2, <1>4, <1>8, <1>11, <2>1, <2>2 DEF TokenFresh
<1>13. TokensApart'
  <2>1. \A q \in Procs \ {p} : pc[q] # "idle" => call[q].id # calls + 1
    BY <1>2 DEF StoreInv, TokenFresh, Tokens
  <2> QED
    BY <1>4, <1>8, <2>1 DEF StoreInv, TokensApart, OthersStay
<1>14. LockGranted'
  <2>1. UNCHANGED <<current, lockedBy>>
    BY <1>6 DEF lockVars
  <2>2. \A k \in Tokens : lockedBy[k] # NoCluster => k <= calls + 1
    BY <1>2 DEF StoreInv, LockGranted, Tokens
  <2> QED
    BY <1>2, <2>1, <2>2 DEF StoreInv, LockGranted
<1>15. ItemsWell'
  BY <1>6, SameItems
<1> QED
  BY <1>7, <1>9, <1>10, <1>12, <1>13, <1>14, <1>15 DEF StoreInv, ItemsWell

LEMMA CallsStep ==
  ASSUME StoreInv, NEW p \in Procs, Calls(p) PROVE StoreInv'
<1>1. ASSUME NEW t \in Clusters, NEW fast \in BOOLEAN, ExecuteFailover(p, t, fast)
      PROVE  StoreInv'
  BY <1>1, BeginStep DEF ExecuteFailover, PCs
<1>2. ASSUME ExecuteFailback(p) PROVE StoreInv'
  BY <1>2, BeginStep DEF ExecuteFailback, PCs
<1>3. ASSUME NEW s \in BOOLEAN, UpdateSuspension(p, s) PROVE StoreInv'
  BY <1>3, BeginStep DEF UpdateSuspension, PCs
<1>4. ASSUME NEW t \in Clusters, TransferOwnership(p, t) PROVE StoreInv'
  BY <1>4, BeginStep DEF TransferOwnership, PCs
<1> QED
  BY <1>1, <1>2, <1>3, <1>4 DEF Calls

(* A request that reads the CONFIG item into the call.                     *)
LEMMA ReadStep ==
  ASSUME StoreInv, NEW p \in Procs, NEW next \in PCs, Read(p, next),
         \/ pc[p] = "readTx" /\ next = "tx"
         \/ pc[p] = "readLast" /\ next = "putLast"
         \/ pc[p] = "readSuspend" /\ next = "putSuspend"
         \/ /\ pc[p] = "readTransfer" /\ next = "putTransfer"
            /\ Stored(p).owner # call[p].target
  PROVE  StoreInv'
<1> USE GroupStoreAssumption
<1> DEFINE c == [call[p] EXCEPT !.snap = Stored(p)]
<1>1. Proper(Stored(p))
  BY StoredProper
<1>2. call[p] \in CallRecord
  BY DEF StoreInv, TypeOK
<1>3. /\ c \in CallRecord /\ c.id = call[p].id /\ c.snap = Stored(p)
      /\ c.target = call[p].target /\ c.src = call[p].src /\ c.op = call[p].op
  BY <1>1, <1>2 DEF CallRecord, Proper
<1>4. /\ pc' = [pc EXCEPT ![p] = next] /\ call' = [call EXCEPT ![p] = c]
      /\ UNCHANGED <<held, calls, second>> /\ GetGroupConfig(p)
  BY DEF Read, Goto, StoreInv, TypeOK
<1> HIDE DEF c
<1>5. pc'[p] = next /\ call'[p] = c
  BY <1>4 DEF StoreInv, TypeOK
<1>6. ItemsWell' /\ UNCHANGED lockVars
  BY <1>4, GetStep
<1>7. TargetKnown(p)' /\ SourceKnown(p)' /\ OpKnown(p)'
  BY <1>3, <1>5
  DEF StoreInv, ArgsKnown, TargetKnown, SourceKnown, OpKnown, Underway
<1>8. SnapKnown(p)'
  BY <1>1, <1>3, <1>5 DEF SnapKnown, Proper
<1> QED
  BY <1>3, <1>4, <1>6, <1>7, <1>8, AdvanceStep DEF ArgsKnown, Holding, Underway

(* A request after which the call goes on with what it had.                *)
LEMMA GotoStep ==
  ASSUME StoreInv, NEW p \in Procs, NEW next \in PCs, Goto(p, next),
         UNCHANGED <<call, lockVars>>, ItemsWell',
         pc[p] # "idle", next # "idle", next \in Holding <=> pc[p] \in Holding,
         TargetKnown(p)', SourceKnown(p)', SnapKnown(p)', OpKnown(p)'
  PROVE  StoreInv'
<1>1. call' = [call EXCEPT ![p] = call[p]] /\ call[p] \in CallRecord
  BY DEF StoreInv, TypeOK
<1> QED
  BY <1>1, AdvanceStep DEF Goto, ArgsKnown

(* What is known of a call that changes its place only.                    *)
LEMMA ReleaseKnown ==
  ASSUME NEW p \in Procs, pc'[p] \in {"history", "readLast", "release"},
         UNCHANGED call, TargetKnown(p), SourceKnown(p), pc[p] \in Underway
  PROVE  TargetKnown(p)' /\ SourceKnown(p)' /\ SnapKnown(p)' /\ OpKnown(p)'
<1>1. TargetKnown(p)'
  BY DEF TargetKnown, Underway
<1>2. SourceKnown(p)'
  BY DEF SourceKnown, Underway
<1>3. SnapKnown(p)' /\ OpKnown(p)'
  BY DEF SnapKnown, OpKnown, Underway
<1> QED
  BY <1>1, <1>2, <1>3

LEMMA ReleaseGoto ==
  ASSUME StoreInv, NEW p \in Procs, pc[p] \in Underway,
         NEW next \in {"history", "readLast", "release"}, Goto(p, next),
         UNCHANGED <<call, lockVars>>, ItemsWell'
  PROVE  StoreInv'
<1>1. pc'[p] = next /\ next \in PCs
  BY DEF Goto, StoreInv, TypeOK, PCs
<1>2. TargetKnown(p)' /\ SourceKnown(p)' /\ SnapKnown(p)' /\ OpKnown(p)'
  BY <1>1, ReleaseKnown DEF StoreInv, ArgsKnown
<1> QED
  BY <1>1, <1>2, GotoStep DEF Holding, Underway

(* The lock is written with the token of p's call, which then holds it or  *)
(* has returned without knowing.                                           *)
LEMMA PutLockStep ==
  ASSUME StoreInv, NEW p \in Procs, PutLock(p), UNCHANGED <<calls, second>>,
         \/ /\ held' = [held EXCEPT ![p] = call[p].id]
            /\ pc' = [pc EXCEPT ![p] = "readTx"]
            /\ UNCHANGED call
         \/ Return(p)
  PROVE  StoreInv'
<1> USE GroupStoreAssumption
<1> DEFINE k == call[p].id
<1>1. k \in Tokens /\ k <= calls /\ pc[p] = "lock" /\ lockedBy[k] = NoCluster
  BY DEF PutLock, StoreInv, TokenFresh, Holding, Underway
<1>2. /\ current' = k /\ lockedBy' = [lockedBy EXCEPT ![k] = ClusterOf[p]]
      /\ UNCHANGED <<config, rows, history, over>>
  BY DEF PutLock, WriteLock, storeVars
<1>3. ClusterOf[p] \in Clusters /\ ClusterOf[p] # NoCluster
  OBVIOUS
<1>4. NoCall \in CallRecord
  BY DEF NoCall, CallRecord
<1>5. TypeOK'
  BY <1>1, <1>2, <1>3, <1>4 DEF StoreInv, TypeOK, Return, PCs
<1>6. OthersStay(p)
  BY DEF StoreInv, TypeOK, Return, OthersStay
<1>7. \/ pc'[p] = "readTx" /\ call'[p] = call[p] /\ held'[p] = k
      \/ pc'[p] = "idle" /\ call'[p] = NoCall /\ held'[p] = NoToken
  BY DEF StoreInv, TypeOK, Return
<1>8. \A q \in Procs \ {p} : ArgsKnown(q)' /\ TokenFresh(q)'
  <2>1. \A j \in Tokens \ {k} : lockedBy'[j] = lockedBy[j]
    BY <1>2 DEF StoreInv, TypeOK
  <2>2. calls' \in Nat /\ calls <= calls'
    BY DEF StoreInv, TypeOK
  <2> QED
    BY <1>1, <1>6, <2>1, <2>2, OthersKnown
<1>9. ArgsKnown(p)'
  BY <1>1, <1>7
  DEF StoreInv, ArgsKnown, TargetKnown, SourceKnown, SnapKnown, OpKnown, Underway
<1>10. TokenFresh(p)'
  BY <1>1, <1>7 DEF TokenFresh, Holding, Underway
<1>11. TokensApart'
  BY <1>1, <1>6, <1>7 DEF StoreInv, TokensApart, OthersStay
<1>12. LockGranted'
  BY <1>1, <1>2, <1>3 DEF StoreInv, TypeOK, LockGranted
<1>13. ItemsWell'
  BY <1>2, SameItems DEF storeVars
<1> QED
  BY <1>5, <1>8, <1>9, <1>10, <1>11, <1>12, <1>13 DEF StoreInv, ItemsWell

(* The transaction switches the owner and leaves proper items.             *)
LEMMA TransactionItems ==
  ASSUME StoreInv, NEW p \in Procs, ApplyTransaction(p)
  PROVE  /\ ItemsWell' /\ Proper(config')
         /\ UNCHANGED <<history, lockVars, call>> /\ pc[p] = "tx"
<1> DEFINE src == call[p].src
           target == call[p].target
<1>1. pc[p] = "tx" /\ UNCHANGED <<history, lockVars, call>> /\ config # NoConfig
  BY DEF ApplyTransaction, TxCondition
<1>2. src \in Clusters /\ target \in Clusters /\ src # target
  BY <1>1 DEF StoreInv, ArgsKnown, TargetKnown, SourceKnown, Underway
<1>3. call[p].snap \in ConfigRecord /\ config \in ConfigRecord
  BY <1>1 DEF StoreInv, ArgsKnown, SnapKnown, Proper
<1>4. Proper(config')
  <2>1. /\ config' = [config EXCEPT
             !.owner = target,
             !.prev = IF call[p].op = "failback" THEN NoCluster ELSE src,
             !.version = call[p].snap.version + 1]
    BY DEF ApplyTransaction
  <2>2. /\ call[p].snap.version + 1 \in Nat
        /\ (IF call[p].op = "failback" THEN NoCluster ELSE src) \in Clusters \cup {NoCluster}
    BY <1>2, <1>3 DEF ConfigRecord
  <2>3. target # IF call[p].op = "failback" THEN NoCluster ELSE src
    BY <1>2, GroupStoreAssumption
  <2> QED
    BY <1>2, <1>3, <2>1, <2>2, <2>3 DEF Proper, ConfigRecord
<1>5. rows' \in [Clusters -> RowRecord \cup {NoRow}]
  <2>1. ASSUME NEW r \in RowRecord \cup {NoRow}, NEW s \in RowStates
        PROVE  WithState(r, s) \in RowRecord
    BY <2>1 DEF WithState, RowRecord, Healths
  <2>2. rows \in [Clusters -> RowRecord \cup {NoRow}]
    BY DEF StoreInv, TypeOK
  <2>3. SourceState(p) \in RowStates /\ "PRIMARY" \in RowStates
    BY DEF SourceState, RowStates
  <2>4. rows' = [rows EXCEPT ![src] = WithState(@, SourceState(p)),
                             ![target] = WithState(@, "PRIMARY")]
    BY DEF ApplyTransaction
  <2>5. WithState(rows[src], SourceState(p)) \in RowRecord
        /\ WithState(rows[target], "PRIMARY") \in RowRecord
    BY <1>2, <2>1, <2>2, <2>3
  <2> HIDE DEF src, target
  <2> QED
    BY <1>2, <2>2, <2>4, <2>5
<1> QED
  BY <1>1, <1>4, <1>5 DEF ItemsWell, StoreInv, TypeOK, Proper

LEMMA PutHistoryItems ==
  ASSUME StoreInv, NEW p \in Procs, PutHistory(p)
  PROVE  ItemsWell' /\ UNCHANGED <<config, rows, lockVars, call>> /\ pc[p] = "history"
<1>1. [start |-> call[p].start, src |-> call[p].src, target |-> call[p].target]
        \in HistoryRecord
  <2>1. call[p].src \in Clusters /\ call[p].target \in Clusters
    BY DEF PutHistory, StoreInv, ArgsKnown, TargetKnown, SourceKnown, Underway
  <2>2. call[p].start \in 0 .. MaxSecond
    BY DEF StoreInv, TypeOK, CallRecord
  <2> QED
    BY <2>1, <2>2 DEF HistoryRecord
<1> QED
  BY <1>1 DEF PutHistory, ItemsWell, StoreInv, TypeOK, Proper

(* UpdateGroupConfig stores a proper value.                                *)
LEMMA UpdateItems ==
  ASSUME StoreInv, NEW value, Proper(value), UpdateGroupConfig(value)
  PROVE  ItemsWell' /\ UNCHANGED lockVars
<1>1. Proper([value EXCEPT !.version = @ + 1])
  BY DEF Proper, ConfigRecord
<1> QED
  BY <1>1 DEF UpdateGroupConfig, ItemsWell, StoreInv, TypeOK, Proper

LEMMA SwitchOverStep ==
  ASSUME StoreInv, NEW p \in Procs, SwitchOverSteps(p) PROVE StoreInv'
<1> USE GroupStoreAssumption
<1>1. CASE ReadPreviousOwner(p)
  <2> DEFINE c == [call[p] EXCEPT !.src = Stored(p).owner, !.target = Stored(p).prev]
  <2>1. Proper(Stored(p))
    BY StoredProper
  <2>2. /\ pc[p] = "readBack" /\ pc' = [pc EXCEPT ![p] = "isLocked"]
        /\ UNCHANGED <<held, calls, second>> /\ GetGroupConfig(p)
        /\ Stored(p).prev # NoCluster
    BY <1>1 DEF ReadPreviousOwner, Goto
  <2>3. Stored(p).owner \in Clusters /\ Stored(p).prev \in Clusters
        /\ Stored(p).owner # Stored(p).prev
    BY <2>1, <2>2 DEF Proper, ConfigRecord
  <2>4. call[p] \in CallRecord
    BY DEF StoreInv, TypeOK
  <2>5. /\ c \in CallRecord /\ c.id = call[p].id
        /\ c.src = Stored(p).owner /\ c.target = Stored(p).prev
    BY <2>3, <2>4 DEF CallRecord
  <2>6. call' = [call EXCEPT ![p] = c]
    BY <1>1 DEF ReadPreviousOwner, StoreInv, TypeOK
  <2> HIDE DEF c
  <2>7. pc'[p] = "isLocked" /\ call'[p] = c
    BY <2>2, <2>6 DEF StoreInv, TypeOK
  <2>8. ArgsKnown(p)'
    BY <2>3, <2>5, <2>7
    DEF ArgsKnown, TargetKnown, SourceKnown, SnapKnown, OpKnown, Underway
  <2>9. ItemsWell' /\ UNCHANGED lockVars
    BY <2>2, GetStep
  <2> QED
    BY <2>2, <2>5, <2>6, <2>8, <2>9, AdvanceStep DEF PCs, Holding, Underway
<1>2. CASE CheckLock(p)
  <2>1. /\ pc[p] = "isLocked" /\ pc'[p] = "validate" /\ Goto(p, "validate")
        /\ UNCHANGED <<storeVars, lockVars, call>>
    BY <1>2 DEF CheckLock, Goto, StoreInv, TypeOK
  <2>2. TargetKnown(p)' /\ SourceKnown(p)' /\ SnapKnown(p)' /\ OpKnown(p)'
    BY <2>1
    DEF StoreInv, ArgsKnown, TargetKnown, SourceKnown, SnapKnown, OpKnown, Underway
  <2> QED
    BY <2>1, <2>2, SameItems, GotoStep DEF PCs, Holding, Underway
<1>3. CASE CheckSuspended(p)
  <2>1. /\ pc[p] = "validate" /\ GetGroupConfig(p) /\ UNCHANGED call
        /\ \/ call[p].op # "failback" /\ pc'[p] = "source" /\ Goto(p, "source")
           \/ pc'[p] = "health" /\ Goto(p, "health")
    BY <1>3 DEF CheckSuspended, Goto, StoreInv, TypeOK
  <2>2. TargetKnown(p)' /\ SourceKnown(p)' /\ SnapKnown(p)' /\ OpKnown(p)'
    BY <2>1
    DEF StoreInv, ArgsKnown, TargetKnown, SourceKnown, SnapKnown, OpKnown, Underway
  <2> QED
    BY <2>1, <2>2, GetStep, GotoStep DEF PCs, Holding, Underway
<1>4. CASE CheckHealth(p)
  <2>1. /\ pc[p] = "health" /\ UNCHANGED <<storeVars, lockVars, call>>
        /\ \/ call[p].op = "failback" /\ pc'[p] = "lock" /\ Goto(p, "lock")
           \/ pc'[p] = "source" /\ Goto(p, "source")
    BY <1>4 DEF CheckHealth, Goto, StoreInv, TypeOK
  <2>2. TargetKnown(p)' /\ SourceKnown(p)' /\ SnapKnown(p)' /\ OpKnown(p)'
    BY <2>1
    DEF StoreInv, ArgsKnown, TargetKnown, SourceKnown, SnapKnown, OpKnown, Underway
  <2> QED
    BY <2>1, <2>2, SameItems, GotoStep DEF PCs, Holding, Underway
<1>5. CASE ReadSource(p)
  <2> DEFINE c == [call[p] EXCEPT !.src = Stored(p).owner]
  <2>1. Proper(Stored(p))
    BY StoredProper
  <2>2. /\ pc[p] = "source" /\ pc' = [pc EXCEPT ![p] = "lock"]
        /\ UNCHANGED <<held, calls, second>> /\ GetGroupConfig(p)
        /\ Stored(p).owner # call[p].target
    BY <1>5 DEF ReadSource, Goto
  <2>3. Stored(p).owner \in Clusters /\ call[p].target \in Clusters
    BY <2>1, <2>2 DEF Proper, ConfigRecord, StoreInv, ArgsKnown, TargetKnown
  <2>4. call[p] \in CallRecord
    BY DEF StoreInv, TypeOK
  <2>5. /\ c \in CallRecord /\ c.id = call[p].id
        /\ c.src = Stored(p).owner /\ c.target = call[p].target
    BY <2>3, <2>4 DEF CallRecord
  <2>6. call' = [call EXCEPT ![p] = c]
    BY <1>5 DEF ReadSource, StoreInv, TypeOK
  <2> HIDE DEF c
  <2>7. pc'[p] = "lock" /\ call'[p] = c
    BY <2>2, <2>6 DEF StoreInv, TypeOK
  <2>8. ArgsKnown(p)'
    BY <2>2, <2>3, <2>5, <2>7
    DEF ArgsKnown, TargetKnown, SourceKnown, SnapKnown, OpKnown, Underway
  <2>9. ItemsWell' /\ UNCHANGED lockVars
    BY <2>2, GetStep
  <2> QED
    BY <2>2, <2>5, <2>6, <2>8, <2>9, AdvanceStep DEF PCs, Holding, Underway
<1>6. CASE AcquireLock(p)
  BY <1>6, PutLockStep DEF AcquireLock
<1>7. CASE ReadVersion(p)
  BY <1>7, ReadStep DEF ReadVersion, PCs
<1>8. CASE Transaction(p)
  BY <1>8, TransactionItems, ReleaseGoto DEF Transaction, Underway
<1>9. CASE RecordHistory(p)
  BY <1>9, PutHistoryItems, ReleaseGoto DEF RecordHistory, Underway
<1>10. CASE ReadLastFailover(p)
  BY <1>10, ReadStep DEF ReadLastFailover, PCs
<1>11. CASE PutLastFailover(p)
  <2>1. pc[p] = "putLast" /\ Proper(call[p].snap)
    BY <1>11 DEF PutLastFailover, StoreInv, ArgsKnown, SnapKnown
  <2> QED
    BY <1>11, <2>1, UpdateItems, ReleaseGoto DEF PutLastFailover, Underway
<1>12. CASE ReleaseLock(p)
  BY <1>12, SameItems, ReturnStep DEF ReleaseLock
<1> QED
  BY <1>1, <1>2, <1>3, <1>4, <1>5, <1>6, <1>7, <1>8, <1>9, <1>10, <1>11, <1>12
  DEF SwitchOverSteps

LEMMA ConfigStep ==
  ASSUME StoreInv, NEW p \in Procs, ConfigSteps(p) PROVE StoreInv'
<1> USE GroupStoreAssumption
<1>1. CASE ReadSuspension(p)
  BY <1>1, ReadStep DEF ReadSuspension, PCs
<1>2. CASE PutSuspension(p)
  <2> DEFINE value == [call[p].snap EXCEPT !.suspended = call[p].flag, !.version = @ + 1]
  <2>1. Proper(call[p].snap) /\ call[p].flag \in BOOLEAN
    BY <1>2
    DEF PutSuspension, StoreInv, TypeOK, CallRecord, ArgsKnown, SnapKnown
  <2>2. Proper(value)
    <3> DEFINE s == call[p].snap
               f == call[p].flag
               n == s.version + 1
    <3>1. s \in ConfigRecord /\ s.owner # s.prev /\ f \in BOOLEAN /\ n \in Nat
      BY <2>1 DEF Proper, ConfigRecord
    <3> HIDE DEF s, f, n
    <3>2. Proper([s EXCEPT !.suspended = f, !.version = n])
      BY <3>1 DEF Proper, ConfigRecord
    <3> QED
      BY <3>2 DEF s, f, n
  <2>3. UpdateGroupConfig(value) /\ Return(p)
    BY <1>2 DEF PutSuspension
  <2> HIDE DEF value
  <2> QED
    BY <2>2, <2>3, UpdateItems, ReturnStep DEF lockVars
<1>3. CASE ReadOwner(p)
  BY <1>3, ReadStep DEF ReadOwner, PCs
<1>4. CASE AlreadyOwner(p)
  BY <1>4, GetStep, ReturnStep DEF AlreadyOwner, lockVars
<1>5. CASE PutTransfer(p)
  <2>1. /\ Proper(call[p].snap) /\ call[p].target \in Clusters
        /\ call[p].snap.owner # call[p].target
    BY <1>5 DEF PutTransfer, StoreInv, ArgsKnown, SnapKnown, TargetKnown
  <2>2. Proper(TransferValue(p))
    <3> DEFINE s == call[p].snap
               o == call[p].target
               q == s.owner
               n == s.version + 1
    <3>1. /\ s \in ConfigRecord /\ o \in Clusters /\ q \in Clusters /\ q # o
          /\ n \in Nat
      BY <2>1 DEF Proper, ConfigRecord
    <3> HIDE DEF s, o, q, n
    <3>2. Proper([s EXCEPT !.prev = q, !.owner = o, !.version = n])
      BY <3>1 DEF Proper, ConfigRecord
    <3> QED
      BY <3>2 DEF s, o, q, n, TransferValue
  <2> QED
    BY <1>5, <2>2, UpdateItems, ReturnStep DEF PutTransfer, lockVars
<1>6. CASE TransferConflict(p)
  <2>1. /\ pc[p] = "putTransfer" /\ pc'[p] = "forceTransfer" /\ Goto(p, "forceTransfer")
        /\ UNCHANGED <<storeVars, lockVars, call>>
    BY <1>6 DEF TransferConflict, Goto, StoreInv, TypeOK
  <2>2. TargetKnown(p)' /\ SourceKnown(p)' /\ SnapKnown(p)' /\ OpKnown(p)'
    BY <2>1
    DEF StoreInv, ArgsKnown, TargetKnown, SourceKnown, SnapKnown, OpKnown, Underway, Proper
  <2> QED
    BY <2>1, <2>2, SameItems, GotoStep DEF PCs, Holding, Underway
<1>7. CASE ForceTransfer(p)
  <2>1. /\ Proper(call[p].snap) /\ call[p].target \in Clusters
        /\ call[p].snap.owner # call[p].target
    BY <1>7 DEF ForceTransfer, StoreInv, ArgsKnown, SnapKnown, TargetKnown
  <2>2. (config # NoConfig /\ config.suspended) \in BOOLEAN
    BY DEF StoreInv, TypeOK, ConfigRecord
  <2>3. Proper(config')
    BY <1>7, <2>1, <2>2 DEF ForceTransfer, Proper, ConfigRecord
  <2>4. ItemsWell'
    BY <1>7, <2>3 DEF ForceTransfer, ItemsWell, StoreInv, TypeOK, Proper
  <2> QED
    BY <1>7, <2>4, ReturnStep DEF ForceTransfer, lockVars
<1> QED
  BY <1>1, <1>2, <1>3, <1>4, <1>5, <1>6, <1>7 DEF ConfigSteps

(* A request that is made outside of any call.                             *)
LEMMA RequestStep ==
  ASSUME StoreInv, UNCHANGED <<lockedBy, procVars, second>>, ItemsWell',
         calls' \in {calls, calls + 1}, calls' <= MaxCalls,
         over' \subseteq Tokens, current' \in {current, NoToken}
  PROVE  StoreInv'
<1> USE GroupStoreAssumption
<1>0. calls \in Nat /\ calls' \in Nat /\ calls <= calls'
  BY DEF StoreInv, TypeOK
<1>1. TypeOK'
  BY <1>0 DEF StoreInv, TypeOK, ItemsWell, procVars
<1>2. \A p \in Procs : ArgsKnown(p)'
  BY DEF StoreInv, ArgsKnown, TargetKnown, SourceKnown, SnapKnown, OpKnown, Proper, procVars
<1>3. \A p \in Procs : TokenFresh(p)'
  BY <1>0 DEF StoreInv, TokenFresh, procVars, Tokens
<1>4. TokensApart'
  BY DEF StoreInv, TokensApart, procVars
<1>5. LockGranted'
  BY <1>0 DEF StoreInv, LockGranted, Tokens
<1> QED
  BY <1>1, <1>2, <1>3, <1>4, <1>5 DEF StoreInv, ItemsWell

LEMMA RequestsStep ==
  ASSUME StoreInv, NEW p \in Procs, Requests(p) PROVE StoreInv'
<1> USE GroupStoreAssumption
<1>0. /\ UNCHANGED <<history, lockedBy, procVars, second>>
      /\ calls' = calls + 1 /\ calls + 1 <= MaxCalls
  BY DEF Requests, UpdateClusterStatus, RemoveClusterStatus, DeleteGroupConfig,
         DeleteLock, Request, StoreInv, TypeOK
<1>1. ASSUME NEW c \in Clusters, NEW h \in Healths, NEW s \in RowStates,
             UpdateClusterStatus(p, c, h, s)
      PROVE  StoreInv'
  <2>1. [health |-> h, state |-> s] \in RowRecord
    BY DEF RowRecord
  <2>2. ItemsWell'
    BY <1>0, <1>1, <2>1 DEF UpdateClusterStatus, StoreInv, TypeOK, ItemsWell, Proper
  <2>3. UNCHANGED <<current, over>>
    BY <1>1 DEF UpdateClusterStatus
  <2>4. over \subseteq Tokens
    BY DEF StoreInv, TypeOK
  <2> QED
    BY <1>0, <2>2, <2>3, <2>4, RequestStep
<1>2. ASSUME NEW c \in Clusters, RemoveClusterStatus(p, c) PROVE StoreInv'
  <2>1. ItemsWell'
    BY <1>0, <1>2 DEF RemoveClusterStatus, StoreInv, TypeOK, ItemsWell, Proper
  <2>2. UNCHANGED <<current, over>>
    BY <1>2 DEF RemoveClusterStatus
  <2>3. over \subseteq Tokens
    BY DEF StoreInv, TypeOK
  <2> QED
    BY <1>0, <2>1, <2>2, <2>3, RequestStep
<1>3. ASSUME DeleteGroupConfig(p) PROVE StoreInv'
  <2>1. ItemsWell'
    BY <1>0, <1>3 DEF DeleteGroupConfig, StoreInv, TypeOK, ItemsWell, Proper
  <2>2. UNCHANGED <<current, over>>
    BY <1>3 DEF DeleteGroupConfig
  <2>3. over \subseteq Tokens
    BY DEF StoreInv, TypeOK
  <2> QED
    BY <1>0, <2>1, <2>2, <2>3, RequestStep
<1>4. ASSUME DeleteLock(p) PROVE StoreInv'
  <2>1. ItemsWell'
    BY <1>0, <1>4, SameItems DEF DeleteLock, storeVars
  <2>2. current' = NoToken /\ over' \subseteq Tokens
    BY <1>4 DEF DeleteLock, StoreInv, TypeOK
  <2> QED
    BY <1>0, <2>1, <2>2, RequestStep
<1> QED
  BY <1>1, <1>2, <1>3, <1>4 DEF Requests

LEMMA ContinueStep ==
  ASSUME StoreInv, NEW p \in Procs, Continue(p), ItemsWell', UNCHANGED lockVars
  PROVE  StoreInv'
<1>1. CASE pc[p] \in Underway
  BY <1>1, ReleaseGoto DEF Continue
<1>2. CASE pc[p] \notin Underway
  BY <1>2, ReturnStep DEF Continue, lockVars
<1> QED
  BY <1>1, <1>2

LEMMA FailureStep ==
  ASSUME StoreInv, NEW p \in Procs, Failures(p) PROVE StoreInv'
<1>1. CASE CallFails(p)
  BY <1>1, SameItems, ContinueStep DEF CallFails
<1>2. CASE AnswerLost(p)
  <2>1. CASE PutLock(p) /\ Return(p)
    BY <2>1, PutLockStep DEF Return
  <2>2. CASE ApplyTransaction(p) /\ Goto(p, "release")
    BY <2>2, TransactionItems, ReleaseGoto DEF Underway
  <2>3. CASE PutHistory(p) /\ Goto(p, "release")
    BY <2>3, PutHistoryItems, ReleaseGoto DEF Underway
  <2> QED
    BY <1>2, <2>1, <2>2, <2>3 DEF AnswerLost
<1>3. CASE CreateOnly(p)
  BY <1>3, GetStep, ContinueStep DEF CreateOnly
<1>4. CASE Crash(p)
  BY <1>4, SameItems, ReturnStep DEF Crash, lockVars
<1> QED
  BY <1>1, <1>2, <1>3, <1>4 DEF Failures

LEMMA ExpireStep == ASSUME StoreInv, Expire PROVE StoreInv'
<1>1. /\ UNCHANGED <<storeVars, current, lockedBy, procVars, calls, second>>
      /\ over' \subseteq Tokens
  BY DEF Expire, StoreInv, TypeOK
<1>2. calls <= MaxCalls
  BY GroupStoreAssumption DEF StoreInv, TypeOK
<1> QED
  BY <1>1, <1>2, SameItems, RequestStep

LEMMA StoreNext == StoreInv /\ [Next]_vars => StoreInv'
<1> SUFFICES ASSUME StoreInv, [Next]_vars PROVE StoreInv'
  OBVIOUS
<1>1. CASE UNCHANGED vars
  <2>1. UNCHANGED <<storeVars, current, lockedBy, over, procVars, calls, second>>
    BY <1>1 DEF vars, storeVars, procVars
  <2>2. calls <= MaxCalls /\ over \subseteq Tokens
    BY GroupStoreAssumption DEF StoreInv, TypeOK
  <2> QED
    BY <2>1, <2>2, SameItems, RequestStep
<1> QED
  BY <1>1, CallsStep, SwitchOverStep, ConfigStep, RequestsStep, FailureStep, ExpireStep
  DEF Next

LEMMA StoreInit == Init => StoreInv
<1> SUFFICES ASSUME Init PROVE StoreInv
  OBVIOUS
<1> USE GroupStoreAssumption
<1>1. config # NoConfig => Proper(config)
  <2>1. ASSUME NEW o \in Clusters, NEW q \in Clusters \cup {NoCluster}, o # q
        PROVE  Proper([owner |-> o, prev |-> q, version |-> 2, suspended |-> FALSE])
    BY <2>1 DEF Proper, ConfigRecord
  <2> QED
    BY <2>1 DEF Init
<1>2. [health : {"OK"}, state : {"PRIMARY", "STANDBY"}] \subseteq RowRecord
  BY DEF RowRecord, Healths, RowStates
<1>3. rows \in [Clusters -> RowRecord \cup {NoRow}]
  BY <1>2 DEF Init
<1>4. NoCall \in CallRecord
  BY DEF NoCall, CallRecord
<1>5. TypeOK
  BY <1>1, <1>3, <1>4 DEF Init, TypeOK, Proper, PCs
<1>6. \A p \in Procs : pc[p] = "idle" /\ held[p] = NoToken
  BY DEF Init
<1>7. \A p \in Procs : ArgsKnown(p) /\ TokenFresh(p)
  BY <1>6
  DEF ArgsKnown, TargetKnown, SourceKnown, SnapKnown, OpKnown, TokenFresh,
      Holding, Underway
<1>8. TokensApart
  BY <1>6 DEF TokensApart
<1>9. LockGranted
  BY DEF Init, LockGranted
<1> QED
  BY <1>1, <1>5, <1>7, <1>8, <1>9 DEF StoreInv

(* What a call of OperationsManager writes is known by the time that it    *)
(* writes it, and its lock token is its own.                               *)
THEOREM StoreInvariant == Spec => []StoreInv
  BY StoreInit, StoreNext, PTL DEF Spec

(* The items and the calls that work on them are of the declared types,    *)
(* whichever operations run against each other and wherever they fail.     *)
THEOREM StoreTypeCorrect == Spec => []TypeOK
<1>1. StoreInv => TypeOK
  BY DEF StoreInv
<1> QED
  BY <1>1, StoreInvariant, PTL

(* The cluster that ExecuteFailback goes back to (PreviousOwner) is never  *)
(* the owner itself, whatever transfers, outdated suspensions and          *)
(* deletions of the item came before.                                      *)
THEOREM PreviousIsAnother == Spec => [](config # NoConfig => config.owner # config.prev)
<1>1. StoreInv => (config # NoConfig => config.owner # config.prev)
  BY DEF StoreInv, Proper
<1> QED
  BY <1>1, StoreInvariant, PTL

----------------------------------------------------------------------------
(* The lock (module Lease).                                                *)
LEMMA StoreTokens == L!NoToken = NoToken
  BY DEF L!NoToken, NoToken

LeaseStep == [L!LeaseNext]_L!leaseVars

LEMMA LeaseStays ==
  ASSUME UNCHANGED <<lockVars, held>> PROVE LeaseStep
  BY DEF LeaseStep, L!leaseVars, lockVars, Granted

(* A call that returns stops using the lease it may hold.                  *)
LEMMA ReturnGivesUp ==
  ASSUME StoreInv, NEW p \in Procs, Return(p), UNCHANGED <<lockedBy, over>>,
         \/ UNCHANGED current
         \/ current # NoToken /\ current = held[p] /\ current' = NoToken
  PROVE  LeaseStep
<1>1. held' = [held EXCEPT ![p] = NoToken] /\ held \in [Procs -> Tokens \cup {NoToken}]
  BY DEF Return, StoreInv, TypeOK
<1>2. Granted' = Granted
  BY DEF Granted
<1>3. CASE held[p] = NoToken
  <2>1. held' = held /\ current' = current
    BY <1>1, <1>3
  <2> QED
    BY <1>2, <2>1 DEF LeaseStep, L!leaseVars
<1>4. CASE held[p] # NoToken
  <2>1. L!GiveUp(p)
    BY <1>1, <1>2, <1>4, StoreTokens DEF L!GiveUp
  <2> QED
    BY <2>1 DEF LeaseStep, L!LeaseNext
<1> QED
  BY <1>3, <1>4

(* A write of the LOCK item that is applied is a grant, whether or not the *)
(* caller learns of it.                                                    *)
LEMMA PutLockGrants ==
  ASSUME StoreInv, NEW p \in Procs, PutLock(p),
         held' \in {held, [held EXCEPT ![p] = call[p].id], [held EXCEPT ![p] = NoToken]}
  PROVE  LeaseStep
<1> DEFINE k == call[p].id
<1>1. k \in Tokens /\ lockedBy[k] = NoCluster /\ held[p] = NoToken
  BY DEF PutLock, StoreInv, TokenFresh, Holding, Underway
<1>2. /\ current = NoToken \/ current \in over
      /\ current' = k /\ over' = over
      /\ lockedBy' = [lockedBy EXCEPT ![k] = ClusterOf[p]]
  BY DEF PutLock, WriteLock
<1>3. held' \in {held, [held EXCEPT ![p] = k]}
  BY <1>1 DEF StoreInv, TypeOK
<1>4. k \in Tokens \ Granted /\ Granted' = Granted \cup {k}
  <2>1. lockedBy \in [Tokens -> Clusters \cup {NoCluster}]
    BY DEF StoreInv, TypeOK
  <2>2. ClusterOf[p] # NoCluster
    BY GroupStoreAssumption
  <2> HIDE DEF k
  <2> QED
    BY <1>1, <1>2, <2>1, <2>2 DEF Granted
<1>5. L!Grant(p, k)
  BY <1>1, <1>2, <1>3, <1>4, StoreTokens DEF L!Grant
<1> QED
  BY <1>1, <1>5 DEF LeaseStep, L!LeaseNext

LEMMA GotoKeepsLease ==
  ASSUME NEW p \in Procs, NEW label, Goto(p, label), UNCHANGED lockVars PROVE LeaseStep
  BY LeaseStays DEF Goto

LEMMA ContinueLease ==
  ASSUME StoreInv, NEW p \in Procs, Continue(p), UNCHANGED lockVars PROVE LeaseStep
  BY ReturnGivesUp, GotoKeepsLease DEF Continue, lockVars

(* Every step of every operation uses the lock as module Lease says.       *)
LEMMA NextLease == StoreInv /\ [Next]_vars => LeaseStep
<1> SUFFICES ASSUME StoreInv, [Next]_vars PROVE LeaseStep
  OBVIOUS
<1>1. ASSUME NEW p \in Procs, Calls(p) PROVE LeaseStep
  BY <1>1, LeaseStays
  DEF Calls, ExecuteFailover, ExecuteFailback, UpdateSuspension, TransferOwnership, Begin
<1>2. ASSUME NEW p \in Procs, SwitchOverSteps(p) PROVE LeaseStep
  <2>1. CASE AcquireLock(p)
    BY <2>1, PutLockGrants DEF AcquireLock
  <2>2. CASE ReleaseLock(p)
    <3>1. held[p] \in Tokens
      BY <2>2 DEF ReleaseLock, StoreInv, TokenFresh, Holding, Underway
    <3>2. held[p] # NoToken
      BY <3>1, GroupStoreAssumption DEF Tokens, NoToken
    <3> QED
      BY <2>2, <3>2, ReturnGivesUp DEF ReleaseLock
  <2>3. CASE SwitchOverSteps(p) /\ ~AcquireLock(p) /\ ~ReleaseLock(p)
    <3>1. UNCHANGED lockVars
      BY <2>3
      DEF SwitchOverSteps, ReadPreviousOwner, CheckLock, CheckSuspended, CheckHealth,
          ReadSource, ReadVersion, Read, GetGroupConfig, Transaction, ApplyTransaction,
          RecordHistory, PutHistory, ReadLastFailover, PutLastFailover, UpdateGroupConfig
    <3>2. UNCHANGED held
      BY <2>3
      DEF SwitchOverSteps, ReadPreviousOwner, CheckLock, CheckSuspended, CheckHealth,
          ReadSource, ReadVersion, Read, Transaction, RecordHistory, ReadLastFailover,
          PutLastFailover, Goto
    <3> QED
      BY <3>1, <3>2, LeaseStays
  <2> QED
    BY <1>2, <2>1, <2>2, <2>3
<1>3. ASSUME NEW p \in Procs, ConfigSteps(p) PROVE LeaseStep
  <2>1. CASE ReadSuspension(p) \/ ReadOwner(p)
    BY <2>1, GotoKeepsLease DEF ReadSuspension, ReadOwner, Read, GetGroupConfig
  <2>2. CASE PutSuspension(p) \/ AlreadyOwner(p) \/ PutTransfer(p) \/ ForceTransfer(p)
    BY <2>2, ReturnGivesUp
    DEF PutSuspension, AlreadyOwner, PutTransfer, ForceTransfer, UpdateGroupConfig,
        GetGroupConfig, lockVars
  <2>3. CASE TransferConflict(p)
    BY <2>3, GotoKeepsLease DEF TransferConflict
  <2> QED
    BY <1>3, <2>1, <2>2, <2>3 DEF ConfigSteps
<1>4. ASSUME NEW p \in Procs, Requests(p) PROVE LeaseStep
  <2>1. CASE DeleteLock(p)
    <3>1. L!TearDown
      BY <2>1, StoreTokens DEF DeleteLock, Request, procVars, Granted, L!TearDown
    <3> QED
      BY <3>1 DEF LeaseStep, L!LeaseNext
  <2>2. CASE Requests(p) /\ ~DeleteLock(p)
    <3>1. UNCHANGED <<lockVars, held>>
      BY <2>2
      DEF Requests, UpdateClusterStatus, RemoveClusterStatus, DeleteGroupConfig,
          Request, procVars, lockVars
    <3> QED
      BY <3>1, LeaseStays
  <2> QED
    BY <1>4, <2>1, <2>2
<1>5. ASSUME NEW p \in Procs, Failures(p) PROVE LeaseStep
  <2>1. CASE CallFails(p)
    BY <2>1, ContinueLease DEF CallFails
  <2>2. CASE AnswerLost(p)
    <3>1. CASE PutLock(p) /\ Return(p)
      BY <3>1, PutLockGrants DEF Return
    <3>2. CASE /\ ApplyTransaction(p) \/ PutHistory(p)
               /\ Goto(p, "release")
      BY <3>2, GotoKeepsLease DEF ApplyTransaction, PutHistory
    <3> QED
      BY <2>2, <3>1, <3>2 DEF AnswerLost
  <2>3. CASE CreateOnly(p)
    BY <2>3, ContinueLease DEF CreateOnly, GetGroupConfig
  <2>4. CASE Crash(p)
    BY <2>4, ReturnGivesUp DEF Crash, lockVars
  <2> QED
    BY <1>5, <2>1, <2>2, <2>3, <2>4 DEF Failures
<1>6. CASE Expire
  <2>1. {current} \subseteq Granted /\ Granted' = Granted
    BY <1>6 DEF Expire, StoreInv, TypeOK, LockGranted, Granted
  <2>2. L!Expire
    BY <1>6, <2>1 DEF Expire, L!Expire, procVars
  <2> QED
    BY <2>2 DEF LeaseStep, L!LeaseNext
<1>7. CASE UNCHANGED vars
  BY <1>7, LeaseStays DEF vars, lockVars
<1> QED
  BY <1>1, <1>2, <1>3, <1>4, <1>5, <1>6, <1>7 DEF Next

(* Whichever operations run, and wherever they crash, the lock that they   *)
(* take is a lease: a token is granted once, and given up by its holder or *)
(* by DeleteLock.                                                          *)
THEOREM StoreLease == Spec => ImplementsLease
<1>1. Init => L!LeaseInit
  BY StoreTokens DEF Init, L!LeaseInit, Granted
<1>2. StoreInv /\ [Next]_vars => [L!LeaseNext]_L!leaseVars
  BY NextLease DEF LeaseStep
<1> QED
  BY <1>1, <1>2, StoreInvariant, PTL DEF Spec, L!LeaseSpec, ImplementsLease

(* What the lease is for, carried over to the calls: of two operations     *)
(* that both hold the lock of the group, one holds a lease that is over.   *)
LP == INSTANCE Lease_proof WITH Callers <- Procs, granted <- Granted

OneOwnerOfLock ==
  \A p, q \in Procs :
    p # q /\ held[p] # NoToken /\ held[q] # NoToken => held[p] \in over \/ held[q] \in over

(* No two of the operations are in their critical section at once unless   *)
(* the lease of one of them ran out or DeleteLock removed it (AcquireLock).*)
THEOREM OperationsExclude == Spec => []OneOwnerOfLock
<1>1. LP!NoToken \notin Tokens
  BY GroupStoreAssumption DEF LP!NoToken, Tokens
<1>2. LP!LeaseSpec => []LP!Exclusive
  BY <1>1, LP!LeaseExclusive
<1>3. L!LeaseInit => LP!LeaseInit
  BY DEF L!LeaseInit, LP!LeaseInit, L!NoToken, LP!NoToken
<1>4. [L!LeaseNext]_L!leaseVars => [LP!LeaseNext]_LP!leaseVars
  BY DEF L!leaseVars, LP!leaseVars, L!LeaseNext, LP!LeaseNext, L!Grant, LP!Grant,
         L!GiveUp, LP!GiveUp, L!Forget, LP!Forget, L!Expire, LP!Expire,
         L!TearDown, LP!TearDown, L!NoToken, LP!NoToken
<1>5. ImplementsLease => LP!LeaseSpec
  BY <1>3, <1>4, PTL DEF ImplementsLease, L!LeaseSpec, LP!LeaseSpec
<1>6. LP!Exclusive => OneOwnerOfLock
  BY DEF LP!Exclusive, OneOwnerOfLock, LP!NoToken, NoToken
<1> QED
  BY <1>2, <1>5, <1>6, StoreLease, PTL
=============================================================================
