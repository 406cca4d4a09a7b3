----------------------------- MODULE GroupLock -----------------------------
(***************************************************************************)
(* The distributed lock of one FailoverGroup: AcquireLock, IsLocked,       *)
(* ReleaseLock (OperationsManager) and DeleteLock (BaseManager) as the     *)
(* sequences of DynamoDB requests they issue.                              *)
(*                                                                         *)
(* The lock is one item of the table.  A caller reads it (IsLocked, not a  *)
(* strongly consistent read), takes the time of its own clock, and writes  *)
(* the item under the condition that there is none or that its expiresAt   *)
(* is before that time.  Every cluster has its own clock.  A request may   *)
(* be applied late, not at all, or applied without the caller learning of  *)
(* it; a caller may crash at any point.  Nothing renews a lease, and the   *)
(* holder does not look at the time again.                                 *)
(*                                                                         *)
(* Time is counted in seconds, the resolution of the RFC 3339 strings in   *)
(* which the code writes and compares it.  lockedBy, lockReason and        *)
(* acquiredAt only reach messages and are left out.                        *)
(***************************************************************************)
EXTENDS Integers

CONSTANTS Callers,     \* the goroutines that call AcquireLock
          LeaseTime,   \* the lifetime of a lease (10 minutes in the code)
          Skew,        \* Skew[c]: what the clock of c's cluster is ahead
          MaxSkew,     \* the largest difference to the true time
          MaxTime,     \* bound on the true time
          MaxTokens,   \* bound on the number of AcquireLock calls
          NoLock       \* there is no LOCK item

Tokens == 1 .. MaxTokens
NoToken == 0
LockRecord == [token : Tokens, expiresAt : Int]

ASSUME GroupLockAssumption ==
  /\ LeaseTime \in Nat
  /\ MaxSkew \in Nat
  /\ MaxTime \in Nat
  /\ MaxTokens \in Nat
  /\ Skew \in [Callers -> Int]
  /\ \A c \in Callers : -MaxSkew <= Skew[c] /\ Skew[c] <= MaxSkew
  /\ NoLock \notin LockRecord

VARIABLES
  lock,        \* the LOCK item, NoLock when there is none
  previous,    \* its value before the last write, which a read may still see
  now,         \* the true time
  pc,          \* pc[c]: where caller c stands
  token,       \* token[c]: the lease token that c generated
  stamp,       \* stamp[c]: the time that c took before its conditional write
  issued,      \* how many tokens were generated so far
  \* auxiliary, read by no action:
  expiry,      \* expiry[k]: the expiresAt that was written with token k
  granted,     \* the tokens that were written to the item
  revoked      \* the tokens whose item was removed by DeleteLock

vars == <<lock, previous, now, pc, token, stamp, issued, expiry, granted,
          revoked>>

PCs == {"idle", "check", "stamp", "put", "held"}

TypeOK ==
  /\ lock \in LockRecord \cup {NoLock}
  /\ previous \in LockRecord \cup {NoLock}
  /\ now \in 0 .. MaxTime
  /\ pc \in [Callers -> PCs]
  /\ token \in [Callers -> Tokens \cup {NoToken}]
  /\ stamp \in [Callers -> Int]
  /\ issued \in 0 .. MaxTokens
  /\ expiry \in [Tokens -> Int]
  /\ granted \subseteq Tokens
  /\ revoked \subseteq Tokens

Init ==
  /\ lock = NoLock
  /\ previous = NoLock
  /\ now = 0
  /\ pc = [c \in Callers |-> "idle"]
  /\ token = [c \in Callers |-> NoToken]
  /\ stamp = [c \in Callers |-> 0]
  /\ issued = 0
  /\ expiry = [k \in Tokens |-> 0]
  /\ granted = {}
  /\ revoked = {}

Clock(c) == now + Skew[c]

----------------------------------------------------------------------------
(* Every write of the item leaves its old value visible to reads that are  *)
(* not strongly consistent.                                                *)
WriteLock(value) ==
  /\ lock' = value
  /\ previous' = lock

(* The call returns to c without a lease.                                  *)
Return(c) ==
  /\ pc' = [pc EXCEPT ![c] = "idle"]
  /\ token' = [token EXCEPT ![c] = NoToken]

(* Faulty variant: no token is generated.                                  *)
AcquireLockNoToken(c) ==
  /\ pc[c] = "idle"
  /\ issued < MaxTokens
  /\ issued' = issued + 1
  /\ pc' = [pc EXCEPT ![c] = "check"]
  /\ UNCHANGED <<lock, previous, now, token, stamp, expiry, granted, revoked>>

(* AcquireLock generates the lease token before anything else.             *)
AcquireLock(c) ==
  /\ pc[c] = "idle"
  /\ issued < MaxTokens
  /\ issued' = issued + 1
  /\ token' = [token EXCEPT ![c] = issued + 1]
  /\ pc' = [pc EXCEPT ![c] = "check"]
  /\ UNCHANGED <<lock, previous, now, stamp, expiry, granted, revoked>>

(* IsLocked compares the clock, with its fraction of a second, to an       *)
(* expiresAt that was cut to whole seconds: in that very second the lock   *)
(* already counts as expired, if the fraction is not zero.                 *)
SeenFree(item, c) == item # NoLock => item.expiresAt <= Clock(c)

IsLockedNo(c) ==
  /\ pc[c] = "check"
  /\ \E item \in {lock, previous} : SeenFree(item, c)
  /\ pc' = [pc EXCEPT ![c] = "stamp"]
  /\ UNCHANGED <<lock, previous, now, token, stamp, issued, expiry, granted,
                 revoked>>

(* IsLocked answers that the lock is held, or its read failed: AcquireLock *)
(* returns an error.                                                       *)
IsLockedYes(c) ==
  /\ pc[c] = "check"
  /\ Return(c)
  /\ UNCHANGED <<lock, previous, now, stamp, issued, expiry, granted, revoked>>

TakeTime(c) ==
  /\ pc[c] = "stamp"
  /\ stamp' = [stamp EXCEPT ![c] = Clock(c)]
  /\ pc' = [pc EXCEPT ![c] = "put"]
  /\ UNCHANGED <<lock, previous, now, token, issued, expiry, granted, revoked>>

(* Faulty variant: the item is written without a condition.                *)
PutAlways(c) == TRUE

(* Faulty variant: a lease counts as expired one second early.             *)
PutConditionNotStrict(c) == lock # NoLock => lock.expiresAt <= stamp[c]

(* The ConditionExpression of the PutItem.                                 *)
PutCondition(c) == lock # NoLock => lock.expiresAt < stamp[c]

PutLock(c) ==
  LET expiresAt == stamp[c] + LeaseTime IN
  /\ pc[c] = "put"
  /\ PutCondition(c)
  /\ WriteLock([token |-> token[c], expiresAt |-> expiresAt])
  /\ expiry' = [expiry EXCEPT ![token[c]] = expiresAt]
  /\ granted' = granted \cup {token[c]}
  /\ UNCHANGED <<now, stamp, issued, revoked>>

(* The write is applied and AcquireLock returns the token.                 *)
PutApplied(c) ==
  /\ PutLock(c)
  /\ pc' = [pc EXCEPT ![c] = "held"]
  /\ UNCHANGED token

(* The write is applied but its answer is lost: AcquireLock returns an     *)
(* error, and the token that would release the item is gone.               *)
PutAnswerLost(c) ==
  /\ PutLock(c)
  /\ Return(c)

(* The condition fails or the request is never applied.                    *)
PutRefused(c) ==
  /\ pc[c] = "put"
  /\ Return(c)
  /\ UNCHANGED <<lock, previous, now, stamp, issued, expiry, granted, revoked>>

(* Faulty variant: the token is not compared.                              *)
DeleteAnyLock(c) == lock # NoLock

(* The ConditionExpression of the DeleteItem.                              *)
DeleteCondition(c) == lock # NoLock /\ lock.token = token[c]

ReleaseLock(c) ==
  /\ pc[c] = "held"
  /\ DeleteCondition(c)
  /\ WriteLock(NoLock)
  /\ Return(c)
  /\ UNCHANGED <<now, stamp, issued, expiry, granted, revoked>>

(* The item carries another token or none, or the request is lost.         *)
ReleaseRefused(c) ==
  /\ pc[c] = "held"
  /\ Return(c)
  /\ UNCHANGED <<lock, previous, now, stamp, issued, expiry, granted, revoked>>

(* The operator process dies, and with it the token.                       *)
Crash(c) ==
  /\ pc[c] # "idle"
  /\ Return(c)
  /\ UNCHANGED <<lock, previous, now, stamp, issued, expiry, granted, revoked>>

(* DeleteLock removes the item without a condition; the last cluster of a  *)
(* group calls it when its FailoverGroup is deleted.                       *)
DeleteLock ==
  /\ lock # NoLock
  /\ WriteLock(NoLock)
  /\ revoked' = revoked \cup {lock.token}
  /\ UNCHANGED <<now, pc, token, stamp, issued, expiry, granted>>

Tick ==
  /\ now < MaxTime
  /\ now' = now + 1
  /\ UNCHANGED <<lock, previous, pc, token, stamp, issued, expiry, granted,
                 revoked>>

CallerNext(c) ==
  \/ AcquireLock(c)
  \/ IsLockedNo(c)
  \/ IsLockedYes(c)
  \/ TakeTime(c)
  \/ PutApplied(c)
  \/ PutAnswerLost(c)
  \/ PutRefused(c)
  \/ ReleaseLock(c)
  \/ ReleaseRefused(c)
  \/ Crash(c)

Next ==
  \/ \E c \in Callers : CallerNext(c)
  \/ DeleteLock
  \/ Tick

Spec == Init /\ [][Next]_vars

----------------------------------------------------------------------------
(* A lease is good as long as no clock can regard it as expired and its    *)
(* item was not removed by DeleteLock.                                     *)
Good(c) ==
  /\ pc[c] = "held"
  /\ token[c] \notin revoked
  /\ now + MaxSkew <= expiry[token[c]]

(* Two callers never both hold a good lease, although the item is checked  *)
(* and written in separate requests, by clocks that disagree, with answers *)
(* that get lost (AcquireLock, "lock already held by another process").    *)
ExclusiveLease ==
  \A c, d \in Callers : Good(c) /\ Good(d) => c = d

(* A release never removes the lock of another caller: it may come after   *)
(* the lease expired and the lock was taken over (ReleaseLock, "only       *)
(* delete the lock if it's ours").                                         *)
ReleaseRemovesOwn ==
  [][lock # NoLock /\ lock' = NoLock =>
       \/ lock.token \in revoked'
       \/ \E c \in Callers : pc[c] = "held" /\ token[c] = lock.token
                             /\ pc'[c] = "idle"]_vars

(* The strengthening under which ExclusiveLease is inductive.  A token     *)
(* belongs to one caller and is written at most once; ...                  *)
TokensFresh ==
  /\ \A c \in Callers :
       /\ token[c] <= issued
       /\ pc[c] = "idle" <=> token[c] = NoToken
       /\ pc[c] = "held" => token[c] \in granted
       /\ pc[c] \in {"check", "stamp", "put"} => token[c] \notin granted
  /\ \A c, d \in Callers : token[c] = token[d] => c = d \/ token[c] = NoToken
  /\ \A k \in granted : k <= issued
  /\ revoked \subseteq granted

(* ... the item is the last lease granted, as it was written; ...          *)
LockGranted ==
  lock # NoLock =>
    lock.token \in granted /\ lock.expiresAt = expiry[lock.token]

(* ... no clock runs so far ahead that it would see a good lease expire;   *)
StampBounded ==
  \A c \in Callers : pc[c] = "put" => stamp[c] <= now + MaxSkew

(* and a good lease is the one in the item.                                *)
LeaseBacked ==
  \A c \in Callers : Good(c) => lock # NoLock /\ lock.token = token[c]

(* The inductive invariant behind AcquireLock's mutual exclusion.          *)
IInv == TypeOK /\ TokensFresh /\ LockGranted /\ StampBounded /\ LeaseBacked

----------------------------------------------------------------------------
(* The protocol implements the lease that module Lease specifies.          *)
Expired(k) == k \in granted /\ expiry[k] < now + MaxSkew

L == INSTANCE Lease WITH
       current <- IF lock = NoLock THEN NoToken ELSE lock.token,
       held    <- [c \in Callers |-> IF pc[c] = "held" THEN token[c] ELSE NoToken],
       over    <- revoked \cup {k \in Tokens : Expired(k)}

(* AcquireLock, ReleaseLock and DeleteLock keep the promise of Lease.      *)
ImplementsLease == L!LeaseSpec
=============================================================================
