-------------------------- MODULE GroupLock_proof --------------------------
(***************************************************************************)
(* Theorems about the distributed lock, for every set of callers, every    *)
(* lease time, every clock difference and all bounds.                      *)
(***************************************************************************)
EXTENDS GroupLock, TLAPS

----------------------------------------------------------------------------
(* The invariant is preserved by every step that leaves the item, the      *)
(* clock and the lease bookkeeping alone and lets no caller advance to     *)
(* "put" or "held": the refused and failed requests, crashes, and the      *)
(* reads of IsLocked.                                                      *)
LEMMA QuietStep ==
  ASSUME IInv, NEW c \in Callers, Return(c),
         UNCHANGED <<lock, previous, now, stamp, issued, expiry, granted,
                     revoked>>
  PROVE  IInv'
<1> USE GroupLockAssumption DEF IInv, Return
<1>1. TypeOK'
  BY DEF TypeOK, PCs, NoToken
<1>2. TokensFresh'
  BY DEF TypeOK, TokensFresh, Tokens, NoToken
<1>3. LockGranted' /\ StampBounded'
  BY DEF TypeOK, LockGranted, StampBounded
<1>4. LeaseBacked'
  BY DEF TypeOK, LeaseBacked, Good
<1> QED
  BY <1>1, <1>2, <1>3, <1>4

(* The invariant is preserved by a conditional write that is applied,      *)
(* whether or not the caller learns of it.                                 *)
LEMMA PutStep ==
  ASSUME IInv, NEW c \in Callers, PutLock(c),
         \/ pc' = [pc EXCEPT ![c] = "held"] /\ UNCHANGED token
         \/ Return(c)
  PROVE  IInv'
<1> USE GroupLockAssumption DEF IInv
<1> DEFINE k == token[c]
<1>1. k \in Tokens /\ k <= issued /\ k \notin granted /\ pc[c] = "put"
  BY DEF TypeOK, TokensFresh, PutLock, Tokens, NoToken
<1>2. stamp[c] \in Int /\ stamp[c] + LeaseTime \in Int
  BY DEF TypeOK
<1>3. /\ lock' = [token |-> k, expiresAt |-> stamp[c] + LeaseTime]
      /\ lock' \in LockRecord
      /\ expiry' = [expiry EXCEPT ![k] = stamp[c] + LeaseTime]
      /\ granted' = granted \cup {k}
  BY <1>1, <1>2 DEF PutLock, WriteLock, LockRecord
<1>4. lock' # NoLock
  BY <1>3
<1>5. TypeOK'
  BY <1>1, <1>3 DEF TypeOK, PutLock, WriteLock, Return, PCs, NoToken
<1>6. TokensFresh'
  <2>1. \A d \in Callers \ {c} : pc'[d] = pc[d] /\ token'[d] = token[d]
    BY DEF TypeOK, Return
  <2>2. /\ token'[c] \in {k, NoToken}
        /\ pc'[c] = "held" => token'[c] = k
        /\ pc'[c] \in {"idle", "held"}
        /\ pc'[c] = "idle" <=> token'[c] = NoToken
    BY <1>1 DEF TypeOK, Return, Tokens, NoToken
  <2>3. UNCHANGED <<issued, revoked>>
    BY DEF PutLock
  <2>4. \A d \in Callers \ {c} : token[d] # k
    BY <1>1 DEF TokensFresh, Tokens, NoToken
  <2>5. k # NoToken /\ issued \in Int
    BY <1>1 DEF TypeOK, Tokens, NoToken
  <2>6. \A d \in Callers :
          /\ token'[d] <= issued'
          /\ pc'[d] = "idle" <=> token'[d] = NoToken
          /\ pc'[d] = "held" => token'[d] \in granted'
          /\ pc'[d] \in {"check", "stamp", "put"} => token'[d] \notin granted'
    <3> SUFFICES ASSUME NEW d \in Callers
                 PROVE  /\ token'[d] <= issued'
                        /\ pc'[d] = "idle" <=> token'[d] = NoToken
                        /\ pc'[d] = "held" => token'[d] \in granted'
                        /\ pc'[d] \in {"check", "stamp", "put"}
                             => token'[d] \notin granted'
      OBVIOUS
    <3>1. CASE d = c
      BY <3>1, <1>1, <1>3, <2>2, <2>3, <2>5 DEF TypeOK, NoToken
    <3>2. CASE d # c
      BY <3>2, <1>3, <2>1, <2>3, <2>4 DEF TokensFresh
    <3> QED
      BY <3>1, <3>2
  <2>7. \A d, e \in Callers :
          token'[d] = token'[e] => d = e \/ token'[d] = NoToken
    BY <2>1, <2>2, <2>4 DEF TokensFresh
  <2>8. (\A j \in granted' : j <= issued') /\ revoked' \subseteq granted'
    BY <1>1, <1>3, <2>3 DEF TokensFresh
  <2> QED
    BY <2>6, <2>7, <2>8 DEF TokensFresh
<1>7. LockGranted'
  BY <1>1, <1>3 DEF TypeOK, LockGranted
<1>8. StampBounded'
  BY DEF TypeOK, StampBounded, PutLock, Return
<1>9. LeaseBacked'
  <2> SUFFICES ASSUME NEW d \in Callers, Good(d)' PROVE lock'.token = token'[d]
    BY <1>4 DEF LeaseBacked
  <2>1. CASE d = c
    BY <2>1, <1>3 DEF TypeOK, Good, Return
  <2>2. CASE d # c
    (* d's lease would be the item that c replaced, and c took its time    *)
    (* from a clock that is not ahead of now + MaxSkew.                    *)
    <3>1. pc[d] = "held" /\ token'[d] = token[d] /\ token[d] \in Tokens
      BY <2>2 DEF TypeOK, TokensFresh, Good, Return, NoToken
    <3>2. token[d] # k /\ expiry'[token[d]] = expiry[token[d]]
      BY <1>1, <1>3, <2>2, <3>1 DEF TypeOK, TokensFresh, Tokens, NoToken
    <3>3. Good(d)
      BY <3>1, <3>2 DEF Good, PutLock
    <3>4. lock # NoLock /\ lock.token = token[d]
      BY <3>3 DEF LeaseBacked
    <3>5. lock.expiresAt = expiry[token[d]] /\ expiry[token[d]] \in Int
      BY <3>1, <3>4 DEF TypeOK, LockGranted
    <3>6. lock.expiresAt < stamp[c] /\ stamp[c] <= now + MaxSkew
      BY <1>1, <3>4 DEF PutLock, PutCondition, StampBounded
    <3>7. now + MaxSkew <= lock.expiresAt
      BY <3>3, <3>5 DEF Good
    <3> QED
      BY <1>2, <3>5, <3>6, <3>7 DEF TypeOK
  <2> QED
    BY <2>1, <2>2
<1> QED
  BY <1>5, <1>6, <1>7, <1>8, <1>9

LEMMA InitIInv == Init => IInv
  BY GroupLockAssumption
  DEF Init, IInv, TypeOK, TokensFresh, LockGranted, StampBounded, LeaseBacked,
      Good, PCs, Tokens, NoToken

LEMMA NextIInv == IInv /\ [Next]_vars => IInv'
<1> SUFFICES ASSUME IInv, [Next]_vars PROVE IInv'
  OBVIOUS
<1> USE GroupLockAssumption DEF IInv
<1>1. ASSUME NEW c \in Callers, AcquireLock(c) PROVE IInv'
  <2> USE <1>1 DEF AcquireLock
  <2>1. issued + 1 \in Tokens /\ issued + 1 # NoToken /\ issued \in Nat
    BY DEF TypeOK, Tokens, NoToken
  <2>2. TypeOK'
    BY <2>1 DEF TypeOK, PCs, Tokens
  <2>3. TokensFresh'
    <3>1. issued + 1 \notin granted
      BY <2>1 DEF TypeOK, TokensFresh
    <3>2. \A d \in Callers : token[d] # issued + 1
      BY <2>1 DEF TypeOK, TokensFresh, Tokens, NoToken
    <3> QED
      BY <2>1, <3>1, <3>2 DEF TypeOK, TokensFresh, Tokens, NoToken
  <2>4. LockGranted' /\ StampBounded'
    BY DEF TypeOK, LockGranted, StampBounded
  <2>5. LeaseBacked'
    BY DEF TypeOK, LeaseBacked, Good
  <2> QED
    BY <2>2, <2>3, <2>4, <2>5
<1>2. ASSUME NEW c \in Callers, IsLockedNo(c) PROVE IInv'
  <2> USE <1>2 DEF IsLockedNo
  <2>1. TypeOK'
    BY DEF TypeOK, PCs
  <2>2. TokensFresh'
    BY DEF TypeOK, TokensFresh
  <2>3. LockGranted' /\ StampBounded' /\ LeaseBacked'
    BY DEF TypeOK, LockGranted, StampBounded, LeaseBacked, Good
  <2> QED
    BY <2>1, <2>2, <2>3
<1>3. ASSUME NEW c \in Callers, IsLockedYes(c) PROVE IInv'
  BY <1>3, QuietStep DEF IsLockedYes
<1>4. ASSUME NEW c \in Callers, TakeTime(c) PROVE IInv'
  <2> USE <1>4 DEF TakeTime
  <2>1. Clock(c) \in Int /\ Clock(c) <= now + MaxSkew
    BY DEF Clock, TypeOK
  <2>2. TypeOK'
    BY <2>1 DEF TypeOK, PCs
  <2>3. TokensFresh'
    BY DEF TypeOK, TokensFresh
  <2>4. LockGranted' /\ LeaseBacked'
    BY DEF TypeOK, LockGranted, LeaseBacked, Good
  <2>5. StampBounded'
    BY <2>1 DEF TypeOK, StampBounded
  <2> QED
    BY <2>2, <2>3, <2>4, <2>5
<1>5. ASSUME NEW c \in Callers, PutApplied(c) PROVE IInv'
  BY <1>5, PutStep DEF PutApplied
<1>6. ASSUME NEW c \in Callers, PutAnswerLost(c) PROVE IInv'
  BY <1>6, PutStep DEF PutAnswerLost
<1>7. ASSUME NEW c \in Callers, PutRefused(c) PROVE IInv'
  BY <1>7, QuietStep DEF PutRefused
<1>8. ASSUME NEW c \in Callers, ReleaseLock(c) PROVE IInv'
  <2> USE <1>8 DEF ReleaseLock, DeleteCondition, WriteLock, Return
  <2>1. TypeOK'
    BY DEF TypeOK, PCs, NoToken
  <2>2. TokensFresh'
    BY DEF TypeOK, TokensFresh, Tokens, NoToken
  <2>3. LockGranted' /\ StampBounded'
    BY DEF TypeOK, LockGranted, StampBounded
  <2>4. LeaseBacked'
    (* the item that is removed is c's own, so no other good lease is in it *)
    <3> SUFFICES ASSUME NEW d \in Callers, Good(d)' PROVE FALSE
      BY DEF LeaseBacked
    <3>1. d # c /\ Good(d)
      BY DEF TypeOK, Good
    <3>2. token[d] = token[c] /\ token[c] # NoToken
      BY <3>1 DEF LeaseBacked, TokensFresh
    <3> QED
      BY <3>1, <3>2 DEF TokensFresh
  <2> QED
    BY <2>1, <2>2, <2>3, <2>4
<1>9. ASSUME NEW c \in Callers, ReleaseRefused(c) PROVE IInv'
  BY <1>9, QuietStep DEF ReleaseRefused
<1>10. ASSUME NEW c \in Callers, Crash(c) PROVE IInv'
  BY <1>10, QuietStep DEF Crash
<1>11. CASE DeleteLock
  <2> USE <1>11 DEF DeleteLock, WriteLock
  <2>1. TypeOK'
    BY DEF TypeOK, LockRecord
  <2>2. TokensFresh'
    BY DEF TypeOK, TokensFresh, LockGranted
  <2>3. LockGranted' /\ StampBounded'
    BY DEF TypeOK, LockGranted, StampBounded
  <2>4. LeaseBacked'
    BY DEF TypeOK, LeaseBacked, Good
  <2> QED
    BY <2>1, <2>2, <2>3, <2>4
<1>12. CASE Tick
  <2> USE <1>12 DEF Tick
  <2>1. TypeOK'
    BY DEF TypeOK
  <2>2. TokensFresh' /\ LockGranted'
    BY DEF TypeOK, TokensFresh, LockGranted
  <2>3. StampBounded'
    BY DEF TypeOK, StampBounded
  <2>4. LeaseBacked'
    <3> SUFFICES ASSUME NEW d \in Callers, Good(d)'
                 PROVE  lock # NoLock /\ lock.token = token[d]
      BY DEF LeaseBacked
    <3>1. expiry[token[d]] \in Int
      BY DEF TypeOK, TokensFresh, Good
    <3>2. Good(d)
      BY <3>1 DEF TypeOK, Good
    <3> QED
      BY <3>2 DEF LeaseBacked
  <2> QED
    BY <2>1, <2>2, <2>3, <2>4
<1>13. CASE UNCHANGED vars
  BY <1>13
  DEF vars, TypeOK, TokensFresh, LockGranted, StampBounded, LeaseBacked, Good
<1> QED
  BY <1>1, <1>2, <1>3, <1>4, <1>5, <1>6, <1>7, <1>8, <1>9, <1>10, <1>11,
     <1>12, <1>13
  DEF Next, CallerNext

(* The protocol of AcquireLock, ReleaseLock and DeleteLock keeps IInv.     *)
THEOREM LockInvariant == Spec => []IInv
<1>1. Init => IInv
  BY InitIInv
<1>2. IInv /\ [Next]_vars => IInv'
  BY NextIInv
<1> QED
  BY <1>1, <1>2, PTL DEF Spec

(* The variables of the lock keep their types.                             *)
THEOREM TypeCorrect == Spec => []TypeOK
<1>1. IInv => TypeOK
  BY DEF IInv
<1> QED
  BY <1>1, LockInvariant, PTL

(* Mutual exclusion: two callers never both hold a lease that no clock     *)
(* regards as expired, unless DeleteLock removed it (AcquireLock,          *)
(* ReleaseLock).                                                           *)
THEOREM MutualExclusion == Spec => []ExclusiveLease
<1>1. IInv => ExclusiveLease
  <2> SUFFICES ASSUME IInv, NEW c \in Callers, NEW d \in Callers,
                      Good(c), Good(d)
               PROVE  c = d
    BY DEF ExclusiveLease
  <2>1. token[c] = token[d] /\ token[c] # NoToken
    BY DEF IInv, LeaseBacked, TokensFresh, Good
  <2> QED
    BY <2>1 DEF IInv, TokensFresh
<1> QED
  BY <1>1, LockInvariant, PTL

(* A lock item disappears only by the release of the caller whose token it *)
(* carries, which is then idle, or by DeleteLock: a release that comes     *)
(* after the lock was taken over removes nothing (ReleaseLock, "only       *)
(* delete the lock if it's ours").                                         *)
LEMMA RemovalStep ==
  ASSUME IInv, [Next]_vars, lock # NoLock, lock' = NoLock
  PROVE  \/ lock.token \in revoked'
         \/ \E c \in Callers : pc[c] = "held" /\ token[c] = lock.token /\ pc'[c] = "idle"
<1>0. pc \in [Callers -> PCs]
  BY DEF IInv, TypeOK
<1>1. ASSUME NEW c \in Callers, PutLock(c) PROVE FALSE
  <2>1. stamp[c] + LeaseTime \in Int /\ token[c] \in Tokens
    BY <1>1, GroupLockAssumption DEF IInv, TypeOK, TokensFresh, PutLock, NoToken
  <2>2. lock' \in LockRecord
    BY <1>1, <2>1 DEF PutLock, WriteLock, LockRecord
  <2> QED
    BY <2>2, GroupLockAssumption
<1>2. ASSUME NEW c \in Callers, ReleaseLock(c)
      PROVE  pc[c] = "held" /\ token[c] = lock.token /\ pc'[c] = "idle"
  BY <1>0, <1>2 DEF ReleaseLock, DeleteCondition, Return
<1>3. ASSUME NEW c \in Callers, CallerNext(c) PROVE PutLock(c) \/ ReleaseLock(c)
  BY <1>3
  DEF CallerNext, AcquireLock, IsLockedNo, IsLockedYes, TakeTime, PutApplied,
      PutAnswerLost, PutRefused, ReleaseRefused, Crash
<1>4. CASE DeleteLock
  BY <1>4 DEF DeleteLock
<1>5. ~Tick /\ ~UNCHANGED vars
  BY DEF Tick, vars
<1> QED
  BY <1>1, <1>2, <1>3, <1>4, <1>5 DEF Next

(* A release never removes the lock of another caller.                     *)
THEOREM ReleasesAreOwn == Spec => ReleaseRemovesOwn
<1>1. IInv /\ [Next]_vars
        => [lock # NoLock /\ lock' = NoLock =>
              \/ lock.token \in revoked'
              \/ \E c \in Callers : pc[c] = "held" /\ token[c] = lock.token
                                    /\ pc'[c] = "idle"]_vars
  BY RemovalStep
<1> QED
  BY <1>1, LockInvariant, PTL DEF Spec, ReleaseRemovesOwn

----------------------------------------------------------------------------
(* The mapped variables: the lease in the item, and those that are over.   *)
absCurrent == IF lock = NoLock THEN NoToken ELSE lock.token
absHeld == [c \in Callers |-> IF pc[c] = "held" THEN token[c] ELSE NoToken]
absOver == revoked \cup {k \in Tokens : Expired(k)}

LEMMA LeaseTokens == L!NoToken = NoToken
  BY DEF L!NoToken, NoToken

(* A write that is applied is a grant of the lease.                        *)
LEMMA PutGrants ==
  ASSUME IInv, NEW c \in Callers, PutLock(c),
         \/ pc' = [pc EXCEPT ![c] = "held"] /\ UNCHANGED token
         \/ Return(c)
  PROVE  L!LeaseNext
<1> USE GroupLockAssumption DEF IInv
<1> PICK k : k = token[c]
  OBVIOUS
<1>1. k \in Tokens /\ k \notin granted /\ pc[c] = "put" /\ k # NoToken
  BY DEF TypeOK, TokensFresh, PutLock, Tokens, NoToken
<1>2. stamp[c] \in Int /\ stamp[c] + LeaseTime \in Int /\ now \in Int
  BY DEF TypeOK
<1>3. /\ lock' = [token |-> k, expiresAt |-> stamp[c] + LeaseTime]
      /\ lock' \in LockRecord
      /\ expiry' = [expiry EXCEPT ![k] = stamp[c] + LeaseTime]
      /\ granted' = granted \cup {k}
      /\ UNCHANGED <<now, revoked>>
  BY <1>1, <1>2 DEF PutLock, WriteLock, LockRecord
<1>4. lock' # NoLock
  BY <1>3
<1>5. absCurrent = NoToken \/ absCurrent \in absOver
  (* the item that is overwritten had expired on c's clock                 *)
  <2>1. CASE lock = NoLock
    BY <2>1 DEF absCurrent
  <2>2. CASE lock # NoLock
    <3>1. lock.token \in granted /\ lock.token \in Tokens
          /\ lock.expiresAt = expiry[lock.token] /\ lock.expiresAt \in Int
      BY <2>2 DEF TypeOK, LockGranted, LockRecord
    <3>2. lock.expiresAt < stamp[c] /\ stamp[c] <= now + MaxSkew
      BY <1>1, <2>2 DEF PutLock, PutCondition, StampBounded
    <3>3. expiry[lock.token] < now + MaxSkew
      BY <1>2, <3>1, <3>2
    <3> QED
      BY <2>2, <3>1, <3>3 DEF absCurrent, absOver, Expired
  <2> QED
    BY <2>1, <2>2
<1>6. absCurrent' = k /\ absHeld[c] = NoToken
  BY <1>1, <1>3, <1>4 DEF absCurrent, absHeld
<1>7. absHeld' \in {absHeld, [absHeld EXCEPT ![c] = k]}
  <2>1. CASE pc' = [pc EXCEPT ![c] = "held"] /\ UNCHANGED token
    <3> absHeld' = [absHeld EXCEPT ![c] = k]
      BY <2>1 DEF absHeld, TypeOK
    <3> QED
      OBVIOUS
  <2>2. CASE Return(c)
    <3> absHeld' = absHeld
      BY <1>1, <2>2 DEF absHeld, TypeOK, Return
    <3> QED
      OBVIOUS
  <2> QED
    BY <2>1, <2>2
<1>8. absOver' \in {absOver, absOver \cup {k}}
  <2>1. \A j \in Tokens : j # k => (Expired(j)' <=> Expired(j))
    BY <1>3 DEF Expired, TypeOK
  <2>2. ~Expired(k)
    BY <1>1 DEF Expired
  <2>3. CASE Expired(k)'
    BY <1>1, <1>3, <2>1, <2>3 DEF absOver
  <2>4. CASE ~Expired(k)'
    BY <1>1, <1>3, <2>1, <2>2, <2>4 DEF absOver
  <2> QED
    BY <2>3, <2>4
<1>9. L!Grant(c, k)
  BY <1>1, <1>3, <1>5, <1>6, <1>7, <1>8, LeaseTokens
  DEF L!Grant, absCurrent, absHeld, absOver
<1> QED
  BY <1>1, <1>9 DEF L!LeaseNext

(* A caller that goes idle gives up the lease it may hold; the item goes   *)
(* only if it is the caller's.                                             *)
LEMMA ReturnGivesUp ==
  ASSUME IInv, NEW c \in Callers, Return(c),
         UNCHANGED <<now, expiry, granted, revoked>>,
         \/ UNCHANGED lock
         \/ pc[c] = "held" /\ DeleteCondition(c) /\ lock' = NoLock
  PROVE  [L!LeaseNext]_L!leaseVars
<1> USE DEF IInv
<1>1. absOver' = absOver
  BY DEF absOver, Expired
<1>2. CASE pc[c] = "held"
  <2>1. absHeld[c] = token[c] /\ token[c] # NoToken
    BY <1>2 DEF absHeld, TokensFresh
  <2>2. absHeld' = [absHeld EXCEPT ![c] = NoToken]
    BY DEF absHeld, Return, TypeOK
  <2>3. \/ absCurrent' = absCurrent
        \/ absCurrent = absHeld[c] /\ absCurrent' = NoToken
    BY <2>1 DEF absCurrent, DeleteCondition
  <2>4. L!GiveUp(c)
    BY <1>1, <2>1, <2>2, <2>3, LeaseTokens
    DEF L!GiveUp, absCurrent, absHeld, absOver
  <2> QED
    BY <2>4 DEF L!LeaseNext
<1>3. CASE pc[c] # "held"
  <2>1. absHeld' = absHeld
    BY <1>3 DEF absHeld, Return, TypeOK
  <2>2. absCurrent' = absCurrent
    BY <1>3 DEF absCurrent
  <2> QED
    BY <1>1, <2>1, <2>2, LeaseTokens
    DEF L!leaseVars, absCurrent, absHeld, absOver
<1> QED
  BY <1>2, <1>3

(* Every step of the protocol is a step of the lease or changes nothing in *)
(* it.                                                                     *)
LEMMA NextLease == IInv /\ [Next]_vars => [L!LeaseNext]_L!leaseVars
<1> SUFFICES ASSUME IInv, [Next]_vars PROVE [L!LeaseNext]_L!leaseVars
  OBVIOUS
<1> USE GroupLockAssumption DEF IInv
<1> DEFINE Quiet == /\ absCurrent' = absCurrent
                    /\ absHeld' = absHeld
                    /\ absOver' = absOver
                    /\ granted' = granted
<1>1. ASSUME Quiet PROVE [L!LeaseNext]_L!leaseVars
  BY <1>1, LeaseTokens DEF L!leaseVars, absCurrent, absHeld, absOver
<1>2. ASSUME NEW c \in Callers, AcquireLock(c) PROVE Quiet
  BY <1>2 DEF AcquireLock, absCurrent, absHeld, absOver, Expired, TypeOK
<1>3. ASSUME NEW c \in Callers, IsLockedNo(c) PROVE Quiet
  BY <1>3 DEF IsLockedNo, absCurrent, absHeld, absOver, Expired, TypeOK
<1>4. ASSUME NEW c \in Callers, TakeTime(c) PROVE Quiet
  BY <1>4 DEF TakeTime, absCurrent, absHeld, absOver, Expired, TypeOK
<1>5. ASSUME NEW c \in Callers, PutApplied(c) \/ PutAnswerLost(c)
      PROVE  L!LeaseNext
  BY <1>5, PutGrants DEF PutApplied, PutAnswerLost
<1>6. ASSUME NEW c \in Callers,
             \/ IsLockedYes(c)
             \/ PutRefused(c)
             \/ ReleaseLock(c)
             \/ ReleaseRefused(c)
             \/ Crash(c)
      PROVE  [L!LeaseNext]_L!leaseVars
  BY <1>6, ReturnGivesUp
  DEF IsLockedYes, PutRefused, ReleaseLock, ReleaseRefused, Crash, WriteLock
<1>7. ASSUME DeleteLock PROVE L!TearDown
  <2>1. lock.token \in Tokens /\ lock.token # NoToken
    BY <1>7 DEF DeleteLock, TypeOK, LockRecord, Tokens, NoToken
  <2>2. absCurrent = lock.token /\ absCurrent' = NoToken
    BY <1>7 DEF DeleteLock, WriteLock, absCurrent
  <2>3. absOver' = absOver \cup {lock.token}
    BY <1>7 DEF DeleteLock, absOver, Expired
  <2>4. absHeld' = absHeld /\ granted' = granted
    BY <1>7 DEF DeleteLock, absHeld
  <2> QED
    BY <2>1, <2>2, <2>3, <2>4, LeaseTokens
    DEF L!TearDown, absCurrent, absHeld, absOver
<1>8. ASSUME Tick PROVE L!Expire
  <2>1. now \in Int /\ now' = now + 1 /\ expiry \in [Tokens -> Int]
    BY <1>8 DEF Tick, TypeOK
  <2>2. UNCHANGED <<lock, pc, token, expiry, granted, revoked>>
    BY <1>8 DEF Tick
  <2> DEFINE S == {k \in Tokens : Expired(k)'}
  <2>3. S \in SUBSET granted
    BY <2>2 DEF Expired
  <2>4. \A k \in Tokens : Expired(k) => Expired(k)'
    BY <2>1, <2>2 DEF Expired
  <2>5. absOver' = absOver \cup S
    BY <2>2, <2>4 DEF absOver
  <2>6. absCurrent' = absCurrent /\ absHeld' = absHeld
    BY <2>2 DEF absCurrent, absHeld
  <2> QED
    BY <2>2, <2>3, <2>5, <2>6 DEF L!Expire, absCurrent, absHeld, absOver
<1>9. ASSUME UNCHANGED vars PROVE Quiet
  BY <1>9 DEF vars, absCurrent, absHeld, absOver, Expired
<1>10. L!TearDown \/ L!Expire => L!LeaseNext
  BY DEF L!LeaseNext
<1> QED
  BY <1>1, <1>2, <1>3, <1>4, <1>5, <1>6, <1>7, <1>8, <1>9, <1>10
  DEF Next, CallerNext

(* The protocol of the code keeps the promise of module Lease, for any     *)
(* number of callers and any clocks that are off by at most MaxSkew.       *)
THEOREM LockRefinement == Spec => ImplementsLease
<1>1. Init => L!LeaseInit
  BY GroupLockAssumption, LeaseTokens
  DEF Init, L!LeaseInit, Expired, NoToken
<1>2. IInv /\ [Next]_vars => [L!LeaseNext]_L!leaseVars
  BY NextLease
<1> QED
  BY <1>1, <1>2, LockInvariant, PTL DEF Spec, L!LeaseSpec, ImplementsLease
=============================================================================
