---------------------------- MODULE Lease_proof ----------------------------
(***************************************************************************)
(* The promise of module Lease, for every set of callers and tokens.       *)
(***************************************************************************)
EXTENDS Lease, TLAPS

LEMMA LeaseInitInv ==
  ASSUME NoToken \notin Tokens PROVE LeaseInit => LeaseInv
  BY DEF LeaseInit, LeaseInv, LeaseTypeOK, OneHolder, Backed, NoToken

LEMMA LeaseNextInv ==
  ASSUME NoToken \notin Tokens
  PROVE  LeaseInv /\ [LeaseNext]_leaseVars => LeaseInv'
<1> SUFFICES ASSUME LeaseInv, [LeaseNext]_leaseVars PROVE LeaseInv'
  OBVIOUS
<1> USE DEF LeaseInv
<1>1. ASSUME NEW c \in Callers, NEW k \in Tokens, Grant(c, k) PROVE LeaseInv'
  <2>1. k # NoToken /\ k \notin granted /\ current' = k /\ granted' = granted \cup {k}
    BY <1>1 DEF Grant
  <2>2. \A d \in Callers : held[d] # k
    BY <2>1 DEF OneHolder
  <2>3. \A d \in Callers : held'[d] = held[d] \/ (d = c /\ held'[d] = k)
    BY <1>1 DEF Grant, LeaseTypeOK
  <2>4. LeaseTypeOK'
    BY <1>1 DEF Grant, LeaseTypeOK
  <2>5. OneHolder'
    BY <2>1, <2>2, <2>3 DEF OneHolder
  <2>6. Backed'
    (* whoever else holds a lease, it was in the item and is over          *)
    <3> SUFFICES ASSUME NEW d \in Callers, held'[d] \in Tokens \ over'
                 PROVE  held'[d] = k
      BY <2>1 DEF Backed
    <3>1. over \subseteq over'
      BY <1>1 DEF Grant
    <3>2. CASE held'[d] = held[d]
      <4>1. current = held[d]
        BY <3>1, <3>2 DEF Backed
      <4>2. current \notin over /\ current # NoToken
        BY <3>1, <3>2, <4>1
      <4> QED
        BY <4>2, <1>1 DEF Grant
    <3> QED
      BY <3>2, <2>3
  <2> QED
    BY <2>4, <2>5, <2>6
<1>2. ASSUME NEW c \in Callers, GiveUp(c) PROVE LeaseInv'
  <2>1. \A d \in Callers : held'[d] = IF d = c THEN NoToken ELSE held[d]
    BY <1>2 DEF GiveUp, LeaseTypeOK
  <2>2. LeaseTypeOK'
    BY <1>2 DEF GiveUp, LeaseTypeOK
  <2>3. OneHolder'
    BY <1>2, <2>1 DEF GiveUp, OneHolder
  <2>4. Backed'
    BY <1>2, <2>1 DEF GiveUp, OneHolder, Backed
  <2> QED
    BY <2>2, <2>3, <2>4
<1>6. ASSUME NEW S \in SUBSET Callers, Forget(S) PROVE LeaseInv'
  <2>1. \A d \in Callers : held'[d] = NoToken \/ held'[d] = held[d]
    BY <1>6 DEF Forget
  <2>2. LeaseTypeOK'
    BY <1>6 DEF Forget, LeaseTypeOK
  <2>3. OneHolder'
    BY <1>6, <2>1 DEF Forget, OneHolder
  <2>4. Backed'
    BY <1>6, <2>1 DEF Forget, Backed, NoToken
  <2> QED
    BY <2>2, <2>3, <2>4
<1>3. CASE Expire
  BY <1>3 DEF Expire, LeaseTypeOK, OneHolder, Backed
<1>4. CASE TearDown
  BY <1>4 DEF TearDown, LeaseTypeOK, OneHolder, Backed
<1>5. CASE UNCHANGED leaseVars
  BY <1>5 DEF leaseVars, LeaseTypeOK, OneHolder, Backed
<1> QED
  BY <1>1, <1>2, <1>3, <1>4, <1>5, <1>6 DEF LeaseNext

(* At most one of the callers that hold the lock holds a lease that is not *)
(* over: the mutual exclusion that AcquireLock is there for.               *)
THEOREM LeaseExclusive ==
  ASSUME NoToken \notin Tokens PROVE LeaseSpec => []Exclusive
<1>1. LeaseInv => Exclusive
  <2> SUFFICES ASSUME LeaseInv, NEW c \in Callers, NEW d \in Callers, c # d,
                      held[c] # NoToken, held[d] # NoToken,
                      held[c] \notin over, held[d] \notin over
               PROVE  FALSE
    BY DEF Exclusive
  <2>1. current = held[c] /\ current = held[d]
    BY DEF LeaseInv, LeaseTypeOK, Backed
  <2> QED
    BY <2>1 DEF LeaseInv, OneHolder
<1>2. LeaseInit => LeaseInv
  BY LeaseInitInv
<1>3. LeaseInv /\ [LeaseNext]_leaseVars => LeaseInv'
  BY LeaseNextInv
<1> QED
  BY <1>1, <1>2, <1>3, PTL DEF LeaseSpec
=============================================================================
