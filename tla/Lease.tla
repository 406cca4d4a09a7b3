------------------------------- MODULE Lease -------------------------------
(***************************************************************************)
(* What the LOCK item of a FailoverGroup promises to the operators that    *)
(* compete for it: a lease.                                                *)
(*                                                                         *)
(* A lease is named by a token that is used once.  It is granted to one    *)
(* caller, ends when its holder gives it up, and is "over" as soon as some *)
(* clock may regard it as expired or the item is removed unconditionally.  *)
(* The promise is Exclusive: of all the callers that believe they hold the *)
(* lock, at most one holds a lease that is not over.                       *)
(*                                                                         *)
(* GroupLock is the protocol that the code runs and implements this        *)
(* module; GroupStore uses the lock at this level of detail.               *)
(***************************************************************************)
EXTENDS Integers

CONSTANTS Callers,   \* the goroutines that call AcquireLock, in any cluster
          Tokens     \* the lease tokens, NoToken not among them

NoToken == 0

VARIABLES current,   \* the token in the LOCK item, NoToken when there is none
          held,      \* held[c]: the token that caller c believes it holds
          over,      \* the tokens whose lease is over
          granted    \* the tokens that were ever written to the LOCK item

leaseVars == <<current, held, over, granted>>

LeaseTypeOK ==
  /\ current \in Tokens \cup {NoToken}
  /\ held \in [Callers -> Tokens \cup {NoToken}]
  /\ over \subseteq Tokens
  /\ granted \subseteq Tokens

LeaseInit ==
  /\ current = NoToken
  /\ held = [c \in Callers |-> NoToken]
  /\ over = {}
  /\ granted = {}

----------------------------------------------------------------------------
(* A lease is granted only when there is no item or the lease in it is     *)
(* over.  The caller may never learn of the grant, and the grant may come  *)
(* so late that the new lease is over from the start.                      *)
Grant(c, k) ==
  /\ current = NoToken \/ current \in over
  /\ k \in Tokens \ granted
  /\ held[c] = NoToken
  /\ current' = k
  /\ granted' = granted \cup {k}
  /\ held' \in {held, [held EXCEPT ![c] = k]}
  /\ over' \in {over, over \cup {k}}

(* Time passes: leases run out, in whatever order they were granted.       *)
Expire ==
  /\ \E S \in SUBSET granted : over' = over \cup S
  /\ UNCHANGED <<current, held, granted>>

(* The caller stops using the lock.  The item is removed only if it still  *)
(* carries the caller's token, and may also stay behind.                   *)
GiveUp(c) ==
  /\ held[c] # NoToken
  /\ held' = [held EXCEPT ![c] = NoToken]
  /\ \/ UNCHANGED current
     \/ current = held[c] /\ current' = NoToken
  /\ UNCHANGED <<over, granted>>

(* An operator dies and forgets every token that it held.                  *)
Forget(S) ==
  /\ held' = [c \in Callers |-> IF c \in S THEN NoToken ELSE held[c]]
  /\ UNCHANGED <<current, over, granted>>

(* The item is removed whoever holds it, when the group is torn down.      *)
TearDown ==
  /\ current # NoToken
  /\ current' = NoToken
  /\ over' = over \cup {current}
  /\ UNCHANGED <<held, granted>>

LeaseNext ==
  \/ \E c \in Callers, k \in Tokens : Grant(c, k)
  \/ \E c \in Callers : GiveUp(c)
  \/ \E S \in SUBSET Callers : Forget(S)
  \/ Expire
  \/ TearDown

LeaseSpec == LeaseInit /\ [][LeaseNext]_leaseVars

----------------------------------------------------------------------------
(* Two callers never both hold a lease that is not over: the mutual        *)
(* exclusion that AcquireLock's conditional write gives.                   *)
Exclusive ==
  \A c, d \in Callers :
    /\ c # d
    /\ held[c] # NoToken
    /\ held[d] # NoToken
    => held[c] \in over \/ held[d] \in over

(* A lease that is held and not over is the one in the LOCK item: what     *)
(* makes Exclusive inductive.                                              *)
Backed ==
  \A c \in Callers : held[c] \in Tokens \ over => current = held[c]

(* Tokens are not shared.                                                  *)
OneHolder ==
  /\ \A c \in Callers : held[c] # NoToken => held[c] \in granted
  /\ \A c, d \in Callers : held[c] = held[d] /\ held[c] # NoToken => c = d
  /\ current # NoToken => current \in granted

LeaseInv == LeaseTypeOK /\ OneHolder /\ Backed
=============================================================================
