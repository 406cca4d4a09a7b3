-------------------------- MODULE Workloads_proof --------------------------
(***************************************************************************)
(* Theorems about the managers of the Kubernetes resources, for any number *)
(* of goroutines and objects, any calls of them and any number of changes  *)
(* by others.                                                              *)
(*                                                                         *)
(* That an acknowledged value stays is not inductive by itself: an update  *)
(* writes all fields of a copy, so a copy that is up to date must have the *)
(* object's values in the fields that its call does not change.            *)
(***************************************************************************)
EXTENDS Workloads, TLAPS

EditOps == {"set", "dns", "flux", "trigger", "force", "process"}

CallWell(p) ==
  /\ pc[p] \in {"get", "update"} =>
       call[p].op \in EditOps /\ call[p].val \in Values(call[p].op)
  /\ pc[p] = "wait" =>
       call[p].op \in {"wait", "waitAll"} /\ call[p].val \in Values(call[p].op)

(* The fields that a copy does not change are those of the object.         *)
CopyIsCurrent(c) ==
  c.new # NoCopy =>
    /\ \A f \in Fields \ c.fields : c.new[f] = obj[c.name][f]
    /\ "mode" \in c.fields => c.new.mode \in Roles

CopyWell(p) ==
  /\ pc[p] = "update" => copy[p] \in Copies /\ CopyIsCurrent(copy[p])
  /\ pc[p] # "update" => copy[p] = NoCopy

CacheCurrent == \A n \in fresh : cache[n] = obj[n]

AckHolds(n) ==
  /\ ack[n].flux # Any => obj[n].flux = ack[n].flux
  /\ ack[n].mode # Any => obj[n].mode = ack[n].mode /\ ack[n].mode \in Roles

(* What WaitVerdict says of one goroutine.                                 *)
Verdict(p) ==
  /\ pc[p] = "ok" => call[p].names \subseteq seen[p]
  /\ pc[p] = "error" => late[p] # {}
  /\ pc[p] = "error" /\ Concurrent(call[p])
       => call[p].names \subseteq late[p] \cup seen[p]

(* A wait has seen what it still finds, and every name that it is through  *)
(* with and that is not late; its verdict is drawn from these.             *)
WaitWell(p) ==
  /\ pc[p] = "wait" => \A n \in call[p].names :
       /\ Arrived(cache[n], call[p].val) => n \in seen[p]
       /\ n \in left[p] \cup late[p] \cup seen[p]
  /\ call[p].op \in {"wait", "waitAll"} => Verdict(p)

WorkInv ==
  /\ TypeOK
  /\ CacheCurrent
  /\ \A n \in Names : AckHolds(n)
  /\ \A p \in Procs : CallWell(p) /\ CopyWell(p) /\ WaitWell(p)

----------------------------------------------------------------------------
(* The managers' edits.                                                    *)

(* An edit writes or has nothing to write: either way the fields that it   *)
(* reports have its values, and the others are as they were.               *)
Proper(e, o) ==
  /\ e.new \in Objects
  /\ e.fields \subseteq Fields
  /\ e.writes => \A f \in Fields \ e.fields : e.new[f] = o[f]
  /\ ~e.writes => \A f \in e.fields : e.new[f] = o[f]
  /\ "mode" \in e.fields => e.new.mode \in Roles

LEMMA SetModeProper ==
  ASSUME NEW o \in Objects, NEW v \in Roles, NEW w \in BOOLEAN, w \/ o.mode = v
  PROVE  Proper(SetMode(o, v, w), o)
  BY DEF Proper, SetMode, Edit, Objects, Fields, Modes, Roles

LEMMA SetFluxProper ==
  ASSUME NEW o \in Objects, NEW v \in Notes, NEW w \in BOOLEAN, w \/ o.flux = v
  PROVE  Proper(SetFlux(o, v, w), o)
  BY DEF Proper, SetFlux, Edit, Objects, Fields, Modes, Roles

LEMMA UpdateIngressProper ==
  ASSUME NEW o \in Objects, NEW v \in Roles
  PROVE  Proper(UpdateIngress(o, v), o)
  BY DEF Proper, UpdateIngress, Edit, Objects, Fields, Modes, Notes, Roles

LEMMA ModeEditProper ==
  ASSUME kind \in AllKinds, NEW o \in Objects, NEW v \in Roles
  PROVE  Proper(ModeEdit(o, v), o)
<1> USE DEF ModeEdit
<1>1. CASE kind = "Deployment"
  BY <1>1, SetModeProper DEF DeploymentScale
<1>2. CASE kind = "StatefulSet"
  BY <1>2, SetModeProper DEF StatefulSetScale
<1>3. CASE kind = "CronJob"
  BY <1>3, SetModeProper DEF CronJobScale
<1>4. CASE kind \in {"Ingress", "VirtualService"}
  BY <1>4, UpdateIngressProper DEF UpdateVirtualService
<1>5. CASE kind \in {"Kustomization", "HelmRelease"}
  BY <1>5, SetModeProper DEF HelmReleaseSuspend, KustomizationSuspend
<1>6. CASE kind = "VolumeReplication"
  BY <1>6, SetModeProper DEF SetVolumeReplicationState
<1> QED
  BY <1>1, <1>2, <1>3, <1>4, <1>5, <1>6 DEF AllKinds

LEMMA FluxEditProper ==
  ASSUME kind \in AllKinds \ {"VolumeReplication"}, NEW o \in Objects,
         NEW v \in {"disabled", "none"}
  PROVE  Proper(FluxEdit(o, v), o)
<1>1. v \in Notes /\ (v # "none" \/ o.flux # "none") \in BOOLEAN /\ (o.flux # v) \in BOOLEAN
  BY DEF Notes
<1>2. Proper(SetFlux(o, v, o.flux # v), o)
  BY <1>1, SetFluxProper
<1>3. Proper(SetFlux(o, v, v # "none" \/ o.flux # "none"), o)
  BY <1>1, SetFluxProper
<1> QED
  BY <1>2, <1>3
  DEF FluxEdit, AllKinds, DeploymentAnnotate, StatefulSetAnnotate, CronJobAnnotate,
      IngressAnnotate, VirtualServiceAnnotate, KustomizationAnnotate,
      HelmReleaseAnnotate

LEMMA EditProper ==
  ASSUME kind \in AllKinds, NEW o \in Objects, NEW c, c.op \in EditOps,
         c.val \in Values(c.op)
  PROVE  Proper(EditOf(c, o), o)
<1>1. CASE c.op \in {"set", "process"}
  <2>1. c.val \in Roles
    BY <1>1 DEF Values
  <2> QED
    BY <1>1, <2>1, ModeEditProper DEF EditOf
<1>2. CASE c.op = "flux"
  <2>1. kind # "VolumeReplication" /\ c.val \in {"disabled", "none"}
    BY <1>2 DEF Values
  <2> QED
    BY <1>2, <2>1, FluxEditProper DEF EditOf
<1>3. CASE c.op = "dns"
  <2>1. c.val \in Roles
    BY <1>3 DEF Values
  <2> QED
    BY <1>3, <2>1, SetModeProper
    DEF EditOf, IngressSetDNSController, VirtualServiceSetDNSController
<1>4. CASE c.op = "trigger"
  BY <1>4, SetFluxProper
  DEF EditOf, KustomizationTrigger, HelmReleaseTrigger, Notes
<1>5. CASE c.op = "force"
  <2> DEFINE e == SetFlux([o EXCEPT !.status = "down"], "stamp", TRUE)
  <2>1. Proper(e, o)
    BY DEF Proper, SetFlux, Edit, Objects, Statuses, Fields, Notes
  <2> QED
    BY <1>5, <2>1 DEF EditOf, KustomizationForce, HelmReleaseForce
<1> QED
  BY <1>1, <1>2, <1>3, <1>4, <1>5 DEF EditOps

----------------------------------------------------------------------------
(* The parts of the state that the actions share.                          *)

LEMMA WatchStep ==
  ASSUME TypeOK, kind' = kind, Watch, cache' \in [Names -> Objects],
         call' \in [Procs -> CallRecords], pc' \in [Procs -> PCs]
  PROVE  /\ seen' \in [Procs -> SUBSET Names]
         /\ \A p \in Procs :
              /\ pc'[p] = "wait" =>
                   /\ \A n \in call'[p].names :
                        Arrived(cache'[n], call'[p].val) => n \in seen'[p]
                   /\ pc[p] = "wait" => seen[p] \subseteq seen'[p]
              /\ pc'[p] \in {"ok", "error", "idle"} => seen'[p] = seen[p]
<1> DEFINE now(p) == {n \in call'[p].names : Arrived(cache'[n], call'[p].val)}
           new(p) == IF pc'[p] = "wait"
                     THEN now(p) \cup (IF pc[p] = "wait" THEN seen[p] ELSE {})
                     ELSE IF pc'[p] \in {"get", "update"} THEN {} ELSE seen[p]
<1>1. seen' = [p \in Procs |-> new(p)]
  BY DEF Watch
<1>2. \A p \in Procs : now(p) \in SUBSET Names
  BY DEF CallRecords
<1> HIDE DEF now
<1>3. \A p \in Procs :
        /\ pc'[p] = "wait" /\ pc[p] # "wait" => new(p) = now(p)
        /\ pc'[p] = "wait" /\ pc[p] = "wait" => new(p) = now(p) \cup seen[p]
        /\ pc'[p] \in {"get", "update"} => new(p) = {}
        /\ pc'[p] \in {"ok", "error", "idle"} => new(p) = seen[p]
  OBVIOUS
<1>4. \A p \in Procs : new(p) \in SUBSET Names
  BY <1>2, <1>3 DEF TypeOK, PCs
<1> HIDE DEF new
<1>5. seen' \in [Procs -> SUBSET Names] /\ \A p \in Procs : seen'[p] = new(p)
  BY <1>1, <1>4
<1>6. \A p \in Procs : \A n \in call'[p].names :
        Arrived(cache'[n], call'[p].val) => n \in now(p)
  BY DEF now
<1>7. \A p \in Procs : pc'[p] = "wait" => now(p) \subseteq seen'[p]
  BY <1>3, <1>5
<1> QED
  BY <1>3, <1>5, <1>6, <1>7

(* The manager stays the same, and with it what a poll asks for.           *)
LEMMA SameKind ==
  ASSUME kind' = kind
  PROVE  /\ \A op : Values(op)' = Values(op)
         /\ \A n, p : Arrived(cache[n], call[p].val)' <=> Arrived(cache'[n], call'[p].val)
         /\ \A p : Concurrent(call[p])' <=> Concurrent(call'[p])
<1>1. \A op : Values(op)' = Values(op)
  BY DEF Values
<1>2. \A n, p : Arrived(cache[n], call[p].val)' <=> Arrived(cache'[n], call'[p].val)
  BY Zenon DEF Arrived, Ready, Passive
<1>3. \A p : Concurrent(call[p])' <=> Concurrent(call'[p])
  BY DEF Concurrent
<1> QED
  BY <1>1, <1>2, <1>3

(* A goroutine that takes no step stays well.                              *)
LEMMA OthersWell ==
  ASSUME WorkInv, kind' = kind, Watch, cache' \in [Names -> Objects],
         call' \in [Procs -> CallRecords], pc' \in [Procs -> PCs],
         NEW p \in Procs, pc'[p] = pc[p], call'[p] = call[p],
         left'[p] = left[p], late'[p] = late[p]
  PROVE  CallWell(p)' /\ WaitWell(p)'
<1> USE DEF WorkInv
<1>1. CallWell(p)'
  BY SameKind DEF CallWell
<1>2. /\ pc'[p] = "wait" =>
           /\ \A n \in call'[p].names : Arrived(cache'[n], call'[p].val) => n \in seen'[p]
           /\ seen[p] \subseteq seen'[p]
      /\ pc'[p] \in {"ok", "error"} => seen'[p] = seen[p]
  BY WatchStep
<1>3. ASSUME pc'[p] = "wait", NEW n \in call'[p].names
      PROVE  /\ Arrived(cache[n], call[p].val)' => n \in seen'[p]
             /\ n \in left'[p] \cup late'[p] \cup seen'[p]
  BY <1>2, <1>3, SameKind DEF WaitWell
<1>4. call'[p].op \in {"wait", "waitAll"} => Verdict(p)'
  <2>1. Concurrent(call[p])' <=> Concurrent(call[p])
    BY DEF Concurrent
  <2> QED
    BY <1>2, <2>1 DEF WaitWell, Verdict
<1> QED
  BY <1>1, <1>3, <1>4 DEF WaitWell

LEMMA StoreStep ==
  ASSUME TypeOK, CacheCurrent, NEW n \in Names, NEW new \in Objects, Store(n, new)
  PROVE  /\ obj' \in [Names -> Objects] /\ cache' \in [Names -> Objects]
         /\ fresh' \in SUBSET Names
         /\ CacheCurrent'
         /\ obj'[n] = new /\ \A m \in Names \ {n} : obj'[m] = obj[m]
  BY DEF TypeOK, CacheCurrent, Store

(* The copies of the object that was written are outdated, the others stay *)
(* up to date.                                                             *)
LEMMA OutdatedStep ==
  ASSUME TypeOK, NEW p \in Procs, CopyWell(p), NEW n \in Names,
         \A m \in Names \ {n} : obj'[m] = obj[m],
         copy'[p] = Outdated(n)[p], pc'[p] = pc[p]
  PROVE  copy'[p] \in Copies \cup {NoCopy} /\ CopyWell(p)'
<1> USE WorkloadsAssumption
<1>1. CASE copy[p] = NoCopy
  <2>1. copy'[p] = NoCopy /\ pc[p] # "update"
    BY <1>1 DEF Outdated, CopyWell
  <2> QED
    BY <2>1 DEF CopyWell
<1>2. CASE copy[p] # NoCopy
  <2>1. pc[p] = "update" /\ copy[p] \in Copies /\ CopyIsCurrent(copy[p])
    BY <1>2 DEF CopyWell
  <2>2. CASE copy[p].name = n
    <3>1. copy'[p] = [copy[p] EXCEPT !.new = NoCopy]
      BY <1>2, <2>2 DEF Outdated
    <3>2. copy'[p] \in Copies /\ copy'[p].new = NoCopy
      BY <2>1, <3>1 DEF Copies
    <3> QED
      BY <2>1, <3>2 DEF CopyWell, CopyIsCurrent
  <2>3. CASE copy[p].name # n
    <3>1. copy'[p] = copy[p]
      BY <1>2, <2>3 DEF Outdated
    <3>2. obj'[copy'[p].name] = obj[copy[p].name]
      BY <2>1, <2>3, <3>1 DEF Copies
    <3> QED
      BY <2>1, <3>1, <3>2 DEF CopyWell, CopyIsCurrent
  <2> QED
    BY <2>2, <2>3
<1> QED
  BY <1>1, <1>2

(* What is acknowledged of object n is in it, or nothing is.               *)
LEMMA AckStep ==
  ASSUME TypeOK, \A m \in Names : AckHolds(m), NEW n \in Names,
         NEW fields \in SUBSET Fields, NEW vals,
         \/ vals = NothingSet
         \/ /\ vals \in Objects
            /\ \A f \in fields : obj'[n][f] = vals[f]
            /\ "mode" \in fields => vals.mode \in Roles,
         \A f \in Fields \ fields : obj'[n][f] = obj[n][f],
         \A m \in Names \ {n} : obj'[m] = obj[m],
         ack' = Acked(n, fields, vals)
  PROVE  /\ ack' \in [Names -> [Fields -> Modes \cup Notes \cup {Any}]]
         /\ \A m \in Names : AckHolds(m)'
<1> DEFINE row == [f \in Fields |-> IF f \in fields THEN vals[f] ELSE ack[n][f]]
<1>1. \A f \in fields : vals[f] \in Modes \cup Notes \cup {Any}
  BY DEF NothingSet, Objects, Fields
<1>2. ack[n] \in [Fields -> Modes \cup Notes \cup {Any}]
  BY DEF TypeOK
<1>3. row \in [Fields -> Modes \cup Notes \cup {Any}]
  BY <1>1, <1>2
<1>4. ack' = [ack EXCEPT ![n] = row]
  BY DEF Acked
<1> HIDE DEF row
<1>5. ack' \in [Names -> [Fields -> Modes \cup Notes \cup {Any}]]
  BY <1>3, <1>4 DEF TypeOK
<1>6. ack'[n] = row /\ \A m \in Names \ {n} : ack'[m] = ack[m]
  BY <1>4 DEF TypeOK
<1>7. \A m \in Names \ {n} : AckHolds(m)'
  BY <1>6 DEF AckHolds
<1>8. AckHolds(n)'
  <2>1. "mode" \in Fields /\ "flux" \in Fields
    BY DEF Fields
  <2>2. /\ row.mode = IF "mode" \in fields THEN vals.mode ELSE ack[n].mode
        /\ row.flux = IF "flux" \in fields THEN vals.flux ELSE ack[n].flux
    BY <2>1 DEF row
  <2>3. row.mode # Any => obj'[n].mode = row.mode /\ row.mode \in Roles
    <3>1. CASE "mode" \in fields
      BY <2>2, <3>1 DEF NothingSet, Fields
    <3>2. CASE "mode" \notin fields
      BY <2>1, <2>2, <3>2 DEF AckHolds
    <3> QED
      BY <3>1, <3>2
  <2>4. row.flux # Any => obj'[n].flux = row.flux
    <3>1. CASE "flux" \in fields
      BY <2>2, <3>1 DEF NothingSet, Fields
    <3>2. CASE "flux" \notin fields
      BY <2>1, <2>2, <3>2 DEF AckHolds
    <3> QED
      BY <3>1, <3>2
  <2> QED
    BY <1>6, <2>3, <2>4 DEF AckHolds
<1> QED
  BY <1>5, <1>7, <1>8

LEMMA GoOnStep ==
  ASSUME TypeOK, NEW p \in Procs, CallWell(p), pc[p] \in {"get", "update"},
         NEW n \in Names, NEW ok \in BOOLEAN, GoOn(p, n, ok), kind' = kind, call' = call
  PROVE  /\ left' \in [Procs -> SUBSET Names] /\ pc' \in [Procs -> PCs]
         /\ \A q \in Procs \ {p} : pc'[q] = pc[q] /\ left'[q] = left[q]
         /\ pc'[p] \in {"ok", "error", "get"}
         /\ CallWell(p)' /\ WaitWell(p)'
<1>1. left' \in [Procs -> SUBSET Names] /\ \A q \in Procs \ {p} : left'[q] = left[q]
  BY DEF GoOn, TypeOK
<1>2. /\ pc' \in [Procs -> PCs] /\ \A q \in Procs \ {p} : pc'[q] = pc[q]
      /\ pc'[p] \in {"ok", "error", "get"}
  BY DEF GoOn, TypeOK, PCs
<1>3. call[p].op \in EditOps /\ call[p].val \in Values(call[p].op)
  BY DEF CallWell
<1>4. CallWell(p)'
  BY <1>2, <1>3, SameKind DEF CallWell
<1>5. WaitWell(p)'
  BY <1>2, <1>3 DEF WaitWell, EditOps
<1> QED
  BY <1>1, <1>2, <1>4, <1>5

(* Somebody else changes the given fields of an object.                    *)
LEMMA ChangeStep ==
  ASSUME WorkInv, NEW n \in Names, NEW new \in Objects, NEW fields \in SUBSET Fields,
         Change(n, new, fields), \A f \in Fields \ fields : new[f] = obj[n][f]
  PROVE  WorkInv'
<1> USE WorkloadsAssumption DEF WorkInv
<1>1. /\ obj' \in [Names -> Objects] /\ cache' \in [Names -> Objects]
      /\ fresh' \in SUBSET Names /\ CacheCurrent'
      /\ obj'[n] = new /\ \A m \in Names \ {n} : obj'[m] = obj[m]
  BY StoreStep DEF Change
<1>2. UNCHANGED <<kind, pc, call, left, late, calls>> /\ Watch
      /\ pc' \in [Procs -> PCs] /\ call' \in [Procs -> CallRecords]
  BY DEF Change, TypeOK
<1>3. changes' \in 0 .. MaxChanges
  BY DEF Change, TypeOK
<1>4. \A p \in Procs : copy'[p] \in Copies \cup {NoCopy} /\ CopyWell(p)'
  <2> TAKE p \in Procs
  <2>1. copy'[p] = Outdated(n)[p]
    BY DEF Change
  <2> QED
    BY <1>1, <1>2, <2>1, OutdatedStep
<1>5. copy' \in [Procs -> Copies \cup {NoCopy}]
  <2>1. copy' = [p \in Procs |-> copy'[p]]
    BY DEF Change, Outdated
  <2> QED
    BY <1>4, <2>1
<1>6. /\ ack' \in [Names -> [Fields -> Modes \cup Notes \cup {Any}]]
      /\ \A m \in Names : AckHolds(m)'
  <2>1. ack' = Acked(n, fields, NothingSet)
    BY DEF Change, Acked, NothingSet
  <2> QED
    BY <1>1, <2>1, AckStep
<1>7. seen' \in [Procs -> SUBSET Names]
  BY <1>1, <1>2, WatchStep
<1>8. \A p \in Procs : CallWell(p)' /\ WaitWell(p)'
  BY <1>1, <1>2, OthersWell
<1>9. TypeOK'
  BY <1>1, <1>2, <1>3, <1>5, <1>6, <1>7 DEF TypeOK
<1> QED
  BY <1>1, <1>4, <1>6, <1>8, <1>9

(* What is left to show of a step of p that writes no object.              *)
LEMMA QuietStep ==
  ASSUME WorkInv, NEW p \in Procs,
         UNCHANGED <<kind, obj, cache, fresh, changes>>, Watch,
         call' \in [Procs -> CallRecords], left' \in [Procs -> SUBSET Names],
         pc' \in [Procs -> PCs], copy' \in [Procs -> Copies \cup {NoCopy}],
         late' \in [Procs -> SUBSET Names], calls' \in 0 .. MaxCalls,
         ack' \in [Names -> [Fields -> Modes \cup Notes \cup {Any}]],
         \A n \in Names : AckHolds(n)',
         \A q \in Procs \ {p} : /\ pc'[q] = pc[q] /\ call'[q] = call[q]
                                /\ left'[q] = left[q] /\ late'[q] = late[q]
                                /\ copy'[q] = copy[q],
         CallWell(p)', CopyWell(p)', WaitWell(p)'
  PROVE  WorkInv'
<1> USE DEF WorkInv
<1>1. cache' \in [Names -> Objects]
  BY DEF TypeOK
<1>2. seen' \in [Procs -> SUBSET Names]
  BY <1>1, WatchStep
<1>3. TypeOK'
  BY <1>2 DEF TypeOK
<1>4. CacheCurrent'
  BY DEF CacheCurrent
<1>5. \A q \in Procs \ {p} : CallWell(q)' /\ WaitWell(q)'
  BY <1>1, OthersWell
<1>6. \A q \in Procs \ {p} : CopyWell(q)'
  BY DEF CopyWell, CopyIsCurrent
<1> QED
  BY <1>3, <1>4, <1>5, <1>6

----------------------------------------------------------------------------
LEMMA WorkInit == Init => WorkInv
<1> SUFFICES ASSUME Init PROVE WorkInv
  OBVIOUS
<1> USE WorkloadsAssumption
<1>1. FirstObject \in Objects /\ NoCall \in CallRecords
  BY DEF FirstObject, Statuses, Objects, Modes, Notes, NoCall, CallRecords
<1>2. ack \in [Names -> [Fields -> Modes \cup Notes \cup {Any}]]
  BY DEF Init
<1>3. TypeOK
  BY <1>1, <1>2 DEF Init, TypeOK, PCs
<1>4. \A n \in Names : AckHolds(n)
  BY DEF Init, AckHolds, Fields
<1>5. \A p \in Procs : CallWell(p) /\ CopyWell(p) /\ WaitWell(p)
  BY DEF Init, CallWell, CopyWell, WaitWell, Verdict
<1> QED
  BY <1>3, <1>4, <1>5 DEF WorkInv, CacheCurrent, Init

LEMMA EnvironmentStep ==
  ASSUME WorkInv, NEW n \in Names,
         FluxApplies(n) \/ UserEdits(n) \/ StatusMoves(n) \/ Deliver(n)
  PROVE  WorkInv'
<1> USE WorkloadsAssumption DEF WorkInv
<1>0. obj[n] \in Objects
  BY DEF TypeOK
<1>1. ASSUME NEW m \in Modes, Change(n, [obj[n] EXCEPT !.mode = m], {"mode"})
      PROVE  WorkInv'
  <2> DEFINE new == [obj[n] EXCEPT !.mode = m]
  <2>1. new \in Objects /\ {"mode"} \in SUBSET Fields /\ new["flux"] = obj[n]["flux"]
    BY <1>0 DEF Objects, Fields
  <2>2. \A f \in Fields \ {"mode"} : new[f] = obj[n][f]
    BY <2>1 DEF Fields
  <2> HIDE DEF new
  <2> QED
    BY <1>1, <2>1, <2>2, ChangeStep DEF new
<1>2. ASSUME NEW v \in Notes, Change(n, [obj[n] EXCEPT !.flux = v], {"flux"})
      PROVE  WorkInv'
  <2> DEFINE new == [obj[n] EXCEPT !.flux = v]
  <2>1. new \in Objects /\ {"flux"} \in SUBSET Fields /\ new["mode"] = obj[n]["mode"]
    BY <1>0 DEF Objects, Fields
  <2>2. \A f \in Fields \ {"flux"} : new[f] = obj[n][f]
    BY <2>1 DEF Fields
  <2> HIDE DEF new
  <2> QED
    BY <1>2, <2>1, <2>2, ChangeStep DEF new
<1>3. CASE FluxApplies(n)
  BY <1>1, <1>3 DEF FluxApplies
<1>4. CASE UserEdits(n)
  BY <1>1, <1>2, <1>4 DEF UserEdits, Roles, Modes, Notes
<1>5. CASE StatusMoves(n)
  <2>1. PICK s \in Statuses : Change(n, [obj[n] EXCEPT !.status = s], {})
    BY <1>5 DEF StatusMoves
  <2> DEFINE new == [obj[n] EXCEPT !.status = s]
  <2>2. new \in Objects /\ new["flux"] = obj[n]["flux"] /\ new["mode"] = obj[n]["mode"]
    BY <1>0 DEF Objects
  <2>3. \A f \in Fields \ {} : new[f] = obj[n][f]
    BY <2>2 DEF Fields
  <2> HIDE DEF new
  <2> QED
    BY <2>1, <2>2, <2>3, ChangeStep DEF new
<1>6. CASE Deliver(n)
  <2>1. /\ cache' \in [Names -> Objects] /\ fresh' \in SUBSET Names
        /\ CacheCurrent'
    BY <1>6 DEF Deliver, TypeOK, CacheCurrent
  <2>2. UNCHANGED <<kind, obj, pc, call, left, copy, late, ack, changes, calls>> /\ Watch
    BY <1>6 DEF Deliver
  <2>3. pc' \in [Procs -> PCs] /\ call' \in [Procs -> CallRecords]
    BY <2>2 DEF TypeOK
  <2>4. seen' \in [Procs -> SUBSET Names]
    BY <2>1, <2>2, <2>3, WatchStep
  <2>5. TypeOK'
    BY <2>1, <2>2, <2>4 DEF TypeOK
  <2>6. \A p \in Procs : CallWell(p)' /\ WaitWell(p)'
    BY <2>1, <2>2, <2>3, OthersWell
  <2>7. \A p \in Procs : CopyWell(p)'
    BY <2>2 DEF CopyWell, CopyIsCurrent
  <2>8. \A m \in Names : AckHolds(m)'
    BY <2>2 DEF AckHolds
  <2> QED
    BY <2>1, <2>5, <2>6, <2>7, <2>8
<1> QED
  BY <1>3, <1>4, <1>5, <1>6

LEMMA BeginStep ==
  ASSUME WorkInv, NEW p \in Procs, Begin(p)
  PROVE  WorkInv'
<1> USE WorkloadsAssumption DEF WorkInv
<1> DEFINE NamesOf(op) == IF op \in {"process", "waitAll"} THEN {Names}
                                                          ELSE {{n} : n \in Names}
           Begun(op, v, ns) ==
             /\ call' = [call EXCEPT ![p] = [op |-> op, val |-> v, names |-> ns]]
             /\ left' = [left EXCEPT ![p] = ns]
             /\ pc' = [pc EXCEPT ![p] =
                          IF op \in {"wait", "waitAll"} THEN "wait" ELSE "get"]
<1>0. \E op \in Calls[p] : \E v \in Values(op) : \E ns \in NamesOf(op) : Begun(op, v, ns)
  BY DEF Begin
<1>a. PICK op \in Calls[p] : \E v \in Values(op) : \E ns \in NamesOf(op) : Begun(op, v, ns)
  BY <1>0
<1>b. PICK v \in Values(op) : \E ns \in NamesOf(op) : Begun(op, v, ns)
  BY <1>a
<1>c. PICK ns \in NamesOf(op) : Begun(op, v, ns)
  BY <1>b
<1>1. v \in Values(op) /\ ns \in NamesOf(op) /\ Begun(op, v, ns)
  BY <1>c
<1>2. ns \in SUBSET Names /\ op \in AllCalls
  BY <1>1
<1>3. v \in Roles \cup {"disabled", "none", "stamp", "ready"}
  <2>1. op \in {"set", "dns", "process"} => v \in Roles
    BY <1>1 DEF Values
  <2>2. op \in {"flux", "trigger", "force"} => v \in {"disabled", "none", "stamp"}
    BY <1>1 DEF Values
  <2>3. op \in {"wait", "waitAll"} => v \in Roles \cup {"ready"}
    BY <1>1 DEF Values, Roles
  <2> QED
    BY <1>2, <2>1, <2>2, <2>3 DEF AllCalls
<1>4. /\ call' \in [Procs -> CallRecords] /\ left' \in [Procs -> SUBSET Names]
      /\ pc' \in [Procs -> PCs] /\ late' \in [Procs -> SUBSET Names]
      /\ calls' \in 0 .. MaxCalls
  <2>1. [op |-> op, val |-> v, names |-> ns] \in CallRecords
    BY <1>2, <1>3 DEF CallRecords
  <2> QED
    BY <1>1, <1>2, <2>1 DEF Begin, TypeOK, PCs
<1>5. /\ call'[p] = [op |-> op, val |-> v, names |-> ns]
      /\ left'[p] = ns
      /\ pc'[p] = IF op \in {"wait", "waitAll"} THEN "wait" ELSE "get"
      /\ \A q \in Procs \ {p} : /\ pc'[q] = pc[q] /\ call'[q] = call[q]
                                /\ left'[q] = left[q] /\ late'[q] = late[q]
  BY <1>1 DEF Begin, TypeOK
<1>6. UNCHANGED <<kind, obj, cache, fresh, copy, ack, changes>> /\ Watch /\ Finished(p)
  BY DEF Begin
<1>7. CallWell(p)'
  BY <1>1, <1>2, <1>5, <1>6, SameKind DEF CallWell, AllCalls, EditOps
<1>8. CopyWell(p)'
  BY <1>5, <1>6 DEF CopyWell, Finished
<1>9. WaitWell(p)'
  <2>1. cache' \in [Names -> Objects]
    BY <1>6 DEF TypeOK
  <2>2. \A n \in call'[p].names : pc'[p] = "wait" /\ Arrived(cache'[n], call'[p].val) => n \in seen'[p]
    BY <1>4, <1>6, <2>1, WatchStep
  <2>3. \A n \in call'[p].names :
          pc'[p] = "wait" /\ Arrived(cache[n], call[p].val)' => n \in seen'[p]
    BY <1>6, <2>2, SameKind
  <2>4. Verdict(p)'
    BY <1>5 DEF Verdict
  <2>5. call'[p].names = left'[p]
    BY <1>5
  <2> HIDE DEF Begun, NamesOf
  <2> QED
    BY <2>3, <2>4, <2>5 DEF WaitWell
<1>10. copy' \in [Procs -> Copies \cup {NoCopy}] /\ \A q \in Procs \ {p} : copy'[q] = copy[q]
  BY <1>6 DEF TypeOK
<1>11. /\ ack' \in [Names -> [Fields -> Modes \cup Notes \cup {Any}]]
       /\ \A n \in Names : AckHolds(n)'
  BY <1>6 DEF TypeOK, AckHolds
<1> QED
  BY <1>4, <1>5, <1>6, <1>7, <1>8, <1>9, <1>10, <1>11, QuietStep

LEMMA GetStep ==
  ASSUME WorkInv, NEW p \in Procs, NEW n \in Names,
         Get(p, n) \/ NothingToDo(p, n) \/ GetFails(p, n)
  PROVE  WorkInv'
<1> USE WorkloadsAssumption DEF WorkInv
<1> DEFINE e == EditOf(call[p], cache[n])
<1>1. /\ UNCHANGED <<kind, obj, cache, fresh, call, late, changes, calls>> /\ Watch
      /\ pc[p] = "get"
  BY DEF Get, NothingToDo, GetFails
<1>2. Proper(e, cache[n])
  BY <1>1, EditProper DEF TypeOK, CallWell
<1> HIDE DEF e
<1>3. n \in fresh => cache[n] = obj[n]
  BY DEF CacheCurrent
<1>4. /\ call' \in [Procs -> CallRecords] /\ late' \in [Procs -> SUBSET Names]
      /\ calls' \in 0 .. MaxCalls
      /\ \A q \in Procs \ {p} : call'[q] = call[q] /\ late'[q] = late[q]
  BY <1>1 DEF TypeOK
<1>5. CASE Get(p, n)
  <2> DEFINE c == [name |-> n, new |-> IF n \in fresh THEN e.new ELSE NoCopy,
                   fields |-> e.fields]
  <2>1. e.writes /\ copy' = [copy EXCEPT ![p] = c] /\ pc' = [pc EXCEPT ![p] = "update"]
        /\ UNCHANGED <<left, ack>>
    BY <1>5 DEF Get, e
  <2>2. c \in Copies
    BY <1>2 DEF Proper, Copies
  <2>3. c.new # NoCopy => c.new = e.new /\ n \in fresh
    OBVIOUS
  <2>4. c.new # NoCopy =>
          /\ \A f \in Fields \ c.fields : c.new[f] = obj[c.name][f]
          /\ "mode" \in c.fields => c.new.mode \in Roles
    BY <1>2, <1>3, <2>1, <2>3 DEF Proper
  <2> HIDE DEF c
  <2>5. /\ copy' \in [Procs -> Copies \cup {NoCopy}] /\ copy'[p] = c
        /\ pc' \in [Procs -> PCs] /\ pc'[p] = "update"
        /\ \A q \in Procs \ {p} : copy'[q] = copy[q] /\ pc'[q] = pc[q] /\ left'[q] = left[q]
    BY <2>1, <2>2 DEF TypeOK, PCs
  <2>6. CopyWell(p)'
    BY <1>1, <2>2, <2>4, <2>5 DEF CopyWell, CopyIsCurrent
  <2>7. CallWell(p)' /\ WaitWell(p)'
    BY <1>1, <2>5, SameKind DEF CallWell, WaitWell, Verdict
  <2>8. /\ ack' \in [Names -> [Fields -> Modes \cup Notes \cup {Any}]]
        /\ left' \in [Procs -> SUBSET Names]
        /\ \A m \in Names : AckHolds(m)'
    BY <1>1, <2>1 DEF TypeOK, AckHolds
  <2> QED
    BY <1>1, <1>4, <2>5, <2>6, <2>7, <2>8, QuietStep
<1>6. CASE NothingToDo(p, n) \/ GetFails(p, n)
  <2>1. PICK ok \in BOOLEAN : GoOn(p, n, ok)
    BY <1>6 DEF NothingToDo, GetFails
  <2>2. copy' = copy
    BY <1>6 DEF NothingToDo, GetFails
  <2>3. /\ left' \in [Procs -> SUBSET Names] /\ pc' \in [Procs -> PCs]
        /\ \A q \in Procs \ {p} : pc'[q] = pc[q] /\ left'[q] = left[q]
        /\ pc'[p] \in {"ok", "error", "get"}
        /\ CallWell(p)' /\ WaitWell(p)'
    BY <1>1, <2>1, GoOnStep
  <2>4. CopyWell(p)'
    BY <1>1, <2>2, <2>3 DEF CopyWell
  <2>5. copy' \in [Procs -> Copies \cup {NoCopy}] /\ \A q \in Procs \ {p} : copy'[q] = copy[q]
    BY <2>2 DEF TypeOK
  <2>6. /\ ack' \in [Names -> [Fields -> Modes \cup Notes \cup {Any}]]
        /\ \A m \in Names : AckHolds(m)'
    <3>1. CASE GetFails(p, n)
      BY <1>1, <3>1 DEF GetFails, TypeOK, AckHolds
    <3>2. CASE NothingToDo(p, n)
      <4> DEFINE vals == IF n \in fresh THEN e.new ELSE NothingSet
      <4>1. ~e.writes /\ ack' = Acked(n, e.fields, vals)
        BY <3>2 DEF NothingToDo, e
      <4>2. e.fields \in SUBSET Fields
        BY <1>2 DEF Proper
      <4>3. CASE n \in fresh
        <5>1. vals \in Objects /\ \A f \in e.fields : obj'[n][f] = vals[f]
          BY <1>1, <1>2, <1>3, <4>1, <4>3 DEF Proper
        <5>2. "mode" \in e.fields => vals.mode \in Roles
          BY <1>2, <4>3 DEF Proper
        <5> HIDE DEF vals
        <5> QED
          BY <1>1, <4>1, <4>2, <5>1, <5>2, AckStep
      <4>4. CASE n \notin fresh
        <5>1. vals = NothingSet
          BY <4>4
        <5> HIDE DEF vals
        <5> QED
          BY <1>1, <4>1, <4>2, <5>1, AckStep
      <4> QED
        BY <4>3, <4>4
    <3> QED
      BY <1>6, <3>1, <3>2
  <2> QED
    BY <1>1, <1>4, <2>3, <2>4, <2>5, <2>6, QuietStep
<1> QED
  BY <1>5, <1>6

LEMMA UpdateStep ==
  ASSUME WorkInv, NEW p \in Procs, Update(p)
  PROVE  WorkInv'
<1> USE WorkloadsAssumption DEF WorkInv
<1> DEFINE c == copy[p]
           n == c.name
           new == c.new
<1>0. /\ pc[p] = "update" /\ c \in Copies /\ CopyIsCurrent(c)
      /\ n \in Names /\ new \in Objects /\ c.fields \in SUBSET Fields
  BY DEF Update, CopyWell, Copies
<1>1. /\ \A f \in Fields \ c.fields : new[f] = obj[n][f]
      /\ "mode" \in c.fields => new.mode \in Roles
  BY <1>0 DEF Update, CopyIsCurrent
<1>2. PICK s \in {obj[n].status, new.status} : Store(n, [new EXCEPT !.status = s])
  BY DEF Update
<1>3. PICK answered \in BOOLEAN :
        /\ GoOn(p, n, answered)
        /\ ack' = Acked(n, c.fields, IF answered THEN new ELSE NothingSet)
  BY DEF Update
<1>4. /\ copy' = [Outdated(n) EXCEPT ![p] = NoCopy]
      /\ UNCHANGED <<kind, call, late, changes, calls>> /\ Watch
  BY DEF Update
<1> DEFINE written == [new EXCEPT !.status = s]
<1>5. /\ written \in Objects /\ written["mode"] = new["mode"]
      /\ written["flux"] = new["flux"]
  BY <1>0, <1>2 DEF Objects, TypeOK
<1>6. \A f \in Fields : written[f] = new[f]
  BY <1>5 DEF Fields
<1>7. Store(n, written)
  BY <1>2
<1> HIDE DEF written, new, n, c
<1>8. /\ obj' \in [Names -> Objects] /\ cache' \in [Names -> Objects]
      /\ fresh' \in SUBSET Names /\ CacheCurrent'
      /\ obj'[n] = written /\ \A m \in Names \ {n} : obj'[m] = obj[m]
  BY <1>0, <1>5, <1>7, StoreStep
<1>9. /\ left' \in [Procs -> SUBSET Names] /\ pc' \in [Procs -> PCs]
      /\ \A q \in Procs \ {p} : pc'[q] = pc[q] /\ left'[q] = left[q]
      /\ pc'[p] \in {"ok", "error", "get"}
      /\ CallWell(p)' /\ WaitWell(p)'
  BY <1>0, <1>3, <1>4, GoOnStep
<1>10. /\ ack' \in [Names -> [Fields -> Modes \cup Notes \cup {Any}]]
       /\ \A m \in Names : AckHolds(m)'
  <2> DEFINE vals == IF answered THEN new ELSE NothingSet
  <2>1. vals = NothingSet \/ (/\ vals \in Objects
                              /\ \A f \in c.fields : obj'[n][f] = vals[f]
                              /\ "mode" \in c.fields => vals.mode \in Roles)
    BY <1>0, <1>1, <1>6, <1>8
  <2>2. \A f \in Fields \ c.fields : obj'[n][f] = obj[n][f]
    BY <1>1, <1>6, <1>8
  <2>3. ack' = Acked(n, c.fields, vals)
    BY <1>3
  <2> HIDE DEF vals
  <2> QED
    BY <1>0, <1>8, <2>1, <2>2, <2>3, AckStep
<1>11. \A q \in Procs \ {p} : copy'[q] = Outdated(n)[q]
  BY <1>4 DEF Outdated
<1>12. copy'[p] = NoCopy
  BY <1>4 DEF Outdated
<1>13. \A q \in Procs \ {p} : copy'[q] \in Copies \cup {NoCopy} /\ CopyWell(q)'
  BY <1>0, <1>8, <1>9, <1>11, OutdatedStep
<1>14. CopyWell(p)'
  BY <1>9, <1>12 DEF CopyWell
<1>15. copy' \in [Procs -> Copies \cup {NoCopy}]
  <2>1. copy' = [q \in Procs |-> copy'[q]]
    BY <1>4 DEF Outdated
  <2> QED
    BY <1>12, <1>13, <2>1
<1>16. call' \in [Procs -> CallRecords]
  BY <1>4 DEF TypeOK
<1>17. seen' \in [Procs -> SUBSET Names]
  BY <1>4, <1>8, <1>9, <1>16, WatchStep
<1>18. TypeOK'
  BY <1>4, <1>8, <1>9, <1>10, <1>15, <1>17 DEF TypeOK
<1>19. \A q \in Procs \ {p} : CallWell(q)' /\ WaitWell(q)'
  BY <1>4, <1>8, <1>9, <1>16, OthersWell
<1> QED
  BY <1>8, <1>9, <1>10, <1>13, <1>14, <1>18, <1>19

LEMMA UpdateFailsStep ==
  ASSUME WorkInv, NEW p \in Procs, UpdateFails(p)
  PROVE  WorkInv'
<1> USE WorkloadsAssumption DEF WorkInv
<1>1. /\ pc[p] = "update" /\ copy[p].name \in Names
      /\ GoOn(p, copy[p].name, FALSE)
      /\ copy' = [copy EXCEPT ![p] = NoCopy]
      /\ UNCHANGED <<kind, obj, cache, fresh, call, late, ack, changes, calls>> /\ Watch
  BY DEF UpdateFails, CopyWell, Copies
<1>2. /\ left' \in [Procs -> SUBSET Names] /\ pc' \in [Procs -> PCs]
      /\ \A q \in Procs \ {p} : pc'[q] = pc[q] /\ left'[q] = left[q]
      /\ pc'[p] \in {"ok", "error", "get"}
      /\ CallWell(p)' /\ WaitWell(p)'
  BY <1>1, GoOnStep
<1>3. /\ copy' \in [Procs -> Copies \cup {NoCopy}] /\ copy'[p] = NoCopy
      /\ \A q \in Procs \ {p} : copy'[q] = copy[q]
  BY <1>1 DEF TypeOK
<1>4. CopyWell(p)'
  BY <1>2, <1>3 DEF CopyWell
<1>5. /\ call' \in [Procs -> CallRecords] /\ late' \in [Procs -> SUBSET Names]
      /\ calls' \in 0 .. MaxCalls
      /\ ack' \in [Names -> [Fields -> Modes \cup Notes \cup {Any}]]
      /\ \A q \in Procs \ {p} : call'[q] = call[q] /\ late'[q] = late[q]
  BY <1>1 DEF TypeOK
<1>6. \A m \in Names : AckHolds(m)'
  BY <1>1 DEF AckHolds
<1> QED
  BY <1>1, <1>2, <1>3, <1>4, <1>5, <1>6, QuietStep

(* A wait that has heard of every object has seen all but the late ones.   *)
LEMMA ReportStep ==
  ASSUME WorkInv, NEW p \in Procs, NEW n \in Names, Poll(p, n) \/ Timeout(p, n)
  PROVE  WorkInv'
<1> USE WorkloadsAssumption DEF WorkInv
<1>1. PICK arrived \in BOOLEAN :
        /\ Report(p, n, arrived)
        /\ arrived => Arrived(cache[n], call[p].val)
  BY DEF Poll, Timeout
<1>2. pc[p] = "wait" /\ n \in left[p]
  BY DEF Poll, Timeout
<1>3. /\ left' = [left EXCEPT ![p] = @ \ {n}]
      /\ late' = IF arrived THEN late ELSE [late EXCEPT ![p] = @ \cup {n}]
      /\ UNCHANGED <<kind, obj, cache, fresh, call, copy, ack, changes, calls>> /\ Watch
  BY <1>1 DEF Report
<1>4. /\ pc' \in [Procs -> PCs] /\ \A q \in Procs \ {p} : pc'[q] = pc[q]
      /\ pc'[p] \in {"wait", "ok", "error"}
      /\ pc'[p] = "ok" => left[p] = {n} /\ late'[p] = {}
      /\ pc'[p] = "error" /\ arrived => late'[p] # {}
      /\ pc'[p] = "error" /\ Concurrent(call[p]) => left[p] = {n}
  BY <1>1, <1>3 DEF Report, TypeOK, PCs
<1>5. /\ left' \in [Procs -> SUBSET Names] /\ late' \in [Procs -> SUBSET Names]
      /\ left'[p] = left[p] \ {n}
      /\ late[p] \subseteq late'[p] /\ (~arrived => n \in late'[p])
      /\ \A q \in Procs \ {p} : left'[q] = left[q] /\ late'[q] = late[q]
  BY <1>3 DEF TypeOK
<1>6. /\ call' \in [Procs -> CallRecords] /\ copy' \in [Procs -> Copies \cup {NoCopy}]
      /\ calls' \in 0 .. MaxCalls
      /\ ack' \in [Names -> [Fields -> Modes \cup Notes \cup {Any}]]
      /\ cache' \in [Names -> Objects]
      /\ \A q \in Procs \ {p} : call'[q] = call[q] /\ copy'[q] = copy[q]
  BY <1>3 DEF TypeOK
<1>7. CallWell(p)'
  BY <1>2, <1>3, <1>4, SameKind DEF CallWell
<1>8. CopyWell(p)'
  BY <1>2, <1>3, <1>4 DEF CopyWell
<1>9. arrived /\ n \in call[p].names => n \in seen[p]
  BY <1>1, <1>2 DEF WaitWell
<1>10. WaitWell(p)'
  <2>1. /\ pc'[p] = "wait" =>
             /\ \A m \in call'[p].names : Arrived(cache'[m], call'[p].val) => m \in seen'[p]
             /\ seen[p] \subseteq seen'[p]
        /\ pc'[p] \in {"ok", "error"} => seen'[p] = seen[p]
    BY <1>2, <1>3, <1>4, <1>6, WatchStep
  <2>2. \A m \in call[p].names : m \in left[p] \cup late[p] \cup seen[p]
    BY <1>2 DEF WaitWell
  <2>3. \A m \in call'[p].names : m \in left'[p] \cup late'[p] \cup seen[p]
    BY <1>3, <1>5, <1>9, <2>2
  <2>4. \A m \in call'[p].names :
          Arrived(cache[m], call[p].val)' /\ pc'[p] = "wait" => m \in seen'[p]
    BY <1>3, <2>1, SameKind
  <2>5. pc'[p] = "ok" => call'[p].names \subseteq seen'[p]
    BY <1>4, <1>5, <2>1, <2>3
  <2>6. pc'[p] = "error" => late'[p] # {}
    BY <1>4, <1>5
  <2>7. pc'[p] = "error" /\ Concurrent(call[p])' => call'[p].names \subseteq late'[p] \cup seen'[p]
    <3>1. Concurrent(call[p])' <=> Concurrent(call[p])
      BY <1>3 DEF Concurrent
    <3> QED
      BY <1>4, <1>5, <2>1, <2>3, <3>1
  <2>8. Verdict(p)'
    BY <2>5, <2>6, <2>7 DEF Verdict
  <2> QED
    BY <2>1, <2>3, <2>4, <2>8 DEF WaitWell
<1>11. \A m \in Names : AckHolds(m)'
  BY <1>3 DEF AckHolds
<1> QED
  BY <1>3, <1>4, <1>5, <1>6, <1>7, <1>8, <1>10, <1>11, QuietStep

LEMMA WorkNext == WorkInv /\ [Next]_vars => WorkInv'
<1> SUFFICES ASSUME WorkInv, [Next]_vars PROVE WorkInv'
  OBVIOUS
<1>1. CASE Environment
  BY <1>1, EnvironmentStep DEF Environment
<1>2. ASSUME NEW p \in Procs, Begin(p) PROVE WorkInv'
  BY <1>2, BeginStep
<1>3. ASSUME NEW p \in Procs, Request(p) PROVE WorkInv'
  BY <1>3, GetStep, UpdateStep, UpdateFailsStep DEF Request
<1>4. ASSUME NEW p \in Procs, NEW n \in Names, Poll(p, n) \/ Timeout(p, n) PROVE WorkInv'
  BY <1>4, ReportStep
<1>5. CASE UNCHANGED vars
  <2> USE <1>5 DEF vars, WorkInv
  <2>1. TypeOK' /\ CacheCurrent' /\ \A n \in Names : AckHolds(n)'
    BY DEF TypeOK, CacheCurrent, AckHolds
  <2>2. \A p \in Procs : CopyWell(p)'
    BY DEF CopyWell, CopyIsCurrent
  <2>3. \A p \in Procs : CallWell(p)'
    BY SameKind DEF CallWell
  <2>4. \A p \in Procs : WaitWell(p)'
    <3>1. \A p \in Procs : Verdict(p)' <=> Verdict(p)
      BY DEF Verdict, Concurrent
    <3>2. \A n \in Names, p \in Procs :
            Arrived(cache[n], call[p].val)' <=> Arrived(cache[n], call[p].val)
      BY SameKind
    <3>3. \A p \in Procs : call[p].names \subseteq Names
      BY DEF TypeOK, CallRecords
    <3> QED
      BY <3>1, <3>2, <3>3 DEF WaitWell
  <2> QED
    BY <2>1, <2>2, <2>3, <2>4
<1> QED
  BY <1>1, <1>2, <1>3, <1>4, <1>5 DEF Next

(* Whatever the goroutines call and others change, copies are current or   *)
(* outdated, acknowledged values are in the objects and waits keep count.  *)
THEOREM WorkInvariant == Spec => []WorkInv
  BY WorkInit, WorkNext, PTL DEF Spec

(* Every state of the managers' calls is of the declared types.            *)
THEOREM WorkTypeCorrect == Spec => []TypeOK
<1>1. WorkInv => TypeOK
  BY DEF WorkInv
<1> QED
  BY <1>1, WorkInvariant, PTL

(* No update (client.Update of the managers) undoes what another call has  *)
(* set and acknowledged, and the managers' queries report it.              *)
THEOREM NoLostUpdate == Spec => []AcknowledgedStays
<1>1. ASSUME WorkInv PROVE AcknowledgedStays
  <2> SUFFICES ASSUME NEW n \in Names, ack[n].mode \in Roles, obj[n].mode = ack[n].mode
               PROVE  Passive(obj[n]) <=> ack[n].mode = "passive"
    BY <1>1 DEF WorkInv, AckHolds, AcknowledgedStays
  <2>1. kind \in AllKinds
    BY <1>1, WorkloadsAssumption DEF WorkInv, TypeOK
  <2> QED
    BY <2>1
    DEF AllKinds, Roles, Passive, DeploymentScaledDown, StatefulSetScaledDown,
        CronJobSuspended, IngressPrimary, VirtualServicePrimary,
        KustomizationSuspended, HelmReleaseSuspended, VolumeReplicationState
<1> QED
  BY <1>1, WorkInvariant, PTL

(* A wait that returns without an error has found every one of its objects *)
(* arrived, one that fails has an object that timed out, and the waits     *)
(* with a goroutine per object fail only when they have heard of all       *)
(* (WaitForAllDeploymentsState and others).                                *)
THEOREM WaitsAreTrue == Spec => []WaitVerdict
<1>1. WorkInv => WaitVerdict
  BY DEF WorkInv, WaitWell, Verdict, WaitVerdict
<1> QED
  BY <1>1, WorkInvariant, PTL
=============================================================================
