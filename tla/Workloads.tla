----------------------------- MODULE Workloads -----------------------------
(***************************************************************************)
(* The managers of the Kubernetes resources that a failover turns on and   *)
(* off: deployments, statefulsets, cronjobs, ingresses, virtualservices,   *)
(* kustomizations, helmreleases and volumereplications.                    *)
(*                                                                         *)
(* They are a library: every call reads an object, edits the copy and      *)
(* updates it, or polls it until it is in a state.  Here any number of     *)
(* goroutines make any calls of one manager (the managers share no         *)
(* object), while Flux applies the state in Git, users edit and the        *)
(* Kubernetes controllers report a status.                                 *)
(*                                                                         *)
(* What a failover turns on and off is one field of the object, its mode:  *)
(* the replicas of a Deployment or StatefulSet (0 is passive), suspend of  *)
(* a CronJob, Kustomization or HelmRelease, the DNS annotation of an       *)
(* Ingress or VirtualService, the replicationState of a VolumeReplication. *)
(* Its Flux annotation is none, "disabled" or the time of a trigger.  Its  *)
(* status is "up" when everything it asks for is there (all replicas, a    *)
(* load balancer address, Ready, Healthy and DataProtected), "down" when   *)
(* nothing is there, "part" when some of the replicas asked for are there  *)
(* and all of these are ready (1 of 3), and "starting" when something that *)
(* is there is not ready.                                                  *)
(*                                                                         *)
(* An update with an outdated resourceVersion is refused.  Only whether a  *)
(* copy is up to date matters, so an outdated copy is NoCopy.              *)
(***************************************************************************)

EXTENDS Naturals

CONSTANTS Procs,      \* the goroutines that call the manager
          Names,      \* the objects
          Kinds,      \* the managers to consider, one in each behaviour
          Calls,      \* Calls[p]: what goroutine p may call
          NoCopy,     \* no object in a goroutine's memory
          GitMode,    \* the mode that Flux finds in Git
          MaxChanges, \* bound on what others change
          MaxCalls    \* bound on the calls of all goroutines

AllKinds == {"Deployment", "StatefulSet", "CronJob", "Ingress",
             "VirtualService", "Kustomization", "HelmRelease",
             "VolumeReplication"}
AllCalls == {"set", "dns", "flux", "trigger", "force", "process", "wait",
             "waitAll"}
Modes == {"unset", "active", "passive"}
Notes == {"none", "disabled", "stamp"}
Statuses == {"down", "part", "starting", "up"}
Objects == [mode : Modes, flux : Notes, status : Statuses]

(* An object in memory, with the fields that the update is to change.      *)
Fields == {"mode", "flux"}
Copies == [name : Names, new : Objects \cup {NoCopy}, fields : SUBSET Fields]

ASSUME WorkloadsAssumption ==
  /\ Kinds \subseteq AllKinds
  /\ Calls \in [Procs -> SUBSET AllCalls]
  /\ NoCopy \notin Objects
  /\ NoCopy \notin Copies
  /\ GitMode \in Modes
  /\ MaxChanges \in Nat
  /\ MaxCalls \in Nat

(* mgr.GetClient() reads typed objects from the informers' cache and       *)
(* unstructured ones from the API server.                                  *)
Typed == {"Deployment", "StatefulSet", "CronJob", "Ingress"}

VARIABLES
  kind,   \* the manager, and the kind of its objects
  obj,    \* the objects in the API server
  cache,  \* what a read returns
  fresh,  \* the objects whose newest version a read returns
  pc,     \* what each goroutine does next
  call,   \* its call: operation, value, names
  left,   \* the names that the call has not dealt with
  copy,   \* the object that it is about to write
  changes, \* auxiliary: how often somebody else changed an object
  calls,  \* auxiliary: how many calls were begun
  late,   \* the names whose wait has timed out
  seen,   \* auxiliary: the names that a poll could have found arrived
  ack     \* auxiliary: what calls that did not fail have set

vars == <<kind, obj, cache, fresh, pc, call, left, copy, late, changes,
          calls, seen, ack>>

----------------------------------------------------------------------------
(* What the calls do to the copy of an object they have read.  An edit has *)
(* the copy, whether the call updates the object at all, and the fields    *)
(* that have their value in the object if it does not fail.                *)

Edit(new, writes, fields) ==
  [new |-> new, writes |-> writes, fields |-> fields]

SetMode(o, v, writes) == Edit([o EXCEPT !.mode = v], writes, {"mode"})
SetFlux(o, v, writes) == Edit([o EXCEPT !.flux = v], writes, {"flux"})

(* ScaleDeployment leaves a Deployment alone that has the replicas, and    *)
(* AddAnnotation one that has the annotation.                              *)
DeploymentScale(o, v) == SetMode(o, v, o.mode # v)
DeploymentAnnotate(o, v) == SetFlux(o, v, o.flux # v)
DeploymentReady(o) ==
  IF o.mode = "passive" THEN o.status = "down" ELSE o.status = "up"
DeploymentScaledDown(o) == o.mode = "passive"

(* A StatefulSet is always updated, but for an annotation that is already  *)
(* gone.  IsReady compares the numbers of the status with each other and   *)
(* not with the replicas asked for: 0 of 0 ready and 1 of 1 ready pass.    *)
StatefulSetScale(o, v) == SetMode(o, v, TRUE)
StatefulSetAnnotate(o, v) == SetFlux(o, v, v # "none" \/ o.flux # "none")
StatefulSetReady(o) == o.mode = "passive" \/ o.status # "starting"
StatefulSetScaledDown(o) == o.mode = "passive"

CronJobScale(o, v) == SetMode(o, v, TRUE)
CronJobAnnotate(o, v) == StatefulSetAnnotate(o, v)
CronJobSuspended(o) == o.mode = "passive"

(* UpdateIngress puts the Flux annotation into the copy, but updates the   *)
(* Ingress only if its DNS annotation has to change.                       *)
UpdateIngress(o, v) ==
  Edit([o EXCEPT !.flux = "disabled", !.mode = v],
       o.mode # v,
       IF o.mode # v THEN {"mode", "flux"} ELSE {"mode"})
IngressAnnotate(o, v) == StatefulSetAnnotate(o, v)
IngressSetDNSController(o, v) == SetMode(o, v, TRUE)
IngressPrimary(o) == o.mode = "active"
IngressReady(o) == o.status = "up"

UpdateVirtualService(o, v) == UpdateIngress(o, v)
VirtualServiceAnnotate(o, v) == StatefulSetAnnotate(o, v)
VirtualServiceSetDNSController(o, v) == SetMode(o, v, TRUE)
VirtualServicePrimary(o) == o.mode = "active"
VirtualServiceReady(o) == TRUE

(* A trigger writes the time to the annotation that AddFluxAnnotation sets *)
(* to "disabled".                                                          *)
KustomizationSuspend(o, v) == SetMode(o, v, TRUE)
KustomizationSuspended(o) == o.mode = "passive"
KustomizationTrigger(o) == SetFlux(o, "stamp", TRUE)
KustomizationForce(o) == SetFlux([o EXCEPT !.status = "down"], "stamp", TRUE)
KustomizationAnnotate(o, v) == StatefulSetAnnotate(o, v)
KustomizationReconciled(o) == o.status = "up"

HelmReleaseSuspend(o, v) == KustomizationSuspend(o, v)
HelmReleaseSuspended(o) == KustomizationSuspended(o)
HelmReleaseTrigger(o) == KustomizationTrigger(o)
HelmReleaseForce(o) == KustomizationForce(o)
HelmReleaseAnnotate(o, v) == KustomizationAnnotate(o, v)
HelmReleaseReconciled(o) == KustomizationReconciled(o)

(* Faulty variant: the state is not one of the two.                        *)
SetVolumeReplicationStateEmpty(o, v) == SetMode(o, "none", TRUE)

SetVolumeReplicationState(o, v) == SetMode(o, v, TRUE)
VolumeReplicationState(o) == IF o.mode = "unset" THEN "active" ELSE o.mode
VolumeReplicationHealthy(o) == o.status = "up"

----------------------------------------------------------------------------
(* The calls that a manager offers.                                        *)

FluxKinds == {"Kustomization", "HelmRelease"}
DNSKinds == {"Ingress", "VirtualService"}
Roles == {"active", "passive"}

Values(op) ==
  CASE op = "set" -> Roles
    [] op = "process" -> IF kind \in FluxKinds THEN {} ELSE Roles
    [] op = "dns" -> IF kind \in DNSKinds THEN Roles ELSE {}
    [] op = "flux" ->
         IF kind = "VolumeReplication" THEN {} ELSE {"disabled", "none"}
    [] op \in {"trigger", "force"} ->
         IF kind \in FluxKinds THEN {"stamp"} ELSE {}
    [] op = "wait" ->
         IF kind = "CronJob" THEN Roles
         ELSE IF kind = "VolumeReplication" THEN Roles \cup {"ready"}
         ELSE {"ready"}
    [] op = "waitAll" ->
         IF kind = "Deployment" THEN {"ready", "passive"}
         ELSE IF kind = "CronJob" THEN Roles
         ELSE IF kind = "VolumeReplication" THEN Roles \cup {"ready"}
         ELSE IF kind \in FluxKinds THEN {}
         ELSE {"ready"}

ModeEdit(o, v) ==
  CASE kind = "Deployment" -> DeploymentScale(o, v)
    [] kind = "StatefulSet" -> StatefulSetScale(o, v)
    [] kind = "CronJob" -> CronJobScale(o, v)
    [] kind = "Ingress" -> UpdateIngress(o, v)
    [] kind = "VirtualService" -> UpdateVirtualService(o, v)
    [] kind = "Kustomization" -> KustomizationSuspend(o, v)
    [] kind = "HelmRelease" -> HelmReleaseSuspend(o, v)
    [] kind = "VolumeReplication" -> SetVolumeReplicationState(o, v)

FluxEdit(o, v) ==
  CASE kind = "Deployment" -> DeploymentAnnotate(o, v)
    [] kind = "StatefulSet" -> StatefulSetAnnotate(o, v)
    [] kind = "CronJob" -> CronJobAnnotate(o, v)
    [] kind = "Ingress" -> IngressAnnotate(o, v)
    [] kind = "VirtualService" -> VirtualServiceAnnotate(o, v)
    [] kind = "Kustomization" -> KustomizationAnnotate(o, v)
    [] kind = "HelmRelease" -> HelmReleaseAnnotate(o, v)

EditOf(c, o) ==
  CASE c.op \in {"set", "process"} -> ModeEdit(o, c.val)
    [] c.op = "flux" -> FluxEdit(o, c.val)
    [] c.op = "dns" ->
         IF kind = "Ingress" THEN IngressSetDNSController(o, c.val)
                             ELSE VirtualServiceSetDNSController(o, c.val)
    [] c.op = "trigger" ->
         IF kind = "Kustomization" THEN KustomizationTrigger(o)
                                   ELSE HelmReleaseTrigger(o)
    [] c.op = "force" ->
         IF kind = "Kustomization" THEN KustomizationForce(o)
                                   ELSE HelmReleaseForce(o)

(* The role that the manager's own queries report.                         *)
Passive(o) ==
  CASE kind = "Deployment" -> DeploymentScaledDown(o)
    [] kind = "StatefulSet" -> StatefulSetScaledDown(o)
    [] kind = "CronJob" -> CronJobSuspended(o)
    [] kind = "Ingress" -> ~IngressPrimary(o)
    [] kind = "VirtualService" -> ~VirtualServicePrimary(o)
    [] kind = "Kustomization" -> KustomizationSuspended(o)
    [] kind = "HelmRelease" -> HelmReleaseSuspended(o)
    [] kind = "VolumeReplication" -> VolumeReplicationState(o) = "passive"

Ready(o) ==
  CASE kind = "Deployment" -> DeploymentReady(o)
    [] kind = "StatefulSet" -> StatefulSetReady(o)
    [] kind = "Ingress" -> IngressReady(o)
    [] kind = "VirtualService" -> VirtualServiceReady(o)
    [] kind = "Kustomization" -> KustomizationReconciled(o)
    [] kind = "HelmRelease" -> HelmReleaseReconciled(o)
    [] kind = "VolumeReplication" -> VolumeReplicationHealthy(o)

(* What a poll asks for.                                                   *)
Arrived(o, v) ==
  CASE v = "ready" -> Ready(o)
    [] v = "passive" -> Passive(o)
    [] v = "active" -> ~Passive(o)

(* The waits for all Deployments and for all CronJobs poll each object in  *)
(* a goroutine of its own and hear from all of them, the others poll one   *)
(* object after the other and return at the first that does not arrive.    *)
Concurrent(c) == kind \in {"Deployment", "CronJob"} /\ c.op = "waitAll"

----------------------------------------------------------------------------
PCs == {"idle", "get", "update", "wait", "ok", "error"}
NoCall == [op |-> "none", val |-> "none", names |-> {}]
Any == "any"

CallRecords ==
  [op : AllCalls \cup {"none"},
   val : Roles \cup {"disabled", "none", "stamp", "ready"},
   names : SUBSET Names]

TypeOK ==
  /\ kind \in Kinds
  /\ obj \in [Names -> Objects]
  /\ cache \in [Names -> Objects]
  /\ fresh \in SUBSET Names
  /\ pc \in [Procs -> PCs]
  /\ call \in [Procs -> CallRecords]
  /\ left \in [Procs -> SUBSET Names]
  /\ copy \in [Procs -> Copies \cup {NoCopy}]
  /\ late \in [Procs -> SUBSET Names]
  /\ changes \in 0 .. MaxChanges
  /\ calls \in 0 .. MaxCalls
  /\ seen \in [Procs -> SUBSET Names]
  /\ ack \in [Names -> [Fields -> Modes \cup Notes \cup {Any}]]

(* Replicas have a default of 1; the other fields may be absent.           *)
FirstObject ==
  [mode |-> IF kind \in {"Deployment", "StatefulSet"} THEN "active"
                                                      ELSE "unset",
   flux |-> "none",
   status |-> "up"]

Init ==
  /\ kind \in Kinds
  /\ obj = [n \in Names |-> FirstObject]
  /\ cache = obj
  /\ fresh = Names
  /\ pc = [p \in Procs |-> "idle"]
  /\ call = [p \in Procs |-> NoCall]
  /\ left = [p \in Procs |-> {}]
  /\ copy = [p \in Procs |-> NoCopy]
  /\ late = [p \in Procs |-> {}]
  /\ changes = 0
  /\ calls = 0
  /\ seen = [p \in Procs |-> {}]
  /\ ack = [n \in Names |-> [f \in Fields |-> Any]]

----------------------------------------------------------------------------
(* The names whose object a poll could have found arrived since the wait   *)
(* began.                                                                  *)
Watch ==
  seen' = [p \in Procs |->
            LET now == {n \in call'[p].names :
                         Arrived(cache'[n], call'[p].val)}
            IN  IF pc'[p] = "wait"
                THEN now \cup (IF pc[p] = "wait" THEN seen[p] ELSE {})
                ELSE IF pc'[p] \in {"get", "update"} THEN {} ELSE seen[p]]

----------------------------------------------------------------------------
(* The API server and the caches (external).                               *)

(* Faulty variant: updates go without a resourceVersion.                   *)
OutdatedNever(n) == copy

(* The API server has a new version of object n: the copies of older ones  *)
(* are outdated, and a cache has yet to hear of it.                        *)
Outdated(n) ==
  [p \in Procs |-> IF copy[p] # NoCopy /\ copy[p].name = n
                   THEN [copy[p] EXCEPT !.new = NoCopy]
                   ELSE copy[p]]

Store(n, new) ==
  /\ obj' = [obj EXCEPT ![n] = new]
  /\ IF kind \in Typed
     THEN fresh' = fresh \ {n} /\ UNCHANGED cache
     ELSE cache' = [cache EXCEPT ![n] = new] /\ UNCHANGED fresh

(* A change of the given fields by somebody else than these calls.         *)
Change(n, new, fields) ==
  /\ changes < MaxChanges
  /\ changes' = changes + 1
  /\ new # obj[n]
  /\ Store(n, new)
  /\ copy' = Outdated(n)
  /\ ack' = [ack EXCEPT ![n] = [f \in Fields |->
                                  IF f \in fields THEN Any ELSE ack[n][f]]]
  /\ UNCHANGED <<kind, pc, call, left, late, calls>>
  /\ Watch

(* Flux applies what is in Git, but to an object whose annotation says not *)
(* to.  The managers of the other kinds write "disabled" to the annotation *)
(* that requests a reconciliation, where it stops nothing.                 *)
HeedsDisabled == {"Deployment", "StatefulSet", "CronJob"}

FluxApplies(n) ==
  /\ kind \in HeedsDisabled => obj[n].flux # "disabled"
  /\ Change(n, [obj[n] EXCEPT !.mode = GitMode], {"mode"})

UserEdits(n) ==
  \/ \E v \in Roles : Change(n, [obj[n] EXCEPT !.mode = v], {"mode"})
  \/ \E v \in {"none", "disabled"} :
       Change(n, [obj[n] EXCEPT !.flux = v], {"flux"})

StatusMoves(n) ==
  \E s \in Statuses :
    Change(n, [obj[n] EXCEPT !.status = s], {})

Deliver(n) ==
  /\ n \notin fresh
  /\ fresh' = fresh \cup {n}
  /\ cache' = [cache EXCEPT ![n] = obj[n]]
  /\ UNCHANGED <<kind, obj, pc, call, left, copy, late, ack, changes,
                 calls>>
  /\ Watch

----------------------------------------------------------------------------
(* The calls.                                                              *)

Finished(p) == pc[p] \in {"idle", "ok", "error"}

Begin(p) ==
  /\ Finished(p)
  /\ calls < MaxCalls
  /\ calls' = calls + 1
  /\ \E op \in Calls[p] : \E v \in Values(op) :
       \E ns \in IF op \in {"process", "waitAll"} THEN {Names}
                                                 ELSE {{n} : n \in Names} :
         /\ call' = [call EXCEPT ![p] = [op |-> op, val |-> v, names |-> ns]]
         /\ left' = [left EXCEPT ![p] = ns]
         /\ pc' = [pc EXCEPT ![p] =
                      IF op \in {"wait", "waitAll"} THEN "wait" ELSE "get"]
  /\ late' = [late EXCEPT ![p] = {}]
  /\ UNCHANGED <<kind, obj, cache, fresh, copy, ack, changes>>
  /\ Watch

(* The call is through with object n.  The Process functions log an error  *)
(* and go on with the next name, in the order of a list that may be any.   *)
GoOn(p, n, ok) ==
  /\ left' = [left EXCEPT ![p] = @ \ {n}]
  /\ pc' = [pc EXCEPT ![p] =
              IF call[p].op # "process" THEN IF ok THEN "ok" ELSE "error"
              ELSE IF left[p] = {n} THEN "ok" ELSE "get"]

(* What a call has set if it does not fail.  A call that finds nothing to  *)
(* do in an outdated read has set nothing.                                 *)
Acked(n, fields, new) ==
  [ack EXCEPT ![n] = [f \in Fields |-> IF f \in fields THEN new[f]
                                                       ELSE ack[n][f]]]

NothingSet == [f \in Fields |-> Any]

Get(p, n) ==
  LET edit == EditOf(call[p], cache[n])
  IN  /\ pc[p] = "get"
      /\ n \in left[p]
      /\ edit.writes
      /\ copy' = [copy EXCEPT ![p] =
                    [name |-> n,
                     new |-> IF n \in fresh THEN edit.new ELSE NoCopy,
                     fields |-> edit.fields]]
      /\ pc' = [pc EXCEPT ![p] = "update"]
      /\ UNCHANGED <<kind, obj, cache, fresh, call, left, late, ack,
                     changes, calls>>
      /\ Watch

NothingToDo(p, n) ==
  LET edit == EditOf(call[p], cache[n])
  IN  /\ pc[p] = "get"
      /\ n \in left[p]
      /\ ~edit.writes
      /\ GoOn(p, n, TRUE)
      /\ ack' = Acked(n, edit.fields,
                      IF n \in fresh THEN edit.new ELSE NothingSet)
      /\ UNCHANGED <<kind, obj, cache, fresh, call, copy, late, changes,
                     calls>>
      /\ Watch

GetFails(p, n) ==
  /\ pc[p] = "get"
  /\ n \in left[p]
  /\ GoOn(p, n, FALSE)
  /\ UNCHANGED <<kind, obj, cache, fresh, call, copy, late, ack, changes,
                 calls>>
  /\ Watch

(* The API server takes the update if the copy is up to date.  It may      *)
(* leave the status alone, which is a resource of its own.  The answer may *)
(* be lost.                                                                *)
Update(p) ==
  /\ pc[p] = "update"
  /\ copy[p].new # NoCopy
  /\ LET n == copy[p].name
         new == copy[p].new
     IN  /\ \E s \in {obj[n].status, new.status} :
              Store(n, [new EXCEPT !.status = s])
         /\ copy' = [Outdated(n) EXCEPT ![p] = NoCopy]
         /\ \E answered \in BOOLEAN :
              /\ GoOn(p, n, answered)
              /\ ack' = Acked(n, copy[p].fields,
                              IF answered THEN new ELSE NothingSet)
         /\ UNCHANGED <<kind, call, late, changes, calls>>
         /\ Watch

(* An outdated copy is refused; any other update may fail too.             *)
UpdateFails(p) ==
  /\ pc[p] = "update"
  /\ GoOn(p, copy[p].name, FALSE)
  /\ copy' = [copy EXCEPT ![p] = NoCopy]
  /\ UNCHANGED <<kind, obj, cache, fresh, call, late, ack, changes, calls>>
  /\ Watch

(* Faulty variant: a goroutine that times out sends nothing.               *)
ReportArrived(p, n, arrived) ==
  /\ left' = [left EXCEPT ![p] = IF arrived THEN @ \ {n} ELSE @]
  /\ late' = IF arrived THEN late ELSE [late EXCEPT ![p] = @ \cup {n}]
  /\ pc' = [pc EXCEPT ![p] =
              IF ~arrived /\ ~Concurrent(call[p]) THEN "error"
              ELSE IF left'[p] # {} THEN "wait"
              ELSE IF late'[p] = {} THEN "ok" ELSE "error"]
  /\ UNCHANGED <<kind, obj, cache, fresh, call, copy, ack, changes, calls>>
  /\ Watch

(* A wait hears of object n.                                               *)
Report(p, n, arrived) ==
  /\ left' = [left EXCEPT ![p] = @ \ {n}]
  /\ late' = IF arrived THEN late ELSE [late EXCEPT ![p] = @ \cup {n}]
  /\ pc' = [pc EXCEPT ![p] =
              IF ~arrived /\ ~Concurrent(call[p]) THEN "error"
              ELSE IF left[p] # {n} THEN "wait"
              ELSE IF late'[p] = {} THEN "ok" ELSE "error"]
  /\ UNCHANGED <<kind, obj, cache, fresh, call, copy, ack, changes, calls>>
  /\ Watch

Poll(p, n) ==
  /\ pc[p] = "wait"
  /\ n \in left[p]
  /\ Arrived(cache[n], call[p].val)
  /\ Report(p, n, TRUE)

(* Faulty variant: an object that does not arrive is passed over.          *)
TimeoutIgnored(p, n) ==
  /\ pc[p] = "wait"
  /\ n \in left[p]
  /\ Report(p, n, TRUE)

(* The timeout passes.  A wait for one Deployment, an Ingress or a Virtual-*)
(* Service also ends with the first read that fails; the others go on      *)
(* polling.                                                                *)
Timeout(p, n) ==
  /\ pc[p] = "wait"
  /\ n \in left[p]
  /\ Report(p, n, FALSE)


Request(p) ==
  \/ \E n \in Names : Get(p, n) \/ NothingToDo(p, n) \/ GetFails(p, n)
  \/ Update(p)
  \/ UpdateFails(p)

Environment ==
  \E n \in Names :
    FluxApplies(n) \/ UserEdits(n) \/ StatusMoves(n) \/ Deliver(n)

Next ==
  \/ Environment
  \/ \E p \in Procs :
       \/ Begin(p)
       \/ Request(p)
       \/ \E n \in Names : Poll(p, n) \/ Timeout(p, n)

(* A request is answered, with an error if need be, and time passes.       *)
Spec ==
  /\ Init
  /\ [][Next]_vars
  /\ \A p \in Procs : WF_vars(Request(p))
  /\ \A p \in Procs, n \in Names : WF_vars(Timeout(p, n))

----------------------------------------------------------------------------
(* Properties.                                                             *)

(* What a call that returned without an error has set stays set until      *)
(* Flux, a user or another call for the same field changes it, and the     *)
(* manager's own queries report it.  A lost update of another goroutine    *)
(* would break it: every call writes the whole object it has read          *)
(* (client.Update in each of the managers).                                *)
AcknowledgedStays ==
  \A n \in Names :
    /\ ack[n].flux # Any => obj[n].flux = ack[n].flux
    /\ ack[n].mode # Any => (Passive(obj[n]) <=> ack[n].mode = "passive")

(* The verdict of a wait, whatever its check is worth: one that succeeds   *)
(* has found every one of its objects arrived, each at some moment of the  *)
(* wait; one that fails has an object that timed out; and the concurrent   *)
(* waits fail only when they have heard of every object, so that every     *)
(* object which the error does not list has arrived.                       *)
(* WaitForAllDeploymentsState collects the answers of goroutines, some of  *)
(* which got errors and timed out; WaitForAllStatefulSetsReady goes        *)
(* through the list.  Arrived is what the managers check, which is less    *)
(* than their documentation says: of a StatefulSet it does not need the    *)
(* replicas asked for, and "scaled down" is about the specification only.  *)
WaitVerdict ==
  \A p \in Procs : call[p].op \in {"wait", "waitAll"} =>
    /\ pc[p] = "ok" => call[p].names \subseteq seen[p]
    /\ pc[p] = "error" => late[p] # {}
    /\ pc[p] = "error" /\ Concurrent(call[p])
         => call[p].names \subseteq late[p] \cup seen[p]

(* Every call returns, and a Process call only when it has got to every    *)
(* name of its list, whatever requests fail.  WaitForAllDeploymentsState   *)
(* receives once per object, so a goroutine that ends must have sent.      *)
CallsReturn ==
  \A p \in Procs :
    ~Finished(p)
      ~> Finished(p) /\ (call[p].op = "process" => left[p] = {})
=============================================================================
