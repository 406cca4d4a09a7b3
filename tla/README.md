# Failover-Operator: a TLA+ verification project

The Failover-Operator runs in several Kubernetes clusters. The operators share
one DynamoDB table, agree through it which cluster is the PRIMARY of a
FailoverGroup, and move that role when a user creates a `Failover` object. This
directory holds TLA+ models of the parts that decide who is primary, the TLC
configurations that check them, and proofs about them for TLAPS.

Every definition is a translation of the Go source. `PROJECT.json` maps each one
to the lines that it stands for, lists the runs and gives for each property a
plausible bug (a *mutant*: the operators commented as "Faulty variant") under
which the property fails.

## 1. Inventory

| component | source | state | operations | interacts with |
|---|---|---|---|---|
| Distributed lock | `dynamodb/operations_manager.go` 531-688, `state_manager.go` 621-650 | one LOCK item per group: token, expiresAt, lockedBy | AcquireLock, IsLocked, ReleaseLock, DeleteLock | OperationsManager, workflow, group deletion |
| OperationsManager, BaseManager | `dynamodb/operations_manager.go`, `state_manager.go` | CONFIG item (owner, previous owner, version, suspended), CLUSTER# items (health, state), HISTORY# items | ExecuteFailover, ExecuteFailback, UpdateSuspension, TransferOwnership, Update/RemoveClusterStatus, DeleteGroupConfig | called by the workflow, the group manager and each other |
| Failover workflow | `internal/workflow/*.go` | WorkflowContext: target, mode, force, source, LeaseToken | the ordered list of tasks; ValidateFailover, AcquireLock, UpdateGlobalState and ReleaseLock touch the table | called by the Failover controller; reads the FailoverGroup status |
| Failover controller | `controller/failover/failover_controller.go`, `workflow/adapter.go` | the Failover object: status of the whole and of each group, finalizer | Reconcile, handleDeletion, the status writes of ProcessFailover and of the tasks | API server and informer cache, workflow |
| FailoverGroup controller and manager | `controller/failovergroup/*.go` | the FailoverGroup object: GlobalState, finalizer; knownClusters | Reconcile, periodic synchronisation (30 s), updateLocalStatus, heartbeats, removal of stale clusters, handleDeletion | DynamoDBService and its cache, API server |
| DynamoDBService cache | `dynamodb/manager.go`, `service.go` | CONFIG and CLUSTER# items of the last 30 s | cached GetGroupConfig and friends | everything that does not use OperationsManager directly |
| Volume state manager | `dynamodb/volume_state.go` | part of the CONFIG and CLUSTER# items | UpdateHeartbeat, Set/RemoveVolumeState | group manager |
| Volume replication stages | `controller/failover/manager.go`, `failover_stages.go` | - | the stages of `failover.Manager`, placeholders that return nil; no entry point of the operator calls them | - |
| Automatic failover | `controller/failover/auto_failover*.go` | - | a loop that logs; nothing starts the one that would create Failover objects | - |
| Retry client | `dynamodb/retry_client.go` | attempt counter | retries single requests; `setup.go` does not use it | DynamoDB |
| Resource managers | `controller/deployments`, `statefulsets`, `cronjobs`, `ingresses`, `virtualservices`, `kustomizations`, `helmreleases`, `volumereplications` | the Kubernetes objects | scale, suspend, switch DNS, annotate, trigger Flux, process a list, poll until ready | API server and its cache, Flux, users; not called by the workflow yet |
| Workflow factory, injector, configuration, AWS clients, entry points, table set-up, API types | `workflow/factory.go`, `injector.go`, `internal/config`, `cmd`, `table_setup.go`, `api/v1alpha1` | none at run time | wiring | - |

What makes each of them hard, and what makes it correct:

* **Lock.** Read and conditional write are separate requests; expiry is compared
  across the clocks of different clusters, in whole seconds; answers get lost; a
  holder never looks at the time again. Correct: two callers never both hold a
  lease that no clock can regard as expired; a release removes only one's own
  lock.
* **Ownership.** Every call is three to nine requests. Correct: owner and roles
  switch together; no write of the CONFIG item is lost; no two primaries.
* **Workflow.** Two operators may process a Failover of the same group; the
  workflow takes the lock and then calls operations that take it too; it breaks
  locks. Correct: reported success means that the target did own the group; no
  workflow removes somebody else's lock.
* **Failover controller.** A lagging cache, resourceVersion conflicts, writes of
  copies, retries, crashes, deletion in the middle of a workflow. Correct: a
  recorded outcome is true and stays; a deleted object goes away.
* **Group controller.** Two goroutines per cluster, a 30 s cache, heartbeats that
  read and put back, deletion in many requests. Correct: when things calm down,
  every cluster publishes the owner as active and the recorded roles agree; a
  deleted group goes away.
* **Resource managers.** Every update writes back a whole object that was read
  before, some of them from a cache; polls of several objects run in goroutines
  that report into one channel. Correct: what a call has set is not lost to
  another call, the verdict of a wait accounts for every object, every call returns.

The hazards of the code, each at its line, are in `PROJECT.json`.

## 2. Modules

| module | models |
|---|---|
| `Lease` | abstract: what the LOCK item promises to its callers |
| `Lease_proof` | theorem: a lease is exclusive |
| `GroupLock` | AcquireLock, IsLocked, ReleaseLock, DeleteLock request by request; implements `Lease` |
| `GroupLock_proof` | theorems about `GroupLock`, among them the refinement |
| `GroupLockMC` | instance for TLC |
| `Ownership` | abstract: owner and roles change in one step |
| `GroupStore` | the items of a group and the operations of OperationsManager, request by request; implements `Ownership` and uses `Lease` |
| `GroupStore_proof` | theorems about `GroupStore` with all its operations: types, lock |
| `GroupStoreOwnership_proof` | theorems about versions, owner and roles; the refinement of `Ownership` |
| `GroupStoreMC` | instance for TLC |
| `FailoverWorkflow` | ProcessFailover and its tasks; extends `GroupStore`, whose operations are its subroutines |
| `FailoverWorkflow_proof` | theorems about `FailoverWorkflow` |
| `FailoverWorkflowMC` | instance for TLC |
| `FailoverReconcile` | the life of one Failover object |
| `FailoverReconcile_proof` | theorems about `FailoverReconcile` |
| `Workloads` | the eight resource managers, over objects that others change too |
| `Workloads_proof` | theorems about `Workloads` |
| `WorkloadsMC` | instance for TLC |
| `GroupController` | one FailoverGroup in all clusters: reconcile, synchronisation, cache, deletion |
| `GroupControllerMC` | instances for TLC |


How they relate: `GroupLock` is the protocol of the lock in full, clocks
included. Everything above uses the lock through the far smaller `Lease`: in
`GroupStore` the variables `current`, `held` and `over` are those of `Lease`, and
`ImplementsLease` checks that its operations take part in that protocol only as
`Lease` allows. `FailoverWorkflow` runs the calls of `GroupStore` inside a
workflow, which holds a lock of its own (`WorkflowLease` again maps to `Lease`,
with two callers per workflow). `FailoverReconcile` sees a workflow only as
something that succeeds or fails. `Workloads` stands alone, as the code does: the
workflow's tasks for workloads are placeholders.

### GroupLock

A caller is a goroutine in some cluster; `pc` says which request of AcquireLock
or ReleaseLock it issues next. `AcquireLock` generates the token, `IsLockedNo` /
`IsLockedYes` is the plain read, which may return the value before the last write
(`previous`), `TakeTime` reads the caller's clock, and `PutApplied`,
`PutAnswerLost`, `PutRefused` are the outcomes of the conditional PutItem. The
true time is `now`; the clock of a caller's cluster is ahead by `Skew`. A lease
is *good* while `now + MaxSkew <= expiresAt`, i.e. no clock can see it as
expired. RFC 3339 strings in UTC compare as the numbers of seconds they denote.

### GroupStore

`config`, `rows` and `history` are the items; `call[p]` holds the arguments of
p's call and what it has read. The steps of a call are named for the requests:
`CheckLock`, `CheckSuspended`, `CheckHealth`, `ReadSource`, `AcquireLock`,
`ReadVersion`, `Transaction`, `RecordHistory`, `ReadLastFailover`,
`PutLastFailover`, `ReleaseLock`. GetGroupConfig is not a pure read: it creates
the item, with the caller's cluster as owner, when there is none. `CallFails`
stands for any refused or lost request and any early return, `AnswerLost` for a
request that is applied while its answer is lost, `Crash` for the death of the
operator, `Expire` for the end of a lease.

### FailoverWorkflow

`stage[p]` is the task that p's workflow is in. The tasks between AcquireLock and
UpdateGlobalState are placeholders in the source: they log and change nothing,
so they are only time in which others move. `CallStep`, `CallSucceeds` and
`CallErrs` run ExecuteFailover or TransferOwnership by the steps of `GroupStore`;
`Refused` is their early return because of a lock, from which the workflow either
fails (`RefusedByLock`) or breaks the lock and transfers the ownership
(`BreakLock`, `ReleaseToBreak`, `CallTransferOwnership`).

### FailoverReconcile

`stored` is the object in the API server, `cache` the informer's copy and `mem`
the copy in the reconciler's memory. Only whether a copy has the stored
resourceVersion matters, so that is a flag per copy. `Write` is every
Status().Update or Update: taken if the copy is up to date, refused otherwise,
possibly lost, possibly applied with its answer lost. `TaskWritesCopy` is
UpdateFailoverState, which writes a DeepCopy and so makes the reconciler's own
copy outdated.

### Workloads

The eight managers are a library without a caller, so the module has the most
general one: any goroutine makes any call (`Begin`) with any value and any list of
names. An object is its *mode* (what the call turns on and off: replicas,
`suspend`, the DNS annotation, `replicationState`), its Flux annotation and its
status. What each method does to the copy it has read is an operator of its own
(`DeploymentScale`, `UpdateIngress`, `KustomizationForce`, ...), and so is what its
queries and waits ask (`DeploymentReady`, `HelmReleaseReconciled`, ...); the
steps are common to all: `Get` reads and edits the copy, `NothingToDo` returns
early, `Update` writes the whole copy if its resourceVersion is current,
`GetFails` and `UpdateFails` are errors and conflicts, after which a Process call
goes on with the next name. `Poll` and `Timeout` are the two ends of a poll.

Reads of the four typed kinds (Deployment, StatefulSet, CronJob, Ingress) come from
the informers' cache of the manager's client, which `Deliver` brings up to date;
unstructured ones come from the API server. `FluxApplies` restores the mode in Git
on an object whose annotation does not disable it (in the three kinds where it can,
`HeedsDisabled`), `UserEdits` changes anything, `StatusMoves` is a Kubernetes
controller, whose status may lag behind the specification for any time. `ack` remembers what calls that returned
without an error have set, `seen` what a poll has found.

### GroupController

One group, its FailoverGroup object in every cluster, and the goroutines that work
on it: `<<c, "reconcile">>` is the controller's worker of cluster c and
`<<c, "sync">>` its periodic synchronisation. `pc` names the next request,
`local` what the goroutine has read. The CONFIG item is reduced to its owner, a
CLUSTER# item to its state and whether its heartbeat is older than 5 minutes
(`old`), the object to the active cluster that its status shows, its finalizer and
its deletion. `cache[c]` is the CONFIG entry of c's DynamoDBService; a miss is two
steps (`CacheMiss`, `CacheFill`), so an answer can be put in the cache late.
A resourceVersion is the flag `fresh` of a copy, the version of a CONFIG item that
RemoveVolumeState has read is `version` ("any": the item was deleted and created
again, so the numbers may agree by chance). handleDeletion is one action per
request, in the order of the code, with both answers of each request.

The environment switches the owner over (`SwitchOver`, with the effect that
`GroupStore` shows ExecuteFailover to have), deletes an object, lets caches expire
and heartbeats age, and crashes operators.


## 3. Runs

| run | question | bounds |
|---|---|---|
| `GroupLock` | does the protocol exclude two holders, and implement `Lease`? | 2 callers whose clocks differ by 1 s, leases of 3 s, 6 s, 3 calls |
| `GroupStore` | do concurrent ExecuteFailover and ExecuteFailback calls implement `Ownership` and lose no write? | 3 clusters, 2 operators, 2 calls, all initial groups |
| `GroupStore_all` | with all operations: are locks only taken and given up as `Lease` allows? | 2 clusters, 2 operators, 2 calls |
| `FailoverWorkflow` | does success mean that the target owned the group; is no foreign lock removed? | 2 clusters, 2 workflows, both modes, forced or not, 6 calls |
| `FailoverReconcile` | is a recorded outcome true and final, has the status of the whole its reason and is it final too; does a deleted object go away? | 3 groups, one of them another operator's, 3 faults |
| `Workloads` | is what a call has set lost to another call; does the verdict of a wait account for every object; does every call return? | all 8 kinds, 2 objects, 2 goroutines, 2 calls, 1 change by others |
| `GroupController` | may a cluster promote itself? | 2 clusters, 3 goroutines, 1 fault, deletion of one, 1 sync pass during it |
| `GroupController_converge` | do all views and roles agree in the end? | 2 clusters, 2 goroutines, 1 switch-over, 1 fault, deletion of one |
| `GroupController_deletion` | does a deletion complete, and does its CLUSTER# item go for good? | 2 clusters, 3 goroutines, no fault |
| `GroupStore_suspend` | violation: suspending a group may change its owner | 2 clusters, 2 calls |
| `FailoverWorkflow_blocked` | violation: a workflow is refused because of its own lock | 1 workflow |
| `FailoverReconcile_retry` | violation: a failed workflow is run again | 1 group, no fault |

Why the bounds are enough. The lock: a take-over needs a holder and a taker, and
a third token so that a late release meets a lease it does not own; 6 s let a
lease of 3 s expire, be taken over and expire again, and the theorems cover all
other values. The store: a conflict is between two calls, each of which reads,
is overtaken and writes; with three clusters the two can have different targets
and a common source. The version counts writes, and two calls make at most six.
The workflow: two workflows meet in every combination of modes; each needs at
most three calls, for its own lock, ExecuteFailover and TransferOwnership. The
reconciler: one foreign group between two own ones exercises all of the loop,
and after three faults there is none in the code that a further one would reach
differently, as the reconciler keeps nothing between two attempts. The resource
managers: a lost update needs two calls on one object, a wait that misses one
needs two objects, and one change by others may fall between any two steps; one
goroutine makes every call and the other works on the annotation, so that the two
write different fields. The theorems cover all other numbers.

Deadlock is not checked: the runs end when their bounds are used up, and the
system itself stops when there is nothing to do.

Fairness of `FailoverReconcile`: weak fairness of the controller
(the work queue calls Reconcile again until it returns no error) and of the
cache (a watch delivers every change in the end). No fairness is assumed of
the user, of faults or of expiring leases; `DeletionCompletes` holds with at most
`MaxFaults` failing requests.

`Workloads` has weak fairness for requests (each is answered, with an error if need
be, since the client's contexts end) and for time-outs (every poll has one, and
time passes). Nothing is assumed of Flux, users, controllers or the cache, so
`CallsReturn` holds for objects that never get ready.

`GroupController` has weak fairness for the steps of each goroutine (Reconcile is
requeued after 30 seconds or an error, the ticker runs for ever), for the expiry
of cache entries and for the ageing of the heartbeat of a cluster that is gone.
Switch-overs and faults are bounded, so a liveness property says what happens when
they are over. Passes of the synchronisation that *begin* during a deletion are
bounded by `MaxTicks`: an update that is refused is retried by the work queue
within milliseconds, and the next tick is 30 seconds away. In
`GroupController_deletion` the bound is 0; the pass that is under way when the
deletion begins still runs to its end and gets in the way, which is the case that
matters. A fault is a failing request, a crash, a creation of the CONFIG item that
loses a race, or 5 minutes without a heartbeat of a living cluster; one of them
anywhere is enough to reach every error path of the code.

## 4. Proofs

| theorem | says |
|---|---|
| `LeaseExclusive` | every behaviour of `Lease` keeps `Exclusive` |
| `LockInvariant` | `GroupLock` keeps the inductive invariant `IInv` |
| `TypeCorrect` | `GroupLock` keeps `TypeOK` |
| `MutualExclusion` | `GroupLock` keeps `ExclusiveLease` |
| `ReleasesAreOwn` | its steps satisfy `ReleaseRemovesOwn` |
| `LockRefinement` | `GroupLock` implements `Lease` |
| `StoreInvariant`, `StoreTypeCorrect` | `GroupStore`, with any operations, keeps its inductive invariant and types |
| `PreviousIsAnother` | the previous owner in the CONFIG item is never the owner |
| `StoreLease` | it uses the lock as `Lease` allows (`ImplementsLease`) |
| `OperationsExclude` | of two calls that both hold the lock, one holds a lease that is over |
| `VersionsCount` | its steps satisfy `VersionCounts`, without transfers and deletion of the group |
| `SnapshotsCurrent` | under the same condition, a snapshot with the stored version is the stored item |
| `OwnershipRefinement` | ExecuteFailover and ExecuteFailback implement `Ownership` |
| `OwnerIsPrimary` | they keep `OnePrimary`, also when clusters are removed |
| `WorkflowInvariant`, `WorkflowTypeCorrect` | `FailoverWorkflow` keeps its inductive invariant and types |
| `SuccessIsOwned` | it keeps `SuccessMeansOwner` |
| `WorkflowLeases` | its workflows and calls use the lock as `Lease` allows (`WorkflowLease`) |
| `WorkflowsExclude` | of the locks they hold at most one is not over |
| `GroupInvariant`, `GroupTypeCorrect` | `GroupController` keeps its inductive invariant and types |
| `NoSelfPromotion` | its steps satisfy `SelfPromotion` |
| `ReconcileInvariant`, `ReconcileTypeCorrect` | `FailoverReconcile` keeps its inductive invariant and types |
| `RecordsAreTrue` | it keeps `RecordedMeansWon` |
| `StatusHasReason` | it keeps `OverallHasReason` |
| `OutcomesStay` | its steps satisfy `OutcomeStays` |
| `OverallStaysFinal` | its steps satisfy `OverallStays` |
| `WorkInvariant`, `WorkTypeCorrect` | `Workloads` keeps its inductive invariant and types |
| `NoLostUpdate` | it keeps `AcknowledgedStays` |
| `WaitsAreTrue` | it keeps `WaitVerdict` |

Those of the lock hold for any set of callers, any lease time, any skews of at
most `MaxSkew` and any bounds; the assumptions are `GroupLockAssumption` (types of the
constants, `|Skew[c]| <= MaxSkew`, `NoLock` is no item) and, for `Lease`, that
`NoToken` is no token. Those of `FailoverReconcile` hold for any number of groups,
whichever of them are this operator's, and any number of faults; those of
`Workloads` for any goroutines, objects, kinds, calls and bounds
(`WorkloadsAssumption`: the types of the constants, and that `NoCopy` is no object).
Those of `GroupStore`, `FailoverWorkflow` and `GroupController` hold for any clusters,
any number of operators and goroutines in them, any modes and any bounds; what
is assumed of the constants is that they are of their types and that `NoCluster`,
`NoConfig`, `NoRow` and `NoJob` stand for nothing of the kind they are the absence of.

*Why an inductive invariant.* `ExclusiveLease` alone does not survive a step: a
caller about to write could hold any time stamp, and the item could carry any
token. `IInv` adds four facts. `TokensFresh`: tokens are not shared, and the token
of a pending AcquireLock was never written. `LockGranted`: the item is the last
lease granted, with the expiry it was granted with. `StampBounded`: a time stamp
that was taken is at most `now + MaxSkew`, and stays so because time only grows.
`LeaseBacked`: a good lease is the one in the item. The heart of the proof is the
last conjunct under a write (`PutStep`): the condition of the PutItem says that
the old item's expiry is before the caller's stamp, so before `now + MaxSkew`; if
another caller's lease were good, it would be that item, and its expiry would not
be before `now + MaxSkew`. Two good leases are then both the one in the item,
hence the same token, hence the same caller.

*Refinement.* The mapping sends `over` to the tokens that were revoked or whose
expiry is before `now + MaxSkew`. A write that is applied is `Grant` (`PutGrants`),
whether or not the caller learns of it; everything that sends a caller to idle is
`GiveUp` or a stutter (`ReturnGivesUp`); `Tick` is `Expire`; `DeleteLock` is
`TearDown`.

*Operations and lock.* A call of `GroupStore` writes what it was given and what it has
read, so that the types alone are not inductive. `StoreInv` adds what a call knows at
each of its requests (`ArgsKnown`: target and source are clusters and differ, the
snapshot is an item that was in the table), that the token of a call that has not
written its lock yet was never granted and that a call holds its lock exactly while it
is in its critical section (`TokenFresh`), and that no two calls have the same token.
From these each request is a `Grant`, a `GiveUp`, an `Expire`, a `TearDown` or a
stutter of `Lease` (`NextLease`, one case per operation). `OperationsExclude` is then the
theorem `LeaseExclusive`, instantiated by that refinement.

*Versions, owner and roles.* `VersionsCount` and `SnapshotsCurrent` assume that `Ops`
has neither "transfer" nor "delete" (`Counted`): the second update of TransferOwnership
has no condition, and an item that was deleted and created again starts from version 2.
The refinement and `OnePrimary` rest on `SnapCurrent`: PutLastFailover puts a whole item
back, its owner included, and that is harmless only because an item with the version it
has read is the item it has read. Here "suspend" is excluded too, since
UpdateSuspension, which increments the version twice, does write an old owner back
(`GroupStore_suspend` shows it), and for the refinement the direct updates of CLUSTER#
items; `OwnerIsPrimary` admits their removal. The runs use these same sets of
operations, so the hypotheses say where the code stops guaranteeing it, and the other
theorems about the module have none. Locks are not needed: owner and roles stay
together by the condition of the transaction alone.

*Workflows.* The steps of a call inside a workflow are those of `GroupStore`, so
`WorkflowInv` contains `StoreInv` and its proof cites the lemmas behind
`StoreInvariant`. `JobInv` ties the call to its workflow: the call is for the workflow's
target, a workflow has `committed` only when its transaction has gone through, and at
that moment `Observe` has seen the target as the owner. The lease refinement has two
callers per workflow. CallExecuteFailover's own token and that of AcquireLockTask are
different callers of `Lease`, and breaking a lock is `GiveUp` of the workflow's own
token or nothing; `WorkflowsExclude` says, of any number of workflows, what
`FailoverWorkflow_blocked` runs into with one.

*Self-promotion.* `GroupInv` says where an owner that a pass has in its hands comes
from. What the table or a cache names has owned the group (`OwnerKnown`,
`CacheKnown`, also while an answer is on its way to the cache); what a pass keeps for
want of an answer is the active cluster of the object it has read, unless the object
was written since (`Known`), and then the API server refuses its write.

*The life of a Failover.* What is stored comes from Reconcile's memory, and that from
the cache, so `ReconcileInv` asks of all three copies that what they record has
happened (`Records`), and of the steps that will record an outcome that the
workflow did end so (`Positions`). `OutcomeStays` needs more: `OutcomeInv` adds that
a copy that is up to date has the stored outcomes (`Fresh`), that the status of the
whole tells whether any group has one (`StatusTells`), by which Reconcile decides to
begin at all, and that the groups from the one it is at are then undecided
(`Undecided`). A write from an outdated copy is refused, so no step replaces an
outcome by what a lagging cache still showed. For `OverallStays`, `OverallInv` says of
the status of the whole what `Fresh` cannot: a copy that is up to date may be ahead of
what is stored, since a write that was lost has changed it, but it never falls behind
(`Follows`), and a Reconcile that is still to write SUCCESS has not failed (`AtWork`).

*The resource managers.* An update writes every field of a copy, also those that its
call does not touch. `WorkInv` therefore says that a copy that is up to date has the
object's values in the fields outside its `fields` (`CopyWell`), that what the cache
returns as current is the object (`CacheCurrent`), and that an acknowledged value is
the object's (`AckHolds`, in terms of the field, where `AcknowledgedStays` asks the
manager's query). That every edit of every manager has this form is the lemma
`EditProper`, one case per kind. For the waits, `WaitWell` says that each name is
still to be polled, late or seen, from which the verdict follows. `WaitVerdict` is about
the book-keeping of lists and goroutines. What a single check is worth (`Arrived`) is
the manager's own business in the model as in the code, and section 5 lists where that
is less than the documentation says.

*Model-checked only:* the liveness properties `CallsReturn`, `DeletionCompletes`,
`RolesConverge`, `GroupDeletionCompletes` and `ZombiesRemoved`, because the prover has no
rules for fairness and ENABLED, and the three runs that show a violation. Every
invariant, action property and refinement that a passing run checks is also a
theorem. Statements about what a recursive definition computes would stay with TLC as
well; no module needs one.

## 5. Where the code differs from its documentation

Shown by the runs that end in a violation:

* `GroupStore_suspend`. UpdateSuspension increments the version
  (`operations_manager.go:523`) and UpdateGroupConfig does so again before it
  compares (`state_manager.go:286`, `:341`). Alone the call is always refused; it
  is accepted when exactly one other write came in between, which it undoes.
* `FailoverWorkflow_blocked`. In UPTIME mode ExecuteFailover is refused because of
  the lock that AcquireLockTask took for the same workflow
  (`tasks_completion.go:122`, `operations_manager.go:472`).
* `FailoverReconcile_retry`. The failure of a workflow is not recorded, because
  the tasks' write of a DeepCopy made the reconciler's object outdated
  (`tasks.go:123`); the queue then runs the workflow again, against
  `failover_controller.go:107`. Without faults the object stays IN_PROGRESS.

Seen while modelling, present in the modules, without a run of their own:

* The whole becomes SUCCESS with the first group (`adapter.go:150`), although the
  comment at `failover_controller.go:246` says all groups. `OverallHasReason` is what
  the code does guarantee.
* UpdateIngress and UpdateVirtualService put the Flux annotation into their copy but
  write it only if the DNS annotation changes (`UpdateIngress`).
* ScaleDeployment decides from the informers' cache that the replicas are right
  already and returns no error (`NothingToDo`; `ack` leaves this case out).
* IsReady of StatefulSets compares the numbers of the status with each other and not
  with the replicas that were asked for (`statefulsets/manager.go:125`,
  `StatefulSetReady`): 0 of 0 right after ScaleUp and 1 of 1 out of 3 are ready, and the
  waits return. The comments say "when all of its desired replicas are ready" (`:106`)
  and "to have all replicas ready" (`:256`), for failovers to be "fully scaled before
  proceeding" (`:257`).
* "Scaled down" is the specification only: IsScaledDown looks at `spec.replicas`
  (`deployments/manager.go:153`, `statefulsets/manager.go:147`), so the wait of
  WaitForAllDeploymentsState returns while every pod is still running. The repository's
  `README.md:325-333` and `ARCHITECTURE.md:300-320` say that all four replica counts of
  the status must be 0, to prevent data loss (`DeploymentScaledDown`).
* The waits for VolumeReplications read `spec.replicationState`, which the operator has
  written itself (`volumereplications/manager.go:115`), where the repository's
  `README.md:335-341` and `ARCHITECTURE.md:323-346` compare `status.state`
  (`VolumeReplicationState`).
* The managers of Ingresses, VirtualServices, Kustomizations and HelmReleases write
  "disabled" to `reconcile.fluxcd.io/requestedAt`, which requests a reconciliation and
  stops none (`ingresses/manager.go:18` and others, `HeedsDisabled`).
* TriggerReconciliation writes the annotation that AddFluxAnnotation sets to
  "disabled": after a trigger the object is not marked any more (`KustomizationTrigger`).
* The transaction that switches the owner does not look at the lock
  (`operations_manager.go:122`): after its lease ran out a call still switches.
  The version check keeps this safe, as `GroupStore` shows.
* TransferOwnership has the double increment too (`:730`): its first update is
  always refused without another writer, and the one without a condition
  (`ForceTransfer`) runs instead. It overwrites a switch-over that came in between,
  which no property forbids (`VersionCounts` is checked without transfers).
* Two workflows of which one has broken the other's lock may both transfer the
  ownership and both report success (`tasks_completion.go:154`). `SuccessMeansOwner`
  says only that each target owned the group at some moment of its workflow.
* A switch-over whose second write of recordFailoverEvent is refused is in the history
  and not in lastFailover (`operations_manager.go:853`); `Ownership` does not have the
  history.
* Two events of the same second share a history key (`PutHistory`).
* A workflow that fails after AcquireLock leaves the lock until it expires
  (`Finish` of `FailoverWorkflow`, `engine.go:142`).
* UpdateGlobalState writes roles apart from the ownership
  (`tasks_completion.go:104`): until the next heartbeats two clusters may be
  recorded PRIMARY, so `OnePrimary` is checked of `GroupStore` and does not hold
  of `FailoverWorkflow`.
* handleDeletion of a Failover passes the arguments of ReleaseLock in the wrong
  places (`failover_controller.go:303`) and releases nothing.
* A cluster whose own CLUSTER# item is missing takes the only other cluster's item
  for its own in handleDeletion (`controller.go:260`) and tears the group down
  (`Decide`). It is missing when the object is deleted before the
  first heartbeat, and when a refused finalizer update repeats the deletion.
* RemoveVolumeState (`controller.go:405`) calls GetGroupConfig, which creates the
  CONFIG item again that the tear-down has just deleted (`ReadVolumeState`).
* An owner that is deleted does not hand the group over when its cached CONFIG
  names another owner (`DecideCached`): the CONFIG item then names a cluster that is
  gone until somebody fails over.
* A cluster that has no active cluster in its status and gets no answer takes
  itself for the active one (`GetGroupConfigFails`), and the heartbeat of a cluster
  without an item registers it as PRIMARY (`ReadRow`); the next pass repairs both.


## 6. External parts and assumptions

DynamoDB applies one request at a time, evaluates a condition and the write as
one step, and applies a transaction as a whole; plain reads may be stale (in
`GroupLock`; elsewhere a stale read is one that was made earlier). The API server
refuses a write with an outdated resourceVersion. Anything may fail or lose its
answer. The modules take the expressions of the requests by what they say; whether
the service accepts their syntax is outside. A Kubernetes clock differs
from the true time by at most `MaxSkew`; nothing in the code enforces that.

Not modelled, and why:

* `failover.Manager` and its stages: nothing outside tests calls it, `setup.go` wires
  the workflow engine instead; its stages are placeholders that return nil, and
  `failover_stages.go` describes stages.
* Automatic failover: the loop that is started only logs, and
  CheckAutomaticFailoverTriggers is called only by StartAutomaticFailoverChecker,
  which nothing calls.
* The retry client: the services are given a plain client. A repeated request would
  be a lost answer and another request, and the modules have both.
* The caches of CLUSTER# items and of the group state: no decision of the operator is
  taken from their answers. The CONFIG cache is part of `GroupController`.
* The workflow factory and injector, configuration, AWS clients, entry points and
  table set-up: wiring, without state at run time.

Of modelled components, wording, logging, metrics, conditions and events are left
out, and so are the read-only queries.

## 7. Plan

1. Done: `Lease`, `GroupLock`, `Ownership`, `GroupStore`, `FailoverWorkflow`,
   `FailoverReconcile`, `GroupController`, `Workloads`, and the proof of every safety property and
   refinement that the runs check.
2. Proofs: that the recorded roles of `FailoverWorkflow` and of `GroupController` belong
   to clusters that owned the group; what part of `Ownership` survives when operators
   suspend a group or transfer it while others fail over.
3. Refine `GroupController`: three clusters and a second group in the table for the
   unfiltered scan. Two deletions at the same time are in the module (`Deletable`),
   but with them the liveness runs exceed four million states; a reduction of the
   local variables would have to come first.
4. When the workflow's tasks call the resource managers: compose `FailoverWorkflow`
   with `Workloads`.
5. Two operators on one Failover object (`FailoverReconcile` with a set of
   operators).
