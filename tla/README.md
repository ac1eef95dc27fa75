# A TLA+ model of the Snowflake resource pool operator

The operator shares a small pool of Snowflake test accounts between CI
pipelines. A pipeline creates a `ResourceClaim`; the operator finds a free
account, locks it with a Kubernetes Lease, creates credentials, and writes them
into the claim's status. When the claim is deleted or its time is over, the
account is reset and the lease released.

Paths below are relative to the repository's `src/`; the modules stand beside
this file.

## Inventory

| Component | State | Operations | Modelled by |
|---|---|---|---|
| Lease manager, `internal/lease/manager.go` | the `coordination.k8s.io` leases: holder, acquireTime, duration, labels | InitializeLeasesForProvider, FindFreeLease, AcquireLease, ReleaseLease, ReleaseAllLeases | `LeaseManager`, abstractly `LeaseLock`; names, labels and durations in `Inventory` |
| ResourceClaim controller, `internal/controller` | the claims: finalizer, phase, leaseName, expiresAt; the call in progress | Reconcile, acquireLease, handleDeletion | `ResourceClaimController` |
| Operator process, `cmd/main.go` | how far main has come; leadership | creation of leases, startup cleanup, start, election, crash | `Operator` |
| Snowflake provider, `internal/provider/snowflake/{provider,client}.go` | the app user's key in each account, one Secret per claim, what users left in an account | AcquireResource, ReleaseResource, CleanupAllClaims, Initialize | `SnowflakeProvider`, composed in `Pool` and `Deployment`; Initialize in `Inventory` |
| Registry, `internal/provider/{interface,registry}.go` | providers and resources, fixed after startup | SetResources, Get, GetResource | `Inventory`; elsewhere the constant `Configured` and the field `known` |
| Configuration, `internal/provider/snowflake/config.go` | accounts, their labels | validation, MatchesLabels | `Inventory` |
| API types, `api/v1alpha1` | - | - | `ClaimRecord` |
| Cryptography, generated code, manifests, tests | - | - | not modelled |

How they interact: the reconciler calls the lease manager and the provider's
hooks; it reads through the informer caches of controller-runtime, which may be
late, and writes to the API server, which refuses an update whose
resourceVersion is not the current one. Watches and timers put claims back into
the reconciler's queue. A new process reads its configuration, creates the
leases that are missing and runs the startup cleanup before it takes part in
leader election.

What is hard: a Reconcile call takes seconds (SQL in between) and works on a
copy of its claim all that time; each of its writes may fail, or be stored with
the reply lost; caches may show it a past state; claims are deleted, edited and
created again meanwhile, and leases deleted; leases and claims expire on clocks
of their own; the process may stop between any two calls, and a rolling update
has two of them; the configuration changes while claims are bound to accounts
of the old one.

What makes each part correct:

- lease manager: a lease never goes from one claim whose time is not over to
  another (`ImplementsLock`);
- all of it, to users: one account for one claim, one that suits it
  (`ImplementsAssignment`);
- controller: Bound means holding the lease and having the account's key
  (`LedPoolIsConsistent`, `LedClaimHasKey`, `BindOwnsLease`), no lease is lost
  (`LedPoolIsConsistent`), a deletion is not overtaken by the provisioning it
  interrupts (`DeletingNeverBinds`), the finalizer guards the lease
  (`LeaseNameHasFinalizer`, `RemovedReleased`), everyone is served or removed
  (the liveness properties);
- operator: a restart starts from a clean pool (`CleanStart`,
  `StartRevokesKeys`) and with every lease (`EveryAccountHasLease`);
- provider: a key that opens an account is with the claim the account is bound
  to (`LedClaimHasKey`), an account is clean when it is free (`FreeIsClean`);
- inventory: an account goes to one claim (`AccountGrantedOnce`), with the labels
  that claim asked for (`GrantedAsRequired`), for no longer than it asked for
  (`LeaseNotTooLong`), and is the one that is cleaned up afterwards
  (`ConfiguredAreClean`, `NothingLeftOpen`). Most of this depends on what
  administrators write into the configuration and when, see Proofs.

The hazards behind these are listed, line by line, in `PROJECT.json`.

## Modules

    LeaseLock                 abstract: locks taken and left
      ^ implemented by
    LeaseManager              leases, caches of leases, clock
      ^ extended by
    ResourceClaimController   claims, caches, queue, the Reconcile call
      | implements            (Assignment, abstract: who is bound to what)
      ^ extended by                   ^ extended by
    Operator                        Pool  -- INSTANCE --> SnowflakeProvider
    startup, election, crashes      the hooks, statement by statement
      ^ extended by                   ^ extended by
      +------------ Deployment -------+
      the whole operator, CleanupAllClaims statement by statement

    Inventory                 by itself: configuration, names, labels, durations

`Assignment` is what is left when everything but status.phase and
status.leaseName is forgotten; the controller implements it where the pool is
calm (see Proofs), and so does the whole operator, startups included.

`MC*` modules hold the constants of the instances; `*Proofs` the proofs.

### LeaseManager

`lease[l]` says whether the lease `exists`, its holder and `ttl`, the ticks until
`time.Now()` is after acquireTime + duration. `isLeaseFree` is "no holder, or ttl
0". A resourceVersion is only ever compared for equality, so the model keeps,
instead of versions, the set `leaseBehind[p]` of leases whose copy in the cache
of process `p` is outdated; an update by `p` is refused while the lease is in it.
`listed[p]` are the leases that ReleaseAllLeases listed as held and has still to
update; a lease that changes drops out of it, since its update would be refused
(which is only logged). FindFreeLease returns the first match of a list without
an order, so it is the set of all matches. `CreateLease` leaves a lease that is
there as it is; `DeleteLease` is an administrator's.

### ResourceClaimController

`worker[p]` is the one Reconcile call of process `p` (MaxConcurrentReconciles is
1): the write it is about to make (`at`), its claim and lease, whether its copy
of the claim still has the current resourceVersion (`fresh`) and whether it will
ask for a requeue (`retry`). Reading the cache belongs to the step that uses what
was read; each write to the API server is a step:

    Reconcile          ReconcileIgnored, ReconcileUnknownType, AddFinalizer,
                       BoundExpired, BoundWaits, then acquireLease/handleDeletion
    acquireLease       NoLeaseFree, FoundUnconfigured, or FoundLease ->
                       AcquireForClaim -> AcquireResource -> BindClaim, with
                       AcquireFailed, ProvisionFailed, DetailsFailed, UndoLease
    handleDeletion     BeginDeletion -> ReleaseResource -> ReleaseHeldLease ->
                       RemoveFinalizer

A write has an outcome of two parts: what the caller sees and what the server
stored (`Outcome`). `Hazards` switches the environment's faults on: late caches,
time, failing writes, lost replies, failing hooks, edits, recreation, deleted
leases. `status.message` is part of the phase where it matters: a changed message
changes the object, and with it the resourceVersion.

### Operator

`stage[p]` follows main: the loop that creates leases (`uncreated`, lease by
lease, so that a crash or an error leaves some of them), the two halves of
runStartupCleanup, waiting for the election, leading. The cleanup works on copies
listed without a cache, so it conflicts with whatever changes a lease or a claim
meanwhile (`listed`, `resetting`; users do so when Hazards has "overtake").
`Stop` loses all that is in memory. With "leaseDeleted", leases are deleted while
a process leads (`AdminStep`).

### SnowflakeProvider, Pool and Deployment

A new key pair is generated for every acquisition, so a key is who has its
private half: the hook that made it, the Secret of a claim, or nobody (`Lost`).
`Pool` runs the statements of a hook between the steps of the reconciler; its
last statement is the step `AcquireResource` or `ReleaseResource` of the
controller. ProviderFaults lets statements fail, before or after they took
effect. Both slots of the key and the roles follow `keyAt`; the statements of
client.go are what they do to it.

`Deployment` puts both halves together: the leader of `Operator` runs the hooks
of `Pool`, a stop cuts a hook short anywhere (`Abandon`: a key that was only in
memory is lost), and CleanupAllClaims goes account by account and then Secret by
Secret (`toClean`) where `Operator` has one step. A turn of the loop over the
accounts cleans an account, or skips it (no admin Secret, no connection), or has
a statement of ClearPublicKeys fail, before or after it took effect; both errors
are only logged, and `logged[p]` keeps for which accounts. Only the Secrets of
claims in the operator's own namespace (`Local`) are listed, as in the code.

### Inventory

The ConfigMap, the resources main read from it, and the leases with their labels
and names. A name is a sequence of parts, since handleDeletion cuts it out of
a lease's name by length. A claim acquires and releases in one step here. Accounts
may have the same name, lack a field, or carry labels over the managed ones
(`maps.Copy`). What tells the Snowflake accounts themselves apart is their `url`:
a name may go from one to another when the configuration is edited. All searches
by name, GetResource of the registry and those of the hooks, return the first
account of the name in the configuration the process has read (`FirstNamed`), be
it the one that the lease was made from or not; `opened` is the set of accounts
whose app user has a key. Two history variables, which no action reads, let the
properties say for which past they hold: `read` is the one configuration that all
processes so far have read, `since` the one with which claims have been served
since the last startup cleanup; both are `Several` if there were different ones.
`StartupCleanup` says how RESOURCE_POOL_STARTUP_CLEANUP may be set. Durations
count half seconds and integers have a small width, so that
`int32(duration.Seconds())` both cuts off fractions and overflows; what Go
makes of a float64 that does not fit depends on the processor, so `Seconds` is
the set of both outcomes.

## Runs

| Run | Instance | Environment | Checks |
|---|---|---|---|
| LeaseManager | 2 processes, 2 claims, 2 leases | any calls, expiry, late caches, leases deleted and created | LeaseTypeOK, refinement of LeaseLock |
| ControllerHostile | 1 claim, 3 leases, one of a removed resource | every hazard but expiry at once | IInv, WorkerKnowsHolder, DeletingNeverBinds, BoundNeverRebinds, BindOwnsLease, RemovedReleased |
| ControllerLive | 2 claims, 2 leases of which one lacks a label they require | expiry, provider errors; fairness | BoundMatchesLabels, DeletionCompletes, ExpiredIsRemoved, WaitingIsServed |
| OperatorRestart | 1 process, 1 crash, 2 claims, 1 lease | expiry, deleted leases, claims changed under the startup; fairness | CleanStart, DeletionCompletes |
| OperatorRolling | 2 processes, 1 crash, 2 claims, 1 lease, cleanup on or off | API errors, claims changed under the startup | OperatorTypeOK, LeaseNameHasFinalizer, DeletingNeverBinds |
| Deployment | 1 process, 1 crash, 2 claims in 2 namespaces, 2 accounts | failing hooks and cleanups, recreation | DeploymentTypeOK, LedPoolIsConsistent, LedClaimHasKey, StartRevokesKeys, refinement of Assignment |
| Inventory | 2 claims, up to 3 accounts under 2 names, 7 configurations of which 3 are refused, 6 requests | edits of the configuration, restarts with and without cleanup, deleted leases | InventoryTypeOK, AccountGrantedOnce, ConfiguredAreClean, NothingLeftOpen, GrantedAsRequired, LeaseNotTooLong, EveryAccountHasLease |

The five other runs each end in a violation of what the repository says:

| Run | What happens |
|---|---|
| SharedAfterExpiry | The lease's time runs from AcquireLease, the claim's from the end of provisioning. Between the two ends another claim gets the lease of a claim that is Bound and not expired. |
| SharedAfterRetry | ReleaseLease does not check the holder. A retried deletion frees the lease that another claim acquired after the first try. |
| SharedInRollout | The startup cleanup is not covered by leader election; it frees leases under the old leader. |
| WrongSecret | A Reconcile on a cached copy from before the claim was Bound acquires a second account and overwrites the claim's Secret. Its status update conflicts and its lease goes back; the Secret stays. |
| DirtyAccount | A claim deleted during provisioning: neither the undo of acquireLease nor handleDeletion calls ReleaseResource. |

### Bounds, and why they are enough

- Two claims and one lease give every competition; a second lease is needed for
  a claim to move from one to another. Three claims add only another
  competitor. A configuration with one lease would make `BoundNeverRebinds`
  true by itself, so it is checked with several. ControllerHostile has one claim:
  the other claims are, to its worker, the leases that are taken or free, and
  what two claims do to each other is in the other runs. Expiry is left to those,
  since with one claim nobody takes an expired lease. The theorems on its
  properties have all hazards and any number of claims at once.
- `Duration` is one tick, two where a run needs a lease and its claim to end at
  different ticks (SharedAfterExpiry). A tick is any time; an expiry exactly at
  `time.Now()` counts as not expired in the code and falls into the tick before.
- One crash (`MaxCrashes`): the startup cleanup of the next process is the only
  code that deals with what a crash leaves; a second crash finds what a first one
  left, plus a partial cleanup, which OperatorRolling reaches with API errors.
  The proofs have no such bound. Leases are deleted only while a crash is left,
  as only a restart creates them again.
- The environment of Deployment is mild on purpose: with late caches, expiry,
  failing or lost writes, or claims changed under the startup, `BoundOwnsLease`,
  `NoOrphanLease` and `BoundHasKey` are false of the code, as the violating runs
  and the hazards say. OperatorRestart has writes that succeed, because a cleanup
  whose writes fail only logs it and leaves what it could not clean.
- In Inventory the configurations include none, an empty one, one that is
  incomplete, two accounts under one name with different labels, a name that goes
  to another account and an account that gets another name, a label over the
  managed type, and a name that is the beginning of another. Two claims
  compete for one account, and one stays bound over an edit. Requests include
  half a second, a negative duration, one beyond `MaxInt32` (3 in the run), and
  a type without a provider.

Symmetry is used only in runs without liveness, over leases or claims that
nothing tells apart: no labels, and no claims of different namespaces.

### Fairness

`Fairness` is what controller-runtime gives: watches deliver, a running call goes
on, a queued claim gets its turn (the workqueue is a FIFO; a claim may be taken
out of and put back into the queue for ever, hence strong fairness), timers fire
and time passes. One assumption is about the world: the provider's hook does not
fail for ever (strong fairness of AcquireResource going to `bind`). In Operator a
process that stopped is started again and elected when nobody leads (the
Deployment's controller and the lock of controller-runtime do that), and an
administrator who deleted a lease restarts the operator: nothing else in the code
creates it again, and without that the deletion of its claim is retried for ever.

## Proofs

For any processes, claims, leases and durations, any number of crashes, and any
`Hazards` unless a theorem names one:

- `LeaseManagerProofs`: types; a cache entry that is not marked outdated is the
  stored lease (`CacheCorrect`); the manager implements LeaseLock
  (`LockImplemented`): AcquireLease needs the re-check to pass on the cached
  copy and that copy to be current, so the stored lease is free.
- `ControllerProofs`: every step of the controller is a step of LeaseManager
  (`ControllerUsesManager`), which gives it the lock (`PoolIsLocked`) and the
  cache lemma. `IInv` is inductive: `LeaseNameHasFinalizer` by itself is not,
  since BindClaim writes the name from a copy read many steps earlier.
  `CopyIsUsable` carries what the call checked when it started along, for as
  long as no one else has changed the claim; `CachedClaimIsCurrent` and
  `CachedLeaseIsCurrent` say what the start could rely on. `DeletingNeverBinds`
  and `BoundNeverRebinds` follow from `CopyIsUsable` at BindClaim. The step
  lemmas sort all actions into three: those that leave the claims alone, those
  that write by a worker, those that write by someone else. `BoundMatchesLabels`
  needs one more invariant: from the moment a lease is found, the lease of the
  worker suits its claim (`WorkerSuits`), as the status is written many steps
  later.
- `SingleOperatorProofs` adds the assumption that there is one process
  (`OneOperator`): what a worker has acquired stays acquired and what it has
  released is not its own again (`WorkerKnowsHolder`), hence `BindOwnsLease` and
  `RemovedReleased`. With two processes both are false, which is
  SharedInRollout. In a calm environment (`Calm`, below) the pool is settled:
  `Settled` relates the worker, the claims and the leases. A claim that names a
  lease holds it, unless the worker has just released it and is about to remove
  the finalizer; a held lease is named by its holder or in the hands of the
  worker; what the worker has read of its claim's status is what is stored.
  Hence `BoundOwnsLease` and `NoOrphanLease` (`PoolConsistent`),
  `NoSharedLease`, and the refinement of `Assignment` (`AssignmentImplemented`):
  a step writes one claim at most (`Alone`), and whoever becomes Bound gets a
  lease that no Bound claim has, because each of those holds its own
  (`BindsAnother`).
- `PoolProofs`: a step of Pool is a step of the controller or leaves its
  variables alone (`PoolImplementsController`), so all theorems above hold of
  the pool, in which no time passes; and the types of the provider. With one
  process and in a calm environment the Secret of a Bound claim opens its
  account (`BoundKeepsKey`): a hook works on neither a Bound claim nor the lease
  of one (`HookAwayFromBound`), and a worker that is about to bind has left the
  key where it belongs (`KeysAt`). ProviderFaults may be anything.
- `OperatorProofs`: restarts and rolling updates. To the reconciler a step of
  Operator is a step of `Next`, a write of the startup to a lease or a claim,
  the filling of caches, or the loss of all of it (`OperatorSteps`); `IInv`, the
  lock, `LeaseNameHasFinalizer`, `DeletingNeverBinds`, `BoundNeverRebinds` and
  `BoundMatchesLabels` survive all five, with any number of processes that lead
  or start at once.
- `RestartProofs`: with one process at a time, `WorkerKnowsHolder`,
  `BindOwnsLease` and `RemovedReleased` across restarts, and `CleanStart` where
  nothing disturbs the startup (`Undisturbed`: the cleanup is on, writes do not
  fail outright, spec.type is not edited). The invariant goes by the stages of
  main: a lease that is held is `listed` from the List of ReleaseAllLeases on, a
  claim that names a lease is in `resetting` or was deleted from the List of the
  claims on, and at `standby` both are empty. Lost replies, late caches, expiry
  and claims that change meanwhile do not break it. In a `Quiet` environment a
  new leader's pool is therefore settled from its first step, and stays so:
  while a process leads `BoundOwnsLease` and `NoOrphanLease` hold
  (`OperatorConsistent`), and `Assignment` is implemented at all times, as only
  a leader binds.
- `DeploymentProofs`: a step of Deployment is a step of Operator or leaves its
  variables alone (`DeploymentImplementsOperator`), hence everything above; the
  types; and `StartRevokesKeys` (one process, cleanup on): at every stage an
  account that the cleanup is through with has no key or is in `logged`, and
  nobody sets one before a process leads. Failing hooks and a crash anywhere are
  allowed. `LedPoolIsConsistent`, `LedClaimHasKey` and the refinement of
  `Assignment` are proved for one process and a `Quiet` environment, with any
  `Local` claims and ProviderFaults.
- `InventoryProofs`: `InInv` is inductive for all configurations, names, labels,
  requests and widths of the integer, through edits, restarts and deletions:
  each lease has the labels of an account of its name from one of the
  configurations, each grant has a lease whose holder it is, and the loop of a
  startup has left no account behind it without a lease. From it follow, without
  conditions, the types, `LeaseNotTooLong` and `EveryAccountHasLease`. Which
  account a grant is for takes conditions that nothing in the code checks. Those
  on the accounts are hypotheses of the theorems: `LabelsKept` (no label replaces
  the name of the resource) and `WellNamed` (that, and no Snowflake account is
  configured under two names at once). Those on the past are in the properties:

  - `AccountGrantedOnce` and `ConfiguredAreClean`, if the accounts are `WellNamed`,
    hold while claims have been served with one configuration since the last
    cleanup, so at all times if every startup with another one cleans up. The
    invariant is `SinceHeld`: every granted account is the one that a search by
    its name finds, and of the accounts searched only the granted ones have a
    key. A new grant of an account somebody has would have the same name and
    therefore the same lease, which is held; handleDeletion cuts the name out of
    the lease's (`CutIsName`) and so finds what was provisioned.
  - `NothingLeftOpen`, if the accounts are `WellNamed`, holds while only one
    configuration has ever been read (`ReadHeld`).
  - `GrantedAsRequired`, if `LabelsKept`, does too: the loop of the startup comes
    to the first account of a name first and leaves the lease it made alone
    (`CreateLeaseFirst`), so the labels that are matched are those of the account
    that is found.

  Each condition is there because the code needs it. A label
  pool.dataverse.redhat.com/resource-name goes over the managed one
  (`manager.go:84`), two leases lead to one account, and two claims get it. A
  lease that exists keeps its labels (`manager.go:100`): after an edit of an
  account's labels, a claim gets an account without what it requires. An account
  that is taken out of the configuration while a claim has it keeps its key, as
  CleanupAllClaims goes through those configured now (`provider.go:387`). And an
  account is looked up by its name anew (`provider.go:291`): if another has the
  name after an edit, and the startup does not clean up, the deletion of the claim
  cleans that one. The properties do not speak of these cases; the hazards do.

`Calm` says that hooks may fail, and claims may be deleted and created at any
moment, but caches are current, writes succeed, nothing expires, spec.type is
not edited and no lease is deleted. Each of these is needed; TLC finds
`BoundOwnsLease` or `NoOrphanLease` violated in an instance of the controller
with any one of them dropped. With late caches, API errors or lost replies the
ReleaseLease after a failed assignment fails itself, which is only logged, so a
lease stays held by a claim that does not name it; a cache that still has a
deleted claim lets handleDeletion run for it a second time, and free the lease
of whoever took it in between; an expired lease goes to another claim while its
own is still Bound; a deleted lease is held by nobody; a Bound claim whose type
is edited, and edited back, acquires a second lease and forgets the first.
`Quiet` also asks that the startup cleanup is on and that no claim changes
between its List and its reset: otherwise a claim keeps the name of a lease that
the startup freed.

They rest on `LeaseAssumption` (Nobody is no claim; durations are positive),
`ControllerAssumption` (NoLease is no lease; configured leases are leases),
`OperatorAssumption`, `PoolAssumption` and `DeploymentAssumption` (claims,
leases, processes and the values that mean "none" are different things) and
`InventoryAssumption` (configurations are sequences of accounts whose names are
names, durations and the width of integers are numbers, `Several` is no
configuration) with `NoGrantAssumption` (no grant is no grant).

Only model-checked: liveness (`DeletionCompletes`, `ExpiredIsRemoved`,
`WaitingIsServed`) and everything else that needs fairness, which the prover
cannot do. Every safety property that a passing run checks is also a theorem,
though several, as said above, of one process at a time, of a calm or quiet
environment, or of a configuration that is in order.

## Not modelled

- Cryptography (no state: a new key is a new key), generated code, manifests.
- `setCondition` and the conditions, messages and connection details: written
  with the status, read by nobody. `spec.priority` is read by nobody either.
- RotateCredentials, ExecuteQuery, GetResourceNameFromLease: no caller.
- Parsing of the configuration and the identifiers cut out of a URL: there is a
  configuration or not.
- Flags, metrics, webhooks and TLS options of main.
- The 10 h resync of informers: it would end, late, the waits that have no timer.
- Time in Pool and Deployment: nothing expires there. What expiry does to leases
  and claims is in the controller's runs.
- Caches that are behind by some updates only: a cache is current, or shows the
  state of its last delivery. Secrets are read by the provider through a cache
  too; what a late one causes is among the failing statements of ProviderFaults.
- More than one provider; edits of requiredLabels and leaseDuration.
- status.expiresAt is stored with one-second precision: a tick is longer.

Hazards that no property covers, with the reason in `PROJECT.json`: the moment
between `time.Now()` and `time.Until` of a Bound claim; that CleanupAllClaims
never runs the reset queries; the priorities that nothing reads; and those where
the code does what one would not want and the properties are checked without the
cause: leases lost to late caches or edits of spec.type, ReleaseResource run for a
lease that another claim has taken since, a claim deleted for the expiry of its
predecessor or not deletable for its type, a removed resource that leaves claims
Failed, and an account that is not configured well enough to start.

## Plan

1. (done) LeaseManager with LeaseLock; the controller; its safety, liveness and
   proofs; restarts and rolling updates; the provider's hooks.
2. (done) Creation and deletion of leases; CleanupAllClaims and hooks cut short
   by crashes, composed with Operator in Deployment; names, labels, durations and
   configurations in Inventory; proofs for all of these.
3. (done) Every safety property of a passing run as a theorem; `Assignment`, and
   the whole operator shown to implement it.
4. Left: what remains of a settled pool when writes fail or caches are late (which
   leases can be lost, and for how long); expiry in Deployment; a claim's Secret
   read through a late cache as a fault of its own.
