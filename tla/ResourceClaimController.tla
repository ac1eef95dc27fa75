----------------------- MODULE ResourceClaimController -----------------------
(***************************************************************************)
(* internal/controller/resourceclaim_controller.go: the reconciler of      *)
(* ResourceClaims, over the lease manager and an abstract provider.        *)
(*                                                                         *)
(* A worker takes one claim from its queue and runs Reconcile on the copy  *)
(* its informer cache has.  Every call that writes to the API server is a  *)
(* step of its own; reads of the cache belong to the step that uses them.  *)
(* Users, the clock, the watches and the requeue timers run between any    *)
(* two steps.                                                              *)
(*                                                                         *)
(* Hazards names what the environment of a run may do beyond creating its  *)
(* first claims and deleting them:                                         *)
(*   "lag"           the worker may read caches that are out of date       *)
(*   "expiry"        time passes                                           *)
(*   "apiError"      a write may fail                                      *)
(*   "lostReply"     a write may be stored and yet return an error         *)
(*   "provError"     AcquireResource of the provider may fail              *)
(*   "detailsError"  GetConnectionDetails of the provider may fail         *)
(*   "edit"          users edit claims, spec.type included                 *)
(*   "recreate"      users create claims at any time                       *)
(*   "leaseDeleted"  administrators delete leases                          *)
(***************************************************************************)
EXTENDS LeaseManager

CONSTANTS NoLease,      \* an empty status.leaseName
          Configured,   \* leases whose resource the registry knows
          Hazards

ASSUME ControllerAssumption ==
    /\ NoLease \notin Leases
    /\ Configured \subseteq Leases

VARIABLES claim,        \* the claims at the API server
          claimView,    \* claimView[p]: the informer cache of p
          claimBehind,  \* claimBehind[p]: claims whose copy in p is outdated
          queue,        \* queue[p]: claims waiting for the worker of p
          timers,       \* timers[p]: claims that p will queue again later
          worker        \* worker[p]: where the Reconcile call of p is

claimVars == <<claim, claimView, claimBehind>>
workVars == <<queue, timers, worker>>
vars == <<leaseVars, claimVars, workVars>>

(* status.phase; the five reasons to be Failed are told apart, as their    *)
(* status.message is: a new message is a write that changes the object.    *)
Failures == {"UnknownType", "NotConfigured", "LeaseLost", "ProviderFailed",
             "NoDetails"}
Phases == {"New", "Pending", "Bound", "Releasing"} \cup Failures

(* What the reconciler reads of a claim.  known: spec.type is registered.  *)
(* ttl: ticks until time.Now() is after status.expiresAt.                  *)
ClaimRecord == [exists : BOOLEAN, deleting : BOOLEAN, finalizer : BOOLEAN,
                known : BOOLEAN, phase : Phases,
                leaseName : Leases \cup {NoLease}, ttl : Nat]

NoObject == [exists |-> FALSE, deleting |-> FALSE, finalizer |-> FALSE,
             known |-> TRUE, phase |-> "New", leaseName |-> NoLease, ttl |-> 0]

NewClaim == [NoObject EXCEPT !.exists = TRUE]

(* Where Reconcile stands, by the write it is about to make.               *)
Steps == {"idle", "acquireLease", "acquireFailed", "acquireResource",
          "provisionFailed", "bind", "undoLease",
          "releaseResource", "releaseLease", "removeFinalizer"}

(* claim, lease: what the call works on.  fresh: its copy of the claim     *)
(* still has the current resourceVersion.  retry: it will ask for a        *)
(* requeue when it ends.                                                   *)
WorkerRecord == [at : Steps, claim : Claims \cup {Nobody},
                 lease : Leases \cup {NoLease}, fresh : BOOLEAN, retry : BOOLEAN]

Idle == [at |-> "idle", claim |-> Nobody, lease |-> NoLease,
         fresh |-> FALSE, retry |-> FALSE]

ClaimTypeOK ==
    /\ claim \in [Claims -> ClaimRecord]
    /\ claimView \in [Operators -> [Claims -> ClaimRecord]]
    /\ claimBehind \in [Operators -> SUBSET Claims]
    /\ worker \in [Operators -> WorkerRecord]

QueueTypeOK ==
    /\ queue \in [Operators -> SUBSET Claims]
    /\ timers \in [Operators -> SUBSET Claims]

TypeOK == LeaseTypeOK /\ ClaimTypeOK /\ QueueTypeOK

(* Any set of claims exists when the operator starts; its caches are full  *)
(* and every claim they hold is queued.                                    *)
Init ==
    /\ LeaseInit
    /\ claim \in [Claims -> {NoObject, NewClaim}]
    /\ claimView = [p \in Operators |-> claim]
    /\ claimBehind = [p \in Operators |-> {}]
    /\ queue = [p \in Operators |-> {c \in Claims : claim[c].exists}]
    /\ timers = [p \in Operators |-> {}]
    /\ worker = [p \in Operators |-> Idle]

-----------------------------------------------------------------------------
(* Writing to the API server.                                              *)

(* A write whose copy is current or not: the caller sees ok, the server    *)
(* has stored it or not.                                                   *)
Outcome(current, ok, stored) ==
    /\ ok => stored
    /\ stored => current
    /\ (current /\ ~stored) => "apiError" \in Hazards
    /\ (stored /\ ~ok) => "lostReply" \in Hazards

(* The workers' copies of c, other than the one being replaced, are        *)
(* outdated once c changes.                                                *)
Outdate(c, w) == [q \in Operators |-> IF w[q].claim = c
                                      THEN [w[q] EXCEPT !.fresh = FALSE]
                                      ELSE w[q]]

(* Claim c becomes v, and ws is where the workers stand afterwards.        *)
StoreClaim(c, v, ws) ==
    /\ claim' = [claim EXCEPT ![c] = v]
    /\ claimBehind' = IF v = claim[c] THEN claimBehind
                      ELSE [q \in Operators |-> claimBehind[q] \cup {c}]
    /\ worker' = ws
    /\ UNCHANGED claimView

(* p updates c to v and goes on as w; its copy stays usable if the reply   *)
(* came back or nothing changed.                                           *)
WriteClaim(p, c, v, current, ok, stored, w) ==
    /\ Outcome(current, ok, stored)
    /\ IF stored /\ v # claim[c]
       THEN StoreClaim(c, v, [Outdate(c, worker) EXCEPT
                                 ![p] = IF ok THEN w ELSE [w EXCEPT !.fresh = FALSE]])
       ELSE StoreClaim(c, claim[c], [worker EXCEPT ![p] = w])

(* What an API delete makes of a claim: finalizers hold it back.           *)
Deleted(v) == IF v.finalizer THEN [v EXCEPT !.deleting = TRUE] ELSE NoObject

(* A bug the reconciler could have: the release forgotten on its way out.  *)
ForgetRelease(p, l, ok, stored) == ok /\ stored /\ UNCHANGED leaseVars

(* p releases the lease l: its ReleaseLease call.                          *)
CallReleaseLease(p, l, ok, stored) ==
    /\ Outcome(LeaseCurrent(p, l), ok, stored)
    /\ IF stored THEN ReleaseLease(p, l) ELSE UNCHANGED leaseVars

-----------------------------------------------------------------------------
(* Starting Reconcile.                                                     *)

(* Without "lag" the watches deliver before the worker goes on.            *)
Ready(p) == "lag" \in Hazards \/ (claimBehind[p] = {} /\ leaseBehind[p] = {})

(* A bug the reconciler could have: it returns without asking for a        *)
(* requeue.                                                                *)
DequeueForGood(p, c, again) ==
    /\ worker[p] = Idle /\ c \in queue[p] /\ Ready(p)
    /\ queue' = [queue EXCEPT ![p] = @ \ {c}]
    /\ UNCHANGED timers

(* p takes c from its queue; the call ends with a requeue or not.          *)
Dequeue(p, c, again) ==
    /\ worker[p] = Idle
    /\ c \in queue[p]
    /\ Ready(p)
    /\ queue' = [queue EXCEPT ![p] = @ \ {c}]
    /\ timers' = IF again THEN [timers EXCEPT ![p] = @ \cup {c}] ELSE timers

Current(p, c) == c \notin claimBehind[p]

(* Not found, or deleted and already without our finalizer: nothing to do. *)
ReconcileIgnored(p, c) ==
    LET v == claimView[p][c] IN
    /\ Dequeue(p, c, FALSE)
    /\ v.exists => v.known /\ v.deleting /\ ~v.finalizer
    /\ UNCHANGED <<leaseVars, claimVars, worker>>

(* The type is checked before the deletion timestamp is looked at.         *)
ReconcileUnknownType(p, c) ==
    LET v == claimView[p][c] IN
    \E ok, stored \in BOOLEAN :
        /\ Dequeue(p, c, ~ok)
        /\ v.exists /\ ~v.known
        /\ WriteClaim(p, c, [claim[c] EXCEPT !.phase = "UnknownType"],
                      Current(p, c), ok, stored, Idle)
        /\ UNCHANGED leaseVars

Live(v) == v.exists /\ v.known /\ ~v.deleting

(* The finalizer comes first; the claim is queued again either way.        *)
AddFinalizer(p, c) ==
    \E ok, stored \in BOOLEAN :
        /\ Dequeue(p, c, TRUE)
        /\ Live(claimView[p][c]) /\ ~claimView[p][c].finalizer
        /\ WriteClaim(p, c, [claim[c] EXCEPT !.finalizer = TRUE],
                      Current(p, c), ok, stored, Idle)
        /\ UNCHANGED leaseVars

IsBound(v) == Live(v) /\ v.finalizer /\ v.phase = "Bound"

(* Bound, and time.Now() is after status.expiresAt: delete the claim of    *)
(* that name, whatever its version.                                        *)
BoundExpired(p, c) ==
    \E ok, stored \in BOOLEAN :
        /\ Dequeue(p, c, ~ok)
        /\ IsBound(claimView[p][c]) /\ claimView[p][c].ttl = 0
        /\ WriteClaim(p, c, Deleted(claim[c]), TRUE, ok, stored, Idle)
        /\ UNCHANGED leaseVars

(* Bound and not expired: come back at expiresAt.                          *)
BoundWaits(p, c) ==
    /\ Dequeue(p, c, TRUE)
    /\ IsBound(claimView[p][c]) /\ claimView[p][c].ttl > 0
    /\ UNCHANGED <<leaseVars, claimVars, worker>>

(* A bug Reconcile could have: it acquires before the finalizer is there.  *)
WantsUnfinalized(v) == Live(v) /\ v.phase # "Bound"

(* Neither deleted nor bound, and the finalizer is there: acquireLease.    *)
WantsLease(v) == Live(v) /\ v.finalizer /\ v.phase # "Bound"

(* acquireLease, FindFreeLease found none: Pending, poll again.            *)
NoLeaseFree(p, c) ==
    \E ok, stored \in BOOLEAN :
        /\ Dequeue(p, c, TRUE)
        /\ WantsLease(claimView[p][c])
        /\ FindFreeLease(p, c) = {}
        /\ WriteClaim(p, c, [claim[c] EXCEPT !.phase = "Pending"],
                      Current(p, c), ok, stored, Idle)
        /\ UNCHANGED leaseVars

(* acquireLease, the lease found is of no configured resource: Failed, and *)
(* no requeue.                                                             *)
FoundUnconfigured(p, c) ==
    \E ok, stored \in BOOLEAN :
        /\ Dequeue(p, c, ~ok)
        /\ WantsLease(claimView[p][c])
        /\ FindFreeLease(p, c) \ Configured # {}
        /\ WriteClaim(p, c, [claim[c] EXCEPT !.phase = "NotConfigured"],
                      Current(p, c), ok, stored, Idle)
        /\ UNCHANGED leaseVars

(* acquireLease, a lease of a configured resource was found.               *)
FoundLease(p, c, l) ==
    /\ Dequeue(p, c, FALSE)
    /\ WantsLease(claimView[p][c])
    /\ l \in FindFreeLease(p, c) \cap Configured
    /\ worker' = [worker EXCEPT ![p] =
           [at |-> "acquireLease", claim |-> c, lease |-> l,
            fresh |-> Current(p, c), retry |-> FALSE]]
    /\ UNCHANGED <<leaseVars, claimVars>>

-----------------------------------------------------------------------------
(* acquireLease and handleDeletion, call by call.                          *)

(* The worker of p stands at s.                                            *)
At(p, s) == worker[p].at = s

Goto(p, s) == worker' = [worker EXCEPT ![p].at = s]

(* Reconcile ends; an error or a RequeueAfter queues the claim again.      *)
Return(p, again) ==
    timers' = IF again THEN [timers EXCEPT ![p] = @ \cup {worker[p].claim}]
                       ELSE timers

(* A bug the reconciler could have: patches, which need no resourceVersion *)
(* of the copy they come from.                                             *)
AnyVersion(p) == TRUE

(* The update of p sends the resourceVersion of its copy of the claim.     *)
CopyCurrent(p) == worker[p].fresh

(* A bug acquireLease could have: an error of AcquireLease only logged.    *)
ProvisionAnyway(ok) == "acquireResource"

(* Provision the resource only if the lease was acquired.                  *)
AfterAcquire(ok) == IF ok THEN "acquireResource" ELSE "acquireFailed"

(* LeaseManager.AcquireLease: refused by the re-check, by a conflict or by *)
(* the API server, it is an error even if the update was stored.           *)
AcquireForClaim(p) ==
    LET c == worker[p].claim
        l == worker[p].lease
        current == StillFree(p, l) /\ LeaseCurrent(p, l)
    IN  \E ok, stored \in BOOLEAN :
            /\ At(p, "acquireLease") /\ Ready(p)
            /\ Outcome(current, ok, stored)
            /\ IF stored THEN AcquireLease(p, c, l) ELSE UNCHANGED leaseVars
            /\ Goto(p, AfterAcquire(ok))
            /\ UNCHANGED <<claimVars, queue, timers>>

(* AcquireLease failed: Failed, retried whatever becomes of the status.    *)
AcquireFailed(p) ==
    LET c == worker[p].claim IN
    \E ok, stored \in BOOLEAN :
        /\ At(p, "acquireFailed")
        /\ WriteClaim(p, c, [claim[c] EXCEPT !.phase = "LeaseLost"],
                      CopyCurrent(p), ok, stored, Idle)
        /\ Return(p, TRUE)
        /\ UNCHANGED <<leaseVars, queue>>

(* The provider's AcquireResource hook.                                    *)
AcquireResource(p) ==
    /\ At(p, "acquireResource")
    /\ \/ Goto(p, "bind")
       \/ /\ "provError" \in Hazards
          /\ worker' = [worker EXCEPT ![p] =
                 [@ EXCEPT !.at = "provisionFailed", !.retry = TRUE]]
    /\ UNCHANGED <<leaseVars, claimVars, queue, timers>>

(* Record a failure of the provider, then give the lease back; a status    *)
(* update that fails is only logged.                                       *)
FailProvision(p, why) ==
    LET c == worker[p].claim IN
    \E ok, stored \in BOOLEAN :
        /\ WriteClaim(p, c, [claim[c] EXCEPT !.phase = why], CopyCurrent(p),
                      ok, stored, [worker[p] EXCEPT !.at = "undoLease"])
        /\ UNCHANGED <<leaseVars, queue, timers>>

ProvisionFailed(p) == At(p, "provisionFailed") /\ FailProvision(p, "ProviderFailed")

(* GetConnectionDetails failed: as above, but without a requeue.           *)
DetailsFailed(p) ==
    /\ At(p, "bind") /\ "detailsError" \in Hazards
    /\ FailProvision(p, "NoDetails")

(* A bug acquireLease could have: a phase the CRD's enum does not have.    *)
BoundAsReady(v, l, t) == [v EXCEPT !.phase = "Ready", !.leaseName = l, !.ttl = t]

(* The status of a claim that got its lease.                               *)
Bound(v, l, t) == [v EXCEPT !.phase = "Bound", !.leaseName = l, !.ttl = t]

(* The status update that makes the claim Bound; expiresAt counts from     *)
(* here.  If it fails the lease is given back and the error returned.      *)
BindClaim(p) ==
    LET c == worker[p].claim IN
    \E ok, stored \in BOOLEAN :
        /\ At(p, "bind")
        /\ WriteClaim(p, c, Bound(claim[c], worker[p].lease, Duration[c]),
                      CopyCurrent(p), ok, stored,
                      IF ok THEN Idle
                      ELSE [worker[p] EXCEPT !.at = "undoLease", !.retry = TRUE])
        /\ UNCHANGED <<leaseVars, queue, timers>>

(* ReleaseLease after a failure: its error is only logged.                 *)
UndoLease(p) ==
    \E ok, stored \in BOOLEAN :
        /\ At(p, "undoLease") /\ Ready(p)
        /\ CallReleaseLease(p, worker[p].lease, ok, stored)
        /\ Return(p, worker[p].retry)
        /\ worker' = [worker EXCEPT ![p] = Idle]
        /\ UNCHANGED <<claimVars, queue>>

(* handleDeletion: Releasing, a failure of that update is only logged; the *)
(* lease and its resource are those of the claim's copy.                   *)
BeginDeletion(p, c) ==
    LET v == claimView[p][c]
        w == [at |-> IF v.leaseName = NoLease THEN "removeFinalizer"
                                              ELSE "releaseResource",
              claim |-> c, lease |-> v.leaseName,
              fresh |-> Current(p, c), retry |-> FALSE]
    IN  \E ok, stored \in BOOLEAN :
            /\ Dequeue(p, c, FALSE)
            /\ v.exists /\ v.known /\ v.deleting /\ v.finalizer
            /\ IF v.phase = "Releasing"
               THEN worker' = [worker EXCEPT ![p] = w] /\ ok /\ stored
                    /\ UNCHANGED claimVars
               ELSE WriteClaim(p, c, [claim[c] EXCEPT !.phase = "Releasing"],
                               Current(p, c), ok, stored, w)
            /\ UNCHANGED leaseVars

(* The provider's ReleaseResource hook: skipped if the resource is not     *)
(* configured any more, its error is only logged.                          *)
ReleaseResource(p) ==
    /\ At(p, "releaseResource")
    /\ Goto(p, "releaseLease")
    /\ UNCHANGED <<leaseVars, claimVars, queue, timers>>

(* A bug handleDeletion could have: an error of ReleaseLease only logged.  *)
FinalizeAnyway(ok) == TRUE

(* The finalizer is removed only if the lease was released.                *)
MayFinalize(ok) == ok

(* handleDeletion's ReleaseLease: an error ends the call, to be retried.   *)
ReleaseHeldLease(p) ==
    \E ok, stored \in BOOLEAN :
        /\ At(p, "releaseLease") /\ Ready(p)
        /\ CallReleaseLease(p, worker[p].lease, ok, stored)
        /\ IF MayFinalize(ok) THEN Goto(p, "removeFinalizer")
                              ELSE worker' = [worker EXCEPT ![p] = Idle]
        /\ Return(p, ~MayFinalize(ok))
        /\ UNCHANGED <<claimVars, queue>>

(* A bug handleDeletion could have: the finalizer removed in memory only.  *)
KeepsFinalizer(v) == v

(* Removing the last finalizer of a deleted claim removes the claim.       *)
Finalized(v) == IF v.deleting THEN NoObject ELSE [v EXCEPT !.finalizer = FALSE]

(* handleDeletion's last update, with the copy it has worked on.           *)
RemoveFinalizer(p) ==
    LET c == worker[p].claim IN
    \E ok, stored \in BOOLEAN :
        /\ At(p, "removeFinalizer")
        /\ WriteClaim(p, c, Finalized(claim[c]), CopyCurrent(p), ok, stored, Idle)
        /\ Return(p, ~ok)
        /\ UNCHANGED <<leaseVars, queue>>

-----------------------------------------------------------------------------
(* The environment of the reconciler.                                      *)

(* Someone other than a worker changes claim c to v.                       *)
Rewrite(c, v) ==
    /\ StoreClaim(c, v, Outdate(c, worker))
    /\ UNCHANGED <<leaseVars, queue, timers>>

CreateClaim(c) ==
    /\ "recreate" \in Hazards
    /\ ~claim[c].exists
    /\ Rewrite(c, NewClaim)

DeleteClaim(c) ==
    /\ claim[c].exists /\ ~claim[c].deleting
    /\ Rewrite(c, Deleted(claim[c]))

(* spec.type becomes a registered or an unknown one.                       *)
EditClaim(c) ==
    /\ "edit" \in Hazards
    /\ claim[c].exists
    /\ Rewrite(c, [claim[c] EXCEPT !.known = ~@])

(* The watch brings the claims of p up to date and queues the changed.     *)
SyncClaims(p) ==
    /\ claimBehind[p] # {}
    /\ claimView' = [claimView EXCEPT ![p] = claim]
    /\ claimBehind' = [claimBehind EXCEPT ![p] = {}]
    /\ queue' = [queue EXCEPT ![p] = @ \cup claimBehind[p]]
    /\ UNCHANGED <<leaseVars, claim, timers, worker>>

(* Nothing watches leases for the queue: a release wakes no claim.         *)
SyncLeaseCache(p) ==
    /\ SyncLeases(p)
    /\ UNCHANGED <<claimVars, workVars>>

AdminDeletesLease ==
    /\ "leaseDeleted" \in Hazards
    /\ \E l \in Leases : DeleteLease(l)
    /\ UNCHANGED <<claimVars, workVars>>

TimerFires(p, c) ==
    /\ c \in timers[p]
    /\ timers' = [timers EXCEPT ![p] = @ \ {c}]
    /\ queue' = [queue EXCEPT ![p] = @ \cup {c}]
    /\ UNCHANGED <<leaseVars, claimVars, worker>>

Tick ==
    /\ "expiry" \in Hazards
    /\ TickLeases
    /\ claim' = [c \in Claims |-> Aged(claim[c])]
    /\ claimView' = [p \in Operators |-> [c \in Claims |-> Aged(claimView[p][c])]]
    /\ UNCHANGED <<claimBehind, workVars>>

-----------------------------------------------------------------------------
(* The worker of p picks claim c.                                          *)
Reconcile(p, c) ==
    \/ ReconcileIgnored(p, c) \/ ReconcileUnknownType(p, c)
    \/ AddFinalizer(p, c)
    \/ BoundExpired(p, c) \/ BoundWaits(p, c)
    \/ NoLeaseFree(p, c) \/ FoundUnconfigured(p, c)
    \/ \E l \in Leases : FoundLease(p, c, l)
    \/ BeginDeletion(p, c)

(* The Reconcile call of p makes its next call to the API server.          *)
ApiCall(p) ==
    \/ AcquireForClaim(p) \/ AcquireFailed(p)
    \/ ProvisionFailed(p) \/ DetailsFailed(p)
    \/ BindClaim(p) \/ UndoLease(p)
    \/ ReleaseHeldLease(p) \/ RemoveFinalizer(p)

(* It goes on: with that, or with a hook of the provider.                  *)
Proceed(p) == ApiCall(p) \/ AcquireResource(p) \/ ReleaseResource(p)

Caches(p) == SyncClaims(p) \/ SyncLeaseCache(p)

Users == \E c \in Claims : CreateClaim(c) \/ DeleteClaim(c) \/ EditClaim(c)

Next ==
    \/ \E p \in Operators : \/ Proceed(p) \/ Caches(p)
                            \/ \E c \in Claims : Reconcile(p, c) \/ TimerFires(p, c)
    \/ Users
    \/ AdminDeletesLease
    \/ Tick

Spec == Init /\ [][Next]_vars

(* What the scheduling of controller-runtime gives: the watches deliver,   *)
(* a Reconcile call that runs goes on, every queued claim gets its turn    *)
(* (the workqueue is a FIFO), a timer fires and time passes.  The provider *)
(* does not fail for ever.                                                 *)
Fairness ==
    /\ \A p \in Operators :
           /\ WF_vars(SyncClaims(p)) /\ WF_vars(SyncLeaseCache(p))
           /\ WF_vars(Proceed(p))
           /\ SF_vars(AcquireResource(p) /\ worker'[p].at = "bind")
           /\ \A c \in Claims : /\ SF_vars(Reconcile(p, c))
                                /\ WF_vars(TimerFires(p, c))
    /\ WF_vars(Tick)

FairSpec == Spec /\ Fairness

-----------------------------------------------------------------------------
(* Safety, in every environment.                                           *)

Acquiring == {"acquireLease", "acquireFailed", "acquireResource",
              "provisionFailed", "bind"}
Finalizing == {"releaseResource", "releaseLease", "removeFinalizer"}

(* Where a worker must have a lease to work on.                            *)
Leasing == Acquiring \cup {"undoLease", "releaseResource", "releaseLease"}

HasTarget(w) == /\ w.at # "idle" => w.claim \in Claims
                /\ w.at \in Leasing => w.lease \in Leases

(* A worker that is not idle has a claim to work on, and a lease.          *)
WorkerHasTarget == \A p \in Operators : HasTarget(worker[p])

(* A copy in a cache that is not marked outdated is the stored claim.      *)
CachedClaimIsCurrent ==
    \A p \in Operators, c \in Claims :
        c \notin claimBehind[p] => claimView[p][c] = claim[c]

(* What a Reconcile call relies on, given the stored claim v.              *)
UsableFor(w, v) ==
    w.fresh => /\ w.at \in Acquiring => WantsLease(v)
               /\ w.at \in Finalizing => v.deleting /\ v.leaseName = w.lease

(* While the copy a Reconcile call works on is of the current version,     *)
(* what the call checked when it started still holds, however many calls   *)
(* to the API server and to the provider it has made: acquireLease works   *)
(* for a claim that wants a lease, handleDeletion for a deleted one, and   *)
(* on the lease its status names.                                          *)
CopyIsUsable ==
    \A p \in Operators : UsableFor(worker[p], claim[worker[p].claim])

(* A claim is deleted but not gone only while the finalizer holds it, and  *)
(* only a claim that is there has a finalizer.                             *)
FinalizerHolds ==
    \A c \in Claims : /\ claim[c].deleting => claim[c].finalizer
                      /\ claim[c].finalizer => claim[c].exists

(* A claim that is being deleted never becomes Bound: the deletion that    *)
(* comes while its resource is being provisioned makes the status update   *)
(* of acquireLease conflict, however stale the copy it works on.           *)
DeletingNeverBinds ==
    [][\A c \in Claims : claim[c].deleting /\ claim'[c].phase = "Bound"
                             => claim[c].phase = "Bound"]_vars

(* A claim that is Bound keeps its lease for as long as it is Bound: a     *)
(* reconciler that works on an older copy of it never moves it to the      *)
(* lease it acquired meanwhile.                                            *)
BoundNeverRebinds ==
    [][\A c \in Claims : claim[c].phase = "Bound" /\ claim'[c].phase = "Bound"
                             => claim'[c].leaseName = claim[c].leaseName]_vars

(* A claim whose status names a lease has the finalizer, so it can't go    *)
(* away before handleDeletion has seen the lease.                          *)
LeaseNameHasFinalizer ==
    \A c \in Claims : claim[c].leaseName # NoLease => claim[c].finalizer

(* The inductive invariant behind the properties of every environment.     *)
IInv == /\ TypeOK /\ WorkerHasTarget
        /\ CachedLeaseIsCurrent /\ CachedClaimIsCurrent /\ CopyIsUsable
        /\ FinalizerHolds /\ LeaseNameHasFinalizer

(* Where a worker relies on having its lease, or on having released it.    *)
Provisioning == {"acquireResource", "provisionFailed", "bind"}

(* From AcquireLease to the status update the claim of the worker holds    *)
(* the lease, if it was not deleted; before the finalizer goes it does not.*)
KnowsHolder(w, ls) ==
    /\ w.at \in Provisioning /\ ls[w.lease].exists => ls[w.lease].holder = w.claim
    /\ w.at = "removeFinalizer" /\ w.lease # NoLease => ls[w.lease].holder # w.claim

(* What a worker has done with a lease stays done, and what an error hides *)
(* from it does not mislead it: a lost reply of AcquireLease is no         *)
(* acquired lease, one of ReleaseLease no released one (one operator       *)
(* process).                                                               *)
WorkerKnowsHolder == \A p \in Operators : KnowsHolder(worker[p], lease)

(* At the step that makes a claim Bound, the lease it is bound to is held  *)
(* by it at the API server, unless an administrator deleted it (one        *)
(* operator process).                                                      *)
BindOwnsLease ==
    [][\A c \in Claims :
          LET v == lease[claim'[c].leaseName] IN
          claim[c].phase # "Bound" /\ claim'[c].phase = "Bound" /\ v.exists
              => v.holder = c]_vars

(* When the finalizer of a claim goes away, the lease its status names is  *)
(* not held by it any more (one operator process).                         *)
RemovedReleased ==
    [][\A c \in Claims :
          LET l == claim[c].leaseName IN
          claim[c].finalizer /\ ~claim'[c].finalizer /\ l # NoLease
              => lease[l].holder # c]_vars

(* Safety, while the watches keep up, writes are answered and no lease     *)
(* expires.                                                                *)

(* A claim that is Bound holds the lease its status names, so no two       *)
(* claims share an account.                                                *)
BoundOwnsLease ==
    \A c \in Claims : claim[c].phase = "Bound" => lease[claim[c].leaseName].holder = c

(* "Share a limited pool ... without conflicts" (README.md:7): two claims   *)
(* that are Bound and not expired never name the same lease.               *)
NoSharedLease ==
    \A c, d \in Claims :
        (/\ c # d
         /\ claim[c].phase = "Bound" /\ claim[c].ttl > 0
         /\ claim[d].phase = "Bound" /\ claim[d].ttl > 0)
        => claim[c].leaseName # claim[d].leaseName

(* No lease is lost: whoever holds one has it in its status, or is being   *)
(* served by a Reconcile call that will bind it or give it back.           *)
NoOrphanLease ==
    \A l \in Leases :
        LET c == lease[l].holder IN
        c # Nobody => \/ claim[c].leaseName = l
                      \/ \E p \in Operators : worker[p].claim = c /\ worker[p].lease = l

(* A claim is Bound to an account that has every label it requires (the    *)
(* labels a claim requires are not edited in the model).                   *)
BoundMatchesLabels ==
    \A c \in Claims : claim[c].phase = "Bound"
                          => RequiredLabels[c] \subseteq LeaseLabels[claim[c].leaseName]

(* What users see of the pool.                                             *)
assigned == [c \in Claims |-> IF claim[c].phase = "Bound" THEN claim[c].leaseName
                                                         ELSE NoLease]

suiting == {s \in Claims \X Leases : RequiredLabels[s[1]] \subseteq LeaseLabels[s[2]]}

Sharing == INSTANCE Assignment WITH Accounts <- Leases, None <- NoLease,
                                    Suits <- suiting, boundTo <- assigned

(* The reconciler implements the assignment: from one status to the next,  *)
(* stored from copies and in between hooks, deletions and restarts, a      *)
(* claim gets an account only while no other is Bound to it, and moves to  *)
(* another only by way of not being Bound.                                 *)
ImplementsAssignment == Sharing!Spec

(* Liveness.                                                               *)

(* A deleted claim goes away: its lease is released and the finalizer      *)
(* removed, whatever is retried on the way.                                *)
DeletionCompletes ==
    \A c \in Claims : claim[c].deleting ~> ~claim[c].exists

(* A claim past its expiresAt does not stay Bound.                         *)
ExpiredIsRemoved ==
    \A c \in Claims : claim[c].phase = "Bound" /\ claim[c].ttl = 0
                          ~> claim[c].phase # "Bound"

(* Every claim gets a resource or is deleted by its user: the polls of a   *)
(* Pending claim find the lease that others leave.                         *)
WaitingIsServed ==
    \A c \in Claims : claim[c].exists
                          ~> claim[c].phase = "Bound" \/ ~claim[c].exists
=============================================================================
