------------------------- MODULE SingleOperatorProofs -------------------------
(***************************************************************************)
(* Proofs about ResourceClaimController when one operator process runs:    *)
(* its worker is the only one that writes leases, so between two of its    *)
(* calls no lease changes hands.                                           *)
(*                                                                         *)
(* What the worker knows of its lease needs nothing else: caches may be    *)
(* stale, replies lost, writes refused, and time may pass.  That the whole *)
(* pool is settled, every lease with the claim that names it, holds in a   *)
(* calm environment: the hooks fail, and claims come and go (Calm).        *)
(***************************************************************************)
EXTENDS ControllerProofs

OneOperator == \A p, q \in Operators : p = q

(* Workers at other places rely on no holder.                              *)
LEMMA Unconcerned ==
  ASSUME NEW w, w.at \notin Provisioning, w.at # "removeFinalizer" \/ w.lease = NoLease
  PROVE  \A ls : KnowsHolder(w, ls)
  BY DEF KnowsHolder

LEMMA IdleKnows == \A ls : KnowsHolder(Idle, ls)
  BY Unconcerned, SMT DEF Idle, Provisioning

(* The freshness of the copy does not matter here.                         *)
LEMMA StaleKnows ==
  ASSUME NEW w \in WorkerRecord, NEW ls, KnowsHolder(w, ls)
  PROVE  KnowsHolder([w EXCEPT !.fresh = FALSE], ls)
<1> DEFINE s == [w EXCEPT !.fresh = FALSE]
<1>1. s.at = w.at /\ s.claim = w.claim /\ s.lease = w.lease
  BY DEF WorkerRecord
<1> HIDE DEF s
<1>2. KnowsHolder(s, ls)
  BY <1>1 DEF KnowsHolder
<1> QED
  BY <1>2 DEF s

(* The one worker moves to w.                                              *)
LEMMA MoveKnows ==
  ASSUME CInv, OneOperator, NEW p \in Operators, NEW w,
         worker' = [worker EXCEPT ![p] = w], KnowsHolder(w, lease')
  PROVE  WorkerKnowsHolder'
<1>1. \A q \in Operators : worker'[q] = w
  BY SMT DEF OneOperator, CInv, ClaimTypeOK
<1> QED
  BY <1>1 DEF WorkerKnowsHolder, KnowsHolder

LEMMA GotoKnows ==
  ASSUME CInv, OneOperator, NEW p \in Operators, NEW s, Goto(p, s),
         s \in Provisioning /\ lease'[worker[p].lease].exists
             => lease'[worker[p].lease].holder = worker[p].claim,
         s = "removeFinalizer" => lease'[worker[p].lease].holder # worker[p].claim
  PROVE  WorkerKnowsHolder'
<1> DEFINE x == [worker[p] EXCEPT !.at = s]
<1>1. x.at = s /\ x.claim = worker[p].claim /\ x.lease = worker[p].lease
  BY DEF CInv, ClaimTypeOK, WorkerRecord
<1>2. worker' = [worker EXCEPT ![p] = x]
  BY DEF Goto
<1> HIDE DEF x
<1>3. KnowsHolder(x, lease')
  BY <1>1 DEF KnowsHolder
<1> QED
  BY <1>2, <1>3, MoveKnows

(* Someone changes a claim.                                                *)
LEMMA RewriteKnows ==
  ASSUME CInv, WorkerKnowsHolder, NEW c, NEW v, Rewrite(c, v)
  PROVE  WorkerKnowsHolder'
<1>1. lease' = lease /\ worker' = Outdate(c, worker)
  BY DEF Rewrite, StoreClaim, leaseVars
<1>2. ASSUME NEW q \in Operators
      PROVE  KnowsHolder(worker'[q], lease)
  <2>1. worker[q] \in WorkerRecord /\ KnowsHolder(worker[q], lease)
    BY DEF CInv, ClaimTypeOK, WorkerKnowsHolder
  <2>2. worker'[q] = worker[q] \/ worker'[q] = [worker[q] EXCEPT !.fresh = FALSE]
    BY <1>1 DEF Outdate
  <2> QED
    BY <2>1, <2>2, StaleKnows
<1> QED
  BY <1>1, <1>2 DEF WorkerKnowsHolder, KnowsHolder

(* The one worker updates a claim and goes on as w.                        *)
LEMMA WriteKnows ==
  ASSUME CInv, OneOperator, NEW p \in Operators, NEW c, NEW v, NEW current,
         NEW ok \in BOOLEAN, NEW stored, NEW w \in WorkerRecord,
         WriteClaim(p, c, v, current, ok, stored, w),
         KnowsHolder(w, lease), lease' = lease
  PROVE  WorkerKnowsHolder'
<1> DEFINE w2 == IF ok THEN w ELSE [w EXCEPT !.fresh = FALSE]
<1>1. KnowsHolder(w2, lease)
  BY StaleKnows
<1>2. \/ worker' = [worker EXCEPT ![p] = w]
      \/ worker' = [Outdate(c, worker) EXCEPT ![p] = w2]
  BY DEF WriteClaim, StoreClaim
<1> HIDE DEF w2
<1>3. \A q \in Operators : worker'[q] \in {w, w2}
  <2>1. CASE worker' = [worker EXCEPT ![p] = w]
    BY <2>1, SMT DEF OneOperator, CInv, ClaimTypeOK
  <2>2. CASE worker' = [Outdate(c, worker) EXCEPT ![p] = w2]
    <3>1. DOMAIN Outdate(c, worker) = Operators
      BY DEF Outdate
    <3>2. worker'[p] = w2
      BY <2>2, <3>1
    <3> QED
      BY <3>2 DEF OneOperator
  <2> QED
    BY <1>2, <2>1, <2>2
<1> QED
  BY <1>1, <1>3 DEF WorkerKnowsHolder, KnowsHolder

-----------------------------------------------------------------------------
LEMMA ReconcileKnows ==
  ASSUME CInv, OneOperator, WorkerKnowsHolder, NEW p \in Operators, NEW c \in Claims,
         Reconcile(p, c)
  PROVE  WorkerKnowsHolder'
<1>1. CASE ReconcileIgnored(p, c) \/ BoundWaits(p, c)
  <2>1. lease' = lease /\ worker' = worker
    BY <1>1 DEF ReconcileIgnored, BoundWaits, leaseVars
  <2> QED
    BY <2>1 DEF WorkerKnowsHolder, KnowsHolder
<1>2. CASE ReconcileUnknownType(p, c) \/ AddFinalizer(p, c) \/ BoundExpired(p, c)
             \/ NoLeaseFree(p, c) \/ FoundUnconfigured(p, c)
  BY <1>2, WriteKnows, IdleKnows, IdleFacts DEF ReconcileUnknownType, AddFinalizer,
     BoundExpired, NoLeaseFree, FoundUnconfigured, leaseVars
<1>3. CASE \E l \in Leases : FoundLease(p, c, l)
  <2>1. PICK l \in Leases : FoundLease(p, c, l)
    BY <1>3
  <2> DEFINE w == [at |-> "acquireLease", claim |-> c, lease |-> l,
                   fresh |-> Current(p, c), retry |-> FALSE]
  <2>2. w.at = "acquireLease"
    OBVIOUS
  <2>3. worker' = [worker EXCEPT ![p] = w]
    BY <2>1 DEF FoundLease
  <2> HIDE DEF w
  <2>4. KnowsHolder(w, lease')
    BY <2>2, Unconcerned DEF Provisioning
  <2> QED
    BY <2>3, <2>4, MoveKnows
<1>4. CASE BeginDeletion(p, c)
  <2> DEFINE l == claimView[p][c].leaseName
             w == [at |-> IF l = NoLease THEN "removeFinalizer" ELSE "releaseResource",
                   claim |-> c, lease |-> l, fresh |-> Current(p, c), retry |-> FALSE]
  <2>1. PICK ok \in BOOLEAN, stored \in BOOLEAN :
            \/ worker' = [worker EXCEPT ![p] = w]
            \/ WriteClaim(p, c, [claim[c] EXCEPT !.phase = "Releasing"],
                          Current(p, c), ok, stored, w)
    BY <1>4 DEF BeginDeletion
  <2>2. lease' = lease
    BY <1>4 DEF BeginDeletion, leaseVars
  <2>3. w \in WorkerRecord
    <3>1. l \in Leases \cup {NoLease}
      BY DEF CInv, ClaimTypeOK, ClaimRecord
    <3>2. Current(p, c) \in BOOLEAN
      BY DEF Current
    <3> HIDE DEF l
    <3> QED
      BY <3>1, <3>2, SMT DEF WorkerRecord, Steps
  <2>4. w.at = "releaseResource" \/ (w.at = "removeFinalizer" /\ w.lease = NoLease)
    OBVIOUS
  <2> HIDE DEF w
  <2>5. \A ls : KnowsHolder(w, ls)
    BY <2>4, Unconcerned DEF Provisioning
  <2> QED
    BY <2>1, <2>2, <2>3, <2>5, MoveKnows, WriteKnows
<1> QED
  BY <1>1, <1>2, <1>3, <1>4 DEF Reconcile

(* A stored AcquireLease gives the claim the lease, and a stored           *)
(* ReleaseLease takes it from whoever has it.                              *)
LEMMA LeaseWrites ==
  ASSUME LeaseTypeOK, NEW p \in Operators, NEW l \in Leases, NEW c \in Claims
  PROVE  /\ AcquireLease(p, c, l) => lease'[l].holder = c
         /\ ReleaseLease(p, l) => lease'[l].holder = Nobody
  BY SMT DEF LeaseTypeOK, AcquireLease, ReleaseLease, StoreLease, FreeLease, HeldBy

LEMMA AcquireForClaimKnows ==
  ASSUME CInv, LeaseTypeOK, OneOperator, NEW p \in Operators, AcquireForClaim(p)
  PROVE  WorkerKnowsHolder'
<1>1. worker[p].claim \in Claims /\ worker[p].lease \in Leases
  <2>1. worker[p].at = "acquireLease"
    BY DEF AcquireForClaim, At
  <2> QED
    BY <2>1, BusyFacts DEF HasTarget, Leasing, Acquiring
<1>2. PICK ok \in BOOLEAN, stored \in BOOLEAN :
          /\ ok => stored
          /\ stored => AcquireLease(p, worker[p].claim, worker[p].lease)
          /\ Goto(p, AfterAcquire(ok))
  BY DEF AcquireForClaim, Outcome
<1>3. ok => lease'[worker[p].lease].holder = worker[p].claim
  BY <1>1, <1>2, LeaseWrites
<1>4. /\ AfterAcquire(ok) \in Provisioning => ok
      /\ AfterAcquire(ok) # "removeFinalizer"
  BY DEF AfterAcquire, Provisioning
<1> QED
  BY <1>2, <1>3, <1>4, GotoKnows

LEMMA ReleaseHeldLeaseKnows ==
  ASSUME CInv, LeaseTypeOK, OneOperator, NEW p \in Operators, ReleaseHeldLease(p)
  PROVE  WorkerKnowsHolder'
<1>1. worker[p].claim \in Claims /\ worker[p].lease \in Leases
  <2>1. worker[p].at = "releaseLease"
    BY DEF ReleaseHeldLease, At
  <2> QED
    BY <2>1, BusyFacts DEF HasTarget, Leasing
<1>2. PICK ok \in BOOLEAN, stored \in BOOLEAN :
          /\ ok => stored
          /\ stored => ReleaseLease(p, worker[p].lease)
          /\ IF ok THEN Goto(p, "removeFinalizer") ELSE worker' = [worker EXCEPT ![p] = Idle]
  BY DEF ReleaseHeldLease, CallReleaseLease, MayFinalize, Outcome
<1>3. CASE ok
  <2>1. lease'[worker[p].lease].holder = Nobody
    BY <1>1, <1>2, <1>3, LeaseWrites
  <2>2. lease'[worker[p].lease].holder # worker[p].claim
    BY <1>1, <2>1, LeaseAssumption
  <2> QED
    BY <1>2, <1>3, <2>2, GotoKnows DEF Provisioning
<1>4. CASE ~ok
  BY <1>2, <1>4, MoveKnows, IdleKnows
<1> QED
  BY <1>3, <1>4

LEMMA AcquireResourceKnows ==
  ASSUME CInv, OneOperator, WorkerKnowsHolder, NEW p \in Operators, AcquireResource(p)
  PROVE  WorkerKnowsHolder'
<1>1. worker[p].at = "acquireResource" /\ lease' = lease
  BY DEF AcquireResource, At, leaseVars
<1>2. lease[worker[p].lease].exists => lease[worker[p].lease].holder = worker[p].claim
  BY <1>1 DEF WorkerKnowsHolder, KnowsHolder, Provisioning
<1>3. CASE Goto(p, "bind")
  BY <1>1, <1>2, <1>3, GotoKnows
<1>4. CASE worker' = [worker EXCEPT ![p] =
                   [@ EXCEPT !.at = "provisionFailed", !.retry = TRUE]]
  <2> DEFINE x == [worker[p] EXCEPT !.at = "provisionFailed", !.retry = TRUE]
  <2>1. x.at = "provisionFailed" /\ x.claim = worker[p].claim /\ x.lease = worker[p].lease
    BY <1>1, BusyFacts, RetryType
  <2>2. worker' = [worker EXCEPT ![p] = x]
    BY <1>4
  <2> HIDE DEF x
  <2>3. KnowsHolder(x, lease')
    BY <1>1, <1>2, <2>1 DEF KnowsHolder
  <2> QED
    BY <2>2, <2>3, MoveKnows
<1> QED
  BY <1>3, <1>4 DEF AcquireResource

(* After a failure the worker stands at undoLease or is idle.              *)
LEMMA FailureKnows ==
  ASSUME CInv, OneOperator, NEW p \in Operators,
         AcquireFailed(p) \/ ProvisionFailed(p) \/ DetailsFailed(p)
             \/ BindClaim(p) \/ RemoveFinalizer(p)
  PROVE  WorkerKnowsHolder'
<1> DEFINE x == [worker[p] EXCEPT !.at = "undoLease"]
           y == [worker[p] EXCEPT !.at = "undoLease", !.retry = TRUE]
<1>1. lease' = lease
  BY DEF AcquireFailed, ProvisionFailed, DetailsFailed, FailProvision, BindClaim,
     RemoveFinalizer, leaseVars
<1>2. worker[p] \in WorkerRecord /\ HasTarget(worker[p])
  BY DEF CInv, ClaimTypeOK, WorkerHasTarget
<1>3. x \in WorkerRecord /\ x.at = "undoLease"
  BY <1>2, SMT DEF WorkerRecord, Steps
<1>4. y \in WorkerRecord /\ y.at = "undoLease"
  BY <1>2, RetryType
<1> HIDE DEF x, y
<1>5. \A w \in {Idle, x, y} : w \in WorkerRecord /\ KnowsHolder(w, lease)
  BY <1>3, <1>4, IdleFacts, IdleKnows, Unconcerned DEF Provisioning
<1>6. CASE AcquireFailed(p) \/ RemoveFinalizer(p)
  BY <1>1, <1>5, <1>6, WriteKnows DEF AcquireFailed, RemoveFinalizer
<1>7. CASE ProvisionFailed(p) \/ DetailsFailed(p)
  BY <1>1, <1>5, <1>7, WriteKnows DEF ProvisionFailed, DetailsFailed, FailProvision, x
<1>8. CASE BindClaim(p)
  <2>1. PICK ok \in BOOLEAN, stored \in BOOLEAN :
            WriteClaim(p, worker[p].claim,
                       Bound(claim[worker[p].claim], worker[p].lease,
                             Duration[worker[p].claim]),
                       CopyCurrent(p), ok, stored, IF ok THEN Idle ELSE y)
    BY <1>8 DEF BindClaim, y
  <2>2. CASE ok
    BY <1>1, <1>5, <2>1, <2>2, WriteKnows
  <2>3. CASE ~ok
    BY <1>1, <1>5, <2>1, <2>3, WriteKnows
  <2> QED
    BY <2>2, <2>3
<1> QED
  BY <1>6, <1>7, <1>8

LEMMA ProceedKnows ==
  ASSUME CInv, LeaseTypeOK, OneOperator, WorkerKnowsHolder, NEW p \in Operators,
         Proceed(p)
  PROVE  WorkerKnowsHolder'
<1>1. CASE UndoLease(p)
  BY <1>1, MoveKnows, IdleKnows DEF UndoLease
<1>2. CASE ReleaseResource(p)
  BY <1>2, GotoKnows DEF ReleaseResource, Provisioning
<1> QED
  BY <1>1, <1>2, AcquireForClaimKnows, AcquireResourceKnows, ReleaseHeldLeaseKnows,
     FailureKnows DEF Proceed, ApiCall

LEMMA TickKnows ==
  ASSUME CInv, LeaseTypeOK, WorkerKnowsHolder, Tick
  PROVE  WorkerKnowsHolder'
<1>1. /\ worker' = worker
      /\ \A l \in Leases : /\ lease'[l].holder = lease[l].holder
                           /\ lease'[l].exists = lease[l].exists
  BY SMT DEF Tick, workVars, TickLeases, Aged, LeaseTypeOK, LeaseRecord
<1>2. \A p \in Operators : /\ worker[p].at \in Provisioning => worker[p].lease \in Leases
                           /\ worker[p].lease \in Leases \cup {NoLease}
  BY DEF CInv, ClaimTypeOK, WorkerHasTarget, HasTarget, WorkerRecord, Provisioning,
     Leasing, Acquiring
<1> QED
  BY <1>1, <1>2 DEF WorkerKnowsHolder, KnowsHolder

(* A lease that is deleted has no holder.                                  *)
LEMMA AdminKnows ==
  ASSUME CInv, LeaseTypeOK, WorkerKnowsHolder, AdminDeletesLease
  PROVE  WorkerKnowsHolder'
<1>1. PICK l \in Leases : lease' = [lease EXCEPT ![l] = Absent]
  BY DEF AdminDeletesLease, DeleteLease, StoreLease
<1>2. Absent.holder = Nobody /\ Absent.exists = FALSE
  BY SMT DEF Absent, FreeLease
<1>3. \A m \in Leases : lease'[m] = lease[m] \/ lease'[m] = Absent
  BY <1>1, SMT DEF LeaseTypeOK
<1>4. worker' = worker
  BY DEF AdminDeletesLease, workVars
<1>5. ASSUME NEW p \in Operators
      PROVE  KnowsHolder(worker[p], lease')
  <2>1. KnowsHolder(worker[p], lease)
    BY DEF WorkerKnowsHolder
  <2>2. worker[p].at \in Provisioning => worker[p].lease \in Leases
    BY DEF CInv, WorkerHasTarget, HasTarget, Provisioning, Leasing, Acquiring
  <2>3. worker[p].at = "removeFinalizer" => worker[p].claim \in Claims
    BY DEF CInv, WorkerHasTarget, HasTarget
  <2>4. worker[p].lease \in Leases \cup {NoLease}
    BY DEF CInv, ClaimTypeOK, WorkerRecord
  <2> QED
    BY <1>2, <1>3, <2>1, <2>2, <2>3, <2>4, LeaseAssumption DEF KnowsHolder
<1> QED
  BY <1>4, <1>5 DEF WorkerKnowsHolder

LEMMA KnowsStep ==
  ASSUME CInv, LeaseTypeOK, OneOperator, WorkerKnowsHolder, [Next]_vars
  PROVE  WorkerKnowsHolder'
<1>1. CASE Users
  BY <1>1, RewriteKnows DEF Users, CreateClaim, DeleteClaim, EditClaim
<1>2. ASSUME NEW p \in Operators, Caches(p) \/ \E c \in Claims : TimerFires(p, c)
      PROVE  WorkerKnowsHolder'
  BY <1>2 DEF Caches, SyncClaims, SyncLeaseCache, SyncLeases, TimerFires, leaseVars,
     workVars, WorkerKnowsHolder, KnowsHolder
<1>3. CASE UNCHANGED vars
  BY <1>3 DEF vars, leaseVars, workVars, WorkerKnowsHolder, KnowsHolder
<1> QED
  BY <1>1, <1>2, <1>3, TickKnows, AdminKnows, ProceedKnows, ReconcileKnows DEF Next

(* What the worker of a single operator has done with a lease stays done:  *)
(* from AcquireLease to the status update its claim holds the lease, and   *)
(* once ReleaseLease has returned it does not hold it any more.            *)
THEOREM KnowsHolderCorrect == OneOperator => (Spec => []WorkerKnowsHolder)
<1> SUFFICES ASSUME OneOperator PROVE Spec => []WorkerKnowsHolder
  OBVIOUS
<1>1. Init => WorkerKnowsHolder
  BY IdleKnows DEF Init, WorkerKnowsHolder
<1>2. CInv /\ LeaseTypeOK /\ WorkerKnowsHolder /\ [Next]_vars => WorkerKnowsHolder'
  BY KnowsStep
<1>3. Spec => []LeaseTypeOK
  BY ControllerUsesManager, LeaseTypeCorrect, PTL
<1> QED
  BY <1>1, <1>2, <1>3, CInvCorrect, PTL DEF Spec

-----------------------------------------------------------------------------
(* A claim that becomes Bound holds its lease at that step, whatever was   *)
(* refused, retried or lost before.                                        *)
THEOREM BoundToOwnLease == OneOperator => (Spec => BindOwnsLease)
<1> SUFFICES ASSUME OneOperator PROVE Spec => BindOwnsLease
  OBVIOUS
<1> DEFINE A == \A c \in Claims :
                    LET v == lease[claim'[c].leaseName] IN
                    claim[c].phase # "Bound" /\ claim'[c].phase = "Bound" /\ v.exists
                        => v.holder = c
<1>1. ASSUME CInv, WorkerKnowsHolder, [Next]_vars
      PROVE  A
  <2> SUFFICES ASSUME NEW c \in Claims, claim[c].phase # "Bound", claim'[c].phase = "Bound",
                      lease[claim'[c].leaseName].exists
               PROVE  lease[claim'[c].leaseName].holder = c
    OBVIOUS
  <2>1. PICK p \in Operators : Binds(p, c)
    BY <1>1, ClaimStep, NoObjectUnbound DEF Modest, Removes
  <2>2. claim'[c].leaseName = worker[p].lease
    <3>1. claim[c] \in ClaimRecord
      BY <1>1 DEF CInv, ClaimTypeOK
    <3> QED
      BY <2>1, <3>1, SMT DEF Binds, Bound, ClaimRecord
  <2> QED
    BY <1>1, <2>1, <2>2 DEF Binds, WorkerKnowsHolder, KnowsHolder, Provisioning
<1>2. CInv /\ WorkerKnowsHolder /\ [Next]_vars => [A]_vars
  BY <1>1
<1>3. Spec => []WorkerKnowsHolder
  BY KnowsHolderCorrect
<1> QED
  BY <1>2, <1>3, CInvCorrect, PTL DEF Spec, BindOwnsLease

(* A claim leaves without the lease its status names: no deletion, however *)
(* often it was retried, leaks a lease.                                    *)
THEOREM RemovedWithoutLease == OneOperator => (Spec => RemovedReleased)
<1> SUFFICES ASSUME OneOperator PROVE Spec => RemovedReleased
  OBVIOUS
<1> DEFINE A == \A c \in Claims :
                    LET l == claim[c].leaseName IN
                    claim[c].finalizer /\ ~claim'[c].finalizer /\ l # NoLease
                        => lease[l].holder # c
<1>1. ASSUME CInv, WorkerKnowsHolder, [Next]_vars
      PROVE  A
  <2> SUFFICES ASSUME NEW c \in Claims, claim[c].finalizer, ~claim'[c].finalizer,
                      claim[c].leaseName # NoLease
               PROVE  lease[claim[c].leaseName].holder # c
    OBVIOUS
  <2>1. ASSUME NEW p \in Operators, Binds(p, c)
        PROVE  FALSE
    <3>1. claim[c] \in ClaimRecord
      BY <1>1 DEF CInv, ClaimTypeOK
    <3>2. claim'[c].finalizer = claim[c].finalizer
      BY <2>1, <3>1, SMT DEF Binds, Bound, ClaimRecord
    <3> QED
      BY <3>2
  <2>2. PICK p \in Operators : Removes(p, c)
    BY <1>1, <2>1, ClaimStep DEF Modest
  <2> QED
    BY <1>1, <2>2 DEF Removes, WorkerKnowsHolder, KnowsHolder
<1>2. CInv /\ WorkerKnowsHolder /\ [Next]_vars => [A]_vars
  BY <1>1
<1>3. Spec => []WorkerKnowsHolder
  BY KnowsHolderCorrect
<1> QED
  BY <1>2, <1>3, CInvCorrect, PTL DEF Spec, RemovedReleased

-----------------------------------------------------------------------------
(* A settled pool: no hazard but failing hooks, and users who create and   *)
(* delete claims whenever they like.  Each of the others breaks it: with   *)
(* late caches, refused writes or lost replies a lease that was given back *)
(* stays held, or one that was given away is still named; and leases are   *)
(* lost to time, to administrators and to edits of spec.type.              *)

Calm == Hazards \subseteq {"provError", "detailsError", "recreate", "overtake"}

LEMMA CalmFacts ==
  ASSUME Calm
  PROVE  {"lag", "expiry", "apiError", "lostReply", "edit", "leaseDeleted"}
             \cap Hazards = {}
  BY SMT DEF Calm

(* A claim of a known type names a lease only while it is Bound, or was    *)
(* when it was deleted.                                                    *)
Named(v) == /\ v.known
            /\ v.leaseName # NoLease => \/ v.phase = "Bound"
                                        \/ v.phase = "Releasing" /\ v.deleting

AllNamed == \A c \in Claims : Named(claim[c])

LEMMA StoreNamed ==
  ASSUME CInv, AllNamed, NEW c \in Claims, NEW v, NEW ws, StoreClaim(c, v, ws), Named(v)
  PROVE  AllNamed'
  BY StoreChanges DEF AllNamed, Named

LEMMA WriteNamed ==
  ASSUME CInv, AllNamed, NEW p \in Operators, NEW c \in Claims, NEW v, NEW current,
         NEW ok, NEW stored, NEW w, WriteClaim(p, c, v, current, ok, stored, w),
         stored => Named(v)
  PROVE  AllNamed'
  BY StoreNamed DEF WriteClaim, AllNamed

(* What is stored as an object that no lease belongs to.                   *)
LEMMA NewNamed == /\ Named(NoObject) /\ Named(NewClaim)
                  /\ NoObject.leaseName = NoLease /\ NewClaim.leaseName = NoLease
  BY SMT DEF Named, NoObject, NewClaim

LEMMA PhaseNamed ==
  ASSUME CInv, AllNamed, NEW c \in Claims, NEW ph,
         WantsLease(claim[c]) \/ (ph = "Releasing" /\ claim[c].deleting)
  PROVE  Named([claim[c] EXCEPT !.phase = ph])
<1>1. claim[c] \in ClaimRecord /\ Named(claim[c])
  BY DEF CInv, ClaimTypeOK, AllNamed
<1>2. LET v == [claim[c] EXCEPT !.phase = ph] IN
      /\ v.phase = ph /\ v.known = claim[c].known
      /\ v.leaseName = claim[c].leaseName /\ v.deleting = claim[c].deleting
  BY <1>1 DEF ClaimRecord
<1> QED
  BY <1>1, <1>2 DEF Named, WantsLease, Live

LEMMA OtherNamed ==
  ASSUME CInv, AllNamed, NEW c \in Claims
  PROVE  /\ Named([claim[c] EXCEPT !.finalizer = TRUE])
         /\ Named([claim[c] EXCEPT !.finalizer = FALSE])
         /\ Named(Deleted(claim[c]))
         /\ Named(Aged(claim[c]))
         /\ \A l, t : Named(Bound(claim[c], l, t))
<1>1. claim[c] \in ClaimRecord /\ Named(claim[c])
  BY DEF CInv, ClaimTypeOK, AllNamed
<1>2. \A b : LET v == [claim[c] EXCEPT !.finalizer = b] IN
      /\ v.phase = claim[c].phase /\ v.known = claim[c].known
      /\ v.leaseName = claim[c].leaseName /\ v.deleting = claim[c].deleting
  BY <1>1 DEF ClaimRecord
<1>3. LET v == [claim[c] EXCEPT !.deleting = TRUE] IN
      /\ v.phase = claim[c].phase /\ v.known = claim[c].known
      /\ v.leaseName = claim[c].leaseName /\ v.deleting
  BY <1>1 DEF ClaimRecord
<1>4. Named(Deleted(claim[c]))
  BY <1>1, <1>3, NewNamed DEF Named, Deleted
<1>5. /\ Aged(claim[c]).phase = claim[c].phase /\ Aged(claim[c]).known = claim[c].known
      /\ Aged(claim[c]).leaseName = claim[c].leaseName
      /\ Aged(claim[c]).deleting = claim[c].deleting
  BY <1>1 DEF Aged, ClaimRecord
<1>6. \A l, t : /\ Bound(claim[c], l, t).known = claim[c].known
                /\ Bound(claim[c], l, t).phase = "Bound"
  BY <1>1 DEF Bound, ClaimRecord
<1>7. \A b : Named([claim[c] EXCEPT !.finalizer = b])
  BY <1>1, <1>2 DEF Named
<1>8. Named(Aged(claim[c]))
  BY <1>1, <1>5 DEF Named
<1>9. \A l, t : Named(Bound(claim[c], l, t))
  BY <1>1, <1>6 DEF Named
<1> QED
  BY <1>4, <1>7, <1>8, <1>9

LEMMA ReconcileNamed ==
  ASSUME CInv, AllNamed, NEW p \in Operators, NEW c \in Claims, Reconcile(p, c)
  PROVE  AllNamed'
<1>1. Current(p, c) => claimView[p][c] = claim[c]
  BY DEF Current, CInv, CachedClaimIsCurrent
<1>2. CASE ReconcileIgnored(p, c) \/ BoundWaits(p, c) \/ \E l \in Leases : FoundLease(p, c, l)
  BY <1>2 DEF ReconcileIgnored, BoundWaits, FoundLease, claimVars, AllNamed, Named
<1>3. CASE ReconcileUnknownType(p, c)
  <2>1. PICK ok, stored \in BOOLEAN :
            WriteClaim(p, c, [claim[c] EXCEPT !.phase = "UnknownType"], Current(p, c),
                       ok, stored, Idle)
    BY <1>3 DEF ReconcileUnknownType
  <2>2. ~stored
    BY <1>1, <1>3, <2>1 DEF ReconcileUnknownType, WriteClaim, Outcome, AllNamed, Named
  <2> QED
    BY <2>1, <2>2, WriteNamed
<1>4. CASE AddFinalizer(p, c) \/ BoundExpired(p, c)
  BY <1>4, WriteNamed, OtherNamed DEF AddFinalizer, BoundExpired
<1>5. CASE NoLeaseFree(p, c) \/ FoundUnconfigured(p, c)
  <2>1. WantsLease(claimView[p][c])
    BY <1>5 DEF NoLeaseFree, FoundUnconfigured
  <2>2. PICK ok, stored \in BOOLEAN : \E ph :
            WriteClaim(p, c, [claim[c] EXCEPT !.phase = ph], Current(p, c), ok, stored, Idle)
    BY <1>5 DEF NoLeaseFree, FoundUnconfigured
  <2>3. stored => WantsLease(claim[c])
    BY <1>1, <2>1, <2>2 DEF WriteClaim, Outcome
  <2> QED
    BY <2>2, <2>3, WriteNamed, PhaseNamed
<1>6. CASE BeginDeletion(p, c)
  <2>1. claimView[p][c].deleting
    BY <1>6 DEF BeginDeletion
  <2>2. CASE UNCHANGED claimVars
    BY <2>2 DEF claimVars, AllNamed, Named
  <2>3. CASE \E ok, stored \in BOOLEAN : \E w :
                WriteClaim(p, c, [claim[c] EXCEPT !.phase = "Releasing"], Current(p, c),
                           ok, stored, w)
    <3>1. PICK ok, stored \in BOOLEAN : \E w :
              WriteClaim(p, c, [claim[c] EXCEPT !.phase = "Releasing"], Current(p, c),
                         ok, stored, w)
      BY <2>3
    <3>2. stored => claim[c].deleting
      BY <1>1, <2>1, <3>1 DEF WriteClaim, Outcome
    <3> QED
      BY <3>1, <3>2, WriteNamed, PhaseNamed
  <2> QED
    BY <1>6, <2>2, <2>3 DEF BeginDeletion
<1> QED
  BY <1>2, <1>3, <1>4, <1>5, <1>6 DEF Reconcile

LEMMA ProceedNamed ==
  ASSUME CInv, AllNamed, NEW p \in Operators, Proceed(p)
  PROVE  AllNamed'
<1>1. worker[p].at # "idle"
  BY DEF Proceed, ApiCall, At, AcquireForClaim, AcquireFailed, AcquireResource,
     ProvisionFailed, DetailsFailed, BindClaim, UndoLease, ReleaseResource,
     ReleaseHeldLease, RemoveFinalizer
<1>2. worker[p].claim \in Claims /\ UsableFor(worker[p], claim[worker[p].claim])
  BY <1>1, BusyFacts
<1>3. CASE UNCHANGED claimVars
  BY <1>3 DEF claimVars, AllNamed, Named
<1>4. CASE AcquireFailed(p) \/ ProvisionFailed(p) \/ DetailsFailed(p)
  <2>1. worker[p].at \in Acquiring
    BY <1>4 DEF AcquireFailed, ProvisionFailed, DetailsFailed, At, Acquiring
  <2>2. PICK ok, stored \in BOOLEAN : \E ph, w :
            WriteClaim(p, worker[p].claim, [claim[worker[p].claim] EXCEPT !.phase = ph],
                       worker[p].fresh, ok, stored, w)
    BY <1>4 DEF AcquireFailed, ProvisionFailed, DetailsFailed, FailProvision, CopyCurrent
  <2>3. stored => WantsLease(claim[worker[p].claim])
    BY <1>2, <2>1, <2>2 DEF WriteClaim, Outcome, UsableFor
  <2> QED
    BY <1>2, <2>2, <2>3, WriteNamed, PhaseNamed
<1>5. CASE BindClaim(p)
  BY <1>2, <1>5, WriteNamed, OtherNamed DEF BindClaim
<1>6. CASE RemoveFinalizer(p)
  <2>1. Named(Finalized(claim[worker[p].claim]))
    BY <1>2, OtherNamed, NewNamed DEF Finalized
  <2> QED
    BY <1>2, <1>6, <2>1, WriteNamed DEF RemoveFinalizer
<1> QED
  BY <1>3, <1>4, <1>5, <1>6 DEF Proceed, ApiCall, AcquireForClaim, AcquireResource,
     UndoLease, ReleaseResource, ReleaseHeldLease

LEMMA NamedNext ==
  ASSUME "edit" \notin Hazards, CInv, AllNamed, [Next]_vars
  PROVE  AllNamed'
<1>1. CASE claim' = claim
  BY <1>1 DEF AllNamed, Named
<1>2. CASE Users
  BY <1>2, StoreNamed, OtherNamed, NewNamed
     DEF Users, CreateClaim, DeleteClaim, EditClaim, Rewrite
<1>3. CASE Tick
  BY <1>3, OtherNamed DEF Tick, AllNamed
<1> QED
  BY <1>1, <1>2, <1>3, ReconcileNamed, ProceedNamed DEF Next, Caches, SyncClaims,
     SyncLeaseCache, TimerFires, AdminDeletesLease, vars, claimVars

(* A claim that is Bound names a lease.                                    *)
BoundNamed == \A c \in Claims : claim[c].phase = "Bound" => claim[c].leaseName \in Leases

LEMMA BoundNamedStep ==
  ASSUME CInv, BoundNamed, NEW c \in Claims,
         \/ Modest(claim[c], claim'[c])
         \/ \E p \in Operators : Binds(p, c) \/ Removes(p, c)
  PROVE  claim'[c].phase = "Bound" => claim'[c].leaseName \in Leases
<1>1. CASE Modest(claim[c], claim'[c])
  BY <1>1 DEF Modest, BoundNamed
<1>2. ASSUME NEW p \in Operators, Binds(p, c)
      PROVE  claim'[c].leaseName \in Leases
  <2>1. claim'[c].leaseName = worker[p].lease
    <3>1. claim[c] \in ClaimRecord
      BY DEF CInv, ClaimTypeOK
    <3> QED
      BY <1>2, <3>1 DEF Binds, Bound, ClaimRecord
  <2> QED
    BY <1>2, <2>1, BusyFacts DEF Binds, HasTarget, Leasing, Acquiring
<1>3. ASSUME NEW p \in Operators, Removes(p, c)
      PROVE  claim'[c].phase # "Bound"
  BY <1>3, NoObjectUnbound DEF Removes
<1> QED
  BY <1>1, <1>2, <1>3

(* Where the worker must have its lease: from AcquireLease to the status   *)
(* update or the release that makes up for it.                             *)
Holding == Provisioning \cup {"undoLease"}

(* The worker at w knows the holder of its lease, and that the status it   *)
(* has read or written of its claim still is as it was.                    *)
WorkerSettled(w, cl, ls) ==
    /\ w.at \in Holding => ls[w.lease].holder = w.claim
    /\ w.at \in Acquiring \cup {"undoLease"} => cl[w.claim].leaseName = NoLease
    /\ w.at \in Finalizing => w.fresh /\ cl[w.claim].phase = "Releasing"
    /\ w.at = "removeFinalizer" /\ w.lease # NoLease => ls[w.lease].holder = Nobody

(* A claim that names a lease holds it, until handleDeletion released it.  *)
ClaimSettled(w, cl, ls, c) ==
    LET l == cl[c].leaseName IN
    l # NoLease => \/ ls[l].holder = c
                   \/ w.at = "removeFinalizer" /\ w.claim = c

(* The holder of a lease names it, or will as soon as the worker is done.  *)
LeaseSettled(w, cl, ls, l) ==
    LET c == ls[l].holder IN
    c # Nobody => /\ ls[l].exists /\ ls[l].ttl > 0
                  /\ \/ cl[c].leaseName = l
                     \/ w.at \in Holding /\ w.claim = c /\ w.lease = l

SettledAt(w, cl, ls) ==
    /\ WorkerSettled(w, cl, ls)
    /\ \A c \in Claims : ClaimSettled(w, cl, ls, c)
    /\ \A l \in Leases : LeaseSettled(w, cl, ls, l)

Settled == \A p \in Operators : SettledAt(worker[p], claim, lease)

(* The inductive invariant: what is known of every claim and lease at any  *)
(* moment between two calls of the worker.                                 *)
SInv == CInv /\ LeaseTypeOK /\ CachedLeaseIsCurrent /\ AllNamed /\ Settled

-----------------------------------------------------------------------------
(* In a calm environment a write succeeds if the copy is current.          *)

LEMMA CalmOutcome ==
  ASSUME Calm, NEW current, NEW ok \in BOOLEAN, NEW stored \in BOOLEAN,
         Outcome(current, ok, stored)
  PROVE  (ok <=> current) /\ (stored <=> current)
  BY CalmFacts DEF Outcome

LEMMA CalmViews ==
  ASSUME Calm, CInv, CachedLeaseIsCurrent, NEW p \in Operators, Ready(p)
  PROVE  /\ \A c \in Claims : Current(p, c) /\ claimView[p][c] = claim[c]
         /\ \A l \in Leases : leaseView[p][l] = lease[l] /\ l \notin leaseBehind[p]
  BY CalmFacts DEF Ready, Current, CInv, CachedClaimIsCurrent, CachedLeaseIsCurrent

LEMMA CalmWrite ==
  ASSUME Calm, CInv, OneOperator, NEW p \in Operators, NEW c \in Claims, NEW v,
         NEW current \in BOOLEAN, NEW ok \in BOOLEAN, NEW stored \in BOOLEAN, NEW w,
         WriteClaim(p, c, v, current, ok, stored, w)
  PROVE  /\ ok <=> current
         /\ \A q \in Operators : worker'[q] = w
         /\ \A d \in Claims : claim'[d] = IF d = c /\ current THEN v ELSE claim[d]
<1>1. (ok <=> current) /\ (stored <=> current)
  BY CalmOutcome DEF WriteClaim
<1>2. claim \in [Claims -> ClaimRecord]
  BY DEF CInv, ClaimTypeOK
<1>3. CASE stored /\ v # claim[c]
  <2>1. worker' = [Outdate(c, worker) EXCEPT ![p] = w] /\ claim' = [claim EXCEPT ![c] = v]
    BY <1>1, <1>3 DEF WriteClaim, StoreClaim
  <2>2. worker'[p] = w
    BY <2>1 DEF Outdate
  <2> QED
    BY <1>1, <1>2, <1>3, <2>1, <2>2 DEF OneOperator
<1>4. CASE ~(stored /\ v # claim[c])
  <2>1. worker' = [worker EXCEPT ![p] = w] /\ claim' = [claim EXCEPT ![c] = claim[c]]
    BY <1>4 DEF WriteClaim, StoreClaim
  <2>2. worker'[p] = w
    BY <2>1 DEF CInv, ClaimTypeOK
  <2> QED
    BY <1>1, <1>2, <1>4, <2>1, <2>2 DEF OneOperator
<1> QED
  BY <1>3, <1>4

LEMMA SettleAll ==
  ASSUME NEW w, \A q \in Operators : worker'[q] = w, SettledAt(w, claim', lease')
  PROVE  Settled'
  BY DEF Settled, SettledAt, WorkerSettled, ClaimSettled, LeaseSettled

LEMMA MovesTo ==
  ASSUME CInv, OneOperator, NEW p \in Operators, NEW w, worker' = [worker EXCEPT ![p] = w]
  PROVE  \A q \in Operators : worker'[q] = w
  BY DEF OneOperator, CInv, ClaimTypeOK

LEMMA IdleSettled == \A cl, ls : WorkerSettled(Idle, cl, ls)
  BY SMT DEF Idle, WorkerSettled, Holding, Provisioning, Acquiring, Finalizing

(* The claims name the leases they named before.                           *)
NamesKept == \A d \in Claims : claim'[d].leaseName = claim[d].leaseName

(* The worker keeps what others rely on: the lease of its claim, and that  *)
(* it has released one.                                                    *)
Upholds(w, x) ==
    /\ w.at \in Holding => x.at \in Holding /\ x.claim = w.claim /\ x.lease = w.lease
    /\ w.at = "removeFinalizer" => x.at = w.at /\ x.claim = w.claim

LEMMA PoolStays ==
  ASSUME LeaseTypeOK, NEW w, NEW x, SettledAt(w, claim, lease), Upholds(w, x),
         NamesKept, lease' = lease, WorkerSettled(x, claim', lease')
  PROVE  SettledAt(x, claim', lease')
<1>1. \A l \in Leases : lease[l].holder # Nobody => lease[l].holder \in Claims
  BY DEF LeaseTypeOK, LeaseRecord
<1>2. \A c \in Claims : ClaimSettled(x, claim', lease', c)
  BY DEF SettledAt, ClaimSettled, NamesKept, Upholds
<1>3. \A l \in Leases : LeaseSettled(x, claim', lease', l)
  BY <1>1 DEF SettledAt, LeaseSettled, NamesKept, Upholds
<1> QED
  BY <1>2, <1>3 DEF SettledAt

-----------------------------------------------------------------------------
(* Every step of the reconciler and of the users leaves the pool settled.  *)

(* Reconcile ends with one update, which names no other lease.             *)
LEMMA IdleWriteSettles ==
  ASSUME Calm, SInv, OneOperator, NEW p \in Operators, NEW c \in Claims, NEW v,
         NEW current \in BOOLEAN, NEW ok \in BOOLEAN, NEW stored \in BOOLEAN,
         WriteClaim(p, c, v, current, ok, stored, Idle), worker[p] = Idle,
         lease' = lease, current => v.leaseName = claim[c].leaseName
  PROVE  Settled'
<1>1. /\ \A q \in Operators : worker'[q] = Idle
      /\ \A d \in Claims : claim'[d] = IF d = c /\ current THEN v ELSE claim[d]
  BY CalmWrite DEF SInv
<1>2. NamesKept
  BY <1>1 DEF NamesKept
<1>3. SettledAt(Idle, claim, lease) /\ Upholds(Idle, Idle)
  BY DEF SInv, Settled, Upholds
<1>4. SettledAt(Idle, claim', lease')
  BY <1>2, <1>3, IdleSettled, PoolStays DEF SInv
<1> QED
  BY <1>1, <1>4, SettleAll

LEMMA SameName ==
  ASSUME CInv, NEW c \in Claims
  PROVE  /\ [claim[c] EXCEPT !.finalizer = TRUE].leaseName = claim[c].leaseName
         /\ \A ph : [claim[c] EXCEPT !.phase = ph].leaseName = claim[c].leaseName
         /\ Deleted(claim[c]).leaseName = claim[c].leaseName
         /\ ~claim[c].exists => NewClaim.leaseName = claim[c].leaseName
<1>1. claim[c] \in ClaimRecord /\ Storable(claim[c])
  BY StoredFacts DEF CInv, ClaimTypeOK
<1>2. NoObject.leaseName = NoLease /\ NewClaim.leaseName = NoLease
  BY NewNamed
<1>3. Deleted(claim[c]).leaseName = claim[c].leaseName
  BY <1>1, <1>2 DEF Deleted, Storable, ClaimRecord
<1> QED
  BY <1>1, <1>2, <1>3 DEF Storable, ClaimRecord

LEMMA FoundLeaseSettles ==
  ASSUME Calm, SInv, OneOperator, NEW p \in Operators, NEW c \in Claims, NEW l \in Leases,
         FoundLease(p, c, l)
  PROVE  Settled'
<1> DEFINE w == [at |-> "acquireLease", claim |-> c, lease |-> l,
                 fresh |-> Current(p, c), retry |-> FALSE]
<1>1. worker' = [worker EXCEPT ![p] = w] /\ claim' = claim /\ lease' = lease
  BY DEF FoundLease, claimVars, leaseVars
<1>2. worker[p] = Idle /\ Ready(p) /\ WantsLease(claimView[p][c])
  BY DEF FoundLease, Dequeue
<1>3. WantsLease(claim[c]) /\ Named(claim[c])
  BY <1>2, CalmViews DEF SInv, AllNamed
<1>4. claim[c].leaseName = NoLease
  BY <1>3 DEF WantsLease, Live, Named
<1>5. w.at = "acquireLease" /\ w.claim = c
  OBVIOUS
<1> HIDE DEF w
<1>6. WorkerSettled(w, claim, lease)
  BY <1>4, <1>5 DEF WorkerSettled, Holding, Provisioning, Finalizing
<1>7. SettledAt(Idle, claim, lease) /\ Upholds(Idle, w)
  BY <1>2, SMT DEF SInv, Settled, Upholds, Idle, Holding, Provisioning
<1>8. SettledAt(w, claim', lease')
  BY <1>1, <1>6, <1>7, PoolStays DEF SInv, NamesKept
<1> QED
  BY <1>1, <1>8, MovesTo, SettleAll DEF SInv

LEMMA BeginDeletionSettles ==
  ASSUME Calm, SInv, OneOperator, NEW p \in Operators, NEW c \in Claims, BeginDeletion(p, c)
  PROVE  Settled'
<1> DEFINE v == claimView[p][c]
           w == [at |-> IF v.leaseName = NoLease THEN "removeFinalizer"
                                                 ELSE "releaseResource",
                 claim |-> c, lease |-> v.leaseName,
                 fresh |-> Current(p, c), retry |-> FALSE]
           x == [claim[c] EXCEPT !.phase = "Releasing"]
<1>1. worker[p] = Idle /\ Ready(p) /\ lease' = lease
  BY DEF BeginDeletion, Dequeue, leaseVars
<1>2. v = claim[c] /\ Current(p, c)
  BY <1>1, CalmViews DEF SInv
<1>3. PICK ok \in BOOLEAN, stored \in BOOLEAN :
          IF v.phase = "Releasing"
          THEN worker' = [worker EXCEPT ![p] = w] /\ UNCHANGED claimVars
          ELSE WriteClaim(p, c, x, Current(p, c), ok, stored, w)
  BY DEF BeginDeletion
<1>4. /\ (w.at = "removeFinalizer" /\ w.lease = NoLease) \/ w.at = "releaseResource"
      /\ w.claim = c /\ w.fresh = Current(p, c)
  OBVIOUS
<1>5. x.leaseName = claim[c].leaseName /\ x.phase = "Releasing"
  <2>1. claim[c] \in ClaimRecord
    BY DEF SInv, CInv, ClaimTypeOK
  <2> QED
    BY <2>1 DEF ClaimRecord
<1> HIDE DEF v, w, x
<1>6. /\ \A q \in Operators : worker'[q] = w
      /\ NamesKept /\ claim'[c].phase = "Releasing"
  <2>1. CASE v.phase = "Releasing"
    BY <1>2, <1>3, <2>1, MovesTo DEF SInv, claimVars, NamesKept
  <2>2. CASE v.phase # "Releasing"
    <3>1. /\ \A q \in Operators : worker'[q] = w
          /\ \A d \in Claims : claim'[d] = IF d = c THEN x ELSE claim[d]
      <4>1. CInv
        BY DEF SInv
      <4> DEFINE current == Current(p, c)
      <4>2. current \in BOOLEAN
        BY DEF Current
      <4>3. WriteClaim(p, c, x, current, ok, stored, w)
        BY <1>3, <2>2
      <4>4. current
        BY <1>2
      <4> HIDE DEF current
      <4>5. /\ \A q \in Operators : worker'[q] = w
            /\ \A d \in Claims : claim'[d] = IF d = c /\ current THEN x ELSE claim[d]
        BY <4>1, <4>2, <4>3, CalmWrite
      <4> QED
        BY <4>4, <4>5
    <3> QED
      BY <1>5, <3>1 DEF NamesKept
  <2> QED
    BY <2>1, <2>2
<1>7. WorkerSettled(w, claim', lease')
  BY <1>2, <1>4, <1>6 DEF WorkerSettled, Holding, Provisioning, Acquiring
<1>8. SettledAt(Idle, claim, lease) /\ Upholds(Idle, w)
  BY <1>1, SMT DEF SInv, Settled, Upholds, Idle, Holding, Provisioning
<1> QED
  BY <1>1, <1>6, <1>7, <1>8, PoolStays, SettleAll DEF SInv

LEMMA ReconcileSettles ==
  ASSUME Calm, SInv, OneOperator, NEW p \in Operators, NEW c \in Claims, Reconcile(p, c)
  PROVE  Settled'
<1>1. CASE ReconcileIgnored(p, c) \/ BoundWaits(p, c)
  <2>1. worker' = worker /\ claim' = claim /\ lease' = lease
    BY <1>1 DEF ReconcileIgnored, BoundWaits, leaseVars, claimVars
  <2> QED
    BY <2>1 DEF SInv, Settled, SettledAt, WorkerSettled, ClaimSettled, LeaseSettled
<1>2. CASE ReconcileUnknownType(p, c) \/ NoLeaseFree(p, c) \/ FoundUnconfigured(p, c)
  <2>1. PICK ok \in BOOLEAN, stored \in BOOLEAN : \E ph :
            WriteClaim(p, c, [claim[c] EXCEPT !.phase = ph], Current(p, c), ok, stored, Idle)
    BY <1>2 DEF ReconcileUnknownType, NoLeaseFree, FoundUnconfigured
  <2>2. worker[p] = Idle /\ lease' = lease
    BY <1>2 DEF ReconcileUnknownType, NoLeaseFree, FoundUnconfigured, Dequeue, leaseVars
  <2>3. Current(p, c) \in BOOLEAN
    BY DEF Current
  <2> QED
    BY <2>1, <2>2, <2>3, IdleWriteSettles, SameName DEF SInv
<1>3. CASE AddFinalizer(p, c) \/ BoundExpired(p, c)
  <2>1. PICK ok \in BOOLEAN, stored \in BOOLEAN : \E current \in BOOLEAN :
            \/ WriteClaim(p, c, [claim[c] EXCEPT !.finalizer = TRUE], current, ok, stored, Idle)
            \/ WriteClaim(p, c, Deleted(claim[c]), current, ok, stored, Idle)
    BY <1>3 DEF AddFinalizer, BoundExpired, Current
  <2>2. worker[p] = Idle /\ lease' = lease
    BY <1>3 DEF AddFinalizer, BoundExpired, Dequeue, leaseVars
  <2> QED
    BY <2>1, <2>2, IdleWriteSettles, SameName DEF SInv
<1> QED
  BY <1>1, <1>2, <1>3, FoundLeaseSettles, BeginDeletionSettles DEF Reconcile

(* The worker goes to s, where it upholds and relies on no more than       *)
(* where it is.                                                            *)
LEMMA GotoSettles ==
  ASSUME SInv, OneOperator, NEW p \in Operators, NEW s, Goto(p, s),
         claim' = claim, lease' = lease,
         worker[p].at \in Holding <=> s \in Holding,
         s \in Acquiring => worker[p].at \in Acquiring,
         s \in Finalizing => worker[p].at \in Finalizing,
         s # "undoLease", worker[p].at # "removeFinalizer", s # "removeFinalizer"
  PROVE  Settled'
<1> DEFINE x == [worker[p] EXCEPT !.at = s]
<1>1. /\ x.at = s /\ x.claim = worker[p].claim /\ x.lease = worker[p].lease
      /\ x.fresh = worker[p].fresh
  BY DEF SInv, CInv, ClaimTypeOK, WorkerRecord
<1>2. worker' = [worker EXCEPT ![p] = x]
  BY DEF Goto
<1> HIDE DEF x
<1>3. SettledAt(worker[p], claim, lease)
  BY DEF SInv, Settled
<1>4. WorkerSettled(x, claim, lease) /\ Upholds(worker[p], x)
  BY <1>1, <1>3 DEF SettledAt, WorkerSettled, Upholds
<1>5. SettledAt(x, claim', lease')
  BY <1>3, <1>4, PoolStays DEF SInv, NamesKept
<1> QED
  BY <1>2, <1>5, MovesTo, SettleAll DEF SInv

(* A lease that AcquireLease may take has no holder: no time passes.       *)
LEMMA AcquireForClaimSettles ==
  ASSUME Calm, SInv, OneOperator, NEW p \in Operators, AcquireForClaim(p)
  PROVE  Settled'
<1> DEFINE c == worker[p].claim
           l == worker[p].lease
<1>1. worker[p].at = "acquireLease" /\ Ready(p) /\ claim' = claim
  BY DEF AcquireForClaim, At, claimVars
<1>2. c \in Claims /\ l \in Leases
  BY <1>1, BusyFacts DEF SInv, HasTarget, Leasing, Acquiring
<1>3. SettledAt(worker[p], claim, lease)
  BY DEF SInv, Settled
<1>4. leaseView[p][l] = lease[l] /\ l \notin leaseBehind[p]
  BY <1>1, <1>2, CalmViews DEF SInv
<1>5. PICK ok \in BOOLEAN, stored \in BOOLEAN :
          /\ Outcome(StillFree(p, l) /\ LeaseCurrent(p, l), ok, stored)
          /\ IF stored THEN AcquireLease(p, c, l) ELSE UNCHANGED leaseVars
          /\ Goto(p, AfterAcquire(ok))
  BY DEF AcquireForClaim
<1>6. (ok <=> stored) /\ (stored <=> StillFree(p, l) /\ LeaseCurrent(p, l))
  BY <1>5, CalmOutcome
<1>7. CASE stored
  <2> DEFINE x == [worker[p] EXCEPT !.at = "acquireResource"]
  <2>1. x.at = "acquireResource" /\ x.claim = c /\ x.lease = l
    BY DEF SInv, CInv, ClaimTypeOK, WorkerRecord
  <2>2. worker' = [worker EXCEPT ![p] = x]
    BY <1>5, <1>6, <1>7 DEF Goto, AfterAcquire
  <2> HIDE DEF x
  <2>3. isLeaseFree(lease[l])
    BY <1>4, <1>6, <1>7 DEF StillFree
  <2>4. lease[l].holder = Nobody
    BY <1>2, <1>3, <2>3 DEF SettledAt, LeaseSettled, isLeaseFree
  <2>5. lease' = [lease EXCEPT ![l] = HeldBy(c)]
    BY <1>5, <1>7 DEF AcquireLease, StoreLease
  <2>6. /\ lease'[l] = HeldBy(c)
        /\ \A m \in Leases : m # l => lease'[m] = lease[m]
    BY <1>2, <2>5 DEF SInv, LeaseTypeOK
  <2>7. HeldBy(c).exists /\ HeldBy(c).holder = c /\ HeldBy(c).ttl > 0
    BY <1>2, LeaseAssumption, SMT DEF HeldBy
  <2>8. WorkerSettled(x, claim', lease')
    BY <1>1, <1>3, <2>1, <2>6, <2>7
       DEF SettledAt, WorkerSettled, Acquiring, Holding, Finalizing
  <2>9. ASSUME NEW d \in Claims
        PROVE  ClaimSettled(x, claim', lease', d)
    <3>1. claim[d].leaseName \in Leases \cup {NoLease}
      BY DEF SInv, CInv, ClaimTypeOK, ClaimRecord
    <3> QED
      BY <1>1, <1>3, <2>1, <2>4, <2>6, <3>1, LeaseAssumption DEF SettledAt, ClaimSettled
  <2>10. ASSUME NEW m \in Leases
         PROVE  LeaseSettled(x, claim', lease', m)
    BY <1>1, <1>3, <2>1, <2>6, <2>7
       DEF SettledAt, LeaseSettled, Holding, Provisioning
  <2>11. SettledAt(x, claim', lease')
    BY <2>8, <2>9, <2>10 DEF SettledAt
  <2> QED
    BY <2>2, <2>11, MovesTo, SettleAll DEF SInv
<1>8. CASE ~stored
  <2>1. Goto(p, "acquireFailed") /\ lease' = lease
    BY <1>5, <1>6, <1>8 DEF AfterAcquire, leaseVars
  <2> QED
    BY <1>1, <2>1, GotoSettles DEF Holding, Provisioning, Acquiring, Finalizing
<1> QED
  BY <1>7, <1>8

LEMMA ReleaseResourceSettles ==
  ASSUME SInv, OneOperator, NEW p \in Operators, ReleaseResource(p)
  PROVE  Settled'
<1>1. /\ worker[p].at = "releaseResource" /\ Goto(p, "releaseLease")
      /\ claim' = claim /\ lease' = lease
  BY DEF ReleaseResource, At, claimVars, leaseVars
<1> QED
  BY <1>1, GotoSettles DEF Holding, Provisioning, Acquiring, Finalizing

(* The worker goes on with the lease it has acquired.                      *)
LEMMA HoldingOn ==
  ASSUME SInv, NEW p \in Operators, worker[p].at \in Provisioning,
         NEW x, x.at \in Provisioning \cup {"undoLease"},
         x.claim = worker[p].claim, x.lease = worker[p].lease,
         NamesKept, lease' = lease
  PROVE  SettledAt(x, claim', lease')
<1>1. worker[p].claim \in Claims
  BY BusyFacts DEF SInv, Provisioning
<1>2. SettledAt(worker[p], claim, lease)
  BY DEF SInv, Settled
<1>3. /\ worker[p].at \in Holding /\ worker[p].at \in Acquiring
      /\ worker[p].at # "removeFinalizer" /\ x.at \in Holding
      /\ x.at \notin Finalizing /\ x.at # "removeFinalizer"
  BY DEF Provisioning, Holding, Acquiring, Finalizing
<1>4. WorkerSettled(x, claim', lease')
  BY <1>1, <1>2, <1>3 DEF SettledAt, WorkerSettled, NamesKept
<1> QED
  BY <1>2, <1>3, <1>4, PoolStays DEF SInv, Upholds

LEMMA AcquireResourceSettles ==
  ASSUME SInv, OneOperator, NEW p \in Operators, AcquireResource(p)
  PROVE  Settled'
<1>1. worker[p].at = "acquireResource" /\ claim' = claim /\ lease' = lease
  BY DEF AcquireResource, At, claimVars, leaseVars
<1>2. CASE Goto(p, "bind")
  BY <1>1, <1>2, GotoSettles DEF Holding, Provisioning, Acquiring, Finalizing
<1>3. CASE worker' = [worker EXCEPT ![p] =
                   [@ EXCEPT !.at = "provisionFailed", !.retry = TRUE]]
  <2> DEFINE x == [worker[p] EXCEPT !.at = "provisionFailed", !.retry = TRUE]
  <2>1. x.at = "provisionFailed" /\ x.claim = worker[p].claim /\ x.lease = worker[p].lease
    BY <1>1, BusyFacts, RetryType DEF SInv
  <2>2. worker' = [worker EXCEPT ![p] = x]
    BY <1>3
  <2> HIDE DEF x
  <2>3. SettledAt(x, claim', lease')
    BY <1>1, <2>1, HoldingOn DEF Provisioning, NamesKept
  <2> QED
    BY <2>2, <2>3, MovesTo, SettleAll DEF SInv
<1> QED
  BY <1>2, <1>3 DEF AcquireResource

LEMMA AcquireFailedSettles ==
  ASSUME Calm, SInv, OneOperator, NEW p \in Operators, AcquireFailed(p)
  PROVE  Settled'
<1> DEFINE c == worker[p].claim
<1>1. worker[p].at = "acquireFailed" /\ lease' = lease
  BY DEF AcquireFailed, At, leaseVars
<1>2. c \in Claims /\ worker[p].fresh \in BOOLEAN
  BY <1>1, BusyFacts DEF SInv, WorkerRecord
<1>3. PICK ok \in BOOLEAN, stored \in BOOLEAN :
          WriteClaim(p, c, [claim[c] EXCEPT !.phase = "LeaseLost"],
                     worker[p].fresh, ok, stored, Idle)
  BY DEF AcquireFailed, CopyCurrent
<1>4. (\A q \in Operators : worker'[q] = Idle) /\ NamesKept
  <2>1. /\ \A q \in Operators : worker'[q] = Idle
        /\ \A d \in Claims :
               claim'[d] = IF d = c /\ worker[p].fresh
                           THEN [claim[c] EXCEPT !.phase = "LeaseLost"] ELSE claim[d]
    BY <1>2, <1>3, CalmWrite DEF SInv
  <2>2. claim[c] \in ClaimRecord
    BY <1>2 DEF SInv, CInv, ClaimTypeOK
  <2>3. [claim[c] EXCEPT !.phase = "LeaseLost"].leaseName = claim[c].leaseName
    BY <2>2 DEF ClaimRecord
  <2> QED
    BY <1>2, <2>1, <2>3 DEF NamesKept
<1>5. SettledAt(worker[p], claim, lease) /\ Upholds(worker[p], Idle)
  BY <1>1 DEF SInv, Settled, Upholds, Holding, Provisioning
<1>6. SettledAt(Idle, claim', lease')
  BY <1>1, <1>4, <1>5, IdleSettled, PoolStays DEF SInv
<1> QED
  BY <1>4, <1>6, SettleAll

LEMMA FailProvisionSettles ==
  ASSUME Calm, SInv, OneOperator, NEW p \in Operators, NEW why, FailProvision(p, why),
         worker[p].at \in Provisioning
  PROVE  Settled'
<1> DEFINE c == worker[p].claim
           x == [worker[p] EXCEPT !.at = "undoLease"]
<1>1. lease' = lease
  BY DEF FailProvision, leaseVars
<1>2. c \in Claims /\ worker[p].fresh \in BOOLEAN
  BY BusyFacts DEF SInv, WorkerRecord, Provisioning
<1>3. PICK ok \in BOOLEAN, stored \in BOOLEAN :
          WriteClaim(p, c, [claim[c] EXCEPT !.phase = why], worker[p].fresh, ok, stored, x)
  BY DEF FailProvision, CopyCurrent
<1>4. x.at = "undoLease" /\ x.claim = worker[p].claim /\ x.lease = worker[p].lease
  BY DEF SInv, CInv, ClaimTypeOK, WorkerRecord
<1> HIDE DEF x
<1>5. (\A q \in Operators : worker'[q] = x) /\ NamesKept
  <2>1. /\ \A q \in Operators : worker'[q] = x
        /\ \A d \in Claims :
               claim'[d] = IF d = c /\ worker[p].fresh
                           THEN [claim[c] EXCEPT !.phase = why] ELSE claim[d]
    BY <1>2, <1>3, CalmWrite DEF SInv
  <2>2. claim[c] \in ClaimRecord
    BY <1>2 DEF SInv, CInv, ClaimTypeOK
  <2>3. [claim[c] EXCEPT !.phase = why].leaseName = claim[c].leaseName
    BY <2>2 DEF ClaimRecord
  <2> QED
    BY <1>2, <2>1, <2>3 DEF NamesKept
<1>6. SettledAt(x, claim', lease')
  BY <1>1, <1>4, <1>5, HoldingOn
<1> QED
  BY <1>5, <1>6, SettleAll

(* The claim names the lease it holds as soon as it is Bound.              *)
LEMMA BindClaimSettles ==
  ASSUME Calm, SInv, OneOperator, NEW p \in Operators, BindClaim(p)
  PROVE  Settled'
<1> DEFINE c == worker[p].claim
           l == worker[p].lease
           v == Bound(claim[c], l, Duration[c])
           y == [worker[p] EXCEPT !.at = "undoLease", !.retry = TRUE]
<1>1. worker[p].at = "bind" /\ lease' = lease
  BY DEF BindClaim, At, leaseVars
<1>2. c \in Claims /\ l \in Leases /\ worker[p].fresh \in BOOLEAN
  BY <1>1, BusyFacts DEF SInv, WorkerRecord, HasTarget, Leasing, Acquiring
<1>3. PICK ok \in BOOLEAN, stored \in BOOLEAN :
          WriteClaim(p, c, v, worker[p].fresh, ok, stored, IF ok THEN Idle ELSE y)
  BY DEF BindClaim, CopyCurrent
<1>4. y.at = "undoLease" /\ y.claim = c /\ y.lease = l
  BY <1>1, BusyFacts, RetryType DEF SInv
<1>5. v.leaseName = l
  <2>1. claim[c] \in ClaimRecord
    BY <1>2 DEF SInv, CInv, ClaimTypeOK
  <2> QED
    BY <2>1 DEF Bound, ClaimRecord
<1> HIDE DEF v, y
<1>6. /\ ok <=> worker[p].fresh
      /\ \A q \in Operators : worker'[q] = IF ok THEN Idle ELSE y
      /\ \A d \in Claims : claim'[d] = IF d = c /\ worker[p].fresh THEN v ELSE claim[d]
  <2> DEFINE w == IF ok THEN Idle ELSE y
  <2>1. WriteClaim(p, c, v, worker[p].fresh, ok, stored, w)
    BY <1>3
  <2> HIDE DEF w
  <2>2. /\ ok <=> worker[p].fresh
        /\ \A q \in Operators : worker'[q] = w
        /\ \A d \in Claims : claim'[d] = IF d = c /\ worker[p].fresh THEN v ELSE claim[d]
    BY <1>2, <2>1, CalmWrite DEF SInv
  <2> QED
    BY <2>2 DEF w
<1>7. SettledAt(worker[p], claim, lease)
  BY DEF SInv, Settled
<1>8. CASE ok
  <2>1. /\ claim'[c].leaseName = l
        /\ \A d \in Claims : d # c => claim'[d].leaseName = claim[d].leaseName
    BY <1>2, <1>5, <1>6, <1>8
  <2>2. lease[l].holder = c
    BY <1>1, <1>7 DEF SettledAt, WorkerSettled, Holding, Provisioning
  <2>3. claim[c].leaseName = NoLease
    BY <1>1, <1>7 DEF SettledAt, WorkerSettled, Acquiring
  <2>4. ASSUME NEW d \in Claims
        PROVE  ClaimSettled(Idle, claim', lease', d)
    BY <1>1, <1>7, <2>1, <2>2 DEF SettledAt, ClaimSettled
  <2>5. ASSUME NEW m \in Leases
        PROVE  LeaseSettled(Idle, claim', lease', m)
    <3>1. lease[m].holder \in Claims \cup {Nobody}
      BY DEF SInv, LeaseTypeOK, LeaseRecord
    <3> QED
      BY <1>1, <1>7, <2>1, <2>3, <3>1, ControllerAssumption DEF SettledAt, LeaseSettled
  <2>6. SettledAt(Idle, claim', lease')
    BY <2>4, <2>5, IdleSettled DEF SettledAt
  <2>7. \A q \in Operators : worker'[q] = Idle
    BY <1>6, <1>8
  <2> QED
    BY <2>6, <2>7, SettleAll
<1>9. CASE ~ok
  <2>1. (\A q \in Operators : worker'[q] = y) /\ NamesKept
    BY <1>6, <1>9 DEF NamesKept
  <2>2. SettledAt(y, claim', lease')
    BY <1>1, <1>4, <2>1, HoldingOn DEF Provisioning
  <2> QED
    BY <2>1, <2>2, SettleAll
<1> QED
  BY <1>8, <1>9

(* ReleaseLease does what it was called for.                               *)
LEMMA CalmRelease ==
  ASSUME Calm, SInv, NEW p \in Operators, Ready(p), NEW l \in Leases, lease[l].exists,
         NEW ok \in BOOLEAN, NEW stored \in BOOLEAN, CallReleaseLease(p, l, ok, stored)
  PROVE  /\ ok /\ lease'[l].holder = Nobody
         /\ \A m \in Leases : m # l => lease'[m] = lease[m]
<1>1. LeaseCurrent(p, l)
  BY CalmViews DEF SInv, LeaseCurrent
<1>2. ok /\ stored
  BY <1>1, CalmOutcome DEF CallReleaseLease
<1>3. lease' = [lease EXCEPT ![l] = FreeLease]
  BY <1>2 DEF CallReleaseLease, ReleaseLease, StoreLease
<1>4. FreeLease.holder = Nobody
  BY DEF FreeLease
<1> QED
  BY <1>2, <1>3, <1>4 DEF SInv, LeaseTypeOK

LEMMA UndoLeaseSettles ==
  ASSUME Calm, SInv, OneOperator, NEW p \in Operators, UndoLease(p)
  PROVE  Settled'
<1> DEFINE c == worker[p].claim
           l == worker[p].lease
<1>1. /\ worker[p].at = "undoLease" /\ Ready(p) /\ claim' = claim
      /\ worker' = [worker EXCEPT ![p] = Idle]
  BY DEF UndoLease, At, claimVars
<1>2. c \in Claims /\ l \in Leases
  BY <1>1, BusyFacts DEF SInv, HasTarget, Leasing
<1>3. SettledAt(worker[p], claim, lease)
  BY DEF SInv, Settled
<1>4. lease[l].holder = c /\ claim[c].leaseName = NoLease
  BY <1>1, <1>3 DEF SettledAt, WorkerSettled, Holding
<1>5. lease[l].exists
  BY <1>2, <1>3, <1>4, LeaseAssumption DEF SettledAt, LeaseSettled
<1>6. lease'[l].holder = Nobody /\ \A m \in Leases : m # l => lease'[m] = lease[m]
  <2>1. PICK ok \in BOOLEAN, stored \in BOOLEAN : CallReleaseLease(p, l, ok, stored)
    BY DEF UndoLease
  <2> QED
    BY <1>1, <1>2, <1>5, <2>1, CalmRelease
<1>7. ASSUME NEW d \in Claims
      PROVE  ClaimSettled(Idle, claim', lease', d)
  <2>1. claim[d].leaseName \in Leases \cup {NoLease}
    BY DEF SInv, CInv, ClaimTypeOK, ClaimRecord
  <2> QED
    BY <1>1, <1>3, <1>4, <1>6, <2>1 DEF SettledAt, ClaimSettled
<1>8. ASSUME NEW m \in Leases
      PROVE  LeaseSettled(Idle, claim', lease', m)
  BY <1>1, <1>3, <1>6 DEF SettledAt, LeaseSettled
<1>9. SettledAt(Idle, claim', lease')
  BY <1>7, <1>8, IdleSettled DEF SettledAt
<1> QED
  BY <1>1, <1>9, MovesTo, SettleAll DEF SInv

(* handleDeletion's ReleaseLease, of the lease its claim holds.            *)
LEMMA ReleaseHeldLeaseSettles ==
  ASSUME Calm, SInv, OneOperator, NEW p \in Operators, ReleaseHeldLease(p)
  PROVE  Settled'
<1> DEFINE c == worker[p].claim
           l == worker[p].lease
           x == [worker[p] EXCEPT !.at = "removeFinalizer"]
<1>1. worker[p].at = "releaseLease" /\ Ready(p) /\ claim' = claim
  BY DEF ReleaseHeldLease, At, claimVars
<1>2. c \in Claims /\ l \in Leases /\ UsableFor(worker[p], claim[c])
  BY <1>1, BusyFacts DEF SInv, HasTarget, Leasing
<1>3. SettledAt(worker[p], claim, lease)
  BY DEF SInv, Settled
<1>4. worker[p].fresh /\ claim[c].phase = "Releasing" /\ claim[c].leaseName = l
  BY <1>1, <1>2, <1>3 DEF SettledAt, WorkerSettled, UsableFor, Finalizing
<1>5. lease[l].holder = c
  BY <1>1, <1>2, <1>3, <1>4, ControllerAssumption DEF SettledAt, ClaimSettled
<1>6. lease[l].exists
  BY <1>2, <1>3, <1>5, LeaseAssumption DEF SettledAt, LeaseSettled
<1>7. PICK ok \in BOOLEAN, stored \in BOOLEAN :
          /\ CallReleaseLease(p, l, ok, stored)
          /\ ok => worker' = [worker EXCEPT ![p] = x]
  BY DEF ReleaseHeldLease, MayFinalize, Goto
<1>8. /\ x.at = "removeFinalizer" /\ x.claim = c /\ x.lease = l
      /\ x.fresh = worker[p].fresh
  BY DEF SInv, CInv, ClaimTypeOK, WorkerRecord
<1> HIDE DEF x
<1>9. /\ worker' = [worker EXCEPT ![p] = x] /\ lease'[l].holder = Nobody
      /\ \A m \in Leases : m # l => lease'[m] = lease[m]
  BY <1>1, <1>2, <1>6, <1>7, CalmRelease
<1>10. WorkerSettled(x, claim', lease')
  BY <1>1, <1>4, <1>8, <1>9 DEF WorkerSettled, Holding, Provisioning, Acquiring
<1>11. ASSUME NEW d \in Claims
       PROVE  ClaimSettled(x, claim', lease', d)
  <2>1. claim[d].leaseName \in Leases \cup {NoLease}
    BY DEF SInv, CInv, ClaimTypeOK, ClaimRecord
  <2> QED
    BY <1>1, <1>3, <1>5, <1>8, <1>9, <2>1 DEF SettledAt, ClaimSettled
<1>12. ASSUME NEW m \in Leases
       PROVE  LeaseSettled(x, claim', lease', m)
  BY <1>1, <1>3, <1>9 DEF SettledAt, LeaseSettled, Holding, Provisioning
<1>13. SettledAt(x, claim', lease')
  BY <1>10, <1>11, <1>12 DEF SettledAt
<1> QED
  BY <1>9, <1>13, MovesTo, SettleAll DEF SInv

(* The claim goes once its lease has.                                      *)
LEMMA RemoveFinalizerSettles ==
  ASSUME Calm, SInv, OneOperator, NEW p \in Operators, RemoveFinalizer(p)
  PROVE  Settled'
<1> DEFINE c == worker[p].claim
<1>1. worker[p].at = "removeFinalizer" /\ lease' = lease
  BY DEF RemoveFinalizer, At, leaseVars
<1>2. c \in Claims /\ UsableFor(worker[p], claim[c])
  BY <1>1, BusyFacts DEF SInv
<1>3. SettledAt(worker[p], claim, lease)
  BY DEF SInv, Settled
<1>4. /\ worker[p].fresh = TRUE /\ claim[c].deleting
      /\ claim[c].leaseName = worker[p].lease
  <2>1. worker[p].fresh \in BOOLEAN
    BY <1>1, BusyFacts DEF SInv, WorkerRecord
  <2> QED
    BY <1>1, <1>2, <1>3, <2>1 DEF SettledAt, WorkerSettled, UsableFor, Finalizing
<1>5. /\ \A q \in Operators : worker'[q] = Idle
      /\ \A d \in Claims : claim'[d] = IF d = c THEN NoObject ELSE claim[d]
  <2>1. PICK ok \in BOOLEAN, stored \in BOOLEAN :
            WriteClaim(p, c, Finalized(claim[c]), worker[p].fresh, ok, stored, Idle)
    BY DEF RemoveFinalizer, CopyCurrent
  <2>2. Finalized(claim[c]) = NoObject /\ worker[p].fresh \in BOOLEAN
    BY <1>4 DEF Finalized
  <2>3. /\ \A q \in Operators : worker'[q] = Idle
        /\ \A d \in Claims : claim'[d] = IF d = c /\ worker[p].fresh
                                          THEN NoObject ELSE claim[d]
    BY <1>2, <2>1, <2>2, CalmWrite DEF SInv
  <2> QED
    BY <1>4, <2>3
<1>6. /\ claim'[c].leaseName = NoLease
      /\ \A d \in Claims : d # c => claim'[d].leaseName = claim[d].leaseName
  BY <1>2, <1>5, NewNamed
<1>7. ASSUME NEW d \in Claims
      PROVE  ClaimSettled(Idle, claim', lease', d)
  BY <1>1, <1>3, <1>6 DEF SettledAt, ClaimSettled
<1>8. ASSUME NEW m \in Leases
      PROVE  LeaseSettled(Idle, claim', lease', m)
  <2>1. lease[m].holder \in Claims \cup {Nobody}
    BY DEF SInv, LeaseTypeOK, LeaseRecord
  <2>2. CASE lease[m].holder = c /\ claim[c].leaseName = m
    BY <1>1, <1>2, <1>3, <1>4, <2>2, ControllerAssumption, LeaseAssumption
       DEF SettledAt, WorkerSettled
  <2>3. CASE ~(lease[m].holder = c /\ claim[c].leaseName = m)
    BY <1>1, <1>3, <1>6, <2>1, <2>3 DEF SettledAt, LeaseSettled, Holding, Provisioning
  <2> QED
    BY <2>2, <2>3
<1>9. SettledAt(Idle, claim', lease')
  BY <1>7, <1>8, IdleSettled DEF SettledAt
<1> QED
  BY <1>5, <1>9, SettleAll

(* Users create and delete: a claim that handleDeletion works on is there  *)
(* and deleted already, so its status stays as the worker knows it.        *)
LEMMA UsersSettle ==
  ASSUME Calm, SInv, OneOperator, Users
  PROVE  Settled'
<1> SUFFICES ASSUME NEW p \in Operators PROVE SettledAt(worker'[p], claim', lease')
  BY DEF Settled, SettledAt, WorkerSettled, ClaimSettled, LeaseSettled
<1>1. PICK c \in Claims :
          \/ ~claim[c].exists /\ Rewrite(c, NewClaim)
          \/ claim[c].exists /\ ~claim[c].deleting /\ Rewrite(c, Deleted(claim[c]))
  BY CalmFacts DEF Users, CreateClaim, DeleteClaim, EditClaim
<1>2. /\ worker' = Outdate(c, worker) /\ lease' = lease
      /\ \A d \in Claims : d # c => claim'[d] = claim[d]
      /\ claim'[c].leaseName = claim[c].leaseName
  <2>1. PICK v : Rewrite(c, v) /\ v.leaseName = claim[c].leaseName
    BY <1>1, SameName DEF SInv
  <2> QED
    BY <2>1, StoreChanges DEF SInv, Rewrite, leaseVars, StoreClaim
<1>3. NamesKept
  BY <1>2 DEF NamesKept
<1>4. SettledAt(worker[p], claim, lease) /\ worker[p] \in WorkerRecord
  BY DEF SInv, CInv, Settled, ClaimTypeOK
<1>5. worker[p].at \in Finalizing => worker[p].claim # c
  <2>1. SUFFICES ASSUME worker[p].at \in Finalizing PROVE worker[p].claim # c
    OBVIOUS
  <2>2. claim[worker[p].claim].deleting /\ worker[p].claim \in Claims
    BY <1>4, <2>1, BusyFacts DEF SInv, SettledAt, WorkerSettled, UsableFor, Finalizing
  <2>3. claim[worker[p].claim].exists
    BY <2>2 DEF SInv, CInv, FinalizerHolds
  <2> QED
    BY <1>1, <2>2, <2>3
<1>6. CASE worker[p].claim = c
  <2> DEFINE x == [worker[p] EXCEPT !.fresh = FALSE]
  <2>1. worker'[p] = x
    BY <1>2, <1>6 DEF Outdate
  <2>2. x.at = worker[p].at /\ x.claim = worker[p].claim /\ x.lease = worker[p].lease
    BY <1>4 DEF WorkerRecord
  <2> HIDE DEF x
  <2>3. WorkerSettled(x, claim', lease') /\ Upholds(worker[p], x)
    BY <1>2, <1>4, <1>5, <1>6, <2>2
       DEF SettledAt, WorkerSettled, Upholds, Finalizing
  <2> QED
    BY <1>2, <1>3, <1>4, <2>1, <2>3, PoolStays DEF SInv
<1>7. CASE worker[p].claim # c
  <2>1. worker'[p] = worker[p]
    BY <1>2, <1>7 DEF Outdate
  <2>2. worker[p].at # "idle" => worker[p].claim \in Claims
    BY BusyFacts DEF SInv
  <2>3. WorkerSettled(worker[p], claim', lease') /\ Upholds(worker[p], worker[p])
    BY <1>2, <1>4, <1>7, <2>2
       DEF SettledAt, WorkerSettled, Upholds, Holding, Provisioning, Acquiring, Finalizing
  <2> QED
    BY <1>2, <1>3, <1>4, <2>1, <2>3, PoolStays DEF SInv
<1> QED
  BY <1>6, <1>7

LEMMA SettledStep ==
  ASSUME Calm, OneOperator, SInv, [Next]_vars
  PROVE  Settled'
<1>1. ASSUME NEW p \in Operators, Caches(p) \/ \E c \in Claims : TimerFires(p, c)
      PROVE  Settled'
  <2>1. claim' = claim /\ lease' = lease /\ worker' = worker
    BY <1>1 DEF Caches, SyncClaims, SyncLeaseCache, SyncLeases, TimerFires, leaseVars,
       claimVars, workVars
  <2> QED
    BY <2>1 DEF SInv, Settled, SettledAt, WorkerSettled, ClaimSettled, LeaseSettled
<1>2. CASE UNCHANGED vars
  BY <1>2 DEF vars, leaseVars, claimVars, workVars, SInv, Settled, SettledAt,
     WorkerSettled, ClaimSettled, LeaseSettled
<1>3. ASSUME NEW p \in Operators, Proceed(p)
      PROVE  Settled'
  <2>1. CASE ProvisionFailed(p) \/ DetailsFailed(p)
    BY <2>1, FailProvisionSettles DEF ProvisionFailed, DetailsFailed, At, Provisioning
  <2> QED
    BY <1>3, <2>1, AcquireForClaimSettles, AcquireFailedSettles, BindClaimSettles,
       UndoLeaseSettles, ReleaseHeldLeaseSettles, RemoveFinalizerSettles,
       AcquireResourceSettles, ReleaseResourceSettles DEF Proceed, ApiCall
<1>4. CASE Tick \/ AdminDeletesLease
  BY <1>4, CalmFacts DEF Tick, AdminDeletesLease
<1> QED
  BY <1>1, <1>2, <1>3, <1>4, ReconcileSettles, UsersSettle DEF Next

-----------------------------------------------------------------------------
(* What a settled pool means for its users.                                *)

LEMMA BoundNamedNext ==
  ASSUME CInv, BoundNamed, [Next]_vars
  PROVE  BoundNamed'
  BY ClaimStep, BoundNamedStep DEF BoundNamed

(* The worker there is knows of every lease.                               *)
LEMMA SettledPool ==
  ASSUME CInv, BoundNamed, NEW p \in Operators, SettledAt(worker[p], claim, lease)
  PROVE  BoundOwnsLease /\ NoOrphanLease
<1>1. ASSUME NEW c \in Claims, claim[c].phase = "Bound"
      PROVE  lease[claim[c].leaseName].holder = c
  <2>1. claim[c].leaseName # NoLease
    BY <1>1, ControllerAssumption DEF BoundNamed
  <2> QED
    BY <1>1, <2>1 DEF SettledAt, ClaimSettled, WorkerSettled, Finalizing
<1>2. ASSUME NEW l \in Leases, lease[l].holder # Nobody
      PROVE  \/ claim[lease[l].holder].leaseName = l
             \/ worker[p].claim = lease[l].holder /\ worker[p].lease = l
  BY <1>2 DEF SettledAt, LeaseSettled
<1> QED
  BY <1>1, <1>2 DEF BoundOwnsLease, NoOrphanLease

LEMMA SettledInit ==
  ASSUME Init
  PROVE  AllNamed /\ BoundNamed /\ Settled
<1>1. /\ \A c \in Claims : claim[c] = NoObject \/ claim[c] = NewClaim
      /\ \A p \in Operators : worker[p] = Idle
      /\ \A l \in Leases : lease[l].holder = Nobody
  BY NoHolder DEF Init, LeaseInit
<1>2. \A c \in Claims : claim[c].leaseName = NoLease /\ claim[c].phase # "Bound"
  BY <1>1, NewNamed, SMT DEF NoObject, NewClaim
<1>3. \A p \in Operators : SettledAt(worker[p], claim, lease)
  BY <1>1, <1>2, IdleSettled DEF SettledAt, ClaimSettled, LeaseSettled
<1> QED
  BY <1>1, <1>2, <1>3, NewNamed DEF AllNamed, BoundNamed, Settled

LEMMA SettledCorrect ==
  ASSUME OneOperator, Calm
  PROVE  Spec => [](SInv /\ BoundNamed)
<1>1. Init => AllNamed /\ BoundNamed /\ Settled
  BY SettledInit
<1>2. CInv /\ LeaseTypeOK /\ CachedLeaseIsCurrent /\ (AllNamed /\ BoundNamed /\ Settled)
          /\ [Next]_vars => (AllNamed /\ BoundNamed /\ Settled)'
  BY SettledStep, NamedNext, BoundNamedNext, CalmFacts DEF SInv
<1>3. Spec => []LeaseTypeOK /\ []CachedLeaseIsCurrent
  BY ControllerUsesManager, LeaseTypeCorrect, CacheCorrect, PTL
<1>4. CInv /\ LeaseTypeOK /\ CachedLeaseIsCurrent /\ (AllNamed /\ BoundNamed /\ Settled)
          => SInv /\ BoundNamed
  BY DEF SInv
<1> QED
  BY <1>1, <1>2, <1>3, <1>4, CInvCorrect, PTL DEF Spec

(* With one process in a calm environment, a claim that is Bound holds the *)
(* lease its status names, and no lease is held by a claim that neither    *)
(* names it nor is being served: whatever the hooks do, and though claims  *)
(* are deleted and created again while the worker is busy with them.       *)
THEOREM PoolConsistent ==
  OneOperator /\ Operators # {} /\ Calm => (Spec => [](BoundOwnsLease /\ NoOrphanLease))
<1> SUFFICES ASSUME OneOperator, Operators # {}, Calm
             PROVE  Spec => [](BoundOwnsLease /\ NoOrphanLease)
  OBVIOUS
<1>1. SInv /\ BoundNamed => BoundOwnsLease /\ NoOrphanLease
  BY SettledPool DEF SInv, Settled
<1> QED
  BY <1>1, SettledCorrect, PTL

(* So no two claims are ever Bound to the same account there.              *)
THEOREM NeverShared ==
  OneOperator /\ Operators # {} /\ Calm => (Spec => []NoSharedLease)
<1>1. BoundOwnsLease => NoSharedLease
  BY DEF BoundOwnsLease, NoSharedLease
<1> QED
  BY <1>1, PoolConsistent, PTL

-----------------------------------------------------------------------------
(* The assignment that users see.                                          *)

(* Whoever is bound now gets another lease than those that are bound.      *)
LEMMA BindsAnother ==
  ASSUME SInv, BoundNamed, NEW p \in Operators, NEW c \in Claims, Binds(p, c),
         NEW d \in Claims, claim[d].phase = "Bound"
  PROVE  claim'[c].leaseName # claim[d].leaseName
<1>1. claim'[c].leaseName = worker[p].lease
  <2>1. claim[c] \in ClaimRecord
    BY DEF SInv, CInv, ClaimTypeOK
  <2> QED
    BY <2>1 DEF Binds, Bound, ClaimRecord
<1>2. SettledAt(worker[p], claim, lease)
  BY DEF SInv, Settled
<1>3. lease[worker[p].lease].holder = c
  BY <1>2 DEF SettledAt, WorkerSettled, Holding, Provisioning, Binds
<1>4. lease[claim[d].leaseName].holder = d
  BY <1>2, SettledPool DEF SInv, BoundOwnsLease
<1>5. c # d
  BY DEF Binds, WantsLease
<1> QED
  BY <1>1, <1>3, <1>4, <1>5

(* A claim that becomes Bound does so to a lease that suits it and that no *)
(* other claim is Bound to; a Bound claim stays where it is or is Bound no *)
(* longer.                                                                 *)
BindsApart(c) ==
    claim'[c].phase = "Bound" =>
        IF claim[c].phase = "Bound" THEN claim'[c].leaseName = claim[c].leaseName
        ELSE \A d \in Claims : claim[d].phase = "Bound"
                                   => claim'[c].leaseName # claim[d].leaseName

LEMMA StepBindsApart ==
  ASSUME SInv, BoundNamed, NEW c \in Claims,
         \/ Modest(claim[c], claim'[c])
         \/ \E p \in Operators : Binds(p, c) \/ Removes(p, c)
  PROVE  BindsApart(c)
<1>1. CASE Modest(claim[c], claim'[c])
  BY <1>1 DEF Modest, BindsApart
<1>2. ASSUME NEW p \in Operators, Binds(p, c)
      PROVE  BindsApart(c)
  BY <1>2, BindsAnother DEF BindsApart, Binds, WantsLease
<1>3. ASSUME NEW p \in Operators, Removes(p, c)
      PROVE  BindsApart(c)
  BY <1>3, NoObjectUnbound DEF Removes, BindsApart
<1> QED
  BY <1>1, <1>2, <1>3

LEMMA AgedBound ==
  ASSUME CInv, Tick, NEW c \in Claims
  PROVE  claim'[c].phase = claim[c].phase /\ claim'[c].leaseName = claim[c].leaseName
<1>1. claim[c] \in ClaimRecord /\ claim'[c] = Aged(claim[c])
  BY DEF CInv, ClaimTypeOK, Tick
<1> QED
  BY <1>1 DEF Aged, ClaimRecord

LEMMA AssignmentMaps ==
  ASSUME CInv, BoundNamed, BoundNamed', BoundMatchesLabels', Alone \/ Tick,
         \A c \in Claims : BindsApart(c)
  PROVE  [Sharing!Next]_assigned
<1> DEFINE seen(c) == IF claim[c].phase = "Bound" THEN claim[c].leaseName ELSE NoLease
           after(c) == IF claim'[c].phase = "Bound" THEN claim'[c].leaseName ELSE NoLease
<1>1. assigned = [c \in Claims |-> seen(c)] /\ assigned' = [c \in Claims |-> after(c)]
  BY DEF assigned
<1>2. CASE \A c \in Claims : after(c) = seen(c)
  <2> HIDE DEF seen, after
  <2>1. assigned' = assigned
    BY <1>1, <1>2
  <2> QED
    BY <2>1
<1>3. ASSUME NEW c \in Claims, after(c) # seen(c)
      PROVE  Sharing!Next
  <2>1. Alone
    BY <1>3, AgedBound
  <2>2. \A d \in Claims \ {c} : after(d) = seen(d)
    BY <1>3, <2>1 DEF Alone
  <2>3. assigned' = [assigned EXCEPT ![c] = after(c)]
    <3> HIDE DEF seen, after
    <3> QED
      BY <1>1, <2>2
  <2>4. CASE claim'[c].phase # "Bound"
    <3>1. Sharing!Unbind(c)
      BY <2>3, <2>4 DEF Sharing!Unbind
    <3> QED
      BY <3>1 DEF Sharing!Next
  <2>5. CASE claim'[c].phase = "Bound"
    <3> DEFINE l == claim'[c].leaseName
    <3>1. l \in Leases /\ after(c) = l
      BY <2>5 DEF BoundNamed
    <3>2. claim[c].phase # "Bound"
      BY <1>3, <2>5 DEF BindsApart
    <3>3. \A d \in Claims : seen(d) # l
      BY <2>5, <3>1, <3>2, ControllerAssumption DEF BindsApart
    <3>4. <<c, l>> \in suiting
      BY <2>5, <3>1 DEF suiting, BoundMatchesLabels
    <3>5. seen(c) = NoLease
      BY <3>2
    <3> HIDE DEF seen, after, l
    <3>6. assigned[c] = NoLease /\ \A d \in Claims : assigned[d] # l
      BY <1>1, <3>3, <3>5
    <3>7. Sharing!Bind(c, l)
      BY <2>3, <3>1, <3>4, <3>6 DEF Sharing!Bind
    <3> QED
      BY <3>1, <3>7 DEF Sharing!Next
  <2> QED
    BY <2>4, <2>5
<1> QED
  BY <1>2, <1>3

LEMMA AssignmentStart ==
  ASSUME \A c \in Claims : claim[c] = NoObject \/ claim[c] = NewClaim
  PROVE  Sharing!Init
<1>1. NoObject.phase # "Bound" /\ NewClaim.phase # "Bound"
  BY SMT DEF NoObject, NewClaim
<1> QED
  BY <1>1 DEF Sharing!Init, assigned

(* In a calm environment the reconciler implements Assignment: accounts    *)
(* are shared without conflicts, each with a claim that it suits.          *)
THEOREM AssignmentImplemented ==
  OneOperator /\ Operators # {} /\ Calm => (Spec => ImplementsAssignment)
<1> SUFFICES ASSUME OneOperator, Operators # {}, Calm
             PROVE  Spec => ImplementsAssignment
  OBVIOUS
<1>1. Init => Sharing!Init
  BY AssignmentStart DEF Init
<1>2. SInv /\ BoundNamed /\ BoundNamed' /\ BoundMatchesLabels' /\ [Next]_vars
          => [Sharing!Next]_assigned
  <2> SUFFICES ASSUME SInv, BoundNamed, BoundNamed', BoundMatchesLabels', [Next]_vars
               PROVE  [Sharing!Next]_assigned
    OBVIOUS
  <2>1. CInv
    BY DEF SInv
  <2>2. \A c \in Claims : BindsApart(c)
    BY <2>1, ClaimStep, StepBindsApart
  <2>3. Alone \/ Tick
    BY <2>1, NextAlone
  <2> QED
    BY <2>1, <2>2, <2>3, AssignmentMaps
<1>3. Spec => [](SInv /\ BoundNamed)
  BY SettledCorrect
<1> QED
  BY <1>1, <1>2, <1>3, LabelsMatch, PTL DEF Spec, ImplementsAssignment, Sharing!Spec
=============================================================================
