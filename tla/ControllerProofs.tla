--------------------------- MODULE ControllerProofs ---------------------------
(***************************************************************************)
(* Proofs about ResourceClaimController: for any operators, claims and     *)
(* leases, and whatever Hazards contains.                                  *)
(*                                                                         *)
(* IInv splits into the part of the lease manager and CInv, the part of    *)
(* the claims and of the workers' copies of them.  Every action changes a  *)
(* claim in one of three ways: not at all while its worker moves           *)
(* (MoveKeeps), by the update of a worker (WriteKeeps), or by a user       *)
(* (RewriteKeeps).                                                         *)
(***************************************************************************)
EXTENDS ResourceClaimController, LeaseManagerProofs

CInv == /\ ClaimTypeOK /\ WorkerHasTarget
        /\ CachedClaimIsCurrent /\ CopyIsUsable
        /\ FinalizerHolds /\ LeaseNameHasFinalizer

(* A claim that may be stored.                                             *)
Storable(v) == /\ v \in ClaimRecord
               /\ v.deleting => v.finalizer
               /\ v.leaseName # NoLease => v.finalizer
               /\ v.finalizer => v.exists

LEMMA IdleFacts == /\ Idle \in WorkerRecord /\ HasTarget(Idle)
                   /\ \A v : UsableFor(Idle, v)
  BY SMT DEF Idle, WorkerRecord, Steps, HasTarget, Leasing, Acquiring, UsableFor

(* Updates of the Boolean fields keep a record's type.                     *)
LEMMA FlagTypes ==
  ASSUME NEW b \in BOOLEAN
  PROVE  /\ \A w \in WorkerRecord : [w EXCEPT !.fresh = b] \in WorkerRecord
         /\ \A v \in ClaimRecord : /\ [v EXCEPT !.exists = b] \in ClaimRecord
                                   /\ [v EXCEPT !.deleting = b] \in ClaimRecord
                                   /\ [v EXCEPT !.finalizer = b] \in ClaimRecord
                                   /\ [v EXCEPT !.known = b] \in ClaimRecord
  BY SMT DEF WorkerRecord, ClaimRecord

(* A worker whose copy got outdated.                                       *)
LEMMA StaleFacts ==
  ASSUME NEW w \in WorkerRecord, HasTarget(w)
  PROVE  LET s == [w EXCEPT !.fresh = FALSE] IN
         /\ s \in WorkerRecord /\ HasTarget(s) /\ s.claim = w.claim
         /\ \A v : UsableFor(s, v)
<1> DEFINE s == [w EXCEPT !.fresh = FALSE]
<1>1. s \in WorkerRecord
  BY FlagTypes
<1>2. s.at = w.at /\ s.claim = w.claim /\ s.lease = w.lease /\ s.fresh = FALSE
  BY SMT DEF WorkerRecord
<1> HIDE DEF s
<1>3. HasTarget(s) /\ \A v : UsableFor(s, v)
  BY <1>2 DEF HasTarget, UsableFor
<1> QED
  BY <1>1, <1>2, <1>3 DEF s

LEMMA NoObjectFacts == Storable(NoObject) /\ Storable(NewClaim)
<1>1. NoObject \in ClaimRecord
  BY SMT DEF NoObject, ClaimRecord, Phases
<1>2. NewClaim \in ClaimRecord
  BY <1>1, FlagTypes DEF NewClaim
<1>3. \A v \in {NoObject, NewClaim} : ~v.deleting /\ v.leaseName = NoLease /\ ~v.finalizer
  BY SMT DEF NoObject, NewClaim
<1> QED
  BY <1>1, <1>2, <1>3 DEF Storable

LEMMA StoredFacts ==
  ASSUME CInv, NEW c \in Claims
  PROVE  Storable(claim[c])
<1>1. claim[c] \in ClaimRecord
  BY DEF CInv, ClaimTypeOK
<1> QED
  BY <1>1 DEF CInv, FinalizerHolds, LeaseNameHasFinalizer, Storable

-----------------------------------------------------------------------------
(* The worker of p moves to w and no claim changes.                        *)
LEMMA MoveKeeps ==
  ASSUME CInv, NEW p \in Operators, NEW w \in WorkerRecord,
         UNCHANGED claimVars, worker' = [worker EXCEPT ![p] = w],
         HasTarget(w), UsableFor(w, claim[w.claim])
  PROVE  CInv'
<1>1. ClaimTypeOK'
  BY SMT DEF CInv, ClaimTypeOK, claimVars
<1>2. \A q \in Operators : worker'[q] = IF q = p THEN w ELSE worker[q]
  BY SMT DEF CInv, ClaimTypeOK
<1>3. WorkerHasTarget'
  BY <1>2 DEF CInv, WorkerHasTarget, HasTarget
<1>4. CopyIsUsable'
  BY <1>2 DEF CInv, CopyIsUsable, UsableFor, WantsLease, Live, claimVars
<1>5. (CachedClaimIsCurrent /\ FinalizerHolds /\ LeaseNameHasFinalizer)'
  BY DEF CInv, CachedClaimIsCurrent, FinalizerHolds, LeaseNameHasFinalizer, claimVars
<1> QED
  BY <1>1, <1>3, <1>4, <1>5 DEF CInv

(* Claim c becomes v, and the workers stand at ws.                         *)
LEMMA StoreKeeps ==
  ASSUME CInv, NEW c \in Claims, NEW v, Storable(v),
         NEW ws \in [Operators -> WorkerRecord], StoreClaim(c, v, ws),
         \A q \in Operators :
             /\ HasTarget(ws[q])
             /\ UsableFor(ws[q], IF ws[q].claim = c THEN v ELSE claim[ws[q].claim])
  PROVE  CInv'
<1>1. /\ claim \in [Claims -> ClaimRecord]
      /\ claim' = [claim EXCEPT ![c] = v] /\ worker' = ws /\ claimView' = claimView
  BY DEF StoreClaim, CInv, ClaimTypeOK
<1>2. ClaimTypeOK'
  BY <1>1, SMT DEF CInv, ClaimTypeOK, StoreClaim, Storable
<1>3. \A d \in Claims : claim'[d] = IF d = c THEN v ELSE claim[d]
  BY <1>1, SMT
<1>4. WorkerHasTarget'
  BY <1>1 DEF WorkerHasTarget, HasTarget
<1>5. CopyIsUsable'
  <2> SUFFICES ASSUME NEW q \in Operators
               PROVE  UsableFor(ws[q], claim'[ws[q].claim])
    BY <1>1 DEF CopyIsUsable, UsableFor, WantsLease, Live
  <2>1. ws[q].at # "idle" => ws[q].claim \in Claims
    BY DEF HasTarget
  <2>2. CASE ws[q].at = "idle"
    BY <2>2 DEF UsableFor, Acquiring, Finalizing
  <2>3. CASE ws[q].claim \in Claims
    <3>1. claim'[ws[q].claim] = IF ws[q].claim = c THEN v ELSE claim[ws[q].claim]
      BY <1>3, <2>3
    <3> QED
      BY <3>1
  <2> QED
    BY <2>1, <2>2, <2>3
<1>6. CachedClaimIsCurrent'
  BY <1>1, <1>3, SMT DEF CInv, ClaimTypeOK, CachedClaimIsCurrent, StoreClaim
<1>7. (FinalizerHolds /\ LeaseNameHasFinalizer)'
  BY <1>3 DEF CInv, FinalizerHolds, LeaseNameHasFinalizer, Storable
<1> QED
  BY <1>2, <1>4, <1>5, <1>6, <1>7 DEF CInv

LEMMA OutdateFacts ==
  ASSUME CInv, NEW c \in Claims
  PROVE  /\ Outdate(c, worker) \in [Operators -> WorkerRecord]
         /\ \A q \in Operators :
                LET w == Outdate(c, worker)[q] IN
                /\ HasTarget(w)
                /\ w.claim = c => \A v : UsableFor(w, v)
                /\ w.claim # c => UsableFor(w, claim[w.claim])
<1>1. \A q \in Operators :
          /\ worker[q] \in WorkerRecord
          /\ Outdate(c, worker)[q] = IF worker[q].claim = c
                                     THEN [worker[q] EXCEPT !.fresh = FALSE]
                                     ELSE worker[q]
  BY SMT DEF CInv, ClaimTypeOK, Outdate
<1>2. ASSUME NEW q \in Operators
      PROVE  /\ [worker[q] EXCEPT !.fresh = FALSE] \in WorkerRecord
             /\ HasTarget([worker[q] EXCEPT !.fresh = FALSE])
             /\ \A v : UsableFor([worker[q] EXCEPT !.fresh = FALSE], v)
             /\ [worker[q] EXCEPT !.fresh = FALSE].claim = worker[q].claim
  <2>1. worker[q] \in WorkerRecord /\ HasTarget(worker[q])
    BY <1>1 DEF CInv, WorkerHasTarget
  <2> QED
    BY <2>1, StaleFacts
<1>3. Outdate(c, worker) \in [Operators -> WorkerRecord]
  BY <1>1, <1>2, SMT DEF Outdate
<1>4. ASSUME NEW q \in Operators
      PROVE  LET w == Outdate(c, worker)[q] IN
             /\ HasTarget(w)
             /\ w.claim = c => \A v : UsableFor(w, v)
             /\ w.claim # c => UsableFor(w, claim[w.claim])
  <2>1. CASE worker[q].claim = c
    <3>1. Outdate(c, worker)[q] = [worker[q] EXCEPT !.fresh = FALSE]
      BY <1>1, <2>1
    <3> QED
      BY <3>1, <1>2, <2>1
  <2>2. CASE worker[q].claim # c
    <3>1. Outdate(c, worker)[q] = worker[q]
      BY <1>1, <2>2
    <3> QED
      BY <3>1, <2>2 DEF CInv, WorkerHasTarget, CopyIsUsable
  <2> QED
    BY <2>1, <2>2
<1> QED
  BY <1>3, <1>4

(* A user's write.                                                         *)
LEMMA RewriteKeeps ==
  ASSUME CInv, NEW c \in Claims, NEW v, Storable(v), Rewrite(c, v)
  PROVE  CInv'
<1> DEFINE ws == Outdate(c, worker)
<1>1. StoreClaim(c, v, ws)
  BY DEF Rewrite
<1>2. ws \in [Operators -> WorkerRecord]
  BY OutdateFacts
<1>3. \A q \in Operators :
          /\ HasTarget(ws[q])
          /\ UsableFor(ws[q], IF ws[q].claim = c THEN v ELSE claim[ws[q].claim])
  BY OutdateFacts
<1> HIDE DEF ws
<1> QED
  BY <1>1, <1>2, <1>3, StoreKeeps

(* A worker's write, after which it stands at w.                           *)
LEMMA WriteKeeps ==
  ASSUME CInv, NEW p \in Operators, NEW c \in Claims, NEW v,
         NEW current, NEW ok \in BOOLEAN, NEW stored \in BOOLEAN,
         NEW w \in WorkerRecord, WriteClaim(p, c, v, current, ok, stored, w),
         HasTarget(w), w.claim = c \/ w = Idle,
         UsableFor(w, claim[c]),
         stored => Storable(v) /\ UsableFor(w, v)
  PROVE  CInv'
<1> DEFINE w2 == IF ok THEN w ELSE [w EXCEPT !.fresh = FALSE]
           ws == [Outdate(c, worker) EXCEPT ![p] = w2]
<1>1. /\ w2 \in WorkerRecord /\ HasTarget(w2) /\ w2.claim = w.claim
      /\ UsableFor(w, v) => UsableFor(w2, v)
      /\ w2.claim # c => \A x : UsableFor(w2, x)
  <2>1. CASE ok
    BY <2>1, IdleFacts
  <2>2. CASE ~ok
    BY <2>2, StaleFacts
  <2> QED
    BY <2>1, <2>2
<1>2. CASE stored /\ v # claim[c]
  <2>1. StoreClaim(c, v, ws)
    BY <1>2 DEF WriteClaim
  <2>2. Outdate(c, worker) \in [Operators -> WorkerRecord]
    BY OutdateFacts
  <2> HIDE DEF w2
  <2>3. ws \in [Operators -> WorkerRecord]
    BY <1>1, <2>2, SMT
  <2>4. ASSUME NEW q \in Operators
        PROVE  /\ HasTarget(ws[q])
               /\ UsableFor(ws[q], IF ws[q].claim = c THEN v ELSE claim[ws[q].claim])
    <3>1. CASE q = p
      <4>1. ws[q] = w2
        BY <3>1, <2>2
      <4> QED
        BY <4>1, <1>1, <1>2
    <3>2. CASE q # p
      <4>1. ws[q] = Outdate(c, worker)[q]
        BY <3>2, <2>2
      <4> HIDE DEF ws
      <4> QED
        BY <4>1, OutdateFacts
    <3> QED
      BY <3>1, <3>2
  <2> HIDE DEF ws
  <2> QED
    BY <1>2, <2>1, <2>3, <2>4, StoreKeeps
<1>3. CASE ~(stored /\ v # claim[c])
  <2>1. StoreClaim(c, claim[c], [worker EXCEPT ![p] = w])
    BY <1>3 DEF WriteClaim
  <2>2. UNCHANGED claimVars /\ worker' = [worker EXCEPT ![p] = w]
    BY <2>1, SMT DEF StoreClaim, claimVars, CInv, ClaimTypeOK
  <2>3. UsableFor(w, claim[w.claim])
    BY IdleFacts
  <2> QED
    BY <2>2, <2>3, MoveKeeps
<1> QED
  BY <1>2, <1>3

-----------------------------------------------------------------------------
(* What the actions store may be stored.                                   *)

LEMMA PhaseStorable ==
  ASSUME CInv, NEW c \in Claims, NEW ph \in Phases
  PROVE  Storable([claim[c] EXCEPT !.phase = ph])
<1> DEFINE v == [claim[c] EXCEPT !.phase = ph]
<1>1. claim[c] \in ClaimRecord
  BY DEF CInv, ClaimTypeOK
<1>2. v \in ClaimRecord
  BY <1>1, SMT DEF ClaimRecord
<1>3. /\ v.deleting = claim[c].deleting /\ v.finalizer = claim[c].finalizer
      /\ v.leaseName = claim[c].leaseName /\ v.exists = claim[c].exists
  BY <1>1, SMT DEF ClaimRecord
<1> HIDE DEF v
<1>4. Storable(v)
  BY <1>2, <1>3, StoredFacts DEF Storable
<1> QED
  BY <1>4 DEF v

LEMMA PhaseNames == /\ {"UnknownType", "NotConfigured", "LeaseLost", "ProviderFailed",
                        "NoDetails", "Pending", "Releasing", "Bound"} \subseteq Phases
                    /\ Steps \ {"idle", "removeFinalizer"} = Leasing
  BY SMT DEF Phases, Failures, Steps, Leasing, Acquiring

LEMMA FinalizerStorable ==
  ASSUME CInv, NEW c \in Claims, claim[c].exists
  PROVE  Storable([claim[c] EXCEPT !.finalizer = TRUE])
<1> DEFINE v == [claim[c] EXCEPT !.finalizer = TRUE]
<1>1. claim[c] \in ClaimRecord
  BY DEF CInv, ClaimTypeOK
<1>2. v \in ClaimRecord
  BY <1>1, FlagTypes
<1>3. v.finalizer = TRUE /\ v.exists = claim[c].exists
  BY <1>1 DEF ClaimRecord
<1> HIDE DEF v
<1>4. Storable(v)
  BY <1>2, <1>3 DEF Storable
<1> QED
  BY <1>4 DEF v

LEMMA DeletedStorable ==
  ASSUME CInv, NEW c \in Claims
  PROVE  Storable(Deleted(claim[c]))
<1>1. claim[c] \in ClaimRecord
  BY DEF CInv, ClaimTypeOK
<1>2. CASE claim[c].finalizer
  <2>1. [claim[c] EXCEPT !.deleting = TRUE] \in ClaimRecord
    BY <1>1, FlagTypes
  <2>2. /\ [claim[c] EXCEPT !.deleting = TRUE].finalizer = claim[c].finalizer
        /\ [claim[c] EXCEPT !.deleting = TRUE].exists = claim[c].exists
    BY <1>1, SMT DEF ClaimRecord
  <2> QED
    BY <1>2, <2>1, <2>2, StoredFacts DEF Storable, Deleted
<1>3. CASE ~claim[c].finalizer
  BY <1>3, NoObjectFacts DEF Deleted
<1> QED
  BY <1>2, <1>3

LEMMA BoundStorable ==
  ASSUME CInv, NEW c \in Claims, NEW l \in Leases, WantsLease(claim[c])
  PROVE  Storable(Bound(claim[c], l, Duration[c]))
<1> DEFINE v == Bound(claim[c], l, Duration[c])
<1>1. claim[c] \in ClaimRecord
  BY DEF CInv, ClaimTypeOK
<1>2. v \in ClaimRecord
  <2>1. Duration[c] \in Nat
    BY LeaseAssumption, SMT
  <2>2. \A r \in ClaimRecord, ph \in Phases : [r EXCEPT !.phase = ph] \in ClaimRecord
    BY SMT DEF ClaimRecord
  <2>3. \A r \in ClaimRecord, m \in Leases : [r EXCEPT !.leaseName = m] \in ClaimRecord
    BY SMT DEF ClaimRecord
  <2>4. \A r \in ClaimRecord, t \in Nat : [r EXCEPT !.ttl = t] \in ClaimRecord
    BY SMT DEF ClaimRecord
  <2>5. "Bound" \in Phases
    BY PhaseNames
  <2>6. [claim[c] EXCEPT !.phase = "Bound"] \in ClaimRecord
    BY <1>1, <2>2, <2>5
  <2>7. [[claim[c] EXCEPT !.phase = "Bound"] EXCEPT !.leaseName = l] \in ClaimRecord
    BY <2>3, <2>6
  <2> QED
    BY <2>1, <2>4, <2>7 DEF Bound
<1>3. v.finalizer = claim[c].finalizer /\ v.exists = claim[c].exists
  BY <1>1, SMT DEF ClaimRecord, Bound
<1> HIDE DEF v
<1>4. Storable(v)
  BY <1>2, <1>3 DEF Storable, WantsLease, Live
<1> QED
  BY <1>4 DEF v

LEMMA FinalizedStorable ==
  ASSUME CInv, NEW c \in Claims, claim[c].deleting
  PROVE  Storable(Finalized(claim[c]))
  BY NoObjectFacts DEF Finalized

LEMMA EditStorable ==
  ASSUME CInv, NEW c \in Claims
  PROVE  Storable([claim[c] EXCEPT !.known = ~@])
<1> DEFINE v == [claim[c] EXCEPT !.known = ~@]
<1>1. claim[c] \in ClaimRecord
  BY DEF CInv, ClaimTypeOK
<1>2. v \in ClaimRecord
  <2>1. (~claim[c].known) \in BOOLEAN
    OBVIOUS
  <2> QED
    BY <1>1, <2>1, FlagTypes
<1>3. /\ v.deleting = claim[c].deleting /\ v.finalizer = claim[c].finalizer
      /\ v.leaseName = claim[c].leaseName /\ v.exists = claim[c].exists
  BY <1>1, SMT DEF ClaimRecord
<1> HIDE DEF v
<1>4. Storable(v)
  BY <1>2, <1>3, StoredFacts DEF Storable
<1> QED
  BY <1>4 DEF v

-----------------------------------------------------------------------------
(* Every action keeps CInv.                                                *)

LEMMA StutterKeeps ==
  ASSUME CInv, UNCHANGED <<claimVars, worker>>
  PROVE  CInv'
  BY DEF CInv, ClaimTypeOK, WorkerHasTarget, HasTarget, CachedClaimIsCurrent,
         CopyIsUsable, UsableFor, WantsLease, Live, FinalizerHolds,
         LeaseNameHasFinalizer, claimVars

LEMMA WriteToIdle ==
  ASSUME CInv, NEW p \in Operators, NEW c \in Claims, NEW v, NEW current,
         NEW ok \in BOOLEAN, NEW stored \in BOOLEAN,
         WriteClaim(p, c, v, current, ok, stored, Idle), stored => Storable(v)
  PROVE  CInv'
  BY WriteKeeps, IdleFacts

LEMMA FoundLeaseKeeps ==
  ASSUME CInv, NEW p \in Operators, NEW c \in Claims, NEW l \in Leases,
         FoundLease(p, c, l)
  PROVE  CInv'
<1> DEFINE w == [at |-> "acquireLease", claim |-> c, lease |-> l,
                 fresh |-> Current(p, c), retry |-> FALSE]
<1>1. w \in WorkerRecord
  BY SMT DEF WorkerRecord, Steps, Current
<1>2. HasTarget(w)
  BY DEF HasTarget
<1>3. UsableFor(w, claim[w.claim])
  <2>1. w.fresh => claimView[p][c] = claim[c]
    BY DEF Current, CInv, CachedClaimIsCurrent
  <2>2. WantsLease(claimView[p][c])
    BY DEF FoundLease
  <2> QED
    BY <2>1, <2>2 DEF UsableFor, Finalizing
<1>4. UNCHANGED claimVars /\ worker' = [worker EXCEPT ![p] = w]
  BY DEF FoundLease
<1> HIDE DEF w
<1> QED
  BY <1>1, <1>2, <1>3, <1>4, MoveKeeps

LEMMA BeginDeletionKeeps ==
  ASSUME CInv, NEW p \in Operators, NEW c \in Claims, BeginDeletion(p, c)
  PROVE  CInv'
<1> DEFINE v == claimView[p][c]
           w == [at |-> IF v.leaseName = NoLease THEN "removeFinalizer"
                                                 ELSE "releaseResource",
                 claim |-> c, lease |-> v.leaseName,
                 fresh |-> Current(p, c), retry |-> FALSE]
           x == [claim[c] EXCEPT !.phase = "Releasing"]
<1>1. PICK ok \in BOOLEAN, stored \in BOOLEAN :
          /\ v.deleting
          /\ \/ worker' = [worker EXCEPT ![p] = w] /\ UNCHANGED claimVars
             \/ WriteClaim(p, c, x, Current(p, c), ok, stored, w)
  BY DEF BeginDeletion
<1>2. v \in ClaimRecord /\ claim[c] \in ClaimRecord
  BY DEF CInv, ClaimTypeOK
<1>3. w \in WorkerRecord
  <2>1. v.leaseName \in Leases \cup {NoLease}
    BY <1>2 DEF ClaimRecord
  <2>2. Current(p, c) \in BOOLEAN
    BY DEF Current
  <2> HIDE DEF v
  <2> QED
    BY <2>1, <2>2, SMT DEF WorkerRecord, Steps
<1>4. HasTarget(w)
  <2>1. v.leaseName \in Leases \cup {NoLease}
    BY <1>2 DEF ClaimRecord
  <2> HIDE DEF v
  <2> QED
    BY <2>1 DEF HasTarget, Leasing, Acquiring
<1>5. w.fresh => v = claim[c]
  BY DEF Current, CInv, CachedClaimIsCurrent
<1>6. x.deleting = claim[c].deleting /\ x.leaseName = claim[c].leaseName
  BY <1>2, SMT DEF ClaimRecord
<1>7. w.claim = c /\ w.lease = v.leaseName /\ w.at \notin Acquiring
  BY DEF Acquiring
<1>8. Storable(x)
  BY PhaseStorable, PhaseNames
<1> HIDE DEF v, w, x
<1>9. UsableFor(w, claim[c]) /\ UsableFor(w, x)
  BY <1>1, <1>5, <1>6, <1>7 DEF UsableFor
<1> QED
  BY <1>1, <1>3, <1>4, <1>7, <1>8, <1>9, MoveKeeps, WriteKeeps

LEMMA ReconcileKeeps ==
  ASSUME CInv, NEW p \in Operators, NEW c \in Claims, Reconcile(p, c)
  PROVE  CInv'
<1>1. CASE ReconcileIgnored(p, c) \/ BoundWaits(p, c)
  BY <1>1, StutterKeeps DEF ReconcileIgnored, BoundWaits
<1>2. CASE ReconcileUnknownType(p, c)
  BY <1>2, WriteToIdle, PhaseStorable, PhaseNames DEF ReconcileUnknownType
<1>3. CASE AddFinalizer(p, c)
  <2>1. PICK ok \in BOOLEAN, stored \in BOOLEAN :
            WriteClaim(p, c, [claim[c] EXCEPT !.finalizer = TRUE], Current(p, c),
                       ok, stored, Idle)
    BY <1>3 DEF AddFinalizer
  <2>2. Live(claimView[p][c])
    BY <1>3 DEF AddFinalizer
  <2>3. stored => claim[c].exists
    BY <2>1, <2>2 DEF WriteClaim, Outcome, Current, CInv, CachedClaimIsCurrent, Live
  <2> QED
    BY <2>1, <2>3, WriteToIdle, FinalizerStorable
<1>4. CASE BoundExpired(p, c)
  BY <1>4, WriteToIdle, DeletedStorable DEF BoundExpired
<1>5. CASE NoLeaseFree(p, c)
  BY <1>5, WriteToIdle, PhaseStorable, PhaseNames DEF NoLeaseFree
<1>6. CASE FoundUnconfigured(p, c)
  BY <1>6, WriteToIdle, PhaseStorable, PhaseNames DEF FoundUnconfigured
<1>7. CASE \E l \in Leases : FoundLease(p, c, l)
  BY <1>7, FoundLeaseKeeps
<1>8. CASE BeginDeletion(p, c)
  BY <1>8, BeginDeletionKeeps
<1> QED
  BY <1>1, <1>2, <1>3, <1>4, <1>5, <1>6, <1>7, <1>8 DEF Reconcile

(* The worker of p, when it is not idle.                                   *)
LEMMA BusyFacts ==
  ASSUME CInv, NEW p \in Operators, worker[p].at # "idle"
  PROVE  /\ worker[p] \in WorkerRecord /\ HasTarget(worker[p])
         /\ worker[p].claim \in Claims
         /\ UsableFor(worker[p], claim[worker[p].claim])
  BY DEF CInv, ClaimTypeOK, WorkerHasTarget, HasTarget, CopyIsUsable

(* A worker goes on to s, from a step of the same kind or to undoLease.    *)
LEMMA MovedFacts ==
  ASSUME NEW w \in WorkerRecord, HasTarget(w), NEW s \in Steps, w.at # "idle",
         s \in Leasing => w.lease \in Leases,
         NEW v, UsableFor(w, v),
         s \in Acquiring => w.at \in Acquiring,
         s \in Finalizing => w.at \in Finalizing
  PROVE  LET x == [w EXCEPT !.at = s] IN
         /\ x \in WorkerRecord /\ HasTarget(x) /\ x.claim = w.claim
         /\ UsableFor(x, v)
<1> DEFINE x == [w EXCEPT !.at = s]
<1>1. x \in WorkerRecord
  BY SMT DEF WorkerRecord
<1>2. /\ x.at = s /\ x.claim = w.claim /\ x.lease = w.lease /\ x.fresh = w.fresh
  BY SMT DEF WorkerRecord
<1> HIDE DEF x
<1>3. HasTarget(x) /\ UsableFor(x, v)
  BY <1>2 DEF HasTarget, UsableFor
<1> QED
  BY <1>1, <1>2, <1>3 DEF x

LEMMA GotoKeeps ==
  ASSUME CInv, NEW p \in Operators, worker[p].at # "idle", NEW s \in Steps,
         Goto(p, s), UNCHANGED claimVars,
         s \in Leasing => worker[p].at \in Leasing,
         s \in Acquiring => worker[p].at \in Acquiring,
         s \in Finalizing => worker[p].at \in Finalizing
  PROVE  CInv'
<1> DEFINE x == [worker[p] EXCEPT !.at = s]
<1>1. /\ x \in WorkerRecord /\ HasTarget(x)
      /\ UsableFor(x, claim[x.claim])
  BY BusyFacts, MovedFacts DEF HasTarget
<1>2. worker' = [worker EXCEPT ![p] = x]
  BY DEF Goto
<1> HIDE DEF x
<1> QED
  BY <1>1, <1>2, MoveKeeps

LEMMA RetryType ==
  ASSUME NEW w \in WorkerRecord, HasTarget(w)
  PROVE  LET x == [w EXCEPT !.at = "provisionFailed", !.retry = TRUE]
             y == [w EXCEPT !.at = "undoLease", !.retry = TRUE] IN
         /\ x \in WorkerRecord /\ y \in WorkerRecord
         /\ x.at = "provisionFailed" /\ y.at = "undoLease"
         /\ x.claim = w.claim /\ x.lease = w.lease /\ x.fresh = w.fresh
         /\ y.claim = w.claim /\ y.lease = w.lease /\ y.fresh = w.fresh
<1>1. \A r \in WorkerRecord, s \in Steps : [r EXCEPT !.at = s] \in WorkerRecord
  BY SMT DEF WorkerRecord
<1>2. \A r \in WorkerRecord, b \in BOOLEAN : [r EXCEPT !.retry = b] \in WorkerRecord
  BY SMT DEF WorkerRecord
<1>3. "provisionFailed" \in Steps /\ "undoLease" \in Steps
  BY DEF Steps
<1>4. /\ [w EXCEPT !.at = "provisionFailed"] \in WorkerRecord
      /\ [w EXCEPT !.at = "undoLease"] \in WorkerRecord
  BY <1>1, <1>3
<1>5. /\ [[w EXCEPT !.at = "provisionFailed"] EXCEPT !.retry = TRUE] \in WorkerRecord
      /\ [[w EXCEPT !.at = "undoLease"] EXCEPT !.retry = TRUE] \in WorkerRecord
  BY <1>2, <1>4
<1> QED
  BY <1>5, SMT DEF WorkerRecord

LEMMA AcquireResourceKeeps ==
  ASSUME CInv, NEW p \in Operators, AcquireResource(p)
  PROVE  CInv'
<1>1. worker[p].at = "acquireResource" /\ UNCHANGED claimVars
  BY DEF AcquireResource, At
<1>2. CASE Goto(p, "bind")
  BY <1>1, <1>2, GotoKeeps DEF Steps, Leasing, Acquiring, Finalizing
<1>3. CASE worker' = [worker EXCEPT ![p] =
                   [@ EXCEPT !.at = "provisionFailed", !.retry = TRUE]]
  <2> DEFINE x == [worker[p] EXCEPT !.at = "provisionFailed", !.retry = TRUE]
  <2>1. worker[p] \in WorkerRecord /\ HasTarget(worker[p])
        /\ UsableFor(worker[p], claim[worker[p].claim])
    BY <1>1, BusyFacts
  <2>2. /\ x \in WorkerRecord /\ x.at = "provisionFailed"
        /\ x.claim = worker[p].claim /\ x.lease = worker[p].lease
        /\ x.fresh = worker[p].fresh
    BY <2>1, RetryType
  <2>3. worker' = [worker EXCEPT ![p] = x]
    BY <1>3
  <2> HIDE DEF x
  <2>4. HasTarget(x)
    BY <1>1, <2>1, <2>2 DEF HasTarget, Leasing, Acquiring
  <2>5. UsableFor(x, claim[x.claim])
    BY <1>1, <2>1, <2>2 DEF UsableFor, Acquiring, Finalizing
  <2> QED
    BY <1>1, <2>2, <2>3, <2>4, <2>5, MoveKeeps
<1> QED
  BY <1>2, <1>3 DEF AcquireResource

LEMMA FailProvisionKeeps ==
  ASSUME CInv, NEW p \in Operators, NEW ph \in Phases,
         worker[p].at \in Acquiring, FailProvision(p, ph)
  PROVE  CInv'
<1> DEFINE c == worker[p].claim
           w == [worker[p] EXCEPT !.at = "undoLease"]
           v == [claim[c] EXCEPT !.phase = ph]
<1>1. PICK ok \in BOOLEAN, stored \in BOOLEAN :
          WriteClaim(p, c, v, CopyCurrent(p), ok, stored, w)
  BY DEF FailProvision
<1>2. worker[p].at # "idle" /\ worker[p].at \in Leasing
  BY DEF Acquiring, Leasing
<1>3. worker[p] \in WorkerRecord /\ HasTarget(worker[p]) /\ c \in Claims
  BY <1>2, BusyFacts
<1>4. \A x : /\ w \in WorkerRecord /\ HasTarget(w) /\ w.claim = c
             /\ UsableFor(w, x)
  <2>1. w \in WorkerRecord /\ w.at = "undoLease" /\ w.claim = c /\ w.lease = worker[p].lease
    BY <1>3, SMT DEF WorkerRecord, Steps
  <2> HIDE DEF w
  <2> QED
    BY <1>2, <1>3, <2>1 DEF HasTarget, UsableFor, Acquiring, Finalizing
<1>5. Storable(v)
  BY <1>3, PhaseStorable
<1> HIDE DEF c, w, v
<1> QED
  BY <1>1, <1>3, <1>4, <1>5, WriteKeeps

LEMMA BindClaimKeeps ==
  ASSUME CInv, NEW p \in Operators, BindClaim(p)
  PROVE  CInv'
<1> DEFINE c == worker[p].claim
           y == [worker[p] EXCEPT !.at = "undoLease", !.retry = TRUE]
           v == Bound(claim[c], worker[p].lease, Duration[c])
<1>1. PICK ok \in BOOLEAN, stored \in BOOLEAN :
          WriteClaim(p, c, v, worker[p].fresh, ok, stored, IF ok THEN Idle ELSE y)
  BY DEF BindClaim, CopyCurrent
<1>2. worker[p].at = "bind"
  BY DEF BindClaim, At
<1>3. worker[p] \in WorkerRecord /\ HasTarget(worker[p]) /\ c \in Claims
      /\ UsableFor(worker[p], claim[c])
  BY <1>2, BusyFacts
<1>4. worker[p].lease \in Leases
  BY <1>2, <1>3 DEF HasTarget, Leasing, Acquiring
<1>5. stored => Storable(v)
  <2>1. stored => worker[p].fresh
    BY <1>1 DEF WriteClaim, Outcome
  <2>2. worker[p].fresh => WantsLease(claim[c])
    BY <1>2, <1>3 DEF UsableFor, Acquiring
  <2> QED
    BY <1>3, <1>4, <2>1, <2>2, BoundStorable
<1>6. y \in WorkerRecord /\ y.at = "undoLease" /\ y.claim = c /\ y.lease = worker[p].lease
  BY <1>3, RetryType
<1> HIDE DEF c, y, v
<1>7. HasTarget(y) /\ \A x : UsableFor(y, x)
  BY <1>3, <1>4, <1>6 DEF HasTarget, UsableFor, Acquiring, Finalizing, c
<1>8. CASE ok
  BY <1>1, <1>3, <1>5, <1>8, WriteKeeps, IdleFacts
<1>9. CASE ~ok
  BY <1>1, <1>3, <1>5, <1>6, <1>7, <1>9, WriteKeeps
<1> QED
  BY <1>8, <1>9

LEMMA RemoveFinalizerKeeps ==
  ASSUME CInv, NEW p \in Operators, RemoveFinalizer(p)
  PROVE  CInv'
<1> DEFINE c == worker[p].claim
<1>1. worker[p].at = "removeFinalizer"
  BY DEF RemoveFinalizer, At
<1>2. PICK ok \in BOOLEAN, stored \in BOOLEAN :
          WriteClaim(p, c, Finalized(claim[c]), worker[p].fresh, ok, stored, Idle)
  BY DEF RemoveFinalizer, CopyCurrent
<1>3. c \in Claims /\ UsableFor(worker[p], claim[c])
  BY <1>1, BusyFacts
<1>4. stored => claim[c].deleting
  BY <1>1, <1>2, <1>3 DEF WriteClaim, Outcome, UsableFor, Finalizing
<1>5. stored => Storable(Finalized(claim[c]))
  BY <1>3, <1>4, FinalizedStorable
<1> QED
  BY <1>2, <1>3, <1>5, WriteKeeps, IdleFacts

LEMMA ToIdleKeeps ==
  ASSUME CInv, NEW p \in Operators, UNCHANGED claimVars,
         worker' = [worker EXCEPT ![p] = Idle]
  PROVE  CInv'
  BY MoveKeeps, IdleFacts

LEMMA ProceedKeeps ==
  ASSUME CInv, NEW p \in Operators, Proceed(p)
  PROVE  CInv'
<1>1. CASE AcquireForClaim(p)
  <2>1. PICK ok \in BOOLEAN : Goto(p, AfterAcquire(ok))
    BY <1>1 DEF AcquireForClaim
  <2>2. AfterAcquire(ok) \in {"acquireResource", "acquireFailed"}
    BY DEF AfterAcquire
  <2>3. worker[p].at = "acquireLease" /\ UNCHANGED claimVars
    BY <1>1 DEF AcquireForClaim, At
  <2> QED
    BY <2>1, <2>2, <2>3, GotoKeeps DEF Steps, Leasing, Acquiring, Finalizing
<1>2. CASE AcquireFailed(p)
  <2>1. worker[p].at # "idle"
    BY <1>2 DEF AcquireFailed, At
  <2>2. worker[p].claim \in Claims
    BY <2>1, BusyFacts
  <2> QED
    BY <1>2, <2>2, WriteToIdle, PhaseStorable, PhaseNames DEF AcquireFailed
<1>3. CASE AcquireResource(p)
  BY <1>3, AcquireResourceKeeps
<1>4. CASE ProvisionFailed(p) \/ DetailsFailed(p)
  BY <1>4, FailProvisionKeeps, PhaseNames DEF ProvisionFailed, DetailsFailed, At, Acquiring
<1>5. CASE BindClaim(p)
  BY <1>5, BindClaimKeeps
<1>6. CASE UndoLease(p)
  BY <1>6, ToIdleKeeps DEF UndoLease
<1>7. CASE ReleaseResource(p)
  BY <1>7, GotoKeeps DEF ReleaseResource, At, Steps, Leasing, Acquiring, Finalizing
<1>8. CASE ReleaseHeldLease(p)
  <2>1. worker[p].at = "releaseLease" /\ UNCHANGED claimVars
    BY <1>8 DEF ReleaseHeldLease, At
  <2>2. CASE Goto(p, "removeFinalizer")
    BY <2>1, <2>2, GotoKeeps DEF Steps, Leasing, Acquiring, Finalizing
  <2>3. CASE worker' = [worker EXCEPT ![p] = Idle]
    BY <2>1, <2>3, ToIdleKeeps
  <2> QED
    BY <1>8, <2>2, <2>3 DEF ReleaseHeldLease
<1>9. CASE RemoveFinalizer(p)
  BY <1>9, RemoveFinalizerKeeps
<1> QED
  BY <1>1, <1>2, <1>3, <1>4, <1>5, <1>6, <1>7, <1>8, <1>9 DEF Proceed, ApiCall

LEMMA UsersKeep ==
  ASSUME CInv, Users
  PROVE  CInv'
<1>1. PICK c \in Claims : CreateClaim(c) \/ DeleteClaim(c) \/ EditClaim(c)
  BY DEF Users
<1>2. CASE CreateClaim(c)
  BY <1>2, RewriteKeeps, NoObjectFacts DEF CreateClaim
<1>3. CASE DeleteClaim(c)
  BY <1>3, RewriteKeeps, DeletedStorable DEF DeleteClaim
<1>4. CASE EditClaim(c)
  BY <1>4, RewriteKeeps, EditStorable DEF EditClaim
<1> QED
  BY <1>1, <1>2, <1>3, <1>4

LEMMA SyncClaimsKeeps ==
  ASSUME CInv, NEW p \in Operators, SyncClaims(p)
  PROVE  CInv'
<1>1. /\ claimView' = [claimView EXCEPT ![p] = claim]
      /\ claimBehind' = [claimBehind EXCEPT ![p] = {}]
      /\ claim' = claim /\ worker' = worker
  BY DEF SyncClaims
<1>2. ClaimTypeOK' /\ CachedClaimIsCurrent'
  BY <1>1, SMT DEF CInv, ClaimTypeOK, CachedClaimIsCurrent
<1>3. (WorkerHasTarget /\ CopyIsUsable)'
  BY <1>1 DEF CInv, WorkerHasTarget, HasTarget, CopyIsUsable, UsableFor, WantsLease, Live
<1>4. (FinalizerHolds /\ LeaseNameHasFinalizer)'
  BY <1>1 DEF CInv, FinalizerHolds, LeaseNameHasFinalizer
<1> QED
  BY <1>2, <1>3, <1>4 DEF CInv

(* Time changes nothing of a claim but the time it has left.               *)
LEMMA AgedClaim ==
  ASSUME NEW v \in ClaimRecord
  PROVE  /\ Aged(v) \in ClaimRecord
         /\ Aged(v).deleting = v.deleting /\ Aged(v).finalizer = v.finalizer
         /\ Aged(v).leaseName = v.leaseName /\ Aged(v).phase = v.phase
         /\ Aged(v).exists = v.exists
         /\ \A w : UsableFor(w, v) => UsableFor(w, Aged(v))
<1>1. v.ttl \in Nat
  BY DEF ClaimRecord
<1>2. Less(v.ttl) \in Nat
  BY <1>1, SMT DEF Less
<1>3. \A t \in Nat : [v EXCEPT !.ttl = t] \in ClaimRecord
  BY SMT DEF ClaimRecord
<1>4. Aged(v) \in ClaimRecord
  BY <1>2, <1>3 DEF Aged
<1>5. /\ Aged(v).deleting = v.deleting /\ Aged(v).finalizer = v.finalizer
      /\ Aged(v).leaseName = v.leaseName /\ Aged(v).phase = v.phase
      /\ Aged(v).exists = v.exists /\ Aged(v).known = v.known
  BY SMT DEF Aged, ClaimRecord
<1> QED
  BY <1>4, <1>5 DEF UsableFor, WantsLease, Live

LEMMA TickKeeps ==
  ASSUME CInv, Tick
  PROVE  CInv'
<1>1. /\ claim' = [c \in Claims |-> Aged(claim[c])]
      /\ claimView' = [p \in Operators |-> [c \in Claims |-> Aged(claimView[p][c])]]
      /\ claimBehind' = claimBehind /\ worker' = worker
  BY DEF Tick, workVars
<1>2. /\ \A c \in Claims : claim[c] \in ClaimRecord
      /\ \A p \in Operators, c \in Claims : claimView[p][c] \in ClaimRecord
  BY SMT DEF CInv, ClaimTypeOK
<1>3. ClaimTypeOK'
  <2>1. /\ \A c \in Claims : Aged(claim[c]) \in ClaimRecord
        /\ \A p \in Operators, c \in Claims : Aged(claimView[p][c]) \in ClaimRecord
    BY <1>2, AgedClaim
  <2> QED
    BY <1>1, <2>1, SMT DEF CInv, ClaimTypeOK
<1>4. (WorkerHasTarget /\ CachedClaimIsCurrent)'
  BY <1>1, SMT DEF CInv, WorkerHasTarget, HasTarget, CachedClaimIsCurrent, ClaimTypeOK
<1>5. CopyIsUsable'
  <2> SUFFICES ASSUME NEW p \in Operators
               PROVE  UsableFor(worker[p], claim'[worker[p].claim])
    BY <1>1 DEF CopyIsUsable, UsableFor, WantsLease, Live
  <2>1. CASE worker[p].at = "idle"
    BY <2>1 DEF UsableFor, Acquiring, Finalizing
  <2>2. CASE worker[p].at # "idle"
    BY <1>1, <1>2, <2>2, BusyFacts, AgedClaim
  <2> QED
    BY <2>1, <2>2
<1>6. (FinalizerHolds /\ LeaseNameHasFinalizer)'
  BY <1>1, <1>2, AgedClaim DEF CInv, FinalizerHolds, LeaseNameHasFinalizer
<1> QED
  BY <1>3, <1>4, <1>5, <1>6 DEF CInv

LEMMA CStep ==
  ASSUME CInv, [Next]_vars
  PROVE  CInv'
<1>1. ASSUME NEW p \in Operators, Proceed(p)
      PROVE  CInv'
  BY <1>1, ProceedKeeps
<1>2. ASSUME NEW p \in Operators, Caches(p)
      PROVE  CInv'
  BY <1>2, SyncClaimsKeeps, StutterKeeps DEF Caches, SyncLeaseCache, workVars
<1>3. ASSUME NEW p \in Operators, NEW c \in Claims,
             Reconcile(p, c) \/ TimerFires(p, c)
      PROVE  CInv'
  BY <1>3, ReconcileKeeps, StutterKeeps DEF TimerFires
<1>4. CASE Users
  BY <1>4, UsersKeep
<1>5. CASE Tick
  BY <1>5, TickKeeps
<1>6. CASE UNCHANGED vars
  BY <1>6, StutterKeeps DEF vars, workVars
<1>7. CASE AdminDeletesLease
  BY <1>7, StutterKeeps DEF AdminDeletesLease, workVars
<1> QED
  BY <1>1, <1>2, <1>3, <1>4, <1>5, <1>6, <1>7 DEF Next

LEMMA CInit == Init => CInv
<1> SUFFICES ASSUME Init PROVE CInv
  OBVIOUS
<1>1. /\ claim \in [Claims -> {NoObject, NewClaim}]
      /\ claimView = [p \in Operators |-> claim]
      /\ claimBehind = [p \in Operators |-> {}]
      /\ worker = [p \in Operators |-> Idle]
  BY DEF Init
<1>2. \A c \in Claims : Storable(claim[c])
  BY <1>1, NoObjectFacts
<1>3. ClaimTypeOK
  <2>1. claim \in [Claims -> ClaimRecord]
    BY <1>1, <1>2, SMT DEF Storable
  <2> QED
    BY <1>1, <2>1, IdleFacts, SMT DEF ClaimTypeOK
<1>4. \A p \in Operators : HasTarget(worker[p]) /\ \A v : UsableFor(worker[p], v)
  BY <1>1, IdleFacts
<1> QED
  BY <1>1, <1>2, <1>3, <1>4 DEF CInv, WorkerHasTarget, CachedClaimIsCurrent, CopyIsUsable,
     FinalizerHolds, LeaseNameHasFinalizer, Storable

-----------------------------------------------------------------------------
(* The queues.                                                             *)

LEMMA DequeueTypes ==
  ASSUME QueueTypeOK, NEW p \in Operators, NEW c \in Claims, NEW again,
         Dequeue(p, c, again)
  PROVE  QueueTypeOK'
  BY SMT DEF QueueTypeOK, Dequeue

LEMMA ReturnTypes ==
  ASSUME QueueTypeOK, NEW p \in Operators, NEW again,
         worker[p].claim \in Claims, Return(p, again), UNCHANGED queue
  PROVE  QueueTypeOK'
  BY SMT DEF QueueTypeOK, Return

LEMMA QueueStep ==
  ASSUME CInv, QueueTypeOK, [Next]_vars
  PROVE  QueueTypeOK'
<1>1. ASSUME NEW p \in Operators, NEW c \in Claims, Reconcile(p, c)
      PROVE  QueueTypeOK'
  <2>1. \E again \in BOOLEAN : Dequeue(p, c, again)
    BY <1>1 DEF Reconcile, ReconcileIgnored, ReconcileUnknownType, AddFinalizer,
       BoundExpired, BoundWaits, NoLeaseFree, FoundUnconfigured, FoundLease, BeginDeletion
  <2> QED
    BY <2>1, DequeueTypes
<1>2. ASSUME NEW p \in Operators, Proceed(p)
      PROVE  QueueTypeOK'
  <2>1. worker[p].at # "idle"
    BY <1>2 DEF Proceed, ApiCall, At, AcquireForClaim, AcquireFailed, AcquireResource,
       ProvisionFailed, DetailsFailed, BindClaim, UndoLease, ReleaseResource,
       ReleaseHeldLease, RemoveFinalizer
  <2>2. worker[p].claim \in Claims
    BY <2>1, BusyFacts
  <2>3. CASE UNCHANGED <<queue, timers>>
    BY <2>3 DEF QueueTypeOK
  <2>4. CASE UNCHANGED queue /\ \E again : Return(p, again)
    BY <2>2, <2>4, ReturnTypes
  <2>5. UNCHANGED queue /\ (UNCHANGED timers \/ \E again : Return(p, again))
    BY <1>2 DEF Proceed, ApiCall, AcquireForClaim, AcquireFailed, AcquireResource,
       ProvisionFailed, DetailsFailed, FailProvision, BindClaim, UndoLease,
       ReleaseResource, ReleaseHeldLease, RemoveFinalizer
  <2> QED
    BY <2>3, <2>4, <2>5
<1>3. ASSUME NEW p \in Operators, NEW c \in Claims, TimerFires(p, c)
      PROVE  QueueTypeOK'
  BY <1>3, SMT DEF QueueTypeOK, TimerFires
<1>4. ASSUME NEW p \in Operators, SyncClaims(p)
      PROVE  QueueTypeOK'
  BY <1>4, SMT DEF QueueTypeOK, SyncClaims, CInv, ClaimTypeOK
<1>5. CASE \/ \E p \in Operators : SyncLeaseCache(p)
          \/ Users \/ Tick \/ AdminDeletesLease \/ UNCHANGED vars
  BY <1>5 DEF QueueTypeOK, SyncLeaseCache, Users, CreateClaim, DeleteClaim, EditClaim,
     Rewrite, Tick, AdminDeletesLease, vars, workVars
<1> QED
  BY <1>1, <1>2, <1>3, <1>4, <1>5 DEF Next, Caches

LEMMA QueueInit == Init => QueueTypeOK
  BY SMT DEF Init, QueueTypeOK
-----------------------------------------------------------------------------
(* The leases.                                                             *)

(* A worker calls ReleaseLease on a lease, or its call has no effect.      *)
LEMMA CallReleaseSteps ==
  ASSUME NEW p \in Operators, NEW l \in Leases, NEW ok, NEW stored,
         CallReleaseLease(p, l, ok, stored)
  PROVE  [LeaseNext]_leaseVars
  BY DEF CallReleaseLease, LeaseNext

LEMMA LeaseStep ==
  ASSUME CInv, [Next]_vars
  PROVE  [LeaseNext]_leaseVars
<1>1. ASSUME NEW p \in Operators, AcquireForClaim(p)
      PROVE  [LeaseNext]_leaseVars
  <2>1. worker[p].at = "acquireLease"
    BY <1>1 DEF AcquireForClaim, At
  <2>2. worker[p].claim \in Claims /\ worker[p].lease \in Leases
    BY <2>1, BusyFacts DEF HasTarget, Leasing, Acquiring
  <2>3. AcquireLease(p, worker[p].claim, worker[p].lease) \/ UNCHANGED leaseVars
    BY <1>1 DEF AcquireForClaim
  <2> QED
    BY <2>2, <2>3 DEF LeaseNext
<1>2. ASSUME NEW p \in Operators, UndoLease(p) \/ ReleaseHeldLease(p)
      PROVE  [LeaseNext]_leaseVars
  <2>1. worker[p].at \in {"undoLease", "releaseLease"}
    BY <1>2 DEF UndoLease, ReleaseHeldLease, At
  <2>2. worker[p].lease \in Leases
    BY <2>1, BusyFacts DEF HasTarget, Leasing
  <2>3. \E ok, stored : CallReleaseLease(p, worker[p].lease, ok, stored)
    BY <1>2 DEF UndoLease, ReleaseHeldLease
  <2> QED
    BY <2>2, <2>3, CallReleaseSteps
<1>3. ASSUME NEW p \in Operators,
             AcquireFailed(p) \/ AcquireResource(p) \/ ProvisionFailed(p)
                 \/ DetailsFailed(p) \/ BindClaim(p) \/ ReleaseResource(p)
                 \/ RemoveFinalizer(p)
      PROVE  UNCHANGED leaseVars
  BY <1>3 DEF AcquireFailed, AcquireResource, ProvisionFailed, DetailsFailed,
     FailProvision, BindClaim, ReleaseResource, RemoveFinalizer
<1>4. ASSUME NEW p \in Operators, NEW c \in Claims,
             Reconcile(p, c) \/ TimerFires(p, c)
      PROVE  UNCHANGED leaseVars
  BY <1>4 DEF Reconcile, ReconcileIgnored, ReconcileUnknownType, AddFinalizer,
     BoundExpired, BoundWaits, NoLeaseFree, FoundUnconfigured, FoundLease, BeginDeletion,
     TimerFires
<1>5. ASSUME NEW p \in Operators, Caches(p)
      PROVE  [LeaseNext]_leaseVars
  BY <1>5 DEF Caches, SyncClaims, SyncLeaseCache, LeaseNext
<1>6. CASE Users
  BY <1>6 DEF Users, CreateClaim, DeleteClaim, EditClaim, Rewrite
<1>7. CASE Tick
  BY <1>7 DEF Tick, LeaseNext
<1>8. CASE UNCHANGED vars
  BY <1>8 DEF vars
<1>9. CASE AdminDeletesLease
  BY <1>9 DEF AdminDeletesLease, LeaseNext
<1> QED
  BY <1>1, <1>2, <1>3, <1>4, <1>5, <1>6, <1>7, <1>8, <1>9 DEF Next, Proceed, ApiCall

LEMMA LeaseStart == Init => LeaseInit
  BY DEF Init

LEMMA CInvCorrect == Spec => []CInv
  BY CInit, CStep, PTL DEF Spec

(* The reconciler uses the leases as any caller of the manager may: what   *)
(* is proved of the manager is true of the whole controller.               *)
THEOREM ControllerUsesManager == Spec => LeaseSpec
<1>1. CInv /\ [Next]_vars => [LeaseNext]_leaseVars
  BY LeaseStep
<1> QED
  BY <1>1, LeaseStart, CInvCorrect, PTL DEF Spec, LeaseSpec

(* The controller is faithful to the lock it promises: through all its     *)
(* errors, retries and stale caches, a reconciler never takes a lease from *)
(* a claim whose time on it is not over.                                   *)
THEOREM PoolIsLocked == Spec => ImplementsLock
  BY ControllerUsesManager, LockImplemented, PTL

(* Every state has its type.                                               *)
THEOREM TypeCorrect == Spec => []TypeOK
<1>1. Init => QueueTypeOK
  BY QueueInit
<1>2. CInv /\ QueueTypeOK /\ [Next]_vars => QueueTypeOK'
  BY QueueStep
<1>3. Spec => []QueueTypeOK
  BY <1>1, <1>2, CInvCorrect, PTL DEF Spec
<1>4. Spec => []LeaseTypeOK
  BY ControllerUsesManager, LeaseTypeCorrect, PTL
<1>5. CInv => ClaimTypeOK
  BY DEF CInv
<1>6. LeaseTypeOK /\ ClaimTypeOK /\ QueueTypeOK <=> TypeOK
  BY DEF TypeOK
<1> QED
  BY <1>3, <1>4, <1>5, <1>6, CInvCorrect, PTL

(* The inductive invariant, for every Hazards.                             *)
THEOREM IInvCorrect == Spec => []IInv
<1>1. TypeOK /\ CachedLeaseIsCurrent /\ CInv => IInv
  BY DEF CInv, IInv
<1>2. Spec => []CachedLeaseIsCurrent
  BY ControllerUsesManager, CacheCorrect, PTL
<1> QED
  BY <1>1, <1>2, TypeCorrect, CInvCorrect, PTL

(* A claim whose status names a lease cannot vanish before handleDeletion  *)
(* has seen the lease, whatever fails on the way.                          *)
THEOREM LeaseNameProtected == Spec => []LeaseNameHasFinalizer
<1>1. CInv => LeaseNameHasFinalizer
  BY DEF CInv
<1> QED
  BY <1>1, CInvCorrect, PTL

-----------------------------------------------------------------------------
(* What a step may do to a claim.                                          *)

(* From v to w, no claim becomes Bound, no Bound claim moves and no        *)
(* finalizer goes away.                                                    *)
Modest(v, w) == /\ w.phase = "Bound" => v.phase = "Bound" /\ w.leaseName = v.leaseName
                /\ v.finalizer => w.finalizer

ModestStep == \A d \in Claims : Modest(claim[d], claim'[d])

(* p binds c to the lease it has worked on.                                *)
Binds(p, c) == /\ WantsLease(claim[c]) /\ worker[p].at = "bind" /\ worker[p].claim = c
               /\ claim'[c] = Bound(claim[c], worker[p].lease, Duration[c])

(* p removes the finalizer of c, whose lease it has released.              *)
Removes(p, c) == /\ worker[p].at = "removeFinalizer" /\ worker[p].claim = c
                 /\ claim[c].leaseName = worker[p].lease
                 /\ claim'[c] = NoObject

LEMMA StoreChanges ==
  ASSUME CInv, NEW c \in Claims, NEW v, NEW ws, StoreClaim(c, v, ws)
  PROVE  \A d \in Claims : claim'[d] = IF d = c THEN v ELSE claim[d]
  BY SMT DEF StoreClaim, CInv, ClaimTypeOK

LEMMA StoreModest ==
  ASSUME CInv, NEW c \in Claims, NEW v, NEW ws, StoreClaim(c, v, ws),
         Modest(claim[c], v)
  PROVE  ModestStep
  BY StoreChanges DEF ModestStep, Modest

LEMMA WriteModest ==
  ASSUME CInv, NEW p \in Operators, NEW c \in Claims, NEW v, NEW current,
         NEW ok, NEW stored, NEW w, WriteClaim(p, c, v, current, ok, stored, w),
         stored => Modest(claim[c], v)
  PROVE  ModestStep
  BY StoreModest DEF WriteClaim, Modest

LEMMA PhaseModest ==
  ASSUME CInv, NEW c \in Claims, NEW ph, ph # "Bound"
  PROVE  Modest(claim[c], [claim[c] EXCEPT !.phase = ph])
<1>1. claim[c] \in ClaimRecord
  BY DEF CInv, ClaimTypeOK
<1>2. /\ [claim[c] EXCEPT !.phase = ph].phase = ph
      /\ [claim[c] EXCEPT !.phase = ph].finalizer = claim[c].finalizer
  BY <1>1 DEF ClaimRecord
<1> QED
  BY <1>2 DEF Modest

LEMMA OtherModest ==
  ASSUME CInv, NEW c \in Claims
  PROVE  /\ Modest(claim[c], [claim[c] EXCEPT !.finalizer = TRUE])
         /\ Modest(claim[c], [claim[c] EXCEPT !.known = ~@])
         /\ Modest(claim[c], Deleted(claim[c]))
         /\ ~claim[c].exists => Modest(claim[c], NewClaim)
         /\ Modest(claim[c], Aged(claim[c]))
<1>1. claim[c] \in ClaimRecord /\ Storable(claim[c])
  BY StoredFacts DEF CInv, ClaimTypeOK
<1>2. NoObject.phase = "New" /\ NewClaim.phase = "New"
  BY SMT DEF NoObject, NewClaim
<1>3. Modest(claim[c], [claim[c] EXCEPT !.finalizer = TRUE])
  BY <1>1 DEF Modest, ClaimRecord
<1>4. \A b \in BOOLEAN : /\ Modest(claim[c], [claim[c] EXCEPT !.known = b])
                         /\ Modest(claim[c], [claim[c] EXCEPT !.deleting = b])
  BY <1>1, SMT DEF Modest, ClaimRecord
<1>5. /\ ~claim[c].finalizer => Modest(claim[c], NoObject)
      /\ ~claim[c].exists => Modest(claim[c], NewClaim)
  BY <1>1, <1>2 DEF Modest, Storable
<1>6. Modest(claim[c], Aged(claim[c]))
  BY <1>1, AgedClaim DEF Modest
<1>7. (~claim[c].known) \in BOOLEAN
  OBVIOUS
<1> QED
  BY <1>3, <1>4, <1>5, <1>6, <1>7 DEF Deleted

LEMMA ReconcileModest ==
  ASSUME CInv, NEW p \in Operators, NEW c \in Claims, Reconcile(p, c)
  PROVE  ModestStep
<1>1. CASE ReconcileIgnored(p, c) \/ BoundWaits(p, c) \/ \E l \in Leases : FoundLease(p, c, l)
  BY <1>1 DEF ReconcileIgnored, BoundWaits, FoundLease, claimVars, ModestStep, Modest
<1>2. CASE AddFinalizer(p, c) \/ BoundExpired(p, c)
  BY <1>2, WriteModest, OtherModest DEF AddFinalizer, BoundExpired
<1>3. CASE ReconcileUnknownType(p, c) \/ NoLeaseFree(p, c) \/ FoundUnconfigured(p, c)
  BY <1>3, WriteModest, PhaseModest DEF ReconcileUnknownType, NoLeaseFree, FoundUnconfigured
<1>4. CASE BeginDeletion(p, c)
  <2>1. CASE UNCHANGED claimVars
    BY <2>1 DEF claimVars, ModestStep, Modest
  <2>2. CASE \E ok, stored \in BOOLEAN : \E w :
                WriteClaim(p, c, [claim[c] EXCEPT !.phase = "Releasing"], Current(p, c),
                           ok, stored, w)
    BY <2>2, WriteModest, PhaseModest
  <2> QED
    BY <1>4, <2>1, <2>2 DEF BeginDeletion
<1> QED
  BY <1>1, <1>2, <1>3, <1>4 DEF Reconcile

LEMMA ProceedModest ==
  ASSUME CInv, NEW p \in Operators, Proceed(p), ~BindClaim(p), ~RemoveFinalizer(p)
  PROVE  ModestStep
<1>1. worker[p].at # "idle"
  BY DEF Proceed, ApiCall, At, AcquireForClaim, AcquireFailed, AcquireResource,
     ProvisionFailed, DetailsFailed, BindClaim, UndoLease, ReleaseResource,
     ReleaseHeldLease, RemoveFinalizer
<1>2. worker[p].claim \in Claims
  BY <1>1, BusyFacts
<1>3. CASE UNCHANGED claimVars
  BY <1>3 DEF claimVars, ModestStep, Modest
<1>4. CASE AcquireFailed(p) \/ ProvisionFailed(p) \/ DetailsFailed(p)
  BY <1>2, <1>4, WriteModest, PhaseModest
     DEF AcquireFailed, ProvisionFailed, DetailsFailed, FailProvision
<1> QED
  BY <1>3, <1>4 DEF Proceed, ApiCall, AcquireForClaim, AcquireResource, UndoLease,
     ReleaseResource, ReleaseHeldLease

(* Only the status update of acquireLease binds a claim, and only while    *)
(* its copy is current.                                                    *)
LEMMA BindFacts ==
  ASSUME CInv, NEW p \in Operators, BindClaim(p)
  PROVE  \A d \in Claims : Modest(claim[d], claim'[d]) \/ Binds(p, d)
<1> DEFINE c == worker[p].claim
           v == Bound(claim[c], worker[p].lease, Duration[c])
<1>1. worker[p].at = "bind" /\ c \in Claims /\ UsableFor(worker[p], claim[c])
  BY BusyFacts DEF BindClaim, At
<1>2. PICK ok, stored \in BOOLEAN :
          \E w : WriteClaim(p, c, v, worker[p].fresh, ok, stored, w)
  BY DEF BindClaim, CopyCurrent
<1>3. CASE stored /\ v # claim[c]
  <2>1. WantsLease(claim[c])
    BY <1>1, <1>2, <1>3 DEF WriteClaim, Outcome, UsableFor, Acquiring
  <2>2. \A d \in Claims : claim'[d] = IF d = c THEN v ELSE claim[d]
    BY <1>1, <1>2, <1>3, StoreChanges DEF WriteClaim
  <2> QED
    BY <1>1, <2>1, <2>2 DEF Binds, Modest
<1>4. CASE ~(stored /\ v # claim[c])
  <2>1. stored => Modest(claim[c], v)
    BY <1>4 DEF Modest
  <2> QED
    BY <1>1, <1>2, <2>1, WriteModest DEF ModestStep
<1> QED
  BY <1>3, <1>4

(* Only the last update of handleDeletion removes a finalizer, and only if *)
(* the lease it has released is still the one of the claim's status.       *)
LEMMA RemoveFacts ==
  ASSUME CInv, NEW p \in Operators, RemoveFinalizer(p)
  PROVE  \A d \in Claims : Modest(claim[d], claim'[d]) \/ Removes(p, d)
<1> DEFINE c == worker[p].claim
           v == Finalized(claim[c])
<1>1. worker[p].at = "removeFinalizer" /\ c \in Claims /\ UsableFor(worker[p], claim[c])
  BY BusyFacts DEF RemoveFinalizer, At
<1>2. PICK ok \in BOOLEAN, stored \in BOOLEAN :
          WriteClaim(p, c, v, worker[p].fresh, ok, stored, Idle)
  BY DEF RemoveFinalizer, CopyCurrent
<1>3. CASE stored /\ v # claim[c]
  <2>1. claim[c].deleting /\ claim[c].leaseName = worker[p].lease
    BY <1>1, <1>2, <1>3 DEF WriteClaim, Outcome, UsableFor, Finalizing
  <2>2. \A d \in Claims : claim'[d] = IF d = c THEN v ELSE claim[d]
    BY <1>1, <1>2, <1>3, StoreChanges DEF WriteClaim
  <2> QED
    BY <1>1, <2>1, <2>2 DEF Removes, Modest, Finalized
<1>4. CASE ~(stored /\ v # claim[c])
  <2>1. stored => Modest(claim[c], v)
    BY <1>4 DEF Modest
  <2> QED
    BY <1>1, <1>2, <2>1, WriteModest DEF ModestStep
<1> QED
  BY <1>3, <1>4

LEMMA UsersModest ==
  ASSUME CInv, Users
  PROVE  ModestStep
  BY StoreModest, OtherModest DEF Users, CreateClaim, DeleteClaim, EditClaim, Rewrite

LEMMA OthersModest ==
  ASSUME CInv, Tick \/ AdminDeletesLease \/ UNCHANGED vars \/ \E p \in Operators :
             Caches(p) \/ \E c \in Claims : TimerFires(p, c)
  PROVE  ModestStep
<1>1. CASE Tick
  <2>1. \A c \in Claims : claim'[c] = Aged(claim[c])
    BY <1>1 DEF Tick
  <2> QED
    BY <2>1, OtherModest DEF ModestStep
<1>2. CASE UNCHANGED claim
  BY <1>2 DEF ModestStep, Modest
<1> QED
  BY <1>1, <1>2 DEF vars, claimVars, Caches, SyncClaims, SyncLeaseCache, TimerFires,
     AdminDeletesLease

LEMMA ClaimStep ==
  ASSUME CInv, [Next]_vars
  PROVE  \A c \in Claims : \/ Modest(claim[c], claim'[c])
                           \/ \E p \in Operators : Binds(p, c) \/ Removes(p, c)
<1>1. CASE ModestStep
  BY <1>1 DEF ModestStep
<1>2. CASE \E p \in Operators : BindClaim(p) \/ RemoveFinalizer(p)
  BY <1>2, BindFacts, RemoveFacts
<1>3. ModestStep \/ \E p \in Operators : BindClaim(p) \/ RemoveFinalizer(p)
  BY ReconcileModest, ProceedModest, UsersModest, OthersModest DEF Next
<1> QED
  BY <1>1, <1>2, <1>3

LEMMA NoObjectUnbound == NoObject.phase # "Bound"
  BY SMT DEF NoObject

(* A claim that is being deleted never becomes Bound, however stale the    *)
(* copy its reconciler works on.                                           *)
THEOREM DeletingStaysUnbound == Spec => DeletingNeverBinds
<1> DEFINE A == \A c \in Claims : claim[c].deleting /\ claim'[c].phase = "Bound"
                                      => claim[c].phase = "Bound"
<1>1. CInv /\ [Next]_vars => [A]_vars
  BY ClaimStep, NoObjectUnbound DEF Modest, Binds, Removes, WantsLease, Live
<1> QED
  BY <1>1, CInvCorrect, PTL DEF Spec, DeletingNeverBinds

(* A claim that is Bound keeps its lease for as long as it is Bound.       *)
THEOREM BoundKeepsLease == Spec => BoundNeverRebinds
<1> DEFINE A == \A c \in Claims : claim[c].phase = "Bound" /\ claim'[c].phase = "Bound"
                                      => claim'[c].leaseName = claim[c].leaseName
<1>1. CInv /\ [Next]_vars => [A]_vars
  BY ClaimStep, NoObjectUnbound DEF Modest, Binds, Removes, WantsLease
<1> QED
  BY <1>1, CInvCorrect, PTL DEF Spec, BoundNeverRebinds
-----------------------------------------------------------------------------
(* The labels.                                                             *)

Suits(l, c) == matchesLabels(LeaseLabels[l], RequiredLabels[c])

(* A worker acquires a lease that suits its claim.                         *)
WorkerSuits(w) == w.at \in Acquiring => Suits(w.lease, w.claim)

WorkersSuit == \A p \in Operators : WorkerSuits(worker[p])

LEMMA IdleSuits == WorkerSuits(Idle)
  BY SMT DEF WorkerSuits, Idle, Acquiring

LEMMA StaleSuits ==
  ASSUME NEW w \in WorkerRecord, WorkerSuits(w)
  PROVE  WorkerSuits([w EXCEPT !.fresh = FALSE])
<1> DEFINE s == [w EXCEPT !.fresh = FALSE]
<1>1. s.at = w.at /\ s.claim = w.claim /\ s.lease = w.lease
  BY DEF WorkerRecord
<1> HIDE DEF s
<1>2. WorkerSuits(s)
  BY <1>1 DEF WorkerSuits
<1> QED
  BY <1>2 DEF s

(* The worker of p moves to w.                                             *)
LEMMA MoveSuits ==
  ASSUME CInv, WorkersSuit, NEW p \in Operators, NEW w,
         worker' = [worker EXCEPT ![p] = w], WorkerSuits(w)
  PROVE  WorkersSuit'
<1>1. \A q \in Operators : worker'[q] = IF q = p THEN w ELSE worker[q]
  BY SMT DEF CInv, ClaimTypeOK
<1> QED
  BY <1>1 DEF WorkersSuit, WorkerSuits, Suits

LEMMA GotoSuits ==
  ASSUME CInv, WorkersSuit, NEW p \in Operators, NEW s, Goto(p, s),
         worker[p].at \in Acquiring \/ s \notin Acquiring
  PROVE  WorkersSuit'
<1> DEFINE x == [worker[p] EXCEPT !.at = s]
<1>1. x.at = s /\ x.claim = worker[p].claim /\ x.lease = worker[p].lease
  BY DEF CInv, ClaimTypeOK, WorkerRecord
<1>2. worker' = [worker EXCEPT ![p] = x]
  BY DEF Goto
<1> HIDE DEF x
<1>3. WorkerSuits(x)
  BY <1>1 DEF WorkersSuit, WorkerSuits
<1> QED
  BY <1>2, <1>3, MoveSuits

LEMMA OutdateSuits ==
  ASSUME CInv, WorkersSuit, NEW c
  PROVE  \A q \in Operators : WorkerSuits(Outdate(c, worker)[q])
<1> SUFFICES ASSUME NEW q \in Operators PROVE WorkerSuits(Outdate(c, worker)[q])
  OBVIOUS
<1>1. worker[q] \in WorkerRecord /\ WorkerSuits(worker[q])
  BY DEF CInv, ClaimTypeOK, WorkersSuit
<1>2. \/ Outdate(c, worker)[q] = worker[q]
      \/ Outdate(c, worker)[q] = [worker[q] EXCEPT !.fresh = FALSE]
  BY DEF Outdate
<1> QED
  BY <1>1, <1>2, StaleSuits

LEMMA RewriteSuits ==
  ASSUME CInv, WorkersSuit, NEW c, NEW v, Rewrite(c, v)
  PROVE  WorkersSuit'
<1>1. worker' = Outdate(c, worker)
  BY DEF Rewrite, StoreClaim
<1> QED
  BY <1>1, OutdateSuits DEF WorkersSuit, WorkerSuits, Suits

(* After its update of a claim a worker acquires no more.                  *)
LEMMA WriteSuits ==
  ASSUME CInv, WorkersSuit, NEW p \in Operators, NEW c, NEW v, NEW current,
         NEW ok \in BOOLEAN, NEW stored, NEW w \in WorkerRecord,
         WriteClaim(p, c, v, current, ok, stored, w), w.at \notin Acquiring
  PROVE  WorkersSuit'
<1> DEFINE w2 == IF ok THEN w ELSE [w EXCEPT !.fresh = FALSE]
<1>1. WorkerSuits(w) /\ WorkerSuits(w2)
  BY StaleSuits DEF WorkerSuits
<1>2. \/ worker' = [worker EXCEPT ![p] = w]
      \/ worker' = [Outdate(c, worker) EXCEPT ![p] = w2]
  BY DEF WriteClaim, StoreClaim
<1> HIDE DEF w2
<1>3. CASE worker' = [worker EXCEPT ![p] = w]
  BY <1>1, <1>3, MoveSuits
<1>4. CASE worker' = [Outdate(c, worker) EXCEPT ![p] = w2]
  <2>1. \A q \in Operators : worker'[q] = IF q = p THEN w2 ELSE Outdate(c, worker)[q]
    BY <1>4 DEF Outdate
  <2> QED
    BY <1>1, <2>1, OutdateSuits DEF WorkersSuit, WorkerSuits, Suits
<1> QED
  BY <1>2, <1>3, <1>4

LEMMA ReconcileSuits ==
  ASSUME CInv, WorkersSuit, NEW p \in Operators, NEW c \in Claims, Reconcile(p, c)
  PROVE  WorkersSuit'
<1>1. CASE ReconcileIgnored(p, c) \/ BoundWaits(p, c)
  BY <1>1 DEF ReconcileIgnored, BoundWaits, WorkersSuit, WorkerSuits, Suits
<1>2. CASE ReconcileUnknownType(p, c) \/ AddFinalizer(p, c) \/ BoundExpired(p, c)
             \/ NoLeaseFree(p, c) \/ FoundUnconfigured(p, c)
  <2>1. Idle.at \notin Acquiring
    BY SMT DEF Idle, Acquiring
  <2> QED
    BY <1>2, <2>1, WriteSuits, IdleFacts DEF ReconcileUnknownType, AddFinalizer,
       BoundExpired, NoLeaseFree, FoundUnconfigured
<1>3. CASE \E l \in Leases : FoundLease(p, c, l)
  <2>1. PICK l \in Leases : FoundLease(p, c, l)
    BY <1>3
  <2> DEFINE w == [at |-> "acquireLease", claim |-> c, lease |-> l,
                   fresh |-> Current(p, c), retry |-> FALSE]
  <2>2. w.claim = c /\ w.lease = l
    OBVIOUS
  <2>3. worker' = [worker EXCEPT ![p] = w]
    BY <2>1 DEF FoundLease
  <2>4. Suits(l, c)
    BY <2>1 DEF FoundLease, FindFreeLease, Suits
  <2> HIDE DEF w
  <2>5. WorkerSuits(w)
    BY <2>2, <2>4 DEF WorkerSuits
  <2> QED
    BY <2>3, <2>5, MoveSuits
<1>4. CASE BeginDeletion(p, c)
  <2> DEFINE l == claimView[p][c].leaseName
             w == [at |-> IF l = NoLease THEN "removeFinalizer" ELSE "releaseResource",
                   claim |-> c, lease |-> l, fresh |-> Current(p, c), retry |-> FALSE]
  <2>1. PICK ok \in BOOLEAN, stored \in BOOLEAN :
            \/ worker' = [worker EXCEPT ![p] = w]
            \/ WriteClaim(p, c, [claim[c] EXCEPT !.phase = "Releasing"],
                          Current(p, c), ok, stored, w)
    BY <1>4 DEF BeginDeletion
  <2>2. w \in WorkerRecord
    <3>1. l \in Leases \cup {NoLease}
      BY DEF CInv, ClaimTypeOK, ClaimRecord
    <3>2. Current(p, c) \in BOOLEAN
      BY DEF Current
    <3> HIDE DEF l
    <3> QED
      BY <3>1, <3>2, SMT DEF WorkerRecord, Steps
  <2>3. w.at \notin Acquiring
    BY DEF Acquiring
  <2> HIDE DEF w
  <2> QED
    BY <2>1, <2>2, <2>3, MoveSuits, WriteSuits DEF WorkerSuits
<1> QED
  BY <1>1, <1>2, <1>3, <1>4 DEF Reconcile

LEMMA ProceedSuits ==
  ASSUME CInv, WorkersSuit, NEW p \in Operators, Proceed(p)
  PROVE  WorkersSuit'
<1> DEFINE x == [worker[p] EXCEPT !.at = "undoLease"]
           y == [worker[p] EXCEPT !.at = "undoLease", !.retry = TRUE]
           z == [worker[p] EXCEPT !.at = "provisionFailed", !.retry = TRUE]
<1>1. worker[p] \in WorkerRecord /\ HasTarget(worker[p])
  BY DEF CInv, ClaimTypeOK, WorkerHasTarget
<1>2. x \in WorkerRecord /\ x.at = "undoLease"
  BY <1>1, SMT DEF WorkerRecord, Steps
<1>3. /\ y \in WorkerRecord /\ y.at = "undoLease"
      /\ z.claim = worker[p].claim /\ z.lease = worker[p].lease
  BY <1>1, RetryType
<1> HIDE DEF x, y, z
<1>4. Idle.at = "idle"
  BY DEF Idle
<1>5. \A w \in {Idle, x, y} : w \in WorkerRecord /\ w.at \notin Acquiring
  BY <1>2, <1>3, <1>4, IdleFacts DEF Acquiring
<1>6. CASE AcquireForClaim(p)
  BY <1>6, GotoSuits DEF AcquireForClaim, At, Acquiring
<1>7. CASE AcquireResource(p)
  <2>1. CASE Goto(p, "bind")
    BY <1>7, <2>1, GotoSuits DEF AcquireResource, At, Acquiring
  <2>2. CASE worker' = [worker EXCEPT ![p] = z]
    <3>1. WorkerSuits(worker[p]) /\ worker[p].at \in Acquiring
      BY <1>7 DEF AcquireResource, At, Acquiring, WorkersSuit
    <3>2. WorkerSuits(z)
      BY <1>3, <3>1 DEF WorkerSuits
    <3> QED
      BY <2>2, <3>2, MoveSuits
  <2> QED
    BY <1>7, <2>1, <2>2 DEF AcquireResource, z
<1>8. CASE AcquireFailed(p) \/ RemoveFinalizer(p)
  BY <1>5, <1>8, WriteSuits DEF AcquireFailed, RemoveFinalizer
<1>9. CASE ProvisionFailed(p) \/ DetailsFailed(p)
  BY <1>5, <1>9, WriteSuits DEF ProvisionFailed, DetailsFailed, FailProvision, x
<1>10. CASE BindClaim(p)
  <2>1. PICK ok \in BOOLEAN, stored \in BOOLEAN :
            WriteClaim(p, worker[p].claim,
                       Bound(claim[worker[p].claim], worker[p].lease,
                             Duration[worker[p].claim]),
                       CopyCurrent(p), ok, stored, IF ok THEN Idle ELSE y)
    BY <1>10 DEF BindClaim, y
  <2>2. CASE ok
    BY <1>5, <2>1, <2>2, WriteSuits
  <2>3. CASE ~ok
    BY <1>5, <2>1, <2>3, WriteSuits
  <2> QED
    BY <2>2, <2>3
<1>11. CASE UndoLease(p)
  BY <1>11, MoveSuits, IdleSuits DEF UndoLease
<1>12. CASE ReleaseResource(p)
  BY <1>12, GotoSuits DEF ReleaseResource, Acquiring
<1>13. CASE ReleaseHeldLease(p)
  BY <1>13, GotoSuits, MoveSuits, IdleSuits DEF ReleaseHeldLease, Acquiring
<1> QED
  BY <1>6, <1>7, <1>8, <1>9, <1>10, <1>11, <1>12, <1>13 DEF Proceed, ApiCall

LEMMA SuitsStep ==
  ASSUME CInv, WorkersSuit, [Next]_vars
  PROVE  WorkersSuit'
<1>1. CASE Users
  BY <1>1, RewriteSuits DEF Users, CreateClaim, DeleteClaim, EditClaim
<1>2. CASE UNCHANGED worker
  BY <1>2 DEF WorkersSuit, WorkerSuits, Suits
<1> QED
  BY <1>1, <1>2, ProceedSuits, ReconcileSuits DEF Next, Caches, SyncClaims, SyncLeaseCache,
     TimerFires, AdminDeletesLease, Tick, vars, workVars

(* What a step that is modest, binds or removes does to a Bound claim.     *)
LEMMA BoundSuits ==
  ASSUME CInv, WorkersSuit, BoundMatchesLabels, NEW c \in Claims,
         \/ Modest(claim[c], claim'[c])
         \/ \E p \in Operators : Binds(p, c) \/ Removes(p, c)
  PROVE  claim'[c].phase = "Bound"
             => RequiredLabels[c] \subseteq LeaseLabels[claim'[c].leaseName]
<1>1. CASE Modest(claim[c], claim'[c])
  BY <1>1 DEF Modest, BoundMatchesLabels
<1>2. ASSUME NEW p \in Operators, Binds(p, c)
      PROVE  RequiredLabels[c] \subseteq LeaseLabels[claim'[c].leaseName]
  <2>1. claim'[c].leaseName = worker[p].lease
    <3>1. claim[c] \in ClaimRecord
      BY DEF CInv, ClaimTypeOK
    <3> QED
      BY <1>2, <3>1 DEF Binds, Bound, ClaimRecord
  <2> QED
    BY <1>2, <2>1 DEF Binds, WorkersSuit, WorkerSuits, Suits, matchesLabels, Acquiring
<1>3. ASSUME NEW p \in Operators, Removes(p, c)
      PROVE  claim'[c].phase # "Bound"
  BY <1>3, NoObjectUnbound DEF Removes
<1> QED
  BY <1>1, <1>2, <1>3

(* No claim is Bound to an account that lacks a label it requires: what    *)
(* FindFreeLease matched is still the lease of the call when it binds,     *)
(* whatever has happened to the claim and to its copies in between.        *)
THEOREM LabelsMatch == Spec => []BoundMatchesLabels
<1> DEFINE I == WorkersSuit /\ BoundMatchesLabels
<1>1. Init => I
  BY IdleSuits, SMT DEF Init, WorkersSuit, BoundMatchesLabels, NewClaim, NoObject
<1>2. CInv /\ I /\ [Next]_vars => I'
  BY SuitsStep, ClaimStep, BoundSuits DEF BoundMatchesLabels
<1> QED
  BY <1>1, <1>2, CInvCorrect, PTL DEF Spec

-----------------------------------------------------------------------------
(* A step writes one claim at most, unless it is the clock's.              *)

Alone == \A c, d \in Claims : c = d \/ claim'[c] = claim[c] \/ claim'[d] = claim[d]

LEMMA StoreAlone ==
  ASSUME CInv, NEW c \in Claims, NEW v, NEW ws, StoreClaim(c, v, ws)
  PROVE  Alone
  BY StoreChanges DEF Alone

LEMMA WriteAlone ==
  ASSUME CInv, NEW p \in Operators, NEW c \in Claims, NEW v, NEW current,
         NEW ok, NEW stored, NEW w, WriteClaim(p, c, v, current, ok, stored, w)
  PROVE  Alone
  BY StoreAlone DEF WriteClaim

LEMMA ReconcileAlone ==
  ASSUME CInv, NEW p \in Operators, NEW c \in Claims, Reconcile(p, c)
  PROVE  Alone
<1>1. CASE UNCHANGED claimVars
  BY <1>1 DEF claimVars, Alone
<1>2. CASE AddFinalizer(p, c) \/ BoundExpired(p, c) \/ ReconcileUnknownType(p, c)
  BY <1>2, WriteAlone DEF AddFinalizer, BoundExpired, ReconcileUnknownType
<1>3. CASE NoLeaseFree(p, c) \/ FoundUnconfigured(p, c)
  BY <1>3, WriteAlone DEF NoLeaseFree, FoundUnconfigured
<1>4. CASE BeginDeletion(p, c)
  BY <1>1, <1>4, WriteAlone DEF BeginDeletion
<1> QED
  BY <1>1, <1>2, <1>3, <1>4 DEF Reconcile, ReconcileIgnored, BoundWaits, FoundLease

LEMMA ProceedAlone ==
  ASSUME CInv, NEW p \in Operators, Proceed(p)
  PROVE  Alone
<1>1. worker[p].at # "idle"
  BY DEF Proceed, ApiCall, At, AcquireForClaim, AcquireFailed, AcquireResource,
     ProvisionFailed, DetailsFailed, BindClaim, UndoLease, ReleaseResource,
     ReleaseHeldLease, RemoveFinalizer
<1>2. worker[p].claim \in Claims
  BY <1>1, BusyFacts
<1>3. CASE UNCHANGED claimVars
  BY <1>3 DEF claimVars, Alone
<1>4. CASE AcquireFailed(p) \/ BindClaim(p) \/ RemoveFinalizer(p)
  BY <1>2, <1>4, WriteAlone DEF AcquireFailed, BindClaim, RemoveFinalizer
<1>5. CASE ProvisionFailed(p) \/ DetailsFailed(p)
  BY <1>2, <1>5, WriteAlone DEF ProvisionFailed, DetailsFailed, FailProvision
<1> QED
  BY <1>3, <1>4, <1>5 DEF Proceed, ApiCall, AcquireForClaim, AcquireResource, UndoLease,
     ReleaseResource, ReleaseHeldLease

LEMMA NextAlone ==
  ASSUME CInv, [Next]_vars
  PROVE  Alone \/ Tick
<1>1. CASE UNCHANGED claim
  BY <1>1 DEF Alone
<1>2. CASE Users
  BY <1>2, StoreAlone DEF Users, CreateClaim, DeleteClaim, EditClaim, Rewrite
<1> QED
  BY <1>1, <1>2, ReconcileAlone, ProceedAlone DEF Next, vars, claimVars, Caches,
     SyncClaims, SyncLeaseCache, TimerFires, AdminDeletesLease
=============================================================================
