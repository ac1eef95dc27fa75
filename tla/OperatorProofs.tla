---------------------------- MODULE OperatorProofs ----------------------------
(***************************************************************************)
(* Proofs about Operator, for any number of processes, crashes and         *)
(* restarts, with or without the startup cleanup and whatever Hazards      *)
(* contains.                                                               *)
(*                                                                         *)
(* To the reconciler's variables a step of Operator is one of five things  *)
(* (OperatorSteps): a step of Next, a loop of the startup over the leases, *)
(* the reset of a claim, the start of the caches of a new leader, or the   *)
(* end of a process.  The invariants of ControllerProofs survive all five, *)
(* so what a restart leaves is no state a reconciler can't cope with.      *)
(***************************************************************************)
EXTENDS Operator, SingleOperatorProofs

StartupTypeOK ==
    /\ stage \in [Operators -> Stages]
    /\ uncreated \in [Operators -> SUBSET Configured]
    /\ resetting \in [Operators -> SUBSET Claims]
    /\ crashes \in 0..MaxCrashes

LEMMA EnterType ==
  ASSUME StartupTypeOK, NEW p \in Operators, NEW from, NEW to \in Stages,
         Enter(p, from, to)
  PROVE  stage' \in [Operators -> Stages]
  BY DEF StartupTypeOK, Enter

LEMMA OvertakeType ==
  ASSUME StartupTypeOK, NEW changed, Overtake(changed)
  PROVE  resetting' \in [Operators -> SUBSET Claims]
  BY SMT DEF StartupTypeOK, Overtake

LEMMA StageNames ==
  /\ "createLeases" \in Stages /\ "releaseLeases" \in Stages /\ "resetClaims" \in Stages
  /\ "standby" \in Stages /\ "leader" \in Stages /\ "down" \in Stages
  BY DEF Stages

LEMMA StartupTypeStep ==
  ASSUME StartupTypeOK, [OperatorNext]_allVars
  PROVE  StartupTypeOK'
<1>1. ASSUME NEW p \in Operators, Start(p) \/ CreateFails(p) \/ SkipCleanup(p)
                 \/ StartManager(p) \/ BecomeLeader(p)
      PROVE  StartupTypeOK'
  <2>1. stage' \in [Operators -> Stages]
    BY <1>1, EnterType, StageNames
       DEF Start, CreateFails, SkipCleanup, StartManager, BecomeLeader
  <2>2. \/ uncreated' = uncreated
        \/ uncreated' = [uncreated EXCEPT ![p] = Configured]
        \/ uncreated' = [uncreated EXCEPT ![p] = {}]
    BY <1>1 DEF Start, CreateFails, SkipCleanup, StartManager, BecomeLeader
  <2>3. uncreated' \in [Operators -> SUBSET Configured]
    BY <2>2, SMT DEF StartupTypeOK
  <2> QED
    BY <1>1, <2>1, <2>3
       DEF StartupTypeOK, Start, CreateFails, SkipCleanup, StartManager, BecomeLeader
<1>2. ASSUME NEW p \in Operators, CreateNext(p)
      PROVE  StartupTypeOK'
  <2>1. \E l : uncreated' = [uncreated EXCEPT ![p] = @ \ {l}]
    BY <1>2 DEF CreateNext
  <2>2. uncreated' \in [Operators -> SUBSET Configured]
    BY <2>1, SMT DEF StartupTypeOK
  <2> QED
    BY <1>2, <2>2 DEF StartupTypeOK, CreateNext
<1>3. ASSUME NEW p \in Operators, CleanupProvider(p)
      PROVE  StartupTypeOK'
  <2>1. stage' \in [Operators -> Stages]
    BY <1>3, EnterType, StageNames DEF CleanupProvider
  <2>2. uncreated' \in [Operators -> SUBSET Configured]
    BY <1>3, SMT DEF StartupTypeOK, CleanupProvider
  <2> QED
    BY <1>3, <2>1, <2>2 DEF StartupTypeOK, CleanupProvider
<1>4. ASSUME NEW p \in Operators, ListClaims(p)
      PROVE  StartupTypeOK'
  <2>1. stage' \in [Operators -> Stages]
    BY <1>4, EnterType, StageNames DEF ListClaims
  <2>2. resetting' \in [Operators -> SUBSET Claims]
    BY <1>4, SMT DEF StartupTypeOK, ListClaims
  <2> QED
    BY <1>4, <2>1, <2>2 DEF StartupTypeOK, ListClaims
<1>5. ASSUME NEW p \in Operators, NEW c \in Claims, ResetClaim(p, c)
      PROVE  StartupTypeOK'
  <2>1. \/ Overtake({c})
        \/ resetting' = [resetting EXCEPT ![p] = @ \ {c}]
    BY <1>5 DEF ResetClaim
  <2>2. resetting' \in [Operators -> SUBSET Claims]
    BY <2>1, OvertakeType, SMT DEF StartupTypeOK
  <2> QED
    BY <1>5, <2>2 DEF StartupTypeOK, ResetClaim
<1>6. ASSUME NEW p \in Operators, Stop(p)
      PROVE  StartupTypeOK'
  <2>1. crashes' \in 0..MaxCrashes
    BY <1>6, OperatorAssumption, SMT DEF StartupTypeOK, Stop
  <2>2. stage' \in [Operators -> Stages]
    BY <1>6, StageNames DEF StartupTypeOK, Stop
  <2>3. /\ uncreated' \in [Operators -> SUBSET Configured]
        /\ resetting' \in [Operators -> SUBSET Claims]
    BY <1>6, SMT DEF StartupTypeOK, Stop
  <2> QED
    BY <2>1, <2>2, <2>3 DEF StartupTypeOK
<1>7. CASE Meanwhile
  BY <1>7, OvertakeType DEF StartupTypeOK, Meanwhile
<1>8. CASE UNCHANGED operatorVars
  BY <1>8 DEF StartupTypeOK, operatorVars
<1> QED
  BY <1>1, <1>2, <1>3, <1>4, <1>5, <1>6, <1>7, <1>8 DEF OperatorNext, StartupStep,
     ReleaseNext, LeaderStep, UserStep, AdminStep, TimePasses, allVars

LEMMA StartupTypeInit == OperatorInit => StartupTypeOK
  BY OperatorAssumption, StageNames, SMT DEF OperatorInit, StartupTypeOK

LEMMA StartupTypeCorrect == OperatorSpec => []StartupTypeOK
  BY StartupTypeInit, StartupTypeStep, PTL DEF OperatorSpec

-----------------------------------------------------------------------------
(* The five kinds of steps.                                                *)

(* The startup works on the leases alone.                                  *)
LeaseLoop == [LeaseNext]_leaseVars /\ UNCHANGED <<claimVars, workVars>>

Resets(c) == Rewrite(c, AsPending(claim[c]))

LEMMA StartupSteps ==
  ASSUME StartupTypeOK, NEW p \in Operators, StartupStep(p)
  PROVE  UNCHANGED vars \/ LeaseLoop \/ BecomeLeader(p) \/ \E c \in Claims : Resets(c)
<1>1. CASE Start(p) \/ CreateFails(p) \/ SkipCleanup(p) \/ ListClaims(p) \/ StartManager(p)
  BY <1>1 DEF Start, CreateFails, SkipCleanup, ListClaims, StartManager
<1>2. CASE CreateNext(p)
  <2>1. PICK l \in uncreated[p] : CreateLease(l)
    BY <1>2 DEF CreateNext
  <2>2. l \in Leases
    BY ControllerAssumption DEF StartupTypeOK
  <2> QED
    BY <1>2, <2>1, <2>2 DEF CreateNext, LeaseLoop, LeaseNext
<1>3. CASE CleanupProvider(p)
  BY <1>3 DEF CleanupProvider, LeaseLoop, LeaseNext
<1>4. CASE ReleaseNext(p)
  BY <1>4 DEF ReleaseNext, LeaseLoop, LeaseNext
<1>5. ASSUME NEW c \in Claims, ResetClaim(p, c)
      PROVE  UNCHANGED vars \/ Resets(c)
  BY <1>5 DEF ResetClaim, Resets
<1> QED
  BY <1>1, <1>2, <1>3, <1>4, <1>5 DEF StartupStep

LEMMA OperatorSteps ==
  ASSUME StartupTypeOK, [OperatorNext]_allVars
  PROVE  \/ [Next]_vars \/ LeaseLoop \/ \E c \in Claims : Resets(c)
         \/ \E p \in Operators : BecomeLeader(p) \/ Stop(p)
<1>1. ASSUME NEW p \in Operators, LeaderStep(p)
      PROVE  Next
  BY <1>1 DEF LeaderStep, Next
<1>2. CASE UserStep \/ AdminStep \/ TimePasses
  BY <1>2 DEF UserStep, AdminStep, TimePasses, Next
<1>3. CASE UNCHANGED allVars
  BY <1>3 DEF allVars
<1> QED
  BY <1>1, <1>2, <1>3, StartupSteps DEF OperatorNext

-----------------------------------------------------------------------------
(* The leases.                                                             *)

LeaseInv == LeaseTypeOK /\ CachedLeaseIsCurrent

LEMMA LeaderLeases ==
  ASSUME LeaseInv, NEW p \in Operators, BecomeLeader(p)
  PROVE  LeaseInv'
<1>1. /\ leaseView' = [leaseView EXCEPT ![p] = lease]
      /\ leaseBehind' = [leaseBehind EXCEPT ![p] = {}]
      /\ lease' = lease /\ listed' = listed
  BY DEF BecomeLeader
<1> QED
  BY <1>1, SMT DEF LeaseInv, LeaseTypeOK, CachedLeaseIsCurrent

LEMMA StoppedLeases ==
  ASSUME LeaseInv, NEW p \in Operators, Stop(p)
  PROVE  LeaseInv'
<1>1. /\ leaseView' = [leaseView EXCEPT ![p] = [l \in Leases |-> Absent]]
      /\ leaseBehind' = [leaseBehind EXCEPT ![p] = Leases]
      /\ listed' = [listed EXCEPT ![p] = {}]
      /\ lease' = lease
  BY DEF Stop
<1>2. [l \in Leases |-> Absent] \in [Leases -> LeaseRecord]
  BY AbsentType
<1>3. LeaseTypeOK'
  BY <1>1, <1>2, SMT DEF LeaseInv, LeaseTypeOK
<1>4. CachedLeaseIsCurrent'
  BY <1>1, SMT DEF LeaseInv, LeaseTypeOK, CachedLeaseIsCurrent
<1> QED
  BY <1>3, <1>4 DEF LeaseInv

LEMMA LeaseInvInit == OperatorInit => LeaseInv
<1> SUFFICES ASSUME OperatorInit PROVE LeaseInv
  OBVIOUS
<1>1. /\ lease = [l \in Leases |-> IF l \in Configured THEN Absent ELSE FreeLease]
      /\ listed = [p \in Operators |-> {}]
      /\ leaseView = [p \in Operators |-> [l \in Leases |-> Absent]]
      /\ leaseBehind = [p \in Operators |-> Leases]
  BY DEF OperatorInit
<1>2. Absent \in LeaseRecord /\ FreeLease \in LeaseRecord
  BY AbsentType, FreeLeaseType
<1> QED
  BY <1>1, <1>2 DEF LeaseInv, LeaseTypeOK, CachedLeaseIsCurrent

-----------------------------------------------------------------------------
(* The claims.                                                             *)

LEMMA PendingFacts ==
  ASSUME CInv, NEW c \in Claims
  PROVE  Storable(AsPending(claim[c])) /\ Modest(claim[c], AsPending(claim[c]))
<1>1. claim[c] \in ClaimRecord
  BY DEF CInv, ClaimTypeOK
<1>2. /\ \A v \in ClaimRecord : [v EXCEPT !.phase = "Pending"] \in ClaimRecord
      /\ \A v \in ClaimRecord : [v EXCEPT !.leaseName = NoLease] \in ClaimRecord
      /\ \A v \in ClaimRecord : [v EXCEPT !.ttl = 0] \in ClaimRecord
  BY PhaseNames, SMT DEF ClaimRecord
<1>3. AsPending(claim[c]) =
          [[[claim[c] EXCEPT !.phase = "Pending"] EXCEPT !.leaseName = NoLease] EXCEPT !.ttl = 0]
  BY DEF AsPending
<1>4. AsPending(claim[c]) \in ClaimRecord
  BY <1>1, <1>2, <1>3
<1>5. /\ AsPending(claim[c]).deleting = claim[c].deleting
      /\ AsPending(claim[c]).finalizer = claim[c].finalizer
      /\ AsPending(claim[c]).exists = claim[c].exists
      /\ AsPending(claim[c]).leaseName = NoLease
      /\ AsPending(claim[c]).phase = "Pending"
  BY <1>1, SMT DEF AsPending, ClaimRecord
<1> QED
  BY <1>4, <1>5, StoredFacts DEF Storable, Modest

(* The caches of a new leader are those of a reconciler that starts.       *)
LEMMA LeaderClaims ==
  ASSUME CInv, NEW p \in Operators, BecomeLeader(p)
  PROVE  CInv'
<1>1. /\ claimView' = [claimView EXCEPT ![p] = claim]
      /\ claimBehind' = [claimBehind EXCEPT ![p] = {}]
      /\ claim' = claim /\ worker' = worker
  BY DEF BecomeLeader
<1>2. ClaimTypeOK' /\ CachedClaimIsCurrent'
  BY <1>1, SMT DEF CInv, ClaimTypeOK, CachedClaimIsCurrent
<1>3. (WorkerHasTarget /\ CopyIsUsable)'
  BY <1>1 DEF CInv, WorkerHasTarget, HasTarget, CopyIsUsable, UsableFor, WantsLease, Live
<1>4. (FinalizerHolds /\ LeaseNameHasFinalizer)'
  BY <1>1 DEF CInv, FinalizerHolds, LeaseNameHasFinalizer
<1> QED
  BY <1>2, <1>3, <1>4 DEF CInv

LEMMA StoppedClaims ==
  ASSUME CInv, NEW p \in Operators, Stop(p)
  PROVE  CInv'
<1>1. /\ claimView' = [claimView EXCEPT ![p] = [c \in Claims |-> NoObject]]
      /\ claimBehind' = [claimBehind EXCEPT ![p] = Claims]
      /\ worker' = [worker EXCEPT ![p] = Idle]
      /\ claim' = claim
  BY DEF Stop
<1>2. [c \in Claims |-> NoObject] \in [Claims -> ClaimRecord]
  BY NoObjectFacts DEF Storable
<1>3. Idle \in WorkerRecord /\ HasTarget(Idle) /\ \A v : UsableFor(Idle, v)
  BY IdleFacts
<1>4. ClaimTypeOK'
  BY <1>1, <1>2, <1>3, SMT DEF CInv, ClaimTypeOK
<1>5. CachedClaimIsCurrent'
  BY <1>1, SMT DEF CInv, ClaimTypeOK, CachedClaimIsCurrent
<1>6. \A q \in Operators : worker'[q] = Idle \/ worker'[q] = worker[q]
  BY <1>1 DEF CInv, ClaimTypeOK
<1>7. (WorkerHasTarget /\ CopyIsUsable)'
  <2> SUFFICES ASSUME NEW q \in Operators
               PROVE  HasTarget(worker'[q]) /\ UsableFor(worker'[q], claim[worker'[q].claim])
    BY <1>1 DEF WorkerHasTarget, HasTarget, CopyIsUsable, UsableFor, WantsLease, Live
  <2> QED
    BY <1>3, <1>6 DEF CInv, WorkerHasTarget, CopyIsUsable
<1>8. (FinalizerHolds /\ LeaseNameHasFinalizer)'
  BY <1>1 DEF CInv, FinalizerHolds, LeaseNameHasFinalizer
<1> QED
  BY <1>4, <1>5, <1>7, <1>8 DEF CInv

LEMMA OperatorCInit == OperatorInit => CInv
<1> SUFFICES ASSUME OperatorInit PROVE CInv
  OBVIOUS
<1>1. /\ claim \in [Claims -> {NoObject, NewClaim}]
      /\ claimView = [p \in Operators |-> [c \in Claims |-> NoObject]]
      /\ claimBehind = [p \in Operators |-> Claims]
      /\ worker = [p \in Operators |-> Idle]
  BY DEF OperatorInit
<1>2. \A c \in Claims : Storable(claim[c])
  BY <1>1, NoObjectFacts
<1>3. ClaimTypeOK
  <2>1. claim \in [Claims -> ClaimRecord]
    BY <1>1, <1>2, SMT DEF Storable
  <2>2. NoObject \in ClaimRecord
    BY NoObjectFacts DEF Storable
  <2> QED
    BY <1>1, <2>1, <2>2, IdleFacts, SMT DEF ClaimTypeOK
<1>4. \A p \in Operators : HasTarget(worker[p]) /\ \A v : UsableFor(worker[p], v)
  BY <1>1, IdleFacts
<1> QED
  BY <1>1, <1>2, <1>3, <1>4 DEF CInv, WorkerHasTarget, CachedClaimIsCurrent, CopyIsUsable,
     FinalizerHolds, LeaseNameHasFinalizer, Storable

-----------------------------------------------------------------------------
(* Every step keeps the invariants.                                        *)

LEMMA ResetKeeps ==
  ASSUME CInv, NEW c \in Claims, Resets(c)
  PROVE  CInv' /\ ModestStep /\ UNCHANGED <<leaseVars, queue, timers>>
<1>1. StoreClaim(c, AsPending(claim[c]), Outdate(c, worker))
      /\ UNCHANGED <<leaseVars, queue, timers>>
  BY DEF Resets, Rewrite
<1> QED
  BY <1>1, PendingFacts, RewriteKeeps, StoreModest DEF Resets

LEMMA OperatorCStep ==
  ASSUME CInv, StartupTypeOK, [OperatorNext]_allVars
  PROVE  CInv'
<1>1. CASE [Next]_vars
  BY <1>1, CStep
<1>2. CASE LeaseLoop
  BY <1>2, StutterKeeps DEF LeaseLoop, workVars
<1> QED
  BY <1>1, <1>2, OperatorSteps, ResetKeeps, LeaderClaims, StoppedClaims

LEMMA LeaseStutters ==
  ASSUME LeaseInv, [LeaseNext]_leaseVars
  PROVE  LeaseInv'
  BY LeaseTypeStep, CacheStep DEF LeaseInv

LEMMA OperatorLeaseStep ==
  ASSUME CInv, LeaseInv, StartupTypeOK, [OperatorNext]_allVars
  PROVE  LeaseInv'
<1>1. CASE [Next]_vars
  BY <1>1, LeaseStep, LeaseStutters
<1>2. CASE LeaseLoop
  BY <1>2, LeaseStutters DEF LeaseLoop
<1>3. ASSUME NEW c \in Claims, Resets(c)
      PROVE  LeaseInv'
  BY <1>3, ResetKeeps, LeaseStutters
<1> QED
  BY <1>1, <1>2, <1>3, OperatorSteps, LeaderLeases, StoppedLeases

LEMMA OperatorQueueStep ==
  ASSUME CInv, QueueTypeOK, StartupTypeOK, [OperatorNext]_allVars
  PROVE  QueueTypeOK'
<1>1. CASE [Next]_vars
  BY <1>1, QueueStep
<1>2. CASE LeaseLoop
  BY <1>2 DEF LeaseLoop, workVars, QueueTypeOK
<1>3. ASSUME NEW c \in Claims, Resets(c)
      PROVE  QueueTypeOK'
  BY <1>3, ResetKeeps DEF QueueTypeOK
<1>4. ASSUME NEW p \in Operators, BecomeLeader(p)
      PROVE  QueueTypeOK'
  BY <1>4, SMT DEF BecomeLeader, QueueTypeOK
<1>5. ASSUME NEW p \in Operators, Stop(p)
      PROVE  QueueTypeOK'
  BY <1>5, SMT DEF Stop, QueueTypeOK
<1> QED
  BY <1>1, <1>2, <1>3, <1>4, <1>5, OperatorSteps

LEMMA OperatorQueueInit == OperatorInit => QueueTypeOK
  BY SMT DEF OperatorInit, QueueTypeOK

OInv == CInv /\ LeaseInv /\ QueueTypeOK /\ StartupTypeOK

LEMMA OInvCorrect == OperatorSpec => []OInv
<1>1. OperatorInit => OInv
  BY OperatorCInit, LeaseInvInit, OperatorQueueInit, StartupTypeInit DEF OInv
<1>2. OInv /\ [OperatorNext]_allVars => OInv'
  BY OperatorCStep, OperatorLeaseStep, OperatorQueueStep, StartupTypeStep DEF OInv
<1> QED
  BY <1>1, <1>2, PTL DEF OperatorSpec

(* Every state of the processes, of what they have in memory and of the    *)
(* API server has its type.                                                *)
THEOREM OperatorTypeCorrect == OperatorSpec => []OperatorTypeOK
<1>1. OInv => OperatorTypeOK
  BY DEF OInv, CInv, LeaseInv, StartupTypeOK, OperatorTypeOK, TypeOK
<1> QED
  BY <1>1, OInvCorrect, PTL

(* What a Reconcile call relies on holds through crashes, restarts and     *)
(* changes of the leader.                                                  *)
THEOREM OperatorKeepsIInv == OperatorSpec => []IInv
<1>1. OInv => IInv
  BY DEF OInv, CInv, LeaseInv, IInv, TypeOK
<1> QED
  BY <1>1, OInvCorrect, PTL

(* A claim whose status names a lease can't go away before handleDeletion  *)
(* has seen it, whatever a startup resets meanwhile.                       *)
THEOREM OperatorProtectsLeaseName == OperatorSpec => []LeaseNameHasFinalizer
<1>1. IInv => LeaseNameHasFinalizer
  BY DEF IInv
<1> QED
  BY <1>1, OperatorKeepsIInv, PTL

-----------------------------------------------------------------------------
(* What a step does to a claim.                                            *)

LEMMA OperatorClaimStep ==
  ASSUME OInv, [OperatorNext]_allVars
  PROVE  \A c \in Claims : \/ Modest(claim[c], claim'[c])
                           \/ \E p \in Operators : Binds(p, c) \/ Removes(p, c)
<1>1. CASE [Next]_vars
  BY <1>1, ClaimStep DEF OInv
<1>2. ASSUME NEW c \in Claims, Resets(c)
      PROVE  ModestStep
  BY <1>2, ResetKeeps DEF OInv
<1>3. CASE claim' = claim
  BY <1>3 DEF Modest
<1> QED
  BY <1>1, <1>2, <1>3, OperatorSteps
     DEF OInv, ModestStep, LeaseLoop, claimVars, BecomeLeader, Stop

LEMMA OperatorAlone ==
  ASSUME OInv, [OperatorNext]_allVars
  PROVE  Alone \/ Tick
<1>1. CASE [Next]_vars
  BY <1>1, NextAlone DEF OInv
<1>2. ASSUME NEW c \in Claims, Resets(c)
      PROVE  Alone
  BY <1>2, StoreAlone DEF OInv, Resets, Rewrite
<1>3. CASE claim' = claim
  BY <1>3 DEF Alone
<1> QED
  BY <1>1, <1>2, <1>3, OperatorSteps DEF OInv, LeaseLoop, claimVars, BecomeLeader, Stop

(* A claim that is being deleted never becomes Bound, in no process that   *)
(* an earlier or another leader has left behind.                           *)
THEOREM OperatorNeverBindsDeleting == OperatorSpec => DeletingNeverBinds
<1> DEFINE A == \A c \in Claims : claim[c].deleting /\ claim'[c].phase = "Bound"
                                      => claim[c].phase = "Bound"
<1>1. OInv /\ [OperatorNext]_allVars => [A]_vars
  BY OperatorClaimStep, NoObjectUnbound DEF Modest, Binds, Removes, WantsLease, Live
<1> QED
  BY <1>1, OInvCorrect, PTL DEF OperatorSpec, DeletingNeverBinds

(* A claim that is Bound keeps its lease for as long as it is Bound.       *)
THEOREM OperatorNeverRebinds == OperatorSpec => BoundNeverRebinds
<1> DEFINE A == \A c \in Claims : claim[c].phase = "Bound" /\ claim'[c].phase = "Bound"
                                      => claim'[c].leaseName = claim[c].leaseName
<1>1. OInv /\ [OperatorNext]_allVars => [A]_vars
  BY OperatorClaimStep, NoObjectUnbound DEF Modest, Binds, Removes, WantsLease
<1> QED
  BY <1>1, OInvCorrect, PTL DEF OperatorSpec, BoundNeverRebinds

LEMMA OperatorSuitsStep ==
  ASSUME OInv, WorkersSuit, [OperatorNext]_allVars
  PROVE  WorkersSuit'
<1>1. CASE [Next]_vars
  BY <1>1, SuitsStep DEF OInv
<1>2. CASE UNCHANGED worker
  BY <1>2 DEF WorkersSuit, WorkerSuits, Suits
<1>3. ASSUME NEW c \in Claims, Resets(c)
      PROVE  WorkersSuit'
  BY <1>3, RewriteSuits DEF Resets, OInv
<1>4. ASSUME NEW p \in Operators, Stop(p)
      PROVE  WorkersSuit'
  BY <1>4, MoveSuits, IdleSuits DEF Stop, OInv
<1> QED
  BY <1>1, <1>2, <1>3, <1>4, OperatorSteps DEF OInv, LeaseLoop, workVars, BecomeLeader

(* No claim is Bound to an account that lacks a label it requires, with    *)
(* any number of processes, and whoever of them had found the lease.       *)
THEOREM OperatorMatchesLabels == OperatorSpec => []BoundMatchesLabels
<1> DEFINE I == WorkersSuit /\ BoundMatchesLabels
<1>1. OperatorInit => I
  BY IdleSuits, SMT DEF OperatorInit, WorkersSuit, BoundMatchesLabels, NewClaim, NoObject
<1>2. OInv /\ I /\ [OperatorNext]_allVars => I'
  BY OperatorSuitsStep, OperatorClaimStep, BoundSuits DEF OInv, BoundMatchesLabels
<1> QED
  BY <1>1, <1>2, OInvCorrect, PTL DEF OperatorSpec

-----------------------------------------------------------------------------
(* The lock.                                                               *)

LEMMA OperatorLockInit == OperatorInit => Lock!Init
  BY NoHolder, SMT DEF OperatorInit, Lock!Init, held, isLeaseFree

LEMMA OperatorLockStep ==
  ASSUME OInv, [OperatorNext]_allVars
  PROVE  [Lock!Next]_held
<1>1. ASSUME [LeaseNext]_leaseVars
      PROVE  [Lock!Next]_held
  BY <1>1, LockStepMaps DEF OInv, LeaseInv
<1>2. CASE [Next]_vars
  BY <1>1, <1>2, LeaseStep DEF OInv
<1>3. CASE LeaseLoop
  BY <1>1, <1>3 DEF LeaseLoop
<1>4. ASSUME NEW c \in Claims, Resets(c)
      PROVE  [Lock!Next]_held
  BY <1>1, <1>4, ResetKeeps DEF OInv
<1>5. ASSUME NEW p \in Operators, BecomeLeader(p) \/ Stop(p)
      PROVE  UNCHANGED held
  <2>1. lease' = lease
    BY <1>5 DEF BecomeLeader, Stop
  <2> QED
    BY <2>1 DEF held, isLeaseFree
<1> QED
  BY <1>2, <1>3, <1>4, <1>5, OperatorSteps DEF OInv

(* In a rolling update, too, and however often processes are restarted, no *)
(* claim is given a lease on which another one's time is running, unless a *)
(* startup has freed it in between: the startup releases, it never takes.  *)
THEOREM OperatorImplementsLock == OperatorSpec => ImplementsLock
<1>1. OInv /\ [OperatorNext]_allVars => [Lock!Next]_held
  BY OperatorLockStep
<1> QED
  BY <1>1, OperatorLockInit, OInvCorrect, PTL DEF OperatorSpec, ImplementsLock, Lock!Spec
=============================================================================
