---------------------------- MODULE RestartProofs ----------------------------
(***************************************************************************)
(* Proofs about Operator with one process at a time (OneOperator), stopped *)
(* and started again any number of times.                                  *)
(*                                                                         *)
(* What a worker has done with a lease stays done, as nothing interferes   *)
(* with it: the startup runs only while the worker is idle.                *)
(*                                                                         *)
(* Where the startup cleanup is on, its writes succeed and spec.type is    *)
(* not edited (Undisturbed), a new leader starts from a clean pool.  The   *)
(* invariant follows main: what is left to do is in listed, then in        *)
(* resetting, until both are empty.  Where nothing else disturbs it either *)
(* (Quiet), the pool of a leader is settled from the start.                *)
(***************************************************************************)
EXTENDS OperatorProofs

IdleOutside == \A p \in Operators : stage[p] # "leader" => worker[p] = Idle

LEMMA StageOfEnter ==
  ASSUME StartupTypeOK, NEW p \in Operators, NEW from, NEW to, Enter(p, from, to)
  PROVE  stage[p] = from /\ stage'[p] = to
  BY DEF StartupTypeOK, Enter

(* A process starts up while its worker is idle.                           *)
LEMMA StartupOutside ==
  ASSUME NEW p \in Operators, StartupStep(p)
  PROVE  stage[p] # "leader"
<1>1. \E s \in Stages \ {"leader"} : stage[p] = s
  BY DEF StartupStep, Start, CreateNext, CreateFails, CleanupProvider, SkipCleanup,
     ReleaseNext, ListClaims, ResetClaim, StartManager, BecomeLeader, Enter, Stages
<1> QED
  BY <1>1

LEMMA OutdatedIdle ==
  ASSUME NEW c \in Claims, NEW p \in Operators, worker[p] = Idle,
         worker' = Outdate(c, worker)
  PROVE  worker'[p] = Idle
<1>1. worker[p].claim # c
  BY LeaseAssumption, SMT DEF Idle
<1> QED
  BY <1>1 DEF Outdate

LEMMA StartupKeepsIdle ==
  ASSUME NEW p \in Operators, StartupStep(p), worker[p] = Idle
  PROVE  worker'[p] = Idle
<1>1. ASSUME NEW c \in Claims, ResetClaim(p, c)
      PROVE  worker'[p] = Idle
  BY <1>1, OutdatedIdle DEF ResetClaim, Rewrite, StoreClaim, vars, workVars
<1>2. CASE UNCHANGED worker
  BY <1>2
<1> QED
  BY <1>1, <1>2 DEF StartupStep, Start, CreateNext, CreateFails, CleanupProvider,
     SkipCleanup, ReleaseNext, ListClaims, StartManager, BecomeLeader, vars, workVars

LEMMA UserStepKeepsIdle ==
  ASSUME Users, NEW p \in Operators, worker[p] = Idle
  PROVE  worker'[p] = Idle
  BY OutdatedIdle DEF Users, CreateClaim, DeleteClaim, EditClaim, Rewrite, StoreClaim

LEMMA IdleOutsideStep ==
  ASSUME OneOperator, OInv, IdleOutside, [OperatorNext]_allVars
  PROVE  IdleOutside'
<1>1. ASSUME NEW p \in Operators, StartupStep(p)
      PROVE  IdleOutside'
  <2>1. worker'[p] = Idle
    BY <1>1, StartupOutside, StartupKeepsIdle DEF IdleOutside
  <2> QED
    BY <2>1 DEF IdleOutside, OneOperator
<1>2. ASSUME NEW p \in Operators, LeaderStep(p)
      PROVE  IdleOutside'
  BY <1>2 DEF LeaderStep, Lead, Meanwhile, IdleOutside, OneOperator
<1>3. ASSUME NEW p \in Operators, Stop(p)
      PROVE  IdleOutside'
  <2>1. worker'[p] = Idle
    BY <1>3 DEF Stop, OInv, CInv, ClaimTypeOK
  <2> QED
    BY <2>1 DEF IdleOutside, OneOperator
<1>4. CASE UserStep
  BY <1>4, UserStepKeepsIdle DEF UserStep, Meanwhile, IdleOutside
<1>5. CASE AdminStep \/ TimePasses \/ UNCHANGED allVars
  BY <1>5 DEF AdminStep, AdminDeletesLease, TimePasses, Tick, allVars, vars, workVars,
     operatorVars, IdleOutside
<1> QED
  BY <1>1, <1>2, <1>3, <1>4, <1>5 DEF OperatorNext

LEMMA IdleOutsideInit == OperatorInit => IdleOutside
  BY DEF OperatorInit, IdleOutside

-----------------------------------------------------------------------------
(* What a worker knows of its lease.                                       *)

LEMMA OperatorKnowsStep ==
  ASSUME OneOperator, OInv, IdleOutside, WorkerKnowsHolder, [OperatorNext]_allVars
  PROVE  WorkerKnowsHolder'
<1>1. ASSUME NEW p \in Operators, worker'[p] = Idle
      PROVE  WorkerKnowsHolder'
  BY <1>1, IdleKnows DEF OneOperator, WorkerKnowsHolder, KnowsHolder
<1>2. ASSUME NEW p \in Operators, StartupStep(p)
      PROVE  WorkerKnowsHolder'
  BY <1>1, <1>2, StartupOutside, StartupKeepsIdle DEF IdleOutside
<1>3. ASSUME NEW p \in Operators, Stop(p)
      PROVE  WorkerKnowsHolder'
  BY <1>1, <1>3 DEF Stop, OInv, CInv, ClaimTypeOK
<1>4. CASE [Next]_vars
  BY <1>4, KnowsStep DEF OInv, LeaseInv
<1> QED
  BY <1>2, <1>3, <1>4 DEF OperatorNext, LeaderStep, UserStep, AdminStep, TimePasses, Next,
     allVars

(* With one process at a time, a worker that provisions for a claim has    *)
(* the lease, and one that removes a finalizer has released it, through    *)
(* crashes and restarts.                                                   *)
THEOREM OperatorKnowsHolder == OneOperator => (OperatorSpec => []WorkerKnowsHolder)
<1> SUFFICES ASSUME OneOperator PROVE OperatorSpec => []WorkerKnowsHolder
  OBVIOUS
<1> DEFINE K == IdleOutside /\ WorkerKnowsHolder
<1>1. OperatorInit => K
  BY IdleOutsideInit, IdleKnows DEF OperatorInit, WorkerKnowsHolder
<1>2. OInv /\ K /\ [OperatorNext]_allVars => K'
  BY IdleOutsideStep, OperatorKnowsStep
<1> QED
  BY <1>1, <1>2, OInvCorrect, PTL DEF OperatorSpec

(* A claim that becomes Bound holds its lease at that step, whatever an    *)
(* earlier process had begun for it.                                       *)
THEOREM OperatorBindsOwnLease == OneOperator => (OperatorSpec => BindOwnsLease)
<1> SUFFICES ASSUME OneOperator PROVE OperatorSpec => BindOwnsLease
  OBVIOUS
<1> DEFINE A == \A c \in Claims :
                    LET v == lease[claim'[c].leaseName] IN
                    claim[c].phase # "Bound" /\ claim'[c].phase = "Bound" /\ v.exists
                        => v.holder = c
<1>1. ASSUME OInv, WorkerKnowsHolder, [OperatorNext]_allVars
      PROVE  A
  <2> SUFFICES ASSUME NEW c \in Claims, claim[c].phase # "Bound", claim'[c].phase = "Bound",
                      lease[claim'[c].leaseName].exists
               PROVE  lease[claim'[c].leaseName].holder = c
    OBVIOUS
  <2>1. PICK p \in Operators : Binds(p, c)
    BY <1>1, OperatorClaimStep, NoObjectUnbound DEF Modest, Removes
  <2>2. claim[c] \in ClaimRecord
    BY <1>1 DEF OInv, CInv, ClaimTypeOK
  <2>3. claim'[c].leaseName = worker[p].lease
    BY <2>1, <2>2, SMT DEF Binds, Bound, ClaimRecord
  <2> QED
    BY <1>1, <2>1, <2>3 DEF Binds, WorkerKnowsHolder, KnowsHolder, Provisioning
<1>2. OInv /\ WorkerKnowsHolder /\ [OperatorNext]_allVars => [A]_vars
  BY <1>1
<1>3. OperatorSpec => []WorkerKnowsHolder
  BY OperatorKnowsHolder
<1> QED
  BY <1>2, <1>3, OInvCorrect, PTL DEF OperatorSpec, BindOwnsLease

(* A claim leaves without the lease its status names, whichever process    *)
(* ends its deletion: no restart turns a deletion into a leaked lease.     *)
THEOREM OperatorRemovesReleased == OneOperator => (OperatorSpec => RemovedReleased)
<1> SUFFICES ASSUME OneOperator PROVE OperatorSpec => RemovedReleased
  OBVIOUS
<1> DEFINE A == \A c \in Claims :
                    LET l == claim[c].leaseName IN
                    claim[c].finalizer /\ ~claim'[c].finalizer /\ l # NoLease
                        => lease[l].holder # c
<1>1. ASSUME OInv, WorkerKnowsHolder, [OperatorNext]_allVars
      PROVE  A
  <2> SUFFICES ASSUME NEW c \in Claims, claim[c].finalizer, ~claim'[c].finalizer,
                      claim[c].leaseName # NoLease
               PROVE  lease[claim[c].leaseName].holder # c
    OBVIOUS
  <2>1. ASSUME NEW p \in Operators, Binds(p, c)
        PROVE  FALSE
    <3>1. claim[c] \in ClaimRecord
      BY <1>1 DEF OInv, CInv, ClaimTypeOK
    <3>2. claim'[c].finalizer = claim[c].finalizer
      BY <2>1, <3>1, SMT DEF Binds, Bound, ClaimRecord
    <3> QED
      BY <3>2
  <2>2. PICK p \in Operators : Removes(p, c)
    BY <1>1, <2>1, OperatorClaimStep DEF Modest
  <2> QED
    BY <1>1, <2>2 DEF Removes, WorkerKnowsHolder, KnowsHolder
<1>2. OInv /\ WorkerKnowsHolder /\ [OperatorNext]_allVars => [A]_vars
  BY <1>1
<1>3. OperatorSpec => []WorkerKnowsHolder
  BY OperatorKnowsHolder
<1> QED
  BY <1>2, <1>3, OInvCorrect, PTL DEF OperatorSpec, RemovedReleased

-----------------------------------------------------------------------------
(* A clean start.                                                          *)

(* The cleanup is on, writes succeed and spec.type is not edited.          *)
Undisturbed == /\ StartupCleanup = {TRUE}
               /\ "apiError" \notin Hazards /\ "edit" \notin Hazards

LEMMA PendingNamed ==
  ASSUME CInv, AllNamed, NEW c \in Claims
  PROVE  Named(AsPending(claim[c]))
<1>1. claim[c] \in ClaimRecord /\ Named(claim[c])
  BY DEF CInv, ClaimTypeOK, AllNamed
<1>2. /\ AsPending(claim[c]).known = claim[c].known
      /\ AsPending(claim[c]).leaseName = NoLease
  BY <1>1 DEF AsPending, ClaimRecord
<1> QED
  BY <1>1, <1>2 DEF Named

LEMMA NamedStep ==
  ASSUME "edit" \notin Hazards, OInv, AllNamed, [OperatorNext]_allVars
  PROVE  AllNamed'
<1>1. CASE claim' = claim
  BY <1>1 DEF AllNamed, Named
<1>2. CASE [Next]_vars
  BY <1>2, NamedNext DEF OInv
<1>3. ASSUME NEW c \in Claims, Resets(c)
      PROVE  AllNamed'
  BY <1>3, StoreNamed, PendingNamed DEF Resets, Rewrite, OInv
<1> QED
  BY <1>1, <1>2, <1>3, OperatorSteps DEF OInv, LeaseLoop, claimVars, BecomeLeader, Stop

-----------------------------------------------------------------------------
(* main, stage by stage.                                                   *)

AllFree == \A l \in Leases : lease[l].holder = Nobody

(* What the startup still has to release, and to reset: a user may only    *)
(* overtake it by deleting a claim it has listed.                          *)
ToRelease(p) == \A l \in Leases : lease[l].holder # Nobody => l \in listed[p]

ToReset(p) ==
    \A c \in Claims :
        claim[c].leaseName # NoLease
            => c \in resetting[p] \/ ("overtake" \in Hazards /\ claim[c].deleting)

(* The invariant: each stage leaves less to do.                            *)
StartedClean(p) ==
    /\ stage[p] = "releaseLeases" => ToRelease(p)
    /\ stage[p] \in {"resetClaims", "standby"} => AllFree /\ ToReset(p)
    /\ stage[p] = "standby" => resetting[p] = {}

AllStartedClean == \A p \in Operators : StartedClean(p)

(* Nobody's step outside a startup holds it up.                            *)
LEMMA UsersClean ==
  ASSUME Undisturbed, CInv, Users
  PROVE  /\ lease' = lease /\ listed' = listed
         /\ \A c \in Claims : \/ claim'[c] = claim[c]
                              \/ claim'[c].leaseName = NoLease
                              \/ /\ claim'[c].deleting
                                 /\ claim'[c].leaseName = claim[c].leaseName
<1>1. \E c \in Claims : Rewrite(c, NewClaim) \/ Rewrite(c, Deleted(claim[c]))
  BY DEF Users, CreateClaim, DeleteClaim, EditClaim, Undisturbed
<1>2. PICK c \in Claims : Rewrite(c, NewClaim) \/ Rewrite(c, Deleted(claim[c]))
  BY <1>1
<1>3. UNCHANGED leaseVars
  BY <1>2 DEF Rewrite
<1>4. claim[c] \in ClaimRecord
  BY DEF CInv, ClaimTypeOK
<1>5. \/ Deleted(claim[c]).leaseName = NoLease
      \/ /\ Deleted(claim[c]).deleting
         /\ Deleted(claim[c]).leaseName = claim[c].leaseName
  BY <1>4, NewNamed DEF Deleted, ClaimRecord
<1>6. \/ claim' = [claim EXCEPT ![c] = NewClaim]
      \/ claim' = [claim EXCEPT ![c] = Deleted(claim[c])]
  BY <1>2 DEF Rewrite, StoreClaim
<1>7. /\ \A d \in Claims \ {c} : claim'[d] = claim[d]
      /\ claim'[c] = NewClaim \/ claim'[c] = Deleted(claim[c])
  BY <1>6 DEF CInv, ClaimTypeOK
<1> QED
  BY <1>3, <1>5, <1>7, NewNamed DEF leaseVars

LEMMA UserStepClean ==
  ASSUME Undisturbed, OInv, AllStartedClean, UserStep
  PROVE  AllStartedClean'
<1> SUFFICES ASSUME NEW p \in Operators PROVE StartedClean(p)'
  BY DEF AllStartedClean
<1>1. stage' = stage /\ resetting'[p] = resetting[p] \ Changed
  BY DEF UserStep, Meanwhile, Overtake
<1>2. /\ lease' = lease /\ listed' = listed
      /\ \A c \in Claims : \/ claim'[c] = claim[c]
                           \/ claim'[c].leaseName = NoLease
                           \/ /\ claim'[c].deleting
                              /\ claim'[c].leaseName = claim[c].leaseName
  BY UsersClean DEF UserStep, OInv
<1>3. StartedClean(p)
  BY DEF AllStartedClean
<1>4. ToRelease(p) => ToRelease(p)'
  BY <1>2 DEF ToRelease
<1>5. AllFree => AllFree'
  BY <1>2 DEF AllFree
<1>6. "overtake" \in Hazards \/ resetting'[p] = resetting[p]
  BY <1>1 DEF UserStep
<1>7. ToReset(p) => ToReset(p)'
  BY <1>1, <1>2, <1>6 DEF ToReset, Changed
<1> QED
  BY <1>1, <1>3, <1>4, <1>5, <1>7 DEF StartedClean

LEMMA TimeClean ==
  ASSUME OInv, AllStartedClean, TimePasses
  PROVE  AllStartedClean'
<1> SUFFICES ASSUME NEW p \in Operators PROVE StartedClean(p)'
  BY DEF AllStartedClean
<1>1. UNCHANGED operatorVars /\ listed' = listed
  BY DEF TimePasses, Tick, TickLeases
<1>2. \A l \in Leases : lease'[l].holder = lease[l].holder
  BY DEF TimePasses, Tick, TickLeases, Aged, OInv, LeaseInv, LeaseTypeOK, LeaseRecord
<1>3. \A c \in Claims : /\ claim'[c].leaseName = claim[c].leaseName
                        /\ claim'[c].deleting = claim[c].deleting
  BY AgedClaim DEF TimePasses, Tick, OInv, CInv, ClaimTypeOK
<1>4. StartedClean(p)
  BY DEF AllStartedClean
<1> QED
  BY <1>1, <1>2, <1>3, <1>4 DEF StartedClean, ToRelease, AllFree, ToReset, operatorVars

(* The loop of ReleaseAllLeases.                                           *)
LEMMA ReleaseNextClean ==
  ASSUME Undisturbed, OInv, NEW p \in Operators, ReleaseNext(p), StartedClean(p)
  PROVE  StartedClean(p)'
<1>1. PICK l \in Leases : ReleaseListedLease(p, l)
  BY DEF ReleaseNext, Undisturbed
<1>2. stage[p] = "releaseLeases" /\ stage' = stage
  BY DEF ReleaseNext, operatorVars
<1>3. lease' = [lease EXCEPT ![l] = FreeLease]
  BY <1>1 DEF ReleaseListedLease, StoreLease
<1>4. /\ lease'[l].holder = Nobody
      /\ \A m \in Leases \ {l} : lease'[m] = lease[m]
  BY <1>3, NoHolder DEF OInv, LeaseInv, LeaseTypeOK
<1>5. listed' = listed \/ listed'[p] = listed[p] \ {l}
  BY <1>1 DEF ReleaseListedLease, StoreLease
<1>6. ToRelease(p)
  BY <1>2 DEF StartedClean
<1>7. ToRelease(p)'
  BY <1>4, <1>5, <1>6 DEF ToRelease
<1> QED
  BY <1>2, <1>7 DEF StartedClean

(* The loop over the claims.                                               *)
LEMMA ResetClaimClean ==
  ASSUME Undisturbed, OInv, NEW p \in Operators, NEW c \in Claims, ResetClaim(p, c),
         StartedClean(p)
  PROVE  StartedClean(p)'
<1>1. stage[p] = "resetClaims" /\ stage' = stage
  BY DEF ResetClaim
<1>2. Rewrite(c, AsPending(claim[c])) /\ Overtake({c})
  BY DEF ResetClaim, Undisturbed
<1>3. lease' = lease /\ resetting'[p] = resetting[p] \ {c}
  BY <1>2 DEF Rewrite, leaseVars, Overtake
<1>4. claim[c] \in ClaimRecord
  BY DEF OInv, CInv, ClaimTypeOK
<1>5. AsPending(claim[c]).leaseName = NoLease
  BY <1>4 DEF AsPending, ClaimRecord
<1>6. claim' = [claim EXCEPT ![c] = AsPending(claim[c])]
  BY <1>2 DEF Rewrite, StoreClaim
<1>7. /\ claim'[c].leaseName = NoLease
      /\ \A d \in Claims \ {c} : claim'[d] = claim[d]
  BY <1>5, <1>6 DEF OInv, CInv, ClaimTypeOK
<1>8. AllFree /\ ToReset(p)
  BY <1>1 DEF StartedClean
<1>9. AllFree' /\ ToReset(p)'
  BY <1>3, <1>7, <1>8 DEF AllFree, ToReset
<1> QED
  BY <1>1, <1>9 DEF StartedClean

LEMMA StartupClean ==
  ASSUME Undisturbed, OInv, AllNamed, NEW p \in Operators, StartupStep(p), StartedClean(p)
  PROVE  StartedClean(p)'
<1>1. StartupTypeOK
  BY DEF OInv
<1>2. CASE Start(p) \/ CreateFails(p) \/ BecomeLeader(p)
  <2>1. stage'[p] \in {"createLeases", "down", "leader"}
    BY <1>1, <1>2, StageOfEnter DEF Start, CreateFails, BecomeLeader
  <2> QED
    BY <2>1 DEF StartedClean
<1>3. CASE CreateNext(p)
  BY <1>3 DEF CreateNext, StartedClean
<1>4. CASE CleanupProvider(p)
  <2>1. stage'[p] = "releaseLeases"
    BY <1>1, <1>4, StageOfEnter DEF CleanupProvider
  <2>2. ListHeldLeases(p)
    BY <1>4 DEF CleanupProvider, Undisturbed
  <2>3. lease' = lease /\ listed'[p] = {l \in Leases : lease[l].holder # Nobody}
    BY <2>2 DEF ListHeldLeases, OInv, LeaseInv, LeaseTypeOK
  <2> QED
    BY <2>1, <2>3 DEF StartedClean, ToRelease
<1>5. CASE SkipCleanup(p)
  BY <1>5 DEF SkipCleanup, Undisturbed
<1>6. CASE ListClaims(p)
  <2>1. stage[p] = "releaseLeases" /\ stage'[p] = "resetClaims"
    BY <1>1, <1>6, StageOfEnter DEF ListClaims
  <2>2. listed[p] = {} /\ lease' = lease /\ claim' = claim
    BY <1>6 DEF ListClaims, vars, leaseVars, claimVars
  <2>3. resetting'[p] = {c \in Claims : claim[c].phase \in {"Bound", "Releasing"}}
    BY <1>1, <1>6 DEF ListClaims, Undisturbed, StartupTypeOK
  <2>4. AllFree'
    BY <2>1, <2>2 DEF StartedClean, ToRelease, AllFree
  <2>5. ToReset(p)'
    BY <2>2, <2>3 DEF ToReset, AllNamed, Named
  <2> QED
    BY <2>1, <2>4, <2>5 DEF StartedClean
<1>7. CASE StartManager(p)
  <2>1. stage[p] = "resetClaims" /\ stage'[p] = "standby"
    BY <1>1, <1>7, StageOfEnter DEF StartManager
  <2>2. resetting[p] = {} /\ resetting' = resetting /\ lease' = lease /\ claim' = claim
    BY <1>7 DEF StartManager, vars, leaseVars, claimVars
  <2> QED
    BY <2>1, <2>2 DEF StartedClean, AllFree, ToReset
<1> QED
  BY <1>2, <1>3, <1>4, <1>5, <1>6, <1>7, ReleaseNextClean, ResetClaimClean DEF StartupStep

LEMMA CleanStep ==
  ASSUME OneOperator, Undisturbed, OInv, AllNamed, AllStartedClean, [OperatorNext]_allVars
  PROVE  AllStartedClean'
<1>1. ASSUME NEW p \in Operators, StartedClean(p)'
      PROVE  AllStartedClean'
  BY <1>1 DEF OneOperator, AllStartedClean, StartedClean, AllFree, ToRelease, ToReset
<1>2. ASSUME NEW p \in Operators, StartupStep(p)
      PROVE  AllStartedClean'
  BY <1>1, <1>2, StartupClean DEF AllStartedClean
<1>3. ASSUME NEW p \in Operators, LeaderStep(p)
      PROVE  AllStartedClean'
  BY <1>1, <1>3 DEF LeaderStep, Lead, Meanwhile, StartedClean
<1>4. ASSUME NEW p \in Operators, Stop(p)
      PROVE  AllStartedClean'
  <2>1. stage'[p] = "down"
    BY <1>4 DEF Stop, OInv, StartupTypeOK
  <2> QED
    BY <1>1, <2>1 DEF StartedClean
<1>5. CASE AdminStep
  <2>1. PICK p \in Operators : stage[p] = "leader"
    BY <1>5 DEF AdminStep, Lead
  <2>2. stage'[p] = "leader"
    BY <1>5, <2>1 DEF AdminStep, operatorVars
  <2> QED
    BY <1>1, <2>2 DEF StartedClean
<1>6. CASE UNCHANGED allVars
  BY <1>6 DEF allVars, vars, operatorVars, leaseVars, claimVars, AllStartedClean,
     StartedClean, ToRelease, AllFree, ToReset
<1> QED
  BY <1>2, <1>3, <1>4, <1>5, <1>6, UserStepClean, TimeClean DEF OperatorNext

LEMMA LeadsFromStandby ==
  ASSUME StartupTypeOK, NEW p \in Operators, StartupStep(p) \/ Stop(p),
         stage[p] # "leader", stage'[p] = "leader"
  PROVE  stage[p] = "standby"
<1>1. CASE Start(p) \/ CreateFails(p) \/ CleanupProvider(p) \/ SkipCleanup(p)
             \/ ListClaims(p) \/ StartManager(p)
  <2>1. \E to \in Stages \ {"leader"} : \E from : Enter(p, from, to)
    BY <1>1, StageNames
       DEF Start, CreateFails, CleanupProvider, SkipCleanup, ListClaims, StartManager
  <2> QED
    BY <2>1, StageOfEnter
<1>2. CASE stage' = stage
  BY <1>2
<1>3. CASE BecomeLeader(p)
  BY <1>3, StageOfEnter DEF BecomeLeader
<1>4. CASE Stop(p)
  BY <1>4 DEF Stop, StartupTypeOK
<1> QED
  BY <1>1, <1>2, <1>3, <1>4 DEF StartupStep, CreateNext, ReleaseNext, ResetClaim, operatorVars

(* After a crash at any point, and after crashes of the startups that      *)
(* follow it, the next leader finds every lease free and no claim that     *)
(* names one, but for claims deleted while the cleanup was at work: for    *)
(* any number of claims and leases, stale caches, lost replies, expiry and *)
(* failing hooks.                                                          *)
THEOREM StartsClean == OneOperator /\ Undisturbed => (OperatorSpec => CleanStart)
<1> SUFFICES ASSUME OneOperator, Undisturbed PROVE OperatorSpec => CleanStart
  OBVIOUS
<1> DEFINE I == AllNamed /\ AllStartedClean
           A == \A p \in Operators :
                    stage[p] # "leader" /\ stage'[p] = "leader" =>
                        /\ \A l \in Leases : lease[l].holder = Nobody
                        /\ \A c \in Claims : claim[c].leaseName # NoLease => claim[c].deleting
<1>1. OperatorInit => I
  <2> SUFFICES ASSUME OperatorInit PROVE I
    OBVIOUS
  <2>1. AllNamed
    BY NewNamed DEF OperatorInit, AllNamed
  <2>2. \A p \in Operators : stage[p] = "down"
    BY DEF OperatorInit
  <2> QED
    BY <2>1, <2>2 DEF AllStartedClean, StartedClean
<1>2. OInv /\ I /\ [OperatorNext]_allVars => I'
  BY NamedStep, CleanStep DEF Undisturbed
<1>3. ASSUME OInv, I, [OperatorNext]_allVars
      PROVE  A
  <2> SUFFICES ASSUME NEW p \in Operators, stage[p] # "leader", stage'[p] = "leader"
               PROVE  /\ \A l \in Leases : lease[l].holder = Nobody
                      /\ \A c \in Claims : claim[c].leaseName # NoLease => claim[c].deleting
    OBVIOUS
  <2>1. StartupTypeOK
    BY <1>3 DEF OInv
  <2>2. PICK q \in Operators : StartupStep(q) \/ Stop(q)
    BY <1>3 DEF OperatorNext, LeaderStep, UserStep, Meanwhile, AdminStep, TimePasses, allVars,
       operatorVars
  <2>3. q = p
    BY DEF OneOperator
  <2>4. stage[p] = "standby"
    BY <2>1, <2>2, <2>3, LeadsFromStandby
  <2> QED
    BY <1>3, <2>4 DEF AllStartedClean, StartedClean, AllFree, ToReset
<1>4. OInv /\ I /\ [OperatorNext]_allVars => [A]_allVars
  BY <1>3
<1> QED
  BY <1>1, <1>2, <1>4, OInvCorrect, PTL DEF OperatorSpec, CleanStart

-----------------------------------------------------------------------------
(* A leader's pool is settled from the start, and stays so.                *)

(* As Undisturbed, and nobody deletes a claim a startup is about to reset. *)
Quiet == Calm /\ "overtake" \notin Hazards /\ StartupCleanup = {TRUE}

LedSettled == \A p \in Operators : Lead(p) => SettledAt(worker[p], claim, lease)

LEMMA OperatorBoundNamed ==
  ASSUME OInv, BoundNamed, [OperatorNext]_allVars
  PROVE  BoundNamed'
  BY OperatorClaimStep, BoundNamedStep DEF BoundNamed, OInv

LEMMA TakesOver ==
  ASSUME OneOperator, OInv, NEW p \in Operators, [OperatorNext]_allVars,
         ~Lead(p), stage'[p] = "leader"
  PROVE  BecomeLeader(p) /\ stage[p] = "standby"
<1>1. PICK q \in Operators : StartupStep(q) \/ Stop(q)
  BY DEF OperatorNext, LeaderStep, UserStep, Meanwhile, AdminStep, TimePasses, allVars,
     operatorVars, Lead
<1>2. q = p
  BY DEF OneOperator
<1>3. stage[p] = "standby"
  BY <1>1, <1>2, LeadsFromStandby DEF OInv, Lead
<1>4. ~Stop(p)
  BY DEF Stop, OInv, StartupTypeOK
<1> QED
  BY <1>1, <1>2, <1>3, <1>4 DEF StartupStep, Start, CreateNext, CreateFails,
     CleanupProvider, SkipCleanup, ReleaseNext, ListClaims, ResetClaim, StartManager, Enter

LEMMA LedSettledStep ==
  ASSUME OneOperator, Quiet, OInv, IdleOutside, AllNamed, AllStartedClean, LedSettled,
         [OperatorNext]_allVars
  PROVE  LedSettled'
<1> SUFFICES ASSUME NEW p \in Operators, stage'[p] = "leader"
             PROVE  SettledAt(worker'[p], claim', lease')
  BY DEF LedSettled, Lead, SettledAt, WorkerSettled, ClaimSettled, LeaseSettled
<1>1. CASE ~Lead(p)
  <2>1. BecomeLeader(p) /\ stage[p] = "standby"
    BY <1>1, TakesOver
  <2>2. worker' = worker /\ claim' = claim /\ lease' = lease
    BY <2>1 DEF BecomeLeader
  <2>3. worker[p] = Idle
    BY <2>1 DEF IdleOutside
  <2>4. /\ \A l \in Leases : lease[l].holder = Nobody
        /\ \A c \in Claims : claim[c].leaseName = NoLease
    BY <2>1 DEF AllStartedClean, StartedClean, AllFree, ToReset, Quiet
  <2> QED
    BY <2>2, <2>3, <2>4, IdleSettled DEF SettledAt, ClaimSettled, LeaseSettled
<1>2. CASE Lead(p)
  <2>1. SInv
    BY <1>2 DEF SInv, Settled, LedSettled, OInv, LeaseInv, OneOperator
  <2>2. ~\E q \in Operators : StartupStep(q) \/ Stop(q)
    BY <1>2, StartupOutside DEF OneOperator, Lead, Stop, OInv, StartupTypeOK
  <2>3. [Next]_vars
    BY <2>2 DEF OperatorNext, LeaderStep, UserStep, AdminStep, TimePasses, Next, allVars
  <2> QED
    BY <2>1, <2>3, SettledStep
       DEF Quiet, Settled, SettledAt, WorkerSettled, ClaimSettled, LeaseSettled
<1> QED
  BY <1>1, <1>2

LEMMA QuietIsUndisturbed == Quiet => Undisturbed
  BY CalmFacts DEF Quiet, Undisturbed

LEMMA LedSettledCorrect ==
  ASSUME OneOperator, Quiet
  PROVE  OperatorSpec => [](/\ OInv /\ IdleOutside /\ AllNamed /\ BoundNamed
                            /\ AllStartedClean /\ LedSettled)
<1> DEFINE I == IdleOutside /\ AllNamed /\ BoundNamed /\ AllStartedClean /\ LedSettled
<1>1. OperatorInit => I
  <2> SUFFICES ASSUME OperatorInit PROVE I
    OBVIOUS
  <2>1. \A c \in Claims : claim[c] = NoObject \/ claim[c] = NewClaim
    BY DEF OperatorInit
  <2>2. AllNamed
    BY <2>1, NewNamed DEF AllNamed
  <2>3. BoundNamed
    BY <2>1, SMT DEF BoundNamed, NoObject, NewClaim
  <2>4. \A p \in Operators : stage[p] = "down"
    BY DEF OperatorInit
  <2>5. AllStartedClean /\ LedSettled
    BY <2>4 DEF AllStartedClean, StartedClean, LedSettled, Lead
  <2> QED
    BY <2>2, <2>3, <2>5, IdleOutsideInit
<1>2. OInv /\ I /\ [OperatorNext]_allVars => I'
  BY IdleOutsideStep, NamedStep, OperatorBoundNamed, CleanStep, LedSettledStep,
     QuietIsUndisturbed DEF Undisturbed
<1> QED
  BY <1>1, <1>2, OInvCorrect, PTL DEF OperatorSpec

(* With one process at a time in a quiet environment: while it leads,      *)
(* every Bound claim holds the lease it names and no lease is lost,        *)
(* however often processes were stopped in the middle of an assignment, a  *)
(* release or a startup.                                                   *)
THEOREM OperatorConsistent ==
  OneOperator /\ Quiet =>
      (OperatorSpec => []((\E p \in Operators : Lead(p)) => BoundOwnsLease /\ NoOrphanLease))
<1> SUFFICES ASSUME OneOperator, Quiet
             PROVE  OperatorSpec =>
                        []((\E p \in Operators : Lead(p)) => BoundOwnsLease /\ NoOrphanLease)
  OBVIOUS
<1>1. OInv /\ BoundNamed /\ LedSettled
          => ((\E p \in Operators : Lead(p)) => BoundOwnsLease /\ NoOrphanLease)
  BY SettledPool DEF OInv, LedSettled
<1> QED
  BY <1>1, LedSettledCorrect, PTL

(* Only a leader's worker binds, and its pool is settled.                  *)
LEMMA OperatorBindsApart ==
  ASSUME OneOperator, OInv, IdleOutside, AllNamed, BoundNamed, LedSettled,
         [OperatorNext]_allVars, NEW c \in Claims
  PROVE  BindsApart(c)
<1>1. CASE Modest(claim[c], claim'[c])
  BY <1>1 DEF Modest, BindsApart
<1>2. ASSUME NEW p \in Operators, Binds(p, c) \/ Removes(p, c)
      PROVE  BindsApart(c)
  <2>1. worker[p].at # "idle"
    BY <1>2 DEF Binds, Removes
  <2>2. Lead(p)
    BY <2>1, IdleFacts DEF IdleOutside, Lead, Idle
  <2>3. SInv
    BY <2>2 DEF SInv, Settled, LedSettled, OInv, LeaseInv, OneOperator
  <2> QED
    BY <1>2, <2>3, StepBindsApart
<1> QED
  BY <1>1, <1>2, OperatorClaimStep

(* With one process at a time in a quiet environment, the operator         *)
(* implements Assignment across restarts: a process that stopped in the    *)
(* middle of a claim, or of a startup, leaves nothing that makes the next  *)
(* one give an account away twice.                                         *)
THEOREM OperatorImplementsAssignment ==
  OneOperator /\ Quiet => (OperatorSpec => ImplementsAssignment)
<1> SUFFICES ASSUME OneOperator, Quiet
             PROVE  OperatorSpec => ImplementsAssignment
  OBVIOUS
<1> DEFINE I == OInv /\ IdleOutside /\ AllNamed /\ BoundNamed /\ LedSettled
<1>1. OperatorInit => Sharing!Init
  BY AssignmentStart DEF OperatorInit
<1>2. I /\ BoundNamed' /\ BoundMatchesLabels' /\ [OperatorNext]_allVars
          => [Sharing!Next]_assigned
  <2> SUFFICES ASSUME I, BoundNamed', BoundMatchesLabels', [OperatorNext]_allVars
               PROVE  [Sharing!Next]_assigned
    OBVIOUS
  <2>1. CInv
    BY DEF OInv
  <2>2. \A c \in Claims : BindsApart(c)
    BY OperatorBindsApart
  <2>3. Alone \/ Tick
    BY OperatorAlone
  <2> QED
    BY <2>1, <2>2, <2>3, AssignmentMaps
<1>3. OperatorSpec => [](I /\ BoundNamed)
  BY LedSettledCorrect, PTL
<1> QED
  BY <1>1, <1>2, <1>3, OperatorMatchesLabels, PTL
  DEF OperatorSpec, ImplementsAssignment, Sharing!Spec
=============================================================================
