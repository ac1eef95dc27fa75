------------------------------ MODULE PoolProofs ------------------------------
(***************************************************************************)
(* Running the hooks of the provider statement by statement changes        *)
(* nothing for the reconciler: every step of Pool is one of Next or leaves *)
(* its variables alone.  What ControllerProofs and SingleOperatorProofs    *)
(* say of Spec is therefore true of PoolSpec as well.  What the hooks do   *)
(* to keys and Secrets leaves those of Bound claims alone, where the pool  *)
(* is settled (Calm).                                                      *)
(***************************************************************************)
EXTENDS Pool, SingleOperatorProofs

(* A step of Pool is a step of the reconciler, or a statement inside one   *)
(* of its hooks, or a user at work.                                        *)
LEMMA PoolStep ==
    ASSUME [PoolNext]_poolVars
    PROVE  [Next]_vars
<1>1. CASE UNCHANGED poolVars
    BY <1>1 DEF poolVars
<1>2. ASSUME NEW p \in Operators, HookStep(p)
      PROVE  UNCHANGED vars
    BY <1>2 DEF HookStep
<1>3. ASSUME NEW p \in Operators, HookReturns(p)
      PROVE  Next
    <2>1. AcquireResource(p) \/ ReleaseResource(p)
        BY <1>3 DEF HookReturns
    <2> QED  BY <2>1 DEF Next, Proceed
<1>4. ASSUME NEW p \in Operators,
             \/ ApiCall(p) \/ Caches(p)
             \/ \E c \in Claims : Reconcile(p, c) \/ TimerFires(p, c)
      PROVE  Next
    BY <1>4 DEF Next, Proceed
<1>5. CASE Users
    BY <1>5 DEF Next
<1>6. ASSUME NEW c \in Claims, UserWorks(c)
      PROVE  UNCHANGED vars
    BY <1>6 DEF UserWorks
<1> QED  BY <1>1, <1>2, <1>3, <1>4, <1>5, <1>6 DEF PoolNext

(* Pool implements ResourceClaimController, with the same variables.       *)
THEOREM PoolImplementsController == PoolSpec => Spec
<1>1. PoolInit => Init
    BY DEF PoolInit
<1>2. [PoolNext]_poolVars => [Next]_vars
    BY PoolStep
<1> QED  BY <1>1, <1>2, PTL DEF PoolSpec, Spec

(* A claim that becomes Bound has its lease, with the provider's           *)
(* statements in between (one operator process).                           *)
THEOREM PoolBindsOwnLease == OneOperator => (PoolSpec => BindOwnsLease)
  BY PoolImplementsController, BoundToOwnLease

-----------------------------------------------------------------------------
(* The provider's variables have their types.                              *)

KeyHolders == Operators \cup Claims \cup {NoKey, Lost}

LEMMA ForgetType ==
    ASSUME NEW k \in [Leases -> KeyHolders], NEW x
    PROVE  Snowflake!Forget(x, k) \in [Leases -> KeyHolders]
  BY DEF Snowflake!Forget, KeyHolders

LEMMA SecretType ==
    ASSUME keyAt \in [Leases -> KeyHolders],
           NEW p \in Operators, NEW c \in Claims, NEW l
    PROVE  Snowflake!SecretKeys(p, c, l) \in [Leases -> KeyHolders]
  BY DEF Snowflake!SecretKeys, KeyHolders

(* What a hook does keeps them, for a worker that has a claim and a lease. *)
LEMMA HookTypes ==
    ASSUME Snowflake!ProviderTypeOK,
           NEW p \in Operators, NEW c \in Claims, NEW l \in Leases,
           \/ Snowflake!SetPublicKey(p, l) \/ Snowflake!StoreSecret(p, c, l)
           \/ Snowflake!AcquireFails(p, c, l) \/ Snowflake!ReleaseFails(p)
           \/ Snowflake!ResetState(p, c, l) \/ Snowflake!ClearPublicKeys(p, l)
           \/ Snowflake!DeleteSecret(p, c)
    PROVE  Snowflake!ProviderTypeOK'
<1> USE DEF Snowflake!ProviderTypeOK, Snowflake!Hook, Snowflake!HookSteps
<1> DEFINE Keys == [Leases -> KeyHolders]
<1>1. keyAt \in Keys
  BY DEF KeyHolders
<1>2. /\ \A x : Snowflake!Forget(x, keyAt) \in Keys
      /\ Snowflake!SecretKeys(p, c, l) \in Keys
      /\ \A x \in KeyHolders : [keyAt EXCEPT ![l] = x] \in Keys
  BY <1>1, ForgetType, SecretType
<1>3. p \in KeyHolders /\ NoKey \in KeyHolders /\ Lost \in KeyHolders
  BY DEF KeyHolders
<1>4. SUFFICES /\ keyAt' \in Keys
               /\ hasSecret' \in [Claims -> BOOLEAN]
               /\ dirty' \in [Leases -> BOOLEAN]
               /\ hook' \in [Operators -> Snowflake!HookSteps]
  BY DEF KeyHolders
<1> HIDE DEF Keys
<1>5. CASE Snowflake!SetPublicKey(p, l)
  BY <1>2, <1>3, <1>5 DEF Snowflake!SetPublicKey, Snowflake!NewKey
<1>6. CASE Snowflake!StoreSecret(p, c, l)
  BY <1>2, <1>6 DEF Snowflake!StoreSecret
<1>7. CASE Snowflake!AcquireFails(p, c, l)
  BY <1>1, <1>2, <1>3, <1>7
     DEF Snowflake!AcquireFails, Snowflake!PrepareFails, Snowflake!KeyReplyLost,
         Snowflake!SecretFails
<1>8. CASE Snowflake!ReleaseFails(p)
  BY <1>1, <1>8 DEF Snowflake!ReleaseFails, Snowflake!providerVars
<1>9. CASE Snowflake!ResetState(p, c, l)
  BY <1>1, <1>9 DEF Snowflake!ResetState, Snowflake!Cleaned
<1>10. CASE Snowflake!ClearPublicKeys(p, l)
  BY <1>1, <1>2, <1>3, <1>10 DEF Snowflake!ClearPublicKeys, Snowflake!NoKeys
<1>11. CASE Snowflake!DeleteSecret(p, c)
  BY <1>1, <1>2, <1>11 DEF Snowflake!DeleteSecret
<1> QED
  BY <1>5, <1>6, <1>7, <1>8, <1>9, <1>10, <1>11

(* The worker that runs a hook has both.                                   *)
LEMMA HookKeepsTypes ==
    ASSUME WorkerHasTarget, Snowflake!ProviderTypeOK,
           NEW p \in Operators, HookStep(p) \/ HookReturns(p)
    PROVE  Snowflake!ProviderTypeOK'
<1> DEFINE c == worker[p].claim
           l == worker[p].lease
<1>1. At(p, "acquireResource") \/ At(p, "releaseResource")
  BY DEF HookStep, HookReturns, AcquireResource, ReleaseResource
<1>2. HasTarget(worker[p])
  BY DEF WorkerHasTarget
<1>3. c \in Claims /\ l \in Leases
  BY <1>1, <1>2 DEF At, HasTarget, Leasing, Acquiring
<1>4. \/ Snowflake!SetPublicKey(p, l) \/ Snowflake!StoreSecret(p, c, l)
      \/ Snowflake!AcquireFails(p, c, l) \/ Snowflake!ReleaseFails(p)
      \/ Snowflake!ResetState(p, c, l) \/ Snowflake!ClearPublicKeys(p, l)
      \/ Snowflake!DeleteSecret(p, c)
  BY DEF HookStep, HookReturns
<1> QED
  BY <1>3, <1>4, HookTypes

LEMMA ProviderStep ==
    ASSUME IInv, Snowflake!ProviderTypeOK, [PoolNext]_poolVars
    PROVE  Snowflake!ProviderTypeOK'
<1>1. CASE UNCHANGED providerVars
  BY <1>1 DEF providerVars, Snowflake!ProviderTypeOK
<1>2. ASSUME NEW p \in Operators, HookStep(p) \/ HookReturns(p)
      PROVE  Snowflake!ProviderTypeOK'
  BY <1>2, HookKeepsTypes DEF IInv
<1>3. ASSUME NEW c \in Claims, UserWorks(c)
      PROVE  Snowflake!ProviderTypeOK'
  BY <1>3 DEF UserWorks, Snowflake!UseAccount, Snowflake!ProviderTypeOK
<1> QED
  BY <1>1, <1>2, <1>3 DEF PoolNext, poolVars

(* Every state of the pool has its type: a key is with a hook, in the      *)
(* Secret of a claim or nowhere, and a hook that runs is at a statement.   *)
THEOREM PoolTypeCorrect == PoolSpec => []PoolTypeOK
<1>1. PoolSpec => []IInv
  BY PoolImplementsController, IInvCorrect
<1>2. PoolInit => Snowflake!ProviderTypeOK
  BY DEF PoolInit, Snowflake!ProviderInit, Snowflake!ProviderTypeOK, Snowflake!HookSteps
<1>3. IInv /\ Snowflake!ProviderTypeOK /\ [PoolNext]_poolVars
          => Snowflake!ProviderTypeOK'
  BY ProviderStep
<1>4. IInv /\ Snowflake!ProviderTypeOK => PoolTypeOK
  BY DEF IInv, PoolTypeOK
<1> QED
  BY <1>1, <1>2, <1>3, <1>4, PTL DEF PoolSpec

-----------------------------------------------------------------------------
(* The keys of Bound claims.                                               *)

(* A worker that is to bind a claim has left it a Secret that opens the    *)
(* account, and the key a hook has set is in its hands until it stores it. *)
(* A requeue is asked for only once the provider has failed.               *)
KeysAt(p) ==
    /\ BoundHasKey
    /\ worker[p].at = "bind" =>
           hasSecret[worker[p].claim] /\ keyAt[worker[p].lease] = worker[p].claim
    /\ hook[p] = "keySet" =>
           worker[p].at = "acquireResource" /\ keyAt[worker[p].lease] = p
    /\ worker[p].at \in {"acquireLease", "acquireResource"} => ~worker[p].retry

(* What a hook works on is neither a Bound claim nor the lease of one.     *)
LEMMA HookAwayFromBound ==
  ASSUME SInv, BoundNamed, NEW p \in Operators,
         worker[p].at = "acquireResource" \/ worker[p].at = "releaseResource",
         NEW d \in Claims, claim[d].phase = "Bound"
  PROVE  d # worker[p].claim /\ claim[d].leaseName \in Leases \ {worker[p].lease}
<1> DEFINE c == worker[p].claim
           l == worker[p].lease
<1>1. c \in Claims /\ l \in Leases /\ UsableFor(worker[p], claim[c])
  BY BusyFacts DEF SInv, HasTarget, Leasing, Acquiring
<1>2. SettledAt(worker[p], claim, lease)
  BY DEF SInv, Settled
<1>3. claim[d].leaseName \in Leases /\ lease[claim[d].leaseName].holder = d
  BY <1>2, SettledPool DEF SInv, BoundNamed, BoundOwnsLease
<1>4. lease[l].holder = c /\ d # c
  <2>1. CASE worker[p].at = "acquireResource"
    BY <1>2, <1>3, <2>1, ControllerAssumption
       DEF SettledAt, WorkerSettled, Holding, Provisioning, Acquiring
  <2>2. CASE worker[p].at = "releaseResource"
    <3>1. worker[p].fresh /\ claim[c].phase = "Releasing" /\ claim[c].leaseName = l
      BY <1>1, <1>2, <2>2 DEF SettledAt, WorkerSettled, UsableFor, Finalizing
    <3> QED
      BY <1>1, <1>2, <2>2, <3>1, ControllerAssumption DEF SettledAt, ClaimSettled
  <2> QED
    BY <2>1, <2>2
<1> QED
  BY <1>3, <1>4

(* Where the hooks' return leaves the worker.                              *)
LEMMA AcquireMoves ==
  ASSUME CInv, NEW p \in Operators, AcquireResource(p)
  PROVE  /\ worker'[p].claim = worker[p].claim /\ worker'[p].lease = worker[p].lease
         /\ worker'[p].at \in {"bind", "provisionFailed"}
         /\ worker'[p].at = "bind" => worker'[p].retry = worker[p].retry
<1> DEFINE x == [worker[p] EXCEPT !.at = "provisionFailed", !.retry = TRUE]
           y == [worker[p] EXCEPT !.at = "bind"]
<1>1. worker[p].at # "idle"
  BY DEF AcquireResource, At
<1>2. x.at = "provisionFailed" /\ x.claim = worker[p].claim /\ x.lease = worker[p].lease
  BY <1>1, BusyFacts, RetryType
<1>3. y.claim = worker[p].claim /\ y.lease = worker[p].lease /\ y.at = "bind"
  BY DEF CInv, ClaimTypeOK, WorkerRecord
<1>4. y.retry = worker[p].retry
  BY DEF CInv, ClaimTypeOK, WorkerRecord
<1>5. worker' = [worker EXCEPT ![p] = x] \/ worker' = [worker EXCEPT ![p] = y]
  BY DEF AcquireResource, Goto
<1> HIDE DEF x, y
<1>6. worker'[p] = x \/ worker'[p] = y
  BY <1>5 DEF CInv, ClaimTypeOK
<1> QED
  BY <1>2, <1>3, <1>4, <1>6

LEMMA ReleaseMoves ==
  ASSUME CInv, NEW p \in Operators, ReleaseResource(p)
  PROVE  worker'[p].at = "releaseLease"
<1>1. worker' = [worker EXCEPT ![p] = [worker[p] EXCEPT !.at = "releaseLease"]]
  BY DEF ReleaseResource, Goto
<1>2. [worker[p] EXCEPT !.at = "releaseLease"].at = "releaseLease"
  BY DEF CInv, ClaimTypeOK, WorkerRecord
<1>3. worker'[p] = [worker[p] EXCEPT !.at = "releaseLease"]
  BY <1>1 DEF CInv, ClaimTypeOK
<1> QED
  BY <1>2, <1>3

LEMMA HookKeepsKeys ==
  ASSUME SInv, BoundNamed, Snowflake!ProviderTypeOK, NEW p \in Operators, KeysAt(p),
         HookStep(p) \/ HookReturns(p)
  PROVE  KeysAt(p)'
<1> DEFINE c == worker[p].claim
           l == worker[p].lease
           Kept == \A d \in Claims : claim[d].phase = "Bound"
                                         => /\ hasSecret'[d]
                                            /\ keyAt'[claim[d].leaseName] = d
<1>1. claim' = claim
  BY DEF HookStep, HookReturns, AcquireResource, ReleaseResource, vars, claimVars
<1>2. worker[p].at = "acquireResource" \/ worker[p].at = "releaseResource"
  BY DEF HookStep, HookReturns, AcquireResource, ReleaseResource, At
<1>3. c \in Claims /\ l \in Leases /\ worker[p] \in WorkerRecord
  BY <1>2, BusyFacts DEF SInv, HasTarget, Leasing, Acquiring
<1>4. /\ keyAt \in [Leases -> KeyHolders] /\ hasSecret \in [Claims -> BOOLEAN]
      /\ hook \in [Operators -> Snowflake!HookSteps]
  BY DEF Snowflake!ProviderTypeOK, KeyHolders
<1>5. \A d \in Claims : claim[d].phase = "Bound" =>
          /\ d # c /\ claim[d].leaseName \in Leases \ {l}
          /\ hasSecret[d] /\ keyAt[claim[d].leaseName] = d
  BY <1>2, HookAwayFromBound DEF KeysAt, BoundHasKey
<1>6. \A d \in Claims : d # p
  BY PoolAssumption
<1>7. SUFFICES /\ Kept
               /\ worker'[p].at = "bind" =>
                      /\ hasSecret'[worker'[p].claim]
                      /\ keyAt'[worker'[p].lease] = worker'[p].claim
               /\ hook'[p] = "keySet" =>
                      worker'[p].at = "acquireResource" /\ keyAt'[worker'[p].lease] = p
               /\ worker'[p].at \in {"acquireLease", "acquireResource"} => ~worker'[p].retry
  BY <1>1 DEF KeysAt, BoundHasKey
<1>8. CASE At(p, "acquireResource") /\ Snowflake!SetPublicKey(p, l) /\ UNCHANGED vars
  <2>1. worker' = worker /\ worker[p].at = "acquireResource"
    BY <1>8 DEF vars, workVars, At
  <2>2. hasSecret' = hasSecret /\ keyAt' = [keyAt EXCEPT ![l] = p]
    BY <1>8 DEF Snowflake!SetPublicKey, Snowflake!NewKey
  <2> QED
    BY <1>3, <1>4, <1>5, <2>1, <2>2 DEF KeysAt
<1>9. CASE At(p, "releaseResource") /\ Snowflake!ResetState(p, c, l) /\ UNCHANGED vars
  <2>1. worker' = worker /\ keyAt' = keyAt /\ hasSecret' = hasSecret
    BY <1>9 DEF vars, workVars, Snowflake!ResetState
  <2>2. hook'[p] = "found" \/ hook'[p] = "notFound"
    BY <1>4, <1>9 DEF Snowflake!ResetState, Snowflake!Hook
  <2> QED
    BY <1>5, <2>1, <2>2 DEF KeysAt
<1>10. CASE At(p, "releaseResource") /\ Snowflake!ClearPublicKeys(p, l) /\ UNCHANGED vars
  <2>1. worker' = worker /\ worker[p].at = "releaseResource" /\ hasSecret' = hasSecret
    BY <1>10 DEF At, vars, workVars, Snowflake!ClearPublicKeys
  <2>2. hook'[p] = "lockedFound" \/ hook'[p] = "lockedNotFound"
    BY <1>4, <1>10 DEF Snowflake!ClearPublicKeys, Snowflake!Hook
  <2>3. \A m \in Leases \ {l} : keyAt'[m] = keyAt[m]
    BY <1>4, <1>10 DEF Snowflake!ClearPublicKeys, Snowflake!NoKeys
  <2> QED
    BY <1>5, <2>1, <2>2, <2>3 DEF KeysAt
<1>11. CASE AcquireResource(p) /\ ~worker'[p].retry /\ Snowflake!StoreSecret(p, c, l)
  <2>1. keyAt[l] = p
    BY <1>11 DEF Snowflake!StoreSecret, Snowflake!HookAt, KeysAt
  <2>2. /\ worker'[p].claim = c /\ worker'[p].lease = l
        /\ worker'[p].at \in {"bind", "provisionFailed"}
    BY <1>11, AcquireMoves DEF SInv
  <2>3. hook'[p] = "start"
    BY <1>4, <1>11 DEF Snowflake!StoreSecret, Snowflake!Hook
  <2>4. hasSecret'[c] /\ \A d \in Claims : hasSecret[d] => hasSecret'[d]
    BY <1>3, <1>4, <1>11 DEF Snowflake!StoreSecret
  <2>5. keyAt'[l] = c /\ \A d \in Claims, m \in Leases : d # c /\ keyAt[m] = d => keyAt'[m] = d
    BY <1>3, <1>6, <1>11, <2>1 DEF Snowflake!StoreSecret, Snowflake!SecretKeys
  <2> QED
    BY <1>5, <2>2, <2>3, <2>4, <2>5
<1>12. CASE AcquireResource(p) /\ worker'[p].retry /\ Snowflake!AcquireFails(p, c, l)
  <2>1. worker'[p].at = "provisionFailed"
    BY <1>12, AcquireMoves DEF SInv, AcquireResource, At, KeysAt
  <2>2. hook'[p] = "start"
    BY <1>4, <1>12 DEF Snowflake!AcquireFails, Snowflake!Hook
  <2>3. \A d \in Claims : hasSecret[d] => hasSecret'[d]
    BY <1>3, <1>4, <1>12 DEF Snowflake!AcquireFails, Snowflake!PrepareFails,
       Snowflake!KeyReplyLost, Snowflake!SecretFails
  <2>4. \A d \in Claims, m \in Leases \ {l} : d # c /\ keyAt[m] = d => keyAt'[m] = d
    BY <1>3, <1>4, <1>6, <1>12 DEF Snowflake!AcquireFails, Snowflake!PrepareFails,
       Snowflake!KeyReplyLost, Snowflake!SecretFails, Snowflake!Forget, Snowflake!SecretKeys
  <2> QED
    BY <1>5, <2>1, <2>2, <2>3, <2>4
<1>13. CASE ReleaseResource(p) /\ Snowflake!ReleaseFails(p)
  <2>1. UNCHANGED <<keyAt, hasSecret, hook>> /\ hook[p] = "start"
    BY <1>13 DEF Snowflake!ReleaseFails, Snowflake!providerVars, Snowflake!HookAt
  <2>2. worker'[p].at = "releaseLease"
    BY <1>13, ReleaseMoves DEF SInv
  <2> QED
    BY <1>5, <2>1, <2>2
<1>14. CASE ReleaseResource(p) /\ Snowflake!DeleteSecret(p, c)
  <2>1. worker'[p].at = "releaseLease"
    BY <1>14, ReleaseMoves DEF SInv
  <2>2. hook'[p] = "start"
    BY <1>4, <1>14 DEF Snowflake!DeleteSecret, Snowflake!Hook
  <2>3. /\ \A d \in Claims \ {c} : hasSecret'[d] = hasSecret[d]
        /\ \A d \in Claims \ {c}, m \in Leases : keyAt[m] = d => keyAt'[m] = d
    BY <1>4, <1>14 DEF Snowflake!DeleteSecret, Snowflake!Forget
  <2> QED
    BY <1>5, <2>1, <2>2, <2>3
<1> QED
  BY <1>8, <1>9, <1>10, <1>11, <1>12, <1>13, <1>14 DEF HookStep, HookReturns

(* Steps outside the hooks: the worker of p neither comes to bind nor      *)
(* leaves AcquireResource.                                                 *)
Follows(p) ==
    LET w == worker[p]
        x == worker'[p]
    IN  /\ x.at = "bind" => w.at = "bind"
        /\ w.at = "acquireResource" => x.at = "acquireResource"
        /\ x.at \in {"acquireResource", "bind"} => x.claim = w.claim /\ x.lease = w.lease
        /\ x.at \in {"acquireLease", "acquireResource"} => ~x.retry

LEMMA ElsewhereFollows ==
  ASSUME NEW p \in Operators, worker[p].at # "acquireResource",
         worker'[p].at \notin {"bind", "acquireLease", "acquireResource"}
  PROVE  Follows(p)
  BY DEF Follows

LEMMA WriteMoves ==
  ASSUME CInv, NEW p \in Operators, NEW c, NEW v, NEW current, NEW ok \in BOOLEAN,
         NEW stored, NEW x \in WorkerRecord, WriteClaim(p, c, v, current, ok, stored, x)
  PROVE  worker'[p].at = x.at
<1> DEFINE x2 == IF ok THEN x ELSE [x EXCEPT !.fresh = FALSE]
<1>1. x2.at = x.at
  BY DEF WorkerRecord
<1>2. \/ worker' = [worker EXCEPT ![p] = x]
      \/ worker' = [Outdate(c, worker) EXCEPT ![p] = x2]
  BY DEF WriteClaim, StoreClaim
<1> HIDE DEF x2
<1>3. DOMAIN worker = Operators /\ DOMAIN Outdate(c, worker) = Operators
  BY DEF CInv, ClaimTypeOK, Outdate
<1>4. worker'[p] = x \/ worker'[p] = x2
  BY <1>2, <1>3
<1> QED
  BY <1>1, <1>4

LEMMA IdleIsElsewhere == Idle.at = "idle"
  BY DEF Idle

LEMMA ReconcileFollows ==
  ASSUME SInv, NEW p \in Operators, NEW c \in Claims, Reconcile(p, c)
  PROVE  Follows(p)
<1>1. worker[p] = Idle
  BY DEF Reconcile, ReconcileIgnored, ReconcileUnknownType, AddFinalizer, BoundExpired,
     BoundWaits, NoLeaseFree, FoundUnconfigured, FoundLease, BeginDeletion, Dequeue
<1>2. ASSUME worker'[p].at \notin {"bind", "acquireLease", "acquireResource"}
      PROVE  Follows(p)
  BY <1>1, <1>2, ElsewhereFollows, IdleIsElsewhere
<1>3. CASE ReconcileIgnored(p, c) \/ BoundWaits(p, c)
  BY <1>1, <1>2, <1>3, IdleIsElsewhere DEF ReconcileIgnored, BoundWaits
<1>4. CASE ReconcileUnknownType(p, c) \/ AddFinalizer(p, c) \/ BoundExpired(p, c)
             \/ NoLeaseFree(p, c) \/ FoundUnconfigured(p, c)
  <2>1. PICK ok \in BOOLEAN, stored \in BOOLEAN : \E v, current :
            WriteClaim(p, c, v, current, ok, stored, Idle)
    BY <1>4 DEF ReconcileUnknownType, AddFinalizer, BoundExpired, NoLeaseFree,
       FoundUnconfigured
  <2> QED
    BY <1>2, <2>1, WriteMoves, IdleFacts, IdleIsElsewhere DEF SInv
<1>5. ASSUME NEW l \in Leases, FoundLease(p, c, l)
      PROVE  Follows(p)
  <2> DEFINE w == [at |-> "acquireLease", claim |-> c, lease |-> l,
                   fresh |-> Current(p, c), retry |-> FALSE]
  <2>1. w.at = "acquireLease" /\ ~w.retry
    OBVIOUS
  <2>2. worker' = [worker EXCEPT ![p] = w]
    BY <1>5 DEF FoundLease
  <2> HIDE DEF w
  <2>3. worker'[p] = w
    BY <2>2 DEF SInv, CInv, ClaimTypeOK
  <2> QED
    BY <1>1, <2>1, <2>3, IdleIsElsewhere DEF Follows
<1>6. CASE BeginDeletion(p, c)
  <2> DEFINE v == claimView[p][c]
             w == [at |-> IF v.leaseName = NoLease THEN "removeFinalizer"
                                                   ELSE "releaseResource",
                   claim |-> c, lease |-> v.leaseName,
                   fresh |-> Current(p, c), retry |-> FALSE]
  <2>1. PICK ok \in BOOLEAN, stored \in BOOLEAN :
            \/ worker' = [worker EXCEPT ![p] = w]
            \/ WriteClaim(p, c, [claim[c] EXCEPT !.phase = "Releasing"], Current(p, c),
                          ok, stored, w)
    BY <1>6 DEF BeginDeletion
  <2>2. w.at \notin {"bind", "acquireLease", "acquireResource"}
    OBVIOUS
  <2>3. w \in WorkerRecord
    <3>1. v.leaseName \in Leases \cup {NoLease}
      BY DEF SInv, CInv, ClaimTypeOK, ClaimRecord
    <3>2. {"removeFinalizer", "releaseResource"} \subseteq Steps
      BY DEF Steps
    <3>3. Current(p, c) \in BOOLEAN
      BY DEF Current
    <3> QED
      BY <3>1, <3>2, <3>3 DEF WorkerRecord
  <2> HIDE DEF v, w
  <2>4. worker'[p].at = w.at
    <3>1. CASE worker' = [worker EXCEPT ![p] = w]
      BY <3>1 DEF SInv, CInv, ClaimTypeOK
    <3>2. CASE WriteClaim(p, c, [claim[c] EXCEPT !.phase = "Releasing"], Current(p, c),
                          ok, stored, w)
      BY <2>3, <3>2, WriteMoves DEF SInv
    <3> QED
      BY <2>1, <3>1, <3>2
  <2> QED
    BY <1>2, <2>2, <2>4
<1> QED
  BY <1>3, <1>4, <1>5, <1>6 DEF Reconcile

LEMMA ApiCallFollows ==
  ASSUME SInv, NEW p \in Operators, KeysAt(p), ApiCall(p)
  PROVE  Follows(p)
<1> DEFINE x == [worker[p] EXCEPT !.at = "undoLease"]
           y == [worker[p] EXCEPT !.at = "undoLease", !.retry = TRUE]
<1>1. worker[p].at \notin {"idle", "acquireResource"}
  BY DEF ApiCall, At, AcquireForClaim, AcquireFailed, ProvisionFailed, DetailsFailed,
     BindClaim, UndoLease, ReleaseHeldLease, RemoveFinalizer
<1>2. worker[p] \in WorkerRecord /\ HasTarget(worker[p])
  BY <1>1, BusyFacts DEF SInv
<1>3. x \in WorkerRecord /\ x.at = "undoLease"
  BY <1>2, SMT DEF WorkerRecord, Steps
<1>4. y \in WorkerRecord /\ y.at = "undoLease"
  BY <1>2, RetryType
<1> HIDE DEF x, y
<1>5. ASSUME NEW s, Goto(p, s)
      PROVE  /\ worker'[p].at = s /\ worker'[p].retry = worker[p].retry
             /\ worker'[p].claim = worker[p].claim /\ worker'[p].lease = worker[p].lease
  <2>1. worker'[p] = [worker[p] EXCEPT !.at = s]
    BY <1>5 DEF Goto, SInv, CInv, ClaimTypeOK
  <2> QED
    BY <1>2, <2>1 DEF WorkerRecord
<1>6. CASE AcquireForClaim(p)
  <2>1. worker[p].at = "acquireLease" /\ (Goto(p, "acquireResource") \/ Goto(p, "acquireFailed"))
    BY <1>6 DEF AcquireForClaim, At, AfterAcquire
  <2> QED
    BY <1>5, <2>1 DEF Follows, KeysAt
<1>7. CASE AcquireFailed(p) \/ RemoveFinalizer(p) \/ ProvisionFailed(p) \/ DetailsFailed(p)
             \/ BindClaim(p)
  <2>1. PICK ok \in BOOLEAN, stored \in BOOLEAN, z \in {Idle, x, y} : \E c, v, current :
            WriteClaim(p, c, v, current, ok, stored, z)
    BY <1>7 DEF AcquireFailed, RemoveFinalizer, ProvisionFailed, DetailsFailed,
       FailProvision, BindClaim, x, y
  <2>2. z \in WorkerRecord /\ z.at \in {"idle", "undoLease"}
    BY <1>3, <1>4, IdleFacts, IdleIsElsewhere
  <2>3. worker'[p].at = z.at
    BY <2>1, <2>2, WriteMoves DEF SInv
  <2> QED
    BY <1>1, <2>2, <2>3, ElsewhereFollows
<1>8. CASE UndoLease(p) \/ ReleaseHeldLease(p)
  <2>1. worker' = [worker EXCEPT ![p] = Idle] \/ Goto(p, "removeFinalizer")
    BY <1>8 DEF UndoLease, ReleaseHeldLease
  <2>2. worker'[p].at \in {"idle", "removeFinalizer"}
    BY <1>5, <2>1, IdleIsElsewhere DEF SInv, CInv, ClaimTypeOK
  <2> QED
    BY <1>1, <2>2, ElsewhereFollows
<1> QED
  BY <1>6, <1>7, <1>8 DEF ApiCall

LEMMA UsersFollow ==
  ASSUME SInv, NEW p \in Operators, KeysAt(p), Users
  PROVE  Follows(p)
<1>1. PICK c \in Claims : worker' = Outdate(c, worker)
  BY DEF Users, CreateClaim, DeleteClaim, EditClaim, Rewrite, StoreClaim
<1>2. worker[p] \in WorkerRecord
  BY DEF SInv, CInv, ClaimTypeOK
<1>3. worker'[p] = worker[p] \/ worker'[p] = [worker[p] EXCEPT !.fresh = FALSE]
  BY <1>1 DEF Outdate
<1>4. /\ worker'[p].at = worker[p].at /\ worker'[p].claim = worker[p].claim
      /\ worker'[p].lease = worker[p].lease /\ worker'[p].retry = worker[p].retry
  BY <1>2, <1>3 DEF WorkerRecord
<1> QED
  BY <1>4 DEF Follows, KeysAt

(* A claim becomes Bound with the key its worker has left it.              *)
LEMMA KeysFollow ==
  ASSUME OneOperator, SInv, NEW p \in Operators, KeysAt(p), [Next]_vars, Follows(p),
         UNCHANGED <<keyAt, hasSecret, hook>>
  PROVE  KeysAt(p)'
<1>1. ASSUME NEW c \in Claims, claim'[c].phase = "Bound"
      PROVE  hasSecret[c] /\ keyAt[claim'[c].leaseName] = c
  <2>1. CASE Modest(claim[c], claim'[c])
    BY <1>1, <2>1 DEF Modest, KeysAt, BoundHasKey
  <2>2. ASSUME NEW q \in Operators, Binds(q, c)
        PROVE  hasSecret[c] /\ keyAt[claim'[c].leaseName] = c
    <3>1. claim'[c].leaseName = worker[q].lease
      BY <2>2 DEF Binds, Bound, SInv, CInv, ClaimTypeOK, ClaimRecord
    <3>2. q = p
      BY DEF OneOperator
    <3> QED
      BY <2>2, <3>1, <3>2 DEF Binds, KeysAt
  <2>3. ASSUME NEW q \in Operators, Removes(q, c)
        PROVE  FALSE
    BY <1>1, <2>3, NoObjectUnbound DEF Removes
  <2> QED
    BY <2>1, <2>2, <2>3, ClaimStep DEF SInv
<1> QED
  BY <1>1 DEF KeysAt, BoundHasKey, Follows

LEMMA KeysStep ==
  ASSUME OneOperator, SInv, BoundNamed, Snowflake!ProviderTypeOK, NEW p \in Operators,
         KeysAt(p), [PoolNext]_poolVars
  PROVE  KeysAt(p)'
<1>1. [Next]_vars
  BY PoolStep
<1>2. ASSUME NEW q \in Operators
      PROVE  q = p
  BY DEF OneOperator
<1>3. CASE HookStep(p) \/ HookReturns(p)
  BY <1>3, HookKeepsKeys
<1>4. ASSUME UNCHANGED <<keyAt, hasSecret, hook>>, worker' = worker
      PROVE  KeysAt(p)'
  <2>1. Follows(p)
    BY <1>4 DEF Follows, KeysAt
  <2> QED
    BY <1>1, <1>4, <2>1, KeysFollow
<1>5. ASSUME UNCHANGED providerVars, ApiCall(p) \/ Users \/ \E c \in Claims : Reconcile(p, c)
      PROVE  KeysAt(p)'
  <2>1. Follows(p)
    BY <1>5, ApiCallFollows, UsersFollow, ReconcileFollows
  <2> QED
    BY <1>1, <1>5, <2>1, KeysFollow DEF providerVars
<1>6. ASSUME UNCHANGED providerVars, Caches(p) \/ \E c \in Claims : TimerFires(p, c)
      PROVE  KeysAt(p)'
  <2>1. worker' = worker
    BY <1>6 DEF Caches, SyncClaims, SyncLeaseCache, TimerFires, workVars
  <2> QED
    BY <1>4, <1>6, <2>1 DEF providerVars
<1>7. ASSUME NEW c \in Claims, UserWorks(c)
      PROVE  KeysAt(p)'
  <2>1. UNCHANGED <<keyAt, hasSecret, hook>> /\ worker' = worker
    BY <1>7 DEF UserWorks, Snowflake!UseAccount, vars, workVars
  <2> QED
    BY <1>4, <2>1
<1>8. CASE UNCHANGED poolVars
  BY <1>4, <1>8 DEF poolVars, providerVars, vars, workVars
<1> QED
  BY <1>2, <1>3, <1>5, <1>6, <1>7, <1>8 DEF PoolNext

LEMMA PoolTypes == PoolSpec => []Snowflake!ProviderTypeOK
<1>1. PoolTypeOK => Snowflake!ProviderTypeOK
  BY DEF PoolTypeOK
<1> QED
  BY <1>1, PoolTypeCorrect, PTL

(* With one process in a calm environment, the Secret of a Bound claim     *)
(* opens the account of its lease, through all failures of the hooks and   *)
(* for claims created again under an old name: no hook that runs for       *)
(* another claim, or for an account nobody holds, takes the key away.      *)
THEOREM BoundKeepsKey ==
  OneOperator /\ Operators # {} /\ Calm => (PoolSpec => []BoundHasKey)
<1> SUFFICES ASSUME OneOperator, Operators # {}, Calm PROVE PoolSpec => []BoundHasKey
  OBVIOUS
<1> DEFINE K == \A p \in Operators : KeysAt(p)
<1>1. PoolInit => K
  <2> SUFFICES ASSUME PoolInit, NEW p \in Operators PROVE KeysAt(p)
    OBVIOUS
  <2>1. worker[p] = Idle /\ hook[p] = "start"
    BY DEF PoolInit, Init, Snowflake!ProviderInit
  <2>2. \A c \in Claims : claim[c].phase # "Bound"
    BY SMT DEF PoolInit, Init, NewClaim, NoObject
  <2> QED
    BY <2>1, <2>2, IdleIsElsewhere DEF KeysAt, BoundHasKey
<1>2. SInv /\ BoundNamed /\ Snowflake!ProviderTypeOK /\ K /\ [PoolNext]_poolVars => K'
  BY KeysStep
<1>3. K => BoundHasKey
  BY DEF KeysAt
<1>4. PoolSpec => [](SInv /\ BoundNamed)
  BY PoolImplementsController, SettledCorrect
<1> HIDE DEF K
<1> QED
  BY <1>1, <1>2, <1>3, <1>4, PoolTypes, PTL DEF PoolSpec

(* With one process in a calm environment, Bound claims of the pool hold   *)
(* their leases, and none is lost, with the provider's statements in       *)
(* between.                                                                *)
THEOREM PoolStaysConsistent ==
  OneOperator /\ Operators # {} /\ Calm => (PoolSpec => [](BoundOwnsLease /\ NoOrphanLease))
  BY PoolImplementsController, PoolConsistent, PTL
=============================================================================
