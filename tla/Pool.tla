--------------------------------- MODULE Pool ---------------------------------
(***************************************************************************)
(* The reconciler with the Snowflake provider behind its hooks: the calls  *)
(* of AcquireResource and ReleaseResource, one step each in                *)
(* ResourceClaimController, are run statement by statement while users,    *)
(* the watches and other workers go on.                                    *)
(*                                                                         *)
(* A resource that is no longer configured is skipped by handleDeletion;   *)
(* no claim is bound to one while the configuration of a process stays.    *)
(*                                                                         *)
(* Time stands still here: the properties of a Bound claim that this       *)
(* module is about are those that hold until its lease expires.            *)
(***************************************************************************)
EXTENDS ResourceClaimController

CONSTANTS NoKey, Lost, ProviderFaults

ASSUME PoolAssumption ==
    /\ NoKey \notin Operators \cup Claims
    /\ Operators \cap Claims = {}

VARIABLES keyAt, hasSecret, dirty, hook

Snowflake == INSTANCE SnowflakeProvider

providerVars == <<keyAt, hasSecret, dirty, hook>>

poolVars == <<vars, providerVars>>

PoolTypeOK == TypeOK /\ Snowflake!ProviderTypeOK

PoolInit == Init /\ Snowflake!ProviderInit

(* A statement of a hook that is not its last.                             *)
HookStep(p) ==
    LET c == worker[p].claim
        l == worker[p].lease
    IN  /\ \/ At(p, "acquireResource") /\ Snowflake!SetPublicKey(p, l)
           \/ At(p, "releaseResource") /\ Snowflake!ResetState(p, c, l)
           \/ At(p, "releaseResource") /\ Snowflake!ClearPublicKeys(p, l)
        /\ UNCHANGED vars

(* The last statement: the hook returns and Reconcile goes on.             *)
HookReturns(p) ==
    LET c == worker[p].claim
        l == worker[p].lease
    IN  \/ AcquireResource(p) /\ ~worker'[p].retry /\ Snowflake!StoreSecret(p, c, l)
        \/ AcquireResource(p) /\ worker'[p].retry /\ Snowflake!AcquireFails(p, c, l)
        \/ ReleaseResource(p) /\ Snowflake!ReleaseFails(p)
        \/ ReleaseResource(p) /\ Snowflake!DeleteSecret(p, c)

(* Whoever has the Secret of a claim that is Bound may use the account.    *)
UserWorks(c) ==
    /\ claim[c].phase = "Bound"
    /\ \E l \in Leases : Snowflake!UseAccount(c, l)
    /\ UNCHANGED vars

PoolNext ==
    \/ \E p \in Operators :
           \/ HookStep(p) \/ HookReturns(p)
           \/ /\ \/ ApiCall(p) \/ Caches(p)
                 \/ \E c \in Claims : Reconcile(p, c) \/ TimerFires(p, c)
              /\ UNCHANGED providerVars
    \/ Users /\ UNCHANGED providerVars
    \/ \E c \in Claims : UserWorks(c)

PoolSpec == PoolInit /\ [][PoolNext]_poolVars

-----------------------------------------------------------------------------
(* The Secret a Bound claim points to ("points to the Secret containing    *)
(* credentials", api/v1alpha1/resourceclaim_types.go:77) opens the account *)
(* of the lease in its status, through every failure of a hook and for     *)
(* claims created again under an old name.                                 *)
BoundHasKey ==
    \A c \in Claims : claim[c].phase = "Bound"
                          => hasSecret[c] /\ keyAt[claim[c].leaseName] = c

(* "Finalizers ensure Snowflake state is reset" (README.md:12): an account *)
(* whose lease nobody holds has no key and nothing left of its last user.  *)
FreeIsClean ==
    \A l \in Leases : lease[l].holder = Nobody => keyAt[l] = NoKey /\ ~dirty[l]
=============================================================================
