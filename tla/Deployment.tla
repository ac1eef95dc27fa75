------------------------------ MODULE Deployment ------------------------------
(***************************************************************************)
(* The whole operator: the processes of Operator, whose leader runs the    *)
(* hooks of the Snowflake provider statement by statement as in Pool, and  *)
(* whose startup runs CleanupAllClaims account by account and Secret by    *)
(* Secret where Operator has one step.  A process may stop at any of these *)
(* statements.                                                             *)
(*                                                                         *)
(* What jobs do in an account is left to Pool: the cleanup runs no reset   *)
(* queries and never looks.                                                *)
(***************************************************************************)
EXTENDS Operator, Pool

CONSTANT Local    \* claims in the operator's own namespace

ASSUME DeploymentAssumption ==
    /\ Local \subseteq Claims
    /\ Claims \cap Leases = {} /\ "list" \notin Claims \cup Leases

VARIABLES toClean,    \* toClean[p]: accounts, then Secrets, that
                      \* CleanupAllClaims of p has still to clean
          logged      \* logged[p]: accounts for which the startup of p has
                      \* logged an error, while it lasts

deploymentVars == <<allVars, providerVars, toClean, logged>>

(* The Secrets are listed once the accounts are through.                   *)
Everything == Configured \cup {"list"}

DeploymentTypeOK ==
    /\ OperatorTypeOK
    /\ Snowflake!ProviderTypeOK
    /\ toClean \in [Operators -> (SUBSET Everything) \cup (SUBSET Claims)]
    /\ logged \in [Operators -> SUBSET Configured]

DeploymentInit ==
    /\ OperatorInit
    /\ Snowflake!ProviderInit
    /\ toClean = [p \in Operators |-> {}]
    /\ logged = [p \in Operators |-> {}]

-----------------------------------------------------------------------------
(* CleanupAllClaims, once main has created the leases.                     *)

Cleaning(p) ==
    /\ TRUE \in StartupCleanup
    /\ stage[p] = "createLeases"
    /\ AllCreated(p)
    /\ UNCHANGED allVars

TurnDone(p, l) == toClean' = [toClean EXCEPT ![p] = @ \ {l}]

(* A bug the loop could have: an account that fails ends it.               *)
GiveUp(p, l) == toClean' = [toClean EXCEPT ![p] = {"list"}]

(* An account without admin Secret or connection is skipped.               *)
SkipAccount(p, l) == TurnDone(p, l)

LogError(p, l) == logged' = [logged EXCEPT ![p] = @ \cup {l}]

CleanupAccount(p, l) ==
    /\ Cleaning(p)
    /\ l \in toClean[p]
    /\ \/ Snowflake!CleanAccount(l) /\ TurnDone(p, l) /\ UNCHANGED logged
       \/ Snowflake!ClearingFails(l) /\ TurnDone(p, l) /\ LogError(p, l)
       \/ /\ "cleanupError" \in ProviderFaults
          /\ SkipAccount(p, l) /\ LogError(p, l)
          /\ UNCHANGED providerVars

(* The Secrets sf-appuser-* of the operator's namespace; a List that fails *)
(* is only logged.                                                         *)
ListSecrets(p) ==
    /\ Cleaning(p)
    /\ toClean[p] = {"list"}
    /\ \/ toClean' = [toClean EXCEPT ![p] = {c \in Local : hasSecret[c]}]
       \/ /\ "cleanupError" \in ProviderFaults
          /\ toClean' = [toClean EXCEPT ![p] = {}]
    /\ UNCHANGED <<providerVars, logged>>

CleanupSecret(p, c) ==
    /\ Cleaning(p)
    /\ c \in toClean[p]
    /\ TurnDone(p, c)
    /\ \/ Snowflake!CleanSecret(c)
       \/ "cleanupError" \in ProviderFaults /\ UNCHANGED providerVars
    /\ UNCHANGED logged

(* The rest of the startup: CleanupAllClaims returns when it is through,   *)
(* or is not called at all.                                                *)
OtherStartup(p) ==
    /\ StartupStep(p)
    /\ stage'[p] = "releaseLeases" => toClean[p] = {}
    /\ stage[p] = "createLeases" /\ stage'[p] = "standby" => toClean[p] = Everything
    /\ toClean' = IF stage[p] = "down" THEN [toClean EXCEPT ![p] = Everything]
                                       ELSE toClean
    /\ logged' = IF stage'[p] = "leader" THEN [logged EXCEPT ![p] = {}] ELSE logged
    /\ UNCHANGED providerVars

-----------------------------------------------------------------------------
(* The reconciler of the leader, and the end of a process.                 *)

LeaderWorks(p) ==
    /\ Lead(p)
    /\ \/ HookStep(p) \/ HookReturns(p)
       \/ /\ \/ ApiCall(p) \/ Caches(p)
             \/ \E c \in Claims : Reconcile(p, c) \/ TimerFires(p, c)
          /\ UNCHANGED providerVars
    /\ Meanwhile
    /\ UNCHANGED <<toClean, logged>>

StopProcess(p) ==
    /\ Stop(p)
    /\ Snowflake!Abandon(p)
    /\ toClean' = [toClean EXCEPT ![p] = {}]
    /\ logged' = [logged EXCEPT ![p] = {}]

DeploymentNext ==
    \/ \E p \in Operators :
           \/ \E l \in Leases : CleanupAccount(p, l)
           \/ ListSecrets(p)
           \/ \E c \in Claims : CleanupSecret(p, c)
           \/ OtherStartup(p) \/ LeaderWorks(p) \/ StopProcess(p)
    \/ UserStep /\ UNCHANGED <<providerVars, toClean, logged>>

DeploymentSpec == DeploymentInit /\ [][DeploymentNext]_deploymentVars

-----------------------------------------------------------------------------
Leading == \E p \in Operators : Lead(p)

(* While a process leads, a claim that is Bound holds the lease its status *)
(* names and no lease is lost, whatever an earlier process was doing when  *)
(* it stopped (one process at a time, writes that succeed, and no claim    *)
(* changed between the startup's List and its reset).                      *)
LedPoolIsConsistent == Leading => BoundOwnsLease /\ NoOrphanLease

(* While a process leads, the Secret of a Bound claim opens its account:   *)
(* hooks cut short by a crash, Secrets that outlive the startup in other   *)
(* namespaces and accounts it did not clean take no key from a later claim.*)
LedClaimHasKey == Leading => BoundHasKey

(* CleanupAllClaims "connects as admin to every configured account [...]   *)
(* and clears both RSA key slots" (provider.go:378), and an account that   *)
(* fails ends neither it nor the startup: when a process takes the lead,   *)
(* nobody has a key of any configured account but of those for which this  *)
(* startup logged an error, wherever earlier ones were cut short.          *)
StartRevokesKeys ==
    [][\A p \in Operators :
          stage[p] # "leader" /\ stage'[p] = "leader" =>
              \A l \in Configured : keyAt[l] = NoKey \/ l \in logged[p]]_deploymentVars
=============================================================================
