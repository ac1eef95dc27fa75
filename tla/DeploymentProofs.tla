--------------------------- MODULE DeploymentProofs ---------------------------
(***************************************************************************)
(* Proofs about Deployment.  With the hooks and the startup's cleanup of   *)
(* accounts and Secrets run statement by statement, and processes that     *)
(* stop at any of them, the operator is still that of Operator: what       *)
(* OperatorProofs and RestartProofs say is true of DeploymentSpec.  The    *)
(* keys are followed from a startup, which revokes them or logs an error,  *)
(* to the hooks of the leader.                                             *)
(***************************************************************************)
EXTENDS Deployment, RestartProofs, PoolProofs

(* A statement of a hook changes nothing that Operator knows of.           *)
LEMMA NothingChanged ==
  ASSUME StartupTypeOK, UNCHANGED vars, Meanwhile
  PROVE  UNCHANGED allVars
<1>1. Changed = {}
  BY DEF Changed, vars, claimVars
<1>2. resetting' = resetting
  BY <1>1 DEF Meanwhile, Overtake, StartupTypeOK
<1> QED
  BY <1>2 DEF Meanwhile, allVars, operatorVars

LEMMA DeploymentStep ==
  ASSUME StartupTypeOK, [DeploymentNext]_deploymentVars
  PROVE  [OperatorNext]_allVars
<1>1. ASSUME NEW p \in Operators, HookStep(p), Meanwhile
      PROVE  UNCHANGED allVars
  BY <1>1, NothingChanged DEF HookStep
<1>2. ASSUME NEW p \in Operators, HookReturns(p)
      PROVE  AcquireResource(p) \/ ReleaseResource(p)
  BY <1>2 DEF HookReturns
<1>3. ASSUME NEW p \in Operators, LeaderWorks(p)
      PROVE  [OperatorNext]_allVars
  <2>1. CASE HookStep(p)
    BY <1>1, <1>3, <2>1 DEF LeaderWorks
  <2>2. CASE ~HookStep(p)
    <3>1. LeaderStep(p)
      BY <1>2, <1>3, <2>2 DEF LeaderWorks, LeaderStep, Proceed
    <3> QED
      BY <3>1 DEF OperatorNext
  <2> QED
    BY <2>1, <2>2
<1>4. ASSUME NEW p \in Operators,
             \/ \E l \in Leases : CleanupAccount(p, l)
             \/ ListSecrets(p)
             \/ \E c \in Claims : CleanupSecret(p, c)
      PROVE  UNCHANGED allVars
  BY <1>4 DEF CleanupAccount, ListSecrets, CleanupSecret, Cleaning
<1>5. ASSUME NEW p \in Operators, OtherStartup(p) \/ StopProcess(p)
      PROVE  OperatorNext
  BY <1>5 DEF OtherStartup, StopProcess, OperatorNext
<1>6. CASE UserStep
  BY <1>6 DEF OperatorNext
<1>7. CASE UNCHANGED deploymentVars
  BY <1>7 DEF deploymentVars
<1> QED
  BY <1>3, <1>4, <1>5, <1>6, <1>7 DEF DeploymentNext

(* Deployment implements Operator, with the same variables.                *)
THEOREM DeploymentImplementsOperator == DeploymentSpec => OperatorSpec
<1>1. DeploymentInit => OperatorInit /\ StartupTypeOK
  BY StartupTypeInit DEF DeploymentInit
<1>2. StartupTypeOK /\ [DeploymentNext]_deploymentVars
          => StartupTypeOK' /\ [OperatorNext]_allVars
  BY DeploymentStep, StartupTypeStep
<1> QED
  BY <1>1, <1>2, PTL DEF DeploymentSpec, OperatorSpec

-----------------------------------------------------------------------------
(* Types.                                                                  *)

CleanTypeOK ==
    /\ toClean \in [Operators -> (SUBSET Everything) \cup (SUBSET Claims)]
    /\ logged \in [Operators -> SUBSET Configured]

LEMMA DeploymentProviderStep ==
  ASSUME WorkerHasTarget, Snowflake!ProviderTypeOK, [DeploymentNext]_deploymentVars
  PROVE  Snowflake!ProviderTypeOK'
<1>1. CASE UNCHANGED providerVars
  BY <1>1 DEF providerVars, Snowflake!ProviderTypeOK
<1>2. ASSUME NEW p \in Operators, HookStep(p) \/ HookReturns(p)
      PROVE  Snowflake!ProviderTypeOK'
  BY <1>2, HookKeepsTypes
<1>3. keyAt \in [Leases -> KeyHolders]
  BY DEF Snowflake!ProviderTypeOK, KeyHolders
<1>4. ASSUME NEW l \in Leases, Snowflake!CleanAccount(l) \/ Snowflake!ClearingFails(l)
      PROVE  Snowflake!ProviderTypeOK'
  BY <1>4 DEF Snowflake!CleanAccount, Snowflake!ClearingFails, Snowflake!NoKeys,
     Snowflake!ProviderTypeOK
<1>5. ASSUME NEW c \in Claims, Snowflake!CleanSecret(c)
      PROVE  Snowflake!ProviderTypeOK'
  <2>1. keyAt' \in [Leases -> KeyHolders]
    BY <1>3, <1>5, ForgetType DEF Snowflake!CleanSecret
  <2>2. hasSecret' \in [Claims -> BOOLEAN]
    BY <1>5 DEF Snowflake!CleanSecret, Snowflake!ProviderTypeOK
  <2> QED
    BY <1>5, <2>1, <2>2 DEF Snowflake!CleanSecret, Snowflake!ProviderTypeOK, KeyHolders
<1>6. ASSUME NEW p \in Operators, Snowflake!Abandon(p)
      PROVE  Snowflake!ProviderTypeOK'
  <2>1. keyAt' \in [Leases -> KeyHolders]
    BY <1>3, <1>6, ForgetType DEF Snowflake!Abandon
  <2>2. hook' \in [Operators -> Snowflake!HookSteps]
    BY <1>6 DEF Snowflake!Abandon, Snowflake!Hook, Snowflake!HookSteps,
       Snowflake!ProviderTypeOK
  <2> QED
    BY <1>6, <2>1, <2>2 DEF Snowflake!Abandon, Snowflake!ProviderTypeOK, KeyHolders
<1> QED
  BY <1>1, <1>2, <1>4, <1>5, <1>6 DEF DeploymentNext, CleanupAccount, ListSecrets,
     CleanupSecret, OtherStartup, LeaderWorks, StopProcess, deploymentVars

LEMMA TakenIsConfigured ==
  ASSUME CleanTypeOK, NEW p \in Operators, NEW l \in Leases, l \in toClean[p]
  PROVE  l \in Configured /\ toClean[p] \in SUBSET Everything
<1>1. l \notin Claims /\ l # "list"
  BY DeploymentAssumption
<1> QED
  BY <1>1 DEF CleanTypeOK, Everything

LEMMA CleanTypeStep ==
  ASSUME CleanTypeOK, [DeploymentNext]_deploymentVars
  PROVE  CleanTypeOK'
<1>1. ASSUME NEW p \in Operators, NEW S,
             \/ S \in SUBSET Everything
             \/ S \in SUBSET Claims
             \/ \E x : S = toClean[p] \ {x},
             toClean' = [toClean EXCEPT ![p] = S],
             \/ UNCHANGED logged
             \/ \E L \in SUBSET Configured : logged' = [logged EXCEPT ![p] = L]
      PROVE  CleanTypeOK'
  <2>1. S \in (SUBSET Everything) \cup (SUBSET Claims)
    BY <1>1 DEF CleanTypeOK
  <2>2. logged' \in [Operators -> SUBSET Configured]
    BY <1>1 DEF CleanTypeOK
  <2> QED
    BY <1>1, <2>1, <2>2 DEF CleanTypeOK
<1>2. ASSUME NEW p \in Operators, NEW l \in Leases, CleanupAccount(p, l)
      PROVE  CleanTypeOK'
  <2>1. logged[p] \cup {l} \in SUBSET Configured
    BY <1>2, TakenIsConfigured DEF CleanupAccount, CleanTypeOK
  <2>2. UNCHANGED logged \/ logged' = [logged EXCEPT ![p] = logged[p] \cup {l}]
    BY <1>2 DEF CleanupAccount, LogError
  <2>3. toClean' = [toClean EXCEPT ![p] = toClean[p] \ {l}]
    BY <1>2 DEF CleanupAccount, SkipAccount, TurnDone
  <2> QED
    BY <1>1, <2>1, <2>2, <2>3
<1>3. ASSUME NEW p \in Operators, ListSecrets(p)
      PROVE  CleanTypeOK'
  <2>1. {c \in Local : hasSecret[c]} \in SUBSET Claims
    BY DeploymentAssumption
  <2> QED
    BY <1>1, <1>3, <2>1 DEF ListSecrets
<1>4. ASSUME NEW p \in Operators, NEW c \in Claims, CleanupSecret(p, c)
      PROVE  CleanTypeOK'
  BY <1>1, <1>4 DEF CleanupSecret, TurnDone
<1>5. ASSUME NEW p \in Operators, OtherStartup(p)
      PROVE  CleanTypeOK'
  <2>1. UNCHANGED logged \/ \E L \in SUBSET Configured : logged' = [logged EXCEPT ![p] = L]
    BY <1>5 DEF OtherStartup
  <2>2. CASE stage[p] = "down"
    BY <1>1, <1>5, <2>1, <2>2 DEF OtherStartup
  <2>3. CASE stage[p] # "down"
    BY <1>5, <2>1, <2>3 DEF OtherStartup, CleanTypeOK
  <2> QED
    BY <2>2, <2>3
<1>6. ASSUME NEW p \in Operators, StopProcess(p)
      PROVE  CleanTypeOK'
  BY <1>1, <1>6 DEF StopProcess
<1>7. CASE UNCHANGED <<toClean, logged>>
  BY <1>7 DEF CleanTypeOK
<1> QED
  BY <1>2, <1>3, <1>4, <1>5, <1>6, <1>7 DEF DeploymentNext, LeaderWorks, deploymentVars

(* Every state of the whole operator has its type.                         *)
THEOREM DeploymentTypeCorrect == DeploymentSpec => []DeploymentTypeOK
<1>1. DeploymentSpec => []IInv /\ []OperatorTypeOK
  BY DeploymentImplementsOperator, OperatorKeepsIInv, OperatorTypeCorrect, PTL
<1>2. DeploymentInit => Snowflake!ProviderTypeOK /\ CleanTypeOK
  BY DEF DeploymentInit, Snowflake!ProviderInit, Snowflake!ProviderTypeOK,
     Snowflake!HookSteps, CleanTypeOK
<1>3. IInv /\ Snowflake!ProviderTypeOK /\ CleanTypeOK /\ [DeploymentNext]_deploymentVars
          => (Snowflake!ProviderTypeOK /\ CleanTypeOK)'
  BY DeploymentProviderStep, CleanTypeStep DEF IInv
<1>4. OperatorTypeOK /\ Snowflake!ProviderTypeOK /\ CleanTypeOK => DeploymentTypeOK
  BY DEF DeploymentTypeOK, CleanTypeOK
<1> QED
  BY <1>1, <1>2, <1>3, <1>4, PTL DEF DeploymentSpec

-----------------------------------------------------------------------------
(* CleanupAllClaims revokes the keys.                                      *)

Starting == {"releaseLeases", "resetClaims", "standby"}

(* An account has no key, an error was logged for it, or its turn in the   *)
(* loop is still to come; once CleanupAllClaims has returned, no turn is.  *)
Revoked(p, l) == keyAt[l] = NoKey \/ l \in logged[p]

StartedRevoked(p) ==
    /\ stage[p] = "createLeases" =>
           \A l \in Configured : Revoked(p, l) \/ {l, "list"} \subseteq toClean[p]
    /\ stage[p] \in Starting => \A l \in Configured : Revoked(p, l)

DTypes == IInv /\ DeploymentTypeOK

LEMMA ForgetKeepsNoKey ==
  ASSUME NEW x \in Operators \cup Claims, NEW l \in Leases, keyAt[l] = NoKey,
         keyAt' = Snowflake!Forget(x, keyAt)
  PROVE  keyAt'[l] = NoKey
  BY PoolAssumption DEF Snowflake!Forget

(* One turn of each of the two loops.                                      *)
LEMMA AccountRevoked ==
  ASSUME DTypes, NEW p \in Operators, NEW m \in Leases, CleanupAccount(p, m),
         StartedRevoked(p)
  PROVE  StartedRevoked(p)'
<1>1. stage[p] = "createLeases" /\ stage' = stage
  BY DEF CleanupAccount, Cleaning, allVars, operatorVars
<1>2. /\ keyAt \in [Leases -> Operators \cup Claims \cup {NoKey, Lost}]
      /\ toClean \in [Operators -> (SUBSET Everything) \cup (SUBSET Claims)]
      /\ logged \in [Operators -> SUBSET Configured]
  BY DEF DTypes, DeploymentTypeOK, Snowflake!ProviderTypeOK
<1>3. Configured \subseteq Leases
  BY ControllerAssumption
<1>4. m # "list"
  BY DeploymentAssumption
<1>5. toClean'[p] = toClean[p] \ {m}
  BY <1>2 DEF CleanupAccount, SkipAccount, TurnDone
<1>6. \A l \in Configured : l # m => keyAt'[l] = keyAt[l]
  BY <1>2, <1>3 DEF CleanupAccount, Snowflake!CleanAccount, Snowflake!ClearingFails,
     Snowflake!NoKeys, providerVars
<1>7. logged[p] \subseteq logged'[p]
  BY <1>2 DEF CleanupAccount, LogError
<1>8. Revoked(p, m)'
  <2>1. CASE Snowflake!CleanAccount(m)
    BY <1>2, <2>1 DEF Snowflake!CleanAccount, Snowflake!NoKeys, Revoked
  <2>2. CASE LogError(p, m)
    BY <1>2, <2>2 DEF LogError, Revoked
  <2> QED
    BY <2>1, <2>2 DEF CleanupAccount
<1>9. \A l \in Configured : Revoked(p, l)' \/ {l, "list"} \subseteq toClean'[p]
  <2> SUFFICES ASSUME NEW l \in Configured, l # m
               PROVE  Revoked(p, l)' \/ {l, "list"} \subseteq toClean'[p]
    BY <1>8
  <2>1. Revoked(p, l) \/ {l, "list"} \subseteq toClean[p]
    BY <1>1 DEF StartedRevoked
  <2> QED
    BY <1>4, <1>5, <1>6, <1>7, <2>1 DEF Revoked
<1> QED
  BY <1>1, <1>9 DEF StartedRevoked, Starting

LEMMA SecretRevoked ==
  ASSUME DTypes, NEW p \in Operators, NEW c \in Claims, CleanupSecret(p, c),
         StartedRevoked(p)
  PROVE  StartedRevoked(p)'
<1>1. stage' = stage /\ logged' = logged
  BY DEF CleanupSecret, Cleaning, allVars, operatorVars
<1>2. keyAt' = Snowflake!Forget(c, keyAt) \/ keyAt' = keyAt
  BY DEF CleanupSecret, Snowflake!CleanSecret, providerVars
<1>3. Configured \subseteq Leases
  BY ControllerAssumption
<1>4. \A l \in Configured : Revoked(p, l) => Revoked(p, l)'
  BY <1>1, <1>2, <1>3, ForgetKeepsNoKey DEF Revoked
<1>5. toClean'[p] = toClean[p] \ {c}
  BY DEF CleanupSecret, TurnDone, DTypes, DeploymentTypeOK
<1>6. c # "list" /\ c \notin Configured
  BY <1>3, DeploymentAssumption
<1> QED
  BY <1>1, <1>4, <1>5, <1>6 DEF StartedRevoked, Starting

LEMMA ListRevoked ==
  ASSUME DTypes, NEW p \in Operators, ListSecrets(p), StartedRevoked(p)
  PROVE  StartedRevoked(p)'
<1>1. /\ stage' = stage /\ keyAt' = keyAt /\ logged' = logged
      /\ stage[p] = "createLeases"
  BY DEF ListSecrets, Cleaning, allVars, operatorVars, providerVars
<1>2. toClean[p] = {"list"}
  BY DEF ListSecrets
<1>3. "list" \notin Configured
  BY ControllerAssumption, DeploymentAssumption
<1>4. \A l \in Configured : Revoked(p, l)
  BY <1>1, <1>2, <1>3 DEF StartedRevoked
<1> QED
  BY <1>1, <1>4 DEF StartedRevoked, Revoked

LEMMA OtherRevoked ==
  ASSUME StartupCleanup = {TRUE}, DTypes, NEW p \in Operators, OtherStartup(p),
         StartedRevoked(p)
  PROVE  StartedRevoked(p)'
<1>1. StartupTypeOK /\ keyAt' = keyAt
  BY DEF DTypes, DeploymentTypeOK, OperatorTypeOK, StartupTypeOK, OtherStartup, providerVars
<1>2. stage'[p] = "releaseLeases" => toClean[p] = {}
  BY DEF OtherStartup
<1>3. stage[p] # "down" => toClean' = toClean
  BY DEF OtherStartup
<1>4. stage'[p] # "leader" => logged' = logged
  BY DEF OtherStartup
<1>5. CASE Start(p)
  <2>1. stage[p] = "down" /\ stage'[p] = "createLeases"
    BY <1>1, <1>5, StageOfEnter DEF Start
  <2>2. toClean'[p] = Everything
    BY <2>1 DEF OtherStartup, DTypes, DeploymentTypeOK
  <2>3. \A l \in Configured : {l, "list"} \subseteq Everything
    BY DEF Everything
  <2> QED
    BY <2>1, <2>2, <2>3 DEF StartedRevoked, Starting
<1>6. CASE CreateFails(p) \/ BecomeLeader(p)
  <2>1. stage'[p] = "down" \/ stage'[p] = "leader"
    BY <1>1, <1>6, StageOfEnter DEF CreateFails, BecomeLeader
  <2> QED
    BY <2>1 DEF StartedRevoked, Starting
<1>7. CASE CleanupProvider(p)
  <2>1. stage[p] = "createLeases" /\ stage'[p] = "releaseLeases"
    BY <1>1, <1>7, StageOfEnter DEF CleanupProvider
  <2> QED
    BY <1>1, <1>2, <1>4, <2>1 DEF StartedRevoked, Revoked
<1>8. CASE SkipCleanup(p)
  BY <1>8 DEF SkipCleanup
<1>9. CASE ListClaims(p) \/ StartManager(p)
  <2>1. stage[p] \in Starting /\ stage'[p] \in Starting
    BY <1>1, <1>9, StageOfEnter DEF ListClaims, StartManager, Starting
  <2> QED
    BY <1>1, <1>4, <2>1 DEF StartedRevoked, Starting, Revoked
<1>10. CASE stage' = stage /\ stage[p] # "down"
  <2>1. CASE stage[p] = "leader"
    BY <1>10, <2>1 DEF StartedRevoked, Starting
  <2>2. CASE stage[p] # "leader"
    BY <1>1, <1>3, <1>10, <1>4, <2>2 DEF StartedRevoked, Revoked
  <2> QED
    BY <2>1, <2>2
<1>11. ASSUME CreateNext(p) \/ ReleaseNext(p) \/ \E c \in Claims : ResetClaim(p, c)
       PROVE  stage' = stage /\ stage[p] # "down"
  BY <1>11 DEF CreateNext, ReleaseNext, ResetClaim, operatorVars
<1> QED
  BY <1>5, <1>6, <1>7, <1>8, <1>9, <1>10, <1>11 DEF OtherStartup, StartupStep

LEMMA RevokedStep ==
  ASSUME OneOperator, StartupCleanup = {TRUE}, DTypes, NEW p \in Operators,
         StartedRevoked(p), [DeploymentNext]_deploymentVars
  PROVE  StartedRevoked(p)'
<1>1. \A q \in Operators : q = p
  BY DEF OneOperator
<1>2. CASE LeaderWorks(p)
  BY <1>2 DEF LeaderWorks, Lead, Meanwhile, StartedRevoked, Starting
<1>3. CASE StopProcess(p)
  <2>1. stage'[p] = "down"
    BY <1>3 DEF StopProcess, Stop, DTypes, DeploymentTypeOK, OperatorTypeOK
  <2> QED
    BY <2>1 DEF StartedRevoked, Starting
<1>4. CASE UserStep /\ UNCHANGED <<providerVars, toClean, logged>>
  BY <1>4 DEF UserStep, Meanwhile, providerVars, StartedRevoked, Revoked
<1>5. CASE UNCHANGED deploymentVars
  BY <1>5 DEF deploymentVars, allVars, operatorVars, providerVars, StartedRevoked, Revoked
<1> QED
  BY <1>1, <1>2, <1>3, <1>4, <1>5, AccountRevoked, SecretRevoked, ListRevoked, OtherRevoked
     DEF DeploymentNext

(* With one process at a time and the startup cleanup on: when a process   *)
(* takes the lead, CleanupAllClaims has revoked the keys of all accounts   *)
(* for which it has not logged an error, whatever fails in it and wherever *)
(* earlier processes were stopped, in a hook or in a cleanup, and though   *)
(* claims may have changed meanwhile.                                      *)
THEOREM StartsRevoked ==
  OneOperator /\ StartupCleanup = {TRUE} => (DeploymentSpec => StartRevokesKeys)
<1> SUFFICES ASSUME OneOperator, StartupCleanup = {TRUE}
             PROVE  DeploymentSpec => StartRevokesKeys
  OBVIOUS
<1> DEFINE R == \A p \in Operators : StartedRevoked(p)
           A == \A p \in Operators :
                    stage[p] # "leader" /\ stage'[p] = "leader" =>
                        \A l \in Configured : keyAt[l] = NoKey \/ l \in logged[p]
<1>1. DeploymentInit => R
  BY DEF DeploymentInit, OperatorInit, StartedRevoked, Starting
<1>2. DTypes /\ R /\ [DeploymentNext]_deploymentVars => R'
  BY RevokedStep
<1>3. ASSUME DTypes, R, [DeploymentNext]_deploymentVars
      PROVE  A
  <2> SUFFICES ASSUME NEW p \in Operators, stage[p] # "leader", stage'[p] = "leader"
               PROVE  stage[p] = "standby"
    BY <1>3 DEF StartedRevoked, Starting, Revoked
  <2>1. StartupTypeOK
    BY <1>3 DEF DTypes, DeploymentTypeOK, OperatorTypeOK, StartupTypeOK
  <2>2. PICK q \in Operators : StartupStep(q) \/ Stop(q)
    BY <1>3 DEF DeploymentNext, CleanupAccount, ListSecrets, CleanupSecret, Cleaning,
       OtherStartup, LeaderWorks, StopProcess, UserStep, Meanwhile, deploymentVars, allVars,
       operatorVars
  <2> QED
    BY <2>1, <2>2, LeadsFromStandby DEF OneOperator
<1>4. DTypes /\ R /\ [DeploymentNext]_deploymentVars => [A]_deploymentVars
  BY <1>3
<1>5. DeploymentSpec => []DTypes
  <2>1. DeploymentSpec => []IInv
    BY DeploymentImplementsOperator, OperatorKeepsIInv, PTL
  <2> QED
    BY <2>1, DeploymentTypeCorrect, PTL DEF DTypes
<1> QED
  BY <1>1, <1>2, <1>4, <1>5, PTL DEF DeploymentSpec, StartRevokesKeys

-----------------------------------------------------------------------------
(* The pool and its keys while a process leads.                            *)

(* With one process at a time in a quiet environment, a Bound claim of a   *)
(* leader's pool holds its lease and no lease is lost, with hooks and      *)
(* startups run, and stopped, statement by statement.                      *)
THEOREM DeploymentConsistent ==
  OneOperator /\ Quiet => (DeploymentSpec => []LedPoolIsConsistent)
<1>1. ((\E p \in Operators : Lead(p)) => BoundOwnsLease /\ NoOrphanLease)
          => LedPoolIsConsistent
  BY DEF LedPoolIsConsistent, Leading
<1> QED
  BY <1>1, OperatorConsistent, DeploymentImplementsOperator, PTL

(* The key of a leader is where the reconciler needs it; a process that    *)
(* does not lead runs no hook.                                             *)
LedKeys == \A p \in Operators : IF Lead(p) THEN KeysAt(p) ELSE hook[p] = "start"

LEMMA LedKeysStep ==
  ASSUME OneOperator, Quiet, OInv, IdleOutside, AllNamed, BoundNamed, AllStartedClean,
         LedSettled, Snowflake!ProviderTypeOK, LedKeys, [DeploymentNext]_deploymentVars
  PROVE  LedKeys'
<1> SUFFICES ASSUME NEW p \in Operators
             PROVE  IF stage'[p] = "leader" THEN KeysAt(p)' ELSE hook'[p] = "start"
  BY DEF LedKeys, Lead
<1>1. [OperatorNext]_allVars /\ \A q \in Operators : q = p
  BY DeploymentStep DEF OInv, OneOperator
<1>2. CASE ~Lead(p)
  <2>1. hook[p] = "start"
    BY <1>2 DEF LedKeys
  <2>2. hook'[p] = "start"
    BY <1>1, <1>2, <2>1 DEF DeploymentNext, CleanupAccount, ListSecrets, CleanupSecret,
       OtherStartup, LeaderWorks, StopProcess, Snowflake!CleanAccount,
       Snowflake!ClearingFails,
       Snowflake!CleanSecret, Snowflake!Abandon, Snowflake!Hook, deploymentVars,
       providerVars, Snowflake!ProviderTypeOK
  <2>3. ASSUME stage'[p] = "leader"
        PROVE  KeysAt(p)'
    <3>1. BecomeLeader(p) /\ stage[p] = "standby"
      BY <1>1, <1>2, <2>3, TakesOver
    <3>2. worker' = worker /\ claim' = claim
      BY <3>1 DEF BecomeLeader
    <3>3. worker[p] = Idle
      BY <3>1 DEF IdleOutside
    <3>4. \A c \in Claims : claim[c].leaseName = NoLease
      BY <3>1 DEF AllStartedClean, StartedClean, ToReset, Quiet
    <3>5. \A c \in Claims : claim[c].phase # "Bound"
      BY <3>4, ControllerAssumption DEF BoundNamed
    <3> QED
      BY <2>2, <3>2, <3>3, <3>5, IdleIsElsewhere DEF KeysAt, BoundHasKey
  <2> QED
    BY <2>2, <2>3
<1>3. CASE Lead(p)
  <2>1. SInv
    BY <1>3 DEF SInv, Settled, LedSettled, OInv, LeaseInv, OneOperator
  <2>2. KeysAt(p)
    BY <1>3 DEF LedKeys
  <2>3. CASE [PoolNext]_poolVars /\ stage' = stage
    BY <1>3, <2>1, <2>2, <2>3, KeysStep DEF Lead
  <2>4. CASE LeaderWorks(p)
    BY <2>3, <2>4 DEF LeaderWorks, Meanwhile, PoolNext
  <2>5. CASE UserStep /\ UNCHANGED <<providerVars, toClean, logged>>
    BY <2>3, <2>5 DEF UserStep, Meanwhile, PoolNext
  <2>6. CASE StopProcess(p)
    BY <2>6 DEF StopProcess, Stop, Snowflake!Abandon, Snowflake!Hook, OInv, StartupTypeOK,
       Snowflake!ProviderTypeOK
  <2>7. CASE UNCHANGED deploymentVars
    BY <2>3, <2>7 DEF deploymentVars, allVars, operatorVars, poolVars
  <2>8. ASSUME NEW x, CleanupAccount(p, x) \/ CleanupSecret(p, x) \/ ListSecrets(p)
        PROVE  FALSE
    BY <1>3, <2>8 DEF CleanupAccount, CleanupSecret, ListSecrets, Cleaning, Lead
  <2>9. ~OtherStartup(p)
    BY <1>3, StartupOutside DEF OtherStartup, Lead
  <2> QED
    BY <1>1, <2>4, <2>5, <2>6, <2>7, <2>8, <2>9 DEF DeploymentNext
<1> QED
  BY <1>2, <1>3

(* With one process at a time in a quiet environment, while it leads, the  *)
(* Secret of a Bound claim opens its account, whatever hooks and cleanups  *)
(* were cut short before, and whatever Secrets and keys a startup did not  *)
(* reach.                                                                  *)
THEOREM DeploymentKeepsKeys ==
  OneOperator /\ Quiet => (DeploymentSpec => []LedClaimHasKey)
<1> SUFFICES ASSUME OneOperator, Quiet PROVE DeploymentSpec => []LedClaimHasKey
  OBVIOUS
<1> DEFINE I == /\ OInv /\ IdleOutside /\ AllNamed /\ BoundNamed /\ AllStartedClean
                /\ LedSettled
<1>1. DeploymentInit => LedKeys
  BY DEF DeploymentInit, OperatorInit, Snowflake!ProviderInit, LedKeys, Lead
<1>2. I /\ Snowflake!ProviderTypeOK /\ LedKeys /\ [DeploymentNext]_deploymentVars => LedKeys'
  BY LedKeysStep
<1>3. LedKeys => LedClaimHasKey
  BY DEF LedKeys, LedClaimHasKey, Leading, KeysAt
<1>4. DeploymentSpec => []I
  BY DeploymentImplementsOperator, LedSettledCorrect, PTL
<1>5. DeploymentTypeOK => Snowflake!ProviderTypeOK
  BY DEF DeploymentTypeOK
<1> HIDE DEF I
<1> QED
  BY <1>1, <1>2, <1>3, <1>4, <1>5, DeploymentTypeCorrect, PTL DEF DeploymentSpec

(* With one process at a time in a quiet environment, the deployment,      *)
(* hooks and cleanups statement by statement, implements Assignment.       *)
THEOREM DeploymentImplementsAssignment ==
  OneOperator /\ Quiet => (DeploymentSpec => ImplementsAssignment)
  BY OperatorImplementsAssignment, DeploymentImplementsOperator, PTL
=============================================================================
