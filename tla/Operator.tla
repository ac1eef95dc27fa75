------------------------------- MODULE Operator -------------------------------
(***************************************************************************)
(* cmd/main.go: the life of the operator processes.  A process creates the *)
(* leases that are missing, cleans up what an earlier one left, starts its *)
(* manager, waits to be elected and then runs the reconciler; it may stop  *)
(* at any moment and be started again.  A rolling update has two of them.  *)
(*                                                                         *)
(* The startup reads and writes the API server directly and is not covered *)
(* by the leader election.  The caches of a process are filled when it is  *)
(* elected: that is when its controller starts its watches.                *)
(*                                                                         *)
(* One more of the Hazards is about the startup:                           *)
(*   "overtake"      users change claims that a startup has listed and     *)
(*                   not yet reset                                         *)
(***************************************************************************)
EXTENDS ResourceClaimController

CONSTANTS StartupCleanup,   \* what RESOURCE_POOL_STARTUP_CLEANUP # "false" may
                            \* be when a process starts
          MaxCrashes        \* bound: how often processes stop

ASSUME OperatorAssumption ==
    /\ StartupCleanup \subseteq BOOLEAN
    /\ MaxCrashes \in Nat

VARIABLES stage,      \* stage[p]: how far main has come in p
          uncreated,  \* uncreated[p]: leases p has still to create
          resetting,  \* resetting[p]: claims runStartupCleanup of p listed and
                      \* has still to reset, unchanged since
          crashes     \* how often a process stopped

operatorVars == <<stage, uncreated, resetting, crashes>>
allVars == <<vars, operatorVars>>

Stages == {"down", "createLeases", "releaseLeases", "resetClaims", "standby", "leader"}

OperatorTypeOK ==
    /\ TypeOK
    /\ stage \in [Operators -> Stages]
    /\ uncreated \in [Operators -> SUBSET Configured]
    /\ resetting \in [Operators -> SUBSET Claims]
    /\ crashes \in 0..MaxCrashes

(* Nothing runs; a lease that is there belongs to a resource that is no    *)
(* longer configured.  A process that does not lead has no cache: all of   *)
(* it is outdated.                                                         *)
OperatorInit ==
    /\ lease = [l \in Leases |-> IF l \in Configured THEN Absent ELSE FreeLease]
    /\ listed = [p \in Operators |-> {}]
    /\ claim \in [Claims -> {NoObject, NewClaim}]
    /\ claimView = [p \in Operators |-> [c \in Claims |-> NoObject]]
    /\ leaseView = [p \in Operators |-> [l \in Leases |-> Absent]]
    /\ claimBehind = [p \in Operators |-> Claims]
    /\ leaseBehind = [p \in Operators |-> Leases]
    /\ queue = [p \in Operators |-> {}]
    /\ timers = [p \in Operators |-> {}]
    /\ worker = [p \in Operators |-> Idle]
    /\ stage = [p \in Operators |-> "down"]
    /\ uncreated = [p \in Operators |-> {}]
    /\ resetting = [p \in Operators |-> {}]
    /\ crashes = 0

-----------------------------------------------------------------------------
(* Startup.                                                                *)

Enter(p, from, to) ==
    /\ stage[p] = from
    /\ stage' = [stage EXCEPT ![p] = to]

(* Listed copies of claims that change are outdated: their reset will be   *)
(* refused, which is only logged.                                          *)
Overtake(changed) == resetting' = [p \in Operators |-> resetting[p] \ changed]

(* The process starts and its provider reads the configuration.            *)
Start(p) ==
    /\ Enter(p, "down", "createLeases")
    /\ uncreated' = [uncreated EXCEPT ![p] = Configured]
    /\ UNCHANGED <<vars, resetting, crashes>>

(* One turn of the loop of InitializeLeasesForProvider.                    *)
CreateNext(p) ==
    /\ stage[p] = "createLeases"
    /\ \E l \in uncreated[p] :
           /\ CreateLease(l)
           /\ uncreated' = [uncreated EXCEPT ![p] = @ \ {l}]
    /\ UNCHANGED <<claimVars, workVars, stage, resetting, crashes>>

(* A Create that fails ends the process, which is started again.           *)
CreateFails(p) ==
    /\ "apiError" \in Hazards
    /\ uncreated[p] # {}
    /\ Enter(p, "createLeases", "down")
    /\ uncreated' = [uncreated EXCEPT ![p] = {}]
    /\ UNCHANGED <<vars, resetting, crashes>>

(* The loop over the resources is through.                                 *)
AllCreated(p) == uncreated[p] = {}

(* runStartupCleanup: CleanupAllClaims of the provider, whose errors are   *)
(* only logged, then ReleaseAllLeases lists the leases that have a holder. *)
(* A List that fails is only logged.                                       *)
CleanupProvider(p) ==
    /\ TRUE \in StartupCleanup
    /\ AllCreated(p)
    /\ Enter(p, "createLeases", "releaseLeases")
    /\ \/ ListHeldLeases(p)
       \/ "apiError" \in Hazards /\ UNCHANGED leaseVars
    /\ uncreated' = [uncreated EXCEPT ![p] = {}]
    /\ UNCHANGED <<claimVars, workVars, resetting, crashes>>

(* The cleanup is switched off.                                            *)
SkipCleanup(p) ==
    /\ FALSE \in StartupCleanup
    /\ AllCreated(p)
    /\ Enter(p, "createLeases", "standby")
    /\ uncreated' = [uncreated EXCEPT ![p] = {}]
    /\ UNCHANGED <<vars, resetting, crashes>>

(* One turn of the loop of ReleaseAllLeases.                               *)
ReleaseNext(p) ==
    /\ stage[p] = "releaseLeases"
    /\ \E l \in Leases :
           \/ ReleaseListedLease(p, l)
           \/ "apiError" \in Hazards /\ SkipListedLease(p, l)
    /\ UNCHANGED <<claimVars, workVars, operatorVars>>

(* runStartupCleanup lists the claims once no listed lease is left.        *)
ListClaims(p) ==
    /\ listed[p] = {}
    /\ Enter(p, "releaseLeases", "resetClaims")
    /\ \/ resetting' = [resetting EXCEPT ![p] =
              {c \in Claims : claim[c].phase \in {"Bound", "Releasing"}}]
       \/ "apiError" \in Hazards /\ UNCHANGED resetting
    /\ UNCHANGED <<vars, uncreated, crashes>>

(* A bug the reset could have: the phase alone goes back.                  *)
KeepLeaseName(v) == [v EXCEPT !.phase = "Pending", !.ttl = 0]

(* What the startup makes of a Bound or Releasing claim.                   *)
AsPending(v) == [v EXCEPT !.phase = "Pending", !.leaseName = NoLease, !.ttl = 0]

(* One turn of the loop over the claims.                                   *)
ResetClaim(p, c) ==
    /\ stage[p] = "resetClaims"
    /\ c \in resetting[p]
    /\ \/ Rewrite(c, AsPending(claim[c])) /\ Overtake({c})
       \/ /\ "apiError" \in Hazards
          /\ resetting' = [resetting EXCEPT ![p] = @ \ {c}]
          /\ UNCHANGED vars
    /\ UNCHANGED <<stage, uncreated, crashes>>

(* mgr.Start, which waits for the election.                                *)
StartManager(p) ==
    /\ resetting[p] = {}
    /\ Enter(p, "resetClaims", "standby")
    /\ UNCHANGED <<vars, uncreated, resetting, crashes>>

(* At most one process leads.  Its controller fills its caches and queues  *)
(* every claim it finds.                                                   *)
BecomeLeader(p) ==
    /\ \A q \in Operators : stage[q] # "leader"
    /\ Enter(p, "standby", "leader")
    /\ claimView' = [claimView EXCEPT ![p] = claim]
    /\ leaseView' = [leaseView EXCEPT ![p] = lease]
    /\ claimBehind' = [claimBehind EXCEPT ![p] = {}]
    /\ leaseBehind' = [leaseBehind EXCEPT ![p] = {}]
    /\ queue' = [queue EXCEPT ![p] = {c \in Claims : claim[c].exists}]
    /\ UNCHANGED <<lease, listed, claim, timers, worker, uncreated, resetting, crashes>>

(* The process stops between any two calls: all it had in memory is gone.  *)
Stop(p) ==
    /\ crashes < MaxCrashes
    /\ stage[p] # "down"
    /\ stage' = [stage EXCEPT ![p] = "down"]
    /\ crashes' = crashes + 1
    /\ claimView' = [claimView EXCEPT ![p] = [c \in Claims |-> NoObject]]
    /\ leaseView' = [leaseView EXCEPT ![p] = [l \in Leases |-> Absent]]
    /\ claimBehind' = [claimBehind EXCEPT ![p] = Claims]
    /\ leaseBehind' = [leaseBehind EXCEPT ![p] = Leases]
    /\ listed' = [listed EXCEPT ![p] = {}]
    /\ uncreated' = [uncreated EXCEPT ![p] = {}]
    /\ resetting' = [resetting EXCEPT ![p] = {}]
    /\ queue' = [queue EXCEPT ![p] = {}]
    /\ timers' = [timers EXCEPT ![p] = {}]
    /\ worker' = [worker EXCEPT ![p] = Idle]
    /\ UNCHANGED <<lease, claim>>

-----------------------------------------------------------------------------
(* The reconciler runs in the leader only.                                 *)

Changed == {c \in Claims : claim'[c] # claim[c]}

(* A step of the reconciler or of a user: it may overtake a startup.       *)
Meanwhile ==
    /\ Overtake(Changed)
    /\ UNCHANGED <<stage, uncreated, crashes>>

Lead(p) == stage[p] = "leader"

LeaderStep(p) ==
    /\ Lead(p)
    /\ \/ Proceed(p) \/ Caches(p)
       \/ \E c \in Claims : Reconcile(p, c) \/ TimerFires(p, c)
    /\ Meanwhile

UserStep ==
    /\ Users /\ Meanwhile
    /\ "overtake" \in Hazards \/ \A p \in Operators : resetting[p] \cap Changed = {}

(* An administrator deletes a lease while the reconciler runs; bound: only *)
(* before the last restart, which creates it again.                        *)
AdminStep ==
    /\ crashes < MaxCrashes
    /\ \E p \in Operators : Lead(p)
    /\ AdminDeletesLease
    /\ UNCHANGED operatorVars

TimePasses == Tick /\ UNCHANGED operatorVars

StartupStep(p) ==
    \/ Start(p) \/ CreateNext(p) \/ CreateFails(p)
    \/ CleanupProvider(p) \/ SkipCleanup(p) \/ ReleaseNext(p) \/ ListClaims(p)
    \/ \E c \in Claims : ResetClaim(p, c)
    \/ StartManager(p) \/ BecomeLeader(p)

OperatorNext ==
    \/ \E p \in Operators : StartupStep(p) \/ LeaderStep(p) \/ Stop(p)
    \/ UserStep
    \/ AdminStep
    \/ TimePasses

OperatorSpec == OperatorInit /\ [][OperatorNext]_allVars

LeaseMissing == \E l \in Configured : ~lease[l].exists

(* A process that was started gets through its startup, is elected when    *)
(* nobody leads, and is started again when it stopped; the leader          *)
(* schedules its reconciler as in FairSpec.  Who deleted a lease restarts  *)
(* the operator: nothing else creates it again.                            *)
OperatorFairness ==
    /\ \A p \in Operators :
           /\ WF_allVars(StartupStep(p))
           /\ WF_allVars(Lead(p) /\ (Proceed(p) \/ Caches(p)) /\ Meanwhile)
           /\ SF_allVars(Lead(p) /\ AcquireResource(p) /\ worker'[p].at = "bind"
                         /\ Meanwhile)
           /\ \A c \in Claims :
                  /\ SF_allVars(Lead(p) /\ Reconcile(p, c) /\ Meanwhile)
                  /\ WF_allVars(Lead(p) /\ TimerFires(p, c) /\ Meanwhile)
    /\ WF_allVars(TimePasses)
    /\ WF_allVars(LeaseMissing /\ \E p \in Operators : Lead(p) /\ Stop(p))

FairOperatorSpec == OperatorSpec /\ OperatorFairness

-----------------------------------------------------------------------------
(* When a process takes the lead after a cleanup, no lease is held and no  *)
(* claim believes it has one, but for claims that their user deleted after *)
(* the cleanup listed them: what the last process was doing when it        *)
(* stopped leaves no trace (one process at a time, writes that succeed).   *)
CleanStart ==
    [][\A p \in Operators :
          stage[p] # "leader" /\ stage'[p] = "leader" =>
              /\ \A l \in Leases : lease[l].holder = Nobody
              /\ \A c \in Claims : claim[c].leaseName # NoLease => claim[c].deleting]_allVars
=============================================================================
