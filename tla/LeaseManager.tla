----------------------------- MODULE LeaseManager -----------------------------
(***************************************************************************)
(* internal/lease/manager.go: the Manager that creates, finds, acquires    *)
(* and releases the coordination.k8s.io leases of the pool, as one or more *)
(* operator processes call it at once (a rolling update runs two), and     *)
(* while administrators may delete a lease object.                         *)
(*                                                                         *)
(* Reads go through the informer cache of controller-runtime and may be    *)
(* stale; writes go to the API server, which refuses an update whose       *)
(* resourceVersion is not the current one.  leaseBehind[p] holds the       *)
(* leases whose cached copy in p has an old resourceVersion: comparing     *)
(* versions needs no more than that.                                       *)
(*                                                                         *)
(* The clock is a countdown: ttl ticks until time.Now() is after           *)
(* acquireTime + leaseDurationSeconds, 0 when it is, or when the lease     *)
(* has no acquireTime.                                                     *)
(***************************************************************************)
EXTENDS Naturals

CONSTANTS Operators,       \* operator processes
          Claims,          \* claims that may hold a lease, by namespace/name
          Leases,          \* leases of the provider's resources
          Nobody,          \* a nil spec.holderIdentity
          Duration,        \* Duration[c]: ticks claim c asks a lease for
          LeaseLabels,     \* LeaseLabels[l]: set of the <<key, value>> of l
          RequiredLabels   \* RequiredLabels[c]: spec.requiredLabels of c

ASSUME LeaseAssumption ==
    /\ Nobody \notin Claims
    /\ Duration \in [Claims -> Nat \ {0}]

VARIABLES lease,        \* the leases at the API server
          leaseView,    \* leaseView[p]: the informer cache of p
          leaseBehind,  \* leaseBehind[p]: leases whose copy in p is outdated
          listed        \* listed[p]: held leases that ReleaseAllLeases of p
                        \* read and has still to clear, unchanged since

leaseVars == <<lease, leaseView, leaseBehind, listed>>

LeaseRecord == [exists : BOOLEAN, holder : Claims \cup {Nobody}, ttl : Nat]

FreeLease == [exists |-> TRUE, holder |-> Nobody, ttl |-> 0]

(* There is no lease object of the resource.                               *)
Absent == [FreeLease EXCEPT !.exists = FALSE]

HeldBy(c) == [exists |-> TRUE, holder |-> c, ttl |-> Duration[c]]

LeaseTypeOK ==
    /\ lease \in [Leases -> LeaseRecord]
    /\ leaseView \in [Operators -> [Leases -> LeaseRecord]]
    /\ leaseBehind \in [Operators -> SUBSET Leases]
    /\ listed \in [Operators -> SUBSET Leases]

LeaseInit ==
    /\ lease = [l \in Leases |-> FreeLease]
    /\ leaseView = [p \in Operators |-> lease]
    /\ leaseBehind = [p \in Operators |-> {}]
    /\ listed = [p \in Operators |-> {}]

-----------------------------------------------------------------------------
(* A bug isLeaseFree could have: Before for After.                         *)
InvertedExpiry(v) == v.holder = Nobody \/ v.ttl > 0

(* isLeaseFree: no holder, or the holder's time is over.                   *)
isLeaseFree(v) == v.holder = Nobody \/ v.ttl = 0

(* A bug matchesLabels could have: one required pair is enough.            *)
AnyLabel(have, required) == required = {} \/ have \cap required # {}

(* matchesLabels: every required pair is a label of the lease; an empty    *)
(* requirement matches all.                                                *)
matchesLabels(have, required) == required \subseteq have

(* FindFreeLease: the loop returns the first free, matching lease of a     *)
(* cached list whose order is unspecified: any member of this set, and an  *)
(* error when it is empty.                                                 *)
FindFreeLease(p, c) ==
    {l \in Leases : /\ leaseView[p][l].exists /\ isLeaseFree(leaseView[p][l])
                    /\ matchesLabels(LeaseLabels[l], RequiredLabels[c])}

(* The API server stores v as lease l.  An update that changes nothing     *)
(* keeps the resourceVersion.                                              *)
StoreLease(l, v) ==
    /\ lease' = [lease EXCEPT ![l] = v]
    /\ IF v = lease[l]
       THEN UNCHANGED <<leaseBehind, listed>>
       ELSE /\ leaseBehind' = [p \in Operators |-> leaseBehind[p] \cup {l}]
            /\ listed' = [p \in Operators |-> listed[p] \ {l}]
    /\ UNCHANGED leaseView

(* Get finds a cached copy, and the Update of p that sends it has the      *)
(* current resourceVersion.                                                *)
LeaseCurrent(p, l) == leaseView[p][l].exists /\ l \notin leaseBehind[p]

(* InitializeLeasesForProvider, one turn of the loop: Create; a lease that *)
(* exists already is left as it is.                                        *)
CreateLease(l) ==
    IF lease[l].exists THEN UNCHANGED leaseVars ELSE StoreLease(l, FreeLease)

(* An administrator deletes the lease object.                              *)
DeleteLease(l) == lease[l].exists /\ StoreLease(l, Absent)

(* A bug AcquireLease could have: no re-check.                             *)
NoReCheck(p, l) == TRUE

(* The re-check of AcquireLease on its cached "fresh" copy.                *)
StillFree(p, l) == isLeaseFree(leaseView[p][l])

(* The update AcquireLease sends once the re-check passed.                 *)
AcquireLease(p, c, l) ==
    /\ StillFree(p, l)
    /\ LeaseCurrent(p, l)
    /\ StoreLease(l, HeldBy(c))

(* A bug ReleaseLease could have: the empty string instead of nil.         *)
EmptyHolder(p, l) ==
    /\ LeaseCurrent(p, l)
    /\ StoreLease(l, [FreeLease EXCEPT !.holder = ""])

(* ReleaseLease clears the lease whoever holds it.                         *)
ReleaseLease(p, l) ==
    /\ LeaseCurrent(p, l)
    /\ StoreLease(l, FreeLease)

(* ReleaseAllLeases, start: an uncached List; free leases are skipped.     *)
ListHeldLeases(p) ==
    /\ listed' = [listed EXCEPT ![p] = {l \in Leases : lease[l].holder # Nobody}]
    /\ UNCHANGED <<lease, leaseView, leaseBehind>>

(* ReleaseAllLeases, one turn of the loop.  A lease that changed after     *)
(* the List is no longer in listed[p]: its update is refused and logged.   *)
ReleaseListedLease(p, l) ==
    /\ l \in listed[p]
    /\ StoreLease(l, FreeLease)

(* ReleaseAllLeases, one turn whose update fails: logged, then continue.   *)
SkipListedLease(p, l) ==
    /\ l \in listed[p]
    /\ listed' = [listed EXCEPT ![p] = @ \ {l}]
    /\ UNCHANGED <<lease, leaseView, leaseBehind>>

-----------------------------------------------------------------------------
(* The watch brings the informer cache of p up to date.                    *)
SyncLeases(p) ==
    /\ leaseBehind[p] # {}
    /\ leaseView' = [leaseView EXCEPT ![p] = lease]
    /\ leaseBehind' = [leaseBehind EXCEPT ![p] = {}]
    /\ UNCHANGED <<lease, listed>>

Less(n) == IF n = 0 THEN 0 ELSE n - 1

Aged(v) == [v EXCEPT !.ttl = Less(@)]

(* One tick of the clock, which ages every copy of every lease.            *)
TickLeases ==
    /\ lease' = [l \in Leases |-> Aged(lease[l])]
    /\ leaseView' = [p \in Operators |-> [l \in Leases |-> Aged(leaseView[p][l])]]
    /\ UNCHANGED <<leaseBehind, listed>>

(* The callers of this component are not modelled here: any operator may   *)
(* acquire for any claim a lease it found at some earlier time, release    *)
(* any lease it has the name of, and run the startup loops.                *)
LeaseNext ==
    \/ \E p \in Operators, c \in Claims, l \in Leases : AcquireLease(p, c, l)
    \/ \E p \in Operators, l \in Leases :
           \/ ReleaseLease(p, l)
           \/ ReleaseListedLease(p, l)
           \/ SkipListedLease(p, l)
    \/ \E l \in Leases : CreateLease(l) \/ DeleteLease(l)
    \/ \E p \in Operators : ListHeldLeases(p) \/ SyncLeases(p)
    \/ TickLeases

LeaseSpec == LeaseInit /\ [][LeaseNext]_leaseVars

-----------------------------------------------------------------------------
(* A copy in a cache that is not marked outdated is the stored lease:      *)
(* nothing changes a lease behind the resourceVersion's back.              *)
CachedLeaseIsCurrent ==
    \A p \in Operators, l \in Leases :
        l \notin leaseBehind[p] => leaseView[p][l] = lease[l]

(* Who really holds a lease: the holder, while its time is not over.       *)
held == [l \in Leases |-> IF isLeaseFree(lease[l]) THEN Nobody
                                                   ELSE lease[l].holder]

Lock == INSTANCE LeaseLock WITH lock <- held

(* The manager implements the lock, whatever the operators call and        *)
(* however stale their caches are: AcquireLease never takes a lease away   *)
(* from a claim whose time is not over (the re-check and the conflict      *)
(* check of Update together).                                              *)
ImplementsLock == Lock!Spec
=============================================================================
