-------------------------- MODULE LeaseManagerProofs --------------------------
(***************************************************************************)
(* Proofs about LeaseManager, for any operators, claims, leases and        *)
(* durations: types, the cache invariant, and that the manager implements  *)
(* the lock whatever its callers do.                                       *)
(***************************************************************************)
EXTENDS LeaseManager, TLAPS

LEMMA FreeLeaseType == FreeLease \in LeaseRecord
  BY SMT DEF FreeLease, LeaseRecord

LEMMA AbsentType == Absent \in LeaseRecord
<1>1. ASSUME NEW b \in BOOLEAN, NEW v \in LeaseRecord
      PROVE  [v EXCEPT !.exists = b] \in LeaseRecord
  BY SMT DEF LeaseRecord
<1> QED
  BY <1>1, FreeLeaseType DEF Absent

LEMMA AgedType ==
  ASSUME NEW v \in LeaseRecord
  PROVE  Aged(v) \in LeaseRecord
  BY SMT DEF Aged, Less, LeaseRecord

LEMMA StoreLeaseType ==
  ASSUME LeaseTypeOK, NEW l \in Leases, NEW v \in LeaseRecord, StoreLease(l, v)
  PROVE  LeaseTypeOK'
  BY SMT DEF LeaseTypeOK, StoreLease

LEMMA AcquiredType ==
  ASSUME NEW c \in Claims
  PROVE  HeldBy(c) \in LeaseRecord
  BY LeaseAssumption, SMT DEF HeldBy, LeaseRecord

LEMMA LeaseTypeStep ==
  ASSUME LeaseTypeOK, [LeaseNext]_leaseVars
  PROVE  LeaseTypeOK'
<1>1. ASSUME NEW p \in Operators, NEW c \in Claims, NEW l \in Leases,
             AcquireLease(p, c, l)
      PROVE  LeaseTypeOK'
  BY <1>1, AcquiredType, StoreLeaseType DEF AcquireLease
<1>2. ASSUME NEW p \in Operators, NEW l \in Leases, ReleaseLease(p, l)
      PROVE  LeaseTypeOK'
  BY <1>2, FreeLeaseType, StoreLeaseType DEF ReleaseLease
<1>3. ASSUME NEW p \in Operators, NEW l \in Leases, ReleaseListedLease(p, l)
      PROVE  LeaseTypeOK'
  BY <1>3, FreeLeaseType, StoreLeaseType DEF ReleaseListedLease
<1>4. ASSUME NEW p \in Operators, NEW l \in Leases, SkipListedLease(p, l)
      PROVE  LeaseTypeOK'
  BY <1>4, SMT DEF SkipListedLease, LeaseTypeOK
<1>5. ASSUME NEW p \in Operators, ListHeldLeases(p)
      PROVE  LeaseTypeOK'
  BY <1>5, SMT DEF ListHeldLeases, LeaseTypeOK
<1>6. ASSUME NEW p \in Operators, SyncLeases(p)
      PROVE  LeaseTypeOK'
  BY <1>6, SMT DEF SyncLeases, LeaseTypeOK
<1>7. CASE TickLeases
  <2>1. \A l \in Leases : Aged(lease[l]) \in LeaseRecord
    BY AgedType DEF LeaseTypeOK
  <2>2. \A p \in Operators, l \in Leases : Aged(leaseView[p][l]) \in LeaseRecord
    BY AgedType, SMT DEF LeaseTypeOK
  <2> QED
    BY <1>7, <2>1, <2>2, SMT DEF TickLeases, LeaseTypeOK
<1>8. CASE UNCHANGED leaseVars
  BY <1>8, SMT DEF leaseVars, LeaseTypeOK
<1>9. ASSUME NEW l \in Leases, CreateLease(l) \/ DeleteLease(l)
      PROVE  LeaseTypeOK'
  BY <1>8, <1>9, FreeLeaseType, AbsentType, StoreLeaseType DEF CreateLease, DeleteLease
<1> QED
  BY <1>1, <1>2, <1>3, <1>4, <1>5, <1>6, <1>7, <1>8, <1>9 DEF LeaseNext

LEMMA LeaseTypeInit == LeaseInit => LeaseTypeOK
  BY FreeLeaseType, SMT DEF LeaseInit, LeaseTypeOK

(* Every state of the leases and of their caches has its type.             *)
THEOREM LeaseTypeCorrect == LeaseSpec => []LeaseTypeOK
  BY LeaseTypeInit, LeaseTypeStep, PTL DEF LeaseSpec

-----------------------------------------------------------------------------
LEMMA StoreLeaseKeepsCache ==
  ASSUME LeaseTypeOK, CachedLeaseIsCurrent,
         NEW l \in Leases, NEW v, StoreLease(l, v)
  PROVE  CachedLeaseIsCurrent'
  BY SMT DEF LeaseTypeOK, CachedLeaseIsCurrent, StoreLease

LEMMA CacheStep ==
  ASSUME LeaseTypeOK, CachedLeaseIsCurrent, [LeaseNext]_leaseVars
  PROVE  CachedLeaseIsCurrent'
<1>1. ASSUME NEW p \in Operators, NEW c \in Claims, NEW l \in Leases,
             AcquireLease(p, c, l)
      PROVE  CachedLeaseIsCurrent'
  BY <1>1, StoreLeaseKeepsCache DEF AcquireLease
<1>2. ASSUME NEW p \in Operators, NEW l \in Leases,
             ReleaseLease(p, l) \/ ReleaseListedLease(p, l)
      PROVE  CachedLeaseIsCurrent'
  BY <1>2, StoreLeaseKeepsCache DEF ReleaseLease, ReleaseListedLease
<1>3. ASSUME NEW p \in Operators,
             ListHeldLeases(p) \/ \E l \in Leases : SkipListedLease(p, l)
      PROVE  CachedLeaseIsCurrent'
  BY <1>3 DEF ListHeldLeases, SkipListedLease, CachedLeaseIsCurrent
<1>4. ASSUME NEW p \in Operators, SyncLeases(p)
      PROVE  CachedLeaseIsCurrent'
  BY <1>4, SMT DEF SyncLeases, CachedLeaseIsCurrent, LeaseTypeOK
<1>5. CASE TickLeases
  BY <1>5, SMT DEF TickLeases, CachedLeaseIsCurrent, LeaseTypeOK
<1>6. CASE UNCHANGED leaseVars
  BY <1>6 DEF leaseVars, CachedLeaseIsCurrent
<1>7. ASSUME NEW l \in Leases, CreateLease(l) \/ DeleteLease(l)
      PROVE  CachedLeaseIsCurrent'
  BY <1>6, <1>7, StoreLeaseKeepsCache DEF CreateLease, DeleteLease
<1> QED
  BY <1>1, <1>2, <1>3, <1>4, <1>5, <1>6, <1>7 DEF LeaseNext

LEMMA CacheInit == LeaseInit => CachedLeaseIsCurrent
  BY SMT DEF LeaseInit, CachedLeaseIsCurrent

(* An informer cache is right about every lease whose version it has: what *)
(* the re-check of AcquireLease reads is what its update replaces, or the  *)
(* update is refused.                                                      *)
THEOREM CacheCorrect == LeaseSpec => []CachedLeaseIsCurrent
<1>1. LeaseInit => LeaseTypeOK /\ CachedLeaseIsCurrent
  BY LeaseTypeInit, CacheInit
<1>2. LeaseTypeOK /\ CachedLeaseIsCurrent /\ [LeaseNext]_leaseVars
          => (LeaseTypeOK /\ CachedLeaseIsCurrent)'
  BY LeaseTypeStep, CacheStep
<1> QED
  BY <1>1, <1>2, PTL DEF LeaseSpec

-----------------------------------------------------------------------------
(* Refinement of the lock.                                                 *)

LEMMA LockInitMaps == LeaseInit => Lock!Init
  BY SMT DEF LeaseInit, Lock!Init, held, isLeaseFree, FreeLease

(* Clearing a lease leaves its lock, and so does deleting it.              *)
LEMMA FreeLeaseMaps ==
  ASSUME LeaseTypeOK, NEW l \in Leases, NEW v,
         v.holder = Nobody, lease' = [lease EXCEPT ![l] = v]
  PROVE  Lock!Leave({l})
  BY SMT DEF LeaseTypeOK, Lock!Leave, held, isLeaseFree

LEMMA NoHolder == FreeLease.holder = Nobody /\ Absent.holder = Nobody
  BY SMT DEF FreeLease, Absent

LEMMA LockStepMaps ==
  ASSUME LeaseTypeOK, CachedLeaseIsCurrent, [LeaseNext]_leaseVars
  PROVE  [Lock!Next]_held
<1>1. ASSUME NEW p \in Operators, NEW c \in Claims, NEW l \in Leases,
             AcquireLease(p, c, l)
      PROVE  Lock!Take(c, l)
  <2>1. isLeaseFree(lease[l])
    BY <1>1 DEF AcquireLease, StillFree, LeaseCurrent, CachedLeaseIsCurrent
  <2>2. held[l] = Nobody
    BY <2>1 DEF held
  <2>3. lease' = [lease EXCEPT ![l] = HeldBy(c)]
    BY <1>1 DEF AcquireLease, StoreLease
  <2>4. /\ lease'[l].holder = c /\ lease'[l].ttl # 0
        /\ \A m \in Leases \ {l} : lease'[m] = lease[m]
    BY <2>3, LeaseAssumption, SMT DEF LeaseTypeOK, HeldBy
  <2>5. held' = [m \in Leases |-> IF m = l THEN c ELSE held[m]]
    BY <2>4, LeaseAssumption, SMT DEF held, isLeaseFree
  <2>6. held = [m \in Leases |-> held[m]]
    BY DEF held
  <2>7. held' = [held EXCEPT ![l] = c]
    BY <2>5, <2>6, SMT
  <2> QED
    BY <2>2, <2>7 DEF Lock!Take
<1>2. ASSUME NEW p \in Operators, NEW l \in Leases,
             ReleaseLease(p, l) \/ ReleaseListedLease(p, l)
      PROVE  Lock!Leave({l})
  BY <1>2, NoHolder, FreeLeaseMaps DEF ReleaseLease, ReleaseListedLease, StoreLease
<1>3. ASSUME NEW p \in Operators,
             ListHeldLeases(p) \/ SyncLeases(p) \/ \E l \in Leases : SkipListedLease(p, l)
      PROVE  UNCHANGED held
  BY <1>3, SMT DEF ListHeldLeases, SyncLeases, SkipListedLease, held, isLeaseFree
<1>4. CASE TickLeases
  <2> DEFINE Gone == {l \in Leases : lease[l].ttl < 2}
  <2>1. \A l \in Leases : /\ lease[l].ttl \in Nat
                          /\ lease'[l].holder = lease[l].holder
                          /\ lease'[l].ttl = Less(lease[l].ttl)
    BY <1>4, SMT DEF TickLeases, Aged, LeaseTypeOK, LeaseRecord
  <2>2. \A l \in Leases : lease'[l].ttl = 0 <=> l \in Gone
    BY <2>1, SMT DEF Less
  <2>3. \A l \in Leases : held'[l] = IF l \in Gone THEN Nobody ELSE held[l]
    BY <2>1, <2>2, SMT DEF held, isLeaseFree
  <2>4. Lock!Leave(Gone)
    BY <2>3, SMT DEF Lock!Leave, held
  <2> QED
    BY <2>4 DEF Lock!Next
<1>5. CASE UNCHANGED leaseVars
  <2>1. UNCHANGED held
    BY <1>5, SMT DEF leaseVars, held, isLeaseFree
  <2> QED
    BY <2>1
<1>6. ASSUME NEW l \in Leases, CreateLease(l) \/ DeleteLease(l)
      PROVE  [Lock!Next]_held
  <2>1. CASE UNCHANGED leaseVars
    BY <1>5, <2>1
  <2>2. CASE StoreLease(l, FreeLease) \/ StoreLease(l, Absent)
    <3>1. Lock!Leave({l})
      BY <2>2, NoHolder, FreeLeaseMaps DEF StoreLease
    <3> QED
      BY <3>1 DEF Lock!Next
  <2> QED
    BY <1>6, <2>1, <2>2 DEF CreateLease, DeleteLease
<1> QED
  BY <1>1, <1>2, <1>3, <1>4, <1>5, <1>6 DEF LeaseNext, Lock!Next

(* The leases are a lock: a claim gets a lease only while nobody's time on *)
(* it is running, for any number of operators with caches of any age.      *)
THEOREM LockImplemented == LeaseSpec => ImplementsLock
<1>1. LeaseSpec => [](LeaseTypeOK /\ CachedLeaseIsCurrent)
  BY LeaseTypeCorrect, CacheCorrect, PTL
<1>2. LeaseInit => Lock!Init
  BY LockInitMaps
<1>3. LeaseTypeOK /\ CachedLeaseIsCurrent /\ [LeaseNext]_leaseVars => [Lock!Next]_held
  BY LockStepMaps
<1> QED
  BY <1>1, <1>2, <1>3, PTL DEF LeaseSpec, ImplementsLock, Lock!Spec
=============================================================================
