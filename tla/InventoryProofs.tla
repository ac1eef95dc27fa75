---------------------------- MODULE InventoryProofs ----------------------------
(***************************************************************************)
(* Proofs about Inventory, for any configurations, claims and requests:    *)
(* what a lease was made from and what a grant says of its lease stay true *)
(* while the configuration is edited, the operator restarted and leases    *)
(* deleted and created again; and, of configurations that administrators   *)
(* keep in order (LabelsKept, WellNamed), which account a grant is for.    *)
(***************************************************************************)
EXTENDS Inventory, SequenceTheorems, TLAPS

(* A lease that exists has the labels of an account, from one of the       *)
(* configurations, that has the name in the lease's, whoever holds it.     *)
MadeFrom(v, n, a, h) ==
    n = LeaseName(a.name) /\ v = [NewLease(a) EXCEPT !.holder = h]

LeasesMade ==
    /\ leases \in [LeaseNames -> LeaseObjects]
    /\ \A n \in LeaseNames :
           \/ leases[n] = NoLeaseObject
           \/ \E a \in Accounts, h \in Claims \cup {Nobody} : MadeFrom(leases[n], n, a, h)

(* Who has been granted a lease is its holder.  Where the labels of the    *)
(* accounts leave the name of the resource alone, the lease is named after *)
(* the account.                                                            *)
Backed(c, g) == /\ leases[g.lease].exists /\ leases[g.lease].holder = c
                /\ 2 * g.seconds <= g.request.duration
                /\ LabelsKept => g.lease = LeaseName(g.account.name)

GrantsBacked == /\ grants \in [Claims -> Grants \cup {NoGrant}]
                /\ \A c \in Claims : grants[c] # NoGrant => Backed(c, grants[c])

ReadOnce == /\ configMap \in ConfigMaps
            /\ resources \in Configs \cup {<<>>}

OpenedReal == opened \subseteq {a.url : a \in Accounts}

(* A process has read what is in its registry, and has served with it when *)
(* it is ready.                                                            *)
PastKept == /\ read \in Configs \cup {NoConfig, Several}
            /\ since \in Configs \cup {NoConfig, Several}
            /\ since \in {NoConfig, read} \/ read = Several
            /\ stage # "down" => resources \in Configs /\ read \in {resources, Several}
            /\ stage = "ready" => since \in {resources, Several}

(* The loop of a startup leaves no account behind it without a lease.      *)
TurnsDone ==
    /\ stage \in {"down", "createLeases", "ready"}
    /\ created \in 0..Len(resources)
    /\ stage = "createLeases" =>
           \A i \in 1..created : leases[LeaseName(resources[i].name)].exists

InInv == ReadOnce /\ LeasesMade /\ GrantsBacked /\ OpenedReal /\ TurnsDone /\ PastKept

-----------------------------------------------------------------------------
(* Names, labels, durations and the search for an account.                 *)

(* Behind a head of k parts, k of them and one more are cut off.           *)
LEMMA CutsHead ==
  ASSUME NEW S, NEW p \in Seq(S), NEW t \in Seq(S), NEW dash \in Seq(S),
         NEW name \in Seq(S), Len(dash) = 1
  PROVE  LET all == (p \o t \o dash) \o name
         IN  SubSeq(all, Len(p) + Len(t) + 2, Len(all)) = name
<1> DEFINE head == p \o t \o dash
           all == head \o name
<1>1. p \o t \in Seq(S) /\ Len(p \o t) = Len(p) + Len(t)
  OBVIOUS
<1>2. head \in Seq(S) /\ Len(head) = Len(p \o t) + Len(dash)
  <2> DEFINE pt == p \o t
  <2>1. pt \in Seq(S)
    BY <1>1
  <2> HIDE DEF pt
  <2>2. pt \o dash \in Seq(S) /\ Len(pt \o dash) = Len(pt) + Len(dash)
    BY <2>1, ConcatProperties
  <2> QED
    BY <2>2 DEF pt
<1>3. Len(head) + 1 = Len(p) + Len(t) + 2
  BY <1>1, <1>2
<1> HIDE DEF head
<1>4. SubSeq(head \o name, Len(head) + 1, Len(head \o name)) = name
  BY <1>2
<1> QED
  BY <1>3, <1>4 DEF head

(* What handleDeletion cuts out of a name is what was put in.              *)
LEMMA CutIsName ==
  ASSUME NEW name \in Seq(STRING)
  PROVE  CutName(LeaseName(name)) = name
<1> DEFINE Parts == STRING \cup {"-"}
<1>1. \A s \in Seq(STRING) : s \in Seq(Parts)
  BY SeqMonotonic
<1>2. <<"-">> \in Seq(Parts) /\ Len(<<"-">>) = 1
  <2>1. \A S : \A e \in S : <<e>> \in Seq(S) /\ Len(<<e>>) = 1
    OBVIOUS
  <2>2. "-" \in Parts
    OBVIOUS
  <2> HIDE DEF Parts
  <2> QED
    BY <2>1, <2>2
<1> HIDE DEF Parts
<1>3. LeasePrefix \in Seq(Parts) /\ Type \in Seq(Parts) /\ name \in Seq(Parts)
  BY <1>1, InventoryAssumption
<1> QED
  BY <1>2, <1>3, CutsHead DEF CutName, LeaseName

LEMMA LabelOfName ==
  ASSUME LabelsKept, NEW a \in Accounts
  PROVE  LeaseLabels(a)["name"] = a.name /\ a.name \in Seq(STRING)
<1> DEFINE managed == [type |-> Type, name |-> a.name]
<1>1. "name" \notin DOMAIN a.labels /\ a.name \in Seq(STRING)
  <2>1. PICK cm \in Configs : \E i \in DOMAIN cm : a = cm[i]
    BY DEF Accounts
  <2> QED
    BY <2>1, InventoryAssumption DEF Configs, LabelsKept
<1>2. "name" \in DOMAIN managed /\ managed["name"] = a.name
  OBVIOUS
<1> HIDE DEF managed
<1>3. Copy(managed, a.labels)["name"] = a.name
  BY <1>1, <1>2 DEF Copy
<1> QED
  BY <1>1, <1>3 DEF LeaseLabels, managed

(* int32 makes no duration longer.                                         *)
LEMMA SecondsBounded ==
  ASSUME NEW d \in Int, NEW s \in Seconds(d), s > 0
  PROVE  2 * s <= d
  BY InventoryAssumption, SMT DEF Seconds

LEMMA SecondsInRange ==
  ASSUME NEW d \in Int, NEW s \in Seconds(d), s > 0
  PROVE  s \in 1..MaxInt32
  BY InventoryAssumption, SMT DEF Seconds

(* What is required of a lease beyond the managed labels is required of    *)
(* the account it was made from.                                           *)
LEMMA FoundSuits ==
  ASSUME NEW a, NEW r, matchesLabels(LeaseLabels(a), r)
  PROVE  MatchesLabels(a, [k \in DOMAIN r \ {"type", "name"} |-> r[k]])
<1>1. DOMAIN [type |-> Type, name |-> a.name] = {"type", "name"}
  OBVIOUS
<1> DEFINE managed == [type |-> Type, name |-> a.name]
<1> HIDE DEF managed
<1>2. DOMAIN managed = {"type", "name"}
  BY <1>1 DEF managed
<1>3. LeaseLabels(a) = Copy(managed, a.labels)
  BY DEF LeaseLabels, managed
<1>4. /\ DOMAIN LeaseLabels(a) = {"type", "name"} \cup DOMAIN a.labels
      /\ \A k \in DOMAIN a.labels : LeaseLabels(a)[k] = a.labels[k]
  BY <1>2, <1>3 DEF Copy
<1>5. \A k \in DOMAIN r \ {"type", "name"} : k \in DOMAIN a.labels /\ a.labels[k] = r[k]
  BY <1>4 DEF matchesLabels
<1> QED
  BY <1>5 DEF MatchesLabels

LEMMA LengthRead ==
  ASSUME NEW r \in Configs \cup {<<>>}
  PROVE  Len(r) \in Nat /\ DOMAIN r = 1..Len(r)
<1>1. CASE r = <<>>
  BY <1>1
<1>2. CASE r \in Configs
  <2>1. r \in Seq({r[j] : j \in DOMAIN r})
    BY <1>2, InventoryAssumption DEF Configs
  <2> QED
    BY <2>1
<1> QED
  BY <1>1, <1>2

LEMMA AccountRead ==
  ASSUME ReadOnce, NEW i \in 1..Len(resources)
  PROVE  /\ resources \in Configs /\ i \in DOMAIN resources
         /\ resources[i] \in Accounts
         /\ LeaseName(resources[i].name) \in LeaseNames
<1>1. resources \in Configs
  BY DEF ReadOnce
<1>2. i \in DOMAIN resources
  BY <1>1, LengthRead
<1>3. resources[i] \in Accounts
  BY <1>1, <1>2 DEF Accounts
<1> QED
  BY <1>1, <1>2, <1>3 DEF LeaseNames

(* A search finds one account at most, one of those it goes through.       *)
LEMMA FirstIsOne ==
  ASSUME NEW r \in Configs \cup {<<>>}, NEW name, NEW a \in FirstNamed(r, name)
  PROVE  /\ a.name = name
         /\ r \in Configs
         /\ \E i \in DOMAIN r : a = r[i]
         /\ \A b \in FirstNamed(r, name) : a = b
<1>1. Len(r) \in Nat /\ DOMAIN r = 1..Len(r)
  BY LengthRead
<1>2. PICK i \in DOMAIN r : /\ a = r[i] /\ r[i].name = name
                            /\ \A k \in 1..(i - 1) : r[k].name # name
  BY DEF FirstNamed
<1>3. r \in Configs
  <2>1. DOMAIN <<>> = {}
    OBVIOUS
  <2> QED
    BY <1>2, <2>1
<1>4. ASSUME NEW b \in FirstNamed(r, name)
      PROVE  a = b
  <2>1. PICK j \in DOMAIN r : /\ b = r[j] /\ r[j].name = name
                              /\ \A k \in 1..(j - 1) : r[k].name # name
    BY DEF FirstNamed
  <2>2. i \in Nat /\ j \in Nat /\ i >= 1 /\ j >= 1
    BY <1>1, <1>2, <2>1
  <2>3. ~(j < i) /\ ~(i < j)
    BY <1>2, <2>1, <2>2
  <2>4. i = j
    BY <2>2, <2>3
  <2> QED
    BY <1>2, <2>1, <2>4
<1> QED
  BY <1>2, <1>3, <1>4

-----------------------------------------------------------------------------
(* Leases as they are made.                                                *)

LEMMA MadeFields ==
  ASSUME NEW v, NEW n, NEW a, NEW h, MadeFrom(v, n, a, h)
  PROVE  v.exists = TRUE /\ v.labels = LeaseLabels(a) /\ v.holder = h
  BY DEF MadeFrom, NewLease

LEMMA MadeIsObject ==
  ASSUME NEW v, NEW n, NEW a \in Accounts, NEW h \in Claims \cup {Nobody},
         MadeFrom(v, n, a, h)
  PROVE  v \in LeaseObjects
  BY DEF MadeFrom, LeaseObjects

(* A lease stays made from its account when it changes hands.              *)
LEMMA ChangesHands ==
  ASSUME NEW v, NEW n, NEW a, NEW h, NEW k, MadeFrom(v, n, a, h)
  PROVE  MadeFrom([v EXCEPT !.holder = k], n, a, k)
  BY DEF MadeFrom, NewLease

LEMMA HeldAlready ==
  ASSUME NEW exists, NEW labels, NEW holder
  PROVE  LET v == [exists |-> exists, labels |-> labels, holder |-> holder]
         IN  [v EXCEPT !.holder = holder] = v
  OBVIOUS

LEMMA NewIsMade ==
  ASSUME NEW a
  PROVE  MadeFrom(NewLease(a), LeaseName(a.name), a, Nobody)
  BY HeldAlready, Zenon DEF MadeFrom, NewLease

LEMMA OneLeaseMade ==
  ASSUME LeasesMade,
         NEW n \in LeaseNames, NEW v, leases' = [leases EXCEPT ![n] = v],
         v = NoLeaseObject
             \/ \E a \in Accounts, h \in Claims \cup {Nobody} : MadeFrom(v, n, a, h)
  PROVE  LeasesMade'
<1>1. v \in LeaseObjects
  BY MadeIsObject DEF LeaseObjects
<1>2. \A m \in LeaseNames : leases'[m] = IF m = n THEN v ELSE leases[m]
  BY DEF LeasesMade
<1>3. (leases \in [LeaseNames -> LeaseObjects])'
  BY <1>1 DEF LeasesMade
<1> QED
  BY <1>2, <1>3 DEF LeasesMade, MadeFrom

-----------------------------------------------------------------------------
(* InInv.                                                                  *)

LEMMA InInvInit == InventoryInit => InInv
<1> SUFFICES ASSUME InventoryInit PROVE InInv
  OBVIOUS
<1>1. /\ leases = [n \in LeaseNames |-> NoLeaseObject]
      /\ grants = [c \in Claims |-> NoGrant]
      /\ resources = <<>> /\ created = 0 /\ stage = "down" /\ opened = {}
      /\ configMap \in ConfigMaps
  BY DEF InventoryInit
<1>2. LeasesMade
  <2>1. NoLeaseObject \in LeaseObjects
    BY DEF LeaseObjects
  <2> QED
    BY <1>1, <2>1 DEF LeasesMade
<1>3. GrantsBacked
  BY <1>1 DEF GrantsBacked
<1>4. TurnsDone
  BY <1>1 DEF TurnsDone
<1>5. PastKept
  BY DEF InventoryInit, PastKept
<1> QED
  BY <1>1, <1>2, <1>3, <1>4, <1>5 DEF InInv, ReadOnce, OpenedReal

LEMMA Apart == NoConfig # Several /\ NoConfig \notin Configs /\ Several \notin Configs
  BY InventoryAssumption DEF Configs

LEMMA PastStays ==
  ASSUME PastKept, UNCHANGED <<resources, stage, history>>
  PROVE  PastKept'
  BY DEF PastKept, history

(* Startup and the configuration: leases and grants stay.                  *)
LEMMA KeepsLeases ==
  ASSUME InInv, ReadOnce', TurnsDone', PastKept', UNCHANGED <<leases, grants, opened>>
  PROVE  InInv'
<1>1. LeasesMade'
  BY DEF InInv, LeasesMade, MadeFrom
<1>2. GrantsBacked'
  BY DEF InInv, GrantsBacked, Backed
<1>3. OpenedReal'
  BY DEF InInv, OpenedReal
<1> QED
  BY <1>1, <1>2, <1>3 DEF InInv

(* The account of this turn, and what the turn does.                       *)
LEMMA TurnRead ==
  ASSUME InInv, CreateLease
  PROVE  LET i == created + 1
             a == resources[i]
         IN  /\ i \in 1..Len(resources) /\ i \in DOMAIN resources /\ created \in Nat
             /\ resources \in Configs
             /\ a \in Accounts /\ LeaseName(a.name) \in LeaseNames
             /\ MadeFrom(NewLease(a), LeaseName(a.name), a, Nobody)
             /\ NewLease(a).exists = TRUE
<1> DEFINE i == created + 1
           a == resources[i]
<1>1. i \in 1..Len(resources) /\ created \in Nat
  <2>1. Len(resources) \in Nat
    BY LengthRead DEF InInv, ReadOnce
  <2> QED
    BY <2>1 DEF InInv, TurnsDone, CreateLease
<1>2. /\ a \in Accounts /\ LeaseName(a.name) \in LeaseNames
      /\ resources \in Configs /\ i \in DOMAIN resources
  BY <1>1, AccountRead DEF InInv
<1>3. MadeFrom(NewLease(a), LeaseName(a.name), a, Nobody)
  BY NewIsMade
<1>4. NewLease(a).exists = TRUE
  BY <1>3, MadeFields
<1> QED
  BY <1>1, <1>2, <1>3, <1>4

LEMMA CreateLeaseKeeps ==
  ASSUME InInv, CreateLease
  PROVE  InInv'
<1> DEFINE i == created + 1
           a == resources[i]
           n == LeaseName(a.name)
<1>1. /\ i \in 1..Len(resources) /\ created \in Nat
      /\ a \in Accounts /\ n \in LeaseNames
      /\ MadeFrom(NewLease(a), n, a, Nobody)
      /\ NewLease(a).exists = TRUE
  BY TurnRead
<1>2. stage = "createLeases" /\ DOMAIN leases = LeaseNames
  BY DEF CreateLease, InInv, LeasesMade
<1>3. /\ leases' = IF leases[n].exists THEN leases ELSE [leases EXCEPT ![n] = NewLease(a)]
      /\ created' = i /\ UNCHANGED <<configMap, resources, stage, grants, opened, history>>
  BY DEF CreateLease, NextTurn
<1>4. \A m \in LeaseNames : leases[m].exists => leases'[m].exists
  BY <1>1, <1>2, <1>3
<1>5. leases'[n].exists
  BY <1>1, <1>2, <1>3
<1>6. TurnsDone'
  <2>1. ASSUME NEW j \in 1..i
        PROVE  leases'[LeaseName(resources[j].name)].exists
    <3>1. CASE j = i
      BY <1>5, <3>1
    <3>2. CASE j # i
      <4>1. j \in 1..created /\ j \in 1..Len(resources)
        <5>1. Len(resources) \in Nat
          BY LengthRead DEF InInv, ReadOnce
        <5> QED
          BY <1>1, <3>2, <5>1
      <4>2. leases[LeaseName(resources[j].name)].exists
        BY <1>2, <4>1 DEF InInv, TurnsDone
      <4>3. LeaseName(resources[j].name) \in LeaseNames
        BY <4>1, AccountRead DEF InInv
      <4> QED
        BY <1>4, <4>2, <4>3
    <3> QED
      BY <3>1, <3>2
  <2> HIDE DEF i
  <2>2. i \in 0..Len(resources)
    BY <1>1
  <2> QED
    BY <1>2, <1>3, <2>1, <2>2 DEF TurnsDone
<1>7. ReadOnce' /\ PastKept'
  BY <1>3, PastStays DEF InInv, ReadOnce
<1>8. CASE leases[n].exists
  BY <1>3, <1>6, <1>7, <1>8, KeepsLeases
<1>9. CASE ~leases[n].exists
  <2>1. leases' = [leases EXCEPT ![n] = NewLease(a)] /\ UNCHANGED <<grants, opened>>
    BY <1>3, <1>9
  <2>2. NewLease(a) = NoLeaseObject
        \/ \E b \in Accounts, h \in Claims \cup {Nobody} : MadeFrom(NewLease(a), n, b, h)
    BY <1>1
  <2> HIDE DEF a, n
  <2>3. LeasesMade'
    BY <1>1, <2>1, <2>2, OneLeaseMade DEF InInv
  <2>4. GrantsBacked'
    <3>1. \A c \in Claims : grants[c] # NoGrant => grants[c].lease # n
      BY <1>9 DEF InInv, GrantsBacked, Backed
    <3> QED
      BY <1>2, <2>1, <3>1 DEF InInv, GrantsBacked, Backed, Grants
  <2>5. OpenedReal'
    BY <2>1 DEF InInv, OpenedReal
  <2> QED
    BY <1>6, <1>7, <2>3, <2>4, <2>5 DEF InInv
<1> QED
  BY <1>8, <1>9

LEMMA FinishStartupKeeps ==
  ASSUME InInv, FinishStartup
  PROVE  InInv'
<1>1. TurnsDone' /\ ReadOnce' /\ PastKept'
  <2>1. /\ stage = "createLeases" /\ stage' = "ready"
        /\ UNCHANGED <<resources, read>>
        /\ since' = resources \/ since' = Join(since, resources)
    BY DEF FinishStartup
  <2>2. PastKept'
    BY <2>1, Apart DEF InInv, PastKept, Join
  <2> QED
    BY <2>2 DEF InInv, ReadOnce, TurnsDone, FinishStartup
<1>2. CASE UNCHANGED <<leases, grants, opened>>
  BY <1>1, <1>2, KeepsLeases
<1>3. CASE /\ opened' = opened \ CleanupAllClaims
           /\ leases' = [n \in LeaseNames |-> [leases[n] EXCEPT !.holder = Nobody]]
           /\ grants' = [c \in Claims |-> NoGrant]
  <2>1. \A n \in LeaseNames :
            \/ leases'[n] = NoLeaseObject
            \/ \E a \in Accounts : MadeFrom(leases'[n], n, a, Nobody)
    <3> SUFFICES ASSUME NEW n \in LeaseNames
                 PROVE  \/ leases'[n] = NoLeaseObject
                        \/ \E a \in Accounts : MadeFrom(leases'[n], n, a, Nobody)
      OBVIOUS
    <3>1. leases'[n] = [leases[n] EXCEPT !.holder = Nobody]
      BY <1>3
    <3>2. CASE leases[n] = NoLeaseObject
      <4>1. [NoLeaseObject EXCEPT !.holder = Nobody] = NoLeaseObject
        BY HeldAlready, Zenon DEF NoLeaseObject
      <4> QED
        BY <3>1, <3>2, <4>1
    <3>3. CASE \E a \in Accounts, h \in Claims \cup {Nobody} : MadeFrom(leases[n], n, a, h)
      BY <3>1, <3>3, ChangesHands
    <3> QED
      BY <3>2, <3>3 DEF InInv, LeasesMade
  <2>2. \A n \in LeaseNames : leases'[n] \in LeaseObjects
    BY <2>1, MadeIsObject DEF LeaseObjects
  <2>3. LeasesMade'
    BY <1>3, <2>1, <2>2 DEF LeasesMade, MadeFrom
  <2>4. GrantsBacked'
    BY <1>3 DEF GrantsBacked
  <2>5. OpenedReal'
    BY <1>3 DEF InInv, OpenedReal
  <2> QED
    BY <1>1, <2>3, <2>4, <2>5 DEF InInv
<1> QED
  BY <1>2, <1>3 DEF FinishStartup

(* What acquireLease has found when it grants g: a lease without holder,   *)
(* made from a, whose label leads to the account of g.                     *)
Found(c, a, g) ==
    /\ g \in Grants /\ g.lease \in LeaseNames /\ 2 * g.seconds <= g.request.duration
    /\ leases[g.lease].exists /\ leases[g.lease].holder = Nobody
    /\ MadeFrom(leases[g.lease], g.lease, a, Nobody)
    /\ matchesLabels(LeaseLabels(a), g.request.requiredLabels)
    /\ resources \in Configs
    /\ LabelsKept => g.account \in FirstNamed(resources, a.name) /\ g.account.name = a.name
    /\ leases' = [leases EXCEPT ![g.lease].holder = c]
    /\ grants' = [grants EXCEPT ![c] = g]
    /\ opened' = opened \cup {g.account.url}

LEMMA GrantFinds ==
  ASSUME InInv, NEW c \in Claims, NEW n \in LeaseNames, NEW request \in Requests,
         Grant(c, n, request)
  PROVE  \E a \in Accounts : \E g : Found(c, a, g)
<1> DEFINE v == leases[n]
<1>1. /\ v.exists /\ v.holder = Nobody
      /\ matchesLabels(v.labels, request.requiredLabels)
  BY DEF Grant, FindFreeLease
<1>2. v # NoLeaseObject
  BY <1>1 DEF NoLeaseObject
<1>3. PICK a \in Accounts, h \in Claims \cup {Nobody} : MadeFrom(v, n, a, h)
  BY <1>2 DEF InInv, LeasesMade
<1>4. v.labels = LeaseLabels(a) /\ h = Nobody
  BY <1>1, <1>3, MadeFields
<1>5. PICK account \in FirstNamed(resources, v.labels["name"]),
           s \in Seconds(request.duration) :
          /\ s > 0
          /\ leases' = [leases EXCEPT ![n].holder = c]
          /\ grants' = [grants EXCEPT ![c] =
                 [lease |-> n, account |-> account, request |-> request, seconds |-> s]]
          /\ opened' = opened \cup {account.url}
  BY DEF Grant, GetResource
<1>6. /\ account.name = v.labels["name"] /\ resources \in Configs
      /\ account \in Accounts
  <2>1. resources \in Configs \cup {<<>>}
    BY DEF InInv, ReadOnce
  <2> QED
    BY <1>5, <2>1, FirstIsOne DEF Accounts
<1>7. LabelsKept => account \in FirstNamed(resources, a.name) /\ account.name = a.name
  BY <1>3, <1>4, <1>5, <1>6, LabelOfName
<1>8. s \in 1..MaxInt32 /\ 2 * s <= request.duration
  BY <1>5, SecondsInRange, SecondsBounded, InventoryAssumption
<1> DEFINE g == [lease |-> n, account |-> account, request |-> request, seconds |-> s]
<1>9. g \in Grants
  BY <1>6, <1>8 DEF Grants
<1>10. g.lease = n /\ g.account = account /\ g.request = request /\ g.seconds = s
  OBVIOUS
<1>11. grants' = [grants EXCEPT ![c] = g]
  BY <1>5
<1> HIDE DEF g
<1>12. Found(c, a, g)
  BY <1>1, <1>3, <1>4, <1>5, <1>6, <1>7, <1>8, <1>9, <1>10, <1>11 DEF Found
<1> QED
  BY <1>12

(* A new holder of a lease: whoever had it before is gone or was nobody.   *)
LEMMA GrantKeeps ==
  ASSUME InInv, NEW c \in Claims, NEW n \in LeaseNames, NEW request \in Requests,
         Grant(c, n, request)
  PROVE  InInv'
<1>1. PICK a \in Accounts : \E g : Found(c, a, g)
  BY GrantFinds
<1>2. PICK g : Found(c, a, g)
  BY <1>1
<1> DEFINE m == g.lease
           w == [leases[m] EXCEPT !.holder = c]
<1>3. /\ m \in LeaseNames /\ leases[m].holder = Nobody
      /\ MadeFrom(leases[m], m, a, Nobody)
      /\ leases' = [leases EXCEPT ![m] = w]
      /\ grants' = [grants EXCEPT ![c] = g]
      /\ opened' = opened \cup {g.account.url}
      /\ g \in Grants /\ 2 * g.seconds <= g.request.duration
      /\ LabelsKept => g.account.name = a.name
  BY <1>2 DEF Found
<1>4. MadeFrom(w, m, a, c)
  BY <1>3, ChangesHands
<1>5. w.exists = TRUE /\ w.holder = c
  BY <1>4, MadeFields
<1>6. m = LeaseName(a.name)
  BY <1>3 DEF MadeFrom
<1> HIDE DEF w
<1>7. \A k \in LeaseNames : leases'[k] = IF k = m THEN w ELSE leases[k]
  BY <1>3 DEF InInv, LeasesMade
<1>8. LeasesMade'
  BY <1>3, <1>4, OneLeaseMade DEF InInv
<1>9. TurnsDone' /\ ReadOnce' /\ PastKept'
  BY PastStays DEF InInv, TurnsDone, ReadOnce, Grant
<1>10. GrantsBacked'
  <2>1. (grants \in [Claims -> Grants \cup {NoGrant}])'
    BY <1>3 DEF InInv, GrantsBacked
  <2>2. ASSUME NEW d \in Claims, grants'[d] # NoGrant
        PROVE  Backed(d, grants[d])'
    <3>1. CASE d = c
      <4>1. grants'[d] = g
        BY <1>3, <3>1 DEF InInv, GrantsBacked
      <4> QED
        BY <1>3, <1>5, <1>6, <1>7, <3>1, <4>1 DEF Backed
    <3>2. CASE d # c
      <4>1. grants'[d] = grants[d]
        BY <1>3, <3>2 DEF InInv, GrantsBacked
      <4>2. Backed(d, grants[d]) /\ grants[d].lease \in LeaseNames
        BY <2>2, <4>1 DEF InInv, GrantsBacked, Grants
      <4>3. grants[d].lease # m
        BY <1>3, <4>2, InventoryAssumption DEF Backed
      <4> QED
        BY <1>7, <4>1, <4>2, <4>3 DEF Backed
    <3> QED
      BY <3>1, <3>2
  <2> QED
    BY <2>1, <2>2 DEF GrantsBacked
<1>11. OpenedReal'
  BY <1>3 DEF InInv, OpenedReal, Grants
<1> QED
  BY <1>8, <1>9, <1>10, <1>11 DEF InInv

LEMMA ReleaseKeeps ==
  ASSUME InInv, NEW c \in Claims, Release(c)
  PROVE  InInv'
<1> DEFINE n == grants[c].lease
           w == [leases[n] EXCEPT !.holder = Nobody]
<1>1. /\ grants[c] # NoGrant
      /\ leases' = [leases EXCEPT ![n] = w]
      /\ grants' = [grants EXCEPT ![c] = NoGrant]
      /\ opened' \subseteq opened
      /\ UNCHANGED <<configMap, resources, created, stage, history>>
  BY DEF Release
<1>2. n \in LeaseNames /\ leases[n].exists /\ leases[n].holder = c
  BY <1>1 DEF InInv, GrantsBacked, Backed, Grants
<1>3. leases[n] # NoLeaseObject
  BY <1>2 DEF NoLeaseObject
<1>4. PICK a \in Accounts, h \in Claims \cup {Nobody} : MadeFrom(leases[n], n, a, h)
  BY <1>2, <1>3 DEF InInv, LeasesMade
<1>5. MadeFrom(w, n, a, Nobody)
  BY <1>4, ChangesHands
<1>6. w.exists = TRUE
  BY <1>5, MadeFields
<1> HIDE DEF n, w
<1>7. \A m \in LeaseNames : leases'[m] = IF m = n THEN w ELSE leases[m]
  BY <1>1 DEF InInv, LeasesMade
<1>8. LeasesMade'
  BY <1>1, <1>2, <1>5, OneLeaseMade DEF InInv
<1>9. TurnsDone' /\ ReadOnce' /\ PastKept'
  <2>1. \A m \in LeaseNames : leases[m].exists => leases'[m].exists
    BY <1>6, <1>7
  <2>2. stage = "ready"
    BY DEF Release
  <2> QED
    BY <1>1, <2>2, PastStays DEF InInv, TurnsDone, ReadOnce
<1>10. GrantsBacked'
  <2>1. (grants \in [Claims -> Grants \cup {NoGrant}])'
    BY <1>1 DEF InInv, GrantsBacked
  <2>2. ASSUME NEW d \in Claims, grants'[d] # NoGrant
        PROVE  Backed(d, grants[d])'
    <3>1. d # c /\ grants'[d] = grants[d]
      BY <1>1, <2>2 DEF InInv, GrantsBacked
    <3>2. Backed(d, grants[d]) /\ grants[d].lease \in LeaseNames
      BY <2>2, <3>1 DEF InInv, GrantsBacked, Grants
    <3>3. grants[d].lease # n
      BY <1>2, <3>1, <3>2 DEF Backed
    <3> QED
      BY <1>7, <3>1, <3>2, <3>3 DEF Backed
  <2> QED
    BY <2>1, <2>2 DEF GrantsBacked
<1>11. OpenedReal'
  BY <1>1 DEF InInv, OpenedReal
<1> QED
  BY <1>8, <1>9, <1>10, <1>11 DEF InInv

LEMMA DeleteLeaseKeeps ==
  ASSUME InInv, NEW n \in LeaseNames, DeleteLease(n)
  PROVE  InInv'
<1>1. /\ stage # "createLeases"
      /\ leases[n].holder = Nobody
      /\ leases' = [leases EXCEPT ![n] = NoLeaseObject]
      /\ UNCHANGED <<configMap, resources, created, stage, grants, opened, history>>
  BY DEF DeleteLease
<1>2. TurnsDone' /\ ReadOnce' /\ PastKept'
  BY <1>1, PastStays DEF InInv, TurnsDone, ReadOnce
<1>3. LeasesMade'
  BY <1>1, OneLeaseMade DEF InInv
<1>4. GrantsBacked'
  <2>1. \A m \in LeaseNames : m # n => leases'[m] = leases[m]
    BY <1>1 DEF InInv, LeasesMade
  <2> SUFFICES ASSUME NEW c \in Claims, grants[c] # NoGrant
               PROVE  Backed(c, grants[c])'
    BY <1>1 DEF InInv, GrantsBacked
  <2>2. Backed(c, grants[c]) /\ grants[c].lease \in LeaseNames
    BY DEF InInv, GrantsBacked, Grants
  <2>3. grants[c].lease # n
    BY <1>1, <2>2, InventoryAssumption DEF Backed
  <2> QED
    BY <1>1, <2>1, <2>2, <2>3 DEF Backed
<1>5. OpenedReal'
  BY <1>1 DEF InInv, OpenedReal
<1> QED
  BY <1>2, <1>3, <1>4, <1>5 DEF InInv

(* What can happen to the inventory, in cases.                             *)
LEMMA InInvStep == InInv /\ [InventoryNext]_inventoryVars => InInv'
<1> SUFFICES ASSUME InInv, [InventoryNext]_inventoryVars PROVE InInv'
  OBVIOUS
<1>1. CASE Initialize
  <2>1. ReadOnce' /\ UNCHANGED <<leases, grants, opened>>
    BY <1>1 DEF InInv, ReadOnce, Initialize, Valid, Configs
  <2>2. Len(resources') \in Nat
    BY <2>1, LengthRead DEF ReadOnce
  <2>3. TurnsDone'
    BY <1>1, <2>2 DEF Initialize, TurnsDone
  <2>4. PastKept'
    <3>1. /\ configMap \in Configs /\ resources' = configMap /\ stage' = "createLeases"
          /\ read' = Join(read, configMap) /\ since' = since
      BY <1>1 DEF Initialize, Valid, InInv, ReadOnce, Configs
    <3> QED
      BY <3>1, Apart DEF InInv, PastKept, Join
  <2> QED
    BY <2>1, <2>3, <2>4, KeepsLeases
<1>2. CASE Stop
  <2>1. ReadOnce' /\ TurnsDone' /\ UNCHANGED <<leases, grants, opened>>
    BY <1>2 DEF InInv, ReadOnce, TurnsDone, Stop
  <2>2. PastKept'
    BY <1>2, PastStays DEF InInv, PastKept, Stop, history
  <2> QED
    BY <2>1, <2>2, KeepsLeases
<1>3. CASE EditConfig
  <2>1. ReadOnce' /\ TurnsDone' /\ UNCHANGED <<leases, grants, opened>>
    BY <1>3 DEF InInv, ReadOnce, TurnsDone, EditConfig
  <2>2. PastKept'
    BY <1>3, PastStays DEF InInv, PastKept, EditConfig, history
  <2> QED
    BY <2>1, <2>2, KeepsLeases
<1>4. CASE UNCHANGED inventoryVars
  <2>1. ReadOnce' /\ TurnsDone' /\ UNCHANGED <<leases, grants, opened>>
    BY <1>4 DEF InInv, ReadOnce, TurnsDone, inventoryVars
  <2>2. PastKept'
    BY <1>4, PastStays DEF InInv, PastKept, inventoryVars, history
  <2> QED
    BY <2>1, <2>2, KeepsLeases
<1>5. CASE \E c \in Claims, n \in LeaseNames, request \in Requests : Grant(c, n, request)
  BY <1>5, GrantKeeps
<1>6. CASE \E c \in Claims : Release(c)
  BY <1>6, ReleaseKeeps
<1>7. CASE \E n \in LeaseNames : DeleteLease(n)
  BY <1>7, DeleteLeaseKeeps
<1> QED
  BY <1>1, <1>2, <1>3, <1>4, <1>5, <1>6, <1>7, CreateLeaseKeeps, FinishStartupKeeps
  DEF InventoryNext

(* The inductive invariant, whatever was edited, deleted and restarted: a  *)
(* lease has the labels of an account of its name from one of the possible *)
(* configurations, a granted lease has its claim as holder, and the loop   *)
(* of a startup leaves no account behind it without a lease.               *)
LEMMA LeasesStayMade == InventorySpec => []InInv
  BY InInvInit, InInvStep, PTL DEF InventorySpec

(* Every state of the inventory has its type: a lease of zero or fewer     *)
(* seconds is never granted.                                               *)
THEOREM InventoryTypeCorrect == InventorySpec => []InventoryTypeOK
<1>1. InInv => InventoryTypeOK
  BY DEF InInv, ReadOnce, LeasesMade, GrantsBacked, OpenedReal, TurnsDone, PastKept,
     InventoryTypeOK
<1> QED
  BY <1>1, LeasesStayMade, PTL

(* No lease is longer than what its claim asked for, whatever number of    *)
(* seconds an int32 makes of it.                                           *)
THEOREM NeverTooLong == InventorySpec => []LeaseNotTooLong
<1>1. InInv => LeaseNotTooLong
  BY DEF InInv, GrantsBacked, Granted, Backed, LeaseNotTooLong
<1> QED
  BY <1>1, LeasesStayMade, PTL

(* A process that gets through its startup has a lease for every account   *)
(* it read, wherever earlier ones stopped.                                 *)
THEOREM StartupCreatesAll == InventorySpec => EveryAccountHasLease
<1>1. InInv /\ [InventoryNext]_inventoryVars =>
          [stage = "createLeases" /\ stage' = "ready" =>
              \A i \in DOMAIN resources :
                  leases[LeaseName(resources[i].name)].exists]_inventoryVars
  <2> SUFFICES ASSUME InInv, [InventoryNext]_inventoryVars,
                      stage = "createLeases", stage' = "ready",
                      NEW i \in DOMAIN resources
               PROVE  leases[LeaseName(resources[i].name)].exists
    OBVIOUS
  <2>1. FinishStartup
    BY DEF InventoryNext, Initialize, CreateLease, Stop, Grant, Release, EditConfig,
           DeleteLease, inventoryVars
  <2>2. created = Len(resources)
    BY <2>1 DEF FinishStartup
  <2>3. i \in 1..Len(resources)
    BY LengthRead DEF InInv, ReadOnce
  <2> QED
    BY <2>2, <2>3 DEF InInv, TurnsDone
<1> QED
  BY <1>1, LeasesStayMade, PTL DEF InventorySpec, EveryAccountHasLease

-----------------------------------------------------------------------------
(* Which account a grant is for.                                           *)

(* No account is granted twice, whatever was configured before.            *)
Once == \A c, d \in Granted : c # d => grants[c].account.url # grants[d].account.url

(* Of the accounts r, those that are granted are the ones that the         *)
(* look-ups find, and only they have keys.                                 *)
Held(r) ==
    /\ \A c \in Granted : grants[c].account \in FirstNamed(r, grants[c].account.name)
    /\ opened \cap Urls(r) = GrantedUrls

LEMMA HeldStays ==
  ASSUME NEW r, Held(r), UNCHANGED <<grants, opened>>
  PROVE  Held(r)'
  BY DEF Held, Granted, GrantedUrls, Urls, FirstNamed

LEMMA OnceStays ==
  ASSUME Once, UNCHANGED grants
  PROVE  Once'
  BY DEF Once, Granted

(* The account of a new grant is nobody else's: another claim that had it  *)
(* would have it under the same name, and so the lease.                    *)
LEMMA GrantHolds ==
  ASSUME WellNamed, InInv, Once, Held(resources),
         NEW c \in Claims, NEW n \in LeaseNames, NEW request \in Requests,
         Grant(c, n, request)
  PROVE  /\ Once' /\ Held(resources)'
         /\ opened \subseteq GrantedUrls => (opened \subseteq GrantedUrls)'
<1>1. PICK a \in Accounts : \E g : Found(c, a, g)
  BY GrantFinds
<1>2. PICK g : Found(c, a, g)
  BY <1>1
<1>3. LabelsKept
  BY DEF WellNamed
<1>4. /\ g.account \in FirstNamed(resources, a.name) /\ g.account.name = a.name
      /\ resources \in Configs
      /\ g.lease \in LeaseNames /\ g.lease = LeaseName(a.name)
      /\ leases[g.lease].holder = Nobody
      /\ g \in Grants
      /\ grants' = [grants EXCEPT ![c] = g]
      /\ opened' = opened \cup {g.account.url}
  BY <1>2, <1>3 DEF Found, MadeFrom
<1>5. resources' = resources /\ grants[c] = NoGrant
  BY DEF Grant
<1>6. \A d \in Claims : grants'[d] = IF d = c THEN g ELSE grants[d]
  BY <1>4 DEF InInv, GrantsBacked
<1>7. Granted' = Granted \cup {c} /\ c \notin Granted
  BY <1>4, <1>5, <1>6, NoGrantAssumption DEF Granted
<1>8. PICK i \in DOMAIN resources : g.account = resources[i]
  BY <1>4, FirstIsOne
<1>9. ASSUME NEW d \in Granted
      PROVE  grants[d].account.url # g.account.url
  <2>1. grants[d].account \in FirstNamed(resources, grants[d].account.name)
    BY DEF Held
  <2>2. PICK j \in DOMAIN resources : grants[d].account = resources[j]
    BY <1>4, <2>1, FirstIsOne
  <2>3. Backed(d, grants[d]) /\ d \in Claims
    BY DEF InInv, GrantsBacked, Granted
  <2>4. grants[d].lease = LeaseName(grants[d].account.name) /\ leases[grants[d].lease].holder = d
    BY <1>3, <2>3 DEF Backed
  <2>5. grants[d].account.name # g.account.name
    BY <1>4, <2>3, <2>4, InventoryAssumption
  <2>6. resources[j].url = resources[i].url => resources[j].name = resources[i].name
    BY <1>4, <1>8, <2>2 DEF WellNamed
  <2> QED
    BY <1>8, <2>2, <2>5, <2>6
<1>10. Once'
  <2> SUFFICES ASSUME NEW d \in Granted', NEW e \in Granted', d # e
               PROVE  grants'[d].account.url # grants'[e].account.url
    BY DEF Once
  <2>1. d \in Claims /\ e \in Claims
    BY DEF Granted
  <2>2. CASE d = c
    BY <1>6, <1>7, <1>9, <2>1, <2>2
  <2>3. CASE e = c
    BY <1>6, <1>7, <1>9, <2>1, <2>3
  <2>4. CASE d # c /\ e # c
    BY <1>6, <1>7, <2>1, <2>4 DEF Once
  <2> QED
    BY <2>2, <2>3, <2>4
<1>11. GrantedUrls' = GrantedUrls \cup {g.account.url}
  <2>1. \A u : u \in GrantedUrls' <=> \E d \in Granted' : u = grants'[d].account.url
    BY DEF GrantedUrls
  <2>2. \A u : u \in GrantedUrls <=> \E d \in Granted : u = grants[d].account.url
    BY DEF GrantedUrls
  <2>3. \A d \in Granted : grants'[d] = grants[d] /\ d # c
    BY <1>6, <1>7 DEF Granted
  <2>4. grants'[c] = g
    BY <1>6
  <2>5. \A u : u \in GrantedUrls' <=> u \in GrantedUrls \/ u = g.account.url
    BY <1>7, <2>1, <2>2, <2>3, <2>4
  <2> QED
    BY <2>5
<1>12. Held(resources)'
  <2>1. ASSUME NEW d \in Granted'
        PROVE  grants'[d].account \in FirstNamed(resources, grants'[d].account.name)
    <3>1. d \in Claims
      BY DEF Granted
    <3>2. CASE d = c
      BY <1>4, <1>6, <3>1, <3>2
    <3>3. CASE d # c
      BY <1>6, <1>7, <3>1, <3>3 DEF Held
    <3> QED
      BY <3>2, <3>3
  <2>2. g.account.url \in Urls(resources)
    BY <1>8 DEF Urls
  <2>3. opened' \cap Urls(resources) = GrantedUrls'
    BY <1>4, <1>11, <2>2 DEF Held
  <2> QED
    BY <1>5, <2>1, <2>3 DEF Held, Urls, FirstNamed
<1> QED
  BY <1>4, <1>10, <1>11, <1>12

(* The account that is cleaned up is the one that was provisioned.         *)
LEMMA ReleaseHolds ==
  ASSUME WellNamed, InInv, Once, Held(resources),
         NEW c \in Claims, Release(c)
  PROVE  /\ Once' /\ Held(resources)'
         /\ opened \subseteq GrantedUrls => (opened \subseteq GrantedUrls)'
<1> DEFINE g == grants[c]
<1>1. /\ g # NoGrant
      /\ opened' = opened \ {b.url : b \in FirstNamed(resources, CutName(g.lease))}
      /\ grants' = [grants EXCEPT ![c] = NoGrant]
      /\ resources' = resources
  BY DEF Release, GetResource
<1>2. c \in Granted
  BY <1>1 DEF Granted
<1>3. g.account \in FirstNamed(resources, g.account.name)
  BY <1>2 DEF Held
<1>4. CutName(g.lease) = g.account.name
  <2>1. g.lease = LeaseName(g.account.name)
    BY <1>1 DEF InInv, GrantsBacked, Backed, WellNamed
  <2>2. g.account \in Accounts
    BY <1>1 DEF InInv, GrantsBacked, Grants
  <2>3. g.account.name \in Seq(STRING)
    BY <2>2, LabelOfName DEF WellNamed
  <2> QED
    BY <2>1, <2>3, CutIsName
<1> HIDE DEF g
<1>5. {b.url : b \in FirstNamed(resources, g.account.name)} = {g.account.url}
  <2>1. resources \in Configs \cup {<<>>}
    BY DEF InInv, ReadOnce
  <2>2. \A b \in FirstNamed(resources, g.account.name) : g.account = b
    BY <1>3, <2>1, FirstIsOne
  <2> QED
    BY <1>3, <2>2
<1>6. opened' = opened \ {g.account.url}
  BY <1>1, <1>4, <1>5
<1>7. /\ Granted' = Granted \ {c}
      /\ \A d \in Granted' : grants'[d] = grants[d] /\ d \in Granted /\ d # c
  BY <1>1 DEF InInv, GrantsBacked, Granted
<1>8. Once'
  BY <1>7 DEF Once
<1>9. GrantedUrls' = GrantedUrls \ {g.account.url}
  <2>1. \A u : u \in GrantedUrls' <=> \E d \in Granted' : u = grants'[d].account.url
    BY DEF GrantedUrls
  <2>2. \A u : u \in GrantedUrls <=> \E d \in Granted : u = grants[d].account.url
    BY DEF GrantedUrls
  <2>3. \A d \in Granted : d # c => grants[d].account.url # g.account.url
    BY <1>2 DEF Once, g
  <2>4. grants[c] = g
    BY DEF g
  <2>5. \A u : u \in GrantedUrls' <=> u \in GrantedUrls /\ u # g.account.url
    BY <1>2, <1>7, <2>1, <2>2, <2>3, <2>4
  <2> QED
    BY <2>5
<1>10. Held(resources)'
  <2>1. \A d \in Granted' : grants'[d].account \in FirstNamed(resources, grants'[d].account.name)
    BY <1>7 DEF Held
  <2>2. opened' \cap Urls(resources) = GrantedUrls'
    BY <1>6, <1>9 DEF Held
  <2> QED
    BY <1>1, <2>1, <2>2 DEF Held, Urls, FirstNamed
<1> QED
  BY <1>6, <1>8, <1>9, <1>10

(* The startup cleanup takes back everything.                              *)
LEMMA CleanupHolds ==
  ASSUME opened' = opened \ CleanupAllClaims, grants' = [c \in Claims |-> NoGrant],
         resources' = resources
  PROVE  Once' /\ Held(resources)' /\ GrantedUrls' = {}
<1>1. Granted' = {}
  BY DEF Granted
<1>2. GrantedUrls' = {}
  BY <1>1 DEF GrantedUrls
<1>3. Once'
  BY <1>1 DEF Once
<1>4. opened' \cap Urls(resources) = {}
  BY DEF CleanupAllClaims
<1> QED
  BY <1>1, <1>2, <1>3, <1>4 DEF Held, Urls

(* All but three actions leave the grants and the keys alone.              *)
LEMMA OtherSteps ==
  ASSUME [InventoryNext]_inventoryVars
  PROVE  \/ \E c \in Claims, n \in LeaseNames, request \in Requests : Grant(c, n, request)
         \/ \E c \in Claims : Release(c)
         \/ FinishStartup
         \/ Initialize
         \/ UNCHANGED <<grants, opened, history>>
  BY DEF InventoryNext, inventoryVars, CreateLease, Stop, EditConfig, DeleteLease

-----------------------------------------------------------------------------
(* The accounts that are granted are those of the one configuration that   *)
(* claims have been served with, if there is one, and no other account has *)
(* a key if no other configuration was ever read.                          *)
SinceHeld ==
    /\ since = NoConfig => Granted = {} /\ opened = {}
    /\ since \in Configs => Once /\ Held(since)

ReadHeld == read # Several => opened \subseteq GrantedUrls

LEMMA HeldInit == InventoryInit => SinceHeld /\ ReadHeld
  BY Apart DEF InventoryInit, SinceHeld, ReadHeld, Granted

LEMMA HeldStep ==
  ASSUME WellNamed, InInv, SinceHeld, ReadHeld, [InventoryNext]_inventoryVars
  PROVE  SinceHeld' /\ ReadHeld'
<1>1. CASE UNCHANGED <<grants, opened, history>>
  <2>1. UNCHANGED <<grants, opened, read, since>>
    BY <1>1 DEF history
  <2> QED
    BY <2>1, OnceStays DEF SinceHeld, ReadHeld, Held, Granted, GrantedUrls, Urls, FirstNamed
<1>2. CASE Initialize
  <2>1. UNCHANGED <<grants, opened, since>> /\ read' = Join(read, configMap)
        /\ configMap \in Configs
    BY <1>2 DEF Initialize, Valid, InInv, ReadOnce, Configs
  <2>2. SinceHeld'
    BY <2>1, OnceStays DEF SinceHeld, Held, Granted, GrantedUrls, Urls, FirstNamed
  <2>3. read' # Several => read # Several
    BY <2>1, Apart DEF Join
  <2> QED
    BY <2>1, <2>2, <2>3 DEF ReadHeld, GrantedUrls, Granted
<1>3. ASSUME stage = "ready"
      PROVE  /\ since \in {resources, Several} /\ resources \in Configs
             /\ read # Several => since = resources
  BY <1>3, Apart DEF InInv, PastKept
<1>4. CASE \E c \in Claims, n \in LeaseNames, request \in Requests : Grant(c, n, request)
  <2>1. stage = "ready" /\ UNCHANGED <<resources, read, since>>
    BY <1>4 DEF Grant, history
  <2>2. CASE since = Several
    BY <1>3, <2>1, <2>2, Apart DEF SinceHeld, ReadHeld
  <2>3. CASE since = resources
    <3>1. Once /\ Held(resources)
      BY <1>3, <2>1, <2>3 DEF SinceHeld
    <3>2. /\ Once' /\ Held(resources)'
          /\ opened \subseteq GrantedUrls => (opened \subseteq GrantedUrls)'
      BY <1>4, <3>1, GrantHolds
    <3> QED
      BY <1>3, <2>1, <2>3, <3>2, Apart DEF SinceHeld, ReadHeld
  <2> QED
    BY <1>3, <2>1, <2>2, <2>3
<1>5. CASE \E c \in Claims : Release(c)
  <2>1. stage = "ready" /\ UNCHANGED <<resources, read, since>>
    BY <1>5 DEF Release, history
  <2>2. CASE since = Several
    BY <1>3, <2>1, <2>2, Apart DEF SinceHeld, ReadHeld
  <2>3. CASE since = resources
    <3>1. Once /\ Held(resources)
      BY <1>3, <2>1, <2>3 DEF SinceHeld
    <3>2. /\ Once' /\ Held(resources)'
          /\ opened \subseteq GrantedUrls => (opened \subseteq GrantedUrls)'
      BY <1>5, <3>1, ReleaseHolds
    <3> QED
      BY <1>3, <2>1, <2>3, <3>2, Apart DEF SinceHeld, ReadHeld
  <2> QED
    BY <1>3, <2>1, <2>2, <2>3
<1>6. CASE FinishStartup
  <2>1. /\ stage = "createLeases" /\ UNCHANGED <<resources, read>>
        /\ resources \in Configs /\ read \in {resources, Several}
        /\ since \in {NoConfig, read} \/ read = Several
    BY <1>6 DEF FinishStartup, InInv, PastKept
  <2>2. CASE UNCHANGED <<grants, opened>> /\ since' = Join(since, resources)
    <3>1. ReadHeld'
      BY <2>1, <2>2 DEF ReadHeld, GrantedUrls, Granted
    <3>2. CASE since = NoConfig
      <4>1. Granted = {} /\ GrantedUrls = {} /\ opened = {}
        BY <3>2 DEF SinceHeld, GrantedUrls
      <4>2. Once /\ Held(resources)
        BY <4>1 DEF Once, Held
      <4>3. since' = resources
        BY <2>2, <3>2 DEF Join
      <4>4. Once' /\ Held(resources)'
        BY <2>1, <2>2, <4>2, OnceStays, HeldStays DEF Held, Urls, FirstNamed
      <4> QED
        BY <2>1, <3>1, <4>3, <4>4, Apart DEF SinceHeld, Held, Urls, FirstNamed
    <3>3. CASE since = resources
      <4>1. since' = resources
        BY <2>2, <3>3 DEF Join
      <4>2. Once' /\ Held(resources)'
        BY <2>1, <2>2, <3>3, OnceStays DEF SinceHeld, Held, Granted, GrantedUrls, Urls, FirstNamed
      <4> QED
        BY <2>1, <3>1, <4>1, <4>2, Apart DEF SinceHeld, Held, Urls, FirstNamed
    <3>4. CASE since \notin {NoConfig, resources}
      BY <2>2, <3>1, <3>4, Apart DEF SinceHeld, Join
    <3> QED
      BY <3>2, <3>3, <3>4
  <2>3. CASE /\ opened' = opened \ CleanupAllClaims /\ grants' = [c \in Claims |-> NoGrant]
             /\ since' = resources
    <3>1. Once' /\ Held(resources)' /\ GrantedUrls' = {}
      BY <2>1, <2>3, CleanupHolds
    <3>2. SinceHeld'
      BY <2>1, <2>3, <3>1, Apart DEF SinceHeld, Held, Urls, FirstNamed
    <3>3. read' # Several => opened' = {}
      <4> SUFFICES ASSUME read # Several PROVE opened' = {}
        BY <2>1
      <4>1. CASE since = NoConfig
        BY <2>3, <4>1 DEF SinceHeld
      <4>2. CASE since = resources
        <5>1. opened \subseteq GrantedUrls /\ opened \cap Urls(resources) = GrantedUrls
          BY <2>1, <4>2 DEF SinceHeld, ReadHeld, Held
        <5> QED
          BY <2>3, <5>1 DEF CleanupAllClaims
      <4> QED
        BY <2>1, <4>1, <4>2
    <3> QED
      BY <3>2, <3>3 DEF ReadHeld
  <2> QED
    BY <1>6, <2>2, <2>3 DEF FinishStartup
<1> QED
  BY <1>1, <1>2, <1>4, <1>5, <1>6, OtherSteps

LEMMA HeldCorrect ==
  WellNamed => (InventorySpec => [](InInv /\ SinceHeld /\ ReadHeld))
<1> SUFFICES ASSUME WellNamed PROVE InventorySpec => [](InInv /\ SinceHeld /\ ReadHeld)
  OBVIOUS
<1>1. InInv /\ SinceHeld /\ ReadHeld /\ [InventoryNext]_inventoryVars
          => SinceHeld' /\ ReadHeld'
  BY HeldStep
<1> QED
  BY <1>1, HeldInit, LeasesStayMade, PTL DEF InventorySpec

(* Of configurations that name no account twice, with no label in place of *)
(* a resource's name: no account goes to two claims while claims have been *)
(* served with one configuration since the last startup cleanup.           *)
THEOREM NoAccountTwice == WellNamed => (InventorySpec => []AccountGrantedOnce)
<1>1. InInv /\ SinceHeld => AccountGrantedOnce
  <2> SUFFICES ASSUME InInv, SinceHeld, since # Several PROVE Once
    BY DEF AccountGrantedOnce, Once
  <2>1. since = NoConfig \/ since \in Configs
    BY DEF InInv, PastKept
  <2> QED
    BY <2>1 DEF SinceHeld, Once
<1> QED
  BY <1>1, HeldCorrect, PTL

(* Under the same conditions, the accounts of a serving operator that have *)
(* a key are those that claims have: what handleDeletion cleans up is the  *)
(* account that acquireLease provisioned.                                  *)
THEOREM CleansWhatItProvisioned == WellNamed => (InventorySpec => []ConfiguredAreClean)
<1>1. InInv /\ SinceHeld => ConfiguredAreClean
  <2> SUFFICES ASSUME InInv, SinceHeld, stage = "ready", since # Several
               PROVE  opened \cap Urls(resources) = GrantedUrls
    BY DEF ConfiguredAreClean
  <2>1. since = resources /\ resources \in Configs
    BY DEF InInv, PastKept
  <2> QED
    BY <2>1 DEF SinceHeld, Held
<1> QED
  BY <1>1, HeldCorrect, PTL

(* Of such configurations, and while only one has ever been read: no       *)
(* account at all has a key that no claim has.                             *)
THEOREM NoKeyLeftOver == WellNamed => (InventorySpec => []NothingLeftOpen)
<1>1. ReadHeld => NothingLeftOpen
  BY DEF ReadHeld, NothingLeftOpen
<1> QED
  BY <1>1, HeldCorrect, PTL

-----------------------------------------------------------------------------
(* The labels of the account.                                              *)

(* The labels of a lease are those of the first account of a name.         *)
OfFirst(labels, cm) ==
    \E a \in Accounts : a \in FirstNamed(cm, a.name) /\ labels = LeaseLabels(a)

Suits(g) == LET r == g.request.requiredLabels IN
            MatchesLabels(g.account, [k \in DOMAIN r \ {"type", "name"} |-> r[k]])

LabelsInv ==
    read # Several =>
        /\ \A n \in LeaseNames :
               leases[n].exists => read \in Configs /\ OfFirst(leases[n].labels, read)
        /\ \A c \in Granted : Suits(grants[c])

LEMMA LabelsInit == InventoryInit => LabelsInv
  BY DEF InventoryInit, LabelsInv, NoLeaseObject, Granted

(* Nothing to show if no lease is new and no grant is.                     *)
LEMMA NothingNew ==
  ASSUME LabelsInv, read' = read,
         \A n \in LeaseNames : leases'[n].exists =>
             leases[n].exists /\ leases'[n].labels = leases[n].labels,
         \A c \in Granted' : c \in Granted /\ grants'[c] = grants[c]
  PROVE  LabelsInv'
<1> SUFFICES ASSUME read # Several PROVE LabelsInv'
  BY DEF LabelsInv
<1>1. ASSUME NEW n \in LeaseNames, leases'[n].exists
      PROVE  read' \in Configs /\ OfFirst(leases'[n].labels, read')
  BY <1>1 DEF LabelsInv
<1>2. ASSUME NEW c \in Granted' PROVE Suits(grants'[c])
  BY <1>2 DEF LabelsInv
<1> QED
  BY <1>1, <1>2 DEF LabelsInv

(* A lease keeps its labels when it changes hands.                         *)
LEMMA LabelsStay ==
  ASSUME LeasesMade, NEW n \in LeaseNames, NEW h
  PROVE  LET v == [leases[n] EXCEPT !.holder = h]
         IN  v.exists = leases[n].exists /\ v.labels = leases[n].labels
<1>1. CASE leases[n] = NoLeaseObject
  BY <1>1 DEF NoLeaseObject
<1>2. CASE \E a \in Accounts, k \in Claims \cup {Nobody} : MadeFrom(leases[n], n, a, k)
  <2>1. PICK a \in Accounts, k \in Claims \cup {Nobody} : MadeFrom(leases[n], n, a, k)
    BY <1>2
  <2> DEFINE v == [leases[n] EXCEPT !.holder = h]
  <2>2. MadeFrom(v, n, a, h)
    BY <2>1, ChangesHands
  <2> QED
    BY <2>1, <2>2, MadeFields
<1> QED
  BY <1>1, <1>2 DEF LeasesMade

(* The startup comes to the first account of a name first.                 *)
LEMMA CreateLeaseFirst ==
  ASSUME InInv, LabelsInv, CreateLease
  PROVE  LabelsInv'
<1> DEFINE i == created + 1
           a == resources[i]
           m == LeaseName(a.name)
<1>1. /\ i \in DOMAIN resources /\ created \in Nat /\ resources \in Configs
      /\ a \in Accounts /\ m \in LeaseNames
      /\ MadeFrom(NewLease(a), m, a, Nobody)
  BY TurnRead
<1>2. /\ stage = "createLeases"
      /\ leases' = IF leases[m].exists THEN leases ELSE [leases EXCEPT ![m] = NewLease(a)]
      /\ UNCHANGED <<grants, read>>
  BY DEF CreateLease, history
<1>3. CASE leases[m].exists
  BY <1>2, <1>3, NothingNew DEF Granted
<1>4. CASE ~leases[m].exists
  <2> SUFFICES ASSUME read # Several PROVE LabelsInv'
    BY <1>2 DEF LabelsInv
  <2>1. read = resources
    BY <1>2 DEF InInv, PastKept
  <2>2. \A k \in 1..created : resources[k].name # a.name
    BY <1>2, <1>4 DEF InInv, TurnsDone
  <2>3. 1..(i - 1) = 1..created
    BY <1>1
  <2> HIDE DEF i
  <2>4. a \in FirstNamed(resources, a.name)
    BY <1>1, <2>2, <2>3 DEF FirstNamed
  <2> HIDE DEF a, m
  <2>5. \A n \in LeaseNames : leases'[n] = IF n = m THEN NewLease(a) ELSE leases[n]
    BY <1>2, <1>4 DEF InInv, LeasesMade
  <2>6. OfFirst(NewLease(a).labels, resources)
    BY <1>1, <2>4, MadeFields DEF OfFirst
  <2>7. ASSUME NEW n \in LeaseNames, leases'[n].exists
        PROVE  read' \in Configs /\ OfFirst(leases'[n].labels, read')
    <3>1. CASE n = m
      BY <1>1, <1>2, <2>1, <2>5, <2>6, <3>1
    <3>2. CASE n # m
      BY <1>2, <2>5, <2>7, <3>2 DEF LabelsInv
    <3> QED
      BY <3>1, <3>2
  <2>8. ASSUME NEW c \in Granted' PROVE Suits(grants'[c])
    BY <1>2, <2>8 DEF LabelsInv, Granted
  <2> QED
    BY <2>7, <2>8 DEF LabelsInv
<1> QED
  BY <1>3, <1>4

(* The account that is found by name is the one the lease was made from.   *)
LEMMA GrantSuits ==
  ASSUME LabelsKept, InInv, LabelsInv,
         NEW c \in Claims, NEW n \in LeaseNames, NEW request \in Requests,
         Grant(c, n, request)
  PROVE  LabelsInv'
<1>1. PICK a \in Accounts : \E g : Found(c, a, g)
  BY GrantFinds
<1>2. PICK g : Found(c, a, g)
  BY <1>1
<1>3. /\ g.account \in FirstNamed(resources, a.name)
      /\ resources \in Configs
      /\ g.lease \in LeaseNames /\ leases[g.lease].exists
      /\ MadeFrom(leases[g.lease], g.lease, a, Nobody)
      /\ matchesLabels(LeaseLabels(a), g.request.requiredLabels)
      /\ leases' = [leases EXCEPT ![g.lease].holder = c]
      /\ grants' = [grants EXCEPT ![c] = g]
  BY <1>2 DEF Found
<1>4. stage = "ready" /\ read' = read
  BY DEF Grant, history
<1>5. read # Several => Suits(g)
  <2> SUFFICES ASSUME read # Several PROVE Suits(g)
    OBVIOUS
  <2>1. read = resources
    BY <1>4 DEF InInv, PastKept
  <2>2. PICK b \in Accounts : /\ b \in FirstNamed(read, b.name)
                              /\ leases[g.lease].labels = LeaseLabels(b)
    BY <1>3 DEF LabelsInv, OfFirst
  <2>3. LeaseLabels(a) = LeaseLabels(b)
    BY <1>3, <2>2, MadeFields
  <2>4. a.name = b.name
    BY <2>2, <2>3, LabelOfName
  <2>5. g.account = b
    BY <1>3, <2>1, <2>2, <2>4, FirstIsOne
  <2> QED
    BY <1>3, <2>3, <2>5, FoundSuits DEF Suits
<1>6. \A k \in LeaseNames : /\ leases'[k].exists = leases[k].exists
                            /\ leases'[k].labels = leases[k].labels
  <2> DEFINE w == [leases[g.lease] EXCEPT !.holder = c]
  <2>1. w.exists = leases[g.lease].exists /\ w.labels = leases[g.lease].labels
    BY <1>3, LabelsStay DEF InInv
  <2>2. leases' = [leases EXCEPT ![g.lease] = w]
    BY <1>3
  <2> HIDE DEF w
  <2> QED
    BY <1>3, <2>1, <2>2 DEF InInv, LeasesMade
<1> SUFFICES ASSUME read # Several PROVE LabelsInv'
  BY <1>4 DEF LabelsInv
<1>7. ASSUME NEW n2 \in LeaseNames, leases'[n2].exists
      PROVE  read' \in Configs /\ OfFirst(leases'[n2].labels, read')
  BY <1>4, <1>6, <1>7 DEF LabelsInv
<1>8. ASSUME NEW d \in Granted' PROVE Suits(grants'[d])
  <2>1. \A e \in Claims : grants'[e] = IF e = c THEN g ELSE grants[e]
    BY <1>3 DEF InInv, GrantsBacked
  <2>2. CASE d = c
    BY <1>5, <2>1, <2>2
  <2>3. CASE d # c
    BY <1>8, <2>1, <2>3 DEF LabelsInv, Granted
  <2> QED
    BY <2>2, <2>3
<1> QED
  BY <1>7, <1>8 DEF LabelsInv

LEMMA LabelsStep ==
  ASSUME LabelsKept, InInv, LabelsInv, [InventoryNext]_inventoryVars
  PROVE  LabelsInv'
<1>1. CASE Initialize
  <2>1. UNCHANGED <<leases, grants>> /\ read' = Join(read, configMap)
        /\ configMap \in Configs
    BY <1>1 DEF Initialize, Valid, InInv, ReadOnce, Configs
  <2>2. CASE read' = read
    BY <2>1, <2>2, NothingNew DEF Granted
  <2>3. CASE read' # read
    <3> SUFFICES ASSUME read' # Several PROVE LabelsInv'
      BY DEF LabelsInv
    <3>1. read = NoConfig
      BY <2>1, <2>3 DEF Join
    <3>2. (\A n \in LeaseNames : ~leases[n].exists) /\ \A c \in Granted : Suits(grants[c])
      BY <3>1, Apart DEF LabelsInv
    <3> QED
      BY <2>1, <3>2 DEF LabelsInv, Granted
  <2> QED
    BY <2>2, <2>3
<1>2. CASE UNCHANGED <<leases, grants, history>>
  BY <1>2, NothingNew DEF Granted, history
<1>3. CASE FinishStartup
  <2>1. UNCHANGED read
    BY <1>3 DEF FinishStartup
  <2>2. CASE UNCHANGED <<leases, grants>>
    BY <2>1, <2>2, NothingNew DEF Granted
  <2>3. CASE /\ leases' = [n \in LeaseNames |-> [leases[n] EXCEPT !.holder = Nobody]]
             /\ grants' = [c \in Claims |-> NoGrant]
    <3>1. Granted' = {}
      BY <2>3 DEF Granted
    <3>2. \A n \in LeaseNames : /\ leases'[n].exists = leases[n].exists
                                /\ leases'[n].labels = leases[n].labels
      BY <2>3, LabelsStay DEF InInv
    <3> QED
      BY <2>1, <3>1, <3>2, NothingNew
  <2> QED
    BY <1>3, <2>2, <2>3 DEF FinishStartup
<1>4. CASE \E c \in Claims : Release(c)
  <2>1. PICK c \in Claims : Release(c)
    BY <1>4
  <2> DEFINE m == grants[c].lease
             w == [leases[m] EXCEPT !.holder = Nobody]
  <2>2. /\ leases' = [leases EXCEPT ![m] = w]
        /\ grants' = [grants EXCEPT ![c] = NoGrant]
        /\ read' = read
    BY <2>1 DEF Release, history
  <2>3. m \in LeaseNames
    BY <2>1 DEF Release, InInv, GrantsBacked, Grants
  <2>4. w.exists = leases[m].exists /\ w.labels = leases[m].labels
    BY <2>3, LabelsStay DEF InInv
  <2> HIDE DEF m, w
  <2>5. \A d \in Granted' : d \in Granted /\ grants'[d] = grants[d]
    BY <2>2 DEF InInv, GrantsBacked, Granted
  <2>6. \A k \in LeaseNames : /\ leases'[k].exists = leases[k].exists
                              /\ leases'[k].labels = leases[k].labels
    BY <2>2, <2>3, <2>4 DEF InInv, LeasesMade
  <2> QED
    BY <2>2, <2>5, <2>6, NothingNew
<1>5. CASE \E n \in LeaseNames : DeleteLease(n)
  <2>1. PICK m \in LeaseNames : DeleteLease(m)
    BY <1>5
  <2>2. leases' = [leases EXCEPT ![m] = NoLeaseObject] /\ UNCHANGED <<grants, read>>
    BY <2>1 DEF DeleteLease, history
  <2>3. \A k \in LeaseNames : leases'[k].exists => leases'[k] = leases[k]
    BY <2>2 DEF InInv, LeasesMade, NoLeaseObject
  <2> QED
    BY <2>2, <2>3, NothingNew DEF Granted
<1>6. CASE Stop \/ EditConfig \/ UNCHANGED inventoryVars
  BY <1>2, <1>6 DEF Stop, EditConfig, inventoryVars
<1> QED
  BY <1>1, <1>3, <1>4, <1>5, <1>6, CreateLeaseFirst, GrantSuits DEF InventoryNext

(* Of configurations whose labels leave the name of a resource alone, and  *)
(* while only one has ever been read: the account that is provisioned has  *)
(* the labels its claim requires, though several may have its name.        *)
THEOREM GrantsSuit == LabelsKept => (InventorySpec => []GrantedAsRequired)
<1> SUFFICES ASSUME LabelsKept PROVE InventorySpec => []GrantedAsRequired
  OBVIOUS
<1>1. InInv /\ LabelsInv /\ [InventoryNext]_inventoryVars => LabelsInv'
  BY LabelsStep
<1>2. LabelsInv => GrantedAsRequired
  BY DEF LabelsInv, Suits, GrantedAsRequired
<1> QED
  BY <1>1, <1>2, LabelsInit, LeasesStayMade, PTL DEF InventorySpec
=============================================================================
