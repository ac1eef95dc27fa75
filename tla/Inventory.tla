------------------------------ MODULE Inventory ------------------------------
(***************************************************************************)
(* How the pool gets its leases and finds the account behind a lease:      *)
(* Initialize of the provider reads the configuration, main puts its       *)
(* resources into the registry and creates a lease for each, acquireLease  *)
(* goes from the labels of a lease to the account, handleDeletion from the *)
(* lease's name.  Administrators edit the configuration and restart the    *)
(* operator while claims are bound.                                        *)
(*                                                                         *)
(* A lease is acquired and released in one step here and never expires,    *)
(* and the provider's hooks succeed: the steps in between, and what fails, *)
(* are in ResourceClaimController and SnowflakeProvider.  There is one     *)
(* process at a time.  Names are sequences of parts, as only their lengths *)
(* and their ends matter; a duration counts half seconds.                  *)
(***************************************************************************)
EXTENDS Integers, Sequences

CONSTANTS Claims,
          Nobody,        \* a nil spec.holderIdentity
          NoGrant,       \* the claim is not bound
          NoConfig,      \* the ConfigMap, its key or its YAML is not there
          LeasePrefix,
          Type,          \* Name() of the provider
          ConfigMaps,    \* what the ConfigMap may be: NoConfig or accounts
          Requests,      \* the specs of claims
          MaxInt32,      \* bound: 2^31 - 1 in the code
          StartupCleanup,\* what RESOURCE_POOL_STARTUP_CLEANUP # "false" may
                         \* be when a process starts
          Several        \* more than one configuration, see read and since

ASSUME InventoryAssumption ==
    /\ LeasePrefix \in Seq(STRING) /\ Type \in Seq(STRING)
    /\ Nobody \notin Claims
    /\ MaxInt32 \in Nat \ {0}
    /\ \A cm \in ConfigMaps \ {NoConfig} :
           /\ cm \in Seq({cm[i] : i \in DOMAIN cm})
           /\ \A i \in DOMAIN cm : cm[i].name \in Seq(STRING)
    /\ \A r \in Requests : r.duration \in Int
    /\ StartupCleanup \subseteq BOOLEAN
    /\ Several \notin ConfigMaps \cup {NoConfig}

VARIABLES configMap,    \* the accounts in the ConfigMap
          resources,    \* the resources in the registry of the process
          created,      \* how many of them have been seen to a lease
          stage,        \* how far main has come
          leases,       \* the leases at the API server, by name
          grants,       \* what a bound claim got
          opened        \* URLs of the accounts whose app user has a key

(* What the properties need to know of the past: the one configuration     *)
(* that processes have read, and the one with which they have served       *)
(* claims since the last startup cleanup; NoConfig if there was none,      *)
(* Several if there were different ones.                                   *)
VARIABLES read, since

history == <<read, since>>

inventoryVars ==
    <<configMap, resources, created, stage, leases, grants, opened, history>>

Configs == ConfigMaps \ {NoConfig}

Accounts == UNION {{cm[i] : i \in DOMAIN cm} : cm \in Configs}

Join(past, accounts) == IF past \in {NoConfig, accounts} THEN accounts ELSE Several

(* The Snowflake accounts themselves, which have a name per configuration. *)
Urls(accounts) == {accounts[i].url : i \in DOMAIN accounts}

-----------------------------------------------------------------------------
(* Names and labels.                                                       *)

(* The name of the lease of a resource.                                    *)
LeaseName(name) == LeasePrefix \o Type \o <<"-">> \o name

(* A bug handleDeletion could have: the dash is not counted.               *)
CutTooEarly(leaseName) ==
    SubSeq(leaseName, Len(LeasePrefix) + Len(Type) + 1, Len(leaseName))

(* handleDeletion gets the name of the resource back from the lease's.     *)
CutName(leaseName) ==
    SubSeq(leaseName, Len(LeasePrefix) + Len(Type) + 2, Len(leaseName))

(* maps.Copy: the pairs of src over those of dst.                          *)
Copy(dst, src) ==
    [k \in DOMAIN dst \cup DOMAIN src |-> IF k \in DOMAIN src THEN src[k] ELSE dst[k]]

(* The managed labels of a lease, under those of its account, which may    *)
(* overrule them.                                                          *)
LeaseLabels(account) == Copy([type |-> Type, name |-> account.name], account.labels)

(* A bug matchesLabels could have: a missing label passes.                 *)
IgnoreMissing(have, required) ==
    \A k \in DOMAIN required \cap DOMAIN have : have[k] = required[k]

(* matchesLabels: every required pair is there.                            *)
matchesLabels(have, required) ==
    \A k \in DOMAIN required : k \in DOMAIN have /\ have[k] = required[k]

(* MatchesLabels of an account's configuration, which nothing calls: the   *)
(* leases stand for the accounts.                                          *)
MatchesLabels(account, required) ==
    \A k \in DOMAIN required :
        k \in DOMAIN account.labels /\ account.labels[k] = required[k]

(* Registry.Get: there is one provider.                                    *)
Get(type) == type = Type

(* The first account of a name, none if it is not there.                   *)
FirstNamed(accounts, name) ==
    {accounts[i] : i \in {j \in DOMAIN accounts :
        accounts[j].name = name /\ \A k \in 1..(j - 1) : accounts[k].name # name}}

(* A bug GetResource could have: it does not return out of its loop.       *)
GetLast(name) ==
    {resources[i] : i \in {j \in DOMAIN resources :
        /\ resources[j].name = name
        /\ \A k \in (j + 1)..Len(resources) : resources[k].name # name}}

(* GetResource, and the search for an account's configuration in the hooks *)
(* of the provider.                                                        *)
GetResource(name) == FirstNamed(resources, name)

-----------------------------------------------------------------------------
(* Leases and grants.                                                      *)

NoLeaseObject == [exists |-> FALSE, labels |-> <<>>, holder |-> Nobody]

NewLease(account) ==
    [exists |-> TRUE, labels |-> LeaseLabels(account), holder |-> Nobody]

LeaseNames == {LeaseName(a.name) : a \in Accounts}

LeaseObjects == {NoLeaseObject}
    \cup {[NewLease(a) EXCEPT !.holder = c] : a \in Accounts, c \in Claims \cup {Nobody}}

Grants == [lease : LeaseNames, account : Accounts,
           request : Requests, seconds : 1..MaxInt32]

ASSUME NoGrantAssumption == NoGrant \notin Grants

InventoryTypeOK ==
    /\ configMap \in ConfigMaps
    /\ resources \in Configs \cup {<<>>}
    /\ created \in 0..Len(resources)
    /\ stage \in {"down", "createLeases", "ready"}
    /\ leases \in [LeaseNames -> LeaseObjects]
    /\ grants \in [Claims -> Grants \cup {NoGrant}]
    /\ opened \subseteq {a.url : a \in Accounts}
    /\ read \in Configs \cup {NoConfig, Several}
    /\ since \in Configs \cup {NoConfig, Several}

InventoryInit ==
    /\ configMap \in ConfigMaps
    /\ resources = <<>>
    /\ created = 0
    /\ stage = "down"
    /\ leases = [n \in LeaseNames |-> NoLeaseObject]
    /\ grants = [c \in Claims |-> NoGrant]
    /\ opened = {}
    /\ read = NoConfig /\ since = NoConfig

-----------------------------------------------------------------------------
(* Startup.                                                                *)

(* Initialize accepts the configuration.                                   *)
Valid(cm) ==
    /\ cm # NoConfig
    /\ cm # <<>>
    /\ \A i \in DOMAIN cm : cm[i].complete

(* Initialize, then SetResources; a configuration that is not valid ends   *)
(* the process at once.                                                    *)
Initialize ==
    /\ stage = "down"
    /\ Valid(configMap)
    /\ resources' = configMap
    /\ created' = 0
    /\ stage' = "createLeases"
    /\ read' = Join(read, configMap)
    /\ UNCHANGED <<configMap, leases, grants, opened, since>>

(* A bug the loop could have: it returns where it should continue.         *)
StopAtExisting(old) == IF old.exists THEN Len(resources) ELSE created + 1

(* The next turn of the loop.                                              *)
NextTurn(old) == created + 1

(* InitializeLeasesForProvider, one turn: a lease that exists stays as it  *)
(* is, with the labels it has.                                             *)
CreateLease ==
    /\ stage = "createLeases"
    /\ created < Len(resources)
    /\ LET a == resources[created + 1]
           n == LeaseName(a.name)
       IN  /\ leases' = IF leases[n].exists THEN leases
                                            ELSE [leases EXCEPT ![n] = NewLease(a)]
           /\ created' = NextTurn(leases[n])
    /\ UNCHANGED <<configMap, resources, stage, grants, opened, history>>

(* A bug CleanupAllClaims could have: it returns after the first account.  *)
CleansFirst == {resources[1].url}

(* CleanupAllClaims goes through all accounts that are configured now.     *)
CleanupAllClaims == Urls(resources)

(* main goes on to the startup cleanup, which frees every lease and resets *)
(* every claim, or is switched off.                                        *)
FinishStartup ==
    /\ stage = "createLeases"
    /\ created = Len(resources)
    /\ stage' = "ready"
    /\ \/ /\ TRUE \in StartupCleanup
          /\ opened' = opened \ CleanupAllClaims
          /\ leases' = [n \in LeaseNames |-> [leases[n] EXCEPT !.holder = Nobody]]
          /\ grants' = [c \in Claims |-> NoGrant]
          /\ since' = resources
       \/ /\ FALSE \in StartupCleanup
          /\ since' = Join(since, resources)
          /\ UNCHANGED <<leases, grants, opened>>
    /\ UNCHANGED <<configMap, resources, created, read>>

(* The process ends: it is stopped, or a lease can't be created.           *)
Stop ==
    /\ stage # "down"
    /\ stage' = "down"
    /\ resources' = <<>>
    /\ created' = 0
    /\ UNCHANGED <<configMap, leases, grants, opened, history>>

-----------------------------------------------------------------------------
(* Claims.                                                                 *)

(* A bug FindFreeLease could have: leases are not looked at for a holder.  *)
FindLease(request) ==
    {n \in LeaseNames :
        /\ leases[n].exists
        /\ matchesLabels(leases[n].labels, request.requiredLabels)}

(* FindFreeLease: every lease that has the managed and the required labels *)
(* and no holder.                                                          *)
FindFreeLease(request) ==
    {n \in LeaseNames :
        LET v == leases[n] IN
        /\ v.exists /\ v.holder = Nobody
        /\ matchesLabels(v.labels, [type |-> request.type])
        /\ matchesLabels(v.labels, request.requiredLabels)}

(* A bug AcquireLease could have: the duration rounded up.                 *)
RoundedUp(d) == {(d + 1) \div 2}

(* int32(duration.Seconds()) cuts off the fraction; what it makes of a     *)
(* number that is too large depends on the processor: the largest or the   *)
(* smallest int32.                                                         *)
Seconds(d) == IF d \div 2 <= MaxInt32 THEN {d \div 2} ELSE {MaxInt32, -MaxInt32 - 1}

(* acquireLease: the lease names the resource in a label, the resource the *)
(* account, and AcquireResource gives its app user a key.  The API server  *)
(* refuses a lease without a positive duration.                            *)
Grant(c, n, request) ==
    /\ stage = "ready"
    /\ grants[c] = NoGrant
    /\ Get(request.type)
    /\ n \in FindFreeLease(request)
    /\ \E account \in GetResource(leases[n].labels["name"]),
          s \in Seconds(request.duration) :
           /\ s > 0
           /\ leases' = [leases EXCEPT ![n].holder = c]
           /\ grants' = [grants EXCEPT ![c] =
                  [lease |-> n, account |-> account, request |-> request, seconds |-> s]]
           /\ opened' = opened \cup {account.url}
    /\ UNCHANGED <<configMap, resources, created, stage, history>>

(* handleDeletion: ReleaseResource revokes the key in the account that has *)
(* the name now, if one has; the lease is released either way.             *)
Release(c) ==
    /\ stage = "ready"
    /\ grants[c] # NoGrant
    /\ opened' = opened \ {a.url : a \in GetResource(CutName(grants[c].lease))}
    /\ leases' = [leases EXCEPT ![grants[c].lease].holder = Nobody]
    /\ grants' = [grants EXCEPT ![c] = NoGrant]
    /\ UNCHANGED <<configMap, resources, created, stage, history>>

-----------------------------------------------------------------------------
(* Administrators.                                                         *)

EditConfig ==
    /\ configMap' \in ConfigMaps
    /\ UNCHANGED <<resources, created, stage, leases, grants, opened, history>>

(* A lease that is not in use is deleted; not in the middle of a startup.  *)
DeleteLease(n) ==
    /\ stage # "createLeases"
    /\ leases[n].exists /\ leases[n].holder = Nobody
    /\ leases' = [leases EXCEPT ![n] = NoLeaseObject]
    /\ UNCHANGED <<configMap, resources, created, stage, grants, opened, history>>

InventoryNext ==
    \/ Initialize \/ CreateLease \/ FinishStartup \/ Stop
    \/ \E c \in Claims, n \in LeaseNames, request \in Requests : Grant(c, n, request)
    \/ \E c \in Claims : Release(c)
    \/ EditConfig
    \/ \E n \in LeaseNames : DeleteLease(n)

InventorySpec == InventoryInit /\ [][InventoryNext]_inventoryVars

-----------------------------------------------------------------------------
Granted == {c \in Claims : grants[c] # NoGrant}

GrantedUrls == {grants[c].account.url : c \in Granted}

(* What administrators must see to, as nothing checks it: no account has a *)
(* label pool.dataverse.redhat.com/resource-name, which maps.Copy would    *)
(* put over the name of the resource,                                      *)
LabelsKept ==
    \A cm \in Configs : \A i \in DOMAIN cm : "name" \notin DOMAIN cm[i].labels

(* and no Snowflake account is configured under two names at once.  Two    *)
(* accounts of one name are harmless: all look-ups find the first.         *)
WellNamed ==
    /\ LabelsKept
    /\ \A cm \in Configs : \A i, j \in DOMAIN cm :
           cm[i].url = cm[j].url => cm[i].name = cm[j].name

(* No account is handed out twice ("Name is a unique identifier for this   *)
(* account", config.go:26, which nothing checks), though leases outlive    *)
(* the configuration they were made from, and accounts are renamed and     *)
(* replaced, if every startup with another configuration cleans up:        *)
(* every lease leads, by its label and through the registry, to an account *)
(* of its own.                                                             *)
AccountGrantedOnce ==
    since # Several =>
        \A c, d \in Granted : c # d => grants[c].account.url # grants[d].account.url

(* Under the same condition, while the operator serves claims an account   *)
(* of its configuration has a key if, and only if, a claim has it: what    *)
(* handleDeletion cuts out of the lease's name and looks up is the very    *)
(* account that acquireLease went to by the label, and a startup revokes   *)
(* what the last process left.                                             *)
ConfiguredAreClean ==
    stage = "ready" /\ since # Several => opened \cap Urls(resources) = GrantedUrls

(* "release orphaned per-claim state from the previous run" (main.go:249): *)
(* as long as all processes had the same configuration, no account has a   *)
(* key that no claim has, however they were stopped and whether they       *)
(* cleaned up or not.                                                      *)
NothingLeftOpen == read # Several => opened \subseteq GrantedUrls

(* "Labels allow filtering which accounts can be assigned to claims"       *)
(* (config.go:49): as long as all processes had the same configuration,    *)
(* the account that is provisioned has the labels the claim requires       *)
(* beyond those that every lease has.  Leases are made from the first      *)
(* account of a name, and the look-ups find the first, too.                *)
GrantedAsRequired ==
    read # Several =>
        \A c \in Granted :
            LET r == grants[c].request.requiredLabels IN
            MatchesLabels(grants[c].account, [k \in DOMAIN r \ {"type", "name"} |-> r[k]])

(* A lease is never longer than what its claim asked for, and not empty:   *)
(* what the conversion to int32 makes of a duration (manager.go:225) is    *)
(* cut short or refused.                                                   *)
LeaseNotTooLong ==
    \A c \in Granted : 2 * grants[c].seconds <= grants[c].request.duration

(* An operator that gets through its startup has a lease for every account *)
(* it read, though an earlier one may have stopped half-way.               *)
EveryAccountHasLease ==
    [][stage = "createLeases" /\ stage' = "ready" =>
          \A i \in DOMAIN resources : leases[LeaseName(resources[i].name)].exists]_inventoryVars
=============================================================================
