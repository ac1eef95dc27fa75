SPECIFICATION InventorySpec
CONSTANTS
    Claims = {c1, c2}
    Nobody = Nobody
    NoGrant = NoGrant
    NoConfig = NoConfig
    Several = Several
    LeasePrefix <- Prefix
    Type <- Snowflake
    ConfigMaps <- SmallConfigs
    Requests <- SmallRequests
    MaxInt32 = 3
    StartupCleanup = {TRUE, FALSE}
INVARIANT InventoryTypeOK
INVARIANT AccountGrantedOnce
INVARIANT ConfiguredAreClean
INVARIANT NothingLeftOpen
INVARIANT GrantedAsRequired
INVARIANT LeaseNotTooLong
PROPERTY EveryAccountHasLease
