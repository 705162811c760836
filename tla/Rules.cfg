SPECIFICATION Spec
CONSTANTS
    Tables <- MCTables
    Requests <- MCRequests
    AuthTables <- MCAuthTables
    AuthRequests <- MCAuthRequests
    Networks <- MCNetworks
    AuthConfigs <- MCAuthConfigs
    Addresses <- MCAddresses
    Headers <- MCHeaders
    Ranges <- MCRanges
    Deltas <- MCDeltas
    MaxDeltas = 3
    VersionedSettings <- MCVersionedSettings
    StaticSettings <- MCStaticSettings
    SingleFileSettings <- MCSingleFileSettings
    FileRequests <- MCFileRequests
    PoolNames <- MCPoolNames
    PoolConfigs <- MCPoolConfigs
    MaxConfigs = 3
INVARIANTS NearestEntryDecides  DeltasCommute ClientFollowsDelta CacheOnlyVersioned ReloadTakesEffect
CHECK_DEADLOCK FALSE
