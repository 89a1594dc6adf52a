SPECIFICATION StreamFairSpec
CONSTANTS
    Instance = {i1}
    MaxAddr = 2
    MaxStreams = 6
    MaxFaults = 1
CHECK_DEADLOCK FALSE
INVARIANTS OpenStreamsAreOwned ClientsAreMonitored
PROPERTY KnownIsConnected
