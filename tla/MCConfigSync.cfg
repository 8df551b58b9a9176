SPECIFICATION FairSpec
CONSTANTS
    dataJson = dataJson
    Device <- MCDevice
    Path = {dataJson}
    Appearance = {}
    Hash = {1, 2, 3}
    Writers <- MCWriters
    AtStart <- MCAtStart
    Large = {3}
    Paired <- MCPaired
    Scopes = {"off", "full"}
    Retention = 1
    MaxTime = 3
    MaxEvents = 2
    SavesRace = FALSE
\* The users may stop and the devices stay linked.
CHECK_DEADLOCK FALSE
INVARIANTS
    Converged
PROPERTIES
    NewerStays
    NoEcho
    ExchangeEnds
