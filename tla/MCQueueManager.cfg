SPECIFICATION FairSpec
CONSTANTS
    p1 = p1
    p2 = p2
    everyone = everyone
    t1 = t1
    t2 = t2
    Peer <- MCPeer
    Everyone = everyone
    Task <- MCTask
    PeerOf <- MCPeerOf
    PriorityOf <- MCPriorityOf
    Rebuilt <- MCRebuilt
    Limits = {1, 2}
    RetryLimit = 1
    MaxEdits <- MCMaxEdits
    MaxEpoch = 1
INVARIANTS
    TypeOK
    NoWall
    NoEditStranded

    
