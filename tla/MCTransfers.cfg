SPECIFICATION FairSpec
CONSTANTS
    phone = phone
    tablet = tablet
    big = big
    small = small
    Peer <- MCPeer
    Task <- MCTask
    PeerOf <- MCPeerOf
    Large <- MCLarge
    Chunks = 2
    Id = {1, 2, 3, 4}
    RetryLimit = 1
    ResendLimit = 1
    MaxReassemblies = 1
    Concurrency = 1
    Perils <- AllPerils
    MaxAsks = 2
    MaxTrouble = 1
\* Nobody has to ask for another file.
CHECK_DEADLOCK FALSE
INVARIANTS
    NotForgotten
    AckedIsHeld
    BuffersUnmixed
PROPERTIES
    Delivers
    FilesArrive
