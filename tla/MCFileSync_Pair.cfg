SPECIFICATION FairSpec
CONSTANTS
    Device <- MCPair
    Times = {1, 2, 3}
    MaxEdits = 3
    MaxDeletes = 2
    MaxFailures = 0
    HashOf <- MCHashOf
    Perils = {"ties"}
\* Users may stop editing.
CHECK_DEADLOCK FALSE
INVARIANTS
    Converged
    PairIInv
    NoEditLost
    TombstoneOfTheDead
PROPERTIES
    Settles
