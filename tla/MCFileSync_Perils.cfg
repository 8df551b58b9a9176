SPECIFICATION Spec
CONSTANTS
    Device <- MCPair
    Times = {1, 2}
    MaxEdits = 2
    MaxDeletes = 1
    MaxFailures = 1
    HashOf <- MCHashOf
    Perils = {"ties", "saveInWrite", "saveInWindow", "applyPending",
              "queueWaits", "sendFails", "reorder", "trashFails"}
\* Users may stop editing.
CHECK_DEADLOCK FALSE
INVARIANTS
    TypeOK
    OwnCountIsHighest
PROPERTIES
    VectorsGrow
