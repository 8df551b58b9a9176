SPECIFICATION FairSpec
CONSTANTS
    Device = {1, 2}
    Path <- MCPath
    Text <- MCTexts
    Purpose <- Wanted
    DirtyLimit = 1
    MaxEdits = 2
    MaxLinks = 2
    Syncing = {1, 2}
\* Users may stop editing.
CHECK_DEADLOCK FALSE
INVARIANTS
    TypeOK
    Reconciled
    
PROPERTIES
    ExchangeEnds
