SPECIFICATION FairSpec
CONSTANTS
    MaxChanges = 3
    MaxWriters = 1
    MaxCrashes = 1
    MaxReloads = 2
    MaxFailures = 2
    Patient = TRUE
\* The user may stop editing.
CHECK_DEADLOCK FALSE
INVARIANTS
    TypeOK
    
    
PROPERTIES
    ChangesAreSaved
