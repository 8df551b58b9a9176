SPECIFICATION FairSpec
CONSTANTS
    MaxLinks = 2
    MaxKeys = 2
    Showing = {2}
    Perils <- AllPerils
    MaxTrouble = 2
INVARIANTS
    
    NoRevokedKeyShown
    GlareAgrees
PROPERTIES
    Reconnect
\* Devices that removed each other rest.
CHECK_DEADLOCK FALSE
