SPECIFICATION FairSpec
CONSTANTS
    d1 = d1
    d2 = d2
    f = f
    g = g
    Device <- MCDevice
    Path <- MCPath
    Plans <- MCPullPlans
    RetryLimit = 2
    MaxWidth = 2
    MaxRuns = 2
    MaxAborts = 1
\* Users may stop starting syncs.
CHECK_DEADLOCK FALSE
INVARIANTS
    CompleteMeansSettled
    NobodyLeftPulling
PROPERTIES
    SyncsEnd
