SPECIFICATION Spec
CONSTANTS
    d1 = d1
    d2 = d2
    f = f
    g = g
    Device <- MCDevice
    Path <- MCPath
    Plans <- MCPlans
    RetryLimit = 1
    MaxWidth = 2
    MaxRuns = 2
    MaxAborts = 1
\* Users may stop starting syncs.
CHECK_DEADLOCK FALSE
INVARIANTS
    TypeOK
    NoPullForgotten
    BatchesAreWorkedOn
