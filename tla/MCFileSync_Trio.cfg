SPECIFICATION Spec
CONSTANTS
    Device <- MCTrio
    Times = {1, 2, 3}
    MaxEdits = 2
    MaxDeletes = 1
    MaxFailures = 0
    HashOf <- MCHashOf
    Perils = {}
\* Users may stop editing.
CHECK_DEADLOCK FALSE
INVARIANTS
    Converged
