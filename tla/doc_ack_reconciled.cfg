CONSTANTS
    Batches = {b1}
    Malformed = {}
    Poison = {}
    Ruled = {b1}
    Processors = {p1}
    MaxDeliver = 2
    MaxCopies = 1
    LateInserts = FALSE
SPECIFICATION Spec
INVARIANT AckedIsReconciled
CHECK_DEADLOCK FALSE
