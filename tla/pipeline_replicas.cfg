CONSTANTS
    Batches = {b1}
    Malformed = {}
    Poison = {}
    Ruled = {b1}
    Processors = {p1, p2}
    MaxDeliver = 2
    MaxCopies = 2
    LateInserts = TRUE
SPECIFICATION Spec
INVARIANTS TypeOK SettledIsAccounted AlertsFollowRows AcceptedIsStored WrittenOnce SyncedOnce LossNeedsDeath
SYMMETRY ProcessorSymmetry
CHECK_DEADLOCK FALSE
