CONSTANTS
    Batches = {b1, bad}
    Malformed = {bad}
    Poison = {}
    Ruled = {b1}
    Processors = {p1}
    MaxDeliver = 2
    MaxCopies = 1
    LateInserts = TRUE
SPECIFICATION Spec
INVARIANT QuarantineIsJustified
PROPERTIES EveryMessageEnds ImplementsLedger
CHECK_DEADLOCK FALSE
