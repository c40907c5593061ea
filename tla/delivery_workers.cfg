CONSTANTS
    Deliveries = {d1, d2}
    Workers = {w1, i1, i2}
    Inline = {i1, i2}
    WorkerID <- DeployedID
    MaxAttempts <- MixedAttempts
    MaxLag <- NoLag
    BatchSize = 2
    Lease = 1
    Timeout = 1
    MaxDelay = 1
    MaxFaults = 1
SPECIFICATION Spec
INVARIANTS OutboxOK DuplicateNeedsExpiry
PROPERTIES FencedByLatestClaim EventuallyFinal
