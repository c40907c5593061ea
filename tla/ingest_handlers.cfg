CONSTANTS
    k1 = k1
    k2 = k2
    h1 = h1
    h2 = h2
    Handlers = {h1, h2}
    Instances = {"i1", "i2"}
    Keys <- MCKeys
    Tenants = {"t1", "t2"}
    Services <- MCServices
    KeyTenant <- MCKeyTenant
    ServiceTenant <- MCServiceTenant
    KeyService <- MCKeyService
    Limit <- MCLimit
    Strategy <- MCStrategy
    HighWatermark = 1
    StatsFail = TRUE
    MaxTime = 1
    MaxPending = 3
    MaxLate = 1
SYMMETRY Symmetry
SPECIFICATION Spec
INVARIANTS TypeOK AdmittedIsAuthorized RateRespected QueueBounded
