CONSTANTS
    Keys = {k1}
    Scopes <- MCScopes
    Syncers = {consumer, scheduler}
    Cooldown = 2
    MaxTime = 4
    MaxLag = 2
SPECIFICATION Spec
INVARIANTS TableOK AnnouncedOnce CooldownRespected
PROPERTY WedgeIsPermanent
