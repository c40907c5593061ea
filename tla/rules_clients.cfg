CONSTANTS
    Nil = Nil
    Null = Null
    Clients = {c1, c2}
    Tenants = {t1, t2}
    Registered <- AllRegistered
    Services = {"orders"}
    Levels = {"ERROR", "error"}
    Lower <- MCLower
    SentLevels = {"ERROR"}
    SentStatus = {"", "active"}
    Cooldowns = {0}
    DefaultCooldown = 600
    Evaluators = {"consumer"}
    MaxRules = 1
SYMMETRY Symmetry
SPECIFICATION Spec
INVARIANT CatalogOK
PROPERTIES TenantsIsolated DeletedIsFinal PatchUndoesOnlyRaces
