CONSTANTS
    MaxItems = 3
    MaxKey = 2
    Limits = {1, 2}
    MaxOffset = 2
    Shards = {"shard-1", "shard-2"}
    Home = "shard-1"
    LogRecords <- MCLogRecords
    Normalize <- MCNormalize
    MaxRecords = 4
SPECIFICATION SpecQuery
INVARIANTS WalkIsFaithful ShortIsComplete LoopsOK GraphAgrees
