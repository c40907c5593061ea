CONSTANTS
    Runners = {p1, p2}
    Rows = {r1}
    PgFiles = {1, 2}
    PgGuarded = {2}
    MaxFaults = 1
SPECIFICATION FairSpec
INVARIANTS RowsKept CopiedOnce RecordedIsComplete PostgresIsAtomic
PROPERTIES Converges
