CONSTANTS
    b1 = b1
    b2 = b2
    b3 = b3
    Batches <- MCBatches
    Records <- MCRecords
    BatchOf <- MCBatchOf
    Time <- MCTime
    NumRules = 3
    Window <- MCWindow
    Needed <- MCNeeded
    Percentile <- MCPercentile
    Value <- MCValue
    Attrs <- MCAttrs
    Attr <- MCAttr
    Column <- MCColumn
    FilterJSON <- MCFilterJSON
    Passes <- MCPasses
    GroupBy <- MCGroupBy
    RulesOf <- MCRulesOf
    Broken = {1, 2}
    Processors = {p1}
    MaxRecords = 3
    Skew = 0
    MaxTime = 6
SPECIFICATION Spec
INVARIANTS WindowsOK FiringIsJustified PercentileAgrees
PROPERTIES FoundRecordsTrigger FailedEvaluationIsSilent
