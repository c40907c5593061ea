----------------------------- MODULE RuleEngine -----------------------------
(***************************************************************************)
(* How a processor decides which alert rules match: alerts.Engine keeps an *)
(* event-time window of records per rule in memory, and two goroutines of  *)
(* every processor feed it:                                                *)
(*                                                                         *)
(*   the consumer   handleBatchWithEvaluator passes all records of a batch *)
(*                  before it writes them to ClickHouse;                   *)
(*   the scheduler  RunScheduledAlertEvaluation passes what ClickHouse     *)
(*                  holds for [observedAt - window, observedAt).           *)
(*                                                                         *)
(* Both then hand their triggers to SyncAlertState.  The engine's mutex    *)
(* makes one Evaluate call atomic; the loop over the rules of a batch is   *)
(* one step because the windows of different rules are independent.        *)
(*                                                                         *)
(* A window and a query result are bags of records: ClickHouse may hold a  *)
(* batch twice.  Rules are numbered in the order the code evaluates them.  *)
(* The alert state is reduced to what the last committed sync of a rule    *)
(* said; AlertState models the rest of SyncAlertState.                     *)
(***************************************************************************)
EXTENDS Integers, FiniteSets, FiniteSetsExt

CONSTANTS
    Batches,     \* the ingest ids
    Records,     \* the log records
    BatchOf,     \* the batch of a record
    Time,        \* the timestamp of a record
    NumRules,    \* rules 1, 2, ... in the order of their ids
    Window,      \* window_seconds of a rule; 0: evaluate each batch alone
    Needed,      \* the least match count that reaches the rule's threshold;
                 \* the threshold itself of a percentile rule
    Percentile,  \* filter_json.percentile; 0: not a percentile rule
    Value,       \* the number a percentile rule finds in a record
    Attrs,       \* service, environment, level, fingerprint, source, host, ...
    Attr,        \* the attributes of a record
    Column,      \* what alert_rules says of an attribute
    FilterJSON,  \* what filter_json says of it
    Passes,      \* the records that the other tests of a rule accept:
                 \* message_contains, field_equals, pattern, a number at
                 \* value_field
    GroupBy,     \* the attribute of group_by
    RulesOf,     \* the active rules LoadActiveRules returns for a batch
    Broken,      \* rules whose rows may now and then be such that Evaluate
                 \* rejects them: unknown rule_type, bad threshold
    Processors,
    MaxRecords,  \* ALERT_EVALUATION_MAX_RECORDS
    Skew,        \* how far a timestamp may lie in the future
    MaxTime      \* bound: the clock stops here

Rules == 1..NumRules
Any == "any"     \* an attribute the rule does not mention
All == "all"     \* no group_by

ASSUME EngineAssumption ==
    /\ IsFiniteSet(Records) /\ BatchOf \in [Records -> Batches]
    /\ Time \in [Records -> Nat]
    /\ NumRules \in Nat
    /\ Window \in [Rules -> Nat]
    /\ Needed \in [Rules -> Nat \ {0}]
    /\ Percentile \in [Rules -> 0..99]
    /\ Value \in [Records -> Nat]
    /\ \A f \in {Column, FilterJSON} : DOMAIN f = Rules /\ \A r \in Rules : DOMAIN f[r] = Attrs
    /\ DOMAIN Attr = Records /\ \A x \in Records : DOMAIN Attr[x] = Attrs
    /\ Passes \in [Rules -> SUBSET Records]
    /\ GroupBy \in [Rules -> Attrs \cup {All}]
    /\ RulesOf \in [Batches -> SUBSET Rules]
    /\ Broken \subseteq Rules
    /\ MaxRecords \in Nat \ {0}
    /\ Skew \in Nat
    /\ MaxTime \in Nat

\* applyRuleModelFilter: the columns of the rule override its filter_json.
Filter ==
    [r \in Rules |-> [a \in Attrs |->
        IF Column[r][a] # Any THEN Column[r][a] ELSE FilterJSON[r][a]]]

\* matchesFilter, and matchesPattern or numericValue where the rule has them.
Matches ==
    [r \in Rules |->
        {x \in Passes[r] : \A a \in Attrs : Filter[r][a] \in {Any, Attr[x][a]}}]

\* The records of the rule's tenant that buildAlertRecordsQuery asks for: it
\* knows the columns, not filter_json.
Selected ==
    [r \in Rules |->
        {x \in Records : \A a \in Attrs : Column[r][a] \in {Any, Attr[x][a]}}]

\* buildGroup.  (With several attributes in group_by it joins their values.)
GroupKey ==
    [r \in Rules |-> [x \in Records |->
        IF GroupBy[r] = All THEN All ELSE Attr[x][GroupBy[r]]]]
Groups == UNION {{GroupKey[r][x] : x \in Records} : r \in Rules}

Alerts == Rules \X Groups
NoRecords == [x \in Records |-> 0]

VARIABLES
    now,
    arrived,    \* the batches in the stream, delivered any number of times
    rows,       \* how often ClickHouse holds the rows of a batch
    window,     \* the engine of each processor: a bag of records per rule
    firing,     \* the alerts the last committed sync of their rule triggered
    \* the consumer of each processor
    cstep, cbatch, cbroken, ctriggers,
    \* the scheduler of each processor
    sstep, srule, sbroken, observedAt, found, striggers

consumerVars == <<cstep, cbatch, cbroken, ctriggers>>
schedulerVars == <<sstep, srule, sbroken, observedAt, found, striggers>>
vars == <<now, arrived, rows, window, firing, cstep, cbatch, cbroken, ctriggers,
          sstep, srule, sbroken, observedAt, found, striggers>>

TypeOK ==
    /\ now \in 0..MaxTime
    /\ arrived \subseteq Batches
    /\ rows \in [Batches -> Nat]
    /\ window \in [Processors -> [Rules -> [Records -> Nat]]]
    /\ firing \subseteq Alerts
    /\ cstep \in [Processors -> {"idle", "evaluate", "write", "sync"}]
    /\ \A p \in Processors : cstep[p] # "idle" => cbatch[p] \in arrived
    /\ cbroken \in [Processors -> SUBSET Broken]
    /\ ctriggers \in [Processors -> SUBSET Alerts]
    /\ sstep \in [Processors -> {"idle", "query", "evaluate", "sync"}]
    /\ srule \in [Processors -> 1..(NumRules + 1)]
    /\ sbroken \in [Processors -> SUBSET Broken]
    /\ observedAt \in [Processors -> 0..MaxTime]
    /\ found \in [Processors -> [Records -> Nat]]
    /\ striggers \in [Processors -> SUBSET Alerts]

NoBatch == "no batch"

Init ==
    /\ now = 0
    /\ arrived = {}
    /\ rows = [b \in Batches |-> 0]
    /\ window = [p \in Processors |-> [r \in Rules |-> NoRecords]]
    /\ firing = {}
    /\ cstep = [p \in Processors |-> "idle"]
    /\ cbatch = [p \in Processors |-> NoBatch]
    /\ cbroken = [p \in Processors |-> {}]
    /\ ctriggers = [p \in Processors |-> {}]
    /\ sstep = [p \in Processors |-> "idle"]
    /\ srule = [p \in Processors |-> 1]
    /\ sbroken = [p \in Processors |-> {}]
    /\ observedAt = [p \in Processors |-> 0]
    /\ found = [p \in Processors |-> NoRecords]
    /\ striggers = [p \in Processors |-> {}]

-----------------------------------------------------------------------------
(* Plausible slips in the code modelled below; no action uses them.        *)

\* The engine without the ingest id check.
SlipNoDedupe(win, recs) == [x \in Records |-> win[x] + recs[x]]
\* The cutoff one unit too early.
SlipWiderWindow(r, bag) ==
    [x \in Records |->
        IF \A y \in Records : bag[y] > 0 => Time[x] + Window[r] + 1 >= Time[y]
          THEN bag[x] ELSE 0]
\* The threshold test with > instead of >=.
SlipStrictThreshold(r, n) == n > Needed[r]
\* percentile with a position relative to len(sorted) instead of its last index.
SlipPosition(r, n) == Percentile[r] * n

-----------------------------------------------------------------------------
(* Engine.Evaluate.                                                        *)

\* The ingest ids that have a record in the window.
IngestIDs(win) == {BatchOf[x] : x \in {y \in Records : win[y] > 0}}

\* A record of a batch that is in the window already is skipped.
Combined(win, recs) ==
    [x \in Records |-> win[x] + IF BatchOf[x] \in IngestIDs(win) THEN 0 ELSE recs[x]]

\* What is not older than the newest record by more than the window.
Trimmed(r, bag) ==
    [x \in Records |->
        IF \A y \in Records : bag[y] > 0 => Time[x] + Window[r] >= Time[y]
          THEN bag[x] ELSE 0]

\* A rule without a window leaves the engine alone.
NextWindow(r, win, recs) ==
    IF Window[r] = 0 THEN win ELSE Trimmed(r, Combined(win, recs))

\* What Evaluate looks at.
InView(r, win, recs) ==
    IF Window[r] = 0 THEN recs ELSE NextWindow(r, win, recs)

InGroup(r, g) == {x \in Matches[r] : GroupKey[r][x] = g}
\* The elements of a slice that has a record as often as the bag says.
Copies(bag, S) == UNION {{x} \X (1..bag[x]) : x \in S}
Size(bag, S) == Cardinality(Copies(bag, S))

\* evaluateCountThreshold, evaluatePatternMatch and evaluateRateThreshold: a
\* group exists only with a match.
MatchCount(r, g, bag) == Size(bag, InGroup(r, g))
ReachesThreshold(r, n) == n >= Needed[r]

\* sorted[i], for the values of the records of S in the bag.
AtRank(S, bag, i) ==
    Min({Value[x] : x \in {y \in S :
            /\ bag[y] > 0
            /\ Size(bag, {z \in S : Value[z] <= Value[y]}) > i}})

\* position in percentile, times 100, for n values.
Position(r, n) == Percentile[r] * (n - 1)

\* percentile, times 100: sorted[lower] + fraction * (sorted[upper] - sorted[lower]).
PercentileOf(r, S, bag) ==
    LET n == Size(bag, S)
        lower == Position(r, n) \div 100
        fraction == Position(r, n) % 100
    IN IF lower + 1 >= n
         THEN 100 * AtRank(S, bag, n - 1)
         ELSE (100 - fraction) * AtRank(S, bag, lower) + fraction * AtRank(S, bag, lower + 1)

\* evaluatePercentileThreshold for one group.
PercentileReached(r, S, bag) ==
    Size(bag, S) > 0 /\ PercentileOf(r, S, bag) >= 100 * Needed[r]

Triggers(r, bag) ==
    {<<r, g>> : g \in {h \in Groups :
        IF Percentile[r] = 0 THEN ReachesThreshold(r, MatchCount(r, h, bag))
                             ELSE PercentileReached(r, InGroup(r, h), bag)}}

-----------------------------------------------------------------------------
Tick ==
    /\ now < MaxTime
    /\ now' = now + 1
    /\ UNCHANGED <<arrived, rows, window, firing, consumerVars, schedulerVars>>

RecordsOf(b) == {x \in Records : BatchOf[x] = b}
BatchBag(b) == [x \in Records |-> IF BatchOf[x] = b THEN 1 ELSE 0]

\* ingest-api publishes a batch; its timestamps come from the sender.
Arrive(b) ==
    /\ b \notin arrived
    /\ \A x \in RecordsOf(b) : Time[x] < now + Skew
    /\ arrived' = arrived \cup {b}
    /\ UNCHANGED <<now, rows, window, firing, consumerVars, schedulerVars>>

(* The consumer. *)

ConsumerDone(p) ==
    /\ cstep' = [cstep EXCEPT ![p] = "idle"]
    /\ cbatch' = [cbatch EXCEPT ![p] = NoBatch]
    /\ cbroken' = [cbroken EXCEPT ![p] = {}]
    /\ ctriggers' = [ctriggers EXCEPT ![p] = {}]

\* A delivery passes the AlreadyProcessed check, and the rules are loaded.
\* (A delivery that does not pass changes nothing here.)
Deliver(p, b) ==
    /\ cstep[p] = "idle"
    /\ b \in arrived
    /\ rows[b] = 0
    /\ cstep' = [cstep EXCEPT ![p] = "evaluate"]
    /\ cbatch' = [cbatch EXCEPT ![p] = b]
    /\ \E broken \in SUBSET (RulesOf[b] \cap Broken) : cbroken' = [cbroken EXCEPT ![p] = broken]
    /\ UNCHANGED <<now, arrived, rows, window, firing, ctriggers, schedulerVars>>

\* The rules the loop reaches: the first broken one ends it, but only after
\* the engine took in the records.
Reached(p) == {r \in RulesOf[cbatch[p]] : \A q \in cbroken[p] : r <= q}

EvaluateBatch(p) ==
    LET b == cbatch[p] IN
    /\ cstep[p] = "evaluate"
    /\ window' = [window EXCEPT ![p] = [r \in Rules |->
          IF r \in Reached(p) THEN NextWindow(r, window[p][r], BatchBag(b))
                              ELSE window[p][r]]]
    /\ \/ cbroken[p] # {} /\ ConsumerDone(p)
       \/ /\ cbroken[p] = {}
          /\ cstep' = [cstep EXCEPT ![p] = "write"]
          /\ ctriggers' = [ctriggers EXCEPT ![p] = UNION
                {Triggers(r, InView(r, window[p][r], BatchBag(b))) : r \in RulesOf[b]}]
          /\ UNCHANGED <<cbatch, cbroken>>
    /\ UNCHANGED <<now, arrived, rows, firing, schedulerVars>>

\* WriteBatch; after an error the message is redelivered.
Write(p) ==
    /\ cstep[p] = "write"
    /\ \/ /\ rows' = [rows EXCEPT ![cbatch[p]] = @ + 1]
          /\ cstep' = [cstep EXCEPT ![p] = "sync"]
          /\ UNCHANGED <<cbatch, cbroken, ctriggers>>
       \/ UNCHANGED rows /\ ConsumerDone(p)
    /\ UNCHANGED <<now, arrived, window, firing, schedulerVars>>

\* SyncAlertState for a set of rules.
Synced(rules, triggers) == {a \in firing : a[1] \notin rules} \cup triggers

SyncBatch(p) ==
    /\ cstep[p] = "sync"
    /\ firing' \in {firing, Synced(RulesOf[cbatch[p]], ctriggers[p])}
    /\ ConsumerDone(p)
    /\ UNCHANGED <<now, arrived, rows, window, schedulerVars>>

(* The scheduler. *)

SchedulerDone(p) ==
    /\ sstep' = [sstep EXCEPT ![p] = "idle"]
    /\ srule' = [srule EXCEPT ![p] = 1]
    /\ sbroken' = [sbroken EXCEPT ![p] = {}]
    /\ observedAt' = [observedAt EXCEPT ![p] = 0]
    /\ found' = [found EXCEPT ![p] = NoRecords]
    /\ striggers' = [striggers EXCEPT ![p] = {}]

\* The rules that RunScheduledAlertEvaluation evaluates.
Evaluated == {r \in Rules : Window[r] > 0}

\* The ticker fires and the active rules are loaded.
StartEvaluation(p) ==
    /\ sstep[p] = "idle"
    /\ sstep' = [sstep EXCEPT ![p] = "query"]
    /\ \E broken \in SUBSET (Evaluated \cap Broken) : sbroken' = [sbroken EXCEPT ![p] = broken]
    /\ observedAt' = [observedAt EXCEPT ![p] = now]
    /\ UNCHANGED <<now, arrived, rows, window, firing, consumerVars, srule, found, striggers>>

\* What ClickHouse holds for the rule in [at - window, at).
InRange(r, at) ==
    [x \in Records |->
        IF x \in Selected[r] /\ Time[x] < at /\ at <= Time[x] + Window[r]
          THEN rows[BatchOf[x]] ELSE 0]

\* ORDER BY timestamp DESC LIMIT MaxRecords
Newest(bag) ==
    IF Size(bag, Records) <= MaxRecords THEN {bag}
    ELSE {f \in [Records -> 0..MaxRecords] :
            /\ \A x \in Records : f[x] <= bag[x]
            /\ Size(f, Records) = MaxRecords
            /\ \A x, y \in Records : f[x] < bag[x] /\ f[y] > 0 => Time[x] <= Time[y]}

NextRule(r) == r + 1

\* The query of the next rule; rules without a window are passed over, and
\* after the last rule the state is synchronised.
QueryRule(p) ==
    LET r == srule[p] IN
    /\ sstep[p] = "query"
    /\ \/ /\ r \in Rules /\ Window[r] > 0
          /\ \E bag \in Newest(InRange(r, observedAt[p])) : found' = [found EXCEPT ![p] = bag]
          /\ sstep' = [sstep EXCEPT ![p] = "evaluate"]
          /\ UNCHANGED srule
       \/ /\ r \in Rules /\ Window[r] = 0
          /\ srule' = [srule EXCEPT ![p] = NextRule(r)]
          /\ UNCHANGED <<sstep, found>>
       \/ /\ r \notin Rules
          /\ sstep' = [sstep EXCEPT ![p] = "sync"]
          /\ UNCHANGED <<srule, found>>
    /\ UNCHANGED <<now, arrived, rows, window, firing, consumerVars, sbroken, observedAt, striggers>>

\* Slip: an error leaves the loop and the triggers so far are synchronised.
SlipSyncPartial(p) ==
    LET r == srule[p] IN
    /\ sstep[p] = "evaluate"
    /\ window' = [window EXCEPT ![p][r] = NextWindow(r, @, found[p])]
    /\ found' = [found EXCEPT ![p] = NoRecords]
    /\ srule' = [srule EXCEPT ![p] = NextRule(r)]
    /\ \/ r \in sbroken[p] /\ sstep' = [sstep EXCEPT ![p] = "sync"] /\ UNCHANGED striggers
       \/ /\ r \notin sbroken[p]
          /\ sstep' = [sstep EXCEPT ![p] = "query"]
          /\ striggers' = [striggers EXCEPT ![p] =
                @ \cup Triggers(r, InView(r, window[p][r], found[p]))]
    /\ UNCHANGED <<now, arrived, rows, firing, consumerVars, sbroken, observedAt>>

\* Evaluate for the rule just queried; an error ends the whole evaluation.
EvaluateRule(p) ==
    LET r == srule[p] IN
    /\ sstep[p] = "evaluate"
    /\ window' = [window EXCEPT ![p][r] = NextWindow(r, @, found[p])]
    /\ \/ r \in sbroken[p] /\ SchedulerDone(p)
       \/ /\ r \notin sbroken[p]
          /\ striggers' = [striggers EXCEPT ![p] =
                @ \cup Triggers(r, InView(r, window[p][r], found[p]))]
          /\ found' = [found EXCEPT ![p] = NoRecords]
          /\ srule' = [srule EXCEPT ![p] = NextRule(r)]
          /\ sstep' = [sstep EXCEPT ![p] = "query"]
          /\ UNCHANGED <<sbroken, observedAt>>
    /\ UNCHANGED <<now, arrived, rows, firing, consumerVars>>

\* DispatchDueNotifications, which follows, is in NotificationDelivery.
SyncScheduled(p) ==
    /\ sstep[p] = "sync"
    /\ firing' = Synced(Evaluated, striggers[p])
    /\ SchedulerDone(p)
    /\ UNCHANGED <<now, arrived, rows, window, consumerVars>>

\* A failed query or transaction ends the evaluation until the next tick.
EvaluationFails(p) ==
    /\ sstep[p] \in {"query", "sync"}
    /\ SchedulerDone(p)
    /\ UNCHANGED <<now, arrived, rows, window, firing, consumerVars>>

\* The process ends and starts again: the engine is empty.
Restart(p) ==
    /\ window' = [window EXCEPT ![p] = [r \in Rules |-> NoRecords]]
    /\ ConsumerDone(p)
    /\ SchedulerDone(p)
    /\ UNCHANGED <<now, arrived, rows, firing>>

Next ==
    \/ Tick
    \/ \E b \in Batches : Arrive(b)
    \/ \E p \in Processors :
          \/ \E b \in Batches : Deliver(p, b)
          \/ EvaluateBatch(p)
          \/ Write(p)
          \/ SyncBatch(p)
          \/ StartEvaluation(p)
          \/ QueryRule(p)
          \/ EvaluateRule(p)
          \/ SyncScheduled(p)
          \/ EvaluationFails(p)
          \/ Restart(p)

Spec == Init /\ [][Next]_vars

-----------------------------------------------------------------------------
\* No record is in a window twice, although failed writes are redelivered
\* and the scheduler reads back what the consumer has passed in already,
\* unless ClickHouse itself holds its batch twice.
CountedOnce ==
    \A p \in Processors, r \in Rules, x \in Records :
        window[p][r][x] > 1 => rows[BatchOf[x]] > 1

\* The windows are well formed and count a record once, whichever goroutine
\* passes it in first and however often its batch is redelivered.
WindowsOK == TypeOK /\ CountedOnce

\* Enough distinct records of the group, close enough to each other (fewer only
\* if ClickHouse holds one of them twice); for a percentile rule, records of
\* which one reaches the threshold.
Justifies(S, r, g) ==
    /\ \A x \in S : x \in InGroup(r, g) /\ BatchOf[x] \in arrived
    /\ IF Percentile[r] = 0 THEN Cardinality(S) >= Needed[r] \/ \E x \in S : rows[BatchOf[x]] > 1
                            ELSE \E x \in S : Value[x] >= Needed[r]
    /\ IF Window[r] = 0 THEN \A x, y \in S : BatchOf[x] = BatchOf[y]
                        ELSE \A x, y \in S : Time[x] <= Time[y] + Window[r]

\* An alert fires only for logs that were really sent: threshold many
\* different records of its group within one window, unless ClickHouse holds
\* the batch of one of them twice.
FiringIsJustified ==
    \A a \in firing : \E S \in SUBSET Records : Justifies(S, a[1], a[2])

\* What percentile means, without sorting or interpolating: of n values in the
\* window, a group triggers when at most P% of n - 1, rounded down, are below
\* the threshold, and does not when more than that, rounded up, are.
PercentileAgrees ==
    \A p \in Processors, r \in Rules, g \in Groups :
        LET bag == window[p][r]
            n == Size(bag, InGroup(r, g))
            below == Size(bag, {x \in InGroup(r, g) : Value[x] < Needed[r]})
        IN Percentile[r] > 0 /\ n > 0 =>
              /\ 100 * below <= Percentile[r] * (n - 1) => <<r, g>> \in Triggers(r, bag)
              /\ 100 * (below - 1) >= Percentile[r] * (n - 1) => <<r, g>> \notin Triggers(r, bag)

\* The records of a group that the scheduler's query returned.
FoundIn(p, r, g) == {x \in InGroup(r, g) : found[p][x] > 0}

\* The window holds what the query returned of a batch, or nothing of that
\* batch.  A query cut short by LIMIT can leave it with another part, and then
\* the ingest id hides the rest of the batch for as long as that part stays.
WholeBatches(p, r) ==
    \A x \in Records :
        found[p][x] > 0 /\ BatchOf[x] \in IngestIDs(window[p][r]) => window[p][r][x] > 0

\* A scheduled evaluation of a counting rule whose query returns enough records
\* of a group triggers, whatever the engine remembers from earlier batches, unless a
\* remembered record is newer than the evaluation and moves the window on, or
\* the window holds a batch in part.
FoundRecordsTrigger ==
    [][\A p \in Processors, g \in Groups :
          /\ sstep[p] = "evaluate" /\ sstep'[p] = "query"
          /\ Percentile[srule[p]] = 0
          /\ \A x \in Records : window[p][srule[p]][x] > 0 => Time[x] < observedAt[p]
          /\ WholeBatches(p, srule[p])
          /\ Cardinality(FoundIn(p, srule[p], g)) >= Needed[srule[p]]
          => <<srule[p], g>> \in striggers'[p]]_vars

\* An evaluation that meets an error changes no alert: rules it did not reach
\* are not resolved for want of triggers.
FailedEvaluationIsSilent ==
    [][firing' # firing =>
          \E p \in Processors :
             \/ cstep[p] = "sync" /\ cbroken[p] = {}
             \/ sstep[p] = "sync" /\ sbroken[p] = {}]_vars

\* docs/operations.md: alerts can resolve even when no new batch arrives.  A
\* scheduled evaluation resolves a rule whose records are all older than the
\* window.
StaleAlertsResolve ==
    [][\A p \in Processors, r \in Evaluated :
          /\ sstep[p] = "sync" /\ firing' = Synced(Evaluated, striggers[p])
          /\ \A x \in Matches[r] : BatchOf[x] \in arrived => Time[x] + Window[r] < observedAt[p]
          => \A g \in Groups : <<r, g>> \notin firing']_vars
=============================================================================
