# A TLA+ model of the real-time log aggregator

This directory models the parts of the log aggregator in which state changes
hands between processes: the path of a batch from `ingest-api` to ClickHouse,
the alert rules, their evaluation and the alert state machine, the delivery
of notifications, the schema migrations, and the paged reads and the service
graph of `query-api`. TLC checks the modules on small instances; TLAPS proves
every safety property of the passing runs for every value of the constants.

## 1. Inventory

| Component | State | Operations | Talks to |
|---|---|---|---|
| ingest admission (`internal/ingest`, `internal/auth`) | key table (Postgres), one in-memory rate window per key and process | authenticate, rate-limit, check lag, publish, answer | Postgres, JetStream, queue monitor |
| stream (`internal/stream`) | messages, delivery counts, duplicate window, dead letters | publish with `Nats-Msg-Id`, fetch, ack, nak, term, AckWait, MaxDeliver, DLQ publish | ingest-api, processors |
| batch consumer (`internal/processor/consumer.go`, `clickhouse.go`) | rows per (tenant, ingest id) in ClickHouse | decode, `AlreadyProcessed`, load rules, evaluate, `WriteBatch`, `SyncAlertState` | JetStream, ClickHouse, Postgres, engine |
| rule engine (`internal/alerts/engine.go`, `evaluator.go`) | one window of records per rule, in memory | merge by ingest id, trim, filter, group, count or take a percentile, compare | consumer and scheduler goroutine |
| scheduled evaluation (`alert_scheduler.go`) | none of its own | load rules, query, evaluate, sync, dispatch | ClickHouse, Postgres, engine |
| alert state machine (`internal/alerts/state.go`) | `alert_instances` | read, reconcile, write, enqueue notices | Postgres, outbox |
| outbox and delivery (`notifications.go`, `delivery_worker.go`, `webhook.go`) | `notification_deliveries`, `notification_delivery_attempts` | enqueue, claim under lease, dispatch, record with fence | Postgres, webhook |
| rule CRUD (`internal/queryapi/alert_rules.go`) | `alert_rules`, `services` | create, patch, delete, list, get | Postgres, evaluators |
| migrations (`internal/migrate`, `cmd/migrate`, `cmd/postgres-migrate`, `db/`) | `schema_migrations` of both databases, the tables themselves | list, apply statement by statement, record | Postgres, ClickHouse, and the processor that writes meanwhile |
| log search, analytics, alert history (`internal/queryapi`) | none; a client's walk along `next_offset` spans many requests | probe the shards, query, answer with `next_offset`, `truncated`, `partial` or a stream | ClickHouse, Postgres |
| service graph (`graph.go`) | the maps of one request | read records, group them into flows, count nodes, edges and sessions | log search |
| incidents, DSL, playground, dashboard, embeddings, CLI, load test, probes, metrics | none, or counters nobody reads | stateless reads and clients | |

What is hard here: every step of a batch is a separate call to another service,
each can fail with or without having taken effect, and processors can die
between any two of them (redelivery, lost replies, late inserts); consumer,
scheduler and delivery worker of every replica share Postgres rows under READ
COMMITTED without locks; time enters through AckWait, leases, cooldowns and
event-time windows, and it is often read before and used after a wait.

What makes each part correct, in one line each:

- pipeline: nothing is acknowledged before it is stored, nothing terminated
  before it is dead-lettered, nothing processed twice, nothing lost, nothing stuck;
- alert state: one current row per key, one announcement per incident, cooldowns kept;
- engine: a record counts once, an alert fires only for enough real records in a window;
- delivery: the audit table is complete, the fence holds, every notice ends, duplicates only where the lease allows them;
- admission: only authorized batches, at most the limit per second, a bounded queue;
- rules: tenants cannot touch each other's rules, answers are true, deletion is
  final, a PATCH undoes nothing it could have seen;
- migrations: no row is lost or doubled, a recorded version is complete, reruns converge;
- reads: a walk misses and repeats nothing, and an incomplete answer says so;
- graph: every flow counts once, in whatever order maps and equal timestamps come.

`PROJECT.json` lists every component, the hazards at their source lines with
the properties aimed at them, and the source lines of every definition.

## 2. Modules

| Module | Models | Main variables and the code state they stand for |
|---|---|---|
| `LogPipeline` | `nats.go`, `dlq.go`, `consumer.go`, `clickhouse.go`, the publishing end of the ingest handler | `mstate`, `delivered` (stream and durable consumer), `recent` (duplicate window), `rows`, `late` (ClickHouse), `syncs` (alert state), `dlq`; per processor the next call `pc`, the held message, its delivery count |
| `BatchLedger` | nothing: the abstract promise of the pipeline | `entry`, `attempts`, `stored`, `quarantined` |
| `AlertState` | `SyncAlertState` | `table` (two places per key, as the UNIQUE constraint allows), per syncer `snap`, `scope`, `triggered`, `observedAt` |
| `NotificationDelivery` | claim, dispatch and record | the columns of a row; per worker its claims, current row and phase |
| `RuleEngine` | `Engine.Evaluate`, the consumer's and the scheduler's use of it | `window` (a bag of records per rule and processor), `rows`, `firing`, the steps of both goroutines |
| `IngestAdmission` | `Handler.ServeHTTP` with authenticator, limiter and backpressure | `active` keys, the limiter's `windowStart` and `count` per process, `pending`, `late` (publishes nobody waits for), the step of every handler |
| `RuleCatalog` | rule CRUD, rules inserted by operators, rule loading | `table`, `services`, the statement a client is at, the row it is about to write, the rules an evaluator holds |
| `Migrations` | `RunPostgres`, `RunClickHouse`, the two commands, `db/clickhouse/001` to `004` | `table` (each ClickHouse table: rows, whether it is Distributed, whether it has the template columns), `recorded`, `pgRecorded`, `late` (statements whose client gave up); per runner the set `todo` of versions it found pending, of which it takes the smallest, and its statement |
| `PagedReads` | the handlers and SQL of `/v1/logs`, its stream, `/v1/graph`, `/v1/analytics`, alert history, audit and deliveries | `items` (rows with their sort column and status), `up` and `linked` (shards), the request, the handler's `phase`, `got` (all the walk returned) |
| `ServiceGraph` | `buildServiceGraph` and its helpers | `nodeMap`, `edgeMap`, `sessions`, and the sets of the flow in progress |
| `LogPipeline_proofs`, `IngestAdmission_proofs`, `AlertState_proofs`, `NotificationDelivery_proofs`, `RuleEngine_proofs`, `RuleCatalog_proofs`, `Migrations_proofs` | | inductive invariants and theorems about the module each is named after |
| `QueryAPI_proofs` | | the same for the two read-side components, `PagedReads` and `ServiceGraph` |
| `MC*` | | values of the constants; `MCQueryAPI` brings the two read-side components into one run |

One action is one handler step between two points where other processes can
run: a database or stream call, a lock, or a wait. Every call has its failure
disjuncts (no effect; effect and lost reply). Definitions named `Slip...` are
the mistakes somebody could make in the code modelled next to them; no action
uses them, they exist to show that each property notices such a mistake.

Variables under the heading *history* are not in the program. They record why a
promise may be void (`overlapped`: two actors worked on the same batch or key at
the same time; `abandoned`: an INSERT nobody waited for; `died`: a process died
on a message; `backdated`: `last_fired_at` was set back; `reclaimed`: a lease
expired; `shared`: a notification was claimed while another worker of the same
id had it in hand; `disordered`: an old second came to the limiter; `unchecked`: a request
went on without a lag below the watermark; `raced`: a rule was written between
the read and the write of a PATCH; `torn` and `exposed`: a runner stopped inside
a table rewrite, and a row was written during one; `grown`, `retreated`, `tied`,
`dark`, `shifted`, `blind`, `cut`: what happened to the data and the shards
during a walk). Most of the code's promises hold
only outside such a situation, and a property of the form "X unless Y" shows
both that the code is right in the ordinary case and that Y is the *only* way
to break it.

The modules meet at shared state. `LogPipeline` counts syncs, `AlertState` says
what one sync does, `RuleEngine` which triggers it gets, `RuleCatalog` which
rules are loaded, and `NotificationDelivery` starts with the row that
`AlertState` enqueues. `LogPipeline` implements `BatchLedger` under the mapping
at the end of that module. `Migrations` has the processor's INSERT as its
environment; `PagedReads` reads what pipeline, alert state and delivery write,
and gives `ServiceGraph` its records.

### Abstractions

- A batch stands for its fingerprint, which is request id, `Nats-Msg-Id` and
  ingest id in one. Normalisation and templating only decide accept or reject.
- `AlertState` runs the write half of the transaction in one step: each key is
  touched by at most one statement, locks are held to the end, and the only
  dependence on the table is the UNIQUE constraint.
- `NotificationDelivery` keeps time as distances (`wait`, `age`); the retry
  delay is any value up to its maximum. `WorkerID` gives every worker an id, and
  workers may share one; the instances give delivery workers an id of their own
  and all inline dispatchers the same, as the code does.
- `RuleEngine` compares attributes (service, level, host, ...) as whole values,
  with the rule's columns overriding its `filter_json` as in
  `applyRuleModelFilter`; the tests on text are a given set of records per rule
  (`Passes`). `group_by` has at most one attribute: with several, the code joins
  the values with `|`, and that joining is not modelled. Percentiles are
  computed exactly on integers scaled by 100, so rounding of floating point
  numbers is outside the model. How many logs a bag holds is the cardinality of
  the set of their copies (`Size`). A rule may be broken or not each time it is
  loaded, since an operator may repair it.
- `RuleCatalog` keeps the columns that are not simply copied: the service (with
  its environment), which may be NULL and is then read as ''; the level, stored
  in lower case as the fingerprint is stored trimmed; the cooldown and the
  status, which CREATE completes. All other columns are copied and patched like
  the cooldown. Operators insert rules with any level, for a service or for all,
  as `docs/operations.md` shows.
- `Migrations` keeps of a ClickHouse table how many copies of each row it has.
  A statement that was cut off leaves nothing, everything, or a part (some rows
  of an INSERT SELECT, the first half of a RENAME of two tables). What the SQL
  of a Postgres version does is reduced to whether it may be repeated; the
  constants name one version that may and one that may not.
- `PagedReads` keeps of a row its sort column and whether it passes a status
  filter. The other conditions of the WHERE clause, the tenant among them, and
  the arithmetic of aggregates are SQL text and outside the model. The order of
  rows that ORDER BY leaves open is chosen anew for every query. One client
  walks; reads do not disturb each other. The ids that break ties in the history
  stand for any total order (for the audit it is the text of `audit_id`). The TTL
  of log rows is left out: a row that expires during a walk would count as
  `retreated`.
- `ServiceGraph` takes records in the order in which the code has sorted them:
  all sequences are explored, so equal timestamps come in every order. The
  order of flows is a choice in each step, as Go's map iteration is. Spelling
  variants of a service are a given function (`Normalize`); a field is the
  sequence of values of its alternative spellings, in the code's order. What the
  graph should be is said of sets of records (`Linked`, `Failing`,
  `Propagating`, `BothFail`), so that the same words describe a whole flow and the part of
  it that the loop has walked. Its operators are named `GraphInit`, `GraphNext`
  and `GraphSpec`: one module extends it together with `PagedReads`.
- `IngestAdmission` takes `Authorize` as one step: of what its statements read
  only the status of the key can change, and only the first reads it. A request
  whose key no row holds is answered 401 and changes nothing, so none is made.
- `IngestAdmission` lets operators revoke keys but not reactivate them, and a
  request can reach any process. An event that was sent may be stored after its
  handler gave up on the reply or was killed; `MaxLate` bounds how many are on
  their way at once.

## 3. Runs

| Run | Instance | Distinct states | Shows |
|---|---|---|---|
| `pipeline_replicas` | 1 batch, 2 copies, 2 processors, MaxDeliver 2, late inserts, symmetry | 1.3 M | settled messages are safe; double writes and double syncs need an overlap or an abandoned INSERT; a loss needs a death |
| `pipeline_progress` | a good and a malformed batch, 1 processor, MaxDeliver 2, late inserts | 190 k | every message ends; dead letters have their true reason; the pipeline implements `BatchLedger`, liveness included |
| `alerts_syncers` | 1 key, consumer and scheduler, cooldown 2, 5 clock values, evaluation times up to 2 late | 460 k | one row, one announcement, the cooldown, each unless transactions overlapped or time went backwards; a key with two rows is stuck |
| `delivery_workers` | 2 rows claimed together, a delivery worker (1 attempt) and 2 inline dispatchers of one id (3 attempts), lease 1, dispatches of up to 1, 1 fault | 640 k | counter, audit and fence agree except where two holders had the same id; duplicates only after an expired lease; every notice ends |
| `engine_evaluation` | 5 records in 3 batches, 3 rules (windowed count, per batch, windowed median), 3 groups, LIMIT 3, two rules may break | 960 k | windows count a record once, fire only with cause, trigger on what the query found; percentiles agree with a definition that counts the values below the threshold; failed evaluations are silent |
| `ingest_handlers` | 2 concurrent requests, 2 processes (reject, delay), 2 keys of 2 tenants, limit 1, watermark 1, 3 messages waiting, 1 late publish, failing statistics | 3.9 M | authorization, rate limit, the queue bound, which is reached |
| `rules_clients` | 2 clients of any of 2 tenants, operators, 1 evaluator, 1 rule row, 2 spellings of a level, statuses '' and active, symmetry | 2.0 M | isolation, true answers, final deletion, quiet deleted rules; a PATCH changes only what was sent, spelling and NULL apart, or what raced with it |
| `migrations_runners` | 2 runners, 1 row, 2 Postgres versions, the 4 ClickHouse versions, 1 fault | 280 k | no row lost or doubled, recorded means done, convergence |
| `query_reads` | 3 items, 2 sort values, pages of 1 and 2, largest offset 2, 2 shards; or all sequences of up to 4 of 14 records | 3.5 M | nothing skipped or repeated without one of the named causes; short answers without a flag are complete; the loops agree with a definition of the graph that has none |
| `doc_*` (3) | as small as the disagreement allows | | see section 5 |

Where several small statements belong to one idea, a run checks their
conjunction: `TableOK`, `OutboxOK`, `WindowsOK`, `CatalogOK`, `RowsKept`,
`WalkIsFaithful`, `LoopsOK` and `GraphAgrees` are each made of parts that are
defined and explained just before them. The type invariant of the module is one
of the parts, except in `GraphAgrees`.

Why these bounds are enough to be interesting: two deliveries give a first, a
repeated and a last one; two copies give resubmission after the duplicate
window; two processors, syncers, workers, handlers and clients give every
pairwise race. `pipeline_replicas` reaches overlap, late inserts and exhausted
messages together. In `alerts_syncers` a key's cooldown can pass and be
undercut within the clock, and the wedge of two rows is reached; a second key
would interact only through the rollback of a shared transaction, and
`Rollback` can happen at any time anyway. `engine_evaluation` has one processor,
so ClickHouse never holds a batch twice and the exemption in `CountedOnce` is
not used there, nor is the one in `FiringIsJustified` (a log that ClickHouse
holds twice counts as two); the theorems cover both, and the invariant behind
them was also run with two processors. One fault in `migrations_runners` is enough to leave any version
at any statement, and the second runner is the rerun or the rival; the same
properties were also explored once with two faults (safety with two rows, 15.5
million states; convergence with one row, 1.3 million) and hold. In
`query_reads` three items and pages of one give walks of three requests, which
reach the largest offset and go beyond it. The 14 records of the graph
have sessions, requests, traces and users, alternative spellings of which the
first is empty, a service that is only named, and a record without a service.
`ingest_handlers` bounds the messages waiting, not the messages ever stored; the
sum of waiting and late ones can exceed the bound of `QueueBounded` by one, so
the property is not met by the bounds alone. In `delivery_workers` the second
row of a batch can outlast the lease, so that one inline dispatcher records over
the claim of another: both exemptions of `shared` are used, and without the one
in `AuditMatchesCount` TLC finds the counter behind the file. The clocks of that
run agree; the theorems hold for any lag, and the safety properties were also
explored with clocks one behind and dispatches of up to six (one row, two
faults, 1.1 million states). The services of `rules_clients` exist from the
start, so that the service '' of a PATCH is the one that is inserted; its
clients send no `disabled`, which the evaluators cannot tell from ''.

The two halves of `query_reads` share no state; a behaviour is one of them, and
the other stands still (`MCQueryAPI`).

`CHECK_DEADLOCK FALSE` is set for the pipeline only: when all copies of all
batches are settled and every duplicate window has passed, nothing is left to
do. Symmetry is used only where no liveness property is checked.

### Fairness

- `LogPipeline`: weak fairness of fetching, of the handler's next step, of the
  restart and of AckWait. The code loops on `Fetch` with a one-second wait,
  every call has a timeout, `log.Fatal` ends a processor that a supervisor
  starts again, and AckWait is the server's timer. Nothing is assumed of
  clients, of the success of any call, or of the absence of crashes.
- `NotificationDelivery`: weak fairness of the clock, of polling and of the
  worker's next step; the poll ticker and the HTTP client's timeout justify it.
  Faults are bounded by `MaxFaults`. `delivery_workers` has `Timeout <= Lease`,
  and `EventuallyFinal` needs it: with a row that takes longer than the lease,
  the row is claimed again before its result is recorded, for ever, and no
  attempt is ever counted. The default lease of two minutes is well above the
  webhook's timeout, but it covers a batch of fifty rows that are sent one after
  the other; that a batch outlasts its lease is part of the run.
- `Migrations`: weak fairness of a runner's next step and of the end of
  statements in the server, strong fairness of starting a runner with target
  `all`. The last is about people: an operator, or a deployment that repeats its
  job, runs a migration that failed again. Faults are bounded by `MaxFaults`.
  `Converges` says how far this goes: Postgres always, ClickHouse unless a
  runner stopped inside version 002 or 003.
- The other modules promise safety only and assume no fairness.

## 4. Proofs

The modules named `..._proofs` are checked by TLAPS. Their theorems hold for
any sets of batches, processors, keys, workers, rules, runners, rows, shards and
so on, and any limits, that satisfy the named assumptions of the modules:

| Assumption | Says |
|---|---|
| `PipelineAssumption`, `AdmissionAssumption`, `AlertStateAssumption`, `CatalogAssumption`, `DeliveryAssumption`, `EngineAssumption`, `ReadsAssumption`, `GraphAssumption` | constants have their types: limits are natural numbers, page sizes and attempts at least 1, markers such as "nobody" are not members of the sets they complement; the records of `RuleEngine` are a finite set, since batches are; `Normalize` is defined on the names that records hold and maps the empty name to itself |
| `WorkersAssumption` | the same for the markers of the outbox, and some worker's clock is the one furthest behind |
| `MigrationsAssumption` | the Postgres files and the rows are finite sets; the ClickHouse files are the four of `db/clickhouse`, as data |
| a service and a process exist (admission), a handler exists (`QueueBoundedSafe`) | stated in the theorems |

Nothing is assumed about the number of crashes, lost replies or overlaps: the
bounds on faults are constants too. No invariant that is worth stating is
inductive as it stands. A process acts on what it read one or more calls ago, so
each inductive invariant says what is left of that knowledge when others have
acted in between. The largest were first checked with TLC: `MigrationsInv` (1.3
million states with two faults), `ReadsInv` (2.5 million), `JustifiedInv` (the
instance of the run, and a smaller one with two processors) and `GraphInv` (1.6
million).

- `TypeCorrect`. The invariant `Handling` adds that a processor in a handler
  holds a message of the stream and a delivery count that the stream agrees
  with, and that a ready message has deliveries left.
- `SettledSafe`, `QuarantineSafe`, `AlertsSafe`, `AcceptedSafe`. None of these
  is inductive: a message may be acknowledged because of what a processor saw
  four calls ago. `Accounted` says what each position of a processor knows: at
  `ack` the batch has rows, at `term` it is dead-lettered, past `decode` it is
  well formed, and the reason it carries is true. Rows, dead letters and
  delivery counts only grow (`NextGrows`), so the knowledge of other processors
  stays valid.
- `WrittenOnceSafe`, `SyncedOnceSafe`. `ExclusiveOK`: a batch that never
  overlapped is in the hands of at most one processor. `UnwrittenOK` and
  `UnsyncedOK`: that processor, between the check and the write (the sync), is
  right that there are no rows (no sync) yet. `LateIsAbandoned` ties late
  inserts to the history.
- `LossNeedsDeathSafe`. `NakOK`: the last delivery is never given back;
  `LastDeliveryOK`: whoever holds a message on its last delivery without a
  result, or died on it, is on record.
- `PipelineImplementsLedger`. Every step of the pipeline maps to a step of
  `BatchLedger` or to a stutter; `LedgerInv` adds that what is late or held has
  entered the stream.
- `AdmissionTypeCorrect`; `QueueBoundedSafe` with the invariant that messages
  pending, messages promised (handlers past the check) and messages on their way
  with nobody waiting are bounded together;
  `AuthorizationSafe`, which rests on the fact that a key found active at the
  lookup was active on arrival, because keys are only ever revoked; `RateSafe`,
  where `RateOK` says that the counter of a window is the number let through in
  its second, and later seconds are untouched.

- `AlertState_proofs`. `AlertInv`: for a key without overlap, a running
  transaction's snapshot is still the table and no other transaction covers the
  key (`Current`), the key has one row (`Single`), a triggered notice that no
  resolved one has followed belongs to a firing row (`Announced`), and
  `last_fired_at` is not before the last notice unless it was set back
  (`Cooling`). It gives `TableSafe`, `AnnouncedOnceSafe` and `CooldownSafe`. For
  any key, overlapped or not, no two rows have the same status (`Unique`, the
  UNIQUE constraint), which is what `WedgeSafe` rests on.
- `RuleCatalog_proofs`. `CatalogInv`: at each statement of a request the client
  knows which kind of request it serves, whose row it is about to write, and
  whether it has written (`Staged`); a PATCH with which nothing raced is about to
  write the present row, patched (`Fresh`). `CatalogSafe` reads the answers off
  `Staged`; `TenantsSafe`, `DeletedSafe` and `PatchSafe` are action properties,
  proved for every step from the invariant. `PatchSafe` says of every column what
  the store makes of it (`AsStored`): the level in lower case, the service ''
  for NULL, anything else as it is (`PatchedFields`).
- `NotificationDelivery_proofs`. `DeliveryInv`: the lock of a row belongs to its
  last claimer (`Locks`); the attempts a worker remembers of a row are on file and
  some policy allowed one more (`Remembers`), and a worker that still has the lock
  remembers the attempt count of the row, unless the row is `shared` (`Knows`); a
  positive result was an acceptance (`Told`); a row that is not final has an
  attempt left (`Left`); and while no lease of the row has expired, one worker at
  most has it in hand, and has it locked, and once it was accepted only to record
  it (`Once`). Nothing is assumed of the ids: `OutboxSafe`, `DuplicateSafe` and
  `FenceSafe` hold for workers that share one, as all inline dispatchers do. What
  is lost with them is said in the properties: a row is `shared` once it was
  claimed while another worker of the claimer's id had it in hand, and for such a
  row the counter may fall behind the file, and the late result of the earlier
  claimer is written. For every other row only the latest claimer decides.
- `RuleEngine_proofs`. `EngineInv`: a query returns twice only what ClickHouse
  holds twice (`FoundOnce`), which with the merge by ingest id gives
  `WindowsSafe`; broken rules lie ahead of the loop (`ConsumerAhead`,
  `SchedulerAhead`), so a loop that reached its sync met none (`FailureSilent`).
  `PercentileSafe` says what sorting and interpolating compute, without a sort:
  the value at rank i, counted from 0, reaches the threshold exactly when at most
  i copies lie below it (`AtRankReaches`), and `Interpolation` carries this over to a
  position between two ranks. `JustifiedInv` adds that what the windows and the
  queries hold was sent (`RowsArrived`, `WindowArrived`, `FoundInRange`) and that
  what a goroutine is about to report, perhaps long after it saw it, has a
  witness (`TriggersJustified`); the witnesses survive because batches stay sent
  and rows are only added. It gives `JustifiedSafe`. `FoundTriggersSafe` rests on
  `FoundInRange`: what the query found is newer than what the trim removes, so
  with nothing newer and no partial batch in the window all of it is there after
  the merge (`FoundStays`).
- `Migrations_proofs`. The ClickHouse runner has no transaction and no lock, and
  a statement whose client gave up may still run. The names of tables are the
  lock: CREATE of `logs_optimized` and the RENAME to `logs_single_node` succeed
  once. `OneOptimizer` and `OneDistributor` say that whoever got past such a
  statement, or one statement it left behind, is alone; `StillEmpty` and
  `StillApart` that its copy has not happened yet; `Catalogue` in which order
  tables appear; `Whereabouts` which table is full at which point; `Columns` the
  same for 004. `RowsSafe`, `CopiedSafe` and `RecordedSafe` follow for any number
  of runners, rows and faults. `PostgresSafe` needs only the order of versions
  (`PgOrder`, since the version row is inserted in the transaction).
- `QueryAPI_proofs`, `PagedReads`. An offset counts rows, so the argument is about ranks (the
  number of rows before an item, a cardinality). `Ahead`: unless something left
  or moved down, what has not been returned has at least `offset` rows before it;
  `Behind`: unless something came or moved up, what has been returned has fewer.
  `PlaceIsRank` ties ranks to places: in any sorted list of the rows the item at
  place n has n - 1 rows before it when the order is total, which is what the
  tiebreak by id is for. This gives `WalkSafe` for any data, page size and
  `maxOffset`. `ShortSafe` uses `Seen` (a probe that found nothing saw all shards
  up) and the fact that a window shorter than LIMIT reaches the end of the list.
- `QueryAPI_proofs`, `ServiceGraph`. `GraphAgrees` says something only of the end,
  so `GraphInv` says what every variable is at each step, in the words of the
  final definition: the lists of the first loop are the records of each flow in
  ascending order (`FlowsInv`), the nodes those of the records counted, the flows
  closed and the records walked (`NodesInv`), the edges those of the closed flows
  (`EdgesInv`), the scratch that of the walked part of the open flow
  (`ScratchInv`), and each closed flow has one session, its summary
  (`SessionsInv`). The edges are exactly what the loop counts, which lies within
  the bounds of `EdgesAgree` (`PropagatingFails`). Sums become cardinalities, and a step adds one element to a
  set (`CountOneMore`), so no induction over the records is needed: it is the
  steps of the loop. The core is `StepsAfter`: with one more record after all
  others, the pairs of neighbours are the old ones and the pair of the last two,
  which is why comparing with the previous record finds all inferred edges.
  `LoopsSafe` (no missing node, counts nest) and `GraphSafe` (the answer is the
  graph) follow, for any number of records, any fields and any order.

Only model-checked:

- liveness (`EveryMessageEnds`, `EventuallyFinal`, `Converges`, and the liveness
  part of `ImplementsLedger`), which TLAPS cannot prove with its installed
  backends. Every other property of a passing run is stated by a
  theorem.

## 5. Where code and documentation disagree

Each is a run whose property quotes the documentation and that TLC violates.

- `doc_ack_reconciled`: a sync that fails after the write is not repeated; the
  redelivery finds the rows and is acknowledged.
- `doc_scheduled_resolve`: a window ends at its newest record, so silence never
  resolves an alert that the engine remembers.
- `doc_repeated_notice`: a match of a firing incident is never announced again,
  however long it lasts, while the state diagram at `docs/architecture.md:493`
  shows a notice after the cooldown. `docs/operations.md:292` says what the code
  does, and `AnnouncedOnce` states that.

Other behaviour met while modelling, visible in the exemptions of the passing
properties or in single actions:

- all inline dispatchers are `processor-inline` (`notifications.go:137`), so the
  fence does not tell them apart, and a late result of the first claim sets
  `attempt_count` back below the attempts on file, while `docs/operations.md:316`
  says that every attempt is recorded and counted (the exemption `shared` of
  `OutboxOK` and `FencedByLatestClaim`);
- a PATCH writes back every column as it read it. A rule of all services
  (`service_id` NULL) is read with the service '', a service of that name is
  created, and the rule is loaded for no batch of a named service any more; a
  level is rewritten in lower case. `docs/api.md:227` speaks of the supplied
  fields only, and `PatchUndoesOnlyRaces` says exactly what else changes;
- an error counts as propagated when two consecutive *records* of a flow are
  errors of different services; `docs/api.md:208` asks only that consecutive
  services both emitted errors. `GraphAgrees` takes the first as the lower and
  the second as the upper bound of the count;
- overlapping syncs give a key a firing and a resolved row (the exemption of
  `TableOK`, and `WedgeIsPermanent` for what follows), while
  `docs/architecture.md:501` says that the row represents current state;
- two PATCH requests at the same time undo each other's fields
  (`PatchUndoesOnlyRaces`);
- two replicas that hold the same message write its rows twice
  (`WrittenOnce`; `docs/operations.md:401` says the check prevents it);
- a processor that dies on the last delivery loses the batch silently
  (`LossNeedsDeath`; `docs/jetstream.md:102`);
- overlapping syncs announce one reopening twice (`AnnouncedOnce`), and a
  delayed batch sets `last_fired_at` back, so that the next reopening is
  announced inside the cooldown (`CooldownRespected`);
- a worker whose lease expired rolls its audit row back with the rest, so a
  dispatch that happened has no attempt on record, and a slow batch is sent
  twice without any crash (`DuplicateNeedsExpiry`);
- an old second at the limiter resets the window twice (`RateRespected`);
- backpressure is off whenever the statistics cannot be read, and no check sees
  a publish that is still on its way (`QueueBounded`);
- a key that is revoked after its lookup still admits the request
  (`AdmittedIsAuthorized` asks for a key that was active on arrival);
- PATCH stores an empty status and a cooldown of 0, which CREATE replaces by
  `active` and the default;
- the alert of a rule that is deleted while firing is never looked at again;
- rows that ClickHouse holds twice are counted twice (`CountedOnce`), and a
  batch of which a truncated query put a part into the window hides its other
  records as long as that part stays (`FoundRecordsTrigger`);
- migrations: nothing but the names that CREATE and RENAME take keeps two
  ClickHouse runners apart, and it suffices (`CopiedOnce`). A runner that stops
  inside 002 or 003 leaves a version that can never be run again (`Converges`);
  after the RENAME of 003 there is no table `logs` until somebody repairs it,
  and version 001 of a late runner can create an empty one in that gap. Both
  rewrites copy the whole table in one statement, for which the client waits
  30 seconds. Rows written during a rewrite stay in the old table
  (`RecordedIsComplete` exempts them, `RowsKept` does not);
- reads: `/v1/logs` sorts by the timestamp alone, so rows of the same
  millisecond can be skipped or repeated between pages; a walk with a status
  filter skips rows when rows it has returned leave the filter
  (`WalkIsFaithful`). Analytics answers are cut at LIMIT without a flag.
  `docs/architecture.md:316` calls `partial` a conservative signal of
  completeness; it is false, and rows are missing, when a shard goes away
  between probe and query (`ShortIsComplete`);
- graph: edges are also inferred in user flows, which `docs/api.md` does not
  name; the `session_id` filter looks at one spelling of the
  field while grouping accepts all; and an empty value under the first spelling
  hides the others.

## 6. Not modelled

- Incidents (a template search, a log read and one call of a model service in
  sequence), the translation of the query DSL to parameters, and the playground
  page: no state, no retry, nothing that two of them could disturb.
- The text of SQL conditions, the matching of text in rules, the parsing of
  numbers and times: conversions that tests cover better than a model checker.
- Configuration, wiring, probes, metrics and logging: no decision that the
  models leave out.
- Replay modes and provisioning of the stream: an operator's tools. Replays
  redeliver what `AlreadyProcessed` filters, as redelivery does.
- Embeddings, command-line client, load test and dashboard: clients.

## 7. Plan

Done, in this order: `LogPipeline` with `BatchLedger` and its proofs,
`AlertState`, `NotificationDelivery`, `RuleEngine`, `IngestAdmission` with its
proofs, `RuleCatalog`, `Migrations`, `PagedReads`, `ServiceGraph`; then the
proofs about `AlertState`, `RuleCatalog`, `NotificationDelivery`, `RuleEngine`,
`Migrations`, `PagedReads` and `ServiceGraph`.

Next:

1. Composition of `RuleCatalog` and `AlertState`: alerts of rules that are
   deleted, disabled or changed while a sync runs.
2. The retry delay, fingerprint and group keys against reference definitions.
3. Replay modes of the stream consumer beside the durable one.
