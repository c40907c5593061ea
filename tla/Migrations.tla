----------------------------- MODULE Migrations -----------------------------
(***************************************************************************)
(* The schema migrations: cmd/migrate, cmd/postgres-migrate and the two    *)
(* runners of internal/migrate, with the ClickHouse statements of          *)
(* db/clickhouse.                                                          *)
(*                                                                         *)
(* A runner is a process that somebody starts, from a shell or a           *)
(* deployment; nothing keeps two of them apart.  The Postgres runner gives *)
(* every version a transaction that also records it.  The ClickHouse       *)
(* runner sends the statements of a version one by one and records the     *)
(* version at the end; a statement whose HTTP client gave up after 30      *)
(* seconds may be done, half done, or still running.                       *)
(*                                                                         *)
(* A ClickHouse table is a count of copies per row.  The logs of 003 is a  *)
(* Distributed table: it stores nothing and stands for logs_local.  The    *)
(* processor, which writes to whatever is called logs, is the environment. *)
(***************************************************************************)
EXTENDS Naturals, Sequences, FiniteSets, FiniteSetsExt, Functions

CONSTANTS
    Runners,
    Rows,        \* the log records the processor writes
    PgFiles,     \* the versions of db/postgres
    PgGuarded,   \* those whose SQL fails when its effect is already there
    MaxFaults    \* bound: crashes, lost replies and timeouts

ASSUME MigrationsAssumption ==
    /\ IsFiniteSet(Rows) /\ IsFiniteSet(PgFiles)
    /\ PgFiles \subseteq Nat \ {0} /\ PgGuarded \subseteq PgFiles
    /\ MaxFaults \in Nat

VARIABLES
    \* Postgres
    pgRecorded,  \* schema_migrations
    pgTimes,     \* how often the SQL of a version has been committed
    \* ClickHouse
    table,       \* the tables there are
    recorded,    \* schema_migrations
    late,        \* statements still running after their client gave up
    acked,       \* the rows whose INSERT was acknowledged to the processor
    \* the runners
    target, pc,
    todo,        \* of the versions it found pending at the start, those left
    stmt,        \* the statement of the current version it is at
    \* history
    torn,        \* a runner stopped in the middle of a table rewrite
    exposed,     \* the rows written while a table rewrite was under way
    faults

pgVars == <<pgRecorded, pgTimes>>
chVars == <<table, recorded, late, acked, exposed>>
runnerVars == <<target, pc, todo, stmt>>
vars == <<pgVars, chVars, runnerVars, torn, faults>>

-----------------------------------------------------------------------------
(* The statements.  over: an ENGINE = Distributed over logs_local; quiet:  *)
(* IF NOT EXISTS; templates: the columns 004 adds.                         *)

Create(t, quiet, over) == [op |-> "create", table |-> t, quiet |-> quiet, over |-> over]
InsertSelect(from, to) == [op |-> "copy", table |-> to, from |-> from]
Rename(pairs) == [op |-> "rename", pairs |-> pairs]
AddTemplates(t) == [op |-> "alter", table |-> t]

Logs001 == << Create("logs", TRUE, FALSE) >>
\* A slip in db/clickhouse: 002 made "repeatable" with IF NOT EXISTS.
SlipRepeatable ==
    << Create("logs_optimized", TRUE, FALSE),
       InsertSelect("logs", "logs_optimized"),
       Rename(<< <<"logs", "logs_before_optimization">>, <<"logs_optimized", "logs">> >>) >>
Optimize002 ==
    << Create("logs_optimized", FALSE, FALSE),
       InsertSelect("logs", "logs_optimized"),
       Rename(<< <<"logs", "logs_before_optimization">>, <<"logs_optimized", "logs">> >>) >>
Distribute003 ==
    << Rename(<< <<"logs", "logs_single_node">> >>),
       Create("logs_local", FALSE, FALSE),
       Create("logs", FALSE, TRUE),
       InsertSelect("logs_single_node", "logs") >>
Templates004 == << AddTemplates("logs_local"), AddTemplates("logs") >>

ChFiles == << Logs001, Optimize002, Distribute003, Templates004 >>
\* The versions that move every row and cannot be started over.
Rewrites == {2, 3}

Pending(files, applied) == files \ applied
\* LoadMigrations sorts by version: the loop takes the smallest that is left.
Current(p) == Min(todo[p])
Rest(p) == todo[p] \ {Current(p)}

-----------------------------------------------------------------------------
(* What ClickHouse does with a statement.                                  *)

NoRows == [r \in Rows |-> 0]
Exists(db, t) == t \in DOMAIN db
Base(db, t) == IF db[t].over THEN "logs_local" ELSE t
Readable(db, t) == Exists(db, t) /\ Exists(db, Base(db, t))
Content(db, t) == db[Base(db, t)].rows
With(db, t, new) == [u \in DOMAIN db \cup {t} |-> IF u = t THEN new ELSE db[u]]

Moved(db, pair) == LET from == pair[1] to == pair[2] IN
    [u \in (DOMAIN db \ {from}) \cup {to} |-> IF u = to THEN db[from] ELSE db[u]]
\* The slip: the tables of 002 and 003 are replaced where a RENAME would fail.
SlipReplace(db, pair) == Exists(db, pair[1])
Movable(db, pair) == Exists(db, pair[1]) /\ ~Exists(db, pair[2])

Copied(db, s, rows) == LET to == Base(db, s.table) IN
    [db EXCEPT ![to].rows = [r \in Rows |-> @[r] + IF r \in rows THEN Content(db, s.from)[r] ELSE 0]]

\* Otherwise the server answers with an error and changes nothing.  A RENAME
\* frees the first name before it takes the second.
Accepts(db, s) ==
    CASE s.op = "create" -> (s.quiet \/ ~Exists(db, s.table)) /\ (s.over => Exists(db, "logs_local"))
      [] s.op = "copy"   -> Readable(db, s.from) /\ Readable(db, s.table)
      [] s.op = "rename" -> /\ Movable(db, s.pairs[1])
                            /\ Len(s.pairs) = 2 => Movable(Moved(db, s.pairs[1]), s.pairs[2])
      [] s.op = "alter"  -> Exists(db, s.table)

Effect(db, s) ==
    CASE s.op = "create" -> IF Exists(db, s.table) THEN db
                            ELSE With(db, s.table, [over |-> s.over, templates |-> FALSE, rows |-> NoRows])
      [] s.op = "copy"   -> Copied(db, s, Rows)
      [] s.op = "rename" -> IF Len(s.pairs) = 1 THEN Moved(db, s.pairs[1])
                            ELSE Moved(Moved(db, s.pairs[1]), s.pairs[2])
      [] s.op = "alter"  -> [db EXCEPT ![s.table].templates = TRUE]

\* What a statement that was cut off may have left behind: an INSERT writes
\* block by block, and a RENAME of two tables is two renames.
Remains(db, s) ==
    CASE s.op = "copy"   -> {Copied(db, s, some) : some \in SUBSET Rows}
      [] s.op = "rename" -> {db, Moved(db, s.pairs[1]), Effect(db, s)}
      [] OTHER           -> {db, Effect(db, s)}

-----------------------------------------------------------------------------
TypeOK ==
    /\ pgRecorded \subseteq PgFiles
    /\ pgTimes \in [PgFiles -> Nat]
    /\ \A t \in DOMAIN table : table[t] \in [over : BOOLEAN, templates : BOOLEAN, rows : [Rows -> Nat]]
    /\ recorded \subseteq DOMAIN ChFiles
    /\ late \subseteq UNION {Range(ChFiles[v]) : v \in DOMAIN ChFiles}
    /\ exposed \subseteq acked /\ acked \subseteq Rows
    /\ target \in [Runners -> {"all", "postgres", "clickhouse"}]
    /\ pc \in [Runners -> {"idle", "pgList", "pgExec", "pgCommit", "chList", "chExec", "chRecord"}]
    /\ todo \in [Runners -> SUBSET Nat] /\ stmt \in [Runners -> Nat]
    /\ \A p \in Runners :
          /\ pc[p] \in {"pgExec", "pgCommit"} => todo[p] # {} /\ todo[p] \subseteq PgFiles
          /\ pc[p] \in {"chExec", "chRecord"} => todo[p] # {} /\ todo[p] \subseteq DOMAIN ChFiles
          /\ pc[p] = "chExec" => stmt[p] \in DOMAIN ChFiles[Current(p)]
    /\ torn \in BOOLEAN
    /\ faults \in 0..MaxFaults

\* A new environment, or one whose logs table is older than the migrations.
Init ==
    /\ pgRecorded = {} /\ pgTimes = [v \in PgFiles |-> 0]
    /\ \/ table = <<>> /\ acked = {}
       \/ /\ acked \in SUBSET Rows
          /\ table = [t \in {"logs"} |-> [over |-> FALSE, templates |-> FALSE,
                                          rows |-> [r \in Rows |-> IF r \in acked THEN 1 ELSE 0]]]
    /\ recorded = {} /\ late = {} /\ exposed = {}
    /\ target = [p \in Runners |-> "all"]
    /\ pc = [p \in Runners |-> "idle"]
    /\ todo = [p \in Runners |-> {}]
    /\ stmt = [p \in Runners |-> 1]
    /\ torn = FALSE /\ faults = 0

-----------------------------------------------------------------------------
At(p, here, rest, n) ==
    /\ pc' = [pc EXCEPT ![p] = here]
    /\ todo' = [todo EXCEPT ![p] = rest]
    /\ stmt' = [stmt EXCEPT ![p] = n]
    /\ target' = IF here \in {"pgExec", "pgCommit"} THEN target ELSE [target EXCEPT ![p] = "all"]

\* The process ends: the work is done, or log.Fatal.
Exit(p) == At(p, "idle", {}, 1)

Fault == faults < MaxFaults /\ faults' = faults + 1
NoFault == UNCHANGED faults

Start(p, what) ==
    /\ pc[p] = "idle"
    /\ target' = [target EXCEPT ![p] = what]
    /\ pc' = [pc EXCEPT ![p] = IF what = "clickhouse" THEN "chList" ELSE "pgList"]
    /\ UNCHANGED <<todo, stmt, pgVars, chVars, torn, faults>>

\* After RunPostgres: cmd/migrate goes on with ClickHouse if the target is all.
AfterPostgres(p) == IF target[p] = "all" THEN At(p, "chList", {}, 1) ELSE Exit(p)

-----------------------------------------------------------------------------
(* RunPostgres.                                                            *)

PgGoOn(p, rest) == IF rest = {} THEN AfterPostgres(p) ELSE At(p, "pgExec", rest, 1)

\* CREATE TABLE IF NOT EXISTS schema_migrations, and appliedVersions.
PgList(p) ==
    /\ pc[p] = "pgList"
    /\ PgGoOn(p, Pending(PgFiles, pgRecorded))
    /\ NoFault /\ UNCHANGED <<pgVars, chVars, torn>>

\* The SQL of a version inside its transaction: nothing to see before COMMIT.
\* The slip: it runs outside of it.
SlipAutocommit(v) == pgTimes' = [pgTimes EXCEPT ![v] = @ + 1] /\ UNCHANGED pgRecorded
Sql(v) == UNCHANGED pgVars

\* BeginTx and the SQL.  The ALTERs of a guarded version wait for the locks of
\* another transaction that runs it, and fail if they find its effect; the
\* other versions say IF NOT EXISTS throughout.
PgExec(p) == LET v == Current(p) IN
    /\ pc[p] = "pgExec"
    /\ v \in PgGuarded => \A q \in Runners : ~(pc[q] = "pgCommit" /\ Current(q) = v)
    /\ IF v \in PgGuarded /\ pgTimes[v] > 0
       THEN Exit(p) /\ UNCHANGED pgVars
       ELSE At(p, "pgCommit", todo[p], 1) /\ Sql(v)
    /\ NoFault /\ UNCHANGED <<chVars, torn>>

\* The INSERT of the version and the COMMIT.  The primary key refuses a
\* version that is there already, and the deferred Rollback undoes the SQL.
SlipNoKey(v) == TRUE
Recordable(v) == v \notin pgRecorded
PgCommitted(v) ==
    /\ pgRecorded' = pgRecorded \cup {v}
    /\ pgTimes' = [pgTimes EXCEPT ![v] = @ + 1]

PgCommit(p) == LET v == Current(p) IN
    /\ pc[p] = "pgCommit"
    /\ IF Recordable(v)
       THEN PgCommitted(v) /\ PgGoOn(p, Rest(p))
       ELSE UNCHANGED pgVars /\ Exit(p)
    /\ NoFault /\ UNCHANGED <<chVars, torn>>

\* The commit takes effect and its reply is lost.
PgCommitLost(p) ==
    /\ pc[p] = "pgCommit" /\ Fault
    /\ Recordable(Current(p))
    /\ PgCommitted(Current(p))
    /\ Exit(p)
    /\ UNCHANGED <<chVars, torn>>

-----------------------------------------------------------------------------
(* RunClickHouse.                                                          *)

Statement(p) == ChFiles[Current(p)][stmt[p]]
ChGoOn(p, rest) == IF rest = {} THEN Exit(p) ELSE At(p, "chExec", rest, 1)
\* The runner ends inside a rewrite of which statements have taken effect.
Tears(p, begun) == torn' = (torn \/ (begun /\ Current(p) \in Rewrites))

ChList(p) ==
    /\ pc[p] = "chList"
    /\ ChGoOn(p, Pending(DOMAIN ChFiles, recorded))
    /\ NoFault /\ UNCHANGED <<pgVars, chVars, torn>>

\* The next statement: after the last one the version is to be recorded.
Advance(p) ==
    IF stmt[p] = Len(ChFiles[Current(p)]) THEN At(p, "chRecord", todo[p], 1)
                                             ELSE At(p, "chExec", todo[p], stmt[p] + 1)

ChExec(p) ==
    /\ pc[p] = "chExec"
    /\ Accepts(table, Statement(p))
    /\ table' = Effect(table, Statement(p))
    /\ Advance(p)
    /\ NoFault /\ UNCHANGED <<pgVars, recorded, late, acked, exposed, torn>>

\* The server refuses the statement.
SlipIgnoreError(p) == Advance(p)
GivesUp(p) == Exit(p)
ChRejected(p) ==
    /\ pc[p] = "chExec"
    /\ ~Accepts(table, Statement(p))
    /\ GivesUp(p)
    /\ Tears(p, stmt[p] > 1)
    /\ NoFault /\ UNCHANGED <<pgVars, chVars>>

\* The connection breaks: the statement has ended, somehow.
ChInterrupted(p) ==
    /\ pc[p] = "chExec" /\ Fault
    /\ Accepts(table, Statement(p))
    /\ table' \in Remains(table, Statement(p))
    /\ Exit(p)
    /\ Tears(p, TRUE)
    /\ UNCHANGED <<pgVars, recorded, late, acked, exposed>>

\* The client's 30 seconds are over and the statement goes on in the server.
ChTimeout(p) ==
    /\ pc[p] = "chExec" /\ Fault
    /\ late' = late \cup {Statement(p)}
    /\ Exit(p)
    /\ Tears(p, TRUE)
    /\ UNCHANGED <<pgVars, table, recorded, acked, exposed>>

LateEnds(s) ==
    /\ late' = late \ {s}
    /\ table' = IF Accepts(table, s) THEN Effect(table, s) ELSE table
    /\ UNCHANGED <<pgVars, recorded, acked, exposed, runnerVars, torn, faults>>

\* schema_migrations is a MergeTree: a second record of a version is harmless.
ChRecord(p) ==
    /\ pc[p] = "chRecord"
    /\ recorded' = recorded \cup {Current(p)}
    /\ \/ ChGoOn(p, Rest(p)) /\ NoFault /\ UNCHANGED torn
       \/ Exit(p) /\ Fault /\ UNCHANGED torn   \* recorded, and the reply is lost
    /\ UNCHANGED <<pgVars, table, late, acked, exposed>>

-----------------------------------------------------------------------------
\* The process is killed, or a call fails before it has an effect.
Die(p) ==
    /\ pc[p] # "idle" /\ Fault
    /\ Exit(p)
    /\ IF pc[p] \in {"chExec", "chRecord"}
       THEN Tears(p, pc[p] = "chRecord" \/ stmt[p] > 1) ELSE UNCHANGED torn
    /\ UNCHANGED <<pgVars, chVars>>

\* The processor inserts a row into logs; on failure it tries again later.
Rewriting ==
    late # {} \/ \E p \in Runners : pc[p] \in {"chExec", "chRecord"} /\ Current(p) \in Rewrites
Write(r) ==
    /\ r \notin acked /\ Readable(table, "logs")
    /\ table' = [table EXCEPT ![Base(table, "logs")].rows[r] = @ + 1]
    /\ acked' = acked \cup {r}
    /\ exposed' = IF Rewriting THEN exposed \cup {r} ELSE exposed
    /\ UNCHANGED <<pgVars, recorded, late, runnerVars, torn, faults>>

Step(p) ==
    \/ PgList(p) \/ PgExec(p) \/ PgCommit(p)
    \/ ChList(p) \/ ChExec(p) \/ ChRejected(p) \/ ChRecord(p)

Next ==
    \/ \E p \in Runners :
          \/ \E what \in {"all", "postgres", "clickhouse"} : Start(p, what)
          \/ Step(p) \/ PgCommitLost(p) \/ ChInterrupted(p) \/ ChTimeout(p) \/ Die(p)
    \/ \E s \in late : LateEnds(s)
    \/ \E r \in Rows : Write(r)

\* A runner that has been started goes on, statements in the server end, and
\* an operator whose migration failed runs it again.
Fairness ==
    /\ \A p \in Runners : WF_vars(Step(p)) /\ SF_vars(Start(p, "all"))
    /\ WF_vars(\E s \in late : LateEnds(s))

Spec == Init /\ [][Next]_vars
FairSpec == Spec /\ Fairness

-----------------------------------------------------------------------------
(* Properties.                                                             *)

\* Whatever statement a runner stops at, whoever runs beside it and whether
\* or not the processor was paused, an acknowledged row is in some table: no
\* statement of db/clickhouse removes the only copy.
NothingLost ==
    \A r \in acked : \E t \in DOMAIN table : ~table[t].over /\ table[t].rows[r] > 0

\* The catalogue of tables is well formed and no acknowledged row is lost, at
\* whatever statement a runner stops and whoever runs beside it.
RowsKept == TypeOK /\ NothingLost

\* No table ever holds a row twice, although versions are started over and
\* by several runners: the names that CREATE and RENAME take are the lock.
CopiedOnce == \A t \in DOMAIN table, r \in Rows : table[t].rows[r] <= 1

\* A version in schema_migrations has done its work: versions are recorded in
\* order, and once 003 (004) is recorded, logs is the distributed table, holds
\* every row that was not written during a rewrite exactly once, and (004)
\* has the template columns.
RecordedIsComplete ==
    /\ \A v \in recorded : 1..v \subseteq recorded
    /\ 3 \in recorded =>
          /\ Readable(table, "logs") /\ table["logs"].over
          /\ \A r \in acked \ exposed : Content(table, "logs")[r] = 1
    /\ 4 \in recorded => table["logs"].templates /\ table["logs_local"].templates

\* Postgres: a version is recorded exactly when its SQL is in the schema, once,
\* and after all earlier versions, whatever runners overlap or die.
PostgresIsAtomic ==
    \A v \in PgFiles :
       /\ pgTimes[v] = IF v \in pgRecorded THEN 1 ELSE 0
       /\ v \in pgRecorded => \A u \in PgFiles : u < v => u \in pgRecorded

\* With reruns Postgres ends up migrated after any faults; ClickHouse too,
\* unless a runner stopped inside 002 or 003, the versions that cannot be
\* started over.
Converges ==
    /\ <>(pgRecorded = PgFiles)
    /\ <>(torn \/ recorded = DOMAIN ChFiles)
=============================================================================
