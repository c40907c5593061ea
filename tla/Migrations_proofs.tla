-------------------------- MODULE Migrations_proofs --------------------------
(***************************************************************************)
(* Proofs about Migrations, for any number of runners, rows, Postgres      *)
(* versions and faults: Postgres is atomic, and the ClickHouse runner,     *)
(* which has no transaction and no lock, loses no row, copies none twice   *)
(* and records only versions whose work is complete.                       *)
(*                                                                         *)
(* The names of the tables are the lock.  CREATE TABLE logs_optimized and  *)
(* RENAME ... TO logs_single_node succeed once, so the statements behind   *)
(* them belong to one runner, or to a statement it left running.           *)
(***************************************************************************)
EXTENDS Migrations, TLAPS, WellFoundedInduction

\* The statements that matter to the argument.
CreateOptimized == Create("logs_optimized", FALSE, FALSE)
CopyOptimized == InsertSelect("logs", "logs_optimized")
SwapOptimized == Rename(<< <<"logs", "logs_before_optimization">>, <<"logs_optimized", "logs">> >>)
SetAside == Rename(<< <<"logs", "logs_single_node">> >>)
CreateLocal == Create("logs_local", FALSE, FALSE)
CreateDistributed == Create("logs", FALSE, TRUE)
CopySingleNode == InsertSelect("logs_single_node", "logs")

\* Runner p is at statement n of version v, or about to record version v.
Here(p, v, n) == pc[p] = "chExec" /\ Current(p) = v /\ stmt[p] = n
Recording(p, v) == pc[p] = "chRecord" /\ Current(p) = v

\* The version has been completed by somebody.
Complete(v) == v \in recorded \/ \E p \in Runners : Recording(p, v)

-----------------------------------------------------------------------------
(* The order of the versions.                                              *)

PgOrder == \A p \in Runners :
    pc[p] \in {"pgExec", "pgCommit"} => PgFiles \ todo[p] \subseteq pgRecorded
ChOrder == \A p \in Runners :
    pc[p] \in {"chExec", "chRecord"} => DOMAIN ChFiles \ todo[p] \subseteq recorded
InOrder == \A v \in recorded : 1..v \subseteq recorded

-----------------------------------------------------------------------------
(* The tables.                                                             *)

Has(t) == t \in DOMAIN table
Holds(t, r) == table[t].rows[r] > 0
Full(t) == Has(t) /\ \A r \in acked \ exposed : Holds(t, r)

\* Only logs is ever Distributed, and it is so only over logs_local and after
\* the table it replaces was set aside.
Catalogue ==
    /\ \A t \in DOMAIN table : table[t].over => t = "logs"
    /\ Has("logs") /\ table["logs"].over => Has("logs_local")
    /\ Has("logs_local") => Has("logs_single_node")
    /\ Has("logs_single_node") => Has("logs_before_optimization")
    /\ Complete(2) => Has("logs_before_optimization")
    /\ SetAside \in late => Has("logs_before_optimization")
Stored == \A t \in DOMAIN table, r \in Rows : Holds(t, r) => r \in acked

\* Who has created logs_optimized is alone with it until it is swapped in.
Optimizing(p) == Here(p, 2, 2) \/ Here(p, 2, 3)
OneOptimizer ==
    /\ \A p \in Runners : Optimizing(p) => Has("logs_optimized") /\ {CopyOptimized, SwapOptimized} \cap late = {}
    /\ \A p, q \in Runners : Optimizing(p) /\ Optimizing(q) => p = q
    /\ {CopyOptimized, SwapOptimized} \cap late # {} => Has("logs_optimized")
    /\ ~({CopyOptimized, SwapOptimized} \subseteq late)
StillEmpty ==
    CopyOptimized \in late \/ (\E p \in Runners : Here(p, 2, 2))
        => \A r \in Rows : ~Holds("logs_optimized", r)

\* Who has set logs aside is alone with logs_single_node for good.
Distributing(p) == Here(p, 3, 2) \/ Here(p, 3, 3) \/ Here(p, 3, 4)
LeftOver == {CreateLocal, CreateDistributed, CopySingleNode} \cap late
OneDistributor ==
    /\ \A p \in Runners : Distributing(p) => Has("logs_single_node") /\ LeftOver = {}
    /\ \A p, q \in Runners : Distributing(p) /\ Distributing(q) => p = q
    /\ LeftOver # {} => Has("logs_single_node")
    /\ CopySingleNode \in late \/ (\E p \in Runners : Here(p, 3, 4)) => Has("logs") /\ table["logs"].over
StillApart ==
    Has("logs_local") /\ (CopySingleNode \in late \/ \E p \in Runners : Distributing(p))
        => \A r \in Rows : ~(Holds("logs_single_node", r) /\ Holds("logs_local", r))

\* Where the rows are that were not written during a rewrite.
Whereabouts ==
    /\ ~Has("logs_before_optimization") => acked = {} \/ Full("logs")
    /\ ~Has("logs_before_optimization") /\ (SwapOptimized \in late \/ \E p \in Runners : Here(p, 2, 3))
          => Full("logs_optimized")
    /\ Complete(2) /\ ~Has("logs_single_node") => Full("logs")
    /\ \A p \in Runners : Distributing(p) => Full("logs_single_node")
    /\ Complete(3) => Has("logs") /\ table["logs"].over /\ Full("logs_local")
Columns ==
    /\ \A p \in Runners : Here(p, 4, 2) => Has("logs_local") /\ table["logs_local"].templates
    /\ Complete(4) => /\ Has("logs") /\ table["logs"].over /\ table["logs"].templates
                      /\ Has("logs_local") /\ table["logs_local"].templates

TablesInv ==
    /\ Catalogue /\ Stored /\ CopiedOnce /\ NothingLost
    /\ OneOptimizer /\ StillEmpty /\ OneDistributor /\ StillApart
    /\ Whereabouts /\ Columns
OrderInv == PgOrder /\ PostgresIsAtomic /\ ChOrder /\ InOrder
MigrationsInv == TypeOK /\ OrderInv /\ TablesInv

-----------------------------------------------------------------------------
(* The files.                                                              *)

LEMMA LeastVersion ==
    ASSUME NEW S, S \subseteq Nat, S # {}
    PROVE  Min(S) \in S /\ \A y \in S : Min(S) <= y
<1> DEFINE R == {ss \in Nat \X Nat : ss[1] < ss[2]}
<1>1. IsWellFoundedOn(R, Nat)
    BY NatLessThanWellFounded, Zenon DEF OpToRel
<1>2. \A x, y \in Nat : y < x => <<y, x>> \in R
    OBVIOUS
<1> HIDE DEF R
<1>3. PICK x \in S : \A y \in S : ~(<<y, x>> \in R)
    BY <1>1, WFMin
<1>4. ASSUME NEW y \in S PROVE x <= y
    <2>1. x \in Nat /\ y \in Nat /\ <<y, x>> \notin R
        BY <1>3
    <2>2. ~(y < x)
        BY <2>1, <1>2, Zenon
    <2> QED
        BY <2>1, <2>2
<1> QED
    BY <1>4 DEF Min

LEMMA Files ==
    /\ DOMAIN ChFiles = 1..4
    /\ ChFiles[1] = Logs001 /\ ChFiles[2] = Optimize002
    /\ ChFiles[3] = Distribute003 /\ ChFiles[4] = Templates004
    /\ DOMAIN Logs001 = 1..1 /\ DOMAIN Optimize002 = 1..3
    /\ DOMAIN Distribute003 = 1..4 /\ DOMAIN Templates004 = 1..2
    /\ Len(Logs001) = 1 /\ Len(Optimize002) = 3 /\ Len(Distribute003) = 4 /\ Len(Templates004) = 2
<1>1. /\ DOMAIN ChFiles = 1..4
      /\ ChFiles[1] = Logs001 /\ ChFiles[2] = Optimize002
      /\ ChFiles[3] = Distribute003 /\ ChFiles[4] = Templates004
    BY DEF ChFiles
<1>2. DOMAIN Logs001 = 1..1 /\ Len(Logs001) = 1
    BY DEF Logs001
<1>3. DOMAIN Optimize002 = 1..3 /\ Len(Optimize002) = 3
    BY DEF Optimize002
<1>4. DOMAIN Distribute003 = 1..4 /\ Len(Distribute003) = 4
    BY DEF Distribute003
<1>5. DOMAIN Templates004 = 1..2 /\ Len(Templates004) = 2
    BY DEF Templates004
<1> QED
    BY <1>1, <1>2, <1>3, <1>4, <1>5

Statements == UNION {Range(ChFiles[v]) : v \in DOMAIN ChFiles}

\* The ten statements, by version and place.
LEMMA StatementsAre ==
    /\ ChFiles[1][1] = Create("logs", TRUE, FALSE)
    /\ ChFiles[2][1] = CreateOptimized /\ ChFiles[2][2] = CopyOptimized /\ ChFiles[2][3] = SwapOptimized
    /\ ChFiles[3][1] = SetAside /\ ChFiles[3][2] = CreateLocal
    /\ ChFiles[3][3] = CreateDistributed /\ ChFiles[3][4] = CopySingleNode
    /\ ChFiles[4][1] = AddTemplates("logs_local") /\ ChFiles[4][2] = AddTemplates("logs")
<1>1. /\ Logs001[1] = Create("logs", TRUE, FALSE)
      /\ Optimize002[1] = CreateOptimized /\ Optimize002[2] = CopyOptimized /\ Optimize002[3] = SwapOptimized
    BY DEF Logs001, Optimize002, CreateOptimized, CopyOptimized, SwapOptimized
<1>2. /\ Distribute003[1] = SetAside /\ Distribute003[2] = CreateLocal
      /\ Distribute003[3] = CreateDistributed /\ Distribute003[4] = CopySingleNode
    BY DEF Distribute003, SetAside, CreateLocal, CreateDistributed, CopySingleNode
<1>3. Templates004[1] = AddTemplates("logs_local") /\ Templates004[2] = AddTemplates("logs")
    BY DEF Templates004
<1> QED
    BY <1>1, <1>2, <1>3, Files

LEMMA StatementCases ==
    ASSUME NEW s \in Statements
    PROVE  s \in {Create("logs", TRUE, FALSE), CreateOptimized, CopyOptimized, SwapOptimized, SetAside,
                  CreateLocal, CreateDistributed, CopySingleNode,
                  AddTemplates("logs_local"), AddTemplates("logs")}
<1>1. PICK v \in 1..4 : s \in Range(ChFiles[v])
    BY Files DEF Statements
<1>2. PICK n \in DOMAIN ChFiles[v] : s = ChFiles[v][n]
    BY <1>1 DEF Range
<1>3. CASE v = 1
    <2>1. n \in {1}
        BY <1>3, Files
    <2> QED
        BY <1>2, <1>3, <2>1, StatementsAre
<1>4. CASE v = 2
    <2>1. n \in {1, 2, 3}
        BY <1>4, Files
    <2> QED
        BY <1>2, <1>4, <2>1, StatementsAre
<1>5. CASE v = 3
    <2>1. n \in {1, 2, 3, 4}
        BY <1>5, Files
    <2> QED
        BY <1>2, <1>5, <2>1, StatementsAre
<1>6. CASE v = 4
    <2>1. n \in {1, 2}
        BY <1>6, Files
    <2> QED
        BY <1>2, <1>6, <2>1, StatementsAre
<1>7. v \in {1, 2, 3, 4}
    OBVIOUS
<1> QED
    BY <1>3, <1>4, <1>5, <1>6, <1>7

-----------------------------------------------------------------------------
(* The runners.                                                            *)

RunnerType ==
    /\ target \in [Runners -> {"all", "postgres", "clickhouse"}]
    /\ pc \in [Runners -> {"idle", "pgList", "pgExec", "pgCommit", "chList", "chExec", "chRecord"}]
    /\ todo \in [Runners -> SUBSET Nat] /\ stmt \in [Runners -> Nat]
    /\ \A p \in Runners :
          /\ pc[p] \in {"pgExec", "pgCommit"} => todo[p] # {} /\ todo[p] \subseteq PgFiles
          /\ pc[p] \in {"chExec", "chRecord"} => todo[p] # {} /\ todo[p] \subseteq DOMAIN ChFiles
          /\ pc[p] = "chExec" => stmt[p] \in DOMAIN ChFiles[Current(p)]
PgType == pgRecorded \subseteq PgFiles /\ pgTimes \in [PgFiles -> Nat]
TableType == [over : BOOLEAN, templates : BOOLEAN, rows : [Rows -> Nat]]
StoreType ==
    /\ \A t \in DOMAIN table : table[t] \in TableType
    /\ recorded \subseteq DOMAIN ChFiles
    /\ late \subseteq Statements
    /\ exposed \subseteq acked /\ acked \subseteq Rows

LEMMA TypeParts == TypeOK <=> PgType /\ StoreType /\ RunnerType /\ torn \in BOOLEAN /\ faults \in 0..MaxFaults
BY DEF TypeOK, PgType, StoreType, RunnerType, Statements, TableType

LEMMA TypePartsPrime ==
    TypeOK' <=> PgType' /\ StoreType' /\ RunnerType' /\ torn' \in BOOLEAN /\ faults' \in 0..MaxFaults
BY DEF TypeOK, PgType, StoreType, RunnerType, Statements, TableType

\* The place a runner may go to, and what it knows of the versions there.
Allowed(here, rest, n) ==
    /\ here \in {"idle", "pgList", "pgExec", "pgCommit", "chList", "chExec", "chRecord"}
    /\ rest \in SUBSET Nat /\ n \in Nat
    /\ here \in {"pgExec", "pgCommit"} =>
          rest # {} /\ rest \subseteq PgFiles /\ PgFiles \ rest \subseteq pgRecorded'
    /\ here \in {"chExec", "chRecord"} =>
          rest # {} /\ rest \subseteq DOMAIN ChFiles /\ DOMAIN ChFiles \ rest \subseteq recorded'
    /\ here = "chExec" => n \in DOMAIN ChFiles[Min(rest)]

LEMMA AtOK ==
    ASSUME TypeOK, PgOrder, ChOrder, NEW p \in Runners, NEW here, NEW rest, NEW n,
           At(p, here, rest, n), Allowed(here, rest, n),
           pgRecorded \subseteq pgRecorded', recorded \subseteq recorded'
    PROVE  /\ RunnerType' /\ PgOrder' /\ ChOrder'
           /\ pc'[p] = here /\ todo'[p] = rest /\ stmt'[p] = n
           /\ \A q \in Runners \ {p} : pc'[q] = pc[q] /\ todo'[q] = todo[q] /\ stmt'[q] = stmt[q]
<1>1. /\ pc'[p] = here /\ todo'[p] = rest /\ stmt'[p] = n
      /\ \A q \in Runners \ {p} : pc'[q] = pc[q] /\ todo'[q] = todo[q] /\ stmt'[q] = stmt[q]
    BY DEF At, TypeOK
<1>2. /\ target' \in [Runners -> {"all", "postgres", "clickhouse"}]
      /\ pc' \in [Runners -> {"idle", "pgList", "pgExec", "pgCommit", "chList", "chExec", "chRecord"}]
      /\ todo' \in [Runners -> SUBSET Nat] /\ stmt' \in [Runners -> Nat]
    BY DEF At, Allowed, TypeOK
<1>3. ASSUME NEW q \in Runners
      PROVE  /\ pc'[q] \in {"pgExec", "pgCommit"} =>
                   todo'[q] # {} /\ todo'[q] \subseteq PgFiles /\ PgFiles \ todo'[q] \subseteq pgRecorded'
             /\ pc'[q] \in {"chExec", "chRecord"} =>
                   todo'[q] # {} /\ todo'[q] \subseteq DOMAIN ChFiles /\ DOMAIN ChFiles \ todo'[q] \subseteq recorded'
             /\ pc'[q] = "chExec" => stmt'[q] \in DOMAIN ChFiles[Min(todo'[q])]
    <2>1. CASE q = p
        BY <1>1, <2>1 DEF Allowed
    <2>2. CASE q # p
        BY <1>1, <2>2 DEF TypeOK, PgOrder, ChOrder, Current
    <2> QED
        BY <2>1, <2>2
<1>4. RunnerType'
    BY <1>2, <1>3 DEF RunnerType, Current
<1>5. PgOrder' /\ ChOrder'
    BY <1>3 DEF PgOrder, ChOrder
<1> QED
    BY <1>1, <1>4, <1>5

\* Nobody has moved.
LEMMA StayOK ==
    ASSUME TypeOK, PgOrder, ChOrder, UNCHANGED runnerVars,
           pgRecorded \subseteq pgRecorded', recorded \subseteq recorded'
    PROVE  RunnerType' /\ PgOrder' /\ ChOrder'
<1>1. RunnerType'
    BY DEF TypeOK, RunnerType, runnerVars, Current
<1> QED
    BY <1>1 DEF PgOrder, ChOrder, runnerVars

LEMMA ExitAllowed == Allowed("idle", {}, 1)
BY DEF Allowed

\* A runner at work on a version: the version is the first it has to do.
LEMMA CurrentOK ==
    ASSUME TypeOK, NEW p \in Runners
    PROVE  /\ pc[p] \in {"pgExec", "pgCommit"} =>
                 Current(p) \in todo[p] /\ Current(p) \in PgFiles /\ \A u \in todo[p] : Current(p) <= u
           /\ pc[p] \in {"chExec", "chRecord"} =>
                 Current(p) \in todo[p] /\ Current(p) \in 1..4 /\ \A u \in todo[p] : Current(p) <= u
           /\ Rest(p) \in SUBSET Nat
<1>1. todo[p] \in SUBSET Nat
    BY DEF TypeOK
<1>2. todo[p] # {} => Current(p) \in todo[p] /\ \A u \in todo[p] : Current(p) <= u
    BY <1>1, LeastVersion DEF Current
<1> QED
    BY <1>1, <1>2, Files DEF TypeOK, Rest

LEMMA FaultOK == ASSUME TypeOK, Fault \/ NoFault PROVE faults' \in 0..MaxFaults
BY MigrationsAssumption DEF TypeOK, Fault, NoFault

-----------------------------------------------------------------------------
(* What the statements do to the tables, spelled out.                      *)

WellFormed(db) == \A t \in DOMAIN db : db[t] \in TableType

\* new is old with one more, empty table.
Made(old, t, over, new) ==
    /\ t \notin DOMAIN old
    /\ DOMAIN new = DOMAIN old \cup {t}
    /\ new[t] = [over |-> over, templates |-> FALSE, rows |-> NoRows]
    /\ \A u \in DOMAIN old : new[u] = old[u]

\* new is old with some rows of one table added to another.
Poured(old, from, to, some, new) ==
    /\ from \in DOMAIN old /\ to \in DOMAIN old
    /\ DOMAIN new = DOMAIN old
    /\ \A u \in DOMAIN old \ {to} : new[u] = old[u]
    /\ new[to] \in TableType
    /\ new[to].over = old[to].over /\ new[to].templates = old[to].templates
    /\ \A r \in Rows : new[to].rows[r] =
          old[to].rows[r] + IF r \in some THEN old[from].rows[r] ELSE 0

\* new is old with a table under another name.
Renamed(old, from, to, new) ==
    /\ from \in DOMAIN old /\ to \notin DOMAIN old
    /\ DOMAIN new = (DOMAIN old \ {from}) \cup {to}
    /\ new[to] = old[from]
    /\ \A u \in DOMAIN old \ {from} : new[u] = old[u]

LEMMA CreateEffect ==
    ASSUME NEW db, NEW t, NEW quiet \in BOOLEAN, NEW over \in BOOLEAN,
           Accepts(db, Create(t, quiet, over))
    PROVE  /\ over => "logs_local" \in DOMAIN db
           /\ \/ quiet /\ t \in DOMAIN db /\ Effect(db, Create(t, quiet, over)) = db
              \/ Made(db, t, over, Effect(db, Create(t, quiet, over)))
<1> DEFINE s == Create(t, quiet, over)
<1>1. s.op = "create" /\ s.table = t /\ s.quiet = quiet /\ s.over = over
    BY DEF Create
<1> HIDE DEF s
<1>2. (quiet \/ t \notin DOMAIN db) /\ (over => "logs_local" \in DOMAIN db)
    <2>1. Accepts(db, s)
        BY DEF s
    <2> QED
        BY <1>1, <2>1 DEF Accepts, Exists
<1>3. t \in DOMAIN db => Effect(db, s) = db
    BY <1>1 DEF Effect, Exists
<1>4. t \notin DOMAIN db =>
         Effect(db, s) = With(db, t, [over |-> over, templates |-> FALSE, rows |-> NoRows])
    BY <1>1 DEF Effect, Exists
<1>5. t \notin DOMAIN db => Made(db, t, over, Effect(db, s))
    BY <1>4 DEF Made, With
<1> QED
    BY <1>2, <1>3, <1>5 DEF s

LEMMA MadeOK ==
    ASSUME NEW db, WellFormed(db), NEW t, NEW over \in BOOLEAN, NEW new, Made(db, t, over, new)
    PROVE  WellFormed(new)
<1>1. [over |-> over, templates |-> FALSE, rows |-> NoRows] \in TableType
    BY DEF TableType, NoRows
<1> QED
    BY <1>1 DEF Made, WellFormed

LEMMA CopiedIs ==
    ASSUME NEW db, WellFormed(db), NEW from, NEW to, NEW some,
           Readable(db, from), Readable(db, to)
    PROVE  Poured(db, Base(db, from), Base(db, to), some, Copied(db, InsertSelect(from, to), some))
<1> DEFINE s == InsertSelect(from, to)
<1>1. s.table = to /\ s.from = from
    BY DEF InsertSelect
<1> HIDE DEF s
<1> DEFINE b == Base(db, to)
           a == Base(db, from)
           added == [r \in Rows |-> db[b].rows[r] + IF r \in some THEN db[a].rows[r] ELSE 0]
<1>2. a \in DOMAIN db /\ b \in DOMAIN db
    BY DEF Readable, Exists
<1>3. Copied(db, s, some) = [db EXCEPT ![b].rows = added]
    BY <1>1 DEF Copied, Content
<1> HIDE DEF a, b
<1>4. db[a] \in TableType /\ db[b] \in TableType
    BY <1>2 DEF WellFormed
<1>5. added \in [Rows -> Nat]
    BY <1>4 DEF TableType
<1>6. \A r \in Rows : added[r] = db[b].rows[r] + IF r \in some THEN db[a].rows[r] ELSE 0
    OBVIOUS
<1> HIDE DEF added
<1>7. /\ DOMAIN Copied(db, s, some) = DOMAIN db
      /\ \A u \in DOMAIN db \ {b} : Copied(db, s, some)[u] = db[u]
      /\ Copied(db, s, some)[b] = [db[b] EXCEPT !.rows = added]
    BY <1>2, <1>3
<1>8. /\ [db[b] EXCEPT !.rows = added] \in TableType
      /\ [db[b] EXCEPT !.rows = added].over = db[b].over
      /\ [db[b] EXCEPT !.rows = added].templates = db[b].templates
      /\ [db[b] EXCEPT !.rows = added].rows = added
    BY <1>4, <1>5 DEF TableType
<1> QED
    BY <1>2, <1>6, <1>7, <1>8 DEF Poured, s, a, b

LEMMA CopyEffect ==
    ASSUME NEW db, WellFormed(db), NEW from, NEW to, Accepts(db, InsertSelect(from, to))
    PROVE  /\ Readable(db, from) /\ Readable(db, to)
           /\ Poured(db, Base(db, from), Base(db, to), Rows, Effect(db, InsertSelect(from, to)))
           /\ \A new \in Remains(db, InsertSelect(from, to)) :
                 \E some : Poured(db, Base(db, from), Base(db, to), some, new)
<1> DEFINE s == InsertSelect(from, to)
<1>1. s.op = "copy" /\ s.table = to /\ s.from = from
    BY DEF InsertSelect
<1> HIDE DEF s
<1>2. Accepts(db, s)
    BY DEF s
<1>3. Readable(db, from) /\ Readable(db, to)
    BY <1>1, <1>2 DEF Accepts
<1>4. \A some : Poured(db, Base(db, from), Base(db, to), some, Copied(db, s, some))
    BY <1>3, CopiedIs DEF s
<1>5. Effect(db, s) = Copied(db, s, Rows)
    BY <1>1 DEF Effect
<1>6. Remains(db, s) = {Copied(db, s, some) : some \in SUBSET Rows}
    BY <1>1 DEF Remains
<1>7. ASSUME NEW new \in Remains(db, s)
      PROVE  \E some : Poured(db, Base(db, from), Base(db, to), some, new)
    BY <1>4, <1>6, <1>7
<1> QED
    BY <1>3, <1>4, <1>5, <1>7 DEF s

LEMMA PouredOK ==
    ASSUME NEW db, WellFormed(db), NEW from, NEW to, NEW some, NEW new, Poured(db, from, to, some, new)
    PROVE  WellFormed(new)
BY DEF Poured, WellFormed

LEMMA MovedIs ==
    ASSUME NEW db, NEW from, NEW to, Movable(db, <<from, to>>)
    PROVE  Renamed(db, from, to, Moved(db, <<from, to>>))
BY DEF Movable, Moved, Exists, Renamed

LEMMA RenamedOK ==
    ASSUME NEW db, WellFormed(db), NEW from, NEW to, NEW new, Renamed(db, from, to, new)
    PROVE  WellFormed(new)
BY DEF Renamed, WellFormed

LEMMA SetAsideEffect ==
    ASSUME NEW db, Accepts(db, SetAside)
    PROVE  /\ Renamed(db, "logs", "logs_single_node", Effect(db, SetAside))
           /\ Remains(db, SetAside) = {db, Effect(db, SetAside)}
<1>1. SetAside.op = "rename" /\ SetAside.pairs = << <<"logs", "logs_single_node">> >>
    BY DEF SetAside, Rename
<1>2. Len(SetAside.pairs) = 1 /\ SetAside.pairs[1] = <<"logs", "logs_single_node">>
    BY <1>1
<1>3. Movable(db, <<"logs", "logs_single_node">>)
    BY <1>1, <1>2 DEF Accepts
<1>4. Effect(db, SetAside) = Moved(db, <<"logs", "logs_single_node">>)
    BY <1>1, <1>2 DEF Effect
<1>5. Remains(db, SetAside) = {db, Effect(db, SetAside)}
    BY <1>1, <1>2, <1>4 DEF Remains
<1> QED
    BY <1>3, <1>4, <1>5, MovedIs

LEMMA SwapEffect ==
    ASSUME NEW db, Accepts(db, SwapOptimized)
    PROVE  \E half : /\ Renamed(db, "logs", "logs_before_optimization", half)
                     /\ Renamed(half, "logs_optimized", "logs", Effect(db, SwapOptimized))
                     /\ Remains(db, SwapOptimized) = {db, half, Effect(db, SwapOptimized)}
<1> DEFINE a == <<"logs", "logs_before_optimization">>
           b == <<"logs_optimized", "logs">>
<1>1. SwapOptimized.op = "rename" /\ SwapOptimized.pairs = <<a, b>>
    BY DEF SwapOptimized, Rename
<1>2. Len(SwapOptimized.pairs) = 2 /\ SwapOptimized.pairs[1] = a /\ SwapOptimized.pairs[2] = b
    BY <1>1
<1>3. Movable(db, a) /\ Movable(Moved(db, a), b)
    BY <1>1, <1>2 DEF Accepts
<1>4. Effect(db, SwapOptimized) = Moved(Moved(db, a), b)
    BY <1>1, <1>2 DEF Effect
<1>5. Remains(db, SwapOptimized) = {db, Moved(db, a), Effect(db, SwapOptimized)}
    BY <1>1, <1>2 DEF Remains
<1>6. /\ Renamed(db, "logs", "logs_before_optimization", Moved(db, a))
      /\ Renamed(Moved(db, a), "logs_optimized", "logs", Moved(Moved(db, a), b))
    BY <1>3, MovedIs
<1> QED
    BY <1>4, <1>5, <1>6

LEMMA AlterEffect ==
    ASSUME NEW db, WellFormed(db), NEW t, Accepts(db, AddTemplates(t))
    PROVE  LET new == Effect(db, AddTemplates(t)) IN
           /\ t \in DOMAIN db /\ DOMAIN new = DOMAIN db
           /\ \A u \in DOMAIN db \ {t} : new[u] = db[u]
           /\ new[t] \in TableType /\ new[t].templates = TRUE
           /\ new[t].over = db[t].over /\ new[t].rows = db[t].rows
<1> DEFINE s == AddTemplates(t)
<1>1. s.op = "alter" /\ s.table = t
    BY DEF AddTemplates
<1> HIDE DEF s
<1>2. Accepts(db, s)
    BY DEF s
<1>3. t \in DOMAIN db
    BY <1>1, <1>2 DEF Accepts, Exists
<1>4. Effect(db, s) = [db EXCEPT ![t].templates = TRUE]
    BY <1>1 DEF Effect
<1>5. db[t] \in TableType
    BY <1>3 DEF WellFormed
<1> QED
    BY <1>3, <1>4, <1>5 DEF TableType, s

\* CREATE and ALTER are done or not.
LEMMA RemainsWhole ==
    ASSUME NEW db, NEW s, s.op = "create" \/ s.op = "alter"
    PROVE  Remains(db, s) = {db, Effect(db, s)}
BY DEF Remains

-----------------------------------------------------------------------------
(* How the tables, the late statements and the runners may change.         *)

\* Nobody but p has come to a new statement, at most to statement n of v.
Arrives(p, v, n) ==
    \A q \in Runners : \A w, m :
        m # 1 /\ Here(q, w, m)' => Here(q, w, m) \/ (q = p /\ w = v /\ m = n)
\* No version but v has been completed.
Completes(v) == \A w : Complete(w)' => Complete(w) \/ w = v

LEMMA CalmOK ==
    ASSUME TablesInv, NEW p, NEW c \in {0, 1}, UNCHANGED <<table, acked, exposed>>, late' \subseteq late,
           Arrives(p, 0, 0), Completes(c)
    PROVE  TablesInv'
<1>1. /\ \A q \in Runners : /\ Here(q, 2, 2)' => Here(q, 2, 2)
                            /\ Here(q, 2, 3)' => Here(q, 2, 3)
                            /\ Here(q, 3, 2)' => Here(q, 3, 2)
                            /\ Here(q, 3, 3)' => Here(q, 3, 3)
                            /\ Here(q, 3, 4)' => Here(q, 3, 4)
                            /\ Here(q, 4, 2)' => Here(q, 4, 2)
      /\ Complete(2)' => Complete(2)
      /\ Complete(3)' => Complete(3)
      /\ Complete(4)' => Complete(4)
    BY DEF Arrives, Completes
<1>2. /\ \A t : Has(t)' <=> Has(t)
      /\ \A t : Full(t)' <=> Full(t)
      /\ \A t, r : Holds(t, r)' <=> Holds(t, r)
    BY DEF Has, Full, Holds
<1>3. Catalogue' /\ Stored' /\ CopiedOnce' /\ NothingLost'
    BY <1>1, <1>2 DEF TablesInv, Catalogue, Stored, CopiedOnce, NothingLost
<1>4. OneOptimizer' /\ StillEmpty'
    BY <1>1, <1>2 DEF TablesInv, OneOptimizer, StillEmpty, Optimizing
<1>5. OneDistributor' /\ StillApart'
    BY <1>1, <1>2 DEF TablesInv, OneDistributor, StillApart, Distributing, LeftOver
<1>6. Whereabouts' /\ Columns'
    BY <1>1, <1>2 DEF TablesInv, Whereabouts, Columns, Distributing
<1> QED
    BY <1>3, <1>4, <1>5, <1>6 DEF TablesInv

\* What Arrives and Completes say of the places the invariant is about.
LEMMA Places ==
    ASSUME NEW p, NEW v, NEW n, NEW w, Arrives(p, v, n), Completes(w)
    PROVE  /\ \A q \in Runners : /\ Here(q, 2, 2)' => Here(q, 2, 2) \/ (q = p /\ v = 2 /\ n = 2)
                                 /\ Here(q, 2, 3)' => Here(q, 2, 3) \/ (q = p /\ v = 2 /\ n = 3)
                                 /\ Here(q, 3, 2)' => Here(q, 3, 2) \/ (q = p /\ v = 3 /\ n = 2)
                                 /\ Here(q, 3, 3)' => Here(q, 3, 3) \/ (q = p /\ v = 3 /\ n = 3)
                                 /\ Here(q, 3, 4)' => Here(q, 3, 4) \/ (q = p /\ v = 3 /\ n = 4)
                                 /\ Here(q, 4, 2)' => Here(q, 4, 2) \/ (q = p /\ v = 4 /\ n = 2)
           /\ Complete(2)' => Complete(2) \/ w = 2
           /\ Complete(3)' => Complete(3) \/ w = 3
           /\ Complete(4)' => Complete(4) \/ w = 4
BY DEF Arrives, Completes

\* A new, empty table: what holds of the rows still holds.
LEMMA MadeRows ==
    ASSUME TypeOK, TablesInv, NEW t, NEW over \in BOOLEAN, Made(table, t, over, table'),
           UNCHANGED <<acked, exposed>>
    PROVE  /\ ~Has(t) /\ \A u : Has(u)' <=> Has(u) \/ u = t
           /\ table'[t].over = over /\ \A r \in Rows : ~Holds(t, r)'
           /\ \A u : Has(u) => table'[u] = table[u]
           /\ \A u : Has(u) => \A r : Holds(u, r)' <=> Holds(u, r)
           /\ \A u : Full(u) => Full(u)'
           /\ Stored' /\ CopiedOnce' /\ NothingLost'
<1>1. /\ ~Has(t) /\ \A u : Has(u)' <=> Has(u) \/ u = t
      /\ \A u : Has(u) => table'[u] = table[u]
    BY DEF Made, Has
<1>2. table'[t].over = over /\ \A r \in Rows : table'[t].rows[r] = 0
    BY DEF Made, NoRows
<1>3. \A r \in Rows : ~Holds(t, r)'
    BY <1>2 DEF Holds
<1>4. \A u : Has(u) => \A r : Holds(u, r)' <=> Holds(u, r)
    BY <1>1 DEF Holds
<1>5. \A u : Full(u) => Full(u)'
    BY <1>1, <1>4 DEF Full
<1>6. Stored'
    BY <1>1, <1>3, <1>4 DEF TablesInv, Stored, Has
<1>7. CopiedOnce'
    <2> SUFFICES ASSUME NEW u \in DOMAIN table', NEW r \in Rows PROVE table'[u].rows[r] <= 1
        BY DEF CopiedOnce
    <2>1. CASE u = t
        BY <1>2, <2>1
    <2>2. CASE u # t
        BY <1>1, <2>2 DEF TablesInv, CopiedOnce, Has
    <2> QED
        BY <2>1, <2>2
<1>8. NothingLost'
    BY <1>1 DEF TablesInv, NothingLost, Has
<1> QED
    BY <1>1, <1>2, <1>3, <1>4, <1>5, <1>6, <1>7, <1>8

\* 001, or an earlier logs that has been renamed away: CREATE TABLE logs.
LEMMA MadeLogsOK ==
    ASSUME TypeOK, TablesInv, NEW p, Made(table, "logs", FALSE, table'), UNCHANGED <<acked, exposed>>,
           late' \subseteq late, Arrives(p, 0, 0), Completes(1)
    PROVE  TablesInv'
<1>1. /\ ~Has("logs") /\ \A u : Has(u)' <=> Has(u) \/ u = "logs"
      /\ ~table'["logs"].over
      /\ \A u : Has(u) => table'[u] = table[u]
      /\ \A u : Has(u) => \A r : Holds(u, r)' <=> Holds(u, r)
      /\ \A u : Full(u) => Full(u)'
      /\ Stored' /\ CopiedOnce' /\ NothingLost'
    BY MadeRows
<1>2. /\ \A q \in Runners : /\ Here(q, 2, 2)' => Here(q, 2, 2)
                            /\ Here(q, 2, 3)' => Here(q, 2, 3)
                            /\ Here(q, 3, 2)' => Here(q, 3, 2)
                            /\ Here(q, 3, 3)' => Here(q, 3, 3)
                            /\ Here(q, 3, 4)' => Here(q, 3, 4)
                            /\ Here(q, 4, 2)' => Here(q, 4, 2)
      /\ Complete(2)' => Complete(2)
      /\ Complete(3)' => Complete(3)
      /\ Complete(4)' => Complete(4)
    BY Places
<1>3. Catalogue'
    BY <1>1, <1>2 DEF TablesInv, Catalogue, Has
<1>4. OneOptimizer' /\ StillEmpty'
    BY <1>1, <1>2 DEF TablesInv, OneOptimizer, StillEmpty, Optimizing
<1>5. OneDistributor' /\ StillApart'
    BY <1>1, <1>2 DEF TablesInv, OneDistributor, StillApart, Distributing, LeftOver
<1>6. ~Full("logs")
    BY <1>1 DEF Full
<1>7. Whereabouts'
    BY <1>1, <1>2, <1>6 DEF TablesInv, Whereabouts, Distributing
<1>8. Columns'
    BY <1>1, <1>2 DEF TablesInv, Columns
<1> QED
    BY <1>1, <1>3, <1>4, <1>5, <1>7, <1>8 DEF TablesInv

\* 002 begins: whoever creates logs_optimized has it for himself.
LEMMA MadeOptimizedOK ==
    ASSUME TypeOK, TablesInv, NEW p, Made(table, "logs_optimized", FALSE, table'),
           UNCHANGED <<acked, exposed>>, late' \subseteq late, Arrives(p, 2, 2), Completes(0)
    PROVE  TablesInv'
<1>1. /\ ~Has("logs_optimized") /\ \A u : Has(u)' <=> Has(u) \/ u = "logs_optimized"
      /\ ~table'["logs_optimized"].over /\ \A r \in Rows : ~Holds("logs_optimized", r)'
      /\ \A u : Has(u) => table'[u] = table[u]
      /\ \A u : Has(u) => \A r : Holds(u, r)' <=> Holds(u, r)
      /\ \A u : Full(u) => Full(u)'
      /\ Stored' /\ CopiedOnce' /\ NothingLost'
    BY MadeRows
<1>2. /\ \A q \in Runners : /\ Here(q, 2, 2)' => Here(q, 2, 2) \/ q = p
                            /\ Here(q, 2, 3)' => Here(q, 2, 3)
                            /\ Here(q, 3, 2)' => Here(q, 3, 2)
                            /\ Here(q, 3, 3)' => Here(q, 3, 3)
                            /\ Here(q, 3, 4)' => Here(q, 3, 4)
                            /\ Here(q, 4, 2)' => Here(q, 4, 2)
      /\ Complete(2)' => Complete(2)
      /\ Complete(3)' => Complete(3)
      /\ Complete(4)' => Complete(4)
    BY Places
<1>3. Catalogue'
    BY <1>1, <1>2 DEF TablesInv, Catalogue, Has
<1>4. \A q \in Runners : ~Optimizing(q)
    BY <1>1 DEF TablesInv, OneOptimizer
<1>5. {CopyOptimized, SwapOptimized} \cap late = {}
    BY <1>1 DEF TablesInv, OneOptimizer
<1>6. OneOptimizer' /\ StillEmpty'
    BY <1>1, <1>2, <1>4, <1>5 DEF OneOptimizer, StillEmpty, Optimizing
<1>7. OneDistributor' /\ StillApart'
    BY <1>1, <1>2 DEF TablesInv, OneDistributor, StillApart, Distributing, LeftOver
<1>8. \A q \in Runners : ~Here(q, 2, 3)'
    BY <1>2, <1>4 DEF Optimizing
<1>9. Whereabouts'
    BY <1>1, <1>2, <1>5, <1>8 DEF TablesInv, Whereabouts, Distributing
<1>10. Columns'
    BY <1>1, <1>2 DEF TablesInv, Columns
<1> QED
    BY <1>1, <1>3, <1>6, <1>7, <1>9, <1>10 DEF TablesInv

\* 003: the runner that has set logs aside, or what it left running, creates
\* logs_local ...
LEMMA MadeLocalOK ==
    ASSUME TypeOK, TablesInv, NEW p, Made(table, "logs_local", FALSE, table'),
           UNCHANGED <<acked, exposed>>, late' \subseteq late, Arrives(p, 3, 3), Completes(0),
           (p \in Runners /\ Here(p, 3, 2)) \/ CreateLocal \in late,
           (p \in Runners /\ Here(p, 3, 3)') => Here(p, 3, 2)
    PROVE  TablesInv'
<1>1. /\ ~Has("logs_local") /\ \A u : Has(u)' <=> Has(u) \/ u = "logs_local"
      /\ ~table'["logs_local"].over /\ \A r \in Rows : ~Holds("logs_local", r)'
      /\ \A u : Has(u) => table'[u] = table[u]
      /\ \A u : Has(u) => \A r : Holds(u, r)' <=> Holds(u, r)
      /\ \A u : Full(u) => Full(u)'
      /\ Stored' /\ CopiedOnce' /\ NothingLost'
    BY MadeRows
<1>2. /\ \A q \in Runners : /\ Here(q, 2, 2)' => Here(q, 2, 2)
                            /\ Here(q, 2, 3)' => Here(q, 2, 3)
                            /\ Distributing(q)' => Distributing(q)
                            /\ Here(q, 3, 4)' => Here(q, 3, 4)
                            /\ Here(q, 4, 2)' => Here(q, 4, 2)
      /\ Complete(2)' => Complete(2)
      /\ Complete(3)' => Complete(3)
      /\ Complete(4)' => Complete(4)
    BY Places DEF Distributing
<1>3. Has("logs_single_node")
    BY DEF TablesInv, OneDistributor, Distributing, LeftOver
<1>4. Catalogue'
    BY <1>1, <1>2, <1>3 DEF TablesInv, Catalogue, Has
<1>5. OneOptimizer' /\ StillEmpty'
    BY <1>1, <1>2 DEF TablesInv, OneOptimizer, StillEmpty, Optimizing
<1>6. OneDistributor' /\ StillApart'
    BY <1>1, <1>2 DEF TablesInv, OneDistributor, StillApart, LeftOver
<1>7. Whereabouts'
    BY <1>1, <1>2 DEF TablesInv, Whereabouts
<1>8. Columns'
    BY <1>1, <1>2 DEF TablesInv, Columns
<1> QED
    BY <1>1, <1>4, <1>5, <1>6, <1>7, <1>8 DEF TablesInv

\* ... and the Distributed logs.
LEMMA MadeDistributedOK ==
    ASSUME TypeOK, TablesInv, NEW p, Made(table, "logs", TRUE, table'), Has("logs_local"),
           UNCHANGED <<acked, exposed>>, late' \subseteq late, Arrives(p, 3, 4), Completes(0),
           (p \in Runners /\ Here(p, 3, 3)) \/ CreateDistributed \in late,
           (p \in Runners /\ Here(p, 3, 4)') => Here(p, 3, 3)
    PROVE  TablesInv'
<1>1. /\ ~Has("logs") /\ \A u : Has(u)' <=> Has(u) \/ u = "logs"
      /\ table'["logs"].over /\ \A r \in Rows : ~Holds("logs", r)'
      /\ \A u : Has(u) => table'[u] = table[u]
      /\ \A u : Has(u) => \A r : Holds(u, r)' <=> Holds(u, r)
      /\ \A u : Full(u) => Full(u)'
      /\ Stored' /\ CopiedOnce' /\ NothingLost'
    BY MadeRows
<1>2. /\ \A q \in Runners : /\ Here(q, 2, 2)' => Here(q, 2, 2)
                            /\ Here(q, 2, 3)' => Here(q, 2, 3)
                            /\ Distributing(q)' => Distributing(q)
                            /\ Here(q, 4, 2)' => Here(q, 4, 2)
      /\ Complete(2)' => Complete(2)
      /\ Complete(3)' => Complete(3)
      /\ Complete(4)' => Complete(4)
    BY Places DEF Distributing
<1>3. Has("logs_single_node")
    BY DEF TablesInv, OneDistributor, Distributing, LeftOver
<1>4. Has("logs_before_optimization")
    BY <1>3 DEF TablesInv, Catalogue
<1>5. Catalogue'
    BY <1>1, <1>2, <1>3, <1>4 DEF TablesInv, Catalogue, Has
<1>6. OneOptimizer' /\ StillEmpty'
    BY <1>1, <1>2 DEF TablesInv, OneOptimizer, StillEmpty, Optimizing
<1>7. OneDistributor' /\ StillApart'
    BY <1>1, <1>2 DEF TablesInv, OneDistributor, StillApart, LeftOver
<1>8. Whereabouts'
    BY <1>1, <1>2, <1>3, <1>4 DEF TablesInv, Whereabouts
<1>9. Columns'
    BY <1>1, <1>2 DEF TablesInv, Columns
<1> QED
    BY <1>1, <1>5, <1>6, <1>7, <1>8, <1>9 DEF TablesInv

\* Rows are copied: no table loses any.
LEMMA PouredRows ==
    ASSUME TypeOK, TablesInv, NEW from, NEW to, NEW some, Poured(table, from, to, some, table'),
           UNCHANGED <<acked, exposed>>,
           \A r \in Rows : ~(Holds(from, r) /\ Holds(to, r))
    PROVE  /\ \A u : Has(u)' <=> Has(u)
           /\ \A u : Has(u) /\ u # to => table'[u] = table[u]
           /\ \A u : Has(u) => table'[u].over = table[u].over /\ table'[u].templates = table[u].templates
           /\ \A u : Has(u) /\ u # to => \A r \in Rows : Holds(u, r)' <=> Holds(u, r)
           /\ \A u : Full(u) => Full(u)'
           /\ some = Rows /\ Full(from) => Full(to)'
           /\ Stored' /\ CopiedOnce' /\ NothingLost'
<1>1. /\ Has(from) /\ Has(to) /\ \A u : Has(u)' <=> Has(u)
      /\ \A u : Has(u) /\ u # to => table'[u] = table[u]
    BY DEF Poured, Has
<1>2. \A u : Has(u) => table'[u].over = table[u].over /\ table'[u].templates = table[u].templates
    BY <1>1 DEF Poured
<1>3. \A r \in Rows : table[from].rows[r] \in Nat /\ table[to].rows[r] \in Nat
    BY <1>1 DEF TypeOK, Has
<1>4. \A r \in Rows : table'[to].rows[r] = table[to].rows[r] + IF r \in some THEN table[from].rows[r] ELSE 0
    BY DEF Poured
<1>5. ASSUME NEW r \in Rows
      PROVE  /\ Holds(to, r) => Holds(to, r)'
             /\ r \in some /\ Holds(from, r) => Holds(to, r)'
             /\ Holds(to, r)' => Holds(to, r) \/ Holds(from, r)
             /\ table'[to].rows[r] <= 1
    <2>1. table[from].rows[r] <= 1 /\ table[to].rows[r] <= 1
        BY <1>1 DEF TablesInv, CopiedOnce, Has
    <2>2. table[from].rows[r] = 0 \/ table[to].rows[r] = 0
        BY <1>3 DEF Holds
    <2> QED
        BY <1>3, <1>4, <2>1, <2>2 DEF Holds
<1>6. \A u : Has(u) /\ u # to => \A r \in Rows : Holds(u, r)' <=> Holds(u, r)
    BY <1>1 DEF Holds
<1>7. acked \subseteq Rows
    BY DEF TypeOK
<1>8. \A u : Full(u) => Full(u)'
    <2> SUFFICES ASSUME NEW u, Full(u), NEW r \in acked \ exposed PROVE Has(u)' /\ Holds(u, r)'
        BY <1>1 DEF Full
    <2>1. Has(u) /\ r \in Rows /\ Holds(u, r)
        BY <1>7 DEF Full
    <2> QED
        BY <1>1, <1>5, <1>6, <2>1
<1>9. ASSUME some = Rows, Full(from) PROVE Full(to)'
    <2>1. ASSUME NEW r \in acked \ exposed PROVE Holds(to, r)'
        BY <1>5, <1>7, <1>9 DEF Full
    <2> QED
        BY <1>1, <2>1 DEF Full
<1>10. Stored'
    <2> SUFFICES ASSUME NEW u \in DOMAIN table', NEW r \in Rows, Holds(u, r)' PROVE r \in acked
        BY DEF Stored
    <2>1. Has(u) /\ (Holds(u, r) \/ Holds(from, r))
        BY <1>1, <1>5, <1>6 DEF Has
    <2> QED
        BY <1>1, <2>1 DEF TablesInv, Stored, Has
<1>11. CopiedOnce'
    BY <1>1, <1>5 DEF TablesInv, CopiedOnce, Has
<1>12. NothingLost'
    <2> SUFFICES ASSUME NEW r \in acked
                 PROVE  \E t \in DOMAIN table' : ~table'[t].over /\ table'[t].rows[r] > 0
        BY DEF NothingLost
    <2>1. PICK t \in DOMAIN table : ~table[t].over /\ table[t].rows[r] > 0
        BY DEF TablesInv, NothingLost
    <2>2. Has(t) /\ Holds(t, r) /\ r \in Rows
        BY <1>7, <2>1 DEF Has, Holds
    <2>3. Holds(t, r)'
        BY <1>5, <1>6, <2>2
    <2> QED
        BY <1>1, <1>2, <2>1, <2>2, <2>3 DEF Has, Holds
<1> QED
    BY <1>1, <1>2, <1>6, <1>8, <1>9, <1>10, <1>11, <1>12

\* 002: the copy into logs_optimized, which has been empty so far.
LEMMA PouredOptimizedOK ==
    ASSUME TypeOK, TablesInv, NEW p, NEW from, NEW some,
           Poured(table, from, "logs_optimized", some, table'),
           from # "logs_optimized", ~Has("logs_before_optimization") => from = "logs",
           UNCHANGED <<acked, exposed>>, late' \subseteq late \ {CopyOptimized},
           (p \in Runners /\ Here(p, 2, 2)) \/ CopyOptimized \in late,
           \A q \in Runners : ~Here(q, 2, 2)',
           Arrives(p, 2, 3), Completes(0),
           (p \in Runners /\ Here(p, 2, 3)') => Here(p, 2, 2) /\ some = Rows
    PROVE  TablesInv'
<1>1. \A r \in Rows : ~Holds("logs_optimized", r)
    BY DEF TablesInv, StillEmpty
<1>2. /\ \A u : Has(u)' <=> Has(u)
      /\ \A u : Has(u) /\ u # "logs_optimized" => table'[u] = table[u]
      /\ \A u : Has(u) => table'[u].over = table[u].over /\ table'[u].templates = table[u].templates
      /\ \A u : Has(u) /\ u # "logs_optimized" => \A r \in Rows : Holds(u, r)' <=> Holds(u, r)
      /\ \A u : Full(u) => Full(u)'
      /\ some = Rows /\ Full(from) => Full("logs_optimized")'
      /\ Stored' /\ CopiedOnce' /\ NothingLost'
    BY <1>1, PouredRows
<1>3. /\ \A q \in Runners : /\ Optimizing(q)' => Optimizing(q) /\ Here(q, 2, 3)'
                            /\ Here(q, 2, 3)' => Here(q, 2, 3) \/ (q = p /\ Here(p, 2, 2) /\ some = Rows)
                            /\ Distributing(q)' => Distributing(q)
                            /\ Here(q, 3, 4)' => Here(q, 3, 4)
                            /\ Here(q, 4, 2)' => Here(q, 4, 2)
      /\ Complete(2)' => Complete(2)
      /\ Complete(3)' => Complete(3)
      /\ Complete(4)' => Complete(4)
    BY Places DEF Distributing, Optimizing
<1>4. Catalogue'
    BY <1>2, <1>3 DEF TablesInv, Catalogue, Has
<1>5. OneOptimizer'
    BY <1>2, <1>3 DEF TablesInv, OneOptimizer
<1>6. StillEmpty'
    BY DEF StillEmpty
<1>7. OneDistributor'
    BY <1>2, <1>3 DEF TablesInv, OneDistributor, LeftOver
<1>8. StillApart'
    BY <1>2, <1>3 DEF TablesInv, StillApart, OneDistributor, LeftOver
<1>9. acked = {} => Full("logs_optimized")'
    BY <1>2 DEF Full, Poured, Has
<1>10. Whereabouts'
    <2>1. ~Has("logs_before_optimization")' => acked' = {} \/ Full("logs")'
        BY <1>2 DEF TablesInv, Whereabouts
    <2>2. SwapOptimized \notin late
        BY DEF TablesInv, OneOptimizer, Optimizing
    <2>3. \A q \in Runners : ~Here(q, 2, 3)
        <3>1. ASSUME NEW q \in Runners, Here(q, 2, 3) PROVE FALSE
            <4>1. CopyOptimized \notin late
                BY <3>1 DEF TablesInv, OneOptimizer, Optimizing
            <4>2. q = p
                BY <3>1, <4>1 DEF TablesInv, OneOptimizer, Optimizing
            <4> QED
                BY <3>1, <4>1, <4>2 DEF Here
        <3> QED
            BY <3>1
    <2>4. ~Has("logs_before_optimization")' /\ (SwapOptimized \in late' \/ \E q \in Runners : Here(q, 2, 3)')
             => Full("logs_optimized")'
        BY <1>2, <1>3, <1>9, <2>2, <2>3 DEF TablesInv, Whereabouts
    <2> QED
        BY <1>2, <1>3, <2>1, <2>4 DEF TablesInv, Whereabouts
<1>11. Columns'
    BY <1>2, <1>3 DEF TablesInv, Columns
<1> QED
    BY <1>2, <1>4, <1>5, <1>6, <1>7, <1>8, <1>10, <1>11 DEF TablesInv

\* The new names of the tables, and rows that go with them.
LEMMA SwapRows ==
    ASSUME TypeOK, TablesInv, NEW half, Renamed(table, "logs", "logs_before_optimization", half),
           Renamed(half, "logs_optimized", "logs", table'), UNCHANGED <<acked, exposed>>
    PROVE  /\ Has("logs") /\ Has("logs_optimized") /\ ~Has("logs_before_optimization")
           /\ \A u : Has(u)' <=> \/ Has(u) /\ u # "logs_optimized"
                                 \/ u = "logs" \/ u = "logs_before_optimization"
           /\ \A u : Has(u)' /\ u # "logs" /\ u # "logs_before_optimization" => table'[u] = table[u]
           /\ table'["logs"] = table["logs_optimized"]
           /\ table'["logs_before_optimization"] = table["logs"]
           /\ Full("logs_optimized") => Full("logs")'
           /\ Stored' /\ CopiedOnce' /\ NothingLost'
<1>1. /\ Has("logs") /\ ~Has("logs_before_optimization")
      /\ DOMAIN half = (DOMAIN table \ {"logs"}) \cup {"logs_before_optimization"}
      /\ half["logs_before_optimization"] = table["logs"]
      /\ \A u \in DOMAIN table \ {"logs"} : half[u] = table[u]
    BY DEF Renamed, Has
<1>2. /\ "logs_optimized" \in DOMAIN half
      /\ DOMAIN table' = (DOMAIN half \ {"logs_optimized"}) \cup {"logs"}
      /\ table'["logs"] = half["logs_optimized"]
      /\ \A u \in DOMAIN half \ {"logs_optimized"} : table'[u] = half[u]
    BY DEF Renamed
<1>3. Has("logs_optimized") /\ half["logs_optimized"] = table["logs_optimized"]
    BY <1>1, <1>2 DEF Has
<1>4. /\ \A u : Has(u)' <=> (Has(u) /\ u # "logs_optimized") \/ u = "logs" \/ u = "logs_before_optimization"
      /\ \A u : Has(u)' /\ u # "logs" /\ u # "logs_before_optimization" => table'[u] = table[u]
    BY <1>1, <1>2 DEF Has
<1>5. table'["logs"] = table["logs_optimized"] /\ table'["logs_before_optimization"] = table["logs"]
    BY <1>1, <1>2, <1>3
<1>6. Full("logs_optimized") => Full("logs")'
    BY <1>4, <1>5 DEF Full, Holds
<1>7. \A u : Has(u)' => \E t \in DOMAIN table : table'[u] = table[t]
    BY <1>1, <1>3, <1>4, <1>5 DEF Has
<1>8. ASSUME NEW t \in DOMAIN table PROVE \E u \in DOMAIN table' : table'[u] = table[t]
    <2>1. CASE t = "logs"
        BY <1>4, <1>5, <2>1 DEF Has
    <2>2. CASE t = "logs_optimized"
        BY <1>4, <1>5, <2>2 DEF Has
    <2>3. CASE t # "logs" /\ t # "logs_optimized"
        <3>1. Has(t)' /\ t # "logs_before_optimization"
            BY <1>1, <1>4, <2>3 DEF Has
        <3> QED
            BY <1>4, <2>3, <3>1 DEF Has
    <2> QED
        BY <2>1, <2>2, <2>3
<1>9. Stored' /\ CopiedOnce'
    BY <1>7 DEF TablesInv, Stored, CopiedOnce, Has, Holds
<1>10. NothingLost'
    <2> SUFFICES ASSUME NEW r \in acked
                 PROVE  \E t \in DOMAIN table' : ~table'[t].over /\ table'[t].rows[r] > 0
        BY DEF NothingLost
    <2>1. PICK t \in DOMAIN table : ~table[t].over /\ table[t].rows[r] > 0
        BY DEF TablesInv, NothingLost
    <2> QED
        BY <1>8, <2>1
<1> QED
    BY <1>1, <1>3, <1>4, <1>5, <1>6, <1>9, <1>10

\* Before 002 has swapped the tables nothing of 003 has begun.
LEMMA BeforeSwap ==
    ASSUME TablesInv, ~Has("logs_before_optimization"), Has("logs")
    PROVE  /\ ~Has("logs_single_node") /\ ~Has("logs_local") /\ ~table["logs"].over
           /\ ~Complete(2) /\ ~Complete(3) /\ ~Complete(4)
           /\ SetAside \notin late /\ LeftOver = {}
           /\ \A q \in Runners : ~Distributing(q) /\ ~Here(q, 4, 2)
BY DEF TablesInv, Catalogue, OneDistributor, Whereabouts, Columns

\* 002 ends: the full copy becomes logs.
LEMMA SwapOK ==
    ASSUME TypeOK, TablesInv, NEW p, NEW half,
           Renamed(table, "logs", "logs_before_optimization", half),
           Renamed(half, "logs_optimized", "logs", table'), UNCHANGED <<acked, exposed>>,
           late' \subseteq late \ {SwapOptimized},
           (p \in Runners /\ Here(p, 2, 3)) \/ SwapOptimized \in late,
           \A q \in Runners : ~Here(q, 2, 3)', Arrives(p, 0, 0), Completes(2)
    PROVE  TablesInv'
<1>1. /\ Has("logs") /\ Has("logs_optimized") /\ ~Has("logs_before_optimization")
      /\ \A u : Has(u)' <=> \/ Has(u) /\ u # "logs_optimized"
                            \/ u = "logs" \/ u = "logs_before_optimization"
      /\ \A u : Has(u)' /\ u # "logs" /\ u # "logs_before_optimization" => table'[u] = table[u]
      /\ table'["logs"] = table["logs_optimized"]
      /\ table'["logs_before_optimization"] = table["logs"]
      /\ Full("logs_optimized") => Full("logs")'
      /\ Stored' /\ CopiedOnce' /\ NothingLost'
    BY SwapRows
<1>2. /\ ~Has("logs_single_node") /\ ~Has("logs_local") /\ ~table["logs"].over
      /\ ~Complete(2) /\ ~Complete(3) /\ ~Complete(4)
      /\ SetAside \notin late /\ LeftOver = {}
      /\ \A q \in Runners : ~Distributing(q) /\ ~Here(q, 4, 2)
    BY <1>1, BeforeSwap
<1>3. \A q \in Runners : ~Distributing(q)' /\ ~Here(q, 4, 2)'
    BY <1>2, Places DEF Distributing
<1>4. ~Complete(3)' /\ ~Complete(4)'
    BY <1>2, Places
<1>5. LeftOver' = {} /\ SetAside \notin late'
    BY <1>2 DEF LeftOver
<1>6. CopyOptimized \notin late /\ \A q \in Runners : ~Here(q, 2, 2)
    <2>1. CASE p \in Runners /\ Here(p, 2, 3)
        <3>1. CopyOptimized \notin late
            BY <2>1 DEF TablesInv, OneOptimizer, Optimizing
        <3>2. ASSUME NEW q \in Runners, Here(q, 2, 2) PROVE FALSE
            <4>1. q = p
                BY <2>1, <3>2 DEF TablesInv, OneOptimizer, Optimizing
            <4> QED
                BY <2>1, <3>2, <4>1 DEF Here
        <3> QED
            BY <3>1, <3>2
    <2>2. CASE SwapOptimized \in late
        BY <2>2 DEF TablesInv, OneOptimizer, Optimizing
    <2> QED
        BY <2>1, <2>2
<1>7. \A q \in Runners : ~Optimizing(q)'
    BY <1>6, Places DEF Optimizing
<1>8. Full("logs_optimized")
    BY <1>1 DEF TablesInv, Whereabouts
<1>9. ~table["logs_optimized"].over
    BY <1>1 DEF TablesInv, Catalogue, Has
<1>10. Catalogue'
    <2>1. \A t \in DOMAIN table' : table'[t].over => t = "logs"
        BY <1>1, <1>2 DEF TablesInv, Catalogue, Has
    <2> QED
        BY <1>1, <1>2, <1>9, <2>1 DEF Catalogue
<1>11. OneOptimizer' /\ StillEmpty'
    BY <1>6, <1>7 DEF OneOptimizer, StillEmpty, Optimizing
<1>12. OneDistributor' /\ StillApart'
    BY <1>3, <1>5 DEF OneDistributor, StillApart, LeftOver, Distributing
<1>13. Whereabouts'
    BY <1>1, <1>3, <1>4, <1>8 DEF Whereabouts
<1>14. Columns'
    BY <1>3, <1>4 DEF Columns
<1> QED
    BY <1>1, <1>10, <1>11, <1>12, <1>13, <1>14 DEF TablesInv

\* One table under a new name: no row goes with the old one.
LEMMA RenamedRows ==
    ASSUME TypeOK, TablesInv, NEW from, NEW to, Renamed(table, from, to, table'),
           UNCHANGED <<acked, exposed>>
    PROVE  /\ Has(from) /\ ~Has(to) /\ from # to
           /\ \A u : Has(u)' <=> (Has(u) /\ u # from) \/ u = to
           /\ \A u : Has(u) /\ u # from => table'[u] = table[u]
           /\ table'[to] = table[from]
           /\ Full(from) => Full(to)'
           /\ \A u : Full(u) /\ u # from => Full(u)'
           /\ \A r : Holds(to, r)' <=> Holds(from, r)
           /\ \A u : Has(u) /\ u # from => \A r : Holds(u, r)' <=> Holds(u, r)
           /\ Stored' /\ CopiedOnce' /\ NothingLost'
<1>1. /\ Has(from) /\ ~Has(to) /\ from # to
      /\ \A u : Has(u)' <=> (Has(u) /\ u # from) \/ u = to
      /\ \A u : Has(u) /\ u # from => table'[u] = table[u]
      /\ table'[to] = table[from]
    BY DEF Renamed, Has
<1>2. /\ \A r : Holds(to, r)' <=> Holds(from, r)
      /\ \A u : Has(u) /\ u # from => \A r : Holds(u, r)' <=> Holds(u, r)
    BY <1>1 DEF Holds
<1>3. /\ Full(from) => Full(to)'
      /\ \A u : Full(u) /\ u # from => Full(u)'
    BY <1>1, <1>2 DEF Full
<1>4. \A u : Has(u)' => \E t \in DOMAIN table : table'[u] = table[t]
    BY <1>1 DEF Has
<1>5. Stored' /\ CopiedOnce'
    BY <1>4 DEF TablesInv, Stored, CopiedOnce, Has, Holds
<1>6. NothingLost'
    <2> SUFFICES ASSUME NEW r \in acked
                 PROVE  \E t \in DOMAIN table' : ~table'[t].over /\ table'[t].rows[r] > 0
        BY DEF NothingLost
    <2>1. PICK t \in DOMAIN table : ~table[t].over /\ table[t].rows[r] > 0
        BY DEF TablesInv, NothingLost
    <2>2. CASE t = from
        BY <1>1, <2>1, <2>2 DEF Has
    <2>3. CASE t # from
        BY <1>1, <2>1, <2>3 DEF Has
    <2> QED
        BY <2>2, <2>3
<1> QED
    BY <1>1, <1>2, <1>3, <1>5, <1>6

\* 002 was cut off between its two renames: logs is gone, its rows are not.
LEMMA HalfSwapOK ==
    ASSUME TypeOK, TablesInv, NEW p, Renamed(table, "logs", "logs_before_optimization", table'),
           UNCHANGED <<acked, exposed>>, late' \subseteq late, Arrives(p, 0, 0), Completes(0)
    PROVE  TablesInv'
<1>1. /\ Has("logs") /\ ~Has("logs_before_optimization")
      /\ \A u : Has(u)' <=> (Has(u) /\ u # "logs") \/ u = "logs_before_optimization"
      /\ \A u : Has(u) /\ u # "logs" => table'[u] = table[u]
      /\ table'["logs_before_optimization"] = table["logs"]
      /\ \A u : Has(u) /\ u # "logs" => \A r : Holds(u, r)' <=> Holds(u, r)
      /\ Stored' /\ CopiedOnce' /\ NothingLost'
    BY RenamedRows
<1>2. /\ ~Has("logs_single_node") /\ ~Has("logs_local") /\ ~table["logs"].over
      /\ ~Complete(2) /\ ~Complete(3) /\ ~Complete(4)
      /\ SetAside \notin late /\ LeftOver = {}
      /\ \A q \in Runners : ~Distributing(q) /\ ~Here(q, 4, 2)
    BY <1>1, BeforeSwap
<1>3. /\ \A q \in Runners : /\ ~Distributing(q)' /\ ~Here(q, 4, 2)'
                            /\ Optimizing(q)' => Optimizing(q)
                            /\ Here(q, 2, 2)' => Here(q, 2, 2)
      /\ ~Complete(2)' /\ ~Complete(3)' /\ ~Complete(4)'
    BY <1>2, Places DEF Distributing, Optimizing
<1>4. Catalogue'
    BY <1>1, <1>2, <1>3 DEF TablesInv, Catalogue, Has
<1>5. LeftOver' = {}
    BY <1>2 DEF LeftOver
<1>6. OneOptimizer' /\ StillEmpty'
    BY <1>1, <1>3 DEF TablesInv, OneOptimizer, StillEmpty, Optimizing
<1>7. OneDistributor' /\ StillApart'
    BY <1>2, <1>3, <1>5 DEF OneDistributor, StillApart, LeftOver, Distributing
<1>8. Whereabouts' /\ Columns'
    BY <1>1, <1>3 DEF Whereabouts, Columns
<1> QED
    BY <1>1, <1>4, <1>6, <1>7, <1>8 DEF TablesInv

\* 003 begins: whoever sets logs aside has it for himself.
LEMMA SetAsideOK ==
    ASSUME TypeOK, TablesInv, NEW p, Renamed(table, "logs", "logs_single_node", table'),
           UNCHANGED <<acked, exposed>>, late' \subseteq late, Arrives(p, 3, 2), Completes(0),
           Complete(2) \/ SetAside \in late,
           (p \in Runners /\ Here(p, 3, 2)') => Complete(2)
    PROVE  TablesInv'
<1>1. /\ Has("logs") /\ ~Has("logs_single_node")
      /\ \A u : Has(u)' <=> (Has(u) /\ u # "logs") \/ u = "logs_single_node"
      /\ \A u : Has(u) /\ u # "logs" => table'[u] = table[u]
      /\ table'["logs_single_node"] = table["logs"]
      /\ Full("logs") => Full("logs_single_node")'
      /\ \A u : Full(u) /\ u # "logs" => Full(u)'
      /\ \A u : Has(u) /\ u # "logs" => \A r : Holds(u, r)' <=> Holds(u, r)
      /\ Stored' /\ CopiedOnce' /\ NothingLost'
    BY RenamedRows
<1>2. /\ Has("logs_before_optimization") /\ ~Has("logs_local") /\ ~table["logs"].over
      /\ ~Complete(3) /\ ~Complete(4) /\ LeftOver = {}
      /\ \A q \in Runners : ~Distributing(q) /\ ~Here(q, 4, 2)
    BY <1>1 DEF TablesInv, Catalogue, OneDistributor, Whereabouts, Columns
<1>3. /\ \A q \in Runners : /\ Here(q, 2, 2)' => Here(q, 2, 2)
                            /\ Optimizing(q)' => Optimizing(q)
                            /\ Distributing(q)' => q = p /\ Here(q, 3, 2)'
                            /\ ~Here(q, 3, 4)' /\ ~Here(q, 4, 2)'
      /\ Complete(2)' => Complete(2)
      /\ ~Complete(3)' /\ ~Complete(4)'
    BY <1>2, Places DEF Distributing, Optimizing
<1>4. Catalogue'
    BY <1>1, <1>2, <1>3 DEF TablesInv, Catalogue, Has
<1>5. OneOptimizer' /\ StillEmpty'
    BY <1>1, <1>3 DEF TablesInv, OneOptimizer, StillEmpty, Optimizing
<1>6. LeftOver' = {}
    BY <1>2 DEF LeftOver
<1>7. OneDistributor' /\ StillApart'
    BY <1>1, <1>2, <1>3, <1>6 DEF OneDistributor, StillApart, LeftOver
<1>8. Complete(2) => Full("logs_single_node")'
    BY <1>1 DEF TablesInv, Whereabouts
<1>9. Whereabouts' /\ Columns'
    BY <1>1, <1>2, <1>3, <1>8 DEF Whereabouts, Columns
<1> QED
    BY <1>1, <1>4, <1>5, <1>7, <1>9 DEF TablesInv

\* 003 ends: what was set aside is copied into logs_local, next to the rows
\* that the processor has written there meanwhile.
LEMMA PouredLocalOK ==
    ASSUME TypeOK, TablesInv, NEW p, NEW some,
           Poured(table, "logs_single_node", "logs_local", some, table'),
           UNCHANGED <<acked, exposed>>, late' \subseteq late \ {CopySingleNode},
           (p \in Runners /\ Here(p, 3, 4)) \/ CopySingleNode \in late,
           \A q \in Runners : ~Here(q, 3, 4)', Arrives(p, 0, 0), Completes(3),
           Complete(3)' => Complete(3) \/ (p \in Runners /\ Here(p, 3, 4) /\ some = Rows)
    PROVE  TablesInv'
<1>1. Has("logs_local") /\ Has("logs_single_node") /\ Has("logs_before_optimization")
    BY DEF Poured, Has, TablesInv, Catalogue
<1>2. \A r \in Rows : ~(Holds("logs_single_node", r) /\ Holds("logs_local", r))
    BY <1>1 DEF TablesInv, StillApart, Distributing
<1>3. /\ \A u : Has(u)' <=> Has(u)
      /\ \A u : Has(u) /\ u # "logs_local" => table'[u] = table[u]
      /\ \A u : Has(u) => table'[u].over = table[u].over /\ table'[u].templates = table[u].templates
      /\ \A u : Has(u) /\ u # "logs_local" => \A r \in Rows : Holds(u, r)' <=> Holds(u, r)
      /\ \A u : Full(u) => Full(u)'
      /\ some = Rows /\ Full("logs_single_node") => Full("logs_local")'
      /\ Stored' /\ CopiedOnce' /\ NothingLost'
    BY <1>2, PouredRows
<1>4. \A q \in Runners : ~Distributing(q)'
    <2> SUFFICES ASSUME NEW q \in Runners, Here(q, 3, 2)' \/ Here(q, 3, 3)' PROVE FALSE
        BY DEF Distributing
    <2>1. Here(q, 3, 2) \/ Here(q, 3, 3)
        BY Places
    <2>2. CopySingleNode \notin late
        BY <2>1 DEF TablesInv, OneDistributor, Distributing, LeftOver
    <2>3. q = p
        BY <2>1, <2>2 DEF TablesInv, OneDistributor, Distributing
    <2> QED
        BY <2>1, <2>2, <2>3 DEF Here
<1>5. /\ \A q \in Runners : /\ Here(q, 2, 2)' => Here(q, 2, 2)
                            /\ Here(q, 2, 3)' => Here(q, 2, 3)
                            /\ Optimizing(q)' => Optimizing(q)
                            /\ Here(q, 4, 2)' => Here(q, 4, 2)
      /\ Complete(2)' => Complete(2)
      /\ Complete(4)' => Complete(4)
    BY Places DEF Optimizing
<1>6. Has("logs") /\ table["logs"].over
    BY DEF TablesInv, OneDistributor
<1>7. Catalogue'
    BY <1>3, <1>5 DEF TablesInv, Catalogue, Has
<1>8. OneOptimizer' /\ StillEmpty'
    BY <1>3, <1>5 DEF TablesInv, OneOptimizer, StillEmpty, Optimizing
<1>9. OneDistributor' /\ StillApart'
    BY <1>1, <1>3, <1>4 DEF OneDistributor, StillApart, LeftOver, Distributing
<1>10. Complete(3)' => Full("logs_local")'
    BY <1>3 DEF TablesInv, Whereabouts, Distributing
<1>11. Whereabouts'
    BY <1>1, <1>3, <1>4, <1>6, <1>10 DEF Whereabouts
<1>12. Columns'
    BY <1>3, <1>5 DEF TablesInv, Columns
<1> QED
    BY <1>3, <1>7, <1>8, <1>9, <1>11, <1>12 DEF TablesInv

\* 004 adds its columns to logs_local, then to logs.
LEMMA AlterOK ==
    ASSUME TypeOK, TablesInv, NEW p, NEW t \in {"logs_local", "logs"}, Has(t), DOMAIN table' = DOMAIN table,
           \A u \in DOMAIN table \ {t} : table'[u] = table[u],
           table'[t].templates = TRUE, table'[t].over = table[t].over, table'[t].rows = table[t].rows,
           UNCHANGED <<acked, exposed>>, late' \subseteq late, Arrives(p, 4, 2), Completes(4),
           (p \in Runners /\ Here(p, 4, 2)') => t = "logs_local",
           Complete(4)' => Complete(4) \/ (t = "logs" /\ p \in Runners /\ Here(p, 4, 2) /\ Complete(3))
    PROVE  TablesInv'
<1>1. /\ \A u : Has(u)' <=> Has(u)
      /\ \A u : Has(u) => table'[u].over = table[u].over /\ table'[u].rows = table[u].rows
      /\ \A u : Has(u) => (table[u].templates => table'[u].templates)
    BY DEF Has
<1>2. /\ \A u : Has(u) => \A r : Holds(u, r)' <=> Holds(u, r)
      /\ \A u : Full(u)' <=> Full(u)
    BY <1>1 DEF Holds, Full
<1>3. /\ \A q \in Runners : /\ Here(q, 2, 2)' => Here(q, 2, 2)
                            /\ Here(q, 2, 3)' => Here(q, 2, 3)
                            /\ Distributing(q)' => Distributing(q)
                            /\ Here(q, 3, 4)' => Here(q, 3, 4)
                            /\ Here(q, 4, 2)' => Here(q, 4, 2) \/ t = "logs_local"
      /\ Complete(2)' => Complete(2)
      /\ Complete(3)' => Complete(3)
    BY Places DEF Distributing
<1>4. Catalogue'
    BY <1>1, <1>3 DEF TablesInv, Catalogue, Has
<1>5. Stored' /\ CopiedOnce' /\ NothingLost'
    BY <1>1, <1>2 DEF TablesInv, Stored, CopiedOnce, NothingLost, Has
<1>6. OneOptimizer' /\ StillEmpty'
    BY <1>1, <1>2, <1>3 DEF TablesInv, OneOptimizer, StillEmpty, Optimizing
<1>7. OneDistributor'
    BY <1>1, <1>3 DEF TablesInv, OneDistributor, LeftOver
<1>8. StillApart'
    BY <1>1, <1>2, <1>3 DEF TablesInv, StillApart, Catalogue
<1>9. Whereabouts'
    BY <1>1, <1>2, <1>3 DEF TablesInv, Whereabouts
<1>10. Columns'
    <2>1. \A q \in Runners : Here(q, 4, 2)' => Has("logs_local")' /\ table'["logs_local"].templates
        BY <1>1, <1>3 DEF TablesInv, Columns
    <2>2. ASSUME Complete(4)'
          PROVE  /\ Has("logs")' /\ table'["logs"].over /\ table'["logs"].templates
                 /\ Has("logs_local")' /\ table'["logs_local"].templates
        <3>1. CASE Complete(4)
            BY <1>1, <3>1 DEF TablesInv, Columns
        <3>2. CASE t = "logs" /\ p \in Runners /\ Here(p, 4, 2) /\ Complete(3)
            BY <1>1, <3>2 DEF TablesInv, Columns, Whereabouts
        <3> QED
            BY <2>2, <3>1, <3>2
    <2> QED
        BY <2>1, <2>2 DEF Columns
<1> QED
    BY <1>4, <1>5, <1>6, <1>7, <1>8, <1>9, <1>10 DEF TablesInv

\* The processor writes a row to whatever logs stands for.
LEMMA WriteOK ==
    ASSUME TypeOK, TablesInv, NEW r \in Rows, Write(r)
    PROVE  TablesInv' /\ StoreType'
<1>b. PICK b : b = Base(table, "logs")
    OBVIOUS
<1>1. /\ Has("logs") /\ Has(b) /\ r \notin acked
      /\ b = IF table["logs"].over THEN "logs_local" ELSE "logs"
    BY <1>b DEF Write, Readable, Exists, Has, Base
<1>2. table' = [table EXCEPT ![b].rows[r] = @ + 1]
    BY <1>b DEF Write
<1>3. table[b] \in TableType /\ DOMAIN table' = DOMAIN table
    BY <1>1, <1>2 DEF TypeOK, Has, TableType
<1>4. table'[b] = [table[b] EXCEPT !.rows[r] = @ + 1] /\ \A u : Has(u) /\ u # b => table'[u] = table[u]
    BY <1>1, <1>2 DEF Has
<1>5. /\ table'[b].over = table[b].over /\ table'[b].templates = table[b].templates
      /\ table'[b].rows[r] = table[b].rows[r] + 1
      /\ \A x \in Rows \ {r} : table'[b].rows[x] = table[b].rows[x]
      /\ table'[b] \in TableType
    BY <1>3, <1>4 DEF TableType
<1>6. /\ acked' = acked \cup {r} /\ exposed \subseteq exposed' /\ exposed' \subseteq exposed \cup {r}
      /\ (Rewriting => r \in exposed')
      /\ UNCHANGED <<pgVars, recorded, late, runnerVars, torn, faults>>
    BY DEF Write
<1>7. StoreType'
    BY <1>3, <1>4, <1>5, <1>6 DEF StoreType, TypeOK, Has, TableType, Statements
<1>8. /\ \A u : Has(u)' <=> Has(u)
      /\ \A u : Has(u) => table'[u].over = table[u].over /\ table'[u].templates = table[u].templates
    BY <1>3, <1>4, <1>5 DEF Has
<1>9. /\ \A q \in Runners : \A w, n : Here(q, w, n)' <=> Here(q, w, n)
      /\ \A w : Complete(w)' <=> Complete(w)
    BY <1>6 DEF Here, Complete, Recording, runnerVars, Current
<1>10. \A u \in DOMAIN table : table[u].rows[r] = 0
    <2> SUFFICES ASSUME NEW u \in DOMAIN table PROVE table[u].rows[r] = 0
        OBVIOUS
    <2>1. table[u].rows[r] \in Nat
        BY DEF TypeOK
    <2>2. ~(table[u].rows[r] > 0)
        BY <1>1 DEF TablesInv, Stored, Holds
    <2> QED
        BY <2>1, <2>2
<1>11. /\ Holds(b, r)' /\ table'[b].rows[r] = 1
       /\ \A u : Has(u) /\ u # b => ~Holds(u, r)'
       /\ \A u : Has(u) => \A x \in Rows \ {r} : table'[u].rows[x] = table[u].rows[x]
    <2>1. table'[b].rows[r] = 1
        BY <1>1, <1>5, <1>10 DEF Has
    <2>2. \A u : Has(u) /\ u # b => table'[u].rows[r] = 0
        BY <1>4, <1>10 DEF Has
    <2>3. Holds(b, r)' /\ \A u : Has(u) /\ u # b => ~Holds(u, r)'
        BY <2>1, <2>2 DEF Holds
    <2>4. \A u : Has(u) => \A x \in Rows \ {r} : table'[u].rows[x] = table[u].rows[x]
        BY <1>4, <1>5
    <2> QED
        BY <2>1, <2>3, <2>4
<1>12. \A u : Has(u) => \A x \in Rows \ {r} : Holds(u, x)' <=> Holds(u, x)
    BY <1>11 DEF Holds
<1>13. acked \subseteq Rows /\ acked' \ exposed' \subseteq (acked \ exposed) \cup {r}
    BY <1>6 DEF TypeOK
<1>14. Full(b) \/ acked = {} => Full(b)'
    BY <1>1, <1>8, <1>11, <1>12, <1>13 DEF Full
<1>15. Rewriting => \A u : Full(u) => Full(u)'
    BY <1>1, <1>6, <1>8, <1>12, <1>13 DEF Full
<1>16. Catalogue'
    BY <1>6, <1>8, <1>9 DEF TablesInv, Catalogue, Has
<1>17. Stored'
    BY <1>6, <1>8, <1>12 DEF TablesInv, Stored, Has
<1>18. CopiedOnce'
    <2> SUFFICES ASSUME NEW u \in DOMAIN table', NEW x \in Rows PROVE table'[u].rows[x] <= 1
        BY DEF CopiedOnce
    <2>1. u \in DOMAIN table /\ table[u].rows[x] <= 1
        BY <1>3 DEF TablesInv, CopiedOnce
    <2>2. CASE x = r /\ u = b
        BY <1>11, <2>2
    <2>3. CASE x # r \/ u # b
        BY <1>4, <1>11, <2>1, <2>3 DEF Has
    <2> QED
        BY <2>2, <2>3
<1>19. NothingLost'
    <2> SUFFICES ASSUME NEW x \in acked'
                 PROVE  \E t \in DOMAIN table' : ~table'[t].over /\ table'[t].rows[x] > 0
        BY DEF NothingLost
    <2>1. CASE x = r
        <3>1. ~table[b].over
            BY <1>1 DEF TablesInv, Catalogue, Has
        <3> QED
            BY <1>1, <1>8, <1>11, <2>1, <3>1 DEF Has
    <2>2. CASE x # r
        <3>1. x \in acked
            BY <1>6, <2>2
        <3>2. PICK t \in DOMAIN table : ~table[t].over /\ table[t].rows[x] > 0
            BY <3>1 DEF TablesInv, NothingLost
        <3>3. x \in Rows \ {r}
            BY <1>13, <2>2, <3>1
        <3> QED
            BY <1>8, <1>11, <3>2, <3>3 DEF Has
    <2> QED
        BY <2>1, <2>2
<1>20. OneOptimizer'
    BY <1>6, <1>8, <1>9 DEF TablesInv, OneOptimizer, Optimizing
<1>21. StillEmpty'
    BY <1>1, <1>6, <1>8, <1>9, <1>11, <1>12 DEF TablesInv, StillEmpty, OneOptimizer, Optimizing
<1>22. OneDistributor'
    BY <1>6, <1>8, <1>9 DEF TablesInv, OneDistributor, Distributing, LeftOver
<1>23. StillApart'
    BY <1>1, <1>6, <1>8, <1>9, <1>11, <1>12 DEF TablesInv, StillApart, Catalogue, Distributing
<1>24. /\ SwapOptimized \in late \/ (\E q \in Runners : Here(q, 2, 3)) => Rewriting
       /\ (\E q \in Runners : Distributing(q)) => Rewriting
    BY DEF Rewriting, Rewrites, Here, Distributing
<1>25. Whereabouts'
    <2>1. ~Has("logs_before_optimization") => b = "logs"
        BY <1>1 DEF TablesInv, Catalogue
    <2>2. ~Has("logs_before_optimization")' => acked' = {} \/ Full("logs")'
        BY <1>8, <1>14, <2>1 DEF TablesInv, Whereabouts
    <2>3. ~Has("logs_before_optimization")' /\ (SwapOptimized \in late' \/ \E q \in Runners : Here(q, 2, 3)')
             => Full("logs_optimized")'
        BY <1>6, <1>8, <1>9, <1>15, <1>24 DEF TablesInv, Whereabouts
    <2>4. Complete(2)' /\ ~Has("logs_single_node")' => Full("logs")'
        BY <1>1, <1>8, <1>9, <1>14 DEF TablesInv, Whereabouts, Catalogue
    <2>5. \A q \in Runners : Distributing(q)' => Full("logs_single_node")'
        BY <1>9, <1>15, <1>24 DEF TablesInv, Whereabouts, Distributing
    <2>6. Complete(3)' => Has("logs")' /\ table'["logs"].over /\ Full("logs_local")'
        BY <1>1, <1>8, <1>9, <1>14 DEF TablesInv, Whereabouts
    <2> QED
        BY <2>2, <2>3, <2>4, <2>5, <2>6 DEF Whereabouts
<1>26. Columns'
    BY <1>8, <1>9 DEF TablesInv, Columns
<1> QED
    BY <1>7, <1>16, <1>17, <1>18, <1>19, <1>20, <1>21, <1>22, <1>23, <1>25, <1>26 DEF TablesInv

-----------------------------------------------------------------------------
(* The statement a runner is at.                                           *)

LEMMA AtStatement ==
    ASSUME TypeOK, NEW p \in Runners, pc[p] = "chExec"
    PROVE  \/ Here(p, 1, 1) /\ Statement(p) = Create("logs", TRUE, FALSE)
           \/ Here(p, 2, 1) /\ Statement(p) = CreateOptimized
           \/ Here(p, 2, 2) /\ Statement(p) = CopyOptimized
           \/ Here(p, 2, 3) /\ Statement(p) = SwapOptimized
           \/ Here(p, 3, 1) /\ Statement(p) = SetAside
           \/ Here(p, 3, 2) /\ Statement(p) = CreateLocal
           \/ Here(p, 3, 3) /\ Statement(p) = CreateDistributed
           \/ Here(p, 3, 4) /\ Statement(p) = CopySingleNode
           \/ Here(p, 4, 1) /\ Statement(p) = AddTemplates("logs_local")
           \/ Here(p, 4, 2) /\ Statement(p) = AddTemplates("logs")
<1>1. Current(p) \in {1, 2, 3, 4} /\ stmt[p] \in DOMAIN ChFiles[Current(p)]
    <2>1. Current(p) \in 1..4
        BY CurrentOK
    <2> QED
        BY <2>1 DEF TypeOK
<1>2. CASE Current(p) = 1
    <2>1. stmt[p] \in {1}
        BY <1>1, <1>2, Files
    <2> QED
        BY <1>2, <2>1, StatementsAre DEF Statement, Here
<1>3. CASE Current(p) = 2
    <2>1. stmt[p] \in {1, 2, 3}
        BY <1>1, <1>3, Files
    <2> QED
        BY <1>3, <2>1, StatementsAre DEF Statement, Here
<1>4. CASE Current(p) = 3
    <2>1. stmt[p] \in {1, 2, 3, 4}
        BY <1>1, <1>4, Files
    <2> QED
        BY <1>4, <2>1, StatementsAre DEF Statement, Here
<1>5. CASE Current(p) = 4
    <2>1. stmt[p] \in {1, 2}
        BY <1>1, <1>5, Files
    <2> QED
        BY <1>5, <2>1, StatementsAre DEF Statement, Here
<1> QED
    BY <1>1, <1>2, <1>3, <1>4, <1>5

LEMMA IsStatement == ASSUME TypeOK, NEW p \in Runners, pc[p] = "chExec" PROVE Statement(p) \in Statements
<1>1. Current(p) \in DOMAIN ChFiles /\ stmt[p] \in DOMAIN ChFiles[Current(p)]
    BY CurrentOK, Files DEF TypeOK
<1> QED
    BY <1>1 DEF Statements, Statement, Range

\* The statements that the invariant keeps apart from all others.
Crucial == {CopyOptimized, SwapOptimized, SetAside, CreateLocal, CreateDistributed, CopySingleNode}

LEMMA Different ==
    /\ CopyOptimized \notin {SwapOptimized, SetAside, CreateLocal, CreateDistributed, CopySingleNode}
    /\ SwapOptimized \notin {SetAside, CreateLocal, CreateDistributed, CopySingleNode}
    /\ SetAside \notin {CreateLocal, CreateDistributed, CopySingleNode}
    /\ CreateLocal \notin {CreateDistributed, CopySingleNode}
    /\ CreateDistributed # CopySingleNode
    /\ Create("logs", TRUE, FALSE) \notin Crucial /\ CreateOptimized \notin Crucial
    /\ \A t : AddTemplates(t) \notin Crucial
<1>1. /\ CopyOptimized.op = "copy" /\ CopyOptimized.table = "logs_optimized"
      /\ CopySingleNode.op = "copy" /\ CopySingleNode.table = "logs"
    BY DEF CopyOptimized, CopySingleNode, InsertSelect
<1>2. /\ SwapOptimized.op = "rename" /\ Len(SwapOptimized.pairs) = 2
      /\ SetAside.op = "rename" /\ Len(SetAside.pairs) = 1
    BY DEF SwapOptimized, SetAside, Rename
<1>3. /\ CreateLocal.op = "create" /\ CreateLocal.table = "logs_local"
      /\ CreateDistributed.op = "create" /\ CreateDistributed.table = "logs" /\ CreateDistributed.over = TRUE
      /\ CreateOptimized.op = "create" /\ CreateOptimized.table = "logs_optimized"
      /\ Create("logs", TRUE, FALSE).op = "create" /\ Create("logs", TRUE, FALSE).table = "logs"
      /\ Create("logs", TRUE, FALSE).over = FALSE
    BY DEF CreateLocal, CreateDistributed, CreateOptimized, Create
<1>4. \A t : AddTemplates(t).op = "alter"
    BY DEF AddTemplates
<1>5. /\ CopyOptimized \notin {SwapOptimized, SetAside, CreateLocal, CreateDistributed, CopySingleNode}
      /\ SwapOptimized \notin {SetAside, CreateLocal, CreateDistributed, CopySingleNode}
      /\ SetAside \notin {CreateLocal, CreateDistributed, CopySingleNode}
      /\ CreateLocal \notin {CreateDistributed, CopySingleNode}
      /\ CreateDistributed # CopySingleNode
    <2>1. SwapOptimized # SetAside
        BY <1>2
    <2> QED
        BY <1>1, <1>2, <1>3, <2>1
<1>6. Create("logs", TRUE, FALSE) \notin Crucial
    BY <1>1, <1>2, <1>3 DEF Crucial
<1>7. CreateOptimized \notin Crucial
    BY <1>1, <1>2, <1>3 DEF Crucial
<1>8. \A t : AddTemplates(t) \notin Crucial
    BY <1>1, <1>2, <1>3, <1>4 DEF Crucial
<1> QED
    BY <1>5, <1>6, <1>7, <1>8

\* A statement goes on without its runner: what belonged to the runner now
\* belongs to the statement.
LEMMA TimeoutOK ==
    ASSUME TypeOK, TablesInv, NEW p \in Runners, pc[p] = "chExec", UNCHANGED <<table, acked, exposed>>,
           late' = late \cup {Statement(p)}, pc'[p] = "idle", Arrives(p, 0, 0), Completes(0),
           Here(p, 3, 1) => Complete(2)
    PROVE  TablesInv'
<1> DEFINE s == Statement(p)
<1>1. /\ s = CopyOptimized => Here(p, 2, 2)
      /\ s = SwapOptimized => Here(p, 2, 3)
      /\ s = SetAside => Here(p, 3, 1)
      /\ s = CreateLocal => Here(p, 3, 2)
      /\ s = CreateDistributed => Here(p, 3, 3)
      /\ s = CopySingleNode => Here(p, 3, 4)
    BY AtStatement, Different DEF Crucial
<1>2. \A x : x \in late' <=> x \in late \/ x = s
    OBVIOUS
<1> HIDE DEF s
<1>3. /\ \A q \in Runners : /\ Here(q, 2, 2)' => Here(q, 2, 2)
                            /\ Here(q, 2, 3)' => Here(q, 2, 3)
                            /\ Optimizing(q)' => Optimizing(q)
                            /\ Distributing(q)' => Distributing(q)
                            /\ Here(q, 3, 4)' => Here(q, 3, 4)
                            /\ Here(q, 4, 2)' => Here(q, 4, 2)
      /\ Complete(2)' => Complete(2)
      /\ Complete(3)' => Complete(3)
      /\ Complete(4)' => Complete(4)
    BY Places DEF Distributing, Optimizing
<1>4. ~Optimizing(p)' /\ ~Distributing(p)'
    BY DEF Optimizing, Distributing, Here
<1>5. /\ \A t : Has(t)' <=> Has(t)
      /\ \A t : Full(t)' <=> Full(t)
      /\ \A t, r : Holds(t, r)' <=> Holds(t, r)
    BY DEF Has, Full, Holds
<1>6. Catalogue'
    BY <1>1, <1>2, <1>3, <1>5 DEF TablesInv, Catalogue
<1>7. Stored' /\ CopiedOnce' /\ NothingLost'
    BY <1>5 DEF TablesInv, Stored, CopiedOnce, NothingLost
<1>8. OneOptimizer' /\ StillEmpty'
    <2>1. CASE ~Optimizing(p)
        <3>1. s # CopyOptimized /\ s # SwapOptimized
            BY <1>1, <2>1 DEF Optimizing
        <3> QED
            BY <1>2, <1>3, <1>5, <3>1 DEF TablesInv, OneOptimizer, StillEmpty
    <2>2. CASE Optimizing(p)
        <3>1. /\ Has("logs_optimized") /\ CopyOptimized \notin late /\ SwapOptimized \notin late
              /\ \A q \in Runners : ~Optimizing(q)'
            BY <1>3, <1>4, <2>2 DEF TablesInv, OneOptimizer
        <3>2. OneOptimizer'
            BY <1>2, <1>5, <3>1, Different DEF OneOptimizer
        <3>3. StillEmpty'
            BY <1>1, <1>2, <1>3, <1>5, <3>1 DEF TablesInv, StillEmpty
        <3> QED
            BY <3>2, <3>3
    <2> QED
        BY <2>1, <2>2
<1>9. OneDistributor' /\ StillApart'
    <2>1. CASE ~Distributing(p)
        <3>1. s # CreateLocal /\ s # CreateDistributed /\ s # CopySingleNode
            BY <1>1, <2>1 DEF Distributing
        <3>2. LeftOver' = LeftOver
            BY <1>2, <3>1 DEF LeftOver
        <3>3. OneDistributor'
            BY <1>2, <1>3, <1>5, <3>1, <3>2 DEF TablesInv, OneDistributor
        <3>4. StillApart'
            BY <1>2, <1>3, <1>5, <3>1 DEF TablesInv, StillApart
        <3> QED
            BY <3>3, <3>4
    <2>2. CASE Distributing(p)
        <3>1. /\ Has("logs_single_node") /\ LeftOver = {}
              /\ \A q \in Runners : ~Distributing(q)'
            BY <1>3, <1>4, <2>2 DEF TablesInv, OneDistributor
        <3>2. OneDistributor'
            BY <1>1, <1>2, <1>3, <1>5, <3>1 DEF TablesInv, OneDistributor, LeftOver
        <3>3. StillApart'
            BY <1>5, <2>2, <3>1 DEF TablesInv, StillApart
        <3> QED
            BY <3>2, <3>3
    <2> QED
        BY <2>1, <2>2
<1>10. Whereabouts' /\ Columns'
    BY <1>1, <1>2, <1>3, <1>5 DEF TablesInv, Whereabouts, Columns
<1> QED
    BY <1>6, <1>7, <1>8, <1>9, <1>10 DEF TablesInv

-----------------------------------------------------------------------------
(* Steps that leave ClickHouse alone.                                      *)

LEMMA Combine ==
    ASSUME PgType', StoreType', RunnerType', torn' \in BOOLEAN, faults' \in 0..MaxFaults,
           PgOrder', PostgresIsAtomic', ChOrder', InOrder', TablesInv'
    PROVE  MigrationsInv'
BY TypePartsPrime DEF MigrationsInv, OrderInv

LEMMA PgSame == ASSUME MigrationsInv, UNCHANGED pgVars PROVE PgType' /\ PostgresIsAtomic'
BY DEF MigrationsInv, OrderInv, TypeOK, PgType, PostgresIsAtomic, pgVars

LEMMA ChSame == ASSUME MigrationsInv, UNCHANGED chVars PROVE StoreType' /\ InOrder'
BY DEF MigrationsInv, OrderInv, TypeOK, StoreType, Statements, TableType, InOrder, chVars

\* A runner moves: where it comes to, and what it completes.
LEMMA MoveOK ==
    ASSUME MigrationsInv, NEW p \in Runners, NEW here, NEW rest, NEW n,
           At(p, here, rest, n), Allowed(here, rest, n), pgRecorded \subseteq pgRecorded', UNCHANGED recorded
    PROVE  /\ RunnerType' /\ PgOrder' /\ ChOrder'
           /\ pc'[p] = here /\ stmt'[p] = n /\ todo'[p] = rest
           /\ \A v, m : (here = "chExec" /\ n # 1 => Min(rest) = v /\ n = m) => Arrives(p, v, m)
           /\ \A v : (here = "chRecord" => Min(rest) = v) => Completes(v)
<1>1. /\ RunnerType' /\ PgOrder' /\ ChOrder'
      /\ pc'[p] = here /\ todo'[p] = rest /\ stmt'[p] = n
      /\ \A q \in Runners \ {p} : pc'[q] = pc[q] /\ todo'[q] = todo[q] /\ stmt'[q] = stmt[q]
    BY AtOK DEF MigrationsInv, OrderInv
<1>2. ASSUME NEW v, NEW m, here = "chExec" /\ n # 1 => Min(rest) = v /\ n = m
      PROVE  Arrives(p, v, m)
    <2> SUFFICES ASSUME NEW q \in Runners, NEW w, NEW k, k # 1, Here(q, w, k)'
                 PROVE  Here(q, w, k) \/ (q = p /\ w = v /\ k = m)
        BY DEF Arrives
    <2>1. CASE q = p
        BY <1>1, <1>2, <2>1 DEF Here, Current
    <2>2. CASE q # p
        BY <1>1, <2>2 DEF Here, Current
    <2> QED
        BY <2>1, <2>2
<1>3. ASSUME NEW v, here = "chRecord" => Min(rest) = v
      PROVE  Completes(v)
    <2> SUFFICES ASSUME NEW w, Complete(w)' PROVE Complete(w) \/ w = v
        BY DEF Completes
    <2>1. CASE w \in recorded'
        BY <2>1 DEF Complete
    <2>2. CASE \E q \in Runners : Recording(q, w)'
        <3>1. PICK q \in Runners : Recording(q, w)'
            BY <2>2
        <3>2. CASE q = p
            BY <1>1, <1>3, <3>1, <3>2 DEF Recording, Current
        <3>3. CASE q # p
            BY <1>1, <3>1, <3>3 DEF Recording, Current, Complete
        <3> QED
            BY <3>2, <3>3
    <2> QED
        BY <2>1, <2>2 DEF Complete
<1> QED
    BY <1>1, <1>2, <1>3

LEMMA CalmMove ==
    ASSUME MigrationsInv, NEW p \in Runners, NEW here, NEW rest, NEW n,
           At(p, here, rest, n), Allowed(here, rest, n), here # "chRecord", here = "chExec" => n = 1,
           UNCHANGED chVars, pgRecorded \subseteq pgRecorded', PgType', PostgresIsAtomic',
           torn' \in BOOLEAN, Fault \/ NoFault
    PROVE  MigrationsInv'
<1>1. /\ RunnerType' /\ PgOrder' /\ ChOrder'
      /\ Arrives(p, 0, 0) /\ Completes(0)
    BY MoveOK DEF chVars
<1>2. TablesInv'
    BY <1>1, CalmOK DEF MigrationsInv, chVars
<1>3. faults' \in 0..MaxFaults
    BY FaultOK DEF MigrationsInv
<1> QED
    BY <1>1, <1>2, <1>3, ChSame, Combine

LEMMA StartStep == ASSUME MigrationsInv, NEW p \in Runners, NEW what \in {"all", "postgres", "clickhouse"},
                          Start(p, what)
                   PROVE  MigrationsInv'
<1>0. TypeOK /\ PgOrder /\ ChOrder
    BY DEF MigrationsInv, OrderInv
<1>1. /\ pc[p] = "idle" /\ pc' = [pc EXCEPT ![p] = IF what = "clickhouse" THEN "chList" ELSE "pgList"]
      /\ target' = [target EXCEPT ![p] = what]
      /\ UNCHANGED <<todo, stmt, pgVars, chVars, torn, faults>>
    BY DEF Start
<1>2. /\ pc'[p] \in {"chList", "pgList"}
      /\ \A q \in Runners \ {p} : pc'[q] = pc[q]
      /\ \A q \in Runners : todo'[q] = todo[q] /\ stmt'[q] = stmt[q]
    BY <1>0, <1>1 DEF TypeOK
<1>3. /\ target' \in [Runners -> {"all", "postgres", "clickhouse"}]
      /\ pc' \in [Runners -> {"idle", "pgList", "pgExec", "pgCommit", "chList", "chExec", "chRecord"}]
      /\ todo' \in [Runners -> SUBSET Nat] /\ stmt' \in [Runners -> Nat]
    BY <1>0, <1>1 DEF TypeOK
<1>4. \A q \in Runners : Current(q)' = Current(q)
    BY <1>2 DEF Current
<1>5. \A q \in Runners : pc'[q] \in {"pgExec", "pgCommit", "chExec", "chRecord"} => pc'[q] = pc[q]
    BY <1>2
<1>6. RunnerType'
    BY <1>0, <1>2, <1>3, <1>4, <1>5 DEF RunnerType, TypeOK
<1>7. PgOrder' /\ ChOrder'
    BY <1>0, <1>1, <1>2, <1>5 DEF PgOrder, ChOrder, pgVars, chVars
<1>8. Arrives(p, 0, 0)
    BY <1>2, <1>4, <1>5 DEF Arrives, Here
<1>9. Completes(0)
    BY <1>1, <1>2, <1>4, <1>5 DEF Completes, Complete, Recording, chVars
<1>10. TablesInv'
    BY <1>1, <1>8, <1>9, CalmOK DEF MigrationsInv, chVars
<1>11. torn' \in BOOLEAN /\ faults' \in 0..MaxFaults
    BY <1>0, <1>1 DEF TypeOK
<1> QED
    BY <1>1, <1>6, <1>7, <1>10, <1>11, PgSame, ChSame, Combine

-----------------------------------------------------------------------------
(* RunPostgres.                                                            *)

LEMMA PgGoOnOK ==
    ASSUME MigrationsInv, NEW p \in Runners, NEW rest, PgGoOn(p, rest), rest \subseteq PgFiles,
           PgFiles \ rest \subseteq pgRecorded', pgRecorded \subseteq pgRecorded',
           PgType', PostgresIsAtomic', UNCHANGED <<chVars, torn>>, NoFault
    PROVE  MigrationsInv'
<1>1. torn' \in BOOLEAN
    BY DEF MigrationsInv, TypeOK
<1>2. CASE At(p, "chList", {}, 1)
    <2>1. Allowed("chList", {}, 1)
        BY DEF Allowed
    <2> QED
        BY <1>1, <1>2, <2>1, CalmMove
<1>3. CASE Exit(p)
    BY <1>1, <1>3, ExitAllowed, CalmMove DEF Exit
<1>4. CASE rest # {} /\ At(p, "pgExec", rest, 1)
    <2>1. Allowed("pgExec", rest, 1)
        BY <1>4, MigrationsAssumption DEF Allowed
    <2> QED
        BY <1>1, <1>4, <2>1, CalmMove
<1> QED
    BY <1>2, <1>3, <1>4 DEF PgGoOn, AfterPostgres

\* A version is committed with its record, once and after the earlier ones.
LEMMA PgCommittedOK ==
    ASSUME MigrationsInv, NEW p \in Runners, pc[p] = "pgCommit",
           Recordable(Current(p)), PgCommitted(Current(p))
    PROVE  /\ PgType' /\ PostgresIsAtomic' /\ pgRecorded \subseteq pgRecorded'
           /\ PgFiles \ Rest(p) \subseteq pgRecorded'
<1>1. PICK v : v = Current(p)
    OBVIOUS
<1>2. v \in todo[p] /\ v \in PgFiles /\ \A u \in todo[p] : v <= u
    BY <1>1, CurrentOK DEF MigrationsInv
<1>3. PgFiles \subseteq Nat /\ pgRecorded \subseteq PgFiles /\ pgTimes \in [PgFiles -> Nat]
    BY MigrationsAssumption DEF MigrationsInv, TypeOK
<1>4. /\ v \notin pgRecorded /\ pgRecorded' = pgRecorded \cup {v}
      /\ pgTimes' = [pgTimes EXCEPT ![v] = @ + 1]
    BY <1>1 DEF Recordable, PgCommitted
<1>5. PgFiles \ todo[p] \subseteq pgRecorded
    BY DEF MigrationsInv, OrderInv, PgOrder
<1>6. \A u \in PgFiles : u < v => u \in pgRecorded
    BY <1>2, <1>3, <1>5
<1>7. PgType'
    BY <1>2, <1>3, <1>4 DEF PgType
<1>8. PostgresIsAtomic'
    <2> SUFFICES ASSUME NEW w \in PgFiles
                 PROVE  /\ pgTimes'[w] = IF w \in pgRecorded' THEN 1 ELSE 0
                        /\ w \in pgRecorded' => \A u \in PgFiles : u < w => u \in pgRecorded'
        BY DEF PostgresIsAtomic
    <2>1. /\ pgTimes[w] = IF w \in pgRecorded THEN 1 ELSE 0
          /\ w \in pgRecorded => \A u \in PgFiles : u < w => u \in pgRecorded
        BY DEF MigrationsInv, OrderInv, PostgresIsAtomic
    <2>2. CASE w = v
        BY <1>2, <1>3, <1>4, <1>6, <2>1, <2>2
    <2>3. CASE w # v
        BY <1>2, <1>3, <1>4, <2>1, <2>3
    <2> QED
        BY <2>2, <2>3
<1>9. PgFiles \ Rest(p) \subseteq pgRecorded'
    BY <1>1, <1>4, <1>5 DEF Rest
<1> QED
    BY <1>4, <1>7, <1>8, <1>9

LEMMA PgListStep == ASSUME MigrationsInv, NEW p \in Runners, PgList(p) PROVE MigrationsInv'
<1>1. PgGoOn(p, PgFiles \ pgRecorded) /\ NoFault /\ UNCHANGED <<pgVars, chVars, torn>>
    BY DEF PgList, Pending
<1>2. PgFiles \ (PgFiles \ pgRecorded) \subseteq pgRecorded' /\ pgRecorded \subseteq pgRecorded'
    BY <1>1 DEF pgVars
<1> QED
    BY <1>1, <1>2, PgSame, PgGoOnOK

LEMMA PgExecStep == ASSUME MigrationsInv, NEW p \in Runners, PgExec(p) PROVE MigrationsInv'
<1>1. /\ pc[p] = "pgExec" /\ NoFault /\ UNCHANGED <<pgVars, chVars, torn>>
      /\ Exit(p) \/ At(p, "pgCommit", todo[p], 1)
    BY DEF PgExec, Sql
<1>2. torn' \in BOOLEAN /\ pgRecorded \subseteq pgRecorded'
    BY <1>1 DEF MigrationsInv, TypeOK, pgVars
<1>3. Allowed("pgCommit", todo[p], 1)
    BY <1>1 DEF Allowed, MigrationsInv, OrderInv, TypeOK, PgOrder, pgVars
<1> QED
    BY <1>1, <1>2, <1>3, PgSame, ExitAllowed, CalmMove DEF Exit

LEMMA PgCommitStep == ASSUME MigrationsInv, NEW p \in Runners, PgCommit(p) PROVE MigrationsInv'
<1>1. pc[p] = "pgCommit" /\ NoFault /\ UNCHANGED <<chVars, torn>>
    BY DEF PgCommit
<1>2. torn' \in BOOLEAN
    BY <1>1 DEF MigrationsInv, TypeOK
<1>3. CASE Recordable(Current(p))
    <2>1. PgCommitted(Current(p)) /\ PgGoOn(p, Rest(p))
        BY <1>3 DEF PgCommit
    <2>2. Rest(p) \subseteq PgFiles
        BY <1>1 DEF MigrationsInv, TypeOK, Rest
    <2> QED
        BY <1>1, <1>3, <2>1, <2>2, PgCommittedOK, PgGoOnOK
<1>4. CASE ~Recordable(Current(p))
    <2>1. UNCHANGED pgVars /\ Exit(p)
        BY <1>4 DEF PgCommit
    <2>2. pgRecorded \subseteq pgRecorded'
        BY <2>1 DEF pgVars
    <2> QED
        BY <1>1, <1>2, <2>1, <2>2, PgSame, ExitAllowed, CalmMove DEF Exit
<1> QED
    BY <1>3, <1>4

LEMMA PgCommitLostStep == ASSUME MigrationsInv, NEW p \in Runners, PgCommitLost(p) PROVE MigrationsInv'
<1>1. /\ pc[p] = "pgCommit" /\ Fault /\ UNCHANGED <<chVars, torn>> /\ Exit(p)
      /\ Recordable(Current(p)) /\ PgCommitted(Current(p))
    BY DEF PgCommitLost
<1>2. torn' \in BOOLEAN
    BY <1>1 DEF MigrationsInv, TypeOK
<1> QED
    BY <1>1, <1>2, PgCommittedOK, ExitAllowed, CalmMove DEF Exit

-----------------------------------------------------------------------------
(* A statement takes effect: for the runner that sent it, or for nobody.   *)

\* Only p moves: to its next statement or to the record of its version, and
\* only if the statement was done in whole.
Moves(p, whole) ==
    /\ \A q \in Runners : \A w, m : m # 1 /\ Here(q, w, m)' =>
          \/ q # p /\ Here(q, w, m)
          \/ q = p /\ whole /\ \E k : Here(p, w, k) /\ k # Len(ChFiles[w]) /\ m = k + 1
    /\ \A w : Complete(w)' => Complete(w) \/ (whole /\ p \in Runners /\ Here(p, w, Len(ChFiles[w])))

LEMMA MovesOn ==
    ASSUME NEW p, NEW whole, Moves(p, whole), NEW v \in 1..4, NEW n \in Nat, p \in Runners => Here(p, v, n)
    PROVE  /\ n # Len(ChFiles[v]) => Arrives(p, v, n + 1) /\ Completes(0)
           /\ n = Len(ChFiles[v]) => Arrives(p, 0, 0) /\ Completes(v)
<1>1. \A w, k : p \in Runners /\ Here(p, w, k) => w = v /\ k = n
    BY DEF Here
<1>2. ASSUME n # Len(ChFiles[v]) PROVE Arrives(p, v, n + 1) /\ Completes(0)
    <2>1. ~(p \in Runners /\ \E w : Here(p, w, Len(ChFiles[w])))
        BY <1>1, <1>2
    <2> QED
        BY <1>1, <2>1 DEF Moves, Arrives, Completes
<1>3. ASSUME n = Len(ChFiles[v]) PROVE Arrives(p, 0, 0) /\ Completes(v)
    BY <1>1, <1>3 DEF Moves, Arrives, Completes
<1> QED
    BY <1>2, <1>3

LEMMA MovesFrom ==
    ASSUME NEW p, NEW whole, Moves(p, whole)
    PROVE  /\ (p \in Runners => Here(p, 1, 1)) => Arrives(p, 0, 0) /\ Completes(1)
           /\ (p \in Runners => Here(p, 2, 1)) => Arrives(p, 2, 2) /\ Completes(0)
           /\ (p \in Runners => Here(p, 2, 2)) => Arrives(p, 2, 3) /\ Completes(0)
           /\ (p \in Runners => Here(p, 2, 3)) => Arrives(p, 0, 0) /\ Completes(2)
           /\ (p \in Runners => Here(p, 3, 1)) => Arrives(p, 3, 2) /\ Completes(0)
           /\ (p \in Runners => Here(p, 3, 2)) => Arrives(p, 3, 3) /\ Completes(0)
           /\ (p \in Runners => Here(p, 3, 3)) => Arrives(p, 3, 4) /\ Completes(0)
           /\ (p \in Runners => Here(p, 3, 4)) => Arrives(p, 0, 0) /\ Completes(3)
           /\ (p \in Runners => Here(p, 4, 1)) => Arrives(p, 4, 2) /\ Completes(0)
           /\ (p \in Runners => Here(p, 4, 2)) => Arrives(p, 0, 0) /\ Completes(4)
<1>1. Len(ChFiles[1]) = 1 /\ Len(ChFiles[2]) = 3 /\ Len(ChFiles[3]) = 4 /\ Len(ChFiles[4]) = 2
    BY Files
<1>2. /\ 1 \in 1..4 /\ 2 \in 1..4 /\ 3 \in 1..4 /\ 4 \in 1..4
      /\ 1 \in Nat /\ 2 \in Nat /\ 3 \in Nat /\ 4 \in Nat
      /\ 1 # 3 /\ 2 # 3 /\ 1 # 4 /\ 2 # 4 /\ 3 # 4 /\ 1 # 2
    OBVIOUS
<1>3. \A v \in 1..4, n \in Nat : (p \in Runners => Here(p, v, n)) =>
          /\ n # Len(ChFiles[v]) => Arrives(p, v, n + 1) /\ Completes(0)
          /\ n = Len(ChFiles[v]) => Arrives(p, 0, 0) /\ Completes(v)
    BY MovesOn
<1>4. (p \in Runners => Here(p, 1, 1)) => Arrives(p, 0, 0) /\ Completes(1)
    BY <1>1, <1>2, <1>3, Zenon
<1>5. /\ (p \in Runners => Here(p, 2, 1)) => Arrives(p, 2, 1 + 1) /\ Completes(0)
      /\ (p \in Runners => Here(p, 2, 2)) => Arrives(p, 2, 2 + 1) /\ Completes(0)
      /\ (p \in Runners => Here(p, 2, 3)) => Arrives(p, 0, 0) /\ Completes(2)
    BY <1>1, <1>2, <1>3, Zenon
<1>6. /\ (p \in Runners => Here(p, 3, 1)) => Arrives(p, 3, 1 + 1) /\ Completes(0)
      /\ (p \in Runners => Here(p, 3, 2)) => Arrives(p, 3, 2 + 1) /\ Completes(0)
      /\ (p \in Runners => Here(p, 3, 3)) => Arrives(p, 3, 3 + 1) /\ Completes(0)
      /\ (p \in Runners => Here(p, 3, 4)) => Arrives(p, 0, 0) /\ Completes(3)
    BY <1>1, <1>2, <1>3, Zenon
<1>7. /\ (p \in Runners => Here(p, 4, 1)) => Arrives(p, 4, 1 + 1) /\ Completes(0)
      /\ (p \in Runners => Here(p, 4, 2)) => Arrives(p, 0, 0) /\ Completes(4)
    BY <1>1, <1>2, <1>3, Zenon
<1>8. 1 + 1 = 2 /\ 2 + 1 = 3 /\ 3 + 1 = 4
    OBVIOUS
<1> QED
    BY <1>4, <1>5, <1>6, <1>7, <1>8

LEMMA MovesNot ==
    ASSUME NEW p, NEW whole, Moves(p, whole), ~whole \/ p \notin Runners
    PROVE  (\A v, n : Arrives(p, v, n)) /\ (\A v : Completes(v))
BY DEF Moves, Arrives, Completes

\* The agent of a statement: the runner at it, or the statement itself.
Agent(p, v, n, s) ==
    \/ p \in Runners /\ Here(p, v, n)
    \/ p \notin Runners /\ s \in late /\ s \notin late'

LEMMA EffectRemains == ASSUME NEW db, NEW s PROVE Effect(db, s) \in Remains(db, s)
<1>1. CASE s.op = "copy"
    BY <1>1 DEF Effect, Remains
<1>2. CASE s.op = "rename"
    BY <1>2 DEF Remains
<1>3. CASE s.op # "copy" /\ s.op # "rename"
    BY <1>3 DEF Remains
<1> QED
    BY <1>1, <1>2, <1>3

Done(p, whole, s) ==
    /\ Accepts(table, s) /\ table' \in Remains(table, s)
    /\ whole => table' = Effect(table, s)
    /\ UNCHANGED <<acked, exposed>> /\ late' \subseteq late
    /\ Moves(p, whole)

LEMMA WellFormedTable == TypeOK => WellFormed(table)
BY DEF TypeOK, WellFormed, TableType

LEMMA UntouchedOK ==
    ASSUME TablesInv, NEW p, NEW whole \in BOOLEAN, NEW s, Done(p, whole, s), ~whole, table' = table
    PROVE  TablesInv'
<1>1. Arrives(p, 0, 0) /\ Completes(0)
    BY MovesNot DEF Done
<1> QED
    BY <1>1, CalmOK DEF Done

LEMMA CreateLogsDone ==
    ASSUME TypeOK, TablesInv, NEW p, NEW whole \in BOOLEAN, NEW s, s = Create("logs", TRUE, FALSE),
           Done(p, whole, s), Agent(p, 1, 1, s)
    PROVE  TablesInv'
<1>1. Arrives(p, 0, 0) /\ Completes(1)
    BY MovesFrom DEF Done, Agent
<1>2. CASE table' = table
    BY <1>1, <1>2, CalmOK DEF Done
<1>3. CASE table' # table
    <2>1. s.op = "create"
        BY DEF Create
    <2>2. Remains(table, s) = {table, Effect(table, s)}
        BY <2>1, RemainsWhole
    <2>3. table' = Effect(table, s)
        BY <1>3, <2>2 DEF Done
    <2>4. Made(table, "logs", FALSE, table')
        BY <1>3, <2>3, CreateEffect DEF Done
    <2> QED
        BY <1>1, <2>4, MadeLogsOK DEF Done
<1> QED
    BY <1>2, <1>3

LEMMA CreateOptimizedDone ==
    ASSUME TypeOK, TablesInv, NEW p, NEW whole \in BOOLEAN, NEW s, s = CreateOptimized,
           Done(p, whole, s), Agent(p, 2, 1, s)
    PROVE  TablesInv'
<1>1. Arrives(p, 2, 2) /\ Completes(0)
    BY MovesFrom DEF Done, Agent
<1>2. CASE table' = Effect(table, s)
    <2>1. Made(table, "logs_optimized", FALSE, table')
        BY <1>2, CreateEffect DEF Done, CreateOptimized
    <2> QED
        BY <1>1, <2>1, MadeOptimizedOK DEF Done
<1>3. CASE table' # Effect(table, s)
    <2>1. s.op = "create"
        BY DEF Create, CreateOptimized
    <2>2. table' = table /\ ~whole
        BY <1>3, <2>1, RemainsWhole DEF Done
    <2> QED
        BY <2>2, UntouchedOK
<1> QED
    BY <1>2, <1>3

LEMMA CreateLocalDone ==
    ASSUME TypeOK, TablesInv, NEW p, NEW whole \in BOOLEAN, NEW s, s = CreateLocal,
           Done(p, whole, s), Agent(p, 3, 2, s)
    PROVE  TablesInv'
<1>1. Arrives(p, 3, 3) /\ Completes(0)
    BY MovesFrom DEF Done, Agent
<1>2. (p \in Runners /\ Here(p, 3, 2)) \/ CreateLocal \in late
    BY DEF Agent
<1>3. (p \in Runners /\ Here(p, 3, 3)') => Here(p, 3, 2)
    BY DEF Agent
<1>4. CASE table' = Effect(table, s)
    <2>1. Made(table, "logs_local", FALSE, table')
        BY <1>4, CreateEffect DEF Done, CreateLocal
    <2> QED
        BY <1>1, <1>2, <1>3, <2>1, MadeLocalOK DEF Done
<1>5. CASE table' # Effect(table, s)
    <2>1. s.op = "create"
        BY DEF Create, CreateLocal
    <2>2. table' = table /\ ~whole
        BY <1>5, <2>1, RemainsWhole DEF Done
    <2> QED
        BY <2>2, UntouchedOK
<1> QED
    BY <1>4, <1>5

LEMMA CreateDistributedDone ==
    ASSUME TypeOK, TablesInv, NEW p, NEW whole \in BOOLEAN, NEW s, s = CreateDistributed,
           Done(p, whole, s), Agent(p, 3, 3, s)
    PROVE  TablesInv'
<1>1. Arrives(p, 3, 4) /\ Completes(0)
    BY MovesFrom DEF Done, Agent
<1>2. (p \in Runners /\ Here(p, 3, 3)) \/ CreateDistributed \in late
    BY DEF Agent
<1>3. (p \in Runners /\ Here(p, 3, 4)') => Here(p, 3, 3)
    BY DEF Agent
<1>4. CASE table' = Effect(table, s)
    <2>1. Made(table, "logs", TRUE, table') /\ Has("logs_local")
        BY <1>4, CreateEffect DEF Done, CreateDistributed, Has
    <2> QED
        BY <1>1, <1>2, <1>3, <2>1, MadeDistributedOK DEF Done
<1>5. CASE table' # Effect(table, s)
    <2>1. s.op = "create"
        BY DEF Create, CreateDistributed
    <2>2. table' = table /\ ~whole
        BY <1>5, <2>1, RemainsWhole DEF Done
    <2> QED
        BY <2>2, UntouchedOK
<1> QED
    BY <1>4, <1>5

LEMMA SetAsideDone ==
    ASSUME TypeOK, TablesInv, NEW p, NEW whole \in BOOLEAN, NEW s, s = SetAside,
           Done(p, whole, s), Agent(p, 3, 1, s), p \in Runners => Complete(2)
    PROVE  TablesInv'
<1>1. Arrives(p, 3, 2) /\ Completes(0)
    BY MovesFrom DEF Done, Agent
<1>2. Complete(2) \/ SetAside \in late
    BY DEF Agent
<1>3. CASE table' = Effect(table, s)
    <2>1. Renamed(table, "logs", "logs_single_node", table')
        BY <1>3, SetAsideEffect DEF Done
    <2> QED
        BY <1>1, <1>2, <2>1, SetAsideOK DEF Done
<1>4. CASE table' # Effect(table, s)
    <2>1. table' = table /\ ~whole
        BY <1>4, SetAsideEffect DEF Done
    <2> QED
        BY <2>1, UntouchedOK
<1> QED
    BY <1>3, <1>4

LEMMA AlterDone ==
    ASSUME TypeOK, TablesInv, NEW p, NEW whole \in BOOLEAN, NEW s, NEW t, Done(p, whole, s), s = AddTemplates(t),
           \/ t = "logs_local" /\ Agent(p, 4, 1, s)
           \/ t = "logs" /\ Agent(p, 4, 2, s) /\ (p \in Runners => Complete(3))
    PROVE  TablesInv'
<1>1. /\ t = "logs_local" => Arrives(p, 4, 2) /\ Completes(0)
      /\ t = "logs" => Arrives(p, 0, 0) /\ Completes(4)
    BY MovesFrom DEF Done, Agent
<1>2. Arrives(p, 4, 2) /\ Completes(4)
    BY <1>1, Files DEF Done, Agent, Moves, Arrives, Completes, Here
<1>3. (p \in Runners /\ Here(p, 4, 2)') => t = "logs_local"
    BY Files DEF Done, Agent, Moves, Here
<1>4. Complete(4)' => Complete(4) \/ (t = "logs" /\ p \in Runners /\ Here(p, 4, 2) /\ Complete(3))
    BY Files DEF Done, Agent, Moves, Here
<1>5. CASE table' = Effect(table, s)
    <2>1. WellFormed(table) /\ Accepts(table, AddTemplates(t)) /\ table' = Effect(table, AddTemplates(t))
        BY <1>5, WellFormedTable DEF Done
    <2>2. /\ t \in DOMAIN table /\ DOMAIN table' = DOMAIN table
          /\ \A u \in DOMAIN table \ {t} : table'[u] = table[u]
          /\ table'[t].templates = TRUE /\ table'[t].over = table[t].over /\ table'[t].rows = table[t].rows
        BY <2>1, AlterEffect, Zenon
    <2> QED
        BY <1>2, <1>3, <1>4, <2>2, AlterOK DEF Done, Has
<1>6. CASE table' # Effect(table, s)
    <2>1. s.op = "alter"
        BY DEF AddTemplates
    <2>2. table' = table /\ ~whole
        BY <1>6, <2>1, RemainsWhole DEF Done
    <2> QED
        BY <2>2, UntouchedOK
<1> QED
    BY <1>5, <1>6

\* Who optimizes does so alone: the others do not move to his statements.
LEMMA OptimizerAlone ==
    ASSUME TablesInv, NEW p, NEW n \in {2, 3}, NEW s \in {CopyOptimized, SwapOptimized},
           NEW whole \in BOOLEAN, Moves(p, whole), late' \subseteq late, Agent(p, 2, n, s)
    PROVE  late' \subseteq late \ {s} /\ \A q \in Runners : ~Here(q, 2, n)'
<1>1. CASE p \in Runners /\ Here(p, 2, n)
    <2>1. Optimizing(p)
        BY <1>1 DEF Optimizing
    <2>2. s \notin late /\ \A q \in Runners : Optimizing(q) => q = p
        BY <1>1, <2>1 DEF TablesInv, OneOptimizer
    <2>3. ASSUME NEW q \in Runners, Here(q, 2, n)' PROVE FALSE
        <3>1. n # 1
            OBVIOUS
        <3>2. CASE q # p /\ Here(q, 2, n)
            BY <2>2, <3>2 DEF Optimizing
        <3>3. CASE q = p /\ \E k : Here(p, 2, k) /\ n = k + 1
            <4>1. n = n + 1
                BY <1>1, <3>3 DEF Here
            <4>2. n \in Nat
                OBVIOUS
            <4> QED
                BY <4>1, <4>2
        <3> QED
            BY <2>3, <3>1, <3>2, <3>3 DEF Moves
    <2> QED
        BY <2>2, <2>3
<1>2. CASE p \notin Runners /\ s \in late /\ s \notin late'
    <2>1. \A q \in Runners : ~Optimizing(q)
        BY <1>2 DEF TablesInv, OneOptimizer
    <2>2. ASSUME NEW q \in Runners, Here(q, 2, n)' PROVE FALSE
        <3>1. n # 1 /\ q # p
            BY <1>2
        <3> QED
            BY <2>1, <2>2, <3>1 DEF Moves, Optimizing
    <2> QED
        BY <1>2, <2>2
<1> QED
    BY <1>1, <1>2 DEF Agent

LEMMA CopyOptimizedDone ==
    ASSUME TypeOK, TablesInv, NEW p, NEW whole \in BOOLEAN, NEW s, s = CopyOptimized,
           Done(p, whole, s), Agent(p, 2, 2, s)
    PROVE  TablesInv'
<1>1. Arrives(p, 2, 3) /\ Completes(0)
    BY MovesFrom DEF Done, Agent
<1>2. PICK from : from = Base(table, "logs")
    OBVIOUS
<1>3. /\ Readable(table, "logs") /\ Readable(table, "logs_optimized")
      /\ Poured(table, from, Base(table, "logs_optimized"), Rows, Effect(table, s))
      /\ \A new \in Remains(table, s) :
            \E some : Poured(table, from, Base(table, "logs_optimized"), some, new)
    BY <1>2, CopyEffect, WellFormedTable DEF Done, CopyOptimized
<1>4. Base(table, "logs_optimized") = "logs_optimized"
    BY <1>3 DEF TablesInv, Catalogue, Base, Readable, Exists
<1>5. from # "logs_optimized" /\ (~Has("logs_before_optimization") => from = "logs")
    BY <1>2, <1>3 DEF TablesInv, Catalogue, Base, Readable, Exists, Has
<1>6. PICK some : Poured(table, from, "logs_optimized", some, table') /\ (whole => some = Rows)
    <2>1. CASE whole
        BY <1>3, <1>4, <2>1 DEF Done
    <2>2. CASE ~whole
        BY <1>3, <1>4, <2>2 DEF Done
    <2> QED
        BY <2>1, <2>2
<1>7. late' \subseteq late \ {CopyOptimized} /\ \A q \in Runners : ~Here(q, 2, 2)'
    BY OptimizerAlone DEF Done
<1>8. (p \in Runners /\ Here(p, 2, 3)') => Here(p, 2, 2) /\ some = Rows
    <2> SUFFICES ASSUME p \in Runners, Here(p, 2, 3)' PROVE Here(p, 2, 2) /\ whole
        BY <1>6
    <2>1. 3 # 1
        OBVIOUS
    <2> QED
        BY <2>1 DEF Done, Moves, Agent
<1>9. (p \in Runners /\ Here(p, 2, 2)) \/ CopyOptimized \in late
    BY DEF Agent
<1> QED
    BY <1>1, <1>5, <1>6, <1>7, <1>8, <1>9, PouredOptimizedOK DEF Done

LEMMA SwapDone ==
    ASSUME TypeOK, TablesInv, NEW p, NEW whole \in BOOLEAN, NEW s, s = SwapOptimized,
           Done(p, whole, s), Agent(p, 2, 3, s)
    PROVE  TablesInv'
<1>1. Arrives(p, 0, 0) /\ Completes(2)
    BY MovesFrom DEF Done, Agent
<1>2. PICK half : /\ Renamed(table, "logs", "logs_before_optimization", half)
                  /\ Renamed(half, "logs_optimized", "logs", Effect(table, s))
                  /\ Remains(table, s) = {table, half, Effect(table, s)}
    BY SwapEffect DEF Done
<1>3. late' \subseteq late \ {SwapOptimized} /\ \A q \in Runners : ~Here(q, 2, 3)'
    BY OptimizerAlone DEF Done
<1>4. CASE table' = Effect(table, s)
    <2>1. (p \in Runners /\ Here(p, 2, 3)) \/ SwapOptimized \in late
        BY DEF Agent
    <2> QED
        BY <1>1, <1>2, <1>3, <1>4, <2>1, SwapOK DEF Done
<1>5. CASE table' # Effect(table, s)
    <2>1. ~whole /\ (table' = table \/ table' = half)
        BY <1>2, <1>5 DEF Done
    <2>2. Completes(0)
        BY <2>1, MovesNot DEF Done
    <2> QED
        BY <1>1, <1>2, <2>1, <2>2, UntouchedOK, HalfSwapOK DEF Done
<1> QED
    BY <1>4, <1>5

LEMMA CopySingleNodeDone ==
    ASSUME TypeOK, TablesInv, NEW p, NEW whole \in BOOLEAN, NEW s, s = CopySingleNode,
           Done(p, whole, s), Agent(p, 3, 4, s)
    PROVE  TablesInv'
<1>1. Arrives(p, 0, 0) /\ Completes(3)
    BY MovesFrom DEF Done, Agent
<1>2. (p \in Runners /\ Here(p, 3, 4)) \/ CopySingleNode \in late
    BY DEF Agent
<1>3. Has("logs") /\ table["logs"].over
    BY <1>2 DEF TablesInv, OneDistributor
<1>4. /\ Readable(table, "logs_single_node") /\ Readable(table, "logs")
      /\ Poured(table, Base(table, "logs_single_node"), Base(table, "logs"), Rows, Effect(table, s))
      /\ \A new \in Remains(table, s) :
            \E some : Poured(table, Base(table, "logs_single_node"), Base(table, "logs"), some, new)
    BY CopyEffect, WellFormedTable DEF Done, CopySingleNode
<1>5. Base(table, "logs") = "logs_local" /\ Base(table, "logs_single_node") = "logs_single_node"
    BY <1>3, <1>4 DEF TablesInv, Catalogue, Base, Readable, Exists
<1>6. PICK some : Poured(table, "logs_single_node", "logs_local", some, table') /\ (whole => some = Rows)
    <2>1. CASE whole
        BY <1>4, <1>5, <2>1 DEF Done
    <2>2. CASE ~whole
        BY <1>4, <1>5, <2>2 DEF Done
    <2> QED
        BY <2>1, <2>2
<1>7. late' \subseteq late \ {CopySingleNode} /\ \A q \in Runners : ~Here(q, 3, 4)'
    <2>0. 4 # 1
        OBVIOUS
    <2>1. CASE p \in Runners /\ Here(p, 3, 4)
        <3>1. Distributing(p)
            BY <2>1 DEF Distributing
        <3>2. CopySingleNode \notin late /\ \A q \in Runners : Distributing(q) => q = p
            BY <2>1, <3>1 DEF TablesInv, OneDistributor, LeftOver
        <3>3. ASSUME NEW q \in Runners, Here(q, 3, 4)' PROVE FALSE
            <4>1. CASE q # p /\ Here(q, 3, 4)
                BY <3>2, <4>1 DEF Distributing
            <4>2. CASE q = p /\ \E k : Here(p, 3, k) /\ k # Len(ChFiles[3]) /\ 4 = k + 1
                <5>1. Len(ChFiles[3]) = 4
                    BY Files
                <5> QED
                    BY <2>1, <4>2, <5>1 DEF Here
            <4> QED
                BY <2>0, <3>3, <4>1, <4>2 DEF Done, Moves
        <3> QED
            BY <3>2, <3>3 DEF Done
    <2>2. CASE p \notin Runners /\ CopySingleNode \in late /\ CopySingleNode \notin late'
        <3>1. \A q \in Runners : ~Distributing(q)
            BY <2>2 DEF TablesInv, OneDistributor, LeftOver
        <3>2. ASSUME NEW q \in Runners, Here(q, 3, 4)' PROVE FALSE
            <4>1. q # p
                BY <2>2
            <4> QED
                BY <2>0, <3>1, <3>2, <4>1 DEF Done, Moves, Distributing
        <3> QED
            BY <2>2, <3>2 DEF Done
    <2> QED
        BY <2>1, <2>2 DEF Agent
<1>8. Complete(3)' => Complete(3) \/ (p \in Runners /\ Here(p, 3, 4) /\ some = Rows)
    BY <1>6 DEF Done, Moves, Agent
<1> QED
    BY <1>1, <1>2, <1>6, <1>7, <1>8, PouredLocalOK DEF Done

\* Every statement of db/clickhouse keeps the invariant of the tables.
LEMMA StatementDone ==
    ASSUME TypeOK, TablesInv, NEW p, NEW s \in Statements, NEW whole \in BOOLEAN, Done(p, whole, s),
           \/ p \in Runners /\ pc[p] = "chExec" /\ s = Statement(p)
           \/ p \notin Runners /\ s \in late /\ s \notin late',
           p \in Runners /\ Here(p, 3, 1) => Complete(2),
           p \in Runners /\ Here(p, 4, 2) => Complete(3)
    PROVE  TablesInv'
<1>1. \/ s = Create("logs", TRUE, FALSE) /\ Agent(p, 1, 1, s)
      \/ s = CreateOptimized /\ Agent(p, 2, 1, s)
      \/ s = CopyOptimized /\ Agent(p, 2, 2, s)
      \/ s = SwapOptimized /\ Agent(p, 2, 3, s)
      \/ s = SetAside /\ Agent(p, 3, 1, s)
      \/ s = CreateLocal /\ Agent(p, 3, 2, s)
      \/ s = CreateDistributed /\ Agent(p, 3, 3, s)
      \/ s = CopySingleNode /\ Agent(p, 3, 4, s)
      \/ s = AddTemplates("logs_local") /\ Agent(p, 4, 1, s)
      \/ s = AddTemplates("logs") /\ Agent(p, 4, 2, s)
    <2>1. CASE p \in Runners /\ pc[p] = "chExec" /\ s = Statement(p)
        BY <2>1, AtStatement DEF Agent
    <2>2. CASE p \notin Runners /\ s \in late /\ s \notin late'
        BY <2>2, StatementCases DEF Agent
    <2> QED
        BY <2>1, <2>2
<1>2. CASE s = SetAside /\ Agent(p, 3, 1, s)
    BY <1>2, SetAsideDone DEF Agent
<1>3. CASE s = AddTemplates("logs_local") /\ Agent(p, 4, 1, s)
    BY <1>3, AlterDone
<1>4. CASE s = AddTemplates("logs") /\ Agent(p, 4, 2, s)
    <2>1. p \in Runners => Complete(3)
        BY <1>4 DEF Agent
    <2> QED
        BY <1>4, <2>1, AlterDone
<1> QED
    BY <1>1, <1>2, <1>3, <1>4, CreateLogsDone, CreateOptimizedDone, CopyOptimizedDone, SwapDone,
       CreateLocalDone, CreateDistributedDone, CopySingleNodeDone

\* ... and the catalogue well formed.
LEMMA RemainsOK ==
    ASSUME TypeOK, NEW s \in Statements, Accepts(table, s), NEW new \in Remains(table, s)
    PROVE  WellFormed(new)
<1>1. WellFormed(table)
    BY WellFormedTable
<1>2. CASE \E t : \E quiet, over \in BOOLEAN : s = Create(t, quiet, over)
    <2>1. PICK t, quiet, over : quiet \in BOOLEAN /\ over \in BOOLEAN /\ s = Create(t, quiet, over)
        BY <1>2
    <2>2. s.op = "create"
        BY <2>1 DEF Create
    <2>3. new = table \/ new = Effect(table, s)
        BY <2>2, RemainsWhole
    <2>4. Effect(table, s) = table \/ Made(table, t, over, Effect(table, s))
        BY <2>1, CreateEffect
    <2> QED
        BY <1>1, <2>1, <2>3, <2>4, MadeOK
<1>3. CASE \E from, to : s = InsertSelect(from, to)
    BY <1>1, <1>3, CopyEffect, PouredOK
<1>4. CASE s = SwapOptimized
    BY <1>1, <1>4, SwapEffect, RenamedOK
<1>5. CASE s = SetAside
    BY <1>1, <1>5, SetAsideEffect, RenamedOK
<1>6. CASE \E t : s = AddTemplates(t)
    <2>1. PICK t : s = AddTemplates(t)
        BY <1>6
    <2>2. s.op = "alter"
        BY <2>1 DEF AddTemplates
    <2>3. new = table \/ new = Effect(table, s)
        BY <2>2, RemainsWhole
    <2>4. WellFormed(Effect(table, s))
        <3>1. /\ t \in DOMAIN table /\ DOMAIN Effect(table, s) = DOMAIN table
              /\ \A u \in DOMAIN table \ {t} : Effect(table, s)[u] = table[u]
              /\ Effect(table, s)[t] \in TableType
            BY <1>1, <2>1, AlterEffect, Zenon
        <3> QED
            BY <1>1, <3>1 DEF WellFormed
    <2> QED
        BY <1>1, <2>3, <2>4
<1>7. \/ \E t : \E quiet, over \in BOOLEAN : s = Create(t, quiet, over)
      \/ \E from, to : s = InsertSelect(from, to)
      \/ s = SwapOptimized \/ s = SetAside
      \/ \E t : s = AddTemplates(t)
    <2>1. CASE s \in {Create("logs", TRUE, FALSE), CreateOptimized, CreateLocal, CreateDistributed}
        BY <2>1 DEF CreateOptimized, CreateLocal, CreateDistributed
    <2>2. CASE s \in {CopyOptimized, CopySingleNode}
        BY <2>2 DEF CopyOptimized, CopySingleNode
    <2>3. CASE s \in {AddTemplates("logs_local"), AddTemplates("logs")}
        BY <2>3
    <2> QED
        BY <2>1, <2>2, <2>3, StatementCases
<1> QED
    BY <1>2, <1>3, <1>4, <1>5, <1>6, <1>7

-----------------------------------------------------------------------------
(* RunClickHouse.                                                          *)

\* The versions before the one a runner is at have been recorded.
LEMMA EarlierRecorded ==
    ASSUME MigrationsInv, NEW p \in Runners, pc[p] \in {"chExec", "chRecord"}
    PROVE  \A u \in 1..4 : u < Current(p) => u \in recorded
<1>1. /\ Current(p) \in 1..4 /\ \A u \in todo[p] : Current(p) <= u
      /\ todo[p] \subseteq 1..4
    BY CurrentOK, Files DEF MigrationsInv, TypeOK
<1>2. (1..4) \ todo[p] \subseteq recorded
    BY Files DEF MigrationsInv, OrderInv, ChOrder
<1> QED
    BY <1>1, <1>2

LEMMA FirstStatement == \A v \in 1..4 : 1 \in DOMAIN ChFiles[v]
<1>1. \A v \in 1..4 : v = 1 \/ v = 2 \/ v = 3 \/ v = 4
    OBVIOUS
<1> QED
    BY <1>1, Files

\* The next pending version, if there is one.
LEMMA ChGoOnOK ==
    ASSUME NEW p, NEW rest, ChGoOn(p, rest), rest \subseteq DOMAIN ChFiles,
           DOMAIN ChFiles \ rest \subseteq recorded'
    PROVE  \E here \in {"idle", "chExec"} : At(p, here, rest, 1) /\ Allowed(here, rest, 1)
<1>1. CASE rest = {}
    BY <1>1, ExitAllowed DEF ChGoOn, Exit
<1>2. CASE rest # {}
    <2>1. rest \subseteq 1..4 /\ rest \subseteq Nat
        BY Files
    <2>2. 1 \in DOMAIN ChFiles[Min(rest)]
        BY <1>2, <2>1, LeastVersion, FirstStatement
    <2> QED
        BY <1>2, <2>1, <2>2 DEF ChGoOn, Allowed
<1> QED
    BY <1>1, <1>2

LEMMA ChListStep == ASSUME MigrationsInv, NEW p \in Runners, ChList(p) PROVE MigrationsInv'
<1>1. ChGoOn(p, DOMAIN ChFiles \ recorded) /\ NoFault /\ UNCHANGED <<pgVars, chVars, torn>>
    BY DEF ChList, Pending
<1>2. torn' \in BOOLEAN /\ pgRecorded \subseteq pgRecorded' /\ recorded' = recorded
    BY <1>1 DEF MigrationsInv, TypeOK, pgVars, chVars
<1>3. PICK here \in {"idle", "chExec"} :
         /\ At(p, here, DOMAIN ChFiles \ recorded, 1)
         /\ Allowed(here, DOMAIN ChFiles \ recorded, 1)
    BY <1>1, <1>2, ChGoOnOK
<1> QED
    BY <1>1, <1>2, <1>3, PgSame, CalmMove

\* The runner gives up without another effect.
LEMMA GiveUpStep ==
    ASSUME MigrationsInv, NEW p \in Runners, Exit(p), torn' \in BOOLEAN, Fault \/ NoFault,
           UNCHANGED <<pgVars, chVars>>
    PROVE  MigrationsInv'
<1>1. pgRecorded \subseteq pgRecorded'
    BY DEF pgVars
<1> QED
    BY <1>1, PgSame, ExitAllowed, CalmMove DEF Exit

LEMMA ChRejectedStep == ASSUME MigrationsInv, NEW p \in Runners, ChRejected(p) PROVE MigrationsInv'
<1>1. torn' \in BOOLEAN
    BY DEF ChRejected, Tears, MigrationsInv, TypeOK
<1> QED
    BY <1>1, GiveUpStep DEF ChRejected, GivesUp

LEMMA DieStep == ASSUME MigrationsInv, NEW p \in Runners, Die(p) PROVE MigrationsInv'
<1>1. torn' \in BOOLEAN
    BY DEF Die, Tears, MigrationsInv, TypeOK
<1> QED
    BY <1>1, GiveUpStep DEF Die

LEMMA ChTimeoutStep == ASSUME MigrationsInv, NEW p \in Runners, ChTimeout(p) PROVE MigrationsInv'
<1>1. /\ pc[p] = "chExec" /\ Fault /\ late' = late \cup {Statement(p)} /\ Exit(p)
      /\ UNCHANGED <<pgVars, table, recorded, acked, exposed>>
    BY DEF ChTimeout
<1>2. TypeOK /\ TablesInv
    BY DEF MigrationsInv
<1>3. torn' \in BOOLEAN /\ pgRecorded \subseteq pgRecorded'
    BY <1>1, <1>2 DEF ChTimeout, Tears, TypeOK, pgVars
<1>4. /\ RunnerType' /\ PgOrder' /\ ChOrder' /\ pc'[p] = "idle"
      /\ Arrives(p, 0, 0) /\ Completes(0)
    BY <1>1, <1>3, ExitAllowed, MoveOK DEF Exit
<1>5. StoreType' /\ InOrder'
    <2>1. late' \subseteq Statements
        BY <1>1, <1>2, IsStatement, TypeParts DEF StoreType
    <2> QED
        BY <1>1, <1>2, <2>1, TypeParts DEF StoreType, MigrationsInv, OrderInv, InOrder
<1>6. Here(p, 3, 1) => Complete(2)
    BY <1>1, EarlierRecorded DEF Here, Complete
<1>7. TablesInv'
    BY <1>1, <1>2, <1>4, <1>6, TimeoutOK
<1>8. faults' \in 0..MaxFaults
    BY <1>1, <1>2, FaultOK
<1> QED
    BY <1>1, <1>3, <1>4, <1>5, <1>7, <1>8, PgSame, Combine

\* A version is recorded by a runner that has gone through all of it.
LEMMA ChRecordStep == ASSUME MigrationsInv, NEW p \in Runners, ChRecord(p) PROVE MigrationsInv'
<1>1. PICK v : v = Current(p)
    OBVIOUS
<1>2. /\ pc[p] = "chRecord" /\ recorded' = recorded \cup {v}
      /\ UNCHANGED <<pgVars, table, late, acked, exposed, torn>> /\ (Fault \/ NoFault)
      /\ ChGoOn(p, Rest(p)) \/ Exit(p)
    BY <1>1 DEF ChRecord
<1>3. TypeOK /\ TablesInv /\ PgOrder /\ ChOrder
    BY DEF MigrationsInv, OrderInv
<1>4. v \in 1..4 /\ \A u \in 1..4 : u < v => u \in recorded
    BY <1>1, <1>2, <1>3, CurrentOK, EarlierRecorded
<1>5. Rest(p) \subseteq DOMAIN ChFiles /\ DOMAIN ChFiles \ Rest(p) \subseteq recorded'
    BY <1>1, <1>2, <1>3 DEF Rest, TypeOK, ChOrder
<1>6. PICK here \in {"idle", "chExec"}, rest \in {{}, Rest(p)} : At(p, here, rest, 1) /\ Allowed(here, rest, 1)
    <2>1. CASE ChGoOn(p, Rest(p))
        BY <1>5, <2>1, ChGoOnOK
    <2>2. CASE Exit(p)
        BY <2>2, ExitAllowed DEF Exit
    <2> QED
        BY <1>2, <2>1, <2>2
<1>7. pgRecorded \subseteq pgRecorded' /\ recorded \subseteq recorded'
    BY <1>2 DEF pgVars
<1>8. /\ RunnerType' /\ PgOrder' /\ ChOrder'
      /\ pc'[p] = here /\ stmt'[p] = 1
      /\ \A q \in Runners \ {p} : pc'[q] = pc[q] /\ todo'[q] = todo[q] /\ stmt'[q] = stmt[q]
    BY <1>3, <1>6, <1>7, AtOK
<1>9. Arrives(p, 0, 0)
    <2> SUFFICES ASSUME NEW q \in Runners, NEW w, NEW m, m # 1, Here(q, w, m)' PROVE Here(q, w, m)
        BY DEF Arrives
    <2> QED
        BY <1>8 DEF Here, Current
<1>10. Completes(0)
    <2> SUFFICES ASSUME NEW w, Complete(w)' PROVE Complete(w)
        BY DEF Completes
    <2>1. CASE w \in recorded'
        BY <1>1, <1>2, <2>1 DEF Complete, Recording
    <2>2. CASE \E q \in Runners : Recording(q, w)'
        <3>1. PICK q \in Runners : Recording(q, w)'
            BY <2>2
        <3>2. q # p
            BY <1>6, <1>8, <3>1 DEF Recording
        <3> QED
            BY <1>8, <3>1, <3>2 DEF Recording, Complete, Current
    <2> QED
        BY <2>1, <2>2 DEF Complete
<1>11. TablesInv'
    BY <1>2, <1>3, <1>9, <1>10, CalmOK
<1>12. StoreType'
    BY <1>2, <1>3, <1>4, Files, TypeParts DEF StoreType
<1>13. InOrder'
    <2> SUFFICES ASSUME NEW w \in recorded' PROVE 1..w \subseteq recorded'
        BY DEF InOrder
    <2>1. CASE w = v
        <3>1. \A u \in 1..v : u \in 1..4 /\ (u < v \/ u = v)
            BY <1>4
        <3> QED
            BY <1>2, <1>4, <2>1, <3>1
    <2>2. CASE w # v
        BY <1>2, <2>2 DEF MigrationsInv, OrderInv, InOrder
    <2> QED
        BY <2>1, <2>2
<1>14. torn' \in BOOLEAN /\ faults' \in 0..MaxFaults
    BY <1>2, <1>3, FaultOK DEF TypeOK
<1> QED
    BY <1>2, <1>8, <1>11, <1>12, <1>13, <1>14, PgSame, Combine

-----------------------------------------------------------------------------
(* The statements.                                                         *)

\* A step of a statement for its runner, which goes on or gives up.
LEMMA RunnerStatement ==
    ASSUME MigrationsInv, NEW p \in Runners, pc[p] = "chExec", NEW whole \in BOOLEAN,
           Accepts(table, Statement(p)), table' \in Remains(table, Statement(p)),
           whole => table' = Effect(table, Statement(p)),
           IF whole THEN Advance(p) ELSE Exit(p),
           UNCHANGED <<pgVars, recorded, late, acked, exposed>>,
           torn' \in BOOLEAN, Fault \/ NoFault
    PROVE  MigrationsInv'
<1>1. PICK v, n, s : v = Current(p) /\ n = stmt[p] /\ s = Statement(p)
    OBVIOUS
<1>2. TypeOK /\ TablesInv
    BY DEF MigrationsInv
<1>3. /\ v \in 1..4 /\ n \in DOMAIN ChFiles[v] /\ n \in Nat /\ Here(p, v, n) /\ v = Min(todo[p])
      /\ todo[p] # {} /\ todo[p] \subseteq DOMAIN ChFiles /\ todo[p] \in SUBSET Nat
      /\ DOMAIN ChFiles \ todo[p] \subseteq recorded
    <2>1. DOMAIN ChFiles \ todo[p] \subseteq recorded
        BY DEF MigrationsInv, OrderInv, ChOrder
    <2> QED
        BY <1>1, <1>2, <2>1, CurrentOK DEF TypeOK, Here, Current
<1>4. pgRecorded \subseteq pgRecorded' /\ recorded' = recorded
    BY DEF pgVars
<1>5. v = 1 \/ v = 2 \/ v = 3 \/ v = 4
    BY <1>3
<1>6. PICK here, rest, m :
         /\ At(p, here, rest, m) /\ Allowed(here, rest, m)
         /\ here = "chExec" => whole /\ rest = todo[p] /\ n # Len(ChFiles[v]) /\ m = n + 1
         /\ here = "chRecord" => whole /\ rest = todo[p] /\ n = Len(ChFiles[v])
    <2>1. CASE ~whole
        BY <2>1, ExitAllowed DEF Exit
    <2>2. CASE whole /\ n = Len(ChFiles[v])
        <3>1. At(p, "chRecord", todo[p], 1)
            BY <1>1, <2>2 DEF Advance
        <3>2. Allowed("chRecord", todo[p], 1)
            BY <1>3, <1>4 DEF Allowed
        <3> QED
            BY <2>2, <3>1, <3>2
    <2>3. CASE whole /\ n # Len(ChFiles[v])
        <3>1. At(p, "chExec", todo[p], n + 1)
            BY <1>1, <2>3 DEF Advance
        <3>2. n + 1 \in DOMAIN ChFiles[v]
            <4>1. \E k \in Nat : DOMAIN ChFiles[v] = 1..k /\ Len(ChFiles[v]) = k
                BY <1>5, Files
            <4> QED
                BY <1>3, <2>3, <4>1
        <3>3. Allowed("chExec", todo[p], n + 1)
            BY <1>3, <1>4, <3>2 DEF Allowed
        <3> QED
            BY <2>3, <3>1, <3>3
    <2> QED
        BY <2>1, <2>2, <2>3
<1>7. /\ RunnerType' /\ PgOrder' /\ ChOrder'
      /\ pc'[p] = here /\ todo'[p] = rest /\ stmt'[p] = m
      /\ \A q \in Runners \ {p} : pc'[q] = pc[q] /\ todo'[q] = todo[q] /\ stmt'[q] = stmt[q]
    BY <1>2, <1>4, <1>6, AtOK DEF MigrationsInv, OrderInv
<1>8. Moves(p, whole)
    <2>1. ASSUME NEW q \in Runners, NEW w, NEW j, j # 1, Here(q, w, j)'
          PROVE  \/ q # p /\ Here(q, w, j)
                 \/ q = p /\ whole /\ \E k : Here(p, w, k) /\ k # Len(ChFiles[w]) /\ j = k + 1
        <3>1. CASE q # p
            BY <1>7, <2>1, <3>1 DEF Here, Current
        <3>2. CASE q = p
            <4>1. here = "chExec" /\ Min(rest) = w /\ m = j
                BY <1>7, <2>1, <3>2 DEF Here, Current
            <4>2. whole /\ w = v /\ n # Len(ChFiles[w]) /\ j = n + 1
                BY <1>3, <1>6, <4>1
            <4> QED
                BY <1>3, <3>2, <4>2
        <3> QED
            BY <3>1, <3>2
    <2>2. ASSUME NEW w, Complete(w)'
          PROVE  Complete(w) \/ (whole /\ p \in Runners /\ Here(p, w, Len(ChFiles[w])))
        <3>1. CASE w \in recorded'
            BY <1>4, <3>1 DEF Complete
        <3>2. CASE \E q \in Runners : Recording(q, w)'
            <4>1. PICK q \in Runners : Recording(q, w)'
                BY <3>2
            <4>2. CASE q # p
                BY <1>7, <4>1, <4>2 DEF Recording, Complete, Current
            <4>3. CASE q = p
                <5>1. here = "chRecord" /\ Min(rest) = w
                    BY <1>7, <4>1, <4>3 DEF Recording, Current
                <5>2. whole /\ w = v /\ n = Len(ChFiles[w])
                    BY <1>3, <1>6, <5>1
                <5> QED
                    BY <1>3, <5>2
            <4> QED
                BY <4>2, <4>3
        <3> QED
            BY <2>2, <3>1, <3>2 DEF Complete
    <2> QED
        BY <2>1, <2>2 DEF Moves
<1>9. s \in Statements
    BY <1>1, <1>2, IsStatement
<1>10. (Here(p, 3, 1) => Complete(2)) /\ (Here(p, 4, 2) => Complete(3))
    BY EarlierRecorded DEF Here, Complete
<1>11. TablesInv'
    <2>1. Done(p, whole, s)
        BY <1>1, <1>8 DEF Done
    <2> QED
        BY <1>1, <1>2, <1>9, <1>10, <2>1, StatementDone
<1>12. StoreType' /\ InOrder'
    <2>1. WellFormed(table')
        BY <1>1, <1>2, <1>9, RemainsOK
    <2> QED
        BY <1>2, <2>1, TypeParts DEF StoreType, WellFormed, MigrationsInv, OrderInv, InOrder
<1>13. faults' \in 0..MaxFaults
    BY <1>2, FaultOK
<1> QED
    BY <1>7, <1>11, <1>12, <1>13, PgSame, Combine

LEMMA ChExecStep == ASSUME MigrationsInv, NEW p \in Runners, ChExec(p) PROVE MigrationsInv'
<1>1. /\ pc[p] = "chExec" /\ Accepts(table, Statement(p)) /\ table' = Effect(table, Statement(p))
      /\ Advance(p) /\ NoFault /\ UNCHANGED <<pgVars, recorded, late, acked, exposed, torn>>
    BY DEF ChExec
<1>2. table' \in Remains(table, Statement(p))
    BY <1>1, EffectRemains
<1>3. torn' \in BOOLEAN
    BY <1>1 DEF MigrationsInv, TypeOK
<1> QED
    BY <1>1, <1>2, <1>3, RunnerStatement

LEMMA ChInterruptedStep == ASSUME MigrationsInv, NEW p \in Runners, ChInterrupted(p) PROVE MigrationsInv'
<1>1. /\ pc[p] = "chExec" /\ Accepts(table, Statement(p)) /\ table' \in Remains(table, Statement(p))
      /\ Exit(p) /\ Fault /\ UNCHANGED <<pgVars, recorded, late, acked, exposed>>
    BY DEF ChInterrupted
<1>2. torn' \in BOOLEAN
    BY DEF ChInterrupted, Tears, MigrationsInv, TypeOK
<1> QED
    BY <1>1, <1>2, RunnerStatement

\* A statement that nobody waits for any more.
LEMMA LateEndsStep == ASSUME MigrationsInv, NEW s \in late, LateEnds(s) PROVE MigrationsInv'
<1>1. /\ late' = late \ {s} /\ table' = IF Accepts(table, s) THEN Effect(table, s) ELSE table
      /\ UNCHANGED <<pgVars, recorded, acked, exposed, runnerVars, torn, faults>>
    BY DEF LateEnds
<1>2. TypeOK /\ TablesInv /\ PgOrder /\ ChOrder
    BY DEF MigrationsInv, OrderInv
<1>3. pgRecorded \subseteq pgRecorded' /\ recorded' = recorded
    BY <1>1 DEF pgVars
<1>4. RunnerType' /\ PgOrder' /\ ChOrder'
    BY <1>1, <1>2, <1>3, StayOK
<1>5. PICK p : p \notin Runners
    BY NoSetContainsEverything
<1>6. Moves(p, TRUE)
    BY <1>1, <1>3, <1>5 DEF Moves, Here, Complete, Recording, Current, runnerVars
<1>7. s \in Statements
    BY <1>2, TypeParts DEF StoreType
<1>8. CASE Accepts(table, s)
    <2>1. table' = Effect(table, s) /\ table' \in Remains(table, s)
        BY <1>1, <1>8, EffectRemains
    <2>2. Done(p, TRUE, s)
        BY <1>1, <1>6, <1>8, <2>1 DEF Done
    <2>3. s \notin late' /\ TRUE \in BOOLEAN
        BY <1>1
    <2>4. TablesInv'
        BY <1>2, <1>5, <1>7, <2>2, <2>3, StatementDone
    <2>5. WellFormed(table')
        BY <1>2, <1>7, <1>8, <2>1, RemainsOK
    <2> QED
        <3>1. StoreType' /\ InOrder'
            BY <1>1, <1>2, <2>5, TypeParts DEF StoreType, WellFormed, MigrationsInv, OrderInv, InOrder
        <3>2. torn' \in BOOLEAN /\ faults' \in 0..MaxFaults
            BY <1>1, <1>2 DEF TypeOK
        <3> QED
            BY <1>1, <1>4, <2>4, <3>1, <3>2, PgSame, Combine
<1>9. CASE ~Accepts(table, s)
    <2>1. table' = table
        BY <1>1, <1>9
    <2>2. Arrives(p, 0, 0) /\ Completes(0)
        BY <1>5, <1>6, MovesNot
    <2>3. TablesInv'
        BY <1>1, <1>2, <2>1, <2>2, CalmOK
    <2>4. StoreType' /\ InOrder'
        BY <1>1, <1>2, <2>1, TypeParts DEF StoreType, MigrationsInv, OrderInv, InOrder
    <2>5. torn' \in BOOLEAN /\ faults' \in 0..MaxFaults
        BY <1>1, <1>2 DEF TypeOK
    <2> QED
        BY <1>1, <1>4, <2>3, <2>4, <2>5, PgSame, Combine
<1> QED
    BY <1>8, <1>9

LEMMA WriteStep == ASSUME MigrationsInv, NEW r \in Rows, Write(r) PROVE MigrationsInv'
<1>1. UNCHANGED <<pgVars, recorded, late, runnerVars, torn, faults>>
    BY DEF Write
<1>2. TypeOK /\ TablesInv /\ PgOrder /\ ChOrder
    BY DEF MigrationsInv, OrderInv
<1>3. pgRecorded \subseteq pgRecorded' /\ recorded' = recorded
    BY <1>1 DEF pgVars
<1>4. RunnerType' /\ PgOrder' /\ ChOrder'
    BY <1>1, <1>2, <1>3, StayOK
<1>5. InOrder' /\ torn' \in BOOLEAN /\ faults' \in 0..MaxFaults
    BY <1>1, <1>2 DEF MigrationsInv, OrderInv, InOrder, TypeOK
<1> QED
    BY <1>1, <1>2, <1>4, <1>5, WriteOK, PgSame, Combine

LEMMA StutterStep == ASSUME MigrationsInv, UNCHANGED vars PROVE MigrationsInv'
<1>1. UNCHANGED <<pgVars, chVars, runnerVars, torn, faults>>
    BY DEF vars
<1>2. TypeOK /\ TablesInv /\ PgOrder /\ ChOrder
    BY DEF MigrationsInv, OrderInv
<1>3. pgRecorded \subseteq pgRecorded' /\ recorded' = recorded /\ UNCHANGED <<table, acked, exposed, late>>
    BY <1>1 DEF pgVars, chVars
<1>4. RunnerType' /\ PgOrder' /\ ChOrder'
    BY <1>1, <1>2, <1>3, StayOK
<1>5. Arrives(0, 0, 0) /\ Completes(0)
    BY <1>1, <1>3 DEF Arrives, Completes, Here, Complete, Recording, Current, runnerVars
<1>6. TablesInv'
    BY <1>2, <1>3, <1>5, CalmOK
<1>7. torn' \in BOOLEAN /\ faults' \in 0..MaxFaults
    BY <1>1, <1>2 DEF TypeOK
<1> QED
    BY <1>1, <1>4, <1>6, <1>7, PgSame, ChSame, Combine

LEMMA InitialTables == ASSUME Init PROVE TablesInv /\ StoreType
<1>1. /\ acked \subseteq Rows
      /\ \/ table = <<>> /\ acked = {}
         \/ table = [t \in {"logs"} |-> [over |-> FALSE, templates |-> FALSE,
                                         rows |-> [r \in Rows |-> IF r \in acked THEN 1 ELSE 0]]]
      /\ recorded = {} /\ late = {} /\ exposed = {} /\ pc = [p \in Runners |-> "idle"]
    BY DEF Init
<1>2. \A p \in Runners : pc[p] = "idle"
    BY <1>1
<1>3. \A p \in Runners : \A v, n : ~Here(p, v, n) /\ ~Recording(p, v)
    BY <1>2 DEF Here, Recording
<1>4. (\A v : ~Complete(v)) /\ \A p \in Runners : ~Optimizing(p) /\ ~Distributing(p)
    BY <1>1, <1>3 DEF Complete, Optimizing, Distributing
<1>5. LeftOver = {}
    BY <1>1 DEF LeftOver
<1>6. DOMAIN table \subseteq {"logs"} /\ (Has("logs") \/ acked = {})
    BY <1>1 DEF Has
<1>7. Has("logs") => /\ table["logs"].over = FALSE /\ table["logs"] \in TableType
                     /\ \A r \in Rows : table["logs"].rows[r] = IF r \in acked THEN 1 ELSE 0
    <2> SUFFICES ASSUME Has("logs")
                 PROVE  /\ table["logs"].over = FALSE /\ table["logs"] \in TableType
                        /\ \A r \in Rows : table["logs"].rows[r] = IF r \in acked THEN 1 ELSE 0
        OBVIOUS
    <2> DEFINE rows == [r \in Rows |-> IF r \in acked THEN 1 ELSE 0]
    <2>1. table["logs"] = [over |-> FALSE, templates |-> FALSE, rows |-> rows]
        BY <1>1 DEF Has
    <2>2. rows \in [Rows -> Nat] /\ \A r \in Rows : rows[r] = IF r \in acked THEN 1 ELSE 0
        OBVIOUS
    <2> HIDE DEF rows
    <2> QED
        BY <2>1, <2>2 DEF TableType
<1>8. Has("logs") => \A r \in Rows : Holds("logs", r) <=> r \in acked
    BY <1>7 DEF Holds
<1>9. Catalogue
    BY <1>1, <1>4, <1>6, <1>7 DEF Catalogue, Has
<1>10. Stored /\ NothingLost
    BY <1>1, <1>6, <1>7, <1>8 DEF Stored, NothingLost, Has, Holds
<1>11. CopiedOnce
    BY <1>6, <1>7 DEF CopiedOnce, Has
<1>12. OneOptimizer /\ StillEmpty /\ OneDistributor /\ StillApart
    BY <1>1, <1>3, <1>4, <1>5 DEF OneOptimizer, StillEmpty, OneDistributor, StillApart
<1>13. Whereabouts /\ Columns
    BY <1>1, <1>3, <1>4, <1>6, <1>8 DEF Whereabouts, Columns, Full
<1>14. StoreType
    BY <1>1, <1>6, <1>7 DEF StoreType, Has
<1> QED
    BY <1>9, <1>10, <1>11, <1>12, <1>13, <1>14 DEF TablesInv

LEMMA InitialOrder == ASSUME Init PROVE MigrationsInv
<1>1. PgType /\ torn \in BOOLEAN /\ faults \in 0..MaxFaults
    <2>1. pgRecorded = {} /\ pgTimes = [v \in PgFiles |-> 0] /\ torn = FALSE /\ faults = 0
        BY DEF Init
    <2>2. pgTimes \in [PgFiles -> Nat]
        BY <2>1
    <2>3. faults \in 0..MaxFaults
        BY <2>1, MigrationsAssumption
    <2> QED
        BY <2>1, <2>2, <2>3 DEF PgType
<1>2. \A p \in Runners : pc[p] = "idle"
    BY DEF Init
<1>3. RunnerType
    <2>1. /\ target \in [Runners -> {"all", "postgres", "clickhouse"}]
          /\ pc \in [Runners -> {"idle", "pgList", "pgExec", "pgCommit", "chList", "chExec", "chRecord"}]
          /\ todo \in [Runners -> SUBSET Nat] /\ stmt \in [Runners -> Nat]
        BY DEF Init
    <2> QED
        BY <1>2, <2>1 DEF RunnerType
<1>4. PgOrder /\ ChOrder
    BY <1>2 DEF PgOrder, ChOrder
<1>5. InOrder /\ PostgresIsAtomic
    BY DEF Init, InOrder, PostgresIsAtomic
<1> QED
    BY <1>1, <1>3, <1>4, <1>5, InitialTables, TypeParts DEF MigrationsInv, OrderInv

LEMMA NextStep == ASSUME MigrationsInv, [Next]_vars PROVE MigrationsInv'
<1>1. ASSUME NEW p \in Runners, NEW what \in {"all", "postgres", "clickhouse"}, Start(p, what)
      PROVE  MigrationsInv'
    BY <1>1, StartStep
<1>2. ASSUME NEW p \in Runners, Step(p) PROVE MigrationsInv'
    BY <1>2, PgListStep, PgExecStep, PgCommitStep, ChListStep, ChExecStep, ChRejectedStep, ChRecordStep
       DEF Step
<1>3. ASSUME NEW p \in Runners, PgCommitLost(p) \/ ChInterrupted(p) \/ ChTimeout(p) \/ Die(p)
      PROVE  MigrationsInv'
    BY <1>3, PgCommitLostStep, ChInterruptedStep, ChTimeoutStep, DieStep
<1>4. ASSUME NEW s \in late, LateEnds(s) PROVE MigrationsInv'
    BY <1>4, LateEndsStep
<1>5. ASSUME NEW r \in Rows, Write(r) PROVE MigrationsInv'
    BY <1>5, WriteStep
<1>6. CASE UNCHANGED vars
    BY <1>6, StutterStep
<1> QED
    BY <1>1, <1>2, <1>3, <1>4, <1>5, <1>6 DEF Next

-----------------------------------------------------------------------------
(* Theorems.                                                               *)

\* The invariant of both runners: the order of the versions, and where the
\* rows are at every statement of db/clickhouse.
THEOREM MigrationsInvariant == Spec => []MigrationsInv
BY InitialOrder, NextStep, PTL DEF Spec

\* No acknowledged row is lost: at whatever statement a runner of
\* RunClickHouse stops, and whoever runs beside it, some table has it.
THEOREM RowsSafe == Spec => []RowsKept
<1>1. MigrationsInv => RowsKept
    BY DEF MigrationsInv, TablesInv, RowsKept
<1> QED
    BY <1>1, MigrationsInvariant, PTL

\* No INSERT ... SELECT of 002 and 003 copies a row a second time, although
\* the runners hold no lock and start versions over.
THEOREM CopiedSafe == Spec => []CopiedOnce
<1>1. MigrationsInv => CopiedOnce
    BY DEF MigrationsInv, TablesInv
<1> QED
    BY <1>1, MigrationsInvariant, PTL

\* RunClickHouse records a version only when its work is done: in order, and
\* with every row that was not written during a rewrite in the new logs, once.
THEOREM RecordedSafe == Spec => []RecordedIsComplete
<1>1. ASSUME MigrationsInv PROVE RecordedIsComplete
    <2>1. \A v \in recorded : 1..v \subseteq recorded
        BY <1>1 DEF MigrationsInv, OrderInv, InOrder
    <2>2. ASSUME 3 \in recorded
          PROVE  /\ Readable(table, "logs") /\ table["logs"].over
                 /\ \A r \in acked \ exposed : Content(table, "logs")[r] = 1
        <3>1. Has("logs") /\ table["logs"].over /\ Full("logs_local")
            BY <1>1, <2>2 DEF MigrationsInv, TablesInv, Whereabouts, Complete
        <3>2. Base(table, "logs") = "logs_local" /\ Has("logs_local")
            BY <3>1 DEF Base, Full
        <3>3. ASSUME NEW r \in acked \ exposed PROVE table["logs_local"].rows[r] = 1
            <4>1. r \in Rows
                BY <1>1 DEF MigrationsInv, TypeOK
            <4>2. table["logs_local"].rows[r] > 0
                BY <3>1 DEF Full, Holds
            <4>3. table["logs_local"].rows[r] <= 1
                BY <1>1, <3>2, <4>1 DEF MigrationsInv, TablesInv, CopiedOnce, Has
            <4>4. table["logs_local"].rows[r] \in Nat
                BY <1>1, <3>2, <4>1 DEF MigrationsInv, TypeOK, Has
            <4> QED
                BY <4>2, <4>3, <4>4
        <3> QED
            BY <3>1, <3>2, <3>3 DEF Readable, Exists, Has, Content
    <2>3. 4 \in recorded => table["logs"].templates /\ table["logs_local"].templates
        BY <1>1 DEF MigrationsInv, TablesInv, Columns, Complete
    <2> QED
        BY <2>1, <2>2, <2>3 DEF RecordedIsComplete
<1> QED
    BY <1>1, MigrationsInvariant, PTL

\* RunPostgres: a version is recorded exactly when its SQL has been committed,
\* once and after the earlier versions, whatever runners overlap or die.
THEOREM PostgresSafe == Spec => []PostgresIsAtomic
<1>1. MigrationsInv => PostgresIsAtomic
    BY DEF MigrationsInv, OrderInv
<1> QED
    BY <1>1, MigrationsInvariant, PTL
=============================================================================
