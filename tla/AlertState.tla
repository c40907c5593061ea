----------------------------- MODULE AlertState -----------------------------
(***************************************************************************)
(* The alert state machine of internal/alerts/state.go: SyncAlertState     *)
(* reconciles the triggers of one evaluation with the alert_instances      *)
(* table and enqueues notifications, in one READ COMMITTED transaction.    *)
(*                                                                         *)
(* The callers are the consumer and the scheduler of every processor       *)
(* replica, here called syncers.  The transaction reads the table with one *)
(* unlocked SELECT and decides from that snapshot, so other syncers can    *)
(* commit between the read and the write: the two halves are separate      *)
(* steps.  The write half touches each key with at most one statement,     *)
(* holds its row locks to the end and depends on the table only through    *)
(* UNIQUE (rule_id, dedupe_key, status), so it is one atomic step.         *)
(*                                                                         *)
(* A key stands for a (rule_id, dedupe_key) pair.  The UNIQUE constraint   *)
(* leaves room for two rows per key, one per status; a row keeps the place *)
(* (its id) it was inserted at.                                            *)
(***************************************************************************)
EXTENDS Integers

CONSTANTS
    Keys,       \* the (rule, dedupe key) pairs
    Scopes,     \* the sets of keys one evaluation covers: those of its rules
    Syncers,    \* consumers and schedulers of all processor replicas
    Cooldown,   \* cooldown_seconds of the rules
    MaxTime,    \* bound: the clock stops here
    MaxLag      \* how far observedAt may lie behind the clock

ASSUME AlertStateAssumption ==
    /\ Scopes \subseteq SUBSET Keys
    /\ Cooldown \in Nat
    /\ MaxTime \in Nat
    /\ MaxLag \in Nat

Times == 0..MaxTime
Slots == {1, 2}
Status == {"absent", "firing", "resolved"}
Row == [status : Status, fired : Times]
Absent == [status |-> "absent", fired |-> 0]
Snapshot == [Keys -> [Slots -> Row]]
NoSnapshot == [k \in Keys |-> [i \in Slots |-> Absent]]

VARIABLES
    now,        \* the clock
    table,      \* alert_instances: status and last_fired_at per key and place
    running,    \* the syncers inside a transaction
    snap,       \* what the SELECT of a syncer returned
    scope,      \* the keys of the rules it evaluated
    triggered,  \* the keys that matched
    observedAt, \* its evaluation time
    \* history: what was enqueued for delivery
    streak,     \* triggered notices since the last resolved one, at most 2
    noticedAt,  \* observedAt of the last triggered notice (-1: none yet)
    gap,        \* least distance of two triggered notices, at most Cooldown
    overlapped, \* the keys two transactions have worked on at the same time
    backdated   \* the keys whose last_fired_at was ever set back

syncVars == <<running, snap, scope, triggered, observedAt>>
history == <<streak, noticedAt, gap, overlapped, backdated>>
vars == <<now, table, running, snap, scope, triggered, observedAt,
          streak, noticedAt, gap, overlapped, backdated>>

TypeOK ==
    /\ now \in Times
    /\ table \in Snapshot
    /\ running \subseteq Syncers
    /\ snap \in [Syncers -> Snapshot]
    /\ scope \in [Syncers -> SUBSET Keys]
    /\ triggered \in [Syncers -> SUBSET Keys]
    /\ observedAt \in [Syncers -> Times]
    /\ streak \in [Keys -> 0..2]
    /\ noticedAt \in [Keys -> Times \cup {-1}]
    /\ gap \in [Keys -> Int]
    /\ overlapped \subseteq Keys
    /\ backdated \subseteq Keys

Init ==
    /\ now = 0
    /\ table = NoSnapshot
    /\ running = {}
    /\ snap = [s \in Syncers |-> NoSnapshot]
    /\ scope = [s \in Syncers |-> {}]
    /\ triggered = [s \in Syncers |-> {}]
    /\ observedAt = [s \in Syncers |-> 0]
    /\ streak = [k \in Keys |-> 0]
    /\ noticedAt = [k \in Keys |-> -1]
    /\ gap = [k \in Keys |-> Cooldown]
    /\ overlapped = {}
    /\ backdated = {}

-----------------------------------------------------------------------------
(* Plausible slips in the code modelled below; no action uses them.        *)

\* UNIQUE (rule_id, dedupe_key, status) left out of the schema.
SlipNoConstraint(t) == TRUE
\* reconcileState announces every match of a firing instance.
SlipAlwaysAnnounce(known, i, at) == TRUE
\* The cooldown test with the comparison off by one.
SlipCooldownOffByOne(lastFiredAt, at) ==
    Cooldown > 0 /\ at - lastFiredAt < Cooldown - 1
\* A reopening that is inserted as a new row (insert: true).
SlipReopenInserts(t, known, i, at) ==
    IF \E j \in Slots : known[j].status = "firing"
      THEN t
      ELSE [t EXCEPT ![IF t[1].status = "absent" THEN 1 ELSE 2] =
                        [status |-> "firing", fired |-> at]]

-----------------------------------------------------------------------------
(* reconcileState, for one key.  known holds the rows the SELECT returned, *)
(* i the row that ended up in instanceByKey, at the evaluation time.       *)

Exists(known) == \E j \in Slots : known[j].status # "absent"

\* The SELECT has no ORDER BY and the map keeps the last row of a key.
InstanceByKey(known) ==
    {i \in Slots : known[i].status # "absent" \/ ~Exists(known)}

\* The place an INSERT takes.
FreeSlot(t) == IF t[1].status = "absent" THEN 1 ELSE 2

\* Does the cooldown keep the reopening quiet?
Suppressed(lastFiredAt, at) == Cooldown > 0 /\ at - lastFiredAt < Cooldown

\* Which match enqueues a triggered notice.
Announces(known, i, at) ==
    \/ ~Exists(known)
    \/ known[i].status = "resolved" /\ ~Suppressed(known[i].fired, at)

\* The rows of a matching key: inserted, reopened or left alone.
Matched(t, known, i, at) ==
    IF ~Exists(known)
      THEN [t EXCEPT ![FreeSlot(t)] = [status |-> "firing", fired |-> at]]
      ELSE IF known[i].status = "resolved"
             THEN [t EXCEPT ![i] = [status |-> "firing", fired |-> at]]
             ELSE t

\* A key that no longer matches: its firing row is resolved, and its
\* last_fired_at is written back as the snapshot had it.
Unmatched(t, known) ==
    [j \in Slots |->
        IF known[j].status = "firing"
          THEN [status |-> "resolved", fired |-> known[j].fired]
          ELSE t[j]]

Resolves(known) == \E j \in Slots : known[j].status = "firing"

\* UNIQUE (rule_id, dedupe_key, status): an update keeps it, and an INSERT
\* finds no firing row, hence room.
UniqueStatus(t) == t[1].status # t[2].status \/ t[1].status = "absent"
InsertFits(t, known) == Exists(known) \/ \E j \in Slots : t[j].status = "absent"

-----------------------------------------------------------------------------
Tick ==
    /\ now < MaxTime
    /\ now' = now + 1
    /\ UNCHANGED <<table, syncVars, history>>

\* The scheduler passes the current time, the consumer the time the batch
\* was received, which a backlog or a redelivery leaves behind.
ObservableTimes == {u \in Times : u <= now /\ now <= u + MaxLag}

\* BeginTx and loadInstances, for an evaluation whose triggers are given.
Load(s) ==
    /\ s \notin running
    /\ \E sc \in Scopes : \E tr \in SUBSET sc :
       \E at \in ObservableTimes :
          /\ scope' = [scope EXCEPT ![s] = sc]
          /\ triggered' = [triggered EXCEPT ![s] = tr]
          /\ observedAt' = [observedAt EXCEPT ![s] = at]
          /\ snap' = [snap EXCEPT ![s] =
                [k \in Keys |-> IF k \in sc THEN table[k] ELSE NoSnapshot[k]]]
          /\ overlapped' = overlapped \cup
                {k \in sc : \E q \in running : k \in scope[q]}
    /\ running' = running \cup {s}
    /\ UNCHANGED <<now, table, streak, noticedAt, gap, backdated>>

\* The transaction is over; nothing of the plan is kept.
Forget(s) ==
    /\ running' = running \ {s}
    /\ scope' = [scope EXCEPT ![s] = {}]
    /\ triggered' = [triggered EXCEPT ![s] = {}]
    /\ observedAt' = [observedAt EXCEPT ![s] = 0]
    /\ snap' = [snap EXCEPT ![s] = NoSnapshot]

\* The rows of a key after the transaction.
Reconciled(s, k, i) ==
    IF k \notin scope[s] THEN table[k]
    ELSE IF k \in triggered[s] THEN Matched(table[k], snap[s][k], i, observedAt[s])
    ELSE Unmatched(table[k], snap[s][k])

NoticeTriggered(s, k, i) ==
    k \in triggered[s] /\ Announces(snap[s][k], i, observedAt[s])
NoticeResolved(s, k) ==
    k \in scope[s] \ triggered[s] /\ Resolves(snap[s][k])

\* applyPlan, enqueueNotifications and COMMIT.  The rows insertEvent appends to
\* alert_events are left out: no decision reads them, and those of type
\* triggered and resolved go with the notices.
Commit(s) ==
    /\ s \in running
    /\ \E pick \in [Keys -> Slots] :
          /\ \A k \in Keys : pick[k] \in InstanceByKey(snap[s][k])
          /\ table' = [k \in Keys |-> Reconciled(s, k, pick[k])]
          /\ streak' = [k \in Keys |->
                IF NoticeTriggered(s, k, pick[k])
                  THEN IF streak[k] < 2 THEN streak[k] + 1 ELSE 2
                ELSE IF NoticeResolved(s, k) THEN 0 ELSE streak[k]]
          /\ noticedAt' = [k \in Keys |->
                IF NoticeTriggered(s, k, pick[k]) THEN observedAt[s] ELSE noticedAt[k]]
          /\ gap' = [k \in Keys |->
                IF /\ NoticeTriggered(s, k, pick[k])
                   /\ noticedAt[k] # -1
                   /\ observedAt[s] - noticedAt[k] < gap[k]
                  THEN observedAt[s] - noticedAt[k] ELSE gap[k]]
    /\ \A k \in triggered[s] : InsertFits(table[k], snap[s][k])
    /\ \A k \in Keys : UniqueStatus(table'[k])
    /\ backdated' = backdated \cup
          {k \in Keys : \E i \in Slots : table'[k][i].fired < table[k][i].fired}
    /\ Forget(s)
    /\ UNCHANGED <<now, overlapped>>

\* A unique violation, a deadlock, a lost connection, a dead process.
Rollback(s) ==
    /\ s \in running
    /\ Forget(s)
    /\ UNCHANGED <<now, table, history>>

Next ==
    \/ Tick
    \/ \E s \in Syncers : Load(s) \/ Commit(s) \/ Rollback(s)

Spec == Init /\ [][Next]_vars

-----------------------------------------------------------------------------
Rows(k) == {i \in Slots : table[k][i].status # "absent"}

\* One row per key, so that a key is never firing and resolved at once,
\* unless two transactions worked on the key at the same time.
OneRowPerKey == \A k \in Keys \ overlapped : \A i, j \in Rows(k) : i = j

\* alert_instances is well formed and holds a key at most once, so that the
\* instance row represents the current state (docs/architecture.md), unless
\* two transactions worked on the key at the same time.
TableOK == TypeOK /\ OneRowPerKey

\* A firing notice is enqueued only when an incident enters firing
\* (docs/operations.md:292): two triggered notices of a key have a resolved
\* notice between them, unless two transactions worked on the key at the same
\* time.
AnnouncedOnce == \A k \in Keys \ overlapped : streak[k] <= 1

\* Two triggered notices of a key are at least cooldown_seconds apart,
\* however often the incident reopens in between, unless transactions
\* overlapped or a delayed batch set last_fired_at back.
CooldownRespected == \A k \in Keys \ (overlapped \cup backdated) : gap[k] >= Cooldown

\* A key that has both rows is stuck: no evaluation, of whichever replica and
\* however stale, resolves its firing row or reopens its resolved one, for
\* either update breaks the UNIQUE constraint and rolls the whole plan back.
WedgeIsPermanent ==
    [][\A k \in Keys : Rows(k) = Slots =>
          \A i \in Slots : table'[k][i].status = table[k][i].status]_vars

=============================================================================
