---------------------------- MODULE LogPipeline ----------------------------
(***************************************************************************)
(* The path of a batch of logs from ingest-api through JetStream and the   *)
(* processor into ClickHouse, the alert state and the dead-letter queue:   *)
(*                                                                         *)
(*   internal/stream/nats.go          Publish, Consume, consumeMessage     *)
(*   internal/stream/dlq.go           the dead-letter publisher            *)
(*   internal/processor/consumer.go   handleBatchWithEvaluator             *)
(*   internal/processor/clickhouse.go AlreadyProcessed, WriteBatch         *)
(*                                                                         *)
(* The actors are the clients of ingest-api, the processor replicas that   *)
(* share one durable pull consumer, and three external services.  Each     *)
(* call a processor makes to a service is a step of its own, so replicas   *)
(* interleave between any two calls; every call can fail, with or without  *)
(* having taken effect, and a processor can die between any two calls.     *)
(*                                                                         *)
(* A batch stands for everything with one fingerprint: the handler uses    *)
(* the fingerprint as request id, the publisher as Nats-Msg-Id and the     *)
(* processor as ingest id.  A message <<b, c>> is the c-th time that batch *)
(* b was stored in the stream: JetStream drops a repeated Msg-Id only      *)
(* within its duplicate window.                                            *)
(***************************************************************************)
EXTENDS Naturals

CONSTANTS
    Batches,      \* the batches clients may submit
    Malformed,    \* payloads json.Unmarshal rejects (another publisher's)
    Poison,       \* payloads Validate or normalizeBatch rejects
    Ruled,        \* the batches of services that have active alert rules
    Processors,   \* the replicas of the processor
    MaxDeliver,   \* NATS_MAX_DELIVER
    MaxCopies,    \* bound: how often one batch may be stored in the stream
    LateInserts   \* may an INSERT land after its client saw an error?

ASSUME PipelineAssumption ==
    /\ Malformed \subseteq Batches
    /\ Poison \subseteq Batches
    /\ Ruled \subseteq Batches
    /\ MaxDeliver \in Nat \ {0}
    /\ MaxCopies \in Nat \ {0}
    /\ LateInserts \in BOOLEAN

Msgs == Batches \X (1..MaxCopies)
BatchOf(m) == m[1]
NoMsg == <<>>

Reasons == {"malformed_payload", "invalid_batch", "retry_exhausted"}

\* The next call a processor will make; "down" is a dead process.
Steps == {"fetch", "decode", "check", "rules", "write", "sync", "ack",
          "nak", "dlq", "term", "down"}
Idle == {"fetch", "down"}

VARIABLES
    \* JetStream
    mstate,     \* "none", "ready", "pending", "acked", "termed", "exhausted"
    delivered,  \* how often a message was delivered
    recent,     \* the Msg-Ids inside the duplicate window
    dlq,        \* the <<batch, reason>> pairs published to the DLQ subject
    \* the clients
    accepted,   \* the batches answered 202
    \* ClickHouse and Postgres
    rows,       \* how many times the rows of a batch are in the logs table
    late,       \* INSERTs still running whose caller has given up
    syncs,      \* how many committed SyncAlertState calls a batch caused
    \* the processors
    pc,         \* the next step of a processor
    held,       \* the message it is handling
    count,      \* the delivery count of that delivery
    reason,     \* why it is dead-lettering the message
    \* history
    overlapped, \* the batches two processors have handled at the same time
    abandoned,  \* the batches with an INSERT whose caller gave up
    died        \* the messages a processor died on

streamVars == <<mstate, delivered, recent, dlq>>
storeVars == <<rows, late, syncs>>
procVars == <<pc, held, count, reason>>
history == <<overlapped, abandoned, died>>
vars == <<mstate, delivered, recent, dlq, accepted, rows, late, syncs,
          pc, held, count, reason, overlapped, abandoned, died>>

TypeOK ==
    /\ mstate \in [Msgs -> {"none", "ready", "pending", "acked", "termed", "exhausted"}]
    /\ delivered \in [Msgs -> 0..MaxDeliver]
    /\ recent \subseteq Batches
    /\ dlq \subseteq Batches \X Reasons
    /\ accepted \subseteq Batches
    /\ rows \in [Batches -> Nat]
    /\ late \in [Batches -> Nat]
    /\ syncs \in [Batches -> Nat]
    /\ pc \in [Processors -> Steps]
    /\ held \in [Processors -> Msgs \cup {NoMsg}]
    /\ count \in [Processors -> 0..MaxDeliver]
    /\ reason \in [Processors -> Reasons \cup {"none"}]
    /\ overlapped \subseteq Batches
    /\ abandoned \subseteq Batches
    /\ died \subseteq Msgs

Init ==
    /\ mstate = [m \in Msgs |-> "none"]
    /\ delivered = [m \in Msgs |-> 0]
    /\ recent = {}
    /\ dlq = {}
    /\ accepted = {}
    /\ rows = [b \in Batches |-> 0]
    /\ late = [b \in Batches |-> 0]
    /\ syncs = [b \in Batches |-> 0]
    /\ pc = [p \in Processors |-> "fetch"]
    /\ held = [p \in Processors |-> NoMsg]
    /\ count = [p \in Processors |-> 0]
    /\ reason = [p \in Processors |-> "none"]
    /\ overlapped = {}
    /\ abandoned = {}
    /\ died = {}

-----------------------------------------------------------------------------
(* Plausible slips in the code modelled below.  No action uses them: each  *)
(* can stand in for the definition of the same shape, to show that the     *)
(* properties notice.                                                      *)

\* AlreadyProcessed that never finds a row.
SlipNeverProcessed(b) == FALSE
\* n > maxDeliver - 1 written as n >= maxDeliver - 1.
SlipExhaustedEarly(n) == n + 1 >= MaxDeliver
\* The test with > instead of >=: the last delivery is given back as well.
SlipExhaustedLate(n) == n > MaxDeliver
\* handleBatchWithEvaluator logs a write error and carries on.
SlipIgnoreWriteError(p) ==
    /\ pc' = [pc EXCEPT ![p] = "sync"]
    /\ UNCHANGED reason
\* A consumer without MaxDeliver, and one without AckWait.
SlipUnlimited(m) == "ready"
SlipNeverRedelivered(m) == "pending"
\* ServeHTTP answers 202 although Publish failed.
SlipIgnorePublishError(b) ==
    /\ accepted' = accepted \cup {b}
    /\ UNCHANGED <<streamVars, storeVars, procVars, history>>
\* consumeMessage terminates the message although the DLQ publish failed.
SlipIgnoreDLQError(p) ==
    /\ pc[p] = "dlq"
    /\ pc' = [pc EXCEPT ![p] = "term"]
    /\ UNCHANGED <<streamVars, accepted, storeVars, held, count, reason, history>>

-----------------------------------------------------------------------------
(* Publishing.  Publish returns nil once JetStream acknowledged the event, *)
(* and the handler then answers 202.  A publish that fails before the      *)
(* stream stored anything changes nothing and needs no action.             *)

\* The publisher sends the fingerprint as Nats-Msg-Id, which JetStream
\* remembers for the length of the duplicate window.
Remembered(b) == b \in recent

\* The stream stores a new copy of the batch.
Store(b) ==
    /\ ~Remembered(b)
    /\ \E c \in 1..MaxCopies :
          /\ mstate[<<b, c>>] = "none"
          /\ \A d \in 1..(c - 1) : mstate[<<b, d>>] # "none"
          /\ mstate' = [mstate EXCEPT ![<<b, c>>] = "ready"]
    /\ recent' = recent \cup {b}

\* Stored, acknowledged and answered 202.
PublishAcked(b) ==
    /\ Store(b)
    /\ accepted' = accepted \cup {b}
    /\ UNCHANGED <<delivered, dlq, storeVars, procVars, history>>

\* Stored, but the acknowledgement is lost: the handler answers 503 and the
\* client may submit the batch again.
PublishReplyLost(b) ==
    /\ Store(b)
    /\ UNCHANGED <<delivered, dlq, accepted, storeVars, procVars, history>>

\* Inside the duplicate window JetStream acknowledges without storing.
PublishDuplicate(b) ==
    /\ Remembered(b)
    /\ accepted' = accepted \cup {b}
    /\ UNCHANGED <<streamVars, storeVars, procVars, history>>

\* The duplicate window of a Msg-Id passes.
ForgetMsgId(b) ==
    /\ b \in recent
    /\ recent' = recent \ {b}
    /\ UNCHANGED <<mstate, delivered, dlq, accepted, storeVars, procVars, history>>

-----------------------------------------------------------------------------
(* The durable consumer: explicit acknowledgement, AckWait of 30 seconds,  *)
(* at most MaxDeliver deliveries.                                          *)

\* A message given back is offered again unless its deliveries are used up;
\* then the consumer skips it for good.
Requeue(m) == IF delivered[m] >= MaxDeliver THEN "exhausted" ELSE "ready"

\* AckWait passes without an answer, whether the processor is dead or slow.
AckWaitExpires(m) ==
    /\ mstate[m] = "pending"
    /\ mstate' = [mstate EXCEPT ![m] = Requeue(m)]
    /\ UNCHANGED <<delivered, recent, dlq, accepted, storeVars, procVars, history>>

\* An Ack or a Term settles its message even when AckWait has passed; the
\* first one counts.
Settle(m, how) ==
    mstate' = [mstate EXCEPT ![m] = IF @ \in {"acked", "termed"} THEN @ ELSE how]

-----------------------------------------------------------------------------
(* The processor.                                                          *)

Goto(p, step) ==
    /\ pc' = [pc EXCEPT ![p] = step]
    /\ UNCHANGED reason

\* consumeMessage returns: nil leads back to Fetch, an error ends Consume,
\* Run and, through log.Fatal, the process.
Leave(p, step) ==
    /\ pc' = [pc EXCEPT ![p] = step]
    /\ held' = [held EXCEPT ![p] = NoMsg]
    /\ count' = [count EXCEPT ![p] = 0]
    /\ reason' = [reason EXCEPT ![p] = "none"]

Quarantine(p, why) ==
    /\ pc' = [pc EXCEPT ![p] = "dlq"]
    /\ reason' = [reason EXCEPT ![p] = why]

RetriesExhausted(n) == n >= MaxDeliver

\* The handler returned an error that does not mark a poison batch.
Fail(p) ==
    IF RetriesExhausted(count[p]) THEN Quarantine(p, "retry_exhausted")
                                  ELSE Goto(p, "nak")

Handles(p, b) == pc[p] \notin Idle /\ BatchOf(held[p]) = b

Fetch(p, m) ==
    /\ pc[p] = "fetch"
    /\ mstate[m] = "ready"
    /\ mstate' = [mstate EXCEPT ![m] = "pending"]
    /\ delivered' = [delivered EXCEPT ![m] = @ + 1]
    /\ pc' = [pc EXCEPT ![p] = "decode"]
    /\ held' = [held EXCEPT ![p] = m]
    /\ count' = [count EXCEPT ![p] = delivered[m] + 1]
    /\ overlapped' = IF \E q \in Processors : Handles(q, BatchOf(m))
                       THEN overlapped \cup {BatchOf(m)} ELSE overlapped
    /\ UNCHANGED <<recent, dlq, accepted, storeVars, reason, abandoned, died>>

\* json.Unmarshal comes first, then Validate and normalizeBatch.
Defect(b) == IF b \in Malformed THEN "malformed_payload" ELSE "invalid_batch"

Decode(p) ==
    LET b == BatchOf(held[p]) IN
    /\ pc[p] = "decode"
    /\ \/ b \in Malformed \cup Poison /\ Quarantine(p, Defect(b))
       \/ b \notin Malformed \cup Poison /\ Goto(p, "check")
    /\ UNCHANGED <<streamVars, accepted, storeVars, held, count, history>>

AlreadyProcessed(b) == rows[b] > 0

\* The replay check: a batch with rows is acknowledged without more ado.
CheckProcessed(p) ==
    LET b == BatchOf(held[p]) IN
    /\ pc[p] = "check"
    /\ \/ AlreadyProcessed(b) /\ Goto(p, "ack")
       \/ ~AlreadyProcessed(b) /\ Goto(p, "rules")
       \/ Fail(p)
    /\ UNCHANGED <<streamVars, accepted, storeVars, held, count, history>>

\* loadAlertRules and evaluateAlertRules, either of which may fail.
LoadRules(p) ==
    /\ pc[p] = "rules"
    /\ \/ Goto(p, "write")
       \/ Fail(p)
    /\ UNCHANGED <<streamVars, accepted, storeVars, held, count, history>>

\* WriteBatch returned an error.
WriteError(p) == Fail(p)

\* The server goes on with an INSERT nobody waits for.
LeaveInsert(b) ==
    /\ LateInserts
    /\ late' = [late EXCEPT ![b] = @ + 1]
    /\ abandoned' = abandoned \cup {b}

\* One INSERT.  After an error (a 10s client timeout, a broken connection)
\* the server may still be working on it.
WriteBatch(p) ==
    LET b == BatchOf(held[p]) IN
    /\ pc[p] = "write"
    /\ \/ /\ rows' = [rows EXCEPT ![b] = @ + 1]
          /\ Goto(p, "sync")
          /\ UNCHANGED <<late, abandoned>>
       \/ /\ WriteError(p)
          /\ UNCHANGED rows
          /\ UNCHANGED <<late, abandoned>> \/ LeaveInsert(b)
    /\ UNCHANGED <<streamVars, accepted, syncs, held, count, overlapped, died>>

\* An abandoned INSERT completes or fails inside ClickHouse.
LateInsertEnds(b) ==
    /\ late[b] > 0
    /\ late' = [late EXCEPT ![b] = @ - 1]
    /\ \/ rows' = [rows EXCEPT ![b] = @ + 1]
       \/ UNCHANGED rows
    /\ UNCHANGED <<streamVars, accepted, syncs, procVars, history>>

\* SyncAlertState is one transaction.  Its commit may succeed and the reply
\* be lost.  Without rules the call is skipped.
SyncState(p) ==
    LET b == BatchOf(held[p]) IN
    /\ pc[p] = "sync"
    /\ \/ b \notin Ruled /\ Goto(p, "ack") /\ UNCHANGED syncs
       \/ b \in Ruled /\ Goto(p, "ack") /\ syncs' = [syncs EXCEPT ![b] = @ + 1]
       \/ b \in Ruled /\ Fail(p) /\ UNCHANGED syncs
       \/ b \in Ruled /\ Fail(p) /\ syncs' = [syncs EXCEPT ![b] = @ + 1]
    /\ UNCHANGED <<streamVars, accepted, rows, late, held, count, history>>

\* Ack, Term and NakWithDelay are sent without waiting for the server: the
\* message may be lost, and a client-side error ends the process.
Ack(p) ==
    /\ pc[p] = "ack"
    /\ \/ Settle(held[p], "acked") /\ Leave(p, "fetch")
       \/ UNCHANGED mstate /\ \E next \in Idle : Leave(p, next)
    /\ UNCHANGED <<delivered, recent, dlq, accepted, storeVars, history>>

Nak(p) ==
    /\ pc[p] = "nak"
    /\ \/ /\ mstate[held[p]] = "pending"
          /\ mstate' = [mstate EXCEPT ![held[p]] = Requeue(held[p])]
          /\ Leave(p, "fetch")
       \/ UNCHANGED mstate /\ \E next \in Idle : Leave(p, next)
    /\ UNCHANGED <<delivered, recent, dlq, accepted, storeVars, history>>

\* The DLQ publish waits for JetStream; on an error the process ends, and
\* the event may have been stored all the same.
PublishDLQ(p) ==
    LET entry == <<BatchOf(held[p]), reason[p]>> IN
    /\ pc[p] = "dlq"
    /\ \/ /\ dlq' = dlq \cup {entry}
          /\ pc' = [pc EXCEPT ![p] = "term"]
          /\ UNCHANGED <<held, count, reason, died>>
       \/ /\ dlq' \in {dlq, dlq \cup {entry}}
          /\ died' = died \cup {held[p]}
          /\ Leave(p, "down")
    /\ UNCHANGED <<mstate, delivered, recent, accepted, storeVars, overlapped, abandoned>>

Term(p) ==
    /\ pc[p] = "term"
    /\ \/ Settle(held[p], "termed") /\ Leave(p, "fetch")
       \/ UNCHANGED mstate /\ \E next \in Idle : Leave(p, next)
    /\ UNCHANGED <<delivered, recent, dlq, accepted, storeVars, history>>

\* The process dies while it handles a message, possibly with its INSERT
\* already on the way.  (Dying between two messages loses nothing and looks
\* like a processor that is slow to fetch.)
Crash(p) ==
    /\ pc[p] \notin Idle
    /\ Leave(p, "down")
    /\ died' = died \cup {held[p]}
    /\ \/ UNCHANGED <<late, abandoned>>
       \/ pc[p] = "write" /\ LeaveInsert(BatchOf(held[p]))
    /\ UNCHANGED <<streamVars, accepted, rows, syncs, overlapped>>

\* The supervisor starts the process again.
Restart(p) ==
    /\ pc[p] = "down"
    /\ Leave(p, "fetch")
    /\ UNCHANGED <<streamVars, accepted, storeVars, history>>

-----------------------------------------------------------------------------
HandlerStep(p) ==
    \/ Decode(p)
    \/ CheckProcessed(p)
    \/ LoadRules(p)
    \/ WriteBatch(p)
    \/ SyncState(p)
    \/ Ack(p)
    \/ Nak(p)
    \/ PublishDLQ(p)
    \/ Term(p)

Next ==
    \/ \E b \in Batches : \/ PublishAcked(b)
                          \/ PublishReplyLost(b)
                          \/ PublishDuplicate(b)
                          \/ ForgetMsgId(b)
                          \/ LateInsertEnds(b)
    \/ \E m \in Msgs : AckWaitExpires(m)
    \/ \E p \in Processors : \/ \E m \in Msgs : Fetch(p, m)
                             \/ HandlerStep(p)
                             \/ Crash(p)
                             \/ Restart(p)

\* A live processor keeps calling, a dead one is restarted, AckWait passes.
Fairness ==
    /\ \A p \in Processors : /\ WF_vars(\E m \in Msgs : Fetch(p, m))
                             /\ WF_vars(HandlerStep(p))
                             /\ WF_vars(Restart(p))
    /\ \A m \in Msgs : WF_vars(AckWaitExpires(m))

Spec == Init /\ [][Next]_vars /\ Fairness

-----------------------------------------------------------------------------
(* What the pipeline guarantees.                                           *)

Persisted(b) == rows[b] > 0
Quarantined(b) == \E why \in Reasons : <<b, why>> \in dlq

\* consumeMessage settles a message only after its batch is safe: an
\* acknowledged batch is in ClickHouse, a terminated one is in the
\* dead-letter queue, whatever crashed, failed or overtook in between.
SettledIsAccounted ==
    \A m \in Msgs : /\ mstate[m] = "acked" => Persisted(BatchOf(m))
                    /\ mstate[m] = "termed" => Quarantined(BatchOf(m))

\* The reason recorded with a dead letter is the true one; in particular a
\* batch that could be processed is given up only after the last delivery.
QuarantineIsJustified ==
    \A b \in Batches :
        /\ <<b, "malformed_payload">> \in dlq => b \in Malformed
        /\ <<b, "invalid_batch">> \in dlq => b \in Poison \ Malformed
        /\ <<b, "retry_exhausted">> \in dlq =>
              /\ b \notin Malformed \cup Poison
              /\ \E c \in 1..MaxCopies : delivered[<<b, c>>] = MaxDeliver

\* handleBatchWithEvaluator reconciles alert state only for a batch whose
\* rows were written: no alert refers to logs nobody can query.
AlertsFollowRows ==
    \A b \in Batches : syncs[b] > 0 => Persisted(b)

\* ServeHTTP answers 202 only for a batch the stream holds.
AcceptedIsStored ==
    \A b \in accepted : \E c \in 1..MaxCopies : mstate[<<b, c>>] # "none"

\* AlreadyProcessed keeps redeliveries and repeated submissions from writing
\* the rows of a batch twice, unless two processors handled the batch at the
\* same time or an INSERT of it was abandoned.
WrittenOnce == \A b \in Batches \ (overlapped \cup abandoned) : rows[b] <= 1

\* It also keeps them from reconciling alert state for a batch twice, late
\* INSERTs or not, unless two processors handled it at the same time.
SyncedOnce == \A b \in Batches \ overlapped : syncs[b] <= 1

\* The documented retry path ends in the dead-letter queue.  A message is
\* out of deliveries, out of every processor's hands and neither written nor
\* dead-lettered only when a processor died on it.
LossNeedsDeath ==
    \A m \in Msgs :
        mstate[m] = "exhausted" /\ (\A p \in Processors : held[p] # m)
            => Persisted(BatchOf(m)) \/ Quarantined(BatchOf(m)) \/ m \in died

\* No message is stuck: it is settled, or its MaxDeliver deliveries are
\* spent, although processors crash and acknowledgements get lost.
EveryMessageEnds ==
    \A m \in Msgs :
        mstate[m] = "ready" ~> mstate[m] \in {"acked", "termed", "exhausted"}

\* The ledger of BatchLedger that the state of the pipeline amounts to.
LedgerEntry == [m \in Msgs |->
    CASE mstate[m] = "none" -> "absent"
      [] mstate[m] \in {"ready", "pending"} -> "open"
      [] mstate[m] \in {"acked", "termed"} -> "closed"
      [] mstate[m] = "exhausted" -> "abandoned"]
LedgerStored == {b \in Batches : Persisted(b)}
LedgerQuarantined == {b \in Batches : Quarantined(b)}

Ledger == INSTANCE BatchLedger WITH
    entry <- LedgerEntry, attempts <- delivered,
    stored <- LedgerStored, quarantined <- LedgerQuarantined

\* Every behaviour of the pipeline is a behaviour of the ledger: messages are
\* attempted at most MaxDeliver times, closed only when safe, abandoned only
\* after the last attempt, and never left open for ever.
ImplementsLedger == Ledger!Spec

-----------------------------------------------------------------------------
(* What the documentation says of the pipeline and the code does not do.   *)

\* docs/architecture.md: a batch is not acknowledged before log persistence
\* and state reconciliation complete.
AckedIsReconciled ==
    \A m \in Msgs :
        mstate[m] = "acked" /\ BatchOf(m) \in Ruled => syncs[BatchOf(m)] > 0
=============================================================================
