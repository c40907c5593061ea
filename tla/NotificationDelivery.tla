------------------------ MODULE NotificationDelivery ------------------------
(***************************************************************************)
(* The notification outbox of internal/alerts/notifications.go: rows of    *)
(* notification_deliveries are claimed in batches under a lease, sent one  *)
(* after the other outside any transaction, and each result is recorded in *)
(* a second transaction that is fenced by status and locked_by.            *)
(*                                                                         *)
(* Every processor runs a delivery worker (RunDeliveryWorker) and, through *)
(* the scheduler, an inline dispatcher (DispatchDueNotifications).  The    *)
(* worker's id is service:host:pid; the inline dispatchers of all replicas *)
(* call themselves "processor-inline".                                     *)
(*                                                                         *)
(* Time is kept as distances from now: wait is available_at - now, age is  *)
(* now - locked_at.  A claim that passes an observedAt of lag time units   *)
(* ago sees rows due and leases expired that much later, and starts its    *)
(* own lease that much earlier.                                            *)
(***************************************************************************)
EXTENDS Integers, FiniteSets

CONSTANTS
    Deliveries,   \* the rows of notification_deliveries
    Workers,      \* delivery workers and inline dispatchers
    WorkerID,     \* the locked_by value a worker writes
    MaxAttempts,  \* the MaxAttempts of a worker's policy
    MaxLag,       \* how stale observedAt may be when a worker claims
    BatchSize,    \* NOTIFICATION_BATCH_SIZE
    Lease,        \* NOTIFICATION_LEASE_DURATION
    Timeout,      \* the longest a worker spends on one row
    MaxDelay,     \* NOTIFICATION_RETRY_MAX
    MaxFaults     \* bound: crashes and database errors

ASSUME DeliveryAssumption ==
    /\ MaxAttempts \in [Workers -> Nat \ {0}]
    /\ MaxLag \in [Workers -> Nat]
    /\ BatchSize \in Nat \ {0}
    /\ Lease \in Nat \ {0}
    /\ Timeout \in Nat
    /\ MaxDelay \in Nat \ {0}
    /\ MaxFaults \in Nat

Ids == {WorkerID[w] : w \in Workers}
NoOne == "no worker"
Nothing == "no delivery"

\* These two are no ids, and some worker lags most (there are finitely many).
ASSUME WorkersAssumption ==
    /\ NoOne \notin Ids /\ NoOne \notin Workers /\ Nothing \notin Deliveries
    /\ \E w \in Workers : \A v \in Workers : MaxLag[v] <= MaxLag[w]

Final == {"sent", "failed"}

\* Distances beyond these bounds are all alike.
Lags == UNION {0..MaxLag[w] : w \in Workers}
Furthest == CHOOSE l \in Lags : \A l2 \in Lags : l2 <= l
MaxAge == Lease + Furthest + 1

VARIABLES
    \* notification_deliveries and notification_delivery_attempts
    status, attemptCount, wait, age, lockedBy, audit,
    \* the workers
    claims,     \* the claimed rows a worker has still to send
    seen,       \* attempt_count as the claim returned it
    current,    \* the row being sent or recorded
    phase,      \* "idle", "batch", "sending" or "recording"
    result,     \* did the provider accept?
    busy,       \* how long the present row has taken
    faults,     \* faults so far
    \* history
    owner,      \* who claimed the row last
    acceptances,\* dispatches the provider confirmed, at most 2
    reclaimed,  \* rows that were claimed again after their lease had expired
    shared      \* rows claimed while a worker of the same id had them in hand

rowVars == <<status, attemptCount, wait, age, lockedBy, audit>>
workerVars == <<claims, seen, current, phase, result, busy>>
vars == <<status, attemptCount, wait, age, lockedBy, audit, claims, seen,
          current, phase, result, busy, faults, owner, acceptances, reclaimed,
          shared>>

TypeOK ==
    /\ status \in [Deliveries -> {"none", "pending", "processing", "retrying"} \cup Final]
    /\ attemptCount \in [Deliveries -> Nat]
    /\ wait \in [Deliveries -> (-Furthest)..MaxDelay]
    /\ age \in [Deliveries -> 0..MaxAge]
    /\ lockedBy \in [Deliveries -> Ids \cup {NoOne}]
    /\ audit \in [Deliveries -> SUBSET (Nat \ {0})]
    /\ claims \in [Workers -> SUBSET Deliveries]
    /\ seen \in [Workers -> [Deliveries -> Nat]]
    /\ current \in [Workers -> Deliveries \cup {Nothing}]
    /\ phase \in [Workers -> {"idle", "batch", "sending", "recording"}]
    /\ result \in [Workers -> BOOLEAN]
    /\ busy \in [Workers -> 0..Timeout]
    /\ faults \in 0..MaxFaults
    /\ owner \in [Deliveries -> Workers \cup {NoOne}]
    /\ acceptances \in [Deliveries -> 0..2]
    /\ reclaimed \subseteq Deliveries
    /\ shared \subseteq Deliveries

Init ==
    /\ status = [d \in Deliveries |-> "none"]
    /\ attemptCount = [d \in Deliveries |-> 0]
    /\ wait = [d \in Deliveries |-> 0]
    /\ age = [d \in Deliveries |-> 0]
    /\ lockedBy = [d \in Deliveries |-> NoOne]
    /\ audit = [d \in Deliveries |-> {}]
    /\ claims = [w \in Workers |-> {}]
    /\ seen = [w \in Workers |-> [d \in Deliveries |-> 0]]
    /\ current = [w \in Workers |-> Nothing]
    /\ phase = [w \in Workers |-> "idle"]
    /\ result = [w \in Workers |-> FALSE]
    /\ busy = [w \in Workers |-> 0]
    /\ faults = 0
    /\ owner = [d \in Deliveries |-> NoOne]
    /\ acceptances = [d \in Deliveries |-> 0]
    /\ reclaimed = {}
    /\ shared = {}

-----------------------------------------------------------------------------
(* Plausible slips in the code modelled below; no action uses them.        *)

\* claimDueDeliveries without the second half of its WHERE clause.
SlipNoRecovery(d, lag) == status[d] \in {"pending", "retrying"} /\ wait[d] <= -lag
\* claimDueDeliveries without AND locked_at < $3.
SlipIgnoreLease(d, lag) ==
    \/ status[d] \in {"pending", "retrying"} /\ wait[d] <= -lag
    \/ status[d] = "processing"
\* The fence without AND locked_by = $10.
SlipFenceByStatus(w, d) == status[d] = "processing"

-----------------------------------------------------------------------------
\* insertNotificationDelivery, inside the transaction of SyncAlertState.
Enqueue(d) ==
    /\ status[d] = "none"
    /\ status' = [status EXCEPT ![d] = "pending"]
    /\ UNCHANGED <<attemptCount, wait, age, lockedBy, audit, workerVars,
                   faults, owner, acceptances, reclaimed, shared>>

Working == {"sending", "recording"}

\* Time passes.  A worker goes from one row of its batch to the next without
\* delay and spends at most Timeout on each.
Tick ==
    /\ \A w \in Workers : /\ phase[w] # "batch"
                          /\ phase[w] \in Working => busy[w] < Timeout
    /\ wait' = [d \in Deliveries |->
                  IF status[d] \in {"pending", "retrying", "processing"} /\ wait[d] > -Furthest
                    THEN wait[d] - 1 ELSE wait[d]]
    /\ age' = [d \in Deliveries |->
                  IF status[d] = "processing" /\ age[d] < MaxAge
                    THEN age[d] + 1 ELSE age[d]]
    /\ busy' = [w \in Workers |->
                  IF phase[w] \in Working THEN busy[w] + 1 ELSE busy[w]]
    /\ UNCHANGED <<status, attemptCount, lockedBy, audit, claims, seen, current,
                   phase, result, faults, owner, acceptances, reclaimed, shared>>

\* The WHERE clause of claimDueDeliveries.
Due(d, lag) ==
    \/ status[d] \in {"pending", "retrying"} /\ wait[d] <= -lag
    \/ status[d] = "processing" /\ age[d] - lag > Lease

\* ORDER BY available_at LIMIT BatchSize
FirstDue(lag) ==
    LET due == {d \in Deliveries : Due(d, lag)} IN
    {S \in SUBSET due :
        /\ S # {}
        /\ Cardinality(S) <= BatchSize
        /\ S = due \/ Cardinality(S) = BatchSize
        /\ \A x \in S, y \in due \ S : wait[x] <= wait[y]}

\* The rows a worker has still to send or to record.
InHand(w, d) == d \in claims[w] \/ current[w] = d

\* claimDueDeliveries: one UPDATE ... RETURNING, committed at once.
MarkClaimed(w, S, lag) ==
    /\ status' = [d \in Deliveries |-> IF d \in S THEN "processing" ELSE status[d]]
    /\ lockedBy' = [d \in Deliveries |-> IF d \in S THEN WorkerID[w] ELSE lockedBy[d]]
    /\ age' = [d \in Deliveries |-> IF d \in S THEN lag ELSE age[d]]
    /\ owner' = [d \in Deliveries |-> IF d \in S THEN w ELSE owner[d]]
    /\ reclaimed' = reclaimed \cup
          {d \in S : status[d] = "processing" /\ age[d] > Lease}
    /\ shared' = shared \cup
          {d \in S : \E v \in Workers \ {w} : WorkerID[v] = WorkerID[w] /\ InHand(v, d)}
    /\ UNCHANGED <<attemptCount, wait, audit>>

Claim(w) ==
    /\ phase[w] = "idle"
    /\ \E lag \in 0..MaxLag[w] : \E S \in FirstDue(lag) :
          /\ MarkClaimed(w, S, lag)
          /\ claims' = [claims EXCEPT ![w] = S]
          /\ seen' = [seen EXCEPT ![w] =
                [d \in Deliveries |-> IF d \in S THEN attemptCount[d] ELSE 0]]
    /\ phase' = [phase EXCEPT ![w] = "batch"]
    /\ UNCHANGED <<current, result, busy, faults, acceptances>>

\* The claim commits and the reply is lost: nobody works on the rows.
ClaimReplyLost(w) ==
    /\ phase[w] = "idle"
    /\ faults < MaxFaults
    /\ faults' = faults + 1
    /\ \E lag \in 0..MaxLag[w] : \E S \in FirstDue(lag) : MarkClaimed(w, S, lag)
    /\ UNCHANGED <<workerVars, acceptances>>

\* The loop of DispatchNotificationBatch takes the next claimed row; it does
\* not look at the lease again.
StartDispatch(w) ==
    /\ phase[w] = "batch"
    /\ \E d \in claims[w] : /\ current' = [current EXCEPT ![w] = d]
                            /\ claims' = [claims EXCEPT ![w] = @ \ {d}]
    /\ phase' = [phase EXCEPT ![w] = "sending"]
    /\ UNCHANGED <<rowVars, seen, result, busy, faults, owner, acceptances, reclaimed, shared>>

\* The provider accepts, or the dispatch fails: refused, unreachable, or
\* timed out (the provider may then have accepted it unnoticed).
Dispatched(w) ==
    /\ phase[w] = "sending"
    /\ \E ok \in BOOLEAN :
          /\ result' = [result EXCEPT ![w] = ok]
          /\ acceptances' = [acceptances EXCEPT ![current[w]] =
                               IF ok /\ @ < 2 THEN @ + 1 ELSE @]
    /\ phase' = [phase EXCEPT ![w] = "recording"]
    /\ UNCHANGED <<rowVars, claims, seen, current, busy, faults, owner, reclaimed, shared>>

\* The worker drops what is left of its batch.
Abandon(w) ==
    /\ claims' = [claims EXCEPT ![w] = {}]
    /\ seen' = [seen EXCEPT ![w] = [d \in Deliveries |-> 0]]
    /\ current' = [current EXCEPT ![w] = Nothing]
    /\ phase' = [phase EXCEPT ![w] = "idle"]
    /\ result' = [result EXCEPT ![w] = FALSE]
    /\ busy' = [busy EXCEPT ![w] = 0]

\* The fence: WHERE id = $1 AND status = 'processing' AND locked_by = $10
HoldsLease(w, d) == status[d] = "processing" /\ lockedBy[d] = WorkerID[w]

GivesUp(w, attempt) == attempt >= MaxAttempts[w]

\* The two statements of recordDeliveryAttempt when the fence lets it pass.
\* The available_at of a sent or failed row is never read again.
WriteAttempt(w, d) ==
    LET attempt == seen[w][d] + 1 IN
    /\ audit' = [audit EXCEPT ![d] = @ \cup {attempt}]
    /\ attemptCount' = [attemptCount EXCEPT ![d] = attempt]
    /\ lockedBy' = [lockedBy EXCEPT ![d] = NoOne]
    /\ age' = [age EXCEPT ![d] = 0]
    /\ \/ /\ result[w]
          /\ status' = [status EXCEPT ![d] = "sent"]
          /\ wait' = [wait EXCEPT ![d] = 0]
       \/ /\ ~result[w] /\ GivesUp(w, attempt)
          /\ status' = [status EXCEPT ![d] = "failed"]
          /\ wait' = [wait EXCEPT ![d] = 0]
       \/ /\ ~result[w] /\ ~GivesUp(w, attempt)
          /\ status' = [status EXCEPT ![d] = "retrying"]
          /\ \E delay \in 1..MaxDelay : wait' = [wait EXCEPT ![d] = delay]

\* recordDeliveryAttempt commits and the loop goes on, or the batch is done.
Record(w) ==
    LET d == current[w] IN
    /\ phase[w] = "recording"
    /\ HoldsLease(w, d)
    /\ WriteAttempt(w, d)
    /\ IF claims[w] = {} THEN Abandon(w)
       ELSE /\ current' = [current EXCEPT ![w] = Nothing]
            /\ phase' = [phase EXCEPT ![w] = "batch"]
            /\ result' = [result EXCEPT ![w] = FALSE]
            /\ seen' = [seen EXCEPT ![w][d] = 0]
            /\ busy' = [busy EXCEPT ![w] = 0]
            /\ UNCHANGED claims
    /\ UNCHANGED <<faults, owner, acceptances, reclaimed, shared>>

\* Slip: the audit row is inserted outside the transaction and stays.
SlipAuditOutsideTx(w) ==
    LET d == current[w] IN
    /\ phase[w] = "recording"
    /\ ~HoldsLease(w, d)
    /\ Abandon(w)
    /\ audit' = [audit EXCEPT ![d] = @ \cup {seen[w][d] + 1}]
    /\ UNCHANGED <<status, attemptCount, wait, age, lockedBy, faults, owner, acceptances, reclaimed, shared>>

\* "lease was lost": the audit row is rolled back with the rest, and the
\* error ends the batch.
LeaseLost(w) ==
    LET d == current[w] IN
    /\ phase[w] = "recording"
    /\ ~HoldsLease(w, d)
    /\ Abandon(w)
    /\ UNCHANGED <<rowVars, faults, owner, acceptances, reclaimed, shared>>

\* A database error while recording, before or after the commit.
RecordFails(w) ==
    LET d == current[w] IN
    /\ phase[w] = "recording"
    /\ faults < MaxFaults
    /\ faults' = faults + 1
    /\ Abandon(w)
    /\ \/ UNCHANGED rowVars
       \/ HoldsLease(w, d) /\ WriteAttempt(w, d)
    /\ UNCHANGED <<owner, acceptances, reclaimed, shared>>

\* The process dies, in the middle of a dispatch perhaps, and starts anew.
Crash(w) ==
    /\ phase[w] # "idle"
    /\ faults < MaxFaults
    /\ faults' = faults + 1
    /\ Abandon(w)
    /\ UNCHANGED <<rowVars, owner, acceptances, reclaimed, shared>>

-----------------------------------------------------------------------------
WorkerStep(w) ==
    \/ StartDispatch(w)
    \/ Dispatched(w)
    \/ Record(w)
    \/ LeaseLost(w)

Next ==
    \/ Tick
    \/ \E d \in Deliveries : Enqueue(d)
    \/ \E w \in Workers : \/ Claim(w)
                          \/ ClaimReplyLost(w)
                          \/ WorkerStep(w)
                          \/ RecordFails(w)
                          \/ Crash(w)

\* Workers poll and finish what they started; the clock moves.
Fairness ==
    /\ WF_vars(Tick)
    /\ \A w \in Workers : WF_vars(Claim(w)) /\ WF_vars(WorkerStep(w))

Spec == Init /\ [][Next]_vars /\ Fairness

-----------------------------------------------------------------------------
\* Who records a result (recordDeliveryAttempt) has the row in hand and the id
\* of its latest claimer, and is that claimer, unless the row was claimed while
\* another worker of the same id, as all inline dispatchers are, had it in hand:
\* the late result of a worker whose lease was taken over is written over the
\* new claim only where the fence cannot tell the two apart.
FencedByLatestClaim ==
    [][\A d \in Deliveries :
          attemptCount'[d] # attemptCount[d] \/ (status'[d] \in Final /\ status[d] \notin Final)
             => \E w \in Workers : /\ current[w] = d
                                   /\ owner[d] \in Workers /\ WorkerID[w] = WorkerID[owner[d]]
                                   /\ w = owner[d] \/ d \in shared]_vars

\* Attempts that are counted are on file, and those on file keep to a policy.
AuditCovers ==
    \A d \in Deliveries :
        /\ 1..attemptCount[d] \subseteq audit[d]
        /\ \A n \in audit[d] : \E w \in Workers : n <= MaxAttempts[w]

\* The attempt counter and the audit table tell the same story: the attempts
\* on file are 1 to attempt_count, without gap or surplus, unless two workers of
\* one id had the row in hand (docs/operations.md:316 makes no exception).
AuditMatchesCount ==
    \A d \in Deliveries \ shared : audit[d] = 1..attemptCount[d]

\* No row is attempted on record more often than the most generous policy of
\* any worker allows, and a failed one used up the attempts of some policy.
AttemptsBounded ==
    \A d \in Deliveries :
        /\ \E w \in Workers : attemptCount[d] <= MaxAttempts[w]
        /\ status[d] = "failed" => \E w \in Workers : attemptCount[d] >= MaxAttempts[w]

\* A row marked sent was accepted by the provider.
SentWasAccepted == \A d \in Deliveries : status[d] = "sent" => acceptances[d] > 0

\* The outbox can be believed through crashes, expired leases, lost replies and
\* ids in common: what the counter counts is in the audit table, and they match
\* unless an id was shared over a row; both keep to the policies of the workers
\* that share the row, and sent means accepted.
OutboxOK == TypeOK /\ AuditCovers /\ AuditMatchesCount /\ AttemptsBounded /\ SentWasAccepted

\* What the provider accepted is not sent again, except for a row whose
\* lease expired before its result was recorded.
DuplicateNeedsExpiry == \A d \in Deliveries : acceptances[d] > 1 => d \in reclaimed

\* Every enqueued notification is sent or failed in the end: claims of dead
\* and slow workers are recovered when their lease expires.
EventuallyFinal == \A d \in Deliveries : status[d] = "pending" ~> status[d] \in Final
=============================================================================
