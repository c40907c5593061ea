-------------------------- MODULE IngestAdmission --------------------------
(***************************************************************************)
(* How ingest-api decides whether to accept a batch: Handler.ServeHTTP     *)
(* with the authenticator on Postgres, the in-memory rate limiter of the   *)
(* process and the backpressure check against the lag of the consumer.     *)
(*                                                                         *)
(* A handler is a goroutine serving one request after the other, each in   *)
(* some instance, a process of ingest-api.  Authorization and every call   *)
(* to JetStream are steps, and so are the two halves of the limiter: it    *)
(* reads the clock before it takes its lock.  Operators revoke keys and   *)
(* the processor drains the queue at any time.  An event sent to the       *)
(* stream may be stored after its handler has given up or died.            *)
(***************************************************************************)
EXTENDS Integers, FiniteSets

CONSTANTS
    Handlers, Instances,
    Keys, Tenants, Services,
    KeyTenant, ServiceTenant,
    KeyService,     \* api_keys.service_id; AnyService is NULL
    Limit,          \* api_keys.rate_limit_per_sec; 0 is unlimited
    Strategy,       \* NATS_BACKPRESSURE_STRATEGY of each process
    HighWatermark,  \* NATS_QUEUE_LAG_HIGH_WATERMARK; 0 switches it off
    StatsFail,      \* can Monitor.Stats fail?
    MaxTime,        \* bound: the clock stops here
    MaxPending,     \* bound: messages waiting in the stream
    MaxLate         \* bound: publishes on their way that nobody waits for

AnyService == "any service"
NoKey == "no key"

ASSUME AdmissionAssumption ==
    /\ IsFiniteSet(Handlers)
    /\ KeyTenant \in [Keys -> Tenants]
    /\ ServiceTenant \in [Services -> Tenants]
    /\ KeyService \in [Keys -> Services \cup {AnyService}]
    /\ Limit \in [Keys -> Nat]
    /\ NoKey \notin Keys
    /\ AnyService \notin Services
    /\ Strategy \in [Instances -> {"off", "delay", "reject"}]
    /\ HighWatermark \in Nat
    /\ StatsFail \in BOOLEAN
    /\ MaxTime \in Nat
    /\ MaxPending \in Nat
    /\ MaxLate \in Nat

Seconds == 0..MaxTime
Steps == {"idle", "authorize", "read_clock", "limit",
          "backpressure", "delayed", "publish"}
Request == [key : Keys \cup {NoKey}, service : Services, instance : Instances]

VARIABLES
    now,        \* the clock, in seconds
    active,     \* the keys with status 'active'
    step, req,  \* what a handler does next, and for which request
    second,     \* the second it read from the clock
    windowStart, count,  \* the limiter of each instance
    pending,    \* NumPending of the processor's consumer
    late,       \* publishes still on their way to the stream, whose handler
                \* gave up on the reply or was killed
    \* history
    allowed,    \* requests let through, per process, key and clock second
    fresh,      \* the handlers whose request arrived with an active key
    admitted,   \* tenant, key and service of the events sent to the stream,
                \* and the key's status when the request arrived
    disordered, \* process and key where a handler came to the limiter with
                \* a second older than the window's
    unchecked   \* has a request gone on to publish without a lag below the
                \* watermark?

limiterVars == <<windowStart, count, allowed, disordered>>
queueVars == <<pending, late, admitted>>
handlerVars == <<step, req, second, fresh>>
vars == <<now, active, step, req, second, windowStart, count,
          pending, late, allowed, fresh, admitted, disordered, unchecked>>

TypeOK ==
    /\ now \in Seconds
    /\ active \subseteq Keys
    /\ step \in [Handlers -> Steps]
    /\ req \in [Handlers -> Request]
    /\ second \in [Handlers -> Seconds]
    /\ windowStart \in [Instances -> [Keys -> Seconds \cup {-1}]]
    /\ count \in [Instances -> [Keys -> Nat]]
    /\ pending \in 0..MaxPending
    /\ late \in 0..MaxLate
    /\ allowed \in [Instances -> [Keys -> [Seconds -> Nat]]]
    /\ fresh \subseteq Handlers
    /\ admitted \subseteq Tenants \X Keys \X Services \X {"active", "revoked"}
    /\ disordered \subseteq Instances \X Keys
    /\ unchecked \in BOOLEAN

NoRequest == [key |-> NoKey, service |-> CHOOSE s \in Services : TRUE,
              instance |-> CHOOSE i \in Instances : TRUE]

Init ==
    /\ now = 0
    /\ active = Keys
    /\ step = [h \in Handlers |-> "idle"]
    /\ req = [h \in Handlers |-> NoRequest]
    /\ second = [h \in Handlers |-> 0]
    /\ windowStart = [i \in Instances |-> [k \in Keys |-> -1]]
    /\ count = [i \in Instances |-> [k \in Keys |-> 0]]
    /\ pending = 0
    /\ late = 0
    /\ allowed = [i \in Instances |-> [k \in Keys |-> [s \in Seconds |-> 0]]]
    /\ fresh = {}
    /\ admitted = {}
    /\ disordered = {}
    /\ unchecked = FALSE

-----------------------------------------------------------------------------
(* Plausible slips in the code modelled below; no action uses them.        *)

\* lookupAuthorizedService without AND tenant_id = $1.
SlipAnyTenant(k, s) == KeyService[k] \in {AnyService, s}
\* window.count > limitPerSec instead of >=.
SlipOneOver(i, k) == count[i][k] > Limit[k]
\* stats.ConsumerPending <= HighWatermark.
SlipAtWatermark(n) == n <= HighWatermark
\* The clock rounded up to the next second instead of truncated.
SlipRoundUp(h) ==
    /\ step[h] = "read_clock"
    /\ \/ Limit[req[h].key] = 0 /\ step' = [step EXCEPT ![h] = "backpressure"] /\ UNCHANGED second
       \/ /\ Limit[req[h].key] > 0
          /\ step' = [step EXCEPT ![h] = "limit"]
          /\ second' = [second EXCEPT ![h] = now + 1]
    /\ UNCHANGED <<now, active, req, fresh, limiterVars, queueVars, unchecked>>

-----------------------------------------------------------------------------
Goto(h, next) ==
    /\ step' = [step EXCEPT ![h] = next]
    /\ UNCHANGED <<req, second, fresh>>

\* The handler writes its answer and is free for the next request.
Answer(h) ==
    /\ step' = [step EXCEPT ![h] = "idle"]
    /\ req' = [req EXCEPT ![h] = NoRequest]
    /\ second' = [second EXCEPT ![h] = 0]
    /\ fresh' = fresh \ {h}

\* A request with a known key that gets past the header, the body and
\* NormalizeAndValidate; any other is answered 400, 401 or 413 and changes
\* nothing.
Receive(h) ==
    /\ step[h] = "idle"
    /\ \E r \in Request : /\ r.key \in Keys
                          /\ req' = [req EXCEPT ![h] = r]
                          /\ fresh' = IF r.key \in active THEN fresh \cup {h} ELSE fresh
    /\ step' = [step EXCEPT ![h] = "authorize"]
    /\ UNCHANGED <<now, active, second, limiterVars, queueVars, unchecked>>

KeyFound(k) == k \in active

ServiceAuthorized(k, s) ==
    /\ ServiceTenant[s] = KeyTenant[k]
    /\ KeyService[k] \in {AnyService, s}

\* PostgresAuthenticator.Authorize: lookupAPIKey, lookupAuthorizedService and
\* touchAPIKey, which writes last_used_at, without a transaction around them.
\* Only what the first reads can change, so the three are a step.
Authorize(h) ==
    /\ step[h] = "authorize"
    /\ \/ /\ KeyFound(req[h].key)
          /\ ServiceAuthorized(req[h].key, req[h].service)
          /\ Goto(h, "read_clock")
       \/ Answer(h)   \* 401, 403, or 503 after an error
    /\ UNCHANGED <<now, active, limiterVars, queueVars, unchecked>>

(* MemoryRateLimiter.Allow *)

ReadClock(h) ==
    /\ step[h] = "read_clock"
    /\ \/ Limit[req[h].key] = 0 /\ Goto(h, "backpressure")
       \/ /\ Limit[req[h].key] > 0
          /\ step' = [step EXCEPT ![h] = "limit"]
          /\ second' = [second EXCEPT ![h] = now]
          /\ UNCHANGED <<req, fresh>>
    /\ UNCHANGED <<now, active, limiterVars, queueVars, unchecked>>

LimitReached(i, k) == count[i][k] >= Limit[k]

\* The part under the lock.  Any other second starts a new window.
Allow(h) ==
    LET i == req[h].instance
        k == req[h].key
        same == windowStart[i][k] = second[h]
    IN
    /\ step[h] = "limit"
    /\ \/ same /\ LimitReached(i, k) /\ Answer(h) /\ UNCHANGED limiterVars   \* 429
       \/ /\ ~same \/ ~LimitReached(i, k)
          /\ windowStart' = [windowStart EXCEPT ![i][k] = second[h]]
          /\ count' = [count EXCEPT ![i][k] = IF same THEN @ + 1 ELSE 1]
          /\ allowed' = [allowed EXCEPT ![i][k][second[h]] = @ + 1]
          /\ disordered' = disordered \cup {e \in {<<i, k>>} : second[h] < windowStart[i][k]}
          /\ step' = [step EXCEPT ![h] = "backpressure"]
          /\ second' = [second EXCEPT ![h] = 0]
          /\ UNCHANGED <<req, fresh>>
    /\ UNCHANGED <<now, active, queueVars, unchecked>>

(* QueueLagBackpressure.Apply *)

BelowWatermark(n) == n < HighWatermark

\* When the statistics cannot be had the request goes on.
Backpressure(h) ==
    LET strategy == Strategy[req[h].instance]
        on == strategy # "off" /\ HighWatermark > 0
    IN
    /\ step[h] = "backpressure"
    /\ \/ /\ ~on \/ StatsFail
          /\ Goto(h, "publish")
          /\ unchecked' = TRUE
       \/ on /\ BelowWatermark(pending) /\ Goto(h, "publish") /\ UNCHANGED unchecked
       \/ /\ on /\ ~BelowWatermark(pending)
          /\ \/ strategy = "reject" /\ Answer(h)   \* 429
             \/ strategy = "delay" /\ Goto(h, "delayed")
          /\ UNCHANGED unchecked
    /\ UNCHANGED <<now, active, limiterVars, queueVars>>

\* The delay passes, and the lag is not looked at again; or the client goes.
DelayEnds(h) ==
    /\ step[h] = "delayed"
    /\ \/ Goto(h, "publish") /\ unchecked' = TRUE
       \/ Answer(h) /\ UNCHANGED unchecked
    /\ UNCHANGED <<now, active, limiterVars, queueVars>>

StatusOnArrival(h) == IF h \in fresh THEN "active" ELSE "revoked"

Event(h) == <<KeyTenant[req[h].key], req[h].key, req[h].service, StatusOnArrival(h)>>

\* PublishMsg stores the event (202); or the context ends before the reply is
\* there, with the event still on its way (503); or JetStream recognises a
\* duplicate, or the event is never sent.
Publish(h) ==
    /\ step[h] = "publish"
    /\ \/ /\ pending < MaxPending
          /\ pending' = pending + 1
          /\ admitted' = admitted \cup {Event(h)}
          /\ UNCHANGED late
       \/ /\ late < MaxLate
          /\ late' = late + 1
          /\ admitted' = admitted \cup {Event(h)}
          /\ UNCHANGED pending
       \/ UNCHANGED queueVars
    /\ Answer(h)
    /\ UNCHANGED <<now, active, limiterVars, unchecked>>

\* An event nobody waits for is stored after all, or never, or is a duplicate.
LateStore ==
    /\ late > 0
    /\ late' = late - 1
    /\ \/ pending < MaxPending /\ pending' = pending + 1
       \/ UNCHANGED pending
    /\ UNCHANGED <<now, active, handlerVars, limiterVars, admitted, unchecked>>

-----------------------------------------------------------------------------
Tick ==
    /\ now < MaxTime
    /\ now' = now + 1
    /\ UNCHANGED <<active, handlerVars, limiterVars, queueVars, unchecked>>

\* An operator disables a key.
Revoke(k) ==
    /\ k \in active
    /\ active' = active \ {k}
    /\ UNCHANGED <<now, handlerVars, limiterVars, queueVars, unchecked>>

\* The processor takes a message off the queue.
Drain ==
    /\ pending > 0
    /\ pending' = pending - 1
    /\ UNCHANGED <<now, active, handlerVars, limiterVars, late, admitted, unchecked>>

\* An instance is restarted; its requests end and its limiter is empty.  Those
\* about to publish may have sent their events.
Restart(i) ==
    /\ \E sent \in SUBSET {h \in Handlers : req[h].instance = i /\ step[h] = "publish"} :
          /\ late + Cardinality(sent) <= MaxLate
          /\ late' = late + Cardinality(sent)
          /\ admitted' = admitted \cup {Event(h) : h \in sent}
    /\ step' = [h \in Handlers |-> IF req[h].instance = i THEN "idle" ELSE step[h]]
    /\ req' = [h \in Handlers |-> IF req[h].instance = i THEN NoRequest ELSE req[h]]
    /\ second' = [h \in Handlers |-> IF req[h].instance = i THEN 0 ELSE second[h]]
    /\ fresh' = {h \in fresh : req[h].instance # i}
    /\ windowStart' = [windowStart EXCEPT ![i] = [k \in Keys |-> -1]]
    /\ count' = [count EXCEPT ![i] = [k \in Keys |-> 0]]
    /\ allowed' = [allowed EXCEPT ![i] = [k \in Keys |-> [s \in Seconds |-> 0]]]
    /\ disordered' = {e \in disordered : e[1] # i}
    /\ UNCHANGED <<now, active, pending, unchecked>>

Next ==
    \/ Tick
    \/ Drain
    \/ LateStore
    \/ \E k \in Keys : Revoke(k)
    \/ \E i \in Instances : Restart(i)
    \/ \E h \in Handlers :
          \/ Receive(h)
          \/ Authorize(h)
          \/ ReadClock(h)
          \/ Allow(h)
          \/ Backpressure(h)
          \/ DelayEnds(h)
          \/ Publish(h)

Spec == Init /\ [][Next]_vars

-----------------------------------------------------------------------------
\* As long as every request found the lag below the watermark, the requests
\* that checked it together overshoot the watermark, but never by as many
\* messages as there are handlers, not counting the publishes that nobody waits
\* for: no check sees those before they are stored.  A delayed request, a monitor
\* that fails and an instance without backpressure void the bound.
QueueBounded ==
    ~unchecked => pending + late <= HighWatermark + Cardinality(Handlers) - 1 + MaxLate

\* What reaches the stream was sent with a key that was active when the
\* request arrived and that covers the service, which belongs to the tenant
\* the event is filed under.
AdmittedIsAuthorized ==
    \A a \in admitted :
        /\ a[4] = "active"
        /\ ServiceTenant[a[3]] = a[1]
        /\ KeyTenant[a[2]] = a[1]
        /\ KeyService[a[2]] \in {AnyService, a[3]}

\* The limiter enforces rate_limit_per_sec: an instance lets at most that many
\* requests of a key through in one second.  Handlers that read the clock and
\* reach the lock in different orders can reset the window, but only once an
\* older second than the window's has come in.
RateRespected ==
    \A i \in Instances, k \in Keys, s \in Seconds :
        Limit[k] > 0 /\ <<i, k>> \notin disordered => allowed[i][k][s] <= Limit[k]
=============================================================================
