----------------------- MODULE IngestAdmission_proofs -----------------------
(***************************************************************************)
(* Type correctness of IngestAdmission, and the bound on the queue: the    *)
(* lag check and the publish are not atomic, yet the overshoot is limited  *)
(* by the number of handlers, for every number of handlers and watermark.  *)
(***************************************************************************)
EXTENDS IngestAdmission, FiniteSetTheorems, TLAPS

\* A handler that is past the key lookup has a real key.
KeyKnown ==
    \A h \in Handlers : step[h] # "idle" => req[h].key \in Keys

AdmissionInv == TypeOK /\ KeyKnown

LEMMA NoRequestOK ==
    ASSUME Services # {}, Instances # {}
    PROVE  NoRequest \in Request
BY DEF NoRequest, Request

LEMMA AdmissionInit ==
    ASSUME Services # {}, Instances # {}, Init
    PROVE  AdmissionInv
<1>1. /\ now \in Seconds /\ active \subseteq Keys
      /\ step \in [Handlers -> Steps] /\ second \in [Handlers -> Seconds]
      /\ pending \in 0..MaxPending /\ late \in 0..MaxLate
      /\ fresh \subseteq Handlers /\ disordered \subseteq Instances \X Keys
      /\ admitted \subseteq Tenants \X Keys \X Services \X {"active", "revoked"}
    BY AdmissionAssumption DEF Init, Seconds, Steps
<1>2. req \in [Handlers -> Request]
    BY NoRequestOK DEF Init
<1>3. /\ windowStart \in [Instances -> [Keys -> Seconds \cup {-1}]]
      /\ count \in [Instances -> [Keys -> Nat]]
      /\ allowed \in [Instances -> [Keys -> [Seconds -> Nat]]]
    BY DEF Init
<1>4. unchecked \in BOOLEAN
    BY DEF Init
<1>5. KeyKnown
    BY DEF Init, KeyKnown
<1> QED
    BY <1>1, <1>2, <1>3, <1>4, <1>5 DEF AdmissionInv, TypeOK

\* The parts of the type invariant that a step of a handler touches.
HandlerOK ==
    /\ step \in [Handlers -> Steps]
    /\ req \in [Handlers -> Request]
    /\ second \in [Handlers -> Seconds]
    /\ fresh \subseteq Handlers
    /\ KeyKnown

LimiterOK ==
    /\ windowStart \in [Instances -> [Keys -> Seconds \cup {-1}]]
    /\ count \in [Instances -> [Keys -> Nat]]
    /\ allowed \in [Instances -> [Keys -> [Seconds -> Nat]]]
    /\ disordered \subseteq Instances \X Keys

QueueOK ==
    /\ pending \in 0..MaxPending
    /\ late \in 0..MaxLate
    /\ admitted \subseteq Tenants \X Keys \X Services \X {"active", "revoked"}

LEMMA AdmissionParts ==
    AdmissionInv <=> /\ now \in Seconds /\ active \subseteq Keys /\ unchecked \in BOOLEAN
                     /\ HandlerOK /\ LimiterOK /\ QueueOK
BY DEF AdmissionInv, TypeOK, HandlerOK, LimiterOK, QueueOK

LEMMA AdmissionPartsPrime ==
    AdmissionInv' <=> /\ now' \in Seconds /\ active' \subseteq Keys /\ unchecked' \in BOOLEAN
                      /\ HandlerOK' /\ LimiterOK' /\ QueueOK'
BY DEF AdmissionInv, TypeOK, HandlerOK, LimiterOK, QueueOK

LEMMA AnswerOK ==
    ASSUME Services # {}, Instances # {}, HandlerOK, NEW h \in Handlers, Answer(h)
    PROVE  HandlerOK'
<1>1. NoRequest \in Request /\ 0 \in Seconds /\ "idle" \in Steps
    BY NoRequestOK, AdmissionAssumption DEF Seconds, Steps
<1>2. /\ step' \in [Handlers -> Steps]
      /\ req' \in [Handlers -> Request]
      /\ second' \in [Handlers -> Seconds]
      /\ fresh' \subseteq Handlers
    BY <1>1 DEF HandlerOK, Answer
<1>3. KeyKnown'
    BY DEF HandlerOK, KeyKnown, Answer
<1> QED
    BY <1>2, <1>3 DEF HandlerOK

LEMMA GotoOK ==
    ASSUME HandlerOK, NEW h \in Handlers, req[h].key \in Keys,
           NEW next \in Steps, Goto(h, next)
    PROVE  HandlerOK'
BY DEF HandlerOK, KeyKnown, Goto

\* What a handler sends to the stream once it knows its key.
LEMMA EventOK ==
    ASSUME HandlerOK, NEW h \in Handlers, step[h] = "publish"
    PROVE  Event(h) \in Tenants \X Keys \X Services \X {"active", "revoked"}
<1>1. req[h].key \in Keys /\ req[h].service \in Services
    BY DEF HandlerOK, KeyKnown, Request
<1>2. KeyTenant[req[h].key] \in Tenants
    BY <1>1, AdmissionAssumption
<1> QED
    BY <1>1, <1>2 DEF Event, StatusOnArrival

\* The handlers whose event a restart of instance i leaves on its way.
LEMMA SentFinite ==
    ASSUME NEW sent \in SUBSET Handlers
    PROVE  IsFiniteSet(sent) /\ Cardinality(sent) \in Nat
BY FS_Subset, FS_CardinalityType, AdmissionAssumption

LEMMA AdmissionNext ==
    ASSUME Services # {}, Instances # {}, AdmissionInv, [Next]_vars
    PROVE  AdmissionInv'
<1>1. /\ now \in Seconds /\ active \subseteq Keys /\ unchecked \in BOOLEAN
      /\ HandlerOK /\ LimiterOK /\ QueueOK
    BY AdmissionParts
<1>2. ASSUME UNCHANGED handlerVars PROVE HandlerOK'
    BY <1>1, <1>2 DEF handlerVars, HandlerOK, KeyKnown
<1>3. ASSUME UNCHANGED limiterVars PROVE LimiterOK'
    BY <1>1, <1>3 DEF limiterVars, LimiterOK
<1>4. ASSUME UNCHANGED queueVars PROVE QueueOK'
    BY <1>1, <1>4 DEF queueVars, QueueOK
<1>5. ASSUME NEW h \in Handlers, step[h] \notin {"idle", "lookup_key"}
      PROVE  /\ req[h].key \in Keys /\ req[h].service \in Services
             /\ req[h].instance \in Instances
    BY <1>1, <1>5 DEF HandlerOK, KeyKnown, Request
<1>6. CASE Tick
    BY <1>1, <1>2, <1>3, <1>4, <1>6, AdmissionPartsPrime, AdmissionAssumption DEF Tick, Seconds
<1>7. CASE Drain
    <2>1. QueueOK'
        BY <1>1, <1>7, AdmissionAssumption DEF Drain, QueueOK
    <2> QED
        BY <1>1, <1>2, <1>3, <1>7, <2>1, AdmissionPartsPrime DEF Drain
<1>8. ASSUME NEW k \in Keys, Revoke(k) PROVE AdmissionInv'
    BY <1>1, <1>2, <1>3, <1>4, <1>8, AdmissionPartsPrime DEF Revoke
<1>9. ASSUME NEW i \in Instances, Restart(i) PROVE AdmissionInv'
    <2>1. NoRequest \in Request /\ 0 \in Seconds /\ "idle" \in Steps
        BY NoRequestOK, AdmissionAssumption DEF Seconds, Steps
    <2>2. HandlerOK'
        BY <1>1, <1>9, <2>1 DEF Restart, HandlerOK, KeyKnown
    <2>3. LimiterOK'
        BY <1>1, <1>9 DEF Restart, LimiterOK
    <2>4. QueueOK'
        <3>1. PICK sent \in SUBSET {h \in Handlers : req[h].instance = i /\ step[h] = "publish"} :
                  /\ late + Cardinality(sent) <= MaxLate
                  /\ late' = late + Cardinality(sent)
                  /\ admitted' = admitted \cup {Event(h) : h \in sent}
            BY <1>9 DEF Restart
        <3>2. Cardinality(sent) \in Nat
            BY SentFinite
        <3>3. late' \in 0..MaxLate
            BY <1>1, <3>1, <3>2, AdmissionAssumption DEF QueueOK
        <3>4. admitted' \subseteq Tenants \X Keys \X Services \X {"active", "revoked"}
            BY <1>1, <3>1, EventOK DEF QueueOK
        <3> QED
            BY <1>1, <1>9, <3>3, <3>4 DEF Restart, QueueOK
    <2> QED
        BY <1>1, <1>9, <2>2, <2>3, <2>4, AdmissionPartsPrime DEF Restart
<1>10. ASSUME NEW h \in Handlers, Receive(h) PROVE AdmissionInv'
    <2>1. HandlerOK'
        BY <1>1, <1>10 DEF Receive, HandlerOK, KeyKnown, Steps
    <2> QED
        BY <1>1, <1>3, <1>4, <1>10, <2>1, AdmissionPartsPrime DEF Receive
<1>12. ASSUME NEW h \in Handlers, Authorize(h) PROVE AdmissionInv'
    <2>1. HandlerOK'
        BY <1>1, <1>12, AnswerOK, GotoOK DEF Authorize, KeyFound, Steps
    <2> QED
        BY <1>1, <1>3, <1>4, <1>12, <2>1, AdmissionPartsPrime DEF Authorize
<1>13. ASSUME NEW h \in Handlers, ReadClock(h) PROVE AdmissionInv'
    <2>1. CASE Goto(h, "backpressure")
        BY <1>1, <1>3, <1>4, <1>5, <1>13, <2>1, GotoOK, AdmissionPartsPrime DEF ReadClock, Steps
    <2>2. CASE ~Goto(h, "backpressure")
        <3>1. HandlerOK'
            BY <1>1, <1>5, <1>13, <2>2 DEF ReadClock, HandlerOK, KeyKnown, Steps
        <3> QED
            BY <1>1, <1>3, <1>4, <1>13, <3>1, AdmissionPartsPrime DEF ReadClock
    <2> QED
        BY <2>1, <2>2
<1>14. ASSUME NEW h \in Handlers, Allow(h) PROVE AdmissionInv'
    <2>1. CASE Answer(h) /\ UNCHANGED limiterVars
        BY <1>1, <1>3, <1>4, <1>14, <2>1, AnswerOK, AdmissionPartsPrime DEF Allow
    <2>2. CASE ~(Answer(h) /\ UNCHANGED limiterVars)
        <3>1. /\ req[h].instance \in Instances /\ req[h].key \in Keys /\ second[h] \in Seconds
              /\ 0 \in Seconds
            BY <1>1, <1>5, <1>14, AdmissionAssumption DEF Allow, HandlerOK, Seconds
        <3>2. HandlerOK'
            BY <1>1, <1>14, <2>2, <3>1 DEF Allow, HandlerOK, KeyKnown, Steps
        <3>3. LimiterOK'
            <4> DEFINE i == req[h].instance
                       k == req[h].key
                       s == second[h]
            <4>1. /\ windowStart \in [Instances -> [Keys -> Seconds \cup {-1}]]
                  /\ count \in [Instances -> [Keys -> Nat]]
                  /\ allowed \in [Instances -> [Keys -> [Seconds -> Nat]]]
                BY <1>1 DEF LimiterOK
            <4>2. /\ windowStart' = [windowStart EXCEPT ![i][k] = s]
                  /\ \E n \in {1, count[i][k] + 1} : count' = [count EXCEPT ![i][k] = n]
                  /\ allowed' = [allowed EXCEPT ![i][k][s] = allowed[i][k][s] + 1]
                BY <1>14, <2>2, <3>1, <4>1 DEF Allow
            <4>3. i \in Instances /\ k \in Keys /\ s \in Seconds
                BY <3>1
            <4>4. count[i][k] + 1 \in Nat /\ allowed[i][k][s] + 1 \in Nat
                BY <4>1, <4>3
            <4> HIDE DEF i, k, s
            <4>5. windowStart' \in [Instances -> [Keys -> Seconds \cup {-1}]]
                BY <4>1, <4>2, <4>3
            <4>6. count' \in [Instances -> [Keys -> Nat]]
                BY <4>1, <4>2, <4>3, <4>4
            <4>7. allowed' \in [Instances -> [Keys -> [Seconds -> Nat]]]
                BY <4>1, <4>2, <4>3, <4>4
            <4>8. disordered' \subseteq Instances \X Keys
                BY <1>1, <1>14, <2>2, <3>1 DEF Allow, LimiterOK
            <4> QED
                BY <4>5, <4>6, <4>7, <4>8 DEF LimiterOK
        <3> QED
            BY <1>1, <1>4, <1>14, <3>2, <3>3, AdmissionPartsPrime DEF Allow
    <2> QED
        BY <2>1, <2>2
<1>15. ASSUME NEW h \in Handlers, Backpressure(h) PROVE AdmissionInv'
    <2>1. HandlerOK'
        BY <1>1, <1>5, <1>15, AnswerOK, GotoOK DEF Backpressure, Steps
    <2> QED
        BY <1>1, <1>3, <1>4, <1>15, <2>1, AdmissionPartsPrime DEF Backpressure
<1>16. ASSUME NEW h \in Handlers, DelayEnds(h) PROVE AdmissionInv'
    <2>1. HandlerOK'
        BY <1>1, <1>5, <1>16, AnswerOK, GotoOK DEF DelayEnds, Steps
    <2> QED
        BY <1>1, <1>3, <1>4, <1>16, <2>1, AdmissionPartsPrime DEF DelayEnds
<1>17. ASSUME NEW h \in Handlers, Publish(h) PROVE AdmissionInv'
    <2>1. HandlerOK'
        BY <1>1, <1>17, AnswerOK DEF Publish
    <2>2. Event(h) \in Tenants \X Keys \X Services \X {"active", "revoked"}
        BY <1>1, <1>17, EventOK DEF Publish
    <2>3. QueueOK'
        BY <1>1, <1>17, <2>2, AdmissionAssumption DEF Publish, queueVars, QueueOK
    <2> QED
        BY <1>1, <1>3, <1>17, <2>1, <2>3, AdmissionPartsPrime DEF Publish
<1>18. CASE LateStore
    <2>1. QueueOK'
        BY <1>1, <1>18, AdmissionAssumption DEF LateStore, QueueOK
    <2> QED
        BY <1>1, <1>2, <1>3, <1>18, <2>1, AdmissionPartsPrime DEF LateStore
<1>19. CASE UNCHANGED vars
    BY <1>1, <1>2, <1>3, <1>4, <1>19, AdmissionPartsPrime
       DEF vars, handlerVars, limiterVars, queueVars
<1> QED
    BY <1>6, <1>7, <1>8, <1>9, <1>10, <1>12, <1>13, <1>14, <1>15, <1>16, <1>17, <1>18, <1>19
       DEF Next

\* Every reachable state of the admission path is well typed.
THEOREM AdmissionTypeCorrect ==
    ASSUME Services # {}, Instances # {}
    PROVE  Spec => []TypeOK
<1>1. Init => AdmissionInv
    BY AdmissionInit
<1>2. AdmissionInv /\ [Next]_vars => AdmissionInv'
    BY AdmissionNext
<1>3. AdmissionInv => TypeOK
    BY DEF AdmissionInv
<1> QED
    BY <1>1, <1>2, <1>3, PTL DEF Spec

-----------------------------------------------------------------------------
(* The queue.  A handler that has passed the lag check holds a promise of  *)
(* one message; what is pending, what is promised and what is on its way   *)
(* with nobody waiting for it are bounded together, until a request goes   *)
(* on without a lag below the watermark.                                   *)

Passed == {h \in Handlers : step[h] = "publish"}

QueueInv ==
    /\ AdmissionInv
    /\ ~unchecked =>
          pending + Cardinality(Passed) + late <=
              HighWatermark + Cardinality(Handlers) - 1 + MaxLate

LEMMA PassedFacts ==
    /\ IsFiniteSet(Passed) /\ Cardinality(Passed) \in Nat
    /\ Cardinality(Handlers) \in Nat
    /\ Cardinality(Passed) <= Cardinality(Handlers)
<1>1. Passed \subseteq Handlers
    BY DEF Passed
<1> QED
    BY <1>1, FS_Subset, FS_CardinalityType, AdmissionAssumption

LEMMA PassedFactsPrime ==
    /\ IsFiniteSet(Passed') /\ Cardinality(Passed') \in Nat
    /\ Cardinality(Passed') <= Cardinality(Handlers)
<1>1. Passed' \subseteq Handlers
    BY DEF Passed
<1> QED
    BY <1>1, FS_Subset, FS_CardinalityType, AdmissionAssumption

\* Handlers that leave the publish step only lower the promise.
LEMMA PassedShrinks ==
    ASSUME Passed' \subseteq Passed
    PROVE  Cardinality(Passed') <= Cardinality(Passed)
BY PassedFacts, FS_Subset

\* The arithmetic of the bound: p and q are what is pending before and after a
\* step, x and y what is promised, l and m what is on its way; what d promises
\* become is pending or on its way.
LEMMA Slack ==
    ASSUME NEW p \in Int, NEW x \in Int, NEW l \in Int, NEW b \in Int,
           NEW q \in Int, NEW y \in Int, NEW m \in Int, NEW d \in Int,
           p + x + l <= b, (q - p) + (m - l) <= d, y <= x - d
    PROVE  q + y + m <= b
OBVIOUS

LEMMA QueueInit ==
    ASSUME Services # {}, Instances # {}, Handlers # {}, Init
    PROVE  QueueInv
<1>1. AdmissionInv
    BY AdmissionInit
<1>2. Passed = {}
    BY DEF Init, Passed
<1>3. Cardinality(Passed) = 0
    BY <1>2, FS_EmptySet
<1>4. Cardinality(Handlers) > 0
    BY FS_EmptySet, PassedFacts, AdmissionAssumption
<1> QED
    BY <1>1, <1>3, <1>4, PassedFacts, AdmissionAssumption DEF Init, QueueInv

LEMMA QueueNext ==
    ASSUME Services # {}, Instances # {}, QueueInv, [Next]_vars
    PROVE  QueueInv'
<1>1. AdmissionInv /\ AdmissionInv'
    BY AdmissionNext DEF QueueInv
<1>2. step \in [Handlers -> Steps] /\ step' \in [Handlers -> Steps]
    BY <1>1 DEF AdmissionInv, TypeOK
<1>n. /\ pending \in Nat /\ pending' \in Nat /\ HighWatermark \in Nat
      /\ late \in Nat /\ late' \in Nat /\ MaxLate \in Nat /\ late' <= MaxLate
    BY <1>1, AdmissionAssumption DEF AdmissionInv, TypeOK
<1>3. CASE unchecked'
    BY <1>1, <1>3 DEF QueueInv
<1>c. /\ Cardinality(Passed) \in Nat /\ Cardinality(Passed') \in Nat
      /\ HighWatermark + Cardinality(Handlers) - 1 + MaxLate \in Int
    BY <1>n, PassedFacts, PassedFactsPrime
<1>s. ASSUME NEW d \in Int, (pending' - pending) + (late' - late) <= d,
             Cardinality(Passed') <= Cardinality(Passed) - d, UNCHANGED unchecked
      PROVE  QueueInv'
    <2> SUFFICES ASSUME ~unchecked'
                 PROVE  pending' + Cardinality(Passed') + late' <=
                            HighWatermark + Cardinality(Handlers) - 1 + MaxLate
        BY <1>1 DEF QueueInv
    <2> DEFINE b == HighWatermark + Cardinality(Handlers) - 1 + MaxLate
               p == pending
               x == Cardinality(Passed)
               l == late
               q == pending'
               y == Cardinality(Passed')
               m == late'
    <2>1. p + x + l <= b
        BY <1>s DEF QueueInv
    <2>2. /\ p \in Int /\ q \in Int /\ l \in Int /\ m \in Int /\ b \in Int
          /\ x \in Int /\ y \in Int
        BY <1>n, <1>c
    <2>3. d \in Int /\ (q - p) + (m - l) <= d /\ y <= x - d
        BY <1>s
    <2> HIDE DEF b, p, x, l, q, y, m
    <2>4. q + y + m <= b
        BY <2>1, <2>2, <2>3, Slack
    <2> QED
        BY <2>4 DEF b, q, y, m
<1>4. ASSUME Passed' \subseteq Passed, (pending' - pending) + (late' - late) <= 0, UNCHANGED unchecked
      PROVE  QueueInv'
    <2>1. Cardinality(Passed') <= Cardinality(Passed)
        BY <1>4, PassedShrinks
    <2>2. Cardinality(Passed') <= Cardinality(Passed) - 0
        BY <1>c, <2>1
    <2> QED
        BY <1>s, <1>4, <2>2
<1>5. ASSUME UNCHANGED <<step, pending, late, unchecked>> PROVE QueueInv'
    <2>1. Passed' = Passed
        BY <1>5 DEF Passed
    <2> QED
        BY <1>n, <1>4, <1>5, <2>1
<1>6. ASSUME NEW h \in Handlers, NEW next \in Steps \ {"publish"},
             step' = [step EXCEPT ![h] = next], UNCHANGED <<pending, late, unchecked>>
      PROVE  QueueInv'
    <2>1. Passed' \subseteq Passed
        BY <1>2, <1>6 DEF Passed
    <2> QED
        BY <1>n, <1>4, <1>6, <2>1
<1>7. CASE Tick \/ (\E k \in Keys : Revoke(k)) \/ UNCHANGED vars
    BY <1>5, <1>7 DEF Tick, Revoke, vars, handlerVars, queueVars
<1>8. CASE Drain \/ LateStore
    <2>1. Passed' = Passed /\ UNCHANGED unchecked
        BY <1>8 DEF Drain, LateStore, handlerVars, Passed
    <2>2. (pending' - pending) + (late' - late) <= 0
        <3>1. CASE pending' = pending - 1 /\ late' = late
            BY <1>n, <3>1
        <3>2. CASE pending' = pending + 1 /\ late' = late - 1
            BY <1>n, <3>2
        <3>3. CASE pending' = pending /\ late' = late - 1
            BY <1>n, <3>3
        <3> QED
            BY <1>8, <3>1, <3>2, <3>3 DEF Drain, LateStore
    <2> QED
        BY <1>4, <2>1, <2>2
<1>9. ASSUME NEW i \in Instances, Restart(i) PROVE QueueInv'
    <2>1. PICK sent \in SUBSET {h \in Handlers : req[h].instance = i /\ step[h] = "publish"} :
              late' = late + Cardinality(sent)
        BY <1>9 DEF Restart
    <2>2. /\ Passed' \subseteq Passed /\ sent \subseteq Passed /\ sent \cap Passed' = {}
          /\ UNCHANGED <<pending, unchecked>>
        BY <1>2, <1>9 DEF Restart, Passed
    <2>3. sent \cup Passed' \subseteq Passed
        BY <2>2
    <2>4. Cardinality(sent \cup Passed') <= Cardinality(Passed)
        BY <2>3, PassedFacts, FS_Subset
    <2>5. Cardinality(sent) \in Nat /\ IsFiniteSet(sent)
        BY SentFinite
    <2>6. Cardinality(sent \cup Passed') = Cardinality(sent) + Cardinality(Passed')
        BY <2>2, <2>5, PassedFactsPrime, FS_Union, FS_EmptySet
    <2>7. Cardinality(Passed') <= Cardinality(Passed) - Cardinality(sent)
        BY <1>c, <2>4, <2>5, <2>6
    <2>8. (pending' - pending) + (late' - late) <= Cardinality(sent)
        BY <1>n, <2>1, <2>2, <2>5
    <2> QED
        BY <1>s, <2>2, <2>5, <2>7, <2>8
<1>10. ASSUME NEW h \in Handlers,
              Receive(h) \/ Authorize(h) \/ ReadClock(h) \/ Allow(h)
       PROVE  QueueInv'
    BY <1>6, <1>10
       DEF Receive, Authorize, ReadClock, Allow, Goto, Answer, queueVars, Steps
<1>11. ASSUME NEW h \in Handlers, DelayEnds(h) PROVE QueueInv'
    <2>1. CASE Answer(h) /\ UNCHANGED unchecked
        BY <1>6, <1>11, <2>1 DEF DelayEnds, Answer, queueVars, Steps
    <2> QED
        BY <1>3, <1>11, <2>1 DEF DelayEnds
<1>12. ASSUME NEW h \in Handlers, Backpressure(h) PROVE QueueInv'
    <2>1. CASE BelowWatermark(pending) /\ Goto(h, "publish") /\ UNCHANGED unchecked
        <3>1. pending < HighWatermark /\ pending' = pending /\ late' = late
            BY <1>12, <2>1 DEF Backpressure, BelowWatermark, queueVars
        <3> QED
            BY <1>1, <1>n, <2>1, <3>1, PassedFacts, PassedFactsPrime DEF QueueInv
    <2>2. CASE (Answer(h) \/ Goto(h, "delayed")) /\ UNCHANGED unchecked
        BY <1>6, <1>12, <2>2 DEF Backpressure, Answer, Goto, queueVars, Steps
    <2> QED
        BY <1>3, <1>12, <2>1, <2>2 DEF Backpressure
<1>13. ASSUME NEW h \in Handlers, Publish(h) PROVE QueueInv'
    <2>1. h \in Passed /\ Passed' = Passed \ {h} /\ UNCHANGED unchecked
        BY <1>2, <1>13 DEF Publish, Answer, Passed
    <2>2. Cardinality(Passed') = Cardinality(Passed) - 1
        BY <2>1, PassedFacts, FS_RemoveElement
    <2>3. (pending' - pending) + (late' - late) <= 1
        <3>1. CASE pending' = pending + 1 /\ late' = late
            BY <1>n, <3>1
        <3>2. CASE pending' = pending /\ late' = late + 1
            BY <1>n, <3>2
        <3>3. CASE pending' = pending /\ late' = late
            BY <1>n, <3>3
        <3> QED
            BY <1>13, <3>1, <3>2, <3>3 DEF Publish, queueVars
    <2>4. Cardinality(Passed') <= Cardinality(Passed) - 1
        BY <1>c, <2>2
    <2> QED
        BY <1>s, <2>1, <2>3, <2>4
<1> QED
    BY <1>7, <1>8, <1>9, <1>10, <1>11, <1>12, <1>13 DEF Next

\* While every request passes backpressure with a lag below the watermark,
\* the lag of the consumer never exceeds the watermark by as many messages as
\* there are handlers, not counting the publishes nobody waits for, although the
\* lag is checked and the event published in separate steps.
THEOREM QueueBoundedSafe ==
    ASSUME Services # {}, Instances # {}, Handlers # {}
    PROVE  Spec => []QueueBounded
<1>1. Init => QueueInv
    BY QueueInit
<1>2. QueueInv /\ [Next]_vars => QueueInv'
    BY QueueNext
<1>3. QueueInv => QueueBounded
    BY PassedFacts, AdmissionAssumption DEF QueueInv, QueueBounded, AdmissionInv, TypeOK
<1> QED
    BY <1>1, <1>2, <1>3, PTL DEF Spec

-----------------------------------------------------------------------------
(* Authorization.  The three statements of Authorize run outside any       *)
(* transaction; that is harmless because a key is never activated again:   *)
(* one that the lookup still finds active was active on arrival.           *)

FreshOK ==
    \A h \in Handlers :
        \/ step[h] = "idle"
        \/ step[h] = "authorize" /\ req[h].key \notin active
        \/ h \in fresh

ServiceOK ==
    \A h \in Handlers :
        step[h] \notin {"idle", "authorize"} =>
            ServiceAuthorized(req[h].key, req[h].service)

AuthInv == AdmissionInv /\ FreshOK /\ ServiceOK /\ AdmittedIsAuthorized

Authorized(a) ==
    /\ a[4] = "active" /\ ServiceTenant[a[3]] = a[1]
    /\ KeyTenant[a[2]] = a[1] /\ KeyService[a[2]] \in {AnyService, a[3]}

LEMMA SentEventAuthorized ==
    ASSUME NEW h \in fresh, ServiceAuthorized(req[h].key, req[h].service)
    PROVE  Authorized(Event(h))
BY DEF Authorized, Event, StatusOnArrival, ServiceAuthorized

LEMMA AuthNext ==
    ASSUME Services # {}, Instances # {}, AuthInv, [Next]_vars
    PROVE  AuthInv'
<1>1. AdmissionInv /\ AdmissionInv'
    BY AdmissionNext DEF AuthInv
<1>2. /\ step \in [Handlers -> Steps] /\ req \in [Handlers -> Request]
      /\ fresh \subseteq Handlers /\ active \subseteq Keys
      /\ FreshOK /\ ServiceOK /\ AdmittedIsAuthorized
    BY <1>1 DEF AuthInv, AdmissionInv, TypeOK
<1>3. ASSUME UNCHANGED handlerVars, active' \subseteq active PROVE FreshOK' /\ ServiceOK'
    BY <1>2, <1>3 DEF handlerVars, FreshOK, ServiceOK, ServiceAuthorized
<1>4. ASSUME UNCHANGED admitted PROVE AdmittedIsAuthorized'
    BY <1>2, <1>4 DEF AdmittedIsAuthorized
<1>5. ASSUME NEW h \in Handlers, Answer(h), UNCHANGED active PROVE FreshOK' /\ ServiceOK'
    BY <1>2, <1>5 DEF Answer, FreshOK, ServiceOK, ServiceAuthorized
<1>6. ASSUME NEW h \in Handlers, NEW next, Goto(h, next), UNCHANGED active,
             h \in fresh, ServiceAuthorized(req[h].key, req[h].service)
      PROVE  FreshOK' /\ ServiceOK'
    BY <1>2, <1>6 DEF Goto, FreshOK, ServiceOK, ServiceAuthorized
<1>7. CASE Tick \/ Drain \/ LateStore \/ (\E k \in Keys : Revoke(k)) \/ UNCHANGED vars
    BY <1>1, <1>3, <1>4, <1>7
       DEF AuthInv, Tick, Drain, LateStore, Revoke, vars, handlerVars, queueVars
<1>8. ASSUME NEW i \in Instances, Restart(i) PROVE AuthInv'
    <2>1. FreshOK' /\ ServiceOK'
        BY <1>2, <1>8 DEF Restart, FreshOK, ServiceOK, ServiceAuthorized
    <2>2. AdmittedIsAuthorized'
        <3>1. PICK sent \in SUBSET {h \in Handlers : req[h].instance = i /\ step[h] = "publish"} :
                  admitted' = admitted \cup {Event(h) : h \in sent}
            BY <1>8 DEF Restart
        <3>2. \A h \in sent : h \in fresh /\ ServiceAuthorized(req[h].key, req[h].service)
            BY <1>2 DEF FreshOK, ServiceOK
        <3> QED
            BY <1>2, <3>1, <3>2, SentEventAuthorized DEF AdmittedIsAuthorized, Authorized
    <2> QED
        BY <1>1, <1>8, <2>1, <2>2 DEF AuthInv
<1>9. ASSUME NEW h \in Handlers, Receive(h) PROVE AuthInv'
    <2>1. FreshOK' /\ ServiceOK'
        BY <1>2, <1>9 DEF Receive, FreshOK, ServiceOK, ServiceAuthorized
    <2> QED
        BY <1>1, <1>4, <1>9, <2>1 DEF AuthInv, Receive, queueVars
<1>10. ASSUME NEW h \in Handlers, Authorize(h) PROVE AuthInv'
    <2>1. CASE /\ KeyFound(req[h].key) /\ ServiceAuthorized(req[h].key, req[h].service)
               /\ Goto(h, "read_clock")
        <3>1. h \in fresh
            BY <1>2, <1>10, <2>1 DEF Authorize, KeyFound, FreshOK
        <3>2. FreshOK' /\ ServiceOK'
            BY <1>2, <1>10, <2>1, <3>1
               DEF Authorize, Goto, FreshOK, ServiceOK, ServiceAuthorized
        <3> QED
            BY <1>1, <1>4, <1>10, <3>2 DEF AuthInv, Authorize, queueVars
    <2> QED
        BY <1>1, <1>4, <1>5, <1>10, <2>1 DEF AuthInv, Authorize, queueVars
<1>12. ASSUME NEW h \in Handlers,
              step[h] \notin {"idle", "authorize"}
       PROVE  h \in fresh /\ ServiceAuthorized(req[h].key, req[h].service)
    BY <1>2, <1>12 DEF FreshOK, ServiceOK
<1>13. ASSUME NEW h \in Handlers, ReadClock(h) \/ Allow(h) PROVE AuthInv'
    <2>1. CASE Answer(h)
        BY <1>1, <1>4, <1>5, <1>13, <2>1 DEF AuthInv, ReadClock, Allow, queueVars
    <2>2. CASE ~Answer(h)
        <3>1. /\ \E next \in Steps : step' = [step EXCEPT ![h] = next]
              /\ UNCHANGED <<req, fresh, active>>
            BY <1>13, <2>2 DEF ReadClock, Allow, Goto, Steps
        <3>2. h \in fresh /\ ServiceAuthorized(req[h].key, req[h].service)
            BY <1>12, <1>13 DEF ReadClock, Allow
        <3>3. FreshOK' /\ ServiceOK'
            BY <1>2, <3>1, <3>2 DEF FreshOK, ServiceOK, ServiceAuthorized
        <3> QED
            BY <1>1, <1>4, <1>13, <3>3 DEF AuthInv, ReadClock, Allow, queueVars
    <2> QED
        BY <2>1, <2>2
<1>14. ASSUME NEW h \in Handlers, Backpressure(h) \/ DelayEnds(h) PROVE AuthInv'
    <2>1. h \in fresh /\ ServiceAuthorized(req[h].key, req[h].service)
        BY <1>12, <1>14 DEF Backpressure, DelayEnds
    <2> QED
        BY <1>1, <1>4, <1>5, <1>6, <1>14, <2>1 DEF AuthInv, Backpressure, DelayEnds, queueVars
<1>15. ASSUME NEW h \in Handlers, Publish(h) PROVE AuthInv'
    <2>1. h \in fresh /\ ServiceAuthorized(req[h].key, req[h].service)
        BY <1>12, <1>15 DEF Publish
    <2>2. AdmittedIsAuthorized'
        BY <1>2, <1>4, <1>15, <2>1, SentEventAuthorized
           DEF Publish, queueVars, AdmittedIsAuthorized, Authorized
    <2> QED
        BY <1>1, <1>5, <1>15, <2>2 DEF AuthInv, Publish
<1> QED
    BY <1>7, <1>8, <1>9, <1>10, <1>13, <1>14, <1>15 DEF Next

\* Whatever reaches the stream was sent with a key that was active when the
\* request arrived, that covers the service, and whose tenant owns it.
THEOREM AuthorizationSafe ==
    ASSUME Services # {}, Instances # {}
    PROVE  Spec => []AdmittedIsAuthorized
<1>1. Init => AuthInv
    BY AdmissionInit DEF Init, AuthInv, FreshOK, ServiceOK, AdmittedIsAuthorized
<1>2. AuthInv /\ [Next]_vars => AuthInv'
    BY AuthNext
<1>3. AuthInv => AdmittedIsAuthorized
    BY DEF AuthInv
<1> QED
    BY <1>1, <1>2, <1>3, PTL DEF Spec

-----------------------------------------------------------------------------
(* The rate limit.  While seconds come in order, the counter of the window *)
(* is what was let through in its second, and later seconds are untouched. *)

RateOK(i, k) ==
    /\ \A s \in Seconds : s > windowStart[i][k] => allowed[i][k][s] = 0
    /\ windowStart[i][k] \in Seconds => allowed[i][k][windowStart[i][k]] = count[i][k]
    /\ \A s \in Seconds : allowed[i][k][s] <= Limit[k]

RateInv ==
    /\ AdmissionInv
    /\ \A i \in Instances, k \in Keys :
          Limit[k] > 0 /\ <<i, k>> \notin disordered => RateOK(i, k)

LEMMA RateNext ==
    ASSUME Services # {}, Instances # {}, RateInv, [Next]_vars
    PROVE  RateInv'
<1>1. AdmissionInv /\ AdmissionInv'
    BY AdmissionNext DEF RateInv
<1>2. /\ windowStart \in [Instances -> [Keys -> Seconds \cup {-1}]]
      /\ count \in [Instances -> [Keys -> Nat]]
      /\ allowed \in [Instances -> [Keys -> [Seconds -> Nat]]]
      /\ Limit \in [Keys -> Nat] /\ Seconds \subseteq Nat
    BY <1>1, AdmissionAssumption DEF AdmissionInv, TypeOK, Seconds
<1>3. ASSUME UNCHANGED limiterVars PROVE RateInv'
    BY <1>1, <1>3 DEF RateInv, RateOK, limiterVars
<1>4. ASSUME NEW j \in Instances, Restart(j) PROVE RateInv'
    <2>1. ASSUME NEW i \in Instances, NEW k \in Keys, Limit[k] > 0, <<i, k>> \notin disordered'
          PROVE  RateOK(i, k)'
        <3>1. CASE i = j
            BY <1>2, <1>4, <2>1, <3>1 DEF Restart, RateOK
        <3>2. CASE i # j
            BY <1>2, <1>4, <2>1, <3>2 DEF Restart, RateOK, RateInv
        <3> QED
            BY <3>1, <3>2
    <2> QED
        BY <1>1, <2>1 DEF RateInv
<1>5. ASSUME NEW h \in Handlers, Allow(h) PROVE RateInv'
    <2>1. CASE UNCHANGED limiterVars
        BY <1>3, <2>1
    <2>2. CASE ~UNCHANGED limiterVars
        <3> DEFINE i == req[h].instance
                   k == req[h].key
                   t == second[h]
        <3>1. i \in Instances /\ k \in Keys /\ t \in Seconds
            BY <1>1, <1>5, AdmissionAssumption
               DEF AdmissionInv, TypeOK, KeyKnown, Request, Allow
        <3>2. /\ t # windowStart[i][k] \/ count[i][k] < Limit[k]
              /\ windowStart' = [windowStart EXCEPT ![i][k] = t]
              /\ count' = [count EXCEPT ![i][k] =
                              IF windowStart[i][k] = t THEN count[i][k] + 1 ELSE 1]
              /\ allowed' = [allowed EXCEPT ![i][k][t] = allowed[i][k][t] + 1]
              /\ disordered' = disordered \cup {e \in {<<i, k>>} : t < windowStart[i][k]}
            BY <1>2, <1>5, <2>2, <3>1 DEF Allow, LimitReached
        <3> HIDE DEF i, k, t
        <3>3. ASSUME NEW a \in Instances, NEW b \in Keys,
                     Limit[b] > 0, <<a, b>> \notin disordered'
              PROVE  RateOK(a, b)'
            <4>1. RateOK(a, b)
                BY <3>2, <3>3 DEF RateInv
            <4>2. CASE a = i /\ b = k
                <5> DEFINE w == windowStart[i][k]
                           m == allowed[i][k]
                <5>1. /\ w \in Seconds \cup {-1} /\ m \in [Seconds -> Nat]
                      /\ count[i][k] \in Nat /\ Limit[k] \in Nat /\ Limit[k] > 0
                      /\ t \in Nat
                    BY <1>2, <3>1, <3>3, <4>2
                <5>2. /\ windowStart'[i][k] = t
                      /\ allowed'[i][k] = [m EXCEPT ![t] = m[t] + 1]
                      /\ count'[i][k] = IF w = t THEN count[i][k] + 1 ELSE 1
                    BY <1>2, <3>1, <3>2
                <5>3. t >= w
                    <6>1. ~(t < w)
                        BY <3>2, <3>3, <4>2
                    <6>2. w \in Int /\ t \in Int
                        <7> HIDE DEF w
                        <7>1. -1 \in Int /\ Seconds \subseteq Int
                            BY <1>2
                        <7> QED
                            BY <5>1, <7>1
                    <6> HIDE DEF w
                    <6> QED
                        BY <6>1, <6>2
                <5>4. /\ \A s \in Seconds : s > w => m[s] = 0
                      /\ w \in Seconds => m[w] = count[i][k]
                      /\ \A s \in Seconds : m[s] <= Limit[k]
                    BY <4>1, <4>2 DEF RateOK
                <5>5. t # w \/ count[i][k] < Limit[k]
                    BY <3>2
                <5> HIDE DEF w, m
                <5>6. /\ \A s \in Seconds : s > t => [m EXCEPT ![t] = m[t] + 1][s] = 0
                      /\ m[t] + 1 = IF w = t THEN count[i][k] + 1 ELSE 1
                      /\ m[t] + 1 <= Limit[k]
                    BY <1>2, <3>1, <5>1, <5>3, <5>4, <5>5
                <5>7. \A s \in Seconds : [m EXCEPT ![t] = m[t] + 1][s] <= Limit[k]
                    BY <3>1, <5>1, <5>4, <5>6
                <5>8. [m EXCEPT ![t] = m[t] + 1][t] = m[t] + 1
                    BY <3>1, <5>1
                <5>9. \A s \in Seconds : /\ s > t => allowed'[i][k][s] = 0
                                         /\ allowed'[i][k][s] <= Limit[k]
                    BY <5>2, <5>6, <5>7
                <5>10. allowed'[i][k][t] = count'[i][k]
                    BY <5>2, <5>6, <5>8
                <5> QED
                    BY <3>1, <4>2, <5>2, <5>9, <5>10 DEF RateOK
            <4>3. CASE ~(a = i /\ b = k)
                <5>1. /\ windowStart'[a][b] = windowStart[a][b]
                      /\ allowed'[a][b] = allowed[a][b]
                      /\ count'[a][b] = count[a][b]
                    BY <1>2, <3>1, <3>2, <4>3
                <5> QED
                    BY <4>1, <5>1 DEF RateOK
            <4> QED
                BY <4>2, <4>3
        <3> QED
            BY <1>1, <3>3 DEF RateInv
    <2> QED
        BY <2>1, <2>2
<1> QED
    BY <1>3, <1>4, <1>5
       DEF Next, Tick, Drain, LateStore, Revoke, Receive, Authorize, ReadClock,
           Backpressure, DelayEnds, Publish, vars, limiterVars

\* For any number of handlers, processes and keys: an instance lets no more
\* than rate_limit_per_sec requests of a key through in a second, as long as
\* no handler reaches the limiter with a second older than its window.
THEOREM RateSafe ==
    ASSUME Services # {}, Instances # {}
    PROVE  Spec => []RateRespected
<1>1. Init => RateInv
    <2>1. ASSUME Init PROVE \A i \in Instances, k \in Keys : RateOK(i, k)
        BY <2>1, AdmissionAssumption DEF Init, RateOK, Seconds
    <2> QED
        BY <2>1, AdmissionInit DEF RateInv
<1>2. RateInv /\ [Next]_vars => RateInv'
    BY RateNext
<1>3. RateInv => RateRespected
    BY DEF RateInv, RateOK, RateRespected
<1> QED
    BY <1>1, <1>2, <1>3, PTL DEF Spec
=============================================================================
