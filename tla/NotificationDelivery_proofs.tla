--------------------- MODULE NotificationDelivery_proofs ---------------------
(***************************************************************************)
(* Proofs about NotificationDelivery, for any rows, workers, policies,     *)
(* lags, lease and timeout: the outbox can be believed, the fence holds,   *)
(* and a duplicate needs an expired lease.                                 *)
(*                                                                         *)
(* A worker acts on what its claim returned, long after others may have    *)
(* claimed the row.  The invariant says what is left of its knowledge:     *)
(* the attempts it remembers are on file, and as long as the row is still  *)
(* locked under its id, and no namesake claimed it meanwhile, they are all *)
(* the row has had and the worker is its latest claimer.  Nothing is       *)
(* assumed of the ids: all inline dispatchers have the same one.           *)
(***************************************************************************)
EXTENDS NotificationDelivery, TLAPS

Shape ==
    \A w \in Workers :
        /\ phase[w] \in Working => current[w] \in Deliveries
        /\ phase[w] \notin Working => current[w] = Nothing
        /\ phase[w] = "idle" => claims[w] = {}
        /\ current[w] \notin claims[w]

\* The lock of a row belongs to its last claimer.
Locks ==
    \A d \in Deliveries : lockedBy[d] # NoOne =>
        owner[d] \in Workers /\ lockedBy[d] = WorkerID[owner[d]]

\* What a worker remembers of a row was true once: those attempts are on file
\* and some policy allowed another one.  As long as the row is locked under its id
\* it is still true, unless a worker of the same id claimed the row meanwhile.
Remembers ==
    \A w \in Workers, d \in Deliveries : InHand(w, d) =>
        /\ 1..seen[w][d] \subseteq audit[d]
        /\ \E v \in Workers : seen[w][d] < MaxAttempts[v]
Knows ==
    \A w \in Workers, d \in Deliveries \ shared :
        InHand(w, d) /\ HoldsLease(w, d) => seen[w][d] = attemptCount[d] /\ owner[d] = w

Audited == AuditCovers /\ AuditMatchesCount

\* A positive result was an acceptance.
Told ==
    \A w \in Workers : phase[w] = "recording" /\ result[w] => acceptances[current[w]] > 0

\* A row that is not final has an attempt left under some policy.
Left == \A d \in Deliveries :
    status[d] \notin Final => \E w \in Workers : attemptCount[d] < MaxAttempts[w]

\* As long as no lease of the row has expired, one worker at most has it in
\* hand, and has it locked; once it was accepted nobody will send it again.
Accepted(d) ==
    /\ status[d] \in {"processing", "sent"}
    /\ \A w \in Workers :
          /\ d \notin claims[w]
          /\ current[w] = d => phase[w] = "recording" /\ result[w]
Once ==
    \A d \in Deliveries \ reclaimed :
        /\ acceptances[d] <= 1
        /\ \A w \in Workers : InHand(w, d) => HoldsLease(w, d)
        /\ \A v, w \in Workers : InHand(v, d) /\ InHand(w, d) => v = w
        /\ acceptances[d] > 0 => Accepted(d)

Safe == Shape /\ Locks /\ Remembers /\ Knows /\ Told /\ Audited /\ Left
        /\ AttemptsBounded /\ SentWasAccepted /\ Once
DeliveryInv == TypeOK /\ Safe

-----------------------------------------------------------------------------
(* The constants.                                                          *)

LEMMA FurthestLag ==
    /\ Furthest \in Nat
    /\ \A w \in Workers : \A lag \in 0..MaxLag[w] : lag <= Furthest
<1>1. PICK w \in Workers : \A v \in Workers : MaxLag[v] <= MaxLag[w]
    BY WorkersAssumption
<1>2. MaxLag[w] \in Lags /\ Lags \subseteq Nat
    BY <1>1, DeliveryAssumption DEF Lags
<1>3. \A l \in Lags : l <= MaxLag[w]
    <2> SUFFICES ASSUME NEW l \in Lags PROVE l <= MaxLag[w]
        OBVIOUS
    <2>1. PICK v \in Workers : l \in 0..MaxLag[v]
        BY DEF Lags
    <2> QED
        BY <1>1, <2>1, DeliveryAssumption
<1>4. Furthest \in Lags /\ \A l \in Lags : l <= Furthest
    BY <1>2, <1>3 DEF Furthest
<1>5. ASSUME NEW v \in Workers, NEW lag \in 0..MaxLag[v] PROVE lag \in Lags
    BY DEF Lags
<1> QED
    BY <1>2, <1>4, <1>5

LEMMA MaxAgeNat == MaxAge \in Nat /\ Furthest < MaxAge
BY FurthestLag, DeliveryAssumption DEF MaxAge

-----------------------------------------------------------------------------
(* Type correctness: the rows and the workers.                             *)

RowType ==
    /\ status \in [Deliveries -> {"none", "pending", "processing", "retrying"} \cup Final]
    /\ attemptCount \in [Deliveries -> Nat]
    /\ wait \in [Deliveries -> (-Furthest)..MaxDelay]
    /\ age \in [Deliveries -> 0..MaxAge]
    /\ lockedBy \in [Deliveries -> Ids \cup {NoOne}]
    /\ audit \in [Deliveries -> SUBSET (Nat \ {0})]

WorkerType ==
    /\ claims \in [Workers -> SUBSET Deliveries]
    /\ seen \in [Workers -> [Deliveries -> Nat]]
    /\ current \in [Workers -> Deliveries \cup {Nothing}]
    /\ phase \in [Workers -> {"idle", "batch", "sending", "recording"}]
    /\ result \in [Workers -> BOOLEAN]
    /\ busy \in [Workers -> 0..Timeout]

HistoryType ==
    /\ owner \in [Deliveries -> Workers \cup {NoOne}]
    /\ acceptances \in [Deliveries -> 0..2]
    /\ reclaimed \subseteq Deliveries
    /\ shared \subseteq Deliveries

LEMMA TypeParts == TypeOK <=> RowType /\ WorkerType /\ HistoryType /\ faults \in 0..MaxFaults
BY DEF TypeOK, RowType, WorkerType, HistoryType

LEMMA TypePartsPrime == TypeOK' <=> RowType' /\ WorkerType' /\ HistoryType' /\ faults' \in 0..MaxFaults
BY DEF TypeOK, RowType, WorkerType, HistoryType

LEMMA FaultType ==
    ASSUME TypeOK, UNCHANGED faults \/ (faults < MaxFaults /\ faults' = faults + 1)
    PROVE  faults' \in 0..MaxFaults
BY DeliveryAssumption DEF TypeOK

LEMMA MarkClaimedType ==
    ASSUME TypeOK, NEW w \in Workers, NEW lag \in 0..MaxLag[w], NEW S \in SUBSET Deliveries,
           MarkClaimed(w, S, lag)
    PROVE  RowType' /\ owner' \in [Deliveries -> Workers \cup {NoOne}] /\ reclaimed' \subseteq Deliveries /\ shared' \subseteq Deliveries
<1>1. lag \in 0..MaxAge
    BY FurthestLag, MaxAgeNat, DeliveryAssumption
<1>2. WorkerID[w] \in Ids
    BY DEF Ids
<1> QED
    BY <1>1, <1>2 DEF TypeOK, MarkClaimed, RowType

LEMMA WriteAttemptType ==
    ASSUME TypeOK, NEW w \in Workers, NEW d \in Deliveries, WriteAttempt(w, d)
    PROVE  RowType'
<1>1. seen[w][d] \in Nat
    BY DEF TypeOK
<1>2. 0 \in 0..MaxAge /\ 0 \in (-Furthest)..MaxDelay /\ 1..MaxDelay \subseteq (-Furthest)..MaxDelay
    BY MaxAgeNat, FurthestLag, DeliveryAssumption
<1>3. /\ attemptCount' \in [Deliveries -> Nat]
      /\ age' \in [Deliveries -> 0..MaxAge]
      /\ lockedBy' \in [Deliveries -> Ids \cup {NoOne}]
      /\ audit' \in [Deliveries -> SUBSET (Nat \ {0})]
    BY <1>1, <1>2 DEF WriteAttempt, TypeOK
<1>4. \E st \in {"sent", "failed", "retrying"}, x \in (-Furthest)..MaxDelay :
         status' = [status EXCEPT ![d] = st] /\ wait' = [wait EXCEPT ![d] = x]
    <2>1. CASE result[w]
        BY <1>2, <2>1 DEF WriteAttempt
    <2>2. CASE ~result[w] /\ GivesUp(w, seen[w][d] + 1)
        BY <1>2, <2>2 DEF WriteAttempt
    <2>3. CASE ~result[w] /\ ~GivesUp(w, seen[w][d] + 1)
        <3>1. PICK delay \in 1..MaxDelay : wait' = [wait EXCEPT ![d] = delay]
            BY <2>3 DEF WriteAttempt
        <3> QED
            BY <1>2, <2>3, <3>1 DEF WriteAttempt
    <2> QED
        BY <2>1, <2>2, <2>3
<1>5. /\ status' \in [Deliveries -> {"none", "pending", "processing", "retrying"} \cup Final]
      /\ wait' \in [Deliveries -> (-Furthest)..MaxDelay]
    BY <1>4 DEF TypeOK, Final
<1> QED
    BY <1>3, <1>5 DEF RowType

LEMMA AbandonType ==
    ASSUME TypeOK, NEW w \in Workers, Abandon(w)
    PROVE  WorkerType'
<1>1. [d \in Deliveries |-> 0] \in [Deliveries -> Nat] /\ 0 \in 0..Timeout
    BY DeliveryAssumption
<1> QED
    BY <1>1 DEF TypeOK, WorkerType, Abandon

LEMMA TickType ==
    ASSUME TypeOK, Tick
    PROVE  TypeOK'
<1>1. /\ \A d \in Deliveries : wait[d] \in (-Furthest)..MaxDelay /\ age[d] \in 0..MaxAge
      /\ \A w \in Workers : busy[w] \in 0..Timeout
    BY DEF TypeOK
<1>2. wait' \in [Deliveries -> (-Furthest)..MaxDelay]
    BY <1>1, FurthestLag, DeliveryAssumption DEF Tick
<1>3. age' \in [Deliveries -> 0..MaxAge]
    BY <1>1, MaxAgeNat DEF Tick
<1>4. busy' \in [Workers -> 0..Timeout]
    BY <1>1, DeliveryAssumption DEF Tick
<1> QED
    BY <1>2, <1>3, <1>4 DEF Tick, TypeOK

LEMMA DeliveryInit == Init => DeliveryInv
<1> SUFFICES ASSUME Init PROVE DeliveryInv
    OBVIOUS
<1>1. TypeOK
    BY FurthestLag, MaxAgeNat, DeliveryAssumption DEF Init, TypeOK
<1>2. Shape /\ Locks /\ Remembers /\ Knows /\ Told
    BY WorkersAssumption DEF Init, Shape, Locks, Remembers, Knows, Told, Working, InHand
<1>3. Audited
    BY DEF Init, Audited, AuditCovers, AuditMatchesCount
<1>4. PICK w \in Workers : TRUE
    BY WorkersAssumption
<1>5. Left /\ AttemptsBounded
    BY <1>4, DeliveryAssumption DEF Init, Left, AttemptsBounded, Final
<1>6. SentWasAccepted
    BY DEF Init, SentWasAccepted
<1>7. Once
    BY WorkersAssumption DEF Init, Once, InHand
<1> QED
    BY <1>1, <1>2, <1>3, <1>5, <1>6, <1>7 DEF DeliveryInv, Safe

-----------------------------------------------------------------------------
(* What a worker does with its batch.                                      *)

\* Worker w gives up its present row, and perhaps its batch.
Drops(w) ==
    /\ claims'[w] \subseteq claims[w]
    /\ current'[w] = Nothing
    /\ phase'[w] \in {"idle", "batch"}
    /\ phase'[w] = "idle" => claims'[w] = {}
    /\ \A d \in claims'[w] : seen'[w][d] = seen[w][d]
    /\ \A v \in Workers \ {w} :
          /\ claims'[v] = claims[v] /\ current'[v] = current[v] /\ phase'[v] = phase[v]
          /\ result'[v] = result[v] /\ seen'[v] = seen[v]

LEMMA AbandonDrops ==
    ASSUME TypeOK, NEW w \in Workers, Abandon(w)
    PROVE  Drops(w)
BY DEF Abandon, Drops, TypeOK

LEMMA RecordDrops ==
    ASSUME DeliveryInv, NEW w \in Workers, Record(w)
    PROVE  Drops(w) /\ WorkerType'
<1>1. CASE claims[w] = {}
    <2>1. Abandon(w)
        BY <1>1 DEF Record
    <2> QED
        BY <2>1, AbandonDrops, AbandonType DEF DeliveryInv
<1>2. CASE claims[w] # {}
    <2>1. current[w] \in Deliveries /\ current[w] \notin claims[w]
        BY DEF Record, DeliveryInv, Safe, Shape, Working
    <2>2. seen' = [seen EXCEPT ![w][current[w]] = 0] /\ busy' = [busy EXCEPT ![w] = 0] /\ claims' = claims
        BY <1>2 DEF Record
    <2>3. /\ current' = [current EXCEPT ![w] = Nothing]
          /\ phase' = [phase EXCEPT ![w] = "batch"]
          /\ result' = [result EXCEPT ![w] = FALSE]
        BY <1>2 DEF Record
    <2>4. TypeOK /\ 0 \in 0..Timeout
        BY DeliveryAssumption DEF DeliveryInv
    <2>5. seen' \in [Workers -> [Deliveries -> Nat]]
        BY <2>1, <2>2, <2>4 DEF TypeOK
    <2>6. WorkerType'
        BY <2>2, <2>3, <2>4, <2>5 DEF TypeOK, WorkerType
    <2>7. \A d \in claims[w] : seen'[w][d] = seen[w][d]
        BY <2>1, <2>2, <2>4 DEF TypeOK
    <2>8. \A v \in Workers \ {w} : seen'[v] = seen[v]
        BY <2>2, <2>4 DEF TypeOK
    <2> QED
        BY <2>2, <2>3, <2>4, <2>6, <2>7, <2>8 DEF Drops, TypeOK
<1> QED
    BY <1>1, <1>2

LEMMA DropsInHand ==
    ASSUME DeliveryInv, NEW w \in Workers, Drops(w)
    PROVE  /\ \A v \in Workers, d \in Deliveries :
                 InHand(v, d)' => InHand(v, d) /\ seen'[v][d] = seen[v][d]
           /\ \A d \in Deliveries : InHand(w, d)' => d # current[w]
           /\ Shape'
<1>1. ASSUME NEW v \in Workers, NEW d \in Deliveries, InHand(v, d)'
      PROVE  InHand(v, d) /\ seen'[v][d] = seen[v][d] /\ (v = w => d # current[w])
    <2>1. CASE v = w
        BY <1>1, <2>1, WorkersAssumption DEF Drops, InHand, DeliveryInv, Safe, Shape
    <2>2. CASE v # w
        BY <1>1, <2>2 DEF Drops, InHand
    <2> QED
        BY <2>1, <2>2
<1>2. Shape'
    <2> SUFFICES ASSUME NEW v \in Workers
                 PROVE  /\ phase'[v] \in Working => current'[v] \in Deliveries
                        /\ phase'[v] \notin Working => current'[v] = Nothing
                        /\ phase'[v] = "idle" => claims'[v] = {}
                        /\ current'[v] \notin claims'[v]
        BY DEF Shape, Working
    <2>1. CASE v = w
        BY <2>1, WorkersAssumption DEF Drops, DeliveryInv, TypeOK, Working
    <2>2. CASE v # w
        BY <2>2 DEF Drops, DeliveryInv, Safe, Shape
    <2> QED
        BY <2>1, <2>2
<1> QED
    BY <1>1, <1>2

\* A worker that gives up rows without writing to them harms nothing.
LEMMA DropsSafe ==
    ASSUME DeliveryInv, NEW w \in Workers, Drops(w),
           UNCHANGED <<rowVars, owner, acceptances, reclaimed, shared>>
    PROVE  Safe'
<1> USE DEF rowVars
<1>1. Shape'
    BY DropsInHand
<1>2. Locks' /\ Audited' /\ Left' /\ AttemptsBounded' /\ SentWasAccepted'
    BY DEF DeliveryInv, Safe, Locks, Audited, AuditCovers, AuditMatchesCount, Left,
           AttemptsBounded, SentWasAccepted
<1>3. \A v \in Workers, d \in Deliveries : HoldsLease(v, d)' <=> HoldsLease(v, d)
    BY DEF HoldsLease
<1>4. Remembers' /\ Knows'
    BY <1>3, DropsInHand DEF DeliveryInv, Safe, Remembers, Knows
<1>5. Told'
    BY DEF DeliveryInv, Safe, Told, Drops
<1>6. Once'
    <2> SUFFICES ASSUME NEW d \in Deliveries \ reclaimed
                 PROVE  /\ acceptances[d] <= 1
                        /\ \A v \in Workers : InHand(v, d)' => HoldsLease(v, d)'
                        /\ \A u, v \in Workers : InHand(u, d)' /\ InHand(v, d)' => u = v
                        /\ acceptances[d] > 0 => Accepted(d)'
        BY DEF Once
    <2>1. /\ acceptances[d] <= 1
          /\ \A v \in Workers : InHand(v, d)' => HoldsLease(v, d)'
          /\ \A u, v \in Workers : InHand(u, d)' /\ InHand(v, d)' => u = v
        BY <1>3, DropsInHand DEF DeliveryInv, Safe, Once
    <2>2. ASSUME acceptances[d] > 0 PROVE Accepted(d)'
        BY <2>2, WorkersAssumption DEF DeliveryInv, Safe, Once, Accepted, Drops
    <2> QED
        BY <2>1, <2>2
<1> QED
    BY <1>1, <1>2, <1>4, <1>5, <1>6 DEF Safe

\* What recordDeliveryAttempt writes to a row: the attempt after the
\* ones the claim returned.
LEMMA WriteAttemptRow ==
    ASSUME DeliveryInv, NEW w \in Workers, NEW d \in Deliveries, WriteAttempt(w, d)
    PROVE  /\ attemptCount'[d] = seen[w][d] + 1
           /\ audit'[d] = audit[d] \cup {seen[w][d] + 1}
           /\ lockedBy'[d] = NoOne
           /\ \/ result[w] /\ status'[d] = "sent"
              \/ /\ ~result[w] /\ seen[w][d] + 1 >= MaxAttempts[w]
                 /\ status'[d] = "failed"
              \/ /\ ~result[w] /\ ~(seen[w][d] + 1 >= MaxAttempts[w])
                 /\ status'[d] = "retrying"
           /\ \A e \in Deliveries \ {d} :
                 /\ attemptCount'[e] = attemptCount[e] /\ audit'[e] = audit[e]
                 /\ lockedBy'[e] = lockedBy[e] /\ status'[e] = status[e]
<1>1. TypeOK
    BY DEF DeliveryInv
<1>2. /\ attemptCount'[d] = seen[w][d] + 1
      /\ audit'[d] = audit[d] \cup {seen[w][d] + 1}
      /\ lockedBy'[d] = NoOne
    BY <1>1 DEF WriteAttempt, TypeOK
<1>3. \/ result[w] /\ status'[d] = "sent"
      \/ /\ ~result[w] /\ seen[w][d] + 1 >= MaxAttempts[w]
         /\ status'[d] = "failed"
      \/ /\ ~result[w] /\ ~(seen[w][d] + 1 >= MaxAttempts[w])
         /\ status'[d] = "retrying"
    BY <1>1 DEF WriteAttempt, TypeOK, GivesUp
<1>4. \A e \in Deliveries \ {d} :
         /\ attemptCount'[e] = attemptCount[e] /\ audit'[e] = audit[e]
         /\ lockedBy'[e] = lockedBy[e]
    BY <1>1 DEF WriteAttempt, TypeOK
<1>5. \A e \in Deliveries \ {d} : status'[e] = status[e]
    BY <1>1 DEF WriteAttempt, TypeOK
<1> QED
    BY <1>2, <1>3, <1>4, <1>5

\* The fence lets a worker write only to a row that is locked under its id,
\* and the write unlocks the row.  Before any lease of the row expired nobody
\* else has it in hand.
LEMMA WriteSafe ==
    ASSUME DeliveryInv, NEW w \in Workers, phase[w] = "recording",
           HoldsLease(w, current[w]), WriteAttempt(w, current[w]), Drops(w),
           UNCHANGED <<owner, acceptances, reclaimed, shared>>
    PROVE  Safe'
<1>1. PICK d \in Deliveries : d = current[w] /\ InHand(w, d) /\ seen[w][d] \in Nat
    BY DEF DeliveryInv, Safe, Shape, Working, InHand, TypeOK
<1>2. /\ 1..seen[w][d] \subseteq audit[d]
      /\ \E v \in Workers : seen[w][d] < MaxAttempts[v]
      /\ d \notin shared => seen[w][d] = attemptCount[d]
    BY <1>1 DEF DeliveryInv, Safe, Remembers, Knows
<1>3. /\ attemptCount'[d] = seen[w][d] + 1
      /\ audit'[d] = audit[d] \cup {seen[w][d] + 1}
      /\ lockedBy'[d] = NoOne
      /\ \/ result[w] /\ status'[d] = "sent"
         \/ /\ ~result[w] /\ seen[w][d] + 1 >= MaxAttempts[w]
            /\ status'[d] = "failed"
         \/ /\ ~result[w] /\ ~(seen[w][d] + 1 >= MaxAttempts[w])
            /\ status'[d] = "retrying"
      /\ \A e \in Deliveries \ {d} :
            /\ attemptCount'[e] = attemptCount[e] /\ audit'[e] = audit[e]
            /\ lockedBy'[e] = lockedBy[e] /\ status'[e] = status[e]
    BY <1>1, WriteAttemptRow
<1>4. MaxAttempts[w] \in Nat /\ seen[w][d] + 1 \in Nat
    BY <1>1, DeliveryAssumption
<1>5. status[d] = "processing" /\ lockedBy[d] = WorkerID[w]
    BY <1>1 DEF HoldsLease
<1>6. \A e \in Deliveries \ {d}, v \in Workers : HoldsLease(v, e)' <=> HoldsLease(v, e)
    BY <1>3 DEF HoldsLease
<1>7. \A v \in Workers : ~HoldsLease(v, d)'
    BY <1>3, <1>5 DEF HoldsLease
<1>8. Shape'
    BY DropsInHand
<1>9. Locks'
    BY <1>3 DEF DeliveryInv, Safe, Locks
<1>10. Remembers' /\ Knows'
    <2>1. \A e \in Deliveries : audit[e] \subseteq audit'[e]
        BY <1>3
    <2>2. Remembers'
        BY <2>1, DropsInHand DEF DeliveryInv, Safe, Remembers
    <2>3. Knows'
        BY <1>3, <1>6, <1>7, DropsInHand DEF DeliveryInv, Safe, Knows
    <2> QED
        BY <2>2, <2>3
<1>11. Told'
    BY DEF DeliveryInv, Safe, Told, Drops
<1>12. Audited'
    <2>1. 1..attemptCount'[d] \subseteq audit'[d]
        BY <1>1, <1>2, <1>3
    <2>2. \A n \in audit'[d] : \E v \in Workers : n <= MaxAttempts[v]
        <3>1. PICK v \in Workers : seen[w][d] < MaxAttempts[v]
            BY <1>2
        <3>2. seen[w][d] + 1 <= MaxAttempts[v]
            BY <1>1, <3>1, DeliveryAssumption
        <3> QED
            BY <1>3, <3>2 DEF DeliveryInv, Safe, Audited, AuditCovers
    <2>3. AuditCovers'
        BY <1>3, <2>1, <2>2 DEF DeliveryInv, Safe, Audited, AuditCovers
    <2>4. AuditMatchesCount'
        <3>1. AuditMatchesCount
            BY DEF DeliveryInv, Safe, Audited
        <3>2. d \notin shared => audit'[d] = 1..attemptCount'[d]
            BY <1>1, <1>2, <1>3, <3>1 DEF AuditMatchesCount
        <3> QED
            BY <1>3, <3>1, <3>2 DEF AuditMatchesCount
    <2> QED
        BY <2>3, <2>4 DEF Audited
<1>13. Left'
    <2>1. status'[d] \notin Final => attemptCount'[d] < MaxAttempts[w]
        BY <1>3, <1>4 DEF Final
    <2> QED
        BY <2>1, <1>3 DEF DeliveryInv, Safe, Left
<1>14. AttemptsBounded'
    <2>1. PICK v \in Workers : seen[w][d] < MaxAttempts[v]
        BY <1>2
    <2>2. attemptCount'[d] <= MaxAttempts[v]
        BY <1>1, <1>3, <2>1, DeliveryAssumption
    <2>3. status'[d] = "failed" => attemptCount'[d] >= MaxAttempts[w]
        BY <1>3
    <2> QED
        BY <1>3, <2>2, <2>3 DEF DeliveryInv, Safe, AttemptsBounded
<1>15. SentWasAccepted'
    <2>1. status'[d] = "sent" => acceptances[d] > 0
        BY <1>1, <1>3 DEF DeliveryInv, Safe, Told
    <2> QED
        BY <1>3, <2>1 DEF DeliveryInv, Safe, SentWasAccepted
<1>16. Once'
    <2> SUFFICES ASSUME NEW e \in Deliveries \ reclaimed
                 PROVE  /\ acceptances[e] <= 1
                        /\ \A v \in Workers : InHand(v, e)' => HoldsLease(v, e)'
                        /\ \A u, v \in Workers : InHand(u, e)' /\ InHand(v, e)' => u = v
                        /\ acceptances[e] > 0 => Accepted(e)'
        BY DEF Once
    <2>1. /\ acceptances[e] <= 1
          /\ \A v \in Workers : InHand(v, e) => HoldsLease(v, e)
          /\ \A u, v \in Workers : InHand(u, e) /\ InHand(v, e) => u = v
          /\ acceptances[e] > 0 => Accepted(e)
        BY DEF DeliveryInv, Safe, Once
    <2>2. CASE e # d
        <3>1. /\ \A v \in Workers : InHand(v, e)' => HoldsLease(v, e)'
              /\ \A u, v \in Workers : InHand(u, e)' /\ InHand(v, e)' => u = v
            BY <1>6, <2>1, <2>2, DropsInHand
        <3>2. acceptances[e] > 0 => Accepted(e)'
            BY <1>3, <2>1, <2>2, WorkersAssumption DEF Accepted, Drops
        <3> QED
            BY <2>1, <3>1, <3>2
    <2>3. CASE e = d
        <3>1. \A v \in Workers : InHand(v, d) => v = w
            BY <1>1, <2>1, <2>3
        <3>2. \A v \in Workers : ~InHand(v, d)'
            BY <1>1, <3>1, DropsInHand
        <3>3. ASSUME acceptances[d] > 0 PROVE Accepted(d)'
            <4>1. result[w]
                BY <1>1, <2>1, <2>3, <3>3 DEF Accepted
            <4> QED
                BY <1>3, <3>2, <4>1 DEF Accepted, InHand
        <3> QED
            BY <2>1, <2>3, <3>2, <3>3
    <2> QED
        BY <2>2, <2>3
<1> QED
    BY <1>8, <1>9, <1>10, <1>11, <1>12, <1>13, <1>14, <1>15, <1>16 DEF Safe

-----------------------------------------------------------------------------
(* The other steps.                                                        *)

LEMMA EnqueueSafe ==
    ASSUME DeliveryInv, NEW d \in Deliveries, Enqueue(d)
    PROVE  DeliveryInv'
<1>1. /\ status' \in [Deliveries -> {"none", "pending", "processing", "retrying"} \cup Final]
      /\ status[d] = "none" /\ status'[d] = "pending"
      /\ \A e \in Deliveries \ {d} : status'[e] = status[e]
    BY DEF Enqueue, DeliveryInv, TypeOK
<1>2. TypeOK'
    BY <1>1 DEF Enqueue, DeliveryInv, TypeOK, workerVars
<1>3. \A v \in Workers, e \in Deliveries :
         /\ HoldsLease(v, e)' <=> HoldsLease(v, e)
         /\ InHand(v, e)' <=> InHand(v, e)
    BY <1>1 DEF HoldsLease, InHand, Enqueue, workerVars
<1>4. Shape' /\ Locks' /\ Told' /\ Audited'
    BY DEF Enqueue, workerVars, DeliveryInv, Safe, Shape, Locks, Told, Audited, AuditCovers,
           AuditMatchesCount
<1>5. Remembers' /\ Knows'
    BY <1>3 DEF Enqueue, workerVars, DeliveryInv, Safe, Remembers, Knows
<1>6. Left' /\ AttemptsBounded' /\ SentWasAccepted'
    BY <1>1 DEF Enqueue, DeliveryInv, Safe, Left, AttemptsBounded, SentWasAccepted, Final
<1>7. Once'
    BY <1>1, <1>3 DEF Enqueue, workerVars, DeliveryInv, Safe, Once, Accepted
<1> QED
    BY <1>2, <1>4, <1>5, <1>6, <1>7 DEF DeliveryInv, Safe

LEMMA TickSafe ==
    ASSUME DeliveryInv, Tick
    PROVE  DeliveryInv'
<1>1. TypeOK'
    BY TickType DEF DeliveryInv
<1>2. \A v \in Workers, e \in Deliveries :
         /\ HoldsLease(v, e)' <=> HoldsLease(v, e)
         /\ InHand(v, e)' <=> InHand(v, e)
    BY DEF HoldsLease, InHand, Tick
<1>3. Shape' /\ Locks' /\ Told' /\ Audited'
    BY DEF Tick, DeliveryInv, Safe, Shape, Locks, Told, Audited, AuditCovers, AuditMatchesCount
<1>4. Remembers' /\ Knows' /\ Once'
    BY <1>2 DEF Tick, DeliveryInv, Safe, Remembers, Knows, Once, Accepted
<1>5. Left' /\ AttemptsBounded' /\ SentWasAccepted'
    BY DEF Tick, DeliveryInv, Safe, Left, AttemptsBounded, SentWasAccepted
<1> QED
    BY <1>1, <1>3, <1>4, <1>5 DEF DeliveryInv, Safe

LEMMA StartDispatchSafe ==
    ASSUME DeliveryInv, NEW w \in Workers, StartDispatch(w)
    PROVE  DeliveryInv'
<1>1. PICK d \in claims[w] : /\ current' = [current EXCEPT ![w] = d]
                             /\ claims' = [claims EXCEPT ![w] = @ \ {d}]
    BY DEF StartDispatch
<1>2. d \in Deliveries /\ current[w] = Nothing /\ phase[w] = "batch"
    BY DEF StartDispatch, DeliveryInv, TypeOK, Safe, Shape, Working
<1>3. TypeOK'
    BY <1>1, <1>2 DEF StartDispatch, DeliveryInv, TypeOK, rowVars
<1>4. /\ current'[w] = d /\ claims'[w] = claims[w] \ {d} /\ phase'[w] = "sending"
      /\ \A v \in Workers \ {w} :
            current'[v] = current[v] /\ claims'[v] = claims[v] /\ phase'[v] = phase[v]
    BY <1>1, <1>2 DEF StartDispatch, DeliveryInv, TypeOK
<1>5. \A v \in Workers, e \in Deliveries :
         /\ HoldsLease(v, e)' <=> HoldsLease(v, e)
         /\ InHand(v, e)' => InHand(v, e)
    BY <1>1, <1>4 DEF HoldsLease, InHand, StartDispatch, rowVars
<1>6. Shape' /\ Told'
    BY <1>2, <1>4 DEF StartDispatch, DeliveryInv, Safe, Shape, Told, Working
<1>7. Locks' /\ Audited' /\ Left' /\ AttemptsBounded' /\ SentWasAccepted'
    BY DEF StartDispatch, rowVars, DeliveryInv, Safe, Locks, Audited, AuditCovers,
           AuditMatchesCount, Left, AttemptsBounded, SentWasAccepted
<1>8. Remembers' /\ Knows'
    BY <1>5 DEF StartDispatch, rowVars, DeliveryInv, Safe, Remembers, Knows
<1>9. Once'
    <2> SUFFICES ASSUME NEW e \in Deliveries \ reclaimed
                 PROVE  /\ acceptances[e] <= 1
                        /\ \A v \in Workers : InHand(v, e)' => HoldsLease(v, e)'
                        /\ \A u, v \in Workers : InHand(u, e)' /\ InHand(v, e)' => u = v
                        /\ acceptances[e] > 0 => Accepted(e)'
        BY DEF Once, StartDispatch
    <2>1. /\ acceptances[e] <= 1
          /\ \A v \in Workers : InHand(v, e)' => HoldsLease(v, e)'
          /\ \A u, v \in Workers : InHand(u, e)' /\ InHand(v, e)' => u = v
        BY <1>5 DEF DeliveryInv, Safe, Once
    <2>2. ASSUME acceptances[e] > 0 PROVE Accepted(e)'
        <3>1. Accepted(e) /\ e # d
            BY <2>2, <1>1 DEF DeliveryInv, Safe, Once, Accepted
        <3> QED
            BY <3>1, <1>4 DEF Accepted, StartDispatch, rowVars
    <2> QED
        BY <2>1, <2>2
<1> QED
    BY <1>3, <1>6, <1>7, <1>8, <1>9 DEF DeliveryInv, Safe

\* Before any lease of the row expired only the worker that has it locked
\* sends it, so a confirmed dispatch is the first.
LEMMA DispatchedSafe ==
    ASSUME DeliveryInv, NEW w \in Workers, Dispatched(w)
    PROVE  DeliveryInv'
<1>1. PICK ok \in BOOLEAN :
         /\ result' = [result EXCEPT ![w] = ok]
         /\ acceptances' = [acceptances EXCEPT ![current[w]] = IF ok /\ @ < 2 THEN @ + 1 ELSE @]
    BY DEF Dispatched
<1>2. PICK d \in Deliveries : d = current[w] /\ d \notin claims[w]
    BY DEF Dispatched, DeliveryInv, Safe, Shape, Working
<1>3. \A e \in Deliveries : acceptances[e] \in 0..2
    BY DEF DeliveryInv, TypeOK
<1>4. /\ acceptances'[d] = IF ok /\ acceptances[d] < 2 THEN acceptances[d] + 1 ELSE acceptances[d]
      /\ \A e \in Deliveries \ {d} : acceptances'[e] = acceptances[e]
    BY <1>1, <1>2 DEF DeliveryInv, TypeOK
<1>5. acceptances' \in [Deliveries -> 0..2]
    <2>1. (IF ok /\ acceptances[d] < 2 THEN acceptances[d] + 1 ELSE acceptances[d]) \in 0..2
        BY <1>3
    <2> QED
        BY <2>1, <1>1, <1>2 DEF DeliveryInv, TypeOK
<1>6. TypeOK'
    BY <1>1, <1>5 DEF Dispatched, DeliveryInv, TypeOK, rowVars
<1>7. /\ phase[w] = "sending" /\ phase'[w] = "recording" /\ result'[w] = ok
      /\ \A v \in Workers \ {w} : phase'[v] = phase[v] /\ result'[v] = result[v]
      /\ current' = current /\ claims' = claims
    BY <1>1 DEF Dispatched, DeliveryInv, TypeOK
<1>8. \A v \in Workers, e \in Deliveries :
         /\ HoldsLease(v, e)' <=> HoldsLease(v, e)
         /\ InHand(v, e)' <=> InHand(v, e)
    BY DEF HoldsLease, InHand, Dispatched, rowVars
<1>9. \A e \in Deliveries : acceptances[e] > 0 => acceptances'[e] > 0
    BY <1>3, <1>4
<1>10. Shape'
    BY <1>7 DEF DeliveryInv, Safe, Shape, Working
<1>11. Locks' /\ Audited' /\ Left' /\ AttemptsBounded'
    BY DEF Dispatched, rowVars, DeliveryInv, Safe, Locks, Audited, AuditCovers, AuditMatchesCount,
           Left, AttemptsBounded
<1>12. SentWasAccepted'
    BY <1>9 DEF Dispatched, rowVars, DeliveryInv, Safe, SentWasAccepted
<1>13. Remembers' /\ Knows'
    BY <1>8 DEF Dispatched, rowVars, DeliveryInv, Safe, Remembers, Knows
<1>14. Told'
    <2>1. ok => acceptances'[d] > 0
        BY <1>3, <1>4
    <2>2. \A v \in Workers : phase[v] = "recording" => current[v] \in Deliveries
        BY DEF DeliveryInv, Safe, Shape, Working
    <2> QED
        BY <1>2, <1>7, <1>9, <2>1, <2>2 DEF DeliveryInv, Safe, Told
<1>15. Once'
    <2> SUFFICES ASSUME NEW e \in Deliveries \ reclaimed
                 PROVE  /\ acceptances'[e] <= 1
                        /\ \A v \in Workers : InHand(v, e)' => HoldsLease(v, e)'
                        /\ \A u, v \in Workers : InHand(u, e)' /\ InHand(v, e)' => u = v
                        /\ acceptances'[e] > 0 => Accepted(e)'
        BY DEF Once, Dispatched
    <2>1. /\ acceptances[e] <= 1
          /\ \A v \in Workers : InHand(v, e) => HoldsLease(v, e)
          /\ \A u, v \in Workers : InHand(u, e) /\ InHand(v, e) => u = v
          /\ acceptances[e] > 0 => Accepted(e)
        BY DEF DeliveryInv, Safe, Once
    <2>2. CASE e # d
        BY <1>2, <1>4, <1>7, <1>8, <2>1, <2>2 DEF Accepted, Dispatched, rowVars
    <2>3. CASE e = d
        <3>1. ~Accepted(d)
            BY <1>2, <1>7 DEF Accepted
        <3>2. acceptances[d] = 0
            BY <1>3, <2>1, <2>3, <3>1
        <3>3. acceptances'[d] <= 1 /\ (acceptances'[d] > 0 => ok)
            BY <1>4, <3>2
        <3>4. HoldsLease(w, d)
            BY <1>2, <2>1, <2>3 DEF InHand
        <3>5. \A v \in Workers : InHand(v, d) => v = w
            BY <1>2, <2>1, <2>3 DEF InHand
        <3>6. ASSUME ok PROVE Accepted(d)'
            <4>1. status'[d] = "processing"
                BY <3>4 DEF HoldsLease, Dispatched, rowVars
            <4> QED
                BY <1>2, <1>7, <3>5, <3>6, <4>1 DEF Accepted, InHand
        <3> QED
            BY <1>8, <2>1, <2>3, <3>3, <3>6
    <2> QED
        BY <2>2, <2>3
<1> QED
    BY <1>6, <1>10, <1>11, <1>12, <1>13, <1>14, <1>15 DEF DeliveryInv, Safe

\* claimDueDeliveries takes a row that waits, which nobody has in hand, or
\* one whose lease has expired.
LEMMA ClaimedRows ==
    ASSUME DeliveryInv, NEW w \in Workers, NEW lag \in 0..MaxLag[w], NEW S \in FirstDue(lag),
           MarkClaimed(w, S, lag)
    PROVE  /\ S \in SUBSET Deliveries
           /\ \A d \in S : /\ status[d] \in {"pending", "retrying", "processing"}
                           /\ d \notin reclaimed' => status[d] \in {"pending", "retrying"}
                           /\ status'[d] = "processing" /\ lockedBy'[d] = WorkerID[w]
                           /\ owner'[d] = w
           /\ \A d \in Deliveries \ S :
                 status'[d] = status[d] /\ lockedBy'[d] = lockedBy[d] /\ owner'[d] = owner[d]
           /\ reclaimed \subseteq reclaimed' /\ shared \subseteq shared'
           /\ \A d \in S \ shared', v \in Workers \ {w} : InHand(v, d) => WorkerID[v] # WorkerID[w]
           /\ attemptCount' = attemptCount /\ audit' = audit
<1>1. S \in SUBSET {d \in Deliveries : Due(d, lag)}
    BY DEF FirstDue
<1>2. lag \in Nat /\ Lease \in Nat /\ \A d \in Deliveries : age[d] \in Nat
    BY DeliveryAssumption, MaxAgeNat DEF DeliveryInv, TypeOK
<1>3. ASSUME NEW d \in S PROVE /\ status[d] \in {"pending", "retrying", "processing"}
                               /\ d \notin reclaimed' => status[d] \in {"pending", "retrying"}
    <2>1. d \in Deliveries /\ Due(d, lag)
        BY <1>1
    <2>2. status[d] = "processing" => age[d] > Lease
        BY <1>2, <2>1 DEF Due
    <2> QED
        BY <2>1, <2>2 DEF Due, MarkClaimed
<1> QED
    BY <1>1, <1>3 DEF MarkClaimed

\* The rows are safe if what claimer w has in hand afterwards is exactly what
\* the claim returned to it, or nothing.
LEMMA ClaimedSafe ==
    ASSUME DeliveryInv, NEW w \in Workers, NEW lag \in 0..MaxLag[w],
           NEW S \in FirstDue(lag), MarkClaimed(w, S, lag), phase[w] = "idle",
           NEW T, T = S \/ T = {}, claims'[w] = T,
           \A d \in T : seen'[w][d] = attemptCount[d],
           \A v \in Workers \ {w} : claims'[v] = claims[v] /\ phase'[v] = phase[v] /\ seen'[v] = seen[v],
           phase'[w] = IF T = {} THEN "idle" ELSE "batch",
           UNCHANGED <<current, result, acceptances>>
    PROVE  Safe'
<1>1. /\ S \in SUBSET Deliveries
      /\ \A d \in S : /\ status[d] \in {"pending", "retrying", "processing"}
                      /\ d \notin reclaimed' => status[d] \in {"pending", "retrying"}
                      /\ status'[d] = "processing" /\ lockedBy'[d] = WorkerID[w]
                      /\ owner'[d] = w
      /\ \A d \in Deliveries \ S :
            status'[d] = status[d] /\ lockedBy'[d] = lockedBy[d] /\ owner'[d] = owner[d]
      /\ reclaimed \subseteq reclaimed' /\ shared \subseteq shared'
      /\ \A d \in S \ shared', v \in Workers \ {w} : InHand(v, d) => WorkerID[v] # WorkerID[w]
      /\ attemptCount' = attemptCount /\ audit' = audit
    BY ClaimedRows
<1>2. current[w] = Nothing /\ claims[w] = {}
    BY DEF DeliveryInv, Safe, Shape, Working
<1>3. \A d \in Deliveries : ~InHand(w, d) /\ (InHand(w, d)' <=> d \in T)
    BY <1>2, WorkersAssumption DEF InHand
<1>4. \A v \in Workers \ {w}, d \in Deliveries : InHand(v, d)' <=> InHand(v, d)
    BY DEF InHand
<1>5. /\ \A d \in S : HoldsLease(w, d)'
      /\ \A v \in Workers, d \in Deliveries \ S : HoldsLease(v, d)' <=> HoldsLease(v, d)
      /\ \A v \in Workers \ {w}, d \in S \ shared' : ~(InHand(v, d) /\ HoldsLease(v, d)')
    BY <1>1 DEF HoldsLease
<1>6. Shape'
    <2>1. Nothing \notin T
        BY <1>1, WorkersAssumption
    <2> QED
        BY <1>2, <2>1 DEF DeliveryInv, Safe, Shape, Working
<1>7. Locks'
    BY <1>1 DEF DeliveryInv, Safe, Locks
<1>8. Remembers' /\ Knows'
    <2>1. ASSUME NEW d \in T
          PROVE  1..attemptCount[d] \subseteq audit[d] /\ \E v \in Workers : attemptCount[d] < MaxAttempts[v]
        BY <1>1 DEF DeliveryInv, Safe, Audited, AuditCovers, Left, Final
    <2>2. Remembers'
        BY <1>1, <1>3, <1>4, <2>1 DEF DeliveryInv, Safe, Remembers
    <2>3. Knows'
        BY <1>1, <1>3, <1>4, <1>5 DEF DeliveryInv, Safe, Knows
    <2> QED
        BY <2>2, <2>3
<1>9. Told'
    BY DEF DeliveryInv, Safe, Told
<1>10. Audited'
    BY <1>1 DEF DeliveryInv, Safe, Audited, AuditCovers, AuditMatchesCount
<1>11. Left'
    BY <1>1 DEF DeliveryInv, Safe, Left, Final
<1>12. AttemptsBounded' /\ SentWasAccepted'
    BY <1>1 DEF DeliveryInv, Safe, AttemptsBounded, SentWasAccepted
<1>13. Once'
    <2> SUFFICES ASSUME NEW d \in Deliveries \ reclaimed'
                 PROVE  /\ acceptances[d] <= 1
                        /\ \A v \in Workers : InHand(v, d)' => HoldsLease(v, d)'
                        /\ \A u, v \in Workers : InHand(u, d)' /\ InHand(v, d)' => u = v
                        /\ acceptances[d] > 0 => Accepted(d)'
        BY DEF Once
    <2>1. /\ acceptances[d] <= 1
          /\ \A v \in Workers : InHand(v, d) => HoldsLease(v, d)
          /\ \A u, v \in Workers : InHand(u, d) /\ InHand(v, d) => u = v
          /\ acceptances[d] > 0 => Accepted(d)
        BY <1>1 DEF DeliveryInv, Safe, Once
    <2>2. CASE d \in S
        <3>1. status[d] \in {"pending", "retrying"}
            BY <1>1, <2>2
        <3>2. \A v \in Workers : ~InHand(v, d)
            BY <2>1, <3>1 DEF HoldsLease
        <3>3. ~(acceptances[d] > 0)
            BY <2>1, <3>1 DEF Accepted
        <3> QED
            BY <1>4, <1>5, <2>1, <2>2, <3>2, <3>3
    <2>3. CASE d \notin S
        <3>1. acceptances[d] > 0 => Accepted(d)'
            BY <1>1, <1>2, <2>1, <2>3, WorkersAssumption DEF Accepted
        <3> QED
            BY <1>3, <1>4, <1>5, <2>1, <2>3, <3>1
    <2> QED
        BY <2>2, <2>3
<1> QED
    BY <1>6, <1>7, <1>8, <1>9, <1>10, <1>11, <1>12, <1>13 DEF Safe

LEMMA ClaimSafe ==
    ASSUME DeliveryInv, NEW w \in Workers, Claim(w)
    PROVE  DeliveryInv'
<1>1. PICK lag \in 0..MaxLag[w] : \E S \in FirstDue(lag) :
         /\ MarkClaimed(w, S, lag)
         /\ claims' = [claims EXCEPT ![w] = S]
         /\ seen' = [seen EXCEPT ![w] =
               [d \in Deliveries |-> IF d \in S THEN attemptCount[d] ELSE 0]]
    BY DEF Claim
<1>2. PICK S \in FirstDue(lag) :
         /\ MarkClaimed(w, S, lag)
         /\ claims' = [claims EXCEPT ![w] = S]
         /\ seen' = [seen EXCEPT ![w] =
               [d \in Deliveries |-> IF d \in S THEN attemptCount[d] ELSE 0]]
    BY <1>1
<1>3. S \in SUBSET Deliveries /\ S # {}
    BY DEF FirstDue
<1>4. TypeOK'
    <2>1. RowType' /\ owner' \in [Deliveries -> Workers \cup {NoOne}] /\ reclaimed' \subseteq Deliveries /\ shared' \subseteq Deliveries
        BY <1>2, <1>3, MarkClaimedType DEF DeliveryInv
    <2>2. [d \in Deliveries |-> IF d \in S THEN attemptCount[d] ELSE 0] \in [Deliveries -> Nat]
        BY DEF DeliveryInv, TypeOK
    <2>3. WorkerType'
        BY <1>2, <1>3, <2>2 DEF Claim, DeliveryInv, TypeOK, WorkerType
    <2>4. faults' \in 0..MaxFaults /\ acceptances' \in [Deliveries -> 0..2]
        BY DEF Claim, DeliveryInv, TypeOK
    <2> QED
        BY <2>1, <2>3, <2>4, TypePartsPrime DEF HistoryType
<1>5. /\ claims'[w] = S /\ phase[w] = "idle" /\ phase'[w] = "batch"
      /\ \A d \in S : seen'[w][d] = attemptCount[d]
      /\ \A v \in Workers \ {w} : claims'[v] = claims[v] /\ phase'[v] = phase[v] /\ seen'[v] = seen[v]
      /\ UNCHANGED <<current, result, acceptances>>
    BY <1>2, <1>3 DEF Claim, DeliveryInv, TypeOK
<1>6. Safe'
    BY <1>2, <1>3, <1>5, ClaimedSafe
<1> QED
    BY <1>4, <1>6 DEF DeliveryInv

LEMMA ClaimReplyLostSafe ==
    ASSUME DeliveryInv, NEW w \in Workers, ClaimReplyLost(w)
    PROVE  DeliveryInv'
<1>1. PICK lag \in 0..MaxLag[w] : \E S \in FirstDue(lag) : MarkClaimed(w, S, lag)
    BY DEF ClaimReplyLost
<1>2. PICK S \in FirstDue(lag) : MarkClaimed(w, S, lag)
    BY <1>1
<1>3. S \in SUBSET Deliveries
    BY DEF FirstDue
<1>4. TypeOK'
    <2>1. RowType' /\ owner' \in [Deliveries -> Workers \cup {NoOne}] /\ reclaimed' \subseteq Deliveries /\ shared' \subseteq Deliveries
        BY <1>2, <1>3, MarkClaimedType DEF DeliveryInv
    <2>2. WorkerType' /\ acceptances' \in [Deliveries -> 0..2]
        BY DEF ClaimReplyLost, workerVars, DeliveryInv, TypeOK, WorkerType
    <2>3. faults' \in 0..MaxFaults
        BY FaultType DEF ClaimReplyLost, DeliveryInv
    <2> QED
        BY <2>1, <2>2, <2>3, TypePartsPrime DEF HistoryType
<1>5. /\ claims'[w] = {} /\ phase[w] = "idle" /\ phase'[w] = "idle"
      /\ \A v \in Workers \ {w} : claims'[v] = claims[v] /\ phase'[v] = phase[v] /\ seen'[v] = seen[v]
      /\ UNCHANGED <<current, result, acceptances>>
    BY DEF ClaimReplyLost, workerVars, DeliveryInv, Safe, Shape
<1>6. Safe'
    BY <1>2, <1>5, ClaimedSafe
<1> QED
    BY <1>4, <1>6 DEF DeliveryInv

-----------------------------------------------------------------------------
(* Every step.                                                             *)

LEMMA RecordSafe ==
    ASSUME DeliveryInv, NEW w \in Workers, Record(w)
    PROVE  DeliveryInv'
<1>1. Drops(w) /\ WorkerType'
    BY RecordDrops
<1>2. current[w] \in Deliveries
    BY DEF Record, DeliveryInv, Safe, Shape, Working
<1>3. RowType'
    BY <1>2, WriteAttemptType DEF Record, DeliveryInv
<1>4. HistoryType' /\ faults' \in 0..MaxFaults
    BY DEF Record, DeliveryInv, TypeOK, HistoryType
<1>5. Safe'
    BY <1>1, WriteSafe DEF Record
<1> QED
    BY <1>1, <1>3, <1>4, <1>5, TypePartsPrime DEF DeliveryInv

LEMMA LeaseLostSafe ==
    ASSUME DeliveryInv, NEW w \in Workers, LeaseLost(w)
    PROVE  DeliveryInv'
<1>1. Drops(w) /\ WorkerType'
    BY AbandonDrops, AbandonType DEF LeaseLost, DeliveryInv
<1>2. RowType' /\ HistoryType' /\ faults' \in 0..MaxFaults
    BY DEF LeaseLost, DeliveryInv, TypeOK, RowType, HistoryType, rowVars
<1>3. Safe'
    BY <1>1, DropsSafe DEF LeaseLost
<1> QED
    BY <1>1, <1>2, <1>3, TypePartsPrime DEF DeliveryInv

LEMMA RecordFailsSafe ==
    ASSUME DeliveryInv, NEW w \in Workers, RecordFails(w)
    PROVE  DeliveryInv'
<1>1. Drops(w) /\ WorkerType'
    BY AbandonDrops, AbandonType DEF RecordFails, DeliveryInv
<1>2. current[w] \in Deliveries
    BY DEF RecordFails, DeliveryInv, Safe, Shape, Working
<1>3. HistoryType' /\ faults' \in 0..MaxFaults
    BY FaultType DEF RecordFails, DeliveryInv, TypeOK, HistoryType
<1>4. CASE UNCHANGED rowVars
    <2>1. RowType'
        BY <1>4 DEF DeliveryInv, TypeOK, RowType, rowVars
    <2>2. Safe'
        BY <1>1, <1>4, DropsSafe DEF RecordFails
    <2> QED
        BY <1>1, <1>3, <2>1, <2>2, TypePartsPrime DEF DeliveryInv
<1>5. CASE HoldsLease(w, current[w]) /\ WriteAttempt(w, current[w])
    <2>1. RowType'
        BY <1>2, <1>5, WriteAttemptType DEF DeliveryInv
    <2>2. Safe'
        BY <1>1, <1>5, WriteSafe DEF RecordFails
    <2> QED
        BY <1>1, <1>3, <2>1, <2>2, TypePartsPrime DEF DeliveryInv
<1> QED
    BY <1>4, <1>5 DEF RecordFails

LEMMA CrashSafe ==
    ASSUME DeliveryInv, NEW w \in Workers, Crash(w)
    PROVE  DeliveryInv'
<1>1. Drops(w) /\ WorkerType'
    BY AbandonDrops, AbandonType DEF Crash, DeliveryInv
<1>2. RowType' /\ HistoryType' /\ faults' \in 0..MaxFaults
    BY FaultType DEF Crash, DeliveryInv, TypeOK, RowType, HistoryType, rowVars
<1>3. Safe'
    BY <1>1, DropsSafe DEF Crash
<1> QED
    BY <1>1, <1>2, <1>3, TypePartsPrime DEF DeliveryInv

LEMMA DeliveryNext ==
    ASSUME DeliveryInv, [Next]_vars
    PROVE  DeliveryInv'
<1>1. CASE Tick
    BY <1>1, TickSafe
<1>2. ASSUME NEW d \in Deliveries, Enqueue(d) PROVE DeliveryInv'
    BY <1>2, EnqueueSafe
<1>3. ASSUME NEW w \in Workers, Claim(w) PROVE DeliveryInv'
    BY <1>3, ClaimSafe
<1>4. ASSUME NEW w \in Workers, ClaimReplyLost(w) PROVE DeliveryInv'
    BY <1>4, ClaimReplyLostSafe
<1>5. ASSUME NEW w \in Workers, WorkerStep(w) PROVE DeliveryInv'
    BY <1>5, StartDispatchSafe, DispatchedSafe, RecordSafe, LeaseLostSafe DEF WorkerStep
<1>6. ASSUME NEW w \in Workers, RecordFails(w) PROVE DeliveryInv'
    BY <1>6, RecordFailsSafe
<1>7. ASSUME NEW w \in Workers, Crash(w) PROVE DeliveryInv'
    BY <1>7, CrashSafe
<1>8. CASE UNCHANGED vars
    <2>1. UNCHANGED <<rowVars, workerVars, faults, owner, acceptances, reclaimed, shared>>
        BY <1>8 DEF vars, rowVars, workerVars
    <2>2. TypeOK'
        BY <2>1 DEF DeliveryInv, TypeOK, rowVars, workerVars
    <2>3. Shape' /\ Locks' /\ Told' /\ Audited' /\ Left' /\ AttemptsBounded' /\ SentWasAccepted'
        BY <2>1 DEF DeliveryInv, Safe, Shape, Locks, Told, Audited, AuditCovers, AuditMatchesCount,
                    Left, AttemptsBounded, SentWasAccepted, rowVars, workerVars
    <2>4. Remembers' /\ Knows' /\ Once'
        BY <2>1 DEF DeliveryInv, Safe, Remembers, Knows, Once, Accepted, InHand, HoldsLease,
                    rowVars, workerVars
    <2> QED
        BY <2>2, <2>3, <2>4 DEF DeliveryInv, Safe
<1> QED
    BY <1>1, <1>2, <1>3, <1>4, <1>5, <1>6, <1>7, <1>8 DEF Next

-----------------------------------------------------------------------------
(* The theorems.                                                           *)

\* The claim, send and record steps of notifications.go, in any interleaving
\* and with any faults, keep the inductive invariant, whoever shares an id.
THEOREM DeliveryInvariant == Spec => []DeliveryInv
<1>1. DeliveryInv /\ [Next]_vars => DeliveryInv'
    BY DeliveryNext
<1> QED
    BY <1>1, DeliveryInit, PTL DEF Spec

\* The outbox can be believed, whatever ids the workers use (all inline
\* dispatchers have one): through crashes, expired leases and lost replies the
\* attempts that attempt_count counts are in the audit table, which matches the
\* count unless two workers of one id had the row in hand; both keep to a policy,
\* a failed row used up the attempts of one, and a row marked sent was accepted.
THEOREM OutboxSafe == Spec => []OutboxOK
<1>1. DeliveryInv => OutboxOK
    BY DEF DeliveryInv, Safe, Audited, OutboxOK
<1> QED
    BY <1>1, DeliveryInvariant, PTL

\* A second acceptance needs a lease that expired before the result was
\* recorded: claimDueDeliveries hands out no row that somebody works on,
\* not even to a worker of the same id.
THEOREM DuplicateSafe == Spec => []DuplicateNeedsExpiry
<1>1. DeliveryInv => DuplicateNeedsExpiry
    <2> SUFFICES ASSUME DeliveryInv, NEW d \in Deliveries, d \notin reclaimed
                 PROVE  ~(acceptances[d] > 1)
        BY DEF DuplicateNeedsExpiry
    <2>1. acceptances[d] \in 0..2 /\ acceptances[d] <= 1
        BY DEF DeliveryInv, TypeOK, Safe, Once
    <2> QED
        BY <2>1
<1> QED
    BY <1>1, DeliveryInvariant, PTL

\* The latest claim, or a namesake of its worker, decides the row.
Fenced(d) ==
    attemptCount'[d] # attemptCount[d] \/ (status'[d] \in Final /\ status[d] \notin Final)
       => \E w \in Workers : /\ current[w] = d
                             /\ owner[d] \in Workers /\ WorkerID[w] = WorkerID[owner[d]]
                             /\ w = owner[d] \/ d \in shared

LEMMA FencedWrite ==
    ASSUME DeliveryInv, NEW w \in Workers, phase[w] = "recording",
           HoldsLease(w, current[w]), WriteAttempt(w, current[w]), NEW d \in Deliveries
    PROVE  Fenced(d)
<1>1. current[w] \in Deliveries /\ lockedBy[current[w]] = WorkerID[w]
    BY DEF DeliveryInv, Safe, Shape, Working, HoldsLease
<1>2. CASE d = current[w]
    <2>1. lockedBy[d] # NoOne
        BY <1>1, <1>2, WorkersAssumption DEF Ids
    <2>2. owner[d] \in Workers /\ WorkerID[owner[d]] = WorkerID[w]
        BY <1>1, <1>2, <2>1 DEF DeliveryInv, Safe, Locks
    <2>3. owner[d] = w \/ d \in shared
        BY <1>2 DEF DeliveryInv, Safe, Knows, InHand
    <2> QED
        BY <1>2, <2>2, <2>3 DEF Fenced
<1>3. CASE d # current[w]
    <2>1. attemptCount'[d] = attemptCount[d]
        BY <1>1, <1>3 DEF WriteAttempt, DeliveryInv, TypeOK
    <2>2. status'[d] = status[d]
        BY <1>1, <1>3 DEF WriteAttempt, DeliveryInv, TypeOK
    <2> QED
        BY <2>1, <2>2 DEF Fenced
<1> QED
    BY <1>2, <1>3

LEMMA FencedStep ==
    ASSUME DeliveryInv, [Next]_vars, NEW d \in Deliveries
    PROVE  Fenced(d)
<1>1. CASE UNCHANGED <<status, attemptCount>>
    BY <1>1 DEF Fenced
<1>2. ASSUME NEW e \in Deliveries, Enqueue(e) PROVE Fenced(d)
    BY <1>2 DEF Enqueue, Fenced, Final, DeliveryInv, TypeOK
<1>3. ASSUME NEW w \in Workers, Claim(w) \/ ClaimReplyLost(w) PROVE Fenced(d)
    <2>1. PICK lag \in 0..MaxLag[w] : \E S \in FirstDue(lag) : MarkClaimed(w, S, lag)
        BY <1>3 DEF Claim, ClaimReplyLost
    <2>2. PICK S \in FirstDue(lag) : MarkClaimed(w, S, lag)
        BY <2>1
    <2>3. attemptCount' = attemptCount /\ (status'[d] = status[d] \/ status'[d] = "processing")
        BY <2>2 DEF MarkClaimed
    <2> QED
        BY <2>3 DEF Fenced, Final
<1>4. ASSUME NEW w \in Workers, Record(w) PROVE Fenced(d)
    BY <1>4, FencedWrite DEF Record
<1>5. ASSUME NEW w \in Workers, RecordFails(w) PROVE Fenced(d)
    BY <1>1, <1>5, FencedWrite DEF RecordFails, rowVars
<1>6. ASSUME NEW w \in Workers, StartDispatch(w) \/ Dispatched(w) \/ LeaseLost(w) \/ Crash(w)
      PROVE  Fenced(d)
    BY <1>1, <1>6 DEF StartDispatch, Dispatched, LeaseLost, Crash, rowVars
<1>7. CASE Tick \/ UNCHANGED vars
    BY <1>1, <1>7 DEF Tick, vars
<1> QED
    BY <1>2, <1>3, <1>4, <1>5, <1>6, <1>7 DEF Next, WorkerStep

\* The fence of recordDeliveryAttempt (status = 'processing' and locked_by)
\* stops the late result of a worker whose lease was taken over, by anyone who
\* does not have its id: a row's outcome is written by its latest claimer or,
\* when one id had the row in hand twice, by a namesake.
THEOREM FenceSafe == Spec => FencedByLatestClaim
<1>1. ASSUME DeliveryInv, [Next]_vars
      PROVE  [\A d \in Deliveries :
                 attemptCount'[d] # attemptCount[d] \/ (status'[d] \in Final /\ status[d] \notin Final)
                    => \E w \in Workers : /\ current[w] = d
                                          /\ owner[d] \in Workers /\ WorkerID[w] = WorkerID[owner[d]]
                                          /\ w = owner[d] \/ d \in shared]_vars
    BY <1>1, FencedStep DEF Fenced
<1> QED
    BY <1>1, DeliveryInvariant, PTL DEF Spec, FencedByLatestClaim
=============================================================================
