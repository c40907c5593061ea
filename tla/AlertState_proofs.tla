-------------------------- MODULE AlertState_proofs --------------------------
(***************************************************************************)
(* Proofs about AlertState, for any keys, scopes, syncers and cooldown:    *)
(* the table and the notices are as documented for every key that no two   *)
(* transactions worked on at the same time, and a key with two rows is     *)
(* stuck.                                                                  *)
(*                                                                         *)
(* The transaction decides from a snapshot, so the invariant has to say    *)
(* what a snapshot knows: for a key without overlap it is the table.       *)
(***************************************************************************)
EXTENDS AlertState, TLAPS

\* The rows one key may have.
Rowset == [Slots -> Row]
AtMostOne(t) == t[1].status = "absent" \/ t[2].status = "absent"
Firing(t) == \E j \in Slots : t[j].status = "firing"

\* Only what was covered can have triggered.
Planned == \A s \in Syncers : triggered[s] \subseteq scope[s]

\* A transaction that has a key to itself still sees the table.
Current ==
    \A s \in running : \A k \in scope[s] \ overlapped :
        /\ snap[s][k] = table[k]
        /\ \A q \in running \ {s} : k \notin scope[q]

Unique == \A k \in Keys : UniqueStatus(table[k])
Single == \A k \in Keys \ overlapped : AtMostOne(table[k])

\* A triggered notice that no resolved one has followed belongs to a firing row.
Announced ==
    \A k \in Keys \ overlapped : streak[k] <= 1 /\ (streak[k] = 1 => Firing(table[k]))

\* last_fired_at is never before the last triggered notice.
Cooled(t, n, g) ==
    /\ g >= Cooldown
    /\ n # -1 => \E j \in Slots : t[j].status # "absent" /\ n <= t[j].fired
Cooling ==
    \A k \in Keys \ (overlapped \cup backdated) : Cooled(table[k], noticedAt[k], gap[k])

AlertInv == TypeOK /\ Planned /\ Current /\ Unique /\ Single /\ Announced /\ Cooling

-----------------------------------------------------------------------------
(* The rows of one key.                                                    *)

LEMMA AbsentType == Absent \in Row /\ NoSnapshot \in Snapshot
BY AlertStateAssumption DEF Absent, Row, Status, Times, NoSnapshot, Snapshot, Slots

\* Matched and Unmatched leave rows of the right shape, whatever the snapshot.
LEMMA MatchedType ==
    ASSUME NEW t \in Rowset, NEW known \in Rowset, NEW i \in Slots, NEW at \in Times
    PROVE  Matched(t, known, i, at) \in Rowset
BY DEF Matched, FreeSlot, Rowset, Slots, Row, Status

LEMMA UnmatchedType ==
    ASSUME NEW t \in Rowset, NEW known \in Rowset
    PROVE  Unmatched(t, known) \in Rowset
BY DEF Unmatched, Rowset, Slots, Row, Status

\* A match leaves one row, and it is firing.
LEMMA MatchedOne ==
    ASSUME NEW t \in Rowset, AtMostOne(t), NEW i \in InstanceByKey(t), NEW at \in Times
    PROVE  /\ AtMostOne(Matched(t, t, i, at))
           /\ Firing(Matched(t, t, i, at))
BY DEF AtMostOne, Firing, Matched, InstanceByKey, Exists, FreeSlot, Rowset, Slots, Row, Status

LEMMA UnmatchedOne ==
    ASSUME NEW t \in Rowset, AtMostOne(t)
    PROVE  /\ AtMostOne(Unmatched(t, t))
           /\ Firing(t) <=> Resolves(t)
BY DEF AtMostOne, Firing, Resolves, Unmatched, Rowset, Slots, Row, Status

\* What is announced was not firing.
LEMMA AnnouncedWasQuiet ==
    ASSUME NEW t \in Rowset, AtMostOne(t), NEW i \in InstanceByKey(t), NEW at \in Times,
           Announces(t, i, at)
    PROVE  ~Firing(t)
BY DEF AtMostOne, Firing, Announces, InstanceByKey, Exists, Rowset, Slots, Row, Status

\* A match that does not set last_fired_at back keeps the distance of notices.
LEMMA MatchedCooled ==
    ASSUME NEW t \in Rowset, AtMostOne(t), NEW i \in InstanceByKey(t), NEW at \in Times,
           NEW n \in Times \cup {-1}, NEW g \in Int, Cooled(t, n, g),
           \A j \in Slots : ~(Matched(t, t, i, at)[j].fired < t[j].fired)
    PROVE  LET told == Announces(t, i, at) IN
           Cooled(Matched(t, t, i, at), IF told THEN at ELSE n,
                  IF told /\ n # -1 /\ at - n < g THEN at - n ELSE g)
<1> USE AlertStateAssumption DEF Times
<1>1. CASE ~Exists(t)
    <2>1. n = -1
        BY <1>1 DEF Cooled, Exists
    <2>2. Announces(t, i, at)
        BY <1>1 DEF Announces
    <2>3. Matched(t, t, i, at)[FreeSlot(t)] = [status |-> "firing", fired |-> at] /\ FreeSlot(t) \in Slots
        BY <1>1 DEF Matched, FreeSlot, Rowset, Slots
    <2> QED
        BY <2>1, <2>2, <2>3 DEF Cooled
<1>2. CASE Exists(t) /\ t[i].status = "resolved"
    <2>1. i \in Slots /\ Matched(t, t, i, at)[i] = [status |-> "firing", fired |-> at]
        BY <1>2 DEF Matched, InstanceByKey, Rowset
    <2>2. \A j \in Slots \ {i} : t[j].status = "absent"
        BY <1>2, <2>1 DEF AtMostOne, Slots
    <2>3. t[i].fired \in Int /\ t[i].fired <= at
        BY <2>1 DEF Rowset, Row
    <2>4. n # -1 => n <= t[i].fired
        BY <2>2, <2>1 DEF Cooled
    <2>5. Announces(t, i, at) => Cooldown = 0 \/ at - t[i].fired >= Cooldown
        BY <1>2, <2>3 DEF Announces, Suppressed
    <2>6. Announces(t, i, at) /\ n # -1 => at - n >= Cooldown
        BY <2>3, <2>4, <2>5
    <2> QED
        BY <2>1, <2>3, <2>4, <2>6 DEF Cooled
<1>3. CASE Exists(t) /\ t[i].status # "resolved"
    <2>1. Matched(t, t, i, at) = t /\ ~Announces(t, i, at)
        BY <1>3 DEF Matched, Announces
    <2> QED
        BY <2>1 DEF Cooled
<1> QED
    BY <1>1, <1>2, <1>3

LEMMA UnmatchedCooled ==
    ASSUME NEW t \in Rowset, NEW n, NEW g, Cooled(t, n, g)
    PROVE  Cooled(Unmatched(t, t), n, g)
BY DEF Cooled, Unmatched, Slots

-----------------------------------------------------------------------------
(* Type correctness.                                                       *)

LEMMA AlertInit == Init => AlertInv
<1> SUFFICES ASSUME Init PROVE AlertInv
    OBVIOUS
<1> USE AlertStateAssumption
<1>1. TypeOK
    BY AbsentType DEF Init, TypeOK, Times
<1>2. \A k \in Keys : table[k][1] = Absent /\ table[k][2] = Absent
    BY DEF Init, NoSnapshot, Slots
<1>3. Planned /\ Current
    BY DEF Init, Planned, Current
<1>4. Unique /\ Single
    BY <1>2 DEF Unique, UniqueStatus, Single, AtMostOne, Absent
<1>5. Announced
    <2>1. \A k \in Keys : streak[k] = 0
        BY DEF Init
    <2>2. 0 <= 1 /\ 0 # 1
        OBVIOUS
    <2> QED
        BY <2>1, <2>2, Zenon DEF Announced
<1>6. Cooling
    <2>1. \A k \in Keys : noticedAt[k] = -1 /\ gap[k] = Cooldown
        BY DEF Init
    <2>2. Cooldown >= Cooldown
        OBVIOUS
    <2> QED
        BY <2>1, <2>2, Zenon DEF Cooling, Cooled
<1> QED
    BY <1>1, <1>3, <1>4, <1>5, <1>6 DEF AlertInv

\* What each syncer has in hand.
SyncerOK ==
    /\ running \subseteq Syncers
    /\ snap \in [Syncers -> Snapshot]
    /\ scope \in [Syncers -> SUBSET Keys]
    /\ triggered \in [Syncers -> SUBSET Keys]
    /\ observedAt \in [Syncers -> Times]
    /\ Planned

LEMMA ForgetOK ==
    ASSUME SyncerOK, NEW s \in Syncers, Forget(s)
    PROVE  SyncerOK'
<1>1. 0 \in Times /\ NoSnapshot \in Snapshot
    BY AbsentType, AlertStateAssumption DEF Times
<1>2. /\ running' \subseteq Syncers
      /\ snap' \in [Syncers -> Snapshot]
      /\ scope' \in [Syncers -> SUBSET Keys]
      /\ triggered' \in [Syncers -> SUBSET Keys]
      /\ observedAt' \in [Syncers -> Times]
    BY <1>1 DEF SyncerOK, Forget
<1>3. Planned'
    BY DEF SyncerOK, Forget, Planned
<1> QED
    BY <1>2, <1>3 DEF SyncerOK

LEMMA LoadSyncerOK ==
    ASSUME SyncerOK, table \in Snapshot, NEW s \in Syncers, Load(s)
    PROVE  SyncerOK'
<1>1. PICK sc, tr, at :
          /\ sc \in Scopes /\ tr \subseteq sc /\ at \in ObservableTimes
          /\ scope' = [scope EXCEPT ![s] = sc]
          /\ triggered' = [triggered EXCEPT ![s] = tr]
          /\ observedAt' = [observedAt EXCEPT ![s] = at]
          /\ snap' = [snap EXCEPT ![s] =
                [k \in Keys |-> IF k \in sc THEN table[k] ELSE NoSnapshot[k]]]
    BY DEF Load
<1>2. sc \subseteq Keys /\ at \in Times
    BY <1>1, AlertStateAssumption DEF ObservableTimes
<1>3. [k \in Keys |-> IF k \in sc THEN table[k] ELSE NoSnapshot[k]] \in Snapshot
    BY AbsentType DEF Snapshot
<1>4. /\ running' \subseteq Syncers
      /\ snap' \in [Syncers -> Snapshot]
      /\ scope' \in [Syncers -> SUBSET Keys]
      /\ triggered' \in [Syncers -> SUBSET Keys]
      /\ observedAt' \in [Syncers -> Times]
    BY <1>1, <1>2, <1>3 DEF SyncerOK, Load
<1>5. Planned'
    BY <1>1 DEF SyncerOK, Planned
<1> QED
    BY <1>4, <1>5 DEF SyncerOK

\* The rows and the history after a commit, with the choice it made.
Committed(s, pick) ==
    /\ pick \in [Keys -> Slots]
    /\ \A k \in Keys : pick[k] \in InstanceByKey(snap[s][k])
    /\ table' = [k \in Keys |-> Reconciled(s, k, pick[k])]
    /\ streak' = [k \in Keys |->
          IF NoticeTriggered(s, k, pick[k])
            THEN IF streak[k] < 2 THEN streak[k] + 1 ELSE 2
          ELSE IF NoticeResolved(s, k) THEN 0 ELSE streak[k]]
    /\ noticedAt' = [k \in Keys |->
          IF NoticeTriggered(s, k, pick[k]) THEN observedAt[s] ELSE noticedAt[k]]
    /\ gap' = [k \in Keys |->
          IF /\ NoticeTriggered(s, k, pick[k])
             /\ noticedAt[k] # -1
             /\ observedAt[s] - noticedAt[k] < gap[k]
            THEN observedAt[s] - noticedAt[k] ELSE gap[k]]

LEMMA CommitChooses ==
    ASSUME NEW s \in Syncers, Commit(s)
    PROVE  \E pick : Committed(s, pick)
BY DEF Commit, Committed

LEMMA CommitType ==
    ASSUME TypeOK, NEW s \in Syncers, NEW pick, Committed(s, pick)
    PROVE  /\ table' \in Snapshot
           /\ streak' \in [Keys -> 0..2]
           /\ noticedAt' \in [Keys -> Times \cup {-1}]
           /\ gap' \in [Keys -> Int]
<1>1. \A k \in Keys : /\ table[k] \in Rowset /\ snap[s][k] \in Rowset
                      /\ pick[k] \in Slots
    BY DEF TypeOK, Snapshot, Rowset, Committed
<1>2. observedAt[s] \in Times
    BY DEF TypeOK
<1>3. \A k \in Keys : Reconciled(s, k, pick[k]) \in Rowset
    BY <1>1, <1>2, MatchedType, UnmatchedType DEF Reconciled
<1>4. table' \in Snapshot
    BY <1>3 DEF Committed, Snapshot, Rowset
<1>5. streak' \in [Keys -> 0..2]
    BY DEF Committed, TypeOK
<1>6. noticedAt' \in [Keys -> Times \cup {-1}]
    BY <1>2 DEF Committed, TypeOK
<1>7. gap' \in [Keys -> Int]
    BY <1>2 DEF Committed, TypeOK, Times
<1> QED
    BY <1>4, <1>5, <1>6, <1>7

LEMMA AlertType ==
    ASSUME TypeOK, Planned, [Next]_vars
    PROVE  (TypeOK /\ Planned)'
<1>0. SyncerOK
    BY DEF TypeOK, SyncerOK
<1>1. CASE Tick
    BY <1>1, AlertStateAssumption DEF Tick, TypeOK, Planned, Times, syncVars, history
<1>2. ASSUME NEW s \in Syncers, Load(s)
      PROVE  (TypeOK /\ Planned)'
    <2>1. SyncerOK'
        BY <1>0, <1>2, LoadSyncerOK DEF TypeOK
    <2>2. overlapped' \subseteq Keys
        BY <1>2, AlertStateAssumption DEF Load, TypeOK
    <2> QED
        BY <1>2, <2>1, <2>2 DEF Load, TypeOK, SyncerOK
<1>3. ASSUME NEW s \in Syncers, Commit(s)
      PROVE  (TypeOK /\ Planned)'
    <2>1. PICK pick : Committed(s, pick)
        BY <1>3, CommitChooses
    <2>2. SyncerOK'
        BY <1>0, <1>3, ForgetOK DEF Commit
    <2> QED
        BY <1>3, <2>1, <2>2, CommitType DEF Commit, TypeOK, SyncerOK
<1>4. ASSUME NEW s \in Syncers, Rollback(s)
      PROVE  (TypeOK /\ Planned)'
    <2>1. SyncerOK'
        BY <1>0, <1>4, ForgetOK DEF Rollback
    <2> QED
        BY <1>4, <2>1 DEF Rollback, TypeOK, SyncerOK, history
<1>5. CASE UNCHANGED vars
    BY <1>5 DEF vars, TypeOK, Planned
<1> QED
    BY <1>1, <1>2, <1>3, <1>4, <1>5 DEF Next

-----------------------------------------------------------------------------
(* One key in one commit.                                                  *)

\* A key the transaction does not cover is left alone, its history too.
LEMMA OutOfScope ==
    ASSUME TypeOK, Planned, NEW s \in Syncers, NEW pick, Committed(s, pick),
           NEW k \in Keys, k \notin scope[s]
    PROVE  /\ table'[k] = table[k] /\ streak'[k] = streak[k]
           /\ noticedAt'[k] = noticedAt[k] /\ gap'[k] = gap[k]
<1>1. k \notin triggered[s]
    BY DEF Planned
<1>2. ~NoticeTriggered(s, k, pick[k]) /\ ~NoticeResolved(s, k)
    BY <1>1 DEF NoticeTriggered, NoticeResolved
<1> QED
    BY <1>2 DEF Committed, Reconciled

\* A matching key whose snapshot is the table.
LEMMA CommitMatch ==
    ASSUME AlertInv, NEW s \in running, NEW pick, Committed(s, pick),
           NEW k \in triggered[s] \ overlapped
    PROVE  /\ AtMostOne(table'[k])
           /\ streak'[k] <= 1 /\ Firing(table'[k])
           /\ (/\ k \notin backdated
               /\ \A j \in Slots : ~(table'[k][j].fired < table[k][j].fired))
              => Cooled(table'[k], noticedAt'[k], gap'[k])
<1>1. /\ k \in Keys /\ s \in Syncers /\ k \in scope[s]
      /\ table[k] \in Rowset /\ observedAt[s] \in Times
      /\ streak[k] \in 0..2 /\ noticedAt[k] \in Times \cup {-1} /\ gap[k] \in Int
    BY DEF AlertInv, TypeOK, Planned, Snapshot, Rowset
<1>2. snap[s][k] = table[k]
    BY <1>1 DEF AlertInv, Current
<1>3. AtMostOne(table[k])
    BY <1>1 DEF AlertInv, Single
<1>4. pick[k] \in InstanceByKey(table[k])
    BY <1>1, <1>2 DEF Committed
<1>5. table'[k] = Matched(table[k], table[k], pick[k], observedAt[s])
    BY <1>1, <1>2 DEF Committed, Reconciled
<1>6. NoticeTriggered(s, k, pick[k]) <=> Announces(table[k], pick[k], observedAt[s])
    BY <1>1, <1>2 DEF NoticeTriggered
<1>7. ~NoticeResolved(s, k)
    BY DEF NoticeResolved
<1>8. AtMostOne(table'[k]) /\ Firing(table'[k])
    BY <1>1, <1>3, <1>4, <1>5, MatchedOne
<1>9. streak'[k] <= 1
    <2>1. CASE Announces(table[k], pick[k], observedAt[s])
        <3>1. ~Firing(table[k])
            BY <2>1, <1>1, <1>3, <1>4, AnnouncedWasQuiet
        <3>2. streak[k] <= 1 /\ streak[k] # 1
            BY <1>1, <3>1 DEF AlertInv, Announced
        <3>3. streak'[k] = IF streak[k] < 2 THEN streak[k] + 1 ELSE 2
            BY <2>1, <1>1, <1>6 DEF Committed
        <3> QED
            BY <1>1, <3>2, <3>3
    <2>2. CASE ~Announces(table[k], pick[k], observedAt[s])
        <3>1. streak'[k] = streak[k]
            BY <2>2, <1>1, <1>6, <1>7 DEF Committed
        <3> QED
            BY <1>1, <3>1 DEF AlertInv, Announced
    <2> QED
        BY <2>1, <2>2
<1>10. ASSUME k \notin backdated, \A j \in Slots : ~(table'[k][j].fired < table[k][j].fired)
       PROVE  Cooled(table'[k], noticedAt'[k], gap'[k])
    <2> DEFINE told == Announces(table[k], pick[k], observedAt[s])
    <2>1. Cooled(table[k], noticedAt[k], gap[k])
        BY <1>1, <1>10 DEF AlertInv, Cooling
    <2>2. /\ noticedAt'[k] = IF told THEN observedAt[s] ELSE noticedAt[k]
          /\ gap'[k] = IF told /\ noticedAt[k] # -1 /\ observedAt[s] - noticedAt[k] < gap[k]
                         THEN observedAt[s] - noticedAt[k] ELSE gap[k]
        BY <1>1, <1>6 DEF Committed
    <2> HIDE DEF told
    <2>3. \A j \in Slots : ~(Matched(table[k], table[k], pick[k], observedAt[s])[j].fired < table[k][j].fired)
        BY <1>10, <1>5
    <2> QED
        BY <1>1, <1>3, <1>4, <1>5, <2>1, <2>2, <2>3, MatchedCooled DEF told
<1> QED
    BY <1>8, <1>9, <1>10

\* A key of the scope that no longer matches.
LEMMA CommitResolve ==
    ASSUME AlertInv, NEW s \in running, NEW pick, Committed(s, pick),
           NEW k \in (scope[s] \ triggered[s]) \ overlapped
    PROVE  /\ AtMostOne(table'[k])
           /\ streak'[k] = 0
           /\ k \notin backdated => Cooled(table'[k], noticedAt'[k], gap'[k])
<1>1. /\ k \in Keys /\ s \in Syncers
      /\ table[k] \in Rowset /\ streak[k] \in 0..2
    BY DEF AlertInv, TypeOK, Snapshot, Rowset
<1>2. snap[s][k] = table[k]
    BY <1>1 DEF AlertInv, Current
<1>3. AtMostOne(table[k])
    BY <1>1 DEF AlertInv, Single
<1>4. table'[k] = Unmatched(table[k], table[k])
    BY <1>1, <1>2 DEF Committed, Reconciled
<1>5. ~NoticeTriggered(s, k, pick[k])
    BY DEF NoticeTriggered
<1>6. NoticeResolved(s, k) <=> Firing(table[k])
    BY <1>1, <1>2, <1>3, UnmatchedOne DEF NoticeResolved
<1>7. AtMostOne(table'[k])
    BY <1>1, <1>3, <1>4, UnmatchedOne
<1>8. streak'[k] = 0
    <2>1. streak'[k] = IF Firing(table[k]) THEN 0 ELSE streak[k]
        BY <1>1, <1>5, <1>6 DEF Committed
    <2>2. streak[k] <= 1 /\ (streak[k] = 1 => Firing(table[k]))
        BY <1>1 DEF AlertInv, Announced
    <2> QED
        BY <1>1, <2>1, <2>2
<1>9. ASSUME k \notin backdated
      PROVE  Cooled(table'[k], noticedAt'[k], gap'[k])
    <2>1. noticedAt'[k] = noticedAt[k] /\ gap'[k] = gap[k]
        BY <1>1, <1>5 DEF Committed
    <2>2. Cooled(table[k], noticedAt[k], gap[k])
        BY <1>1, <1>9 DEF AlertInv, Cooling
    <2> QED
        BY <1>1, <1>4, <2>1, <2>2, UnmatchedCooled
<1> QED
    BY <1>7, <1>8, <1>9

-----------------------------------------------------------------------------
(* The inductive step.                                                     *)

LEMMA LoadKeeps ==
    ASSUME AlertInv, NEW s \in Syncers, Load(s)
    PROVE  (Current /\ Unique /\ Single /\ Announced /\ Cooling)'
<1>1. PICK sc :
          /\ sc \in Scopes
          /\ scope' = [scope EXCEPT ![s] = sc]
          /\ snap' = [snap EXCEPT ![s] =
                [k \in Keys |-> IF k \in sc THEN table[k] ELSE NoSnapshot[k]]]
          /\ overlapped' = overlapped \cup {k \in sc : \E q \in running : k \in scope[q]}
    BY DEF Load
<1>2. sc \subseteq Keys
    BY <1>1, AlertStateAssumption
<1>3. /\ UNCHANGED <<table, streak, noticedAt, gap, backdated>>
      /\ running' = running \cup {s} /\ s \notin running
    BY DEF Load
<1>4. Current'
    <2> SUFFICES ASSUME NEW p \in running', NEW k \in scope'[p] \ overlapped'
                 PROVE  /\ snap'[p][k] = table[k]
                        /\ \A q \in running' \ {p} : k \notin scope'[q]
        BY <1>3 DEF Current
    <2>1. CASE p = s
        <3>1. k \in sc /\ k \in Keys
            BY <1>1, <1>2, <2>1 DEF AlertInv, TypeOK
        <3>2. snap'[p][k] = table[k]
            BY <1>1, <2>1, <3>1 DEF AlertInv, TypeOK
        <3>3. \A q \in running : k \notin scope[q]
            BY <1>1, <3>1
        <3> QED
            BY <1>1, <1>3, <2>1, <3>2, <3>3 DEF AlertInv, TypeOK
    <2>2. CASE p # s
        <3>1. p \in running /\ k \in scope[p] \ overlapped
            BY <1>1, <1>3, <2>2 DEF AlertInv, TypeOK
        <3>2. snap'[p] = snap[p]
            BY <1>1, <1>3, <2>2, <3>1 DEF AlertInv, TypeOK
        <3>3. k \notin sc
            BY <1>1, <3>1
        <3>4. snap[p][k] = table[k] /\ \A q \in running \ {p} : k \notin scope[q]
            BY <3>1 DEF AlertInv, Current
        <3> QED
            BY <1>1, <1>3, <3>2, <3>3, <3>4 DEF AlertInv, TypeOK
    <2> QED
        BY <2>1, <2>2
<1>5. Unique'
    BY <1>3 DEF AlertInv, Unique, UniqueStatus
<1>6. Single' /\ Announced' /\ Cooling'
    BY <1>1, <1>3 DEF AlertInv, Single, Announced, Cooling
<1> QED
    BY <1>4, <1>5, <1>6

\* Leaving the table alone, or changing only the keys of its own scope, a
\* syncer that ends does not disturb what the others see.
LEMMA ForgetKeeps ==
    ASSUME AlertInv, NEW s \in running, Forget(s), UNCHANGED overlapped,
           \A k \in Keys \ scope[s] : table'[k] = table[k]
    PROVE  Current'
<1> SUFFICES ASSUME NEW p \in running', NEW k \in scope'[p] \ overlapped
             PROVE  /\ snap'[p][k] = table'[k]
                    /\ \A q \in running' \ {p} : k \notin scope'[q]
    BY DEF Current
<1>1. p \in running /\ p # s /\ scope'[p] = scope[p] /\ snap'[p] = snap[p] /\ k \in Keys
    BY DEF Forget, AlertInv, TypeOK
<1>2. /\ snap[p][k] = table[k]
      /\ \A q \in running \ {p} : k \notin scope[q]
    BY <1>1 DEF AlertInv, Current
<1>3. k \notin scope[s]
    BY <1>1, <1>2
<1> QED
    BY <1>1, <1>2, <1>3 DEF Forget, AlertInv, TypeOK

LEMMA CommitKeeps ==
    ASSUME AlertInv, NEW s \in Syncers, Commit(s)
    PROVE  (Current /\ Unique /\ Single /\ Announced /\ Cooling)'
<1>1. PICK pick : Committed(s, pick)
    BY CommitChooses
<1>2. /\ s \in running /\ Forget(s) /\ UNCHANGED overlapped
      /\ \A k \in Keys : UniqueStatus(table'[k])
      /\ backdated' = backdated \cup
            {k \in Keys : \E i \in Slots : table'[k][i].fired < table[k][i].fired}
    BY DEF Commit
<1>3. \A k \in Keys \ scope[s] :
          /\ table'[k] = table[k] /\ streak'[k] = streak[k]
          /\ noticedAt'[k] = noticedAt[k] /\ gap'[k] = gap[k]
    BY <1>1, OutOfScope DEF AlertInv
<1>4. Current'
    BY <1>2, <1>3, ForgetKeeps
<1>5. Unique'
    BY <1>2 DEF Unique, UniqueStatus
<1>6. ASSUME NEW k \in Keys \ overlapped
      PROVE  /\ AtMostOne(table'[k])
             /\ streak'[k] <= 1 /\ (streak'[k] = 1 => Firing(table'[k]))
             /\ k \notin backdated' => Cooled(table'[k], noticedAt'[k], gap'[k])
    <2>1. CASE k \in triggered[s]
        BY <2>1, <1>1, <1>2, CommitMatch
    <2>2. CASE k \in scope[s] \ triggered[s]
        BY <2>2, <1>1, <1>2, CommitResolve
    <2>3. CASE k \notin scope[s]
        BY <2>3, <1>2, <1>3 DEF AlertInv, Single, Announced, Cooling
    <2>4. triggered[s] \subseteq scope[s]
        BY DEF AlertInv, Planned
    <2> QED
        BY <2>1, <2>2, <2>3, <2>4
<1>7. Single' /\ Announced' /\ Cooling'
    BY <1>2, <1>6 DEF Single, Announced, Cooling
<1> QED
    BY <1>4, <1>5, <1>7

LEMMA AlertStep == AlertInv /\ [Next]_vars => AlertInv'
<1> SUFFICES ASSUME AlertInv, [Next]_vars PROVE AlertInv'
    OBVIOUS
<1>0. (TypeOK /\ Planned)'
    BY AlertType DEF AlertInv
<1>1. CASE Tick
    BY <1>0, <1>1 DEF Tick, syncVars, history, AlertInv, Current, Unique, UniqueStatus,
                      Single, Announced, Cooling
<1>2. ASSUME NEW s \in Syncers, Load(s) PROVE AlertInv'
    BY <1>0, <1>2, LoadKeeps DEF AlertInv
<1>3. ASSUME NEW s \in Syncers, Commit(s) PROVE AlertInv'
    BY <1>0, <1>3, CommitKeeps DEF AlertInv
<1>4. ASSUME NEW s \in Syncers, Rollback(s) PROVE AlertInv'
    <2>1. s \in running /\ Forget(s) /\ UNCHANGED <<table, streak, noticedAt, gap, overlapped, backdated>>
        BY <1>4 DEF Rollback, history
    <2>2. Current'
        BY <2>1, ForgetKeeps
    <2> QED
        BY <1>0, <2>1, <2>2 DEF AlertInv, Unique, UniqueStatus, Single, Announced, Cooling
<1>5. CASE UNCHANGED vars
    BY <1>0, <1>5 DEF vars, AlertInv, Current, Unique, UniqueStatus, Single, Announced, Cooling
<1> QED
    BY <1>1, <1>2, <1>3, <1>4, <1>5 DEF Next

\* The inductive invariant of SyncAlertState: for a key that no two transactions
\* worked on at the same time, what a transaction read is still the table, the
\* table has one row, and the notices agree with its status and last_fired_at.
THEOREM AlertInvariant == Spec => []AlertInv
BY AlertInit, AlertStep, PTL DEF Spec

-----------------------------------------------------------------------------
(* The properties.                                                         *)

\* alert_instances is well formed and has one row per key, for every key that
\* SyncAlertState never worked on in two transactions at once.
THEOREM TableSafe == Spec => []TableOK
<1>1. AlertInv => TableOK
    <2> SUFFICES ASSUME AlertInv, NEW k \in Keys \ overlapped, NEW i \in Rows(k), NEW j \in Rows(k)
                 PROVE  i = j
        BY DEF AlertInv, TableOK, OneRowPerKey
    <2> QED
        BY DEF AlertInv, Single, AtMostOne, Rows, Slots
<1> QED
    BY <1>1, AlertInvariant, PTL

\* An incident is announced once: reconcileState enqueues no second triggered
\* notice before a resolved one.
THEOREM AnnouncedOnceSafe == Spec => []AnnouncedOnce
<1>1. AlertInv => AnnouncedOnce
    BY DEF AlertInv, Announced, AnnouncedOnce
<1> QED
    BY <1>1, AlertInvariant, PTL

\* Triggered notices of a key keep the cooldown, as long as no delayed batch
\* sets last_fired_at back.
THEOREM CooldownSafe == Spec => []CooldownRespected
<1>1. AlertInv => CooldownRespected
    BY DEF AlertInv, Cooling, Cooled, CooldownRespected
<1> QED
    BY <1>1, AlertInvariant, PTL

\* A key with a firing and a resolved row is stuck: every plan that would
\* change either status breaks UNIQUE (rule_id, dedupe_key, status).
THEOREM WedgeSafe == Spec => WedgeIsPermanent
<1> DEFINE Stuck == \A k \in Keys : Rows(k) = Slots =>
                        \A i \in Slots : table'[k][i].status = table[k][i].status
<1>1. ASSUME AlertInv, [Next]_vars PROVE [Stuck]_vars
    <2>1. ASSUME NEW s \in Syncers, Commit(s), NEW k \in Keys, Rows(k) = Slots, NEW i \in Slots
          PROVE  table'[k][i].status = table[k][i].status
        <3>1. PICK pick : Committed(s, pick)
            BY <2>1, CommitChooses
        <3>2. /\ table[k] \in Rowset /\ snap[s][k] \in Rowset /\ pick[k] \in Slots
              /\ table'[k] = Reconciled(s, k, pick[k])
            BY <1>1, <3>1 DEF AlertInv, TypeOK, Snapshot, Rowset, Committed
        <3>3. /\ \A j \in Slots : table[k][j].status \in {"firing", "resolved"}
              /\ table[k][1].status # table[k][2].status
            BY <1>1, <2>1, <3>2 DEF Rows, AlertInv, Unique, UniqueStatus, Rowset, Row, Status, Slots
        <3>4. UniqueStatus(table'[k])
            BY <2>1 DEF Commit
        <3>5. k \in triggered[s] => Exists(snap[s][k])
            BY <2>1, <3>3 DEF Commit, InsertFits
        <3>6. CASE k \notin scope[s]
            BY <3>2, <3>6 DEF Reconciled
        <3>7. CASE k \in scope[s] /\ k \in triggered[s]
            <4>1. table'[k] = IF snap[s][k][pick[k]].status = "resolved"
                                THEN [table[k] EXCEPT ![pick[k]] = [status |-> "firing", fired |-> observedAt[s]]]
                                ELSE table[k]
                BY <3>2, <3>5, <3>7 DEF Reconciled, Matched
            <4> QED
                BY <3>2, <3>3, <3>4, <4>1 DEF UniqueStatus, Rowset, Slots
        <3>8. CASE k \in scope[s] /\ k \notin triggered[s]
            <4>1. \A j \in Slots : table'[k][j] = IF snap[s][k][j].status = "firing"
                                      THEN [status |-> "resolved", fired |-> snap[s][k][j].fired]
                                      ELSE table[k][j]
                BY <3>2, <3>8 DEF Reconciled, Unmatched
            <4> QED
                BY <3>3, <3>4, <4>1 DEF UniqueStatus, Slots
        <3> QED
            BY <3>6, <3>7, <3>8
    <2>2. ASSUME NEW s \in Syncers, Load(s) \/ Rollback(s) PROVE UNCHANGED table
        BY <2>2 DEF Load, Rollback
    <2>3. Tick => UNCHANGED table
        BY DEF Tick
    <2> QED
        BY <1>1, <2>1, <2>2, <2>3 DEF Next
<1> QED
    BY <1>1, AlertInvariant, PTL DEF Spec, WedgeIsPermanent
=============================================================================
