-------------------------- MODULE QueryAPI_proofs ---------------------------
(***************************************************************************)
(* Proofs about the two read-side components of the query API, for any     *)
(* number of items, keys, page sizes, shards and records.                  *)
(*                                                                         *)
(* PagedReads: a walk along next_offset skips and repeats nothing outside  *)
(* of the named races, and a short answer without a flag is complete.  An  *)
(* offset counts rows, so the argument is about ranks: how many rows come  *)
(* before an item.  Unless something leaves or moves down, the rank of an  *)
(* item that does not change never falls below the offset before it is     *)
(* returned; unless something comes or moves up, it never rises above the  *)
(* offset afterwards.                                                      *)
(*                                                                         *)
(* ServiceGraph: the loops compute the graph of the records.  The argument *)
(* says what the maps are at every step: those of the records counted, the *)
(* flows closed and the records walked of the open flow.  An edge can then *)
(* count a flow once only because the walk adds, record by record, exactly *)
(* the pairs whose later end is that record.                               *)
(***************************************************************************)
EXTENDS PagedReads, ServiceGraph, FiniteSetTheorems, SequenceTheorems, TLAPS

-----------------------------------------------------------------------------
(* PagedReads: the invariant.                                              *)

Order == IF mode \in History THEN HistoryOrder ELSE LogOrder
\* The rows before item i: its rank is their number.
Above(i) == {j \in Matching : <<j, i>> \in Order}

OnAWalk == phase # "idle" /\ mode \in Paged
\* The offset is the number of rows returned; only a walk has one.
Counted ==
    /\ phase # "idle" => ~cut
    /\ offset = IF OnAWalk THEN Len(got) ELSE 0
\* What has not changed is still in the list.
Kept == OnAWalk => (present \cup ToSet(got)) \ stirred \subseteq Matching
Ahead ==
    OnAWalk /\ ~(retreated \/ tied \/ dark) =>
        \A i \in present \ stirred : i \in ToSet(got) \/ Cardinality(Above(i)) >= offset
Behind ==
    OnAWalk /\ ~grown /\ ~tied =>
        \A i \in ToSet(got) \ stirred : Cardinality(Above(i)) < offset
\* Only a flagged answer is followed by another request of the walk.
Told == phase # "idle" => ~reply.ok \/ reply.flagged
\* All shards were up at a probe that found nothing, and still are.
Seen == phase = "query" /\ mode \in Sharded /\ ~partial /\ ~shifted => up = Shards

ReadsInv ==
    /\ TypeOK /\ Counted /\ Kept /\ Ahead /\ Behind /\ Told /\ Seen
    /\ NothingSkipped /\ NothingRepeated /\ CutIsLate /\ ShortIsComplete

-----------------------------------------------------------------------------
(* Windows of a sorted list.                                               *)

\* s lists M without repetition.
Lists(s, M) ==
    /\ s \in [1..Cardinality(M) -> M]
    /\ \A a, b \in 1..Cardinality(M) : a # b => s[a] # s[b]
Sorted(s, order) == \A a, b \in DOMAIN s : a < b => <<s[b], s[a]>> \notin order

LEMMA ListsAll ==
    ASSUME NEW M, IsFiniteSet(M), NEW s, Lists(s, M)
    PROVE  \A i \in M : \E a \in 1..Cardinality(M) : s[a] = i
<1> DEFINE D == 1..Cardinality(M)
<1>1. Cardinality(M) \in Nat
    BY FS_CardinalityType
<1>2. IsFiniteSet(D) /\ Cardinality(D) = Cardinality(M)
    BY <1>1, FS_Interval
<1>3. s \in Injection(D, M)
    BY DEF Lists, Injection, IsInjective
<1>4. s \in Surjection(D, M)
    BY <1>2, <1>3, FS_Injection
<1> QED
    BY <1>4 DEF Surjection

\* The rows are the places o+1 .. o+n of s, as far as there are any.
Window(rows, s, n, o) ==
    /\ rows \in Seq(Matching) /\ Len(rows) <= n
    /\ Len(rows) < n => Cardinality(Matching) <= o + Len(rows)
    /\ \A a \in 1..Len(rows) : o + a \in 1..Cardinality(Matching) /\ rows[a] = s[o + a]

\* That is what LIMIT n OFFSET o returns.
LEMMA WindowIs ==
    ASSUME NEW order, NEW n \in Nat, NEW o \in Nat, IsFiniteSet(Matching), NEW rows \in Windows(order, n, o)
    PROVE  \E s : Lists(s, Matching) /\ Sorted(s, order) /\ Window(rows, s, n, o)
<1> DEFINE N == Cardinality(Matching)
           last(s) == IF o + n < Len(s) THEN o + n ELSE Len(s)
<1>1. N \in Nat
    BY FS_CardinalityType
<1>2. PICK s \in SetToSeqs(Matching) : /\ \A a, b \in DOMAIN s : a < b => <<s[b], s[a]>> \notin order
                                       /\ rows = SubSeq(s, o + 1, last(s))
    BY DEF Windows
<1>3. Lists(s, Matching) /\ s \in [1..N -> Matching]
    BY <1>2 DEF SetToSeqs, Lists
<1>4. Len(s) = N /\ DOMAIN s = 1..N
    BY <1>1, <1>3
<1>5. Sorted(s, order)
    BY <1>2 DEF Sorted
<1>6. PICK k : k = IF o + n < N THEN o + n ELSE N
    OBVIOUS
<1>7. k \in Nat /\ k <= N /\ k <= o + n /\ rows = SubSeq(s, o + 1, k)
    BY <1>1, <1>2, <1>4, <1>6
<1> HIDE DEF N
<1>8. ASSUME NEW a \in (o + 1)..k PROVE s[a] \in Matching
    <2>1. a \in 1..N
        BY <1>1, <1>7
    <2> QED
        BY <1>3, <2>1
<1>9. /\ rows \in Seq(Matching)
      /\ Len(rows) = IF o + 1 <= k THEN k - (o + 1) + 1 ELSE 0
      /\ \A a \in 1..(k - (o + 1) + 1) : rows[a] = s[(o + 1) + a - 1]
    <2>1. o + 1 \in Int /\ k \in Int
        BY <1>7
    <2> QED
        BY <1>7, <1>8, <2>1, SubSeqProperties
<1>10. Len(rows) = IF o < k THEN k - o ELSE 0
    BY <1>7, <1>9
<1>11. ASSUME NEW a \in 1..Len(rows) PROVE o + a \in 1..N /\ rows[a] = s[o + a]
    <2>1. o < k /\ a \in 1..(k - o) /\ a \in Nat
        BY <1>7, <1>10
    <2>2. a \in 1..(k - (o + 1) + 1) /\ (o + 1) + a - 1 = o + a
        BY <1>7, <2>1
    <2> QED
        BY <1>1, <1>7, <1>9, <2>1, <2>2
<1>12. Len(rows) <= n
    BY <1>7, <1>10
<1>13. Len(rows) < n => N <= o + Len(rows)
    BY <1>1, <1>6, <1>7, <1>10
<1>14. Window(rows, s, n, o)
    BY <1>9, <1>11, <1>12, <1>13 DEF N, Window
<1> QED
    BY <1>3, <1>5, <1>14

\* The place of an item in a sorted list is one more than its rank.
LEMMA PlaceIsRank ==
    ASSUME NEW M, IsFiniteSet(M), NEW order, NEW s, Lists(s, M), Sorted(s, order),
           \A i, j \in M : i # j => <<i, j>> \in order \/ <<j, i>> \in order,
           \A i \in M : <<i, i>> \notin order,
           NEW a \in 1..Cardinality(M)
    PROVE  Cardinality({j \in M : <<j, s[a]>> \in order}) = a - 1
<1> DEFINE N == Cardinality(M)
           before == {j \in M : <<j, s[a]>> \in order}
           D == 1..(a - 1)
           f == [b \in D |-> s[b]]
<1>1. N \in Nat /\ a \in Nat /\ a >= 1
    BY FS_CardinalityType
<1>2. DOMAIN s = 1..N /\ \A b \in 1..N : s[b] \in M
    BY DEF Lists
<1>3. ASSUME NEW b \in D PROVE b \in 1..N /\ s[b] \in before
    <2>1. b \in 1..N /\ b < a /\ b # a
        BY <1>1
    <2>2. s[b] # s[a]
        BY <2>1 DEF Lists
    <2>3. <<s[a], s[b]>> \notin order
        BY <1>2, <2>1 DEF Sorted
    <2> QED
        BY <1>2, <2>1, <2>2, <2>3
<1>4. ASSUME NEW j \in before PROVE \E b \in D : s[b] = j
    <2>1. PICK b \in 1..N : s[b] = j
        BY ListsAll
    <2>2. b # a
        BY <2>1
    <2>3. ~(a < b)
        BY <1>2, <2>1 DEF Sorted
    <2> QED
        BY <1>1, <2>1, <2>2, <2>3
<1>5. f \in Bijection(D, before)
    <2>1. f \in [D -> before]
        BY <1>3
    <2>2. \A b, c \in D : f[b] = f[c] => b = c
        BY <1>3 DEF Lists
    <2>3. \A j \in before : \E b \in D : f[b] = j
        BY <1>4
    <2> QED
        BY <2>1, <2>2, <2>3 DEF Bijection, Injection, Surjection, IsInjective
<1>6. ExistsBijection(D, before)
    BY <1>5 DEF ExistsBijection
<1>7. IsFiniteSet(D) /\ Cardinality(D) = a - 1
    <2>1. 1 \in Int /\ a - 1 \in Int
        BY <1>1
    <2>2. IsFiniteSet(D) /\ Cardinality(D) = IF 1 > a - 1 THEN 0 ELSE (a - 1) - 1 + 1
        BY <2>1, FS_Interval
    <2> QED
        BY <1>1, <2>2
<1> QED
    BY <1>6, <1>7, FS_Bijection

-----------------------------------------------------------------------------
(* The items and the ranks.                                                *)

Item == [key : 1..MaxKey, open : BOOLEAN]

LEMMA ItemsAre ==
    ASSUME NEW its \in UNION {[1..n -> [key : 1..MaxKey, open : BOOLEAN]] : n \in 0..MaxItems}
    PROVE  /\ its \in Seq(Item) /\ Len(its) \in Nat /\ Len(its) <= MaxItems
           /\ DOMAIN its = 1..Len(its)
           /\ \A i \in DOMAIN its : its[i] \in Item /\ i \in Ids
<1>1. PICK n \in 0..MaxItems : its \in [1..n -> Item]
    BY DEF Item
<1>2. n \in Nat /\ n <= MaxItems
    BY <1>1, ReadsAssumption
<1>3. its \in Seq(Item) /\ Len(its) = n
    BY <1>1, <1>2
<1>4. DOMAIN its = 1..n /\ \A i \in 1..n : its[i] \in Item /\ i \in Ids
    BY <1>1, <1>2, ReadsAssumption DEF Ids
<1> QED
    BY <1>2, <1>3, <1>4

LEMMA AreItems ==
    ASSUME NEW its \in Seq(Item), Len(its) <= MaxItems
    PROVE  its \in UNION {[1..n -> [key : 1..MaxKey, open : BOOLEAN]] : n \in 0..MaxItems}
<1>1. Len(its) \in 0..MaxItems
    BY ReadsAssumption
<1>2. its \in [1..Len(its) -> Item]
    OBVIOUS
<1> QED
    BY <1>1, <1>2 DEF Item

LEMMA FewMatch ==
    ASSUME NEW M \in SUBSET Ids
    PROVE  IsFiniteSet(M) /\ Cardinality(M) \in 0..MaxItems /\ Cardinality(M) \in Nat
<1>1. IsFiniteSet(Ids) /\ Cardinality(Ids) = MaxItems
    BY ReadsAssumption, FS_Interval DEF Ids
<1>2. IsFiniteSet(M) /\ Cardinality(M) <= MaxItems
    BY <1>1, FS_Subset
<1> QED
    BY <1>2, FS_CardinalityType, ReadsAssumption

LEMMA MatchingIs ==
    ASSUME TypeOK
    PROVE  /\ Matching \subseteq DOMAIN items /\ Matching \in SUBSET Ids
           /\ IsFiniteSet(Matching) /\ Cardinality(Matching) \in 0..MaxItems
           /\ Cardinality(Matching) \in Nat
<1>1. Matching \in SUBSET Ids /\ Matching \subseteq DOMAIN items
    BY ItemsAre DEF TypeOK, Matching
<1> QED
    BY <1>1, FewMatch

\* A set of rows is not larger than one that contains it.
LEMMA RankGrows ==
    ASSUME NEW A \in SUBSET Ids, NEW B \in SUBSET Ids, A \subseteq B
    PROVE  Cardinality(A) \in Nat /\ Cardinality(B) \in Nat /\ Cardinality(A) <= Cardinality(B)
BY FewMatch, FS_Subset

LEMMA ToSetConcat ==
    ASSUME NEW s \in Seq(Ids), NEW t \in Seq(Ids)
    PROVE  /\ s \o t \in Seq(Ids) /\ Len(s \o t) = Len(s) + Len(t)
           /\ ToSet(s \o t) = ToSet(s) \cup ToSet(t)
<1>1. /\ s \o t \in Seq(Ids) /\ Len(s \o t) = Len(s) + Len(t)
      /\ \A a \in 1..(Len(s) + Len(t)) : (s \o t)[a] = IF a <= Len(s) THEN s[a] ELSE t[a - Len(s)]
    BY ConcatProperties
<1>2. DOMAIN s = 1..Len(s) /\ DOMAIN t = 1..Len(t) /\ DOMAIN (s \o t) = 1..(Len(s) + Len(t))
    BY <1>1
<1>3. Len(s) \in Nat /\ Len(t) \in Nat
    OBVIOUS
<1>4. ASSUME NEW x \in ToSet(s \o t) PROVE x \in ToSet(s) \cup ToSet(t)
    <2>1. PICK a \in 1..(Len(s) + Len(t)) : x = (s \o t)[a]
        BY <1>2 DEF ToSet
    <2>2. CASE a <= Len(s)
        <3>1. a \in 1..Len(s) /\ x = s[a]
            BY <1>1, <1>3, <2>1, <2>2
        <3> QED
            BY <1>2, <3>1 DEF ToSet
    <2>3. CASE ~(a <= Len(s))
        <3>1. a - Len(s) \in 1..Len(t) /\ x = t[a - Len(s)]
            BY <1>1, <1>3, <2>1, <2>3
        <3> QED
            BY <1>2, <3>1 DEF ToSet
    <2> QED
        BY <2>2, <2>3
<1>5. ASSUME NEW x \in ToSet(s) PROVE x \in ToSet(s \o t)
    <2>1. PICK a \in 1..Len(s) : x = s[a]
        BY <1>2 DEF ToSet
    <2>2. a \in 1..(Len(s) + Len(t)) /\ x = (s \o t)[a]
        BY <1>1, <1>3, <2>1
    <2> QED
        BY <1>2, <2>2 DEF ToSet
<1>6. ASSUME NEW x \in ToSet(t) PROVE x \in ToSet(s \o t)
    <2>1. PICK a \in 1..Len(t) : x = t[a]
        BY <1>2 DEF ToSet
    <2>2. a + Len(s) \in 1..(Len(s) + Len(t)) /\ ~(a + Len(s) <= Len(s)) /\ (a + Len(s)) - Len(s) = a
        BY <1>3, <2>1
    <2>3. x = (s \o t)[a + Len(s)]
        BY <1>1, <2>1, <2>2
    <2> QED
        BY <1>2, <2>2, <2>3 DEF ToSet
<1> QED
    BY <1>1, <1>4, <1>5, <1>6

-----------------------------------------------------------------------------
(* The data changes.                                                       *)

\* What the invariant needs of a step that only changes the items.
LEMMA DataStep ==
    ASSUME ReadsInv, TypeOK', Walking,
           UNCHANGED <<shardVars, request, server, present, tied, shifted, outcome>>,
           stirred \subseteq stirred', grown => grown', retreated => retreated',
           \A x \in Matching \ stirred' : x \in Matching',
           ~retreated' => \A x \in Matching \ stirred' : Above(x) \subseteq Above(x)',
           ~grown' => \A x \in Matching \ stirred' : Above(x)' \subseteq Above(x)
    PROVE  ReadsInv'
<1> USE DEF shardVars, request, server, outcome, Walking
<1>1. Counted' /\ Told' /\ Seen' /\ CutIsLate' /\ ShortIsComplete'
    BY DEF ReadsInv, Counted, Told, Seen, CutIsLate, ShortIsComplete, OnAWalk
<1>2. NothingSkipped'
    BY DEF NothingSkipped, Ended
<1>3. NothingRepeated'
    BY DEF ReadsInv, NothingRepeated
<1>4. Kept'
    BY DEF ReadsInv, Kept, OnAWalk
<1>5. ASSUME NEW x PROVE Above(x) \in SUBSET Ids /\ Above(x)' \in SUBSET Ids
    <2>1. Matching \in SUBSET Ids
        BY MatchingIs DEF ReadsInv
    <2>2. Matching' \in SUBSET Ids
        BY ItemsAre DEF TypeOK, Matching
    <2> QED
        BY <2>1, <2>2 DEF Above
<1>6. offset \in Nat
    BY ReadsAssumption DEF ReadsInv, TypeOK
<1>7. Ahead'
    <2> SUFFICES ASSUME OnAWalk, ~(retreated' \/ tied \/ dark), NEW x \in present \ stirred', x \notin ToSet(got)
                 PROVE  Cardinality(Above(x)') >= offset
        BY DEF Ahead, OnAWalk
    <2>1. x \in Matching \ stirred'
        BY DEF ReadsInv, Kept
    <2>2. Cardinality(Above(x)) >= offset
        BY DEF ReadsInv, Ahead
    <2>3. Above(x) \subseteq Above(x)'
        BY <2>1
    <2> QED
        BY <1>5, <1>6, <2>2, <2>3, RankGrows
<1>8. Behind'
    <2> SUFFICES ASSUME OnAWalk, ~grown', ~tied, NEW x \in ToSet(got) \ stirred'
                 PROVE  Cardinality(Above(x)') < offset
        BY DEF Behind, OnAWalk
    <2>1. x \in Matching \ stirred'
        BY DEF ReadsInv, Kept
    <2>2. Cardinality(Above(x)) < offset
        BY DEF ReadsInv, Behind
    <2>3. Above(x)' \subseteq Above(x)
        BY <2>1
    <2> QED
        BY <1>5, <1>6, <2>2, <2>3, RankGrows
<1> QED
    BY <1>1, <1>2, <1>3, <1>4, <1>7, <1>8 DEF ReadsInv

LEMMA ArriveStep ==
    ASSUME ReadsInv, NEW k \in 1..MaxKey, Arrive(k)
    PROVE  ReadsInv'
<1> DEFINE new == [key |-> k, open |-> TRUE]
<1>1. items \in Seq(Item) /\ Len(items) \in Nat /\ DOMAIN items = 1..Len(items)
    BY ItemsAre DEF ReadsInv, TypeOK
<1>2. /\ items' \in Seq(Item) /\ Len(items') = Len(items) + 1
      /\ DOMAIN items' = 1..(Len(items) + 1)
      /\ \A i \in DOMAIN items : i \in DOMAIN items' /\ items'[i] = items[i]
    <2>1. items' = Append(items, new) /\ new \in Item
        BY DEF Arrive, Item
    <2> QED
        BY <1>1, <2>1
<1>3. TypeOK'
    <2>1. Len(items') <= MaxItems
        BY <1>1, <1>2, ReadsAssumption DEF Arrive
    <2> QED
        BY <1>2, <2>1, AreItems DEF ReadsInv, TypeOK, Arrive, shardVars, request, server, outcome
<1>4. \A x \in Matching : x \in Matching'
    BY <1>2 DEF Matching, Arrive, request
<1>5. \A x \in Matching : Above(x) \subseteq Above(x)'
    BY <1>2, <1>4 DEF Above, Order, HistoryOrder, LogOrder, Arrive, request, Matching
<1> QED
    BY <1>3, <1>4, <1>5, DataStep DEF Arrive

LEMMA ChangeStep ==
    ASSUME ReadsInv, NEW i \in DOMAIN items, NEW k \in 1..MaxKey, NEW open \in BOOLEAN, Change(i, k, open)
    PROVE  ReadsInv'
<1> DEFINE new == [key |-> k, open |-> open]
<1>1. /\ items \in Seq(Item) /\ Len(items) \in Nat /\ Len(items) <= MaxItems /\ DOMAIN items = 1..Len(items)
      /\ \A x \in DOMAIN items : items[x] \in Item /\ x \in Ids
    BY ItemsAre DEF ReadsInv, TypeOK
<1>2. items' = [items EXCEPT ![i] = new] /\ new \in Item
    BY DEF Change, Item
<1>3. /\ items' \in Seq(Item) /\ Len(items') = Len(items) /\ DOMAIN items' = DOMAIN items
      /\ items'[i].key = k /\ items'[i].open = open
      /\ \A x \in DOMAIN items : x # i => items'[x] = items[x]
    BY <1>1, <1>2
<1>4. TypeOK'
    <2>1. stirred' \subseteq Ids /\ {grown', retreated'} \subseteq BOOLEAN
        BY <1>1 DEF ReadsInv, TypeOK, Change
    <2> QED
        BY <1>1, <1>3, <2>1, AreItems DEF ReadsInv, TypeOK, Change, shardVars, request, server, outcome
<1>5. mode \in History /\ mode' = mode /\ filtered' = filtered /\ filtered \in BOOLEAN
    BY DEF Change, Stateful, History, request, ReadsInv, TypeOK
<1>6. \A x \in DOMAIN items : items[x].key \in Nat /\ x \in Nat
    BY <1>1, ReadsAssumption DEF Item, Ids
<1>7. k \in Nat
    BY ReadsAssumption
<1>8. \A x \in Matching \ stirred' : x # i /\ x \in Matching'
    BY <1>3, <1>5 DEF Matching, Change
<1>9. ASSUME ~retreated', NEW x \in Matching \ stirred', NEW j \in Above(x) PROVE j \in Above(x)'
    <2> retreated' = (retreated \/ k < items[i].key \/ (filtered /\ ~open))
        BY DEF Change
    <2> ~(k < items[i].key) /\ ~(filtered /\ ~open)
        BY <1>9, Zenon
    <2>1. k >= items[i].key /\ (filtered => open)
        BY <1>6, <1>7
    <2>2. /\ j \in Matching /\ j \in DOMAIN items /\ x \in DOMAIN items
          /\ items[j].key > items[x].key \/ (items[j].key = items[x].key /\ j > x)
        BY <1>5, <1>9 DEF Above, Order, HistoryOrder, Matching
    <2>3. j \in Matching'
        BY <1>3, <1>5, <2>1, <2>2 DEF Matching
    <2>4. items'[x] = items[x] /\ x \in Matching'
        BY <1>3, <1>8, <1>9, <2>2
    <2>5. items'[j].key >= items[j].key /\ items'[j].key \in Nat
        BY <1>3, <1>6, <1>7, <2>1, <2>2
    <2>6. items'[j].key > items'[x].key \/ (items'[j].key = items'[x].key /\ j > x)
        BY <1>6, <2>2, <2>4, <2>5
    <2> QED
        BY <1>5, <2>3, <2>4, <2>6 DEF Above, Order, HistoryOrder
<1>10. ASSUME ~grown', NEW x \in Matching \ stirred', NEW j \in Above(x)' PROVE j \in Above(x)
    <2> grown' = (grown \/ k > items[i].key \/ (filtered /\ open))
        BY DEF Change
    <2> ~(k > items[i].key) /\ ~(filtered /\ open)
        BY <1>10, Zenon
    <2>1. k <= items[i].key /\ ~(filtered /\ open)
        BY <1>6, <1>7
    <2>2. /\ j \in Matching' /\ j \in DOMAIN items /\ x \in DOMAIN items /\ x \in Matching
          /\ items'[j].key > items'[x].key \/ (items'[j].key = items'[x].key /\ j > x)
        BY <1>3, <1>5, <1>10 DEF Above, Order, HistoryOrder, Matching
    <2>3. j \in Matching
        BY <1>3, <1>5, <2>1, <2>2 DEF Matching
    <2>4. items'[x] = items[x]
        BY <1>3, <1>8, <1>10, <2>2
    <2>5. items'[j].key <= items[j].key /\ items'[j].key \in Nat
        BY <1>3, <1>6, <1>7, <2>1, <2>2
    <2>6. items[j].key > items[x].key \/ (items[j].key = items[x].key /\ j > x)
        BY <1>6, <2>2, <2>4, <2>5
    <2> QED
        BY <1>5, <2>2, <2>3, <2>6 DEF Above, Order, HistoryOrder
<1>11. /\ Walking /\ UNCHANGED <<shardVars, request, server, present, tied, shifted, outcome>>
       /\ stirred \subseteq stirred' /\ (grown => grown') /\ (retreated => retreated')
    BY DEF Change
<1> QED
    BY <1>4, <1>8, <1>9, <1>10, <1>11, DataStep

-----------------------------------------------------------------------------
(* The shards, the requests and the probe.                                 *)

\* A step that leaves the items, the request and the walk alone.
LEMMA QuietStep ==
    ASSUME ReadsInv, UNCHANGED <<items, request, offset, got, reply, causes, outcome>>,
           (phase # "idle") <=> (phase' # "idle"),
           TypeOK', Seen', ShortIsComplete'
    PROVE  ReadsInv'
<1> USE DEF request, causes, outcome
<1>1. Counted' /\ Told' /\ CutIsLate' /\ OnAWalk' = OnAWalk
    BY DEF ReadsInv, Counted, Told, CutIsLate, OnAWalk
<1>2. NothingSkipped' /\ NothingRepeated'
    BY DEF ReadsInv, NothingSkipped, NothingRepeated, Ended
<1>3. Matching' = Matching /\ \A x : Above(x)' = Above(x)
    BY DEF Matching, Above, Order, HistoryOrder, LogOrder
<1>4. Kept' /\ Ahead' /\ Behind'
    BY <1>1, <1>3 DEF ReadsInv, Kept, Ahead, Behind
<1> QED
    BY <1>1, <1>2, <1>4 DEF ReadsInv

LEMMA ShiftStep ==
    ASSUME ReadsInv, NEW u \in SUBSET Shards, NEW l \in BOOLEAN, Shift(u, l)
    PROVE  ReadsInv'
<1>1. UNCHANGED <<items, request, offset, got, reply, causes, outcome>> /\ phase' = phase /\ partial' = partial
    BY DEF Shift, server
<1>2. TypeOK'
    <2>1. shifted' \in BOOLEAN /\ shifted \in BOOLEAN
        BY DEF Shift, ReadsInv, TypeOK
    <2> QED
        BY <1>1, <2>1 DEF ReadsInv, TypeOK, Shift, request, causes, outcome, server
<1>3. Seen' /\ ShortIsComplete'
    BY <1>1 DEF ReadsInv, Seen, Shift, ShortIsComplete, request, outcome, Told, Walking
<1> QED
    BY <1>1, <1>2, <1>3, QuietStep

LEMMA ProbeStep ==
    ASSUME ReadsInv, Probe
    PROVE  ReadsInv'
<1>1. UNCHANGED <<items, request, offset, got, reply, causes, outcome, shardVars>> /\ phase = "ask" /\ phase' = "query"
    BY DEF Probe
<1>2. partial' \in BOOLEAN /\ shifted' = FALSE
    BY DEF Probe, Partial
<1>3. TypeOK'
    BY <1>1, <1>2 DEF ReadsInv, TypeOK, request, causes, outcome, shardVars
<1>4. mode \in Sharded /\ ~partial' => up = Shards
    BY DEF Probe, Partial, ReadsInv, TypeOK
<1>5. Seen' /\ ShortIsComplete'
    BY <1>1, <1>4 DEF ReadsInv, Seen, ShortIsComplete, request, outcome, Told, shardVars
<1> QED
    BY <1>1, <1>3, <1>5, QuietStep

LEMMA QueryFailsStep ==
    ASSUME ReadsInv, QueryFails
    PROVE  ReadsInv'
<1>1. /\ UNCHANGED <<items, request, offset, got, reply, causes, outcome, shardVars, shifted>>
      /\ phase = "query" /\ phase' = "ask" /\ partial' = FALSE
    BY DEF QueryFails
<1>2. TypeOK'
    BY <1>1 DEF ReadsInv, TypeOK, request, causes, outcome, shardVars
<1>3. Seen' /\ ShortIsComplete'
    BY <1>1 DEF ReadsInv, Seen, ShortIsComplete, request, outcome
<1> QED
    BY <1>1, <1>2, <1>3, QuietStep

LEMMA BeginStep ==
    ASSUME ReadsInv, NEW m \in Modes, NEW f \in BOOLEAN, NEW n \in Limits, Begin(m, f, n)
    PROVE  ReadsInv'
<1>1. ToSet(got') = {} /\ Len(got') = 0 /\ got' \in Seq(Ids) /\ DOMAIN got' = {}
    BY DEF Begin, ToSet
<1>2. reply' = NoReply /\ reply'.ok = FALSE
    BY DEF Begin, NoReply
<1>3. Matching' = present' /\ present' \subseteq Ids
    BY ItemsAre DEF Begin, Matching, ReadsInv, TypeOK
<1>4. TypeOK'
    <2>1. reply' \in [ok : BOOLEAN, count : Nat, partial : BOOLEAN, flagged : BOOLEAN]
        BY <1>2 DEF NoReply
    <2>2. offset' \in 0..MaxOffset /\ beyond' \in 0..MaxItems
        BY ReadsAssumption DEF Begin
    <2>3. stirred' \subseteq Ids /\ {grown, retreated, tied, dark, shifted, blind, cut}' \subseteq BOOLEAN
        BY DEF Begin
    <2> QED
        BY <1>1, <1>3, <2>1, <2>2, <2>3 DEF Begin, ReadsInv, TypeOK, shardVars
<1>5. Counted' /\ Told' /\ Seen' /\ CutIsLate' /\ ShortIsComplete' /\ NothingSkipped'
    BY <1>1, <1>2 DEF Begin, Counted, Told, Seen, CutIsLate, ShortIsComplete, NothingSkipped, Ended
<1>6. NothingRepeated' /\ Behind' /\ Kept'
    BY <1>1, <1>3 DEF NothingRepeated, Behind, Kept
<1>7. Ahead'
    <2>1. ASSUME NEW x PROVE Cardinality(Above(x)') \in Nat
        <3>1. Above(x)' \in SUBSET Ids
            BY <1>3 DEF Above
        <3> QED
            BY <3>1, FewMatch
    <2>2. offset' = 0
        BY DEF Begin
    <2> QED
        BY <2>1, <2>2 DEF Ahead
<1> QED
    BY <1>4, <1>5, <1>6, <1>7 DEF ReadsInv

-----------------------------------------------------------------------------
(* The answers.                                                            *)

\* The types of what an answer changes.
LEMMA RespondType ==
    ASSUME ReadsInv, NEW rows \in Seq(Ids), NEW flag \in BOOLEAN, Respond(rows, flag),
           offset' \in 0..MaxOffset, phase' \in {"idle", "ask", "query"}, cut' \in BOOLEAN
    PROVE  TypeOK'
<1>1. got' \in Seq(Ids)
    BY ToSetConcat DEF ReadsInv, TypeOK, Respond
<1>2. reply' \in [ok : BOOLEAN, count : Nat, partial : BOOLEAN, flagged : BOOLEAN]
    <2>1. Len(rows) \in Nat /\ partial \in BOOLEAN
        BY DEF ReadsInv, TypeOK
    <2> QED
        BY <2>1 DEF Respond
<1>3. beyond' \in 0..MaxItems
    <2>1. Cardinality(Matching) \in 0..MaxItems
        BY MatchingIs DEF ReadsInv
    <2>2. offset \in Nat /\ Len(rows) \in Nat
        BY ReadsAssumption DEF ReadsInv, TypeOK
    <2>3. beyond' = IF Cardinality(Matching) > offset + Len(rows) THEN Cardinality(Matching) - offset - Len(rows) ELSE 0
        BY DEF Respond
    <2> QED
        BY <2>1, <2>2, <2>3, ReadsAssumption
<1>4. {grown, retreated, tied, dark, shifted, blind, cut}' \subseteq BOOLEAN
    <2>1. tied' \in BOOLEAN /\ dark' \in BOOLEAN /\ blind' \in BOOLEAN
        BY DEF Respond, HasTies
    <2>2. {grown', retreated', shifted'} \subseteq BOOLEAN
        BY DEF Respond, ReadsInv, TypeOK
    <2> QED
        BY <2>1, <2>2
<1> QED
    BY <1>1, <1>2, <1>3, <1>4 DEF ReadsInv, TypeOK, Respond, shardVars, request

\* A short answer is complete if the store left nothing out.
LEMMA RespondShort ==
    ASSUME ReadsInv, phase = "query", NEW rows \in Seq(Ids), NEW flag \in BOOLEAN, Respond(rows, flag),
           (mode \in History \/ linked) /\ ~flag /\ Len(rows) < limit =>
               Cardinality(Matching) <= offset + Len(rows)
    PROVE  ShortIsComplete'
<1> SUFFICES ASSUME ~partial, ~flag, Len(rows) < limit
             PROVE  beyond' = 0 \/ shifted' \/ blind'
    <2>1. reply' = [ok |-> TRUE, count |-> Len(rows), partial |-> partial, flagged |-> flag] /\ limit' = limit
        BY DEF Respond, request
    <2> QED
        BY <2>1 DEF ShortIsComplete
<1>1. CASE mode \in History \/ linked
    <2>1. Cardinality(Matching) <= offset + Len(rows)
        BY <1>1
    <2>2. Cardinality(Matching) \in Nat /\ offset \in Nat /\ Len(rows) \in Nat
        BY MatchingIs, ReadsAssumption DEF ReadsInv, TypeOK
    <2>3. ~(Cardinality(Matching) > offset + Len(rows))
        BY <2>1, <2>2
    <2> QED
        BY <2>3 DEF Respond
<1>2. CASE mode \in Sharded /\ ~linked
    <2>1. CASE Home \in up
        BY <1>2, <2>1 DEF Respond
    <2>2. CASE Home \notin up
        <3>1. up # Shards
            BY <2>2, ReadsAssumption
        <3>2. shifted
            BY <1>2, <3>1 DEF ReadsInv, Seen
        <3> QED
            BY <3>2 DEF Respond
    <2> QED
        BY <2>1, <2>2
<1> QED
    BY <1>1, <1>2 DEF ReadsInv, TypeOK, Modes

\* An answer that ends the request of an endpoint without pages.
LEMMA OnlyAnswer ==
    ASSUME ReadsInv, phase = "query", mode \notin Paged, NEW rows \in Seq(Ids), NEW flag \in BOOLEAN,
           Respond(rows, flag), End, cut' = cut,
           linked /\ ~flag /\ Len(rows) < limit => Cardinality(Matching) <= Len(rows)
    PROVE  ReadsInv'
<1>1. offset = 0 /\ ~cut
    BY DEF ReadsInv, Counted, OnAWalk
<1>2. TypeOK'
    <2>1. offset' \in 0..MaxOffset /\ phase' = "idle" /\ cut' \in BOOLEAN
        BY ReadsAssumption DEF End, ReadsInv, TypeOK
    <2> QED
        BY <2>1, RespondType
<1>3. ShortIsComplete'
    <2>1. mode \notin History /\ Len(rows) \in Nat
        BY DEF Paged
    <2>2. 0 + Len(rows) = Len(rows)
        BY <2>1
    <2> QED
        BY <1>1, <2>1, <2>2, RespondShort
<1>4. mode' = mode /\ phase' = "idle" /\ offset' = 0
    BY DEF Respond, End, request
<1>5. /\ Counted' /\ Kept' /\ Ahead' /\ Behind' /\ Told' /\ Seen'
      /\ NothingSkipped' /\ NothingRepeated' /\ CutIsLate'
    BY <1>1, <1>4 DEF Counted, Kept, Ahead, Behind, Told, Seen, OnAWalk, Ended,
        NothingSkipped, NothingRepeated, CutIsLate
<1> QED
    BY <1>2, <1>3, <1>5 DEF ReadsInv

\* What the stores return: rows of the list, all of them if fewer than asked for.
LEMMA AnswerIs ==
    ASSUME ReadsInv, NEW order, NEW n \in Nat, NEW o \in Nat, NEW rows \in Windows(order, n, o)
    PROVE  /\ rows \in Seq(Ids) /\ Len(rows) <= n
           /\ Len(rows) < n => Cardinality(Matching) <= o + Len(rows)
<1>1. IsFiniteSet(Matching) /\ Matching \in SUBSET Ids
    BY MatchingIs DEF ReadsInv
<1>2. \E s : Window(rows, s, n, o)
    BY <1>1, WindowIs
<1> QED
    BY <1>1, <1>2 DEF Window

LEMMA LimitIs ==
    ASSUME ReadsInv
    PROVE  limit \in Nat /\ limit >= 1
BY ReadsAssumption DEF ReadsInv, TypeOK

LEMMA ServeGraphStep ==
    ASSUME ReadsInv, ServeGraph
    PROVE  ReadsInv'
<1>1. PICK rows \in QueryGraphRecords :
          Respond(IF Len(rows) > limit THEN SubSeq(rows, 1, limit) ELSE rows, Len(rows) > limit)
    BY DEF ServeGraph
<1> DEFINE answer == IF Len(rows) > limit THEN SubSeq(rows, 1, limit) ELSE rows
           truncated == Len(rows) > limit
<1>2. limit \in Nat /\ limit + 1 \in Nat /\ 0 \in Nat
    BY LimitIs
<1>3. /\ rows \in Seq(Ids) /\ Len(rows) \in Nat
      /\ linked /\ Len(rows) < limit + 1 => Cardinality(Matching) <= 0 + Len(rows)
    <2>1. CASE linked
        <3>1. rows \in Windows(GraphOrder, limit + 1, 0)
            BY <2>1 DEF QueryGraphRecords, Reached
        <3> QED
            BY <1>2, <3>1, AnswerIs
    <2>2. CASE ~linked
        <3>1. rows = <<>>
            BY <2>2 DEF QueryGraphRecords, Reached
        <3> QED
            BY <2>2, <3>1
    <2> QED
        BY <2>1, <2>2
<1>4. answer \in Seq(Ids)
    <2>1. CASE truncated
        <3>1. \A a \in 1..limit : rows[a] \in Ids
            BY <1>2, <1>3, <2>1
        <3>2. SubSeq(rows, 1, limit) \in Seq(Ids)
            BY <1>2, <3>1, SubSeqProperties
        <3> QED
            BY <2>1, <3>2
    <2> QED
        BY <1>3, <2>1
<1>5. truncated \in BOOLEAN /\ (~truncated => answer = rows)
    OBVIOUS
<1>6. linked /\ ~truncated /\ Len(answer) < limit => Cardinality(Matching) <= Len(answer)
    <2> SUFFICES ASSUME linked, ~truncated, Len(rows) < limit PROVE Cardinality(Matching) <= Len(rows)
        BY <1>5
    <2>1. Len(rows) < limit + 1 /\ 0 + Len(rows) = Len(rows)
        BY <1>2, <1>3
    <2> QED
        BY <1>3, <2>1
<1>7. Respond(answer, truncated) /\ phase = "query" /\ mode \notin Paged /\ End /\ cut' = cut
    BY <1>1 DEF ServeGraph, Paged, History
<1> HIDE DEF answer, truncated
<1> QED
    BY <1>4, <1>5, <1>6, <1>7, OnlyAnswer

LEMMA ServeAnalyticsStep ==
    ASSUME ReadsInv, ServeAnalytics
    PROVE  ReadsInv'
<1>1. PICK rows \in QueryAnalytics : Respond(rows, FALSE)
    BY DEF ServeAnalytics
<1>2. limit \in Nat /\ 0 \in Nat
    BY LimitIs
<1>3. rows \in Seq(Ids) /\ (linked /\ Len(rows) < limit => Cardinality(Matching) <= 0 + Len(rows))
    <2>1. CASE linked
        <3>1. rows \in Windows(AnalyticsOrder, limit, 0)
            BY <2>1 DEF QueryAnalytics, Reached
        <3> QED
            BY <1>2, <3>1, AnswerIs
    <2>2. CASE ~linked
        <3>1. rows = <<>>
            BY <2>2 DEF QueryAnalytics, Reached
        <3> QED
            BY <2>2, <3>1
    <2> QED
        BY <2>1, <2>2
<1>4. Len(rows) \in Nat /\ 0 + Len(rows) = Len(rows)
    BY <1>3
<1>5. phase = "query" /\ mode \notin Paged /\ End /\ cut' = cut
    BY DEF ServeAnalytics, Paged, History
<1> QED
    BY <1>1, <1>3, <1>4, <1>5, OnlyAnswer

LEMMA StreamLogsStep ==
    ASSUME ReadsInv, StreamLogs
    PROVE  ReadsInv'
<1>1. PICK rows \in QueryLogs, failed \in BOOLEAN : \E k \in 0..Len(rows) :
          (~failed => k = Len(rows)) /\ Respond(SubSeq(rows, 1, k), failed)
    BY DEF StreamLogs, ErrorLine
<1>2. PICK k \in 0..Len(rows) : (~failed => k = Len(rows)) /\ Respond(SubSeq(rows, 1, k), failed)
    BY <1>1
<1>3. phase = "query" /\ mode \notin Paged /\ End /\ cut' = cut
    BY DEF StreamLogs, Paged, History
<1>4. offset = 0 /\ limit \in Nat
    BY <1>3, LimitIs DEF ReadsInv, Counted, OnAWalk
<1>5. rows \in Seq(Ids) /\ (linked /\ Len(rows) < limit => Cardinality(Matching) <= 0 + Len(rows))
    <2>1. CASE linked
        <3>1. rows \in Windows(LogOrder, limit, 0)
            BY <1>4, <2>1 DEF QueryLogs, Reached
        <3> QED
            BY <1>4, <3>1, AnswerIs
    <2>2. CASE ~linked
        <3>1. rows = <<>>
            BY <2>2 DEF QueryLogs, Reached
        <3> QED
            BY <2>2, <3>1
    <2> QED
        BY <2>1, <2>2
<1>6. Len(rows) \in Nat /\ k \in Nat /\ k <= Len(rows) /\ 0 + Len(rows) = Len(rows)
    BY <1>2, <1>5
<1>7. SubSeq(rows, 1, k) \in Seq(Ids) /\ Len(SubSeq(rows, 1, k)) = k
    <2>1. \A a \in 1..k : rows[a] \in Ids
        BY <1>5, <1>6
    <2>2. 1 \in Int /\ k \in Int
        BY <1>6
    <2>3. /\ SubSeq(rows, 1, k) \in Seq(Ids)
          /\ Len(SubSeq(rows, 1, k)) = IF 1 <= k THEN k - 1 + 1 ELSE 0
        BY <2>1, <2>2, SubSeqProperties
    <2> QED
        BY <1>6, <2>3
<1>8. linked /\ ~failed /\ Len(SubSeq(rows, 1, k)) < limit =>
          Cardinality(Matching) <= Len(SubSeq(rows, 1, k))
    BY <1>2, <1>5, <1>6, <1>7
<1> QED
    BY <1>1, <1>2, <1>3, <1>7, <1>8, OnlyAnswer

-----------------------------------------------------------------------------
(* A page.                                                                 *)

\* Unless two rows are tied, the order of a paged endpoint is total, and the
\* rank of a row is its place.
LEMMA RankOfPlace ==
    ASSUME TypeOK, mode \in Paged, ~HasTies, NEW s, Lists(s, Matching), Sorted(s, Order)
    PROVE  /\ \A a \in 1..Cardinality(Matching) : Cardinality(Above(s[a])) = a - 1
           /\ \A x \in Matching : Cardinality(Above(x)) + 1 \in 1..Cardinality(Matching)
                                  /\ s[Cardinality(Above(x)) + 1] = x
<1>1. IsFiniteSet(Matching) /\ Matching \subseteq DOMAIN items /\ Cardinality(Matching) \in Nat
    BY MatchingIs
<1>2. \A x \in DOMAIN items : items[x].key \in Nat /\ x \in Nat
    BY ItemsAre, ReadsAssumption DEF TypeOK, Item, Ids
<1>3. ASSUME NEW x \in Matching PROVE <<x, x>> \notin Order
    <2>1. items[x].key \in Nat /\ x \in Nat
        BY <1>1, <1>2
    <2> QED
        BY <2>1 DEF Order, HistoryOrder, LogOrder
<1>4. ASSUME NEW x \in Matching, NEW y \in Matching, x # y PROVE <<x, y>> \in Order \/ <<y, x>> \in Order
    <2>1. items[x].key \in Nat /\ x \in Nat /\ items[y].key \in Nat /\ y \in Nat
        BY <1>1, <1>2
    <2>2. CASE mode \in History
        BY <1>4, <2>1, <2>2 DEF Order, HistoryOrder
    <2>3. CASE mode \notin History
        <3>1. items[x].key # items[y].key
            BY <1>4, <2>3 DEF HasTies
        <3> QED
            BY <2>1, <2>3, <3>1 DEF Order, LogOrder
    <2> QED
        BY <2>2, <2>3
<1>5. ASSUME NEW a \in 1..Cardinality(Matching) PROVE Cardinality(Above(s[a])) = a - 1
    <2>1. Cardinality({j \in Matching : <<j, s[a]>> \in Order}) = a - 1
        BY <1>1, <1>3, <1>4, PlaceIsRank
    <2> QED
        BY <2>1 DEF Above
<1>6. ASSUME NEW x \in Matching
      PROVE  Cardinality(Above(x)) + 1 \in 1..Cardinality(Matching) /\ s[Cardinality(Above(x)) + 1] = x
    <2>1. PICK a \in 1..Cardinality(Matching) : s[a] = x
        BY <1>1, ListsAll
    <2>2. Cardinality(Above(x)) = a - 1
        BY <1>5, <2>1
    <2> QED
        BY <1>1, <2>1, <2>2
<1> QED
    BY <1>5, <1>6

LEMMA PageIs ==
    ASSUME ReadsInv, NEW rows \in Windows(Order, limit, offset)
    PROVE  \E s : Lists(s, Matching) /\ Sorted(s, Order) /\ Window(rows, s, limit, offset)
<1>1. offset \in Nat /\ limit \in Nat
    BY LimitIs, ReadsAssumption DEF ReadsInv, TypeOK
<1>2. IsFiniteSet(Matching)
    BY MatchingIs DEF ReadsInv
<1> QED
    BY <1>1, <1>2, WindowIs, Zenon

\* A page of the list, taken by its offset.
LEMMA PageStep ==
    ASSUME ReadsInv, phase = "query", mode \in Paged, mode \in History \/ linked,
           NEW rows \in Windows(Order, limit, offset), Page(rows, nextOffset(Len(rows)))
    PROVE  ReadsInv'
<1> DEFINE more == nextOffset(Len(rows))
<1>1. limit \in Nat /\ limit >= 1 /\ offset \in Nat /\ offset <= MaxOffset /\ MaxOffset \in Nat
    BY LimitIs, ReadsAssumption DEF ReadsInv, TypeOK
<1>2. got \in Seq(Ids) /\ Len(got) = offset
    BY DEF ReadsInv, TypeOK, Counted, OnAWalk
<1>3. IsFiniteSet(Matching) /\ Matching \in SUBSET Ids /\ Cardinality(Matching) \in Nat
    BY MatchingIs DEF ReadsInv
<1>4. PICK s : Lists(s, Matching) /\ Sorted(s, Order) /\ Window(rows, s, limit, offset)
    BY PageIs, Zenon
<1> /\ rows \in Seq(Matching) /\ Len(rows) <= limit
    /\ Len(rows) < limit => Cardinality(Matching) <= offset + Len(rows)
    /\ \A a \in 1..Len(rows) : offset + a \in 1..Cardinality(Matching) /\ rows[a] = s[offset + a]
    BY <1>4 DEF Window
<1>5. rows \in Seq(Ids) /\ Len(rows) \in Nat /\ DOMAIN rows = 1..Len(rows) /\ DOMAIN got = 1..offset
    BY <1>3, <1>4, <1>2
<1>6. /\ got' = got \o rows /\ got' \in Seq(Ids)
      /\ Len(got') = offset + Len(rows) /\ ToSet(got') = ToSet(got) \cup ToSet(rows)
    BY <1>2, <1>5, ToSetConcat DEF Page, Respond
<1>7. /\ UNCHANGED <<items, mode, filtered, limit, present, stirred, grown, retreated>>
      /\ tied' = (tied \/ HasTies) /\ dark' = (dark \/ (mode \in Sharded /\ ~linked))
      /\ reply' = [ok |-> TRUE, count |-> Len(rows), partial |-> partial, flagged |-> more]
      /\ cut' = (Len(rows) = limit /\ ~more)
    BY DEF Page, Respond, request
<1>8. /\ more => phase' = "ask" /\ offset' = offset + limit /\ Len(rows) = limit /\ offset + limit <= MaxOffset
      /\ ~more => phase' = "idle" /\ offset' = 0
    BY DEF Page, End, nextOffset
<1>9. Respond(rows, more)
    BY DEF Page
<1> more \in BOOLEAN
    BY DEF nextOffset
<1> HIDE DEF more
<1>10. TypeOK'
    <2>1. offset' \in 0..MaxOffset /\ phase' \in {"idle", "ask", "query"}
        BY <1>1, <1>8
    <2>2. cut' \in BOOLEAN
        BY <1>7
    <2> QED
        BY <1>5, <1>9, <2>1, <2>2, RespondType
<1>11. ShortIsComplete'
    BY <1>4, <1>5, <1>9, RespondShort
<1>12. Matching' = Matching /\ \A x : Above(x)' = Above(x)
    BY <1>7 DEF Matching, Above, Order, HistoryOrder, LogOrder
<1>13. Counted'
    BY <1>1, <1>6, <1>7, <1>8 DEF Counted, OnAWalk
<1>14. Told' /\ Seen'
    BY <1>7, <1>8 DEF Told, Seen
<1>15. CutIsLate'
    <2> SUFFICES ASSUME cut' PROVE Len(got') > MaxOffset
        BY DEF CutIsLate
    <2>1. Len(rows) = limit /\ ~more
        BY <1>7, Zenon
    <2>2. ~(offset + limit <= MaxOffset) /\ Len(got') = offset + limit
        BY <1>6, <2>1 DEF nextOffset, more
    <2> QED
        BY <1>1, <2>2
<1>16. OnAWalk /\ (present \cup ToSet(got)) \ stirred \subseteq Matching
    BY DEF OnAWalk, ReadsInv, Kept
<1>17. ToSet(rows) \subseteq Matching
    BY <1>4, <1>5 DEF ToSet
<1>18. Kept'
    BY <1>6, <1>7, <1>12, <1>16, <1>17 DEF Kept
\* The rank of a row is its place in the list.
<1>19. ASSUME ~tied'
       PROVE  /\ \A a \in 1..Len(rows) : Cardinality(Above(rows[a])) = offset + a - 1
              /\ \A x \in Matching : /\ Cardinality(Above(x)) \in Nat
                                     /\ Cardinality(Above(x)) < Cardinality(Matching)
                                     /\ s[Cardinality(Above(x)) + 1] = x
    <2>1. ~HasTies /\ TypeOK
        BY <1>7, <1>19 DEF ReadsInv
    <2>2. /\ \A a \in 1..Cardinality(Matching) : Cardinality(Above(s[a])) = a - 1
          /\ \A x \in Matching : Cardinality(Above(x)) + 1 \in 1..Cardinality(Matching)
                                 /\ s[Cardinality(Above(x)) + 1] = x
        BY <1>4, <2>1, RankOfPlace
    <2>3. ASSUME NEW a \in 1..Len(rows) PROVE Cardinality(Above(rows[a])) = offset + a - 1
        <3>1. offset + a \in 1..Cardinality(Matching) /\ rows[a] = s[offset + a]
            BY <1>4
        <3>2. PICK b \in 1..Cardinality(Matching) : b = offset + a
            BY <3>1
        <3>3. Cardinality(Above(s[b])) = b - 1
            BY <2>2
        <3>4. s[b] = rows[a]
            BY <3>1, <3>2
        <3>5. Cardinality(Above(rows[a])) = b - 1
            BY <3>3, <3>4
        <3> QED
            BY <1>1, <1>5, <3>2, <3>5
    <2>4. ASSUME NEW x \in Matching
          PROVE  /\ Cardinality(Above(x)) \in Nat
                 /\ Cardinality(Above(x)) < Cardinality(Matching)
                 /\ s[Cardinality(Above(x)) + 1] = x
        <3>1. Above(x) \in SUBSET Ids
            BY <1>3 DEF Above
        <3>2. Cardinality(Above(x)) \in Nat
            BY <3>1, FewMatch
        <3> QED
            BY <1>3, <2>2, <3>2
    <2> QED
        BY <2>3, <2>4
\* A row at or behind the offset is on this page or behind it.
<1>20. ASSUME ~tied', ~retreated, ~dark', NEW x \in present \ stirred, x \notin ToSet(got')
       PROVE  Cardinality(Above(x)) \in Nat /\ Cardinality(Above(x)) >= offset + Len(rows)
              /\ Cardinality(Above(x)) < Cardinality(Matching)
    <2>1. x \in Matching /\ x \notin ToSet(got) /\ x \notin ToSet(rows)
        BY <1>6, <1>16, <1>20
    <2>2. ~tied /\ ~dark
        BY <1>7, <1>20
    <2>3. Cardinality(Above(x)) >= offset
        BY <1>16, <1>20, <2>1, <2>2 DEF ReadsInv, Ahead
    <2>4. PICK c : c = Cardinality(Above(x))
        OBVIOUS
    <2>5. c \in Nat /\ c >= offset /\ c < Cardinality(Matching) /\ s[c + 1] = x
        BY <1>19, <1>20, <2>1, <2>3, <2>4
    <2>6. ~(c < offset + Len(rows))
        <3> SUFFICES ASSUME c < offset + Len(rows) PROVE FALSE
            OBVIOUS
        <3>1. c + 1 - offset \in 1..Len(rows) /\ offset + (c + 1 - offset) = c + 1
            BY <1>1, <1>5, <2>5
        <3>2. rows[c + 1 - offset] = x
            BY <1>4, <2>5, <3>1
        <3> QED
            BY <1>5, <2>1, <3>1, <3>2 DEF ToSet
    <2> QED
        BY <1>1, <1>5, <2>4, <2>5, <2>6
<1>21. Ahead'
    <2> SUFFICES ASSUME OnAWalk', ~(retreated' \/ tied' \/ dark'), NEW x \in present \ stirred, x \notin ToSet(got')
                 PROVE  Cardinality(Above(x)') >= offset'
        BY <1>7 DEF Ahead
    <2>1. more
        BY <1>8 DEF OnAWalk
    <2>2. Cardinality(Above(x)) >= offset + Len(rows)
        BY <1>7, <1>20
    <2> QED
        BY <1>8, <1>12, <2>1, <2>2
<1>22. Len(rows) # limit => Len(rows) < limit
    <2>1. \A a, b \in Nat : a <= b /\ a # b => a < b
        OBVIOUS
    <2>2. Len(rows) \in Nat /\ Len(rows) <= limit /\ limit \in Nat
        BY <1>1, <1>4, <1>5
    <2> QED
        BY <2>1, <2>2, Zenon
<1>23. ASSUME NEW c \in Nat, c >= offset + Len(rows), c < Cardinality(Matching)
       PROVE  ~(Cardinality(Matching) <= offset + Len(rows))
    BY <1>1, <1>3, <1>5, <1>23
<1>24. NothingSkipped'
    <2> SUFFICES ASSUME Ended', ~(retreated' \/ tied' \/ dark' \/ cut'), NEW x \in present \ stirred, x \notin ToSet(got')
                 PROVE  FALSE
        BY <1>7 DEF NothingSkipped
    <2>1. ~more
        BY <1>8 DEF Ended
    <2> Len(rows) # limit
        BY <1>7, <2>1, Zenon
    <2>2. Len(rows) < limit
        BY <1>22
    <2>3. Cardinality(Matching) <= offset + Len(rows)
        BY <1>4, <2>2
    <2>4. /\ Cardinality(Above(x)) \in Nat /\ Cardinality(Above(x)) >= offset + Len(rows)
          /\ Cardinality(Above(x)) < Cardinality(Matching)
        BY <1>7, <1>20
    <2> QED
        BY <1>23, <2>3, <2>4
\* What has been returned is before the offset.
<1>25. ASSUME ~tied', ~grown, NEW x \in ToSet(got) \ stirred
       PROVE  Cardinality(Above(x)) < offset
    <2>1. ~tied
        BY <1>7, <1>25
    <2> QED
        BY <1>16, <1>25, <2>1 DEF ReadsInv, Behind
<1>26. Behind'
    <2> SUFFICES ASSUME OnAWalk', ~grown, ~tied', NEW x \in ToSet(got') \ stirred
                 PROVE  Cardinality(Above(x)) < offset'
        BY <1>7, <1>12 DEF Behind
    <2>1. more /\ offset' = offset + limit /\ Len(rows) = limit
        BY <1>8 DEF OnAWalk
    <2>2. CASE x \in ToSet(got)
        <3>1. x \in Matching
            BY <1>16, <2>2
        <3>2. Cardinality(Above(x)) \in Nat /\ Cardinality(Above(x)) < offset
            BY <1>19, <1>25, <2>2, <3>1
        <3> QED
            BY <1>1, <2>1, <3>2
    <2>3. CASE x \in ToSet(rows)
        <3>1. PICK a \in 1..Len(rows) : x = rows[a]
            BY <1>5, <2>3 DEF ToSet
        <3>2. Cardinality(Above(x)) = offset + a - 1
            BY <1>19, <3>1
        <3> QED
            BY <1>1, <2>1, <3>1, <3>2
    <2> QED
        BY <1>6, <2>2, <2>3
<1>27. NothingRepeated'
    <2> SUFFICES ASSUME ~grown, ~tied', NEW a \in DOMAIN got', NEW b \in DOMAIN got', a < b, got'[a] = got'[b],
                        got'[a] \notin stirred
                 PROVE  FALSE
        <3>1. \A a \in DOMAIN got' : a \in Nat
            BY <1>6
        <3> QED
            BY <1>7, <3>1 DEF NothingRepeated
    <2>1. /\ a \in 1..(offset + Len(rows)) /\ b \in 1..(offset + Len(rows)) /\ a \in Nat /\ b \in Nat
          /\ got'[a] = (IF a <= offset THEN got[a] ELSE rows[a - offset])
          /\ got'[b] = (IF b <= offset THEN got[b] ELSE rows[b - offset])
        <3>1. DOMAIN got' = 1..(offset + Len(rows))
            BY <1>6
        <3>2. \A c \in 1..(offset + Len(rows)) : got'[c] = IF c <= offset THEN got[c] ELSE rows[c - offset]
            BY <1>2, <1>5, <1>6, ConcatProperties
        <3>3. \A c \in 1..(offset + Len(rows)) : c \in Nat
            BY <1>1, <1>5
        <3> QED
            BY <3>1, <3>2, <3>3
    <2>2. CASE b <= offset
        <3>1. a <= offset /\ a \in DOMAIN got /\ b \in DOMAIN got /\ a # b
            BY <1>1, <1>5, <2>1, <2>2
        <3>2. got[a] = got[b] /\ got[a] \notin stirred
            BY <2>1, <2>2, <3>1
        <3>3. ~tied
            BY <1>7
        <3> QED
            BY <3>1, <3>2, <3>3 DEF ReadsInv, NothingRepeated
    <2>3. CASE ~(b <= offset)
        <3> DEFINE d == b - offset
        <3>1. d \in 1..Len(rows) /\ d \in Nat /\ d >= 1 /\ offset + d = b
            BY <1>1, <1>5, <2>1, <2>3
        <3>2. got'[b] = rows[d] /\ Cardinality(Above(rows[d])) = offset + d - 1
            BY <1>19, <2>1, <2>3, <3>1
        <3> HIDE DEF d
        <3>3. CASE a <= offset
            <4>1. got[a] \in ToSet(got) \ stirred /\ got[a] = rows[d]
                <5>1. a \in DOMAIN got /\ got'[a] = got[a]
                    BY <1>1, <1>5, <2>1, <3>3
                <5> QED
                    BY <3>2, <5>1 DEF ToSet
            <4>2. Cardinality(Above(rows[d])) < offset
                BY <1>25, <4>1
            <4> QED
                BY <1>1, <3>1, <3>2, <4>2
        <3>4. CASE ~(a <= offset)
            <4> DEFINE c == a - offset
            <4>1. c \in 1..Len(rows) /\ c \in Nat /\ offset + c = a
                BY <1>1, <1>5, <2>1, <3>4
            <4>2. got'[a] = rows[c] /\ Cardinality(Above(rows[c])) = offset + c - 1
                BY <1>19, <2>1, <3>4, <4>1
            <4> HIDE DEF c
            <4> QED
                BY <1>1, <3>1, <3>2, <4>1, <4>2
        <3> QED
            BY <3>3, <3>4
    <2> QED
        BY <2>2, <2>3
<1> QED
    BY <1>10, <1>11, <1>13, <1>14, <1>15, <1>18, <1>21, <1>24, <1>26, <1>27 DEF ReadsInv

\* The empty answer of a coordinator that does not reach the tenant's shard.
LEMMA DarkPageStep ==
    ASSUME ReadsInv, phase = "query", mode = "logs", ~linked, Page(<<>>, FALSE)
    PROVE  ReadsInv'
<1>1. got \in Seq(Ids) /\ got' = got /\ <<>> \in Seq(Ids) /\ Len(<<>>) = 0 /\ limit \in Nat /\ limit >= 1
    BY LimitIs DEF ReadsInv, TypeOK, Page, Respond
<1>2. phase' = "idle" /\ offset' = 0 /\ cut' = FALSE /\ mode' = mode
    <2>1. phase' = "idle" /\ offset' = 0 /\ mode' = mode
        BY DEF Page, End, Respond, request
    <2>2. Len(<<>>) # limit
        BY <1>1
    <2>3. cut' = (Len(<<>>) = limit /\ ~FALSE)
        BY DEF Page
    <2> QED
        BY <2>1, <2>2, <2>3, Zenon
<1>3. TypeOK'
    <2>1. offset' \in 0..MaxOffset
        BY <1>2, ReadsAssumption
    <2> QED
        BY <1>1, <1>2, <2>1, RespondType DEF Page
<1>4. ShortIsComplete'
    <2>1. mode \notin History
        BY DEF History
    <2> QED
        BY <1>1, <2>1, RespondShort DEF Page
<1>5. dark' = TRUE
    BY DEF Page, Respond, Sharded
<1>6. Counted' /\ Kept' /\ Ahead' /\ Behind' /\ Told' /\ Seen' /\ NothingSkipped' /\ CutIsLate'
    BY <1>2, <1>5 DEF Counted, Kept, Ahead, Behind, Told, Seen, OnAWalk, NothingSkipped, CutIsLate
<1>7. NothingRepeated'
    <2>1. grown' = grown /\ stirred' = stirred /\ (tied => tied')
        BY DEF Page, Respond
    <2> QED
        BY <1>1, <1>2, <2>1 DEF ReadsInv, NothingRepeated
<1> QED
    BY <1>3, <1>4, <1>6, <1>7 DEF ReadsInv

LEMMA ServeLogsStep ==
    ASSUME ReadsInv, ServeLogs
    PROVE  ReadsInv'
<1>1. PICK rows \in QueryLogs : Page(rows, nextOffset(Len(rows)))
    BY DEF ServeLogs
<1>2. phase = "query" /\ mode = "logs" /\ mode \in Paged /\ mode \notin History
    BY DEF ServeLogs, Paged, History
<1>3. CASE linked
    <2>1. rows \in Windows(Order, limit, offset)
        BY <1>2, <1>3 DEF QueryLogs, Reached, Order
    <2> QED
        BY <1>1, <1>2, <1>3, <2>1, PageStep
<1>4. CASE ~linked
    <2>1. rows = <<>>
        BY <1>4 DEF QueryLogs, Reached
    <2>2. nextOffset(Len(rows)) = FALSE
        BY <2>1, LimitIs DEF nextOffset
    <2> QED
        BY <1>1, <1>2, <1>4, <2>1, <2>2, DarkPageStep
<1> QED
    BY <1>3, <1>4

LEMMA ServeHistoryStep ==
    ASSUME ReadsInv, ServeHistory
    PROVE  ReadsInv'
<1>1. PICK rows \in QueryAlertHistory : Page(rows, historyNextOffset(Len(rows)))
    BY DEF ServeHistory
<1>2. phase = "query" /\ mode \in Paged /\ mode \in History
    BY DEF ServeHistory, Paged
<1>3. rows \in Windows(Order, limit, offset)
    BY <1>2 DEF QueryAlertHistory, Order
<1>4. historyNextOffset(Len(rows)) = nextOffset(Len(rows))
    <2>1. offset + limit \in Nat /\ MaxOffset \in Nat
        BY LimitIs, ReadsAssumption DEF ReadsInv, TypeOK
    <2> QED
        BY <2>1 DEF historyNextOffset, nextOffset
<1> QED
    BY <1>1, <1>2, <1>3, <1>4, PageStep

-----------------------------------------------------------------------------
(* The theorems.                                                           *)

LEMMA InitReads == Init => ReadsInv
<1> SUFFICES ASSUME Init PROVE ReadsInv
    OBVIOUS
<1>1. reply.ok = FALSE /\ reply \in [ok : BOOLEAN, count : Nat, partial : BOOLEAN, flagged : BOOLEAN]
    BY DEF Init, NoReply
<1>2. got \in Seq(Ids) /\ DOMAIN got = {} /\ Len(got) = 0
    BY DEF Init
<1>3. offset \in 0..MaxOffset /\ beyond \in 0..MaxItems
    BY ReadsAssumption DEF Init
<1>4. {grown, retreated, tied, dark, shifted, blind, cut} \subseteq BOOLEAN
    BY DEF Init
<1>5. mode \in Modes
    BY DEF Init, Modes, Sharded
<1>6. TypeOK
    BY <1>1, <1>2, <1>3, <1>4, <1>5, ReadsAssumption DEF Init, TypeOK
<1>7. Counted /\ Kept /\ Ahead /\ Behind /\ Told /\ Seen
    BY DEF Init, Counted, Kept, Ahead, Behind, Told, Seen, OnAWalk
<1>8. NothingSkipped /\ NothingRepeated /\ CutIsLate /\ ShortIsComplete
    BY <1>1, <1>2 DEF Init, NothingSkipped, NothingRepeated, CutIsLate, ShortIsComplete, Ended
<1> QED
    BY <1>6, <1>7, <1>8 DEF ReadsInv

LEMMA NextReads == ReadsInv /\ [Next]_vars => ReadsInv'
<1> SUFFICES ASSUME ReadsInv, [Next]_vars PROVE ReadsInv'
    OBVIOUS
<1>1. CASE \E k \in 1..MaxKey : Arrive(k)
    BY <1>1, ArriveStep
<1>2. CASE \E i \in DOMAIN items, k \in 1..MaxKey, open \in BOOLEAN : Change(i, k, open)
    BY <1>2, ChangeStep
<1>3. CASE \E u \in SUBSET Shards, l \in BOOLEAN : Shift(u, l)
    BY <1>3, ShiftStep
<1>4. CASE \E n \in Limits : \/ parseQueryFilter(n) \/ parseGraphQuery(n)
                             \/ parseAnalyticsQuery(n) \/ parseAlertHistoryQuery(n)
    <2>1. PICK n \in Limits : \/ parseQueryFilter(n) \/ parseGraphQuery(n)
                              \/ parseAnalyticsQuery(n) \/ parseAlertHistoryQuery(n)
        BY <1>4
    <2>2. \E m \in Modes, f \in BOOLEAN : Begin(m, f, n)
        BY <2>1 DEF parseQueryFilter, parseGraphQuery, parseAnalyticsQuery, parseAlertHistoryQuery,
            Modes, Sharded, History
    <2> QED
        BY <2>2, BeginStep
<1>5. CASE Probe \/ QueryFails
    BY <1>5, ProbeStep, QueryFailsStep
<1>6. CASE ServeLogs \/ ServeHistory
    BY <1>6, ServeLogsStep, ServeHistoryStep
<1>7. CASE ServeGraph \/ ServeAnalytics \/ StreamLogs
    BY <1>7, ServeGraphStep, ServeAnalyticsStep, StreamLogsStep
<1>8. CASE vars' = vars
    <2>1. /\ UNCHANGED <<items, request, offset, got, reply, causes, outcome, shardVars, shifted>>
          /\ phase' = phase /\ partial' = partial
        BY <1>8 DEF vars, server
    <2>2. TypeOK'
        BY <2>1 DEF ReadsInv, TypeOK, request, causes, outcome, shardVars
    <2>3. Seen' /\ ShortIsComplete'
        BY <2>1 DEF ReadsInv, Seen, ShortIsComplete, request, outcome, shardVars
    <2> QED
        BY <2>1, <2>2, <2>3, QuietStep
<1> QED
    BY <1>1, <1>2, <1>3, <1>4, <1>5, <1>6, <1>7, <1>8 DEF Next

\* The inductive invariant of a walk along next_offset: the offset is the number
\* of rows returned, what did not change is either returned or has at least
\* offset rows before it, and what was returned has fewer.
THEOREM ReadsInvariant == Spec => []ReadsInv
BY InitReads, NextReads, PTL DEF Spec

\* A client that follows next_offset gets every item that was there when it
\* began and did not change, and none of them twice, outside of the named races;
\* it is cut off at maxOffset only after more than maxOffset rows.
THEOREM WalkSafe == Spec => []WalkIsFaithful
<1>1. ReadsInv => WalkIsFaithful
    BY DEF ReadsInv, WalkIsFaithful
<1> QED
    BY <1>1, ReadsInvariant, PTL

\* An answer with fewer rows than LIMIT that is neither partial nor flagged left
\* nothing out, unless the shards changed after the probe or the coordinator
\* could not reach a shard that the probe could.
THEOREM ShortSafe == Spec => []ShortIsComplete
<1>1. ReadsInv => ShortIsComplete
    BY DEF ReadsInv
<1> QED
    BY <1>1, ReadsInvariant, PTL

-----------------------------------------------------------------------------
(* ServiceGraph: the graph of a part of the records.                       *)

\* The records the first loop has seen, and their flows.
LoggedTo(n) == {i \in Logged : i <= n}
KeysTo(n) == {graphFlowIdentity(records[i]) : i \in LoggedTo(n)} \ {NoFlow}
FlowTo(k, n) == {i \in InFlow(k) : i <= n}

\* The maps after n records, the flows C and the records W of flows.
Mentioning(C, s) == {k \in C : \E i \in InFlow(k) : s \in Mentions(i)}
NodeNames(n, W) == {ServiceAt(i) : i \in LoggedTo(n)} \cup UNION {Mentions(i) : i \in W}
NodeOf(n, C, s) ==
    [logs |-> Count({i \in LoggedTo(n) : ServiceAt(i) = s}),
     errors |-> Count({i \in LoggedTo(n) : ServiceAt(i) = s /\ ErrorAt(i)}),
     flows |-> Count(Mentioning(C, s))]
NodeMapOf(n, C, W) == [s \in NodeNames(n, W) |-> NodeOf(n, C, s)]

Pairs == {x \in Services \X Services : x[1] # x[2]}
FlowPairs(V) == {x \in Pairs : Linked(V, x[1], x[2])}
FlowEdgesOf(V) ==
    [e \in FlowPairs(V) |-> [error |-> Failing(V, e[1], e[2]), propagated |-> Propagating(V, e[1], e[2])]]
EdgeOf(C, e) ==
    [flows |-> Count({k \in C : Linked(InFlow(k), e[1], e[2])}),
     errors |-> Count({k \in C : Failing(InFlow(k), e[1], e[2])}),
     propagated |-> Count({k \in C : Propagating(InFlow(k), e[1], e[2])})]
EdgePairs(C) == {x \in Pairs : \E k \in C : Linked(InFlow(k), x[1], x[2])}
EdgeMapOf(C) == [e \in EdgePairs(C) |-> EdgeOf(C, e)]

Named(V) == {i \in V : graphField(records[i], "user") # None}
FirstNamed(user, V) ==
    IF Named(V) = {} THEN user = None
    ELSE \E i \in Named(V) : user = graphField(records[i], "user") /\ \A j \in Named(V) : i <= j
ServicesOf(V) == UNION {Mentions(i) : i \in V}
TracesOf(V) == {records[i].trace : i \in V} \ {None}
ErrorsIn(V) == {i \in V : ErrorAt(i)}

\* The summary s of a flow with the records V.
Summary(s, V) ==
    /\ s.logs = Count(V) /\ s.errors = Count(ErrorsIn(V))
    /\ {s.started, s.ended} \subseteq V /\ V \subseteq s.started..s.ended
    /\ s.services = ServicesOf(V) /\ s.traces = TracesOf(V) /\ FirstNamed(s.user, V)

\* q lists S in ascending order.
InOrder(q, S) ==
    /\ q \in Seq(S)
    /\ \A a, b \in 1..Len(q) : a < b => q[a] < q[b]
    /\ \A i \in S : \E a \in 1..Len(q) : q[a] = i
FirstOf(q, n) == {q[a] : a \in 1..n}

-----------------------------------------------------------------------------
(* ServiceGraph: the invariant.                                            *)

Visited == IF flow = NoFlow THEN {} ELSE FirstOf(flows[flow], index)
ClosedRecords(C) == UNION {InFlow(k) : k \in C}
WalkedOf(C, V) == ClosedRecords(C) \cup V

\* The second loop starts when the first has seen all records.
LoopsInv ==
    /\ records \in Seq(LogRecords) /\ Len(records) <= MaxRecords /\ counted \in 0..Len(records)
    /\ flow # NoFlow \/ closed # {} => counted = Len(records)
    /\ closed \subseteq DOMAIN flows
    /\ flow \in (DOMAIN flows \ closed) \cup {NoFlow}
    /\ index \in 0..(IF flow = NoFlow THEN 0 ELSE Len(flows[flow]))
FlowsInv ==
    /\ DOMAIN flows = KeysTo(counted)
    /\ \A k \in DOMAIN flows : InOrder(flows[k], FlowTo(k, counted))
NodesInv == nodeMap = NodeMapOf(counted, closed, WalkedOf(closed, Visited))
EdgesInv == edgeMap = EdgeMapOf(closed)
ScratchInv ==
    /\ seenServices = ServicesOf(Visited) /\ traceIDs = TracesOf(Visited)
    /\ errorCount = Count(ErrorsIn(Visited)) /\ FirstNamed(userID, Visited)
    /\ flowEdges = FlowEdgesOf(Visited)
SessionsInv ==
    /\ {s.key : s \in sessions} = closed
    /\ \A s, t \in sessions : s.key = t.key => s = t
    /\ \A s \in sessions : Summary(s, InFlow(s.key))

GraphInv == LoopsInv /\ FlowsInv /\ NodesInv /\ EdgesInv /\ ScratchInv /\ SessionsInv

-----------------------------------------------------------------------------
(* Reading a record.                                                       *)

LEMMA Normalizes == \A n \in DOMAIN Normalize : Normalize[n] \in Services \cup {None}
BY DEF Services

LEMMA FieldType ==
    ASSUME NEW r \in LogRecords, NEW c \in {"upstream", "downstream"}
    PROVE  graphField(r, c) \in DOMAIN Normalize
<1>1. r.fields[c] \in Seq(DOMAIN Normalize) /\ None \in DOMAIN Normalize
    BY GraphAssumption
<1> QED
    BY <1>1 DEF graphField

LEMMA RecordAt ==
    ASSUME records \in Seq(LogRecords), NEW i \in Logged
    PROVE  /\ i \in 1..Len(records) /\ i \in Nat /\ records[i] \in LogRecords
           /\ ServiceAt(i) = normalizeGraphService(records[i])
           /\ ServiceAt(i) \in Services /\ ServiceAt(i) # None
           /\ Upstream(records[i]) \in Services \cup {None}
           /\ Downstream(records[i]) \in Services \cup {None}
           /\ (ErrorAt(i) <=> isErrorLevel(records[i]))
<1>1. i \in 1..Len(records) /\ i \in Nat
    BY DEF Logged
<1>2. PICK r \in LogRecords : r = records[i]
    BY <1>1
<1>3. r.service \in DOMAIN Normalize
    BY GraphAssumption
<1>4. Normalize[r.service] \in Services \cup {None} /\ Normalize[r.service] # None
    BY <1>2, <1>3, Normalizes DEF Logged
<1>5. Upstream(r) \in Services \cup {None} /\ Downstream(r) \in Services \cup {None}
    BY Normalizes, FieldType DEF Upstream, Downstream
<1>6. ServiceAt(i) = normalizeGraphService(records[i]) /\ ServiceAt(i) = Normalize[r.service]
    BY <1>2 DEF ServiceAt, normalizeGraphService
<1>7. ErrorAt(i) <=> isErrorLevel(records[i])
    BY Zenon DEF ErrorAt, isErrorLevel
<1> QED
    BY <1>1, <1>2, <1>4, <1>5, <1>6, <1>7

\* What a record mentions is its own service and its peers.
LEMMA MentionsOf ==
    ASSUME records \in Seq(LogRecords), NEW i \in Logged
    PROVE  /\ Mentions(i) = {ServiceAt(i), Upstream(records[i]), Downstream(records[i])} \ {None}
           /\ Mentions(i) = SeenBy(records[i]) /\ Mentions(i) \subseteq Services
           /\ Mentions(i) = {ServiceAt(i)} \cup Peers(records[i])
<1>1. Mentions(i) = {ServiceAt(i), Upstream(records[i]), Downstream(records[i])} \ {None}
    BY DEF Mentions, Upstream, Downstream
<1>2. Peers(records[i]) = {Upstream(records[i]), Downstream(records[i])} \ {None, ServiceAt(i)}
    BY RecordAt DEF Peers
<1>3. SeenBy(records[i]) = {ServiceAt(i)} \cup Peers(records[i])
    BY RecordAt DEF SeenBy
<1> QED
    BY <1>1, <1>2, <1>3, RecordAt

LEMMA ExplicitOf ==
    ASSUME records \in Seq(LogRecords), NEW i \in Logged
    PROVE  /\ ExplicitEdges(records[i]) \subseteq Pairs
           /\ \A x \in Pairs : x \in ExplicitEdges(records[i]) <=> Says(i, x[1], x[2])
<1>1. PICK s \in Services : s = ServiceAt(i) /\ s # None
    BY RecordAt
<1>2. PICK u \in Services \cup {None} : u = Upstream(records[i])
    BY RecordAt
<1>3. PICK d \in Services \cup {None} : d = Downstream(records[i])
    BY RecordAt
<1>4. None \notin Services
    BY DEF Services
<1>5. Peers(records[i]) = {u, d} \ {None, s}
    BY <1>1, <1>2, <1>3, RecordAt DEF Peers
<1>6. ExplicitEdges(records[i]) = {<<v, s>> : v \in {u} \ {None, s}} \cup {<<s, v>> : v \in {d} \ {None, s}}
    BY <1>1, <1>2, <1>3, <1>5, RecordAt DEF ExplicitEdges
<1>7. \A a, b : Says(i, a, b) <=> (b = s /\ a = u) \/ (a = s /\ b = d)
    BY <1>1, <1>2, <1>3, Zenon DEF Says, Upstream, Downstream
<1> QED
    BY <1>1, <1>4, <1>6, <1>7 DEF Pairs

LEMMA InferredOf ==
    ASSUME records \in Seq(LogRecords), NEW i \in Logged, NEW m \in Logged
    PROVE  /\ InferredEdges(records[m], records[i]) \subseteq Pairs
           /\ \A x \in Pairs : x \in InferredEdges(records[m], records[i])
                                 <=> ServiceAt(m) = x[1] /\ ServiceAt(i) = x[2]
<1>1. PICK s \in Services : s = ServiceAt(i)
    BY RecordAt
<1>2. PICK p \in Services : p = ServiceAt(m)
    BY RecordAt
<1>3. InferredEdges(records[m], records[i]) = {<<p, s>>} \ {<<t, t>> : t \in Services}
    BY <1>1, <1>2, RecordAt DEF InferredEdges
<1> QED
    BY <1>1, <1>2, <1>3 DEF Pairs

\* The identity of a flow is a kind and a value that is there.
LEMMA IdentityKind ==
    ASSUME NEW r, graphFlowIdentity(r) # NoFlow
    PROVE  graphFlowIdentity(r)[1] \in Kinds
<1> DEFINE ids == <<<<"session", graphField(r, "session")>>, <<"request", graphField(r, "request")>>,
                    <<"trace", r.trace>>, <<"user", graphField(r, "user")>>>>
           there == {n \in 1..4 : ids[n][2] # None}
<1>1. graphFlowIdentity(r) = IF there = {} THEN NoFlow ELSE ids[Min(there)]
    BY DEF graphFlowIdentity
<1>2. there # {}
    BY <1>1
<1>3. there \subseteq 1..4
    OBVIOUS
<1>4. \A n \in 1..4 : ids[n][1] \in Kinds
    BY DEF Kinds
<1>5. Min(there) \in there
    <2> HIDE DEF ids
    <2>1. CASE 1 \in there
        BY <2>1, <1>3 DEF Min
    <2>2. CASE 1 \notin there /\ 2 \in there
        BY <2>2, <1>3 DEF Min
    <2>3. CASE 1 \notin there /\ 2 \notin there /\ 3 \in there
        BY <2>3, <1>3 DEF Min
    <2>4. CASE there = {4}
        BY <2>4 DEF Min
    <2>5. 1 \in there \/ 2 \in there \/ 3 \in there \/ there = {4}
        BY <1>2, <1>3
    <2> QED
        BY <2>1, <2>2, <2>3, <2>4, <2>5
<1> HIDE DEF ids, there
<1> QED
    BY <1>1, <1>2, <1>3, <1>4, <1>5

-----------------------------------------------------------------------------
(* Lists in ascending order.                                               *)

LEMMA InOrderType ==
    ASSUME NEW S \in SUBSET Nat, NEW q, InOrder(q, S)
    PROVE  q \in Seq(S) /\ Len(q) \in Nat /\ \A a \in 1..Len(q) : q[a] \in S /\ q[a] \in Nat
<1>1. q \in Seq(S)
    BY DEF InOrder
<1>2. Len(q) \in Nat /\ \A a \in 1..Len(q) : q[a] \in S
    BY <1>1
<1> QED
    BY <1>1, <1>2

LEMMA InOrderAppend ==
    ASSUME NEW S \in SUBSET Nat, NEW q, InOrder(q, S), NEW m \in Nat, \A i \in S : i < m
    PROVE  InOrder(Append(q, m), S \cup {m})
<1>1. q \in Seq(S) /\ Len(q) \in Nat
    BY DEF InOrder
<1>2. q \in Seq(S \cup {m})
    BY <1>1
<1>3. /\ Append(q, m) \in Seq(S \cup {m}) /\ Len(Append(q, m)) = Len(q) + 1
      /\ Append(q, m)[Len(q) + 1] = m /\ \A a \in 1..Len(q) : Append(q, m)[a] = q[a]
    BY <1>2
<1>4. \A a \in 1..Len(q) : q[a] \in S
    BY <1>1
<1>5. ASSUME NEW a \in 1..(Len(q) + 1), NEW b \in 1..(Len(q) + 1), a < b
      PROVE  Append(q, m)[a] < Append(q, m)[b]
    <2>1. a \in 1..Len(q)
        BY <1>1, <1>5
    <2>2. CASE b = Len(q) + 1
        BY <1>3, <1>4, <2>1, <2>2
    <2>3. CASE b # Len(q) + 1
        <3>1. b \in 1..Len(q)
            BY <1>1, <2>3
        <3> QED
            BY <1>3, <1>5, <2>1, <3>1 DEF InOrder
    <2> QED
        BY <2>2, <2>3
<1>6. \A i \in S \cup {m} : \E a \in 1..(Len(q) + 1) : Append(q, m)[a] = i
    <2>1. Len(q) + 1 \in 1..(Len(q) + 1)
        BY <1>1
    <2>2. ASSUME NEW i \in S PROVE \E a \in 1..(Len(q) + 1) : Append(q, m)[a] = i
        <3>1. PICK a \in 1..Len(q) : q[a] = i
            BY DEF InOrder
        <3>2. a \in 1..(Len(q) + 1)
            BY <1>1
        <3> QED
            BY <1>3, <3>1, <3>2
    <2> QED
        BY <1>3, <2>1, <2>2
<1> QED
    BY <1>3, <1>5, <1>6 DEF InOrder

LEMMA InOrderOne == ASSUME NEW m \in Nat PROVE InOrder(Append(<<>>, m), {m})
<1>1. {} \in SUBSET Nat /\ InOrder(<<>>, {})
    BY DEF InOrder
<1>2. InOrder(Append(<<>>, m), {} \cup {m})
    BY <1>1, InOrderAppend
<1> QED
    BY <1>2

LEMMA InOrderLength ==
    ASSUME NEW S \in SUBSET Nat, NEW q, InOrder(q, S)
    PROVE  IsFiniteSet(S) /\ Cardinality(S) = Len(q) /\ Len(q) \in Nat
<1>1. Len(q) \in Nat /\ q \in [1..Len(q) -> S]
    BY DEF InOrder
<1>2. \A a, b \in 1..Len(q) : q[a] = q[b] => a = b
    <2> SUFFICES ASSUME NEW a \in 1..Len(q), NEW b \in 1..Len(q), q[a] = q[b], a # b PROVE FALSE
        OBVIOUS
    <2>1. a < b \/ b < a
        BY <1>1
    <2>2. q[a] \in Nat /\ q[b] \in Nat
        BY <1>1
    <2> QED
        BY <2>1, <2>2 DEF InOrder
<1>3. q \in Injection(1..Len(q), S)
    BY <1>1, <1>2 DEF Injection, IsInjective
<1>4. q \in Surjection(1..Len(q), S)
    BY <1>1 DEF Surjection, InOrder
<1>5. IsFiniteSet(1..Len(q)) /\ Cardinality(1..Len(q)) = Len(q)
    BY <1>1, FS_Interval
<1>6. ExistsBijection(1..Len(q), S)
    BY <1>3, <1>4 DEF ExistsBijection, Bijection
<1> QED
    BY <1>1, <1>5, <1>6, FS_Bijection

\* The next element is new and lies above those before it.
LEMMA NextInOrder ==
    ASSUME NEW S \in SUBSET Nat, NEW q, InOrder(q, S), NEW n \in 0..Len(q)
    PROVE  /\ FirstOf(q, n) \subseteq S
           /\ n = 0 => FirstOf(q, n) = {}
           /\ n > 0 => q[n] \in FirstOf(q, n) /\ \A i \in FirstOf(q, n) : i <= q[n]
           /\ n = Len(q) => FirstOf(q, n) = S
           /\ n < Len(q) => /\ q[n + 1] \in S /\ FirstOf(q, n + 1) = FirstOf(q, n) \cup {q[n + 1]}
                            /\ \A i \in FirstOf(q, n) : i < q[n + 1]
<1>1. Len(q) \in Nat /\ \A a \in 1..Len(q) : q[a] \in S /\ q[a] \in Nat
    BY InOrderType
<1>2. FirstOf(q, n) \subseteq S
    BY <1>1 DEF FirstOf
<1>3. n = 0 => FirstOf(q, n) = {}
    BY DEF FirstOf
<1>4. ASSUME n > 0 PROVE q[n] \in FirstOf(q, n) /\ \A i \in FirstOf(q, n) : i <= q[n]
    <2>1. n \in 1..n /\ n \in 1..Len(q)
        BY <1>1, <1>4
    <2>2. ASSUME NEW a \in 1..n PROVE q[a] <= q[n]
        <3>1. a \in 1..Len(q) /\ (a = n \/ a < n)
            BY <1>1
        <3>2. q[a] \in Nat /\ q[n] \in Nat
            BY <1>1, <2>1, <3>1
        <3> QED
            BY <2>1, <3>1, <3>2 DEF InOrder
    <2> QED
        BY <2>1, <2>2 DEF FirstOf
<1>5. n = Len(q) => FirstOf(q, n) = S
    BY <1>1, <1>2 DEF FirstOf, InOrder
<1>6. ASSUME n < Len(q)
      PROVE  /\ q[n + 1] \in S /\ FirstOf(q, n + 1) = FirstOf(q, n) \cup {q[n + 1]}
             /\ \A i \in FirstOf(q, n) : i < q[n + 1]
    <2>1. n + 1 \in 1..Len(q) /\ 1..(n + 1) = (1..n) \cup {n + 1}
        BY <1>1, <1>6
    <2>2. \A a \in 1..n : a \in 1..Len(q) /\ a < n + 1
        BY <1>1, <1>6
    <2>3. FirstOf(q, n + 1) = FirstOf(q, n) \cup {q[n + 1]}
        BY <2>1 DEF FirstOf
    <2>4. \A a \in 1..n : q[a] < q[n + 1]
        BY <2>1, <2>2 DEF InOrder
    <2> QED
        BY <1>1, <2>1, <2>3, <2>4 DEF FirstOf
<1> QED
    BY <1>2, <1>3, <1>4, <1>5, <1>6

LEMMA EndsInOrder ==
    ASSUME NEW S \in SUBSET Nat, NEW q, InOrder(q, S), S # {}
    PROVE  Head(q) \in S /\ Last(q) \in S /\ \A i \in S : Head(q) <= i /\ i <= Last(q)
<1>1. q \in Seq(S) /\ Len(q) \in Nat /\ \A a \in 1..Len(q) : q[a] \in S /\ q[a] \in Nat
    BY InOrderType
<1>2. PICK i0 \in S : TRUE
    OBVIOUS
<1>3. PICK a0 \in 1..Len(q) : q[a0] = i0
    BY DEF InOrder
<1>4. 1 \in 1..Len(q) /\ Len(q) \in 1..Len(q)
    BY <1>1, <1>3
<1>5. Head(q) = q[1] /\ Last(q) = q[Len(q)]
    BY <1>1, <1>4 DEF Last
<1>6. ASSUME NEW i \in S PROVE q[1] <= i /\ i <= q[Len(q)]
    <2>1. PICK a \in 1..Len(q) : q[a] = i
        BY DEF InOrder
    <2>2. (a = 1 \/ 1 < a) /\ (a = Len(q) \/ a < Len(q))
        BY <1>1
    <2>3. q[1] \in Nat /\ q[Len(q)] \in Nat /\ i \in Nat
        BY <1>1, <1>4
    <2> QED
        BY <1>4, <2>1, <2>2, <2>3 DEF InOrder
<1> QED
    BY <1>1, <1>4, <1>5, <1>6

-----------------------------------------------------------------------------
(* One more record of a flow.                                              *)

\* Record i comes after V; the last one of V is m.
After(i, V) == V \subseteq Logged /\ i \in Logged /\ \A j \in V : j < i
IsLast(m, V) == m \in V /\ \A j \in V : j <= m

LEMMA StepsFirst ==
    ASSUME records \in Seq(LogRecords), NEW i \in Logged, NEW s, NEW t
    PROVE  Steps({}, s, t) = {} /\ Steps({i}, s, t) = {}
<1>1. i \in Nat
    BY RecordAt
<1>2. ~(i < i)
    BY <1>1
<1> QED
    BY <1>2 DEF Steps

LEMMA StepsAfter ==
    ASSUME records \in Seq(LogRecords), NEW V, NEW i, After(i, V), NEW m, IsLast(m, V), NEW s, NEW t
    PROVE  \A p : p \in Steps(V \cup {i}, s, t) <=>
                    p \in Steps(V, s, t) \/ (p = <<m, i>> /\ ServiceAt(m) = s /\ ServiceAt(i) = t)
<1>1. \A j \in V : j \in Nat /\ j < i /\ j <= m
    BY RecordAt DEF After, IsLast
<1>2. m \in V /\ i \in Nat /\ m \in Nat /\ m < i
    BY <1>1, RecordAt DEF After, IsLast
<1>3. ASSUME NEW p \in Steps(V, s, t) PROVE p \in Steps(V \cup {i}, s, t)
    <2>1. /\ p \in V \X V /\ p[1] < p[2] /\ ServiceAt(p[1]) = s /\ ServiceAt(p[2]) = t
          /\ ~\E j \in V : p[1] < j /\ j < p[2]
        BY DEF Steps
    <2>2. p[1] \in Nat /\ p[2] \in Nat /\ p[2] < i
        BY <1>1, <2>1
    <2>3. ~(p[1] < i /\ i < p[2])
        BY <1>2, <2>2
    <2> QED
        BY <2>1, <2>3 DEF Steps
<1>4. ASSUME ServiceAt(m) = s, ServiceAt(i) = t PROVE <<m, i>> \in Steps(V \cup {i}, s, t)
    <2>1. ~\E j \in V \cup {i} : m < j /\ j < i
        BY <1>1, <1>2
    <2> QED
        BY <1>2, <1>4, <2>1 DEF Steps
<1>5. ASSUME NEW p \in Steps(V \cup {i}, s, t), p \notin Steps(V, s, t)
      PROVE  p = <<m, i>> /\ ServiceAt(m) = s /\ ServiceAt(i) = t
    <2>1. PICK a \in V \cup {i}, b \in V \cup {i} : p = <<a, b>>
        BY DEF Steps
    <2>2. /\ a < b /\ ServiceAt(a) = s /\ ServiceAt(b) = t
          /\ ~\E j \in V \cup {i} : a < j /\ j < b
        BY <1>5, <2>1 DEF Steps
    <2>3. a \in V
        BY <1>1, <1>2, <2>2
    <2>4. b = i
        <3> SUFFICES ASSUME b \in V PROVE FALSE
            OBVIOUS
        <3>1. p \in Steps(V, s, t)
            BY <2>1, <2>2, <2>3 DEF Steps
        <3> QED
            BY <1>5, <3>1
    <2>5. ~(a < m /\ m < i)
        BY <1>2, <2>2, <2>4
    <2>6. a = m
        BY <1>1, <1>2, <2>3, <2>5
    <2> QED
        BY <2>1, <2>2, <2>4, <2>6
<1> QED
    BY <1>3, <1>4, <1>5

\* What the edges of a flow say of the records V and one more: the explicit
\* edges of that record, and the one from the record before it.
Inferred(V, i, m) == IF V = {} THEN {} ELSE InferredEdges(records[m], records[i])
Touched(V, i, m) == ExplicitEdges(records[i]) \cup Inferred(V, i, m)

LEMMA EdgesAfter ==
    ASSUME records \in Seq(LogRecords), NEW V, NEW i, After(i, V), NEW m, V # {} => IsLast(m, V), NEW x \in Pairs
    PROVE  /\ Touched(V, i, m) \subseteq Pairs
           /\ Linked(V \cup {i}, x[1], x[2]) <=> Linked(V, x[1], x[2]) \/ x \in Touched(V, i, m)
           /\ Failing(V \cup {i}, x[1], x[2]) <=>
                 Failing(V, x[1], x[2]) \/ (x \in Touched(V, i, m) /\ ErrorAt(i))
           /\ Propagating(V \cup {i}, x[1], x[2]) <=>
                 Propagating(V, x[1], x[2]) \/ (x \in Inferred(V, i, m) /\ ErrorAt(m) /\ ErrorAt(i))
<1>1. /\ ExplicitEdges(records[i]) \subseteq Pairs
      /\ x \in ExplicitEdges(records[i]) <=> Says(i, x[1], x[2])
    BY ExplicitOf DEF After
<1>2. CASE V = {}
    <2>1. Steps(V, x[1], x[2]) = {} /\ Steps(V \cup {i}, x[1], x[2]) = {}
        BY <1>2, StepsFirst DEF After
    <2>2. Touched(V, i, m) = ExplicitEdges(records[i]) /\ Inferred(V, i, m) = {}
        BY <1>2 DEF Touched, Inferred
    <2> QED
        BY <1>1, <1>2, <2>1, <2>2, Zenon DEF Linked, Failing, Propagating
<1>3. CASE V # {}
    <2>1. \A p : p \in Steps(V \cup {i}, x[1], x[2]) <=>
            p \in Steps(V, x[1], x[2]) \/ (p = <<m, i>> /\ ServiceAt(m) = x[1] /\ ServiceAt(i) = x[2])
        BY <1>3, StepsAfter
    <2>2. m \in Logged /\ i \in Logged
        BY <1>3 DEF After, IsLast
    <2>3. /\ Inferred(V, i, m) \subseteq Pairs
          /\ x \in Inferred(V, i, m) <=> ServiceAt(m) = x[1] /\ ServiceAt(i) = x[2]
        BY <1>3, <2>2, InferredOf DEF Inferred
    <2>4. Touched(V, i, m) \subseteq Pairs /\ (x \in Touched(V, i, m) <=> Says(i, x[1], x[2]) \/ x \in Inferred(V, i, m))
        BY <1>1, <2>3 DEF Touched
    <2>5. <<m, i>>[1] = m /\ <<m, i>>[2] = i
        OBVIOUS
    <2>6. Linked(V \cup {i}, x[1], x[2]) <=> Linked(V, x[1], x[2]) \/ x \in Touched(V, i, m)
        BY <2>1, <2>3, <2>4 DEF Linked
    <2>7. Failing(V \cup {i}, x[1], x[2]) <=>
             Failing(V, x[1], x[2]) \/ (x \in Touched(V, i, m) /\ ErrorAt(i))
        BY <2>1, <2>3, <2>4, <2>5, Zenon DEF Failing
    <2>8. Propagating(V \cup {i}, x[1], x[2]) <=>
             Propagating(V, x[1], x[2]) \/ (x \in Inferred(V, i, m) /\ ErrorAt(m) /\ ErrorAt(i))
        BY <2>1, <2>3, <2>5, Zenon DEF Propagating
    <2> QED
        BY <2>4, <2>6, <2>7, <2>8
<1> QED
    BY <1>2, <1>3

\* An edge that fails is there, and so is one that propagates, which fails.
LEMMA EdgesNest ==
    ASSUME NEW V, NEW s, NEW t
    PROVE  /\ Propagating(V, s, t) => Failing(V, s, t)
           /\ Failing(V, s, t) => Linked(V, s, t)
           /\ Failing(V, s, t) \in BOOLEAN /\ Propagating(V, s, t) \in BOOLEAN
BY Zenon DEF Propagating, Failing, Linked

\* Both ends of an edge are mentioned.
LEMMA EndsMentioned ==
    ASSUME records \in Seq(LogRecords), NEW V \in SUBSET Logged, NEW x \in FlowPairs(V)
    PROVE  \E i, j \in V : x[1] \in Mentions(i) /\ x[2] \in Mentions(j)
<1>1. /\ Linked(V, x[1], x[2])
      /\ x[1] \in Services /\ x[2] \in Services /\ x[1] # None /\ x[2] # None
    BY DEF FlowPairs, Pairs, Services
<1>2. CASE \E i \in V : Says(i, x[1], x[2])
    <2>1. PICK i \in V : Says(i, x[1], x[2])
        BY <1>2
    <2>2. Mentions(i) = {ServiceAt(i), Upstream(records[i]), Downstream(records[i])} \ {None}
        BY MentionsOf
    <2>3. x[1] \in Mentions(i) /\ x[2] \in Mentions(i)
        BY <1>1, <2>1, <2>2 DEF Says, Upstream, Downstream
    <2> QED
        BY <2>3
<1>3. CASE Steps(V, x[1], x[2]) # {}
    <2>1. PICK p : p \in Steps(V, x[1], x[2])
        BY <1>3
    <2>2. p[1] \in V /\ p[2] \in V /\ ServiceAt(p[1]) = x[1] /\ ServiceAt(p[2]) = x[2]
        BY <2>1 DEF Steps
    <2>3. x[1] \in Mentions(p[1]) /\ x[2] \in Mentions(p[2])
        BY <2>2, MentionsOf
    <2> QED
        BY <2>2, <2>3
<1> QED
    BY <1>1, <1>2, <1>3 DEF Linked

-----------------------------------------------------------------------------
(* The records stay, and with them what is said of them.                   *)

LEMMA SameRecord ==
    ASSUME records' = records
    PROVE  /\ \A i : ServiceAt(i)' = ServiceAt(i)
           /\ \A i : Mentions(i)' = Mentions(i)
           /\ \A i : ErrorAt(i)' <=> ErrorAt(i)
           /\ \A i, s, t : Says(i, s, t)' <=> Says(i, s, t)
           /\ Logged' = Logged
<1>1. \A i : ServiceAt(i)' = ServiceAt(i)
    BY DEF ServiceAt
<1>2. \A i : graphField(records[i], "upstream")' = graphField(records[i], "upstream")
    BY DEF graphField
<1>3. \A i : graphField(records[i], "downstream")' = graphField(records[i], "downstream")
    BY DEF graphField
<1>4. \A i : Mentions(i)' = Mentions(i)
    BY <1>1, <1>2, <1>3 DEF Mentions
<1>5. \A i : ErrorAt(i)' <=> ErrorAt(i)
    BY DEF ErrorAt
<1>6. \A i, s, t : Says(i, s, t)' <=> Says(i, s, t)
    BY <1>1, <1>2, <1>3 DEF Says
<1>7. Logged' = Logged
    BY DEF Logged
<1> QED
    BY <1>1, <1>4, <1>5, <1>6, <1>7

LEMMA SameFlows ==
    ASSUME records' = records
    PROVE  /\ \A k : InFlow(k)' = InFlow(k)
           /\ Keys' = Keys
           /\ \A n : LoggedTo(n)' = LoggedTo(n) /\ KeysTo(n)' = KeysTo(n)
           /\ \A k, n : FlowTo(k, n)' = FlowTo(k, n)
           /\ \A i : graphFlowIdentity(records[i])' = graphFlowIdentity(records[i])
<1>1. \A i : graphFlowIdentity(records[i])' = graphFlowIdentity(records[i])
    BY DEF graphFlowIdentity, graphField
<1>2. \A k : InFlow(k)' = InFlow(k)
    BY <1>1, SameRecord DEF InFlow
<1>3. \A n : LoggedTo(n)' = LoggedTo(n)
    BY SameRecord DEF LoggedTo
<1>4. \A n : KeysTo(n)' = KeysTo(n)
    BY <1>1, <1>3 DEF KeysTo
<1>5. \A k, n : FlowTo(k, n)' = FlowTo(k, n)
    BY <1>2 DEF FlowTo
<1>6. Keys' = Keys
    BY <1>1, SameRecord DEF Keys
<1> QED
    BY <1>1, <1>2, <1>3, <1>4, <1>5, <1>6

LEMMA SameEdges ==
    ASSUME records' = records
    PROVE  /\ \A V, s, t : Linked(V, s, t)' <=> Linked(V, s, t)
           /\ \A V, s, t : Failing(V, s, t)' <=> Failing(V, s, t)
           /\ \A V, s, t : Propagating(V, s, t)' <=> Propagating(V, s, t)
           /\ \A V : FlowEdgesOf(V)' = FlowEdgesOf(V)
           /\ \A C : EdgeMapOf(C)' = EdgeMapOf(C)
<1>1. \A V, s, t : Steps(V, s, t)' = Steps(V, s, t)
    BY SameRecord DEF Steps
<1>2. \A V, s, t : Linked(V, s, t)' <=> Linked(V, s, t)
    BY <1>1, SameRecord, Zenon DEF Linked
<1>3. \A V, s, t : Failing(V, s, t)' <=> Failing(V, s, t)
    BY <1>1, SameRecord, Zenon DEF Failing
<1>4. \A V, s, t : Propagating(V, s, t)' <=> Propagating(V, s, t)
    BY <1>1, SameRecord, Zenon DEF Propagating
<1>5. \A V : FlowPairs(V)' = FlowPairs(V)
    BY <1>2 DEF FlowPairs, Pairs
<1>6. \A V, s, t : Failing(V, s, t)' = Failing(V, s, t) /\ Propagating(V, s, t)' = Propagating(V, s, t)
    BY <1>3, <1>4, Zenon DEF Failing, Propagating
<1>7. \A V : FlowEdgesOf(V)' = FlowEdgesOf(V)
    BY <1>5, <1>6 DEF FlowEdgesOf
<1>8. \A C : EdgePairs(C)' = EdgePairs(C)
    BY <1>2, SameFlows DEF EdgePairs, Pairs
<1>9. \A C, e : EdgeOf(C, e)' = EdgeOf(C, e)
    BY <1>2, <1>3, <1>4, SameFlows DEF EdgeOf, Count
<1>10. \A C : EdgeMapOf(C)' = EdgeMapOf(C)
    BY <1>8, <1>9 DEF EdgeMapOf
<1> QED
    BY <1>2, <1>3, <1>4, <1>7, <1>10

LEMMA SameNodes ==
    ASSUME records' = records
    PROVE  \A n, C, W : NodeMapOf(n, C, W)' = NodeMapOf(n, C, W)
<1>1. \A n, W : NodeNames(n, W)' = NodeNames(n, W)
    BY SameRecord, SameFlows DEF NodeNames
<1>2. \A C, s : Mentioning(C, s)' = Mentioning(C, s)
    BY SameRecord, SameFlows DEF Mentioning
<1>3. \A n, C, s : NodeOf(n, C, s)' = NodeOf(n, C, s)
    BY <1>2, SameRecord, SameFlows DEF NodeOf, Count
<1> QED
    BY <1>1, <1>3 DEF NodeMapOf

LEMMA SameSummary ==
    ASSUME records' = records
    PROVE  /\ \A V : ServicesOf(V)' = ServicesOf(V) /\ TracesOf(V)' = TracesOf(V) /\ ErrorsIn(V)' = ErrorsIn(V)
           /\ \A u, V : FirstNamed(u, V)' <=> FirstNamed(u, V)
           /\ \A s, V : Summary(s, V)' <=> Summary(s, V)
<1>1. \A V : ServicesOf(V)' = ServicesOf(V) /\ TracesOf(V)' = TracesOf(V) /\ ErrorsIn(V)' = ErrorsIn(V)
    BY SameRecord DEF ServicesOf, TracesOf, ErrorsIn
<1>2. \A i : graphField(records[i], "user")' = graphField(records[i], "user")
    BY DEF graphField
<1>3. \A V : Named(V)' = Named(V)
    BY <1>2 DEF Named
<1>4. \A u, V : FirstNamed(u, V)' <=> FirstNamed(u, V)
    BY <1>2, <1>3 DEF FirstNamed
<1>5. \A s, V : Summary(s, V)' <=> Summary(s, V)
    BY <1>1, <1>4 DEF Summary, Count
<1> QED
    BY <1>1, <1>4, <1>5

-----------------------------------------------------------------------------
(* Counting.                                                               *)

LEMMA PositionsFinite ==
    ASSUME records \in Seq(LogRecords)
    PROVE  Logged \in SUBSET Nat /\ \A S \in SUBSET Logged : IsFiniteSet(S)
<1>1. Len(records) \in Nat /\ Logged \in SUBSET (1..Len(records))
    BY DEF Logged
<1>2. IsFiniteSet(1..Len(records))
    BY <1>1, FS_Interval
<1>3. ASSUME NEW S \in SUBSET Logged PROVE IsFiniteSet(S)
    <2>1. S \in SUBSET (1..Len(records))
        BY <1>1
    <2> QED
        BY <1>2, <2>1, FS_Subset
<1>4. Logged \in SUBSET Nat
    BY <1>1
<1> QED
    BY <1>3, <1>4

LEMMA KeysFinite ==
    ASSUME records \in Seq(LogRecords), NEW n, NEW C \in SUBSET KeysTo(n)
    PROVE  IsFiniteSet(C) /\ \A D \in SUBSET C : IsFiniteSet(D)
<1> DEFINE T == {graphFlowIdentity(records[i]) : i \in LoggedTo(n)}
           f == [i \in LoggedTo(n) |-> graphFlowIdentity(records[i])]
<1>1. IsFiniteSet(LoggedTo(n))
    BY PositionsFinite DEF LoggedTo
<1>2. f \in Surjection(LoggedTo(n), T)
    BY DEF Surjection
<1>3. IsFiniteSet(T)
    <2> HIDE DEF f, T
    <2> QED
        BY <1>1, <1>2, FS_Surjection
<1>4. C \in SUBSET T /\ \A D \in SUBSET C : D \in SUBSET T
    BY DEF KeysTo
<1> HIDE DEF T
<1> QED
    BY <1>3, <1>4, FS_Subset

LEMMA CountAdd ==
    ASSUME NEW S, IsFiniteSet(S), NEW x, x \notin S
    PROVE  Count(S) \in Nat /\ Count(S \cup {x}) = Count(S) + 1
BY FS_AddElement, FS_CardinalityType DEF Count

LEMMA CountNone == Count({}) = 0
BY FS_EmptySet DEF Count

\* A count over S and one more, of those that have a property.
LEMMA CountOneMore ==
    ASSUME NEW S, IsFiniteSet(S), NEW T, NEW x, NEW b \in BOOLEAN, x \notin S,
           b => T = S \cup {x}, ~b => T = S
    PROVE  Count(S) \in Nat /\ Count(T) = Count(S) + IF b THEN 1 ELSE 0
<1>1. Count(S) \in Nat
    BY FS_CardinalityType DEF Count
<1>2. CASE b
    BY <1>1, <1>2, CountAdd
<1>3. CASE ~b
    BY <1>1, <1>3
<1> QED
    BY <1>2, <1>3

-----------------------------------------------------------------------------
(* The first loop.                                                         *)

LEMMA LoggedNext ==
    ASSUME records \in Seq(LogRecords), NEW n \in Nat
    PROVE  /\ n + 1 \in Logged => LoggedTo(n + 1) = LoggedTo(n) \cup {n + 1}
           /\ n + 1 \notin Logged => LoggedTo(n + 1) = LoggedTo(n)
           /\ n + 1 \notin LoggedTo(n) /\ IsFiniteSet(LoggedTo(n))
           /\ \A k : n + 1 \in InFlow(k) => FlowTo(k, n + 1) = FlowTo(k, n) \cup {n + 1}
           /\ \A k : n + 1 \notin InFlow(k) => FlowTo(k, n + 1) = FlowTo(k, n)
<1>1. \A i \in Logged : i \in Nat
    BY PositionsFinite
<1>2. \A i \in Logged : i <= n + 1 <=> i <= n \/ i = n + 1
    BY <1>1
<1>3. ~(n + 1 <= n)
    OBVIOUS
<1>4. IsFiniteSet(LoggedTo(n))
    BY PositionsFinite DEF LoggedTo
<1>5. n + 1 <= n + 1
    OBVIOUS
<1> QED
    BY <1>2, <1>3, <1>4, <1>5 DEF LoggedTo, FlowTo, InFlow

LEMMA NodesNext ==
    ASSUME records \in Seq(LogRecords), NEW n \in Nat, n + 1 \in Logged, NEW s, s = ServiceAt(n + 1)
    PROVE  /\ NodeNames(n + 1, {}) = NodeNames(n, {}) \cup {s}
           /\ \A t : t # s => NodeOf(n + 1, {}, t) = NodeOf(n, {}, t)
           /\ NodeOf(n + 1, {}, s) = [logs |-> NodeOf(n, {}, s).logs + 1,
                                     errors |-> NodeOf(n, {}, s).errors + IF ErrorAt(n + 1) THEN 1 ELSE 0,
                                     flows |-> NodeOf(n, {}, s).flows]
           /\ s \notin NodeNames(n, {}) => NodeOf(n, {}, s) = NewNode
<1> DEFINE Logs(m, t) == {i \in LoggedTo(m) : ServiceAt(i) = t}
           Errs(m, t) == {i \in LoggedTo(m) : ServiceAt(i) = t /\ ErrorAt(i)}
<1>1. /\ LoggedTo(n + 1) = LoggedTo(n) \cup {n + 1} /\ n + 1 \notin LoggedTo(n)
      /\ IsFiniteSet(LoggedTo(n))
    BY LoggedNext
<1>2. NodeNames(n + 1, {}) = NodeNames(n, {}) \cup {s}
    BY <1>1 DEF NodeNames
<1>3. \A m, t : NodeOf(m, {}, t) = [logs |-> Count(Logs(m, t)), errors |-> Count(Errs(m, t)),
                                    flows |-> Count(Mentioning({}, t))]
    BY DEF NodeOf
<1>4. \A t : t # s => Logs(n + 1, t) = Logs(n, t) /\ Errs(n + 1, t) = Errs(n, t)
    BY <1>1
<1>5. Logs(n + 1, s) = Logs(n, s) \cup {n + 1} /\ n + 1 \notin Logs(n, s) /\ IsFiniteSet(Logs(n, s))
    BY <1>1, FS_Subset
<1>6. PICK b \in BOOLEAN : b <=> ErrorAt(n + 1)
    BY Zenon
<1>7. /\ b => Errs(n + 1, s) = Errs(n, s) \cup {n + 1}
      /\ ~b => Errs(n + 1, s) = Errs(n, s)
      /\ n + 1 \notin Errs(n, s) /\ IsFiniteSet(Errs(n, s))
    BY <1>1, <1>6, FS_Subset
<1>8. s \notin NodeNames(n, {}) => Logs(n, s) = {} /\ Errs(n, s) = {}
    BY DEF NodeNames
<1>9. Mentioning({}, s) = {}
    BY DEF Mentioning
<1> HIDE DEF Logs, Errs
<1>10. Count(Logs(n + 1, s)) = Count(Logs(n, s)) + 1
    BY <1>5, CountAdd
<1>11. Count(Errs(n + 1, s)) = Count(Errs(n, s)) + IF b THEN 1 ELSE 0
    BY <1>7, CountOneMore
<1>12. \A t : t # s => NodeOf(n + 1, {}, t) = NodeOf(n, {}, t)
    BY <1>3, <1>4
<1>13. NodeOf(n + 1, {}, s) = [logs |-> NodeOf(n, {}, s).logs + 1,
                              errors |-> NodeOf(n, {}, s).errors + IF ErrorAt(n + 1) THEN 1 ELSE 0,
                              flows |-> NodeOf(n, {}, s).flows]
    BY <1>3, <1>6, <1>10, <1>11
<1>14. s \notin NodeNames(n, {}) => NodeOf(n, {}, s) = NewNode
    BY <1>3, <1>8, <1>9, CountNone DEF NewNode
<1> QED
    BY <1>2, <1>12, <1>13, <1>14

-----------------------------------------------------------------------------
(* The steps.                                                              *)

\* The maps and the scratch of the next state, in the words of this one.
LEMMA NextParts ==
    ASSUME records' = records, NEW n, NEW C, NEW V, counted' = n, closed' = C, Visited' = V,
           nodeMap' = NodeMapOf(n, C, WalkedOf(C, V)), edgeMap' = EdgeMapOf(C),
           seenServices' = ServicesOf(V), traceIDs' = TracesOf(V), errorCount' = Count(ErrorsIn(V)),
           FirstNamed(userID, V)', flowEdges' = FlowEdgesOf(V)
    PROVE  NodesInv' /\ EdgesInv' /\ ScratchInv'
<1>1. WalkedOf(C, V)' = WalkedOf(C, V)
    BY SameFlows DEF WalkedOf, ClosedRecords
<1>2. NodesInv'
    BY <1>1, SameNodes DEF NodesInv
<1>3. EdgesInv'
    BY SameEdges DEF EdgesInv
<1>4. seenServices' = ServicesOf(V)' /\ traceIDs' = TracesOf(V)' /\ errorCount' = Count(ErrorsIn(V)')
    BY SameSummary
<1>5. flowEdges' = FlowEdgesOf(V)'
    BY SameEdges
<1>6. ScratchInv'
    BY <1>4, <1>5 DEF ScratchInv, Count
<1> QED
    BY <1>2, <1>3, <1>6

LEMMA SameSessions == ASSUME SessionsInv, records' = records, sessions' = sessions, closed' = closed PROVE SessionsInv'
<1>1. \A s \in sessions : Summary(s, InFlow(s.key))'
    BY SameSummary, SameFlows DEF SessionsInv
<1> QED
    BY <1>1 DEF SessionsInv

\* Between two flows nothing is in the scratch.
LEMMA EmptyScratch ==
    ASSUME records \in Seq(LogRecords)
    PROVE  /\ ServicesOf({}) = {} /\ TracesOf({}) = {} /\ Count(ErrorsIn({})) = 0
           /\ FirstNamed(None, {}) /\ FlowEdgesOf({}) = Empty
<1>1. \A x \in Pairs : ~Linked({}, x[1], x[2])
    BY DEF Linked, Steps
<1>2. FlowPairs({}) = {}
    BY <1>1 DEF FlowPairs
<1>3. FlowEdgesOf({}) = Empty
    BY <1>2 DEF FlowEdgesOf, Empty
<1>4. ErrorsIn({}) = {}
    BY DEF ErrorsIn
<1> QED
    BY <1>3, <1>4, CountNone DEF ServicesOf, TracesOf, FirstNamed, Named

LEMMA GraphStart == GraphInit => GraphInv
<1> SUFFICES ASSUME GraphInit PROVE GraphInv
    OBVIOUS
<1>1. records \in Seq(LogRecords) /\ Len(records) <= MaxRecords
    <2>1. PICK m \in 0..MaxRecords : records \in [1..m -> LogRecords]
        BY DEF GraphInit, BoundedSeq, SeqOf
    <2>2. m \in Nat /\ m <= MaxRecords
        BY <2>1, GraphAssumption
    <2> QED
        BY <2>1, <2>2
<1>2. LoopsInv
    BY <1>1 DEF GraphInit, LoopsInv, Empty
<1>3. LoggedTo(0) = {}
    <2>1. \A i \in Logged : i \in 1..Len(records)
        BY RecordAt, <1>1
    <2> QED
        BY <1>1, <2>1 DEF LoggedTo
<1>4. FlowsInv
    BY <1>3 DEF GraphInit, FlowsInv, KeysTo, Empty
<1>5. Visited = {} /\ WalkedOf({}, {}) = {}
    BY DEF GraphInit, Visited, WalkedOf, ClosedRecords
<1>6. NodesInv
    <2>1. NodeNames(0, {}) = {}
        BY <1>3 DEF NodeNames
    <2> QED
        BY <1>5, <2>1 DEF GraphInit, NodesInv, NodeMapOf, Empty
<1>7. EdgesInv
    <2>1. EdgePairs({}) = {}
        BY DEF EdgePairs
    <2> QED
        BY <2>1 DEF GraphInit, EdgesInv, EdgeMapOf, Empty
<1>8. ScratchInv
    BY <1>1, <1>5, EmptyScratch DEF GraphInit, ScratchInv
<1>9. SessionsInv
    BY DEF GraphInit, SessionsInv
<1> QED
    BY <1>2, <1>4, <1>6, <1>7, <1>8, <1>9 DEF GraphInv

\* A record joins the flow of its identity.
LEMMA FlowsNext ==
    ASSUME records \in Seq(LogRecords), FlowsInv, NEW n \in Nat, n = counted, n + 1 \in Logged,
           NEW k, k = graphFlowIdentity(records[n + 1]), k # NoFlow,
           NEW new, DOMAIN new = DOMAIN flows \cup {k},
           new[k] = Append(IF k \in DOMAIN flows THEN flows[k] ELSE <<>>, n + 1),
           \A f \in DOMAIN flows : f # k => new[f] = flows[f]
    PROVE  /\ DOMAIN new = KeysTo(n + 1)
           /\ \A f \in DOMAIN new : InOrder(new[f], FlowTo(f, n + 1))
<1>1. LoggedTo(n + 1) = LoggedTo(n) \cup {n + 1}
    BY LoggedNext
<1>2. KeysTo(n + 1) = KeysTo(n) \cup {k}
    BY <1>1 DEF KeysTo
<1>3. DOMAIN new = KeysTo(n + 1)
    BY <1>2 DEF FlowsInv
<1>4. n + 1 \in InFlow(k) /\ \A f : f # k => n + 1 \notin InFlow(f)
    BY DEF InFlow
<1>5. ASSUME NEW f \in DOMAIN new, f # k PROVE InOrder(new[f], FlowTo(f, n + 1))
    <2>1. f \in DOMAIN flows /\ new[f] = flows[f]
        BY <1>5
    <2>2. FlowTo(f, n + 1) = FlowTo(f, n)
        BY <1>4, <1>5, LoggedNext
    <2> QED
        BY <2>1, <2>2 DEF FlowsInv
<1>6. InOrder(new[k], FlowTo(k, n + 1))
    <2>1. FlowTo(k, n + 1) = FlowTo(k, n) \cup {n + 1}
        BY <1>4, LoggedNext
    <2>2. FlowTo(k, n) \in SUBSET Nat /\ \A i \in FlowTo(k, n) : i < n + 1
        <3>1. \A i \in FlowTo(k, n) : i \in Nat /\ i <= n
            BY PositionsFinite DEF FlowTo, InFlow
        <3> QED
            BY <3>1
    <2>3. CASE k \in DOMAIN flows
        <3>1. new[k] = Append(flows[k], n + 1) /\ InOrder(flows[k], FlowTo(k, n))
            BY <2>3 DEF FlowsInv
        <3> QED
            BY <2>1, <2>2, <3>1, InOrderAppend
    <2>4. CASE k \notin DOMAIN flows
        <3>1. new[k] = Append(<<>>, n + 1)
            BY <2>4
        <3>2. FlowTo(k, n) = {}
            <4>1. \A i \in FlowTo(k, n) : i \in LoggedTo(n) /\ graphFlowIdentity(records[i]) = k
                BY DEF FlowTo, InFlow, LoggedTo
            <4>2. k \notin KeysTo(n)
                BY <2>4 DEF FlowsInv
            <4> QED
                BY <4>1, <4>2 DEF KeysTo
        <3>3. FlowTo(k, n + 1) = {n + 1}
            BY <2>1, <3>2
        <3>4. InOrder(Append(<<>>, n + 1), {n + 1})
            BY InOrderOne
        <3> QED
            BY <3>1, <3>3, <3>4
    <2> QED
        BY <2>3, <2>4
<1> QED
    BY <1>3, <1>5, <1>6

LEMMA CountRecordOK == ASSUME GraphInv, CountRecord PROVE GraphInv'
<1>1. PICK n \in Nat : n = counted
    BY DEF GraphInv, LoopsInv
<1>2. /\ records \in Seq(LogRecords) /\ Len(records) \in Nat /\ Len(records) <= MaxRecords /\ n < Len(records)
      /\ counted' = n + 1
      /\ records' = records /\ closed' = closed /\ flow' = flow /\ index' = index
      /\ UNCHANGED scratch /\ edgeMap' = edgeMap /\ sessions' = sessions
    BY <1>1 DEF GraphInv, LoopsInv, CountRecord, input
<1>3. flow = NoFlow /\ closed = {} /\ index = 0
    BY <1>1, <1>2 DEF GraphInv, LoopsInv
<1>4. Visited = {} /\ Visited' = {} /\ WalkedOf({}, {}) = {}
    BY <1>2, <1>3 DEF Visited, WalkedOf, ClosedRecords
<1>5. n + 1 \in DOMAIN records
    BY <1>2
<1>6. n + 1 \in Logged <=> normalizeGraphService(records[n + 1]) # None
    BY <1>5 DEF Logged, normalizeGraphService
<1>7. nodeMap = NodeMapOf(n, {}, {}) /\ edgeMap = EdgeMapOf({})
    BY <1>1, <1>3, <1>4 DEF GraphInv, NodesInv, EdgesInv
<1>8. SessionsInv'
    BY <1>2, SameSessions DEF GraphInv
<1>9. /\ nodeMap' = NodeMapOf(n + 1, {}, {})
      /\ DOMAIN flows' = KeysTo(n + 1)
      /\ \A f \in DOMAIN flows' : InOrder(flows'[f], FlowTo(f, n + 1))
    <2>1. CASE n + 1 \notin Logged
        <3>1. nodeMap' = nodeMap /\ flows' = flows
            BY <1>1, <1>2, <1>6, <2>1 DEF CountRecord
        <3>2. LoggedTo(n + 1) = LoggedTo(n)
            BY <1>2, <2>1, LoggedNext
        <3>3. \A f : FlowTo(f, n + 1) = FlowTo(f, n)
            BY <1>2, <2>1, LoggedNext DEF InFlow
        <3>4. NodeMapOf(n + 1, {}, {}) = NodeMapOf(n, {}, {})
            BY <3>2 DEF NodeMapOf, NodeNames, NodeOf
        <3>5. KeysTo(n + 1) = KeysTo(n)
            BY <3>2 DEF KeysTo
        <3> QED
            BY <1>1, <1>7, <3>1, <3>3, <3>4, <3>5 DEF GraphInv, FlowsInv
    <2>2. CASE n + 1 \in Logged
        <3>1. PICK s : s = ServiceAt(n + 1)
            OBVIOUS
        <3>2. PICK k : k = graphFlowIdentity(records[n + 1])
            OBVIOUS
        <3>3. s = normalizeGraphService(records[n + 1]) /\ s # None
            BY <1>2, <2>2, <3>1, RecordAt
        <3>4. /\ nodeMap' = [WithNodes({s}) EXCEPT ![s].logs = @ + 1,
                                 ![s].errors = @ + IF isErrorLevel(records[n + 1]) THEN 1 ELSE 0]
              /\ flows' = IF k = NoFlow THEN flows
                          ELSE [f \in DOMAIN flows \cup {k} |->
                                  LET old == IF f \in DOMAIN flows THEN flows[f] ELSE <<>>
                                  IN  IF f = k THEN Append(old, n + 1) ELSE old]
            BY <1>2, <3>2, <3>3 DEF CountRecord
        <3>5. nodeMap' = NodeMapOf(n + 1, {}, {})
            <4>1. /\ NodeNames(n + 1, {}) = NodeNames(n, {}) \cup {s}
                  /\ \A t : t # s => NodeOf(n + 1, {}, t) = NodeOf(n, {}, t)
                  /\ NodeOf(n + 1, {}, s) = [logs |-> NodeOf(n, {}, s).logs + 1,
                                     errors |-> NodeOf(n, {}, s).errors + IF ErrorAt(n + 1) THEN 1 ELSE 0,
                                     flows |-> NodeOf(n, {}, s).flows]
                  /\ s \notin NodeNames(n, {}) => NodeOf(n, {}, s) = NewNode
                BY <1>2, <2>2, <3>1, NodesNext
            <4>2. WithNodes({s}) = [t \in NodeNames(n, {}) \cup {s} |-> NodeOf(n, {}, t)]
                BY <1>7, <4>1 DEF WithNodes, NodeMapOf
            <4>3. PICK one : one = IF isErrorLevel(records[n + 1]) THEN 1 ELSE 0
                OBVIOUS
            <4>4. one = IF ErrorAt(n + 1) THEN 1 ELSE 0
                BY <1>2, <2>2, <4>3, RecordAt
            <4>5. PICK old : old = NodeOf(n, {}, s)
                OBVIOUS
            <4>6. old = [logs |-> old.logs, errors |-> old.errors, flows |-> old.flows]
                BY <4>5 DEF NodeOf
            <4>7. PICK w : w = WithNodes({s})
                OBVIOUS
            <4>8. nodeMap' = [w EXCEPT ![s].logs = @ + 1, ![s].errors = @ + one]
                BY <3>4, <4>3, <4>7
            <4>9. w = [t \in NodeNames(n + 1, {}) |-> NodeOf(n, {}, t)] /\ s \in NodeNames(n + 1, {}) /\ w[s] = old
                BY <4>1, <4>2, <4>5, <4>7
            <4>10. DOMAIN nodeMap' = NodeNames(n + 1, {}) /\ \A t \in NodeNames(n + 1, {}) : t # s => nodeMap'[t] = NodeOf(n, {}, t)
                BY <4>8, <4>9
            <4>11. nodeMap'[s] = [logs |-> old.logs + 1, errors |-> old.errors + one, flows |-> old.flows]
                BY <4>6, <4>8, <4>9
            <4>12. \A t \in NodeNames(n + 1, {}) : nodeMap'[t] = NodeOf(n + 1, {}, t)
                BY <4>1, <4>4, <4>5, <4>10, <4>11
            <4>13. nodeMap' = [t \in NodeNames(n + 1, {}) |-> nodeMap'[t]]
                BY <4>8, <4>9
            <4> QED
                BY <4>12, <4>13 DEF NodeMapOf
        <3>6. CASE k = NoFlow
            <4>1. flows' = flows
                BY <3>4, <3>6
            <4>2. KeysTo(n + 1) = KeysTo(n)
                <5>1. LoggedTo(n + 1) = LoggedTo(n) \cup {n + 1}
                    BY <1>2, <2>2, LoggedNext
                <5> QED
                    BY <3>2, <3>6, <5>1 DEF KeysTo
            <4>3. NoFlow \notin DOMAIN flows
                BY DEF GraphInv, FlowsInv, KeysTo
            <4>4. \A f \in DOMAIN flows : n + 1 \notin InFlow(f)
                BY <3>2, <3>6, <4>3 DEF InFlow
            <4>5. \A f \in DOMAIN flows : FlowTo(f, n + 1) = FlowTo(f, n)
                BY <1>2, <4>4, LoggedNext
            <4> QED
                BY <1>1, <3>5, <4>1, <4>2, <4>5 DEF GraphInv, FlowsInv
        <3>7. CASE k # NoFlow
            <4>1. PICK new : new = [f \in DOMAIN flows \cup {k} |->
                              LET old == IF f \in DOMAIN flows THEN flows[f] ELSE <<>>
                              IN  IF f = k THEN Append(old, n + 1) ELSE old]
                OBVIOUS
            <4>2. flows' = new
                BY <3>4, <3>7, <4>1
            <4>3. FlowsInv
                BY DEF GraphInv
            <4>4. /\ DOMAIN new = DOMAIN flows \cup {k}
                  /\ new[k] = Append(IF k \in DOMAIN flows THEN flows[k] ELSE <<>>, n + 1)
                  /\ \A f \in DOMAIN flows : f # k => new[f] = flows[f]
                BY <4>1
            <4>5. DOMAIN new = KeysTo(n + 1) /\ \A f \in DOMAIN new : InOrder(new[f], FlowTo(f, n + 1))
                BY <1>1, <1>2, <2>2, <3>2, <3>7, <4>3, <4>4, FlowsNext
            <4> QED
                BY <3>5, <4>2, <4>5
        <3> QED
            BY <3>6, <3>7
    <2> QED
        BY <2>1, <2>2
<1>10. FlowsInv'
    BY <1>2, <1>9, SameFlows DEF FlowsInv
<1>11. NodesInv' /\ EdgesInv' /\ ScratchInv'
    <2>1. /\ seenServices' = ServicesOf({}) /\ traceIDs' = TracesOf({}) /\ errorCount' = Count(ErrorsIn({}))
          /\ FirstNamed(userID, {}) /\ userID' = userID /\ flowEdges' = FlowEdgesOf({})
        BY <1>2, <1>4 DEF GraphInv, ScratchInv, scratch
    <2>2. FirstNamed(userID, {})'
        BY <1>2, <2>1, SameSummary
    <2>3. /\ nodeMap' = NodeMapOf(n + 1, {}, WalkedOf({}, {})) /\ edgeMap' = EdgeMapOf({})
          /\ closed' = {} /\ Visited' = {} /\ counted' = n + 1 /\ records' = records
        BY <1>2, <1>3, <1>4, <1>7, <1>9
    <2> QED
        BY <2>1, <2>2, <2>3, NextParts
<1>12. LoopsInv'
    <2>1. n + 1 \in 0..Len(records)
        BY <1>2
    <2> QED
        BY <1>2, <1>3, <2>1 DEF LoopsInv
<1> QED
    BY <1>8, <1>10, <1>11, <1>12 DEF GraphInv

\* When the first loop is done, its lists are the flows.
LEMMA FlowListed ==
    ASSUME GraphInv, NEW k \in DOMAIN flows, counted = Len(records)
    PROVE  /\ InOrder(flows[k], InFlow(k)) /\ InFlow(k) \in SUBSET Nat /\ InFlow(k) \in SUBSET Logged
           /\ InFlow(k) # {} /\ k # NoFlow /\ Logged = LoggedTo(counted)
<1>1. records \in Seq(LogRecords)
    BY DEF GraphInv, LoopsInv
<1>2. \A i \in Logged : i \in Nat /\ i <= counted
    BY <1>1, RecordAt
<1>3. Logged = LoggedTo(counted) /\ FlowTo(k, counted) = InFlow(k)
    BY <1>2 DEF LoggedTo, FlowTo, InFlow
<1>4. InOrder(flows[k], InFlow(k)) /\ k \in KeysTo(counted)
    BY <1>3 DEF GraphInv, FlowsInv
<1>5. InFlow(k) # {} /\ k # NoFlow
    BY <1>3, <1>4 DEF KeysTo, InFlow
<1> QED
    BY <1>2, <1>3, <1>4, <1>5 DEF InFlow

LEMMA OpenFlowOK == ASSUME GraphInv, NEW k \in DOMAIN flows \ closed, OpenFlow(k) PROVE GraphInv'
<1>1. /\ records \in Seq(LogRecords) /\ records' = records /\ counted' = counted /\ flows' = flows /\ closed' = closed
      /\ counted = Len(records) /\ flow = NoFlow /\ flow' = k /\ index' = 0
      /\ nodeMap' = nodeMap /\ edgeMap' = edgeMap /\ sessions' = sessions /\ ResetScratch
    BY DEF OpenFlow, GraphInv, LoopsInv, input, result
<1>2. PICK n : n = counted
    OBVIOUS
<1>3. PICK C : C = closed
    OBVIOUS
<1>4. k # NoFlow /\ Len(flows[k]) \in Nat
    BY <1>1, FlowListed DEF InOrder
<1>5. Visited = {} /\ Visited' = {}
    BY <1>1, <1>4 DEF Visited, FirstOf
<1>6. nodeMap' = NodeMapOf(n, C, WalkedOf(C, {})) /\ edgeMap' = EdgeMapOf(C)
    BY <1>1, <1>2, <1>3, <1>5 DEF GraphInv, NodesInv, EdgesInv
<1>7. /\ seenServices' = ServicesOf({}) /\ traceIDs' = TracesOf({}) /\ errorCount' = Count(ErrorsIn({}))
      /\ userID' = None /\ flowEdges' = FlowEdgesOf({})
    BY <1>1, EmptyScratch DEF ResetScratch
<1>8. FirstNamed(userID, {})'
    BY <1>7 DEF FirstNamed, Named
<1>9. NodesInv' /\ EdgesInv' /\ ScratchInv'
    BY <1>1, <1>2, <1>3, <1>5, <1>6, <1>7, <1>8, NextParts
<1>10. SessionsInv'
    BY <1>1, SameSessions DEF GraphInv
<1>11. FlowsInv'
    BY <1>1, SameFlows DEF GraphInv, FlowsInv
<1>12. LoopsInv'
    BY <1>1, <1>4 DEF GraphInv, LoopsInv
<1> QED
    BY <1>9, <1>10, <1>11, <1>12 DEF GraphInv

-----------------------------------------------------------------------------
(* One more record of a flow: the scratch.                                 *)

LEMMA UserAfter ==
    ASSUME records \in Seq(LogRecords), NEW V, NEW i, After(i, V), NEW u, FirstNamed(u, V), NEW new,
           new = FirstUser(u, graphField(records[i], "user"))
    PROVE  FirstNamed(new, V \cup {i})
<1>1. i \in Nat /\ \A j \in V : j \in Nat /\ j < i
    BY PositionsFinite DEF After
<1>2. CASE Named(V) = {}
    <2>1. u = None
        BY <1>2 DEF FirstNamed
    <2>2. new = graphField(records[i], "user")
        BY <2>1 DEF FirstUser
    <2>3. CASE new = None
        <3>1. Named(V \cup {i}) = {}
            BY <1>2, <2>2, <2>3 DEF Named
        <3> QED
            BY <2>3, <3>1 DEF FirstNamed
    <2>4. CASE new # None
        <3>1. Named(V \cup {i}) = {i} /\ i <= i
            BY <1>1, <1>2, <2>2, <2>4 DEF Named
        <3> QED
            BY <2>2, <3>1 DEF FirstNamed
    <2> QED
        BY <2>3, <2>4
<1>3. CASE Named(V) # {}
    <2>1. PICK a \in Named(V) : u = graphField(records[a], "user") /\ \A j \in Named(V) : a <= j
        BY <1>3 DEF FirstNamed
    <2>2. a \in V /\ u # None
        BY <2>1 DEF Named
    <2>3. new = u
        BY <2>2 DEF FirstUser
    <2>4. a \in Named(V \cup {i}) /\ \A j \in Named(V \cup {i}) : j \in Named(V) \/ j = i
        BY DEF Named
    <2>5. \A j \in Named(V \cup {i}) : a <= j
        <3>1. a \in Nat /\ a < i
            BY <1>1, <2>2
        <3>2. a <= i
            BY <1>1, <3>1
        <3> QED
            BY <2>1, <2>4, <3>2
    <2> QED
        BY <2>1, <2>3, <2>4, <2>5 DEF FirstNamed
<1> QED
    BY <1>2, <1>3

LEMMA SummaryAfter ==
    ASSUME records \in Seq(LogRecords), NEW V, NEW i, After(i, V)
    PROVE  /\ ServicesOf(V \cup {i}) = ServicesOf(V) \cup SeenBy(records[i])
           /\ TracesOf(V \cup {i}) = TracesOf(V) \cup ({records[i].trace} \ {None})
           /\ Count(ErrorsIn(V \cup {i})) = Count(ErrorsIn(V)) + IF isErrorLevel(records[i]) THEN 1 ELSE 0
<1>1. i \in Logged /\ V \in SUBSET Logged /\ i \notin V
    <2>1. i \in Logged /\ V \in SUBSET Logged /\ ~(i < i)
        BY PositionsFinite DEF After
    <2> QED
        BY <2>1 DEF After
<1>2. Mentions(i) = SeenBy(records[i])
    BY <1>1, MentionsOf
<1>3. ServicesOf(V \cup {i}) = ServicesOf(V) \cup SeenBy(records[i])
    BY <1>2 DEF ServicesOf
<1>4. TracesOf(V \cup {i}) = TracesOf(V) \cup ({records[i].trace} \ {None})
    BY DEF TracesOf
<1>5. PICK b \in BOOLEAN : b <=> isErrorLevel(records[i])
    BY Zenon
<1>6. b <=> ErrorAt(i)
    BY <1>1, <1>5, RecordAt
<1>7. /\ ErrorsIn(V) \in SUBSET Logged /\ i \notin ErrorsIn(V)
      /\ b => ErrorsIn(V \cup {i}) = ErrorsIn(V) \cup {i}
      /\ ~b => ErrorsIn(V \cup {i}) = ErrorsIn(V)
    BY <1>1, <1>6 DEF ErrorsIn
<1>8. IsFiniteSet(ErrorsIn(V))
    BY <1>7, PositionsFinite
<1>9. Count(ErrorsIn(V \cup {i})) = Count(ErrorsIn(V)) + IF b THEN 1 ELSE 0
    BY <1>7, <1>8, CountOneMore
<1> QED
    BY <1>3, <1>4, <1>5, <1>9

\* What the code finds for an edge, and what it makes of it at record i.
FlowEdgeWas(was, old, e) ==
    was = IF e \in DOMAIN old THEN old[e] ELSE [error |-> FALSE, propagated |-> FALSE]
FlowEdgeNow(was, V, i, m, e) ==
    /\ e \in FlowPairs(V \cup {i})
    /\ (was.error \/ (e \in Touched(V, i, m) /\ ErrorAt(i))) = Failing(V \cup {i}, e[1], e[2])
    /\ (was.propagated \/ (e \in Inferred(V, i, m) /\ ErrorAt(m) /\ ErrorAt(i)))
         = Propagating(V \cup {i}, e[1], e[2])

\* The edges of the flow after one more record.
LEMMA FlowEdgesAfter ==
    ASSUME records \in Seq(LogRecords), NEW V, NEW i, After(i, V), NEW m, V # {} => IsLast(m, V),
           NEW e, e \in FlowPairs(V) \cup Touched(V, i, m), NEW was, FlowEdgeWas(was, FlowEdgesOf(V), e)
    PROVE  FlowEdgeNow(was, V, i, m, e)
<1>0. PICK old : old = FlowEdgesOf(V)
    OBVIOUS
<1>1. e \in Pairs
    <2>1. ExplicitEdges(records[i]) \subseteq Pairs
        BY ExplicitOf DEF After
    <2>2. Inferred(V, i, m) \subseteq Pairs
        BY InferredOf DEF Inferred, After, IsLast
    <2> QED
        BY <2>1, <2>2 DEF Touched, FlowPairs
<1>2. DOMAIN old = FlowPairs(V)
    BY <1>0 DEF FlowEdgesOf
<1>3. was.error = Failing(V, e[1], e[2]) /\ was.propagated = Propagating(V, e[1], e[2])
    <2>0. was = IF e \in DOMAIN old THEN old[e] ELSE [error |-> FALSE, propagated |-> FALSE]
        BY <1>0, Zenon DEF FlowEdgeWas
    <2>1. CASE e \in FlowPairs(V)
        BY <1>0, <1>2, <2>0, <2>1 DEF FlowEdgesOf
    <2>2. CASE e \notin FlowPairs(V)
        <3>1. ~Linked(V, e[1], e[2])
            BY <1>1, <2>2 DEF FlowPairs
        <3>2. Failing(V, e[1], e[2]) = FALSE /\ Propagating(V, e[1], e[2]) = FALSE
            BY <3>1, EdgesNest, Zenon
        <3> QED
            BY <1>2, <2>0, <2>2, <3>2
    <2> QED
        BY <2>1, <2>2
<1>4. /\ Linked(V \cup {i}, e[1], e[2]) <=> Linked(V, e[1], e[2]) \/ e \in Touched(V, i, m)
      /\ Failing(V \cup {i}, e[1], e[2]) <=>
            Failing(V, e[1], e[2]) \/ (e \in Touched(V, i, m) /\ ErrorAt(i))
      /\ Propagating(V \cup {i}, e[1], e[2]) <=>
            Propagating(V, e[1], e[2]) \/ (e \in Inferred(V, i, m) /\ ErrorAt(m) /\ ErrorAt(i))
    BY <1>1, EdgesAfter
<1>5. e \in FlowPairs(V \cup {i})
    BY <1>1, <1>4 DEF FlowPairs
<1>6. Failing(V \cup {i}, e[1], e[2]) \in BOOLEAN /\ Propagating(V \cup {i}, e[1], e[2]) \in BOOLEAN
    BY EdgesNest, Zenon
<1> QED
    BY <1>3, <1>4, <1>5, <1>6, Zenon DEF FlowEdgeNow

\* Walking over a record adds nodes for what it mentions and counts nothing.
LEMMA NodesWalked ==
    ASSUME records \in Seq(LogRecords), NEW n, NEW C, NEW W, NEW i \in LoggedTo(n),
           \A k \in C : InFlow(k) \subseteq W
    PROVE  /\ NodeNames(n, W \cup {i}) = NodeNames(n, W) \cup Peers(records[i])
           /\ \A s : s \notin NodeNames(n, W) => NodeOf(n, C, s) = NewNode
<1>1. Mentions(i) = {ServiceAt(i)} \cup Peers(records[i])
    BY MentionsOf DEF LoggedTo
<1>2. NodeNames(n, W \cup {i}) = NodeNames(n, W) \cup Peers(records[i])
    BY <1>1 DEF NodeNames
<1>3. ASSUME NEW s, s \notin NodeNames(n, W) PROVE NodeOf(n, C, s) = NewNode
    <2>1. {j \in LoggedTo(n) : ServiceAt(j) = s} = {} /\ {j \in LoggedTo(n) : ServiceAt(j) = s /\ ErrorAt(j)} = {}
        BY <1>3 DEF NodeNames
    <2>2. Mentioning(C, s) = {}
        BY <1>3 DEF NodeNames, Mentioning
    <2> QED
        BY <2>1, <2>2, CountNone DEF NodeOf, NewNode
<1> QED
    BY <1>2, <1>3

LEMMA FlowRecordOK == ASSUME GraphInv, FlowRecord PROVE GraphInv'
<1>1. /\ records \in Seq(LogRecords) /\ records' = records /\ counted' = counted /\ flows' = flows
      /\ closed' = closed /\ flow' = flow /\ edgeMap' = edgeMap /\ sessions' = sessions
      /\ flow # NoFlow /\ flow \in DOMAIN flows /\ counted = Len(records)
      /\ index \in 0..Len(flows[flow]) /\ index < Len(flows[flow]) /\ index' = index + 1
    BY DEF FlowRecord, GraphInv, LoopsInv, input
<1>2. PICK k \in DOMAIN flows : k = flow
    BY <1>1
<1>3. PICK S \in SUBSET Nat : S = InFlow(k) /\ S \in SUBSET Logged /\ Logged = LoggedTo(counted)
    BY <1>1, FlowListed
<1>4. PICK q : q = flows[k] /\ InOrder(q, S)
    BY <1>1, <1>3, FlowListed
<1>5. PICK a \in 0..Len(q) : a = index /\ a < Len(q) /\ a \in Nat
    BY <1>1, <1>2, <1>4
<1>6. PICK V : V = FirstOf(q, a)
    OBVIOUS
<1>7. PICK i : i = q[a + 1]
    OBVIOUS
<1>8. PICK m : m = q[IF a = 0 THEN 1 ELSE a]
    OBVIOUS
<1>9. /\ V \subseteq S /\ i \in S /\ FirstOf(q, a + 1) = V \cup {i} /\ \A j \in V : j < i
      /\ a = 0 => V = {}
      /\ a > 0 => q[a] \in V /\ \A j \in V : j <= q[a]
    BY <1>4, <1>5, <1>6, <1>7, NextInOrder
<1>10. After(i, V) /\ (V # {} => IsLast(m, V)) /\ (V = {} <=> a = 0)
    <2>1. After(i, V)
        BY <1>3, <1>9 DEF After
    <2>2. CASE a = 0
        BY <1>9, <2>1, <2>2
    <2>3. CASE a # 0
        <3>1. a > 0 /\ m = q[a]
            BY <1>5, <1>8, <2>3
        <3> QED
            BY <1>9, <2>1, <2>3, <3>1 DEF IsLast
    <2> QED
        BY <2>2, <2>3
<1>11. Visited = V /\ Visited' = V \cup {i}
    BY <1>1, <1>2, <1>4, <1>5, <1>6, <1>9 DEF Visited
<1>12. PICK r : r = records[i]
    OBVIOUS
<1>13. PICK inferred : inferred = Inferred(V, i, m)
    OBVIOUS
<1>14. PICK touched : touched = Touched(V, i, m)
    OBVIOUS
<1>15. /\ seenServices' = seenServices \cup SeenBy(r)
       /\ traceIDs' = traceIDs \cup ({r.trace} \ {None})
       /\ userID' = FirstUser(userID, graphField(r, "user"))
       /\ errorCount' = errorCount + IF isErrorLevel(r) THEN 1 ELSE 0
       /\ nodeMap' = WithNodes(NodesFor(r))
    BY <1>1, <1>2, <1>4, <1>5, <1>7, <1>12 DEF FlowRecord
<1>16. flowEdges' = [e \in DOMAIN flowEdges \cup touched |->
           [error |-> (IF e \in DOMAIN flowEdges THEN flowEdges[e] ELSE [error |-> FALSE, propagated |-> FALSE]).error
                         \/ (e \in touched /\ isErrorLevel(r)),
            propagated |-> (IF e \in DOMAIN flowEdges THEN flowEdges[e] ELSE [error |-> FALSE, propagated |-> FALSE]).propagated
                         \/ (e \in inferred /\ isErrorLevel(records[m]) /\ isErrorLevel(r))]]
    <2>1. records[flows[flow][index']] = r
        BY <1>1, <1>2, <1>4, <1>5, <1>7, <1>12
    <2>2. records[flows[flow][IF index = 0 THEN 1 ELSE Previous(index')]] = records[m]
        BY <1>1, <1>2, <1>4, <1>5, <1>8 DEF Previous
    <2>3. inferred = IF index = 0 THEN {} ELSE InferredEdges(records[m], r)
        BY <1>5, <1>10, <1>12, <1>13 DEF Inferred
    <2>4. touched = ExplicitEdges(r) \cup inferred
        BY <1>12, <1>13, <1>14 DEF Touched
    <2> QED
        BY <2>1, <2>2, <2>3, <2>4, Zenon DEF FlowRecord, Propagates
<1>17. flowEdges' = FlowEdgesOf(V \cup {i})
    <2>1. PICK old : old = flowEdges /\ old = FlowEdgesOf(V)
        BY <1>11 DEF GraphInv, ScratchInv
    <2>2. DOMAIN old = FlowPairs(V)
        BY <2>1 DEF FlowEdgesOf
    <2>3. (isErrorLevel(r) <=> ErrorAt(i)) /\ (V # {} => (isErrorLevel(records[m]) <=> ErrorAt(m)))
        BY <1>1, <1>10, <1>12, RecordAt DEF After, IsLast
    <2>4. V = {} => inferred = {}
        BY <1>13 DEF Inferred
    <2>5. ASSUME NEW e \in FlowPairs(V) \cup touched
          PROVE  /\ e \in FlowPairs(V \cup {i})
                 /\ flowEdges'[e] = [error |-> Failing(V \cup {i}, e[1], e[2]), propagated |-> Propagating(V \cup {i}, e[1], e[2])]
        <3>1. PICK was : was = IF e \in DOMAIN old THEN old[e] ELSE [error |-> FALSE, propagated |-> FALSE]
            OBVIOUS
        <3>2. flowEdges'[e] = [error |-> was.error \/ (e \in touched /\ isErrorLevel(r)),
                              propagated |-> was.propagated \/ (e \in inferred /\ isErrorLevel(records[m]) /\ isErrorLevel(r))]
            BY <1>16, <2>1, <2>2, <2>5, <3>1, Zenon
        <3>3. /\ e \in FlowPairs(V \cup {i})
              /\ (was.error \/ (e \in touched /\ ErrorAt(i))) = Failing(V \cup {i}, e[1], e[2])
              /\ (was.propagated \/ (e \in inferred /\ ErrorAt(m) /\ ErrorAt(i)))
                    = Propagating(V \cup {i}, e[1], e[2])
            <4>1. e \in FlowPairs(V) \cup Touched(V, i, m)
                BY <1>14, <2>5
            <4>2. FlowEdgeWas(was, FlowEdgesOf(V), e)
                BY <2>1, <3>1, Zenon DEF FlowEdgeWas
            <4>3. FlowEdgeNow(was, V, i, m, e)
                BY <1>1, <1>10, <4>1, <4>2, FlowEdgesAfter
            <4> QED
                BY <1>13, <1>14, <4>3, Zenon DEF FlowEdgeNow
        <3>4. (e \in touched /\ isErrorLevel(r)) = (e \in touched /\ ErrorAt(i))
            BY <2>3, Zenon
        <3>5. (e \in inferred /\ isErrorLevel(records[m]) /\ isErrorLevel(r)) = (e \in inferred /\ ErrorAt(m) /\ ErrorAt(i))
            BY <2>3, <2>4, Zenon
        <3>6. (was.error \/ (e \in touched /\ isErrorLevel(r))) = Failing(V \cup {i}, e[1], e[2])
            BY <3>3, <3>4, Zenon
        <3>7. (was.propagated \/ (e \in inferred /\ isErrorLevel(records[m]) /\ isErrorLevel(r)))
                 = Propagating(V \cup {i}, e[1], e[2])
            BY <3>3, <3>5, Zenon
        <3>8. flowEdges'[e] = [error |-> Failing(V \cup {i}, e[1], e[2]), propagated |-> Propagating(V \cup {i}, e[1], e[2])]
            BY <3>2, <3>6, <3>7, Zenon
        <3> QED
            BY <3>3, <3>8
    <2>6. ASSUME NEW e \in FlowPairs(V \cup {i}) PROVE e \in FlowPairs(V) \cup touched
        <3>1. e \in Pairs /\ Linked(V \cup {i}, e[1], e[2])
            BY DEF FlowPairs
        <3>2. Linked(V, e[1], e[2]) \/ e \in touched
            BY <1>1, <1>10, <1>14, <3>1, EdgesAfter
        <3> QED
            BY <3>1, <3>2 DEF FlowPairs
    <2>7. FlowPairs(V \cup {i}) = FlowPairs(V) \cup touched
        BY <2>5, <2>6
    <2>8. flowEdges' = [e \in FlowPairs(V) \cup touched |-> flowEdges'[e]]
        BY <1>16, <2>1, <2>2
    <2> QED
        BY <2>5, <2>7, <2>8 DEF FlowEdgesOf
<1>18. /\ seenServices' = ServicesOf(V \cup {i}) /\ traceIDs' = TracesOf(V \cup {i})
       /\ errorCount' = Count(ErrorsIn(V \cup {i}))
    BY <1>1, <1>10, <1>11, <1>12, <1>15, SummaryAfter DEF GraphInv, ScratchInv
<1>19. FirstNamed(userID, V \cup {i})'
    <2>1. PICK new : new = FirstUser(userID, graphField(r, "user"))
        OBVIOUS
    <2>2. FirstNamed(userID, V)
        BY <1>11 DEF GraphInv, ScratchInv
    <2>3. FirstNamed(new, V \cup {i})
        BY <1>1, <1>10, <1>12, <2>1, <2>2, UserAfter
    <2>4. FirstNamed(new, V \cup {i})'
        BY <1>1, <2>3, SameSummary
    <2> QED
        BY <1>15, <2>1, <2>4
<1>20. PICK n : n = counted
    OBVIOUS
<1>21. PICK C : C = closed
    OBVIOUS
<1>22. nodeMap' = NodeMapOf(n, C, WalkedOf(C, V \cup {i}))
    <2>1. PICK W : W = WalkedOf(C, V)
        OBVIOUS
    <2>2. WalkedOf(C, V \cup {i}) = W \cup {i} /\ \A f \in C : InFlow(f) \subseteq W
        <3>1. WalkedOf(C, V \cup {i}) = W \cup {i}
            BY <2>1 DEF WalkedOf
        <3>2. \A f \in C : InFlow(f) \subseteq W
            BY <2>1, Zenon DEF WalkedOf, ClosedRecords
        <3> QED
            BY <3>1, <3>2
    <2>3. i \in LoggedTo(n)
        BY <1>3, <1>9, <1>20
    <2>4. /\ NodeNames(n, W \cup {i}) = NodeNames(n, W) \cup Peers(records[i])
          /\ \A s : s \notin NodeNames(n, W) => NodeOf(n, C, s) = NewNode
        BY <1>1, <2>2, <2>3, NodesWalked
    <2>5. nodeMap = [s \in NodeNames(n, W) |-> NodeOf(n, C, s)]
        BY <1>11, <1>20, <1>21, <2>1 DEF GraphInv, NodesInv, NodeMapOf
    <2>6. nodeMap' = [s \in NodeNames(n, W) \cup Peers(records[i]) |-> IF s \in NodeNames(n, W) THEN NodeOf(n, C, s) ELSE NewNode]
        BY <1>12, <1>15, <2>5 DEF WithNodes, NodesFor
    <2> QED
        BY <2>2, <2>4, <2>6 DEF NodeMapOf
<1>23. edgeMap' = EdgeMapOf(C) /\ counted' = n /\ closed' = C
    BY <1>1, <1>20, <1>21 DEF GraphInv, EdgesInv
<1>24. NodesInv' /\ EdgesInv' /\ ScratchInv'
    BY <1>1, <1>11, <1>17, <1>18, <1>19, <1>22, <1>23, NextParts
<1>25. SessionsInv'
    BY <1>1, SameSessions DEF GraphInv
<1>26. FlowsInv'
    BY <1>1, SameFlows DEF GraphInv, FlowsInv
<1>27. LoopsInv'
    <2>1. index + 1 \in 0..Len(flows[flow])
        BY <1>2, <1>4, <1>5, InOrderType
    <2> QED
        BY <1>1, <2>1 DEF GraphInv, LoopsInv
<1> QED
    BY <1>24, <1>25, <1>26, <1>27 DEF GraphInv

-----------------------------------------------------------------------------
(* A flow is closed.                                                       *)

\* A count over C and one more flow k, of the flows that have a property.
LEMMA FlowCounted ==
    ASSUME NEW C, IsFiniteSet(C), NEW k, k \notin C, NEW A, A \subseteq C \cup {k}
    PROVE  /\ Count(A \cap C) \in Nat
           /\ Count(A) = Count(A \cap C) + IF k \in A THEN 1 ELSE 0
<1>1. PICK S : S = A \cap C
    OBVIOUS
<1>2. IsFiniteSet(S) /\ k \notin S
    BY <1>1, FS_Subset
<1>3. PICK b \in BOOLEAN : b <=> k \in A
    BY Zenon
<1>4. (b => A = S \cup {k}) /\ (~b => A = S)
    BY <1>1, <1>3
<1>5. Count(S) \in Nat /\ Count(A) = Count(S) + IF b THEN 1 ELSE 0
    BY <1>2, <1>4, CountOneMore
<1> QED
    BY <1>1, <1>3, <1>5

\* The node of a service when the flow k joins the flows C.
LEMMA NodeClosed ==
    ASSUME NEW n, NEW C, IsFiniteSet(C), NEW k, k \notin C, NEW s
    PROVE  NodeOf(n, C \cup {k}, s) =
             [NodeOf(n, C, s) EXCEPT !.flows = @ + IF s \in ServicesOf(InFlow(k)) THEN 1 ELSE 0]
<1>1. PICK A : A = Mentioning(C \cup {k}, s)
    OBVIOUS
<1>2. A \subseteq C \cup {k} /\ A \cap C = Mentioning(C, s)
    BY <1>1 DEF Mentioning
<1>3. k \in A <=> s \in ServicesOf(InFlow(k))
    BY <1>1 DEF Mentioning, ServicesOf
<1>4. Count(A) = Count(Mentioning(C, s)) + IF k \in A THEN 1 ELSE 0
    BY <1>2, FlowCounted
<1>5. PICK logs, errors : \A D : NodeOf(n, D, s) = [logs |-> logs, errors |-> errors, flows |-> Count(Mentioning(D, s))]
    BY DEF NodeOf
<1>6. NodeOf(n, C, s) = [logs |-> logs, errors |-> errors, flows |-> Count(Mentioning(C, s))]
    BY <1>5
<1>7. NodeOf(n, C \cup {k}, s) = [logs |-> logs, errors |-> errors, flows |-> Count(A)]
    BY <1>1, <1>5
<1> QED
    BY <1>3, <1>4, <1>6, <1>7

\* The counts of an edge when the flow k joins the flows C.
LEMMA EdgeClosed ==
    ASSUME NEW C, IsFiniteSet(C), NEW k, k \notin C, NEW e
    PROVE  EdgeOf(C \cup {k}, e) =
             [flows |-> EdgeOf(C, e).flows + IF Linked(InFlow(k), e[1], e[2]) THEN 1 ELSE 0,
              errors |-> EdgeOf(C, e).errors + IF Failing(InFlow(k), e[1], e[2]) THEN 1 ELSE 0,
              propagated |-> EdgeOf(C, e).propagated + IF Propagating(InFlow(k), e[1], e[2]) THEN 1 ELSE 0]
<1> DEFINE L(D) == {f \in D : Linked(InFlow(f), e[1], e[2])}
           F(D) == {f \in D : Failing(InFlow(f), e[1], e[2])}
           P(D) == {f \in D : Propagating(InFlow(f), e[1], e[2])}
           K == C \cup {k}
<1>1. L(K) \subseteq K /\ L(K) \cap C = L(C) /\ (k \in L(K) <=> Linked(InFlow(k), e[1], e[2]))
    OBVIOUS
<1>2. F(K) \subseteq K /\ F(K) \cap C = F(C) /\ (k \in F(K) <=> Failing(InFlow(k), e[1], e[2]))
    OBVIOUS
<1>3. P(K) \subseteq K /\ P(K) \cap C = P(C) /\ (k \in P(K) <=> Propagating(InFlow(k), e[1], e[2]))
    OBVIOUS
<1>4. \A D : EdgeOf(D, e) = [flows |-> Count(L(D)), errors |-> Count(F(D)), propagated |-> Count(P(D))]
    BY DEF EdgeOf
<1>5. \A A \in {L(K), F(K), P(K)} : Count(A) = Count(A \cap C) + IF k \in A THEN 1 ELSE 0
    <2> SUFFICES ASSUME NEW A, A \subseteq C \cup {k}
                 PROVE  Count(A) = Count(A \cap C) + IF k \in A THEN 1 ELSE 0
        BY <1>1, <1>2, <1>3
    <2> QED
        BY FlowCounted
<1> HIDE DEF L, F, P, K
<1>6. Count(L(K)) = Count(L(C)) + IF Linked(InFlow(k), e[1], e[2]) THEN 1 ELSE 0
    BY <1>1, <1>5
<1>7. Count(F(K)) = Count(F(C)) + IF Failing(InFlow(k), e[1], e[2]) THEN 1 ELSE 0
    BY <1>2, <1>5
<1>8. Count(P(K)) = Count(P(C)) + IF Propagating(InFlow(k), e[1], e[2]) THEN 1 ELSE 0
    BY <1>3, <1>5
<1>9. /\ EdgeOf(C, e) = [flows |-> Count(L(C)), errors |-> Count(F(C)), propagated |-> Count(P(C))]
      /\ EdgeOf(K, e) = [flows |-> Count(L(K)), errors |-> Count(F(K)), propagated |-> Count(P(K))]
    BY <1>4
<1>10. /\ EdgeOf(C, e).flows = Count(L(C)) /\ EdgeOf(C, e).errors = Count(F(C))
       /\ EdgeOf(C, e).propagated = Count(P(C))
    BY <1>9
<1>11. EdgeOf(K, e) =
             [flows |-> EdgeOf(C, e).flows + IF Linked(InFlow(k), e[1], e[2]) THEN 1 ELSE 0,
              errors |-> EdgeOf(C, e).errors + IF Failing(InFlow(k), e[1], e[2]) THEN 1 ELSE 0,
              propagated |-> EdgeOf(C, e).propagated + IF Propagating(InFlow(k), e[1], e[2]) THEN 1 ELSE 0]
    BY <1>6, <1>7, <1>8, <1>9, <1>10
<1> QED
    BY <1>11 DEF K

\* An edge no flow of C shows has no counts.
LEMMA EdgeAbsent ==
    ASSUME NEW C, NEW e \in Pairs, e \notin EdgePairs(C)
    PROVE  EdgeOf(C, e) = [flows |-> 0, errors |-> 0, propagated |-> 0]
<1>1. \A f \in C : ~Linked(InFlow(f), e[1], e[2])
    BY DEF EdgePairs
<1>2. \A f \in C : ~Failing(InFlow(f), e[1], e[2]) /\ ~Propagating(InFlow(f), e[1], e[2])
    BY <1>1, EdgesNest
<1> QED
    BY <1>1, <1>2, CountNone DEF EdgeOf

\* What CloseFlow makes of the edges old and those of the flow.
EdgesGrown(old, fe) ==
    [e \in DOMAIN old \cup DOMAIN fe |->
        LET was == IF e \in DOMAIN old THEN old[e] ELSE [flows |-> 0, errors |-> 0, propagated |-> 0]
            One(b) == IF e \in DOMAIN fe /\ b THEN 1 ELSE 0
        IN  [flows |-> was.flows + One(TRUE), errors |-> was.errors + One(fe[e].error),
             propagated |-> was.propagated + One(fe[e].propagated)]]

LEMMA EdgesClosed ==
    ASSUME NEW C, IsFiniteSet(C), NEW k, k \notin C, NEW V, V = InFlow(k),
           NEW old, old = EdgeMapOf(C), NEW fe, fe = FlowEdgesOf(V), NEW new, new = EdgesGrown(old, fe)
    PROVE  new = EdgeMapOf(C \cup {k})
<1>1. DOMAIN old = EdgePairs(C) /\ DOMAIN fe = FlowPairs(V)
    BY DEF EdgeMapOf, FlowEdgesOf
<1>2. EdgePairs(C \cup {k}) = EdgePairs(C) \cup FlowPairs(V)
    BY DEF EdgePairs, FlowPairs
<1>3. ASSUME NEW e \in EdgePairs(C) \cup FlowPairs(V)
      PROVE  new[e] = EdgeOf(C \cup {k}, e)
    <2>1. e \in Pairs
        BY DEF EdgePairs, FlowPairs
    <2>2. PICK was : was = IF e \in EdgePairs(C) THEN old[e] ELSE [flows |-> 0, errors |-> 0, propagated |-> 0]
        OBVIOUS
    <2>3. was = EdgeOf(C, e)
        <3>1. CASE e \in EdgePairs(C)
            BY <2>2, <3>1 DEF EdgeMapOf
        <3>2. CASE e \notin EdgePairs(C)
            BY <2>1, <2>2, <3>2, EdgeAbsent
        <3> QED
            BY <3>1, <3>2
    <2>4. new[e] = [flows |-> was.flows + (IF e \in FlowPairs(V) THEN 1 ELSE 0),
                    errors |-> was.errors + (IF e \in FlowPairs(V) /\ fe[e].error THEN 1 ELSE 0),
                    propagated |-> was.propagated + (IF e \in FlowPairs(V) /\ fe[e].propagated THEN 1 ELSE 0)]
        BY <1>1, <1>3, <2>2 DEF EdgesGrown
    <2>5. e \in FlowPairs(V) <=> Linked(V, e[1], e[2])
        BY <2>1 DEF FlowPairs
    <2>6. e \in FlowPairs(V) => (fe[e].error <=> Failing(V, e[1], e[2])) /\ (fe[e].propagated <=> Propagating(V, e[1], e[2]))
        BY DEF FlowEdgesOf
    <2>7. /\ e \in FlowPairs(V) /\ fe[e].error <=> Failing(V, e[1], e[2])
          /\ e \in FlowPairs(V) /\ fe[e].propagated <=> Propagating(V, e[1], e[2])
        BY <2>5, <2>6, EdgesNest
    <2>8. EdgeOf(C \cup {k}, e) =
             [flows |-> was.flows + IF Linked(V, e[1], e[2]) THEN 1 ELSE 0,
              errors |-> was.errors + IF Failing(V, e[1], e[2]) THEN 1 ELSE 0,
              propagated |-> was.propagated + IF Propagating(V, e[1], e[2]) THEN 1 ELSE 0]
        BY <2>3, EdgeClosed
    <2> QED
        BY <2>4, <2>5, <2>7, <2>8
<1>4. new = [e \in EdgePairs(C \cup {k}) |-> new[e]]
    BY <1>1, <1>2 DEF EdgesGrown
<1> QED
    BY <1>2, <1>3, <1>4 DEF EdgeMapOf

\* The summary of the whole flow is that of its records.
LEMMA SummaryClosed ==
    ASSUME records \in Seq(LogRecords), NEW S \in SUBSET Nat, NEW q, InOrder(q, S), S # {},
           NEW k, NEW u, FirstNamed(u, S), NEW s,
           s = [key |-> k, user |-> u, traces |-> TracesOf(S), services |-> ServicesOf(S),
                started |-> Head(q), ended |-> Last(q), logs |-> Len(q), errors |-> Count(ErrorsIn(S))]
    PROVE  s.key = k /\ Summary(s, S)
<1>1. Cardinality(S) = Len(q)
    BY InOrderLength
<1>2. PICK a, b : a = Head(q) /\ b = Last(q)
    OBVIOUS
<1>3. a \in S /\ b \in S /\ \A i \in S : a <= i /\ i <= b
    BY <1>2, EndsInOrder
<1>4. {a, b} \subseteq S /\ S \subseteq a..b
    BY <1>3
<1>5. /\ s.key = k /\ s.user = u /\ s.traces = TracesOf(S) /\ s.services = ServicesOf(S)
      /\ s.started = a /\ s.ended = b /\ s.logs = Len(q) /\ s.errors = Count(ErrorsIn(S))
    BY <1>2
<1> QED
    BY <1>1, <1>4, <1>5 DEF Summary, Count

LEMMA CloseFlowOK == ASSUME GraphInv, CloseFlow PROVE GraphInv'
<1>1. /\ records \in Seq(LogRecords) /\ records' = records /\ counted' = counted /\ flows' = flows
      /\ flow # NoFlow /\ flow \in DOMAIN flows /\ flow \notin closed /\ counted = Len(records)
      /\ index = Len(flows[flow]) /\ index' = 0 /\ flow' = NoFlow /\ closed' = closed \cup {flow}
      /\ closed \subseteq DOMAIN flows /\ ResetScratch
    BY DEF CloseFlow, GraphInv, LoopsInv, input
<1>2. PICK k \in DOMAIN flows : k = flow
    BY <1>1
<1>3. PICK S \in SUBSET Nat : S = InFlow(k) /\ S # {}
    BY <1>1, FlowListed
<1>4. PICK q : q = flows[k] /\ InOrder(q, S)
    BY <1>1, <1>3, FlowListed
<1>5. Visited = S
    <2>1. Len(q) \in 0..Len(q)
        BY <1>4, InOrderType
    <2>2. FirstOf(q, Len(q)) = S
        BY <1>4, <2>1, NextInOrder
    <2> QED
        BY <1>1, <1>2, <1>4, <2>2 DEF Visited
<1>6. PICK n : n = counted
    OBVIOUS
<1>7. PICK C : C = closed /\ IsFiniteSet(C) /\ k \notin C
    <2>1. closed \in SUBSET KeysTo(counted)
        BY <1>1 DEF GraphInv, FlowsInv
    <2> QED
        BY <1>1, <1>2, <2>1, KeysFinite
<1>8. Visited' = {}
    BY <1>1 DEF Visited
<1>9. /\ seenServices = ServicesOf(S) /\ traceIDs = TracesOf(S) /\ errorCount = Count(ErrorsIn(S))
      /\ FirstNamed(userID, S) /\ flowEdges = FlowEdgesOf(S)
    BY <1>5 DEF GraphInv, ScratchInv
<1>10. nodeMap' = NodeMapOf(n, C \cup {k}, WalkedOf(C \cup {k}, {}))
    <2>1. PICK W : W = WalkedOf(C, S)
        OBVIOUS
    <2>2. WalkedOf(C \cup {k}, {}) = W
        <3>1. ClosedRecords(C \cup {k}) = ClosedRecords(C) \cup S
            BY <1>3 DEF ClosedRecords
        <3> QED
            BY <2>1, <3>1 DEF WalkedOf
    <2>3. nodeMap = [s \in NodeNames(n, W) |-> NodeOf(n, C, s)]
        BY <1>5, <1>6, <1>7, <2>1 DEF GraphInv, NodesInv, NodeMapOf
    <2>4. nodeMap' = [s \in NodeNames(n, W) |->
                        [NodeOf(n, C, s) EXCEPT !.flows = @ + IF s \in ServicesOf(S) THEN 1 ELSE 0]]
        BY <1>9, <2>3 DEF CloseFlow
    <2>5. \A s : NodeOf(n, C \cup {k}, s) = [NodeOf(n, C, s) EXCEPT !.flows = @ + IF s \in ServicesOf(S) THEN 1 ELSE 0]
        BY <1>3, <1>7, NodeClosed
    <2>6. nodeMap' = [s \in NodeNames(n, W) |-> NodeOf(n, C \cup {k}, s)]
        BY <2>4, <2>5
    <2> QED
        BY <2>2, <2>6 DEF NodeMapOf
<1>11. edgeMap' = EdgeMapOf(C \cup {k})
    <2>1. PICK old : old = edgeMap /\ old = EdgeMapOf(C)
        BY <1>7 DEF GraphInv, EdgesInv
    <2>2. PICK fe : fe = flowEdges /\ fe = FlowEdgesOf(S)
        BY <1>9
    <2>3. PICK new : new = edgeMap'
        OBVIOUS
    <2>4. new = EdgesGrown(old, fe)
        BY <2>1, <2>2, <2>3, Zenon DEF CloseFlow, EdgesGrown
    <2> QED
        BY <1>3, <1>7, <2>1, <2>2, <2>3, <2>4, EdgesClosed
<1>12. NodesInv' /\ EdgesInv' /\ ScratchInv'
    <2>1. /\ seenServices' = ServicesOf({}) /\ traceIDs' = TracesOf({}) /\ errorCount' = Count(ErrorsIn({}))
          /\ userID' = None /\ flowEdges' = FlowEdgesOf({})
        BY <1>1, EmptyScratch DEF ResetScratch
    <2>2. FirstNamed(userID, {})'
        BY <2>1 DEF FirstNamed, Named
    <2>3. PICK D : D = C \cup {k}
        OBVIOUS
    <2>4. counted' = n /\ closed' = D /\ nodeMap' = NodeMapOf(n, D, WalkedOf(D, {})) /\ edgeMap' = EdgeMapOf(D)
        BY <1>1, <1>2, <1>6, <1>7, <1>10, <1>11, <2>3
    <2> QED
        BY <1>1, <1>8, <2>1, <2>2, <2>4, NextParts
<1>13. SessionsInv'
    <2>1. PICK s : s = [key |-> k, user |-> userID, traces |-> TracesOf(S), services |-> ServicesOf(S),
                        started |-> Head(q), ended |-> Last(q), logs |-> Len(q), errors |-> Count(ErrorsIn(S))]
        OBVIOUS
    <2>2. sessions' = sessions \cup {s}
        BY <1>2, <1>4, <1>9, <2>1 DEF CloseFlow
    <2>3. s.key = k /\ Summary(s, S)
        <3>1. PICK u : u = userID
            OBVIOUS
        <3> QED
            BY <1>1, <1>3, <1>4, <1>9, <2>1, <3>1, SummaryClosed
    <2>4. /\ {x.key : x \in sessions} = C /\ \A x, t \in sessions : x.key = t.key => x = t
          /\ \A x \in sessions : Summary(x, InFlow(x.key))
        BY <1>7 DEF GraphInv, SessionsInv
    <2>5. \A x \in sessions : x.key # k
        BY <1>7, <2>4
    <2>6. \A x \in sessions' : Summary(x, InFlow(x.key))
        BY <1>3, <2>2, <2>3, <2>4
    <2>7. \A x \in sessions' : Summary(x, InFlow(x.key))'
        BY <1>1, <2>6, SameSummary, SameFlows
    <2>8. {x.key : x \in sessions'} = closed'
        BY <1>1, <1>2, <1>7, <2>2, <2>3, <2>4
    <2>9. \A x, t \in sessions' : x.key = t.key => x = t
        BY <2>2, <2>3, <2>4, <2>5
    <2> QED
        BY <2>7, <2>8, <2>9 DEF SessionsInv
<1>14. FlowsInv'
    BY <1>1, SameFlows DEF GraphInv, FlowsInv
<1>15. LoopsInv'
    BY <1>1 DEF GraphInv, LoopsInv
<1> QED
    BY <1>12, <1>13, <1>14, <1>15 DEF GraphInv

LEMMA UnchangedOK == ASSUME GraphInv, UNCHANGED graphVars PROVE GraphInv'
<1>1. /\ records' = records /\ counted' = counted /\ nodeMap' = nodeMap /\ flows' = flows /\ closed' = closed
      /\ flow' = flow /\ index' = index /\ seenServices' = seenServices /\ flowEdges' = flowEdges
      /\ traceIDs' = traceIDs /\ userID' = userID /\ errorCount' = errorCount
      /\ edgeMap' = edgeMap /\ sessions' = sessions
    BY DEF graphVars, input, scratch, result
<1>2. LoopsInv'
    BY <1>1 DEF GraphInv, LoopsInv
<1>3. FlowsInv'
    BY <1>1, SameFlows DEF GraphInv, FlowsInv
<1>4. SessionsInv'
    BY <1>1, SameSessions DEF GraphInv
<1>5. PICK n, C, V : n = counted /\ C = closed /\ V = Visited
    OBVIOUS
<1>6. Visited' = V
    BY <1>1, <1>5 DEF Visited
<1>7. FirstNamed(userID, V)'
    BY <1>1, <1>5, SameSummary DEF GraphInv, ScratchInv
<1>8. /\ nodeMap' = NodeMapOf(n, C, WalkedOf(C, V)) /\ edgeMap' = EdgeMapOf(C)
      /\ seenServices' = ServicesOf(V) /\ traceIDs' = TracesOf(V) /\ errorCount' = Count(ErrorsIn(V))
      /\ flowEdges' = FlowEdgesOf(V)
    BY <1>1, <1>5 DEF GraphInv, NodesInv, EdgesInv, ScratchInv
<1>9. NodesInv' /\ EdgesInv' /\ ScratchInv'
    BY <1>1, <1>5, <1>6, <1>7, <1>8, NextParts
<1> QED
    BY <1>2, <1>3, <1>4, <1>9 DEF GraphInv

LEMMA GraphNextOK == GraphInv /\ [GraphNext]_graphVars => GraphInv'
<1> SUFFICES ASSUME GraphInv, [GraphNext]_graphVars PROVE GraphInv'
    OBVIOUS
<1>1. CASE CountRecord
    BY <1>1, CountRecordOK
<1>2. CASE \E k \in DOMAIN flows \ closed : OpenFlow(k)
    BY <1>2, OpenFlowOK
<1>3. CASE FlowRecord
    BY <1>3, FlowRecordOK
<1>4. CASE CloseFlow
    BY <1>4, CloseFlowOK
<1>5. CASE UNCHANGED graphVars
    BY <1>5, UnchangedOK
<1> QED
    BY <1>1, <1>2, <1>3, <1>4, <1>5 DEF GraphNext

\* After every step of the loops of buildServiceGraph the two maps, the scratch
\* of the open flow and the sessions are those of the records walked so far,
\* whichever order the flows are taken in.
THEOREM GraphInvariant == GraphSpec => []GraphInv
<1> QED
    BY GraphStart, GraphNextOK, PTL DEF GraphSpec

-----------------------------------------------------------------------------
(* What the invariant says.                                                *)

LEMMA WalkedLogged ==
    ASSUME GraphInv
    PROVE  Visited \subseteq Logged /\ WalkedOf(closed, Visited) \subseteq Logged
<1>1. Visited \subseteq Logged
    <2>1. CASE flow = NoFlow
        BY <2>1 DEF Visited
    <2>2. CASE flow # NoFlow
        <3>1. flow \in DOMAIN flows /\ counted = Len(records) /\ index \in 0..Len(flows[flow])
            BY <2>2 DEF GraphInv, LoopsInv
        <3>2. InOrder(flows[flow], InFlow(flow)) /\ InFlow(flow) \in SUBSET Nat /\ InFlow(flow) \subseteq Logged
            BY <3>1, FlowListed
        <3>3. FirstOf(flows[flow], index) \subseteq InFlow(flow)
            BY <3>1, <3>2, NextInOrder
        <3> QED
            BY <2>2, <3>2, <3>3 DEF Visited
    <2> QED
        BY <2>1, <2>2
<1>2. ClosedRecords(closed) \subseteq Logged
    BY DEF ClosedRecords, InFlow
<1> QED
    BY <1>1, <1>2 DEF WalkedOf

LEMMA FirstOfCount ==
    ASSUME NEW q, NEW n \in Nat
    PROVE  IsFiniteSet(FirstOf(q, n)) /\ Cardinality(FirstOf(q, n)) <= n
<1> DEFINE f == [a \in 1..n |-> q[a]]
<1>1. f \in Surjection(1..n, FirstOf(q, n))
    BY DEF Surjection, FirstOf
<1>2. IsFiniteSet(1..n) /\ Cardinality(1..n) = n
    BY FS_Interval
<1> HIDE DEF f
<1> QED
    BY <1>1, <1>2, FS_Surjection

LEMMA NodesTyped ==
    ASSUME GraphInv
    PROVE  /\ DOMAIN nodeMap \subseteq Services
           /\ \A s \in DOMAIN nodeMap : nodeMap[s] \in [logs : Nat, errors : Nat, flows : Nat]
           /\ ServicesOf(Visited) \subseteq DOMAIN nodeMap /\ ServicesOf(Visited) \subseteq Services
<1>1. records \in Seq(LogRecords) /\ closed \in SUBSET KeysTo(counted)
    BY DEF GraphInv, LoopsInv, FlowsInv
<1>2. PICK W : W = WalkedOf(closed, Visited) /\ W \subseteq Logged /\ Visited \subseteq W
    BY WalkedLogged DEF WalkedOf
<1>3. nodeMap = [s \in NodeNames(counted, W) |-> NodeOf(counted, closed, s)]
    BY <1>2 DEF GraphInv, NodesInv, NodeMapOf
<1>4. NodeNames(counted, W) \subseteq Services
    <2>1. \A i \in W : Mentions(i) \subseteq Services
        BY <1>1, <1>2, MentionsOf
    <2>2. \A i \in LoggedTo(counted) : ServiceAt(i) \in Services
        BY <1>1, RecordAt DEF LoggedTo
    <2> QED
        BY <2>1, <2>2 DEF NodeNames
<1>5. ASSUME NEW s PROVE NodeOf(counted, closed, s) \in [logs : Nat, errors : Nat, flows : Nat]
    <2>1. PICK A : A = {i \in LoggedTo(counted) : ServiceAt(i) = s} /\ A \in SUBSET Logged
        BY DEF LoggedTo
    <2>2. PICK B : B = {i \in LoggedTo(counted) : ServiceAt(i) = s /\ ErrorAt(i)} /\ B \in SUBSET Logged
        BY DEF LoggedTo
    <2>3. PICK D : D = Mentioning(closed, s) /\ D \in SUBSET closed
        BY DEF Mentioning
    <2>4. IsFiniteSet(A) /\ IsFiniteSet(B) /\ IsFiniteSet(D)
        BY <1>1, <2>1, <2>2, <2>3, PositionsFinite, KeysFinite
    <2>5. Count(A) \in Nat /\ Count(B) \in Nat /\ Count(D) \in Nat
        BY <2>4, FS_CardinalityType DEF Count
    <2>6. NodeOf(counted, closed, s) = [logs |-> Count(A), errors |-> Count(B), flows |-> Count(D)]
        BY <2>1, <2>2, <2>3 DEF NodeOf
    <2> QED
        BY <2>5, <2>6
<1>6. ServicesOf(Visited) \subseteq NodeNames(counted, W)
    BY <1>2 DEF ServicesOf, NodeNames
<1> QED
    BY <1>3, <1>4, <1>5, <1>6

LEMMA EdgesTyped ==
    ASSUME GraphInv
    PROVE  /\ DOMAIN flowEdges \subseteq Services \X Services /\ DOMAIN edgeMap \subseteq Services \X Services
           /\ \A e \in DOMAIN flowEdges : flowEdges[e] \in [error : BOOLEAN, propagated : BOOLEAN]
           /\ \A e \in DOMAIN edgeMap :
                 /\ edgeMap[e] \in [flows : Nat, errors : Nat, propagated : Nat]
                 /\ edgeMap[e].propagated <= edgeMap[e].errors /\ edgeMap[e].errors <= edgeMap[e].flows
                 /\ \A s \in {e[1], e[2]} : edgeMap[e].flows <= Count(Mentioning(closed, s))
                                              /\ s \in ServicesOf(ClosedRecords(closed))
<1>1. records \in Seq(LogRecords) /\ closed \in SUBSET KeysTo(counted)
    BY DEF GraphInv, LoopsInv, FlowsInv
<1>2. flowEdges = FlowEdgesOf(Visited) /\ edgeMap = EdgeMapOf(closed)
    BY DEF GraphInv, ScratchInv, EdgesInv
<1>3. DOMAIN flowEdges \subseteq Services \X Services /\ DOMAIN edgeMap \subseteq Services \X Services
    BY <1>2 DEF FlowEdgesOf, EdgeMapOf, FlowPairs, EdgePairs, Pairs
<1>4. ASSUME NEW e \in DOMAIN flowEdges PROVE flowEdges[e] \in [error : BOOLEAN, propagated : BOOLEAN]
    <2>1. PICK V : V = Visited
        OBVIOUS
    <2>2. flowEdges[e] = [error |-> Failing(V, e[1], e[2]), propagated |-> Propagating(V, e[1], e[2])]
        BY <1>2, <1>4, <2>1 DEF FlowEdgesOf
    <2>3. PICK a \in BOOLEAN : a = Failing(V, e[1], e[2])
        BY EdgesNest, Zenon
    <2>4. PICK b \in BOOLEAN : b = Propagating(V, e[1], e[2])
        BY EdgesNest, Zenon
    <2>5. flowEdges[e] = [error |-> a, propagated |-> b]
        BY <2>2, <2>3, <2>4, Zenon
    <2> QED
        BY <2>5
<1>5. ASSUME NEW e \in DOMAIN edgeMap
      PROVE  /\ edgeMap[e] \in [flows : Nat, errors : Nat, propagated : Nat]
             /\ edgeMap[e].propagated <= edgeMap[e].errors /\ edgeMap[e].errors <= edgeMap[e].flows
             /\ \A s \in {e[1], e[2]} : edgeMap[e].flows <= Count(Mentioning(closed, s))
                                          /\ s \in ServicesOf(ClosedRecords(closed))
    <2>1. e \in EdgePairs(closed) /\ e \in Pairs /\ edgeMap[e] = EdgeOf(closed, e)
        BY <1>2, <1>5 DEF EdgeMapOf, EdgePairs
    <2>2. PICK L : L = {k \in closed : Linked(InFlow(k), e[1], e[2])}
        OBVIOUS
    <2>3. PICK F : F = {k \in closed : Failing(InFlow(k), e[1], e[2])}
        OBVIOUS
    <2>4. PICK P : P = {k \in closed : Propagating(InFlow(k), e[1], e[2])}
        OBVIOUS
    <2>5. P \subseteq F /\ F \subseteq L /\ L \subseteq closed
        BY <2>2, <2>3, <2>4, EdgesNest
    <2>6. IsFiniteSet(L) /\ IsFiniteSet(F) /\ \A D \in SUBSET closed : IsFiniteSet(D)
        BY <1>1, <2>5, KeysFinite
    <2>7. Count(P) \in Nat /\ Count(F) \in Nat /\ Count(L) \in Nat /\ Count(P) <= Count(F) /\ Count(F) <= Count(L)
        BY <2>5, <2>6, FS_Subset, FS_CardinalityType DEF Count
    <2>8. edgeMap[e] = [flows |-> Count(L), errors |-> Count(F), propagated |-> Count(P)]
        BY <2>1, <2>2, <2>3, <2>4 DEF EdgeOf
    <2>9. ASSUME NEW k \in L PROVE \A s \in {e[1], e[2]} : \E i \in InFlow(k) : s \in Mentions(i)
        <3>1. e \in FlowPairs(InFlow(k)) /\ InFlow(k) \in SUBSET Logged
            BY <2>1, <2>2 DEF FlowPairs, InFlow
        <3> QED
            BY <1>1, <3>1, EndsMentioned
    <2>10. ASSUME NEW s \in {e[1], e[2]}
           PROVE  Count(L) <= Count(Mentioning(closed, s)) /\ s \in ServicesOf(ClosedRecords(closed))
        <3>1. L \subseteq Mentioning(closed, s) /\ Mentioning(closed, s) \in SUBSET closed
            BY <2>5, <2>9 DEF Mentioning
        <3>2. IsFiniteSet(Mentioning(closed, s))
            BY <2>6, <3>1
        <3>3. Count(L) <= Count(Mentioning(closed, s))
            BY <3>1, <3>2, FS_Subset DEF Count
        <3>4. PICK k \in L : TRUE
            BY <2>1, <2>2 DEF EdgePairs
        <3>5. PICK i \in InFlow(k) : s \in Mentions(i)
            BY <2>9
        <3>6. i \in ClosedRecords(closed)
            BY <2>5 DEF ClosedRecords
        <3> QED
            BY <3>3, <3>5, <3>6 DEF ServicesOf
    <2> QED
        BY <2>7, <2>8, <2>10
<1> QED
    BY <1>3, <1>4, <1>5

LEMMA FlowsTyped ==
    ASSUME GraphInv
    PROVE  \A k \in DOMAIN flows : k[1] \in Kinds /\ flows[k] \in Seq(Positions) /\ flows[k] # <<>>
<1> SUFFICES ASSUME NEW k \in DOMAIN flows
             PROVE  k[1] \in Kinds /\ flows[k] \in Seq(Positions) /\ flows[k] # <<>>
    OBVIOUS
<1>1. records \in Seq(LogRecords) /\ Len(records) <= MaxRecords
    BY DEF GraphInv, LoopsInv
<1>2. k \in KeysTo(counted) /\ InOrder(flows[k], FlowTo(k, counted))
    BY DEF GraphInv, FlowsInv
<1>3. PICK i \in LoggedTo(counted) : k = graphFlowIdentity(records[i]) /\ k # NoFlow
    BY <1>2 DEF KeysTo
<1>4. k[1] \in Kinds
    BY <1>3, IdentityKind
<1>5. i \in FlowTo(k, counted)
    BY <1>3 DEF LoggedTo, FlowTo, InFlow
<1>6. FlowTo(k, counted) \subseteq Positions
    <2>1. \A j \in Logged : j \in 1..Len(records)
        BY <1>1, RecordAt
    <2>2. 1..Len(records) \subseteq Positions
        BY <1>1, GraphAssumption DEF Positions
    <2> QED
        BY <2>1, <2>2 DEF FlowTo, InFlow
<1>7. PICK q : q = flows[k] /\ q \in Seq(FlowTo(k, counted)) /\ \E a \in 1..Len(q) : q[a] = i
    BY <1>2, <1>5 DEF InOrder
<1>8. q \in Seq(Positions)
    BY <1>6, <1>7
<1>9. q # <<>>
    BY <1>7
<1> QED
    BY <1>4, <1>7, <1>8, <1>9

LEMMA ErrorsBounded == ASSUME GraphInv PROVE errorCount \in 0..index
<1>1. PICK V : V = Visited /\ errorCount = Count(ErrorsIn(V))
    BY DEF GraphInv, ScratchInv
<1>2. index \in Nat /\ (flow = NoFlow => index = 0)
    <2>1. CASE flow = NoFlow
        BY <2>1 DEF GraphInv, LoopsInv
    <2>2. CASE flow # NoFlow
        <3>1. index \in 0..Len(flows[flow])
            BY <2>2 DEF GraphInv, LoopsInv
        <3> QED
            BY <2>2, <3>1
    <2> QED
        BY <2>1, <2>2
<1>3. IsFiniteSet(V) /\ Cardinality(V) <= index
    <2>1. CASE flow = NoFlow
        <3>1. V = {}
            BY <1>1, <2>1 DEF Visited
        <3> QED
            BY <1>2, <2>1, <3>1, FS_EmptySet
    <2>2. CASE flow # NoFlow
        <3>1. V = FirstOf(flows[flow], index)
            BY <1>1, <2>2 DEF Visited
        <3> QED
            BY <1>2, <3>1, FirstOfCount
    <2> QED
        BY <2>1, <2>2
<1>4. ErrorsIn(V) \in SUBSET V
    BY DEF ErrorsIn
<1>5. IsFiniteSet(ErrorsIn(V)) /\ Cardinality(ErrorsIn(V)) <= Cardinality(V)
    BY <1>3, <1>4, FS_Subset
<1>6. Cardinality(ErrorsIn(V)) \in Nat /\ Cardinality(V) \in Nat
    BY <1>3, <1>5, FS_CardinalityType
<1> QED
    BY <1>1, <1>2, <1>3, <1>5, <1>6 DEF Count

LEMMA LoopsHold == GraphInv => LoopsOK
<1> SUFFICES ASSUME GraphInv PROVE LoopsOK
    OBVIOUS
<1>1. GraphTypeOK
    <2>1. /\ records \in Seq(LogRecords) /\ counted \in 0..Len(records)
          /\ closed \subseteq DOMAIN flows /\ flow \in (DOMAIN flows \ closed) \cup {NoFlow}
          /\ index \in 0..(IF flow = NoFlow THEN 0 ELSE Len(flows[flow]))
        BY DEF GraphInv, LoopsInv
    <2>2. seenServices = ServicesOf(Visited) /\ {s.key : s \in sessions} = closed
        BY DEF GraphInv, ScratchInv, SessionsInv
    <2>3. seenServices \subseteq Services
        BY <2>2, NodesTyped
    <2>4. DOMAIN flowEdges \cup DOMAIN edgeMap \subseteq Services \X Services
        BY EdgesTyped
    <2> QED
        BY <2>1, <2>2, <2>3, <2>4, NodesTyped, EdgesTyped, FlowsTyped, ErrorsBounded DEF GraphTypeOK
<1>2. ServicesHaveNodes
    BY NodesTyped DEF ServicesHaveNodes, GraphInv, ScratchInv
<1>3. CountsNest
    <2> SUFFICES ASSUME flow = NoFlow, NEW e \in DOMAIN edgeMap
                 PROVE  /\ edgeMap[e].propagated <= edgeMap[e].errors /\ edgeMap[e].errors <= edgeMap[e].flows
                        /\ \A s \in {e[1], e[2]} : edgeMap[e].flows <= nodeMap[s].flows
        BY DEF CountsNest
    <2>1. PICK W : W = WalkedOf(closed, Visited) /\ ClosedRecords(closed) \subseteq W
        BY DEF WalkedOf
    <2>2. nodeMap = [s \in NodeNames(counted, W) |-> NodeOf(counted, closed, s)]
        BY <2>1 DEF GraphInv, NodesInv, NodeMapOf
    <2>3. ASSUME NEW s \in {e[1], e[2]} PROVE edgeMap[e].flows <= nodeMap[s].flows
        <3>1. edgeMap[e].flows <= Count(Mentioning(closed, s)) /\ s \in ServicesOf(ClosedRecords(closed))
            BY EdgesTyped
        <3>2. s \in NodeNames(counted, W)
            BY <2>1, <3>1 DEF NodeNames, ServicesOf
        <3>3. nodeMap[s].flows = Count(Mentioning(closed, s))
            BY <2>2, <3>2 DEF NodeOf
        <3> QED
            BY <3>1, <3>3
    <2> QED
        BY <2>3, EdgesTyped
<1> QED
    BY <1>1, <1>2, <1>3 DEF LoopsOK

\* While buildServiceGraph runs, every node it increments is there, and no edge
\* counts more errors than flows or more flows than a service at its ends, for
\* any number of records, any fields and any order of the flows.
THEOREM LoopsSafe == GraphSpec => []LoopsOK
<1> QED
    BY GraphInvariant, LoopsHold, PTL

-----------------------------------------------------------------------------
(* The answer.                                                             *)

LEMMA DoneParts ==
    ASSUME GraphInv, Done
    PROVE  /\ records \in Seq(LogRecords) /\ closed = Keys /\ LoggedTo(counted) = Logged
           /\ Visited = {} /\ IsFiniteSet(Keys)
<1>1. records \in Seq(LogRecords) /\ counted = Len(records) /\ closed = DOMAIN flows /\ flow = NoFlow
    BY DEF GraphInv, LoopsInv, Done
<1>2. \A i \in Logged : i \in Nat /\ i <= counted
    BY <1>1, RecordAt
<1>3. LoggedTo(counted) = Logged
    BY <1>2 DEF LoggedTo
<1>4. closed = Keys /\ Keys \in SUBSET KeysTo(counted)
    BY <1>1, <1>3 DEF GraphInv, FlowsInv, KeysTo, Keys
<1>5. IsFiniteSet(Keys)
    BY <1>1, <1>4, KeysFinite
<1> QED
    BY <1>1, <1>3, <1>4, <1>5 DEF Visited

\* The user of a session is that of the first of its records that names one.
LEMMA SessionUser ==
    ASSUME NEW s, NEW own \in SUBSET Nat, {s.started, s.ended} \subseteq own,
           own \subseteq s.started..s.ended, FirstNamed(s.user, own),
           NEW named, named = {i \in own : graphField(records[i], "user") # None}
    PROVE  IF named = {} THEN s.user = None
           ELSE \E i \in named : s.user = graphField(records[i], "user") /\ named \subseteq i..s.ended
<1>1. named = Named(own)
    BY DEF Named
<1>2. CASE named = {}
    BY <1>1, <1>2 DEF FirstNamed
<1>3. CASE named # {}
    <2>1. PICK i \in named : s.user = graphField(records[i], "user") /\ \A j \in named : i <= j
        BY <1>1, <1>3 DEF FirstNamed
    <2>2. PICK a \in own, b \in own : a = s.started /\ b = s.ended /\ own \subseteq a..b
        OBVIOUS
    <2>3. named \subseteq i..b
        <3>1. a \in Nat /\ b \in Nat /\ i \in Nat
            BY <1>1 DEF Named
        <3>2. ASSUME NEW j \in named PROVE j \in i..b
            <4>1. j \in own
                OBVIOUS
            <4>2. j \in a..b /\ j \in Nat
                BY <2>2, <4>1
            <4> QED
                BY <2>1, <3>1, <4>2
        <3> QED
            BY <3>2
    <2> QED
        BY <1>3, <2>1, <2>2, <2>3
<1> QED
    BY <1>2, <1>3

\* Two errors next to each other are errors of both services of the pair.
LEMMA PropagatingFails ==
    ASSUME NEW V, NEW s, NEW t, Propagating(V, s, t)
    PROVE  BothFail(V, s, t)
<1>1. PICK p \in Steps(V, s, t) : ErrorAt(p[1]) /\ ErrorAt(p[2])
    BY DEF Propagating
<1>2. p[1] \in V /\ p[2] \in V /\ ServiceAt(p[1]) = s /\ ServiceAt(p[2]) = t
    BY <1>1 DEF Steps
<1> QED
    BY <1>1, <1>2 DEF BothFail

LEMMA AnswerHolds == GraphInv => GraphAgrees
<1> SUFFICES ASSUME GraphInv, Done
             PROVE  NodesAgree /\ EdgesAgree /\ SessionsAgree
    BY DEF GraphAgrees, NodesAgree, EdgesAgree, SessionsAgree
<1>1. /\ records \in Seq(LogRecords) /\ closed = Keys /\ LoggedTo(counted) = Logged
      /\ Visited = {} /\ IsFiniteSet(Keys)
    BY DoneParts
<1>2. NodesAgree
    <2>1. WalkedOf(closed, Visited) = UNION {InFlow(k) : k \in Keys}
        BY <1>1 DEF WalkedOf, ClosedRecords
    <2>2. PICK W : W = UNION {InFlow(k) : k \in Keys}
        OBVIOUS
    <2>3. nodeMap = [s \in NodeNames(counted, W) |-> NodeOf(counted, Keys, s)]
        BY <1>1, <2>1, <2>2 DEF GraphInv, NodesInv, NodeMapOf
    <2>4. NodeNames(counted, W) = {ServiceAt(i) : i \in Logged} \cup UNION {Mentions(i) : i \in W}
        BY <1>1 DEF NodeNames
    <2>5. \A s : NodeOf(counted, Keys, s) =
            [logs |-> Count({i \in Logged : ServiceAt(i) = s}),
             errors |-> Count({i \in Logged : ServiceAt(i) = s /\ ErrorAt(i)}),
             flows |-> Count({k \in Keys : \E i \in InFlow(k) : s \in Mentions(i)})]
        BY <1>1, Zenon DEF NodeOf, Mentioning
    <2>6. nodeMap = [s \in {ServiceAt(i) : i \in Logged} \cup UNION {Mentions(i) : i \in W} |->
            [logs |-> Count({i \in Logged : ServiceAt(i) = s}),
             errors |-> Count({i \in Logged : ServiceAt(i) = s /\ ErrorAt(i)}),
             flows |-> Count({k \in Keys : \E i \in InFlow(k) : s \in Mentions(i)})]]
        BY <2>3, <2>4, <2>5
    <2> QED
        BY <2>2, <2>6, Zenon DEF NodesAgree
<1>3. EdgesAgree
    <2>1. edgeMap = [e \in EdgePairs(Keys) |-> EdgeOf(Keys, e)]
        BY <1>1 DEF GraphInv, EdgesInv, EdgeMapOf
    <2>2. EdgePairs(Keys) = {x \in Services \X Services : x[1] # x[2]
                                 /\ \E k \in Keys : Linked(InFlow(k), x[1], x[2])}
        BY DEF EdgePairs, Pairs
    <2>3. ASSUME NEW e \in EdgePairs(Keys)
          PROVE  /\ edgeMap[e].flows = Count({k \in Keys : Linked(InFlow(k), e[1], e[2])})
                 /\ edgeMap[e].errors = Count({k \in Keys : Failing(InFlow(k), e[1], e[2])})
                 /\ Count({k \in Keys : Propagating(InFlow(k), e[1], e[2])}) <= edgeMap[e].propagated
                 /\ edgeMap[e].propagated <= Count({k \in Keys : BothFail(InFlow(k), e[1], e[2])})
        <3>1. PICK P : P = {k \in Keys : Propagating(InFlow(k), e[1], e[2])}
            OBVIOUS
        <3>2. PICK B : B = {k \in Keys : BothFail(InFlow(k), e[1], e[2])}
            OBVIOUS
        <3>3. P \subseteq B /\ B \subseteq Keys
            BY <3>1, <3>2, PropagatingFails
        <3>4. IsFiniteSet(B) /\ IsFiniteSet(P)
            BY <1>1, <3>3, FS_Subset
        <3>5. Count(P) \in Nat /\ Count(B) \in Nat /\ Count(P) <= Count(B)
            BY <3>3, <3>4, FS_Subset, FS_CardinalityType DEF Count
        <3>6. edgeMap[e] = [flows |-> Count({k \in Keys : Linked(InFlow(k), e[1], e[2])}),
                            errors |-> Count({k \in Keys : Failing(InFlow(k), e[1], e[2])}),
                            propagated |-> Count(P)]
            BY <2>1, <3>1 DEF EdgeOf
        <3>7. edgeMap[e].propagated = Count(P)
            BY <3>6
        <3>8. Count(P) <= edgeMap[e].propagated /\ edgeMap[e].propagated <= Count(B)
            BY <3>5, <3>7
        <3> QED
            BY <3>1, <3>2, <3>6, <3>8
    <2>4. DOMAIN edgeMap = EdgePairs(Keys)
        BY <2>1
    <2> QED
        BY <2>2, <2>3, <2>4, Zenon DEF EdgesAgree
<1>4. SessionsAgree
    <2>1. /\ {s.key : s \in sessions} = Keys /\ \A s, t \in sessions : s.key = t.key => s = t
          /\ \A s \in sessions : Summary(s, InFlow(s.key))
        BY <1>1 DEF GraphInv, SessionsInv
    <2>2. Count(sessions) = Count(Keys)
        <3> DEFINE Of(k) == CHOOSE s \in sessions : s.key = k
                   f == [k \in Keys |-> Of(k)]
        <3>1. \A k \in Keys : Of(k) \in sessions /\ Of(k).key = k
            BY <2>1
        <3>2. \A s \in sessions : s.key \in Keys /\ Of(s.key) = s
            BY <2>1, <3>1
        <3> HIDE DEF Of
        <3>3. f \in [Keys -> sessions] /\ \A k \in Keys : f[k] = Of(k)
            BY <3>1
        <3> HIDE DEF f
        <3>4. \A j, k \in Keys : f[j] = f[k] => j = k
            BY <3>1, <3>3
        <3>5. \A s \in sessions : \E k \in Keys : f[k] = s
            BY <3>2, <3>3
        <3>6. f \in Bijection(Keys, sessions)
            BY <3>3, <3>4, <3>5 DEF Bijection, Injection, Surjection, IsInjective
        <3>7. ExistsBijection(Keys, sessions)
            BY <3>6 DEF ExistsBijection
        <3> QED
            BY <1>1, <3>7, FS_Bijection DEF Count
    <2>3. ASSUME NEW s \in sessions, NEW own, own = InFlow(s.key),
                 NEW named, named = {i \in own : graphField(records[i], "user") # None}
          PROVE  /\ s.logs = Count(own) /\ s.errors = Count({i \in own : ErrorAt(i)})
                 /\ {s.started, s.ended} \subseteq own /\ own \subseteq s.started..s.ended
                 /\ s.services = UNION {Mentions(i) : i \in own}
                 /\ s.traces = {records[i].trace : i \in own} \ {None}
                 /\ IF named = {} THEN s.user = None
                    ELSE \E i \in named : s.user = graphField(records[i], "user") /\ named \subseteq i..s.ended
        <3>1. Summary(s, own)
            BY <2>1, <2>3
        <3>2. own \in SUBSET Nat
            BY <1>1, <2>3, PositionsFinite DEF InFlow
        <3>3. IF named = {} THEN s.user = None
              ELSE \E i \in named : s.user = graphField(records[i], "user") /\ named \subseteq i..s.ended
            <4>1. {s.started, s.ended} \subseteq own /\ own \subseteq s.started..s.ended /\ FirstNamed(s.user, own)
                BY <3>1, Zenon DEF Summary
            <4> QED
                BY <2>3, <3>2, <4>1, SessionUser
        <3> QED
            BY <3>1, <3>3, Zenon DEF Summary, ErrorsIn, ServicesOf, TracesOf
    <2> QED
        BY <2>1, <2>2, <2>3, Zenon DEF SessionsAgree
<1> QED
    BY <1>2, <1>3, <1>4

\* When buildServiceGraph returns, its nodes, edges and sessions are those
\* defined over the records as a whole, each flow counted once, for any number
\* of records, any fields, and any order of equal timestamps and of the flows.
THEOREM GraphSafe == GraphSpec => []GraphAgrees
<1> QED
    BY GraphInvariant, AnswerHolds, PTL
=============================================================================
