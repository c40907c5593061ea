-------------------------- MODULE RuleEngine_proofs --------------------------
(***************************************************************************)
(* Proofs about RuleEngine, for any batches, finite set of records, rules  *)
(* and any number of processors: the windows of the engine count a record  *)
(* once, a percentile is what the number of smaller values says it is, an  *)
(* alert fires only with cause and fires when the query found enough, and  *)
(* an evaluation that fails changes no alert.                              *)
(*                                                                         *)
(* The size of a window is the cardinality of the set of the copies it     *)
(* holds, so that what a threshold compares follows from theorems about    *)
(* finite sets; the least and the largest value exist because the natural  *)
(* numbers are well-founded.                                               *)
(***************************************************************************)
EXTENDS RuleEngine, FiniteSetTheorems, WellFoundedInduction, TLAPS

\* The consumers of the processors.
Consumers == DOMAIN cbatch = Processors

\* What a query returned twice, ClickHouse holds twice.
FoundOnce ==
    \A p \in Processors, x \in Records : found[p][x] > 1 => rows[BatchOf[x]] > 1

\* The broken rules still lie ahead of the loop over the rules.
ConsumerAhead == \A p \in Processors : cstep[p] \in {"write", "sync"} => cbroken[p] = {}
SchedulerAhead ==
    \A p \in Processors :
        /\ \A r \in sbroken[p] : r \in Evaluated /\ r >= srule[p]
        /\ sstep[p] = "evaluate" => srule[p] \in Rules
        /\ sstep[p] = "sync" => srule[p] \notin Rules
\* Between two evaluations the loop is at its start.
AtRest == \A p \in Processors : sstep[p] = "idle" => srule[p] = 1

EngineInv == TypeOK /\ Consumers /\ CountedOnce /\ FoundOnce /\ ConsumerAhead /\ SchedulerAhead /\ AtRest

-----------------------------------------------------------------------------
(* The engine.                                                             *)

Bags == [Records -> Nat]

LEMMA NextWindowType ==
    ASSUME NEW r \in Rules, NEW win \in Bags, NEW recs \in Bags
    PROVE  NextWindow(r, win, recs) \in Bags
BY DEF Bags, NextWindow, Trimmed, Combined

LEMMA BagTypes ==
    /\ NoRecords \in Bags
    /\ \A b \in Batches : BatchBag(b) \in Bags /\ \A x \in Records : BatchBag(b)[x] <= 1
BY DEF Bags, NoRecords, BatchBag

\* Evaluate keeps what it had of a record or takes what it was given: it adds
\* the two only if it had none.
LEMMA NextWindowCount ==
    ASSUME NEW r \in Rules, NEW win \in Bags, NEW recs \in Bags, NEW x \in Records
    PROVE  NextWindow(r, win, recs)[x] \in {0, win[x], recs[x]}
<1>1. Combined(win, recs)[x] \in {win[x], recs[x]}
    <2>1. CASE win[x] = 0
        BY <2>1 DEF Combined, Bags
    <2>2. CASE win[x] # 0
        <3>1. win[x] > 0
            BY <2>2 DEF Bags
        <3>2. BatchOf[x] \in IngestIDs(win)
            BY <3>1 DEF IngestIDs
        <3> QED
            BY <3>2 DEF Combined, Bags
    <2> QED
        BY <2>1, <2>2
<1> QED
    BY <1>1 DEF NextWindow, Trimmed

LEMMA TriggersType == ASSUME NEW r \in Rules, NEW bag PROVE Triggers(r, bag) \subseteq Alerts
BY DEF Triggers, Alerts

LEMMA NewestType ==
    ASSUME NEW bag \in Bags, NEW f \in Newest(bag)
    PROVE  f \in Bags /\ \A x \in Records : f[x] <= bag[x]
BY EngineAssumption DEF Newest, Bags

LEMMA InRangeType ==
    ASSUME TypeOK, NEW r \in Rules, NEW at
    PROVE  /\ InRange(r, at) \in Bags
           /\ \A x \in Records : InRange(r, at)[x] \in {0, rows[BatchOf[x]]}
BY EngineAssumption DEF TypeOK, InRange, Bags

-----------------------------------------------------------------------------
(* How many elements a slice has.                                          *)

LEMMA CopiesOf ==
    ASSUME NEW bag, NEW S, NEW e
    PROVE  e \in Copies(bag, S) <=> \E x \in S : \E i \in 1..bag[x] : e = <<x, i>>
BY DEF Copies

LEMMA CopiesFinite ==
    ASSUME NEW bag \in Bags, NEW S \in SUBSET Records
    PROVE  IsFiniteSet(Copies(bag, S))
<1> DEFINE C(x) == {x} \X (1..bag[x])
           T == {C(x) : x \in S}
           f == [x \in S |-> C(x)]
<1>1. IsFiniteSet(S)
    BY FS_Subset, EngineAssumption
<1>2. f \in Surjection(S, T)
    BY DEF Surjection
<1>3. IsFiniteSet(T)
    <2> HIDE DEF f, T
    <2> QED
        BY <1>1, <1>2, FS_Surjection
<1>4. ASSUME NEW x \in S PROVE IsFiniteSet(C(x))
    <2>1. IsFiniteSet({x})
        BY FS_Singleton
    <2>2. bag[x] \in Int
        BY DEF Bags
    <2>3. IsFiniteSet(1..bag[x])
        BY <2>2, FS_Interval
    <2> QED
        BY <2>1, <2>3, FS_Product
<1>5. \A U \in T : IsFiniteSet(U)
    BY <1>4
<1>6. IsFiniteSet(UNION T)
    <2> HIDE DEF T
    <2> QED
        BY <1>3, <1>5, FS_UNION
<1> QED
    BY <1>6 DEF Copies

LEMMA SizeType ==
    ASSUME NEW bag \in Bags, NEW S \in SUBSET Records
    PROVE  Size(bag, S) \in Nat
BY CopiesFinite, FS_CardinalityType DEF Size

\* What counts is where the bag is positive.
LEMMA SizeGrows ==
    ASSUME NEW bag \in Bags, NEW S \in SUBSET Records, NEW T \in SUBSET Records,
           \A x \in S : bag[x] > 0 => x \in T
    PROVE  Size(bag, S) <= Size(bag, T)
<1>1. Copies(bag, S) \subseteq Copies(bag, T)
    <2> SUFFICES ASSUME NEW e \in Copies(bag, S) PROVE e \in Copies(bag, T)
        OBVIOUS
    <2>1. PICK x \in S : \E i \in 1..bag[x] : e = <<x, i>>
        BY CopiesOf
    <2>2. bag[x] > 0
        BY <2>1 DEF Bags
    <2> QED
        BY <2>1, <2>2, CopiesOf
<1>2. IsFiniteSet(Copies(bag, T))
    BY CopiesFinite
<1> QED
    BY <1>1, <1>2, FS_Subset DEF Size

\* A record with a copy that is not in S makes the difference.
LEMMA SizeGrowsStrictly ==
    ASSUME NEW bag \in Bags, NEW S \in SUBSET Records, NEW T \in SUBSET Records,
           \A x \in S : bag[x] > 0 => x \in T,
           NEW y \in T, y \notin S, bag[y] > 0
    PROVE  Size(bag, S) < Size(bag, T)
<1>1. <<y, 1>> \in Copies(bag, T) /\ <<y, 1>> \notin Copies(bag, S)
    <2>1. 1 \in 1..bag[y]
        BY DEF Bags
    <2>2. <<y, 1>> \in Copies(bag, T)
        BY <2>1, CopiesOf
    <2>3. ASSUME <<y, 1>> \in Copies(bag, S) PROVE FALSE
        <3>1. PICK x \in S : \E i \in 1..bag[x] : <<y, 1>> = <<x, i>>
            BY <2>3, CopiesOf
        <3> QED
            BY <3>1
    <2> QED
        BY <2>2, <2>3
<1>2. Copies(bag, S) \subseteq Copies(bag, T)
    <2> SUFFICES ASSUME NEW e \in Copies(bag, S) PROVE e \in Copies(bag, T)
        OBVIOUS
    <2>1. PICK x \in S : \E i \in 1..bag[x] : e = <<x, i>>
        BY CopiesOf
    <2>2. bag[x] > 0
        BY <2>1 DEF Bags
    <2> QED
        BY <2>1, <2>2, CopiesOf
<1>3. IsFiniteSet(Copies(bag, T))
    BY CopiesFinite
<1>4. Cardinality(Copies(bag, T)) # Cardinality(Copies(bag, S))
    BY <1>1, <1>2, <1>3, FS_Subset
<1>5. Cardinality(Copies(bag, S)) <= Cardinality(Copies(bag, T))
    BY <1>2, <1>3, FS_Subset
<1>6. Size(bag, S) \in Nat /\ Size(bag, T) \in Nat
    BY SizeType
<1> QED
    BY <1>4, <1>5, <1>6 DEF Size

LEMMA SizePositive ==
    ASSUME NEW bag \in Bags, NEW S \in SUBSET Records, Size(bag, S) > 0
    PROVE  \E x \in S : bag[x] > 0
<1>1. Copies(bag, S) # {}
    <2>1. Cardinality({}) = 0
        BY FS_EmptySet
    <2> QED
        BY <2>1 DEF Size
<1>2. PICK e : e \in Copies(bag, S)
    BY <1>1
<1>3. PICK x \in S : \E i \in 1..bag[x] : e = <<x, i>>
    BY <1>2, CopiesOf
<1> QED
    BY <1>3 DEF Bags

\* The records that a slice has.
Present(bag, S) == {x \in S : bag[x] > 0}

LEMMA PresentFew ==
    ASSUME NEW bag \in Bags, NEW S \in SUBSET Records
    PROVE  Cardinality(Present(bag, S)) <= Size(bag, S)
<1> DEFINE P == Present(bag, S)
           f == [x \in P |-> <<x, 1>>]
<1>1. \A x \in P : x \in S /\ 1 \in 1..bag[x]
    BY DEF Present, Bags
<1>2. \A x \in P : <<x, 1>> \in Copies(bag, S)
    BY <1>1, CopiesOf
<1> HIDE DEF P
<1>3. f \in Injection(P, Copies(bag, S))
    BY <1>2 DEF Injection, IsInjective
<1>4. IsFiniteSet(Copies(bag, S))
    BY CopiesFinite
<1>5. Cardinality(P) <= Cardinality(Copies(bag, S))
    <2> HIDE DEF f
    <2> QED
        BY <1>3, <1>4, FS_Injection
<1> QED
    BY <1>5 DEF P, Size

LEMMA PresentAll ==
    ASSUME NEW bag \in Bags, NEW S \in SUBSET Records, \A x \in S : bag[x] <= 1
    PROVE  Size(bag, S) <= Cardinality(Present(bag, S))
<1> DEFINE P == Present(bag, S)
           C == Copies(bag, S)
           f == [e \in C |-> e[1]]
<1>1. ASSUME NEW e \in C PROVE e = <<e[1], 1>> /\ e[1] \in P
    <2>1. PICK x \in S : \E i \in 1..bag[x] : e = <<x, i>>
        BY CopiesOf
    <2>2. PICK i \in 1..bag[x] : e = <<x, i>>
        BY <2>1
    <2>3. bag[x] \in Nat /\ bag[x] <= 1
        BY DEF Bags
    <2>4. i = 1 /\ bag[x] > 0
        BY <2>2, <2>3
    <2> QED
        BY <2>2, <2>4 DEF Present
<1> HIDE DEF P, C
<1>2. f \in Injection(C, P)
    BY <1>1 DEF Injection, IsInjective
<1>3. IsFiniteSet(P)
    BY FS_Subset, EngineAssumption DEF P, Present
<1>4. Cardinality(C) <= Cardinality(P)
    <2> HIDE DEF f
    <2> QED
        BY <1>2, <1>3, FS_Injection
<1> QED
    BY <1>4 DEF P, C, Size

-----------------------------------------------------------------------------
(* percentile: what sorted[i] is.                                          *)

LEMMA LeastOf ==
    ASSUME NEW V, V \subseteq Nat, V # {}
    PROVE  Min(V) \in V /\ \A v \in V : Min(V) <= v
<1> DEFINE R == {ss \in Nat \X Nat : ss[1] < ss[2]}
<1>1. IsWellFoundedOn(R, Nat)
    BY NatLessThanWellFounded, Zenon DEF OpToRel
<1>2. \A x, y \in Nat : y < x => <<y, x>> \in R
    OBVIOUS
<1> HIDE DEF R
<1>3. PICK x \in V : \A y \in V : ~(<<y, x>> \in R)
    BY <1>1, WFMin
<1>4. ASSUME NEW y \in V PROVE x <= y
    <2>1. x \in Nat /\ y \in Nat /\ <<y, x>> \notin R
        BY <1>3
    <2>2. ~(y < x)
        BY <2>1, <1>2, Zenon
    <2> QED
        BY <2>1, <2>2
<1> QED
    BY <1>4 DEF Min

\* The largest value: the one with the fewest copies above it.
LEMMA Largest ==
    ASSUME NEW bag \in Bags, NEW S \in SUBSET Records, Size(bag, S) > 0
    PROVE  \E y \in S : bag[y] > 0 /\ \A z \in S : bag[z] > 0 => Value[z] <= Value[y]
<1> DEFINE Above(y) == {z \in S : Value[z] > Value[y]}
           V == {Size(bag, Above(y)) : y \in Present(bag, S)}
<1>1. \A y \in Records : Size(bag, Above(y)) \in Nat
    BY SizeType
<1>2. V \subseteq Nat /\ V # {}
    BY <1>1, SizePositive DEF Present
<1>3. PICK y \in Present(bag, S) : \A z \in Present(bag, S) : Size(bag, Above(y)) <= Size(bag, Above(z))
    <2>1. Min(V) \in V /\ \A v \in V : Min(V) <= v
        <3> HIDE DEF V
        <3> QED
            BY <1>2, LeastOf
    <2> QED
        BY <2>1
<1>4. ASSUME NEW z \in S, bag[z] > 0, ~(Value[z] <= Value[y]) PROVE FALSE
    <2>1. y \in S /\ y \in Records /\ z \in Records /\ z \in Present(bag, S)
        BY <1>4 DEF Present
    <2>2. \A x \in Records : Value[x] \in Nat
        BY EngineAssumption
    <2>3. Value[z] > Value[y]
        BY <1>4, <2>1, <2>2
    <2>4. z \in Above(y) /\ z \notin Above(z)
        BY <2>1, <2>2, <2>3
    <2>5. \A x \in Above(z) : x \in Above(y)
        BY <2>1, <2>2, <2>3
    <2>6. Above(z) \in SUBSET Records /\ Above(y) \in SUBSET Records
        OBVIOUS
    <2> HIDE DEF Above
    <2>7. Size(bag, Above(z)) < Size(bag, Above(y))
        BY <1>4, <2>4, <2>5, <2>6, SizeGrowsStrictly
    <2>8. Size(bag, Above(y)) <= Size(bag, Above(z))
        BY <1>3, <2>1
    <2>9. Size(bag, Above(z)) \in Nat /\ Size(bag, Above(y)) \in Nat
        BY <2>1, <1>1
    <2> QED
        BY <2>7, <2>8, <2>9
<1>5. y \in S /\ bag[y] > 0
    BY DEF Present
<1> QED
    BY <1>4, <1>5

\* The copies up to and including the value of y.
UpTo(S, y) == {z \in S : Value[z] <= Value[y]}
\* The records whose value may stand at index i.
Ranked(S, bag, i) == {y \in S : bag[y] > 0 /\ Size(bag, UpTo(S, y)) > i}

\* A part of S with more than i copies has a value that may stand at i.
LEMMA RankedIn ==
    ASSUME NEW bag \in Bags, NEW S \in SUBSET Records, NEW T \in SUBSET S, NEW i \in Nat,
           Size(bag, T) > i
    PROVE  \E y \in T : y \in Ranked(S, bag, i)
<1>1. T \in SUBSET Records
    OBVIOUS
<1>2. Size(bag, T) \in Nat
    BY <1>1, SizeType
<1>3. Size(bag, T) > 0
    BY <1>2
<1>4. PICK y \in T : bag[y] > 0 /\ \A z \in T : bag[z] > 0 => Value[z] <= Value[y]
    BY <1>1, <1>3, Largest
<1>5. UpTo(S, y) \in SUBSET Records
    BY DEF UpTo
<1>6. \A z \in T : bag[z] > 0 => z \in UpTo(S, y)
    BY <1>4 DEF UpTo
<1>7. Size(bag, T) <= Size(bag, UpTo(S, y)) /\ Size(bag, UpTo(S, y)) \in Nat
    BY <1>1, <1>5, <1>6, SizeGrows, SizeType
<1>8. Size(bag, UpTo(S, y)) > i
    BY <1>2, <1>7
<1> QED
    BY <1>4, <1>8 DEF Ranked

LEMMA AtRankOf ==
    ASSUME NEW bag \in Bags, NEW S \in SUBSET Records, NEW i \in Nat, Size(bag, S) > i
    PROVE  /\ AtRank(S, bag, i) \in Nat
           /\ \E y \in Ranked(S, bag, i) : AtRank(S, bag, i) = Value[y]
           /\ \A y \in Ranked(S, bag, i) : AtRank(S, bag, i) <= Value[y]
<1> DEFINE V == {Value[x] : x \in Ranked(S, bag, i)}
<1>1. \E y \in S : y \in Ranked(S, bag, i)
    BY RankedIn
<1>2. V \subseteq Nat /\ V # {}
    BY <1>1, EngineAssumption DEF Ranked
<1>3. AtRank(S, bag, i) = Min(V)
    BY DEF AtRank, Ranked, UpTo
<1>4. Min(V) \in V /\ \A v \in V : Min(V) <= v
    <2> HIDE DEF V
    <2> QED
        BY <1>2, LeastOf
<1> QED
    BY <1>2, <1>3, <1>4

\* sorted[i] reaches N just if no more than i values are below it.
Below(S, N) == {x \in S : Value[x] < N}

LEMMA AtRankReaches ==
    ASSUME NEW bag \in Bags, NEW S \in SUBSET Records, NEW i \in Nat, Size(bag, S) > i, NEW N \in Nat
    PROVE  AtRank(S, bag, i) >= N <=> Size(bag, Below(S, N)) <= i
<1>1. Below(S, N) \in SUBSET Records /\ Below(S, N) \in SUBSET S
    BY DEF Below
<1>2. Size(bag, Below(S, N)) \in Nat
    BY <1>1, SizeType
<1>3. AtRank(S, bag, i) \in Nat
    BY AtRankOf
<1>4. ASSUME Size(bag, Below(S, N)) <= i PROVE AtRank(S, bag, i) >= N
    <2> SUFFICES ASSUME AtRank(S, bag, i) < N PROVE FALSE
        BY <1>3
    <2>1. PICK y \in Ranked(S, bag, i) : AtRank(S, bag, i) = Value[y]
        BY AtRankOf
    <2>2. y \in S /\ Size(bag, UpTo(S, y)) > i /\ Value[y] < N /\ UpTo(S, y) \in SUBSET Records
        BY <2>1 DEF Ranked, UpTo
    <2>3. \A z \in UpTo(S, y) : bag[z] > 0 => z \in Below(S, N)
        BY <2>2, EngineAssumption DEF UpTo, Below
    <2>4. Size(bag, UpTo(S, y)) <= Size(bag, Below(S, N)) /\ Size(bag, UpTo(S, y)) \in Nat
        BY <1>1, <2>2, <2>3, SizeGrows, SizeType
    <2> QED
        BY <1>2, <1>4, <2>2, <2>4
<1>5. ASSUME Size(bag, Below(S, N)) > i PROVE AtRank(S, bag, i) < N
    <2>1. PICK y \in Below(S, N) : y \in Ranked(S, bag, i)
        BY <1>1, <1>5, RankedIn
    <2>2. AtRank(S, bag, i) <= Value[y]
        BY <2>1, AtRankOf
    <2>3. Value[y] < N /\ Value[y] \in Nat
        BY <2>1, EngineAssumption DEF Below
    <2> QED
        BY <1>3, <2>2, <2>3
<1> QED
    BY <1>2, <1>3, <1>4, <1>5

\* Between two values that reach N, or that do not, interpolation stays there.
LEMMA Interpolation ==
    ASSUME NEW A \in Nat, NEW B \in Nat, NEW N \in Nat, NEW k \in 0..99
    PROVE  /\ (100 - k) * A + k * B \in Nat
           /\ A >= N /\ B >= N => (100 - k) * A + k * B >= 100 * N
           /\ A < N /\ (k = 0 \/ B < N) => (100 - k) * A + k * B < 100 * N
<1>1. PICK m \in 1..100 : m = 100 - k
    OBVIOUS
<1>2. m * A \in Nat /\ k * B \in Nat /\ m * N \in Nat /\ k * N \in Nat
    OBVIOUS
<1>3. m * N + k * N = 100 * N
    <2>1. m + k = 100 /\ (m + k) * N = m * N + k * N
        BY <1>1
    <2> QED
        BY <2>1
<1>4. A >= N /\ B >= N => m * A >= m * N /\ k * B >= k * N
    OBVIOUS
<1>5. A < N => m * A < m * N
    OBVIOUS
<1>6. B < N => k * B <= k * N
    OBVIOUS
<1>7. k = 0 => k * B = 0 /\ k * N = 0
    OBVIOUS
<1>8. (100 - k) * A = m * A
    BY <1>1
<1> QED
    BY <1>2, <1>3, <1>4, <1>5, <1>6, <1>7, <1>8

\* The last index is the position's limit.
LEMMA PositionBound ==
    ASSUME NEW P \in 0..99, NEW m \in Nat
    PROVE  P * m \in Nat /\ P * m <= 99 * m
OBVIOUS

LEMMA PercentileMeaning ==
    ASSUME NEW bag \in Bags, NEW S \in SUBSET Records, NEW r \in Rules, Size(bag, S) > 0
    PROVE  /\ 100 * Size(bag, Below(S, Needed[r])) <= Percentile[r] * (Size(bag, S) - 1)
                 => PercentileReached(r, S, bag)
           /\ 100 * (Size(bag, Below(S, Needed[r])) - 1) >= Percentile[r] * (Size(bag, S) - 1)
                 => ~PercentileReached(r, S, bag)
<1>1. PICK n \in Nat \ {0} : n = Size(bag, S)
    BY SizeType
<1>2. Below(S, Needed[r]) \in SUBSET Records
    BY DEF Below
<1>3. PICK below \in Nat : below = Size(bag, Below(S, Needed[r]))
    BY <1>2, SizeType
<1>4. PICK N \in Nat : N = Needed[r]
    BY EngineAssumption
<1>5. PICK q \in Nat : q = Percentile[r] * (n - 1) /\ q <= 99 * (n - 1)
    <2>1. Percentile[r] \in 0..99 /\ n - 1 \in Nat
        BY EngineAssumption
    <2> QED
        BY <2>1, PositionBound
<1>6. PICK lower \in Nat : lower = q \div 100
    OBVIOUS
<1>7. PICK k \in 0..99 : k = q % 100
    OBVIOUS
<1>8. q = 100 * lower + k
    BY <1>6, <1>7
<1>9. Position(r, n) = q
    BY <1>5 DEF Position
<1>10. PercentileOf(r, S, bag) =
          IF lower + 1 >= n THEN 100 * AtRank(S, bag, n - 1)
          ELSE (100 - k) * AtRank(S, bag, lower) + k * AtRank(S, bag, lower + 1)
    BY <1>1, <1>6, <1>7, <1>9 DEF PercentileOf
<1>11. PercentileReached(r, S, bag) <=> PercentileOf(r, S, bag) >= 100 * N
    BY <1>4 DEF PercentileReached
<1>12. CASE lower + 1 >= n
    <2>1. n - 1 \in Nat /\ n > n - 1
        OBVIOUS
    <2>2. AtRank(S, bag, n - 1) >= N <=> below <= n - 1
        BY <1>1, <1>3, <1>4, <2>1, AtRankReaches
    <2>3. PICK A \in Nat : A = AtRank(S, bag, n - 1)
        BY <1>1, <2>1, AtRankOf
    <2>4. PercentileReached(r, S, bag) <=> A >= N
        BY <1>10, <1>11, <1>12, <2>3
    <2>5. 100 * below <= q => below <= n - 1
        BY <1>5
    <2>6. 100 * (below - 1) >= q => ~(below <= n - 1)
        BY <1>8, <1>12
    <2> QED
        BY <1>1, <1>3, <1>4, <1>5, <2>2, <2>3, <2>4, <2>5, <2>6
<1>13. CASE ~(lower + 1 >= n)
    <2>1. n > lower /\ n > lower + 1 /\ lower + 1 \in Nat
        BY <1>13
    <2>2. /\ AtRank(S, bag, lower) >= N <=> below <= lower
          /\ AtRank(S, bag, lower + 1) >= N <=> below <= lower + 1
        BY <1>1, <1>3, <1>4, <2>1, AtRankReaches
    <2>3. PICK A \in Nat : A = AtRank(S, bag, lower)
        BY <1>1, <2>1, AtRankOf
    <2>4. PICK B \in Nat : B = AtRank(S, bag, lower + 1)
        BY <1>1, <2>1, AtRankOf
    <2>5. PICK v \in Nat : v = (100 - k) * A + k * B
        BY Interpolation
    <2>6. PercentileReached(r, S, bag) <=> v >= 100 * N
        BY <1>10, <1>11, <1>13, <2>3, <2>4, <2>5
    <2>7. /\ A >= N /\ B >= N => v >= 100 * N
          /\ A < N /\ (k = 0 \/ B < N) => v < 100 * N
        BY <2>5, Interpolation
    <2>8. 100 * below <= q => below <= lower
        BY <1>8
    <2>9. 100 * (below - 1) >= q => below > lower /\ (k = 0 \/ below > lower + 1)
        BY <1>8
    <2>10. 100 * below <= q => v >= 100 * N
        BY <2>2, <2>3, <2>4, <2>7, <2>8
    <2>11. 100 * (below - 1) >= q => v < 100 * N
        BY <2>2, <2>3, <2>4, <2>7, <2>9
    <2> QED
        BY <1>1, <1>3, <1>4, <1>5, <2>6, <2>10, <2>11
<1> QED
    BY <1>12, <1>13

LEMMA GroupRecords == ASSUME NEW r \in Rules, NEW g PROVE InGroup(r, g) \in SUBSET Records
BY EngineAssumption DEF InGroup, Matches

\* Which groups of a percentile rule trigger.
LEMMA PercentileTriggers ==
    ASSUME NEW r \in Rules, NEW g \in Groups, Percentile[r] > 0, NEW bag
    PROVE  <<r, g>> \in Triggers(r, bag) <=> PercentileReached(r, InGroup(r, g), bag)
<1>1. Percentile[r] # 0
    BY EngineAssumption
<1> QED
    BY <1>1 DEF Triggers

-----------------------------------------------------------------------------
(* The steps.                                                              *)

LEMMA EngineInit == Init => EngineInv
<1> SUFFICES ASSUME Init PROVE EngineInv
    OBVIOUS
<1>1. /\ \A p \in Processors, r \in Rules, x \in Records : window[p][r][x] = 0
      /\ \A p \in Processors, x \in Records : found[p][x] = 0
    BY DEF Init, NoRecords
<1>2. CountedOnce /\ FoundOnce
    <2>1. ~(0 > 1)
        OBVIOUS
    <2>2. \A p \in Processors, x \in Records : ~(found[p][x] > 1)
        BY <1>1, <2>1, Zenon
    <2>3. \A p \in Processors, r \in Rules, x \in Records : ~(window[p][r][x] > 1)
        BY <1>1, <2>1, Zenon
    <2> QED
        BY <2>2, <2>3, Zenon DEF CountedOnce, FoundOnce
<1>3. 1 \in 1..(NumRules + 1) /\ 0 \in 0..MaxTime /\ NoRecords \in [Records -> Nat]
    BY EngineAssumption DEF NoRecords
<1>4. TypeOK
    BY <1>3 DEF Init, TypeOK
<1>5. ConsumerAhead /\ SchedulerAhead /\ AtRest /\ Consumers
    BY DEF Init, AtRest, ConsumerAhead, SchedulerAhead, Consumers
<1> QED
    BY <1>2, <1>4, <1>5 DEF EngineInv

\* A window made from the old one and a bag keeps the count.
LEMMA WindowStep ==
    ASSUME EngineInv, NEW p \in Processors, NEW r \in Rules, NEW recs \in Bags,
           \A x \in Records : recs[x] > 1 => rows[BatchOf[x]] > 1
    PROVE  /\ NextWindow(r, window[p][r], recs) \in Bags
           /\ \A x \in Records : NextWindow(r, window[p][r], recs)[x] > 1 => rows[BatchOf[x]] > 1
<1>1. window[p][r] \in Bags
    BY DEF EngineInv, TypeOK, Bags
<1>2. ASSUME NEW x \in Records, NextWindow(r, window[p][r], recs)[x] > 1
      PROVE  rows[BatchOf[x]] > 1
    <2>1. NextWindow(r, window[p][r], recs)[x] \in {0, window[p][r][x], recs[x]}
        BY <1>1, NextWindowCount
    <2> QED
        BY <1>2, <2>1 DEF EngineInv, CountedOnce
<1> QED
    BY <1>1, <1>2, NextWindowType

LEMMA ConsumerDoneOK ==
    ASSUME EngineInv, NEW p \in Processors, ConsumerDone(p), arrived' = arrived
    PROVE  /\ cstep' \in [Processors -> {"idle", "evaluate", "write", "sync"}]
           /\ \A q \in Processors : cstep'[q] # "idle" => cbatch'[q] \in arrived'
           /\ cbroken' \in [Processors -> SUBSET Broken]
           /\ ctriggers' \in [Processors -> SUBSET Alerts]
           /\ ConsumerAhead' /\ Consumers'
BY DEF EngineInv, TypeOK, Consumers, ConsumerDone, ConsumerAhead

LEMMA SchedulerDoneOK ==
    ASSUME EngineInv, NEW p \in Processors, SchedulerDone(p), rows' = rows
    PROVE  /\ sstep' \in [Processors -> {"idle", "query", "evaluate", "sync"}]
           /\ srule' \in [Processors -> 1..(NumRules + 1)]
           /\ sbroken' \in [Processors -> SUBSET Broken]
           /\ observedAt' \in [Processors -> 0..MaxTime]
           /\ found' \in [Processors -> [Records -> Nat]]
           /\ striggers' \in [Processors -> SUBSET Alerts]
           /\ FoundOnce' /\ SchedulerAhead' /\ AtRest'
<1>1. 1 \in 1..(NumRules + 1) /\ 0 \in 0..MaxTime /\ NoRecords \in [Records -> Nat]
    BY EngineAssumption DEF NoRecords
<1>2. /\ sstep' \in [Processors -> {"idle", "query", "evaluate", "sync"}]
      /\ srule' \in [Processors -> 1..(NumRules + 1)]
      /\ sbroken' \in [Processors -> SUBSET Broken]
      /\ observedAt' \in [Processors -> 0..MaxTime]
      /\ found' \in [Processors -> [Records -> Nat]]
      /\ striggers' \in [Processors -> SUBSET Alerts]
    BY <1>1 DEF EngineInv, TypeOK, SchedulerDone
<1>3. \A x \in Records : NoRecords[x] = 0
    BY DEF NoRecords
<1>4. /\ sstep'[p] = "idle" /\ sbroken'[p] = {} /\ found'[p] = NoRecords /\ srule'[p] = 1
      /\ \A q \in Processors \ {p} : /\ sstep'[q] = sstep[q] /\ sbroken'[q] = sbroken[q]
                                     /\ found'[q] = found[q] /\ srule'[q] = srule[q]
    BY DEF EngineInv, TypeOK, SchedulerDone
<1>5. FoundOnce'
    BY <1>3, <1>4 DEF EngineInv, FoundOnce
<1>6. SchedulerAhead' /\ AtRest'
    BY <1>4 DEF EngineInv, SchedulerAhead, AtRest
<1> QED
    BY <1>2, <1>5, <1>6

LEMMA TickOK ==
    ASSUME EngineInv, Tick
    PROVE  EngineInv'
<1>1. now' \in 0..MaxTime
    BY EngineAssumption DEF EngineInv, TypeOK, Tick
<1> QED
    BY <1>1 DEF EngineInv, Tick, TypeOK, CountedOnce, FoundOnce, ConsumerAhead, SchedulerAhead,
                Consumers, AtRest, consumerVars, schedulerVars

LEMMA ArriveOK ==
    ASSUME EngineInv, NEW b \in Batches, Arrive(b)
    PROVE  EngineInv'
BY DEF EngineInv, Arrive, TypeOK, CountedOnce, FoundOnce, ConsumerAhead, SchedulerAhead,
       Consumers, AtRest, consumerVars, schedulerVars

LEMMA DeliverOK ==
    ASSUME EngineInv, NEW p \in Processors, NEW b \in Batches, Deliver(p, b)
    PROVE  EngineInv'
<1>1. PICK broken \in SUBSET (RulesOf[b] \cap Broken) : cbroken' = [cbroken EXCEPT ![p] = broken]
    BY DEF Deliver
<1>2. TypeOK'
    <2>1. cbroken' \in [Processors -> SUBSET Broken]
        BY <1>1 DEF EngineInv, TypeOK
    <2>2. cstep' \in [Processors -> {"idle", "evaluate", "write", "sync"}]
        BY DEF EngineInv, TypeOK, Deliver
    <2>3. \A q \in Processors : cstep'[q] # "idle" => cbatch'[q] \in arrived'
        BY DEF EngineInv, TypeOK, Consumers, Deliver
    <2> QED
        BY <2>1, <2>2, <2>3 DEF EngineInv, TypeOK, Deliver, schedulerVars
<1>3. ConsumerAhead' /\ Consumers'
    BY <1>1 DEF EngineInv, TypeOK, Deliver, ConsumerAhead, Consumers
<1>4. CountedOnce' /\ FoundOnce' /\ SchedulerAhead' /\ AtRest'
    BY DEF EngineInv, Deliver, CountedOnce, FoundOnce, SchedulerAhead, AtRest, schedulerVars
<1> QED
    BY <1>2, <1>3, <1>4 DEF EngineInv

LEMMA EvaluateBatchOK ==
    ASSUME EngineInv, NEW p \in Processors, EvaluateBatch(p)
    PROVE  EngineInv'
<1>1. cbatch[p] \in Batches /\ cbatch[p] \in arrived
    BY DEF EngineInv, TypeOK, EvaluateBatch
<1>2. BatchBag(cbatch[p]) \in Bags /\ \A x \in Records : BatchBag(cbatch[p])[x] <= 1
    BY <1>1, BagTypes
<1>3. \A x \in Records : BatchBag(cbatch[p])[x] > 1 => rows[BatchOf[x]] > 1
    BY <1>2 DEF Bags
<1>4. window' = [window EXCEPT ![p] = [r \in Rules |->
          IF r \in Reached(p) THEN NextWindow(r, window[p][r], BatchBag(cbatch[p])) ELSE window[p][r]]]
    BY DEF EvaluateBatch
<1>5. \A r \in Rules :
         /\ NextWindow(r, window[p][r], BatchBag(cbatch[p])) \in Bags
         /\ \A x \in Records :
               NextWindow(r, window[p][r], BatchBag(cbatch[p]))[x] > 1 => rows[BatchOf[x]] > 1
    BY <1>2, <1>3, WindowStep
<1>6. window' \in [Processors -> [Rules -> [Records -> Nat]]]
    BY <1>4, <1>5 DEF EngineInv, TypeOK, Bags
<1>7. CountedOnce'
    <2> SUFFICES ASSUME NEW q \in Processors, NEW r \in Rules, NEW x \in Records
                 PROVE  window'[q][r][x] > 1 => rows[BatchOf[x]] > 1
        BY DEF CountedOnce, EvaluateBatch
    <2>1. window[q][r][x] > 1 => rows[BatchOf[x]] > 1
        BY DEF EngineInv, CountedOnce
    <2>2. window'[q][r] = window[q][r] \/
             (q = p /\ window'[q][r] = NextWindow(r, window[p][r], BatchBag(cbatch[p])))
        BY <1>4 DEF EngineInv, TypeOK
    <2> QED
        BY <1>5, <2>1, <2>2
<1>8. FoundOnce' /\ SchedulerAhead' /\ AtRest'
    BY DEF EngineInv, EvaluateBatch, FoundOnce, SchedulerAhead, AtRest, schedulerVars
<1>9. CASE cbroken[p] # {} /\ ConsumerDone(p)
    <2>1. arrived' = arrived
        BY DEF EvaluateBatch
    <2>2. /\ cstep' \in [Processors -> {"idle", "evaluate", "write", "sync"}]
          /\ \A q \in Processors : cstep'[q] # "idle" => cbatch'[q] \in arrived'
          /\ cbroken' \in [Processors -> SUBSET Broken]
          /\ ctriggers' \in [Processors -> SUBSET Alerts]
          /\ ConsumerAhead' /\ Consumers'
        BY <1>9, <2>1, ConsumerDoneOK
    <2>3. TypeOK'
        BY <1>6, <2>2 DEF EngineInv, TypeOK, EvaluateBatch, schedulerVars
    <2> QED
        BY <1>7, <1>8, <2>2, <2>3 DEF EngineInv
<1>10. CASE ~(cbroken[p] # {} /\ ConsumerDone(p))
    <2> DEFINE T == UNION {Triggers(r, InView(r, window[p][r], BatchBag(cbatch[p]))) : r \in RulesOf[cbatch[p]]}
    <2>1. /\ cbroken[p] = {} /\ cstep' = [cstep EXCEPT ![p] = "write"]
          /\ ctriggers' = [ctriggers EXCEPT ![p] = T]
          /\ UNCHANGED <<cbatch, cbroken>>
        BY <1>10 DEF EvaluateBatch
    <2>2. RulesOf[cbatch[p]] \subseteq Rules
        BY <1>1, EngineAssumption
    <2>3. T \subseteq Alerts
        BY <2>2, TriggersType
    <2> HIDE DEF T
    <2>4. TypeOK'
        BY <1>1, <1>6, <2>1, <2>3 DEF EngineInv, TypeOK, EvaluateBatch, schedulerVars
    <2>5. ConsumerAhead' /\ Consumers'
        BY <2>1 DEF EngineInv, TypeOK, ConsumerAhead, Consumers
    <2> QED
        BY <1>7, <1>8, <2>4, <2>5 DEF EngineInv
<1> QED
    BY <1>9, <1>10

LEMMA WriteOK ==
    ASSUME EngineInv, NEW p \in Processors, Write(p)
    PROVE  EngineInv'
<1>1. CASE UNCHANGED rows /\ ConsumerDone(p)
    <2>1. arrived' = arrived
        BY DEF Write
    <2>2. /\ cstep' \in [Processors -> {"idle", "evaluate", "write", "sync"}]
          /\ \A q \in Processors : cstep'[q] # "idle" => cbatch'[q] \in arrived'
          /\ cbroken' \in [Processors -> SUBSET Broken]
          /\ ctriggers' \in [Processors -> SUBSET Alerts]
          /\ ConsumerAhead' /\ Consumers'
        BY <1>1, <2>1, ConsumerDoneOK
    <2>3. TypeOK'
        BY <1>1, <2>2 DEF EngineInv, TypeOK, Write, schedulerVars
    <2>4. CountedOnce' /\ FoundOnce' /\ SchedulerAhead' /\ AtRest'
        BY <1>1 DEF EngineInv, Write, CountedOnce, FoundOnce, SchedulerAhead, AtRest, schedulerVars
    <2> QED
        BY <2>2, <2>3, <2>4 DEF EngineInv
<1>2. CASE ~(UNCHANGED rows /\ ConsumerDone(p))
    <2>1. /\ rows' = [rows EXCEPT ![cbatch[p]] = @ + 1]
          /\ cstep[p] = "write" /\ cstep' = [cstep EXCEPT ![p] = "sync"]
          /\ UNCHANGED <<cbatch, cbroken, ctriggers>>
        BY <1>2 DEF Write
    <2>2. cbatch[p] \in Batches
        BY <2>1 DEF EngineInv, TypeOK
    <2>3. rows' \in [Batches -> Nat] /\ \A b \in Batches : rows'[b] >= rows[b]
        BY <2>1, <2>2 DEF EngineInv, TypeOK
    <2>4. TypeOK'
        BY <2>1, <2>3 DEF EngineInv, TypeOK, Write, schedulerVars
    <2>5. \A x \in Records : rows[BatchOf[x]] > 1 => rows'[BatchOf[x]] > 1
        <3>1. ASSUME NEW x \in Records PROVE rows[BatchOf[x]] > 1 => rows'[BatchOf[x]] > 1
            <4>1. BatchOf[x] \in Batches
                BY EngineAssumption
            <4>2. rows[BatchOf[x]] \in Nat /\ rows'[BatchOf[x]] \in Nat /\ rows'[BatchOf[x]] >= rows[BatchOf[x]]
                BY <2>3, <4>1 DEF EngineInv, TypeOK
            <4> QED
                BY <4>2
        <3> QED
            BY <3>1
    <2>6. CountedOnce' /\ FoundOnce'
        BY <2>5 DEF EngineInv, Write, CountedOnce, FoundOnce, schedulerVars
    <2>7. ConsumerAhead' /\ Consumers'
        BY <2>1 DEF EngineInv, TypeOK, ConsumerAhead, Consumers
    <2>8. SchedulerAhead' /\ AtRest'
        BY DEF EngineInv, Write, SchedulerAhead, AtRest, schedulerVars
    <2> QED
        BY <2>4, <2>6, <2>7, <2>8 DEF EngineInv
<1> QED
    BY <1>1, <1>2

LEMMA SyncBatchOK ==
    ASSUME EngineInv, NEW p \in Processors, SyncBatch(p)
    PROVE  EngineInv'
<1>1. firing' \subseteq Alerts
    BY DEF EngineInv, TypeOK, SyncBatch, Synced
<1>2. arrived' = arrived /\ ConsumerDone(p)
    BY DEF SyncBatch
<1>3. /\ cstep' \in [Processors -> {"idle", "evaluate", "write", "sync"}]
      /\ \A q \in Processors : cstep'[q] # "idle" => cbatch'[q] \in arrived'
      /\ cbroken' \in [Processors -> SUBSET Broken]
      /\ ctriggers' \in [Processors -> SUBSET Alerts]
      /\ ConsumerAhead' /\ Consumers'
    BY <1>2, ConsumerDoneOK
<1>4. TypeOK'
    BY <1>1, <1>3 DEF EngineInv, TypeOK, SyncBatch, schedulerVars
<1>5. CountedOnce' /\ FoundOnce' /\ SchedulerAhead' /\ AtRest'
    BY DEF EngineInv, SyncBatch, CountedOnce, FoundOnce, SchedulerAhead, AtRest, schedulerVars
<1> QED
    BY <1>3, <1>4, <1>5 DEF EngineInv

LEMMA StartEvaluationOK ==
    ASSUME EngineInv, NEW p \in Processors, StartEvaluation(p)
    PROVE  EngineInv'
<1>1. PICK broken \in SUBSET (Evaluated \cap Broken) : sbroken' = [sbroken EXCEPT ![p] = broken]
    BY DEF StartEvaluation
<1>2. TypeOK'
    BY <1>1 DEF EngineInv, TypeOK, StartEvaluation, consumerVars
<1>3. CountedOnce' /\ FoundOnce' /\ ConsumerAhead' /\ Consumers'
    BY DEF EngineInv, StartEvaluation, CountedOnce, FoundOnce, ConsumerAhead, Consumers, consumerVars
<1>4. sstep[p] = "idle" /\ srule[p] = 1
    BY DEF StartEvaluation, EngineInv, AtRest
<1>5. \A r \in Evaluated : r >= 1
    BY EngineAssumption DEF Evaluated, Rules
<1>6. SchedulerAhead' /\ AtRest'
    BY <1>1, <1>4, <1>5 DEF EngineInv, TypeOK, StartEvaluation, SchedulerAhead, AtRest
<1> QED
    BY <1>2, <1>3, <1>6 DEF EngineInv

LEMMA QueryRuleOK ==
    ASSUME EngineInv, NEW p \in Processors, QueryRule(p)
    PROVE  EngineInv'
<1>1. sstep[p] = "query" /\ srule[p] \in 1..(NumRules + 1)
    BY DEF QueryRule, EngineInv, TypeOK
<1>2. CountedOnce' /\ ConsumerAhead' /\ Consumers'
    BY DEF EngineInv, QueryRule, CountedOnce, ConsumerAhead, Consumers, consumerVars
<1>3. CASE srule[p] \in Rules /\ Window[srule[p]] > 0
    <2>1. Window[srule[p]] # 0
        BY <1>3, EngineAssumption
    <2>2. /\ sstep' = [sstep EXCEPT ![p] = "evaluate"] /\ srule' = srule
          /\ \E bag \in Newest(InRange(srule[p], observedAt[p])) : found' = [found EXCEPT ![p] = bag]
        BY <1>3, <2>1 DEF QueryRule
    <2>3. PICK bag \in Newest(InRange(srule[p], observedAt[p])) : found' = [found EXCEPT ![p] = bag]
        BY <2>2
    <2>4. /\ InRange(srule[p], observedAt[p]) \in Bags
          /\ \A x \in Records : InRange(srule[p], observedAt[p])[x] \in {0, rows[BatchOf[x]]}
        BY <1>3, InRangeType DEF EngineInv
    <2>5. bag \in Bags /\ \A x \in Records : bag[x] <= InRange(srule[p], observedAt[p])[x]
        BY <2>4, NewestType
    <2>6. TypeOK'
        BY <2>2, <2>3, <2>5 DEF EngineInv, TypeOK, QueryRule, consumerVars, Bags
    <2>7. \A x \in Records : bag[x] > 1 => rows[BatchOf[x]] > 1
        <3> SUFFICES ASSUME NEW x \in Records, bag[x] > 1 PROVE rows[BatchOf[x]] > 1
            OBVIOUS
        <3>1. bag[x] \in Nat /\ InRange(srule[p], observedAt[p])[x] \in Nat
            BY <2>4, <2>5 DEF Bags
        <3>2. InRange(srule[p], observedAt[p])[x] > 1
            BY <2>5, <3>1
        <3>3. ~(0 > 1)
            OBVIOUS
        <3> QED
            BY <2>4, <3>2, <3>3, Zenon
    <2>8. FoundOnce'
        BY <2>3, <2>7 DEF EngineInv, TypeOK, FoundOnce, QueryRule
    <2>9. SchedulerAhead' /\ AtRest'
        BY <1>1, <1>3, <2>2 DEF EngineInv, TypeOK, SchedulerAhead, AtRest, QueryRule
    <2> QED
        BY <1>2, <2>6, <2>8, <2>9 DEF EngineInv
<1>4. CASE srule[p] \in Rules /\ Window[srule[p]] = 0
    <2>1. ~(Window[srule[p]] > 0) /\ srule[p] \notin Evaluated
        BY <1>4 DEF Evaluated
    <2>2. /\ srule' = [srule EXCEPT ![p] = srule[p] + 1]
          /\ UNCHANGED <<sstep, found>>
        BY <1>4, <2>1 DEF QueryRule, NextRule
    <2>3. srule[p] + 1 \in 1..(NumRules + 1) /\ srule[p] \in Nat
        BY <1>1, <1>4, EngineAssumption DEF Rules
    <2>4. TypeOK'
        BY <2>2, <2>3 DEF EngineInv, TypeOK, QueryRule, consumerVars
    <2>5. FoundOnce'
        BY <2>2 DEF EngineInv, FoundOnce, QueryRule
    <2>6. \A r \in sbroken[p] : r \in Evaluated /\ r >= srule[p] + 1
        <3> SUFFICES ASSUME NEW r \in sbroken[p] PROVE r \in Evaluated /\ r >= srule[p] + 1
            OBVIOUS
        <3>1. r \in Evaluated /\ r >= srule[p]
            BY DEF EngineInv, SchedulerAhead
        <3>2. r \in Nat /\ r # srule[p]
            BY <2>1, <3>1, EngineAssumption DEF Evaluated, Rules
        <3> QED
            BY <2>3, <3>1, <3>2
    <2>7. SchedulerAhead' /\ AtRest'
        BY <1>1, <2>2, <2>6 DEF EngineInv, TypeOK, SchedulerAhead, AtRest, QueryRule
    <2> QED
        BY <1>2, <2>4, <2>5, <2>7 DEF EngineInv
<1>5. CASE srule[p] \notin Rules
    <2>1. /\ sstep' = [sstep EXCEPT ![p] = "sync"]
          /\ UNCHANGED <<srule, found>>
        BY <1>5 DEF QueryRule
    <2>2. TypeOK'
        BY <2>1 DEF EngineInv, TypeOK, QueryRule, consumerVars
    <2>3. FoundOnce'
        BY <2>1 DEF EngineInv, FoundOnce, QueryRule
    <2>4. SchedulerAhead' /\ AtRest'
        BY <1>1, <1>5, <2>1 DEF EngineInv, TypeOK, SchedulerAhead, AtRest, QueryRule
    <2> QED
        BY <1>2, <2>2, <2>3, <2>4 DEF EngineInv
<1> QED
    BY <1>3, <1>4, <1>5 DEF QueryRule

LEMMA EvaluateRuleOK ==
    ASSUME EngineInv, NEW p \in Processors, EvaluateRule(p)
    PROVE  EngineInv'
<1>1. PICK r \in Rules : r = srule[p]
    BY DEF EvaluateRule, EngineInv, SchedulerAhead
<1>2. sstep[p] = "evaluate" /\ rows' = rows
    BY DEF EvaluateRule
<1>3. found[p] \in Bags /\ \A x \in Records : found[p][x] > 1 => rows[BatchOf[x]] > 1
    BY DEF EngineInv, TypeOK, FoundOnce, Bags
<1>4. PICK new : new = NextWindow(r, window[p][r], found[p])
    OBVIOUS
<1>5. new \in Bags /\ \A x \in Records : new[x] > 1 => rows[BatchOf[x]] > 1
    BY <1>3, <1>4, WindowStep
<1>6. window' = [window EXCEPT ![p][r] = new]
    BY <1>1, <1>4 DEF EvaluateRule
<1>7. window' \in [Processors -> [Rules -> [Records -> Nat]]]
    BY <1>5, <1>6 DEF EngineInv, TypeOK, Bags
<1>8. \A q \in Processors, s \in Rules : window'[q][s] = window[q][s] \/ window'[q][s] = new
    BY <1>6 DEF EngineInv, TypeOK
<1>9. CountedOnce'
    BY <1>2, <1>5, <1>8 DEF EngineInv, CountedOnce
<1>10. ConsumerAhead' /\ Consumers'
    BY DEF EngineInv, EvaluateRule, ConsumerAhead, Consumers, consumerVars
<1>11. CASE r \in sbroken[p] /\ SchedulerDone(p)
    <2>1. /\ sstep' \in [Processors -> {"idle", "query", "evaluate", "sync"}]
          /\ srule' \in [Processors -> 1..(NumRules + 1)]
          /\ sbroken' \in [Processors -> SUBSET Broken]
          /\ observedAt' \in [Processors -> 0..MaxTime]
          /\ found' \in [Processors -> [Records -> Nat]]
          /\ striggers' \in [Processors -> SUBSET Alerts]
          /\ FoundOnce' /\ SchedulerAhead' /\ AtRest'
        BY <1>2, <1>11, SchedulerDoneOK
    <2>2. TypeOK'
        BY <1>7, <2>1 DEF EngineInv, TypeOK, EvaluateRule, consumerVars
    <2> QED
        BY <1>9, <1>10, <2>1, <2>2 DEF EngineInv
<1>12. CASE ~(r \in sbroken[p] /\ SchedulerDone(p))
    <2> DEFINE T == Triggers(r, InView(r, window[p][r], found[p]))
    <2>1. /\ r \notin sbroken[p]
          /\ striggers' = [striggers EXCEPT ![p] = @ \cup T]
          /\ found' = [found EXCEPT ![p] = NoRecords]
          /\ srule' = [srule EXCEPT ![p] = r + 1]
          /\ sstep' = [sstep EXCEPT ![p] = "query"]
          /\ UNCHANGED <<sbroken, observedAt>>
        BY <1>1, <1>12 DEF EvaluateRule, NextRule
    <2>2. T \subseteq Alerts
        BY TriggersType
    <2> HIDE DEF T
    <2>3. r + 1 \in 1..(NumRules + 1) /\ r \in Nat
        BY EngineAssumption DEF Rules
    <2>4. NoRecords \in Bags /\ \A x \in Records : ~(NoRecords[x] > 1)
        BY DEF NoRecords, Bags
    <2>5. TypeOK'
        BY <1>7, <2>1, <2>2, <2>3, <2>4 DEF EngineInv, TypeOK, EvaluateRule, consumerVars, Bags
    <2>6. FoundOnce'
        BY <1>2, <2>1, <2>4 DEF EngineInv, TypeOK, FoundOnce
    <2>7. \A s \in sbroken[p] : s \in Evaluated /\ s >= r + 1
        <3> SUFFICES ASSUME NEW s \in sbroken[p] PROVE s \in Evaluated /\ s >= r + 1
            OBVIOUS
        <3>1. s \in Evaluated /\ s >= r
            BY <1>1 DEF EngineInv, SchedulerAhead
        <3>2. s \in Nat /\ s # r
            BY <2>1, <3>1, EngineAssumption DEF Evaluated, Rules
        <3> QED
            BY <2>3, <3>1, <3>2
    <2>8. SchedulerAhead' /\ AtRest'
        BY <2>1, <2>7 DEF EngineInv, TypeOK, SchedulerAhead, AtRest
    <2> QED
        BY <1>9, <1>10, <2>5, <2>6, <2>8 DEF EngineInv
<1> QED
    BY <1>11, <1>12

\* The steps that end an evaluation.
LEMMA EvaluationEndsOK ==
    ASSUME EngineInv, NEW p \in Processors, SyncScheduled(p) \/ EvaluationFails(p)
    PROVE  EngineInv'
<1>1. firing' \subseteq Alerts
    BY DEF EngineInv, TypeOK, SyncScheduled, EvaluationFails, Synced
<1>2. rows' = rows /\ SchedulerDone(p) /\ UNCHANGED <<now, arrived, window, consumerVars>>
    BY DEF SyncScheduled, EvaluationFails
<1>3. /\ sstep' \in [Processors -> {"idle", "query", "evaluate", "sync"}]
      /\ srule' \in [Processors -> 1..(NumRules + 1)]
      /\ sbroken' \in [Processors -> SUBSET Broken]
      /\ observedAt' \in [Processors -> 0..MaxTime]
      /\ found' \in [Processors -> [Records -> Nat]]
      /\ striggers' \in [Processors -> SUBSET Alerts]
      /\ FoundOnce' /\ SchedulerAhead' /\ AtRest'
    BY <1>2, SchedulerDoneOK
<1>4. TypeOK'
    BY <1>1, <1>2, <1>3 DEF EngineInv, TypeOK, consumerVars
<1>5. CountedOnce' /\ ConsumerAhead' /\ Consumers'
    BY <1>2 DEF EngineInv, CountedOnce, ConsumerAhead, Consumers, consumerVars
<1> QED
    BY <1>3, <1>4, <1>5 DEF EngineInv

LEMMA RestartOK ==
    ASSUME EngineInv, NEW p \in Processors, Restart(p)
    PROVE  EngineInv'
<1>1. rows' = rows /\ arrived' = arrived /\ SchedulerDone(p) /\ ConsumerDone(p)
    BY DEF Restart
<1>2. /\ sstep' \in [Processors -> {"idle", "query", "evaluate", "sync"}]
      /\ srule' \in [Processors -> 1..(NumRules + 1)]
      /\ sbroken' \in [Processors -> SUBSET Broken]
      /\ observedAt' \in [Processors -> 0..MaxTime]
      /\ found' \in [Processors -> [Records -> Nat]]
      /\ striggers' \in [Processors -> SUBSET Alerts]
      /\ FoundOnce' /\ SchedulerAhead' /\ AtRest'
    BY <1>1, SchedulerDoneOK
<1>3. /\ cstep' \in [Processors -> {"idle", "evaluate", "write", "sync"}]
      /\ \A q \in Processors : cstep'[q] # "idle" => cbatch'[q] \in arrived'
      /\ cbroken' \in [Processors -> SUBSET Broken]
      /\ ctriggers' \in [Processors -> SUBSET Alerts]
      /\ ConsumerAhead' /\ Consumers'
    BY <1>1, ConsumerDoneOK
<1>4. window' = [window EXCEPT ![p] = [r \in Rules |-> NoRecords]]
    BY DEF Restart
<1>5. NoRecords \in [Records -> Nat] /\ \A x \in Records : ~(NoRecords[x] > 1)
    BY DEF NoRecords
<1>6. window' \in [Processors -> [Rules -> [Records -> Nat]]]
    BY <1>4, <1>5 DEF EngineInv, TypeOK
<1>7. \A q \in Processors, r \in Rules : window'[q][r] = window[q][r] \/ window'[q][r] = NoRecords
    BY <1>4 DEF EngineInv, TypeOK
<1>8. CountedOnce'
    BY <1>1, <1>5, <1>7 DEF EngineInv, CountedOnce
<1>9. TypeOK'
    BY <1>2, <1>3, <1>6 DEF EngineInv, TypeOK, Restart
<1> QED
    BY <1>2, <1>3, <1>8, <1>9 DEF EngineInv

-----------------------------------------------------------------------------
(* The theorems.                                                           *)

LEMMA EngineNext ==
    ASSUME EngineInv, [Next]_vars
    PROVE  EngineInv'
<1>1. CASE Tick
    BY <1>1, TickOK
<1>2. ASSUME NEW b \in Batches, Arrive(b) PROVE EngineInv'
    BY <1>2, ArriveOK
<1>3. ASSUME NEW p \in Processors, NEW b \in Batches, Deliver(p, b) PROVE EngineInv'
    BY <1>3, DeliverOK
<1>4. ASSUME NEW p \in Processors, EvaluateBatch(p) \/ Write(p) \/ SyncBatch(p) PROVE EngineInv'
    BY <1>4, EvaluateBatchOK, WriteOK, SyncBatchOK
<1>5. ASSUME NEW p \in Processors, StartEvaluation(p) \/ QueryRule(p) \/ EvaluateRule(p)
      PROVE  EngineInv'
    BY <1>5, StartEvaluationOK, QueryRuleOK, EvaluateRuleOK
<1>6. ASSUME NEW p \in Processors, SyncScheduled(p) \/ EvaluationFails(p) PROVE EngineInv'
    BY <1>6, EvaluationEndsOK
<1>7. ASSUME NEW p \in Processors, Restart(p) PROVE EngineInv'
    BY <1>7, RestartOK
<1>8. CASE UNCHANGED vars
    BY <1>8 DEF vars, EngineInv, TypeOK, Consumers, CountedOnce, FoundOnce, ConsumerAhead,
                SchedulerAhead, AtRest
<1> QED
    BY <1>1, <1>2, <1>3, <1>4, <1>5, <1>6, <1>7, <1>8 DEF Next

\* The consumer, the scheduler and restarts of any processors keep the
\* inductive invariant.
THEOREM EngineInvariant == Spec => []EngineInv
<1>1. EngineInv /\ [Next]_vars => EngineInv'
    BY EngineNext
<1> QED
    BY <1>1, EngineInit, PTL DEF Spec

\* Engine.Evaluate counts a record once, whichever goroutine passes it in
\* first, however often its batch is redelivered and whenever the process
\* restarts, unless ClickHouse itself holds the batch twice.
THEOREM WindowsSafe == Spec => []WindowsOK
<1>1. EngineInv => WindowsOK
    BY DEF EngineInv, WindowsOK
<1> QED
    BY <1>1, EngineInvariant, PTL

LEMMA SilentStep ==
    ASSUME EngineInv, [Next]_vars, firing' # firing
    PROVE  \E p \in Processors : \/ cstep[p] = "sync" /\ cbroken[p] = {}
                                 \/ sstep[p] = "sync" /\ sbroken[p] = {}
<1>1. ASSUME NEW p \in Processors, SyncBatch(p)
      PROVE  cstep[p] = "sync" /\ cbroken[p] = {}
    BY <1>1 DEF SyncBatch, EngineInv, ConsumerAhead
<1>2. ASSUME NEW p \in Processors, SyncScheduled(p)
      PROVE  sstep[p] = "sync" /\ sbroken[p] = {}
    <2>1. sstep[p] = "sync" /\ srule[p] \notin Rules /\ srule[p] \in 1..(NumRules + 1)
        BY <1>2 DEF SyncScheduled, EngineInv, TypeOK, SchedulerAhead
    <2>2. srule[p] = NumRules + 1
        BY <2>1, EngineAssumption DEF Rules
    <2>3. ASSUME NEW r \in sbroken[p] PROVE FALSE
        <3>1. r \in 1..NumRules /\ r >= srule[p]
            BY DEF EngineInv, SchedulerAhead, Evaluated, Rules
        <3> QED
            BY <2>2, <3>1, EngineAssumption
    <2> QED
        BY <2>1, <2>3
<1>3. ASSUME ~\E p \in Processors : SyncBatch(p) \/ SyncScheduled(p)
      PROVE  firing' = firing
    BY <1>3 DEF Next, vars, Tick, Arrive, Deliver, EvaluateBatch, Write, StartEvaluation, QueryRule,
                EvaluateRule, EvaluationFails, Restart
<1> QED
    BY <1>1, <1>2, <1>3

\* RunScheduledAlertEvaluation and handleBatchWithEvaluator reach
\* SyncAlertState only without an error: an evaluation that meets a broken
\* rule resolves no alert for want of triggers.
THEOREM FailureSilent == Spec => FailedEvaluationIsSilent
<1>1. ASSUME EngineInv, [Next]_vars
      PROVE  [firing' # firing =>
                 \E p \in Processors :
                    \/ cstep[p] = "sync" /\ cbroken[p] = {}
                    \/ sstep[p] = "sync" /\ sbroken[p] = {}]_vars
    BY <1>1, SilentStep
<1> QED
    BY <1>1, EngineInvariant, PTL DEF Spec, FailedEvaluationIsSilent

LEMMA PercentileStep == ASSUME TypeOK PROVE PercentileAgrees
<1> SUFFICES ASSUME NEW p \in Processors, NEW r \in Rules, NEW g \in Groups, NEW bag, bag = window[p][r],
                    Percentile[r] > 0, Size(bag, InGroup(r, g)) > 0
             PROVE  /\ 100 * Size(bag, Below(InGroup(r, g), Needed[r])) <= Percentile[r] * (Size(bag, InGroup(r, g)) - 1)
                          => <<r, g>> \in Triggers(r, bag)
                    /\ 100 * (Size(bag, Below(InGroup(r, g), Needed[r])) - 1) >= Percentile[r] * (Size(bag, InGroup(r, g)) - 1)
                          => <<r, g>> \notin Triggers(r, bag)
    BY DEF PercentileAgrees, Below
<1>1. bag \in Bags
    BY DEF TypeOK, Bags
<1>2. InGroup(r, g) \in SUBSET Records
    BY GroupRecords
<1> QED
    BY <1>1, <1>2, PercentileMeaning, PercentileTriggers

\* What evaluatePercentileThreshold makes of any window: without sorting or
\* interpolating, how many of its values lie below the threshold decides.
THEOREM PercentileSafe == Spec => []PercentileAgrees
<1>1. EngineInv => PercentileAgrees
    BY PercentileStep DEF EngineInv
<1> QED
    BY <1>1, EngineInvariant, PTL

-----------------------------------------------------------------------------
(* What the windows, the query results and the triggers stand for.         *)

RowsArrived == \A b \in Batches : rows[b] > 0 => b \in arrived
WindowArrived ==
    \A p \in Processors, r \in Rules, x \in Records : window[p][r][x] > 0 => BatchOf[x] \in arrived

\* What the query of a rule returned was sent and lies in its window.
FoundInRange ==
    \A p \in Processors : sstep[p] = "evaluate" =>
        /\ srule[p] \in Evaluated
        /\ \A x \in Records : found[p][x] > 0 =>
              /\ BatchOf[x] \in arrived
              /\ Time[x] < observedAt[p] /\ observedAt[p] <= Time[x] + Window[srule[p]]

\* The alerts that fire and those that a goroutine is about to report.
Justified(a) == \E S \in SUBSET Records : Justifies(S, a[1], a[2])
TriggersJustified == \A p \in Processors : \A a \in ctriggers[p] \cup striggers[p] : Justified(a)

JustifiedInv == RowsArrived /\ WindowArrived /\ FoundInRange /\ TriggersJustified /\ FiringIsJustified

\* Once sent, a batch stays sent, and rows are only added.
LEMMA StaysJustified ==
    ASSUME NEW a, Justified(a), arrived \subseteq arrived',
           \A x \in Records : rows[BatchOf[x]] > 1 => rows'[BatchOf[x]] > 1
    PROVE  Justified(a)'
<1>1. PICK S \in SUBSET Records : Justifies(S, a[1], a[2])
    BY DEF Justified
<1>2. Justifies(S, a[1], a[2])'
    BY <1>1 DEF Justifies
<1> QED
    BY <1>2 DEF Justified

\* Evaluate drops what is older than its newest record by more than the window.
LEMMA NextWindowFits ==
    ASSUME NEW r \in Evaluated, NEW win \in Bags, NEW recs \in Bags,
           NEW x \in Records, NEW y \in Records,
           NextWindow(r, win, recs)[x] > 0, NextWindow(r, win, recs)[y] > 0
    PROVE  Time[x] <= Time[y] + Window[r]
<1>1. r \in Rules /\ Window[r] # 0 /\ Window[r] \in Nat /\ Time[x] \in Nat /\ Time[y] \in Nat
    BY EngineAssumption DEF Evaluated
<1>2. PICK bag \in Bags : bag = Combined(win, recs)
    <2>1. Combined(win, recs) \in Bags
        BY DEF Bags, Combined
    <2> QED
        BY <2>1
<1>3. NextWindow(r, win, recs) = Trimmed(r, bag)
    BY <1>1, <1>2 DEF NextWindow
<1>4. Trimmed(r, bag)[x] > 0 /\ Trimmed(r, bag)[y] > 0
    BY <1>3
<1>5. ~(0 > 0)
    OBVIOUS
<1>6. bag[x] > 0
    BY <1>4, <1>5 DEF Trimmed
<1>7. \A z \in Records : bag[z] > 0 => Time[y] + Window[r] >= Time[z]
    BY <1>4, <1>5 DEF Trimmed
<1> QED
    BY <1>1, <1>6, <1>7

\* What a rule counts in one place.
OnePlace(r, bag) ==
    \A x, y \in Records : bag[x] > 0 /\ bag[y] > 0 =>
        IF Window[r] = 0 THEN BatchOf[x] = BatchOf[y] ELSE Time[x] <= Time[y] + Window[r]
Sent(bag) ==
    \A x \in Records : bag[x] > 0 =>
        BatchOf[x] \in arrived /\ (bag[x] > 1 => rows[BatchOf[x]] > 1)

\* Some value reaches the threshold if the percentile does.
LEMMA PercentileWitness ==
    ASSUME NEW r \in Rules, NEW bag \in Bags, NEW S \in SUBSET Records, PercentileReached(r, S, bag)
    PROVE  \E x \in S : bag[x] > 0 /\ Value[x] >= Needed[r]
<1> SUFFICES ASSUME \A x \in S : bag[x] > 0 => ~(Value[x] >= Needed[r]) PROVE FALSE
    OBVIOUS
<1>1. Size(bag, S) > 0 /\ Size(bag, S) \in Nat
    BY SizeType DEF PercentileReached
<1>2. Below(S, Needed[r]) \in SUBSET Records
    BY DEF Below
<1>3. \A x \in S : bag[x] > 0 => x \in Below(S, Needed[r])
    BY EngineAssumption DEF Below
<1>4. Size(bag, S) <= Size(bag, Below(S, Needed[r])) /\ Size(bag, Below(S, Needed[r])) \in Nat
    BY <1>2, <1>3, SizeGrows, SizeType
<1>5. Percentile[r] \in 0..99 /\ Size(bag, S) - 1 \in Nat
    BY <1>1, EngineAssumption
<1>6. Percentile[r] * (Size(bag, S) - 1) \in Nat /\ Percentile[r] * (Size(bag, S) - 1) <= 99 * (Size(bag, S) - 1)
    BY <1>5, PositionBound
<1>7. 100 * (Size(bag, Below(S, Needed[r])) - 1) >= Percentile[r] * (Size(bag, S) - 1)
    BY <1>1, <1>4, <1>6
<1> QED
    BY <1>1, <1>7, PercentileMeaning

\* Evaluate triggers an alert only for records it was given.
LEMMA TriggerJustified ==
    ASSUME NEW r \in Rules, NEW bag \in Bags, OnePlace(r, bag), Sent(bag), NEW a \in Triggers(r, bag)
    PROVE  Justified(a)
<1>1. PICK g \in Groups : /\ a = <<r, g>>
                          /\ IF Percentile[r] = 0 THEN ReachesThreshold(r, MatchCount(r, g, bag))
                                                  ELSE PercentileReached(r, InGroup(r, g), bag)
    BY DEF Triggers
<1>2. PICK G \in SUBSET Records : G = InGroup(r, g)
    BY GroupRecords
<1>3. PICK S \in SUBSET Records : S = Present(bag, G)
    BY DEF Present
<1>4. \A x \in S : x \in G /\ bag[x] > 0
    BY <1>3 DEF Present
<1>5. \A x \in S : x \in InGroup(r, g) /\ BatchOf[x] \in arrived
    BY <1>2, <1>4 DEF Sent
<1>6. IF Window[r] = 0 THEN \A x, y \in S : BatchOf[x] = BatchOf[y]
                       ELSE \A x, y \in S : Time[x] <= Time[y] + Window[r]
    BY <1>4 DEF OnePlace
<1>7. CASE Percentile[r] = 0
    <2>1. Size(bag, G) >= Needed[r]
        BY <1>1, <1>2, <1>7 DEF ReachesThreshold, MatchCount
    <2>2. CASE \A x \in G : bag[x] <= 1
        <3>1. Size(bag, G) <= Cardinality(S)
            BY <1>3, <2>2, PresentAll
        <3>2. Size(bag, G) \in Nat /\ Needed[r] \in Nat
            BY SizeType, EngineAssumption
        <3>3. IsFiniteSet(S)
            BY FS_Subset, EngineAssumption
        <3>4. Cardinality(S) \in Nat
            BY <3>3, FS_CardinalityType
        <3>5. Cardinality(S) >= Needed[r]
            BY <2>1, <3>1, <3>2, <3>4
        <3> QED
            BY <1>1, <1>5, <1>6, <1>7, <3>5 DEF Justified, Justifies
    <2>3. CASE ~\A x \in G : bag[x] <= 1
        <3>1. PICK x \in G : ~(bag[x] <= 1)
            BY <2>3
        <3>2. bag[x] > 1 /\ bag[x] > 0
            BY <3>1 DEF Bags
        <3>3. x \in S /\ rows[BatchOf[x]] > 1
            BY <1>3, <3>2 DEF Present, Sent
        <3> QED
            BY <1>1, <1>5, <1>6, <1>7, <3>3 DEF Justified, Justifies
    <2> QED
        BY <2>2, <2>3
<1>8. CASE Percentile[r] # 0
    <2>1. PICK x \in G : bag[x] > 0 /\ Value[x] >= Needed[r]
        BY <1>1, <1>2, <1>8, PercentileWitness
    <2>2. x \in S
        BY <1>3, <2>1 DEF Present
    <2> QED
        BY <1>1, <1>5, <1>6, <1>8, <2>1, <2>2 DEF Justified, Justifies
<1> QED
    BY <1>7, <1>8

\* What most steps do to the batches and the triggers.
Grows == arrived \subseteq arrived' /\ \A x \in Records : rows[BatchOf[x]] > 1 => rows'[BatchOf[x]] > 1
NoneAdded ==
    /\ \A p \in Processors : ctriggers'[p] \subseteq ctriggers[p] /\ striggers'[p] \subseteq striggers[p]
    /\ \A a \in firing' : a \in firing \/ \E p \in Processors : a \in ctriggers[p] \cup striggers[p]

LEMMA NoneAddedJustified ==
    ASSUME JustifiedInv, Grows, NoneAdded
    PROVE  TriggersJustified' /\ FiringIsJustified'
<1>1. \A a : Justified(a) => Justified(a)'
    BY StaysJustified DEF Grows
<1>2. \A p \in Processors : \A a \in ctriggers[p] \cup striggers[p] : Justified(a)
    BY DEF JustifiedInv, TriggersJustified
<1>3. \A a \in firing : Justified(a)
    BY DEF JustifiedInv, FiringIsJustified, Justified
<1>4. \A p \in Processors : \A a \in ctriggers'[p] \cup striggers'[p] : Justified(a)'
    BY <1>1, <1>2 DEF NoneAdded
<1>5. \A a \in firing' : Justified(a)'
    BY <1>1, <1>2, <1>3 DEF NoneAdded
<1>6. TriggersJustified'
    BY <1>4 DEF TriggersJustified
<1>7. FiringIsJustified'
    BY <1>5 DEF FiringIsJustified, Justified
<1> QED
    BY <1>6, <1>7

\* A step that leaves the queries alone, or ends one.
QueriesKept ==
    \A p \in Processors :
        sstep'[p] = "evaluate" => /\ sstep[p] = "evaluate" /\ srule'[p] = srule[p]
                                  /\ found'[p] = found[p] /\ observedAt'[p] = observedAt[p]

LEMMA QueriesKeptInRange == ASSUME JustifiedInv, Grows, QueriesKept PROVE FoundInRange'
BY DEF JustifiedInv, FoundInRange, Grows, QueriesKept

LEMMA SameWindowsArrived ==
    ASSUME JustifiedInv, Grows, window' = window
    PROVE  WindowArrived'
BY DEF JustifiedInv, WindowArrived, Grows

LEMMA SameRowsArrived == ASSUME JustifiedInv, Grows, rows' = rows PROVE RowsArrived'
BY DEF JustifiedInv, RowsArrived, Grows

LEMMA ConsumerEnds ==
    ASSUME EngineInv, NEW p \in Processors, ConsumerDone(p)
    PROVE  \A q \in Processors : ctriggers'[q] \subseteq ctriggers[q]
BY DEF EngineInv, TypeOK, ConsumerDone

LEMMA SchedulerEnds ==
    ASSUME EngineInv, NEW p \in Processors, SchedulerDone(p)
    PROVE  QueriesKept /\ \A q \in Processors : striggers'[q] \subseteq striggers[q]
BY DEF EngineInv, TypeOK, SchedulerDone, QueriesKept

LEMMA JustifiedInit == Init => JustifiedInv
<1> SUFFICES ASSUME Init PROVE JustifiedInv
    OBVIOUS
<1>1. ~(0 > 0) /\ \A x \in Records : NoRecords[x] = 0
    BY DEF NoRecords
<1>2. RowsArrived
    BY <1>1 DEF Init, RowsArrived
<1>3. WindowArrived
    BY <1>1 DEF Init, WindowArrived
<1>4. FoundInRange /\ TriggersJustified /\ FiringIsJustified
    BY DEF Init, FoundInRange, TriggersJustified, FiringIsJustified
<1> QED
    BY <1>2, <1>3, <1>4 DEF JustifiedInv

\* The steps that neither evaluate nor write.
LEMMA QuietJustified ==
    ASSUME EngineInv, JustifiedInv, Grows, NoneAdded, QueriesKept, rows' = rows, window' = window
    PROVE  JustifiedInv'
BY NoneAddedJustified, QueriesKeptInRange, SameWindowsArrived, SameRowsArrived DEF JustifiedInv

LEMMA ArriveJustified ==
    ASSUME EngineInv, JustifiedInv, Tick \/ \E b \in Batches : Arrive(b)
    PROVE  JustifiedInv'
<1>1. Grows /\ NoneAdded /\ QueriesKept /\ rows' = rows /\ window' = window
    BY DEF Tick, Arrive, Grows, NoneAdded, QueriesKept, consumerVars, schedulerVars
<1> QED
    BY <1>1, QuietJustified

LEMMA DeliverJustified ==
    ASSUME EngineInv, JustifiedInv, NEW p \in Processors, NEW b \in Batches, Deliver(p, b)
    PROVE  JustifiedInv'
<1>1. Grows /\ NoneAdded /\ QueriesKept /\ rows' = rows /\ window' = window
    BY DEF Deliver, Grows, NoneAdded, QueriesKept, schedulerVars
<1> QED
    BY <1>1, QuietJustified

LEMMA WriteJustified ==
    ASSUME EngineInv, JustifiedInv, NEW p \in Processors, Write(p)
    PROVE  JustifiedInv'
<1>1. arrived' = arrived /\ window' = window /\ firing' = firing /\ UNCHANGED schedulerVars
    BY DEF Write
<1>2. QueriesKept
    BY <1>1 DEF QueriesKept, schedulerVars
<1>3. CASE UNCHANGED rows /\ ConsumerDone(p)
    <2>1. Grows
        BY <1>1, <1>3 DEF Grows
    <2>2. NoneAdded
        BY <1>1, <1>3, ConsumerEnds DEF NoneAdded, schedulerVars
    <2> QED
        BY <1>1, <1>2, <1>3, <2>1, <2>2, QuietJustified
<1>4. CASE ~(UNCHANGED rows /\ ConsumerDone(p))
    <2>1. /\ rows' = [rows EXCEPT ![cbatch[p]] = @ + 1] /\ cstep[p] = "write"
          /\ UNCHANGED <<cbatch, cbroken, ctriggers>>
        BY <1>4 DEF Write
    <2>2. cbatch[p] \in arrived /\ rows \in [Batches -> Nat] /\ cbatch[p] \in Batches
        BY <2>1 DEF EngineInv, TypeOK
    <2>3. \A b \in Batches : rows[b] \in Nat /\ rows'[b] = IF b = cbatch[p] THEN rows[b] + 1 ELSE rows[b]
        BY <2>1, <2>2
    <2>4. RowsArrived'
        BY <1>1, <2>2, <2>3 DEF JustifiedInv, RowsArrived
    <2>5. Grows
        <3>1. \A b \in Batches : rows[b] > 1 => rows'[b] > 1
            BY <2>3
        <3> QED
            BY <1>1, <3>1, EngineAssumption DEF Grows
    <2>6. NoneAdded
        BY <1>1, <2>1 DEF NoneAdded, schedulerVars
    <2> QED
        BY <1>1, <1>2, <2>4, <2>5, <2>6, NoneAddedJustified, QueriesKeptInRange, SameWindowsArrived
           DEF JustifiedInv
<1> QED
    BY <1>3, <1>4

LEMMA SyncBatchJustified ==
    ASSUME EngineInv, JustifiedInv, NEW p \in Processors, SyncBatch(p)
    PROVE  JustifiedInv'
<1>1. /\ arrived' = arrived /\ rows' = rows /\ window' = window /\ UNCHANGED schedulerVars
      /\ ConsumerDone(p) /\ firing' \in {firing, Synced(RulesOf[cbatch[p]], ctriggers[p])}
    BY DEF SyncBatch
<1>2. Grows /\ QueriesKept
    BY <1>1 DEF Grows, QueriesKept, schedulerVars
<1>3. \A a \in firing' : a \in firing \/ a \in ctriggers[p]
    BY <1>1 DEF Synced
<1>4. NoneAdded
    BY <1>1, <1>3, ConsumerEnds DEF NoneAdded, schedulerVars
<1> QED
    BY <1>1, <1>2, <1>4, QuietJustified

LEMMA StartEvaluationJustified ==
    ASSUME EngineInv, JustifiedInv, NEW p \in Processors, StartEvaluation(p)
    PROVE  JustifiedInv'
<1>1. Grows /\ NoneAdded /\ rows' = rows /\ window' = window
    BY DEF StartEvaluation, Grows, NoneAdded, consumerVars
<1>2. QueriesKept
    BY DEF EngineInv, TypeOK, StartEvaluation, QueriesKept
<1> QED
    BY <1>1, <1>2, QuietJustified

LEMMA EvaluationEndsJustified ==
    ASSUME EngineInv, JustifiedInv, NEW p \in Processors, SyncScheduled(p) \/ EvaluationFails(p)
    PROVE  JustifiedInv'
<1>1. /\ arrived' = arrived /\ rows' = rows /\ window' = window /\ UNCHANGED consumerVars
      /\ SchedulerDone(p) /\ firing' \in {firing, Synced(Evaluated, striggers[p])}
    BY DEF SyncScheduled, EvaluationFails
<1>2. Grows
    BY <1>1 DEF Grows
<1>3. \A a \in firing' : a \in firing \/ a \in striggers[p]
    BY <1>1 DEF Synced
<1>4. NoneAdded /\ QueriesKept
    BY <1>1, <1>3, SchedulerEnds DEF NoneAdded, consumerVars
<1> QED
    BY <1>1, <1>2, <1>4, QuietJustified

LEMMA RestartJustified ==
    ASSUME EngineInv, JustifiedInv, NEW p \in Processors, Restart(p)
    PROVE  JustifiedInv'
<1>1. arrived' = arrived /\ rows' = rows /\ firing' = firing /\ ConsumerDone(p) /\ SchedulerDone(p)
    BY DEF Restart
<1>2. Grows /\ NoneAdded /\ QueriesKept
    BY <1>1, ConsumerEnds, SchedulerEnds DEF Grows, NoneAdded
<1>3. \A q \in Processors, r \in Rules : window'[q][r] \in {window[q][r], NoRecords}
    BY DEF EngineInv, TypeOK, Restart
<1>4. ~(0 > 0) /\ \A x \in Records : NoRecords[x] = 0
    BY DEF NoRecords
<1>5. WindowArrived'
    BY <1>1, <1>3, <1>4 DEF JustifiedInv, WindowArrived
<1> QED
    BY <1>1, <1>2, <1>5, NoneAddedJustified, QueriesKeptInRange, SameRowsArrived DEF JustifiedInv

\* What Evaluate looks at was sent, if what it had and what it is given were.
LEMMA NextWindowSent ==
    ASSUME NEW r \in Rules, NEW win \in Bags, NEW recs \in Bags, Sent(win), Sent(recs)
    PROVE  Sent(NextWindow(r, win, recs))
<1> SUFFICES ASSUME NEW x \in Records, NextWindow(r, win, recs)[x] > 0
             PROVE  /\ BatchOf[x] \in arrived
                    /\ NextWindow(r, win, recs)[x] > 1 => rows[BatchOf[x]] > 1
    BY DEF Sent
<1>1. NextWindow(r, win, recs)[x] \in {0, win[x], recs[x]}
    BY NextWindowCount
<1>2. ~(0 > 0)
    OBVIOUS
<1>3. CASE NextWindow(r, win, recs)[x] = win[x]
    BY <1>3 DEF Sent
<1>4. CASE NextWindow(r, win, recs)[x] = recs[x]
    BY <1>4 DEF Sent
<1> QED
    BY <1>1, <1>2, <1>3, <1>4

LEMMA ViewJustified ==
    ASSUME NEW r \in Rules, NEW win \in Bags, NEW recs \in Bags, Sent(win), Sent(recs),
           Window[r] = 0 => \A x, y \in Records : recs[x] > 0 /\ recs[y] > 0 => BatchOf[x] = BatchOf[y],
           NEW a \in Triggers(r, InView(r, win, recs))
    PROVE  Justified(a)
<1>1. CASE Window[r] = 0
    <2>1. InView(r, win, recs) = recs
        BY <1>1 DEF InView
    <2>2. OnePlace(r, recs)
        BY <1>1 DEF OnePlace
    <2> QED
        BY <2>1, <2>2, TriggerJustified
<1>2. CASE Window[r] # 0
    <2>1. r \in Evaluated
        BY <1>2, EngineAssumption DEF Evaluated
    <2>2. PICK bag \in Bags : bag = NextWindow(r, win, recs)
        BY NextWindowType
    <2>3. InView(r, win, recs) = bag
        BY <1>2, <2>2 DEF InView
    <2>4. OnePlace(r, bag)
        BY <1>2, <2>1, <2>2, NextWindowFits DEF OnePlace
    <2>5. Sent(bag)
        BY <2>2, NextWindowSent
    <2> QED
        BY <2>3, <2>4, <2>5, TriggerJustified
<1> QED
    BY <1>1, <1>2

LEMMA WindowSent ==
    ASSUME EngineInv, JustifiedInv, NEW p \in Processors, NEW r \in Rules
    PROVE  window[p][r] \in Bags /\ Sent(window[p][r])
BY DEF EngineInv, TypeOK, Bags, CountedOnce, JustifiedInv, WindowArrived, Sent

LEMMA BatchSent ==
    ASSUME NEW b \in arrived, b \in Batches
    PROVE  BatchBag(b) \in Bags /\ Sent(BatchBag(b))
<1>1. BatchBag(b) \in Bags
    BY BagTypes
<1>2. \A x \in Records : BatchBag(b)[x] > 0 => BatchOf[x] = b /\ ~(BatchBag(b)[x] > 1)
    BY DEF BatchBag
<1> QED
    BY <1>1, <1>2 DEF Sent

LEMMA FoundSent ==
    ASSUME EngineInv, JustifiedInv, NEW p \in Processors, sstep[p] = "evaluate"
    PROVE  found[p] \in Bags /\ Sent(found[p])
BY DEF EngineInv, TypeOK, Bags, FoundOnce, JustifiedInv, FoundInRange, Sent

LEMMA EvaluateBatchJustified ==
    ASSUME EngineInv, JustifiedInv, NEW p \in Processors, EvaluateBatch(p)
    PROVE  JustifiedInv'
<1>1. PICK b \in Batches : b = cbatch[p] /\ b \in arrived
    BY DEF EngineInv, TypeOK, EvaluateBatch
<1>2. arrived' = arrived /\ rows' = rows /\ firing' = firing /\ UNCHANGED schedulerVars
    BY DEF EvaluateBatch
<1>3. Grows /\ QueriesKept
    BY <1>2 DEF Grows, QueriesKept, schedulerVars
<1>4. BatchBag(b) \in Bags /\ Sent(BatchBag(b))
    BY <1>1, BatchSent
<1>5. \A r \in Rules : Sent(window[p][r]) /\ Sent(NextWindow(r, window[p][r], BatchBag(b)))
    BY <1>4, WindowSent, NextWindowSent
<1>6. WindowArrived'
    <2> SUFFICES ASSUME NEW q \in Processors, NEW r \in Rules, NEW x \in Records, window'[q][r][x] > 0
                 PROVE  BatchOf[x] \in arrived
        BY <1>2 DEF WindowArrived
    <2>1. \/ window'[q][r] = window[q][r]
          \/ window'[q][r] = NextWindow(r, window[p][r], BatchBag(b))
        BY <1>1 DEF EngineInv, TypeOK, EvaluateBatch
    <2>2. CASE window'[q][r] = window[q][r]
        BY <2>2 DEF JustifiedInv, WindowArrived
    <2>3. CASE window'[q][r] = NextWindow(r, window[p][r], BatchBag(b))
        BY <1>5, <2>3 DEF Sent
    <2> QED
        BY <2>1, <2>2, <2>3
<1>7. TriggersJustified' /\ FiringIsJustified'
    <2>1. CASE cbroken[p] # {} /\ ConsumerDone(p)
        <3>1. NoneAdded
            BY <1>2, <2>1, ConsumerEnds DEF NoneAdded, schedulerVars
        <3> QED
            BY <1>3, <3>1, NoneAddedJustified
    <2>2. CASE ~(cbroken[p] # {} /\ ConsumerDone(p))
        <3>1. ctriggers' = [ctriggers EXCEPT ![p] =
                 UNION {Triggers(r, InView(r, window[p][r], BatchBag(b))) : r \in RulesOf[b]}]
            BY <1>1, <2>2 DEF EvaluateBatch
        <3>2. \A a \in ctriggers'[p] : Justified(a)
            <4>1. SUFFICES ASSUME NEW r \in RulesOf[b], NEW a \in Triggers(r, InView(r, window[p][r], BatchBag(b)))
                           PROVE  Justified(a)
                BY <3>1 DEF EngineInv, TypeOK
            <4>2. r \in Rules
                BY EngineAssumption
            <4>3. \A x, y \in Records : BatchBag(b)[x] > 0 /\ BatchBag(b)[y] > 0 => BatchOf[x] = BatchOf[y]
                BY DEF BatchBag
            <4> QED
                BY <1>4, <1>5, <4>2, <4>3, WindowSent, ViewJustified
        <3>3. \A q \in Processors : q # p => ctriggers'[q] = ctriggers[q]
            BY <3>1 DEF EngineInv, TypeOK
        <3>4. \A q \in Processors : \A a \in ctriggers'[q] \cup striggers[q] : Justified(a)
            BY <3>2, <3>3 DEF JustifiedInv, TriggersJustified
        <3>5. \A a : Justified(a) => Justified(a)'
            BY <1>3, StaysJustified DEF Grows
        <3>6. TriggersJustified'
            BY <1>2, <3>4, <3>5 DEF TriggersJustified, schedulerVars
        <3>7. FiringIsJustified'
            BY <1>2, <3>5 DEF JustifiedInv, FiringIsJustified, Justified
        <3> QED
            BY <3>6, <3>7
    <2> QED
        BY <2>1, <2>2
<1> QED
    BY <1>2, <1>3, <1>6, <1>7, QueriesKeptInRange, SameRowsArrived DEF JustifiedInv

LEMMA QueryRuleJustified ==
    ASSUME EngineInv, JustifiedInv, NEW p \in Processors, QueryRule(p)
    PROVE  JustifiedInv'
<1>1. /\ arrived' = arrived /\ rows' = rows /\ window' = window /\ firing' = firing
      /\ UNCHANGED <<consumerVars, sbroken, observedAt, striggers>>
    BY DEF QueryRule
<1>2. Grows /\ NoneAdded
    BY <1>1 DEF Grows, NoneAdded, consumerVars
<1>3. CASE srule[p] \in Rules /\ Window[srule[p]] > 0
    <2>1. PICK r \in Evaluated : r = srule[p]
        BY <1>3 DEF Evaluated
    <2>2. PICK at : at = observedAt[p]
        OBVIOUS
    <2>3. r \in Rules /\ Window[r] # 0
        BY <1>3, <2>1, EngineAssumption
    <2>4. /\ sstep' = [sstep EXCEPT ![p] = "evaluate"] /\ srule' = srule
          /\ \E bag \in Newest(InRange(r, at)) : found' = [found EXCEPT ![p] = bag]
        BY <2>1, <2>2, <2>3 DEF QueryRule
    <2>5. PICK bag \in Newest(InRange(r, at)) : found' = [found EXCEPT ![p] = bag]
        BY <2>4
    <2>6. InRange(r, at) \in Bags
        BY <2>3, InRangeType DEF EngineInv
    <2>7. bag \in Bags /\ \A x \in Records : bag[x] <= InRange(r, at)[x]
        BY <2>6, NewestType
    <2>8. ASSUME NEW x \in Records, bag[x] > 0
          PROVE  BatchOf[x] \in arrived /\ Time[x] < at /\ at <= Time[x] + Window[r]
        <3>1. InRange(r, at)[x] > 0
            BY <2>6, <2>7, <2>8 DEF Bags
        <3>2. ~(0 > 0)
            OBVIOUS
        <3>3. Time[x] < at /\ at <= Time[x] + Window[r] /\ rows[BatchOf[x]] > 0
            BY <3>1, <3>2 DEF InRange
        <3>4. BatchOf[x] \in Batches
            BY EngineAssumption
        <3> QED
            BY <3>3, <3>4 DEF JustifiedInv, RowsArrived
    <2>9. found'[p] = bag /\ \A q \in Processors : q # p => found'[q] = found[q] /\ sstep'[q] = sstep[q]
        BY <2>4, <2>5 DEF EngineInv, TypeOK
    <2>10. FoundInRange'
        BY <1>1, <2>1, <2>2, <2>4, <2>8, <2>9 DEF JustifiedInv, FoundInRange
    <2> QED
        BY <1>1, <1>2, <2>10, NoneAddedJustified, SameWindowsArrived, SameRowsArrived DEF JustifiedInv
<1>4. CASE ~(srule[p] \in Rules /\ Window[srule[p]] > 0)
    <2>1. sstep[p] = "query" /\ found' = found /\ observedAt' = observedAt
          /\ \/ sstep' = sstep
             \/ sstep' = [sstep EXCEPT ![p] = "sync"] /\ srule' = srule
          /\ \A q \in Processors : q # p => srule'[q] = srule[q]
        BY <1>4 DEF QueryRule, EngineInv, TypeOK
    <2>2. QueriesKept
        BY <2>1 DEF EngineInv, TypeOK, QueriesKept
    <2> QED
        BY <1>1, <1>2, <2>2, QuietJustified
<1> QED
    BY <1>3, <1>4

LEMMA EvaluateRuleJustified ==
    ASSUME EngineInv, JustifiedInv, NEW p \in Processors, EvaluateRule(p)
    PROVE  JustifiedInv'
<1>1. sstep[p] = "evaluate"
    BY DEF EvaluateRule
<1>2. PICK r \in Evaluated : r = srule[p]
    BY <1>1 DEF JustifiedInv, FoundInRange
<1>3. r \in Rules /\ Window[r] # 0
    BY EngineAssumption DEF Evaluated
<1>4. arrived' = arrived /\ rows' = rows /\ firing' = firing /\ UNCHANGED consumerVars
    BY DEF EvaluateRule
<1>5. Grows
    BY <1>4 DEF Grows
<1>6. found[p] \in Bags /\ Sent(found[p]) /\ window[p][r] \in Bags /\ Sent(window[p][r])
    BY <1>1, <1>3, FoundSent, WindowSent
<1>7. PICK new : new = NextWindow(r, window[p][r], found[p])
    OBVIOUS
<1>8. Sent(new)
    BY <1>3, <1>6, <1>7, NextWindowSent
<1>9. WindowArrived'
    <2>1. window' = [window EXCEPT ![p][r] = new]
        BY <1>2, <1>7 DEF EvaluateRule
    <2>2. \A q \in Processors, s \in Rules : window'[q][s] = window[q][s] \/ window'[q][s] = new
        BY <2>1 DEF EngineInv, TypeOK
    <2> QED
        BY <1>4, <1>8, <2>2 DEF JustifiedInv, WindowArrived, Sent
<1>10. CASE r \in sbroken[p] /\ SchedulerDone(p)
    <2>1. NoneAdded /\ QueriesKept
        BY <1>4, <1>10, SchedulerEnds DEF NoneAdded, consumerVars
    <2> QED
        BY <1>4, <1>5, <1>9, <2>1, NoneAddedJustified, QueriesKeptInRange, SameRowsArrived DEF JustifiedInv
<1>11. CASE ~(r \in sbroken[p] /\ SchedulerDone(p))
    <2>1. /\ striggers' = [striggers EXCEPT ![p] = @ \cup Triggers(r, InView(r, window[p][r], found[p]))]
          /\ found' = [found EXCEPT ![p] = NoRecords]
          /\ srule' = [srule EXCEPT ![p] = r + 1]
          /\ sstep' = [sstep EXCEPT ![p] = "query"]
          /\ UNCHANGED <<sbroken, observedAt>>
        BY <1>2, <1>11 DEF EvaluateRule, NextRule
    <2>2. \A a \in Triggers(r, InView(r, window[p][r], found[p])) : Justified(a)
        BY <1>3, <1>6, ViewJustified
    <2>3. striggers'[p] = striggers[p] \cup Triggers(r, InView(r, window[p][r], found[p]))
        BY <2>1 DEF EngineInv, TypeOK
    <2>4. \A q \in Processors : q # p => striggers'[q] = striggers[q]
        BY <2>1 DEF EngineInv, TypeOK
    <2>5. \A q \in Processors : \A a \in ctriggers[q] \cup striggers'[q] : Justified(a)
        BY <2>2, <2>3, <2>4 DEF JustifiedInv, TriggersJustified
    <2>6. \A a : Justified(a) => Justified(a)'
        BY <1>5, StaysJustified DEF Grows
    <2>7. TriggersJustified'
        BY <1>4, <2>5, <2>6 DEF TriggersJustified, consumerVars
    <2>8. FiringIsJustified'
        BY <1>4, <2>6 DEF JustifiedInv, FiringIsJustified, Justified
    <2>9. QueriesKept
        BY <2>1 DEF EngineInv, TypeOK, QueriesKept
    <2> QED
        BY <1>4, <1>5, <1>9, <2>7, <2>8, <2>9, QueriesKeptInRange, SameRowsArrived DEF JustifiedInv
<1> QED
    BY <1>10, <1>11

LEMMA JustifiedNext ==
    ASSUME EngineInv, JustifiedInv, [Next]_vars
    PROVE  JustifiedInv'
<1>1. CASE Tick \/ \E b \in Batches : Arrive(b)
    BY <1>1, ArriveJustified
<1>2. ASSUME NEW p \in Processors, NEW b \in Batches, Deliver(p, b) PROVE JustifiedInv'
    BY <1>2, DeliverJustified
<1>3. ASSUME NEW p \in Processors, EvaluateBatch(p) \/ Write(p) \/ SyncBatch(p) PROVE JustifiedInv'
    BY <1>3, EvaluateBatchJustified, WriteJustified, SyncBatchJustified
<1>4. ASSUME NEW p \in Processors, StartEvaluation(p) \/ QueryRule(p) \/ EvaluateRule(p)
      PROVE  JustifiedInv'
    BY <1>4, StartEvaluationJustified, QueryRuleJustified, EvaluateRuleJustified
<1>5. ASSUME NEW p \in Processors, SyncScheduled(p) \/ EvaluationFails(p) PROVE JustifiedInv'
    BY <1>5, EvaluationEndsJustified
<1>6. ASSUME NEW p \in Processors, Restart(p) PROVE JustifiedInv'
    BY <1>6, RestartJustified
<1>7. CASE UNCHANGED vars
    <2>1. Grows /\ NoneAdded /\ QueriesKept /\ rows' = rows /\ window' = window
        BY <1>7 DEF vars, Grows, NoneAdded, QueriesKept
    <2> QED
        BY <2>1, QuietJustified
<1> QED
    BY <1>1, <1>2, <1>3, <1>4, <1>5, <1>6, <1>7 DEF Next

LEMMA JustifiedInvariant == Spec => []JustifiedInv
<1>1. EngineInv /\ JustifiedInv /\ [Next]_vars => JustifiedInv'
    BY JustifiedNext
<1> QED
    BY <1>1, JustifiedInit, EngineInvariant, PTL DEF Spec

\* handleBatchWithEvaluator and RunScheduledAlertEvaluation, of any number of
\* processors that restart at any time, make an alert fire only for logs of its
\* group that were really sent and lie within one window (or one batch): enough
\* different ones, or one that ClickHouse holds twice, for a counting rule, and
\* one that reaches the threshold for a percentile rule.
THEOREM JustifiedSafe == Spec => []FiringIsJustified
<1>1. JustifiedInv => FiringIsJustified
    BY DEF JustifiedInv
<1> QED
    BY <1>1, JustifiedInvariant, PTL

-----------------------------------------------------------------------------
(* What a scheduled evaluation finds, it reports.                          *)

\* A window that holds whole batches of what the query returned, and nothing
\* newer, keeps all of it.
LEMMA FoundStays ==
    ASSUME NEW r \in Evaluated, NEW win \in Bags, NEW recs \in Bags, NEW at \in Nat,
           \A x \in Records : win[x] > 0 => Time[x] < at,
           \A x \in Records : recs[x] > 0 => Time[x] < at /\ at <= Time[x] + Window[r],
           \A x \in Records : recs[x] > 0 /\ BatchOf[x] \in IngestIDs(win) => win[x] > 0,
           NEW x \in Records, recs[x] > 0
    PROVE  NextWindow(r, win, recs)[x] > 0
<1>1. r \in Rules /\ Window[r] # 0 /\ Window[r] \in Nat /\ \A y \in Records : Time[y] \in Nat
    BY EngineAssumption DEF Evaluated
<1>2. PICK bag : bag = Combined(win, recs)
    OBVIOUS
<1>3. \A y \in Records : bag[y] = win[y] + IF BatchOf[y] \in IngestIDs(win) THEN 0 ELSE recs[y]
    BY <1>2 DEF Combined
<1>4. \A y \in Records : win[y] \in Nat /\ recs[y] \in Nat
    BY DEF Bags
<1>5. bag[x] > 0
    BY <1>3, <1>4
<1>6. ASSUME NEW y \in Records, bag[y] > 0 PROVE Time[x] + Window[r] >= Time[y]
    <2>1. win[y] > 0 \/ recs[y] > 0
        BY <1>3, <1>4, <1>6
    <2>2. Time[y] < at /\ at <= Time[x] + Window[r]
        BY <2>1
    <2>3. Time[x] \in Nat /\ Time[y] \in Nat
        BY <1>1
    <2> QED
        BY <1>1, <2>2, <2>3
<1>7. NextWindow(r, win, recs) = Trimmed(r, bag)
    BY <1>1, <1>2 DEF NextWindow
<1>8. Trimmed(r, bag)[x] = bag[x]
    BY <1>6 DEF Trimmed
<1> QED
    BY <1>5, <1>7, <1>8

\* Which step reports what a query found.
LEMMA ReportStep ==
    ASSUME EngineInv, [Next]_vars, NEW p \in Processors, sstep[p] = "evaluate", sstep'[p] = "query"
    PROVE  /\ srule[p] \in Rules
           /\ Triggers(srule[p], InView(srule[p], window[p][srule[p]], found[p])) \subseteq striggers'[p]
<1>1. \A q \in Processors : SchedulerDone(q) => sstep'[p] # "query"
    BY DEF EngineInv, TypeOK, SchedulerDone
<1>2. sstep' # sstep
    BY DEF EngineInv, TypeOK
<1>3. PICK q \in Processors : StartEvaluation(q) \/ QueryRule(q) \/ EvaluateRule(q)
    BY <1>1, <1>2 DEF Next, vars, Tick, Arrive, Deliver, EvaluateBatch, Write, SyncBatch, SyncScheduled,
                      EvaluationFails, Restart, schedulerVars
<1>4. q = p /\ EvaluateRule(p)
    BY <1>3 DEF EngineInv, TypeOK, StartEvaluation, QueryRule, EvaluateRule, SchedulerDone
<1>5. striggers' = [striggers EXCEPT ![p] =
          @ \cup Triggers(srule[p], InView(srule[p], window[p][srule[p]], found[p]))]
    BY <1>1, <1>4 DEF EvaluateRule
<1> QED
    BY <1>5 DEF EngineInv, TypeOK, SchedulerAhead

LEMMA FoundStep ==
    ASSUME EngineInv, JustifiedInv, [Next]_vars, NEW p \in Processors, NEW g \in Groups,
           sstep[p] = "evaluate", sstep'[p] = "query", Percentile[srule[p]] = 0,
           \A x \in Records : window[p][srule[p]][x] > 0 => Time[x] < observedAt[p],
           WholeBatches(p, srule[p]),
           Cardinality(FoundIn(p, srule[p], g)) >= Needed[srule[p]]
    PROVE  <<srule[p], g>> \in striggers'[p]
<1>1. PICK r \in Evaluated : r = srule[p]
    BY DEF JustifiedInv, FoundInRange
<1>2. r \in Rules /\ Window[r] # 0
    BY EngineAssumption DEF Evaluated
<1>3. window[p][r] \in Bags /\ found[p] \in Bags /\ observedAt[p] \in Nat
    BY <1>2, EngineAssumption DEF EngineInv, TypeOK, Bags
<1>4. PICK new \in Bags : new = NextWindow(r, window[p][r], found[p])
    BY <1>2, <1>3, NextWindowType
<1>5. \A x \in Records : found[p][x] > 0 => Time[x] < observedAt[p] /\ observedAt[p] <= Time[x] + Window[r]
    BY <1>1 DEF JustifiedInv, FoundInRange
<1>6. \A x \in Records : found[p][x] > 0 => new[x] > 0
    BY <1>1, <1>3, <1>4, <1>5, FoundStays DEF WholeBatches
<1>7. PICK G \in SUBSET Records : G = InGroup(r, g)
    BY <1>2, GroupRecords
<1>8. FoundIn(p, r, g) \subseteq Present(new, G)
    BY <1>6, <1>7 DEF FoundIn, Present
<1>9. IsFiniteSet(Present(new, G))
    BY FS_Subset, EngineAssumption DEF Present
<1>10. /\ Cardinality(FoundIn(p, r, g)) <= Cardinality(Present(new, G))
       /\ Cardinality(FoundIn(p, r, g)) \in Nat /\ Cardinality(Present(new, G)) \in Nat
    BY <1>8, <1>9, FS_Subset, FS_CardinalityType
<1>11. Cardinality(Present(new, G)) <= Size(new, G) /\ Size(new, G) \in Nat
    BY PresentFew, SizeType
<1>12. Needed[r] \in Nat /\ Cardinality(FoundIn(p, r, g)) >= Needed[r]
    BY <1>1, <1>2, EngineAssumption
<1>13. Size(new, G) >= Needed[r]
    BY <1>10, <1>11, <1>12
<1>14. InView(r, window[p][r], found[p]) = new
    BY <1>2, <1>4 DEF InView
<1>15. <<r, g>> \in Triggers(r, new)
    BY <1>1, <1>7, <1>13 DEF Triggers, ReachesThreshold, MatchCount
<1> QED
    BY <1>1, <1>14, <1>15, ReportStep

\* A scheduled evaluation of a counting rule triggers whenever its query
\* returned enough records of a group, whatever batches the engine of the
\* processor took in before, if it holds those batches whole and nothing newer.
THEOREM FoundTriggersSafe == Spec => FoundRecordsTrigger
<1>1. ASSUME EngineInv, JustifiedInv, [Next]_vars
      PROVE  [\A p \in Processors, g \in Groups :
                /\ sstep[p] = "evaluate" /\ sstep'[p] = "query"
                /\ Percentile[srule[p]] = 0
                /\ \A x \in Records : window[p][srule[p]][x] > 0 => Time[x] < observedAt[p]
                /\ WholeBatches(p, srule[p])
                /\ Cardinality(FoundIn(p, srule[p], g)) >= Needed[srule[p]]
                => <<srule[p], g>> \in striggers'[p]]_vars
    BY <1>1, FoundStep
<1> QED
    BY <1>1, EngineInvariant, JustifiedInvariant, PTL DEF Spec, FoundRecordsTrigger
=============================================================================
