----------------------------- MODULE PagedReads -----------------------------
(***************************************************************************)
(* The list endpoints of query-api, read page by page with LIMIT and       *)
(* OFFSET while the data changes: /v1/logs (also as a stream), /v1/graph   *)
(* and /v1/analytics over the sharded ClickHouse table, /v1/alerts/history,*)
(* /audit and /deliveries over Postgres.                                   *)
(*                                                                         *)
(* One walk is modelled: reads do not disturb each other.  Its client      *)
(* follows next_offset to the end.  An item is a log row, a group of an    *)
(* analytics answer, an alert instance, an audit entry or a delivery that  *)
(* matches the request (tenant, time range, tags); key is the column it is *)
(* sorted by and open says whether its status matches a status filter.     *)
(* All rows of a tenant are on one shard (cityHash64(tenant_id)), and      *)
(* query-api is configured with the shards' addresses; without them it     *)
(* never calls an answer partial.                                          *)
(***************************************************************************)
EXTENDS Naturals, Sequences, FiniteSets, SequencesExt

CONSTANTS
    MaxItems,    \* bound: items; ids are given in the order of creation
    MaxKey,      \* bound: values of the sort column
    Limits,      \* page sizes a client may ask for
    MaxOffset,   \* maxOffset
    Shards, Home \* the shards, and the one that has the tenant's rows

ASSUME ReadsAssumption ==
    /\ MaxItems \in Nat /\ MaxKey \in Nat \ {0} /\ MaxOffset \in Nat
    /\ Limits \subseteq Nat \ {0}
    /\ Home \in Shards

Ids == 1..MaxItems
Sharded == {"logs", "stream", "graph", "analytics"}
History == {"alerts", "audit", "deliveries"}
Paged == {"logs"} \cup History
Modes == Sharded \cup History
\* Those with a status filter; an alert's last_fired_at changes as well.
Stateful == {"alerts", "deliveries"}
NoReply == [ok |-> FALSE, count |-> 0, partial |-> FALSE, flagged |-> FALSE]

VARIABLES
    items,      \* id -> [key, open], for the items created so far
    up,         \* the shards that answer a probe
    linked,     \* the coordinator reaches the tenant's shard
    mode, filtered, limit, offset,   \* the request
    phase,      \* what the handler does next
    partial,    \* what the probe of this request found
    got,        \* everything the walk has returned
    reply,      \* the last answer
    \* history
    present,    \* the items the walk would have listed when it began
    stirred,    \* items whose key or status has changed since
    grown,      \* an item has come, or has moved up
    retreated,  \* an item has left, or has moved down
    tied,       \* the order of two items was open
    dark,       \* a query was answered without the tenant's shard
    shifted,    \* the shards changed between the probe and the query
    blind,      \* the query missed a shard that the probe could reach
    cut,        \* the walk ended at MaxOffset
    beyond      \* how many rows there were behind the last answer

request == <<mode, filtered, limit>>
shardVars == <<up, linked>>
server == <<offset, phase, partial, got, reply>>
causes == <<present, stirred, grown, retreated, tied>>
outcome == <<dark, blind, cut, beyond>>
vars == <<items, shardVars, request, server, causes, shifted, outcome>>

TypeOK ==
    /\ items \in UNION {[1..n -> [key : 1..MaxKey, open : BOOLEAN]] : n \in 0..MaxItems}
    /\ up \subseteq Shards /\ linked \in BOOLEAN /\ (linked => Home \in up)
    /\ mode \in Modes /\ filtered \in BOOLEAN /\ limit \in Limits
    /\ offset \in 0..MaxOffset
    /\ phase \in {"idle", "ask", "query"}
    /\ partial \in BOOLEAN
    /\ got \in Seq(Ids)
    /\ reply \in [ok : BOOLEAN, count : Nat, partial : BOOLEAN, flagged : BOOLEAN]
    /\ present \subseteq Ids /\ stirred \subseteq Ids
    /\ {grown, retreated, tied, dark, shifted, blind, cut} \subseteq BOOLEAN
    /\ beyond \in 0..MaxItems

\* The rows the WHERE clause lets through; only the history has a status.
Matching == {i \in DOMAIN items : filtered => items[i].open}

Init ==
    /\ items \in UNION {[1..n -> [key : 1..MaxKey, open : BOOLEAN]] : n \in 0..MaxItems}
    /\ up = Shards /\ linked = TRUE
    /\ mode = "logs" /\ filtered = FALSE /\ limit \in Limits /\ offset = 0
    /\ phase = "idle" /\ partial = FALSE /\ got = <<>> /\ reply = NoReply
    /\ present = {} /\ stirred = {} /\ grown = FALSE /\ retreated = FALSE /\ tied = FALSE
    /\ shifted = FALSE /\ dark = FALSE /\ blind = FALSE /\ cut = FALSE /\ beyond = 0

-----------------------------------------------------------------------------
(* Plausible slips in the code modelled below.                             *)

\* The id is left out of ORDER BY.
SlipNoTiebreak == {p \in Matching \X Matching : items[p[1]].key > items[p[2]].key}
\* Partial only if no shard answers.
SlipPartial(unavailable) == unavailable = Shards

-----------------------------------------------------------------------------
(* The store and the data.                                                 *)

\* The ORDER BY clauses, as the pairs they put in order.  Newest (largest)
\* first; a graph is built from the oldest records; only the history breaks
\* ties, by an id: a number, or the text of audit_id.  Ids stand for any total
\* order; Arrive gives them in the order of creation, at any place among the keys.
LogOrder == {p \in Matching \X Matching : items[p[1]].key > items[p[2]].key}
GraphOrder == {p \in Matching \X Matching : items[p[1]].key < items[p[2]].key}
AnalyticsOrder == {p \in Matching \X Matching : items[p[1]].key > items[p[2]].key}
HistoryOrder ==
    {p \in Matching \X Matching : LET i == p[1] j == p[2] IN
        items[i].key > items[j].key \/ (items[i].key = items[j].key /\ i > j)}

\* The answers LIMIT n OFFSET o may give: what the order leaves open is open.
Windows(order, n, o) ==
    {SubSeq(s, o + 1, IF o + n < Len(s) THEN o + n ELSE Len(s)) :
        s \in {t \in SetToSeqs(Matching) : \A a, b \in DOMAIN t : a < b => <<t[b], t[a]>> \notin order}}

HasTies == mode \notin History /\ \E i, j \in Matching : i # j /\ items[i].key = items[j].key
Walking == phase # "idle"

\* A row is written: logs come with any timestamp, and the NOW() of a
\* transaction can be older than rows that were committed before it.
Arrive(k) ==
    /\ Walking /\ Len(items) < MaxItems
    /\ items' = Append(items, [key |-> k, open |-> TRUE])
    /\ grown' = TRUE
    /\ UNCHANGED <<shardVars, request, server, present, stirred, retreated, tied, shifted, outcome>>

\* SyncAlertState sets last_fired_at, forward or (a delayed batch) back, and
\* the status; of a delivery only the status changes.  The TTL that
\* removes log rows after 30 days is left out; a row that goes would count as
\* retreated.
Change(i, k, open) ==
    /\ Walking /\ mode \in Stateful
    /\ mode = "deliveries" => k = items[i].key
    /\ [key |-> k, open |-> open] # items[i]
    /\ items' = [items EXCEPT ![i] = [key |-> k, open |-> open]]
    /\ stirred' = stirred \cup {i}
    /\ grown' = (grown \/ k > items[i].key \/ (filtered /\ open))
    /\ retreated' = (retreated \/ k < items[i].key \/ (filtered /\ ~open))
    /\ UNCHANGED <<shardVars, request, server, present, tied, shifted, outcome>>

\* A shard, or the coordinator's way to it, fails or comes back.
Shift(u, l) ==
    /\ Walking /\ mode \in Sharded
    /\ <<u, l>> # <<up, linked>> /\ (l => Home \in u)
    /\ up' = u /\ linked' = l
    /\ shifted' = (shifted \/ phase = "query")
    /\ UNCHANGED <<items, request, server, causes, outcome>>

-----------------------------------------------------------------------------
(* The handlers.                                                           *)

Begin(m, f, n) ==
    /\ phase = "idle" /\ phase' = "ask"
    /\ mode' = m /\ filtered' = f /\ limit' = n /\ offset' = 0
    /\ present' = {i \in DOMAIN items : f => items[i].open}
    /\ partial' = FALSE /\ got' = <<>> /\ reply' = NoReply
    /\ stirred' = {} /\ grown' = FALSE /\ retreated' = FALSE /\ tied' = FALSE
    /\ shifted' = FALSE /\ dark' = FALSE /\ blind' = FALSE /\ cut' = FALSE /\ beyond' = 0
    /\ UNCHANGED <<items, shardVars>>

\* The first request of a walk, when its parameters are valid.
parseQueryFilter(n) == \E m \in {"logs", "stream"} : Begin(m, FALSE, n)
parseGraphQuery(n) == Begin("graph", FALSE, n)
parseAnalyticsQuery(n) == Begin("analytics", FALSE, n)
parseAlertHistoryQuery(n) == \E m \in History, f \in BOOLEAN : (f => m \in Stateful) /\ Begin(m, f, n)

\* ClusterStatus.Partial
Partial(unavailable) == unavailable # {}

\* clusterStatus asks every shard for at most a second; one that is slow
\* counts as unavailable.  Postgres is not probed.
Probe ==
    /\ phase = "ask" /\ phase' = "query"
    /\ offset <= MaxOffset
    /\ IF mode \in Sharded
       THEN \E slow \in SUBSET up : partial' = Partial((Shards \ up) \cup slow)
       ELSE partial' = FALSE
    /\ shifted' = FALSE
    /\ UNCHANGED <<items, shardVars, request, offset, got, reply, causes, outcome>>

\* What the stores may return.  With skip_unavailable_shards the rows of a
\* shard the coordinator cannot reach are simply absent.  A graph asks for one
\* row more to know of truncation.
Reached(answers) == IF linked THEN answers ELSE {<<>>}
QueryLogs == Reached(Windows(LogOrder, limit, offset))
QueryGraphRecords == Reached(Windows(GraphOrder, limit + 1, 0))
QueryAnalytics == Reached(Windows(AnalyticsOrder, limit, 0))
QueryAlertHistory == Windows(HistoryOrder, limit, offset)

\* The answer is written.  flagged: next_offset, truncated, or the error line
\* of a stream tell the client that there is more.
Respond(rows, flag) ==
    /\ reply' = [ok |-> TRUE, count |-> Len(rows), partial |-> partial, flagged |-> flag]
    /\ got' = got \o rows
    /\ partial' = FALSE
    /\ beyond' = IF Cardinality(Matching) > offset + Len(rows)
                 THEN Cardinality(Matching) - offset - Len(rows) ELSE 0
    /\ dark' = (dark \/ (mode \in Sharded /\ ~linked))
    /\ blind' = (mode \in Sharded /\ Home \in up /\ ~linked)
    /\ tied' = (tied \/ HasTies)
    /\ UNCHANGED <<items, shardVars, request, present, stirred, grown, retreated, shifted>>

End == phase' = "idle" /\ offset' = 0

Page(rows, more) ==
    /\ Respond(rows, more)
    /\ IF more THEN phase' = "ask" /\ offset' = offset + limit ELSE End
    /\ cut' = (Len(rows) = limit /\ ~more)

\* Is there a next_offset after a page of n rows?
nextOffset(n) == n = limit /\ offset + limit <= MaxOffset
ServeLogs ==
    /\ phase = "query" /\ mode = "logs"
    /\ \E rows \in QueryLogs : Page(rows, nextOffset(Len(rows)))

historyNextOffset(n) == ~(n # limit \/ offset + limit > MaxOffset)
ServeHistory ==
    /\ phase = "query" /\ mode \in History
    /\ \E rows \in QueryAlertHistory : Page(rows, historyNextOffset(Len(rows)))

\* buildServiceGraph gets the oldest Limit records.
ServeGraph ==
    /\ phase = "query" /\ mode = "graph"
    /\ \E rows \in QueryGraphRecords : LET truncated == Len(rows) > limit IN
          Respond(IF truncated THEN SubSeq(rows, 1, limit) ELSE rows, truncated)
    /\ End /\ UNCHANGED cut

\* LIMIT cuts the groups off without a word.  (Without GROUP BY the answer is
\* one row whatever happens; that case is left out.)
ServeAnalytics ==
    /\ phase = "query" /\ mode = "analytics"
    /\ \E rows \in QueryAnalytics : Respond(rows, FALSE)
    /\ End /\ UNCHANGED cut

\* The status line and the headers are out before the first row; a failure
\* after k rows can only be told by a last line.
ErrorLine(failed) == failed
StreamLogs ==
    /\ phase = "query" /\ mode = "stream"
    /\ \E rows \in QueryLogs, failed \in BOOLEAN : \E k \in 0..Len(rows) :
          /\ ~failed => k = Len(rows)
          /\ Respond(SubSeq(rows, 1, k), ErrorLine(failed))
    /\ End /\ UNCHANGED cut

\* 503: the client asks for the same page again.
QueryFails ==
    /\ phase = "query" /\ phase' = "ask" /\ partial' = FALSE
    /\ UNCHANGED <<items, shardVars, request, offset, got, reply, causes, shifted, outcome>>

Next ==
    \/ \E k \in 1..MaxKey : Arrive(k)
    \/ \E i \in DOMAIN items, k \in 1..MaxKey, open \in BOOLEAN : Change(i, k, open)
    \/ \E u \in SUBSET Shards, l \in BOOLEAN : Shift(u, l)
    \/ \E n \in Limits : \/ parseQueryFilter(n) \/ parseGraphQuery(n)
                         \/ parseAnalyticsQuery(n) \/ parseAlertHistoryQuery(n)
    \/ Probe \/ ServeLogs \/ ServeHistory \/ ServeGraph \/ ServeAnalytics \/ StreamLogs \/ QueryFails

Spec == Init /\ [][Next]_vars

-----------------------------------------------------------------------------
(* Properties.                                                             *)

Ended == phase = "idle" /\ reply.ok /\ mode \in Paged

\* A walk along next_offset returns every item that was there when it began
\* and did not change, whatever else was written meanwhile.  The only ways to
\* lose one: an item before it left the list or moved down, the order of two
\* items was open, the shard was away, or the walk ended at MaxOffset.
NothingSkipped ==
    Ended /\ ~(retreated \/ tied \/ dark \/ cut) => present \ stirred \subseteq ToSet(got)

\* It returns an item twice only if something came or moved up, if the item
\* itself changed, or if the order of two items was open.
NothingRepeated ==
    mode \in Paged /\ ~grown /\ ~tied =>
       \A a, b \in DOMAIN got : a # b /\ got[a] = got[b] => got[a] \in stirred

\* A walk that ends at MaxOffset has returned more than MaxOffset rows.
CutIsLate == cut => Len(got) > MaxOffset

\* A walk along next_offset is faithful: outside of the named races it skips
\* nothing and repeats nothing, and it stays within MaxOffset and goes as far.
WalkIsFaithful == TypeOK /\ NothingSkipped /\ NothingRepeated /\ CutIsLate

\* A short answer without a flag is complete: no row was behind it, unless the
\* shards changed between the probe and the query, or the coordinator could not
\* reach a shard that query-api could.
ShortIsComplete ==
    reply.ok /\ ~reply.partial /\ ~reply.flagged /\ reply.count < limit =>
       beyond = 0 \/ shifted \/ blind
=============================================================================
