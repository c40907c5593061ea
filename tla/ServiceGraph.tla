---------------------------- MODULE ServiceGraph ----------------------------
(***************************************************************************)
(* buildServiceGraph, the algorithm of /v1/graph: from log records it      *)
(* infers the services (nodes), who calls whom (edges) and the flows       *)
(* (sessions) of a tenant.  It walks two Go maps, whose iteration order is *)
(* random, and sorts by timestamp without keeping the order of equal ones; *)
(* so the order of the records and of the flows are both left open here.   *)
(*                                                                         *)
(* A field of a record is the sequence of the values of all its spellings  *)
(* (session_id, session-id, ...) in the order of their keys; a level is in *)
(* lower case.  A moment is the position of a record.  The final sorts are *)
(* left out: nodes and edges are functions, the sessions a set.            *)
(***************************************************************************)
EXTENDS Naturals, Sequences, FiniteSets, SequencesExt

CONSTANTS
    LogRecords,  \* the records the store may return: service, level, trace and
                 \* the fields session, request, user, upstream, downstream
    Normalize,   \* what lower-casing and trimming make of a service's name
    MaxRecords   \* bound: records of one answer

None == ""
ErrorLevels == {"error", "fatal", "critical", "panic"}
Services == {Normalize[n] : n \in DOMAIN Normalize} \ {None}
Kinds == {"session", "request", "trace", "user"}

ASSUME GraphAssumption ==
    /\ None \in DOMAIN Normalize /\ Normalize[None] = None
    /\ MaxRecords \in Nat
    /\ \A r \in LogRecords :
          /\ r.service \in DOMAIN Normalize
          /\ \A c \in {"upstream", "downstream"} : r.fields[c] \in Seq(DOMAIN Normalize)

VARIABLES
    records,    \* as the sort leaves them
    counted,    \* how many of them the first loop has seen
    nodeMap,    \* service -> log, error and flow counts
    flows,      \* flow -> the positions of its records
    closed,     \* the flows the second loop is done with
    flow,       \* the one it is at
    index,      \* how many of its records it has seen
    seenServices, flowEdges, traceIDs, userID, errorCount,   \* found in it so far
    edgeMap,    \* <<source, target>> -> counts
    sessions

input == <<records>>
scratch == <<seenServices, flowEdges, traceIDs, userID, errorCount>>
result == <<nodeMap, edgeMap, sessions>>
graphVars == <<input, counted, flows, closed, flow, index, scratch, result>>

NoFlow == <<None, None>>
Positions == 1..MaxRecords

GraphTypeOK ==
    /\ records \in Seq(LogRecords) /\ counted \in 0..Len(records)
    /\ DOMAIN nodeMap \subseteq Services
    /\ \A s \in DOMAIN nodeMap : nodeMap[s] \in [logs : Nat, errors : Nat, flows : Nat]
    /\ \A k \in DOMAIN flows : k[1] \in Kinds /\ flows[k] \in Seq(Positions) /\ flows[k] # <<>>
    /\ closed \subseteq DOMAIN flows
    /\ flow \in (DOMAIN flows \ closed) \cup {NoFlow}
    /\ index \in 0..(IF flow = NoFlow THEN 0 ELSE Len(flows[flow]))
    /\ seenServices \subseteq Services
    /\ DOMAIN flowEdges \cup DOMAIN edgeMap \subseteq Services \X Services
    /\ \A e \in DOMAIN flowEdges : flowEdges[e] \in [error : BOOLEAN, propagated : BOOLEAN]
    /\ \A e \in DOMAIN edgeMap : edgeMap[e] \in [flows : Nat, errors : Nat, propagated : Nat]
    /\ errorCount \in 0..index
    /\ {s.key : s \in sessions} = closed

Empty == [x \in {} |-> x]
ResetScratch ==
    /\ seenServices' = {} /\ flowEdges' = Empty /\ traceIDs' = {}
    /\ userID' = None /\ errorCount' = 0

GraphInit ==
    /\ records \in BoundedSeq(LogRecords, MaxRecords)
    /\ counted = 0 /\ nodeMap = Empty /\ flows = Empty
    /\ closed = {} /\ flow = NoFlow /\ index = 0
    /\ seenServices = {} /\ flowEdges = Empty /\ traceIDs = {} /\ userID = None /\ errorCount = 0
    /\ edgeMap = Empty /\ sessions = {}

-----------------------------------------------------------------------------
(* Plausible slips in the code modelled below.                             *)

\* No node for an upstream service that has not logged.
SlipNoUpstreamNode(r) == {Normalize[IF r.fields.downstream = <<>> THEN None ELSE Head(r.fields.downstream)]} \ {None}
\* Compares with the first record of the flow.
SlipFirstRecord(i) == 1

-----------------------------------------------------------------------------
(* Reading a record.                                                       *)

\* The first spelling in key order, even if its value is empty.
graphField(r, c) == IF r.fields[c] = <<>> THEN None ELSE Head(r.fields[c])

normalizeGraphService(r) == Normalize[r.service]
isErrorLevel(r) == r.level \in ErrorLevels

\* session, request, trace, user: the first that is there.
graphFlowIdentity(r) ==
    LET ids == <<<<"session", graphField(r, "session")>>, <<"request", graphField(r, "request")>>,
                 <<"trace", r.trace>>, <<"user", graphField(r, "user")>>>>
        there == {n \in 1..4 : ids[n][2] # None}
    IN  IF there = {} THEN NoFlow ELSE ids[Min(there)]

Upstream(r) == Normalize[graphField(r, "upstream")]
Downstream(r) == Normalize[graphField(r, "downstream")]

\* The services a record names besides its own, and those it makes nodes for.
Peers(r) == {Upstream(r), Downstream(r)} \ {None, normalizeGraphService(r)}
NodesFor(r) == Peers(r)

\* seenServices of one record
SeenBy(r) == {normalizeGraphService(r)} \cup Peers(r)

-----------------------------------------------------------------------------
(* The first loop: nodes, and the records of each flow.                    *)

NewNode == [logs |-> 0, errors |-> 0, flows |-> 0]
WithNodes(S) == [s \in DOMAIN nodeMap \cup S |-> IF s \in DOMAIN nodeMap THEN nodeMap[s] ELSE NewNode]

CountRecord ==
    /\ counted < Len(records) /\ counted' = counted + 1
    /\ LET r == records[counted']
           s == normalizeGraphService(r)
           k == graphFlowIdentity(r)
       IN  IF s = None THEN UNCHANGED <<nodeMap, flows>>
           ELSE /\ nodeMap' = [WithNodes({s}) EXCEPT ![s].logs = @ + 1,
                                 ![s].errors = @ + IF isErrorLevel(r) THEN 1 ELSE 0]
                /\ flows' = IF k = NoFlow THEN flows
                            ELSE [f \in DOMAIN flows \cup {k} |->
                                    LET old == IF f \in DOMAIN flows THEN flows[f] ELSE <<>>
                                    IN  IF f = k THEN Append(old, counted') ELSE old]
    /\ UNCHANGED <<input, closed, flow, index, scratch, edgeMap, sessions>>

-----------------------------------------------------------------------------
(* The second loop: the edges and the summary of each flow.                *)

\* range over the map: any flow may be next.
OpenFlow(k) ==
    /\ counted = Len(records) /\ flow = NoFlow
    /\ flow' = k /\ index' = 0 /\ ResetScratch
    /\ UNCHANGED <<input, counted, flows, closed, result>>

ExplicitEdges(r) ==
    {<<u, normalizeGraphService(r)>> : u \in {Upstream(r)} \cap Peers(r)}
        \cup {<<normalizeGraphService(r), d>> : d \in {Downstream(r)} \cap Peers(r)}

Previous(i) == i - 1
InferredEdges(p, r) ==
    {<<normalizeGraphService(p), normalizeGraphService(r)>>} \ {<<s, s>> : s \in Services}

Propagates(before, now) == before /\ now
FirstUser(old, new) == IF old = None THEN new ELSE old

FlowRecord ==
    /\ flow # NoFlow /\ index < Len(flows[flow]) /\ index' = index + 1
    /\ LET r == records[flows[flow][index']]
           p == records[flows[flow][IF index = 0 THEN 1 ELSE Previous(index')]]
           inferred == IF index = 0 THEN {} ELSE InferredEdges(p, r)
           touched == ExplicitEdges(r) \cup inferred
           Old(e) == IF e \in DOMAIN flowEdges THEN flowEdges[e]
                     ELSE [error |-> FALSE, propagated |-> FALSE]
       IN  /\ seenServices' = seenServices \cup SeenBy(r)
           /\ traceIDs' = traceIDs \cup ({r.trace} \ {None})
           /\ userID' = FirstUser(userID, graphField(r, "user"))
           /\ errorCount' = errorCount + IF isErrorLevel(r) THEN 1 ELSE 0
           /\ nodeMap' = WithNodes(NodesFor(r))
           /\ flowEdges' = [e \in DOMAIN flowEdges \cup touched |->
                 [error |-> Old(e).error \/ (e \in touched /\ isErrorLevel(r)),
                  propagated |-> Old(e).propagated
                                   \/ (e \in inferred /\ Propagates(isErrorLevel(p), isErrorLevel(r)))]]
    /\ UNCHANGED <<input, counted, flows, closed, flow, edgeMap, sessions>>

CloseFlow ==
    /\ flow # NoFlow /\ index = Len(flows[flow])
    /\ nodeMap' = [s \in DOMAIN nodeMap |->
                     [nodeMap[s] EXCEPT !.flows = @ + IF s \in seenServices THEN 1 ELSE 0]]
    /\ edgeMap' = [e \in DOMAIN edgeMap \cup DOMAIN flowEdges |->
          LET old == IF e \in DOMAIN edgeMap THEN edgeMap[e] ELSE [flows |-> 0, errors |-> 0, propagated |-> 0]
              One(b) == IF e \in DOMAIN flowEdges /\ b THEN 1 ELSE 0
          IN  [flows |-> old.flows + One(TRUE), errors |-> old.errors + One(flowEdges[e].error),
               propagated |-> old.propagated + One(flowEdges[e].propagated)]]
    /\ sessions' = sessions \cup
          {[key |-> flow, user |-> userID, traces |-> traceIDs, services |-> seenServices,
            started |-> Head(flows[flow]), ended |-> Last(flows[flow]),
            logs |-> Len(flows[flow]), errors |-> errorCount]}
    /\ closed' = closed \cup {flow} /\ flow' = NoFlow /\ index' = 0 /\ ResetScratch
    /\ UNCHANGED <<input, counted, flows>>

Done == counted = Len(records) /\ closed = DOMAIN flows

GraphNext ==
    \/ CountRecord
    \/ \E k \in DOMAIN flows \ closed : OpenFlow(k)
    \/ FlowRecord
    \/ CloseFlow
    \/ Done /\ UNCHANGED graphVars

GraphSpec == GraphInit /\ [][GraphNext]_graphVars

-----------------------------------------------------------------------------
(* What the graph should be, said of the records as a whole.               *)

Count(S) == Cardinality(S)
Logged == {i \in DOMAIN records : Normalize[records[i].service] # None}
ServiceAt(i) == Normalize[records[i].service]
ErrorAt(i) == records[i].level \in ErrorLevels
InFlow(k) == {i \in Logged : graphFlowIdentity(records[i]) = k}
Keys == {graphFlowIdentity(records[i]) : i \in Logged} \ {NoFlow}
\* The services record i mentions.
Mentions(i) ==
    ({ServiceAt(i)} \cup {Normalize[v] : v \in
        {graphField(records[i], c) : c \in {"upstream", "downstream"}}}) \ {None}
\* Record i says that s calls t.
Says(i, s, t) ==
    \/ t = ServiceAt(i) /\ s = Normalize[graphField(records[i], "upstream")]
    \/ s = ServiceAt(i) /\ t = Normalize[graphField(records[i], "downstream")]
\* The pairs of records of V, next to each other, that show s before t.
Steps(V, s, t) ==
    {p \in V \X V :
        /\ p[1] < p[2] /\ ServiceAt(p[1]) = s /\ ServiceAt(p[2]) = t
        /\ ~\E m \in V : p[1] < m /\ m < p[2]}
\* What the records V of a flow, in their order, show of s and t.
Linked(V, s, t) == (\E i \in V : Says(i, s, t)) \/ Steps(V, s, t) # {}
Failing(V, s, t) ==
    (\E i \in V : Says(i, s, t) /\ ErrorAt(i)) \/ (\E p \in Steps(V, s, t) : ErrorAt(p[2]))
Propagating(V, s, t) == \E p \in Steps(V, s, t) : ErrorAt(p[1]) /\ ErrorAt(p[2])
BothFail(V, s, t) ==
    Steps(V, s, t) # {} /\ \A x \in {s, t} : \E i \in V : ServiceAt(i) = x /\ ErrorAt(i)

-----------------------------------------------------------------------------
(* Properties.                                                             *)

\* nodeMap[service].FlowCount++ never meets a service without a node (a nil
\* pointer), whichever field has named it and whichever flow comes first.
ServicesHaveNodes == seenServices \subseteq DOMAIN nodeMap

\* The nodes are the services that logged or were named in a flow; each counts
\* its own records and errors, and once every flow that mentions it.
NodesAgree ==
    Done => nodeMap = [s \in {ServiceAt(i) : i \in Logged}
                             \cup UNION {Mentions(i) : i \in UNION {InFlow(k) : k \in Keys}} |->
        [logs |-> Count({i \in Logged : ServiceAt(i) = s}),
         errors |-> Count({i \in Logged : ServiceAt(i) = s /\ ErrorAt(i)}),
         flows |-> Count({k \in Keys : \E i \in InFlow(k) : s \in Mentions(i)})]]

\* An edge counts every flow once, however often and in whichever way the flow
\* shows it, whatever order the flows were taken in.  Propagated are at least the
\* flows in which an error of the one service is next to an error of the other,
\* and at most those docs/api.md:208 describes, in which both services emitted
\* error records; the two differ where a service logs errors and other records.
EdgesAgree ==
    Done =>
        /\ DOMAIN edgeMap = {x \in Services \X Services : x[1] # x[2]
                                /\ \E k \in Keys : Linked(InFlow(k), x[1], x[2])}
        /\ \A e \in DOMAIN edgeMap :
              /\ edgeMap[e].flows = Count({k \in Keys : Linked(InFlow(k), e[1], e[2])})
              /\ edgeMap[e].errors = Count({k \in Keys : Failing(InFlow(k), e[1], e[2])})
              /\ Count({k \in Keys : Propagating(InFlow(k), e[1], e[2])}) <= edgeMap[e].propagated
              /\ edgeMap[e].propagated <= Count({k \in Keys : BothFail(InFlow(k), e[1], e[2])})

\* The sessions divide the records that have an identity: one session each,
\* with the flow's services, its first and last record and its first user.
SessionsAgree ==
    Done => /\ {s.key : s \in sessions} = Keys /\ Count(sessions) = Count(Keys)
            /\ \A s \in sessions : LET own == InFlow(s.key)
                                       named == {i \in own : graphField(records[i], "user") # None} IN
                 /\ s.logs = Count(own) /\ s.errors = Count({i \in own : ErrorAt(i)})
                 /\ {s.started, s.ended} \subseteq own /\ own \subseteq s.started..s.ended
                 /\ s.services = UNION {Mentions(i) : i \in own}
                 /\ s.traces = {records[i].trace : i \in own} \ {None}
                 /\ IF named = {} THEN s.user = None
                    ELSE \E i \in named : s.user = graphField(records[i], "user") /\ named \subseteq i..s.ended

\* The answer of /v1/graph is the graph of its records: nodes, edges and
\* sessions as defined above, for every order of equal timestamps and flows.
GraphAgrees == NodesAgree /\ EdgesAgree /\ SessionsAgree

\* Between two flows the counts nest: propagated errors within errors, errors
\* within the edge's flows, and those within the flows of both its ends.
CountsNest ==
    flow = NoFlow => \A e \in DOMAIN edgeMap :
        /\ edgeMap[e].propagated <= edgeMap[e].errors /\ edgeMap[e].errors <= edgeMap[e].flows
        /\ \A s \in {e[1], e[2]} : edgeMap[e].flows <= nodeMap[s].flows

\* While the loops run, everything they look up is there and every count stays
\* within the one that bounds it.
LoopsOK == GraphTypeOK /\ ServicesHaveNodes /\ CountsNest
=============================================================================
