------------------------- MODULE RuleCatalog_proofs -------------------------
(***************************************************************************)
(* Proofs about RuleCatalog, for any clients, tenants, services and number *)
(* of rules: the answers are true, tenants are isolated, deletion is final *)
(* and a PATCH undoes only what happened after its SELECT.                 *)
(*                                                                         *)
(* A request is a sequence of statements without a transaction, so the     *)
(* invariant says what a client knows between two of them: which kind of   *)
(* request it serves, that it has not written yet, and whose row it is     *)
(* about to write.                                                         *)
(***************************************************************************)
EXTENDS RuleCatalog, TLAPS

Requests == Creates \cup Patches \cup Deletes \cup {NoRequest}
Rows == Row \cup {NoRow}

\* What a client that is at statement st knows.
Stage(st, req, cp, w, rp) ==
    /\ st \in {"service", "insert", "update"} =>
          cp \in Row /\ cp.tenant = req.tenant /\ cp.service \in Names
    /\ st \in {"service", "reread"} => req \in Creates \cup Patches
    /\ st = "insert" => req \in Creates
    /\ st \in {"read", "update"} => req \in Patches
    /\ st = "delete" => req \in Deletes
    /\ st = "reread" => req.id \in Ids
    /\ st # "idle" => rp = "none" /\ (w <=> st = "reread")
    /\ (rp = "ok" => w) /\ (rp = "not found" => ~w)
Staged == \A c \in Clients : Stage(step[c], request[c], copy[c], wrote[c], reply[c])

\* A PATCH that nothing has raced with is about to write what is there now,
\* patched.
Fresh ==
    \A c \in Clients : Patching(c) /\ ~raced[c] =>
        copy[c] = Patched(table[request[c].id], request[c])

CatalogInv == TypeOK /\ Staged /\ Fresh

-----------------------------------------------------------------------------
(* Rows and requests.                                                      *)

LEMMA KnownRow ==
    ASSUME NEW r \in Rows, r.status # "none"
    PROVE  r \in Row
BY DEF Rows, NoRow

LEMMA NoRowKnown == \A r \in Row : r # NoRow /\ r.status # "none"
<1>1. \A r \in Row : r.status # "none"
    BY DEF Row, Statuses
<1>2. NoRow.status = "none"
    BY DEF NoRow
<1> QED
    BY <1>1, <1>2

LEMMA CreatedRowOK ==
    ASSUME NEW r \in Creates
    PROVE  /\ CreatedRow(r) \in Row /\ CreatedRow(r).tenant = r.tenant
           /\ CreatedRow(r).service \in Names
BY CatalogAssumption DEF Creates, CreatedRow, Row, Statuses, Names

LEMMA PatchedOK ==
    ASSUME NEW row \in Row, NEW r \in Patches
    PROVE  /\ Patched(row, r) \in Row /\ Patched(row, r).tenant = row.tenant
           /\ Patched(row, r).service \in Names
<1> DEFINE s == IF r.service = Nil THEN Coalesced(row.service) ELSE r.service
           l == Lower[IF r.level = Nil THEN row.level ELSE r.level]
           k == IF r.cooldown = Nil THEN row.cooldown ELSE r.cooldown
           a == IF r.status = Nil THEN row.status ELSE r.status
<1>1. Patched(row, r) = [row EXCEPT !.service = s, !.level = l, !.cooldown = k, !.status = a]
    BY DEF Patched, Row
<1>2. s \in Names
    BY DEF Patches, Row, Names, Coalesced
<1>3. l \in Levels
    BY CatalogAssumption DEF Patches, Row
<1>4. k \in Cooldowns \cup {DefaultCooldown} /\ a \in Statuses \cup {"deleted"}
    BY CatalogAssumption DEF Patches, Row
<1> HIDE DEF s, l, k, a
<1> QED
    BY <1>1, <1>2, <1>3, <1>4 DEF Row

\* The fields of a patched row.
LEMMA PatchedFields ==
    ASSUME NEW row \in Row, NEW r \in Patches, NEW f \in Fields
    PROVE  Patched(row, r)[f] = AsStored(f, IF r[f] = Nil THEN row[f] ELSE r[f])
<1>1. CASE f = "service"
    BY <1>1, CatalogAssumption DEF Patches, Patched, Row, AsStored, Coalesced
<1>2. CASE f = "level"
    BY <1>2 DEF Patches, Patched, Row, AsStored
<1>3. CASE f \in {"cooldown", "status"}
    BY <1>3 DEF Patches, Patched, Row, AsStored
<1> QED
    BY <1>1, <1>2, <1>3 DEF Fields

LEMMA DeletedRowOK ==
    ASSUME NEW row \in Row
    PROVE  /\ [row EXCEPT !.status = "deleted"] \in Row
           /\ [row EXCEPT !.status = "deleted"].tenant = row.tenant
BY DEF Row

LEMMA CreateOps ==
    /\ \A r \in Creates : r.op = "create"
    /\ \A r \in Patches : r.op = "patch"
    /\ \A r \in Deletes : r.op = "delete"
    /\ NoRequest.op = "none"
BY DEF Creates, Patches, Deletes, NoRequest

LEMMA InsertedRequest ==
    ASSUME NEW r \in Creates, NEW i \in Ids
    PROVE  [r EXCEPT !.id = i] \in Creates /\ [r EXCEPT !.id = i].id = i
BY DEF Creates

-----------------------------------------------------------------------------
(* What a client's step does to the variables of the clients.              *)

\* Client c now stands at stage (st, req, cp, w, rp), the others where they
\* stood.
Moves(c, st, req, cp, w, rp) ==
    /\ step' = [step EXCEPT ![c] = st]
    /\ request' = [request EXCEPT ![c] = req]
    /\ copy' = [copy EXCEPT ![c] = cp]
    /\ wrote' = [wrote EXCEPT ![c] = w]
    /\ reply' = [reply EXCEPT ![c] = rp]

ClientType ==
    /\ step \in [Clients -> Steps]
    /\ request \in [Clients -> Requests]
    /\ copy \in [Clients -> Rows]
    /\ wrote \in [Clients -> BOOLEAN]
    /\ reply \in [Clients -> {"none", "ok", "not found", "error"}]

LEMMA MovesOK ==
    ASSUME ClientType, Staged, NEW c \in Clients,
           NEW st \in Steps, NEW req \in Requests, NEW cp \in Rows, NEW w \in BOOLEAN,
           NEW rp \in {"none", "ok", "not found", "error"},
           Stage(st, req, cp, w, rp), Moves(c, st, req, cp, w, rp)
    PROVE  ClientType' /\ Staged'
<1>1. ClientType'
    BY DEF ClientType, Moves
<1>2. Staged'
    <2> SUFFICES ASSUME NEW d \in Clients
                 PROVE  Stage(step'[d], request'[d], copy'[d], wrote'[d], reply'[d])
        BY DEF Staged
    <2>1. CASE d = c
        BY <2>1 DEF ClientType, Moves
    <2>2. CASE d # c
        BY <2>2 DEF ClientType, Moves, Staged
    <2> QED
        BY <2>1, <2>2
<1> QED
    BY <1>1, <1>2

\* An answer of any kind is a move to idle.
LEMMA FailsOK ==
    ASSUME ClientType, Staged, NEW c \in Clients, NEW effect \in BOOLEAN, Fails(c, effect)
    PROVE  ClientType' /\ Staged'
<1>1. Moves(c, "idle", NoRequest, NoRow, effect, "error")
    BY DEF Fails, Answer, Moves
<1>2. Stage("idle", NoRequest, NoRow, effect, "error")
    BY DEF Stage
<1> QED
    BY <1>1, <1>2, MovesOK DEF Steps, Requests, Rows

LEMMA AnswerOK ==
    ASSUME ClientType, Staged, NEW c \in Clients, NEW how \in {"ok", "not found"},
           Answer(c, how), NEW w \in BOOLEAN, wrote' = [wrote EXCEPT ![c] = w],
           w <=> how = "ok"
    PROVE  ClientType' /\ Staged'
<1>1. Moves(c, "idle", NoRequest, NoRow, w, how)
    BY DEF Answer, Moves
<1>2. Stage("idle", NoRequest, NoRow, w, how)
    BY DEF Stage
<1> QED
    BY <1>1, <1>2, MovesOK DEF Steps, Requests, Rows

-----------------------------------------------------------------------------
(* One lemma per statement: the client stays at a known stage, and the     *)
(* table gets only rows.                                                   *)

\* The part of TypeOK that is not about the clients' requests.
StoreType ==
    /\ table \in [Ids -> Rows]
    /\ services \subseteq Tenants \X Names
    /\ loaded \in [Evaluators -> SUBSET Ids]
    /\ firing \subseteq Ids

Good == ClientType /\ Staged /\ StoreType

LEMMA TypeParts == TypeOK <=> ClientType /\ StoreType /\ raced \in [Clients -> BOOLEAN]
BY DEF TypeOK, ClientType, StoreType, Requests, Rows

LEMMA TypePartsPrime == TypeOK' <=> ClientType' /\ StoreType' /\ raced' \in [Clients -> BOOLEAN]
BY DEF TypeOK, ClientType, StoreType, Requests, Rows

LEMMA ReceiveOK ==
    ASSUME Good, NEW c \in Clients, Receive(c)
    PROVE  Good'
<1>1. StoreType'
    BY DEF Good, Receive, StoreType, evalVars
<1>2. copy[c] \in Rows
    BY DEF Good, ClientType
<1>3. CASE \E r \in Creates : /\ r.id = 0
                              /\ request' = [request EXCEPT ![c] = r]
                              /\ copy' = [copy EXCEPT ![c] = CreatedRow(r)]
                              /\ step' = [step EXCEPT ![c] = "service"]
    <2>1. PICK r \in Creates : /\ request' = [request EXCEPT ![c] = r]
                               /\ copy' = [copy EXCEPT ![c] = CreatedRow(r)]
                               /\ step' = [step EXCEPT ![c] = "service"]
        BY <1>3
    <2>2. Moves(c, "service", r, CreatedRow(r), FALSE, "none")
        BY <2>1 DEF Receive, Moves
    <2>3. Stage("service", r, CreatedRow(r), FALSE, "none")
        BY CreatedRowOK DEF Stage
    <2>4. r \in Requests /\ CreatedRow(r) \in Rows
        BY CreatedRowOK DEF Requests, Rows
    <2> QED
        BY <1>1, <2>2, <2>3, <2>4, MovesOK DEF Good, Steps
<1>4. CASE \E r \in Patches : /\ request' = [request EXCEPT ![c] = r]
                              /\ step' = [step EXCEPT ![c] = "read"]
                              /\ UNCHANGED copy
    <2>1. PICK r \in Patches : /\ request' = [request EXCEPT ![c] = r]
                               /\ step' = [step EXCEPT ![c] = "read"]
                               /\ UNCHANGED copy
        BY <1>4
    <2>2. Moves(c, "read", r, copy[c], FALSE, "none")
        BY <2>1 DEF Receive, Moves, Good, ClientType
    <2>3. Stage("read", r, copy[c], FALSE, "none")
        BY DEF Stage
    <2> QED
        BY <1>1, <1>2, <2>2, <2>3, MovesOK DEF Good, Steps, Requests
<1>5. CASE \E r \in Deletes : /\ request' = [request EXCEPT ![c] = r]
                              /\ step' = [step EXCEPT ![c] = "delete"]
                              /\ UNCHANGED copy
    <2>1. PICK r \in Deletes : /\ request' = [request EXCEPT ![c] = r]
                               /\ step' = [step EXCEPT ![c] = "delete"]
                               /\ UNCHANGED copy
        BY <1>5
    <2>2. Moves(c, "delete", r, copy[c], FALSE, "none")
        BY <2>1 DEF Receive, Moves, Good, ClientType
    <2>3. Stage("delete", r, copy[c], FALSE, "none")
        BY DEF Stage
    <2> QED
        BY <1>1, <1>2, <2>2, <2>3, MovesOK DEF Good, Steps, Requests
<1> QED
    BY <1>3, <1>4, <1>5 DEF Receive

\* The stage a client is at, spelled out.
LEMMA AtStage ==
    ASSUME Good, NEW c \in Clients
    PROVE  /\ Stage(step[c], request[c], copy[c], wrote[c], reply[c])
           /\ step[c] \in Steps /\ request[c] \in Requests /\ copy[c] \in Rows
           /\ wrote[c] \in BOOLEAN
           /\ reply[c] \in {"none", "ok", "not found", "error"}
BY DEF Good, Staged, ClientType

\* A row that a tenant sees is a row of that tenant.
LEMMA SeenRow ==
    ASSUME Good, NEW i \in Ids, NEW t, Visible(t, i)
    PROVE  table[i] \in Row /\ table[i].tenant = t
BY KnownRow DEF Good, StoreType, Visible

\* A refusal: nothing was written, and nothing is said to have been.
LEMMA NotFoundOK ==
    ASSUME Good, NEW c \in Clients, step[c] \notin {"idle", "reread"},
           Answer(c, "not found"), UNCHANGED wrote
    PROVE  ClientType' /\ Staged'
<1>1. wrote[c] = FALSE
    BY AtStage DEF Stage
<1>2. wrote' = [wrote EXCEPT ![c] = FALSE]
    BY <1>1 DEF Good, ClientType
<1> QED
    BY <1>2, AnswerOK DEF Good

LEMMA ReadOK ==
    ASSUME Good, NEW c \in Clients, Read(c)
    PROVE  Good'
<1> DEFINE i == request[c].id
           r == request[c]
<1>1. StoreType'
    BY DEF Good, Read, StoreType, evalVars
<1>2. r \in Patches /\ i \in Ids /\ r \in Requests /\ wrote[c] = FALSE /\ reply[c] = "none" /\ step[c] = "read"
    BY AtStage DEF Read, Stage, Patches
<1>3. CASE /\ Visible(r.tenant, i)
           /\ copy' = [copy EXCEPT ![c] = Patched(table[i], r)]
           /\ step' = [step EXCEPT ![c] = "service"]
           /\ UNCHANGED <<request, wrote, reply>>
    <2>1. table[i] \in Row /\ table[i].tenant = r.tenant
        BY <1>2, <1>3, SeenRow
    <2>2. /\ Patched(table[i], r) \in Row /\ Patched(table[i], r).tenant = r.tenant
          /\ Patched(table[i], r).service \in Names
        BY <1>2, <2>1, PatchedOK
    <2>3. Moves(c, "service", r, Patched(table[i], r), FALSE, "none")
        BY <1>2, <1>3 DEF Moves, Good, ClientType
    <2>4. Stage("service", r, Patched(table[i], r), FALSE, "none")
        BY <1>2, <2>2 DEF Stage
    <2>5. Patched(table[i], r) \in Rows
        BY <2>2 DEF Rows
    <2> QED
        BY <1>1, <1>2, <2>3, <2>4, <2>5, MovesOK DEF Good, Steps
<1>4. CASE ~Visible(r.tenant, i) /\ Answer(c, "not found") /\ UNCHANGED wrote
    BY <1>1, <1>2, <1>4, NotFoundOK DEF Good
<1>5. CASE Fails(c, FALSE)
    BY <1>1, <1>5, FailsOK DEF Good
<1> QED
    BY <1>3, <1>4, <1>5 DEF Read

LEMMA EnsureServiceOK ==
    ASSUME Good, NEW c \in Clients, EnsureService(c)
    PROVE  Good'
<1>1. /\ step[c] = "service" /\ copy[c] \in Row /\ copy[c].tenant = request[c].tenant
      /\ request[c] \in Creates \cup Patches /\ request[c] \in Requests /\ copy[c] \in Rows
      /\ copy[c].service \in Names
      /\ wrote[c] = FALSE /\ reply[c] = "none"
    BY AtStage DEF EnsureService, Stage
<1>2. <<copy[c].tenant, copy[c].service>> \in Tenants \X Names
    BY <1>1 DEF Row
<1>3. StoreType'
    BY <1>2 DEF Good, EnsureService, StoreType, evalVars
<1>4. CASE Goto(c, IF request[c].op = "create" THEN "insert" ELSE "update")
    <2> DEFINE st == IF request[c].op = "create" THEN "insert" ELSE "update"
    <2>1. Moves(c, st, request[c], copy[c], FALSE, "none")
        BY <1>1, <1>4 DEF Goto, Moves, Good, ClientType
    <2>2. Stage(st, request[c], copy[c], FALSE, "none")
        BY <1>1, CreateOps DEF Stage
    <2>3. st \in Steps
        BY DEF Steps
    <2> HIDE DEF st
    <2> QED
        BY <1>1, <1>3, <2>1, <2>2, <2>3, MovesOK DEF Good
<1>5. CASE Fails(c, FALSE)
    BY <1>3, <1>5, FailsOK DEF Good
<1> QED
    BY <1>4, <1>5 DEF EnsureService

LEMMA InsertOK ==
    ASSUME Good, NEW c \in Clients, Insert(c)
    PROVE  Good'
<1>1. /\ step[c] = "insert" /\ copy[c] \in Row /\ copy[c].tenant = request[c].tenant
      /\ request[c] \in Creates /\ copy[c] \in Rows
      /\ wrote[c] = FALSE /\ reply[c] = "none"
    BY AtStage DEF Insert, Stage
<1>2. StoreType'
    BY <1>1 DEF Good, Insert, StoreType, evalVars
<1>3. ASSUME NEW i \in Ids, step' = [step EXCEPT ![c] = "reread"],
             request' = [request EXCEPT ![c].id = i],
             wrote' = [wrote EXCEPT ![c] = TRUE], UNCHANGED <<copy, reply>>
      PROVE  Good'
    <2> DEFINE r == [request[c] EXCEPT !.id = i]
    <2>1. r \in Creates /\ r.id = i
        BY <1>1, InsertedRequest
    <2>2. Moves(c, "reread", r, copy[c], TRUE, "none")
        BY <1>1, <1>3 DEF Moves, Good, ClientType
    <2> HIDE DEF r
    <2>3. Stage("reread", r, copy[c], TRUE, "none")
        BY <1>1, <2>1 DEF Stage
    <2> QED
        BY <1>1, <1>2, <2>1, <2>2, <2>3, MovesOK DEF Good, Steps, Requests
<1>4. ASSUME NEW effect \in BOOLEAN, Fails(c, effect) PROVE Good'
    BY <1>2, <1>4, FailsOK DEF Good
<1> QED
    BY <1>3, <1>4 DEF Insert

LEMMA UpdateOK ==
    ASSUME Good, NEW c \in Clients, Update(c)
    PROVE  Good'
<1>1. /\ step[c] = "update" /\ copy[c] \in Row /\ copy[c].tenant = request[c].tenant
      /\ request[c] \in Patches /\ request[c].id \in Ids
      /\ request[c] \in Requests /\ copy[c] \in Rows
      /\ wrote[c] = FALSE /\ reply[c] = "none"
    BY AtStage DEF Update, Stage, Patches
<1>2. StoreType'
    BY <1>1 DEF Good, Update, StoreType, evalVars
<1>3. CASE /\ step' = [step EXCEPT ![c] = "reread"]
           /\ wrote' = [wrote EXCEPT ![c] = TRUE]
           /\ UNCHANGED <<request, copy, reply>>
    <2>1. Moves(c, "reread", request[c], copy[c], TRUE, "none")
        BY <1>1, <1>3 DEF Moves, Good, ClientType
    <2>2. Stage("reread", request[c], copy[c], TRUE, "none")
        BY <1>1 DEF Stage
    <2> QED
        BY <1>1, <1>2, <2>1, <2>2, MovesOK DEF Good, Steps
<1>4. ASSUME NEW effect \in BOOLEAN, Fails(c, effect) PROVE Good'
    BY <1>2, <1>4, FailsOK DEF Good
<1>5. CASE Answer(c, "not found") /\ UNCHANGED wrote
    BY <1>1, <1>2, <1>5, NotFoundOK DEF Good
<1> QED
    BY <1>3, <1>4, <1>5 DEF Update

LEMMA RereadOK ==
    ASSUME Good, NEW c \in Clients, Reread(c)
    PROVE  Good'
<1>1. step[c] = "reread" /\ wrote[c] = TRUE
    BY AtStage DEF Reread, Stage
<1>2. StoreType'
    BY DEF Good, Reread, StoreType, evalVars
<1>3. CASE Answer(c, "ok") /\ UNCHANGED wrote
    <2>1. wrote' = [wrote EXCEPT ![c] = TRUE]
        BY <1>1, <1>3 DEF Good, ClientType
    <2> QED
        BY <1>2, <1>3, <2>1, AnswerOK DEF Good
<1>4. CASE Fails(c, wrote[c])
    BY <1>1, <1>2, <1>4, FailsOK DEF Good
<1> QED
    BY <1>3, <1>4 DEF Reread, RereadReply

LEMMA DeleteOK ==
    ASSUME Good, NEW c \in Clients, Delete(c)
    PROVE  Good'
<1> DEFINE i == request[c].id
<1>1. step[c] = "delete" /\ request[c] \in Deletes /\ i \in Ids
    BY AtStage DEF Delete, Stage, Deletes
<1>2. StoreType'
    <2>1. CASE Visible(request[c].tenant, i) /\ table' = [table EXCEPT ![i].status = "deleted"]
        <3>1. [table[i] EXCEPT !.status = "deleted"] \in Rows
            BY <1>1, <2>1, SeenRow, DeletedRowOK DEF Rows
        <3> QED
            BY <1>1, <2>1, <3>1 DEF Good, Delete, StoreType, evalVars
    <2>2. CASE UNCHANGED table
        BY <2>2 DEF Good, Delete, StoreType, evalVars
    <2> QED
        BY <2>1, <2>2 DEF Delete
<1>3. CASE Answer(c, "ok") /\ wrote' = [wrote EXCEPT ![c] = TRUE]
    BY <1>2, <1>3, AnswerOK DEF Good
<1>4. ASSUME NEW effect \in BOOLEAN, Fails(c, effect) PROVE Good'
    BY <1>2, <1>4, FailsOK DEF Good
<1>5. CASE Answer(c, "not found") /\ UNCHANGED wrote
    BY <1>1, <1>2, <1>5, NotFoundOK DEF Good
<1> QED
    BY <1>3, <1>4, <1>5 DEF Delete

LEMMA EvaluatorOK ==
    ASSUME Good, NEW e \in Evaluators, LoadRules(e) \/ SyncState(e)
    PROVE  Good'
<1>0. UNCHANGED clientVars
    BY DEF LoadRules, SyncState
<1>1. ClientType'
    BY <1>0 DEF Good, clientVars, ClientType
<1>2. Staged'
    BY <1>0 DEF Good, clientVars, Staged
<1>3. StoreType'
    BY DEF Good, LoadRules, SyncState, StoreType
<1> QED
    BY <1>1, <1>2, <1>3 DEF Good

LEMMA OperatorOK ==
    ASSUME Good, OperatorInsert
    PROVE  Good'
<1>1. ClientType'
    BY DEF Good, OperatorInsert, clientVars, ClientType
<1>2. Staged'
    BY DEF Good, OperatorInsert, clientVars, Staged
<1>3. StoreType'
    <2>1. PICK i \in Ids, t \in Tenants, l \in Levels, s \in Services \cup {Null} :
              table' = [table EXCEPT ![i] =
                  [tenant |-> t, service |-> s, level |-> l,
                   cooldown |-> DefaultCooldown, status |-> "active"]]
        BY DEF OperatorInsert
    <2>2. [tenant |-> t, service |-> s, level |-> l,
           cooldown |-> DefaultCooldown, status |-> "active"] \in Rows
        BY DEF Row, Rows, Names, Statuses
    <2> QED
        BY <2>1, <2>2 DEF Good, OperatorInsert, StoreType, evalVars
<1> QED
    BY <1>1, <1>2, <1>3 DEF Good

LEMMA StepOK == Good /\ Step => Good'
BY ReceiveOK, ReadOK, EnsureServiceOK, InsertOK, UpdateOK, RereadOK, DeleteOK, OperatorOK,
   EvaluatorOK DEF Step

-----------------------------------------------------------------------------
(* What a PATCH is about to write.                                         *)

\* The steps of client d.
ClientStep(d) ==
    Receive(d) \/ Read(d) \/ EnsureService(d) \/ Insert(d) \/ Update(d) \/ Reread(d) \/ Delete(d)

LEMMA StepCases == Step <=> \/ \E d \in Clients : ClientStep(d)
                            \/ OperatorInsert
                            \/ \E e \in Evaluators : LoadRules(e) \/ SyncState(e)
BY DEF Step, ClientStep

\* A client's request, copy and result are its own.
LEMMA OthersStay ==
    ASSUME Good, NEW d \in Clients, ClientStep(d), NEW c \in Clients, c # d
    PROVE  /\ step'[c] = step[c] /\ request'[c] = request[c]
           /\ copy'[c] = copy[c] /\ wrote'[c] = wrote[c]
<1> USE DEF Good, ClientType
<1>1. CASE Receive(d)
    BY <1>1 DEF Receive
<1>2. CASE Read(d)
    BY <1>2 DEF Read, Answer, Fails
<1>3. CASE EnsureService(d)
    BY <1>3 DEF EnsureService, Goto, Answer, Fails
<1>4. CASE Insert(d)
    BY <1>4 DEF Insert, Answer, Fails
<1>5. CASE Update(d)
    BY <1>5 DEF Update, Answer, Fails
<1>6. CASE Reread(d)
    BY <1>6 DEF Reread, Answer, Fails
<1>7. CASE Delete(d)
    BY <1>7 DEF Delete, Answer, Fails
<1> QED
    BY <1>1, <1>2, <1>3, <1>4, <1>5, <1>6, <1>7 DEF ClientStep

\* A PATCH comes to its two last statements through its SELECT, and from there
\* on it keeps what it has.
LEMMA PatchingKept ==
    ASSUME Good, Step, NEW c \in Clients, Patching(c)'
    PROVE  /\ request'[c] = request[c]
           /\ \/ Patching(c) /\ copy'[c] = copy[c]
              \/ /\ request[c] \in Patches /\ Visible(request[c].tenant, request[c].id)
                 /\ copy'[c] = Patched(table[request[c].id], request[c])
                 /\ UNCHANGED table
<1>1. request'[c].op = "patch" /\ step'[c] \in {"service", "update"}
    BY DEF Patching
<1>2. ASSUME NEW e \in Evaluators, LoadRules(e) \/ SyncState(e)
      PROVE  request'[c] = request[c] /\ Patching(c) /\ copy'[c] = copy[c]
    BY <1>1, <1>2 DEF LoadRules, SyncState, clientVars, Patching
<1>3. ASSUME OperatorInsert
      PROVE  request'[c] = request[c] /\ Patching(c) /\ copy'[c] = copy[c]
    BY <1>1, <1>3 DEF OperatorInsert, clientVars, Patching
<1>4. ASSUME NEW d \in Clients, ClientStep(d), d # c
      PROVE  request'[c] = request[c] /\ Patching(c) /\ copy'[c] = copy[c]
    BY <1>1, <1>4, OthersStay DEF Patching
<1>5. ASSUME ClientStep(c)
      PROVE  /\ request'[c] = request[c]
             /\ \/ Patching(c) /\ copy'[c] = copy[c]
                \/ /\ request[c] \in Patches /\ Visible(request[c].tenant, request[c].id)
                   /\ copy'[c] = Patched(table[request[c].id], request[c])
                   /\ UNCHANGED table
    <2>0. /\ step \in [Clients -> Steps] /\ request \in [Clients -> Requests]
          /\ copy \in [Clients -> Rows]
        BY DEF Good, ClientType
    <2>1. ~Receive(c)
        <3>1. Receive(c) => \/ step'[c] = "service" /\ request'[c] \in Creates
                            \/ step'[c] \in {"read", "delete"}
            BY <2>0 DEF Receive
        <3> QED
            BY <1>1, <3>1, CreateOps
    <2>2. CASE Read(c)
        <3>1. request[c] \in Patches
            BY <2>2, AtStage DEF Read, Stage
        <3>2. ~Fails(c, FALSE) /\ ~Answer(c, "not found")
            BY <1>1, <2>0 DEF Fails, Answer
        <3> QED
            BY <2>0, <2>2, <3>1, <3>2 DEF Read
    <2>3. CASE EnsureService(c)
        <3>1. ~Fails(c, FALSE)
            BY <1>1, <2>0 DEF Fails, Answer
        <3>2. UNCHANGED <<request, copy>> /\ step[c] = "service"
            BY <2>3, <3>1 DEF EnsureService, Goto
        <3> QED
            BY <1>1, <3>2 DEF Patching
    <2>4. ASSUME Insert(c) \/ Update(c) \/ Reread(c) \/ Delete(c)
          PROVE  step'[c] \in {"idle", "reread"}
        BY <2>0, <2>4 DEF Insert, Update, Reread, Delete, Fails, Answer
    <2> QED
        BY <1>1, <1>5, <2>1, <2>2, <2>3, <2>4 DEF ClientStep
<1> QED
    BY <1>2, <1>3, <1>4, <1>5, StepCases

LEMMA CatalogInit == Init => CatalogInv
<1> SUFFICES ASSUME Init PROVE CatalogInv
    OBVIOUS
<1>1. TypeOK
    BY CatalogAssumption DEF Init, TypeOK, Steps, Names
<1>2. Staged
    BY DEF Init, Staged, Stage
<1>3. Fresh
    BY DEF Init, Fresh, Patching
<1> QED
    BY <1>1, <1>2, <1>3 DEF CatalogInv

LEMMA GoodFacts == CatalogInv => Good
BY TypeParts DEF CatalogInv, Good

LEMMA CatalogStep == CatalogInv /\ [Next]_vars => CatalogInv'
<1> SUFFICES ASSUME CatalogInv, [Next]_vars PROVE CatalogInv'
    OBVIOUS
<1>1. CASE UNCHANGED vars
    BY <1>1 DEF vars, CatalogInv, TypeOK, Staged, Fresh, Patching
<1>2. CASE Next
    <2>1. Good /\ Step /\ Watch
        BY <1>2, GoodFacts DEF Next
    <2>2. Good'
        BY <2>1, StepOK
    <2>3. raced' \in [Clients -> BOOLEAN]
        BY <2>1 DEF Watch, Patching
    <2>4. Fresh'
        <3> SUFFICES ASSUME NEW c \in Clients, Patching(c)', ~raced'[c]
                     PROVE  copy'[c] = Patched(table'[request'[c].id], request'[c])
            BY DEF Fresh
        <3>1. request'[c] = request[c]
            BY <2>1, PatchingKept
        <3>2. CASE Patching(c) /\ copy'[c] = copy[c]
            <4>1. ~raced[c] /\ table'[request[c].id] = table[request[c].id]
                BY <2>1, <3>2 DEF Watch
            <4> QED
                BY <3>1, <3>2, <4>1 DEF CatalogInv, Fresh
        <3>3. CASE copy'[c] = Patched(table[request[c].id], request[c]) /\ UNCHANGED table
            BY <3>1, <3>3
        <3> QED
            BY <2>1, <3>2, <3>3, PatchingKept
    <2> QED
        BY <2>2, <2>3, <2>4, TypePartsPrime DEF CatalogInv, Good
<1> QED
    BY <1>1, <1>2

\* The inductive invariant of the rule handlers: between two statements a client
\* knows what it serves, whose row it is about to write, and, unless somebody
\* wrote the rule since its SELECT, that this is the present row, patched.
THEOREM CatalogInvariant == Spec => []CatalogInv
BY CatalogInit, CatalogStep, PTL DEF Spec

-----------------------------------------------------------------------------
(* The properties.                                                         *)

\* The table is well formed and every answer about a write is true, whatever
\* statement failed or lost its reply.
THEOREM CatalogSafe == Spec => []CatalogOK
<1>1. CatalogInv => CatalogOK
    BY DEF CatalogInv, Staged, Stage, CatalogOK, AnswersAreHonest
<1> QED
    BY <1>1, CatalogInvariant, PTL

\* Who changed a row, and into what.
LEMMA RowChanges ==
    ASSUME Good, Step, NEW i \in Ids, table'[i] # table[i]
    PROVE  /\ \/ table[i] = NoRow /\ UNCHANGED clientVars
              \/ \E c \in Clients :
                     /\ step[c] \in {"insert", "update", "delete"} /\ step'[c] # step[c]
                     /\ table'[i].tenant = request[c].tenant
           /\ table[i].status # "deleted"
<1>1. ASSUME NEW e \in Evaluators, LoadRules(e) \/ SyncState(e) PROVE FALSE
    BY <1>1 DEF LoadRules, SyncState
<1>2. ASSUME NEW c \in Clients, ClientStep(c)
      PROVE  /\ step[c] \in {"insert", "update", "delete"} /\ step'[c] # step[c]
             /\ table'[i].tenant = request[c].tenant
             /\ table[i].status # "deleted"
    <2>0. step \in [Clients -> Steps] /\ table \in [Ids -> Rows]
        BY DEF Good, ClientType, StoreType
    <2>1. ~(Receive(c) \/ Read(c) \/ EnsureService(c) \/ Reread(c))
        BY DEF Receive, Read, EnsureService, Reread
    <2>2. CASE Insert(c)
        <3>1. step[c] = "insert" /\ copy[c].tenant = request[c].tenant
            BY <2>2, AtStage DEF Insert, Stage
        <3>2. step'[c] # step[c]
            BY <2>0, <2>2, <3>1 DEF Insert, Fails, Answer
        <3>3. table[i] = NoRow /\ table'[i] = copy[c]
            BY <2>0, <2>2 DEF Insert, NextId
        <3> QED
            BY <3>1, <3>2, <3>3 DEF NoRow
    <2>3. CASE Update(c)
        <3>1. step[c] = "update" /\ copy[c].tenant = request[c].tenant
            BY <2>3, AtStage DEF Update, Stage
        <3>2. step'[c] # step[c]
            BY <2>0, <2>3, <3>1 DEF Update, Fails, Answer
        <3>3. table[i].status # "deleted" /\ table'[i] = copy[c]
            BY <2>0, <2>3 DEF Update, Writable
        <3> QED
            BY <3>1, <3>2, <3>3
    <2>4. CASE Delete(c)
        <3>1. step[c] = "delete" /\ request[c].id \in Ids
            BY <2>4, AtStage DEF Delete, Stage, Deletes
        <3>2. step'[c] # step[c]
            BY <2>0, <2>4, <3>1 DEF Delete, Fails, Answer
        <3>3. /\ i = request[c].id /\ Visible(request[c].tenant, i)
              /\ table'[i] = [table[i] EXCEPT !.status = "deleted"]
            BY <2>0, <2>4, <3>1 DEF Delete
        <3>4. table[i] \in Row /\ table[i].tenant = request[c].tenant
            BY <3>3, SeenRow
        <3>5. table'[i].tenant = request[c].tenant
            BY <3>3, <3>4, DeletedRowOK
        <3> QED
            BY <3>1, <3>2, <3>3, <3>5 DEF Visible
    <2> QED
        BY <1>2, <2>1, <2>2, <2>3, <2>4 DEF ClientStep
<1>3. ASSUME OperatorInsert
      PROVE  table[i] = NoRow /\ UNCHANGED clientVars /\ table[i].status # "deleted"
    <2>1. table[i] = NoRow /\ UNCHANGED clientVars
        BY <1>3 DEF OperatorInsert, NextId, Good, StoreType
    <2> QED
        BY <2>1 DEF NoRow
<1> QED
    BY <1>1, <1>2, <1>3, StepCases

\* Only a request of the same tenant creates or changes a rule, or an operator
\* inserts one.
THEOREM TenantsSafe == Spec => TenantsIsolated
<1> DEFINE Own == \A i \in Ids : table'[i] # table[i] =>
                     \/ table[i] = NoRow /\ UNCHANGED clientVars
                     \/ \E c \in Clients : /\ step[c] \in {"insert", "update", "delete"}
                                           /\ step'[c] # step[c]
                                           /\ request[c].tenant = table'[i].tenant
<1>1. ASSUME CatalogInv, [Next]_vars PROVE [Own]_vars
    <2>1. CASE UNCHANGED vars
        BY <2>1
    <2>2. CASE Next
        BY <1>1, <2>2, GoodFacts, RowChanges DEF Next
    <2> QED
        BY <1>1, <2>1, <2>2
<1> QED
    BY <1>1, CatalogInvariant, PTL DEF Spec, TenantsIsolated

\* Deletion is final: the row does not change again, and once no evaluator
\* holds the rule and no alert of it fires, it stays that way.
THEOREM DeletedSafe == Spec => DeletedIsFinal
<1> DEFINE Final == \A i \in Ids : /\ table[i].status = "deleted" => table'[i] = table[i]
                                   /\ Quiet(i) => Quiet(i)'
<1>1. ASSUME CatalogInv, [Next]_vars PROVE [Final]_vars
    <2>1. CASE UNCHANGED vars
        BY <2>1
    <2>2. CASE Next
        <3>1. Good /\ Step
            BY <1>1, <2>2, GoodFacts DEF Next
        <3>2. ASSUME NEW i \in Ids, table[i].status = "deleted" PROVE table'[i] = table[i]
            BY <3>1, <3>2, RowChanges
        <3>3. ASSUME NEW i \in Ids, Quiet(i) PROVE Quiet(i)'
            <4>1. table[i].status = "deleted" /\ table'[i].status = "deleted"
                BY <3>2, <3>3 DEF Quiet
            <4>2. ASSUME NEW d \in Clients, ClientStep(d) PROVE UNCHANGED <<loaded, firing>>
                BY <4>2 DEF ClientStep, Receive, Read, EnsureService, Insert, Update, Reread, Delete, evalVars
            <4>3. ASSUME NEW e \in Evaluators, LoadRules(e) \/ SyncState(e)
                  PROVE  i \notin firing' /\ \A x \in Evaluators : i \notin loaded'[x]
                BY <3>1, <3>3, <4>1, <4>3 DEF LoadRules, SyncState, Loadable, Quiet, Good, StoreType
            <4>4. OperatorInsert => UNCHANGED <<loaded, firing>>
                BY DEF OperatorInsert, evalVars
            <4>5. i \notin firing' /\ \A x \in Evaluators : i \notin loaded'[x]
                BY <3>1, <3>3, <4>2, <4>3, <4>4, StepCases DEF Quiet
            <4> QED
                BY <4>1, <4>5 DEF Quiet
        <3> QED
            BY <3>2, <3>3
    <2> QED
        BY <1>1, <2>1, <2>2
<1> QED
    BY <1>1, CatalogInvariant, PTL DEF Spec, DeletedIsFinal

\* A PATCH writes what was sent and of the other columns what they hold at that
\* moment, as the store spells it (a level in lower case, the service '' for
\* NULL), unless the row changed after the PATCH had read it.
THEOREM PatchSafe == Spec => PatchUndoesOnlyRaces
<1> DEFINE Kept == \A c \in Clients :
              step[c] = "update" /\ wrote'[c] /\ ~raced[c] =>
                  LET i == request[c].id IN
                  \A f \in Fields : table'[i][f] =
                      AsStored(f, IF request[c][f] = Nil THEN table[i][f] ELSE request[c][f])
<1>1. ASSUME CatalogInv, [Next]_vars PROVE [Kept]_vars
    <2>1. CASE UNCHANGED vars
        BY <2>1
    <2>2. ASSUME Next, NEW c \in Clients, step[c] = "update", wrote'[c], ~raced[c], NEW f \in Fields
          PROVE  table'[request[c].id][f] =
                    AsStored(f, IF request[c][f] = Nil THEN table[request[c].id][f] ELSE request[c][f])
        <3>1. Good /\ Step
            BY <1>1, <2>2, GoodFacts DEF Next
        <3>2. request[c] \in Patches /\ request[c].id \in Ids /\ wrote[c] = FALSE
            BY <2>2, <3>1, AtStage DEF Stage, Patches
        <3>3. Update(c) /\ ~Fails(c, FALSE)
            <4>1. ASSUME NEW e \in Evaluators, LoadRules(e) \/ SyncState(e) PROVE FALSE
                BY <2>2, <3>2, <4>1 DEF LoadRules, SyncState, clientVars
            <4>5. ~OperatorInsert
                BY <2>2, <3>2 DEF OperatorInsert, clientVars
            <4>2. ASSUME NEW d \in Clients, ClientStep(d), d # c PROVE FALSE
                BY <2>2, <3>1, <3>2, <4>2, OthersStay
            <4>3. ClientStep(c) => Update(c)
                BY <2>2 DEF ClientStep, Receive, Read, EnsureService, Insert, Reread, Delete
            <4>4. ~Fails(c, FALSE)
                BY <2>2, <3>1 DEF Fails, Good, ClientType
            <4> QED
                BY <3>1, <4>1, <4>2, <4>3, <4>4, <4>5, StepCases
        <3>4. /\ Writable(copy[c].tenant, request[c].id)
              /\ table' = [table EXCEPT ![request[c].id] = copy[c]]
            BY <2>2, <3>2, <3>3 DEF Update
        <3>5. Patching(c)
            BY <2>2, <3>2, CreateOps DEF Patching
        <3>6. copy[c] = Patched(table[request[c].id], request[c])
            BY <1>1, <2>2, <3>5 DEF CatalogInv, Fresh
        <3>7. table[request[c].id] \in Row
            BY <3>1, <3>2, <3>4, KnownRow DEF Writable, Good, StoreType
        <3>8. table'[request[c].id] = copy[c]
            BY <3>1, <3>2, <3>4 DEF Good, StoreType
        <3> QED
            BY <3>2, <3>6, <3>7, <3>8, PatchedFields
    <2> QED
        BY <1>1, <2>1, <2>2
<1> QED
    BY <1>1, CatalogInvariant, PTL DEF Spec, PatchUndoesOnlyRaces
=============================================================================
