---------------------------- MODULE RuleCatalog ----------------------------
(***************************************************************************)
(* Alert rules: the CRUD handler of query-api (queryapi/alert_rules.go)    *)
(* over the alert_rules table, and the evaluators of the processor that    *)
(* load the active rules and reconcile alert state for them later.         *)
(*                                                                         *)
(* A client is one request at a time.  Every SQL statement is a step: the  *)
(* store opens no transaction, so other requests run between the SELECT    *)
(* and the UPDATE of one PATCH.  A statement can fail without an effect,   *)
(* or take effect and lose its answer.  GET changes nothing and is left    *)
(* out.  Operators insert rules with SQL of their own, which may leave     *)
(* service_id NULL: the rule is then one for every service of its tenant.  *)
(*                                                                         *)
(* Of the columns of a rule the model keeps those that are not simply      *)
(* copied: the service (with which goes its environment), whose NULL is    *)
(* read as ''; the level, stored in lower case (as the fingerprint is      *)
(* stored trimmed), with '' for NULL; the cooldown, which CREATE           *)
(* completes; and the status.  What the store does with all others is what *)
(* a PATCH does with the cooldown.                                         *)
(***************************************************************************)
EXTENDS Naturals

CONSTANTS
    Clients,
    Tenants, Services,
    Registered,       \* the rows of services before the first request
    Null,             \* a service_id of NULL
    Levels, Lower,    \* log levels, and the spelling in which they are stored
    SentLevels,       \* the levels clients may send
    SentStatus,       \* the statuses they may send
    Cooldowns,        \* the cooldown_seconds clients may send
    DefaultCooldown,  \* what CREATE stores instead of 0
    Nil,              \* a field a PATCH does not supply
    Evaluators,       \* the consumer and the scheduler of each processor
    MaxRules          \* bound: rows of alert_rules

\* What validateAlertRuleFields lets pass; evaluators load only the active rules.
Statuses == {"", "active", "disabled"}

ASSUME CatalogAssumption ==
    /\ Cooldowns \subseteq Nat
    /\ DefaultCooldown \in Nat \ {0}
    /\ MaxRules \in Nat \ {0}
    /\ Nil \notin Services /\ Nil \notin Levels /\ Nil \notin Nat /\ Nil \notin STRING
    /\ Null \notin Services /\ Null # "" /\ "" \notin Services
    /\ Registered \subseteq Tenants \X Services
    /\ Lower \in [Levels -> Levels] /\ SentLevels \subseteq Levels
    /\ SentStatus \subseteq Statuses

Ids == 1..MaxRules
\* The names a row of services may have: a PATCH makes one with the name ''.
Names == Services \cup {""}
Row == [tenant : Tenants, service : Names \cup {Null}, level : Levels,
        cooldown : Cooldowns \cup {DefaultCooldown},
        status : Statuses \cup {"deleted"}]
Fields == {"service", "level", "cooldown", "status"}
NoRow == [status |-> "none"]
NoRequest == [op |-> "none"]

\* The tenant is that of the API key the request came with; the id of a
\* CREATE is 0 until the row is inserted.
Creates == [op : {"create"}, tenant : Tenants, id : Ids \cup {0},
            service : Services, level : SentLevels, cooldown : Cooldowns, status : SentStatus]
Patches == [op : {"patch"}, tenant : Tenants, id : Ids,
            service : Services \cup {Nil}, level : SentLevels \cup {Nil},
            cooldown : Cooldowns \cup {Nil}, status : SentStatus \cup {Nil}]
Deletes == [op : {"delete"}, tenant : Tenants, id : Ids]

Steps == {"idle", "service", "insert", "read", "update", "delete", "reread"}

VARIABLES
    table,     \* alert_rules
    services,  \* the rows of services: <<tenant, name>>
    step,      \* the next statement of a client's request
    request,   \* that request
    copy,      \* the row it is about to write
    loaded,    \* the rules an evaluator has loaded
    firing,    \* the rules with a firing alert
    \* history
    wrote,     \* the last request of a client changed the row it names
    reply,     \* how it was answered
    raced      \* the row a PATCH has read is no longer the one it will replace

clientVars == <<step, request, copy, wrote, reply>>
evalVars == <<loaded, firing>>
vars == <<table, services, step, request, copy, loaded, firing, wrote, reply, raced>>

TypeOK ==
    /\ table \in [Ids -> Row \cup {NoRow}]
    /\ services \subseteq Tenants \X Names
    /\ step \in [Clients -> Steps]
    /\ request \in [Clients -> Creates \cup Patches \cup Deletes \cup {NoRequest}]
    /\ copy \in [Clients -> Row \cup {NoRow}]
    /\ loaded \in [Evaluators -> SUBSET Ids]
    /\ firing \subseteq Ids
    /\ wrote \in [Clients -> BOOLEAN]
    /\ reply \in [Clients -> {"none", "ok", "not found", "error"}]
    /\ raced \in [Clients -> BOOLEAN]

Init ==
    /\ table = [i \in Ids |-> NoRow]
    /\ services = Registered
    /\ step = [c \in Clients |-> "idle"]
    /\ request = [c \in Clients |-> NoRequest]
    /\ copy = [c \in Clients |-> NoRow]
    /\ loaded = [e \in Evaluators |-> {}]
    /\ firing = {}
    /\ wrote = [c \in Clients |-> FALSE]
    /\ reply = [c \in Clients |-> "none"]
    /\ raced = [c \in Clients |-> FALSE]

-----------------------------------------------------------------------------
(* Plausible slips in the code modelled below; no action uses them.        *)

\* UPDATE without AND status <> 'deleted'; SELECT without tenant_id = $1.
SlipDeletedToo(t, i) == table[i] # NoRow /\ table[i].tenant = t
SlipAnyTenant(t, i) == table[i].status \notin {"none", "deleted"}
\* UpdateAlertRule returns the found flag of the second read.
SlipFoundAfterwards(c, row) == IF row.status = "deleted" THEN "not found" ELSE "ok"
\* applyAlertRulePatch fills in the defaults of CREATE for columns the PATCH does not supply.
SlipPatchDefaults(row, r) ==
    [row EXCEPT !.service = IF r.service # Nil THEN r.service ELSE IF @ = Null THEN "" ELSE @,
                !.level = Lower[IF r.level = Nil THEN @ ELSE r.level],
                !.cooldown = IF r.cooldown = Nil THEN DefaultCooldown ELSE r.cooldown,
                !.status = IF r.status = Nil THEN "active" ELSE r.status]

-----------------------------------------------------------------------------
Goto(c, next) ==
    /\ step' = [step EXCEPT ![c] = next]
    /\ UNCHANGED <<request, copy, wrote, reply>>

Answer(c, how) ==
    /\ step' = [step EXCEPT ![c] = "idle"]
    /\ request' = [request EXCEPT ![c] = NoRequest]
    /\ copy' = [copy EXCEPT ![c] = NoRow]
    /\ reply' = [reply EXCEPT ![c] = how]

\* A statement failed, or took effect and its answer was lost: 503.
Fails(c, effect) ==
    /\ Answer(c, "error")
    /\ wrote' = [wrote EXCEPT ![c] = effect]

Visible(t, i) == table[i].status \notin {"none", "deleted"} /\ table[i].tenant = t

\* CreateAlertRule: an empty status becomes active, cooldown 0 the default.
CreatedRow(r) ==
    [tenant |-> r.tenant,
     service |-> r.service,
     level |-> Lower[r.level],
     cooldown |-> IF r.cooldown = 0 THEN DefaultCooldown ELSE r.cooldown,
     status |-> IF r.status = "" THEN "active" ELSE r.status]

\* GetAlertRule: COALESCE(svc.name, '')
Coalesced(service) == IF service = Null THEN "" ELSE service

\* applyAlertRulePatch on the row as GetAlertRule returns it: what is supplied is
\* taken as it is, "" and 0 too.  UPDATE writes every column, the level in lower
\* case.
Patched(row, r) ==
    [row EXCEPT !.service = IF r.service = Nil THEN Coalesced(@) ELSE r.service,
                !.level = Lower[IF r.level = Nil THEN @ ELSE r.level],
                !.cooldown = IF r.cooldown = Nil THEN @ ELSE r.cooldown,
                !.status = IF r.status = Nil THEN @ ELSE r.status]

\* A request that decodeJSONBody and the validation let through.
Receive(c) ==
    /\ step[c] = "idle"
    /\ \/ \E r \in Creates :
             /\ r.id = 0
             /\ request' = [request EXCEPT ![c] = r]
             /\ copy' = [copy EXCEPT ![c] = CreatedRow(r)]
             /\ step' = [step EXCEPT ![c] = "service"]
       \/ \E r \in Patches :
             /\ request' = [request EXCEPT ![c] = r]
             /\ step' = [step EXCEPT ![c] = "read"]
             /\ UNCHANGED copy
       \/ \E r \in Deletes :
             /\ request' = [request EXCEPT ![c] = r]
             /\ step' = [step EXCEPT ![c] = "delete"]
             /\ UNCHANGED copy
    /\ wrote' = [wrote EXCEPT ![c] = FALSE]
    /\ reply' = [reply EXCEPT ![c] = "none"]
    /\ UNCHANGED <<table, services, evalVars>>

\* UpdateAlertRule, the SELECT; tenant_id is copied from the row it finds.
Read(c) ==
    LET i == request[c].id IN
    /\ step[c] = "read"
    /\ \/ /\ Visible(request[c].tenant, i)
          /\ copy' = [copy EXCEPT ![c] = Patched(table[i], request[c])]
          /\ step' = [step EXCEPT ![c] = "service"]
          /\ UNCHANGED <<request, wrote, reply>>
       \/ ~Visible(request[c].tenant, i) /\ Answer(c, "not found") /\ UNCHANGED wrote
       \/ Fails(c, FALSE)
    /\ UNCHANGED <<table, services, evalVars>>

\* serviceID: insert the service or find it, the service '' too.
EnsureService(c) ==
    /\ step[c] = "service"
    /\ \/ /\ services' = services \cup {<<copy[c].tenant, copy[c].service>>}
          /\ \/ Goto(c, IF request[c].op = "create" THEN "insert" ELSE "update")
             \/ Fails(c, FALSE)
       \/ Fails(c, FALSE) /\ UNCHANGED services
    /\ UNCHANGED <<table, evalVars>>

\* The id comes from a sequence, so rows appear in the order of their ids.
NextId(i) == table[i] = NoRow /\ \A j \in 1..(i - 1) : table[j] # NoRow

Insert(c) ==
    /\ step[c] = "insert"
    /\ \/ \E i \in Ids :
             /\ NextId(i)
             /\ table' = [table EXCEPT ![i] = copy[c]]
             /\ \/ /\ step' = [step EXCEPT ![c] = "reread"]
                   /\ request' = [request EXCEPT ![c].id = i]
                   /\ wrote' = [wrote EXCEPT ![c] = TRUE]
                   /\ UNCHANGED <<copy, reply>>
                \/ Fails(c, TRUE)
       \/ Fails(c, FALSE) /\ UNCHANGED table
    /\ UNCHANGED <<services, evalVars>>

\* UPDATE ... WHERE tenant_id = $1 AND id = $2 AND status <> 'deleted'.
Writable(t, i) == table[i].status \notin {"none", "deleted"} /\ table[i].tenant = t

Update(c) ==
    LET i == request[c].id IN
    /\ step[c] = "update"
    /\ \/ /\ Writable(copy[c].tenant, i)
          /\ table' = [table EXCEPT ![i] = copy[c]]
          /\ \/ /\ step' = [step EXCEPT ![c] = "reread"]
                /\ wrote' = [wrote EXCEPT ![c] = TRUE]
                /\ UNCHANGED <<request, copy, reply>>
             \/ Fails(c, TRUE)
       \/ ~Writable(copy[c].tenant, i) /\ Answer(c, "not found") /\ UNCHANGED <<table, wrote>>
       \/ Fails(c, FALSE) /\ UNCHANGED table
    /\ UNCHANGED <<services, evalVars>>

\* CREATE and UPDATE read the row back for the body of the answer, and drop
\* the flag that says whether it is still there.
RereadReply(c, row) == "ok"

Reread(c) ==
    /\ step[c] = "reread"
    /\ \/ Answer(c, RereadReply(c, table[request[c].id])) /\ UNCHANGED wrote
       \/ Fails(c, wrote[c])
    /\ UNCHANGED <<table, services, evalVars>>

Delete(c) ==
    LET i == request[c].id IN
    /\ step[c] = "delete"
    /\ \/ /\ Visible(request[c].tenant, i)
          /\ table' = [table EXCEPT ![i].status = "deleted"]
          /\ \/ Answer(c, "ok") /\ wrote' = [wrote EXCEPT ![c] = TRUE]
             \/ Fails(c, TRUE)
       \/ ~Visible(request[c].tenant, i) /\ Answer(c, "not found") /\ UNCHANGED <<table, wrote>>
       \/ Fails(c, FALSE) /\ UNCHANGED table
    /\ UNCHANGED <<services, evalVars>>

\* An operator inserts a rule with SQL, for one service of the tenant or for all
\* of them, with the level as he spells it and the defaults of the schema.
OperatorInsert ==
    /\ \E i \in Ids, t \in Tenants, l \in Levels :
       \E s \in {n \in Services : <<t, n>> \in services} \cup {Null} :
          /\ NextId(i)
          /\ table' = [table EXCEPT ![i] =
                [tenant |-> t, service |-> s, level |-> l,
                 cooldown |-> DefaultCooldown, status |-> "active"]]
    /\ UNCHANGED <<services, clientVars, evalVars>>

-----------------------------------------------------------------------------
(* The processor.                                                          *)

Loadable(i) == table[i].status = "active"

\* LoadActiveRules: the rules of the tenant for the service of a batch, and
\* those for every service.
ForService(i, t, s) == table[i].tenant = t /\ table[i].service \in {s, Null}

\* LoadActiveRules for a batch, LoadAllActiveRules for a scheduled evaluation.
LoadRules(e) ==
    /\ loaded[e] = {}
    /\ \E rules \in {{i \in Ids : Loadable(i)}} \cup
                     {{i \in Ids : Loadable(i) /\ ForService(i, t, s)} : t \in Tenants, s \in Services} :
          loaded' = [loaded EXCEPT ![e] = rules]
    /\ UNCHANGED <<table, services, clientVars, firing>>

\* Evaluation finds some of the rules to match, and SyncAlertState looks at
\* the alerts of the loaded rules only; or one of the two fails.
SyncState(e) ==
    /\ loaded[e] # {}
    /\ \/ \E matched \in SUBSET loaded[e] : firing' = (firing \ loaded[e]) \cup matched
       \/ UNCHANGED firing
    /\ loaded' = [loaded EXCEPT ![e] = {}]
    /\ UNCHANGED <<table, services, clientVars>>

\* Between its SELECT and its UPDATE a PATCH sees nothing of other writes.
Patching(c) == request[c].op = "patch" /\ step[c] \in {"service", "update"}
Watch == raced' = [c \in Clients |->
    Patching(c) /\ Patching(c)' /\ (raced[c] \/ table'[request[c].id] # table[request[c].id])]

Step ==
    \/ \E c \in Clients : \/ Receive(c)
                          \/ Read(c)
                          \/ EnsureService(c)
                          \/ Insert(c)
                          \/ Update(c)
                          \/ Reread(c)
                          \/ Delete(c)
    \/ OperatorInsert
    \/ \E e \in Evaluators : LoadRules(e) \/ SyncState(e)

Next == Step /\ Watch

Spec == Init /\ [][Next]_vars

-----------------------------------------------------------------------------
\* Only requests of its own tenant create or change a rule, although PATCH
\* takes the tenant of its UPDATE from the row it read; besides them there are
\* only the new rules of operators.
TenantsIsolated ==
    [][\A i \in Ids : table'[i] # table[i] =>
          \/ table[i] = NoRow /\ UNCHANGED clientVars
          \/ \E c \in Clients : /\ step[c] \in {"insert", "update", "delete"}
                                /\ step'[c] # step[c]
                                /\ request[c].tenant = table'[i].tenant]_vars

\* The answer tells the truth about the write: 200, 201 and 204 mean that it
\* happened, 404 that it did not; only a 503 leaves it open.
AnswersAreHonest ==
    \A c \in Clients : /\ reply[c] = "ok" => wrote[c]
                       /\ reply[c] = "not found" => ~wrote[c]

\* The table is well formed and the answers about it are true, whatever
\* statement of a request failed or lost its reply.
CatalogOK == TypeOK /\ AnswersAreHonest

\* Deleted, without a firing alert, and in no evaluator's hands.
Quiet(i) ==
    /\ table[i].status = "deleted" /\ i \notin firing
    /\ \A e \in Evaluators : i \notin loaded[e]

\* A deleted rule is never changed again, not even by a PATCH that read it
\* before it was deleted; and once it is quiet no later load brings it back.
DeletedIsFinal ==
    [][\A i \in Ids : /\ table[i].status = "deleted" => table'[i] = table[i]
                      /\ Quiet(i) => Quiet(i)']_vars

\* What the store makes of a value it writes.
AsStored(f, v) ==
    IF f = "service" /\ v = Null THEN "" ELSE IF f = "level" THEN Lower[v] ELSE v

\* A PATCH stores what was sent, an empty status and a cooldown of 0 too, and of
\* every other column what it finds at that moment, but for the spelling of the
\* level and a service of NULL, which becomes the service ''; unless somebody else
\* changed the row after the PATCH had read it (that change is undone).  So more
\* changes than docs/api.md:227 says, "updates supplied fields", but only this.
PatchUndoesOnlyRaces ==
    [][\A c \in Clients :
          step[c] = "update" /\ wrote'[c] /\ ~raced[c] =>
              LET i == request[c].id IN
              \A f \in Fields : table'[i][f] =
                  AsStored(f, IF request[c][f] = Nil THEN table[i][f] ELSE request[c][f])]_vars
=============================================================================
