----------------------------- MODULE MCQueryAPI -----------------------------
(***************************************************************************)
(* The small instance of the read side of query-api.  A behaviour is that  *)
(* of one of its endpoints: the walks and streams of PagedReads, or the    *)
(* loops of ServiceGraph over the records such a read has returned.  They  *)
(* share no state, so the one that is not looked at stands still.          *)
(*                                                                         *)
(* The log records are of two services that log (one spelled in two ways)  *)
(* and one that is only named, a session that also has a trace, a second   *)
(* flow by trace or by user, a field with two spellings of which the first *)
(* is empty, and a record without a service.                               *)
(***************************************************************************)
EXTENDS PagedReads, ServiceGraph, TLC

MCNormalize == ("" :> "") @@ ("api" :> "api") @@ ("API " :> "api") @@ ("db" :> "db") @@ ("mail" :> "mail")

NoFields == [session |-> <<>>, request |-> <<>>, user |-> <<>>, upstream |-> <<>>, downstream |-> <<>>]
Record(s, l, t, f) == [service |-> s, level |-> l, trace |-> t, fields |-> f]
MCLogRecords ==
    {Record(s, l, "t", [NoFields EXCEPT !.session = <<"s">>]) : s \in {"api", "db"}, l \in {"error", "info"}}
    \cup {Record("api", "error", "t", NoFields),
          Record("db", "error", "t", NoFields),
          Record("api", "error", "t", [NoFields EXCEPT !.downstream = <<"mail">>]),
          Record("api", "error", "", [NoFields EXCEPT !.session = <<"s">>, !.downstream = <<"db">>, !.user = <<"u">>]),
          Record("API ", "info", "t", [NoFields EXCEPT !.session = <<"", "s">>, !.upstream = <<"mail">>]),
          Record("db", "info", "", [NoFields EXCEPT !.user = <<"v">>, !.upstream = <<"API ">>, !.downstream = <<"db">>]),
          Record("db", "error", "", [NoFields EXCEPT !.request = <<"q">>, !.upstream = <<"mail">>, !.user = <<"v">>]),
          Record("db", "error", "", [NoFields EXCEPT !.session = <<"s">>, !.upstream = <<"api">>, !.user = <<"v">>]),
          Record("", "error", "t", [NoFields EXCEPT !.downstream = <<"mail">>]),
          Record("db", "error", "", NoFields)}

VARIABLE endpoint  \* "pages" or "graph"

InitQuery ==
    \/ endpoint = "pages" /\ Init /\ records = <<>> /\ GraphInit
    \/ endpoint = "graph" /\ GraphInit /\ items = <<>> /\ limit = Min(Limits) /\ Init

NextQuery ==
    \/ endpoint = "pages" /\ Next /\ UNCHANGED <<endpoint, graphVars>>
    \/ endpoint = "graph" /\ GraphNext /\ UNCHANGED <<endpoint, vars>>

SpecQuery == InitQuery /\ [][NextQuery]_<<endpoint, vars, graphVars>>
=============================================================================
