--------------------------- MODULE MCAlertState ----------------------------
(* Scopes for the small instances of AlertState. *)
EXTENDS AlertState

\* An evaluation covers the keys of one rule, or of all rules.
MCScopes == {{k} : k \in Keys} \cup {Keys}
=============================================================================
