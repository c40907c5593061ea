--------------------------- MODULE MCRuleCatalog ---------------------------
(* Services and log levels for the small instance of RuleCatalog. *)
EXTENDS RuleCatalog, TLC

\* The services of both tenants have logged before; only '' is new.
AllRegistered == Tenants \X Services

Symmetry == Permutations(Clients) \cup Permutations(Tenants)

\* The one level in use, as operators spell it and as it is stored.
MCLower == [l \in Levels |-> "error"]
=============================================================================
