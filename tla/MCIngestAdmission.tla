------------------------- MODULE MCIngestAdmission -------------------------
(* Tenants, keys, services and processes for the instance of IngestAdmission. *)
EXTENDS IngestAdmission, TLC

CONSTANTS k1, k2, h1, h2

\* k1 is a key for one service of its tenant, k2 for all of another tenant.
MCKeys == {k1, k2}
MCServices == {"orders", "other"}
MCKeyTenant == [k \in MCKeys |-> IF k = k1 THEN "t1" ELSE "t2"]
MCServiceTenant == [s \in MCServices |-> IF s = "other" THEN "t2" ELSE "t1"]
MCKeyService == [k \in MCKeys |-> IF k = k1 THEN "orders" ELSE AnyService]
MCLimit == [k \in MCKeys |-> IF k = k1 THEN 1 ELSE 0]

\* One process rejects, the other delays.
MCStrategy == [i \in Instances |-> IF i = "i2" THEN "delay" ELSE "reject"]
Symmetry == Permutations(Handlers)
=============================================================================
