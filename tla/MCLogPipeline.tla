--------------------------- MODULE MCLogPipeline ---------------------------
(* Model values and symmetry for the small instances of LogPipeline. *)
EXTENDS LogPipeline, TLC

\* The processors are interchangeable.
ProcessorSymmetry == Permutations(Processors)
=============================================================================
