----------------------------- MODULE MCIngestion -----------------------------
(* Small instances of Ingestion: two workers on one source.                *)
EXTENDS Ingestion, TLC

SwapWorkers == Permutations(Workers)
=============================================================================
