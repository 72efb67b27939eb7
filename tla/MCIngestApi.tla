---------------------------- MODULE MCIngestApi -----------------------------
(* IngestApi on small instances: requests that race for the same key. *)
EXTENDS IngestApi, TLC

(* Requests differ only by name and bodies only by their hash. *)
Symmetry == Permutations(Requests) \cup Permutations(Bodies)
=============================================================================
