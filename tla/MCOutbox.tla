------------------------------ MODULE MCOutbox ------------------------------
(* Outbox on small instances: rows that one claim takes together, and two    *)
(* delivery tasks that run at the same time.                                 *)
EXTENDS Outbox, TLC

Symmetry == Permutations(Events) \cup Permutations(Workers)
=============================================================================
