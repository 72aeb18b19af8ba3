----------------------------- MODULE MCMigrate -----------------------------
EXTENDS Migrate, TLC

(* Runners and editions are interchangeable.                               *)
Symmetry == Permutations(Runners) \cup Permutations(Editions)
=============================================================================
