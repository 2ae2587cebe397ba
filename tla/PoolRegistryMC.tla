--------------------------- MODULE PoolRegistryMC ---------------------------
(* A small instance of PoolRegistry for TLC. *)
EXTENDS PoolRegistry, TLC

\* Models are interchangeable: the run checks invariants only
ModelSymmetry == Permutations(Models)
=============================================================================
