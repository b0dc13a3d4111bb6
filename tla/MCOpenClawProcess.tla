-------------------------- MODULE MCOpenClawProcess --------------------------
(* OpenClawProcess with interchangeable callers. *)
EXTENDS OpenClawProcess, TLC

Symmetry == Permutations(Callers)

===============================================================================
