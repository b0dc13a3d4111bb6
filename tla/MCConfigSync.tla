---------------------------- MODULE MCConfigSync ----------------------------
(* ConfigSync with interchangeable callers. *)
EXTENDS ConfigSync, TLC

Symmetry == Permutations(Callers)

=============================================================================
