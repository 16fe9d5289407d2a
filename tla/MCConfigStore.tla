--------------------------- MODULE MCConfigStore ---------------------------
(* ConfigStore for TLC: the two configurations that can be saved are interchangeable. *)
EXTENDS ConfigStore, TLC

Symmetry == Permutations(Saveable)
=============================================================================
