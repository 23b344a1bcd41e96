------------------------- MODULE MCUniwillFanRestart -------------------------
(* Small instances of UniwillFanRestart for TLC. *)
EXTENDS UniwillFanRestart, TLC

\* The callers are interchangeable.
Symmetry == Permutations(Callers)
=============================================================================
