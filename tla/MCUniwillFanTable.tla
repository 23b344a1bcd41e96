-------------------------- MODULE MCUniwillFanTable --------------------------
(* A small instance of UniwillFanTable for TLC. *)
EXTENDS UniwillFanTable, TLC

Symmetry == Permutations(Callers)

\* Around every boundary of the clamp, and beyond a byte.
BoundaryRequests == {24, 25, 201, 256 + 60}
=============================================================================
