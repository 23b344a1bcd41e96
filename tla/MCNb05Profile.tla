----------------------------- MODULE MCNb05Profile -----------------------------
(* A small instance of Nb05Profile for TLC. *)
EXTENDS Nb05Profile
===============================================================================
