------------------------------ MODULE MCUniwillEc ------------------------------
(* A small instance of UniwillEc for TLC. *)
EXTENDS UniwillEc

CONSTANTS b0, b1

\* Two addresses that differ in both bytes: mixing their halves gives a third.
MCRequests == [kind : {"read", "write"}, addr : {<<b0, b0>>, <<b1, b1>>}, data : {b1}]

MCInit ==
    /\ Init
    /\ mem = [a \in Addresses |-> b0]
    /\ ldat = b0 /\ hdat = b0 /\ cmdl = b0

MCNext ==
    \/ \E t \in Threads : (\E r \in MCRequests : Call(t, r)) \/ AccessStep(t) \/ EcServe(t)
    \/ SetDirect

MCSpec == MCInit /\ [][MCNext]_vars /\ Fairness
================================================================================
