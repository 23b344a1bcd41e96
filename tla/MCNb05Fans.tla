------------------------------- MODULE MCNb05Fans -------------------------------
(* Small instances for TLC of two layers: the EC access functions of NB05     *)
(* devices, and, where an access is one step, the fan attributes.             *)
EXTENDS Nb05Ec, PwmFans

CONSTANTS b0, b1

VARIABLE layer    \* which of the two is run

allVars == <<layer, portVars, fanVars>>

\* Two addresses that differ in both bytes: mixing their halves gives a third.
MCRequests == [kind : {"read", "write"}, addr : {<<b0, b0>>, <<b1, b1>>}, data : {b1}]

OldAndNew == {<<8, 12>>, <<9, 10>>}

MCInit ==
    /\ EcInit /\ mem = [a \in Addresses |-> b0] /\ high = b0 /\ low = b0
    /\ FansInit
    /\ \/ layer = "ec" /\ device = "tuxi"
       \/ layer = "fans" /\ selected = "I2EC_ADDR_DATA"

MCNext ==
    \/ /\ layer = "ec" /\ UNCHANGED <<layer, fanVars>>
       /\ \E t \in Threads : (\E r \in MCRequests : Call(t, r)) \/ AccessStep(t)
    \/ layer = "fans" /\ FansNext /\ UNCHANGED <<layer, portVars>>

MCSpec == MCInit /\ [][MCNext]_allVars
================================================================================
