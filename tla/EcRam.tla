--------------------------------- MODULE EcRam ---------------------------------
(***************************************************************************)
(* What the drivers above src/src/uniwill_wmi.c take the EC RAM for: bytes *)
(* that are read and written one at a time.  An access takes effect in one *)
(* step between its call and its return.  One that reports success has     *)
(* taken effect; one that reports failure may have, or not.                *)
(***************************************************************************)
EXTENDS Naturals

CONSTANTS Threads, Bytes, Failed, Nothing

Addresses == Bytes \X Bytes
Requests  == [kind : {"read", "write"}, addr : Addresses, data : Bytes]

\* Failed is not a byte, and Nothing is neither a byte nor a request: the module that
\* implements this one assumes it of its constants.

VARIABLES
    mem,    \* the EC RAM
    req,    \* the access a thread is in, or Nothing
    moved,  \* the byte this access wrote or found, Nothing before it took effect
    ret     \* what the thread's last access returned: a byte, or Failed

ramVars == <<mem, req, moved, ret>>

Init ==
    /\ mem \in [Addresses -> Bytes]
    /\ req = [t \in Threads |-> Nothing]
    /\ moved = [t \in Threads |-> Nothing]
    /\ ret = [t \in Threads |-> Failed]

Call(t, r) ==
    /\ req[t] = Nothing
    /\ req' = [req EXCEPT ![t] = r]
    /\ UNCHANGED <<mem, moved, ret>>

Perform(t) ==
    /\ req[t] # Nothing /\ moved[t] = Nothing
    /\ IF req[t].kind = "write"
       THEN /\ mem' = [mem EXCEPT ![req[t].addr] = req[t].data]
            /\ moved' = [moved EXCEPT ![t] = req[t].data]
       ELSE /\ moved' = [moved EXCEPT ![t] = mem[req[t].addr]]
            /\ UNCHANGED mem
    /\ UNCHANGED <<req, ret>>

Return(t) ==
    /\ req[t] # Nothing
    /\ req' = [req EXCEPT ![t] = Nothing]
    /\ moved' = [moved EXCEPT ![t] = Nothing]
    /\ ret' \in {[ret EXCEPT ![t] = Failed],
                 [ret EXCEPT ![t] = IF moved[t] = Nothing THEN Failed ELSE moved[t]]}
    /\ UNCHANGED mem

Next == \E t \in Threads : (\E r \in Requests : Call(t, r)) \/ Perform(t) \/ Return(t)

Spec == Init /\ [][Next]_ramVars
===============================================================================
