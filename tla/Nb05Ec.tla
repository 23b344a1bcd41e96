--------------------------------- MODULE Nb05Ec ---------------------------------
(***************************************************************************)
(* The EC access functions of src/src/tuxedo_nb05/tuxedo_nb05_ec.c: a pair *)
(* of I/O ports, an index and a data port, behind which two registers are  *)
(* an index and a data register of their own, behind which the address     *)
(* bytes and the data of the EC RAM are found.  One access to a byte is    *)
(* twelve port accesses, under nb05_ec_access_lock; one port access is one *)
(* step.  The ports and what is behind them are external.                  *)
(***************************************************************************)
EXTENDS Naturals, Sequences

CONSTANTS
    Threads,   \* threads that access the EC
    NoThread,  \* the lock is free
    Bytes,     \* values of a byte, of the address and of the data
    Failed,    \* what EcRam returns for a failed access; there is none here
    Nothing    \* no request, or no byte yet

ASSUME PortAssumption == /\ NoThread \notin Threads
                         /\ Nothing \notin [kind : {"read", "write"}, addr : Bytes \X Bytes, data : Bytes]
                         /\ Failed \notin Bytes /\ Nothing \notin Bytes
                         /\ Bytes # {}

Addresses == Bytes \X Bytes
Requests  == [kind : {"read", "write"}, addr : Addresses, data : Bytes]

I2EC_ADDRs == {"I2EC_ADDR_HIGH", "I2EC_ADDR_LOW", "I2EC_ADDR_DATA"}

VARIABLES
    mem,        \* EC: its RAM
    port,       \* the register the index port selects
    selected,   \* what I2EC_REG_ADDR selects
    high, low,  \* the address bytes
    lock,       \* the holder of nb05_ec_access_lock
    pc,         \* where a thread is: "idle", "lock", "select", "transfer" or "unlock"
    at,         \* which of its register accesses it is at
    req,        \* the request of a thread's access, Nothing outside one
    ret,        \* what its last access returned
    moved       \* history: the byte written or read for the access

hwVars == <<mem, port, selected, high, low>>
portVars == <<hwVars, lock, pc, at, req, ret, moved>>

\* io_write and io_read put the register on the index port, and then write or
\* read the data port.
io_write(register, data) == [register |-> register, write |-> TRUE, data |-> data]
io_read(register) == [register |-> register, write |-> FALSE, data |-> Nothing]

\* Mutant: the low byte is written before its index is selected.
DataBeforeIndex(r) ==
    << io_write("I2EC_REG_ADDR", "I2EC_ADDR_HIGH"), io_write("I2EC_REG_DATA", r.addr[2]),
       io_write("I2EC_REG_DATA", r.addr[1]), io_write("I2EC_REG_ADDR", "I2EC_ADDR_LOW"),
       io_write("I2EC_REG_ADDR", "I2EC_ADDR_DATA"),
       IF r.kind = "write" THEN io_write("I2EC_REG_DATA", r.data) ELSE io_read("I2EC_REG_DATA") >>

\* The accesses of nb05_read_ec_ram and nb05_write_ec_ram to the registers.
Accesses(r) ==
    << io_write("I2EC_REG_ADDR", "I2EC_ADDR_HIGH"), io_write("I2EC_REG_DATA", r.addr[2]),
       io_write("I2EC_REG_ADDR", "I2EC_ADDR_LOW"),  io_write("I2EC_REG_DATA", r.addr[1]),
       io_write("I2EC_REG_ADDR", "I2EC_ADDR_DATA"),
       IF r.kind = "write" THEN io_write("I2EC_REG_DATA", r.data) ELSE io_read("I2EC_REG_DATA") >>

-----------------------------------------------------------------------------
Goto(t, l) == pc' = [pc EXCEPT ![t] = l]

Call(t, r) ==
    /\ pc[t] = "idle" /\ Goto(t, "lock")
    /\ req' = [req EXCEPT ![t] = r]
    /\ UNCHANGED <<hwVars, lock, at, ret, moved>>

Acquire(t) ==
    /\ pc[t] = "lock" /\ Goto(t, "select")
    /\ lock = NoThread /\ lock' = t
    /\ at' = [at EXCEPT ![t] = 1]
    /\ UNCHANGED <<hwVars, req, ret, moved>>

\* The register to the index port.
Select(t) ==
    /\ pc[t] = "select" /\ Goto(t, "transfer")
    /\ port' = Accesses(req[t])[at[t]].register
    /\ UNCHANGED <<mem, selected, high, low, lock, at, req, ret, moved>>

\* What the hardware does with a byte for the data port.
Latch(t, v) ==
    IF port = "I2EC_REG_ADDR"
    THEN selected' = v /\ UNCHANGED <<mem, port, high, low, moved>>
    ELSE /\ UNCHANGED <<port, selected>>
         /\ high' = IF selected = "I2EC_ADDR_HIGH" THEN v ELSE high
         /\ low'  = IF selected = "I2EC_ADDR_LOW" THEN v ELSE low
         /\ IF selected = "I2EC_ADDR_DATA"
            THEN /\ mem' = [mem EXCEPT ![<<low, high>>] = v]
                 /\ moved' = [moved EXCEPT ![t] = v]
            ELSE UNCHANGED <<mem, moved>>

\* The data port, after which the next register access follows.
Transfer(t) ==
    /\ pc[t] = "transfer" /\ Goto(t, IF at[t] = 6 THEN "unlock" ELSE "select")
    /\ at' = [at EXCEPT ![t] = IF at[t] = 6 THEN 0 ELSE @ + 1]
    /\ LET access == Accesses(req[t])[at[t]] IN
       IF access.write
       THEN Latch(t, access.data)
       ELSE /\ moved' = [moved EXCEPT ![t] = mem[<<low, high>>]]
            /\ UNCHANGED hwVars
    /\ UNCHANGED <<lock, req, ret>>

Unlock(t) ==
    /\ pc[t] = "unlock" /\ Goto(t, "idle")
    /\ lock' = NoThread
    /\ ret' = [ret EXCEPT ![t] = moved[t]]
    /\ req' = [req EXCEPT ![t] = Nothing]
    /\ moved' = [moved EXCEPT ![t] = Nothing]
    /\ UNCHANGED <<hwVars, at>>

EcInit ==
    /\ mem \in [Addresses -> Bytes]
    /\ port = "I2EC_REG_ADDR" /\ selected \in I2EC_ADDRs
    /\ high \in Bytes /\ low \in Bytes
    /\ lock = NoThread
    /\ pc = [t \in Threads |-> "idle"] /\ at = [t \in Threads |-> 0] /\ req = [t \in Threads |-> Nothing]
    /\ ret = [t \in Threads |-> Failed] /\ moved = [t \in Threads |-> Nothing]

AccessStep(t) == Acquire(t) \/ Select(t) \/ Transfer(t) \/ Unlock(t)

EcNext == \E t \in Threads : (\E r \in Requests : Call(t, r)) \/ AccessStep(t)

EcSpec == EcInit /\ [][EcNext]_portVars

-----------------------------------------------------------------------------
\* The layer that reads firmware version, fans and sensors takes the EC for
\* an EcRam: twelve port accesses of one access and those of another, in any
\* order, come to atomic accesses of the bytes meant.
Ram == INSTANCE EcRam WITH mem <- mem, req <- req, moved <- moved, ret <- ret

ImplementsRam == Ram!Spec
================================================================================
