------------------------------- MODULE UniwillEc -------------------------------
(***************************************************************************)
(* The EC access functions of src/src/uniwill_wmi.c: direct access through *)
(* the mailbox registers of the EC (uw_ec_read_addr_direct,                *)
(* uw_ec_write_addr_direct) and access through the WMI method              *)
(* (uw_wmi_ec_evaluate), chosen per access by the module parameter         *)
(* ec_direct_io, which may change at any time.  Both take uniwill_ec_lock. *)
(*                                                                         *)
(* A direct access fills in a two-byte address, and for a write the data,  *)
(* raises a request flag and polls for the ready flag, at most Polls       *)
(* times.  The EC itself is external: it serves a request whose flag is up *)
(* at some later time, or never.                                           *)
(***************************************************************************)
EXTENDS Naturals

CONSTANTS
    Threads,   \* threads that access the EC
    NoThread,  \* the lock is free
    Bytes,     \* values of a byte, of the address and of the data
    Failed,    \* the access returns -EIO
    Nothing,   \* no request, or no byte yet
    Polls      \* UW_EC_BUSY_WAIT_CYCLES (30 in the code)

ASSUME EcAssumption == /\ NoThread \notin Threads
                       /\ Nothing \notin [kind : {"read", "write"}, addr : Bytes \X Bytes, data : Bytes]
                       /\ Failed \notin Bytes /\ Nothing \notin Bytes /\ Failed # Nothing
                       /\ Bytes # {}
                       /\ Polls \in Nat \ {0}

Addresses == Bytes \X Bytes
Requests  == [kind : {"read", "write"}, addr : Addresses, data : Bytes]

VARIABLES
    mem,               \* EC: its RAM
    reqFlag,           \* EC: RFLG or WFLG in FLAGS, "read" or "write"; "none"
    busy,              \* EC: BFLG in FLAGS
    drdy,              \* EC: DRDY in FLAGS
    ldat, hdat, cmdl,  \* EC: the mailbox bytes (the high data byte is always 0)
    direct,            \* the module parameter ec_direct_io
    lock,              \* the holder of uniwill_ec_lock
    pc,                \* where each thread is
    req,               \* the request of its access, Nothing outside one
    count,             \* polls left
    ready,             \* DRDY as last polled
    result,            \* what the access is going to return
    ret,               \* what the thread's last access returned
    moved              \* history: the byte the EC wrote or read for the access

ecVars  == <<mem, reqFlag, busy, drdy, ldat, hdat, cmdl>>
polling == <<count, ready>>
vars == <<ecVars, direct, lock, pc, req, polling, result, ret, moved>>

Goto(t, l) == pc' = [pc EXCEPT ![t] = l]
Step(t, from, to) == pc[t] = from /\ Goto(t, to)
IsWrite(t) == req[t].kind = "write"

-----------------------------------------------------------------------------
(* uw_wmi_read_ec_ram and uw_wmi_write_ec_ram *)
Call(t, r) ==
    /\ Step(t, "idle", IF direct THEN "direct_lock" ELSE "wmi_lock")
    /\ req' = [req EXCEPT ![t] = r]
    /\ UNCHANGED <<ecVars, direct, lock, polling, result, ret, moved>>

\* Mutant: no mutex.
LockIgnored == TRUE

LockFree == lock = NoThread

Acquire(t) ==
    /\ LockFree
    /\ \/ Step(t, "direct_lock", "busy")
       \/ Step(t, "wmi_lock", "wmi")
    /\ lock' = t
    /\ UNCHANGED <<ecVars, direct, req, polling, result, ret, moved>>

(***************************************************************************)
(* The firmware method does the whole access.  It fails by an ACPI error   *)
(* or by answering 0xfefefefe, before or after the access took effect.     *)
(***************************************************************************)
WmiServes(t) ==
    /\ Step(t, "wmi", "unlock")
    /\ mem' = IF IsWrite(t) THEN [mem EXCEPT ![req[t].addr] = req[t].data] ELSE mem
    /\ moved' = [moved EXCEPT ![t] = mem'[req[t].addr]]
    /\ result' \in {[result EXCEPT ![t] = moved'[t]], [result EXCEPT ![t] = Failed]}
    /\ UNCHANGED <<reqFlag, busy, drdy, ldat, hdat, cmdl, direct, lock, req, polling, ret>>

WmiFails(t) ==
    /\ Step(t, "wmi", "unlock")
    /\ result' = [result EXCEPT ![t] = Failed]
    /\ UNCHANGED <<ecVars, direct, lock, req, polling, ret, moved>>

(* The direct access, one mailbox register at a time *)

SetBusy(t) ==
    /\ Step(t, "busy", "addr_low")
    /\ busy' = TRUE
    /\ UNCHANGED <<mem, reqFlag, drdy, ldat, hdat, cmdl, direct, lock, req, polling, result, ret, moved>>

WriteAddrLow(t) ==
    /\ Step(t, "addr_low", "addr_high")
    /\ ldat' = req[t].addr[1]
    /\ UNCHANGED <<mem, reqFlag, busy, drdy, hdat, cmdl, direct, lock, req, polling, result, ret, moved>>

WriteAddrHigh(t) ==
    /\ Step(t, "addr_high", IF IsWrite(t) THEN "data" ELSE "go")
    /\ hdat' = req[t].addr[2]
    /\ UNCHANGED <<mem, reqFlag, busy, drdy, ldat, cmdl, direct, lock, req, polling, result, ret, moved>>

WriteData(t) ==
    /\ Step(t, "data", "go")
    /\ cmdl' = req[t].data
    /\ UNCHANGED <<mem, reqFlag, busy, drdy, ldat, hdat, direct, lock, req, polling, result, ret, moved>>

\* DRDY off and the request flag on, in one write of FLAGS
Go(t) ==
    /\ Step(t, "go", "poll")
    /\ drdy' = FALSE /\ reqFlag' = req[t].kind
    /\ count' = [count EXCEPT ![t] = Polls]
    /\ UNCHANGED <<mem, busy, ldat, hdat, cmdl, direct, lock, req, ready, result, ret, moved>>

\* Mutant: the count of the polls left is not decremented.
SameCount(c) == c

NextCount(c) == c - 1

Poll(t) ==
    /\ pc[t] = "poll" /\ ~ready[t] /\ count[t] # 0
    /\ ready' = [ready EXCEPT ![t] = drdy]
    /\ count' = [count EXCEPT ![t] = NextCount(@)]
    /\ UNCHANGED <<ecVars, direct, lock, pc, req, result, ret, moved>>

\* Mutant: a timeout is not reported.
AlwaysServed(t) == TRUE

\* The code tests the count, not the flag: an answer seen by the last poll is
\* taken for a timeout.
ReportedServed(t) == count[t] # 0

PollEnd(t) ==
    /\ ready[t] \/ count[t] = 0
    /\ Step(t, "poll", "clear")
    /\ result' = [result EXCEPT ![t] = IF ReportedServed(t) THEN cmdl ELSE Failed]
    /\ UNCHANGED <<ecVars, direct, lock, req, polling, ret, moved>>

ClearFlags(t) ==
    /\ Step(t, "clear", "unlock")
    /\ reqFlag' = "none" /\ busy' = FALSE /\ drdy' = FALSE
    /\ UNCHANGED <<mem, ldat, hdat, cmdl, direct, lock, req, polling, result, ret, moved>>

\* The mutex is released and the function returns; its locals are gone.
Unlock(t) ==
    /\ Step(t, "unlock", "idle")
    /\ lock' = NoThread
    /\ ret' = [ret EXCEPT ![t] = result[t]]
    /\ req' = [req EXCEPT ![t] = Nothing]
    /\ result' = [result EXCEPT ![t] = Failed]
    /\ count' = [count EXCEPT ![t] = 0] /\ ready' = [ready EXCEPT ![t] = FALSE]
    /\ moved' = [moved EXCEPT ![t] = Nothing]
    /\ UNCHANGED <<ecVars, direct>>

-----------------------------------------------------------------------------
\* The EC serves the request in its mailbox.  For the history, that request
\* is the one of the thread that holds the lock.
EcServe(t) ==
    /\ reqFlag # "none" /\ ~drdy
    /\ lock = t
    /\ IF reqFlag = "write"
       THEN /\ mem' = [mem EXCEPT ![<<ldat, hdat>>] = cmdl]
            /\ UNCHANGED cmdl
       ELSE /\ cmdl' = mem[<<ldat, hdat>>]
            /\ UNCHANGED mem
    /\ drdy' = TRUE
    /\ moved' = [moved EXCEPT ![t] = cmdl']
    /\ UNCHANGED <<reqFlag, busy, ldat, hdat, direct, lock, pc, req, polling, result, ret>>

\* A write to /sys/module/uniwill_wmi/parameters/ec_direct_io
SetDirect ==
    /\ direct' = ~direct
    /\ UNCHANGED <<ecVars, lock, pc, req, polling, result, ret, moved>>

Init ==
    /\ mem \in [Addresses -> Bytes]
    /\ reqFlag = "none" /\ busy = FALSE /\ drdy = FALSE
    /\ ldat \in Bytes /\ hdat \in Bytes /\ cmdl \in Bytes
    /\ direct = FALSE
    /\ lock = NoThread
    /\ pc = [t \in Threads |-> "idle"]
    /\ req = [t \in Threads |-> Nothing]
    /\ count = [t \in Threads |-> 0]
    /\ ready = [t \in Threads |-> FALSE]
    /\ result = [t \in Threads |-> Failed]
    /\ ret = [t \in Threads |-> Failed]
    /\ moved = [t \in Threads |-> Nothing]

AccessStep(t) ==
    \/ Acquire(t) \/ WmiServes(t) \/ WmiFails(t)
    \/ SetBusy(t) \/ WriteAddrLow(t) \/ WriteAddrHigh(t) \/ WriteData(t) \/ Go(t)
    \/ Poll(t) \/ PollEnd(t) \/ ClearFlags(t) \/ Unlock(t)

Next ==
    \/ \E t \in Threads : (\E r \in Requests : Call(t, r)) \/ AccessStep(t) \/ EcServe(t)
    \/ SetDirect

Spec == Init /\ [][Next]_vars

(***************************************************************************)
(* A thread inside an access goes on, and gets the mutex if it is free     *)
(* often enough (a kernel mutex hands over to its first waiter).  Nothing  *)
(* is assumed of the EC: it may never answer.                              *)
(***************************************************************************)
Fairness == \A t \in Threads : WF_vars(AccessStep(t)) /\ SF_vars(Acquire(t))

FairSpec == Spec /\ Fairness

-----------------------------------------------------------------------------
Labels == {"idle", "direct_lock", "wmi_lock", "wmi", "busy", "addr_low", "addr_high",
           "data", "go", "poll", "clear", "unlock"}

TypeOK ==
    /\ mem \in [Addresses -> Bytes]
    /\ reqFlag \in {"none", "read", "write"} /\ busy \in BOOLEAN /\ drdy \in BOOLEAN
    /\ ldat \in Bytes /\ hdat \in Bytes /\ cmdl \in Bytes
    /\ direct \in BOOLEAN
    /\ lock \in Threads \cup {NoThread}
    /\ pc \in [Threads -> Labels]
    /\ req \in [Threads -> Requests \cup {Nothing}]
    /\ count \in [Threads -> 0..Polls]
    /\ ready \in [Threads -> BOOLEAN]
    /\ result \in [Threads -> Bytes \cup {Failed}]
    /\ ret \in [Threads -> Bytes \cup {Failed}]
    /\ moved \in [Threads -> Bytes \cup {Nothing}]

\* A request the EC can see is exactly the request of the thread that holds
\* the mutex: no address of one access with the data or the kind of another.
CommandIntact ==
    reqFlag # "none" =>
        /\ lock \in Threads /\ busy
        /\ reqFlag = req[lock].kind
        /\ <<ldat, hdat>> = req[lock].addr
        /\ reqFlag = "write" => cmdl = req[lock].data

\* Every access implements an access to plain bytes: it takes effect in one
\* step, at most once, and a reported success is true, with the byte that was
\* there.
Ram == INSTANCE EcRam WITH mem <- mem, req <- req, moved <- moved, ret <- ret

ImplementsRam == Ram!Spec

\* No access waits for ever, even if the EC never answers.
AccessReturns == \A t \in Threads : pc[t] # "idle" ~> pc[t] = "idle"
===============================================================================
