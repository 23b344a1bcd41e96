---------------------------- MODULE UniwillEcProofs ----------------------------
(***************************************************************************)
(* Proofs about UniwillEc: for any number of threads, any bytes and any    *)
(* number of polls, a request in the mailbox is the lock holder's, and     *)
(* every access implements an access to plain bytes (EcRam).               *)
(***************************************************************************)
EXTENDS UniwillEc, TLAPS

Outside  == {"idle", "direct_lock", "wmi_lock"}
LowSet   == {"addr_high", "data", "go", "poll", "clear"}
HighSet  == {"data", "go", "poll", "clear"}
AllSet   == {"go", "poll", "clear"}
Raised   == {"poll", "clear"}
Finished == {"clear", "unlock"}
Untouched == Outside \cup {"wmi", "busy", "addr_low", "addr_high", "data", "go"}

\* The mutex is held by the one thread that is past its acquisition.
LockInv == \A t \in Threads : lock = t <=> pc[t] \notin Outside

\* A thread has a request exactly inside an access.
RequestInv == \A t \in Threads : req[t] = Nothing <=> pc[t] = "idle"

\* What the lock holder has put into the mailbox so far.
MailboxInv ==
    \A t \in Threads :
        /\ pc[t] \in LowSet \cup {"addr_low"} => busy
        /\ pc[t] \in LowSet => ldat = req[t].addr[1]
        /\ pc[t] \in HighSet => hdat = req[t].addr[2]
        /\ pc[t] \in AllSet /\ IsWrite(t) => cmdl = req[t].data
        /\ pc[t] \in Raised => reqFlag = req[t].kind

\* A request flag is up only while its thread polls or is about to clear it.
FlagInv == reqFlag # "none" => \E t \in Threads : pc[t] \in Raised

\* What a thread knows of the fate of its access.
OutcomeInv ==
    \A t \in Threads :
        /\ pc[t] \in Untouched => moved[t] = Nothing /\ ~ready[t]
        /\ pc[t] \in Raised => (drdy <=> moved[t] # Nothing)
        /\ pc[t] \in Raised /\ moved[t] # Nothing => cmdl = moved[t]
        /\ pc[t] = "poll" /\ ready[t] => drdy
        /\ pc[t] \in Finished => result[t] = Failed \/ result[t] = moved[t]

IInv == TypeOK /\ LockInv /\ RequestInv /\ MailboxInv /\ FlagInv /\ OutcomeInv

\* The request of a thread that is inside an access has its fields.
LEMMA ActiveRequest ==
    ASSUME TypeOK, RequestInv, NEW t \in Threads, pc[t] # "idle"
    PROVE  /\ req[t] \in Requests /\ req[t].kind \in {"read", "write"}
           /\ req[t].addr \in Addresses /\ req[t].data \in Bytes
           /\ req[t].addr[1] \in Bytes /\ req[t].addr[2] \in Bytes
           /\ req[t].addr = <<req[t].addr[1], req[t].addr[2]>>
<1>1. req[t] \in Requests
  BY DEF TypeOK, RequestInv
<1>2. req[t].kind \in {"read", "write"} /\ req[t].addr \in Bytes \X Bytes /\ req[t].data \in Bytes
  BY <1>1 DEF Requests, Addresses
<1>3. req[t].addr[1] \in Bytes /\ req[t].addr[2] \in Bytes
      /\ req[t].addr = <<req[t].addr[1], req[t].addr[2]>>
  BY <1>2
<1> QED
  BY <1>1, <1>2, <1>3 DEF Addresses

\* One step of any thread, of the EC or of the module parameter keeps the
\* types of the variables and the request of every access.
LEMMA TypeStep == TypeOK /\ RequestInv /\ [Next]_vars => TypeOK' /\ RequestInv'
<1> SUFFICES ASSUME TypeOK, RequestInv, [Next]_vars PROVE TypeOK' /\ RequestInv'
  OBVIOUS
<1> USE EcAssumption
<1>1. ASSUME NEW t \in Threads, NEW r \in Requests, Call(t, r) PROVE TypeOK' /\ RequestInv'
  <2>1. r # Nothing
    BY DEF Requests, Addresses
  <2> QED
    BY <1>1, <2>1 DEF Call, Step, Goto, ecVars, polling, TypeOK, Labels, RequestInv
<1>2. ASSUME NEW t \in Threads, AccessStep(t) PROVE TypeOK' /\ RequestInv'
  <2>1. CASE Acquire(t)
    BY <2>1 DEF Acquire, Step, Goto, ecVars, polling, TypeOK, Labels, RequestInv
  <2>2. CASE WmiServes(t)
    <3>1. req[t] \in Requests /\ req[t].addr \in Addresses /\ req[t].data \in Bytes
      BY <2>2, ActiveRequest DEF WmiServes, Step
    <3>2. mem' \in [Addresses -> Bytes]
      BY <2>2, <3>1 DEF WmiServes, TypeOK
    <3>3. moved' \in [Threads -> Bytes \cup {Nothing}] /\ result' \in [Threads -> Bytes \cup {Failed}]
      <4>1. mem'[req[t].addr] \in Bytes
        BY <3>1, <3>2
      <4>2. moved' = [moved EXCEPT ![t] = mem'[req[t].addr]] /\ moved'[t] = mem'[req[t].addr]
        BY <2>2 DEF WmiServes, TypeOK
      <4> QED
        BY <2>2, <4>1, <4>2 DEF WmiServes, TypeOK
    <3> QED
      BY <2>2, <3>2, <3>3 DEF WmiServes, Step, Goto, polling, TypeOK, Labels, RequestInv
  <2>3. CASE WmiFails(t)
    BY <2>3 DEF WmiFails, Step, Goto, ecVars, polling, TypeOK, Labels, RequestInv
  <2>4. CASE SetBusy(t)
    BY <2>4 DEF SetBusy, Step, Goto, polling, TypeOK, Labels, RequestInv
  <2>5. CASE WriteAddrLow(t)
    <3>1. req[t].addr[1] \in Bytes
      BY <2>5, ActiveRequest DEF WriteAddrLow, Step
    <3> QED
      BY <2>5, <3>1 DEF WriteAddrLow, Step, Goto, polling, TypeOK, Labels, RequestInv
  <2>6. CASE WriteAddrHigh(t)
    <3>1. req[t].addr[2] \in Bytes
      BY <2>6, ActiveRequest DEF WriteAddrHigh, Step
    <3> QED
      BY <2>6, <3>1 DEF WriteAddrHigh, Step, Goto, polling, TypeOK, Labels, RequestInv
  <2>7. CASE WriteData(t)
    <3>1. req[t].data \in Bytes
      BY <2>7, ActiveRequest DEF WriteData, Step
    <3> QED
      BY <2>7, <3>1 DEF WriteData, Step, Goto, polling, TypeOK, Labels, RequestInv
  <2>8. CASE Go(t)
    <3>1. req[t].kind \in {"read", "write"}
      BY <2>8, ActiveRequest DEF Go, Step
    <3>2. Polls \in 0..Polls
      OBVIOUS
    <3>3. drdy' \in BOOLEAN /\ count' \in [Threads -> 0..Polls]
      BY <2>8, <3>2 DEF Go, TypeOK
    <3> QED
      BY <2>8, <3>1, <3>3 DEF Go, Step, Goto, polling, TypeOK, Labels, RequestInv
  <2>9. CASE Poll(t)
    <3>1. count[t] - 1 \in 0..Polls
      BY <2>9 DEF Poll, TypeOK
    <3> QED
      BY <2>9, <3>1 DEF Poll, NextCount, ecVars, TypeOK, Labels, RequestInv
  <2>10. CASE PollEnd(t)
    BY <2>10 DEF PollEnd, Step, Goto, ecVars, polling, TypeOK, Labels, RequestInv
  <2>11. CASE ClearFlags(t)
    BY <2>11 DEF ClearFlags, Step, Goto, polling, TypeOK, Labels, RequestInv
  <2>12. CASE Unlock(t)
    BY <2>12 DEF Unlock, Step, Goto, ecVars, TypeOK, Labels, RequestInv
  <2> QED
    BY <1>2, <2>1, <2>2, <2>3, <2>4, <2>5, <2>6, <2>7, <2>8, <2>9, <2>10, <2>11, <2>12 DEF AccessStep
<1>3. ASSUME NEW t \in Threads, EcServe(t) PROVE TypeOK' /\ RequestInv'
  <2>1. <<ldat, hdat>> \in Addresses
    BY DEF TypeOK, Addresses
  <2>2. mem' \in [Addresses -> Bytes] /\ cmdl' \in Bytes
    BY <1>3, <2>1 DEF EcServe, TypeOK
  <2> QED
    BY <1>3, <2>2 DEF EcServe, polling, TypeOK, Labels, RequestInv
<1>4. CASE SetDirect
  BY <1>4 DEF SetDirect, ecVars, polling, TypeOK, RequestInv
<1>5. CASE UNCHANGED vars
  BY <1>5 DEF vars, ecVars, polling, TypeOK, RequestInv
<1> QED
  BY <1>1, <1>2, <1>3, <1>4, <1>5 DEF Next

\* The variables of UniwillEc have their types in every state: polls never go
\* below 0, and no byte comes from nowhere.
THEOREM TypeCorrect == Spec => []TypeOK
<1>1. Init => TypeOK /\ RequestInv
  <2>1. 0 \in 0..Polls
    BY EcAssumption
  <2> QED
    BY <2>1, EcAssumption, ZenonT(60) DEF Init, TypeOK, RequestInv, Labels
<1> QED
  BY <1>1, TypeStep, PTL DEF Spec

\* Only the holder of the mutex releases it, and only a free one is acquired.
LEMMA LockStep == TypeOK /\ LockInv /\ [Next]_vars => LockInv'
<1> SUFFICES ASSUME TypeOK, LockInv, [Next]_vars PROVE LockInv'
  OBVIOUS
<1> USE EcAssumption DEF Step, Goto, ecVars, polling, TypeOK, LockInv, Outside, LockFree
<1>1. ASSUME NEW t \in Threads, NEW r \in Requests, Call(t, r) PROVE LockInv'
  BY <1>1 DEF Call
<1>2. ASSUME NEW t \in Threads, AccessStep(t) PROVE LockInv'
  <2>1. CASE Acquire(t)
    BY <2>1 DEF Acquire
  <2>2. CASE WmiServes(t)
    BY <2>2 DEF WmiServes
  <2>3. CASE WmiFails(t)
    BY <2>3 DEF WmiFails
  <2>4. CASE SetBusy(t)
    BY <2>4 DEF SetBusy
  <2>5. CASE WriteAddrLow(t)
    BY <2>5 DEF WriteAddrLow
  <2>6. CASE WriteAddrHigh(t)
    BY <2>6 DEF WriteAddrHigh
  <2>7. CASE WriteData(t)
    BY <2>7 DEF WriteData
  <2>8. CASE Go(t)
    BY <2>8 DEF Go
  <2>9. CASE Poll(t)
    BY <2>9 DEF Poll
  <2>10. CASE PollEnd(t)
    BY <2>10 DEF PollEnd
  <2>11. CASE ClearFlags(t)
    BY <2>11 DEF ClearFlags
  <2>12. CASE Unlock(t)
    BY <2>12 DEF Unlock
  <2> QED
    BY <1>2, <2>1, <2>2, <2>3, <2>4, <2>5, <2>6, <2>7, <2>8, <2>9, <2>10, <2>11, <2>12 DEF AccessStep
<1>3. ASSUME NEW t \in Threads, EcServe(t) PROVE LockInv'
  BY <1>3 DEF EcServe
<1>4. CASE SetDirect
  BY <1>4 DEF SetDirect
<1>5. CASE UNCHANGED vars
  BY <1>5 DEF vars
<1> QED
  BY <1>1, <1>2, <1>3, <1>4, <1>5 DEF Next

\* The lock holder fills the mailbox in; nobody else touches it.
LEMMA MailboxStep ==
    TypeOK /\ RequestInv /\ LockInv /\ MailboxInv /\ FlagInv /\ [Next]_vars => MailboxInv' /\ FlagInv'
<1> SUFFICES ASSUME TypeOK, RequestInv, LockInv, MailboxInv, FlagInv, [Next]_vars PROVE MailboxInv' /\ FlagInv'
  OBVIOUS
<1> USE EcAssumption DEF Step, Goto, ecVars, polling, TypeOK, LockInv, MailboxInv, FlagInv, IsWrite,
       Outside, LowSet, HighSet, AllSet, Raised
<1>1. ASSUME NEW t \in Threads, NEW r \in Requests, Call(t, r) PROVE MailboxInv' /\ FlagInv'
  BY <1>1 DEF Call
<1>2. ASSUME NEW t \in Threads, AccessStep(t) PROVE MailboxInv' /\ FlagInv'
  <2>1. CASE Acquire(t)
    BY <2>1 DEF Acquire
  <2>2. CASE WmiServes(t)
    BY <2>2 DEF WmiServes
  <2>3. CASE WmiFails(t)
    BY <2>3 DEF WmiFails
  <2>4. CASE SetBusy(t)
    BY <2>4 DEF SetBusy
  <2>5. CASE WriteAddrLow(t)
    BY <2>5 DEF WriteAddrLow
  <2>6. CASE WriteAddrHigh(t)
    BY <2>6 DEF WriteAddrHigh
  <2>7. CASE WriteData(t)
    BY <2>7 DEF WriteData
  <2>8. CASE Go(t)
    BY <2>8 DEF Go
  <2>9. CASE Poll(t)
    BY <2>9 DEF Poll
  <2>10. CASE PollEnd(t)
    BY <2>10 DEF PollEnd
  <2>11. CASE ClearFlags(t)
    BY <2>11 DEF ClearFlags
  <2>12. CASE Unlock(t)
    BY <2>12 DEF Unlock
  <2> QED
    BY <1>2, <2>1, <2>2, <2>3, <2>4, <2>5, <2>6, <2>7, <2>8, <2>9, <2>10, <2>11, <2>12 DEF AccessStep
<1>3. ASSUME NEW t \in Threads, EcServe(t) PROVE MailboxInv' /\ FlagInv'
  BY <1>3 DEF EcServe
<1>4. CASE SetDirect
  BY <1>4 DEF SetDirect
<1>5. CASE UNCHANGED vars
  BY <1>5 DEF vars
<1> QED
  BY <1>1, <1>2, <1>3, <1>4, <1>5 DEF Next

\* An access takes effect at most once, and what it found reaches its result.
LEMMA OutcomeStep ==
    TypeOK /\ RequestInv /\ LockInv /\ MailboxInv /\ FlagInv /\ OutcomeInv /\ [Next]_vars => OutcomeInv'
<1> SUFFICES ASSUME TypeOK, RequestInv, LockInv, MailboxInv, FlagInv, OutcomeInv, [Next]_vars PROVE OutcomeInv'
  OBVIOUS
<1> USE EcAssumption DEF Step, Goto, ecVars, polling, TypeOK, LockInv, FlagInv, OutcomeInv,
       Outside, Raised, Finished, Untouched
<1>1. ASSUME NEW t \in Threads, NEW r \in Requests, Call(t, r) PROVE OutcomeInv'
  BY <1>1 DEF Call
<1>2. ASSUME NEW t \in Threads, AccessStep(t) PROVE OutcomeInv'
  <2>1. CASE Acquire(t)
    BY <2>1 DEF Acquire
  <2>2. CASE WmiServes(t)
    BY <2>2 DEF WmiServes
  <2>3. CASE WmiFails(t)
    BY <2>3 DEF WmiFails
  <2>4. CASE SetBusy(t)
    BY <2>4 DEF SetBusy
  <2>5. CASE WriteAddrLow(t)
    BY <2>5 DEF WriteAddrLow
  <2>6. CASE WriteAddrHigh(t)
    BY <2>6 DEF WriteAddrHigh
  <2>7. CASE WriteData(t)
    BY <2>7 DEF WriteData
  <2>8. CASE Go(t)
    BY <2>8 DEF Go
  <2>9. CASE Poll(t)
    BY <2>9 DEF Poll
  <2>10. CASE PollEnd(t)
    BY <2>10 DEF PollEnd, ReportedServed
  <2>11. CASE ClearFlags(t)
    BY <2>11 DEF ClearFlags
  <2>12. CASE Unlock(t)
    BY <2>12 DEF Unlock
  <2> QED
    BY <1>2, <2>1, <2>2, <2>3, <2>4, <2>5, <2>6, <2>7, <2>8, <2>9, <2>10, <2>11, <2>12 DEF AccessStep
<1>3. ASSUME NEW t \in Threads, EcServe(t) PROVE OutcomeInv'
  <2>1. cmdl' \in Bytes
    <3>1. <<ldat, hdat>> \in Addresses
      BY DEF TypeOK, Addresses
    <3> QED
      BY <1>3, <3>1 DEF EcServe, TypeOK
  <2>2. pc[t] \in Raised /\ moved[t] = Nothing
    BY <1>3 DEF EcServe, LockInv, FlagInv, OutcomeInv, Outside, Raised
  <2>3. pc[t] = "clear" => result[t] = Failed
    BY <2>2 DEF OutcomeInv, Finished, TypeOK
  <2> QED
    BY <1>3, <2>1, <2>2, <2>3 DEF EcServe
<1>4. CASE SetDirect
  BY <1>4 DEF SetDirect
<1>5. CASE UNCHANGED vars
  BY <1>5 DEF vars
<1> QED
  BY <1>1, <1>2, <1>3, <1>4, <1>5 DEF Next

-----------------------------------------------------------------------------
\* The invariant holds in every state.
LEMMA Invariant == Spec => []IInv
<1>1. Init => IInv
  <2>1. Init => TypeOK
    <3>1. 0 \in 0..Polls
      BY EcAssumption
    <3> QED
      BY <3>1, EcAssumption, ZenonT(60) DEF Init, TypeOK, Labels
  <2>2. Init => LockInv /\ RequestInv /\ FlagInv
    BY EcAssumption DEF Init, LockInv, RequestInv, FlagInv, Outside
  <2>3. Init => MailboxInv
    BY DEF Init, MailboxInv, LowSet, HighSet, AllSet, Raised
  <2>4. Init => OutcomeInv
    BY DEF Init, OutcomeInv, Untouched, Raised, Finished
  <2> QED
    BY <2>1, <2>2, <2>3, <2>4 DEF IInv
<1>2. IInv /\ [Next]_vars => IInv'
  BY TypeStep, LockStep, MailboxStep, OutcomeStep DEF IInv
<1> QED
  BY <1>1, <1>2, PTL DEF Spec

\* A request that the EC can see in its mailbox is, byte for byte, the request
\* of the thread that holds uniwill_ec_lock (the direct access functions).
THEOREM CommandAlwaysIntact == Spec => []CommandIntact
<1>1. IInv => CommandIntact
  <2> SUFFICES ASSUME IInv, reqFlag # "none" PROVE CommandIntact
    BY DEF CommandIntact
  <2>1. PICK t \in Threads : pc[t] \in Raised
    BY DEF IInv, FlagInv
  <2>2. lock = t /\ req[t].addr = <<req[t].addr[1], req[t].addr[2]>>
    BY <2>1, ActiveRequest DEF IInv, LockInv, Raised, Outside
  <2> QED
    BY <2>1, <2>2 DEF IInv, MailboxInv, CommandIntact, IsWrite, Raised, LowSet, HighSet, AllSet
<1> QED
  BY <1>1, Invariant, PTL

\* One step of an access, however it is made, is a step of the access to plain
\* bytes or changes nothing that such an access has.
LEMMA StepSimulation == IInv /\ IInv' /\ [Next]_vars => [Ram!Next]_(Ram!ramVars)
<1> SUFFICES ASSUME IInv, IInv', [Next]_vars PROVE Ram!Next \/ UNCHANGED Ram!ramVars
  OBVIOUS
<1> USE DEF Ram!ramVars
<1>1. ASSUME NEW t \in Threads, NEW r \in Requests, Call(t, r) PROVE Ram!Next
  <2>1. r \in Ram!Requests
    BY DEF Requests, Addresses, Ram!Requests, Ram!Addresses
  <2>2. Ram!Call(t, r)
    BY <1>1 DEF Call, Step, ecVars, IInv, RequestInv, Ram!Call
  <2> QED
    BY <2>1, <2>2 DEF Ram!Next
<1>2. ASSUME NEW t \in Threads, WmiServes(t) PROVE Ram!Next
  <2>1. /\ req[t] # Nothing /\ moved[t] = Nothing
        /\ req[t].addr \in Addresses /\ req[t].kind \in {"read", "write"}
    BY <1>2, ActiveRequest DEF WmiServes, Step, IInv, RequestInv, OutcomeInv, Untouched
  <2>2. Ram!Perform(t)
    <3>1. CASE IsWrite(t)
      <4>1. mem' = [mem EXCEPT ![req[t].addr] = req[t].data]
        BY <1>2, <3>1 DEF WmiServes
      <4>2. mem'[req[t].addr] = req[t].data
        BY <2>1, <4>1 DEF IInv, TypeOK
      <4> QED
        BY <1>2, <2>1, <3>1, <4>1, <4>2 DEF WmiServes, IsWrite, Ram!Perform
    <3>2. CASE ~IsWrite(t)
      BY <1>2, <2>1, <3>2 DEF WmiServes, IsWrite, Ram!Perform
    <3> QED
      BY <3>1, <3>2
  <2> QED
    BY <2>2 DEF Ram!Next
<1>3. ASSUME NEW t \in Threads, EcServe(t) PROVE Ram!Next
  <2>1. pc[t] \in Raised /\ moved[t] = Nothing
    BY <1>3 DEF EcServe, IInv, LockInv, FlagInv, OutcomeInv, Outside, Raised
  <2>2. /\ req[t] # Nothing /\ req[t].kind \in {"read", "write"}
        /\ req[t].addr = <<req[t].addr[1], req[t].addr[2]>>
    BY <2>1, ActiveRequest DEF IInv, RequestInv, Raised
  <2>3. reqFlag = req[t].kind /\ req[t].addr = <<ldat, hdat>>
        /\ (reqFlag = "write" => cmdl = req[t].data)
    BY <2>1, <2>2 DEF IInv, MailboxInv, IsWrite, Raised, LowSet, HighSet, AllSet
  <2>4. Ram!Perform(t)
    BY <1>3, <2>1, <2>2, <2>3 DEF EcServe, Ram!Perform
  <2> QED
    BY <2>4 DEF Ram!Next
<1>4. ASSUME NEW t \in Threads, Unlock(t) PROVE Ram!Next
  <2>1. req[t] # Nothing /\ (result[t] = Failed \/ result[t] = moved[t])
    BY <1>4 DEF Unlock, Step, IInv, RequestInv, OutcomeInv, Finished
  <2>2. ret' = [ret EXCEPT ![t] = Failed] \/ (moved[t] # Nothing /\ ret' = [ret EXCEPT ![t] = moved[t]])
    <3>1. ret' = [ret EXCEPT ![t] = result[t]] /\ result[t] # Nothing
      BY <1>4, EcAssumption DEF Unlock, IInv, TypeOK
    <3> QED
      BY <2>1, <3>1
  <2>3. Ram!Return(t)
    BY <1>4, <2>1, <2>2 DEF Unlock, ecVars, Ram!Return
  <2> QED
    BY <2>3 DEF Ram!Next
<1>5. ASSUME NEW t \in Threads, AccessStep(t), ~WmiServes(t), ~Unlock(t) PROVE UNCHANGED Ram!ramVars
  BY <1>5 DEF AccessStep, Acquire, WmiFails, SetBusy, WriteAddrLow, WriteAddrHigh, WriteData, Go,
     Poll, PollEnd, ClearFlags, ecVars
<1>6. CASE SetDirect \/ UNCHANGED vars
  BY <1>6 DEF SetDirect, vars, ecVars
<1> QED
  BY <1>1, <1>2, <1>3, <1>4, <1>5, <1>6 DEF Next

\* The access functions of uniwill_wmi.c, over the mailbox or over WMI and
\* switched from one to the other at any time, implement an EC RAM whose bytes
\* are read and written in one step.
THEOREM AccessIsAtomic == Spec => ImplementsRam
<1>1. Init => Ram!Init
  BY DEF Init, Ram!Init, Addresses, Ram!Addresses
<1> QED
  BY <1>1, Invariant, StepSimulation, PTL DEF Spec, Ram!Spec, ImplementsRam

-----------------------------------------------------------------------------
(* Why every access returns *)

\* How many steps of its own a thread takes at most until its access returns:
\* a direct access writes three or four mailbox registers and the flags, polls
\* and clears the flags, an access through WMI is one call.
StepsLeft(t) ==
    IF pc[t] = "idle" THEN 0
    ELSE IF pc[t] = "unlock" THEN 1
    ELSE IF pc[t] \in {"clear", "wmi"} THEN 2
    ELSE IF pc[t] = "wmi_lock" THEN 3
    ELSE IF pc[t] = "poll" THEN 3 + (IF ready[t] THEN 0 ELSE count[t])
    ELSE Polls + (IF pc[t] = "go" THEN 4
                  ELSE IF pc[t] = "data" THEN 5
                  ELSE IF pc[t] = "addr_high" THEN 6
                  ELSE IF pc[t] = "addr_low" THEN 7
                  ELSE IF pc[t] = "busy" THEN 8
                  ELSE 9)

\* An access never takes more than Polls + 9 steps of its own thread (nine
\* around the polls of uw_ec_write_addr_direct), whatever the EC, the other
\* threads and ec_direct_io do meanwhile: each of its steps brings it nearer to
\* its end, and no other step takes it back.
AccessGoesOn(t) ==
    pc[t] # "idle" =>
        /\ StepsLeft(t) \in 1..Polls + 9 /\ StepsLeft(t)' \in 0..StepsLeft(t)
        /\ AccessStep(t) => StepsLeft(t)' < StepsLeft(t)
        /\ StepsLeft(t)' = 0 => pc'[t] = "idle"

AccessesEnd == [][\A t \in Threads : AccessGoesOn(t)]_vars

\* The next step of a thread inside an access, a matter of its place alone.
LEMMA OwnStepLowers ==
    ASSUME TypeOK, NEW t \in Threads, AccessStep(t)
    PROVE  StepsLeft(t)' < StepsLeft(t)
<1> USE EcAssumption DEF TypeOK, Step, Goto
<1>1. CASE Acquire(t)
  BY <1>1 DEF Acquire, StepsLeft
<1>2. CASE WmiServes(t)
  BY <1>2 DEF WmiServes, StepsLeft
<1>3. CASE WmiFails(t)
  BY <1>3 DEF WmiFails, StepsLeft
<1>4. CASE SetBusy(t)
  BY <1>4 DEF SetBusy, StepsLeft
<1>5. CASE WriteAddrLow(t)
  BY <1>5 DEF WriteAddrLow, StepsLeft
<1>6. CASE WriteAddrHigh(t)
  BY <1>6 DEF WriteAddrHigh, StepsLeft
<1>7. CASE WriteData(t)
  BY <1>7 DEF WriteData, StepsLeft
<1>8. CASE Go(t)
  BY <1>8 DEF Go, StepsLeft
<1>9. CASE Poll(t)
  BY <1>9 DEF Poll, NextCount, StepsLeft
<1>10. CASE PollEnd(t)
  BY <1>10 DEF PollEnd, StepsLeft
<1>11. CASE ClearFlags(t)
  BY <1>11 DEF ClearFlags, StepsLeft
<1>12. CASE Unlock(t)
  BY <1>12 DEF Unlock, StepsLeft
<1> QED
  BY <1>1, <1>2, <1>3, <1>4, <1>5, <1>6, <1>7, <1>8, <1>9, <1>10, <1>11, <1>12 DEF AccessStep

\* Nobody else moves the thread, and no step but its own polls for it.
LEMMA OthersLeaveIt ==
    ASSUME TypeOK, [Next]_vars, NEW t \in Threads, pc[t] # "idle", ~AccessStep(t)
    PROVE  StepsLeft(t)' = StepsLeft(t) /\ pc'[t] = pc[t]
<1> SUFFICES pc'[t] = pc[t] /\ count'[t] = count[t] /\ ready'[t] = ready[t]
  BY DEF StepsLeft
<1> USE DEF TypeOK, Step, Goto, polling
<1>1. ASSUME NEW u \in Threads, NEW r \in Requests, Call(u, r)
      PROVE  pc'[t] = pc[t] /\ count'[t] = count[t] /\ ready'[t] = ready[t]
  BY <1>1 DEF Call
<1>2. ASSUME NEW u \in Threads, u # t, AccessStep(u)
      PROVE  pc'[t] = pc[t] /\ count'[t] = count[t] /\ ready'[t] = ready[t]
  BY <1>2 DEF AccessStep, Acquire, WmiServes, WmiFails, SetBusy, WriteAddrLow, WriteAddrHigh, WriteData, Go,
     Poll, PollEnd, ClearFlags, Unlock
<1>3. CASE \E u \in Threads : EcServe(u)
  BY <1>3 DEF EcServe
<1>4. CASE SetDirect \/ UNCHANGED vars
  BY <1>4 DEF SetDirect, vars
<1> QED
  BY <1>1, <1>2, <1>3, <1>4 DEF Next

\* Inside an access there is a step to take.
LEMMA StepsAreLeft ==
    TypeOK => \A t \in Threads : StepsLeft(t) \in 0..Polls + 9 /\ (StepsLeft(t) = 0 <=> pc[t] = "idle")
<1> SUFFICES ASSUME TypeOK, NEW t \in Threads
             PROVE  StepsLeft(t) \in 0..Polls + 9 /\ (StepsLeft(t) = 0 <=> pc[t] = "idle")
  OBVIOUS
<1>1. pc[t] \in Labels /\ count[t] \in 0..Polls /\ Polls \in Nat
  BY EcAssumption DEF TypeOK
<1>2. CASE pc[t] \in {"idle", "wmi_lock", "wmi", "clear", "unlock"}
  BY <1>1, <1>2 DEF StepsLeft
<1>3. CASE pc[t] \in {"direct_lock", "busy", "addr_low", "addr_high", "data", "go"}
  BY <1>1, <1>3 DEF StepsLeft
<1>4. CASE pc[t] = "poll"
  BY <1>1, <1>4 DEF StepsLeft
<1> QED
  BY <1>1, <1>2, <1>3, <1>4 DEF Labels

\* AccessReturns without the fairness: an access of any number of threads, over
\* the mailbox or over WMI, ends after at most Polls + 9 steps of its thread.
THEOREM AccessesAlwaysEnd == Spec => AccessesEnd
<1> DEFINE Left == \A t \in Threads : StepsLeft(t) \in 0..Polls + 9 /\ (StepsLeft(t) = 0 <=> pc[t] = "idle")
<1>1. TypeOK => Left
  BY StepsAreLeft
<1>2. TypeOK' => Left'
  BY <1>1, PTL
<1>3. TypeOK /\ TypeOK' /\ [Next]_vars => [\A t \in Threads : AccessGoesOn(t)]_vars
  <2> SUFFICES ASSUME TypeOK, TypeOK', [Next]_vars, NEW t \in Threads, pc[t] # "idle" PROVE AccessGoesOn(t)
    BY DEF AccessGoesOn
  <2>1. StepsLeft(t) \in 1..Polls + 9
    <3>1. StepsLeft(t) \in 0..Polls + 9 /\ StepsLeft(t) # 0
      BY StepsAreLeft
    <3> HIDE DEF StepsLeft
    <3> QED
      BY <3>1, EcAssumption
  <2>2. StepsLeft(t)' \in 0..Polls + 9 /\ (StepsLeft(t)' = 0 => pc'[t] = "idle")
    BY <1>2
  <2>3. AccessStep(t) => StepsLeft(t)' < StepsLeft(t)
    BY OwnStepLowers
  <2>4. ~AccessStep(t) => StepsLeft(t)' = StepsLeft(t)
    BY OthersLeaveIt
  <2> HIDE DEF StepsLeft, AccessStep
  <2> QED
    BY <2>1, <2>2, <2>3, <2>4, EcAssumption DEF AccessGoesOn
<1> QED
  BY <1>3, TypeCorrect, PTL DEF Spec, AccessesEnd
================================================================================
