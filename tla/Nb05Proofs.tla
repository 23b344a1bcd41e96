------------------------------- MODULE Nb05Proofs -------------------------------
(***************************************************************************)
(* Proofs about the NB05 devices.  Nb05Ec: for any number of threads and   *)
(* any bytes, accesses to the EC through the index and data ports          *)
(* implement EcRam.  PwmFans: for any writers and requests, no fan is made *)
(* to stall, the hot zones stay cooled, and a store that was alone is in   *)
(* force in all zones and in both units.                                   *)
(***************************************************************************)
EXTENDS Nb05Ec, PwmFans, SequenceTheorems, TLAPS

(***************************************************************************)
(* The accesses to the EC.                                                 *)
(***************************************************************************)

Outside  == {"idle", "lock"}
Moving   == {"select", "transfer"}
Labels   == Outside \cup Moving \cup {"unlock"}

EcTypes ==
    /\ mem \in [Addresses -> Bytes] /\ high \in Bytes /\ low \in Bytes
    /\ pc \in [Threads -> Labels] /\ at \in [Threads -> 0..6]
    /\ req \in [Threads -> Requests \cup {Nothing}]
    /\ moved \in [Threads -> Bytes \cup {Nothing}]
    /\ ret \in [Threads -> Bytes \cup {Failed}]

\* The mutex is held by the one thread inside; a request is there in an access.
LockInv    == \A t \in Threads : lock = t <=> pc[t] \notin Outside
RequestInv == \A t \in Threads : req[t] = Nothing <=> pc[t] = "idle"

\* What the thread inside has put into the registers by its at-th access.
RegisterInv ==
    \A t \in Threads :
        /\ pc[t] = "transfer" => port = Accesses(req[t])[at[t]].register
        /\ pc[t] \in Moving =>
             /\ at[t] # 0
             /\ at[t] = 2 => selected = "I2EC_ADDR_HIGH"
             /\ at[t] = 4 => selected = "I2EC_ADDR_LOW"
             /\ at[t] = 6 => selected = "I2EC_ADDR_DATA"
             /\ at[t] > 2 => high = req[t].addr[2]
             /\ at[t] > 4 => low = req[t].addr[1]

\* An access moves its byte with the last transfer.
MovedInv == \A t \in Threads : moved[t] = Nothing <=> pc[t] # "unlock"

EcInv == EcTypes /\ LockInv /\ RequestInv /\ RegisterInv /\ MovedInv

\* The fields of the request of a thread in an access.
LEMMA ActiveRequest ==
    ASSUME EcTypes, RequestInv, NEW t \in Threads, pc[t] # "idle"
    PROVE  /\ req[t] \in Requests /\ req[t].kind \in {"read", "write"}
           /\ req[t].addr \in Addresses /\ req[t].data \in Bytes
           /\ req[t].addr[1] \in Bytes /\ req[t].addr[2] \in Bytes
           /\ req[t].addr = <<req[t].addr[1], req[t].addr[2]>>
<1>1. req[t] \in Requests
  BY DEF EcTypes, RequestInv
<1>2. req[t].kind \in {"read", "write"} /\ req[t].addr \in Bytes \X Bytes /\ req[t].data \in Bytes
  BY <1>1 DEF Requests, Addresses
<1>3. req[t].addr[1] \in Bytes /\ req[t].addr[2] \in Bytes
      /\ req[t].addr = <<req[t].addr[1], req[t].addr[2]>>
  BY <1>2
<1> QED
  BY <1>1, <1>2, <1>3 DEF Addresses

\* The six accesses of a function one by one.
LEMMA AccessAt ==
    ASSUME NEW r
    PROVE  /\ \A i \in {1, 3, 5} : Accesses(r)[i].register = "I2EC_REG_ADDR"
           /\ \A i \in {2, 4, 6} : Accesses(r)[i].register = "I2EC_REG_DATA"
           /\ \A i \in 1..5 : Accesses(r)[i].write
           /\ Accesses(r)[1].data = "I2EC_ADDR_HIGH" /\ Accesses(r)[2].data = r.addr[2]
           /\ Accesses(r)[3].data = "I2EC_ADDR_LOW"  /\ Accesses(r)[4].data = r.addr[1]
           /\ Accesses(r)[5].data = "I2EC_ADDR_DATA"
           /\ Accesses(r)[6].write <=> r.kind = "write"
           /\ r.kind = "write" => Accesses(r)[6].data = r.data
<1>1. /\ Accesses(r)[1].register = "I2EC_REG_ADDR" /\ Accesses(r)[1].write
      /\ Accesses(r)[2].register = "I2EC_REG_DATA" /\ Accesses(r)[2].write
      /\ Accesses(r)[3].register = "I2EC_REG_ADDR" /\ Accesses(r)[3].write
      /\ Accesses(r)[4].register = "I2EC_REG_DATA" /\ Accesses(r)[4].write
      /\ Accesses(r)[5].register = "I2EC_REG_ADDR" /\ Accesses(r)[5].write
  BY DEF Accesses, io_write
<1>2. /\ Accesses(r)[6].register = "I2EC_REG_DATA"
      /\ Accesses(r)[6].write <=> r.kind = "write"
      /\ r.kind = "write" => Accesses(r)[6].data = r.data
  BY DEF Accesses, io_write, io_read
<1>3. /\ Accesses(r)[1].data = "I2EC_ADDR_HIGH" /\ Accesses(r)[2].data = r.addr[2]
      /\ Accesses(r)[3].data = "I2EC_ADDR_LOW"  /\ Accesses(r)[4].data = r.addr[1]
      /\ Accesses(r)[5].data = "I2EC_ADDR_DATA"
  BY DEF Accesses, io_write
<1> QED
  BY <1>1, <1>2, <1>3

\* The effect of a transfer to the index register: it selects a byte.
LEMMA IndexTransfer ==
    ASSUME EcInv, NEW t \in Threads, Transfer(t), at[t] \in {1, 3, 5}
    PROVE  /\ UNCHANGED <<mem, port, high, low, moved>>
           /\ at[t] = 1 => selected' = "I2EC_ADDR_HIGH"
           /\ at[t] = 3 => selected' = "I2EC_ADDR_LOW"
           /\ at[t] = 5 => selected' = "I2EC_ADDR_DATA"
<1> DEFINE a == Accesses(req[t])
<1>1. /\ a[at[t]].register = "I2EC_REG_ADDR" /\ a[at[t]].write
      /\ a[1].data = "I2EC_ADDR_HIGH" /\ a[3].data = "I2EC_ADDR_LOW" /\ a[5].data = "I2EC_ADDR_DATA"
  BY AccessAt
<1>2. port = "I2EC_REG_ADDR"
  BY <1>1 DEF EcInv, RegisterInv, Transfer
<1>3. Latch(t, a[at[t]].data)
  BY <1>1 DEF Transfer
<1> QED
  BY <1>1, <1>2, <1>3 DEF Latch

\* The effect of the transfers of the address bytes.
LEMMA AddressTransfer ==
    ASSUME EcInv, NEW t \in Threads, Transfer(t), at[t] \in {2, 4}
    PROVE  /\ UNCHANGED <<mem, port, selected, moved>>
           /\ high' = IF at[t] = 2 THEN req[t].addr[2] ELSE high
           /\ low'  = IF at[t] = 4 THEN req[t].addr[1] ELSE low
<1> DEFINE a == Accesses(req[t])
<1>1. /\ a[at[t]].register = "I2EC_REG_DATA" /\ a[at[t]].write
      /\ a[2].data = req[t].addr[2] /\ a[4].data = req[t].addr[1]
  BY AccessAt
<1>2. port = "I2EC_REG_DATA"
  BY <1>1 DEF EcInv, RegisterInv, Transfer
<1>3. selected = IF at[t] = 2 THEN "I2EC_ADDR_HIGH" ELSE "I2EC_ADDR_LOW"
  BY DEF EcInv, RegisterInv, Transfer, Moving
<1>4. Latch(t, a[at[t]].data)
  BY <1>1 DEF Transfer
<1> QED
  BY <1>1, <1>2, <1>3, <1>4 DEF Latch

\* The effect of the last transfer: that of EcRam's Perform.
LEMMA LastTransfer ==
    ASSUME EcInv, NEW t \in Threads, Transfer(t), at[t] = 6
    PROVE  /\ Ram!Perform(t)
           /\ UNCHANGED <<port, selected, high, low>>
<1> DEFINE last == Accesses(req[t])[6]
<1>1. /\ last.register = "I2EC_REG_DATA"
      /\ last.write <=> req[t].kind = "write"
      /\ req[t].kind = "write" => last.data = req[t].data
  BY AccessAt
<1>2. port = "I2EC_REG_DATA" /\ selected = "I2EC_ADDR_DATA"
  BY <1>1 DEF EcInv, RegisterInv, Transfer, Moving
<1>3. high = req[t].addr[2] /\ low = req[t].addr[1]
  BY DEF EcInv, RegisterInv, Transfer, Moving
<1>4. <<low, high>> = req[t].addr /\ req[t] # Nothing /\ moved[t] = Nothing
  BY <1>3, ActiveRequest DEF EcInv, Transfer, RequestInv, MovedInv
<1>5. CASE req[t].kind = "write"
  <2>1. Latch(t, req[t].data) /\ UNCHANGED <<lock, req, ret>>
    BY <1>1, <1>5 DEF Transfer
  <2> QED
    BY <1>2, <1>4, <1>5, <2>1 DEF Latch, Ram!Perform
<1>6. CASE req[t].kind # "write"
  <2>1. /\ moved' = [moved EXCEPT ![t] = mem[<<low, high>>]]
        /\ UNCHANGED hwVars /\ UNCHANGED <<lock, req, ret>>
    BY <1>1, <1>6 DEF Transfer
  <2> QED
    BY <1>4, <1>6, <2>1 DEF hwVars, Ram!Perform
<1> QED
  BY <1>5, <1>6

\* At the start nobody is in an access.
LEMMA EcInitInv == EcInit => EcInv
<1> SUFFICES ASSUME EcInit PROVE EcInv
  OBVIOUS
<1>1. EcTypes
  BY DEF EcInit, EcTypes, Labels, Outside, Moving
<1>2. LockInv /\ RequestInv /\ RegisterInv /\ MovedInv
  BY PortAssumption DEF EcInit, LockInv, RequestInv, RegisterInv, MovedInv, Outside, Moving
<1> QED
  BY <1>1, <1>2 DEF EcInv

\* A step that moves no byte to or from the ports.
LEMMA QuietStep ==
    ASSUME EcInv, NEW t \in Threads,
           (\E r \in Requests : Call(t, r)) \/ Acquire(t) \/ Select(t) \/ Unlock(t)
    PROVE  EcInv'
<1> USE DEF EcInv, EcTypes, LockInv, RequestInv, RegisterInv, MovedInv, Labels, Outside, Moving, Goto, hwVars
<1>1. ASSUME NEW r \in Requests, Call(t, r) PROVE EcInv'
  <2>1. r # Nothing
    BY PortAssumption DEF Requests, Addresses
  <2> QED
    BY <1>1, <2>1 DEF Call
<1>2. CASE Acquire(t)
  BY <1>2, PortAssumption DEF Acquire
<1>3. CASE Select(t)
  <2>1. \A u \in Threads \ {t} : pc[u] \in Outside
    BY <1>3 DEF Select
  <2> QED
    BY <1>3, <2>1 DEF Select
<1>4. CASE Unlock(t)
  <2>1. \A u \in Threads \ {t} : pc[u] \in Outside
    BY <1>4 DEF Unlock
  <2> QED
    BY <1>4, <2>1, PortAssumption DEF Unlock
<1> QED
  BY <1>1, <1>2, <1>3, <1>4

\* A transfer: the others are outside, and the registers say what they should.
LEMMA TransferStep ==
    ASSUME EcInv, NEW t \in Threads, Transfer(t)
    PROVE  EcInv'
<1>1. \A u \in Threads \ {t} : pc[u] \in Outside
  BY DEF EcInv, LockInv, Transfer, Outside
<1>2. at[t] \in 1..6 /\ pc[t] = "transfer"
  BY DEF EcInv, EcTypes, RegisterInv, Moving, Transfer
<1>3. /\ req[t].addr \in Addresses /\ req[t].data \in Bytes
      /\ req[t].addr[1] \in Bytes /\ req[t].addr[2] \in Bytes
  BY <1>2, ActiveRequest DEF EcInv
<1>4. /\ pc' = [pc EXCEPT ![t] = IF at[t] = 6 THEN "unlock" ELSE "select"]
      /\ at' = [at EXCEPT ![t] = IF at[t] = 6 THEN 0 ELSE @ + 1]
      /\ UNCHANGED <<lock, req, ret>>
  BY DEF Transfer, Goto
<1>5. pc' \in [Threads -> Labels] /\ at' \in [Threads -> 0..6]
  BY <1>2, <1>4 DEF EcInv, EcTypes, Labels, Outside, Moving
<1>6. LockInv' /\ RequestInv'
  BY <1>2, <1>4, <1>5 DEF EcInv, EcTypes, LockInv, RequestInv, Outside
<1>7. CASE at[t] = 6
  <2>1. Ram!Perform(t) /\ UNCHANGED <<port, selected, high, low>>
    BY <1>7, LastTransfer
  <2>2. PICK v \in Bytes : moved' = [moved EXCEPT ![t] = v]
    BY <1>3, <2>1 DEF Ram!Perform, EcInv, EcTypes
  <2>3. mem' \in [Addresses -> Bytes]
    BY <1>3, <2>1 DEF Ram!Perform, EcInv, EcTypes
  <2>4. EcTypes' /\ MovedInv'
    BY <1>1, <1>2, <1>4, <1>5, <1>7, <2>1, <2>2, <2>3, PortAssumption
    DEF EcInv, EcTypes, MovedInv, Outside
  <2>5. RegisterInv'
    BY <1>1, <1>4, <1>5, <1>7 DEF EcInv, EcTypes, RegisterInv, Outside, Moving
  <2> QED
    BY <1>6, <2>4, <2>5 DEF EcInv
<1>8. CASE at[t] # 6
  <2>1. UNCHANGED <<mem, port, moved>>
    BY <1>2, <1>8, IndexTransfer, AddressTransfer
  <2>2. high' \in Bytes /\ low' \in Bytes
    BY <1>2, <1>3, <1>8, IndexTransfer, AddressTransfer DEF EcInv, EcTypes
  <2>3. EcTypes' /\ MovedInv'
    BY <1>1, <1>2, <1>4, <1>5, <1>8, <2>1, <2>2 DEF EcInv, EcTypes, MovedInv, Outside
  <2>4. /\ at'[t] = at[t] + 1 /\ pc'[t] = "select"
        /\ at'[t] = 2 => selected' = "I2EC_ADDR_HIGH"
        /\ at'[t] = 4 => selected' = "I2EC_ADDR_LOW"
        /\ at'[t] = 6 => selected' = "I2EC_ADDR_DATA"
    BY <1>2, <1>4, <1>8, IndexTransfer DEF EcInv, EcTypes
  <2>5. /\ at'[t] > 2 => high' = req[t].addr[2]
        /\ at'[t] > 4 => low' = req[t].addr[1]
    BY <1>2, <1>8, <2>4, IndexTransfer, AddressTransfer DEF EcInv, RegisterInv, Moving
  <2>6. RegisterInv'
    BY <1>1, <1>2, <1>4, <1>5, <2>4, <2>5 DEF EcInv, EcTypes, RegisterInv, Outside, Moving
  <2> QED
    BY <1>6, <2>3, <2>6 DEF EcInv
<1> QED
  BY <1>7, <1>8

\* Every step keeps the invariant.
LEMMA EcStep == EcInv /\ [EcNext]_portVars => EcInv'
<1> SUFFICES ASSUME EcInv, [EcNext]_portVars PROVE EcInv'
  OBVIOUS
<1>1. CASE UNCHANGED portVars
  BY <1>1 DEF portVars, hwVars, EcInv, EcTypes, LockInv, RequestInv, RegisterInv, MovedInv
<1>2. CASE EcNext
  BY <1>2, QuietStep, TransferStep DEF EcNext, AccessStep
<1> QED
  BY <1>1, <1>2

\* Every step is a step of EcRam, or changes nothing it knows of.
LEMMA StepSimulation == EcInv /\ [EcNext]_portVars => [Ram!Next]_(Ram!ramVars)
<1> SUFFICES ASSUME EcInv, [EcNext]_portVars PROVE [Ram!Next]_(Ram!ramVars)
  OBVIOUS
<1> USE DEF Ram!ramVars
<1>1. CASE UNCHANGED portVars
  BY <1>1 DEF portVars, hwVars
<1>2. ASSUME NEW t \in Threads, NEW r \in Requests, Call(t, r) PROVE Ram!Next
  <2>1. Ram!Call(t, r)
    BY <1>2 DEF Call, Ram!Call, EcInv, RequestInv, hwVars
  <2> QED
    BY <2>1 DEF Ram!Next, Ram!Requests, Ram!Addresses, Requests, Addresses
<1>3. ASSUME NEW t \in Threads, Acquire(t) \/ Select(t) PROVE UNCHANGED Ram!ramVars
  BY <1>3 DEF Acquire, Select, hwVars
<1>4. ASSUME NEW t \in Threads, Transfer(t) PROVE [Ram!Next]_(Ram!ramVars)
  <2>1. CASE at[t] = 6
    BY <1>4, <2>1, LastTransfer DEF Ram!Next
  <2>2. CASE at[t] # 6
    <3>1. at[t] \in 1..5
      BY <1>4, <2>2 DEF Transfer, EcInv, EcTypes, RegisterInv, Moving
    <3>2. UNCHANGED <<mem, moved>>
      BY <1>4, <3>1, IndexTransfer, AddressTransfer
    <3> QED
      BY <1>4, <3>2 DEF Transfer
  <2> QED
    BY <2>1, <2>2
<1>5. ASSUME NEW t \in Threads, Unlock(t) PROVE Ram!Next
  <2>1. req[t] # Nothing /\ moved[t] # Nothing
    BY <1>5 DEF Unlock, EcInv, RequestInv, MovedInv
  <2>2. Ram!Return(t)
    BY <1>5, <2>1 DEF Unlock, Ram!Return, hwVars
  <2> QED
    BY <2>2 DEF Ram!Next
<1> QED
  BY <1>1, <1>2, <1>3, <1>4, <1>5 DEF EcNext, AccessStep

\* For any number of threads the port accesses of nb05_read_ec_ram and
\* nb05_write_ec_ram come to atomic accesses of the bytes that were meant.
THEOREM PortAccessIsAtomic == EcSpec => ImplementsRam
<1>1. EcInit => Ram!Init
  BY DEF EcInit, Ram!Init, Addresses, Ram!Addresses
<1> QED
  BY <1>1, EcInitInv, EcStep, StepSimulation, PTL DEF EcSpec, Ram!Spec, ImplementsRam

(***************************************************************************)
(* The hot zones of the curves.                                            *)
(***************************************************************************)

Devices == {"ranges", "onereg", "tuxi"}
MaxOf(r)   == IF r[1] = "rpm" THEN FAN_SET_RPM_MAX ELSE DutyMax(device)
LeastOf(r) == IF r[1] = "rpm" THEN FAN_SET_RPM_HIGHTEMP ELSE FAN_SET_DUTY_HIGHTEMP

\* A value a register may have, and the writes that keep to it.
Cool(r, v) == Reliable(v, MaxOf(r)) /\ (r[2] > LowZones => v >= LeastOf(r))
CoolWrites == {x \in [reg : Registers, val : 0..255] : Cool(x.reg, x.val)}

FanTypes ==
    /\ device \in Devices
    /\ regs \in [Fans -> [Registers -> 0..255]] /\ written \in [Fans -> SUBSET Registers]
    /\ todo \in [Writers -> [fan : Fans, writes : Seq(CoolWrites)]]
    /\ seen \in [Writers -> [Fans -> {None} \cup 0..255]]

\* The speed that is shown, written or not.
ShownInRange == \A f \in Fans : regs[f][<<"duty", 1>>] \in 0..DutyMax(device)

FanInv == FanTypes /\ HotZonesCooled /\ ShownInRange

\* The numbers of the limits.
LEMMA Limits ==
    /\ FAN_SET_RPM_MAX = 54 /\ FanOnMin(54) = 13 /\ FAN_SET_RPM_HIGHTEMP = 15
    /\ FanOnMin(184) = 46 /\ FAN_SET_DUTY_HIGHTEMP = 51 /\ FanOnMin(255) = 63
BY DEF FAN_SET_RPM_MAX, FAN_SET_RPM_HIGHTEMP, FAN_SET_DUTY_HIGHTEMP, FanOnMin, FAN_ON_MIN_SPEED_PERCENT

\* A request up to the maximum comes out as off or as a speed at which the fan
\* runs, never above the maximum.
LEMMA Clamped ==
    ASSUME NEW max \in Nat
    PROVE  /\ FanOnMin(max) \in Nat
           /\ \A speed \in 0..max : ClampInclusive(speed, max) \in {0} \cup FanOnMin(max)..max
BY DEF ClampInclusive, FanOnHalf, FanOnMin, FAN_ON_MIN_SPEED_PERCENT

\* A request, converted and clamped, is a speed that does not stall a fan.
LEMMA Converted ==
    ASSUME device \in Devices, NEW pwm \in 0..255
    PROVE  /\ Duty(pwm) \in 0..255 /\ Reliable(Duty(pwm), DutyMax(device))
           /\ Rpm(pwm) \in 0..255 /\ Reliable(Rpm(pwm), FAN_SET_RPM_MAX)
<1>1. ASSUME NEW max \in {54, 184, 255}
      PROVE  /\ ClampInclusive(PWM_TO(max, pwm), max) \in 0..255
             /\ Reliable(ClampInclusive(PWM_TO(max, pwm), max), max)
  <2>1. PWM_TO(max, pwm) \in 0..max
    <3>1. CASE max = 54
      BY <3>1 DEF PWM_TO
    <3>2. CASE max = 184
      BY <3>2 DEF PWM_TO
    <3>3. CASE max = 255
      BY <3>3 DEF PWM_TO
    <3> QED
      BY <3>1, <3>2, <3>3
  <2>2. ClampInclusive(PWM_TO(max, pwm), max) \in {0} \cup FanOnMin(max)..max
    BY <2>1, Clamped
  <2>3. FanOnMin(max) \in Nat
    BY Clamped
  <2> QED
    BY <2>2, <2>3 DEF Reliable
<1>2. DutyMax(device) \in {54, 184, 255}
  BY DEF DutyMax
<1> QED
  BY <1>1, <1>2, Limits DEF Duty, Rpm

\* What is read back is a byte.
LEMMA ShownIsByte ==
    ASSUME device \in Devices, NEW d \in 0..DutyMax(device)
    PROVE  DUTY_TO_PWM(d) \in 0..255
<1>1. CASE DutyMax(device) = 184
  BY <1>1 DEF DUTY_TO_PWM
<1>2. CASE DutyMax(device) = 255
  BY <1>2 DEF DUTY_TO_PWM
<1> QED
  BY <1>1, <1>2 DEF DutyMax

\* A function from 1..n is a sequence.
LEMMA IsASeqOfWrites ==
    ASSUME NEW S, NEW n \in Nat, NEW c \in [1..n -> S]
    PROVE  c \in Seq(S)
BY SeqDef

\* A thread's remaining writes are replaced.
LEMMA Replaced ==
    ASSUME NEW W, NEW F, NEW S, NEW g \in [W -> [fan : F, writes : S]], NEW w \in W, NEW s \in S
    PROVE  [g EXCEPT ![w].writes = s] \in [W -> [fan : F, writes : S]]
OBVIOUS

\* A curve keeps its hot zones cool, whatever speed it is made of.
LEMMA CurveIsCool ==
    ASSUME device = "ranges",
           NEW unit \in {"duty", "rpm"}, NEW speed \in 0..255,
           Reliable(speed, MaxOf(<<unit, 1>>))
    PROVE  Curve(unit, speed, LeastOf(<<unit, 1>>)) \in Seq(CoolWrites)
<1> DEFINE least == LeastOf(<<unit, 1>>)
<1>1. ASSUME NEW z \in 1..LowZones + HotZones
      PROVE  [reg |-> <<unit, z>>, val |-> IF z <= LowZones THEN speed ELSE AtLeast(speed, least)]
               \in CoolWrites
  <2>1. <<unit, z>> \in Registers
    BY DEF Registers
  <2>2. MaxOf(<<unit, z>>) = MaxOf(<<unit, 1>>) /\ LeastOf(<<unit, z>>) = least
    BY DEF MaxOf, LeastOf
  <2>3. AtLeast(speed, least) \in 0..255 /\ AtLeast(speed, least) >= least
        /\ Reliable(AtLeast(speed, least), MaxOf(<<unit, 1>>))
    BY Limits DEF AtLeast, Reliable, MaxOf, LeastOf, DutyMax
  <2>4. z <= LowZones \/ z > LowZones
    BY FansAssumption
  <2> DEFINE v == IF z <= LowZones THEN speed ELSE AtLeast(speed, least)
  <2>5. v \in 0..255 /\ Reliable(v, MaxOf(<<unit, z>>)) /\ (z > LowZones => v >= least)
    BY <2>2, <2>3, <2>4, FansAssumption
  <2>6. Cool(<<unit, z>>, v)
    BY <2>2, <2>5 DEF Cool
  <2> HIDE DEF v
  <2>7. [reg |-> <<unit, z>>, val |-> v] \in CoolWrites
    BY <2>1, <2>5, <2>6 DEF CoolWrites
  <2> QED
    BY <2>7 DEF v
<1>2. LowZones + HotZones \in Nat
  BY FansAssumption
<1> DEFINE c == [z \in 1..LowZones + HotZones |->
                  [reg |-> <<unit, z>>, val |-> IF z <= LowZones THEN speed ELSE AtLeast(speed, least)]]
<1>3. c \in [1..LowZones + HotZones -> CoolWrites]
  BY <1>1
<1>4. c \in Seq(CoolWrites)
  BY ONLY <1>2, <1>3, IsASeqOfWrites
<1> QED
  BY <1>4 DEF Curve

\* So is everything a store writes.
LEMMA WritesAreCool ==
    ASSUME device \in Devices, NEW pwm \in 0..255
    PROVE  Writes(pwm) \in Seq(CoolWrites)
<1>1. CASE device = "ranges"
  <2>1. Curve("duty", Duty(pwm), FAN_SET_DUTY_HIGHTEMP) \in Seq(CoolWrites)
    <3>1. MaxOf(<<"duty", 1>>) = DutyMax(device) /\ LeastOf(<<"duty", 1>>) = FAN_SET_DUTY_HIGHTEMP
      BY DEF MaxOf, LeastOf
    <3> QED
      BY <1>1, <3>1, Converted, CurveIsCool
  <2>2. Curve("rpm", Rpm(pwm), FAN_SET_RPM_HIGHTEMP) \in Seq(CoolWrites)
    <3>1. MaxOf(<<"rpm", 1>>) = FAN_SET_RPM_MAX /\ LeastOf(<<"rpm", 1>>) = FAN_SET_RPM_HIGHTEMP
      BY DEF MaxOf, LeastOf
    <3> QED
      BY <1>1, <3>1, Converted, CurveIsCool
  <2>3. <<>> \in Seq(CoolWrites)
    OBVIOUS
  <2> QED
    BY <1>1, <2>1, <2>2, <2>3, ConcatProperties DEF Writes
<1>2. CASE device # "ranges"
  <2>1. <<"duty", 1>> \in Registers /\ ~(1 > LowZones)
    BY <1>2, FansAssumption DEF Registers
  <2>2. [reg |-> <<"duty", 1>>, val |-> Duty(pwm)] \in CoolWrites
    BY <2>1, Converted DEF CoolWrites, Cool, MaxOf
  <2> QED
    BY <1>2, <2>2 DEF Writes
<1> QED
  BY <1>1, <1>2

\* When the drivers are loaded they have written nothing.
LEMMA FansInitInv == FansInit => FanInv
<1> SUFFICES ASSUME FansInit PROVE FanInv
  OBVIOUS
<1>1. device \in Devices
  BY DEF FansInit, Devices
<1>2. PICK start \in [Fans -> Starts] : regs = [f \in Fans |-> [r \in Registers |-> start[f]]]
  BY DEF FansInit
<1>3. \A f \in Fans : start[f] \in 0..184
  <2>1. Starts \subseteq 0..184
    BY FansAssumption
  <2> QED
    BY <2>1
<1>4. FanTypes
  <2>1. (CHOOSE f \in Fans : TRUE) \in Fans
    BY FansAssumption
  <2>2. todo \in [Writers -> [fan : Fans, writes : Seq(CoolWrites)]]
    BY <2>1 DEF FansInit
  <2>3. regs \in [Fans -> [Registers -> 0..255]]
    BY <1>2, <1>3
  <2> QED
    BY <1>1, <2>2, <2>3 DEF FansInit, FanTypes
<1>5. HotZonesCooled
  BY DEF FansInit, HotZonesCooled
<1>6. ShownInRange
  <2>1. <<"duty", 1>> \in Registers
    BY FansAssumption DEF Registers
  <2> QED
    BY <1>1, <1>2, <1>3, <2>1 DEF ShownInRange, DutyMax, Devices
<1> QED
  BY <1>4, <1>5, <1>6 DEF FanInv

\* The definitions that depend on the device stay the same with it.
LEMMA SameDevice ==
    ASSUME device' = device
    PROVE  Registers' = Registers /\ CoolWrites' = CoolWrites /\ DutyMax(device)' = DutyMax(device)
BY DEF Registers, CoolWrites, Cool, MaxOf, LeastOf, DutyMax

\* A register gets a write that was prepared.
LEMMA WriteKeepsCool ==
    ASSUME FanInv, device' = device, NEW f \in Fans, NEW x \in CoolWrites,
           regs' = [regs EXCEPT ![f][x.reg] = x.val],
           written' = [written EXCEPT ![f] = @ \cup {x.reg}]
    PROVE  /\ regs' \in [Fans -> [Registers -> 0..255]] /\ written' \in [Fans -> SUBSET Registers]
           /\ HotZonesCooled' /\ ShownInRange'
<1>1. x.reg \in Registers /\ x.val \in 0..255 /\ Cool(x.reg, x.val)
  BY DEF CoolWrites
<1>2. regs' \in [Fans -> [Registers -> 0..255]] /\ written' \in [Fans -> SUBSET Registers]
  <2>1. regs \in [Fans -> [Registers -> 0..255]] /\ written \in [Fans -> SUBSET Registers]
    BY DEF FanInv, FanTypes
  <2>2. regs' \in [Fans -> [Registers -> 0..255]]
    BY <1>1, <2>1
  <2>3. written' \in [Fans -> SUBSET Registers]
    BY <1>1, <2>1
  <2> QED
    BY <2>2, <2>3
<1>3. \A g \in Fans, r \in Registers :
         regs'[g][r] = IF g = f /\ r = x.reg THEN x.val ELSE regs[g][r]
  BY <1>1 DEF FanInv, FanTypes
<1>4. ASSUME NEW g \in Fans, NEW r \in written'[g] PROVE Cool(r, regs'[g][r])
  <2>1. r \in Registers /\ (r \in written[g] \/ (g = f /\ r = x.reg))
    BY <1>1 DEF FanInv, FanTypes
  <2>2. r \in written[g] => Cool(r, regs[g][r])
    BY DEF FanInv, HotZonesCooled, Cool, MaxOf, LeastOf
  <2> QED
    BY <1>1, <1>3, <2>1, <2>2
<1>5. ShownInRange'
  <2>1. <<"duty", 1>> \in Registers
    BY FansAssumption DEF Registers
  <2>2. x.reg = <<"duty", 1>> => x.val \in 0..DutyMax(device)
    BY <1>1, Clamped DEF Cool, MaxOf, Reliable, FanOnMin, FAN_ON_MIN_SPEED_PERCENT, DutyMax
  <2> QED
    BY <1>3, <2>1, <2>2, SameDevice DEF FanInv, ShownInRange
<1> QED
  BY <1>2, <1>4, <1>5, SameDevice DEF HotZonesCooled, Cool, MaxOf, LeastOf

\* Every step keeps the invariant.
LEMMA FansStep == FanInv /\ [FansNext]_fanVars => FanInv'
<1> SUFFICES ASSUME FanInv, [FansNext]_fanVars PROVE FanInv'
  OBVIOUS
<1>0. device' = device
  BY ZenonT(40) DEF FansNext, fanVars, StoreAsked, StoreSeen, Store, Show, TuxiShow, Shown, EnableStore,
         TuxiEnableStore, EnableStored, Write, TuxiWrite, Rebind
<1>1. CASE UNCHANGED fanVars
  BY <1>1, SameDevice DEF fanVars, FanInv, FanTypes, HotZonesCooled, ShownInRange
<1>2. ASSUME NEW w \in Writers, NEW f \in Fans, NEW pwm \in 0..255, Store(w, f, pwm) PROVE FanInv'
  <2>1. todo' \in [Writers -> [fan : Fans, writes : Seq(CoolWrites)]]
    BY <1>2, WritesAreCool DEF Store, FanInv, FanTypes
  <2> QED
    BY <1>0, <1>2, <2>1, SameDevice DEF Store, FanInv, FanTypes, HotZonesCooled, ShownInRange
<1>3. ASSUME NEW w \in Writers, NEW f \in Fans, NEW pwm \in 0..255, Shown(w, f, pwm) PROVE FanInv'
  <2>1. seen' \in [Writers -> [Fans -> {None} \cup 0..255]]
    BY <1>3 DEF Shown, FanInv, FanTypes
  <2> QED
    BY <1>0, <1>3, <2>1, SameDevice DEF Shown, FanInv, FanTypes, HotZonesCooled, ShownInRange
<1>4. ASSUME NEW w \in Writers, UNCHANGED <<device, regs, written, todo, seen>> PROVE FanInv'
  BY <1>0, <1>4, SameDevice DEF FanInv, FanTypes, HotZonesCooled, ShownInRange
<1>5. ASSUME NEW w \in Writers, ~Idle(w), UNCHANGED seen,
             \/ /\ regs' = [regs EXCEPT ![todo[w].fan][Head(todo[w].writes).reg] = Head(todo[w].writes).val]
                /\ written' = [written EXCEPT ![todo[w].fan] = @ \cup {Head(todo[w].writes).reg}]
             \/ UNCHANGED <<regs, written>>,
             NEW s \in {<<>>, Tail(todo[w].writes)}, todo' = [todo EXCEPT ![w].writes = s]
      PROVE  FanInv'
  <2>1. todo[w].fan \in Fans /\ todo[w].writes \in Seq(CoolWrites) /\ todo[w].writes # <<>>
    BY <1>5 DEF FanInv, FanTypes, Idle
  <2>2. Head(todo[w].writes) \in CoolWrites /\ Tail(todo[w].writes) \in Seq(CoolWrites)
    BY <2>1
  <2>3. todo' \in [Writers -> [fan : Fans, writes : Seq(CoolWrites)]]
    <3>1. s \in Seq(CoolWrites)
      <4>1. <<>> \in Seq(CoolWrites)
        OBVIOUS
      <4> QED
        BY ONLY <2>2, <4>1, s \in {<<>>, Tail(todo[w].writes)}
    <3>2. todo \in [Writers -> [fan : Fans, writes : Seq(CoolWrites)]]
      BY DEF FanInv, FanTypes
    <3> QED
      BY ONLY <1>5, <3>1, <3>2, w \in Writers, Replaced
  <2>4. /\ regs' \in [Fans -> [Registers -> 0..255]] /\ written' \in [Fans -> SUBSET Registers]
        /\ HotZonesCooled' /\ ShownInRange'
    <3>1. CASE UNCHANGED <<regs, written>>
      BY <1>0, <3>1, SameDevice DEF FanInv, FanTypes, HotZonesCooled, ShownInRange
    <3> QED
      BY <1>0, <1>5, <2>1, <2>2, <3>1, WriteKeepsCool
  <2> QED
    BY <1>0, <1>5, <2>3, <2>4, SameDevice DEF FanInv, FanTypes
<1>6. ASSUME NEW w \in Writers, NEW f \in Fans,
             (\E pwm \in Pwms : StoreAsked(w, f, pwm)) \/ StoreSeen(w, f)
      PROVE  FanInv'
  <2>1. \E pwm \in 0..255 : Store(w, f, pwm)
    <3>1. ASSUME NEW pwm \in Pwms, StoreAsked(w, f, pwm) PROVE pwm \in 0..255 /\ Store(w, f, pwm)
      BY <3>1, FansAssumption DEF StoreAsked
    <3>2. CASE StoreSeen(w, f)
      <4>1. seen[w][f] \in 0..255 /\ Store(w, f, seen[w][f])
        BY <3>2 DEF StoreSeen, FanInv, FanTypes
      <4> QED
        BY <4>1
    <3> QED
      BY <1>6, <3>1, <3>2
  <2> QED
    BY <1>2, <2>1
<1>7. ASSUME NEW w \in Writers, NEW f \in Fans, Show(w, f) \/ TuxiShow(w, f) PROVE FanInv'
  <2>1. CASE Show(w, f)
    <3>1. <<"duty", 1>> \in Registers
      BY FansAssumption DEF Registers
    <3>2. regs[f][<<"duty", 1>>] \in 0..DutyMax(device)
      BY DEF FanInv, ShownInRange
    <3> QED
      BY <1>3, <2>1, <3>2, ShownIsByte DEF Show, FanInv, FanTypes
  <2>2. CASE TuxiShow(w, f)
    BY <1>3, <2>2 DEF TuxiShow, Results
  <2> QED
    BY <1>7, <2>1, <2>2
<1>8. ASSUME NEW w \in Writers, Write(w) \/ TuxiWrite(w) PROVE FanInv'
  <2>1. /\ ~Idle(w) /\ UNCHANGED seen
        /\ \/ /\ regs' = [regs EXCEPT ![todo[w].fan][Head(todo[w].writes).reg] = Head(todo[w].writes).val]
              /\ written' = [written EXCEPT ![todo[w].fan] = @ \cup {Head(todo[w].writes).reg}]
           \/ UNCHANGED <<regs, written>>
    BY <1>8 DEF Write, TuxiWrite
  <2>2. \/ todo' = [todo EXCEPT ![w].writes = <<>>]
        \/ todo' = [todo EXCEPT ![w].writes = Tail(@)]
    BY <1>8 DEF Write, TuxiWrite, Finish
  <2>3. PICK s \in {<<>>, Tail(todo[w].writes)} : todo' = [todo EXCEPT ![w].writes = s]
    BY <2>2
  <2> QED
    BY <1>5, <2>1, <2>3
<1>9. ASSUME \/ \E w \in Writers, f \in Fans, value \in 0..2 : EnableStore(w, f, value)
             \/ \E w \in Writers, value \in 0..2 : TuxiEnableStore(w, value)
             \/ Rebind
      PROVE  FanInv'
  <2>1. UNCHANGED <<device, regs, written, todo, seen>>
    BY <1>9 DEF EnableStore, TuxiEnableStore, EnableStored, Rebind
  <2> QED
    BY <1>0, <2>1, SameDevice DEF FanInv, FanTypes, HotZonesCooled, ShownInRange
<1> QED
  BY <1>1, <1>6, <1>7, <1>8, <1>9 DEF FansNext

\* However many stores of whatever values interleave, whatever is restored, and
\* whatever the firmware had set before: no fan gets a speed at which it stalls, and the hot zones of a curve always
\* have their least speed (the write functions of tuxedo_nb05_fan_control.c).
THEOREM HotZonesAlwaysCooled == FansSpec => []HotZonesCooled
<1>1. FanInv => HotZonesCooled
  BY DEF FanInv
<1> QED
  BY <1>1, FansInitInv, FansStep, PTL DEF FansSpec


(***************************************************************************)
(* Saving and restoring.                                                   *)
(***************************************************************************)

\* Writes that stop a fan only if it may be stopped, and writes that stop it.
Stopping(may) == {x \in [reg : Registers, val : 0..255] : x.reg = <<"duty", 1>> /\ x.val = 0 => may}

Stops(writes) == \E i \in 1..Len(writes) : writes[i].reg = <<"duty", 1>> /\ writes[i].val = 0

StopInv ==
    device # "tuxi" =>
        /\ \A f \in Fans : regs[f][<<"duty", 1>>] < 46 => f \in off
        /\ \A w \in Writers, f \in Fans : seen[w][f] # None /\ Duty(seen[w][f]) = 0 => f \in off
        /\ \A w \in Writers : Stops(todo[w].writes) => todo[w].fan \in off

\* A speed at which the fan runs, converted to pwm and back, still runs it.
LEMMA RoundTrip ==
    ASSUME device \in Devices, device # "tuxi", NEW d \in 46..184
    PROVE  Duty(DUTY_TO_PWM(d)) # 0
<1>1. DutyMax(device) = 184
  BY DEF DutyMax
<1>2. DUTY_TO_PWM(d) \in 63..255
  BY <1>1 DEF DUTY_TO_PWM
<1>3. PWM_TO(184, DUTY_TO_PWM(d)) \in 45..184
  BY <1>2 DEF PWM_TO
<1>4. FanOnHalf(184) = 23 /\ FanOnMin(184) = 46
  BY DEF FanOnHalf, FanOnMin, FAN_ON_MIN_SPEED_PERCENT
<1> QED
  BY <1>1, <1>3, <1>4 DEF Duty, ClampInclusive

\* Only the writes of a store of 0 stop the fan.
LEMMA WritesStop ==
    ASSUME device \in Devices, NEW pwm \in 0..255, NEW may \in BOOLEAN, Duty(pwm) = 0 => may
    PROVE  Writes(pwm) \in Seq(Stopping(may))
<1>1. CASE device = "ranges"
  <2>1. ASSUME NEW unit \in {"duty", "rpm"}, NEW speed \in 0..255, NEW least \in {15, 51},
               unit = "duty" => (speed = 0 => may)
        PROVE  Curve(unit, speed, least) \in Seq(Stopping(may))
    <3>1. ASSUME NEW z \in 1..LowZones + HotZones
          PROVE  [reg |-> <<unit, z>>, val |-> IF z <= LowZones THEN speed ELSE AtLeast(speed, least)]
                   \in Stopping(may)
      <4> DEFINE v == IF z <= LowZones THEN speed ELSE AtLeast(speed, least)
      <4>1. <<unit, z>> \in Registers
        BY <1>1 DEF Registers
      <4>2. v \in 0..255
        BY DEF AtLeast
      <4>3. z = 1 => v = speed
        BY FansAssumption
      <4>4. <<unit, z>> = <<"duty", 1>> => unit = "duty" /\ z = 1
        OBVIOUS
      <4> HIDE DEF v
      <4>5. [reg |-> <<unit, z>>, val |-> v] \in Stopping(may)
        BY <2>1, <4>1, <4>2, <4>3, <4>4 DEF Stopping
      <4> QED
        BY <4>5 DEF v
    <3> DEFINE c == [z \in 1..LowZones + HotZones |->
                      [reg |-> <<unit, z>>, val |-> IF z <= LowZones THEN speed ELSE AtLeast(speed, least)]]
    <3>2. LowZones + HotZones \in Nat
      BY FansAssumption
    <3>3. c \in [1..LowZones + HotZones -> Stopping(may)]
      BY <3>1
    <3>4. c \in Seq(Stopping(may))
      BY ONLY <3>2, <3>3, IsASeqOfWrites
    <3> QED
      BY <3>4 DEF Curve
  <2>2. Curve("duty", Duty(pwm), FAN_SET_DUTY_HIGHTEMP) \in Seq(Stopping(may))
    BY <2>1, Converted, Limits
  <2>3. Curve("rpm", Rpm(pwm), FAN_SET_RPM_HIGHTEMP) \in Seq(Stopping(may))
    BY <2>1, Converted, Limits, ZenonT(40)
  <2>4. <<>> \in Seq(Stopping(may))
    OBVIOUS
  <2> QED
    BY <1>1, <2>2, <2>3, <2>4, ConcatProperties DEF Writes
<1>2. CASE device # "ranges"
  <2>1. <<"duty", 1>> \in Registers
    BY <1>2 DEF Registers
  <2>2. [reg |-> <<"duty", 1>>, val |-> Duty(pwm)] \in Stopping(may)
    BY <2>1, Converted DEF Stopping
  <2> QED
    BY <1>2, <2>2 DEF Writes
<1> QED
  BY <1>1, <1>2

\* A store of a speed stops the fan only if the speed converts to 0.
LEMMA StoreStops ==
    ASSUME device \in Devices, NEW pwm \in 0..255, Stops(Writes(pwm))
    PROVE  Duty(pwm) = 0
<1> DEFINE may == Duty(pwm) = 0
<1>1. may \in BOOLEAN /\ (Duty(pwm) = 0 => may)
  OBVIOUS
<1> HIDE DEF may
<1>2. Writes(pwm) \in Seq(Stopping(may))
  BY <1>1, WritesStop
<1>3. PICK i \in 1..Len(Writes(pwm)) : Writes(pwm)[i].reg = <<"duty", 1>> /\ Writes(pwm)[i].val = 0
  BY DEF Stops
<1>4. Writes(pwm)[i] \in Stopping(may)
  BY <1>2
<1>5. may
  BY <1>3, <1>4 DEF Stopping
<1> QED
  BY <1>5 DEF may

\* What is left to write was to be written before.
LEMMA TailStops ==
    ASSUME NEW S, NEW s \in Seq(S), s # <<>>
    PROVE  /\ Stops(Tail(s)) => Stops(s)
           /\ Head(s).reg = <<"duty", 1>> /\ Head(s).val = 0 => Stops(s)
           /\ ~Stops(<<>>)
<1>1. Len(s) \in Nat \ {0} /\ Head(s) = s[1] /\ Len(Tail(s)) = Len(s) - 1
  OBVIOUS
<1>2. ASSUME NEW i \in 1..Len(Tail(s)) PROVE i + 1 \in 1..Len(s) /\ Tail(s)[i] = s[i + 1]
  BY <1>1
<1>3. Stops(Tail(s)) => Stops(s)
  BY <1>2 DEF Stops
<1>4. Head(s).reg = <<"duty", 1>> /\ Head(s).val = 0 => Stops(s)
  BY <1>1 DEF Stops
<1> QED
  BY <1>3, <1>4 DEF Stops

\* At the start a fan runs reliably or is one that may stop.
LEMMA StopInit == FansInit => StopInv
<1> SUFFICES ASSUME FansInit PROVE StopInv
  OBVIOUS
<1>1. <<"duty", 1>> \in Registers
  BY FansAssumption DEF Registers
<1>2. device # "tuxi" => \A f \in Fans : regs[f][<<"duty", 1>>] < 46 => f \in off
  BY <1>1, Limits DEF FansInit, DutyMax
<1>3. \A w \in Writers : todo[w].writes = <<>>
  BY DEF FansInit
<1>4. \A w \in Writers, f \in Fans : seen[w][f] = None
  BY DEF FansInit
<1>5. ~Stops(<<>>)
  BY DEF Stops
<1> QED
  BY <1>2, <1>3, <1>4, <1>5 DEF StopInv

\* Every step keeps the invariant.
LEMMA StopStep == FanInv /\ StopInv /\ [FansNext]_fanVars => StopInv'
<1> SUFFICES ASSUME FanInv, StopInv, [FansNext]_fanVars PROVE StopInv'
  OBVIOUS
<1>a. device' = device
  BY ZenonT(40) DEF FansNext, fanVars, StoreAsked, StoreSeen, Store, Show, TuxiShow, Shown, EnableStore,
         TuxiEnableStore, EnableStored, Write, TuxiWrite, Rebind
<1>b. CASE device = "tuxi"
  BY <1>a, <1>b DEF StopInv
<1> SUFFICES ASSUME device # "tuxi" PROVE StopInv'
  BY <1>b
<1>0. device \in Devices /\ <<"duty", 1>> \in Registers
  BY FansAssumption DEF FanInv, FanTypes, Registers
<1>1. /\ \A f \in Fans : regs[f][<<"duty", 1>>] < 46 => f \in off
      /\ \A w \in Writers, f \in Fans : seen[w][f] # None /\ Duty(seen[w][f]) = 0 => f \in off
      /\ \A w \in Writers : Stops(todo[w].writes) => todo[w].fan \in off
  BY DEF StopInv
<1>2. todo \in [Writers -> [fan : Fans, writes : Seq(CoolWrites)]]
      /\ seen \in [Writers -> [Fans -> {None} \cup 0..255]]
      /\ regs \in [Fans -> [Registers -> 0..255]]
  BY DEF FanInv, FanTypes
<1>3. ASSUME device' = device PROVE \A pwm : Duty(pwm)' = Duty(pwm)
  BY <1>3 DEF Duty
<1>4. CASE UNCHANGED <<device, regs, todo, seen, off>>
  BY <1>1, <1>3, <1>4 DEF StopInv
<1>5. ASSUME NEW w \in Writers, NEW f \in Fans, NEW pwm \in 0..255, Store(w, f, pwm),
             off \subseteq off', Duty(pwm) = 0 => f \in off'
      PROVE  StopInv'
  <2>1. Stops(Writes(pwm)) => f \in off'
    BY <1>0, <1>5, StoreStops
  <2>2. UNCHANGED <<device, regs, seen>> /\ todo' = [todo EXCEPT ![w] = [fan |-> f, writes |-> Writes(pwm)]]
    BY <1>5 DEF Store
  <2>3. ASSUME NEW u \in Writers PROVE Stops(todo'[u].writes) => todo'[u].fan \in off'
    <3>1. CASE u = w
      <4>1. todo'[u].fan = f /\ todo'[u].writes = Writes(pwm)
        BY <1>2, <2>2, <3>1
      <4> QED
        BY <2>1, <4>1
    <3>2. CASE u # w
      <4>1. todo'[u] = todo[u]
        BY <1>2, <2>2, <3>2
      <4> QED
        BY <1>1, <1>5, <4>1
    <3> QED
      BY <3>1, <3>2
  <2> QED
    BY <1>1, <1>3, <1>5, <2>2, <2>3 DEF StopInv
<1>6. ASSUME NEW w \in Writers, NEW f \in Fans, Show(w, f) PROVE StopInv'
  <2> DEFINE d == regs[f][<<"duty", 1>>]
  <2>1. d \in 0..184
    BY <1>0 DEF FanInv, ShownInRange, DutyMax
  <2>2. Duty(DUTY_TO_PWM(d)) = 0 => f \in off
    <3>1. CASE d < 46
      BY <1>1, <3>1
    <3>2. CASE ~(d < 46)
      <4>1. d \in 46..184
        BY <2>1, <3>2
      <4> QED
        BY <1>0, <4>1, RoundTrip
    <3> QED
      BY <3>1, <3>2
  <2>3. /\ seen' = [seen EXCEPT ![w][f] = DUTY_TO_PWM(d)]
        /\ UNCHANGED <<device, regs, todo, off>>
    BY <1>6 DEF Show, Shown
  <2>4. ASSUME NEW u \in Writers, NEW g \in Fans, seen'[u][g] # None, Duty(seen'[u][g]) = 0
        PROVE  g \in off
    <3>1. CASE u = w /\ g = f
      BY <1>2, <2>2, <2>3, <2>4, <3>1
    <3>2. CASE ~(u = w /\ g = f)
      <4>1. seen'[u][g] = seen[u][g]
        BY <1>2, <2>3, <3>2
      <4> QED
        BY <1>1, <2>4, <4>1
    <3> QED
      BY <3>1, <3>2
  <2> QED
    BY <1>1, <1>3, <2>3, <2>4 DEF StopInv
<1>7. ASSUME NEW w \in Writers, Write(w) PROVE StopInv'
  <2> DEFINE x == Head(todo[w].writes)
  <2>1. /\ todo[w].fan \in Fans /\ todo[w].writes \in Seq(CoolWrites) /\ todo[w].writes # <<>>
    BY <1>2, <1>7 DEF Write, Idle
  <2>2. x \in CoolWrites
    BY <2>1
  <2>3. x.reg \in Registers
    BY <2>2 DEF CoolWrites
  <2>4. x.reg = <<"duty", 1>> /\ x.val < 46 => todo[w].fan \in off
    <3>1. x.reg = <<"duty", 1>> /\ x.val = 0 => todo[w].fan \in off
      BY <1>1, <2>1, TailStops
    <3>2. x.reg = <<"duty", 1>> /\ x.val < 46 => x.val = 0
      BY <1>0, <2>2, Limits DEF CoolWrites, Cool, MaxOf, Reliable, DutyMax
    <3> QED
      BY <3>1, <3>2
  <2>5. regs' = [regs EXCEPT ![todo[w].fan][x.reg] = x.val] /\ UNCHANGED <<device, seen, off>>
    BY <1>7 DEF Write
  <2> HIDE DEF x
  <2>6. PICK s : s \in {<<>>, Tail(todo[w].writes)} /\ todo' = [todo EXCEPT ![w].writes = s]
    BY <1>7 DEF Write, Finish
  <2>7. Stops(s) => todo[w].fan \in off
    BY <1>1, <2>1, <2>6, TailStops
  <2>8. ASSUME NEW g \in Fans, regs'[g][<<"duty", 1>>] < 46 PROVE g \in off
    <3>1. regs'[g][<<"duty", 1>>] = IF g = todo[w].fan /\ x.reg = <<"duty", 1>> THEN x.val
                                    ELSE regs[g][<<"duty", 1>>]
      BY <1>0, <1>2, <2>1, <2>3, <2>5
    <3> QED
      BY <1>1, <2>4, <2>8, <3>1
  <2>9. ASSUME NEW u \in Writers PROVE Stops(todo'[u].writes) => todo'[u].fan \in off
    <3>1. CASE u = w
      <4>1. todo'[u].fan = todo[u].fan /\ todo'[u].writes = s
        BY <1>2, <2>6, <3>1
      <4> QED
        BY <2>7, <3>1, <4>1
    <3>2. CASE u # w
      <4>1. todo'[u] = todo[u]
        BY <1>2, <2>6, <3>2
      <4> QED
        BY <1>1, <4>1
    <3> QED
      BY <3>1, <3>2
  <2> QED
    BY <1>1, <1>3, <2>5, <2>8, <2>9 DEF StopInv
<1>8. ASSUME NEW w \in Writers, NEW f \in Fans,
             (\E pwm \in Pwms : StoreAsked(w, f, pwm)) \/ StoreSeen(w, f)
      PROVE  StopInv'
  <2>1. ASSUME NEW pwm \in Pwms, StoreAsked(w, f, pwm) PROVE StopInv'
    <3>1. pwm \in 0..255 /\ Store(w, f, pwm) /\ off \subseteq off' /\ (Duty(pwm) = 0 => f \in off')
      BY <2>1, FansAssumption DEF StoreAsked
    <3> QED
      BY <1>5, <3>1
  <2>2. CASE StoreSeen(w, f)
    <3>1. /\ seen[w][f] \in 0..255 /\ Store(w, f, seen[w][f]) /\ off' = off
          /\ Duty(seen[w][f]) = 0 => f \in off
      BY <1>1, <1>2, <2>2 DEF StoreSeen
    <3> QED
      BY <1>5, <3>1
  <2> QED
    BY <1>8, <2>1, <2>2
<1>9. ASSUME \/ \E w \in Writers, f \in Fans, value \in 0..2 : EnableStore(w, f, value)
             \/ \E w \in Writers, value \in 0..2 : TuxiEnableStore(w, value)
             \/ Rebind
             \/ UNCHANGED fanVars
      PROVE  StopInv'
  <2>1. UNCHANGED <<device, regs, todo, seen, off>>
    BY <1>9 DEF EnableStore, TuxiEnableStore, EnableStored, Rebind, fanVars
  <2> QED
    BY <1>4, <2>1
<1>10. ASSUME NEW w \in Writers PROVE ~TuxiWrite(w) /\ \A f \in Fans : ~TuxiShow(w, f)
  BY DEF TuxiWrite, TuxiShow
<1> QED
  BY <1>6, <1>7, <1>8, <1>9, <1>10 DEF FansNext

\* Programs that store back what they were shown, at whatever moment and as
\* often as they like, never stop a fan that nobody asked to stop and that the
\* firmware did not run below the lowest speed: the two truncating conversions of tuxedo_nb05_fan_control.c lose too little.
THEOREM RestoringNeverStops == FansSpec => []RestoringStopsNoFan
<1>1. StopInv => RestoringStopsNoFan
  BY DEF StopInv, RestoringStopsNoFan
<1>2. FansInit => FanInv /\ StopInv
  BY FansInitInv, StopInit
<1>3. FanInv /\ StopInv /\ [FansNext]_fanVars => (FanInv /\ StopInv)'
  BY FansStep, StopStep
<1> QED
  BY <1>1, <1>2, <1>3, PTL DEF FansSpec

(***************************************************************************)
(* The last store.                                                         *)
(***************************************************************************)

\* What a store of p is to leave in a register for the lower zones, the
\* registers it is to leave it in, and the writes that do.
Target(r, p) == IF r[1] = "rpm" THEN Rpm(p) ELSE Duty(p)
Needed == {r \in Registers : r[2] <= LowZones /\ (r[1] = "rpm" => write_rpm)}
OnTarget(p) == {x \in [reg : Registers, val : 0..255] : x.reg[2] <= LowZones => x.val = Target(x.reg, p)}

ToWrite(w, r) == \E i \in 1..Len(todo[w].writes) : todo[w].writes[i].reg = r

\* As long as no store raced it, whatever is still to be written to the fan is
\* the last store's, and a register that has not got its value yet is among it.
ForceInv ==
    /\ settled \in [Fans -> {None} \cup 0..255]
    /\ write_rpm \in BOOLEAN /\ (write_rpm => device = "ranges")
    /\ device = "tuxi" => \A w \in Writers : Len(todo[w].writes) <= 1
    /\ \A f \in Fans : settled[f] # None =>
         /\ \A w \in Writers : todo[w].fan = f => todo[w].writes \in Seq(OnTarget(settled[f]))
         /\ \A r \in Needed : \/ regs[f][r] = Target(r, settled[f])
                              \/ \E w \in Writers : todo[w].fan = f /\ ToWrite(w, r)

\* The two conversions agree on which requests stop the fan.
LEMMA UnitsAgree ==
    ASSUME device = "ranges", NEW pwm \in 0..255
    PROVE  Rpm(pwm) = 0 <=> Duty(pwm) = 0
<1>1. DutyMax(device) = 184 /\ FAN_SET_RPM_MAX = 54
  BY DEF DutyMax, FAN_SET_RPM_MAX
<1>2. FanOnHalf(184) = 23 /\ FanOnMin(184) = 46 /\ FanOnHalf(54) = 6 /\ FanOnMin(54) = 13
  BY DEF FanOnHalf, FanOnMin, FAN_ON_MIN_SPEED_PERCENT
<1>3. PICK d : d = PWM_TO(184, pwm)
  OBVIOUS
<1>4. PICK m : m = PWM_TO(54, pwm)
  OBVIOUS
<1>5. d \in Nat /\ m \in Nat
  BY <1>3, <1>4 DEF PWM_TO
<1>6. d <= 23 <=> pwm <= 33
  BY <1>3 DEF PWM_TO
<1>7. m <= 6 <=> pwm <= 33
  BY <1>4 DEF PWM_TO
<1>8. Duty(pwm) = 0 <=> d <= 23
  BY <1>1, <1>2, <1>3, <1>5 DEF Duty, ClampInclusive
<1>9. Rpm(pwm) = 0 <=> m <= 6
  BY <1>1, <1>2, <1>4, <1>5 DEF Rpm, ClampInclusive
<1> QED  BY <1>6, <1>7, <1>8, <1>9

\* A curve has the speed in all lower zones.
LEMMA CurveOnTarget ==
    ASSUME device = "ranges", NEW p \in 0..255, NEW unit \in {"duty", "rpm"}, NEW least \in {15, 51},
           NEW speed \in 0..255, unit = "duty" => speed = Duty(p), unit = "rpm" => speed = Rpm(p)
    PROVE  /\ Curve(unit, speed, least) \in Seq(OnTarget(p))
           /\ Len(Curve(unit, speed, least)) = LowZones + HotZones
           /\ \A z \in 1..LowZones + HotZones : Curve(unit, speed, least)[z].reg = <<unit, z>>
<1> DEFINE c == [z \in 1..LowZones + HotZones |->
                  [reg |-> <<unit, z>>, val |-> IF z <= LowZones THEN speed ELSE AtLeast(speed, least)]]
<1>1. ASSUME NEW z \in 1..LowZones + HotZones PROVE c[z] \in OnTarget(p)
  <2> DEFINE v == IF z <= LowZones THEN speed ELSE AtLeast(speed, least)
  <2>1. <<unit, z>> \in Registers
    BY DEF Registers
  <2>2. v \in 0..255 /\ (z <= LowZones => v = speed)
    BY DEF AtLeast
  <2>3. speed = Target(<<unit, z>>, p)
    <3>1. unit = "duty" \/ unit = "rpm"
      OBVIOUS
    <3> QED  BY <3>1 DEF Target
  <2> HIDE DEF v
  <2>4. [reg |-> <<unit, z>>, val |-> v] \in OnTarget(p)
    BY <2>1, <2>2, <2>3 DEF OnTarget
  <2> QED  BY <2>4 DEF v
<1>2. LowZones + HotZones \in Nat
  BY FansAssumption
<1>3. c \in [1..LowZones + HotZones -> OnTarget(p)]
  BY <1>1
<1>4. c \in Seq(OnTarget(p))
  BY ONLY <1>2, <1>3, IsASeqOfWrites
<1>5. \A z \in 1..LowZones + HotZones : c[z].reg = <<unit, z>>
  OBVIOUS
<1>6. Len(c) = LowZones + HotZones
  <2>1. DOMAIN c = 1..LowZones + HotZones
    OBVIOUS
  <2> HIDE DEF c
  <2> QED  BY <1>2, <1>4, <2>1, LenProperties
<1>7. Curve(unit, speed, least) = c
  BY DEF Curve
<1> HIDE DEF c
<1> QED  BY <1>4, <1>5, <1>6, <1>7

\* A store writes every register of the lower zones, and nothing else to them.
LEMMA WritesOnTarget ==
    ASSUME device \in Devices, write_rpm => device = "ranges", NEW p \in 0..255
    PROVE  /\ Writes(p) \in Seq(OnTarget(p))
           /\ \A r \in Needed : \E i \in 1..Len(Writes(p)) : Writes(p)[i].reg = r
           /\ device # "ranges" => Len(Writes(p)) = 1
<1>1. CASE device = "ranges"
  <2>0. LowZones + HotZones \in Nat /\ LowZones + HotZones >= LowZones /\ LowZones \in Nat
    BY FansAssumption
  <2>1. PICK c : c = Curve("duty", Duty(p), FAN_SET_DUTY_HIGHTEMP)
    OBVIOUS
  <2>2. /\ c \in Seq(OnTarget(p)) /\ Len(c) = LowZones + HotZones
        /\ \A z \in 1..LowZones + HotZones : c[z].reg = <<"duty", z>>
    <3>2. FAN_SET_DUTY_HIGHTEMP \in {15, 51} /\ Duty(p) \in 0..255
      BY Limits, Converted
    <3>3. PICK speed \in 0..255 : speed = Duty(p)
      BY <3>2
    <3>4. PICK least \in {15, 51} : least = FAN_SET_DUTY_HIGHTEMP
      BY <3>2
    <3>5. ("duty" = "duty" => speed = Duty(p)) /\ ("duty" = "rpm" => speed = Rpm(p))
      BY <3>3
    <3>6. /\ Curve("duty", speed, least) \in Seq(OnTarget(p))
          /\ Len(Curve("duty", speed, least)) = LowZones + HotZones
          /\ \A z \in 1..LowZones + HotZones : Curve("duty", speed, least)[z].reg = <<"duty", z>>
      BY <1>1, <3>5, CurveOnTarget, ZenonT(40)
    <3> QED  BY <2>1, <3>3, <3>4, <3>6
  <2>3. PICK m : m = Curve("rpm", Rpm(p), FAN_SET_RPM_HIGHTEMP)
    OBVIOUS
  <2>4. /\ m \in Seq(OnTarget(p)) /\ Len(m) = LowZones + HotZones
        /\ \A z \in 1..LowZones + HotZones : m[z].reg = <<"rpm", z>>
    <3>2. FAN_SET_RPM_HIGHTEMP \in {15, 51} /\ Rpm(p) \in 0..255
      BY Limits, Converted
    <3>3. PICK speed \in 0..255 : speed = Rpm(p)
      BY <3>2
    <3>4. PICK least \in {15, 51} : least = FAN_SET_RPM_HIGHTEMP
      BY <3>2
    <3>5. ("rpm" = "duty" => speed = Duty(p)) /\ ("rpm" = "rpm" => speed = Rpm(p))
      BY <3>3
    <3>6. /\ Curve("rpm", speed, least) \in Seq(OnTarget(p))
          /\ Len(Curve("rpm", speed, least)) = LowZones + HotZones
          /\ \A z \in 1..LowZones + HotZones : Curve("rpm", speed, least)[z].reg = <<"rpm", z>>
      BY <1>1, <3>5, CurveOnTarget, ZenonT(40)
    <3> QED  BY <2>3, <3>3, <3>4, <3>6
  <2>5. PICK e : e \in Seq(OnTarget(p)) /\ e = IF write_rpm THEN m ELSE <<>>
    <3>1. <<>> \in Seq(OnTarget(p))
      OBVIOUS
    <3> QED  BY <2>4, <3>1
  <2>6. Writes(p) = c \o e
    BY <1>1, <2>1, <2>3, <2>5 DEF Writes
  <2>7. /\ c \o e \in Seq(OnTarget(p)) /\ Len(c \o e) = Len(c) + Len(e)
        /\ \A i \in 1..Len(c) + Len(e) : (c \o e)[i] = IF i <= Len(c) THEN c[i] ELSE e[i - Len(c)]
    BY <2>2, <2>5, ConcatProperties
  <2>8. Len(e) \in Nat
    BY <2>5
  <2>9. ASSUME NEW r \in Needed PROVE \E i \in 1..Len(c \o e) : (c \o e)[i].reg = r
    <3>1. PICK unit \in {"duty", "rpm"}, z \in 1..LowZones + HotZones : r = <<unit, z>>
      BY <1>1, <2>9 DEF Needed, Registers
    <3>2. CASE unit = "duty"
      <4>1. z \in 1..Len(c) + Len(e) /\ z <= Len(c)
        BY <2>0, <2>2, <2>8
      <4>2. (c \o e)[z].reg = r
        BY <2>2, <2>7, <3>1, <3>2, <4>1
      <4> QED  BY <2>7, <4>1, <4>2
    <3>3. CASE unit = "rpm"
      <4>1. write_rpm /\ e = m
        BY <2>5, <2>9, <3>1, <3>3 DEF Needed
      <4>2. PICK i : i = Len(c) + z
        OBVIOUS
      <4>3. i \in 1..Len(c) + Len(e) /\ ~(i <= Len(c)) /\ i - Len(c) = z
        BY <2>0, <2>2, <2>4, <4>1, <4>2
      <4>4. (c \o e)[i].reg = r
        BY <2>4, <2>7, <3>1, <3>3, <4>1, <4>3
      <4> QED  BY <2>7, <4>3, <4>4
    <3> QED  BY <3>2, <3>3
  <2> QED  BY <1>1, <2>6, <2>7, <2>9
<1>2. CASE device # "ranges"
  <2>1. Registers = {<<"duty", 1>>} /\ 1 <= LowZones
    BY <1>2, FansAssumption DEF Registers
  <2>2. [reg |-> <<"duty", 1>>, val |-> Duty(p)] \in OnTarget(p)
    BY <2>1, Converted DEF OnTarget, Target
  <2>3. Writes(p) = <<[reg |-> <<"duty", 1>>, val |-> Duty(p)]>>
    BY <1>2 DEF Writes
  <2>4. \A r \in Needed : r = <<"duty", 1>>
    BY <2>1 DEF Needed
  <2> QED  BY <1>2, <2>2, <2>3, <2>4
<1> QED  BY <1>1, <1>2

\* At the start no speed was stored.
LEMMA ForceInit == FansInit => ForceInv
<1> SUFFICES ASSUME FansInit PROVE ForceInv
  OBVIOUS
<1>1. \A w \in Writers : Len(todo[w].writes) = 0
  BY DEF FansInit
<1>2. \A f \in Fans : settled[f] = None
  BY DEF FansInit
<1>3. settled \in [Fans -> {None} \cup 0..255] /\ write_rpm \in BOOLEAN /\ (write_rpm => device = "ranges")
  BY DEF FansInit, RpmWanted
<1> QED  BY <1>1, <1>2, <1>3 DEF ForceInv

\* The first of the writes, and the rest of them.
LEMMA FirstAndRest ==
    ASSUME NEW S, NEW s \in Seq(S), s # <<>>
    PROVE  /\ Head(s) \in S /\ Tail(s) \in Seq(S)
           /\ Len(s) \in Nat /\ Len(s) > 0 /\ Len(Tail(s)) = Len(s) - 1
           /\ Len(s) = 1 => Tail(s) = <<>>
           /\ \A r : (\E i \in 1..Len(s) : s[i].reg = r)
                       => Head(s).reg = r \/ \E i \in 1..Len(Tail(s)) : Tail(s)[i].reg = r
<1>1. /\ Len(s) \in Nat \ {0} /\ Head(s) = s[1] /\ Len(Tail(s)) = Len(s) - 1
      /\ Head(s) \in S /\ Tail(s) \in Seq(S)
  OBVIOUS
<1>2. ASSUME NEW r, NEW i \in 1..Len(s), s[i].reg = r, i # 1
      PROVE  \E j \in 1..Len(Tail(s)) : Tail(s)[j].reg = r
  <2>1. PICK j : j = i - 1
    OBVIOUS
  <2>2. j \in 1..Len(Tail(s)) /\ i = j + 1
    BY <1>1, <1>2, <2>1
  <2>3. Tail(s)[j] = s[j + 1]
    BY <1>1, <2>2
  <2> QED  BY <1>2, <2>2, <2>3
<1>3. Len(s) = 1 => Tail(s) = <<>>
  <2>1. Tail(s) # <<>> => Len(Tail(s)) \in Nat \ {0}
    BY <1>1, EmptySeq
  <2> QED  BY <1>1, <2>1
<1> QED  BY <1>1, <1>2, <1>3

\* What depends on the device only stays as it is with it.
LEMMA SameTarget ==
    ASSUME device' = device, write_rpm' = write_rpm
    PROVE  /\ Needed' = Needed
           /\ \A p : OnTarget(p)' = OnTarget(p)
           /\ \A p, r : Target(r, p)' = Target(r, p)
BY DEF Needed, OnTarget, Target, Registers, Duty, Rpm, DutyMax

\* Every step keeps the invariant.
LEMMA ForceStep == FanInv /\ ForceInv /\ [FansNext]_fanVars => ForceInv'
<1> SUFFICES ASSUME FanInv, ForceInv, [FansNext]_fanVars PROVE ForceInv'
  OBVIOUS
<1>a. device' = device /\ write_rpm' = write_rpm
  BY ZenonT(40) DEF FansNext, fanVars, StoreAsked, StoreSeen, Store, Show, TuxiShow, Shown, EnableStore,
         TuxiEnableStore, EnableStored, Write, TuxiWrite, Rebind
<1>b. /\ Needed' = Needed
      /\ \A p : OnTarget(p)' = OnTarget(p)
      /\ \A p, r : Target(r, p)' = Target(r, p)
  BY <1>a, SameTarget
<1>0. /\ device \in Devices
      /\ todo \in [Writers -> [fan : Fans, writes : Seq(CoolWrites)]]
      /\ seen \in [Writers -> [Fans -> {None} \cup 0..255]]
      /\ regs \in [Fans -> [Registers -> 0..255]]
  BY DEF FanInv, FanTypes
<1>1. /\ settled \in [Fans -> {None} \cup 0..255]
      /\ write_rpm \in BOOLEAN /\ (write_rpm => device = "ranges")
      /\ device = "tuxi" => \A w \in Writers : Len(todo[w].writes) <= 1
  BY DEF ForceInv
<1>2. ASSUME NEW f \in Fans, settled[f] # None
      PROVE  /\ \A w \in Writers : todo[w].fan = f => todo[w].writes \in Seq(OnTarget(settled[f]))
             /\ \A r \in Needed : \/ regs[f][r] = Target(r, settled[f])
                                  \/ \E w \in Writers : todo[w].fan = f /\ ToWrite(w, r)
  BY <1>2 DEF ForceInv
<1>3. CASE UNCHANGED <<device, write_rpm, regs, todo, settled>>
  <2>1. \A w \in Writers, r \in Needed : ToWrite(w, r)' <=> ToWrite(w, r)
    BY <1>3 DEF ToWrite
  <2> QED  BY <1>1, <1>2, <1>3, <1>b, <2>1 DEF ForceInv
<1>4. ASSUME NEW w \in Writers, NEW f \in Fans, NEW pwm \in 0..255, Store(w, f, pwm) PROVE ForceInv'
  <2>1. /\ todo[w].writes = <<>> /\ regs' = regs
        /\ todo' = [todo EXCEPT ![w] = [fan |-> f, writes |-> Writes(pwm)]]
        /\ settled' = [settled EXCEPT ![f] = IF Quiet(f) THEN pwm ELSE None]
    BY <1>4 DEF Store, Idle
  <2>2. /\ Writes(pwm) \in Seq(OnTarget(pwm))
        /\ \A r \in Needed : \E i \in 1..Len(Writes(pwm)) : Writes(pwm)[i].reg = r
        /\ device # "ranges" => Len(Writes(pwm)) = 1
    BY <1>0, <1>1, WritesOnTarget
  <2>3. todo'[w].fan = f /\ todo'[w].writes = Writes(pwm) /\ \A u \in Writers \ {w} : todo'[u] = todo[u]
    BY <1>0, <2>1
  <2>4. settled' \in [Fans -> {None} \cup 0..255]
    BY <1>1, <2>1
  <2>5. device = "tuxi" => \A u \in Writers : Len(todo'[u].writes) <= 1
    <3>1. device = "tuxi" => Len(todo'[w].writes) <= 1
      <4>1. device # "ranges" => Len(todo'[w].writes) = 1
        BY <2>2, <2>3, Zenon
      <4>2. PICK n : n = Len(todo'[w].writes)
        OBVIOUS
      <4>3. device = "tuxi" => n = 1
        BY <4>1, <4>2
      <4>4. n = 1 => n <= 1
        OBVIOUS
      <4> QED  BY <4>2, <4>3, <4>4
    <3> QED  BY <1>1, <2>3, <3>1
  <2>6. ASSUME NEW g \in Fans, settled'[g] # None
        PROVE  /\ \A u \in Writers : todo'[u].fan = g => todo'[u].writes \in Seq(OnTarget(settled'[g]))
               /\ \A r \in Needed : \/ regs'[g][r] = Target(r, settled'[g])
                                    \/ \E u \in Writers : todo'[u].fan = g /\ ToWrite(u, r)'
    <3>1. CASE g = f
      <4>1. Quiet(f) /\ settled'[g] = pwm
        BY <1>1, <2>1, <2>6, <3>1
      <4>2. ASSUME NEW u \in Writers, todo'[u].fan = g PROVE todo'[u].writes \in Seq(OnTarget(pwm))
        <5>1. CASE u = w
          BY <2>2, <2>3, <5>1
        <5>2. CASE u # w
          <6>1. todo'[u].writes = <<>>
            BY <2>3, <3>1, <4>1, <4>2, <5>2 DEF Quiet, Idle
          <6> QED  BY <6>1
        <5> QED  BY <5>1, <5>2
      <4>3. \A r \in Needed : todo'[w].fan = g /\ ToWrite(w, r)'
        BY <2>2, <2>3, <3>1 DEF ToWrite
      <4> QED  BY <4>1, <4>2, <4>3
    <3>2. CASE g # f
      <4>1. settled'[g] = settled[g]
        BY <1>1, <2>1, <3>2
      <4>2. \A u \in Writers : todo'[u].fan = g => u # w /\ todo'[u] = todo[u]
        BY <2>3, <3>2
      <4>3. \A u \in Writers, r \in Needed : ToWrite(u, r) => u # w
        BY <2>1 DEF ToWrite
      <4>4. \A u \in Writers, r \in Needed : ToWrite(u, r) => todo'[u] = todo[u] /\ ToWrite(u, r)'
        BY <2>3, <4>3 DEF ToWrite
      <4> QED  BY <1>2, <2>1, <2>6, <4>1, <4>2, <4>4
    <3> QED  BY <3>1, <3>2
  <2> QED  BY <1>1, <1>a, <1>b, <2>4, <2>5, <2>6 DEF ForceInv
<1>5. ASSUME NEW w \in Writers, ~Idle(w), todo' = [todo EXCEPT ![w].writes = Tail(@)],
             \/ /\ regs' = [regs EXCEPT ![todo[w].fan][Head(todo[w].writes).reg] = Head(todo[w].writes).val]
                /\ settled' = settled
             \/ /\ regs' = regs
                /\ settled' = [settled EXCEPT ![todo[w].fan] = None]
      PROVE  ForceInv'
  <2>1. PICK h \in Fans : h = todo[w].fan
    BY <1>0
  <2>2. todo[w].writes \in Seq(CoolWrites) /\ todo[w].writes # <<>>
    BY <1>0, <1>5 DEF Idle
  <2>3. PICK x : x = Head(todo[w].writes)
    OBVIOUS
  <2>4. x.reg \in Registers
    BY <2>2, <2>3, FirstAndRest DEF CoolWrites
  <2>5. /\ todo'[w].fan = h /\ todo'[w].writes = Tail(todo[w].writes)
        /\ \A u \in Writers \ {w} : todo'[u] = todo[u]
    BY <1>0, <1>5, <2>1
  <2>6. /\ settled' \in [Fans -> {None} \cup 0..255]
        /\ \A g \in Fans : settled'[g] # None => settled'[g] = settled[g]
    BY <1>1, <1>5, <2>1
  <2>7. device = "tuxi" => \A u \in Writers : Len(todo'[u].writes) <= 1
    <3>1. PICK n : n = Len(todo[w].writes)
      OBVIOUS
    <3>2. n \in Nat /\ Len(Tail(todo[w].writes)) = n - 1
      BY <2>2, <3>1, FirstAndRest
    <3>3. ASSUME device = "tuxi", NEW u \in Writers PROVE Len(todo'[u].writes) <= 1
      <4>1. n <= 1
        BY <1>1, <3>1, <3>3
      <4>2. Len(todo'[w].writes) <= 1
        <5>1. Len(todo'[w].writes) = n - 1
          BY <2>5, <3>2
        <5> QED  BY <3>2, <4>1, <5>1
      <4>3. u # w => Len(todo'[u].writes) <= 1
        BY <1>1, <2>5, <3>3
      <4> QED  BY <4>2, <4>3
    <3> QED  BY <3>3
  <2>8. ASSUME NEW g \in Fans, settled'[g] # None
        PROVE  /\ \A u \in Writers : todo'[u].fan = g => todo'[u].writes \in Seq(OnTarget(settled'[g]))
               /\ \A r \in Needed : \/ regs'[g][r] = Target(r, settled'[g])
                                    \/ \E u \in Writers : todo'[u].fan = g /\ ToWrite(u, r)'
    <3>1. PICK p : p = settled[g] /\ p = settled'[g] /\ p # None
      BY <2>6, <2>8
    <3>2. \A u \in Writers : todo[u].fan = g => todo[u].writes \in Seq(OnTarget(p))
      BY <1>2, <3>1
    <3>3. ASSUME NEW u \in Writers, todo'[u].fan = g PROVE todo'[u].writes \in Seq(OnTarget(p))
      <4>1. CASE u = w
        <5>1. todo[w].writes \in Seq(OnTarget(p))
          BY <2>1, <2>5, <3>2, <3>3, <4>1
        <5>2. Tail(todo[w].writes) \in Seq(OnTarget(p))
          BY ONLY <2>2, <5>1, FirstAndRest
        <5> QED  BY <2>5, <4>1, <5>2
      <4>2. CASE u # w
        BY <2>5, <3>2, <3>3, <4>2
      <4> QED  BY <4>1, <4>2
    <3>4. ASSUME NEW r \in Needed, ~(\E u \in Writers : todo'[u].fan = g /\ ToWrite(u, r)')
          PROVE  regs'[g][r] = Target(r, p)
      <4>0. r \in Registers /\ r[2] <= LowZones
        BY DEF Needed
      <4>1. CASE g = h /\ r = x.reg
        <5>1. regs' = [regs EXCEPT ![h][x.reg] = x.val]
          BY <1>1, <1>5, <2>1, <2>3, <3>1, <4>1
        <5>2. regs'[g][r] = x.val
          BY <1>0, <2>4, <4>1, <5>1
        <5>3. x \in OnTarget(p)
          BY <2>1, <2>2, <2>3, <3>2, <4>1, FirstAndRest
        <5>4. x.val = Target(r, p)
          BY <4>0, <4>1, <5>3 DEF OnTarget
        <5> QED  BY <5>2, <5>4
      <4>2. CASE ~(g = h /\ r = x.reg)
        <5>1. regs'[g][r] = regs[g][r]
          BY <1>0, <1>5, <2>1, <2>3, <2>4, <4>0, <4>2
        <5>2. ASSUME NEW u \in Writers, todo[u].fan = g, ToWrite(u, r) PROVE FALSE
          <6>1. CASE u # w
            BY <2>5, <3>4, <5>2, <6>1 DEF ToWrite
          <6>2. CASE u = w
            <7>1. Head(todo[w].writes).reg # r
              BY <2>1, <2>3, <4>2, <5>2, <6>2
            <7>2. \E i \in 1..Len(Tail(todo[w].writes)) : Tail(todo[w].writes)[i].reg = r
              <8>1. \E i \in 1..Len(todo[w].writes) : todo[w].writes[i].reg = r
                BY <5>2, <6>2 DEF ToWrite
              <8>2. PICK s : s = todo[w].writes /\ s \in Seq(CoolWrites) /\ s # <<>>
                BY <2>2
              <8>3. \/ Head(s).reg = r
                    \/ \E i \in 1..Len(Tail(s)) : Tail(s)[i].reg = r
                BY <8>1, <8>2, FirstAndRest
              <8> QED  BY <7>1, <8>2, <8>3
            <7>3. todo'[w].fan = g
              BY <2>1, <2>5, <5>2, <6>2
            <7>4. ToWrite(w, r)'
              BY <2>5, <7>2 DEF ToWrite
            <7> QED  BY <3>4, <7>3, <7>4
          <6> QED  BY <6>1, <6>2
        <5> QED  BY <1>2, <3>1, <5>1, <5>2
      <4> QED  BY <4>1, <4>2
    <3> QED  BY <3>1, <3>3, <3>4
  <2> QED  BY <1>1, <1>a, <1>b, <2>6, <2>7, <2>8 DEF ForceInv
<1>6. ASSUME NEW w \in Writers, Write(w) PROVE ForceInv'
  <2>1. ~Idle(w) /\ settled' = settled
        /\ regs' = [regs EXCEPT ![todo[w].fan][Head(todo[w].writes).reg] = Head(todo[w].writes).val]
    BY <1>6 DEF Write
  <2>2. todo[w].writes \in Seq(CoolWrites) /\ todo[w].writes # <<>>
    BY <1>0, <2>1 DEF Idle
  <2>3. Len(todo[w].writes) = 1 => Tail(todo[w].writes) = <<>>
    BY <2>2, FirstAndRest
  <2>4. todo' = [todo EXCEPT ![w].writes = Tail(@)]
    BY <1>6, <2>3 DEF Write, Finish
  <2> QED  BY <1>5, <2>1, <2>4
<1>7. ASSUME NEW w \in Writers, TuxiWrite(w) PROVE ForceInv'
  <2>1. ~Idle(w) /\ device = "tuxi"
    BY <1>7 DEF TuxiWrite
  <2>2. todo[w].writes \in Seq(CoolWrites) /\ todo[w].writes # <<>>
    BY <1>0, <2>1 DEF Idle
  <2>3. Len(todo[w].writes) <= 1
    BY <1>1, <2>1
  <2>4. Tail(todo[w].writes) = <<>>
    <3>1. PICK n : n = Len(todo[w].writes)
      OBVIOUS
    <3>2. n \in Nat /\ n > 0 /\ n <= 1 /\ (n = 1 => Tail(todo[w].writes) = <<>>)
      BY <2>2, <2>3, <3>1, FirstAndRest
    <3> QED  BY <3>2
  <2>5. todo' = [todo EXCEPT ![w].writes = Tail(@)]
    BY <1>7, <2>4 DEF TuxiWrite, Finish
  <2>6. \/ /\ regs' = [regs EXCEPT ![todo[w].fan][Head(todo[w].writes).reg] = Head(todo[w].writes).val]
           /\ settled' = settled
        \/ /\ regs' = regs
           /\ settled' = [settled EXCEPT ![todo[w].fan] = None]
    BY <1>7 DEF TuxiWrite
  <2> QED  BY <1>5, <2>1, <2>5, <2>6
<1>8. ASSUME NEW w \in Writers, NEW f \in Fans,
             (\E pwm \in Pwms : StoreAsked(w, f, pwm)) \/ StoreSeen(w, f)
      PROVE  ForceInv'
  <2>1. ASSUME NEW pwm \in Pwms, StoreAsked(w, f, pwm) PROVE ForceInv'
    BY <1>4, <2>1, FansAssumption DEF StoreAsked
  <2>2. CASE StoreSeen(w, f)
    <3>1. seen[w][f] \in 0..255
      BY <1>0, <2>2 DEF StoreSeen
    <3> QED  BY <1>4, <2>2, <3>1 DEF StoreSeen
  <2> QED  BY <1>8, <2>1, <2>2
<1>9. ASSUME \/ \E w \in Writers, f \in Fans : Show(w, f) \/ TuxiShow(w, f)
             \/ \E w \in Writers, f \in Fans, value \in 0..2 : EnableStore(w, f, value)
             \/ \E w \in Writers, value \in 0..2 : TuxiEnableStore(w, value)
             \/ Rebind
             \/ UNCHANGED fanVars
      PROVE  ForceInv'
  <2>1. UNCHANGED <<regs, todo, settled>>
    BY <1>9 DEF Show, TuxiShow, Shown, EnableStore, TuxiEnableStore, EnableStored, Rebind, fanVars
  <2> QED  BY <1>3, <1>a, <2>1
<1> QED  BY <1>6, <1>7, <1>8, <1>9 DEF FansNext

\* A store of a fan's speed that nobody else's store of that fan overlapped is
\* in force in all its lower zones when it is over, and the two curves of older
\* firmware agree on whether the fan runs, for any number of other writers
\* (fan1_pwm_store and fan2_pwm_store).
THEOREM LastStoreAlwaysInForce == FansSpec => []LastStoreIsInForce
<1>1. FanInv /\ ForceInv => LastStoreIsInForce
  <2> SUFFICES ASSUME FanInv, ForceInv, NEW f \in Fans, Quiet(f), settled[f] # None,
                      NEW z \in 1..LowZones, <<"duty", z>> \in Registers
               PROVE  /\ regs[f][<<"duty", z>>] = Duty(settled[f])
                      /\ write_rpm => (regs[f][<<"rpm", z>>] = 0 <=> regs[f][<<"duty", z>>] = 0)
    BY DEF LastStoreIsInForce
  <2>1. PICK p \in 0..255 : p = settled[f]
    BY DEF ForceInv
  <2>2. \A r \in Needed : regs[f][r] = Target(r, p)
    <3>1. \A w \in Writers : todo[w].fan = f => todo[w].writes = <<>>
      BY DEF Quiet, Idle
    <3>2. \A w \in Writers, r \in Needed : todo[w].fan = f => ~ToWrite(w, r)
      BY <3>1 DEF ToWrite
    <3> QED  BY <2>1, <3>2 DEF ForceInv
  <2>3. <<"duty", z>> \in Needed
    BY FansAssumption DEF Needed
  <2>4. regs[f][<<"duty", z>>] = Duty(p)
    BY <2>2, <2>3 DEF Target
  <2>5. ASSUME write_rpm PROVE regs[f][<<"rpm", z>>] = Rpm(p) /\ device = "ranges"
    <3>1. device = "ranges"
      BY <2>5 DEF ForceInv
    <3>2. <<"rpm", z>> \in Needed
      BY <2>5, <3>1, FansAssumption DEF Needed, Registers
    <3> QED  BY <2>2, <3>1, <3>2 DEF Target
  <2>6. write_rpm => (regs[f][<<"rpm", z>>] = 0 <=> regs[f][<<"duty", z>>] = 0)
    BY <2>4, <2>5, UnitsAgree
  <2> QED  BY <2>1, <2>4, <2>6
<1>2. FansInit => FanInv /\ ForceInv
  BY FansInitInv, ForceInit
<1>3. FanInv /\ ForceInv /\ [FansNext]_fanVars => (FanInv /\ ForceInv)'
  BY FansStep, ForceStep
<1> QED  BY <1>1, <1>2, <1>3, PTL DEF FansSpec
================================================================================
