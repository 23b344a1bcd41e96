-------------------------------- MODULE PwmFans --------------------------------
(***************************************************************************)
(* The fan attributes fan<n>_pwm and fan<n>_pwm_enable of                  *)
(* src/src/tuxedo_nb05/tuxedo_nb05_fan_control.c and                       *)
(* src/src/tuxedo_tuxi/tuxedo_tuxi_fan_control.c.                          *)
(*                                                                         *)
(* On a Pulse ("ranges") a fan has a curve of nine temperature zones, and  *)
(* older firmware wants the curve in rpm as well; a store writes all of    *)
(* them, one EC access at a time, without a lock.  The InfinityFlex        *)
(* ("onereg") has one register, a TUXI device an ACPI method per fan, and  *)
(* one mode for both fans.  A program that saves and restores a setting    *)
(* writes back what it was shown.                                          *)
(***************************************************************************)
EXTENDS FanClamp, Sequences

CONSTANTS
    Writers,     \* threads in the attributes, each through a file of its own
    Fans,        \* the fans
    Pwms,        \* requests, 0..255
    Versions,    \* firmware versions, <<major, minor>>
    LowZones,    \* zones the speed is for as it is (7 in the code)
    HotZones,    \* zones above them, with a speed of their own (2 in the code)
    Starts,      \* speeds the firmware has given a fan before a driver does
    MaxStores,   \* bound: stores of a speed or a mode
    MaxFaults    \* bound: ACPI methods that fail or refuse

ASSUME FansAssumption == /\ Fans # {} /\ Pwms \subseteq 0..255
                         /\ Versions \subseteq Nat \X Nat
                         /\ LowZones \in Nat \ {0} /\ HotZones \in Nat
                         /\ Starts \subseteq 0..184
                         /\ MaxStores \in Nat /\ MaxFaults \in Nat

VARIABLES
    device,     \* "ranges", "onereg" or "tuxi"
    write_rpm,  \* the curve is written in rpm as well
    regs,       \* firmware: the registers of each fan
    written,    \* history: the registers of each fan that a driver has written
    manual,     \* firmware: the fans in manual mode
    bound,      \* the TUXI device has its driver
    todo,       \* what each writer still has to write: fan, register, value
    seen,       \* what it was shown last, by fan
    result,     \* what its last store returned
    settled,    \* history: the speed of the last store, if no store raced it
    off,        \* history: fans that somebody asked to stop, or the firmware ran too slowly
    stores, faults    \* counters for the bounds

fanVars == <<device, write_rpm, regs, written, manual, bound, todo, seen, result, settled, off, stores, faults>>

None == -1

DutyMax(d) == IF d = "tuxi" THEN 255 ELSE 184
FAN_SET_RPM_MAX == 54
FAN_SET_RPM_HIGHTEMP == 15
FAN_SET_DUTY_HIGHTEMP == (FAN_SET_RPM_HIGHTEMP * 184) \div FAN_SET_RPM_MAX

PWM_TO(max, pwm)  == (pwm * max) \div 255
DUTY_TO_PWM(duty) == (duty * 255) \div DutyMax(device)

Registers == IF device = "ranges"
             THEN {"duty"} \X (1..LowZones + HotZones) \cup {"rpm"} \X (1..LowZones + HotZones)
             ELSE {<<"duty", 1>>}

\* Mutant: the hot zones get the speed as it is.
AsAsked(speed, least) == speed

AtLeast(speed, least) == IF speed < least THEN least ELSE speed

\* The writes of write_fan<n>_duty_ranges or write_fan<n>_rpm, in order.
Curve(unit, speed, least) ==
    [z \in 1..LowZones + HotZones |->
        [reg |-> <<unit, z>>, val |-> IF z <= LowZones THEN speed ELSE AtLeast(speed, least)]]

\* Mutant: a speed that is too low becomes 0.
DutyOrOff(pwm) == LET d == PWM_TO(DutyMax(device), pwm)
                  IN  IF d < FanOnMin(DutyMax(device)) THEN 0 ELSE d

\* Mutant: the rpm are clamped like a duty.
RpmAsDuty(pwm) == ClampInclusive(PWM_TO(FAN_SET_RPM_MAX, pwm), DutyMax(device))

Duty(pwm) == ClampInclusive(PWM_TO(DutyMax(device), pwm), DutyMax(device))
Rpm(pwm)  == ClampInclusive(PWM_TO(FAN_SET_RPM_MAX, pwm), FAN_SET_RPM_MAX)

\* fan<n>_pwm_store
Writes(pwm) ==
    IF device = "ranges"
    THEN Curve("duty", Duty(pwm), FAN_SET_DUTY_HIGHTEMP) \o
         (IF write_rpm THEN Curve("rpm", Rpm(pwm), FAN_SET_RPM_HIGHTEMP) ELSE <<>>)
    ELSE <<[reg |-> <<"duty", 1>>, val |-> Duty(pwm)]>>

Idle(w) == todo[w].writes = <<>>
Quiet(f) == \A w \in Writers : Idle(w) \/ todo[w].fan # f

Store(w, f, pwm) ==
    /\ Idle(w) /\ stores < MaxStores /\ stores' = stores + 1
    /\ todo' = [todo EXCEPT ![w] = [fan |-> f, writes |-> Writes(pwm)]]
    /\ settled' = [settled EXCEPT ![f] = IF Quiet(f) THEN pwm ELSE None]
    /\ UNCHANGED <<device, write_rpm, regs, written, manual, bound, seen, result, faults>>

\* echo "<n>" > fan<n>_pwm
StoreAsked(w, f, pwm) ==
    /\ Store(w, f, pwm)
    /\ off' = IF Duty(pwm) = 0 THEN off \cup {f} ELSE off

\* A saved setting is restored.
StoreSeen(w, f) ==
    /\ seen[w][f] # None
    /\ Store(w, f, seen[w][f])
    /\ UNCHANGED off

Finish(w, res) ==
    /\ todo' = [todo EXCEPT ![w].writes = <<>>]
    /\ result' = [result EXCEPT ![w] = res]

\* nb05_write_ec_ram, the next one of the write functions
Write(w) ==
    /\ device # "tuxi" /\ ~Idle(w)
    /\ LET x == Head(todo[w].writes)
       IN  /\ regs' = [regs EXCEPT ![todo[w].fan][x.reg] = x.val]
           /\ written' = [written EXCEPT ![todo[w].fan] = @ \cup {x.reg}]
    /\ IF Len(todo[w].writes) = 1 THEN Finish(w, "ok")
       ELSE todo' = [todo EXCEPT ![w].writes = Tail(@)] /\ UNCHANGED result
    /\ UNCHANGED <<device, write_rpm, manual, bound, seen, settled, off, stores, faults>>

\* evaluate_intparams and the checks around it, also of what the method returns
Evaluate(res) ==
    \/ bound /\ res = "ok" /\ UNCHANGED faults
    \/ bound /\ res \in {"-EIO", "-EINVAL"} /\ faults < MaxFaults /\ faults' = faults + 1
    \/ ~bound /\ res = "-ENODEV" /\ UNCHANGED faults

Results == {"ok", "-EIO", "-EINVAL", "-ENODEV"}

\* tuxi_set_fan_speed
TuxiWrite(w) ==
    /\ device = "tuxi" /\ ~Idle(w)
    /\ LET f == todo[w].fan
           x == Head(todo[w].writes)
       IN  \E res \in Results :
              /\ Evaluate(res) /\ Finish(w, res)
              /\ regs' = IF res = "ok" THEN [regs EXCEPT ![f][x.reg] = x.val] ELSE regs
              /\ written' = IF res = "ok" THEN [written EXCEPT ![f] = @ \cup {x.reg}] ELSE written
              /\ settled' = IF res = "ok" THEN settled ELSE [settled EXCEPT ![f] = None]
    /\ UNCHANGED <<device, write_rpm, manual, bound, seen, off, stores>>

Shown(w, f, pwm) ==
    /\ Idle(w) /\ seen' = [seen EXCEPT ![w][f] = pwm]
    /\ UNCHANGED <<device, write_rpm, regs, written, manual, bound, todo, result, settled, off, stores>>

\* fan<n>_pwm_show
Show(w, f) ==
    /\ device # "tuxi" /\ Shown(w, f, DUTY_TO_PWM(regs[f][<<"duty", 1>>]))
    /\ UNCHANGED faults

\* The same on TUXI: the status of tuxi_get_fan_speed, cut to a byte, is
\* assigned over the speed it has read.
TuxiShow(w, f) ==
    /\ device = "tuxi"
    /\ \E res \in Results :
          /\ Evaluate(res)
          /\ Shown(w, f, CASE res = "ok" -> 0 [] res = "-EIO" -> 256 - 5
                             [] res = "-EINVAL" -> 256 - 22 [] res = "-ENODEV" -> 256 - 19)

\* fan<n>_pwm_enable_store: a value that is neither 1 nor 2 is manual on NB05
\* and auto on TUXI.
EnableStored(w, res, auto, fans) ==
    /\ Idle(w) /\ stores < MaxStores /\ stores' = stores + 1
    /\ result' = [result EXCEPT ![w] = res]
    /\ manual' = IF res # "ok" THEN manual ELSE IF auto THEN manual \ fans ELSE manual \cup fans
    /\ UNCHANGED <<device, write_rpm, regs, written, bound, todo, seen, settled, off>>

EnableStore(w, f, value) ==
    /\ device # "tuxi" /\ EnableStored(w, "ok", value = 2, {f})
    /\ UNCHANGED faults

\* tuxi_set_fan_mode has one mode for all fans.
TuxiEnableStore(w, value) ==
    /\ device = "tuxi"
    /\ \E res \in Results : Evaluate(res) /\ EnableStored(w, res, value # 1, Fans)

\* tuxi_platform_remove and tuxi_platform_probe set tuxi_driver_data.
Rebind ==
    /\ device = "tuxi" /\ bound' = ~bound
    /\ UNCHANGED <<device, write_rpm, regs, written, manual, todo, seen, result, settled, off, stores, faults>>

\* tuxedo_nb05_fan_control_probe: new firmware derives the rpm itself.
RpmWanted(version) == ~(version[1] >= 9 /\ version[2] >= 10)

FansInit ==
    /\ device \in {"ranges", "onereg", "tuxi"}
    /\ \E v \in Versions : write_rpm = (device = "ranges" /\ RpmWanted(v))
    /\ \E start \in [Fans -> Starts] : regs = [f \in Fans |-> [r \in Registers |-> start[f]]]
    /\ written = [f \in Fans |-> {}] /\ manual = {} /\ bound = TRUE
    /\ todo = [w \in Writers |-> [fan |-> CHOOSE f \in Fans : TRUE, writes |-> <<>>]]
    /\ seen = [w \in Writers |-> [f \in Fans |-> None]] /\ result = [w \in Writers |-> "ok"]
    /\ settled = [f \in Fans |-> None]
    /\ off = {f \in Fans : regs[f][<<"duty", 1>>] < FanOnMin(DutyMax(device))}
    /\ stores = 0 /\ faults = 0

FansNext ==
    \/ \E w \in Writers, f \in Fans :
          \/ \E pwm \in Pwms : StoreAsked(w, f, pwm)
          \/ StoreSeen(w, f) \/ Show(w, f) \/ TuxiShow(w, f)
          \/ \E value \in 0..2 : EnableStore(w, f, value)
    \/ \E w \in Writers :
          \/ Write(w) \/ TuxiWrite(w)
          \/ \E value \in 0..2 : TuxiEnableStore(w, value)
    \/ Rebind

FansSpec == FansInit /\ [][FansNext]_fanVars

-----------------------------------------------------------------------------
\* Speeds at which a fan is off or runs reliably.
Reliable(speed, max) == speed = 0 \/ speed \in FanOnMin(max)..max

\* A laptop with its fans set to "off" must not overheat: however stores of
\* several programs interleave, and whatever the firmware had set before, the
\* hot zones of a curve never get less than the high temperature speed, and no
\* zone a speed at which a fan would stall.
HotZonesCooled ==
    \A f \in Fans : \A r \in written[f] :
        /\ Reliable(regs[f][r], IF r[1] = "rpm" THEN FAN_SET_RPM_MAX ELSE DutyMax(device))
        /\ r[2] > LowZones => regs[f][r] >= IF r[1] = "rpm" THEN FAN_SET_RPM_HIGHTEMP
                                            ELSE FAN_SET_DUTY_HIGHTEMP

\* When the last store of a fan's speed was alone with the fan, all zones have
\* its speed; and where there are two curves they agree on whether the fan
\* runs, although each is converted and rounded for itself.
LastStoreIsInForce ==
    \A f \in Fans : Quiet(f) /\ settled[f] # None =>
        \A z \in 1..LowZones : <<"duty", z>> \in Registers =>
            /\ regs[f][<<"duty", z>>] = Duty(settled[f])
            /\ write_rpm => (regs[f][<<"rpm", z>>] = 0 <=> regs[f][<<"duty", z>>] = 0)

\* Converting a speed to pwm and back loses a little each time: but saving and
\* restoring settings never stops a fan that nobody asked to stop.  Only if the
\* firmware ran it too slowly for a store may restoring that stop it.
RestoringStopsNoFan ==
    device # "tuxi" =>
        \A f \in Fans : regs[f][<<"duty", 1>>] = 0 => f \in off

================================================================================
