------------------------------- MODULE ClevoLeds -------------------------------
(***************************************************************************)
(* The keyboard backlight of Clevo devices, src/src/clevo_leds.h, with the *)
(* events and the sleep handlers of clevo_keyboard.h that change it.       *)
(*                                                                         *)
(* The firmware has one brightness for the whole keyboard and a colour for *)
(* each zone; the LED class has an LED with a brightness for each zone.    *)
(* So a store to one LED changes the brightness of all, in several steps,  *)
(* and the LED core serialises only stores to the same LED.                *)
(***************************************************************************)
EXTENDS Naturals, Sequences

CONSTANTS
    Desktops,       \* threads that store to LEDs
    KeyThread,      \* the kernel thread of key events
    PmThread,       \* the thread of probe, suspend and resume
    Brightness, Hues,                 \* values that are stored
    MaxLedCalls, MaxNights, MaxErrors \* bounds

ASSUME ClevoLedsAssumption ==
    /\ KeyThread # PmThread /\ {KeyThread, PmThread} \cap Desktops = {}
    /\ Brightness \subseteq 0..255 /\ Hues \subseteq Nat
    /\ {MaxLedCalls, MaxNights, MaxErrors} \subseteq Nat

LedThreads == Desktops \cup {KeyThread, PmThread}

VARIABLES
    type,         \* clevo_kb_backlight_type: "fixed", "one" or "three" zones
    lit,          \* firmware: [brightness, hue (of each zone), on, mode]
    brightness,   \* of each clevo_mcled_cdevs, or of clevo_led_cdev
    intensity,    \* of each zone
    mode,         \* kbd_led_state.mode
    power,        \* "off", "on", "falling asleep", "asleep", "waking up"
    doing,        \* the steps each thread still has to do
    level,        \* the brightness it is setting
    crossed,      \* history: calls overlapped, or a method failed
    mode_lost,    \* history: the mode, which is not restored, may be another
    led_calls, nights, errors

ledVars == <<type, lit, brightness, intensity, mode, power, doing, level, crossed, mode_lost, led_calls, nights, errors>>

Zones == IF type = "three" THEN 0..2 ELSE {0}

AtWork(t) == doing[t] # <<>>
Others(t) == \E o \in LedThreads \ {t} : AtWork(o)

Asis == 256   \* the brightness the LED has when the step is done
Scale == 10   \* color_scaling of keyboards with one zone

Do(what, zone, value) == [what |-> what, zone |-> zone, value |-> value]

\* clevo_leds_set_brightness_mc
clevo_leds_set_brightness_mc(z, b) == <<Do("brightness", z, b), Do("cdevs", z, b), Do("hue", z, 0)>>
clevo_leds_set_brightness(b)       == <<Do("brightness", 0, b), Do("cdevs", 0, b)>>

brightness_set(z, b) == IF type = "fixed" THEN clevo_leds_set_brightness(b) ELSE clevo_leds_set_brightness_mc(z, b)

AllZones(F(_)) == IF type = "three" THEN F(0) \o F(1) \o F(2) ELSE F(0)

clevo_leds_restore_state_extern == AllZones(LAMBDA z : brightness_set(z, Asis))

clevo_leds_set_color_extern(h) ==
    IF type = "fixed" THEN <<>> ELSE AllZones(LAMBDA z : <<Do("intensity", z, h)>> \o brightness_set(z, Asis))

clevo_evaluate_set_keyboard_status(s) == IF type = "fixed" THEN <<>> ELSE <<Do("status", 0, s)>>

set_kbd_backlight_mode(m) == <<Do("mode", 0, m), Do("keep_mode", 0, m)>>

clevo_leds_notify_brightness_change_extern == IF type = "fixed" THEN <<Do("ask", 0, 0), Do("cdevs", 0, 0)>> ELSE <<>>

\* clevo_leds_init, clevo_keyboard_init
clevo_keyboard_probe ==
    (IF type = "fixed" THEN brightness_set(0, Asis) ELSE clevo_leds_set_color_extern(1))
    \o clevo_evaluate_set_keyboard_status(1) \o set_kbd_backlight_mode(0)

\* Mutant: only the LED of the zone gets the brightness.
OwnZone(z) == {z}

\* "update all clevo_mcled_cdevs brightness levels"
ZonesToUpdate(z) == IF type = "fixed" THEN {0} ELSE Zones

Shade(hue) == IF type = "one" THEN hue + Scale ELSE hue

\* One step; a method that fails ends the call of the LED's handler, except
\* that the colour comes last anyway.
Work(t) ==
    /\ AtWork(t)
    /\ LET op == Head(doing[t])
           v  == IF op.value = Asis THEN brightness[op.zone] ELSE op.value
       IN  /\ lit' = CASE op.what = "brightness" -> [lit EXCEPT !.brightness = v]
                       [] op.what = "hue"        -> [lit EXCEPT !.hue[op.zone] = Shade(intensity[op.zone])]
                       [] op.what = "status"     -> [lit EXCEPT !.on = v]
                       [] op.what = "mode"       -> [lit EXCEPT !.mode = v]
                       [] OTHER -> lit
           /\ level' = CASE op.what = "brightness" -> [level EXCEPT ![t] = v]
                         [] op.what = "ask"        -> [level EXCEPT ![t] = lit.brightness]
                         [] OTHER -> level
           /\ brightness' = [z \in 0..2 |-> IF op.what = "cdevs" /\ z \in ZonesToUpdate(op.zone) THEN level[t]
                                            ELSE brightness[z]]
           /\ intensity' = IF op.what = "intensity" THEN [intensity EXCEPT ![op.zone] = op.value] ELSE intensity
           /\ mode' = IF op.what = "keep_mode" THEN op.value ELSE mode
    /\ doing' = [doing EXCEPT ![t] = Tail(@)]
    /\ UNCHANGED <<type, power, crossed, mode_lost, led_calls, nights, errors>>

LeftOut == [brightness |-> 3, hue |-> 1, status |-> 1, mode |-> 2, ask |-> 1]

MethodError(t) ==
    /\ AtWork(t) /\ Head(doing[t]).what \in DOMAIN LeftOut /\ errors < MaxErrors /\ errors' = errors + 1
    /\ LET n == IF type = "fixed" /\ Head(doing[t]).what = "brightness" THEN 2 ELSE LeftOut[Head(doing[t]).what]
       IN  doing' = [doing EXCEPT ![t] = SubSeq(@, n + 1, Len(@))]
    /\ crossed' = TRUE
    \* the result is used although there is none
    /\ level' = IF Head(doing[t]).what = "ask" THEN [level EXCEPT ![t] = 7] ELSE level
    /\ UNCHANGED <<type, lit, brightness, intensity, mode, power, mode_lost, led_calls, nights>>

-----------------------------------------------------------------------------
LedCall(t, ops) ==
    /\ power = "on" /\ ~AtWork(t) /\ led_calls < MaxLedCalls /\ led_calls' = led_calls + 1
    /\ doing' = [doing EXCEPT ![t] = ops] /\ crossed' = (crossed \/ Others(t))
    /\ UNCHANGED <<type, mode, power, level, mode_lost, nights, errors>>

\* The LED core has set the brightness, or the intensities, of the LED before
\* it calls the driver; a store waits for others to the same LED.
SameLed(z) == \E d \in Desktops : \E i \in DOMAIN doing[d] :
                  doing[d][i].what \notin {"mode", "keep_mode"} /\ doing[d][i].zone = z

StoreBrightness(d, z, b) ==
    /\ ~SameLed(z) /\ LedCall(d, brightness_set(z, b)) /\ brightness' = [brightness EXCEPT ![z] = b]
    /\ UNCHANGED <<lit, intensity>>

StoreIntensity(d, z, h) ==
    /\ type # "fixed" /\ ~SameLed(z) /\ LedCall(d, brightness_set(z, brightness[z]))
    /\ intensity' = [intensity EXCEPT ![z] = h]
    /\ UNCHANGED <<lit, brightness>>

StoreMode(d) ==
    /\ type = "three" /\ \E m \in {0, 2} : LedCall(d, set_kbd_backlight_mode(m))
    /\ UNCHANGED <<lit, brightness, intensity>>

\* set_next_color_whole_kb; of the list only three colours, black is 0
new_color_id(h) == IF h + 1 >= 3 THEN 1 ELSE h + 1

\* clevo_keyboard_event_callb
CycleColour ==
    /\ type # "fixed" /\ LedCall(KeyThread, clevo_leds_set_color_extern(new_color_id(intensity[0])))
    /\ UNCHANGED <<lit, brightness, intensity>>

\* The firmware has changed the brightness itself.
CycleBrightness ==
    /\ type = "fixed" /\ \E b \in Brightness : lit' = [lit EXCEPT !.brightness = b]
    /\ LedCall(KeyThread, clevo_leds_notify_brightness_change_extern)
    /\ UNCHANGED <<brightness, intensity>>

Begins(from, to, ops) ==
    /\ power = from /\ power' = to /\ ~AtWork(PmThread) /\ doing' = [doing EXCEPT ![PmThread] = ops]
    /\ UNCHANGED <<type, brightness, intensity, mode, level, led_calls, errors>>

Probe == Begins("off", "waking up", clevo_keyboard_probe) /\ UNCHANGED <<lit, crossed, mode_lost, nights>>

\* Programs are frozen, events may still be under way.
Suspend ==
    /\ Begins("on", "falling asleep", clevo_evaluate_set_keyboard_status(0)) /\ \A d \in Desktops : ~AtWork(d)
    /\ nights < MaxNights /\ nights' = nights + 1 /\ UNCHANGED <<lit, crossed, mode_lost>>

\* What was restored with nothing else under way is as it was.
Resume ==
    /\ Begins("asleep", "waking up", clevo_leds_restore_state_extern \o clevo_evaluate_set_keyboard_status(1))
    /\ crossed' = AtWork(KeyThread)
    /\ \/ UNCHANGED lit /\ mode_lost' = (mode_lost \/ crossed)
       \/ lit' = [brightness |-> 0, hue |-> [z \in 0..2 |-> 0], on |-> 0, mode |-> 0] /\ mode_lost' = TRUE
    /\ UNCHANGED nights

Reached == [x \in {"falling asleep", "waking up"} |-> IF x = "waking up" THEN "on" ELSE "asleep"]

Over ==
    /\ power \in DOMAIN Reached /\ ~AtWork(PmThread) /\ power' = Reached[power]
    /\ UNCHANGED <<type, lit, brightness, intensity, mode, doing, level, crossed, mode_lost, led_calls, nights, errors>>

ClevoLedsInit ==
    /\ type \in {"fixed", "one", "three"} /\ power = "off"
    /\ lit \in [brightness : {0, 2}, hue : {[z \in 0..2 |-> 0]}, on : {0}, mode : {0}]
    /\ brightness = [z \in 0..2 |-> 0] /\ intensity = [z \in 0..2 |-> 1] /\ mode = 0
    /\ doing = [t \in LedThreads |-> <<>>] /\ level = [t \in LedThreads |-> 0]
    /\ crossed = FALSE /\ mode_lost = FALSE /\ led_calls = 0 /\ nights = 0 /\ errors = 0

ClevoLedsNext ==
    \/ \E t \in LedThreads : Work(t) \/ MethodError(t)
    \/ \E d \in Desktops : \/ \E z \in Zones : \/ \E b \in Brightness : StoreBrightness(d, z, b)
                                               \/ \E h \in Hues : StoreIntensity(d, z, h)
                           \/ StoreMode(d)
    \/ CycleColour \/ CycleBrightness \/ Probe \/ Suspend \/ Resume \/ Over

ClevoLedsSpec == ClevoLedsInit /\ [][ClevoLedsNext]_ledVars

-----------------------------------------------------------------------------
\* What the LED class tells of every zone is what the keyboard shows, after
\* stores to any LED, keys, and a sleep in which the firmware forgot all; the
\* keyboard is dark asleep and lit awake; unless calls overlapped or a
\* method failed since the last resume.
KeyboardShowsLeds ==
    ~crossed /\ power \in {"on", "asleep"} /\ (\A t \in LedThreads : ~AtWork(t)) =>
        /\ type # "fixed" => lit.on = (IF power = "on" THEN 1 ELSE 0)
        /\ \A z \in Zones : lit.brightness = brightness[z] /\ (type # "fixed" => lit.hue[z] = Shade(intensity[z]))
        /\ mode_lost \/ lit.mode = mode
================================================================================
