---------------------------- MODULE UniwillSettings ----------------------------
(***************************************************************************)
(* The settings that src/src/uniwill_keyboard.h and src/src/uniwill_leds.h *)
(* keep in the EC: charging, automatic boot, USB power, fn lock, keyboard  *)
(* backlight, light bar, custom profile mode.                              *)
(*                                                                         *)
(* Most are bits of a register: a handler reads the register, changes its  *)
(* bits and writes it back, two EC accesses with no lock around them.  So  *)
(* a handler is here a list of such updates, and the handlers are the      *)
(* stores of programs (sysfs attributes, LED classes), the WMI events, and *)
(* probe, suspend, resume and remove.  The EC forgets settings when the    *)
(* machine sleeps or a power cable is plugged, and the driver restores     *)
(* them from what it remembers.                                            *)
(***************************************************************************)
EXTENDS Naturals, Sequences, FiniteSets

CONSTANTS
    Users,      \* threads of programs
    Handlers,   \* kernel threads with a WMI event
    Driver,     \* the thread of probe, suspend, resume and remove
    Bits, Profiles, Levels,   \* values that are asked for: of a bit, a profile, a brightness
    Colours,    \* colours of the keyboard, 0 is black
    MaxStores, MaxEvents, MaxSleeps, MaxFaults   \* bounds

Threads == Users \cup Handlers \cup {Driver}

Unknown == 100   \* no value of a setting
Last == 101      \* an update with the value remembered when it is done

ASSUME SettingsAssumption ==
    /\ Driver \notin Users \cup Handlers /\ Users \cap Handlers = {}
    /\ Bits \subseteq 0..1 /\ Profiles \subseteq 0..2 /\ Levels \subseteq 0..4
    /\ Colours \subseteq Nat \ {Unknown, Last}
    /\ {MaxStores, MaxEvents, MaxSleeps, MaxFaults} \subseteq Nat

\* The register each setting is in.
RegOf == [prio |-> "07cc", profile |-> "07a6", boot |-> "0726", powershare |-> "0767",
          apply |-> "0767", fn_lock |-> "074e", brightness |-> "078c", disabled |-> "078c",
          colour |-> "0769", animation |-> "0748", lightbar |-> "0749", custom |-> "0727",
          manual |-> "0741", fixed_color5 |-> "0766", mini_led |-> "firmware"]
Fields == DOMAIN RegOf
Sharing == [f \in Fields |-> {g \in Fields : RegOf[g] = RegOf[f]}]
Same(f) == Sharing[f]

VARIABLES
    board,       \* "white" or "rgb", the type of keyboard backlight
    state,       \* what the driver does: "unbound", "probing", "bound", ...
    regs,        \* EC: the settings
    todo,        \* the updates each thread still has to do
    phase,       \* where it is in the first: "start", "write" or "keep"
    held,        \* what it has read of the register
    last,        \* what the driver remembers: last_written_value, led_cdev
    on_start,    \* uniwill_kbd_bl_enable_state_on_start
    available,   \* settings that programs have an attribute or LED for
    chosen,      \* history: the value each setting was given last, if known
    black,       \* history: the brightness was, for a keyboard that is to be black
    found,       \* history: whether probe found the backlight disabled
    disturbed,   \* history: an event or a fault fell into a suspend
    stores, events, sleeps, faults   \* counters for the bounds

ecVars == <<regs, chosen, black>>
counters == <<stores, events, sleeps, faults>>
settingsVars == <<board, state, ecVars, todo, phase, held, last, on_start, available, found, disturbed,
                  counters>>

-----------------------------------------------------------------------------
\* Updates.  "keep" is what the driver remembers afterwards; a failed update
\* takes those after it in its group with it.
Update(f, v, keep, group) ==
    [do |-> "update", f |-> f, v |-> v, keep |-> keep, group |-> group, how |-> "asked"]
Set(f, v)     == Update(f, v, Unknown, f)
Restore(f)    == [Update(f, Last, Unknown, f) EXCEPT !.how = "restored"]
ReadIn(f)     == [Restore(f) EXCEPT !.do = "read"]
Offer(f)      == [Restore(f) EXCEPT !.do = "offer", !.group = "offer"]
Withdraw(f)   == [Restore(f) EXCEPT !.do = "withdraw", !.group = "offer"]

\* Mutant: last_written_value is a byte and not a bool.
AsByte(data) == data

AsBool(data) == IF data # 0 THEN 1 ELSE 0

\* uw_set_charging_priority remembers the bit where it is in the register.
uw_set_charging_priority(v) == <<Update("prio", v, AsBool((v % 2) * 128), "prio")>>
uw_set_charging_profile(v)  == <<Update("profile", v, v, "profile")>>
uw_set_mini_led_local_dimming(v) == <<Update("mini_led", v, v, "mini_led")>>
uw_set_ac_auto_boot(v)      == <<Set("boot", v)>>
uw_set_usb_powershare(v)    == <<Set("powershare", v)>>
uniwill_wmi_fn_lock_set(v)  == <<Set("fn_lock", v)>>

uniwill_write_lightbar_animation(v) == <<Set("animation", v)>>
lightbar_set_blocking(v) == <<Set("lightbar", v)>> \o uniwill_write_lightbar_animation(0)

uniwill_write_kbd_bl_enable(v) == <<Set("disabled", 1 - (v % 2))>>

uniwill_set_custom_profile_mode(zero_bit_initially) ==
    (IF zero_bit_initially THEN <<Set("custom", 0)>> ELSE <<>>) \o <<Set("custom", 1)>>

uniwill_leds_set_brightness(b) == <<Update("brightness", b, b, "leds")>>

\* Black would make the EC take a colour of its own: the brightness is 0
\* instead, but the one asked for is remembered.  It is restored in the colour
\* the EC takes when black is restored, for which 0 stands in its register.
uniwill_leds_set_brightness_mc(c, b) ==
    IF c = 0 THEN << [Update("brightness", 0, b, "leds") EXCEPT !.how = "black"] >>
    ELSE <<Update("colour", c, Unknown, "leds"), Update("apply", 1, Unknown, "leds"),
           Update("brightness", b, b, "leds")>>

uniwill_leds_restore_state_extern ==
    (IF board = "rgb" THEN <<Restore("colour"), [Set("apply", 1) EXCEPT !.group = "colour"]>>
     ELSE <<>>) \o <<Restore("brightness")>>

charging_write_state ==
    (IF "prio" \in available THEN <<Restore("prio")>> ELSE <<>>) \o
    (IF "profile" \in available THEN <<Restore("profile")>> ELSE <<>>)

\* uniwill_event_callb, a cable was plugged or unplugged
AdapterChange ==
    uniwill_set_custom_profile_mode(FALSE) \o uniwill_leds_restore_state_extern \o charging_write_state

\* uniwill_keyboard_probe, uniwill_leds_init, uw_lightbar_init and the init
\* functions of the attributes
ProbeUpdates ==
    uniwill_set_custom_profile_mode(TRUE)
    \o <<Set("manual", 1), ReadIn("disabled"), Set("fixed_color5", 1), Offer("brightness")>>
    \o uniwill_write_kbd_bl_enable(1)
    \o <<Offer("lightbar"), Set("animation", 0), Set("lightbar", 0)>>
    \o <<Offer("prio"), ReadIn("prio"), Offer("profile"), ReadIn("profile"),
         Offer("boot"), Offer("powershare"), Offer("mini_led")>>
    \o uw_set_mini_led_local_dimming(0) \o <<Offer("fn_lock")>>

\* Mutant: the custom profile mode stays on.
BacklightOnly == uniwill_write_kbd_bl_enable(0)

uniwill_keyboard_suspend == <<Set("custom", 0)>> \o uniwill_write_kbd_bl_enable(0)

uniwill_keyboard_resume ==
    uniwill_set_custom_profile_mode(FALSE) \o uniwill_leds_restore_state_extern
    \o uniwill_write_kbd_bl_enable(1) \o charging_write_state

\* The LED core turns off an LED that is unregistered (TurnOff).
LedOff == [Offer("brightness") EXCEPT !.do = "off"]

uniwill_keyboard_remove ==
    <<Withdraw("fn_lock"), Withdraw("prio"), Withdraw("profile"), LedOff, Withdraw("brightness")>>
    \o uniwill_write_kbd_bl_enable(on_start)
    \o <<Withdraw("lightbar")>> \o lightbar_set_blocking(0) \o <<Set("manual", 0)>>
    \o <<Withdraw("boot"), Withdraw("powershare"), Withdraw("mini_led")>>

-----------------------------------------------------------------------------
Idle(t) == todo[t] = <<>>
Now(t) == Head(todo[t])
Within(t, f) == ~Idle(t) /\ phase[t] # "start" /\ Now(t).f \in Same(f)

\* History: two updates of one register that overlap, or one and a change by
\* the firmware, may lose either.
Raced(op) == [op EXCEPT !.how = "raced"]
RaceWith(t) == <<Raced(Now(t))>> \o Tail(todo[t])

Next1(t) == phase' = [phase EXCEPT ![t] = "start"] /\ held' = [held EXCEPT ![t] = <<>>]

\* A remembered value is looked up when the update starts.
Begin(t) ==
    /\ ~Idle(t) /\ phase[t] = "start" /\ Now(t).do \in {"update", "read", "notify"}
    /\ LET racing == {o \in Threads \ {t} : Within(o, Now(t).f)}
       IN  todo' = [o \in Threads |-> IF o \in racing \/ (o = t /\ racing # {}) THEN RaceWith(o) ELSE todo[o]]
    /\ phase' = [phase EXCEPT ![t] = IF Now(t).do = "update" THEN "write" ELSE "keep"]
    /\ held' = [held EXCEPT ![t] = [g \in Same(Now(t).f) |->
                   IF g = Now(t).f /\ Now(t).do = "update"
                   THEN IF Now(t).v = Last THEN last[g] ELSE Now(t).v
                   ELSE regs[g]]]
    /\ UNCHANGED <<board, state, ecVars, last, on_start, available, found, disturbed, counters>>

Record(t) ==
    /\ chosen' = CASE Now(t).how = "raced" ->
                     [g \in Fields |-> IF g \in Same(Now(t).f) THEN Unknown ELSE chosen[g]]
                   [] Now(t).how = "asked" -> [chosen EXCEPT ![Now(t).f] = held[t][Now(t).f]]
                   [] Now(t).how = "black" -> [chosen EXCEPT ![Now(t).f] = Now(t).keep]
                   [] Now(t).how = "restored" -> chosen
    /\ black' = IF Now(t).f = "brightness" THEN Now(t).how = "black" ELSE black

Done(t) == Record(t) /\ todo' = [todo EXCEPT ![t] = Tail(@)] /\ Next1(t)

EcWrite(t) ==
    /\ ~Idle(t) /\ phase[t] = "write"
    /\ regs' = [g \in Fields |-> IF g \in DOMAIN held[t] THEN held[t][g] ELSE regs[g]]
    /\ IF Now(t).keep = Unknown THEN Done(t)
       ELSE phase' = [phase EXCEPT ![t] = "keep"] /\ UNCHANGED <<chosen, black, todo, held>>
    /\ UNCHANGED <<board, state, last, on_start, available, found, disturbed, counters>>

Keep(t) ==
    /\ ~Idle(t) /\ phase[t] = "keep" /\ Now(t).do = "update"
    /\ last' = [last EXCEPT ![Now(t).f] = Now(t).keep]
    /\ Done(t)
    /\ UNCHANGED <<board, state, regs, on_start, available, found, disturbed, counters>>

\* uw_charging_priority_init, uw_charging_profile_init; probe reads bit 1
KeepRead(t) ==
    /\ ~Idle(t) /\ phase[t] = "keep" /\ Now(t).do = "read"
    /\ LET f == Now(t).f
       IN  IF f = "disabled" THEN on_start' = held[t][f] /\ UNCHANGED last
           ELSE last' = [last EXCEPT ![f] = held[t][f]] /\ UNCHANGED on_start
    /\ Done(t)
    /\ UNCHANGED <<board, state, regs, available, found, disturbed, counters>>

\* Mutant: the level after the next is written and the next remembered.
OneMore(b) == <<Update("brightness", (b + 2) % 5, (b + 1) % 5, "leds")>>

\* Some EC leaves it to the driver to change the brightness: it is as it was.
NextLevel(b) == <<Update("brightness", (b + 1) % 5, (b + 1) % 5, "leds")>>

\* uniwill_leds_notify_brightness_change_extern, with the brightness b it read
NotifiedOf(t, b) ==
    IF board = "rgb" /\ last["brightness"] = b
    THEN todo' = [todo EXCEPT ![t] = NextLevel(b)] /\ UNCHANGED last
    ELSE todo' = [todo EXCEPT ![t] = <<>>] /\ last' = [last EXCEPT !["brightness"] = b]

Notify(t) ==
    /\ ~Idle(t) /\ phase[t] = "keep" /\ Now(t).do = "notify"
    /\ NotifiedOf(t, held[t]["brightness"])
    /\ Record(t) /\ Next1(t)
    /\ UNCHANGED <<board, state, regs, on_start, available, found, disturbed, counters>>

\* The brightness function of the LED is called for 0.
TurnOff(t) ==
    /\ ~Idle(t) /\ Now(t).do = "off"
    /\ todo' = [todo EXCEPT ![t] =
           (IF board = "rgb" /\ last["colour"] # 0
            THEN << [Restore("colour") EXCEPT !.group = "leds"], Update("apply", 1, Unknown, "leds") >>
            ELSE <<>>) \o uniwill_leds_set_brightness(0) \o Tail(@)]
    /\ UNCHANGED <<board, state, ecVars, phase, held, last, on_start, available, found, disturbed, counters>>

\* The attribute or LED is there, or no longer: then its last store is over.
OfferOrWithdraw(t) ==
    /\ ~Idle(t) /\ LET op == Now(t)
                   IN  \/ op.do = "offer" /\ available' = available \cup {op.f}
                       \/ /\ op.do = "withdraw" /\ available' = available \ {op.f}
                          /\ \A u \in Users : \A i \in DOMAIN todo[u] :
                                op.f # IF todo[u][i].f = "animation" THEN "lightbar" ELSE todo[u][i].f
    /\ todo' = [todo EXCEPT ![t] = Tail(@)]
    /\ UNCHANGED <<board, state, ecVars, phase, held, last, on_start, found, disturbed, counters>>

\* An access fails.  Where the result of a read is ignored, the rest of the
\* register is overwritten with what the failed read returned, 0xfe, or that is
\* taken for the brightness (its upper three bits).
Unchecked == {"disabled", "custom", "animation", "fixed_color5"}

EcFails(t) ==
    /\ ~Idle(t) /\ faults < MaxFaults /\ faults' = faults + 1
    /\ phase[t] = "write" \/ (phase[t] = "keep" /\ Now(t).do \in {"read", "notify"})
    /\ LET group == IF Now(t).f \in Unchecked THEN {1}
                    ELSE {i \in DOMAIN todo[t] : \A j \in 1..i : todo[t][j].group = Now(t).group}
           lost  == Same(Now(t).f) \cup {todo[t][i].f : i \in group}
           rest  == [todo EXCEPT ![t] = SubSeq(@, 1 + Cardinality(group), Len(@))]
       IN  /\ chosen' = [g \in Fields |-> IF g \in lost THEN Unknown ELSE chosen[g]]
           /\ \/ Now(t).do = "update" /\ UNCHANGED <<regs, last, on_start>> /\ todo' = rest
              \/ /\ Now(t).do = "update" /\ Now(t).f \in Unchecked /\ UNCHANGED <<last, on_start>>
                 /\ regs' = [g \in Fields |-> IF g = Now(t).f THEN held[t][g]
                                              ELSE IF g \in Same(Now(t).f) THEN 7 ELSE regs[g]]
                 /\ todo' = rest
              \/ /\ Now(t).do = "read" /\ UNCHANGED regs /\ todo' = rest
                 /\ IF Now(t).f = "disabled" THEN on_start' = 1 /\ UNCHANGED last
                    ELSE last' = [last EXCEPT ![Now(t).f] = 1] /\ UNCHANGED on_start
              \/ Now(t).do = "notify" /\ UNCHANGED <<regs, on_start>> /\ NotifiedOf(t, 7)
    /\ Next1(t) /\ disturbed' = TRUE
    /\ UNCHANGED <<board, state, black, available, found, stores, events, sleeps>>

-----------------------------------------------------------------------------
\* The LED core lets one store at a time into an LED.
Ask(u, f, updates) ==
    /\ Idle(u) /\ f \in available /\ state \in {"probing", "bound", "removing"}
    /\ f = "brightness" => \A o \in Users : \A i \in DOMAIN todo[o] : todo[o][i].group # "leds"
    /\ stores < MaxStores /\ stores' = stores + 1
    /\ todo' = [todo EXCEPT ![u] = updates]
    /\ UNCHANGED <<board, state, regs, black, phase, held, on_start, available, found, disturbed,
                   events, sleeps, faults>>

Store(u) ==
    /\ \/ \E v \in Bits : \/ Ask(u, "prio", uw_set_charging_priority(v))
                           \/ Ask(u, "mini_led", uw_set_mini_led_local_dimming(v))
                           \/ Ask(u, "boot", uw_set_ac_auto_boot(v))
                           \/ Ask(u, "powershare", uw_set_usb_powershare(v))
                           \/ Ask(u, "fn_lock", uniwill_wmi_fn_lock_set(v))
                           \/ Ask(u, "lightbar", lightbar_set_blocking(v))
                           \/ Ask(u, "lightbar", uniwill_write_lightbar_animation(v))
       \/ \E v \in Profiles : Ask(u, "profile", uw_set_charging_profile(v))
    /\ UNCHANGED <<chosen, last>>

\* The LED core remembers colour and brightness before it calls the driver.
StoreLed(u, c, b) ==
    /\ \/ /\ board = "white" /\ Ask(u, "brightness", uniwill_leds_set_brightness(b))
          /\ last' = [last EXCEPT !["brightness"] = b]
       \/ /\ board = "rgb" /\ Ask(u, "brightness", uniwill_leds_set_brightness_mc(c, b))
          /\ last' = [last EXCEPT !["colour"] = c, !["brightness"] = b]
    /\ chosen' = [chosen EXCEPT !["colour"] = Unknown, !["brightness"] = Unknown]

\* What the firmware forgets.
Forgettable == {"prio", "profile", "brightness", "custom"}
Forgotten   == {[f \in lost |-> 0] : lost \in {{}, Forgettable}}

\* uniwill_wmi_notify: the WMI core calls it between probe and remove only.
Event(h, updates, new) ==
    /\ Idle(h) /\ state \in {"bound", "suspending", "asleep", "resuming"}
    /\ events < MaxEvents /\ events' = events + 1
    /\ regs' = [f \in Fields |-> IF f \in DOMAIN new THEN new[f] ELSE regs[f]]
    /\ todo' = [t \in Threads |-> IF t = h THEN updates
                                  ELSE IF \E f \in DOMAIN new : Within(t, f) THEN RaceWith(t) ELSE todo[t]]
    /\ disturbed' = TRUE
    /\ UNCHANGED <<board, state, black, phase, held, last, on_start, available, found, stores, sleeps, faults>>

Cable(h) == (\E new \in Forgotten : Event(h, AdapterChange, new)) /\ UNCHANGED chosen

\* Fn+Space
BacklightKey(h) ==
    /\ \E new \in {<<>>} \cup {[brightness |-> b] : b \in Levels} :
          Event(h, << [ReadIn("brightness") EXCEPT !.do = "notify", !.how = "asked"] >>, new)
    /\ chosen' = [chosen EXCEPT !["brightness"] = Unknown]

Run(from, to, updates) ==
    /\ state = from /\ state' = to /\ Idle(Driver)
    /\ todo' = [todo EXCEPT ![Driver] = updates]
    /\ UNCHANGED <<board, phase, held, last, on_start, available, stores, events, faults>>

Probe   == /\ Run("unbound", "probing", ProbeUpdates) /\ on_start = Unknown
           /\ found' = regs["disabled"]
           /\ UNCHANGED <<ecVars, disturbed, sleeps>>
Suspend == /\ Run("bound", "suspending", uniwill_keyboard_suspend) /\ \A u \in Users : Idle(u)
           /\ sleeps < MaxSleeps /\ sleeps' = sleeps + 1
           /\ disturbed' = (\E h \in Handlers : ~Idle(h))
           /\ UNCHANGED <<ecVars, found>>
Resume  == /\ Run("asleep", "resuming", uniwill_keyboard_resume)
           /\ \A h \in Handlers : Idle(h) \/ phase[h] = "start"
           /\ \E new \in Forgotten : regs' = [f \in Fields |-> IF f \in DOMAIN new THEN new[f] ELSE regs[f]]
           /\ UNCHANGED <<chosen, black, found, disturbed, sleeps>>
Remove  == /\ Run("bound", "removing", uniwill_keyboard_remove) /\ \A h \in Handlers : Idle(h)
           /\ UNCHANGED <<ecVars, found, disturbed, sleeps>>

After == [probing |-> "bound", suspending |-> "asleep", resuming |-> "bound", removing |-> "unbound"]

Return ==
    /\ Idle(Driver) /\ state \in DOMAIN After /\ state' = After[state]
    /\ UNCHANGED <<board, ecVars, todo, phase, held, last, on_start, available, found, disturbed, counters>>

SettingsInit ==
    /\ board \in {"white", "rgb"} /\ state = "unbound"
    /\ regs = [f \in Fields |-> 0]
    /\ todo = [t \in Threads |-> <<>>] /\ phase = [t \in Threads |-> "start"]
    /\ held = [t \in Threads |-> <<>>]
    /\ last = [prio |-> 0, profile |-> 0, brightness |-> 0, colour |-> 1, mini_led |-> 0]
    /\ on_start = Unknown /\ available = {} /\ found = Unknown /\ disturbed = FALSE
    /\ chosen = [f \in Fields |-> IF f \in {"brightness", "colour"} THEN Unknown ELSE regs[f]]
    /\ black = FALSE /\ stores = 0 /\ events = 0 /\ sleeps = 0 /\ faults = 0

Step(t) ==
    \/ Begin(t) \/ EcWrite(t) \/ Keep(t) \/ KeepRead(t) \/ Notify(t)
    \/ OfferOrWithdraw(t) \/ TurnOff(t) \/ EcFails(t)

SettingsNext ==
    \/ \E t \in Threads : Step(t)
    \/ \E u \in Users : Store(u) \/ \E c \in Colours, b \in Levels : StoreLed(u, c, b)
    \/ \E h \in Handlers : Cable(h) \/ BacklightKey(h)
    \/ Probe \/ Suspend \/ Resume \/ Remove \/ Return

SettingsSpec == SettingsInit /\ [][SettingsNext]_settingsVars

-----------------------------------------------------------------------------
Quiet(f) == \A t \in Threads : \A i \in DOMAIN todo[t] : todo[t][i].f \notin Same(f)

\* No light is what the brightness chosen with black means.
Wanted(f) == IF f = "brightness" /\ black THEN 0 ELSE chosen[f]

\* A setting in the EC is the one chosen last - by a program that was told so,
\* by the firmware's key or by the driver - however the EC forgets it and the
\* driver restores it, and whatever is done to other settings in the same
\* register; unless updates of that register overlapped or an access failed.
\* A keyboard made black has no light until the driver restores its LED, for a
\* cable or after sleep, and from then on the brightness chosen with black, in
\* a colour that the EC takes (src/src/uniwill_leds.h:118-120).
ChosenInForce == \A f \in Fields : Quiet(f) /\ chosen[f] # Unknown => regs[f] = Wanted(f)

\* Programs that ask for the keyboard brightness or the local dimming, which
\* are answered from what the driver remembers, are told what is in force, and
\* of a keyboard made black the brightness that was chosen with it.
ShownIsInForce ==
    \A f \in {"brightness", "mini_led"} :
       Quiet(f) /\ chosen[f] # Unknown => last[f] = IF f = "brightness" /\ black THEN chosen[f] ELSE regs[f]

\* "Otherwise at least one device is known to immediately wake up": a machine
\* is asleep without custom profile mode and without backlight, unless an
\* event came while it was suspending or an access failed.
AsleepIsDark == state = "asleep" /\ ~disturbed => regs["custom"] = 0 /\ regs["disabled"] = 1

\* "Restore previous backlight enable state"
RemoveRestoresBacklight == state = "unbound" /\ found # Unknown => regs["disabled"] = found
================================================================================
