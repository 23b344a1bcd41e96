-------------------------------- MODULE Nb04 --------------------------------
(***************************************************************************)
(* The NB04 drivers under src/src/tuxedo_nb04/: WMI interface AB with the  *)
(* keyboard backlight on top of it, and WMI interface BS with the power    *)
(* profile on top of it.  An interface is a pointer to its WMI device that *)
(* probe sets.  The firmware takes no keyboard colour before its status    *)
(* was read, and the first reads may return an invalid keyboard type.      *)
(***************************************************************************)
EXTENDS Integers, FiniteSets

CONSTANTS Colours04,      \* colours programs choose
          Levels04,       \* brightness values they choose, within 0 .. 10
          Programs04,     \* programs that store the power profile
          MaxStores04     \* bound: stores

ASSUME Nb04Assumption ==
  Levels04 \subseteq 0 .. 10 /\ "probe" \notin Programs04 /\ MaxStores04 \in Nat

VARIABLES wmi_ab,        \* the AB device: "absent" or "bound"
          backlight,     \* keyboard backlight driver: "off", "reading", "bound" or "failed"
          reads_left,    \* retry_count
          led04,         \* [colour, brightness]
          chip04,        \* [ready, enabled, colour, brightness]: the keyboard
          led_failed,    \* the last store did not reach the firmware
          profiles,      \* power profile driver: "off", "probing" or "bound"
          profile04,     \* current_profile_value
          mode04,        \* the system mode of the firmware
          writing04,     \* each writer: "idle", "set" (the value), or the value it read to write
          profile_odd,   \* the value was set when another writer had read it, or a write failed
          stores04

vars04 == <<wmi_ab, backlight, reads_left, led04, chip04, led_failed,
            profiles, profile04, mode04, writing04, profile_odd, stores04>>
keyboardVars04 == <<wmi_ab, backlight, reads_left, led04, chip04, led_failed>>
profileVars04 == <<profiles, profile04, mode04, writing04, profile_odd>>

DEFAULT_PROFILE == "performance"
Options04 == {"low-power", "balanced", "performance"}
Writers04 == Programs04 \cup {"probe"}
KEEP == -1       \* 0xfe in a message: leave the brightness as it is

Init04 ==
  /\ wmi_ab = "bound" /\ backlight = "off" /\ reads_left = 0
  /\ led04 = [colour |-> "white", brightness |-> 0]
  /\ chip04 \in [ready : {FALSE}, enabled : BOOLEAN, colour : {"other"}, brightness : {5}]
  /\ led_failed = TRUE
  /\ profiles = "off" /\ profile04 = DEFAULT_PROFILE /\ mode04 \in Options04
  /\ writing04 = [w \in Writers04 |-> "idle"] /\ profile_odd = FALSE
  /\ stores04 = 0

---------------------------------------------------------------------------
(* Interface AB and the keyboard backlight.                                *)

ProbeAb ==
  /\ wmi_ab = "absent"
  /\ wmi_ab' = "bound"
  /\ UNCHANGED <<backlight, reads_left, led04, chip04, led_failed, profileVars04, stores04>>

RemoveAb ==
  /\ wmi_ab = "bound" /\ stores04 < MaxStores04
  /\ wmi_ab' = "absent"
  /\ stores04' = stores04 + 1
  /\ UNCHANGED <<backlight, reads_left, led04, chip04, led_failed, profileVars04>>

\* tuxedo_nb04_kbd_backlight_probe starts to read the status.
ProbeBacklight ==
  /\ backlight \in {"off", "failed"} /\ stores04 < MaxStores04
  /\ backlight' = "reading" /\ reads_left' = 3
  /\ stores04' = stores04 + 1
  /\ UNCHANGED <<wmi_ab, led04, chip04, led_failed, profileVars04>>

\* Mutant: the number of reads decides, whatever they returned.
ReadThrice ==
  /\ backlight = "reading"
  /\ reads_left' = reads_left - 1
  /\ backlight' = IF reads_left = 1 THEN "bound" ELSE "reading"
  /\ led04' = [colour |-> "white", brightness |-> 0]
  /\ led_failed' = TRUE
  /\ UNCHANGED <<wmi_ab, chip04, profileVars04, stores04>>

\* One read of wmi_update_device_status_keyboard: a failing method ends it, an
\* invalid type ends it after the third read.
ReadStatus ==
  /\ backlight = "reading"
  /\ reads_left' = reads_left - 1
  /\ \/ backlight' = "failed" /\ UNCHANGED chip04
     \/ /\ wmi_ab = "bound"
        /\ backlight' = IF reads_left = 1 THEN "failed" ELSE "reading"
        /\ UNCHANGED chip04
     \/ /\ wmi_ab = "bound"
        /\ backlight' = "bound"
        /\ chip04' = [chip04 EXCEPT !.ready = TRUE]
  /\ led04' = [colour |-> "white", brightness |-> 0]
  /\ led_failed' = TRUE
  /\ UNCHANGED <<wmi_ab, profileVars04, stores04>>

\* Mutant: the light is enabled again only by a store of its own.
NeverEnables(colour, brightness) ==
  [colour |-> colour, brightness |-> brightness, enabled |-> chip04.enabled /\ brightness # 0]

\* wmi_set_whole_keyboard: brightness 0 disables the light and keeps the
\* brightness.
WholeKeyboard(colour, brightness) ==
  IF brightness = 0
    THEN [colour |-> colour, brightness |-> KEEP, enabled |-> FALSE]
    ELSE [colour |-> colour, brightness |-> brightness, enabled |-> TRUE]

Obeyed(m) == [ready |-> TRUE, enabled |-> m.enabled, colour |-> m.colour,
              brightness |-> IF m.brightness = KEEP THEN chip04.brightness ELSE m.brightness]

\* leds_set_brightness_mc_keyboard, after a store; a failure is not reported.
SetKeyboard(colour, brightness) ==
  /\ led04' = [colour |-> colour, brightness |-> brightness]
  /\ \/ /\ wmi_ab = "bound"
        /\ chip04' = IF chip04.ready THEN Obeyed(WholeKeyboard(colour, brightness)) ELSE chip04
        /\ led_failed' = FALSE
     \/ led_failed' = TRUE /\ UNCHANGED chip04

StoreLed04 ==
  /\ backlight = "bound" /\ stores04 < MaxStores04
  /\ \/ \E c \in Colours04 : SetKeyboard(c, led04.brightness)
     \/ \E b \in Levels04 : SetKeyboard(led04.colour, b)
  /\ stores04' = stores04 + 1
  /\ UNCHANGED <<wmi_ab, backlight, reads_left, profileVars04>>

\* Unregistering the LED sets its brightness to 0.
RemoveBacklight ==
  /\ backlight = "bound"
  /\ SetKeyboard(led04.colour, 0)
  /\ backlight' = "off"
  /\ UNCHANGED <<wmi_ab, reads_left, profileVars04, stores04>>

---------------------------------------------------------------------------
(* Interface BS and the power profile, tuxedo_nb04_power_profiles.c.       *)

\* Some writer has read the value and not yet given it to the firmware.
ValueRead == \E w \in Writers04 : writing04[w] \in Options04

\* The value is remembered, and shown, before it is written.
SetValue(w, option) ==
  /\ profile04' = option
  /\ writing04' = [writing04 EXCEPT ![w] = "set"]
  /\ profile_odd' = ValueRead
  /\ stores04' = stores04 + 1
  /\ UNCHANGED <<mode04, keyboardVars04>>

\* tuxedo_nb04_power_profiles_probe: the default profile.
ProbeProfiles ==
  /\ profiles = "off" /\ stores04 < MaxStores04
  /\ profiles' = "probing"
  /\ SetValue("probe", DEFAULT_PROFILE)

\* platform_profile_store; the attribute is created at the end of probe.
StoreProfile(p, option) ==
  /\ profiles = "bound" /\ writing04[p] = "idle" /\ stores04 < MaxStores04
  /\ SetValue(p, option)
  /\ UNCHANGED profiles

\* write_platform_profile_state reads the value ...
ReadValue(w) ==
  /\ writing04[w] = "set"
  /\ writing04' = [writing04 EXCEPT ![w] = profile04]
  /\ UNCHANGED <<profiles, profile04, mode04, profile_odd, keyboardVars04, stores04>>

\* ... and set_system_mode gives it to the firmware, or fails.  Probe does not
\* look at the result; creating the attribute may fail.
WriteProfile(w) ==
  /\ writing04[w] \in Options04
  /\ writing04' = [writing04 EXCEPT ![w] = "idle"]
  /\ \/ mode04' = writing04[w] /\ UNCHANGED profile_odd
     \/ profile_odd' = TRUE /\ UNCHANGED mode04
  /\ profiles' \in IF w = "probe" THEN {"bound", "off"} ELSE {profiles}
  /\ UNCHANGED <<profile04, keyboardVars04, stores04>>

\* tuxedo_nb04_power_profiles_remove waits for the stores under way.
RemoveProfiles ==
  /\ profiles = "bound" /\ \A w \in Writers04 : writing04[w] = "idle"
  /\ profiles' = "off"
  /\ UNCHANGED <<profile04, mode04, writing04, profile_odd, keyboardVars04, stores04>>

Next04 ==
  \/ ProbeAb \/ RemoveAb
  \/ ProbeBacklight \/ ReadStatus \/ StoreLed04 \/ RemoveBacklight
  \/ ProbeProfiles \/ RemoveProfiles
  \/ \E w \in Writers04 : ReadValue(w) \/ WriteProfile(w)
  \/ \E p \in Programs04, o \in Options04 : StoreProfile(p, o)

\* The keyboard is lit, in the colour and brightness of its LED, exactly when
\* the LED's brightness is not 0, once a store reached the firmware.  When no
\* profile is being written the one shown is the firmware's, unless the last
\* value was set after another writer had read the one before, or a write since
\* failed: also that of probe, which does not report it.
Nb04ShowsState ==
  /\ backlight = "bound" /\ ~led_failed =>
       /\ chip04.enabled = (led04.brightness # 0)
       /\ chip04.enabled => /\ chip04.colour = led04.colour
                            /\ chip04.brightness = led04.brightness
  /\ profiles = "bound" /\ (\A w \in Writers04 : writing04[w] = "idle") /\ ~profile_odd =>
       mode04 = profile04
=============================================================================
