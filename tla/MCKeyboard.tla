------------------------------- MODULE MCKeyboard -------------------------------
(* The life of the keyboard driver and, of a driver that is there, the Clevo  *)
(* settings, the Clevo LEDs and the touchpad key, which share no state: one   *)
(* run explores each, chosen in the initial state.                            *)
EXTENDS KeyboardLifecycle, TouchpadFilter, ClevoSettings, ClevoLeds

VARIABLE part

MCInit ==
    /\ part \in {"lifecycle", "touchpad", "settings", "leds"}
    /\ LifecycleInit /\ FilterInit /\ ClevoSettingsInit /\ ClevoLedsInit
    \* a part that is not explored starts in one state
    /\ part # "lifecycle" => here = Clevo
    /\ part # "settings" => method = "cc4"
    /\ part # "leds" => type = "fixed" /\ lit.brightness = 0

MCNext ==
    /\ UNCHANGED part
    /\ \/ part = "lifecycle" /\ LifecycleNext /\ UNCHANGED <<filterVars, chargerVars, ledVars>>
       \/ part = "touchpad" /\ FilterNext /\ UNCHANGED <<lifecycleVars, chargerVars, ledVars>>
       \/ part = "settings" /\ ClevoSettingsNext /\ UNCHANGED <<lifecycleVars, filterVars, ledVars>>
       \/ part = "leds" /\ ClevoLedsNext /\ UNCHANGED <<lifecycleVars, filterVars, chargerVars>>

MCSpec == MCInit /\ [][MCNext]_<<part, lifecycleVars, filterVars, chargerVars, ledVars>>
================================================================================
