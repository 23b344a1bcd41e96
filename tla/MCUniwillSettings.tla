--------------------------- MODULE MCUniwillSettings ---------------------------
(* The settings, the feature detection, the ROM id and the BIOS options      *)
(* share no state: one run explores each, chosen in the initial state.       *)
EXTENDS UniwillSettings, UniwillFeatures

CONSTANT Budget    \* bound on what happens between probe and remove

VARIABLE part

MCInit ==
    /\ part \in {"settings", "features", "rom", "options"}
    /\ SettingsInit /\ FeaturesInit
    \* a part that is not explored starts in one state
    /\ part # "settings" => board = "white"
    /\ part # "features" => (\A f \in EcFeatures : device_has[f] = 0) /\ exempt = {}
    /\ part # "rom" => \A i \in 1..RomSize : rom[i]
    /\ part # "options" => efi = [support |-> <<1, 1>>, switch |-> <<0, 0>>]

MCNext ==
    /\ UNCHANGED part
    /\ \/ part = "settings" /\ SettingsNext /\ UNCHANGED bootVars
       \/ part = "features" /\ uniwill_get_device_features /\ UNCHANGED settingsVars
       \/ part = "rom" /\ set_rom_id /\ UNCHANGED settingsVars
       \/ part = "options" /\ ShowOptions /\ UNCHANGED settingsVars

MCSpec == MCInit /\ [][MCNext]_<<part, settingsVars, bootVars>>

WithinBudget == stores + events + sleeps + 2 * faults <= Budget
================================================================================
