---------------------------- MODULE UniwillFeatures ----------------------------
(***************************************************************************)
(* What src/src/uniwill_keyboard.h finds out about the device, and puts    *)
(* right, before it is used: uniwill_get_device_features, which reads the  *)
(* feature bits once and caches them, and is called by probe, by events    *)
(* and by every ioctl of tuxedo_io without a lock; set_rom_id; and         *)
(* uw_show_hidden_bios_options.  Any EC access or EFI call may fail.       *)
(***************************************************************************)
EXTENDS Naturals, Sequences

CONSTANTS
    Callers,      \* threads that ask for the features
    RomSize,      \* bytes of the ROM id (14 in the code)
    MaxLapses     \* bound: failed accesses

ASSUME FeaturesAssumption == RomSize \in Nat \ {0} /\ MaxLapses \in Nat

\* The features that are read from the EC, in the order of the reads.  The
\* others are told by the board's name alone.
FeatureReads == <<"model", "double_pl4", "charging_prio", "charging_profile", "mini_led", "universal_fan">>
EcFeatures   == {FeatureReads[i] : i \in DOMAIN FeatureReads}

VARIABLES
    device_has,   \* the device: its model and which features it has
    exempt,       \* DMI tables: features that are not looked for
    feats,        \* uniwill_device_features
    feats_loaded, \* uw_feats_loaded
    next,         \* the read each caller is at, 0 outside a call
    all_read,     \* its local feats_loaded
    spoilt,       \* history: a read of the model failed, another caller was there
    rom,          \* EC: whether each byte of the ROM id is right
    rom_pc,       \* set_rom_id: "check", "unlock1", "unlock2", "write", "ok", "-EIO"
    rom_at,       \* the byte it is at
    stuck,        \* history: a byte kept its value in all tries
    efi,          \* OemMagicVariable: two support bytes, two switches
    lapses

featVars == <<device_has, exempt, feats, feats_loaded, next, all_read, spoilt>>
romVars  == <<rom, rom_pc, rom_at, stuck>>
bootVars == <<featVars, romVars, efi, lapses>>

PH4TRX == 18   \* the model whose second fan the EC does not control

Lapse == lapses < MaxLapses /\ lapses' = lapses + 1

-----------------------------------------------------------------------------
CallFeatures(c) ==
    /\ next[c] = 0 /\ ~feats_loaded
    /\ next' = [next EXCEPT ![c] = 1] /\ all_read' = [all_read EXCEPT ![c] = TRUE]
    /\ UNCHANGED <<device_has, exempt, feats, feats_loaded, spoilt, romVars, efi, lapses>>

\* The tables of boards that have, or have not, a feature whatever the EC says.
Skipped(f) == f \in exempt \/ (f = "universal_fan" /\ feats["model"] = PH4TRX)

\* has_double_pl4, uw_has_charging_priority, uw_has_charging_profile,
\* uw_has_mini_led_local_dimming, has_universal_ec_fan_control
ReadFeature(c) ==
    /\ next[c] \in DOMAIN FeatureReads
    /\ next' = [next EXCEPT ![c] = @ + 1]
    /\ LET f == FeatureReads[next[c]]
       IN  \/ /\ feats' = [feats EXCEPT ![f] = IF Skipped(f) THEN 0 ELSE device_has[f]]
              /\ UNCHANGED <<all_read, spoilt, lapses>>
           \/ /\ ~Skipped(f) /\ Lapse
              /\ feats' = IF f = "model" THEN [feats EXCEPT ![f] = 0] ELSE feats
              /\ all_read' = [all_read EXCEPT ![c] = FALSE]
              /\ spoilt' = (spoilt \/ (f = "model" /\ (feats_loaded \/ \E o \in Callers \ {c} : next[o] # 0)))
    /\ UNCHANGED <<device_has, exempt, feats_loaded, romVars, efi>>

\* Mutant: what was read is cached, complete or not.
Whatever(read) == TRUE

IfComplete(read) == read

FeaturesDone(c) ==
    /\ next[c] > Len(FeatureReads) /\ next' = [next EXCEPT ![c] = 0]
    /\ feats_loaded' = IfComplete(all_read[c])
    /\ UNCHANGED <<device_has, exempt, feats, all_read, spoilt, romVars, efi, lapses>>

-----------------------------------------------------------------------------
RomGo(pc, at) == rom_pc' = pc /\ rom_at' = at

\* Mutant: the first byte that is right ends the check.
StopsAtRight(right) == IF right THEN "ok" ELSE "unlock1"

\* One byte compared: at the last one the ROM id is right.
Compared(right) == IF ~right THEN "unlock1" ELSE IF rom_at = RomSize THEN "ok" ELSE "check"

\* set_rom_id; the three tries of an access are one step.
CheckByte ==
    /\ rom_pc = "check"
    /\ \/ /\ LET pc == Compared(rom[rom_at]) IN RomGo(pc, IF pc = "check" THEN rom_at + 1 ELSE 1)
          /\ UNCHANGED lapses
       \/ Lapse /\ RomGo("-EIO", 1)
    /\ UNCHANGED <<featVars, rom, stuck, efi>>

UnlockRom ==
    /\ rom_pc \in {"unlock1", "unlock2"}
    /\ \/ RomGo(IF rom_pc = "unlock1" THEN "unlock2" ELSE "write", 1) /\ UNCHANGED lapses
       \/ Lapse /\ RomGo("-EIO", 1)
    /\ UNCHANGED <<featVars, rom, stuck, efi>>

WriteByte ==
    /\ rom_pc = "write"
    /\ LET onward == IF rom_at = RomSize THEN RomGo("ok", 1) ELSE RomGo("write", rom_at + 1)
       IN  \/ rom' = [rom EXCEPT ![rom_at] = TRUE] /\ onward /\ UNCHANGED <<stuck, lapses>>
           \/ Lapse /\ stuck' = TRUE /\ onward /\ UNCHANGED rom     \* returns 0 all the same
           \/ Lapse /\ RomGo("-EIO", 1) /\ UNCHANGED <<rom, stuck>>
    /\ UNCHANGED <<featVars, efi>>

\* uw_show_hidden_bios_options: the variable is written only if the firmware
\* supports both options and the switches have values that are known.
SwitchedOn(v) ==
    IF v.support = <<1, 1>> /\ {v.switch[1], v.switch[2]} \subseteq {0, 1} THEN [v EXCEPT !.switch = <<1, 1>>] ELSE v

ShowOptions ==
    /\ \/ efi' = SwitchedOn(efi) /\ UNCHANGED lapses
       \/ Lapse /\ UNCHANGED efi
    /\ UNCHANGED <<featVars, romVars>>

FeaturesInit ==
    /\ device_has \in [EcFeatures -> {0, 1}] \cup {[f \in EcFeatures |-> IF f = "model" THEN PH4TRX ELSE 1]}
    /\ device_has["double_pl4"] = device_has["mini_led"]
    /\ exempt \in {{}, {"charging_prio"}, {"charging_profile", "universal_fan"}}
    /\ feats = [f \in EcFeatures |-> 0] /\ feats_loaded = FALSE
    /\ next = [c \in Callers |-> 0] /\ all_read = [c \in Callers |-> TRUE] /\ spoilt = FALSE
    /\ rom \in [1..RomSize -> BOOLEAN] /\ rom_pc = "check" /\ rom_at = 1 /\ stuck = FALSE
    /\ efi \in [support : {<<1, 1>>, <<1, 0>>}, switch : {0, 1, 255} \X {0, 1}]
    /\ lapses = 0

uniwill_get_device_features == \E c \in Callers : CallFeatures(c) \/ ReadFeature(c) \/ FeaturesDone(c)

set_rom_id == CheckByte \/ UnlockRom \/ WriteByte

FeaturesNext == uniwill_get_device_features \/ set_rom_id \/ ShowOptions

FeaturesSpec == FeaturesInit /\ [][FeaturesNext]_bootVars

-----------------------------------------------------------------------------
\* Features that are cached are those of the device, however many callers
\* found out about them at the same time and whatever failed before; unless
\* the read of the model failed for a caller while another one was asking or
\* had just found out.
CachedFeaturesTrue ==
    feats_loaded /\ ~spoilt =>
        \A f \in EcFeatures : feats[f] = IF Skipped(f) THEN 0 ELSE device_has[f]

\* set_rom_id returns without an error only when every byte is right, unless a
\* byte did not take in three tries.
RomIdRight == rom_pc = "ok" /\ ~stuck => \A i \in 1..RomSize : rom[i]
================================================================================
