------------------------------ MODULE TuxedoIo ------------------------------
(***************************************************************************)
(* What src/src/tuxedo_io/tuxedo_io.c does besides fan control: the        *)
(* identification of the machine, the power limits (TDP) of Uniwill        *)
(* machines and the switches of Clevo machines.  Fan requests and the      *)
(* performance profile's register are modelled in FanClamp, UniwillFanTable*)
(* and UniwillFanRestart.  The ioctls take no lock.                        *)
(***************************************************************************)
EXTENDS Integers, FiniteSets

CONSTANTS ProgramsIo,     \* programs that use the device
          MaxCalls        \* bound: ioctls that write

ASSUME TuxedoIoAssumption == MaxCalls \in Nat

VARIABLES machine,        \* [table, double, custom]: the machine's table of limits and
                          \* what its firmware is like
          uw_feats,       \* [known, loaded, model, double]: what was read of it, by whom
          tdp_defs,       \* tdp_min_defs and tdp_max_defs are the machine's, not NULL
          tdp,            \* the three limits the firmware has, as bytes
          asked_tdp,      \* the last value accepted for each limit and written, or Unasked
          misjudged,      \* limits written while the driver was wrong about their unit
          profile,        \* the performance profile
          webcam,         \* [on, toggles]: the camera, and whether writing toggles it
          asked_webcam,   \* the state asked for last
          webcam_call,    \* each program between reading the camera and setting it
          webcam_odd,     \* calls overlapped, or a call of the firmware failed
          calls

varsIo == <<machine, uw_feats, tdp_defs, tdp, asked_tdp, misjudged, profile, webcam,
            asked_webcam, webcam_call, webcam_odd, calls>>
limitVars == <<tdp, asked_tdp, misjudged>>
tdpVars == <<machine, uw_feats, tdp_defs, limitVars, profile>>
webcamVars == <<webcam, asked_webcam, webcam_call, webcam_odd>>

Limits == 0 .. 2
Unasked == -1
ENODEV == -19
NotCalling == [asked |-> FALSE, found |-> FALSE, calling |-> FALSE]

---------------------------------------------------------------------------
(* Tables of limits: least values of the three, then greatest, in watts;   *)
(* 0 stands for a limit the machine does not have.                         *)

Table(least, greatest) == [min |-> least, max |-> greatest]
From(watts, a, b, c) == Table(<<watts, watts, watts>>, <<a, b, c>>)
Two(a, b) == Table(<<5, 5, 0>>, <<a, b, 0>>)

TdpTables ==
  [ph4tux |-> Two(38, 38), ph4trx |-> Two(50, 50), ph4tqx |-> Two(50, 50),
   phxaxx_mk1 |-> Two(50, 60), phxaxx_mk2 |-> Two(55, 100),
   phxpxx |-> From(5, 45, 60, 110), pfxluxg |-> From(5, 35, 35, 40),
   gmxngxx |-> From(5, 80, 80, 95), gmxmgxx |-> From(5, 120, 120, 200),
   gmxtgxx |-> From(5, 120, 120, 200), gmxzgxx |-> From(5, 80, 80, 95),
   gmxagxx |-> From(5, 120, 120, 215), gmxrgxx |-> From(5, 100, 100, 110),
   gmxpxxx |-> From(5, 130, 130, 200), gmxxgxx |-> From(5, 80, 80, 100),
   gmxixxb_mb1 |-> From(5, 205, 205, 400), gmxixxb_mb2 |-> From(5, 160, 160, 250),
   gmxixxn |-> From(5, 160, 160, 250), gmxixxa |-> From(5, 140, 140, 200),
   gmxhgxa |-> From(5, 90, 90, 100), x6ar5xx |-> From(5, 210, 210, 420),
   x6fr5xx |-> From(25, 162, 162, 195), xxxx45xs |-> From(10, 100, 100, 105),
   x6ar55xu |-> From(10, 145, 155, 290), x5ar45xs |-> From(10, 90, 90, 230),
   x6xx45xu |-> From(10, 100, 100, 105), xxaf5xxx |-> From(10, 210, 210, 420)]

\* A machine is named by its table.
IdentifiedByModel == {"ph4tux", "ph4trx", "ph4tqx"}

OrNoDevice(limit) == IF tdp_defs /\ limit > 0 THEN limit ELSE ENODEV
uw_get_tdp_min(i) == OrNoDevice(TdpTables[machine.table].min[i + 1])
uw_get_tdp_max(i) == OrNoDevice(TdpTables[machine.table].max[i + 1])
Supported(i) == uw_get_tdp_min(i) >= 0

Doubled(i) == i = 2 /\ uw_feats.double

\* Mutant: the third limit is written in watts on every machine.
Undoubled(i, value) == value % 256

\* The byte uw_set_tdp writes; the value is stored in a u8.
TdpByte(i, value) == (IF Doubled(i) THEN value \div 2 ELSE value) % 256

uw_get_tdp(i) == CASE ~Supported(i) -> uw_get_tdp_min(i)
                   [] Supported(i) /\ Doubled(i) -> tdp[i] * 2
                   [] Supported(i) /\ ~Doubled(i) -> tdp[i]

---------------------------------------------------------------------------
(* Identification and limits.                                              *)

\* uniwill_get_device_features.  Until everything was read once every call reads
\* again: without the model byte the model is 0, other features stay as they were.
ReadFeatures(known) ==
  \/ uw_feats.loaded /\ uw_feats' = [uw_feats EXCEPT !.known = known]
  \/ /\ ~uw_feats.loaded
     /\ \E model, double, others \in BOOLEAN :
          uw_feats' = [known |-> known, loaded |-> model /\ double /\ others, model |-> model,
                       double |-> IF double THEN machine.double ELSE uw_feats.double]

\* uniwill_identify, in tuxedo_io_init and R_HWCHECK_UW.  uw_id_tdp knows three
\* machines by the model byte, the others by the names in their firmware tables.
IdentifyUniwill ==
  /\ ReadFeatures(TRUE)
  /\ tdp_defs' = (machine.table \in IdentifiedByModel => uw_feats'.model)
  /\ UNCHANGED <<machine, limitVars, profile, webcamVars, calls>>

\* tuxedo_keyboard reads the features too, and chooses no table.
KeyboardReadsFeatures ==
  /\ ReadFeatures(uw_feats.known)
  /\ UNCHANGED <<machine, tdp_defs, limitVars, profile, webcamVars, calls>>

\* uw_set_tdp.  A machine that needs it is first put into its own profile, even
\* for a value that is then refused; the writes may fail, which nobody learns.
SetTdp(i, value) ==
  /\ uw_feats.known /\ calls < MaxCalls
  /\ profile' \in {profile} \cup (IF machine.custom THEN {"overboost"} ELSE {})
  /\ \/ /\ Supported(i) /\ value \in uw_get_tdp_min(i) .. uw_get_tdp_max(i)
        /\ tdp' = [tdp EXCEPT ![i] = TdpByte(i, value)]
        /\ asked_tdp' = [asked_tdp EXCEPT ![i] = value]
        /\ misjudged' = IF i = 2 /\ uw_feats.double # machine.double
                        THEN misjudged \cup {i} ELSE misjudged \ {i}
     \/ UNCHANGED limitVars
  /\ calls' = calls + 1
  /\ UNCHANGED <<machine, uw_feats, tdp_defs, webcamVars>>

\* W_UW_PERF_PROF.
SetProfile ==
  /\ uw_feats.known /\ calls < MaxCalls
  /\ profile' \in {profile, "balanced"}
  /\ calls' = calls + 1
  /\ UNCHANGED <<machine, uw_feats, tdp_defs, limitVars, webcamVars>>

---------------------------------------------------------------------------
(* The camera of a Clevo machine.                                          *)

\* W_CL_WEBCAM_SW reads the camera; the result is 0 when that fails.
ReadWebcam(p, value) ==
  /\ ~webcam_call[p].calling /\ calls < MaxCalls
  /\ \/ /\ webcam_call' = [webcam_call EXCEPT ![p] =
                             [asked |-> value, found |-> webcam.on, calling |-> TRUE]]
        /\ webcam_odd' = (\E q \in ProgramsIo : webcam_call[q].calling)
     \/ /\ webcam_call' = [webcam_call EXCEPT ![p] =
                             [asked |-> value, found |-> FALSE, calling |-> TRUE]]
        /\ webcam_odd' = TRUE
  /\ asked_webcam' = value
  /\ calls' = calls + 1
  /\ UNCHANGED <<tdpVars, webcam>>

\* Mutant: the camera is set whatever it was.
Always(call) == TRUE

NeedsSetting(call) == call.asked # call.found

\* It is set only if it is not already as asked: some firmware toggles it.
SetWebcam(p) ==
  /\ webcam_call[p].calling
  /\ IF NeedsSetting(webcam_call[p])
     THEN \/ /\ webcam' = [webcam EXCEPT !.on = IF webcam.toggles THEN ~@ ELSE webcam_call[p].asked]
             /\ UNCHANGED webcam_odd
          \/ webcam_odd' = TRUE /\ UNCHANGED webcam
     ELSE UNCHANGED <<webcam, webcam_odd>>
  /\ webcam_call' = [webcam_call EXCEPT ![p] = NotCalling]
  /\ UNCHANGED <<tdpVars, asked_webcam, calls>>

---------------------------------------------------------------------------

\* Limits above a byte are only found on machines that count in steps of 2 W.
Machines == { m \in [table : DOMAIN TdpTables, double : BOOLEAN, custom : BOOLEAN] :
                TdpTables[m.table].max[3] > 255 => m.double }

InitIo ==
  /\ machine \in Machines
  /\ uw_feats = [known |-> FALSE, loaded |-> FALSE, model |-> FALSE, double |-> FALSE]
  /\ tdp_defs = FALSE
  /\ tdp = [i \in Limits |-> 0] /\ asked_tdp = [i \in Limits |-> Unasked] /\ misjudged = {}
  /\ profile = "balanced"
  /\ webcam \in [on : BOOLEAN, toggles : BOOLEAN]
  /\ asked_webcam = webcam.on
  /\ webcam_call = [p \in ProgramsIo |-> NotCalling]
  /\ webcam_odd = FALSE
  /\ calls = 0

\* Values at the ends of the range, and one below zero.
ValuesNear(i) == LET t == TdpTables[machine.table] IN
  {-1} \cup {t.min[i + 1] + d : d \in {-1, 0}} \cup {t.max[i + 1] + d : d \in {0, 1}}

UniwillNext ==
  IdentifyUniwill \/ KeyboardReadsFeatures \/ SetProfile \/ \E i \in Limits : \E v \in ValuesNear(i) : SetTdp(i, v)
ClevoNext == \E p \in ProgramsIo : SetWebcam(p) \/ \E v \in BOOLEAN : ReadWebcam(p, v)
NextIo == UniwillNext \/ ClevoNext

---------------------------------------------------------------------------
(* Properties.                                                             *)

\* A limit that was accepted and written is in force, up to the 2 W in which
\* some machines count, does not exceed the machine's greatest value and reads
\* back as it is.  If the driver had not yet read that the machine counts in 2 W, twice
\* what was asked (as a byte) is in force instead; once everything was read
\* that can no longer happen, and a limit set again is right.
TdpAsAsked ==
  /\ uw_feats.loaded => uw_feats.double = machine.double
  /\ \A i \in Limits : asked_tdp[i] # Unasked =>
       LET watts == tdp[i] * (IF i = 2 /\ machine.double THEN 2 ELSE 1) IN
       /\ i \notin misjudged => /\ watts \in {asked_tdp[i], asked_tdp[i] - 1}
                               /\ watts <= TdpTables[machine.table].max[i + 1]
       /\ i \in misjudged => machine.double /\ watts = 2 * (asked_tdp[i] % 256)
       /\ Supported(i) /\ uw_feats.loaded => uw_get_tdp(i) = watts

\* When no call is under way the camera is as the last call asked, even if the
\* firmware toggles it on every write, unless calls overlapped or failed.
WebcamAsAsked ==
  (\A p \in ProgramsIo : ~webcam_call[p].calling) /\ ~webcam_odd => webcam.on = asked_webcam
=============================================================================
