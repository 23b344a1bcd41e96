----------------------------- MODULE DeviceProofs -----------------------------
(***************************************************************************)
(* Proofs about drivers that stand alone: the NB04 keyboard backlight and  *)
(* power profile, and the camera switch and power limits of tuxedo_io, for *)
(* any number of programs, stores and failures; and the ITE light bars and *)
(* keyboards 8291, 829x and 8297, for any stores, key presses, sleeps and  *)
(* lost messages, those of probe included.                                 *)
(***************************************************************************)
EXTENDS MCDevices, SequenceTheorems, TLAPS

Spec04 == Init04 /\ [][Next04]_vars04

SpecLb == InitLb /\ [][NextLb]_varsLb

\* Of tuxedo_io what a Clevo machine has; the rest of its state is not touched.
CameraSpec == InitIo /\ [][ClevoNext]_varsIo

---------------------------------------------------------------------------
(* NB04                                                                    *)

Leds04 == [colour : Colours04 \cup {"white"}, brightness : 0 .. 10]
Chips04 == [ready : BOOLEAN, enabled : BOOLEAN,
            colour : Colours04 \cup {"white", "other"}, brightness : 0 .. 10]

BacklightTypes ==
  /\ backlight \in {"off", "reading", "bound", "failed"}
  /\ led04 \in Leds04
  /\ chip04 \in Chips04

\* The driver does not register its LED before the firmware's status was read,
\* so a message that arrives is obeyed.
ReadyInv == backlight = "bound" => chip04.ready

LitInv ==
  backlight = "bound" /\ ~led_failed =>
    /\ chip04.enabled = (led04.brightness # 0)
    /\ chip04.enabled => /\ chip04.colour = led04.colour
                         /\ chip04.brightness = led04.brightness

ProfileTypes ==
  /\ profiles \in {"off", "probing", "bound"} /\ profile04 \in Options04 /\ profile_odd \in BOOLEAN
  /\ writing04 \in [Writers04 -> {"idle", "set"} \cup Options04]

\* As long as nothing odd happened what was read is still the value, and the
\* value is in force unless there is somebody who will write it.
ProfileInv ==
  ~profile_odd =>
    /\ \A w \in Writers04 : writing04[w] \in Options04 => writing04[w] = profile04
    /\ profiles # "off" /\ (\A w \in Writers04 : writing04[w] = "idle") => mode04 = profile04

Inv04 == BacklightTypes /\ ReadyInv /\ LitInv /\ ProfileTypes /\ ProfileInv

\* The keyboard's part of the invariant holds whatever a store does, if the
\* firmware is ready for it.
LEMMA StoreKeepsLit ==
  ASSUME BacklightTypes, chip04.ready,
         NEW c \in Colours04 \cup {"white"}, NEW b \in 0 .. 10, SetKeyboard(c, b)
  PROVE  /\ led04' \in Leds04 /\ chip04' \in Chips04
         /\ chip04'.ready
         /\ ~led_failed' => /\ chip04'.enabled = (led04'.brightness # 0)
                            /\ chip04'.enabled => /\ chip04'.colour = led04'.colour
                                                  /\ chip04'.brightness = led04'.brightness
<1> USE DEF BacklightTypes, Leds04, Chips04
<1>1. led04' = [colour |-> c, brightness |-> b]
  BY DEF SetKeyboard
<1>2. CASE chip04' = chip04 /\ led_failed'
  BY <1>1, <1>2
<1>3. CASE chip04' = Obeyed(WholeKeyboard(c, b))
  <2>1. CASE b = 0
    <3>1. chip04' = [ready |-> TRUE, enabled |-> FALSE, colour |-> c, brightness |-> chip04.brightness]
      <4>1. WholeKeyboard(c, b) = [colour |-> c, brightness |-> KEEP, enabled |-> FALSE]
        BY <2>1 DEF WholeKeyboard
      <4> QED
        BY <1>3, <4>1 DEF Obeyed
    <3> QED
      BY <1>1, <2>1, <3>1
  <2>2. CASE b # 0
    <3>1. chip04' = [ready |-> TRUE, enabled |-> TRUE, colour |-> c, brightness |-> b]
      <4>1. WholeKeyboard(c, b) = [colour |-> c, brightness |-> b, enabled |-> TRUE]
        BY <2>2 DEF WholeKeyboard
      <4>2. b # KEEP
        BY DEF KEEP
      <4> QED
        BY <1>3, <4>1, <4>2 DEF Obeyed
    <3> QED
      BY <1>1, <2>2, <3>1
  <2> QED
    BY <2>1, <2>2
<1> QED
  BY <1>2, <1>3 DEF SetKeyboard

\* At the start no store has reached the firmware.
LEMMA Init04Inv == Init04 => Inv04
<1> SUFFICES ASSUME Init04 PROVE Inv04
  OBVIOUS
<1>1. led04 \in Leds04 /\ backlight = "off"
  BY DEF Init04, Leds04
<1>2. chip04 \in Chips04
  <2>1. PICK e \in BOOLEAN : chip04 = [ready |-> FALSE, enabled |-> e, colour |-> "other", brightness |-> 5]
    BY DEF Init04
  <2> QED
    BY <2>1 DEF Chips04
<1>3. led_failed /\ ProfileTypes
  BY DEF Init04, ProfileTypes, DEFAULT_PROFILE, Options04
<1>4. ProfileInv
  BY DEF Init04, ProfileInv, Options04
<1> QED
  BY <1>1, <1>2, <1>3, <1>4 DEF Inv04, BacklightTypes, ReadyInv, LitInv

\* A step of the keyboard backlight and its interface.
LEMMA BacklightStep ==
  ASSUME Inv04, ProbeAb \/ RemoveAb \/ ProbeBacklight \/ ReadStatus \/ StoreLed04 \/ RemoveBacklight
  PROVE  Inv04'
<1> USE DEF Inv04
<1>1. CASE ProbeAb \/ RemoveAb
  BY <1>1 DEF ProbeAb, RemoveAb, BacklightTypes, ReadyInv, LitInv, ProfileTypes, ProfileInv, profileVars04
<1>2. CASE ProbeBacklight
  BY <1>2 DEF ProbeBacklight, BacklightTypes, ReadyInv, LitInv, ProfileTypes, ProfileInv, profileVars04
<1>3. CASE ReadStatus
  <2>1. led04' = [colour |-> "white", brightness |-> 0] /\ led_failed'
    BY <1>3 DEF ReadStatus
  <2>2. ReadyInv' /\ BacklightTypes'
    <3>1. CASE backlight' = "failed" /\ UNCHANGED chip04
      BY <2>1, <3>1 DEF ReadyInv, BacklightTypes, Leds04
    <3>2. CASE backlight' = (IF reads_left = 1 THEN "failed" ELSE "reading") /\ UNCHANGED chip04
      BY <2>1, <3>2 DEF ReadyInv, BacklightTypes, Leds04
    <3>3. CASE backlight' = "bound" /\ chip04' = [chip04 EXCEPT !.ready = TRUE]
      <4>1. chip04' = [ready |-> TRUE, enabled |-> chip04.enabled,
                       colour |-> chip04.colour, brightness |-> chip04.brightness]
        BY <3>3 DEF BacklightTypes, Chips04
      <4>2. chip04'.ready /\ chip04' \in Chips04
        BY <4>1 DEF BacklightTypes, Chips04
      <4> QED
        BY <2>1, <3>3, <4>2 DEF ReadyInv, BacklightTypes, Leds04
    <3> QED
      BY <1>3, <3>1, <3>2, <3>3 DEF ReadStatus
  <2>3. ProfileTypes' /\ ProfileInv'
    BY <1>3 DEF ReadStatus, ProfileTypes, ProfileInv, profileVars04
  <2> QED
    BY <2>1, <2>2, <2>3 DEF LitInv
<1>4. CASE StoreLed04
  <2>1. PICK c \in Colours04 \cup {"white"}, b \in 0 .. 10 : SetKeyboard(c, b)
    BY <1>4, Nb04Assumption DEF StoreLed04, BacklightTypes, Leds04
  <2>2. chip04.ready
    BY <1>4 DEF StoreLed04, ReadyInv
  <2> QED
    BY <1>4, <2>1, <2>2, StoreKeepsLit
    DEF StoreLed04, BacklightTypes, ReadyInv, LitInv, ProfileTypes, ProfileInv, profileVars04
<1>5. CASE RemoveBacklight
  <2>1. led04.colour \in Colours04 \cup {"white"} /\ 0 \in 0 .. 10 /\ SetKeyboard(led04.colour, 0)
    BY <1>5 DEF RemoveBacklight, BacklightTypes, Leds04
  <2>2. chip04.ready
    BY <1>5 DEF RemoveBacklight, ReadyInv
  <2>3. led04' \in Leds04 /\ chip04' \in Chips04
    BY <2>1, <2>2, StoreKeepsLit
  <2> QED
    BY <1>5, <2>3 DEF RemoveBacklight, BacklightTypes, ReadyInv, LitInv, ProfileTypes, ProfileInv, profileVars04
<1> QED
  BY <1>1, <1>2, <1>3, <1>4, <1>5

\* A value is set: who has read the one before will write it yet.
LEMMA SetKeeps ==
  ASSUME Inv04, NEW w \in Writers04, NEW option \in Options04, SetValue(w, option),
         profiles' \in {"off", "probing", "bound"}
  PROVE  ProfileTypes' /\ ProfileInv'
<1>1. /\ profile04' = option /\ writing04' = [writing04 EXCEPT ![w] = "set"] /\ profile_odd' = ValueRead
      /\ writing04 \in [Writers04 -> {"idle", "set"} \cup Options04]
  BY DEF SetValue, Inv04, ProfileTypes
<1>2. \A v \in Writers04 : writing04'[v] = IF v = w THEN "set" ELSE writing04[v]
  BY <1>1
<1>3. ProfileTypes'
  BY <1>1 DEF ProfileTypes, ValueRead
<1>4. ~profile_odd' => \A v \in Writers04 : writing04'[v] \notin Options04
  BY <1>1, <1>2 DEF ValueRead, Options04
<1>5. writing04'[w] # "idle"
  BY <1>2
<1> QED
  BY <1>3, <1>4, <1>5 DEF ProfileInv

\* A step of a driver of the power profile, or of a store to it.
LEMMA ProfileStep ==
  ASSUME Inv04,
         \/ ProbeProfiles \/ RemoveProfiles
         \/ \E w \in Writers04 : ReadValue(w) \/ WriteProfile(w)
         \/ \E p \in Programs04, o \in Options04 : StoreProfile(p, o)
  PROVE  Inv04'
<1>0. /\ profiles \in {"off", "probing", "bound"} /\ profile04 \in Options04 /\ profile_odd \in BOOLEAN
      /\ writing04 \in [Writers04 -> {"idle", "set"} \cup Options04]
      /\ ~profile_odd => \A w \in Writers04 : writing04[w] \in Options04 => writing04[w] = profile04
  BY DEF Inv04, ProfileTypes, ProfileInv
<1>1. UNCHANGED keyboardVars04
  BY DEF ProbeProfiles, RemoveProfiles, ReadValue, WriteProfile, StoreProfile, SetValue
<1>2. BacklightTypes' /\ ReadyInv' /\ LitInv'
  BY <1>1 DEF keyboardVars04, Inv04, BacklightTypes, ReadyInv, LitInv
<1>3. CASE ProbeProfiles
  <2>1. "probe" \in Writers04 /\ DEFAULT_PROFILE \in Options04
    BY DEF Writers04, DEFAULT_PROFILE, Options04
  <2> QED
    BY <1>2, <1>3, <2>1, SetKeeps DEF ProbeProfiles, Inv04
<1>4. ASSUME NEW p \in Programs04, NEW o \in Options04, StoreProfile(p, o) PROVE Inv04'
  <2>1. p \in Writers04 /\ profiles' = profiles
    BY <1>4 DEF Writers04, StoreProfile
  <2> QED
    BY <1>0, <1>2, <1>4, <2>1, SetKeeps DEF StoreProfile, Inv04
<1>5. CASE RemoveProfiles
  BY <1>0, <1>2, <1>5 DEF RemoveProfiles, Inv04, ProfileTypes, ProfileInv
<1>6. ASSUME NEW w \in Writers04, ReadValue(w) PROVE Inv04'
  <2>1. /\ writing04' = [writing04 EXCEPT ![w] = profile04]
        /\ UNCHANGED <<profiles, profile04, mode04, profile_odd>>
    BY <1>6 DEF ReadValue
  <2>2. \A v \in Writers04 : writing04'[v] = IF v = w THEN profile04 ELSE writing04[v]
    BY <1>0, <2>1
  <2>3. writing04'[w] # "idle"
    BY <1>0, <2>2 DEF Options04
  <2> QED
    BY <1>0, <1>2, <2>1, <2>2, <2>3 DEF Inv04, ProfileTypes, ProfileInv
<1>7. ASSUME NEW w \in Writers04, WriteProfile(w) PROVE Inv04'
  <2>1. /\ writing04[w] \in Options04 /\ writing04' = [writing04 EXCEPT ![w] = "idle"]
        /\ profile04' = profile04
        /\ \/ mode04' = writing04[w] /\ UNCHANGED profile_odd
           \/ profile_odd' = TRUE
    BY <1>7 DEF WriteProfile
  <2>2. \A v \in Writers04 : writing04'[v] = IF v = w THEN "idle" ELSE writing04[v]
    BY <1>0, <2>1
  <2>3. "idle" \notin Options04
    BY DEF Options04
  <2>4. profiles' \in {"off", "probing", "bound"}
    BY <1>0, <1>7 DEF WriteProfile
  <2>5. ProfileTypes'
    BY <1>0, <2>1, <2>4 DEF ProfileTypes
  <2>6. ProfileInv'
    BY <1>0, <2>1, <2>2, <2>3 DEF ProfileInv
  <2> QED
    BY <1>2, <2>5, <2>6 DEF Inv04
<1> QED
  BY <1>3, <1>4, <1>5, <1>6, <1>7

\* For any programs, colours and levels: when the firmware's status was read
\* and a store reached it, the keyboard is lit as its LED says, whatever
\* interface AB did meanwhile; and the profile that is shown is the firmware's,
\* whatever it was before probe, unless a write failed, that of probe included,
\* or one was set after another writer had read the value (tuxedo_nb04_*.c).
THEOREM Nb04Shows == Spec04 => []Nb04ShowsState
<1>1. Inv04 /\ [Next04]_vars04 => Inv04'
  <2> SUFFICES ASSUME Inv04, [Next04]_vars04 PROVE Inv04'
    OBVIOUS
  <2>1. CASE UNCHANGED vars04
    BY <2>1 DEF vars04, Inv04, BacklightTypes, ReadyInv, LitInv, ProfileTypes, ProfileInv
  <2> QED
    BY <2>1, BacklightStep, ProfileStep DEF Next04
<1>2. Inv04 => Nb04ShowsState
  BY DEF Inv04, LitInv, ProfileInv, Nb04ShowsState
<1> QED
  BY <1>1, <1>2, Init04Inv, PTL DEF Spec04

---------------------------------------------------------------------------
(* The camera                                                              *)

CameraTypes ==
  /\ webcam \in [on : BOOLEAN, toggles : BOOLEAN]
  /\ webcam_call \in [ProgramsIo -> [asked : BOOLEAN, found : BOOLEAN, calling : BOOLEAN]]
  /\ asked_webcam \in BOOLEAN

\* As long as nothing odd happened a call is alone, it is the last one, and the
\* camera is still as it found it.
AloneInv ==
  ~webcam_odd =>
    /\ \A p, q \in ProgramsIo : webcam_call[p].calling /\ webcam_call[q].calling => p = q
    /\ \A p \in ProgramsIo : webcam_call[p].calling =>
         webcam_call[p].asked = asked_webcam /\ webcam_call[p].found = webcam.on

CameraInv == CameraTypes /\ AloneInv /\ WebcamAsAsked

\* At the start the camera is as it is wanted, and nobody calls.
LEMMA CameraInit == InitIo => CameraInv
BY DEF InitIo, CameraInv, CameraTypes, AloneInv, WebcamAsAsked, NotCalling

\* A call that begins: from here on the camera is expected to become as asked.
LEMMA ReadKeepsCamera ==
  ASSUME CameraInv, NEW p \in ProgramsIo, NEW v \in BOOLEAN, ReadWebcam(p, v)
  PROVE  CameraInv'
<1> USE DEF CameraInv, CameraTypes
<1>1. PICK f \in BOOLEAN :
        webcam_call' = [webcam_call EXCEPT ![p] = [asked |-> v, found |-> f, calling |-> TRUE]]
  BY DEF ReadWebcam
<1>2. CameraTypes'
  BY <1>1 DEF ReadWebcam
<1>3. webcam_call'[p].calling
  BY <1>1
<1>4. AloneInv'
  <2>1. CASE webcam_odd'
    BY <2>1 DEF AloneInv
  <2>2. CASE ~webcam_odd'
    <3>1. \A q \in ProgramsIo : ~webcam_call[q].calling
      BY <2>2 DEF ReadWebcam
    <3>2. webcam_call'[p] = [asked |-> v, found |-> webcam.on, calling |-> TRUE]
      BY <2>2 DEF ReadWebcam
    <3>3. \A q \in ProgramsIo \ {p} : ~webcam_call'[q].calling
      BY <1>1, <3>1
    <3>4. asked_webcam' = v /\ webcam' = webcam
      BY DEF ReadWebcam
    <3> QED
      BY <3>2, <3>3, <3>4 DEF AloneInv
  <2> QED
    BY <2>1, <2>2
<1> QED
  BY <1>2, <1>3, <1>4 DEF WebcamAsAsked

\* A call that ends: setting the camera to, or toggling it from, the opposite
\* of what was asked.
LEMMA SetKeepsCamera ==
  ASSUME CameraInv, NEW p \in ProgramsIo, SetWebcam(p)
  PROVE  CameraInv'
<1> USE DEF CameraInv, CameraTypes
<1>1. /\ webcam_call' = [webcam_call EXCEPT ![p] = NotCalling]
      /\ webcam_call[p].calling
      /\ asked_webcam' = asked_webcam
      /\ webcam_odd => webcam_odd'
  BY DEF SetWebcam
<1>2. CameraTypes'
  <2>1. webcam' \in [on : BOOLEAN, toggles : BOOLEAN]
    <3>1. CASE UNCHANGED webcam
      BY <3>1
    <3>2. CASE webcam' = [webcam EXCEPT !.on = IF webcam.toggles THEN ~@ ELSE webcam_call[p].asked]
      BY <3>2, Zenon
    <3> QED
      BY <3>1, <3>2 DEF SetWebcam
  <2> QED
    BY <1>1, <2>1 DEF NotCalling
<1>3. CASE webcam_odd'
  BY <1>2, <1>3 DEF AloneInv, WebcamAsAsked
<1>4. CASE ~webcam_odd'
  <2>1. \A q \in ProgramsIo : ~webcam_call'[q].calling
    BY <1>1, <1>4 DEF AloneInv, NotCalling
  <2>2. webcam_call[p].asked = asked_webcam /\ webcam_call[p].found = webcam.on
    BY <1>1, <1>4 DEF AloneInv
  <2>3. webcam'.on = asked_webcam
    BY <1>4, <2>2 DEF SetWebcam, NeedsSetting
  <2> QED
    BY <1>1, <1>2, <2>1, <2>3 DEF AloneInv, WebcamAsAsked
<1> QED
  BY <1>3, <1>4

\* For any number of programs: a call that was alone and did not fail leaves
\* the camera as it asked, also where the firmware toggles it (W_CL_WEBCAM_SW).
THEOREM CameraObeys == CameraSpec => []WebcamAsAsked
<1>1. CameraInv /\ [ClevoNext]_varsIo => CameraInv'
  <2> SUFFICES ASSUME CameraInv, [ClevoNext]_varsIo PROVE CameraInv'
    OBVIOUS
  <2>1. CASE UNCHANGED varsIo
    BY <2>1 DEF varsIo, CameraInv, CameraTypes, AloneInv, WebcamAsAsked
  <2>2. CASE ClevoNext
    BY <2>2, ReadKeepsCamera, SetKeepsCamera DEF ClevoNext
  <2> QED
    BY <2>1, <2>2
<1>2. CameraInv => WebcamAsAsked
  BY DEF CameraInv
<1> QED
  BY <1>1, <1>2, CameraInit, PTL DEF CameraSpec

---------------------------------------------------------------------------
(* The light bar                                                           *)

Colour(c)    == [op |-> "colour", arg |-> c]
Effect(b)    == [op |-> "mono", arg |-> b]
Power(p, on) == [op |-> "power", arg |-> Selector(p), to |-> on]
Off(p)       == [op |-> "off", arg |-> Selector(p)]
State        == [op |-> "state"]

\* What is left to send of the messages of probe and resume, and of the LED's
\* state, and of those that turn the light bar off.
OnAndState(p)  == <<Power(p, TRUE), State>>
OnlyState      == <<State>>
Both(c, b)     == <<Colour(c), Effect(b)>>
OnlyEffect(b)  == <<Effect(b)>>
LastOne(p)     == <<Power(p, FALSE)>>
LastTwo(p)     == <<Off(p), Power(p, FALSE)>>
LastThree(p)   == <<Effect(0), Off(p), Power(p, FALSE)>>
LastFour(p)    == <<Colour("black"), Effect(0), Off(p), Power(p, FALSE)>>

Up == powerLb \in {"probing", "resuming", "awake"}

LbTypes ==
  /\ productLb \in Products
  /\ powerLb \in {"probing", "awake", "asleep", "resuming", "removing", "removed"}
  /\ DOMAIN ledLb = {"colour", "brightness"} /\ ledLb = [x \in DOMAIN ledLb |-> ledLb[x]]
  /\ DOMAIN chipLb = {"powered", "on", "colour", "brightness"} /\ chipLb = [x \in DOMAIN chipLb |-> chipLb[x]]
  /\ DOMAIN todoLb = SendersLb /\ todoLb = [s \in DOMAIN todoLb |-> todoLb[s]]

\* What the driver has to send, in each of its states; of the LED it has read
\* what the LED is, unless a store has come in between.
DriverSends ==
  /\ powerLb \in {"probing", "resuming"} =>
       \/ todoLb["driver"] = OnAndState(productLb)
       \/ todoLb["driver"] = OnlyState
       \/ \E c, b : /\ todoLb["driver"] = Both(c, b)
                    /\ ~staleLb => c = ledLb.colour /\ b = ledLb.brightness
       \/ \E b : todoLb["driver"] = OnlyEffect(b) /\ (~staleLb => b = ledLb.brightness)
  /\ powerLb = "awake" => todoLb["driver"] = << >>
  /\ powerLb = "removing" =>
       \/ todoLb["driver"] = << >>
       \/ \E c, b : todoLb["driver"] = Both(c, b) \/ todoLb["driver"] = OnlyEffect(b)
  /\ powerLb \in {"asleep", "removed"} =>
       todoLb["driver"] \in {<< >>, LastOne(productLb), LastTwo(productLb),
                             LastThree(productLb), LastFour(productLb)}

\* What a store has to send is the LED's state, until it is removed.
StoreSends ==
  /\ powerLb \in {"asleep", "resuming", "removed"} => todoLb["store"] = << >>
  /\ \/ todoLb["store"] = << >>
     \/ \E c, b : /\ todoLb["store"] = Both(c, b)
                  /\ Up => c = ledLb.colour /\ b = ledLb.brightness
     \/ \E b : todoLb["store"] = OnlyEffect(b) /\ (Up => b = ledLb.brightness)

\* Each part of the light bar's state is as it should be, or the message for it
\* is still to come, or the last one was lost.
PowerRight ==
  Up => chipLb.powered \/ "power" \in lostLb \/ todoLb["driver"] = OnAndState(productLb)
OnRight ==
  Up => chipLb.on \/ "mono" \in lostLb \/ todoLb["driver"] # << >>
ColourRight ==
  Up /\ ~staleLb =>
    \/ chipLb.colour = ledLb.colour
    \/ "colour" \in lostLb
    \/ \E c, b : todoLb["store"] = Both(c, b) \/ todoLb["driver"] = Both(c, b)
    \/ todoLb["driver"] \in {OnAndState(productLb), OnlyState}
BrightnessRight ==
  Up /\ ~staleLb =>
    \/ chipLb.brightness = ledLb.brightness
    \/ "mono" \in lostLb
    \/ todoLb["store"] # << >> \/ todoLb["driver"] # << >>

\* Asleep or removed: one that may ignore the last two messages is black before
\* they come, the others take them.
DarkInv ==
  powerLb \in {"asleep", "removed"} =>
    /\ productLb = "0x6010"
         /\ todoLb["driver"] \in {<< >>, LastOne(productLb), LastTwo(productLb)} =>
           chipLb.brightness = 0 \/ "mono" \in lostLb
    /\ productLb # "0x6010" /\ todoLb["driver"] \in {<< >>, LastOne(productLb)} =>
         ~chipLb.on \/ "off" \in lostLb
    /\ productLb # "0x6010" /\ todoLb["driver"] = << >> =>
         ~chipLb.powered \/ "power" \in lostLb

LbInv ==
  /\ LbTypes /\ DriverSends /\ StoreSends
  /\ PowerRight /\ OnRight /\ ColourRight /\ BrightnessRight /\ DarkInv

\* Two messages after two.
LEMMA JoinTwo ==
  ASSUME NEW a, NEW b, NEW c, NEW d
  PROVE  <<a, b>> \o <<c, d>> = <<a, b, c, d>>
<1> DEFINE S == {a, b, c, d}
<1>1. <<a, b>> \in Seq(S) /\ <<c, d>> \in Seq(S) /\ <<a, b, c, d>> \in Seq(S)
  OBVIOUS
<1> HIDE DEF S
<1>2. <<a, b>> \o <<c, d>> \in Seq(S) /\ Len(<<a, b>> \o <<c, d>>) = Len(<<a, b, c, d>>)
  BY <1>1
<1>3. \A i \in 1 .. Len(<<a, b>> \o <<c, d>>) : (<<a, b>> \o <<c, d>>)[i] = <<a, b, c, d>>[i]
  BY <1>1
<1> QED
  BY ONLY <1>1, <1>2, <1>3, SeqEqual

\* One message after another.
LEMMA JoinOne ==
  ASSUME NEW a, NEW b
  PROVE  <<a>> \o <<b>> = <<a, b>>
<1> DEFINE S == {a, b}
<1>1. <<a>> \in Seq(S) /\ <<b>> \in Seq(S) /\ <<a, b>> \in Seq(S)
  OBVIOUS
<1> HIDE DEF S
<1>2. <<a>> \o <<b>> \in Seq(S) /\ Len(<<a>> \o <<b>>) = Len(<<a, b>>)
  BY <1>1
<1>3. \A i \in 1 .. Len(<<a>> \o <<b>>) : (<<a>> \o <<b>>)[i] = <<a, b>>[i]
  BY <1>1
<1> QED
  BY ONLY <1>1, <1>2, <1>3, SeqEqual

\* The messages the driver puts together.
LEMMA Messages ==
  /\ WriteOnAndState = OnAndState(productLb)
  /\ \A led : ite8291_write_state(led) = Both(led.colour, led.brightness)
  /\ ite8291_write_off \in {LastTwo(productLb), LastFour(productLb)}
  /\ productLb = "0x6010" => ite8291_write_off = LastFour(productLb)
<1>1. WriteOnAndState = OnAndState(productLb)
  BY JoinOne DEF WriteOnAndState, ite8291_write_on, OnAndState, Power, State
<1>2. \A c, b : Mono(c, b) = Both(c, b)
  BY DEF Mono, Both, Colour, Effect
<1>3. << >> \o LastTwo(productLb) = LastTwo(productLb)
  <2>1. LastTwo(productLb) \in Seq({Off(productLb), Power(productLb, FALSE)})
    BY DEF LastTwo
  <2> QED
    BY ONLY <2>1, ConcatEmptySeq
<1>4. Both("black", 0) \o LastTwo(productLb) = LastFour(productLb)
  BY JoinTwo DEF Both, LastTwo, LastFour
<1>5. ite8291_write_off = (IF productLb = "0x6010" THEN Mono("black", 0) ELSE << >>) \o LastTwo(productLb)
  BY DEF ite8291_write_off, Off, Power, LastTwo
<1> QED
  BY <1>1, <1>2, <1>3, <1>4, <1>5 DEF ite8291_write_state

\* What the messages say.
LEMMA Ops ==
  /\ \A c : Colour(c).op = "colour" /\ Colour(c).arg = c
  /\ \A b : Effect(b).op = "mono" /\ Effect(b).arg = b
  /\ \A p, on : Power(p, on).op = "power" /\ Power(p, on).to = on
  /\ \A p : Power(p, TRUE).op = "power" /\ Power(p, FALSE).op = "power"
  /\ \A p : Off(p).op = "off"
  /\ State.op = "state"
BY DEF Colour, Effect, Power, Off, State

\* The first message of each queue, and what is left after it.
LEMMA FirstMessages ==
  \A p, c, b :
    /\ Len(<< >>) = 0
    /\ Head(OnAndState(p)) = Power(p, TRUE) /\ Tail(OnAndState(p)) = OnlyState /\ Len(OnAndState(p)) = 2
    /\ Head(OnlyState) = State /\ Len(OnlyState) = 1
    /\ Head(Both(c, b)) = Colour(c) /\ Tail(Both(c, b)) = OnlyEffect(b) /\ Len(Both(c, b)) = 2
    /\ Head(OnlyEffect(b)) = Effect(b) /\ Tail(OnlyEffect(b)) = << >> /\ Len(OnlyEffect(b)) = 1
    /\ Head(LastOne(p)) = Power(p, FALSE) /\ Tail(LastOne(p)) = << >> /\ Len(LastOne(p)) = 1
    /\ Head(LastTwo(p)) = Off(p) /\ Tail(LastTwo(p)) = LastOne(p) /\ Len(LastTwo(p)) = 2
    /\ Head(LastThree(p)) = Effect(0) /\ Tail(LastThree(p)) = LastTwo(p) /\ Len(LastThree(p)) = 3
    /\ Head(LastFour(p)) = Colour("black") /\ Tail(LastFour(p)) = LastThree(p) /\ Len(LastFour(p)) = 4
<1> TAKE p, c, b
<1> DEFINE m1 == Colour("black")
           m2 == Effect(0)
           m3 == Off(p)
           m4 == Power(p, FALSE)
           m5 == Power(p, TRUE)
           m6 == State
           m7 == Colour(c)
           m8 == Effect(b)
<1> HIDE DEF m1, m2, m3, m4, m5, m6, m7, m8
<1>1. Head(<<m4>>) = m4 /\ Tail(<<m4>>) = << >> /\ Len(<<m4>>) = 1 /\ Len(<< >>) = 0
  OBVIOUS
<1>2. Head(<<m3, m4>>) = m3 /\ Tail(<<m3, m4>>) = <<m4>> /\ Len(<<m3, m4>>) = 2
  OBVIOUS
<1>3. Head(<<m2, m3, m4>>) = m2 /\ Tail(<<m2, m3, m4>>) = <<m3, m4>> /\ Len(<<m2, m3, m4>>) = 3
  OBVIOUS
<1>4. /\ Head(<<m1, m2, m3, m4>>) = m1 /\ Tail(<<m1, m2, m3, m4>>) = <<m2, m3, m4>>
      /\ Len(<<m1, m2, m3, m4>>) = 4
  OBVIOUS
<1>5. Head(<<m5, m6>>) = m5 /\ Tail(<<m5, m6>>) = <<m6>> /\ Len(<<m5, m6>>) = 2
  OBVIOUS
<1>6. Head(<<m6>>) = m6 /\ Len(<<m6>>) = 1
  OBVIOUS
<1>7. Head(<<m7, m8>>) = m7 /\ Tail(<<m7, m8>>) = <<m8>> /\ Len(<<m7, m8>>) = 2
  OBVIOUS
<1>8. Head(<<m8>>) = m8 /\ Tail(<<m8>>) = << >> /\ Len(<<m8>>) = 1
  OBVIOUS
<1> QED
  BY <1>1, <1>2, <1>3, <1>4, <1>5, <1>6, <1>7, <1>8
     DEF m1, m2, m3, m4, m5, m6, m7, m8, OnAndState, OnlyState, Both, OnlyEffect,
         LastOne, LastTwo, LastThree, LastFour

\* What the first message of each queue says.
LEMMA FirstOps ==
  \A p, c, b :
    /\ Head(OnAndState(p)).op = "power" /\ Head(OnlyState).op = "state"
    /\ Head(Both(c, b)).op = "colour" /\ Head(Both(c, b)).arg = c
    /\ Head(OnlyEffect(b)).op = "mono" /\ Head(OnlyEffect(b)).arg = b
    /\ Head(LastOne(p)).op = "power" /\ Head(LastTwo(p)).op = "off"
    /\ Head(LastThree(p)).op = "mono" /\ Head(LastFour(p)).op = "colour"
<1> TAKE p, c, b
<1>1. Head(OnAndState(p)).op = "power" /\ Head(LastOne(p)).op = "power"
  <2>1. Head(OnAndState(p)) = Power(p, TRUE) /\ Head(LastOne(p)) = Power(p, FALSE)
    BY ONLY FirstMessages
  <2> QED  BY ONLY <2>1, Ops, Zenon
<1>2. Head(OnlyState).op = "state" /\ Head(LastTwo(p)).op = "off"
  <2>1. Head(OnlyState) = State /\ Head(LastTwo(p)) = Off(p)
    BY ONLY FirstMessages
  <2> QED  BY ONLY <2>1, Ops, Zenon
<1>3. Head(Both(c, b)).op = "colour" /\ Head(Both(c, b)).arg = c /\ Head(LastFour(p)).op = "colour"
  <2>1. Head(Both(c, b)) = Colour(c) /\ Head(LastFour(p)) = Colour("black")
    BY ONLY FirstMessages
  <2> QED  BY ONLY <2>1, Ops, Zenon
<1>4. Head(OnlyEffect(b)).op = "mono" /\ Head(OnlyEffect(b)).arg = b /\ Head(LastThree(p)).op = "mono"
  <2>1. Head(OnlyEffect(b)) = Effect(b) /\ Head(LastThree(p)) = Effect(0)
    BY ONLY FirstMessages
  <2> QED  BY ONLY <2>1, Ops, Zenon
<1> QED
  BY ONLY <1>1, <1>2, <1>3, <1>4

LEMMA Kinds ==
  \A p, c, b :
    /\ << >> \notin {OnAndState(p), OnlyState, Both(c, b), OnlyEffect(b),
                     LastOne(p), LastTwo(p), LastThree(p), LastFour(p)}
    /\ OnAndState(p) # OnlyState
    /\ \A d, e : /\ Both(c, b) \notin {OnAndState(p), OnlyState, OnlyEffect(e)}
                 /\ Both(c, b) = Both(d, e) => c = d /\ b = e
                 /\ OnlyEffect(b) \notin {OnAndState(p), OnlyState}
                 /\ OnlyEffect(b) = OnlyEffect(e) => b = e
    /\ LastOne(p) # LastTwo(p)
    /\ LastThree(p) \notin {LastOne(p), LastTwo(p)} /\ LastFour(p) \notin {LastOne(p), LastTwo(p)}
<1> TAKE p, c, b
<1>1. << >> \notin {OnAndState(p), OnlyState, Both(c, b), OnlyEffect(b),
                    LastOne(p), LastTwo(p), LastThree(p), LastFour(p)}
  BY ONLY FirstMessages
<1>2. OnAndState(p) # OnlyState
  BY ONLY FirstMessages
<1>3. ASSUME NEW d, NEW e
      PROVE  /\ Both(c, b) \notin {OnAndState(p), OnlyState, OnlyEffect(e)}
             /\ Both(c, b) = Both(d, e) => c = d /\ b = e
             /\ OnlyEffect(b) \notin {OnAndState(p), OnlyState}
             /\ OnlyEffect(b) = OnlyEffect(e) => b = e
  <2>1. /\ Head(Both(c, b)).op = "colour" /\ Head(Both(c, b)).arg = c /\ Head(Both(d, e)).arg = d
        /\ Head(OnlyEffect(b)).op = "mono" /\ Head(OnlyEffect(b)).arg = b /\ Head(OnlyEffect(e)).arg = e
        /\ Head(OnAndState(p)).op = "power" /\ Head(OnlyState).op = "state" /\ Head(OnlyEffect(e)).op = "mono"
    BY ONLY FirstOps
  <2>2. Tail(Both(c, b)) = OnlyEffect(b) /\ Tail(Both(d, e)) = OnlyEffect(e)
    BY ONLY FirstMessages
  <2> QED
    BY ONLY <2>1, <2>2
<1>4. /\ LastOne(p) # LastTwo(p)
      /\ LastThree(p) \notin {LastOne(p), LastTwo(p)} /\ LastFour(p) \notin {LastOne(p), LastTwo(p)}
  BY ONLY FirstMessages
<1> QED
  BY <1>1, <1>2, <1>3, <1>4

LEMMA EffectIsAlone == \A b, c, d : OnlyEffect(b) # Both(c, d)
<1> TAKE b, c, d
<1>1. Head(OnlyEffect(b)).op = "mono" /\ Head(Both(c, d)).op = "colour"
  BY ONLY FirstOps
<1> QED
  BY ONLY <1>1

\* The probe has its messages still to send.
LEMMA LbInit == InitLb => LbInv
<1> SUFFICES ASSUME InitLb PROVE LbInv
  OBVIOUS
<1>1. /\ powerLb = "probing" /\ todoLb["driver"] = OnAndState(productLb) /\ todoLb["store"] = << >>
  BY Messages DEF InitLb, SendersLb
<1>2. LbTypes
  BY DEF InitLb, LbTypes, SendersLb
<1>3. DriverSends /\ StoreSends
  BY <1>1 DEF DriverSends, StoreSends
<1>4. PowerRight /\ OnRight /\ ColourRight /\ BrightnessRight
  BY <1>1, Kinds DEF PowerRight, OnRight, ColourRight, BrightnessRight
<1>5. DarkInv
  BY <1>1 DEF DarkInv
<1> QED
  BY <1>2, <1>3, <1>4, <1>5 DEF LbInv

\* What a message does when it is sent: it reaches the light bar, or is lost, or
\* is ignored where that may happen; of nothing else anything changes.
OthersLost(op) == \A x : x # op => (x \in lostLb' <=> x \in lostLb)

SentColour(c) ==
  /\ chipLb'.colour = c \/ "colour" \in lostLb'
  /\ chipLb'.powered = chipLb.powered /\ chipLb'.on = chipLb.on /\ chipLb'.brightness = chipLb.brightness
  /\ OthersLost("colour")

SentEffect(b) ==
  /\ (chipLb'.on /\ chipLb'.brightness = b) \/ "mono" \in lostLb'
  /\ chipLb'.powered = chipLb.powered /\ chipLb'.colour = chipLb.colour
  /\ OthersLost("mono")

SentPower(p, on) ==
  /\ chipLb'.powered = on \/ "power" \in lostLb' \/ (~on /\ p = "0x6010")
  /\ chipLb'.on = chipLb.on /\ chipLb'.colour = chipLb.colour /\ chipLb'.brightness = chipLb.brightness
  /\ OthersLost("power")

SentOff(p) ==
  /\ ~chipLb'.on \/ "off" \in lostLb' \/ p = "0x6010"
  /\ chipLb'.powered = chipLb.powered /\ chipLb'.colour = chipLb.colour
  /\ chipLb'.brightness = chipLb.brightness
  /\ OthersLost("off")

\* A message is sent.
LEMMA Sends ==
  ASSUME LbInv, NEW s \in SendersLb, SendLb(s)
  PROVE  /\ todoLb[s] # << >> /\ Head(todoLb[s]).op # "state"
         /\ todoLb'[s] = Tail(todoLb[s]) /\ \A o \in SendersLb : o # s => todoLb'[o] = todoLb[o]
         /\ powerLb' = IF s = "driver" /\ Len(todoLb[s]) = 1 THEN FinishedLb ELSE powerLb
         /\ UNCHANGED <<productLb, ledLb, staleLb>>
         /\ \A c : Head(todoLb[s]) = Colour(c) => SentColour(c)
         /\ \A b : Head(todoLb[s]) = Effect(b) => SentEffect(b)
         /\ \A p, on : on \in BOOLEAN /\ p = productLb /\ Head(todoLb[s]) = Power(p, on) => SentPower(p, on)
         /\ \A p : p = productLb /\ Head(todoLb[s]) = Off(p) => SentOff(p)
         /\ LbTypes'
<1> DEFINE m == Head(todoLb[s])
<1>1. /\ todoLb[s] # << >> /\ m.op # "state" /\ todoLb' = [todoLb EXCEPT ![s] = Tail(@)]
      /\ powerLb' = IF s = "driver" /\ Len(todoLb[s]) = 1 THEN FinishedLb ELSE powerLb
      /\ UNCHANGED <<productLb, ledLb, staleLb>>
      /\ \/ chipLb' \in ReceivedLb(m) /\ lostLb' = lostLb \ {m.op}
         \/ lostLb' = lostLb \cup {m.op} /\ chipLb' = chipLb
  BY DEF SendLb, IdleLb
<1>0. m.op \in {"colour", "mono", "power", "off"}
  <2>1. CASE s = "driver"
    <3>1. m.op \in {"colour", "mono", "power", "off", "state"}
      BY <1>1, <2>1, FirstOps DEF LbInv, LbTypes, DriverSends
    <3> QED
      BY <1>1, <3>1
  <2>2. CASE s = "store"
    BY <1>1, <2>2, FirstOps DEF LbInv, StoreSends
  <2> QED
    BY <2>1, <2>2 DEF SendersLb
<1> HIDE DEF m
<1> USE DEF LbInv
<1>2. todoLb'[s] = Tail(todoLb[s]) /\ \A o \in SendersLb : o # s => todoLb'[o] = todoLb[o]
  BY <1>1 DEF LbTypes
<1>3. OthersLost(m.op)
  BY <1>1 DEF OthersLost
<1>4. m.op = "colour" => chipLb' = [chipLb EXCEPT !.colour = m.arg] \/ (chipLb' = chipLb /\ m.op \in lostLb')
  BY <1>1 DEF ReceivedLb
<1>5. m.op = "mono" => \/ chipLb' = [[chipLb EXCEPT !.on = TRUE] EXCEPT !.brightness = m.arg]
                       \/ chipLb' = chipLb /\ m.op \in lostLb'
  BY <1>1 DEF ReceivedLb
<1>6. m.op = "power" => \/ chipLb' = [chipLb EXCEPT !.powered = m.to]
                        \/ chipLb' = chipLb /\ (m.op \in lostLb' \/ (~m.to /\ productLb = "0x6010"))
  BY <1>1 DEF ReceivedLb
<1>7. m.op = "off" => \/ chipLb' = [chipLb EXCEPT !.on = FALSE]
                      \/ chipLb' = chipLb /\ (m.op \in lostLb' \/ productLb = "0x6010")
  BY <1>1 DEF ReceivedLb
<1>8. \A c : m = Colour(c) => SentColour(c)
  BY <1>3, <1>4, Ops DEF SentColour, LbTypes
<1>9. ASSUME NEW b, m = Effect(b) PROVE SentEffect(b)
  <2>1. m.op = "mono" /\ m.arg = b
    BY <1>9, Ops
  <2>2. PICK lit : lit = [chipLb EXCEPT !.on = TRUE]
    OBVIOUS
  <2>3. /\ DOMAIN lit = {"powered", "on", "colour", "brightness"}
        /\ lit.on /\ lit.powered = chipLb.powered /\ lit.colour = chipLb.colour
    BY <2>2 DEF LbTypes
  <2>4. chipLb' = [lit EXCEPT !.brightness = b] \/ (chipLb' = chipLb /\ "mono" \in lostLb')
    BY <1>5, <2>1, <2>2
  <2>5. chipLb' = [lit EXCEPT !.brightness = b] =>
          /\ chipLb'.on /\ chipLb'.brightness = b
          /\ chipLb'.powered = chipLb.powered /\ chipLb'.colour = chipLb.colour
    BY <2>3
  <2> QED
    BY <1>3, <2>1, <2>4, <2>5 DEF SentEffect
<1>10. \A p, on : on \in BOOLEAN /\ p = productLb /\ m = Power(p, on) => SentPower(p, on)
  BY <1>3, <1>6, Ops DEF SentPower, LbTypes
<1>11. \A p : p = productLb /\ m = Off(p) => SentOff(p)
  BY <1>3, <1>7, Ops DEF SentOff, LbTypes
<1>12. LbTypes'
  <2>1. \/ chipLb' = chipLb \/ \E x : chipLb' = [chipLb EXCEPT !.colour = x]
        \/ \E x : chipLb' = [[chipLb EXCEPT !.on = TRUE] EXCEPT !.brightness = x]
        \/ \E x : chipLb' = [chipLb EXCEPT !.powered = x] \/ chipLb' = [chipLb EXCEPT !.on = x]
    BY <1>0, <1>4, <1>5, <1>6, <1>7
  <2>2. /\ DOMAIN chipLb' = {"powered", "on", "colour", "brightness"}
        /\ chipLb' = [x \in DOMAIN chipLb' |-> chipLb'[x]]
    BY <2>1 DEF LbTypes
  <2>3. DOMAIN todoLb' = SendersLb /\ todoLb' = [o \in DOMAIN todoLb' |-> todoLb'[o]]
    BY <1>1 DEF LbTypes
  <2>4. powerLb' \in {"probing", "awake", "asleep", "resuming", "removing", "removed"}
    BY <1>1 DEF LbTypes, FinishedLb
  <2> QED
    BY <1>1, <2>2, <2>3, <2>4 DEF LbTypes
<1> QED
  BY <1>1, <1>2, <1>8, <1>9, <1>10, <1>11, <1>12 DEF m

\* The driver sends a message.
LEMMA DriverSendKeeps ==
  ASSUME LbInv, SendLb("driver")
  PROVE  LbInv'
<1> DEFINE q == todoLb["driver"]
<1>1. /\ q # << >> /\ Head(q).op # "state" /\ todoLb'["driver"] = Tail(q) /\ todoLb'["store"] = todoLb["store"]
      /\ powerLb' = IF Len(q) = 1 THEN FinishedLb ELSE powerLb
      /\ UNCHANGED <<productLb, ledLb, staleLb>>
      /\ \A c : Head(q) = Colour(c) => SentColour(c)
      /\ \A b : Head(q) = Effect(b) => SentEffect(b)
      /\ \A p, on : on \in BOOLEAN /\ p = productLb /\ Head(q) = Power(p, on) => SentPower(p, on)
      /\ \A p : p = productLb /\ Head(q) = Off(p) => SentOff(p)
      /\ LbTypes'
  BY Sends DEF SendersLb
<1>2. powerLb' = powerLb \/ (powerLb \in {"probing", "resuming"} /\ powerLb' = "awake")
  BY <1>1 DEF FinishedLb
<1> HIDE DEF q
<1>3. StoreSends' /\ (Up' <=> Up)
  <2>1. powerLb' \in {"asleep", "resuming", "removed"} => powerLb' = powerLb
    BY <1>2
  <2>2. Up' <=> Up
    BY <1>2 DEF Up
  <2> QED
    BY <1>1, <2>1, <2>2 DEF LbInv, StoreSends
<1>4. CASE powerLb \in {"probing", "resuming"} /\ q = OnAndState(productLb)
  <2>1. todoLb'["driver"] = OnlyState /\ SentPower(productLb, TRUE) /\ powerLb' = powerLb
    <3>1. Head(q) = Power(productLb, TRUE) /\ Tail(q) = OnlyState /\ Len(q) = 2
      BY <1>4, FirstMessages
    <3>2. todoLb'["driver"] = OnlyState /\ powerLb' = powerLb
      BY <1>1, <3>1
    <3>3. SentPower(productLb, TRUE)
      BY <1>1, <3>1, Zenon
    <3> QED
      BY <3>2, <3>3
  <2>2. DriverSends' /\ DarkInv'
    BY <1>4, <2>1 DEF DriverSends, DarkInv
  <2>3. PowerRight'
    BY <2>1 DEF PowerRight, SentPower
  <2>4. OnRight'
    BY <2>1, Kinds DEF OnRight
  <2>5. ColourRight' /\ BrightnessRight'
    BY <2>1, Kinds DEF ColourRight, BrightnessRight
  <2> QED
    BY <1>1, <1>3, <2>2, <2>3, <2>4, <2>5 DEF LbInv
<1>5. ASSUME powerLb \in {"probing", "resuming"}, NEW c, NEW b, q = Both(c, b),
             ~staleLb => c = ledLb.colour /\ b = ledLb.brightness
      PROVE  LbInv'
  <2>1. todoLb'["driver"] = OnlyEffect(b) /\ SentColour(c) /\ powerLb' = powerLb
    BY <1>1, <1>5, FirstMessages
  <2>2. DriverSends' /\ DarkInv'
    BY <1>1, <1>5, <2>1 DEF DriverSends, DarkInv
  <2>3. PowerRight'
    BY <1>1, <1>5, <2>1, Kinds DEF LbInv, Up, PowerRight, SentColour, OthersLost, q
  <2>4. OnRight'
    BY <2>1, Kinds DEF OnRight
  <2>5. ColourRight' /\ BrightnessRight'
    BY <1>1, <1>5, <2>1, Kinds DEF ColourRight, BrightnessRight, SentColour
  <2> QED
    BY <1>1, <1>3, <2>2, <2>3, <2>4, <2>5 DEF LbInv
<1>6. ASSUME powerLb \in {"probing", "resuming"}, NEW b, q = OnlyEffect(b),
             ~staleLb => b = ledLb.brightness
      PROVE  LbInv'
  <2>1. todoLb'["driver"] = << >> /\ SentEffect(b) /\ powerLb' = "awake"
    BY <1>1, <1>6, FirstMessages DEF FinishedLb
  <2>2. DriverSends' /\ DarkInv'
    BY <2>1 DEF DriverSends, DarkInv
  <2>3. PowerRight'
    <3>1. q # OnAndState(productLb)
      BY <1>6, Kinds
    <3>2. "power" \in lostLb' <=> "power" \in lostLb
      BY <2>1 DEF SentEffect, OthersLost
    <3> QED
      BY <1>1, <1>3, <2>1, <3>1, <3>2 DEF LbInv, PowerRight, SentEffect, q
  <2>4. OnRight'
    BY <2>1 DEF OnRight, SentEffect
  <2>5. ColourRight'
    <3>1. q \notin {OnAndState(productLb), OnlyState}
      BY <1>6, Kinds
    <3>2. \A c, d : q # Both(c, d)
      BY ONLY <1>6, EffectIsAlone
    <3>3. "colour" \in lostLb' <=> "colour" \in lostLb
      BY <2>1 DEF SentEffect, OthersLost
    <3> QED
      BY <1>1, <1>3, <2>1, <3>1, <3>2, <3>3 DEF LbInv, ColourRight, SentEffect, q
  <2>6. BrightnessRight'
    BY <1>1, <1>6, <2>1 DEF BrightnessRight, SentEffect
  <2> QED
    BY <1>1, <1>3, <2>2, <2>3, <2>4, <2>5, <2>6 DEF LbInv
<1>7. CASE powerLb = "removing"
  <2>1. powerLb' = "removing"
    BY <1>1, <1>7 DEF FinishedLb
  <2>2. DriverSends'
    BY <1>1, <1>7, <2>1, FirstMessages DEF LbInv, DriverSends, q
  <2>3. ~Up'
    BY <2>1 DEF Up
  <2> QED
    BY <1>1, <1>3, <2>1, <2>2, <2>3
       DEF LbInv, PowerRight, OnRight, ColourRight, BrightnessRight, DarkInv
<1>8. CASE powerLb \in {"asleep", "removed"}
  <2>1. powerLb' = powerLb /\ ~Up'
    BY <1>1, <1>8 DEF FinishedLb, Up
  <2>2. PowerRight' /\ OnRight' /\ ColourRight' /\ BrightnessRight'
    BY <2>1 DEF PowerRight, OnRight, ColourRight, BrightnessRight
  <2>3. CASE q = LastOne(productLb)
    <3>1. todoLb'["driver"] = << >> /\ SentPower(productLb, FALSE)
      BY <1>1, <2>3, FirstMessages
    <3>2. DriverSends'
      BY <1>8, <2>1, <3>1 DEF DriverSends
    <3>3. DarkInv'
      BY <1>1, <1>8, <2>1, <2>3, <3>1 DEF LbInv, DarkInv, SentPower, OthersLost, q
    <3> QED
      BY <1>1, <1>3, <2>2, <3>2, <3>3 DEF LbInv
  <2>4. CASE q = LastTwo(productLb)
    <3>1. todoLb'["driver"] = LastOne(productLb) /\ SentOff(productLb)
      BY <1>1, <2>4, FirstMessages
    <3>2. DriverSends'
      BY <1>1, <1>8, <2>1, <3>1 DEF DriverSends
    <3>3. DarkInv'
      BY <1>1, <1>8, <2>1, <2>4, <3>1, Kinds DEF LbInv, DarkInv, SentOff, OthersLost, q
    <3> QED
      BY <1>1, <1>3, <2>2, <3>2, <3>3 DEF LbInv
  <2>5. CASE q = LastThree(productLb)
    <3>1. todoLb'["driver"] = LastTwo(productLb) /\ SentEffect(0)
      BY <1>1, <2>5, FirstMessages
    <3>2. DriverSends'
      BY <1>1, <1>8, <2>1, <3>1 DEF DriverSends
    <3>3. DarkInv'
      BY <1>1, <2>1, <3>1, Kinds DEF DarkInv, SentEffect
    <3> QED
      BY <1>1, <1>3, <2>2, <3>2, <3>3 DEF LbInv
  <2>6. CASE q = LastFour(productLb)
    <3>1. todoLb'["driver"] = LastThree(productLb)
      BY <1>1, <2>6, FirstMessages
    <3>2. DriverSends'
      BY <1>1, <1>8, <2>1, <3>1 DEF DriverSends
    <3>3. DarkInv'
      BY <1>1, <3>1, Kinds DEF DarkInv
    <3> QED
      BY <1>1, <1>3, <2>2, <3>2, <3>3 DEF LbInv
  <2> QED
    BY <1>1, <1>8, <2>3, <2>4, <2>5, <2>6 DEF LbInv, DriverSends, q
<1>9. powerLb # "awake"
  BY <1>1 DEF LbInv, DriverSends, q
<1>10. powerLb \in {"probing", "resuming"} => q # OnlyState
  BY <1>1, FirstOps
<1> QED
  BY <1>4, <1>5, <1>6, <1>7, <1>8, <1>9, <1>10 DEF LbInv, LbTypes, DriverSends, q

\* A store sends a message.
LEMMA StoreSendKeeps ==
  ASSUME LbInv, SendLb("store")
  PROVE  LbInv'
<1> DEFINE q == todoLb["store"]
<1>1. /\ q # << >> /\ todoLb'["store"] = Tail(q) /\ todoLb'["driver"] = todoLb["driver"]
      /\ UNCHANGED <<productLb, ledLb, staleLb, powerLb>>
      /\ \A c : Head(q) = Colour(c) => SentColour(c)
      /\ \A b : Head(q) = Effect(b) => SentEffect(b)
      /\ LbTypes'
  BY Sends DEF SendersLb
<1> HIDE DEF q
<1>2. powerLb \notin {"asleep", "resuming", "removed"}
  BY <1>1 DEF LbInv, StoreSends, q
<1>3. DriverSends' /\ DarkInv' /\ (Up' <=> Up)
  BY <1>1, <1>2 DEF LbInv, DriverSends, DarkInv, Up
<1>4. ASSUME NEW c, NEW b, q = Both(c, b), Up => c = ledLb.colour /\ b = ledLb.brightness
      PROVE  LbInv'
  <2>1. todoLb'["store"] = OnlyEffect(b) /\ SentColour(c)
    BY <1>1, <1>4, FirstMessages
  <2>2. StoreSends'
    BY <1>1, <1>2, <1>3, <1>4, <2>1 DEF StoreSends
  <2>3. PowerRight' /\ OnRight'
    BY <1>1, <1>3, <2>1 DEF LbInv, PowerRight, OnRight, SentColour, OthersLost
  <2>4. ColourRight'
    BY <1>1, <1>3, <1>4, <2>1 DEF ColourRight, SentColour
  <2>5. BrightnessRight'
    BY <2>1, Kinds DEF BrightnessRight
  <2> QED
    BY <1>1, <1>3, <2>2, <2>3, <2>4, <2>5 DEF LbInv
<1>5. ASSUME NEW b, q = OnlyEffect(b), Up => b = ledLb.brightness PROVE LbInv'
  <2>1. todoLb'["store"] = << >> /\ SentEffect(b)
    BY <1>1, <1>5, FirstMessages
  <2>2. StoreSends'
    BY <2>1 DEF StoreSends
  <2>3. PowerRight'
    BY <1>1, <1>3, <2>1 DEF LbInv, PowerRight, SentEffect, OthersLost
  <2>4. OnRight'
    BY <2>1 DEF OnRight, SentEffect
  <2>5. ColourRight'
    <3>1. \A c, d : q # Both(c, d)
      BY ONLY <1>5, EffectIsAlone
    <3>2. "colour" \in lostLb' <=> "colour" \in lostLb
      BY <2>1 DEF SentEffect, OthersLost
    <3> QED
      BY <1>1, <1>3, <2>1, <3>1, <3>2 DEF LbInv, ColourRight, SentEffect, q
  <2>6. BrightnessRight'
    BY <1>1, <1>3, <1>5, <2>1 DEF BrightnessRight, SentEffect
  <2> QED
    BY <1>1, <1>3, <2>2, <2>3, <2>4, <2>5, <2>6 DEF LbInv
<1> QED
  BY <1>1, <1>4, <1>5 DEF LbInv, StoreSends, q

\* Probe and resume read the LED.
LEMMA ReadKeepsLb ==
  ASSUME LbInv, ReadStateLb
  PROVE  LbInv'
<1>1. /\ todoLb["driver"] # << >> /\ Head(todoLb["driver"]).op = "state"
      /\ todoLb' = [todoLb EXCEPT !["driver"] = Both(ledLb.colour, ledLb.brightness)]
      /\ UNCHANGED <<productLb, ledLb, chipLb, powerLb, lostLb, staleLb>>
  BY Messages DEF ReadStateLb, IdleLb
<1>2. /\ todoLb'["driver"] = Both(ledLb.colour, ledLb.brightness) /\ todoLb'["store"] = todoLb["store"]
      /\ LbTypes'
  BY <1>1 DEF LbInv, LbTypes, SendersLb
<1>3. powerLb \in {"probing", "resuming"}
  BY <1>1, FirstOps DEF LbInv, LbTypes, DriverSends
<1>4. todoLb["driver"] = OnlyState
  BY <1>1, <1>3, FirstOps DEF LbInv, DriverSends
<1>5. DriverSends' /\ DarkInv'
  BY <1>1, <1>2, <1>3 DEF DriverSends, DarkInv
<1>6. StoreSends'
  BY <1>1, <1>2 DEF LbInv, StoreSends, Up
<1>7. PowerRight'
  BY <1>1, <1>2, <1>4, Kinds DEF LbInv, PowerRight, Up
<1>8. OnRight' /\ ColourRight' /\ BrightnessRight'
  BY <1>2, Kinds DEF OnRight, ColourRight, BrightnessRight
<1> QED
  BY <1>2, <1>5, <1>6, <1>7, <1>8 DEF LbInv

\* A store changes the LED: it sends all of it.
LEMMA StoreKeepsLb ==
  ASSUME LbInv, StoreLb
  PROVE  LbInv'
<1>1. /\ powerLb \in {"probing", "awake", "removing"} /\ todoLb["store"] = << >>
      /\ \E x : ledLb' = [ledLb EXCEPT !.colour = x] \/ ledLb' = [ledLb EXCEPT !.brightness = x]
      /\ todoLb' = [todoLb EXCEPT !["store"] = Both(ledLb'.colour, ledLb'.brightness)]
      /\ staleLb' = StateReadLb /\ UNCHANGED <<productLb, chipLb, powerLb, lostLb>>
  BY Messages DEF StoreLb, IdleLb, ite8291_write_state, Mono, Both, Colour, Effect
<1>2. /\ todoLb'["store"] = Both(ledLb'.colour, ledLb'.brightness) /\ todoLb'["driver"] = todoLb["driver"]
      /\ LbTypes'
  BY <1>1 DEF LbInv, LbTypes, SendersLb
<1>3. ~staleLb' => /\ \A c, b : todoLb["driver"] # Both(c, b)
                   /\ \A b : todoLb["driver"] # OnlyEffect(b)
  <2>1. ~staleLb' => \/ todoLb["driver"] = << >>
                     \/ Head(todoLb["driver"]).op \notin {"colour", "mono"}
    BY <1>1 DEF StateReadLb, IdleLb
  <2>2. \A c, b : /\ << >> # Both(c, b) /\ << >> # OnlyEffect(b)
                  /\ Head(Both(c, b)).op = "colour" /\ Head(OnlyEffect(b)).op = "mono"
    BY ONLY FirstOps, Kinds
  <2> QED
    BY <2>1, <2>2
<1>4. DriverSends'
  BY <1>1, <1>2, <1>3 DEF LbInv, DriverSends
<1>5. StoreSends'
  BY <1>1, <1>2 DEF StoreSends
<1>6. PowerRight' /\ OnRight'
  BY <1>1, <1>2 DEF LbInv, PowerRight, OnRight, Up
<1>7. ColourRight' /\ BrightnessRight' /\ DarkInv'
  BY <1>1, <1>2, Kinds DEF ColourRight, BrightnessRight, DarkInv
<1> QED
  BY <1>2, <1>4, <1>5, <1>6, <1>7 DEF LbInv

\* The light bar is to be turned off, for sleep or in the end.
LEMMA TurnsOff ==
  ASSUME LbInv, SuspendLb \/ RemovedLb
  PROVE  LbInv'
<1>1. /\ todoLb["store"] = << >> /\ powerLb' \in {"asleep", "removed"}
      /\ todoLb' = [todoLb EXCEPT !["driver"] = ite8291_write_off]
      /\ UNCHANGED <<productLb, ledLb, chipLb, lostLb, staleLb>>
  BY DEF SuspendLb, RemovedLb, IdleLb, SendersLb
<1>2. /\ todoLb'["driver"] = ite8291_write_off /\ todoLb'["store"] = << >> /\ LbTypes'
  BY <1>1 DEF LbInv, LbTypes, SendersLb
<1>3. DriverSends' /\ StoreSends'
  BY <1>1, <1>2, Messages DEF DriverSends, StoreSends
<1>4. ~Up'
  BY <1>1 DEF Up
<1>5. DarkInv'
  BY <1>1, <1>2, Messages, Kinds DEF DarkInv
<1> QED
  BY <1>2, <1>3, <1>4, <1>5 DEF LbInv, PowerRight, OnRight, ColourRight, BrightnessRight

\* The machine wakes up; the light bar may have forgotten its state.
LEMMA WakesUp ==
  ASSUME LbInv, ResumeLb
  PROVE  LbInv'
<1>1. /\ powerLb = "asleep" /\ powerLb' = "resuming"
      /\ chipLb' \in {chipLb, [chipLb EXCEPT !.powered = FALSE, !.colour = "black", !.brightness = 0]}
      /\ todoLb' = [todoLb EXCEPT !["driver"] = OnAndState(productLb)]
      /\ UNCHANGED <<productLb, ledLb, lostLb>>
  BY Messages DEF ResumeLb
<1>2. todoLb["store"] = << >>
  BY <1>1 DEF LbInv, StoreSends
<1>3. /\ todoLb'["driver"] = OnAndState(productLb) /\ todoLb'["store"] = << >> /\ LbTypes'
  BY <1>1, <1>2 DEF LbInv, LbTypes, SendersLb
<1>4. DriverSends' /\ StoreSends' /\ DarkInv'
  BY <1>1, <1>3 DEF DriverSends, StoreSends, DarkInv
<1>5. PowerRight' /\ OnRight' /\ ColourRight' /\ BrightnessRight'
  BY <1>1, <1>3, Kinds DEF PowerRight, OnRight, ColourRight, BrightnessRight
<1> QED
  BY <1>3, <1>4, <1>5 DEF LbInv

\* The LED is unregistered.
LEMMA RemoveKeepsLb ==
  ASSUME LbInv, RemoveLb
  PROVE  LbInv'
<1>1. /\ powerLb = "awake" /\ powerLb' = "removing" /\ ledLb' = [ledLb EXCEPT !.brightness = 0]
      /\ todoLb' = [todoLb EXCEPT !["driver"] = Both(ledLb'.colour, ledLb'.brightness)]
      /\ UNCHANGED <<productLb, chipLb, lostLb, staleLb>>
  BY Messages DEF RemoveLb, ite8291_write_state, Mono, Both, Colour, Effect
<1>2. /\ todoLb'["driver"] = Both(ledLb'.colour, ledLb'.brightness) /\ todoLb'["store"] = todoLb["store"]
      /\ LbTypes'
  BY <1>1 DEF LbInv, LbTypes, SendersLb
<1>3. ~Up'
  BY <1>1 DEF Up
<1>4. DriverSends' /\ DarkInv'
  BY <1>1, <1>2 DEF DriverSends, DarkInv
<1>5. StoreSends'
  BY <1>1, <1>2, <1>3 DEF LbInv, StoreSends
<1> QED
  BY <1>2, <1>3, <1>4, <1>5 DEF LbInv, PowerRight, OnRight, ColourRight, BrightnessRight

\* For every order of stores, probe, sleeps, resumes and removal, whatever
\* message is lost, and however often a light bar that may ignore it ignores
\* that it is turned off: when nothing is being sent it shows what its LED
\* says, and is dark asleep and removed, up to what the last message of each
\* kind would have done if that was lost (ite8291_write_on, _off, _state and
\* the callbacks of ite_8291_lb.c).
THEOREM LightBarObeys == SpecLb => []LightBarShowsLed
<1>1. LbInv /\ [NextLb]_varsLb => LbInv'
  <2> SUFFICES ASSUME LbInv, [NextLb]_varsLb PROVE LbInv'
    OBVIOUS
  <2>1. CASE UNCHANGED varsLb
    BY <2>1 DEF varsLb, LbInv, LbTypes, DriverSends, StoreSends, Up, PowerRight, OnRight, ColourRight,
                BrightnessRight, DarkInv
  <2>2. CASE \E s \in SendersLb : SendLb(s)
    BY <2>2, DriverSendKeeps, StoreSendKeeps DEF SendersLb
  <2> QED
    BY <2>1, <2>2, ReadKeepsLb, StoreKeepsLb, TurnsOff, WakesUp, RemoveKeepsLb DEF NextLb
<1>2. LbInv => LightBarShowsLed
  <2> SUFFICES ASSUME LbInv, \A s \in SendersLb : IdleLb(s) PROVE LightBarShowsLed
    BY DEF LightBarShowsLed
  <2>1. todoLb["driver"] = << >> /\ todoLb["store"] = << >>
    BY DEF IdleLb, SendersLb
  <2>2. CASE powerLb = "awake"
    <3>1. Up
      BY <2>2 DEF Up
    <3>2. chipLb.powered \/ "power" \in lostLb
      BY <2>1, <3>1, Kinds DEF LbInv, PowerRight
    <3>3. chipLb.on \/ "mono" \in lostLb
      BY <2>1, <3>1 DEF LbInv, OnRight
    <3>4. ~staleLb => chipLb.colour = ledLb.colour \/ "colour" \in lostLb
      BY <2>1, <3>1, Kinds DEF LbInv, ColourRight
    <3>5. ~staleLb => chipLb.brightness = ledLb.brightness \/ "mono" \in lostLb
      BY <2>1, <3>1 DEF LbInv, BrightnessRight
    <3> QED
      BY <2>2, <3>2, <3>3, <3>4, <3>5 DEF LightBarShowsLed
  <2>3. CASE powerLb # "awake"
    BY <2>1, <2>3 DEF LbInv, DarkInv, LightBarShowsLed
  <2> QED
    BY <2>2, <2>3
<1> QED
  BY <1>1, <1>2, LbInit, PTL DEF SpecLb

---------------------------------------------------------------------------
(* ITE 829x                                                                *)

Spec829x == Init829x /\ [][Next829x]_vars829x

NrModes == MODE_MAP_LENGTH + MODE_EXTRAS_LENGTH
Levels == Levels829x \cup {0}

Messages829x ==
  [op : {"brightness"}, to : Levels] \cup [op : {"key"}, key : Keys829x]
  \cup [op : {"paint"}, key : Keys829x, to : STRING] \cup [op : {"animate"}]

\* A work that has started is not queued at the same time, unless a key came
\* before it read which key it is for; and a press is still owed its change of
\* mode as long as the work for it has not read it.
PressInv ==
  /\ key_work \in [pending : BOOLEAN, running : {"no", "started", "sending"}]
  /\ presses \in Nat /\ advances \in Nat /\ late \in BOOLEAN
  /\ ~late => /\ key_work.pending => key_work.running = "no"
              /\ advances + (IF (key_work.pending \/ key_work.running = "started") /\ last_key = "mode"
                             THEN 1 ELSE 0) <= presses

\* Each press of the mode key, each start of its work and each read of the key
\* keeps the account.
LEMMA PressStep == PressInv /\ [Next829x]_vars829x => PressInv'
<1> SUFFICES ASSUME PressInv, [Next829x]_vars829x PROVE PressInv'
  OBVIOUS
<1> USE DEF PressInv
<1>1. ASSUME NEW key \in {"mode", "other"}, KeyPressed(key) PROVE PressInv'
  <2>1. presses' \in Nat /\ presses' >= presses /\ (key = "mode" => presses' = presses + 1)
    BY <1>1 DEF KeyPressed, Press
  <2>2. CASE InputLocked
    <3>1. UNCHANGED <<last_key, key_work, late, advances>>
      BY <1>1, <2>2 DEF KeyPressed, Notified
    <3> QED  BY <2>1, <3>1
  <2>3. CASE ~InputLocked
    <3>1. /\ last_key' = key /\ key_work' = [key_work EXCEPT !.pending = TRUE]
          /\ late' = (late \/ key_work.running = "started") /\ advances' = advances
      BY <1>1, <2>3 DEF KeyPressed, Notified
    <3>2. CASE late \/ key_work.running = "started"
      BY <2>1, <3>1, <3>2
    <3>3. CASE ~late /\ key_work.running # "started"
      <4>1. key_work.running = "no"
        BY <2>3, <3>3 DEF InputLocked
      <4>2. advances <= presses
        BY <3>3
      <4>3. key_work' = [pending |-> TRUE, running |-> "no"] /\ late' = FALSE
        BY <3>1, <3>3, <4>1
      <4>4. advances + (IF key = "mode" THEN 1 ELSE 0) <= presses'
        BY <2>1, <4>2
      <4>5. key_work' \in [pending : BOOLEAN, running : {"no", "started", "sending"}] /\ late' \in BOOLEAN
        BY <4>3
      <4>6. key_work'.running = "no"
        BY <4>3
      <4> HIDE DEF PressInv
      <4>7. advances' \in Nat /\ presses' \in Nat
        BY <2>1, <3>1 DEF PressInv
      <4>8. advances' + (IF (key_work'.pending \/ key_work'.running = "started") /\ last_key' = "mode"
                        THEN 1 ELSE 0) <= presses'
        BY <2>1, <3>1, <4>2, <4>3, <4>4
      <4> QED  BY <4>5, <4>6, <4>7, <4>8 DEF PressInv
    <3> QED  BY <3>2, <3>3
  <2> QED  BY <2>2, <2>3
<1>2. CASE WorkStarts
  BY <1>2 DEF WorkStarts
<1>3. CASE KeyActions
  <2>1. UNCHANGED <<last_key, presses, late>> /\ key_work.running = "started"
    BY <1>3 DEF KeyActions
  <2>2. CASE last_key = "mode"
    <3>1. /\ advances' = advances + 1
          /\ key_work' = [key_work EXCEPT !.running = IF power829x = "removed" THEN "no" ELSE "sending"]
      BY <1>3, <2>2 DEF KeyActions
    <3> QED  BY <2>1, <2>2, <3>1
  <2>3. CASE last_key # "mode"
    <3>1. advances' = advances /\ key_work' = [key_work EXCEPT !.running = "no"]
      BY <1>3, <2>3 DEF KeyActions
    <3> QED  BY <2>1, <2>3, <3>1
  <2> QED  BY <2>2, <2>3
<1>4. ASSUME NEW s \in Senders829x, SendMessage829x(s) PROVE PressInv'
  <2>1. /\ UNCHANGED <<last_key, presses, advances, late>>
        /\ \/ key_work' = key_work
           \/ key_work' = [key_work EXCEPT !.running = "no"]
    BY <1>4 DEF SendMessage829x
  <2> QED  BY <2>1
<1>5. ASSUME UNCHANGED <<last_key, key_work, presses, advances, late>> PROVE PressInv'
  BY <1>5
<1>6. CASE \E p \in Programs829x, k \in Keys829x : StoreColour829x(p, k) \/ StoreLevel829x(p, k)
  BY <1>5, <1>6 DEF StoreColour829x, StoreLevel829x, SetLed829x
<1>7. CASE Suspend829x \/ Resume829x \/ Remove829x \/ UNCHANGED vars829x
  BY <1>5, <1>7 DEF Suspend829x, Resume829x, Remove829x, vars829x
<1> QED  BY <1>1, <1>2, <1>3, <1>4, <1>6, <1>7 DEF Next829x

\* For any keys, programs and number of presses: a press changes the mode at
\* most once, unless a key comes between the start of the work and its read.
THEOREM PressesCount == Spec829x => []OneAdvancePerPress
<1>1. Init829x => PressInv
  <2> SUFFICES ASSUME Init829x PROVE PressInv
    OBVIOUS
  <2>1. key_work = [pending |-> FALSE, running |-> "no"] /\ presses = 0 /\ advances = 0 /\ late = FALSE
    BY DEF Init829x
  <2>2. key_work \in [pending : BOOLEAN, running : {"no", "started", "sending"}] /\ late \in BOOLEAN
    BY <2>1
  <2>3. ~key_work.pending /\ key_work.running = "no" /\ presses \in Nat /\ advances \in Nat
    BY <2>1
  <2> QED  BY <2>1, <2>2, <2>3 DEF PressInv
<1>2. PressInv => OneAdvancePerPress
  BY DEF PressInv, OneAdvancePerPress
<1> QED  BY <1>1, <1>2, PressStep, PTL DEF Spec829x

\* Messages and values are what they should be.
KeyTypes ==
  /\ data829x \in [brightness : Levels, mode : 0 .. NrModes - 1, intensity : [Keys829x -> STRING]]
  /\ chip829x \in [brightness : Levels, animated : BOOLEAN, colours : [Keys829x -> STRING \cup {"unset"}]]
  /\ todo829x \in [Senders829x -> Seq(Messages829x)]
  /\ power829x \in {"awake", "asleep", "removed"}
  /\ disturbed829x \subseteq {"level", "keys"}
  /\ key_work \in [pending : BOOLEAN, running : {"no", "started", "sending"}]

\* The work sends while it holds the lock; only the work sends during sleep.
SendingInv ==
  /\ ~Idle829x("work") => InputLocked
  /\ power829x # "awake" => \A s \in Senders829x \ {"work"} : Idle829x(s)

OnlyOne == \A s, t \in Senders829x : Idle829x(s) \/ Idle829x(t) \/ s = t

\* A key has its LED's colour, or a message for it is under way.
KeyInv ==
  power829x = "awake" /\ "keys" \notin disturbed829x =>
    \A k \in Keys829x :
      \/ chip829x.colours[k] = data829x.intensity[k]
      \/ \E s \in Senders829x : \E i \in 1 .. Len(todo829x[s]) :
           todo829x[s][i].op \in {"key", "paint"} /\ todo829x[s][i].key = k

\* The brightness is sent first, and is the LEDs'; once sent the chip has it.
LevelInv ==
  /\ \A s \in Senders829x : \A i \in 2 .. Len(todo829x[s]) : todo829x[s][i].op # "brightness"
  /\ power829x = "awake" /\ "level" \notin disturbed829x =>
       /\ OnlyOne
       /\ \A s \in Senders829x : ~Idle829x(s) /\ todo829x[s][1].op = "brightness" =>
            todo829x[s][1].to = data829x.brightness
       /\ (\A s \in Senders829x : ~Idle829x(s) => todo829x[s][1].op # "brightness") =>
            chip829x.brightness = data829x.brightness

\* An animation is that of the mode, or about to be painted over.
AnimationInv ==
  power829x = "awake" /\ "keys" \notin disturbed829x =>
    /\ OnlyOne
    /\ \A s \in Senders829x : \A i \in 1 .. Len(todo829x[s]) :
         todo829x[s][i].op = "animate" => data829x.mode = MODE_MAP_LENGTH + 1
    /\ chip829x.animated =>
         \/ data829x.mode = MODE_MAP_LENGTH + 1
         \/ \E s \in Senders829x : \E i \in 1 .. Len(todo829x[s]) : todo829x[s][i].op = "paint"

KeysInv == KeyTypes /\ SendingInv /\ KeyInv /\ LevelInv /\ AnimationInv

\* What a sequence of messages is made of, by its places.
Has(q, op) == \E i \in 1 .. Len(q) : q[i].op = op
Sets(q, k) == \E i \in 1 .. Len(q) : q[i].op \in {"key", "paint"} /\ q[i].key = k
LevelFirst(q) == \A i \in 2 .. Len(q) : q[i].op # "brightness"

\* The bounds of the modes.
LEMMA Modes == MODE_MAP_LENGTH \in Nat /\ MODE_MAP_LENGTH > 0 /\ NrModes = MODE_MAP_LENGTH + 2
               /\ DEFAULT_MODE \in 0 .. NrModes - 1
<1>1. Len(ModeColours) \in Nat /\ Len(ModeColours) # 0
  BY Ite829xAssumption, EmptySeq
<1> QED  BY <1>1 DEF MODE_MAP_LENGTH, NrModes, MODE_EXTRAS_LENGTH, DEFAULT_MODE

\* A function from 1..n is a sequence.
LEMMA IsASeq829 == ASSUME NEW S, NEW n \in Nat, NEW f \in [1 .. n -> S] PROVE f \in Seq(S) /\ Len(f) = n
<1>1. f \in Seq(S)
  BY SeqDef
<1>2. DOMAIN f = 1 .. n /\ DOMAIN f = 1 .. Len(f) /\ Len(f) \in Nat
  BY <1>1, LenProperties
<1> QED  BY <1>1, <1>2

\* send_mode paints every key, or starts the animation.
LEMMA ModeMessages ==
  ASSUME NEW mode \in 0 .. NrModes - 1
  PROVE  /\ send_mode(mode) \in Seq(Messages829x) /\ Len(send_mode(mode)) >= 1
         /\ \A i \in 1 .. Len(send_mode(mode)) :
              send_mode(mode)[i].op = IF mode = MODE_MAP_LENGTH + 1 THEN "animate" ELSE "paint"
<1> USE Modes
<1>1. CASE mode = MODE_MAP_LENGTH + 1
  <2>1. send_mode(mode) = <<[op |-> "animate"]>>
    BY <1>1 DEF send_mode
  <2>2. [op |-> "animate"] \in Messages829x
    BY DEF Messages829x
  <2>3. \A q : q = <<[op |-> "animate"]>> => q \in Seq(Messages829x) /\ Len(q) = 1 /\ q[1].op = "animate"
    BY <2>2
  <2>4. /\ send_mode(mode) \in Seq(Messages829x) /\ Len(send_mode(mode)) = 1
        /\ send_mode(mode)[1].op = "animate"
    BY <2>1, <2>3
  <2>5. \A i \in 1 .. 1 : i = 1
    OBVIOUS
  <2> QED  BY <1>1, <2>4, <2>5
<1>2. CASE mode # MODE_MAP_LENGTH + 1
  <2>1. ASSUME NEW f, \A k \in Keys829x : f[k] \in STRING,
               send_mode(mode) = [k \in Keys829x |-> Paint(k, f[k])]
        PROVE  /\ send_mode(mode) \in Seq(Messages829x) /\ Len(send_mode(mode)) >= 1
               /\ \A i \in 1 .. Len(send_mode(mode)) : send_mode(mode)[i].op = "paint"
    <3>1. send_mode(mode) \in [1 .. NrKeys -> Messages829x]
      BY <2>1 DEF Keys829x, Paint, Messages829x
    <3>2. NrKeys \in Nat /\ NrKeys >= 1
      BY Ite829xAssumption
    <3>3. send_mode(mode) \in Seq(Messages829x) /\ Len(send_mode(mode)) = NrKeys
      BY <3>1, <3>2, IsASeq829
    <3> QED  BY <2>1, <3>2, <3>3 DEF Keys829x, Paint
  <2>2. CASE mode < MODE_MAP_LENGTH
    <3>1. mode + 1 \in 1 .. Len(ModeColours)
      BY <2>2 DEF MODE_MAP_LENGTH
    <3>2. ModeColours[mode + 1] \in STRING
      BY <3>1, Ite829xAssumption, ElementOfSeq
    <3> DEFINE f == [k \in Keys829x |-> ModeColours[mode + 1]]
    <3>3. send_mode(mode) = [k \in Keys829x |-> Paint(k, f[k])]
      BY <2>2 DEF send_mode
    <3>4. \A k \in Keys829x : f[k] \in STRING
      BY <3>2
    <3> HIDE DEF f
    <3> QED  BY <1>2, <2>1, <3>3, <3>4
  <2>3. CASE mode = MODE_MAP_LENGTH
    <3>1. \A k \in Keys829x : LettersColours[k] \in STRING
      BY Ite829xAssumption, ElementOfSeq DEF Keys829x
    <3>2. send_mode(mode) = [k \in Keys829x |-> Paint(k, LettersColours[k])]
      BY <2>3 DEF send_mode
    <3> QED  BY <1>2, <2>1, <3>1, <3>2
  <2> QED  BY <1>2, <2>2, <2>3
<1> QED  BY <1>1, <1>2

\* The two messages of a store.
LEMMA StoreMessages ==
  ASSUME NEW b \in Levels, NEW k \in Keys829x, NEW q, q = <<Level(b), KeyMessage(k)>>
  PROVE  /\ q \in Seq(Messages829x) /\ Len(q) = 2 /\ q[1] = Level(b) /\ q[2] = KeyMessage(k)
         /\ q # << >> /\ LevelFirst(q) /\ Sets(q, k) /\ ~Has(q, "animate")
<1>1. Level(b) \in Messages829x /\ KeyMessage(k) \in Messages829x
  BY DEF Level, KeyMessage, Messages829x
<1>2. q \in Seq(Messages829x) /\ Len(q) = 2 /\ q[1] = Level(b) /\ q[2] = KeyMessage(k)
  BY <1>1
<1>3. \A i \in 1 .. 2 : i = 1 \/ i = 2
  OBVIOUS
<1>4. LevelFirst(q) /\ Sets(q, k) /\ ~Has(q, "animate")
  BY <1>2, <1>3 DEF LevelFirst, Sets, Has, Level, KeyMessage
<1> QED  BY <1>2, <1>4, EmptySeq

\* The messages after sleep: the brightness, every key, and the mode.
LEMMA ResumeMessages ==
  ASSUME NEW b \in Levels, NEW mode \in 0 .. NrModes - 1, NEW q,
         q = <<Level(b)>> \o [k \in Keys829x |-> KeyMessage(k)] \o send_mode(mode)
  PROVE  /\ q \in Seq(Messages829x) /\ q # << >> /\ q[1] = Level(b) /\ LevelFirst(q)
         /\ \A k \in Keys829x : Sets(q, k)
         /\ Has(q, "animate") => mode = MODE_MAP_LENGTH + 1
         /\ mode = MODE_MAP_LENGTH + 1 \/ Has(q, "paint")
<1> DEFINE l == <<Level(b)>>
           keys == [k \in Keys829x |-> KeyMessage(k)]
           m == send_mode(mode)
           n == Len(m)
<1>0. NrKeys \in Nat
  BY Ite829xAssumption
<1>1. l \in Seq(Messages829x) /\ Len(l) = 1 /\ l[1] = Level(b)
  BY DEF Level, Messages829x
<1>2. keys \in Seq(Messages829x) /\ Len(keys) = NrKeys
  <2>1. keys \in [1 .. NrKeys -> Messages829x]
    BY DEF Keys829x, KeyMessage, Messages829x
  <2> HIDE DEF keys
  <2> QED  BY <1>0, <2>1, IsASeq829
<1>3. \A i \in 1 .. NrKeys : keys[i] = KeyMessage(i)
  BY DEF Keys829x
<1>4. /\ m \in Seq(Messages829x) /\ n \in Nat /\ n >= 1
      /\ \A i \in 1 .. n : m[i].op = IF mode = MODE_MAP_LENGTH + 1 THEN "animate" ELSE "paint"
  BY ModeMessages, LenProperties
<1>5. q = (l \o keys) \o m
  OBVIOUS
<1> HIDE DEF l, keys, m, n
<1>6. /\ l \o keys \in Seq(Messages829x) /\ Len(l \o keys) = 1 + NrKeys
      /\ \A i \in 1 .. 1 + NrKeys : (l \o keys)[i] = IF i <= 1 THEN l[i] ELSE keys[i - 1]
  <2>1. /\ l \o keys \in Seq(Messages829x) /\ Len(l \o keys) = Len(l) + Len(keys)
        /\ \A i \in 1 .. Len(l) + Len(keys) : (l \o keys)[i] = IF i <= Len(l) THEN l[i] ELSE keys[i - Len(l)]
    BY <1>1, <1>2, ConcatProperties
  <2> QED  BY <1>1, <1>2, <2>1
<1>7. /\ q \in Seq(Messages829x) /\ Len(q) = 1 + NrKeys + n
      /\ \A i \in 1 .. 1 + NrKeys + n :
           q[i] = IF i <= 1 + NrKeys THEN (l \o keys)[i] ELSE m[i - (1 + NrKeys)]
  <2>1. /\ (l \o keys) \o m \in Seq(Messages829x)
        /\ Len((l \o keys) \o m) = Len(l \o keys) + Len(m)
        /\ \A i \in 1 .. Len(l \o keys) + Len(m) :
             ((l \o keys) \o m)[i] = IF i <= Len(l \o keys) THEN (l \o keys)[i] ELSE m[i - Len(l \o keys)]
    BY <1>4, <1>6, ConcatProperties
  <2> QED  BY <1>5, <1>6, <2>1 DEF n
<1>8. q[1] = Level(b)
  BY <1>0, <1>1, <1>4, <1>6, <1>7
<1>9. \A k \in 1 .. NrKeys : q[k + 1] = KeyMessage(k)
  <2> SUFFICES ASSUME NEW k \in 1 .. NrKeys PROVE q[k + 1] = KeyMessage(k)
    OBVIOUS
  <2>1. k + 1 \in 1 .. 1 + NrKeys + n /\ k + 1 \in 1 .. 1 + NrKeys /\ ~(k + 1 <= 1) /\ k + 1 - 1 = k
    BY <1>0, <1>4
  <2>2. PICK i \in 1 .. 1 + NrKeys : i = k + 1
    BY <2>1
  <2>3. i \in 1 .. 1 + NrKeys + n /\ i <= 1 + NrKeys /\ ~(i <= 1) /\ i - 1 = k
    BY <1>0, <1>4, <2>2
  <2>4. q[i] = (l \o keys)[i] /\ (l \o keys)[i] = keys[i - 1]
    BY <1>6, <1>7, <2>3
  <2> QED  BY <1>3, <2>2, <2>3, <2>4
<1>10. \A j \in 1 .. n : q[1 + NrKeys + j] = m[j]
  <2> SUFFICES ASSUME NEW j \in 1 .. n PROVE q[1 + NrKeys + j] = m[j]
    OBVIOUS
  <2>1. /\ 1 + NrKeys + j \in 1 .. 1 + NrKeys + n /\ ~(1 + NrKeys + j <= 1 + NrKeys)
        /\ 1 + NrKeys + j - (1 + NrKeys) = j
    BY <1>0, <1>4
  <2>2. PICK i \in 1 .. 1 + NrKeys + n : i = 1 + NrKeys + j
    BY <2>1
  <2>3. q[i] = m[i - (1 + NrKeys)] /\ i - (1 + NrKeys) = j
    <3>1. ~(i <= 1 + NrKeys) /\ i - (1 + NrKeys) = j
      BY <1>0, <2>2
    <3> QED  BY <1>7, <3>1
  <2> QED  BY <2>2, <2>3
<1>11. ASSUME NEW i \in 1 .. Len(q)
       PROVE  i = 1 \/ (\E k \in 1 .. NrKeys : i = k + 1) \/ (\E j \in 1 .. n : i = 1 + NrKeys + j)
  <2>1. CASE i > 1 /\ i <= 1 + NrKeys
    <3>1. i - 1 \in 1 .. NrKeys /\ i = (i - 1) + 1
      BY <1>0, <2>1
    <3> QED  BY <3>1
  <2>2. CASE i > 1 + NrKeys
    <3>1. i - (1 + NrKeys) \in 1 .. n /\ i = 1 + NrKeys + (i - (1 + NrKeys))
      BY <1>0, <1>4, <1>7, <2>2
    <3> QED  BY <3>1
  <2> QED  BY <1>0, <1>7, <2>1, <2>2
<1>a. \A k : KeyMessage(k).op = "key" /\ KeyMessage(k).key = k
  BY DEF KeyMessage
<1>12. LevelFirst(q)
  <2> SUFFICES ASSUME NEW i \in 2 .. Len(q) PROVE q[i].op # "brightness"
    BY DEF LevelFirst
  <2>1. i \in 1 .. Len(q) /\ i # 1
    BY <1>0, <1>4, <1>7
  <2>2. CASE \E k \in 1 .. NrKeys : i = k + 1
    BY <1>a, <1>9, <2>2
  <2>3. CASE \E j \in 1 .. n : i = 1 + NrKeys + j
    BY <1>4, <1>10, <2>3
  <2> QED  BY <1>11, <2>1, <2>2, <2>3
<1>13. ASSUME NEW k \in Keys829x PROVE Sets(q, k)
  <2>1. k + 1 \in 1 .. Len(q) /\ k \in 1 .. NrKeys
    BY <1>0, <1>4, <1>7 DEF Keys829x
  <2>2. q[k + 1].op = "key" /\ q[k + 1].key = k
    BY <1>9, <1>a, <2>1
  <2> QED  BY <2>1, <2>2 DEF Sets
<1>14. ASSUME Has(q, "animate") PROVE mode = MODE_MAP_LENGTH + 1
  <2>1. PICK i \in 1 .. Len(q) : q[i].op = "animate"
    BY <1>14 DEF Has
  <2>2. CASE i = 1
    BY <1>8, <2>1, <2>2 DEF Level
  <2>3. CASE \E k \in 1 .. NrKeys : i = k + 1
    BY <1>a, <1>9, <2>1, <2>3
  <2>4. CASE \E j \in 1 .. n : i = 1 + NrKeys + j
    BY <1>4, <1>10, <2>1, <2>4
  <2> QED  BY <1>11, <2>2, <2>3, <2>4
<1>15. ASSUME mode # MODE_MAP_LENGTH + 1 PROVE Has(q, "paint")
  <2>1. 1 \in 1 .. n /\ 1 + NrKeys + 1 \in 1 .. Len(q)
    BY <1>0, <1>4, <1>7
  <2>2. q[1 + NrKeys + 1].op = "paint"
    BY <1>4, <1>10, <1>15, <2>1
  <2> QED  BY <2>1, <2>2 DEF Has
<1>16. q # << >>
  BY <1>0, <1>4, <1>7, EmptySeq
<1> QED  BY <1>7, <1>8, <1>12, <1>13, <1>14, <1>15, <1>16

\* The invariant's parts by what the sequences have.
LEMMA InvByPlaces ==
  /\ KeyInv <=> (power829x = "awake" /\ "keys" \notin disturbed829x =>
       \A k \in Keys829x : \/ chip829x.colours[k] = data829x.intensity[k]
                           \/ \E s \in Senders829x : Sets(todo829x[s], k))
  /\ AnimationInv <=> (power829x = "awake" /\ "keys" \notin disturbed829x =>
       /\ OnlyOne
       /\ \A s \in Senders829x : Has(todo829x[s], "animate") => data829x.mode = MODE_MAP_LENGTH + 1
       /\ chip829x.animated => \/ data829x.mode = MODE_MAP_LENGTH + 1
                               \/ \E s \in Senders829x : Has(todo829x[s], "paint"))
<1>1. KeyInv <=> (power829x = "awake" /\ "keys" \notin disturbed829x =>
       \A k \in Keys829x : \/ chip829x.colours[k] = data829x.intensity[k]
                           \/ \E s \in Senders829x : Sets(todo829x[s], k))
  BY ZenonT(30) DEF KeyInv, Sets
<1>2. AnimationInv <=> (power829x = "awake" /\ "keys" \notin disturbed829x =>
       /\ OnlyOne
       /\ \A s \in Senders829x : Has(todo829x[s], "animate") => data829x.mode = MODE_MAP_LENGTH + 1
       /\ chip829x.animated => \/ data829x.mode = MODE_MAP_LENGTH + 1
                               \/ \E s \in Senders829x : Has(todo829x[s], "paint"))
  BY ZenonT(30) DEF AnimationInv, Has
<1> QED  BY <1>1, <1>2

\* What begins to be sent, and what it may have overlapped.
LEMMA BeginFacts ==
  ASSUME KeysInv, NEW s \in Senders829x, Idle829x(s), NEW q \in Seq(Messages829x), q # << >>,
         LevelFirst(q), Begin829x(s, q)
  PROVE  /\ todo829x' \in [Senders829x -> Seq(Messages829x)] /\ disturbed829x' \subseteq {"level", "keys"}
         /\ todo829x'[s] = q /\ \A t \in Senders829x \ {s} : todo829x'[t] = todo829x[t]
         /\ \A t \in Senders829x : LevelFirst(todo829x'[t])
         /\ disturbed829x' # {"level", "keys"} =>
              /\ Quiet829x /\ OnlyOne' /\ \A t \in Senders829x \ {s} : todo829x'[t] = << >>
              /\ "level" \notin disturbed829x' => q[1].op = "brightness" \/ "level" \notin disturbed829x
              /\ "keys" \notin disturbed829x' => "keys" \notin disturbed829x \/ \A k \in Keys829x : Sets(q, k)
<1>1. todo829x' = [todo829x EXCEPT ![s] = q]
  BY DEF Begin829x
<1>2. /\ todo829x' \in [Senders829x -> Seq(Messages829x)]
      /\ todo829x'[s] = q /\ \A t \in Senders829x \ {s} : todo829x'[t] = todo829x[t]
  BY <1>1 DEF KeysInv, KeyTypes
<1>3. \A t \in Senders829x : LevelFirst(todo829x'[t])
  BY <1>2 DEF KeysInv, LevelInv, LevelFirst
<1>4. CASE \E t \in Senders829x \ {s} : ~Idle829x(t)
  <2>1. disturbed829x' = {"level", "keys"}
    BY <1>4 DEF Begin829x
  <2> QED  BY <1>2, <1>3, <2>1
<1>5. CASE ~\E t \in Senders829x \ {s} : ~Idle829x(t)
  <2>1. disturbed829x' = {d \in disturbed829x :
               IF d = "level" THEN q[1].op # "brightness"
               ELSE \E k \in Keys829x : \A i \in DOMAIN q :
                      q[i].op \in {"key", "paint"} => q[i].key # k}
    BY <1>5 DEF Begin829x
  <2>2. disturbed829x' \subseteq {"level", "keys"}
    BY <2>1 DEF KeysInv, KeyTypes
  <2>3. Quiet829x
    BY <1>5 DEF Quiet829x
  <2>4. \A t \in Senders829x \ {s} : todo829x'[t] = << >>
    BY <1>2, <2>3 DEF Quiet829x, Idle829x
  <2>5. OnlyOne'
    BY <2>4 DEF OnlyOne, Idle829x
  <2>6. "level" \notin disturbed829x' => q[1].op = "brightness" \/ "level" \notin disturbed829x
    BY <2>1
  <2>7. ASSUME "keys" \notin disturbed829x', "keys" \in disturbed829x, NEW k \in Keys829x PROVE Sets(q, k)
    <3>1. ~\A i \in DOMAIN q : q[i].op \in {"key", "paint"} => q[i].key # k
      BY <2>1, <2>7
    <3>2. DOMAIN q = 1 .. Len(q)
      BY LenProperties
    <3> QED  BY <3>1, <3>2 DEF Sets
  <2> QED  BY <1>2, <1>3, <2>2, <2>3, <2>4, <2>5, <2>6, <2>7
<1> QED  BY <1>4, <1>5

\* A store of a key's colour or of the brightness keeps the invariant.
LEMMA SetLedKeeps ==
  ASSUME KeysInv, NEW p \in Programs829x, NEW k \in Keys829x, NEW c \in STRING, NEW b \in Levels,
         SetLed829x(p, k, c, b)
  PROVE  KeysInv'
<1> DEFINE q == <<Level(b), KeyMessage(k)>>
<1>1. /\ q \in Seq(Messages829x) /\ q # << >> /\ q[1] = Level(b) /\ LevelFirst(q)
      /\ Sets(q, k) /\ ~Has(q, "animate")
      /\ \A j \in Keys829x : Sets(q, j) => j = k
  <2>1. /\ q \in Seq(Messages829x) /\ Len(q) = 2 /\ q[1] = Level(b) /\ q[2] = KeyMessage(k)
        /\ q # << >> /\ LevelFirst(q) /\ Sets(q, k) /\ ~Has(q, "animate")
    BY StoreMessages
  <2>2. \A i \in 1 .. 2 : i = 1 \/ i = 2
    OBVIOUS
  <2> HIDE DEF q
  <2>3. \A j \in Keys829x : Sets(q, j) => j = k
    BY <2>1, <2>2 DEF Sets, Level, KeyMessage
  <2> QED  BY <2>1, <2>3
<1> HIDE DEF q
<1>2. p \in Senders829x /\ p # "work" /\ p # "pm" /\ "work" \in Senders829x
  BY Ite829xAssumption DEF Senders829x
<1>3. /\ power829x = "awake" /\ Idle829x(p) /\ Begin829x(p, q)
      /\ data829x' = [data829x EXCEPT !.brightness = b, !.intensity[k] = c]
      /\ UNCHANGED <<chip829x, key_work, power829x>>
  BY DEF SetLed829x, q
<1>4. /\ todo829x' \in [Senders829x -> Seq(Messages829x)] /\ disturbed829x' \subseteq {"level", "keys"}
      /\ todo829x'[p] = q /\ \A t \in Senders829x \ {p} : todo829x'[t] = todo829x[t]
      /\ \A t \in Senders829x : LevelFirst(todo829x'[t])
      /\ disturbed829x' # {"level", "keys"} =>
              /\ Quiet829x /\ OnlyOne' /\ \A t \in Senders829x \ {p} : todo829x'[t] = << >>
              /\ "level" \notin disturbed829x' => q[1].op = "brightness" \/ "level" \notin disturbed829x
              /\ "keys" \notin disturbed829x' => "keys" \notin disturbed829x \/ \A j \in Keys829x : Sets(q, j)
  BY <1>1, <1>2, <1>3, BeginFacts
<1>5. /\ data829x' \in [brightness : Levels, mode : 0 .. NrModes - 1, intensity : [Keys829x -> STRING]]
      /\ data829x'.brightness = b /\ data829x'.mode = data829x.mode
      /\ \A j \in Keys829x : data829x'.intensity[j] = IF j = k THEN c ELSE data829x.intensity[j]
  BY <1>3 DEF KeysInv, KeyTypes
<1>6. KeyTypes'
  BY <1>3, <1>4, <1>5 DEF KeysInv, KeyTypes
<1>7. SendingInv'
  BY <1>2, <1>3, <1>4 DEF KeysInv, SendingInv, Idle829x, InputLocked
<1>k. "keys" \notin disturbed829x' => Quiet829x /\ "keys" \notin disturbed829x
  <2>1. 1 \in Keys829x /\ 2 \in Keys829x
    BY Ite829xAssumption DEF Keys829x
  <2> QED  BY <1>1, <1>4, <2>1
<1>8. KeyInv'
  <2>1. ASSUME "keys" \notin disturbed829x', NEW j \in Keys829x
        PROVE  \/ chip829x'.colours[j] = data829x'.intensity[j]
               \/ \E s \in Senders829x : Sets(todo829x'[s], j)
    <3>1. CASE j = k
      BY <1>1, <1>2, <1>4, <3>1
    <3>2. CASE j # k
      <4>1. \A s \in Senders829x : ~Sets(todo829x[s], j)
        BY <1>k, <2>1 DEF Quiet829x, Idle829x, Sets
      <4>2. chip829x.colours[j] = data829x.intensity[j]
        BY <1>3, <1>k, <2>1, <4>1, InvByPlaces DEF KeysInv
      <4> QED  BY <1>3, <1>5, <3>2, <4>2
    <3> QED  BY <3>1, <3>2
  <2> QED  BY <2>1 DEF KeyInv, Sets
<1>9. LevelInv'
  <2>1. \A s \in Senders829x : \A i \in 2 .. Len(todo829x'[s]) : todo829x'[s][i].op # "brightness"
    BY <1>4 DEF LevelFirst
  <2>2. ASSUME "level" \notin disturbed829x'
        PROVE  /\ OnlyOne'
               /\ \A s \in Senders829x : ~Idle829x(s)' /\ todo829x'[s][1].op = "brightness" =>
                    todo829x'[s][1].to = data829x'.brightness
               /\ ~Idle829x(p)' /\ todo829x'[p][1].op = "brightness"
    <3>1. OnlyOne' /\ \A t \in Senders829x \ {p} : todo829x'[t] = << >>
      BY <1>4, <2>2
    <3>2. todo829x'[p][1].op = "brightness" /\ todo829x'[p][1].to = b /\ todo829x'[p] # << >>
      BY <1>1, <1>4 DEF Level
    <3> QED  BY <1>5, <3>1, <3>2 DEF Idle829x
  <2> QED  BY <1>2, <2>1, <2>2 DEF LevelInv
<1>10. AnimationInv'
  <2>1. ASSUME "keys" \notin disturbed829x'
        PROVE  /\ OnlyOne'
               /\ \A s \in Senders829x : ~Has(todo829x'[s], "animate")
               /\ chip829x'.animated => data829x'.mode = MODE_MAP_LENGTH + 1
    <3>1. OnlyOne' /\ Quiet829x /\ \A t \in Senders829x \ {p} : todo829x'[t] = << >>
      BY <1>4, <2>1
    <3>2. "keys" \notin disturbed829x
      BY <1>k, <2>1
    <3>3. \A s \in Senders829x : ~Has(todo829x[s], "paint")
      BY <3>1 DEF Quiet829x, Idle829x, Has
    <3>4. chip829x.animated => data829x.mode = MODE_MAP_LENGTH + 1
      BY <1>3, <3>2, <3>3, InvByPlaces DEF KeysInv
    <3>5. \A s \in Senders829x : ~Has(todo829x'[s], "animate")
      BY <1>1, <1>4, <3>1 DEF Has
    <3> QED  BY <1>3, <1>5, <3>1, <3>4, <3>5
  <2> QED  BY <2>1 DEF AnimationInv, Has
<1> QED  BY <1>6, <1>7, <1>8, <1>9, <1>10 DEF KeysInv

\* A change of the mode by the key keeps the invariant.
LEMMA ModeKeeps ==
  ASSUME KeysInv, KeyActions
  PROVE  KeysInv'
<1>0. /\ UNCHANGED <<chip829x, power829x>> /\ key_work.running = "started"
      /\ "work" \in Senders829x
  BY DEF KeyActions, Senders829x
<1>1. CASE UNCHANGED <<todo829x, disturbed829x>>
  <2>1. Idle829x("work")
    BY <1>0 DEF KeysInv, SendingInv, InputLocked
  <2>2. /\ data829x' = data829x \/ power829x = "removed"
        /\ data829x' \in [brightness : Levels, mode : 0 .. NrModes - 1, intensity : [Keys829x -> STRING]]
        /\ key_work' \in [pending : BOOLEAN, running : {"no", "started", "sending"}]
    <3>1. CASE last_key = "mode"
      <4>1. /\ data829x' = [data829x EXCEPT !.mode = NextMode(data829x.mode)]
            /\ power829x = "removed" \/ Begin829x("work", send_mode(NextMode(data829x.mode)))
            /\ \E r \in {"no", "sending"} : key_work' = [key_work EXCEPT !.running = r]
        BY <3>1 DEF KeyActions
      <4>2. NextMode(data829x.mode) \in 0 .. NrModes - 1
        BY Modes DEF KeysInv, KeyTypes, NextMode, NrModes
      <4>3. power829x = "removed"
        <5>1. ASSUME Begin829x("work", send_mode(NextMode(data829x.mode))) PROVE FALSE
          <6>1. todo829x'["work"] = send_mode(NextMode(data829x.mode))
            BY <1>0, <5>1 DEF Begin829x, KeysInv, KeyTypes
          <6>2. Len(todo829x'["work"]) >= 1
            BY <4>2, <6>1, ModeMessages
          <6>3. Len(<< >>) = 0
            OBVIOUS
          <6> QED  BY <1>1, <2>1, <6>2, <6>3 DEF Idle829x
        <5> QED  BY <4>1, <5>1
      <4> QED  BY <4>1, <4>2, <4>3 DEF KeysInv, KeyTypes
    <3>2. CASE last_key # "mode"
      BY <3>2 DEF KeyActions, KeysInv, KeyTypes
    <3> QED  BY <3>1, <3>2
  <2>3. KeyTypes'
    BY <1>0, <1>1, <2>2 DEF KeysInv, KeyTypes
  <2>4. SendingInv'
    BY <1>0, <1>1, <2>1 DEF KeysInv, SendingInv, Idle829x, Quiet829x
  <2>5. KeyInv' /\ LevelInv' /\ AnimationInv'
    <3>1. CASE power829x = "removed"
      BY <1>0, <1>1, <3>1 DEF KeysInv, KeyInv, LevelInv, AnimationInv
    <3>2. CASE data829x' = data829x
      BY <1>0, <1>1, <3>2 DEF KeysInv, KeyInv, LevelInv, AnimationInv, OnlyOne, Idle829x
    <3> QED  BY <2>2, <3>1, <3>2
  <2> QED  BY <2>3, <2>4, <2>5 DEF KeysInv
<1>2. CASE ~UNCHANGED <<todo829x, disturbed829x>>
  <2> DEFINE mode == NextMode(data829x.mode)
             q == send_mode(mode)
  <2>1. /\ Begin829x("work", q)
        /\ data829x' = [data829x EXCEPT !.mode = mode]
        /\ key_work' = [key_work EXCEPT !.running = "sending"]
    BY <1>0, <1>2 DEF KeyActions, KeysInv, KeyTypes
  <2>2. mode \in 0 .. NrModes - 1
    BY Modes DEF KeysInv, KeyTypes, NextMode, NrModes
  <2>3. /\ q \in Seq(Messages829x) /\ Len(q) >= 1 /\ Len(q) \in Nat
        /\ \A i \in 1 .. Len(q) : q[i].op = IF mode = MODE_MAP_LENGTH + 1 THEN "animate" ELSE "paint"
    BY <2>2, ModeMessages, LenProperties
  <2>a. PICK m \in 0 .. NrModes - 1 : m = mode
    BY <2>2
  <2>4. Idle829x("work")
    BY <1>0 DEF KeysInv, SendingInv, InputLocked
  <2> HIDE DEF mode, q
  <2>5. /\ q # << >> /\ LevelFirst(q) /\ q[1].op # "brightness" /\ 1 \in 1 .. Len(q)
        /\ Has(q, "animate") => mode = MODE_MAP_LENGTH + 1
        /\ mode = MODE_MAP_LENGTH + 1 \/ Has(q, "paint")
    BY <2>3, EmptySeq DEF LevelFirst, Has
  <2>6. /\ todo829x' \in [Senders829x -> Seq(Messages829x)] /\ disturbed829x' \subseteq {"level", "keys"}
        /\ todo829x'["work"] = q /\ \A t \in Senders829x \ {"work"} : todo829x'[t] = todo829x[t]
        /\ \A t \in Senders829x : LevelFirst(todo829x'[t])
        /\ disturbed829x' # {"level", "keys"} =>
             /\ Quiet829x /\ OnlyOne' /\ \A t \in Senders829x \ {"work"} : todo829x'[t] = << >>
             /\ "level" \notin disturbed829x' => q[1].op = "brightness" \/ "level" \notin disturbed829x
             /\ "keys" \notin disturbed829x' => "keys" \notin disturbed829x \/ \A k \in Keys829x : Sets(q, k)
    BY <1>0, <2>1, <2>3, <2>4, <2>5, BeginFacts
  <2>7. /\ data829x' \in [brightness : Levels, mode : 0 .. NrModes - 1, intensity : [Keys829x -> STRING]]
        /\ data829x'.brightness = data829x.brightness /\ data829x'.mode = mode
        /\ data829x'.intensity = data829x.intensity
        /\ key_work' \in [pending : BOOLEAN, running : {"no", "started", "sending"}]
        /\ key_work'.running = "sending"
    BY <2>1, <2>2 DEF KeysInv, KeyTypes
  <2>8. KeyTypes'
    BY <1>0, <2>6, <2>7 DEF KeysInv, KeyTypes
  <2>9. SendingInv'
    BY <1>0, <2>6, <2>7 DEF KeysInv, SendingInv, InputLocked, Idle829x
  <2>10. KeyInv'
    <3>1. ASSUME power829x = "awake", "keys" \notin disturbed829x', NEW j \in Keys829x
          PROVE  \/ chip829x'.colours[j] = data829x'.intensity[j]
                 \/ \E s \in Senders829x : Sets(todo829x'[s], j)
      <4>1. Quiet829x /\ ("keys" \notin disturbed829x \/ Sets(q, j))
        BY <2>6, <3>1
      <4>2. \A s \in Senders829x : ~Sets(todo829x[s], j)
        BY <4>1 DEF Quiet829x, Idle829x, Sets
      <4>3. "keys" \notin disturbed829x => chip829x.colours[j] = data829x.intensity[j]
        BY <3>1, <4>2, InvByPlaces DEF KeysInv
      <4> QED  BY <1>0, <2>6, <2>7, <4>1, <4>3
    <3> QED  BY <1>0, <3>1 DEF KeyInv, Sets
  <2>11. LevelInv'
    <3>1. \A s \in Senders829x : \A i \in 2 .. Len(todo829x'[s]) : todo829x'[s][i].op # "brightness"
      BY <2>6 DEF LevelFirst
    <3>2. ASSUME power829x = "awake", "level" \notin disturbed829x'
          PROVE  /\ OnlyOne'
                 /\ \A s \in Senders829x : ~Idle829x(s)' => todo829x'[s][1].op # "brightness"
                 /\ chip829x'.brightness = data829x'.brightness
      <4>1. /\ OnlyOne' /\ Quiet829x /\ \A t \in Senders829x \ {"work"} : todo829x'[t] = << >>
            /\ "level" \notin disturbed829x
        BY <2>5, <2>6, <3>2
      <4>2. chip829x.brightness = data829x.brightness
        BY <3>2, <4>1 DEF KeysInv, LevelInv, Quiet829x
      <4> QED  BY <1>0, <2>5, <2>6, <2>7, <4>1, <4>2 DEF Idle829x
    <3> QED  BY <1>0, <3>1, <3>2 DEF LevelInv
  <2>12. AnimationInv'
    <3>1. ASSUME "keys" \notin disturbed829x'
          PROVE  /\ OnlyOne'
                 /\ \A s \in Senders829x :
                      Has(todo829x'[s], "animate") => data829x'.mode = MODE_MAP_LENGTH + 1
                 /\ data829x'.mode = MODE_MAP_LENGTH + 1 \/ Has(todo829x'["work"], "paint")
      <4>1. OnlyOne' /\ \A t \in Senders829x \ {"work"} : todo829x'[t] = << >>
        BY <2>6, <3>1
      <4>2. ~Has(<< >>, "animate")
        BY DEF Has
      <4> QED  BY <2>5, <2>6, <2>7, <4>1, <4>2
    <3> QED  BY <1>0, <3>1 DEF AnimationInv, Has
  <2> QED  BY <2>8, <2>9, <2>10, <2>11, <2>12 DEF KeysInv
<1> QED  BY <1>1, <1>2

\* After sleep everything is sent again, whatever the controller has kept;
\* the work may be sending all the while.
LEMMA ResumeKeeps ==
  ASSUME KeysInv, Resume829x
  PROVE  KeysInv'
<1> DEFINE q == <<Level(data829x.brightness)>> \o [k \in Keys829x |-> KeyMessage(k)]
                  \o send_mode(data829x.mode)
<1>1. data829x.brightness \in Levels /\ data829x.mode \in 0 .. NrModes - 1
  BY DEF KeysInv, KeyTypes
<1>2. /\ q \in Seq(Messages829x) /\ q # << >> /\ q[1] = Level(data829x.brightness) /\ LevelFirst(q)
      /\ \A k \in Keys829x : Sets(q, k)
      /\ Has(q, "animate") => data829x.mode = MODE_MAP_LENGTH + 1
      /\ data829x.mode = MODE_MAP_LENGTH + 1 \/ Has(q, "paint")
  BY <1>1, ResumeMessages
<1>3. Begin829x("pm", q)
  BY DEF Resume829x
<1> HIDE DEF q
<1>4. /\ power829x = "asleep" /\ power829x' = "awake" /\ UNCHANGED <<data829x, key_work>>
      /\ "pm" \in Senders829x /\ "work" \in Senders829x /\ Idle829x("pm")
  BY DEF Resume829x, KeysInv, SendingInv, Senders829x
<1>5. chip829x' \in [brightness : Levels, animated : BOOLEAN, colours : [Keys829x -> STRING \cup {"unset"}]]
  <2> DEFINE lost == [brightness |-> 0, animated |-> FALSE, colours |-> [k \in Keys829x |-> "unset"]]
  <2>1. chip829x' = chip829x \/ chip829x' = lost
    BY DEF Resume829x
  <2>2. lost \in [brightness : Levels, animated : BOOLEAN, colours : [Keys829x -> STRING \cup {"unset"}]]
    <3>1. [k \in Keys829x |-> "unset"] \in [Keys829x -> STRING \cup {"unset"}]
      OBVIOUS
    <3>2. 0 \in Levels
      BY DEF Levels
    <3> QED  BY <3>1, <3>2
  <2> HIDE DEF lost
  <2> QED  BY <2>1, <2>2 DEF KeysInv, KeyTypes
<1>6. /\ todo829x' \in [Senders829x -> Seq(Messages829x)] /\ disturbed829x' \subseteq {"level", "keys"}
      /\ todo829x'["pm"] = q /\ \A t \in Senders829x \ {"pm"} : todo829x'[t] = todo829x[t]
      /\ \A t \in Senders829x : LevelFirst(todo829x'[t])
      /\ disturbed829x' # {"level", "keys"} =>
           OnlyOne' /\ \A t \in Senders829x \ {"pm"} : todo829x'[t] = << >>
  BY <1>2, <1>3, <1>4, BeginFacts
<1>8. KeyTypes'
  BY <1>4, <1>5, <1>6 DEF KeysInv, KeyTypes
<1>9. SendingInv'
  BY <1>4, <1>6 DEF KeysInv, SendingInv, Idle829x, InputLocked
<1>10. KeyInv'
  BY <1>2, <1>4, <1>6 DEF KeyInv, Sets
<1>12. LevelInv'
  <2>1. \A s \in Senders829x : \A i \in 2 .. Len(todo829x'[s]) : todo829x'[s][i].op # "brightness"
    BY <1>6 DEF LevelFirst
  <2>2. /\ ~Idle829x("pm")' /\ todo829x'["pm"][1].op = "brightness"
        /\ todo829x'["pm"][1].to = data829x'.brightness
    BY <1>2, <1>4, <1>6 DEF Idle829x, Level
  <2>3. ASSUME "level" \notin disturbed829x' PROVE OnlyOne' /\ \A s \in Senders829x : ~Idle829x(s)' => s = "pm"
    BY <1>6, <2>3 DEF Idle829x
  <2> QED  BY <1>4, <2>1, <2>2, <2>3 DEF LevelInv
<1>13. AnimationInv'
  <2> SUFFICES ASSUME "keys" \notin disturbed829x' PROVE AnimationInv'
    BY DEF AnimationInv
  <2>1. OnlyOne' /\ \A t \in Senders829x \ {"pm"} : todo829x'[t] = << >>
    BY <1>6
  <2>2. ~Has(<< >>, "animate")
    BY DEF Has
  <2>3. \A s \in Senders829x : Has(todo829x'[s], "animate") => data829x'.mode = MODE_MAP_LENGTH + 1
    BY <1>2, <1>4, <1>6, <2>1, <2>2
  <2>4. data829x'.mode = MODE_MAP_LENGTH + 1 \/ \E s \in Senders829x : Has(todo829x'[s], "paint")
    BY <1>2, <1>4, <1>6
  <2> QED  BY <2>1, <2>3, <2>4 DEF AnimationInv, Has
<1> QED  BY <1>8, <1>9, <1>10, <1>12, <1>13 DEF KeysInv

\* A message that is sent: the ones behind it move up.
LEMMA Sent ==
  ASSUME NEW q \in Seq(Messages829x), q # << >>
  PROVE  /\ Tail(q) \in Seq(Messages829x) /\ Head(q) = q[1] /\ q[1] \in Messages829x
         /\ LevelFirst(q) => LevelFirst(Tail(q)) /\ (Tail(q) = << >> \/ Tail(q)[1].op # "brightness")
         /\ \A k : Sets(q, k) <=> (q[1].op \in {"key", "paint"} /\ q[1].key = k) \/ Sets(Tail(q), k)
         /\ \A o : Has(q, o) <=> q[1].op = o \/ Has(Tail(q), o)
<1> DEFINE r == Tail(q)
           n == Len(r)
<1>1. Len(q) \in Nat /\ Len(q) >= 1
  BY LenProperties, EmptySeq
<1>2. /\ r \in Seq(Messages829x) /\ n = Len(q) - 1 /\ \A i \in 1 .. n : r[i] = q[i + 1]
  BY HeadTailProperties
<1>3. Head(q) = q[1] /\ q[1] \in Messages829x
  BY <1>1, ElementOfSeq
<1> HIDE DEF r
<1>4. n \in Nat
  BY <1>1, <1>2
<1>5. \A i \in 2 .. Len(q) : i - 1 \in 1 .. n /\ q[i] = r[i - 1]
  <2> SUFFICES ASSUME NEW i \in 2 .. Len(q) PROVE i - 1 \in 1 .. n /\ q[i] = r[i - 1]
    OBVIOUS
  <2>1. PICK j \in 1 .. n : j = i - 1
    BY <1>1, <1>2
  <2>2. j + 1 = i
    BY <2>1
  <2> QED  BY <1>2, <2>1, <2>2
<1>6. \A i \in 1 .. n : i + 1 \in 2 .. Len(q) /\ i + 1 \in 1 .. Len(q) /\ r[i] = q[i + 1]
  BY <1>1, <1>2
<1>7. \A i \in 1 .. Len(q) : i = 1 \/ i \in 2 .. Len(q)
  BY <1>1
<1>8. 1 \in 1 .. Len(q)
  BY <1>1
<1> HIDE DEF n
<1>9. ASSUME LevelFirst(q) PROVE LevelFirst(r) /\ (r = << >> \/ r[1].op # "brightness")
  <2>1. \A i \in 1 .. n : r[i].op # "brightness"
    BY <1>6, <1>9 DEF LevelFirst
  <2>2. LevelFirst(r)
    <3>1. \A i \in 2 .. n : i \in 1 .. n
      BY <1>4
    <3> QED  BY <2>1, <3>1 DEF LevelFirst, n
  <2>3. r # << >> => 1 \in 1 .. n
    BY <1>2, <1>4, EmptySeq DEF n
  <2> QED  BY <2>1, <2>2, <2>3
<1>10. ASSUME NEW k
       PROVE  Sets(q, k) <=> (q[1].op \in {"key", "paint"} /\ q[1].key = k) \/ Sets(r, k)
  <2>1. Sets(r, k) => Sets(q, k)
    BY <1>6 DEF Sets, n
  <2>2. Sets(q, k) => (q[1].op \in {"key", "paint"} /\ q[1].key = k) \/ Sets(r, k)
    BY <1>5, <1>7 DEF Sets, n
  <2> QED  BY <1>8, <2>1, <2>2 DEF Sets
<1>11. ASSUME NEW o PROVE Has(q, o) <=> q[1].op = o \/ Has(r, o)
  <2>1. Has(r, o) => Has(q, o)
    BY <1>6 DEF Has, n
  <2>2. Has(q, o) => q[1].op = o \/ Has(r, o)
    BY <1>5, <1>7 DEF Has, n
  <2> QED  BY <1>8, <2>1, <2>2 DEF Has
<1> QED  BY <1>2, <1>3, <1>9, <1>10, <1>11 DEF r

\* A message that the controller takes, or that is lost, keeps the invariant.
LEMMA SendKeeps829 ==
  ASSUME KeysInv, NEW s \in Senders829x, SendMessage829x(s)
  PROVE  KeysInv'
<1> DEFINE q == todo829x[s]
           m == Head(todo829x[s])
<1>1. /\ q \in Seq(Messages829x) /\ q # << >> /\ LevelFirst(q)
      /\ todo829x' = [todo829x EXCEPT ![s] = Tail(q)]
      /\ UNCHANGED power829x
      /\ key_work' = IF s = "work" /\ Len(q) = 1 THEN [key_work EXCEPT !.running = "no"] ELSE key_work
      /\ data829x' = IF m.op = "paint" THEN [data829x EXCEPT !.intensity[m.key] = m.to] ELSE data829x
      /\ \/ chip829x' = Received829x(m, data829x'.intensity) /\ UNCHANGED disturbed829x
         \/ disturbed829x' = disturbed829x \cup Carries(m) /\ UNCHANGED chip829x
  BY DEF SendMessage829x, KeysInv, KeyTypes, Idle829x, LevelInv, LevelFirst
<1>2. /\ m = q[1] /\ m \in Messages829x /\ Tail(q) \in Seq(Messages829x)
      /\ LevelFirst(Tail(q)) /\ (Tail(q) = << >> \/ Tail(q)[1].op # "brightness")
      /\ \A k : Sets(q, k) <=> (m.op \in {"key", "paint"} /\ m.key = k) \/ Sets(Tail(q), k)
      /\ \A o : Has(q, o) <=> m.op = o \/ Has(Tail(q), o)
  BY <1>1, Sent
<1>3. /\ todo829x' \in [Senders829x -> Seq(Messages829x)]
      /\ todo829x'[s] = Tail(q) /\ \A t \in Senders829x \ {s} : todo829x'[t] = todo829x[t]
  BY <1>1, <1>2 DEF KeysInv, KeyTypes
<1>q. PICK qq : qq = q
  OBVIOUS
<1>m. PICK mm : mm = m
  OBVIOUS
<1> HIDE DEF q, m
<1>4. /\ data829x \in [brightness : Levels, mode : 0 .. NrModes - 1, intensity : [Keys829x -> STRING]]
      /\ chip829x \in [brightness : Levels, animated : BOOLEAN, colours : [Keys829x -> STRING \cup {"unset"}]]
  BY DEF KeysInv, KeyTypes
<1>5. /\ m.op \in {"brightness", "key", "paint", "animate"}
      /\ m.op = "brightness" => m.to \in Levels
      /\ m.op \in {"key", "paint"} => m.key \in Keys829x
      /\ m.op = "paint" => m.to \in STRING
  BY <1>2 DEF Messages829x
<1>6. /\ data829x' \in [brightness : Levels, mode : 0 .. NrModes - 1, intensity : [Keys829x -> STRING]]
      /\ data829x'.brightness = data829x.brightness /\ data829x'.mode = data829x.mode
      /\ \A k \in Keys829x : data829x'.intensity[k] = IF m.op = "paint" /\ m.key = k THEN m.to
                                                      ELSE data829x.intensity[k]
  BY <1>1, <1>4, <1>5
<1>r. data829x'.intensity \in [Keys829x -> STRING]
  BY <1>6
<1>7. ASSUME chip829x' = Received829x(m, data829x'.intensity)
      PROVE  /\ chip829x' \in [brightness : Levels, animated : BOOLEAN,
                                colours : [Keys829x -> STRING \cup {"unset"}]]
             /\ chip829x'.brightness = IF m.op = "brightness" THEN m.to ELSE chip829x.brightness
             /\ chip829x'.animated = IF m.op = "animate" THEN TRUE
                                     ELSE IF m.op \in {"key", "paint"} THEN FALSE ELSE chip829x.animated
             /\ \A k \in Keys829x : chip829x'.colours[k] =
                  IF m.op \in {"key", "paint"} /\ m.key = k THEN data829x'.intensity[k]
                  ELSE chip829x.colours[k]
  <2>1. CASE m.op = "brightness"
    <3>1. chip829x' = [chip829x EXCEPT !.brightness = m.to] /\ m.to \in Levels
      BY <1>5, <1>7, <2>1 DEF Received829x
    <3> QED  BY <1>4, <2>1, <3>1
  <2>2. CASE m.op = "animate"
    <3>1. chip829x' = [chip829x EXCEPT !.animated = TRUE]
      BY <1>7, <2>2 DEF Received829x
    <3> QED  BY <1>4, <2>2, <3>1
  <2>3. CASE m.op \in {"key", "paint"}
    <3> DEFINE c == data829x'.intensity[m.key]
               colours == [chip829x.colours EXCEPT ![m.key] = c]
    <3>1. chip829x' = [chip829x EXCEPT !.colours[m.key] = c, !.animated = FALSE]
      BY <1>7, <2>3 DEF Received829x
    <3>2. m.key \in Keys829x /\ c \in STRING \cup {"unset"}
      BY <1>5, <1>r, <2>3
    <3>3. chip829x' = [chip829x EXCEPT !.colours = colours, !.animated = FALSE]
      BY <1>4, <3>1
    <3>4. /\ colours \in [Keys829x -> STRING \cup {"unset"}]
          /\ \A k \in Keys829x : colours[k] = IF m.key = k THEN c ELSE chip829x.colours[k]
      BY <1>4, <3>2
    <3>5. \A k \in Keys829x : m.key = k => c = data829x'.intensity[k]
      OBVIOUS
    <3> HIDE DEF c, colours
    <3>6. /\ chip829x' \in [brightness : Levels, animated : BOOLEAN,
                             colours : [Keys829x -> STRING \cup {"unset"}]]
          /\ chip829x'.brightness = chip829x.brightness /\ chip829x'.animated = FALSE
          /\ chip829x'.colours = colours
      BY <1>4, <3>3, <3>4
    <3> QED  BY <2>3, <3>4, <3>5, <3>6
  <2> QED  BY <1>5, <2>1, <2>2, <2>3
<1>c. /\ disturbed829x' \subseteq {"level", "keys"} /\ disturbed829x \subseteq disturbed829x'
      /\ \/ chip829x' = Received829x(m, data829x'.intensity)
         \/ /\ chip829x' = chip829x
            /\ m.op = "brightness" => "level" \in disturbed829x'
            /\ m.op \in {"key", "paint"} => "keys" \in disturbed829x'
  BY <1>1, <1>5 DEF Carries, KeysInv, KeyTypes
<1>8. KeyTypes'
  <2>1. key_work' \in [pending : BOOLEAN, running : {"no", "started", "sending"}]
    BY <1>1 DEF KeysInv, KeyTypes
  <2>2. chip829x' \in [brightness : Levels, animated : BOOLEAN, colours : [Keys829x -> STRING \cup {"unset"}]]
    BY <1>4, <1>7, <1>c
  <2> QED  BY <1>1, <1>3, <1>6, <1>c, <2>1, <2>2 DEF KeysInv, KeyTypes
<1>9. SendingInv'
  <2>1. "work" \in Senders829x /\ ~Idle829x(s)
    BY <1>1 DEF Senders829x, Idle829x, q
  <2>2. power829x' # "awake" => \A t \in Senders829x \ {"work"} : Idle829x(t)'
    <3>1. power829x # "awake" => s = "work" /\ \A t \in Senders829x \ {"work"} : Idle829x(t)
      BY <2>1 DEF KeysInv, SendingInv
    <3> QED  BY <1>1, <1>3, <3>1 DEF Idle829x
  <2>3. ~Idle829x("work")' => InputLocked'
    <3>1. CASE s # "work"
      BY <1>1, <1>3, <2>1, <3>1 DEF KeysInv, SendingInv, Idle829x, InputLocked
    <3>2. CASE s = "work"
      <4>1. key_work.running = "sending"
        BY <2>1, <3>2 DEF KeysInv, SendingInv, InputLocked
      <4>2. CASE Len(q) = 1
        <5>1. Len(Tail(q)) = 0
          BY <1>1, <4>2, HeadTailProperties
        <5>2. Tail(q) = << >>
          BY <1>2, <5>1, EmptySeq
        <5> QED  BY <1>3, <3>2, <5>2 DEF Idle829x
      <4>3. CASE Len(q) # 1
        BY <1>1, <4>1, <4>3 DEF InputLocked
      <4> QED  BY <4>2, <4>3
    <3> QED  BY <3>1, <3>2
  <2> QED  BY <2>2, <2>3 DEF SendingInv
<1>10. KeyInv'
  <2>1. ASSUME power829x = "awake", "keys" \notin disturbed829x', NEW k \in Keys829x
        PROVE  \/ chip829x'.colours[k] = data829x'.intensity[k]
               \/ \E t \in Senders829x : Sets(todo829x'[t], k)
    <3>1. CASE m.op \in {"key", "paint"} /\ m.key = k
      BY <1>7, <1>c, <2>1, <3>1
    <3>2. CASE ~(m.op \in {"key", "paint"} /\ m.key = k)
      <4>1. chip829x'.colours[k] = chip829x.colours[k] /\ data829x'.intensity[k] = data829x.intensity[k]
        BY <1>6, <1>7, <1>c, <3>2
      <4>2. \/ chip829x.colours[k] = data829x.intensity[k]
            \/ \E t \in Senders829x : Sets(todo829x[t], k)
        BY <1>c, <2>1, InvByPlaces DEF KeysInv
      <4>3. ASSUME NEW t \in Senders829x, Sets(todo829x[t], k) PROVE Sets(todo829x'[t], k)
        <5>1. CASE t = s
          BY <1>2, <1>3, <3>2, <4>3, <5>1 DEF q
        <5>2. CASE t # s
          BY <1>3, <4>3, <5>2
        <5> QED  BY <5>1, <5>2
      <4> QED  BY <4>1, <4>2, <4>3
    <3> QED  BY <3>1, <3>2
  <2> QED  BY <1>1, <2>1 DEF KeyInv, Sets
<1>11. OnlyOne => OnlyOne' /\ \A t \in Senders829x \ {s} : todo829x'[t] = << >>
  <2> SUFFICES ASSUME OnlyOne PROVE OnlyOne' /\ \A t \in Senders829x \ {s} : todo829x'[t] = << >>
    OBVIOUS
  <2>1. ~Idle829x(s)
    BY <1>1 DEF Idle829x, q
  <2>2. \A t \in Senders829x \ {s} : todo829x'[t] = << >>
    BY <1>3, <2>1 DEF OnlyOne, Idle829x
  <2> QED  BY <2>2 DEF OnlyOne, Idle829x
<1>12. LevelInv'
  <2>1. \A t \in Senders829x : LevelFirst(todo829x'[t])
    <3>1. \A t \in Senders829x : LevelFirst(todo829x[t])  BY DEF KeysInv, LevelInv, LevelFirst
    <3> QED  BY <1>2, <1>3, <3>1
  <2>2. ASSUME power829x = "awake", "level" \notin disturbed829x'
        PROVE  /\ OnlyOne'
               /\ \A t \in Senders829x : ~Idle829x(t)' => todo829x'[t][1].op # "brightness"
               /\ chip829x'.brightness = data829x'.brightness
    <3>1. OnlyOne /\ "level" \notin disturbed829x
      BY <1>c, <2>2 DEF KeysInv, LevelInv
    <3>2. \A t \in Senders829x \ {s} : Idle829x(t)
      BY <1>1, <3>1 DEF OnlyOne, Idle829x, q
    <3>3. CASE m.op = "brightness"
      <4>1. m.to = data829x.brightness
        <5>1. ~Idle829x(s) /\ todo829x[s][1] = m
          BY <1>1, <1>2 DEF Idle829x, q
        <5> QED  BY <2>2, <3>1, <3>3, <5>1 DEF KeysInv, LevelInv
      <4>2. chip829x'.brightness = data829x'.brightness
        BY <1>6, <1>7, <1>c, <2>2, <3>3, <4>1
      <4> QED  BY <1>2, <1>3, <1>11, <3>1, <4>2 DEF Idle829x
    <3>4. CASE m.op # "brightness"
      <4>1. \A t \in Senders829x : ~Idle829x(t) => todo829x[t][1].op # "brightness"
        BY <1>2, <3>2, <3>4 DEF q
      <4>2. chip829x.brightness = data829x.brightness
        BY <2>2, <3>1, <4>1 DEF KeysInv, LevelInv
      <4>3. chip829x'.brightness = data829x'.brightness
        BY <1>6, <1>7, <1>c, <3>4, <4>2
      <4> QED  BY <1>2, <1>3, <1>11, <3>1, <4>3 DEF Idle829x
    <3> QED  BY <3>3, <3>4
  <2> QED  BY <1>1, <2>1, <2>2 DEF LevelInv, LevelFirst
<1>13. AnimationInv'
  <2>1. ASSUME power829x = "awake", "keys" \notin disturbed829x'
        PROVE  /\ OnlyOne'
               /\ \A t \in Senders829x : Has(todo829x'[t], "animate") => data829x'.mode = MODE_MAP_LENGTH + 1
               /\ chip829x'.animated => \/ data829x'.mode = MODE_MAP_LENGTH + 1
                                        \/ \E t \in Senders829x : Has(todo829x'[t], "paint")
    <3>1. /\ OnlyOne
          /\ \A t \in Senders829x : Has(todo829x[t], "animate") => data829x.mode = MODE_MAP_LENGTH + 1
          /\ chip829x.animated => \/ data829x.mode = MODE_MAP_LENGTH + 1
                                  \/ \E t \in Senders829x : Has(todo829x[t], "paint")
      BY <1>c, <2>1, InvByPlaces DEF KeysInv
    <3>2. ASSUME NEW o, NEW t \in Senders829x, Has(todo829x'[t], o) PROVE Has(todo829x[t], o)
      <4>1. CASE t = s
        BY <1>2, <1>3, <3>2, <4>1 DEF q
      <4>2. CASE t # s
        BY <1>3, <3>2, <4>2
      <4> QED  BY <4>1, <4>2
    <3>3. ASSUME m.op # "paint", NEW t \in Senders829x, Has(todo829x[t], "paint")
          PROVE  Has(todo829x'[t], "paint")
      <4>1. CASE t = s
        BY <1>2, <1>3, <3>3, <4>1 DEF q
      <4>2. CASE t # s
        BY <1>3, <3>3, <4>2
      <4> QED  BY <4>1, <4>2
    <3>4. chip829x'.animated => \/ data829x'.mode = MODE_MAP_LENGTH + 1
                                \/ \E t \in Senders829x : Has(todo829x'[t], "paint")
      <4>1. CASE m.op = "animate"
        <5>1. Has(q, "animate")
          BY <1>2, <4>1
        <5> QED  BY <1>6, <3>1, <5>1 DEF q
      <4>2. CASE m.op = "paint"
        BY <1>7, <1>c, <2>1, <4>2
      <4>3. CASE m.op \notin {"animate", "paint"}
        BY <1>6, <1>7, <1>c, <3>1, <3>3, <4>3
      <4> QED  BY <4>1, <4>2, <4>3
    <3> QED  BY <1>6, <1>11, <3>1, <3>2, <3>4
  <2> QED  BY <1>1, <2>1 DEF AnimationInv, Has
<1> QED  BY <1>8, <1>9, <1>10, <1>12, <1>13 DEF KeysInv

\* The steps of the work that send nothing, sleep and removal keep the invariant.
LEMMA RestKeeps ==
  ASSUME KeysInv,
         \/ \E key \in {"mode", "other"} : KeyPressed(key)
         \/ WorkStarts \/ Suspend829x \/ Remove829x \/ UNCHANGED vars829x
  PROVE  KeysInv'
<1>1. ASSUME UNCHANGED <<data829x, chip829x, todo829x, power829x, disturbed829x>>,
             key_work' \in [pending : BOOLEAN, running : {"no", "started", "sending"}],
             InputLocked => InputLocked'
      PROVE  KeysInv'
  BY <1>1 DEF KeysInv, KeyTypes, SendingInv, KeyInv, LevelInv, AnimationInv, OnlyOne, Idle829x, Quiet829x
<1>2. ASSUME NEW key \in {"mode", "other"}, KeyPressed(key) PROVE KeysInv'
  <2>1. key_work' = key_work \/ key_work' = [key_work EXCEPT !.pending = TRUE]
    BY <1>2 DEF KeyPressed, Notified
  <2> QED  BY <1>1, <1>2, <2>1 DEF KeyPressed, Notified, InputLocked, KeysInv, KeyTypes
<1>3. CASE WorkStarts
  BY <1>1, <1>3 DEF WorkStarts, InputLocked
<1>4. CASE Suspend829x
  BY <1>4 DEF Suspend829x, KeysInv, KeyTypes, SendingInv, KeyInv, LevelInv, AnimationInv, Idle829x,
              InputLocked, ProgramsQuiet, Senders829x
<1>5. CASE Remove829x
  <2>1. /\ UNCHANGED <<todo829x, disturbed829x, key_work>> /\ power829x' = "removed"
        /\ data829x' = [data829x EXCEPT !.brightness = 0] /\ ProgramsQuiet
        /\ chip829x' \in {chip829x, [brightness |-> 0, animated |-> FALSE, colours |-> data829x.intensity]}
    BY <1>5 DEF Remove829x
  <2>2. data829x' \in [brightness : Levels, mode : 0 .. NrModes - 1, intensity : [Keys829x -> STRING]]
    BY <2>1 DEF KeysInv, KeyTypes, Levels
  <2>3. chip829x' \in [brightness : Levels, animated : BOOLEAN, colours : [Keys829x -> STRING \cup {"unset"}]]
    <3> DEFINE dark == [brightness |-> 0, animated |-> FALSE, colours |-> data829x.intensity]
    <3>1. data829x.intensity \in [Keys829x -> STRING \cup {"unset"}] /\ 0 \in Levels
      BY DEF KeysInv, KeyTypes, Levels
    <3>2. dark \in [brightness : Levels, animated : BOOLEAN, colours : [Keys829x -> STRING \cup {"unset"}]]
      BY <3>1
    <3>3. chip829x' = chip829x \/ chip829x' = dark
      BY <2>1
    <3> HIDE DEF dark
    <3> QED  BY <3>2, <3>3 DEF KeysInv, KeyTypes
  <2>4. KeyTypes'
    BY <2>1, <2>2, <2>3 DEF KeysInv, KeyTypes
  <2> QED  BY <2>1, <2>4 DEF KeysInv, SendingInv, KeyInv, LevelInv, AnimationInv, Idle829x, InputLocked,
                          ProgramsQuiet, Senders829x
<1>6. CASE UNCHANGED vars829x
  BY <1>1, <1>6 DEF vars829x, InputLocked, KeysInv, KeyTypes
<1> QED  BY <1>2, <1>3, <1>4, <1>5, <1>6

\* Each step of programs, mode key, controller and sleep keeps the invariant.
LEMMA KeysStep == KeysInv /\ [Next829x]_vars829x => KeysInv'
<1> SUFFICES ASSUME KeysInv, [Next829x]_vars829x PROVE KeysInv'
  OBVIOUS
<1>1. ASSUME NEW p \in Programs829x, NEW k \in Keys829x, StoreColour829x(p, k) PROVE KeysInv'
  <2>1. PICK c \in Colours829x : SetLed829x(p, k, c, data829x.brightness)
    BY <1>1 DEF StoreColour829x
  <2>2. c \in STRING
    <3>1. PICK i \in DOMAIN ModeColours : c = ModeColours[i]
      BY DEF Colours829x, Range
    <3>2. DOMAIN ModeColours = 1 .. Len(ModeColours)
      BY Ite829xAssumption, LenProperties
    <3> QED  BY <3>1, <3>2, Ite829xAssumption, ElementOfSeq
  <2>3. data829x.brightness \in Levels
    BY DEF KeysInv, KeyTypes
  <2> QED  BY <2>1, <2>2, <2>3, SetLedKeeps
<1>2. ASSUME NEW p \in Programs829x, NEW k \in Keys829x, StoreLevel829x(p, k) PROVE KeysInv'
  <2>1. PICK b \in Levels829x : SetLed829x(p, k, data829x.intensity[k], b)
    BY <1>2 DEF StoreLevel829x
  <2>2. data829x.intensity[k] \in STRING /\ b \in Levels
    BY DEF KeysInv, KeyTypes, Levels
  <2> QED  BY <2>1, <2>2, SetLedKeeps
<1> QED  BY <1>1, <1>2, ModeKeeps, ResumeKeeps, SendKeeps829, RestKeeps DEF Next829x

\* For any number of keys, modes, programs and stores, presses, sleeps and lost
\* messages: when nothing is on its way the keyboard shows of its LEDs what
\* neither overlapped nor was lost since it was last sent as a whole.
THEOREM KeysAlwaysShow == Spec829x => []KeysShowLeds
<1>1. Init829x => KeysInv
  <2> SUFFICES ASSUME Init829x PROVE KeysInv
    OBVIOUS
  <2>1. ModeColours[MODE_MAP_LENGTH] \in STRING
    <3>1. MODE_MAP_LENGTH \in 1 .. Len(ModeColours)
      BY Modes DEF MODE_MAP_LENGTH
    <3> QED  BY <3>1, Ite829xAssumption, ElementOfSeq
  <2>2. data829x \in [brightness : Levels, mode : 0 .. NrModes - 1, intensity : [Keys829x -> STRING]]
    BY <2>1, Modes DEF Init829x, Levels
  <2>3. chip829x \in [brightness : Levels, animated : BOOLEAN, colours : [Keys829x -> STRING \cup {"unset"}]]
    <3>1. PICK b \in Levels829x :
            chip829x = [brightness |-> IF "level" \in disturbed829x THEN b ELSE 0, animated |-> FALSE,
                        colours |-> [k \in Keys829x |-> IF "keys" \in disturbed829x THEN "unset"
                                                        ELSE ModeColours[MODE_MAP_LENGTH]]]
      BY DEF Init829x
    <3>2. chip829x.brightness \in Levels
      BY <3>1 DEF Levels
    <3> QED  BY <2>1, <3>1, <3>2 DEF Levels
  <2>4. todo829x \in [Senders829x -> Seq(Messages829x)] /\ \A s \in Senders829x : todo829x[s] = << >>
    <3>1. << >> \in Seq(Messages829x)
      BY EmptySeq
    <3> QED  BY <3>1 DEF Init829x
  <2>5. /\ power829x = "awake" /\ disturbed829x \subseteq {"level", "keys"} /\ chip829x.animated = FALSE
        /\ key_work \in [pending : BOOLEAN, running : {"no", "started", "sending"}]
        /\ "keys" \notin disturbed829x => chip829x.colours = data829x.intensity
        /\ "level" \notin disturbed829x => chip829x.brightness = data829x.brightness
    BY DEF Init829x
  <2>6. KeyTypes
    BY <2>2, <2>3, <2>4, <2>5 DEF KeyTypes
  <2>7. "work" \in Senders829x /\ Len(<< >>) = 0
    BY DEF Senders829x
  <2>8. SendingInv /\ KeyInv /\ LevelInv /\ AnimationInv
    BY <2>4, <2>5, <2>7 DEF SendingInv, KeyInv, LevelInv, AnimationInv, OnlyOne, Idle829x, Quiet829x
  <2> QED  BY <2>6, <2>8 DEF KeysInv
<1>2. KeysInv => KeysShowLeds
  <2> SUFFICES ASSUME KeysInv, Quiet829x, power829x = "awake"
               PROVE  /\ "level" \notin disturbed829x => chip829x.brightness = data829x.brightness
                      /\ "keys" \notin disturbed829x =>
                           /\ chip829x.animated => data829x.mode = MODE_MAP_LENGTH + 1
                           /\ chip829x.colours = data829x.intensity
    BY DEF KeysShowLeds
  <2>1. \A s \in Senders829x : todo829x[s] = << >>
    BY DEF Quiet829x, Idle829x
  <2>2. "level" \notin disturbed829x => chip829x.brightness = data829x.brightness
    BY DEF KeysInv, LevelInv, Quiet829x
  <2>3. \A k : ~Sets(<< >>, k)
    BY DEF Sets
  <2>4. "keys" \notin disturbed829x => \A k \in Keys829x : chip829x.colours[k] = data829x.intensity[k]
    BY <2>1, <2>3, InvByPlaces DEF KeysInv
  <2>5. "keys" \notin disturbed829x => chip829x.colours = data829x.intensity
    BY <2>4 DEF KeysInv, KeyTypes
  <2>6. ~Has(<< >>, "paint")
    BY DEF Has
  <2>7. "keys" \notin disturbed829x /\ chip829x.animated => data829x.mode = MODE_MAP_LENGTH + 1
    BY <2>1, <2>6, InvByPlaces DEF KeysInv
  <2> QED  BY <2>2, <2>5, <2>7
<1> QED  BY <1>1, <1>2, KeysStep, PTL DEF Spec829x

---------------------------------------------------------------------------
(* ITE 8297                                                                *)

Spec8297 == Init8297 /\ [][Next8297]_vars8297

Senders8297 == Leds8297 \cup {"pm"}

\* Unless colours overlapped, one that is on its way is the driver's, and it is
\* the only one; when none is, the controller has it.
ColourInv ==
  /\ DOMAIN message8297 = Senders8297 /\ DOMAIN current_color = Leds8297
  /\ asleep8297 => Sending8297 = {}
  /\ ~overlap8297 =>
       /\ \A s, t \in Sending8297 : s = t
       /\ \A s \in Sending8297 : message8297[s] = current_color
       /\ Sending8297 = {} /\ ~asleep8297 => chip8297 = current_color

\* A colour is never the mark for no message.
LEMMA ColourIsAMessage == ASSUME NEW c, DOMAIN c = Leds8297 PROVE c # NothingToSend
<1>1. DOMAIN NothingToSend = {}
  BY DEF NothingToSend
<1>2. "red" \in Leds8297
  BY DEF Leds8297
<1> QED  BY <1>1, <1>2

\* Each step of the LEDs' works and of sleep keeps the colour.
LEMMA ColourStep == ColourInv /\ [Next8297]_vars8297 => ColourInv'
<1> SUFFICES ASSUME ColourInv, [Next8297]_vars8297 PROVE ColourInv'
  OBVIOUS
<1>1. ASSUME NEW s \in Senders8297, DOMAIN current_color' = Leds8297, PutTogether(s, current_color'),
             message8297[s] = NothingToSend, ~asleep8297', chip8297' = chip8297
      PROVE  ColourInv'
  <2>1. message8297' = [message8297 EXCEPT ![s] = current_color'] /\ overlap8297' = (Sending8297 # {})
    BY <1>1 DEF PutTogether
  <2>2. Sending8297' = Sending8297 \cup {s}
    BY <1>1, <2>1, ColourIsAMessage DEF ColourInv, Sending8297, Senders8297
  <2>3. DOMAIN message8297' = Senders8297 /\ message8297'[s] = current_color'
    BY <1>1, <2>1 DEF ColourInv
  <2> QED  BY <1>1, <2>1, <2>2, <2>3 DEF ColourInv
<1>2. ASSUME NEW led \in Leds8297, SetChannel(led) PROVE ColourInv'
  <2>1. DOMAIN current_color' = Leds8297
    BY <1>2 DEF SetChannel, ColourInv
  <2> QED  BY <1>1, <1>2, <2>1 DEF SetChannel, Senders8297
<1>3. CASE Resume8297
  <2>1. message8297["pm"] = NothingToSend
    BY <1>3 DEF Resume8297, ColourInv, Sending8297
  <2> QED  BY <1>1, <1>3, <2>1 DEF Resume8297, Senders8297, ColourInv
<1>4. ASSUME NEW s \in Senders8297, WriteColor(s) PROVE ColourInv'
  <2>1. /\ s \in Sending8297 /\ message8297' = [message8297 EXCEPT ![s] = NothingToSend]
        /\ UNCHANGED <<current_color, asleep8297>>
        /\ \/ chip8297' = message8297[s] /\ UNCHANGED overlap8297
           \/ overlap8297' = TRUE /\ UNCHANGED chip8297
    BY <1>4 DEF WriteColor
  <2>2. Sending8297' = Sending8297 \ {s} /\ DOMAIN message8297' = Senders8297
    BY <2>1 DEF ColourInv, Sending8297, Senders8297
  <2>3. \A t \in Sending8297' : message8297'[t] = message8297[t]
    BY <2>1, <2>2 DEF ColourInv
  <2> QED  BY <2>1, <2>2, <2>3 DEF ColourInv
<1>5. CASE Suspend8297
  <2>1. Sending8297' = {}
    BY <1>5 DEF Suspend8297, Sending8297
  <2> QED  BY <1>5, <2>1 DEF Suspend8297, ColourInv
<1>6. ASSUME UNCHANGED <<current_color, message8297, chip8297, asleep8297, overlap8297>> PROVE ColourInv'
  BY <1>6 DEF ColourInv, Sending8297
<1>7. CASE \E led \in Leds8297, v \in Levels8297 : Store8297(led, v)
  BY <1>6, <1>7 DEF Store8297
<1> QED  BY <1>2, <1>3, <1>4, <1>5, <1>6, <1>7 DEF Next8297, vars8297, Senders8297

\* For any stores, sleeps and failures: the controller shows the driver's
\* colour when nothing is on its way, unless colours overlapped or were lost.
THEOREM ColourAlwaysShows == Spec8297 => []ColourShowsChannels
<1>1. Init8297 => ColourInv
  <2> SUFFICES ASSUME Init8297 PROVE ColourInv
    OBVIOUS
  <2>1. message8297 = [s \in Senders8297 |-> NothingToSend] /\ current_color = Black
        /\ chip8297 = Black
    BY DEF Init8297, Senders8297
  <2>2. Sending8297 = {} /\ DOMAIN message8297 = Senders8297 /\ DOMAIN current_color = Leds8297
    BY <2>1 DEF Sending8297, Senders8297, Black
  <2> QED  BY <2>1, <2>2 DEF ColourInv
<1>2. ColourInv => ColourShowsChannels
  BY DEF ColourInv, ColourShowsChannels
<1> QED  BY <1>1, <1>2, ColourStep, PTL DEF Spec8297

---------------------------------------------------------------------------
(* Both RGB controllers, beside the other drivers                          *)

\* Whatever the other drivers do, each of the two controllers goes through the
\* states of its own specification.
LEMMA RgbParts == Spec => Spec829x /\ Spec8297
<1>1. MCInit => Init829x /\ Init8297
  BY DEF MCInit
<1>2. [MCNext]_<<part, vars8291, varsLb, vars829x, vars8297, vars04, varsIo>>
        => [Next829x]_vars829x /\ [Next8297]_vars8297
  BY DEF MCNext, Only
<1> QED  BY <1>1, <1>2, PTL DEF Spec, Spec829x, Spec8297

\* Once nothing is being sent, what the LED devices say is what the two
\* controllers show, of all that neither overlapped nor was lost since it was
\* last sent as a whole: colours of keys, brightness and animation through
\* modes, stores, sleep and a work that goes on sending in it (ite_829x.c), and
\* a colour through stores and sleep (ite_8297.c).
THEOREM RgbAlwaysShows == Spec => []RgbShowsLeds
<1> QED  BY RgbParts, KeysAlwaysShow, ColourAlwaysShows, PTL DEF RgbShowsLeds

---------------------------------------------------------------------------
(* Power limits                                                            *)

TdpSpec == InitIo /\ [][UniwillNext]_varsIo

\* A row of the tables: the first two limits fit a byte, the third in steps of 2 W.
Row(t) ==
  /\ t.min[1] \in Nat /\ t.min[2] \in Nat /\ t.min[3] \in Nat
  /\ t.max[1] \in 0 .. 255 /\ t.max[2] \in 0 .. 255 /\ t.max[3] \in 0 .. 511

\* Every row of the tables of tuxedo_io.c is of that kind.
LEMMA Rows == \A n \in DOMAIN TdpTables : Row(TdpTables[n])
<1>1. DOMAIN TdpTables =
        {"ph4tux", "ph4trx", "ph4tqx", "phxaxx_mk1", "phxaxx_mk2", "phxpxx", "pfxluxg", "gmxngxx",
         "gmxmgxx", "gmxtgxx", "gmxzgxx", "gmxagxx", "gmxrgxx", "gmxpxxx", "gmxxgxx",
         "gmxixxb_mb1", "gmxixxb_mb2", "gmxixxn", "gmxixxa", "gmxhgxa", "x6ar5xx", "x6fr5xx",
         "xxxx45xs", "x6ar55xu", "x5ar45xs", "x6xx45xu", "xxaf5xxx"}
  BY DEF TdpTables
<1>2. /\ TdpTables["ph4tux"] = Two(38, 38)
      /\ TdpTables["ph4trx"] = Two(50, 50)
      /\ TdpTables["ph4tqx"] = Two(50, 50)
      /\ TdpTables["phxaxx_mk1"] = Two(50, 60)
      /\ TdpTables["phxaxx_mk2"] = Two(55, 100)
      /\ TdpTables["phxpxx"] = From(5, 45, 60, 110)
      /\ TdpTables["pfxluxg"] = From(5, 35, 35, 40)
      /\ TdpTables["gmxngxx"] = From(5, 80, 80, 95)
      /\ TdpTables["gmxmgxx"] = From(5, 120, 120, 200)
  BY DEF TdpTables
<1>3. /\ TdpTables["gmxtgxx"] = From(5, 120, 120, 200)
      /\ TdpTables["gmxzgxx"] = From(5, 80, 80, 95)
      /\ TdpTables["gmxagxx"] = From(5, 120, 120, 215)
      /\ TdpTables["gmxrgxx"] = From(5, 100, 100, 110)
      /\ TdpTables["gmxpxxx"] = From(5, 130, 130, 200)
      /\ TdpTables["gmxxgxx"] = From(5, 80, 80, 100)
      /\ TdpTables["gmxixxb_mb1"] = From(5, 205, 205, 400)
      /\ TdpTables["gmxixxb_mb2"] = From(5, 160, 160, 250)
      /\ TdpTables["gmxixxn"] = From(5, 160, 160, 250)
  BY DEF TdpTables
<1>4. /\ TdpTables["gmxixxa"] = From(5, 140, 140, 200)
      /\ TdpTables["gmxhgxa"] = From(5, 90, 90, 100)
      /\ TdpTables["x6ar5xx"] = From(5, 210, 210, 420)
      /\ TdpTables["x6fr5xx"] = From(25, 162, 162, 195)
      /\ TdpTables["xxxx45xs"] = From(10, 100, 100, 105)
      /\ TdpTables["x6ar55xu"] = From(10, 145, 155, 290)
      /\ TdpTables["x5ar45xs"] = From(10, 90, 90, 230)
      /\ TdpTables["x6xx45xu"] = From(10, 100, 100, 105)
      /\ TdpTables["xxaf5xxx"] = From(10, 210, 210, 420)
  BY DEF TdpTables
<1>5. /\ Row(TdpTables["ph4tux"])
      /\ Row(TdpTables["ph4trx"])
      /\ Row(TdpTables["ph4tqx"])
      /\ Row(TdpTables["phxaxx_mk1"])
      /\ Row(TdpTables["phxaxx_mk2"])
      /\ Row(TdpTables["phxpxx"])
      /\ Row(TdpTables["pfxluxg"])
      /\ Row(TdpTables["gmxngxx"])
      /\ Row(TdpTables["gmxmgxx"])
  BY <1>2 DEF Row, Two, From, Table
<1>6. /\ Row(TdpTables["gmxtgxx"])
      /\ Row(TdpTables["gmxzgxx"])
      /\ Row(TdpTables["gmxagxx"])
      /\ Row(TdpTables["gmxrgxx"])
      /\ Row(TdpTables["gmxpxxx"])
      /\ Row(TdpTables["gmxxgxx"])
      /\ Row(TdpTables["gmxixxb_mb1"])
      /\ Row(TdpTables["gmxixxb_mb2"])
      /\ Row(TdpTables["gmxixxn"])
  BY <1>3 DEF Row, Two, From, Table
<1>7. /\ Row(TdpTables["gmxixxa"])
      /\ Row(TdpTables["gmxhgxa"])
      /\ Row(TdpTables["x6ar5xx"])
      /\ Row(TdpTables["x6fr5xx"])
      /\ Row(TdpTables["xxxx45xs"])
      /\ Row(TdpTables["x6ar55xu"])
      /\ Row(TdpTables["x5ar45xs"])
      /\ Row(TdpTables["x6xx45xu"])
      /\ Row(TdpTables["xxaf5xxx"])
  BY <1>4 DEF Row, Two, From, Table
<1> QED  BY <1>1, <1>5, <1>6, <1>7

\* What is in force of the limit i is what was accepted of it last: the byte
\* holds it in watts, or in steps of 2 W where the firmware counts in those and
\* the driver knew it.
InForce(i) ==
  /\ asked_tdp[i] \in 1 .. TdpTables[machine.table].max[i + 1]
  /\ i \notin misjudged => tdp[i] = IF i = 2 /\ machine.double THEN asked_tdp[i] \div 2 ELSE asked_tdp[i]
  /\ i \in misjudged => i = 2 /\ machine.double /\ tdp[i] = asked_tdp[i] % 256

\* The driver never takes watts for steps of 2 W, and errs in nothing once it
\* has read everything.
Judgement ==
  /\ uw_feats \in [known : BOOLEAN, loaded : BOOLEAN, model : BOOLEAN, double : BOOLEAN]
  /\ uw_feats.double => machine.double
  /\ uw_feats.loaded => uw_feats.double = machine.double

TdpInv ==
  /\ machine \in Machines
  /\ Judgement
  /\ DOMAIN tdp = Limits /\ DOMAIN asked_tdp = Limits
  /\ \A i \in Limits : asked_tdp[i] # Unasked => InForce(i)

\* What Row says of the machine's own limits.
LEMMA OwnRow ==
  ASSUME machine \in Machines, NEW i \in Limits
  PROVE  /\ TdpTables[machine.table].min[i + 1] \in Nat
         /\ TdpTables[machine.table].max[i + 1] \in 0 .. 511
         /\ (i # 2 \/ ~machine.double) => TdpTables[machine.table].max[i + 1] <= 255
<1> DEFINE row == TdpTables[machine.table]
<1>1. machine.table \in DOMAIN TdpTables /\ (row.max[3] > 255 => machine.double)
  BY DEF Machines
<1>2. Row(row)
  BY <1>1, Rows
<1> HIDE DEF row
<1>3. /\ row.min[1] \in Nat /\ row.min[2] \in Nat /\ row.min[3] \in Nat
      /\ row.max[1] \in 0 .. 255 /\ row.max[2] \in 0 .. 255 /\ row.max[3] \in 0 .. 511
  BY <1>2 DEF Row
<1>4. PICK a, b, c : a = row.max[1] /\ b = row.max[2] /\ c = row.max[3]
  OBVIOUS
<1>5. a \in 0 .. 511 /\ a <= 255 /\ b \in 0 .. 511 /\ b <= 255 /\ c \in 0 .. 511
  <2>1. a \in 0 .. 255 /\ b \in 0 .. 255 /\ c \in 0 .. 511
    BY <1>3, <1>4, Zenon
  <2> QED  BY <2>1
<1>9. row.min[1] \in Nat /\ row.max[1] \in 0 .. 511 /\ row.max[1] <= 255
  BY ONLY <1>3, <1>4, <1>5, Zenon
<1>10. row.min[2] \in Nat /\ row.max[2] \in 0 .. 511 /\ row.max[2] <= 255
  BY ONLY <1>3, <1>4, <1>5, Zenon
<1>6. ~machine.double => c <= 255
  <2>1. c > 255 => machine.double
    BY <1>1, <1>4, Zenon
  <2>2. c > 255 \/ c <= 255
    BY <1>5
  <2> QED  BY <2>1, <2>2, Zenon
<1>11. row.min[3] \in Nat /\ row.max[3] \in 0 .. 511 /\ (~machine.double => row.max[3] <= 255)
  BY ONLY <1>3, <1>4, <1>5, <1>6, Zenon
<1>7. i + 1 \in {1, 2, 3} /\ (i # 2 => i + 1 # 3)
  BY DEF Limits
<1>8. /\ row.min[i + 1] \in Nat
      /\ row.max[i + 1] \in 0 .. 511
      /\ (i # 2 \/ ~machine.double) => row.max[i + 1] <= 255
  <2>1. PICK k : k = i + 1
    OBVIOUS
  <2>2. k = 1 \/ k = 2 \/ k = 3
    BY <1>7, <2>1
  <2>3. /\ row.min[k] \in Nat
        /\ row.max[k] \in 0 .. 511
        /\ (k # 3 \/ ~machine.double) => row.max[k] <= 255
    <3>1. CASE k = 1
      BY ONLY <1>9, <3>1, Zenon
    <3>2. CASE k = 2
      BY ONLY <1>10, <3>2, Zenon
    <3>3. CASE k = 3
      BY ONLY <1>11, <3>3, Zenon
    <3> QED  BY <2>2, <3>1, <3>2, <3>3, Zenon
  <2>4. i # 2 => k # 3
    BY <1>7, <2>1
  <2> QED  BY <2>1, <2>3, <2>4, Zenon
<1> QED  BY <1>8, Zenon DEF row

\* A value that is accepted is in the machine's table, and its byte holds it,
\* unless the driver takes steps of 2 W for watts.
LEMMA Written ==
  ASSUME machine \in Machines, Judgement, NEW i \in Limits,
         NEW value \in uw_get_tdp_min(i) .. uw_get_tdp_max(i), Supported(i)
  PROVE  /\ value \in 1 .. TdpTables[machine.table].max[i + 1]
         /\ i # 2 \/ uw_feats.double = machine.double =>
              TdpByte(i, value) = IF i = 2 /\ machine.double THEN value \div 2 ELSE value
         /\ i = 2 /\ uw_feats.double # machine.double =>
              machine.double /\ TdpByte(i, value) = value % 256
<1> DEFINE least == TdpTables[machine.table].min[i + 1]
           greatest == TdpTables[machine.table].max[i + 1]
<1>1. least \in Nat /\ greatest \in 0 .. 511 /\ ((i # 2 \/ ~machine.double) => greatest <= 255)
  BY OwnRow
<1>2. /\ uw_get_tdp_min(i) = IF tdp_defs /\ least > 0 THEN least ELSE -19
      /\ uw_get_tdp_max(i) = IF tdp_defs /\ greatest > 0 THEN greatest ELSE -19
  BY DEF uw_get_tdp_min, uw_get_tdp_max, OrNoDevice, ENODEV
<1>3. uw_get_tdp_min(i) >= 0
  BY DEF Supported
<1>4. \A b \in BOOLEAN : uw_feats.double = b => Doubled(i) = (i = 2 /\ b)
  BY DEF Doubled
<1>5. machine.double \in BOOLEAN /\ uw_feats.double \in BOOLEAN /\ (uw_feats.double => machine.double)
  BY DEF Machines, Judgement
<1> HIDE DEF least, greatest
<1>6. uw_get_tdp_min(i) = least /\ least > 0 /\ uw_get_tdp_max(i) \in {greatest, -19}
  BY <1>1, <1>2, <1>3
<1>7. value \in 1 .. greatest /\ value \in 1 .. 511
  BY <1>1, <1>6
<1>8. value \div 2 \in 0 .. 255 /\ (value \div 2) % 256 = value \div 2
  <2>1. value \div 2 \in 0 .. 255
    BY <1>7
  <2> QED  BY <2>1
<1>9. (i # 2 \/ ~machine.double) => value % 256 = value
  BY <1>1, <1>7
<1>10. TdpByte(i, value) = IF i = 2 /\ uw_feats.double THEN (value \div 2) % 256 ELSE value % 256
  BY <1>4, <1>5 DEF TdpByte
<1>11. CASE i = 2 /\ uw_feats.double
  BY <1>5, <1>7, <1>8, <1>10, <1>11 DEF greatest
<1>12. CASE ~(i = 2 /\ uw_feats.double)
  <2>1. TdpByte(i, value) = value % 256
    BY <1>10, <1>12
  <2> QED  BY <1>5, <1>7, <1>9, <1>12, <2>1 DEF greatest
<1> QED  BY <1>11, <1>12

\* Reading the machine's features, by whom and however much of it fails, keeps
\* the judgement.
LEMMA ReadKeepsJudgement ==
  ASSUME machine \in Machines, Judgement, NEW known \in BOOLEAN, ReadFeatures(known), machine' = machine
  PROVE  Judgement'
<1>0. machine.double \in BOOLEAN
  BY DEF Machines
<1>1. CASE uw_feats.loaded /\ uw_feats' = [uw_feats EXCEPT !.known = known]
  BY <1>1 DEF Judgement
<1>2. ASSUME NEW model \in BOOLEAN, NEW double \in BOOLEAN, NEW others \in BOOLEAN,
             uw_feats' = [known |-> known, loaded |-> model /\ double /\ others, model |-> model,
                          double |-> IF double THEN machine.double ELSE uw_feats.double]
      PROVE  Judgement'
  <2>1. uw_feats'.double = machine.double \/ (~double /\ uw_feats'.double = uw_feats.double)
    BY <1>2
  <2>2. uw_feats'.loaded => double
    BY <1>2
  <2>3. /\ uw_feats' \in [known : BOOLEAN, loaded : BOOLEAN, model : BOOLEAN, double : BOOLEAN]
        /\ uw_feats'.double => machine.double
    BY <1>0, <1>2 DEF Judgement
  <2>4. uw_feats'.loaded => uw_feats'.double = machine.double
    BY <2>1, <2>2
  <2> QED  BY <2>3, <2>4 DEF Judgement
<1> QED  BY <1>1, <1>2 DEF ReadFeatures

\* Reading features, identifying a machine and a limit keep what is known of the
\* limits.
LEMMA TdpStep == TdpInv /\ [UniwillNext]_varsIo => TdpInv'
<1> SUFFICES ASSUME TdpInv, [UniwillNext]_varsIo PROVE TdpInv'
  OBVIOUS
<1>1. CASE IdentifyUniwill \/ KeyboardReadsFeatures
  <2>1. UNCHANGED <<machine, tdp, asked_tdp, misjudged>> /\ \E known \in BOOLEAN : ReadFeatures(known)
    BY <1>1 DEF IdentifyUniwill, KeyboardReadsFeatures, limitVars, TdpInv, Judgement
  <2>2. Judgement'
    BY <2>1, ReadKeepsJudgement DEF TdpInv
  <2> QED  BY <2>1, <2>2 DEF TdpInv, InForce
<1>2. ASSUME NEW i \in Limits, NEW v \in ValuesNear(i), SetTdp(i, v) PROVE TdpInv'
  <2>1. machine' = machine /\ uw_feats' = uw_feats
    BY <1>2 DEF SetTdp
  <2>2. Judgement'
    BY <2>1 DEF TdpInv, Judgement
  <2>3. CASE UNCHANGED limitVars
    BY <2>1, <2>2, <2>3 DEF TdpInv, InForce, limitVars
  <2>4. ASSUME Supported(i), v \in uw_get_tdp_min(i) .. uw_get_tdp_max(i),
               tdp' = [tdp EXCEPT ![i] = TdpByte(i, v)], asked_tdp' = [asked_tdp EXCEPT ![i] = v],
               misjudged' = IF i = 2 /\ uw_feats.double # machine.double
                            THEN misjudged \cup {i} ELSE misjudged \ {i}
        PROVE  TdpInv'
    <3>1. ASSUME NEW j \in Limits, asked_tdp'[j] # Unasked PROVE InForce(j)'
      <4>1. CASE j # i
        <5>1. j \in misjudged' <=> j \in misjudged
          BY <2>4, <4>1
        <5>2. tdp'[j] = tdp[j] /\ asked_tdp'[j] = asked_tdp[j] /\ InForce(j)
          BY <2>4, <3>1, <4>1 DEF TdpInv
        <5> QED  BY <2>1, <5>1, <5>2 DEF InForce
      <4>2. CASE j = i
        <5>1. asked_tdp'[j] = v /\ tdp'[j] = TdpByte(j, v)
          BY <2>4, <4>2 DEF TdpInv
        <5>2. /\ v \in 1 .. TdpTables[machine.table].max[j + 1]
              /\ j # 2 \/ uw_feats.double = machine.double =>
                   TdpByte(j, v) = IF j = 2 /\ machine.double THEN v \div 2 ELSE v
              /\ j = 2 /\ uw_feats.double # machine.double => machine.double /\ TdpByte(j, v) = v % 256
          BY <2>4, <4>2, Written DEF TdpInv
        <5>3. j \in misjudged' <=> j = 2 /\ uw_feats.double # machine.double
          BY <2>4, <4>2
        <5> QED  BY <2>1, <5>1, <5>2, <5>3 DEF InForce
      <4> QED  BY <4>1, <4>2
    <3> QED  BY <2>1, <2>2, <2>4, <3>1 DEF TdpInv
  <2> QED  BY <1>2, <2>3, <2>4 DEF SetTdp
<1>3. CASE SetProfile \/ UNCHANGED varsIo
  BY <1>3 DEF SetProfile, varsIo, limitVars, TdpInv, Judgement, InForce
<1> QED  BY <1>1, <1>2, <1>3 DEF UniwillNext

\* uw_set_tdp writes a limit as one byte, in watts or in steps of 2 W.  Whatever
\* reads of the features and of the model byte failed before: what the firmware
\* has in force is what was accepted, up to one watt and never above the table's
\* greatest value, or, if the driver did not know of the steps, twice that; it
\* knows once it has read everything, and then uw_get_tdp tells what is in force.
THEOREM LimitsAsAsked == TdpSpec => []TdpAsAsked
<1>1. InitIo => TdpInv
  BY DEF InitIo, TdpInv, Judgement, Unasked
<1>2. TdpInv => TdpAsAsked
  <2>0. TdpInv => (uw_feats.loaded => uw_feats.double = machine.double)
    BY DEF TdpInv, Judgement
  <2> SUFFICES ASSUME TdpInv, NEW i \in Limits, asked_tdp[i] # Unasked
               PROVE  LET watts == tdp[i] * (IF i = 2 /\ machine.double THEN 2 ELSE 1) IN
                      /\ i \notin misjudged => /\ watts \in {asked_tdp[i], asked_tdp[i] - 1}
                                              /\ watts <= TdpTables[machine.table].max[i + 1]
                      /\ i \in misjudged => machine.double /\ watts = 2 * (asked_tdp[i] % 256)
                      /\ Supported(i) /\ uw_feats.loaded => uw_get_tdp(i) = watts
    BY <2>0 DEF TdpAsAsked
  <2>1. InForce(i) /\ TdpTables[machine.table].max[i + 1] \in 0 .. 511
    BY OwnRow DEF TdpInv
  <2>2. PICK a, m, b : a = asked_tdp[i] /\ m = TdpTables[machine.table].max[i + 1] /\ b = tdp[i]
    OBVIOUS
  <2>3. /\ m \in 0 .. 511 /\ a \in 1 .. m
        /\ i \notin misjudged => b = IF i = 2 /\ machine.double THEN a \div 2 ELSE a
        /\ i \in misjudged => i = 2 /\ machine.double /\ b = a % 256
    BY <2>1, <2>2 DEF InForce
  <2>4. Supported(i) /\ uw_feats.loaded => uw_get_tdp(i) = IF i = 2 /\ machine.double THEN b * 2 ELSE b
    BY <2>2 DEF TdpInv, Judgement, uw_get_tdp, Doubled
  <2>5. CASE i = 2 /\ machine.double
    <3>1. b * (IF i = 2 /\ machine.double THEN 2 ELSE 1) = b * 2
      BY <2>5
    <3>2. i \notin misjudged => b * 2 \in {a, a - 1} /\ b * 2 <= m
      BY <2>3, <2>5
    <3>3. i \in misjudged => machine.double /\ b * 2 = 2 * (a % 256)
      BY <2>3, <2>5
    <3> QED  BY <2>2, <2>4, <2>5, <3>1, <3>2, <3>3
  <2>6. CASE ~(i = 2 /\ machine.double)
    <3>1. i \notin misjudged /\ b = a
      BY <2>3, <2>6
    <3>2. b * (IF i = 2 /\ machine.double THEN 2 ELSE 1) = b
      BY <2>3, <2>6, <3>1
    <3>3. b \in {a, a - 1} /\ b <= m
      BY <2>3, <3>1
    <3> QED  BY <2>2, <2>4, <2>6, <3>1, <3>2, <3>3
  <2> QED  BY <2>5, <2>6
<1> QED  BY <1>1, <1>2, TdpStep, PTL DEF TdpSpec

---------------------------------------------------------------------------
(* ITE 8291.                                                               *)

Triples == (0 .. 255) \X (0 .. 255) \X (0 .. 255)
Rgb == [1 .. 3 -> 0 .. 255]

\* A corrected colour, and that it keeps its value as a byte.
Corrected(factor, x) == (factor * x) \div 255
FitsByte(factor, x) == Corrected(factor, x) % 256 = Corrected(factor, x)

\* A correction whose factors and colours all fit does not wrap.
LEMMA FittingIsExact ==
  ASSUME NEW f, NEW rgb, \A i \in 1 .. 3 : FitsByte(f[i], rgb[i])
  PROVE  Times(f, rgb) = Exact(f, rgb)
BY Zenon DEF FitsByte, Corrected, Times, Exact

\* A factor of at most 255 keeps a colour within a byte.
LEMMA FactorFits ==
  ASSUME NEW f, NEW rgb, \A i \in 1 .. 3 : f[i] \in 0 .. 255 /\ rgb[i] \in 0 .. 255
  PROVE  Times(f, rgb) = Exact(f, rgb) /\ \A i \in 1 .. 3 : Exact(f, rgb)[i] \in 0 .. 255
<1>1. ASSUME NEW a \in 0 .. 255, NEW x \in 0 .. 255
      PROVE  Corrected(a, x) \in 0 .. 255 /\ FitsByte(a, x)
  <2>1. PICK p : p = a * x  OBVIOUS
  <2>2. p \in Int /\ 0 <= p /\ p <= 255 * x  BY <2>1
  <2>3. 0 <= p /\ p <= 255 * 255  BY <2>2
  <2>4. p \div 255 \in 0 .. 255  BY <2>2, <2>3
  <2>5. PICK d : d = p \div 255  OBVIOUS
  <2>6. d % 256 = d  BY <2>4, <2>5
  <2> QED  BY <2>1, <2>4, <2>5, <2>6 DEF Corrected, FitsByte
<1>2. \A i \in 1 .. 3 : Corrected(f[i], rgb[i]) \in 0 .. 255 /\ FitsByte(f[i], rgb[i])
  BY <1>1
<1>3. \A i \in 1 .. 3 : Exact(f, rgb)[i] = Corrected(f[i], rgb[i])  BY Zenon DEF Exact, Corrected
<1> QED  BY <1>2, <1>3, FittingIsExact

\* No correction of the driver leaves the byte, also where a factor is
\* more than 255: that is for keys that were made darker before.
LEMMA NoColourWraps ==
  ASSUME NEW q \in Quirks, NEW rgb \in Triples
  PROVE  LET all == Exact(q.all, rgb)
         IN  /\ Times(q.all, rgb) = all
             /\ Times(q.bottom, all) = Exact(q.bottom, all)
             /\ Times(q.top, all) = Exact(q.top, all)
<1> DEFINE all == Exact(q.all, rgb)
<1>1. \A i \in 1 .. 3 : rgb[i] \in 0 .. 255  BY DEF Triples
<1>2. \A i \in 1 .. 3 : q.all[i] \in 0 .. 255 /\ q.top[i] \in 0 .. 255
  BY DEF Quirks, Plain
<1>3. Times(q.all, rgb) = all /\ \A i \in 1 .. 3 : all[i] \in 0 .. 255  BY <1>1, <1>2, FactorFits
<1>4. Times(q.top, all) = Exact(q.top, all)  BY <1>2, <1>3, FactorFits
<1>5. \/ \A i \in 1 .. 3 : q.bottom[i] \in 0 .. 255
      \/ q.all = <<155, 255, 140>> /\ q.bottom = <<279, 255, 282>>
  BY DEF Quirks, Plain
<1>6. CASE \A i \in 1 .. 3 : q.bottom[i] \in 0 .. 255
  <2>1. Times(q.bottom, all) = Exact(q.bottom, all)  BY <1>3, <1>6, FactorFits
  <2> QED  BY <1>3, <1>4, <2>1
<1>7. CASE q.all = <<155, 255, 140>> /\ q.bottom = <<279, 255, 282>>
  <2>1. /\ all[1] = (155 * rgb[1]) \div 255 /\ all[2] = (255 * rgb[2]) \div 255
        /\ all[3] = (140 * rgb[3]) \div 255
    BY <1>7 DEF Exact
  <2>2. all[1] \in 0 .. 155 /\ all[2] \in 0 .. 255 /\ all[3] \in 0 .. 140  BY <1>1, <2>1
  <2> HIDE DEF all
  <2>3. FitsByte(279, all[1]) /\ FitsByte(255, all[2]) /\ FitsByte(282, all[3])
    <3>1. ASSUME NEW a \in 0 .. 155  PROVE FitsByte(279, a)
      <4>1. PICK d : d = (279 * a) \div 255  OBVIOUS
      <4>2. d \in 0 .. 255  BY <4>1
      <4> QED  BY <4>1, <4>2 DEF FitsByte, Corrected
    <3>2. ASSUME NEW a \in 0 .. 255  PROVE FitsByte(255, a)
      <4>1. PICK d : d = (255 * a) \div 255  OBVIOUS
      <4>2. d \in 0 .. 255  BY <4>1
      <4> QED  BY <4>1, <4>2 DEF FitsByte, Corrected
    <3>3. ASSUME NEW a \in 0 .. 140  PROVE FitsByte(282, a)
      <4>1. PICK d : d = (282 * a) \div 255  OBVIOUS
      <4>2. d \in 0 .. 255  BY <4>1
      <4> QED  BY <4>1, <4>2 DEF FitsByte, Corrected
    <3>4. FitsByte(279, all[1])  BY <2>2, <3>1
    <3>5. FitsByte(255, all[2])  BY <2>2, <3>2
    <3>6. FitsByte(282, all[3])  BY <2>2, <3>3
    <3> QED  BY <3>4, <3>5, <3>6
  <2>4. \A i \in 1 .. 3 : FitsByte(q.bottom[i], all[i])
    <3>1. q.bottom[1] = 279 /\ q.bottom[2] = 255 /\ q.bottom[3] = 282  BY <1>7
    <3> QED  BY <2>3, <3>1
  <2>5. Times(q.bottom, all) = Exact(q.bottom, all)  BY <2>4, FittingIsExact
  <2> QED  BY <1>3, <1>4, <2>5 DEF all
<1> QED  BY <1>3, <1>4, <1>5, <1>6, <1>7

\* A key's place in the frame is its row and its column.
LEMMA PlaceInRow ==
  ASSUME NEW c \in Channels
  PROVE  /\ c \in Nat /\ c \div LedsPerRow \in 0 .. NrRows - 1
         /\ ((c \div LedsPerRow) * LedsPerRow) + (c % LedsPerRow) = c
<1>0. NrRows \in Nat \ {0} /\ LedsPerRow \in Nat \ {0}  BY Ite8291Assumption
<1>1. ASSUME NEW n \in Nat, NEW b \in Nat \ {0}, NEW a \in 0 .. n * b - 1
      PROVE  a \in Nat /\ a \div b \in 0 .. n - 1 /\ ((a \div b) * b) + (a % b) = a
  <2>1. PICK q : q = a \div b  OBVIOUS
  <2>2. a \in Nat /\ n * b \in Nat  OBVIOUS
  <2>3. q \in Nat /\ (q * b) + (a % b) = a /\ a % b >= 0 /\ a % b \in Int  BY <2>1, <2>2
  <2>4. q < n
    <3> SUFFICES ASSUME q >= n  PROVE FALSE  BY <2>3
    <3>1. q * b >= n * b  BY <2>3
    <3> QED  BY <2>2, <2>3, <3>1
  <2> QED  BY <2>1, <2>2, <2>3, <2>4
<1> QED  BY <1>0, <1>1 DEF Channels

Msgs == [op : {"params", "level"}, arg : 0 .. 50] \cup [op : {"announce", "report"}, arg : 0 .. NrRows - 1]
        \cup [op : {"colour"}, arg : Channels] \cup [op : {"power"}, arg : BOOLEAN]
        \cup [op : {"off"}, arg : {0}]

\* What is sent to a controller of its kind.
MsgOps(zones) == IF zones THEN {"params", "colour", "power", "level", "off"}
          ELSE {"params", "announce", "report", "off"}
Legal(q, zones) == q \in Seq(Msgs) /\ \A i \in 1 .. Len(q) : q[i].op \in MsgOps(zones)

\* What is sent while the machine is awake, and while it is not.
Lighting(q) == \A i \in 1 .. Len(q) : /\ q[i].op \notin {"level", "off"}
                                      /\ q[i].op = "power" => q[i].arg = TRUE
Darkening(q) == \A i \in 1 .. Len(q) : /\ q[i].op \in {"params", "level"} => q[i].arg = 0
                                       /\ q[i].op = "power" => q[i].arg = FALSE

\* Each row is announced just before.
Announced(q) == \A i \in 1 .. Len(q) :
    q[i].op = "report" /\ i > 1 => q[i - 1].op = "announce" /\ q[i - 1].arg = q[i].arg
AtLevel(q, level) == \A i \in 1 .. Len(q) : q[i].op = "params" => q[i].arg = level

Includes(q, op) == \E i \in 1 .. Len(q) : q[i].op = op
Shows(m, c, zones) == IF zones THEN m.op = "colour" /\ m.arg = c
                       ELSE m.op = "report" /\ m.arg = c \div LedsPerRow
ContainsKey(q, c, zones) == \E i \in 1 .. Len(q) : Shows(q[i], c, zones)

\* All that it takes to show every key, from whatever there was before.
Complete(q, level, zones) ==
    /\ Legal(q, zones) /\ Lighting(q) /\ Announced(q) /\ AtLevel(q, level) /\ q # << >> /\ q[1].op # "report"
    /\ Includes(q, "params") /\ \A c \in Channels : ContainsKey(q, c, zones)

\* What is left of a list after its first message.
LEMMA TailOfMessages ==
  ASSUME NEW q \in Seq(Msgs), NEW zones, q # << >>
  PROVE  /\ q[1] \in Msgs /\ Head(q) = q[1]
         /\ Tail(q) \in Seq(Msgs)
         /\ Legal(q, zones) => Legal(Tail(q), zones) /\ q[1].op \in MsgOps(zones)
         /\ Lighting(q) => /\ Lighting(Tail(q)) /\ q[1].op \notin {"level", "off"}
                           /\ q[1].op = "power" => q[1].arg = TRUE
         /\ Darkening(q) => /\ Darkening(Tail(q)) /\ (q[1].op \in {"params", "level"} => q[1].arg = 0)
                            /\ q[1].op = "power" => q[1].arg = FALSE
         /\ Announced(q) => /\ Announced(Tail(q))
                            /\ Tail(q) # << >> /\ Tail(q)[1].op = "report" =>
                                 q[1].op = "announce" /\ q[1].arg = Tail(q)[1].arg
         /\ \A level : AtLevel(q, level) => /\ AtLevel(Tail(q), level)
                                            /\ q[1].op = "params" => q[1].arg = level
         /\ \A op : Includes(q, op) => q[1].op = op \/ Includes(Tail(q), op)
         /\ \A c : ContainsKey(q, c, zones) => Shows(q[1], c, zones) \/ ContainsKey(Tail(q), c, zones)
<1>1. /\ Tail(q) \in Seq(Msgs) /\ Len(Tail(q)) = Len(q) - 1 /\ Len(q) \in Nat \ {0} /\ Head(q) = q[1]
      /\ \A i \in 1 .. Len(q) - 1 : Tail(q)[i] = q[i + 1]
  BY HeadTailProperties, EmptySeq
<1>2. q[1] \in Msgs /\ 1 \in 1 .. Len(q)  BY <1>1, ElementOfSeq
<1>3. \A i \in 1 .. Len(Tail(q)) : i + 1 \in 1 .. Len(q) /\ Tail(q)[i] = q[i + 1]  BY <1>1
<1>4. \A i \in 1 .. Len(q) : i = 1 \/ (i - 1 \in 1 .. Len(Tail(q)) /\ Tail(q)[i - 1] = q[i])
  <2> TAKE i \in 1 .. Len(q)
  <2>1. i = 1 \/ (i - 1 \in 1 .. Len(q) - 1 /\ (i - 1) + 1 = i)  BY <1>1
  <2> QED  BY <1>1, <2>1
<1>5. Legal(q, zones) => Legal(Tail(q), zones) /\ q[1].op \in MsgOps(zones)  BY <1>1, <1>2, <1>3 DEF Legal
<1>6. Lighting(q) => /\ Lighting(Tail(q)) /\ q[1].op \notin {"level", "off"}
                     /\ q[1].op = "power" => q[1].arg = TRUE
  BY <1>2, <1>3 DEF Lighting
<1>7. Darkening(q) => /\ Darkening(Tail(q)) /\ (q[1].op \in {"params", "level"} => q[1].arg = 0)
                      /\ q[1].op = "power" => q[1].arg = FALSE
  BY <1>2, <1>3 DEF Darkening
<1>8. Announced(q) => /\ Announced(Tail(q))
                      /\ Tail(q) # << >> /\ Tail(q)[1].op = "report" =>
                           q[1].op = "announce" /\ q[1].arg = Tail(q)[1].arg
  <2> HAVE Announced(q)
  <2>1. \A i \in 1 .. Len(q) - 1 : q[i + 1].op = "report" => q[i].op = "announce" /\ q[i].arg = q[i + 1].arg
    <3> TAKE i \in 1 .. Len(q) - 1
    <3>1. i + 1 \in 1 .. Len(q) /\ i + 1 > 1 /\ (i + 1) - 1 = i  BY <1>1
    <3> QED  BY <3>1 DEF Announced
  <2>2. Announced(Tail(q))
    <3> SUFFICES ASSUME NEW i \in 1 .. Len(Tail(q)), Tail(q)[i].op = "report", i > 1
                 PROVE  Tail(q)[i - 1].op = "announce" /\ Tail(q)[i - 1].arg = Tail(q)[i].arg
      BY DEF Announced
    <3>1. i \in 1 .. Len(q) - 1 /\ i - 1 \in 1 .. Len(q) - 1 /\ (i - 1) + 1 = i  BY <1>1
    <3> QED  BY <1>1, <2>1, <3>1
  <2>3. Tail(q) # << >> => 1 \in 1 .. Len(q) - 1  BY <1>1, EmptySeq
  <2>4. 1 + 1 = 2  OBVIOUS
  <2> QED  BY <1>1, <2>1, <2>2, <2>3, <2>4
<1>9. \A level : AtLevel(q, level) => AtLevel(Tail(q), level) /\ (q[1].op = "params" => q[1].arg = level)
  BY <1>2, <1>3 DEF AtLevel
<1>10. \A op : Includes(q, op) => q[1].op = op \/ Includes(Tail(q), op)  BY <1>4 DEF Includes
<1>11. \A c : ContainsKey(q, c, zones) => Shows(q[1], c, zones) \/ ContainsKey(Tail(q), c, zones)
  <2> HIDE DEF Shows
  <2> QED  BY <1>4 DEF ContainsKey
<1> QED  BY <1>1, <1>2, <1>5, <1>6, <1>7, <1>8, <1>9, <1>10, <1>11

\* Odd places announce a row, the even places after them send it.
LEMMA OddThenEven ==
  ASSUME NEW k \in Nat \ {0}
  PROVE  /\ k % 2 # 1 => k >= 2 /\ (k - 1) % 2 = 1 /\ ((k - 1) - 1) \div 2 = (k - 1) \div 2
         /\ \A r \in Nat : k = (2 * r) + 2 => k % 2 # 1 /\ (k - 1) \div 2 = r
OBVIOUS

\* The list of ite8291_write_rows.
LEMMA RowsComplete ==
  ASSUME ~model8291.zones, NEW level \in 0 .. 50
  PROVE  Complete(RowMessages(level), level, model8291.zones) /\ ~Includes(RowMessages(level), "power")
<1> DEFINE x == <<Message("params", level)>>
           y == [k \in 1 .. 2 * NrRows |->
                  Message(IF k % 2 = 1 THEN "announce" ELSE "report", (k - 1) \div 2)]
           q == x \o y
<1>0. NrRows \in Nat \ {0} /\ 2 * NrRows \in Nat  BY Ite8291Assumption
<1>1. x \in Seq(Msgs) /\ Len(x) = 1 /\ x[1] = [op |-> "params", arg |-> level]
  BY DEF Message, Msgs
<1>2. ASSUME NEW k \in 1 .. 2 * NrRows
      PROVE  /\ (k - 1) \div 2 \in 0 .. NrRows - 1
             /\ y[k] = [op |-> IF k % 2 = 1 THEN "announce" ELSE "report", arg |-> (k - 1) \div 2]
             /\ y[k] \in Msgs
  <2>1. (k - 1) \div 2 \in 0 .. NrRows - 1  BY <1>0
  <2>2. y[k] = [op |-> IF k % 2 = 1 THEN "announce" ELSE "report", arg |-> (k - 1) \div 2]  BY DEF Message
  <2> HIDE DEF y
  <2>3. y[k] \in [op : {"announce", "report"}, arg : 0 .. NrRows - 1]  BY <2>1, <2>2
  <2> QED  BY <2>1, <2>2, <2>3 DEF Msgs
<1>3. y \in Seq(Msgs) /\ Len(y) = 2 * NrRows
  <2>1. y \in [1 .. 2 * NrRows -> Msgs]
    <3>1. \A k \in 1 .. 2 * NrRows : y[k] \in Msgs  BY <1>2
    <3>2. y = [k \in 1 .. 2 * NrRows |-> y[k]]  OBVIOUS
    <3> HIDE DEF y
    <3> QED  BY <3>1, <3>2
  <2> HIDE DEF y
  <2> QED  BY <1>0, <2>1, LenProperties, SeqDef
<1> HIDE DEF x, y
<1>4. /\ q \in Seq(Msgs) /\ Len(q) = Len(x) + Len(y)
      /\ \A i \in 1 .. Len(x) + Len(y) : q[i] = IF i <= Len(x) THEN x[i] ELSE y[i - Len(x)]
  BY <1>1, <1>3, ConcatProperties, Zenon
<1> HIDE DEF q
<1>5. Len(q) = 1 + (2 * NrRows) /\ q[1] = [op |-> "params", arg |-> level]  BY <1>0, <1>1, <1>3, <1>4
<1>6. ASSUME NEW i \in 1 .. Len(q), i # 1
      PROVE  /\ i - 1 \in 1 .. 2 * NrRows /\ q[i] = y[i - 1]
             /\ q[i].op = (IF (i - 1) % 2 = 1 THEN "announce" ELSE "report")
             /\ q[i].arg = ((i - 1) - 1) \div 2
  <2>1. i - 1 \in 1 .. 2 * NrRows /\ ~(i <= 1) /\ i \in 1 .. Len(x) + Len(y)  BY <1>0, <1>1, <1>3, <1>5, <1>6
  <2>2. q[i] = y[i - 1]  BY <1>1, <1>4, <2>1
  <2>3. y[i - 1] = [op |-> IF (i - 1) % 2 = 1 THEN "announce" ELSE "report", arg |-> ((i - 1) - 1) \div 2]
    BY <1>2, <2>1
  <2> QED  BY <2>1, <2>2, <2>3
<1>7. Legal(q, model8291.zones) /\ Lighting(q) /\ AtLevel(q, level) /\ ~Includes(q, "power")
  <2>1. \A i \in 1 .. Len(q) : /\ q[i].op \in {"params", "announce", "report"}
                               /\ q[i].op = "params" => q[i].arg = level
    <3> TAKE i \in 1 .. Len(q)
    <3>1. CASE i = 1  BY <1>5, <3>1
    <3>2. CASE i # 1
      <4>1. q[i].op = (IF (i - 1) % 2 = 1 THEN "announce" ELSE "report")  BY <1>6, <3>2
      <4>2. q[i].op \in {"announce", "report"}  BY <4>1
      <4> QED  BY <4>2
    <3> QED  BY <3>1, <3>2
  <2> QED  BY <1>4, <2>1 DEF Legal, Lighting, AtLevel, Includes, MsgOps
<1>8. Announced(q)
  <2> SUFFICES ASSUME NEW i \in 1 .. Len(q), q[i].op = "report", i > 1
               PROVE  q[i - 1].op = "announce" /\ q[i - 1].arg = q[i].arg
    BY DEF Announced
  <2>0. PICK k : k = i - 1  OBVIOUS
  <2>1. k \in 1 .. 2 * NrRows /\ k % 2 # 1 /\ q[i].arg = (k - 1) \div 2 /\ i = k + 1  BY <1>6, <2>0
  <2>2. k >= 2 /\ (k - 1) % 2 = 1 /\ ((k - 1) - 1) \div 2 = (k - 1) \div 2 /\ k - 1 \in 1 .. 2 * NrRows
    <3>1. k \in Nat \ {0}  BY <1>0, <2>1
    <3>2. k >= 2 /\ (k - 1) % 2 = 1 /\ ((k - 1) - 1) \div 2 = (k - 1) \div 2  BY <2>1, <3>1, OddThenEven
    <3> QED  BY <1>0, <2>1, <3>2
  <2>3. k \in 1 .. Len(q) /\ k # 1  BY <1>0, <1>5, <2>1, <2>2
  <2>4. q[k].op = "announce" /\ q[k].arg = ((k - 1) - 1) \div 2  BY <1>6, <2>2, <2>3
  <2> QED  BY <2>0, <2>1, <2>2, <2>4
<1>9. ASSUME NEW c \in Channels  PROVE ContainsKey(q, c, model8291.zones)
  <2>1. PICK r \in 0 .. NrRows - 1 : r = c \div LedsPerRow  BY PlaceInRow
  <2>2. PICK k : k = (2 * r) + 2  OBVIOUS
  <2>3. k \in 1 .. 2 * NrRows /\ k % 2 # 1 /\ (k - 1) \div 2 = r
    <3>1. r \in Nat  OBVIOUS
    <3>2. k \in Nat \ {0}  BY <2>2, <3>1
    <3>3. k % 2 # 1 /\ (k - 1) \div 2 = r  BY <2>2, <3>1, <3>2, OddThenEven
    <3>4. k \in 1 .. 2 * NrRows  BY <1>0, <2>2
    <3> QED  BY <3>3, <3>4
  <2>4. k + 1 \in 1 .. Len(q) /\ k + 1 # 1 /\ (k + 1) - 1 = k  BY <1>0, <1>5, <2>3
  <2>5. q[k + 1].op = "report" /\ q[k + 1].arg = r  BY <1>6, <2>3, <2>4
  <2> QED  BY <2>1, <2>4, <2>5 DEF ContainsKey, Shows
<1>10. Includes(q, "params") /\ q # << >> /\ q[1].op # "report"
  <2>1. 1 \in 1 .. Len(q)  BY <1>0, <1>5
  <2> QED  BY <1>4, <1>5, <2>1, EmptySeq DEF Includes
<1>11. RowMessages(level) = q  BY DEF RowMessages, q, x, y
<1> QED  BY <1>7, <1>8, <1>9, <1>10, <1>11 DEF Complete

\* The list of ite8291_zones_write_state.
LEMMA ZonesComplete ==
  ASSUME model8291.zones, NEW level \in 0 .. 50
  PROVE  Complete(ZoneMessages(level), level, model8291.zones) /\ ~Includes(ZoneMessages(level), "power")
<1> DEFINE n == NrRows * LedsPerRow
           x == [z \in 1 .. n |-> Message("colour", z - 1)]
           y == <<Message("params", level)>>
           q == x \o y
<1>0. n \in Nat /\ Channels = 0 .. n - 1  BY Ite8291Assumption DEF Channels
<1> HIDE DEF n
<1>1. y \in Seq(Msgs) /\ Len(y) = 1 /\ y[1] = [op |-> "params", arg |-> level]
  BY DEF Message, Msgs
<1>2. ASSUME NEW z \in 1 .. n  PROVE x[z] = [op |-> "colour", arg |-> z - 1] /\ x[z] \in Msgs
  <2>1. x[z] = [op |-> "colour", arg |-> z - 1]  BY DEF Message
  <2> HIDE DEF x
  <2>2. z - 1 \in Channels  BY <1>0
  <2> QED  BY <2>1, <2>2 DEF Msgs
<1>3. x \in Seq(Msgs) /\ Len(x) = n
  <2>1. \A z \in 1 .. n : x[z] \in Msgs  BY <1>2
  <2>2. x = [z \in 1 .. n |-> x[z]]  OBVIOUS
  <2> HIDE DEF x
  <2>3. x \in [1 .. n -> Msgs]  BY <2>1, <2>2
  <2> QED  BY <1>0, <2>3, LenProperties, SeqDef
<1> HIDE DEF x, y
<1>4. /\ q \in Seq(Msgs) /\ Len(q) = Len(x) + Len(y)
      /\ \A i \in 1 .. Len(x) + Len(y) : q[i] = IF i <= Len(x) THEN x[i] ELSE y[i - Len(x)]
  <2>1. x \in Seq(Msgs) /\ y \in Seq(Msgs)  BY <1>1, <1>3
  <2> QED  BY <2>1, ConcatProperties, Zenon
<1> HIDE DEF q
<1>5. Len(q) = n + 1 /\ q[n + 1] = [op |-> "params", arg |-> level] /\ n + 1 \in 1 .. Len(q)
  BY <1>0, <1>1, <1>3, <1>4
<1>6. \A i \in 1 .. n : i \in 1 .. Len(q) /\ q[i] = [op |-> "colour", arg |-> i - 1]
  <2> TAKE i \in 1 .. n
  <2>1. i <= Len(x) /\ i \in 1 .. Len(x) + Len(y) /\ i \in 1 .. Len(q)  BY <1>0, <1>1, <1>3, <1>4
  <2> QED  BY <1>2, <1>4, <2>1
<1>7. \A i \in 1 .. Len(q) : \/ q[i].op = "colour"
                             \/ q[i].op = "params" /\ q[i].arg = level
  <2> TAKE i \in 1 .. Len(q)
  <2>1. CASE i = n + 1  BY <1>5, <2>1
  <2>2. CASE i # n + 1
    <3>1. i \in 1 .. n  BY <1>0, <1>5, <2>2
    <3>2. q[i] = [op |-> "colour", arg |-> i - 1]  BY <1>6, <3>1
    <3> QED  BY <3>2
  <2> QED  BY <2>1, <2>2
<1>8. Legal(q, model8291.zones) /\ Lighting(q) /\ AtLevel(q, level) /\ Announced(q) /\ ~Includes(q, "power")
  BY <1>4, <1>7 DEF Legal, Lighting, AtLevel, Announced, Includes, MsgOps
<1>9. ASSUME NEW c \in Channels  PROVE ContainsKey(q, c, model8291.zones)
  <2>1. PICK i \in 1 .. n : i - 1 = c
    <3>1. c + 1 \in 1 .. n /\ (c + 1) - 1 = c  BY <1>0
    <3> QED  BY <3>1
  <2>2. i \in 1 .. Len(q) /\ q[i] = [op |-> "colour", arg |-> c]  BY <1>6, <2>1
  <2>3. Shows(q[i], c, model8291.zones)  BY <2>2 DEF Shows
  <2> QED  BY <2>2, <2>3 DEF ContainsKey
<1>10. Includes(q, "params") /\ q # << >> /\ q[1].op # "report"
  <2>1. 1 \in 1 .. Len(q)  BY <1>0, <1>5
  <2> QED  BY <1>4, <1>5, <1>7, <2>1, EmptySeq DEF Includes
<1>11. ZoneMessages(level) = q  BY DEF ZoneMessages, q, x, y, n
<1> QED  BY <1>8, <1>9, <1>10, <1>11 DEF Complete

\* The lists of both kinds.
LEMMA StateComplete ==
  ASSUME model8291.zones \in BOOLEAN, NEW level \in 0 .. 50
  PROVE  Complete(WriteState(level), level, model8291.zones) /\ ~Includes(WriteState(level), "power")
BY RowsComplete, ZonesComplete DEF WriteState

\* What is sent when the machine wakes up, and at the start.
LEMMA WakingComplete ==
  ASSUME model8291.zones \in BOOLEAN, NEW level \in 0 .. 50
  PROVE  /\ Complete(WriteOn \o WriteState(level), level, model8291.zones)
         /\ model8291.zones => Includes(WriteOn \o WriteState(level), "power")
<1> DEFINE z == WriteState(level)
<1>1. Complete(z, level, model8291.zones)  BY StateComplete
<1> HIDE DEF z
<1>2. z \in Seq(Msgs)  BY <1>1 DEF Complete, Legal
<1>3. CASE ~model8291.zones
  <2>1. WriteOn \o z = z  BY <1>2, <1>3, ConcatEmptySeq DEF WriteOn
  <2> QED  BY <1>1, <1>3, <2>1 DEF z
<1>4. CASE model8291.zones
  <2> DEFINE p == <<Message("power", TRUE)>>
             q == p \o z
  <2>1. p \in Seq(Msgs) /\ Len(p) = 1 /\ p[1] = [op |-> "power", arg |-> TRUE]  BY DEF Message, Msgs
  <2> HIDE DEF p
  <2>2. /\ q \in Seq(Msgs) /\ Len(q) = Len(p) + Len(z)
        /\ \A i \in 1 .. Len(p) + Len(z) : q[i] = IF i <= Len(p) THEN p[i] ELSE z[i - Len(p)]
    BY <1>2, <2>1, ConcatProperties, Zenon
  <2> HIDE DEF q
  <2>3. Len(z) \in Nat \ {0} /\ Len(q) = Len(z) + 1 /\ 1 \in 1 .. Len(q)
          /\ q[1] = [op |-> "power", arg |-> TRUE]
    <3>1. Len(z) \in Nat \ {0}  BY <1>1, <1>2, EmptySeq DEF Complete
    <3>2. 1 <= Len(p) /\ 1 \in 1 .. Len(p) + Len(z)  BY <2>1, <3>1
    <3>3. q[1] = p[1]  BY <2>2, <3>2
    <3> QED  BY <2>1, <2>2, <3>1, <3>3
  <2>4. \A i \in 1 .. Len(z) : i + 1 \in 1 .. Len(q) /\ q[i + 1] = z[i]
    <3> TAKE i \in 1 .. Len(z)
    <3>1. i + 1 \in 1 .. Len(q) /\ i + 1 \in 1 .. Len(p) + Len(z) /\ ~(i + 1 <= Len(p))
            /\ (i + 1) - Len(p) = i
      BY <2>1, <2>2, <2>3
    <3> QED  BY <2>2, <3>1
  <2>5. \A i \in 1 .. Len(q) : i = 1 \/ \E j \in 1 .. Len(z) : i = j + 1 /\ q[i] = z[j]
    <3> TAKE i \in 1 .. Len(q)
    <3>1. i = 1 \/ (i - 1 \in 1 .. Len(z) /\ i = (i - 1) + 1)  BY <2>3
    <3> QED  BY <2>4, <3>1
  <2>6. Legal(q, model8291.zones)
    <3>1. Legal(z, model8291.zones)  BY <1>1 DEF Complete
    <3>2. "power" \in MsgOps(model8291.zones)  BY <1>4 DEF MsgOps
    <3> QED  BY <2>2, <2>3, <2>5, <3>1, <3>2 DEF Legal
  <2>7. Lighting(q) /\ AtLevel(q, level)
    <3> DEFINE Fine(m) == /\ m.op \notin {"level", "off"} /\ (m.op = "power" => m.arg = TRUE)
                          /\ m.op = "params" => m.arg = level
    <3>1. \A j \in 1 .. Len(z) : Fine(z[j])  BY <1>1 DEF Complete, Lighting, AtLevel
    <3>2. Fine(q[1])
      <4>1. q[1].op = "power" /\ q[1].arg = TRUE  BY <2>3
      <4> QED  BY <4>1
    <3> HIDE DEF Fine
    <3>3. \A i \in 1 .. Len(q) : Fine(q[i])  BY <2>5, <3>1, <3>2
    <3> QED  BY <3>3, Zenon DEF Fine, Lighting, AtLevel
  <2>8. Announced(q)
    <3> SUFFICES ASSUME NEW i \in 1 .. Len(q), q[i].op = "report", i > 1
                 PROVE  q[i - 1].op = "announce" /\ q[i - 1].arg = q[i].arg
      BY DEF Announced
    <3>1. PICK j \in 1 .. Len(z) : i = j + 1 /\ q[i] = z[j]  BY <2>5
    <3>2. j # 1  BY <1>1, <3>1 DEF Complete
    <3>3. j > 1 /\ j - 1 \in 1 .. Len(z) /\ (j - 1) + 1 = i - 1  BY <2>3, <3>1, <3>2
    <3>4. q[i - 1] = z[j - 1]  BY <2>4, <3>3
    <3> QED  BY <1>1, <3>1, <3>3, <3>4 DEF Complete, Announced
  <2>9. Includes(q, "params") /\ Includes(q, "power")  BY <1>1, <2>3, <2>4 DEF Complete, Includes
  <2>10. \A c \in Channels : ContainsKey(q, c, model8291.zones)
    <3> HIDE DEF Shows
    <3> QED  BY <1>1, <2>4 DEF Complete, ContainsKey
  <2>11. q # << >> /\ q[1].op # "report"  BY <2>2, <2>3, EmptySeq
  <2>12. WriteOn \o z = q  BY <1>4 DEF WriteOn, p, q
  <2> QED  BY <2>6, <2>7, <2>8, <2>9, <2>10, <2>11, <2>12 DEF Complete, z
<1> QED  BY <1>3, <1>4

\* What is sent before the machine sleeps.
LEMMA OffDark ==
  ASSUME model8291.zones \in BOOLEAN
  PROVE  Legal(WriteOff, model8291.zones) /\ Darkening(WriteOff) /\ Includes(WriteOff, "off")
<1>1. CASE model8291.zones
  <2> DEFINE q == <<Message("level", 0), Message("off", 0), Message("power", FALSE)>>
  <2>1. /\ q \in Seq(Msgs) /\ Len(q) = 3 /\ q[1] = [op |-> "level", arg |-> 0]
        /\ q[2] = [op |-> "off", arg |-> 0] /\ q[3] = [op |-> "power", arg |-> FALSE]
    BY DEF Message, Msgs
  <2> HIDE DEF q
  <2>2. 1 .. Len(q) = {1, 2, 3}  BY <2>1
  <2>3. WriteOff = q  BY <1>1 DEF WriteOff, q
  <2>4. /\ q[1].op = "level" /\ q[1].arg = 0 /\ q[2].op = "off" /\ q[3].op = "power" /\ q[3].arg = FALSE
        /\ {"level", "off", "power"} \subseteq MsgOps(model8291.zones)
    BY <1>1, <2>1 DEF MsgOps
  <2>5. Legal(q, model8291.zones) /\ Includes(q, "off")  BY <2>1, <2>2, <2>4 DEF Legal, Includes
  <2>6. Darkening(q)  BY <2>2, <2>4 DEF Darkening
  <2> QED  BY <2>3, <2>5, <2>6
<1>2. CASE ~model8291.zones
  <2> DEFINE q == <<Message("off", 0)>>
  <2>1. q \in Seq(Msgs) /\ Len(q) = 1 /\ q[1] = [op |-> "off", arg |-> 0]
    BY DEF Message, Msgs
  <2> HIDE DEF q
  <2>2. 1 .. Len(q) = {1}  BY <2>1
  <2>3. WriteOff = q  BY <1>2 DEF WriteOff, q
  <2>4. q[1].op = "off" /\ "off" \in MsgOps(model8291.zones)  BY <1>2, <2>1 DEF MsgOps
  <2>5. Legal(q, model8291.zones) /\ Includes(q, "off") /\ Darkening(q)
    BY <2>1, <2>2, <2>4 DEF Legal, Includes, Darkening
  <2> QED  BY <2>3, <2>5
<1> QED  BY <1>1, <1>2

\* What is sent on removal: off, and then the brightness 0, again and again.
LEMMA RemovalDark ==
  ASSUME model8291.zones \in BOOLEAN,
         NEW r \in {<< >>, Repeated(NrRows * LedsPerRow, WriteState(0))}
  PROVE  Legal(WriteOff \o r, model8291.zones) /\ Darkening(WriteOff \o r) /\ Includes(WriteOff \o r, "off")
<1>1. Legal(r, model8291.zones) /\ Darkening(r)
  <2>1. CASE r = << >>
    <3>1. r \in Seq(Msgs) /\ Len(r) = 0  BY <2>1, EmptySeq
    <3>2. \A i \in 1 .. Len(r) : FALSE  BY <3>1
    <3> QED  BY <3>1, <3>2 DEF Legal, Darkening
  <2>2. CASE r = Repeated(NrRows * LedsPerRow, WriteState(0))
    <3> DEFINE s == WriteState(0)
               n == NrRows * LedsPerRow
    <3>1. Complete(s, 0, model8291.zones) /\ ~Includes(s, "power")  BY StateComplete
    <3> HIDE DEF s
    <3>2. /\ s \in Seq(Msgs) /\ s # << >> /\ Len(s) \in Nat \ {0}
          /\ \A i \in 1 .. Len(s) : /\ s[i] \in Msgs /\ s[i].op \in MsgOps(model8291.zones)
                                    /\ s[i].op # "power" /\ s[i].op # "level"
                                    /\ s[i].op = "params" => s[i].arg = 0
      BY <3>1, EmptySeq, ElementOfSeq DEF Complete, Legal, Lighting, AtLevel, Includes
    <3>3. n \in Nat  BY Ite8291Assumption
    <3> HIDE DEF n
    <3>4. PICK m : m = n * Len(s)  OBVIOUS
    <3>5. m \in Nat  BY <3>2, <3>3, <3>4
    <3>6. r = [k \in 1 .. m |-> s[1 + ((k - 1) % Len(s))]]  BY <2>2, <3>4 DEF Repeated, s, n
    <3>7. ASSUME NEW k \in 1 .. m
          PROVE  /\ r[k] = s[1 + ((k - 1) % Len(s))]
                 /\ 1 + ((k - 1) % Len(s)) \in 1 .. Len(s)
      <4>1. k - 1 \in Nat  BY <3>5
      <4>2. PICK d : d = (k - 1) % Len(s)  OBVIOUS
      <4>3. d \in 0 .. Len(s) - 1  BY <3>2, <4>1, <4>2
      <4>4. 1 + d \in 1 .. Len(s)  BY <3>2, <4>3
      <4> QED  BY <3>6, <4>2, <4>4
    <3>8. \A k \in 1 .. m : r[k] \in Msgs  BY <3>2, <3>7
    <3>9. r \in [1 .. m -> Msgs]
      <4>1. r = [k \in 1 .. m |-> r[k]]  BY <3>6
      <4> QED  BY <3>8, <4>1
    <3>10. r \in Seq(Msgs) /\ Len(r) = m  BY <3>5, <3>9, LenProperties, SeqDef
    <3>11. \A k \in 1 .. Len(r) : /\ r[k].op \in MsgOps(model8291.zones)
                                  /\ r[k].op # "power" /\ r[k].op # "level"
                                  /\ r[k].op = "params" => r[k].arg = 0
      BY <3>2, <3>7, <3>10
    <3> QED  BY <3>10, <3>11 DEF Legal, Darkening
  <2> QED  BY <2>1, <2>2
<1>2. Legal(WriteOff, model8291.zones) /\ Darkening(WriteOff) /\ Includes(WriteOff, "off")  BY OffDark
<1> DEFINE p == WriteOff
           q == p \o r
<1>3. p \in Seq(Msgs) /\ r \in Seq(Msgs)  BY <1>1, <1>2 DEF Legal
<1>4. Legal(p, model8291.zones) /\ Darkening(p) /\ Includes(p, "off")  BY <1>2
<1> HIDE DEF p
<1>5. /\ q \in Seq(Msgs) /\ Len(q) = Len(p) + Len(r) /\ Len(p) \in Nat /\ Len(r) \in Nat
      /\ \A i \in 1 .. Len(p) + Len(r) : q[i] = IF i <= Len(p) THEN p[i] ELSE r[i - Len(p)]
  <2>1. Len(p) \in Nat /\ Len(r) \in Nat  BY <1>3, LenProperties
  <2> QED  BY <1>3, <2>1, ConcatProperties, Zenon
<1> HIDE DEF q
<1>6. \A i \in 1 .. Len(q) : \/ i \in 1 .. Len(p) /\ q[i] = p[i]
                             \/ i - Len(p) \in 1 .. Len(r) /\ q[i] = r[i - Len(p)]
  <2> TAKE i \in 1 .. Len(q)
  <2>1. i \in 1 .. Len(p) + Len(r) /\ (i <= Len(p) => i \in 1 .. Len(p))
        /\ (~(i <= Len(p)) => i - Len(p) \in 1 .. Len(r))
    BY <1>5
  <2> QED  BY <1>5, <2>1
<1>7. \A i \in 1 .. Len(p) : i \in 1 .. Len(q) /\ q[i] = p[i]
  <2> TAKE i \in 1 .. Len(p)
  <2>1. i \in 1 .. Len(p) + Len(r) /\ i <= Len(p) /\ i \in 1 .. Len(q)  BY <1>5
  <2> QED  BY <1>5, <2>1
<1>8. Legal(q, model8291.zones) /\ Darkening(q)  BY <1>1, <1>4, <1>5, <1>6 DEF Legal, Darkening
<1>9. Includes(q, "off")  BY <1>4, <1>7 DEF Includes
<1> QED  BY <1>8, <1>9 DEF q, p

Frames == [Channels -> Rgb]
Chips8291 == [powered : BOOLEAN, on : BOOLEAN, brightness : 0 .. 50, announced : 0 .. NrRows - 1,
              frame : Frames]
Data8291 == [intensity : [Channels -> Triples], brightness : 0 .. 50, row_data : Frames,
             buffer_input : BOOLEAN]

Types8291 ==
    /\ model8291 \in [zones : BOOLEAN, quirk : Quirks]
    /\ power8291 \in {"awake", "asleep", "removed"}
    /\ data8291 \in Data8291 /\ chip8291 \in Chips8291
    /\ disturbed8291 \in {"no", "frame", "power"}
    /\ todo8291 \in [Senders -> Seq(Msgs)]

\* The frame of the driver is that of the LEDs.
DataInv == ~model8291.zones => \A c \in Channels :
    data8291.row_data[c] = color_scaling(data8291.intensity[c], RowOf(c))

\* Nothing is sent that is not for this controller or this time; one with
\* rows is never without power.
QueueInv ==
    /\ \A s \in Senders : Legal(todo8291[s], model8291.zones)
    /\ power8291 = "awake" => \A s \in Senders : Lighting(todo8291[s]) /\ Announced(todo8291[s])
    /\ ~model8291.zones => chip8291.powered

\* As long as nothing was disturbed, one sends at a time.
TurnInv == disturbed8291 = "no" =>
    /\ \A s, t \in Senders : ~Idle8291(s) /\ ~Idle8291(t) => s = t
    /\ power8291 # "awake" => \A p \in Programs : Idle8291(p)

PoweredInv == power8291 = "awake" /\ disturbed8291 # "power" =>
    chip8291.powered \/ \E s \in Senders : Includes(todo8291[s], "power")

\* Asleep or removed it is dark or going to be, and nothing lights it again.
Dark8291Inv == power8291 # "awake" /\ disturbed8291 = "no" =>
    Darkening(todo8291["pm"]) /\ (Dark8291 \/ Includes(todo8291["pm"], "off"))

\* What the keyboard does not show yet is in the messages still to be sent.
ShownInv == power8291 = "awake" /\ disturbed8291 = "no" /\ ~data8291.buffer_input =>
    /\ \A s \in Senders : AtLevel(todo8291[s], data8291.brightness)
    /\ \/ chip8291.on /\ chip8291.brightness = data8291.brightness
       \/ \E s \in Senders : Includes(todo8291[s], "params")
    /\ \A c \in Channels : \/ chip8291.frame[c] = Wanted(c)
                           \/ \E s \in Senders : ContainsKey(todo8291[s], c, model8291.zones)
    /\ \A s \in Senders : ~Idle8291(s) /\ todo8291[s][1].op = "report" =>
         chip8291.announced = todo8291[s][1].arg

Inv8291 == Types8291 /\ DataInv /\ QueueInv /\ TurnInv /\ PoweredInv /\ Dark8291Inv /\ ShownInv

\* Scaled colours are colours.
LEMMA ScalingType ==
  ASSUME model8291 \in [zones : BOOLEAN, quirk : Quirks], NEW rgb \in Triples, NEW row
  PROVE  color_scaling(rgb, row) \in Rgb
<1>1. ASSUME NEW f, NEW x, \A i \in 1 .. 3 : f[i] \in Int /\ x[i] \in Int
      PROVE  Times(f, x) \in Rgb
  <2> DEFINE g(i) == Corrected(f[i], x[i]) % 256
  <2>1. ASSUME NEW a \in Int, NEW b \in Int  PROVE Corrected(a, b) \in Int
    <3>1. PICK p : p = a * b  OBVIOUS
    <3>2. p \in Int  BY <3>1
    <3> QED  BY <3>1, <3>2 DEF Corrected
  <2>2. \A c \in Int : c % 256 \in 0 .. 255  OBVIOUS
  <2>3. \A i \in 1 .. 3 : g(i) \in 0 .. 255
    <3> TAKE i \in 1 .. 3
    <3>1. Corrected(f[i], x[i]) \in Int  BY <1>1, <2>1
    <3> QED  BY <2>2, <3>1
  <2>4. Times(f, x) = [i \in 1 .. 3 |-> g(i)]  BY Zenon DEF Times, Corrected
  <2> HIDE DEF g
  <2> QED  BY <2>3, <2>4 DEF Rgb
<1>2. \A i \in 1 .. 3 : rgb[i] \in Int  BY DEF Triples
<1>3. \A i \in 1 .. 3 : model8291.quirk.all[i] \in Int /\ model8291.quirk.bottom[i] \in Int
                        /\ model8291.quirk.top[i] \in Int
  BY DEF Quirks, Plain
<1> DEFINE all == Times(model8291.quirk.all, rgb)
<1>4. all \in Rgb  BY <1>1, <1>2, <1>3
<1> HIDE DEF all
<1>5. \A i \in 1 .. 3 : all[i] \in Int  BY <1>4 DEF Rgb
<1>6. Times(model8291.quirk.bottom, all) \in Rgb /\ Times(model8291.quirk.top, all) \in Rgb
  BY <1>1, <1>3, <1>5
<1> QED  BY <1>4, <1>6 DEF color_scaling, all

\* They are the colours that are wanted.
LEMMA ScaledIsWanted ==
  ASSUME Types8291, NEW c \in Channels
  PROVE  color_scaling(data8291.intensity[c], RowOf(c)) = Wanted(c)
<1> DEFINE q == model8291.quirk
           rgb == data8291.intensity[c]
           all == Exact(q.all, rgb)
<1>1. q \in Quirks /\ rgb \in Triples  BY DEF Types8291, Data8291
<1>2. /\ Times(q.all, rgb) = all /\ Times(q.bottom, all) = Exact(q.bottom, all)
      /\ Times(q.top, all) = Exact(q.top, all)
  BY <1>1, NoColourWraps
<1> QED  BY <1>2, Zenon DEF color_scaling, Wanted

\* A row and a column make a place in the frame.
LEMMA RowAndColumn ==
  ASSUME NEW r \in 0 .. NrRows - 1, NEW c \in Channels
  PROVE  (r * LedsPerRow) + (c % LedsPerRow) \in Channels
<1>0. NrRows \in Nat \ {0} /\ LedsPerRow \in Nat \ {0} /\ c \in Nat  BY Ite8291Assumption, PlaceInRow
<1>1. ASSUME NEW n \in Nat, NEW b \in Nat \ {0}, NEW i \in 0 .. n - 1, NEW d \in 0 .. b - 1
      PROVE  (i * b) + d \in 0 .. (n * b) - 1
  <2>1. (n - 1 - i) * b >= 0  OBVIOUS
  <2>2. (n - 1 - i) * b = ((n * b) - b) - (i * b)  OBVIOUS
  <2>3. i * b >= 0 /\ i * b \in Int /\ n * b \in Int  OBVIOUS
  <2> QED  BY <2>1, <2>2, <2>3
<1>2. PICK d : d = c % LedsPerRow  OBVIOUS
<1>3. d \in 0 .. LedsPerRow - 1  BY <1>0, <1>2
<1> QED  BY <1>0, <1>1, <1>2, <1>3 DEF Channels

\* What a message does.
LEMMA Reception ==
  ASSUME Types8291, NEW m \in Msgs
  PROVE  LET r == Received(m)
         IN  /\ r \in Chips8291
             /\ m.op # "power" => r.powered = chip8291.powered
             /\ m.op = "power" => r.powered = m.arg
             /\ m.op = "off" => ~r.on
             /\ m.op = "params" => r.on /\ r.brightness = m.arg
             /\ m.op = "level" => r.brightness = m.arg
             /\ m.op \notin {"off", "params"} => r.on = chip8291.on
             /\ m.op \notin {"level", "params"} => r.brightness = chip8291.brightness
             /\ m.op = "announce" => r.announced = m.arg
             /\ m.op # "announce" => r.announced = chip8291.announced
             /\ m.op \notin {"colour", "report"} => r.frame = chip8291.frame
             /\ m.op = "colour" => r.frame = [chip8291.frame EXCEPT ![m.arg] = ScaledColour(m.arg)]
             /\ m.op = "report" => \A c \in Channels :
                  r.frame[c] = IF RowOf(c) = chip8291.announced
                               THEN data8291.row_data[(m.arg * LedsPerRow) + (c % LedsPerRow)]
                               ELSE chip8291.frame[c]
<1>1. m.op \in {"params", "level", "announce", "report", "colour", "power", "off"}  BY DEF Msgs
<1>2. /\ m.op \in {"params", "level"} => m.arg \in 0 .. 50
      /\ m.op \in {"announce", "report"} => m.arg \in 0 .. NrRows - 1
      /\ m.op = "colour" => m.arg \in Channels
      /\ m.op = "power" => m.arg \in BOOLEAN
  BY DEF Msgs
<1>3. chip8291 \in Chips8291  BY DEF Types8291
<1> DEFINE r == Received(m)
<1>4. CASE m.op = "power"
  <2>1. r = [chip8291 EXCEPT !.powered = m.arg]  BY <1>4 DEF Received
  <2> QED  BY <1>2, <1>3, <1>4, <2>1 DEF Chips8291
<1>5. CASE m.op = "off"
  <2>1. r = [chip8291 EXCEPT !.on = FALSE]  BY <1>5 DEF Received
  <2> QED  BY <1>3, <1>5, <2>1 DEF Chips8291
<1>6. CASE m.op = "level"
  <2>1. r = [chip8291 EXCEPT !.brightness = m.arg]  BY <1>6 DEF Received
  <2> QED  BY <1>2, <1>3, <1>6, <2>1 DEF Chips8291
<1>7. CASE m.op = "params"
  <2>1. PICK x : x = [chip8291 EXCEPT !.on = TRUE]  OBVIOUS
  <2>2. x \in Chips8291 /\ x.on = TRUE /\ x.powered = chip8291.powered /\ x.announced = chip8291.announced
        /\ x.frame = chip8291.frame
    BY <1>3, <2>1 DEF Chips8291
  <2>3. r = [x EXCEPT !.brightness = m.arg]  BY <1>3, <1>7, <2>1 DEF Received
  <2> QED  BY <1>2, <1>7, <2>2, <2>3 DEF Chips8291
<1>8. CASE m.op = "announce"
  <2>1. r = [chip8291 EXCEPT !.announced = m.arg]  BY <1>8 DEF Received
  <2> QED  BY <1>2, <1>3, <1>8, <2>1 DEF Chips8291
<1>9. CASE m.op = "colour"
  <2>0. ScaledColour(m.arg) \in Rgb
    <3>1. data8291.intensity[m.arg] \in Triples  BY <1>2, <1>9 DEF Types8291, Data8291
    <3> QED  BY <3>1, ScalingType DEF Types8291, ScaledColour
  <2>1. PICK f : f = [chip8291.frame EXCEPT ![m.arg] = ScaledColour(m.arg)]  OBVIOUS
  <2>2. f \in Frames  BY <1>2, <1>3, <1>9, <2>0, <2>1 DEF Chips8291, Frames
  <2>3. r = [chip8291 EXCEPT !.frame = f]  BY <1>9, <2>1 DEF Received
  <2> QED  BY <1>2, <1>3, <1>9, <2>1, <2>2, <2>3 DEF Chips8291
<1>10. CASE m.op = "report"
  <2> DEFINE g(c) == IF RowOf(c) = chip8291.announced
                     THEN data8291.row_data[(m.arg * LedsPerRow) + (c % LedsPerRow)]
                     ELSE chip8291.frame[c]
  <2>0. \A c \in Channels : g(c) \in Rgb
    <3> TAKE c \in Channels
    <3>1. (m.arg * LedsPerRow) + (c % LedsPerRow) \in Channels  BY <1>2, <1>10, RowAndColumn
    <3>2. chip8291.frame[c] \in Rgb  BY <1>3 DEF Chips8291, Frames
    <3>3. data8291.row_data[(m.arg * LedsPerRow) + (c % LedsPerRow)] \in Rgb
      BY <3>1 DEF Types8291, Data8291, Frames
    <3> QED  BY <3>2, <3>3
  <2>1. PICK f : f = [c \in Channels |-> g(c)]  OBVIOUS
  <2>2. r = [chip8291 EXCEPT !.frame = f]  BY <1>10, <2>1 DEF Received
  <2> HIDE DEF g
  <2>3. f \in Frames /\ \A c \in Channels : f[c] = g(c)  BY <2>0, <2>1 DEF Frames
  <2>4. /\ r \in Chips8291 /\ r.frame = f /\ r.powered = chip8291.powered /\ r.on = chip8291.on
        /\ r.brightness = chip8291.brightness /\ r.announced = chip8291.announced
    BY <1>3, <2>2, <2>3 DEF Chips8291
  <2> HIDE DEF r
  <2> QED  BY <1>10, <2>3, <2>4 DEF g, r
<1> QED  BY <1>1, <1>4, <1>5, <1>6, <1>7, <1>8, <1>9, <1>10

\* An empty list promises nothing.
LEMMA EmptyIsKept ==
  /\ << >> \in Seq(Msgs) /\ Lighting(<< >>) /\ Announced(<< >>) /\ Darkening(<< >>)
  /\ \A zones : Legal(<< >>, zones)
  /\ \A level : AtLevel(<< >>, level)
  /\ \A op : ~Includes(<< >>, op)
  /\ \A c, zones : ~ContainsKey(<< >>, c, zones)
<1>1. << >> \in Seq(Msgs) /\ Len(<< >>) = 0  BY EmptySeq
<1>2. \A i \in 1 .. 0 : FALSE  OBVIOUS
<1>3. \A i \in 1 .. Len(<< >>) : FALSE  BY <1>1, <1>2, Zenon
<1> QED  BY <1>1, <1>3, Zenon DEF Legal, Lighting, Announced, Darkening, AtLevel, Includes, ContainsKey

\* A message is sent, or lost.
LEMMA SendKeeps8291 ==
  ASSUME Inv8291, NEW s \in Senders, SendMessage(s)
  PROVE  Inv8291'
<1> DEFINE q == todo8291[s]
           m == q[1]
           z == model8291.zones
           r == Received(m)
           lost == chip8291' = chip8291 /\ disturbed8291' \in {"frame", "power"}
                   /\ (disturbed8291' = "frame" => disturbed8291 # "power" /\ m.op # "power")
                   /\ todo8291' = [todo8291 EXCEPT ![s] = IF m.op = "report" THEN << >> ELSE Tail(q)]
           sent == chip8291' = r /\ disturbed8291' = disturbed8291
                   /\ todo8291' = [todo8291 EXCEPT ![s] = Tail(q)]
<1>0. /\ Types8291 /\ q \in Seq(Msgs) /\ q # << >> /\ z \in BOOLEAN
      /\ model8291 \in [zones : BOOLEAN, quirk : Quirks]
  BY DEF Inv8291, Types8291, SendMessage, Idle8291
<1>1. m \in Msgs /\ Head(q) = m /\ Tail(q) \in Seq(Msgs)  BY <1>0, TailOfMessages
<1>2. UNCHANGED <<model8291, data8291, power8291>>  BY DEF SendMessage
<1>3. sent \/ lost
  <2>1. todo8291 \in [Senders -> Seq(Msgs)]  BY <1>0 DEF Types8291
  <2>2. \/ /\ chip8291' = Received(Head(q)) /\ todo8291' = [todo8291 EXCEPT ![s] = Tail(q)]
           /\ disturbed8291' = disturbed8291
        \/ /\ todo8291' = [todo8291 EXCEPT ![s] = IF Head(q).op = "report" THEN << >> ELSE Tail(q)]
           /\ disturbed8291' = IF "power" \in {disturbed8291, Head(q).op} THEN "power" ELSE "frame"
           /\ chip8291' = chip8291
    BY <2>1, Zenon DEF SendMessage
  <2> QED  BY <1>1, <2>2
<1>4. PICK t : t = todo8291'[s]  OBVIOUS
<1>5. /\ todo8291' \in [Senders -> Seq(Msgs)] /\ (t = Tail(q) \/ (t = << >> /\ m.op = "report" /\ lost))
      /\ sent => t = Tail(q)
      /\ \A u \in Senders \ {s} : todo8291'[u] = todo8291[u]
  <2>1. todo8291 \in [Senders -> Seq(Msgs)]  BY <1>0 DEF Types8291
  <2> HIDE DEF q, m, r
  <2> QED  BY <1>1, <1>3, <1>4, <2>1, EmptyIsKept
<1>6. /\ r \in Chips8291
      /\ m.op # "power" => r.powered = chip8291.powered
      /\ m.op = "power" => r.powered = m.arg
      /\ m.op = "off" => ~r.on
      /\ m.op = "params" => r.on /\ r.brightness = m.arg
      /\ m.op = "level" => r.brightness = m.arg
      /\ m.op \notin {"off", "params"} => r.on = chip8291.on
      /\ m.op \notin {"level", "params"} => r.brightness = chip8291.brightness
      /\ m.op = "announce" => r.announced = m.arg
      /\ m.op # "announce" => r.announced = chip8291.announced
      /\ m.op \notin {"colour", "report"} => r.frame = chip8291.frame
      /\ m.op = "colour" => r.frame = [chip8291.frame EXCEPT ![m.arg] = ScaledColour(m.arg)]
      /\ m.op = "report" => \A c \in Channels :
           r.frame[c] = IF RowOf(c) = chip8291.announced
                        THEN data8291.row_data[(m.arg * LedsPerRow) + (c % LedsPerRow)]
                        ELSE chip8291.frame[c]
  BY <1>0, <1>1, Reception
<1>7. Legal(q, z)  BY DEF Inv8291, QueueInv
<1>8. Legal(Tail(q), z) /\ m.op \in MsgOps(z) /\ Legal(t, z)
  <2>1. Legal(Tail(q), z) /\ m.op \in MsgOps(z)  BY <1>0, <1>7, TailOfMessages
  <2>2. Legal(<< >>, z)  BY EmptyIsKept
  <2> QED  BY <1>5, <2>1, <2>2
<1> HIDE DEF r, q, m
<1>9. Types8291'  BY <1>0, <1>2, <1>3, <1>5, <1>6 DEF Types8291
<1>10. DataInv'  BY <1>2 DEF Inv8291, DataInv, color_scaling, RowOf
<1>11. \A u \in Senders : u = s \/ todo8291'[u] = todo8291[u]  BY <1>5
<1>12. QueueInv'
  <2>1. \A u \in Senders : Legal(todo8291'[u], z)  BY <1>4, <1>8, <1>11 DEF Inv8291, QueueInv
  <2>2. ASSUME power8291 = "awake", NEW u \in Senders  PROVE Lighting(todo8291'[u]) /\ Announced(todo8291'[u])
    <3>1. Lighting(todo8291[u]) /\ Announced(todo8291[u])  BY <2>2 DEF Inv8291, QueueInv
    <3>2. CASE u = s
      <4>1. Lighting(Tail(q)) /\ Announced(Tail(q))  BY <1>0, <3>1, <3>2, TailOfMessages DEF q
      <4> QED  BY <1>4, <1>5, <3>2, <4>1, EmptyIsKept
    <3>3. CASE u # s  BY <1>11, <3>1, <3>3
    <3> QED  BY <3>2, <3>3
  <2>3. ~z => chip8291'.powered
    <3>1. ~z => m.op # "power"  BY <1>8 DEF MsgOps
    <3> QED  BY <1>3, <1>6, <3>1 DEF Inv8291, QueueInv
  <2> QED  BY <1>2, <2>1, <2>2, <2>3 DEF QueueInv
<1>13. \A u \in Senders : todo8291'[u] # << >> => todo8291[u] # << >>  BY <1>0, <1>11 DEF q
<1>14. TurnInv'
  <2>1. disturbed8291' = "no" => disturbed8291 = "no"  BY <1>3
  <2>2. \A u \in Senders : ~Idle8291(u)' => ~Idle8291(u)  BY <1>13 DEF Idle8291
  <2>3. \A u \in Programs : u \in Senders  BY DEF Senders
  <2> QED  BY <1>2, <2>1, <2>2, <2>3 DEF Inv8291, TurnInv
<1>15. PoweredInv'
  <2> SUFFICES ASSUME power8291 = "awake", disturbed8291' # "power"
               PROVE  chip8291'.powered \/ \E u \in Senders : Includes(todo8291'[u], "power")
    BY <1>2 DEF PoweredInv
  <2>1. disturbed8291 # "power"  BY <1>3
  <2>2. CASE chip8291.powered
    <3>1. CASE m.op = "power"
      <4>1. sent  BY <1>3, <3>1
      <4>2. m.arg = TRUE
        <5>1. Lighting(q)  BY DEF q, Inv8291, QueueInv
        <5> QED  BY <1>0, <3>1, <5>1, TailOfMessages DEF m
      <4> QED  BY <1>6, <3>1, <4>1, <4>2
    <3>2. CASE m.op # "power"  BY <1>3, <1>6, <2>2, <3>2
    <3> QED  BY <3>1, <3>2
  <2>3. CASE ~chip8291.powered
    <3>0. z  BY <2>3 DEF Inv8291, QueueInv
    <3>1. m.op # "report"  BY <1>8, <3>0 DEF MsgOps
    <3>2. t = Tail(q)  BY <1>5, <3>1
    <3>3. PICK u \in Senders : Includes(todo8291[u], "power")  BY <2>1, <2>3 DEF Inv8291, PoweredInv
    <3>4. CASE u # s  BY <1>11, <3>3, <3>4
    <3>5. CASE u = s
      <4>1. m.op = "power" \/ Includes(Tail(q), "power")  BY <1>0, <3>3, <3>5, TailOfMessages DEF q, m
      <4>2. CASE m.op = "power"
        <5>1. sent  BY <1>3, <4>2
        <5>2. Lighting(q)  BY DEF q, Inv8291, QueueInv
        <5>3. m.arg = TRUE  BY <1>0, <4>2, <5>2, TailOfMessages DEF m
        <5> QED  BY <1>6, <4>2, <5>1, <5>3
      <4> QED  BY <1>4, <3>2, <4>1, <4>2
    <3> QED  BY <3>4, <3>5
  <2> QED  BY <2>2, <2>3
<1>16. Dark8291Inv'
  <2> SUFFICES ASSUME power8291 # "awake", disturbed8291' = "no"
               PROVE  Darkening(todo8291'["pm"]) /\ (Dark8291' \/ Includes(todo8291'["pm"], "off"))
    BY <1>2 DEF Dark8291Inv
  <2>1. disturbed8291 = "no" /\ sent  BY <1>3
  <2>2. s = "pm"  BY <1>0, <2>1 DEF Inv8291, TurnInv, Idle8291, Senders, q
  <2>3. Darkening(q) /\ (Dark8291 \/ Includes(q, "off"))  BY <2>1, <2>2 DEF Inv8291, Dark8291Inv, q
  <2>4. /\ Darkening(Tail(q)) /\ (m.op \in {"params", "level"} => m.arg = 0)
             /\ (m.op = "power" => m.arg = FALSE)
        /\ Includes(q, "off") => m.op = "off" \/ Includes(Tail(q), "off")
    BY <1>0, <2>3, TailOfMessages DEF m
  <2>5. todo8291'["pm"] = Tail(q)  BY <1>4, <1>5, <2>1, <2>2
  <2>6. Dark8291' = (~r.powered \/ ~r.on \/ r.brightness = 0)  BY <2>1 DEF Dark8291
  <2>7. m.op = "off" => Dark8291'  BY <1>6, <2>6
  <2>8. Dark8291 => Dark8291'  BY <1>6, <2>4, <2>6 DEF Dark8291
  <2> QED  BY <2>3, <2>4, <2>5, <2>7, <2>8
<1>17. ShownInv'
  <2>0. \A c \in Channels : Wanted(c)' = Wanted(c)  BY <1>2 DEF Wanted, RowOf
  <2> SUFFICES ASSUME power8291 = "awake", disturbed8291' = "no", ~data8291.buffer_input
               PROVE  /\ \A u \in Senders : AtLevel(todo8291'[u], data8291.brightness)
                      /\ \/ chip8291'.on /\ chip8291'.brightness = data8291.brightness
                         \/ \E u \in Senders : Includes(todo8291'[u], "params")
                      /\ \A c \in Channels : \/ chip8291'.frame[c] = Wanted(c)
                                             \/ \E u \in Senders : ContainsKey(todo8291'[u], c, z)
                      /\ \A u \in Senders : todo8291'[u] # << >> /\ todo8291'[u][1].op = "report" =>
                           chip8291'.announced = todo8291'[u][1].arg
    BY <1>2, <2>0 DEF ShownInv, Idle8291
  <2>1. disturbed8291 = "no" /\ sent /\ t = Tail(q)  BY <1>3, <1>5
  <2>2. /\ \A u \in Senders : AtLevel(todo8291[u], data8291.brightness)
        /\ \/ chip8291.on /\ chip8291.brightness = data8291.brightness
           \/ \E u \in Senders : Includes(todo8291[u], "params")
        /\ \A c \in Channels : \/ chip8291.frame[c] = Wanted(c)
                               \/ \E u \in Senders : ContainsKey(todo8291[u], c, z)
        /\ m.op = "report" => chip8291.announced = m.arg
    BY <1>0, <2>1 DEF Inv8291, ShownInv, Idle8291, q, m
  <2>3. AtLevel(q, data8291.brightness) /\ Lighting(q) /\ Announced(q)  BY <2>2 DEF q, Inv8291, QueueInv
  <2>4. /\ AtLevel(Tail(q), data8291.brightness) /\ (m.op = "params" => m.arg = data8291.brightness)
        /\ m.op \notin {"level", "off"}
        /\ Tail(q) # << >> /\ Tail(q)[1].op = "report" => m.op = "announce" /\ m.arg = Tail(q)[1].arg
        /\ Includes(q, "params") => m.op = "params" \/ Includes(Tail(q), "params")
        /\ \A c : ContainsKey(q, c, z) => Shows(m, c, z) \/ ContainsKey(Tail(q), c, z)
    BY <1>0, <2>3, TailOfMessages DEF m
  <2>5. \A u \in Senders : AtLevel(todo8291'[u], data8291.brightness)  BY <1>4, <1>11, <2>1, <2>2, <2>4
  <2>6. \/ chip8291'.on /\ chip8291'.brightness = data8291.brightness
        \/ \E u \in Senders : Includes(todo8291'[u], "params")
    <3>1. CASE m.op = "params"  BY <1>6, <2>1, <2>4, <3>1
    <3>2. CASE m.op # "params"
      <4>1. chip8291'.on = chip8291.on /\ chip8291'.brightness = chip8291.brightness
        BY <1>6, <2>1, <2>4, <3>2
      <4>2. \A u \in Senders : Includes(todo8291[u], "params") => Includes(todo8291'[u], "params")
        BY <1>4, <1>11, <2>1, <2>4, <3>2 DEF q
      <4> QED  BY <2>2, <4>1, <4>2
    <3> QED  BY <3>1, <3>2
  <2>7. ASSUME NEW c \in Channels
        PROVE  chip8291'.frame[c] = Wanted(c) \/ \E u \in Senders : ContainsKey(todo8291'[u], c, z)
    <3>0. color_scaling(data8291.intensity[c], RowOf(c)) = Wanted(c)  BY <1>0, ScaledIsWanted
    <3>1. CASE Shows(m, c, z)
      <4>1. CASE z
        <5>1. m.op = "colour" /\ m.arg = c  BY <3>1, <4>1 DEF Shows
        <5>2. r.frame = [chip8291.frame EXCEPT ![c] = ScaledColour(c)]  BY <1>6, <5>1
        <5>3. chip8291.frame \in Frames  BY <1>0 DEF Types8291, Chips8291
        <5>4. r.frame[c] = ScaledColour(c)  BY <5>2, <5>3 DEF Frames
        <5> QED  BY <2>1, <3>0, <5>4 DEF ScaledColour
      <4>2. CASE ~z
        <5>1. m.op = "report" /\ m.arg = c \div LedsPerRow  BY <3>1, <4>2 DEF Shows
        <5>2. RowOf(c) = m.arg  BY <4>2, <5>1 DEF RowOf
        <5>3. (m.arg * LedsPerRow) + (c % LedsPerRow) = c  BY <5>1, PlaceInRow
        <5>4. r.frame[c] = data8291.row_data[c]  BY <1>6, <2>2, <5>1, <5>2, <5>3
        <5>5. data8291.row_data[c] = color_scaling(data8291.intensity[c], RowOf(c))
          BY <4>2 DEF Inv8291, DataInv
        <5> QED  BY <2>1, <3>0, <5>4, <5>5
      <4> QED  BY <4>1, <4>2
    <3>2. CASE ~Shows(m, c, z)
      <4>1. \A u \in Senders : ContainsKey(todo8291[u], c, z) => ContainsKey(todo8291'[u], c, z)
        BY <1>4, <1>11, <2>1, <2>4, <3>2 DEF q
      <4>2. chip8291.frame[c] = Wanted(c) => chip8291'.frame[c] = Wanted(c)
        <5>1. chip8291.frame \in Frames  BY <1>0 DEF Types8291, Chips8291
        <5>2. CASE m.op = "colour"
          <6>1. m.arg # c
            <7>1. z  BY <1>0, <1>8, <5>2 DEF MsgOps
            <7> QED  BY <3>2, <5>2, <7>1 DEF Shows
          <6>2. r.frame[c] = chip8291.frame[c]  BY <1>6, <5>1, <5>2, <6>1 DEF Frames
          <6> QED  BY <2>1, <6>2
        <5>3. CASE m.op = "report"
          <6>1. ~z  BY <1>0, <1>8, <5>3 DEF MsgOps
          <6>2. m.arg # c \div LedsPerRow  BY <3>2, <5>3, <6>1 DEF Shows
          <6>3. RowOf(c) # chip8291.announced  BY <2>2, <5>3, <6>1, <6>2 DEF RowOf
          <6>4. r.frame[c] = chip8291.frame[c]  BY <1>6, <5>3, <6>3
          <6> QED  BY <2>1, <6>4
        <5>4. CASE m.op \notin {"colour", "report"}  BY <1>6, <2>1, <5>4
        <5> QED  BY <5>2, <5>3, <5>4
      <4> QED  BY <2>2, <4>1, <4>2
    <3> QED  BY <3>1, <3>2
  <2>8. ASSUME NEW u \in Senders, todo8291'[u] # << >>, todo8291'[u][1].op = "report"
        PROVE  chip8291'.announced = todo8291'[u][1].arg
    <3>1. u = s
      <4>1. todo8291[u] # << >>  BY <1>13, <2>8
      <4> QED  BY <1>0, <2>1, <4>1 DEF Inv8291, TurnInv, Idle8291, q
    <3>2. todo8291'[u] = Tail(q)  BY <1>4, <2>1, <3>1
    <3>3. m.op = "announce" /\ m.arg = todo8291'[u][1].arg  BY <2>4, <2>8, <3>2
    <3> QED  BY <1>6, <2>1, <3>3
  <2> QED  BY <2>5, <2>6, <2>7, <2>8
<1> QED  BY <1>9, <1>10, <1>12, <1>14, <1>15, <1>16, <1>17 DEF Inv8291

\* The start of a sequence.
LEMMA Begun ==
  ASSUME Types8291, NEW s \in Senders, NEW q \in Seq(Msgs), Begin(s, q)
  PROVE  /\ todo8291' \in [Senders -> Seq(Msgs)] /\ todo8291'[s] = q
         /\ \A u \in Senders \ {s} : todo8291'[u] = todo8291[u]
         /\ disturbed8291' \in {"no", "frame", "power"}
         /\ disturbed8291' = "power" => disturbed8291 = "power"
         /\ disturbed8291 = "power" /\ s # "pm" => disturbed8291' = "power"
         /\ q = << >> => disturbed8291' = disturbed8291
         /\ q # << >> /\ disturbed8291' = "no" => \A u \in Senders \ {s} : Idle8291(u)
<1>1. todo8291 \in [Senders -> Seq(Msgs)] /\ disturbed8291 \in {"no", "frame", "power"}  BY DEF Types8291
<1>2. /\ todo8291' \in [Senders -> Seq(Msgs)] /\ todo8291'[s] = q
      /\ \A u \in Senders \ {s} : todo8291'[u] = todo8291[u]
  BY <1>1 DEF Begin
<1>3. disturbed8291' = IF q = << >> \/ (disturbed8291 = "power" /\ s # "pm") THEN disturbed8291
                       ELSE IF \E t \in Senders \ {s} : ~Idle8291(t) THEN "frame" ELSE "no"
  BY DEF Begin
<1>4. CASE q = << >> \/ (disturbed8291 = "power" /\ s # "pm")
  <2>1. disturbed8291' = disturbed8291  BY <1>3, <1>4
  <2>2. disturbed8291 = "power" => "power" # "no"  OBVIOUS
  <2> QED  BY <1>1, <1>2, <1>4, <2>1, <2>2
<1>5. CASE ~(q = << >> \/ (disturbed8291 = "power" /\ s # "pm"))
  <2>1. disturbed8291' = IF \E t \in Senders \ {s} : ~Idle8291(t) THEN "frame" ELSE "no"  BY <1>3, <1>5
  <2> QED  BY <1>2, <1>5, <2>1
<1> QED  BY <1>4, <1>5

\* A store, and waking: everything is sent again, or the changes are collected.
LEMMA LightingKeeps ==
  ASSUME Inv8291, NEW s \in Senders, NEW q \in Seq(Msgs), Idle8291(s), Begin(s, q),
         power8291' = "awake", power8291 = "awake" \/ Quiet8291,
         UNCHANGED model8291, chip8291' \in Chips8291, chip8291'.powered = chip8291.powered,
         data8291' \in Data8291, DataInv',
         \/ Complete(q, data8291'.brightness, model8291.zones)
         \/ q = << >> /\ data8291'.buffer_input,
         s = "pm" => /\ q # << >> /\ (model8291.zones => Includes(q, "power"))
                     /\ Quiet8291,
         s # "pm" => power8291 = "awake"
  PROVE  Inv8291'
<1> DEFINE z == model8291.zones
<1>0. Types8291 /\ z \in BOOLEAN  BY DEF Inv8291, Types8291
<1>1. /\ todo8291' \in [Senders -> Seq(Msgs)] /\ todo8291'[s] = q
      /\ \A u \in Senders \ {s} : todo8291'[u] = todo8291[u]
      /\ disturbed8291' \in {"no", "frame", "power"}
      /\ disturbed8291' = "power" => disturbed8291 = "power"
      /\ disturbed8291 = "power" /\ s # "pm" => disturbed8291' = "power"
      /\ q = << >> => disturbed8291' = disturbed8291
      /\ q # << >> /\ disturbed8291' = "no" => \A u \in Senders \ {s} : Idle8291(u)
  BY <1>0, Begun
<1>2. Legal(q, z) /\ Lighting(q) /\ Announced(q)  BY <1>0, EmptyIsKept DEF Complete
<1>3. \A u \in Senders : u = s \/ todo8291'[u] = todo8291[u]  BY <1>1
<1>4. Types8291'  BY <1>0, <1>1 DEF Types8291
<1>5. QueueInv'
  <2>1. \A u \in Senders : Legal(todo8291'[u], z)  BY <1>1, <1>2, <1>3 DEF Inv8291, QueueInv
  <2>2. ASSUME NEW u \in Senders  PROVE Lighting(todo8291'[u]) /\ Announced(todo8291'[u])
    <3>1. Lighting(todo8291[u]) /\ Announced(todo8291[u])
      <4>1. CASE power8291 = "awake"  BY <4>1 DEF Inv8291, QueueInv
      <4>2. CASE Quiet8291  BY <4>2, EmptyIsKept DEF Quiet8291, Idle8291
      <4> QED  BY <4>1, <4>2
    <3> QED  BY <1>1, <1>2, <1>3, <3>1
  <2>3. ~z => chip8291'.powered  BY DEF Inv8291, QueueInv
  <2> QED  BY <2>1, <2>2, <2>3 DEF QueueInv
<1>6. TurnInv'
  <2> SUFFICES ASSUME disturbed8291' = "no", NEW u \in Senders, NEW v \in Senders,
                      todo8291'[u] # << >>, todo8291'[v] # << >>
               PROVE  u = v
    BY DEF TurnInv, Idle8291
  <2>1. CASE q = << >>
    <3>1. disturbed8291 = "no"  BY <1>1, <2>1
    <3>2. todo8291[u] # << >> /\ todo8291[v] # << >>  BY <1>1, <1>3, <2>1
    <3> QED  BY <3>1, <3>2 DEF Inv8291, TurnInv, Idle8291
  <2>2. CASE q # << >>  BY <1>1, <1>3, <2>2 DEF Idle8291
  <2> QED  BY <2>1, <2>2
<1>7. PoweredInv'
  <2> SUFFICES ASSUME disturbed8291' # "power"
               PROVE  chip8291'.powered \/ \E u \in Senders : Includes(todo8291'[u], "power")
    BY DEF PoweredInv
  <2>1. CASE s = "pm"
    <3>1. CASE z  BY <1>1, <2>1, <3>1
    <3>2. CASE ~z  BY <1>5, <3>2 DEF QueueInv
    <3> QED  BY <3>1, <3>2
  <2>2. CASE s # "pm"
    <3>1. disturbed8291 # "power"  BY <1>1, <2>2
    <3>2. chip8291.powered \/ \E u \in Senders : Includes(todo8291[u], "power")
      BY <2>2, <3>1 DEF Inv8291, PoweredInv
    <3>3. ~Includes(todo8291[s], "power")  BY EmptyIsKept DEF Idle8291
    <3> QED  BY <1>3, <3>2, <3>3
  <2> QED  BY <2>1, <2>2
<1>8. Dark8291Inv'  BY DEF Dark8291Inv
<1>9. ShownInv'
  <2> SUFFICES ASSUME disturbed8291' = "no", ~data8291'.buffer_input
               PROVE  ShownInv'
    BY DEF ShownInv
  <2>1. Complete(q, data8291'.brightness, z) /\ q # << >>  BY <1>1 DEF Complete
  <2>2. \A u \in Senders : u = s \/ todo8291'[u] = << >>  BY <1>1, <1>3, <2>1 DEF Idle8291
  <2>3. \A u \in Senders : AtLevel(todo8291'[u], data8291'.brightness)
    BY <1>1, <2>1, <2>2, EmptyIsKept DEF Complete
  <2>4. Includes(todo8291'[s], "params")  BY <1>1, <2>1 DEF Complete
  <2>5. \A c \in Channels : ContainsKey(todo8291'[s], c, z)  BY <1>1, <2>1 DEF Complete
  <2>6. \A u \in Senders : todo8291'[u] # << >> => todo8291'[u][1].op # "report"
    BY <1>1, <2>1, <2>2 DEF Complete
  <2>7. s \in Senders /\ model8291'.zones = z  OBVIOUS
  <2> HIDE DEF z
  <2> QED  BY <2>3, <2>4, <2>5, <2>6, <2>7, Zenon DEF ShownInv, Idle8291
<1> QED  BY <1>4, <1>5, <1>6, <1>7, <1>8, <1>9 DEF Inv8291

\* Sleep, and the end.
LEMMA DarkeningKeeps ==
  ASSUME Inv8291, NEW q \in Seq(Msgs), Begin("pm", q), power8291' \in {"asleep", "removed"},
         UNCHANGED <<model8291, chip8291>>, data8291' \in Data8291, DataInv',
         Legal(q, model8291.zones), Darkening(q), Includes(q, "off")
  PROVE  Inv8291'
<1>0. Types8291 /\ "pm" \in Senders  BY DEF Inv8291, Senders
<1>1. /\ todo8291' \in [Senders -> Seq(Msgs)] /\ todo8291'["pm"] = q
      /\ \A u \in Senders \ {"pm"} : todo8291'[u] = todo8291[u]
      /\ disturbed8291' \in {"no", "frame", "power"}
      /\ q # << >> /\ disturbed8291' = "no" => \A u \in Senders \ {"pm"} : Idle8291(u)
  BY <1>0, Begun
<1>2. q # << >>  BY EmptyIsKept
<1>3. \A u \in Senders : u = "pm" \/ todo8291'[u] = todo8291[u]  BY <1>1
<1>4. Types8291'  BY <1>0, <1>1 DEF Types8291
<1>5. QueueInv'  BY <1>1, <1>3 DEF Inv8291, QueueInv
<1>6. disturbed8291' = "no" => \A u \in Senders : u = "pm" \/ todo8291'[u] = << >>
  BY <1>1, <1>2, <1>3 DEF Idle8291
<1>7. TurnInv'
  <2>1. \A p \in Programs : p \in Senders /\ p # "pm"  BY Ite8291Assumption DEF Senders
  <2> QED  BY <1>6, <2>1 DEF TurnInv, Idle8291
<1>8. PoweredInv' /\ ShownInv'  BY DEF PoweredInv, ShownInv
<1>9. Dark8291Inv'  BY <1>1 DEF Dark8291Inv
<1> QED  BY <1>4, <1>5, <1>7, <1>8, <1>9 DEF Inv8291

\* A colour and a brightness are stored.
LEMMA SetLedKeeps8291 ==
  ASSUME Inv8291, NEW p \in Programs, NEW c \in Channels, NEW rgb \in Triples, NEW level \in 0 .. 50,
         Usable(p), SetLed(p, c, rgb, level), UNCHANGED <<model8291, chip8291, power8291>>
  PROVE  Inv8291'
<1>0. /\ Types8291 /\ model8291 \in [zones : BOOLEAN, quirk : Quirks] /\ model8291.zones \in BOOLEAN
      /\ chip8291 \in Chips8291
  BY DEF Inv8291, Types8291
<1>1. p \in Senders /\ p # "pm" /\ power8291 = "awake" /\ Idle8291(p)
  BY Ite8291Assumption DEF Senders, Usable
<1> DEFINE scaled == color_scaling(rgb, RowOf(c))
           z == model8291.zones
           q == IF data8291.buffer_input THEN << >> ELSE WriteState(level)
<1>2. scaled \in Rgb  BY <1>0, ScalingType
<1>3. /\ data8291 \in Data8291 /\ data8291.intensity \in [Channels -> Triples]
      /\ data8291.row_data \in Frames /\ data8291.buffer_input \in BOOLEAN
  BY <1>0 DEF Types8291, Data8291
<1>4. PICK f : f = [data8291.intensity EXCEPT ![c] = rgb]  OBVIOUS
<1>5. f \in [Channels -> Triples]  BY <1>3, <1>4
<1>6. PICK g : g = [data8291.row_data EXCEPT ![c] = IF z THEN @ ELSE scaled]  OBVIOUS
<1>7. g \in Frames  BY <1>2, <1>3, <1>6 DEF Frames
<1>8. data8291' = [data8291 EXCEPT !.intensity = f, !.brightness = level,
                                   !.row_data[c] = IF z THEN @ ELSE scaled]
  BY <1>4 DEF SetLed
<1>9. /\ data8291' \in Data8291 /\ data8291'.intensity = f /\ data8291'.brightness = level
      /\ data8291'.row_data = g /\ data8291'.buffer_input = data8291.buffer_input
  <2> HIDE DEF scaled, z
  <2>1. PICK x : x = [data8291 EXCEPT !.intensity = f]  OBVIOUS
  <2>2. /\ x \in Data8291 /\ x.intensity = f /\ x.row_data = data8291.row_data
        /\ x.buffer_input = data8291.buffer_input
    BY <1>3, <1>5, <2>1 DEF Data8291
  <2>3. PICK y : y = [x EXCEPT !.brightness = level]  OBVIOUS
  <2>4. /\ y \in Data8291 /\ y.intensity = f /\ y.row_data = data8291.row_data /\ y.brightness = level
        /\ y.buffer_input = data8291.buffer_input
    BY <2>2, <2>3 DEF Data8291
  <2>5. data8291' = [y EXCEPT !.row_data = g]  BY <1>3, <1>6, <1>8, <2>1, <2>2, <2>3, <2>4 DEF Data8291
  <2> QED  BY <1>7, <2>4, <2>5 DEF Data8291
<1>10. DataInv'
  <2> SUFFICES ASSUME ~z, NEW d \in Channels
               PROVE  g[d] = color_scaling(f[d], RowOf(d))
    BY <1>9 DEF DataInv, color_scaling, RowOf
  <2>1. data8291.row_data[d] = color_scaling(data8291.intensity[d], RowOf(d))  BY DEF Inv8291, DataInv
  <2>2. CASE d = c
    <3>1. g[d] = scaled  BY <1>3, <1>6, <2>2 DEF Frames
    <3>2. f[d] = rgb  BY <1>3, <1>4, <2>2
    <3> QED  BY <2>2, <3>1, <3>2
  <2>3. CASE d # c
    <3>1. g[d] = data8291.row_data[d]  BY <1>3, <1>6, <2>3 DEF Frames
    <3>2. f[d] = data8291.intensity[d]  BY <1>3, <1>4, <2>3
    <3> QED  BY <2>1, <3>1, <3>2
  <2> QED  BY <2>2, <2>3
<1>11. Begin(p, q)  BY DEF SetLed
<1>12. Complete(WriteState(level), level, z)  BY <1>0, StateComplete
<1>13. q \in Seq(Msgs)  BY <1>12, EmptyIsKept DEF Complete, Legal
<1>14. Complete(q, data8291'.brightness, z) \/ (q = << >> /\ data8291'.buffer_input)  BY <1>9, <1>12
<1> HIDE DEF q
<1> QED  BY <1>0, <1>1, <1>9, <1>10, <1>11, <1>13, <1>14, LightingKeeps

\* A program collects changes, or has them sent.
LEMMA BufferKeeps ==
  ASSUME Inv8291, NEW p \in Programs, NEW value \in BOOLEAN, BufferInput(p, value)
  PROVE  Inv8291'
<1>0. /\ Types8291 /\ model8291.zones \in BOOLEAN /\ chip8291 \in Chips8291 /\ data8291 \in Data8291
      /\ data8291.brightness \in 0 .. 50
  BY DEF Inv8291, Types8291, Data8291
<1>1. /\ p \in Senders /\ p # "pm" /\ power8291 = "awake" /\ Idle8291(p)
      /\ UNCHANGED <<model8291, chip8291, power8291>>
  BY Ite8291Assumption DEF Senders, Usable, BufferInput
<1> DEFINE q == IF value THEN << >> ELSE WriteState(data8291.brightness)
<1>2. /\ data8291' \in Data8291 /\ data8291'.intensity = data8291.intensity
      /\ data8291'.brightness = data8291.brightness /\ data8291'.row_data = data8291.row_data
      /\ data8291'.buffer_input = value
  <2>1. data8291' = [data8291 EXCEPT !.buffer_input = value]  BY DEF BufferInput
  <2> QED  BY <1>0, <2>1 DEF Data8291
<1>3. DataInv'  BY <1>1, <1>2 DEF Inv8291, DataInv, color_scaling, RowOf
<1>4. Begin(p, q)  BY DEF BufferInput
<1>5. Complete(WriteState(data8291.brightness), data8291.brightness, model8291.zones)
  BY <1>0, StateComplete
<1>6. q \in Seq(Msgs)  BY <1>5, EmptyIsKept DEF Complete, Legal
<1>7. Complete(q, data8291'.brightness, model8291.zones) \/ (q = << >> /\ data8291'.buffer_input)
  BY <1>2, <1>5
<1> HIDE DEF q
<1> QED  BY <1>0, <1>1, <1>2, <1>3, <1>4, <1>6, <1>7, LightingKeeps

\* A black frame is a frame.
LEMMA BlackFrame == [c \in Channels |-> <<0, 0, 0>>] \in Frames
<1>1. <<0, 0, 0>> \in Rgb  BY DEF Rgb
<1> QED  BY <1>1 DEF Frames

\* The machine wakes.
LEMMA ResumeKeeps8291 ==
  ASSUME Inv8291, Resume8291
  PROVE  Inv8291'
<1>0. /\ Types8291 /\ model8291.zones \in BOOLEAN /\ chip8291 \in Chips8291 /\ data8291 \in Data8291
      /\ data8291.brightness \in 0 .. 50
  BY DEF Inv8291, Types8291, Data8291
<1> DEFINE q == WriteOn \o WriteState(data8291.brightness)
<1>1. /\ power8291' = "awake" /\ Quiet8291 /\ UNCHANGED <<model8291, data8291>> /\ Begin("pm", q)
      /\ "pm" \in Senders /\ Idle8291("pm")
  BY DEF Resume8291, Senders, Quiet8291
<1>2. chip8291' \in Chips8291 /\ chip8291'.powered = chip8291.powered
  <2>1. PICK f \in Frames : f = [c \in Channels |-> <<0, 0, 0>>]  BY BlackFrame
  <2>2. chip8291' \in {chip8291, [chip8291 EXCEPT !.frame = f]}  BY <2>1 DEF Resume8291
  <2> QED  BY <1>0, <2>2 DEF Chips8291
<1>3. DataInv'  BY <1>1 DEF Inv8291, DataInv, color_scaling, RowOf
<1>4. Complete(q, data8291.brightness, model8291.zones) /\ (model8291.zones => Includes(q, "power"))
  BY <1>0, WakingComplete
<1>5. q \in Seq(Msgs) /\ q # << >>  BY <1>4 DEF Complete, Legal
<1> HIDE DEF q
<1> QED  BY <1>0, <1>1, <1>2, <1>3, <1>4, <1>5, LightingKeeps

\* The machine goes to sleep, or the driver goes.
LEMMA EndKeeps ==
  ASSUME Inv8291, Suspend8291 \/ Remove8291
  PROVE  Inv8291'
<1>0. /\ Types8291 /\ model8291.zones \in BOOLEAN /\ chip8291 \in Chips8291 /\ data8291 \in Data8291
  BY DEF Inv8291, Types8291
<1>1. CASE Suspend8291
  <2>1. /\ Begin("pm", WriteOff) /\ UNCHANGED <<model8291, data8291, chip8291>> /\ power8291' = "asleep"
    BY <1>1 DEF Suspend8291
  <2>2. DataInv'  BY <2>1 DEF Inv8291, DataInv, color_scaling, RowOf
  <2>3. Legal(WriteOff, model8291.zones) /\ Darkening(WriteOff) /\ Includes(WriteOff, "off")
    BY <1>0, OffDark
  <2>4. WriteOff \in Seq(Msgs)  BY <2>3 DEF Legal
  <2> QED  BY <1>0, <2>1, <2>2, <2>3, <2>4, DarkeningKeeps
<1>2. CASE Remove8291
  <2> DEFINE r == IF data8291.buffer_input THEN << >> ELSE Repeated(NrRows * LedsPerRow, WriteState(0))
             q == WriteOff \o r
  <2>1. /\ Begin("pm", q) /\ UNCHANGED <<model8291, chip8291>> /\ power8291' = "removed"
        /\ data8291' = [data8291 EXCEPT !.brightness = 0]
    BY <1>2 DEF Remove8291
  <2>2. /\ data8291' \in Data8291 /\ data8291'.intensity = data8291.intensity
        /\ data8291'.row_data = data8291.row_data
    BY <1>0, <2>1 DEF Data8291
  <2>3. DataInv'  BY <2>1, <2>2 DEF Inv8291, DataInv, color_scaling, RowOf
  <2>4. r \in {<< >>, Repeated(NrRows * LedsPerRow, WriteState(0))}  OBVIOUS
  <2> HIDE DEF r
  <2>5. Legal(q, model8291.zones) /\ Darkening(q) /\ Includes(q, "off")  BY <1>0, <2>4, RemovalDark
  <2>6. q \in Seq(Msgs)  BY <2>5 DEF Legal
  <2> HIDE DEF q
  <2> QED  BY <1>0, <2>1, <2>2, <2>3, <2>5, <2>6, DarkeningKeeps
<1> QED  BY <1>1, <1>2

\* Probe sends the whole frame.
LEMMA Init8291Inv == Init8291 => Inv8291
<1> SUFFICES ASSUME Init8291  PROVE Inv8291  OBVIOUS
<1> DEFINE z == model8291.zones
           q == WriteOn \o WriteState(0)
<1>1. /\ model8291 \in [zones : BOOLEAN, quirk : Quirks] /\ z \in BOOLEAN
      /\ power8291 = "awake" /\ disturbed8291 = "no" /\ "pm" \in Senders
  BY DEF Init8291, Senders
<1>2. White \in Triples  BY DEF White, Triples
<1>3. /\ data8291 \in Data8291 /\ data8291.brightness = 0 /\ DataInv
  <2>1. \A c \in Channels : color_scaling(White, RowOf(c)) \in Rgb  BY <1>1, <1>2, ScalingType
  <2>2. PICK f : f = [c \in Channels |-> color_scaling(White, RowOf(c))]  OBVIOUS
  <2>3. f \in Frames /\ \A c \in Channels : f[c] = color_scaling(White, RowOf(c))
    BY <2>1, <2>2 DEF Frames
  <2>4. PICK i : i = [c \in Channels |-> White]  OBVIOUS
  <2>5. i \in [Channels -> Triples] /\ \A c \in Channels : i[c] = White  BY <1>2, <2>4
  <2>6. data8291 = [intensity |-> i, brightness |-> 0, row_data |-> f, buffer_input |-> FALSE]
    BY <2>2, <2>4 DEF Init8291
  <2>7. /\ data8291 \in Data8291 /\ data8291.brightness = 0 /\ data8291.intensity = i
        /\ data8291.row_data = f
    BY <2>3, <2>5, <2>6 DEF Data8291
  <2> QED  BY <2>3, <2>5, <2>7 DEF DataInv
<1>4. chip8291 \in Chips8291 /\ chip8291.powered = ~z
  <2>1. PICK f \in Frames : f = [c \in Channels |-> <<0, 0, 0>>]  BY BlackFrame
  <2>2. chip8291 = [powered |-> ~z, on |-> FALSE, brightness |-> 0, announced |-> 0, frame |-> f]
    BY <2>1 DEF Init8291
  <2>3. 0 \in 0 .. NrRows - 1  BY Ite8291Assumption
  <2>4. (~z) \in BOOLEAN  OBVIOUS
  <2> HIDE DEF z
  <2> QED  BY <2>1, <2>2, <2>3, <2>4 DEF Chips8291
<1>5. Complete(q, 0, z) /\ (z => Includes(q, "power"))  BY <1>1, WakingComplete
<1>6. Legal(q, z) /\ q \in Seq(Msgs) /\ Lighting(q) /\ Announced(q) /\ AtLevel(q, 0) /\ q[1].op # "report"
      /\ Includes(q, "params") /\ \A c \in Channels : ContainsKey(q, c, z)
  BY <1>5 DEF Complete, Legal
<1>7. /\ \A s \in Senders : todo8291[s] = IF s = "pm" THEN q ELSE << >>
      /\ todo8291 = [s \in Senders |-> IF s = "pm" THEN q ELSE << >>]
  BY DEF Init8291
<1> HIDE DEF q
<1>8. Types8291  BY <1>1, <1>3, <1>4, <1>6, <1>7, EmptyIsKept DEF Types8291
<1>9. QueueInv  BY <1>4, <1>6, <1>7, EmptyIsKept DEF QueueInv
<1>10. TurnInv  BY <1>1, <1>7 DEF TurnInv, Idle8291
<1>11. PoweredInv  BY <1>1, <1>4, <1>5, <1>7 DEF PoweredInv
<1>12. Dark8291Inv  BY <1>1 DEF Dark8291Inv
<1>13. ShownInv
  <2>1. \A s \in Senders : AtLevel(todo8291[s], 0)  BY <1>6, <1>7, EmptyIsKept
  <2>2. todo8291["pm"] = q  BY <1>1, <1>7
  <2>3. \A s \in Senders : todo8291[s] # << >> => todo8291[s][1].op # "report"  BY <1>6, <1>7
  <2> QED  BY <1>1, <1>3, <1>6, <2>1, <2>2, <2>3 DEF ShownInv, Idle8291
<1> QED  BY <1>3, <1>8, <1>9, <1>10, <1>11, <1>12, <1>13 DEF Inv8291

\* Every step keeps the invariant.
LEMMA Step8291 == Inv8291 /\ [Next8291]_vars8291 => Inv8291'
<1> SUFFICES ASSUME Inv8291, [Next8291]_vars8291  PROVE Inv8291'  OBVIOUS
<1>0. Types8291 /\ data8291 \in Data8291  BY DEF Inv8291, Types8291
<1>1. ASSUME NEW p \in Programs, NEW c \in Channels, NEW rgb \in Colours, StoreColour(p, c, rgb)
      PROVE  Inv8291'
  <2>1. rgb \in Triples  BY Ite8291Assumption DEF Triples
  <2>2. data8291.brightness \in 0 .. 50  BY <1>0 DEF Data8291
  <2> QED  BY <1>1, <2>1, <2>2, SetLedKeeps8291 DEF StoreColour
<1>2. ASSUME NEW p \in Programs, NEW c \in Channels, NEW level \in Levels8291, StoreLevel(p, c, level)
      PROVE  Inv8291'
  <2>1. level \in 0 .. 50  BY Ite8291Assumption
  <2>2. data8291.intensity[c] \in Triples  BY <1>0 DEF Data8291
  <2> QED  BY <1>2, <2>1, <2>2, SetLedKeeps8291 DEF StoreLevel
<1>3. ASSUME NEW p \in Programs, NEW value \in BOOLEAN, BufferInput(p, value)  PROVE Inv8291'
  BY <1>3, BufferKeeps
<1>4. ASSUME NEW s \in Senders, SendMessage(s)  PROVE Inv8291'
  BY <1>4, SendKeeps8291
<1>5. CASE Suspend8291 \/ Resume8291 \/ Remove8291  BY <1>5, EndKeeps, ResumeKeeps8291
<1>6. CASE UNCHANGED vars8291
  BY <1>6 DEF vars8291, Inv8291, Types8291, DataInv, QueueInv, TurnInv, PoweredInv, Dark8291Inv, ShownInv,
              Idle8291, Dark8291, Wanted, RowOf, color_scaling
<1> QED  BY <1>1, <1>2, <1>3, <1>4, <1>5, <1>6 DEF Next8291

Spec8291 == Init8291 /\ [][Next8291]_vars8291

\* When nothing is being sent and nothing was disturbed, the keyboard shows
\* the corrected colour and the brightness of every LED, or is dark: what is
\* not shown yet would still have to be sent (ite_8291.c, ite8291_write_state
\* and ite8291_zones_write_state).
THEOREM FrameAlwaysShown == Spec8291 => []KeyboardShowsFrame
<1>1. Inv8291 => KeyboardShowsFrame
  <2> SUFFICES ASSUME Inv8291, Quiet8291, disturbed8291 = "no"
               PROVE  IF power8291 = "awake"
                      THEN data8291.buffer_input \/
                           /\ chip8291.powered /\ chip8291.on /\ chip8291.brightness = data8291.brightness
                           /\ \A c \in Channels : chip8291.frame[c] = Wanted(c)
                      ELSE Dark8291
    BY Zenon DEF KeyboardShowsFrame
  <2>1. \A s \in Senders : todo8291[s] = << >>  BY DEF Quiet8291, Idle8291
  <2>2. /\ \A op : \A s \in Senders : ~Includes(todo8291[s], op)
        /\ \A c : \A s \in Senders : ~ContainsKey(todo8291[s], c, model8291.zones)
    BY <2>1, EmptyIsKept
  <2>3. "pm" \in Senders  BY DEF Senders
  <2>4. CASE power8291 = "awake"
    <3>1. chip8291.powered  BY <2>2, <2>4 DEF Inv8291, PoweredInv
    <3>2. CASE data8291.buffer_input  BY <2>4, <3>2
    <3>3. CASE ~data8291.buffer_input
      <4>1. chip8291.on /\ chip8291.brightness = data8291.brightness
        BY <2>2, <2>4, <3>3 DEF Inv8291, ShownInv
      <4>2. \A c \in Channels : chip8291.frame[c] = Wanted(c)  BY <2>2, <2>4, <3>3 DEF Inv8291, ShownInv
      <4> QED  BY <2>4, <3>1, <4>1, <4>2
    <3> QED  BY <3>2, <3>3
  <2>5. CASE power8291 # "awake"  BY <2>2, <2>3, <2>5 DEF Inv8291, Dark8291Inv
  <2> QED  BY <2>4, <2>5
<1> QED  BY <1>1, Init8291Inv, Step8291, PTL DEF Spec8291
=============================================================================
