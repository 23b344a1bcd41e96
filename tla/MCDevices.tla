----------------------------- MODULE MCDevices -----------------------------
(***************************************************************************)
(* The drivers that share nothing with the others, and the rest of         *)
(* tuxedo_io, in one state machine that explores one of them at a time.    *)
(***************************************************************************)
EXTENDS Ite8291, Ite8291Lb, Ite829x, Ite8297, Nb04, TuxedoIo

VARIABLE part

MCColours == {<<255, 255, 255>>, <<255, 0, 10>>}
MCModeColours == <<"red", "white">>
MCLettersColours == <<"red", "white">>

Parts == {"kbd8291", "lightbar", "kbd829x", "rgb8297", "nb04", "tdp", "camera"}

\* The correction that treats the bottom and the top row each in its own way.
TriedModels == [zones : BOOLEAN, quirk : {q \in Quirks : q.bottom # Plain}]
PlainModel == [zones |-> FALSE, quirk |-> [all |-> Plain, bottom |-> Plain, top |-> Plain]]
OneMachine == [table |-> "ph4tux", double |-> FALSE, custom |-> FALSE]

\* Parts that are not explored start in one state.
MCInit ==
  /\ part \in Parts
  /\ model8291 \in IF part = "kbd8291" THEN TriedModels ELSE {PlainModel}
  /\ Init8291
  /\ productLb \in IF part = "lightbar" THEN Products ELSE {"0x7000"}
  /\ InitLb /\ Init8297
  /\ Init829x /\ (part # "kbd829x" => disturbed829x = {})
  /\ Init04 /\ (part # "nb04" => chip04.enabled /\ mode04 = "balanced")
  /\ machine \in IF part = "tdp" THEN Machines ELSE {OneMachine}
  /\ InitIo /\ (part # "camera" => webcam = [on |-> FALSE, toggles |-> FALSE])

\* Of the other parts nothing changes.
Only(p) ==
  /\ IF p = "kbd8291" THEN TRUE ELSE UNCHANGED vars8291
  /\ IF p = "lightbar" THEN TRUE ELSE UNCHANGED varsLb
  /\ IF p = "kbd829x" THEN TRUE ELSE UNCHANGED vars829x
  /\ IF p = "rgb8297" THEN TRUE ELSE UNCHANGED vars8297
  /\ IF p = "nb04" THEN TRUE ELSE UNCHANGED vars04
  /\ IF p \in {"tdp", "camera"} THEN TRUE ELSE UNCHANGED varsIo

MCNext ==
  /\ UNCHANGED part
  /\ \/ part = "kbd8291" /\ Next8291 /\ Only("kbd8291")
     \/ part = "lightbar" /\ NextLb /\ Only("lightbar")
     \/ part = "kbd829x" /\ Next829x /\ Only("kbd829x")
     \/ part = "rgb8297" /\ Next8297 /\ Only("rgb8297")
     \/ part = "nb04" /\ Next04 /\ Only("nb04")
     \/ part = "tdp" /\ UniwillNext /\ Only("tdp")
     \/ part = "camera" /\ ClevoNext /\ Only("camera")

Spec == MCInit /\ [][MCNext]_<<part, vars8291, varsLb, vars829x, vars8297, vars04, varsIo>>

\* What the LEDs of the two RGB controllers say is what the devices show, once
\* nothing is being sent, of all that neither overlapped nor was lost since.
RgbShowsLeds == KeysShowLeds /\ ColourShowsChannels
=============================================================================
