----------------------------- MODULE Ite8291Lb -----------------------------
(***************************************************************************)
(* The ITE light bar controllers, src/src/ite_8291_lb/ite_8291_lb.c: one   *)
(* LED, whose colour and brightness are sent on every store.  The LED core *)
(* serialises the stores, but probe registers the LED before it sends the  *)
(* first state and remove goes on after the LED is set to 0, so a store    *)
(* and the driver may send at the same time.  Nobody looks at the result   *)
(* of a transfer: each may be lost.  A controller 0x6010 does not always   *)
(* obey the messages that turn it off ("issue with turning off reliably"), *)
(* which is why it is sent black first.                                    *)
(***************************************************************************)
EXTENDS Integers, Sequences

CONSTANTS ColoursLb,      \* colours programs choose, without "black"
          LevelsLb,       \* brightness values they choose
          MaxStoresLb     \* bound: stores

VARIABLES productLb, ledLb, chipLb,
          todoLb,      \* messages each sender has still to send
          powerLb,     \* where the driver is: probing, awake, asleep, resuming, removing or removed
          lostLb,      \* kinds of message of which the last one was lost
          staleLb,     \* the driver had read the LED, and not sent it all, when a store changed it
          storesLb

varsLb == <<productLb, ledLb, chipLb, todoLb, powerLb, lostLb, staleLb, storesLb>>

SendersLb == {"driver", "store"}
IdleLb(s) == todoLb[s] = << >>

Products == {"0x6010", "0x7000", "0x7001"}

\* ite8291_write_lightbar_mono: colour, then effect and brightness.
Mono(colour, level) ==
  <<[op |-> "colour", arg |-> colour], [op |-> "mono", arg |-> level]>>

\* Each product has a selector of its own, which the messages must carry.
Selector(product) == CASE product = "0x6010" -> 0 [] product = "0x7000" -> 1
                       [] product = "0x7001" -> 2

ite8291_write_on == <<[op |-> "power", arg |-> Selector(productLb), to |-> TRUE]>>

\* Mutant: the reliable way to turn off is left out.
OffOnly == <<[op |-> "off", arg |-> Selector(productLb)],
             [op |-> "power", arg |-> Selector(productLb), to |-> FALSE]>>

ite8291_write_off ==
  (IF productLb = "0x6010" THEN Mono("black", 0) ELSE << >>) \o
  <<[op |-> "off", arg |-> Selector(productLb)],
    [op |-> "power", arg |-> Selector(productLb), to |-> FALSE]>>

\* leds_set_brightness_mc_lightbar and ite8291_write_state, of the LED as it is then.
ite8291_write_state(led) == Mono(led.colour, led.brightness)

\* The end of probe, and resume: on, then the LED as it is found after that.
WriteOnAndState == ite8291_write_on \o <<[op |-> "state"]>>

\* The states the light bar may be in after a message.
ReceivedLb(m) ==
  LET ignored == IF productLb = "0x6010" THEN {chipLb} ELSE {} IN
  CASE m.op = "colour" -> {[chipLb EXCEPT !.colour = m.arg]}
    [] m.op = "mono" -> {[chipLb EXCEPT !.on = TRUE, !.brightness = m.arg]}
    [] m.op = "off" -> ignored \cup {[chipLb EXCEPT !.on = FALSE]}
    [] m.op = "power" -> (IF m.to THEN {} ELSE ignored) \cup {[chipLb EXCEPT !.powered = m.to]}

\* When its last message is sent the driver has finished probe or resume.
FinishedLb == IF powerLb \in {"probing", "resuming"} THEN "awake" ELSE powerLb

\* ite8291_write_control: the message is received, or lost and nobody notices.
SendLb(s) ==
  /\ ~IdleLb(s) /\ Head(todoLb[s]).op # "state"
  /\ LET m == Head(todoLb[s]) IN
     \/ chipLb' \in ReceivedLb(m) /\ lostLb' = lostLb \ {m.op}
     \/ lostLb' = lostLb \cup {m.op} /\ UNCHANGED chipLb
  /\ todoLb' = [todoLb EXCEPT ![s] = Tail(@)]
  /\ powerLb' = IF s = "driver" /\ Len(todoLb[s]) = 1 THEN FinishedLb ELSE powerLb
  /\ UNCHANGED <<productLb, ledLb, staleLb, storesLb>>

\* ite8291_write_state in probe and resume reads the LED without its lock.
ReadStateLb ==
  /\ ~IdleLb("driver") /\ Head(todoLb["driver"]).op = "state"
  /\ todoLb' = [todoLb EXCEPT !["driver"] = ite8291_write_state(ledLb)]
  /\ UNCHANGED <<productLb, ledLb, chipLb, powerLb, lostLb, staleLb, storesLb>>

\* driver_probe_callb, once ite8291_init_leds has registered the LED: white at brightness 0.
InitLb ==
  /\ productLb \in Products
  /\ ledLb = [colour |-> "white", brightness |-> 0]
  /\ chipLb = [powered |-> FALSE, on |-> FALSE, colour |-> "black", brightness |-> 0]
  /\ powerLb = "probing" /\ lostLb = {} /\ staleLb = FALSE
  /\ todoLb = [s \in SendersLb |-> IF s = "driver" THEN WriteOnAndState ELSE << >>]
  /\ storesLb = 0

\* The driver has read the LED and not sent all of it.
StateReadLb == ~IdleLb("driver") /\ Head(todoLb["driver"]).op \in {"colour", "mono"}

\* leds_set_brightness_mc_lightbar, after a store of the colour or the brightness.
StoreLb ==
  /\ powerLb \in {"probing", "awake", "removing"} /\ IdleLb("store") /\ storesLb < MaxStoresLb
  /\ \/ \E c \in ColoursLb : ledLb' = [ledLb EXCEPT !.colour = c]
     \/ \E b \in LevelsLb : ledLb' = [ledLb EXCEPT !.brightness = b]
  /\ todoLb' = [todoLb EXCEPT !["store"] = ite8291_write_state(ledLb')]
  /\ staleLb' = StateReadLb
  /\ storesLb' = storesLb + 1
  /\ UNCHANGED <<productLb, chipLb, powerLb, lostLb>>

\* driver_suspend_callb: programs are frozen, and probe is over.
SuspendLb ==
  /\ powerLb = "awake" /\ IdleLb("store")
  /\ powerLb' = "asleep" /\ todoLb' = [todoLb EXCEPT !["driver"] = ite8291_write_off]
  /\ UNCHANGED <<productLb, ledLb, chipLb, lostLb, staleLb, storesLb>>

\* resume and reset_resume; the controller may have lost its state.
ResumeLb ==
  /\ powerLb = "asleep" /\ IdleLb("driver")
  /\ powerLb' = "resuming"
  /\ chipLb' \in {chipLb, [chipLb EXCEPT !.powered = FALSE, !.colour = "black", !.brightness = 0]}
  /\ todoLb' = [todoLb EXCEPT !["driver"] = WriteOnAndState]
  /\ staleLb' = FALSE
  /\ UNCHANGED <<productLb, ledLb, lostLb, storesLb>>

\* driver_remove_callb: unregistering the LED sets its brightness to 0 ...
RemoveLb ==
  /\ powerLb = "awake"
  /\ powerLb' = "removing"
  /\ ledLb' = [ledLb EXCEPT !.brightness = 0]
  /\ todoLb' = [todoLb EXCEPT !["driver"] = ite8291_write_state(ledLb')]
  /\ UNCHANGED <<productLb, chipLb, lostLb, staleLb, storesLb>>

\* ... and waits for the stores under way; then the light bar is turned off.
RemovedLb ==
  /\ powerLb = "removing" /\ \A s \in SendersLb : IdleLb(s)
  /\ powerLb' = "removed" /\ todoLb' = [todoLb EXCEPT !["driver"] = ite8291_write_off]
  /\ UNCHANGED <<productLb, ledLb, chipLb, lostLb, staleLb, storesLb>>

NextLb ==
  \/ \E s \in SendersLb : SendLb(s)
  \/ ReadStateLb \/ StoreLb \/ SuspendLb \/ ResumeLb \/ RemoveLb \/ RemovedLb

\* When nothing is being sent the light bar shows what its LED says, and is
\* dark asleep and removed.  A lost message costs what it carried, until the
\* next one of its kind: the light bar is dark after either of the messages
\* that turn it off, and one that may ignore them after black.  A store while
\* probe sends what it read before (staleLb) can be overwritten by that; so
\* much is lost, and no more, until the next store.
LightBarShowsLed ==
  (\A s \in SendersLb : IdleLb(s)) =>
    /\ powerLb = "awake" =>
         /\ "power" \notin lostLb => chipLb.powered
         /\ "mono" \notin lostLb => chipLb.on
         /\ "colour" \notin lostLb /\ ~staleLb => chipLb.colour = ledLb.colour
         /\ "mono" \notin lostLb /\ ~staleLb => chipLb.brightness = ledLb.brightness
    /\ powerLb \in {"asleep", "removed"} =>
         \/ ~chipLb.powered \/ ~chipLb.on \/ chipLb.brightness = 0
         \/ productLb = "0x6010" /\ "mono" \in lostLb
         \/ productLb # "0x6010" /\ {"off", "power"} \subseteq lostLb
=============================================================================
