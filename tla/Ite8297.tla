------------------------------ MODULE Ite8297 ------------------------------
(***************************************************************************)
(* The ITE 8297 RGB controller, src/src/ite_8297/ite_8297.c: three LEDs,   *)
(* one per channel, over one colour that is sent whole.  The LED core      *)
(* remembers the value stored last and calls the driver from a work of the *)
(* LED, so that the three run at the same time.                            *)
(***************************************************************************)
EXTENDS Integers, FiniteSets

CONSTANTS Levels8297,      \* values programs choose
          MaxStores8297    \* bound: stores

Leds8297 == {"red", "green", "blue"}
NothingToSend == [led \in {} |-> 0]

VARIABLES delayed_set,     \* the value each LED's work will set, or -1
          current_color,   \* the driver's colour
          message8297,     \* the colour each sender has put together and not yet sent
          chip8297,        \* the colour shown
          asleep8297,
          overlap8297,     \* the last colour was put together while another was not yet
                     \* sent, or was not sent
          stores8297

vars8297 == <<delayed_set, current_color, message8297, chip8297, asleep8297, overlap8297, stores8297>>

Black == [led \in Leds8297 |-> 0]
Sending8297 == {s \in Leds8297 \cup {"pm"} : message8297[s] # NothingToSend}

\* driver_probe_callb registers the LEDs and sends black.
Init8297 ==
  /\ delayed_set = [led \in Leds8297 |-> -1]
  /\ current_color = Black
  /\ message8297 = [s \in Leds8297 \cup {"pm"} |-> NothingToSend]
  /\ chip8297 = Black
  /\ asleep8297 = FALSE /\ overlap8297 = FALSE /\ stores8297 = 0

Store8297(led, value) ==
  /\ ~asleep8297 /\ stores8297 < MaxStores8297
  /\ delayed_set' = [delayed_set EXCEPT ![led] = value]
  /\ stores8297' = stores8297 + 1
  /\ UNCHANGED <<current_color, message8297, chip8297, asleep8297, overlap8297>>

\* Mutant: the colour is put together before the channel is set.
StaleColour(s, colour) ==
  /\ message8297' = [message8297 EXCEPT ![s] = current_color]
  /\ overlap8297' = (Sending8297 # {})

PutTogether(s, colour) ==
  /\ message8297' = [message8297 EXCEPT ![s] = colour]
  /\ overlap8297' = (Sending8297 # {})

\* lightbar_set_blocking.
SetChannel(led) ==
  /\ ~asleep8297 /\ delayed_set[led] # -1 /\ message8297[led] = NothingToSend
  /\ current_color' = [current_color EXCEPT ![led] = delayed_set[led]]
  /\ delayed_set' = [delayed_set EXCEPT ![led] = -1]
  /\ PutTogether(led, current_color')
  /\ UNCHANGED <<chip8297, asleep8297, stores8297>>

\* ite8297_write_color; a failure is not reported.
WriteColor(s) ==
  /\ s \in Sending8297
  /\ message8297' = [message8297 EXCEPT ![s] = NothingToSend]
  /\ \/ chip8297' = message8297[s] /\ UNCHANGED overlap8297
     \/ overlap8297' = TRUE /\ UNCHANGED chip8297
  /\ UNCHANGED <<delayed_set, current_color, asleep8297, stores8297>>

\* The driver does nothing; the controller may lose its colour.
Suspend8297 ==
  /\ ~asleep8297 /\ Sending8297 = {}
  /\ asleep8297' = TRUE
  /\ chip8297' \in {chip8297, Black}
  /\ UNCHANGED <<delayed_set, current_color, message8297, overlap8297, stores8297>>

\* resume and reset_resume: ite8297_write_state.
Resume8297 ==
  /\ asleep8297
  /\ asleep8297' = FALSE
  /\ PutTogether("pm", current_color)
  /\ UNCHANGED <<delayed_set, current_color, chip8297, stores8297>>

Next8297 ==
  \/ \E led \in Leds8297 : SetChannel(led) \/ \E v \in Levels8297 : Store8297(led, v)
  \/ \E s \in Leds8297 \cup {"pm"} : WriteColor(s)
  \/ Suspend8297 \/ Resume8297

\* When all stores were carried out, the controller shows the channels' values,
\* unless the last colour was put together while another was being sent or
\* could not be sent.
ColourShowsChannels ==
  ~asleep8297 /\ Sending8297 = {} /\ ~overlap8297 =>
    chip8297 = current_color
=============================================================================
