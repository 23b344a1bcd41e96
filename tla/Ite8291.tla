------------------------------ MODULE Ite8291 ------------------------------
(***************************************************************************)
(* The ITE 8291 keyboard controllers, src/src/ite_8291/ite_8291.c.  The    *)
(* driver registers one LED per key (or per zone), keeps one brightness    *)
(* for all of them and a frame of scaled colours, and sends the whole      *)
(* frame on every change: the parameters, then for each row a message that *)
(* announces the row and the row itself.  Nothing locks that sequence.     *)
(* Programs may collect changes with buffer_input.                         *)
(*                                                                         *)
(* A message not yet sent is a record in the queue of its sender.  Rows    *)
(* and zone colours are read when they are sent, the brightness when the   *)
(* sequence starts, as in the code.                                        *)
(***************************************************************************)
EXTENDS Integers, Sequences

CONSTANTS NrRows, LedsPerRow,     \* 6 and 21 in the code
          Colours,                \* the RGB triples programs choose from
          Levels8291,             \* the brightness values they choose from
          Programs,               \* programs that use the LEDs
          MaxStores8291           \* bound: stores

ASSUME Ite8291Assumption ==
  /\ NrRows \in Nat \ {0} /\ LedsPerRow \in Nat \ {0}
  /\ Colours \subseteq (0 .. 255) \X (0 .. 255) \X (0 .. 255)
  /\ Levels8291 \subseteq 0 .. 50
  /\ "pm" \notin Programs /\ MaxStores8291 \in Nat

Channels == 0 .. NrRows * LedsPerRow - 1
Senders == Programs \cup {"pm"}

VARIABLES model8291,     \* [zones, quirk]: the controller and its colour correction
          data8291,      \* [intensity, brightness, row_data, buffer_input]
          chip8291,      \* [powered, on, brightness, announced, frame]
          todo8291,      \* the messages each sender has still to send
          power8291,     \* "awake", "asleep" or "removed"
          disturbed8291, \* "frame": the last sequence overlapped another or lost a
                         \* message; "power": the controller was not powered on; "no"
          stores8291

vars8291 == <<model8291, data8291, chip8291, todo8291, power8291, disturbed8291, stores8291>>

---------------------------------------------------------------------------
(* Colours.                                                                *)

Plain == <<255, 255, 255>>

\* The corrections by machine and controller, as factors over 255: of every
\* key, then of the keys of the bottom and of the top row.
Quirks ==
  { [all |-> a, bottom |-> Plain, top |-> Plain] : a \in
      { <<126, 255, 255>>, <<128, 255, 255>>, <<255, 220, 200>>, <<255, 180, 180>>,
        <<200, 255, 220>>, <<170, 255, 125>>, <<180, 255, 255>>, <<187, 255, 153>>,
        <<255, 126, 120>>, Plain } }
  \cup { [all |-> <<200, 255, 220>>, bottom |-> Plain, top |-> <<230, 255, 200>>],
         [all |-> <<155, 255, 140>>, bottom |-> <<279, 255, 282>>, top |-> <<148, 255, 137>>] }

\* One correction: the product is an int, the result is stored in a u8.
Times(factors, rgb) == [i \in 1 .. 3 |-> ((factors[i] * rgb[i]) \div 255) % 256]

\* Rows are counted from the bottom; a zone has no row.
color_scaling(rgb, row) ==
  LET all == Times(model8291.quirk.all, rgb) IN
  CASE row = 0 -> Times(model8291.quirk.bottom, all)
    [] row = NrRows - 1 -> Times(model8291.quirk.top, all)
    [] OTHER -> all

NoRow == -1
RowOf(channel) == IF model8291.zones THEN NoRow ELSE channel \div LedsPerRow
ScaledColour(channel) == color_scaling(data8291.intensity[channel], RowOf(channel))

---------------------------------------------------------------------------
(* Messages.                                                               *)

Message(op, arg) == [op |-> op, arg |-> arg]

\* ite8291_write_rows: each row is announced, and then sent.
RowMessages(level) ==
  <<Message("params", level)>> \o
  [k \in 1 .. 2 * NrRows |-> Message(IF k % 2 = 1 THEN "announce" ELSE "report", (k - 1) \div 2)]

\* ite8291_zones_write_state
ZoneMessages(level) ==
  [z \in 1 .. NrRows * LedsPerRow |-> Message("colour", z - 1)] \o <<Message("params", level)>>

WriteState(level) == IF model8291.zones THEN ZoneMessages(level) ELSE RowMessages(level)

\* n times the same messages.
Repeated(n, messages) == [k \in 1 .. n * Len(messages) |-> messages[1 + ((k - 1) % Len(messages))]]

WriteOn == IF model8291.zones THEN <<Message("power", TRUE)>> ELSE << >>
WriteOff == IF model8291.zones
            THEN <<Message("level", 0), Message("off", 0), Message("power", FALSE)>>
            ELSE <<Message("off", 0)>>

\* What a message does to the controller.  A row goes where the last
\* announcement says, whoever made it.
Received(m) ==
  CASE m.op = "power" -> [chip8291 EXCEPT !.powered = m.arg]
    [] m.op = "off" -> [chip8291 EXCEPT !.on = FALSE]
    [] m.op = "level" -> [chip8291 EXCEPT !.brightness = m.arg]
    [] m.op = "params" -> [chip8291 EXCEPT !.on = TRUE, !.brightness = m.arg]
    [] m.op = "announce" -> [chip8291 EXCEPT !.announced = m.arg]
    [] m.op = "colour" -> [chip8291 EXCEPT !.frame[m.arg] = ScaledColour(m.arg)]
    [] m.op = "report" -> [chip8291 EXCEPT !.frame = [c \in Channels |->
         IF RowOf(c) = chip8291.announced
           THEN data8291.row_data[(m.arg * LedsPerRow) + (c % LedsPerRow)] ELSE @[c]]]

Idle8291(s) == todo8291[s] = << >>
Quiet8291 == \A s \in Senders : Idle8291(s)

\* s starts to send messages.
Begin(s, messages) ==
  /\ todo8291' = [todo8291 EXCEPT ![s] = messages]
  /\ disturbed8291' = IF messages = << >> \/ (disturbed8291 = "power" /\ s # "pm") THEN disturbed8291
                      ELSE IF \E t \in Senders \ {s} : ~Idle8291(t) THEN "frame" ELSE "no"

\* s sends its next message.  A lost control message is not noticed, a lost
\* row ends the sequence.
SendMessage(s) ==
  /\ ~Idle8291(s)
  /\ \/ /\ chip8291' = Received(Head(todo8291[s]))
        /\ todo8291' = [todo8291 EXCEPT ![s] = Tail(@)]
        /\ UNCHANGED disturbed8291
     \/ /\ todo8291' = [todo8291 EXCEPT ![s] = IF Head(@).op = "report" THEN << >> ELSE Tail(@)]
        /\ disturbed8291' = IF "power" \in {disturbed8291, Head(todo8291[s]).op}
                            THEN "power" ELSE "frame"
        /\ UNCHANGED chip8291
  /\ UNCHANGED <<model8291, data8291, power8291, stores8291>>

---------------------------------------------------------------------------
(* The LEDs.                                                               *)

\* leds_set_brightness_mc and leds_zones_set_brightness_mc, called by the LED
\* core for one LED after a colour or a brightness was stored.
SetLed(p, channel, rgb, level) ==
  LET intensity == [data8291.intensity EXCEPT ![channel] = rgb] IN
  /\ data8291' = [data8291 EXCEPT
       !.intensity = intensity,
       !.brightness = level,
       !.row_data[channel] = IF model8291.zones THEN @ ELSE color_scaling(rgb, RowOf(channel))]
  /\ Begin(p, IF data8291.buffer_input THEN << >> ELSE WriteState(level))

\* The LEDs exist before probe has sent its messages; a trigger of the LED core
\* sets them while programs are frozen, so also while resume sends.
Usable(p) == /\ power8291 = "awake" /\ Idle8291(p)
             /\ stores8291 < MaxStores8291 /\ stores8291' = stores8291 + 1

StoreColour(p, channel, rgb) ==
  /\ Usable(p) /\ SetLed(p, channel, rgb, data8291.brightness)
  /\ UNCHANGED <<model8291, chip8291, power8291>>

StoreLevel(p, channel, level) ==
  /\ Usable(p) /\ SetLed(p, channel, data8291.intensity[channel], level)
  /\ UNCHANGED <<model8291, chip8291, power8291>>

\* Mutant: the collected changes wait for the next store.
CollectOnly(p, value) ==
  /\ Usable(p) /\ ~model8291.zones
  /\ data8291' = [data8291 EXCEPT !.buffer_input = value]
  /\ UNCHANGED <<model8291, chip8291, power8291, todo8291, disturbed8291>>

\* buffer_input_store; the attribute exists for keyboards with a LED per key.
BufferInput(p, value) ==
  /\ Usable(p) /\ ~model8291.zones
  /\ data8291' = [data8291 EXCEPT !.buffer_input = value]
  /\ Begin(p, IF value THEN << >> ELSE WriteState(data8291.brightness))
  /\ UNCHANGED <<model8291, chip8291, power8291>>

---------------------------------------------------------------------------
(* Probe, sleep and removal.  Programs are frozen while the machine sleeps.*)

White == <<255, 255, 255>>

\* driver_probe_callb: the frame is filled with scaled white, and sent.
Init8291 ==
  /\ model8291 \in [zones : BOOLEAN, quirk : Quirks]
  /\ power8291 = "awake"
  /\ data8291 = [intensity |-> [c \in Channels |-> White], brightness |-> 0,
                 row_data |-> [c \in Channels |-> color_scaling(White, RowOf(c))],
                 buffer_input |-> FALSE]
  /\ chip8291 = [powered |-> ~model8291.zones, on |-> FALSE, brightness |-> 0, announced |-> 0,
                 frame |-> [c \in Channels |-> <<0, 0, 0>>]]
  /\ todo8291 = [s \in Senders |-> IF s = "pm" THEN WriteOn \o WriteState(0) ELSE << >>]
  /\ disturbed8291 = "no"
  /\ stores8291 = 0

Suspend8291 ==
  /\ power8291 = "awake" /\ Quiet8291
  /\ power8291' = "asleep"
  /\ Begin("pm", WriteOff)
  /\ UNCHANGED <<model8291, data8291, chip8291, stores8291>>

\* resume and reset_resume; the controller may have forgotten its frame.
Resume8291 ==
  /\ power8291 = "asleep" /\ Quiet8291
  /\ power8291' = "awake"
  /\ chip8291' \in {chip8291, [chip8291 EXCEPT !.frame = [c \in Channels |-> <<0, 0, 0>>]]}
  /\ Begin("pm", WriteOn \o WriteState(data8291.brightness))
  /\ UNCHANGED <<model8291, data8291, stores8291>>

\* driver_remove_callb: off, and then every LED goes, which the LED core does
\* after setting its brightness to 0.
Remove8291 ==
  /\ power8291 = "awake" /\ Idle8291("pm")
  /\ power8291' = "removed"
  /\ data8291' = [data8291 EXCEPT !.brightness = 0]
  /\ Begin("pm", WriteOff \o IF data8291.buffer_input THEN << >>
                             ELSE Repeated(NrRows * LedsPerRow, WriteState(0)))
  /\ UNCHANGED <<model8291, chip8291, stores8291>>

Next8291 ==
  \/ \E p \in Programs, c \in Channels :
       \/ \E rgb \in Colours : StoreColour(p, c, rgb)
       \/ \E level \in Levels8291 : StoreLevel(p, c, level)
  \/ \E p \in Programs, value \in BOOLEAN : BufferInput(p, value)
  \/ \E s \in Senders : SendMessage(s)
  \/ Suspend8291 \/ Resume8291 \/ Remove8291

---------------------------------------------------------------------------
(* Properties.                                                             *)

Dark8291 == ~chip8291.powered \/ ~chip8291.on \/ chip8291.brightness = 0

\* The correction without the width of the variables.
Exact(factors, rgb) == [i \in 1 .. 3 |-> (factors[i] * rgb[i]) \div 255]
Wanted(channel) ==
  LET q == model8291.quirk
      all == Exact(q.all, data8291.intensity[channel]) IN
  CASE RowOf(channel) = 0 -> Exact(q.bottom, all)
    [] RowOf(channel) = NrRows - 1 -> Exact(q.top, all)
    [] OTHER -> all

\* When nothing is being sent and the last sequence was not disturbed, the
\* keyboard shows the corrected colour and the brightness of every LED (unless
\* changes are being collected); asleep and removed it is dark.
KeyboardShowsFrame ==
  Quiet8291 /\ disturbed8291 = "no" =>
    IF power8291 = "awake"
    THEN data8291.buffer_input \/
         /\ chip8291.powered /\ chip8291.on /\ chip8291.brightness = data8291.brightness
         /\ \A c \in Channels : chip8291.frame[c] = Wanted(c)
    ELSE Dark8291
=============================================================================
