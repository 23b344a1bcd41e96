------------------------------ MODULE Ite829x ------------------------------
(***************************************************************************)
(* The ITE 829x keyboard controller, src/src/ite_829x/ite_829x.c: one LED  *)
(* per key with a common brightness, and colour modes that a key of the    *)
(* keyboard goes through.  The key arrives at a keyboard notifier, which   *)
(* remembers it and queues work; the work reads the key remembered last.   *)
(* One mutex keeps messages apart, another the work from being queued      *)
(* while it sends a mode.  The work runs on a queue that does not stop for *)
(* sleep.  Nobody looks at the result of a transfer: each may be lost.     *)
(***************************************************************************)
EXTENDS Integers, Sequences, SequencesExt

CONSTANTS NrKeys,             \* KEYBOARD_ROWS * KEYBOARD_COLUMNS in the code
          ModeColours,        \* mode_to_color: the sequence of colours
          LettersColours,     \* the colour of each key in the mode after those
          Levels829x,         \* brightness values programs choose
          Programs829x,       \* programs that use the LEDs
          MaxEvents829x       \* bound: stores and key presses

ASSUME Ite829xAssumption ==
  /\ NrKeys \in Nat /\ NrKeys > 1 /\ MaxEvents829x \in Nat
  /\ ModeColours \in Seq(STRING) /\ ModeColours # << >>
  /\ LettersColours \in Seq(STRING) /\ Len(LettersColours) = NrKeys
  /\ {"work", "pm"} \cap Programs829x = {}

Keys829x == 1 .. NrKeys
Colours829x == Range(ModeColours)
MODE_MAP_LENGTH == Len(ModeColours)
MODE_EXTRAS_LENGTH == 2
DEFAULT_MODE == MODE_MAP_LENGTH - 1

Senders829x == Programs829x \cup {"work", "pm"}

VARIABLES data829x,      \* [brightness, mode, intensity]
          chip829x,      \* [brightness, colours, animated]
          todo829x,      \* the messages each sender has still to send
          last_key,      \* the key the notifier saw last
          key_work,      \* [pending, running]
          power829x,     \* "awake", "asleep" or "removed"
          disturbed829x, \* what overlapped or was lost, and was not sent since: "level", "keys"
          presses,       \* presses of the key that changes the mode
          advances,      \* changes of mode by the key
          late,          \* a key came between the start of the work and its read
          events829x

vars829x == <<data829x, chip829x, todo829x, last_key, key_work, power829x,
              disturbed829x, presses, advances, late, events829x>>

Idle829x(s) == todo829x[s] = << >>
Quiet829x == \A s \in Senders829x : Idle829x(s)
\* key_actions holds input_lock while it sends.
InputLocked == key_work.running = "sending"

---------------------------------------------------------------------------
(* Messages.  A key's colour is the LED's when the message is sent; a mode *)
(* sets the LED and sends it.                                              *)

Level(b) == [op |-> "brightness", to |-> b]
KeyMessage(k) == [op |-> "key", key |-> k]
Paint(k, c) == [op |-> "paint", key |-> k, to |-> c]

\* keyb_set_all and the letters of send_mode, and the animation.
send_mode(mode) ==
  CASE mode < MODE_MAP_LENGTH -> [k \in Keys829x |-> Paint(k, ModeColours[mode + 1])]
    [] mode = MODE_MAP_LENGTH -> [k \in Keys829x |-> Paint(k, LettersColours[k])]
    [] mode = MODE_MAP_LENGTH + 1 -> <<[op |-> "animate"]>>

\* A message for a key, whoever sends it, carries the LED's colour and ends the animation.
Received829x(m, intensity) ==
  CASE m.op = "brightness" -> [chip829x EXCEPT !.brightness = m.to]
    [] m.op = "animate" -> [chip829x EXCEPT !.animated = TRUE]
    [] m.op \in {"key", "paint"} ->
         [chip829x EXCEPT !.colours[m.key] = intensity[m.key], !.animated = FALSE]

\* What the keyboard does not show if the message is lost.
Carries(m) == CASE m.op = "brightness" -> {"level"}
                [] m.op = "animate" -> {}
                [] m.op \in {"key", "paint"} -> {"keys"}

Begin829x(s, messages) ==
  /\ todo829x' = [todo829x EXCEPT ![s] = messages]
  /\ disturbed829x' =
       IF \E t \in Senders829x \ {s} : ~Idle829x(t) THEN {"level", "keys"}
       ELSE {d \in disturbed829x :
               IF d = "level" THEN messages[1].op # "brightness"
               ELSE \E k \in Keys829x : \A i \in DOMAIN messages :
                      messages[i].op \in {"key", "paint"} => messages[i].key # k}

\* keyb_send_data; its result is looked at by nobody.
SendMessage829x(s) ==
  /\ ~Idle829x(s)
  /\ LET m == Head(todo829x[s]) IN
     /\ data829x' = IF m.op = "paint" THEN [data829x EXCEPT !.intensity[m.key] = m.to]
                    ELSE data829x
     /\ \/ /\ power829x # "removed"
           /\ chip829x' = Received829x(m, data829x'.intensity)
           /\ UNCHANGED disturbed829x
        \/ disturbed829x' = disturbed829x \cup Carries(m) /\ UNCHANGED chip829x
  /\ todo829x' = [todo829x EXCEPT ![s] = Tail(@)]
  /\ key_work' = IF s = "work" /\ Len(todo829x[s]) = 1
                 THEN [key_work EXCEPT !.running = "no"] ELSE key_work
  /\ UNCHANGED <<last_key, power829x, presses, advances, late, events829x>>

---------------------------------------------------------------------------
(* Stores to the LEDs.                                                     *)

\* leds_set_brightness_mc, after a store of the colour or the brightness of a key.
SetLed829x(p, k, c, b) ==
  /\ power829x = "awake" /\ Idle829x("pm") /\ Idle829x(p) /\ events829x < MaxEvents829x
  /\ data829x' = [data829x EXCEPT !.brightness = b, !.intensity[k] = c]
  /\ Begin829x(p, <<Level(b), KeyMessage(k)>>)
  /\ events829x' = events829x + 1
  /\ UNCHANGED <<chip829x, last_key, key_work, power829x, presses, advances, late>>

StoreColour829x(p, k) == \E c \in Colours829x : SetLed829x(p, k, c, data829x.brightness)
StoreLevel829x(p, k) == \E b \in Levels829x : SetLed829x(p, k, data829x.intensity[k], b)

---------------------------------------------------------------------------
(* The mode key.                                                           *)

\* keyboard_notifier_callb past its first test; queueing work that is queued
\* already changes nothing.
Notified(key) ==
  /\ power829x = "awake" /\ events829x < MaxEvents829x
  /\ IF InputLocked THEN UNCHANGED <<last_key, key_work, late>>
     ELSE /\ last_key' = key
          /\ key_work' = [key_work EXCEPT !.pending = TRUE]
          /\ late' = (late \/ key_work.running = "started")
  /\ events829x' = events829x + 1
  /\ UNCHANGED <<data829x, chip829x, todo829x, power829x, disturbed829x, advances>>

Press(key) == presses' = presses + IF key = "mode" THEN 1 ELSE 0

\* Mutant: released keys count as well.
PressedOrReleased(key) == Notified(key) /\ (Press(key) \/ UNCHANGED presses)

\* Released keys are not looked at.
KeyPressed(key) == Notified(key) /\ Press(key)

\* The work is no longer queued once it runs.
WorkStarts ==
  /\ key_work = [pending |-> TRUE, running |-> "no"]
  /\ key_work' = [pending |-> FALSE, running |-> "started"]
  /\ UNCHANGED <<data829x, chip829x, todo829x, last_key, power829x, disturbed829x,
                 presses, advances, late, events829x>>

NextMode(mode) == IF mode + 1 >= MODE_MAP_LENGTH + MODE_EXTRAS_LENGTH THEN 0 ELSE mode + 1

\* key_actions: the next mode; without a device send_mode returns at once.
KeyActions ==
  /\ key_work.running = "started"
  /\ IF last_key = "mode"
     THEN LET mode == NextMode(data829x.mode)
              gone == power829x = "removed" IN
          /\ data829x' = [data829x EXCEPT !.mode = mode]
          /\ advances' = advances + 1
          /\ key_work' = [key_work EXCEPT !.running = IF gone THEN "no" ELSE "sending"]
          /\ IF gone THEN UNCHANGED <<todo829x, disturbed829x>>
             ELSE Begin829x("work", send_mode(mode))
     ELSE /\ key_work' = [key_work EXCEPT !.running = "no"]
          /\ UNCHANGED <<data829x, advances, todo829x, disturbed829x>>
  /\ UNCHANGED <<chip829x, last_key, power829x, presses, late, events829x>>

---------------------------------------------------------------------------
(* Probe, sleep and removal.                                               *)

\* probe_callb: brightness and white keys are sent before the LEDs exist, and each may be lost.
Init829x ==
  /\ data829x = [brightness |-> 0, mode |-> DEFAULT_MODE,
                 intensity |-> [k \in Keys829x |-> ModeColours[MODE_MAP_LENGTH]]]
  /\ disturbed829x \in SUBSET {"level", "keys"}
  /\ \E b \in Levels829x :
       chip829x = [brightness |-> IF "level" \in disturbed829x THEN b ELSE 0, animated |-> FALSE,
                   colours |-> [k \in Keys829x |-> IF "keys" \in disturbed829x THEN "unset"
                                                   ELSE ModeColours[MODE_MAP_LENGTH]]]
  /\ todo829x = [s \in Senders829x |-> << >>]
  /\ last_key = "none" /\ key_work = [pending |-> FALSE, running |-> "no"]
  /\ power829x = "awake"
  /\ presses = 0 /\ advances = 0 /\ late = FALSE /\ events829x = 0

\* driver_suspend_callb does nothing.  Programs are frozen, the work is not.
ProgramsQuiet == \A s \in Programs829x \cup {"pm"} : Idle829x(s)

Suspend829x ==
  /\ power829x = "awake" /\ ProgramsQuiet
  /\ power829x' = "asleep"
  /\ UNCHANGED <<data829x, chip829x, todo829x, last_key, key_work, disturbed829x,
                 presses, advances, late, events829x>>

\* driver_resume_callb: brightness and colours, and then the mode again.
Resume829x ==
  /\ power829x = "asleep"
  /\ power829x' = "awake"
  /\ chip829x' \in {chip829x, [brightness |-> 0, animated |-> FALSE,
                               colours |-> [k \in Keys829x |-> "unset"]]}
  /\ Begin829x("pm", <<Level(data829x.brightness)>> \o [k \in Keys829x |-> KeyMessage(k)]
                     \o send_mode(data829x.mode))
  /\ UNCHANGED <<data829x, last_key, key_work, presses, advances, late, events829x>>

\* remove_callb; queued work is not cancelled, and finds no device.
Remove829x ==
  /\ power829x = "awake" /\ ProgramsQuiet
  /\ power829x' = "removed"
  /\ data829x' = [data829x EXCEPT !.brightness = 0]
  /\ chip829x' \in {chip829x, [brightness |-> 0, animated |-> FALSE, colours |-> data829x.intensity]}
  /\ UNCHANGED <<todo829x, last_key, key_work, disturbed829x, presses, advances, late, events829x>>

Next829x ==
  \/ \E p \in Programs829x, k \in Keys829x : StoreColour829x(p, k) \/ StoreLevel829x(p, k)
  \/ \E key \in {"mode", "other"} : KeyPressed(key)
  \/ WorkStarts \/ KeyActions
  \/ \E s \in Senders829x : SendMessage829x(s)
  \/ Suspend829x \/ Resume829x \/ Remove829x

---------------------------------------------------------------------------
(* Properties.                                                             *)

\* When nothing is being sent the keyboard shows the brightness and, unless
\* it plays the animation of its mode, the colours of its LEDs.  Sequences
\* that overlapped cost both and a lost message costs what it carried, until
\* that is sent again as a whole.
KeysShowLeds ==
  Quiet829x /\ power829x = "awake" =>
    /\ "level" \notin disturbed829x => chip829x.brightness = data829x.brightness
    /\ "keys" \notin disturbed829x =>
         /\ chip829x.animated => data829x.mode = MODE_MAP_LENGTH + 1
         /\ chip829x.animated \/ chip829x.colours = data829x.intensity

\* A press of the mode key changes the mode at most once, however the
\* notifier and its work interleave, unless a key comes while the work has
\* started and has not yet read which key it is for.
OneAdvancePerPress == ~late => advances <= presses
=============================================================================
