----------------------------- MODULE TouchpadFilter -----------------------------
(***************************************************************************)
(* uniwill_i8042_filter of src/src/uniwill_keyboard.h sees every byte of   *)
(* the keyboard controller.  It finds the sequence the firmware sends for  *)
(* the touchpad key, hides two of its bytes, and queues key_event_work,    *)
(* which reports the key 50 ms later: what becomes of it is modelled in    *)
(* KeyboardLifecycle (TouchpadKey, WorkSleeps, WorkReports).               *)
(***************************************************************************)
EXTENDS Naturals, Sequences, SequencesExt, FiniteSetsExt

\* Super, Control, Zenkaku/Hankaku: down and up.  "key" is any other byte.
uniwill_touchp_toggle_seq == <<"e0", "5b", "1d", "76", "f6", "9d", "e0", "db">>
KeyboardBytes == Range(uniwill_touchp_toggle_seq) \cup {"key"}

VARIABLES
    seq_pos,   \* bytes of the sequence that were found
    suffix,    \* history: the longest end of all bytes that starts the sequence
    inside,    \* history: its first byte came when another sequence was open
    hidden,    \* history: the last byte, if it was hidden
    toggled    \* the last byte queued the work

filterVars == <<seq_pos, suffix, inside, hidden, toggled>>

Beginning(n) == SubSeq(uniwill_touchp_toggle_seq, 1, n)

Ends(bytes) == {n \in 0..Len(uniwill_touchp_toggle_seq) : IsSuffix(Beginning(n), bytes)}

\* Mutant: a byte that does not fit does not start the search again.
KeepsPosition == seq_pos

AfterMismatch == 0

Byte(b) ==
    LET found == b = uniwill_touchp_toggle_seq[seq_pos + 1]
        whole == found /\ seq_pos + 1 = Len(uniwill_touchp_toggle_seq)
        now   == Max(Ends(Append(Beginning(suffix), b)))
    IN  /\ seq_pos' = IF whole THEN 0 ELSE IF found THEN seq_pos + 1 ELSE AfterMismatch
        /\ hidden' = IF found /\ b \in {"76", "f6"} THEN b ELSE "none"
        /\ toggled' = whole
        /\ suffix' = now
        /\ inside' = (now > 0 /\ IF now = suffix + 1 THEN (IF suffix = 0 THEN seq_pos # 0 ELSE inside) ELSE seq_pos # 0)

\* Bytes of the mouse are no concern of the filter.
MouseByte == UNCHANGED filterVars

FilterInit == seq_pos = 0 /\ suffix = 0 /\ inside = FALSE /\ hidden = "none" /\ toggled = FALSE

FilterNext == (\E b \in KeyboardBytes : Byte(b)) \/ MouseByte

FilterSpec == FilterInit /\ [][FilterNext]_filterVars

\* The touchpad key is reported for the whole sequence and for nothing else,
\* and bytes are hidden from the input core only within the sequence; but one
\* that begins while the filter has found the start of another, as after a
\* press of Super, is missed.
TouchpadKeyFound ==
    /\ toggled => suffix = Len(uniwill_touchp_toggle_seq)
    /\ suffix = Len(uniwill_touchp_toggle_seq) /\ ~inside => toggled
    /\ hidden # "none" => suffix > 0 /\ uniwill_touchp_toggle_seq[suffix] = hidden
================================================================================
