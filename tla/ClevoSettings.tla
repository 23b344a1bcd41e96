----------------------------- MODULE ClevoSettings -----------------------------
(***************************************************************************)
(* Battery charging and fn lock of src/src/clevo_keyboard.h.               *)
(*                                                                         *)
(* The charger has two thresholds and a status, set all together by one    *)
(* firmware method ("cc4") or, by an older one, thresholds first and then  *)
(* the status, which also saves.  A store of any of them reads all, and    *)
(* writes all; the fn lock is set together with the keyboard's status in   *)
(* the same way.  No lock is held in between.                              *)
(***************************************************************************)
EXTENDS Naturals, Sequences, Functions

CONSTANTS
    Programs,           \* threads that store or find a battery or a key event
    Asked,              \* thresholds that are asked for
    MaxCalls, MaxLost   \* bounds: stores and events, failed method calls

ASSUME ClevoSettingsAssumption == Asked \subseteq 1..100 /\ {MaxCalls, MaxLost} \subseteq Nat

clevo_legacy_flexicharger_start_values == <<40, 50, 60, 70, 80, 95>>
clevo_legacy_flexicharger_end_values   == <<60, 70, 80, 90, 100>>

VARIABLES
    method,      \* the charger method of the firmware, "cc4" or "legacy"
    charger,     \* firmware: [start, end, status] in use
    saved,       \* firmware: those it starts with
    keyboard,    \* firmware: [lock, status], what the fn lock method has
    step,        \* where each program is
    job,         \* what it stores: [field, value]
    path,        \* the method it takes the firmware to have
    previous,    \* what it has read
    wanted,      \* history: the value each field was given last, if known
    mixed,       \* history: calls that overlapped or failed
    calls, lost

chargerVars == <<method, charger, saved, keyboard, step, job, path, previous, wanted, mixed, calls, lost>>
firmware    == <<method, charger, saved, keyboard>>

Charging  == {"start", "end", "status"}
Object(f) == IF f \in Charging \cup {"battery"} THEN "charger" ELSE "keyboard"
Busy(p)   == step[p] # "idle"

Goes(p, place) == step' = [step EXCEPT ![p] = place]

\* A method call fails: the store does, and what is in force is not known.
MethodFails(p) ==
    /\ lost < MaxLost /\ lost' = lost + 1 /\ mixed' = mixed \cup {Object(job[p].field)}
    /\ Goes(p, "idle") /\ UNCHANGED <<firmware, job, path, previous, wanted, calls>>

Moves(p, place) == Goes(p, place) /\ UNCHANGED <<job, mixed, calls, lost>>

-----------------------------------------------------------------------------
Distance(a, b) == IF a < b THEN b - a ELSE a - b

\* Mutant: the difference is that of bytes, without abs.
ByteDistance(a, b) == (256 + a - b) % 256

Nearness(a, b) == Distance(a, b)

\* The nearest of the first i values, the first of them if there are several.
NearestSoFar(value, haystack) ==
    LET closest[i \in 1..Len(haystack)] ==
            IF i = 1 THEN haystack[1]
            ELSE IF Nearness(value, haystack[i]) < Nearness(value, closest[i - 1]) THEN haystack[i]
            ELSE closest[i - 1]
    IN  closest

array_find_closest_u8(value, haystack) == NearestSoFar(value, haystack)[Len(haystack)]

Available(f) == IF f = "start" THEN clevo_legacy_flexicharger_start_values ELSE clevo_legacy_flexicharger_end_values

ValueToWrite(f, v) == IF f \in {"start", "end"} THEN array_find_closest_u8(v, Available(f)) ELSE v

\* charge_control_start_threshold_store, charge_control_end_threshold_store,
\* charge_type_store, clevo_fn_lock_store, CLEVO_EVENT_FN_LOCK_TOGGLE
Calls(p, f, v, first) ==
    /\ ~Busy(p) /\ calls < MaxCalls /\ calls' = calls + 1
    /\ job' = [job EXCEPT ![p] = [field |-> f, value |-> v]]
    /\ Goes(p, first)
    /\ mixed' = mixed \cup {Object(job[o].field) : o \in {q \in Programs : Busy(q) /\ Object(job[q].field) = Object(f)}}
    /\ UNCHANGED <<firmware, path, previous, wanted, lost>>

Asks(p) ==
    \/ \E f \in {"start", "end"}, v \in Asked : Calls(p, f, v, "detect")
    \/ \E v \in {0, 1} : Calls(p, "status", v, "detect") \/ Calls(p, "lock", v, "fn_get")
    \/ Calls(p, "lock", "toggle", "fn_toggle")
    \/ Calls(p, "battery", 0, "has_legacy")

\* clevo_has_cc4_flexicharger: a call that fails makes it the other method.
Detect(p) ==
    /\ step[p] = "detect" /\ UNCHANGED <<firmware, previous, wanted>>
    /\ \/ path' = [path EXCEPT ![p] = method] /\ Moves(p, "read")
       \/ /\ lost < MaxLost /\ lost' = lost + 1 /\ mixed' = mixed \cup {"charger"}
          /\ path' = [path EXCEPT ![p] = "legacy"] /\ Goes(p, "read") /\ UNCHANGED <<job, calls>>

\* Mutant: the status, which saves, goes first.
StatusFirst == <<"status", "thresholds">>

LegacySteps == <<"thresholds", "status">>

ReadPrevious(p) ==
    /\ step[p] = "read"
    /\ \/ /\ previous' = [previous EXCEPT ![p] = charger]
          /\ Moves(p, IF path[p] = "cc4" THEN "cc4_write" ELSE LegacySteps[1])
          /\ UNCHANGED <<firmware, path, wanted>>
       \/ MethodFails(p)

\* clevo_cc4_flexicharger_write, clevo_legacy_flexicharger_write: what is not
\* stored is written back.  A firmware ignores the other method.
Written(p)    == [previous[p] EXCEPT ![job[p].field] = ValueToWrite(job[p].field, job[p].value)]
Understood(p) == path[p] = method

Returns(p) ==
    /\ Goes(p, "idle") /\ wanted' = [wanted EXCEPT ![job[p].field] = job[p].value]
    /\ UNCHANGED <<job, mixed, calls, lost>>

WriteCc4(p) ==
    /\ step[p] = "cc4_write"
    /\ \/ charger' = Written(p) /\ saved' = Written(p) /\ Returns(p) /\ UNCHANGED <<method, keyboard, path, previous>>
       \/ MethodFails(p)

LegacyGoesOn(p, i) == IF i = 2 THEN Returns(p) ELSE Moves(p, LegacySteps[2]) /\ UNCHANGED wanted

WriteLegacy(p, i) ==
    /\ step[p] = LegacySteps[i]
    /\ \/ /\ IF ~Understood(p) THEN UNCHANGED <<charger, saved>>
             ELSE IF step[p] = "thresholds"
             THEN charger' = [charger EXCEPT !.start = Written(p).start, !.end = Written(p).end] /\ UNCHANGED saved
             ELSE charger' = [charger EXCEPT !.status = Written(p).status] /\ saved' = charger'
          /\ LegacyGoesOn(p, i) /\ UNCHANGED <<method, keyboard, path, previous>>
       \/ MethodFails(p)

\* clevo_battery_add: clevo_has_legacy_flexicharger reads the thresholds and
\* writes them back, to see whether the method answers with its number.
ReadBattery(p) ==
    /\ step[p] = "has_legacy"
    /\ \/ previous' = [previous EXCEPT ![p] = charger] /\ Moves(p, "write_back") /\ UNCHANGED <<firmware, path, wanted>>
       \/ MethodFails(p)

WriteBack(p) ==
    /\ step[p] = "write_back"
    /\ \/ /\ charger' = IF method = "legacy" THEN [charger EXCEPT !.start = previous[p].start, !.end = previous[p].end]
                          ELSE charger
          /\ Moves(p, "idle") /\ UNCHANGED <<method, saved, keyboard, path, previous, wanted>>
       \/ MethodFails(p)

-----------------------------------------------------------------------------
Toggled(lock) == 1 - lock

\* clevo_keyboard_event_callb, clevo_acpi_fn_get, clevo_acpi_fn_lock_set
FnToggle(p) ==
    /\ step[p] = "fn_toggle"
    /\ \/ /\ job' = [job EXCEPT ![p].value = Toggled(keyboard.lock)] /\ Goes(p, "fn_get")
          /\ UNCHANGED <<firmware, path, previous, wanted, mixed, calls, lost>>
       \/ MethodFails(p)

FnGet(p) ==
    /\ step[p] = "fn_get"
    /\ \/ previous' = [previous EXCEPT ![p] = keyboard] /\ Moves(p, "fn_set") /\ UNCHANGED <<firmware, path, wanted>>
       \/ MethodFails(p)

\* Mutant: the status of the keyboard is not written back.
NoStatus(p) == [lock |-> job[p].value, status |-> 0]

FnArguments(p) == [lock |-> job[p].value, status |-> previous[p].status]

FnSet(p) ==
    /\ step[p] = "fn_set"
    /\ \/ keyboard' = FnArguments(p) /\ Returns(p) /\ UNCHANGED <<method, charger, saved, path, previous>>
       \/ MethodFails(p)

\* The firmware changes the keyboard's status.
StatusChanges ==
    /\ calls < MaxCalls /\ calls' = calls + 1
    /\ keyboard' = [keyboard EXCEPT !.status = 1 - @] /\ wanted' = [wanted EXCEPT !.kbstatus = 1 - @]
    /\ mixed' = mixed \cup {"keyboard" : p \in {q \in Programs : step[q] = "fn_set"}}
    /\ UNCHANGED <<method, charger, saved, step, job, path, previous, lost>>

ClevoSettingsInit ==
    /\ method \in {"cc4", "legacy"}
    /\ charger = [start |-> 40, end |-> 100, status |-> 0] /\ saved = charger
    /\ keyboard = [lock |-> 0, status |-> 0]
    /\ step = [p \in Programs |-> "idle"] /\ job = [p \in Programs |-> [field |-> "none", value |-> 0]]
    /\ path = [p \in Programs |-> method] /\ previous = [p \in Programs |-> <<>>]
    /\ wanted = [start |-> 40, end |-> 100, status |-> 0, lock |-> 0, kbstatus |-> 0, battery |-> 0]
    /\ mixed = {} /\ calls = 0 /\ lost = 0

ProgramStep(p) ==
    \/ Asks(p) \/ Detect(p) \/ ReadPrevious(p) \/ WriteCc4(p) \/ WriteLegacy(p, 1) \/ WriteLegacy(p, 2)
    \/ ReadBattery(p) \/ WriteBack(p) \/ FnToggle(p) \/ FnGet(p) \/ FnSet(p)

ClevoSettingsNext == (\E p \in Programs : ProgramStep(p)) \/ StatusChanges

ClevoSettingsSpec == ClevoSettingsInit /\ [][ClevoSettingsNext]_chargerVars

-----------------------------------------------------------------------------
Settled(object) == object \notin mixed /\ \A p \in Programs : Busy(p) => Object(job[p].field) # object

\* "status go last as it also triggers save": what was stored is in use, and is
\* what a restart will find, whichever of the three is stored and however often
\* the battery is looked for; and each threshold is, of those offered, one that
\* is nearest to what was asked for; unless stores overlapped or a call failed.
ChargingAsAsked ==
    Settled("charger") =>
        /\ saved = charger /\ charger.status = wanted.status
        /\ \A f \in {"start", "end"} :
              /\ charger[f] \in Range(Available(f))
              /\ \A x \in Range(Available(f)) : Distance(wanted[f], charger[f]) <= Distance(wanted[f], x)

\* The fn lock is as it was set or toggled last, and setting it has not changed
\* the rest of the keyboard's status.
FnLockAlone ==
    Settled("keyboard") => keyboard.status = wanted.kbstatus /\ keyboard.lock = wanted.lock
================================================================================
