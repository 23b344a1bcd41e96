--------------------------- MODULE UniwillFanTable ---------------------------
(***************************************************************************)
(* Fan control on Uniwill devices WITH the universal EC fan tables         *)
(* (uw_set_fan, uw_init_fan and uw_set_fan_auto of                         *)
(* src/src/uniwill_keyboard.h, uniwill_has_universal_ec_fan_control).      *)
(*                                                                         *)
(* The driver programs two fan tables in the EC, one per fan: row 0 covers *)
(* every reachable temperature and its speed is the speed the user sets,   *)
(* the other rows hold full speed at temperatures that are never reached.  *)
(* Two switches make the EC use them: bit 7 of 0x07c5 (a table of its own  *)
(* per fan) and bit 2 of 0x07c6 (the tables at 0x0f00).  As long as the    *)
(* full fan mode bit of 0x0751 is set the driver leaves all that alone.    *)
(*                                                                         *)
(* The ioctls of tuxedo_io run concurrently and take no lock; one register *)
(* access is one step.  Table rows are programmed with verified writes,    *)
(* tried three times; the switches are read once, unverified.              *)
(***************************************************************************)
EXTENDS FanClamp

CONSTANTS
    Callers,     \* threads inside an ioctl of /dev/tuxedo_io
    Requests,    \* arguments of W_UW_FANSPEED, 32 bit
    Rows,        \* index of the last table row (15 in the code)
    Tries,       \* attempts of uniwill_write_ec_ram_with_retry (3 in the code)
    MaxCalls,    \* bound: ioctls made
    MaxFaults    \* bound: EC accesses that fail

ASSUME TableAssumption == /\ Requests \subseteq Nat
                          /\ Rows \in Nat
                          /\ Tries \in Nat \ {0}
                          /\ MaxCalls \in Nat
                          /\ MaxFaults \in Nat

Fans  == {0, 1}
Bytes == 0..255

VARIABLES
    full,         \* EC: full fan mode, bit 6 of 0x0751
    table0,       \* EC: bit 7 of 0x07c5, use different tables for both fans
    table1,       \* EC: bit 2 of 0x07c6, enable the 0x0fxx fan tables
    rows,         \* EC: the rows that hold what uw_init_fan programs
    rowSpeed,     \* EC: the speed of row 0, 0x0f20 and 0x0f50
    ecFan,        \* EC: 0x1804 and 0x1809
    cur,          \* direct_fan_control_current_value_fan0/1
    initialized,  \* fans_initialized
    pc,           \* where each caller is
    arg,          \* its fan_index, fan_speed, the row it programs, the bit it read
    used,         \* history: callers that made a call
    asked,        \* history: the table speed last asked for, 0 after auto
    calls, readFaults, writeFaults    \* counters for the bounds

ecVars     == <<full, table0, table1, rows, rowSpeed, ecFan>>
driverVars == <<cur, initialized>>
histVars   == <<used, asked, calls>>
faultVars  == <<readFaults, writeFaults>>
vars == <<ecVars, driverVars, pc, arg, histVars, faultVars>>

NoArg == [fan |-> 0, speed |-> 0, row |-> 0, bit |-> FALSE]
Idle(c) == pc[c] = "idle"
Goto(c, l) == pc' = [pc EXCEPT ![c] = l]
Return(c) == Goto(c, "idle") /\ arg' = [arg EXCEPT ![c] = NoArg]

-----------------------------------------------------------------------------
(***************************************************************************)
(* EC accesses.  A failed read gives 0xfe, in which every bit tested here  *)
(* is set.  A write with retry is over after the first verified attempt; a *)
(* failed attempt is one whose write, or whose read-back, failed.          *)
(***************************************************************************)

ReadBit(reg, bit) ==
    \/ bit = reg /\ UNCHANGED faultVars
    \/ /\ readFaults + writeFaults < MaxFaults
       /\ bit = TRUE
       /\ readFaults' = readFaults + 1 /\ UNCHANGED writeFaults

\* took: whether the EC has the new value in the end
WriteOnce(took) ==
    \/ took = TRUE /\ UNCHANGED faultVars
    \/ /\ readFaults + writeFaults < MaxFaults
       /\ took = FALSE
       /\ writeFaults' = writeFaults + 1 /\ UNCHANGED readFaults

WriteWithRetry(took) ==
    \E failed \in 0..Tries :
        /\ readFaults + writeFaults + failed <= MaxFaults
        /\ failed < Tries => took
        /\ writeFaults' = writeFaults + failed
        /\ UNCHANGED readFaults

-----------------------------------------------------------------------------
(* uw_set_fan *)

\* Mutant: the full fan mode bit is not looked at.
FullNotChecked(bit) == TRUE

TableModeAllowed(bit) == ~bit

SetRead(c) ==
    /\ pc[c] = "set_read"
    /\ \E bit \in BOOLEAN :
          /\ ReadBit(full, bit)
          /\ IF TableModeAllowed(bit) THEN Goto(c, "init_test") /\ UNCHANGED arg ELSE Return(c)
    /\ UNCHANGED <<ecVars, driverVars, histVars>>

InitTest(c) ==
    /\ pc[c] = "init_test"
    /\ Goto(c, IF initialized THEN "init_done" ELSE "full_read")
    /\ UNCHANGED <<ecVars, driverVars, arg, histVars, faultVars>>

\* set_full_fan_mode(false)
FullRead(c) ==
    /\ pc[c] = "full_read"
    /\ \E bit \in BOOLEAN : ReadBit(full, bit) /\ arg' = [arg EXCEPT ![c].bit = bit]
    /\ Goto(c, "full_write")
    /\ UNCHANGED <<ecVars, driverVars, histVars>>

FullWrite(c) ==
    /\ pc[c] = "full_write"
    /\ IF arg[c].bit
       THEN \E took \in BOOLEAN : WriteOnce(took) /\ full' = (full /\ ~took)
       ELSE UNCHANGED <<full, faultVars>>
    /\ Goto(c, "table0_read")
    /\ UNCHANGED <<table0, table1, rows, rowSpeed, ecFan, driverVars, arg, histVars>>

Table0Read(c) ==
    /\ pc[c] = "table0_read"
    /\ \E bit \in BOOLEAN : ReadBit(table0, bit) /\ arg' = [arg EXCEPT ![c].bit = bit, ![c].row = 0]
    /\ Goto(c, "table0_write")
    /\ UNCHANGED <<ecVars, driverVars, histVars>>

Table0Write(c) ==
    /\ pc[c] = "table0_write"
    /\ IF arg[c].bit
       THEN UNCHANGED <<table0, faultVars>>
       ELSE \E took \in BOOLEAN : WriteWithRetry(took) /\ table0' = (table0 \/ took)
    /\ Goto(c, "row_write")
    /\ UNCHANGED <<full, table1, rows, rowSpeed, ecFan, driverVars, arg, histVars>>

\* Mutant: the loop stops one row early.
OneRowShort(row) == row + 1 < Rows

MoreRows(row) == row < Rows

\* The six registers of one row, three per fan.  Row 0 gets speed 1 on both
\* fans.
RowWrite(c) ==
    /\ pc[c] = "row_write"
    /\ \E took \in BOOLEAN :
          /\ WriteWithRetry(took)
          /\ IF took
             THEN /\ rows' = rows \cup {arg[c].row}
                  /\ rowSpeed' = IF arg[c].row = 0 THEN [f \in Fans |-> 1] ELSE rowSpeed
             ELSE UNCHANGED <<rows, rowSpeed>>
    /\ IF MoreRows(arg[c].row)
       THEN arg' = [arg EXCEPT ![c].row = @ + 1] /\ UNCHANGED pc
       ELSE Goto(c, "table1_read") /\ UNCHANGED arg
    /\ UNCHANGED <<full, table0, table1, ecFan, driverVars, histVars>>

Table1Read(c) ==
    /\ pc[c] = "table1_read"
    /\ \E bit \in BOOLEAN : ReadBit(table1, bit) /\ arg' = [arg EXCEPT ![c].bit = bit]
    /\ Goto(c, "table1_write")
    /\ UNCHANGED <<ecVars, driverVars, histVars>>

\* Mutant: the switch is written once, without a retry.
WriteTable1Once(took) == WriteOnce(took)

WriteTable1(took) == WriteWithRetry(took)

Table1Write(c) ==
    /\ pc[c] = "table1_write"
    /\ IF arg[c].bit
       THEN UNCHANGED <<table1, faultVars>>
       ELSE \E took \in BOOLEAN : WriteTable1(took) /\ table1' = (table1 \/ took)
    /\ Goto(c, "init_done")
    /\ UNCHANGED <<full, table0, rows, rowSpeed, ecFan, driverVars, arg, histVars>>

\* Mutant: every u8 is accepted.
NeverTooFast(speed) == FALSE

TooFast(speed) == speed > NB02_FAN_SPEED_MAX

\* fans_initialized = true, whatever became of the writes; then the range
\* check, which refuses the speed after the tables have been switched on.
InitDone(c) ==
    /\ pc[c] = "init_done"
    /\ initialized' = TRUE
    /\ IF TooFast(arg[c].speed) THEN Return(c)
       ELSE /\ arg' = [arg EXCEPT ![c].speed = UwTableSpeed(@)]
            /\ Goto(c, "row0_write")
    /\ UNCHANGED <<ecVars, cur, histVars, faultVars>>

\* Mutant: the table of the other fan is written.
OtherFan(c) == 1 - arg[c].fan

TableOf(c) == arg[c].fan

Row0Write(c) ==
    /\ pc[c] = "row0_write"
    /\ \E took \in BOOLEAN :
          /\ WriteOnce(took)
          /\ rowSpeed' = IF took THEN [rowSpeed EXCEPT ![TableOf(c)] = arg[c].speed] ELSE rowSpeed
    /\ Goto(c, "direct_cur")
    /\ UNCHANGED <<full, table0, table1, rows, ecFan, driverVars, arg, histVars>>

\* direct_fan_control(fan_index, fan_speed, false)
DirectCur(c) ==
    /\ pc[c] = "direct_cur"
    /\ cur' = [cur EXCEPT ![arg[c].fan] = arg[c].speed]
    /\ Goto(c, "direct_write")
    /\ UNCHANGED <<ecVars, initialized, arg, histVars, faultVars>>

DirectWrite(c) ==
    /\ pc[c] = "direct_write"
    /\ \E took \in BOOLEAN :
          /\ WriteOnce(took)
          /\ ecFan' = IF took THEN [ecFan EXCEPT ![arg[c].fan] = arg[c].speed] ELSE ecFan
    /\ Return(c)
    /\ UNCHANGED <<full, table0, table1, rows, rowSpeed, driverVars, histVars>>

-----------------------------------------------------------------------------
(* uw_set_fan_auto switches the tables off in the reverse order. *)

AutoTable1Read(c) ==
    /\ pc[c] = "auto_table1_read"
    /\ \E bit \in BOOLEAN : ReadBit(table1, bit) /\ arg' = [arg EXCEPT ![c].bit = bit]
    /\ Goto(c, "auto_table1_write")
    /\ UNCHANGED <<ecVars, driverVars, histVars>>

AutoTable1Write(c) ==
    /\ pc[c] = "auto_table1_write"
    /\ IF arg[c].bit
       THEN \E took \in BOOLEAN : WriteWithRetry(took) /\ table1' = (table1 /\ ~took)
       ELSE UNCHANGED <<table1, faultVars>>
    /\ Goto(c, "auto_table0_read")
    /\ UNCHANGED <<full, table0, rows, rowSpeed, ecFan, driverVars, arg, histVars>>

AutoTable0Read(c) ==
    /\ pc[c] = "auto_table0_read"
    /\ \E bit \in BOOLEAN : ReadBit(table0, bit) /\ arg' = [arg EXCEPT ![c].bit = bit]
    /\ Goto(c, "auto_table0_write")
    /\ UNCHANGED <<ecVars, driverVars, histVars>>

AutoTable0Write(c) ==
    /\ pc[c] = "auto_table0_write"
    /\ IF arg[c].bit
       THEN \E took \in BOOLEAN : WriteWithRetry(took) /\ table0' = (table0 /\ ~took)
       ELSE UNCHANGED <<table0, faultVars>>
    /\ Goto(c, "auto_done")
    /\ UNCHANGED <<full, table1, rows, rowSpeed, ecFan, driverVars, arg, histVars>>

AutoDone(c) ==
    /\ pc[c] = "auto_done"
    /\ initialized' = FALSE
    /\ cur' = [f \in Fans |-> 0]
    /\ Return(c)
    /\ UNCHANGED <<ecVars, histVars, faultVars>>

-----------------------------------------------------------------------------
(* The ioctls *)

Call(c) ==
    /\ Idle(c) /\ calls < MaxCalls
    /\ calls' = calls + 1 /\ used' = used \cup {c}
    /\ UNCHANGED <<driverVars, table0, table1, rows, rowSpeed, ecFan>>

\* W_UW_FANSPEED, W_UW_FANSPEED2: the u32 argument becomes a u8 on the way.
CallSet(c, f, request) ==
    /\ Call(c)
    /\ arg' = [arg EXCEPT ![c].fan = f, ![c].speed = request % 256]
    /\ Goto(c, "set_read")
    /\ asked' = IF request % 256 > NB02_FAN_SPEED_MAX \/ full THEN asked
                ELSE [asked EXCEPT ![f] = UwTableSpeed(request % 256)]
    /\ UNCHANGED <<full, faultVars>>

\* W_UW_FANAUTO
CallAuto(c) ==
    /\ Call(c)
    /\ Goto(c, "auto_table1_read") /\ UNCHANGED arg
    /\ asked' = [f \in Fans |-> 0]
    /\ UNCHANGED <<full, faultVars>>

\* W_UW_MODE, here for the full fan mode bit of the byte it writes
CallMode(c, bit) ==
    /\ Call(c)
    /\ \E took \in BOOLEAN : WriteOnce(took) /\ full' = IF took THEN bit ELSE full
    /\ UNCHANGED <<pc, arg, asked>>

\* The EC keeps the tables over a reload of the drivers, which forget
\* fans_initialized: a new driver finds them off, or on and complete.
Init ==
    /\ full = FALSE
    /\ \/ table0 = FALSE /\ table1 = FALSE /\ rows = {}
       \/ table0 = TRUE /\ table1 = TRUE /\ rows = 0..Rows
    /\ rowSpeed = [f \in Fans |-> 1] /\ ecFan = [f \in Fans |-> 0]
    /\ cur = [f \in Fans |-> 0] /\ initialized = FALSE
    /\ pc = [c \in Callers |-> "idle"] /\ arg = [c \in Callers |-> NoArg]
    /\ used = {} /\ asked = [f \in Fans |-> 0]
    /\ calls = 0 /\ readFaults = 0 /\ writeFaults = 0

CallStep(c) ==
    \/ \E f \in Fans, request \in Requests : CallSet(c, f, request)
    \/ CallAuto(c)
    \/ \E bit \in BOOLEAN : CallMode(c, bit)

ThreadStep(c) ==
    \/ SetRead(c) \/ InitTest(c) \/ FullRead(c) \/ FullWrite(c)
    \/ Table0Read(c) \/ Table0Write(c) \/ RowWrite(c) \/ Table1Read(c) \/ Table1Write(c)
    \/ InitDone(c) \/ Row0Write(c) \/ DirectCur(c) \/ DirectWrite(c)
    \/ AutoTable1Read(c) \/ AutoTable1Write(c) \/ AutoTable0Read(c) \/ AutoTable0Write(c)
    \/ AutoDone(c)

Next == \E c \in Callers : CallStep(c) \/ ThreadStep(c)

Spec == Init /\ [][Next]_vars

-----------------------------------------------------------------------------
Labels == {"idle", "set_read", "init_test", "full_read", "full_write",
           "table0_read", "table0_write", "row_write", "table1_read", "table1_write",
           "init_done", "row0_write", "direct_cur", "direct_write",
           "auto_table1_read", "auto_table1_write", "auto_table0_read", "auto_table0_write",
           "auto_done"}
Arguments == [fan : Fans, speed : Bytes, row : 0..Rows, bit : BOOLEAN]

\* Every variable that the driver or the EC has keeps its type; in particular
\* no row beyond the last is ever programmed.
TypeOK ==
    /\ full \in BOOLEAN /\ table0 \in BOOLEAN /\ table1 \in BOOLEAN
    /\ rows \subseteq 0..Rows
    /\ rowSpeed \in [Fans -> Bytes] /\ ecFan \in [Fans -> Bytes] /\ cur \in [Fans -> Bytes]
    /\ initialized \in BOOLEAN
    /\ pc \in [Callers -> Labels] /\ arg \in [Callers -> Arguments]

AllIdle == \A c \in Callers : Idle(c)

OneProgram == \A x, y \in used : x = y

\* Fewer failures than attempts: each write with retry gets through.
RetriesSuffice == readFaults = 0 /\ writeFaults < Tries

\* Speeds the EC can act on: 1 stands for off.
TableSpeeds == {1} \cup FanOnMin(NB02_FAN_SPEED_MAX)..NB02_FAN_SPEED_MAX

\* Whatever is asked, by however many programs at once, and whatever fails:
\* the EC never gets the speed 0, which spins the fan up, nor a speed between
\* off and the lowest running speed, nor one above the maximum.
SpeedInRange ==
    /\ \A f \in Fans : rowSpeed[f] \in TableSpeeds
    /\ \A f \in Fans : cur[f] \in TableSpeeds \cup {0} /\ ecFan[f] \in TableSpeeds \cup {0}

\* One program: the EC is told to use the tables only when every row has been
\* programmed and each fan has a table of its own, even if writes fail, as
\* long as fewer fail than are retried.
SwitchOnOrder ==
    [][OneProgram /\ RetriesSuffice /\ ~table1 /\ table1'
       => rows = 0..Rows /\ table0]_vars

\* One program: as long as the driver takes the tables for initialized they
\* are complete and in use, although some writes failed.
InitializedMeansInUse ==
    initialized /\ AllIdle /\ OneProgram /\ RetriesSuffice
    => table0 /\ table1 /\ rows = 0..Rows

\* One program, no failures: the table, the direct register and the value the
\* driver remembers agree on the speed asked for.
RequestReachesEc ==
    AllIdle /\ OneProgram /\ readFaults = 0 /\ writeFaults = 0 =>
        \A f \in Fans : asked[f] # 0 =>
            rowSpeed[f] = asked[f] /\ ecFan[f] = asked[f] /\ cur[f] = asked[f]

\* One program: full fan mode belongs to the user of W_UW_MODE; setting a fan
\* speed never ends it.
FullModeIsTheUsers ==
    [][OneProgram /\ readFaults = 0 /\ full /\ ~full'
       => \E c \in Callers : CallMode(c, FALSE)]_vars

=============================================================================
