-------------------------- MODULE UniwillFanTableProofs --------------------------
(***************************************************************************)
(* Proofs about FanClamp: what the fan speed clamps of all the drivers     *)
(* guarantee, for every request.  And about UniwillFanTable, for any       *)
(* number of threads in the ioctls, any requests, any number of table rows *)
(* and any failures.                                                       *)
(***************************************************************************)
EXTENDS UniwillFanTable, TLAPS

(***************************************************************************)
(* The clamps.                                                             *)
(***************************************************************************)

\* The boundaries of the clamp are in order, whatever the maximum.
LEMMA Boundaries ==
    ASSUME NEW max \in Nat
    PROVE  /\ FanOnHalf(max) \in Nat /\ FanOnMin(max) \in Nat
           /\ FanOnHalf(max) <= FanOnMin(max) /\ FanOnMin(max) <= max
BY DEF FanOnHalf, FanOnMin, FAN_ON_MIN_SPEED_PERCENT

\* A request up to the maximum comes out as off or as a speed at which the fan
\* runs, never above the maximum (tuxedo_io.c, uw_set_fan).
THEOREM ClampSafe ==
    ASSUME NEW max \in Nat, NEW speed \in 0..max
    PROVE  /\ ClampStrict(speed, max) \in {0} \cup FanOnMin(max)..max
           /\ ClampInclusive(speed, max) \in {0} \cup FanOnMin(max)..max
BY Boundaries DEF ClampStrict, ClampInclusive

\* More is never answered by less.
THEOREM ClampMonotone ==
    ASSUME NEW max \in Nat, NEW low \in Nat, NEW high \in Nat, low <= high
    PROVE  /\ ClampStrict(low, max) <= ClampStrict(high, max)
           /\ ClampInclusive(low, max) <= ClampInclusive(high, max)
BY Boundaries DEF ClampStrict, ClampInclusive

\* Clamping once is enough.
THEOREM ClampIdempotent ==
    ASSUME NEW max \in Nat, max >= 8, NEW speed \in Nat
    PROVE  ClampStrict(ClampStrict(speed, max), max) = ClampStrict(speed, max)
<1>1. FanOnHalf(max) > 0
  BY DEF FanOnHalf, FAN_ON_MIN_SPEED_PERCENT
<1> QED
  BY <1>1, Boundaries DEF ClampStrict

\* The ioctls and the hwmon drivers disagree about the request in the middle
\* and about no other.
THEOREM ClampsAgree ==
    ASSUME NEW max \in Nat, NEW speed \in Nat, speed # FanOnHalf(max)
    PROVE  ClampStrict(speed, max) = ClampInclusive(speed, max)
BY Boundaries DEF ClampStrict, ClampInclusive

\* The word that W_CL_FANSPEED passes on: each byte is the clamped byte of the
\* request, and no byte runs over into the next.
THEOREM ClevoBytes ==
    ASSUME NEW argument \in Nat
    PROVE  /\ ClevoFanArgument(argument) % 256 = ClevoSpeed(argument, 1)
           /\ (ClevoFanArgument(argument) \div 256) % 256 = ClevoSpeed(argument, 256)
           /\ ClevoFanArgument(argument) \div 65536 = ClevoSpeed(argument, 65536)
<1>1. ASSUME NEW shift \in {1, 256, 65536} PROVE ClevoSpeed(argument, shift) \in 0..255
  <2>1. (argument \div shift) % 256 \in 0..NB01_FAN_SPEED_MAX
    BY DEF NB01_FAN_SPEED_MAX
  <2>2. ClevoSpeed(argument, shift) \in {0} \cup FanOnMin(NB01_FAN_SPEED_MAX)..NB01_FAN_SPEED_MAX
    BY <2>1, ClampSafe DEF ClevoSpeed, NB01_FAN_SPEED_MAX
  <2>3. FanOnMin(NB01_FAN_SPEED_MAX) \in Nat
    BY Boundaries DEF NB01_FAN_SPEED_MAX
  <2> QED
    BY <2>2, <2>3 DEF NB01_FAN_SPEED_MAX
<1>2. PICK x \in 0..255 : x = ClevoSpeed(argument, 1)
  BY <1>1
<1>3. PICK y \in 0..255 : y = ClevoSpeed(argument, 256)
  BY <1>1
<1>4. PICK z \in 0..255 : z = ClevoSpeed(argument, 65536)
  BY <1>1
<1>5. ClevoFanArgument(argument) = x + 256 * y + 65536 * z
  BY <1>2, <1>3, <1>4 DEF ClevoFanArgument
<1>6. (x + 256 * y + 65536 * z) % 256 = x
  OBVIOUS
<1>7. ((x + 256 * y + 65536 * z) \div 256) % 256 = y
  <2>1. (x + 256 * y + 65536 * z) \div 256 = y + 256 * z
    OBVIOUS
  <2>2. (y + 256 * z) % 256 = y
    OBVIOUS
  <2> QED
    BY <2>1, <2>2
<1>8. (x + 256 * y + 65536 * z) \div 65536 = z
  OBVIOUS
<1> QED
  BY <1>2, <1>3, <1>4, <1>5, <1>6, <1>7, <1>8

(***************************************************************************)
(* The fan tables.                                                         *)
(***************************************************************************)

\* An accepted request becomes a speed that the EC can act on.
LEMMA AcceptedSpeed ==
    ASSUME NEW speed \in 0..NB02_FAN_SPEED_MAX
    PROVE  UwTableSpeed(speed) \in TableSpeeds /\ UwTableSpeed(speed) \in Bytes
<1>1. NB02_FAN_SPEED_MAX \in Nat /\ NB02_FAN_SPEED_MAX <= 255
  BY DEF NB02_FAN_SPEED_MAX
<1>2. ClampStrict(speed, NB02_FAN_SPEED_MAX)
        \in {0} \cup FanOnMin(NB02_FAN_SPEED_MAX)..NB02_FAN_SPEED_MAX
  BY <1>1, ClampSafe
<1>3. FanOnMin(NB02_FAN_SPEED_MAX) \in Nat
  BY <1>1, Boundaries
<1> QED
  BY <1>1, <1>2, <1>3 DEF UwTableSpeed, TableSpeeds, Bytes

LEMMA TableSpeedIsByte == 1 \in TableSpeeds /\ TableSpeeds \subseteq Bytes
<1>1. FanOnMin(NB02_FAN_SPEED_MAX) \in Nat
  BY Boundaries DEF NB02_FAN_SPEED_MAX
<1> QED
  BY <1>1 DEF TableSpeeds, Bytes, NB02_FAN_SPEED_MAX

Checked == {"row0_write", "direct_cur", "direct_write"}

\* A thread past the range check carries the clamped speed.
CheckedInv == \A c \in Callers : pc[c] \in Checked => arg[c].speed \in TableSpeeds

SInv == TypeOK /\ CheckedInv /\ SpeedInRange

LEMMA ArgTypes ==
    ASSUME TypeOK, NEW c \in Callers
    PROVE  /\ arg[c].fan \in Fans /\ arg[c].speed \in Bytes
           /\ arg[c].row \in 0..Rows /\ arg[c].bit \in BOOLEAN /\ arg[c] \in Arguments
BY DEF TypeOK, Arguments

LEMMA LowByte ==
    ASSUME NEW n \in Nat
    PROVE  n % 256 \in Bytes
BY DEF Bytes

LEMMA CallStepInv ==
    ASSUME SInv, NEW c \in Callers, CallStep(c)
    PROVE  SInv'
<1> USE TableAssumption
<1>1. ASSUME NEW f \in Fans, NEW request \in Requests, CallSet(c, f, request) PROVE SInv'
  <2>1. request % 256 \in Bytes
    <3>1. request \in Nat
      BY Zenon
    <3> QED
      BY <3>1, LowByte
  <2>2. [arg[c] EXCEPT !.fan = f, !.speed = request % 256] \in Arguments
    <3>1. \A b \in Bytes : [arg[c] EXCEPT !.fan = f, !.speed = b] \in Arguments
      <4>1. arg[c] \in Arguments
        BY ArgTypes DEF SInv
      <4> QED
        BY <4>1 DEF Arguments
    <3> QED
      BY <2>1, <3>1
  <2>3. arg' \in [Callers -> Arguments]
    BY <1>1, <2>2 DEF CallSet, SInv, TypeOK
  <2> QED
    BY <1>1, <2>3 DEF CallSet, Call, Goto, driverVars, SInv, TypeOK, Labels, CheckedInv, Checked, SpeedInRange
<1>2. ASSUME CallAuto(c) PROVE SInv'
  BY <1>2 DEF CallAuto, Call, Goto, driverVars, SInv, TypeOK, Labels, CheckedInv, Checked, SpeedInRange
<1>3. ASSUME NEW bit \in BOOLEAN, CallMode(c, bit) PROVE SInv'
  <2>1. full' \in BOOLEAN
    BY <1>3 DEF CallMode, SInv, TypeOK
  <2> QED
    BY <1>3, <2>1 DEF CallMode, Call, driverVars, SInv, TypeOK, CheckedInv, SpeedInRange
<1> QED
  BY <1>1, <1>2, <1>3 DEF CallStep

LEMMA ThreadStepInv ==
    ASSUME SInv, NEW c \in Callers, ThreadStep(c)
    PROVE  SInv'
<1> USE TableAssumption
<1>0. NoArg \in Arguments
  BY DEF NoArg, Arguments, Fans, Bytes
<1> USE DEF Goto, Return, ecVars, driverVars, SInv, CheckedInv, Checked, SpeedInRange
<1>1. CASE SetRead(c)
  <2>1. \/ pc' = [pc EXCEPT ![c] = "init_test"] /\ UNCHANGED arg
        \/ pc' = [pc EXCEPT ![c] = "idle"] /\ arg' = [arg EXCEPT ![c] = NoArg]
    BY <1>1 DEF SetRead
  <2>2. pc' \in [Callers -> Labels] /\ arg' \in [Callers -> Arguments]
    BY <1>0, <2>1 DEF TypeOK, Labels
  <2>3. CheckedInv'
    BY <2>1 DEF TypeOK
  <2> QED
    BY <1>1, <2>2, <2>3 DEF SetRead, TypeOK
<1>2. CASE InitTest(c)
  BY <1>0, <1>2 DEF InitTest, TypeOK, Labels, Arguments
<1>3. CASE FullRead(c)
  BY <1>0, <1>3 DEF FullRead, TypeOK, Labels, Arguments
<1>4. CASE FullWrite(c)
  BY <1>0, <1>4 DEF FullWrite, TypeOK, Labels, Arguments
<1>5. CASE Table0Read(c)
  <2>1. PICK bit \in BOOLEAN : arg' = [arg EXCEPT ![c].bit = bit, ![c].row = 0]
    BY <1>5 DEF Table0Read
  <2>2. [arg[c] EXCEPT !.bit = bit, !.row = 0] \in Arguments
    <3>1. 0 \in 0..Rows
      OBVIOUS
    <3> QED
      BY <3>1, ArgTypes DEF Arguments
  <2> QED
    BY <1>5, <2>1, <2>2 DEF Table0Read, TypeOK, Labels
<1>6. CASE Table0Write(c)
  BY <1>0, <1>6 DEF Table0Write, TypeOK, Labels, Arguments
<1>7. CASE RowWrite(c)
  <2>1. arg[c].row \in 0..Rows /\ [f \in Fans |-> 1] \in [Fans -> TableSpeeds]
    BY ArgTypes, TableSpeedIsByte
  <2>2. rows' \subseteq 0..Rows /\ rowSpeed' \in [Fans -> Bytes]
        /\ \A f \in Fans : rowSpeed'[f] \in TableSpeeds
    BY <1>7, <2>1, TableSpeedIsByte DEF RowWrite, TypeOK
  <2>3. arg' \in [Callers -> Arguments] /\ arg'[c].speed = arg[c].speed
    <3>1. CASE MoreRows(arg[c].row)
      <4>1. arg[c].row + 1 \in 0..Rows
        BY <2>1, <3>1 DEF MoreRows
      <4>2. [arg[c] EXCEPT !.row = arg[c].row + 1] \in Arguments
        BY <4>1, ArgTypes DEF Arguments
      <4>3. arg' = [arg EXCEPT ![c] = [arg[c] EXCEPT !.row = arg[c].row + 1]]
        BY <1>7, <3>1 DEF RowWrite
      <4> QED
        BY <4>2, <4>3 DEF TypeOK, Arguments
    <3>2. CASE ~MoreRows(arg[c].row)
      BY <1>7, <3>2 DEF RowWrite, TypeOK
    <3> QED
      BY <3>1, <3>2
  <2>4. pc' \in [Callers -> Labels] /\ pc'[c] \in {"row_write", "table1_read"}
        /\ \A d \in Callers : d # c => pc'[d] = pc[d] /\ arg'[d] = arg[d]
    BY <1>7 DEF RowWrite, TypeOK, Labels
  <2> QED
    BY <1>7, <2>2, <2>3, <2>4 DEF RowWrite, TypeOK
<1>8. CASE Table1Read(c)
  BY <1>0, <1>8 DEF Table1Read, TypeOK, Labels, Arguments
<1>9. CASE Table1Write(c)
  BY <1>0, <1>9 DEF Table1Write, TypeOK, Labels, Arguments
<1>10. CASE InitDone(c)
  <2>1. CASE TooFast(arg[c].speed)
    BY <1>0, <1>10, <2>1 DEF InitDone, TypeOK, Labels
  <2>2. CASE ~TooFast(arg[c].speed)
    <3>1. arg[c].speed \in 0..NB02_FAN_SPEED_MAX
      BY <2>2, ArgTypes DEF TooFast, Bytes, NB02_FAN_SPEED_MAX
    <3>2. UwTableSpeed(arg[c].speed) \in TableSpeeds /\ UwTableSpeed(arg[c].speed) \in Bytes
      BY <3>1, AcceptedSpeed
    <3>3. [arg[c] EXCEPT !.speed = UwTableSpeed(arg[c].speed)] \in Arguments
      BY <3>2, ArgTypes DEF Arguments
    <3>4. arg' = [arg EXCEPT ![c] = [arg[c] EXCEPT !.speed = UwTableSpeed(arg[c].speed)]]
          /\ pc' = [pc EXCEPT ![c] = "row0_write"] /\ initialized' = TRUE
          /\ UNCHANGED <<full, table0, table1, rows, rowSpeed, ecFan, cur>>
      BY <1>10, <2>2 DEF InitDone
    <3>5. arg' \in [Callers -> Arguments] /\ pc' \in [Callers -> Labels]
      BY <3>3, <3>4 DEF TypeOK, Labels
    <3>6. arg'[c].speed \in TableSpeeds /\ \A d \in Callers : d # c => arg'[d] = arg[d] /\ pc'[d] = pc[d]
      BY <3>2, <3>4, ArgTypes DEF TypeOK, Arguments
    <3> QED
      BY <3>4, <3>5, <3>6 DEF TypeOK
  <2> QED
    BY <2>1, <2>2
<1>11. CASE Row0Write(c)
  <2>1. arg[c].fan \in Fans /\ arg[c].speed \in TableSpeeds /\ arg[c].speed \in Bytes
    BY <1>11, ArgTypes, TableSpeedIsByte DEF Row0Write
  <2>2. rowSpeed' \in [Fans -> Bytes] /\ \A f \in Fans : rowSpeed'[f] \in TableSpeeds
    BY <1>11, <2>1 DEF Row0Write, TableOf, TypeOK
  <2>3. pc' = [pc EXCEPT ![c] = "direct_cur"]
        /\ UNCHANGED <<full, table0, table1, rows, ecFan, cur, initialized, arg>>
    BY <1>11 DEF Row0Write
  <2>4. pc' \in [Callers -> Labels] /\ \A d \in Callers : d # c => pc'[d] = pc[d]
    BY <2>3 DEF TypeOK, Labels
  <2> QED
    BY <2>1, <2>2, <2>3, <2>4 DEF TypeOK
<1>12. CASE DirectCur(c)
  BY <1>0, <1>12 DEF DirectCur, TypeOK, Labels, Arguments
<1>13. CASE DirectWrite(c)
  BY <1>0, <1>13 DEF DirectWrite, TypeOK, Labels, Arguments
<1>14. CASE AutoTable1Read(c)
  BY <1>0, <1>14 DEF AutoTable1Read, TypeOK, Labels, Arguments
<1>15. CASE AutoTable1Write(c)
  BY <1>0, <1>15 DEF AutoTable1Write, TypeOK, Labels, Arguments
<1>16. CASE AutoTable0Read(c)
  BY <1>0, <1>16 DEF AutoTable0Read, TypeOK, Labels, Arguments
<1>17. CASE AutoTable0Write(c)
  BY <1>0, <1>17 DEF AutoTable0Write, TypeOK, Labels, Arguments
<1>18. CASE AutoDone(c)
  <2>1. cur' \in [Fans -> Bytes] /\ \A f \in Fans : cur'[f] = 0
    BY <1>18 DEF AutoDone, Bytes
  <2> QED
    BY <1>0, <1>18, <2>1 DEF AutoDone, TypeOK, Labels
<1> QED
  BY <1>1, <1>2, <1>3, <1>4, <1>5, <1>6, <1>7, <1>8, <1>9, <1>10, <1>11, <1>12, <1>13, <1>14, <1>15,
     <1>16, <1>17, <1>18 DEF ThreadStep

LEMMA SpeedInit == Init => SInv
<1> SUFFICES ASSUME Init PROVE SInv
  OBVIOUS
<1>1. NoArg \in Arguments
  BY TableAssumption DEF NoArg, Arguments, Fans, Bytes
<1>2. 0 \in Bytes /\ 1 \in Bytes
  BY DEF Bytes
<1>3. TypeOK
  BY <1>1, <1>2 DEF Init, TypeOK, Labels
<1>4. CheckedInv /\ SpeedInRange
  BY TableSpeedIsByte DEF Init, CheckedInv, Checked, SpeedInRange
<1> QED
  BY <1>3, <1>4 DEF SInv

LEMMA SpeedStep == SInv /\ [Next]_vars => SInv'
<1>1. SInv /\ UNCHANGED vars => SInv'
  BY DEF SInv, TypeOK, CheckedInv, SpeedInRange, vars, ecVars, driverVars
<1> QED
  BY <1>1, CallStepInv, ThreadStepInv DEF Next

\* Whatever is asked, by however many programs at once, and whatever fails in
\* between: no fan register ever gets 0 by way of the tables, a speed between
\* off and the lowest running speed, or one above the maximum.
THEOREM SpeedAlwaysInRange == Spec => []SpeedInRange
<1>1. SInv => SpeedInRange
  BY DEF SInv
<1> QED
  BY <1>1, SpeedInit, SpeedStep, PTL DEF Spec

-----------------------------------------------------------------------------
(* One program, and fewer failed writes than are retried. *)

Complete    == table0 /\ table1 /\ rows = 0..Rows
InitLabels  == {"full_read", "full_write", "table0_read", "table0_write", "row_write",
                "table1_read", "table1_write"}
OffLabels   == {"auto_table1_write", "auto_table0_read", "auto_table0_write", "auto_done"}
DoneLabels  == {"init_done"} \cup Checked

Assumed == OneProgram /\ RetriesSuffice

\* A thread inside a call has made one; faults are counted.
CallersInv == \A c \in Callers : ~Idle(c) => c \in used
FaultsInv  == readFaults \in Nat /\ writeFaults \in Nat

\* How far the one program has come with the tables.
ProgressInv ==
    Assumed =>
        /\ initialized /\ (\A c \in Callers : pc[c] \notin OffLabels) => Complete
        /\ \A c \in Callers :
              /\ pc[c] \in InitLabels => ~initialized
              /\ pc[c] = "table0_write" => arg[c].row = 0 /\ (arg[c].bit => table0)
              /\ pc[c] = "row_write" => table0 /\ 0..(arg[c].row - 1) \subseteq rows
              /\ pc[c] \in {"table1_read", "table1_write"} => table0 /\ rows = 0..Rows
              /\ pc[c] = "table1_write" /\ arg[c].bit => table1
              /\ pc[c] \in DoneLabels => Complete

PInv == SInv /\ CallersInv /\ FaultsInv /\ ProgressInv

\* What was assumed stays an assumption about the past.
LEMMA History ==
    ASSUME FaultsInv, [Next]_vars
    PROVE  FaultsInv' /\ used \subseteq used' /\ (Assumed' => Assumed)
<1>1. used \subseteq used'
  BY ZenonT(60) DEF Next, CallStep, CallSet, CallAuto, CallMode, Call, ThreadStep, SetRead, InitTest, FullRead,
     FullWrite, Table0Read, Table0Write, RowWrite, Table1Read, Table1Write, InitDone, Row0Write,
     DirectCur, DirectWrite, AutoTable1Read, AutoTable1Write, AutoTable0Read, AutoTable0Write,
     AutoDone, histVars, vars
<1>2. \/ UNCHANGED faultVars
      \/ \E bit \in BOOLEAN, reg \in {full, table0, table1} : ReadBit(reg, bit)
      \/ \E took \in BOOLEAN : WriteOnce(took) \/ WriteWithRetry(took)
  BY ZenonT(60) DEF Next, CallStep, CallSet, CallAuto, CallMode, ThreadStep, SetRead, InitTest, FullRead,
     FullWrite, Table0Read, Table0Write, RowWrite, Table1Read, Table1Write, WriteTable1, InitDone,
     Row0Write, DirectCur, DirectWrite, AutoTable1Read, AutoTable1Write, AutoTable0Read,
     AutoTable0Write, AutoDone, vars
<1>3. FaultsInv' /\ readFaults <= readFaults' /\ writeFaults <= writeFaults'
  BY <1>2, TableAssumption DEF FaultsInv, faultVars, ReadBit, WriteOnce, WriteWithRetry
<1> QED
  BY <1>1, <1>3, TableAssumption DEF Assumed, OneProgram, RetriesSuffice, FaultsInv

\* Under the assumptions a retried write gets through.
LEMMA RetriedWrite ==
    ASSUME FaultsInv, NEW took, WriteWithRetry(took), RetriesSuffice'
    PROVE  took
BY TableAssumption DEF FaultsInv, WriteWithRetry, RetriesSuffice

LEMMA TrueRead ==
    ASSUME FaultsInv, NEW reg, NEW bit, ReadBit(reg, bit), RetriesSuffice'
    PROVE  bit = reg
BY DEF FaultsInv, ReadBit, RetriesSuffice

\* The other threads rest while the one program is inside a call.
LEMMA Alone ==
    ASSUME CallersInv, OneProgram, NEW c \in Callers, ~Idle(c)
    PROVE  \A d \in Callers : d # c => Idle(d)
BY DEF CallersInv, OneProgram

LEMMA ThreadStepProgress ==
    ASSUME PInv, NEW c \in Callers, ThreadStep(c), Assumed'
    PROVE  ProgressInv'
<1>0. Assumed /\ FaultsInv /\ RetriesSuffice'
  BY History DEF PInv, Assumed, Next
<1>1. ~Idle(c)
  BY DEF Idle, ThreadStep, SetRead, InitTest, FullRead,
     FullWrite, Table0Read, Table0Write, RowWrite, Table1Read, Table1Write, InitDone, Row0Write,
     DirectCur, DirectWrite, AutoTable1Read, AutoTable1Write, AutoTable0Read, AutoTable0Write, AutoDone
<1>2. \A d \in Callers : d # c => pc[d] = "idle"
  BY <1>0, <1>1, Alone DEF PInv, Assumed, Idle
<1>3. pc \in [Callers -> Labels] /\ arg \in [Callers -> Arguments] /\ rows \subseteq 0..Rows
  BY DEF PInv, SInv, TypeOK
<1> USE <1>0, <1>2, <1>3, TableAssumption
<1> USE DEF Goto, Return, ecVars, driverVars, PInv, ProgressInv, Complete, InitLabels, OffLabels, DoneLabels, Checked
<1>4. CASE SetRead(c)
  BY <1>4 DEF SetRead
<1>5. CASE InitTest(c)
  BY <1>5 DEF InitTest
<1>6. CASE FullRead(c)
  BY <1>6 DEF FullRead
<1>7. CASE FullWrite(c)
  BY <1>7 DEF FullWrite
<1>8. CASE Table0Read(c)
  <2>1. PICK bit \in BOOLEAN : ReadBit(table0, bit) /\ arg' = [arg EXCEPT ![c].bit = bit, ![c].row = 0]
    BY <1>8 DEF Table0Read
  <2>2. bit = table0
    BY <2>1, TrueRead
  <2>3. arg'[c].bit = bit
    BY <2>1 DEF Arguments
  <2> QED
    BY <1>8, <2>2, <2>3 DEF Table0Read
<1>9. CASE Table0Write(c)
  <2>1. table0'
    <3>1. CASE arg[c].bit
      BY <1>9, <3>1 DEF Table0Write
    <3>2. CASE ~arg[c].bit
      <4>1. PICK took \in BOOLEAN : WriteWithRetry(took) /\ table0' = (table0 \/ took)
        BY <1>9, <3>2 DEF Table0Write
      <4> QED
        BY <4>1, RetriedWrite
    <3> QED
      BY <3>1, <3>2
  <2>2. pc[c] = "table0_write" /\ pc' = [pc EXCEPT ![c] = "row_write"]
        /\ UNCHANGED <<table1, rows, arg, initialized>>
    BY <1>9 DEF Table0Write
  <2>3. arg[c].row = 0
    BY <2>2
  <2> QED
    BY <2>1, <2>2, <2>3
<1>10. CASE RowWrite(c)
  <2>1. PICK took \in BOOLEAN : WriteWithRetry(took) /\ (took => rows' = rows \cup {arg[c].row})
    BY <1>10 DEF RowWrite
  <2>2. rows' = rows \cup {arg[c].row}
    BY <2>1, RetriedWrite
  <2>3. pc[c] = "row_write" /\ table0 /\ 0..(arg[c].row - 1) \subseteq rows /\ arg[c].row \in 0..Rows
        /\ ~initialized /\ UNCHANGED <<table0, table1, initialized>>
    BY <1>10, ArgTypes DEF RowWrite, SInv
  <2>4. 0..arg[c].row \subseteq rows' /\ rows' \subseteq 0..Rows
    <3>1. ASSUME NEW r \in 0..arg[c].row PROVE r \in 0..(arg[c].row - 1) \/ r = arg[c].row
      BY <2>3
    <3> QED
      BY <2>2, <2>3, <3>1
  <2>5. CASE MoreRows(arg[c].row)
    <3>1. arg'[c].row = arg[c].row + 1 /\ UNCHANGED pc
      BY <1>10, <2>5 DEF RowWrite, Arguments
    <3>2. 0..(arg'[c].row - 1) \subseteq rows'
      BY <2>3, <2>4, <3>1
    <3> QED
      BY <2>3, <3>1, <3>2
  <2>6. CASE ~MoreRows(arg[c].row)
    <3>1. pc' = [pc EXCEPT ![c] = "table1_read"] /\ UNCHANGED arg
      BY <1>10, <2>6 DEF RowWrite
    <3>2. rows' = 0..Rows
      <4>1. arg[c].row = Rows
        BY <2>3, <2>6 DEF MoreRows
      <4> QED
        BY <2>4, <4>1
    <3> QED
      BY <2>3, <3>1, <3>2
  <2> QED
    BY <2>5, <2>6
<1>11. CASE Table1Read(c)
  <2>1. PICK bit \in BOOLEAN : ReadBit(table1, bit) /\ arg' = [arg EXCEPT ![c].bit = bit]
    BY <1>11 DEF Table1Read
  <2>2. bit = table1
    BY <2>1, TrueRead
  <2>3. arg'[c].bit = bit
    BY <2>1 DEF Arguments
  <2> QED
    BY <1>11, <2>2, <2>3 DEF Table1Read
<1>12. CASE Table1Write(c)
  <2>1. table1'
    <3>1. CASE arg[c].bit
      BY <1>12, <3>1 DEF Table1Write
    <3>2. CASE ~arg[c].bit
      <4>1. PICK took \in BOOLEAN : WriteWithRetry(took) /\ table1' = (table1 \/ took)
        BY <1>12, <3>2 DEF Table1Write, WriteTable1
      <4> QED
        BY <4>1, RetriedWrite
    <3> QED
      BY <3>1, <3>2
  <2>2. pc[c] = "table1_write" /\ pc' = [pc EXCEPT ![c] = "init_done"]
        /\ UNCHANGED <<table0, rows, arg, initialized>>
    BY <1>12 DEF Table1Write
  <2> QED
    BY <2>1, <2>2
<1>13. CASE InitDone(c)
  BY <1>13 DEF InitDone
<1>14. CASE Row0Write(c)
  BY <1>14 DEF Row0Write
<1>15. CASE DirectCur(c)
  BY <1>15 DEF DirectCur
<1>16. CASE DirectWrite(c)
  BY <1>16 DEF DirectWrite
<1>17. CASE AutoTable1Read(c)
  BY <1>17 DEF AutoTable1Read
<1>18. CASE AutoTable1Write(c)
  BY <1>18 DEF AutoTable1Write
<1>19. CASE AutoTable0Read(c)
  BY <1>19 DEF AutoTable0Read
<1>20. CASE AutoTable0Write(c)
  BY <1>20 DEF AutoTable0Write
<1>21. CASE AutoDone(c)
  BY <1>21 DEF AutoDone
<1> QED
  BY <1>4, <1>5, <1>6, <1>7, <1>8, <1>9, <1>10, <1>11, <1>12, <1>13, <1>14, <1>15, <1>16, <1>17,
     <1>18, <1>19, <1>20, <1>21 DEF ThreadStep

LEMMA CallStepProgress ==
    ASSUME PInv, NEW c \in Callers, CallStep(c), Assumed'
    PROVE  ProgressInv'
<1>1. Assumed
  BY History DEF PInv, Next
<1>2. pc[c] = "idle" /\ UNCHANGED <<table0, table1, rows, initialized>>
  BY DEF CallStep, CallSet, CallAuto, CallMode, Call, Idle, driverVars
<1>3. UNCHANGED pc \/ \E l \in {"set_read", "auto_table1_read"} : pc' = [pc EXCEPT ![c] = l]
  BY ZenonT(60) DEF CallStep, CallSet, CallAuto, CallMode, Goto
<1>4. \A d \in Callers : d # c => pc'[d] = pc[d] /\ arg'[d] = arg[d]
  BY <1>3, ZenonT(60) DEF PInv, SInv, TypeOK, CallStep, CallSet, CallAuto, CallMode
<1>5. pc'[c] \in {"idle", "set_read", "auto_table1_read"}
  BY <1>2, <1>3 DEF PInv, SInv, TypeOK
<1> QED
  BY <1>1, <1>2, <1>4, <1>5
     DEF PInv, ProgressInv, Complete, InitLabels, OffLabels, DoneLabels, Checked

LEMMA CallersStep ==
    ASSUME PInv, [Next]_vars
    PROVE  CallersInv'
<1>1. ASSUME NEW c \in Callers, CallStep(c) PROVE CallersInv'
  <2>1. used' = used \cup {c} /\ \A d \in Callers : d # c => pc'[d] = pc[d]
    BY <1>1 DEF CallStep, CallSet, CallAuto, CallMode, Call, Goto, PInv, SInv, TypeOK
  <2> QED
    BY <2>1 DEF PInv, CallersInv, Idle
<1>2. ASSUME NEW c \in Callers, ThreadStep(c) PROVE CallersInv'
  <2>1. used' = used /\ pc[c] # "idle" /\ \A d \in Callers : d # c => pc'[d] = pc[d]
    BY <1>2 DEF ThreadStep, SetRead, InitTest, FullRead, FullWrite, Table0Read, Table0Write, RowWrite,
       Table1Read, Table1Write, InitDone, Row0Write, DirectCur, DirectWrite, AutoTable1Read,
       AutoTable1Write, AutoTable0Read, AutoTable0Write, AutoDone, Goto, Return, histVars,
       PInv, SInv, TypeOK
  <2> QED
    BY <2>1 DEF PInv, CallersInv, Idle
<1>3. CASE UNCHANGED vars
  BY <1>3 DEF PInv, CallersInv, Idle, vars, histVars
<1> QED
  BY <1>1, <1>2, <1>3 DEF Next

LEMMA Progress == PInv /\ [Next]_vars => PInv'
<1> SUFFICES ASSUME PInv, [Next]_vars PROVE PInv'
  OBVIOUS
<1>1. SInv' /\ FaultsInv'
  BY SpeedStep, History DEF PInv
<1>2. ProgressInv'
  <2>1. SUFFICES ASSUME Assumed' PROVE ProgressInv'
    BY DEF ProgressInv
  <2>2. UNCHANGED vars => ProgressInv'
    BY <2>1, History DEF PInv, ProgressInv, Complete, vars, ecVars, driverVars
  <2> QED
    BY <2>1, <2>2, CallStepProgress, ThreadStepProgress DEF Next
<1> QED
  BY <1>1, <1>2, CallersStep DEF PInv

LEMMA ProgressAlways == Spec => []PInv
<1>1. Init => PInv
  <2>1. Init => CallersInv /\ FaultsInv /\ ProgressInv
    BY DEF Init, CallersInv, Idle, FaultsInv, ProgressInv, InitLabels, DoneLabels, Checked
  <2> QED
    BY <2>1, SpeedInit DEF PInv
<1> QED
  BY <1>1, Progress, PTL DEF Spec

\* One program, fewer failed writes than tries: while the driver takes the fan
\* tables for initialized and no call is under way, the EC uses both tables
\* and every row of them has been programmed.
THEOREM InitializedIsInUse == Spec => []InitializedMeansInUse
<1>1. PInv => InitializedMeansInUse
  BY DEF PInv, ProgressInv, Assumed, Complete, InitializedMeansInUse, AllIdle, Idle, OffLabels
<1> QED
  BY <1>1, ProgressAlways, PTL

\* One program, fewer failed writes than tries: the EC is switched over to the
\* tables at 0x0f00 only when all their rows are there.
THEOREM SwitchedOnInOrder == Spec => SwitchOnOrder
<1>1. PInv /\ [Next]_vars =>
        (OneProgram /\ RetriesSuffice /\ ~table1 /\ table1' => rows = 0..Rows /\ table0)
  <2> SUFFICES ASSUME PInv, [Next]_vars, OneProgram, RetriesSuffice, ~table1, table1'
               PROVE  rows = 0..Rows /\ table0
    OBVIOUS
  <2>1. PICK c \in Callers : CallStep(c) \/ ThreadStep(c)
    BY DEF Next, vars, ecVars
  <2>2. ~CallStep(c)
    BY DEF CallStep, CallSet, CallAuto, CallMode, Call
  <2>3. pc[c] = "table1_write"
    BY <2>1, <2>2 DEF ThreadStep, SetRead, InitTest, FullRead,
       FullWrite, Table0Read, Table0Write, RowWrite, Table1Read, Table1Write, InitDone, Row0Write,
       DirectCur, DirectWrite, AutoTable1Read, AutoTable1Write, AutoTable0Read, AutoTable0Write,
       AutoDone, ecVars
  <2> QED
    BY <2>3 DEF PInv, ProgressInv, Assumed
<1> QED
  BY <1>1, ProgressAlways, PTL DEF Spec, SwitchOnOrder

-----------------------------------------------------------------------------
(***************************************************************************)
(* One program and no failure: each label of a call fixes which of the     *)
(* registers already hold the speed asked for, and for the other fan       *)
(* nothing changes.                                                        *)
(***************************************************************************)
Kept(g) ==
    asked[g] # 0 => initialized /\ rowSpeed[g] = asked[g] /\ ecFan[g] = asked[g] /\ cur[g] = asked[g]

RequestLabels == {"set_read", "init_test", "init_done"} \cup InitLabels
AutoLabels    == {"auto_table1_read"} \cup OffLabels

\* The call will program a speed: it is in range and full fan mode is off.
Accepted(c) == ~TooFast(arg[c].speed) /\ ~(pc[c] = "set_read" /\ full)

RequestAt(c) ==
    /\ pc[c] \in RequestLabels =>
          \A g \in Fans : IF g = arg[c].fan /\ Accepted(c) THEN asked[g] = UwTableSpeed(arg[c].speed)
                                                           ELSE Kept(g)
    /\ pc[c] \in Checked =>
          initialized /\ \A g \in Fans : IF g = arg[c].fan THEN asked[g] = arg[c].speed ELSE Kept(g)
    /\ pc[c] \in {"direct_cur", "direct_write"} => rowSpeed[arg[c].fan] = arg[c].speed
    /\ pc[c] = "direct_write" => cur[arg[c].fan] = arg[c].speed
    /\ pc[c] \in AutoLabels => asked = [g \in Fans |-> 0]

Exact == OneProgram /\ readFaults = 0 /\ writeFaults = 0

RequestInv ==
    Exact => /\ AllIdle => \A g \in Fans : Kept(g)
             /\ \A c \in Callers : RequestAt(c)

\* One program, no failed read: past its first test uw_set_fan finds full fan
\* mode off, so its set_full_fan_mode(false) has nothing to clear.
FullInv ==
    OneProgram /\ readFaults = 0 =>
        \A c \in Callers : /\ pc[c] \in {"init_test", "full_read", "full_write"} => ~full
                           /\ pc[c] = "full_write" => ~arg[c].bit

AskedInv == asked \in [Fans -> Bytes]

RInv == PInv /\ AskedInv /\ RequestInv /\ FullInv

\* Where a request must arrive, one program runs and retries suffice.
LEMMA ExactIsAssumed == Exact => Assumed
BY TableAssumption DEF Exact, Assumed, RetriesSuffice

\* Whether one program calls, and whether nothing failed, is never regained.
LEMMA ExactPast ==
    ASSUME FaultsInv, [Next]_vars
    PROVE  /\ OneProgram' => OneProgram
           /\ readFaults' = 0 => readFaults = 0
           /\ Exact' => Exact
<1>1. used \subseteq used'
  BY History
<1>2. \/ UNCHANGED faultVars
      \/ \E bit \in BOOLEAN, reg \in {full, table0, table1} : ReadBit(reg, bit)
      \/ \E took \in BOOLEAN : WriteOnce(took) \/ WriteWithRetry(took)
  BY ZenonT(60) DEF Next, CallStep, CallSet, CallAuto, CallMode, ThreadStep, SetRead, InitTest, FullRead,
     FullWrite, Table0Read, Table0Write, RowWrite, Table1Read, Table1Write, WriteTable1, InitDone,
     Row0Write, DirectCur, DirectWrite, AutoTable1Read, AutoTable1Write, AutoTable0Read,
     AutoTable0Write, AutoDone, vars
<1>3. readFaults <= readFaults' /\ writeFaults <= writeFaults' /\ readFaults' \in Nat /\ writeFaults' \in Nat
  BY <1>2, TableAssumption DEF FaultsInv, faultVars, ReadBit, WriteOnce, WriteWithRetry
<1> QED
  BY <1>1, <1>3 DEF Exact, OneProgram, FaultsInv

\* Without failures an access does what it should.
LEMMA ExactAccess ==
    ASSUME FaultsInv, Exact'
    PROVE  /\ \A reg, bit : ReadBit(reg, bit) => bit = reg
           /\ \A took : WriteOnce(took) \/ WriteWithRetry(took) => took
BY TableAssumption DEF Exact, FaultsInv, ReadBit, WriteOnce, WriteWithRetry

\* A call of the one program begins when no other is under way.
LEMMA CallAlone ==
    ASSUME CallersInv, NEW c \in Callers, Call(c), OneProgram'
    PROVE  AllIdle
<1>1. used' = used \cup {c} /\ Idle(c)
  BY DEF Call
<1>2. ASSUME NEW d \in Callers, ~Idle(d) PROVE FALSE
  <2>1. d \in used' /\ c \in used'
    BY <1>1, <1>2 DEF CallersInv
  <2> QED
    BY <1>1, <1>2, <2>1 DEF OneProgram
<1> QED
  BY <1>2 DEF AllIdle

\* A call begins, or is refused, with everything as it was asked.
LEMMA CallRequest ==
    ASSUME PInv, AskedInv, RequestInv, NEW c \in Callers, CallStep(c), Exact'
    PROVE  RequestInv'
<1>1. pc \in [Callers -> Labels] /\ arg \in [Callers -> Arguments] /\ asked \in [Fans -> Bytes]
  BY DEF PInv, SInv, TypeOK, AskedInv
<1>2. Call(c) /\ UNCHANGED <<rowSpeed, ecFan, cur, initialized>>
  BY DEF CallStep, CallSet, CallAuto, CallMode, Call, driverVars
<1>3. AllIdle /\ Exact
  BY <1>2, CallAlone, ExactPast DEF PInv, Exact, Next
<1>4. \A g \in Fans : Kept(g)
  BY <1>3 DEF RequestInv
<1>5. \A d \in Callers : pc[d] = "idle"
  BY <1>3 DEF AllIdle, Idle
<1>6. ASSUME NEW f \in Fans, NEW request \in Requests, CallSet(c, f, request) PROVE RequestInv'
  <2> DEFINE speed == request % 256
  <2>1. /\ arg' = [arg EXCEPT ![c].fan = f, ![c].speed = speed]
        /\ pc' = [pc EXCEPT ![c] = "set_read"] /\ full' = full
        /\ asked' = IF speed > NB02_FAN_SPEED_MAX \/ full THEN asked
                    ELSE [asked EXCEPT ![f] = UwTableSpeed(speed)]
    BY <1>6 DEF CallSet, Goto
  <2> HIDE DEF speed
  <2>2. arg'[c].fan = f /\ arg'[c].speed = speed /\ pc'[c] = "set_read"
        /\ \A d \in Callers : d # c => pc'[d] = "idle"
    BY <1>1, <1>5, <2>1 DEF Arguments
  <2>3. ASSUME NEW g \in Fans, ~(g = f /\ Accepted(c)') PROVE Kept(g)'
    <3>1. asked'[g] = asked[g]
      BY <2>1, <2>2, <2>3, <1>1 DEF Accepted, TooFast
    <3> QED
      BY <1>2, <1>4, <3>1 DEF Kept
  <2>4. Accepted(c)' => asked'[f] = UwTableSpeed(speed)
    BY <2>1, <2>2, <1>1 DEF Accepted, TooFast
  <2>5. RequestAt(c)'
    BY <2>2, <2>3, <2>4 DEF RequestAt, Checked, AutoLabels, OffLabels
  <2>6. \A d \in Callers : d # c => RequestAt(d)'
    BY <2>2 DEF RequestAt, RequestLabels, InitLabels, Checked, AutoLabels, OffLabels
  <2> QED
    BY <2>2, <2>5, <2>6 DEF RequestInv, AllIdle, Idle
<1>7. ASSUME CallAuto(c) PROVE RequestInv'
  <2>1. pc' = [pc EXCEPT ![c] = "auto_table1_read"] /\ asked' = [g \in Fans |-> 0]
    BY <1>7 DEF CallAuto, Goto
  <2>2. pc'[c] = "auto_table1_read" /\ \A d \in Callers : d # c => pc'[d] = "idle"
    BY <1>1, <1>5, <2>1
  <2>3. \A d \in Callers : RequestAt(d)'
    BY <2>1, <2>2 DEF RequestAt, RequestLabels, InitLabels, Checked, AutoLabels, OffLabels
  <2> QED
    BY <2>2, <2>3 DEF RequestInv, AllIdle, Idle
<1>8. ASSUME NEW bit \in BOOLEAN, CallMode(c, bit) PROVE RequestInv'
  <2>1. UNCHANGED <<pc, arg, asked>>
    BY <1>8 DEF CallMode
  <2>2. \A g \in Fans : Kept(g)'
    BY <1>2, <1>4, <2>1 DEF Kept
  <2>3. \A d \in Callers : RequestAt(d)'
    BY <1>5, <2>1 DEF RequestAt, RequestLabels, InitLabels, Checked, AutoLabels, OffLabels
  <2> QED
    BY <2>2, <2>3 DEF RequestInv
<1> QED
  BY <1>6, <1>7, <1>8 DEF CallStep

\* What was asked last is known while its call is under way.
LEMMA AskedStep ==
    ASSUME PInv, AskedInv, [Next]_vars
    PROVE  AskedInv'
<1>1. ASSUME NEW c \in Callers, NEW f \in Fans, NEW request \in Requests, CallSet(c, f, request)
      PROVE  AskedInv'
  <2>1. request % 256 \in Bytes
    BY TableAssumption, LowByte
  <2>2. CASE request % 256 > NB02_FAN_SPEED_MAX \/ full
    BY <1>1, <2>2 DEF CallSet, AskedInv
  <2>3. CASE ~(request % 256 > NB02_FAN_SPEED_MAX \/ full)
    <3>1. request % 256 \in 0..NB02_FAN_SPEED_MAX
      BY <2>1, <2>3 DEF Bytes, NB02_FAN_SPEED_MAX
    <3>2. UwTableSpeed(request % 256) \in Bytes
      BY <3>1, AcceptedSpeed
    <3>3. asked' = [asked EXCEPT ![f] = UwTableSpeed(request % 256)]
      BY <1>1, <2>3 DEF CallSet
    <3> QED
      BY <3>2, <3>3 DEF AskedInv
  <2> QED
    BY <2>2, <2>3
<1>2. ASSUME NEW c \in Callers, CallAuto(c) PROVE AskedInv'
  BY <1>2 DEF CallAuto, AskedInv, Bytes
<1>3. ASSUME NEW c \in Callers, NEW bit \in BOOLEAN, CallMode(c, bit) PROVE AskedInv'
  BY <1>3 DEF CallMode, AskedInv
<1>4. ASSUME NEW c \in Callers, ThreadStep(c) PROVE AskedInv'
  <2>1. asked' = asked
    BY <1>4 DEF ThreadStep, SetRead, InitTest, FullRead, FullWrite, Table0Read, Table0Write, RowWrite,
       Table1Read, Table1Write, InitDone, Row0Write, DirectCur, DirectWrite, AutoTable1Read,
       AutoTable1Write, AutoTable0Read, AutoTable0Write, AutoDone, histVars
  <2> QED
    BY <2>1 DEF AskedInv
<1>5. CASE UNCHANGED vars
  BY <1>5 DEF AskedInv, vars, histVars
<1> QED
  BY <1>1, <1>2, <1>3, <1>4, <1>5 DEF Next, CallStep

\* One step of a call, while no other call is under way.
LEMMA ThreadRequest ==
    ASSUME PInv, AskedInv, RequestInv, FullInv, NEW c \in Callers, ThreadStep(c), Exact'
    PROVE  RequestInv'
<1>1. Exact /\ Assumed /\ FaultsInv
  BY ExactPast, ExactIsAssumed DEF PInv, Next
<1>2. pc[c] # "idle"
  BY DEF ThreadStep, SetRead, InitTest, FullRead,
     FullWrite, Table0Read, Table0Write, RowWrite, Table1Read, Table1Write, InitDone, Row0Write,
     DirectCur, DirectWrite, AutoTable1Read, AutoTable1Write, AutoTable0Read, AutoTable0Write, AutoDone
<1>3. \A d \in Callers : d # c => pc[d] = "idle"
  BY <1>1, <1>2, Alone DEF PInv, Exact, Idle
<1>4. /\ pc \in [Callers -> Labels] /\ arg \in [Callers -> Arguments] /\ asked \in [Fans -> Bytes]
      /\ cur \in [Fans -> Bytes] /\ ecFan \in [Fans -> Bytes] /\ rowSpeed \in [Fans -> Bytes]
      /\ arg[c].fan \in Fans /\ initialized \in BOOLEAN /\ full \in BOOLEAN
  BY ArgTypes DEF PInv, SInv, TypeOK, AskedInv
<1>5. asked' = asked /\ \A d \in Callers : d # c => pc'[d] = "idle"
  BY <1>3, <1>4 DEF ThreadStep, SetRead, InitTest, FullRead, FullWrite, Table0Read, Table0Write, RowWrite,
     Table1Read, Table1Write, InitDone, Row0Write, DirectCur, DirectWrite, AutoTable1Read,
     AutoTable1Write, AutoTable0Read, AutoTable0Write, AutoDone, histVars, Goto, Return
<1>6. RequestAt(c)
  BY <1>1 DEF RequestInv
<1>7. SUFFICES /\ pc'[c] # "idle" => RequestAt(c)'
               /\ pc'[c] = "idle" => \A g \in Fans : Kept(g)'
  <2>1. \A d \in Callers : pc'[d] = "idle" => RequestAt(d)'
    BY DEF RequestAt, RequestLabels, InitLabels, Checked, AutoLabels, OffLabels
  <2> QED
    BY <1>5, <1>7, <2>1 DEF RequestInv, AllIdle, Idle
<1>8. pc[c] \in InitLabels => \A g \in Fans : Kept(g) => asked[g] = 0
  BY <1>1 DEF PInv, ProgressInv, Kept
<1> USE DEF Goto, Return
<1>9. CASE SetRead(c)
  <2>1. PICK bit \in BOOLEAN : ReadBit(full, bit)
            /\ IF TableModeAllowed(bit) THEN Goto(c, "init_test") /\ UNCHANGED arg ELSE Return(c)
    BY <1>9 DEF SetRead
  <2>2. bit = full
    BY <1>1, <2>1, ExactAccess
  <2>3. pc[c] = "set_read" /\ UNCHANGED <<initialized, rowSpeed, ecFan, cur>>
    BY <1>9 DEF SetRead, ecVars, driverVars
  <2>4. CASE full
    <3>1. \A g \in Fans : Kept(g)'
      BY <1>5, <1>6, <2>3, <2>4 DEF RequestAt, RequestLabels, Accepted, Kept
    <3>2. pc'[c] = "idle"
      BY <1>4, <2>1, <2>2, <2>4 DEF TableModeAllowed
    <3> QED
      BY <3>1, <3>2
  <2>5. CASE ~full
    <3>1. pc'[c] = "init_test" /\ arg' = arg
      BY <1>4, <2>1, <2>2, <2>5 DEF TableModeAllowed
    <3>2. RequestAt(c)'
      BY <1>5, <1>6, <2>3, <2>5, <3>1
         DEF RequestAt, RequestLabels, Accepted, Kept, Checked, AutoLabels, OffLabels
    <3> QED
      BY <3>1, <3>2
  <2> QED
    BY <2>4, <2>5
<1>10. CASE \/ InitTest(c) \/ FullRead(c) \/ FullWrite(c) \/ Table0Read(c) \/ Table0Write(c)
            \/ Table1Read(c) \/ Table1Write(c)
  <2>1. UNCHANGED <<initialized, rowSpeed, ecFan, cur>>
    BY <1>10 DEF InitTest, FullRead, FullWrite, Table0Read, Table0Write, Table1Read, Table1Write,
       ecVars, driverVars
  <2>2. /\ pc[c] \in {"init_test"} \cup InitLabels /\ pc'[c] \in {"init_done"} \cup InitLabels
    BY <1>4, <1>10 DEF InitTest, FullRead, FullWrite, Table0Read, Table0Write,
       Table1Read, Table1Write, InitLabels
  <2>3. arg'[c].fan = arg[c].fan /\ arg'[c].speed = arg[c].speed
    <3>1. CASE InitTest(c) \/ FullWrite(c) \/ Table0Write(c) \/ Table1Write(c)
      BY <3>1 DEF InitTest, FullWrite, Table0Write, Table1Write
    <3>2. CASE FullRead(c) \/ Table0Read(c) \/ Table1Read(c)
      <4>1. \E bit \in BOOLEAN : arg' = [arg EXCEPT ![c].bit = bit] \/ arg' = [arg EXCEPT ![c].bit = bit, ![c].row = 0]
        BY <3>2 DEF FullRead, Table0Read, Table1Read
      <4> QED
        BY <1>4, <4>1 DEF Arguments
    <3> QED
      BY <1>10, <3>1, <3>2
  <2> QED
    BY <1>5, <1>6, <2>1, <2>2, <2>3
       DEF RequestAt, RequestLabels, Accepted, Kept, InitLabels, Checked, AutoLabels, OffLabels
<1>11. CASE RowWrite(c)
  <2>1. /\ pc[c] = "row_write" /\ pc'[c] \in {"row_write", "table1_read"}
        /\ UNCHANGED <<initialized, ecFan, cur>>
        /\ arg'[c].fan = arg[c].fan /\ arg'[c].speed = arg[c].speed
    BY <1>4, <1>11 DEF RowWrite, driverVars, Arguments
  <2>2. \A g \in Fans : Kept(g) => Kept(g)'
    BY <1>5, <1>8, <2>1 DEF InitLabels, Kept
  <2> QED
    BY <1>5, <1>6, <2>1, <2>2
       DEF RequestAt, RequestLabels, Accepted, InitLabels, Checked, AutoLabels, OffLabels
<1>12. CASE InitDone(c)
  <2>1. pc[c] = "init_done" /\ initialized' = TRUE /\ UNCHANGED <<rowSpeed, ecFan, cur>>
    BY <1>12 DEF InitDone, ecVars
  <2>2. \A g \in Fans : Kept(g) => Kept(g)'
    BY <1>5, <2>1 DEF Kept
  <2>3. CASE TooFast(arg[c].speed)
    <3>1. \A g \in Fans : Kept(g)
      BY <1>6, <2>1, <2>3 DEF RequestAt, RequestLabels, Accepted
    <3>2. pc'[c] = "idle"
      BY <1>4, <1>12, <2>3 DEF InitDone
    <3> QED
      BY <2>2, <3>1, <3>2
  <2>4. CASE ~TooFast(arg[c].speed)
    <3>1. /\ pc'[c] = "row0_write"
          /\ arg'[c].fan = arg[c].fan /\ arg'[c].speed = UwTableSpeed(arg[c].speed)
      BY <1>4, <1>12, <2>4 DEF InitDone, Arguments
    <3>2. RequestAt(c)'
      BY <1>5, <1>6, <2>1, <2>2, <2>4, <3>1
         DEF RequestAt, RequestLabels, Accepted, InitLabels, Checked, AutoLabels, OffLabels
    <3> QED
      BY <3>1, <3>2
  <2> QED
    BY <2>3, <2>4
<1>13. CASE Row0Write(c)
  <2>1. PICK took \in BOOLEAN : WriteOnce(took)
            /\ rowSpeed' = IF took THEN [rowSpeed EXCEPT ![TableOf(c)] = arg[c].speed] ELSE rowSpeed
    BY <1>13 DEF Row0Write
  <2>2. rowSpeed' = [rowSpeed EXCEPT ![arg[c].fan] = arg[c].speed]
    BY <1>1, <2>1, ExactAccess DEF TableOf
  <2>3. pc[c] = "row0_write" /\ pc'[c] = "direct_cur" /\ UNCHANGED <<initialized, ecFan, cur, arg>>
    BY <1>4, <1>13 DEF Row0Write, driverVars
  <2>4. rowSpeed'[arg[c].fan] = arg[c].speed /\ \A g \in Fans : g # arg[c].fan => rowSpeed'[g] = rowSpeed[g]
    BY <1>4, <2>2
  <2> QED
    BY <1>5, <1>6, <2>3, <2>4 DEF RequestAt, RequestLabels, InitLabels, Checked, AutoLabels, OffLabels, Kept
<1>14. CASE DirectCur(c)
  <2>1. pc[c] = "direct_cur" /\ pc'[c] = "direct_write" /\ UNCHANGED <<initialized, ecFan, rowSpeed, arg>>
    BY <1>4, <1>14 DEF DirectCur, ecVars
  <2>2. cur'[arg[c].fan] = arg[c].speed /\ \A g \in Fans : g # arg[c].fan => cur'[g] = cur[g]
    BY <1>4, <1>14 DEF DirectCur
  <2> QED
    BY <1>5, <1>6, <2>1, <2>2 DEF RequestAt, RequestLabels, InitLabels, Checked, AutoLabels, OffLabels, Kept
<1>15. CASE DirectWrite(c)
  <2>1. PICK took \in BOOLEAN : WriteOnce(took)
            /\ ecFan' = IF took THEN [ecFan EXCEPT ![arg[c].fan] = arg[c].speed] ELSE ecFan
    BY <1>15 DEF DirectWrite
  <2>2. ecFan' = [ecFan EXCEPT ![arg[c].fan] = arg[c].speed]
    BY <1>1, <2>1, ExactAccess
  <2>3. pc[c] = "direct_write" /\ pc'[c] = "idle" /\ UNCHANGED <<initialized, cur, rowSpeed>>
    BY <1>4, <1>15 DEF DirectWrite, driverVars
  <2>4. ecFan'[arg[c].fan] = arg[c].speed /\ \A g \in Fans : g # arg[c].fan => ecFan'[g] = ecFan[g]
    BY <1>4, <2>2
  <2> QED
    BY <1>5, <1>6, <2>3, <2>4 DEF RequestAt, Checked, Kept
<1>16. CASE AutoTable1Read(c) \/ AutoTable1Write(c) \/ AutoTable0Read(c) \/ AutoTable0Write(c)
  <2>1. pc[c] \in AutoLabels /\ pc'[c] \in AutoLabels
    BY <1>4, <1>16 DEF AutoTable1Read, AutoTable1Write, AutoTable0Read, AutoTable0Write, AutoLabels, OffLabels
  <2> QED
    BY <1>5, <1>6, <2>1 DEF RequestAt, RequestLabels, InitLabels, Checked, AutoLabels, OffLabels
<1>17. CASE AutoDone(c)
  <2>1. pc[c] \in AutoLabels /\ pc'[c] = "idle"
    BY <1>4, <1>17 DEF AutoDone, AutoLabels, OffLabels
  <2> QED
    BY <1>5, <1>6, <2>1 DEF RequestAt, Kept
<1> QED
  BY <1>9, <1>10, <1>11, <1>12, <1>13, <1>14, <1>15, <1>16, <1>17 DEF ThreadStep

\* Without failed reads no step of a call writes another full fan mode bit.
LEMMA FullStep ==
    ASSUME PInv, FullInv, [Next]_vars, OneProgram', readFaults' = 0
    PROVE  FullInv'
<1>1. OneProgram /\ readFaults = 0 /\ FaultsInv /\ CallersInv
  BY ExactPast DEF PInv
<1>2. pc \in [Callers -> Labels] /\ arg \in [Callers -> Arguments] /\ full \in BOOLEAN
  BY DEF PInv, SInv, TypeOK
<1>3. \A reg, bit : ReadBit(reg, bit) => bit = reg
  BY <1>1 DEF FaultsInv, ReadBit
<1>4. \A c \in Callers : /\ pc[c] \in {"init_test", "full_read", "full_write"} => ~full
                         /\ pc[c] = "full_write" => ~arg[c].bit
  BY <1>1 DEF FullInv
<1> USE DEF Goto, Return
<1>5. ASSUME NEW c \in Callers, CallStep(c) PROVE FullInv'
  <2>1. Call(c)
    BY <1>5 DEF CallStep, CallSet, CallAuto, CallMode
  <2>2. \A d \in Callers : pc[d] = "idle"
    BY <1>1, <2>1, CallAlone DEF AllIdle, Idle
  <2>3. \A d \in Callers : pc'[d] \in {"idle", "set_read", "auto_table1_read"}
    BY <1>2, <1>5, <2>2 DEF CallStep, CallSet, CallAuto, CallMode
  <2> QED
    BY <2>3 DEF FullInv
<1>6. ASSUME NEW c \in Callers, ThreadStep(c) PROVE FullInv'
  <2>1. pc[c] # "idle"
    BY <1>6 DEF ThreadStep, SetRead, InitTest, FullRead,
       FullWrite, Table0Read, Table0Write, RowWrite, Table1Read, Table1Write, InitDone, Row0Write,
       DirectCur, DirectWrite, AutoTable1Read, AutoTable1Write, AutoTable0Read, AutoTable0Write, AutoDone
  <2>2. \A d \in Callers : d # c => pc[d] = "idle"
    BY <1>1, <2>1, Alone DEF Idle
  <2>3. \A d \in Callers : d # c => pc'[d] = "idle"
    BY <1>2, <1>6, <2>2 DEF ThreadStep, SetRead, InitTest, FullRead, FullWrite, Table0Read, Table0Write,
       RowWrite, Table1Read, Table1Write, InitDone, Row0Write, DirectCur, DirectWrite, AutoTable1Read,
       AutoTable1Write, AutoTable0Read, AutoTable0Write, AutoDone
  <2>4. full' = full
    <3>1. CASE FullWrite(c)
      <4>1. ~arg[c].bit
        BY <1>4, <3>1 DEF FullWrite
      <4> QED
        BY <3>1, <4>1 DEF FullWrite
    <3>2. CASE ~FullWrite(c)
      BY <1>6, <3>2 DEF ThreadStep, SetRead, InitTest, FullRead, Table0Read, Table0Write, RowWrite,
         Table1Read, Table1Write, InitDone, Row0Write, DirectCur, DirectWrite, AutoTable1Read,
         AutoTable1Write, AutoTable0Read, AutoTable0Write, AutoDone, ecVars
    <3> QED
      BY <3>1, <3>2
  <2>5. /\ pc'[c] \in {"init_test", "full_read", "full_write"} => ~full
        /\ pc'[c] = "full_write" => ~arg'[c].bit
    <3>1. CASE SetRead(c)
      BY <1>2, <1>3, <3>1 DEF SetRead, TableModeAllowed
    <3>2. CASE InitTest(c)
      BY <1>2, <1>4, <3>2 DEF InitTest
    <3>3. CASE FullRead(c)
      BY <1>2, <1>3, <1>4, <3>3 DEF FullRead, Arguments
    <3>4. CASE ~SetRead(c) /\ ~InitTest(c) /\ ~FullRead(c)
      <4>1. pc'[c] \notin {"init_test", "full_read", "full_write"}
        BY <1>2, <1>6, <3>4 DEF ThreadStep, FullWrite, Table0Read, Table0Write, RowWrite,
           Table1Read, Table1Write, InitDone, Row0Write, DirectCur, DirectWrite, AutoTable1Read,
           AutoTable1Write, AutoTable0Read, AutoTable0Write, AutoDone
      <4> QED
        BY <4>1
    <3> QED
      BY <3>1, <3>2, <3>3, <3>4
  <2> QED
    BY <2>3, <2>4, <2>5 DEF FullInv
<1>7. CASE UNCHANGED vars
  BY <1>1, <1>7 DEF FullInv, vars, ecVars
<1> QED
  BY <1>5, <1>6, <1>7 DEF Next

\* The invariant of requests holds always.
LEMMA RequestAlways == Spec => []RInv
<1>1. Init => RInv
  <2> SUFFICES ASSUME Init PROVE RInv
    OBVIOUS
  <2>1. PInv
    BY SpeedInit DEF Init, PInv, CallersInv, Idle, FaultsInv, ProgressInv, InitLabels, DoneLabels, Checked
  <2>2. AskedInv
    BY DEF Init, AskedInv, Bytes
  <2>3. RequestInv
    BY DEF Init, RequestInv, Kept, RequestAt, RequestLabels, InitLabels, Checked, AutoLabels, OffLabels
  <2>4. FullInv
    BY DEF Init, FullInv
  <2> QED
    BY <2>1, <2>2, <2>3, <2>4 DEF RInv
<1>2. RInv /\ [Next]_vars => RInv'
  <2> SUFFICES ASSUME RInv, [Next]_vars PROVE RInv'
    OBVIOUS
  <2>1. PInv' /\ AskedInv'
    BY Progress, AskedStep DEF RInv
  <2>2. FullInv'
    <3>1. CASE OneProgram' /\ readFaults' = 0
      BY <3>1, FullStep DEF RInv
    <3>2. CASE ~(OneProgram' /\ readFaults' = 0)
      BY <3>2 DEF FullInv
    <3> QED
      BY <3>1, <3>2
  <2>3. RequestInv'
    <3>1. CASE ~Exact'
      BY <3>1 DEF RequestInv
    <3>2. ASSUME Exact', UNCHANGED vars PROVE RequestInv'
      <4>1. Exact
        BY <3>2, ExactPast DEF RInv, PInv
      <4>2. UNCHANGED <<full, pc, arg, asked, initialized, rowSpeed, ecFan, cur>>
        BY <3>2 DEF vars, ecVars, driverVars, histVars
      <4> QED
        BY <4>1, <4>2 DEF RInv, RequestInv, RequestAt, Accepted, Kept, AllIdle, Idle
    <3>3. ASSUME Exact', NEW c \in Callers, CallStep(c) \/ ThreadStep(c) PROVE RequestInv'
      BY <3>3, CallRequest, ThreadRequest DEF RInv
    <3> QED
      BY <3>1, <3>2, <3>3 DEF Next
  <2> QED
    BY <2>1, <2>2, <2>3 DEF RInv
<1> QED
  BY <1>1, <1>2, PTL DEF Spec

\* One program and no failure: between two calls the row of the table, the
\* direct register and the value the driver remembers are all the speed asked
\* for, on both fans, however often the tables were switched on and off.
THEOREM RequestsReachEc == Spec => []RequestReachesEc
<1>1. RInv => RequestReachesEc
  BY DEF RInv, RequestInv, RequestReachesEc, Exact, Kept
<1> QED
  BY <1>1, RequestAlways, PTL

\* One program and no failed read: setting a fan speed never ends the full fan
\* mode that the user of W_UW_MODE has switched on, although uw_init_fan
\* clears it.
THEOREM FullModeStaysTheUsers == Spec => FullModeIsTheUsers
<1>1. RInv /\ [Next]_vars
      => (OneProgram /\ readFaults = 0 /\ full /\ ~full' => \E c \in Callers : CallMode(c, FALSE))
  <2> SUFFICES ASSUME RInv, [Next]_vars, OneProgram, readFaults = 0, full, ~full'
               PROVE  \E c \in Callers : CallMode(c, FALSE)
    OBVIOUS
  <2>1. PICK c \in Callers : CallStep(c) \/ ThreadStep(c)
    BY DEF Next, vars, ecVars
  <2>2. CASE ThreadStep(c)
    <3>1. FullWrite(c)
      BY <2>2 DEF ThreadStep, SetRead, InitTest, FullRead, Table0Read, Table0Write, RowWrite,
         Table1Read, Table1Write, InitDone, Row0Write, DirectCur, DirectWrite, AutoTable1Read,
         AutoTable1Write, AutoTable0Read, AutoTable0Write, AutoDone, ecVars
    <3>2. ~full
      BY <3>1 DEF RInv, FullInv, FullWrite
    <3> QED
      BY <3>2
  <2>3. CASE CallStep(c)
    <3>1. \A f \in Fans, request \in Requests : CallSet(c, f, request) => full' = full
      BY DEF CallSet
    <3>2. CallAuto(c) => full' = full
      BY DEF CallAuto
    <3>3. PICK bit \in BOOLEAN : CallMode(c, bit)
      BY <2>3, <3>1, <3>2 DEF CallStep
    <3>4. full' = full \/ full' = bit
      BY <3>3 DEF CallMode
    <3> QED
      BY <3>3, <3>4
  <2> QED
    BY <2>1, <2>2, <2>3
<1> QED
  BY <1>1, RequestAlways, PTL DEF Spec, FullModeIsTheUsers
================================================================================
