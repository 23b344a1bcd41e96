------------------------ MODULE UniwillFanRestartProofs ------------------------
(***************************************************************************)
(* Proofs about UniwillFanRestart, for any number of threads in the        *)
(* ioctls, any speeds and any bounds.                                      *)
(***************************************************************************)
EXTENDS UniwillFanRestart, TLAPS

\* A group of variables that a step leaves alone keeps its types.
LEMMA Frame ==
    /\ EcTypes /\ UNCHANGED ecVars => EcTypes'
    /\ FanTypes /\ UNCHANGED fanVars => FanTypes'
    /\ WorkTypes /\ UNCHANGED workVars => WorkTypes'
    /\ ThreadTypes /\ UNCHANGED threadVars => ThreadTypes'
    /\ SysTypes /\ UNCHANGED sysVars => SysTypes'
    /\ HistTypes /\ UNCHANGED histVars => HistTypes'
    /\ CountTypes /\ UNCHANGED countVars => CountTypes'
<1>1. EcTypes /\ UNCHANGED ecVars => EcTypes'
  BY DEF EcTypes, ecVars
<1>2. FanTypes /\ UNCHANGED fanVars => FanTypes'
  BY DEF FanTypes, fanVars
<1>3. WorkTypes /\ UNCHANGED workVars => WorkTypes'
  BY DEF WorkTypes, workVars
<1>4. ThreadTypes /\ UNCHANGED threadVars => ThreadTypes'
  BY DEF ThreadTypes, threadVars
<1>5. SysTypes /\ UNCHANGED sysVars => SysTypes'
  BY DEF SysTypes, sysVars
<1>6. HistTypes /\ UNCHANGED histVars => HistTypes'
  BY DEF HistTypes, histVars
<1>7. CountTypes /\ UNCHANGED countVars => CountTypes'
  BY DEF CountTypes, countVars
<1> QED
  BY <1>1, <1>2, <1>3, <1>4, <1>5, <1>6, <1>7

\* Reading 0x0751 changes at most the count of the faults.
LEMMA ReadTypes ==
    ASSUME CountTypes, NEW v \in Modes, ReadMode(v), UNCHANGED <<calls, suspends, rebinds>>
    PROVE  CountTypes'
BY BoundAssumption DEF ReadMode, CountTypes

LEMMA WriteModeTypes ==
    ASSUME CountTypes, EcTypes, NEW v \in Modes, WriteMode(v),
           UNCHANGED <<ecFan, calls, suspends, rebinds>>
    PROVE  EcTypes' /\ CountTypes'
BY BoundAssumption DEF WriteMode, CountTypes, EcTypes

LEMMA WriteFanTypes ==
    ASSUME CountTypes, EcTypes, NEW f \in Fans, NEW v \in Speeds, WriteFan(f, v),
           UNCHANGED <<ecMode, calls, suspends, rebinds>>
    PROVE  EcTypes' /\ CountTypes'
BY BoundAssumption DEF WriteFan, CountTypes, EcTypes

\* A thread moves on, or its call ends.
LEMMA GotoTypes ==
    ASSUME ThreadTypes, NEW t \in Threads, NEW l \in Labels, Goto(t, l), UNCHANGED arg
    PROVE  ThreadTypes'
BY DEF Goto, ThreadTypes

LEMMA FinishTypes ==
    ASSUME ThreadTypes, NEW t \in Threads, Finish(t)
    PROVE  ThreadTypes'
<1>1. NoArg \in Arguments
  BY DataAssumption DEF NoArg, Arguments, Modes, Fans
<1>2. "idle" \in Labels
  BY DEF Labels
<1> QED
  BY <1>1, <1>2 DEF Finish, Goto, ThreadTypes

LEMMA ReturnTypes ==
    ASSUME ThreadTypes, FanTypes, SysTypes, NEW t \in Threads, Return(t), UNCHANGED bound
    PROVE  ThreadTypes' /\ SysTypes'
<1>1. CASE Finish(t)
  BY <1>1, FinishTypes DEF Return, SysTypes
<1>2. CASE ~Finish(t)
  <2>1. /\ Goto(t, "set_cur") /\ UNCHANGED power
        /\ arg' = [arg EXCEPT ![t].fan = 1, ![t].speed = save[1]]
    BY <1>2 DEF Return
  <2>2. save[1] \in Speeds /\ 1 \in Fans
    BY DEF FanTypes, Fans
  <2>3. arg' \in [Threads -> Arguments]
    BY <2>1, <2>2 DEF ThreadTypes, Arguments
  <2>4. pc' \in [Threads -> Labels]
    BY <2>1 DEF Goto, ThreadTypes, Labels
  <2> QED
    BY <2>1, <2>3, <2>4 DEF ThreadTypes, SysTypes
<1> QED
  BY <1>1, <1>2

LEMMA ArgTypes ==
    ASSUME ThreadTypes, NEW t \in Threads
    PROVE  /\ arg[t].fan \in Fans /\ arg[t].speed \in Speeds
           /\ arg[t].mode \in Modes /\ arg[t].prof \in Profiles \cup {Garbled}
           /\ arg[t] \in Arguments
BY DEF ThreadTypes, Arguments

\* One step of any thread, of the kworker or of the kernel keeps the types.
LEMMA CallTypes ==
    ASSUME TypeOK, NEW c \in Callers, CallStep(c)
    PROVE  TypeOK'
<1> USE DEF TypeOK
<1> c \in Threads
  BY DEF Threads
<1>1. ASSUME NEW kind \in CallKinds, Call(c, kind)
      PROVE  EcTypes' /\ FanTypes' /\ WorkTypes' /\ SysTypes' /\ CountTypes'
             /\ used' \subseteq Callers \X CallKinds
  <2>1. CountTypes' /\ used' \subseteq Callers \X CallKinds
    BY <1>1, BoundAssumption DEF Call, CountTypes, HistTypes
  <2> QED
    BY <1>1, <2>1, Frame DEF Call
<1>2. ASSUME NEW f \in Fans, NEW s \in Speeds, CallSet(c, f, s) PROVE TypeOK'
  <2>1. EcTypes' /\ FanTypes' /\ WorkTypes' /\ SysTypes' /\ CountTypes'
        /\ used' \subseteq Callers \X CallKinds
    BY <1>1, <1>2 DEF CallSet, CallKinds
  <2>2. ThreadTypes'
    BY <1>2, ArgTypes DEF CallSet, Goto, ThreadTypes, Labels, Arguments
  <2>3. HistTypes'
    BY <1>2, <2>1 DEF CallSet, HistTypes
  <2> QED
    BY <2>1, <2>2, <2>3
<1>3. ASSUME CallAuto(c) PROVE TypeOK'
  <2>1. EcTypes' /\ FanTypes' /\ WorkTypes' /\ SysTypes' /\ CountTypes'
        /\ used' \subseteq Callers \X CallKinds
    BY <1>1, <1>3 DEF CallAuto, CallKinds
  <2>2. ThreadTypes'
    BY <1>3, GotoTypes DEF CallAuto, Labels
  <2>3. HistTypes'
    BY <1>3, <2>1, DataAssumption DEF CallAuto, HistTypes
  <2> QED
    BY <2>1, <2>2, <2>3
<1>4. ASSUME NEW p \in Profiles, CallProfile(c, p) PROVE TypeOK'
  <2>1. EcTypes' /\ FanTypes' /\ WorkTypes' /\ SysTypes' /\ CountTypes'
        /\ used' \subseteq Callers \X CallKinds
    BY <1>1, <1>4 DEF CallProfile, CallKinds
  <2>2. ThreadTypes'
    BY <1>4, ArgTypes DEF CallProfile, Goto, ThreadTypes, Labels, Arguments
  <2>3. HistTypes'
    BY <1>4, <2>1 DEF CallProfile, HistTypes
  <2> QED
    BY <2>1, <2>2, <2>3
<1>5. ASSUME NEW full \in BOOLEAN, NEW p \in Profiles, CallMode(c, [full |-> full, prof |-> p])
      PROVE  TypeOK'
  <2> DEFINE m == [full |-> full, prof |-> p]
  <2>1. EcTypes' /\ FanTypes' /\ WorkTypes' /\ SysTypes' /\ CountTypes'
        /\ used' \subseteq Callers \X CallKinds
    BY <1>1, <1>5 DEF CallMode, CallKinds
  <2>2. m \in Modes /\ m.prof \in Profiles
    BY DEF Modes
  <2> HIDE DEF m
  <2>3. ThreadTypes'
    BY <1>5, <2>2, ArgTypes DEF m, CallMode, Goto, ThreadTypes, Labels, Arguments
  <2>4. HistTypes'
    BY <1>5, <2>1, <2>2 DEF m, CallMode, HistTypes
  <2> QED
    BY <2>1, <2>3, <2>4
<1> QED
  BY <1>2, <1>3, <1>4, <1>5 DEF CallStep

LEMMA ThreadStepTypes ==
    ASSUME TypeOK, NEW t \in Threads, ThreadStep(t)
    PROVE  TypeOK'
<1> USE DEF TypeOK
<1>1. CASE SetCur(t)
  <2>1. FanTypes'
    BY <1>1, ArgTypes DEF SetCur, FanTypes
  <2> QED
    BY <1>1, <2>1, Frame, GotoTypes DEF SetCur, Labels
<1>2. CASE SetTest(t)
  BY <1>2, Frame, GotoTypes DEF SetTest, Labels
<1>3. CASE SetStart(t)
  <2>1. FanTypes'
    BY <1>3 DEF SetStart, FanTypes
  <2> QED
    BY <1>3, <2>1, Frame, GotoTypes DEF SetStart, Labels
<1>4. CASE SetQueue(t)
  <2>1. WorkTypes'
    BY <1>4 DEF SetQueue, schedule_delayed_work, WorkTypes
  <2> QED
    BY <1>4, <2>1, Frame, ReturnTypes DEF SetQueue
<1>5. CASE SetWrite(t)
  BY <1>5, ArgTypes, WriteFanTypes, Frame, ReturnTypes DEF SetWrite
<1>6. CASE AutoCancel(t)
  <2>1. WorkTypes'
    BY <1>6 DEF AutoCancel, WorkTypes
  <2> QED
    BY <1>6, <2>1, Frame, GotoTypes DEF AutoCancel, Labels
<1>7. CASE AutoWait(t)
  BY <1>7, Frame, GotoTypes DEF AutoWait, Labels
<1>8. CASE AutoClear(t)
  <2>1. FanTypes'
    BY <1>8 DEF AutoClear, FanTypes
  <2> QED
    BY <1>8, <2>1, Frame, GotoTypes DEF AutoClear, Labels
<1>9. CASE AutoRead(t)
  <2>1. PICK v \in Modes : ReadMode(v) /\ arg' = [arg EXCEPT ![t].mode = v]
    BY <1>9 DEF AutoRead
  <2>2. ThreadTypes'
    BY <1>9, <2>1, ArgTypes DEF AutoRead, Goto, ThreadTypes, Labels, Arguments
  <2> QED
    BY <1>9, <2>1, <2>2, ReadTypes, Frame DEF AutoRead
<1>10. CASE AutoWrite(t)
  <2>1. [arg[t].mode EXCEPT !.full = FALSE] \in Modes
    BY ArgTypes DEF Modes
  <2> QED
    BY <1>10, <2>1, WriteModeTypes, Frame, GotoTypes DEF AutoWrite, Labels
<1>11. CASE AutoZero(t)
  <2>1. FanTypes'
    BY <1>11, DataAssumption DEF AutoZero, FanTypes
  <2> QED
    BY <1>11, <2>1, Frame, ReturnTypes DEF AutoZero
<1>12. CASE ProfileRead(t)
  <2>1. PICK v \in Modes : ReadMode(v) /\ arg' = [arg EXCEPT ![t].mode = v]
    BY <1>12 DEF ProfileRead
  <2>2. ThreadTypes'
    BY <1>12, <2>1, ArgTypes DEF ProfileRead, Goto, ThreadTypes, Labels, Arguments
  <2> QED
    BY <1>12, <2>1, <2>2, ReadTypes, Frame DEF ProfileRead
<1>13. CASE ProfileWrite(t)
  <2>1. [arg[t].mode EXCEPT !.prof = arg[t].prof] \in Modes
    BY ArgTypes DEF Modes
  <2> QED
    BY <1>13, <2>1, WriteModeTypes, Frame, FinishTypes DEF ProfileWrite
<1>14. CASE ModeWrite(t)
  BY <1>14, ArgTypes, WriteModeTypes, Frame, FinishTypes DEF ModeWrite
<1> QED
  BY <1>1, <1>2, <1>3, <1>4, <1>5, <1>6, <1>7, <1>8, <1>9, <1>10, <1>11, <1>12, <1>13, <1>14
     DEF ThreadStep

LEMMA WorkStepTypes ==
    ASSUME TypeOK, WorkStep
    PROVE  TypeOK'
<1> USE BoundAssumption, DataAssumption DEF TypeOK
<1>1. CASE WorkStart
  <2>1. WorkTypes'
    BY <1>1 DEF WorkStart, WorkTypes, WorkLabels
  <2> QED
    BY <1>1, <2>1, Frame DEF WorkStart
<1>2. ASSUME NEW from, NEW to \in {"off_write", "on_write"}, WorkRead(from, to) PROVE TypeOK'
  <2>1. PICK v \in Modes : ReadMode(v) /\ wmode' = v
    BY <1>2 DEF WorkRead
  <2>2. WorkTypes'
    BY <1>2, <2>1 DEF WorkRead, WorkTypes, WorkLabels
  <2> QED
    BY <1>2, <2>1, <2>2, ReadTypes, Frame DEF WorkRead
<1>3. CASE WorkOff
  <2>1. WorkTypes' /\ set_full_fan_mode(FALSE, wmode) \in Modes
    BY <1>3 DEF WorkOff, WorkTypes, WorkLabels, set_full_fan_mode, Modes
  <2>2. EcTypes' /\ CountTypes'
    <3>1. CASE wmode.full
      BY <1>3, <2>1, <3>1, WriteModeTypes DEF WorkOff
    <3>2. CASE ~wmode.full
      BY <1>3, <3>2, Frame DEF WorkOff, ecVars, countVars
    <3> QED
      BY <3>1, <3>2
  <2> QED
    BY <1>3, <2>1, <2>2, Frame DEF WorkOff
<1>4. CASE WorkOn
  <2>1. WorkTypes'
    BY <1>4 DEF WorkOn, WorkTypes, WorkLabels, Fans
  <2>2. set_full_fan_mode(TRUE, wmode) \in Modes
    BY DEF set_full_fan_mode, WorkTypes, Modes
  <2> QED
    BY <1>4, <2>1, <2>2, WriteModeTypes, Frame DEF WorkOn
<1>5. CASE WorkLoad
  <2>1. WorkTypes'
    BY <1>5 DEF WorkLoad, SpeedToWrite, WorkTypes, WorkLabels, FanTypes
  <2> QED
    BY <1>5, <2>1, Frame DEF WorkLoad
<1>6. CASE WorkStore
  <2>1. wround + wfan \in 0..RampWrites
    BY <1>6 DEF WorkStore, WorkTypes, Fans
  <2>2. WorkTypes'
    BY <1>6, <2>1 DEF WorkStore, NextRound, MoreRounds, WorkTypes, WorkLabels, Fans
  <2> QED
    BY <1>6, <2>2, WriteFanTypes, Frame DEF WorkStore, WorkTypes
<1>7. CASE WorkRequeue
  <2>1. NoArg.mode \in Modes
    BY DEF NoArg, Modes
  <2>2. WorkTypes'
    BY <1>7, <2>1 DEF WorkRequeue, Requeue, schedule_delayed_work, WorkTypes, WorkLabels, Fans
  <2> QED
    BY <1>7, <2>2, Frame DEF WorkRequeue
<1> QED
  BY <1>1, <1>2, <1>3, <1>4, <1>5, <1>6, <1>7 DEF WorkStep

LEMMA KernelStepTypes ==
    ASSUME TypeOK, CoreStep \/ SystemStep
    PROVE  TypeOK'
<1> USE BoundAssumption, DataAssumption DEF TypeOK
<1> Pm \in Threads /\ Core \in Threads
  BY DEF Threads
<1>1. CASE RemoveWait
  BY <1>1, Frame, GotoTypes DEF RemoveWait, Labels
<1>2. CASE RemoveUnset
  <2>1. SysTypes'
    BY <1>2 DEF RemoveUnset, SysTypes
  <2> QED
    BY <1>2, <2>1, Frame, GotoTypes DEF RemoveUnset, Labels
<1>3. CASE ProbeWrite
  <2>1. [full |-> FALSE, prof |-> Balanced] \in Modes
    BY DEF Modes
  <2> QED
    BY <1>3, <2>1, WriteModeTypes, Frame, GotoTypes DEF ProbeWrite, Labels
<1>4. CASE Suspend
  <2>1. CountTypes'
    BY <1>4 DEF Suspend, CountTypes
  <2>2. FanTypes' /\ SysTypes'
    BY <1>4 DEF Suspend, SpeedsToSave, FanTypes, SysTypes
  <2>3. ThreadTypes'
    BY <1>4, GotoTypes DEF Suspend, Labels, ThreadTypes
  <2> QED
    BY <1>4, <2>1, <2>2, <2>3, Frame DEF Suspend
<1>5. CASE Resume
  <2>1. FanTypes' /\ SysTypes'
    BY <1>5 DEF Resume, FanTypes, SysTypes
  <2>2. ThreadTypes'
    <3>1. CASE susp
      <4>1. save[0] \in Speeds /\ 0 \in Fans
        BY DEF FanTypes, Fans
      <4> QED
        BY <1>5, <3>1, <4>1, ArgTypes DEF Resume, Goto, ThreadTypes, Labels, Arguments
    <3>2. CASE ~susp
      BY <1>5, <3>2 DEF Resume, ThreadTypes
    <3> QED
      BY <3>1, <3>2
  <2> QED
    BY <1>5, <2>1, <2>2, Frame DEF Resume
<1>6. CASE Remove
  <2>1. WorkTypes' /\ SysTypes' /\ CountTypes'
    BY <1>6 DEF Remove, WorkTypes, SysTypes, CountTypes
  <2> QED
    BY <1>6, <2>1, Frame, GotoTypes DEF Remove, Labels
<1>7. CASE Bind
  <2>1. SysTypes'
    BY <1>7 DEF Bind, SysTypes
  <2> QED
    BY <1>7, <2>1, Frame, GotoTypes DEF Bind, Labels
<1> QED
  BY <1>1, <1>2, <1>3, <1>4, <1>5, <1>6, <1>7 DEF CoreStep, SystemStep

LEMMA TypeStep == TypeOK /\ [Next]_vars => TypeOK'
<1>1. TypeOK /\ UNCHANGED vars => TypeOK'
  BY Frame DEF TypeOK, vars, workVars, fanVars, ecVars, threadVars, sysVars, histVars, countVars
<1> QED
  BY <1>1, CallTypes, ThreadStepTypes, WorkStepTypes, KernelStepTypes DEF Next

LEMMA TypeInit == Init => TypeOK
<1> SUFFICES ASSUME Init PROVE TypeOK
  OBVIOUS
<1> USE DataAssumption, BoundAssumption DEF Init
<1>1. NoArg \in Arguments /\ NoArg.mode \in Modes
  BY DEF NoArg, Arguments, Modes, Fans
<1>2. EcTypes /\ FanTypes
  BY DEF EcTypes, FanTypes, Modes
<1>3. WorkTypes
  BY <1>1 DEF WorkTypes, WorkLabels, Fans
<1>4. ThreadTypes /\ SysTypes
  BY <1>1 DEF ThreadTypes, SysTypes, Labels
<1>5. HistTypes
  BY DEF HistTypes
<1>6. CountTypes
  BY DEF CountTypes
<1> QED
  BY <1>2, <1>3, <1>4, <1>5, <1>6 DEF TypeOK

\* The variables keep their types; the handler's loop ends after RampWrites
\* rounds, whatever the EC does.
THEOREM TypeCorrect == Spec => []TypeOK
BY TypeInit, TypeStep, PTL DEF Spec

-----------------------------------------------------------------------------
\* Only the driver core is in the steps of remove and probe, and it has been
\* there only after a rebind began; it makes no fan call.
CoreInv ==
    /\ \A t \in Threads : pc[t] = "remove_wait" => rebinds # 0
    /\ pc[Core] \in {"idle", "remove_wait", "remove_unset", "probe_write"}

\* The suspend and resume callbacks are idle while the system is awake or asleep.
PmInv == power \in {"awake", "asleep"} => Idle(Pm)

Holders == {"set_queue", "auto_wait", "auto_clear"}

SInv == TypeOK /\ CoreInv /\ PmInv /\ Supervised

\* A thread that returns while no work is queued was not one of the holders,
\* or has just left its own label.
LEMMA CallSupervised ==
    ASSUME SInv, NEW c \in Callers, CallStep(c)
    PROVE  CoreInv' /\ PmInv' /\ Supervised'
<1>1. c \in Threads /\ c # Core /\ c # Pm /\ Core \in Threads /\ Pm \in Threads
  BY ThreadAssumption DEF Threads
<1>2. PICK kind \in CallKinds : Call(c, kind)
  BY DEF CallStep, CallSet, CallAuto, CallProfile, CallMode, CallKinds
<1>3. PICK l \in {"set_cur", "auto_cancel", "profile_read", "mode_write"} : Goto(c, l)
  BY DEF CallStep, CallSet, CallAuto, CallProfile, CallMode
<1>4. pc[c] = "idle" /\ pc \in [Threads -> Labels]
      /\ UNCHANGED <<fanVars, workVars, sysVars, rebinds>>
  BY <1>2 DEF Call, Idle, SInv, TypeOK, ThreadTypes
<1>5. \A t \in Threads : t # c => pc'[t] = pc[t]
  BY <1>3, <1>4 DEF Goto
<1>6. pc'[c] \in {"set_cur", "auto_cancel", "profile_read", "mode_write"}
  BY <1>1, <1>3, <1>4 DEF Goto
<1>7. CoreInv' /\ PmInv'
  BY <1>1, <1>4, <1>5, <1>6 DEF SInv, CoreInv, PmInv, Idle, sysVars
<1>8. Supervised'
  BY <1>1, <1>4, <1>5, <1>6 DEF SInv, Supervised, fanVars, workVars
<1> QED
  BY <1>7, <1>8

LEMMA ThreadSupervised ==
    ASSUME SInv, NEW t \in Threads, ThreadStep(t)
    PROVE  CoreInv' /\ PmInv' /\ Supervised'
<1> USE DEF Return, Finish, Goto, Idle
<1>1. Core \in Threads /\ Pm \in Threads /\ Core # Pm /\ pc \in [Threads -> Labels]
  BY ThreadAssumption DEF Threads, SInv, TypeOK, ThreadTypes
<1>2. UNCHANGED rebinds /\ t # Core
  BY DEF ThreadStep, SetCur, SetTest, SetStart, SetQueue, SetWrite, AutoCancel, AutoWait, AutoClear,
     AutoRead, AutoWrite, AutoZero, ProfileRead, ProfileWrite, ModeWrite, countVars, SInv, CoreInv
<1>3. \A u \in Threads : u # t => pc'[u] = pc[u]
  BY <1>1 DEF ThreadStep, SetCur, SetTest, SetStart, SetQueue, SetWrite, AutoCancel, AutoWait, AutoClear,
     AutoRead, AutoWrite, AutoZero, ProfileRead, ProfileWrite, ModeWrite
<1>4. pc'[t] # "remove_wait" /\ pc[t] # "idle" /\ pc[t] # "remove_wait"
  BY <1>1 DEF ThreadStep, SetCur, SetTest, SetStart, SetQueue, SetWrite, AutoCancel, AutoWait, AutoClear,
     AutoRead, AutoWrite, AutoZero, ProfileRead, ProfileWrite, ModeWrite
<1>5. CoreInv'
  BY <1>1, <1>2, <1>3, <1>4 DEF SInv, CoreInv
<1>6. PmInv'
  <2>1. UNCHANGED power \/ (t = Pm /\ Finish(t) /\ power' \in {"asleep", "awake"})
    BY DEF ThreadStep, SetCur, SetTest, SetStart, SetQueue, SetWrite, AutoCancel, AutoWait, AutoClear,
       AutoRead, AutoWrite, AutoZero, ProfileRead, ProfileWrite, ModeWrite, sysVars
  <2> QED
    BY <1>1, <1>3, <1>4, <2>1 DEF SInv, PmInv
<1>7. Supervised'
  <2>1. CASE SetStart(t)
    BY <1>1, <2>1 DEF SetStart, Supervised
  <2>2. CASE SetQueue(t)
    <3>1. CASE Cancelling
      <4>1. PICK u \in Threads : pc[u] \in {"auto_wait", "remove_wait"}
        BY <3>1 DEF Cancelling
      <4>2. u # t
        BY <2>2, <4>1 DEF SetQueue
      <4>3. rebinds = 0 => pc'[u] = "auto_wait"
        BY <1>3, <4>1, <4>2 DEF SInv, CoreInv
      <4> QED
        BY <1>2, <4>3 DEF Supervised
    <3>2. CASE ~Cancelling
      <4>1. pending' # "no"
        BY <2>2, <3>2 DEF SetQueue, schedule_delayed_work
      <4> QED
        BY <4>1 DEF Supervised
    <3> QED
      BY <3>1, <3>2
  <2>3. CASE AutoCancel(t)
    BY <1>1, <2>3 DEF AutoCancel, Supervised
  <2>4. CASE AutoWait(t)
    BY <1>1, <2>4 DEF AutoWait, Supervised
  <2>5. CASE AutoClear(t)
    BY <2>5 DEF AutoClear, Supervised
  <2>6. CASE ~SetStart(t) /\ ~SetQueue(t) /\ ~AutoCancel(t) /\ ~AutoWait(t) /\ ~AutoClear(t)
    <3>1. UNCHANGED workVars /\ UNCHANGED started /\ pc[t] \notin Holders
      BY <2>6 DEF ThreadStep, SetCur, SetTest, SetWrite, AutoRead, AutoWrite, AutoZero,
         ProfileRead, ProfileWrite, ModeWrite, fanVars, Holders
    <3> QED
      BY <1>2, <1>3, <3>1 DEF SInv, Supervised, workVars, Holders
  <2> QED
    BY <2>1, <2>2, <2>3, <2>4, <2>5, <2>6
<1> QED
  BY <1>5, <1>6, <1>7

LEMMA WorkSupervised ==
    ASSUME SInv, WorkStep
    PROVE  CoreInv' /\ PmInv' /\ Supervised'
<1>1. UNCHANGED <<threadVars, sysVars, fanVars, rebinds>>
  BY DEF WorkStep, WorkStart, WorkRead, WorkOff, WorkOn, WorkLoad, WorkStore, WorkRequeue, countVars
<1>2. CoreInv' /\ PmInv'
  BY <1>1 DEF SInv, CoreInv, PmInv, Idle, threadVars, sysVars
<1>3. ASSUME WorkRequeue, Cancelling PROVE Supervised'
  <2>1. rebinds = 0 => \E t \in Threads : pc[t] = "auto_wait"
    BY <1>3 DEF Cancelling, SInv, CoreInv
  <2> QED
    BY <1>1, <2>1 DEF Supervised, threadVars
<1>4. ASSUME WorkRequeue, ~Cancelling PROVE Supervised'
  <2>1. pending' # "no"
    BY <1>4 DEF WorkRequeue, Requeue, schedule_delayed_work, SInv, TypeOK, WorkTypes
  <2> QED
    BY <2>1 DEF Supervised
<1>5. ASSUME ~WorkRequeue PROVE Supervised'
  <2>1. wpc' # "idle"
    BY <1>5 DEF WorkStep, WorkStart, WorkRead, WorkOff, WorkOn, WorkLoad, WorkStore
  <2> QED
    BY <2>1 DEF Supervised
<1> QED
  BY <1>2, <1>3, <1>4, <1>5

LEMMA KernelSupervised ==
    ASSUME SInv, CoreStep \/ SystemStep
    PROVE  CoreInv' /\ PmInv' /\ Supervised'
<1> USE BoundAssumption DEF Goto, Idle
<1>1. Core \in Threads /\ Pm \in Threads /\ Core # Pm /\ pc \in [Threads -> Labels] /\ rebinds \in Nat
  BY ThreadAssumption DEF Threads, SInv, TypeOK, ThreadTypes, CountTypes
<1>2. CASE RemoveWait \/ RemoveUnset \/ ProbeWrite
  BY <1>1, <1>2 DEF RemoveWait, RemoveUnset, ProbeWrite, SInv, CoreInv, PmInv, Supervised,
     fanVars, workVars, sysVars, countVars
<1>3. CASE Suspend
  BY <1>1, <1>3 DEF Suspend, SInv, CoreInv, PmInv, Supervised, workVars
<1>4. CASE Resume
  BY <1>1, <1>4 DEF Resume, SInv, CoreInv, PmInv, Supervised, workVars, countVars
<1>5. CASE Remove
  <2>1. rebinds' # 0
    BY <1>1, <1>5 DEF Remove
  <2> QED
    BY <1>1, <1>5, <2>1 DEF Remove, SInv, CoreInv, PmInv, Supervised
<1>6. CASE Bind
  BY <1>1, <1>6 DEF Bind, SInv, CoreInv, PmInv, Supervised, fanVars, workVars, countVars
<1> QED
  BY <1>2, <1>3, <1>4, <1>5, <1>6 DEF CoreStep, SystemStep

\* The types and the supervision are kept by every step.
LEMMA SupervisedStep == SInv /\ [Next]_vars => SInv'
<1>1. SInv /\ UNCHANGED vars => CoreInv' /\ PmInv' /\ Supervised'
  BY DEF SInv, CoreInv, PmInv, Supervised, Idle, vars, workVars, fanVars, threadVars, sysVars, countVars
<1> QED
  BY <1>1, TypeStep, CallSupervised, ThreadSupervised, WorkSupervised, KernelSupervised DEF SInv, Next

\* However many threads set fan speeds and give the fans back at once, and
\* whatever the EC answers: as long as the driver has not been removed, the
\* flag direct_fan_control_started never outlives the work that keeps the EC
\* from ramping the fans up.
THEOREM AlwaysSupervised == Spec => []Supervised
<1>1. Init => SInv
  <2>1. Init => CoreInv /\ PmInv /\ Supervised
    BY DEF Init, CoreInv, PmInv, Supervised, Idle, Threads
  <2>2. Init => TypeOK
    BY TypeInit
  <2> QED
    BY <2>1, <2>2 DEF SInv
<1>2. SInv /\ [Next]_vars => SInv'
  BY SupervisedStep
<1>3. SInv => Supervised
  BY DEF SInv
<1> QED
  BY <1>1, <1>2, <1>3, PTL DEF Spec

-----------------------------------------------------------------------------
(***************************************************************************)
(* One control program.  Two calls of the same program follow each other,  *)
(* suspend and resume come when it is frozen, so at most one thread is in  *)
(* the driver at a time; only the restart handler runs beside it.  Each    *)
(* label of that thread, and each label of the handler, fixes how the EC,  *)
(* the flag, the work and the speeds relate to what was asked for.         *)
(***************************************************************************)
SetLabels  == {"set_cur", "set_test", "set_start", "set_queue", "set_write"}
AutoLabels == {"auto_cancel", "auto_wait", "auto_clear", "auto_read", "auto_write", "auto_zero"}
Zero       == [f \in Fans |-> 0]

\* Who may be in the driver, and in which calls.
WhoInv ==
    /\ \A c \in Callers : pc[c] # "idle" => \E k \in CallKinds : <<c, k>> \in used
    /\ \A c \in Callers : \/ pc[c] \in SetLabels \cup AutoLabels \cup {"idle"}
                          \/ <<c, "profile">> \in used \/ <<c, "mode">> \in used
    /\ power # "awake" => \A t \in Threads \ {Pm} : Idle(t)
    /\ power = "suspending" => pc[Pm] \in AutoLabels
    /\ power = "resuming" => pc[Pm] \in SetLabels
    /\ rebinds = 0 => bound = "bound" /\ Idle(Core)

\* A thread in uw_set_fan; resume has not written fan 1 while it writes fan 0.
SetInv(t) ==
    /\ manual /\ asked[arg[t].fan] = arg[t].speed
    /\ pc[t] # "set_cur" => cur[arg[t].fan] = arg[t].speed
    /\ \A f \in Fans \ {arg[t].fan} : cur[f] = asked[f] \/ (power = "resuming" /\ f = 1)
    /\ pc[t] \in {"set_queue", "set_write"} => started
    /\ pc[t] = "set_start" => ~started

\* A thread in uw_set_fan_auto, called by the program or by suspend.
AutoInv(t) ==
    /\ \/ power = "awake" /\ ~manual
       \/ power = "suspending" /\ manual /\ susp /\ save = asked
    /\ pc[t] \in {"auto_read", "auto_write", "auto_zero"} => ~started

\* The request survives in cur, in save while the system sleeps, and in the
\* argument of the thread that is about to store it.
RequestInv ==
    /\ ~manual => asked = Zero
    /\ power = "awake" => ~susp
    /\ power = "awake" /\ AllIdle => (started <=> manual) /\ cur = asked
    /\ power = "asleep" => ~started /\ cur = Zero /\ (susp <=> manual) /\ (susp => save = asked)
    /\ power = "resuming" => ~susp /\ save = asked
    /\ \A t \in Threads : pc[t] \in SetLabels => SetInv(t)
    /\ \A t \in Threads : pc[t] \in AutoLabels => AutoInv(t)

\* Neither a queued nor a running restart outlives the flag.
RestartInv ==
    /\ pending # "no" => started /\ wpc = "idle"
    /\ wpc # "idle" => started
    /\ \A t \in Threads : pc[t] \in {"set_queue", "auto_wait", "auto_clear"} => pending = "no"
    /\ \A t \in Threads : pc[t] \in {"set_queue", "auto_clear"} => wpc = "idle"

\* The full fan mode bit, label by label of the handler.
FullBitInv ==
    /\ wpc = "off_write" => wmode.full = ecMode.full
    /\ wpc \in {"on_read", "on_write"} => ~ecMode.full
    /\ wpc = "on_write" => ~wmode.full
    /\ wpc \in {"load", "store", "requeue"} => ecMode.full
    /\ pending = "later" => ecMode.full
    /\ ~started => ~ecMode.full \/ \E t \in Threads : pc[t] \in {"auto_read", "auto_write"}

OneProgramInv == OneControlProgram => RequestInv /\ RestartInv /\ (faults = 0 => FullBitInv)

OneInv == SInv /\ WhoInv /\ OneProgramInv

\* While one program drives the fans, a thread in the driver is alone there.
LEMMA AloneInDriver ==
    ASSUME SInv, WhoInv, OneControlProgram, NEW t \in Threads, pc[t] # "idle"
    PROVE  /\ \A u \in Threads : u # t => pc[u] = "idle"
           /\ pc[t] \in SetLabels \cup AutoLabels
           /\ t # Core /\ bound = "bound"
           /\ t = Pm <=> power \in {"suspending", "resuming"}
           /\ power # "asleep"
<1>1. Threads = Callers \cup {Pm, Core} /\ rebinds = 0 /\ pc[Core] = "idle" /\ bound = "bound"
  BY DEF Threads, OneControlProgram, WhoInv, Idle
<1>2. power \in {"awake", "asleep", "suspending", "resuming"}
  BY DEF SInv, TypeOK, SysTypes
<1>3. CASE t = Pm
  BY <1>1, <1>2, <1>3 DEF SInv, PmInv, WhoInv, Idle
<1>4. CASE t # Pm
  <2>1. t \in Callers /\ power = "awake" /\ pc[Pm] = "idle"
    BY <1>1, <1>4 DEF SInv, PmInv, WhoInv, Idle
  <2>2. PICK k \in CallKinds : <<t, k>> \in used
    BY <2>1 DEF WhoInv
  <2>3. \A u \in Callers : u # t => pc[u] = "idle"
    <3> SUFFICES ASSUME NEW u \in Callers, u # t, pc[u] # "idle" PROVE FALSE
      OBVIOUS
    <3>1. PICK j \in CallKinds : <<u, j>> \in used
      BY DEF WhoInv
    <3>2. <<u, j>>[1] = <<t, k>>[1]
      BY <2>2, <3>1 DEF OneControlProgram
    <3> QED
      BY <3>2
  <2>4. <<t, "profile">> \notin used /\ <<t, "mode">> \notin used
    <3>1. ASSUME NEW j \in {"profile", "mode"}, <<t, j>> \in used PROVE FALSE
      <4>1. <<t, j>>[2] \in {"set", "auto"}
        BY <3>1 DEF OneControlProgram
      <4> QED
        BY <4>1
    <3> QED
      BY <3>1
  <2>5. pc[t] \in SetLabels \cup AutoLabels
    BY <2>1, <2>4 DEF WhoInv
  <2> QED
    BY <1>1, <2>1, <2>3, <2>5
<1> QED
  BY <1>3, <1>4

\* Whether one program drives the fans alone, and whether every access has
\* succeeded, is never regained once lost.
LEMMA OneProgramPast ==
    ASSUME TypeOK, [Next]_vars
    PROVE  /\ OneControlProgram' => OneControlProgram
           /\ faults' = 0 => faults = 0
<1>1. faults \in Nat /\ rebinds \in Nat
  BY BoundAssumption DEF TypeOK, CountTypes
<1>2. ASSUME NEW c \in Callers, CallStep(c)
      PROVE  used \subseteq used' /\ UNCHANGED <<rebinds, faults>>
  BY <1>2 DEF CallStep, CallSet, CallAuto, CallProfile, CallMode, Call
<1>3. ASSUME UNCHANGED used PROVE used \subseteq used'
  BY <1>3
<1>4. ASSUME NEW v, ReadMode(v) \/ WriteMode(v) PROVE faults' = 0 => faults = 0
  BY <1>1, <1>4 DEF ReadMode, WriteMode
<1>5. ASSUME NEW f, NEW v, WriteFan(f, v) PROVE faults' = 0 => faults = 0
  BY <1>1, <1>5 DEF WriteFan
<1>6. ASSUME NEW t \in Threads, ThreadStep(t)
      PROVE  UNCHANGED <<used, rebinds>> /\ (faults' = 0 => faults = 0)
  <2>1. UNCHANGED <<used, rebinds>>
    BY <1>6 DEF ThreadStep, SetCur, SetTest, SetStart, SetQueue, SetWrite, AutoCancel, AutoWait, AutoClear,
       AutoRead, AutoWrite, AutoZero, ProfileRead, ProfileWrite, ModeWrite, histVars, countVars
  <2>2. UNCHANGED faults \/ (\E v : ReadMode(v) \/ WriteMode(v)) \/ \E f, v : WriteFan(f, v)
    BY <1>6 DEF ThreadStep, SetCur, SetTest, SetStart, SetQueue, SetWrite, AutoCancel, AutoWait, AutoClear,
       AutoRead, AutoWrite, AutoZero, ProfileRead, ProfileWrite, ModeWrite, countVars
  <2> QED
    BY <1>4, <1>5, <2>1, <2>2
<1>7. ASSUME WorkStep PROVE UNCHANGED <<used, rebinds>> /\ (faults' = 0 => faults = 0)
  <2>1. UNCHANGED <<used, rebinds>>
    BY <1>7 DEF WorkStep, WorkStart, WorkRead, WorkOff, WorkOn, WorkLoad, WorkStore, WorkRequeue,
       histVars, countVars
  <2>2. UNCHANGED faults \/ (\E v : ReadMode(v) \/ WriteMode(v)) \/ \E f, v : WriteFan(f, v)
    BY <1>7 DEF WorkStep, WorkStart, WorkRead, WorkOff, WorkOn, WorkLoad, WorkStore, WorkRequeue, countVars
  <2> QED
    BY <1>4, <1>5, <2>1, <2>2
<1>8. ASSUME CoreStep \/ SystemStep
      PROVE  used' = used /\ (rebinds' = 0 => rebinds = 0) /\ (faults' = 0 => faults = 0)
  <2>1. used' = used /\ (rebinds' = 0 => rebinds = 0)
    BY <1>1, <1>8 DEF CoreStep, SystemStep, Suspend, Resume, Remove, Bind, RemoveWait, RemoveUnset, ProbeWrite,
       histVars, countVars
  <2>2. UNCHANGED faults \/ \E v : WriteMode(v)
    BY <1>8 DEF CoreStep, SystemStep, Suspend, Resume, Remove, Bind, RemoveWait, RemoveUnset, ProbeWrite,
       countVars
  <2> QED
    BY <1>4, <2>1, <2>2
<1>9. used \subseteq used' /\ (rebinds' = 0 => rebinds = 0) /\ (faults' = 0 => faults = 0)
  BY <1>2, <1>6, <1>7, <1>8 DEF Next, vars, histVars, countVars
<1> QED
  BY <1>9 DEF OneControlProgram

\* A call begins.
LEMMA CallOne ==
    ASSUME SInv, WhoInv, OneProgramInv, NEW c \in Callers, CallStep(c)
    PROVE  WhoInv' /\ OneProgramInv'
<1>1. c \in Threads /\ c # Core /\ c # Pm /\ Core \in Threads /\ Pm \in Threads
      /\ Threads = Callers \cup {Pm, Core}
  BY ThreadAssumption DEF Threads
<1>2. TypeOK /\ pc \in [Threads -> Labels] /\ arg \in [Threads -> Arguments]
  BY DEF SInv, TypeOK, ThreadTypes
<1>3. PICK kind \in CallKinds : Call(c, kind) /\ Goto(c, CASE kind = "set" -> "set_cur"
           [] kind = "auto" -> "auto_cancel" [] kind = "profile" -> "profile_read" [] OTHER -> "mode_write")
  BY DEF CallStep, CallSet, CallAuto, CallProfile, CallMode, CallKinds
<1>4. pc[c] = "idle" /\ power = "awake" /\ used' = used \cup {<<c, kind>>}
      /\ UNCHANGED <<ecMode, cur, save, started, susp, pending, wpc, wmode, power, bound, rebinds, faults>>
  BY <1>3 DEF Call, Idle, ecVars, fanVars, workVars, sysVars
<1>5. \A t \in Threads : t # c => pc'[t] = pc[t]
  BY <1>2, <1>3 DEF Goto
<1>6. pc'[c] = CASE kind = "set" -> "set_cur" [] kind = "auto" -> "auto_cancel"
                 [] kind = "profile" -> "profile_read" [] OTHER -> "mode_write"
  BY <1>1, <1>2, <1>3 DEF Goto
<1>7. kind \in {"set", "auto", "profile", "mode"}
  BY DEF CallKinds
<1>8. \A t \in Callers : pc'[t] # "idle" => \E k \in CallKinds : <<t, k>> \in used'
  BY <1>1, <1>4, <1>5 DEF WhoInv
<1>9. \A t \in Callers : \/ pc'[t] \in SetLabels \cup AutoLabels \cup {"idle"}
                         \/ <<t, "profile">> \in used' \/ <<t, "mode">> \in used'
  BY <1>1, <1>4, <1>5, <1>6, <1>7 DEF WhoInv, SetLabels, AutoLabels
<1>10. WhoInv'
  BY <1>1, <1>4, <1>5, <1>8, <1>9 DEF WhoInv, Idle
<1>11. ASSUME OneControlProgram' PROVE (RequestInv /\ RestartInv /\ (faults = 0 => FullBitInv))'
  <2>1. OneControlProgram
    BY <1>4, <1>11 DEF OneControlProgram
  <2>2. kind \in {"set", "auto"}
    <3>1. <<c, kind>> \in used'
      BY <1>4
    <3>2. <<c, kind>>[2] \in {"set", "auto"}
      BY <1>11, <3>1 DEF OneControlProgram
    <3> QED
      BY <3>2
  <2>3. ASSUME NEW u \in Threads, pc[u] # "idle" PROVE FALSE
    <3>1. u \in Callers
      BY <1>1, <1>4, <2>1, <2>3, AloneInDriver
    <3>2. PICK k \in CallKinds : <<u, k>> \in used
      BY <2>3, <3>1 DEF WhoInv
    <3>3. <<u, k>> \in used' /\ <<c, kind>> \in used'
      BY <1>4, <3>2
    <3>4. <<u, k>>[1] = <<c, kind>>[1]
      BY <1>11, <3>3 DEF OneControlProgram
    <3> QED
      BY <1>4, <2>3, <3>4
  <2>4. AllIdle /\ RequestInv /\ RestartInv /\ (faults = 0 => FullBitInv)
    BY <2>1, <2>3 DEF AllIdle, Idle, OneProgramInv
  <2>5. \A u \in Threads : u # c => pc'[u] = "idle"
    BY <1>5, <2>4 DEF AllIdle, Idle
  <2>6. cur = asked /\ (started <=> manual) /\ ~susp
    BY <1>4, <2>4 DEF RequestInv
  <2>7. CASE kind = "set"
    <3>1. PICK f \in Fans, s \in Speeds : CallSet(c, f, s)
      BY <1>1, <1>6, <2>7, <1>2 DEF CallStep, CallSet, CallAuto, CallProfile, CallMode, Goto
    <3>2. pc'[c] = "set_cur"
      BY <1>6, <2>7
    <3>3. arg'[c].fan = f /\ arg'[c].speed = s
      BY <1>1, <1>2, <3>1 DEF CallSet, Arguments
    <3>4. manual' /\ asked'[f] = s /\ \A g \in Fans \ {f} : asked'[g] = asked[g]
      BY <3>1 DEF CallSet, SInv, TypeOK, HistTypes
    <3>5. SetInv(c)'
      BY <1>4, <2>6, <3>2, <3>3, <3>4 DEF SetInv
    <3>6. RequestInv'
      BY <1>1, <1>4, <2>5, <2>6, <3>2, <3>4, <3>5 DEF RequestInv, AllIdle, Idle, SetLabels, AutoLabels
    <3> QED
      BY <1>1, <1>4, <2>4, <2>5, <3>2, <3>6 DEF RestartInv, FullBitInv, AllIdle, Idle
  <2>8. CASE kind = "auto"
    <3>1. CallAuto(c)
      BY <1>1, <1>6, <2>8, <1>2 DEF CallStep, CallSet, CallAuto, CallProfile, CallMode, Goto
    <3>2. pc'[c] = "auto_cancel"
      BY <1>6, <2>8
    <3>3. ~manual' /\ asked' = Zero
      BY <3>1 DEF CallAuto, Zero
    <3>4. AutoInv(c)'
      BY <1>4, <3>2, <3>3 DEF AutoInv
    <3>5. RequestInv'
      BY <1>1, <1>4, <2>5, <2>6, <3>2, <3>3, <3>4 DEF RequestInv, AllIdle, Idle, SetLabels, AutoLabels, Zero
    <3> QED
      BY <1>1, <1>4, <2>4, <2>5, <3>2, <3>5 DEF RestartInv, FullBitInv, AllIdle, Idle
  <2> QED
    BY <2>2, <2>7, <2>8
<1> QED
  BY <1>10, <1>11 DEF OneProgramInv

\* uw_set_fan ends: the call of a thread, or one of the two calls of resume.
LEMMA SetReturns ==
    ASSUME TypeOK, RequestInv, NEW t \in Threads, pc[t] \in {"set_queue", "set_write"},
           \A u \in Threads : u # t => pc[u] = "idle",
           IF t = Pm THEN power = "resuming" ELSE power = "awake",
           Return(t),
           UNCHANGED <<cur, save, started, susp, asked, manual>>
    PROVE  RequestInv'
<1> USE DEF Return, Finish, Goto
<1>1. /\ pc \in [Threads -> Labels] /\ arg \in [Threads -> Arguments]
      /\ cur \in [Fans -> Speeds] /\ asked \in [Fans -> Speeds]
  BY DEF TypeOK, ThreadTypes, FanTypes, HistTypes
<1>2. \A u \in Threads : u # t => pc'[u] = "idle"
  BY <1>1
<1>3. SetInv(t) /\ pc[t] # "set_cur" /\ started /\ manual
  BY DEF RequestInv, SetLabels, SetInv
<1>4. CASE Finish(t) /\ power' = "awake" /\ (power = "resuming" => arg[t].fan = 1)
  <2>1. \A f \in Fans : cur[f] = asked[f]
    BY <1>3, <1>4 DEF SetInv, Fans
  <2>2. cur = asked
    BY <1>1, <2>1
  <2>3. pc'[t] = "idle"
    BY <1>1, <1>4
  <2>4. ~susp
    BY <1>4 DEF RequestInv
  <2> QED
    BY <1>2, <1>3, <1>4, <2>2, <2>3, <2>4 DEF RequestInv, SetLabels, AutoLabels
<1>5. CASE power = "resuming" /\ arg[t].fan = 0 /\ Goto(t, "set_cur") /\ UNCHANGED power
           /\ arg' = [arg EXCEPT ![t].fan = 1, ![t].speed = save[1]]
  <2>1. pc'[t] = "set_cur"
    BY <1>1, <1>5
  <2>2. arg'[t].fan = 1 /\ arg'[t].speed = save[1]
    BY <1>1, <1>5 DEF Arguments
  <2>3. save = asked /\ cur[0] = asked[0]
    BY <1>3, <1>5 DEF RequestInv, SetInv
  <2>4. SetInv(t)'
    BY <1>3, <2>1, <2>2, <2>3 DEF SetInv, Fans
  <2> QED
    BY <1>2, <1>3, <1>5, <2>1, <2>4 DEF RequestInv, AllIdle, Idle, SetLabels, AutoLabels
<1> QED
  BY <1>4, <1>5

\* Where a step of a thread leads, and when it ends the suspend or resume.
LEMMA ThreadWho ==
    ASSUME SInv, WhoInv, NEW t \in Threads, ThreadStep(t)
    PROVE  WhoInv'
<1> USE DEF Return, Finish, Goto
<1>1. /\ Threads = Callers \cup {Pm, Core} /\ pc \in [Threads -> Labels]
      /\ power \in {"awake", "suspending", "asleep", "resuming"}
  BY DEF Threads, SInv, TypeOK, ThreadTypes, SysTypes
<1>2. UNCHANGED <<used, bound, rebinds>> /\ pc[t] # "idle"
  BY DEF ThreadStep, SetCur, SetTest, SetStart, SetQueue, SetWrite, AutoCancel, AutoWait, AutoClear,
     AutoRead, AutoWrite, AutoZero, ProfileRead, ProfileWrite, ModeWrite, sysVars, histVars, countVars
<1>3. \A u \in Threads : u # t => pc'[u] = pc[u]
  BY <1>1 DEF ThreadStep, SetCur, SetTest, SetStart, SetQueue, SetWrite, AutoCancel, AutoWait, AutoClear,
     AutoRead, AutoWrite, AutoZero, ProfileRead, ProfileWrite, ModeWrite
<1>4. \/ pc[t] \in SetLabels /\ pc'[t] \in SetLabels /\ UNCHANGED power
      \/ pc[t] \in AutoLabels /\ pc'[t] \in AutoLabels /\ UNCHANGED power
      \/ pc[t] \in {"profile_read", "profile_write", "mode_write"} /\ UNCHANGED power
      \/ /\ pc[t] \in SetLabels \cup AutoLabels /\ pc'[t] = "idle"
         /\ IF t = Pm THEN power' \in {"asleep", "awake"} ELSE UNCHANGED power
  <2>1. CASE SetCur(t) \/ SetTest(t) \/ SetStart(t)
    BY <1>1, <2>1 DEF SetCur, SetTest, SetStart, SetLabels, sysVars
  <2>2. CASE AutoCancel(t) \/ AutoWait(t) \/ AutoClear(t) \/ AutoRead(t) \/ AutoWrite(t)
    BY <1>1, <2>2 DEF AutoCancel, AutoWait, AutoClear, AutoRead, AutoWrite, AutoLabels, sysVars
  <2>3. CASE ProfileRead(t) \/ ProfileWrite(t) \/ ModeWrite(t)
    BY <1>1, <2>3 DEF ProfileRead, ProfileWrite, ModeWrite, sysVars
  <2>4. CASE SetQueue(t) \/ SetWrite(t) \/ AutoZero(t)
    <3>1. pc[t] \in SetLabels \cup AutoLabels /\ Return(t)
      BY <2>4 DEF SetQueue, SetWrite, AutoZero, SetLabels, AutoLabels
    <3>2. CASE Finish(t)
      BY <1>1, <3>1, <3>2
    <3>3. CASE ~Finish(t)
      <4>1. t = Pm /\ power = "resuming" /\ pc'[t] = "set_cur" /\ UNCHANGED power
        BY <1>1, <3>1, <3>3
      <4> QED
        BY <4>1 DEF WhoInv, SetLabels
    <3> QED
      BY <3>2, <3>3
  <2> QED
    BY <2>1, <2>2, <2>3, <2>4 DEF ThreadStep
<1>5. power \in {"suspending", "resuming"} => t = Pm
  BY <1>1, <1>2 DEF WhoInv, Idle
<1>6. t = Pm => power \in {"suspending", "resuming"}
  BY <1>1, <1>2 DEF SInv, PmInv, Idle
<1>7. power # "asleep"
  BY <1>1, <1>2, <1>6 DEF WhoInv, Idle
<1>8. t # Core \/ rebinds # 0
  BY <1>1, <1>2 DEF WhoInv, Idle
<1>9. \A l \in {"profile_read", "profile_write", "mode_write"} :
          l \notin SetLabels \cup AutoLabels \cup {"idle"}
  BY DEF SetLabels, AutoLabels
<1>10. \A c \in Callers : \/ pc'[c] \in SetLabels \cup AutoLabels \cup {"idle"}
                          \/ <<c, "profile">> \in used \/ <<c, "mode">> \in used
  <2> SUFFICES ASSUME NEW c \in Callers
               PROVE  \/ pc'[c] \in SetLabels \cup AutoLabels \cup {"idle"}
                      \/ <<c, "profile">> \in used \/ <<c, "mode">> \in used
    OBVIOUS
  <2>1. CASE c = t
    BY <1>4, <1>9, <2>1 DEF WhoInv
  <2>2. CASE c # t
    BY <1>1, <1>3, <2>2 DEF WhoInv
  <2> QED
    BY <2>1, <2>2
<1>11. \A c \in Callers : pc'[c] # "idle" => \E k \in CallKinds : <<c, k>> \in used
  BY <1>1, <1>2, <1>3 DEF WhoInv
<1>12. power' # "awake" => \A u \in Threads \ {Pm} : pc'[u] = "idle"
  BY <1>1, <1>3, <1>4, <1>5, <1>6, <1>7 DEF WhoInv, Idle
<1>13. /\ power' = "suspending" => pc'[Pm] \in AutoLabels
       /\ power' = "resuming" => pc'[Pm] \in SetLabels
  <2>1. SetLabels \cap AutoLabels = {}
    BY DEF SetLabels, AutoLabels
  <2> QED
    BY <1>4, <1>5, <1>6, <1>9, <2>1 DEF WhoInv
<1>14. rebinds' = 0 => bound' = "bound" /\ pc'[Core] = "idle"
  BY <1>1, <1>2, <1>3, <1>8 DEF WhoInv, Idle
<1> QED
  BY <1>2, <1>10, <1>11, <1>12, <1>13, <1>14 DEF WhoInv, Idle

\* A step of uw_set_fan or of uw_set_fan_auto.
LEMMA ThreadOne ==
    ASSUME SInv, WhoInv, OneProgramInv, NEW t \in Threads, ThreadStep(t), OneControlProgram
    PROVE  (RequestInv /\ RestartInv)' /\ (faults = 0 /\ faults' = 0 => FullBitInv')
<1> USE DEF Goto
<1>1. /\ pc \in [Threads -> Labels] /\ arg \in [Threads -> Arguments]
      /\ cur \in [Fans -> Speeds] /\ asked \in [Fans -> Speeds] /\ save \in [Fans -> Speeds]
      /\ pending \in {"no", "now", "later"} /\ ecMode \in Modes
  BY DEF SInv, TypeOK, ThreadTypes, FanTypes, HistTypes, WorkTypes, EcTypes
<1>2. pc[t] # "idle"
  BY DEF ThreadStep, SetCur, SetTest, SetStart, SetQueue, SetWrite, AutoCancel, AutoWait, AutoClear,
     AutoRead, AutoWrite, AutoZero, ProfileRead, ProfileWrite, ModeWrite
<1>3. /\ \A u \in Threads : u # t => pc[u] = "idle"
      /\ pc[t] \in SetLabels \cup AutoLabels
      /\ bound = "bound" /\ Reachable
      /\ t = Pm <=> power \in {"suspending", "resuming"}
      /\ power # "asleep"
  BY <1>2, AloneInDriver DEF Reachable
<1>4. RequestInv /\ RestartInv /\ (faults = 0 => FullBitInv)
  BY DEF OneProgramInv
<1>5. \A u \in Threads : u # t => pc'[u] = "idle"
  BY <1>1, <1>3 DEF ThreadStep, SetCur, SetTest, SetStart, SetQueue, SetWrite, AutoCancel, AutoWait, AutoClear,
     AutoRead, AutoWrite, AutoZero, ProfileRead, ProfileWrite, ModeWrite, Return, Finish
<1>6. t # Pm => power = "awake"
  BY <1>3 DEF SInv, TypeOK, SysTypes
<1>7. UNCHANGED <<asked, manual, save, susp, wpc, wmode>>
  BY DEF ThreadStep, SetCur, SetTest, SetStart, SetQueue, SetWrite, AutoCancel, AutoWait, AutoClear,
     AutoRead, AutoWrite, AutoZero, ProfileRead, ProfileWrite, ModeWrite, histVars, fanVars, workVars
<1>8. ~AllIdle
  BY <1>2 DEF AllIdle, Idle
<1>9. ASSUME pc[t] \in SetLabels PROVE SetInv(t) /\ (power = "awake" \/ power = "resuming")
  <2>1. pc[t] \notin AutoLabels
    BY <1>9 DEF SetLabels, AutoLabels
  <2> QED
    BY <1>3, <1>4, <1>6, <1>9, <2>1 DEF RequestInv, WhoInv
<1>10. ASSUME pc[t] \in AutoLabels PROVE AutoInv(t) /\ (power = "awake" \/ power = "suspending")
  BY <1>4, <1>10 DEF RequestInv, AutoInv
<1>11. CASE SetCur(t)
  <2>1. SetInv(t) /\ (power = "awake" \/ power = "resuming") /\ pc[t] = "set_cur" /\ pc'[t] = "set_test"
        /\ UNCHANGED <<ecMode, started, pending, arg, power, faults>>
    BY <1>1, <1>9, <1>11 DEF SetCur, SetLabels, ecVars, sysVars, workVars, countVars
  <2>2. cur'[arg[t].fan] = arg[t].speed /\ \A f \in Fans \ {arg[t].fan} : cur'[f] = cur[f]
    BY <1>1, <1>11 DEF SetCur, Arguments
  <2>3. SetInv(t)'
    BY <1>7, <2>1, <2>2 DEF SetInv
  <2>4. RequestInv'
    BY <1>4, <1>5, <1>7, <2>1, <2>3 DEF RequestInv, AllIdle, Idle, SetLabels, AutoLabels
  <2> QED
    BY <1>3, <1>4, <1>5, <1>7, <2>1, <2>4 DEF RestartInv, FullBitInv
<1>12. CASE SetTest(t) \/ SetStart(t)
  <2>1. SetInv(t) /\ (power = "awake" \/ power = "resuming") /\ UNCHANGED <<ecMode, cur, pending, arg, power, faults>>
    BY <1>1, <1>9, <1>12 DEF SetTest, SetStart, SetLabels, ecVars, sysVars, workVars, countVars, fanVars
  <2>2. CASE SetTest(t) /\ started
    <3>1. pc[t] = "set_test" /\ pc'[t] = "set_write" /\ started' = started
      BY <1>1, <2>2 DEF SetTest, fanVars
    <3>2. SetInv(t)'
      BY <1>7, <2>1, <2>2, <3>1 DEF SetInv
    <3>3. RequestInv'
      BY <1>4, <1>5, <1>7, <2>1, <3>1, <3>2 DEF RequestInv, AllIdle, Idle, SetLabels, AutoLabels
    <3> QED
      BY <1>3, <1>4, <1>5, <1>7, <2>1, <3>1, <3>3 DEF RestartInv, FullBitInv
  <2>3. CASE SetTest(t) /\ ~started
    <3>1. pc[t] = "set_test" /\ pc'[t] = "set_start" /\ started' = started
      BY <1>1, <2>3 DEF SetTest, fanVars
    <3>2. SetInv(t)'
      BY <1>7, <2>1, <2>3, <3>1 DEF SetInv
    <3>3. RequestInv'
      BY <1>4, <1>5, <1>7, <2>1, <3>1, <3>2 DEF RequestInv, AllIdle, Idle, SetLabels, AutoLabels
    <3> QED
      BY <1>3, <1>4, <1>5, <1>7, <2>1, <3>1, <3>3 DEF RestartInv, FullBitInv
  <2>4. CASE SetStart(t)
    <3>1. pc[t] = "set_start" /\ pc'[t] = "set_queue" /\ started'
      BY <1>1, <2>4 DEF SetStart
    <3>2. ~started /\ pending = "no" /\ wpc = "idle"
      BY <1>1, <1>4, <2>1, <3>1 DEF SetInv, RestartInv
    <3>3. SetInv(t)'
      BY <1>7, <2>1, <3>1 DEF SetInv
    <3>4. RequestInv'
      BY <1>4, <1>5, <1>7, <2>1, <3>1, <3>3 DEF RequestInv, AllIdle, Idle, SetLabels, AutoLabels
    <3> QED
      BY <1>3, <1>4, <1>5, <1>7, <2>1, <3>1, <3>2, <3>4 DEF RestartInv, FullBitInv
  <2> QED
    BY <1>12, <2>2, <2>3, <2>4
<1>13. CASE SetQueue(t)
  <2>1. SetInv(t) /\ (power = "awake" \/ power = "resuming") /\ UNCHANGED <<ecMode, cur, started, faults>>
        /\ pc[t] = "set_queue" /\ Return(t) /\ schedule_delayed_work("now")
    BY <1>9, <1>13 DEF SetQueue, SetLabels, ecVars, countVars, fanVars
  <2>2. RequestInv'
    BY <1>3, <1>4, <1>6, <1>7, <2>1, SetReturns DEF SInv
  <2>3. pending = "no" /\ wpc = "idle" /\ started /\ pending' \in {"no", "now"}
    BY <1>4, <2>1 DEF RestartInv, SetInv, schedule_delayed_work
  <2>4. pc'[t] \in {"idle", "set_cur"}
    BY <1>1, <2>1 DEF Return, Finish
  <2> QED
    BY <1>4, <1>5, <1>7, <2>1, <2>2, <2>3, <2>4 DEF RestartInv, FullBitInv
<1>14. CASE SetWrite(t)
  <2>1. SetInv(t) /\ (power = "awake" \/ power = "resuming") /\ UNCHANGED <<ecMode, cur, started, pending>>
        /\ pc[t] = "set_write" /\ Return(t) /\ started
    BY <1>9, <1>14 DEF SetWrite, SetLabels, SetInv, fanVars, workVars
  <2>2. RequestInv'
    BY <1>3, <1>4, <1>6, <1>7, <2>1, SetReturns DEF SInv
  <2>3. pc'[t] \in {"idle", "set_cur"}
    BY <1>1, <2>1 DEF Return, Finish
  <2> QED
    BY <1>4, <1>5, <1>7, <2>1, <2>2, <2>3 DEF RestartInv, FullBitInv
<1>15. CASE AutoCancel(t) \/ AutoWait(t)
  <2>1. AutoInv(t) /\ UNCHANGED <<ecMode, cur, started, arg, power, faults>>
    BY <1>10, <1>15 DEF AutoCancel, AutoWait, AutoLabels, ecVars, fanVars, sysVars, countVars
  <2>2. CASE AutoCancel(t)
    <3>1. pc[t] = "auto_cancel" /\ pc'[t] = "auto_wait" /\ pending' = "no"
      BY <1>1, <2>2 DEF AutoCancel
    <3>2. AutoInv(t)'
      BY <1>7, <2>1, <3>1 DEF AutoInv
    <3>3. RequestInv'
      BY <1>4, <1>5, <1>7, <2>1, <3>1, <3>2 DEF RequestInv, AllIdle, Idle, SetLabels, AutoLabels
    <3> QED
      BY <1>3, <1>4, <1>5, <1>7, <2>1, <3>1, <3>3 DEF RestartInv, FullBitInv
  <2>3. CASE AutoWait(t)
    <3>1. pc[t] = "auto_wait" /\ pc'[t] = "auto_clear" /\ pending' = pending /\ wpc = "idle"
      BY <1>1, <2>3 DEF AutoWait, HandlerReturned, workVars
    <3>2. AutoInv(t)'
      BY <1>7, <2>1, <3>1 DEF AutoInv
    <3>3. RequestInv'
      BY <1>4, <1>5, <1>7, <2>1, <3>1, <3>2 DEF RequestInv, AllIdle, Idle, SetLabels, AutoLabels
    <3> QED
      BY <1>3, <1>4, <1>5, <1>7, <2>1, <3>1, <3>3 DEF RestartInv, FullBitInv
  <2> QED
    BY <1>15, <2>2, <2>3
<1>16. CASE AutoClear(t)
  <2>1. AutoInv(t) /\ UNCHANGED <<ecMode, cur, pending, power, faults>> /\ ~started'
        /\ pc[t] = "auto_clear" /\ pc'[t] = "auto_read"
    BY <1>1, <1>10, <1>16 DEF AutoClear, AutoLabels, ecVars, workVars, sysVars, countVars
  <2>2. pending = "no" /\ wpc = "idle"
    BY <1>4, <2>1 DEF RestartInv
  <2>3. AutoInv(t)'
    BY <1>7, <2>1 DEF AutoInv
  <2>4. RequestInv'
    BY <1>4, <1>5, <1>7, <1>10, <2>1, <2>3 DEF RequestInv, AllIdle, Idle, SetLabels, AutoLabels
  <2> QED
    BY <1>5, <1>7, <2>1, <2>2, <2>4 DEF RestartInv, FullBitInv
<1>17. CASE AutoRead(t) \/ AutoWrite(t)
  <2>1. AutoInv(t) /\ UNCHANGED <<cur, started, pending, power>> /\ ~started
        /\ pc[t] \in {"auto_read", "auto_write"} /\ pc'[t] \in {"auto_write", "auto_zero"}
    BY <1>1, <1>10, <1>17 DEF AutoRead, AutoWrite, AutoLabels, fanVars, workVars, sysVars, AutoInv
  <2>2. pending = "no" /\ wpc = "idle"
    BY <1>1, <1>4, <2>1 DEF RestartInv
  <2>3. AutoInv(t)'
    BY <1>7, <2>1 DEF AutoInv
  <2>4. RequestInv'
    BY <1>4, <1>5, <1>7, <1>10, <2>1, <2>3 DEF RequestInv, AllIdle, Idle, SetLabels, AutoLabels
  <2>5. ASSUME faults = 0, faults' = 0 PROVE FullBitInv'
    <3>1. CASE AutoRead(t)
      <4>1. pc'[t] = "auto_write"
        BY <1>1, <3>1 DEF AutoRead
      <4> QED
        BY <1>7, <2>1, <2>2, <4>1 DEF FullBitInv
    <3>2. CASE AutoWrite(t)
      <4>1. ecMode' = [arg[t].mode EXCEPT !.full = FALSE]
        BY <1>3, <2>5, <3>2 DEF AutoWrite, WriteMode
      <4>2. ~ecMode'.full
        BY <1>1, <4>1 DEF Arguments, Modes
      <4> QED
        BY <1>7, <2>1, <2>2, <4>2 DEF FullBitInv
    <3> QED
      BY <1>17, <3>1, <3>2
  <2> QED
    BY <1>5, <1>7, <2>1, <2>2, <2>4, <2>5 DEF RestartInv
<1>18. CASE AutoZero(t)
  <2>1. AutoInv(t) /\ UNCHANGED <<ecMode, started, pending, faults>> /\ ~started /\ cur' = Zero
        /\ pc[t] = "auto_zero" /\ Return(t) /\ (power = "awake" \/ power = "suspending")
    BY <1>10, <1>18 DEF AutoZero, AutoLabels, ecVars, workVars, countVars, AutoInv, Zero
  <2>2. pending = "no" /\ wpc = "idle"
    BY <1>1, <1>4, <2>1 DEF RestartInv
  <2>3. /\ pc'[t] = "idle"
        /\ power = "awake" => power' = "awake" /\ ~manual
        /\ power = "suspending" => power' = "asleep" /\ susp /\ manual /\ save = asked
    BY <1>1, <1>3, <2>1 DEF Return, Finish, AutoInv
  <2>4. RequestInv'
    BY <1>4, <1>5, <1>7, <2>1, <2>3 DEF RequestInv, AllIdle, Idle, SetLabels, AutoLabels
  <2>5. ASSUME faults = 0 PROVE ~ecMode.full
    BY <1>3, <1>4, <2>1, <2>5 DEF FullBitInv
  <2> QED
    BY <1>5, <1>7, <2>1, <2>2, <2>3, <2>4, <2>5 DEF RestartInv, FullBitInv
<1>19. CASE ProfileRead(t) \/ ProfileWrite(t) \/ ModeWrite(t)
  BY <1>3, <1>19 DEF ProfileRead, ProfileWrite, ModeWrite, SetLabels, AutoLabels
<1> QED
  BY <1>11, <1>12, <1>13, <1>14, <1>15, <1>16, <1>17, <1>18, <1>19 DEF ThreadStep

\* A step of the restart handler, beside at most one thread.
LEMMA WorkOne ==
    ASSUME SInv, WhoInv, OneProgramInv, WorkStep
    PROVE  WhoInv' /\ OneProgramInv'
<1>1. UNCHANGED <<pc, arg, power, bound, cur, save, started, susp, asked, manual, used, rebinds>>
  BY DEF WorkStep, WorkStart, WorkRead, WorkOff, WorkOn, WorkLoad, WorkStore, WorkRequeue,
     threadVars, sysVars, fanVars, histVars, countVars
<1>2. WhoInv'
  BY <1>1 DEF WhoInv, Idle
<1>3. ASSUME OneControlProgram' PROVE (RequestInv /\ RestartInv /\ (faults = 0 => FullBitInv))'
  <2>1. OneControlProgram /\ (faults' = 0 => faults = 0)
    BY <1>3, OneProgramPast DEF SInv, Next
  <2>2. RequestInv /\ RestartInv /\ (faults = 0 => FullBitInv) /\ Reachable
    BY <2>1 DEF OneProgramInv, WhoInv, OneControlProgram, Reachable
  <2>3. RequestInv'
    BY <1>1, <2>2 DEF RequestInv, SetInv, AutoInv, AllIdle, Idle
  <2>4. wmode \in Modes /\ ecMode \in Modes /\ pending \in {"no", "now", "later"}
    BY DEF SInv, TypeOK, WorkTypes, EcTypes
  <2>5. CASE WorkStart
    <3>1. pending # "no" /\ wpc = "idle" /\ pending' = "no" /\ wpc' = "off_read" /\ UNCHANGED <<ecMode, faults>>
      BY <2>5 DEF WorkStart, ecVars, countVars
    <3> QED
      BY <1>1, <2>2, <2>3, <3>1 DEF RestartInv, FullBitInv
  <2>6. CASE WorkRead("off_read", "off_write")
    <3>1. wpc = "off_read" /\ wpc' = "off_write" /\ UNCHANGED <<ecMode, pending>>
          /\ (faults = 0 /\ faults' = 0 => wmode' = ecMode)
      BY <2>2, <2>6 DEF WorkRead, ReadMode, ecVars
    <3> QED
      BY <1>1, <2>1, <2>2, <2>3, <3>1 DEF RestartInv, FullBitInv
  <2>7. CASE WorkRead("on_read", "on_write")
    <3>1. wpc = "on_read" /\ wpc' = "on_write" /\ UNCHANGED <<ecMode, pending>>
          /\ (faults = 0 /\ faults' = 0 => wmode' = ecMode)
      BY <2>2, <2>7 DEF WorkRead, ReadMode, ecVars
    <3> QED
      BY <1>1, <2>1, <2>2, <2>3, <3>1 DEF RestartInv, FullBitInv
  <2>8. CASE WorkOff
    <3>1. wpc = "off_write" /\ wpc' = "on_read" /\ UNCHANGED <<pending, wmode>>
      BY <2>8 DEF WorkOff
    <3>2. faults = 0 /\ faults' = 0 => ~ecMode'.full
      <4>1. CASE wmode.full
        BY <2>2, <2>4, <2>8, <4>1 DEF WorkOff, WriteMode, set_full_fan_mode, Modes
      <4>2. CASE ~wmode.full
        BY <2>2, <2>8, <3>1, <4>2 DEF WorkOff, FullBitInv
      <4> QED
        BY <4>1, <4>2
    <3> QED
      BY <1>1, <2>1, <2>2, <2>3, <3>1, <3>2 DEF RestartInv, FullBitInv
  <2>9. CASE WorkOn
    <3>1. wpc = "on_write" /\ wpc' = "load" /\ UNCHANGED <<pending, wmode>>
      BY <2>9 DEF WorkOn
    <3>2. faults = 0 /\ faults' = 0 => ecMode'.full
      <4> SUFFICES ASSUME faults = 0, faults' = 0 PROVE ecMode'.full
        OBVIOUS
      <4>1. ecMode' = set_full_fan_mode(TRUE, wmode)
        BY <2>2, <2>9 DEF WorkOn, WriteMode
      <4>2. ~wmode.full
        BY <2>2, <3>1 DEF FullBitInv
      <4> QED
        BY <2>4, <4>1, <4>2 DEF set_full_fan_mode, Modes
    <3> QED
      BY <1>1, <2>1, <2>2, <2>3, <3>1, <3>2 DEF RestartInv, FullBitInv
  <2>10. CASE WorkLoad \/ WorkStore
    <3>1. wpc \in {"load", "store"} /\ wpc' \in {"load", "store", "requeue"}
          /\ UNCHANGED <<pending, wmode, ecMode>>
      BY <2>10 DEF WorkLoad, WorkStore, ecVars
    <3> QED
      BY <1>1, <2>1, <2>2, <2>3, <3>1 DEF RestartInv, FullBitInv
  <2>11. CASE WorkRequeue
    <3>1. wpc = "requeue" /\ wpc' = "idle" /\ UNCHANGED <<ecMode, faults>> /\ Requeue
      BY <2>11 DEF WorkRequeue, ecVars, countVars
    <3>2. pending = "no" /\ started
      BY <2>2, <3>1 DEF RestartInv
    <3>3. pending' \in {"no", "later"} /\ (Cancelling => pending' = "no")
      BY <3>1, <3>2 DEF Requeue, schedule_delayed_work
    <3>4. \A t \in Threads : pc[t] \notin {"set_queue", "auto_clear"}
      BY <2>2, <3>1 DEF RestartInv
    <3> QED
      BY <1>1, <2>2, <2>3, <3>1, <3>2, <3>3, <3>4 DEF RestartInv, FullBitInv, Cancelling
  <2> QED
    BY <2>5, <2>6, <2>7, <2>8, <2>9, <2>10, <2>11 DEF WorkStep
<1> QED
  BY <1>2, <1>3 DEF OneProgramInv

\* Suspend and resume; after a rebind nothing is claimed.
LEMMA KernelOne ==
    ASSUME SInv, WhoInv, OneProgramInv, CoreStep \/ SystemStep
    PROVE  WhoInv' /\ OneProgramInv'
<1> USE DEF Goto, Idle
<1>1. /\ Core \in Threads /\ Pm \in Threads /\ Core # Pm /\ Core \notin Callers /\ Pm \notin Callers
      /\ pc \in [Threads -> Labels] /\ arg \in [Threads -> Arguments] /\ rebinds \in Nat
      /\ Callers \subseteq Threads
  BY ThreadAssumption, BoundAssumption DEF Threads, SInv, TypeOK, ThreadTypes, CountTypes
<1>2. ASSUME rebinds' # 0 PROVE OneProgramInv'
  BY <1>2 DEF OneProgramInv, OneControlProgram
<1>3. CASE RemoveWait \/ RemoveUnset \/ ProbeWrite \/ Remove \/ Bind
  <2>1. rebinds # 0 \/ (Remove /\ rebinds' = rebinds + 1)
    BY <1>1, <1>3 DEF RemoveWait, RemoveUnset, ProbeWrite, Remove, Bind, WhoInv
  <2>2. rebinds' # 0
    BY <1>1, <1>3, <2>1 DEF RemoveWait, RemoveUnset, ProbeWrite, Remove, Bind, countVars
  <2>3. UNCHANGED <<used, power>> /\ (power = "awake" \/ pc[Core] # "idle")
    BY <1>3 DEF RemoveWait, RemoveUnset, ProbeWrite, Remove, Bind, sysVars, histVars
  <2>4. power = "awake" /\ UNCHANGED <<used, power>>
    BY <1>1, <2>3 DEF WhoInv
  <2>5. \A u \in Threads : u # Core => pc'[u] = pc[u]
    BY <1>1, <1>3 DEF RemoveWait, RemoveUnset, ProbeWrite, Remove, Bind
  <2>6. WhoInv'
    BY <1>1, <2>2, <2>4, <2>5 DEF WhoInv
  <2> QED
    BY <1>2, <2>2, <2>6
<1>4. CASE Suspend
  <2>1. AllIdle /\ power = "awake" /\ UNCHANGED <<ecMode, cur, started, pending, wpc, wmode, arg, bound,
                                                  used, asked, manual, rebinds, faults>>
    BY <1>4 DEF Suspend, AllIdle, ecVars, workVars, histVars
  <2>2. \A u \in Threads \ {Pm} : pc'[u] = "idle"
    BY <1>1, <1>4, <2>1 DEF Suspend, AllIdle
  <2>3. IF started THEN susp' /\ save' = cur /\ power' = "suspending" /\ pc'[Pm] = "auto_cancel"
                   ELSE power' = "asleep" /\ UNCHANGED <<susp, save>> /\ pc'[Pm] = "idle"
    BY <1>1, <1>4, <2>1 DEF Suspend, SpeedsToSave, AllIdle
  <2>4. WhoInv'
    BY <1>1, <2>1, <2>2, <2>3 DEF WhoInv, AutoLabels
  <2>5. ASSUME OneControlProgram' PROVE (RequestInv /\ RestartInv /\ (faults = 0 => FullBitInv))'
    <3>1. RequestInv /\ RestartInv /\ (faults = 0 => FullBitInv)
      BY <2>1, <2>5 DEF OneProgramInv, OneControlProgram
    <3>2. cur = asked /\ (started <=> manual) /\ ~susp /\ (~manual => asked = Zero)
      BY <2>1, <3>1 DEF RequestInv
    <3>3. RequestInv'
      BY <1>1, <2>1, <2>2, <2>3, <3>2 DEF RequestInv, AutoInv, AllIdle, SetLabels, AutoLabels
    <3>4. RestartInv' /\ (faults = 0 => FullBitInv')
      BY <1>1, <2>1, <2>2, <2>3, <3>1 DEF RestartInv, FullBitInv, AllIdle
    <3> QED
      BY <2>1, <3>3, <3>4
  <2> QED
    BY <2>4, <2>5 DEF OneProgramInv
<1>5. CASE Resume
  <2>1. power = "asleep" /\ UNCHANGED <<ecMode, cur, save, started, pending, wpc, wmode, bound,
                                        used, asked, manual, rebinds, faults>>
    BY <1>5 DEF Resume, ecVars, workVars, histVars, countVars
  <2>2. AllIdle
    BY <1>1, <2>1 DEF AllIdle, WhoInv, SInv, PmInv
  <2>3. \A u \in Threads \ {Pm} : pc'[u] = "idle"
    BY <1>1, <1>5, <2>2 DEF Resume, AllIdle
  <2>4. IF susp THEN /\ ~susp' /\ power' = "resuming" /\ pc'[Pm] = "set_cur"
                     /\ arg'[Pm].fan = 0 /\ arg'[Pm].speed = save[0]
                ELSE power' = "awake" /\ UNCHANGED susp /\ pc'[Pm] = "idle"
    BY <1>1, <1>5, <2>2 DEF Resume, AllIdle, Arguments
  <2>5. WhoInv'
    BY <1>1, <2>1, <2>3, <2>4 DEF WhoInv, SetLabels
  <2>6. ASSUME OneControlProgram' PROVE (RequestInv /\ RestartInv /\ (faults = 0 => FullBitInv))'
    <3>1. RequestInv /\ RestartInv /\ (faults = 0 => FullBitInv)
      BY <2>1, <2>6 DEF OneProgramInv, OneControlProgram
    <3>2. ~started /\ cur = Zero /\ (susp <=> manual) /\ (susp => save = asked) /\ (~manual => asked = Zero)
      BY <2>1, <3>1 DEF RequestInv
    <3>3. RequestInv'
      <4>1. CASE susp
        <5>1. SetInv(Pm)'
          BY <2>1, <2>4, <3>2, <4>1 DEF SetInv, Fans
        <5> QED
          BY <1>1, <2>1, <2>3, <2>4, <3>2, <4>1, <5>1 DEF RequestInv, AllIdle, SetLabels, AutoLabels
      <4>2. CASE ~susp
        BY <1>1, <2>1, <2>3, <2>4, <3>2, <4>2 DEF RequestInv, AllIdle, SetLabels, AutoLabels
      <4> QED
        BY <4>1, <4>2
    <3>4. RestartInv' /\ (faults = 0 => FullBitInv')
      BY <1>1, <2>1, <2>2, <2>3, <2>4, <3>1 DEF RestartInv, FullBitInv, AllIdle
    <3> QED
      BY <2>1, <3>3, <3>4
  <2> QED
    BY <2>5, <2>6 DEF OneProgramInv
<1> QED
  BY <1>3, <1>4, <1>5 DEF CoreStep, SystemStep

\* The invariant of one program holds initially and is kept by every step.
LEMMA OneInvariant == Spec => []OneInv
<1>1. Init => OneInv
  <2> SUFFICES ASSUME Init PROVE OneInv
    OBVIOUS
  <2>1. SInv
    BY TypeInit DEF Init, SInv, CoreInv, PmInv, Supervised, Idle, Threads
  <2>2. WhoInv
    BY DEF Init, WhoInv, Idle, Threads
  <2>3. RequestInv
    BY DEF Init, RequestInv, AllIdle, Idle, Zero, SetLabels, AutoLabels
  <2>4. RestartInv /\ FullBitInv
    BY DEF Init, RestartInv, FullBitInv
  <2> QED
    BY <2>1, <2>2, <2>3, <2>4 DEF OneInv, OneProgramInv
<1>2. OneInv /\ [Next]_vars => OneInv'
  <2> SUFFICES ASSUME OneInv, [Next]_vars PROVE OneInv'
    OBVIOUS
  <2>1. SInv'
    BY SupervisedStep DEF OneInv
  <2>2. CASE \E c \in Callers : CallStep(c)
    BY <2>1, <2>2, CallOne DEF OneInv
  <2>3. ASSUME NEW t \in Threads, ThreadStep(t) PROVE OneInv'
    <3>1. OneControlProgram' => OneControlProgram
      BY OneProgramPast DEF OneInv, SInv
    <3>2. faults' = 0 => faults = 0
      BY OneProgramPast DEF OneInv, SInv
    <3> QED
      BY <2>1, <2>3, <3>1, <3>2, ThreadWho, ThreadOne DEF OneInv, OneProgramInv
  <2>4. CASE WorkStep
    BY <2>1, <2>4, WorkOne DEF OneInv
  <2>5. CASE CoreStep \/ SystemStep
    BY <2>1, <2>5, KernelOne DEF OneInv
  <2>6. CASE UNCHANGED vars
    <3>1. UNCHANGED <<pc, arg, power, bound, cur, save, started, susp, asked, manual, used, rebinds, faults,
                      ecMode, wmode, wpc, pending>>
      BY <2>6 DEF vars, ecVars, fanVars, workVars, threadVars, sysVars, histVars, countVars
    <3>2. WhoInv'
      BY <3>1 DEF OneInv, WhoInv, Idle
    <3>3. (RequestInv => RequestInv') /\ (RestartInv => RestartInv') /\ (FullBitInv => FullBitInv')
      BY <3>1 DEF RequestInv, SetInv, AutoInv, AllIdle, Idle, RestartInv, FullBitInv
    <3>4. OneControlProgram' => OneControlProgram
      BY <3>1 DEF OneControlProgram
    <3> QED
      BY <2>1, <3>1, <3>2, <3>3, <3>4 DEF OneInv, OneProgramInv
  <2> QED
    BY <2>2, <2>3, <2>4, <2>5, <2>6 DEF Next
<1> QED
  BY <1>1, <1>2, PTL DEF Spec

\* One control program and a working EC: between two restarts the fans really
\* are in full fan mode.
THEOREM FullModeHolds == Spec => []FullModeBetweenRestarts
<1>1. OneInv => FullModeBetweenRestarts
  BY DEF OneInv, OneProgramInv, FullBitInv, FullModeBetweenRestarts
<1> QED
  BY <1>1, OneInvariant, PTL

\* One control program and a working EC: once uw_set_fan_auto has returned, no
\* restart is queued or running, full fan mode is off and the speeds are 0.
THEOREM AutoEndsRestarts == Spec => []AutoIsFinal
<1>1. OneInv => AutoIsFinal
  <2> SUFFICES ASSUME OneInv, ~started, AllIdle, OneControlProgram, faults = 0
               PROVE  /\ pending = "no" /\ wpc = "idle" /\ ~ecMode.full
                      /\ \A f \in Fans : cur[f] = 0
    BY DEF AutoIsFinal
  <2>1. RequestInv /\ RestartInv /\ FullBitInv
    BY DEF OneInv, OneProgramInv
  <2>2. power \in {"awake", "asleep"}
    BY DEF AllIdle, Idle, OneInv, SInv, TypeOK, SysTypes, WhoInv, SetLabels, AutoLabels, Threads
  <2>3. cur = Zero
    BY <2>1, <2>2 DEF RequestInv
  <2>4. ~ecMode.full
    BY <2>1 DEF FullBitInv, AllIdle, Idle
  <2>5. pending = "no" /\ wpc = "idle"
    BY <2>1 DEF RestartInv
  <2> QED
    BY <2>3, <2>4, <2>5 DEF Zero
<1> QED
  BY <1>1, OneInvariant, PTL

\* One control program: whatever the EC answers, an awake system at rest has
\* the speeds last asked for, through any number of suspends.
THEOREM SuspendRestoresRequest == Spec => []SuspendKeepsRequest
<1>1. OneInv => SuspendKeepsRequest
  BY DEF OneInv, OneProgramInv, RequestInv, SuspendKeepsRequest
<1> QED
  BY <1>1, OneInvariant, PTL

-----------------------------------------------------------------------------
(* Why every call returns *)

\* Resume still has to set fan 1.
SecondFan(t) == IF t = Pm /\ arg[t].fan = 0 THEN 4 ELSE 0

\* How many steps of its own a thread takes at most until its call returns.
CallLeft(t) ==
    IF pc[t] = "idle" THEN 0
    ELSE IF pc[t] \in SetLabels
    THEN SecondFan(t) + (IF pc[t] = "set_cur" THEN 4
                         ELSE IF pc[t] = "set_test" THEN 3
                         ELSE IF pc[t] = "set_start" THEN 2 ELSE 1)
    ELSE IF pc[t] \in AutoLabels
    THEN (IF pc[t] = "auto_cancel" THEN 6
          ELSE IF pc[t] = "auto_wait" THEN 5
          ELSE IF pc[t] = "auto_clear" THEN 4
          ELSE IF pc[t] = "auto_read" THEN 3
          ELSE IF pc[t] = "auto_write" THEN 2 ELSE 1)
    ELSE (IF pc[t] \in {"profile_read", "remove_wait"} THEN 2 ELSE 1)

\* The steps a thread makes itself.
OwnStep(t) == ThreadStep(t) \/ (t = Core /\ CoreStep)

CallGoesOn(t) ==
    ~Idle(t) => /\ CallLeft(t) \in 1..8 /\ CallLeft(t)' \in 0..CallLeft(t)
                /\ OwnStep(t) => CallLeft(t)' < CallLeft(t)

\* No call of the driver takes more than eight steps of its own thread: none
\* is repeated because of what others do, resume sets both fans and ends.
CallsEnd == [][\A t \in Threads : CallGoesOn(t)]_vars

\* How many steps the restart handler takes at most until it returns.
WritesLeft  == 2 * (RampWrites - wround) - wfan
HandlerLeft ==
    IF wpc = "idle" THEN 0
    ELSE IF wpc = "requeue" THEN 1
    ELSE IF wpc = "store" THEN 2 * WritesLeft
    ELSE IF wpc = "load" THEN 2 * WritesLeft + 1
    ELSE 4 * RampWrites + (IF wpc = "on_write" THEN 2
                           ELSE IF wpc = "on_read" THEN 3
                           ELSE IF wpc = "off_write" THEN 4 ELSE 5)

\* uw_set_fan_auto and remove wait for one run of the handler at most: while
\* somebody waits the work is not queued, neither by the handler itself nor by
\* a thread in uw_set_fan, and the handler only comes nearer to its end, which
\* it reaches after at most 4 * RampWrites + 5 steps.
WaitGoesOn ==
    Cancelling => /\ pending = "no" /\ HandlerLeft \in 0..4 * RampWrites + 5
                  /\ HandlerLeft' \in 0..HandlerLeft
                  /\ WorkStep => HandlerLeft' < HandlerLeft

CancelsEnd == [][WaitGoesOn]_vars

\* While a call waits for the handler the work is not queued; what is not
\* bound is not being removed or probed.
WaitInv == (Cancelling => pending = "no") /\ (bound = "unbound" => Idle(Core))

\* Who waits has taken the pending bit, and keeps it until the handler has returned.
LEMMA WaitStep == SInv /\ WaitInv /\ [Next]_vars => WaitInv'
<1> SUFFICES ASSUME SInv, WaitInv, [Next]_vars PROVE WaitInv'
  OBVIOUS
<1> USE DEF Goto, Idle
<1>1. /\ Core \in Threads /\ Pm \in Threads /\ Core # Pm /\ pc \in [Threads -> Labels]
      /\ \A c \in Callers : c \in Threads /\ c # Core /\ c # Pm
  BY ThreadAssumption DEF Threads, SInv, TypeOK, ThreadTypes
<1>2. ASSUME NEW c \in Callers, CallStep(c) PROVE WaitInv'
  <2>1. PICK l \in {"set_cur", "auto_cancel", "profile_read", "mode_write"} : pc' = [pc EXCEPT ![c] = l]
    BY <1>2 DEF CallStep, CallSet, CallAuto, CallProfile, CallMode
  <2>2. UNCHANGED <<pending, bound>>
    BY <1>2 DEF CallStep, CallSet, CallAuto, CallProfile, CallMode, Call, workVars, sysVars
  <2> QED
    BY <1>1, <2>1, <2>2 DEF WaitInv, Cancelling
<1>3. ASSUME NEW t \in Threads, ThreadStep(t) PROVE WaitInv'
  <2>1. t # Core
    BY <1>3, <1>1 DEF ThreadStep, SetCur, SetTest, SetStart, SetQueue, SetWrite, AutoCancel, AutoWait, AutoClear,
       AutoRead, AutoWrite, AutoZero, ProfileRead, ProfileWrite, ModeWrite, SInv, CoreInv
  <2>2. UNCHANGED bound /\ \A u \in Threads \ {t} : pc'[u] = pc[u]
    BY <1>3, <1>1 DEF ThreadStep, SetCur, SetTest, SetStart, SetQueue, SetWrite, AutoCancel, AutoWait, AutoClear,
       AutoRead, AutoWrite, AutoZero, ProfileRead, ProfileWrite, ModeWrite, Return, Finish, sysVars
  <2>3. CASE AutoCancel(t)
    BY <1>1, <2>1, <2>2, <2>3 DEF AutoCancel, WaitInv
  <2>4. CASE ~AutoCancel(t)
    <3>1. pc'[t] \notin {"auto_wait", "remove_wait"}
      BY <1>3, <1>1, <2>4 DEF ThreadStep, SetCur, SetTest, SetStart, SetQueue, SetWrite, AutoWait, AutoClear,
         AutoRead, AutoWrite, AutoZero, ProfileRead, ProfileWrite, ModeWrite, Return, Finish
    <3>2. Cancelling' => Cancelling
      BY <2>2, <3>1 DEF Cancelling
    <3>3. UNCHANGED pending \/ ~Cancelling
      BY <1>3, <2>4 DEF ThreadStep, SetCur, SetTest, SetStart, SetQueue, SetWrite, AutoWait, AutoClear,
         AutoRead, AutoWrite, AutoZero, ProfileRead, ProfileWrite, ModeWrite, schedule_delayed_work, workVars
    <3>4. Idle(Core)' <=> Idle(Core)
      BY <1>1, <2>1, <2>2
    <3> QED
      BY <2>2, <3>2, <3>3, <3>4 DEF WaitInv
  <2> QED
    BY <2>3, <2>4
<1>4. CASE WorkStep
  <2>1. UNCHANGED <<pc, bound>>
    BY <1>4 DEF WorkStep, WorkStart, WorkRead, WorkOff, WorkOn, WorkLoad, WorkStore, WorkRequeue, threadVars, sysVars
  <2>2. Cancelling => pending' \in {pending, "no"}
    BY <1>4 DEF WorkStep, WorkStart, WorkRead, WorkOff, WorkOn, WorkLoad, WorkStore, WorkRequeue, Requeue,
       schedule_delayed_work
  <2> QED
    BY <2>1, <2>2 DEF WaitInv, Cancelling
<1>5. CASE CoreStep
  BY <1>1, <1>5 DEF CoreStep, RemoveWait, RemoveUnset, ProbeWrite, WaitInv, Cancelling, workVars, sysVars
<1>6. CASE SystemStep
  BY <1>1, <1>6 DEF SystemStep, Suspend, Resume, Remove, Bind, WaitInv, Cancelling, workVars, sysVars
<1>7. CASE UNCHANGED vars
  BY <1>7 DEF vars, WaitInv, Cancelling, workVars, threadVars, sysVars
<1> QED
  BY <1>2, <1>3, <1>4, <1>5, <1>6, <1>7 DEF Next

\* Every step a thread makes is one of those its call has left.
LEMMA CallLowers ==
    ASSUME SInv, WhoInv, NEW t \in Threads, OwnStep(t)
    PROVE  CallLeft(t)' < CallLeft(t)
<1> USE DEF Goto, Idle
<1>1. /\ Core \in Threads /\ Pm \in Threads /\ Core # Pm /\ pc \in [Threads -> Labels]
      /\ arg \in [Threads -> Arguments] /\ arg[t].fan \in {0, 1}
  BY ThreadAssumption, ArgTypes DEF Threads, Fans, SInv, TypeOK, ThreadTypes
<1> USE DEF CallLeft, SetLabels, AutoLabels
<1>2. CASE SetCur(t) \/ SetTest(t) \/ SetStart(t)
  BY <1>1, <1>2 DEF SetCur, SetTest, SetStart, SecondFan
<1>3. CASE SetQueue(t) \/ SetWrite(t)
  <2>1. pc[t] \in {"set_queue", "set_write"} /\ Return(t)
    BY <1>3 DEF SetQueue, SetWrite
  <2>2. CASE Finish(t)
    BY <1>1, <2>1, <2>2 DEF Finish, SecondFan
  <2>3. CASE ~Finish(t)
    <3>1. /\ t = Pm /\ arg[t].fan = 0 /\ pc'[t] = "set_cur"
          /\ arg' = [arg EXCEPT ![t].fan = 1, ![t].speed = save[1]]
      BY <1>1, <2>1, <2>3 DEF Return
    <3>2. arg'[t].fan = 1
      BY <1>1, <3>1 DEF Arguments
    <3> QED
      BY <1>1, <2>1, <3>1, <3>2 DEF SecondFan
  <2> QED
    BY <2>2, <2>3
<1>4. CASE AutoCancel(t) \/ AutoWait(t) \/ AutoClear(t) \/ AutoRead(t) \/ AutoWrite(t)
  BY <1>1, <1>4 DEF AutoCancel, AutoWait, AutoClear, AutoRead, AutoWrite
<1>5. CASE AutoZero(t)
  <2>1. pc[t] = "auto_zero" /\ Return(t)
    BY <1>5 DEF AutoZero
  <2>2. t = Pm => power # "resuming"
    BY <2>1 DEF WhoInv
  <2>3. Finish(t)
    BY <2>1, <2>2 DEF Return
  <2> QED
    BY <1>1, <2>1, <2>3 DEF Finish
<1>6. CASE ProfileRead(t) \/ ProfileWrite(t) \/ ModeWrite(t)
  BY <1>1, <1>6 DEF ProfileRead, ProfileWrite, ModeWrite, Finish
<1>7. CASE t = Core /\ CoreStep
  BY <1>1, <1>7 DEF CoreStep, RemoveWait, RemoveUnset, ProbeWrite
<1> QED
  BY <1>2, <1>3, <1>4, <1>5, <1>6, <1>7 DEF OwnStep, ThreadStep

\* Nobody else moves a thread inside a call.
LEMMA OthersLeaveCall ==
    ASSUME SInv, WaitInv, [Next]_vars, NEW t \in Threads, ~Idle(t), ~OwnStep(t)
    PROVE  CallLeft(t)' = CallLeft(t)
<1> USE DEF Goto, Idle
<1>1. /\ Core \in Threads /\ Pm \in Threads /\ Core # Pm /\ pc \in [Threads -> Labels]
      /\ arg \in [Threads -> Arguments]
      /\ \A c \in Callers : c \in Threads
  BY ThreadAssumption DEF Threads, SInv, TypeOK, ThreadTypes
<1> SUFFICES pc'[t] = pc[t] /\ arg'[t] = arg[t]
  BY DEF CallLeft, SecondFan
<1>2. ASSUME NEW c \in Callers, CallStep(c) PROVE pc'[t] = pc[t] /\ arg'[t] = arg[t]
  <2>1. pc[c] = "idle"
    BY <1>2 DEF CallStep, CallSet, CallAuto, CallProfile, CallMode, Call
  <2> QED
    BY <1>1, <1>2, <2>1 DEF CallStep, CallSet, CallAuto, CallProfile, CallMode
<1>3. ASSUME NEW u \in Threads, ThreadStep(u) PROVE pc'[t] = pc[t] /\ arg'[t] = arg[t]
  <2>1. u # t
    BY <1>3 DEF OwnStep
  <2> QED
    BY <1>1, <1>3, <2>1 DEF ThreadStep, SetCur, SetTest, SetStart, SetQueue, SetWrite, AutoCancel, AutoWait,
       AutoClear, AutoRead, AutoWrite, AutoZero, ProfileRead, ProfileWrite, ModeWrite, Return, Finish
<1>4. CASE WorkStep
  BY <1>4 DEF WorkStep, WorkStart, WorkRead, WorkOff, WorkOn, WorkLoad, WorkStore, WorkRequeue, threadVars
<1>5. CASE CoreStep
  <2>1. t # Core
    BY <1>5 DEF OwnStep
  <2> QED
    BY <1>1, <1>5, <2>1 DEF CoreStep, RemoveWait, RemoveUnset, ProbeWrite
<1>6. CASE SystemStep
  <2>1. ~Suspend
    BY DEF Suspend
  <2>2. CASE Resume
    <3>1. t # Pm
      BY <2>2 DEF Resume, SInv, PmInv
    <3> QED
      BY <1>1, <2>2, <3>1 DEF Resume
  <2>3. CASE Remove \/ Bind
    <3>1. t # Core
      BY <2>3 DEF Remove, Bind, WaitInv
    <3> QED
      BY <1>1, <2>3, <3>1 DEF Remove, Bind
  <2> QED
    BY <1>6, <2>1, <2>2, <2>3 DEF SystemStep
<1>7. CASE UNCHANGED vars
  BY <1>7 DEF vars, threadVars
<1> QED
  BY <1>2, <1>3, <1>4, <1>5, <1>6, <1>7 DEF Next

\* A thread inside a call has at least one step left, and at most eight.
LEMMA CallBounded ==
    SInv => \A t \in Threads : CallLeft(t) \in 0..8 /\ (CallLeft(t) = 0 <=> Idle(t))
<1> SUFFICES ASSUME SInv, NEW t \in Threads PROVE CallLeft(t) \in 0..8 /\ (CallLeft(t) = 0 <=> pc[t] = "idle")
  BY DEF Idle
<1>1. SecondFan(t) \in {0, 4} /\ pc[t] \in Labels
  BY DEF SecondFan, SInv, TypeOK, ThreadTypes
<1> HIDE DEF SecondFan
<1>2. CASE pc[t] \in SetLabels
  BY <1>1, <1>2 DEF CallLeft, SetLabels
<1>3. CASE pc[t] \in AutoLabels
  BY <1>3 DEF CallLeft, AutoLabels, SetLabels
<1>4. CASE pc[t] \in Labels \ (SetLabels \cup AutoLabels)
  BY <1>4 DEF CallLeft
<1> QED
  BY <1>1, <1>2, <1>3, <1>4

\* What the threads and the work are in, in every state.
LEMMA WaitInvariant == Spec => [](SInv /\ WhoInv /\ WaitInv)
<1>1. Init => WaitInv
  BY DEF Init, WaitInv, Cancelling
<1>2. OneInv => SInv /\ WhoInv
  BY DEF OneInv
<1> QED
  BY <1>1, <1>2, OneInvariant, WaitStep, PTL DEF Spec

\* EveryCallReturns without the fairness, the calls: however many threads set
\* speeds, profiles and modes or give the fans back while the system suspends,
\* resumes and rebinds the driver, each call ends after at most eight steps of
\* its thread.
THEOREM CallsAlwaysEnd == Spec => CallsEnd
<1>1. SInv => \A t \in Threads : CallLeft(t) \in 0..8 /\ (CallLeft(t) = 0 <=> Idle(t))
  BY CallBounded
<1>2. SInv' => (\A t \in Threads : CallLeft(t) \in 0..8 /\ (CallLeft(t) = 0 <=> Idle(t)))'
  BY <1>1, PTL
<1>3. SInv /\ WhoInv /\ WaitInv /\ SInv' /\ [Next]_vars => [\A t \in Threads : CallGoesOn(t)]_vars
  <2> SUFFICES ASSUME SInv, WhoInv, WaitInv, SInv', [Next]_vars, NEW t \in Threads, ~Idle(t) PROVE CallGoesOn(t)
    BY DEF CallGoesOn
  <2>1. CallLeft(t) \in 0..8 /\ CallLeft(t) # 0 /\ CallLeft(t)' \in 0..8
    BY <1>1, <1>2
  <2>2. OwnStep(t) => CallLeft(t)' < CallLeft(t)
    BY CallLowers
  <2>3. ~OwnStep(t) => CallLeft(t)' = CallLeft(t)
    BY OthersLeaveCall
  <2> HIDE DEF CallLeft, OwnStep
  <2> QED
    BY <2>1, <2>2, <2>3 DEF CallGoesOn
<1> QED
  BY <1>3, WaitInvariant, PTL DEF Spec, CallsEnd

\* The rounds of speed writes that are left: two writes each, less the first of
\* them if it was made.
LEMMA WritesBounded ==
    ASSUME TypeOK, wpc \in {"load", "store"} PROVE WritesLeft \in 1..2 * RampWrites
BY BoundAssumption DEF TypeOK, WorkTypes, Fans, WritesLeft

\* The handler has a number of steps left, none only if it has returned.
LEMMA HandlerBounded ==
    TypeOK => HandlerLeft \in 0..4 * RampWrites + 5 /\ (HandlerLeft = 0 <=> HandlerReturned)
<1> SUFFICES ASSUME TypeOK
             PROVE  HandlerLeft \in 0..4 * RampWrites + 5 /\ (HandlerLeft = 0 <=> HandlerReturned)
  OBVIOUS
<1>1. RampWrites \in Nat /\ RampWrites > 0
  BY BoundAssumption
<1>2. CASE wpc \in {"load", "store"}
  <2>1. WritesLeft \in 1..2 * RampWrites
    BY <1>2, WritesBounded
  <2> HIDE DEF WritesLeft
  <2> QED
    BY <1>1, <1>2, <2>1 DEF HandlerLeft, HandlerReturned
<1>3. CASE wpc \notin {"load", "store"}
  BY <1>1, <1>3 DEF HandlerLeft, HandlerReturned
<1> QED
  BY <1>2, <1>3

\* The handler comes nearer to its end with each of its steps but the first.
LEMMA HandlerLowers ==
    ASSUME TypeOK, WorkStep, pending = "no" PROVE HandlerLeft' < HandlerLeft
<1>1. RampWrites \in Nat /\ RampWrites > 0 /\ wround \in 0..RampWrites /\ wfan \in {0, 1}
  BY BoundAssumption DEF TypeOK, WorkTypes, Fans
<1>2. ~WorkStart
  BY DEF WorkStart
<1>3. CASE \/ WorkRead("off_read", "off_write") \/ WorkOff
           \/ WorkRead("on_read", "on_write")
  <2>1. \/ wpc = "off_read" /\ wpc' = "off_write"
        \/ wpc = "off_write" /\ wpc' = "on_read"
        \/ wpc = "on_read" /\ wpc' = "on_write"
    BY <1>3 DEF WorkRead, WorkOff
  <2> QED
    BY <1>1, <2>1 DEF HandlerLeft
<1>4. CASE WorkOn
  BY <1>1, <1>4 DEF WorkOn, HandlerLeft, WritesLeft
<1>5. CASE WorkLoad
  <2>1. wpc = "load" /\ wpc' = "store" /\ WritesLeft' = WritesLeft
    BY <1>5 DEF WorkLoad, WritesLeft
  <2>2. WritesLeft \in Nat
    BY <2>1, WritesBounded
  <2> HIDE DEF WritesLeft
  <2> QED
    BY <2>1, <2>2 DEF HandlerLeft
<1>6. CASE WorkStore
  <2>1. /\ wpc = "store" /\ wfan' = 1 - wfan /\ wround' = wround + wfan /\ wpc' \in {"load", "requeue"}
    BY <1>6 DEF WorkStore, NextRound
  <2>2. WritesLeft \in Nat /\ WritesLeft > 0
    BY <1>1, <2>1, WritesBounded
  <2>3. WritesLeft' = WritesLeft - 1
    BY <1>1, <2>1 DEF WritesLeft
  <2> HIDE DEF WritesLeft
  <2> QED
    BY <2>1, <2>2, <2>3 DEF HandlerLeft
<1>7. CASE WorkRequeue
  BY <1>7 DEF WorkRequeue, HandlerLeft
<1> QED
  BY <1>2, <1>3, <1>4, <1>5, <1>6, <1>7 DEF WorkStep

\* No other step moves the handler.
LEMMA OthersLeaveHandler ==
    ASSUME [Next]_vars, ~WorkStep PROVE HandlerLeft' = HandlerLeft
<1> SUFFICES UNCHANGED <<wpc, wfan, wround>>
  BY DEF HandlerLeft, WritesLeft
<1>1. ASSUME NEW c \in Callers, CallStep(c) PROVE UNCHANGED <<wpc, wfan, wround>>
  BY <1>1 DEF CallStep, CallSet, CallAuto, CallProfile, CallMode, Call, workVars
<1>2. ASSUME NEW t \in Threads, ThreadStep(t) PROVE UNCHANGED <<wpc, wfan, wround>>
  BY <1>2 DEF ThreadStep, SetCur, SetTest, SetStart, SetQueue, SetWrite, AutoCancel, AutoWait, AutoClear,
     AutoRead, AutoWrite, AutoZero, ProfileRead, ProfileWrite, ModeWrite, workVars
<1>3. CASE CoreStep \/ SystemStep \/ UNCHANGED vars
  BY <1>3 DEF CoreStep, RemoveWait, RemoveUnset, ProbeWrite, SystemStep, Suspend, Resume, Remove, Bind, vars, workVars
<1> QED
  BY <1>1, <1>2, <1>3 DEF Next

\* EveryCallReturns without the fairness, the waiting: for any number of
\* threads and any number of rounds, who waits for the restart handler waits
\* for one run of it, which nobody can prolong or repeat.
THEOREM CancelsAlwaysEnd == Spec => CancelsEnd
<1>1. TypeOK => HandlerLeft \in 0..4 * RampWrites + 5
  BY HandlerBounded
<1>2. TypeOK' => (HandlerLeft \in 0..4 * RampWrites + 5)'
  BY <1>1, PTL
<1>3. SInv /\ SInv' /\ WaitInv /\ [Next]_vars => [WaitGoesOn]_vars
  <2> SUFFICES ASSUME TypeOK, TypeOK', WaitInv, [Next]_vars, Cancelling PROVE WaitGoesOn
    BY DEF SInv, WaitGoesOn
  <2>1. HandlerLeft \in 0..4 * RampWrites + 5 /\ HandlerLeft' \in 0..4 * RampWrites + 5
    BY <1>1, <1>2
  <2>2. pending = "no"
    BY DEF WaitInv
  <2>3. WorkStep => HandlerLeft' < HandlerLeft
    BY <2>2, HandlerLowers
  <2>4. ~WorkStep => HandlerLeft' = HandlerLeft
    BY OthersLeaveHandler
  <2>5. RampWrites \in Nat
    BY BoundAssumption
  <2> HIDE DEF HandlerLeft, WorkStep
  <2> QED
    BY <2>1, <2>2, <2>3, <2>4, <2>5 DEF WaitGoesOn
<1> QED
  BY <1>3, WaitInvariant, PTL DEF Spec, CancelsEnd

-----------------------------------------------------------------------------
(* Why a restart repairs the speeds *)

\* The fans that do not have, or with the handler's next write would not have,
\* the speed that was asked for.
Stale == {f \in Fans : ecFan[f] # cur[f] \/ (wpc = "store" /\ wfan = f /\ wval # cur[f])}

RepairGoesOn ==
    AllIdle /\ AllIdle' =>
        /\ Stale' \subseteq Stale
        /\ WorkLoad => wval' = cur'[wfan']
        /\ WorkStore /\ bound = "bound" /\ faults' = faults /\ wval = cur[wfan] => wfan \notin Stale'

\* While no call is being made a restart only repairs: no fan that has its
\* speed loses it, though the handler writes speeds that it read before and
\* some of its accesses fail; the handler reads the speed in force, and the
\* first of its writes of that speed that the EC takes repairs the fan.
RestartsRepair == [][RepairGoesOn]_vars

\* Writing a speed just read.
LEMMA StoreRepairs ==
    ASSUME TypeOK, WorkStore
    PROVE  /\ Stale' \subseteq Stale
           /\ bound = "bound" /\ faults' = faults /\ wval = cur[wfan] => wfan \notin Stale'
<1>1. /\ wpc = "store" /\ wpc' \in {"load", "requeue"} /\ UNCHANGED <<cur, wval>> /\ wfan \in Fans
      /\ ecFan \in [Fans -> Speeds]
  BY DEF WorkStore, fanVars, TypeOK, WorkTypes, EcTypes
<1>2. Stale' = {f \in Fans : ecFan'[f] # cur[f]}
  BY <1>1 DEF Stale
<1>3. /\ UNCHANGED ecFan \/ ecFan' = [ecFan EXCEPT ![wfan] = wval]
      /\ bound = "bound" /\ faults' = faults => ecFan' = [ecFan EXCEPT ![wfan] = wval]
  BY BoundAssumption DEF WorkStore, WriteFan, Reachable, TypeOK, CountTypes
<1>4. Stale = {f \in Fans : ecFan[f] # cur[f] \/ (wfan = f /\ wval # cur[f])}
  BY <1>1 DEF Stale
<1> QED
  BY <1>1, <1>2, <1>3, <1>4

\* RestartRepairsSpeed without the fairness: for any number of threads and any
\* speeds, the restarts of callers that rest leave no stale speed behind that
\* was not there, and remove those that are.
THEOREM RestartsAlwaysRepair == Spec => RestartsRepair
<1>1. TypeOK /\ [Next]_vars => [RepairGoesOn]_vars
  <2> SUFFICES ASSUME TypeOK, [Next]_vars, AllIdle, AllIdle' PROVE RepairGoesOn
    BY DEF RepairGoesOn
  <2> USE DEF RepairGoesOn
  <2>1. CASE WorkStore
    <3>1. ~WorkLoad
      BY <2>1 DEF WorkStore, WorkLoad
    <3> QED
      BY <2>1, <3>1, StoreRepairs
  <2>2. CASE WorkLoad
    <3>1. ~WorkStore
      BY <2>2 DEF WorkStore, WorkLoad
    <3> QED
      BY <2>2, <3>1 DEF WorkLoad, SpeedToWrite, Stale, fanVars, ecVars
  <2>3. CASE ~WorkStore /\ ~WorkLoad
    <3>1. UNCHANGED <<ecFan, cur>> /\ (wpc' = "store" => UNCHANGED <<wpc, wfan, wval>>)
      <4>1. ASSUME NEW c \in Callers, CallStep(c) PROVE UNCHANGED <<ecFan, cur, wpc, wfan, wval>>
        BY <4>1 DEF CallStep, CallSet, CallAuto, CallProfile, CallMode, Call, ecVars, fanVars, workVars
      <4>2. \A t \in Threads : ~ThreadStep(t)
        BY DEF AllIdle, Idle, ThreadStep, SetCur, SetTest, SetStart, SetQueue, SetWrite, AutoCancel, AutoWait,
           AutoClear, AutoRead, AutoWrite, AutoZero, ProfileRead, ProfileWrite, ModeWrite
      <4>3. CASE WorkStep
        BY <2>3, <4>3 DEF WorkStep, WorkStart, WorkRead, WorkOff, WorkOn, WorkRequeue, ecVars, fanVars
      <4>4. CASE CoreStep \/ SystemStep \/ UNCHANGED vars
        BY <4>4 DEF CoreStep, RemoveWait, RemoveUnset, ProbeWrite, SystemStep, Suspend, Resume, Remove, Bind, vars,
           ecVars, fanVars, workVars
      <4> QED
        BY <4>1, <4>2, <4>3, <4>4 DEF Next
    <3> QED
      BY <2>3, <3>1 DEF Stale
  <2> QED
    BY <2>1, <2>2, <2>3
<1> QED
  BY <1>1, TypeCorrect, PTL DEF Spec, RestartsRepair
================================================================================
