-------------------------- MODULE UniwillFanRestart --------------------------
(***************************************************************************)
(* Fan control on Uniwill devices WITHOUT the universal EC fan tables:     *)
(* the "old workaround using full fan mode" of src/src/uniwill_keyboard.h. *)
(*                                                                         *)
(* The EC obeys the speeds written to 0x1804 / 0x1809 only while the full  *)
(* fan mode bit (0x40 of 0x0751) is set, and it starts ramping the fans up *)
(* after a while, so a self-requeueing delayed work toggles the bit every  *)
(* 50 minutes and rewrites the speeds.  The state of that work, the two    *)
(* requested speeds and the flag direct_fan_control_started are plain      *)
(* static variables, touched without a lock by                             *)
(*   - the threads in the ioctls of tuxedo_io (uw_set_fan,                 *)
(*     uw_set_fan_auto, uw_set_performance_profile_v1, W_UW_MODE),         *)
(*   - the kworker that runs restart_direct_fan_control_work_handler,      *)
(*   - the PM core (suspend, resume) and the driver core (remove, probe).  *)
(*                                                                         *)
(* One register access is one step: the EC interface serialises accesses   *)
(* with uniwill_ec_lock, and holds nothing between two of them.            *)
(***************************************************************************)
EXTENDS Naturals

CONSTANTS
    Callers,     \* threads inside an ioctl of /dev/tuxedo_io
    Pm,          \* the thread that runs the suspend and resume callbacks
    Core,        \* the thread that unbinds and binds the uniwill driver
    Calls,       \* which ioctls the callers use, a subset of CallKinds
    Speeds,      \* fan speeds, with 0
    Profiles,    \* values of the performance bits 0xb0 of 0x0751, with Balanced
    Balanced,    \* the value 0x00 of these bits
    Garbled,     \* the value 0xb0: what a failed read (data 0xfe) shows
    RampWrites,  \* rounds of speed writes in one restart (10 in the code)
    MaxCalls,    \* bound: ioctls made
    MaxSuspends, \* bound: suspend/resume cycles
    MaxRebinds,  \* bound: driver remove/probe cycles
    MaxFaults    \* bound: EC accesses that fail

CallKinds == {"set", "auto", "profile", "mode"}

ASSUME ThreadAssumption == Pm \notin Callers /\ Core \notin Callers /\ Pm # Core
ASSUME DataAssumption == /\ Calls \subseteq CallKinds
                         /\ 0 \in Speeds
                         /\ Balanced \in Profiles
                         /\ Garbled \notin Profiles
ASSUME BoundAssumption == /\ RampWrites \in Nat \ {0}
                          /\ MaxCalls \in Nat
                          /\ MaxSuspends \in Nat
                          /\ MaxRebinds \in Nat
                          /\ MaxFaults \in Nat

Threads == Callers \cup {Pm, Core}
Fans    == {0, 1}
Modes   == [full : BOOLEAN, prof : Profiles \cup {Garbled}]

VARIABLES
    ecMode,    \* EC 0x0751: the full fan mode bit and the performance bits
    ecFan,     \* EC 0x1804 and 0x1809
    cur,       \* direct_fan_control_current_value_fan0/1
    save,      \* direct_fan_control_current_value_fan0/1_suspend_save
    started,   \* direct_fan_control_started
    susp,      \* direct_fan_control_suspend
    pending,   \* the delayed work waits for its timer or for a kworker
    wpc,       \* where the kworker is in the work handler, "idle" if not running
    wmode,     \* mode_data in set_full_fan_mode, called from the handler
    wfan,      \* the fan the handler writes next
    wval,      \* the speed it has read for that fan
    wround,    \* i, the rounds done
    pc,        \* where each thread is
    arg,       \* a thread's fan_index, fan_speed and mode_data
    power,     \* "awake", "suspending", "asleep", "resuming"
    bound,     \* "bound", "removing", "unbound": the driver and its interface
    asked,     \* history: the speed last asked for, per fan
    manual,    \* history: the last fan ioctl was a set, not auto
    askedProf, \* history: the performance profile last asked for
    used,      \* history: which thread has made which kind of call
    calls, suspends, rebinds, faults    \* counters for the bounds

ecVars     == <<ecMode, ecFan>>
fanVars    == <<cur, save, started, susp>>
workVars   == <<pending, wpc, wmode, wfan, wval, wround>>
threadVars == <<pc, arg>>
sysVars    == <<power, bound>>
histVars   == <<asked, manual, askedProf, used>>
countVars  == <<calls, suspends, rebinds, faults>>
vars == <<ecVars, fanVars, workVars, threadVars, sysVars, histVars, countVars>>

\* A thread's locals end with its call.
NoArg == [fan |-> 0, speed |-> 0, prof |-> Balanced,
          mode |-> [full |-> FALSE, prof |-> Balanced]]

Idle(t) == pc[t] = "idle"
Goto(t, l) == pc' = [pc EXCEPT ![t] = l]

-----------------------------------------------------------------------------
(***************************************************************************)
(* EC accesses.  They reach the EC only while an interface is registered;  *)
(* a read that fails leaves 0xfe in the caller's byte (every bit but bit 0 *)
(* set), or, with no interface, whatever was there before.                 *)
(***************************************************************************)

Reachable == bound # "unbound"

ReadMode(v) ==
    \/ Reachable /\ v = ecMode /\ UNCHANGED faults
    \/ /\ Reachable /\ faults < MaxFaults
       /\ v = [full |-> TRUE, prof |-> Garbled]
       /\ faults' = faults + 1
    \/ ~Reachable /\ v \in Modes /\ UNCHANGED faults

WriteMode(v) ==
    \/ Reachable /\ ecMode' = v /\ UNCHANGED faults
    \/ Reachable /\ faults < MaxFaults /\ faults' = faults + 1 /\ UNCHANGED ecMode
    \/ ~Reachable /\ UNCHANGED <<ecMode, faults>>

WriteFan(f, v) ==
    \/ Reachable /\ ecFan' = [ecFan EXCEPT ![f] = v] /\ UNCHANGED faults
    \/ Reachable /\ faults < MaxFaults /\ faults' = faults + 1 /\ UNCHANGED ecFan
    \/ ~Reachable /\ UNCHANGED <<ecFan, faults>>

\* Mutant: full fan mode is only ever switched off.
set_full_fan_mode_off(enable, m) == [m EXCEPT !.full = FALSE]

\* What set_full_fan_mode leaves in 0x0751, given what it read.  Asked to set
\* a bit that is set already, it clears it.
set_full_fan_mode(enable, m) ==
    IF enable /\ ~m.full THEN [m EXCEPT !.full = TRUE]
    ELSE [m EXCEPT !.full = FALSE]

-----------------------------------------------------------------------------
(***************************************************************************)
(* The kernel's delayed work: pending once however often it is scheduled,  *)
(* run by one kworker at a time, possibly pending again while it runs.     *)
(* cancel_delayed_work_sync takes the pending bit and keeps it until the   *)
(* handler has returned, so that scheduling does nothing meanwhile.        *)
(***************************************************************************)

Cancelling == \E t \in Threads : pc[t] \in {"auto_wait", "remove_wait"}

schedule_delayed_work(when) ==
    pending' = IF pending = "no" /\ ~Cancelling THEN when ELSE pending

-----------------------------------------------------------------------------
(***************************************************************************)
(* The end of a call.  Resume calls uw_set_fan twice, for fan 0 and then   *)
(* for fan 1; suspend ends with uw_set_fan_auto.                           *)
(***************************************************************************)

Finish(t) == Goto(t, "idle") /\ arg' = [arg EXCEPT ![t] = NoArg]

Return(t) ==
    IF t # Pm
    THEN Finish(t) /\ UNCHANGED power
    ELSE \/ power = "suspending" /\ Finish(t) /\ power' = "asleep"
         \/ power = "resuming" /\ arg[t].fan = 1 /\ Finish(t) /\ power' = "awake"
         \/ /\ power = "resuming" /\ arg[t].fan = 0
            /\ Goto(t, "set_cur")
            /\ arg' = [arg EXCEPT ![t].fan = 1, ![t].speed = save[1]]
            /\ UNCHANGED power

(***************************************************************************)
(* direct_fan_control(fan_index, fan_speed, true), reached from uw_set_fan *)
(***************************************************************************)

SetCur(t) ==
    /\ pc[t] = "set_cur"
    /\ cur' = [cur EXCEPT ![arg[t].fan] = arg[t].speed]
    /\ Goto(t, "set_test")
    /\ UNCHANGED <<ecVars, save, started, susp, workVars, arg, sysVars, histVars, countVars>>

SetTest(t) ==
    /\ pc[t] = "set_test"
    /\ Goto(t, IF started THEN "set_write" ELSE "set_start")
    /\ UNCHANGED <<ecVars, fanVars, workVars, arg, sysVars, histVars, countVars>>

SetStart(t) ==
    /\ pc[t] = "set_start"
    /\ started' = TRUE
    /\ Goto(t, "set_queue")
    /\ UNCHANGED <<ecVars, cur, save, susp, workVars, arg, sysVars, histVars, countVars>>

SetQueue(t) ==
    /\ pc[t] = "set_queue"
    /\ schedule_delayed_work("now")
    /\ Return(t)
    /\ UNCHANGED <<ecVars, fanVars, wpc, wmode, wfan, wval, wround, bound, histVars, countVars>>

SetWrite(t) ==
    /\ pc[t] = "set_write"
    /\ WriteFan(arg[t].fan, arg[t].speed)
    /\ Return(t)
    /\ UNCHANGED <<ecMode, fanVars, workVars, bound, histVars, calls, suspends, rebinds>>

(***************************************************************************)
(* uw_set_fan_auto                                                         *)
(***************************************************************************)

AutoCancel(t) ==
    /\ pc[t] = "auto_cancel"
    /\ pending' = "no"
    /\ Goto(t, "auto_wait")
    /\ UNCHANGED <<ecVars, fanVars, wpc, wmode, wfan, wval, wround, arg, sysVars, histVars, countVars>>

\* Mutant: cancel_delayed_work, without _sync.
HandlerNotAwaited == TRUE

\* cancel_delayed_work_sync returns when the handler does not run.
HandlerReturned == wpc = "idle"

AutoWait(t) ==
    /\ pc[t] = "auto_wait"
    /\ HandlerReturned
    /\ Goto(t, "auto_clear")
    /\ UNCHANGED <<ecVars, fanVars, workVars, arg, sysVars, histVars, countVars>>

AutoClear(t) ==
    /\ pc[t] = "auto_clear"
    /\ started' = FALSE
    /\ Goto(t, "auto_read")
    /\ UNCHANGED <<ecVars, cur, save, susp, workVars, arg, sysVars, histVars, countVars>>

AutoRead(t) ==
    /\ pc[t] = "auto_read"
    /\ \E v \in Modes : ReadMode(v) /\ arg' = [arg EXCEPT ![t].mode = v]
    /\ Goto(t, "auto_write")
    /\ UNCHANGED <<ecVars, fanVars, workVars, sysVars, histVars, calls, suspends, rebinds>>

AutoWrite(t) ==
    /\ pc[t] = "auto_write"
    /\ WriteMode([arg[t].mode EXCEPT !.full = FALSE])
    /\ Goto(t, "auto_zero")
    /\ UNCHANGED <<ecFan, fanVars, workVars, arg, sysVars, histVars, calls, suspends, rebinds>>

AutoZero(t) ==
    /\ pc[t] = "auto_zero"
    /\ cur' = [f \in Fans |-> 0]
    /\ Return(t)
    /\ UNCHANGED <<ecVars, save, started, susp, workVars, bound, histVars, countVars>>

(***************************************************************************)
(* uw_set_performance_profile_v1.  Its result is a u32, so the test        *)
(* result >= 0 after the read lets a failed read through.                  *)
(***************************************************************************)

ProfileRead(t) ==
    /\ pc[t] = "profile_read"
    /\ \E v \in Modes : ReadMode(v) /\ arg' = [arg EXCEPT ![t].mode = v]
    /\ Goto(t, "profile_write")
    /\ UNCHANGED <<ecVars, fanVars, workVars, sysVars, histVars, calls, suspends, rebinds>>

ProfileWrite(t) ==
    /\ pc[t] = "profile_write"
    /\ WriteMode([arg[t].mode EXCEPT !.prof = arg[t].prof])
    /\ Finish(t)
    /\ UNCHANGED <<ecFan, fanVars, workVars, sysVars, histVars, calls, suspends, rebinds>>

\* W_UW_MODE: the byte from user space goes to 0x0751 as it is.
ModeWrite(t) ==
    /\ pc[t] = "mode_write"
    /\ WriteMode(arg[t].mode)
    /\ Finish(t)
    /\ UNCHANGED <<ecFan, fanVars, workVars, sysVars, histVars, calls, suspends, rebinds>>

(***************************************************************************)
(* Ioctls begin.  User threads are frozen while the system is not awake.   *)
(***************************************************************************)

Call(c, kind) ==
    /\ kind \in Calls
    /\ Idle(c) /\ power = "awake" /\ calls < MaxCalls
    /\ calls' = calls + 1
    /\ used' = used \cup {<<c, kind>>}
    /\ UNCHANGED <<ecVars, fanVars, workVars, sysVars, suspends, rebinds, faults>>

CallSet(c, f, s) ==
    /\ Call(c, "set")
    /\ arg' = [arg EXCEPT ![c].fan = f, ![c].speed = s]
    /\ Goto(c, "set_cur")
    /\ asked' = [asked EXCEPT ![f] = s] /\ manual' = TRUE /\ UNCHANGED askedProf

CallAuto(c) ==
    /\ Call(c, "auto")
    /\ Goto(c, "auto_cancel") /\ UNCHANGED arg
    /\ asked' = [f \in Fans |-> 0] /\ manual' = FALSE /\ UNCHANGED askedProf

CallProfile(c, p) ==
    /\ Call(c, "profile")
    /\ arg' = [arg EXCEPT ![c].prof = p]
    /\ Goto(c, "profile_read")
    /\ askedProf' = p /\ UNCHANGED <<asked, manual>>

CallMode(c, m) ==
    /\ Call(c, "mode")
    /\ arg' = [arg EXCEPT ![c].mode = m]
    /\ Goto(c, "mode_write")
    /\ askedProf' = m.prof /\ UNCHANGED <<asked, manual>>

(***************************************************************************)
(* restart_direct_fan_control_work_handler                                 *)
(***************************************************************************)

\* The timer expires and a kworker picks the work up.
WorkStart ==
    /\ pending # "no" /\ wpc = "idle"
    /\ pending' = "no" /\ wpc' = "off_read"
    /\ UNCHANGED <<ecVars, fanVars, wmode, wfan, wval, wround, threadVars, sysVars, histVars, countVars>>

WorkRead(from, to) ==
    /\ wpc = from /\ wpc' = to
    /\ \E v \in Modes : ReadMode(v) /\ wmode' = v
    /\ UNCHANGED <<ecVars, fanVars, pending, wfan, wval, wround, threadVars, sysVars, histVars,
                   calls, suspends, rebinds>>

\* set_full_fan_mode(false) writes only if the bit was set.
WorkOff ==
    /\ wpc = "off_write" /\ wpc' = "on_read"
    /\ IF wmode.full THEN WriteMode(set_full_fan_mode(FALSE, wmode))
                     ELSE UNCHANGED <<ecMode, faults>>
    /\ UNCHANGED <<ecFan, fanVars, pending, wmode, wfan, wval, wround, threadVars, sysVars, histVars,
                   calls, suspends, rebinds>>

WorkOn ==
    /\ wpc = "on_write" /\ wpc' = "load"
    /\ WriteMode(set_full_fan_mode(TRUE, wmode))
    /\ wfan' = 0 /\ wround' = 0
    /\ UNCHANGED <<ecFan, fanVars, pending, wmode, wval, threadVars, sysVars, histVars,
                   calls, suspends, rebinds>>

\* Mutant: both registers get the speed of fan 0.
SpeedOfFanZero == cur[0]

SpeedToWrite == cur[wfan]

WorkLoad ==
    /\ wpc = "load" /\ wpc' = "store"
    /\ wval' = SpeedToWrite
    /\ UNCHANGED <<ecVars, fanVars, pending, wmode, wfan, wround, threadVars, sysVars, histVars, countVars>>

\* Mutant: one round too many.
OneMoreRound(r) == r <= RampWrites

MoreRounds(r) == r < RampWrites

\* Mutant: the loop counter is never incremented.
SameRound == wround

\* A round ends with the write of fan 1.
NextRound == wround + wfan

WorkStore ==
    /\ wpc = "store"
    /\ WriteFan(wfan, wval)
    /\ wfan' = 1 - wfan
    /\ wround' = NextRound
    /\ wpc' = IF MoreRounds(wround') THEN "load" ELSE "requeue"
    /\ UNCHANGED <<ecMode, fanVars, pending, wmode, wval, threadVars, sysVars, histVars,
                   calls, suspends, rebinds>>

\* Mutant: the handler does not schedule itself again.
NoRequeue == UNCHANGED pending

Requeue == schedule_delayed_work("later")

WorkRequeue ==
    /\ wpc = "requeue" /\ wpc' = "idle"
    /\ Requeue
    /\ wmode' = NoArg.mode /\ wfan' = 0 /\ wval' = 0 /\ wround' = 0
    /\ UNCHANGED <<ecVars, fanVars, threadVars, sysVars, histVars, countVars>>

(***************************************************************************)
(* uniwill_keyboard_suspend and uniwill_keyboard_resume                    *)
(***************************************************************************)

\* Mutant: the speeds are not saved before uw_set_fan_auto zeroes them.
SpeedsNotSaved == save

SpeedsToSave == cur

Suspend ==
    /\ power = "awake" /\ bound = "bound" /\ suspends < MaxSuspends
    /\ \A t \in Threads : Idle(t)
    /\ suspends' = suspends + 1
    /\ IF started
       THEN /\ susp' = TRUE /\ save' = SpeedsToSave
            /\ power' = "suspending" /\ Goto(Pm, "auto_cancel")
       ELSE power' = "asleep" /\ UNCHANGED <<susp, save, pc>>
    /\ UNCHANGED <<ecVars, cur, started, workVars, arg, bound, histVars, calls, rebinds, faults>>

Resume ==
    /\ power = "asleep"
    /\ IF susp
       THEN /\ susp' = FALSE
            /\ power' = "resuming" /\ Goto(Pm, "set_cur")
            /\ arg' = [arg EXCEPT ![Pm].fan = 0, ![Pm].speed = save[0]]
       ELSE power' = "awake" /\ UNCHANGED <<susp, pc, arg>>
    /\ UNCHANGED <<ecVars, cur, save, started, workVars, bound, histVars, countVars>>

(***************************************************************************)
(* uniwill_keyboard_remove ends with cancel_delayed_work_sync and leaves   *)
(* direct_fan_control_started alone; then uniwill_remove_interface clears  *)
(* the interface.  Probe starts with 0x00 in 0x0751.                       *)
(***************************************************************************)

Remove ==
    /\ bound = "bound" /\ Idle(Core) /\ power = "awake" /\ rebinds < MaxRebinds
    /\ rebinds' = rebinds + 1
    /\ bound' = "removing" /\ pending' = "no" /\ Goto(Core, "remove_wait")
    /\ UNCHANGED <<ecVars, fanVars, wpc, wmode, wfan, wval, wround, arg, power, histVars,
                   calls, suspends, faults>>

RemoveWait ==
    /\ pc[Core] = "remove_wait"
    /\ HandlerReturned
    /\ Goto(Core, "remove_unset")
    /\ UNCHANGED <<ecVars, fanVars, workVars, arg, sysVars, histVars, countVars>>

RemoveUnset ==
    /\ pc[Core] = "remove_unset"
    /\ bound' = "unbound" /\ Goto(Core, "idle")
    /\ UNCHANGED <<ecVars, fanVars, workVars, arg, power, histVars, countVars>>

Bind ==
    /\ bound = "unbound" /\ power = "awake"
    /\ bound' = "bound" /\ Goto(Core, "probe_write")
    /\ UNCHANGED <<ecVars, fanVars, workVars, arg, power, histVars, countVars>>

ProbeWrite ==
    /\ pc[Core] = "probe_write"
    /\ WriteMode([full |-> FALSE, prof |-> Balanced])
    /\ Goto(Core, "idle")
    /\ UNCHANGED <<ecFan, fanVars, workVars, arg, sysVars, histVars, calls, suspends, rebinds>>

-----------------------------------------------------------------------------
Init ==
    /\ ecMode = [full |-> FALSE, prof |-> Balanced]
    /\ ecFan = [f \in Fans |-> 0]
    /\ cur = [f \in Fans |-> 0] /\ save = [f \in Fans |-> 0]
    /\ started = FALSE /\ susp = FALSE
    /\ pending = "no" /\ wpc = "idle" /\ wmode = NoArg.mode
    /\ wfan = 0 /\ wval = 0 /\ wround = 0
    /\ pc = [t \in Threads |-> "idle"]
    /\ arg = [t \in Threads |-> NoArg]
    /\ power = "awake" /\ bound = "bound"
    /\ asked = [f \in Fans |-> 0] /\ manual = FALSE /\ askedProf = Balanced /\ used = {}
    /\ calls = 0 /\ suspends = 0 /\ rebinds = 0 /\ faults = 0

CallStep(c) ==
    \/ \E f \in Fans, s \in Speeds : CallSet(c, f, s)
    \/ CallAuto(c)
    \/ \E p \in Profiles : CallProfile(c, p)
    \/ \E full \in BOOLEAN, p \in Profiles : CallMode(c, [full |-> full, prof |-> p])

ThreadStep(t) ==
    \/ SetCur(t) \/ SetTest(t) \/ SetStart(t) \/ SetQueue(t) \/ SetWrite(t)
    \/ AutoCancel(t) \/ AutoWait(t) \/ AutoClear(t) \/ AutoRead(t) \/ AutoWrite(t) \/ AutoZero(t)
    \/ ProfileRead(t) \/ ProfileWrite(t) \/ ModeWrite(t)

WorkStep ==
    \/ WorkStart
    \/ WorkRead("off_read", "off_write") \/ WorkOff
    \/ WorkRead("on_read", "on_write") \/ WorkOn
    \/ WorkLoad \/ WorkStore \/ WorkRequeue

CoreStep == RemoveWait \/ RemoveUnset \/ ProbeWrite

SystemStep == Suspend \/ Resume \/ Remove \/ Bind

Next ==
    \/ \E c \in Callers : CallStep(c)
    \/ \E t \in Threads : ThreadStep(t)
    \/ WorkStep
    \/ CoreStep
    \/ SystemStep

Spec == Init /\ [][Next]_vars

(***************************************************************************)
(* A thread in the kernel is scheduled again, the timer of a pending work  *)
(* expires and kworkers run.  Nobody owes another ioctl, suspend or unbind.*)
(***************************************************************************)
Fairness ==
    /\ \A t \in Threads : WF_vars(ThreadStep(t))
    /\ WF_vars(WorkStep)
    /\ WF_vars(CoreStep)

FairSpec == Spec /\ Fairness

-----------------------------------------------------------------------------
Labels     == {"idle", "set_cur", "set_test", "set_start", "set_queue", "set_write",
               "auto_cancel", "auto_wait", "auto_clear", "auto_read", "auto_write", "auto_zero",
               "profile_read", "profile_write", "mode_write",
               "remove_wait", "remove_unset", "probe_write"}
WorkLabels == {"idle", "off_read", "off_write", "on_read", "on_write", "load", "store", "requeue"}
Arguments  == [fan : Fans, speed : Speeds, mode : Modes, prof : Profiles \cup {Garbled}]

EcTypes     == ecMode \in Modes /\ ecFan \in [Fans -> Speeds]
FanTypes    == /\ cur \in [Fans -> Speeds] /\ save \in [Fans -> Speeds]
               /\ started \in BOOLEAN /\ susp \in BOOLEAN
WorkTypes   == /\ pending \in {"no", "now", "later"}
               /\ wpc \in WorkLabels /\ wmode \in Modes /\ wfan \in Fans /\ wval \in Speeds
               /\ wround \in 0..RampWrites
               /\ wpc \in {"load", "store"} => wround < RampWrites
ThreadTypes == pc \in [Threads -> Labels] /\ arg \in [Threads -> Arguments]
SysTypes    == /\ power \in {"awake", "suspending", "asleep", "resuming"}
               /\ bound \in {"bound", "removing", "unbound"}
HistTypes   == /\ asked \in [Fans -> Speeds] /\ manual \in BOOLEAN
               /\ askedProf \in Profiles \cup {Garbled}
               /\ used \subseteq Callers \X CallKinds
CountTypes  == /\ calls \in 0..MaxCalls /\ suspends \in 0..MaxSuspends
               /\ rebinds \in 0..MaxRebinds /\ faults \in 0..MaxFaults

\* Every variable has its type; in particular the handler never counts past
\* its last round.
TypeOK == /\ EcTypes /\ FanTypes /\ WorkTypes /\ ThreadTypes
          /\ SysTypes /\ HistTypes /\ CountTypes

AllIdle == \A t \in Threads : Idle(t)

\* One program has driven the fans so far, and nothing else has been written
\* to 0x0751 behind their back.
OneControlProgram ==
    /\ \A x, y \in used : x[1] = y[1]
    /\ \A x \in used : x[2] \in {"set", "auto"}
    /\ rebinds = 0

\* While direct_fan_control_started is set, nothing but the restart work
\* keeps the EC from taking the fans over: the work is pending or running,
\* or a thread is about to schedule it, or uw_set_fan_auto is about to clear
\* the flag.  However many threads call, whatever the EC answers; but only
\* until the driver is removed for the first time.
Supervised ==
    started /\ rebinds = 0 =>
        \/ pending # "no"
        \/ wpc # "idle"
        \/ \E t \in Threads : pc[t] \in {"set_queue", "auto_wait", "auto_clear"}

\* With one control program and a working EC: after a restart, and until the
\* next one, the fans really are in full fan mode.
FullModeBetweenRestarts ==
    /\ started /\ pending = "later" /\ wpc = "idle" /\ AllIdle
    /\ OneControlProgram /\ faults = 0
    => ecMode.full

\* With one control program and a working EC: once the driver holds the fans
\* no longer, no late restart can put them back to full fan mode, and the
\* speeds are forgotten.
AutoIsFinal ==
    ~started /\ AllIdle /\ OneControlProgram /\ faults = 0
    => /\ pending = "no" /\ wpc = "idle"
       /\ ~ecMode.full
       /\ \A f \in Fans : cur[f] = 0

\* With one control program: suspend goes through uw_set_fan_auto, which
\* zeroes both speeds, and yet an awake system has what was last asked for.
SuspendKeepsRequest ==
    power = "awake" /\ AllIdle /\ OneControlProgram
    => (started <=> manual) /\ (manual => cur = asked)

\* A kworker that read a speed just before uw_set_fan changed it can write
\* the old speed after the new one.  Once the callers rest, a later restart
\* repairs that for good, however many they are and although some accesses
\* fail.
RestartRepairsSpeed ==
    <>[]AllIdle => <>[](started /\ rebinds = 0 => ecFan = cur)

\* uw_set_fan_auto and remove wait for the restart handler, which requeues
\* itself and which other callers schedule: neither waits for ever, and no
\* other call does.
EveryCallReturns == \A t \in Threads : []<>Idle(t)

-----------------------------------------------------------------------------
\* The speed registers work in full fan mode only: it is "required for old
\* fancontrol".  When uw_set_fan counts on an earlier restart, and writes the
\* speed itself, that restart has left the EC in full fan mode.
FullModeWhenSpeedIsWritten ==
    [][\A t \in Threads :
          /\ SetWrite(t) /\ wpc = "idle" /\ pending # "now"
          /\ bound = "bound" /\ Idle(Core) /\ faults = 0
          => ecMode.full]_vars

\* Set profile 1-3 to 0xa0, 0x00 or 0x10: when the calls have returned and
\* the kworker rests, the EC has the profile that was set last.
ProfileIsSet ==
    AllIdle /\ wpc = "idle" /\ rebinds = 0 /\ faults = 0 => ecMode.prof = askedProf

=============================================================================
