------------------------------ MODULE Nb05Profile ------------------------------
(***************************************************************************)
(* The power profile of NB05 devices: the platform_profile attribute, the  *)
(* rewrite work and the timer of                                           *)
(* src/src/tuxedo_nb05/tuxedo_nb05_power_profiles.c, and the mode events   *)
(* of src/src/tuxedo_nb05/tuxedo_nb05_keyboard.c.                          *)
(*                                                                         *)
(* The mode key makes the firmware change the profile on its own; the      *)
(* driver is to put back the profile that was last chosen in software.  It *)
(* learns of the change from a WMI event.  A write of the driver makes the *)
(* firmware send the same event, so for 300 ms after a write events are    *)
(* ignored, and when that time is over the driver looks again.             *)
(*                                                                         *)
(* profile_changed_by_driver_flag and last_chosen_profile are touched by   *)
(* the attribute, the kworker, the timer and the event without a lock.     *)
(* nb05_wmi_aa_access_lock makes a firmware call one step.                 *)
(***************************************************************************)
EXTENDS Naturals

CONSTANTS
    Storers,     \* threads that write the attribute, each through its own file
    Profiles,    \* low-power, balanced, performance
    MaxStores,   \* bound: writes of the attribute
    MaxKeys,     \* bound: presses of the mode key
    MaxEvents,   \* bound: events not yet delivered
    MaxFaults    \* bound: firmware calls that fail

ASSUME ProfileAssumption == /\ MaxStores \in Nat /\ MaxKeys \in Nat
                            /\ MaxEvents \in Nat \ {0} /\ MaxFaults \in Nat

VARIABLES
    ec,        \* firmware: the profile in force
    events,    \* mode events on their way to the keyboard driver
    last,      \* last_chosen_profile
    flag,      \* profile_changed_by_driver_flag
    armed,     \* profile_changed_timer is pending
    tpc,       \* where the timer callback is
    work,      \* nb05_rewrite_profile_work is queued
    wpc,       \* where the kworker is in rewrite_last_profile_internal
    wval,      \* current_profile, then the argument of write_profile
    spc, sval, \* where each storer is, and its platform_profile_value
    late,      \* history: the timer expired in the middle of a store
    blind,     \* history: a firmware call of the kworker failed
    stores, keys, faults    \* counters for the bounds

fwVars     == <<ec, events>>
timerVars  == <<armed, tpc>>
workerVars == <<wpc, wval>>
storeVars  == <<spc, sval>>
countVars  == <<stores, keys, faults>>
vars == <<fwVars, last, flag, timerVars, work, workerVars, storeVars, late, blind, countVars>>

SGoto(s, from, to) == spc[s] = from /\ spc' = [spc EXCEPT ![s] = to]
WGoto(from, to) == wpc = from /\ wpc' = to

\* The firmware may or may not send an event for a write of the driver.
Emit == events' \in {events} \cup (IF events < MaxEvents THEN {events + 1} ELSE {})

\* A firmware call that fails has changed nothing.
Fail == faults < MaxFaults /\ faults' = faults + 1

\* rewrite_last_profile: a queued work is not queued twice, a running one is
\* queued again.
rewrite_last_profile == work' = TRUE

-----------------------------------------------------------------------------
(* platform_profile_store *)

StoreBegin(s, p) ==
    /\ stores < MaxStores /\ stores' = stores + 1
    /\ SGoto(s, "idle", "flag") /\ sval' = [sval EXCEPT ![s] = p]
    /\ UNCHANGED <<fwVars, last, flag, timerVars, work, workerVars, late, blind, keys, faults>>

\* write_profile begins with profile_changed_timer_bump: the flag,
StoreFlag(s) ==
    /\ SGoto(s, "flag", "arm")
    /\ flag' = TRUE
    /\ UNCHANGED <<fwVars, last, timerVars, work, workerVars, sval, late, blind, countVars>>

\* then the timer,
StoreArm(s) ==
    /\ SGoto(s, "arm", "write")
    /\ armed' = TRUE
    /\ UNCHANGED <<fwVars, last, flag, tpc, work, workerVars, sval, late, blind, countVars>>

\* then the firmware call.  A store that fails does not choose the profile.
StoreWrite(s) ==
    /\ \/ SGoto(s, "write", "last") /\ ec' = sval[s] /\ Emit /\ UNCHANGED faults
       \/ SGoto(s, "write", "idle") /\ Fail /\ UNCHANGED fwVars
    /\ UNCHANGED <<last, flag, timerVars, work, workerVars, sval, late, blind, stores, keys>>

StoreLast(s) ==
    /\ SGoto(s, "last", "idle")
    /\ last' = sval[s]
    /\ UNCHANGED <<fwVars, flag, timerVars, work, workerVars, sval, late, blind, countVars>>

-----------------------------------------------------------------------------
(* profile_changed_timeout *)

TimerExpire ==
    /\ armed /\ tpc = "idle"
    /\ armed' = FALSE /\ tpc' = "flag"
    /\ late' = (late \/ \E s \in Storers : spc[s] # "idle")
    /\ UNCHANGED <<fwVars, last, flag, work, workerVars, storeVars, blind, countVars>>

TimerFlag ==
    /\ tpc = "flag" /\ tpc' = "rewrite"
    /\ flag' = FALSE
    /\ UNCHANGED <<fwVars, last, armed, work, workerVars, storeVars, late, blind, countVars>>

\* Mutant: the callback only clears the flag.
NoRewrite == UNCHANGED work

LookAgain == rewrite_last_profile

TimerRewrite ==
    /\ tpc = "rewrite" /\ tpc' = "idle"
    /\ LookAgain
    /\ UNCHANGED <<fwVars, last, flag, armed, workerVars, storeVars, late, blind, countVars>>

-----------------------------------------------------------------------------
(* rewrite_last_profile_internal, in a kworker *)

WorkStart ==
    /\ work /\ WGoto("idle", "read")
    /\ work' = FALSE
    /\ UNCHANGED <<fwVars, last, flag, timerVars, wval, storeVars, late, blind, countVars>>

WorkRead ==
    /\ \/ WGoto("read", "compare") /\ wval' = ec /\ UNCHANGED <<faults, blind>>
       \/ WGoto("read", "idle") /\ Fail /\ blind' = TRUE /\ UNCHANGED wval
    /\ UNCHANGED <<fwVars, last, flag, timerVars, work, storeVars, late, stores, keys>>

\* Mutant: the profile is written without looking at the current one.
AlwaysDiffers == TRUE

Differs == wval # last

WorkCompare ==
    /\ WGoto("compare", IF Differs THEN "flag" ELSE "idle")
    /\ wval' = IF Differs THEN last ELSE wval
    /\ UNCHANGED <<fwVars, last, flag, timerVars, work, storeVars, late, blind, countVars>>

\* The compiler may use the value it compared with, or load it again.
WorkFlag ==
    /\ WGoto("flag", "arm")
    /\ wval' \in {wval, last}
    /\ flag' = TRUE
    /\ UNCHANGED <<fwVars, last, timerVars, work, storeVars, late, blind, countVars>>

WorkArm ==
    /\ WGoto("arm", "write")
    /\ armed' = TRUE
    /\ UNCHANGED <<fwVars, last, flag, tpc, work, wval, storeVars, late, blind, countVars>>

WorkWrite ==
    /\ WGoto("write", "idle")
    /\ \/ ec' = wval /\ Emit /\ UNCHANGED <<faults, blind>>
       \/ Fail /\ blind' = TRUE /\ UNCHANGED fwVars
    /\ UNCHANGED <<last, flag, timerVars, work, wval, storeVars, late, stores, keys>>

-----------------------------------------------------------------------------
\* The mode key: the firmware changes the profile and sends an event.
Key(p) ==
    /\ keys < MaxKeys /\ keys' = keys + 1
    /\ events < MaxEvents /\ events' = events + 1
    /\ ec' = p
    /\ UNCHANGED <<last, flag, timerVars, work, workerVars, storeVars, late, blind, stores, faults>>

profile_changed_by_driver == flag

\* tuxedo_nb05_keyboard_notify, for the three mode events
Notify ==
    /\ events > 0 /\ events' = events - 1
    /\ IF profile_changed_by_driver THEN UNCHANGED work ELSE rewrite_last_profile
    /\ UNCHANGED <<ec, last, flag, timerVars, workerVars, storeVars, late, blind, countVars>>

\* Probe has read the current profile.
Init ==
    /\ ec \in Profiles /\ last = ec
    /\ events = 0 /\ flag = FALSE /\ armed = FALSE /\ tpc = "idle"
    /\ work = FALSE /\ wpc = "idle" /\ wval = ec
    /\ spc = [s \in Storers |-> "idle"] /\ sval = [s \in Storers |-> ec]
    /\ late = FALSE /\ blind = FALSE
    /\ stores = 0 /\ keys = 0 /\ faults = 0

StoreStep(s) == StoreFlag(s) \/ StoreArm(s) \/ StoreWrite(s) \/ StoreLast(s)
TimerStep    == TimerExpire \/ TimerFlag \/ TimerRewrite
WorkStep     == WorkStart \/ WorkRead \/ WorkCompare \/ WorkFlag \/ WorkArm \/ WorkWrite

Next ==
    \/ \E s \in Storers : (\E p \in Profiles : StoreBegin(s, p)) \/ StoreStep(s)
    \/ TimerStep \/ WorkStep
    \/ \E p \in Profiles : Key(p)
    \/ Notify

Spec == Init /\ [][Next]_vars

(***************************************************************************)
(* Threads in the kernel go on, timers expire, queued work runs, events    *)
(* are delivered.  Nobody has to press the key or write the attribute.     *)
(***************************************************************************)
Fairness ==
    /\ \A s \in Storers : WF_vars(StoreStep(s))
    /\ WF_vars(TimerStep) /\ WF_vars(WorkStep) /\ WF_vars(Notify)

FairSpec == Spec /\ Fairness

-----------------------------------------------------------------------------
TypeOK ==
    /\ ec \in Profiles /\ last \in Profiles /\ events \in 0..MaxEvents
    /\ flag \in BOOLEAN /\ armed \in BOOLEAN /\ work \in BOOLEAN
    /\ tpc \in {"idle", "flag", "rewrite"}
    /\ wpc \in {"idle", "read", "compare", "flag", "arm", "write"} /\ wval \in Profiles
    /\ spc \in [Storers -> {"idle", "flag", "arm", "write", "last"}]
    /\ sval \in [Storers -> Profiles]
    /\ late \in BOOLEAN /\ blind \in BOOLEAN

\* Nothing of the driver is under way.
AtRest ==
    /\ events = 0 /\ ~armed /\ tpc = "idle" /\ ~work /\ wpc = "idle"
    /\ \A s \in Storers : spc[s] = "idle"

\* However stores, mode keys, their events, the timer and the kworker
\* interleave, and although an event is ignored while the flag is up: when
\* the driver comes to rest, the firmware has the profile last chosen.  This
\* holds as long as no store takes longer than the timer, and the kworker's
\* own firmware calls succeed.
RestsOnChosenProfile == AtRest /\ ~late /\ ~blind => ec = last

\* The driver does come to rest: the events its own rewrites cause do not
\* make it rewrite for ever, even if stores are slow and calls fail.
ComesToRest == <>[]AtRest

===============================================================================
