--------------------------- MODULE Nb05ProfileProofs ---------------------------
(***************************************************************************)
(* RestsOnChosenProfile for any number of storers and any profiles.        *)
(*                                                                         *)
(* It is not inductive: as long as the firmware has another profile than   *)
(* the one last chosen, something must be under way that will look at the  *)
(* firmware again (Repairing).  Why an ignored event does no harm is       *)
(* FlagInv: the flag is up only while the timer is going to expire.        *)
(***************************************************************************)
EXTENDS Nb05Profile, TLAPS

\* The timer is pending, or its callback still has to clear the flag, or a
\* thread that has raised the flag is about to start the timer.
FlagInv ==
    flag => \/ armed \/ tpc = "flag" \/ wpc = "arm"
            \/ \E s \in Storers : spc[s] = "arm"

\* The kworker is queued again, or will be, before it writes.
WorkInv == wpc = "write" => armed \/ tpc # "idle" \/ work

\* The timer that a store has started outlasts the store.
StoreInv == ~late => \A s \in Storers : spc[s] \in {"write", "last"} => armed

Repairing ==
    \/ armed \/ tpc # "idle" \/ work \/ events > 0
    \/ wpc \in {"read", "flag", "arm"}
    \/ wpc = "compare" /\ wval = ec
    \/ \E s \in Storers : spc[s] = "arm"

RepairInv == ~late /\ ~blind /\ ec # last => Repairing

IInv == TypeOK /\ FlagInv /\ WorkInv /\ StoreInv /\ RepairInv

\* The steps of a store keep the invariant.
LEMMA StoreKeeps ==
    ASSUME IInv, NEW s \in Storers,
           (\E p \in Profiles : StoreBegin(s, p)) \/ StoreStep(s)
    PROVE  IInv'
<1> USE ProfileAssumption DEF IInv, TypeOK, FlagInv, WorkInv, StoreInv, RepairInv, Repairing, SGoto, fwVars,
        timerVars, workerVars, storeVars, countVars, Emit, Fail
<1>1. ASSUME NEW p \in Profiles, StoreBegin(s, p) PROVE IInv'
  BY <1>1 DEF StoreBegin
<1>2. CASE StoreFlag(s)
  BY <1>2 DEF StoreFlag
<1>3. CASE StoreArm(s)
  BY <1>3 DEF StoreArm
<1>4. CASE StoreWrite(s)
  BY <1>4 DEF StoreWrite
<1>5. CASE StoreLast(s)
  BY <1>5 DEF StoreLast
<1> QED  BY <1>1, <1>2, <1>3, <1>4, <1>5 DEF StoreStep

\* The steps of the timer callback, the kworker, the mode key and the event
\* keep the invariant.
LEMMA OthersKeep ==
    ASSUME IInv,
           TimerStep \/ WorkStep \/ (\E p \in Profiles : Key(p)) \/ Notify
    PROVE  IInv'
<1> USE ProfileAssumption DEF IInv, TypeOK, FlagInv, WorkInv, StoreInv, RepairInv, Repairing, WGoto, fwVars,
        timerVars, workerVars, storeVars, countVars, Emit, Fail, rewrite_last_profile
<1>1. CASE TimerExpire
  BY <1>1 DEF TimerExpire
<1>2. CASE TimerFlag
  BY <1>2 DEF TimerFlag
<1>3. CASE TimerRewrite
  BY <1>3 DEF TimerRewrite, LookAgain
<1>4. CASE WorkStart
  BY <1>4 DEF WorkStart
<1>5. CASE WorkRead
  BY <1>5 DEF WorkRead
<1>6. CASE WorkCompare
  BY <1>6 DEF WorkCompare, Differs
<1>7. CASE WorkFlag
  BY <1>7 DEF WorkFlag
<1>8. CASE WorkArm
  BY <1>8 DEF WorkArm
<1>9. CASE WorkWrite
  <2>e. events' \in 0..MaxEvents
    BY <1>9 DEF WorkWrite
  <2>1. TypeOK'
    BY <1>9, <2>e DEF WorkWrite
  <2>2. FlagInv' /\ WorkInv' /\ StoreInv'
    BY <1>9 DEF WorkWrite
  <2>3. RepairInv'
    BY <1>9 DEF WorkWrite
  <2> QED  BY <2>1, <2>2, <2>3
<1>10. ASSUME NEW p \in Profiles, Key(p) PROVE IInv'
  BY <1>10 DEF Key
<1>11. CASE Notify
  <2>e. events' \in 0..MaxEvents
    BY <1>11 DEF Notify
  <2>1. TypeOK'
    BY <1>11, <2>e DEF Notify, profile_changed_by_driver
  <2>2. FlagInv' /\ WorkInv' /\ StoreInv'
    BY <1>11 DEF Notify, profile_changed_by_driver
  <2>3. RepairInv'
    BY <1>11 DEF Notify, profile_changed_by_driver
  <2> QED  BY <2>1, <2>2, <2>3
<1> QED  BY <1>1, <1>2, <1>3, <1>4, <1>5, <1>6, <1>7, <1>8, <1>9, <1>10, <1>11 DEF TimerStep, WorkStep

\* The invariant holds at the start and every step keeps it.
LEMMA Invariant == Spec => []IInv
<1>1. Init => IInv
  <2> SUFFICES ASSUME Init PROVE IInv
    OBVIOUS
  <2>e. 0 \in 0..MaxEvents
    BY ProfileAssumption
  <2>1. TypeOK
    BY <2>e DEF Init, TypeOK
  <2>2. FlagInv /\ WorkInv /\ StoreInv /\ RepairInv
    BY DEF Init, FlagInv, WorkInv, StoreInv, RepairInv
  <2> QED  BY <2>1, <2>2 DEF IInv
<1>2. IInv /\ [Next]_vars => IInv'
  <2> SUFFICES ASSUME IInv, [Next]_vars PROVE IInv'
    OBVIOUS
  <2>1. CASE Next
    BY <2>1, StoreKeeps, OthersKeep DEF Next
  <2>2. CASE UNCHANGED vars
    BY <2>2 DEF vars, IInv, TypeOK, FlagInv, WorkInv, StoreInv, RepairInv, Repairing, fwVars,
                timerVars, workerVars, storeVars, countVars
  <2> QED  BY <2>1, <2>2
<1> QED  BY <1>1, <1>2, PTL DEF Spec

\* Whatever interleaves: the driver rests only when the firmware has the
\* profile last chosen, unless a store was slower than the timer or a call of
\* the kworker failed.
THEOREM RestsOnLastChosen == Spec => []RestsOnChosenProfile
<1>1. IInv => RestsOnChosenProfile
  BY DEF IInv, RepairInv, Repairing, AtRest, RestsOnChosenProfile
<1> QED  BY <1>1, Invariant, PTL

---------------------------------------------------------------------------
(* Why the driver comes to rest                                            *)

OwnStep == TimerStep \/ WorkStep \/ Notify

\* A rewrite that has not been decided on yet, but will be if nobody chooses a profile meanwhile.
ToRewrite ==
    IF wpc \in {"flag", "arm", "write"} THEN wval # last
    ELSE ec # last \/ (wpc = "compare" /\ wval # last)

TimerWork   == IF tpc = "flag" THEN 5 ELSE IF tpc = "rewrite" THEN 4 ELSE 0
HandlerWork == IF wpc = "flag" THEN 13 ELSE IF wpc = "arm" THEN 12 ELSE IF wpc = "write" THEN 5
               ELSE IF wpc = "read" THEN 2 ELSE IF wpc = "compare" THEN 1 ELSE 0

\* How many steps of its own the driver may still take: those of the timer and
\* the kworker, those that each event causes, and those of a rewrite to come,
\* which starts the timer and may cause an event.
WorkLeft ==
    4 * events + (IF armed THEN 6 ELSE 0) + TimerWork
    + (IF work THEN 3 ELSE 0) + HandlerWork + (IF ToRewrite THEN 13 ELSE 0)

\* An event more is worth less than the step that sent it.
LEMMA EventForStep ==
    ASSUME NEW m \in Nat, NEW n \in Nat, NEW r \in Nat, n <= m + 1 PROVE 4 * n + r < 4 * m + r + 5
OBVIOUS

\* The timer callback has fewer steps left.
LEMMA TimerLowers ==
    ASSUME TypeOK, TimerStep PROVE WorkLeft' < WorkLeft
<1> USE DEF TypeOK, WorkLeft, TimerWork, HandlerWork, ToRewrite, fwVars, workerVars, storeVars, countVars
<1>1. CASE TimerExpire
  BY <1>1 DEF TimerExpire
<1>2. CASE TimerFlag
  BY <1>2 DEF TimerFlag
<1>3. CASE TimerRewrite
  BY <1>3 DEF TimerRewrite, LookAgain, rewrite_last_profile
<1> QED
  BY <1>1, <1>2, <1>3 DEF TimerStep

\* An event that was delivered is worth less than it was before.
LEMMA NotifyLowers ==
    ASSUME TypeOK, Notify PROVE WorkLeft' < WorkLeft
BY DEF TypeOK, WorkLeft, TimerWork, HandlerWork, ToRewrite, timerVars, workerVars, storeVars, countVars, Notify,
       rewrite_last_profile

\* The kworker has fewer steps left, whatever it decides.
LEMMA HandlerLowers ==
    ASSUME TypeOK, faults \in Nat, WorkStep, faults' = faults PROVE WorkLeft' < WorkLeft
<1> USE DEF TypeOK, WorkLeft, TimerWork, HandlerWork, ToRewrite, fwVars, timerVars, storeVars, countVars, WGoto
<1>1. CASE WorkStart
  BY <1>1 DEF WorkStart
<1>2. CASE WorkRead
  BY <1>2 DEF WorkRead, Fail
<1>3. CASE WorkCompare
  BY <1>3 DEF WorkCompare, Differs
<1>4. CASE WorkFlag
  BY <1>4 DEF WorkFlag
<1>5. CASE WorkArm
  BY <1>5 DEF WorkArm
<1>6. CASE WorkWrite
  <2>1. /\ wpc = "write" /\ wpc' = "idle" /\ ec' = wval
        /\ UNCHANGED <<last, armed, tpc, work, wval>>
    BY <1>6 DEF WorkWrite, Fail
  <2>2. events' \in Nat /\ events' <= events + 1
    BY <1>6, <2>1 DEF WorkWrite, Fail, Emit
  <2>3. ToRewrite' <=> ToRewrite
    BY <2>1
  <2> DEFINE rest == (IF armed THEN 6 ELSE 0) + TimerWork + (IF work THEN 3 ELSE 0)
                     + (IF ToRewrite THEN 13 ELSE 0)
  <2>4. rest' = rest
    <3> HIDE DEF ToRewrite
    <3> QED  BY <2>1, <2>3
  <2>5. rest \in Nat
    BY DEF TimerWork
  <2>6. WorkLeft = 4 * events + rest + 5 /\ WorkLeft' = 4 * events' + rest'
    <3> HIDE DEF ToRewrite
    <3> QED  BY <2>1, <2>2, <2>5
  <2>7. events \in Nat
    BY ProfileAssumption
  <2> HIDE DEF rest, WorkLeft
  <2> QED
    BY <2>2, <2>4, <2>5, <2>6, <2>7, EventForStep
<1> QED
  BY <1>1, <1>2, <1>3, <1>4, <1>5, <1>6 DEF WorkStep

\* What is left is a number.
LEMMA WorkLeftIsNumber == TypeOK => WorkLeft \in Nat
BY ProfileAssumption DEF TypeOK, WorkLeft, TimerWork, HandlerWork

\* Failed calls are counted.
FaultInv == faults \in Nat

\* Every step counts at most one more.
LEMMA FaultsCounted == Spec => []FaultInv
<1>1. Init => FaultInv
  BY DEF Init, FaultInv
<1>2. FaultInv /\ [Next]_vars => FaultInv'
  <2> SUFFICES ASSUME FaultInv, [Next]_vars PROVE faults' \in {faults, faults + 1}
    BY DEF FaultInv
  <2>1. CASE \E s \in Storers : (\E p \in Profiles : StoreBegin(s, p)) \/ StoreStep(s)
    BY <2>1 DEF StoreBegin, StoreStep, StoreFlag, StoreArm, StoreWrite, StoreLast, Fail, countVars
  <2>2. CASE TimerStep
    BY <2>2 DEF TimerStep, TimerExpire, TimerFlag, TimerRewrite, countVars
  <2>3. CASE WorkStep
    BY <2>3 DEF WorkStep, WorkStart, WorkRead, WorkCompare, WorkFlag, WorkArm, WorkWrite, Fail, countVars
  <2>4. CASE (\E p \in Profiles : Key(p)) \/ Notify
    BY <2>4 DEF Key, Notify, countVars
  <2>5. CASE UNCHANGED vars
    BY <2>5 DEF vars, countVars
  <2> QED  BY <2>1, <2>2, <2>3, <2>4, <2>5 DEF Next
<1> QED  BY <1>1, <1>2, PTL DEF Spec

\* The events that rewrites cause do not make the driver rewrite for ever
\* (nb05_power_profiles.c, tuxedo_nb05_keyboard_notify): every step of the
\* timer, the kworker and the event handler lowers the work left, unless a
\* firmware call fails; only the steps of a store and a key can add to it.
OwnStepsEnd == [][OwnStep /\ faults' = faults => WorkLeft \in Nat /\ WorkLeft' < WorkLeft]_vars

\* ComesToRest without the fairness: for any number of storers, profiles and
\* bounds the driver takes at most WorkLeft steps of its own between two steps of
\* stores, keys or failed calls.
THEOREM OwnStepsAlwaysEnd == Spec => OwnStepsEnd
<1>1. TypeOK /\ FaultInv /\ OwnStep /\ faults' = faults => WorkLeft \in Nat /\ WorkLeft' < WorkLeft
  BY TimerLowers, NotifyLowers, HandlerLowers, WorkLeftIsNumber DEF OwnStep, FaultInv
<1>2. TypeOK /\ FaultInv => [OwnStep /\ faults' = faults => WorkLeft \in Nat /\ WorkLeft' < WorkLeft]_vars
  BY <1>1
<1> QED
  BY <1>2, Invariant, FaultsCounted, PTL DEF OwnStepsEnd, IInv
===============================================================================
