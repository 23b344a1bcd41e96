---------------------------- MODULE KeyboardProofs ----------------------------
(***************************************************************************)
(* Proofs about what comes and goes and is set beside the keyboard, for    *)
(* any number of probes, removals, events, bytes, programs and failures.   *)
(* KeyboardLifecycle: one driver, there when it is needed, and a pointer   *)
(* that is followed wrongly only where its cause is known.                 *)
(* ClevoSettings: the fn lock and the charger are as set last.             *)
(* ClevoLeds: the keyboard shows what its LEDs tell.                       *)
(* TouchpadFilter: its key is found in every sequence of bytes.            *)
(* UniwillFeatures: what is cached is true.                                *)
(***************************************************************************)
EXTENDS KeyboardLifecycle, ClevoSettings, ClevoLeds, TouchpadFilter, UniwillFeatures, SequenceTheorems,
        WellFoundedInduction, TLAPS

Creating == {"bundle", "input", "current"}
Tearing  == {"input_exit", "unregister", "unregistered"}
Undoing  == {"driver", "forget"}
Removing == Tearing \cup Undoing \cup {"remove_driver", "inactive"}
Places   == Probing \cup Leaving \cup {"unbound", "bound", "dead"}

\* The types of the variables that decide over the platform device.
LifecycleTypes ==
    /\ at \in [Devices -> Places]
    /\ platform \in {"null", "error", "there"} /\ bundles \in Nat
    /\ current \in BOOLEAN /\ registered \in BOOLEAN

\* tuxedo_keyboard_init_driver and remove_interface hold their mutexes.
MutexInv ==
    \A d \in Devices :
        /\ at[d] \in Creating => init_lock = d
        /\ at[d] \in Removing => adding_lock = d

\* Only a driver that is there and completely created is removed; and while
\* it is, none is created before it is unregistered.
PhaseInv ==
    /\ current => platform = "there" \/ \E r \in Devices : at[r] \in Undoing
    /\ registered => platform = "there" \/ \E r \in Devices : at[r] = "driver"
    /\ platform = "there" => registered
    /\ \A d \in Devices :
        /\ at[d] = "bundle" => platform # "there"
        /\ at[d] \in {"input", "current"} =>
             platform = "there" /\ (~current \/ \E r \in Devices : at[r] = "forget")
        /\ at[d] \in Tearing => platform = "there" /\ current
        /\ at[d] = "driver" => platform # "there" /\ registered

DInv == LifecycleTypes /\ MutexInv /\ PhaseInv /\ OneDevice

\* At the start there is neither a device nor anybody at work.
LEMMA DInit == LifecycleInit => DInv
<1> SUFFICES ASSUME LifecycleInit PROVE DInv
  OBVIOUS
<1>1. \A d \in Devices : at[d] = "unbound"
  BY DEF LifecycleInit
<1>2. LifecycleTypes
  BY DEF LifecycleInit, LifecycleTypes, Places
<1>3. MutexInv /\ PhaseInv
  BY <1>1 DEF LifecycleInit, MutexInv, PhaseInv, Creating, Tearing, Undoing, Removing
<1> QED
  BY <1>2, <1>3 DEF LifecycleInit, DInv, OneDevice

\* A mutex that is free is held by no device.
LEMMA NoneIsNoDevice == "none" \notin Devices
BY DEF Devices, Clevo

\* Who holds the mutex of remove_interface is the only one to remove, and who
\* holds that of tuxedo_keyboard_init_driver the only one to create.
LEMMA OneAtWork ==
    ASSUME MutexInv, NEW d \in Devices, NEW e \in Devices, d # e
    PROVE  ~(at[d] \in Creating /\ at[e] \in Creating) /\ ~(at[d] \in Removing /\ at[e] \in Removing)
BY DEF MutexInv

\* While the driver is torn down nobody creates it.
LEMMA NoCreationMeanwhile ==
    ASSUME MutexInv, PhaseInv, NEW d \in Devices, NEW e \in Devices, at[d] \in Tearing
    PROVE  at[e] \notin Creating
<1>1. platform = "there" /\ current /\ \A r \in Devices : at[r] # "forget"
  BY OneAtWork DEF PhaseInv, Removing, Tearing, Undoing
<1> QED
  BY <1>1 DEF PhaseInv, Creating

\* A step of creation.
LEMMA CreationStep ==
    ASSUME DInv, NEW d \in Devices,
           InitBegin(d) \/ CreateBundle(d) \/ tuxedo_input_init(d) \/ SetCurrent(d)
    PROVE  DInv'
<1> USE DEF DInv, LifecycleTypes, Places, Probing, Leaving, Creating, Tearing, Undoing, Removing, Goto,
            ProbeReturns
<1>1. CASE InitBegin(d)
  <2>1. CASE platform = "there"
    BY <1>1, <2>1 DEF InitBegin, InitLockFree, driverVars, MutexInv, PhaseInv, OneDevice
  <2>2. CASE platform # "there"
    <3>1. \A e \in Devices : at[e] \notin Creating \cup Tearing
      BY <1>1, <2>2, NoneIsNoDevice DEF InitBegin, InitLockFree, MutexInv, PhaseInv
    <3> QED
      BY <1>1, <2>2, <3>1 DEF InitBegin, driverVars, MutexInv, PhaseInv, OneDevice
  <2> QED
    BY <2>1, <2>2
<1>2. CASE CreateBundle(d)
  <2>1. platform # "there" /\ \A e \in Devices \ {d} : at[e] \notin Creating \cup Tearing
    BY <1>2 DEF CreateBundle, MutexInv, PhaseInv
  <2>2. CASE ~registered /\ registered' /\ platform' = "there" /\ bundles' = bundles + 1 /\ Goto(d, "input")
    <3>1. \A e \in Devices : at[e] # "driver"
      BY <2>2 DEF PhaseInv
    <3>2. current => \E r \in Devices : at'[r] = "forget"
      BY <1>2, <2>1, <2>2, <3>1 DEF CreateBundle, PhaseInv
    <3>3. bundles' = 1 /\ \A e \in Devices : at'[e] # "unregistered"
      BY <1>2, <2>1, <2>2 DEF CreateBundle, OneDevice
    <3>4. current' = current /\ UNCHANGED <<adding_lock, init_lock>> /\ at[d] = "bundle"
      BY <1>2, <2>2 DEF CreateBundle
    <3>5. MutexInv'
      BY <2>2, <3>4 DEF MutexInv
    <3>6. PhaseInv'
      BY <2>1, <2>2, <3>1, <3>2, <3>4 DEF PhaseInv
    <3> QED
      BY <2>2, <3>3, <3>4, <3>5, <3>6 DEF OneDevice
  <2>3. CASE platform' = "error" /\ Goto(d, "bound") /\ UNCHANGED <<bundles, registered>>
    BY <1>2, <2>1, <2>3 DEF CreateBundle, MutexInv, PhaseInv, OneDevice
  <2> QED
    BY <1>2, <2>2, <2>3 DEF CreateBundle
<1>3. CASE tuxedo_input_init(d)
  BY <1>3 DEF tuxedo_input_init, lockVars, MutexInv, PhaseInv, OneDevice
<1>4. CASE SetCurrent(d)
  <2>1. \A e \in Devices \ {d} : at[e] \notin Creating
    BY <1>4 DEF SetCurrent, MutexInv
  <2>2. platform = "there"
    BY <1>4 DEF SetCurrent, PhaseInv
  <2>3. /\ current' /\ (Goto(d, "bound") \/ Goto(d, "dead")) /\ at[d] = "current"
        /\ UNCHANGED <<adding_lock, platform, bundles, registered>>
    BY <1>4 DEF SetCurrent, Dies
  <2> QED
    BY <2>1, <2>2, <2>3 DEF MutexInv, PhaseInv, OneDevice
<1> QED
  BY <1>1, <1>2, <1>3, <1>4

\* A step of removal: the mutex of remove_interface makes it the only one.
LEMMA RemovalStep ==
    ASSUME DInv, NEW d \in Devices,
           \/ RemoveInterface(d) \/ CompareNames(d) \/ tuxedo_input_exit(d) \/ Unregister(d)
           \/ ForgetDevice(d) \/ UnregisterDriver(d) \/ ForgetDriver(d) \/ Deactivate(d)
    PROVE  DInv'
<1> USE DEF DInv, LifecycleTypes, Places, Probing, Leaving, Creating, Tearing, Undoing, Removing, Goto, Removed
<1>1. CASE RemoveInterface(d)
  <2>1. \A e \in Devices : at[e] \notin Removing
    BY <1>1, NoneIsNoDevice DEF RemoveInterface, MutexInv
  <2> QED
    BY <1>1, <2>1 DEF RemoveInterface, driverVars, MutexInv, PhaseInv, OneDevice
<1>0. ASSUME at[d] \in Removing
      PROVE  \A e \in Devices : at[e] \in Removing => e = d
  BY <1>0 DEF MutexInv
<1>2. CASE CompareNames(d)
  <2>0. \A e \in Devices : at[e] \in Removing => e = d
    BY <1>0, <1>2 DEF CompareNames
  <2>1. CASE current
    BY <1>2, <2>0, <2>1 DEF CompareNames, lockVars, driverVars, MutexInv, PhaseInv, OneDevice
  <2>2. CASE ~current
    BY <1>2, <2>2 DEF CompareNames, Dies, lockVars, driverVars, MutexInv, PhaseInv, OneDevice
  <2> QED
    BY <2>1, <2>2
<1>3. CASE tuxedo_input_exit(d)
  <2>1. at[d] = "input_exit" /\ UNCHANGED lockVars
    BY <1>3 DEF tuxedo_input_exit, Dies
  <2>2. \A e \in Devices : at[e] \in Removing => e = d
    BY <1>0, <2>1
  <2>3. CASE at' = [at EXCEPT ![d] = "unregister"]
    BY <1>3, <2>1, <2>2, <2>3 DEF tuxedo_input_exit, lockVars, MutexInv, PhaseInv, OneDevice
  <2>4. CASE at' = [at EXCEPT ![d] = "dead"]
    BY <1>3, <2>1, <2>2, <2>4 DEF tuxedo_input_exit, lockVars, MutexInv, PhaseInv, OneDevice
  <2> QED
    BY <1>3, <2>3, <2>4 DEF tuxedo_input_exit, Dies
<1>4. CASE Unregister(d)
  <2>1. \A e \in Devices : at[e] \in Removing => e = d
    BY <1>0, <1>4 DEF Unregister
  <2>2. platform = "there" /\ bundles = 1 /\ at[d] = "unregister"
    BY <1>4, <2>1 DEF Unregister, PhaseInv, OneDevice
  <2>3. /\ Goto(d, "unregistered") /\ bundles' = 0
        /\ UNCHANGED <<adding_lock, init_lock, platform, registered, current>>
    BY <1>4, <2>2 DEF Unregister, lockVars
  <2> QED
    BY <2>1, <2>2, <2>3 DEF MutexInv, PhaseInv, OneDevice
<1>5. CASE ForgetDevice(d)
  <2>1. \A e \in Devices : at[e] \in Removing => e = d
    BY <1>0, <1>5 DEF ForgetDevice
  <2>2. \A e \in Devices : at[e] \notin Creating
    BY <1>5, NoCreationMeanwhile DEF ForgetDevice
  <2>3. bundles = 0 /\ registered
    BY <1>5 DEF ForgetDevice, OneDevice, PhaseInv
  <2> QED
    BY <1>5, <2>1, <2>2, <2>3 DEF ForgetDevice, lockVars, MutexInv, PhaseInv, OneDevice
<1>6. CASE UnregisterDriver(d)
  <2>1. \A e \in Devices : at[e] \in Removing => e = d
    BY <1>0, <1>6 DEF UnregisterDriver
  <2>2. platform # "there"
    BY <1>6 DEF UnregisterDriver, PhaseInv
  <2> QED
    BY <1>6, <2>1, <2>2 DEF UnregisterDriver, lockVars, MutexInv, PhaseInv, OneDevice
<1>7. CASE ForgetDriver(d)
  <2>1. \A e \in Devices : at[e] \in Removing => e = d
    BY <1>0, <1>7 DEF ForgetDriver
  <2> QED
    BY <1>7, <2>1 DEF ForgetDriver, lockVars, MutexInv, PhaseInv, OneDevice
<1>8. CASE Deactivate(d)
  <2>1. \A e \in Devices : at[e] \in Removing => e = d
    BY <1>8 DEF Deactivate, MutexInv
  <2> QED
    BY <1>8, <2>1 DEF Deactivate, driverVars, MutexInv, PhaseInv, OneDevice
<1> QED
  BY <1>1, <1>2, <1>3, <1>4, <1>5, <1>6, <1>7, <1>8

\* The other steps leave the mutexes and the driver alone, and take nobody
\* into the functions that create or remove it.
LEMMA OtherStep ==
    ASSUME DInv, NEW d \in Devices,
           \/ ProbeDevice(d) \/ AddInterface(d) \/ LookAtActive(d)
           \/ RemoveDevice(d) \/ Press(d) \/ Report(d)
    PROVE  DInv'
<1> USE DEF DInv, LifecycleTypes, Places, Probing, Leaving, Creating, Tearing, Undoing, Removing, Goto,
            lockVars, driverVars, MutexInv, PhaseInv, OneDevice
<1>1. CASE ProbeDevice(d)
  BY <1>1 DEF ProbeDevice
<1>2. CASE AddInterface(d)
  BY <1>2 DEF AddInterface
<1>3. CASE LookAtActive(d)
  BY <1>3 DEF LookAtActive, ProbeReturns
<1>4. CASE RemoveDevice(d)
  BY <1>4 DEF RemoveDevice
<1>5. CASE Press(d)
  BY <1>5 DEF Press
<1>6. CASE Report(d)
  BY <1>6 DEF Report
<1> QED
  BY <1>1, <1>2, <1>3, <1>4, <1>5, <1>6

\* Steps of the touchpad key and its work.
TouchpadStep == TouchpadKey \/ WorkSleeps \/ WorkReports

\* Every step keeps the invariant.
LEMMA DStep == DInv /\ [LifecycleNext]_lifecycleVars => DInv'
<1> SUFFICES ASSUME DInv, [LifecycleNext]_lifecycleVars PROVE DInv'
  OBVIOUS
<1>1. CASE UNCHANGED lifecycleVars \/ TouchpadStep
  <2>1. UNCHANGED <<at, lockVars, driverVars>>
    BY <1>1 DEF lifecycleVars, TouchpadStep, TouchpadKey, WorkSleeps, WorkReports
  <2> QED
    BY <2>1 DEF lockVars, driverVars, DInv, LifecycleTypes, MutexInv, PhaseInv, OneDevice
<1>2. CASE LifecycleNext /\ ~TouchpadStep
  <2>1. PICK d \in Devices : DeviceStep(d)
    BY <1>2 DEF LifecycleNext, TouchpadStep
  <2> QED
    BY <2>1, CreationStep, RemovalStep, OtherStep DEF DeviceStep
<1> QED
  BY <1>1, <1>2

\* However many devices are probed and removed, in whatever order and with
\* whatever failures, there is at most one platform device, and it can be
\* removed: tuxedo_keyboard_init_driver and tuxedo_keyboard_remove_driver.
THEOREM AtMostOneDevice == LifecycleSpec => []OneDevice
<1>1. DInv => OneDevice
  BY DEF DInv
<1> QED
  BY <1>1, DInit, DStep, PTL DEF LifecycleSpec

---------------------------------------------------------------------------
(* The fn lock                                                             *)

FnSteps == {"fn_toggle", "fn_get", "fn_set"}

KeyboardTypes ==
    /\ keyboard \in [lock : {0, 1}, status : {0, 1}]
    /\ DOMAIN step = Programs /\ DOMAIN job = Programs /\ DOMAIN previous = Programs
    /\ {"lock", "kbstatus", "start", "end", "status", "battery"} = DOMAIN wanted

\* What a program stores decides which steps it takes.
JobInv ==
    \A p \in Programs :
        /\ Busy(p) => (step[p] \in FnSteps <=> Object(job[p].field) = "keyboard")
        /\ step[p] \in FnSteps => job[p].field = "lock"
        /\ step[p] \in {"fn_get", "fn_set"} => job[p].value \in {0, 1}
        /\ step[p] = "fn_set" => previous[p].status \in {0, 1}
        /\ ~(step[p] \in FnSteps) => job[p].field # "lock" \/ ~Busy(p)

\* As long as nothing overlapped or failed a program is alone with the
\* keyboard, and so has read what is still there.
AloneWithKeyboard ==
    "keyboard" \notin mixed =>
        /\ keyboard.status = wanted.kbstatus /\ keyboard.lock = wanted.lock
        /\ \A p, q \in Programs : step[p] \in FnSteps /\ step[q] \in FnSteps => p = q
        /\ \A p \in Programs : step[p] = "fn_set" => previous[p] = keyboard

FnInv == KeyboardTypes /\ JobInv /\ AloneWithKeyboard

\* At the start nobody asks for anything.
LEMMA FnInit == ClevoSettingsInit => FnInv
<1> SUFFICES ASSUME ClevoSettingsInit PROVE FnInv
  OBVIOUS
<1>1. KeyboardTypes
  BY DEF ClevoSettingsInit, KeyboardTypes
<1>2. \A p \in Programs : step[p] = "idle"
  BY DEF ClevoSettingsInit
<1>3. JobInv /\ AloneWithKeyboard
  BY <1>2 DEF ClevoSettingsInit, JobInv, AloneWithKeyboard, FnSteps, Busy
<1> QED
  BY <1>1, <1>3 DEF FnInv

\* Starting something: whoever starts on an object in use marks it.
LEMMA CallStep ==
    ASSUME FnInv, NEW p \in Programs, Asks(p)
    PROVE  FnInv'
<1>1. PICK f, v, first :
         /\ Calls(p, f, v, first)
         /\ \/ f \in Charging /\ first = "detect"
            \/ f = "battery" /\ first = "has_legacy"
            \/ f = "lock" /\ v \in {0, 1} /\ first = "fn_get"
            \/ f = "lock" /\ first = "fn_toggle"
  BY DEF Asks, Charging
<1>2. /\ job' = [job EXCEPT ![p] = [field |-> f, value |-> v]]
      /\ step' = [step EXCEPT ![p] = first]
      /\ UNCHANGED <<keyboard, previous, wanted>> /\ ~Busy(p)
  BY <1>1 DEF Calls, Goes, firmware
<1>3. KeyboardTypes'
  BY <1>2 DEF FnInv, KeyboardTypes
<1>4. ASSUME NEW q \in Programs
      PROVE  /\ q = p => step'[q] = first /\ job'[q].field = f /\ job'[q].value = v
             /\ q # p => step'[q] = step[q] /\ job'[q] = job[q]
  BY <1>2 DEF FnInv, KeyboardTypes
<1>5. JobInv'
  BY <1>1, <1>2, <1>4 DEF FnInv, JobInv, Busy, FnSteps, Object, Charging
<1>6. ASSUME "keyboard" \notin mixed' PROVE AloneWithKeyboard'
  <2>1. "keyboard" \notin mixed
    BY <1>1, <1>6 DEF Calls
  <2>2. ASSUME first \in FnSteps, NEW q \in Programs, step[q] \in FnSteps PROVE FALSE
    <3>1. Object(f) = "keyboard" /\ Busy(q) /\ Object(job[q].field) = "keyboard"
      BY <1>1, <2>2 DEF FnInv, JobInv, Object, Charging, FnSteps, Busy
    <3> QED
      BY <1>1, <1>6, <3>1 DEF Calls
  <2>3. \A a, b \in Programs : step'[a] \in FnSteps /\ step'[b] \in FnSteps => a = b
    BY <1>4, <2>1, <2>2 DEF FnInv, AloneWithKeyboard
  <2>4. \A q \in Programs : step'[q] = "fn_set" => previous'[q] = keyboard'
    BY <1>1, <1>2, <1>4, <2>1 DEF FnInv, AloneWithKeyboard
  <2> QED
    BY <1>2, <2>1, <2>3, <2>4 DEF FnInv, AloneWithKeyboard
<1> QED
  BY <1>3, <1>5, <1>6 DEF FnInv, AloneWithKeyboard

\* A method fails: the program stops, and what it was storing is marked.
LEMMA FailStep ==
    ASSUME FnInv, NEW p \in Programs, MethodFails(p)
    PROVE  FnInv'
<1>1. /\ step' = [step EXCEPT ![p] = "idle"] /\ mixed \subseteq mixed'
      /\ UNCHANGED <<keyboard, job, previous, wanted>>
  BY DEF MethodFails, Goes, firmware
<1>2. ASSUME NEW q \in Programs PROVE step'[q] \in {step[q], "idle"}
  BY <1>1 DEF FnInv, KeyboardTypes
<1> QED
  BY <1>1, <1>2 DEF FnInv, KeyboardTypes, JobInv, AloneWithKeyboard, Busy, FnSteps

\* Steps at the charger do not concern the keyboard.
LEMMA ChargerStep ==
    ASSUME FnInv, NEW p \in Programs, step[p] \notin FnSteps, Busy(p), UNCHANGED <<keyboard, job>>,
           NEW place, place \notin FnSteps, step' = [step EXCEPT ![p] = place],
           \/ UNCHANGED previous
           \/ previous' = [previous EXCEPT ![p] = charger],
           \/ UNCHANGED wanted
           \/ wanted' = [wanted EXCEPT ![job[p].field] = job[p].value],
           mixed \subseteq mixed'
    PROVE  FnInv'
<1>1. ASSUME NEW q \in Programs
      PROVE  /\ q = p => step'[q] = place
             /\ q # p => step'[q] = step[q] /\ previous'[q] = previous[q]
  BY DEF FnInv, KeyboardTypes
<1>2. KeyboardTypes'
  BY DEF FnInv, KeyboardTypes
<1>3. job[p].field # "lock" /\ Object(job[p].field) # "keyboard" /\ job[p].field # "kbstatus"
  BY DEF FnInv, JobInv, Object, Charging
<1>4. wanted'["lock"] = wanted["lock"] /\ wanted'["kbstatus"] = wanted["kbstatus"]
  BY <1>3 DEF FnInv, KeyboardTypes
<1>5. JobInv'
  BY <1>1, <1>3 DEF FnInv, JobInv, Busy, FnSteps
<1>6. AloneWithKeyboard'
  BY <1>1, <1>4 DEF FnInv, AloneWithKeyboard, FnSteps
<1> QED
  BY <1>2, <1>5, <1>6 DEF FnInv

\* The steps of the fn lock: read the lock, read the status, set both.
LEMMA FnStep ==
    ASSUME FnInv, NEW p \in Programs, FnToggle(p) \/ FnGet(p) \/ FnSet(p)
    PROVE  FnInv'
<1>0. CASE MethodFails(p)
  BY <1>0, FailStep
<1>1. step[p] \in FnSteps /\ job[p].field = "lock"
  BY DEF FnInv, JobInv, FnToggle, FnGet, FnSet, FnSteps
<1>2. CASE /\ step[p] = "fn_toggle" /\ step' = [step EXCEPT ![p] = "fn_get"]
           /\ job' = [job EXCEPT ![p].value = Toggled(keyboard.lock)]
           /\ UNCHANGED <<keyboard, previous, wanted, mixed>>
  <2>1. ASSUME NEW q \in Programs
        PROVE  /\ q = p => step'[q] = "fn_get" /\ job'[q].field = job[p].field
               /\ q # p => step'[q] = step[q] /\ job'[q] = job[q]
    BY <1>2 DEF FnInv, KeyboardTypes
  <2>2. job'[p].value \in {0, 1}
    <3>1. Toggled(keyboard.lock) \in {0, 1}
      BY DEF FnInv, KeyboardTypes, Toggled
    <3> QED
      BY <1>2, <3>1 DEF FnInv, KeyboardTypes
  <2>3. KeyboardTypes'
    BY <1>2 DEF FnInv, KeyboardTypes
  <2>4. JobInv'
    BY <1>1, <1>2, <2>1, <2>2 DEF FnInv, JobInv, Busy, FnSteps, Object
  <2>5. AloneWithKeyboard'
    BY <1>1, <1>2, <2>1 DEF FnInv, AloneWithKeyboard, FnSteps
  <2> QED
    BY <2>3, <2>4, <2>5 DEF FnInv
<1>3. CASE /\ step[p] = "fn_get" /\ step' = [step EXCEPT ![p] = "fn_set"]
           /\ previous' = [previous EXCEPT ![p] = keyboard]
           /\ UNCHANGED <<keyboard, job, wanted, mixed>>
  <2>1. ASSUME NEW q \in Programs
        PROVE  /\ q = p => step'[q] = "fn_set" /\ previous'[q] = keyboard
               /\ q # p => step'[q] = step[q] /\ previous'[q] = previous[q]
    BY <1>3 DEF FnInv, KeyboardTypes
  <2>2. keyboard.status \in {0, 1}
    BY DEF FnInv, KeyboardTypes
  <2>3. KeyboardTypes'
    BY <1>3 DEF FnInv, KeyboardTypes
  <2>4. JobInv'
    BY <1>1, <1>3, <2>1, <2>2 DEF FnInv, JobInv, Busy, FnSteps, Object
  <2>5. AloneWithKeyboard'
    BY <1>1, <1>3, <2>1 DEF FnInv, AloneWithKeyboard, FnSteps
  <2> QED
    BY <2>3, <2>4, <2>5 DEF FnInv
<1>4. CASE /\ step[p] = "fn_set" /\ step' = [step EXCEPT ![p] = "idle"]
           /\ keyboard' = FnArguments(p)
           /\ wanted' = [wanted EXCEPT ![job[p].field] = job[p].value]
           /\ UNCHANGED <<job, previous, mixed>>
  <2>1. ASSUME NEW q \in Programs
        PROVE  /\ q = p => step'[q] = "idle"
               /\ q # p => step'[q] = step[q]
    BY <1>4 DEF FnInv, KeyboardTypes
  <2>2. job[p].value \in {0, 1} /\ previous[p].status \in {0, 1}
    BY <1>4 DEF FnInv, JobInv
  <2>3. keyboard' = [lock |-> job[p].value, status |-> previous[p].status]
    BY <1>4 DEF FnArguments
  <2>4. wanted'["lock"] = job[p].value /\ wanted'["kbstatus"] = wanted["kbstatus"]
    BY <1>1, <1>4 DEF FnInv, KeyboardTypes
  <2>5. KeyboardTypes'
    <3>1. keyboard' \in [lock : {0, 1}, status : {0, 1}]
      BY <2>2, <2>3
    <3> QED
      BY <1>4, <3>1 DEF FnInv, KeyboardTypes
  <2>6. JobInv'
    BY <1>4, <2>1 DEF FnInv, JobInv, Busy, FnSteps
  <2>7. ASSUME "keyboard" \notin mixed PROVE AloneWithKeyboard'
    <3>1. previous[p] = keyboard /\ keyboard.status = wanted.kbstatus
      BY <1>4, <2>7 DEF FnInv, AloneWithKeyboard
    <3>2. keyboard'.lock = job[p].value /\ keyboard'.status = previous[p].status
      BY <2>3
    <3>3. \A q \in Programs : step'[q] \notin FnSteps
      BY <1>1, <2>1, <2>7 DEF FnInv, AloneWithKeyboard, FnSteps
    <3> QED
      BY <2>4, <3>1, <3>2, <3>3 DEF AloneWithKeyboard, FnSteps
  <2> QED
    BY <1>4, <2>5, <2>6, <2>7 DEF FnInv, AloneWithKeyboard
<1> QED
  BY <1>0, <1>2, <1>3, <1>4 DEF FnToggle, FnGet, FnSet, Goes, Moves, Returns, firmware

\* The other steps of a program.
LEMMA ProgramStepElsewhere ==
    ASSUME FnInv, NEW p \in Programs,
           \/ Detect(p) \/ ReadPrevious(p) \/ WriteCc4(p) \/ WriteLegacy(p, 1) \/ WriteLegacy(p, 2)
           \/ ReadBattery(p) \/ WriteBack(p)
    PROVE  FnInv'
<1>0. CASE MethodFails(p)
  BY <1>0, FailStep
<1>1. step[p] \in {"detect", "read", "cc4_write", "thresholds", "status", "has_legacy", "write_back"}
  BY DEF Detect, ReadPrevious, WriteCc4, WriteLegacy, LegacySteps, ReadBattery, WriteBack
<1>2. step[p] \notin FnSteps /\ Busy(p)
  BY <1>1 DEF FnSteps, Busy
<1>3. CASE ~MethodFails(p)
  <2>1. UNCHANGED <<keyboard, job>> /\ mixed \subseteq mixed'
    BY <1>3
       DEF Detect, ReadPrevious, WriteCc4, WriteLegacy, LegacyGoesOn, ReadBattery, WriteBack, Returns, Moves,
           firmware
  <2>2. /\ UNCHANGED previous \/ previous' = [previous EXCEPT ![p] = charger]
        /\ UNCHANGED wanted \/ wanted' = [wanted EXCEPT ![job[p].field] = job[p].value]
    BY <1>3 DEF Detect, ReadPrevious, WriteCc4, WriteLegacy, LegacyGoesOn, ReadBattery, WriteBack, Returns
  <2>3. \E place \in {"read", "cc4_write", "thresholds", "status", "write_back", "idle"} :
           step' = [step EXCEPT ![p] = place]
    BY <1>3
       DEF Detect, ReadPrevious, WriteCc4, WriteLegacy, LegacyGoesOn, LegacySteps, ReadBattery, WriteBack,
           Returns, Moves, Goes
  <2>4. PICK place : place \notin FnSteps /\ step' = [step EXCEPT ![p] = place]
    BY <2>3 DEF FnSteps
  <2> QED
    BY <1>2, <2>1, <2>2, <2>4, ChargerStep
<1> QED
  BY <1>0, <1>3

\* Every step keeps the invariant.
LEMMA FnNext == FnInv /\ [ClevoSettingsNext]_chargerVars => FnInv'
<1> SUFFICES ASSUME FnInv, [ClevoSettingsNext]_chargerVars PROVE FnInv'
  OBVIOUS
<1>1. CASE UNCHANGED chargerVars
  BY <1>1 DEF chargerVars, FnInv, KeyboardTypes, JobInv, AloneWithKeyboard, Busy
<1>2. ASSUME NEW p \in Programs, ProgramStep(p) PROVE FnInv'
  BY <1>2, CallStep, FnStep, ProgramStepElsewhere DEF ProgramStep
<1>3. CASE StatusChanges
  <2>1. /\ keyboard' = [keyboard EXCEPT !.status = 1 - @] /\ wanted' = [wanted EXCEPT !.kbstatus = 1 - @]
        /\ UNCHANGED <<step, job, previous>> /\ mixed \subseteq mixed'
        /\ "keyboard" \notin mixed' => \A p \in Programs : step[p] # "fn_set"
    BY <1>3 DEF StatusChanges
  <2>2. KeyboardTypes' /\ JobInv'
    BY <2>1 DEF FnInv, KeyboardTypes, JobInv, Busy
  <2>3. /\ keyboard'.status = 1 - keyboard.status /\ keyboard'.lock = keyboard.lock
        /\ wanted'.kbstatus = 1 - wanted.kbstatus /\ wanted'.lock = wanted.lock
    BY <2>1 DEF FnInv, KeyboardTypes
  <2> QED
    BY <2>1, <2>2, <2>3 DEF FnInv, AloneWithKeyboard
<1> QED
  BY <1>1, <1>2, <1>3 DEF ClevoSettingsNext

\* However many programs store charging thresholds or set and toggle the fn
\* lock, it is as it was set last and the rest of the keyboard's status is
\* untouched, unless its calls overlapped or failed (clevo_acpi_fn_lock_set).
THEOREM FnLockStaysAlone == ClevoSettingsSpec => []FnLockAlone
<1>1. FnInv => FnLockAlone
  BY DEF FnInv, AloneWithKeyboard, FnLockAlone, Settled
<1> QED
  BY <1>1, FnInit, FnNext, PTL DEF ClevoSettingsSpec

---------------------------------------------------------------------------
(* The nearest of a list of thresholds                                     *)

\* Every set of numbers that has any has a least one: the form of induction used here.
LEMMA LeastNumber ==
  ASSUME NEW S \in SUBSET Nat, S # {}
  PROVE  \E n \in S : \A k \in S : ~(k < n)
<1> DEFINE R == OpToRel(<, Nat)
<1>1. R = {ss \in Nat \X Nat : ss[1] < ss[2]}
  BY DEF OpToRel
<1>2. IsWellFoundedOn(R, Nat)
  BY NatLessThanWellFounded
<1> HIDE DEF R
<1>3. PICK n \in S : \A k \in S : ~(<<k, n>> \in R)
  BY <1>2, WFMin
<1>4. \A k \in S : k < n => <<k, n>> \in R
  BY <1>1
<1> QED  BY <1>3, <1>4

\* Induction over numbers, with a set for the property.
LEMMA NumbersFromOne ==
  ASSUME NEW n \in Nat, NEW S \in SUBSET (1..n), n > 0 => 1 \in S,
         \A i \in 1..n : i > 1 /\ i - 1 \in S => i \in S
  PROVE  S = 1..n
<1> SUFFICES ASSUME S # 1..n PROVE FALSE
  OBVIOUS
<1> DEFINE Left == (1..n) \ S
<1>1. PICK i \in Left : \A k \in Left : ~(k < i)
  <2>1. \E i \in 1..n : i \notin S
    OBVIOUS
  <2>2. Left \in SUBSET Nat /\ Left # {}
    BY <2>1
  <2> HIDE DEF Left
  <2> QED  BY <2>2, LeastNumber
<1>2. i \in 1..n /\ i # 1 /\ i \notin S
  BY <1>1
<1>3. i - 1 \in 1..n /\ i - 1 < i
  BY <1>2
<1>4. i - 1 \in S
  BY <1>1, <1>3
<1> QED
  BY <1>2, <1>4

\* What the loop of array_find_closest_u8 has after step i, g being what it had.
Nearer(value, haystack, g, i) ==
    IF i = 1 THEN haystack[1]
    ELSE IF Nearness(value, haystack[i]) < Nearness(value, g[i - 1]) THEN haystack[i]
    ELSE g[i - 1]

\* For every list there is a function that holds what the loop has after each step.
LEMMA LoopEnds ==
  ASSUME NEW value, NEW haystack, NEW n \in Nat
  PROVE  \E g : g = [i \in 1..n |-> Nearer(value, haystack, g, i)]
<1> DEFINE Upto(m) == \E g : g = [i \in 1..m |-> Nearer(value, haystack, g, i)]
           Endless == {m \in Nat : ~Upto(m)}
<1>1. Upto(0)
  <2>1. \E g : g = [i \in 1..0 |-> Nearer(value, haystack, g, i)]
    <3> WITNESS [i \in 1..0 |-> 0]
    <3> QED  OBVIOUS
  <2> QED  BY <2>1
<1>2. ASSUME NEW m \in Nat, Upto(m) PROVE Upto(m + 1)
  <2>1. PICK g : g = [i \in 1..m |-> Nearer(value, haystack, g, i)]
    BY <1>2
  <2> DEFINE h == [i \in 1..m + 1 |-> IF i = m + 1 THEN Nearer(value, haystack, g, m + 1) ELSE g[i]]
  <2>2. \A i \in 1..m + 1 : h[i] = Nearer(value, haystack, h, i)
    <3> TAKE i \in 1..m + 1
    <3>1. i # 1 => i - 1 \in 1..m /\ h[i - 1] = g[i - 1]
      OBVIOUS
    <3>2. Nearer(value, haystack, h, i) = Nearer(value, haystack, g, i)
      <4> HIDE DEF h
      <4> QED BY <3>1 DEF Nearer
    <3>3. CASE i = m + 1
      BY <3>2, <3>3
    <3>4. CASE i \in 1..m
      <4>1. h[i] = g[i]
        BY <3>4
      <4> HIDE DEF h
      <4> QED BY <3>2, <3>4, <4>1, <2>1
    <3> QED  BY <3>3, <3>4
  <2>3. h = [i \in 1..m + 1 |-> Nearer(value, haystack, h, i)]
    BY <2>2
  <2> HIDE DEF h
  <2> QED  BY <2>3
<1> HIDE DEF Upto
<1>3. Endless = {}
  <2> SUFFICES ASSUME Endless # {} PROVE FALSE
    OBVIOUS
  <2>1. PICK m \in Endless : \A k \in Endless : ~(k < m)
    <3>1. Endless \in SUBSET Nat
      OBVIOUS
    <3> HIDE DEF Endless
    <3> QED  BY <3>1, LeastNumber
  <2>2. m \in Nat /\ ~Upto(m) /\ m # 0
    BY <1>1, <2>1
  <2>3. m - 1 \in Nat /\ m - 1 < m /\ (m - 1) + 1 = m
    BY <2>2
  <2>4. Upto(m - 1)
    BY <2>1, <2>3
  <2> QED  BY <1>2, <2>2, <2>3, <2>4
<1>4. Upto(n)
  BY <1>3
<1> QED  BY <1>4 DEF Upto

\* NearestSoFar is that function, so that each entry follows from the one before.
LEMMA LoopSteps ==
  ASSUME NEW value, NEW haystack, Len(haystack) \in Nat, NEW i \in 1..Len(haystack)
  PROVE  NearestSoFar(value, haystack)[i] = Nearer(value, haystack, NearestSoFar(value, haystack), i)
<1> DEFINE n == Len(haystack)
           closest == CHOOSE g : g = [j \in 1..n |-> Nearer(value, haystack, g, j)]
<1>1. NearestSoFar(value, haystack) = closest
  BY DEF NearestSoFar, Nearer
<1>2. closest = [j \in 1..n |-> Nearer(value, haystack, closest, j)]
  <2>1. \E g : g = [j \in 1..n |-> Nearer(value, haystack, g, j)]
    BY LoopEnds
  <2> QED BY <2>1
<1> QED BY <1>1, <1>2

\* The loop of array_find_closest_u8, for every list: after i values it has one
\* of them, none of them is nearer, and those before it are farther.
NearestOf(value, haystack, i, x) ==
    \E k \in 1..i :
        /\ x = haystack[k]
        /\ \A j \in 1..i : Nearness(value, x) <= Nearness(value, haystack[j])
        /\ \A j \in 1..k - 1 : Nearness(value, x) < Nearness(value, haystack[j])

\* One more value.
LEMMA OneMoreValue ==
  ASSUME NEW value \in Nat, NEW haystack \in Seq(Nat), NEW i \in 1..Len(haystack), i > 1,
         NEW x, NearestOf(value, haystack, i - 1, x)
  PROVE  NearestOf(value, haystack, i,
                   IF Nearness(value, haystack[i]) < Nearness(value, x) THEN haystack[i] ELSE x)
<1> DEFINE far(j) == Nearness(value, haystack[j])
<1>1. PICK k \in 1..i - 1 :
         /\ x = haystack[k]
         /\ \A j \in 1..i - 1 : Nearness(value, x) <= far(j)
         /\ \A j \in 1..k - 1 : Nearness(value, x) < far(j)
  BY SMT DEF NearestOf
<1>2. \A j \in 1..i : haystack[j] \in Nat /\ Nearness(value, haystack[j]) \in Nat
  <2>1. \A j \in 1..i : haystack[j] \in Nat
    OBVIOUS
  <2>2. ASSUME NEW a \in Nat PROVE Nearness(value, a) \in Nat
    BY DEF Nearness, Distance
  <2> QED  BY <2>1, <2>2
<1>3. Nearness(value, x) \in Nat /\ k \in 1..i
  BY <1>1, <1>2
<1>4. \A j \in 1..i : j # i => j \in 1..i - 1
  OBVIOUS
<1>5. CASE far(i) < Nearness(value, x)
  <2>1. ASSUME NEW j \in 1..i - 1 PROVE far(i) < far(j)
    <3>1. far(i) \in Nat /\ far(j) \in Nat
      BY <1>2
    <3>2. Nearness(value, x) <= far(j)
      BY <1>1
    <3> HIDE DEF far
    <3> QED  BY <1>3, <1>5, <3>1, <3>2
  <2>2. ASSUME NEW j \in 1..i PROVE far(i) <= far(j)
    <3>1. far(i) \in Nat /\ far(j) \in Nat
      BY <1>2
    <3>2. j # i => far(i) < far(j)
      BY <1>4, <2>1
    <3> HIDE DEF far
    <3> QED  BY <3>1, <3>2
  <2>3. NearestOf(value, haystack, i, haystack[i])
    BY <2>1, <2>2 DEF NearestOf
  <2> QED  BY <1>5, <2>3
<1>6. CASE ~(far(i) < Nearness(value, x))
  <2>1. Nearness(value, x) <= far(i)
    BY <1>2, <1>3, <1>6
  <2>2. \A j \in 1..i : Nearness(value, x) <= far(j)
    BY <1>1, <1>4, <2>1
  <2>3. NearestOf(value, haystack, i, x)
    BY <1>1, <1>3, <2>2 DEF NearestOf
  <2> QED  BY <1>6, <2>3
<1> QED  BY <1>5, <1>6

\* array_find_closest_u8 returns the first of the nearest values, whatever the list.
THEOREM FirstOfNearest ==
  ASSUME NEW value \in Nat, NEW haystack \in Seq(Nat), haystack # <<>>
  PROVE  NearestOf(value, haystack, Len(haystack), array_find_closest_u8(value, haystack))
<1> DEFINE n == Len(haystack)
           f == NearestSoFar(value, haystack)
           S == {i \in 1..n : NearestOf(value, haystack, i, f[i])}
<1>1. n \in Nat /\ n > 0
  BY EmptySeq
<1>2. \A i \in 1..n : f[i] = Nearer(value, haystack, f, i)
  BY <1>1, LoopSteps
<1> HIDE DEF f
<1>3. 1 \in S
  <2>1. f[1] = haystack[1] /\ haystack[1] \in Nat /\ 1 \in 1..n
    BY <1>1, <1>2 DEF Nearer
  <2>2. Nearness(value, haystack[1]) \in Nat
    BY <2>1 DEF Nearness, Distance
  <2>3. NearestOf(value, haystack, 1, f[1])
    BY <2>1, <2>2 DEF NearestOf
  <2> QED  BY <2>1, <2>3
<1>4. ASSUME NEW i \in 1..n, i > 1, i - 1 \in S PROVE i \in S
  <2>1. f[i] = IF Nearness(value, haystack[i]) < Nearness(value, f[i - 1]) THEN haystack[i] ELSE f[i - 1]
    BY <1>2, <1>4 DEF Nearer
  <2>2. NearestOf(value, haystack, i, f[i])
    BY <1>4, <2>1, OneMoreValue
  <2> QED  BY <2>2
<1>5. S = 1..n
  <2>1. S \in SUBSET (1..n)
    OBVIOUS
  <2> HIDE DEF S
  <2> QED  BY <1>1, <1>3, <1>4, <2>1, NumbersFromOne
<1>6. n \in S
  BY <1>1, <1>5
<1> QED  BY <1>6 DEF f, array_find_closest_u8

---------------------------------------------------------------------------
(* The charger                                                             *)

Writing     == {"cc4_write", "thresholds", "status"}
Storing     == {"detect", "read"} \cup Writing
Looking     == {"has_legacy", "write_back"}
ChargeSteps == Storing \cup Looking

\* What a program stores decides which steps it takes at the charger.
ChargeJobs ==
    \A p \in Programs :
        /\ step[p] \in ChargeSteps \cup FnSteps \cup {"idle"}
        /\ step[p] \in Storing => /\ job[p].field \in Charging /\ job[p].value \in Nat
                                  /\ job[p].field = "status" => job[p].value \in {0, 1}
        /\ step[p] \in Looking => job[p].field = "battery"

ChargerRecord == [start : Nat, end : Nat, status : {0, 1}]

\* The status is that asked for, the thresholds are those nearest to that.
Nearest(f, v, x) ==
    x \in Range(Available(f)) /\ \A y \in Range(Available(f)) : Distance(v, x) <= Distance(v, y)

InForce(c, w) == c.status = w.status /\ \A f \in {"start", "end"} : Nearest(f, w[f], c[f])

\* As long as nothing overlapped or failed a program is alone with the charger:
\* it has found the right method and read what is in force, and until it has
\* written the status, what is saved is what was in force before.
AloneWithCharger ==
    "charger" \notin mixed =>
        /\ charger \in ChargerRecord /\ saved \in ChargerRecord
        /\ InForce(saved, wanted)
        /\ \A p, q \in Programs : step[p] \in ChargeSteps /\ step[q] \in ChargeSteps => p = q
        /\ \A p \in Programs :
              /\ step[p] \in {"read"} \cup Writing => path[p] = method
              /\ step[p] \in Writing \cup {"write_back"} => previous[p] = saved
              /\ step[p] = "status" => charger = [Written(p) EXCEPT !.status = saved.status]
        /\ (\A p \in Programs : step[p] # "status") => charger = saved

ChargeInv == DOMAIN path = Programs /\ ChargeJobs /\ AloneWithCharger

\* The lists of thresholds are lists of numbers.
LEMMA ThresholdLists ==
    ASSUME NEW f
    PROVE  Available(f) \in Seq(Nat) /\ Available(f) # <<>>
<1>1. clevo_legacy_flexicharger_start_values \in Seq(Nat) /\ Len(clevo_legacy_flexicharger_start_values) > 0
  BY DEF clevo_legacy_flexicharger_start_values
<1>2. clevo_legacy_flexicharger_end_values \in Seq(Nat) /\ Len(clevo_legacy_flexicharger_end_values) > 0
  BY DEF clevo_legacy_flexicharger_end_values
<1>3. Available(f) \in Seq(Nat) /\ Len(Available(f)) > 0
  BY <1>1, <1>2, Zenon DEF Available
<1> QED
  BY <1>3, EmptySeq

\* A threshold that is written is the nearest of those offered.
LEMMA NearestIsWritten ==
    ASSUME NEW f \in {"start", "end"}, NEW v \in Nat
    PROVE  Nearest(f, v, ValueToWrite(f, v)) /\ ValueToWrite(f, v) \in Nat
<1> DEFINE list == Available(f)
           x == ValueToWrite(f, v)
<1>1. list \in Seq(Nat) /\ list # <<>>
  BY ThresholdLists
<1>2. x = array_find_closest_u8(v, list)
  BY DEF ValueToWrite
<1> HIDE DEF list, x
<1>3. PICK k \in 1..Len(list) :
         /\ x = list[k]
         /\ \A j \in 1..Len(list) : Nearness(v, x) <= Nearness(v, list[j])
  BY <1>1, <1>2, FirstOfNearest DEF NearestOf
<1>4. DOMAIN list = 1..Len(list)
  BY <1>1
<1>5. Range(list) = {list[j] : j \in 1..Len(list)}
  BY <1>4 DEF Range
<1>6. x \in Range(list) /\ x \in Nat
  BY <1>1, <1>3, <1>5
<1>7. \A y \in Range(list) : Distance(v, x) <= Distance(v, y)
  BY <1>3, <1>5 DEF Nearness
<1> QED
  BY <1>6, <1>7 DEF Nearest, list, x

\* Writing one of the three and the others back puts in force what was asked.
LEMMA OneFieldWritten ==
    ASSUME NEW c \in ChargerRecord, NEW w,
           DOMAIN w = {"lock", "kbstatus", "start", "end", "status", "battery"},
           NEW f \in Charging, NEW v \in Nat, f = "status" => v \in {0, 1}, InForce(c, w)
    PROVE  LET d == [c EXCEPT ![f] = ValueToWrite(f, v)]
           IN  d \in ChargerRecord /\ InForce(d, [w EXCEPT ![f] = v])
<1> DEFINE x == ValueToWrite(f, v)
           d == [c EXCEPT ![f] = x]
           u == [w EXCEPT ![f] = v]
<1>1. CASE f = "status"
  <2>1. x = v /\ v \in {0, 1}
    BY <1>1 DEF ValueToWrite
  <2>2. d = [c EXCEPT !.status = v] /\ u = [w EXCEPT !.status = v]
    BY <1>1, <2>1
  <2>3. d \in ChargerRecord /\ d.status = v /\ d["start"] = c["start"] /\ d["end"] = c["end"]
    BY <2>1, <2>2 DEF ChargerRecord
  <2>4. u.status = v /\ u["start"] = w["start"] /\ u["end"] = w["end"]
    BY <2>2
  <2> HIDE DEF d, u
  <2>5. InForce(d, u)
    BY <2>3, <2>4 DEF InForce
  <2> QED  BY <2>3, <2>5 DEF d, u
<1>2. CASE f = "start"
  <2>1. x \in Nat /\ Nearest("start", v, x)
    BY <1>2, NearestIsWritten
  <2>2. d = [c EXCEPT !.start = x] /\ u = [w EXCEPT !.start = v]
    BY <1>2
  <2> HIDE DEF x
  <2>3. d \in ChargerRecord /\ d.status = c.status /\ d["start"] = x /\ d["end"] = c["end"]
    BY <2>1, <2>2 DEF ChargerRecord
  <2>4. u.status = w.status /\ u["start"] = v /\ u["end"] = w["end"]
    BY <2>2
  <2> HIDE DEF d, u
  <2>5. InForce(d, u)
    BY <2>1, <2>3, <2>4 DEF InForce
  <2> QED  BY <2>3, <2>5 DEF d, u, x
<1>3. CASE f = "end"
  <2>1. x \in Nat /\ Nearest("end", v, x)
    BY <1>3, NearestIsWritten
  <2>2. d = [c EXCEPT !.end = x] /\ u = [w EXCEPT !.end = v]
    BY <1>3
  <2> HIDE DEF x
  <2>3. d \in ChargerRecord /\ d.status = c.status /\ d["start"] = c["start"] /\ d["end"] = x
    BY <2>1, <2>2 DEF ChargerRecord
  <2>4. u.status = w.status /\ u["start"] = w["start"] /\ u["end"] = v
    BY <2>2
  <2> HIDE DEF d, u
  <2>5. InForce(d, u)
    BY <2>1, <2>3, <2>4 DEF InForce
  <2> QED  BY <2>3, <2>5 DEF d, u, x
<1> QED  BY <1>1, <1>2, <1>3 DEF Charging

\* At the start the thresholds are two of those offered.
LEMMA ChargeInit == ClevoSettingsInit => ChargeInv
<1> SUFFICES ASSUME ClevoSettingsInit PROVE ChargeInv
  OBVIOUS
<1>1. \A p \in Programs : step[p] = "idle"
  BY DEF ClevoSettingsInit
<1>2. ChargeJobs /\ DOMAIN path = Programs
  BY <1>1 DEF ChargeJobs, Storing, Looking, Writing, ClevoSettingsInit
<1>3. charger = [start |-> 40, end |-> 100, status |-> 0] /\ saved = charger
  BY DEF ClevoSettingsInit
<1>4. wanted.start = 40 /\ wanted.end = 100 /\ wanted.status = 0
  BY DEF ClevoSettingsInit
<1>5. /\ Available("start") = <<40, 50, 60, 70, 80, 95>>
      /\ Available("end") = <<60, 70, 80, 90, 100>>
  BY DEF Available, clevo_legacy_flexicharger_start_values, clevo_legacy_flexicharger_end_values
<1>6. \A f \in {"start", "end"} : Range(Available(f)) = {Available(f)[j] : j \in 1..Len(Available(f))}
  BY ThresholdLists DEF Range
<1>7. \A f \in {"start", "end"} : \A y \in Range(Available(f)) : y \in Nat
  BY <1>6, ThresholdLists
<1>8. 40 \in Range(Available("start")) /\ 100 \in Range(Available("end"))
  BY <1>5, <1>6
<1>9. \A v \in Nat : Distance(v, v) = 0 /\ \A y \in Nat : Distance(v, y) >= 0
  BY DEF Distance
<1>10. InForce(saved, wanted)
  BY <1>3, <1>4, <1>7, <1>8, <1>9 DEF InForce, Nearest
<1> QED
  BY <1>1, <1>2, <1>3, <1>10
     DEF ChargeInv, AloneWithCharger, ChargerRecord, Storing, Looking, Writing, ChargeSteps

\* Asking for something: whoever starts on a charger in use marks it.
LEMMA ChargeCall ==
    ASSUME FnInv, ChargeInv, NEW p \in Programs, Asks(p)
    PROVE  ChargeInv'
<1>1. PICK f, v, first :
         /\ Calls(p, f, v, first)
         /\ \/ f \in Charging /\ v \in Nat /\ (f = "status" => v \in {0, 1}) /\ first = "detect"
            \/ f = "battery" /\ first = "has_legacy"
            \/ f = "lock" /\ first \in {"fn_get", "fn_toggle"}
  <2>1. \A v \in Asked : v \in Nat
    BY ClevoSettingsAssumption
  <2> QED  BY <2>1 DEF Asks, Charging
<1>2. /\ job' = [job EXCEPT ![p] = [field |-> f, value |-> v]]
      /\ step' = [step EXCEPT ![p] = first]
      /\ UNCHANGED <<method, charger, saved, path, previous, wanted>> /\ step[p] = "idle"
  BY <1>1 DEF Calls, Goes, firmware, Busy
<1>3. ASSUME NEW q \in Programs
      PROVE  /\ q = p => step'[q] = first /\ job'[q].field = f /\ job'[q].value = v
             /\ q # p => step'[q] = step[q] /\ job'[q] = job[q]
  BY <1>2 DEF FnInv, KeyboardTypes
<1>4. DOMAIN path' = Programs /\ ChargeJobs'
  BY <1>1, <1>2, <1>3 DEF ChargeInv, ChargeJobs, ChargeSteps, FnSteps, Storing, Looking, Writing
<1>5. ASSUME "charger" \notin mixed' PROVE AloneWithCharger'
  <2>1. "charger" \notin mixed
    BY <1>1, <1>5 DEF Calls
  <2>2. ASSUME first \in ChargeSteps, NEW q \in Programs, step[q] \in ChargeSteps PROVE FALSE
    <3>1. Object(f) = "charger"
      BY <1>1, <2>2 DEF Object, ChargeSteps, Storing, Looking, Writing
    <3>2. Busy(q) /\ Object(job[q].field) = "charger"
      BY <2>2 DEF ChargeInv, ChargeJobs, ChargeSteps, Storing, Looking, Writing, Object, Busy, Charging
    <3> QED
      BY <1>1, <1>5, <3>1, <3>2 DEF Calls
  <2>3. \A a, b \in Programs : step'[a] \in ChargeSteps /\ step'[b] \in ChargeSteps => a = b
    BY <1>3, <2>1, <2>2 DEF ChargeInv, AloneWithCharger
  <2>4. first \notin {"read", "write_back"} \cup Writing
    BY <1>1 DEF Writing
  <2>5. ASSUME NEW q \in Programs, step'[q] \in {"read", "write_back"} \cup Writing
        PROVE  q # p /\ step'[q] = step[q] /\ Written(q)' = Written(q)
    BY <1>2, <1>3, <2>4, <2>5 DEF Written
  <2>6. \A q \in Programs :
           /\ step'[q] \in {"read"} \cup Writing => path'[q] = method'
           /\ step'[q] \in Writing \cup {"write_back"} => previous'[q] = saved'
           /\ step'[q] = "status" => charger' = [Written(q)' EXCEPT !.status = saved'.status]
    BY <1>2, <2>1, <2>5 DEF ChargeInv, AloneWithCharger, Writing
  <2>7. (\A q \in Programs : step'[q] # "status") => \A q \in Programs : step[q] # "status"
    BY <1>2, <1>3
  <2> QED
    BY <1>2, <2>1, <2>3, <2>6, <2>7 DEF ChargeInv, AloneWithCharger
<1> QED
  BY <1>4, <1>5 DEF ChargeInv, AloneWithCharger

\* A method fails: what it was about is marked, if that is the charger.
LEMMA ChargeFails ==
    ASSUME FnInv, ChargeInv, NEW p \in Programs, MethodFails(p), Busy(p)
    PROVE  ChargeInv'
<1>1. /\ step' = [step EXCEPT ![p] = "idle"] /\ mixed' = mixed \cup {Object(job[p].field)}
      /\ UNCHANGED <<method, charger, saved, job, path, previous, wanted>>
  BY DEF MethodFails, Goes, firmware
<1>2. ASSUME NEW q \in Programs PROVE (q = p => step'[q] = "idle") /\ (q # p => step'[q] = step[q])
  BY <1>1 DEF FnInv, KeyboardTypes
<1>3. DOMAIN path' = Programs /\ ChargeJobs'
  BY <1>1, <1>2 DEF ChargeInv, ChargeJobs, Storing, Looking, Writing
<1>4. ASSUME "charger" \notin mixed' PROVE AloneWithCharger'
  <2>1. "charger" \notin mixed /\ Object(job[p].field) # "charger"
    BY <1>1, <1>4
  <2>2. step[p] \notin ChargeSteps
    BY <2>1 DEF ChargeInv, ChargeJobs, ChargeSteps, Storing, Looking, Writing, Object, Charging
  <2>3. step[p] # "status"
    BY <2>2 DEF ChargeSteps, Storing, Writing
  <2>4. \A q \in Programs : step'[q] \in {step[q], "idle"} /\ Written(q)' = Written(q)
    BY <1>1, <1>2 DEF Written
  <2>5. (\A q \in Programs : step'[q] # "status") => \A q \in Programs : step[q] # "status"
    BY <1>2, <2>3
  <2> QED
    BY <1>1, <2>1, <2>4, <2>5 DEF ChargeInv, AloneWithCharger, ChargeSteps, Storing, Looking, Writing
<1> QED
  BY <1>3, <1>4 DEF ChargeInv, AloneWithCharger

\* Steps at the fn lock do not concern the charger.
LEMMA LockStep ==
    ASSUME FnInv, ChargeInv, NEW p \in Programs, step[p] \in FnSteps, NEW place \in FnSteps \cup {"idle"},
           step' = [step EXCEPT ![p] = place], UNCHANGED <<method, charger, saved, path, mixed>>,
           \A q \in Programs \ {p} : job'[q] = job[q] /\ previous'[q] = previous[q],
           wanted'.start = wanted.start, wanted'.end = wanted.end, wanted'.status = wanted.status
    PROVE  ChargeInv'
<1>1. ASSUME NEW q \in Programs PROVE (q = p => step'[q] = place) /\ (q # p => step'[q] = step[q])
  BY DEF FnInv, KeyboardTypes
<1>2. ASSUME NEW s \in FnSteps \cup {"idle"} PROVE s \notin ChargeSteps
  BY DEF FnSteps, ChargeSteps, Storing, Looking, Writing
<1>3. ASSUME NEW q \in Programs, step'[q] \in ChargeSteps
      PROVE  q # p /\ step'[q] = step[q] /\ job'[q] = job[q] /\ previous'[q] = previous[q]
  BY <1>1, <1>2, <1>3
<1>4. DOMAIN path' = Programs /\ ChargeJobs'
  <2>1. DOMAIN path' = Programs
    BY DEF ChargeInv
  <2>2. ASSUME NEW q \in Programs PROVE step'[q] \in ChargeSteps \cup FnSteps \cup {"idle"}
    BY <1>1 DEF ChargeInv, ChargeJobs
  <2>3. ASSUME NEW q \in Programs
        PROVE  /\ step'[q] \in Storing => /\ job'[q].field \in Charging /\ job'[q].value \in Nat
                                          /\ job'[q].field = "status" => job'[q].value \in {0, 1}
               /\ step'[q] \in Looking => job'[q].field = "battery"
    <3>1. CASE step'[q] \in ChargeSteps
      BY <1>3, <3>1 DEF ChargeInv, ChargeJobs
    <3>2. CASE step'[q] \notin ChargeSteps
      BY <3>2 DEF ChargeSteps
    <3> QED  BY <3>1, <3>2
  <2> QED  BY <2>1, <2>2, <2>3 DEF ChargeJobs
<1>5. ASSUME "charger" \notin mixed PROVE AloneWithCharger'
  <2>1. \A a, b \in Programs : step'[a] \in ChargeSteps /\ step'[b] \in ChargeSteps => a = b
    BY <1>3, <1>5 DEF ChargeInv, AloneWithCharger
  <2>2. InForce(saved, wanted')
    BY <1>5 DEF ChargeInv, AloneWithCharger, InForce
  <2>3. ASSUME NEW q \in Programs, step'[q] \in {"read", "write_back"} \cup Writing
        PROVE  /\ step'[q] = step[q] /\ path'[q] = path[q]
               /\ previous'[q] = previous[q] /\ Written(q)' = Written(q)
    BY <1>3, <2>3 DEF Written, ChargeSteps, Storing, Looking
  <2>4. \A q \in Programs :
           /\ step'[q] \in {"read"} \cup Writing => path'[q] = method'
           /\ step'[q] \in Writing \cup {"write_back"} => previous'[q] = saved'
           /\ step'[q] = "status" => charger' = [Written(q)' EXCEPT !.status = saved'.status]
    BY <1>5, <2>3 DEF ChargeInv, AloneWithCharger, Writing
  <2>5. (\A q \in Programs : step'[q] # "status") => \A q \in Programs : step[q] # "status"
    BY <1>1 DEF FnSteps
  <2>6. charger' \in ChargerRecord /\ saved' \in ChargerRecord
    BY <1>5 DEF ChargeInv, AloneWithCharger
  <2>7. (\A q \in Programs : step'[q] # "status") => charger' = saved'
    BY <1>5, <2>5 DEF ChargeInv, AloneWithCharger
  <2> QED
    BY <2>1, <2>2, <2>4, <2>6, <2>7 DEF AloneWithCharger
<1> QED
  BY <1>4, <1>5 DEF ChargeInv, AloneWithCharger

\* The steps of the fn lock are such steps.
LEMMA LockSteps ==
    ASSUME FnInv, ChargeInv, NEW p \in Programs, FnToggle(p) \/ FnGet(p) \/ FnSet(p)
    PROVE  ChargeInv'
<1>1. step[p] \in FnSteps /\ Busy(p) /\ job[p].field = "lock"
  BY DEF FnInv, JobInv, FnToggle, FnGet, FnSet, FnSteps, Busy
<1>2. CASE MethodFails(p)
  BY <1>1, <1>2, ChargeFails
<1>3. CASE ~MethodFails(p)
  <2>1. UNCHANGED <<method, charger, saved, path, mixed>>
    BY <1>3 DEF FnToggle, FnGet, FnSet, firmware, Moves, Returns
  <2>2. \E place \in FnSteps \cup {"idle"} : step' = [step EXCEPT ![p] = place]
    BY <1>3 DEF FnToggle, FnGet, FnSet, Moves, Returns, Goes, FnSteps
  <2>3. \A q \in Programs \ {p} : job'[q] = job[q] /\ previous'[q] = previous[q]
    BY <1>3 DEF FnToggle, FnGet, FnSet, Moves, Returns, FnInv, KeyboardTypes
  <2>4. UNCHANGED wanted \/ wanted' = [wanted EXCEPT !["lock"] = job[p].value]
    BY <1>1, <1>3 DEF FnToggle, FnGet, FnSet, Returns
  <2>5. wanted'.start = wanted.start /\ wanted'.end = wanted.end /\ wanted'.status = wanted.status
    BY <2>4 DEF FnInv, KeyboardTypes
  <2>6. PICK place \in FnSteps \cup {"idle"} : step' = [step EXCEPT ![p] = place]
    BY <2>2
  <2> QED
    BY <1>1, <2>1, <2>3, <2>5, <2>6, LockStep
<1> QED
  BY <1>2, <1>3

\* A step at the charger: nobody else is there, so it is enough to look at this program.
LEMMA ChargerTurn ==
    ASSUME FnInv, ChargeInv, NEW p \in Programs, step[p] \in ChargeSteps,
           NEW place \in ChargeSteps \cup {"idle"}, step' = [step EXCEPT ![p] = place],
           UNCHANGED <<job, method>>, DOMAIN path' = Programs,
           mixed \subseteq mixed',
           place \in Storing => step[p] \in Storing, place \in Looking => step[p] \in Looking,
           "charger" \notin mixed' =>
               /\ charger' \in ChargerRecord /\ saved' \in ChargerRecord /\ InForce(saved', wanted')
               /\ place \in {"read"} \cup Writing => path'[p] = method
               /\ place \in Writing \cup {"write_back"} => previous'[p] = saved'
               /\ place = "status" => charger' = [Written(p)' EXCEPT !.status = saved'.status]
               /\ place # "status" => charger' = saved'
    PROVE  ChargeInv'
<1>1. ASSUME NEW q \in Programs PROVE (q = p => step'[q] = place) /\ (q # p => step'[q] = step[q])
  BY DEF FnInv, KeyboardTypes
<1>2. ChargeJobs'
  BY <1>1 DEF ChargeInv, ChargeJobs
<1>3. ASSUME "charger" \notin mixed' PROVE AloneWithCharger'
  <2>1. "charger" \notin mixed
    BY <1>3
  <2>2. ASSUME NEW q \in Programs, q # p PROVE step'[q] \notin ChargeSteps
    BY <1>1, <2>1, <2>2 DEF ChargeInv, AloneWithCharger
  <2>3. \A a, b \in Programs : step'[a] \in ChargeSteps /\ step'[b] \in ChargeSteps => a = b
    BY <2>2
  <2>4. \A s \in {"read", "write_back"} \cup Writing : s \in ChargeSteps
    BY DEF ChargeSteps, Storing, Looking
  <2>5. ASSUME NEW q \in Programs
        PROVE  /\ step'[q] \in {"read"} \cup Writing => path'[q] = method'
               /\ step'[q] \in Writing \cup {"write_back"} => previous'[q] = saved'
               /\ step'[q] = "status" => charger' = [Written(q)' EXCEPT !.status = saved'.status]
    <3>1. CASE q = p
      BY <1>1, <1>3, <3>1
    <3>2. CASE q # p
      BY <2>2, <2>4, <3>2 DEF Writing
    <3> QED  BY <3>1, <3>2
  <2>6. (\A q \in Programs : step'[q] # "status") => charger' = saved'
    BY <1>1, <1>3
  <2> QED
    BY <1>3, <2>3, <2>5, <2>6 DEF AloneWithCharger
<1> QED
  BY <1>2, <1>3 DEF ChargeInv, AloneWithCharger

\* A program that has returned is in none of the steps.
LEMMA IdleIsNoStep == "idle" \notin {"read", "write_back", "status"} \cup Storing \cup Looking \cup Writing
BY DEF Storing, Looking, Writing

\* Finding the method, which goes wrong only if the call fails.
LEMMA DetectStep ==
    ASSUME FnInv, ChargeInv, NEW p \in Programs, Detect(p)
    PROVE  ChargeInv'
<1>1. /\ step[p] = "detect" /\ step' = [step EXCEPT ![p] = "read"]
      /\ UNCHANGED <<method, charger, saved, previous, wanted, job>> /\ mixed \subseteq mixed'
      /\ \/ path' = [path EXCEPT ![p] = method]
         \/ "charger" \in mixed' /\ path' = [path EXCEPT ![p] = "legacy"]
  BY DEF Detect, Moves, Goes, firmware
<1>2. DOMAIN path' = Programs /\ ("charger" \notin mixed' => path'[p] = method)
  BY <1>1 DEF ChargeInv
<1>3. "charger" \notin mixed' => step[p] # "status" /\ \A q \in Programs : step[q] \in ChargeSteps => q = p
  BY <1>1 DEF ChargeInv, AloneWithCharger, ChargeSteps, Storing
<1>4. "charger" \notin mixed' => \A q \in Programs : step[q] # "status"
  BY <1>1, <1>3 DEF ChargeSteps, Storing, Writing
<1>5. "charger" \notin mixed' =>
         /\ charger' \in ChargerRecord /\ saved' \in ChargerRecord
         /\ InForce(saved', wanted') /\ charger' = saved'
  BY <1>1, <1>4 DEF ChargeInv, AloneWithCharger
<1>6. "read" \in Storing /\ "read" \notin Looking \cup Writing \cup {"write_back"} /\ step[p] \in Storing
  BY <1>1 DEF Storing, Looking, Writing
<1> QED
  BY <1>1, <1>2, <1>5, <1>6, ChargerTurn DEF ChargeSteps

\* Whoever is alone and has not written a part sees that all is in force.
LEMMA NothingHalfWritten ==
    ASSUME ChargeInv, NEW p \in Programs, step[p] \in ChargeSteps \ {"status"}, "charger" \notin mixed
    PROVE  /\ charger = saved /\ saved \in ChargerRecord /\ InForce(saved, wanted)
           /\ step[p] \in Writing \cup {"write_back"} => previous[p] = charger
<1>1. \A q \in Programs : step[q] # "status"
  BY DEF ChargeInv, AloneWithCharger, ChargeSteps, Storing, Writing
<1> QED
  BY <1>1 DEF ChargeInv, AloneWithCharger

\* Reading what is in force.
LEMMA ReadStep ==
    ASSUME FnInv, ChargeInv, NEW p \in Programs, ReadPrevious(p) \/ ReadBattery(p)
    PROVE  ChargeInv'
<1>1. step[p] \in {"read", "has_legacy"} /\ step[p] \in ChargeSteps \ {"status"} /\ Busy(p)
  BY DEF ReadPrevious, ReadBattery, ChargeSteps, Storing, Looking, Writing, Busy
<1>2. CASE MethodFails(p)
  BY <1>1, <1>2, ChargeFails
<1>3. CASE ~MethodFails(p)
  <2>1. /\ previous' = [previous EXCEPT ![p] = charger]
        /\ UNCHANGED <<method, charger, saved, path, wanted, job, mixed>>
    BY <1>3 DEF ReadPrevious, ReadBattery, Moves, firmware
  <2>2. PICK place : /\ step' = [step EXCEPT ![p] = place]
                     /\ IF step[p] = "read" THEN place \in {"cc4_write", "thresholds"}
                        ELSE place = "write_back"
    BY <1>3 DEF ReadPrevious, ReadBattery, Moves, Goes, LegacySteps
  <2>3. /\ place \in ChargeSteps /\ place \notin {"read", "status"}
        /\ (place \in Storing => step[p] \in Storing) /\ (place \in Looking => step[p] \in Looking)
        /\ place \in Writing => step[p] = "read"
    BY <1>1, <2>2 DEF ChargeSteps, Storing, Looking, Writing
  <2>4. previous'[p] = charger
    BY <2>1 DEF FnInv, KeyboardTypes
  <2>5. "charger" \notin mixed =>
           charger \in ChargerRecord /\ saved \in ChargerRecord /\ InForce(saved, wanted) /\ charger = saved
    BY <1>1, NothingHalfWritten
  <2>6. "charger" \notin mixed /\ place \in Writing => path[p] = method
    BY <2>3 DEF ChargeInv, AloneWithCharger
  <2>7. DOMAIN path' = Programs
    BY <2>1 DEF ChargeInv
  <2> QED
    BY <1>1, <2>1, <2>2, <2>3, <2>4, <2>5, <2>6, <2>7, ChargerTurn
<1> QED
  BY <1>2, <1>3

\* The battery comes: what was read is written back.
LEMMA WriteBackStep ==
    ASSUME FnInv, ChargeInv, NEW p \in Programs, WriteBack(p)
    PROVE  ChargeInv'
<1>1. step[p] = "write_back" /\ step[p] \in ChargeSteps \ {"status"} /\ Busy(p)
  BY DEF WriteBack, ChargeSteps, Looking, Busy
<1>2. CASE MethodFails(p)
  BY <1>1, <1>2, ChargeFails
<1>3. CASE ~MethodFails(p)
  <2>1. /\ charger' = IF method = "legacy"
                      THEN [charger EXCEPT !.start = previous[p].start, !.end = previous[p].end]
                      ELSE charger
        /\ step' = [step EXCEPT ![p] = "idle"]
        /\ UNCHANGED <<method, saved, path, previous, wanted, job, mixed>>
    BY <1>3 DEF WriteBack, Moves, Goes
  <2>2. "charger" \notin mixed =>
           /\ charger = saved /\ saved \in ChargerRecord /\ InForce(saved, wanted) /\ previous[p] = charger
    BY <1>1, NothingHalfWritten
  <2>3. ASSUME NEW c \in ChargerRecord PROVE [c EXCEPT !.start = c.start, !.end = c.end] = c
    BY DEF ChargerRecord
  <2>4. "charger" \notin mixed => charger' = charger
    <3> SUFFICES ASSUME "charger" \notin mixed PROVE charger' = charger
      OBVIOUS
    <3>1. charger \in ChargerRecord /\ previous[p] = charger
      BY <2>2
    <3>2. charger' \in {charger, [charger EXCEPT !.start = charger.start, !.end = charger.end]}
      BY <2>1, <3>1
    <3> QED
      BY <2>3, <3>1, <3>2
  <2>5. DOMAIN path' = Programs
    BY <2>1 DEF ChargeInv
  <2>6. "charger" \notin mixed' =>
           /\ charger' \in ChargerRecord /\ saved' \in ChargerRecord
           /\ InForce(saved', wanted') /\ charger' = saved'
    BY <2>1, <2>2, <2>4
  <2>7. step[p] \in ChargeSteps /\ mixed \subseteq mixed' /\ UNCHANGED <<job, method>>
    BY <1>1, <2>1, Zenon DEF WriteBack, Moves, Goes
  <2> QED
    BY <2>1, <2>5, <2>6, <2>7, ChargerTurn, IdleIsNoStep
<1> QED
  BY <1>2, <1>3

\* What a program alone at the charger is about to write is what is asked for.
LEMMA WritesWhatIsAsked ==
    ASSUME FnInv, ChargeInv, NEW p \in Programs, step[p] \in Writing, "charger" \notin mixed
    PROVE  /\ Written(p) \in ChargerRecord
           /\ InForce(Written(p), [wanted EXCEPT ![job[p].field] = job[p].value])
<1>1. /\ previous[p] = saved /\ saved \in ChargerRecord /\ InForce(saved, wanted)
  BY DEF ChargeInv, AloneWithCharger
<1>2. /\ job[p].field \in Charging /\ job[p].value \in Nat
      /\ job[p].field = "status" => job[p].value \in {0, 1}
  BY DEF ChargeInv, ChargeJobs, Storing
<1>3. DOMAIN wanted = {"lock", "kbstatus", "start", "end", "status", "battery"}
  BY DEF FnInv, KeyboardTypes
<1>4. Written(p) = [saved EXCEPT ![job[p].field] = ValueToWrite(job[p].field, job[p].value)]
  BY <1>1 DEF Written
<1>5. PICK f, v : f = job[p].field /\ v = job[p].value
  OBVIOUS
<1>6. f \in Charging /\ v \in Nat /\ (f = "status" => v \in {0, 1})
  BY <1>2, <1>5
<1>7. LET d == [saved EXCEPT ![f] = ValueToWrite(f, v)]
      IN  d \in ChargerRecord /\ InForce(d, [wanted EXCEPT ![f] = v])
  BY <1>1, <1>3, <1>6, OneFieldWritten
<1> QED
  BY <1>4, <1>5, <1>7

\* The method that writes all three.
LEMMA WriteCc4Step ==
    ASSUME FnInv, ChargeInv, NEW p \in Programs, WriteCc4(p)
    PROVE  ChargeInv'
<1>1. step[p] = "cc4_write" /\ step[p] \in ChargeSteps \cap Writing /\ Busy(p)
  BY DEF WriteCc4, ChargeSteps, Storing, Writing, Busy
<1>2. CASE MethodFails(p)
  BY <1>1, <1>2, ChargeFails
<1>3. CASE ~MethodFails(p)
  <2>1. /\ charger' = Written(p) /\ saved' = Written(p)
        /\ wanted' = [wanted EXCEPT ![job[p].field] = job[p].value]
        /\ step' = [step EXCEPT ![p] = "idle"] /\ UNCHANGED <<method, path, previous, job, mixed>>
    BY <1>3 DEF WriteCc4, Returns, Goes
  <2>2. "charger" \notin mixed => charger' \in ChargerRecord /\ InForce(charger', wanted')
    BY <1>1, <2>1, WritesWhatIsAsked
  <2>3. DOMAIN path' = Programs
    BY <2>1 DEF ChargeInv
  <2> QED
    BY <1>1, <2>1, <2>2, <2>3, ChargerTurn, IdleIsNoStep
<1> QED
  BY <1>2, <1>3

\* The older method, first the thresholds: the status is still as it was.
LEMMA WriteThresholdsStep ==
    ASSUME FnInv, ChargeInv, NEW p \in Programs, WriteLegacy(p, 1)
    PROVE  ChargeInv'
<1>1. step[p] = "thresholds" /\ step[p] \in Writing /\ step[p] \in ChargeSteps \ {"status"} /\ Busy(p)
  BY DEF WriteLegacy, LegacySteps, ChargeSteps, Storing, Writing, Busy
<1>2. CASE MethodFails(p)
  BY <1>1, <1>2, ChargeFails
<1>3. CASE ~MethodFails(p)
  <2>1. /\ IF ~Understood(p) THEN UNCHANGED <<charger, saved>>
           ELSE /\ charger' = [charger EXCEPT !.start = Written(p).start, !.end = Written(p).end]
                /\ UNCHANGED saved
        /\ step' = [step EXCEPT ![p] = "status"] /\ UNCHANGED <<method, path, previous, wanted, job, mixed>>
    BY <1>1, <1>3 DEF WriteLegacy, LegacyGoesOn, LegacySteps, Moves, Goes
  <2>2. ASSUME "charger" \notin mixed
        PROVE  /\ charger' \in ChargerRecord /\ saved' \in ChargerRecord /\ InForce(saved', wanted')
               /\ path[p] = method /\ previous'[p] = saved'
               /\ charger' = [Written(p) EXCEPT !.status = saved.status]
    <3>1. /\ charger = saved /\ saved \in ChargerRecord /\ InForce(saved, wanted) /\ previous[p] = saved
      BY <1>1, <2>2, NothingHalfWritten
    <3>2. path[p] = method
      BY <1>1, <2>2 DEF ChargeInv, AloneWithCharger
    <3>3. Written(p) \in ChargerRecord
      BY <1>1, <2>2, WritesWhatIsAsked
    <3>4. charger' = [saved EXCEPT !.start = Written(p).start, !.end = Written(p).end] /\ UNCHANGED saved
      BY <2>1, <3>1, <3>2 DEF Understood
    <3>5. ASSUME NEW c \in ChargerRecord, NEW d \in ChargerRecord
          PROVE  /\ [c EXCEPT !.start = d.start, !.end = d.end] = [d EXCEPT !.status = c.status]
                 /\ [d EXCEPT !.status = c.status] \in ChargerRecord
      BY DEF ChargerRecord
    <3>6. charger' = [Written(p) EXCEPT !.status = saved.status] /\ charger' \in ChargerRecord
      BY <3>1, <3>3, <3>4, <3>5
    <3> QED
      BY <2>1, <3>1, <3>2, <3>4, <3>6
  <2>3. Written(p)' = Written(p)
    BY <2>1 DEF Written
  <2>4. /\ DOMAIN path' = Programs
        /\ "status" \in Storing \cap Writing /\ "status" \notin {"read"} \cup Looking
        /\ "status" \in ChargeSteps /\ step[p] \in Storing
    BY <1>1, <2>1 DEF ChargeInv, Storing, Looking, Writing, ChargeSteps
  <2>5. "charger" \notin mixed' =>
               /\ charger' \in ChargerRecord /\ saved' \in ChargerRecord /\ InForce(saved', wanted')
               /\ path'[p] = method /\ previous'[p] = saved'
               /\ charger' = [Written(p)' EXCEPT !.status = saved'.status]
    BY <2>1, <2>2, <2>3
  <2> QED
    BY <1>1, <2>1, <2>4, <2>5, ChargerTurn
<1> QED
  BY <1>2, <1>3

\* Then the status: with it all is in force, and saved.
LEMMA WriteStatusStep ==
    ASSUME FnInv, ChargeInv, NEW p \in Programs, WriteLegacy(p, 2)
    PROVE  ChargeInv'
<1>1. step[p] = "status" /\ step[p] \in ChargeSteps \cap Writing /\ Busy(p)
  BY DEF WriteLegacy, LegacySteps, ChargeSteps, Storing, Writing, Busy
<1>2. CASE MethodFails(p)
  BY <1>1, <1>2, ChargeFails
<1>3. CASE ~MethodFails(p)
  <2>1. /\ IF ~Understood(p) THEN UNCHANGED <<charger, saved>>
           ELSE charger' = [charger EXCEPT !.status = Written(p).status] /\ saved' = charger'
        /\ wanted' = [wanted EXCEPT ![job[p].field] = job[p].value]
        /\ step' = [step EXCEPT ![p] = "idle"] /\ UNCHANGED <<method, path, previous, job, mixed>>
    BY <1>1, <1>3 DEF WriteLegacy, LegacyGoesOn, LegacySteps, Returns, Goes
  <2>2. ASSUME "charger" \notin mixed
        PROVE  charger' \in ChargerRecord /\ saved' = charger' /\ InForce(charger', wanted')
    <3>1. path[p] = method /\ charger = [Written(p) EXCEPT !.status = saved.status]
      BY <1>1, <2>2 DEF ChargeInv, AloneWithCharger
    <3>2. Written(p) \in ChargerRecord /\ InForce(Written(p), wanted')
      BY <1>1, <2>1, <2>2, WritesWhatIsAsked
    <3>3. charger' = [charger EXCEPT !.status = Written(p).status] /\ saved' = charger'
      BY <2>1, <3>1 DEF Understood
    <3>4. ASSUME NEW d \in ChargerRecord, NEW s PROVE [[d EXCEPT !.status = s] EXCEPT !.status = d.status] = d
      BY DEF ChargerRecord
    <3>5. charger' = Written(p)
      BY <3>1, <3>2, <3>3, <3>4
    <3> QED
      BY <3>2, <3>3, <3>5
  <2>3. DOMAIN path' = Programs
    BY <2>1 DEF ChargeInv
  <2> QED
    BY <1>1, <2>1, <2>2, <2>3, ChargerTurn, IdleIsNoStep
<1> QED
  BY <1>2, <1>3

\* Every step keeps the invariant.
LEMMA ChargeNext == FnInv /\ ChargeInv /\ [ClevoSettingsNext]_chargerVars => ChargeInv'
<1> SUFFICES ASSUME FnInv, ChargeInv, [ClevoSettingsNext]_chargerVars PROVE ChargeInv'
  OBVIOUS
<1>1. CASE UNCHANGED chargerVars
  BY <1>1 DEF chargerVars, ChargeInv, ChargeJobs, AloneWithCharger, Written
<1>2. ASSUME NEW p \in Programs, ProgramStep(p) PROVE ChargeInv'
  BY <1>2, ChargeCall, LockSteps, DetectStep, ReadStep, WriteBackStep, WriteCc4Step, WriteThresholdsStep,
     WriteStatusStep DEF ProgramStep
<1>3. CASE StatusChanges
  <2>1. /\ wanted' = [wanted EXCEPT !.kbstatus = 1 - @] /\ mixed \subseteq mixed'
        /\ UNCHANGED <<method, charger, saved, step, job, path, previous>>
    BY <1>3 DEF StatusChanges
  <2>2. wanted'.start = wanted.start /\ wanted'.end = wanted.end /\ wanted'.status = wanted.status
    BY <2>1 DEF FnInv, KeyboardTypes
  <2>3. InForce(saved, wanted) => InForce(saved', wanted')
    BY <2>1, <2>2 DEF InForce
  <2>4. \A p \in Programs : Written(p)' = Written(p)
    BY <2>1 DEF Written
  <2> QED
    BY <2>1, <2>3, <2>4 DEF ChargeInv, ChargeJobs, AloneWithCharger
<1> QED
  BY <1>1, <1>2, <1>3 DEF ClevoSettingsNext

\* Nobody at the charger: what is asked for is in force and saved.
LEMMA ChargeSettled == FnInv /\ ChargeInv => ChargingAsAsked
<1> SUFFICES ASSUME FnInv, ChargeInv, "charger" \notin mixed,
                    \A p \in Programs : Busy(p) => Object(job[p].field) # "charger"
             PROVE  /\ saved = charger /\ charger.status = wanted.status
                    /\ \A f \in {"start", "end"} : Nearest(f, wanted[f], charger[f])
  BY DEF ChargingAsAsked, Settled, Nearest
<1>1. \A p \in Programs : step[p] # "status"
  BY DEF ChargeInv, ChargeJobs, Busy, Object, Storing, Writing
<1> QED
  BY <1>1 DEF ChargeInv, AloneWithCharger, InForce

\* However many programs store thresholds or the status, and however often the
\* battery is looked for, what was stored last is in use and is what a restart
\* will find, and each threshold is the nearest one offered, unless calls
\* overlapped or failed (clevo_legacy_flexicharger_write, array_find_closest_u8).
THEOREM ChargingAlwaysAsAsked == ClevoSettingsSpec => []ChargingAsAsked
<1> QED
  BY FnInit, FnNext, ChargeInit, ChargeNext, ChargeSettled, PTL DEF ClevoSettingsSpec

---------------------------------------------------------------------------
(* The driver and its pointers: as long as no step of a creation failed and *)
(* no interface left while another one came, it serves its events; and each *)
(* pointer that is bad has a cause of its own.                              *)

Clean == ~overtaken /\ failed = {}

\* The pointers that were followed, and for which reason.
NoActive    == <<"no active interface", "">>
NoDriver    == <<"no current driver", "">>
FreedInput  == <<"freed input device", "">>
EventActive == <<"event", "active">>
KeyActive   == <<"touchpad key", "active">>

\* Which interface is the active one: never one that is gone, never WMI where
\* ACPI has come; and a removal keeps it until the driver is gone.
InterfaceInv ==
    /\ here \in Families /\ interfaces \subseteq here /\ active \in here \cup {"none"}
    /\ \A d \in Devices :
        /\ at[d] # "unbound" => d \in here
        /\ at[d] \in Removing => active = d /\ d \notin interfaces
        /\ active = d => at[d] \notin {"unbound", "add"}
    /\ "clevo_acpi" \in interfaces => active = "clevo_acpi"

\* Only Uniwill has the touchpad key, and only Clevo two interfaces.
FamilyInv ==
    /\ filter \/ key_work # {} => here = {"uniwill_wmi"}
    /\ overtaken => here = Clevo

\* Unless an interface leaves while another comes, nobody creates the driver
\* meanwhile.
ApartInv ==
    ~overtaken =>
        /\ \A d, e \in Devices : at[d] \in Leaving => at[e] \notin Creating \cup {"init"}
        /\ \A d \in Devices : at[d] \in Creating \cup {"init"} => active # "none"
        /\ NoActive \notin oops

\* An input device is freed, and met, only if it could not be registered.
FreedInv == input = "freed" \/ FreedInput \in oops => "input" \in failed

\* The active interface that has come has a driver, if it could be created.
ServedInv ==
    ~overtaken /\ "probe" \notin failed =>
        /\ \A d \in Devices :
            /\ at[d] = "dead" => "input" \in failed
            /\ active = d /\ at[d] \in {"bound", "leaving", "remove_driver"} => current
            /\ at[d] = "forget" => platform # "there"
            /\ at[d] = "inactive" => ~current
        /\ current => active # "none"
        /\ platform = "there" => current \/ \E e \in Devices : at[e] \in {"input", "current"}
        /\ NoDriver \notin oops

\* What lives from tuxedo_input_init to tuxedo_input_exit.
InputInv ==
    Clean =>
        /\ \A d \in Devices :
            /\ at[d] = "current" => input = "there"
            /\ at[d] \in {"unregister", "unregistered", "driver", "forget"} => input = "null"
        /\ current => \/ input = "there"
                      \/ \E e \in Devices : at[e] \in {"unregister", "unregistered", "driver", "forget"}
        /\ input = "there" => current \/ \E e \in Devices : at[e] = "current"

\* The input device of the driver is good while the driver is there, also if
\* interfaces come and go at once.
PointerInv ==
    failed = {} =>
        /\ platform = "there" => \/ input_device = "there"
                                 \/ \E e \in Devices : at[e] \in {"input", "unregister", "unregistered"}
        /\ \A d \in Devices : /\ at[d] = "current" => input_device = "there"
                              /\ active = d /\ at[d] = "bound" => input_device = "there"
        /\ EventActive \notin oops /\ KeyActive \notin oops

\* Events come from the start of a probe to the start of the removal.
HandledInv == \A d \in handled \cup pressed : d \in Devices /\ at[d] \in Probing \cup {"bound", "dead"}

LInv ==
    /\ DInv /\ InterfaceInv /\ FamilyInv /\ ApartInv /\ FreedInv /\ ServedInv /\ InputInv /\ PointerInv
    /\ HandledInv


\* Where a step of a device takes it; the other devices stay where they are.
LEMMA StepsGo ==
    ASSUME LifecycleTypes, NEW d \in Devices, DeviceStep(d)
    PROVE  /\ \A e \in Devices : e # d => at'[e] = at[e]
           /\ here' = here
<1> USE DEF Goto, Dies, ProbeReturns, Removed
<1>1. \A e \in Devices : e # d => at'[e] = at[e]
  BY DEF LifecycleTypes, DeviceStep, ProbeDevice, AddInterface, LookAtActive, InitBegin, CreateBundle,
     tuxedo_input_init, SetCurrent, RemoveDevice, RemoveInterface, CompareNames, tuxedo_input_exit,
     Unregister, ForgetDevice, UnregisterDriver, ForgetDriver, Deactivate, Press, Report
<1>2. here' = here
  BY DEF DeviceStep, ProbeDevice, AddInterface, LookAtActive, InitBegin, CreateBundle,
     tuxedo_input_init, SetCurrent, RemoveDevice, RemoveInterface, CompareNames, tuxedo_input_exit,
     Unregister, ForgetDevice, UnregisterDriver, ForgetDriver, Deactivate, Press, Report
<1> QED
  BY <1>1, <1>2

\* A step of a device keeps what is known of the interfaces.
LEMMA InterfaceStep ==
    ASSUME DInv, InterfaceInv, NEW d \in Devices, DeviceStep(d)
    PROVE  InterfaceInv'
<1> USE DEF Goto, Dies, ProbeReturns, Removed, Removing, Tearing, Undoing
<1>0. at \in [Devices -> Places]
  BY DEF DInv, LifecycleTypes
<1>1. (\A e \in Devices : e # d => at'[e] = at[e]) /\ here' = here
  BY StepsGo DEF DInv
<1>2. CASE ProbeDevice(d)
  <2>1. d \in here /\ at[d] = "unbound" /\ at'[d] = "add" /\ UNCHANGED <<interfaces, active>>
    BY <1>0, <1>2 DEF ProbeDevice
  <2> QED
    BY <1>1, <2>1 DEF InterfaceInv
<1>3. CASE AddInterface(d)
  <2>1. at[d] = "add" /\ at'[d] = "added" /\ interfaces' = interfaces \cup {d} /\ active' = Preferred(d)
        /\ adding_lock = "none"
    BY <1>0, <1>3 DEF AddInterface
  <2>2. d \in here /\ \A e \in Devices : at[e] \notin Removing
    BY <2>1, NoneIsNoDevice DEF InterfaceInv, DInv, MutexInv
  <2>3. active' = d \/ (active' = active /\ active # "none")
    BY <2>1 DEF Preferred
  <2>4. "clevo_acpi" \in interfaces' => active' = "clevo_acpi"
    <3>1. CASE d = "clevo_acpi"
      BY <2>1, <3>1 DEF Preferred
    <3>2. CASE d = "clevo_wmi"
      BY <2>1, <3>2 DEF Preferred, InterfaceInv
    <3>3. CASE d = "uniwill_wmi"
      BY <2>1, <2>2, <3>3 DEF Preferred, InterfaceInv, Families, Clevo
    <3> QED
      BY <3>1, <3>2, <3>3 DEF Devices, Clevo
  <2> QED
    BY <1>1, <2>1, <2>2, <2>3, <2>4 DEF InterfaceInv
<1>4. CASE \/ LookAtActive(d) \/ InitBegin(d) \/ CreateBundle(d) \/ tuxedo_input_init(d)
           \/ SetCurrent(d) \/ RemoveDevice(d)
  <2>1. at[d] \notin Removing \cup {"unbound", "add"} /\ at'[d] \notin Removing \cup {"unbound", "add"}
    BY <1>0, <1>4 DEF LookAtActive, InitBegin, CreateBundle, tuxedo_input_init, SetCurrent, RemoveDevice
  <2>2. UNCHANGED <<interfaces, active>>
    BY <1>4 DEF LookAtActive, InitBegin, CreateBundle, tuxedo_input_init, SetCurrent, RemoveDevice
  <2> QED
    BY <1>1, <2>1, <2>2 DEF InterfaceInv
<1>5. CASE RemoveInterface(d)
  <2>1. at[d] = "leaving" /\ interfaces' = interfaces \ {d} /\ active' = active
        /\ at'[d] = IF active = d THEN "remove_driver" ELSE "unbound"
    BY <1>0, <1>5 DEF RemoveInterface
  <2> QED
    BY <1>1, <2>1 DEF InterfaceInv
<1>6. CASE \/ CompareNames(d) \/ tuxedo_input_exit(d) \/ Unregister(d) \/ ForgetDevice(d)
           \/ UnregisterDriver(d) \/ ForgetDriver(d)
  <2>1. at[d] \in Removing /\ at'[d] \in Removing \cup {"dead"} /\ UNCHANGED <<interfaces, active>>
    BY <1>0, <1>6 DEF CompareNames, tuxedo_input_exit, Unregister, ForgetDevice, UnregisterDriver, ForgetDriver
  <2> QED
    BY <1>1, <2>1 DEF InterfaceInv
<1>7. CASE Deactivate(d)
  <2>1. at[d] = "inactive" /\ at'[d] = "unbound" /\ active' = "none" /\ interfaces' = interfaces
    BY <1>0, <1>7 DEF Deactivate
  <2>2. \A e \in Devices : at[e] \in Removing => e = d
    BY <2>1 DEF InterfaceInv
  <2>3. d # "clevo_acpi" => "clevo_acpi" \notin interfaces
    BY <2>1 DEF InterfaceInv
  <2>4. d \notin interfaces
    BY <2>1 DEF InterfaceInv
  <2> QED
    BY <1>1, <2>1, <2>2, <2>3, <2>4, NoneIsNoDevice DEF InterfaceInv
<1>8. CASE Press(d) \/ Report(d)
  BY <1>8 DEF Press, Report, InterfaceInv
<1> QED
  BY <1>2, <1>3, <1>4, <1>5, <1>6, <1>7, <1>8 DEF DeviceStep

\* What is known at a step of a device.
Known ==
    /\ LInv /\ at \in [Devices -> Places] /\ "none" \notin Devices /\ here \subseteq Devices

LEMMA StepKnows ==
    ASSUME LInv PROVE Known
<1>1. here \subseteq Devices
  BY DEF LInv, InterfaceInv, Families, Devices, Clevo
<1> QED
  BY <1>1, NoneIsNoDevice DEF Known, LInv, DInv, LifecycleTypes

LastingInv == FamilyInv /\ ApartInv /\ FreedInv /\ ServedInv /\ InputInv /\ PointerInv /\ HandledInv

\* The reasons are different ones.
LEMMA Reasons ==
    /\ NoActive \notin {NoDriver, FreedInput, EventActive, KeyActive}
    /\ NoDriver \notin {FreedInput, EventActive, KeyActive}
    /\ FreedInput \notin {EventActive, KeyActive} /\ EventActive # KeyActive
    /\ \A c : /\ <<"event", c>> \notin {NoActive, NoDriver, FreedInput, KeyActive}
              /\ <<"event", c>> = EventActive => c = "active"
              /\ <<"touchpad key", c>> \notin {NoActive, NoDriver, FreedInput, EventActive}
              /\ <<"touchpad key", c>> = KeyActive => c = "active"
BY DEF NoActive, NoDriver, FreedInput, EventActive, KeyActive

\* A device is found.
LEMMA ProbeStep ==
    ASSUME Known, NEW d \in Devices, ProbeDevice(d), \A e \in Devices : e # d => at'[e] = at[e]
    PROVE  LastingInv'
<1> USE DEF Creating, Leaving, Probing, Undoing, Tearing, driverVars, keyVars
<1>1. /\ DInv /\ InterfaceInv /\ FamilyInv /\ ApartInv /\ FreedInv /\ ServedInv /\ InputInv /\ PointerInv
      /\ HandledInv /\ MutexInv /\ PhaseInv /\ "none" \notin Devices
  BY DEF Known, LInv, DInv
<1>2. /\ d \in here /\ at[d] = "unbound" /\ at'[d] = "add" /\ handled' \subseteq handled \cup {d}
      /\ UNCHANGED <<here, active, driverVars, pressed, keyVars, oops, overtaken, failed>>
  BY DEF Known, ProbeDevice, Goto
<1>3. FamilyInv'
  BY <1>1, <1>2 DEF FamilyInv
<1>4. ApartInv'
  BY <1>1, <1>2 DEF ApartInv
<1>5. FreedInv'
  BY <1>1, <1>2 DEF FreedInv
<1>6. ServedInv'
  BY <1>1, <1>2 DEF ServedInv
<1>7. InputInv'
  BY <1>1, <1>2 DEF InputInv, Clean
<1>8. PointerInv'
  BY <1>1, <1>2 DEF PointerInv, InterfaceInv
<1>9. HandledInv'
  BY <1>1, <1>2 DEF HandledInv
<1> QED
  BY <1>3, <1>4, <1>5, <1>6, <1>7, <1>8, <1>9 DEF LastingInv

\* Its interface is added.
LEMMA AddStep ==
    ASSUME Known, NEW d \in Devices, AddInterface(d), \A e \in Devices : e # d => at'[e] = at[e]
    PROVE  LastingInv'
<1> USE DEF Creating, Leaving, Probing, Undoing, Tearing, driverVars, keyVars
<1>1. /\ DInv /\ InterfaceInv /\ FamilyInv /\ ApartInv /\ FreedInv /\ ServedInv /\ InputInv /\ PointerInv
      /\ HandledInv /\ MutexInv /\ PhaseInv /\ "none" \notin Devices
  BY DEF Known, LInv, DInv
<1>2. /\ at[d] = "add" /\ at'[d] = "added" /\ active' # "none" /\ (active' = d \/ active' = active)
      /\ UNCHANGED <<here, driverVars, pressed, keyVars, handled, oops, overtaken, failed>>
  BY DEF Known, AddInterface, Goto, Preferred
<1>3. FamilyInv'
  BY <1>1, <1>2 DEF FamilyInv
<1>4. ApartInv'
  BY <1>1, <1>2 DEF ApartInv
<1>5. FreedInv'
  BY <1>1, <1>2 DEF FreedInv
<1>6. ServedInv'
  BY <1>1, <1>2 DEF ServedInv
<1>7. InputInv'
  BY <1>1, <1>2 DEF InputInv, Clean
<1>8. PointerInv'
  BY <1>1, <1>2 DEF PointerInv, InterfaceInv
<1>9. HandledInv'
  BY <1>1, <1>2 DEF HandledInv
<1> QED
  BY <1>3, <1>4, <1>5, <1>6, <1>7, <1>8, <1>9 DEF LastingInv

\* It finds an interface to be active, or none.
LEMMA LookStep ==
    ASSUME Known, NEW d \in Devices, LookAtActive(d), \A e \in Devices : e # d => at'[e] = at[e]
    PROVE  LastingInv'
<1> USE DEF Creating, Leaving, Probing, Undoing, Tearing, driverVars, keyVars
<1>1. /\ DInv /\ InterfaceInv /\ FamilyInv /\ ApartInv /\ FreedInv /\ ServedInv /\ InputInv /\ PointerInv
      /\ HandledInv /\ MutexInv /\ PhaseInv /\ "none" \notin Devices
  BY DEF Known, LInv, DInv
<1>2. /\ at[d] = "added" /\ at'[d] = (IF active = "none" THEN "bound" ELSE "init")
      /\ handled' \subseteq handled \cup {d}
      /\ (overtaken' <=> overtaken \/ \E o \in here : at[o] \in Leaving)
      /\ UNCHANGED <<here, active, driverVars, pressed, keyVars, oops, failed>>
  BY DEF Known, LookAtActive, Goto, ProbeReturns
<1>3. FamilyInv'
  BY <1>1, <1>2 DEF FamilyInv, InterfaceInv, Families, Clevo, Devices
<1>4. ApartInv'
  BY <1>1, <1>2 DEF ApartInv, InterfaceInv
<1>5. FreedInv'
  BY <1>1, <1>2 DEF FreedInv
<1>6. ServedInv'
  BY <1>1, <1>2 DEF ServedInv
<1>7. InputInv'
  BY <1>1, <1>2 DEF InputInv, Clean
<1>8. PointerInv'
  BY <1>1, <1>2 DEF PointerInv, InterfaceInv
<1>9. HandledInv'
  BY <1>1, <1>2 DEF HandledInv
<1> QED
  BY <1>3, <1>4, <1>5, <1>6, <1>7, <1>8, <1>9 DEF LastingInv

\* The driver is there, or is to be created.
LEMMA InitStep ==
    ASSUME Known, NEW d \in Devices, InitBegin(d), \A e \in Devices : e # d => at'[e] = at[e]
    PROVE  LastingInv'
<1> USE DEF Creating, Leaving, Probing, Undoing, Tearing, driverVars, keyVars
<1>1. /\ DInv /\ InterfaceInv /\ FamilyInv /\ ApartInv /\ FreedInv /\ ServedInv /\ InputInv /\ PointerInv
      /\ HandledInv /\ MutexInv /\ PhaseInv /\ "none" \notin Devices
  BY DEF Known, LInv, DInv
<1>2. /\ at[d] = "init" /\ at'[d] = (IF platform = "there" THEN "bound" ELSE "bundle") /\ init_lock = "none"
      /\ handled' \subseteq handled \cup {d}
      /\ UNCHANGED <<here, active, driverVars, pressed, keyVars, oops, overtaken, failed>>
  BY DEF Known, InitBegin, Goto, ProbeReturns, InitLockFree
<1>3. \A e \in Devices : at[e] \notin Creating
  BY <1>1, <1>2 DEF MutexInv
<1>4. FamilyInv'
  BY <1>1, <1>2 DEF FamilyInv
<1>5. ApartInv'
  BY <1>1, <1>2 DEF ApartInv
<1>6. FreedInv'
  BY <1>1, <1>2 DEF FreedInv
<1>7. ServedInv'
  BY <1>1, <1>2, <1>3 DEF ServedInv
<1>8. InputInv'
  BY <1>1, <1>2 DEF InputInv, Clean
<1>9. PointerInv'
  BY <1>1, <1>2, <1>3 DEF PointerInv, InterfaceInv, Removing
<1>10. HandledInv'
  BY <1>1, <1>2 DEF HandledInv
<1> QED
  BY <1>4, <1>5, <1>6, <1>7, <1>8, <1>9, <1>10 DEF LastingInv

\* The platform device is created, or cannot be.
LEMMA BundleStep ==
    ASSUME Known, NEW d \in Devices, CreateBundle(d), \A e \in Devices : e # d => at'[e] = at[e]
    PROVE  LastingInv'
<1> USE DEF Creating, Leaving, Probing, Undoing, Tearing, driverVars, keyVars
<1>1. /\ DInv /\ InterfaceInv /\ FamilyInv /\ ApartInv /\ FreedInv /\ ServedInv /\ InputInv /\ PointerInv
      /\ HandledInv /\ MutexInv /\ PhaseInv /\ "none" \notin Devices
  BY DEF Known, LInv, DInv
<1>2. /\ at[d] = "bundle" /\ handled' \subseteq handled \cup {d} /\ failed \subseteq failed'
      /\ \/ at'[d] = "input" /\ platform' = "there" /\ failed' = failed
         \/ at'[d] = "bound" /\ platform' = "error" /\ (registered \/ "probe" \in failed')
      /\ filter' = filter \/ d \notin Clevo
      /\ UNCHANGED <<here, active, input, input_device, current, pressed, key_work, oops, overtaken>>
  BY DEF Known, CreateBundle, Goto, ProbeReturns, Fails
<1>3. FamilyInv'
  BY <1>1, <1>2 DEF FamilyInv, InterfaceInv, Families, Clevo, Devices
<1>4. ApartInv'
  BY <1>1, <1>2 DEF ApartInv
<1>5. FreedInv'
  BY <1>1, <1>2 DEF FreedInv
<1>6. ServedInv'
  BY <1>1, <1>2 DEF ServedInv, ApartInv, PhaseInv
<1>7. InputInv'
  BY <1>1, <1>2 DEF InputInv, Clean
<1>8. PointerInv'
  BY <1>1, <1>2 DEF PointerInv, InterfaceInv, PhaseInv, Removing
<1>9. HandledInv'
  BY <1>1, <1>2 DEF HandledInv
<1> QED
  BY <1>3, <1>4, <1>5, <1>6, <1>7, <1>8, <1>9 DEF LastingInv

\* The input device is registered, or cannot be.
LEMMA InputStep ==
    ASSUME Known, NEW d \in Devices, tuxedo_input_init(d), \A e \in Devices : e # d => at'[e] = at[e]
    PROVE  LastingInv'
<1> USE DEF Creating, Leaving, Probing, Undoing, Tearing, driverVars, keyVars
<1>1. /\ DInv /\ InterfaceInv /\ FamilyInv /\ ApartInv /\ FreedInv /\ ServedInv /\ InputInv /\ PointerInv
      /\ HandledInv /\ MutexInv /\ PhaseInv /\ "none" \notin Devices
  BY DEF Known, LInv, DInv
<1>2. /\ at[d] = "input" /\ at'[d] = "current" /\ failed \subseteq failed'
      /\ "probe" \in failed' => "probe" \in failed
      /\ \/ input' = "there" /\ input_device' = "there"
         \/ input' = "freed" /\ "input" \in failed'
      /\ UNCHANGED <<here, active, platform, registered, current, handled, pressed, keyVars, oops, overtaken>>
  BY DEF Known, tuxedo_input_init, Goto, Fails
<1>3. \A e \in Devices : e # d => at[e] \notin Creating
  BY <1>1, <1>2, OneAtWork
<1>4. FamilyInv'
  BY <1>1, <1>2 DEF FamilyInv
<1>5. ApartInv'
  BY <1>1, <1>2 DEF ApartInv
<1>6. FreedInv'
  BY <1>1, <1>2 DEF FreedInv
<1>7. ServedInv'
  BY <1>1, <1>2 DEF ServedInv
<1>8. InputInv'
  BY <1>1, <1>2, <1>3 DEF InputInv, Clean, ApartInv
<1>9. PointerInv'
  BY <1>1, <1>2 DEF PointerInv, InterfaceInv
<1>10. HandledInv'
  BY <1>1, <1>2 DEF HandledInv
<1> QED
  BY <1>4, <1>5, <1>6, <1>7, <1>8, <1>9, <1>10 DEF LastingInv

\* The driver becomes the current one.
LEMMA CurrentStep ==
    ASSUME Known, NEW d \in Devices, SetCurrent(d), \A e \in Devices : e # d => at'[e] = at[e]
    PROVE  LastingInv'
<1> USE DEF Creating, Leaving, Probing, Undoing, Tearing, driverVars, keyVars
<1>1. /\ DInv /\ InterfaceInv /\ FamilyInv /\ ApartInv /\ FreedInv /\ ServedInv /\ InputInv /\ PointerInv
      /\ HandledInv /\ MutexInv /\ PhaseInv /\ "none" \notin Devices
  BY DEF Known, LInv, DInv
<1>2. /\ at[d] = "current" /\ current' = TRUE /\ handled' \subseteq handled \cup {d}
      /\ \/ at'[d] = "bound" /\ oops' = oops
         \/ active = "none" /\ at'[d] = "dead" /\ oops' = oops \cup {NoActive}
      /\ UNCHANGED <<here, active, platform, registered, input, input_device, pressed, keyVars, overtaken,
                    failed>>
  BY DEF Known, SetCurrent, Goto, ProbeReturns, Dies, NoActive
<1>3. \A o \in {NoDriver, FreedInput, EventActive, KeyActive} : o \in oops' <=> o \in oops
  BY <1>2, Reasons
<1>4. FamilyInv'
  BY <1>1, <1>2, <1>3 DEF FamilyInv
<1>5. ApartInv'
  BY <1>1, <1>2, <1>3 DEF ApartInv
<1>6. FreedInv'
  BY <1>1, <1>2, <1>3 DEF FreedInv
<1>7. ServedInv'
  BY <1>1, <1>2, <1>3 DEF ServedInv, ApartInv, PhaseInv
<1>8. InputInv'
  BY <1>1, <1>2, <1>3 DEF InputInv, Clean, ApartInv
<1>9. PointerInv'
  BY <1>1, <1>2, <1>3 DEF PointerInv, InterfaceInv
<1>10. HandledInv'
  BY <1>1, <1>2, <1>3 DEF HandledInv
<1> QED
  BY <1>4, <1>5, <1>6, <1>7, <1>8, <1>9, <1>10 DEF LastingInv

\* A device leaves.
LEMMA LeaveStep ==
    ASSUME Known, NEW d \in Devices, RemoveDevice(d), \A e \in Devices : e # d => at'[e] = at[e]
    PROVE  LastingInv'
<1> USE DEF Creating, Leaving, Probing, Undoing, Tearing, driverVars, keyVars
<1>1. /\ DInv /\ InterfaceInv /\ FamilyInv /\ ApartInv /\ FreedInv /\ ServedInv /\ InputInv /\ PointerInv
      /\ HandledInv /\ MutexInv /\ PhaseInv /\ "none" \notin Devices
  BY DEF Known, LInv, DInv
<1>2. /\ at[d] = "bound" /\ at'[d] = "leaving" /\ d \notin pressed /\ handled' = handled \ {d}
      /\ (overtaken' <=> overtaken \/ \E o \in here : at[o] \in Probing \ {"add"})
      /\ UNCHANGED <<here, active, driverVars, pressed, keyVars, oops, failed>>
  BY DEF Known, RemoveDevice, Goto, HandledDuringRemove
<1>3. FamilyInv'
  BY <1>1, <1>2 DEF FamilyInv, InterfaceInv, Families, Clevo, Devices
<1>4. ApartInv'
  BY <1>1, <1>2 DEF ApartInv, InterfaceInv
<1>5. FreedInv'
  BY <1>1, <1>2 DEF FreedInv
<1>6. ServedInv'
  BY <1>1, <1>2 DEF ServedInv
<1>7. InputInv'
  BY <1>1, <1>2 DEF InputInv, Clean
<1>8. PointerInv'
  BY <1>1, <1>2 DEF PointerInv, InterfaceInv
<1>9. HandledInv'
  BY <1>1, <1>2 DEF HandledInv
<1> QED
  BY <1>3, <1>4, <1>5, <1>6, <1>7, <1>8, <1>9 DEF LastingInv

\* Its interface goes.
LEMMA RemoveStep ==
    ASSUME Known, NEW d \in Devices, RemoveInterface(d), \A e \in Devices : e # d => at'[e] = at[e]
    PROVE  LastingInv'
<1> USE DEF Creating, Leaving, Probing, Undoing, Tearing, driverVars, keyVars
<1>1. /\ DInv /\ InterfaceInv /\ FamilyInv /\ ApartInv /\ FreedInv /\ ServedInv /\ InputInv /\ PointerInv
      /\ HandledInv /\ MutexInv /\ PhaseInv /\ "none" \notin Devices
  BY DEF Known, LInv, DInv
<1>2. /\ at[d] = "leaving" /\ at'[d] = (IF active = d THEN "remove_driver" ELSE "unbound")
      /\ handled' \subseteq handled
      /\ UNCHANGED <<here, active, driverVars, pressed, keyVars, oops, overtaken, failed>>
  BY DEF Known, RemoveInterface, Goto, Removed
<1>3. FamilyInv'
  BY <1>1, <1>2 DEF FamilyInv
<1>4. ApartInv'
  BY <1>1, <1>2 DEF ApartInv
<1>5. FreedInv'
  BY <1>1, <1>2 DEF FreedInv
<1>6. ServedInv'
  BY <1>1, <1>2 DEF ServedInv
<1>7. InputInv'
  BY <1>1, <1>2 DEF InputInv, Clean
<1>8. PointerInv'
  BY <1>1, <1>2 DEF PointerInv, InterfaceInv
<1>9. HandledInv'
  BY <1>1, <1>2 DEF HandledInv
<1> QED
  BY <1>3, <1>4, <1>5, <1>6, <1>7, <1>8, <1>9 DEF LastingInv

\* The names of the drivers are compared.
LEMMA NamesStep ==
    ASSUME Known, NEW d \in Devices, CompareNames(d), \A e \in Devices : e # d => at'[e] = at[e]
    PROVE  LastingInv'
<1> USE DEF Creating, Leaving, Probing, Undoing, Tearing, driverVars, keyVars
<1>1. /\ DInv /\ InterfaceInv /\ FamilyInv /\ ApartInv /\ FreedInv /\ ServedInv /\ InputInv /\ PointerInv
      /\ HandledInv /\ MutexInv /\ PhaseInv /\ "none" \notin Devices
  BY DEF Known, LInv, DInv
<1>2. /\ at[d] = "remove_driver" /\ active = d
      /\ \/ current /\ at'[d] = "input_exit" /\ oops' = oops
         \/ ~current /\ at'[d] = "dead" /\ oops' = oops \cup {NoDriver}
      /\ UNCHANGED <<here, active, driverVars, handled, pressed, keyVars, overtaken, failed>>
  BY DEF Known, CompareNames, Goto, Dies, NoDriver, LInv, InterfaceInv, Removing
<1>3. \A o \in {NoActive, FreedInput, EventActive, KeyActive} : o \in oops' <=> o \in oops
  BY <1>2, Reasons
<1>4. FamilyInv'
  BY <1>1, <1>2, <1>3 DEF FamilyInv
<1>5. ApartInv'
  BY <1>1, <1>2, <1>3 DEF ApartInv
<1>6. FreedInv'
  BY <1>1, <1>2, <1>3 DEF FreedInv
<1>7. ServedInv'
  BY <1>1, <1>2, <1>3 DEF ServedInv
<1>8. InputInv'
  BY <1>1, <1>2, <1>3 DEF InputInv, Clean
<1>9. PointerInv'
  BY <1>1, <1>2, <1>3 DEF PointerInv, InterfaceInv
<1>10. HandledInv'
  BY <1>1, <1>2, <1>3 DEF HandledInv
<1> QED
  BY <1>4, <1>5, <1>6, <1>7, <1>8, <1>9, <1>10 DEF LastingInv

\* The input device goes.
LEMMA ExitStep ==
    ASSUME Known, NEW d \in Devices, tuxedo_input_exit(d), \A e \in Devices : e # d => at'[e] = at[e]
    PROVE  LastingInv'
<1> USE DEF Creating, Leaving, Probing, Undoing, Tearing, driverVars, keyVars
<1>1. /\ DInv /\ InterfaceInv /\ FamilyInv /\ ApartInv /\ FreedInv /\ ServedInv /\ InputInv /\ PointerInv
      /\ HandledInv /\ MutexInv /\ PhaseInv /\ "none" \notin Devices
  BY DEF Known, LInv, DInv
<1>2. /\ at[d] = "input_exit" /\ active = d
      /\ \/ input = "freed" /\ at'[d] = "dead" /\ oops' = oops \cup {FreedInput}
            /\ input' = input /\ input_device' = input_device
         \/ at'[d] = "unregister" /\ oops' = oops /\ input' = "null"
      /\ UNCHANGED <<here, active, platform, registered, current, handled, pressed, keyVars, overtaken, failed>>
  BY DEF Known, tuxedo_input_exit, Goto, Dies, FreedInput, LInv, InterfaceInv, Removing
<1>3. \A e \in Devices : at[e] \notin Creating
  BY <1>1, <1>2, NoCreationMeanwhile
<1>4. \A o \in {NoActive, NoDriver, EventActive, KeyActive} : o \in oops' <=> o \in oops
  BY <1>2, Reasons
<1>5. FamilyInv'
  BY <1>1, <1>2, <1>4 DEF FamilyInv
<1>6. ApartInv'
  BY <1>1, <1>2, <1>4 DEF ApartInv
<1>7. FreedInv'
  BY <1>1, <1>2, <1>4 DEF FreedInv
<1>8. ServedInv'
  BY <1>1, <1>2, <1>4, <1>3 DEF ServedInv, FreedInv
<1>9. InputInv'
  BY <1>1, <1>2, <1>4, <1>3 DEF InputInv, Clean, FreedInv, PhaseInv
<1>10. PointerInv'
  BY <1>1, <1>2, <1>4, <1>3 DEF PointerInv, InterfaceInv, Removing
<1>11. HandledInv'
  BY <1>1, <1>2, <1>4 DEF HandledInv
<1> QED
  BY <1>5, <1>6, <1>7, <1>8, <1>9, <1>10, <1>11 DEF LastingInv

\* The platform device goes, and the touchpad filter with it.
LEMMA UnregisterStep ==
    ASSUME Known, NEW d \in Devices, Unregister(d), \A e \in Devices : e # d => at'[e] = at[e]
    PROVE  LastingInv'
<1> USE DEF Creating, Leaving, Probing, Undoing, Tearing, driverVars, keyVars
<1>1. /\ DInv /\ InterfaceInv /\ FamilyInv /\ ApartInv /\ FreedInv /\ ServedInv /\ InputInv /\ PointerInv
      /\ HandledInv /\ MutexInv /\ PhaseInv /\ "none" \notin Devices
  BY DEF Known, LInv, DInv
<1>2. /\ at[d] = "unregister" /\ active = d /\ at'[d] \in {"unregistered", "driver"}
      /\ at'[d] = "driver" => platform # "there"
      /\ filter' => filter
      /\ UNCHANGED <<here, active, platform, registered, input, input_device, current, handled, pressed,
                    key_work, oops, overtaken, failed>>
  BY DEF Known, Unregister, Goto, LInv, InterfaceInv, Removing
<1>3. FamilyInv'
  BY <1>1, <1>2 DEF FamilyInv
<1>4. ApartInv'
  BY <1>1, <1>2 DEF ApartInv
<1>5. FreedInv'
  BY <1>1, <1>2 DEF FreedInv
<1>6. ServedInv'
  BY <1>1, <1>2 DEF ServedInv
<1>7. InputInv'
  BY <1>1, <1>2 DEF InputInv, Clean
<1>8. PointerInv'
  BY <1>1, <1>2 DEF PointerInv, InterfaceInv
<1>9. HandledInv'
  BY <1>1, <1>2 DEF HandledInv
<1> QED
  BY <1>3, <1>4, <1>5, <1>6, <1>7, <1>8, <1>9 DEF LastingInv

\* It is forgotten.
LEMMA ForgetStep ==
    ASSUME Known, NEW d \in Devices, ForgetDevice(d), \A e \in Devices : e # d => at'[e] = at[e]
    PROVE  LastingInv'
<1> USE DEF Creating, Leaving, Probing, Undoing, Tearing, driverVars, keyVars
<1>1. /\ DInv /\ InterfaceInv /\ FamilyInv /\ ApartInv /\ FreedInv /\ ServedInv /\ InputInv /\ PointerInv
      /\ HandledInv /\ MutexInv /\ PhaseInv /\ "none" \notin Devices
  BY DEF Known, LInv, DInv
<1>2. /\ at[d] = "unregistered" /\ active = d /\ at'[d] = "driver" /\ platform' = "null"
      /\ UNCHANGED <<here, active, registered, input, input_device, current, handled, pressed, keyVars, oops,
                    overtaken, failed>>
  BY DEF Known, ForgetDevice, Goto, LInv, InterfaceInv, Removing
<1>3. FamilyInv'
  BY <1>1, <1>2 DEF FamilyInv
<1>4. ApartInv'
  BY <1>1, <1>2 DEF ApartInv
<1>5. FreedInv'
  BY <1>1, <1>2 DEF FreedInv
<1>6. ServedInv'
  BY <1>1, <1>2 DEF ServedInv
<1>7. InputInv'
  BY <1>1, <1>2 DEF InputInv, Clean
<1>8. PointerInv'
  BY <1>1, <1>2 DEF PointerInv, InterfaceInv
<1>9. HandledInv'
  BY <1>1, <1>2 DEF HandledInv
<1> QED
  BY <1>3, <1>4, <1>5, <1>6, <1>7, <1>8, <1>9 DEF LastingInv

\* The driver is unregistered.
LEMMA DriverStep ==
    ASSUME Known, NEW d \in Devices, UnregisterDriver(d), \A e \in Devices : e # d => at'[e] = at[e]
    PROVE  LastingInv'
<1> USE DEF Creating, Leaving, Probing, Undoing, Tearing, driverVars, keyVars
<1>1. /\ DInv /\ InterfaceInv /\ FamilyInv /\ ApartInv /\ FreedInv /\ ServedInv /\ InputInv /\ PointerInv
      /\ HandledInv /\ MutexInv /\ PhaseInv /\ "none" \notin Devices
  BY DEF Known, LInv, DInv
<1>2. /\ at[d] = "driver" /\ active = d /\ at'[d] = "forget" /\ platform # "there"
      /\ UNCHANGED <<here, active, platform, input, input_device, current, handled, pressed, keyVars, oops,
                    overtaken, failed>>
  BY DEF Known, UnregisterDriver, Goto, LInv, DInv, InterfaceInv, PhaseInv, Removing
<1>3. FamilyInv'
  BY <1>1, <1>2 DEF FamilyInv
<1>4. ApartInv'
  BY <1>1, <1>2 DEF ApartInv
<1>5. FreedInv'
  BY <1>1, <1>2 DEF FreedInv
<1>6. ServedInv'
  BY <1>1, <1>2 DEF ServedInv
<1>7. InputInv'
  BY <1>1, <1>2 DEF InputInv, Clean
<1>8. PointerInv'
  BY <1>1, <1>2 DEF PointerInv, InterfaceInv
<1>9. HandledInv'
  BY <1>1, <1>2 DEF HandledInv
<1> QED
  BY <1>3, <1>4, <1>5, <1>6, <1>7, <1>8, <1>9 DEF LastingInv

\* No driver is the current one any more.
LEMMA NoCurrentStep ==
    ASSUME Known, NEW d \in Devices, ForgetDriver(d), \A e \in Devices : e # d => at'[e] = at[e]
    PROVE  LastingInv'
<1> USE DEF Creating, Leaving, Probing, Undoing, Tearing, driverVars, keyVars
<1>1. /\ DInv /\ InterfaceInv /\ FamilyInv /\ ApartInv /\ FreedInv /\ ServedInv /\ InputInv /\ PointerInv
      /\ HandledInv /\ MutexInv /\ PhaseInv /\ "none" \notin Devices
  BY DEF Known, LInv, DInv
<1>2. /\ at[d] = "forget" /\ active = d /\ at'[d] = "inactive" /\ current' = FALSE
      /\ UNCHANGED <<here, active, platform, registered, input, input_device, handled, pressed, keyVars, oops,
                    overtaken, failed>>
  BY DEF Known, ForgetDriver, Goto, LInv, InterfaceInv, Removing
<1>3. \A e \in Devices : at[e] \in Removing => e = d
  BY <1>1, <1>2 DEF MutexInv, Removing
<1>4. FamilyInv'
  BY <1>1, <1>2 DEF FamilyInv
<1>5. ApartInv'
  BY <1>1, <1>2 DEF ApartInv
<1>6. FreedInv'
  BY <1>1, <1>2 DEF FreedInv
<1>7. ServedInv'
  BY <1>1, <1>2, <1>3 DEF ServedInv, ApartInv, Removing
<1>8. InputInv'
  BY <1>1, <1>2, <1>3 DEF InputInv, Clean, Removing
<1>9. PointerInv'
  BY <1>1, <1>2 DEF PointerInv, InterfaceInv
<1>10. HandledInv'
  BY <1>1, <1>2 DEF HandledInv
<1> QED
  BY <1>4, <1>5, <1>6, <1>7, <1>8, <1>9, <1>10 DEF LastingInv

\* No interface is the active one any more.
LEMMA InactiveStep ==
    ASSUME Known, NEW d \in Devices, Deactivate(d), \A e \in Devices : e # d => at'[e] = at[e]
    PROVE  LastingInv'
<1> USE DEF Creating, Leaving, Probing, Undoing, Tearing, driverVars, keyVars
<1>1. /\ DInv /\ InterfaceInv /\ FamilyInv /\ ApartInv /\ FreedInv /\ ServedInv /\ InputInv /\ PointerInv
      /\ HandledInv /\ MutexInv /\ PhaseInv /\ "none" \notin Devices
  BY DEF Known, LInv, DInv
<1>2. /\ at[d] = "inactive" /\ active = d /\ at'[d] = "unbound" /\ active' = "none"
      /\ handled' \subseteq handled
      /\ UNCHANGED <<here, driverVars, pressed, keyVars, oops, overtaken, failed>>
  BY DEF Known, Deactivate, Goto, Removed, LInv, InterfaceInv, Removing
<1>3. FamilyInv'
  BY <1>1, <1>2 DEF FamilyInv
<1>4. ApartInv'
  BY <1>1, <1>2 DEF ApartInv
<1>5. FreedInv'
  BY <1>1, <1>2 DEF FreedInv
<1>6. ServedInv'
  BY <1>1, <1>2 DEF ServedInv
<1>7. InputInv'
  BY <1>1, <1>2 DEF InputInv, Clean
<1>8. PointerInv'
  BY <1>1, <1>2 DEF PointerInv, InterfaceInv
<1>9. HandledInv'
  BY <1>1, <1>2 DEF HandledInv
<1> QED
  BY <1>3, <1>4, <1>5, <1>6, <1>7, <1>8, <1>9 DEF LastingInv

\* An event comes.
LEMMA PressStep ==
    ASSUME Known, NEW d \in Devices, Press(d), \A e \in Devices : e # d => at'[e] = at[e]
    PROVE  LastingInv'
<1> USE DEF Creating, Leaving, Probing, Undoing, Tearing, driverVars, keyVars
<1>1. /\ DInv /\ InterfaceInv /\ FamilyInv /\ ApartInv /\ FreedInv /\ ServedInv /\ InputInv /\ PointerInv
      /\ HandledInv /\ MutexInv /\ PhaseInv /\ "none" \notin Devices
  BY DEF Known, LInv, DInv
<1>2. /\ d \in handled /\ pressed' = pressed \cup {d}
      /\ UNCHANGED <<here, at, active, driverVars, handled, keyVars, oops, overtaken, failed>>
  BY DEF Known, Press, Goto
<1>3. FamilyInv'
  BY <1>1, <1>2 DEF FamilyInv
<1>4. ApartInv'
  BY <1>1, <1>2 DEF ApartInv
<1>5. FreedInv'
  BY <1>1, <1>2 DEF FreedInv
<1>6. ServedInv'
  BY <1>1, <1>2 DEF ServedInv
<1>7. InputInv'
  BY <1>1, <1>2 DEF InputInv, Clean
<1>8. PointerInv'
  BY <1>1, <1>2 DEF PointerInv, InterfaceInv
<1>9. HandledInv'
  BY <1>1, <1>2 DEF HandledInv
<1> QED
  BY <1>3, <1>4, <1>5, <1>6, <1>7, <1>8, <1>9 DEF LastingInv

\* An event is reported.
LEMMA ReportStep ==
    ASSUME Known, NEW d \in Devices, Report(d), \A e \in Devices : e # d => at'[e] = at[e]
    PROVE  LastingInv'
<1> USE DEF Creating, Leaving, Probing, Undoing, Tearing, driverVars, keyVars
<1>1. /\ DInv /\ InterfaceInv /\ FamilyInv /\ ApartInv /\ FreedInv /\ ServedInv /\ InputInv /\ PointerInv
      /\ HandledInv /\ MutexInv /\ PhaseInv /\ "none" \notin Devices
  BY DEF Known, LInv, DInv
<1>2. /\ d \in pressed /\ pressed' \subseteq pressed
      /\ oops' = oops \/ /\ input_device # "there" /\ oops' = oops \cup {<<"event", Circumstances(d)>>}
      /\ UNCHANGED <<here, at, active, driverVars, handled, keyVars, overtaken, failed>>
  BY DEF Known, Report, Goto
<1>3. Circumstances(d) = "active" => active = d /\ at[d] = "bound"
  BY <1>1, <1>2 DEF HandledInv, Circumstances
<1>4. \A o \in {NoActive, NoDriver, FreedInput, KeyActive} : o \in oops' <=> o \in oops
  BY <1>2, Reasons
<1>5. EventActive \in oops' => EventActive \in oops \/ (input_device # "there" /\ active = d /\ at[d] = "bound")
  BY <1>2, <1>3, Reasons
<1>6. FamilyInv'
  BY <1>1, <1>2, <1>4, <1>5 DEF FamilyInv
<1>7. ApartInv'
  BY <1>1, <1>2, <1>4, <1>5 DEF ApartInv
<1>8. FreedInv'
  BY <1>1, <1>2, <1>4, <1>5 DEF FreedInv
<1>9. ServedInv'
  BY <1>1, <1>2, <1>4, <1>5 DEF ServedInv
<1>10. InputInv'
  BY <1>1, <1>2, <1>4, <1>5 DEF InputInv, Clean
<1>11. PointerInv'
  BY <1>1, <1>2, <1>4, <1>5, <1>3 DEF PointerInv
<1>12. HandledInv'
  BY <1>1, <1>2, <1>4, <1>5 DEF HandledInv
<1> QED
  BY <1>6, <1>7, <1>8, <1>9, <1>10, <1>11, <1>12 DEF LastingInv

\* The touchpad key: a driver that is there has an input device when the work
\* reports it.
LEMMA TouchpadKeeps ==
    ASSUME Known, TouchpadStep
    PROVE  LInv'
<1>0. /\ DInv /\ InterfaceInv /\ FamilyInv /\ ApartInv /\ FreedInv /\ ServedInv /\ InputInv /\ PointerInv
      /\ HandledInv
  BY DEF Known, LInv
<1>1. /\ UNCHANGED <<here, at, interfaces, active, lockVars, driverVars, handled, pressed, filter, overtaken,
                    failed>>
      /\ key_work' # {} => filter \/ key_work # {}
      /\ \/ oops' = oops
         \/ "running" \in key_work /\ input_device # "there" /\ oops' = oops \cup {<<"touchpad key", Lifetime>>}
  BY DEF TouchpadStep, TouchpadKey, WorkSleeps, WorkReports
<1>2. ASSUME "running" \in key_work, input_device # "there", failed = {} PROVE Lifetime # "active"
  <2> SUFFICES ASSUME Lifetime = "active" PROVE FALSE
    OBVIOUS
  <2>1. here = {"uniwill_wmi"} /\ ~overtaken
    BY <1>0, <1>2 DEF FamilyInv, Clevo
  <2>2. active # "none" /\ \A d \in here : at[d] \notin Probing \cup Leaving
    BY DEF Lifetime
  <2>3. PICK d \in Devices : d \in here /\ active = d
    BY <1>0, <2>2 DEF Known, InterfaceInv
  <2>4. at[d] = "bound"
    BY <1>0, <1>2, <2>1, <2>2, <2>3 DEF Known, Places, InterfaceInv, ServedInv
  <2> QED
    BY <1>0, <1>2, <2>3, <2>4 DEF PointerInv
<1>3. \A o \in {NoActive, NoDriver, FreedInput, EventActive} : o \in oops' <=> o \in oops
  BY <1>1, Reasons
<1>4. KeyActive \in oops' => KeyActive \in oops \/ failed # {}
  BY <1>1, <1>2, Reasons
<1> USE DEF lockVars, driverVars
<1>5. DInv'
  BY <1>0, <1>1 DEF DInv, LifecycleTypes, MutexInv, PhaseInv, OneDevice
<1>6. InterfaceInv' /\ HandledInv' /\ InputInv'
  BY <1>0, <1>1 DEF InterfaceInv, HandledInv, InputInv, Clean
<1>7. FamilyInv'
  BY <1>0, <1>1 DEF FamilyInv
<1>8. ApartInv' /\ FreedInv'
  BY <1>0, <1>1, <1>3 DEF ApartInv, FreedInv
<1>9. ServedInv'
  BY <1>0, <1>1, <1>3 DEF ServedInv
<1>10. PointerInv'
  BY <1>0, <1>1, <1>3, <1>4 DEF PointerInv
<1> QED
  BY <1>5, <1>6, <1>7, <1>8, <1>9, <1>10 DEF LInv

\* At first no interface is there and nothing points anywhere.
LEMMA LInit == LifecycleInit => LInv
<1> SUFFICES ASSUME LifecycleInit PROVE LInv
  OBVIOUS
<1>1. \A d \in Devices : at[d] = "unbound"
  BY DEF LifecycleInit
<1>2. InterfaceInv /\ FamilyInv
  BY <1>1, NoneIsNoDevice DEF LifecycleInit, InterfaceInv, FamilyInv, Removing, Tearing, Undoing
<1>3. ApartInv /\ FreedInv /\ ServedInv /\ InputInv /\ PointerInv /\ HandledInv
  BY <1>1, NoneIsNoDevice DEF LifecycleInit, ApartInv, FreedInv, ServedInv, InputInv, PointerInv, HandledInv,
     Leaving, Creating
<1> QED
  BY <1>2, <1>3, DInit DEF LInv

\* The invariant of the lifecycle holds always.
LEMMA LAlways == LifecycleSpec => []LInv
<1>1. LInv /\ [LifecycleNext]_lifecycleVars => LInv'
  <2> SUFFICES ASSUME LInv, [LifecycleNext]_lifecycleVars PROVE LInv'
    OBVIOUS
  <2>1. DInv' /\ Known
    BY DStep, StepKnows DEF LInv
  <2>2. CASE UNCHANGED lifecycleVars
    BY <2>1, <2>2 DEF lifecycleVars, lockVars, driverVars, keyVars, LInv, InterfaceInv, FamilyInv, ApartInv,
       FreedInv, ServedInv, InputInv, PointerInv, HandledInv, Clean
  <2>3. ASSUME NEW d \in Devices, DeviceStep(d) PROVE LInv'
    <3>1. InterfaceInv' /\ \A e \in Devices : e # d => at'[e] = at[e]
      BY <2>3, InterfaceStep, StepsGo DEF LInv, DInv
    <3>2. LastingInv'
      BY <2>1, <2>3, <3>1, ProbeStep, AddStep, LookStep, InitStep, BundleStep, InputStep, CurrentStep,
         LeaveStep, RemoveStep, NamesStep, ExitStep, UnregisterStep, ForgetStep, DriverStep, NoCurrentStep,
         InactiveStep, PressStep, ReportStep DEF DeviceStep
    <3> QED
      BY <2>1, <3>1, <3>2 DEF LInv, LastingInv
  <2> QED
    BY <2>1, <2>2, <2>3, TouchpadKeeps DEF LifecycleNext, TouchpadStep
<1> QED
  BY <1>1, LInit, PTL DEF LifecycleSpec

\* Unless a creation failed or an interface left while another one came: when
\* no probe or removal is under way the driver and its input device are there
\* exactly while an interface is active, and where ACPI is, it is the active
\* one (tuxedo_keyboard_init_driver, clevo_keyboard_add_interface).
THEOREM DriverAlwaysServes == LifecycleSpec => []DriverServesAcpi
<1>1. LInv => DriverServesAcpi
  <2> SUFFICES ASSUME LInv, AtRest, Clean
               PROVE  /\ current = (active # "none") /\ current = (input = "there")
                      /\ "clevo_acpi" \in interfaces => active = "clevo_acpi"
    BY DEF DriverServesAcpi, Clean
  <2>1. ServedInv /\ InputInv /\ InterfaceInv /\ current \in BOOLEAN
    BY DEF LInv, DInv, LifecycleTypes
  <2>2. \A d \in Devices : at[d] \in {"unbound", "bound"}
    BY DEF AtRest
  <2>3. here \subseteq Devices
    BY <2>1 DEF InterfaceInv, Families, Devices, Clevo
  <2>4. active # "none" => current
    BY <2>1, <2>2, <2>3 DEF InterfaceInv, ServedInv, Clean
  <2>5. current => active # "none"
    BY <2>1 DEF ServedInv, Clean
  <2>6. current <=> input = "there"
    BY <2>1, <2>2 DEF InputInv
  <2> QED
    BY <2>1, <2>4, <2>5, <2>6 DEF InterfaceInv
<1> QED
  BY <1>1, LAlways, PTL

\* A bad pointer is followed only for the reasons named: no current driver only
\* where an interface left while another one came or the driver could not be
\* created, a freed input device only if it could not be registered, and none
\* by an event of the active interface or the touchpad key of a driver that is
\* there, however interfaces come and go, unless a step of its creation failed
\* (tuxedo_keyboard_remove_driver, uniwill_event_callb, key_event_work).
THEOREM PointersNeedCause == LifecycleSpec => []OopsHasCause
<1>1. LInv => OopsHasCause
  BY DEF LInv, ApartInv, ServedInv, FreedInv, PointerInv, OopsHasCause, NoActive, NoDriver, FreedInput,
     EventActive, KeyActive
<1> QED
  BY <1>1, LAlways, PTL

-----------------------------------------------------------------------------
(* The ROM id.  While it is compared the bytes before the one it is at are *)
(* right, and while it is written those that took.                         *)

RomPlaces == {"check", "unlock1", "unlock2", "write", "ok", "-EIO"}

RomTypes ==
    /\ rom \in [1..RomSize -> BOOLEAN] /\ rom_pc \in RomPlaces
    /\ rom_at \in 1..RomSize /\ stuck \in BOOLEAN

RightBefore(n) == \A i \in 1..RomSize : i < n => rom[i]

RomInv ==
    /\ RomTypes
    /\ rom_pc = "check" => RightBefore(rom_at)
    /\ rom_pc = "write" /\ ~stuck => RightBefore(rom_at)
    /\ RomIdRight

\* Each step of set_rom_id keeps what is known of the bytes behind it.
LEMMA RomStep == RomInv /\ set_rom_id => RomInv'
<1> SUFFICES ASSUME RomInv, set_rom_id PROVE RomInv'
  OBVIOUS
<1> USE FeaturesAssumption DEF RomInv, RomTypes, RomPlaces, RightBefore, RomIdRight, RomGo
<1>1. CASE CheckByte
  <2>1. rom' = rom /\ stuck' = stuck
    BY <1>1 DEF CheckByte
  <2>2. CASE rom_pc' = "-EIO" /\ rom_at' = 1
    BY <2>1, <2>2
  <2>3. CASE /\ rom_pc' = Compared(rom[rom_at])
             /\ rom_at' = IF rom_pc' = "check" THEN rom_at + 1 ELSE 1
    <3>1. CASE ~rom[rom_at]
      BY <2>1, <2>3, <3>1 DEF Compared
    <3>2. CASE rom[rom_at]
      <4>1. RightBefore(rom_at + 1)
        BY <1>1, <3>2 DEF CheckByte
      <4>2. CASE rom_at = RomSize
        BY <2>1, <2>3, <3>2, <4>1, <4>2 DEF Compared
      <4>3. CASE rom_at # RomSize
        BY <2>1, <2>3, <3>2, <4>1, <4>3 DEF Compared
      <4> QED  BY <4>2, <4>3
    <3> QED  BY <3>1, <3>2
  <2> QED  BY <1>1, <2>2, <2>3 DEF CheckByte
<1>2. CASE UnlockRom
  BY <1>2 DEF UnlockRom
<1>3. CASE WriteByte
  <2>1. CASE rom' = [rom EXCEPT ![rom_at] = TRUE] /\ stuck' = stuck
    <3>1. RomTypes' /\ rom_pc' \in {"write", "ok", "-EIO"}
      BY <1>3, <2>1 DEF WriteByte
    <3>2. \A i \in 1..RomSize : rom'[i] = (i = rom_at \/ rom[i])
      BY <2>1
    <3>3. CASE rom_at = RomSize
      BY <1>3, <2>1, <3>1, <3>2, <3>3 DEF WriteByte
    <3>4. CASE rom_at # RomSize
      BY <1>3, <2>1, <3>1, <3>2, <3>4 DEF WriteByte
    <3> QED  BY <3>3, <3>4
  <2>2. CASE rom' = rom /\ stuck' = TRUE
    <3>a. rom_at' \in 1..RomSize /\ rom_pc' \in RomPlaces
      <4>1. CASE rom_at = RomSize
        BY <1>3, <4>1 DEF WriteByte
      <4>2. CASE rom_at # RomSize
        BY <1>3, <4>2 DEF WriteByte
      <4> QED  BY <4>1, <4>2
    <3>1. RomTypes'
      BY <2>2, <3>a
    <3>2. rom_pc' # "check"
      BY <1>3 DEF WriteByte
    <3> QED  BY <2>2, <3>1, <3>2
  <2>3. CASE rom' = rom /\ stuck' = stuck /\ rom_pc' = "-EIO" /\ rom_at' = 1
    BY <2>3
  <2> QED  BY <1>3, <2>1, <2>2, <2>3 DEF WriteByte
<1> QED  BY <1>1, <1>2, <1>3 DEF set_rom_id

-----------------------------------------------------------------------------
(* The features.  A caller that has read everything so far knows that what *)
(* it has read is right, although other callers write the same variables.  *)

TrueValue(f) == IF Skipped(f) THEN 0 ELSE device_has[f]

FeatureTypes ==
    /\ feats \in [EcFeatures -> Nat] /\ device_has \in [EcFeatures -> Nat]
    /\ next \in [Callers -> 0..7] /\ all_read \in [Callers -> BOOLEAN] /\ spoilt \in BOOLEAN
    /\ "model" \notin exempt

Knows(c) == \A i \in DOMAIN FeatureReads : i < next[c] => feats[FeatureReads[i]] = TrueValue(FeatureReads[i])

FeatureInv ==
    /\ FeatureTypes
    /\ ~spoilt => \A c \in Callers : all_read[c] => Knows(c)
    /\ CachedFeaturesTrue

\* The reads in order: the model comes first, and no feature is read twice.
LEMMA Reads ==
    /\ DOMAIN FeatureReads = 1..6 /\ Len(FeatureReads) = 6 /\ FeatureReads[1] = "model"
    /\ \A i \in 1..6 : FeatureReads[i] \in EcFeatures /\ (FeatureReads[i] = "universal_fan" => i = 6)
    /\ \A f \in EcFeatures : \E i \in 1..6 : f = FeatureReads[i]
    /\ "model" \in EcFeatures
  BY DEF FeatureReads, EcFeatures

\* A read that succeeds leaves right what a caller knew, whoever reads.
LEMMA RightStaysRight ==
    ASSUME FeatureInv, NEW f \in EcFeatures, NEW g \in EcFeatures,
           feats' = [feats EXCEPT ![f] = TrueValue(f)], UNCHANGED <<device_has, exempt>>,
           feats["model"] = TrueValue("model"), feats[g] = TrueValue(g)
    PROVE  feats'[g] = TrueValue(g)'
<1>1. TrueValue("model") = device_has["model"]
  BY DEF FeatureInv, FeatureTypes, TrueValue, Skipped
<1>2. feats'["model"] = feats["model"]
  BY Reads, <1>1 DEF FeatureInv, FeatureTypes
<1>3. TrueValue(g)' = TrueValue(g)
  BY <1>2 DEF TrueValue, Skipped
<1> QED  BY <1>3 DEF FeatureInv, FeatureTypes

\* Asking, reading and finishing keep what the callers know.
LEMMA FeatureStep == FeatureInv /\ uniwill_get_device_features => FeatureInv'
<1> SUFFICES ASSUME FeatureInv, uniwill_get_device_features PROVE FeatureInv'
  OBVIOUS
<1>1. ASSUME NEW c \in Callers, CallFeatures(c) PROVE FeatureInv'
  <2>1. FeatureTypes'
    BY <1>1 DEF CallFeatures, FeatureInv, FeatureTypes
  <2>2. UNCHANGED <<device_has, exempt, feats, feats_loaded, spoilt>> /\ next'[c] = 1
    BY <1>1 DEF CallFeatures, FeatureInv, FeatureTypes
  <2>3. ASSUME NEW d \in Callers, d # c PROVE next'[d] = next[d] /\ all_read'[d] = all_read[d]
    BY <1>1, <2>3 DEF CallFeatures, FeatureInv, FeatureTypes
  <2>4. \A f : TrueValue(f)' = TrueValue(f)
    BY <2>2 DEF TrueValue, Skipped
  <2>5. Knows(c)'
    BY <2>2, Reads DEF Knows
  <2>6. ASSUME NEW d \in Callers, ~spoilt, all_read'[d] PROVE Knows(d)'
    BY <2>2, <2>3, <2>4, <2>5, <2>6 DEF Knows, FeatureInv
  <2>7. CachedFeaturesTrue'
    BY <2>2 DEF FeatureInv, CachedFeaturesTrue, Skipped
  <2> QED  BY <2>1, <2>2, <2>6, <2>7 DEF FeatureInv
<1>2. ASSUME NEW c \in Callers, ReadFeature(c) PROVE FeatureInv'
  <2>n. PICK n \in 1..6 : n = next[c]
    BY <1>2, Reads DEF ReadFeature
  <2>f. PICK f \in EcFeatures : f = FeatureReads[n]
    BY Reads
  <2>0. n = next[c] /\ f = FeatureReads[n]
    BY <2>n, <2>f
  <2>1. /\ UNCHANGED <<device_has, exempt, feats_loaded>>
        /\ next' = [next EXCEPT ![c] = n + 1]
    BY <1>2, <2>0 DEF ReadFeature
  <2>2. CASE feats' = [feats EXCEPT ![f] = TrueValue(f)] /\ UNCHANGED <<all_read, spoilt>>
    <3>1. FeatureTypes'
      <4>1. TrueValue(f) \in Nat
        BY <2>0 DEF TrueValue, FeatureInv, FeatureTypes
      <4> QED  BY <2>0, <2>1, <2>2, <4>1 DEF FeatureInv, FeatureTypes
    <3>2. ASSUME NEW d \in Callers, ~spoilt, all_read[d] PROVE Knows(d)'
      <4>1. Knows(d)
        BY <3>2 DEF FeatureInv
      <4> SUFFICES ASSUME NEW i \in 1..6, i < next'[d]
                   PROVE  feats'[FeatureReads[i]] = TrueValue(FeatureReads[i])'
        BY Reads DEF Knows
      <4>2. CASE i < next[d]
        <5>1. 1 < next[d] \/ i = 1
          BY <4>2 DEF FeatureInv, FeatureTypes
        <5>2. feats["model"] = TrueValue("model") /\ feats[FeatureReads[i]] = TrueValue(FeatureReads[i])
          BY <4>1, <4>2, <5>1, Reads DEF Knows
        <5> QED  BY <2>0, <2>1, <2>2, <5>2, Reads, RightStaysRight
      <4>3. CASE ~(i < next[d])
        <5>1. d = c /\ i = n
          BY <2>0, <2>1, <4>3 DEF FeatureInv, FeatureTypes
        <5>2. feats'[f] = TrueValue(f)
          BY <2>0, <2>2 DEF FeatureInv, FeatureTypes
        <5>3. TrueValue(f)' = TrueValue(f)
          <6>1. CASE f = "model"
            BY <2>1, <6>1 DEF TrueValue, Skipped
          <6>2. CASE f # "model"
            <7>1. feats'["model"] = feats["model"]
              BY <2>0, <2>2, <6>2, Reads DEF FeatureInv, FeatureTypes
            <7> QED  BY <2>1, <7>1 DEF TrueValue, Skipped
          <6> QED  BY <6>1, <6>2
        <5> QED  BY <2>0, <5>1, <5>2, <5>3
      <4> QED  BY <4>2, <4>3
    <3>3. ASSUME feats_loaded, ~spoilt, NEW g \in EcFeatures PROVE feats'[g] = TrueValue(g)'
      <4>1. feats["model"] = TrueValue("model") /\ feats[g] = TrueValue(g)
        BY <3>3, Reads DEF FeatureInv, CachedFeaturesTrue, TrueValue
      <4> QED  BY <2>0, <2>1, <2>2, <4>1, RightStaysRight
    <3>4. CachedFeaturesTrue'
      BY <2>1, <2>2, <3>3 DEF CachedFeaturesTrue, TrueValue
    <3> QED  BY <2>2, <3>1, <3>2, <3>4 DEF FeatureInv
  <2>3. CASE /\ feats' = IF f = "model" THEN [feats EXCEPT ![f] = 0] ELSE feats
             /\ all_read' = [all_read EXCEPT ![c] = FALSE]
             /\ spoilt' = (spoilt \/ (f = "model" /\ (feats_loaded \/ \E o \in Callers \ {c} : next[o] # 0)))
    <3>1. FeatureTypes'
      BY <2>0, <2>1, <2>3 DEF FeatureInv, FeatureTypes
    <3>2. CASE f = "model"
      <4>1. ~spoilt' => ~spoilt /\ ~feats_loaded /\ \A o \in Callers \ {c} : next[o] = 0
        BY <2>3, <3>2
      <4>2. ASSUME NEW d \in Callers, ~spoilt', all_read'[d] PROVE Knows(d)'
        <5>1. d # c
          BY <2>3, <4>2 DEF FeatureInv, FeatureTypes
        <5>2. next'[d] = 0
          BY <2>1, <4>1, <4>2, <5>1 DEF FeatureInv, FeatureTypes
        <5> QED  BY <5>2, Reads DEF Knows
      <4>3. CachedFeaturesTrue'
        BY <2>1, <4>1 DEF CachedFeaturesTrue
      <4> QED  BY <3>1, <4>2, <4>3 DEF FeatureInv
    <3>3. CASE f # "model"
      <4>0. feats' = feats
        BY <2>3, <3>3
      <4>1. feats' = feats /\ spoilt' = spoilt
        BY <2>3, <3>3, <4>0 DEF FeatureInv, FeatureTypes
      <4>2. \A g : TrueValue(g)' = TrueValue(g)
        BY <2>1, <4>1 DEF TrueValue, Skipped
      <4>3. ASSUME NEW d \in Callers, ~spoilt', all_read'[d] PROVE Knows(d)'
        <5>1. d # c /\ all_read[d]
          BY <2>3, <4>3 DEF FeatureInv, FeatureTypes
        <5>2. next'[d] = next[d] /\ Knows(d)
          BY <2>1, <4>1, <4>3, <5>1 DEF FeatureInv, FeatureTypes
        <5> QED  BY <4>1, <4>2, <5>2 DEF Knows
      <4>4. CachedFeaturesTrue'
        BY <2>1, <4>1 DEF FeatureInv, CachedFeaturesTrue, Skipped
      <4> QED  BY <3>1, <4>3, <4>4 DEF FeatureInv
    <3> QED  BY <3>2, <3>3
  <2> QED  BY <1>2, <2>0, <2>2, <2>3 DEF ReadFeature, TrueValue
<1>3. ASSUME NEW c \in Callers, FeaturesDone(c) PROVE FeatureInv'
  <2>1. FeatureTypes'
    BY <1>3 DEF FeaturesDone, FeatureInv, FeatureTypes
  <2>2. /\ UNCHANGED <<device_has, exempt, feats, all_read, spoilt>> /\ next'[c] = 0
        /\ feats_loaded' = all_read[c] /\ next[c] = 7
    BY <1>3, Reads DEF FeaturesDone, IfComplete, FeatureInv, FeatureTypes
  <2>3. \A d \in Callers \ {c} : next'[d] = next[d]
    BY <1>3 DEF FeaturesDone, FeatureInv, FeatureTypes
  <2>4. \A g : TrueValue(g)' = TrueValue(g)
    BY <2>2 DEF TrueValue, Skipped
  <2>5. ASSUME NEW d \in Callers, ~spoilt, all_read[d] PROVE Knows(d)'
    <3>1. CASE d = c
      BY <2>2, <3>1, Reads DEF Knows
    <3>2. CASE d # c
      BY <2>2, <2>3, <2>4, <2>5, <3>2 DEF Knows, FeatureInv
    <3> QED  BY <3>1, <3>2
  <2>6. ASSUME feats_loaded', ~spoilt', NEW g \in EcFeatures PROVE feats'[g] = TrueValue(g)'
    <3>1. Knows(c)
      BY <2>2, <2>6 DEF FeatureInv
    <3>2. PICK i \in 1..6 : g = FeatureReads[i]
      BY Reads
    <3>3. feats[g] = TrueValue(g)
      BY <2>2, <3>1, <3>2, Reads DEF Knows
    <3> QED  BY <2>2, <2>4, <3>3
  <2>7. CachedFeaturesTrue'
    BY <2>6 DEF CachedFeaturesTrue, TrueValue
  <2> QED  BY <2>1, <2>2, <2>5, <2>7 DEF FeatureInv
<1> QED  BY <1>1, <1>2, <1>3 DEF uniwill_get_device_features

\* The three parts of the module share nothing.
LEMMA BootAlways == FeaturesSpec => [](RomInv /\ FeatureInv)
<1>1. FeaturesInit => RomInv /\ FeatureInv
  <2> SUFFICES ASSUME FeaturesInit PROVE RomInv /\ FeatureInv
    OBVIOUS
  <2>1. RomInv
    <3>1. RomTypes
      <4>1. rom \in [1..RomSize -> BOOLEAN] /\ rom_pc = "check" /\ rom_at = 1 /\ stuck = FALSE
        BY DEF FeaturesInit
      <4>2. rom_at \in 1..RomSize
        BY <4>1, FeaturesAssumption
      <4>3. rom_pc \in RomPlaces
        BY <4>1 DEF RomPlaces
      <4>4. stuck \in BOOLEAN
        BY <4>1
      <4> QED  BY <4>1, <4>2, <4>3, <4>4 DEF RomTypes
    <3>2. rom_pc = "check" /\ rom_at = 1
      BY DEF FeaturesInit
    <3>3. RightBefore(1)
      BY FeaturesAssumption DEF RightBefore
    <3> QED  BY <3>1, <3>2, <3>3 DEF RomInv, RomIdRight
  <2>2. device_has \in [EcFeatures -> Nat]
    BY DEF FeaturesInit, PH4TRX
  <2>3. FeatureTypes
    <3>1. "model" \notin exempt
      BY DEF FeaturesInit
    <3>2. feats \in [EcFeatures -> Nat]
      BY DEF FeaturesInit
    <3>3. next \in [Callers -> 0..7] /\ all_read \in [Callers -> BOOLEAN]
      BY DEF FeaturesInit
    <3> QED  BY <2>2, <3>1, <3>2, <3>3 DEF FeaturesInit, FeatureTypes
  <2>4. \A c \in Callers : Knows(c)
    BY Reads DEF FeaturesInit, Knows
  <2>5. CachedFeaturesTrue
    BY DEF FeaturesInit, CachedFeaturesTrue
  <2> QED  BY <2>1, <2>3, <2>4, <2>5 DEF FeatureInv
<1>2. (RomInv /\ FeatureInv) /\ [FeaturesNext]_bootVars => (RomInv /\ FeatureInv)'
  <2> SUFFICES ASSUME RomInv, FeatureInv, [FeaturesNext]_bootVars PROVE RomInv' /\ FeatureInv'
    OBVIOUS
  <2>1. UNCHANGED romVars => RomInv'
    BY DEF romVars, RomInv, RomTypes, RightBefore, RomIdRight
  <2>2. UNCHANGED featVars => FeatureInv'
    BY DEF featVars, FeatureInv, FeatureTypes, Knows, TrueValue, Skipped, CachedFeaturesTrue
  <2>3. CASE uniwill_get_device_features
    <3>1. UNCHANGED romVars
      BY <2>3 DEF uniwill_get_device_features, CallFeatures, ReadFeature, FeaturesDone
    <3> QED  BY <2>1, <2>3, <3>1, FeatureStep
  <2>4. CASE set_rom_id
    <3>1. UNCHANGED featVars
      BY <2>4 DEF set_rom_id, CheckByte, UnlockRom, WriteByte
    <3> QED  BY <2>2, <2>4, <3>1, RomStep
  <2>5. CASE ShowOptions \/ UNCHANGED bootVars
    <3>1. UNCHANGED featVars /\ UNCHANGED romVars
      BY <2>5 DEF ShowOptions, bootVars
    <3> QED  BY <2>1, <2>2, <3>1
  <2> QED  BY <2>3, <2>4, <2>5 DEF FeaturesNext
<1> QED  BY <1>1, <1>2, PTL DEF FeaturesSpec

\* uniwill_get_device_features caches only what is true of the device, for any
\* number of callers and of failures; unless the read of the model failed while
\* another caller was there.
THEOREM CachedFeaturesStayTrue == FeaturesSpec => []CachedFeaturesTrue
<1>1. FeatureInv => CachedFeaturesTrue
  BY DEF FeatureInv
<1> QED  BY <1>1, BootAlways, PTL

\* set_rom_id, for an id of any size and any failures, returns without an error
\* only if all bytes are right or one did not take.
THEOREM RomIdBecomesRight == FeaturesSpec => []RomIdRight
<1>1. RomInv => RomIdRight
  BY DEF RomInv
<1> QED  BY <1>1, BootAlways, PTL

-----------------------------------------------------------------------------
(* The touchpad key.  How many bytes of the sequence the last bytes are is *)
(* a small automaton (NowLongest); the filter, which does not look back,   *)
(* is in the same place unless a sequence began within another.            *)

ToggleSeq == uniwill_touchp_toggle_seq

\* An end of a sequence, element by element from the last one.
LEMMA SuffixByElements ==
    ASSUME NEW K, NEW u \in Seq(K), NEW v \in Seq(K)
    PROVE  IsSuffix(u, v) <=> /\ Len(u) <= Len(v)
                              /\ \A i \in 1..Len(u) : u[Len(u) + 1 - i] = v[Len(v) + 1 - i]
<1>0. Len(u) \in Nat /\ Len(v) \in Nat
  BY LenProperties
<1>1. ASSUME NEW w \in Seq(K)
      PROVE  /\ Reverse(w) \in Seq(K) /\ Len(Reverse(w)) = Len(w)
             /\ \A i \in 1..Len(w) : Reverse(w)[i] = w[Len(w) + 1 - i]
  <2>1. Len(w) \in Nat
    BY LenProperties
  <2>2. ASSUME NEW i \in 1..Len(w) PROVE w[(Len(w) - i) + 1] \in K /\ w[(Len(w) - i) + 1] = w[Len(w) + 1 - i]
    <3>1. (Len(w) - i) + 1 \in 1..Len(w) /\ (Len(w) - i) + 1 = Len(w) + 1 - i
      BY <2>1
    <3> QED  BY <3>1, ElementOfSeq
  <2>3. Reverse(w) \in [1..Len(w) -> K]
    BY <2>2 DEF Reverse
  <2>4. Reverse(w) \in Seq(K)
    BY <2>1, <2>3, SeqDef
  <2>5. DOMAIN Reverse(w) = 1..Len(Reverse(w)) /\ DOMAIN Reverse(w) = 1..Len(w) /\ Len(Reverse(w)) \in Nat
    BY <2>3, <2>4, LenProperties
  <2>6. Len(Reverse(w)) = Len(w)
    BY <2>1, <2>5
  <2>7. ASSUME NEW i \in 1..Len(w) PROVE Reverse(w)[i] = w[Len(w) + 1 - i]
    BY <2>2 DEF Reverse
  <2> QED  BY <2>4, <2>6, <2>7
<1> DEFINE ru == Reverse(u)
           rv == Reverse(v)
           n == Len(u)
<1>2. CASE ~(Len(u) <= Len(v))
  BY <1>1, <1>2 DEF IsSuffix, IsPrefix
<1>3. CASE Len(u) <= Len(v)
  <2>1. ru \in Seq(K) /\ rv \in Seq(K) /\ Len(ru) = n /\ Len(rv) = Len(v)
    BY <1>1
  <2>a. IsSuffix(u, v) <=> SubSeq(ru, 1, n) = SubSeq(rv, 1, n)
    BY <1>3, <2>1 DEF IsSuffix, IsPrefix
  <2>2. ASSUME NEW w \in Seq(K), n <= Len(w)
        PROVE  /\ SubSeq(w, 1, n) \in Seq(K) /\ Len(SubSeq(w, 1, n)) = n
               /\ \A i \in 1..n : SubSeq(w, 1, n)[i] = w[i]
    <3>1. 1 \in Int /\ n \in Int /\ n \in Nat
      BY <1>0
    <3>2. \A i \in 1..n : w[i] \in K
      <4> SUFFICES ASSUME NEW i \in 1..n PROVE w[i] \in K
        OBVIOUS
      <4>1. i \in 1..Len(w)
        BY <1>0, <2>2, LenProperties
      <4> QED  BY <4>1, ElementOfSeq
    <3> HIDE DEF n
    <3>3. /\ SubSeq(w, 1, n) \in Seq(K)
          /\ Len(SubSeq(w, 1, n)) = IF 1 <= n THEN n - 1 + 1 ELSE 0
          /\ \A i \in 1..n - 1 + 1 : SubSeq(w, 1, n)[i] = w[1 + i - 1]
      BY <3>1, <3>2, SubSeqProperties
    <3>4. n - 1 + 1 = n /\ \A i \in 1..n : 1 + i - 1 = i
      BY <3>1
    <3> QED  BY <3>1, <3>3, <3>4
  <2>3. SubSeq(ru, 1, n) = SubSeq(rv, 1, n) <=> \A i \in 1..n : ru[i] = rv[i]
    <3>1. /\ SubSeq(ru, 1, n) \in Seq(K) /\ Len(SubSeq(ru, 1, n)) = n
          /\ SubSeq(rv, 1, n) \in Seq(K) /\ Len(SubSeq(rv, 1, n)) = n
          /\ \A i \in 1..n : SubSeq(ru, 1, n)[i] = ru[i] /\ SubSeq(rv, 1, n)[i] = rv[i]
      <4>1. n <= Len(ru) /\ n <= Len(rv)
        BY <1>0, <1>3, <2>1
      <4> QED  BY <2>1, <2>2, <4>1
    <3> HIDE DEF n, ru, rv
    <3>2. ASSUME \A i \in 1..n : ru[i] = rv[i] PROVE SubSeq(ru, 1, n) = SubSeq(rv, 1, n)
      BY <3>1, <3>2, SeqEqual
    <3> QED  BY <3>1, <3>2
  <2>4. \A i \in 1..n : ru[i] = u[n + 1 - i] /\ rv[i] = v[Len(v) + 1 - i]
    BY <1>0, <1>1, <1>3
  <2> HIDE DEF n, ru, rv
  <2>5. IsSuffix(u, v) <=> \A i \in 1..n : u[n + 1 - i] = v[Len(v) + 1 - i]
    BY <2>a, <2>3, <2>4
  <2> QED  BY <1>3, <2>5 DEF n
<1> QED  BY <1>2, <1>3

\* The beginnings of the sequence, and one with a byte after it.
LEMMA Beginnings ==
    /\ ToggleSeq \in Seq(KeyboardBytes) /\ Len(ToggleSeq) = 8
    /\ \A n \in 0..8 : /\ Beginning(n) \in Seq(KeyboardBytes) /\ Len(Beginning(n)) = n
                       /\ \A i \in 1..n : Beginning(n)[i] = ToggleSeq[i]
<1>1. ToggleSeq \in Seq(KeyboardBytes) /\ Len(ToggleSeq) = 8
  BY DEF ToggleSeq, uniwill_touchp_toggle_seq, KeyboardBytes, Range
<1>2. ASSUME NEW n \in 0..8
      PROVE  /\ Beginning(n) \in Seq(KeyboardBytes) /\ Len(Beginning(n)) = n
             /\ \A i \in 1..n : Beginning(n)[i] = ToggleSeq[i]
  <2>1. 1 \in Int /\ n \in Int /\ Beginning(n) = SubSeq(ToggleSeq, 1, n)
    BY DEF Beginning, ToggleSeq
  <2>2. \A i \in 1..n : ToggleSeq[i] \in KeyboardBytes
    <3> SUFFICES ASSUME NEW i \in 1..n PROVE ToggleSeq[i] \in KeyboardBytes
      OBVIOUS
    <3>1. i \in 1..Len(ToggleSeq)
      BY <1>1
    <3> QED  BY <1>1, <3>1, ElementOfSeq
  <2>3. /\ SubSeq(ToggleSeq, 1, n) \in Seq(KeyboardBytes)
        /\ Len(SubSeq(ToggleSeq, 1, n)) = IF 1 <= n THEN n - 1 + 1 ELSE 0
        /\ \A i \in 1..n - 1 + 1 : SubSeq(ToggleSeq, 1, n)[i] = ToggleSeq[1 + i - 1]
    BY <2>1, <2>2, SubSeqProperties
  <2>4. n - 1 + 1 = n /\ \A i \in 1..n : 1 + i - 1 = i
    OBVIOUS
  <2> QED  BY <2>1, <2>3, <2>4
<1> QED  BY <1>1, <1>2

\* The new byte and, before it, the bytes found so far are the end of the
\* sequence's first n bytes.
Fits(s, b, n) ==
    n <= s + 1 /\ \A i \in 1..n : ToggleSeq[n + 1 - i] = IF i = 1 THEN b ELSE ToggleSeq[s + 2 - i]

\* Which ends of the bytes so far start the sequence depends only on the longest one.
LEMMA EndsFit ==
    ASSUME NEW s \in 0..8, NEW b \in KeyboardBytes, NEW n \in 0..8
    PROVE  n \in Ends(Append(Beginning(s), b)) <=> Fits(s, b, n)
<1> DEFINE u == Beginning(n)
           v == Append(Beginning(s), b)
<1>1. u \in Seq(KeyboardBytes) /\ Len(u) = n /\ \A i \in 1..n : u[i] = ToggleSeq[i]
  BY Beginnings
<1>2. /\ Beginning(s) \in Seq(KeyboardBytes) /\ Len(Beginning(s)) = s
      /\ \A i \in 1..s : Beginning(s)[i] = ToggleSeq[i]
  BY Beginnings
<1>3. /\ v \in Seq(KeyboardBytes) /\ Len(v) = s + 1 /\ v[s + 1] = b
      /\ \A i \in 1..s : v[i] = ToggleSeq[i]
  BY <1>2, AppendProperties
<1>4. n \in Ends(v) <=> IsSuffix(u, v)
  BY Beginnings DEF Ends, ToggleSeq
<1> HIDE DEF u, v
<1>5. IsSuffix(u, v) <=> n <= s + 1 /\ \A i \in 1..n : u[n + 1 - i] = v[s + 1 + 1 - i]
  <2>1. IsSuffix(u, v) <=> /\ Len(u) <= Len(v)
                           /\ \A i \in 1..Len(u) : u[Len(u) + 1 - i] = v[Len(v) + 1 - i]
    <3>1. u \in Seq(KeyboardBytes) /\ v \in Seq(KeyboardBytes)
      BY <1>1, <1>3
    <3> QED  BY <3>1, SuffixByElements
  <2> QED  BY <1>1, <1>3, <2>1
<1>6. ASSUME n <= s + 1, NEW i \in 1..n
      PROVE  /\ u[n + 1 - i] = ToggleSeq[n + 1 - i]
             /\ v[s + 1 + 1 - i] = IF i = 1 THEN b ELSE ToggleSeq[s + 2 - i]
  <2>1. n + 1 - i \in 1..n /\ s + 1 + 1 - i = s + 2 - i
    OBVIOUS
  <2>2. i # 1 => s + 2 - i \in 1..s
    BY <1>6
  <2>3. i = 1 => s + 2 - i = s + 1
    OBVIOUS
  <2> QED  BY <1>1, <1>3, <2>1, <2>2, <2>3
<1> QED  BY <1>4, <1>5, <1>6 DEF Fits, v

\* How many bytes of the sequence are found after one more.
NowLongest(s, b) ==
    IF s < 8 /\ b = ToggleSeq[s + 1] THEN s + 1
    ELSE IF s = 7 /\ b = "5b" THEN 2
    ELSE IF b = "e0" THEN 1 ELSE 0

\* Two bytes of the sequence are equal: the first and the seventh.
LEMMA ToggleBytes ==
    /\ ToggleSeq[1] = "e0" /\ ToggleSeq[2] = "5b" /\ ToggleSeq[3] = "1d" /\ ToggleSeq[4] = "76"
    /\ ToggleSeq[5] = "f6" /\ ToggleSeq[6] = "9d" /\ ToggleSeq[7] = "e0" /\ ToggleSeq[8] = "db"
    /\ \A i, j \in 1..8 : ToggleSeq[i] = ToggleSeq[j] => i = j \/ {i, j} = {1, 7}
<1>1. /\ ToggleSeq[1] = "e0" /\ ToggleSeq[2] = "5b" /\ ToggleSeq[3] = "1d" /\ ToggleSeq[4] = "76"
      /\ ToggleSeq[5] = "f6" /\ ToggleSeq[6] = "9d" /\ ToggleSeq[7] = "e0" /\ ToggleSeq[8] = "db"
  BY DEF ToggleSeq, uniwill_touchp_toggle_seq
<1>2. ASSUME NEW i \in 1..8, NEW j \in 1..8, ToggleSeq[i] = ToggleSeq[j], i # j
      PROVE  {i, j} = {1, 7}
  <2>1. i \in {1, 2, 3, 4, 5, 6, 7, 8} /\ j \in {1, 2, 3, 4, 5, 6, 7, 8}
    OBVIOUS
  <2> QED  BY <1>1, <1>2, <2>1
<1> QED  BY <1>1, <1>2

\* The longest of them is computed from the one before it.
LEMMA LongestEnd ==
    ASSUME NEW s \in 0..8, NEW b \in KeyboardBytes
    PROVE  Max(Ends(Append(Beginning(s), b))) = NowLongest(s, b) /\ NowLongest(s, b) \in 0..8
<1> DEFINE ends == Ends(Append(Beginning(s), b))
           n == NowLongest(s, b)
<1>1. n \in 0..8
  BY DEF NowLongest
<1>2. Fits(s, b, n)
  <2>1. CASE s < 8 /\ b = ToggleSeq[s + 1]
    BY <2>1 DEF NowLongest, Fits
  <2>2. CASE ~(s < 8 /\ b = ToggleSeq[s + 1]) /\ s = 7 /\ b = "5b"
    <3>1. n = 2 /\ s = 7
      BY <2>2 DEF NowLongest
    <3>2. \A i \in 1..2 : i = 1 \/ i = 2
      OBVIOUS
    <3> QED  BY <2>2, <3>1, <3>2, ToggleBytes DEF Fits
  <2>3. CASE ~(s < 8 /\ b = ToggleSeq[s + 1]) /\ ~(s = 7 /\ b = "5b") /\ b = "e0"
    <3>1. n = 1
      BY <2>3 DEF NowLongest
    <3>2. \A i \in 1..1 : i = 1
      OBVIOUS
    <3> QED  BY <2>3, <3>1, <3>2, ToggleBytes DEF Fits
  <2>4. CASE ~(s < 8 /\ b = ToggleSeq[s + 1]) /\ ~(s = 7 /\ b = "5b") /\ b # "e0"
    <3>1. n = 0
      BY <2>4 DEF NowLongest
    <3> QED  BY <3>1 DEF Fits
  <2> QED  BY <2>1, <2>2, <2>3, <2>4
<1>3. ASSUME NEW m \in 0..8, Fits(s, b, m) PROVE m <= n
  <2>1. CASE m = s + 1
    <3>1. ToggleSeq[m + 1 - 1] = b /\ m + 1 - 1 = s + 1 /\ s < 8
      BY <1>3, <2>1 DEF Fits
    <3> QED  BY <2>1, <3>1 DEF NowLongest
  <2>2. CASE m # s + 1 /\ m > 1
    <3>0. m < s + 1
      BY <1>3, <2>2 DEF Fits
    <3>1. ToggleSeq[m + 1 - m] = ToggleSeq[s + 2 - m] /\ m + 1 - m = 1 /\ s + 2 - m \in 2..8
      BY <1>3, <2>2, <3>0 DEF Fits
    <3>2. ToggleSeq[s + 2 - m] = ToggleSeq[1]
      BY <3>1
    <3>3. s + 2 - m = 7
      <4>1. 1 \in 1..8 /\ s + 2 - m \in 1..8 /\ s + 2 - m # 1
        BY <3>1
      <4>2. {1, s + 2 - m} = {1, 7}
        BY <3>2, <4>1, ToggleBytes
      <4> QED  BY <4>1, <4>2
    <3>4. (s = 7 /\ m = 2) \/ (s = 8 /\ m = 3)
      BY <2>2, <3>3
    <3>5. ToggleSeq[m + 1 - 1] = b
      BY <1>3, <2>2 DEF Fits
    <3>6. CASE s = 7 /\ m = 2
      <4>1. b = "5b"
        BY <3>5, <3>6, ToggleBytes
      <4> QED  BY <3>6, <4>1, ToggleBytes DEF NowLongest
    <3>7. CASE s = 8 /\ m = 3
      <4>1. ToggleSeq[3 + 1 - 2] = ToggleSeq[8 + 2 - 2] /\ 3 + 1 - 2 = 2 /\ 8 + 2 - 2 = 8
        BY <1>3, <3>7 DEF Fits
      <4> QED  BY <4>1, ToggleBytes
    <3> QED  BY <3>4, <3>6, <3>7
  <2>3. CASE m = 1
    <3>1. ToggleSeq[1 + 1 - 1] = b /\ 1 + 1 - 1 = 1
      BY <1>3, <2>3 DEF Fits
    <3> QED  BY <2>3, <3>1, ToggleBytes DEF NowLongest
  <2>4. CASE m = 0
    BY <1>1, <2>4
  <2> QED  BY <2>1, <2>2, <2>3, <2>4
<1>4. n \in ends /\ \A m \in ends : m \in 0..8 /\ m <= n
  <2>1. \A m \in ends : m \in 0..8
    BY Beginnings DEF Ends, ToggleSeq
  <2> QED  BY <1>1, <1>2, <1>3, <2>1, EndsFit
<1> HIDE DEF n, ends
<1>5. \A m \in ends : n >= m
  BY <1>1, <1>4
<1>6. \E x \in ends : \A y \in ends : x >= y
  BY <1>4, <1>5
<1>7. Max(ends) \in ends /\ \A y \in ends : Max(ends) >= y
  BY <1>6 DEF Max
<1>8. Max(ends) = n
  <2> DEFINE x == Max(ends)
  <2>1. x \in 0..8 /\ x <= n /\ x >= n
    BY <1>4, <1>7
  <2> HIDE DEF x
  <2>2. x = n
    BY <1>1, <2>1
  <2> QED  BY <2>2 DEF x
<1> QED  BY <1>1, <1>8 DEF n, ends

\* Where the filter is, and what the bytes were: without one sequence within
\* another they are the same.
PlaceInv ==
    /\ seq_pos \in 0..7 /\ suffix \in 0..8 /\ inside \in BOOLEAN
    /\ seq_pos # 0 => suffix = seq_pos \/ (seq_pos = 1 /\ suffix = 7 /\ inside)
    /\ seq_pos = 0 => suffix # 7 /\ (suffix \in {0, 8} \/ inside)
    /\ suffix = 8 => seq_pos = 0

FilterInv == PlaceInv /\ TouchpadKeyFound

\* TouchpadKeyFound, of the sequence by its name.
Found ==
    /\ toggled => suffix = 8
    /\ suffix = 8 /\ ~inside => toggled
    /\ hidden # "none" => suffix > 0 /\ ToggleSeq[suffix] = hidden

\* The two ways of putting it are the same.
LEMMA KeyFound == (TouchpadKeyFound <=> Found) /\ (TouchpadKeyFound' <=> Found')
<1>1. Len(uniwill_touchp_toggle_seq) = 8
  BY Beginnings DEF ToggleSeq
<1> QED  BY <1>1 DEF TouchpadKeyFound, Found, ToggleSeq

\* A byte of the keyboard keeps the filter with the bytes.
LEMMA ByteStep ==
    ASSUME FilterInv, NEW b \in KeyboardBytes, Byte(b)
    PROVE  FilterInv'
<1> DEFINE found == b = ToggleSeq[seq_pos + 1]
           whole == found /\ seq_pos = 7
           fits == suffix < 8 /\ b = ToggleSeq[suffix + 1]
<1>1. PICK now \in 0..8 : now = NowLongest(suffix, b)
  BY LongestEnd DEF FilterInv, PlaceInv
<1>2. suffix' = now
  BY <1>1, LongestEnd DEF Byte, FilterInv, PlaceInv
<1>3. /\ seq_pos' = IF whole THEN 0 ELSE IF found THEN seq_pos + 1 ELSE 0
      /\ hidden' = IF found /\ b \in {"76", "f6"} THEN b ELSE "none"
      /\ toggled' = whole
  BY Beginnings DEF Byte, FilterInv, PlaceInv, AfterMismatch, ToggleSeq
<1>4. inside' = (now > 0 /\ IF now = suffix + 1 THEN (IF suffix = 0 THEN seq_pos # 0 ELSE inside)
                            ELSE seq_pos # 0)
  BY <1>1, LongestEnd DEF Byte, FilterInv, PlaceInv
<1>5. seq_pos \in 0..7 /\ suffix \in 0..8 /\ inside \in BOOLEAN
  BY DEF FilterInv, PlaceInv
<1>6. now = IF fits THEN suffix + 1 ELSE IF suffix = 7 /\ b = "5b" THEN 2 ELSE IF b = "e0" THEN 1 ELSE 0
  BY <1>1 DEF NowLongest
<1>7. PlaceInv' /\ Found' => FilterInv'
  BY KeyFound DEF FilterInv
<1>8. CASE seq_pos = suffix /\ found
  <2>1. now = suffix + 1 /\ now \in 1..8 /\ ToggleSeq[now] = b /\ seq_pos = suffix
    BY <1>5, <1>6, <1>8
  <2>2. seq_pos' = (IF now = 8 THEN 0 ELSE now) /\ (toggled' <=> now = 8)
    <3>1. whole <=> now = 8
      BY <1>5, <1>8, <2>1
    <3>2. toggled' <=> now = 8
      BY <1>3, <3>1
    <3>3. seq_pos' = IF now = 8 THEN 0 ELSE now
      BY <1>3, <1>5, <1>8, <2>1
    <3> QED  BY <3>2, <3>3
  <2>3. hidden' # "none" => hidden' = b
    BY <1>3
  <2>4. PlaceInv'
    <3>1. inside' \in BOOLEAN
      BY <1>4, <1>5
    <3>2. now = 7 => seq_pos' = 7
      BY <2>2
    <3> QED  BY <1>2, <2>1, <2>2, <3>1, <3>2 DEF PlaceInv
  <2>5. Found'
    BY <1>2, <2>1, <2>2, <2>3 DEF Found
  <2> QED  BY <1>7, <2>4, <2>5
<1>9. CASE seq_pos = suffix /\ ~found
  <2>1. ~fits /\ now \in 0..2
    BY <1>5, <1>6, <1>9
  <2>2. now # 0 => now # suffix + 1 /\ seq_pos # 0
    BY <1>5, <1>6, <1>9, <2>1, ToggleBytes
  <2>3. seq_pos' = 0 /\ hidden' = "none" /\ toggled' = FALSE
    <3>1. ~whole
      BY <1>9
    <3> QED  BY <1>3, <1>9, <3>1
  <2>4. inside' = (now # 0)
    BY <1>4, <2>1, <2>2
  <2>5. PlaceInv'
    <3>1. inside' \in BOOLEAN /\ (inside' <=> now # 0)
      BY <2>4
    <3>2. suffix' \in 0..2 /\ seq_pos' = 0 /\ (suffix' = 0 \/ inside')
      BY <1>2, <2>1, <2>3, <3>1
    <3> QED  BY <3>1, <3>2 DEF PlaceInv
  <2>6. Found'
    BY <1>2, <2>1, <2>3 DEF Found
  <2> QED  BY <1>7, <2>5, <2>6
<1>10. CASE seq_pos # suffix
  <2>1. (seq_pos = 0 /\ suffix \in 1..8 /\ suffix # 7) \/ (seq_pos = 1 /\ suffix = 7)
    BY <1>5, <1>10 DEF FilterInv, PlaceInv
  <2>2. suffix # 8 => inside = TRUE
    BY <1>5, <1>10, <2>1 DEF FilterInv, PlaceInv
  <2>3. ~whole
    BY <2>1
  <2>4. toggled' = FALSE
    BY <1>3, <2>3
  <2>5. hidden' = "none"
    BY <1>3, <2>1, ToggleBytes
  <2>6. now = suffix + 1 => inside' = TRUE
    BY <1>4, <1>5, <2>1, <2>2
  <2>7. Found'
    BY <1>2, <1>5, <2>4, <2>5, <2>6, <1>6, <2>1 DEF Found
  <2>8. inside' \in BOOLEAN
    BY <1>4, <1>5
  <2>9. CASE seq_pos = 0
    <3>1. seq_pos' = IF b = "e0" THEN 1 ELSE 0
      BY <1>3, <2>3, <2>9, ToggleBytes
    <3>2. CASE b = "e0"
      <4>1. now = 1 \/ (now = 7 /\ now = suffix + 1)
        <5>1. fits => suffix = 6
          BY <1>5, <2>1, <3>2, <2>9, ToggleBytes
        <5> QED  BY <1>6, <3>2, <5>1
      <4> QED  BY <1>2, <2>6, <2>8, <2>7, <3>1, <3>2, <4>1, <1>7 DEF PlaceInv
    <3>3. CASE b # "e0"
      <4>1. now = 0 \/ (fits /\ now = suffix + 1)
        BY <1>6, <2>1, <2>9, <3>3
      <4>2. now # 7
        <5>1. suffix = 6 => ~fits
          BY <3>3, ToggleBytes
        <5> QED  BY <1>5, <4>1, <5>1
      <4> QED  BY <1>2, <2>6, <2>8, <2>7, <3>1, <3>3, <4>1, <4>2, <1>7 DEF PlaceInv
    <3> QED  BY <3>2, <3>3
  <2>10. CASE seq_pos = 1 /\ suffix = 7
    <3>1. seq_pos' = IF b = "5b" THEN 2 ELSE 0
      BY <1>3, <2>3, <2>10, ToggleBytes
    <3>2. now = IF b = "db" THEN 8 ELSE IF b = "5b" THEN 2 ELSE IF b = "e0" THEN 1 ELSE 0
      BY <1>6, <2>10, ToggleBytes
    <3>3. now # 0 => inside' = TRUE
      <4>1. CASE now = 8
        BY <2>6, <2>10, <4>1
      <4>2. CASE now \in {1, 2}
        <5>1. now # suffix + 1 /\ now > 0 /\ seq_pos # 0
          BY <2>10, <4>2
        <5> QED  BY <1>4, <5>1
      <4> QED  BY <3>2, <4>1, <4>2
    <3> QED  BY <1>2, <2>8, <2>7, <3>1, <3>2, <3>3, <1>7 DEF PlaceInv
  <2> QED  BY <2>1, <2>9, <2>10
<1> QED  BY <1>8, <1>9, <1>10

\* Whatever bytes come: the touchpad key is found at its whole sequence and at
\* nothing else, no byte outside it is hidden, and a sequence is missed only if
\* it begins within another.
THEOREM TouchpadKeyAlwaysFound == FilterSpec => []TouchpadKeyFound
<1>1. FilterInit => FilterInv
  <2> SUFFICES ASSUME FilterInit PROVE FilterInv
    OBVIOUS
  <2>1. PlaceInv
    <3>1. seq_pos = 0 /\ suffix = 0 /\ inside \in BOOLEAN
      BY DEF FilterInit
    <3> QED  BY <3>1 DEF PlaceInv
  <2>2. Found
    BY DEF FilterInit, Found
  <2> QED  BY <2>1, <2>2, KeyFound DEF FilterInv
<1>2. FilterInv /\ [FilterNext]_filterVars => FilterInv'
  <2> SUFFICES ASSUME FilterInv, [FilterNext]_filterVars PROVE FilterInv'
    OBVIOUS
  <2>1. UNCHANGED <<seq_pos, suffix, inside, hidden, toggled>> => FilterInv'
    BY DEF FilterInv, PlaceInv, TouchpadKeyFound
  <2> QED  BY <2>1, ByteStep DEF FilterNext, MouseByte, filterVars
<1>3. FilterInv => TouchpadKeyFound
  BY DEF FilterInv
<1> QED  BY <1>1, <1>2, <1>3, PTL DEF FilterSpec

---------------------------------------------------------------------------
(* Clevo keyboard backlight: the steps of a call.                          *)

Steps == {"brightness", "cdevs", "hue", "status", "mode", "keep_mode", "ask", "intensity"}
LedOps == [what : Steps, zone : 0..2, value : Nat]

\* Which step comes right after which, also in what is left of a call.
Ordered(q) == \A i \in 1 .. Len(q) :
    /\ q[i].what \in {"brightness", "ask"} => i < Len(q) /\ q[i + 1].what = "cdevs"
    /\ q[i].what = "cdevs" /\ i > 1 => q[i - 1].what \in {"brightness", "ask"}
    /\ q[i].what = "mode" => i < Len(q) /\ q[i + 1].what = "keep_mode" /\ q[i + 1].value = q[i].value
    /\ q[i].what = "keep_mode" /\ i > 1 => q[i - 1].what = "mode" /\ q[i - 1].value = q[i].value
    /\ q[i].what \in {"mode", "status"} => q[i].value # Asis
    /\ q[i].what = "intensity" => i + 3 <= Len(q) /\ q[i + 3].what = "hue" /\ q[i + 3].zone = q[i].zone

Has(q, what) == \E i \in 1 .. Len(q) : q[i].what = what
Paints(q, z) == \E i \in 1 .. Len(q) : q[i].what = "hue" /\ q[i].zone = z
Switches(q, s) == \A i \in 1 .. Len(q) : q[i].what = "status" => q[i].value \in s

\* A call as it starts; it switches the backlight to nothing but s.
Call(q, s) ==
    /\ q \in Seq(LedOps) /\ Ordered(q) /\ Switches(q, s)
    /\ q # <<>> => q[1].what \notin {"cdevs", "keep_mode"}

\* What is left of a list after its first step.
LEMMA TailOrdered ==
  ASSUME NEW q \in Seq(LedOps), q # <<>>, Ordered(q)
  PROVE  /\ Tail(q) \in Seq(LedOps) /\ Len(Tail(q)) = Len(q) - 1
         /\ \A i \in 1 .. Len(q) - 1 : Tail(q)[i] = q[i + 1]
         /\ Ordered(Tail(q))
<1>1. /\ Tail(q) \in Seq(LedOps) /\ Len(Tail(q)) = Len(q) - 1 /\ Len(q) \in Nat
      /\ \A i \in 1 .. Len(q) - 1 : Tail(q)[i] = q[i + 1]
  BY HeadTailProperties, LenProperties
<1>2. SUFFICES ASSUME NEW i \in 1 .. Len(q) - 1
               PROVE  /\ Tail(q)[i].what \in {"brightness", "ask"} =>
                           i < Len(q) - 1 /\ Tail(q)[i + 1].what = "cdevs"
                      /\ Tail(q)[i].what = "cdevs" /\ i > 1 => Tail(q)[i - 1].what \in {"brightness", "ask"}
                      /\ Tail(q)[i].what = "mode" => /\ i < Len(q) - 1 /\ Tail(q)[i + 1].what = "keep_mode"
                                                     /\ Tail(q)[i + 1].value = Tail(q)[i].value
                      /\ Tail(q)[i].what = "keep_mode" /\ i > 1 =>
                           Tail(q)[i - 1].what = "mode" /\ Tail(q)[i - 1].value = Tail(q)[i].value
                      /\ Tail(q)[i].what \in {"mode", "status"} => Tail(q)[i].value # Asis
                      /\ Tail(q)[i].what = "intensity" => /\ i + 3 <= Len(q) - 1
                           /\ Tail(q)[i + 3].what = "hue"
                                                          /\ Tail(q)[i + 3].zone = Tail(q)[i].zone
  BY <1>1 DEF Ordered
<1>3. i + 1 \in 1 .. Len(q) /\ Tail(q)[i] = q[i + 1]  BY <1>1
<1>4. i < Len(q) - 1 => Tail(q)[i + 1] = q[(i + 1) + 1]  BY <1>1
<1>5. i > 1 => Tail(q)[i - 1] = q[(i + 1) - 1]  BY <1>1
<1>6. i + 3 <= Len(q) - 1 => Tail(q)[i + 3] = q[(i + 1) + 3]  BY <1>1
<1>7. (i + 1 < Len(q)) = (i < Len(q) - 1) /\ i + 1 > 1 /\ ((i + 1) + 3 <= Len(q)) = (i + 3 <= Len(q) - 1)
  BY <1>1
<1> HIDE DEF Asis
<1> QED  BY <1>3, <1>4, <1>5, <1>6, <1>7 DEF Ordered

\* Steps that are left are in the rest, or come now.
LEMMA TailHas ==
  ASSUME NEW q \in Seq(LedOps), q # <<>>, Ordered(q)
  PROVE  /\ \A w \in Steps : Has(q, w) => q[1].what = w \/ Has(Tail(q), w)
         /\ \A z \in 0..2 : Paints(q, z) => (q[1].what = "hue" /\ q[1].zone = z) \/ Paints(Tail(q), z)
         /\ \A s : Switches(q, s) => Switches(Tail(q), s)
<1>1. /\ Len(Tail(q)) = Len(q) - 1 /\ Len(q) \in Nat
      /\ \A i \in 1 .. Len(q) - 1 : Tail(q)[i] = q[i + 1]
  BY TailOrdered, LenProperties
<1>2. \A i \in 1 .. Len(q) : i = 1 \/ (i - 1 \in 1 .. Len(Tail(q)) /\ Tail(q)[i - 1] = q[i])
  <2> TAKE i \in 1 .. Len(q)
  <2>1. CASE i = 1  BY <2>1
  <2>2. CASE i # 1
    <3>1. i - 1 \in 1 .. Len(q) - 1 /\ (i - 1) + 1 = i  BY <1>1, <2>2
    <3> QED  BY <1>1, <3>1
  <2> QED  BY <2>1, <2>2
<1>3. \A i \in 1 .. Len(Tail(q)) : i + 1 \in 1 .. Len(q) /\ Tail(q)[i] = q[i + 1]  BY <1>1
<1>4. ASSUME NEW w \in Steps, Has(q, w), q[1].what # w  PROVE Has(Tail(q), w)
  BY <1>2, <1>4 DEF Has
<1>5. ASSUME NEW z \in 0..2, Paints(q, z), ~(q[1].what = "hue" /\ q[1].zone = z)  PROVE Paints(Tail(q), z)
  BY <1>2, <1>5 DEF Paints
<1>6. ASSUME NEW s, Switches(q, s)  PROVE Switches(Tail(q), s)
  BY <1>3, <1>6 DEF Switches
<1> QED  BY <1>4, <1>5, <1>6

\* One call after the other.
LEMMA CallsJoin ==
  ASSUME NEW p, NEW q, NEW s, Call(p, s), Call(q, s)
  PROVE  /\ Call(p \o q, s)
         /\ \A w \in Steps : Has(p, w) \/ Has(q, w) => Has(p \o q, w)
         /\ \A z \in 0..2 : Paints(p, z) \/ Paints(q, z) => Paints(p \o q, z)
<1> DEFINE r == p \o q
<1>1. p \in Seq(LedOps) /\ q \in Seq(LedOps)  BY DEF Call
<1>2. /\ r \in Seq(LedOps) /\ Len(r) = Len(p) + Len(q) /\ Len(p) \in Nat /\ Len(q) \in Nat
      /\ \A i \in 1 .. Len(p) : r[i] = p[i]
      /\ \A i \in Len(p) + 1 .. Len(p) + Len(q) : r[i] = q[i - Len(p)]
  BY <1>1, ConcatProperties, LenProperties
<1>3. \A i \in 1 .. Len(q) : i + Len(p) \in 1 .. Len(r) /\ r[i + Len(p)] = q[i]
  <2> TAKE i \in 1 .. Len(q)
  <2>1. i + Len(p) \in Len(p) + 1 .. Len(p) + Len(q) /\ (i + Len(p)) - Len(p) = i  BY <1>2
  <2> QED  BY <1>2, <2>1
<1>4. \A i \in 1 .. Len(p) : i \in 1 .. Len(r) /\ r[i] = p[i]  BY <1>2
<1>5. \A i \in 1 .. Len(r) : i \in 1 .. Len(p) \/ \E j \in 1 .. Len(q) : i = j + Len(p)
  <2> TAKE i \in 1 .. Len(r)
  <2>1. i \in 1 .. Len(p) \/ (i - Len(p) \in 1 .. Len(q) /\ i = (i - Len(p)) + Len(p))  BY <1>2
  <2> QED  BY <2>1
<1> HIDE DEF r
<1>12. Len(r) = Len(p) + Len(q) /\ Len(p) \in Nat /\ Len(q) \in Nat  BY <1>2
<1>6. Ordered(r)
  <2> SUFFICES ASSUME NEW i \in 1 .. Len(r)
               PROVE  /\ r[i].what \in {"brightness", "ask"} => i < Len(r) /\ r[i + 1].what = "cdevs"
                      /\ r[i].what = "cdevs" /\ i > 1 => r[i - 1].what \in {"brightness", "ask"}
                      /\ r[i].what = "mode" => /\ i < Len(r) /\ r[i + 1].what = "keep_mode"
                                               /\ r[i + 1].value = r[i].value
                      /\ r[i].what = "keep_mode" /\ i > 1 =>
                           r[i - 1].what = "mode" /\ r[i - 1].value = r[i].value
                      /\ r[i].what \in {"mode", "status"} => r[i].value # Asis
                      /\ r[i].what = "intensity" => /\ i + 3 <= Len(r) /\ r[i + 3].what = "hue"
                                                    /\ r[i + 3].zone = r[i].zone
    BY DEF Ordered
  <2>1. CASE i \in 1 .. Len(p)
    <3>1. r[i] = p[i] /\ (i < Len(p) => r[i + 1] = p[i + 1]) /\ (i > 1 => r[i - 1] = p[i - 1])
          /\ (i + 3 <= Len(p) => r[i + 3] = p[i + 3])
      <4>1. (i < Len(p) => i + 1 \in 1 .. Len(p)) /\ (i > 1 => i - 1 \in 1 .. Len(p))
            /\ (i + 3 <= Len(p) => i + 3 \in 1 .. Len(p))
        BY <1>2, <2>1
      <4> QED  BY <1>4, <2>1, <4>1
    <3>2. (i < Len(p) => i < Len(r)) /\ (i + 3 <= Len(p) => i + 3 <= Len(r))  BY <1>12
    <3>3. Ordered(p)  BY DEF Call
    <3> HIDE DEF Asis
    <3> QED  BY <2>1, <3>1, <3>2, <3>3 DEF Ordered
  <2>2. ASSUME NEW j \in 1 .. Len(q), i = j + Len(p)
        PROVE  /\ r[i].what \in {"brightness", "ask"} => i < Len(r) /\ r[i + 1].what = "cdevs"
               /\ r[i].what = "cdevs" /\ i > 1 => r[i - 1].what \in {"brightness", "ask"}
               /\ r[i].what = "mode" => /\ i < Len(r) /\ r[i + 1].what = "keep_mode"
                                        /\ r[i + 1].value = r[i].value
               /\ r[i].what = "keep_mode" /\ i > 1 =>
                    r[i - 1].what = "mode" /\ r[i - 1].value = r[i].value
               /\ r[i].what \in {"mode", "status"} => r[i].value # Asis
               /\ r[i].what = "intensity" => /\ i + 3 <= Len(r) /\ r[i + 3].what = "hue"
                                             /\ r[i + 3].zone = r[i].zone
    <3>1. r[i] = q[j]  BY <1>3, <2>2
    <3>2. j < Len(q) => i < Len(r) /\ r[i + 1] = q[j + 1]
      <4> HAVE j < Len(q)
      <4>1. j + 1 \in 1 .. Len(q) /\ i + 1 = (j + 1) + Len(p) /\ i < Len(r)  BY <1>12, <2>2
      <4> QED  BY <1>3, <4>1
    <3>3. j > 1 => r[i - 1] = q[j - 1]
      <4> HAVE j > 1
      <4>1. j - 1 \in 1 .. Len(q) /\ i - 1 = (j - 1) + Len(p)  BY <1>12, <2>2
      <4> QED  BY <1>3, <4>1
    <3>4. j + 3 <= Len(q) => i + 3 <= Len(r) /\ r[i + 3] = q[j + 3]
      <4> HAVE j + 3 <= Len(q)
      <4>1. j + 3 \in 1 .. Len(q) /\ i + 3 = (j + 3) + Len(p) /\ i + 3 <= Len(r)  BY <1>12, <2>2
      <4> QED  BY <1>3, <4>1
    <3>5. j = 1 \/ j > 1  BY <2>2
    <3>6. j = 1 => q # <<>>  BY <1>2, EmptySeq
    <3>7. Ordered(q) /\ (j = 1 => q[j].what \notin {"cdevs", "keep_mode"})  BY <3>6 DEF Call
    <3> HIDE DEF Asis
    <3> QED  BY <3>1, <3>2, <3>3, <3>4, <3>5, <3>7, SMTT(30) DEF Ordered
  <2> QED  BY <1>5, <2>1, <2>2
<1>7. Switches(r, s)
  <2> SUFFICES ASSUME NEW i \in 1 .. Len(r), r[i].what = "status"  PROVE r[i].value \in s  BY DEF Switches
  <2>1. Switches(p, s) /\ Switches(q, s)  BY DEF Call
  <2> QED  BY <1>3, <1>4, <1>5, <2>1 DEF Switches
<1>8. r # <<>> => r[1].what \notin {"cdevs", "keep_mode"}
  <2> HAVE r # <<>>
  <2>1. CASE p = <<>>
    <3>1. r = q  BY <1>1, <2>1, ConcatEmptySeq DEF r
    <3> QED  BY <3>1 DEF Call
  <2>2. CASE p # <<>>
    <3>1. 1 \in 1 .. Len(p)  BY <1>1, <1>2, <2>2, EmptySeq
    <3> QED  BY <1>4, <2>2, <3>1 DEF Call
  <2> QED  BY <2>1, <2>2
<1>9. \A w \in Steps : Has(p, w) \/ Has(q, w) => Has(r, w)  BY <1>3, <1>4 DEF Has
<1>10. \A z \in 0..2 : Paints(p, z) \/ Paints(q, z) => Paints(r, z)  BY <1>3, <1>4 DEF Paints
<1>11. Call(r, s)  BY <1>2, <1>6, <1>7, <1>8 DEF Call
<1> QED  BY <1>9, <1>10, <1>11 DEF r

\* The step before which a step stands decides over both.
LEMMA StoreCalls ==
  ASSUME NEW z \in 0..2, NEW b \in Nat
  PROVE  /\ Call(brightness_set(z, b), {}) /\ Has(brightness_set(z, b), "cdevs")
         /\ type # "fixed" => Paints(brightness_set(z, b), z)
<1>1. CASE type = "fixed"
  <2> DEFINE q == <<Do("brightness", 0, b), Do("cdevs", 0, b)>>
  <2>1. brightness_set(z, b) = q  BY <1>1 DEF brightness_set, clevo_leds_set_brightness
  <2>2. q \in Seq(LedOps) /\ Len(q) = 2 /\ q[1] = Do("brightness", 0, b) /\ q[2] = Do("cdevs", 0, b)
    BY DEF Do, LedOps, Steps
  <2> HIDE DEF q
  <2>3. 1 .. Len(q) = {1, 2}  BY <2>2
  <2>4. q[1].what = "brightness" /\ q[2].what = "cdevs"  BY <2>2 DEF Do
  <2>5. Ordered(q)  BY <2>2, <2>3, <2>4 DEF Ordered
  <2>6. Switches(q, {}) /\ Has(q, "cdevs")  BY <2>3, <2>4 DEF Switches, Has
  <2> QED  BY <1>1, <2>1, <2>2, <2>4, <2>5, <2>6 DEF Call
<1>2. CASE type # "fixed"
  <2> DEFINE q == <<Do("brightness", z, b), Do("cdevs", z, b), Do("hue", z, 0)>>
  <2>1. brightness_set(z, b) = q  BY <1>2 DEF brightness_set, clevo_leds_set_brightness_mc
  <2>2. /\ q \in Seq(LedOps) /\ Len(q) = 3 /\ q[1] = Do("brightness", z, b) /\ q[2] = Do("cdevs", z, b)
        /\ q[3] = Do("hue", z, 0)
    BY DEF Do, LedOps, Steps
  <2> HIDE DEF q
  <2>3. 1 .. Len(q) = {1, 2, 3}  BY <2>2
  <2>4. q[1].what = "brightness" /\ q[2].what = "cdevs" /\ q[3].what = "hue" /\ q[3].zone = z  BY <2>2 DEF Do
  <2>5. Ordered(q)  BY <2>2, <2>3, <2>4 DEF Ordered
  <2>6. Switches(q, {}) /\ Has(q, "cdevs") /\ Paints(q, z)  BY <2>3, <2>4 DEF Switches, Has, Paints
  <2> QED  BY <1>2, <2>1, <2>2, <2>4, <2>5, <2>6 DEF Call
<1> QED  BY <1>1, <1>2

\* A zone's colour is stored, then its brightness set.
LEMMA ColourCalls ==
  ASSUME NEW z \in 0..2, NEW h \in Nat, type # "fixed"
  PROVE  LET q == <<Do("intensity", z, h)>> \o brightness_set(z, Asis)
         IN  Call(q, {}) /\ Has(q, "cdevs") /\ Paints(q, z)
<1> DEFINE p == <<Do("intensity", z, h)>>
           r == <<Do("brightness", z, Asis), Do("cdevs", z, Asis), Do("hue", z, 0)>>
           q == p \o r
<1>1. <<Do("intensity", z, h)>> \o brightness_set(z, Asis) = q
  BY DEF brightness_set, clevo_leds_set_brightness_mc
<1>2. /\ q \in Seq(LedOps) /\ Len(q) = 4 /\ q[1] = Do("intensity", z, h) /\ q[2] = Do("brightness", z, Asis)
      /\ q[3] = Do("cdevs", z, Asis) /\ q[4] = Do("hue", z, 0)
  <2>1. p \in Seq(LedOps) /\ Len(p) = 1 /\ p[1] = Do("intensity", z, h)  BY DEF Do, LedOps, Steps
  <2>2. /\ r \in Seq(LedOps) /\ Len(r) = 3 /\ r[1] = Do("brightness", z, Asis)
        /\ r[2] = Do("cdevs", z, Asis) /\ r[3] = Do("hue", z, 0)
    BY DEF Do, LedOps, Steps, Asis
  <2> HIDE DEF p, r
  <2>3. /\ q \in Seq(LedOps) /\ Len(q) = Len(p) + Len(r)
        /\ \A i \in 1 .. Len(p) + Len(r) : q[i] = IF i <= Len(p) THEN p[i] ELSE r[i - Len(p)]
    BY <2>1, <2>2, ConcatProperties, Zenon
  <2> HIDE DEF q
  <2>4. q[1] = p[1] /\ q[2] = r[1] /\ q[3] = r[2] /\ q[4] = r[3] /\ Len(q) = 4  BY <2>1, <2>2, <2>3
  <2> QED  BY <2>1, <2>2, <2>3, <2>4
<1> HIDE DEF q
<1>3. 1 .. Len(q) = {1, 2, 3, 4}  BY <1>2
<1>4. /\ q[1].what = "intensity" /\ q[1].zone = z /\ q[2].what = "brightness" /\ q[3].what = "cdevs"
      /\ q[4].what = "hue" /\ q[4].zone = z
  BY <1>2 DEF Do
<1>5. Ordered(q)  BY <1>2, <1>3, <1>4 DEF Ordered
<1>6. Switches(q, {}) /\ Has(q, "cdevs") /\ Paints(q, z)  BY <1>3, <1>4 DEF Switches, Has, Paints
<1> QED  BY <1>1, <1>2, <1>4, <1>5, <1>6 DEF Call

\* The other calls are one or two steps.
LEMMA ShortCalls ==
  /\ \A s \in {0, 1} : /\ Call(clevo_evaluate_set_keyboard_status(s), {s})
                       /\ type # "fixed" => Has(clevo_evaluate_set_keyboard_status(s), "status")
                       /\ \A i \in 1 .. Len(clevo_evaluate_set_keyboard_status(s)) :
                            clevo_evaluate_set_keyboard_status(s)[i].what = "status"
  /\ \A m \in {0, 2} : Call(set_kbd_backlight_mode(m), {}) /\ Has(set_kbd_backlight_mode(m), "keep_mode")
  /\ Call(clevo_leds_notify_brightness_change_extern, {})
  /\ type = "fixed" => Has(clevo_leds_notify_brightness_change_extern, "cdevs")
<1>0. Call(<<>>, {}) /\ Call(<<>>, {0}) /\ Call(<<>>, {1}) /\ Len(<<>>) = 0
  BY EmptySeq DEF Call, Ordered, Switches
<1>1. ASSUME NEW s \in {0, 1}
      PROVE  /\ Call(clevo_evaluate_set_keyboard_status(s), {s})
             /\ type # "fixed" => Has(clevo_evaluate_set_keyboard_status(s), "status")
             /\ \A i \in 1 .. Len(clevo_evaluate_set_keyboard_status(s)) :
                  clevo_evaluate_set_keyboard_status(s)[i].what = "status"
  <2> DEFINE q == <<Do("status", 0, s)>>
  <2>1. q \in Seq(LedOps) /\ Len(q) = 1 /\ q[1] = Do("status", 0, s)  BY DEF Do, LedOps, Steps
  <2> HIDE DEF q
  <2>2. 1 .. Len(q) = {1} /\ q[1].what = "status" /\ q[1].value = s /\ s # Asis  BY <2>1 DEF Do, Asis
  <2>3. Ordered(q)  BY <2>1, <2>2 DEF Ordered
  <2>4. Switches(q, {s}) /\ Has(q, "status") /\ \A i \in 1 .. Len(q) : q[i].what = "status"
    BY <2>2 DEF Switches, Has
  <2>5. Call(q, {s})  BY <2>1, <2>2, <2>3, <2>4 DEF Call
  <2>6. CASE type = "fixed"
    <3>1. clevo_evaluate_set_keyboard_status(s) = <<>>  BY <2>6 DEF clevo_evaluate_set_keyboard_status
    <3>2. Call(<<>>, {s})  BY <1>0, Zenon
    <3>3. \A i \in 1 .. Len(<<>>) : FALSE  BY <1>0
    <3> QED  BY <2>6, <3>1, <3>2, <3>3, Zenon
  <2>7. CASE type # "fixed"
    <3>1. clevo_evaluate_set_keyboard_status(s) = q  BY <2>7 DEF clevo_evaluate_set_keyboard_status, q
    <3> QED  BY <2>4, <2>5, <3>1
  <2> QED  BY <2>6, <2>7
<1>2. ASSUME NEW m \in {0, 2}
      PROVE  Call(set_kbd_backlight_mode(m), {}) /\ Has(set_kbd_backlight_mode(m), "keep_mode")
  <2> DEFINE q == <<Do("mode", 0, m), Do("keep_mode", 0, m)>>
  <2>1. q \in Seq(LedOps) /\ Len(q) = 2 /\ q[1] = Do("mode", 0, m) /\ q[2] = Do("keep_mode", 0, m)
    BY DEF Do, LedOps, Steps
  <2> HIDE DEF q
  <2>2. 1 .. Len(q) = {1, 2} /\ q[1].what = "mode" /\ q[1].value = m /\ m # Asis
    BY <2>1 DEF Do, Asis
  <2>3. q[2].what = "keep_mode" /\ q[2].value = m  BY <2>1 DEF Do
  <2>4. Ordered(q)  BY <2>1, <2>2, <2>3 DEF Ordered
  <2>5. Switches(q, {}) /\ Has(q, "keep_mode")  BY <2>2, <2>3 DEF Switches, Has
  <2>6. set_kbd_backlight_mode(m) = q  BY DEF set_kbd_backlight_mode, q
  <2> QED  BY <2>1, <2>2, <2>4, <2>5, <2>6 DEF Call
<1>3. CASE type # "fixed"
  <2>1. clevo_leds_notify_brightness_change_extern = <<>>
    BY <1>3 DEF clevo_leds_notify_brightness_change_extern
  <2> QED  BY <1>0, <1>1, <1>2, <1>3, <2>1
<1>4. CASE type = "fixed"
  <2> DEFINE q == <<Do("ask", 0, 0), Do("cdevs", 0, 0)>>
  <2>1. q \in Seq(LedOps) /\ Len(q) = 2 /\ q[1] = Do("ask", 0, 0) /\ q[2] = Do("cdevs", 0, 0)
    BY DEF Do, LedOps, Steps
  <2> HIDE DEF q
  <2>2. 1 .. Len(q) = {1, 2} /\ q[1].what = "ask" /\ q[2].what = "cdevs"  BY <2>1 DEF Do
  <2>3. Ordered(q)  BY <2>1, <2>2 DEF Ordered
  <2>4. Switches(q, {}) /\ Has(q, "cdevs")  BY <2>2 DEF Switches, Has
  <2>5. clevo_leds_notify_brightness_change_extern = q
    BY <1>4 DEF clevo_leds_notify_brightness_change_extern, q
  <2>6. Call(q, {})  BY <2>1, <2>2, <2>3, <2>4 DEF Call
  <2> QED  BY <1>1, <1>2, <2>4, <2>5, <2>6
<1> QED  BY <1>3, <1>4

\* A call of fewer switches.
LEMMA CallMore ==
  ASSUME NEW q, NEW s, Call(q, {})
  PROVE  Call(q, s)
BY DEF Call, Switches

\* Setting the colour of the keyboard sets that of every zone, and so does
\* what is done after a sleep; both tell every LED the brightness.
LEMMA ZoneCalls ==
  ASSUME type \in {"fixed", "one", "three"}
  PROVE  /\ \A h \in Nat : LET q == clevo_leds_set_color_extern(h)
                           IN  Call(q, {}) /\ (type # "fixed" => Has(q, "cdevs")
                             /\ \A z \in Zones : Paints(q, z))
         /\ LET q == clevo_leds_restore_state_extern
            IN  Call(q, {}) /\ Has(q, "cdevs") /\ (type # "fixed" => \A z \in Zones : Paints(q, z))
<1>0. Asis \in Nat /\ "cdevs" \in Steps  BY DEF Asis, Steps
<1>1. CASE type = "three"
  <2>1. Zones = {0, 1, 2} /\ 0 \in 0..2 /\ 1 \in 0..2 /\ 2 \in 0..2  BY <1>1 DEF Zones
  <2>2. ASSUME NEW p, NEW q, NEW r, Call(p, {}), Call(q, {}), Call(r, {}), Has(p, "cdevs"),
               Paints(p, 0), Paints(q, 1), Paints(r, 2)
        PROVE  LET all == p \o q \o r IN Call(all, {}) /\ Has(all, "cdevs") /\ \A z \in Zones : Paints(all, z)
    <3> DEFINE pq == p \o q
    <3>1. Call(pq, {}) /\ Has(pq, "cdevs") /\ Paints(pq, 0) /\ Paints(pq, 1)  BY <1>0, <2>1, <2>2, CallsJoin
    <3> HIDE DEF pq
    <3>2. Call(pq \o r, {}) /\ Has(pq \o r, "cdevs") /\ Paints(pq \o r, 0) /\ Paints(pq \o r, 1)
            /\ Paints(pq \o r, 2)
      BY <1>0, <2>1, <2>2, <3>1, CallsJoin
    <3> QED  BY <2>1, <3>2 DEF pq
  <2>3. ASSUME NEW h \in Nat
        PROVE  LET q == clevo_leds_set_color_extern(h)
               IN  Call(q, {}) /\ Has(q, "cdevs") /\ \A z \in Zones : Paints(q, z)
    <3> DEFINE F(z) == <<Do("intensity", z, h)>> \o brightness_set(z, Asis)
    <3>1. \A z \in 0..2 : Call(F(z), {}) /\ Has(F(z), "cdevs") /\ Paints(F(z), z)  BY <1>1, ColourCalls
    <3>2. clevo_leds_set_color_extern(h) = F(0) \o F(1) \o F(2)
      BY <1>1 DEF clevo_leds_set_color_extern, AllZones
    <3> HIDE DEF F
    <3> QED  BY <2>1, <2>2, <3>1, <3>2
  <2>4. LET q == clevo_leds_restore_state_extern
        IN  Call(q, {}) /\ Has(q, "cdevs") /\ \A z \in Zones : Paints(q, z)
    <3> DEFINE F(z) == brightness_set(z, Asis)
    <3>1. \A z \in 0..2 : Call(F(z), {}) /\ Has(F(z), "cdevs") /\ Paints(F(z), z)  BY <1>0, <1>1, StoreCalls
    <3>2. clevo_leds_restore_state_extern = F(0) \o F(1) \o F(2)
      BY <1>1 DEF clevo_leds_restore_state_extern, AllZones
    <3> HIDE DEF F
    <3> QED  BY <2>1, <2>2, <3>1, <3>2
  <2> QED  BY <2>3, <2>4
<1>2. CASE type = "one"
  <2>1. Zones = {0} /\ 0 \in 0..2  BY <1>2 DEF Zones
  <2>2. ASSUME NEW h \in Nat
        PROVE  LET q == clevo_leds_set_color_extern(h)
               IN  Call(q, {}) /\ Has(q, "cdevs") /\ \A z \in Zones : Paints(q, z)
    <3>1. clevo_leds_set_color_extern(h) = <<Do("intensity", 0, h)>> \o brightness_set(0, Asis)
      BY <1>2 DEF clevo_leds_set_color_extern, AllZones
    <3> QED  BY <1>2, <2>1, <3>1, ColourCalls
  <2>3. LET q == clevo_leds_restore_state_extern
        IN  Call(q, {}) /\ Has(q, "cdevs") /\ \A z \in Zones : Paints(q, z)
    <3>1. clevo_leds_restore_state_extern = brightness_set(0, Asis)
      BY <1>2 DEF clevo_leds_restore_state_extern, AllZones
    <3> QED  BY <1>0, <1>2, <2>1, <3>1, StoreCalls
  <2> QED  BY <2>2, <2>3
<1>3. CASE type = "fixed"
  <2>1. \A h \in Nat : Call(clevo_leds_set_color_extern(h), {})
    <3>1. Call(<<>>, {})  BY EmptySeq DEF Call, Ordered, Switches
    <3> QED  BY <1>3, <3>1 DEF clevo_leds_set_color_extern
  <2>2. LET q == clevo_leds_restore_state_extern IN Call(q, {}) /\ Has(q, "cdevs")
    <3>1. clevo_leds_restore_state_extern = brightness_set(0, Asis)
      BY <1>3 DEF clevo_leds_restore_state_extern, AllZones
    <3>2. 0 \in 0..2  OBVIOUS
    <3> QED  BY <1>0, <3>1, <3>2, StoreCalls
  <2> QED  BY <1>3, <2>1, <2>2
<1> QED  BY <1>1, <1>2, <1>3

CallThreads == LedThreads \ {PmThread}

\* What probe and resume do, beside the mode.
LEMMA WakingCalls ==
  ASSUME type \in {"fixed", "one", "three"}
  PROVE  \A q \in {clevo_keyboard_probe,
                   clevo_leds_restore_state_extern \o clevo_evaluate_set_keyboard_status(1)} :
           /\ Call(q, {1}) /\ Has(q, "cdevs")
           /\ type # "fixed" => Has(q, "status") /\ \A z \in Zones : Paints(q, z)
<1> DEFINE s == clevo_evaluate_set_keyboard_status(1)
           m == set_kbd_backlight_mode(0)
           first == IF type = "fixed" THEN brightness_set(0, Asis) ELSE clevo_leds_set_color_extern(1)
           again == clevo_leds_restore_state_extern
<1>1. Call(s, {1}) /\ (type # "fixed" => Has(s, "status"))  BY ShortCalls
<1>2. Call(m, {})  BY ShortCalls
<1>3. Call(again, {}) /\ Has(again, "cdevs") /\ (type # "fixed" => \A z \in Zones : Paints(again, z))
  BY ZoneCalls, Zenon
<1>4. Call(first, {}) /\ Has(first, "cdevs") /\ (type # "fixed" => \A z \in Zones : Paints(first, z))
  <2>1. Asis \in Nat /\ 0 \in 0..2 /\ 1 \in Nat  BY DEF Asis
  <2>2. CASE type = "fixed"  BY <2>1, <2>2, StoreCalls, Zenon
  <2>3. CASE type # "fixed"  BY <2>1, <2>3, ZoneCalls, Zenon
  <2> QED  BY <2>2, <2>3
<1>5. /\ clevo_keyboard_probe = (first \o s) \o m
      /\ clevo_leds_restore_state_extern \o clevo_evaluate_set_keyboard_status(1) = again \o s
  BY Zenon DEF clevo_keyboard_probe
<1>6. {"cdevs", "status"} \subseteq Steps /\ \A z \in Zones : z \in 0..2  BY DEF Steps, Zones
<1> HIDE DEF s, m, first, again
<1>7. Call(m, {1}) /\ Call(first, {1}) /\ Call(again, {1})  BY <1>2, <1>3, <1>4, CallMore
<1>8. ASSUME NEW f \in {first, again}
      PROVE  /\ Call(f \o s, {1}) /\ Has(f \o s, "cdevs")
             /\ type # "fixed" => Has(f \o s, "status") /\ \A z \in Zones : Paints(f \o s, z)
  <2>1. Call(f, {1}) /\ Has(f, "cdevs") /\ (type # "fixed" => \A z \in Zones : Paints(f, z))
    BY <1>3, <1>4, <1>7
  <2> QED  BY <1>1, <1>6, <2>1, CallsJoin
<1>9. PICK fs : fs = first \o s  OBVIOUS
<1>10. /\ Call(fs, {1}) /\ Has(fs, "cdevs")
       /\ type # "fixed" => Has(fs, "status") /\ \A z \in Zones : Paints(fs, z)
  BY <1>8, <1>9
<1>11. /\ Call(fs \o m, {1}) /\ Has(fs \o m, "cdevs")
       /\ type # "fixed" => Has(fs \o m, "status") /\ \A z \in Zones : Paints(fs \o m, z)
  BY <1>6, <1>7, <1>10, CallsJoin
<1> QED  BY <1>5, <1>8, <1>9, <1>11

Lit == [brightness : Nat, hue : [0..2 -> Nat], on : Nat, mode : Nat]

LedTypes ==
    /\ type \in {"fixed", "one", "three"}
    /\ power \in {"off", "on", "falling asleep", "asleep", "waking up"}
    /\ lit \in Lit
    /\ brightness \in [0..2 -> Nat] /\ intensity \in [0..2 -> Nat] /\ mode \in Nat
    /\ doing \in [LedThreads -> Seq(LedOps)] /\ level \in [LedThreads -> Nat]
    /\ crossed \in BOOLEAN /\ mode_lost \in BOOLEAN

\* Probe, suspend and resume work only on the way from one state to another,
\* and programs are frozen then.
PowerInv ==
    /\ power \in {"off", "on", "asleep"} => ~AtWork(PmThread)
    /\ power # "on" => \A d \in Desktops : ~AtWork(d)

Switching(t) == IF t # PmThread THEN {} ELSE IF power = "waking up" THEN {1} ELSE {0}

\* As long as no calls overlap, only switching the backlight off goes
\* together with a call.
TurnsInv == ~crossed =>
    /\ \A t, u \in CallThreads : AtWork(t) /\ AtWork(u) => t = u
    /\ power \in {"off", "waking up"} => ~AtWork(KeyThread)
    /\ power = "falling asleep" => \A i \in 1 .. Len(doing[PmThread]) : doing[PmThread][i].what = "status"
    /\ \A t \in LedThreads : Ordered(doing[t]) /\ Switches(doing[t], Switching(t))

\* What a thread keeps for its next step is what the firmware has.
LevelInv == ~crossed => \A t \in LedThreads : AtWork(t) =>
    /\ doing[t][1].what = "cdevs" => level[t] = lit.brightness
    /\ doing[t][1].what = "keep_mode" => lit.mode = doing[t][1].value

Pending(what) == \E t \in LedThreads : Has(doing[t], what)

\* What the LEDs tell is shown, or the step that makes it so is still to come.
PendingInv == ~crossed =>
    /\ power # "off" => (\A z \in Zones : lit.brightness = brightness[z]) \/ Pending("cdevs")
    /\ power # "off" /\ type # "fixed" =>
         \A z \in Zones : lit.hue[z] = Shade(intensity[z]) \/ \E t \in LedThreads : Paints(doing[t], z)
    /\ power # "off" /\ type # "fixed" =>
         lit.on = (IF power \in {"on", "waking up"} THEN 1 ELSE 0) \/ Has(doing[PmThread], "status")
    /\ mode_lost \/ lit.mode = mode \/ Pending("keep_mode")

LedInv == LedTypes /\ PowerInv /\ TurnsInv /\ LevelInv /\ PendingInv

\* At the start nobody is at work.
LEMMA LedInit == ClevoLedsInit => LedInv
<1> SUFFICES ASSUME ClevoLedsInit  PROVE LedInv  OBVIOUS
<1>1. <<>> \in Seq(LedOps) /\ Len(<<>>) = 0  BY EmptySeq
<1>2. PmThread \in LedThreads /\ KeyThread \in LedThreads /\ Desktops \subseteq LedThreads  BY DEF LedThreads
<1>3. \A t \in LedThreads : doing[t] = <<>>  BY DEF ClevoLedsInit
<1>4. LedTypes
  <2>1. lit \in Lit  BY DEF ClevoLedsInit, Lit
  <2> QED  BY <1>1, <2>1 DEF ClevoLedsInit, LedTypes
<1>5. PowerInv  BY <1>2, <1>3 DEF PowerInv, AtWork
<1>6. TurnsInv
  <2>1. \A s : Ordered(<<>>) /\ Switches(<<>>, s)  BY <1>1 DEF Ordered, Switches
  <2>2. \A t \in LedThreads : ~AtWork(t)  BY <1>3 DEF AtWork
  <2>3. \A t \in CallThreads : t \in LedThreads  BY DEF CallThreads
  <2>4. power = "off"  BY DEF ClevoLedsInit
  <2> QED  BY <1>2, <1>3, <2>1, <2>2, <2>3, <2>4 DEF TurnsInv
<1>7. LevelInv  BY <1>3 DEF LevelInv, AtWork
<1>8. PendingInv
  <2>1. power = "off" /\ lit.mode = mode  BY DEF ClevoLedsInit
  <2> QED  BY <2>1 DEF PendingInv
<1> QED  BY <1>4, <1>5, <1>6, <1>7, <1>8 DEF LedInv

\* When a step is due that is no switching, nobody else is at work, except
\* for switching.
LEMMA OneAtATime ==
  ASSUME LedInv, ~crossed, NEW t \in LedThreads, NEW u \in LedThreads \ {t}, AtWork(t), AtWork(u)
  PROVE  doing[t][1].what = "status" \/ doing[u][1].what = "status"
<1>1. doing[t] \in Seq(LedOps) /\ doing[u] \in Seq(LedOps)  BY DEF LedInv, LedTypes
<1>2. 1 \in 1 .. Len(doing[t]) /\ 1 \in 1 .. Len(doing[u])  BY <1>1, EmptySeq DEF AtWork
<1>3. PICK w \in {t, u} : w = PmThread  BY DEF LedInv, TurnsInv, CallThreads
<1>4. power \in {"falling asleep", "waking up"}  BY <1>3 DEF LedInv, PowerInv, LedTypes
<1>5. PICK v \in {t, u} : v # PmThread  OBVIOUS
<1>6. v = KeyThread  BY <1>4, <1>5 DEF LedInv, PowerInv, LedThreads
<1>7. power = "falling asleep"  BY <1>4, <1>6 DEF LedInv, TurnsInv
<1> QED  BY <1>2, <1>3, <1>7 DEF LedInv, TurnsInv

\* A call begins, by a program or for a key: what it will show is in its steps.
LEMMA CallsKeep ==
  ASSUME LedInv, NEW t \in CallThreads, NEW ops, LedCall(t, ops), Call(ops, {}),
         lit' \in Lit, brightness' \in [0..2 -> Nat], intensity' \in [0..2 -> Nat],
         lit'.hue = lit.hue, lit'.on = lit.on, lit'.mode = lit.mode,
         (lit'.brightness = lit.brightness /\ brightness' = brightness) \/ Has(ops, "cdevs"),
         type # "fixed" => \A z \in Zones : intensity'[z] = intensity[z] \/ Paints(ops, z)
  PROVE  LedInv'
<1>0. /\ power = "on" /\ doing[t] = <<>> /\ doing' = [doing EXCEPT ![t] = ops]
      /\ crossed' = (crossed \/ Others(t))
      /\ UNCHANGED <<type, mode, power, level, mode_lost>>
      /\ t \in LedThreads /\ t # PmThread
  BY DEF LedCall, AtWork, CallThreads
<1>1. /\ doing' \in [LedThreads -> Seq(LedOps)] /\ doing'[t] = ops
      /\ \A u \in LedThreads \ {t} : doing'[u] = doing[u]
  BY <1>0 DEF LedInv, LedTypes, Call
<1>2. LedTypes'
  <2>1. crossed' \in BOOLEAN  BY <1>0 DEF LedInv, LedTypes, Others
  <2> QED  BY <1>0, <1>1, <2>1 DEF LedInv, LedTypes
<1>3. PowerInv'
  <2>1. PmThread \in LedThreads \ {t}  BY <1>0 DEF LedThreads
  <2> QED  BY <1>0, <1>1, <2>1 DEF LedInv, PowerInv, AtWork
<1>4. ~crossed' => ~crossed /\ \A u \in LedThreads \ {t} : doing[u] = <<>> /\ doing'[u] = <<>>
  BY <1>0, <1>1 DEF Others, AtWork, LedInv, LedTypes
<1>5. TurnsInv'
  <2> SUFFICES ASSUME ~crossed'
               PROVE  /\ \A v, u \in CallThreads : AtWork(v)' /\ AtWork(u)' => v = u
                      /\ \A u \in LedThreads : Ordered(doing'[u]) /\ Switches(doing'[u], Switching(u))
    BY <1>0 DEF TurnsInv, Switching
  <2>1. \A v, u \in CallThreads : AtWork(v)' /\ AtWork(u)' => v = u  BY <1>4 DEF CallThreads, AtWork
  <2>2. ASSUME NEW u \in LedThreads  PROVE Ordered(doing'[u]) /\ Switches(doing'[u], Switching(u))
    <3>1. CASE u = t  BY <1>0, <1>1, <3>1 DEF Call, Switching
    <3>2. CASE u # t
      <4>1. Ordered(doing[u]) /\ Switches(doing[u], Switching(u))  BY <1>4 DEF LedInv, TurnsInv
      <4> QED  BY <1>1, <3>2, <4>1
    <3> QED  BY <3>1, <3>2
  <2> QED  BY <2>1, <2>2
<1>6. LevelInv'
  <2> SUFFICES ASSUME ~crossed', NEW u \in LedThreads, AtWork(u)'
               PROVE  doing'[u][1].what \notin {"cdevs", "keep_mode"}
    BY DEF LevelInv
  <2>1. u = t  BY <1>4 DEF AtWork
  <2> QED  BY <1>1, <2>1 DEF Call, AtWork
<1>7. PendingInv'
  <2> SUFFICES ASSUME ~crossed'
               PROVE  /\ (\A z \in Zones : lit'.brightness = brightness'[z]) \/ Pending("cdevs")'
                      /\ type # "fixed" =>
                           \A z \in Zones : \/ lit'.hue[z] = Shade(intensity'[z])
                                            \/ \E u \in LedThreads : Paints(doing'[u], z)
                      /\ type # "fixed" => lit'.on = 1
                      /\ mode_lost \/ lit'.mode = mode
    <3>1. Zones' = Zones  BY <1>0 DEF Zones
    <3> QED  BY <1>0, <3>1 DEF PendingInv, Shade
  <2>1. \A u \in LedThreads : (\A w : ~Has(doing[u], w)) /\ \A z : ~Paints(doing[u], z)
    <3>1. \A u \in LedThreads : doing[u] = <<>>  BY <1>0, <1>4
    <3>2. Len(<<>>) = 0  BY EmptySeq
    <3>3. \A u \in LedThreads : \A i \in 1 .. Len(doing[u]) : FALSE  BY <3>1, <3>2
    <3> QED  BY <3>3 DEF Has, Paints
  <2>2. ~crossed  BY <1>4
  <2>3. (\A z \in Zones : lit'.brightness = brightness'[z]) \/ Pending("cdevs")'
    <3>1. CASE Has(ops, "cdevs")  BY <1>0, <1>1, <3>1 DEF Pending
    <3>2. CASE lit'.brightness = lit.brightness /\ brightness' = brightness
      BY <1>0, <2>1, <2>2, <3>2 DEF LedInv, PendingInv, Pending
    <3> QED  BY <3>1, <3>2
  <2>4. ASSUME type # "fixed", NEW z \in Zones
        PROVE  lit'.hue[z] = Shade(intensity'[z]) \/ \E u \in LedThreads : Paints(doing'[u], z)
    <3>1. CASE Paints(ops, z)  BY <1>0, <1>1, <3>1
    <3>2. CASE intensity'[z] = intensity[z]
      <4>1. lit.hue[z] = Shade(intensity[z])  BY <1>0, <2>1, <2>2, <2>4 DEF LedInv, PendingInv
      <4> QED  BY <1>0, <3>2, <4>1 DEF Shade
    <3> QED  BY <2>4, <3>1, <3>2
  <2>5. type # "fixed" => lit'.on = 1
    <3>1. PmThread \in LedThreads  BY DEF LedThreads
    <3> QED  BY <1>0, <2>1, <2>2, <3>1 DEF LedInv, PendingInv
  <2>6. mode_lost \/ lit'.mode = mode  BY <2>1, <2>2 DEF LedInv, PendingInv, Pending
  <2> QED  BY <2>3, <2>4, <2>5, <2>6
<1> QED  BY <1>2, <1>3, <1>5, <1>6, <1>7 DEF LedInv

\* What programs and keys do.
LEMMA CallersKeep ==
  ASSUME LedInv,
         \/ \E d \in Desktops : \/ \E z \in Zones : \/ \E b \in Brightness : StoreBrightness(d, z, b)
                                                    \/ \E h \in Hues : StoreIntensity(d, z, h)
                                \/ StoreMode(d)
         \/ CycleColour \/ CycleBrightness
  PROVE  LedInv'
<1>0. /\ Desktops \subseteq CallThreads /\ KeyThread \in CallThreads /\ Brightness \subseteq Nat
           /\ Hues \subseteq Nat
      /\ \A z \in Zones : z \in 0..2
      /\ type \in {"fixed", "one", "three"} /\ lit \in Lit
      /\ brightness \in [0..2 -> Nat] /\ intensity \in [0..2 -> Nat]
  <2>1. Desktops \subseteq CallThreads /\ KeyThread \in CallThreads
    BY ClevoLedsAssumption DEF CallThreads, LedThreads
  <2>2. Brightness \subseteq Nat /\ Hues \subseteq Nat  BY ClevoLedsAssumption
  <2>3. \A z \in Zones : z \in 0..2  BY DEF Zones
  <2> QED  BY <2>1, <2>2, <2>3 DEF LedInv, LedTypes
<1>1. ASSUME NEW d \in Desktops, NEW z \in Zones, NEW b \in Brightness, StoreBrightness(d, z, b)
      PROVE  LedInv'
  <2> DEFINE ops == brightness_set(z, b)
  <2>1. Call(ops, {}) /\ Has(ops, "cdevs")  BY <1>0, StoreCalls
  <2> HIDE DEF ops
  <2>2. /\ LedCall(d, ops) /\ brightness' = [brightness EXCEPT ![z] = b] /\ UNCHANGED <<lit, intensity>>
    BY <1>1 DEF StoreBrightness, ops
  <2>3. brightness' \in [0..2 -> Nat]  BY <1>0, <2>2
  <2> QED  BY <1>0, <2>1, <2>2, <2>3, CallsKeep
<1>2. ASSUME NEW d \in Desktops, NEW z \in Zones, NEW h \in Hues, StoreIntensity(d, z, h)
      PROVE  LedInv'
  <2> DEFINE ops == brightness_set(z, brightness[z])
  <2>1. Call(ops, {}) /\ Has(ops, "cdevs") /\ (type # "fixed" => Paints(ops, z))
    <3>1. brightness[z] \in Nat  BY <1>0
    <3> QED  BY <1>0, <3>1, StoreCalls
  <2> HIDE DEF ops
  <2>2. /\ LedCall(d, ops) /\ intensity' = [intensity EXCEPT ![z] = h] /\ UNCHANGED <<lit, brightness>>
    BY <1>2 DEF StoreIntensity, ops
  <2>3. intensity' \in [0..2 -> Nat] /\ \A y \in Zones : intensity'[y] = intensity[y] \/ y = z  BY <1>0, <2>2
  <2> QED  BY <1>0, <2>1, <2>2, <2>3, CallsKeep
<1>3. ASSUME NEW d \in Desktops, StoreMode(d)  PROVE LedInv'
  <2>1. PICK m \in {0, 2} : LedCall(d, set_kbd_backlight_mode(m))  BY <1>3 DEF StoreMode
  <2>2. Call(set_kbd_backlight_mode(m), {})  BY ShortCalls
  <2>3. UNCHANGED <<lit, brightness, intensity>>  BY <1>3 DEF StoreMode
  <2> QED  BY <1>0, <2>1, <2>2, <2>3, CallsKeep
<1>4. ASSUME CycleColour  PROVE LedInv'
  <2> DEFINE ops == clevo_leds_set_color_extern(new_color_id(intensity[0]))
  <2>1. new_color_id(intensity[0]) \in Nat  BY <1>0 DEF new_color_id
  <2>2. Call(ops, {})  BY <1>0, <2>1, ZoneCalls
  <2> HIDE DEF ops
  <2>3. LedCall(KeyThread, ops) /\ UNCHANGED <<lit, brightness, intensity>>  BY <1>4 DEF CycleColour, ops
  <2> QED  BY <1>0, <2>2, <2>3, CallsKeep
<1>5. ASSUME CycleBrightness  PROVE LedInv'
  <2> DEFINE ops == clevo_leds_notify_brightness_change_extern
  <2>1. type = "fixed" /\ LedCall(KeyThread, ops) /\ UNCHANGED <<brightness, intensity>>
    BY <1>5 DEF CycleBrightness
  <2>2. Call(ops, {}) /\ Has(ops, "cdevs")  BY <2>1, ShortCalls
  <2>3. PICK b \in Brightness : lit' = [lit EXCEPT !.brightness = b]  BY <1>5 DEF CycleBrightness
  <2>4. lit' \in Lit /\ lit'.hue = lit.hue /\ lit'.on = lit.on /\ lit'.mode = lit.mode
    BY <1>0, <2>3 DEF Lit
  <2> HIDE DEF ops
  <2> QED  BY <1>0, <2>1, <2>2, <2>4, CallsKeep
<1> QED  BY <1>1, <1>2, <1>3, <1>4, <1>5

\* A call that is over has no steps.
LEMMA NoSteps == \A i \in 1 .. Len(<<>>) : FALSE
<1>1. Len(<<>>) = 0  BY EmptySeq
<1>2. \A i \in 1 .. 0 : FALSE  OBVIOUS
<1> QED  BY <1>1, <1>2, Zenon

\* Probe, suspend and resume begin.
LEMMA BeginsKeep ==
  ASSUME LedInv, NEW from, NEW to, NEW ops, Begins(from, to, ops),
         \/ from = "off" /\ to = "waking up"
         \/ from = "on" /\ to = "falling asleep" /\ \A d \in Desktops : ~AtWork(d)
         \/ from = "asleep" /\ to = "waking up",
         Call(ops, IF to = "waking up" THEN {1} ELSE {0}),
         crossed' \in BOOLEAN, mode_lost' \in BOOLEAN, lit' \in Lit,
         from = "asleep" => crossed' = AtWork(KeyThread),
         from # "asleep" => crossed' = crossed /\ mode_lost' = mode_lost,
         to = "falling asleep" => \A i \in 1 .. Len(ops) : ops[i].what = "status",
         to = "falling asleep" => lit' = lit,
         to = "waking up" => Has(ops, "cdevs") /\ (type # "fixed" => \A z \in Zones : Paints(ops, z)),
         type # "fixed" => Has(ops, "status"),
         ~mode_lost' => lit'.mode = lit.mode /\ ~mode_lost /\ (crossed => crossed')
  PROVE  LedInv'
<1>0. /\ power = from /\ power' = to /\ doing[PmThread] = <<>> /\ doing' = [doing EXCEPT ![PmThread] = ops]
      /\ UNCHANGED <<type, brightness, intensity, mode, level>>
      /\ PmThread \in LedThreads
  BY DEF Begins, AtWork, LedThreads
<1>1. /\ doing' \in [LedThreads -> Seq(LedOps)] /\ doing'[PmThread] = ops
      /\ \A u \in LedThreads \ {PmThread} : doing'[u] = doing[u]
  BY <1>0 DEF LedInv, LedTypes, Call
<1>2. LedTypes'  BY <1>0, <1>1 DEF LedInv, LedTypes
<1>3. \A d \in Desktops : d \in LedThreads /\ d # PmThread /\ doing[d] = <<>> /\ doing'[d] = <<>>
  <2>1. \A d \in Desktops : d \in LedThreads /\ d # PmThread  BY ClevoLedsAssumption DEF LedThreads
  <2> QED  BY <1>0, <1>1, <2>1 DEF LedInv, PowerInv, AtWork
<1>4. PowerInv'  BY <1>0, <1>3 DEF PowerInv, AtWork
<1>5. KeyThread \in LedThreads /\ KeyThread # PmThread /\ doing'[KeyThread] = doing[KeyThread]
  BY <1>1, ClevoLedsAssumption DEF LedThreads
<1>6. \A t \in CallThreads : t = KeyThread \/ t \in Desktops  BY DEF CallThreads, LedThreads
<1>7. ~crossed' => /\ to = "waking up" => doing[KeyThread] = <<>>
                   /\ from # "asleep" => ~crossed
  BY <1>0 DEF LedInv, TurnsInv, AtWork
<1>8. ASSUME ~crossed', NEW t \in CallThreads, doing[t] # <<>>
      PROVE  t = KeyThread /\ to = "falling asleep" /\ ~crossed
  BY <1>3, <1>6, <1>7, <1>8
<1>9. \A t \in CallThreads : t \in LedThreads /\ t # PmThread /\ doing'[t] = doing[t]  BY <1>1 DEF CallThreads
<1>10. \A t \in LedThreads : t = PmThread \/ t \in CallThreads  BY DEF CallThreads
<1>11. \A s : Ordered(<<>>) /\ Switches(<<>>, s)
  <2> QED  BY NoSteps, Zenon DEF Ordered, Switches
<1>15. \A i \in 1 .. Len(doing[PmThread]) : FALSE
  <2> QED  BY <1>0, NoSteps, Zenon
<1>12. TurnsInv'
  <2> SUFFICES ASSUME ~crossed'
               PROVE  /\ \A t, u \in CallThreads : doing'[t] # <<>> /\ doing'[u] # <<>> => t = u
                      /\ to = "waking up" => doing'[KeyThread] = <<>>
                      /\ to = "falling asleep" => \A i \in 1 .. Len(ops) : ops[i].what = "status"
                      /\ \A t \in LedThreads : Ordered(doing'[t]) /\ Switches(doing'[t], Switching(t)')
    BY <1>0, <1>1 DEF TurnsInv, AtWork
  <2>1. \A t, u \in CallThreads : doing'[t] # <<>> /\ doing'[u] # <<>> => t = u  BY <1>8, <1>9
  <2>2. to = "waking up" => doing'[KeyThread] = <<>>  BY <1>5, <1>7
  <2>3. ASSUME NEW t \in CallThreads  PROVE Ordered(doing'[t]) /\ Switches(doing'[t], {})
    <3>1. CASE doing[t] = <<>>  BY <1>9, <1>11, <3>1
    <3>2. CASE doing[t] # <<>>  BY <1>8, <1>9, <3>2 DEF LedInv, TurnsInv, Switching
    <3> QED  BY <3>1, <3>2
  <2>4. Ordered(ops) /\ Switches(ops, IF to = "waking up" THEN {1} ELSE {0})  BY DEF Call
  <2> QED  BY <1>0, <1>1, <1>9, <1>10, <2>1, <2>2, <2>3, <2>4 DEF Switching
<1>13. LevelInv'
  <2> SUFFICES ASSUME ~crossed', NEW t \in LedThreads, doing'[t] # <<>>
               PROVE  /\ doing'[t][1].what = "cdevs" => level[t] = lit'.brightness
                      /\ doing'[t][1].what = "keep_mode" => lit'.mode = doing'[t][1].value
    BY <1>0 DEF LevelInv, AtWork
  <2>1. CASE t = PmThread  BY <1>1, <2>1 DEF Call
  <2>2. CASE t # PmThread
    <3>1. t = KeyThread /\ to = "falling asleep" /\ ~crossed /\ doing'[t] = doing[t]
      BY <1>8, <1>9, <1>10, <2>2
    <3> QED  BY <3>1 DEF LedInv, LevelInv, AtWork
  <2> QED  BY <2>1, <2>2
<1>14. PendingInv'
  <2> SUFFICES ASSUME ~crossed'
               PROVE  /\ (\A z \in Zones : lit'.brightness = brightness[z])
                           \/ \E t \in LedThreads : Has(doing'[t], "cdevs")
                      /\ type # "fixed" =>
                           \A z \in Zones : \/ lit'.hue[z] = Shade(intensity[z])
                                            \/ \E t \in LedThreads : Paints(doing'[t], z)
                      /\ type # "fixed" => Has(ops, "status")
                      /\ mode_lost' \/ lit'.mode = mode \/ \E t \in LedThreads : Has(doing'[t], "keep_mode")
    <3>1. Zones' = Zones  BY <1>0 DEF Zones
    <3> QED  BY <1>0, <1>1, <3>1 DEF PendingInv, Pending, Shade
  <2>1. \A t \in LedThreads, w \in Steps : Has(doing[t], w) => Has(doing'[t], w)
    <3> QED  BY <1>9, <1>10, <1>15 DEF Has
  <2>2. \A t \in LedThreads : \A z : Paints(doing[t], z) => Paints(doing'[t], z)
    <3> QED  BY <1>9, <1>10, <1>15 DEF Paints
  <2>3. {"cdevs", "keep_mode"} \subseteq Steps  BY DEF Steps
  <2>4. (\A z \in Zones : lit'.brightness = brightness[z]) \/ \E t \in LedThreads : Has(doing'[t], "cdevs")
    <3>1. CASE to = "waking up"  BY <1>0, <1>1, <3>1
    <3>2. CASE to = "falling asleep"
      <4>1. ~crossed /\ power # "off" /\ lit' = lit  BY <1>0, <1>7, <3>2
      <4> QED  BY <2>1, <2>3, <4>1 DEF LedInv, PendingInv, Pending
    <3> QED  BY <3>1, <3>2
  <2>5. ASSUME type # "fixed", NEW z \in Zones
        PROVE  lit'.hue[z] = Shade(intensity[z]) \/ \E t \in LedThreads : Paints(doing'[t], z)
    <3>1. CASE to = "waking up"  BY <1>0, <1>1, <2>5, <3>1
    <3>2. CASE to = "falling asleep"
      <4>1. ~crossed /\ power # "off" /\ lit' = lit  BY <1>0, <1>7, <3>2
      <4> QED  BY <2>2, <2>5, <4>1 DEF LedInv, PendingInv
    <3> QED  BY <3>1, <3>2
  <2>6. mode_lost' \/ lit'.mode = mode \/ \E t \in LedThreads : Has(doing'[t], "keep_mode")
    <3> SUFFICES ASSUME ~mode_lost'  PROVE lit'.mode = mode
                          \/ \E t \in LedThreads : Has(doing'[t], "keep_mode")
      OBVIOUS
    <3>1. lit'.mode = lit.mode /\ ~mode_lost /\ ~crossed  OBVIOUS
    <3> QED  BY <2>1, <2>3, <3>1 DEF LedInv, PendingInv, Pending
  <2> QED  BY <2>4, <2>5, <2>6
<1> QED  BY <1>2, <1>4, <1>12, <1>13, <1>14 DEF LedInv

\* Probe, suspend and resume, from their beginning to their end.
LEMMA NightsKeep ==
  ASSUME LedInv, Probe \/ Suspend \/ Resume \/ Over
  PROVE  LedInv'
<1>0. /\ type \in {"fixed", "one", "three"} /\ crossed \in BOOLEAN /\ mode_lost \in BOOLEAN /\ lit \in Lit
      /\ \A t \in LedThreads : AtWork(t) \in BOOLEAN
  BY DEF LedInv, LedTypes, AtWork
<1>1. ASSUME Probe  PROVE LedInv'
  <2>1. /\ Call(clevo_keyboard_probe, {1}) /\ Has(clevo_keyboard_probe, "cdevs")
        /\ type # "fixed" => Has(clevo_keyboard_probe, "status")
             /\ \A z \in Zones : Paints(clevo_keyboard_probe, z)
    BY <1>0, WakingCalls
  <2>2. Begins("off", "waking up", clevo_keyboard_probe) /\ lit' = lit /\ crossed' = crossed
          /\ mode_lost' = mode_lost
    BY <1>1 DEF Probe
  <2> DEFINE ops == clevo_keyboard_probe
  <2> HIDE DEF ops
  <2> QED  BY <1>0, <2>1, <2>2, BeginsKeep DEF ops
<1>2. ASSUME Suspend  PROVE LedInv'
  <2> DEFINE ops == clevo_evaluate_set_keyboard_status(0)
  <2>1. /\ Call(ops, {0}) /\ (type # "fixed" => Has(ops, "status"))
        /\ \A i \in 1 .. Len(ops) : ops[i].what = "status"
    BY ShortCalls
  <2> HIDE DEF ops
  <2>2. /\ Begins("on", "falling asleep", ops) /\ \A d \in Desktops : ~AtWork(d)
        /\ lit' = lit /\ crossed' = crossed /\ mode_lost' = mode_lost
    BY <1>2 DEF Suspend, ops
  <2> QED  BY <1>0, <2>1, <2>2, BeginsKeep
<1>3. ASSUME Resume  PROVE LedInv'
  <2> DEFINE ops == clevo_leds_restore_state_extern \o clevo_evaluate_set_keyboard_status(1)
  <2>1. /\ Call(ops, {1}) /\ Has(ops, "cdevs")
        /\ type # "fixed" => Has(ops, "status") /\ \A z \in Zones : Paints(ops, z)
    BY <1>0, WakingCalls
  <2> HIDE DEF ops
  <2>2. Begins("asleep", "waking up", ops) /\ crossed' = AtWork(KeyThread)
    BY <1>3 DEF Resume, ops
  <2>3. /\ lit' \in Lit /\ mode_lost' \in BOOLEAN
        /\ ~mode_lost' => lit'.mode = lit.mode /\ ~mode_lost /\ ~crossed
    <3>1. CASE lit' = lit /\ mode_lost' = (mode_lost \/ crossed)  BY <1>0, <3>1
    <3>2. CASE /\ lit' = [brightness |-> 0, hue |-> [z \in 0..2 |-> 0], on |-> 0, mode |-> 0]
               /\ mode_lost' = TRUE
      BY <3>2 DEF Lit
    <3> QED  BY <1>3, <3>1, <3>2 DEF Resume
  <2>4. crossed' \in BOOLEAN  BY <2>2 DEF AtWork
  <2> QED  BY <1>0, <2>1, <2>2, <2>3, <2>4, BeginsKeep
<1>4. ASSUME Over  PROVE LedInv'
  <2>0. /\ power \in {"falling asleep", "waking up"}
        /\ power' = (IF power = "waking up" THEN "on" ELSE "asleep") /\ doing[PmThread] = <<>>
        /\ UNCHANGED <<type, lit, brightness, intensity, mode, doing, level, crossed, mode_lost>>
    BY <1>4 DEF Over, Reached, AtWork
  <2>1. LedTypes' /\ PowerInv'  BY <2>0 DEF LedInv, LedTypes, PowerInv, AtWork
  <2>2. \A i \in 1 .. Len(doing[PmThread]) : FALSE
    <3> QED  BY <2>0, NoSteps, Zenon
  <2>3. TurnsInv'
    <3> SUFFICES ASSUME ~crossed
                 PROVE  /\ \A t, u \in CallThreads : AtWork(t) /\ AtWork(u) => t = u
                        /\ \A t \in LedThreads : Ordered(doing[t]) /\ Switches(doing[t], Switching(t)')
      BY <2>0 DEF TurnsInv, AtWork
    <3>1. ASSUME NEW t \in LedThreads
          PROVE  Ordered(doing[t]) /\ (t # PmThread => Switches(doing[t], {}))
      BY DEF LedInv, TurnsInv, Switching
    <3>2. \A s : Switches(doing[PmThread], s)  BY <2>2 DEF Switches
    <3>3. \A t, u \in CallThreads : AtWork(t) /\ AtWork(u) => t = u  BY DEF LedInv, TurnsInv
    <3> QED  BY <3>1, <3>2, <3>3 DEF Switching
  <2>4. LevelInv'  BY <2>0 DEF LedInv, LevelInv, AtWork
  <2>5. PendingInv'
    <3>1. ~Has(doing[PmThread], "status")  BY <2>2 DEF Has
    <3>2. Zones' = Zones  BY <2>0 DEF Zones
    <3> QED  BY <2>0, <3>1, <3>2 DEF LedInv, PendingInv, Pending, Shade
  <2> QED  BY <2>1, <2>3, <2>4, <2>5 DEF LedInv
<1> QED  BY <1>1, <1>2, <1>3, <1>4

\* A method fails: what it should have done may be missing until the next
\* resume.
LEMMA ErrorsKeep ==
  ASSUME LedInv, NEW t \in LedThreads, MethodError(t)
  PROVE  LedInv'
<1>1. PICK n \in Nat : doing' = [doing EXCEPT ![t] = SubSeq(doing[t], n + 1, Len(doing[t]))]
  <2>1. Head(doing[t]).what \in {"brightness", "hue", "status", "mode", "ask"}  BY DEF MethodError, LeftOut
  <2>2. \A w \in {"brightness", "hue", "status", "mode", "ask"} : LeftOut[w] \in Nat  BY DEF LeftOut
  <2>3. PICK n : /\ n = IF type = "fixed" /\ Head(doing[t]).what = "brightness" THEN 2
                        ELSE LeftOut[Head(doing[t]).what]
                 /\ doing' = [doing EXCEPT ![t] = SubSeq(doing[t], n + 1, Len(doing[t]))]
    BY DEF MethodError, LedInv, LedTypes
  <2>4. n \in Nat  BY <2>1, <2>2, <2>3
  <2> QED  BY <2>3, <2>4
<1>2. /\ crossed' = TRUE /\ doing[t] # <<>>
      /\ UNCHANGED <<type, lit, brightness, intensity, mode, power, mode_lost>>
  BY DEF MethodError, AtWork
<1>3. doing' \in [LedThreads -> Seq(LedOps)] /\ \A u \in LedThreads \ {t} : doing'[u] = doing[u]
  <2>1. doing[t] \in Seq(LedOps) /\ Len(doing[t]) \in Nat  BY LenProperties DEF LedInv, LedTypes
  <2>2. \A i \in n + 1 .. Len(doing[t]) : doing[t][i] \in LedOps  BY <2>1, ElementOfSeq
  <2>3. SubSeq(doing[t], n + 1, Len(doing[t])) \in Seq(LedOps)  BY <2>1, <2>2, SubSeqProperties
  <2> QED  BY <1>1, <2>3 DEF LedInv, LedTypes
<1>4. level' \in [LedThreads -> Nat]  BY DEF MethodError, LedInv, LedTypes
<1>5. LedTypes'  BY <1>2, <1>3, <1>4 DEF LedInv, LedTypes
<1>6. PowerInv'
  <2>1. \A u \in LedThreads : doing[u] = <<>> => doing'[u] = <<>>  BY <1>2, <1>3
  <2>2. PmThread \in LedThreads /\ Desktops \subseteq LedThreads  BY DEF LedThreads
  <2> QED  BY <1>2, <2>1, <2>2 DEF LedInv, PowerInv, AtWork
<1> QED  BY <1>2, <1>5, <1>6 DEF LedInv, TurnsInv, LevelInv, PendingInv

\* After every place but the last there is another.
LEMMA NextPlace == \A n \in Nat : \A i \in 1 .. n - 1 : i + 1 \in 1 .. n
OBVIOUS

\* A step is done.
LEMMA WorkKeeps ==
  ASSUME LedInv, NEW t \in LedThreads, Work(t)
  PROVE  LedInv'
<1> DEFINE q == doing[t]
           op == q[1]
<1>0. /\ q \in Seq(LedOps) /\ q # <<>> /\ Head(q) = op /\ op \in LedOps /\ Len(q) \in Nat \ {0}
      /\ Tail(q) \in Seq(LedOps) /\ Len(Tail(q)) = Len(q) - 1
      /\ \A i \in 1 .. Len(q) - 1 : Tail(q)[i] = q[i + 1]
  <2>1. q \in Seq(LedOps) /\ q # <<>>  BY DEF LedInv, LedTypes, Work, AtWork
  <2>2. Len(q) \in Nat \ {0}  BY <2>1, EmptySeq
  <2>3. op \in LedOps  BY <2>1, <2>2, ElementOfSeq
  <2>4. Head(q) = op  OBVIOUS
  <2> QED  BY <2>1, <2>2, <2>3, <2>4, HeadTailProperties
<1>1. /\ doing' = [doing EXCEPT ![t] = Tail(q)]
      /\ UNCHANGED <<type, power, crossed, mode_lost>>
  BY DEF Work
<1>2. /\ doing' \in [LedThreads -> Seq(LedOps)] /\ doing'[t] = Tail(q)
      /\ \A u \in LedThreads \ {t} : doing'[u] = doing[u]
  BY <1>0, <1>1 DEF LedInv, LedTypes
<1>3. PICK v : v = IF op.value = Asis THEN brightness[op.zone] ELSE op.value  OBVIOUS
<1>4. op.what \in Steps /\ op.zone \in 0..2 /\ op.value \in Nat  BY <1>0 DEF LedOps
<1>5. /\ v \in Nat /\ brightness \in [0..2 -> Nat] /\ intensity \in [0..2 -> Nat] /\ lit \in Lit
      /\ level \in [LedThreads -> Nat] /\ mode \in Nat
  BY <1>3, <1>4 DEF LedInv, LedTypes
<1>6. /\ lit' = CASE op.what = "brightness" -> [lit EXCEPT !.brightness = v]
                  [] op.what = "hue"        -> [lit EXCEPT !.hue[op.zone] = Shade(intensity[op.zone])]
                  [] op.what = "status"     -> [lit EXCEPT !.on = v]
                  [] op.what = "mode"       -> [lit EXCEPT !.mode = v]
                  [] OTHER -> lit
      /\ level' = CASE op.what = "brightness" -> [level EXCEPT ![t] = v]
                    [] op.what = "ask"        -> [level EXCEPT ![t] = lit.brightness]
                    [] OTHER -> level
      /\ brightness' = [z \in 0..2 |-> IF op.what = "cdevs" /\ z \in ZonesToUpdate(op.zone) THEN level[t]
                                       ELSE brightness[z]]
      /\ intensity' = IF op.what = "intensity" THEN [intensity EXCEPT ![op.zone] = op.value] ELSE intensity
      /\ mode' = IF op.what = "keep_mode" THEN op.value ELSE mode
  <2>1. PICK o : o = Head(doing[t])  OBVIOUS
  <2>2. o = op  BY <1>0, <2>1
  <2> HIDE DEF op
  <2>3. /\ lit' = LET w  == IF o.value = Asis THEN brightness[o.zone] ELSE o.value
                  IN  CASE o.what = "brightness" -> [lit EXCEPT !.brightness = w]
                        [] o.what = "hue"        -> [lit EXCEPT !.hue[o.zone] = Shade(intensity[o.zone])]
                        [] o.what = "status"     -> [lit EXCEPT !.on = w]
                        [] o.what = "mode"       -> [lit EXCEPT !.mode = w]
                        [] OTHER -> lit
        /\ level' = LET w  == IF o.value = Asis THEN brightness[o.zone] ELSE o.value
                    IN  CASE o.what = "brightness" -> [level EXCEPT ![t] = w]
                          [] o.what = "ask"        -> [level EXCEPT ![t] = lit.brightness]
                          [] OTHER -> level
        /\ brightness' = [z \in 0..2 |-> IF o.what = "cdevs" /\ z \in ZonesToUpdate(o.zone) THEN level[t]
                                         ELSE brightness[z]]
        /\ intensity' = IF o.what = "intensity" THEN [intensity EXCEPT ![o.zone] = o.value] ELSE intensity
        /\ mode' = IF o.what = "keep_mode" THEN o.value ELSE mode
    BY <2>1, Zenon DEF Work
  <2> QED  BY <1>3, <2>2, <2>3, Zenon
<1> HIDE DEF q, op
<1>7. /\ op.what = "brightness" => lit'.brightness = v /\ level'[t] = v
      /\ op.what = "ask" => level'[t] = lit.brightness
      /\ op.what # "brightness" => lit'.brightness = lit.brightness
      /\ op.what = "mode" => lit'.mode = v
      /\ op.what # "mode" => lit'.mode = lit.mode
      /\ op.what = "status" => lit'.on = v
      /\ op.what # "status" => lit'.on = lit.on
      /\ op.what # "hue" => lit'.hue = lit.hue
      /\ op.what = "hue" => lit'.hue = [lit.hue EXCEPT ![op.zone] = Shade(intensity[op.zone])]
      /\ op.what \notin {"brightness", "ask"} => level' = level
      /\ \A u \in LedThreads \ {t} : level'[u] = level[u]
      /\ lit' \in Lit /\ level' \in [LedThreads -> Nat]
  <2>0. Shade(intensity[op.zone]) \in Nat  BY <1>4, <1>5 DEF Shade, Scale
  <2>1. CASE op.what = "brightness"
    <3>1. lit' = [lit EXCEPT !.brightness = v] /\ level' = [level EXCEPT ![t] = v]  BY <1>6, <2>1
    <3> QED  BY <1>5, <2>1, <3>1 DEF Lit
  <2>2. CASE op.what = "hue"
    <3>1. lit' = [lit EXCEPT !.hue = [lit.hue EXCEPT ![op.zone] = Shade(intensity[op.zone])]]
            /\ level' = level
      BY <1>6, <2>2
    <3>2. [lit.hue EXCEPT ![op.zone] = Shade(intensity[op.zone])] \in [0..2 -> Nat]
      BY <1>4, <1>5, <2>0 DEF Lit
    <3> QED  BY <1>5, <2>2, <3>1, <3>2 DEF Lit
  <2>3. CASE op.what = "status"
    <3>1. lit' = [lit EXCEPT !.on = v] /\ level' = level  BY <1>6, <2>3
    <3> QED  BY <1>5, <2>3, <3>1 DEF Lit
  <2>4. CASE op.what = "mode"
    <3>1. lit' = [lit EXCEPT !.mode = v] /\ level' = level  BY <1>6, <2>4
    <3> QED  BY <1>5, <2>4, <3>1 DEF Lit
  <2>5. CASE op.what = "ask"
    <3>1. lit' = lit /\ level' = [level EXCEPT ![t] = lit.brightness]  BY <1>6, <2>5
    <3> QED  BY <1>5, <2>5, <3>1 DEF Lit
  <2>6. CASE op.what \in {"cdevs", "keep_mode", "intensity"}
    <3>1. lit' = lit /\ level' = level  BY <1>6, <2>6
    <3> QED  BY <1>5, <2>6, <3>1
  <2> QED  BY <1>4, <2>1, <2>2, <2>3, <2>4, <2>5, <2>6 DEF Steps
<1>8. LedTypes'
  <2>1. intensity' \in [0..2 -> Nat]  BY <1>4, <1>5, <1>6
  <2>2. brightness' \in [0..2 -> Nat]  BY <1>5, <1>6
  <2>3. mode' \in Nat  BY <1>4, <1>5, <1>6
  <2> QED  BY <1>1, <1>2, <1>7, <2>1, <2>2, <2>3 DEF LedInv, LedTypes
<1>9. PowerInv'
  <2>1. \A u \in LedThreads : doing[u] = <<>> => doing'[u] = <<>>  BY <1>0, <1>2 DEF q
  <2>2. PmThread \in LedThreads /\ Desktops \subseteq LedThreads  BY DEF LedThreads
  <2> QED  BY <1>1, <2>1, <2>2 DEF LedInv, PowerInv, AtWork
<1>10. CASE crossed  BY <1>1, <1>8, <1>9, <1>10 DEF LedInv, TurnsInv, LevelInv, PendingInv
<1>11. CASE ~crossed
  <2>0. Ordered(q) /\ Switches(q, Switching(t))  BY <1>11 DEF q, LedInv, TurnsInv
  <2>1. /\ Ordered(Tail(q)) /\ Switches(Tail(q), Switching(t))
        /\ \A w \in Steps : Has(q, w) => op.what = w \/ Has(Tail(q), w)
        /\ \A z \in 0..2 : Paints(q, z) => (op.what = "hue" /\ op.zone = z) \/ Paints(Tail(q), z)
    BY <1>0, <2>0, TailOrdered, TailHas DEF op
  <2>2. \A u \in LedThreads \ {t} : doing[u] # <<>> => op.what = "status" \/ doing[u][1].what = "status"
    BY <1>0, <1>11, OneAtATime DEF AtWork, op, q
  <2>3. /\ op.what \in {"brightness", "ask"} => Len(q) > 1 /\ q[2].what = "cdevs"
        /\ op.what = "mode" => Len(q) > 1 /\ q[2].what = "keep_mode" /\ q[2].value = op.value
        /\ op.what \in {"mode", "status"} => op.value # Asis
        /\ op.what = "intensity" => Len(q) >= 4 /\ q[4].what = "hue" /\ q[4].zone = op.zone
        /\ Len(q) > 1 => /\ q[2].what = "cdevs" => op.what \in {"brightness", "ask"}
                         /\ q[2].what = "keep_mode" => op.what = "mode" /\ op.value = q[2].value
    <3>1. 1 \in 1 .. Len(q) /\ (Len(q) > 1 => 2 \in 1 .. Len(q))  BY <1>0
    <3>2. 1 + 1 = 2 /\ 2 - 1 = 1 /\ 1 + 3 = 4  OBVIOUS
    <3> HIDE DEF Asis
    <3> QED  BY <1>0, <2>0, <3>1, <3>2 DEF Ordered, op
  <2>4. Len(q) > 1 => 1 \in 1 .. Len(Tail(q)) /\ Tail(q)[1] = q[2]  BY <1>0
  <2>5. TurnsInv'
    <3>1. \A u \in LedThreads : doing[u] = <<>> => doing'[u] = <<>>  BY <1>0, <1>2 DEF q
    <3>2. PmThread \in LedThreads /\ KeyThread \in LedThreads /\ CallThreads \subseteq LedThreads
      BY DEF LedThreads, CallThreads
    <3>3. \A v1, u \in CallThreads : doing'[v1] # <<>> /\ doing'[u] # <<>> => v1 = u
      BY <1>11, <3>1, <3>2 DEF LedInv, TurnsInv, AtWork
    <3>4. power \in {"off", "waking up"} => doing'[KeyThread] = <<>>
      BY <1>11, <3>1, <3>2 DEF LedInv, TurnsInv, AtWork
    <3>5. power = "falling asleep"
            => \A i \in 1 .. Len(doing'[PmThread]) : doing'[PmThread][i].what = "status"
      <4> HAVE power = "falling asleep"
      <4>1. \A i \in 1 .. Len(doing[PmThread]) : doing[PmThread][i].what = "status"
        BY <1>11 DEF LedInv, TurnsInv
      <4>2. CASE t = PmThread
        <5>1. Len(q) \in Nat  BY <1>0
        <5>2. \A i \in 1 .. Len(q) - 1 : i + 1 \in 1 .. Len(q)  BY <5>1, NextPlace, Zenon
        <5>3. \A i \in 1 .. Len(q) - 1 : i + 1 \in 1 .. Len(q) /\ Tail(q)[i] = q[i + 1]  BY <1>0, <5>2, Zenon
        <5>4. \A i \in 1 .. Len(q) : q[i].what = "status"  BY <4>1, <4>2, Zenon DEF q
        <5>5. \A i \in 1 .. Len(Tail(q)) : Tail(q)[i].what = "status"  BY <1>0, <5>3, <5>4, Zenon
        <5> QED  BY <1>2, <4>2, <5>5, Zenon
      <4>3. CASE t # PmThread  BY <1>2, <3>2, <4>1, <4>3
      <4> QED  BY <4>2, <4>3
    <3>6. ASSUME NEW u \in LedThreads  PROVE Ordered(doing'[u]) /\ Switches(doing'[u], Switching(u))
      <4>1. CASE u = t  BY <1>2, <2>1, <4>1
      <4>2. CASE u # t  BY <1>2, <1>11, <4>2 DEF LedInv, TurnsInv
      <4> QED  BY <4>1, <4>2
    <3> QED  BY <1>1, <3>3, <3>4, <3>5, <3>6 DEF TurnsInv, AtWork, Switching
  <2>6. LevelInv'
    <3> SUFFICES ASSUME NEW u \in LedThreads, doing'[u] # <<>>
                 PROVE  /\ doing'[u][1].what = "cdevs" => level'[u] = lit'.brightness
                        /\ doing'[u][1].what = "keep_mode" => lit'.mode = doing'[u][1].value
      BY <1>1 DEF LevelInv, AtWork
    <3>1. CASE u # t
      <4>1. doing'[u] = doing[u] /\ level'[u] = level[u]  BY <1>2, <1>7, <3>1
      <4>2. op.what = "status" \/ doing[u][1].what = "status"  BY <2>2, <3>1, <4>1
      <4> QED  BY <1>7, <1>11, <4>1, <4>2 DEF LedInv, LevelInv, AtWork
    <3>2. CASE u = t
      <4>1. Len(q) > 1  BY <1>0, <1>2, <3>2, EmptySeq
      <4>2. doing'[u][1] = q[2]  BY <1>2, <2>4, <3>2, <4>1
      <4>3. op.what = "mode" => v = op.value  BY <1>3, <2>3
      <4> QED  BY <1>7, <2>3, <3>2, <4>1, <4>2, <4>3
    <3> QED  BY <3>1, <3>2
  <2>7. \A w \in Steps : Pending(w) /\ op.what # w => \E u \in LedThreads : Has(doing'[u], w)
    <3> SUFFICES ASSUME NEW w \in Steps, NEW u \in LedThreads, Has(doing[u], w), op.what # w
                 PROVE  Has(doing'[u], w)
      BY DEF Pending
    <3>1. CASE u = t  BY <1>2, <2>1, <3>1 DEF q
    <3>2. CASE u # t  BY <1>2, <3>2
    <3> QED  BY <3>1, <3>2
  <2>8. (\A z \in Zones : lit'.brightness = brightness'[z]) \/ \E u \in LedThreads : Has(doing'[u], "cdevs")
        \/ power = "off"
    <3>1. CASE op.what \in {"brightness", "ask"}
      <4>1. Tail(q)[1].what = "cdevs" /\ 1 \in 1 .. Len(Tail(q))  BY <2>3, <2>4, <3>1
      <4> QED  BY <1>2, <4>1 DEF Has
    <3>2. CASE op.what = "cdevs"
      <4>1. level[t] = lit.brightness  BY <1>0, <1>11, <3>2 DEF LedInv, LevelInv, AtWork, op, q
      <4>2. \A z \in Zones : z \in ZonesToUpdate(op.zone) /\ z \in 0..2
        <5>1. \A z \in Zones : z \in 0..2  BY DEF Zones
        <5>2. CASE type = "fixed"  BY <5>1, <5>2 DEF Zones, ZonesToUpdate
        <5>3. CASE type # "fixed"  BY <5>1, <5>3 DEF ZonesToUpdate
        <5> QED  BY <5>2, <5>3
      <4> QED  BY <1>6, <1>7, <3>2, <4>1, <4>2
    <3>3. CASE op.what \notin {"brightness", "ask", "cdevs"}
      <4>1. \A z \in Zones : z \in 0..2  BY DEF Zones
      <4>2. \A z \in Zones : brightness'[z] = brightness[z]  BY <1>6, <3>3, <4>1
      <4>3. "cdevs" \in Steps  BY DEF Steps
      <4> QED  BY <1>7, <1>11, <2>7, <3>3, <4>2, <4>3 DEF LedInv, PendingInv
    <3> QED  BY <3>1, <3>2, <3>3
  <2>9. ASSUME power # "off", type # "fixed", NEW z \in Zones
        PROVE  lit'.hue[z] = Shade(intensity'[z]) \/ \E u \in LedThreads : Paints(doing'[u], z)
    <3>0. z \in 0..2 /\ lit.hue \in [0..2 -> Nat]  BY <1>5 DEF Zones, Lit
    <3>1. CASE op.what = "intensity" /\ op.zone = z
      <4>1. 3 \in 1 .. Len(Tail(q)) /\ Tail(q)[3] = q[4]  BY <1>0, <2>3, <3>1
      <4>2. Tail(q)[3].what = "hue" /\ Tail(q)[3].zone = z  BY <2>3, <3>1, <4>1
      <4>3. Paints(Tail(q), z)  BY <4>1, <4>2, Zenon DEF Paints
      <4> QED  BY <1>2, <4>3
    <3>2. CASE op.what = "hue" /\ op.zone = z
      <4>1. lit'.hue[z] = Shade(intensity[z])  BY <1>7, <3>0, <3>2
      <4>2. intensity' = intensity  BY <1>6, <3>2
      <4> QED  BY <4>1, <4>2
    <3>3. CASE ~(op.what \in {"hue", "intensity"} /\ op.zone = z)
      <4>1. lit'.hue[z] = lit.hue[z]  BY <1>7, <3>0, <3>3
      <4>2. intensity'[z] = intensity[z]  BY <1>5, <1>6, <3>0, <3>3
      <4>3. CASE lit.hue[z] = Shade(intensity[z])  BY <4>1, <4>2, <4>3
      <4>4. ASSUME NEW u \in LedThreads, Paints(doing[u], z)  PROVE Paints(doing'[u], z)
        <5>1. CASE u = t  BY <1>2, <2>1, <3>0, <3>3, <4>4, <5>1 DEF q
        <5>2. CASE u # t  BY <1>2, <4>4, <5>2
        <5> QED  BY <5>1, <5>2
      <4> QED  BY <1>11, <2>9, <4>3, <4>4 DEF LedInv, PendingInv
    <3> QED  BY <3>1, <3>2, <3>3
  <2>10. ASSUME power # "off", type # "fixed"
         PROVE  lit'.on = (IF power \in {"on", "waking up"} THEN 1 ELSE 0) \/ Has(doing'[PmThread], "status")
    <3>1. CASE op.what = "status"
      <4>1. op.value \in Switching(t)  BY <1>0, <2>0, <3>1 DEF Switches, op
      <4>2. t = PmThread /\ power \in {"falling asleep", "waking up"}
        <5>1. t = PmThread  BY <4>1 DEF Switching
        <5> QED  BY <1>0, <5>1 DEF LedInv, PowerInv, LedTypes, AtWork, q
      <4>3. v = op.value  BY <1>3, <2>3, <3>1
      <4> QED  BY <1>7, <3>1, <4>1, <4>2, <4>3 DEF Switching
    <3>2. CASE op.what # "status"
      <4>1. Has(doing[PmThread], "status") => Has(doing'[PmThread], "status")
        <5>1. PmThread \in LedThreads /\ "status" \in Steps  BY DEF LedThreads, Steps
        <5> QED  BY <1>2, <2>1, <3>2, <5>1 DEF q
      <4> QED  BY <1>7, <1>11, <2>10, <3>2, <4>1 DEF LedInv, PendingInv
    <3> QED  BY <3>1, <3>2
  <2>11. mode_lost \/ lit'.mode = mode' \/ \E u \in LedThreads : Has(doing'[u], "keep_mode")
    <3>1. CASE op.what = "keep_mode"
      <4>1. lit.mode = op.value  BY <1>0, <1>11, <3>1 DEF LedInv, LevelInv, AtWork, op, q
      <4> QED  BY <1>6, <1>7, <3>1, <4>1
    <3>2. CASE op.what = "mode"
      <4>1. Tail(q)[1].what = "keep_mode" /\ 1 \in 1 .. Len(Tail(q))  BY <2>3, <2>4, <3>2
      <4> QED  BY <1>2, <4>1 DEF Has
    <3>3. CASE op.what \notin {"mode", "keep_mode"}
      <4>1. mode' = mode /\ lit'.mode = lit.mode /\ "keep_mode" \in Steps  BY <1>6, <1>7, <3>3 DEF Steps
      <4> QED  BY <1>11, <2>7, <3>3, <4>1 DEF LedInv, PendingInv
    <3> QED  BY <3>1, <3>2, <3>3
  <2>12. PendingInv'
    <3>1. Zones' = Zones  BY <1>1 DEF Zones
    <3> QED  BY <1>1, <2>8, <2>9, <2>10, <2>11, <3>1 DEF PendingInv, Pending, Shade
  <2> QED  BY <1>8, <1>9, <2>5, <2>6, <2>12 DEF LedInv
<1> QED  BY <1>10, <1>11

\* Every step keeps the invariant.
LEMMA LedStep ==
  ASSUME LedInv, [ClevoLedsNext]_ledVars
  PROVE  LedInv'
<1>1. CASE UNCHANGED ledVars
  BY <1>1 DEF ledVars, LedInv, LedTypes, PowerInv, TurnsInv, LevelInv, PendingInv, Pending, AtWork, Switching,
              Zones, Shade
<1>2. ASSUME NEW t \in LedThreads, Work(t) \/ MethodError(t)  PROVE LedInv'  BY <1>2, WorkKeeps, ErrorsKeep
<1>3. CASE Probe \/ Suspend \/ Resume \/ Over  BY <1>3, NightsKeep
<1>4. CASE \/ \E d \in Desktops : \/ \E z \in Zones : \/ \E b \in Brightness : StoreBrightness(d, z, b)
                                                      \/ \E h \in Hues : StoreIntensity(d, z, h)
                                  \/ StoreMode(d)
           \/ CycleColour \/ CycleBrightness
  BY <1>4, CallersKeep
<1> QED  BY <1>1, <1>2, <1>3, <1>4 DEF ClevoLedsNext

\* When nothing is left to do, what the LEDs tell is shown.
LEMMA LedShown ==
  ASSUME LedInv
  PROVE  KeyboardShowsLeds
<1> SUFFICES ASSUME ~crossed, power \in {"on", "asleep"}, \A t \in LedThreads : ~AtWork(t)
             PROVE  /\ type # "fixed" => lit.on = (IF power = "on" THEN 1 ELSE 0)
                    /\ \A z \in Zones : /\ lit.brightness = brightness[z]
                                        /\ type # "fixed" => lit.hue[z] = Shade(intensity[z])
                    /\ mode_lost \/ lit.mode = mode
  BY DEF KeyboardShowsLeds
<1>1. \A t \in LedThreads : doing[t] = <<>>  BY DEF AtWork
<1>2. \A t \in LedThreads : \A i \in 1 .. Len(doing[t]) : FALSE  BY <1>1, NoSteps, Zenon
<1>3. PmThread \in LedThreads  BY DEF LedThreads
<1>4. \A t \in LedThreads : (\A w : ~Has(doing[t], w)) /\ \A z : ~Paints(doing[t], z)
  BY <1>2 DEF Has, Paints
<1> QED  BY <1>3, <1>4 DEF LedInv, PendingInv, Pending

\* After stores to any LED, keys, and sleeps in which the firmware forgot all,
\* the Clevo keyboard shows what the LED class tells of every zone, with any
\* number of programs and values, unless calls overlapped or a method failed
\* since the last resume (clevo_leds.h, clevo_keyboard.h).
THEOREM LedsAlwaysShown == ClevoLedsSpec => []KeyboardShowsLeds
<1>1. LedInv /\ [ClevoLedsNext]_ledVars => LedInv'  BY LedStep
<1>2. LedInv => KeyboardShowsLeds  BY LedShown
<1> QED  BY <1>1, <1>2, LedInit, PTL DEF ClevoLedsSpec
================================================================================
