--------------------------- MODULE KeyboardLifecycle ---------------------------
(***************************************************************************)
(* How the keyboard driver comes and goes: src/src/tuxedo_keyboard.c and   *)
(* the add and remove functions of clevo_keyboard.h and uniwill_keyboard.h,*)
(* called when the bus drivers clevo_wmi, clevo_acpi and uniwill_wmi find  *)
(* or lose their device.  The buses probe devices concurrently, and events *)
(* of a device come while others are probed or removed.  One mutex is held *)
(* while an interface is added or removed, another while the driver is     *)
(* created, and none by tuxedo_keyboard_remove_driver itself.              *)
(*                                                                         *)
(* Uniwill's touchpad key comes another way: a filter on the keyboard      *)
(* controller (TouchpadFilter), there from the end of the driver's probe   *)
(* to its remove, queues a work that nobody cancels.                       *)
(*                                                                         *)
(* A thread that follows a null or stale pointer is dead, with the reason  *)
(* in "oops"; it keeps its mutexes.                                        *)
(***************************************************************************)
EXTENDS Naturals, Sequences, FiniteSets

CONSTANTS MaxProbes, MaxFailures   \* bounds

ASSUME LifecycleAssumption == {MaxProbes, MaxFailures} \subseteq Nat

Clevo   == {"clevo_wmi", "clevo_acpi"}
Devices == Clevo \cup {"uniwill_wmi"}

VARIABLES
    here,          \* the devices of the machine
    at,            \* where the probe or remove of each device is
    interfaces,    \* clevo_interfaces, uniwill_interfaces
    active,        \* active_clevo_interface, or the Uniwill one
    adding_lock,   \* holder of the mutex of add_interface and remove_interface
    init_lock,     \* holder of tuxedo_keyboard_init_driver_lock
    platform,      \* tuxedo_platform_device: "null", "error" or "there"
    bundles,       \* number of platform devices that are registered
    registered,    \* whether the platform driver is
    input,         \* tuxedo_input_device: "null", "there" or "freed"
    input_device,  \* that of the driver: "null", "there" or "stale"
    current,       \* whether current_driver is set
    handled,       \* devices whose events are handled
    pressed,       \* devices with an event under way
    filter,        \* uniwill_i8042_filter is installed
    key_work,      \* uniwill_key_event_work is "pending", "running", both or neither
    oops,          \* null or stale pointers that were followed
    overtaken,     \* history: an interface left while another one came
    failed,        \* history: steps that failed: "probe", "input"
    probes

driverVars == <<platform, bundles, registered, input, input_device, current>>
lockVars   == <<adding_lock, init_lock>>
keyVars    == <<filter, key_work>>
lifecycleVars == <<here, at, interfaces, active, lockVars, driverVars, handled, pressed, keyVars, oops,
                   overtaken, failed, probes>>

Probing == {"add", "added", "init", "bundle", "input", "current"}

Leaving == {"leaving", "remove_driver", "input_exit", "unregister", "unregistered", "driver", "forget",
            "inactive"}

Goto(d, place) == at' = [at EXCEPT ![d] = place]
Dies(d, why)   == Goto(d, "dead") /\ oops' = oops \cup {<<why, "">>}

Fails(what) == Cardinality(failed) < MaxFailures /\ failed' = failed \cup {what}

-----------------------------------------------------------------------------
\* clevo_wmi_probe, uniwill_wmi_probe; the WMI core passes events on only
\* once they have returned, the ACPI core from the start of the probe.
ProbeDevice(d) ==
    /\ d \in here /\ at[d] = "unbound" /\ probes < MaxProbes /\ probes' = probes + 1
    /\ Goto(d, "add")
    /\ handled' = IF d = "clevo_acpi" THEN handled \cup {d} ELSE handled
    /\ UNCHANGED <<here, interfaces, active, lockVars, driverVars, pressed, keyVars, oops, overtaken, failed>>

\* Mutant: WMI is taken although ACPI is there.
AlwaysTaken(d) == d

Preferred(d) == IF d = "clevo_wmi" /\ active # "none" THEN active ELSE d

\* clevo_keyboard_add_interface, uniwill_add_interface: the locked section
AddInterface(d) ==
    /\ at[d] = "add" /\ adding_lock = "none"
    /\ interfaces' = interfaces \cup {d} /\ active' = Preferred(d) /\ Goto(d, "added")
    /\ UNCHANGED <<here, lockVars, driverVars, handled, pressed, keyVars, oops, overtaken, failed, probes>>

\* ... and what follows it, which looks at the interface without the lock.
ProbeReturns(d) == Goto(d, "bound") /\ handled' = handled \cup {d}

LookAtActive(d) ==
    /\ at[d] = "added"
    /\ \/ active # "none" /\ Goto(d, "init") /\ UNCHANGED handled
       \/ active = "none" /\ ProbeReturns(d)
    /\ overtaken' = (overtaken \/ \E o \in here : at[o] \in Leaving)
    /\ UNCHANGED <<here, interfaces, active, lockVars, driverVars, pressed, keyVars, oops, failed, probes>>

\* Mutant: tuxedo_keyboard_init_driver without its mutex.
NoMutex == TRUE

InitLockFree == init_lock = "none"

\* tuxedo_keyboard_init_driver; platform_create_bundle runs the driver's probe,
\* and fails while the driver is still registered.
InitBegin(d) ==
    /\ at[d] = "init" /\ InitLockFree
    /\ IF platform = "there" THEN ProbeReturns(d) /\ UNCHANGED init_lock
       ELSE Goto(d, "bundle") /\ init_lock' = d /\ UNCHANGED handled
    /\ UNCHANGED <<here, interfaces, active, adding_lock, driverVars, pressed, keyVars, oops, overtaken, failed,
                   probes>>

CreateBundle(d) ==
    /\ at[d] = "bundle"
    /\ \/ /\ ~registered /\ registered' = TRUE
          /\ platform' = "there" /\ bundles' = bundles + 1 /\ Goto(d, "input")
          /\ filter' \in (IF d \in Clevo THEN {filter} ELSE {filter, TRUE})
          /\ UNCHANGED <<handled, init_lock, failed>>
       \/ /\ IF registered THEN UNCHANGED failed ELSE Fails("probe")
          /\ platform' = "error" /\ ProbeReturns(d) /\ init_lock' = "none"
          /\ UNCHANGED <<bundles, registered, filter>>
    /\ UNCHANGED <<here, interfaces, active, adding_lock, input, input_device, current, pressed, key_work,
                   oops, overtaken, probes>>

\* tuxedo_input_init frees what could not be registered, and keeps the pointer.
tuxedo_input_init(d) ==
    /\ at[d] = "input" /\ Goto(d, "current")
    /\ \/ input' = "there" /\ input_device' = "there" /\ UNCHANGED failed
       \/ Fails("input") /\ input' = "freed" /\ input_device' = "null"
    /\ UNCHANGED <<here, interfaces, active, lockVars, platform, bundles, registered, current, handled,
                   pressed, keyVars, oops, overtaken, probes>>

\* clevo_fn_lock_available follows the active interface.
SetCurrent(d) ==
    /\ at[d] = "current" /\ current' = TRUE
    /\ IF d \in Clevo /\ active = "none" THEN Dies(d, "no active interface") /\ UNCHANGED <<init_lock, handled>>
       ELSE ProbeReturns(d) /\ init_lock' = "none" /\ UNCHANGED oops
    /\ UNCHANGED <<here, interfaces, active, adding_lock, platform, bundles, registered, input, input_device,
                   pressed, keyVars, overtaken, failed, probes>>

-----------------------------------------------------------------------------
\* Mutant: the notify handler is removed last.
HandledToTheEnd(d) == handled

HandledDuringRemove(d) == handled \ {d}

\* uniwill_wmi_remove, clevo_wmi_remove, clevo_acpi_remove: no event is under
\* way any more, then the interface is removed.
RemoveDevice(d) ==
    /\ at[d] = "bound" /\ d \notin pressed /\ handled' = HandledDuringRemove(d) /\ Goto(d, "leaving")
    /\ overtaken' = (overtaken \/ \E o \in here : at[o] \in Probing \ {"add"})
    /\ UNCHANGED <<here, interfaces, active, lockVars, driverVars, pressed, keyVars, oops, failed, probes>>

Removed(d) == Goto(d, "unbound") /\ handled' = handled \ {d}

\* clevo_keyboard_remove_interface, uniwill_remove_interface
RemoveInterface(d) ==
    /\ at[d] = "leaving" /\ adding_lock = "none"
    /\ interfaces' = interfaces \ {d}
    /\ IF active = d THEN adding_lock' = d /\ Goto(d, "remove_driver") /\ UNCHANGED handled
       ELSE Removed(d) /\ UNCHANGED adding_lock
    /\ UNCHANGED <<here, active, init_lock, driverVars, pressed, keyVars, oops, overtaken, failed, probes>>

\* tuxedo_keyboard_remove_driver compares the names of the drivers, which are
\* the same, and so follows current_driver in any case.
CompareNames(d) ==
    /\ at[d] = "remove_driver"
    /\ IF current THEN Goto(d, "input_exit") /\ UNCHANGED oops ELSE Dies(d, "no current driver")
    /\ UNCHANGED <<here, interfaces, active, lockVars, driverVars, handled, pressed, keyVars, overtaken, failed,
                   probes>>

tuxedo_input_exit(d) ==
    /\ at[d] = "input_exit"
    /\ IF input = "freed" THEN Dies(d, "freed input device") /\ UNCHANGED <<input, input_device>>
       ELSE /\ Goto(d, "unregister") /\ input' = "null"
            /\ input_device' = IF input_device = "there" THEN "stale" ELSE input_device
            /\ UNCHANGED oops
    /\ UNCHANGED <<here, interfaces, active, lockVars, platform, bundles, registered, current, handled,
                   pressed, keyVars, overtaken, failed, probes>>

\* Four statements, none of them under the mutex of tuxedo_keyboard_init_driver;
\* uniwill_keyboard_remove takes the filter away.
Unregister(d) ==
    /\ at[d] = "unregister"
    /\ IF platform = "there" THEN Goto(d, "unregistered") /\ bundles' = bundles - 1 /\ filter' = FALSE
       ELSE Goto(d, "driver") /\ UNCHANGED <<bundles, filter>>
    /\ UNCHANGED <<here, interfaces, active, lockVars, platform, registered, input, input_device, current,
                   handled, pressed, key_work, oops, overtaken, failed, probes>>

ForgetDevice(d) ==
    /\ at[d] = "unregistered" /\ Goto(d, "driver") /\ platform' = "null"
    /\ UNCHANGED <<here, interfaces, active, lockVars, bundles, registered, input, input_device, current,
                   handled, pressed, keyVars, oops, overtaken, failed, probes>>

UnregisterDriver(d) ==
    /\ at[d] = "driver" /\ Goto(d, "forget") /\ registered' = FALSE
    /\ UNCHANGED <<here, interfaces, active, lockVars, platform, bundles, input, input_device, current,
                   handled, pressed, keyVars, oops, overtaken, failed, probes>>

ForgetDriver(d) ==
    /\ at[d] = "forget" /\ Goto(d, "inactive") /\ current' = FALSE
    /\ UNCHANGED <<here, interfaces, active, lockVars, platform, bundles, registered, input, input_device,
                   handled, pressed, keyVars, oops, overtaken, failed, probes>>

Deactivate(d) ==
    /\ at[d] = "inactive" /\ Removed(d) /\ active' = "none" /\ adding_lock' = "none"
    /\ UNCHANGED <<here, interfaces, init_lock, driverVars, pressed, keyVars, oops, overtaken, failed, probes>>

-----------------------------------------------------------------------------
Press(d) ==
    /\ d \in handled \ pressed /\ at[d] # "dead" /\ pressed' = pressed \cup {d}
    /\ UNCHANGED <<here, at, interfaces, active, lockVars, driverVars, handled, keyVars, oops, overtaken,
                   failed, probes>>

\* clevo_keyboard_event_callb, uniwill_event_callb: what an event reports on.
\* The key for the control center is reported on the driver's input device,
\* whatever it is; the others if it is set, on Clevo that of the current driver.
Reported(d) ==
    {"nothing", "control center"} \cup
    (IF input_device # "null" /\ (d \in Clevo => current) THEN {"key"} ELSE {})

Circumstances(d) ==
    CASE at[d] \in Probing \cup {"dead"} -> "probing"
      [] at[d] = "bound" /\ active # d   -> "inactive"
      [] OTHER                           -> "active"

Report(d) ==
    /\ d \in pressed /\ pressed' = pressed \ {d}
    /\ \E key \in Reported(d) :
          oops' = IF key = "nothing" \/ input_device = "there" THEN oops
                  ELSE oops \cup {<<"event", Circumstances(d)>>}
    /\ UNCHANGED <<here, at, interfaces, active, lockVars, driverVars, handled, keyVars, overtaken, failed,
                   probes>>

\* The end of uniwill_i8042_filter: schedule_work.
TouchpadKey ==
    /\ filter /\ key_work' = key_work \cup {"pending"}
    /\ UNCHANGED <<here, at, interfaces, active, lockVars, driverVars, handled, pressed, filter, oops,
                   overtaken, failed, probes>>

\* key_event_work: before and after its msleep
WorkSleeps ==
    /\ "pending" \in key_work /\ "running" \notin key_work /\ key_work' = {"running"}
    /\ UNCHANGED <<here, at, interfaces, active, lockVars, driverVars, handled, pressed, filter, oops,
                   overtaken, failed, probes>>

Lifetime ==
    CASE \E d \in here : at[d] \in Probing -> "probing"
      [] \E d \in here : at[d] \in Leaving -> "leaving"
      [] OTHER -> IF active = "none" THEN "gone" ELSE "active"

WorkReports ==
    /\ "running" \in key_work /\ key_work' = key_work \ {"running"}
    /\ oops' = IF input_device = "there" THEN oops ELSE oops \cup {<<"touchpad key", Lifetime>>}
    /\ UNCHANGED <<here, at, interfaces, active, lockVars, driverVars, handled, pressed, filter,
                   overtaken, failed, probes>>

Families == {{"uniwill_wmi"}, {"clevo_wmi"}, {"clevo_acpi"}, Clevo}

LifecycleInit ==
    /\ here \in Families /\ at = [d \in Devices |-> "unbound"]
    /\ interfaces = {} /\ active = "none" /\ adding_lock = "none" /\ init_lock = "none"
    /\ platform = "null" /\ bundles = 0 /\ registered = FALSE /\ input = "null" /\ input_device = "null"
    /\ current = FALSE /\ handled = {} /\ pressed = {} /\ filter = FALSE /\ key_work = {} /\ oops = {}
    /\ overtaken = FALSE /\ failed = {} /\ probes = 0

DeviceStep(d) ==
    \/ ProbeDevice(d) \/ AddInterface(d) \/ LookAtActive(d) \/ InitBegin(d)
    \/ CreateBundle(d) \/ tuxedo_input_init(d) \/ SetCurrent(d)
    \/ RemoveDevice(d) \/ RemoveInterface(d) \/ CompareNames(d)
    \/ tuxedo_input_exit(d) \/ Unregister(d) \/ ForgetDevice(d) \/ UnregisterDriver(d) \/ ForgetDriver(d)
    \/ Deactivate(d)
    \/ Press(d) \/ Report(d)

LifecycleNext == (\E d \in Devices : DeviceStep(d)) \/ TouchpadKey \/ WorkSleeps \/ WorkReports

LifecycleSpec == LifecycleInit /\ [][LifecycleNext]_lifecycleVars

-----------------------------------------------------------------------------
\* However the devices are probed and removed, there is never more than one
\* platform device, and the one there is can still be removed.
OneDevice ==
    bundles = IF platform = "there" /\ (\A d \in Devices : at[d] # "unregistered") THEN 1 ELSE 0

\* A driver is there as long as the active interface is, and its commands go
\* through ACPI where there is ACPI; except while interfaces come and go,
\* after a failure, and if one left while another one came.
AtRest == \A d \in Devices : at[d] \in {"unbound", "bound"}

DriverServesAcpi ==
    AtRest /\ ~overtaken /\ failed = {} =>
        /\ current = (active # "none") /\ current = (input = "there")
        /\ "clevo_acpi" \in interfaces => active = "clevo_acpi"

\* A null or stale pointer is followed for these reasons only.  No current
\* driver is found by a removal that another interface's coming overlapped, or
\* whose driver could not be created; a freed input device by one that could
\* not be registered.  An event finds no input device while its own device is
\* still probed, or on an interface that is not the active one; the touchpad
\* key does while the driver is created or removed and after it is gone.  The
\* events of the active interface and the touchpad key of a driver that is
\* there find one, unless a step of its creation failed.
OopsHasCause ==
    /\ <<"no active interface", "">> \in oops => overtaken
    /\ <<"no current driver", "">> \in oops => overtaken \/ "probe" \in failed
    /\ <<"freed input device", "">> \in oops => "input" \in failed
    /\ <<"event", "active">> \in oops \/ <<"touchpad key", "active">> \in oops => failed # {}
================================================================================
