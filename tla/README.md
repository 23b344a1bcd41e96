# A TLA+ model of tuxedo-drivers

tuxedo-drivers is a set of Linux kernel modules for TUXEDO notebooks. Most of
the code talks to an embedded controller (EC) or to firmware methods, one
register at a time, from several contexts at once: ioctls, sysfs and LED
attributes, hwmon, WMI events, delayed works, timers, suspend/resume and
bind/unbind. There is hardly any locking above the single register access.
This is what the modules here are about: what becomes of the driver's state and
of the EC's registers when those contexts interleave, when an access fails, and
when an answer comes late or never.

Paths below are relative to `src/src/`. `PROJECT.json` maps every definition to
the lines it stands for.

## 1. Components

| component | state | operations | talks to |
|---|---|---|---|
| **Uniwill fan control, full fan mode** (`uniwill_keyboard.h` 1889-2140, 2255-2317) | requested speed per fan, their suspend copies, `direct_fan_control_started`, `direct_fan_control_suspend`, the delayed work | `uw_set_fan`, `uw_set_fan_auto`, restart work, suspend, resume, remove, probe | EC 0x0751, 0x1804, 0x1809; called by tuxedo_io |
| **Uniwill fan control, EC fan tables** (same file, devices with the universal EC fan control) | `fans_initialized`, requested speeds | `uw_init_fan`, `uw_set_fan`, `uw_set_fan_auto` | EC 0x07c5, 0x07c6, tables at 0x0f00; tuxedo_io |
| **Fan speed limits** (four copies, in Uniwill, Clevo, NB05 and TUXI code) | none | pure functions | - |
| **Uniwill EC access** (`uniwill_wmi.c`) | mutex `uniwill_ec_lock`, parameter `ec_direct_io`, the EC's mailbox | read and write EC RAM, by mailbox or by WMI method | everything Uniwill |
| **Uniwill settings and LEDs** (`uniwill_keyboard.h`, `uniwill_leds.h`): charging, auto boot, powershare, fn lock, mini LED, backlight, light bar, custom profile mode | bits of shared EC registers, last written values, LED brightness and colour, `uniwill_kbd_bl_enable_state_on_start` | attributes, LED stores, WMI events, probe, suspend, resume, remove | EC 0x0767, 0x078c, 0x07a6, 0x07cc and others |
| **Uniwill device features, ROM id, hidden BIOS options** | feature cache `uw_feats`, ROM id bytes, an EFI variable | reads, unlock and write, EFI write | EC, EFI; tuxedo_io |
| **tuxedo_keyboard core, Clevo and Uniwill interfaces** (`tuxedo_keyboard.c`, `clevo_wmi.c`, `clevo_acpi.c`, `uniwill_wmi.c`) | active interface, `tuxedo_platform_device`, `tuxedo_input_device`, `current_driver`, two mutexes | add/remove interface, init/remove driver, event callback | buses, input core |
| **Touchpad key filter** (`uniwill_i8042_filter`) | position in the sequence, a work that sleeps | a byte of the keyboard controller | input core |
| **Clevo charging, fn lock** (`clevo_keyboard.h`) | thresholds and status in firmware, keyboard status | attributes, key event | WMI or ACPI methods |
| **Clevo keyboard backlight** (`clevo_leds.h`) | LED brightness and intensities, backlight mode | LED stores, key events, suspend, resume | WMI or ACPI methods |
| **NB05 EC access** (`tuxedo_nb05_ec.c`) | a mutex, the index port's selection | read and write EC RAM by port pairs | NB05 fans, sensors, backlight |
| **NB05 and TUXI fan attributes** | registers of each fan, manual mode | `fan<n>_pwm`, `fan<n>_pwm_enable` | NB05 EC, ACPI methods |
| **NB05 power profiles** (`tuxedo_nb05_power_profiles.c`, mode events of `tuxedo_nb05_keyboard.c`) | `last_chosen_profile`, `profile_changed_by_driver_flag`, a 300 ms timer, a work | `platform_profile` read/write, event, timer callback, work | WMI method under `nb05_wmi_aa_access_lock` |
| **NB04 backlight and power profile** | two WMI interfaces, LED state, profile | probe and remove in any order, LED and profile stores | firmware methods |
| **ITE controllers** (8291, 8291_lb, 829x, 8297) | LED values, a frame, a mode | LED stores, `buffer_input`, mode key, sleep, removal | USB HID messages |
| **tuxedo_io** (`tuxedo_io/`) | identified device, TDP limits | ioctls for fans, performance profile, mode, TDP, camera | Uniwill and Clevo interfaces |
| NB04 and NB05 sensors, NB05 backlight, NVIDIA power control, stk8321, gxtp7380, compatibility check | little or none | reads, single register writes, IIO, a table lookup | EC, I2C |

What is hard here, and what correctness means for it:

* **State without a lock, changed from several contexts.** The fan control
  statics and the NB05 profile variables are plain globals. Right means:
  whatever the order, no context's work is lost or undone by a late other one.
* **Read-modify-write of shared registers.** The register access is atomic,
  the two accesses of a change are not: 0x0751 (full fan mode, profile), 0x0767
  (colour, powershare), 0x078c (brightness, enable), the Clevo charger and fn
  lock methods, which take several settings at once. Right means: changing one
  setting never changes another.
* **Deferred work that reschedules itself**, cancelled from contexts that race
  with those that schedule it. Right means: it is never lost while needed, never
  runs after it was to stop, and cancelling it never blocks for ever.
* **Sequences of accesses of which some fail.** Right means: a flag that says
  "done" is true only if the hardware agrees.
* **A mailbox protocol with time limits.** Right means: accesses are atomic and
  a success that is reported really happened.
* **Feedback loops through firmware** (a write causes an event that causes a
  write). Right means: the loop ends, at the right value.
* **What is remembered, shown and restored.** The EC and the controllers forget
  settings when the machine sleeps. Right means: what a program is shown is what
  the hardware does, before and after.
* **Sequences of messages** to a device with one cursor, from several senders.
* **Teardown and re-creation**: flags, works, timers and pointers that outlive a
  device; buses that probe and remove in any order and concurrently.

The list of concrete hazards, each at its line, is in `PROJECT.json`.

## 2. Modules

| module | what it models | checked by | proved in |
|---|---|---|---|
| `UniwillFanRestart` | fan control through full fan mode | `MCUniwillFanRestart` | `UniwillFanRestartProofs` |
| `FanClamp` | the speed limits of all drivers | used by `UniwillFanTable` | `UniwillFanTableProofs` |
| `UniwillFanTable` (extends `FanClamp`) | fan control through EC fan tables | `MCUniwillFanTable` | `UniwillFanTableProofs` |
| `EcRam` | abstract: an EC RAM of atomic bytes | as a property of `UniwillEc` and of `Nb05Ec` | implemented by those two |
| `UniwillEc` (instantiates `EcRam`) | the two EC access paths | `MCUniwillEc` | `UniwillEcProofs` |
| `Nb05Ec` (instantiates `EcRam`) | access by index and data ports | `MCNb05Fans` | `Nb05Proofs` |
| `PwmFans` (extends `FanClamp`) | the fan attributes of NB05 and TUXI | `MCNb05Fans` | `Nb05Proofs` |
| `Nb05Profile` | power profile, rewrite work, timer, events | `MCNb05Profile` | `Nb05ProfileProofs` |
| `UniwillSettings` | settings and LEDs in shared registers, sleep, events | `MCUniwillSettings` | `UniwillSettingsProofs` |
| `UniwillFeatures` | feature cache, ROM id, BIOS options | `MCUniwillSettings` | `KeyboardProofs` |
| `KeyboardLifecycle` | interfaces and the driver that come and go | `MCKeyboard` | `KeyboardProofs` |
| `TouchpadFilter` | the i8042 filter and its work | `MCKeyboard` | `KeyboardProofs` |
| `ClevoSettings` | charging thresholds and fn lock | `MCKeyboard` | `KeyboardProofs` |
| `ClevoLeds` | keyboard backlight | `MCKeyboard` | `KeyboardProofs` |
| `Ite8291` | the ITE controller with rows and colour corrections | `MCDevices` | `DeviceProofs` |
| `Ite829x`, `Ite8297` | the ITE controllers with a message per key, or one colour | `MCDevices` | `DeviceProofs` |
| `Ite8291Lb` | the ITE light bars | `MCDevices` | `DeviceProofs` |
| `Nb04` | WMI interfaces, backlight, power profile | `MCDevices` | `DeviceProofs` |
| `TuxedoIo` | identification, TDP limits, camera switch | `MCDevices` | `DeviceProofs` |

The modules form two layers. `UniwillEc` and `Nb05Ec` implement `EcRam`, and the
modules above take what `EcRam` promises for granted: one register access is one step,
which may fail. In the fan modules and `UniwillEc` a thread inside a function is a
program counter, one label per access to shared state; a local that lives across
steps is in `arg`, and is reset when the call returns. Where a handler is a straight
list of accesses (settings, LEDs, ITE messages, fan curves) a thread has a queue
of what it still has to do, and takes one entry per step.

`MCUniwillSettings`, `MCKeyboard` and `MCDevices` put modules side by side that share
no state in the code: a variable `part`, chosen in the initial state, says which one moves,
so the state spaces add up and do not multiply.
`MCNb05Fans` does the same with its two layers.

### UniwillFanRestart

The EC obeys speeds written to 0x1804/0x1809 only in full fan mode, and ramps up
after a while. So the first `uw_set_fan` starts a delayed work which switches the
mode off and on, writes the speeds ten times over, and queues itself again for
50 minutes later.

* `SetCur`..`SetWrite`: `uw_set_fan` and `direct_fan_control`. The test of
  `direct_fan_control_started`, its assignment and `schedule_delayed_work` are
  separate steps.
* `AutoCancel`..`AutoZero`: `uw_set_fan_auto`. `cancel_delayed_work_sync` is two
  steps, taking the pending bit and waiting for the handler; in between, queueing
  has no effect, as in the kernel.
* `WorkStart`..`WorkRequeue`: the handler. Reading a speed and writing it are
  two steps.
* `Suspend`, `Resume`: run by the PM core, through the same steps. User threads
  are frozen then (the PM core freezes tasks before it calls devices); the restart
  work is not.
* `Remove`..`ProbeWrite`: driver unbind and bind. With no interface a read leaves
  the caller's uninitialised byte: any value.
* A failed read gives 0xfe (all bits but one set), a failed write changes nothing.

Left out: the delay inside the work (it is "some time later") and the registers
beside the full fan bit and the three profile bits.

### FanClamp and UniwillFanTable

`FanClamp` has the two variants of the clamp (they differ in how the exact middle
rounds) and the three-byte packing of `W_CL_FANSPEED`. `UniwillFanTable` has
`uw_set_fan`, `uw_init_fan` and `uw_set_fan_auto` for devices with fan tables. A
row of both tables (six registers) is one step, `RowWrite`; each write is tried
`Tries` times with read-back, and whether it took in the end is a choice. The
ioctl truncates the 32-bit argument to a byte (`CallSet`). `Init` has the tables
off, or on and complete, as an earlier load of the drivers may have left them.

### EcRam, UniwillEc and Nb05Ec

`EcRam` is what the drivers above take the EC for. An access takes effect in one
step between call and return; success means that it did, with the byte reported;
failure says nothing. `UniwillEc` models `uniwill_wmi.c`: per access the module
parameter chooses the WMI method, or the mailbox (address bytes, data, request
flag, poll for the ready flag, clear). `EcServe` is the EC. `count` and `ready`
follow the poll loop, including that an answer which arrives with the very last
poll counts as a timeout.

`Nb05Ec` models the ports of `tuxedo_nb05_ec.c`: the high byte of the
address, the low byte and the data each take a write to the index port that selects a
register and an access to the data port, six in all and under one mutex (`Acquire`,
`Select`, `Transfer`, `Unlock`). The `Transfer` of the data is the step
that maps to `Perform`. A port access cannot fail.

Assumed of what is outside the source: the EC serves a request in one step while
its flag is up, and drops it when the driver clears the flag; a successful WMI
method returns a buffer.

### Nb05Profile

The mode key changes the profile in firmware; the driver puts the last chosen one
back when the event arrives. Its own writes cause events as well, so for 300 ms
after a write a flag makes it ignore events; then a timer clears the flag and
looks again. Actions: the attribute's store (`StoreBegin`..`StoreLast`), the
timer callback (`TimerExpire`..`TimerRewrite`), the work
(`WorkStart`..`WorkWrite`), the key and the event (`Key`, `Notify`).
`profile_changed_timer_bump` is two steps, flag and timer, which the callback of
the previous timer can fall between. The work reads `last_chosen_profile` in the
comparison and again for the write; the compiler may or may not keep the first
value (`WorkFlag`). Two programs with the attribute open can store concurrently.

Assumed of the firmware: a failed call changed nothing; it may or may not send an
event for the driver's own write.

### PwmFans

The hwmon attributes of NB05 and TUXI fans. On a Pulse a speed is a curve of
seven zones that have it as it is and two hot zones that never go below a minimum;
firmware before 9.10 wants the same curve in rpm too. Before the first store a fan has a speed of the firmware's
choice (`Starts`), which no clamp has seen. A store converts and clamps
(`Duty`, `Rpm`), and then writes register by register without a lock, so stores
to one fan mix. An InfinityFlex has one register, a TUXI fan an ACPI method that
can fail, return an error, or, between `remove` and `probe`, not exist. `Show` gives the speed back as
pwm, with a truncating conversion each way; `StoreSeen` is a program that restores
what it was shown.

### UniwillSettings and UniwillFeatures

A handler is a list of updates; an update of a bit is a read of its register and a
write of the whole of it (`Begin`, `EcWrite`, `Keep` for what the driver remembers). Fields
that share a register are in one class, `Same`. Handlers are the stores of programs,
the cable event, the backlight key, and probe, suspend, resume and remove. The cable
and a sleep make the EC forget the settings in `Forgettable`; the
handlers restore them from `last`. The quirks are there: black is written as brightness 0 and
remembered as asked (`black`), so that the next cable or sleep brings the light back in a colour of the EC's own; the charging priority is remembered where it is in the register, which a
`bool` makes 1, so that it can be restored; where the EC leaves the brightness to the driver, the
key's event changes it (`Notify`). `EcFails` overwrites the rest of a register
where the result of its read is not looked at, and gives the handler of the brightness key a wrong brightness to
remember and show. Left out: the white LED's write to a second register that wakes the light up, and what is skipped when
the barebone id cannot be read in `uniwill_leds_init`.

`UniwillFeatures` has `uniwill_get_device_features` with concurrent callers, feature by
feature, and what a failed read does to the cache; `set_rom_id` byte by byte; and
`uw_show_hidden_bios_options`.

### KeyboardLifecycle and TouchpadFilter

Three bus devices (Uniwill WMI, Clevo WMI, Clevo ACPI) are probed and removed, each by a thread
with a label per step (`ProbeDevice`..`SetCurrent`, `RemoveDevice`..`Deactivate`), with
the two mutexes of the code where the code takes them; the four statements of `tuxedo_keyboard_remove_driver` that
unregister and forget are four steps, under none. A thread that follows a null or stale
pointer is dead and keeps its mutexes; why is in `oops`. Events (`Press`, `Report`) come from
the moment the bus delivers them: ACPI from the start of a probe, WMI from its end. The key for the
control center is reported without a look at the input device, the others with one (`Reported`). The touchpad key comes from the
filter by a work that sleeps 50 ms and that nobody cancels (`TouchpadKey`, `WorkSleeps`, `WorkReports`); the filter is there
before the input device and outlives it.

`TouchpadFilter`, of which the work is in `KeyboardLifecycle`, compares the filter's position with the true one, the longest end of all
the bytes so far that starts the sequence, so that every sequence of bytes is covered by finitely many states.

### ClevoSettings and ClevoLeds

A store of one charging value reads all three and writes all three, by one method or by two
of which the second saves; the legacy thresholds are rounded to a list of values. The
fn lock shares its method with the keyboard's status. `ClevoLeds` has one brightness in firmware behind
one LED per zone; a store is a list of method calls, interleaved with stores to other
LEDs and with key events.

### The ITE controllers

Each has LED data, the state of the chip, and per sender a queue of messages: the sequences
the drivers send without a lock. A row message goes where the last announcement
said, whoever announced. `Ite8291` also computes the colour corrections, whose products are
ints kept in a byte. `Ite829x` has the mode key: the notifier remembers the last key and
queues a work, which reads it later, on a queue that does not stop for sleep. Nobody looks at the result of a transfer, so in each
module every message is received or lost. The light bar's probe and resume send
the LED as it is when they come to it, while stores may come: `Ite8291Lb` has the driver and the stores as two senders.
Before sleep programs are frozen. The 8291 and the light bars are switched off then; the suspend handlers of the 829x and the 8297 do
nothing, and neither does the model's. The chip may forget what it shows.

### Nb04 and TuxedoIo

`Nb04`: interface AB comes and goes under the backlight driver; the firmware takes no colour before
its status was read, which may take three tries. The power profile is remembered, read again and written in three
steps, by stores and by probe, which does not look at the result. `TuxedoIo`: the limits of
all 27 machines, the 2 W steps of some; features that are read again until everything was read once, by tuxedo_io and by
tuxedo_keyboard, where a failed read makes the model 0, and with it the machine one without limits; and the camera, which
some firmware toggles on every write.

## 3. Runs

Run from this directory: `tlc -config <run>.cfg <module>`.

| run | module | shows | bounds |
|---|---|---|---|
| `fan_restart` | `MCUniwillFanRestart` | `TypeOK`; after a restart the fans are in full fan mode (`FullModeBetweenRestarts`); after auto no late restart comes (`AutoIsFinal`); a suspend keeps the requested speeds (`SuspendKeepsRequest`) | 2 programs, 2 calls, 1 suspend, 1 rebind, 2 speeds |
| `fan_restart_live` | `MCUniwillFanRestart` | manual control always has a restart to come (`Supervised`); a stale speed is repaired (`RestartRepairsSpeed`); no caller hangs on the self-requeueing work (`EveryCallReturns`) | 2 programs, 2 calls, 1 failure |
| `fan_table` | `MCUniwillFanTable` | only workable speeds reach the EC (`SpeedInRange`); tables are complete before they are used (`SwitchOnOrder`); `fans_initialized` is true to the EC (`InitializedMeansInUse`); requests arrive (`RequestReachesEc`); full fan mode is not ended behind its user (`FullModeIsTheUsers`) | 2 programs, 3 calls, 2 failures, 3 tries, 2 rows |
| `ec_access` | `MCUniwillEc` | requests are not mixed up (`CommandIntact`); refinement of `EcRam` (`ImplementsRam`); every access returns (`AccessReturns`) | 2 threads, any number of accesses, 2 addresses that differ in both bytes, 2 polls |
| `nb05_fans` | `MCNb05Fans` | the port accesses refine `EcRam` (`ImplementsRam`); hot zones are cooled and no fan stalls (`HotZonesCooled`); a store that was alone is in force in all zones and both curves (`LastStoreIsInForce`); saving and restoring stops no fan (`RestoringStopsNoFan`) | 2 threads and 2 addresses; 2 writers, 1 fan that starts at 5 or 48, pwm 33, 64, 255, old and new firmware, 2 + 1 zones, 3 stores, 1 failure |
| `nb05_profile` | `MCNb05Profile` | at rest the firmware has the chosen profile (`RestsOnChosenProfile`); the driver comes to rest (`ComesToRest`) | 2 stores, 1 key press, 2 undelivered events, 1 failure |
| `settings` | `MCUniwillSettings` | settings are in force whatever happens to others in their register (`ChosenInForce`); what is shown is in force (`ShownIsInForce`); asleep it is dark (`AsleepIsDark`); cached features are the device's (`CachedFeaturesTrue`); the ROM id is right when it is said to be (`RomIdRight`) | 1 program, 1 event handler, the driver core; 2 stores, 1 event, 1 sleep, 1 failure, at most 3 of these in one behaviour (a failure counts for 2); 2 callers; 3 ROM bytes, 2 failures |
| `keyboard` | `MCKeyboard` | at most one platform device (`OneDevice`); a driver while there is an interface, and ACPI before WMI (`DriverServesAcpi`); a bad pointer is followed for known causes only (`OopsHasCause`); the touchpad key is found (`TouchpadKeyFound`); charging as asked and saved (`ChargingAsAsked`); the fn lock leaves the status alone (`FnLockAlone`); LEDs and keyboard agree (`KeyboardShowsLeds`) | 4 probes, 1 failure; any number of bytes; 2 programs, 3 calls, 1 lost; 2 desktops, 2 LED calls, 1 sleep, 1 error |
| `devices` | `MCDevices` | each ITE device shows its LEDs, up to what lost messages carried (`KeyboardShowsFrame`, `LightBarShowsLed`, `RgbShowsLeds`), and the 8291 and light bars are dark asleep; one press, one mode (`OneAdvancePerPress`); NB04 light and profile as shown (`Nb04ShowsState`); power limits (`TdpAsAsked`); camera (`WebcamAsAsked`) | 2 senders and the PM core; 2 rows of 1 key, 1 colour correction with zones and without; 3 stores or events (4 for the 8297, 5 for NB04) each, any message lost; all machines with all values at the limits, 3 ioctls |
| `fan_restart_rebind` | `MCUniwillFanRestart` | expected violation, finding 1 | 1 program, 1 rebind |
| `fan_restart_profile` | `MCUniwillFanRestart` | expected violation, finding 2 | 1 program |
| `settings_remove` | `MCUniwillSettings` | expected violation, finding 3 | as `settings` |

**Why these bounds.** The races are between two parties (two callers, or a caller
and the kworker or timer), each needing one call in progress and one before it.
One rebind or suspend is a whole cycle of state that should not survive it. In
`fan_table`, three tries against two failures makes `InitializedMeansInUse`
meaningful for a write that fails twice and succeeds; two rows exercise an
iteration of the loop that goes on and the one that ends it; the requests 24, 25, 201 and 316 sit at each
edge of the clamp, above the maximum, and beyond a byte. `RampWrites = 1` stands
for the ten rounds, which repeat the same two writes, and `Polls = 2` for thirty:
both have an iteration that goes on and one that ends. In `nb05_fans` the pwm values
convert to a duty below, at and far above the speed at which a fan starts, and
two low zones and a hot one have the boundary between them, and of the speeds a fan starts with one is
below the least and one above it; in `settings` three things
beside probe and remove are enough for a store, an event and a sleep to overlap in
any order; in `keyboard` four probes let both Clevo interfaces come back once while
the other leaves; the asked thresholds lie on an offered value, between two and outside. In `devices` two
rows are the top and the bottom one; the correction that is tried treats each of them in its own way (`FrameAlwaysShown` covers
all corrections), and three stores let one overlap probe, a lost message or another store and one come after that. The
theorems hold for every value of these constants.

**Deadlock.** The runs that bound calls, suspends and key presses say
`CHECK_DEADLOCK FALSE`: an idle driver whose bound is used up has nothing to do.
In `keyboard` a thread that died with a mutex stops the others, as it would.
`ec_access` has no such bound and checks deadlock.

**Symmetry.** The callers are interchangeable in `fan_restart` and `fan_table`,
which check no liveness. The liveness runs use none.

**Fairness.** Weak fairness of threads inside the kernel (they are scheduled), of
the work (timers expire, kworkers run), and of event delivery. A kernel mutex hands
over to its first waiter, hence strong fairness of `Acquire` in `UniwillEc`.
Nothing is assumed of user space, and in `UniwillEc` nothing of the EC: it may never
answer. `RestartRepairsSpeed` is about what happens once the callers rest, and says so.
The runs `nb05_fans`, `settings`, `keyboard` and `devices` check safety only, and state none:
what they say of a state in which nothing is under way needs no promise that one comes.

**Preconditions.** Some properties hold only where the code can be expected to keep
them, and name the condition. The flags are history variables that an action of the
model sets when it happens. Where a later call makes good for it the flag is reset
(`settled`, `chosen`, `misjudged`, `crossed`, `webcam_odd`, the flags of the ITE and NB04 modules); `mixed`,
`late` and `blind` last for the rest of the behaviour. What happens under such a flag is what the code does there, and for
several hazards it is the damage itself: `PROJECT.json` says so at each.

* `OneControlProgram`, `OneProgram`: one program sets the fans (on these notebooks
  the control daemon). With two, auto and set can interleave so that `fans_initialized`
  or the full fan mode ends up wrong. `Supervised` and `SpeedInRange`
  need no such condition.
* `RetriesSuffice`: no read fails and fewer writes fail than are retried. The table
  switches are read once, unchecked, and 0xfe looks like "already on".
* `~late`, `~blind` in `RestsOnChosenProfile`: no store takes longer than the 300 ms
  timer, and no firmware call of the kworker fails. A store slower than the timer
  races the rewrite, and the driver may rest on the other profile; a work whose call
  failed does not try again.
* `settled` (NB05 fans): the last store of the fan was alone with it.
* `chosen[f] = Unknown`, `disturbed` (Uniwill settings): updates of one
  register overlapped, or an access failed; an event fell into a suspend. Either update may then be lost.
* `spoilt` (features), `stuck` (ROM id): the read of the model failed for one
  caller while another asked or had just been told; a byte did not take in three tries.
* `overtaken`, `failed` (lifecycle): an interface left while another one came, which no
  lock covers; a step of the driver's creation failed. `OopsHasCause` lists what leads to a bad pointer: these two; an event
  while its own device is probed, or of an interface that is not the active one; and the touchpad key while
  a driver is created, removed, or gone. All of them do happen in the model. What it rules out is an event of the active
  interface, or the touchpad key of a driver that is there, without a failed creation.
* `inside` (touchpad): the sequence began within another one the filter had started on.
* `mixed`, `crossed` (Clevo): calls for the same object overlapped, or a method failed.
  `mode_lost`: the firmware forgot the backlight's mode, which is not restored.
* `disturbed8291`, `disturbed829x`, `overlap8297`: sequences of messages
  overlapped, or a message was lost, and none has overwritten it since; on the 829x apart for the brightness and for the keys.
  `lostLb`, `staleLb`: the last message of a kind was lost; probe or resume had read the LED when a store changed it.
  `misjudged` (power limits): written while the unit was not known; the property then states the doubled limit. `late`: a key came between
  the start of the work and its look at the key.
* `led_failed`, `profile_odd` (NB04), `webcam_odd`: a call failed or overlapped.

## 4. Findings

1. **A rebind leaves the fans without full fan mode.** `uniwill_keyboard_remove`
   cancels the restart work but leaves `direct_fan_control_started` set
   (`uniwill_keyboard.h:2266`). The next probe writes 0x00 to 0x0751, and
   `uw_set_fan`, seeing the flag, writes speeds without ever switching the mode back
   on. Run `fan_restart_rebind`. The statics survive because only the device is
   unbound, not the module (for instance when the WMI driver's interface goes
   and comes back).
2. **A performance profile can be lost.** The restart work and
   `uw_set_performance_profile_v1` both read, change and write back 0x0751 with no lock
   over the two accesses. Run `fan_restart_profile`.
3. **Removal inverts the keyboard backlight.** Probe keeps bit 1 of 0x078c, which says
   that the backlight is *disabled* (`uniwill_keyboard.h:2207`); remove passes it
   to `uniwill_write_kbd_bl_enable`, which takes *enable* and inverts it
   (`uniwill_keyboard.h:2253`). Run `settings_remove`.

## 5. Proofs

`tlapm <module>` checks each. What a run shows on a small instance, these show
for every value of the constants, under the named assumptions of the modules
(`ThreadAssumption`, `PortAssumption`: thread names differ; `DataAssumption`, `TableAssumption`,
`EcAssumption`, `ProfileAssumption`, `Nb04Assumption`, `LifecycleAssumption`, `TuxedoIoAssumption`, `ClevoSettingsAssumption`: sets are of the right kind, special values are
distinct, bounds are naturals; `FansAssumption`: there is a fan, a pwm is a byte, a curve has a zone that
is not hot, the firmware starts with duties its fans can have, 0 to 184; `Ite829xAssumption`: there is more than one key, a mode has a colour, there is a letter's
colour for each key, and the kworker and the PM core are no programs; `FeaturesAssumption`: the ROM id has a
byte; `SettingsAssumption`: values are within the widths the code cuts them to, and neither special value is a
colour; `ClevoLedsAssumption`: a brightness is a byte, and the kernel threads are no programs; `Ite8291Assumption`: there
is a key, a colour is three bytes, a brightness at most 50, and the PM core is no program). None restricts an instance the code allows.

* **UniwillFanRestartProofs**: `TypeCorrect` and `AlwaysSupervised`
  (`Spec => []Supervised`). `Supervised` is not inductive: that `started`
  is backed by a work depends on where the other threads are. `SInv` adds `TypeOK`, `CoreInv` (only the
  driver core is in the steps of remove and probe, and only after a rebind began) and
  `PmInv` (the PM thread is idle while the system is awake or asleep). The argument: only `SetStart` raises the flag, and it leaves
  its thread at `set_queue`; queueing has no effect only while somebody
  cancels, and who cancels is about to clear the flag.
  `FullModeHolds`, `AutoEndsRestarts` and `SuspendRestoresRequest` are about one control program, and need to know
  where it is: one thread at most is in the driver then (`WhoInv`); the labels of `uw_set_fan` and
  `uw_set_fan_auto` say how far the flag and the speeds have come (`SetInv`, `AutoInv`), where a suspend and a
  resume are two more such calls, with the speeds kept in the suspend copies in between (`RequestInv`); while
  the flag is up the work is pending or in its handler (`RestartInv`); and the full fan bit is on while the work is
  waiting for later, and off once the driver holds the fans no longer (`FullBitInv`). The last needs to say
  for each label of the work what it will still write, as a thread may cancel it anywhere.
  `CallsAlwaysEnd`, `CancelsAlwaysEnd` and `RestartsAlwaysRepair` are what `EveryCallReturns` and `RestartRepairsSpeed`
  rest on besides fairness: a number of steps left, of a call (`CallLeft`, at most 8) and of the handler (`HandlerLeft`, at most
  `4 * RampWrites + 5`), that its own steps lower and nobody else's change. That holds for a call because
  resume runs the steps of `uw_set_fan` twice and not more, and because what is unbound is not being removed (`WaitInv`); for the handler
  while somebody waits for it, because the pending bit stays taken until then (`WaitInv` again), so neither the handler nor another
  caller can queue it. While nobody calls, the set of stale speeds (`Stale`, the one the handler is about to write included) only shrinks.
* **UniwillFanTableProofs**, first about `FanClamp`: the clamp is safe and monotone, the two variants agree
  but at the middle, and the Clevo packing does not spill from one byte to the next.
  Then `SpeedAlwaysInRange`, by an invariant that also
  bounds the locals of the threads on their way to a write, from the
  `FanClamp` lemmas; `InitializedIsInUse` and `SwitchedOnInOrder`, by `ProgressInv`, which
  says for each label of `uw_init_fan` and `uw_set_fan_auto` which rows and switches
  have been written by then if one program runs and retries suffice. `RequestsReachEc`: the row, the direct
  register and the driver's copy take the speed of the call in that order (`AskedInv`,
  `RequestInv`). `FullModeStaysTheUsers`, an action property: the steps that write the mode are not
  reached while the user has it on (`FullInv`), so that only the user's call is left.
* **UniwillEcProofs**: `CommandAlwaysIntact` and `AccessIsAtomic`
  (`Spec => ImplementsRam`). The invariant says: who is inside holds the lock (`LockInv`), has a request
  (`RequestInv`), has filled the mailbox up to its label (`MailboxInv`), the flags belong to it
  (`FlagInv`), and a byte it is going to report is the byte that was moved (`OutcomeInv`). The last
  makes the step simulation go through: `EcServe` and the WMI method map to
  `Perform`, or `Unlock` to `Return`, the rest to a stutter. The timeout case is why `EcRam`
  lets a failed access have taken effect. The refinement mapping is written out (`Ram == INSTANCE EcRam WITH mem <- mem,
  req <- req, moved <- moved, ret <- ret`, here and in `Nb05Ec`): the abstract memory is the EC's, and the abstract
  request, moved byte and result are those of the thread; mailbox, flags, ports and mutex are hidden.
  `AccessesAlwaysEnd`: the steps a thread has left in an access (`StepsLeft`, at most `Polls + 9`) get fewer with each of its
  steps and are changed by no other step, neither the EC's nor `ec_direct_io`'s. With a mutex that is handed over that is `AccessReturns`.
* **Nb05ProfileProofs**: `RestsOnLastChosen`. As long as the
  firmware has another profile than the one last chosen, something must be under way
  that will look again: an event, the timer, the work or a store that is about to start
  the timer (`RepairInv`). To be inductive this needs that the flag is up only while the
  timer is going to expire (`FlagInv`: an ignored event does no harm), that the work
  is queued again, or will be, before it writes (`WorkInv`), and that the timer a store started
  outlasts the store if `~late` (`StoreInv`). `OwnStepsAlwaysEnd`: a number of steps the timer, the kworker and the event handler have left
  (`WorkLeft`), in which an undelivered event counts less than the write that may cause it, gets smaller with each of these
  steps that does not fail; so the rewrites of the driver do not keep it busy through the events they cause. With fairness that is `ComesToRest`.
* **Nb05Proofs**: `PortAccessIsAtomic`: the holder of the mutex is alone in the accesses
  (`LockInv`), has selected what its label says (`RegisterInv`), and has moved the data
  it reports exactly from the last access on (`MovedInv`); so the data transfer maps to
  `Perform`. `HotZonesAlwaysCooled`: every write that is still in a queue is harmless by itself
  (`CoolWrites`), so no interleaving can do harm to a register that was written. `RestoringNeverStops`:
  a duty of at least 46 of 184 is to pwm and back at
  least 45, which the clamp does not take to 0 (`RoundTrip`); so only a request for 0, or a value read while the duty was
  below 46, puts a write in a queue that stops the fan, and the duty is below 46 only where the firmware had it so at the start,
  or where 0 was asked for (`StopInv`: the fan is in `off`), however often settings are saved and restored.
  `LastStoreAlwaysInForce`: while a store is alone with its fan, each register of the curve has its target or
  the write to it is still in the queue (`ForceInv`); and the conversions to duty and
  to rpm give 0 for the same pwm values (`UnitsAgree`).
* **UniwillSettingsProofs**: `ChosenAlwaysInForce`, `ShownAlwaysInForce`, `AsleepAlwaysDark`. The invariant `SInv`
  says why a setting that differs from the one chosen is going to be right: some thread is in an update of it, or is
  still going to restore it, or is in an update of its register that overlapped another and will say so
  (`OwesInv`, and `LastInv` for what the driver remembers). What is to be in force is `Wanted`: the chosen value, but 0 for the
  brightness while the colour is black. An update that overlapped none is alone in its register
  (`AloneInv`) and what it has read is still there, with the value chosen in its own place (`HeldInv`). When the
  firmware forgets settings, the handler of that event or resume has all of them in its list, which for charging needs
  that it is offered from probe to remove (`AvailInv`); and no thread but a store, of which the LED core lets in one at a
  time, changes the colour that is remembered (`OwnersInv`; `StateInv` says who may be at work in which state). These and `CoreInv` make up `SInv`. Every action
  is an instance of one of two lemmas: a thread takes a new list (`Arrives`) or does its first update (`Leaves`).
  `SleepInv` follows the two updates of suspend.
* **KeyboardProofs**, about five modules:
  - `AtMostOneDevice`: `bundles` is 1 exactly while `platform` says so
    (`DInv`). Creating holds `init_lock`, removing only `adding_lock` (`MutexInv`), so the two are not
    mutually exclusive. What keeps them apart is `PhaseInv`: a driver that is being created is not yet the
    `current` one, only a current one is removed, and a current one has its device. `DriverAlwaysServes` adds
    which interfaces there are at which label and which of them is active (`InterfaceInv`), and
    what there is of a driver as long as nothing failed or was overtaken (`ServedInv`, `InputInv`). `PointersNeedCause`: each
    pointer that may be bad when it is followed has its own reason. The driver's input device is good from one label of its creation to one of its
    removal, even while interfaces come and go at once (`PointerInv`); a freed one is met only after its registration failed
    (`FreedInv`); nobody finds no active interface or no current driver unless creation and removal overlapped or failed
    (`ApartInv`, `ServedInv`); and events come only between the two ends of a probe (`HandledInv`). So an event of the active interface
    and the touchpad key of a driver that is there find an input device unless its creation failed; the event of a device that is still probed
    and the key work before and after the driver's life do not, which the code allows and `OopsHasCause` says.
  - `FnLockStaysAlone`: unless calls overlapped or failed, one program at most is
    in the steps of the fn lock, and what it read last is still the keyboard's status (`AloneWithKeyboard`); the steps
    are those of somebody who stores the lock (`JobInv`), so the charger's calls do not matter.
  - `ChargingAlwaysAsAsked`: the steps of a charger call are those of somebody who stores one of its values (`ChargeJobs`). Unless calls
    overlapped or failed he is alone there, has found the method the device has, and what he read is what is saved; until he writes the status last,
    what is saved is what was in force before, and then both are what was asked for (`AloneWithCharger`; together `ChargeInv`).
    What is written is the nearest of the offered thresholds by `FirstOfNearest`, for every list: the loop of `array_find_closest_u8` is a
    recursive function, which exists (`LoopEnds`) and has one of the nearest of the first `i` values at `i`
    (`OneMoreValue`). The induction is over a set of numbers (`NumbersFromOne`), from the least number outside it, because
    the induction theorems of the library cannot be instantiated.
  - `LedsAlwaysShown`: a call of `clevo_leds.h` is a list of steps, what is left of it is the end of such a list, and lists are put
    together from the lists of the zones (`Call`, `Ordered`: which step comes right after which; `CallsJoin`, `TailOrdered`). Unless calls
    overlapped, only switching the backlight off goes together with a call (`TurnsInv`), so what a thread keeps for its next step
    is what the firmware has (`LevelInv`); and brightness, colour of each zone, switch and mode agree with the firmware, or the step
    that makes them agree is still to come (`PendingInv`).
  - `TouchpadKeyAlwaysFound`: the longest end of all bytes so far that starts the sequence follows from the
    one before and the new byte (`LongestEnd`, from `EndsFit`), so that a small automaton keeps it; the filter is at the same
    place, unless the sequence began within another (`PlaceInv`).
  - `CachedFeaturesStayTrue`: what a caller has read so far without an error is as the device has it (`Knows`, `FeatureInv`),
    and the cache is taken for complete by such a caller only. `RomIdBecomesRight`: the bytes before the one that is
    being written are right, unless one is stuck (`RomInv`).
* **DeviceProofs**: `Nb04Shows`, from: a bound backlight driver has read the status (`ReadyInv`), a store that arrived
  lit the keyboard as the LED says (`LitInv`), and as long as no write of a profile failed, probe's included, or overlapped another, what
  a writer has read is still the profile, which is in force when nobody is going to write it (`ProfileInv`).
  `CameraObeys`: who is alone since it read the camera still has its true state (`AloneInv`), and setting what differs
  is right for both kinds of firmware. `LightBarObeys`: the invariant says what the driver and a store have left to send in each state
  (`DriverSends`, `StoreSends`), of which the driver's is what the LED is now unless a store came in between. Each part of the
  light bar's state then is right, or the message for it is still to come, or the last such message was lost (`PowerRight`, `OnRight`,
  `ColourRight`, `BrightnessRight`); and what suspend and remove send ends dark, where the messages a 0x6010 may ignore come
  only when its brightness is 0 already (`DarkInv`).
  `RgbAlwaysShows`, for the 829x: only the work sends during sleep, and only with the input lock (`SendingInv`). As long as
  sequences did not overlap and no message was lost, one sender at most has messages (`OnlyOne`); a key that
  does not show its colour yet has its message in a queue (`KeyInv`), the brightness is the first message of a queue (`LevelInv`),
  and an animation that plays is that of the mode or is about to be painted over (`AnimationInv`). For the 8297, the colour that is
  sent last was put together from the values there are now (`ColourInv`). `PressesCount`: a press the work has not counted yet
  is the one it will find, as long as no key comes between its start and its look (`PressInv`). `LimitsAsAsked`: each maximum of
  every table fits the byte it becomes (`Rows`); what was asked is in force in the unit the driver took the firmware for (`InForce`);
  and the driver never takes watts for steps of 2 W, and errs in nothing once all features were read (`Judgement`), so that a
  limit in the wrong unit is one that was set before a read that had failed.
  `FrameAlwaysShown`, for the 8291: every list of messages that starts while awake is `Complete`, that is enough to show all keys
  (`StateComplete`, `WakingComplete`), and those of sleep and removal only darken (`OffDark`, `RemovalDark`). As long as nothing was
  disturbed one sender at most has messages (`TurnInv`), and what is not shown yet is still among
  them (`ShownInv`, and `PoweredInv`, which holds until the switch itself is lost); a row is announced by the message
  before it, so that it goes where it should. Of all corrections only the one with factors above 255 could wrap, and
  it does not, as the colour was reduced before (`NoColourWraps`).

Only model-checked:

* the liveness properties `RestartRepairsSpeed`, `EveryCallReturns`, `AccessReturns` and `ComesToRest`: what a fair
  schedule makes of the decreasing numbers above needs `ENABLED` and the fairness, which the prover cannot do. The theorems say that
  each of these waits gets shorter and is not made longer; TLC checks, on the small instances, that it is over some time.

Each other property the passing runs check is stated by a theorem.

## 6. Not modelled

* **Parts of modelled components**: in tuxedo_io the pure reads, the switches that are
  one firmware call and the char device; NB05 profiles: removal; keyboard: module
  exit, the key maps and events that only report a key (one kind of event stands for all); the
  byte layout of messages and method buffers; stores of programs that go on while the Uniwill settings
  are removed, beyond what the attribute's own removal waits for.
* **Whole parts**: the sensors of NB04 and NB05 (reads), the NB05 backlight (one register), NVIDIA
  power control (two bits and an offset, most of it in debug builds), stk8321 (an IIO driver under one
  mutex), gxtp7380 (a GPIO toggle), the compatibility check (a table lookup).
* **Abstractions to know of**: user programs are frozen during sleep and in no
  store, as the PM core sees to; machines with a limit above 255 W are taken to count in steps of 2 W
  (otherwise the byte would wrap); of the colour corrections of the 8291 `devices` tries the one that differs
  by row, on a model with zones and on one with rows, and the theorem all of them.

Hazards of the code that no property covers:

| where | what |
|---|---|
| `uniwill_keyboard.h:1951` | the table switches are read once; a failed read looks like "on" (`RetriesSuffice`) |
| `uniwill_keyboard.h:2112` | auto and set of two programs interleave (`OneProgram`) |
| `uniwill_wmi.c:111`, `clevo_wmi.c:141` | a firmware method that returns no buffer, or fails, leaves an uninitialised result |
| `clevo_keyboard.h:242` | the backlight mode is cut to a byte before it is clamped: 256 is mode 0 |
| `tuxi_fan_control.c:96`, `:134` | `fan1_pwm_show` assigns the method's status over the speed; `fan1_pwm_enable_show` ignores a failure |
| `nb05_fan_control.c:501` | the minor version is compared whatever the major is: 10.2 counts as older than 9.10 |
| `nb05_sensors.c:38` | both halves of the fan speed are read from one register |
| `ite_8291.c:525`, `:861` | a failed LED registration unregisters the wrong LEDs; remove switches off before the LEDs are gone |
| `ite_829x.c:344` | the mode key's work is not cancelled on remove |
| `nb04_wmi_ab.c:249`, `nb04_wmi_bs.c:133` | an interface may go between the test of its pointer and the use, or leaves the pointer behind |
| `nb05_power_profiles.c:360` | remove deletes the timer before the attribute that starts it is gone, and cancels no work |
| `ite_8297.c:99` | two stores overlap: the work of the first may send its colour last (`overlap8297`) |
| `tuxedo_io.c:683` | a fan speed is cut to a byte before it is clamped: 316 is 60 |
| `tuxedo_io.c:466` | the machine is put into "overboost" even for a limit that is then refused |
