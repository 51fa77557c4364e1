# A TLA+ development of sunnypilot's engagement core

sunnypilot is a driver assistance system: some forty processes on a device in
the car exchange messages (cereal) and share a small store of settings
(Params). This development specifies the parts that decide *whether the car is
being driven*: `selfdrived` with its two state machines, the processes its
decision passes through on the way to the car and back, the monitoring of the
driver, and the settings that change under all of them; and the two parts of the
device that must survive power loss and broken connections by themselves, the
updater and the upload queue.

Paths are relative to `src/openpilot/` of the repository.

## 1. The system

### Components that are modelled

| part | state | operations | talks to |
|---|---|---|---|
| engagement state machine, `selfdrive/selfdrived/state.py` | `state`, `soft_disable_timer`, `current_alert_types` | `update` at 100 Hz on the event types of the step | read by MADS, which also writes its timer and alert types |
| MADS, `sunnypilot/mads/` | its own `state`, `lateral_mismatch_counter`, `enabled_prev`, toggles | `data_sample`, `update_events` (rewrites the events the first machine has consumed), `update` | controlsd steers when MADS is active |
| events, `selfdrived/events.py`, `sunnypilot/.../events.py`, `events_base.py` | the events of one step | `add`, `remove`, `contains`, `has`, `contains_in_list` | both machines, alerts |
| selfdrived, `selfdrive/selfdrived/selfdrived.py` and `selfdrive/car/car_specific.py` | `initialized`, `enabled`, `mismatch_counter`, `CS_prev` | `data_sample`, `update_events`, `step`, `run` | carState from card, pandaStates from pandad, longitudinalPlanSP from plannerd |
| configuration, `SelfdriveConfigSnapshot`, `params_thread`, `CruiseHelper` | `self.config`, the latched longitudinal mode, the distance button's frame count | the 10 Hz thread; the button in `update_events`; the latch in `step` | Params, other processes that write the same params |
| Params store, `common/params.cc`, `common/queue.h` | a directory of files, a lock file, a queue, a writer thread on demand | `put`, `remove`, `clearAll`, `putNonBlocking` | every process, the file system |
| fail-closed path, `sunnypilot/custom/longitudinal/wiring.py`, `.../longitudinal_planner.py`, `plannerd.py` | the adapter's fault latch, `authority_began`, `long_active_prev` | `evaluate`, `update_targets`, publish | carControl from controlsd; longitudinalPlanSP to selfdrived |
| control chain, `controlsd.py`, `card.py`, `pandad.cc`, `cereal/messaging`, `manager/process.py` | the last message of each service and its age, the panda's permission and heartbeat count | `state_control`, `controls_update`, heartbeat, aliveness | selfdrived's messages to the car |
| driver monitoring, `selfdrive/monitoring/` | awareness of two policies, alert level, counters, lockout | `run_step`; selfdrived's recording of the lockout | driver model, carState, two params |
| updater, `system/updated/updated.py`, `launch_chffrplus.sh`, `hardware/tici/agnos.py` | overlay, `finalized` and its flag, two slots of the operating system | check, download, flash, finalize; at boot rename and swap | git server, file system, manager |
| upload queue, `system/athena/athenad.py` | queue, cancelled ids, current items, a param | `uploadFilesToUrls`, `cancelUpload`, `upload_handler`, `retry_upload`, `cache` | the server, Params |

### What is hard about it

* Two state machines run one after the other on *one* list of events, share one
  timer and one list of alert types, and the second rewrites the events after
  the first has seen them. What a step does depends on which of the two was
  engaged before and after the first machine moved.
* Input may be missing: a step that gets no carState in 20 ms runs again on the
  previous one, button presses included; a lost CAN bus removes all car events.
* Processes act on the last message they have, whatever its age. A decision
  passes through three of them, in two messages, and may be replaced before it
  is seen; each may die, and manager restarts none of the three.
* The adapter's fault latch is cleared by the echo of selfdrived's own decision.
* `params_thread` overwrites the configuration while a step is using it; a
  setting written by the step reaches the file later, through a third thread.
* Driver monitoring keeps two accounts of one driver and switches between them.
* The device loses power without notice, at any system call; an update is two
  renames, a flash of another partition and a change of the boot slot.
* Upload handlers, RPC workers and reconnects share a queue without one lock.

### Not modelled

`PROJECT.json` lists every component. State machines that are left for later:
AlertManager, lane change, cruise speed, speed limit assist and ICBM, longcontrol,
hardwared's onroad conditions, loggerd's rotation and deletion. Not to be
modelled: estimation, learning and MPC (numeric), the custom lateral and
longitudinal stacks' targets (numeric), the neural networks, rendering, device
drivers, tools and third-party code. These are most of the repository: the
modelled code is a small share of its lines, and the share cannot grow much
without modelling what a model checker cannot say anything about.

## 2. Modules

| module | models |
|---|---|
| `Events` | the types (ET) of the onroad events, and the queries on them |
| `StateMachine` | `selfdrived/state.py` |
| `Mads` | `mads/mads.py` and `mads/state.py`, as operators on the step's data |
| `Selfdrived` | `step()` as a state machine; composes the three above; `params_thread` for the toggles of MADS |
| `SelfdrivedProofs` | theorems about `Selfdrived`: the invariants and every action property of its runs |
| `EngagementLatch` | abstract: what CONTEXT.md and the ADR of 2026-07-10 promise of the Engagement-Cycle Latch |
| `SelfdriveConfig` | `self.config` between `step()`, `params_thread`, the writer thread and other processes; implements `EngagementLatch` |
| `SelfdriveConfigProofs` | theorem: `SelfdriveConfig` implements `EngagementLatch` |
| `ParamsStore`, `ParamsStoreProofs` | `params.cc` at the grain of system calls |
| `FailClosed`, `FailClosedProofs` | the loop plannerd, selfdrived, controlsd, plannerd through which a fault of the custom longitudinal ends the engagement; composes `StateMachine` |
| `ControlChain`, `ControlChainProofs` | selfdrived to car, with dying and stalling processes; composes `StateMachine` |
| `DriverMonitoring`, `DriverMonitoringProofs` | `policy.py`, and the lockout between dmonitoringd, selfdrived and the params |
| `Updater`, `UpdaterProofs` | updated, the launch script and the flashing of AGNOS, under power loss |
| `UploadQueue`, `UploadQueueProofs` | athenad's queue between handlers, RPC workers, reconnects and kills |
| `MCSelfdrived`, `MCSelfdrivedLive`, `MCSelfdriveConfig`, `MCParamsStore`, `MCDriverMonitoring`, `MCUpdater`, `MCUploadQueue` | instances for TLC |

### Selfdrived

`Step` is one call of `step()`. From the code: `data_sample` (`MismatchCounter`,
`initialized`), `update_events` (`UpdateEvents`, `PlanEventsSP`), the main
machine (`MainUpdate`), `mads.update` (`LateralMismatch`, `MadsEvents`,
`MadsEventsSP`, `MadsStateMachineUpdate`, and `MadsSharedUpdate` for what it
writes into the first machine), then `CS_prev` and `enabled_prev`. The whole
step is one action: nothing but the toggles can change in the middle of it, and
each is read once. `StepStale` is the step after a receive timeout.
`ParamsThread` changes one toggle at a time, because the thread writes the
fields one after the other. CarState and the SubMaster's messages are inputs,
drawn from the constant `Inputs`.

Abstractions:

* Events with the same types that no code names are one event (`systemSoft`,
  `systemFault`, `systemBlock`, `doorOpen` for the seatbelt too). Events that
  no state machine reacts to (startup texts, warnings of features) are left out.
* Brand-specific speed conditions, and Honda's own rules for PCM cruise, are the
  inputs `CS.car`; a Honda (`honda`) has no `pcmDisable` (`car_specific.py:104`). An
  event that the brand code and the common code both add is in `CS.twice`, because
  `EventsBase.remove` takes out one occurrence only. `CruiseOffReport` is what the
  brand code guarantees of these inputs (`car_specific.py:39-91`): it adds
  `cruiseDisabled` or `speedTooLow` only together with `belowEngageSpeed`, or on a
  car that engages by its own cruise, which is then off. Inputs that break it, a
  SET press and a cruise-off report in one step, violate `SteeringLossHasCause` and
  `LateralLossAnnounced`, so the assumption is needed and not only convenient.
* The planner's fault is a free input. The planner raises it only while `longActive`,
  which echoes the engagement through two processes (`controlsd.py:117-128`), and the
  SubMaster keeps it; so a step may see it in any state, and the model lets it.
* Both mismatch counters stop at `MISMATCH_LIMIT`; the code lets them grow, but
  compares with `>=` only.
* Ordinary cars: not `passive`, not `notCar`, at least one panda, `REPLAY` and
  `SIMULATION` off. `blockPcmEnable` is left out.
* `current_alert_types` is a set; what AlertManager makes of it is not modelled.

### SelfdriveConfig

One action per access to something another thread can change: the reads of
`params_thread` one by one, its `replace`, the snapshot at the beginning of
`step`, CruiseHelper with its read of the gate, the read and the write of the
button code, the second snapshot, and the end of the step, where the state
machine decides (any outcome), the latch follows, and both are published.
`AsyncWrite` is the writer thread, `OtherProcess` the settings. The `driver`
variable is a history variable: what the driver has done, and what the bounds
count. The car has openpilot longitudinal control and the process is past its
initialization; otherwise none of this code does anything.

### ParamsStore

`disk[k]` is the set of contents that a power loss may leave in the file of k:
`write` alone leaves the value or a torn file, `fsync` of the temporary file
makes its data durable, `rename` adds the temporary file's possibilities, and
`fsync_dir` settles which name points where. `promised` records what a returned
operation has promised; `clearAll` is void and swallows the error of its fsync
(`params.cc:226`), so a failed one promises nothing and its caller is not told. The window of `putNonBlocking` between the push and the
look at the future, and that of the writer between finding the queue empty and
its future being ready, are separate actions. A failure of `flock` itself (the
code logs it and goes on), the creation of the directory and the type
conversions of `params_pyx.pyx` are left out.

### FailClosed and ControlChain

Both take `StateMachine` as it is and give it the events that this path
produces. selfdrived samples its messages (`DataSample`), works and sends
selfdriveState (`SelfdrivedStep`), and sends onroadEvents (`PublishEvents`), with
the other processes in between; in `FailClosed` plannerd samples and publishes in
two steps, too. A cycle of controlsd or pandad is one action: its output depends
on nothing but the messages it sampled, so a longer cycle is one that starts
later. A message is a variable, because a SubMaster keeps the last one.

`FailClosed`: `Evaluate` is the adapter's `evaluate` with its early returns before
and after the lifecycle of the latch; whether the evidence is there, and whether
an exception comes before or after `_authority_began` is set (`wiring.py:715`), are
inputs. `faulted` is a history variable. `ControlChain`:
`alive` is what SubMaster derives from the age of a message; a process that
stalls times out and comes back, a dead one does not. The car has openpilot
longitudinal control; `latActive` and the planner's numbers are left out. The
safety firmware of the panda is in a submodule and external: it allows control
on a SET press, ends it on a cancel, and counts heartbeats that contradict it.

### DriverMonitoring

`RunStep` is one frame: lockout timer, states, policy, events, as `run_step`
orders them. A face is reduced to the booleans `_update_states` derives from it,
and the distraction filter to the three ranges its thresholds (0.37, 0.63)
separate. `op_engaged` is a free input of each frame: `latActive` falls and rises
within a MADS engagement without a noEntry check (`controlsd.py:120-126`,
`policy.py:438`), during a lockout too. The counters therefore go on in a lockout;
they are capped at the limits they are compared with.

selfdrived's recording of the lockout is `HandleDM`: it queues the put, or removes
the param at once, and notes it in `dm_lockout_set` in the same step. The writer
thread follows in `AsyncWrite`, at any time, also after a remove. `Restart` is the
processes stopping and starting with the ignition on; a put that is still queued is
written first or lost. `Preview` is the same with the driver's preview in between,
which removes the param (`driver_camera_dialog.py:47,56`), and `Ignition` clears both
params. `cleared` is a history variable: the last step was one of these two. Left
out: the early return without driver data, the numerics of pose and blinks, the
wheel side, the camera's uncertainty alert, and a dmonitoringd that the preview has
started and that lives on into the drive. `always_on` is an input of each frame;
`lockout_count` stops at the last duration, beyond which the code indexes that one;
selfdrived sees the last packet of dmonitoringd at once.

### Updater

One action per step that a power loss can separate from the next. `fs` is what
programs see, `disk` what a power loss leaves: metadata in order, and contents of
fresh copies only after a sync. Any command of the try block may fail (`Fail`),
the car may go onroad (manager stops updated), the user may ask for a check or a
download, and the server's release may change. `UpdaterFails` is the updater screen:
`agnos.py --swap` may fail there and be tried again, or the screen's program ends,
by an exception (`mici_updater.py:175`) or because it cannot be executed, and the
script goes on to manager (`launch_chffrplus.sh:27-28,94`); `skipped` is a history
variable that remembers it. A flash that has begun may have written nothing
(`FlashStart`). Left out: several branches at a time, the flag inside the installed
tree (`updated.py:158-160`), the bootloader's own flags, and a flash that the updater
screen has started and that outlives it. A checkout takes the server's release at
its end, not the one of the fetch. Of the
partitions there are two kinds, one read in full when it is verified (boot) and
one recognised by the hash behind it (system).

### UploadQueue

A step of a thread ends where it next touches something shared. `owed` and
`void` are history variables: what has been accepted, and what was cancelled
while still in the queue. An id that nothing remembers may be used again. A file
is an id and its url; progress within a transfer, priorities and expiry are an
outcome of the transfer.

## 3. Runs

| run | checks | shows |
|---|---|---|
| `SelfdrivedButtons` | `TypeOK`, `UnifiedEngagement`, `LkasOffHolds`, `BrakeStopsSteering`, `SteeringLossHasCause` | a car engaged by buttons, three brake modes, 34 carStates: what starts and stops the two machines |
| `SelfdrivedFaults` | `MismatchBounded`, `ImmediateDisableStops`, `LateralLossAnnounced`, `ActivatesOnlyWhenDrivable` | faults of system, panda, planner and CAN in any order and together with the brake |
| `SelfdrivedPcm` | `SoftFaultDisengages`, `PausedResumes` | cars engaged by their own cruise: LKAS button without main cruise, no main cruise, MADS off, a Honda; a soft fault that stays ends both engagements; a pause ends when the car can be driven |
| `SelfdriveConfig` | `LatchSpec`, `PersonalityConverges`, `ExperimentalSettles` | one button press, one replayed release, one change of any param by another process, in every interleaving: the latch implements `EngagementLatch`; settings settle |
| `ParamsStore` | `TypeOK`, `NeverTorn`, `PromiseKept`, `OperationsReturn`, `QueueDrains` | three operations on two keys, one failing call, any number of power losses |
| `FailClosed` | `FaultOnItsWay`, `FaultEndsEngagement` | a fault of the adapter is not lost behind gas overrides, the setting or missing evidence, and ends its engagement |
| `ControlChain` | `DeathStopsActuation`, `StopReachesCar`, `LostPartnerDisengages` | one process dies, any stalls: the car does not stay under control |
| `DriverMonitoring` | `TypeOK`, `RedStays`, `OrangeNotDodged`, `LockoutHolds`, `NoResponseDecelerates`, `InattentionAlarms` | alerts are not dodged by changing the policy; deceleration comes; a lockout that is in the param stays |
| `Updater` | `TypeOK`, `ConsistentMeansWhole`, `RunsWhatItWasMadeFor`, `DownloadAtBootOnlyAfterSwap`, `UpdateComesThrough` | any number of power losses, failures and new releases: what is flagged is whole, what boots fits its system unless the updater screen was left, the update comes through once things are quiet |
| `UploadQueue` | `TypeOK`, `OneOwner`, `CancelHolds`, `EveryUploadEnds` | two handlers, one worker, reconnects and kills: no file lost or doubled while athenad lives |

### Bounds

* `Selfdrived`: the soft-disable time is 2 or 3 steps instead of 300, the
  mismatch limit 2 samples instead of 200. Nothing in the code depends on their
  size, only on their order with other events; the theorems hold for every
  value. The inputs are a drivable car and single and double deviations from it;
  steps are unbounded.
* `SelfdriveConfig`: a long press is 2 frames instead of 50, so that short and
  long presses both occur. One press and one change are enough for each pair of
  racing accesses to meet in every order.
* `ParamsStore`: three operations let a queued write, a direct one and a
  `clearAll` overlap. Its `TypeOK` includes that the lock is held exactly in the
  critical sections.
* `FailClosed`: one plan between two samples of selfdrived (`MAX_LAG` = 1), which
  the rates justify: plannerd at 20 Hz, selfdrived at 100 Hz. With 2 the property
  fails, see below. Steps are unbounded.
* `ControlChain`: one crash; stalls are unbounded. The limits 1 and 2 stand for
  200 samples and the panda's heartbeats; only reaching them matters.
* `DriverMonitoring`: awareness of 4 units, one per frame; each policy has all
  four bands, in different places; two lockout durations, so that the longer one
  and its repetition occur.
* `Updater`: two releases on different operating systems, back and forth; no other
  bound. Deadlock is not checked, because a power loss between the two renames
  leaves nothing to boot (see below).
* `UploadQueue`: one upload id, reused, and one retry: the races are about one
  file in two hands.

Runs that end in a violation, because the code does not do what one of its
comments or assertions says:

| run | says | does |
|---|---|---|
| `BrakeBlocksLkasEnable` | `mads/mads.py:193` "block lkasEnable if being sent" | `contains()` is asked for an event name instead of a type: the block is dead code |
| `QueueEmptyAtEnd` | `params.cc:103` `assert(queue.empty())` | a push in the writer's last moments starts no writer |

Observed on the models too, without a run of their own:

selfdrived and MADS

* `mads/state.py:47` says the timer is "reset on entrance in SOFT_DISABLING state";
  it is not while the main machine is enabled. That machine may be pre-enabled,
  which ignores soft disables and resets nothing, and MADS is disabled one step later.
* `selfdrived.py:533` mutes a CAN timeout in park as a "false alarm with MADS in
  Paused state"; the lost bus also removes the events that keep MADS paused, and
  it becomes active.
* The same muted timeout hides that main cruise goes off: the main machine stays
  engaged, and when the bus comes back main cruise has a rising edge, which switches
  MADS on although the driver had switched it off. `LkasOffHolds` excepts the step
  after a bus lost in park; the proof attempt found the case.
* A system fault in the same step as a brake press in the Pause mode pauses MADS
  (`mads/state.py:53-55`), although line 52 gives immediate disables priority;
  steering stops (`ImmediateDisableStops`) but resumes by itself afterwards.
* MADS reads `DisengageOnAccelerator` once (`mads.py:44`), selfdrived all the
  time (`selfdrived.py:712`); after it is switched on while driving, a gas press
  also stops the steering. `SteeringLossHasCause` has this as its last disjunct.
* `selfdrived.py:589` and `mads.py:112` speak of two samples, the code of 200.
* The planner's fault has no noEntry type: a step that still sees an old one can
  engage the main machine (`LateralLossAnnounced` leaves this step out).

Configuration

* `selfdrived.py:703` "so card's experimentalMode cannot flip mid-engagement": it
  is derived from the active mode of up to 100 ms ago, and flips when the
  engagement began in between.
* `selfdrived.py:539` "decrement personality on distance button press":
  `params_thread` restores the old value while the write is queued, and the next
  press then has no effect.
* A replayed release (`selfdrived.py:555`) decrements the personality twice.
* A release of the distance button while cruise is unavailable is not seen
  (`cruise_helpers.py:30`); the count goes on and the experimental mode toggles
  under a button that nobody holds.

Fail-closed path and control chain

* With two plans between two samples of selfdrived, `FaultOnItsWay` fails: the
  second plan, made after a gas override, has withdrawn the request.
* CONTEXT.md:83 "its latch resets automatically at the next engagement": not when
  `evaluate` returns early (no evidence) in the plan that would see the rising edge.
* With selfdrived dead, controlsd keeps `longActive`, and each further SET press
  lets the panda allow control again until the heartbeats contradict it.
* `longActive` can be true for a cycle with the gas pressed: selfdriveState of an
  engagement arrives before the onroadEvents of the same step.

Driver monitoring

* After an orange alert of the vision policy a face that vanishes sets
  `step_change` to 0 (`policy.py:183`), and the alert stays orange for ever, although
  `policy.py:362` says "should always be counting if distracted unless at low speed
  and reaching green". `InattentionAlarms` therefore asks for orange, not for red.
* The end of a lockout resets `cnt_since_alert_3` and briefly releases the forced
  deceleration of an alert that goes on.
* A lockout is lost when selfdrived is killed with the put still in its queue
  (`selfdrived.py:287` queues, and `dm_lockout_set` says that it is recorded), and when
  the driver's preview removes the param (`driver_camera_dialog.py:47,56`). A put that
  is carried out after the remove brings an ended lockout back at the next start.
  Alert counts are lost in every restart.
* In a lockout red alerts go on being counted, past `MAX_ALERT_3`, when `latActive`
  comes back by itself; nothing is made of the larger count.

Updater

* A power loss between the two renames of the launch script leaves no
  `/data/openpilot`; `UpdateComesThrough` excludes it.
* A power loss in `swap()` between the cleared hashes and `set_active` leads to the
  updater screen with the new system already in the spare slot.
* Whenever the updater screen ends without a reboot, manager starts with a system
  that is not the one the tree asks for (`launch_chffrplus.sh:27-28,94`), and the
  script does not look again. `RunsWhatItWasMadeFor` and `DownloadAtBootOnlyAfterSwap`
  except what follows from it (`skipped`).
* A request (SIGHUP) that arrives between `updated.py:460` and the reset in :491 is
  lost on a metered connection.
* Starting updated invalidates an update that is ready; on a metered connection it
  is downloaded again only after three days.
* A check that fails (:343, then the unlink in :477) leaves `UpdateAvailable` true
  although a reboot would install nothing.

Upload queue

* Two `cache()` calls that overlap may leave the older list in the param, so a kill
  loses a file or brings one back; an item in a handler's hands is lost by a kill.
* An item between `get()` and `cur_upload_items` is listed nowhere: the same url can
  be accepted a second time.
* An item at `MAX_RETRY_COUNT` is dropped by a retry that should not count.
* A cancellation that finds the item and marks it after a handler has checked it
  reports success, and the upload goes on. `cancelUpload` does not save the queue,
  so a kill brings a cancelled file back (`test_athenad.py:366` "Ensure canceled
  items are not persisted").

### Fairness

Every fair action is a loop that the code never leaves. `SelfdrivedPcm` assumes
that `run()` calls `step()` for ever: it does so at 100 Hz, and the receive has a
timeout. A step that changes nothing would be a stuttering step, and plain weak
fairness of it would force the driver to do something else; so `MCSelfdrivedLive`
counts steps modulo 2 and asks for the count to go on. The step is always enabled,
so this forces steps and no input. `DriverMonitoring` does the same with the
driver model's `frameId`. Nothing is assumed of `params_thread` in
`SelfdrivedPcm`. `SelfdriveConfig` assumes weak fairness of `step()`, of
`params_thread` and of the writer thread; that the queue of a living writer drains
is what `QueueDrains` shows in `ParamsStore`, and the lost wake-up of
`QueueEmptyAtEnd` is the exception to it. `ParamsStore` assumes weak fairness of
each thread's system calls.

`FailClosed` and `ControlChain` assume weak fairness of each process's loop, and
that the last message of a dead process grows old. `Updater` assumes that the
launch script and updated go on, which includes a user who answers the updater
screen, and that three days pass; its `calm`, from which on nothing fails, is a
state that may or may not come. `UploadQueue` assumes weak fairness of each thread
once it has something to do, and of the reconnect; a worker need not be called.
Nothing is assumed of the driver, of other processes, or of the power supply.

### Mutants

Every property of a passing run is broken by a changed definition, kept next to
the original with the comment "Mutant": a dropped guard (`NoEntry_Never`), a
missing reset, sync or fsync (`Released_Never`, `Fsync_Skipped`,
`finalize_update_NoSync`), the wrong one of two values (`BlockUnified_Enabled`,
`target_slot_number_Current`), a stale one (`engaged_Last`, `FaultEvent_Before`), an
off-by-one (`MismatchEvents_Late`, `retry_upload_OffByOne`), a forgotten field
(`Replace_NoPersonality`), an unchecked message (`commIssue_Controls`).

## 4. Theorems

Every invariant and every action property that a run checks is also a theorem, for
every value of the constants that the named assumptions allow. Each proof has the same
shape: an inductive invariant (a conjunction of named parts, checked by TLC on the
runs' instances before it was proved), one lemma per action or handler that it is
kept, and the property from it. TLC evaluates the assumptions in every run.

### SelfdrivedProofs

For every set of inputs and configurations and every positive `SOFT_DISABLE_FRAMES`
and `MISMATCH_LIMIT` (`InputsAssumption`, `CruiseOffAssumption`,
`ConfigsAssumption`, `SoftDisableAssumption`, `MismatchLimitAssumption`). A step is
cut into named parts (`MainOf`, `MadsEventsOf`, `NewMads`, ...; lemmas `StepParts`,
`StepResult`, `StepAlerts`), and events are traced both ways: an event is there only
for its reason (`EventCause`, `MadsEventSPCause`), and a type that a machine sees was
brought by an event (`TypeCause`). The invariant is

    SelfdrivedInv == TypeOK /\ Dormant /\ MismatchBounded
                     /\ PrevKept /\ CruiseSeen /\ SoftAnnounced /\ CruiseOffReport(CS_prev)

* `TypeCorrect`: `[]TypeOK`. The shared timer stays in its range whichever machine
  writes it.
* `MismatchSafe`: `[]MismatchBounded`. MADS has no effect when its toggle is off, and
  the main machine does not run before the start-up is over, so both must be known
  to be disabled then (`Dormant`). The core is `MainStops` and `MadsStops`: an
  immediate disable wins over every other event in a machine that is engaged, and
  with noEntry also in one that is not.
* `ImmediateSafe`: `ImmediateDisableStops`, from the same two lemmas; MADS removes
  none of the events in question.
* `UnifiedSafe`: `UnifiedEngagement`. What engages the main machine is not refused by
  MADS: every event that MADS keeps and that has noEntry would have refused the main
  machine too, and `block_unified_engagement_mode` depends on `enabled_prev`, which
  `PrevKept` says is the main machine's last state.
* `LkasSafe`: `LkasOffHolds`. Of the events that engage MADS, those of an engagement
  are blocked while it goes on (`PrevKept`), and main cruise has no rising edge
  because it was on (`CruiseSeen`).
* `DrivableSafe`: `ActivatesOnlyWhenDrivable`; `MadsEventKept`: an event that says
  otherwise is kept, or has a silent version that refuses as well, or is one of the few
  that MADS ignores while it steers alone.
* `BrakeSafe`: `BrakeStopsSteering`.
* `CauseSafe`: `SteeringLossHasCause`; `UpstreamLoss` goes through the upstream events
  that MADS keeps, one by one.
* `AnnouncedSafe`: `LateralLossAnnounced`. MADS adds most alert types only where
  the main machine is not engaged (`add_current_alert_types`), so a running soft disable is in the shared list or the main
  machine took over (`SoftAnnounced`).

### SelfdriveConfigProofs

For every set of modes, every length of the long press and every value of the three
bounds (`ModesAssumption`, `LongPressAssumption`, `BoundsAssumption`,
`StoredAssumption`):

* `TypeCorrect`: `[]TypeOK`.
* `LatchRefinement`: `Spec => LatchSpec`. The mapping takes `enabled` and `active`
  from the last published messages and `pending` from the snapshot of the step. A
  step of the latch leaves the published mode alone while engaged, and the code
  leaves `active_custom_longitudinal_mode` alone, so the inductive invariant
  `LatchInv` adds to `TypeOK` that the two are equal between publications. A new
  snapshot (`DataSample`, `DataSampleStale`, `GapRead`, `Refresh`) is a `Read`,
  `Update` is a `Track` or a `Hold`, and the latch does not see the other actions.

### ParamsStoreProofs

For any keys, values, operations, failing calls and power losses
(`ContentAssumption`, `ClearAssumption`, `BoundsAssumption`), with
`StoreInv == TypeOK /\ JobInv /\ NeverTorn /\ PromiseKept`:

* `TypeCorrect`: `[]TypeOK`, the lock discipline included.
* `TornSafe`: `[]NeverTorn`. `JobInv` adds that a thread at the rename, or waiting for
  the lock before it, has nothing but its value in the temporary file.
* `PromiseSafe`: `[]PromiseKept`. A promise is made by the fsync of the directory,
  which settles every key, and depends on `NeverTorn` and on the lock.

### FailClosedProofs and ControlChainProofs

For every soft-disable time (`SoftDisableAssumption`, `MaxLagAssumption`):

* `TypeCorrect`: `[]TypeOK`.
* `FaultSafe`: if `MAX_LAG = 1`, `Spec => []FaultOnItsWay`. The inductive invariant
  `FaultInv` adds that no further plan is due while a faulted one is unsampled (the
  lag is at its limit), and that a faulted engagement is still an engagement, which
  the sampled event then ends (`FaultDisables`). `FaultWhileActive` shows why the
  request is in the plan at all: the adapter fails only after it had authority,
  that is while `longActive`.

`ControlChainProofs` proves `TypeCorrect` for every limit and number of crashes
(`LimitsAssumption`): the panda's count never rests at its limit.

### DriverMonitoringProofs

For every time, threshold and list of lockouts that satisfies
`DriverMonitoringAssumption` (the orange threshold below the prompt, both inside the
range of awareness; at least one lockout), with
`MonitorInv == TypeOK /\ AlertOK /\ LockoutOK`:

* `TypeCorrect`: `[]TypeOK`. Awareness stops at its floor whatever a frame costs; the
  elapsed time of a lockout stays within its duration.
* `RedSafe`: `RedStays`, and `OrangeSafe`: `OrangeNotDodged`. The properties speak of
  `alert_level`, the policy decides on awareness; `AlertOK` connects the two. A change
  of the policy does not refill an awareness that is used up, and for an orange alert
  carries it over.
* `LockoutSafe`: `LockoutHolds`. A lockout that ends in `RunStep` has run its time
  (`LockoutOK`); one that ends in a restart was not in the param, or the param was
  cleared.

### UpdaterProofs

For any releases and systems (`UpdaterAssumption`), any number of failures, reboots and
power losses, with `UpdaterInv`: the files as seen (`FilesOK(fs)`) and as a power loss
leaves them (`FilesOK(disk)`), how far the second may be behind the first (`DiskOK`),
and what holds at each point of the launch script (`LaunchOK`) and of updated
(`UpdatedOK`). The three properties follow from it, none of them is inductive:
what is flagged on the disk may be older than what is seen, and the flash of the
spare slot is safe only because nothing is flagged meanwhile (`Void`, in updated) or
nothing flagged would be installed (`SpareChanged`, at the updater screen, which may
come up over an update whose attempt failed later and removed `.overlay_init`).

* `TypeCorrect`: `[]TypeOK`.
* `WholeSafe`: `[]ConsistentMeansWhole`; its second half is about what a boot would
  install (`Installable`).
* `RunsSafe`: `[]RunsWhatItWasMadeFor`, and `DownloadSafe`:
  `[]DownloadAtBootOnlyAfterSwap`: once the updater screen was left, a tree may run on
  another system and updated may flash the spare slot for a third one, so both are
  silent from there until a boot finds the right system running (`skipped`).

### UploadQueueProofs

For any number of handlers, workers, ids and retries (`UploadQueueAssumption`: handlers
and RPC workers are different threads), with
`QueueInv == TypeOK /\ Control /\ ListsOK /\ HeldOK /\ WorkerOK /\ OwedOK /\ VoidOK`:

* `TypeCorrect`: `[]TypeOK`.
* `OwnerSafe`: `[]OneOwner`. An id names one item of a list, saved lists included,
  because a restart makes one of them the queue (`ListsOK`); what a handler holds no
  other has and the queue has not (`HeldOK`); what a worker is about to put is new to
  all (`WorkerOK`).
* `CancelSafe`: `[]CancelHolds`. A cancellation is remembered as long as the item can
  still be taken up (`VoidOK`).

### Only model-checked

* Liveness, because TLAPS does not do fairness: `SoftFaultDisengages`,
  `PausedResumes`, `PersonalityConverges`, `ExperimentalSettles`, `OperationsReturn`,
  `QueueDrains`, `FaultEndsEngagement`, the three properties of `ControlChain`,
  `NoResponseDecelerates`, `InattentionAlarms`, `UpdateComesThrough`,
  `EveryUploadEnds`.
* The two runs that end in a violation: a counterexample needs no proof.

## 5. Plan

1. Done: the engagement core (`Events`, `StateMachine`, `Mads`, `Selfdrived`), its
   configuration, the Params store, the fail-closed path, the control chain, driver
   monitoring, the updater and the upload queue; the theorems above.
2. Done: every invariant and action property of the runs as a theorem (section 4).
   Next theorems: the refinement of an atomic key-value store by `ParamsStore` and of
   "old or new release" by `Updater`; the safety halves of the liveness properties,
   such as a soft-disable timer that only falls while its cause stays, and in
   `ControlChain` that a message older than its limit is not acted upon.
3. Next modules: AlertManager behind `current_alert_types`, to strengthen
   `LateralLossAnnounced` to the alert that is shown; lane change; longcontrol; cruise
   speed and speed limit assist; hardwared's onroad conditions; loggerd's deletion.
4. Abstract specifications worth stating: an atomic key-value store that
   `ParamsStore` implements; "old or new release" for the updater.
