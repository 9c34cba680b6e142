# A TLA+ model of the cikon firmware

The firmware is an ESP-IDF application for ESP32 boards: a *supervisor* that
owns a set of *platform adapters* (lights, switches, sensors, networks), takes
commands over MQTT, HTTP and a mesh, publishes telemetry, and updates itself
over the air. This directory holds TLA+ modules for its core, the TLC
configurations that check them, and proofs that TLAPS checks.

Paths below are relative to `src/components/`; `adapters/x` stands for
`cikon_supervisor_adapters/cikon_supervisor_adapters_x/`.

## 1. Inventory

Who runs: the *supervisor task* (one loop: a job from the queue or 100 ms, then
the event bits, then the intervals), the *main task* (only during start-up), the
MQTT client library's task, which calls the event handler, the MQTT command and
telemetry tasks, the HTTP server's task, the OTA task, the TCP monitor's task,
Wi-Fi's reconnect and AP-timeout tasks, effect and receiver tasks, and the
driver callbacks of ESP-IDF. They share statics, mostly without a lock.

| Component | State | Operations | Talks to | Hard part | What makes it correct |
|---|---|---|---|---|---|
| Command registry and queue (`cikon_supervisor/cmnd.c`) | array of commands, count, job queue of pointers into the array | register, unregister (shift), find, submit | written by the supervisor, read by MQTT, HTTP, mesh tasks | array moved under its readers; pointers kept in the queue; both limits | a job runs the command it was submitted for; no command of a dead adapter |
| Supervisor (`cikon_supervisor/supervisor.c`) | adapter list, event group, intervals, boot counter, safe mode | init, task loop, notify, `adapter`/`restart`/`setconf` commands | calls every adapter; reads NVS and OTA state | events set while others are handled; crashes at any point of start-up | no event lost; safe mode exactly after a crash loop; some image boots |
| Telemetry registry (`cikon_supervisor/tele.c`) | array of appenders, count | register, unregister, append all | like the command registry | read while shifted | each appender of a live adapter runs once |
| Configuration (`cikon_config/config_manager.c`) | RAM copy, NVS | init, set, reset | `setconf`, boot counter | a write that fails | RAM and NVS agree after a restart |
| Platform services (`cikon_core`) | none | restart, partition and device information | supervisor, web pages | restart callback before the reset | the callback runs before a restart |
| Network services helper (`cikon_inet_common`) | services running | start, stop, restart callback | MQTT, HTTP, OTA, monitor, mDNS, SNTP | several callers | services run exactly while there is a network |
| Internet adapters (`adapters/inet`, `inet_ethernet`, `inet_mesh`) | transition mutex, service flags | on_event, on_interval, switch AP/STA | Wi-Fi, Ethernet, mesh, services | merged events, the AP-timeout task | services follow the link |
| Wi-Fi (`cikon_wifi`) | retry state, reconnect and AP-timeout task handles, ignore flag | connect, AP, stop, event handler | inet adapter | handles tested outside the lock | someone reconnects as long as it is wanted |
| Ethernet, mesh (`cikon_ethernet`, `cikon_mesh_lite`) | driver handles | init in stages with roll-back, stop | adapters | one of several stages failing | nothing is left half set up |
| MQTT client (`cikon_mqtt/mqtt.c`) | client, queue, two task handles, event group, retry counter | init, shutdown, event handler, two tasks | supervisor, command queue, telemetry | reconnection, shutdown, a full queue, two who shut down | tasks follow the connection; a shutdown ends and frees nothing in use |
| Home Assistant discovery (`cikon_mqtt/ha.c`) | entity table | register, publish | adapters, MQTT | the table only grows | every entity is announced once |
| TCP OTA (`cikon_tcp_ota`) | task handle, request and in-progress flags, listening socket | init, shutdown, task, one session | inet adapter, AP-timeout task, flash | clients that fail or stay silent, two who stop it | only a verified image is selected; a stop means stopped |
| TCP monitor (`cikon_tcp_monitor`) | task handle, socket, ring buffer, log hook | init, shutdown, task, hook | every task that logs | buffer deleted under the hook | no use after deletion, restartable |
| HTTP, WebDAV (`cikon_http`) | open files | handlers, one at a time | commands, telemetry, file system | a write that fails half-way | a failed PUT leaves no half file |
| ESP-NOW, RF433 (`cikon_esp_now`, `cikon_rf433_receiver`, their adapters) | reference count, callbacks, last sequence, debounce | init, deinit, receive | Wi-Fi events, commands | duplicates, failed initialisation | one command per transmission |
| Neopixel (`cikon_neopixel`) | effect task, stop flag | start, stop, effects | neopixel adapter | the task ends itself while it is stopped | at most one effect, none after stop |
| Switch, light, LED adapters | level and colour state, NVS copy, fingerprint | commands, save, restore | commands, NVS | a restart between change and save, changed configuration | what is restored is what was saved |
| LED indicator, button, DS18B20, debug, Thread adapters | small | on_event, on_interval | supervisor, drivers | repeated events | the indicator shows the network's state |
| Helpers, certificates | none | parsing, waiting for tasks | all | - | - |

`PROJECT.json` lists all of these with what is modelled of each, and under
`hazards` the places where this code can go wrong in a way that a test would
hardly reach.

## 2. Modules

| Module | Models | State |
|---|---|---|
| `CommandDispatch` | `cmnd.c`, the adapter handling and the core commands of `supervisor.c` | registry array, queue, adapters, submitting tasks |
| `TeleRegistry` | `tele.c` | registry array word by word, one edit, one walk |
| `EventDelivery` | abstract: what `supervisor_notify_event` promises | set of due events per adapter |
| `EventForwarding` | the event half of `supervisor_task` | event group, batch, next adapter |
| `SafeMode` | boot counter, safe mode, firmware validation, restart callback, OTA slots | over any number of boots |
| `Mqtt` | `mqtt.c` | event handler, two kinds of task, queue, callers |
| `TcpOta` | `tcp_ota.c` | OTA task, one session, callers |
| `TcpMonitor` | `tcp_monitor.c` | task, log hook, buffer, two tasks that stop it |
| `Wifi` | `wifi.c` | mode changes of two tasks, reconnect and AP-timeout tasks, handler |
| `Inet` | `adapters/inet`, with `inet_common.c`, start and stop of HTTP | services, flags, calls of two tasks |
| `Ethernet` | `adapters/inet_ethernet`, `cikon_ethernet` and its two backends | what is acquired, link, services |
| `EspNow` | `cikon_esp_now`, start and stop of `adapters/esp_now_rx` | reference count, stack, handler |
| `Switch`, `Led`, `Light` | the adapters of these names | states in RAM and NVS |
| `Neopixel` | `cikon_neopixel`, its effects and its adapter | effect task, calls, strip |
| `*_proofs` | theorems: `CommandDispatch`, `EventForwarding`, `SafeMode`, `Mqtt`, `TcpOta` and `Wifi` about the module of that name; `Outputs` about the five modules of `MCOutputs`; `Network` about the other four of `MCNetwork`; both also about the composition | |
| `MC*` | model values for TLC; `MCOutputs` and `MCNetwork` also put five modules each beside each other | |

`MCOutputs` composes `Switch`, `Light`, `Led`, `Neopixel` and `TeleRegistry`, and
`MCNetwork` the other five of the network side. The modules in one of them share
no variable, so a behaviour of all of them is one of each alone: a variable
`device`, chosen at the start, says which one acts, and TLC visits the sum of
their states rather than the product. Where components do interact, the
interaction is inside a module: the services inside `Inet` and `Ethernet`, the
AP-timeout task in `Wifi`, `Inet`, `TcpOta` and `TcpMonitor`, adapters in
`CommandDispatch`, NVS in each module that persists something.

A definition `Name_Fault` in front of the definition `Name` is `Name` with a fault
seeded, such as a programmer may make; nothing uses it. `PROJECT.json` lists them
as `mutants`: put in place of `Name`, each makes TLC report its property.

### CommandDispatch

`slots`/`count` are `command_registry`/`command_count`, an element at a time: the
readers compare one word of it. `cmnd_unregister` is a loop of steps (`Unshift`),
and `cmnd_find` another (`Find`), because they run on different tasks; so is
`cmnd_register_group`. `queue` holds what `command_job_t` holds: the *slot*, not
the command. `req` remembers what was asked; the program does not, and only the
properties look at it. `RunJob` runs the handler that the slot names now. Of
handlers, those that edit the registry (`adapter`) and those that restart the
device are modelled; `adapter` is also what starts and stops the adapters. A
restart resets everything (`Reboot` part of `RunJob`).

### EventDelivery and EventForwarding

`xEventGroupGetBits` and `xEventGroupClearBits` are two steps and each adapter's
`on_event` is a third; `Notify` may come between any two. The abstract
specification says what an adapter may rely on: an event set is due to it until
it is handed over. `ImplementsDelivery` is the refinement, with the events in the
group or in a batch that still has to reach the adapter as the due ones.

### SafeMode

A boot is `Boot` (boot loader, load of the counter), `CheckSafeMode`,
`InitAdapters`, then `Elapse`/`Intervals`; `Crash` and `PowerLoss` are enabled in
every state. `nvs` and `ram` are the two copies of the counter, because the code
compares one and saves the other. Time is in periods of 5 s, the code's own grain.
The rules of the boot loader (roll-back of an image that was pending twice) and of
`esp_ota_*` are external. History variables count the crashes in a row (`row`) and
since the last stable run or exit (`streak`). `Validate` has the three outcomes of
`supervisor_check_firmware_validation`: a state that cannot be read sets
`firmware_validated` for an image that may still be pending, and `unread`, a history
variable, remembers for the rest of the run that this happened.

### Mqtt

The library delivers one event at a time and holds its API lock meanwhile, which
is why a handler that waits also stops everyone who publishes, subscribes or
stops the client. `shutdown_mqtt_tasks` is two steps, the clearing of the handles
with the setting of the bit, and the clearing of the bit 100 ms later. That delay is as long as
the command task's wait on the queue, and the model uses this once, in
`PulseEnd`: a task that was in `xQueueReceive` when its handle was cleared has
left it when the pulse ends. Two callers run `mqtt_shutdown`: the supervisor, and
the task that the handler creates after its last retry. A session is clean, so
nothing arrives before the subscription. An abort (a failed `ESP_ERROR_CHECK`, or
the crash of a task on a deleted queue) restarts the device.

### TcpOta

`at` is the program counter of `tcp_ota_task` and `handle_ota`; a `recv` returns
the expected message, one of another length, or nothing more, and may wait for
ever. `Start` and the steps of `tcp_ota_shutdown` interleave with it. An
image is `"whole"` when exactly the announced bytes were written; the digest
variable keeps what an earlier session left in it. `over[c]` is whether the eight-bit
`wait_count` of a stop is at its limit: `Count` flips it while an update is in
progress, or once while the task waits for a client or is in `esp_safe_restart`, which
both last longer than the limit. A stop may therefore return with the task still on
its way out or about to restart the device, and `StoppedMeansStopped` says what that
task can no longer do.

### TcpMonitor

Like `TcpOta` it has a task, a handle, a request and a socket, and a stop in six
steps that run on two tasks; but the handle is left set where the set-up fails,
and the log hook and the ring buffer come and go with it. `tmVprintf` is what the
C library logs through and `tmOriginal` what the hook forwards to. `tmExcuse` is a
history variable for what excuses an unsafe state: calls that overlapped, a set-up
that failed, a stop that gave up after its 2 s.

### Wifi

The driver is a mode, whether it is started, and a link. Its events wait in
`wfEvents` for the handler. `wifi_init_sta_mode`, `wifi_init_ap_mode` and
`wifi_shutdown` are eight locations and `"idle"` (`wfAt`) of each of the two tasks that call
them; between any two of them the handler, the reconnect task or the other
changer may step. `wifi_sta_task_mux` makes the taking of the handle one step (`Detach`);
`vTaskDelete` (`Delete`) is outside of it and so is the reconnect task's own
clearing (`RetryEnds`). An `ESP_ERROR_CHECK` that is refused is `Abort`, after
which nothing happens but `Restarts`: the device starts again from `WifiInit`.
The timeout task (`wfWatch`) has a location for each window of its code: behind the
last test of its loop (`"leave"`), and between the decision to end and the clearing of
its handle (`"ending"`), where an access point that starts gets no task (`wfMissed`).
`vTaskDelete` of a reconnect task that has ended by itself since its handle was taken
deletes nothing in the model, which does not say what the call does with such a handle.

### Inet

A call that starts or stops services is a list of operations, and `Do(t)` takes
the first one of task `t`: the calls of the supervisor's task and of the
AP-timeout task interleave operation by operation. The flags
`sta_services_running` and `ap_services_running` exclude each other and are
`inFlag`. The supervisor calls `on_event` of every registered adapter, so `TakeBits`
hands over the bits whether the adapter is on or off, and a batch with both bits runs
the branch of the station and then that of the access point. `inManual` and `inStale`
are histories of what excuses a service that does not follow the mode: a user's
command; and two calls that overlapped, or a batch that was not the readiness of the
mode Wi-Fi was in. Both are forgotten when the supervisor stops the services without
being disturbed, since that makes good whatever had been started.

### Ethernet

`InitSteps`, `Rollback` and `ShutdownSteps` are the operations of the adapter, the
wrapper and the backend in their order; any step of a set-up may fail, and
uninstalling the driver may, which leaks it (`etLeaked`). W5500 has an SPI bus to
acquire in addition, and keeps it when a later step fails. Bits are handed over to an
adapter that is off, too. `etMixed` says that the last batch of bits did not tell the
link's last change alone, or came when the adapter was off.

### EspNow

Steps again, because the handler of Wi-Fi's start event runs on the event loop's
task between them; a shutdown waits 100 ms in its middle (before `"unhandle"`).
Unregistering waits for a handler that runs (`enAt = "idle"`).

### Switch, Led and Light

Each has its states in RAM, a copy of what it last saved, and NVS; a switch is its
index and a state word the set of the switches that are on. What NVS refuses is a
disjunct of every operation on it, and a refused commit may still have written.
`ResetSwitches`, `ResetLeds` and `ResetLights` are resets of any kind at any moment
(between the two settings of `Led` too), after which another image with another
list may run. History variables remember what the switches were told to be
(`swAsked`), what the saved lights were meant for (`liOrigin`, `liFits`), and
whether NVS was reliable since (`swSure`, `ledSure`, `liSure`).

`Light` has the algorithms as operators: `Parse` goes through the list light by light
(`ParseUpTo`); each takes the next LEDC channels or is skipped (`TakeChannels`), and
nothing gives channels back, as in the code; `Changed` and `TurnsOn` are `light_apply`;
`ColorOut`, `ColdOut` and `WarmOut` are what `light_update_output` emits, with its
integer division and its correction of a rounding to darkness. `liPlanned` is
whether the last reset was a planned restart, since on/off is restored only then.

### Neopixel

A call of the supervisor is a list of steps in `npTodo`, the effect's task has a
location. The wait in `neopixel_effect_stop` ends with the handle or after half a
second, which a slow effect may outlast (`npSlow`); what follows reads the handle
twice (`TestHandle`, `KillEffect`), and if the task has cleared it in between,
`vTaskDelete(NULL)` deletes the supervisor's own task (`npDead`).

### TeleRegistry

An element has two words, the name and the function, and each is written and read
by a step of its own (`teHalf`). `tele_append_all` reads the count, the function
and the name, in the order in which the call evaluates them; it changes nothing,
so one walk stands for all.

## 3. Runs

TLC checks every run to the end; deadlock is checked except in the two MQTT runs,
where a handler that waits for ever really stops the system.

| Run | Instance | What it shows |
|---|---|---|
| `command_dispatch` | 2 adapters with 1-2 commands, 2 core commands, 1 client, array of 5, queue of 2, fair | with room for everything: jobs for core commands run them; `cmnd_find` never misses a core command while the array is shifted; running adapters are fully registered; the queue drains |
| `command_overflow` | as above, 2 clients (symmetric), array of 4, queue of 1 | the inductive invariant of the proofs when registry and queue overflow; no adapter that was shut down leaves a command behind |
| `command_misrun` | violation | a queued job runs another command after an adapter was shut down |
| `event_forwarding` | 3 events, 3 adapters, fair | no event lost, each reaches each adapter, refinement of `EventDelivery` |
| `safe_mode` | 2 slots, threshold 3, stable time 3 periods, at most 4 crashes between clearings, fair | safe mode only after that many crashes and always after that many in a row; a restart leaves it; some image always boots; validated means valid; a run that lasts clears the counter |
| `mqtt` | 2 callers, 2 tasks of each kind, queue of 1, 1 retry | no command task that a shutdown could know of waits on a deleted queue; the program aborts only in a race between callers or after a task started during the shutdown |
| `mqtt_live` | 1 caller, 2 command tasks, 1 telemetry task, no retry, fair | dismissed tasks end, a lasting connection is served, a shutdown ends, each unless the handler is blocked on a full queue |
| `tcp_ota` | supervisor and AP-timeout task, lively clients | handle and task live together; only a whole, announced image is selected; a stop that returned left no task that serves or writes; and, with one task that stops it, a started service serves and every stop returns |
| `outputs` | 2 lists of 2 and 1 switches; 1 light of three shapes; 1 LED; 1 strip; 5 appenders for an array of 3; every NVS operation may fail | switches come back as they were told to be; a light is lit exactly when it is on; with a clean flag NVS holds the light's and the LED's state; no effect survives its stop; walks of the telemetry registry are complete |
| `network` | 1 reconnect task, AP timeout of 1 tick, 1 event, 2 handlers, 3 configurations | driver calls are refused only in a race; an access point has its timeout, unless it started while the task before was ending; services match the Wi-Fi mode and follow the Ethernet link; a failed set-up leaves nothing behind; the monitor is safe; the radio follows its adapter |
| `wifi_station_lost` | violation, 2 reconnect tasks | a station that lost its link is left without a reconnect task |
| `monitor_hook_loops` | violation | the log hook is installed on top of itself |

**Why the bounds are enough.** Two adapters give every shift there is: of an entry
in front of, behind and between others, and of a group that is not the last; five
elements hold all, four overflow. A job's pointer is invalidated by one shutdown,
so a queue of two has a valid job before and behind it. Three adapters have a
first, a middle and a last in the forwarding loop. Three crashes reach the
threshold and one more exceeds it; the counter is capped by `CrashBound` in the
guard of `Crash`, one above the threshold; the stable time of three periods has a
period that is not the last and the boundary at `>`. Two tasks of a kind are what
one reconnection leaves alive: a third needs two reconnections within one message
handler, and the handler of a connection waits for room in the bound (named in
`Connected`). A queue of one is empty, part of the way, and full. `GiveUp` is a
single task at a time (named in `Retry`).

In `outputs`, two lists are the old and the new one of an update, in either order,
and the shorter one makes indices of the longer meaningless. Lights are independent
but for the channels: one with five of the seven channels finds too few when the
adapter is started a second time. Brightness 0 is clamped to 1 and with a ratio of
0 or 50 reaches each rounding of the channel split; larger values only leave it. A LED
off, dim and brighter tells an old pair from a new one. Three elements for five
appenders overflow, with groups of one and two in both orders. In `network`, one reconnect
task loses nothing for the properties of that run: two of them coexist only after
a race that they except, and `wifi_station_lost` has two. One tick without a client
is the limit and one before it is not; `EventMax` bounds only what the driver
reports by itself, which a handler that keeps up sees one at a time anyway;
`HandlerMax` allows for one handler left behind by a failed shutdown. The three
configurations of `Inet` are safe mode, certificates that only the access point
uses, and a server that needs certificates and has none.

**Fairness.** FreeRTOS runs every ready task of equal priority and the firmware
leaves no task spinning, so a step that stays enabled is taken (`WF`). Strong
fairness is used for the MQTT client's API lock, a FreeRTOS mutex that serves its
waiters; for the end of a fixed delay, whatever happens meanwhile; and, in
`LivelyClientSpec` of `TcpOta`, for a client that reaches the end of what it
announced. Nothing is assumed of brokers, users, crashes, or of who starts and
stops a service. In `SafeMode` the start-up steps and the supervisor's loop are
fair; crashes are not, and the liveness property allows for them. The modules of
`MCOutputs` and `MCNetwork` state no fairness and are checked for safety only.

## 4. Proofs

TLAPS proves, for every value of the constants that satisfies the named
assumptions:

- **CommandDispatch** (`SizeAssumption`, `CoreAssumption`, `GroupAssumption`:
  the core commands are distinct, fit the array and are not registered by an
  adapter). `CoreInvariant` proves the inductive invariant `TypeOK /\ CoreInv`:
  the core commands occupy the first slots for good (`CoreInPlace`); an edit works
  only behind them (`EditBehindCore`); the slot of a job lies among them exactly if
  it was asked for one (`JobsAligned`); the loop of `cmnd_find` has not passed the
  one it looks for (`FindBeforeCore`). The properties alone are not inductive: a
  stale element behind `count` becomes visible when the array grows again, so the
  invariant speaks about the whole array. `CoreJobsRight`, `AdapterJobsHarmless`
  and `CoreFound` follow; `RegisteringStable` is an action property from the same
  invariant. `RegistryInv` follows the groups through every state of an edit: apart
  from the element that is being overwritten no command is there twice
  (`EntriesOnce`) and each is of the core, of a running adapter or still to be removed
  (`EntriesAllowed`); `NoOrphans` follows. `RunningRegistered` is about a registry
  that suffices: it supposes that the commands fit the array (`CommandsFit`) and that
  no two adapters share one (`GroupsDisjoint`), as in the instance of its run and in a
  device with one network adapter; section 5 says what happens with two. Its
  invariant `CompleteInv` adds that whatever is not registered yet is among the names
  that the edit has still to handle.
- **EventForwarding** (`EventAssumption`). `NothingLost` is inductive with
  `TypeOK`; `LoopImplementsDelivery` maps the initial state to an initial state and
  every step to a step of `EventDelivery` or a stutter, under `due <- OnItsWay`.
- **SafeMode** (`SlotAssumption`, `NumberAssumption`; the three about the counter
  also `NvsReliable`). The counter lies between the crashes in a row and those of
  the streak, the one of this boot being counted only after the check
  (`CounterBetween`): the lower bound gives `CrashLoopsCaught`, the upper one
  `SafeModeJustified`, and with the history of the exit `RestartLeaves`. `Bootable`
  and `ValidatedIsValid` have an invariant of their own about the slots and do not
  need a working NVS; the second excepts a run in which the image's state could not be
  read.
- **Mqtt** (`CallerAssumption`, `TaskAssumption`, `NumberAssumption`).
  `ClosingInv`: while callers do not overlap, at most one is in the shutdown and
  the client is where that caller has brought it (`OneCloser`, `ClientFollows`);
  during a shutdown the only command task whose handle is known has not started
  (`Dismissed`), so none re-enters the wait; and behind the pulse none is in it
  (`Left`), except while a pulse of the handler's is under way, which holds the
  lock that the stop needs. `QueueOutlivesTasks`, `ClientHasQueue` and
  `AbortsAreRaces` are conjuncts of it.
- **TcpOta** (`CallerAssumption`). `ServiceInv`: task and handle come and go
  together (`Alive`); an image is selected only behind the comparison (`Checked`);
  and between the last stop and the next start the task finds the request
  (`Requested`), finds its socket closed (`Unblocked`), and as long as it
  can serve a client or write, some stop has yet to close the socket or waits and cannot
  return, the count below its limit or the flag of the update set (`Awaited`).
- **Switch** (`SwitchListAssumption`). `SwitchInv`: what was asked for is what NVS
  holds (`AskedIsSaved`), even while the adapter is off; what NVS holds fits the
  list its fingerprint names (`SavedFits`), so that a restore cuts nothing off; and
  a running adapter, its `last_saved_state` and NVS agree (`RunsAsSaved`), so that a
  save that is left out would have changed nothing. `SwitchesReturn` follows, for any
  lists and with NVS operations that fail.
- **Led** (`LedAssumption`). `LedInv`: the manager's copy and NVS agree
  (`CopiesAgree`); brightness and last brightness match in RAM (`LevelsMatch`), in
  NVS between saves (`NvsMatches`), and in the middle of a save the first of them
  is the new one (`HalfSaved`); a clear flag means all copies agree
  (`CleanIsSaved`). `LedsStayKept` follows, for any LEDs and brightness values.
- **Light** (`LightListAssumption`, `LightDataAssumption`). `LightInv`: the values
  in memory and in NVS fit the lights they were meant for (`LightsFit`,
  `SavedFitOrigin`: a brightness of 1 or more, and colours for what has nothing
  else); the fingerprint in NVS is that of the list in use (`PrintInNvs`), and the
  lights show what NVS holds unless something changed since (`ShownInNvs`).
  `ChannelsTaken` is what makes it inductive: an adapter switched off and on parses
  the same list with fewer channels left and then has no more lights than before
  (`ParsedAgain`), so each slot in use was in use when the state was saved.
  `LightsLit` also needs the arithmetic of the channel split, for any brightness and
  ratio; `LightsSaved` follows from `PrintInNvs` and `ShownInNvs`.
- **Neopixel** (no assumption). `NpInv`: the list of steps left is one of those that a
  command can have reached (`NpShape`), and at each the effect task is running, asked
  to leave, gone, or gone with the strip drawn or shown (`NpStage`), as long as no
  stop deleted its caller. `EffectsAreOver` is the case of an empty list.
- **TeleRegistry** (`TeleAssumption`). `TeleInv`: the core entries stay in front, and
  no other element, valid or stale, has one of their words (`CoreFirst`); apart from
  the element being overwritten each name is there once with its own appender, and is
  of an adapter that is on or still to be removed (`EntriesAgree`); what a walk has
  called so far agrees with that in its core part (`WalkShape`) and, if no removal
  touched it, altogether (`WalkRight`). `TelemetryIsComplete`, an action property, is
  what this says of the step in which a walk ends.
- **Wifi** (`WifiAssumption`). `WifiInv`: as long as nothing raced, at most one task
  changes the mode (`OneChange`), at each of its locations the driver, the interface
  and the reconnect tasks are as it has left them (`StageOf`, `DriverInv`), and a
  running access point has its timeout task, or was missed by one that was ending
  (`WatchInv`). `WifiAborts` and `WifiApWatched` follow.
- **Inet** (`InetAssumption`). `InetInv`: until a restart begins, what is left of each
  task's calls is the end of a list that one of them can have (`Shape`), whatever came
  late, mixed or in between; and unless one of these disturbed it since the services
  were last stopped, the services are those that the operations before have left
  (`InStage`). The first part is what makes the second come back: the supervisor's next
  undisturbed stop ends in `<<"flag", "none">>` with every service stopped
  (`StopsSettle`). `InetServices` is the case in which no call is under way;
  `InetTypes` needs none of these conditions.
- **Ethernet** (no assumption). `EthernetInv`: at each step of a set-up, a roll-back or
  a shutdown, of either backend, exactly what the steps before it acquired exists.
  `EthernetAllOrNothing` and `EthernetServices` follow.
- **TcpMonitor** (no assumption). `MonitorInv`: unless excused, one stop is under way
  at most, and hook, buffer, task and handle are as that stop and the task have left
  them. `MonitorIsSafe` follows.
- **EspNow** (`EspNowAssumption`). `EspNowInv`: reference count, handler, radio and
  callbacks are what the step says that a start, a stop or the return of a failed
  start has reached. `RadioFollows` follows.
- **MCOutputs and MCNetwork.** Every behaviour of a composition is one of each of its
  modules (`OutputsParts`, `NetworkParts`), so all that is proved of these holds of
  them together: their types (`OutputsTypes`, `NetworkTypes`) and every other property
  that the two runs check (`OutputsSafe`, `NetworkSafe`).

So every safety property of the passing runs is a theorem. Model-checked only are the
liveness properties (`QueueDrains`, `EventsReachAdapters`, `StableRunClears`,
`StaleTasksEnd`, `ConnectionServed`, `ShutdownEndsUnlessBlocked`, `StartedServes`,
`StopEnds`), because liveness under fairness and `ENABLED` are out of the prover's
reach. `AdapterJobsHarmless`, `RegisteringStable` and `ClientHasQueue` are proved and
in no run.

The lists that `Light` parses need induction. The library's induction theorems are out
of the prover's reach, as they take an operator as a parameter; `AllNumbers` derives
induction from the well-foundedness of `<` instead, with a set in the place of that
operator. `ParseSteps` proves with it that the recursive function `ParseUpTo`
satisfies its equation, and `ParsedAgain` goes on from there. No module uses a
recursive operator.

Proving found one ambiguity in the model: `UNION S \cup T` is `UNION (S \cup T)` to
TLAPS and `(UNION S) \cup T` to TLC, so `UNION` stands last in every union.

## 5. Where code and documentation disagree

Each of these has a run whose counterexample shows it, and an entry under
`findings`:

- jobs of adapters run another command after a shutdown moved the registry
  (`command_misrun`);
- a link lost just as the reconnect task ends leaves the station alone
  (`wifi_station_lost`);
- a monitor stopped twice forwards the log to itself after two more starts
  (`monitor_hook_loops`).

Seen while modelling, without a run:

- `cmnd_find` may miss an *adapter's* command that moves to an element the loop has
  passed; the submitter is told that it is unknown. In the same way a walk of the
  telemetry registry may skip, repeat or mislabel the entry of an adapter.
- Network adapters register commands under the same names (`sntp`, `monitor`, `ha`
  and others in `inet.c:340`, `inet_ethernet.c:210`, `inet_mesh.c:197` and
  `thread_device_adapter.c:226`). Where two of them are built in, the second one's
  registrations are skipped as duplicates, and shutting one of them down takes the
  commands of the other away (excluded by `GroupsDisjoint`).
- The `adapter` command starts in safe mode an adapter that safe mode keeps off.
- A physical reset does not leave safe mode; the supervisor's README says it does (line
  19); a restart by command or by an update does.
- The supervisor's README speaks of crashes "within 90 seconds"; the code adds up
  crashes of runs that each last less than the stable time.
- A boot counter that could not be cleared in NVS is not cleared again before the
  next stable run.
- The MQTT event handler waits without limit for room in the command queue; if
  nobody empties it, a shutdown waits too (excepted in `ShutdownEndsUnlessBlocked`).
- A connection that comes up during an MQTT shutdown starts a task that waits on the
  queue while it is deleted. Messages still in the queue are leaked.
- The OTA service sends its final acknowledgement before it verifies the image. A
  message of any other length than six passes for its magic header. A silent
  client blocks the task and every stop; `StopEnds` needs `LivelyClientSpec`.
- An access point that starts while the timeout task of the last one has left its loop
  at its limit and not yet tested for the access point again is ended at once. One that
  starts between that test and the clearing of the task's handle (`wifi.c:133` to 135)
  gets no task and stays up without a timeout, whatever `Kconfig:7` promises (excepted
  in `ApWatched`).
- A mode change takes the reconnect task's handle under the lock, so that no other code
  uses or deletes it at the same time (`wifi.c:393`), and deletes the task at line 408,
  when it may have deleted itself.
- A readiness bit that is late, or comes with that of the other mode, starts the
  services of the wrong mode or of both, although `inet.c:102` says that they are stopped
  before the mode is switched: NTP and MQTT then run beside an access point. The next
  stop makes it good (excepted in `ServicesMatchMode`).
- `on_event` of the two network adapters does not test `initialized`, as
  `.github/copilot-instructions.md:397` asks for: bits set before a shutdown and taken
  after it start the services of an adapter that is off (excepted in `ServicesMatchMode`
  and `ServicesFollowLink`).
- `tcp_ota_shutdown` says that it waits for the task's cleanup (`tcp_ota.c:328`). Its
  count runs on during an update, so it returns before the end of a session that was
  longer than the limit and failed, and, as the flag is cleared at line 217, also
  during the restart behind one that succeeded. A start that follows at once finds the
  old handle and starts nothing (excepted in `StartedServes`).
- An image whose state cannot be read is taken for validated; if it is pending, the
  next reset rolls it back (excepted in `ValidatedMeansValid`).
- Two reconnect tasks, or a mode change of a command during one of the AP timeout,
  can abort the program in an `ESP_ERROR_CHECK` (excepted in `AbortNeedsRace`).
- Ethernet starts the HTTP server and never stops it. Link-up and link-down in one
  batch may leave the services running without a link, or stopped with one, until a
  batch tells one change alone (excepted in `ServicesFollowLink`).
- ESP-NOW's handler that fails to set the radio up anew says that it is not
  initialised, and a shutdown then returns before it unregisters the handler.
- A stop of a slow Neopixel effect deletes its task, which the comment in
  `neopixel_effects.c:170` says should not happen, and may delete the caller's.
- A light that was left off after a crash is still on in NVS and nothing is left to
  save: the next planned restart turns it on. After an update with another list of
  switches or lights only the fingerprint is written, so the old list's states are
  those of the new one at the next start: a light that has only colours may get a white
  mode, and is then on and dark (excepted in `LitWhenOn`).
- Lights whose LEDC channels ran out, because the adapter was switched off and on,
  are skipped, and those behind them restore another light's entry.
- A WebDAV `PUT` whose `fwrite` is short answers 201.

## 6. What is not modelled

Payloads, topics, JSON and page formats, TLS, logging, drivers and the vendor's
libraries, except for the rules of theirs that the code relies on. Allocation
failures of `malloc` and `xTaskCreate`, except where a module says otherwise. Of
`mqtt.c` the confirmation of the offline message (two bits and a wait of 1 s at
most) and fragments; of the configuration manager the settings that no module
above uses, which are loaded and set in the same way; of `inet_common.c` the
polling of reachability; of the lights a ratio above 100, which `light_apply` does
not clamp; of the HTTP server its pages and files; of the ESP-NOW
receiver the suppression of duplicates; of the monitor a log call that is already
in the hook when the buffer is deleted. The components without a module are those
that `PROJECT.json` lists as not modelled, with the reason.

## 7. Plan

What is left, in this order:

1. Proofs: what the operators of `Light` promise, each as a lemma (`Parse` never takes
   more channels than there are, `Changed` never leaves a light that is on dark); action
   properties that the invariants give, such as that no step of `TcpOta` gives the
   service a second task.
2. `MqttOffline`: the two bits left out of `Mqtt`, on top of it. Every acknowledgement
   sets the one for the offline message (`mqtt.c:347`), so the wait for it may end early.
3. `HaDiscovery`: the entity table, filled by each network adapter (`ha.c:116`): two of
   them announce everything twice and reach its limit early.
4. `InetMesh`, `BorderRouter`, `LedIndicator` as further listeners of the network's
   events.
5. `RfReceiver` with the receiver's suppression of duplicates; `WebDav`.
6. A common abstract service (*off, starting, on, stopping*) that `TcpOta`,
   `TcpMonitor` and `Mqtt` implement.
