# The boiler room agent in TLA+

TLA+ modules, TLC runs and TLAPS proofs kept beside the agent in `src/src`: a
Python program on a Raspberry Pi that reads the temperatures of a boiler room,
switches boilers and pumps by relay, follows a weekly programme, protects the
boilers from heat and the pipes from frost, and talks to a server that may be
away for days. What is modelled is the agent's decisions: who switches a relay
when, what survives a restart, what two tasks do to each other, and what its
operator sees of it. What is drawn, how it is worded and parsed, and the
registers of the sensors are not.

Contents: 1 the system, 2 the modules, 3 what each models, 4 the runs, 5 what the
runs and the modelling found, 6 the proofs, 7 what is not modelled. Line numbers are those of the files under `src/`.

## 1. The system

One process, one asyncio event loop, eight tasks under a supervisor
(`main.py:supervise`). A coroutine runs alone until it suspends. It suspends at
`asyncio.to_thread` (every relay write, file write, SQLite call and HTTP
request), at a WebSocket send or receive, at a sleep and at a key press. The
locks in `RuntimeState` guard sections without an `await`, so taking one never
lets another task run: `get_mode`, `is_limit_blocked`, `notify_state_change` and
the log are plain reads and writes. Worker threads are the only true
parallelism: two relay writes in flight reach the pins in either order.

| Component | State it keeps | Operations | Talks to |
|---|---|---|---|
| Relay controller (`relay_controller.py`) | `_states`, the pins | start, turn_on, turn_off, toggle, get_state, cleanup | called by all below, in a worker thread |
| Over-temperature guard (`limits_guard.py`) | `_cut`: reason and the state before the cut | check, per read cycle: cut, restore | relays; blocks in `RuntimeState`; `schedule_runner.forget`, `evaluate` |
| Anti-freeze guard (`anti_freeze.py`) | `_engaged`, `_held`, `_engaged_readable_ids`, the thresholds and whether they are local and saved | check: engage, assert, release; set_thresholds, restore_defaults, load_local | relays; modes and blocks; the schedule |
| Schedule runner (`schedule_runner.py`) | programme, published document, `_local_revision`, `_applied` (what it last switched) | evaluate, forget, apply, edit, revert, adopt a published version | relays; blocks, modes, holds; the override and cache files |
| Sensor task (`main.py`) | the read cycle | read, save, limits, anti-freeze, telemetry | everything above |
| Schedule task (`main.py`) | - | evaluate once a minute | schedule runner |
| Control menu (`control_menu.py`) | what it read when a table was opened | toggle a relay, set a mode, edit programme, limits, setpoints, thresholds | all of these |
| WebSocket task (`ws_client.py`, `commands.py`, `reconcile.py`) | the session, replies awaited, outcomes of the last commands | commands, pushed config and schedule, acknowledgements, reconciliation after hello | runtime state, schedule runner, config store |
| Record task (`record_sync.py`, `device_record.py`) | the server's record | adopt modes, setpoints, calibration, mapping | runtime state, schedule runner |
| Runtime state (`runtime_state.py`) | modes and setpoints with a published flag, limit blocks, versions, readings, events | set, mark published, persist | `mode_store.py`, `setpoint_store.py`, `json_store.py` |
| Config store (`device_config.py`, `config_editor.py`) | published and local limits | publish, edit, revert, restore | the override file |
| Telemetry and outbox (`telemetry_client.py`, `data_logger.py`) | the queue of undelivered envelopes, attempts, the send lock | post, flush, drain, prune | the server; SQLite |
| State publisher (`state_publisher.py`) | the change event and its reasons | wait, debounce, report | telemetry, WebSocket |
| Authentication (`auth.py`, `auth_loop`) | token, credentials, the two events it shares with the menu | login, renew, retry on 401, ask, save | HTTP |
| 1-Wire watcher (`sensor_watcher.py`) | the probes seen, in order | scan in a thread, save, reset from the menu | the cache file |
| Supervisor (`main.py`) | the tasks | start again after a pause, shut down | all tasks |
| Mapping (`record_mapping.py`, `mapping_schema.py`, `mapping_provider.py`) | `RELAYS`, `TEMPERATURE_SENSORS`, the cached record | build from a record, load at boot, adopt a first one, load again by command | relay controller, guards, sensor readers |
| JSON store (`json_store.py`) | the files on the card | save: write beside, rename; read | every store above, in threads |
| Keypad (`keypad.py`) | the key it holds, its queue | scan, debounce, wait for the release | the menu, from a thread |
| Screens (`screen.py`) | the open widget, its window, the saver, the queue of keys | draw, wait, take a key | keypad, display |
| Display (`display.py`) | `_previous`, `_started`, the bus lock | open, flush by difference, close | the controller of the panel |
| Fonts, sensor readers, logging, host metrics, error reports | - | input, output and data | - |

What is hard here:

* **Decisions carried over an await.** A loop over the units reads the desired
  states once and then awaits one relay after another; the guard reads a relay,
  awaits a write and then records the cut; the menu reads the blocks and then
  waits for a key for minutes.
* **Three owners of one relay.** The schedule drives by edge (it switches only
  what differs from `_applied`), the guards drive by level, people drive at any
  moment; each must leave the others' bookkeeping right.
* **Deadbands and latches** under probes that fail and return and limits that
  change while a boiler is cut.
* **Failure of one step**: a relay id the controller lacks raises in the middle
  of a loop; a file cannot be written; the process restarts.
* **Versions and acknowledgements** with a server that is away, answers late or
  twice, and may hold something newer.

Per component, what makes it correct: a cut boiler is off whatever the others do
(relay control); what a cycle leaves uncut is under every limit, the gap is a
deadband, a cut ends (over-temperature guard); a cold room is heated, a warm
room is let go, saved thresholds survive (anti-freeze); the cache of applied
states never hides a wrong relay (schedule runner); the server's view of the
relays never goes back in time and no reading is lost without a reason (outbox);
every change is reported (publisher); a person's unpublished change is not
overwritten and a published one is (modes, setpoints, schedule); no superseded
edit comes back and what is reported is what runs (documents); a command acts
once (executor); a paired device stays paired (authentication); a unit's name
reaches its own relay and its own probes (mapping); a save is a register (JSON
store); a key acts on what its presser saw, a press is one key, the glass shows
the last drawing (panel); a task that raises comes back (supervisor).

## 2. The modules

| Module | Part of the agent | Composed by |
|---|---|---|
| `RelayControl` | the four tasks that switch relays | `MCRelayControl` |
| `LimitLatch`, `FreezeLatch` | the verdicts `RelayControl` takes as given | `MCAgent` |
| `Outbox` | telemetry, its queue and lock, the publisher, the drain | `MCOutbox` |
| `Programme` | what a programme asks for, and the wizards that edit it | `MCProgramme`, and by that `MCAgent` |
| `ScheduleSync`, `ConfigSync` | the two documents of a room between server, memory and card | `MCDocuments`; `MCScheduleSync` for the programme alone |
| `UnitSync` | modes and setpoints between server, memory and card | `MCUnitSync` |
| `Session`, implementing `Commands` | the session and the commands in it | `MCAgent` |
| `SignIn` | login task and dialog | `MCAgent` |
| `Wiring` | record, mapping, relay board | `MCWiring`, and by that `MCAgent` |
| `JsonFile`, implementing `Register` | a document's file | `MCAgent` |
| `Watcher` | the 1-Wire bus | `MCAgent` |
| `Panel`, `Screens`, `Keypad` | the front of the device | `MCFront`, with a small `RelayControl` |
| `Options` | a value that may be `None` | - |

`Commands` and `Register` are abstract specifications: what the server may rely
on when it queues a command, and what whoever saves a document relies on.
`Session` and `JsonFile` implement them under the mappings `Abstract` and `Saved`
at their ends.

The modules meet at the interfaces the code has. `RelayControl` takes verdicts
(`Cycles`) from the two latches and demands (`Demands`) from a programme;
`Programme` takes publishes and hands on edits, whose way to server and card is
`ScheduleSync`'s; `JsonFile` justifies that every other module writes a file in
one step; `Wiring` justifies that units and relays have the same names in
`RelayControl`. `MCDocuments`, `MCFront` and `MCAgent` put independent parts into
one specification and follow one of them in each behaviour, so their states add
up and do not multiply; `MCUnitSync` changes either the mode or the setpoints.

The theorems stand in eight modules named after what they are about:
`RelayControlProofs`, `LatchProofs`, `OutboxProofs`, `DocumentsProofs` (the two
documents), `UnitSyncProofs`, `SessionProofs`, `FrontProofs` (keypad, screens,
panel) and `AgentProofs` (signing in, the file, the bus, the wiring, the
programme).

Left for later: the reconciliation after hello as one behaviour over schedule,
units and outbox, each of which is modelled against its own data.

## 3. The modules and the code

### RelayControl

Units are numbered as `sorted(Target)` orders them: boilers, then pumps. The
variables are the code's: `relay` (the pin and `_states`, written together),
`mode`, `cut` (`LimitGuard._cut` together with the block in `RuntimeState`: line
408 and 409, and 440 and 441, have no suspension in between), `applied`
(`ScheduleRunner._applied`), `engaged` and `held`. A task's program counter
`pc`, its pending relay command `op`, the rest of its loop `todo` and the
desired states it took `want` are its local state; `scratch` holds the sensor
task's locals, `shown` what the open relay menu read. `late` and `byHand` are
history: the cut units a switch-on got past, and the units whose last write came
from a person.

An action is the code between two suspensions. A relay command is three steps:
issued by the coroutine, written by its thread (`WriteRelay`, or `WriteRaises`
for a relay id the controller lacks), and seen by the coroutine when it resumes.

| Action | Code |
|---|---|
| `Evaluate`, `EvaluateNext` | `ScheduleRunner.evaluate`, up to its next `await`; used by `Tick`, `Boot`, `LimitsDone`, `Release`, `ModeSaved` |
| `ReadCycle` | `_sensor_cycle` up to `limit_guard.check`; the verdicts come from `Cycles` |
| `CycleFails`, `GoRound` | a reader or `save_readings` raises before either guard (`main.py:180-190`), which skips both; `sensor_loop` says so and waits for the next cycle (`:265-290`) |
| `CutOff`, `CutRecorded` | `_maybe_cut` before and after its `await` |
| `Restore`, `Restored` | `_restore` |
| `LimitsDone` | the end of `LimitGuard.check`: an evaluation if anything came back |
| `FreezeCheck`, `HeldOn` | `AntiFreezeGuard.check`, `_engage`, `_assert_held` |
| `Release`, `Released` | `_release` and its evaluation |
| `SwitchTarget`, `Switched` | `boiler.turn_on` and its kin |
| `SetMode`, `ModeSaved` | `set_mode` and, for automatic, forget and evaluate: from a command or the menu |
| `SetSchedule`, `ModeSaved` | `apply_document`, `apply_local_document`: the new programme, its file, the evaluation |
| `OpenRelayMenu`, `Toggle`, `Toggled`, `CloseRelayMenu` | `_relay_menu` |
| `StartAgain` | `supervise` starting `sensor_loop` again |
| `Restart` | a power cut: modes and programme come back from their files |

`Verdict` is what one cycle's readings say: which boilers are over their cut-out
or at their restore point, what the room sensor says, what the water probes say
of a freeze. A cycle may carry any combination the constant `Cycles` allows.

`Calm`: with `AnyMoment = FALSE` the slow events - a programme boundary, a new
programme, the next read cycle - find no relay command in flight. A relay write
takes a millisecond and those events are minutes apart, so this is the everyday
case; run `front` states `CacheIsHonest` for it, all others take `AnyMoment = TRUE`.

The record task sets modes by the same code as the listener (`record_sync.py:168-174`)
and is represented by it.

### LimitLatch

One boiler: which probes the mapping gives it (chosen once, as the mapping is
never swapped under a running agent, `record_sync.py:report_mapping_drift`), the
limits and setpoint in force, what a cycle read, and the record. `CutAt` and `RestoreAt` are `_thresholds` for
one probe and for several, `ControlProbe` the preference of outlet, body, inlet,
`Judge` the decision of `check`. `judged` and `since` are history: whether a cycle
has run under the settings in force, and the probe and reading that let the last
water cut under them go. Config and setpoint change between cycles; the guard is not
told. A missing value is an empty set. Temperatures are integers: the code only
compares and adds, and TLC takes a scale where every threshold, and one degree
on both sides of it, is a value.

### FreezeLatch

The latch of the room: `Engage`, `Release` and `Stay` are the outcomes of one
check, `SetThresholds`, `RestoreDefaults` and `Restart` (`load_local`) change the
pair in force and the saved one. A save may fail.

### Outbox

Three tasks share `_send_lock`: the sensor task posts once a cycle, the publisher
posts after a change, the listener's reconciliation drains the backlog. `lock`
is the FIFO of `asyncio.Lock`: its head holds it. `outbox` holds the unsynced rows
whose attempts are below the cap, in the order of their ids; `aside` counts the
unsynced rows that were given up. Only the oldest row ever gains attempts beyond
its first, so the rows given up are the oldest and a number is enough for the cap
and the overflow. `wire` is the request of the lock's holder, `batch` what its
flush has still to send, `env` the envelope each poster built. `server` is the
moment of the envelope the server took last, `captured` (history) the newest moment
in an envelope.

| Action | Code |
|---|---|
| `Change` | a relay switched and `notify_state_change` |
| `PublisherWakes`, `PublisherPosts` | `run_state_publisher` up to the cleared event, and on to its post |
| `CycleDue` | the end of `_sensor_cycle` with telemetry due and a session |
| `Capture` | `build_telemetry_envelope` after the metrics, up to `async with _send_lock` |
| `Flush`, `FlushAgain` (`StartFlush`) | the read of the pending rows by `flush_outbox`, from a post or from `drain_outbox` |
| `Accept` | the server takes the request in flight |
| `Resent`, `ResendFails` | a row marked delivered; a row's attempt recorded, the flush stopped |
| `Post`, `Posted`, `PostFails` | the live envelope |
| `Enqueue` (`Overflow`) | the envelope written to the table, which loses its oldest rows at the cap |
| `DrainEnds`, `AssertRelays` | the end of `drain_outbox`; `_assert_relay_state` |
| `Hello`, `SessionEnds` | a session with its reconciliation; its cancellation |
| `OrphanEnds` | the end of a request whose coroutine was cancelled: the server took it or not |
| `StoreRaises` | any store operation failing, seen by its caller |
| `Prune` | rows given up and past their retention |
| `Restart` | a power cut: the table stays, the relays are off |

Abstractions. A store operation runs in a thread but belongs to the action that
starts it: only the holder of the lock touches undelivered rows. (A cancelled drain
may leave a mark on its way; whoever reads before it lands sends the row again,
which `StoreRaises` and `SessionEnds` before `Resent` allow too.) A request fails
only when the link is down (`up`): refusals by the server are left out, so a row is
given up by outages alone. A request that failed is taken not to arrive later on
its own; only cancelled ones (`orphans`) do. Rows that cannot be parsed do not occur,
as rows are written by `json.dumps`. Pauses - the debounce, the floor of five
seconds, the drain's budget - are suspensions of any length. Shutdown is left
out.

### Programme

A day has `Slots` slots and a week `Week` days; `RuleMatches` and
`ExceptionMatches` are `Rule.matches` and its kin over these, with windows that
wrap past midnight, and the wanted state is the last word of the rules, then of
the exceptions, each laid over what was said before (`Over`, the two loops of
`desired_states`). `WantedIsLastSaid` compares it
with a reference that starts from the moments a window covers.

| Action | Code |
|---|---|
| `OpenOnTerminal`, `OpenOnPanel` (`Showing`) | the start of a wizard: token and document read together, and the list that is shown |
| `TypeRule`, `ChooseRule`, `TypeException`, `ChooseException`, `RemoveRuleByNumber`, `RemoveExceptionByNumber` | a wizard's last answer, on terminal and panel |
| `ConfirmRuleRemoval`, `ConfirmExceptionRemoval` | the panel's removal, which reads token and document only now and the number from its old list; a number too high is an error and the list stays |
| `ApplyLocalEdit` | part of those: `_apply_local_edit` compares the token (`control_menu.py:1199`) and starts the parse in a thread |
| `Assign` | `apply_local_document` after that await (`schedule_runner.py:611-612`): whatever is in force by now is replaced |
| `Relist` | the panel's removal list built anew once the edit is saved and evaluated |
| `Publish` | `apply_document` from its assignment on |

`applying` is the edit between the check and the list. A publish may come in
while a wizard is open, which its token tells, and while the edit is parsed,
which nothing does: `EditIsOneStep` and `RemovesWhatWasShown` except the second,
and run `undone` shows it.

### ScheduleSync and ConfigSync

A document is whose it is: a published version or the n-th edit. The variables are
`schedule_runner`'s (`inForce`, `base`, `rev`), the reported version (`active`),
and the two files (`cache`, `override`). Every await that really suspends ends
a step:

| Action | Code |
|---|---|
| `Hear`, `ApplyPublished`, `RemoveOverride`, `CachePublished` | `_handle_schedule_apply` and its awaits, on the listen loop |
| `AdoptPublishedVersion`, `RemoveSettled` | an acknowledgement of an edit, and the removal of its override |
| `StartEdit`, `CheckToken`, `ApplyLocal`, `SaveLocal`, `PublishLocal` | an edit at the menu, its file, its report |
| `StartRevert`, `RevertRemoves`, `Revert` | going back to the published programme |
| `OfferPending` | the reconciler, after versions settled or the grace period ended |
| `Connect`, `LinkDrops`, `ServerTakes` | session and server |
| `Restart` | a power cut: cache and override as `main.py` restores them |

`ConfigSync` is arranged alike for the limits; nothing goes upstream there, and
only file writes suspend. Its edits are typed value by value and checked against
each other; what the owner publishes is checked by nobody.

Assumed is a sound mapping: an evaluation that raises would break off
`ApplyPublished` in its middle (that is in `RelayControl`).

### UnitSync

A unit is one mode or one setpoint: `entry` is its value with its published flag,
`card` the two files, `saving` the snapshot each task is writing in a thread.
`Report` and `MarkReported` are the two sides of the awaited send, `Hear` the
listen loop, `Fetch`, `AdoptRecord` and `AdoptNext` the poll of the record under
its lock, `Offer` and `Offered` the reconciliation, `AppSets` another device.
`Put` and `Mark` change memory at once and take the snapshot that `Saved`
writes. A server that predates the mode messages stays silent (`knowsModes`).
`touched`, `owed`, `crossed`, `upset` and `refused` are history; they name
the cases the properties except, each of which the code does have.

### Session and Commands

The session is one task: whoever handles a message has it to the end, although
the socket may be dead long before (`link = "dead"`). `processed` is
`CommandExecutor._processed` with its eviction, `job` the message in hand:
`TakeCommand`, then `SendAck`, then one of `Expire`, `Refuse`, `BeginSwitch` and
`WriteRelay`, `SetUnit`, `RestartService`, then `SendResult`; `ReplayAck` answers a
repeat. A message without an id or a name, which is refused at once, is left out.
The cloud is modelled from what the code says of it: it pushes a command to
a device that is online and sends the open ones again after hello. How many it
keeps open at once is not in the repository; `QueueCommand` bounds it by half of
what the executor remembers, and without a bound `Commands` is not implemented.

`Commands` says: in one life of the process a command is acted on at most once;
the cloud hears its outcome and no other; once heard, it is never acted on
again. A death in between lets the repeat act again, which `Die` allows.

### SignIn

`auth` is where `auth_loop` stands, `dialog` where the menu stands, between them
the environment of the process and three events. `sent` is what a thread
has in its hands: the login was started with one pair of credentials and may be
answered when the environment holds another. `kept` is the `.env` file.

### Wiring

`MappingFrom` is what `record_mapping.py` builds: local keys, primary keys
resolved to indices, probes by kind, relays by role, pins by override; a record
that is not `Usable` yields none. `FetchRecord`, `SaveRecord`, `SaveRecordFails`,
`AdoptMappingIfMissing` are `adopt_device_record` and the record loop; `Reboot` is
the boot from the cached record, `ReloadMapping` the command
`device.restart_service`, `Switch` the relay board by way of the mapping. Records
are assumed to be consistent in their roles: a `pot` relay attached to a pump
unit would drive the boiler of that index.

### JsonFile and Register

`OpenTemp`, `Write`, `Replace` per writer, a power cut at any point; two writers
share one temporary name, and a handle follows the file it opened through a
rename. Of the file system it is assumed that the rename is one step and does
not overtake the data (the code does not `fsync`). `Register` holds one whole
document at a time.

### Watcher

A look at the bus in a thread (`ListBus`, `LookAt`, `MarkGone`, `Save`,
`MakeDocument`, `WriteCache`) and the menu's `Reset`, `DropFlag`, `DeleteFile` on
the event loop, with probes that come and go and writes that fail. `upset` is
history: the card missed something since its last clean save.

### Panel, Screens, Keypad

`Panel` is the driver: the jobs that wait for the bus lock, the transfers of the
one that holds it, the frame it believes on the glass. The controller is external
and taken at its worst: it keeps instruction set, graphics RAM and half a
transfer over a restart of the agent. `Screens` is the loop every widget is -
draw, wait a second, take a key - with lists, boxes, pages, watched lists,
answers typed key by key, the status screen and the saver; the queue of keys
remembers what was on the glass at the press. `Keypad` is the scan thread over a
matrix without diodes: what reads low in a row is any set the bridged keys can
pull low, ghosts included.

## 4. The runs

All bounds are in the `.cfg` files. `RelayControl`, the latches, `Wiring` and
`JsonFile` count nothing: their state spaces are finite as they are. The
other modules bound what the environment does - edits, publishes, losses,
faults - by a counter in the guard of that action, and name it among their
constants.

| Run | Bounds | Why they are enough |
|---|---|---|
| `badmap` | 1 boiler, 1 pump whose relay does not exist, 3 tasks, every kind of cycle, power cuts | two units make the loops carry decisions over an await, and loops are abandoned in each place that can raise; the proofs cover the rest |
| `live` | 1 boiler, 3 tasks with the menu, cycles warm, hot, frozen, failed | the relay menu and a programme switch against both guards, and cycles fail in between |
| `deliver` | 3 rows, 3 attempts, batches of 2, 3 moments | the table overflows, rows are given up, a flush reads a full batch and a short one; three moments tell an old, a middle and a new envelope apart |
| `documents` | 2 versions, 2 edits, 1 lost link, 1 failed write, 1 restart; limits of 0..3 degrees, 2 publishes, 2 edits, 1 failed write | an edit meets the publish before, during and after it; the failed write and the restart may fall on either side of each |
| `units` | 1 mode, 2 setpoints, 2 values, 2 changes, 1 fault | one change here and one elsewhere; the second setpoint makes an adoption wait between two units it read together |
| `front` | 1 boiler, 4 tasks, limit cycles, power cuts, `AnyMoment = FALSE`; 4 rows, 2 frames, 2 kills, 1 failed transfer; lists of 1 and 3 on one row, 2 screens, 2 keys ahead; 2 by 2 keys | each part alone: four tasks interleave on one unit (freeze cycles are left out, see section 5); frames that differ in both halves of the controller; lists that fit and lists that scroll; four keys are what a ghost takes |
| `agent` | temperatures on both sides of every threshold; weeks of 2 days of 3 slots, 2 publishes, 2 edits; 4 commands of which 3 are remembered, 1 lost link, 1 death; 2 power cuts; 6 records on 3 relays; 1 writer, 2 contents; 2 probes, 1 failed write, 1 reset | each part alone: two days make a window wrap, the fourth command makes the executor forget, the records include a clash, a missing boiler and a reordering |
| `race` | 1 boiler, 2 tasks | expected to be violated |
| `gap` | as `deliver`, 2 moments | expected to be violated |
| `relabel` | as `documents` | expected to be violated |
| `swap` | as the wiring of `agent` | expected to be violated |
| `undone` | as the programme of `agent` | expected to be violated |

What each run shows is said in `PROJECT.json` and above each property. `units`
and `agent` take about two minutes on two cores, `front`, `deliver` and `badmap`
about one.

Deadlock is checked where the system goes on for ever. In `documents`,
`relabel`, `front`, `agent`, `swap` and `undone` the behaviour may stop, because the
environment has done all its bound allows and the program waits for it; these say
`CHECK_DEADLOCK FALSE`.

Each property is listed in `PROJECT.json` with a plausible slip of the code (a
guard not looked at, a cache not forgotten, an order swapped) under which TLC
finds it violated; the slips are the definitions marked "A slip for" in the
modules.

### Fairness

What is assumed is what the event loop, the threads and the retry loops of the
code give; never that a person, the owner of the room or an app does anything.

* `RelayControl`, `FreezeLatch`: a command that was issued is written and its
  coroutine resumes, the sensor task and the tick come round again. Weak
  fairness: nothing disables a step of a task but the task itself. It does not
  make a cycle come through: a cycle may fail before its guards, again and again.
  `OverIsCut` and `FreezeKeepsOn` therefore have as their premise that cycles
  reach the guard in question infinitely often, and `FreezeLatch` counts only
  those that do. Under a fault that lasts - a bus that is gone, a card that takes
  no write - neither guard runs (section 5).
* `Outbox`: the steps of the event loop; a server that can be reached takes and
  answers a request, one that cannot lets it time out; the login is tried again.
  `Converges` has as its premise that the link stays up and the store stops
  raising from some point on; sessions may begin and end for ever.
* `ScheduleSync`: the link comes back (`run_websocket_loop` tries for ever), the
  server takes what it is sent, the listen loop, the editor's awaits and the
  reconciler proceed. Starting an edit is not fair.
* `UnitSync`: the same, with the record loop and the writing threads. Strong
  fairness for the reconciliation's fetch only: the record lock is an
  `asyncio.Lock`, handed out in turn, so the loop cannot shut the
  reconciliation out.
* `Panel` (in `MCFront`): opening, refreshes, transfers and the menu's redraw, which
  comes every second.
* In `MCAgent`: the steps of the session's task, of the login task, of the dialog
  while it is not asking, of the record loop, and a cloud that answers and hears.
  Strong fairness twice: a server asked to log in again and again answers once,
  and a record saved again and again is saved once - the disk is not full for ever.

## 5. What the runs and the modelling found

Five runs are expected to be violated; the lines are quoted in `PROJECT.json`.

* `race` - a switch-on in flight gets past a cut: `_maybe_cut` sets the block
  only after its `await` (`limits_guard.py:407`). The open relay menu does the same
  by refusing with the cuts it read when it was opened (`control_menu.py:632`).
* `gap` - every failed cycle of an outage counts against the oldest row
  (`data_logger.py:283`), which is given up after five though the server never
  refused it; a few minutes offline cost an envelope, in a queue sized for days.
* `relabel` - the acknowledgement of one edit labels whatever is in force when
  it is heard, also a newer edit, as the version the server made of the first
  (`schedule_runner.py:653`); the newer edit is then never offered.
* `swap` - `device.restart_service` loads the mapping again under the running
  agent (`commands.py:259`): a relay that is on and is not in the new mapping, or
  is another unit's in it, stays on.
* `undone` - the token of an edit is compared before the parse is awaited and
  not again after it (`control_menu.py:1199`, `schedule_runner.py:609`): a publish
  that is adopted in between is overwritten by the edit of the older document,
  which the token is there to prevent (`control_menu.py:1103-1105`).

Met while modelling, in the modules as the code has them or excepted where said,
and stated by no run:

Relays and guards

* After a freeze release the schedule's cache may say off for a unit that is on,
  and the next off is skipped (`anti_freeze.py:591`, against the comment at `:585`);
  hence `front` leaves freeze cycles out.
* A restore undoes what the operator did to a manual unit since the cut
  (`limits_guard.py:446`).
* Both guards come after the readers and after the readings are saved
  (`main.py:180-190`), and an exception in any of these ends the cycle: while the
  gas sensor's bus is gone or the card takes no write, a hot boiler is not cut
  and a cold room not held, though the temperatures were read. `CycleFails` has
  it. `README.md:550` says that the limits are enforced on every read cycle; that is
  so of every cycle that gets there.
* A mapped relay the controller lacks ends the sensor task before its first
  cycle, at every start, and no boiler is protected (`main.py:249`); `OverIsCut`
  therefore takes a sound mapping.
* With several probes the cut trips on one and clears on another
  (`limits_guard.py:310`), so the deadband of `CutDoesNotChatter` is a probe's, and the
  boiler's only when it has one probe. An ambient cut is lifted without a reading
  of the water (`:325`), and a water cut outlives the limit it was made for (`:247`).
* A probe that came back cold does not hold the freeze latch
  (`anti_freeze.py:453`), and inverted defaults are warned about as not running
  and run (`:179-188`).

Server, documents, units

* The end of a session cancels the reconciliation, which frees the send lock
  while its worker thread is still sending (`telemetry_client.py:308`,
  `ws_client.py:1001`): the older envelope may arrive after a newer post, and the
  server shows old relays until the next one. `RewindsOnlyByOrphan` says that
  nothing else does that.
* An acknowledged edit loses its override and is not cached, so a restart before
  the next publish brings the programme before it.
* A limits override may be lost, or come back, by a save and a removal in
  flight in two threads; `NoDeadLimits` speaks of rest and of cards without a
  failed write.
* Two snapshots of one file are written by two threads in either order
  (`runtime_state.py:246, 327`); `CardIsCurrent` excepts files two threads wrote at
  once.
* A record fetched before a report overrides the newer, published value;
  a list of offers taken before sends an older value after a newer one
  (`ws_client.py:872, 899`); a cleared setpoint is taken up again by the next
  poll (`control_menu.py:2283`).

Editors and panel

* The panel's exception wizard asks for an end date and drops it; exceptions do not
  wrap past midnight where rules do; a rule that starts when it ends never matches;
  an exception without an action shifts the numbers of the list against those
  of the removal; the panel's removal takes its token when it is confirmed, so a
  publish since its list was built makes the number hit another entry.
  `RemovesWhatWasShown` excepts the last two.
* An SPI error breaks a refresh off with `_previous` as it was
  (`display.py:727-750`), so rows that were sent are believed not to be;
  `GlassIsBelieved` excepts a broken-off refresh until the panel is opened again.
* The key that wakes the panel acts on the hidden screen (`screen.py:682`), and
  keys typed ahead act on screens opened later.
* The status screen shows three of the six lines it moves on by
  (`control_menu.py:3544`, against `README.md:1582`).
* `keypad.conflicting_pins` looks at the relays at the start only; the rows of
  the default layout leave out 4, 5, 6.

Signing in, wiring, files, bus

* The dialog may act on a `needed` it read before the first login was answered:
  it says "Not accepted" of nothing, and may save credentials no server has
  accepted (against `auth.py:18`). `PairedStaysPaired` holds nevertheless.
* `adopt_device_record` caches an unusable record over a usable one: after the
  next reboot the device has no mapping until the server's record is repaired.
  A failed cache write gives the adoption up.
* `device.restart_service` on a device that is not ready loads a mapping and does
  not set `mapping_ready`.
* The relays driven are those of `config.RELAY_GPIO`, whatever
  `BOILERROOM_RELAY_GPIO` or the record says of pins (`relay_controller.py:22`,
  against `README.md:854`).
* Two saves of one file that overlap share one temporary name and may leave a
  torn file or raise `FileNotFoundError` (`json_store.py:31`).
* A probe that was pulled out is left out of the menu's rows and the others are
  renumbered (`sensor_watcher.py:243-254`), where `control_menu.py:3024-3027` says
  it keeps its number. A failed write of the bus's cache is not tried again before
  the next change, and a reset during a look may leave the cleared order on
  the card.

## 6. The proofs

TLAPS proves, for all values of the constants that meet the named `ASSUME`s:

* `RelayControlProofs` - `TypeCorrect`; `CutIsRespected` (`CutHolds`);
  `DecisionsAreFresh` (`DecidedAfresh`), for any number of units, any tasks, read
  cycles, schedules and relays that do not exist. `CutHolds` is not inductive: a
  switch-on is harmless only because whoever issues one looks at the block in the
  same step, or is counted in `late`. The invariant adds where each task may stand
  when it has a command in flight, and that a switch-on issued for a unit while it
  is cut belongs to a unit in `late`. `DecidedAfresh` follows from the types
  alone, action by action, because every issue in the loops is guarded by
  `Drivable` or by the eligible set at the moment it is made.
  `CacheStaysHonest` (`CacheIsHonest`) is of the installations that `Everyday`
  names, those of run `front`: no relay is missing, no cycle is cold, and the
  slow events find no command in flight. With cold cycles it is false of the code
  (section 5). The invariant `Honest` describes two evaluations in flight for one
  unit without listing them: an evaluation under way wants what the schedule
  wants now (`InStep`); what it wrote last is still on the pin, or a person or a
  cut overruled it (`WrittenRight`); and what the cache says is on the pin, or
  overruled, or about to be replaced by a task that has written (`Remembered`).
* `LatchProofs`, of both latches. `LimitTypeCorrect`; `UncutBoilersAreSafe`
  (`UncutIsSafe`, inductive together with the types); `ReleasingProbeNeverChatters`
  (`CutDoesNotChatter`, for any probes). What carries the last from the release to
  the next cut is the invariant `ReleasedLow`: the reading in `since` is at or
  below the restore point, which no step moves without emptying `since`.
  `FreezeTypeCorrect`; `DeadbandKept` (`ThresholdsApart`) and `NoProbeChatters`
  (`FreezeDoesNotChatter`), both assuming that the environment's defaults are a
  valid pair. Without it they are false: the code uses an inverted pair as it is.
* `OutboxProofs` - `TypeCorrect`, with the cap of the table; `ChangesAreReported`
  (`NoChangeMissed`); `OnlyOrphansRewind` (`RewindsOnlyByOrphan`). The invariant has
  three layers. `LockOK` and `FlushOK` (with the types: `Control`): each task is at
  most once in the lock, all but its head wait, and the holder's `batch` is
  within the table, which is empty once it is past its flush. `InOrder`: the rows,
  then the envelopes of the tasks in the lock in its order, then the present
  moment ascend, and neither the server nor a cancelled request is newer than any
  of them - so what the holder sends is never older than what the server has
  (`CarriedLow`). `SeenOrNew`: an unreported change is announced or about to be
  captured, unless nothing was posted since the start and no post is under way; the
  last clause makes `NoChangeMissed` inductive.
* `DocumentsProofs`, of both documents. `NoDeadLimitsReturn` (`NoDeadLimits`): the
  invariant is the types, that no version on the card is ahead of what was applied
  (`Behind`), and that without a failed write a publish that is not cached yet,
  and an edit of the published version that is not in force, are on their way to
  the card and out of it (`CleanCard`). `PublishedAscends`
  (`PublishedNeverRegresses`): the versions on the link, after the one being
  handled, ascend (`Ascending`), and the card is not newer than memory
  (`NotNewer`). `RunsWhatIsReported` (`ReportsWhatRuns`) is inductive with the
  types. `NoDeadEditReturns` (`DeadEditsStayDead`): a dead edit can only be in a file
  whose base is older than the cached version (`Buried`), and the edit in the open
  editor has been seen nowhere yet (`Fresh`); `Old` names everything but that
  edit.
* `UnitSyncProofs` - `MarkedIsSent` (`MarkedWasSent`), `CardHoldsMemory`
  (`CardIsCurrent`), `RecordYields` (`UnsentOutranksRecord`), for any units, values
  and number of changes. None of the three is inductive. `OwedOK` follows a report
  through the offer, the link and the acknowledgement: one that is under way for
  a unit that was set here and not sent is of an older value, and then the unit
  is `crossed`. `MemoryOK` says that a task that writes a file, unless two do, has
  the file as memory has it. `RecordOK`: what an adoption did not find unpublished
  when it looked, and is owed now, was touched since.
* `SessionProofs` - `ActedOnOnce` (`ImplementsCommands`): the session implements
  `Commands`, each step mapped to a step or a stutter, for any number of commands
  and any length of the memory of outcomes. `OutcomeOK` is why: what is being
  handled or waits to be is remembered, or neither acted on nor heard of. That
  the memory is long enough is `RecentOK`: whatever is handled between a command
  and its repeat is less than half a memory away from it, as the cloud keeps
  no more open at once (`QueueCommand`).
* `FrontProofs` - `NoKeyTwice` (`OneKeyPerPress`): while the thread may report a key,
  every key that is not at rest still owes one (`PressesOK`), however the contacts
  move while the rows are scanned. `SeenThenChosen` (`ChoiceWasSeen`) and
  `NothingSkipped` (`ReadToTheEnd`): what is drawn is what is on the glass or the
  saver is, the highlighted row is in the window (`InStepOK`), and the lines shown
  so far reach to the end of the window (`PageOK`). `GlassCanBeBelieved`
  (`GlassIsBelieved`), for any height of the panel and any frames: while nothing was
  broken off, what is still to be sent makes of the controller what will be
  believed (`DriverOK`). For an opening that is said of each of its eleven first
  transfers, from a controller in any state a kill left it in (`Preparing`); for
  the rows, that those above the next one are done with and those that are
  skipped have their contents (`Writing`).
* `AgentProofs`. `StaysPaired` (`PairedStaysPaired`), for any number of power cuts: a
  device with saved credentials works with them and has nothing typed to be
  written, until `auth_loop`, which alone writes, has returned (`UntilLoggedIn`).
  `SavingIsARegister` (`ImplementsRegister`): a save refines `Register`, under the
  assumption that at most one thread saves the document; all callers but the
  snapshots of modes and setpoints ensure that. `OrderSurvives` (`OrderIsKept`).
  `NoProbeLeftOut` (`EveryProbeGuards`) and `OwnRelayOnly` (`SwitchesItsOwn`): a
  mapping is what its record says through every fetch, failed save and reboot
  (`WiringOK`), and for any record what is said resolves to that unit's own relay
  and to all its probes. `OneEntryAtATime` (`EditIsOneStep`) and
  `TakesOutWhatWasShown` (`RemovesWhatWasShown`): a wizard whose token is the
  schedule's started from the document in force, and an edit that is parsed while
  the schedule keeps its token is one entry away from it (`ProgrammeOK`). Both
  are of edits during whose parse no publish came in.
  `LastSaidIsWanted` (`WantedIsLastSaid`): laying rules and exceptions one over the
  other comes to what the last of them that covers the moment says
  (`LastSpeaks`), and the test on days and times is that of a window on the axis
  of time (`RuleWindow`), for any length of the day and of the week.

The assumptions are those a configuration or the code's own checks give: units
of a record have keys and indices of their own and a relay hangs on units of its
role (`RecordsAssumption`; `record_mapping.py` does not refuse a `pot` relay attached
to a pump, which would drive the boiler of that index); the start and end of a
rule are times of a day (`ProgrammeAssumption`, by `_parse_time`); frames are of the
size of the panel, which has two halves (`PanelAssumption`); the rest are
types of constants.

Two properties were ambiguous as they were written first, a `CASE` whose guards
overlap, and a proof that did not go through showed it: what an exception says
of a unit a rule speaks of too, and what the panel's controller does with the
zero bytes that complete half a transfer. TLC takes the first guard that holds,
which was the one meant; both are now `IF`s.

Only model-checked is liveness, which is beyond the prover: `FreezeKeepsOn`,
`OverIsCut`, `WarmReleases`, `Converges`, `EditsSettle`, `Agreement`,
`LastDrawnIsShown`, `EveryCommandIsAnswered`, `EntrySettles`, `LearnsItsWiring`.
Every other property of a passing run is a theorem. `TypeOK` of `RelayControl`,
`LimitLatch` and `FreezeLatch` is proved and not run.

## 7. What is not modelled

* Exceptions inside the guards other than that of a missing relay
  (a log or a report that raises); failures before the guards are `CycleFails`.
* Shutdown with the cleanup of the relays, and the growing pause between the
  restarts of a task.
* The reconciliation after hello as one behaviour: its parts are modelled against
  their own data, so a hazard that takes two of them is out of reach.
* What an envelope says besides the relays: its modes and setpoints are read
  before an await and may be older than its relays (`telemetry_client.py:222`).
* The life of a token and the second try of a request answered 401; two requests
  answered so at once both log in (`auth.py:368`).
* The arithmetic of calibration; a mapping from a file of the installation;
  malformed messages and the wording of every report.
* Sensor readers, error reports, logging and host metrics: input and output that
  keep no state the agent decides by.
* Fonts and the shaping of Persian text, the drawing of a frame, the converter's
  firmware and the developer's scripts.

`PROJECT.json` lists every component with its status, and under "hazards" what is
hard to test, each at its line.
