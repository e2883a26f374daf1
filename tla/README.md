# TLA+ models of the CN105 driver

This directory models the driver of `src/components/cn105`: an ESPHome component that
drives a Mitsubishi heat pump ("the unit") through its CN105 connector, a half-duplex UART
at 2400 baud, on behalf of Home Assistant.

The driver is single-threaded, but several activities interleave in it: `loop()`, which
takes at most one action per iteration; named timers (`set_timeout`, `set_interval`, where
setting a name again replaces its timer); calls and selects of Home Assistant; and the
answers of the unit, which come late, once, or not at all. All timestamps are 32-bit
milliseconds that wrap every 49.7 days.

## Inventory

| component | state | operations | talks to |
| --- | --- | --- | --- |
| Main loop, scheduling policy (`component_entries.cpp`, `scheduling_policy.h`) | timestamps of the last cycle, send, queued temperature | `loop()`, `decide_loop_action` | everything below |
| Info cycle (`cycle_management.cpp`) | running flag, start, end, "last complete" (may lie in the future) | `init`, `cycle_started`, `cycle_ended`, `defer_cycle`, `check_timeout` | loop, writes |
| Request scheduler (`request_scheduler.cpp`, `info_request.h`) | a list of requests with disabled, awaiting, interval, last time | `send_next_after`, `process_response`, enable, disable, bypass | cycle, write path, readers |
| Connection (`cn105.cpp`, `component_entries.cpp`, `hp_writings.cpp`) | `DriverState`, handshake mode, three timestamps | bootstrap, `setup_uart`, CONNECT, `reconnect_uart`, 10 s check | UART, WiFi, uptime sensor |
| Write path (`hp_writings.cpp`) | one pending packet | `write_packet`, `try_write_pending_packet` | connection |
| Pending writes (`climate_controls.cpp`, `hp_writings.cpp`) | `wanted_settings_`, `wanted_run_states_` with change time | `control`, selects, `check_pending_wanted_*`, `send_wanted_*` | loop, cycle (defers it) |
| Remote temperature (`climate_controls.cpp`, `cn105.cpp`) | value, queue flag, stall clock, last sent, three timers | `set_remote_temperature`, keep-alive, watchdog, `terminate_cycle` | cycle, loop |
| Installer functions (`heatpump_functions.cpp`, `extra_components.cpp`, `hardware_setting_select.cpp`) | a local copy of 30 bytes, a part 2 waiting for its turn | read (0x20, 0x22), write in two frames | scheduler, loop, write path |
| Reconciler (`reconciliation_policy.h`, `climate_controls.cpp`) | desired mode and temperature, protection latch, last command | `evaluate_fan_stop_and_ltp` every 5 s and on each call | pending writes |
| Settings synchronisation (`hp_readings.cpp`) | current settings, last commanded mode and temperature, lock-out | `publish_state_to_ha`, `check_power_and_mode_settings` | reconciler, Home Assistant |
| Frame parser (`frame_parser.h`, `hp_readings.cpp`) | the partial frame | `feed`, `reset`, the 500 ms gap | UART |
| Decoders, tables (`decoder.h`, `cn105_types.h`) | none | byte to enum and back | readers |
| Uptime sensor (`uptime_connection_sensor.cpp`) | start and rollover count | `start`, `stop`, `update` | connection, end of cycle |

What makes each one correct, and hard:

- *Loop and policy*: reads and writes share one slot per iteration. Neither may starve the
  other, a running cycle must not be interrupted, and each window must survive the wrap.
- *Connection*: every waiting state needs a timer that gets it out of there; the only
  witness of a dead link is silence; the retry slot outlives the connection that filled it.
- *Scheduler*: an answer is not matched with a question, so a late one continues the chain.
- *Remote temperature*: the unit silently falls back to its own sensor when it is not fed.
- *Reconciler and synchronisation*: a command and its readback are seconds apart; what is
  read in between must be told apart from what someone changed with the IR remote.
- *Functions*: read, modified and written back, by two frames, with no version.

`PROJECT.json` lists these hazards at the lines where they bite.

## Modules

```
MillisClock <- SchedulingPolicy <- DriverLoop <- MCDriverLoop      (runs loop_*)
                                   DriverLoop <- DriverLoop_proofs
               Connection <- MCConnection                          (run connection)
               Connection <- Connection_proofs
               Reconciliation <- SettingsSync <- MCSettingsSync    (runs settings_sync, sync_first_state)
               Reconciliation <- Reconciliation_proofs
               SettingsSync, Reconciliation_proofs <- SettingsSync_proofs
               InstallerFunctions <- MCInstallerFunctions          (runs functions, functions_overwritten)
               InstallerFunctions <- InstallerFunctions_proofs
WireFormat  <- RemoteTemperature <- MCRemoteTemperature            (run remote)
RemoteFeed  <- RemoteTemperature (INSTANCE ... WITH: the refinement)
               RemoteTemperature <- RemoteTemperature_proofs
WireFormat  <- Airflow <- MCAirflow                                (run airflow)
               Airflow <- Airflow_proofs
               FrameParser <- MCFrameParser                        (run parser)
               FrameParser <- FrameParser_proofs
```

**MillisClock** is `millis()`: numbers modulo `ClockMod` with the subtraction and addition of
`uint32_t`.

**SchedulingPolicy** is `scheduling_policy.h`: the windows, the two tests of time (one of them
does not wrap), and `decide_loop_action`, with the same order of branches.

**DriverLoop** is the connected life of the driver. One action per branch of the `switch` of
`loop()` (`CheckCycleTimeout`, `SendPendingRemoteTemperature`, `SendWantedSettings`,
`SendWantedRunStates`, `SetFunctions`, `StartCycle`, `Idle`), one per kind of request of Home
Assistant, one per kind of answer (`ReceiveData`, `ReceiveAck`, `ReceiveHello`), one per
timer. `write_packet`, `reconnect_uart` and `defer_cycle` are operators used by the actions
that call them, so an action is the whole handler. A frame on the wire is represented by the
answer it will elicit; `owed` is the queue of what the unit has not answered yet, and it may
answer or lose each. In `ReceiveData`, which of the later requests are eligible (disabled, not
due yet) is left open. `LateAnswers` says whether a unit may still answer a frame after the
cycle that sent it timed out; FALSE is a unit that answers within the timeout or never.

Two things are not in the state because the code determines them: `has_been_sent` is FALSE
whenever control returns to the loop, and the retry timer is as old as the last CONNECT,
because a failed write sends one in the same step.

**Connection** is the driver's link from boot on: the `DriverState` machine with the bootstrap
of `maybe_start_connection_`, the CONNECT handshake and its one fallback, `write_packet` with
its slot, and all six named timers. The info cycles appear as `Poll`, which a connected driver
does at least once per `PollPeriod`: that is what `DriverLoop` proves of them. The environment
is free: WiFi comes and goes, the unit is powered off and on, understands 0x5B or not, and any
frame is lost.

The two modules share the code of `write_packet` and the reconnection and differ in what they
abstract: `DriverLoop` keeps the clock and the cycle and starts connected with a valid UART;
`Connection` keeps the timers and abstracts the cycle.

**Reconciliation** is `reconciliation_policy.h`, which is pure: `decide_reconciliation` and the
functions it calls are operators with the same names, on temperatures in tenths of a degree.

**SettingsSync** is who decides what the unit does. The driver's part of the state is one record,
`drv`, and each function (`evaluate_fan_stop_and_ltp`, `check_power_and_mode_settings`,
`publish_state_to_ha`, `send_wanted_settings_delegate`) is an operator from record to record, because
they call each other: what is being *sent* goes through the same function as what is *read*. Actions
are `Evaluate` (the 5 s check of `loop()`), `SendWantedSettings`, `DropEmptySettings`, the cycle
(`StartCycle`, `Readback`, `ReadRoom`, `EndCycle`; `LoseAnswer` and `CycleTimeout` where an answer is
lost), the calls of Home Assistant, both switches, the link and the IR remote. Fan, vanes and i-see are
reduced to what matters here, that a readback differs or a write has a payload. Within the lock-out the
unit may still report what it did before the last SET (`Reported`). `Circumstances` says what an
installation has and suffers: `DriverLoop` and `Connection` already treat loss and reconnection, and
each of them breaks a different promise here.

Four variables are histories that only properties read: `wish` (what may count as asked for),
`unseen` and `by_remote` (whether the remote changed the unit, and the driver has not noticed or
has not overwritten it), `heed` (a press that the next readback should adopt). `wish` is
deliberately tolerant in two points: when Home Assistant calls while a press of the remote is
still unread, either may win, because the code has no order between them; and until the first state
was received an earlier setpoint may come back (`NotSettledYet`), because the driver's own first write
passes for that state, so that the setpoint of a command taken back since becomes the desired one. It
is the root of `sync_first_state`, seen at the first connection.

**InstallerFunctions** is the request scheduler and what it is most needed for, the read, change
and write of the installer functions. A part of the functions is the set of its codes, and a
byte is the value of its code, or `NoByte`. `send_next_after`, `check_and_disable`, `on_response`
and `SendPart2` are operators used by the actions: `Answer` is the whole handler of an answer and
`Acknowledge` that of an acknowledgement; `SetFunctions`, `StartCycle` and `CycleTimeout` are
branches of `loop()`, `ControlSelect`, `PressGet` and `PressSet` what Home Assistant does,
`ChangeAtTheUnit` a wired remote in installer mode. The timestamps of the scheduler are reduced to
which requests are `due`; when the interval of one ends is open. When a cycle starts is open too:
`DriverLoop` decides that, and `Starvation` says whether it may start one while a write waits. The
link is up: `Connection` has the rest. A part 2 whose part 1 or acknowledgement was lost may here go
out later than its 500 ms.

`asked` (what the user asked for and no reading has contradicted), `unread` (the parts a read still
owes) and `lost` are histories.

**WireFormat** is what is on the wire as functions of bytes: the tables of the codes with
`wire_to_enum` and `enum_to_wire`, both temperature encodings, `create_packet`, the packet of the
run states, and the decoders of `decoder.h`. A payload is a function on `0 .. length - 1`, so that a
decoder that reads past the length is an error of TLC and not a value. It has no state.

**RemoteFeed** is abstract: what the driver promises of the remote temperature, in five actions. The
unit is told what is wanted at that moment, or falls back to its own sensor; what Home Assistant does
not renew is given up when its lease ends.

**RemoteTemperature** is how the driver does it: `set_remote_temperature` (equal byte, rate limit,
deferral), `clear_remote_temperature`, the deferred send, the keep-alive, the watchdog, and
`send_remote_temperature`, which the end of a cycle and the safety net of `loop()` share. The three
timers hold the time left, the timestamps are ages; a timer that is due fires before `Tick`. How
long a queued temperature waits on a link that stays up is `SendBound`, which `DriverLoop` shows
there to be. The unit is what it was told or its own sensor (`UnitFallsBack`), a send may be lost
(`SendLost`), and the driver never learns that. `sample_age` and `unfed_for` are histories. `Feed`
is the refinement mapping: `wanted` is the byte of the value held, `age` is `sample_age` and `lease`
the timeout of the watchdog.

**Airflow** is fan, vanes and airflow control: `control` for fan and swing modes, three selects,
`send_wanted_settings` and `send_wanted_run_states` as packets of `WireFormat`, the unit as the bytes
it reports, `get_settings_from_response_packet` as one action from the bytes to what is shown
(`Readback`), the IR remote and `Connect`. The swing mode that Home Assistant sees is no setting of
the unit: `control_swing` makes vanes of it and `SwingModeOf` makes it of two vanes again, looked at
one after the other. `Readback(others)` leaves open whether power, mode or setpoint differ, which is
what decides whether anything is published. An answer may be read after the cycle that asked for it
timed out. Histories: `asked`, the last call about each field that nothing overruled, and `crossed`,
the fields that were overruled before they were read back, or lost.

**FrameParser** is `frame_parser.h` and `process_input`, byte by byte: `feed`, the checksum, the resync
after 500 ms without a byte, the reset after each complete frame. The unit sends whole frames when it
is asked; the line truncates, loses, changes and adds bytes (`Faults`), and the loop may be held up
for longer than the gap (`Stall`), since the gap is measured when a byte is *read*. `in_step` and `due`
are histories: whether what is sent now has to be read, and what is still to be processed.

## Time

In `DriverLoop`, `Connection` and `RemoteTemperature` time is explicit and discrete, so "how late can
it get" is a safety question. In `DriverLoop`, `Tick` advances the clock only after `loop()` decided
something since the last tick: the loop runs many times per second on the device, and the grid point is
one second. `functions_part2` may not be older than its timer. In `Connection`, `Tick` waits for
`loop()` and for every due timer, since ESPHome runs both from the same main loop. In
`RemoteTemperature` it waits for due timers and for a send that has reached its bound. In
`SettingsSync` the ages of the windows are on a coarse grid: no time passes while a cycle is answered
or a write is pending between two cycles, since the debounce, the throttle and a few answers take less
than a grid point. It does pass while a cycle waits for an answer that was lost, until the timeout, and
the SET of a command given meanwhile is held back that long. In `FrameParser` a tick is what the gap is
made of, and a byte takes no time: 4.6 ms against 500 ms.

## Runs

| run | question | bounds |
| --- | --- | --- |
| `loop_remote` | does a queued remote temperature always reach the unit, and does the guard stay out of the way? | 18 s |
| `loop_writes` | while the link is active: do cycles starve the user's settings, is a cycle ever stuck, is the bus serialized? | 12 s |
| `loop_wrap` | do settings, run states and functions starve the cycles, is a request ever dropped, across the wrap, with late answers and a link that goes silent? | from 4 s before the wrap to 4 s after it |
| `settings_sync` | is the user's wish kept, is the remote heeded and nothing else taken for it, do driver and unit come to agree, and are they settled then? | 2 events in each of six installations |
| `functions` | does a write ever clear what the unit has, does every read end, does a cycle wait for nothing, do selects and unit agree in the end? | 2 calls, 1 lost frame, answers of any age, on four units with and without selects |
| `remote` | is the unit fed in time and told only what is held, does it follow, is it given back to its own sensor? | three samples, two timeouts; timers are bounded by their delays |
| `airflow` | is a call about fan and vanes ever forgotten, is it obeyed, does the driver learn what the unit does, is that shown? | 3 events in each of three installations |
| `parser` | are whole frames read and no others processed, is the buffer respected, does the driver recover? | two frames, three bytes of noise, 2 faults |
| `connection` | is each waiting state watched by its timer, are slot, handshake and uptime consistent, is a powered unit connected again and again, is a silent link left? | none but the data: timers are bounded by their delays |

Runs expected to fail, each one a disagreement between the code and what a comment or test of
the repository says (`findings` in `PROJECT.json`): `loop_wrap_wedge` (a cycle across the wrap
never times out), `sync_first_state` (a protection's command becomes the user's mode after a
reconnection), `functions_overwritten` (a select that is changed while the functions are being read
is overwritten before it is written).

Three flaws are in what passing runs say. `SlotLostOnlyToFunctionsPart2`: the retry slot does lose a
packet, but only to part 2 of the functions. `DesireIsKept` claims nothing where a SET may be lost:
`settings_sync.cfg` with `Conditions` of only `{"lost_set"}` and `DesireIsAWish` fails, because the
old mode that is read back is taken for an override with the remote; nothing sends a SET again. And with
`Conditions` of only `{"lost_answer"}` it fails as well: the lock-out counts from the command, a cycle
that waits for a lost answer holds the SET back until the lock-out has run out, and what the unit still
reports right after the SET is taken for an override (the lock-out is there because it may report so).
`DesireIsKept` and `FanStopIsKept` claim nothing there; the other properties of the run hold, and the
driver is settled in the end, with what it took for the user's wish.

Two more are found by the same modules with other constants. `loop_wrap_wedge.cfg` with
`GuardSilentWithoutWrites` fails: after the wrap `has_update_interval_passed` stays false, and only
the starvation guard starts cycles. `loop_remote.cfg` with `Horizon = 20` and
`OneRequestOutstanding` fails: after a reconnection the 4 s retry of `write_packet` sends its
request into a running cycle.

`Part1ComesFirst` holds until a frame is lost. After a lost answer to 0x20 the interval of the
selects (24 h by default) keeps 0x20 from being asked again while 0x22, still bypassed, is; its
answer then publishes selects from a half that was not read back.

*Bounds.* The grid point of the `loop_*` runs is one second and the poll interval one second, the
shortest the tests of the repository use: the windows are then 1 s (poll), 3 s (cycle timeout), 5 s
(starvation), 8 s (stall), 10 s (silence) and 2 s (deferral), so that each run's horizon exceeds the
longest window its properties speak of; 300 ms is less than a grid point, hence `WriteGap = 0` with a
strict comparison (the bounds count the throttles of other values, and are proved with them), and the
500 ms of part 2 is rounded up. Two requests are registered: one that every cycle sends and one that it
may skip, which is all the chain distinguishes. `MaxOwed = 2` lets a stale answer meet a current one.
`ClockMod` is 64 where the horizon ends before the wrap and 32 in the runs that cross it. In
`loop_writes` the silence window is ten times longer, which is how the run says "while the link is
active"; in `loop_wrap` it is halved and the two timers of the link are 2 s and 3 s, in the code's
order, so that a link goes silent and a reconnection fails once within the horizon. Of the `loop_*`
runs only `loop_wrap` has late answers: `OneRequestOutstanding` is claimed of a unit that answers in
time. `connection` uses a small delay per timer that keeps the code's order: acknowledgement < retry
and grace < checks < bootstrap and silence.

`settings_sync` and `sync_first_state` use a grid of 2.5 s: the lock-out and the evaluation period are
2, the settle window 3, the timeout of a cycle 3 (6 s), the grace window 2 and the poll interval 1.
What is bounded is the number of events (calls, presses, switches, room readings, lost frames and
links), not time: the clock of every window runs on for ever as an age, so liveness is over infinite
behaviours. In `settings_sync` Home Assistant asks for OFF and COOL at 20.3 degrees, which the unit
rounds; the remote for OFF and HEAT at 24, so that who asked can be told, and where the protection
already forced HEAT a press changes the setpoint alone. In `sync_first_state` the modes are exchanged:
the HEAT of the protection is then not the remote's. The three rooms are below the low temperature,
inside the deadband, and warm. Two events are enough for each mutant and each flaw in `PROJECT.json`,
since boot itself (a restored wish that meets a unit doing something else) is not counted as one.

Three assumptions are in the state predicates. `DesireIsKept` and `FanStopIsKept` are claimed of
`Undisturbed` installations: a lost SET, a SET held back by a lost answer, a reconnection and the fan
mode OFF each lead the code to adopt what nobody asked for. That the driver is `Settled` for good in
the end is claimed where `CommandsArrive`, late or not. `RemoteIsHeeded` is about a press on a unit at
rest and not crossed by a command, in two clauses: a unit that no longer does what was commanded is
adopted with mode and setpoint, and one that only runs with a new setpoint (`NewSetpoint`) with that,
since its mode may be the protection's. An OFF that meets a unit the driver already switched off cannot
be seen. And a call repeated within the settle window is suppressed while the lock-out ends sooner, so
that an older press may win; `wish` tolerates it.

In `airflow` the exceptions are in the histories. A swing mode counts as asked only when both vanes had
been read (`VanesAreRead`), because `control_swing` looks at `current_settings_` and not at what is
still wanted: "swing off" after "swing on" that was not written yet leaves the swing wanted.
`ShownIsReal` leaves out the fields in `crossed`: when a press undoes a call before it was read, the
unit is back where the driver believes it, `heatpump_update` sees no difference, and what the call
made Home Assistant show stays. And `ShowsTheUnit` leaves out the swing mode of an installation with a
select for the horizontal vane but no horizontal swing: there the remote makes both vanes swing and
Home Assistant shows it, but a call for OFF means the vertical vane alone, OFF is shown while the other
one still swings, and no answer differs any more.

In `parser`, `NothingInvented` is about one fault, since the checksum is a sum: two can make up for each
other.

`functions` has one code in each part and two values for a select. The four units are those the
code tells apart: one with both parts (one of them reporting the value 0), one with no code in
part 2, one that answers zeros, one whose data are short. Two calls let a change meet a read, a
second change, or a change at the unit; one loss hits each frame of each exchange. `MaxOwed`
keeps a cycle from starting when two frames are unanswered, which still lets the chain of a late
answer run beside that of the current cycle.

`remote` has a grid of 5 s: the rate limit of 10 s is 2, the keep-alive, configured as 15 s and raised
to 20 s, is 4, the watchdog 6 or never. Two of the samples share a byte, the third is clamped; with
three, a value can be queued, replaced and taken back. Nothing else is bounded.

`airflow` has one call, select option and press of each kind that the code tells apart, among them
bytes that it does not know. Its installations are a unit with everything, one that also loses SETs
and has no vertical select, and one without a horizontal vane. Three events let a second call be
merged with a first, a press cross it, and a reconnection forget what was read.

`parser` has an empty frame and one with a start byte in its payload; noise is a start byte, a
length that is short and one that does not fit. The buffer has room for one byte more than the longer
frame and the gap is one tick. Two faults truncate a frame and damage the next.

*Fairness*, `remote`: weak fairness of `Tick` and of each timer; strong fairness of `SendDelivered`: a
frame that is sent again and again gets through once; and a unit that is no longer fed falls back
some time. No fairness of samples or of the link: the two liveness properties are about a link that
stays up.

*Fairness*, `airflow`: weak fairness of writes, of the start and the timeout of cycles; strong fairness
of `Answer` and `Readback`: not every answer is lost. No fairness of any event, nor of which write
gets through.

*Fairness*, `parser`: weak fairness of `process_input`, of the unit's answers, of the line and of `Tick`;
none of a fault.

*Fairness*, `functions`: weak fairness of cycles, timers, intervals and answers; a frame is answered
unless it is lost. Strong fairness of `SetFunctions`: a write waits for a moment between two
cycles, and `decide_loop_action` prefers it to a cycle unless cycles are starved, which the next
one ends.

*Fairness*, `settings_sync`: weak fairness of the driver's actions, `Connect` and `Tick`: the main
loop runs again and again, a link that is down is retried (`connection` shows that it succeeds),
and time passes. No fairness of any event.

*Fairness*, `connection`: weak fairness of `Tick`, of each timer, of `loop()` and of `Poll`,
which ESPHome's main loop justifies, since it runs every due timer and every component again
and again; strong fairness of `Hello`: a powered unit that is sent a handshake it understands
again and again does not lose every one of them. No fairness is assumed of `Answer`, of WiFi or
of power. `CHECK_DEADLOCK FALSE` appears where a horizon stops the clock.

## Proofs

The proof modules hold for every value of the constants that the named
assumptions allow.

**DriverLoop**

- `TypeCorrect`: one step per action.
- `CyclesAreNotStarved`: `CyclesNotStarved` is not inductive. `StarvationInv` adds what the
  bound depends on: the loop has looked at the clock since the last tick or the gap is one
  smaller, and a remote temperature that used the loop's turn past the threshold cannot do so
  again, because its queue is empty or its stall clock restarted. `ClockIsWide` (each window fits
  the clock) is what makes the ages comparable; no assumption excludes the wrap.
- `CyclesTimeOut`: under `WithoutWrap` (the horizon is below the modulus, so the clock never
  wraps). `loop_wrap_wedge` shows that the assumption is needed.
- `GuardStaysSilent`, under `WithoutWrap`: `PaceInv` is the argument of `StarvationInv` at the poll
  interval, where it works because nothing defers a cycle and no comparison is blind. Across the wrap
  it is false (see Runs).
- `NothingIsForgotten`: an action property, from the guards of the actions that clear a request.
- `RequestsAreSerialized`: `RequestInv` says that a request is only owed by a running cycle, that there
  is one of them, and that no handshake is on the way whose answer would start another. Two
  hypotheses: `~LateAnswers`, and a link that stays connected (`Spec /\ []connected`), since the
  retry after a reconnection does send a request into a running cycle (see Runs).
- `SetsWaitForRequests`: the same, and no client that writes functions, whose part 2 waits only for its
  acknowledgement and 500 ms.
- `RemoteTemperatureIsSent`, `SettingsAreSent`: the two bounds on how late a write can be. Both
  assume `Calm` (no wrap, a unit that answers in time, no functions writes) and are about a link that
  stays active. `CalmInv` reduces everything that can happen to nine kinds of steps (`Ages`, `Asks`,
  `GoesOn`, `Ends`, `Forces`, `Writes`, `Holds`, `Rests`, `Starts`); `RemoteDebt` and
  `SettingsDebt` then say, for each place in a cycle or between two, how much of the bound is used
  up. `ThrottleIsShort` (the throttle of the writes is not longer than the poll interval) and
  `ThrottleFitsGuards` (two throttles fit the starvation threshold, three and a cycle the stall
  threshold) are needed, or reads and the remote temperature overtake once more; on the device they
  compare 300 ms with seconds.

`LateAnswers` and functions writes are in `loop_wrap`, for which no such bound is claimed.

**Connection**

- `ConnectionTypeCorrect`, `HandshakeIsWatched`, `QueuedPacketIsRetried`, `BootHasAFallback`,
  `BackOffEnds`, their conjunction `WaitsAreTimed` (the `EveryWaitHasItsTimer` of the run),
  `UptimeIsTheConnection`, `FallbackHappensOnce`: from one inductive invariant, `ConnInv`, which
  adds to the checked conjuncts that a ready UART is a valid one, that the timers of a started
  connection are armed only after the start, and that a CONNECT is awaited only after it.
- `SlotIsKept`, under `RetryBeforeSilence` (4 s against ten update intervals): a connected driver whose
  slot is taken has been silent for no longer than the retry timer has run (`SlotInv`), so the
  link is not found dead, and nothing else fails to be written, before the slot is emptied. Only
  part 2 of the functions is written without asking for the link.

**Reconciliation** and **SettingsSync**

- `CommandSettles`: of every input of the policy. Three lemmas carry it: the latch is stable in
  an unchanged room (`LatchIsStable`, which needs a release threshold not below the engaging
  one), the deadband is stable once the unit obeyed (`TargetIsStable`), and an obeyed target is a
  match although the setpoint is rounded and clamped (`ObeyedIsAMatch`).
- `SyncTypeCorrect`: one lemma per function of the driver, one step per action.
- `CommandsSettle`: `EvaluationSettles` in every reachable state, from `CommandSettles` and
  `SyncTypeCorrect`.
- `RemoteChangesAreAdopted`: with no assumption but the configuration's. `HeedInv` says that until the
  readback that should notice a press at rest, the driver has no command waiting, none so recent
  that the readback is ignored or may be old, and what it read last agrees with what it commanded.
  `DriverInv` (what a write, a command and a desire can be together) is inductive by itself and
  established function by function.
- `DesireIsWhatWasAsked`, `FanStopIsGivenUpForRemote`: from `SyncSafe`, that is, `SyncInv` in
  `Undisturbed` installations. `KnownInv`: with nothing to write, and but for a press not seen yet,
  the driver has commanded what the unit does, so a readback that differs from its command is a
  press. `RemoteInv`: a report can be older than the last command only in its lock-out.
  `UnknownInv`: before the first state the driver evaluates and writes before it reads. Two
  assumptions: `SetpointsAreOffered`, Home Assistant offers what the unit accepts (the visual range of
  the climate traits, `cn105.cpp:45`), and `FloorIsSettable`, the floor of low temperature
  protection is at most the highest setpoint. The default floor is 12 degrees; `climate.py` checks
  only that it is positive, and with a floor above 31 degrees the unit's clamped setpoint would pass
  for a change made with the remote.
  Where no answer is lost no cycle waits for one (`NothingLost`), which is all these two proofs need of
  `LoseAnswer` and `CycleTimeout`.
- `SettledStaysSettled`: the part of `EventuallySettled` that is about staying, as an action property.
  An evaluation of a state that is obeyed returns it (`EvaluationIsSilent`), so does an answer that
  reports what is known and commanded (`AnswerIsSilent`), and passing time, in a cycle that waits as
  well, only ages windows that are over (`SettledKept`). Nothing is assumed of the configuration;
  `Settled` includes what the argument needs, the latch where the room has it and no report of an older
  state.

**InstallerFunctions**

- `FunctionsTypeCorrect`, `WritesStayComplete`: from `FunctionsInv`, in which the frames on the wire
  and the part 2 that waits are complete because the copy is, in each part that was read
  (`CopyIsComplete`), and because the codes that a unit has never change, only their values.
- `CyclesWaitForAnswers`: as long as no frame was lost, the answers that a cycle needs are in the queue
  of the unit; each handler of an answer that does not end the cycle sends the next request.
- `Part1IsReadFirst`: `Part1Inv` adds that a part 1 still owed to a read is enabled and due, or on the
  wire. `ReadsAreOnDemand`: `DemandInv` adds that what nobody wants read is disabled, and what an answer
  of zeros does to that.
- `ChangesStayPursued`: the part of `ChangesSettle` that is about never dropping a change
  (`ChangesArePursued`, which TLC checked with two and three calls before it was proved, and which no
  run repeats). `PursuitInv`: a change that no reading contradicted is in the local copy, both parts
  of which were read, so that whatever write comes carries it; and until a frame is lost it is still to
  be written, waits as part 2, is in the last write of its code on the wire, or is at the unit. The
  last write counts, since an earlier one may carry an older value (`AppendLeaves`, `TailLeaves`).

**RemoteTemperature**

- `RemoteTypeCorrect`, one step per action; `ChangesAreNotForgotten`, under `SamplesFitTheByte`: what
  was sent last differs from what is held only if a byte differs, or the send is under way.
- `UnitIsFedInTime`: `FedInTime` is not inductive; `FeedingInv` splits the bound into what the keep-alive
  has left, while nothing is queued, and how long it has been queued. It rests on `LinkDown` and
  `clear_remote_temperature` starting the count anew, and on `SendBound`, the bound of the queue, whose
  proof is `RemoteTemperatureIsSent`.
- `AdoptionIsRecognized`: of the arithmetic of half degrees and the margin.
- `DriverImplementsFeed`: the refinement. The lease is the watchdog's time left plus the age of the
  sample (`LeaseInv`), which no keep-alive and no send changes; each action maps to one of
  `RemoteFeed` or to a stutter. It proves the safety of the feed, for every interval and timeout.

**Airflow** and **WireFormat**

- `CodesReadBack`, `TemperaturesReadBack`, `DecodersStayInFrame`: of `WireFormat`, for every code, every
  setpoint the unit takes, and every payload of every length.
- `WrittenIsRead`: a SET, obeyed by the unit and read back, gives each field that was wanted and leaves
  the others; from the tables being injective and the flags of the packet being told apart.
- `AirflowTypeCorrect`: one lemma per function, one step per action. That a select is never told an
  option it does not offer is in it.
- `SwingModeIsTrue`: from `AirflowTypeCorrect` and the order in which the vanes are looked at.
- `CallsStayKept`: the invariant behind `CallsAreObeyed`. What the unit will do once everything wanted is
  written (`WillDo`) is what the calls asked, field by field (`WillDoFields`), and what a SET makes of the
  unit is just that (`SetObeyed`); a select, a call and a press change both sides alike. It is
  inductive with `TypeOK`.
- `KnownIsShown`: the invariant behind `ShownIsReal`. `ShownIsKnown` is not inductive, since what is shown
  runs ahead of the unit after a call and behind it after a press. `ShownInv` speaks of what is
  `Coming`, the wanted value or else the unit's: where the driver knows just that and nothing
  overruled it (`Agreed`), it is what is shown, whichever of call, write and answer comes next.

**FrameParser**

- `BufferIsNeverOverrun`, `ParserTypeCorrect`: from `ParserInv`. Between two bytes the parser is never
  left with a complete frame, and once the fifth byte is read it knows a length that fits.
- `WholeFramesAreRead`: in `StreamInv` the parser's buffer after the resync, the UART and the line are
  one stream of bytes, and while the line is in step it is the end of one frame followed by whole
  frames, which contain those that are due, in order. Reading a byte moves it from one part of the
  stream to another. The checksum is used only as a function of the bytes before it.

The type invariant of each module is a theorem, and in no run.

Only model-checked: `NothingInvented`, because whether a frame with one changed byte, or one made of
two, adds up depends on the frames that are chosen, and is a sum over a sequence, induction over data;
and everything about what happens in the end (`EventuallySettled`, `PoweredUnitIsConnected`,
`SilentLinkIsLeft`, `ChangesSettle`, `ReadsAreServed`, `UnitFollows`, `WatchdogReverts`,
`DriverLearns`, `CallsAreObeyed`, `ShownIsReal`, `FramesGetThrough`), which like ENABLED is out of the
prover's reach. No module has a recursive operator.

## Not modelled, and why

- *Sensors and logging*: nothing reads them back. The conversions of power and energy units are
  stateless arithmetic of floating point.
- *The current action* (`update_action`): a function of the mode and of one status bit, shown and never
  read. It is evaluated when an answer differs, so it follows a change of mode with that delay.
- *A late answer to the settings request*: in `SettingsSync` an answer arrives at once or not at all, so
  that what it reports is what the unit does then, or did before the last SET. Late answers are in
  `DriverLoop`, `InstallerFunctions` and `Airflow`.
- *A call with fields of two kinds*: `control` may set mode or setpoint and fan or swing in one call.
  `SettingsSync` and `Airflow` each have their part of it; in `Airflow` the other part is `others`.
- *The uptime rollover*: polled thousands of times between two rollovers.
- *The left vane of a split unit* (byte 16), and two samples 128 degrees apart, which share a byte.
- *`climate.py`*: runs at build time.
- The data race of the driver with itself does not exist: there is one thread.

## Plan

Done: the loop, the connection, the reconciliation, the functions, the remote temperature with its
abstract feed, the wire format with fan and vanes, and the parser, each with its proofs. Left:

1. *Abstract specifications*: a serialized bus and a reliable slot, implemented under the conditions of
   `RequestsAreSerialized` and `SlotIsKept`.
2. *Proofs*: `WrittenIsRead` for calls of all fields; that a settled state is reached from `Undisturbed`
   ones within a bound, which would need a clock in `SettingsSync`.
3. *Composition*: one call that sets fields of `SettingsSync` and of `Airflow`.
