# Verification of the soapbox-car firmware

TLA+ models of the firmware under `src/firmware/main/`, the TLC runs that check
them on small instances, and theorems about them that TLAPS proves for every
value of their constants. File names without a directory are under
`src/firmware/main/`.

```
cd tla
tlc -workers 2 -config MCKartController_safety.cfg MCKartTimed
tlapm KartControllerProofs.tla
```

## 1. The system

A child's electric car with two driven wheels on an ESP32. A Bluetooth gamepad
drives it; a web page over Wi-Fi configures and watches it. Nothing measures the
wheels or the battery: the firmware is open loop, and its safety rests on one
idea. *Two windings that are short-circuited brake*, so everything that is not
"armed, A held, gamepad talking" grounds the motors.

| part | task (core) | state | operations | talks to |
|---|---|---|---|---|
| control core, `controller_core.cpp` | control task, 500 Hz | `m_pad`, `m_cfg`, `m_armed`, hold and activity stamps, latch, ramp memory, telemetry | `setPad`, `setConfig`, `tick` | pure; called by the host |
| control maths, `control_math.hpp`, `mixer.hpp` | same | none | `deadzone`, `ramp`, mixers, `squareMap` | control core, gamepad |
| host, `controller.cpp` | same | last pad, previous armed, loop peaks | `tickOnce` | all the parts below |
| rumble advisor, `advisors.hpp` | same | previous edges, last buzz | `update` | gamepad mailbox |
| gamepad, `input.cpp`, `input_bp32.c` | BTstack (core 0), control, web | about 30 atomics, calibration, name | `on_data`, `on_conn`, `get`, calibration and pairing verbs, rumble mailbox | host, web, NVS |
| configuration, `config.cpp` | web writes, all read | `g_cfg` and its mutex, NVS keys | `configUpdate`, `configSave`, `configLoad` | web, control |
| status, `config.cpp` | control writes, all read | `g_status` and its mutex | `statusPublish`, `statusSnapshot`, `statusTrySnapshot` | everyone |
| event log, `evlog.cpp` | control pushes, LED task drains, web erases | 32-slot ring, 64 kB flash journal, cursor, boot number | `init`, `push`, `maintain`, `readAt`, `clear` | host, LEDs, web |
| web server, `webserver.cpp` | httpd, Wi-Fi events, timers | reply arena, history ring, station backoff, OTA handle | WebSocket verbs, `/ota`, station retry | config, status, gamepad, log |
| motor outputs, `hardware.cpp` | control task | LEDC duties, DIR pins | `motorsSet`, `motorsBrake` | host |
| LEDs, `leds.cpp`, `ws2812.cpp` | LED task, 20 Hz | strip buffer | `render`, and it hosts `evlog::maintain` | status, log |
| boot, `main.cpp`; mDNS | once | none | initialisation order | all |

What is hard, and what makes each part correct:

* **Control core.** Sequences. A press of START is held over hundreds of ticks
  during which the pad may fall silent, be disconnected, or the configuration
  may change. Correct: power needs consent on that very tick; arming needs one
  whole press with nothing in the way; a press is answered once; no jump of
  the duty; silence, neglect and a centred stick end with grounded motors.
* **Event log.** A lock-free ring between two tasks, an append-only journal
  that must be resumed after any power cut, an erase from a third task.
  Correct: nothing accepted is lost while flash works, the journal is in order, flash is only
  programmed where it is erased, the drain happens and only while disarmed.
* **Gamepad.** Three tasks share unlocked atomics; calibration is a dialogue
  that a disconnection, an unpairing or a cancel may interrupt.
* **Configuration and web.** "Refused while armed" is a check followed by an
  act; the flash write it guards stalls the control loop. Saves are key by key.
* **Station retry.** A one-shot timer must neither be lost nor fire while armed.
* **Motor outputs.** Four registers are written one after the other.

`PROJECT.json` lists all of them, with every hazard at its source line and the
property that covers it, or the reason why none does.

## 2. The modules

| module | models | kind |
|---|---|---|
| `ControlMath` | `clampf`, `deadzone`, `slew`, `ramp`, `mixArcade`, the expo and the two mixers | operators |
| `KartController` | the class of that name, whole | state machine |
| `DeadMan` | what the control core promises about power and arming | abstract specification |
| `KartTimed` | `KartController` with history variables that measure durations | properties over time |
| `Motors` | the registers of the two motor channels, written one after the other | part of `KartHost` |
| `Settings` | `g_cfg`, its mutex, its keys in flash | part of `KartHost` |
| `KartHost` | `tickOnce`, the requests that write flash, resets and boots, over `Motors` and `Settings` | composition, two tasks |
| `GamepadInput` | the gamepad's atomics between the Bluetooth, control and web tasks; calibration and pairing | state machine, three tasks |
| `Rumble` | the rumble advisor and the mailbox it posts to | state machine, two tasks |
| `EventLog` | ring, drain, journal, erase, power cuts, boot | state machine, three tasks |
| `EventLogReader` | the reply of the web page that reads the journal, over `EventLog` | composition |
| `StationRetry` | the Wi-Fi station: drops, the one-shot timer, the backoff | state machine, driver and two tasks |
| `ControlMathLemmas`, `ControlMathProofs`, `KartControllerProofs`, `KartHostProofs`, `GamepadInputProofs`, `RumbleProofs`, `EventLogProofs`, `StationRetryProofs` | | proofs |
| `MC…` | instances for TLC | |

The control core is joined to the rest at two abstractions. `DeadMan` says of it
what its host may rely on, and TLAPS proves that `KartController` implements it;
`KartHost` keeps of the core that promise alone, so what it shows holds for any
core that keeps it. And the status other tasks read is one bit, `arming`, in
every module: the control task publishes it after its tick, and in between the
others read the old one.

### ControlMath

Floats become integers in units of `1/Unit`. Products are divided by `Unit` and
truncated toward zero, so a term never grows by being scaled. `ramp` keeps the
code's two legs: down to zero at one rate and, once zero is reached within the
tick, a full step up at the other; nothing is left over from one leg to the other.
`squareMap` is not here: it belongs to the gamepad.

### KartController

The variables are the members of the class, under shorter names: `pad` and
`silence` (`m_pad` and the age of its stamp), `cfg`, `armed`, `hold`
(`m_hold_start_us`, with 0 as `NotHeld`), `latch`, `idle` (`m_last_act_us`),
`last` (`m_last_l/r`), `out` (the returned `CtrlOutputs`), `tel`.

* `SetPad`, `SetConfig`: the two calls of that name.
* `Tick(d)`: all of `step()`, `d` time units after the previous tick. Its parts
  are operators in the order of the code: `StopCause`, `PressAnswered`,
  `ArmedNow`, `HoldNow`, `LatchNow`, `Target`, `RateStep`, `Command`,
  `BrakeMode`, `LastNow`, `Routed`, `IdleNow`, and last `ArmedAtEnd`, the
  inactivity timeout the code also tests last.

*Stamps are ages.* The code only ever subtracts stamps, so each is kept as the
time since it was taken. An age stops at `AgeCap`, above every threshold it is
compared with (an assumption of the module), so the cap changes no comparison.

*Rates.* `accel_pct_s` per tick over the cap is a real number of the order of
0.4 %; `RateStep` rounds up, so that a positive rate is a positive step and 0
alone means "off", as in the code.

*The host is free.* Any snapshot, any configuration, any tick length may come at
any time. This covers more than `EspController`, which pushes both before each
tick, so the safety results hold for the real order too.

### DeadMan

Press `up`, `down`, `spent`; `armed`; `powered`; `stopped`. A press is answered
at most once, only an answer arms, only armed steps power, anything in the way
disarms and grounds. `KartController` implements it with `press` computed from
`hold` and `latch`, `powered` from `out.dyn_brake`, `stopped` from `tel.stop`.

### EventLog

An event is the number of its raising; the Boot record is 0. Tasks and steps:

* control task: `RaiseEdge` (the test for a full ring and the slot), `CommitHead`
  (the release store), `PublishStatus` (after it: in between, the other tasks
  still read the old armed state);
* LED task: `MaintainCheck`, `DrainCopy`, `DrainAppend`, `DrainStore`, with
  `m_mtx` held from the copy to the store;
* web task: `ClearCheck`, then `Clear` when the mutex is free;
* `PowerCut` at any moment, also inside the flash operation under way, `Boot`
  and `BootCut`.

A status whose mutex is taken at that instant is the parameter `busy`.
`esp_partition_write` and `esp_partition_erase_range` are external. A write that
stops half way, by an error or a power cut, leaves whole records and perhaps a
torn one. An erase that stops half way leaves any slot erased, untouched or
unreadable. Programming over a slot that is not erased gives a record whose
checksum fails: NOR flash only clears bits.

### GamepadInput

One step per store or load, but for four groups whose parts are atomics of their own:
`StoreButtons` and `GetButtons` (the three buttons), `GetAxis` (the stick, its centre and
its half-amplitude) and `StoreCentre` (the centre and the four extremes). Within a group
no other task takes a turn, so a torn triple of buttons is not seen.

* Bluetooth task: `Stamp` (the report time, stored first), `StoreAxes`,
  `StoreButtons`, `StoreExtremes`, `Connect` for a report; `PadLost` and then
  `CancelCollection`, `MarkGone`, `Purge` (`inputbp_on_conn(0)`) for a loss;
* web task, one verb at a time (`httpd` is sequential): `Begin` is the refusal
  while armed, then the steps of pairing, unpairing (which runs
  `inputbp_on_conn(0)` itself, beside the Bluetooth task), `calStart`,
  `calFinish`, `calCancel`;
* control task: `get()` load by load, then the two loads of `calibrated()`, then
  the tick, of which only the arming is kept: anything in the way disarms, START
  on a centred stick may arm, the kart may disarm by itself.

The two axes are treated alike, so one is kept. Time is the one bit the code asks:
is the last report within the heartbeat. `whole` is a history variable: the
present tick has seen nothing but a collection in progress; `told` is another: the
last verdict, a scale or `Erased`, or `Unsure` from the moment a key of it was not written
or not read back. The link itself belongs to Bluepad32 and is external: it may be lost at
any time, asked for (`DropDevice`) or not.

Flash may fail as the code lets it: `NoNvs` is the early return of `calSave`, `SaveBlob` and
`SaveFlag` may write nothing, and nobody looks. `PowerCut` restarts everything but the
keys in flash, also between the two keys of a save; the power may go at any step of any
task. `Boot` is `input::init()`; in `CalLoad` either key may be unreadable, and then keeps
its initial value.

### Motors, Settings and KartHost

*Motors.* `pins` are the four registers, `cache` the statics of `dirPin` and
`setDuty` (`m_dir_last`, `m_duty_last`), which skip a write of the value they
hold. `motorsSet`, `motorsBrake` and `initMotors` are lists of register writes
(`SetWrites`, `BrakeWrites`, `InitWrites`); `WriteRegister` makes one of them.

*Settings.* `configUpdate` is `TakeAndStore`, `ClampAll`, then `configSave`:
`OpenNvs`, and for each key `SkipKey` or `WriteKey` and `KeyWritten`, then
`EndSave`, which gives the mutex back. Opening and writing may fail, and so may, at boot
(`ConfigInit`), opening and reading each key. Two settings with a common range stand for
the table of parameters. One is a float (`Floats`): `cfgSet` takes a NaN of the page as it
is, and so does `clampAll`, since no comparison with it is true. Flash begins with anything
in `Found` or nothing under each key, as an older firmware may have left it. `lost` is a
history variable: a read of this boot or a write of the last save failed.

*KartHost.* One action per step another task can see:

* control task: `ConfigSnapshot` (waits for the mutex, without a timeout), `Tick`
  (what `DeadMan` lets the core do, and the writes `applyOutputs` asks for),
  `Output` (one register), `Publish`; the local copies `used` and `out` are forgotten
  after their last use;
* web task: a request is received, decoded, checked against the status (`Check`)
  and carried out: `set`, `wifiset`, or an upload (`Recv`, a check for each chunk,
  the writes, the restart). `busy` is a flash write under way: the cache is
  suspended and the control task does not move;
* `Reset` at any moment, which leaves a write under way done or undone, then
  `BootConfig` and `StartControl` in the order of `app_main`.

### Rumble

`Tick` is `RumbleAdvisor::update()`: what it is told is only constrained by what
`KartController` makes true (`Said`: armed only in Run, Run only with no e-stop). `Post` is
`input::rumble()`, store by store; `TakeFlag` and `Plays` are
`inputbp_take_rumble()`, the exchange and three loads, with the order to the
gamepad behind them. A field holds the number of the post that wrote it, so a
rumble in pieces can be told.

### EventLogReader

`TakeWindow` is `stats()` and the window of `buildEvlogPb`, `ReadBite` one `readAt`
of `encEvlog`, and there are two passes, because nanopb encodes a submessage
once for its size (`EndSizing`) and once for good (`EndEncoding`, which drops the
reply if the sizes differ). `EventLog` goes on in between. `snap` and `wiped` remember
what the window was and what has happened to it. A reply keeps its records by their
places in the journal, which the message drops: the places keep their order, and two
replies with the same places and records are the same message.

### StationRetry

`WifiEvent` is `wifiEvent`, by the head of the queue the driver fills; `Fire`,
`ReadStatus` and `Retry` are `staRetryCb`, its read of the status apart from its
attempt. The driver (`Driver`, `Connect`) is external: it may drop the link, repeat a
disconnection, and posts its events in order. `tries` and `hurried` are history.

## 3. The runs

| run | question | properties |
|---|---|---|
| `control_math` | are the formulas right on every input of the scale? | `RampIsGreedyPath`, `MixSteersToStick`, `ShapingKeepsRange` |
| `controller_safety` | can any sequence power the motors without consent, arm wrongly, jump, or outlast a timeout? | `TypeOK`, `ConsentEachTick`, `NoDutyJump`, `ArmingHandshake`, `PoweredWhileDisarmedOnlyCoasting`, `ImplementsDeadMan`, `FreewheelWithinDecel`, `ArmedMeansDriven`, `ArmedAfterOneLongPress` |
| `controller_liveness` | does a lost or centred kart come to rest? | `SilenceBrakes`, `CentredStickBrakes` |
| `kart_host` | do the motors obey the tick, does the core get whole and bounded settings, do settings survive, when may flash be written? | `TypeOK`, `PinsObeyTick`, `BrakeNeverDrives`, `CoreSeesBounded`, `AtRestDurable`, `LateWriteIsOld`, `ControlKeepsTicking` |
| `gamepad_safety` | can a calibration drive the kart, a lost pad leave a button behind, a verdict change over boots? | `TypeOK`, `CollectionParks`, `GoneIsForgotten`, `VerdictOutlivesBoots` |
| `gamepad_abort_claim` | is an aborted calibration ignored? (violated) | `AbortedCalibrationIsIgnored` |
| `rumble` | is the last rumble felt, whole? | `PiecesNeverOlder`, `LastIsPlayedWhole`, `EdgesAreFelt` |
| `event_log_safety` | does the journal stay whole, over failures and power cuts? | `TypeOK`, `JournalInOrder`, `AppendPointBlank`, `NoSlotRace`, `AcceptedEventsKept` |
| `event_log_reader` | is a reply what the journal held? does a kart at rest empty its ring, into the journal if flash works? | `SentIsWindow`, `SentInOrder`, `DisarmedDrains` |
| `event_log_busy_claim` | is the drain kept to a disarmed kart? (violated) | `DrainStartsDisarmed` |
| `event_log_power_claim` | can what was drained after a power cut be read? (violated) | `DrainedIsReadable` |
| `station_retry` | does a station that is down always try again, at the advertised delays, and come back? | `RetryNeverLost`, `BackoffLaw`, `OneHurriedRetry`, `Reconnects` |

### Bounds

* *Maths*: every command of the scale, every pair of rates and of deadzones; the
  reference definitions (the unique greedy path to the target, the direction
  of the stick) know nothing of the formulas.
* *Controller*: `Unit = 4` gives nine commands, enough for a ramp of several
  ticks, a reversal inside a tick and a saturated mix. A snapshot for each stop
  cause and each kind of stick position (centred, inside `ARM_CENTER_MAX`,
  inside the deadzone, full each way); configurations that turn ramps off, halve
  the cap, cross the wires, and whose freewheel outlasts `disarm_s`. Times are
  3 to 5 units: each timeout is crossed early, exactly and late by ticks of
  different lengths.
* *Host*: two settings, one of them a float, so that a save has a middle; the page asks
  for a value in bounds, one above or a NaN, flash begins with any mix of a value in
  bounds, one below, a NaN and nothing; a drive that turns on the spot and one that
  reverses a single wheel and stops the other, so that caches and registers differ in
  every way. Nothing else is bounded: requests, chunks, resets and ticks come for ever.
* *Gamepad*: two reports, START on a resting stick and a full stick without it: enough
  for a centre captured aside, an amplitude that passes and one that does not, and a
  kart that arms. Nothing else is bounded: the state is finite as it is, any number of
  saves and boots may fail. `gamepad_safety` has one scale, that of an accepted
  calibration (`Unit = 2`); that the right one survives is proved. `gamepad_abort_claim`
  has two (`Unit = 3`).
* *Rumble*: four posts: one is overtaken by the next while it is taken, twice.
* *Event log*: a ring of 2, batches of 2, four flash slots, four events, two
  power cuts, one failing operation: the ring fills and wraps, the partition
  fills and is erased, a cut falls into every step and a second one into the
  boot that follows. Boot numbers do not wrap within these bounds.
* *Reader*: three slots and a window of two bites, batches of 1, three events: an erase
  falls before, between and after the bites of both passes, and after the one cut the
  journal grows back past the window; one failure.
* *Station*: the delays of the code in units of 5 s (1, 2, 4, … 32, 60), three events
  queued; `tries` stops at 9, two past the ceiling.
* Deadlock is not checked in the runs that bound events, posts and power cuts: a
  board that is off and may not fail again has nothing left to do.

### Fairness

* Controller: ticks keep happening (`WF` of `Tick`): the control task is a
  periodic loop under a watchdog that resets the board otherwise. Nothing is
  assumed of the gamepad or the web page; the premises ("the pad falls silent
  for good") are in the properties.
* Host: the control task ends what it began; it gets the mutex of the settings
  if that is free again and again (`SF` of `ConfigSnapshot`), because FreeRTOS gives a
  mutex to the highest priority that waits and the control task has it; a web
  request that has begun to write goes on (`WF` of `WebWrites`). Nothing else is asked
  for: nobody has to send a request, an upload may stall, the power may go.
* Event log: the control task ends the tick it began, the LED task comes round
  again. Nothing is assumed of the web page, of flash or of power.
* Station: the driver ends what it began, the event and timer tasks run (`WF`); a
  callback that comes back often enough finds the status free (`SF` of
  `ReadStatus(FALSE)`), for it is held during a copy only. The network coming back
  and the kart staying disarmed are premises of `Reconnects`.

### What the violated runs show

* `AbortedCalibrationIsIgnored`: `calStart` writes the captured centre into the live
  calibration; cancel, rejection and disconnection leave it there with the old
  scale. A stick held aside at that moment is read as centred there afterwards.
* `DrainStartsDisarmed`: `statusTrySnapshot() && armed` lets a busy status through.
* `DrainedIsReadable`: an erase that was cut can leave blank slots in front of
  used ones; the next boots append over them and those events are lost until
  the partition is erased again.

### Seen in the models, with no run of their own

* "Any stop cause disarms" and grounds (controller_core.cpp:17-18) but for one: the
  inactivity timeout is tested after the command was computed (:151), so one tick
  reports a disarmed kart and still coasts. It takes a freewheel longer than
  `disarm_s`: legal settings, `decel_pct_s` below 20 with `disarm_s` at 5.
  `PoweredWhileDisarmedOnlyCoasting` shows, and TLAPS proves, that this is the only way.
* "Nothing writes NVS while driving anymore, full stop" (webserver.cpp:837): the
  armed check and the write are two steps, and the kart may be armed in between.
  `LateWriteIsOld` bounds it to the one request that was past its check. The end of an
  upload restarts the board, and the `reboot` verb has no check at all.
* "The window … stays valid" (webserver.cpp:525-527): not over the erase of a full
  partition. The reply is then empty or not sent; only if the journal grows back
  past the window between two bites does it mix old records and new ones, still in
  the order they happened.
* A rumble posted while another is taken is played in pieces, then once more whole
  (input.cpp:216). One still pending when the gamepad goes is played on its return.
* `calStart` tests for fresh data first and starts collecting last, and the
  refusal while armed is a test followed by an act: a collection may begin with
  a pad just lost, or with a kart just armed. `CollectionParks` bounds the harm:
  the first whole tick of the collection disarms.
* A boot takes the highest number in the journal plus one, in 16 bits: once
  65535 is there, every later boot is 0 until that record is erased.
* `stats()` loads the head before the tail (evlog.cpp:168): with a push and a whole
  drain in between, the pending count it shows wraps below zero.
* `clampAll` (config_params.cpp:105) lets a NaN through: a float setting that the page
  sends as a NaN, or that flash holds as one, reaches the core. `CoreSeesBounded` says of
  every other value that it is in bounds.
* A boot that cannot open or read the keys of the settings (config.cpp:53, 87-91) drives
  with defaults; if it found no key at all, it saves them over the ones that are there.
* A pairing cut before its flag is written, or one whose save fails (input.cpp:78-82), is
  undone by the next boot: the erased calibration is back, against "a new gamepad =
  calibration to redo" (input.cpp, `startPairing`). A boot that reads the flag and not the
  scale is calibrated with the initial one. `VerdictOutlivesBoots` excuses these and no other.
* A batch whose flash write fails is thrown away (evlog.cpp:89), and so is an event that
  finds the ring full. `AcceptedEventsKept` and `DisarmedDrains` excuse the one, and the
  other was never accepted.
* The result of `esp_wifi_connect` is not looked at (webserver.cpp:95): a refusal on
  the spot would leave the station without a timer. `Connect` assumes ESP-IDF accepts
  an attempt whenever the station has started and the link is down.

## 4. What is proved

`ControlMathProofs`, for every scale, every deadzone below it, all rates and gains that
are not negative and any strength (`GridAssumption`):

| theorem | says |
|---|---|
| `RampGreedy` | `RampIsGreedyPath`: the ramp is its reference |
| `MixSteers` | `MixSteersToStick` |
| `ShapingHolds` | `ShapingKeepsRange` |

*Argument.* A call that has returned gave what its operator gives (`CallInv`), so each
theorem is one about operators on all integers, of which the run samples a grid. The
provers decide linear facts and know next to nothing of products: `DivLeast`,
`QuotientMono` and `QuotientOdd` say where a truncated quotient lies, when it grows and
that it is odd. `Within` and `Stepped` retell the reference and the ramp by the signs of
the commands, without a product (`ReachableFacts`, `RampStepped`); then the ramp is within
its rates (`SteppedWithin`) and no point within them is nearer (`SteppedNearest`) by cases
on linear arithmetic. Deadzone and expo are odd, so it is enough to reason on one side of
the stick (`DeadzoneSide`, `ExpoSide`) and, across zero, by sign (`ShapeMono`).

`KartControllerProofs`, on `ControlMathLemmas`, for every set of pads,
configurations and tick lengths, every scale and every timeout that satisfy
`UnitAssumption` and `ConstantsAssumption`:

| theorem | says |
|---|---|
| `TypeCorrect` | `Spec => []TypeOK` |
| `MemoryFaithful` | with it, `RampMemory`: what the ramps remember is what the motors last obeyed |
| `LatchDiesWithPress` | an answered press is still held |
| `Consent`, `Handshake`, `DisarmLag`, `Slope` | the four action properties of `controller_safety` |
| `DeadManRefined` | the core implements `DeadMan` |

*Argument.* `TypeOK` is inductive once the arithmetic is bounded: `RampRange`,
`MixArcadeRange` and `ClampRange` keep commands in the scale whatever the rates
and gains are. `Consent`, `Handshake` and `DisarmLag` follow from one tick out of a
well-typed state. `Slope` speaks of two consecutive outputs, and the code ramps
from `m_last`, not from the output: `RampMemory` is the strengthening that
equates the two (zero when the motors were grounded), and `RampStepBound` bounds
the two legs of one tick with non-linear integer facts. `DeadManRefined` needs
`LatchHeld` (`latch => hold # NotHeld`) or the mapped press would jump from `up` to
`spent`; then each action is a step or a stutter of the promise.

`RumbleProofs`, for every number of posts and every interval of the advisor:

| theorem | says |
|---|---|
| `TypeCorrect` | `Spec => []TypeOK` |
| `NeverOlder`, `LastWhole`, `EdgesFelt` | the three properties of the run `rumble` |

*Argument.* Nothing locks the mailbox, so the invariant says where each store is:
`StoresInOrder` (a field holds the present post or the one before, by the step the
control task is at), `TakenInOrder` (with the flag down nothing was posted since it
was taken, and what was loaded is no older) and `Settled` (with the flag down and no post
under way, what is loaded, or was played, is the last post). It rests on the flag being
stored last and exchanged first.

The last part of `KartControllerProofs`, about `KartTimed`, from the same assumptions:

| theorem | says |
|---|---|
| `FreewheelBounded`, `ArmedIsDriven`, `OneLongPress` | the three properties over durations of `controller_safety` |

*Argument.* A timed run is a run of the core (`TimedIsCore`), so its types hold.
`ArmedIsDriven` and `OneLongPress` rest on `MeasuresInv`: what the histories measure from
inputs and outputs is what the stamps of the code say, `neglect = idle` and
`down = hold`. `FreewheelWithinDecel` is inductive as it stands, but not wheel by wheel:
one that has arrived has shed less than its steps, and it is the other, still turning,
that bounds the count (`SlideStep`, `TickFreewheel`).

`KartHostProofs`, for every table of settings, every range and every drive:

| theorem | says |
|---|---|
| `TypeCorrect` | `Spec => []TypeOK` |
| `BoundedSettings`, `Durable`, `LateWrites`, `OutputsObey` | the other invariants of `kart_host` |
| `BrakesFirst` | its action property |
| `AnyCoreWillDo` | a step of `DeadMan` is a tick the host allows for |

*Argument.* Three parts. Settings (`LiveBounded`, `SavedSoFar`): a draft out of bounds is
live only between the store and its clamping, when the mutex is held; a save knows which
keys are still to be looked at, and the others are in flash as they are live. Outputs
(`CacheTrue`, `OutputsOnTheWay`): a register has what the tick wants or its write is
still in the list, and a cache knows its register or nothing, which is why a skipped
write is one not needed; in a brake the duties come before the directions. Writers
(`WriterChecked`): whoever writes flash is past its check, and under an armed status has
grace. `DeadManRefined` and `AnyCoreWillDo` together close the composition: the control
core implements the promise, and the host stands for any core that keeps it.

`GamepadInputProofs`, for every scale, every set of reports and every least amplitude:

| theorem | says |
|---|---|
| `TypeCorrect` | `Spec => []TypeOK` |
| `Forgotten`, `VerdictSurvives`, `CollectingParks` | the other properties of `gamepad_safety` |

*Argument.* Each strengthening follows one task through its steps. `LinkInv`: a report is
delivered over a link, a loss handled without one, and the gamepad is marked as gone
before its report is purged; the web task, which does the same beside it, only releases.
`SaveInv`: unless a key was not written or not read back, flash has the last verdict but
for the three steps at which a verb is saving it, the gamepad has it but for the step at
which another was just accepted, and a save that has only its flag to write has its scale
in flash. `ParkInv`: a tick that has seen nothing but a collection has loaded
neither an axis nor a calibrated gamepad.

`EventLogProofs`, for every ring, batch and partition, every window and bite of a reply,
any number of events, power cuts and failures:

| theorem | says | beyond `SizesAssumption` |
|---|---|---|
| `TypeCorrect`, `SlotsApart`, `AppendsBlank` | `TypeOK`, `NoSlotRace`, `AppendPointBlank` | |
| `AcceptedKept` | `AcceptedEventsKept` | `2 * BatchN <= Slots` |
| `JournalOrdered` | `JournalInOrder` | `MaxCrashes + 1 < BootMod` |
| `WindowSent`, `SentOrdered` | `SentIsWindow`, `SentInOrder` of a reply (`ReaderSpec`) | `MaxCrashes + 1 < BootMod` |

*Argument.* `RingInv` numbers the events of the ring without a gap up to the last one
raised, a slot filled but not yet committed included; `BatchInv` makes a batch under way
the oldest of them. On flash the statements are about every slot, not those below the
cursor: `Packed` (the slots in use come first), `OrderInv` (all records are in order, and
none is of an event past those told nor of a boot past this one), because a failed write
leaves records above the cursor and the scan of the next boot takes them into the
journal. `FlashSteps` and `OrderSteps` reduce every step that touches flash, completed,
failed or cut, to one write of a few records behind all the others; `GrownSorted` then
says that such a write keeps the order. The least and the greatest of a set, which the boot
scan chooses, exist by well-foundedness of strict inclusion (`HasLeast`).

The reply is proved over the same invariants, since a reader adds nothing to a run of the
log (`ReaderIsLog`). `GrowingInv`: while every record stays in its place, the window stands
below the cursor, and a pass has found its first `done` records. It is not inductive
without a curious exception: an erase that makes room and then fails after a torn record
leaves a first slot that was torn before as it was, with the cursor at 0; `CursorStays`
shows that this happens to a journal without a record, and an empty reply is right
about it. `ErasedInv`: once the journal is erased, and until it grows past the window
again, nothing more is found, and a reply cut short has fewer records than the first pass
counted, so it is dropped. `ReadInOrder`: what is read next happened after what was read so
far, because whatever a step puts on flash tells events not told before (`NewRecords`).

The two hypotheses are the code's sizes. The partition holds thousands of records and a
batch 16 (evlog.cpp): were it under two batches, the erase that makes room for one could
leave the cursor where it was, and the property could not tell it from an append. A boot
number has 16 bits: with more boots than that in the life of a journal the order of
boots wraps, as section 3 says. Of the bounds `MaxEvents`, `MaxCrashes` and `MaxFails`
the theorems ask only that they are numbers.

`StationRetryProofs`, for every length of the queue and every pair of delays:

| theorem | says | beyond `DelaysAssumption` |
|---|---|---|
| `TypeCorrect` | `Spec => []TypeOK` | |
| `NeverLost`, `OneHurried` | `RetryNeverLost`, `OneHurriedRetry` | |
| `Doubling` | `BackoffLaw` | `Max % 2 = 0`; `2 ^ (n + 1) = 2 * 2 ^ n` |

*Argument.* `RetryNeverLost` is kept because every disconnection posts an event, each event
of that kind ends with the timer armed, and the timer with an attempt or with itself armed
again. `Unstarted` and `StartFirst` say that the start of the station is the first event of
all, handled before any timer runs, so that an attempt under an armed status has one source
left, the callback that had read the status before; `Hurried` counts it. The ceiling must be
even because the code tests `backoff >= Max / 2` (300000 ms is); the law of powers is
arithmetic, which the provers are told because they know no exponent that varies.

*Only model-checked.* The liveness properties: fairness and ENABLED are out of the
prover's reach. Every invariant and every other action property of the passing runs is a
theorem.

## 5. What is left out

* Floating point rounding; the comparison of `StickIdle` and `rolling` with 1e-3
  and 1e-4 becomes a comparison with 0.
* In `KartController` a snapshot is whole; that it is read load by load is in
  `GamepadInput`. The stamp of a report is stored before its fields and read after
  them, so for one tick a fresh stamp may vouch for old buttons: a difference of
  one tick and one report, which neither module can tell.
* In `GamepadInput`: the display fields, the gap histogram, the three buttons and the
  loads of a scaled axis one by one, and the
  torn read of two loads that the code makes back to back inside one comparison
  (`inputbp_on_conn`, `calFinish`). `squareMap` divides real numbers on the circle of
  the stick: its scale does not survive small integers.
* At boot: the web server is up a few milliseconds before `input::init()` (main.cpp:29-31),
  and a verb served in between is not modelled; nor is the erase of a worn-out or outdated
  NVS partition (main.cpp:19-24), after which no setting, calibration or credential is left.
* In `KartHost`: the status snapshot is one step (its mutex is held for a copy), the
  table of parameters is two settings with one range, the OTA image and its
  validation are `esp_ota`. `app_main` marks the image valid after the control task
  was started, a write that lasts less than a hold of START; it is not an action.
  The LEDC clock guard repairs a fault of the hardware and changes nothing else.
* In `EventLog` the control task may raise events while flash is written, which the
  suspended cache mostly prevents: the model allows more than the board does.
  Reads of flash do not fail, and the partition exists: without it every
  operation of the log is void.
* The 64-bit stamps do not wrap and the 32-bit cursors of the ring would after
  four thousand million edges: both are unbounded.
* The three keys of the Wi-Fi credentials are written one by one in `KartHost`, but not
  told apart: after a power cut between them the station fails to associate, and
  retries.
* History and telemetry (a 1 Hz sampler and its reader under one mutex, the loop
  peaks, which are read and cleared without one): nothing that drives reads them.
* Protobuf and LED rendering, mDNS, the host simulator: presentation and
  formatting.
* The vendored code under `components/` of the firmware (btstack, Bluepad32,
  nanopb, console commands) is by far most of the repository's lines and is no part
  of this project: the models meet it as the callbacks and calls `main/` makes.

## 6. Plan

What the runs check and the provers can reach is proved. Five hazards have no property,
with the reason beside each in `PROJECT.json`: there the code promises nothing, or breaks
what it promises in the way section 3 tells. Left is the finer grain that would be needed
to say more:

1. the gamepad's snapshot read load by load *and* dated by the control core, that is
   `GamepadInput` composed with `KartController`: a tick that overlaps the start or the
   end of a collection, a fresh stamp that vouches for an old button;
2. the rumble of an arming that outlives its gamepad, which takes the links of
   `GamepadInput` beside the mailbox of `Rumble`.
