# A specification of the beamline Tango devices

TLA+ models of the device servers and simulators under `src/src/beamline_tango`, of the
operator's panel, of a scan's motor and of the publication script, the TLC configurations
that check them, and theorems checked by TLAPS. Line numbers are those of the source files; `PROJECT.json` maps every definition to its lines.

## 1. The system

A beamline's instruments are served by five Tango device servers. Each talks to one
instrument, or to the simulator that stands for it, and Sardana macros and an operator
GUI talk to the devices.

```
 operator GUI (taurus)      Sardana controllers (motor, 0D counter)
        |  Tango requests and change events  |
 +------+---------+-------------+------------+---+---------------+
 InterlockMonitor  VacuumGauge   MagnetPowerSupply  FaradayCup    CeYagCamera
   Modbus/TCP       Modbus/TCP     serial (socat)    TCP, GPIB     TCP stream
 fake_modbus_plc  fake_modbus_   fake_magnet_psu   fake_prologix_ fake_ceyag_
                  vacuum                           adapter -> fake_picoammeter
                                                                  camera
```

| Component | State it keeps | Operations | What is hard | What makes it correct |
|---|---|---|---|---|
| Interlock monitor | cached coils, failure count, state, one Modbus client, stop event, thread | poll loop, `Reset`, attribute reads, `Init`, `delete_device` | requests run beside the poll thread; outages, hung and busy PLCs; a join with a time limit | what is served is recent and agrees with the state; recovery by itself; a lost PLC shows; truthful `Reset` |
| Simulated interlock PLC | inputs, permit, latch | coil writes, reset | any order of input changes and resets | the latch holds until a reset on good inputs |
| Vacuum gauge | cached pressure, last pushed pressure, failure count, state, memorized `PumpStatus` | poll loop with events and recovery, `PumpOn`, `PumpOff`, `PumpStatus`, `Init` | the above; three steps between a register write and its acknowledgement; kills | recent readings; events follow them; the last command survives a restart |
| Simulated vacuum gauge | registers, start of the decay | pump write, pressure read | a value computed when it is read | the pressure only falls while the pump is on |
| Magnet power supply | current, setpoint, ramp task, port, memorized setpoint | `setpoint`, `Reset`, the ramp's ticks, `Init` | asyncio requests that run in each other's awaits; worker threads that cannot be cancelled; serial errors | one ramp; a truthful `MOVING`; the acknowledged setpoint survives a restart |
| Simulated magnet supply | one current | `CURR` lines | nothing | echoes what it was told |
| Faraday cup | link, lock, poll task, backoff, mirror of zero check | poll loop with redial, `current`, `zero_check`, `Reconnect`, `Init` | requests, redial and poll interleave at every await; Init replaces the lock | one link, one round trip at a time; heals itself; redials slowly; a true mirror |
| Simulated Prologix adapter | one backend link, settings shared by all clients | `++` commands, pass-through | clients that share one instrument; replies that come late | one exchange at a time; redial after a power cycle |
| Simulated picoammeter | zero check flag | `SYST:ZCH`, `READ?` | nothing | answers each `READ?` once |
| Ce:YAG camera | socket, frame, read loop | read loop with redial, `Reconnect`, `Init` | overlapping `Reconnect` and `Init`; worker threads that outlive a cancelled task | one read loop, one socket, whole frames |
| Simulated camera | nothing | streams frames | pure I/O | - |
| Sardana controllers | a proxy | position, state, readout | the mapping of states a scan waits for; other clients and kills during a motion | a point is recorded at its position |
| Operator GUI | tabs, pending pings, device watches, labels, picture, open question | ping threads, retry timer, signals, clicks | worker threads and the Qt thread; two event streams of one device | a device that answers gets its tab, once; a tab shows its device |
| Readiness checks | a deadline | polling of `/proc`, of files, of Sardana | time limits | a unit is ready only if it serves |
| Package publication | the drop directory, the index | `publish-deb.sh` | a kill between steps; a `beamline-publish` that outlives its job | simulators only beside their devices; a green job is published; a re-run is safe |
| Packaging and tools | none | unit files, build files, scripts | - | - |

Two kinds of concurrency matter. `InterlockMonitor` and `VacuumGauge` are synchronous
Tango devices: Tango runs one request at a time (`Init` is one), and the device adds a
poll thread, so there are exactly two threads beside whatever an old thread does after
`delete_device()`. The other three are asyncio devices (`GreenMode.Asyncio`): one event
loop, requests that are **not** serialised, and any of them may run in any `await` of
another; blocking calls are handed to worker threads that a cancellation does not stop.

## 2. The modules

| Module | Models | Lines of the code |
|---|---|---|
| `ModbusPoller` | what the two Modbus devices share: the client and its lock, the poll loop, `Init` | `interlock_monitor.py` 65-285 and the same code in `vacuum_gauge.py` |
| `InterlockPlc` | the PLC's latch | `fake_modbus_plc.py`, `action()` |
| `InterlockMonitor` | the monitor composed with the PLC (EXTENDS both) | `interlock_monitor.py` |
| `GaugeRegisters` | abstract: what a gauge promises its device | used by both of the next two |
| `FakeModbusVacuum` | the simulated gauge; implements `GaugeRegisters` | `fake_modbus_vacuum.py`, `action()` |
| `VacuumGauge` | the gauge device composed with `GaugeRegisters` | `vacuum_gauge.py` |
| `MagnetPowerSupply` | the magnet device, its line and its supply | `magnet_power_supply.py` |
| `MagnetScan` | the Sardana motor on top of it (EXTENDS `MagnetPowerSupply`) | `magnet_motor_ctrl.py` |
| `FaradayCup` | the cup device, its adapter and its instrument | `faraday_cup.py` |
| `PrologixAdapter` | the simulated adapter: its clients' sessions, the backend link, the instrument's replies | `fake_prologix_adapter.py`, `fake_picoammeter.py` |
| `CeYagCamera` | the camera device, its worker threads and connections | `ceyag_camera.py` |
| `OperatorPanel` | the tabs, their pings and watches, the confirmation | `widgets.py` 289-623, `config.py` |
| `PublishDeb` | the steps of a publication | `publish-deb.sh` |
| `ModbusPollerProofs`, `InterlockProofs`, `VacuumProofs` (of `FakeModbusVacuum` too), `MagnetProofs` (of `MagnetScan` too), `FaradayCupProofs`, `PrologixProofs`, `CameraPanelProofs`, `PublishProofs` | theorems and their lemmas | - |
| `MCVacuumGauge` | request sets and the symmetry set of the gauge's runs; what a behaviour is about | - |
| `MCMagnetScan`, `MCFaradayCup`, `MCCeYagCamera` | the two kinds of behaviour of their runs | - |

**Grain.** In the Modbus devices one action is what a thread does between two points at
which the other can be noticed: waiting, taking the lock, the call, each assignment
that a request can see (`PollStore`, `PollApply`, `PollRecover`, `PollPush` are separate
because requests run between them). `pc[p]` names the place. In the asyncio devices one
action is what a coroutine does between two awaits that may suspend, as the event loop
runs nothing else meanwhile; an `asyncio.Lock` that is free, and a `drain()` whose buffer
has room, do not suspend. The camera's worker threads have actions of their own, one per
`recv()`: a cancelled read loop stops at once, but its worker looks up `self._sock` again
before every `recv()`. The adapter is an asyncio server and has the same grain. In
`OperatorPanel` one action is what Qt's GUI thread does with one signal, timer or click;
ping threads and Taurus's event threads only append to what it has still to handle. In
`PublishDeb` one action is a command of the script that changes something outside it.

**Instruments.** A peer of a Modbus device is `up`, `busy` (answers every request with a
Modbus exception response), `hung` (accepts and never answers) or `down`, and changes at
any time; going down kills connections and returns it to its initial values. A write
that was given up may still be executed later (`late`). The adapter of the cup is `up`,
`mute` (its instrument is gone) or `down`; the magnet's line is there or not. The camera
and the adapter's instrument are `up`, `mute` (they accept and send nothing) or `down`. A
backend link of the adapter that has lost its instrument is first at its end of stream
(`eof`), takes one more write, and is then `reset`.

**Tango** is external, and modelled from what the devices rely on: `is_X_allowed()` is
decided before the handler (for asyncio devices, before the handler is queued); a
successful write of a memorized attribute is stored after its setter; the stored value
is written back after `init_device()` if `is_X_allowed()`, and Tango remembers if that
failed and then shows `ALARM`; a client's read of `State` moves `ON` to `ALARM` and back
by the attributes' levels; the device is served after its first `Init`.

**Time** is no variable of its own, except in two places. While `delete_device()` joins
the poll thread, seconds pass inside the thread's Modbus call (`Tick`): the join's time
limit is a race with that call, and all other steps are a few instructions for which
the code leaves two seconds. In `FakeModbusVacuum` the clock counts seconds since the
pump was switched on.

**Data.** Coils are one permit, one latch and a set of inputs; pressures are register
units; currents are small integers and `STEP` is what a tick may change; readings of the
cup are good, bad or not a number. A camera's frame is three parts, each in one `recv()` or
in two, and a stream knows only whose frame it is in the middle of (`stream`). `age`, `outcome`, `acked`, `synced`, `suspect`,
`strayed`, `straddled`, `crossed` and `mixed` are history variables: they are read by
properties only.

## 3. The runs

A pass run checks all its properties at once on one instance; a violation run checks one
property that the documentation states and the code does not keep.

| Run | Question | States | Result |
|---|---|---|---|
| `interlock` | Through outages, busy and hung PLCs, Resets and Inits in any order: is what is served recent, does the state agree with it, is there one poller, is a connection that failed always dropped, are `Reset`'s answers true, does the latch hold? Does the device show the PLC's permit once it answers again, FAULT once it does not, and does every request end? | 527 000 | yes, the last three under `FairSpec` |
| `vacuum_serving` | Is what the gauge serves between polls recent, are subscribers up to date, is the pump request acknowledged last, command or write, on or off, what a restart restores, through kills and failing database writes? | 5 145 000 | yes |
| `vacuum_stale` | Is a served pressure *always* recent? | - | **no** |
| `vacuum_unexecuted` | Was an acknowledged pump command executed? | - | **no** |
| `fake_vacuum` | Does the simulator implement `GaugeRegisters`? | 200 | yes |
| `magnet_scan` | A Sardana motion, kills, and clients whose writes, `Reset`s and `Init`s run in each other's awaits, or come one at a time while the line fails: is every recorded point at its position, is there one ramp and none after `delete_device()`, does `MOVING` last until arrival, does the acknowledged setpoint survive, does the device settle? | 768 000 | yes, the last under `ScanFairness` |
| `magnet_moving` | Is `MOVING` truthful when the line fails? | - | **no** |
| `cup_link` | Two clients beside the poll task, or one whose requests overlap `Init`s: one link, round trips apart, a true mirror, no poll during Init, healing, slow redials | 321 000 | yes, the last two under `CupFairness` |
| `camera_stream` | One client's `Reconnect`s and `Init`s beside the read loop and orphaned workers that may be slow, or two clients' that overlap: one read loop, whole frames, `ON` only with a connection that is read, healing, slow redials of a silent camera | 294 000 | yes, the last two under `CameraFairness` |
| `adapter_link` | Clients that change each other's settings, an instrument that falls silent or is switched off: replies to the right client with auto on, every line dealt with, a link that is always redialled | 23 000 | yes, the last two under `FairSpec` |
| `operator_panel` | Devices that come, go and change, unreported for a while, and frames of any state in any order with the states: is one ping on its way for every pending tab, does a built tab show its device (label, buttons, no frame that outlives `ON`), does every device that stays get its tab and label? | 140 000 | yes, the last under `PanelFairSpec` |
| `publish_deb` | Jobs that fail or are killed at any step, and are run again with the same or another build: simulators only beside their devices, a green job published for good, only a job's own copy removed, a re-run that completes? | 8 000 | yes, the last under `FairSpec` |

The type invariants, and the exclusion of the locks (`OneCallAtATime`, `OneExchange`), are not
in the runs; all of them are proved. The gauge's thread and lock steps are those of
`ModbusPoller`, whose `OnePoller` and `FailedConnectionIsDropped` are checked with the
interlock and proved of both devices.

Each property of a pass run also has a mutant in `PROJECT.json`: a definition with a
plausible bug, kept beside the original (`PollCountLate`, `ResetUnmemorized`,
`StateOneBuffered`, ...), under which TLC finds that property violated.

### What the violations show

* **`vacuum_stale`** (`vacuum_gauge.py:214`): a recovering poll sets `ON` at line 214 and
  replaces the pressure at line 217. A request between the two reads the pressure of
  before the outage, or `None` if there never was one. The interlock assigns in the other
  order, and `ServedIsRecent` is a theorem there.
* **`vacuum_unexecuted`** (`vacuum_gauge.py:161`): a Modbus exception response to the
  register write is not looked at; the command is memorized and acknowledged.
* **`magnet_moving`** (`magnet_power_supply.py:114`): a serial error ends the ramp task
  before it leaves `MOVING`, and nobody awaits the task.

Further disagreements, which have no run of their own. The first four are races of
asyncio requests, and of worker threads, that the code does not exclude. They happen in the
runs: a history variable records that one has, the property names it as its only exception,
and TLC finds the property violated if the exception is left out (`OnIsConnected` only
under the whole `Spec`, after two loops have both redialled).

* `strayed` (`magnet_power_supply.py:81`): a setpoint write that was allowed before `Init` runs
  after `delete_device()` cancelled, and its ramp is forgotten by `init_device()`. Two ramps
  then share the state and the port (`OneRamp`, `DeleteStopsRamps`, `MovingUntilArrival`).
  It is over when the last such ramp is. The database is not exempt: Tango
  stores a client's write after its setter, which may be after a `Reset` has stored 0 A, so
  that a restart goes to a setpoint that was overtaken. `acked` is what was acknowledged
  and not overtaken so, and is what `RestartKeepsSetpoint` is about.
* `straddled` (`faraday_cup.py:62`): `init_device()` replaces the lock object, so that a
  `Reconnect` that uses the old one dials beside it and one link is never closed (`OneLink`,
  against the promise of lines 121-125), or two read one stream (`RoundTripsApart`; asyncio
  then raises a `RuntimeError` in the second, which may be the poll task). It is over at
  the next `Init` that finds no request and no link of the kind. `NoPollDuringInit` and
  `ZeroCheckIsMirrored` hold without the exception.
* `crossed` (`ceyag_camera.py:183`): two requests that overlap both dial and both start a read
  loop, and only one of them is ever cancelled (`OneReadLoop`, `OnIsConnected`). It is over
  when a later request was alone and left no second loop.
* `mixed` (`ceyag_camera.py:133`): a worker that is suspended between two `recv()`s of a payload
  while a whole `Reconnect` goes by continues on the *new* socket and takes bytes out of its
  first frame (`FramesAreWhole`). The stand-in for the hardware in
  `tests/camera/test_ceyag_camera.py:69-72` is written on the assumption that it cannot.
  It takes a thread that the operating system leaves out for as long as a connect takes.
* The panel's picture is drawn by one event stream and cleared by another
  (`widgets.py:333`, `450`). The image's first value is the last frame whatever the device's
  state (`ceyag_camera.py:193`), and a device may be `ON` and have left it before a listener
  is told, so that a picture may stand under FAULT: `NoPictureWithoutStream` states
  the promise of `operator_notes.html:86`, and TLC refutes it. What holds, and is in
  `PanelShowsDevice`, is that a frame which was there under `ON` goes with it.
* `operator_notes.html:94-96` says that `Reconnect` stays enabled in NO CONTACT; `config.py`
  (96, 136) gives it the states `ON` and `FAULT`, and `DeviceTab` enables a button in the states
  of its action and disables it out of contact. `Allowed` follows the code.
* After a read that timed out the adapter's reply comes late and stays ahead of all others:
  from then on every query on that link is given the reply of the one before
  (`fake_prologix_adapter.py:113`). `OwnReplies` is what does hold. A client without
  auto can be given another client's reply also without a timeout, since its query
  and its `++read` take the lock separately (lines 164 and 190).
* `FaultIsTruthful` in `MagnetScan` (`magnet_motor_ctrl.py:64`): a magnet past its warning level is
  `ALARM`, which `STATE_MAP` does not know, and the motion fails though the magnet works.
* `OddErrors = TRUE` in `operator_panel.cfg` (`widgets.py:565`): a ping that ends by anything but
  `DevFailed` emits no signal, its index stays in `_pending`, and neither the timer nor the
  button pings that tab again (`PendingIsTruthful`, `PanelCatchesUp`).
* `CommandFollowsLabel` in `OperatorPanel` (`widgets.py:350`): the state changes while the question is
  open; OK sends the command all the same, and it is the device that refuses it. Of the
  commands that ask no question `PanelCommandsAreAllowed` proves it.
* A `beamline-publish` that says it published and did not (`lied`) lets the script go on to the
  simulators (`publish-deb.sh:62`), whose devices are then missing until the check at the
  end (66-72): `SimulatorsFollowDevices` leaves it out.
* A job that is killed between the copy and line 57, or by a signal without the trap, leaves a
  file that every later job refuses (line 54) until somebody removes it; `RerunCompletes` and
  its "safe" re-run (lines 8-9) assume that somebody has.
* Between a failed call and the close of its connection the lock is free, and the other
  thread may call on that connection (`interlock_monitor.py` 118-126);
  `FailedConnectionIsDropped` is what does hold.
* `Reset` says "not delivered" also when the PLC has executed the write and only the
  answer was lost (`ResetRaises` with `write = "done"`).
* A magnet `Init` after a serial error re-raises the failed ramp's error
  (`DeleteRaises`), and so does every later one: only a new setpoint, a `Reset` or a restart
  helps. The same holds of a cup whose poll task ended by a `ValueError`.
* The magnet's `current` is ahead of its output while a write is awaited, and for good
  when the write is cancelled or fails (`RampFails`, `LateWrite`).
* After an `Init` that refused its properties the cup's `Reconnect` makes it `ON` with no
  poll task (`InitRefuses`, then a client's `ConnectSetUp`).

### Bounds, and why they are enough

* *Threads* `{t1, t2}`: `OnePoller` needs one thread that is being replaced and one that
  replaces it, and a third would only live while two live, which is the violation.
* *Threshold* 2: the least at which a failure is tolerated. *Timeouts*
  1 s and no retries: what matters is whether a call ends before the join's limit, and
  `TimingAssumption` is the relation that decides it; the theorems hold for all values.
* *One input*: the logic is a conjunction over inputs; the theorems hold for any set.
* *MaxLate* 1, `late` a set of values: one write that arrives late is overtaken by every
  sequence of later requests. Kills of a server are not bounded.
* In `vacuum_serving` a behaviour has a pressure that falls under a pump that is switched on, or
  a pump that is switched on by `PumpOn` and off by a write of `PumpStatus` while the pressure
  stays (`focus`): the served pressure and the memorized command share no step. The theorems
  are about both at once and all requests.
* *Pressures* 0..2 with a warning level of 1: above, at and below; a drift of two units is
  what the event threshold has to notice.
* *Currents* 0..3 with a step of 2 and a warning level of 2: targets reached exactly and
  with a clipped last step, from both sides, below and above the level. *Two ramp tasks*: one
  that is cancelled or strays, and one new. *MAX_LATE* 2. One setpoint write, one `Reset` and
  one `Init` are in progress at a time, each in the awaits of the others. A behaviour of
  `MCMagnetScan` has a line that fails and late writes under requests one at a time, or
  requests that overlap in every way on a line that is there (`focus`).
* *Two links* in `cup_link`: one more than the code may have. A behaviour of `MCFaradayCup` has
  two clients beside the poll task (two waiters behind a holder) and `Init`s nobody overlaps, or
  one client whose requests overlap `Init`s in every way. *BACKOFF_CAP* 1: first and capped.
  The safety properties were checked once with two clients that overlap everything and a
  cap of 2, in 9 670 000 states.
* *Two read loops, two workers, two connections* in `camera_stream`: one that is being replaced
  and one that replaces it, or two that were started at once; a connection is free again
  when nothing refers to it, and a connect waits for a free worker. A behaviour of
  `MCCeYagCamera` has one client, with every outage and slow workers, or a second client whose
  one `Reconnect` overlaps the first's, before a camera that comes up when that is over:
  two loops that fight for one stream are too many states.
* *Two clients* of the adapter and three unread queries (`MAX_UNREAD`, a bound on what clients
  send): one exchange and one that waits, with a late reply and another's query between.
* *Two tabs*, one a camera whose action is allowed in FAULT, one whose action asks first; tabs share
  only the GUI thread. *MAX_SIGNALS* 2: a state and the frame that overtakes it, with a
  third event held back, beside the pings and first values, which are not bounded.
* *Three builds*: the one that is published, another of the same version, and one whose
  version is not the tag's. *MaxFaults* 3: one per step of a job that leaves the devices,
  one of its re-run, and one more; the theorems hold for any number.
* The cup's two lock objects: an operation that outlives two Inits would need a third
  (`ResetFields` waits for it). A link that nothing refers to is closed by the
  garbage collector some time later (external). Symmetry is used only in runs without liveness properties.

### Fairness, and why the code justifies it

`FairSpec` obliges the device's own threads and tasks, never a client, the plant, an
instrument or the network. Strong fairness stands where a lock is waited for:
`threading.Lock` does not promise it, but its holder lets go within one call's timeout and
the poll thread then sleeps for `POLL_INTERVAL_S`, and `asyncio.Lock` wakes its waiters in
turn. A dial of the camera's loop may wait again and again for one of the model's few workers,
hence SF there as well. The restrictions of an `MC` module take away no step of a task or
request that has begun; that of the camera may put one off, and its runs show liveness of those
behaviours only. Qt's event loop serves timers and queued signals in turn, however
busy the operator is, so that the GUI's steps are strongly fair; a script that runs goes on. A PLC that is up executes what it has received. The liveness properties carry the
rest as hypotheses: "from some time on the instrument answers", "clients leave it alone", "the device stays as it
is", "nothing more hinders the job".

## 4. The theorems

| Theorem | For every | Argument |
|---|---|---|
| `InterlockTypeCorrect`, `InterlockHasOnePoller`, `InterlockCallsOneAtATime`, `InterlockDropsFailedConnection`, `InterlockServesRecent`, `InterlockStateMatchesCache`, `InterlockResetAnswersAreTrue`, `InterlockLatchHolds` | set of inputs and of threads, threshold, timeouts within `TimingAssumption` | `InterlockInv`; `FailedConnectionIsDropped` is inductive with it |
| `VacuumIsConsistent`, `VacuumTypeCorrect`, `VacuumHasOnePoller`, `VacuumCallsOneAtATime`, `VacuumDropsFailedConnection`, `VacuumServedBetweenPolls`, `VacuumEventsFollowPressure`, `VacuumRestartKeepsCommand` | set of threads, pressures, alarm level, threshold, timeouts, requests | `VacuumInv` |
| `FakeVacuumTypeCorrect`, `FakeVacuumImplementsGauge` | pressures, decay rate, bound of the clock | `DecayInv`; each step is a step or a stutter of `GaugeRegisters` |
| `VacuumKeepsGauge` | as for the gauge | each step of device and instrument is a step or a stutter of `GaugeRegisters`, so that the simulator may stand for the instrument |
| `MagnetTypeCorrect` | tasks, step, limits; any overlap of a write, a `Reset` and an `Init` | `TypeOK` is inductive |
| `MagnetHasOneRamp`, `MagnetDeleteStopsRamps` | the same | `RampInv` |
| `MagnetMovingUntilArrival`, `MagnetRestartKeepsSetpoint` | the same | `RampInv` with `MovingInv`, with `KeepInv` |
| `ScanImplementsMagnet` | every instance | each step of the scan is one of the magnet or a stutter |
| `ScanPointsAreAtPosition` | the same | the magnet's invariants with `ScanInv` |
| `CupTypeCorrect` | set of clients and of connections, cap of the backoff; any overlap of requests and `Init`s | `CupTypeOK` |
| `CupRoundTripsApart`, `CupNoPollDuringInit` | the same | `CupInv` |
| `CupOneLink`, `CupZeroCheckIsMirrored` | the same | `CupLinks`, and `MirrorInv` on top of it |
| `CameraTypeCorrect` | set of loops, workers, connections and requests, cap of the backoff; any overlap of requests, any workers | `TypeOK` is inductive |
| `CameraHasOneReadLoop`, `CameraOnIsConnected`, `CameraLoopNeverFails` | the same | `CameraInv` |
| `CameraShowsWholeFrames` | the same | `WholeInv` |
| `PanelTypeCorrect`, `PanelPingsApart`, `PanelShowsItsDevices`, `PanelCommandsAreAllowed` | set of tabs, of cameras, of actions, device states, queue bound; any end of a ping | `PingInv`, `ShowInv` with `PictureInv`, `ClickInv` |
| `PanelPendingIsTruthful` | the same, assuming `OddErrors = FALSE` | `PingInv` |
| `PublishTypeCorrect`, `PublishGreenIsPublished`, `PublishSimulatorsFollowDevices`, `PublishOnlyOwnCopyRemoved` | set of builds, mistagged ones, number of faults | `GreenInv`, `DevicesFirst`, `OwnCopy`; see below |
| `AdapterTypeCorrect`, `AdapterExchangesApart`, `AdapterRepliesAreOwn` | number of clients and of unread queries | `AdapterInv` |

**`InterlockInv`** is the conjunction of

* `PollerInv` (module `ModbusPollerProofs`): types, `OneCallAtATime`, the life cycle of the
  poll thread and `JoinHasTime`. `OnePoller` is not inductive: after a join that times out
  it would break. `JoinHasTime` says why none does: a thread that was told to stop makes at
  most the call it is in, and `callLeft < joinLeft` while it does. That needs
  `MODBUS_TIMEOUT_S < POLL_INTERVAL_S + 2`, because a call may dial first and the join's limit
  counts no dial: the shipped 1.0 s and 1.0 s satisfy it, pymodbus's default of 3 s with that
  interval would not.
* `ResetInv`: the write of a `Reset` is in flight only during it.
* `AnswerInv`: an answer that is about to be used is there.
* `CacheInv`: between Inits an operational device has a cache, a thread that refreshes it,
  and the state the cache says.
* `AgeInv`: the age of the cache is the length of the failure streak, one more until the
  failure is counted; a streak at the threshold is about to be FAULT. `ServedIsRecent`
  follows from it and `CacheInv`.
* `CoilsAgree`: the permit is the opposite of the latch, which is set while an input is bad.

The lemmas of `ModbusPollerProofs` cover the shared steps once, those that only the gauge
takes included. **`VacuumInv`** is `PollerInv`, the types, and two parts of its own:

* `MemorizedInv`: what was acknowledged is in the database, and a request that is under way
  has not been acknowledged; this is `RestartKeepsCommand` with the two places where the
  value is on its way to the database or back.
* `ServeInv`: `AnswerInv` and `AgeInv` as in the interlock, `PressureInv` (an operational
  device has a reading *except* between the recovery of the state and the store, the window
  that `vacuum_stale` shows), and `EventsInv`, by which subscribers lag by at most one unit
  except between a store and its push.

**`DecayInv`** adds to the types that the clock runs
exactly while the pump does and that the register is not below what a read would compute
now, which is what makes the next read a fall. **`RampInv`** adds to `TypeOK` and `OneRamp` that
from `delete_device()`'s cancellation until `init_device()` is through no ramp is alive, unless
one has strayed; `strayed` is set exactly by a ramp that is created in between, which is
what makes it inductive. **`MovingInv`** adds that no ramp that began runs in another state
than `MOVING`, unless one has strayed, and that `MOVING` without a ramp means a failed one,
whatever overlaps; **`KeepInv`** that the acknowledged value is in the database, and is where a
ramp goes and the setpoint of an operational device, as soon as a write that changed it
is memorized. **`ScanInv`** says of a motion nobody interfered with that its ramp goes to
the scan's target, that the supply is where the ramp left it (`FollowInv`), and that an
operational device is on its way, stuck or there (`ArriveInv`). It starts from a magnet
at rest, and asyncio runs a ramp's first step before a request that came later: its
queue is first in, first out (`StateOne`). **`AdapterInv`** joins the three theorems: that no query comes
behind that of the session that waits follows from the lock (`HolderIsAlone`), and an
answer of the instrument moves a query from one sequence to the other and leaves the last
the last (`AnswerKeepsLast`).

**`CupInv`** says that a task is in a round trip or a redial exactly while it holds the
lock object it took, of which there may be two, that all tasks use the one that is there
unless an `Init` replaced it under a request (`straddled`), and `NoPollDuringInit`. The
latter needs no exception: the poll task is awaited before the lock is replaced.
**`CupLinks`** adds what is known of the connections: each one in use is there and no two
tasks set up the same (`LinkInv`, whatever overlaps), and, unless straddled, a redial
finds no writer, so that none is left behind (`LinksTidy`). **`MirrorInv`** says that
without an outage since the last setup the mirror can only be wrong between `Init`'s reset
and the setup that follows, also when both overlap requests.

**`CameraInv`** joins what holds whatever overlaps with what holds unless `crossed`. `JobInv`:
a worker that has an owner is awaited by it; all others read for nobody. `RequestInv`:
only one request is at work unless crossed, and what is crossed is mixed. The rest are
exempt while crossed. `LoopInv`: the one loop alive is `self._read_task`, between the end
of `_disconnect()`'s cancellation and the connect there is none, so that the one which
is started is the only one, and the device's loop has not ended by an uncaught error.
`ConnInv`: a worker that is awaited reads from the device's socket, which is there: only
`CloseSocket` takes it away, and that is called by the loop itself or by a request that
has already cancelled it. Hence a worker that finds `self._sock` to be `None` belongs to
nobody, the `AttributeError` of line 133 reaches no loop (`CameraLoopNeverFails`), and
`OnInv` follows: `ON` outside a request means a socket and a loop on it. A request
clears `crossed` only when it was alone and left no second loop, which is when
`LoopInv` can be re-established.

**`WholeInv`** is about the bytes. `StreamInv` says that the loop and its stream agree on
where in a frame they are, and that a new connection is at a frame's first byte. The
danger is a worker whose loop was cancelled: `OrphanInv` says that, once the request that
cancelled it has closed the socket, such a worker sits on a connection that was shut down
or is about to look up a socket that is not there. If one of the second kind is still
there when a connect completes, the behaviour is `mixed` from then on, until a request
closes what it reads.

**`PingInv`** says of each tab that, if it is pending, either its thread runs and no
result is queued, or the thread is gone and exactly one result is queued (or, with
`OddErrors`, neither), and otherwise neither. Two lemmas about `Append` and `Tail`
(`ResultQueued`, `ResultHandled`) carry it through every signal that is sent and handled;
`PendingIsTruthful`, which counts results, is read off it at the end. **`ShowInv`** is the
panel's central argument: for a tab that is watched, either the last state in its queue is
the device's and nothing after it can disturb what it will show (`Tells`), or no state is
queued, nothing queued disturbs, and the tab shows the device already (`AllQuiet` and
`Shows`). The device of this argument is what Taurus has reported of it (`reported`): the
real one may be ahead. **`PictureInv`** says that a frame which came under `ON` is there
only as long as the label says `ON`, in whatever order frames and states are handled.
Neither needs an assumption on how pings end. **`ClickInv`** says that an enabled button is
that of a built tab whose label its action allows, that questions are of actions that ask,
and that the command under way has asked or is still enabled.

The publication needs little: `GreenInv` is inductive because only a job at its check can
pass, and an index entry never changes once it is there; `DevicesFirst` says what a job that
has reached the simulators, also one that was orphaned there, knows of the devices' entry;
`OwnCopy` that the trap's variable is set only while the file is this job's.

Assumptions on constants are named `ASSUME`s of the modules that declare the constants;
TLC evaluates them in the runs. Every invariant and every action property of the runs is a
theorem. Only model-checked, and not proved, is what is about liveness (the prover has no
rule for fairness here): `EventuallyShowsPermit`, `LossIsReported`, `RequestsReturn`,
`EventuallySettles`, `HealsItself` and `MuteIsRedialledSlowly` of the cup and of the
camera, `LinesEnd`, `BackendHeals`, `PanelCatchesUp` and `RerunCompletes`.

## 5. Not modelled

* Change events but the gauge's pressure, log and status texts, the framing of Modbus,
  serial lines and GPIB, and the floating-point conversion of readings.
* `push_change_event()` raising in the poll thread; a database that fails while the magnet
  restores; clock steps on the simulator's host.
* Invalid properties beyond "refused": one refusal stands for all.
* The simulated picoammeter's values and the simulated camera, which keep nothing but what the
  device's model already has of them; of the simulated magnet supply, all but `CURR`.
* Unit files, build files, scripts and the readiness checks: loops that read until a time
  limit, without state of their own.
* `faraday_zerod_ctrl.py`, which passes one attribute on; of the motor, the settings of its pool.
  A motion ends when somebody interferes: a scan that is aborted, and goes on from a ramp
  that `StopOne` (a `pass`) did not stop, is one of them.
* Of the panel: forms, LEDs, trends, the log filter, and the docking and maximizing of
  `beamline_gui.py`, whose only promise is a layout; Taurus's own reconnection to a device
  that was lost, which is taken to send its next state. A watch's first value
  (`widgets.py:372-374`) is taken to be no older than the change events queued before it.
* `check-versions.py`, and the signing and export in `beamline-publish`.
* Of the adapter: `++eos` with a terminator that the instrument does not parse (documented as a
  simplification of the simulator), and a kill and restart of the adapter itself. Of the
  camera: the dial of a cancelled loop, whose socket nobody refers to and CPython closes;
  pixels and the throttled event.
* The adapter is not composed with `FaradayCup`, which knows it as `up`, `mute` or `down`: the
  cup's readings are good or bad there, and one that is late is not told from a good one.

## 6. Plan

The order was: the interlock guards people and the vacuum the machine, the magnet and the
cup have the most interleavings, then what stands on top of the devices. What follows:

1. `FaradayCup` composed with `PrologixAdapter`: round trips through a late reply, an old
   session that still holds the lock when the cup redials, whose reading `current` is.
2. Two overlapping motions and an aborted scan in `MagnetScan`.
3. Proofs: what holds of the sockets of two loops while requests of the camera overlap, and
   the safety part of the slow redials.
