# A verification project for ESP32-RID

ESP32-RID is firmware for an ESP32-C5 that simulates a fleet of up to 50 aircraft and sends
their remote-identification messages over BLE 4, BLE 5, Wi-Fi channel 6 and Wi-Fi channel 149.
This directory models the parts of it that have state and that run concurrently, fail, or
survive a restart, and the encoding of what is sent. The models are checked with TLC on small instances, and the most important
properties are proved with TLAPS for every value of the constants.

Paths below are relative to the repository.

## 1. The system

```
 console --> shell_task --> Shell ----(apply callback, runtime_mutex)----> Runtime
                              |                                             ^  |
                        (save callback)                        tick(now)    |  | RuntimeSink::submit
                              v                                             |  v
 power-on --> app_main --> NvsConfigStore (NVS: cfg_a, cfg_b)      runtime_task (mutex)
                                                                     |            |
                                                                     v            v
                                                     RadioCoordinator::poll   BleTransport::poll
                                                                     |            |         ^
                                                            esp_wifi driver   NimBLE host   | gap_event,
                                                                              task ---------+ completion ring
```

Three tasks run: `rid_runtime` (a round every 10 ms), `rid_shell`, and the NimBLE host task.

| Component | State | Operations | Where it is hard |
|---|---|---|---|
| `BleTransport`, `NimbleBleGapBackend` (`rid_radio/ble_transport.cpp`) | pending queue, statistics, `busy_`, shutdown flags, completion ring, callback gate, configured instances | `submit`, `poll`, `shutdown`; `gap_event` on the host task | lock-free ring between two tasks; a completion may come before `poll` has noted the start; unbinding while a callback runs; failed resets |
| `RadioCoordinator` (`rid_radio/radio_coordinator.cpp`) | two queues, statistics, active band, current channel, dwell and retry times | `submit`, `poll` | failing driver calls, retries, sharing the radio |
| `NvsConfigStore` (`rid_config/nvs_store.cpp`) | two blobs in flash | `load`, `save` | power failure, failed calls, wrapping generations, foreign versions |
| `Shell` (`rid_shell/shell.cpp`) | staged and applied configuration, generation | `site`, `group`, `config apply/save/rollback` | sequences of commands across failures and restarts |
| `ShellLineBuffer` (`rid_shell/shell.cpp`) | line, overflow, last CR, escape state | `push`, `take` | CR LF, control sequences, over-long lines, echo |
| `Runtime` (`rid_runtime/runtime.cpp`) | fleet, due times, statistics, start time, sequence | `apply`, `tick` | clock read outside the mutex, late ticks, partial failures, stale queues |
| `TrajectoryEngine` (`rid_trajectory/trajectory.cpp`) | per-instance last elapsed time and wraps | `sample` | 32-bit wrap, shared entries; corners, landings, ends of rounds |
| `app_main` (`main/app_main.cpp`) | the tasks, the mutex | start-up, the two loops | start-up failures, NimBLE synchronisation timeout |
| `validate`, `validate_and_expand` (`rid_config/config.cpp`) | none | pure | running totals, faults that hide behind others |
| `Scheduler` (`rid_scheduler/scheduler.cpp`) | four queues | `enqueue`, `pop_next` | overload; used by tests only |
| `GbEncoder`, `OdidEncoder` with the vendored core (`rid_gb`, `rid_odid`) | none | pure | ranges, offsets and steps of every field, values that mean "unknown" |
| Wi-Fi and BLE framing (`rid_radio/wifi_transport.cpp`, `ble_transport.cpp`) | none | pure | length bytes, limits in four files that must agree |
| `EspWifiBackend` (`rid_radio/wifi_transport.cpp`) | who made the netif and the event loop, the driver | `set_country_cn`, `shutdown`, `set_channel`, `transmit` | failures in the middle of the start |
| Identity | none | pure | - |

What makes each of them correct:

* BLE: every accepted payload is accounted for exactly once; a completion ends the
  advertisement it belongs to; the transport is never busy for ever; the ring is never written
  where it is read; after `shutdown` no callback runs and nothing is on the air.
* Wi-Fi: every accepted payload is sent once or expires, on its own channel, most urgent first;
  neither band starves.
* Configuration: a save is atomic; what was acknowledged survives; only what runs is saved;
  slots of another schema version are left alone; a later load can always choose.
* Shell: the line that is executed is the one the user typed and saw; a configuration is accepted
  exactly if nothing is wrong with it, whatever sequence of commands made it.
* Trajectories: continuous, consistent with the velocity they report, different for the aircraft
  of a group.
* Scheduler: overload costs the oldest payloads only, and each is counted.
* Runtime: each message keeps its period and phase, is counted once, and trajectories move
  forward in true time.
* The firmware as a whole: whatever its transports refuse, lose or retry, a receiver sees the
  states of a channel in order, and those of a replaced fleet for one more lifetime at most.
* Encoders and frames: a receiver reads what was sampled; no limit lets a value through that does
  not fit its field; what is encoded can be sent.
* Start-up: it ends whatever the controller does, releases what it made if it fails before the
  context is published and holds it whole if it fails later, and starts no task before all that the
  task uses is there.

`PROJECT.json` lists all components and, under `hazards`, every behaviour that is hard to test,
at the line where it bites, with the properties that cover it or the reason why none does.

## 2. The modules

`map` in `PROJECT.json` names the source lines of every definition. A module's `Mutant_X`
operators are wrong versions of `X`; substituting one has to make a property fail.

**BleTransport.** A step is one access of either task to shared state. `rpc` and `hpc` are the
program counters of the runtime and the host task. `PollBegin .. PollStarted` are `poll` in
order: the drain of the ring on indices read once, the overflow count, the selection, and the
two backend calls, each of which may fail. `Filter .. Leave` are `gap_event`, from the test of the
active instance through the gate to the ring. `Shutdown, Unbind, Reset` are `shutdown`; `Reset`
takes the instances that could not be stopped or removed. The controller (`AdvComplete`) may end
an advertisement as soon as it has been started, before the transport has set `busy_`.
`StrayEvent` is a stack that reports a completion again or unasked, at most `MaxStray` times.
Atomics are sequentially consistent, since the target has one core. A payload is its sequence
number, transport, deadline and expiry; a mode, its GAP instance and its transport are one value.
`MCBleTransport` gives TLC a view that leaves out dead locals and consumed ring slots.

**RadioCoordinator.** `submit` and `poll` are called by one task, so each is one step; the paths
of `poll` are separate actions. `hwChannel` is the channel the driver is really on. `pollAgain`
is the loop of `runtime_task`, which stops polling for the round after an error.

**ConfigStore** models the shell's configuration, the two slots and the start-up that connects
them; **SnapshotStore** is the abstract store that it implements, without slots, generations or
checksums, under the mapping `stored <- Newest, pending <- request`. Commands are atomic except
`save`, one step per NVS call (`SaveBegin`, `SetBlob`, `Commit`, `Verify`), with `CallFails`,
`PowerLoss` and `PowerLossInWrite` possible in between. A blob written by `nvs_set_blob` is
durable at once: the implementation plan in `docs/superpowers/plans` (line 721) records that
`nvs_commit` is no barrier in ESP-IDF v5.5.4. A power failure during the write leaves the old
blob, the new one or a corrupt one. `MCConfigStore` adds the symmetry set.

**Runtime.** A fleet is a sequence of aircraft, each packed or not and with a period per message
kind. `SampleTime`, `Skip`, `Tick` and `EndRound` are the parts of an iteration of `runtime_task`;
`Apply` may come between any two of them that do not hold the mutex. The module says nothing of
what becomes of a payload: it has two environments. **Tasks** is the abstract one, in which the
transports are one set of payloads, of which a poll may send one that has not expired and may drop
any. **Firmware** is the code's: `RadioSink` in front of RadioCoordinator, by `INSTANCE`, with its
clock set to the time `runtime_task` has read and polled by its loop of `MaxPolls` attempts, and of
a BLE queue, which a poll empties at will since BleTransport describes when its backend is free.
`ImplementsTasks` is the refinement, `queue` being the payloads of all queues. In `Tick` what a
transport refuses is not free: it is what comes in the order of aircraft and kinds when the queue
is full. `MCFirmware` defines the fleets, and a view without the statistics of the coordinator.

**Startup.** `app_main` is one action per call, in the order of the program counter `pc`; a call
either succeeds or takes the early return, whose destructors run in the same step (`Return`,
`Shutdown`). The host task is a second process: `SyncInfer`, `SyncTest`, `SyncGive` are the accesses
of `nimble_sync`, and `Take`, `DeleteSemaphore`, `ClearHandle` those of `start_nimble` to the same
two variables. `found` is the Wi-Fi stack as other components left it. `AllOrNothing` has the two ends of a
start: before the publication of `g_context` a failure leaves the Wi-Fi stack as it was found; after
it all stays, and the flags of the backend still tell what a shutdown would have to release.

**FlightState, GbEncoder, OdidEncoder, Framing, Encoding.** The pure part, as operators: the checks
and conversions of the two encoders, the decoders of a receiver (those of the vendored core, and
for GB 46750 the table of `docs/protocol/gb46750-mapping.md`), and the lengths in frames.
**Encoding** joins them to the way of one message through `Runtime::tick`. Quantities are integers,
in ticks so fine that each limit of the code, each step of a field and the middle between two steps
is a whole number of them; a coordinate has quarters of 1e-7 degrees. `RoundOf` rounds as `lround`
does. What single precision does below a tick is not modelled, and the properties do not depend on
it: `Near` allows either neighbour of a middle. `MCEncoding` enumerates the values around each limit.

**TrajectoryClock.** `Tick` advances the elapsed time by a gap, `Sample` is `extend_elapsed` for
one aircraft. A 64-bit time is a pair of halves.

**Motion** is what `sample` computes from that time: the position and velocity of an instance of a
group, for every trajectory type but the circle. The code's floating-point arithmetic is replaced
by integers on configurations for which every division is exact (`Exact`); `valid` and
`positive_phase` are translated too. **Trajectory** composes the two into the whole engine: an aircraft
is sampled at the time the clock rebuilds, and the last two samples are kept to be compared.
`MCTrajectory` defines aircraft, entries and trajectories of each type, with speeds that put corners
between two samples as well as on them.

**ShellLine.** `Press` is a key, of one or several bytes; the actions of `Push` are the cases of
`push` in their order, each with what `shell_task` prints for its result. `intended` is the line key by
key, as its user means it, which the buffer never sees.

**Fleet.** The staged configuration under the commands `site set`, `group add`, `group delete` and
`group clear`, starting from the default or from what flash holds, with `validate`,
`validate_and_expand` and `effective_period` as operators. A period that is not set is -1, as
in flash, and differs from one of 0. `Faults` is the reference definition, one clause per
kind of fault. `MCFleet` adds stored configurations with the faults no command can make.

**Scheduler.** `enqueue` and `pop_next` on the four queues; `offered` and `popped` are histories. The
firmware does not use this class, its tests do.

**BleTransportProofs, RadioCoordinatorProofs, ConfigStoreProofs, TrajectoryProofs, SchedulerProofs,
AppMainProofs, EncodingProofs, FirmwareProofs** hold the theorems; AppMainProofs is about Startup,
ShellLine and Fleet, the tasks and the console of `app_main`.

## 3. The runs

| Run | Question | Bounds | Result |
|---|---|---|---|
| Firmware | Are schedule, statistics and trajectory time right with late ticks and applies at any time; do the code's transports keep the order of time and let the old fleet fade; do they implement Tasks? | 2 fleets on three transports, packed and not, 2 message kinds, periods 2 to 4, 2 applies, clock 0..4, queues of 2, dwell 2, retry 1, 2 polls per round, 1 error per fleet | holds, about 390 000 states |
| BleSafety | Is the transport safe in every interleaving, whatever the stack reports? | queue 2, ring 2, 2 payloads, clock 0..2, 2 stray completions | holds, about 1.5 million states, dead values hidden by a `VIEW` |
| BleLive | Is it ever stuck? | queue 2, ring 2, 2 payloads, clock 0..2, deadlines up to 1 in the past, no strays | holds under `FairSpec` |
| BleRetry | Is a failed submission retried while valid? | as BleLive, without lag | violated, see section 6 |
| Radio | Is each Wi-Fi payload sent on its channel, with dwell and retry respected, and does any payload or band starve? | queues of 2, 3 payloads, dwell 2, retry 2, clock 0..4, driver recovers at 3 | holds under `FairSpec`, two minutes |
| ConfigStore | Do the slots implement an atomic store across crashes, errors and wraps? | 3 configurations of which one cannot be encoded, 4 generations, any number of power failures, 1 error | holds, about 1.6 million states, no deadlock |
| Startup | Does a start end, with nothing held or everything, and start tasks only when all is there, beside a host task that may be late? | every call may fail, 2 synchronisations, all nine states of the partition and its configuration, each netif and event loop ours or not | holds under `WF` of both tasks |
| Encoding | Does a receiver read what was sampled, and can all that is encoded be sent? | about 140 flight states around all limits, 3 sites, all 14 ways of a message | holds |
| Trajectory | Is the rebuilt time exact, and are the trajectories sampled at it continuous, true to their velocity and apart? | 3 aircraft on 2 entries, a time range of 8 and 3 wraps, ticks up to 3 apart, 15 trajectories | holds |
| ShellLine | Is what is executed what the user typed and saw? | lines of 2, 2 Enters, 11 keys made of 10 bytes, each kind of Enter | holds |
| Fleet | Is a configuration accepted exactly if it fits? | 2 names, counts 2 and 4, at most 6 aircraft, 3 groups added, 19 stored configurations | holds |
| Scheduler | Does overload cost the oldest only? | 2 queues of 2, 4 payloads, clock 0..2 | holds, about 1.1 million states |

Why the bounds are enough to be interesting: a ring of two slots wraps within a run and, with
stray completions, overflows; queues of two fill up;
a clock that reaches beyond a lifetime makes payloads late and expired; a dwell and a retry of
two ticks both end and overlap within the clock; four generations wrap after four applies, and
power failures are unbounded; both fleets are applied in either order, ticks are missed by more
than a period, the clock is read before an apply and used after it, queues of two are full while a
packed and an unpacked aircraft offer more, and two polls per round leave payloads to be sent after
the next apply. `MaxLag` lets a payload
carry a deadline that has passed when it is submitted. Until
`Recovery`, any driver call may fail; in the run Radio that is three of the five ticks, enough for a
failed selection and a failed transmission to be retried, and the queues must be empty after it.

A line of two characters fills up, overflows, is rubbed out and killed within a run, and two Enters
show whether the state left by the first spoils the second. Counts of 2 and 4 with a limit of 6 make
fleets below, at and above the limit, none of which has a group that is too large alone. Motion is
checked between any two samples, and every trajectory ends a round within the 32 ms of the clock.

Deadlock is checked for ConfigStore, whose system never stops. The other runs bound the clock and
the workload, and stop when both are used up.

Two synchronisations are enough for the host task to give the semaphore once in time and once too
late, and the host may also synchronise only after the five seconds.

**Fairness.** `Startup`: both tasks run (`WF` of `AppMain` and of `NimbleSync`, FreeRTOS runs each
ready task); no synchronisation need begin, since the controller may be silent, and time passes
only in that `xSemaphoreTake` may return without the semaphore. `BleTransport!FairSpec`: `runtime_task` polls in an endless loop (`WF` of `Poll`), the
host task runs its callbacks (`GapEvent`), the waiting shutdown runs again after each
`taskYIELD` (`Unbind`), and the controller ends every advertisement, which the code starts with
`max_events = 1` (`Complete`). Nothing obliges anybody to submit, to call `shutdown` or to retry
it, and a backend call need never succeed. The last conjunct is the assumption of `BusyEnds`: the
code has no timeout for a completion that never comes. `RadioCoordinator!FairSpec`: polling goes
on and time passes; from `Recovery` on the driver calls succeed. Without a recovery nothing can
be promised for a payload that never expires.

## 4. What is proved

Every theorem holds for every value of the constants that satisfies the assumption its module names,
which the runs evaluate: `ConstantsAssumption` of most modules, `FirmwareAssumption`,
`InputsAssumption` (Encoding), `MaxSyncsAssumption` (Startup), `FleetAssumption`, and for the flight
`EntryAssumption` and `ConfigsAssumption`: at least two entries, trajectories that `valid` accepts,
and divisions that are exact. None depends on a bound.

* **BleTransport.** `TypeCorrect` needs `TypeGateInv`, because `callbacks_in_flight_` is
  decremented: `GateInv` says the count is 1 exactly while the host task is between its increment
  and its decrement, that the callback is bound until shutdown begins, and that the callback body
  is not entered once the wait is over. `CallbackSafety` follows. `AccountsBalance` proves
  `Conservation` from `AccountInv`: queued numbers are smaller than the next one (so a new payload
  is really new), `poll` tries a payload only when nothing is on the air, and after shutdown the
  task is idle. `SlotsApart` rests on `RingInv`, which puts the four indices of the ring, the two
  shared ones and the two the drain has read, in their order around it: neither task waits for the
  other, and still each frees or fills only what the other has finished with. `FinallyShutDown` needs
  `FinalInv`: what is on the air is configured, so a reset that removes every configured instance
  silences all. These hold for any stack, strays included. `CompletionIsSomewhere` and
  `CompletionIsAttributed` are about a stack that reports each end once. `WayInv` counts: the
  advertisements on the air, the callback under way and the unread slots are one while the transport
  waits and none while it does not, all of the active mode. The ring never overflows then.
* **RadioCoordinator.** `TypeCorrect`, `AccountsBalance` and `ChannelCorrect` from
  `IInv`: the driver is on the channel the code believes, which is that of the active band once
  it has been set, and queued numbers are smaller than the next one. `DwellIsHonoured` and
  `KeptWhileValid` go through the paths of `poll`, of which each serves one band.
* **ConfigStore.** `IInv` joins types, comparable slots, the acknowledged snapshot and
  `SaveInv`: before the write, the target is the slot that is not current and the request is
  newer than what the other holds; after it, the request is what a load would find. `WriteEffect`
  is the heart: writing the request, or tearing it, keeps the slots comparable and leaves the new
  or the old snapshot in force. From it follow `Comparable`, `AckedSurvives`, `ForeignSurvives`,
  `AppliedReachesFlash` and the refinement `Implements`. The width of a generation is arbitrary
  (`HalfRange`).
* **Trajectory.** `ClockExact` from `EntryInv`: an entry holds the time of this tick, or that
  of the previous one and none of its aircraft has been sampled since, or nothing yet. It needs two
  ticks of a fleet to be less than 2^31 ms apart. `FlightInv` adds that the last two samples of an
  aircraft are the motion at their times; what remains is geometry. The phases of all types lie on a
  ring, on which a later tick is further by the time passed (`PhaseStep`), and an exact speed turns
  phases into distances (`Scaled`, `PlaceOnLoop`). For each type a lemma gives the motion between two
  distances (`LineMotion`, `RectangleMotion`, `MissionMotion`); a waypoint loop is followed from
  corner to corner (`AlongLoop`, `LoopRounds`), with the running sum of its legs in `RunningLength`.
  `StateNeverJumps`, `VelocityIsFlown` and `InstancesApart` hold for every size, speed, number of
  instances and time between samples. For waypoint loops each has the condition without which it is
  false. A leg straight up or down is skipped and its climb flown at once (section 6), so
  `StateNeverJumps` excludes it. `VelocityIsFlown` also takes legs longer than what is flown in a tick, for
  a shorter one may lie between two samples, which then show neither its direction nor its speed. And
  two aircraft may meet where a loop flies along the same line twice, which `InstancesApart` excludes
  (`NeverRetraced`). The waypoint loops of the run satisfy all three.
* **Startup.** `StartInv`: a given semaphore and a wait that was not in vain stand for a
  synchronisation that has been handled whole (`SyncInv`); of the Wi-Fi stack exactly what the flags
  of the backend say is its own (`WifiInv`); and what there is of the context at each call
  (`ContextInv`). `StartTypeCorrect`, `DeadGiveExcused`, `ReturnsAllOrNothing` and `TasksFindAll` follow,
  for any number of synchronisations and any interleaving with the host task.
* **ShellLine.** `LineTypeCorrect` (no byte is stored outside the buffer) and `ShownIsRun`, which are
  inductive together, one case per branch of `push`. `ExecutedIsMeant` needs `KeyInv`: at any
  byte, either no key is half received and the buffer is the intended line, or a key has been
  pressed of which nothing, the rest of a control sequence, or the LF of a CR LF is still to come. It
  holds for any length and number of lines.
* **Fleet.** `VerdictHolds`: the verdict is right of every configuration, of any number of groups
  with any counts and periods, not only of those the commands can make (`ValidateIsRight`). The one
  pass of `validate` has a running total (`TotalGrows`) and stops at the first fault, so that a group
  reported is the first with a fault (`VerdictOfGroup`); names that differ make identities that
  differ (`IdentitiesDiffer`).
* **Scheduler.** `AccountsBalance` and `OldestLost` from `IInv`, which adds that offered numbers are
  smaller than the next one and that what is queued or popped was offered and is never both.
  `OldestLost` rests on a queue that is full of newer payloads whenever it gives one up.
* **Firmware.** Two invariants. `IInv` is of Runtime: types, `ClockInv` (the time read lies between the
  last tick and now), and the properties `OnSchedule` and `EveryMessageCounted`, which are
  inductive with these. The arithmetic of the schedule is in lemmas on division (`FirstDueWithinPeriod`,
  `DueAfter`, `StaysOnGrid`). `AirInv` is of the transports: a queued payload was built at a time
  that has been read, one of an older fleet before the present one began, and none on a band is
  older than the frame sent last. `PollEffect` reduces all paths of `RadioCoordinator!Poll` to two
  effects: payloads leave the queues, and at most the oldest of one band is sent, in time.
  `OldFleetEnds`, `AirOrdered` and the refinement `Implements` follow from it, for any fleets, any
  queue capacity, dwell, retry time and number of polls.
* **Encoding.** `MessageIsOfState` is the invariant: a message on its way is what the encoder makes
  of the state it was sampled for, which it accepts. The rest is arithmetic, one lemma per protocol
  (`GbFieldsNear`, `OdidFieldsNear`) over all integers, so that `MessageIsRead` and `SentAsKnown`
  hold for every flight state and not only for those at the limits. `EncodedIsSent` follows from the
  sizes the encoders can produce (`MessageSizes`), as does `LengthsAreTrue`, which walks the elements
  of a beacon one after the other.

Every type invariant a module states is proved; a proof covers what a run would repeat, and no run
lists them. The same holds of `RadioCoordinator!Conservation` and `Scheduler!Conservation`. Every
invariant and every action property of a passing run is stated by a theorem.

Only model-checked: the liveness properties (`BusyEnds`, `UnbindEnds`, `StartupEnds`, both
`QueueDrains`), because fairness and `ENABLED` are out of the prover's reach. The waypoint loops that
the conditions above exclude are covered by nothing but the note in section 6.

Induction: the library's induction theorems take an operator as a parameter, which the installed
provers cannot instantiate. The sums over groups and legs are recursive functions over numbers, and
what they compute is proved from a least counterexample instead (lemma `Least`, from the well-founded
order of the naturals). No module has a recursive operator.

## 5. What is not modelled

* The identity derivation, a hash of the device address: its failure is an outcome in Runtime
  (`LoadAndApply`, a refused `Apply`) and ConfigStore.
* Of the encoders, the options the firmware never sets, the texts and accuracies, whose values are
  constants, the message counter, and the order of bytes within a field.
* Rounding errors of single precision.
* Of the trajectories, the circle, rounding and the conversion to WGS-84.
* Of the shell, the splitting of a line into words, the parsing of numbers, the wording of replies; among the keys, an ESC alone.
* In Firmware the BLE backend is abstract: BleTransport, with its host task, is a module of its own.
  It meets the abstraction, since what it starts is a queued payload that has not expired.
* What the NimBLE stack does with a semaphore or a port that is gone.
* Counters do not saturate, and the 32-bit payload sequence does not wrap.
* `stop()` of the BLE backend, which nothing calls; the vendored library, the radio probe and the
  Python tools.

## 6. Where the code and its documents disagree

* A BLE payload whose configuration or start fails is given up (`ble_transport.cpp:103`); the design,
  section 11, says submissions are retried while the payload is valid. Wi-Fi does so. (BleRetry)

Met while modelling, and not kept as runs:

* A full Wi-Fi or BLE queue refuses the new payload (`radio_coordinator.cpp:29`, `ble_transport.cpp:76`);
  the design, section 9.4, says the most outdated one is dropped to keep the newer flight state.
  `Scheduler`, which the firmware does not use, does so: `NewestSurvive` holds of it.
* Payloads of the old fleet are sent after `config apply` (`runtime.cpp:42`); the design, section 6, says
  the running fleet is replaced atomically. `OldFleetFades` bounds how long.
* `nimble_sync` may give a semaphore that `start_nimble` has deleted, when the host answers after the
  five seconds or synchronises twice (`app_main.cpp:35`, `app_main.cpp:56`). `DeadGiveNeedsTimeout`
  says that it needs one of the two. The result of `nimble_port_stop` is not looked at, and when the
  Wi-Fi start fails the NimBLE host is left running.
* When `xTaskCreate` fails (`app_main.cpp:222`, `app_main.cpp:226`) `app_main` returns and releases
  nothing, unlike at every earlier failure of the Wi-Fi start and the context: the context stays published,
  and the Wi-Fi driver, the netif, the event loop and the NimBLE host stay up. If it is `rid_runtime` that
  could not be created, no task is left to use them. `AllOrNothing` says that what is held is then complete.
* A GB altitude less than 0.25 m above -1000 m, or a height that close to -9000 m, is accepted and
  sent as raw 0, which the mapping table declares invalid (`gb_encoder.cpp:26`, `gb_encoder.cpp:112`);
  the coordinate -1e-7 degrees is sent as the invalid 0xFFFFFFFF (`gb_encoder.cpp:63`), and a
  heading from 359.95 degrees as raw 3600. `UnknownOnlyAtEdge` says there is nothing else.
* The OpenDroneID core takes a speed of exactly 255 m/s, a climb of 63 m/s and an altitude of -1000 m
  for unknown, and the encoder passes them on (`odid_encoder.cpp:81`).
* `normalize_heading` may round a tiny negative angle to 360.0F (`trajectory.cpp:27`), which `valid`
  refuses (`model.cpp:14`): the messages of that aircraft are then encoding errors for one tick.
* `valid` of a trajectory has no upper limit on speeds, so a configuration may be accepted whose every
  location message the encoders refuse.
* While the other band's channel cannot be tuned, `poll` returns its error or waits for the retry before it
  serves the band that is tuned (`radio_coordinator.cpp:95`).
* When one slot cannot be read at start-up, the other is loaded even if it is older
  (`nvs_store.cpp:291`); `docs/configuration-reference.md:35` says the newest is loaded.
* The aircraft of a hovering group are all in one place (`trajectory.cpp:319`), and hovering is what
  every group added in the shell does; the design, section 7, says offsets keep a group from
  coinciding. `MovingApart` is about groups that move.
* A waypoint straight above the one before is accepted by `valid`, and the aircraft jumps to its height
  while it reports no climb (`trajectory.cpp:151`); the design, section 13, says observed trajectories do
  not jump. `MCTrajectory` has no such waypoints.

## 7. Plan

Done: the BLE transport, the Wi-Fi coordinator, the configuration store with its abstract
specification, the runtime composed with its tasks and transports and the refinement of Tasks, the
start-up, the encoders and frames, the trajectories and their clock, the line buffer, the staged
configuration and its validation, the scheduler, and the proofs of section 4.

Next, in this order:

1. BleTransport in place of the BLE queue of Firmware, by a refinement of its own: `FinallyShutDown` and
   `CompletionIsAttributed` are what its proof needs of the host task.
2. `Probe`: the state machine of the radio probe (`test_apps/radio_probe`).
3. Recovery after repeated radio failures, which the design (section 11) describes and the code
   does not have, as a further run of the composed model.
