# Verification of the MoDriverPC EtherCAT master

TLA+ specifications of the EtherCAT master library in `src/`, the TLC runs that
check them and the theorems TLAPS proves about them. Every definition is
translated from the C++ source; `PROJECT.json` maps it to its lines.

## The system

The library drives EtherCAT slaves through SOEM. One application thread calls
`MoEcatMaster`; it brings a bus up in stages (adapter, scan, maintenance,
ready, operational), exchanges process data once per `Service()` call and takes
the bus down again.

| Component | State | Operations | Interacts with |
|---|---|---|---|
| `EcatController` | `state_`, `slave_infos_`, `config_` | the lifecycle operations, `RequestFault`, `RequestEmergencyStop` | calls `EcMaster` and `SlaveNodeManager`; called by the facade and by `ProcessDataEngine` |
| `EcMaster` | SOEM context, `closed_`, IO map, `expected_wkc_`, statistics | open, close, scan, AL state requests with and without retry, process data, SDO | SOEM and the bus, under `soem_mutex_` |
| `SlaveNode`, `SlaveNodeManager` | nodes: placeholder, then configured with buffers | `Initialize`, `ConfigureAll`, `Clear`, update outputs and inputs | `EcMaster`, `DeviceProfile` |
| `SlaveTypeDetector`, `SlaveConfigFactory`, `DeviceProfile`, `ServoAxis` | rules, PDO layout, targets and feedback | detect, create, encode, decode | the nodes and the application |
| `MoEcatMaster` | `runtime_state_override_`, callbacks | the public operations, `Service`, queries | listeners, called in the caller's thread |
| `ProcessDataEngine` | time of the last slave check | `RunOnce`, `CheckSlaveStates` | controller, nodes, `EcMaster` |
| runtime state predicates | none | validity, what may run | the facade |
| `Logger` | queue, sinks, worker thread, one per process | `Log`, sink setters, destructor | every component; the callback leads into a master |
| `CyclicRunner` | `running_`, thread | `Start`, `Stop` | a task of its owner; the library does not use it |
| `ActivityScheduler`, activities | `running_`; a node and the progress of the transfers | `Execute` | runtime state of the facade, controller (failure policy), nodes (SDO); built by the facade, called by nobody in the library |
| `EcatApplication` (CLI) | `g_running`, the input buffers | one line per pass of `Run`, `Service` in each pass | `MoEcatMaster`, stdin, signals |
| SOEM | slave list, AL states | `ecx_*` | external (an empty submodule) |

What is hard in it, component by component, and what makes it correct:

- **Controller and bus.** An operation is many exchanges; slaves refuse, time
  out, fall back, vanish and return between any two. Slot 0 of SOEM shows one
  combined state that hides slaves. Operations fail half way. Correct is:
  what the controller reports is true of every slave and of the process image,
  failures end in a defined state, nothing is left open, operations return.
- **Facade.** Listeners run inside the operations and may call the library
  again; the slave check is throttled. Correct is: listeners end with the state
  the library has, process data stays off the bus in a transition, a dropped
  slave is noticed in bounded time.
- **Statistics.** Fixed-width counters over weeks and several sessions.
- **Logger.** Producers, worker, a callback under a mutex, several masters, the
  end of the process. Correct is: no record lost, doubled or reordered, no call
  into a destroyed master, the destructor returns.
- **Process image.** Targets are set while a cycle encodes them; what a node
  writes comes from an assumed mapping, the room for it from the device; frames
  get lost unnoticed. Correct is: each drive gets a current command of its own
  axis, and its feedback is what it measured.
- **Activities and runner.** `Execute` may be called from several threads and
  from callbacks; it takes the right to execute, looks at a state once, makes
  many transfers and applies a failure policy after the right is given back.
  Activities keep references to nodes. Correct is: one activity at a time, in
  Maintenance only, no node used after its destruction, a failed parameter
  takes the master out of service, `Execute` and the runner's `Stop` return.
- **CLI.** A line passes the descriptor, which `poll` sees, and the buffer of
  `std::cin`, which it does not; the read may wait; signals and the end of the
  input come at any time. Correct is: a stop is obeyed, the cycle is serviced,
  the program ends when asked to and leaves nothing open.

`PROJECT.json` lists the hazards with their lines and the property for each.

## Modules

| Module | Models |
|---|---|
| `MasterLifecycle` | the abstract specification: each operation of the controller one step with its promised result or its fallback |
| `EcatController` | the controller, the `EcMaster` it drives, the slaves; one exchange per step |
| `EcatControllerProofs` | the theorems about `EcatController` |
| `MoEcatMaster` | the facade over `MasterLifecycle`, with callbacks, `Service` and the throttled check |
| `MoEcatMasterProofs` | the theorems about `MoEcatMaster` |
| `CyclicStats` | the statistics of `EcMaster::RunOneCycle` |
| `CyclicStatsProofs` | the theorems about `CyclicStats` |
| `Logger` | the logger, its clients' threads and masters, its destructor |
| `LoggerProofs` | the theorems about `Logger` |
| `ProcessImage` | one session's cycles: axes, nodes, buffers, the I/O map and the exchange |
| `ProcessImageProofs` | the theorems about `ProcessImage` |
| `PdoReading` | reading a PDO mapping by SDO, with its `uint8_t` loops; used by the activity and by `DumpPdoMapping` |
| `PdoReadingProofs` | the theorem about `PdoReading`: an upload moves the reading on |
| `ActivityScheduler` | `Execute` step by step and the bodies of the four activities, over `MasterLifecycle` |
| `CyclicRunner` | the runner: its flag, its thread, where its loop is |
| `CyclicActivities` | the composition of the two: an owner and the runner's thread |
| `CyclicActivitiesProofs` | the theorems about `CyclicActivities` |
| `CommandLine` | `main`, `EcatApplication` and `StdinCommandReader` over `MasterLifecycle` |
| `CommandLineProofs` | the theorems about `CommandLine` |
| `MC...` | values of the constants for TLC |

`MoEcatMaster`, `ActivityScheduler` and `CommandLine` extend `MasterLifecycle`
and call it through `Dispatch`, and `EcatController` implements it, so they are
checked over what the controller has been proved to promise.

### EcatController

`pc` is the exchange an operation does next; `"idle"` is the time between
operations. `state`, `closed`, `nodes` are `state_`, `closed_`, `nodes_`;
`found` is SOEM's slave list, `tries` the loop variable of
`RequestStateWithRetry`, `al` the AL status of each slave with its error bit.
An operation `X` starts with action `X` (the guard is `kAllowedActions`), and
its exchanges are `X...PreOp`, `...Check` and so on, in the order of the code.
`Stop` and the shutdown of a failed bring-up share the steps `sd_...`.

- One exchange is one step: a broadcast with its state check, one read of all
  states, one round of the retry loop. Slaves move between exchanges, not
  inside one.
- In a retry round the state seen on slot 0 is that of some scanned slave. This
  allows more than SOEM reports (it combines the words) and never less.
- `ecx_config_init` is external: slaves that answer are in INIT or PRE_OP after
  a scan.
- A refused `ecx_init`, a passed check and a throttled check change nothing and
  are not steps. `ConfigureAll` and `ConfigureDc` cannot fail in this code.
- `FaultWhileClosed` says whether the application requests faults before the
  adapter is open. The code allows it, and `Stop` then requests INIT on a
  context that is not open; `NoTrafficWhenClosed` is checked for applications
  that do not.

### MoEcatMaster

A controller operation is one step (`ControllerDoes`). The caller's stack
`calls` is explicit: an operation is inside its first callback, then inside its
second; `Service` inside `on_state_changed`, then inside
`on_runtime_state_changed`. From each callback the application may call any
operation in `FromCallback`. `dropped` abstracts all the slaves: one of them is
not in the AL state the master state asks for; it is cleared when Maintenance
or Operational is entered, because `EnteredOnlyWhenChecked` holds. Time is in
ticks; the main loop calls `Service` at least once every `Period`.

### CyclicStats

The counters are words with `WordSize` values. Times come from a small set; the pause
between sessions is `Gap`. `timed` is `last_cycle_time_ != 0`. Histories keep
the measured intervals, which of them are pauses, their sum and the mismatches
for the properties. The division by zero ends the process (`halted`).

`RunOneCycle` takes the pause for a cycle, so the extremes are not those of the
cycle times (`ExtremesAreCycleTimes` is violated). What holds speaks of cycles
only: none is above the maximum, and none since the last measured 0, which the
code takes for "no minimum yet", is below the minimum.

### ProcessImage

`RunOnce` is a `phase` with a loop variable `turn`: each of the three reads of
an axis by the encoder is a step, since `ServoAxis` locks its mutex for each,
and `SetTarget` of the application may come between any two. The copy into the
map belongs to the last read. `image` is `iomap_` byte by byte; `Detect`,
`Layout`, `PlainBytes` and `BufferSize` give what a node writes,
`OutStart`/`InStart` where SOEM has put the slave: a device comes with its
windows, and `WindowsAssumption` says what is assumed of them (in the order of
the slaves, outputs before inputs, inside the map, gaps allowed). Sizes of
device and node are independent, as in the code, and a copy that is too long
goes on into the next window; past the end of the map it has no effect in the
model. Targets are integers in half increments so that truncation shows.

- The bus is chosen once; a new session finds the same devices. Bits are not
  modelled: every device has whole bytes.
- A slave that is assumed to be a servo has the assumed layout of its inputs.
- `Stop` and a new bring-up are one step, `NewSession`; `BackToMaintenance`
  and a second `PrepareRun` leave nodes and axes as they are and are no step.
- `ServoAxis::SetEnable` stores a flag nothing reads and is left out.

### Logger

Sections under `queue_mutex_` are short and are one step each; the worker holds
`sink_mutex_` through output, callback and flush, so its place says whether the
mutex is taken. Levels are left out: a record passes every sink that is on. A
client thread owns one master. `~Logger` may start at any time; once it has
returned the process is over.

### PdoReading

A reading is a position: the direction, the table (assignment or mapping), the
loop variable, the count the slave reported and the PDOs still to read.
`AfterRead` moves it by one upload. Counts are words with `WordSize` values; what is
read is left out. `for (uint8_t i = 1; i <= count; ++i)` has no end when the
count is the largest word: `Endless` is that case.

### ActivityScheduler, CyclicRunner, CyclicActivities

`pc[t]` is where thread `t` is in `Execute`: `created` before
`running_.exchange`, `taken` and `stable` before the two reads `CanStart` makes
(the override, then the controller's state), `body` while it transfers,
`returned` before `running_` is cleared, `failed` before the policy. `job[t]`
counts the transfers that are left. `operation` is the facade's operation in
progress, from its first callback to its second; `dangling` are the threads
whose activity refers to a destroyed node; `unresolved` is a history.

`CyclicRunner` has the flag (`cycling`), the thread and its place (`loop`) and
an owner that waits in `join` (`stopping`). `CyclicActivities` gives both
modules an owner, who keeps what `docs/others/主站状态设计方案.md` asks for
("Stop 等待活动"): it operates the master only with the runner stopped, requests
of a fault or an emergency stop excepted, and from a callback it does no more
than execute an activity. The library does not enforce these rules; without
them nodes are destroyed under an activity and `state_` is a data race.

### CommandLine

`pc` follows the main thread through `main` and `Run`. A waiting line is
`"stop"` or `"any"`, one of the other commands, chosen when it is read. A pipe
fills the buffer of `std::cin` with all it has, a terminal with one line and
never with part of one; the input is chosen once. `Menu` is what each state's
handler takes; an SDO command visits one slave after the other. Signals
before the handler is registered kill the process and are not steps. An error
of `poll` other than an interruption is left out, `pdo` with an id without a
slave reads like a slave that does not answer.

## Runs

| Run | Shows |
|---|---|
| `controller_any` | 3 slaves with any behaviour: types and retry bound, no slave above the reported state, image complete when ready, image before SAFE_OP, nothing held when uninitialized, entry only after looking at every slave, refinement of `MasterLifecycle` |
| `controller_live` | 2 slaves, one of which accepts every legal request, fair steps: operations return; no exchange on a closed context; a shutdown leaves the obedient slave at rest, whatever the other does |
| `facade` | `Service`, `Stop` and both requests from any callback, 3 deep: valid published states, the listener is in sync, bounded detection of drops, no exchange inside a transition |
| `facade_state_listener` | violation: `on_state_changed` misses the operations |
| `stats_exact` | no late cycle is missed by the maximum, no short one since the last interval of 0 by the minimum; mismatch run, bias of the average |
| `stats_extremes` | violation: the pause between two sessions is reported as a cycle time |
| `stats_wrap` | violation: division by zero at the wrap |
| `process_image` | a drive gets current values of its own axis even behind a node that overruns its slave; only such a node puts foreign bytes into a slave, and only where that slave's node writes nothing; feedback is the last measurement through lost frames |
| `logger` | order, drained queue, no call into a dead master; records are written and the destructor returns unless a callback logs |
| `activities` | two threads: exclusion, where activities run, references to nodes, a failed parameter, the runner's thread; `Execute` and the runner's `Stop` return but for the endless reading |
| `cli` | released at the end; a stop is obeyed but for lines stranded in the buffer and an endless dump; Operational is serviced but for an unfinished line and `loglevel`; the end of the input and a signal end the program with the same exceptions |
| `cli_restart` | violation: after a stop no command is handled |

### Bounds

- Three slaves: one that refuses, one that hides behind it and one that moves
  meanwhile. The proofs cover every number. Two suffice for shutdown and
  liveness, where slaves do not influence each other beyond slot 0.
- `MaxRetries` 3 is the code's default.
- `controller_any` expects identities for two positions, so a third slave or a
  missing one shifts them; `controller_live` expects exactly two slaves and has
  one that obeys and one that does not.
- Nesting 3: an operation in a callback of an operation in a callback. The
  innermost return restores what the middle one did; deeper nests repeat it.
- The callbacks may call `Service`, `Stop` and the two requests: these act
  in (nearly) every state and so reach every nesting; an operation the
  controller refuses changes nothing, one it allows acts as at the top level.
- `Interval` 3 and `Period` 2, coprime so that every phase of the throttle
  against the main loop occurs.
- Six cycles of 0, 2, 8 or 13 us and a gap of 40 us: several sessions with several
  intervals each, an interval of 0 before, between and after others. Words of 65536 values keep the exact run below the wrap;
  `stats_wrap` has 8 values and 9 cycles to reach it.
- Three buses: two drives of the assumed size; a drive with a smaller PDO, then
  a terminal with more outputs than its node writes, then a drive; a coupler
  and an input terminal without outputs before a drive. One target value set
  twice in a behaviour makes every mixture of old and new values of two entries,
  two readings every mixture of two frames. 48 bytes of map hold each bus with
  the longest overrun.
- Two threads with one record each in `logger`: two masters compete for the
  callback, a batch can hold both records or meet the second one later.
- Two threads in `activities`, the owner's and the runner's, with every kind of
  activity; both may call `Execute` again and again. Counts have four values: an
  empty table, one entry, two, and the largest one (counts 0, 1 and 3 in `cli`).
- Three waiting lines in `cli`: a pipe can deliver three at once, of which two
  are stranded, or a stop behind two others. What is typed has no other bound.
  Two slaves: one after another in an SDO command, or the second one alone.

### Fairness

- `EcatController!FairSpec`: weak fairness of `Running`. SOEM calls have
  time-outs (`EC_TIMEOUTSTATE`, `EC_TIMEOUTRET`), so a running operation goes
  on. Nothing is assumed of the caller or of the slaves.
- `Logger!FairSpec`: the worker, the destructor and a thread that has queued a
  record are scheduled. No mutex is held for ever by others, so weak fairness
  is enough. A callback that logs locks `sink_mutex_` a second time in the thread
  that holds it (`worker = "selflock"`): `RecordsHandled` and `ExitEnds` name
  that state as the exception, the safety properties do not need it.
- `CyclicActivities!FairSpec`: both threads are scheduled, each SDO transfer has
  a timeout, callbacks return. Nothing is assumed of what the owner calls.
- `CommandLine!FairSpec`: the process is scheduled. A `getline` that waits is not
  enabled, so nothing makes anybody type.

Deadlock checking is off for `CyclicStats` (the bound on cycles, a halted
process), `Logger` and `CommandLine` (the process ends).

## Proofs

TLAPS proves every safety property of every passing run, as a theorem about all
values of the constants. The assumptions are the named ones of the modules,
which TLC evaluates in each run; where a theorem needs more of the application
it says so in its ASSUME:

| Theorem | Assumes besides | Why that is fair |
|---|---|---|
| `NoClosedTraffic` | `~FaultWhileClosed` | the application asks for a fault only after `InitializeAdapter`; otherwise `Stop` does request INIT on a closed context |
| `QuietTransitions` | `FromCallback \subseteq Reactions` | the design document forbids blocking calls from callbacks (`src/docs/design/核心库与Qt_GUI分离设计.md:355`); see below |
| `LateCyclesAreSeen`, `ShortCyclesAreSeen` | every cycle time is less than `WordSize` | 71 minutes of 32-bit microseconds; nothing is assumed of the pauses |

In each module an invariant adds to the properties what makes them inductive,
and the proof takes the actions one by one.

`EcatControllerProofs`, for every finite set of slaves, every identity and
configuration and every `MaxRetries`:

    IInv == TypeOK /\ PcMatchesState /\ BuiltSoFar
            /\ SlavesBelowController /\ ReleasedWhenUninitialized

`SlavesBelowController` alone is not inductive: whether a step may raise a
slave depends on where the operation is, so `PcMatchesState` ties each `pc` to
the states it occurs in, and `BuiltSoFar` says how much of the session (slaves,
nodes, map, clocks) exists at each step. `AnswerIsWord` and
`BroadcastIsBounded` bound what a request does to a slave, `RoundIsBounded`
what a retry round does: a slave ends where it was, in PRE_OP, or in the state
of some scanned slave, so a bound on the scanned slaves is kept. The lemmas
`TypeStep`, `ControlStep` and `CeilingStep` take one part of the invariant
each, action by action. `EntryIsChecked` and `Refinement` then follow from the
invariant step by step. `ShutdownRests` adds `RestedSoFar`: the obedient slaves
are still in PRE_OP or below wherever a shutdown takes the short way, and the
long way's INIT request is legal from every state and with the error bit
(`InitIsAlwaysLegal`). `NoClosedTraffic` adds that closed means Uninitialized,
so that every operation but `InitializeAdapter` is refused.

`MoEcatMasterProofs`, for any interval, period, depth of nesting and operations
in callbacks: the override is never a stable state and stands only while some
operation is in its first callback (`Structure`); whoever changes the runtime
state publishes it before anything else can run, except inside
`on_state_changed` (`Heard`); a drop is no older than the last slave check
unless the next one is due, and then the main loop has not come round yet
(`Clock`). `QuietTransitions` adds `Leaving`. It needs the assumption because
`EndRuntimeTransition` of an operation called in a callback resets the
override of the operation around it: a bring-up nested in an announced
operation reaches Operational, and a `Service` there exchanges process data.

`CyclicStatsProofs`, for words of any size, any intervals and any number of
cycles: `CountsCycles` shows that the cycle counter is exact, because the
division by zero ends the process where it would wrap; the length of the
trailing run is kept with the mismatch that ended the one before
(`RunIsCounted`); the average times the number of the next cycle stays below
the sum (`AverageBelow`), since a quotient times its divisor does not exceed
the dividend. For the extremes, `MaximumGrows` and `MinimumShrinks` say what one
more interval, cut to a word, does to a bound on all of them, pauses included;
that every other interval is a cycle time (`CyclesAreElapsed`), which a word
can hold, turns the bounds into the theorems.

`LoggerProofs`, for any clients, masters and number of records: the records are
in one line, `handled`, `batch`, `queue`, which every step only cuts elsewhere
or makes longer at its end; and while the worker holds `sink_mutex_` nobody
changes the sinks or destroys the master they lead to.

`ProcessImageProofs`, for any buses and windows, targets and measurements:
`OutputsDone` says what the nodes that have had their turn have put into the
map and that later nodes, whose windows lie behind, do not write there;
`RawIsCurrent` says it of the entries of the axis that is being encoded, whose
targets may change meanwhile (`held` keeps the values each one had since the
last cycle). `InputsKept` carries the inputs through lost frames and through
output copies, which stay in their windows when every buffer fits, and
`FeedbackDone` carries the feedback through the updates of the other nodes. The windows' order comes from `WindowsAssumption`,
the sizes of the mapping from `Layout`.

`PdoReadingProofs`: a reading is a point of a lexicographic order (direction,
table, PDOs left, loop variable), and `UploadMovesOn` shows that each upload
leaves a valid reading that is `Later`, unless the loop is `Endless`. Hence
every reading whose counts are below the largest one ends: the safety half of
`ExecuteReturns` and of the exception in `StopIsObeyed`.

`CyclicActivitiesProofs`, for any counts: its invariant adds to the five
properties that a stopped runner has no thread, that the runner's thread is
inside an activity only while its task is inside a call (`RunnerInv`), and that
an operation other than a request is under way only with the runner stopped
(`OwnersRules`): so an operation that may destroy nodes or leave a fault finds
nobody in `Execute` (`Alone`, `OperationEffect`). `Moves` and `ActivityStepIInv`
deal with the steps of `Execute`. Its types rest on `TypeInv`: a job under way
has a transfer left and its reading is not finished, so nothing is counted
below zero; `UploadsEnd` applies `UploadMovesOn` to the activities of all
threads.

`CommandLineProofs`, for any number of slaves and any bound on the waiting
lines: Uninitialized means released, and the program begins and is over only
there (`DispatchReleases` is the fact about the controller it rests on). In
`TypeInv` a line that was begun keeps its place in the buffers, so that the end
of the input can complete it; `DumpsEnd` applies `UploadMovesOn` to
`DumpPdoMapping`.

Only model-checked: liveness (`OperationsReturn`, `RecordsHandled`, `ExitEnds`,
`ExecuteReturns`, `StopReturns`, `StopIsObeyed`, `ServicedWhileOperational`,
`ExitIsHonoured`), which is out of the prover's reach. The violation runs are
counterexamples and need no proof.

## Findings

The four violation runs are disagreements between the code and what its
documents or comments say; `PROJECT.json` quotes both.

1. `on_state_changed` is not called for the operations' transitions.
2. The average divides by zero when the cycle counter wraps (49.7 days, 1 ms).
3. After a stop the CLI handles no command, where its manual says to go on with
   `scan`.
4. The pause between two sessions is measured as a cycle and enters the minimum
   and maximum cycle time, where the maximum keeps it.

Other disagreements are visible in the models, and properties name them as the
case in which they do not hold or state what the code does instead:

- The average cycle time counts a first cycle without an interval, so it can be
  below the minimum (`AverageNotAboveMean`).
- A measured interval of 0 us is the minimum until the next interval and then
  forgotten, with every cycle before it (`NoShortCycleHidden`).
- `Log` waits for the mutex that the worker holds during output.
- A count of 255 in a PDO table makes `PdoMappingActivity` and `DumpPdoMapping`
  read for as long as the slave answers (`Endless`).
- `StdinCommandReader` leaves lines in the buffer of `std::cin` (`Stranded`) and
  waits for the end of a line (`Blocked`), signals or not.
- `param` of the CLI neither reads back nor leads to Fault when a write fails,
  as its manual says; `SdoParameterActivity` does both.

## Not modelled, and why

- The queries of `MoEcatMaster` change no state; `ToDisplayString`, log
  formatting, log levels, slave tables: layout.
- Priority, affinity and the cycle time of `CyclicRunner`: scheduling.
- `kShutdown` of the scheduler: no activity has this policy.
- SOEM is not in the tree; its calls are modelled from how `src/` uses them.
- Concurrent callers of one `MoEcatMaster`: the documents state one thread.

## Plan

1. An abstract specification of a cycle, one current command per axis, that
   `ProcessImage` implements.
2. Log levels and `SetLogFile` in `Logger`.
3. The proof of that implementation, and of the extended `Logger`.
