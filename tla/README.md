# TLA+ models of the cepheus power HALs

This directory holds TLA+ specifications of the stateful parts of
`device_xiaomi_cepheus`, together with the TLC configurations that check them.
`PROJECT.json` lists the following:

* the components;
* the runs;
* the mutants;
* the map from each definition to the source lines it models;
* the findings;
* the hazards.

## The system

| Part | Source | Role |
|---|---|---|
| libperfmgr `HintManager` | `src/power-libperfmgr/libperfmgr/HintManager.cc` | Maps a power hint to two kinds of action. A node action writes value index *i* to a sysfs node or property for *t* ms. A hint action is a `DoHint`, `EndHint` or `MaskHint` of another hint. It also keeps per-hint stats. |
| libperfmgr config parser | `HintManager.cc` 257-565 | `GetFromJSON`, `ParseNodes` and `ParseActions` turn the JSON config into nodes and hints. |
| libperfmgr `NodeLooperThread` / `Node` | not in this repository (spec.md 4.1, 4.2) | Holds the pending requests per node, arbitrates between them, writes the winner, and expires timed requests on its own thread. |
| Power HAL 1.3 | `src/power/Power.cpp`, `service.cpp` | HIDL glue: every call is a no-op except `setFeature(DOUBLE_TAP_TO_WAKE)`, which writes one input event to the touchscreen. Not modelled. |
| PowerStats HIDL service | `src/powerstats/service.cpp`, `libpixelpowerstats/PowerStats.cpp` | Power entities, state-residency providers, rails and debug dumps behind the HIDL interface. |
| `RailDataProvider` | `src/powerstats/RailDataProvider.cpp` | Parses the ODPM (on-device power monitor) IIO nodes. It answers rail queries and streams energy samples over an FMQ (fast message queue) from a detached poll thread. |
| State-residency providers | `libpixelpowerstats/*`, `libpowerstats/dataproviders/*` | The Generic (sysfs text), Display (a poll thread), Pixel and Aidl (binder callbacks) providers, and the Wlan, Gpu, Oslo and Iaxxx providers. |
| PowerStats AIDL service | `libpowerstats/PowerStatsAidl.cpp`, `dataproviders/IioEnergyMeterDataProvider.cpp`, `IioEnergyMeterDataSelector.cpp`, `PowerStatsEnergyConsumer.cpp`, `PowerStatsEnergyAttribution.cpp` | Entities and providers, the IIO energy meter with its rail selector, and energy consumers. A consumer's energy is computed from the meter and from state residencies. An attribution consumer splits its meter energy among uids by their time in state in `/proc/uid_time_in_state`. |

How the parts interact:

* HAL threads call `HintManager::DoHint` and `EndHint` concurrently.
* Each call does these steps in order:
  1. it reads the hint's `enabled` flag without a lock;
  2. it calls the scheduler's `Request` or `Cancel`, under the scheduler's lock;
  3. it updates the hint's status, under the status mutex;
  4. it runs the hint actions, which may call back into `HintManager` recursively.
* The looper thread expires requests on its own.
* The PowerStats services ask each provider for its residencies under their own binder threads. Meanwhile:
  * the Display provider's poll thread updates its stats;
  * binder clients register callbacks, unregister them and die;
  * the rail poll thread streams samples to one reader.
* The AIDL service's energy consumers read the IIO meter and the state-residency providers within the `getEnergyConsumed` call. The meter reparses every device's `energy_value` file under its lock on each read, into readings it keeps between calls.

## Modules

### libperfmgr

* **`NodeLooper.tla`** models the scheduler. It is modelled from spec.md and marked `spec_modelled`, because its source is absent.
  * State:
    * `pending[n]`: the requests on node *n*, each an owner, a value index and an expiry;
    * `cur[n]`: the index last written;
    * `now`: the clock;
    * `running`: whether the looper has started.
  * Arbitration (`Winner`): the furthest expiry wins, a request with timeout 0 beats every finite one, and ties go to the latest insertion.
  * `Insert`: a re-request replaces the owner's entry and never shortens its expiry.
  * `RequestNodes` and `CancelNodes` are the synchronous actuation.
  * `Expire` is the looper thread's step.
* **`HintManager.tla`** (`EXTENDS NodeLooper`) models `HintManager.cc`.
  * Each HAL thread (`Callers`) has a stack of frames, one per C++ call in progress.
  * `DoHint` is split into the atomic pieces the code has, in its order:
    * `DoRejected` / `DoValidated`: the unlocked `enabled` check;
    * `DoRequest`: `nm_->Request`, with the timeout-override copy of the actions;
    * `DoStatus`: `DoHintStatus`;
    * `DoHintAction`: one hint action per step. A nested call pushes a frame, and `MaskHint` clears `enabled`;
    * `DoReturn`.
  * `EndHint` is split into `EndRejected`, `EndCancel`, `EndStatus` and `EndAction` (which unmasks).
  * `count`, `duration`, `startTime` and `endTime` are the `HintStatus` fields.
  * `lastSched` is a ghost variable: the last scheduler call made for each hint.
* **`MCHintManager.tla`** instantiates the model for TLC.
  * It has two nodes with three value indices, as in the test fixture.
  * `LAUNCH` and `INTERACTION` contend for both nodes (HintManagerTest.cc 145-157, with ms scaled to ticks).
  * `MASK_LAUNCH` masks `LAUNCH`.
  * `CHAIN` does `LAUNCH` and ends `INTERACTION`.
* **`HintConfig.tla`** models the loader.
  * A JSON document is abstracted to what jsoncpp hands the parser: whether it could be read and parsed, and the `Nodes` and `Actions` arrays. A member that is absent or of the wrong type is `None`.
  * `ParseNodes` and `ParseActions` are RECURSIVE operators with every early return of the code, in its order.
  * `GetFromJSON` is the pure loader. The specification is the single start-up `Load`.
  * `ConfigMatchesContract` compares the loader with a reference definition of the well-formed configurations (`WellFormed`, `RefNodes`, `RefHints`).
  * **`MCHintConfig.tla`** enumerates every document of up to two nodes and two actions drawn from valid and malformed members.

### PowerStats

* **`RailParse.tla`**: the constructor's parsers (`findIioPowerMonitorNodes`, `parsePowerRails`, `parseIioEnergyNode(s)`) as operators over abstract directory listings and lines.
* **`RailStream.tla`** models the rail service and its stream.
  * Its actions are `getRailInfo`, `getEnergyData` and `streamEnergyData`.
  * Every step of the poll thread is an action of its own:
    * the division by the sampling rate;
    * lock and parse;
    * `writeBlocking` with its 1 s timeout;
    * `usleep`;
    * the final reset of `fmqSynchronized`.
  * It also has a client that reads its queue at will, and a process restart after the SIGFPE of a zero rate.
* **`DisplayResidency.tla`** models `DisplayStateResidencyDataProvider`.
  * The constructor is modelled.
  * The poll loop wakes on a display change, and `updateStats` is two actions: the clock read, then the locked update.
  * `getStateResidencies` reports the stored totals plus the open interval of the current state (`Report`).
* **`AidlResidency.tla`**: the Aidl provider. Its actions are `addEntity`, `registerCallback`, `unregisterCallback`, `binderDied` and `getResults` with `buildResult`, with client death and calls in flight.
* **`PixelResidency.tla`**: the Pixel provider. It has `registerCallback`, `unregisterCallback` and `getStateResidencies`, with client death and a process restart after a crash.
* **`GenericParse.tla`**: the Generic provider's parser (`findNext`, `parseState`, `getStateData`, `getResults`) as RECURSIVE operators over abstract lines.
* **`PowerStatsHidl.tla`** composes the HIDL service.
  * `main`'s setup runs as steps: `addPowerEntity`, `addStateResidencyDataProvider` (the first provider wins, as with `emplace`) and `setRailDataProvider`.
  * The HIDL calls are actions: `getPowerEntityInfo`, `getPowerEntityStateInfo`, and `getPowerEntityStateResidencyData` with its per-id loop and its status precedence.
  * `debug` is an action, with the dump's static delta baselines.
  * The Aidl provider is an `INSTANCE`, with its clients acting meanwhile.
  * Every file read or ioctl of the other providers may succeed, fail or stop part way.
* **`IioMeter.tla`**: the IIO energy meter. Files are abstracted to what the parsers tell apart:
  * a directory entry is an `iio:device` or not, and its name file is the set of `kDeviceNames` it contains, or unreadable;
  * an `enabled_rails` line is a rail and subsystem, or malformed;
  * an `odpm_config` line is blank, a `[device]` header, or a config line;
  * an `energy_value` file is summarised by the index of its first line that does not parse.

  It has the following parts:
  * `Construct` is the constructor: `findIioEnergyMeterNodes`, the selector (`parseConfigData` as a fold of `ConfigLine` with `emplace`, `applyConfigToDevices`, `sendConfigurationComplete`), `parseEnabledRails` and the sizing of `mReading`. Every iteration order of the `unordered_map` of devices is a choice.
  * `ReadEnergyMeter` is the locked read: `parseEnergyValue` per device until one fails, then the reply. The readings a failed parse already applied stay in `mReading`.
* **`AidlGeneric.tla`**: the AIDL `GenericStateResidencyDataProvider` (`libpowerstats/dataproviders/`). It is the libpixelpowerstats parser of `GenericParse.tla` with another result shape, so it is a module of its own. A file line is a header, a line with one stat's prefix and its value, or another line.
  * `ParseStateLoop`, `FindNextIndex`, `StateDataLoop` and `EntitiesLoop` are RECURSIVE operators that follow `parseState`, `findNextIndex`, `getStateData` and `getStateResidencies` line by line. The results list each state in the order it was read, with its id and its count, time and last-entry stats.
  * An entity is emplaced as soon as it is read, and the loop stops at the first entity it cannot find or read.
  * A reference reading by sections (`SectionData`, `SectionRead`) says what a well-formed file holds, without following the scan.
* **`EnergyAttribution.tla`**: the attribution consumer as operators.
  * `GetAttributionStats` is `getAttributionStats` with `readUidTimeInState`. `/proc/uid_time_in_state` is a header of state names and, per uid, its cumulative time in each state.
  * `AddAttribution` is `addAttribution`: it maps each coefficient's state name to its position in the header.
  * `Attribute` is the attribution branch of `getEnergyConsumed`, with these steps:
    * each uid's weighted time since the snapshot (`UidEnergy`, `DeltaTime`);
    * the share of the meter energy since `mTotalEnergySS`, computed in float and cast toward zero, on top of the uid's earlier energy (`Attributed`);
    * the new snapshots `mUidTimeInStateSS`, `mUidEnergySS` and `mTotalEnergySS` (`AttributionOf`).

  `powerScale` and each share are computed in a model of 32-bit float arithmetic. A float is a pair `[m, e]` worth m·2^e, with m reduced to an odd number so that products stay within TLC's integers. `ToFloat` rounds an integer to 24 significant bits, `FDiv` and `FMul` round the exact quotient or product to nearest, ties to even, and `FTrunc` is the `(int64_t)` cast toward zero (`PowerScale`, `SharesAt`).
* **`PowerStatsAidl.tla`** composes the AIDL service with `Disp == INSTANCE DisplayResidency`, `Pixel == INSTANCE PixelResidency`, `Gen == INSTANCE AidlGeneric` and `Meter == INSTANCE IioMeter`.
  * Setup runs as steps, in the order of the `Setup` constant:
    * `addStateResidencyDataProvider`, which numbers entities across providers;
    * `setEnergyMeterDataProvider`, which constructs the meter;
    * `addEnergyConsumer` with `createMeterAndEntityConsumer` or `createMeterAndAttrConsumer`. A consumer whose channels, entity or uid states are missing is dropped as nullptr.
  * Every provider's answer is a vector of `StateResidency` records. The Generic provider's file is chosen once per binder call from `GenericFiles`, and both of its reads in one call see that content. Its answers per content depend only on constants, so `GenericMaps` computes them once.
  * `getStateResidency` (`StateResidency`) is a RECURSIVE loop over the requested ids. It calls each provider at most once per request and merges its map as `std::unordered_map::merge` does.
  * `getEnergyConsumed` (`EnergyConsumed`) has two parts:
    * the meter part reads the consumer's channels through `readEnergyMeter`. The outcome of each device's `energy_value` file is chosen once per binder call, and `mReading` is threaded through the consumers;
    * the entity part is the consumer's coefficients times the state residencies;
    * for an attribution consumer (`AttrResult`), `uid_time_in_state` is read instead and the energy is split among the uids with `Attr!Attribute`. The consumer's snapshots are threaded through the loop, so a call that returns `EX_ILLEGAL_ARGUMENT` at a later id keeps the snapshots of the consumers before it.
  * `/proc/uid_time_in_state` is `UidFileAt(now)`, a constant function of the boot clock, as the meter's `energy_value` is (`DevEnergy`). The kernel's accounting then adds no interleaving of its own: a free kernel step multiplied the composed run's states by seven. `MCUidFileAt` has root and an app at boot, then both running, then the app uninstalled and a new app, with a new uid, running. The passing run's clock stops at 1, so it uses `MCUidFileShort`, the same history without its middle step.
  * `readEnergyMeter` is also a binder call of its own (`ReadEnergyMeterCall`).
  * The provider threads run meanwhile: the Display poll thread, and Pixel clients that send, die, register and unregister.
  * A crash (the out-of-bounds read, or the Pixel null dereference) restarts the whole HAL. The service, the Display provider and the Pixel registrations start again, while the boot clock and the clients carry on.
* The `MC*.tla` modules give each model its constants: model values for entities, rails, clients and hints, and small sequences for boards, files, setups and requests.

## Runs

Each run is in `PROJECT.json`, with what it shows.

Passing runs:

* **`seq`**: one HAL thread makes 3 calls to any hint, with and without a timeout override of 1 tick. Any node write may fail (`WriteCanFail = TRUE`). Expiries and ticks are interleaved (`MaxTime = 3`, `MaxTimeout = 2`). It checks:
  * `TypeOK`;
  * `MaskReflectsMaskers`: once the calls have returned, a hint is masked exactly when one of its maskers was last done (a `Request` that succeeded) and not ended (a `Cancel` that succeeded) since. A failed `Request` returns before the mask, and a failed `Cancel` returns before the unmask. The configuration has one masking hint, as cepheus' `powerhint.json` does. With two, the first `EndHint` unmasks the target while the other is still in force, which `spec.md` describes. The header's single-writer contract for `enabled` (`HintManager.h` 70-72) rules out concurrent masking calls, so the run has one HAL thread.
* **`config`**: `ConfigMatchesContract` over every bounded document. `GetFromJSON` returns a manager exactly for a well-formed configuration, with the tables it describes, and nullptr otherwise. This holds even for a file that fails after elements that parsed.
* **`display`**: the poll thread and readers interleave freely. It checks `AccountingConserved`: every moment since the first state is counted once, in the closed totals or the open interval.
* **`rail`**: HIDL calls, stream requests, poll threads, queue reads and crash restarts interleave freely. It checks:
  * `OneStreamAtATime`: a running poll thread owns `fmqSynchronized`;
  * `StreamReleased` (liveness): every stream is eventually released;
  * `RailIndicesDense`: rail indices are dense on boards with distinct rail names.
* **`hidl`**: the HIDL service with Citadel's client registering, unregistering and dying. It checks `ResidencyReplyHonest`: a reply says `SUCCESS` only with one result per id asked for.
* **`powerstats`** (22k states, about 1.5 minutes; the clock runs to 1): the AIDL service with the Pixel (one entry), Display and Generic providers, six consumers (one of them dropped as nullptr, one on a Generic entity, one attributing the CPU rail's energy to uids by their time at `f1`) and an IIO meter of two devices. The Generic provider has an entity whose state has no header and an entity with two generated state configs. It reads one of five file contents:
  * a complete file;
  * one with the second entity first, its states swapped, and the first entity cut off before its time line;
  * one with the second entity's second state missing, before a complete first entity;
  * one in which the first entity's block lacks its time line;
  * one that cannot be opened.

  A call reads the file only when it asks for a Generic entity (`FilesFor`). The meter's inputs are as follows:
  * one device's name file holds both device names;
  * three other entries are not meters;
  * a malformed `enabled_rails` line;
  * a rail (CPU) that both devices report;
  * an `odpm_config` with a line before any header, a blank line, a section for an absent device and a second section for the same device;
  * an `energy_value` read that fails on its third line.

  It checks:
  * `SelectorWritesSections`: each meter device is sent exactly the lines of its first config section, then `CONFIG_COMPLETE`;
  * `ResidencyMatchesProviders`: `getStateResidency` answers with what each requested entity's provider reports. A Generic entity is answered exactly when its section of the file, and every section before it, is complete. Its answer is the reference reading of its section: states in file order, with the stats of their blocks. This is stated for well-formed files (`WellFormed`): every state block has all its stat lines, unless it is the last block of a file cut short;
  * `MeterReplyFresh`: a `readEnergyMeter` reply with measurements gives each requested channel this call's time and the energy of the rail's last occurrence among the devices, and never a reading left over from a failed call;
  * `EnergyMatchesFormula`: while the meter's files parse, every `getEnergyConsumed` reply is the meter energy of the consumer's channels plus Σ coefficient × time in state, as `PowerStatsEnergyConsumer.h` documents;
  * all of them hold across display changes, Pixel client churn and a HAL restart.

  Every `MCView` state leaves out `reply`, which no action reads. TLC still checks the action properties on every transition it generates. The action properties recognise their binder call by `reply'.op`, which only that call sets. Naming the action instead would make TLC evaluate it again on every transition.

  Without the `WellFormed` guard, TLC finds `ResidencyMatchesProviders` violated on the file whose first block lacks its time line. `parseState` completes the block from the next state's lines, consuming SoC's header, and reports APSS with SoC's aosd count and no SoC. The hazard at `GenericStateResidencyDataProvider.cpp` 64 records it.

Violation runs. Each shows a disagreement met while modelling (see `findings`):

* **`duration`**: `duration_ms` counts a closed window twice when `DoHint` follows `EndHint`.
* **`display_monotonic`**: a read between `updateStats`' clock read and its locked update reports more time than is later recorded.
* **`aidl_restart`**: a restarted client that registers before the old binder's death is handled is ignored by `emplace`, yet `registerCallback` returns ok.
* **`pixel_nullderef`**: `unregisterCallback` dereferences the null callback of an unregistered entry.
* **`powerstats_meter`** (`AttributionWithinEnergy`): `readEnergyMeter` returns ok with no measurement when an `energy_value` file fails to parse. A meter consumer then gets a result with 0 for its meter part, where `getEnergyConsumed` gives no result when the read fails. For an attribution consumer, the call also sets `mTotalEnergySS` to 0 while the uids keep their energy, with these effects:
  * the reply attributes more to the uids than the consumer's energy;
  * by line 193, the next good read would hand the whole cumulative energy out a second time.

  TLC's trace is: a call that gives root 2, then a call during which `p1`'s `energy_value` fails. The trace ends there, so the second hand-out is inferred from the code, not shown.
* **`powerstats_float`** (`AttributionShareBounded`): in every `getEnergyConsumed` reply, what the uids gain over the attribution consumer's `mUidEnergySS` is, in magnitude, at most the difference between its meter energy and `mTotalEnergySS`. The run uses a device whose energy grows by 100000007 per tick, and every read parses. The float `powerScale` rounds that delta to 100000008 before dividing. Two uids of weight 2 each get 50000004, one more in all than the meter read. Truncating each share cannot make up for a delta that was rounded up.

`RailStream.tla` also states `SamplesCounted`. With `INVARIANT SamplesCounted` added to `MCRailStream.cfg`, TLC shows that a sample dropped by a `writeBlocking` timeout is still counted. No run keeps it; the hazard at `RailDataProvider.cpp` 277 says so.

### Bounds

* The clocks run to 2–4 ticks, with timeouts of 0–2 ticks. That is enough for a request to be made, replaced, expired and cancelled, and for a window to open, close and reopen.
* There are 2–4 client calls.
* The composed `powerstats` run has the following bounds:
  * one Pixel client with 1 call, and one Pixel entry (two entries and two Generic iteration orders together took over four minutes);
  * five Generic file contents, and both iteration orders of the Generic provider's `getInfo`;
  * a clock that stops at 1 (the violation runs go to 2);
  * one display update;
  * two display states;
  * one crash.

  * two meter devices, both iteration orders, and a partial read failure of one device.

  Every request shape still occurs in it: an empty request, an invalid id, a failed consumer, and an entity consumer. Two clients took six minutes, so the two-client interleavings of the Pixel provider are left to `pixel_nullderef`. The second Pixel call is left to `hidl` and `pixel_nullderef`: with the meter it took the run past four minutes.

Each property of a passing run has a mutant in `PROJECT.json`: a plausible bug in the modelled code that TLC then catches. Examples:

* a re-request appended instead of replaced;
* `EndHintAction` that does not unmask;
* the open interval subtracted the wrong way round;
* `DefaultIndex` checked off by one;
* only the first provider of a request called;
* entity ids numbered per provider;
* `findNextIndex` without its shortcut for a config without a header;
* a config section not cleared at the next header;
* a rail line that does not parse ending the parse without an error.

## Fairness

* In `HintManager`, only the looper's `Expire` step is weakly fair. The C++ thread sleeps until the earliest expiry and then runs unconditionally.
* In `RailStream`, each poll thread's step is weakly fair, because the detached thread loops until it stops.
* HAL threads and binder clients call only when the framework or a client sends a request, so no caller step is fair.

## Not modelled, and why

* **The Power HAL 1.3 glue** (`Power.cpp`, `service.cpp`). Every method returns at once except `setFeature(DOUBLE_TAP_TO_WAKE)`. That call scans `/dev/input` for the `fts` device, writes one `SYN_CONFIG` event, and closes the descriptor. The service keeps no state between calls and registers once on one HIDL thread. No property distinguishes anything there that a model would add.
* **What a failed scheduler call leaves pending** (`HintManager.cc` 153, 181). The `seq` run has failing writes. `spec.md` says the caller then does no further bookkeeping, and the model does the same. No property is stated about what stays pending.
* **`StatusCoversPending`** (each pending request lies inside its hint's stats window): it fails under a timeout override, and is near-trivial without one. The hazard at `HintManager.cc` 97 explains this.
* **The parsing of `/proc/uid_time_in_state`**: a line that does not parse makes `readUidTimeInState` fail. The kernel writes every line, so the file is given as parsed content.
* **Uid reuse.** A uid number reused between two calls gets a negative weight and can be handed the whole meter delta. This breaks no promise the code documents. The hazard at `PowerStatsEnergyConsumer.cpp` 180 records it.
* **The driver behind the selector.** How the ODPM driver answers the selector's writes is outside this repository, so `enabled_rails` is a constant. Failed writes are only logged, so they are not modelled. Timestamps, durations and the truncation of rail names to 50 characters are left out of the `energy_value` abstraction.
* **The out-of-bounds read at `PowerStatsEnergyConsumer.cpp` 210.** The model has it as a crash of `getEnergyConsumed`, but no run is kept for it. It is listed as a hazard.
* **The AIDL Wlan provider** and the **AIDL Generic provider's transforms**: the Wlan provider parses one text file, with the shape of the Generic provider's entity without a header. The transforms are given values in the file abstraction.
* **`dump` of the AIDL service**, the Oslo and Iaxxx providers, and the dump text of every provider. The providers keep no state beyond the outcome of one open or ioctl, which is the Gpu provider's shape.
