# TLA+ models of the camellia vendor HALs

This directory holds TLA+ models of the code under `src/`, the TLC configurations
that check them, and `PROJECT.json`. That file lists the components, the runs,
the mutants and the source lines each definition models.

## The system

| Part | Source | State it keeps | Concurrency |
|---|---|---|---|
| Thermal zone resolver and reader | `thermal/thermal_helper.cpp`, `thermal_map_table*.h` | `tz_data[]` (per sensor type: zone name, up to 5 zone indices), the template tables `tz_data_v1/v2/v3` and their indices, `thermal_zone_num`, `tz_map_version` | binder thread (`fill_temperatures`) and watcher thread (`thermalWatcherCallbackFunc`) with no common lock |
| Thermal watcher | `thermal/thermal_watcher.cpp` | `is_polling_`, `thermal_triggered_`, the flags of `parseMsg`/`parseUevent`, threshold table `kMtkTempThreshold` | its own thread; it calls the helper's callback |
| Severity / thresholds | `thermal_helper.cpp` `getSeverityFromThresholds`, `fill_thresholds` | `kMtkTempThreshold` (updated by the watcher) | binder reads, watcher writes |
| Cooling devices | `init_cl_path`, `is_cooling_path_valided`, `fill_cooling_devices` | `cdata[140].cl_idx`, `cooling_device_num` | binder |
| CPU usage | `fillCpuUsages`, legacy `thermal_hal.c get_cpu_usages` | none between calls | binder |
| Power HAL | `power/Power.cpp` | three hint handles and `mLowPowerEnabled` | binder |
| Vibrator HAL | `aidl/vibrator/Vibrator.cpp` | the haptic node and detached callback threads | binder and callback threads |
| Variant init | `libinit/*.cpp` | the properties it sets | init, sequential |
| Boot region | `bootctrl/boot_region_control.cpp` | the boot LUN or partition | sequential, UFS → ioctl → eMMC fallback |
| Preloader paths | `mtk_plpath_utils/mtk_plpath_utils.cpp` | dm devices, symlinks, the boot partitions' header chain | sequential, one-shot at boot |
| UFS BSG wrapper | `libmtk_bsg/*` | none | not modelled (one ioctl) |

The thermal HAL is the part with shared mutable state and more than one thread.
The current models concentrate there.

## Modules

### `ThermalZoneMap` (with `MC_ThermalZoneMap`)

This module models how the thermal helper resolves sensor types to kernel thermal zones and reads them.

State:
- `zones`: the kernel's zone tree, i.e. the sequence of `thermal_zone<N>/type` names. It is environment state.
- `tmplIdx`: the `tz_idx[0]` field of the template table chosen by `tz_map_version`.
- `tzIdx`, `tzName`, `tzNum`: the `tz_data[]` cache and `thermal_zone_num`.
- `pc`, `arg`, `cur`: where the binder and watcher threads are in their calls.
- `rebuilt` (ghost): an `init_tz_path` has finished since the zone tree last changed.

A reading is abstracted to the set of zone names `get_max_temp` opened. The empty set stands for `INVALID_TEMP`.

Actions:
- `fill_temperatures`, `FillCheck` and `ReadTemperature` model the binder's loop over the types.
- `thermalWatcherCallbackFunc` and `ReadTemperature` model the watcher's read of one notified type.
- `fill_temperatures_1_0`, `Validate10`, `Check10` and `ReadTemperature` model the HIDL 1.0 entry: it walks every type up to `TT_SKIN`, re-validates each one with `is_tz_path_valided` (which may run `init_tz_path`), skips a type whose first zone index is unset, and reads the others.
- `fill_thresholds` and `ThresholdStep` model `fill_thresholds`, one step per type. It never re-validates the cache. It returns a type's thresholds when `thermal_zone<tz_idx[0]>/type` opens. `thresholds` holds what the running call has collected so far: for each type, the name of the zone whose file opened.
- `InitReset`, `InitScan` and `InitCopy` model `init_tz_path`:
  - the reset loop;
  - the `while(1)` scan over zones, which is v1 (last match wins, template never reset) or v2/v3 (first match wins, template reset for `j < TT_MAX` only);
  - `get_tz_map`.

  Each of the three is one atomic step. Either thread may run any of them between the other thread's steps.
- `ZoneTreeChange` is the kernel adding, removing or renumbering zones between HAL calls.

Abstractions:
- The scan loop itself is atomic. Two interleaved scans could only choose between duplicate zones with the same name, and every index they write names a zone of the right name. The properties below cannot tell the two apart.
- Only the first `MaxMulti = 2` of the 5 `tz_idx` slots are kept. No table uses more than 2.
- `strncmp` prefix tests are equality on the names used here, because no table name is a proper prefix of another zone name in the trees.
- The zone tree changes only while both threads are idle. A change in the middle of a call is not modelled.

Properties:
- `TypeOK`: every cached index is -1 or a zone index of some tree.
- `CacheRebuiltCorrectly`: once a rebuild has finished on the current tree and both threads are idle, `tz_data[t].tz_idx[s]` is `RefIdx(t, s)`. `RefIdx` is a reference definition: the first zone named like the `(s+1)`-th template entry that carries `t`'s label. It is written from the labels and does not use `Muti` or `FirstEntry`. The property therefore checks three things together: `get_tz_map`'s `muti` arithmetic, the first-match scan, and the template reset. It must hold under every interleaving of the binder's and the watcher's `init_tz_path`, which share `tz_data` and the template without a common lock.
- `NoMislabelledReading`: a reading reported under the label of type `t` came only from zones whose kernel name is one of `t`'s zone names in the table in use. It is used only as a violation run.
- `NoInvalidReadingReported`: no reported reading is `INVALID_TEMP`. It is used only as a violation run.

On any tree that renumbers zones, readings and thresholds can be mislabelled. This follows from the code paths, not from a rebuild:
- `fill_temperatures(false, type)` re-validates only `type`'s `tz_idx[0]`, then reads every type from the cache.
- `is_tz_path_valided` never checks slot 1 of POWER_AMPLIFIER.
- `fill_thresholds` re-validates nothing.

With `Topologies <- V2RenumberTrees`, TLC finds `NoMislabelledReading` violated, and so does a "thresholds only for own zones" invariant over `thresholds`. These are listed as hazards. No run is kept for them.

Runs (bounds are the zone trees in `MC_ThermalZoneMap`):

| Run | Expect | What it shows |
|---|---|---|
| `zonemap_v2` | pass | v2 device whose tree changes between calls in five ways: the last zone goes, a zone is appended, two zones swap, the PA zones swap with battery moved behind them, or a middle zone goes. Every rebuild that both threads' interleaved `init_tz_path` calls finish leaves the cache a fresh scan of the current tree would give (74,601 states, about 1 minute). |
| `zonemap_v2_insert` | violation | a zone appears before `soc_max`: the reset loop stops at `TT_MAX`, so template entry 10 (NPU) keeps index 0 and NPU reads the new zone. |
| `zonemap_v2_race` | violation | fixed tree, first calls after boot: the watcher's `init_tz_path` clears `tz_idx` between the binder's `tz_idx[0] != -1` test and its read. `read_temperature` still returns true, so -274 °C is reported. |

Why the bounds are enough:
- Each tree has the 4–6 zones the tables name.
- The variants are the changes that distinguish the code paths: the same count with different indices (including slot 1 of a two-zone type), shorter, longer, and an insert at the front (the violation run).
- `soc_max` stays first in the passing run's trees, because moving it is exactly the insert defect.
- The notified types cover a shared zone (CPU/NPU on `soc_max`), a single zone (SKIN) and the two-zone POWER_AMPLIFIER.

No liveness is claimed, so no fairness is assumed.

### `ThermalWatcher` (with `MC_ThermalWatcher`)

This module models the watcher thread's cycle in `threadLoop`:
1. `pollOnce`;
2. a drain of the event source (`parseMsg` on the control socket, `parseUevent` on the uevent socket);
3. the callback.

The environment is the clients and the kernel. They append messages to `inbox` (`Send`), at most `MaxMsgs` in a behaviour. A control-socket message is one connection's buffer, and a uevent is one datagram. Each is a record of type, name, field and value. A name stands for its leading word, so "label prefixes name" is equality.

Actions:
- `PollEvent`: an event is ready.
- `Timeout`: no event, or no event source. The callback runs with the empty set.
- `ParseMsg` / `ParseUevent`: take one message.
- `EndDrain`: accept or recv would block. If no monitored sensor was named, `threadLoop` returns.
- `Callback`: `thermalWatcherCallbackFunc` runs and sets `thermal_triggered_`.

The drain flag `thermal_event` lives across the whole drain, as in the code. `thermal_update` decides nothing once messages are abstracted this way, so it is not kept. `Init` chooses the mode `legacy` from `Modes`: the uevent socket of a legacy zone layout, or the control socket. `Messages[legacy]` is what that source can deliver. `Init` also chooses whether `initThermalWatcher` opened its event source. If it did not, `is_polling_` is set and no message can arrive.

Ghost state:
- `owed`: the labels a taken message asked to be notified of.
- `reported`: whether the last callback carried temperatures.

Fairness: `WF_vars(Watcher)` over the watcher's own steps. It is a dedicated thread at `PRIORITY_HIGHEST` that loops forever, and its poll always has a finite timeout. Senders get no fairness.

Properties:
- `TypeOK`: includes that the callback is only handed names of monitored sensors.
- `NotifyDelivered`: every label a notify or thermal uevent asks for is eventually reported by the callback. A thermal uevent asks for a label when its `NAME=` is the label's legacy zone type (`mtktscpu` for CPU), as in the spec's section 8 test.
- `UpdateApplied`: an action property. A step that takes an update writes its value.
- `NoAbort`: the watcher never ends the process. An update whose text is not a number makes `std::stoi` throw in the watcher thread (`pc = "aborted"`). With an update whose value is `Garbage` added to the socket messages, TLC finds the property violated at once. No run is kept for it, because the unguarded call makes the behaviour plain from the code.
- `DegradedReports`: without an event source, callbacks with temperatures keep coming. With `OpenResults = {FALSE}` TLC finds it violated: the timeout callback passes the empty set, so nothing is ever reported. No run is kept for it.

| Run | Expect | What it shows |
|---|---|---|
| `watcher_update_dropped` | violation | notify then update in one drain: the update takes the notify branch and is never written |

`TypeOK` and `NotifyDelivered` are checked in the `service` run of `ThermalService` (below), where the watcher runs beside a binder thread reading the table it writes.

Why the bounds are enough: three messages are enough for every ordered pair of kinds within a drain, and also for a message arriving after the drain. One monitored label suffices because labels are handled independently. An unmonitored name ("fan", "mtktsbattery") exercises the filter.

### `ThresholdClassify`

This module models `getSeverityFromThresholds` (thermal_helper.cpp 85-101) on a binder thread. The table row `thr` is a variable the module never writes: the watcher writes it, and `ThermalService` composes the two.

State:
- `thr`: `hotThrottlingThresholds` of one type. `NaN` is a model value that no reading meets.
- `pc`, `val`, `i`, `ret`: the call's position, its argument, the loop index and `ret_hot`.

Actions:
- `Classify`: the call starts.
- `Step`: one loop iteration, from `SHUTDOWN` down to 1. It sets `ret_hot` on the first defined threshold that is met.
- `Return`: the call returns.

`Ref` is the reference definition: "the highest severity whose threshold is defined and ≤ v", written over sets and independent of the loop. `ClassifyCorrect` says a returned call agrees with `Ref` on the row.

### `ThermalService` (with `MC_ThermalService`)

This module composes the watcher thread (`W == INSTANCE ThermalWatcher`) with a binder thread in the severity scan (`C == INSTANCE ThresholdClassify WITH thr <- CpuRow, pc <- cpc`). `CpuRow` is the CPU row of `kMtkTempThreshold` as the watcher's `thr` holds it: slots SEVERE .. SHUTDOWN from the watcher, NaN below. Every watcher step can fall between two iterations of the scan, as it can in the code, where neither side locks.

- `WatcherSide(A)`: a step of the watcher or a sender, with the binder's state unchanged. The ghost `changed` records a change of the row while a scan runs.
- `BinderSide`: a step of the scan, with the watcher's state unchanged. A new call clears `changed`.
- Fairness: weak fairness on the watcher's own steps only, as in `ThermalWatcher`. The binder and the senders get none.

Properties:
- `NotifyDelivered` is the watcher's property under the binder's interleaving. It is stated for the control socket only (`~legacy => ...`). With the names the kernel sends, the uevent path never delivers: `parseUevent` compares `NAME=mtktscpu` with the label `CPU`, so nothing is collected and the callback never runs. Without the `~legacy` guard, TLC finds the property violated within one drain. This is a hazard against spec section 8. No run is kept for it.
- `ClassifyCorrect`: a call that no update overlapped returns `Ref` of the row, for every row the watcher's `parseMsg` can produce from the updates clients send.

| Run | Expect | What it shows |
|---|---|---|
| `service` | pass | Both watcher modes, with and without an event source, ≤ 3 messages. Control socket: notify CPU or fan, update SEVERE to 95 (above CRITICAL) or CRITICAL to 95, junk. Uevent socket: thermal uevents for `mtktscpu` and `mtktsbattery`, alongside other-subsystem and oversized datagrams. Readings -274, 84, 86, 95, 150 are classified at every point of the drain. No notify on the control socket is lost, and every scan that no update overlapped is correct (121,505 states). |

No run checks the torn read itself. The model reaches it, and it is listed as a hazard: without the `~changed` clause, TLC finds a scan of 86 that matched SEVERE = 85, then the update raises SEVERE to 95, and the call returns SEVERE.

Why the bounds are enough:
- Three messages are enough for every ordered pair of kinds within a drain, and also for a message arriving after the drain.
- One monitored label suffices, because labels are handled independently. An unmonitored name ("fan", "mtktsbattery") exercises the filter.
- The readings fall below, between, on and above the thresholds before and after each update. The two updates make SEVERE exceed CRITICAL, or make the two equal.

### `CoolingMap` (with `MC_CoolingMap`)

This module models `fill_cooling_devices` (thermal_helper.cpp 408-437). The call first checks the cached mapping with `is_cooling_path_valided` (503-561). If the check fails it re-probes with `init_cl_path` (441-501). It then returns every `cdata` record that has a device.

State:
- `devs`: the kernel's `cooling_device<N>/type` names, with device N as `devs[N+1]`.
- `cur`: each device's `cur_state`.
- `clIdx`, `clValue`, `num`: the `cl_idx` and `value` of each record, and `cooling_device_num`.
- `out`: the last vector returned.

A name is a sequence of tokens, so the code's `strncmp(buf, name, strlen(name))` is `IsPrefix`.

How the probe is modelled:
- The probe is written as operators, not as a loop. A device goes to the first table entry whose name prefixes its type (`FirstEntry`).
- The first-entry rule comes from the code: after a match, `cur_state` is read into the same `buf`, so no later entry can match the state digits.
- An entry keeps the last device it took (`ProbedIdxOf`).

Environment:
- `DeviceTreeChange`: the kernel registers, unregisters or renames devices between calls.
- `CurStateChange`: a device's state changes at any time.

The call is one atomic step. It runs only on the binder thread, and the watcher never touches cooling state.

Properties:
- `ReportedDevicesMatch`: an action property. Every record a call reports names a device that exists now and whose type starts with the record's name.
- `ProbeRevalidates`: an action property. The mapping a call leaves behind passes the next validation on an unchanged, non-empty tree, so probe and validation agree on the count and on the matching rule.

| Run | Expect | What it shows |
|---|---|---|
| `cooling` | pass | both properties hold over six trees: boot, renamed in place, swapped, shrunk, grown, and the `-nr` shadowing (5,876 states) |

Why the bounds are enough:
- The table keeps five records with the two prefix shapes `cdata` has: the longer name first (`abcct_lcmoff`, `abcct`) and the shorter name first (`mtk-cl-mutt00`, `-nr`).
- The trees cover each way validation can fail or pass.

Observed and not kept as a run: renaming device 0 from `abcct` to `abcct_lcmoff` passes validation. The stale `abcct` record is then reported, and the new device is not (see the hazards).

### `CpuUsage` (with `MC_CpuUsage`)

This module models the two CPU-usage readers side by side, over one snapshot of `/sys/devices/system/cpu/possible` and `/proc/stat`. The snapshot is chosen in `Init`.

The two readers:
- `fillCpuUsages` (thermal_helper.cpp 177-296), actions `H*`. It appends an entry for each `cpuN` line. When `getline` ends, it pads with offline entries from `i = size` up to `max_core_num`.
- `get_cpu_usages` (thermal_hal.c 200-320), actions `L*`. It defaults every entry to offline and stores each line at `list[cpuN]`. Called with `list == NULL` (`query`), it returns only the count.

Each `getline` iteration is one step:
- skip a line that is not `cpu[0-9]`;
- reject one where `vals != 5` or `cpu_num >= max_core_num`;
- otherwise append or store it.

A line is a record of its CPU number, the number of fields `sscanf` converts, and the four counters. The conversions are modelled by what they do: `active = user + nice + system` and `total = active + idle`.

Properties:
- `LegacyRefinement`: the refinement property `Contract!Spec`. `Contract` is the abstract module `LegacyCpuUsage`, instantiated with a refinement mapping, and it states what `get_cpu_usages` promises as one atomic `Return`:
  - the CPU count when `list == NULL`;
  - otherwise that count, with `list[n]` describing CPU n: its own counters when `/proc/stat` has its line, offline with zero otherwise;
  - -1 on a bad possible file or a bad `cpuN` line.

  The mapping sets `returned` when `lpc = "done"`. It hides the caller's buffer until a successful return, because the code fills that buffer in place and leaves it half-written on failure.

  The abstract spec is weakly fair on `Return`. So the property also says the `getline` loop ends. The detailed `Spec` has `WF_vars(Hidl)` and `WF_vars(LegacyCall)`, because each reader is a plain function running to completion on the calling thread.
- `SpecOfflineFill`: the spec's rule, "the lines, then the cores beyond the highest index seen as present-but-offline". It is checked only as a violation.

| Run | Expect | What it shows |
|---|---|---|
| `cpuusage` | pass | the legacy reader refines its atomic contract for every set of online CPUs of a four-core device, returning -1 on the malformed line. Also covered: a single-core `"0"` possible file, which `"%*d-%d"` cannot convert, and a twelve-core one (928 states). |
| `cpuusage_offline` | violation | on a four-core device with two CPUs online, `fillCpuUsages` pads with offline entries from index 2 (the number of lines) instead of after the highest CPU seen. With CPUs 0 and 2 online it returns CPU0, CPU2, CPU2 offline, CPU3 offline. With CPUs 0 and 3 online it returns CPU0, CPU3, CPU2 offline, CPU3 offline. Either way one CPU is missing and another is reported twice. TLC may print either trace. |

Why the bounds are enough: the snapshots include every subset of CPUs 1-3 offline, so every gap pattern below the highest online CPU appears. `CHECK_DEADLOCK FALSE` is set because a call ends.

### `PowerHints` (with `MC_PowerHints`)

This module models the Power AIDL HAL's `setMode` and `setBoost` (Power.cpp 114-231).

State:
- HAL: `lowPower` (`mLowPowerEnabled`) and `handle`, the three hint handles.
- libpowerhal: `held`, what each library handle holds, with a ghost owner, and `disabled` (`UserScnDisableAll` in force).

Actions:
- `SetHintMode`: the LAUNCH, EXPENSIVE_RENDERING and SUSTAINED_PERFORMANCE cases. It releases the held handle, and takes a new hint when enabling outside LOW_POWER.
- `SetHintModeGated`: the early `break` in LOW_POWER when no handle is held.
- `SetLowPower`, `SetInteractive`, `SetOtherMode`: the other cases of `setMode`.
- `SetBoost` and `SetBoostGated`: `setBoost`, including the 80 ms default for durations below 1 ms.
- `Expire`: the library ending a hint that has a duration.

Each call is one step. `setMode` and `setBoost` are `oneway` in `IPower`, and binder delivers oneway calls to one service object one at a time.

The vendor library is not in the repository. `CusLockHint` may return any free handle, a reused one included. This covers whatever allocation policy the library has.

Properties:
- `TypeOK`: includes that every hint without a duration belongs to a mode, i.e. no boost is held "until released".
- `NoLeakedHint`: every untimed hint the library holds is referenced by a handle field, so it can still be released.
- `LowPowerDrains`: an action property. While LOW_POWER is on, no step takes a new hint, and a `setMode` of LAUNCH, EXPENSIVE_RENDERING or SUSTAINED_PERFORMANCE leaves none of that mode's hints held by the library. This ties the release of the stored handle, the `mLowPowerEnabled && !handle` early return and the gate on taking a hint together. A release only on enabling breaks it.

| Run | Expect | What it shows |
|---|---|---|
| `power` | pass | all three properties over every call sequence, four library handles and boost durations 0 and 100 (79,668 states) |

Why the bounds are enough: four handles are one more than the modes that hold one, so a boost can be taken while all three modes hold hints, and a freed handle can be reused by another mode.

Observed and not kept as a run: when the library reuses a handle, `mLaunchHandle` can outlive its 30 s hint and name another mode's hint. The next `setMode(LAUNCH, ...)` then releases that hint (see the hazards).

Not modelled:
- `DOUBLE_TAP_TO_WAKE` and the `MODE_EXT` hooks, which depend on build flags defined outside the repository.
- The constructor's `abort()` paths.
- The `IPower.setBoost` contract, which says a negative `durationMs` cancels the previous boost. The code turns any duration below 1 ms into a new 80 ms boost, and `SetBoost` models that. No property states the cancel, because the contract text is not in the repository (see the hazard at Power.cpp:220).

### `BootRegion` (with `MC_BootRegion`)

This module models `BootControlExt::SetBootRegionSlot` and everything it calls.

State:
- `storage`: whether the device is UFS or eMMC. Only the matching node opens: `/dev/block/sdc` on UFS, `/dev/block/mmcblk0` on eMMC.
- `bootLun`: the UFS attribute bBootLunEn.
- `partConfig`: the eMMC byte EXT_CSD[PART_CONFIG].
- `lastCall`: a ghost recording the last call's slot, its result, and the slot that was active before it.

One call is one step. The code is sequential, and the nondeterminism is in the ioctls: each one may fail. The helpers are operators that return the set of (result, device state) pairs the function can produce:
- `ufs_set_active_boot_part`: the legacy `UFS_IOCTL_QUERY`; when that fails, `ret = ioctrl_w_attr(...)`.
- `ioctrl_w_attr`: OK when `do_attributes` succeeds, ERROR when it fails.
- `emmc_set_active_boot_part`, `mmc_read_extcsd` and `mmc_switch_bootpart`. The new PART_CONFIG byte is computed with the community `Bitwise` module, exactly as the code computes it: `(cfg & ~0x38) | (part << 3)`.

`OK` and `ERROR` are constants. `MC_BootRegion` sets them to the ufs-utils values, 0 and -1. `ioctrl_w_attr` itself treats a non-zero `do_attributes` result as failure, which is consistent with those values.

Property:
- `ResultReflectsDevice`: `true` means the device now boots from the requested slot, and `false` means the boot region is unchanged.

| Run | Expect | What it shows |
|---|---|---|
| `bootregion_result` | violation | On UFS, the legacy ioctl fails and the bsg write succeeds. `ret = OK = 0` is returned as `false`, the eMMC fallback cannot open `mmcblk0`, and the call returns `false` although slot B is now the boot LU. By the same line, a failed bsg write (`ERROR`) returns `true`. |

Not modelled: the `ARCH_X86` build, where the function returns `true` and does nothing else.

### `PlPath` (with `MC_PlPath`)

This module models `mtk_plpath_utils`, a one-shot program run at boot, from `main` to its return.

State:
- `storage`, `platform`, `image`: the device. `image[p]` is the content of boot partition `p` after `EMMCHSZ`, as a sequence of 8-byte slots (`FIRST_BYTES`). A slot holds a header `[magic, type, size]` or payload (`Junk`). Sizes are counted in slots.
- `rw`: whether `blockdev --setrw` made each boot partition writable.
- `dm`, `links`: the dm devices `pl_a`/`pl_b` and the four `preloader_raw` links.
- `pc`, `part`, `pos`, `hdr`, `res`: where `main` is, which partition `mt_pl_handler_ab` works on, its file offset, `HDR`, and each call's result.

Actions:
- `CreatePlPath`: `create_pl_path` as one step. Open, seek and read may fail, the header may be unknown, and each `create_dm` may fail. On a `pl_b` failure the cleanup deletes `NAME_PL_A` on eMMC but `UFS_PL_A` on UFS, a name no dm device has, so `pl_a` stays. `create_pl_link` gives each link its device, leaves it absent, or leaves an old target whose removal failed.
- `SetRw`: the platform check (only `mt6739` goes on) and both `setrw_blockdev` calls, whose exit status is ignored.
- `Open`: `open(O_RDWR)` fails (-11) on a partition still read-only; then `tgt_off` is read and the walk starts at `EMMCHSZ`.
- `Walk`: one iteration of the do-while. A read at the end of the device returns nothing and leaves `HDR` stale. Type 0x12 breaks out. A seek past the end fails (-13), as it does on a block device. The loop goes on while `HDR` has the magic.
- `AfterWalk`: the copy after the loop as one step. It fails with -14 when the skip runs past the end; otherwise it ends in one of -15..-19 or 0, on values read from the image.

`main` runs on one thread and waits for nothing, so `Spec` has weak fairness on `Next`. The program really stops, so the run does not check deadlock.

Property:
- `Terminates`: `main` returns.

| Run | Expect | What it shows |
|---|---|---|
| `plpath_walk` | violation | On mt6739, a partition whose first header has size 0 makes `lseek(size - FIRST_BYTES, SEEK_CUR)` return to the same header, and the walk never ends. A chain ending at the end of the device without a 0x12 header also spins, on the stale `HDR` (6,264 states). |

Images: a well-formed chain, the same chain with a size-0 first header, and a one-header chain ending at the device's end.

Not checked by a run: when the loop exits on a slot without the magic, the copy runs anyway on payload bytes, and the UFS cleanup leak. Both are listed as hazards.

### `Vibrator` (with `MC_Vibrator`)

This module models the vibrator AIDL HAL (`aidl/vibrator/Vibrator.cpp`). The HAL drives one haptic driver through three sysfs attributes under `HAPTIC_NODE`: `index`, `duration` and `activate`. `HAPTIC_NODE` is a static string that starts empty. Only `perform` sets it: its loop takes the first directory of `haptic_nodes`, in key order, whose `activate` opens.

State:
- `present`: the haptic directories that exist. It is chosen in `Init` from `Devices`.
- `node`: `HAPTIC_NODE`, a key of `haptic_nodes`, or `NoNode` for the empty string.
- `sysfs`: each existing directory's `index`, `duration` and `activate`.
- `threads`: the detached threads still sleeping, counted per kind (`on`, `perform`).
- `completed`: the `onComplete` calls made.
- `calls`: the calls made, at most `MaxCalls`.

Actions:
- `off`, `on(t, callback)` and `perform(effect, callback)`: one step each. The framework makes one HAL call at a time.
- `write_haptic_node`: a write to a path under no existing directory is lost. That covers `HAPTIC_NODE` empty, where the paths are relative.
- `perform`: it updates `HAPTIC_NODE` even for an effect without a case (`FirstNode`), then returns `EX_UNSUPPORTED_OPERATION`. For a supported effect it writes `index`, starts the callback thread, then runs `on(timeMs, nullptr)`.
- `OnThreadExit`: the thread `on` starts sleeps and exits.
- `PerformThreadComplete`: the thread `perform` starts calls `onComplete`.
- `DriverStop`: the driver ends a vibration when its duration is up.
- Not actions: `getCapabilities`, `getSupportedEffects` and the calls that only return `EX_UNSUPPORTED_OPERATION` change no state.

Property:
- `OnVibrates`: an action property. When `on(timeoutMs)` returns, the driver is active for `timeoutMs`, as `IVibrator::on` promises.

| Run | Expect | What it shows |
|---|---|---|
| `vibrator_on` | violation | With the driver at the second key, the first call after boot is `on(500)`. It writes `duration` and `activate` relative to the working directory, because `HAPTIC_NODE` is still empty. It returns OK and nothing vibrates. |

Bounds: three keys, and devices with the driver at the second key or at the first and third (the search's order). Effects: CLICK, POP (which shares TICK's index) and one without a case. A single timeout suffices. Devices with no driver are left out, since the property would then report missing hardware.

Not checked by a run:
- `on`'s callback thread never calls `onComplete`, although `getCapabilities` reports `CAP_ON_CALLBACK` (`OnThreadExit`).
- A `perform` that finds no driver returns OK with its `timeMs`.

Both are listed as hazards.

## Plan for the remaining parts

In order:
1. (done: `ThermalWatcher`)
2. (done: `ThresholdClassify`, composed with the watcher in `ThermalService`)
3. (done: `CoolingMap`)
4. (done: `CpuUsage`)
5. (done: `PowerHints`)
6. (done: `BootRegion`)
7. (done: `PlPath`)
8. (done: `Vibrator`)
9. `LibinitVariant`: the first-match variant table.

`LibinitVariant` is not modelled. `search_variant` is a first-match scan of a constant table at boot, and `set_variant_props` a fixed list of property writes. A module would need a run of its own. One observation from reading the code: `init_xiaomi_camellia.cpp` fills `hwc_value`, a field the repository's `search_variant` never reads. With `bid_value` empty, the variant is chosen by `sku_value` alone, and `camellia_info` (sku "camellia") is shadowed by `camelliain_info`. The project keeps at most twelve runs, and all twelve are in use. `service` replaced the separate `watcher` and `classify_cpu` runs, which freed the slot `vibrator_on` uses. A new module takes a slot only when it shows more than the run it replaces.

Not planned:
- `libmtk_bsg`: a stateless ioctl request builder.
- `thermal_hal.c` temperature readers: plain sequential file reads with no state between calls.
