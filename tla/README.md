# TLA+ models of the rt-mbms-modem control plane

These modules model the control logic of the eMBMS receiver in `src/`:
- how it acquires and synchronises to a cell;
- how it turns SIB13 and MCCH configuration into a per-subframe decoding directive;
- how it builds the MCH reporting view;
- how the REST API reads that state from another thread.

Signal processing, the srsRAN library and I/O are the environment. The model enumerates their results; it does not compute them.

## 1. Inventory

### Components and their state

| Component | Source | State (code names) | Operations |
|---|---|---|---|
| Cell search / sync | `Phy.cpp` 59-223, `Phy.h` 225-231 | `_cell`, `_tti`, the srsRAN `_ue_sync`/`_mib` cell | `cell_search`, `synchronize_subframe`, `get_next_frame`, `set_cell`, `init` |
| MBSFN configuration | `Phy.cpp` 225-264, `Phy.h` 128-158, 225-244 | `_sib13`, `_mcch_table`, `_mcch_configured`, `_mcch`, `_mch_configured`, `_decode_mcch`, `_cell.mbsfn_prb` | `set_mch_scheduling_info`, `set_mbsfn_config`, `reset`, `set_decode_mcch`, `set_nof_mbsfn_prb` |
| Subframe classifier / scheduling engine | `Phy.cpp` 304-382 | none: a pure function of the configuration | `is_cas_subframe`, `is_mbsfn_subframe`, `mbsfn_config_for_tti` |
| MCH reporting registry | `Phy.cpp` 265-301, `Phy.h` 175-177, 242-244 | `_mch_info`, `_dests` | `set_mbsfn_config` (rebuild), `set_dest_for_lcid`, `mch_info` |
| REST API | `RestHandler.cpp` | `_cinr_db`, and reads of Phy state | `get` (`status`, `mch_info`, `mch_status`, ...), `put`, `add_cinr_value` |
| CAS frame processor | `CasFrameProcessor.h` | `_mutex`, `_signal_buffer_rx`, `_cell` | `init`, `set_cell`, `rx_buffer` (locks), `process`, `unlock` |
| Gateway | `Gw.h` | TUN device | declarations only (not modelled) |

### How the parts interact

The receive loop is in `main.cpp`, which is not in `src/`, so it is modelled from spec §4.1. It:
- calls `cell_search` until it succeeds;
- calls `synchronize_subframe` until a frame start is found;
- then fetches subframes and asks `mbsfn_config_for_tti` how to decode each one.

The RRC layer delivers SIB13 and MCCH messages through the configuration setters.

An HTTP listener thread runs `RestHandler::get`. It reads `_phy.cell()` and `_phy.mch_info()` with no lock. This is the main concurrency in `src/`.

### Hard behaviours

- **Numeric edges** in the closed-form allocation index (`sf_idx`): unsigned wrap, CAS gaps, and aliasing of mixed-cell unicast subframes.
- **First-match scan**: channel windows, and the signalling-MCS tie-break.
- **Multi-step writes** that another thread reads unlocked: `_cell` at lines 165/166, and `_mch_info` rebuilt channel by channel.
- **Partial failure of `cell_search`**: `_cell` is written before the set-cell calls can fail. The fallback retry happens only on a 0 result.
- **TMGI packing**: the nibble layout of TS 24.008.

`PROJECT.json` lists the hazards at their lines.

## 2. Modules

| Module | Models | State → code | Actions → code |
|---|---|---|---|
| `MbsfnSchedule` | the classifier and the engine, as pure operators | a configuration record `p` holding the Phy members the engine reads | `IsCasSubframe`, `IsMbsfnSubframe`, `SfIdx`, `MbsfnConfigForTti` (lines 304-382) |
| `PhyScheduling` | the configuration setters and the receive loop walking the TTIs of an acquired cell | `cell`, `sib13`, `mcch_table`, `mcch_configured`, `mcch`, `mch_configured`, `decode_mcch`, `tti` | `SetMchSchedulingInfo`, `SetMbsfnConfig`, `Reset`, `SetDecodeMcch`, `SetNofMbsfnPrb`, `NextSubframe` (loop) |
| `CellAcquisitionSpec` | the abstract promise of acquisition | `state`, `cell` | search fails or succeeds atomically; sync; lose sync |
| `CellAcquisition` | `cell_search`, `synchronize_subframe`, `get_next_frame`, the loop, and the REST status handler | `main` (loop state), `phy_pc` (where `cell_search` is after line 164), `cell`, `sync_cell`, `tti`, `rest` | one action per path of `cell_search` before line 165; one each for lines 165, 166 and 168-177; `ReInit` (`Phy::init`, lines 193-219, as line 131 calls it); three REST steps for lines 104-108 |
| `McchRegistry` | the `_mch_info` rebuild, `set_dest_for_lcid`, and the REST `mch_info` copy | `mcch`, `mch_info`, `building` (loop index), `dests`, `rest_reply` | `SetMbsfnConfigBegin` (262-265), `SetMbsfnConfigChannel` (one `push_back`, 266-300), `SetDestForLcid`, `RestGetMchInfo` |
| `PhyLifecycle` | `CellAcquisitionSpec` composed with `PhyScheduling` across re-acquisitions | `main`, the `PhyScheduling` variables, `cell_epoch`/`sib13_epoch`/`mcch_epoch` (in which acquisition the configuration in use was received) | `Search` (`cell_search` writes only `_cell`), `Synchronise` (sets `_tti` by lines 74-83), `LoseSync` (calls `reset()` iff `ResetOnSearch`), `ReceiveSib13`, `ReceiveMcch`, `Control` (the three setters), `Subframe` |
| `RestApi` | `RestHandler::get`, `put`, `add_cinr_value` under the listener's thread pool | per client: `req`, `pc`, `local` (settings read at 209-213), `reply`; `sdr` (the SDR settings), `oob`, `cinr_len` | `Receive`, `Get` (77-189), `PutCheck` (193-208), `PutApply` (227-229), `AddCinrValue` (234-238) |
| `SdrSettings` | the abstract promise of the `sdr_params` resource | `sdr` | `Put(b)`: an accepted body applied atomically |
| `CasFrameBuffer` | `CasFrameProcessor` with the receive loop and pool workers (spec §5) | `locked` (`_mutex`), `loop_pc`, `phy_cell` (`Phy::_cell`), `proc_cell` (the processor's `_cell`), `buffer` (subframe and cell of the samples in `_signal_buffer_rx`), `next_sf`, `job`; history `mismatches`, `wrong_cell` | `ProcInit` (`init`, line 63), `Acquire` (search and sync), `SetCell` (line 78, no lock), `RxBuffer` (line 83), `GetNextFrame` (`Phy::get_next_frame`), `Dispatch`, `Process` (`process`, then `unlock`, line 95) |

Environment results are chosen nondeterministically:
- **MIB decodes:** 1, 0 or -1 in the transmitter's mode, and 0 or -1 in the other mode.
- **Set-cell calls:** can fail when `SetCellCanFail` is set.
- **Synchronisation attempts:** succeed or fail.

In `CellAcquisition`, a search writes only locals before line 165, so it is atomic up to there. From line 165 on it is split into steps, because the REST thread can read `_cell` between them. The same holds for `McchRegistry`: `_mch_info` is pushed one channel per step.

### Refinement

`CellAcquisition` instantiates `CellAcquisitionSpec` with:
- `state <- main`;
- `cell <- TrackedCell`, which is `_cell` while `cell_search` is idle and otherwise the cell it is replacing (`prev_cell`).

The property `AcquisitionRefinesSpec` is the abstract `Spec`.

`RestApi` instantiates `SdrSettings` with:
- `Fields <- SdrFields`, `Values <- SdrValues`;
- `Bodies <- AcceptedBodies`, the bodies of the `sdr_params` PUTs that carry the bearer token.

The variable `sdr` maps to itself. The property `SdrRefinesAtomicPut` is the abstract `Spec`. It says that each completed PUT applies its body to the settings as they are at its write, and that no other step changes them. With two handlers on the listener's pool it fails: run `rest_concurrent` shows the lost update. With one handler at a time it would only restate the PUT handler's guard and assignment, so no passing run checks it.

## 3. Runs

| Run | Cfg | Expect | What it shows |
|---|---|---|---|
| schedule | `MC_PhyScheduling.cfg` | pass | In both cell modes, and for every order of SIB13, MCCH, reset and PRB-override events over 32 frames, the `sf_idx` of each MBSFN subframe equals the number of MBSFN subframes before it in its period (`SfIdxCountsMbsfnSubframes`). Each non-MCCH MBSFN subframe of a well-formed MCCH goes to the channel whose window holds it, with the signalling MCS exactly on the first subframe of the window (`WindowsPartitionPeriod`). Under `FairSpec`, each channel of a well-formed MCCH that stays configured is eventually given a subframe (`EveryChannelServed`). |
| schedule_alias | `MC_PhyScheduling_alias.cfg` | violation | In a mixed cell, subframe 0 of frame 1 gets `sf_idx` 5 and is given to MCH 0. The engine relies on its caller to ask only about MBSFN subframes. |
| acquisition | `MC_CellAcquisition.cfg` | pass | When the set-cell calls succeed, acquisition refines the abstract spec. |
| acquisition_partial | `MC_CellAcquisition_partial.cfg` | violation | When a set-cell call fails, `cell_search` returns false but `_cell` has already been replaced. |
| acquisition_fallback | `MC_CellAcquisition_fallback.cfg` | violation | A MIB-MBMS result of -1 skips the mixed-cell retry (`if (!ret)`). |
| acquisition_status | `MC_CellAcquisition_status.cfg` | violation | The sequence is: acquire, sync, lose sync, then search again. A status request that lands between lines 165 and 166 reports 0 PRB. |
| registry | `MC_McchRegistry.cfg` | pass | Every TMGI string decodes, by the TS 24.008 layout, back to the TMGI of its session (2- and 3-digit MNCs). `_dests` stays keyed by 0-based channel indices. |
| registry_torn | `MC_McchRegistry_torn.cfg` | violation | The REST copy returns a half-rebuilt channel list. The cleared, empty list is reachable too, but it equals the view before any MCCH, so the property does not flag it. |
| lifecycle | `MC_PhyLifecycle.cfg` | pass | With `reset()` on sync loss, every subframe enabled after a re-acquisition is scheduled from SIB13 and MCCH received from the current cell (`ScheduleFromCurrentCell`). |
| rest | `MC_RestApi.cfg` | pass | With two handlers and every kind of request, the handler state stays well typed (`TypeOK`). In particular, the CINR window never grows past `CINR_RAVG_CNT + 1`. |
| rest_concurrent | `MC_RestApi_concurrent.cfg` | violation | Two PUTs of `sdr_params` interleave between the read (209-213) and the write (227). One writes gain; the other writes frequency, together with the old gain it read. The gain update is lost, so the handler does not refine `SdrSettings` (`SdrRefinesAtomicPut`). |
| framebuffer | `MC_CasFrameBuffer.cfg` | pass | The mutex held from `rx_buffer()` until processing ends keeps the loop from overwriting the samples a worker is decoding (`ProcessesDispatchedSubframe`). After a re-acquisition, `set_cell` takes no lock, yet no subframe is decoded with another cell's parameters (`DecodedWithReceivingCell`). The mutex is held exactly while the loop or a worker owns the buffer (`LockHeldByOwner`). |

### Supplementary configurations

These configurations are kept beside the listed runs. Each checks one property of a new module, and TLC finds each one violated by what the code does. The project keeps at most twelve listed runs. These are therefore not listed in `PROJECT.json`, and their hazards carry notes pointing here. Run each with `tlc -config <cfg> <MC module>`.

| Cfg | Property | What TLC finds | Code |
|---|---|---|---|
| `MC_PhyLifecycle_noreset.cfg` (`ResetOnSearch = FALSE`) | `ScheduleFromCurrentCell` | The sequence is: acquire, take a SIB13, lose sync, acquire the other cell. The new cell is then scheduled from the first cell's SIB13, because `cell_search` writes only `_cell`. Spec §4.1 says no state survives the fall-back, but does not say who clears it. | `Phy.cpp` 165 |
| `MC_PhyLifecycle_prb.cfg` (adds a SIB13 with PMCH bandwidth 50) | `MbsfnPrbWithinCell` | `set_mch_scheduling_info` sets `mbsfn_prb` to 50 on the 25-PRB cell. Spec §3 says it must not exceed the cell's count. | `Phy.cpp` 231 |
| `MC_RestApi_index.cfg` | `PathIndexInRange` | `GET /mch_status` with no index reads `paths[1]` of a one-element vector. The model answers it with 500 (`std::stoi` throws) or 200 (a garbage index). | `RestHandler.cpp` 169 |
| `MC_RestApi_cinr.cfg` | `CinrWindowWithinCount` | `add_cinr_value` trims only when the size already exceeds `CINR_RAVG_CNT`, so the window holds `CINR_RAVG_CNT + 1` values. | `RestHandler.cpp` 235 |
| `MC_RestApi_unanswered.cfg` (all requests, `FairSpec`) | `EveryRequestAnswered` | A GET for an unknown path falls off the if-else chain with no reply. The PUT chain (206-230) has the same gap. | `RestHandler.cpp` 189 |

Each property of a passing run has a mutant in `PROJECT.json`: a plausible bug in the mapped code that TLC then catches. The mutants are:
- the CAS gap left uncompensated;
- the missing `break`;
- missing line 166;
- `_tti` not scaled by 10;
- swapped MCC nibbles;
- a 1-based `_dests` key;
- a TTI that does not wrap, and a loop that advances the TTI by a frame per step (`EveryChannelServed`);
- an SFN-plus-offset not reduced modulo `kMaxSfn`, and a `reset()` that clears only the MCH flag (lifecycle);
- the CINR window never trimmed (rest);
- a subframe counter that does not wrap, an `rx_buffer()` that does not lock (`ProcessesDispatchedSubframe`, `DecodedWithReceivingCell`), and a failed `get_next_frame` that keeps the lock (`LockHeldByOwner`) (framebuffer).

## 4. Bounds

**PhyScheduling**
- `MaxSfn = 32`. Every repetition period (32) and every scheduling period used (4, 8) divides it, so the schedule is exactly periodic and the TTI wrap is sound.
- Two cells, one per mode.
- Three SIB13s:
  - MCCH in subframe 1 at offset 0, with no PMCH bandwidth;
  - MCCH in subframes 2 and 7 at offset 1, with PMCH bandwidth 15;
  - no area info, to reach the `nof_mbsfn_area_info == 0` branch.
- Three MCCH messages: one channel; two channels; and two channels with different periods, which is not well-formed.

Window ends of 5, 11, 20 and 30 put boundaries inside the first frames, so both signalling tie-break disjuncts are exercised.

**CellAcquisition**
- One dedicated and one mixed transmitter, with different PRB counts (25, 50), so a re-search replaces one cell by the other.
- SFNs {0, 7}.

**McchRegistry**
- An empty MCCH, a one-channel MCCH and a two-channel MCCH.
- TMGIs with 2- and 3-digit MNCs and distinct MCC digits, so a nibble swap is visible.
- One destination, registrable on channel 0.

**PhyLifecycle**
- The `PhyScheduling` cells and two SIB13s (plus one with PMCH bandwidth 50 in `MC_PhyLifecycle_prb.cfg`), two MCCH messages, PRB override 6.
- `MaxAcquisitions = 2`: two acquisitions are the fewest in which configuration can be carried from one cell to the next; both cells are acquirable, so the carry-over crosses modes.
- `SfnOffsets = {0, 1}`, so the dedicated-cell factor 4 is exercised.

**RestApi**
- Twelve requests: authorised and unauthorised, empty, known, unknown and index-less paths, and PUT bodies naming one or two fields.
- SDR values 0..1: a lost update needs only two values per field.
- `CINR_RAVG_CNT = 3`. Two clients in runs `rest` and `rest_concurrent`, the fewest that interleave.

**CasFrameBuffer**
- Three workers and ten subframe numbers: more workers than the mutex lets run at once, and a failed `get_next_frame` can resynchronise to any subframe.
- Two cells, the fewest for a re-acquisition to change the decoder's cell.

## 5. Fairness

One run checks liveness: `schedule`. `MC_RestApi_unanswered.cfg` also checks liveness, and TLC finds it violated.

**`MC_RestApi_unanswered.cfg`.** Its `FairSpec` puts weak fairness on each client's `Get`, `PutCheck` and `PutApply`. This is justified because:
- a cpprest handler, once called, runs to its end on a pool thread;
- nothing in `get` or `put` waits on another handler.

Nothing requires clients to send requests.

**Run `schedule`.** `PhyScheduling!FairSpec` puts weak fairness on `NextSubframe` alone. While the cell stays synchronised, the receive loop takes one subframe after another with increasing TTI (spec §5). The SIB13 and MCCH handlers, `reset` and the other setters get no fairness: those messages need never arrive. `EveryChannelServed` is therefore stated only while the MCCH message stays configured.

No fairness is assumed for the frame buffer. Its properties are invariants.

No fairness is assumed for acquisition, because:
- the loop's retry policy is outside `src/`;
- srsRAN gives no guarantee that a decode ever succeeds.

## 6. Not modelled, and the plan for later sittings

1. **Unlocked configuration writes racing `mbsfn_config_for_tti`:**
   - the `_mcch` copy (`Phy.cpp` 262);
   - the `_sib13` / `_mcch_table` / `_mcch_configured` writes of `set_mch_scheduling_info` (235-256).

   Spec §5 asks for one mutual-exclusion boundary around the sample buffer and the derived configuration. The code has none, so every interleaving is a data race. Which threads deliver SIB13/MCCH and run the engine is decided in `main.cpp` and srsRAN.
2. **`Phy::set_cell`** (184-191). Its caller is outside `src/`. In every state of `CellAcquisition` where the loop could call it, `_ue_sync` and `_mib` already hold `_cell`, so as an action it would change nothing.
3. **`mbsfn_area_id`, `cfo` and `mbsfn_subcarrier_spacing(_khz)`** (`Phy.h` 108, 138, 187-213). The status GET reports the spacing (`RestHandler.cpp` 112). It reads `_sib13`, which `reset()` does not clear. After a re-acquisition, status can therefore report the previous dedicated cell's spacing until the new SIB13 arrives. Spec §5 allows readers "momentarily stale values", so no property is stated.
4. **The CINR window read by status** (`RestHandler.cpp` 111). `cinr_db()` is defined in `RestHandler.h`, which is not under `src/`. It averages `_cinr_db` while `add_cinr_value` (234-238) erases and appends on a processing thread, and neither takes a lock.
5. **BLER with `total = 0`** (`RestHandler.cpp` 130). The counters are maintained by frame processors outside `src/`.
6. **The cross-thread `unlock()`.** If a pool thread releases a `std::mutex` the loop locked, the behaviour is undefined. Which thread calls `unlock()` is decided outside `src/`, so `CasFrameBuffer` follows spec §5.
7. **REST reply bodies** other than `status` and `mch_info` are abstracted to a status code.
8. **Not modelled at all:**
   - the `Gw` TUN writer. `Gw.cpp` is not under `src/`. `Gw.h` declares only `init` and `write_pdu_mch`, whose contract is to fix the IP header checksum and write to the TUN device. That is I/O on state no property here can tell apart, and a model of it would have no code to be checked against;
   - the CAS decoding chain behind `process()`, and `ce_values`, `pdsch_data` and `cinr_db` of `CasFrameProcessor` (srsRAN signal processing);
   - the srsRAN internals (the buffers `init()` re-allocates on every mixed-cell fallback, the MCCH table generators);
   - logging.
9. **Known spec inconsistency.** Spec §4.5 says the TMGI string has 16 hex digits. The format `%06x%02x%02x%02x` gives 12, and `TmgiDecodesToSession` checks 12.
