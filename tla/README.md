# The drivers of the Galaxy Tab Pro 8.4 port, in TLA+

This project specifies and verifies the parts of the repository that have
state, concurrency and recovery worth reasoning about: the display driver for
Qualcomm's MDP5 as this port changes it, the buffer objects under it, the
driver of the tablet's panel, and the Wi-Fi and regulator drivers the port
patches. They live under `src/draft/`. The port makes three things work that
upstream did not on this chip: one CRTC drives a panel through two DSI links (a
*split display*: two layer mixers, two CTLs, two timing engines), the tablet
suspends and resumes with its planes up, and the buffers come out of a
carve-out (VRAM) as there is no IOMMU.

File names are those of the display driver,
`src/draft/tree/drivers/gpu/drm/msm/disp/mdp5/`, unless a path or another
driver is named.

## 1. The system

### 1.1 How a frame reaches the panel

The compositor makes an *atomic commit*. The DRM core duplicates the state of
every object the commit touches, lets the driver *check* the duplicates, and
either drops them (a test, a failure, a lock that had to be backed off) or
*swaps* them in. From the swap on, the *commit tail* carries the state to the
hardware, without the modeset locks when the commit does not block. So

* a check of commit n+1 may run beside the tail of commit n,
* the tail runs against vsyncs and the interrupts they raise, and
* anything not kept in an atomic state is shared by all of them.

The MDP5 registers are double buffered: software writes them, sets bits in a
CTL's FLUSH register, and the next vsync latches the blocks named there and
clears the bits. Two kinds of registers are not double buffered, and the code
has to order their writes by hand: the allocation of the shared memory pool
(SMP) and its FIFO watermarks.

### 1.2 Components, state, operations, correctness

| Component | State it keeps | Operations | Correct when |
|---|---|---|---|
| Hardware pipes, `mdp5_pipe.c` | `hwpipe_to_plane` in the global state; `hwpipe->blkcfg`, in no state at all | assign, release, assigned | one owner for each pipe, no handover within a commit, owner and plane state agree |
| Shared memory pool, `mdp5_smp.c` | bitmap, blocks of each client, `assigned`, `released`; register cache | assign, release, prepare, complete, calculate | no block lost or given twice, registers follow the committed state, nothing taken from a pipe on the screen |
| Global state and bring-up, `mdp5_kms.c` | the private atomic object, the arrays of hardware blocks, power references | duplicate, swap, commit hooks, init | pending sets are applied once; what comes up can be driven; a failure gives everything back |
| Tables, `mdp5_cfg.c` | fifteen constant tables | choice by revision | they agree with the code that reads them |
| Planes, `mdp5_plane.c` | `hwpipe`, `r_hwpipe` of each plane | check, update, cut of the split | every visible plane has the pipes and blocks it needs, each column is shown once |
| CRTC, `mdp5_crtc.c` | `event`, `pending`, `flushed_mask`; `defer_start` in its atomic state; the cursor | flush, vblank handler, enable, disable, wait for flush, cursor calls | one completion event for each commit, in order; framebuffers and cursor images outlive their scanout |
| CTL, `mdp5_ctl.c` | `flush_mask` held back, `pending_ctl_trigger`, `cursor_on`, the pool of CTLs | commit, blend, request, set_pipeline | every bit asked for is written, with the layer registers |
| Layer mixers, `mdp5_mixer.c` | `hwmixer_to_crtc` | assign, release | left and right mixer are a pair nobody else uses |
| Encoders, `mdp5_encoder.c`, `mdp5_cmd_encoder.c` | `enabled`, timing engine, tear check, vsync clock | mode_set, enable, disable, check | the engine has stopped before it is set up again; held-back flushes are written; timings fit the mixers |
| Interrupts, `mdp5_irq.c` and the external `mdp_kms.c` | listeners, enabled mask, status register | register, dispatch, wait, vblank counting | a listener is told once, of a vsync after it asked |
| GEM objects, `msm_gem.c` | pages, pins, mappings, `madv`, lists of the shrinker, the carve-out | pin, map, fault, submit, madvise, purge, evict, free | pins balance, what is used has its pages, no mapping outlives them |
| Panel, `src/draft/panel-samsung-r63319.c` | supplies, lines, both DSI links, `reinit`, `inherit_splash` | probe, prepare, enable, disable, unprepare, reinit | power balances on every error path; lit on both links when it says so |
| Wi-Fi, `wcn36xx/main.c` | scan request, `scan_aborted`, software-scan channels, keys, rates, sleep | the operations of mac80211, the scan indication | a scan ends once, on the path it began on; driver, firmware and mac80211 agree |
| Regulator, `qcom_spmi-regulator.c` | range and code registers, mode, slew rate, over-current count | set, get, mode, load, bypass, over-current retry | a granted request is what the rail puts out; retries are bounded |
| Tables, scripts, session tools, firmware | files | sequential | - |

The plane check calls `mdp5_pipe_assign`, which calls `mdp5_smp_assign`; the
CRTC check calls `mdp5_mixer_assign`; all on one duplicate of the global state.
The tail runs `mdp5_smp_prepare_commit`, then encoder and CRTC disable, plane
update, CRTC flush, CRTC and encoder enable, the wait for the flush, and
`mdp5_smp_complete_commit`. CRTC, encoders and the cursor calls all call
`mdp5_ctl_commit`. The vblank interrupt calls back into the CRTC, wakes the
encoder's wait, and hands replaced cursor images to a worker. The DSI bridge
calls the panel before and after the encoder. Framebuffers and cursor images
are GEM objects, pinned and unpinned by the planes and the cursor.
Wi-Fi and regulator meet the rest through the kernel's cores only.

What is hard: overlapping checks and tails; a vsync between any two register
writes; an interrupt that was raised before a step and is handled after it;
state copied while part of it is pending; errors after half of the work;
suspend and resume with duplicated state; the power domain losing registers
that the driver remembers; a shrinker that acts on what a list said; a retry
whose target has changed; firmware that answers late or never.

### 1.3 Hazards

`PROJECT.json` lists every hazard at the line where it bites, with the
properties that would notice it going wrong. Where the code does go wrong
beyond the instance a run checks, the hazard's note points to section 5.

## 2. Modules

| Module | Models | Proofs |
|---|---|---|
| `Mdp5Resources` | pipes, SMP blocks, global state, the resource half of the plane check, suspend and resume | `Mdp5Resources_proofs` |
| `Mdp5Ctl` | one CTL: `mdp5_ctl_commit`, the trigger set by `mdp5_ctl_blend`; operators of `Mdp5Crtc` | |
| `PageFlip` | what a CRTC promises the compositor: the abstract specification of `Mdp5Crtc` | |
| `Mdp5Crtc` | CRTC, encoder, CTLs, vblank interrupt, timing engine, power domain; implements `PageFlip` | `Mdp5Crtc_proofs` |
| `SplitPlane` | planes on a split display: the cut at the seam, staging, the flush of each half | `SplitPlane_proofs` |
| `Mdp5Config` | the fifteen tables, the memory-pool arithmetic, the FLUSH bits; operators | |
| `Mdp5BringUp` | the choice of CTLs, interfaces and encoders at bring-up; operators | `Mdp5Pipeline_proofs` |
| `Mdp5Pipeline` | bring-up of a board, mixers, CTLs, encoders and timings of several CRTCs | `Mdp5Pipeline_proofs` |
| `Mdp5Cursor` | the cursor calls against the tail, the vblank handler and the worker | `Mdp5Cursor_proofs` |
| `MsmGem` | buffer objects, the carve-out, the IOMMU, madvise and the shrinker | `MsmGem_proofs` |
| `R63319Panel` | the panel driver over two links | `Supplies_proofs` |
| `Wcn36xx` | the Wi-Fi driver with mac80211 and the firmware around it | `Wcn36xx_proofs` |
| `SpmiVoltages` | set points, ranges and selectors of the regulators; operators | |
| `SpmiRegulator` | a regulator from its registration on, and the over-current retry | `Supplies_proofs` |

Each component has an `MC...` module with the constants of its instances; the
operator modules are extended by the component that uses them. Inside a module,
an operator marked *Mutant* is a wrong version of the definition after it: the
run of the property named beside it in `PROJECT.json` (`mutants`) fails with it,
which shows that the property can be broken.

### 2.1 `Mdp5Resources`

| Variable | Code |
|---|---|
| `glob` | the committed `mdp5_global_state`: `hwpipe.hwpipe_to_plane`, `smp.state`, `smp.client_state`, `smp.assigned`, `smp.released` |
| `planes` | `hwpipe`, `r_hwpipe` of each committed plane state, and what was asked of the plane |
| `blkcfg` | `hwpipe->blkcfg`: written by checks, in no atomic state, so never rolled back |
| `chk` | the atomic state being checked: its duplicates and the planes still to visit |
| `saved` | the duplicate `drm_atomic_helper_suspend` keeps |
| `tail` | how far the commit tail is |
| `allocReg`, `wm` | SMP_ALLOC registers, FIFO watermarks |
| `scan` | which pipes the last vsync put on the screen, and their blocks then |

One check visits the planes in order (`drm_atomic_helper_check_planes`);
`CheckInvisible`, `CheckKeepsPipe`, `CheckAssigns` and `CheckFails` are the
ways through `mdp5_plane_atomic_check_with_state` and everything it calls. A
request abstracts framebuffer, scaling and rotation to what the code derives
from them: the capabilities needed, the blocks for each component, and whether
a right-hand pipe is needed. `CheckFails` keeps what a failed check leaves
behind: `blkcfg` of the left pipe when only the right one got no blocks. The
tail is `PrepareCommit`, `Vsync`, `CompleteCommit`. With `Overlap` a check may
begin while the tail runs; the swap waits for it.

The pool is shown as sets; blocks are handed out lowest first, as
`find_first_zero_bit` does, so the model is deterministic where the code is.

A commit that names a plane only counts as hiding it if it was visible;
`drm_atomic_helper_check_plane_state` and the bounds checks before it are the
userspace requests that never get here.

### 2.2 `Mdp5Crtc` and `Mdp5Ctl`

| Variable | Code |
|---|---|
| `n`, `sent` | commits made; the last one whose event was sent |
| `cs` | `crtc->state`: `enable`, `active`, `defer_start`, `event`, and the framebuffer, named by the commit that brought it |
| `chk` | the state being checked |
| `tail` | the program counter of the commit tail and its locals |
| `crtc` | `event`, `flushed_mask`, `pending`, and whether DRM's vblank handling is on |
| `ctl` | `flush_mask` and `pending_ctl_trigger` of each CTL |
| `irq` | `vblank` and `wait`: who listens; `mask`: vblank counting; `cur`: `cur_irq_mask` |
| `hw` | timing engine, FLUSH, registers as written (`shadow`) and as latched (`live`), INTR_EN, INTR_STATUS |
| `pinned` | framebuffers mapped for scanout |

The tail is one action for each step another actor can see, in the order of
`msm_atomic_commit_tail` and the DRM helpers it calls:

    deps -> get0 -> wait0 -> [encoff -> encflush -> encwait -> vsync -> crtcoff]
         -> planes -> take -> blend -> flushL -> [flushR] -> pend
         -> [crtcon -> timing -> enable] -> get -> wait -> cleanup -> idle

The brackets are taken in a modeset (`flushR` with two halves). A disable
writes ENABLE=0, commits the CTL and registers its listener in three steps
(`EngineStop`, `EncoderDisable`, `IrqWait`), so a vsync may stop the engine
before anyone listens; the wait then ends by its time-out (`WaitTimesOut`).
`Irq` is
`mdp5_irq` with all the handlers it dispatches to, atomic with respect to the
tail: the steps of the handler and of the tail that share data hold the same
spinlocks, and the handler runs to its end on one CPU. `Vsync` is the
hardware: what was flushed becomes live, a timing engine told to stop stops.

The registers of one half are three blocks: `PIPE`, `LM` and `CTL`. Each holds
the number of the commit whose settings it has. The FLUSH bit of the timing
engine exists in the code and not in the msm8x74v2 hardware; `FlushHwMask`
gives the bits there are, as `flush_hw_mask` does.

`IrqLag` lets the tail run on while a raised interrupt waits to be handled, as
on a machine with several CPUs. Without it the interrupt is taken before the
next step. `Overlap` is as above.

`PowerCollapse` may happen whenever the CRTC is off and no tail runs, and need
not happen: the MDSS power domain has other users. It loses every register
and leaves the driver's memory as it is.

### 2.3 `SplitPlane`

| Variable | Code |
|---|---|
| `planes` | the committed state of each plane: where it is asked to be, `hwpipe`, `r_hwpipe` |
| `old` | the state before, which the commit tail keeps until it is done |
| `chk`, `visited` | the planes of the atomic state being checked, and those checked so far |
| `tail` | the step of the commit tail |
| `regs` | pipe registers as written: first source column, first column on the mixer, width, and the step of the scaler |
| `layers` | the layer registers of each half's CTL: which pipes are staged |
| `flush` | FLUSH of each half's CTL |
| `live` | registers and layers the last vsync latched |

`Mdp5Crtc` treats the settings of a commit as one thing; this module looks
inside. `CheckPlane` decides whether a plane needs a second pipe
(`need_right_hwpipe`), `Update` programs the pipes (`ModeSet`, the whole of
`mdp5_plane_mode_set`, with its failure), `BlendSetup` stages them and
`FlushLeft` and `FlushRight` name them in the FLUSH registers, each by the
code's own test on the plane's position. The tail is

    update -> blend -> flushL -> flushR -> wait -> idle

The seam is vertical, so a plane is a row of columns. `Left`, `Right` and
`Clipped` are `drm_atomic_helper_check_plane_state`, which clips a plane to the
screen and its source with it; the source is kept to whole columns, as
`mdp5_plane_mode_set` does. Staging and flushing read the position that was
asked for and not the clipped one, as in the code. Which pipes a check finds is
left open within what `Mdp5Resources` shows of them without right-hand pipes
taken from other planes: they were free before the commit and are free in it.
The order of layers, the vertical direction, flips, formats and pixel
extension are left out. A disabled plane is one outside the screen.

Checks wait for the tail here: the tail reads the committed state only, and a
check writes nothing else, so letting them overlap adds no picture.

`VsyncBetween` says whether a vsync may fall between the FLUSH writes of the
two CTLs. The two timing engines run in step, so one vsync serves both.

### 2.4 `Mdp5Config`, `Mdp5BringUp` and `Mdp5Pipeline`

| Variable | Code |
|---|---|
| `board` | what a device tree and a boot line say: chip, connected displays, `split` parameter |
| `kms` | `struct mdp5_kms` once it is up: table, encoders, number of CRTCs |
| `users` | references to the power domain |
| `owner` | `hwmixer_to_crtc` of the global state |
| `cs` | the committed `mdp5_crtc_state` of each CRTC: mode, pipeline, interrupt masks |
| `tail` | where the commit tail of each CRTC is, and the encoder it has to disable |
| `on`, `live`, `irqs`, `vsync` | `enabled` of encoders, `encoder_enabled` of CTLs, registered handlers, enables of the vsync clock |
| `hw` | timing engines, split block, mixer sizes, timings, DISP_INTF_SEL, CTL_OP, ping-pong blocks, STARTs |

`KmsInit` is `mdp5_kms_init` with all of `modeset_init` for one board, and
`KmsInitFails` its failures. `Commit` is the check of a request and the swap;
a check takes its encoder first (`EncoderCheck`), then mixers and masks
(`mdp5_crtc_setup_pipeline`). `Disable` and `Enable` are the two halves of the
tail that touch encoders; the tails of different CRTCs interleave. A commit
that needs no modeset has no tail here. The tables are the fifteen of
`mdp5_cfg.c` with their counts, capabilities, flush masks, memory ports and
interfaces; register offsets are left out.

Two kinds of switch are behind `Switches`: a CRTC that goes from one mixer to
two or back while it has some (`"mixers"`), and a split or command-mode display
that makes way for another one on the same CRTC in one commit (`"display"`).
Section 5 tells what they do.

### 2.5 `Mdp5Cursor`

| Variable | Code |
|---|---|
| `env` | does user space wait for its commits before it calls, are interrupts prompt; bounds |
| `cs`, `tail` | the parts of `crtc->state` the cursor reads, and the step of the commit tail |
| `ioctl` | the cursor call under way: its step and its locals |
| `crtc`, `ctl` | `mdp5_crtc->cursor`, `pending`, the vblank listener; `cursor_on`, `pending_ctl_trigger`, `flush_mask` |
| `irq`, `work` | the handler half way; `unref_cursor_work` queued and handed over |
| `pins`, `hw` | pins of each image; cursor and layer registers as written and as latched |

A call takes the CRTC's lock only, so `SetBegin`, `SetWrite`, `SetCtl`, `Flush`
and `SetPend` interleave with the tail, which restores the cursor after a
modeset (`mdp5_crtc_restore_cursor`), and with the two halves of the vblank
handler. This chip has no FLUSH bit for the cursor; `fix_sw_flush` is the
stand-in. The cursor registers are those `mdp5_crtc_restore_cursor` computes: the
image, its width, the columns taken from it, and START_XY, the column of the screen
they begin in. Columns only: lines are treated alike by the code.

### 2.6 `MsmGem`

| Variable | Code |
|---|---|
| `dev` | has the device an IOMMU, a carve-out, swap; may building an sgt fail |
| `bo` | `struct msm_gem_object`: pages, sgt, `vram_node`, address, `madv`, `pin_count`, `vmap_count`, list, vmas |
| `mm`, `total_mem` | the allocator of the carve-out, `priv->total_mem` |
| `lock`, `shr` | locks left held; the object the shrinker has picked from which list |
| `fence`, `uses` | the GPU job of an object; what its users hold |
| `told`, `want`, `oops` | the address users were told; advice waiting to be given; a thread died in the kernel |

What holds an object's reservation lock is one action. The shrinker looks at a
list first and locks after (`ShrinkPick`, `ShrinkLock`, then `Purge`, `Evict`
or `Spare`), and a job drops its pin and a fence signals without the lock:
these interleave. Every failure the code handles is a branch: pages, sgt, vmap,
the address space, the carve-out. An object is one page.

### 2.7 `R63319Panel`

| Variable | Code |
|---|---|
| `bound`, `dbg` | the driver is bound; `r63319_dbg_ctx` |
| `inherit`, `reinit` | the module parameters and the writer of the second |
| `disp`, `host`, `fw` | where the display pipeline is in a switch, the DSI hosts, what `drm_panel` remembers |
| `pw`, `link` | supplies and lines; the panel as each link sees it |
| `try`, `claim` | attempt, poll and `accum_err` of `r63319_enable`; the driver reported a lit panel |
| `refused`, `whose` | a command went to a host without power; who set the panel up |

Each callback of `drm_panel` is one action, save `r63319_enable`, which sleeps
between its attempts and polls (`Wake`, `Poll`, `Light`). A sequence of
commands may fail anywhere on any link and skips the rest. The panel wakes at
its own time, or never.

### 2.8 `Wcn36xx`

| Variable | Code |
|---|---|
| `dev` | radio, what probe and start hold, started, stopping |
| `scan_offload` | the module parameter |
| `hw` | `scan_req`, `scan_aborted`, and the scan in the firmware |
| `sw` | `sw_scan`, `sw_scan_channel`, `sw_scan_opchannel`, `sw_scan_init`, the firmware's session, and whether a command of this scan failed |
| `mac` | mac80211: its scan and phase, channel, power save, idle |
| `channel`, `radio` | `wcn->channel`; the firmware's sleep states and offloads |
| `link`, `rates`, `agg` | interface, station and keys; `supported_rates`; one block-acknowledgement session |
| `pm` | asleep, how often the interrupts are disabled, and whether a suspend failed since its offloads were last taken back |

mac80211 holds the wiphy mutex through each operation, so an operation is one
action; `Indicate`, the firmware's scan report, runs on a work queue beside
them, also between the parts of `Stop`. `smd.c`, mac80211 and the firmware are
external: a scan session has the order init, start, end, finish, and each of
its commands is done or, if `Faults` names it, fails. One that fails changes
neither the session nor the books; that the firmware obeys and only its answer
is lost is not modelled.

### 2.9 `SpmiVoltages` and `SpmiRegulator`

| Variable | Code |
|---|---|
| `phase`, `row` | of the driver; the row of `supported_regulators[]` that matched |
| `reg` | range and code, or millivolts; mode, bypass, pins, soft start, limit |
| `slew` | `slew_rate` and the step it was computed for |
| `want` | the last granted request and mode, what the device tree says |
| `vs`, `isr`, `work` | a switch with its over-current count; the interrupt handler; the delayed retry |

`SpmiVoltages` has the tables of set points and the three numberings of a
voltage: microvolts, the selector of the regulator core, range and code of the
hardware. `SpmiRegulator` registers a rail from any state boot software may
leave (`Register`), then takes requests; a rail of the CPUs may be driven by
the SAW (`Leader`, `spmi_saw_set_vdd`) or follow one that is (`LeaveSlave`). A
switch trips, and the handler (`IsrStart`, `IsrRead`, `IsrCount`, `IsrClear`)
and the work (`WorkStart`, `WorkClear`) interleave, each clear being two
writes.

### 2.10 What the code outside the repository is taken to do

The kernel's cores are not in the repository. They are modelled from how the
code here uses them, and their definitions are marked external in the map.

* DRM and `msm_atomic.c`, `mdp_kms.c`: the swap waits for the previous tail;
  `drm_atomic_helper_wait_for_dependencies` waits for the event of the previous
  commit; `mdp_irq_register` registers a listener once and recomputes the mask;
  `mdp_irq_wait` waits for the next dispatch, or for its 100 ms to pass, which
  is taken to be longer than any frame: it times out only when no dispatch can
  come any more (`NoVsync`); `drm_crtc_vblank_get` enables the
  vblank interrupt of a CRTC that is on and fails for one that is off; a commit
  to a CRTC that is and stays off has no event to wait for; a connector is with
  one CRTC at a time; `drm_panel` remembers prepared and enabled.
* The GPU scheduler: a queued job starts, drops its pins, and its fence signals.
* mac80211: the order of its operations, its software scan with pauses for
  data, and that it tears a link down from the top.
* The regulator core: it asks for a selector, waits `set_voltage_time_sel`, and
  enables a switch once for its users.

## 3. Properties and runs

### 3.1 Runs that pass

| Run | Instance | Properties |
|---|---|---|
| `res_pool` | 2 twin pipes, 2 planes, 3 blocks, right-hand pipes, overlap, suspend | `TypeOK`, `PoolConsistent`, `NothingLeaks`, `RegsMatchPool` |
| `res_owners` | 3 pipes, 2 planes, 6 blocks of which 3 reserved, planar formats, no right-hand pipes | `OwnersAgree`, `SmpServes`, `NoImmediateReuse` |
| `crtc_events` | 2 halves, 4 commits, overlap, lagging interrupts | `TypeOK`, `NoLostEvent`, `PFSpec` |
| `crtc_frames` | 1 half, 5 commits | `FramesKept`, `FlipShown`, `Shown` |
| `split_frames` | 7 columns, 2 planes, 3 pipes, 5 requests | `SidesAgree`, `OnePicture` |
| `pipeline` | 15 chips, boards with 1 or 2 displays, every fault | `MixersOwned`, `MixersPaired`, `RoutesSound`, `PictureTrue`, `BringUpSound` |
| `cursor` | 2 images, a screen of 3 columns, 3 surroundings | `PinsBalanced`, `CursorKept`, `PictureSound`, `PinsReturned` |
| `gem` | 2 objects, 1 page of carve-out, 3 devices | `PinsBalanced`, `MemorySound`, `WillNeedKept`, `AdviceTaken` |
| `panel` | 2 links, 4 attempts, 2 polls | `PowerSound`, `PictureSound`, `SwitchEnds` |
| `wcn` | 2 channels, 4 rate masks, 3 faults | `ScanBooksAgree`, `ScanSound`, `LinkAgrees`, `DeviceUnwinds`, `CancelEnds` |
| `regulator` | 14 devices, 2 ramps, 4 device trees | `RequestsServed`, `SettingsHeld`, `RetriesBounded`, `Retried` |

A property whose name stands for several is their conjunction; the parts are
defined and explained in the module.

*Resources.*
* `PoolConsistent`: the bitmap is the disjoint union of the reserved blocks and
  those the clients hold, in the committed state and in every check.
* `NothingLeaks`: an owned pipe is named by its owner's plane state and only
  owned pipes hold blocks. So whatever is held will be found by the check that
  has to release it, through failures, suspend, resume and right-hand pipes
  taken from another plane.
* `RegsMatchPool`: once `mdp5_smp_prepare_commit` has run, SMP_ALLOC agrees
  with the committed state. It needs the pending sets, which checks copy.
* `OwnersAgree`, `NoImmediateReuse`: plane states and global state agree, and a
  pipe is free for one commit between two owners.
* `SmpServes`: a visible plane's pipes hold exactly what its request needs,
  though the comparison that decides it reads `blkcfg`, which a dropped check
  may have written (`BlocksCoverPlane`); and the watermarks of a pipe on the
  screen are those of the blocks it fetches through (`LiveWatermarks`).

*CRTC.*
* `NoLostEvent`: the events of the commits not yet answered are in
  `crtc->state` or `mdp5_crtc->event`, each in one place. In particular the
  `WARN_ON(mdp5_crtc->event)` of `mdp5_crtc_atomic_flush` never fires.
* `PFSpec`: the CRTC implements `PageFlip` under the mapping `committed <- n`,
  `answered <- sent`, with its fairness: every commit is answered in the end.
* `FramesKept`: pipes, mixer and layers on the screen are of one commit
  (`NoTear`); what is scanned out is mapped (`FbKept`); once
  `mdp5_vid_encoder_disable` is over, the timing engine has stopped
  (`DisableLatched`). It does not count the first frame of an engine that was
  stopped and started again (`FirstFrame`): a CTL that kept its power can latch
  the flush of the commit that turned the CRTC off, when the engine starts
  between that flush and its own. The frame is that of a panel not yet on.
* `FlipShown`: when the event of a plain flip is sent, its frame has been
  latched by every half. `Shown`: the frame of the last commit to a CRTC that
  is on gets to the screen, also when a modeset holds its flush back.

*Split planes.*
* `SidesAgree`: the three places that decide which half a pipe belongs to
  agree, and the columns a pipe is programmed for are those of the plane on
  that half, no more and no fewer.
* `OnePicture`: the screen, computed column by column from the latched
  registers and layers, is at any time the picture of the last commit or of the
  one before: each column shows the planes that cover it, each with the column
  of its framebuffer that belongs there.

*Pipeline.*
* `MixersOwned`: a CRTC's state and the shared table name the same mixers
  (`TableAgrees`), through assignments and failing checks. No step of the run
  releases a mixer, as no CRTC changes how many it has (`Switches = {}`); what the
  next check would release is looked at in every state instead, for every request
  (`ReleaseComplete`): it is all the CRTC would not use any more, and nothing of
  another CRTC. It may be too much: that a mixer still in use is set free is a flaw
  of the code (section 5), for which `NoSharedMixer` is stated.
* `MixersPaired`: a picture that needs two mixers gets a pair the hardware can
  join, a command-mode display a mixer with a ping-pong block, and a request is
  not refused while the table has what it needs.
* `RoutesSound`: two shown CRTCs share no interface, CTL or vertical blank;
  timing engines, split block, vsync clock, power references and interrupt
  handlers are those of the displays that are on, and of nothing else.
* `PictureTrue`: mixers, interfaces and counters agree: the columns and lines
  mixed are those scanned (`PictureFits`), the line user space is told is the
  one being scanned (`ScanoutTrue`), and the ping-pong block of a command-mode
  display blanks at half its refresh rate, as the comment at
  `mdp5_cmd_encoder.c:55` has it, and reports each picture (`TearTrue`).
* `BringUpSound`: what comes up on any chip can be driven: blocks can be
  flushed, memory ports do not clash, the pool holds a plane as wide as a mixer
  for each CRTC, CTLs are not shared.

*Cursor.*
* `PinsBalanced`: every pin of an image is the shown cursor's, a call's or the
  list's. `CursorKept`: what the mixer scans is pinned. `PinsReturned`: what
  was replaced is given back in the end.
* `PictureSound`: at rest the screen shows the cursor that was asked for last,
  and each of its columns the column of the image that lies over it where the
  cursor was put (`CursorPlaced`); the mixer reads within the image at any time.
  With START_XY not restored, or not cut at the left edge, it fails.

*GEM.*
* `PinsBalanced`: the pins of an object are its users' and its queued job's,
  whatever failed on the way.
* `MemorySound`: what is used has its pages, the shrinker's lists tell the
  truth, no mapping outlives the pages, the books of the carve-out are exact,
  an address told stays true, no thread dies on a missing file or node.
* `WillNeedKept`: an object its owner did not give up keeps its contents.
  `AdviceTaken`: `madvise` ends: no lock is left behind by a thread that died.

*Panel.*
* `PowerSound`: supplies, reset and enable line balance after every failure,
  and no command goes to a host without power.
* `PictureSound`: when the driver reports a lit panel, each link was told to
  wake and to light up and nothing undid it; the two-link mode halves into the
  one-link mode. `SwitchEnds`: switching ends though the panel never wakes.

*Wi-Fi.*
* `ScanBooksAgree`: the driver holds a request exactly while mac80211 waits for
  its completion, through `stop`, cancel and the indication; the firmware scans
  for mac80211 or not at all; and a scan that was reported is over in the
  firmware, except in the middle of `stop`.
* `ScanSound`: the firmware's scan session is opened and closed in order, also
  when commands that open it fail; data is sent outside a session as long as
  none of the scan's commands failed; and after the scan the radio is where
  mac80211 believes.
* `LinkAgrees`: what is sent encrypted has a key in the firmware, which holds
  the pairwise and the group key exactly as long as mac80211 has them;
  aggregation and rates are the same in driver, firmware and mac80211.
* `DeviceUnwinds`: what probe, start and suspend did is undone by their
  counterparts, and by their failures but for two state bits and three
  offloads. `CancelEnds`: a cancelled scan is reported.

*Regulator.*
* `RequestsServed`: for a request some set point meets a selector is found, in
  whatever range the rail is; a rail that can be read (`Readable`) grants it and
  can be read from then on; what is granted is what the rail puts out and reads
  back, and the core waits until the ramp is over. A rail with a ramp that boot
  software left where it cannot be read is granted nothing (section 5).
* `SettingsHeld`: mode, pins and input limit survive voltages, loads and bypass.
  Of the newer layouts this is the mode asked for by name: a load leaves it in
  its bits, and writes others (section 5).
* `RetriesBounded`, `Retried`: between an enable and giving up a switch is
  closed again at most `ocp_max_retries` times, and it is closed again.

### 3.2 The run that finds a disagreement

`crtc_split_kept` checks `FbKept` on a split display, and TLC shows it violated:
`crtc_flush` returns the bits of the left CTL only, so the wait for the flush
looks at the left CTL; a vsync between the two FLUSH writes leaves the right
half on the old framebuffer when it is unmapped, which the comment at
`mdp5_crtc.c:116` rules out. The quotation is in `PROJECT.json` under
`findings`. Other disagreements met while modelling are in section 5, each with
the constants that show it.

### 3.3 Bounds, and why they are enough

*Resources.* Two planes are the fewest that compete; a third would only repeat
the roles of owner and competitor. Two twin pipes are the fewest with a
right-hand pipe, and since both planes can ask for it every way of running out
occurs: no pipe, no blocks for the left pipe, no blocks for the right one. The
pool is smaller than the sum of what can be asked for, so it runs out in the
middle of a plane. `res_owners` has clients with and without reserved blocks,
a request with two components, and a third pipe, so that a plane can move and
the pipe it left be taken by another. It has no overlap because
`LiveWatermarks` fails with it; that `OwnersAgree` and `NoImmediateReuse` hold
with overlap too is what the theorems `OwnersCorrect` and `NoReuse` say. There
is no bound on the number of commits or suspends: the state space is finite.

*CRTC.* `MaxCommits` bounds commits. Four are enough to turn on, change the
mode, turn off and on again with one flip in between; an event can only be
confused with that of the commit before or after, as at most two are
outstanding (which `PFSpec` checks and `ImplementsPageFlip` proves). The
frames run has five, so that a full off and on cycle is followed by a flip. It
is confined to one half, to tails without overlap and to interrupts that do not
lag because parts of it fail beyond that (section 5).

*Split planes.* Seven columns are odd, so the right half has a column no
mixer shows, and the seam is at three. The requests are a plane that ends at
the seam, one that begins at it, one across it that hangs over the left edge,
one across it that is reduced by two, and a reduced one over the right edge:
planes change sides, gain and lose their second pipe, overlap and vanish. Two
planes are the fewest that can exchange pipes, and three pipes run out when
both want two. The pipes are interchangeable and the run checks invariants
only, so symmetry is sound. `SidesCorrect` and `PictureCorrect` cover the other
sizes.

*Pipeline.* Every chip is there; boards with two pictures are kept to three
chips, which have the three ways of sharing: a split pair beside HDMI, two DSI
links with one display mixer, a command-mode panel beside HDMI. One panel mode
(this tablet's) and two HDMI modes, one of which needs two mixers. Nothing
bounds the number of commits.

*Cursor.* An image of two columns on a screen of three hangs over either edge
or neither, and then lies in one of two places, which only START_XY tells apart.
Two images are the fewest that replace each other. `MCEnvs` has a user space that
waits with prompt and with late interrupts, and one that does not wait; `pins`
bounds how often an image may be pinned at once, `moves` where the cursor is moved
to: all places in the first surroundings, the edges in the second, and for the user
space that does not wait, of which no property has the place, one.

*GEM.* One object that the hardware uses and one that only processes map, one
page of carve-out they compete for, one use of each kind. The devices are this
tablet (carve-out only, no swap), an IOMMU with swap, and an IOMMU beside a
carve-out, where `msm_gem_new` chooses by its flags.

*Panel.* The four attempts of the code; two polls stand for its twelve, as the
loop only counts them. `MaxSupplies` is reached by adopting the bootloader's
panel again and again. `reinit` is written in steady state.

*Wi-Fi.* One channel of each band, so that leaving and returning differ; masks
with all rates, without the first, and with a gap. `MCFaults` are the faults
the properties withstand; the others are in section 5.

*Regulator.* A device for each layout of registers and each table with a
trimmed range; requests at and around the ends of every range (`Marks`).
`MaxRetries` is 3: first retry, one in the middle, last. `MaxShorts` lets the
switch trip through two enables.

`CHECK_DEADLOCK FALSE` stands where the system may rest for good: `crtc_*` (the
bound on commits is reached and the CRTC is off), `pipeline` (bring-up failed,
or nothing is connected to the board) and `regulator` (registration failed, or
a rail that is left alone). The other seven runs check that the system never
stops.

### 3.4 Fairness

| Module | Assumed | Why |
|---|---|---|
| `Mdp5Crtc` | strong fairness of `Tail`, weak of `Irq` and `Vsync` | the tail is a kernel worker, which runs also if interrupts keep coming between; an enabled and pending interrupt stays so until handled; the timing engine is a clock |
| `Mdp5Cursor` | weak fairness of the call, tail, both halves of the handler, worker and vsync | a call that has begun, the worker and the tail are scheduled; the others as above |
| `MsmGem` | weak fairness of the shrinker once it has picked an object, strong of a waiting `madvise` | the first is in the middle of its function; the second waits for a lock others take and release |
| `R63319Panel` | weak fairness of a switch that has begun and of a begun write to `reinit` | both run in a thread that only sleeps for a set time |
| `SpmiRegulator` | weak fairness of the handler's and the work's steps | interrupt thread and workqueue are scheduled |
| `Wcn36xx` | weak fairness of the answer to a stop | the firmware answers a stopped scan; nothing else of it is assumed |

Nobody has to commit, call, switch, scan or give advice: requests have no
fairness. `Mdp5Resources`, `SplitPlane` and `Mdp5Pipeline` have none, for none
of their promises is that something happens.

## 4. Proofs

The theorems hold for every value of the constants within the named assumptions
of the modules (`ResourceAssumption`, `FlushAssumption`, `CrtcAssumption`,
`SplitAssumption`, `ModesAssumption`, `BoardsAssumption`, `GemAssumption`,
`PanelAssumption`, `SpmiAssumption`, `WcnAssumption`, `CursorAssumption`), which
say what the constants are, and within what the theorem itself assumes. TLC
evaluates the assumptions in every run, and the inductive invariants were
checked with TLC before they were proved.

`Mdp5Resources_proofs`:

| Theorem | States | By |
|---|---|---|
| `TypeCorrect` | `Spec => []TypeOK` | `TypeOK` is inductive |
| `PoolCorrect` | `Spec => []PoolConsistent` | inductive with `TypeOK`; a request takes free blocks only |
| `LeakFree` | `Spec => []NothingLeaks` | with `SuspendInv`: while suspended no plane names a pipe, so the stale names of the duplicate do no harm |
| `RegsCorrect` | `Spec => []RegsMatchPool` | with `RegsInv`: a client not in the pending set is recorded already, and a check only takes blocks for pipes it adds to the set |
| `OwnersCorrect` | `[]OwnersAgree` without right-hand pipes and suspend | with agreement of the check's own state, and that a free pipe is named by nobody |
| `NoReuse` | `NoImmediateReuse` under the same assumptions | the same invariant: an assigned pipe was free in the committed state |
| `SmpCorrect` | `[]SmpServes` (`BlocksCoverPlane`, `LiveWatermarks`) without right-hand pipes, suspend and overlapping checks | `CoverInv`: what a check or a tail holds for a pipe covers the request of the plane that names it, and a pipe on the screen keeps its watermarks until the vsync takes it off |

The assumptions of the last three are needed; section 5 shows what happens
without.

`Mdp5Crtc_proofs`: `TypeCorrect` (only FLUSH bits the hardware has are written
or held back), `EventsKept` (`Spec => []NoLostEvent`) and `ImplementsPageFlip`
(`Spec => PFSafety`: initial states map to initial states and every step to a
step or a stutter). The inductive invariant is `TypeOK`, `Room` and three
parts. `Outstanding` lists the four places the events of the last two commits
can be in; the case of two outstanding events is confined to the wait for the
previous commit. `Untaken` says that until the tail takes the event of its
commit, it is in `crtc->state` only. `OffAnswered` says that the event of a
commit that turns the CRTC off is answered by `mdp5_crtc_atomic_disable` before
the tail leaves the disable path; without it the invariant is not inductive, as
a later commit to a CRTC that is off would be answered out of turn.

Two more are about the screen, for one half and with neither overlapping checks
nor lagging interrupts (`OneHalf`, the instance `crtc_frames` checks):
`FramesCorrect` (`[]FramesKept`: no frame is torn, no framebuffer is released
while it is scanned out, ENABLE=0 is waited out) and `FlipsCorrect`
(`FlipShown`). Their invariant ties each step of the tail to what is in the
registers, what is flushed and what is on the screen, and the wait of the tail
to the vsync that has come since. Each restriction is needed: section 5 says
what an interrupt that lags breaks, and the finding is that two halves tear.

`SplitPlane_proofs`:

| Theorem | States | By |
|---|---|---|
| `TypeCorrect` | `Spec => []TypeOK` | inductive with `PipesFit`: a visible plane has a pipe, and a second one exactly when it crosses the seam |
| `SidesCorrect` | `Spec => []SidesAgree`, for any width, size and scale | follows from `PipesFit` in each of the positions a plane can have |
| `PictureCorrect` | `[]OnePicture` for planes that are not scaled, with no vsync between the FLUSH writes | `PictureInv` |
| `ModeSetSucceeds` | a plane not enlarged, and reduced eight times at most, is programmed | the least source a half can have is its width |

`PictureInv` says that no two planes share a pipe (`Apart`, in the committed
state and in the check), that what is latched is the staging and programming of
the state on the screen (`OnScreen`), that what is written is that of the new
state from the step of the tail on that writes it (`Written`), which blocks are
flushed at which step (`Flushing`), and that checks wait for the tail
(`Checking`). The step that needs all of it is the vsync: it finds either
nothing flushed or the whole commit. That the columns then agree is
`FetchedIsSource`, where the scaler's division is exact.

`Mdp5Pipeline_proofs`, for all fifteen chips and any boards, modes and faults,
while no CRTC that has mixers changes their number (`"mixers" \notin Switches`):

| Theorem | States | By |
|---|---|---|
| `MixersAgree` | `[]MixersOwned` | `IInv`; `ReleaseIsComplete` for the release |
| `MixersNotShared` | `[]NoSharedMixer` | the table says who owns a mixer, so two CRTCs can not have the same one |
| `PairsCorrect` | `[]MixersPaired` | with `AllJoined`, and `Routed` for the ping-pong block of a command-mode display |
| `RoutesCorrect` | `[]RoutesSound`, if also no split or command-mode display makes way for another in one commit (`"display" \notin Switches`) | `RInv` |
| `PicturesCorrect` | `[]PictureTrue`, under both assumptions and for modes that can be shown (`ModesSane`) | `PInv` |
| `BringUpCorrect` | `[]BringUpSound`, without any of these assumptions | `SInv`, `CrtcsCounted` |

`IInv` adds to `MixersOwned` that the driver has no CRTC before it is up
(`KmsShape`), that the table of owners covers the mixers (`OwnerShape`) and that
the right half of a picture is never its left mixer (`HalvesApart`); the lemmas
about `lm_right_pair` and the choice of the loop in `mdp5_mixer_assign` carry it.

`RInv` follows a route from its end. `EncodersBuilt` shows by the five calls of
`modeset_init_intf` that each encoder of a board has an interface and a CTL of
its own, and `TablesWires` and `TablesPingPongs` what all fifteen tables have in
common: only interfaces 1 and 2 are DSI ones, and in a chip with ping-pong
blocks each front mixer has one. `Routed` says that a CRTC's state names the
pipeline of its encoder and of the half it borrows, also after the encoder was
given to another CRTC; `HoldersApart` that no encoder is in the hands of two
CRTCs, the tails included. `Active` is the encoder that is on for a CRTC at each
step of its tail: the old one until it is disabled, the new one from when it is
enabled. The tail disables by the *new* state of the CRTC (`Undoes`), and that
this undoes the old pipeline is where `"display" \notin Switches` is needed.
`Driven` then says of the registers, and `Counted` of the clock and the power
references, that they are those of the encoders that are on, and of the tails.
A command-mode display whose clock fails to start stays off, and takes nothing.

`PInv` adds what a display that is on and whose tail is done finds in the
registers (`AllProgrammed`): the mixers' widths (`MixersProgrammed`), which CTL
takes which mixers to which interface (`RouteProgrammed`), the timing and the
tear checks of the mode (`TimingProgrammed`, `TearProgrammed`), and of its state
that the mode is a sane one and that a split display has two mixers
(`AllWanted`). Enabling writes all of it for one CRTC; that no other CRTC writes
any of these registers is `RInv` again. The rest is arithmetic: halves of an
even width add up, and a position counted from the start of the sync is one from
the start of the picture. `ModesSane` is what that needs, and no more (section
5): an even width no larger than the whole line, two lines of front porch, a
refresh rate.

`BringUpCorrect` reads the fifteen tables: where flush bits stand (`MaskFits`),
where the ports of each kind start (`Ported`), what tied blocks add up to
(`Pooled`, whose recursive sum is unfolded for the tables there are), and that a
line takes two or four blocks (`LineOf`). `CrtcsCounted` and the interfaces of
the encoders bound the CRTCs: three displays, or one on a chip with one link.

`MsmGem_proofs`: `PinsAlwaysBalanced` and `UsedStaysBacked` (the shrinker never
takes the pages of an object that is pinned or in a job's hands). The invariant
is about one object (`Sound`): its fields (`Counted`), its pins and mappings
(`Balanced`), that a pin of the display has a vma to be undone through
(`Undoable`), without which the error path of the pin would drop another's, and
its pages (`Backed`). A lemma per helper says what it preserves, one per action
puts them together.

`MemoryStaysSound` (`[]MemorySound`) and `ContentsKept` (`[]WillNeedKept`) are
for devices that can keep what their objects hold (`DevicesSound`): no swap
behind a carve-out, and no table of pages that cannot be built on an IOMMU.
This tablet is such a device; section 5 says what swap breaks. The invariant
`MInv` says of every live object where its page, address, mappings and list
agree (`Good`), of a dead one that nothing is left of it, and of the carve-out
that its pages are one to an object (`MemInv`), from which the cardinalities
follow by a bijection. Every action changes one object, and `StepFrame` turns
what it does to that object into what it does to the books.

`Supplies_proofs`, of the panel: `PanelPowerSound`, `[]PowerSound` unless `reinit` is
written in the middle of a switch. The invariant says which part of a switch
holds the hosts' power, what the driver has taken so far while it prepares
(`Preparing`), and that a write to `reinit` holds the display where it is.
`PanelPictureSound` (`[]PictureSound`) adds what each link was told by which
step: its registers from `On` on (`Registered`), to wake from the first attempt
on, as long as no command failed (`Told`), with video running so that it does
not fall asleep (`Video`), and that a panel seen awake had power (`Woken`).
That second half is why the first attempt must go to both links.

`Wcn36xx_proofs`, each for any masks, channels and faults but those which
section 5 shows to break the property:

| Theorem | States | Without the faults |
|---|---|---|
| `OffloadedScansTrue` | `[]ScanBooksAgree` | `"hw_scan"`: a start of the scan that the firmware refuses |
| `SoftwareScansSound` | `[]ScanSound` | `"end_scan"`, `"finish_scan"`: the end of a session that it refuses |
| `LinkStaysTrue` | `[]LinkAgrees` | `"add_ba"`: an aggregation session that it refuses |
| `DeviceAlwaysUnwinds` | `[]DeviceUnwinds` | `"suspend_ind"`: a suspend it is not told of |

The invariant of the scans says which session the books of the driver stand for
(`Books`), that the driver scans exactly while mac80211 does (`Turns`), that
mac80211 is off its home channel in one phase only (`Phases`), that there is no
session outside a scan, and in one which began on an access point's channel,
unless a command failed, exactly on the other channels (`Sessions`), that the radio is tuned to the
channel scans return to (`TunedHome`) and awake where they need it (`Awake`).
For the link, the properties of keys and of aggregation are inductive together
with when mac80211 has keys (`KeysInv`) and the origin of the rates in force
(`RatesInv`); `UnwindInv` adds to `DeviceUnwinds` that a suspended device is up,
a device that is up is bound, and what offloads a host may sleep with that has
no access point.

`Mdp5Cursor_proofs`:

| Theorem | States | By |
|---|---|---|
| `PinsCorrect` | `Spec => []PinsBalanced`, whatever user space and interrupts do | `PinsInv` |
| `CursorStaysPinned` | `Spec => []CursorKept` | `KeptInv` |
| `CursorPictureSound` | `Spec => []PictureSound` if all images have one size (`OneSize`) | `ShownInv`, `RoiInv` |
| `CursorStaysShown` | `Spec => []CursorShown`, without that assumption | `ShownInv` |

`PinsInv` adds to the balance which locals of a call are set at which step
(`CallShape`). `KeptInv` is about a user space that waits, the premise of
`CursorKept`, and is built up in layers: no call overlaps a tail, flushes are
deferred from the swap of a modeset to its flush, and the interface runs where
the tail says (`Waiting`, `Deferred`, `Powered`); CTL, call and CRTC agree
whether there is a cursor (`Asked`), and no mixer that runs has a cursor without
a buffer (`Written`); with prompt interrupts, a vsync that was not handled yet
left no flush behind (`Prompt`), so that a replaced buffer is still the call's or
the list's while the hardware reads it (`Pinned`). `ShownInv` follows the layers
and the registers from the writes (`Blended`, `Placed`) through the flush, which
may be held back in `flush_mask` (`Flushed`), to the screen. `RoiInv` keeps
the cursor from hanging over the left edge by more than its width, from which
follows that the sum of `get_roi` never wraps. With both, `DrawnWhere` compares
what the mixer draws in a column of the screen with the column of the image that
lies over it.

`Supplies_proofs`, of the regulator: `RetriesStayBounded`, `[]RetriesBounded` unless a rail
is switched off in the middle of its retry (`Disables = "idle"`). The invariant
says that of handler and work only one is at work on a trip (`Alone`), that a
tripped switch stays open until it is cleared (`Open`), that nothing of a retry
outlives the use it belongs to (`Apart`), and how many clears belong to the
count at every step (`Counts`).

`RailSettingsKept` (same module): `[]SettingsHeld`, for any devices, device
trees, ramps and faults of the SAW; as in the property, a load asks no mode of
the newer layouts, and one above the limit hides the mode they hold. The invariant `RailInv` adds to the property
the fields of the registers that no voltage writes (`RailShape`), that a rail is
as boot software left it until it is registered (`AsBooted`), and that layouts
with numbered modes have no bypass (`Numbered`), without which `GetMode` could
not tell a mode from the bypass bit beside it. `VoltageOnly` is the lemma the
rest leans on: no layout's `set_voltage_sel`, and not the SAW's, disturbs mode,
bypass, pins or limit, whatever its table holds. The arithmetic of
`spmi_regulator_set_ilim` needs a limit that is a natural number
(`SpmiAssumption`).

`RailRequestsServed` (same module): `[]RequestsServed`, for a PMIC without the
rails that section 5 names (a table with gaps that no set point fills, a rate of
zero) and a SAW without faults (`AllServed`); for any such devices of
`supported_regulators[]`, device trees and ramps. It is an argument about the
tables first: `RowKinds` reads the rows, `RangeTablesServe`, `SingleTablesServe`,
`MilliTablesServe` and `SplitTableServes` the tables, and from then on only what
a layout needs of its table is used (`Placed`): ranges that are told apart,
follow each other without a gap and in ever coarser nested steps (`Gapless`),
codes that fit their register. A table has three ranges at most, so that the sum
over the ranges is unfolded once (`FoldsToSum`). A selector then names one set
point (`OneRange`), `select_voltage` and `select_voltage_same_range` find one in
the request when there is one (`Selects`, `SelectsSame`, `Maps`), what is written
for it puts it out and leaves the rail readable (`Puts`, `Decodes`), and what is
read back is what is put out (`Reads`).
`RateSlow` shows that the rate is never zero and never above the ramp, before
and after the products overflow. The invariant `ServeInv` is then short: the row
is one of those, the registers hold codes of its layout, a leader has its
table's first range (`LeaderFirst`), the rate is that of the steps of
registration (`Paced`), the last grant is met, and a rail that was granted one
can be read (`Kept`). The theorem does not say that a rail can be read as boot
software left it, which no table ensures (section 5). `TallyInv` bounds the count of
trips by the trips.

Only model-checked:

* everything about time to come (`Shown`, the liveness of `PFSpec`,
  `PinsReturned`, `AdviceTaken`, `SwitchEnds`, `CancelEnds`, `Retried`) and all
  of fairness, which is outside what the prover does;
* reduced planes in `OnePicture`; of `Mdp5Cursor`, images of several sizes, for
  which the property is false (section 5).

## 5. Known limits

What fails, or is unspecified, beyond the instances above. To reproduce a line,
change the constants of the run as it says and check the property named.

*Resources* (`res_owners.cfg` or `res_pool.cfg`).
* With right-hand pipes `NoImmediateReuse` fails: the search for one
  (`mdp5_pipe.c:64`) does not ask whether it is in use, and takes one that
  another plane shows (`Configs <- SeamConfigs`, `BlkCnt = 2`, `Overlap` and
  `Suspends` false, twin pipes).
* Blocks released by a commit are given out by that same commit and their
  registers rewritten before the vsync (`mdp5_smp.c:88`): `LiveBlocksKept`
  fails (`Configs <- NarrowWide`, twin pipes, `BlkCnt = 3`).
* A check copies the pending `released` set of a tail; the next
  `complete_commit` clears the watermarks of a pipe on the screen
  (`mdp5_kms.c:100`): `LiveWatermarks` fails with `Overlap = TRUE` and
  `Configs <- NarrowWide`.
* Resume assigns the pipe a plane had before, then releases the *old* pipe,
  which is the same one (`mdp5_plane.c:328`): `VisiblePlaneOwnsPipe` fails with
  `Suspends = TRUE`.

*CRTC* (`crtc_frames.cfg`).
* A commit checked during the tail of a modeset copies `defer_start`; its flush
  is held back and nobody writes it (`mdp5_encoder.c:408`): `Shown` fails with
  `Overlap = TRUE`, `IrqLag = TRUE`, `MaxCommits = 3`. With two halves, lagging
  interrupts and no overlap it holds.
* With `IrqLag = TRUE` an interrupt raised by a vsync before the flush, or
  before ENABLE=0, is taken for the one that is waited for: `FlipShown`,
  `DisableLatched` and `FbKept` fail.
* A vsync between ENABLE=0 (`mdp5_encoder.c:259`) and the listener (283) stops
  the engine, and the wait of the disable lasts for its whole 100 ms: the
  listener stays without a vsync and only the time-out, which the model has,
  lets the tail go on. `PFSpec` and `Shown` hold because of it.
* The flush waits have time-outs of 50 ms which the code only logs. With one,
  the tail goes on with the hardware in an unknown state. They are left out;
  the model shows that without a hardware failure these waits end.

*Split planes.* With `VsyncBetween = TRUE` a vsync between the two FLUSH writes
shows the new frame on the left and the old one on the right. A plane enlarged
across the seam may have no source column left of it: `calc_phase_step` refuses,
`mdp5_plane_mode_set` writes neither pipe, and the plane shows whatever those
pipes showed last (`mdp5_plane.c:961`; `ModeSetSucceeds` is the positive half).
A horizontally flipped plane across the seam is mirrored within each half. The
right pipe's scaler gets the left half's step, and the chroma of a cut at an
odd column is off by half a sample. The asynchronous update (`mdp5_plane.c:471`)
programs the pipes of `plane->state` after its check has assigned new ones, and
flushes the left CTL only; it serves cursor planes, which this chip has none of.

*Pipeline* (`pipeline.cfg`).
* Any change of a CRTC's number of mixers assigns first and releases the old
  mixers after, one of which may be new again (`mdp5_crtc.c:659`), and is
  whenever it happens on a board of the run: a mixer in use ends up free, and `NoSharedMixer` fails (`Switches = {"mixers"}`,
  `Boards <- SwitchBoards`, `Faults = {}`).
* A split or command-mode display that makes way for another on the same CRTC
  in one commit leaves SPLIT_DPL_EN set or its `pp_done` handler registered, as
  disabling reads the new state (`mdp5_encoder.c:241`; `Switches = {"display"}`,
  `RoutesSound`).
* `mdp5_get_hw_rev`'s minor number alone decides `rev >= 3`, on MDP 1.x and 3.x
  alike; so the "older than v3" default of `split` covers v3.0 and v3.2, and a
  bonded panel on a later chip drives one link unless `split` is forced. Forced
  with two independent links, both share INTF2 and its CTL. `split` may be
  written at run time.
* A mode of odd width over two mixers or two interfaces loses a column, as each
  half is `hdisplay / 2` (`PictureFits`); one with fewer than two lines of front
  porch has positions that `mdp5_crtc_get_scanout_position` reports as lines of
  the picture (`ScanoutTrue`). No `mode_valid` of the display code refuses them.
  (In `MCModes`, the panel's `hdisplay` 1601, or its `vsync_start` 2561.)
* sdm660 lists a pair for LM2 whose LM5 it lacks, so an assignment of two
  mixers gives up with `-EINVAL` (excepted in `MixerFound`). msm8x36 and
  msm8x76 have two DSI interfaces and one display mixer; msm8x53 counts three
  mixers and lists two; msm8x16 has no ping-pong block.
* Failing to get an address space keeps the power reference taken before
  (`mdp5_kms.c:538`). A bind that is retried with the same `mdp5_kms` keeps
  the counts of the failed one and appends to its arrays (`mdp5_kms.c:595`);
  this is not modelled. `mdp5_cfg` is a global the next probe overwrites.
* A CRTC that is on without a visible plane gets no mixer, and
  `mdp5_crtc_mode_set_nofb` dereferences it; mixers of a CRTC that is off are
  never given back; a plane that grows without a modeset leaves LM_OUT_SIZE and
  CTL_OP as they were; an odd width joined from two mixers loses a column.
* The first line after the picture is told as one more line of it
  (`mdp5_crtc.c`, `>` where `>=` is meant); `ScanoutTrue` excepts that line.
* A mode without a refresh rate, or a vsync clock that cannot be rounded but
  can be enabled, leaves the ping-pong block unprogrammed with its tear check
  on: `mdp5_cmd_encoder_mode_set` ignores the error.

*Cursor.* For a user space that does not wait for its commits: a black frame
between the reset of the layers and their fill (`mdp5_ctl.c:369`), an image
unpinned a frame early, a cursor flush that consumes the `defer_start` of a
modeset so that START is written twice (`mdp5_crtc.c:99`), an address written
before the lock while a tail restores the old one (`mdp5_crtc.c:1050`). A late
interrupt unpins a frame early. After the cursor is switched off its image
stays pinned until the next one. A position clamped for one size is kept for an
image of another (`Sizes` has one element). A column from 65536 on is cut to the 16
bits of START_XY (`mdp5_crtc.c:985`), so that the cursor comes back on the screen;
`CursorPlaced` excepts it. A cursor shown on one mixer cannot
be turned off once the CRTC has two (`mdp5_crtc.c:1033`).

*GEM.* An object of a carve-out that is evicted, with swap configured, comes
back at another page while users keep the address they were told (`IovaValid`
fails with `Devices <- MCSwapping`, `Objects = {1}`, `Slots = {1, 2}`;
`msm_gem.c:898`, against the comment at 615), and its contents are lost. This
tablet has no swap.

*Panel.* `inherit_splash`, which adopts the bootloader's panel, loses count of
the supplies. `reinit` written in the middle of a switch unbalances power
(`ReinitWhen = "any"`). A failed attach leaves the debug context pointing at
freed memory (`panel-samsung-r63319.c:728`), and a debugfs write command ends
its loop with a null token that it then uses (405). A failing disable leaves
`drm_panel` enabled, so the next enable is skipped. Once `accum_err` is set,
the later attempts send nothing. `r63319_prepare` wakes and lights the panel
already, which the comment before `r63319_enable` leaves to enable.

*Wi-Fi* (`wcn.cfg`, `Faults` extended).
* `"hw_scan"` breaks `ScanBooksAgree`, `"suspend_ind"` `IrqBalanced` and
  `AwakeAnswers`, `"add_ba"` `AggAgrees`, and `"toggle"`, writing
  `scan_offload` during a scan, `CancelEnds`.
* Only the result of `init_scan` is looked at (`main.c:395-418`, 719-723). A
  failed `end_scan` is followed by `start_scan`, and a session that a failed
  `end_scan` or `finish_scan` left open outlives the scan, so `ScanProtocol` and
  `BackOnChannel` fail; `sw_scan_init` then survives `stop`, and the next scan
  starts a session in a firmware that was never told of one. After a failed
  `init_scan` or `start_scan` the driver is on no scan channel: the return to
  the operating channel opens a session there, in which data is due
  (`DataOnChannel` excepts scans with a failed command).
* An indication that comes between `scan_lock` and the end of `stop` completes
  the scan a second time (`main.c:299-316`), before mac80211 takes note of the
  first.
* A group key of WEP is copied to the station (598-606). Its removal takes back
  the copy of the interface only (610-617): the station's stays in the
  firmware, and `is_data_encrypted` with it, until the station is removed. A
  WEP group key beside a pairwise key is not modelled: it would overwrite it.
* A failing suspend leaves the ARP, NS and GTK offloads it came to switched on
  in the firmware (`goto out`, 1117-1128), and reports the failure.
* Removing a group key clears `encrypt_type` (`main.c:617`), rekeying data stays
  valid for ever (1182), a station index of 0 is deleted for one never told
  (1081).

*Regulator* (`regulator.cfg`).
* The low-noise and N600 rails refuse requests in the gaps of their tables
  (`Devices <- MCGaps`, `AlwaysGranted`, part of `RequestsServed`).
* A rail with a ramp that boot software left in a range or code its table lacks
  (`ULT_LO_SMPS` in range 1, `FTSMPS` at code 0, millivolts a step below the
  lowest set point) has no selector to start from: `get_voltage_sel` is negative,
  and the core refuses every request for ever (`Readable`). Such rails are in the
  run; `AlwaysGranted` with `Readable` in its first conjunct fails.
* The newer layouts use `common_set_load` (`qcom_spmi-regulator.c:1219-1231`,
  ops 1568, 1596), which writes the common layout's bits: a load above the limit
  sets a bit their mode does not have, and `get_mode` answers IDLE until a
  smaller load clears it; no load changes the mode they hold. `ModeHeld` says
  so; without its exception for that bit it fails.
* `SawFaults = {"range"}`: a rail of the SAW that boot software left in another
  range refuses requests, as the SAW's path cannot change the range
  (`AlwaysGranted`, part of `RequestsServed`); `{"late"}`: a change that is not
  seen in time is reported as done (`RequestMet`).
* `Disables = "any"`: a pending retry closes a switch that was disabled
  (`qcom_spmi-regulator.c:1305`) and `RetriesBounded` fails. The over-current
  interrupt is requested before its work is initialised (2018).
* LDO_510 has a slew rate of 0, which the settling time divides by (934). The
  slew rate is computed once, for the range of registration, and
  `SettleCovered` claims ranges with coarser steps only. Limits above 4000 are
  refused, as the unit of the property is not that of the comment (1275). The
  ULT types ignore pins 0 to 3. `saw_regmap` and `spmi_saw_ops` are one each
  for all PMICs.

## 6. Not modelled

* Planes: flips, vertical direction, scaler filters and pixel extension, CSC,
  blend equations. CRTC: CRC. Panic and line-count registers beyond the scanout
  position. FIFO thresholds by cost, clock rates.
* Error interrupts, `mdp5_smp_dump`, and the debugging parameters of
  `mdp5_irq.c` (dump, peek, poke): reads and writes of registers by hand.
* `mdp5_ctl_pair`, which nothing calls.
* GEM: `cpu_prep`, kernel objects, `describe`, metadata, dumb buffers.
* Panel: backlight levels, the debugfs console.
* Wi-Fi: beaconing modes, filters, transmission, statistics, rekeying data,
  `flush`. The operating channel does not change during a software scan.
* Regulator: adaptive voltage scaling beside the SAW, pull-down, enabling of
  soft start, over-current override, the tables of which PMIC has which rail.
* Headers that only declare, `dsi_cfg.c`, device trees and bindings, upstream
  copies and the patch, boot-image tools, build and session scripts, firmware
  and partition tables: data, or sequential programs without state of their
  own.

## 7. Plan

1. The vertical direction and the scaler's steps in `SplitPlane`, with flips.
2. `FlipShown` for two halves, with the weaker promise that survives the tear.
3. A kernel object and `cpu_prep` in `MsmGem`; time-outs of the flush waits in
   `Mdp5Crtc` with the weaker promise that survives them.
4. The power key and screen scripts, which keep state in files.
