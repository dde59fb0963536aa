-------------------------------- MODULE Mdp5Crtc --------------------------------
(***************************************************************************)
(* One CRTC of the MDP5 driving a video-mode panel, through its encoder and *)
(* one CTL per half of the screen (mdp5_crtc.c, mdp5_encoder.c, mdp5_irq.c, *)
(* mdp5_ctl.c).  A commit is checked and swapped in, then its tail runs     *)
(* against the vsyncs of the timing engine and the interrupts they raise.   *)
(* A commit to an enabled CRTC shows one new framebuffer, named by its      *)
(* number; 0 stands for none.  The cursor, command mode and the time-out of *)
(* the wait for a flush are left out.                                       *)
(***************************************************************************)
EXTENDS Mdp5Ctl

CONSTANTS
  Halves,      \* halves of the screen, a CTL for each; "L" is the master
  MaxCommits,  \* bound: commits made
  Overlap,     \* a commit may be checked while the tail of another runs
  IrqLag       \* the tail may run on while an interrupt waits to be handled

ASSUME CrtcAssumption ==
  /\ Halves \in {{"L"}, {"L", "R"}}
  /\ MaxCommits \in Nat
  /\ {Overlap, IrqLag} \subseteq BOOLEAN

VARIABLES
  n,       \* commits made
  sent,    \* the last commit whose completion event was sent
  cs,      \* crtc->state, of commit n
  chk,     \* the state being checked
  tail,    \* the commit tail: its step, and what it holds in locals
  crtc,    \* struct mdp5_crtc
  ctl,     \* the CTLs, as the driver sees them
  irq,     \* the vblank interrupt: who listens, and what the driver enabled
  hw,      \* the hardware
  pinned   \* framebuffers mapped for scanout

vars == <<n, sent, cs, chk, tail, crtc, ctl, irq, hw, pinned>>

Commits == 0 .. MaxCommits
Waits   == {"wait0", "wait"}
Pcs     == {"idle", "deps", "get0", "get", "encoff", "encflush", "encwait", "vsync",
            "crtcoff", "planes", "take", "blend", "flushL", "flushR", "pend", "crtcon", "timing",
            "enable", "cleanup"} \cup Waits

CrtcState == [enable : BOOLEAN, active : BOOLEAN, defer_start : BOOLEAN,
              event : Commits, fb : Commits]
IrqState  == [vblank : BOOLEAN, wait : BOOLEAN, mask : BOOLEAN, cur : BOOLEAN]
Registers == [Halves -> [Blocks -> Commits]]
HwState   == [engine : {"off", "start", "on"}, timing_en : BOOLEAN,
              flush : [Halves -> SUBSET FlushHwMask], shadow : Registers,
              live : Registers, intr_en : BOOLEAN, intr_status : BOOLEAN]

TypeOK ==
  /\ n \in Commits
  /\ sent \in Commits
  /\ cs \in CrtcState
  /\ chk \in [on : BOOLEAN, enable : BOOLEAN, active : BOOLEAN, mode : BOOLEAN,
              defer_start : BOOLEAN]
  /\ tail \in [pc : Pcs, modeset : BOOLEAN, was_active : BOOLEAN, start : BOOLEAN]
  /\ crtc \in [event : Commits, flushed_mask : SUBSET FlushHwMask, pending : BOOLEAN,
               vblank_on : BOOLEAN]
  /\ ctl \in [Halves -> CtlState]
  /\ irq \in IrqState
  /\ hw \in HwState
  /\ pinned \subseteq Commits

-------------------------------------------------------------------------------
(* Interrupts.                                                             *)

(* update_irq() and mdp5_set_irqmask(): an interrupt that was not enabled  *)
(* before has its stale status cleared first.                              *)
Want(i)         == i.vblank \/ i.wait \/ i.mask
UpdateIrq(i)    == [i EXCEPT !.cur = Want(i)]

(* Mutant: a stale status is left behind.                                  *)
SetIrqmask_KeepsStatus(h, i) == [h EXCEPT !.intr_en = Want(i)]

SetIrqmask(h, i) ==
  [h EXCEPT !.intr_en = Want(i),
            !.intr_status = h.intr_status /\ ~(Want(i) /\ ~i.cur)]

(* A listener comes or goes: i is the list after it.                       *)
Listen(i, h) ==
  /\ irq' = UpdateIrq(i)
  /\ hw' = SetIrqmask(h, i)

(* Mutant: the flip is completed by hand, its event left in the slot.      *)
Completed_KeepsEvent == [crtc EXCEPT !.pending = FALSE]

(* The CRTC after its vblank handler.                                      *)
Completed ==
  [crtc EXCEPT !.pending = FALSE,
               !.event = IF crtc.pending THEN 0 ELSE crtc.event]

(* complete_flip(): a disabled CRTC has its layers set unused.             *)
Unused(h) ==
  IF irq.vblank /\ crtc.pending /\ ~cs.enable
  THEN [h EXCEPT !.shadow = [s \in Halves |-> [h.shadow[s] EXCEPT !["CTL"] = 0]]]
  ELSE h

(* mdp5_irq() with mdp5_crtc_vblank_irq(): whoever listens is told, once.  *)
Irq ==
  /\ hw.intr_en /\ hw.intr_status
  /\ LET left == [irq EXCEPT !.vblank = FALSE, !.wait = FALSE]
     IN  Listen(left, Unused([hw EXCEPT !.intr_status = FALSE]))
  /\ crtc' = IF irq.vblank THEN Completed ELSE crtc
  /\ sent' = IF irq.vblank /\ crtc.pending /\ crtc.event # 0 THEN crtc.event ELSE sent
  /\ ctl' = IF irq.vblank /\ crtc.pending /\ ~cs.enable
            THEN [s \in Halves |-> mdp5_ctl_blend(ctl[s])] ELSE ctl
  /\ UNCHANGED <<n, cs, chk, tail, pinned>>

-------------------------------------------------------------------------------
(* Check and swap.                                                         *)

(* A state is duplicated and checked.  drm_atomic_crtc_needs_modeset() is  *)
(* known here; mdp5_encoder_atomic_check() then defers the start.          *)
NeedsModeset(enable, active, mode) ==
  mode \/ enable # cs.enable \/ active # cs.active

Check(enable, active, mode) ==
  /\ ~chk.on
  /\ n < MaxCommits
  /\ Overlap \/ tail.pc = "idle"
  /\ active => enable
  /\ mode => enable
  /\ enable \/ cs.enable
  /\ chk' = [on |-> TRUE, enable |-> enable, active |-> active, mode |-> mode,
             defer_start |-> \/ enable /\ NeedsModeset(enable, active, mode)
                             \/ cs.defer_start]
  /\ UNCHANGED <<n, sent, cs, tail, crtc, ctl, irq, hw, pinned>>

Discard ==
  /\ chk.on
  /\ chk' = [chk EXCEPT !.on = FALSE]
  /\ UNCHANGED <<n, sent, cs, tail, crtc, ctl, irq, hw, pinned>>

(* The checked state becomes crtc->state once the last tail is done.  A    *)
(* CRTC that is off and stays off has no event: it is answered at once.    *)
Swap ==
  /\ chk.on
  /\ tail.pc = "idle"
  /\ n' = n + 1
  /\ LET shown == IF chk.enable THEN n + 1 ELSE 0
         event == IF cs.active \/ chk.active THEN n + 1 ELSE 0
     IN  /\ cs' = [enable |-> chk.enable, active |-> chk.active,
                   defer_start |-> chk.defer_start, event |-> event, fb |-> shown]
         /\ pinned' = pinned \cup ({shown} \ {0})
         /\ sent' = IF event = 0 THEN n + 1 ELSE sent
  /\ tail' = [tail EXCEPT !.pc = "deps", !.was_active = cs.active,
                          !.modeset = NeedsModeset(chk.enable, chk.active, chk.mode)]
  /\ chk' = [chk EXCEPT !.on = FALSE]
  /\ UNCHANGED <<crtc, ctl, irq, hw>>

-------------------------------------------------------------------------------
(* The commit tail, in the order of msm_atomic_commit_tail().              *)

At(pc) == tail.pc = pc /\ (IrqLag \/ ~(hw.intr_en /\ hw.intr_status))
Goto(pc) == tail' = [tail EXCEPT !.pc = pc]

(* The event of the commit before is awaited.                              *)
Deps ==
  /\ At("deps")
  /\ sent >= n - 1
  /\ Goto("get0")
  /\ UNCHANGED <<n, sent, cs, chk, crtc, ctl, irq, hw, pinned>>

(* After the wait that begins the tail, and after the one that ends it.    *)
AfterWait0 == IF tail.modeset /\ tail.was_active THEN "encoff" ELSE "planes"
AfterWait(pc) == IF pc \in {"get0", "wait0"} THEN AfterWait0 ELSE "cleanup"

(* mdp5_crtc_wait_for_flush_done(): vblank_get() fails on a CRTC that is   *)
(* off.                                                                    *)
VblankGet(pc, next) ==
  /\ At(pc)
  /\ IF crtc.vblank_on
     THEN Goto(next) /\ Listen([irq EXCEPT !.mask = TRUE], hw)
     ELSE Goto(AfterWait(pc)) /\ UNCHANGED <<irq, hw>>
  /\ UNCHANGED <<n, sent, cs, chk, crtc, ctl, pinned>>

(* Mutant: any vsync will do.                                              *)
FlushDone_AnyVsync == TRUE

FlushDone == hw.flush["L"] \cap crtc.flushed_mask = {}

WaitFlush(pc) ==
  /\ At(pc)
  /\ FlushDone
  /\ crtc' = [crtc EXCEPT !.flushed_mask = {}]
  /\ Goto(AfterWait(pc))
  /\ UNCHANGED <<n, sent, cs, chk, ctl, irq, hw, pinned>>

(* mdp5_ctl_commit() of mask by the CTLs of the halves s.                  *)
Write(h, s, mask, start) ==
  [h EXCEPT !.flush = [x \in Halves |->
     IF x \in s THEN h.flush[x] \cup Flushed(ctl[x], mask, start) ELSE h.flush[x]]]

CtlCommit(s, mask, start) ==
  ctl' = [x \in Halves |->
            IF x \in s THEN mdp5_ctl_commit(ctl[x], mask, start) ELSE ctl[x]]

(* mdp5_vid_encoder_disable() writes ENABLE=0,                             *)
EngineStop ==
  /\ At("encoff")
  /\ hw' = [hw EXCEPT !.timing_en = FALSE]
  /\ Goto("encflush")
  /\ UNCHANGED <<n, sent, cs, chk, crtc, ctl, irq, pinned>>

(* flushes it,                                                             *)
EncoderDisable ==
  /\ At("encflush")
  /\ CtlCommit(Halves, {"TIMING"}, TRUE)
  /\ hw' = Write(hw, Halves, {"TIMING"}, TRUE)
  /\ Goto("encwait")
  /\ UNCHANGED <<n, sent, cs, chk, crtc, irq, pinned>>

(* and only then listens for a vsync: the one that latched it may be over. *)
IrqWait ==
  /\ At("encwait")
  /\ Listen([irq EXCEPT !.wait = TRUE], hw)
  /\ Goto("vsync")
  /\ UNCHANGED <<n, sent, cs, chk, crtc, ctl, pinned>>

(* mdp_irq_wait() returns,                                                 *)
EncoderDisabled ==
  /\ At("vsync")
  /\ ~irq.wait
  /\ Goto("crtcoff")
  /\ UNCHANGED <<n, sent, cs, chk, crtc, ctl, irq, hw, pinned>>

(* or gives up after 100 ms, several frames: with the engine stopped and   *)
(* its last vsync handled nobody will tell the listener.                   *)
NoVsync == hw.engine = "off" /\ ~(hw.intr_en /\ hw.intr_status)

WaitTimesOut ==
  /\ At("vsync")
  /\ irq.wait
  /\ NoVsync
  /\ Listen([irq EXCEPT !.wait = FALSE], hw)
  /\ Goto("crtcoff")
  /\ UNCHANGED <<n, sent, cs, chk, crtc, ctl, pinned>>

SendsAtDisable == cs.event # 0 /\ ~cs.active

(* mdp5_crtc_atomic_disable(): the event of a commit that turns the CRTC   *)
(* off is sent here, as no vsync will come.                                *)
CrtcDisable ==
  /\ At("crtcoff")
  /\ crtc' = [crtc EXCEPT !.vblank_on = FALSE]
  /\ Listen([irq EXCEPT !.mask = FALSE], hw)
  /\ sent' = IF SendsAtDisable THEN cs.event ELSE sent
  /\ cs' = IF SendsAtDisable THEN [cs EXCEPT !.event = 0] ELSE cs
  /\ Goto("planes")
  /\ UNCHANGED <<n, chk, ctl, pinned>>

(* Software writes block b of both halves; a flush makes it live.          *)
Program(bs) ==
  hw' = [hw EXCEPT !.shadow = [s \in Halves |->
           [b \in Blocks |-> IF b \in bs THEN cs.fb ELSE hw.shadow[s][b]]]]

(* mdp5_plane_atomic_update(): a hidden plane's pipes are left as they are.*)
Planes ==
  /\ At("planes")
  /\ IF cs.fb # 0 THEN Program({"PIPE"}) ELSE UNCHANGED hw
  /\ Goto("take")
  /\ UNCHANGED <<n, sent, cs, chk, crtc, ctl, irq, pinned>>

(* mdp5_crtc_atomic_flush() takes the event,                               *)
TakeEvent ==
  /\ At("take")
  /\ crtc' = [crtc EXCEPT !.event = cs.event]
  /\ cs' = [cs EXCEPT !.event = 0]
  /\ Goto("blend")
  /\ UNCHANGED <<n, sent, chk, ctl, irq, hw, pinned>>

(* writes the mixers and the layers,                                       *)
BlendSetup ==
  /\ At("blend")
  /\ Program({"LM", "CTL"})
  /\ ctl' = [s \in Halves |-> mdp5_ctl_blend(ctl[s])]
  /\ Goto("flushL")
  /\ UNCHANGED <<n, sent, cs, chk, crtc, irq, pinned>>

(* flushes the left half,                                                  *)
FlushMask == IF cs.fb = 0 THEN {"LM"} ELSE {"PIPE", "LM"}

FlushLeft ==
  /\ At("flushL")
  /\ LET start == ~cs.defer_start
     IN  /\ hw' = Write(hw, {"L"}, FlushMask, start)
         /\ CtlCommit({"L"}, FlushMask, start)
         /\ tail' = [tail EXCEPT !.pc = IF Halves = {"L"} THEN "pend" ELSE "flushR",
                                 !.start = start]
  /\ cs' = [cs EXCEPT !.defer_start = FALSE]
  /\ crtc' = [crtc EXCEPT !.flushed_mask = FlushBits(ctl["L"], FlushMask)]
  /\ UNCHANGED <<n, sent, chk, irq, pinned>>

(* then the right one,                                                     *)
FlushRight ==
  /\ At("flushR")
  /\ hw' = Write(hw, {"R"}, FlushMask, tail.start)
  /\ CtlCommit({"R"}, FlushMask, tail.start)
  /\ Goto("pend")
  /\ UNCHANGED <<n, sent, cs, chk, crtc, irq, pinned>>

(* Mutant: no vblank is asked for while the CRTC is off.                   *)
MustRegister_IfOn == ~irq.vblank /\ crtc.vblank_on

MustRegister == ~irq.vblank

(* and asks for the next vblank: request_pending() registers once.         *)
RequestPending ==
  /\ At("pend")
  /\ crtc' = [crtc EXCEPT !.pending = TRUE]
  /\ IF MustRegister THEN Listen([irq EXCEPT !.vblank = TRUE], hw) ELSE UNCHANGED <<irq, hw>>
  /\ Goto(IF tail.modeset /\ cs.active THEN "crtcon" ELSE "get")
  /\ UNCHANGED <<n, sent, cs, chk, ctl, pinned>>

(* mdp5_crtc_atomic_enable().                                              *)
CrtcEnable ==
  /\ At("crtcon")
  /\ crtc' = [crtc EXCEPT !.vblank_on = TRUE]
  /\ Goto("timing")
  /\ UNCHANGED <<n, sent, cs, chk, ctl, irq, hw, pinned>>

(* mdp5_vid_encoder_mode_set() updates the interrupts, and                 *)
(* mdp5_vid_encoder_enable() starts the timing engine,                     *)
EngineStart ==
  /\ At("timing")
  /\ Listen(irq, [hw EXCEPT !.timing_en = TRUE,
                            !.engine = IF hw.engine = "off" THEN "start" ELSE hw.engine])
  /\ Goto("enable")
  /\ UNCHANGED <<n, sent, cs, chk, crtc, ctl, pinned>>

(* then flushes what was held back.                                        *)
EncoderEnable ==
  /\ At("enable")
  /\ hw' = Write(hw, Halves, {"TIMING"}, TRUE)
  /\ CtlCommit(Halves, {"TIMING"}, TRUE)
  /\ Goto("get")
  /\ UNCHANGED <<n, sent, cs, chk, crtc, irq, pinned>>

(* hw_done, and the framebuffers of the state before are unmapped.         *)
Cleanup ==
  /\ At("cleanup")
  /\ pinned' = {cs.fb} \ {0}
  /\ Goto("idle")
  /\ UNCHANGED <<n, sent, cs, chk, crtc, ctl, irq, hw>>

Tail ==
  \/ Deps
  \/ VblankGet("get0", "wait0")
  \/ VblankGet("get", "wait")
  \/ \E pc \in Waits : WaitFlush(pc)
  \/ EngineStop \/ EncoderDisable \/ IrqWait \/ EncoderDisabled \/ WaitTimesOut
  \/ CrtcDisable
  \/ Planes \/ TakeEvent \/ BlendSetup \/ FlushLeft \/ FlushRight \/ RequestPending
  \/ CrtcEnable \/ EngineStart \/ EncoderEnable
  \/ Cleanup

-------------------------------------------------------------------------------
(* The hardware, and the power domain around it.                           *)

Latched(s) ==
  [b \in Blocks |-> IF b \in hw.flush[s] THEN hw.shadow[s][b] ELSE hw.live[s][b]]

(* A frame ends.  What was flushed is taken over, and a timing engine that *)
(* was told to stop does so.                                               *)
Vsync ==
  /\ hw.engine # "off"
  /\ hw' = [hw EXCEPT !.live = [s \in Halves |-> Latched(s)],
                      !.flush = [s \in Halves |-> {}],
                      !.intr_status = TRUE,
                      !.engine = IF hw.timing_en THEN "on" ELSE "off"]
  /\ UNCHANGED <<n, sent, cs, chk, tail, crtc, ctl, irq, pinned>>

(* mdp5_disable_vblank(), from the timer that runs when nobody waits.      *)
DisableVblank ==
  /\ irq.mask /\ tail.pc \notin Waits
  /\ Listen([irq EXCEPT !.mask = FALSE], hw)
  /\ UNCHANGED <<n, sent, cs, chk, tail, crtc, ctl, pinned>>

Blank == [s \in Halves |-> [b \in Blocks |-> 0]]
PoweredOn ==
  [engine |-> "off", timing_en |-> FALSE, flush |-> [s \in Halves |-> {}],
   shadow |-> Blank, live |-> Blank, intr_en |-> FALSE, intr_status |-> FALSE]

(* mdp5_disable_commit() gives up the last reference to the power domain.  *)
PowerCollapse ==
  /\ tail.pc = "idle" /\ ~cs.active
  /\ hw' = PoweredOn
  /\ UNCHANGED <<n, sent, cs, chk, tail, crtc, ctl, irq, pinned>>

Init ==
  /\ n = 0 /\ sent = 0
  /\ cs = [enable |-> FALSE, active |-> FALSE, defer_start |-> FALSE, event |-> 0, fb |-> 0]
  /\ chk = [on |-> FALSE, enable |-> FALSE, active |-> FALSE, mode |-> FALSE,
            defer_start |-> FALSE]
  /\ tail = [pc |-> "idle", modeset |-> FALSE, was_active |-> FALSE, start |-> FALSE]
  /\ crtc = [event |-> 0, flushed_mask |-> {}, pending |-> FALSE, vblank_on |-> FALSE]
  /\ ctl = [s \in Halves |-> FreshCtl]
  /\ irq = [vblank |-> FALSE, wait |-> FALSE, mask |-> FALSE, cur |-> FALSE]
  /\ hw = PoweredOn
  /\ pinned = {}

Next ==
  \/ \E enable, active, mode \in BOOLEAN : Check(enable, active, mode)
  \/ Discard
  \/ Swap
  \/ Tail
  \/ Irq
  \/ Vsync
  \/ DisableVblank
  \/ PowerCollapse

(* The tail is a worker the kernel schedules, also between the interrupts  *)
(* that go first without IrqLag; the panel's clock runs on, and an enabled *)
(* interrupt is taken.  Nobody has to commit.                              *)
Spec == Init /\ [][Next]_vars /\ SF_vars(Tail) /\ WF_vars(Irq) /\ WF_vars(Vsync)

-------------------------------------------------------------------------------
(* Properties.                                                             *)

(* No completion event is lost: the event of every commit not yet answered *)
(* is in crtc->state or in mdp5_crtc->event, which atomic_flush() warns of *)
(* overwriting, and no event of an answered commit is left in either.      *)
NoLostEvent ==
  /\ {cs.event, crtc.event} \ {0} = (sent + 1) .. n
  /\ cs.event = crtc.event => cs.event = 0

(* The compositor gets one event for every commit, in order, at most two   *)
(* are outstanding, and each comes in the end, though the encoder may wait *)
(* for a vsync that is over: the CRTC implements a page flip queue.        *)
PF == INSTANCE PageFlip WITH committed <- n, answered <- sent, MaxPending <- 2
PFSpec   == PF!Spec
PFSafety == PF!Safety

(* A half on the screen.  Not counted is the first frame of a timing       *)
(* engine started again: a CTL that kept its power may take over, before   *)
(* its own flush, the one of the commit that turned the CRTC off.          *)
FirstFrame == tail.modeset /\ tail.pc \in {"enable", "get", "wait"}
Scanned(s) == hw.engine = "on" /\ hw.live[s]["CTL"] # 0 /\ ~FirstFrame

(* A half on the screen is composed from one frame: the pipes, the mixer   *)
(* and the layers mdp5_ctl_commit() flushes are never of different commits.*)
NoTear ==
  \A s \in Halves : Scanned(s) =>
    hw.live[s]["PIPE"] = hw.live[s]["CTL"] /\ hw.live[s]["LM"] = hw.live[s]["CTL"]

(* A framebuffer being scanned out stays mapped: the waits of the tail     *)
(* outlast the hardware's use of the state before (mdp5_crtc.c:116-120).   *)
FbKept == \A s \in Halves : Scanned(s) => hw.live[s]["PIPE"] \in pinned

(* The frame of a commit to a CRTC that is on reaches the screen, unless   *)
(* another commit comes: no flush that was held back is forgotten          *)
(* (mdp5_encoder.c:399-406).                                               *)
OnScreen(k) == hw.engine = "on" /\ \A s \in Halves : hw.live[s] = [b \in Blocks |-> k]
Shown == \A k \in 1 .. MaxCommits :
           (n = k /\ cs.active) ~> (OnScreen(k) \/ n # k)

(* When the event of a plain page flip is sent, its frame has been taken   *)
(* over by the hardware, so that the one before may be reused              *)
(* (mdp5_crtc.c:116-120): the vsync the handler was told of is not one     *)
(* from before the flush.                                                  *)
Flipped(k) == \A s \in Halves : hw.live[s]["PIPE"] = k
FlipShown ==
  [][sent' # sent /\ sent' = n /\ cs.active /\ ~tail.modeset => Flipped(n)]_vars

(* Once the encoder is disabled the timing engine has stopped: the wait    *)
(* for a vsync, whether one comes or was missed, outlasts the frame        *)
(* ENABLE=0 was written in (mdp5_encoder.c:275-282).                       *)
DisableLatched == tail.pc = "crtcoff" => hw.engine = "off"

(* What is on the screen is one frame whose framebuffer is mapped, and what *)
(* was turned off has stopped.                                             *)
FramesKept == NoTear /\ FbKept /\ DisableLatched
==============================================================================
