------------------------------ MODULE Mdp5Cursor ------------------------------
(***************************************************************************)
(* The cursor a layer mixer draws by itself (mdp5_crtc.c, mdp5_ctl.c): the  *)
(* legacy cursor calls of user space, under the lock of the CRTC, against   *)
(* the tail of a commit, which holds no lock any more, the vblank handler,  *)
(* which hands replaced buffers to a worker, and the vsync that latches.    *)
(*                                                                         *)
(* One CRTC, one CTL, and a hardware without a FLUSH bit for the cursor, as *)
(* msm8974 is.  Only columns are counted; lines are treated alike.          *)
(***************************************************************************)
EXTENDS Integers

CONSTANTS
  Buffers,   \* cursor images of user space
  NoBuffer,  \* a buffer pointer or an address that is 0
  Sizes,     \* widths of a cursor image
  XRes,      \* width of the screen
  Envs       \* does user space wait for its commits before a cursor call,
             \* are interrupts handled at once; bounds: pins of one buffer,
             \* columns user space moves the cursor to

ASSUME CursorAssumption ==
    /\ NoBuffer \notin Buffers
    /\ XRes \in 1..65535
    /\ Sizes \subseteq 1..XRes
    /\ Envs \subseteq [waits : BOOLEAN, prompt : BOOLEAN, pins : Nat, moves : SUBSET Int]

VARIABLES
  env,     \* the surroundings, chosen at the start
  cs,      \* crtc->state
  tail,    \* the step of the commit tail
  ioctl,   \* the cursor call under way: its step and its locals
  crtc,    \* struct mdp5_crtc: cursor, pending, vblank
  ctl,     \* struct mdp5_ctl
  irq,     \* the vblank interrupt: raised, and its handler half way
  work,    \* unref_cursor_work: buffers queued, and handed to the worker
  pins,    \* pins of each buffer
  hw       \* the hardware

vars == <<env, cs, tail, ioctl, crtc, ctl, irq, work, pins, hw>>

None == [b \in Buffers |-> 0]

One(b) == [x \in Buffers |-> IF x = b THEN 1 ELSE 0]

Plus(f, g) == [b \in Buffers |-> f[b] + g[b]]

Idle == [pc |-> "idle", bo |-> NoBuffer, width |-> 0, old |-> NoBuffer, enable |-> FALSE]

(* With prompt interrupts nothing else runs while one waits to be handled.   *)
Runs == env.prompt => ~irq.raised /\ ~irq.taking

\* ---------------------------------------------------------------- the CTL

(* Mutant: no flush in place of the cursor's missing bit.                    *)
fix_sw_flush_None(mask) == {}

(* Bits that stand in for a bit this hardware does not have.                 *)
fix_sw_flush(mask) == IF "CURSOR" \in mask THEN {"LM"} ELSE {}

Triggered(mask) == ctl.trigger \intersect mask # {}

(* The bits mdp5_ctl_commit() of mask flushes.                               *)
Bits(mask) ==
    (mask \union fix_sw_flush(mask) \union (IF Triggered(mask) THEN {"CTL"} ELSE {}))
        \intersect {"LM", "CTL"}

(* mdp5_ctl_commit(): at once, or held back until the encoder starts.        *)
Commit(mask, start) ==
    /\ ctl' = [ctl EXCEPT !.trigger = IF Triggered(mask) THEN {} ELSE @,
                          !.flush_mask = IF start THEN {} ELSE @ \union Bits(mask)]
    /\ hw' = IF start THEN [hw EXCEPT !.flush = @ \union Bits(mask) \union ctl.flush_mask]
             ELSE hw

(* Mutant: the blending of planes forgets the cursor.                        *)
CursorOut_Planes == FALSE

(* mdp5_ctl_blend() keeps the cursor as it is.                               *)
CursorOut == ctl.cursor_on

Blend(h, layers) == [h EXCEPT !.layers = [planes |-> layers, cursor |-> CursorOut]]

(* mdp5_ctl_set_cursor(); it refuses two mixers behind one interface.        *)
SetCursor(h, enable) == IF cs.two THEN h ELSE [h EXCEPT !.layers.cursor = enable]

CursorSet(enable) ==
    IF cs.two THEN ctl ELSE [ctl EXCEPT !.cursor_on = enable, !.trigger = {"CURSOR"}]

\* ---------------------------------------------------------------- registers

(* get_roi(), in the unsigned 16 bits the register has: columns of the image *)
(* that are on the screen.                                                   *)
get_roi(x, width) ==
    CASE x \in 0..XRes -> IF width <= XRes - x THEN width ELSE XRes - x
      [] x > XRes -> width
      [] x < 0 -> (width + x) % 65536

(* mdp5_crtc_restore_cursor() for the cursor c: the columns of the image it  *)
(* takes, and START_XY, the column of the screen they begin in.              *)
restore_cursor(h, c) ==
    [h EXCEPT !.regs = [base |-> c.iova, width |-> c.width, roi |-> get_roi(c.x, c.width),
                        src |-> IF c.x < 0 THEN -c.x ELSE 0,
                        start |-> IF c.x < 0 THEN 0 ELSE c.x % 65536]]

\* ---------------------------------------------------------------- ioctls

(* mdp5_crtc_cursor_set() with a buffer, up to its pin; it is refused while  *)
(* there is a right mixer, and before the CRTC has a CTL.                    *)
SetBegin(b, width) ==
    /\ Runs /\ ioctl = Idle
    /\ env.waits => tail.pc = "idle"
    /\ cs.ctl /\ ~cs.two
    /\ pins[b] < env.pins
    /\ pins' = Plus(pins, One(b))
    /\ crtc' = [crtc EXCEPT !.iova = b]
    /\ ioctl' = [Idle EXCEPT !.pc = "write", !.bo = b, !.width = width, !.enable = TRUE]
    /\ UNCHANGED <<env, cs, tail, ctl, irq, work, hw>>

(* The cursor is turned off; the buffer stays with the driver.               *)
OffBegin ==
    /\ Runs /\ ioctl = Idle
    /\ env.waits => tail.pc = "idle"
    /\ cs.ctl /\ ~cs.two
    /\ crtc' = [crtc EXCEPT !.iova = NoBuffer]
    /\ ioctl' = [Idle EXCEPT !.pc = "ctl"]
    /\ UNCHANGED <<env, cs, tail, ctl, irq, work, pins, hw>>

(* Mutant: the old buffer is looked up after the new one was stored.         *)
Replaced_Late(bo) == bo

(* The buffer that bo takes the place of.                                    *)
Replaced(bo) == crtc.scanout_bo

(* Under cursor.lock the buffer is exchanged and the registers written.      *)
SetWrite ==
    /\ Runs /\ ioctl.pc = "write"
    /\ crtc' = [crtc EXCEPT !.scanout_bo = ioctl.bo, !.width = ioctl.width]
    /\ hw' = restore_cursor(hw, crtc')
    /\ ioctl' = [ioctl EXCEPT !.pc = "ctl", !.old = Replaced(ioctl.bo), !.bo = NoBuffer]
    /\ UNCHANGED <<env, cs, tail, ctl, irq, work, pins>>

SetCtl ==
    /\ Runs /\ ioctl.pc = "ctl"
    /\ hw' = SetCursor(hw, ioctl.enable)
    /\ ctl' = CursorSet(ioctl.enable)
    /\ ioctl' = [ioctl EXCEPT !.pc = "flush"]
    /\ UNCHANGED <<env, cs, tail, crtc, irq, work, pins>>

(* crtc_flush() of the cursor; like every flush it ends the deferral.        *)
Flush ==
    /\ Runs /\ ioctl.pc = "flush"
    /\ Commit({"CURSOR"}, ~cs.defer_start)
    /\ cs' = [cs EXCEPT !.defer_start = FALSE]
    /\ ioctl' = IF ioctl.old = NoBuffer THEN Idle ELSE [ioctl EXCEPT !.pc = "queue"]
    /\ UNCHANGED <<env, tail, crtc, irq, work, pins>>

Queue ==
    /\ Runs /\ ioctl.pc = "queue"
    /\ work' = [work EXCEPT !.queued = Plus(@, One(ioctl.old))]
    /\ ioctl' = [ioctl EXCEPT !.pc = "pend", !.old = NoBuffer]
    /\ UNCHANGED <<env, cs, tail, crtc, ctl, irq, pins, hw>>

(* request_pending(): first the bit, then the handler.                       *)
Pend(bit) == [crtc EXCEPT !.pending = @ \union {bit}, !.listening = TRUE]

(* Enabling the interrupt clears a stale one.                                *)
Listen == irq' = [irq EXCEPT !.raised = @ /\ crtc.listening]

SetPend ==
    /\ Runs /\ ioctl.pc = "pend"
    /\ crtc' = Pend("CURSOR")
    /\ Listen
    /\ ioctl' = Idle
    /\ UNCHANGED <<env, cs, tail, ctl, work, pins, hw>>

(* mdp5_crtc_cursor_move(); the cursor is kept from leaving the screen by    *)
(* more than its width.                                                      *)
MoveBegin(x) ==
    /\ Runs /\ ioctl = Idle
    /\ env.waits => tail.pc = "idle"
    /\ cs.enable /\ ~cs.two
    /\ crtc' = [crtc EXCEPT !.x = IF x < -crtc.width THEN -crtc.width ELSE x]
    /\ ioctl' = [Idle EXCEPT !.pc = "move"]
    /\ UNCHANGED <<env, cs, tail, ctl, irq, work, pins, hw>>

MoveWrite ==
    /\ Runs /\ ioctl.pc = "move"
    /\ hw' = restore_cursor(hw, crtc)
    /\ ioctl' = [ioctl EXCEPT !.pc = "flush"]
    /\ UNCHANGED <<env, cs, tail, crtc, ctl, irq, work, pins>>

Ioctl == SetWrite \/ SetCtl \/ Flush \/ Queue \/ SetPend \/ MoveWrite

\* ---------------------------------------------------------------- commits

(* A commit is checked and swapped in: a flip, a modeset, or the CRTC off.   *)
Swap(enable, modeset, two) ==
    /\ Runs /\ ioctl = Idle /\ tail.pc = "idle"
    /\ enable \/ cs.enable
    /\ modeset \/ (enable /\ cs.enable /\ two = cs.two)
    /\ cs' = [enable |-> enable, two |-> two, ctl |-> cs.ctl \/ enable,
              defer_start |-> modeset /\ enable]
    /\ tail' = [pc |-> IF modeset /\ cs.enable THEN "disable" ELSE "reset",
                modeset |-> modeset]
    /\ UNCHANGED <<env, ioctl, crtc, ctl, irq, work, pins, hw>>

(* mdp5_vid_encoder_disable(), its wait for the last frame included.         *)
EncoderOff ==
    /\ Runs /\ tail.pc = "disable"
    /\ ctl' = [ctl EXCEPT !.flush_mask = {}]
    /\ hw' = [hw EXCEPT !.on = FALSE, !.flush = @ \union ctl.flush_mask]
    /\ tail' = [tail EXCEPT !.pc = "reset"]
    /\ UNCHANGED <<env, cs, ioctl, crtc, irq, work, pins>>

(* mdp5_ctl_blend() empties the layer registers,                             *)
BlendReset ==
    /\ Runs /\ tail.pc = "reset"
    /\ hw' = [hw EXCEPT !.layers = [planes |-> FALSE, cursor |-> FALSE]]
    /\ tail' = [tail EXCEPT !.pc = "blend"]
    /\ UNCHANGED <<env, cs, ioctl, crtc, ctl, irq, work, pins>>

(* and, holding their lock anew, fills them.                                 *)
BlendSetup ==
    /\ Runs /\ tail.pc = "blend"
    /\ hw' = Blend(hw, cs.enable)
    /\ ctl' = [ctl EXCEPT !.trigger = {"LM"}]
    /\ tail' = [tail EXCEPT !.pc = "flush"]
    /\ UNCHANGED <<env, cs, ioctl, crtc, irq, work, pins>>

FlushAll ==
    /\ Runs /\ tail.pc = "flush"
    /\ Commit({"LM"}, ~cs.defer_start)
    /\ cs' = [cs EXCEPT !.defer_start = FALSE]
    /\ tail' = [tail EXCEPT !.pc = "pend"]
    /\ UNCHANGED <<env, ioctl, crtc, irq, work, pins>>

FlipPend ==
    /\ Runs /\ tail.pc = "pend"
    /\ crtc' = Pend("FLIP")
    /\ Listen
    /\ tail' = [tail EXCEPT !.pc = IF tail.modeset /\ cs.enable THEN "restore" ELSE "wait"]
    /\ UNCHANGED <<env, cs, ioctl, ctl, work, pins, hw>>

(* mdp5_crtc_atomic_enable(): the cursor comes back after a loss of power.   *)
Restore ==
    /\ Runs /\ tail.pc = "restore"
    /\ hw' = SetCursor(IF crtc.iova = NoBuffer THEN hw ELSE restore_cursor(hw, crtc),
                       crtc.iova # NoBuffer)
    /\ ctl' = CursorSet(crtc.iova # NoBuffer)
    /\ tail' = [tail EXCEPT !.pc = "start"]
    /\ UNCHANGED <<env, cs, ioctl, crtc, irq, work, pins>>

(* mdp5_vid_encoder_enable(): with the engine starts what was held back.     *)
EncoderOn ==
    /\ Runs /\ tail.pc = "start"
    /\ ctl' = [ctl EXCEPT !.flush_mask = {}]
    /\ hw' = [hw EXCEPT !.on = TRUE, !.flush = @ \union ctl.flush_mask]
    /\ tail' = [tail EXCEPT !.pc = "wait"]
    /\ UNCHANGED <<env, cs, ioctl, crtc, irq, work, pins>>

(* The flush has been taken over, or the display is off.                     *)
CommitDone ==
    /\ Runs /\ tail.pc = "wait"
    /\ hw.flush = {} \/ ~hw.on
    /\ tail' = [tail EXCEPT !.pc = "idle"]
    /\ UNCHANGED <<env, cs, ioctl, crtc, ctl, irq, work, pins, hw>>

Tail ==
    \/ EncoderOff \/ BlendReset \/ BlendSetup \/ FlushAll \/ FlipPend
    \/ Restore \/ EncoderOn \/ CommitDone

\* ---------------------------------------------------------------- interrupt

(* mdp5_crtc_vblank_irq() leaves the list of handlers,                       *)
IrqEnter ==
    /\ irq.raised /\ ~irq.taking
    /\ irq' = [raised |-> FALSE, taking |-> TRUE]
    /\ crtc' = [crtc EXCEPT !.listening = FALSE]
    /\ UNCHANGED <<env, cs, tail, ioctl, ctl, work, pins, hw>>

(* Mutant: a flip that completes is all a vblank is good for.                *)
Released_FlipOnly == "CURSOR" \in crtc.pending /\ "FLIP" \notin crtc.pending

Released == "CURSOR" \in crtc.pending

(* then takes the bits: replaced buffers go to the worker, and the layers of *)
(* a CRTC that is disabled are emptied (complete_flip()).                    *)
IrqTake ==
    /\ irq.taking
    /\ irq' = [irq EXCEPT !.taking = FALSE]
    /\ crtc' = [crtc EXCEPT !.pending = {}]
    /\ work' = IF Released
               THEN [queued |-> None, committed |-> Plus(work.committed, work.queued)]
               ELSE work
    /\ IF "FLIP" \in crtc.pending /\ ~cs.enable
       THEN hw' = Blend(hw, FALSE) /\ ctl' = [ctl EXCEPT !.trigger = {"LM"}]
       ELSE UNCHANGED <<hw, ctl>>
    /\ UNCHANGED <<env, cs, tail, ioctl, pins>>

(* unref_cursor_worker(), for what is in the list when it runs.              *)
Worker ==
    /\ work.committed # None
    /\ pins' = [b \in Buffers |-> pins[b] - work.committed[b]]
    /\ work' = [work EXCEPT !.committed = None]
    /\ UNCHANGED <<env, cs, tail, ioctl, crtc, ctl, irq, hw>>

\* ---------------------------------------------------------------- hardware

(* A frame ends, and the blocks that were flushed are taken over.            *)
Vsync ==
    /\ hw.on
    /\ hw' = [hw EXCEPT !.live.layers = IF "CTL" \in hw.flush THEN hw.layers ELSE @,
                        !.live.regs = IF "LM" \in hw.flush THEN hw.regs ELSE @,
                        !.flush = {}]
    /\ irq' = [irq EXCEPT !.raised = @ \/ crtc.listening]
    /\ UNCHANGED <<env, cs, tail, ioctl, crtc, ctl, work, pins>>

Dark == [planes |-> FALSE, cursor |-> FALSE]

NoRegs == [base |-> NoBuffer, width |-> 0, roi |-> 0, src |-> 0, start |-> 0]

PoweredUp ==
    [on |-> FALSE, flush |-> {}, layers |-> Dark, regs |-> NoRegs,
     live |-> [layers |-> Dark, regs |-> NoRegs]]

(* Without a holder the power domain goes off.                               *)
PowerLoss ==
    /\ ~cs.enable /\ tail.pc = "idle" /\ ioctl = Idle
    /\ hw' = PoweredUp
    /\ UNCHANGED <<env, cs, tail, ioctl, crtc, ctl, irq, work, pins>>

\* ---------------------------------------------------------------- specification

Init ==
    /\ env \in Envs
    /\ cs = [enable |-> FALSE, two |-> FALSE, ctl |-> FALSE, defer_start |-> FALSE]
    /\ tail = [pc |-> "idle", modeset |-> FALSE]
    /\ ioctl = Idle
    /\ crtc = [scanout_bo |-> NoBuffer, iova |-> NoBuffer, width |-> 0, x |-> 0,
               pending |-> {}, listening |-> FALSE]
    /\ ctl = [cursor_on |-> FALSE, trigger |-> {}, flush_mask |-> {}]
    /\ irq = [raised |-> FALSE, taking |-> FALSE]
    /\ work = [queued |-> None, committed |-> None]
    /\ pins = None
    /\ hw = PoweredUp

Next ==
    \/ \E b \in Buffers, width \in Sizes : SetBegin(b, width)
    \/ OffBegin
    \/ \E x \in env.moves : MoveBegin(x)
    \/ Ioctl
    \/ \E enable, modeset, two \in BOOLEAN : Swap(enable, modeset, two)
    \/ Tail
    \/ IrqEnter
    \/ IrqTake
    \/ Worker
    \/ Vsync
    \/ PowerLoss

(* Calls and tails run on, the display clock too, and interrupts and work    *)
(* queued are served.  Nobody has to show a cursor or to commit.             *)
Spec ==
    /\ Init /\ [][Next]_vars
    /\ WF_vars(Ioctl) /\ WF_vars(Tail)
    /\ WF_vars(IrqEnter) /\ WF_vars(IrqTake) /\ WF_vars(Worker) /\ WF_vars(Vsync)

\* ---------------------------------------------------------------- properties

Names == Buffers \union {NoBuffer}

Counts == [Buffers -> Nat]

TypeOK ==
    /\ env \in Envs
    /\ cs \in [enable : BOOLEAN, two : BOOLEAN, ctl : BOOLEAN, defer_start : BOOLEAN]
    /\ tail \in [pc : {"idle", "disable", "reset", "blend", "flush", "pend", "restore",
                       "start", "wait"}, modeset : BOOLEAN]
    /\ ioctl \in [pc : {"idle", "write", "ctl", "flush", "queue", "pend", "move"},
                  bo : Names, width : Sizes \union {0}, old : Names, enable : BOOLEAN]
    /\ crtc \in [scanout_bo : Names, iova : Names, width : Sizes \union {0},
                 x : Int, pending : SUBSET {"CURSOR", "FLIP"},
                 listening : BOOLEAN]
    /\ ctl \in [cursor_on : BOOLEAN, trigger : SUBSET {"LM", "CURSOR"},
                flush_mask : SUBSET {"LM", "CTL"}]
    /\ irq \in [raised : BOOLEAN, taking : BOOLEAN]
    /\ work \in [queued : Counts, committed : Counts]
    /\ pins \in Counts
    /\ hw.flush \subseteq {"LM", "CTL"}

(* Every pin of a cursor buffer is accounted for: by the cursor shown, by a  *)
(* call that has just taken it, or by the list of those to be given back, in *)
(* every interleaving (mdp5_crtc_cursor_set, unref_cursor_worker).           *)
PinsBalanced ==
    \A b \in Buffers :
        pins[b] = One(crtc.scanout_bo)[b] + One(ioctl.bo)[b] + One(ioctl.old)[b]
                  + work.queued[b] + work.committed[b]

(* A cursor on the screen is read from a buffer that is pinned: a replaced   *)
(* one is given back after the vsync that took the new one over.  It needs a *)
(* user space that waits for its commits, and prompt interrupts.             *)
CursorKept ==
    env.waits /\ env.prompt /\ hw.on /\ hw.live.layers.cursor =>
        hw.live.regs.base \in Buffers /\ pins[hw.live.regs.base] > 0

(* Nothing is under way, and what was flushed has been taken over.           *)
Resting ==
    tail.pc = "idle" /\ ioctl = Idle /\ cs.enable /\ hw.flush = {}

(* At rest the screen has what was asked for last: the planes, and the       *)
(* cursor if it is on, through flips, modesets, losses of power and the      *)
(* flushes that are held back.  It needs a user space that waits.            *)
CursorShown ==
    env.waits /\ Resting =>
        /\ hw.on /\ hw.live.layers = [planes |-> TRUE, cursor |-> crtc.iova # NoBuffer]
        /\ crtc.iova # NoBuffer =>
               hw.live.regs = restore_cursor(hw, crtc).regs

(* The column of the image that column s of the screen gets from a mixer     *)
(* with the registers r, -1 for none.                                        *)
Drawn(r, s) ==
    IF s \in r.start..(r.start + r.roi - 1) THEN r.src + (s - r.start) ELSE -1

(* A cursor at rest is where it was moved to: each column of the screen has  *)
(* the column of the image that lies over it, and no other is touched, over  *)
(* either edge of the screen too (START_XY, get_roi).  A column that does    *)
(* not fit the register, from 65536 on, is cut to one that does.             *)
CursorPlaced ==
    env.waits /\ Resting /\ crtc.iova # NoBuffer /\ crtc.x < 65536 =>
        \A s \in 0..(XRes - 1) :
            Drawn(hw.live.regs, s) =
                IF s - crtc.x \in 0..(crtc.width - 1) THEN s - crtc.x ELSE -1

(* At any time the columns the mixer reads are within the image (get_roi).   *)
RoiInBuffer == hw.live.regs.src + hw.live.regs.roi <= hw.live.regs.width

(* Buffers that were replaced do not wait in the list for ever: the bit and  *)
(* the vblank that hand them to the worker come, whatever flips take them    *)
(* first, unless the display goes off (mdp5_crtc_vblank_irq).                *)
PinsReturned == work.queued # None ~> (work.queued = None \/ ~hw.on)

(* The screen shows what was asked for last, the cursor where it was put,    *)
(* and no column beyond its image.                                           *)
PictureSound == TypeOK /\ CursorShown /\ CursorPlaced /\ RoiInBuffer
=============================================================================
