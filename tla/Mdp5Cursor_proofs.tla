-------------------------- MODULE Mdp5Cursor_proofs --------------------------
(***************************************************************************)
(* Proofs about Mdp5Cursor, for any buffers and surroundings:               *)
(* the pins add up in every interleaving of the cursor calls, the tail of a *)
(* commit, the vblank handler and the worker; a cursor on the screen keeps  *)
(* its buffer; and the screen shows the cursor that was asked for, read     *)
(* from columns of its image.                                              *)
(*                                                                         *)
(* First what each action does to the fields of the records, then three     *)
(* inductive invariants over those fields.                                  *)
(***************************************************************************)
EXTENDS Mdp5Cursor, TLAPS

(* The hardware: what is written, what is flushed and what is on the screen. *)
Layers == [planes : BOOLEAN, cursor : BOOLEAN]

Regs == [base : Names, width : Int, roi : Int, src : Int, start : Int]

HwStates ==
    [on : BOOLEAN, flush : SUBSET {"LM", "CTL"}, layers : Layers, regs : Regs,
     live : [layers : Layers, regs : Regs]]

(* What restore_cursor() writes for the cursor c.                            *)
RegsOf(c) ==
    [base |-> c.iova, width |-> c.width, roi |-> get_roi(c.x, c.width),
     src |-> IF c.x < 0 THEN -c.x ELSE 0,
     start |-> IF c.x < 0 THEN 0 ELSE c.x % 65536]

(* The other records, as TypeOK has them.                                    *)
Ctls == [cursor_on : BOOLEAN, trigger : SUBSET {"LM", "CURSOR"},
         flush_mask : SUBSET {"LM", "CTL"}]

Crtc == [scanout_bo : Names, iova : Names, width : Sizes \union {0}, x : Int,
         pending : SUBSET {"CURSOR", "FLIP"}, listening : BOOLEAN]

Css == [enable : BOOLEAN, two : BOOLEAN, ctl : BOOLEAN, defer_start : BOOLEAN]

Tails == [pc : {"idle", "disable", "reset", "blend", "flush", "pend", "restore", "start",
                "wait"}, modeset : BOOLEAN]

Calls == [pc : {"idle", "write", "ctl", "flush", "queue", "pend", "move"},
          bo : Names, width : Sizes \union {0}, old : Names, enable : BOOLEAN]

Irqs == [raised : BOOLEAN, taking : BOOLEAN]

Works == [queued : Counts, committed : Counts]

(* All of TypeOK but the pins, and the whole hardware.                       *)
Types ==
    /\ env \in Envs /\ cs \in Css /\ tail \in Tails /\ ioctl \in Calls /\ crtc \in Crtc
    /\ ctl \in Ctls /\ irq \in Irqs /\ work \in Works /\ hw \in HwStates

LEMMA TypesAre == TypeOK /\ hw \in HwStates <=> Types /\ pins \in Counts
<1>1. hw \in HwStates => hw.flush \subseteq {"LM", "CTL"}
    BY DEF HwStates
<1> QED BY <1>1 DEF TypeOK, Types, Css, Tails, Calls, Crtc, Ctls, Irqs, Works

LEMMA RoiInt == ASSUME NEW x \in Int, NEW w \in Int PROVE get_roi(x, w) \in Int
<1>1. XRes \in Int
    BY CursorAssumption
<1>2. CASE x \in 0..XRes
    BY <1>1, <1>2 DEF get_roi
<1>3. CASE x > XRes
    BY <1>1, <1>3 DEF get_roi
<1>4. CASE x < 0
    BY <1>1, <1>4 DEF get_roi
<1> QED BY <1>1, <1>2, <1>3, <1>4

LEMMA SizesInt == Sizes \union {0} \subseteq 0..XRes /\ XRes \in Nat
    BY CursorAssumption

\* ---------------------------------------------------------------- what the operators do

LEMMA RestoreDoes ==
    ASSUME NEW h \in HwStates, NEW c \in Crtc
    PROVE  /\ restore_cursor(h, c) \in HwStates
           /\ restore_cursor(h, c).regs = RegsOf(c)
           /\ restore_cursor(h, c).on = h.on
           /\ restore_cursor(h, c).flush = h.flush
           /\ restore_cursor(h, c).layers = h.layers
           /\ restore_cursor(h, c).live = h.live
<1> DEFINE r == RegsOf(c)
<1>1. r \in Regs
    <2>1. c.iova \in Names /\ c.width \in Int /\ c.x \in Int
        BY SizesInt DEF Crtc
    <2>2. get_roi(c.x, c.width) \in Int
        BY <2>1, RoiInt
    <2> QED BY <2>1, <2>2 DEF RegsOf, Regs
<1>2. restore_cursor(h, c) = [h EXCEPT !.regs = r]
    BY DEF restore_cursor, RegsOf
<1> HIDE DEF r
<1>3. [h EXCEPT !.regs = r] \in HwStates
    BY <1>1 DEF HwStates
<1> QED BY <1>2, <1>3 DEF HwStates, r

LEMMA SetCursorDoes ==
    ASSUME NEW h \in HwStates, NEW v \in BOOLEAN, ctl \in Ctls
    PROVE  /\ SetCursor(h, v) \in HwStates
           /\ SetCursor(h, v).on = h.on /\ SetCursor(h, v).flush = h.flush
           /\ SetCursor(h, v).regs = h.regs /\ SetCursor(h, v).live = h.live
           /\ SetCursor(h, v).layers = IF cs.two THEN h.layers
                                       ELSE [planes |-> h.layers.planes, cursor |-> v]
           /\ CursorSet(v) \in Ctls
           /\ CursorSet(v).flush_mask = ctl.flush_mask
           /\ cs.two => CursorSet(v) = ctl
           /\ ~cs.two => CursorSet(v).cursor_on = v /\ CursorSet(v).trigger = {"CURSOR"}
<1>1. CASE cs.two
    BY <1>1 DEF SetCursor, CursorSet
<1>2. CASE ~cs.two
    <2> DEFINE l == [planes |-> h.layers.planes, cursor |-> v]
    <2>1. h.layers \in Layers /\ l \in Layers
        BY DEF HwStates, Layers
    <2>2. [h.layers EXCEPT !.cursor = v] = l
        BY <2>1 DEF Layers
    <2>3. SetCursor(h, v) = [h EXCEPT !.layers = l]
        BY <1>2, <2>2 DEF SetCursor
    <2>4. CursorSet(v) = [ctl EXCEPT !.cursor_on = v, !.trigger = {"CURSOR"}]
        BY <1>2 DEF CursorSet
    <2>5. CursorSet(v) = [cursor_on |-> v, trigger |-> {"CURSOR"}, flush_mask |-> ctl.flush_mask]
        BY <2>4 DEF Ctls
    <2>6. CursorSet(v) \in Ctls
        BY <2>5 DEF Ctls
    <2> HIDE DEF l
    <2>7. SetCursor(h, v) \in HwStates /\ SetCursor(h, v).layers = l
          /\ SetCursor(h, v).on = h.on /\ SetCursor(h, v).flush = h.flush
          /\ SetCursor(h, v).regs = h.regs /\ SetCursor(h, v).live = h.live
        BY <2>1, <2>3 DEF HwStates
    <2> QED BY <1>2, <2>5, <2>6, <2>7 DEF l
<1> QED BY <1>1, <1>2

LEMMA BlendDoes ==
    ASSUME NEW h \in HwStates, NEW v \in BOOLEAN, ctl \in Ctls
    PROVE  /\ Blend(h, v) \in HwStates
           /\ Blend(h, v).layers = [planes |-> v, cursor |-> ctl.cursor_on]
           /\ Blend(h, v).on = h.on /\ Blend(h, v).flush = h.flush
           /\ Blend(h, v).regs = h.regs /\ Blend(h, v).live = h.live
<1> DEFINE l == [planes |-> v, cursor |-> ctl.cursor_on]
<1>1. l \in Layers
    BY DEF Layers, Ctls
<1>2. Blend(h, v) = [h EXCEPT !.layers = l]
    BY DEF Blend, CursorOut
<1> HIDE DEF l
<1>3. [h EXCEPT !.layers = l] \in HwStates
    BY <1>1 DEF HwStates
<1> QED BY <1>2, <1>3 DEF HwStates, l

LEMMA CommitDoes ==
    ASSUME ctl \in Ctls, hw \in HwStates, NEW mask \in {{"LM"}, {"CURSOR"}},
           NEW start \in BOOLEAN, Commit(mask, start)
    PROVE  /\ ctl' \in Ctls /\ hw' \in HwStates
           /\ ctl'.cursor_on = ctl.cursor_on
           /\ {"LM"} \subseteq Bits(mask) /\ Bits(mask) \subseteq {"LM", "CTL"}
           /\ "CTL" \in Bits(mask) <=> ctl.trigger \intersect mask # {}
           /\ ctl'.flush_mask = IF start THEN {} ELSE ctl.flush_mask \union Bits(mask)
           /\ hw'.flush = IF start THEN hw.flush \union Bits(mask) \union ctl.flush_mask
                          ELSE hw.flush
           /\ hw'.on = hw.on /\ hw'.layers = hw.layers /\ hw'.regs = hw.regs
           /\ hw'.live = hw.live
<1> DEFINE bits == Bits(mask)
           t == IF Triggered(mask) THEN {} ELSE ctl.trigger
           m == IF start THEN {} ELSE ctl.flush_mask \union bits
           f == IF start THEN hw.flush \union bits \union ctl.flush_mask ELSE hw.flush
<1>1. {"LM"} \subseteq bits /\ bits \subseteq {"LM", "CTL"}
    BY DEF Bits, fix_sw_flush
<1>2. "CTL" \in bits <=> ctl.trigger \intersect mask # {}
    BY DEF Bits, fix_sw_flush, Triggered
<1>3. t \in SUBSET {"LM", "CURSOR"}
    BY DEF Ctls
<1> HIDE DEF bits, t
<1>4. m \in SUBSET {"LM", "CTL"}
    BY <1>1 DEF Ctls
<1>5. f \in SUBSET {"LM", "CTL"}
    BY <1>1 DEF Ctls, HwStates
<1>6. ctl' = [ctl EXCEPT !.trigger = t, !.flush_mask = m]
    BY DEF Commit, t, bits
<1>7. hw' = IF start THEN [hw EXCEPT !.flush = f] ELSE hw
    BY DEF Commit, bits
<1> HIDE DEF m
<1>8. ctl' \in Ctls /\ ctl'.cursor_on = ctl.cursor_on /\ ctl'.flush_mask = m
    BY <1>3, <1>4, <1>6 DEF Ctls
<1>9. /\ hw' \in HwStates /\ hw'.flush = f
      /\ hw'.on = hw.on /\ hw'.layers = hw.layers /\ hw'.regs = hw.regs /\ hw'.live = hw.live
    <2>1. CASE start
        <3> HIDE DEF f
        <3> QED BY <1>5, <1>7, <2>1 DEF HwStates
    <2>2. CASE ~start
        BY <1>7, <2>2
    <2> QED BY <2>1, <2>2
<1> QED BY <1>1, <1>2, <1>8, <1>9 DEF bits, m

LEMMA Additions ==
    ASSUME NEW b \in Buffers
    PROVE  /\ None \in Counts /\ None[b] = 0
           /\ \A n \in Names : One(n) \in Counts /\ One(n)[b] = IF b = n THEN 1 ELSE 0
           /\ \A f, g \in Counts : Plus(f, g) \in Counts /\ Plus(f, g)[b] = f[b] + g[b]
BY DEF None, One, Plus, Counts, Names

LEMMA CountsKept ==
    /\ None \in Counts
    /\ \A n \in Names : One(n) \in Counts
    /\ \A f, g \in Counts : Plus(f, g) \in Counts
BY DEF None, One, Plus, Counts, Names

LEMMA IdleIs ==
    /\ Idle \in Calls /\ Idle.pc = "idle" /\ Idle.bo = NoBuffer /\ Idle.old = NoBuffer
    /\ ~Idle.enable /\ Idle.width = 0
BY DEF Idle, Calls, Names

\* ---------------------------------------------------------------- what the actions do

LEMMA SetBeginDoes ==
    ASSUME Types, NEW b \in Buffers, NEW width \in Sizes, SetBegin(b, width)
    PROVE  /\ Types'
           /\ Runs /\ ioctl = Idle /\ (env.waits => tail.pc = "idle") /\ ~cs.two
           /\ pins' = Plus(pins, One(b))
           /\ crtc'.iova = b /\ crtc'.scanout_bo = crtc.scanout_bo
           /\ crtc'.width = crtc.width /\ crtc'.x = crtc.x
           /\ ioctl'.pc = "write" /\ ioctl'.bo = b /\ ioctl'.width = width
           /\ ioctl'.old = NoBuffer /\ ioctl'.enable
           /\ UNCHANGED <<env, cs, tail, ctl, irq, work, hw>>
<1>1. crtc' \in Crtc /\ crtc'.iova = b /\ crtc'.scanout_bo = crtc.scanout_bo
      /\ crtc'.width = crtc.width /\ crtc'.x = crtc.x
    BY DEF SetBegin, Types, Crtc, Names
<1>2. ioctl' = [pc |-> "write", bo |-> b, width |-> width, old |-> NoBuffer, enable |-> TRUE]
    BY DEF SetBegin, Idle
<1>3. /\ ioctl' \in Calls /\ ioctl'.pc = "write" /\ ioctl'.bo = b /\ ioctl'.width = width
      /\ ioctl'.old = NoBuffer /\ ioctl'.enable
    BY <1>2 DEF Calls, Names
<1>4. /\ Runs /\ ioctl = Idle /\ (env.waits => tail.pc = "idle") /\ ~cs.two
      /\ pins' = Plus(pins, One(b))
      /\ UNCHANGED <<env, cs, tail, ctl, irq, work, hw>>
    BY DEF SetBegin
<1>5. Types'
    BY <1>1, <1>3, <1>4 DEF Types
<1> QED BY <1>1, <1>3, <1>4, <1>5

LEMMA OffBeginDoes ==
    ASSUME Types, OffBegin
    PROVE  /\ Types'
           /\ Runs /\ ioctl = Idle /\ (env.waits => tail.pc = "idle") /\ ~cs.two
           /\ crtc'.iova = NoBuffer /\ crtc'.scanout_bo = crtc.scanout_bo
           /\ crtc'.width = crtc.width /\ crtc'.x = crtc.x
           /\ ioctl'.pc = "ctl" /\ ioctl'.bo = NoBuffer /\ ioctl'.old = NoBuffer
           /\ ~ioctl'.enable
           /\ UNCHANGED <<env, cs, tail, ctl, irq, work, pins, hw>>
<1>1. crtc' \in Crtc /\ crtc'.iova = NoBuffer /\ crtc'.scanout_bo = crtc.scanout_bo
      /\ crtc'.width = crtc.width /\ crtc'.x = crtc.x
    BY DEF OffBegin, Types, Crtc, Names
<1>2. ioctl' = [pc |-> "ctl", bo |-> NoBuffer, width |-> 0, old |-> NoBuffer, enable |-> FALSE]
    BY DEF OffBegin, Idle
<1>3. ioctl' \in Calls /\ ~ioctl'.enable
    BY <1>2 DEF Calls, Names
<1> QED BY <1>1, <1>2, <1>3 DEF OffBegin, Types

LEMMA SetWriteDoes ==
    ASSUME Types, SetWrite
    PROVE  /\ Types'
           /\ Runs /\ ioctl.pc = "write"
           /\ crtc'.scanout_bo = ioctl.bo /\ crtc'.width = ioctl.width
           /\ crtc'.iova = crtc.iova /\ crtc'.x = crtc.x
           /\ hw'.regs = RegsOf(crtc') /\ hw'.on = hw.on /\ hw'.flush = hw.flush
           /\ hw'.layers = hw.layers /\ hw'.live = hw.live
           /\ ioctl'.pc = "ctl" /\ ioctl'.old = crtc.scanout_bo /\ ioctl'.bo = NoBuffer
           /\ (ioctl'.enable <=> ioctl.enable)
           /\ UNCHANGED <<env, cs, tail, ctl, irq, work, pins>>
<1>1. crtc' \in Crtc /\ crtc'.scanout_bo = ioctl.bo /\ crtc'.width = ioctl.width
      /\ crtc'.iova = crtc.iova /\ crtc'.x = crtc.x
    <2>1. ioctl.bo \in Names /\ ioctl.width \in Sizes \union {0}
        BY DEF Types, Calls
    <2> QED BY <2>1 DEF SetWrite, Types, Crtc
<1>2. hw' = restore_cursor(hw, crtc')
    BY DEF SetWrite
<1>3. /\ hw' \in HwStates /\ hw'.regs = RegsOf(crtc') /\ hw'.on = hw.on
      /\ hw'.flush = hw.flush /\ hw'.layers = hw.layers /\ hw'.live = hw.live
    <2>1. hw \in HwStates
        BY DEF Types
    <2> DEFINE c == crtc'
    <2>2. c \in Crtc
        BY <1>1
    <2> HIDE DEF c
    <2>3. /\ restore_cursor(hw, c) \in HwStates
          /\ restore_cursor(hw, c).regs = RegsOf(c)
          /\ restore_cursor(hw, c).on = hw.on
          /\ restore_cursor(hw, c).flush = hw.flush
          /\ restore_cursor(hw, c).layers = hw.layers
          /\ restore_cursor(hw, c).live = hw.live
        BY <2>1, <2>2, RestoreDoes
    <2> QED BY <1>2, <2>3 DEF c
<1>4. /\ ioctl' \in Calls /\ ioctl'.pc = "ctl" /\ ioctl'.old = crtc.scanout_bo
      /\ ioctl'.bo = NoBuffer /\ (ioctl'.enable <=> ioctl.enable)
    <2>1. crtc.scanout_bo \in Names
        BY DEF Types, Crtc
    <2> QED BY <2>1 DEF SetWrite, Replaced, Types, Calls, Names
<1> QED BY <1>1, <1>3, <1>4 DEF SetWrite, Types

LEMMA SetCtlDoes ==
    ASSUME Types, SetCtl, ~cs.two
    PROVE  /\ Types'
           /\ Runs /\ ioctl.pc = "ctl"
           /\ hw'.layers.planes = hw.layers.planes
           /\ (hw'.layers.cursor <=> ioctl.enable)
           /\ hw'.on = hw.on /\ hw'.flush = hw.flush /\ hw'.regs = hw.regs
           /\ hw'.live = hw.live
           /\ (ctl'.cursor_on <=> ioctl.enable) /\ ctl'.trigger = {"CURSOR"}
           /\ ctl'.flush_mask = ctl.flush_mask
           /\ ioctl'.pc = "flush" /\ ioctl'.old = ioctl.old /\ ioctl'.bo = ioctl.bo
           /\ UNCHANGED <<env, cs, tail, crtc, irq, work, pins>>
<1> DEFINE v == ioctl.enable
<1>1. v \in BOOLEAN /\ hw \in HwStates /\ ctl \in Ctls
    BY DEF Types, Calls
<1>2. hw' = SetCursor(hw, v) /\ ctl' = CursorSet(v)
    BY DEF SetCtl
<1>3. /\ ioctl' \in Calls /\ ioctl'.pc = "flush" /\ ioctl'.old = ioctl.old
      /\ ioctl'.bo = ioctl.bo
    BY DEF SetCtl, Types, Calls
<1> HIDE DEF v
<1>4. /\ hw' \in HwStates /\ hw'.on = hw.on /\ hw'.flush = hw.flush /\ hw'.regs = hw.regs
      /\ hw'.live = hw.live /\ hw'.layers = [planes |-> hw.layers.planes, cursor |-> v]
      /\ ctl' \in Ctls /\ ctl'.flush_mask = ctl.flush_mask /\ ctl'.cursor_on = v
      /\ ctl'.trigger = {"CURSOR"}
    BY <1>1, <1>2, SetCursorDoes
<1>5. hw'.layers.planes = hw.layers.planes /\ hw'.layers.cursor = v
    BY <1>4
<1> QED BY <1>3, <1>4, <1>5 DEF SetCtl, Types, v

LEMMA FlushDoes ==
    ASSUME Types, Flush
    PROVE  /\ Types'
           /\ Runs /\ ioctl.pc = "flush"
           /\ ctl'.cursor_on = ctl.cursor_on
           /\ (cs.defer_start =>
                  /\ hw'.flush = hw.flush
                  /\ "LM" \in ctl'.flush_mask /\ ctl.flush_mask \subseteq ctl'.flush_mask)
           /\ (~cs.defer_start =>
                  /\ ctl'.flush_mask = {}
                  /\ "LM" \in hw'.flush /\ hw.flush \subseteq hw'.flush
                  /\ ("CURSOR" \in ctl.trigger => "CTL" \in hw'.flush))
           /\ hw'.on = hw.on /\ hw'.layers = hw.layers /\ hw'.regs = hw.regs
           /\ hw'.live = hw.live
           /\ cs'.enable = cs.enable /\ cs'.two = cs.two /\ ~cs'.defer_start
           /\ (ioctl.old = NoBuffer => ioctl' = Idle)
           /\ (ioctl.old # NoBuffer =>
                  ioctl'.pc = "queue" /\ ioctl'.old = ioctl.old /\ ioctl'.bo = ioctl.bo)
           /\ UNCHANGED <<env, tail, crtc, irq, work, pins>>
<1> DEFINE m == {"CURSOR"}  st == ~cs.defer_start
<1>1. ctl \in Ctls /\ hw \in HwStates /\ m \in {{"LM"}, {"CURSOR"}} /\ st \in BOOLEAN
    BY DEF Types, Css
<1>2. Commit(m, st)
    BY DEF Flush
<1>3. /\ cs' \in Css /\ cs'.enable = cs.enable /\ cs'.two = cs.two /\ ~cs'.defer_start
    BY DEF Flush, Types, Css
<1>4. /\ ioctl' \in Calls /\ (ioctl.old = NoBuffer => ioctl' = Idle)
      /\ (ioctl.old # NoBuffer =>
             ioctl'.pc = "queue" /\ ioctl'.old = ioctl.old /\ ioctl'.bo = ioctl.bo)
    BY IdleIs DEF Flush, Types, Calls
<1>5. "CTL" \in Bits(m) <=> ctl.trigger \intersect m # {}
    BY <1>1, <1>2, CommitDoes
<1>6. "CURSOR" \in ctl.trigger => "CTL" \in Bits(m)
    BY <1>5
<1> HIDE DEF st, m
<1>7. /\ ctl' \in Ctls /\ hw' \in HwStates
      /\ ctl'.cursor_on = ctl.cursor_on
      /\ "LM" \in Bits(m)
      /\ ctl'.flush_mask = IF st THEN {} ELSE ctl.flush_mask \union Bits(m)
      /\ hw'.flush = IF st THEN hw.flush \union Bits(m) \union ctl.flush_mask
                     ELSE hw.flush
      /\ hw'.on = hw.on /\ hw'.layers = hw.layers /\ hw'.regs = hw.regs
      /\ hw'.live = hw.live
    BY <1>1, <1>2, CommitDoes
<1>8. /\ (cs.defer_start =>
             /\ hw'.flush = hw.flush
             /\ "LM" \in ctl'.flush_mask /\ ctl.flush_mask \subseteq ctl'.flush_mask)
      /\ (~cs.defer_start =>
             /\ ctl'.flush_mask = {}
             /\ "LM" \in hw'.flush /\ hw.flush \subseteq hw'.flush
             /\ ("CURSOR" \in ctl.trigger => "CTL" \in hw'.flush))
    BY <1>6, <1>7 DEF st
<1> QED BY <1>3, <1>4, <1>7, <1>8 DEF Flush, Types

LEMMA QueueDoes ==
    ASSUME Types, Queue
    PROVE  /\ Types'
           /\ Runs /\ ioctl.pc = "queue"
           /\ work'.queued = Plus(work.queued, One(ioctl.old))
           /\ work'.committed = work.committed
           /\ ioctl'.pc = "pend" /\ ioctl'.old = NoBuffer /\ ioctl'.bo = ioctl.bo
           /\ UNCHANGED <<env, cs, tail, crtc, ctl, irq, pins, hw>>
<1> DEFINE q == Plus(work.queued, One(ioctl.old))
<1>1. q \in Counts
    <2>1. ioctl.old \in Names /\ work.queued \in Counts
        BY DEF Types, Calls, Works
    <2> QED BY <2>1, CountsKept
<1>2. work' = [work EXCEPT !.queued = q]
    BY DEF Queue
<1>3. ioctl' \in Calls /\ ioctl'.pc = "pend" /\ ioctl'.old = NoBuffer /\ ioctl'.bo = ioctl.bo
    BY DEF Queue, Types, Calls, Names
<1> HIDE DEF q
<1>4. work' \in Works /\ work'.queued = q /\ work'.committed = work.committed
    BY <1>1, <1>2 DEF Types, Works
<1> QED BY <1>3, <1>4 DEF Queue, Types, q

LEMMA ListenDoes ==
    ASSUME Types, Listen
    PROVE  irq' \in Irqs /\ (irq'.raised => irq.raised) /\ (irq'.taking <=> irq.taking)
<1>1. irq' = [irq EXCEPT !.raised = irq.raised /\ crtc.listening]
    BY DEF Listen
<1> QED BY <1>1 DEF Types, Irqs

LEMMA SetPendDoes ==
    ASSUME Types, SetPend
    PROVE  /\ Types'
           /\ Runs /\ ioctl.pc = "pend"
           /\ crtc'.scanout_bo = crtc.scanout_bo /\ crtc'.iova = crtc.iova
           /\ crtc'.width = crtc.width /\ crtc'.x = crtc.x
           /\ (irq'.raised => irq.raised) /\ (irq'.taking <=> irq.taking)
           /\ ioctl' = Idle
           /\ UNCHANGED <<env, cs, tail, ctl, work, pins, hw>>
<1>1. /\ crtc' \in Crtc /\ crtc'.scanout_bo = crtc.scanout_bo /\ crtc'.iova = crtc.iova
      /\ crtc'.width = crtc.width /\ crtc'.x = crtc.x
    BY DEF SetPend, Pend, Types, Crtc
<1>2. irq' \in Irqs /\ (irq'.raised => irq.raised) /\ (irq'.taking <=> irq.taking)
    BY ListenDoes DEF SetPend
<1> QED BY <1>1, <1>2, IdleIs DEF SetPend, Types

LEMMA MoveBeginDoes ==
    ASSUME Types, NEW x \in env.moves, MoveBegin(x)
    PROVE  /\ Types'
           /\ Runs /\ ioctl = Idle /\ (env.waits => tail.pc = "idle") /\ ~cs.two /\ cs.enable
           /\ crtc'.scanout_bo = crtc.scanout_bo /\ crtc'.iova = crtc.iova
           /\ crtc'.width = crtc.width
           /\ crtc'.x \in Int /\ crtc'.x >= -crtc.width
           /\ ioctl'.pc = "move" /\ ioctl'.bo = NoBuffer /\ ioctl'.old = NoBuffer
           /\ UNCHANGED <<env, cs, tail, ctl, irq, work, pins, hw>>
<1> DEFINE y == IF x < -crtc.width THEN -crtc.width ELSE x
<1>1. y \in Int /\ y >= -crtc.width
    <2>1. x \in Int
        BY CursorAssumption DEF Types
    <2>2. crtc.width \in Int
        BY SizesInt DEF Types, Crtc
    <2> QED BY <2>1, <2>2
<1>2. crtc' = [crtc EXCEPT !.x = y]
    BY DEF MoveBegin
<1> HIDE DEF y
<1>3. /\ crtc' \in Crtc /\ crtc'.scanout_bo = crtc.scanout_bo /\ crtc'.iova = crtc.iova
      /\ crtc'.width = crtc.width /\ crtc'.x = y
    BY <1>1, <1>2 DEF Types, Crtc
<1>4. /\ ioctl' \in Calls /\ ioctl'.pc = "move" /\ ioctl'.bo = NoBuffer
      /\ ioctl'.old = NoBuffer
    BY IdleIs DEF MoveBegin, Calls
<1> QED BY <1>1, <1>3, <1>4 DEF MoveBegin, Types

LEMMA MoveWriteDoes ==
    ASSUME Types, MoveWrite
    PROVE  /\ Types'
           /\ Runs /\ ioctl.pc = "move"
           /\ hw'.regs = RegsOf(crtc) /\ hw'.on = hw.on /\ hw'.flush = hw.flush
           /\ hw'.layers = hw.layers /\ hw'.live = hw.live
           /\ ioctl'.pc = "flush" /\ ioctl'.bo = ioctl.bo /\ ioctl'.old = ioctl.old
           /\ UNCHANGED <<env, cs, tail, crtc, ctl, irq, work, pins>>
<1>1. /\ hw' \in HwStates /\ hw'.regs = RegsOf(crtc) /\ hw'.on = hw.on
      /\ hw'.flush = hw.flush /\ hw'.layers = hw.layers /\ hw'.live = hw.live
    <2>1. hw \in HwStates /\ crtc \in Crtc
        BY DEF Types
    <2> QED BY <2>1, RestoreDoes DEF MoveWrite
<1>2. ioctl' \in Calls /\ ioctl'.pc = "flush" /\ ioctl'.bo = ioctl.bo /\ ioctl'.old = ioctl.old
    BY DEF MoveWrite, Types, Calls
<1> QED BY <1>1, <1>2 DEF MoveWrite, Types

LEMMA SwapDoes ==
    ASSUME Types, NEW enable \in BOOLEAN, NEW modeset \in BOOLEAN, NEW two \in BOOLEAN,
           Swap(enable, modeset, two)
    PROVE  /\ Types'
           /\ Runs /\ ioctl = Idle /\ tail.pc = "idle"
           /\ (~modeset => enable /\ cs.enable)
           /\ (cs'.enable <=> enable) /\ (cs'.defer_start <=> modeset /\ enable)
           /\ (tail'.modeset <=> modeset)
           /\ (modeset /\ cs.enable => tail'.pc = "disable")
           /\ (~(modeset /\ cs.enable) => tail'.pc = "reset")
           /\ UNCHANGED <<env, ioctl, crtc, ctl, irq, work, pins, hw>>
<1> DEFINE d == modeset /\ enable  p == IF modeset /\ cs.enable THEN "disable" ELSE "reset"
           c == cs.ctl \/ enable
<1>1. d \in BOOLEAN /\ c \in BOOLEAN
    OBVIOUS
<1>2. p \in {"disable", "reset"}
    OBVIOUS
<1>3. /\ cs' = [enable |-> enable, two |-> two, ctl |-> c, defer_start |-> d]
      /\ tail' = [pc |-> p, modeset |-> modeset]
    BY DEF Swap
<1>4. ~modeset => enable /\ cs.enable
    BY DEF Swap
<1>5. (modeset /\ cs.enable => p = "disable") /\ (~(modeset /\ cs.enable) => p = "reset")
    OBVIOUS
<1> HIDE DEF c, p, d
<1>6. cs' \in Css /\ cs'.enable = enable /\ cs'.defer_start = d
    BY <1>1, <1>3 DEF Css
<1>7. tail' \in Tails /\ tail'.modeset = modeset /\ tail'.pc = p
    BY <1>2, <1>3 DEF Tails
<1> QED BY <1>4, <1>5, <1>6, <1>7 DEF Swap, Types, d

LEMMA EncoderOffDoes ==
    ASSUME Types, EncoderOff
    PROVE  /\ Types'
           /\ Runs /\ tail.pc = "disable" /\ tail'.pc = "reset"
           /\ (tail'.modeset <=> tail.modeset)
           /\ ctl'.flush_mask = {} /\ ctl'.cursor_on = ctl.cursor_on
           /\ ctl'.trigger = ctl.trigger
           /\ ~hw'.on /\ hw'.flush = hw.flush \union ctl.flush_mask
           /\ hw'.layers = hw.layers /\ hw'.regs = hw.regs /\ hw'.live = hw.live
           /\ UNCHANGED <<env, cs, ioctl, crtc, irq, work, pins>>
<1>1. /\ ctl' \in Ctls /\ ctl'.flush_mask = {} /\ ctl'.cursor_on = ctl.cursor_on
      /\ ctl'.trigger = ctl.trigger
    BY DEF EncoderOff, Types, Ctls
<1>2. tail' \in Tails /\ tail'.pc = "reset" /\ (tail'.modeset <=> tail.modeset)
    BY DEF EncoderOff, Types, Tails
<1>3. /\ hw' \in HwStates /\ ~hw'.on /\ hw'.flush = hw.flush \union ctl.flush_mask
      /\ hw'.layers = hw.layers /\ hw'.regs = hw.regs /\ hw'.live = hw.live
    <2> DEFINE f == hw.flush \union ctl.flush_mask
    <2>1. f \in SUBSET {"LM", "CTL"}
        BY DEF Types, HwStates, Ctls
    <2>2. hw' = [hw EXCEPT !.on = FALSE, !.flush = f]
        BY DEF EncoderOff
    <2> HIDE DEF f
    <2>3. /\ hw' \in HwStates /\ ~hw'.on /\ hw'.flush = f
          /\ hw'.layers = hw.layers /\ hw'.regs = hw.regs /\ hw'.live = hw.live
        BY <2>1, <2>2 DEF Types, HwStates
    <2> QED BY <2>3 DEF f
<1> QED BY <1>1, <1>2, <1>3 DEF EncoderOff, Types

LEMMA BlendResetDoes ==
    ASSUME Types, BlendReset
    PROVE  /\ Types'
           /\ Runs /\ tail.pc = "reset" /\ tail'.pc = "blend"
           /\ (tail'.modeset <=> tail.modeset)
           /\ ~hw'.layers.planes /\ ~hw'.layers.cursor
           /\ hw'.on = hw.on /\ hw'.flush = hw.flush /\ hw'.regs = hw.regs
           /\ hw'.live = hw.live
           /\ UNCHANGED <<env, cs, ioctl, crtc, ctl, irq, work, pins>>
<1> DEFINE l == [planes |-> FALSE, cursor |-> FALSE]
<1>1. tail' \in Tails /\ tail'.pc = "blend" /\ (tail'.modeset <=> tail.modeset)
    BY DEF BlendReset, Types, Tails
<1>2. l \in Layers /\ ~l.planes /\ ~l.cursor
    BY DEF Layers
<1>3. hw' = [hw EXCEPT !.layers = l]
    BY DEF BlendReset
<1> HIDE DEF l
<1>4. /\ hw' \in HwStates /\ hw'.layers = l
      /\ hw'.on = hw.on /\ hw'.flush = hw.flush /\ hw'.regs = hw.regs
      /\ hw'.live = hw.live
    BY <1>2, <1>3 DEF Types, HwStates
<1> QED BY <1>1, <1>2, <1>4 DEF BlendReset, Types

LEMMA BlendSetupDoes ==
    ASSUME Types, BlendSetup
    PROVE  /\ Types'
           /\ Runs /\ tail.pc = "blend" /\ tail'.pc = "flush"
           /\ (tail'.modeset <=> tail.modeset)
           /\ (hw'.layers.planes <=> cs.enable) /\ (hw'.layers.cursor <=> ctl.cursor_on)
           /\ hw'.on = hw.on /\ hw'.flush = hw.flush /\ hw'.regs = hw.regs
           /\ hw'.live = hw.live
           /\ ctl'.trigger = {"LM"} /\ ctl'.cursor_on = ctl.cursor_on
           /\ ctl'.flush_mask = ctl.flush_mask
           /\ UNCHANGED <<env, cs, ioctl, crtc, irq, work, pins>>
<1>1. tail' \in Tails /\ tail'.pc = "flush" /\ (tail'.modeset <=> tail.modeset)
    BY DEF BlendSetup, Types, Tails
<1>2. /\ ctl' \in Ctls /\ ctl'.trigger = {"LM"} /\ ctl'.cursor_on = ctl.cursor_on
      /\ ctl'.flush_mask = ctl.flush_mask
    BY DEF BlendSetup, Types, Ctls
<1> DEFINE v == cs.enable
<1>3. hw \in HwStates /\ ctl \in Ctls /\ v \in BOOLEAN
    BY DEF Types, Css
<1>4. hw' = Blend(hw, v)
    BY DEF BlendSetup
<1> HIDE DEF v
<1>5. /\ hw' \in HwStates /\ hw'.layers = [planes |-> v, cursor |-> ctl.cursor_on]
      /\ hw'.on = hw.on /\ hw'.flush = hw.flush /\ hw'.regs = hw.regs
      /\ hw'.live = hw.live
    BY <1>3, <1>4, BlendDoes
<1>6. hw'.layers.planes = v /\ hw'.layers.cursor = ctl.cursor_on
    BY <1>5
<1> QED BY <1>1, <1>2, <1>5, <1>6 DEF BlendSetup, Types, v

LEMMA FlushAllDoes ==
    ASSUME Types, FlushAll
    PROVE  /\ Types'
           /\ Runs /\ tail.pc = "flush" /\ tail'.pc = "pend"
           /\ (tail'.modeset <=> tail.modeset)
           /\ ctl'.cursor_on = ctl.cursor_on
           /\ (cs.defer_start =>
                  /\ hw'.flush = hw.flush
                  /\ "LM" \in ctl'.flush_mask /\ ctl.flush_mask \subseteq ctl'.flush_mask
                  /\ ("LM" \in ctl.trigger => "CTL" \in ctl'.flush_mask))
           /\ (~cs.defer_start =>
                  /\ ctl'.flush_mask = {}
                  /\ "LM" \in hw'.flush /\ hw.flush \subseteq hw'.flush
                  /\ ("LM" \in ctl.trigger => "CTL" \in hw'.flush))
           /\ hw'.on = hw.on /\ hw'.layers = hw.layers /\ hw'.regs = hw.regs
           /\ hw'.live = hw.live
           /\ cs'.enable = cs.enable /\ cs'.two = cs.two /\ ~cs'.defer_start
           /\ UNCHANGED <<env, ioctl, crtc, irq, work, pins>>
<1> DEFINE m == {"LM"}  st == ~cs.defer_start
<1>1. ctl \in Ctls /\ hw \in HwStates /\ m \in {{"LM"}, {"CURSOR"}} /\ st \in BOOLEAN
    BY DEF Types, Css
<1>2. Commit(m, st)
    BY DEF FlushAll
<1>3. /\ cs' \in Css /\ cs'.enable = cs.enable /\ cs'.two = cs.two /\ ~cs'.defer_start
    BY DEF FlushAll, Types, Css
<1>4. tail' \in Tails /\ tail'.pc = "pend" /\ (tail'.modeset <=> tail.modeset)
    BY DEF FlushAll, Types, Tails
<1>5. "CTL" \in Bits(m) <=> ctl.trigger \intersect m # {}
    BY <1>1, <1>2, CommitDoes
<1>6. "LM" \in ctl.trigger => "CTL" \in Bits(m)
    BY <1>5
<1> HIDE DEF st, m
<1>7. /\ ctl' \in Ctls /\ hw' \in HwStates
      /\ ctl'.cursor_on = ctl.cursor_on
      /\ "LM" \in Bits(m)
      /\ ctl'.flush_mask = IF st THEN {} ELSE ctl.flush_mask \union Bits(m)
      /\ hw'.flush = IF st THEN hw.flush \union Bits(m) \union ctl.flush_mask
                     ELSE hw.flush
      /\ hw'.on = hw.on /\ hw'.layers = hw.layers /\ hw'.regs = hw.regs
      /\ hw'.live = hw.live
    BY <1>1, <1>2, CommitDoes
<1>8. /\ (cs.defer_start =>
             /\ hw'.flush = hw.flush
             /\ "LM" \in ctl'.flush_mask /\ ctl.flush_mask \subseteq ctl'.flush_mask
             /\ ("LM" \in ctl.trigger => "CTL" \in ctl'.flush_mask))
      /\ (~cs.defer_start =>
             /\ ctl'.flush_mask = {}
             /\ "LM" \in hw'.flush /\ hw.flush \subseteq hw'.flush
             /\ ("LM" \in ctl.trigger => "CTL" \in hw'.flush))
    BY <1>6, <1>7 DEF st
<1> QED BY <1>3, <1>4, <1>7, <1>8 DEF FlushAll, Types

LEMMA FlipPendDoes ==
    ASSUME Types, FlipPend
    PROVE  /\ Types'
           /\ Runs /\ tail.pc = "pend" /\ (tail'.modeset <=> tail.modeset)
           /\ (tail.modeset /\ cs.enable => tail'.pc = "restore")
           /\ (~(tail.modeset /\ cs.enable) => tail'.pc = "wait")
           /\ crtc'.scanout_bo = crtc.scanout_bo /\ crtc'.iova = crtc.iova
           /\ crtc'.width = crtc.width /\ crtc'.x = crtc.x
           /\ (irq'.raised => irq.raised) /\ (irq'.taking <=> irq.taking)
           /\ UNCHANGED <<env, cs, ioctl, ctl, work, pins, hw>>
<1>1. /\ crtc' \in Crtc /\ crtc'.scanout_bo = crtc.scanout_bo /\ crtc'.iova = crtc.iova
      /\ crtc'.width = crtc.width /\ crtc'.x = crtc.x
    BY DEF FlipPend, Pend, Types, Crtc
<1>2. irq' \in Irqs /\ (irq'.raised => irq.raised) /\ (irq'.taking <=> irq.taking)
    BY ListenDoes DEF FlipPend
<1>3. /\ tail' \in Tails /\ (tail'.modeset <=> tail.modeset)
      /\ (tail.modeset /\ cs.enable => tail'.pc = "restore")
      /\ (~(tail.modeset /\ cs.enable) => tail'.pc = "wait")
    BY DEF FlipPend, Types, Tails
<1> QED BY <1>1, <1>2, <1>3 DEF FlipPend, Types

LEMMA EncoderOnDoes ==
    ASSUME Types, EncoderOn
    PROVE  /\ Types'
           /\ Runs /\ tail.pc = "start" /\ tail'.pc = "wait"
           /\ (tail'.modeset <=> tail.modeset)
           /\ ctl'.flush_mask = {} /\ ctl'.cursor_on = ctl.cursor_on
           /\ ctl'.trigger = ctl.trigger
           /\ hw'.on /\ hw'.flush = hw.flush \union ctl.flush_mask
           /\ hw'.layers = hw.layers /\ hw'.regs = hw.regs /\ hw'.live = hw.live
           /\ UNCHANGED <<env, cs, ioctl, crtc, irq, work, pins>>
<1>1. /\ ctl' \in Ctls /\ ctl'.flush_mask = {} /\ ctl'.cursor_on = ctl.cursor_on
      /\ ctl'.trigger = ctl.trigger
    BY DEF EncoderOn, Types, Ctls
<1>2. tail' \in Tails /\ tail'.pc = "wait" /\ (tail'.modeset <=> tail.modeset)
    BY DEF EncoderOn, Types, Tails
<1>3. /\ hw' \in HwStates /\ hw'.on /\ hw'.flush = hw.flush \union ctl.flush_mask
      /\ hw'.layers = hw.layers /\ hw'.regs = hw.regs /\ hw'.live = hw.live
    <2> DEFINE f == hw.flush \union ctl.flush_mask
    <2>1. f \in SUBSET {"LM", "CTL"}
        BY DEF Types, HwStates, Ctls
    <2>2. hw' = [hw EXCEPT !.on = TRUE, !.flush = f]
        BY DEF EncoderOn
    <2> HIDE DEF f
    <2>3. /\ hw' \in HwStates /\ hw'.on /\ hw'.flush = f
          /\ hw'.layers = hw.layers /\ hw'.regs = hw.regs /\ hw'.live = hw.live
        BY <2>1, <2>2 DEF Types, HwStates
    <2> QED BY <2>3 DEF f
<1> QED BY <1>1, <1>2, <1>3 DEF EncoderOn, Types

LEMMA RestoreStepDoes ==
    ASSUME Types, Restore
    PROVE  /\ Types'
           /\ Runs /\ tail.pc = "restore" /\ tail'.pc = "start"
           /\ (tail'.modeset <=> tail.modeset)
           /\ hw'.on = hw.on /\ hw'.flush = hw.flush /\ hw'.live = hw.live
           /\ hw'.regs = IF crtc.iova = NoBuffer THEN hw.regs ELSE RegsOf(crtc)
           /\ hw'.layers.planes = hw.layers.planes
           /\ (cs.two => hw'.layers = hw.layers /\ ctl' = ctl)
           /\ (~cs.two => /\ hw'.layers.cursor <=> crtc.iova # NoBuffer
                          /\ ctl'.cursor_on <=> crtc.iova # NoBuffer)
           /\ ctl'.flush_mask = ctl.flush_mask
           /\ UNCHANGED <<env, cs, ioctl, crtc, irq, work, pins>>
<1> DEFINE v == crtc.iova # NoBuffer
           h == IF crtc.iova = NoBuffer THEN hw ELSE restore_cursor(hw, crtc)
<1>1. v \in BOOLEAN /\ hw \in HwStates /\ ctl \in Ctls /\ crtc \in Crtc
    BY DEF Types
<1>2. /\ h \in HwStates /\ h.on = hw.on /\ h.flush = hw.flush /\ h.live = hw.live
      /\ h.layers = hw.layers
      /\ h.regs = IF crtc.iova = NoBuffer THEN hw.regs ELSE RegsOf(crtc)
    BY <1>1, RestoreDoes
<1>3. hw' = SetCursor(h, v) /\ ctl' = CursorSet(v)
    BY DEF Restore
<1>4. tail' \in Tails /\ tail'.pc = "start" /\ (tail'.modeset <=> tail.modeset)
    BY DEF Restore, Types, Tails
<1> HIDE DEF h, v
<1>5. /\ hw' \in HwStates /\ hw'.on = h.on /\ hw'.flush = h.flush /\ hw'.regs = h.regs
      /\ hw'.live = h.live
      /\ hw'.layers = IF cs.two THEN h.layers ELSE [planes |-> h.layers.planes, cursor |-> v]
      /\ ctl' \in Ctls /\ ctl'.flush_mask = ctl.flush_mask
      /\ cs.two => ctl' = ctl
      /\ ~cs.two => ctl'.cursor_on = v
    BY <1>1, <1>2, <1>3, SetCursorDoes
<1>6. hw'.layers.planes = h.layers.planes /\ (~cs.two => hw'.layers.cursor = v)
    BY <1>5
<1> QED BY <1>2, <1>4, <1>5, <1>6 DEF Restore, Types, v

LEMMA CommitDoneDoes ==
    ASSUME Types, CommitDone
    PROVE  /\ Types'
           /\ Runs /\ tail.pc = "wait" /\ tail'.pc = "idle"
           /\ (tail'.modeset <=> tail.modeset)
           /\ hw.flush = {} \/ ~hw.on
           /\ UNCHANGED <<env, cs, ioctl, crtc, ctl, irq, work, pins, hw>>
<1>1. tail' \in Tails /\ tail'.pc = "idle" /\ (tail'.modeset <=> tail.modeset)
    BY DEF CommitDone, Types, Tails
<1> QED BY <1>1 DEF CommitDone, Types

LEMMA IrqEnterDoes ==
    ASSUME Types, IrqEnter
    PROVE  /\ Types'
           /\ irq.raised /\ ~irq'.raised
           /\ crtc'.scanout_bo = crtc.scanout_bo /\ crtc'.iova = crtc.iova
           /\ crtc'.width = crtc.width /\ crtc'.x = crtc.x
           /\ UNCHANGED <<env, cs, tail, ioctl, ctl, work, pins, hw>>
<1>1. /\ crtc' \in Crtc /\ crtc'.scanout_bo = crtc.scanout_bo /\ crtc'.iova = crtc.iova
      /\ crtc'.width = crtc.width /\ crtc'.x = crtc.x
    BY DEF IrqEnter, Types, Crtc
<1>2. irq' \in Irqs /\ ~irq'.raised
    BY DEF IrqEnter, Irqs
<1> QED BY <1>1, <1>2 DEF IrqEnter, Types

LEMMA IrqTakeDoes ==
    ASSUME Types, IrqTake
    PROVE  /\ Types'
           /\ irq.taking /\ ~irq'.taking /\ (irq'.raised <=> irq.raised)
           /\ crtc'.scanout_bo = crtc.scanout_bo /\ crtc'.iova = crtc.iova
           /\ crtc'.width = crtc.width /\ crtc'.x = crtc.x
           /\ \/ work' = work
              \/ /\ work'.queued = None
                 /\ work'.committed = Plus(work.committed, work.queued)
           /\ \/ hw' = hw /\ ctl' = ctl
              \/ /\ ~cs.enable /\ ~hw'.layers.planes
                 /\ (hw'.layers.cursor <=> ctl.cursor_on)
                 /\ hw'.on = hw.on /\ hw'.flush = hw.flush /\ hw'.regs = hw.regs
                 /\ hw'.live = hw.live
                 /\ ctl'.trigger = {"LM"} /\ ctl'.cursor_on = ctl.cursor_on
                 /\ ctl'.flush_mask = ctl.flush_mask
           /\ UNCHANGED <<env, cs, tail, ioctl, pins>>
<1>1. /\ crtc' \in Crtc /\ crtc'.scanout_bo = crtc.scanout_bo /\ crtc'.iova = crtc.iova
      /\ crtc'.width = crtc.width /\ crtc'.x = crtc.x
    BY DEF IrqTake, Types, Crtc
<1>2. irq' \in Irqs /\ ~irq'.taking /\ (irq'.raised <=> irq.raised)
    BY DEF IrqTake, Types, Irqs
<1>3. /\ work' \in Works
      /\ \/ work' = work
         \/ /\ work'.queued = None
            /\ work'.committed = Plus(work.committed, work.queued)
    <2>1. CASE Released
        <3> DEFINE q == Plus(work.committed, work.queued)
        <3>1. None \in Counts /\ q \in Counts
            BY CountsKept DEF Types, Works
        <3>2. work' = [queued |-> None, committed |-> q]
            BY <2>1 DEF IrqTake
        <3> HIDE DEF q
        <3>3. work' \in Works /\ work'.queued = None /\ work'.committed = q
            BY <3>1, <3>2 DEF Works
        <3> QED BY <3>3 DEF q
    <2>2. CASE ~Released
        BY <2>2 DEF IrqTake, Types
    <2> QED BY <2>1, <2>2
<1>4. CASE "FLIP" \in crtc.pending /\ ~cs.enable
    <2>1. hw \in HwStates /\ ctl \in Ctls /\ FALSE \in BOOLEAN
        BY DEF Types
    <2>2. hw' = Blend(hw, FALSE) /\ ctl' = [ctl EXCEPT !.trigger = {"LM"}]
        BY <1>4 DEF IrqTake
    <2>3. /\ ctl' \in Ctls /\ ctl'.trigger = {"LM"} /\ ctl'.cursor_on = ctl.cursor_on
          /\ ctl'.flush_mask = ctl.flush_mask
        BY <2>1, <2>2 DEF Ctls
    <2>4. /\ hw' \in HwStates /\ hw'.layers = [planes |-> FALSE, cursor |-> ctl.cursor_on]
          /\ hw'.on = hw.on /\ hw'.flush = hw.flush /\ hw'.regs = hw.regs
          /\ hw'.live = hw.live
        BY <2>1, <2>2, BlendDoes
    <2>5. ~hw'.layers.planes /\ hw'.layers.cursor = ctl.cursor_on
        BY <2>4
    <2>6. UNCHANGED <<env, cs, tail, ioctl, pins>> /\ irq.taking
        BY DEF IrqTake
    <2>7. Types'
        BY <1>1, <1>2, <1>3, <2>3, <2>4, <2>6 DEF Types
    <2> QED BY <1>1, <1>2, <1>3, <1>4, <2>3, <2>4, <2>5, <2>6, <2>7
<1>5. CASE ~("FLIP" \in crtc.pending /\ ~cs.enable)
    <2>1. hw' = hw /\ ctl' = ctl /\ UNCHANGED <<env, cs, tail, ioctl, pins>> /\ irq.taking
        BY <1>5 DEF IrqTake
    <2>2. Types'
        BY <1>1, <1>2, <1>3, <2>1 DEF Types
    <2> QED BY <1>1, <1>2, <1>3, <2>1, <2>2
<1> QED BY <1>4, <1>5

LEMMA WorkerDoes ==
    ASSUME Types, Worker
    PROVE  /\ Types'
           /\ pins' = [b \in Buffers |-> pins[b] - work.committed[b]]
           /\ work'.queued = work.queued /\ work'.committed = None
           /\ UNCHANGED <<env, cs, tail, ioctl, crtc, ctl, irq, hw>>
<1>1. work' \in Works /\ work'.queued = work.queued /\ work'.committed = None
    BY CountsKept DEF Worker, Types, Works
<1> QED BY <1>1 DEF Worker, Types

LEMMA VsyncDoes ==
    ASSUME Types, Vsync
    PROVE  /\ Types'
           /\ hw.on
           /\ hw'.live.layers = IF "CTL" \in hw.flush THEN hw.layers ELSE hw.live.layers
           /\ hw'.live.regs = IF "LM" \in hw.flush THEN hw.regs ELSE hw.live.regs
           /\ hw'.flush = {} /\ hw'.on = hw.on /\ hw'.layers = hw.layers
           /\ hw'.regs = hw.regs
           /\ UNCHANGED <<env, cs, tail, ioctl, crtc, ctl, work, pins>>
<1> DEFINE l == IF "CTL" \in hw.flush THEN hw.layers ELSE hw.live.layers
           r == IF "LM" \in hw.flush THEN hw.regs ELSE hw.live.regs
           v == [layers |-> l, regs |-> r]
<1>1. hw \in HwStates
    BY DEF Types
<1>2. l \in Layers /\ r \in Regs
    BY <1>1 DEF HwStates
<1>3. hw' = [hw EXCEPT !.live.layers = l, !.live.regs = r, !.flush = {}]
    BY DEF Vsync
<1>4. irq' \in Irqs
    BY DEF Vsync, Types, Irqs
<1> HIDE DEF l, r
<1>5. v \in [layers : Layers, regs : Regs] /\ v.layers = l /\ v.regs = r
    BY <1>2
<1>6. [hw.live EXCEPT !.layers = l, !.regs = r] = v
    <2> DEFINE g == hw.live
    <2>1. g \in [layers : Layers, regs : Regs]
        BY <1>1 DEF HwStates
    <2> HIDE DEF g
    <2> DEFINE k == [g EXCEPT !.layers = l]
    <2>2. k \in [layers : Layers, regs : Regs] /\ k.layers = l
        BY <1>2, <2>1
    <2>3. [g EXCEPT !.layers = l, !.regs = r] = [k EXCEPT !.regs = r]
        OBVIOUS
    <2> HIDE DEF k
    <2>4. [k EXCEPT !.regs = r] = v
        BY <1>2, <2>2
    <2> QED BY <2>3, <2>4 DEF g
<1>7. hw' = [hw EXCEPT !.live = v, !.flush = {}]
    BY <1>1, <1>3, <1>6 DEF HwStates
<1> HIDE DEF v
<1>8. /\ hw' \in HwStates /\ hw'.live = v /\ hw'.flush = {} /\ hw'.on = hw.on
      /\ hw'.layers = hw.layers /\ hw'.regs = hw.regs
    BY <1>1, <1>5, <1>7 DEF HwStates
<1> QED BY <1>4, <1>5, <1>8 DEF Vsync, Types, l, r

LEMMA PowerLossDoes ==
    ASSUME Types, PowerLoss
    PROVE  /\ Types'
           /\ ~cs.enable /\ tail.pc = "idle" /\ ioctl = Idle
           /\ hw'.flush = {} /\ ~hw'.on /\ ~hw'.layers.cursor /\ ~hw'.live.layers.cursor
           /\ hw'.regs = NoRegs /\ hw'.live.regs = NoRegs
           /\ UNCHANGED <<env, cs, tail, ioctl, crtc, ctl, irq, work, pins>>
<1>1. Dark \in Layers /\ ~Dark.cursor /\ NoRegs \in Regs
    BY DEF Dark, Layers, NoRegs, Regs, Names
<1>2. hw' = [on |-> FALSE, flush |-> {}, layers |-> Dark, regs |-> NoRegs,
             live |-> [layers |-> Dark, regs |-> NoRegs]]
    BY DEF PowerLoss, PoweredUp
<1>3. /\ hw' \in HwStates /\ hw'.flush = {} /\ ~hw'.on /\ hw'.layers = Dark
      /\ hw'.live.layers = Dark /\ hw'.regs = NoRegs /\ hw'.live.regs = NoRegs
    BY <1>1, <1>2 DEF HwStates
<1> QED BY <1>1, <1>3 DEF PowerLoss, Types

\* ---------------------------------------------------------------- pins

(* The locals of a call are set in the steps that use them, and no call is   *)
(* under way while there is a right mixer.                                   *)
CallShape ==
    /\ ioctl.pc = "write" => ioctl.bo \in Buffers /\ ioctl.enable
    /\ ioctl.pc # "write" => ioctl.bo = NoBuffer
    /\ ioctl.pc \in {"idle", "write", "pend", "move"} => ioctl.old = NoBuffer
    /\ ioctl.pc = "idle" => ioctl = Idle
    /\ ioctl.pc # "idle" => ~cs.two

PinsInv == Types /\ pins \in Counts /\ CallShape /\ PinsBalanced

LEMMA SamePins ==
    ASSUME PinsInv, pins' = pins, work' = work, crtc'.scanout_bo = crtc.scanout_bo,
           ioctl'.bo = ioctl.bo, ioctl'.old = ioctl.old
    PROVE  PinsBalanced'
BY DEF PinsInv, PinsBalanced

LEMMA InitPins == Init => PinsInv
<1> SUFFICES ASSUME Init PROVE PinsInv
    OBVIOUS
<1>1. env \in Envs /\ cs \in Css /\ tail \in Tails /\ irq \in Irqs
    BY DEF Init, Css, Tails, Irqs
<1>2. ioctl \in Calls /\ ioctl = Idle
    BY IdleIs DEF Init
<1>3. crtc \in Crtc /\ crtc.scanout_bo = NoBuffer /\ ctl \in Ctls
    BY DEF Init, Crtc, Ctls, Names
<1>4. work \in Works /\ pins \in Counts /\ pins = None /\ work.queued = None /\ work.committed = None
    BY CountsKept DEF Init, Works
<1>5. hw \in HwStates
    <2>1. Dark \in Layers /\ NoRegs \in Regs
        BY DEF Dark, Layers, NoRegs, Regs, Names
    <2> QED BY <2>1 DEF Init, PoweredUp, HwStates
<1>6. CallShape
    BY <1>2, IdleIs DEF CallShape
<1>7. PinsBalanced
    <2> SUFFICES ASSUME NEW b \in Buffers
                 PROVE  pins[b] = One(crtc.scanout_bo)[b] + One(ioctl.bo)[b] + One(ioctl.old)[b]
                                  + work.queued[b] + work.committed[b]
        BY DEF PinsBalanced
    <2>1. None[b] = 0
        BY Additions
    <2>2. NoBuffer \in Names /\ b # NoBuffer
        BY CursorAssumption DEF Names
    <2>3. One(NoBuffer)[b] = 0
        BY <2>2, Additions
    <2> QED BY <1>2, <1>3, <1>4, <2>1, <2>3, IdleIs
<1> QED BY <1>1, <1>2, <1>3, <1>4, <1>5, <1>6, <1>7 DEF PinsInv, Types

LEMMA NextPins == PinsInv /\ [Next]_vars => PinsInv'
<1> SUFFICES ASSUME PinsInv, [Next]_vars PROVE PinsInv'
    OBVIOUS
<1>a. Types /\ pins \in Counts /\ CallShape /\ PinsBalanced
    BY DEF PinsInv
<1>b. ASSUME NEW b \in Buffers
      PROVE  /\ pins[b] = One(crtc.scanout_bo)[b] + One(ioctl.bo)[b] + One(ioctl.old)[b]
                          + work.queued[b] + work.committed[b]
             /\ pins[b] \in Nat /\ work.queued[b] \in Nat /\ work.committed[b] \in Nat
             /\ One(NoBuffer)[b] = 0 /\ None[b] = 0
             /\ One(crtc.scanout_bo)[b] \in Nat /\ One(ioctl.bo)[b] \in Nat
             /\ One(ioctl.old)[b] \in Nat
    <2>1. crtc.scanout_bo \in Names /\ ioctl.bo \in Names /\ ioctl.old \in Names
          /\ NoBuffer \in Names /\ NoBuffer \notin Buffers
        <3>1. crtc \in Crtc /\ ioctl \in Calls
            BY <1>a DEF Types
        <3>2. crtc.scanout_bo \in Names
            BY <3>1 DEF Crtc
        <3>3. ioctl.bo \in Names /\ ioctl.old \in Names
            BY <3>1 DEF Calls
        <3>4. NoBuffer \in Names /\ NoBuffer \notin Buffers
            BY CursorAssumption DEF Names
        <3> QED BY <3>2, <3>3, <3>4
    <2>2. \A n \in Names : One(n)[b] = IF b = n THEN 1 ELSE 0
        BY Additions
    <2>3. None[b] = 0
        BY Additions
    <2>4. pins[b] \in Nat /\ work.queued[b] \in Nat /\ work.committed[b] \in Nat
        BY <1>a DEF Types, Works, Counts
    <2>5. pins[b] = One(crtc.scanout_bo)[b] + One(ioctl.bo)[b] + One(ioctl.old)[b]
                    + work.queued[b] + work.committed[b]
        BY <1>a DEF PinsBalanced
    <2> QED BY <2>1, <2>2, <2>3, <2>4, <2>5
<1>1. ASSUME NEW b \in Buffers, NEW width \in Sizes, SetBegin(b, width) PROVE PinsInv'
    <2>1. CallShape'
        BY <1>a, <1>1, SetBeginDoes, IdleIs DEF CallShape
    <2>2. pins' = Plus(pins, One(b)) /\ pins' \in Counts
        BY <1>a, <1>1, SetBeginDoes, CountsKept DEF Names
    <2>3. PinsBalanced'
        <3> SUFFICES ASSUME NEW x \in Buffers
                     PROVE  pins'[x] = One(crtc'.scanout_bo)[x] + One(ioctl'.bo)[x]
                                       + One(ioctl'.old)[x] + work'.queued[x] + work'.committed[x]
            BY DEF PinsBalanced
        <3>1. pins'[x] = pins[x] + One(b)[x] /\ One(b)[x] \in Nat
            BY <1>a, <2>2, Additions DEF Names
        <3>2. One(ioctl.bo)[x] = 0 /\ One(ioctl.old)[x] = 0 /\ One(NoBuffer)[x] = 0
            BY <1>a, <1>b, <1>1, SetBeginDoes, IdleIs
        <3>3. /\ crtc'.scanout_bo = crtc.scanout_bo /\ ioctl'.bo = b /\ ioctl'.old = NoBuffer
              /\ work' = work
            BY <1>a, <1>1, SetBeginDoes
        <3> QED BY <1>b, <3>1, <3>2, <3>3
    <2> QED BY <1>a, <1>1, <2>1, <2>2, <2>3, SetBeginDoes DEF PinsInv
<1>2. ASSUME OffBegin PROVE PinsInv'
    <2>1. CallShape'
        BY <1>a, <1>2, OffBeginDoes, IdleIs DEF CallShape
    <2>2. PinsBalanced'
        BY <1>2, OffBeginDoes, SamePins, IdleIs DEF PinsInv, CallShape
    <2> QED BY <1>a, <1>2, <2>1, <2>2, OffBeginDoes DEF PinsInv
<1>3. ASSUME NEW x \in env.moves, MoveBegin(x) PROVE PinsInv'
    <2>1. CallShape'
        BY <1>a, <1>3, MoveBeginDoes, IdleIs DEF CallShape
    <2>2. PinsBalanced'
        BY <1>3, MoveBeginDoes, SamePins, IdleIs DEF PinsInv, CallShape
    <2> QED BY <1>a, <1>3, <2>1, <2>2, MoveBeginDoes DEF PinsInv
<1>4. ASSUME SetWrite PROVE PinsInv'
    <2>1. CallShape'
        BY <1>a, <1>4, SetWriteDoes, IdleIs DEF CallShape
    <2>2. PinsBalanced'
        <3> SUFFICES ASSUME NEW x \in Buffers
                     PROVE  pins'[x] = One(crtc'.scanout_bo)[x] + One(ioctl'.bo)[x]
                                       + One(ioctl'.old)[x] + work'.queued[x] + work'.committed[x]
            BY DEF PinsBalanced
        <3>1. ioctl.old = NoBuffer
            BY <1>a, <1>4, SetWriteDoes DEF CallShape
        <3>2. /\ crtc'.scanout_bo = ioctl.bo /\ ioctl'.bo = NoBuffer
              /\ ioctl'.old = crtc.scanout_bo /\ work' = work /\ pins' = pins
            BY <1>a, <1>4, SetWriteDoes
        <3> QED BY <1>b, <3>1, <3>2
    <2> QED BY <1>a, <1>4, <2>1, <2>2, SetWriteDoes DEF PinsInv
<1>5. ASSUME SetCtl PROVE PinsInv'
    <2>1. ~cs.two
        BY <1>a, <1>5 DEF CallShape, SetCtl
    <2>2. CallShape'
        BY <1>a, <1>5, <2>1, SetCtlDoes DEF CallShape
    <2>3. PinsBalanced'
        BY <1>a, <1>5, <2>1, SetCtlDoes, SamePins
    <2> QED BY <1>a, <1>5, <2>1, <2>2, <2>3, SetCtlDoes DEF PinsInv
<1>6. ASSUME Flush PROVE PinsInv'
    <2>1. CallShape'
        BY <1>a, <1>6, FlushDoes, IdleIs DEF CallShape
    <2>2. ioctl'.bo = ioctl.bo /\ ioctl'.old = ioctl.old
        BY <1>a, <1>6, FlushDoes, IdleIs DEF CallShape
    <2>3. PinsBalanced'
        BY <1>a, <1>6, <2>2, FlushDoes, SamePins
    <2> QED BY <1>a, <1>6, <2>1, <2>3, FlushDoes DEF PinsInv
<1>7. ASSUME Queue PROVE PinsInv'
    <2>1. CallShape'
        BY <1>a, <1>7, QueueDoes, IdleIs DEF CallShape
    <2>2. PinsBalanced'
        <3> SUFFICES ASSUME NEW x \in Buffers
                     PROVE  pins'[x] = One(crtc'.scanout_bo)[x] + One(ioctl'.bo)[x]
                                       + One(ioctl'.old)[x] + work'.queued[x] + work'.committed[x]
            BY DEF PinsBalanced
        <3>1. /\ work'.queued = Plus(work.queued, One(ioctl.old))
              /\ work'.committed = work.committed
              /\ ioctl'.old = NoBuffer /\ ioctl'.bo = ioctl.bo /\ pins' = pins /\ crtc' = crtc
            BY <1>a, <1>7, QueueDoes
        <3>2. work.queued \in Counts /\ One(ioctl.old) \in Counts
            BY <1>a, CountsKept DEF Types, Works, Calls
        <3>3. Plus(work.queued, One(ioctl.old))[x] = work.queued[x] + One(ioctl.old)[x]
            BY <3>2, Additions
        <3> QED BY <1>b, <3>1, <3>3
    <2> QED BY <1>a, <1>7, <2>1, <2>2, QueueDoes DEF PinsInv
<1>8. ASSUME SetPend PROVE PinsInv'
    <2>1. CallShape'
        BY <1>a, <1>8, SetPendDoes, IdleIs DEF CallShape
    <2>2. ioctl'.bo = ioctl.bo /\ ioctl'.old = ioctl.old
        BY <1>a, <1>8, SetPendDoes, IdleIs DEF CallShape
    <2>3. PinsBalanced'
        BY <1>a, <1>8, <2>2, SetPendDoes, SamePins
    <2> QED BY <1>a, <1>8, <2>1, <2>3, SetPendDoes DEF PinsInv
<1>9. ASSUME MoveWrite PROVE PinsInv'
    <2>1. CallShape'
        BY <1>a, <1>9, MoveWriteDoes, IdleIs DEF CallShape
    <2>2. ioctl'.bo = ioctl.bo /\ ioctl'.old = ioctl.old
        BY <1>a, <1>9, MoveWriteDoes, IdleIs DEF CallShape
    <2>3. PinsBalanced'
        BY <1>a, <1>9, <2>2, MoveWriteDoes, SamePins
    <2> QED BY <1>a, <1>9, <2>1, <2>3, MoveWriteDoes DEF PinsInv
<1>10. ASSUME EncoderOff PROVE PinsInv'
    <2>1. CallShape'
        BY <1>a, <1>10, EncoderOffDoes, IdleIs DEF CallShape
    <2>2. ioctl'.bo = ioctl.bo /\ ioctl'.old = ioctl.old
        BY <1>a, <1>10, EncoderOffDoes, IdleIs DEF CallShape
    <2>3. PinsBalanced'
        BY <1>a, <1>10, <2>2, EncoderOffDoes, SamePins
    <2> QED BY <1>a, <1>10, <2>1, <2>3, EncoderOffDoes DEF PinsInv
<1>11. ASSUME BlendReset PROVE PinsInv'
    <2>1. CallShape'
        BY <1>a, <1>11, BlendResetDoes, IdleIs DEF CallShape
    <2>2. ioctl'.bo = ioctl.bo /\ ioctl'.old = ioctl.old
        BY <1>a, <1>11, BlendResetDoes, IdleIs DEF CallShape
    <2>3. PinsBalanced'
        BY <1>a, <1>11, <2>2, BlendResetDoes, SamePins
    <2> QED BY <1>a, <1>11, <2>1, <2>3, BlendResetDoes DEF PinsInv
<1>12. ASSUME BlendSetup PROVE PinsInv'
    <2>1. CallShape'
        BY <1>a, <1>12, BlendSetupDoes, IdleIs DEF CallShape
    <2>2. ioctl'.bo = ioctl.bo /\ ioctl'.old = ioctl.old
        BY <1>a, <1>12, BlendSetupDoes, IdleIs DEF CallShape
    <2>3. PinsBalanced'
        BY <1>a, <1>12, <2>2, BlendSetupDoes, SamePins
    <2> QED BY <1>a, <1>12, <2>1, <2>3, BlendSetupDoes DEF PinsInv
<1>13. ASSUME FlushAll PROVE PinsInv'
    <2>1. CallShape'
        BY <1>a, <1>13, FlushAllDoes, IdleIs DEF CallShape
    <2>2. ioctl'.bo = ioctl.bo /\ ioctl'.old = ioctl.old
        BY <1>a, <1>13, FlushAllDoes, IdleIs DEF CallShape
    <2>3. PinsBalanced'
        BY <1>a, <1>13, <2>2, FlushAllDoes, SamePins
    <2> QED BY <1>a, <1>13, <2>1, <2>3, FlushAllDoes DEF PinsInv
<1>14. ASSUME FlipPend PROVE PinsInv'
    <2>1. CallShape'
        BY <1>a, <1>14, FlipPendDoes, IdleIs DEF CallShape
    <2>2. ioctl'.bo = ioctl.bo /\ ioctl'.old = ioctl.old
        BY <1>a, <1>14, FlipPendDoes, IdleIs DEF CallShape
    <2>3. PinsBalanced'
        BY <1>a, <1>14, <2>2, FlipPendDoes, SamePins
    <2> QED BY <1>a, <1>14, <2>1, <2>3, FlipPendDoes DEF PinsInv
<1>15. ASSUME Restore PROVE PinsInv'
    <2>1. CallShape'
        BY <1>a, <1>15, RestoreStepDoes, IdleIs DEF CallShape
    <2>2. ioctl'.bo = ioctl.bo /\ ioctl'.old = ioctl.old
        BY <1>a, <1>15, RestoreStepDoes, IdleIs DEF CallShape
    <2>3. PinsBalanced'
        BY <1>a, <1>15, <2>2, RestoreStepDoes, SamePins
    <2> QED BY <1>a, <1>15, <2>1, <2>3, RestoreStepDoes DEF PinsInv
<1>16. ASSUME EncoderOn PROVE PinsInv'
    <2>1. CallShape'
        BY <1>a, <1>16, EncoderOnDoes, IdleIs DEF CallShape
    <2>2. ioctl'.bo = ioctl.bo /\ ioctl'.old = ioctl.old
        BY <1>a, <1>16, EncoderOnDoes, IdleIs DEF CallShape
    <2>3. PinsBalanced'
        BY <1>a, <1>16, <2>2, EncoderOnDoes, SamePins
    <2> QED BY <1>a, <1>16, <2>1, <2>3, EncoderOnDoes DEF PinsInv
<1>17. ASSUME CommitDone PROVE PinsInv'
    <2>1. CallShape'
        BY <1>a, <1>17, CommitDoneDoes, IdleIs DEF CallShape
    <2>2. ioctl'.bo = ioctl.bo /\ ioctl'.old = ioctl.old
        BY <1>a, <1>17, CommitDoneDoes, IdleIs DEF CallShape
    <2>3. PinsBalanced'
        BY <1>a, <1>17, <2>2, CommitDoneDoes, SamePins
    <2> QED BY <1>a, <1>17, <2>1, <2>3, CommitDoneDoes DEF PinsInv
<1>18. ASSUME IrqEnter PROVE PinsInv'
    <2>1. CallShape'
        BY <1>a, <1>18, IrqEnterDoes, IdleIs DEF CallShape
    <2>2. ioctl'.bo = ioctl.bo /\ ioctl'.old = ioctl.old
        BY <1>a, <1>18, IrqEnterDoes, IdleIs DEF CallShape
    <2>3. PinsBalanced'
        BY <1>a, <1>18, <2>2, IrqEnterDoes, SamePins
    <2> QED BY <1>a, <1>18, <2>1, <2>3, IrqEnterDoes DEF PinsInv
<1>19. ASSUME Vsync PROVE PinsInv'
    <2>1. CallShape'
        BY <1>a, <1>19, VsyncDoes, IdleIs DEF CallShape
    <2>2. ioctl'.bo = ioctl.bo /\ ioctl'.old = ioctl.old
        BY <1>a, <1>19, VsyncDoes, IdleIs DEF CallShape
    <2>3. PinsBalanced'
        BY <1>a, <1>19, <2>2, VsyncDoes, SamePins
    <2> QED BY <1>a, <1>19, <2>1, <2>3, VsyncDoes DEF PinsInv
<1>20. ASSUME PowerLoss PROVE PinsInv'
    <2>1. CallShape'
        BY <1>a, <1>20, PowerLossDoes, IdleIs DEF CallShape
    <2>2. ioctl'.bo = ioctl.bo /\ ioctl'.old = ioctl.old
        BY <1>a, <1>20, PowerLossDoes, IdleIs DEF CallShape
    <2>3. PinsBalanced'
        BY <1>a, <1>20, <2>2, PowerLossDoes, SamePins
    <2> QED BY <1>a, <1>20, <2>1, <2>3, PowerLossDoes DEF PinsInv
<1>21. ASSUME NEW enable \in BOOLEAN, NEW modeset \in BOOLEAN, NEW two \in BOOLEAN,
             Swap(enable, modeset, two)
      PROVE PinsInv'
    <2>1. CallShape'
        BY <1>a, <1>21, SwapDoes, IdleIs DEF CallShape
    <2>2. ioctl'.bo = ioctl.bo /\ ioctl'.old = ioctl.old
        BY <1>a, <1>21, SwapDoes, IdleIs DEF CallShape
    <2>3. PinsBalanced'
        BY <1>a, <1>21, <2>2, SwapDoes, SamePins
    <2> QED BY <1>a, <1>21, <2>1, <2>3, SwapDoes DEF PinsInv
<1>22. ASSUME IrqTake PROVE PinsInv'
    <2>1. CallShape'
        BY <1>a, <1>22, IrqTakeDoes DEF CallShape
    <2>2. PinsBalanced'
        <3>1. CASE work' = work
            BY <1>a, <1>22, <3>1, IrqTakeDoes, SamePins
        <3>2. CASE work'.queued = None /\ work'.committed = Plus(work.committed, work.queued)
            <4> SUFFICES ASSUME NEW x \in Buffers
                         PROVE  pins'[x] = One(crtc'.scanout_bo)[x] + One(ioctl'.bo)[x]
                                           + One(ioctl'.old)[x] + work'.queued[x]
                                           + work'.committed[x]
                BY DEF PinsBalanced
            <4>1. ioctl' = ioctl /\ pins' = pins /\ crtc'.scanout_bo = crtc.scanout_bo
                BY <1>a, <1>22, IrqTakeDoes
            <4>2. work.queued \in Counts /\ work.committed \in Counts
                BY <1>a DEF Types, Works
            <4>3. Plus(work.committed, work.queued)[x] = work.committed[x] + work.queued[x]
                BY <4>2, Additions
            <4> QED BY <1>b, <3>2, <4>1, <4>3
        <3> QED BY <1>a, <1>22, <3>1, <3>2, IrqTakeDoes
    <2>3. Types' /\ pins' = pins
        BY <1>a, <1>22, IrqTakeDoes
    <2> QED BY <1>a, <2>1, <2>2, <2>3 DEF PinsInv
<1>23. ASSUME Worker PROVE PinsInv'
    <2>1. CallShape'
        BY <1>a, <1>23, WorkerDoes DEF CallShape
    <2>2. /\ pins' = [b \in Buffers |-> pins[b] - work.committed[b]]
          /\ work'.queued = work.queued /\ work'.committed = None /\ crtc' = crtc
          /\ ioctl' = ioctl
        BY <1>a, <1>23, WorkerDoes
    <2>3. \A b \in Buffers : pins'[b] = pins[b] - work.committed[b]
        BY <2>2
    <2>4. pins' \in Counts
        <3>1. ASSUME NEW b \in Buffers PROVE pins[b] - work.committed[b] \in Nat
            BY <1>b
        <3> QED BY <2>2, <3>1 DEF Counts
    <2>5. PinsBalanced'
        <3> SUFFICES ASSUME NEW x \in Buffers
                     PROVE  pins'[x] = One(crtc'.scanout_bo)[x] + One(ioctl'.bo)[x]
                                       + One(ioctl'.old)[x] + work'.queued[x] + work'.committed[x]
            BY DEF PinsBalanced
        <3> QED BY <1>b, <2>2, <2>3
    <2> QED BY <1>a, <1>23, <2>1, <2>4, <2>5, WorkerDoes DEF PinsInv
<1>24. ASSUME UNCHANGED vars PROVE PinsInv'
    BY <1>a, <1>24 DEF vars, PinsInv, Types, CallShape, PinsBalanced
<1> QED BY <1>1, <1>2, <1>3, <1>4, <1>5, <1>6, <1>7, <1>8, <1>9, <1>10, <1>11, <1>12, <1>13, <1>14, <1>15, <1>16, <1>17, <1>18, <1>19, <1>20, <1>21, <1>22, <1>23, <1>24 DEF Next, Ioctl, Tail

(* Every pin is accounted for, whatever the CRTC, its calls and its commits  *)
(* do in between (mdp5_crtc_cursor_set, unref_cursor_worker).                *)
THEOREM PinsCorrect == Spec => []PinsBalanced
<1>1. PinsInv => PinsBalanced
    BY DEF PinsInv
<1> QED BY <1>1, InitPins, NextPins, PTL DEF Spec

LEMMA Parts ==
    ASSUME Types
    PROVE  /\ tail.pc \in {"idle", "disable", "reset", "blend", "flush", "pend", "restore", "start",
                          "wait"}
           /\ ioctl.pc \in {"idle", "write", "ctl", "flush", "queue", "pend", "move"}
           /\ hw.flush \subseteq {"LM", "CTL"} /\ ctl.flush_mask \subseteq {"LM", "CTL"}
           /\ crtc.iova \in Names /\ crtc.scanout_bo \in Names
           /\ NoBuffer \notin Buffers /\ Names = Buffers \union {NoBuffer}
<1>1. tail.pc \in {"idle", "disable", "reset", "blend", "flush", "pend", "restore", "start",
                   "wait"}
    BY DEF Types, Tails
<1>2. ioctl.pc \in {"idle", "write", "ctl", "flush", "queue", "pend", "move"}
    BY DEF Types, Calls
<1>3. hw.flush \subseteq {"LM", "CTL"} /\ ctl.flush_mask \subseteq {"LM", "CTL"}
    BY DEF Types, HwStates, Ctls
<1>4. crtc.iova \in Names /\ crtc.scanout_bo \in Names
    BY DEF Types, Crtc
<1>5. NoBuffer \notin Buffers
    BY CursorAssumption
<1>6. Names = Buffers \union {NoBuffer}
    BY DEF Names
<1> QED BY <1>1, <1>2, <1>3, <1>4, <1>5, <1>6

\* ---------------------------------------------------------------- a user space that waits

(* A call and the tail of a commit do not overlap.                           *)
Waiting == ioctl.pc = "idle" \/ tail.pc = "idle"

(* Flushes are deferred from the swap of a modeset to its own flush.         *)
Deferred ==
    cs.defer_start <=> /\ tail.pc \in {"disable", "reset", "blend", "flush"}
                       /\ tail.modeset /\ cs.enable

(* Where in a commit the interface runs.                                     *)
Powered ==
    /\ tail.pc \in {"idle", "wait"} => (hw.on <=> cs.enable)
    /\ tail.pc = "disable" => hw.on /\ tail.modeset
    /\ tail.pc \in {"reset", "blend", "flush", "pend"} =>
           (hw.on <=> ~tail.modeset) /\ (~tail.modeset => cs.enable)
    /\ tail.pc \in {"restore", "start"} => ~hw.on /\ tail.modeset /\ cs.enable

(* The CTL, the call under way and the CRTC agree on whether there is a      *)
(* cursor, and from which buffer.                                            *)
Asked ==
    /\ ioctl.pc \notin {"write", "ctl"} => (ctl.cursor_on <=> crtc.iova # NoBuffer)
    /\ ioctl.pc \in {"write", "ctl"} => (ioctl.enable <=> crtc.iova # NoBuffer)
    /\ ioctl.pc # "write" => crtc.iova \in {NoBuffer, crtc.scanout_bo}
    /\ ioctl.pc = "write" => crtc.iova = ioctl.bo

(* The layers are never flushed without the mixer's registers.               *)
Together ==
    /\ "CTL" \in hw.flush => "LM" \in hw.flush
    /\ "CTL" \in ctl.flush_mask => "LM" \in ctl.flush_mask

(* No mixer that runs is left with a cursor and without its buffer.          *)
Written ==
    /\ hw.layers.cursor => ctl.cursor_on
    /\ hw.regs.base \in {NoBuffer, crtc.scanout_bo}
    /\ (hw.on \/ hw.live.layers.cursor \/ tail.pc = "start") /\ ctl.cursor_on =>
           hw.regs.base \in Buffers
    /\ ioctl.pc = "ctl" /\ ioctl.enable => hw.regs.base \in Buffers

OrderInv == PinsInv /\ (env.waits => Waiting /\ Deferred /\ Powered)

AskedInv == OrderInv /\ (env.waits => Asked /\ Together)

WrittenInv == AskedInv /\ (env.waits => Written)

LEMMA NextOrder == ASSUME OrderInv, env.waits, [Next]_vars PROVE Waiting' /\ Deferred' /\ Powered'
<1>a. PinsInv /\ Waiting /\ Deferred /\ Powered
    BY DEF OrderInv
<1>b. ~cs.two \/ ioctl.pc = "idle"
    BY <1>a DEF PinsInv, CallShape
<1>c. Types /\ CallShape
    BY <1>a DEF PinsInv
<1>1. ASSUME NEW b \in Buffers, NEW width \in Sizes, SetBegin(b, width) PROVE Waiting' /\ Deferred' /\ Powered'
    BY <1>a, <1>c, <1>1, SetBeginDoes, Parts, IdleIs DEF Waiting, Deferred, Powered
<1>2. ASSUME OffBegin PROVE Waiting' /\ Deferred' /\ Powered'
    BY <1>a, <1>c, <1>2, OffBeginDoes, Parts, IdleIs DEF Waiting, Deferred, Powered
<1>3. ASSUME NEW x \in env.moves, MoveBegin(x) PROVE Waiting' /\ Deferred' /\ Powered'
    BY <1>a, <1>c, <1>3, MoveBeginDoes, Parts, IdleIs DEF Waiting, Deferred, Powered
<1>4. ASSUME SetWrite PROVE Waiting' /\ Deferred' /\ Powered'
    BY <1>a, <1>c, <1>4, SetWriteDoes, Parts, IdleIs DEF Waiting, Deferred, Powered
<1>5. ASSUME SetCtl PROVE Waiting' /\ Deferred' /\ Powered'
    BY <1>a, <1>b, <1>c, <1>5, SetCtlDoes, Parts, IdleIs DEF Waiting, Deferred, Powered, SetCtl
<1>6. ASSUME Flush PROVE Waiting' /\ Deferred' /\ Powered'
    BY <1>a, <1>c, <1>6, FlushDoes, Parts, IdleIs DEF Waiting, Deferred, Powered
<1>7. ASSUME Queue PROVE Waiting' /\ Deferred' /\ Powered'
    BY <1>a, <1>c, <1>7, QueueDoes, Parts, IdleIs DEF Waiting, Deferred, Powered
<1>8. ASSUME SetPend PROVE Waiting' /\ Deferred' /\ Powered'
    BY <1>a, <1>c, <1>8, SetPendDoes, Parts, IdleIs DEF Waiting, Deferred, Powered
<1>9. ASSUME MoveWrite PROVE Waiting' /\ Deferred' /\ Powered'
    BY <1>a, <1>c, <1>9, MoveWriteDoes, Parts, IdleIs DEF Waiting, Deferred, Powered
<1>10. ASSUME NEW enable \in BOOLEAN, NEW modeset \in BOOLEAN, NEW two \in BOOLEAN,
             Swap(enable, modeset, two)
      PROVE Waiting' /\ Deferred' /\ Powered'
    BY <1>a, <1>c, <1>10, SwapDoes, Parts, IdleIs DEF Waiting, Deferred, Powered
<1>11. ASSUME EncoderOff PROVE Waiting' /\ Deferred' /\ Powered'
    BY <1>a, <1>c, <1>11, EncoderOffDoes, Parts, IdleIs DEF Waiting, Deferred, Powered
<1>12. ASSUME BlendReset PROVE Waiting' /\ Deferred' /\ Powered'
    BY <1>a, <1>c, <1>12, BlendResetDoes, Parts, IdleIs DEF Waiting, Deferred, Powered
<1>13. ASSUME BlendSetup PROVE Waiting' /\ Deferred' /\ Powered'
    BY <1>a, <1>c, <1>13, BlendSetupDoes, Parts, IdleIs DEF Waiting, Deferred, Powered
<1>14. ASSUME FlushAll PROVE Waiting' /\ Deferred' /\ Powered'
    BY <1>a, <1>c, <1>14, FlushAllDoes, Parts, IdleIs DEF Waiting, Deferred, Powered
<1>15. ASSUME FlipPend PROVE Waiting' /\ Deferred' /\ Powered'
    BY <1>a, <1>c, <1>15, FlipPendDoes, Parts, IdleIs DEF Waiting, Deferred, Powered
<1>16. ASSUME Restore PROVE Waiting' /\ Deferred' /\ Powered'
    BY <1>a, <1>c, <1>16, RestoreStepDoes, Parts, IdleIs DEF Waiting, Deferred, Powered
<1>17. ASSUME EncoderOn PROVE Waiting' /\ Deferred' /\ Powered'
    BY <1>a, <1>c, <1>17, EncoderOnDoes, Parts, IdleIs DEF Waiting, Deferred, Powered
<1>18. ASSUME CommitDone PROVE Waiting' /\ Deferred' /\ Powered'
    BY <1>a, <1>c, <1>18, CommitDoneDoes, Parts, IdleIs DEF Waiting, Deferred, Powered
<1>19. ASSUME IrqEnter PROVE Waiting' /\ Deferred' /\ Powered'
    BY <1>a, <1>c, <1>19, IrqEnterDoes, Parts, IdleIs DEF Waiting, Deferred, Powered
<1>20. ASSUME IrqTake PROVE Waiting' /\ Deferred' /\ Powered'
    BY <1>a, <1>c, <1>20, IrqTakeDoes, Parts, IdleIs DEF Waiting, Deferred, Powered
<1>21. ASSUME Worker PROVE Waiting' /\ Deferred' /\ Powered'
    BY <1>a, <1>c, <1>21, WorkerDoes, Parts, IdleIs DEF Waiting, Deferred, Powered
<1>22. ASSUME Vsync PROVE Waiting' /\ Deferred' /\ Powered'
    BY <1>a, <1>c, <1>22, VsyncDoes, Parts, IdleIs DEF Waiting, Deferred, Powered
<1>23. ASSUME PowerLoss PROVE Waiting' /\ Deferred' /\ Powered'
    BY <1>a, <1>c, <1>23, PowerLossDoes, Parts, IdleIs DEF Waiting, Deferred, Powered
<1>24. ASSUME UNCHANGED vars PROVE Waiting' /\ Deferred' /\ Powered'
    BY <1>a, <1>24 DEF vars, Waiting, Deferred, Powered
<1> QED BY <1>1, <1>2, <1>3, <1>4, <1>5, <1>6, <1>7, <1>8, <1>9, <1>10, <1>11, <1>12, <1>13, <1>14, <1>15, <1>16, <1>17, <1>18, <1>19, <1>20, <1>21, <1>22, <1>23, <1>24 DEF Next, Ioctl, Tail

LEMMA NextAsked == ASSUME AskedInv, env.waits, [Next]_vars PROVE Asked' /\ Together'
<1>a. PinsInv /\ Waiting /\ Deferred /\ Powered /\ Asked /\ Together
    BY DEF AskedInv, OrderInv
<1>b. ~cs.two \/ ioctl.pc = "idle"
    BY <1>a DEF PinsInv, CallShape
<1>c. Types /\ CallShape
    BY <1>a DEF PinsInv
<1>1. ASSUME NEW b \in Buffers, NEW width \in Sizes, SetBegin(b, width) PROVE Asked' /\ Together'
    BY <1>a, <1>c, <1>1, SetBeginDoes, Parts, IdleIs DEF Waiting, Deferred, Powered, CallShape, Asked, Together
<1>2. ASSUME OffBegin PROVE Asked' /\ Together'
    BY <1>a, <1>c, <1>2, OffBeginDoes, Parts, IdleIs DEF Waiting, Deferred, Powered, CallShape, Asked, Together
<1>3. ASSUME NEW x \in env.moves, MoveBegin(x) PROVE Asked' /\ Together'
    BY <1>a, <1>c, <1>3, MoveBeginDoes, Parts, IdleIs DEF Waiting, Deferred, Powered, CallShape, Asked, Together
<1>4. ASSUME SetWrite PROVE Asked' /\ Together'
    BY <1>a, <1>c, <1>4, SetWriteDoes, Parts, IdleIs DEF Waiting, Deferred, Powered, CallShape, Asked, Together
<1>5. ASSUME SetCtl PROVE Asked' /\ Together'
    BY <1>a, <1>b, <1>c, <1>5, SetCtlDoes, Parts, IdleIs DEF Waiting, Deferred, Powered, CallShape, Asked, Together, SetCtl
<1>6. ASSUME Flush PROVE Asked' /\ Together'
    BY <1>a, <1>c, <1>6, FlushDoes, Parts, IdleIs DEF Waiting, Deferred, Powered, CallShape, Asked, Together
<1>7. ASSUME Queue PROVE Asked' /\ Together'
    BY <1>a, <1>c, <1>7, QueueDoes, Parts, IdleIs DEF Waiting, Deferred, Powered, CallShape, Asked, Together
<1>8. ASSUME SetPend PROVE Asked' /\ Together'
    BY <1>a, <1>c, <1>8, SetPendDoes, Parts, IdleIs DEF Waiting, Deferred, Powered, CallShape, Asked, Together
<1>9. ASSUME MoveWrite PROVE Asked' /\ Together'
    BY <1>a, <1>c, <1>9, MoveWriteDoes, Parts, IdleIs DEF Waiting, Deferred, Powered, CallShape, Asked, Together
<1>10. ASSUME NEW enable \in BOOLEAN, NEW modeset \in BOOLEAN, NEW two \in BOOLEAN,
             Swap(enable, modeset, two)
      PROVE Asked' /\ Together'
    BY <1>a, <1>c, <1>10, SwapDoes, Parts, IdleIs DEF Waiting, Deferred, Powered, CallShape, Asked, Together
<1>11. ASSUME EncoderOff PROVE Asked' /\ Together'
    BY <1>a, <1>c, <1>11, EncoderOffDoes, Parts, IdleIs DEF Waiting, Deferred, Powered, CallShape, Asked, Together
<1>12. ASSUME BlendReset PROVE Asked' /\ Together'
    BY <1>a, <1>c, <1>12, BlendResetDoes, Parts, IdleIs DEF Waiting, Deferred, Powered, CallShape, Asked, Together
<1>13. ASSUME BlendSetup PROVE Asked' /\ Together'
    BY <1>a, <1>c, <1>13, BlendSetupDoes, Parts, IdleIs DEF Waiting, Deferred, Powered, CallShape, Asked, Together
<1>14. ASSUME FlushAll PROVE Asked' /\ Together'
    BY <1>a, <1>c, <1>14, FlushAllDoes, Parts, IdleIs DEF Waiting, Deferred, Powered, CallShape, Asked, Together
<1>15. ASSUME FlipPend PROVE Asked' /\ Together'
    BY <1>a, <1>c, <1>15, FlipPendDoes, Parts, IdleIs DEF Waiting, Deferred, Powered, CallShape, Asked, Together
<1>16. ASSUME Restore PROVE Asked' /\ Together'
    BY <1>a, <1>c, <1>16, RestoreStepDoes, Parts, IdleIs DEF Waiting, Deferred, Powered, CallShape, Asked, Together
<1>17. ASSUME EncoderOn PROVE Asked' /\ Together'
    BY <1>a, <1>c, <1>17, EncoderOnDoes, Parts, IdleIs DEF Waiting, Deferred, Powered, CallShape, Asked, Together
<1>18. ASSUME CommitDone PROVE Asked' /\ Together'
    BY <1>a, <1>c, <1>18, CommitDoneDoes, Parts, IdleIs DEF Waiting, Deferred, Powered, CallShape, Asked, Together
<1>19. ASSUME IrqEnter PROVE Asked' /\ Together'
    BY <1>a, <1>c, <1>19, IrqEnterDoes, Parts, IdleIs DEF Waiting, Deferred, Powered, CallShape, Asked, Together
<1>20. ASSUME IrqTake PROVE Asked' /\ Together'
    BY <1>a, <1>c, <1>20, IrqTakeDoes, Parts, IdleIs DEF Waiting, Deferred, Powered, CallShape, Asked, Together
<1>21. ASSUME Worker PROVE Asked' /\ Together'
    BY <1>a, <1>c, <1>21, WorkerDoes, Parts, IdleIs DEF Waiting, Deferred, Powered, CallShape, Asked, Together
<1>22. ASSUME Vsync PROVE Asked' /\ Together'
    BY <1>a, <1>c, <1>22, VsyncDoes, Parts, IdleIs DEF Waiting, Deferred, Powered, CallShape, Asked, Together
<1>23. ASSUME PowerLoss PROVE Asked' /\ Together'
    BY <1>a, <1>c, <1>23, PowerLossDoes, Parts, IdleIs DEF Waiting, Deferred, Powered, CallShape, Asked, Together
<1>24. ASSUME UNCHANGED vars PROVE Asked' /\ Together'
    BY <1>a, <1>24 DEF vars, Asked, Together
<1> QED BY <1>1, <1>2, <1>3, <1>4, <1>5, <1>6, <1>7, <1>8, <1>9, <1>10, <1>11, <1>12, <1>13, <1>14, <1>15, <1>16, <1>17, <1>18, <1>19, <1>20, <1>21, <1>22, <1>23, <1>24 DEF Next, Ioctl, Tail

LEMMA NextWritten == ASSUME WrittenInv, env.waits, [Next]_vars PROVE Written'
<1>a. PinsInv /\ Waiting /\ Deferred /\ Powered /\ Asked /\ Together /\ Written
    BY DEF WrittenInv, AskedInv, OrderInv
<1>b. ~cs.two \/ ioctl.pc = "idle"
    BY <1>a DEF PinsInv, CallShape
<1>c. Types /\ CallShape
    BY <1>a DEF PinsInv
<1>1. ASSUME NEW b \in Buffers, NEW width \in Sizes, SetBegin(b, width) PROVE Written'
    BY <1>a, <1>c, <1>1, SetBeginDoes, Parts, IdleIs DEF Waiting, Deferred, Powered, CallShape, Asked, RegsOf, NoRegs, Written
<1>2. ASSUME OffBegin PROVE Written'
    BY <1>a, <1>c, <1>2, OffBeginDoes, Parts, IdleIs DEF Waiting, Deferred, Powered, CallShape, Asked, RegsOf, NoRegs, Written
<1>3. ASSUME NEW x \in env.moves, MoveBegin(x) PROVE Written'
    BY <1>a, <1>c, <1>3, MoveBeginDoes, Parts, IdleIs DEF Waiting, Deferred, Powered, CallShape, Asked, RegsOf, NoRegs, Written
<1>4. ASSUME SetWrite PROVE Written'
    BY <1>a, <1>c, <1>4, SetWriteDoes, Parts, IdleIs DEF Waiting, Deferred, Powered, CallShape, Asked, RegsOf, NoRegs, Written
<1>5. ASSUME SetCtl PROVE Written'
    BY <1>a, <1>b, <1>c, <1>5, SetCtlDoes, Parts, IdleIs DEF Waiting, Deferred, Powered, CallShape, Asked, RegsOf, NoRegs, Written, SetCtl
<1>6. ASSUME Flush PROVE Written'
    BY <1>a, <1>c, <1>6, FlushDoes, Parts, IdleIs DEF Waiting, Deferred, Powered, CallShape, Asked, RegsOf, NoRegs, Written
<1>7. ASSUME Queue PROVE Written'
    BY <1>a, <1>c, <1>7, QueueDoes, Parts, IdleIs DEF Waiting, Deferred, Powered, CallShape, Asked, RegsOf, NoRegs, Written
<1>8. ASSUME SetPend PROVE Written'
    BY <1>a, <1>c, <1>8, SetPendDoes, Parts, IdleIs DEF Waiting, Deferred, Powered, CallShape, Asked, RegsOf, NoRegs, Written
<1>9. ASSUME MoveWrite PROVE Written'
    BY <1>a, <1>c, <1>9, MoveWriteDoes, Parts, IdleIs DEF Waiting, Deferred, Powered, CallShape, Asked, RegsOf, NoRegs, Written
<1>10. ASSUME NEW enable \in BOOLEAN, NEW modeset \in BOOLEAN, NEW two \in BOOLEAN,
             Swap(enable, modeset, two)
      PROVE Written'
    BY <1>a, <1>c, <1>10, SwapDoes, Parts, IdleIs DEF Waiting, Deferred, Powered, CallShape, Asked, RegsOf, NoRegs, Written
<1>11. ASSUME EncoderOff PROVE Written'
    BY <1>a, <1>c, <1>11, EncoderOffDoes, Parts, IdleIs DEF Waiting, Deferred, Powered, CallShape, Asked, RegsOf, NoRegs, Written
<1>12. ASSUME BlendReset PROVE Written'
    BY <1>a, <1>c, <1>12, BlendResetDoes, Parts, IdleIs DEF Waiting, Deferred, Powered, CallShape, Asked, RegsOf, NoRegs, Written
<1>13. ASSUME BlendSetup PROVE Written'
    BY <1>a, <1>c, <1>13, BlendSetupDoes, Parts, IdleIs DEF Waiting, Deferred, Powered, CallShape, Asked, RegsOf, NoRegs, Written
<1>14. ASSUME FlushAll PROVE Written'
    BY <1>a, <1>c, <1>14, FlushAllDoes, Parts, IdleIs DEF Waiting, Deferred, Powered, CallShape, Asked, RegsOf, NoRegs, Written
<1>15. ASSUME FlipPend PROVE Written'
    BY <1>a, <1>c, <1>15, FlipPendDoes, Parts, IdleIs DEF Waiting, Deferred, Powered, CallShape, Asked, RegsOf, NoRegs, Written
<1>16. ASSUME Restore PROVE Written'
    BY <1>a, <1>c, <1>16, RestoreStepDoes, Parts, IdleIs DEF Waiting, Deferred, Powered, CallShape, Asked, RegsOf, NoRegs, Written
<1>17. ASSUME EncoderOn PROVE Written'
    BY <1>a, <1>c, <1>17, EncoderOnDoes, Parts, IdleIs DEF Waiting, Deferred, Powered, CallShape, Asked, RegsOf, NoRegs, Written
<1>18. ASSUME CommitDone PROVE Written'
    BY <1>a, <1>c, <1>18, CommitDoneDoes, Parts, IdleIs DEF Waiting, Deferred, Powered, CallShape, Asked, RegsOf, NoRegs, Written
<1>19. ASSUME IrqEnter PROVE Written'
    BY <1>a, <1>c, <1>19, IrqEnterDoes, Parts, IdleIs DEF Waiting, Deferred, Powered, CallShape, Asked, RegsOf, NoRegs, Written
<1>20. ASSUME IrqTake PROVE Written'
    BY <1>a, <1>c, <1>20, IrqTakeDoes, Parts, IdleIs DEF Waiting, Deferred, Powered, CallShape, Asked, RegsOf, NoRegs, Written
<1>21. ASSUME Worker PROVE Written'
    BY <1>a, <1>c, <1>21, WorkerDoes, Parts, IdleIs DEF Waiting, Deferred, Powered, CallShape, Asked, RegsOf, NoRegs, Written
<1>22. ASSUME Vsync PROVE Written'
    BY <1>a, <1>c, <1>22, VsyncDoes, Parts, IdleIs DEF Waiting, Deferred, Powered, CallShape, Asked, RegsOf, NoRegs, Written
<1>23. ASSUME PowerLoss PROVE Written'
    BY <1>a, <1>c, <1>23, PowerLossDoes, Parts, IdleIs DEF Waiting, Deferred, Powered, CallShape, Asked, RegsOf, NoRegs, Written
<1>24. ASSUME UNCHANGED vars PROVE Written'
    BY <1>a, <1>24 DEF vars, Written
<1> QED BY <1>1, <1>2, <1>3, <1>4, <1>5, <1>6, <1>7, <1>8, <1>9, <1>10, <1>11, <1>12, <1>13, <1>14, <1>15, <1>16, <1>17, <1>18, <1>19, <1>20, <1>21, <1>22, <1>23, <1>24 DEF Next, Ioctl, Tail

(* With prompt interrupts a vsync that is not handled yet left no flush.     *)
Prompt == irq.raised \/ irq.taking => hw.on /\ hw.flush = {}

(* A cursor that was turned off leaves the screen with the next vsync.       *)
Leaving ==
    hw.live.layers.cursor /\ ~ctl.cursor_on =>
        \/ "CTL" \in hw.flush
        \/ ioctl.pc = "flush" /\ ctl.trigger = {"CURSOR"} /\ hw.regs.base \in Buffers

(* The buffer on the screen is the present one, or the replaced one until a  *)
(* vsync takes its successor over: held by the call, then by the list.       *)
Pinned ==
    hw.live.layers.cursor =>
        /\ hw.live.regs.base \in Buffers
        /\ \/ hw.live.regs.base = crtc.scanout_bo
           \/ /\ hw.live.regs.base = ioctl.old
              /\ ioctl.pc \in {"ctl", "flush"} \/ "LM" \in hw.flush
           \/ work.queued[hw.live.regs.base] > 0 /\ "LM" \in hw.flush

PromptInv == WrittenInv /\ (env.waits /\ env.prompt => Prompt)

LeavingInv == PromptInv /\ (env.waits /\ env.prompt => Leaving)

KeptInv == LeavingInv /\ (env.waits /\ env.prompt => Pinned)

LEMMA NextPrompt == ASSUME PromptInv, env.waits, env.prompt, [Next]_vars PROVE Prompt'
<1>a. PinsInv /\ Waiting /\ Deferred /\ Powered /\ Asked /\ Together /\ Written /\ Prompt /\ env.prompt
    BY DEF PromptInv, WrittenInv, AskedInv, OrderInv
<1>b. ~cs.two \/ ioctl.pc = "idle"
    BY <1>a DEF PinsInv, CallShape
<1>c. Types /\ CallShape
    BY <1>a DEF PinsInv
<1>1. ASSUME NEW b \in Buffers, NEW width \in Sizes, SetBegin(b, width) PROVE Prompt'
    BY <1>a, <1>c, <1>1, SetBeginDoes, Parts, IdleIs DEF Waiting, Deferred, Powered, CallShape, Runs, Prompt
<1>2. ASSUME OffBegin PROVE Prompt'
    BY <1>a, <1>c, <1>2, OffBeginDoes, Parts, IdleIs DEF Waiting, Deferred, Powered, CallShape, Runs, Prompt
<1>3. ASSUME NEW x \in env.moves, MoveBegin(x) PROVE Prompt'
    BY <1>a, <1>c, <1>3, MoveBeginDoes, Parts, IdleIs DEF Waiting, Deferred, Powered, CallShape, Runs, Prompt
<1>4. ASSUME SetWrite PROVE Prompt'
    BY <1>a, <1>c, <1>4, SetWriteDoes, Parts, IdleIs DEF Waiting, Deferred, Powered, CallShape, Runs, Prompt
<1>5. ASSUME SetCtl PROVE Prompt'
    BY <1>a, <1>b, <1>c, <1>5, SetCtlDoes, Parts, IdleIs DEF Waiting, Deferred, Powered, CallShape, Runs, Prompt, SetCtl
<1>6. ASSUME Flush PROVE Prompt'
    BY <1>a, <1>c, <1>6, FlushDoes, Parts, IdleIs DEF Waiting, Deferred, Powered, CallShape, Runs, Prompt
<1>7. ASSUME Queue PROVE Prompt'
    BY <1>a, <1>c, <1>7, QueueDoes, Parts, IdleIs DEF Waiting, Deferred, Powered, CallShape, Runs, Prompt
<1>8. ASSUME SetPend PROVE Prompt'
    BY <1>a, <1>c, <1>8, SetPendDoes, Parts, IdleIs DEF Waiting, Deferred, Powered, CallShape, Runs, Prompt
<1>9. ASSUME MoveWrite PROVE Prompt'
    BY <1>a, <1>c, <1>9, MoveWriteDoes, Parts, IdleIs DEF Waiting, Deferred, Powered, CallShape, Runs, Prompt
<1>10. ASSUME NEW enable \in BOOLEAN, NEW modeset \in BOOLEAN, NEW two \in BOOLEAN,
             Swap(enable, modeset, two)
      PROVE Prompt'
    BY <1>a, <1>c, <1>10, SwapDoes, Parts, IdleIs DEF Waiting, Deferred, Powered, CallShape, Runs, Prompt
<1>11. ASSUME EncoderOff PROVE Prompt'
    BY <1>a, <1>c, <1>11, EncoderOffDoes, Parts, IdleIs DEF Waiting, Deferred, Powered, CallShape, Runs, Prompt
<1>12. ASSUME BlendReset PROVE Prompt'
    BY <1>a, <1>c, <1>12, BlendResetDoes, Parts, IdleIs DEF Waiting, Deferred, Powered, CallShape, Runs, Prompt
<1>13. ASSUME BlendSetup PROVE Prompt'
    BY <1>a, <1>c, <1>13, BlendSetupDoes, Parts, IdleIs DEF Waiting, Deferred, Powered, CallShape, Runs, Prompt
<1>14. ASSUME FlushAll PROVE Prompt'
    BY <1>a, <1>c, <1>14, FlushAllDoes, Parts, IdleIs DEF Waiting, Deferred, Powered, CallShape, Runs, Prompt
<1>15. ASSUME FlipPend PROVE Prompt'
    BY <1>a, <1>c, <1>15, FlipPendDoes, Parts, IdleIs DEF Waiting, Deferred, Powered, CallShape, Runs, Prompt
<1>16. ASSUME Restore PROVE Prompt'
    BY <1>a, <1>c, <1>16, RestoreStepDoes, Parts, IdleIs DEF Waiting, Deferred, Powered, CallShape, Runs, Prompt
<1>17. ASSUME EncoderOn PROVE Prompt'
    BY <1>a, <1>c, <1>17, EncoderOnDoes, Parts, IdleIs DEF Waiting, Deferred, Powered, CallShape, Runs, Prompt
<1>18. ASSUME CommitDone PROVE Prompt'
    BY <1>a, <1>c, <1>18, CommitDoneDoes, Parts, IdleIs DEF Waiting, Deferred, Powered, CallShape, Runs, Prompt
<1>19. ASSUME IrqEnter PROVE Prompt'
    BY <1>a, <1>c, <1>19, IrqEnterDoes, Parts, IdleIs DEF Waiting, Deferred, Powered, CallShape, Runs, Prompt
<1>20. ASSUME IrqTake PROVE Prompt'
    BY <1>a, <1>c, <1>20, IrqTakeDoes, Parts, IdleIs DEF Waiting, Deferred, Powered, CallShape, Runs, Prompt
<1>21. ASSUME Worker PROVE Prompt'
    BY <1>a, <1>c, <1>21, WorkerDoes, Parts, IdleIs DEF Waiting, Deferred, Powered, CallShape, Runs, Prompt
<1>22. ASSUME Vsync PROVE Prompt'
    BY <1>c, <1>22, VsyncDoes DEF Prompt
<1>23. ASSUME PowerLoss PROVE Prompt'
    BY <1>a, <1>c, <1>23, PowerLossDoes, Parts, IdleIs DEF Waiting, Deferred, Powered, CallShape, Runs, Prompt
<1>24. ASSUME UNCHANGED vars PROVE Prompt'
    BY <1>a, <1>24 DEF vars, Prompt
<1> QED BY <1>1, <1>2, <1>3, <1>4, <1>5, <1>6, <1>7, <1>8, <1>9, <1>10, <1>11, <1>12, <1>13, <1>14, <1>15, <1>16, <1>17, <1>18, <1>19, <1>20, <1>21, <1>22, <1>23, <1>24 DEF Next, Ioctl, Tail

LEMMA NextLeaving == ASSUME LeavingInv, env.waits, env.prompt, [Next]_vars PROVE Leaving'
<1>a. PinsInv /\ Waiting /\ Deferred /\ Powered /\ Asked /\ Together /\ Written
      /\ Prompt /\ env.prompt /\ Leaving
    BY DEF LeavingInv, PromptInv, WrittenInv, AskedInv, OrderInv
<1>b. ~cs.two \/ ioctl.pc = "idle"
    BY <1>a DEF PinsInv, CallShape
<1>c. Types /\ CallShape
    BY <1>a DEF PinsInv
<1>1. ASSUME NEW b \in Buffers, NEW width \in Sizes, SetBegin(b, width) PROVE Leaving'
    BY <1>a, <1>c, <1>1, SetBeginDoes, Parts, IdleIs DEF Waiting, Deferred, Powered, Asked, Written, Prompt, CallShape, Runs, Leaving
<1>2. ASSUME OffBegin PROVE Leaving'
    BY <1>a, <1>c, <1>2, OffBeginDoes, Parts, IdleIs DEF Waiting, Deferred, Powered, Asked, Written, Prompt, CallShape, Runs, Leaving
<1>3. ASSUME NEW x \in env.moves, MoveBegin(x) PROVE Leaving'
    BY <1>a, <1>c, <1>3, MoveBeginDoes, Parts, IdleIs DEF Waiting, Deferred, Powered, Asked, Written, Prompt, CallShape, Runs, Leaving
<1>4. ASSUME SetWrite PROVE Leaving'
    BY <1>a, <1>c, <1>4, SetWriteDoes, Parts, IdleIs DEF Waiting, Deferred, Powered, Asked, Written, Prompt, CallShape, Runs, Leaving
<1>5. ASSUME SetCtl PROVE Leaving'
    BY <1>a, <1>b, <1>c, <1>5, SetCtlDoes, Parts, IdleIs DEF Waiting, Deferred, Powered, Asked, Written, Prompt, CallShape, Runs, Leaving, SetCtl
<1>6. ASSUME Flush PROVE Leaving'
    BY <1>a, <1>c, <1>6, FlushDoes, Parts, IdleIs DEF Waiting, Deferred, Powered, Asked, Written, Prompt, CallShape, Runs, Leaving
<1>7. ASSUME Queue PROVE Leaving'
    BY <1>a, <1>c, <1>7, QueueDoes, Parts, IdleIs DEF Waiting, Deferred, Powered, Asked, Written, Prompt, CallShape, Runs, Leaving
<1>8. ASSUME SetPend PROVE Leaving'
    BY <1>a, <1>c, <1>8, SetPendDoes, Parts, IdleIs DEF Waiting, Deferred, Powered, Asked, Written, Prompt, CallShape, Runs, Leaving
<1>9. ASSUME MoveWrite PROVE Leaving'
    BY <1>a, <1>c, <1>9, MoveWriteDoes, Parts, IdleIs DEF Waiting, Deferred, Powered, Asked, Written, Prompt, CallShape, Runs, Leaving
<1>10. ASSUME NEW enable \in BOOLEAN, NEW modeset \in BOOLEAN, NEW two \in BOOLEAN,
             Swap(enable, modeset, two)
      PROVE Leaving'
    BY <1>a, <1>c, <1>10, SwapDoes, Parts, IdleIs DEF Waiting, Deferred, Powered, Asked, Written, Prompt, CallShape, Runs, Leaving
<1>11. ASSUME EncoderOff PROVE Leaving'
    BY <1>a, <1>c, <1>11, EncoderOffDoes, Parts, IdleIs DEF Waiting, Deferred, Powered, Asked, Written, Prompt, CallShape, Runs, Leaving
<1>12. ASSUME BlendReset PROVE Leaving'
    BY <1>a, <1>c, <1>12, BlendResetDoes, Parts, IdleIs DEF Waiting, Deferred, Powered, Asked, Written, Prompt, CallShape, Runs, Leaving
<1>13. ASSUME BlendSetup PROVE Leaving'
    BY <1>a, <1>c, <1>13, BlendSetupDoes, Parts, IdleIs DEF Waiting, Deferred, Powered, Asked, Written, Prompt, CallShape, Runs, Leaving
<1>14. ASSUME FlushAll PROVE Leaving'
    BY <1>a, <1>c, <1>14, FlushAllDoes, Parts, IdleIs DEF Waiting, Deferred, Powered, Asked, Written, Prompt, CallShape, Runs, Leaving
<1>15. ASSUME FlipPend PROVE Leaving'
    BY <1>a, <1>c, <1>15, FlipPendDoes, Parts, IdleIs DEF Waiting, Deferred, Powered, Asked, Written, Prompt, CallShape, Runs, Leaving
<1>16. ASSUME Restore PROVE Leaving'
    BY <1>a, <1>c, <1>16, RestoreStepDoes, Parts, IdleIs DEF Waiting, Deferred, Powered, Asked, Written, Prompt, CallShape, Runs, Leaving
<1>17. ASSUME EncoderOn PROVE Leaving'
    BY <1>a, <1>c, <1>17, EncoderOnDoes, Parts, IdleIs DEF Waiting, Deferred, Powered, Asked, Written, Prompt, CallShape, Runs, Leaving
<1>18. ASSUME CommitDone PROVE Leaving'
    BY <1>a, <1>c, <1>18, CommitDoneDoes, Parts, IdleIs DEF Waiting, Deferred, Powered, Asked, Written, Prompt, CallShape, Runs, Leaving
<1>19. ASSUME IrqEnter PROVE Leaving'
    BY <1>a, <1>c, <1>19, IrqEnterDoes, Parts, IdleIs DEF Waiting, Deferred, Powered, Asked, Written, Prompt, CallShape, Runs, Leaving
<1>20. ASSUME IrqTake PROVE Leaving'
    BY <1>a, <1>c, <1>20, IrqTakeDoes, Parts, IdleIs DEF Waiting, Deferred, Powered, Asked, Written, Prompt, CallShape, Runs, Leaving
<1>21. ASSUME Worker PROVE Leaving'
    BY <1>a, <1>c, <1>21, WorkerDoes, Parts, IdleIs DEF Waiting, Deferred, Powered, Asked, Written, Prompt, CallShape, Runs, Leaving
<1>22. ASSUME Vsync PROVE Leaving'
    BY <1>a, <1>c, <1>22, VsyncDoes, Parts, IdleIs DEF Waiting, Deferred, Powered, Asked, Written, Prompt, CallShape, Runs, Leaving
<1>23. ASSUME PowerLoss PROVE Leaving'
    BY <1>a, <1>c, <1>23, PowerLossDoes, Parts, IdleIs DEF Waiting, Deferred, Powered, Asked, Written, Prompt, CallShape, Runs, Leaving
<1>24. ASSUME UNCHANGED vars PROVE Leaving'
    BY <1>a, <1>24 DEF vars, Leaving
<1> QED BY <1>1, <1>2, <1>3, <1>4, <1>5, <1>6, <1>7, <1>8, <1>9, <1>10, <1>11, <1>12, <1>13, <1>14, <1>15, <1>16, <1>17, <1>18, <1>19, <1>20, <1>21, <1>22, <1>23, <1>24 DEF Next, Ioctl, Tail

LEMMA NextPinned == ASSUME KeptInv, env.waits, env.prompt, [Next]_vars PROVE Pinned'
<1>a. PinsInv /\ Waiting /\ Deferred /\ Powered /\ Asked /\ Together /\ Written
      /\ Prompt /\ env.prompt /\ Leaving /\ Pinned
    BY DEF KeptInv, LeavingInv, PromptInv, WrittenInv, AskedInv, OrderInv
<1>b. ~cs.two \/ ioctl.pc = "idle"
    BY <1>a DEF PinsInv, CallShape
<1>c. Types /\ CallShape
    BY <1>a DEF PinsInv
<1>1. ASSUME NEW b \in Buffers, NEW width \in Sizes, SetBegin(b, width) PROVE Pinned'
    BY <1>a, <1>c, <1>1, SetBeginDoes, Parts, IdleIs DEF Waiting, Deferred, Powered, Asked, Together, Written, Prompt, Leaving, CallShape, Runs, Pinned
<1>2. ASSUME OffBegin PROVE Pinned'
    BY <1>a, <1>c, <1>2, OffBeginDoes, Parts, IdleIs DEF Waiting, Deferred, Powered, Asked, Together, Written, Prompt, Leaving, CallShape, Runs, Pinned
<1>3. ASSUME NEW x \in env.moves, MoveBegin(x) PROVE Pinned'
    BY <1>a, <1>c, <1>3, MoveBeginDoes, Parts, IdleIs DEF Waiting, Deferred, Powered, Asked, Together, Written, Prompt, Leaving, CallShape, Runs, Pinned
<1>4. ASSUME SetWrite PROVE Pinned'
    BY <1>a, <1>c, <1>4, SetWriteDoes, Parts, IdleIs DEF Waiting, Deferred, Powered, Asked, Together, Written, Prompt, Leaving, CallShape, Runs, Pinned
<1>5. ASSUME SetCtl PROVE Pinned'
    BY <1>a, <1>b, <1>c, <1>5, SetCtlDoes, Parts, IdleIs DEF Waiting, Deferred, Powered, Asked, Together, Written, Prompt, Leaving, CallShape, Runs, Pinned, SetCtl
<1>6. ASSUME Flush PROVE Pinned'
    BY <1>a, <1>c, <1>6, FlushDoes, Parts, IdleIs DEF Waiting, Deferred, Powered, Asked, Together, Written, Prompt, Leaving, CallShape, Runs, Pinned
<1>7. ASSUME Queue PROVE Pinned'
    <2>1. /\ ioctl.pc = "queue" /\ UNCHANGED <<crtc, hw>>
          /\ work'.queued = Plus(work.queued, One(ioctl.old))
        BY <1>c, <1>7, QueueDoes
    <2> DEFINE b == hw.live.regs.base
    <2>2. ASSUME b \in Buffers
          PROVE  /\ work'.queued[b] = work.queued[b] + (IF b = ioctl.old THEN 1 ELSE 0)
                 /\ work.queued[b] \in Nat
        <3>1. ioctl.old \in Names /\ work.queued \in Counts
            BY <1>c DEF Types, Calls, Works
        <3>2. One(ioctl.old) \in Counts /\ One(ioctl.old)[b] = IF b = ioctl.old THEN 1 ELSE 0
            BY <2>2, <3>1, Additions
        <3>3. Plus(work.queued, One(ioctl.old))[b] = work.queued[b] + One(ioctl.old)[b]
            BY <2>2, <3>1, <3>2, Additions
        <3>4. work.queued[b] \in Nat
            BY <2>2, <3>1 DEF Counts
        <3> QED BY <2>1, <3>2, <3>3, <3>4
    <2>3. CASE hw.live.layers.cursor
        <3>1. b \in Buffers
            BY <1>a, <2>3 DEF Pinned
        <3>2. \/ b = crtc.scanout_bo
              \/ b = ioctl.old /\ "LM" \in hw.flush
              \/ work.queued[b] > 0 /\ "LM" \in hw.flush
            BY <1>a, <2>1, <2>3 DEF Pinned
        <3>3. b = crtc.scanout_bo \/ (work'.queued[b] > 0 /\ "LM" \in hw.flush)
            BY <2>2, <3>1, <3>2
        <3> QED BY <2>1, <3>1, <3>3 DEF Pinned
    <2>4. CASE ~hw.live.layers.cursor
        BY <2>1, <2>4 DEF Pinned
    <2> QED BY <2>3, <2>4
<1>8. ASSUME SetPend PROVE Pinned'
    BY <1>a, <1>c, <1>8, SetPendDoes, Parts, IdleIs DEF Waiting, Deferred, Powered, Asked, Together, Written, Prompt, Leaving, CallShape, Runs, Pinned
<1>9. ASSUME MoveWrite PROVE Pinned'
    BY <1>a, <1>c, <1>9, MoveWriteDoes, Parts, IdleIs DEF Waiting, Deferred, Powered, Asked, Together, Written, Prompt, Leaving, CallShape, Runs, Pinned
<1>10. ASSUME NEW enable \in BOOLEAN, NEW modeset \in BOOLEAN, NEW two \in BOOLEAN,
             Swap(enable, modeset, two)
      PROVE Pinned'
    BY <1>a, <1>c, <1>10, SwapDoes, Parts, IdleIs DEF Waiting, Deferred, Powered, Asked, Together, Written, Prompt, Leaving, CallShape, Runs, Pinned
<1>11. ASSUME EncoderOff PROVE Pinned'
    BY <1>a, <1>c, <1>11, EncoderOffDoes, Parts, IdleIs DEF Waiting, Deferred, Powered, Asked, Together, Written, Prompt, Leaving, CallShape, Runs, Pinned
<1>12. ASSUME BlendReset PROVE Pinned'
    BY <1>a, <1>c, <1>12, BlendResetDoes, Parts, IdleIs DEF Waiting, Deferred, Powered, Asked, Together, Written, Prompt, Leaving, CallShape, Runs, Pinned
<1>13. ASSUME BlendSetup PROVE Pinned'
    BY <1>a, <1>c, <1>13, BlendSetupDoes, Parts, IdleIs DEF Waiting, Deferred, Powered, Asked, Together, Written, Prompt, Leaving, CallShape, Runs, Pinned
<1>14. ASSUME FlushAll PROVE Pinned'
    BY <1>a, <1>c, <1>14, FlushAllDoes, Parts, IdleIs DEF Waiting, Deferred, Powered, Asked, Together, Written, Prompt, Leaving, CallShape, Runs, Pinned
<1>15. ASSUME FlipPend PROVE Pinned'
    BY <1>a, <1>c, <1>15, FlipPendDoes, Parts, IdleIs DEF Waiting, Deferred, Powered, Asked, Together, Written, Prompt, Leaving, CallShape, Runs, Pinned
<1>16. ASSUME Restore PROVE Pinned'
    BY <1>a, <1>c, <1>16, RestoreStepDoes, Parts, IdleIs DEF Waiting, Deferred, Powered, Asked, Together, Written, Prompt, Leaving, CallShape, Runs, Pinned
<1>17. ASSUME EncoderOn PROVE Pinned'
    BY <1>a, <1>c, <1>17, EncoderOnDoes, Parts, IdleIs DEF Waiting, Deferred, Powered, Asked, Together, Written, Prompt, Leaving, CallShape, Runs, Pinned
<1>18. ASSUME CommitDone PROVE Pinned'
    BY <1>a, <1>c, <1>18, CommitDoneDoes, Parts, IdleIs DEF Waiting, Deferred, Powered, Asked, Together, Written, Prompt, Leaving, CallShape, Runs, Pinned
<1>19. ASSUME IrqEnter PROVE Pinned'
    BY <1>a, <1>c, <1>19, IrqEnterDoes, Parts, IdleIs DEF Waiting, Deferred, Powered, Asked, Together, Written, Prompt, Leaving, CallShape, Runs, Pinned
<1>20. ASSUME IrqTake PROVE Pinned'
    BY <1>a, <1>c, <1>20, IrqTakeDoes, Parts, IdleIs DEF Waiting, Deferred, Powered, Asked, Together, Written, Prompt, Leaving, CallShape, Runs, Pinned
<1>21. ASSUME Worker PROVE Pinned'
    BY <1>a, <1>c, <1>21, WorkerDoes, Parts, IdleIs DEF Waiting, Deferred, Powered, Asked, Together, Written, Prompt, Leaving, CallShape, Runs, Pinned
<1>22. ASSUME Vsync PROVE Pinned'
    BY <1>a, <1>c, <1>22, VsyncDoes, Parts, IdleIs DEF Waiting, Deferred, Powered, Asked, Together, Written, Prompt, Leaving, CallShape, Runs, Pinned
<1>23. ASSUME PowerLoss PROVE Pinned'
    BY <1>a, <1>c, <1>23, PowerLossDoes, Parts, IdleIs DEF Waiting, Deferred, Powered, Asked, Together, Written, Prompt, Leaving, CallShape, Runs, Pinned
<1>24. ASSUME UNCHANGED vars PROVE Pinned'
    BY <1>a, <1>24 DEF vars, Pinned
<1> QED BY <1>1, <1>2, <1>3, <1>4, <1>5, <1>6, <1>7, <1>8, <1>9, <1>10, <1>11, <1>12, <1>13, <1>14, <1>15, <1>16, <1>17, <1>18, <1>19, <1>20, <1>21, <1>22, <1>23, <1>24 DEF Next, Ioctl, Tail

LEMMA EnvStays == [Next]_vars => env' = env
BY DEF Next, vars, Ioctl, Tail, SetBegin, OffBegin, MoveBegin, SetWrite, SetCtl, Flush, Queue,
       SetPend, MoveWrite, Swap, EncoderOff, BlendReset, BlendSetup, FlushAll, FlipPend,
       Restore, EncoderOn, CommitDone, IrqEnter, IrqTake, Worker, Vsync, PowerLoss

LEMMA InitKept == Init => KeptInv
<1> SUFFICES ASSUME Init PROVE KeptInv
    OBVIOUS
<1>1. PinsInv
    BY InitPins
<1>2. /\ ioctl.pc = "idle" /\ tail.pc = "idle" /\ ~cs.defer_start /\ ~cs.enable
      /\ ~ctl.cursor_on /\ ctl.flush_mask = {} /\ crtc.iova = NoBuffer
      /\ ~irq.raised /\ ~irq.taking
    BY IdleIs DEF Init
<1>3. ~hw.on /\ hw.flush = {} /\ ~hw.layers.cursor /\ ~hw.live.layers.cursor
      /\ hw.regs.base = NoBuffer
    BY DEF Init, PoweredUp, Dark, NoRegs
<1> QED BY <1>1, <1>2, <1>3 DEF KeptInv, LeavingInv, PromptInv, WrittenInv, AskedInv, OrderInv,
           Waiting, Deferred, Powered, Asked, Together, Written, Prompt, Leaving, Pinned

LEMMA NextKept == KeptInv /\ [Next]_vars => KeptInv'
<1> SUFFICES ASSUME KeptInv, [Next]_vars PROVE KeptInv'
    OBVIOUS
<1> USE DEF KeptInv, LeavingInv, PromptInv, WrittenInv, AskedInv, OrderInv
<1>1. env' = env
    BY EnvStays
<1>2. PinsInv'
    BY NextPins
<1>3. env.waits => Waiting' /\ Deferred' /\ Powered'
    BY NextOrder
<1>4. env.waits => Asked' /\ Together'
    BY NextAsked
<1>5. env.waits => Written'
    BY NextWritten
<1>6. env.waits /\ env.prompt => Prompt'
    BY NextPrompt
<1>7. env.waits /\ env.prompt => Leaving'
    BY NextLeaving
<1>8. env.waits /\ env.prompt => Pinned'
    BY NextPinned
<1> QED BY <1>1, <1>2, <1>3, <1>4, <1>5, <1>6, <1>7, <1>8

LEMMA KeptIsKept == KeptInv => CursorKept
<1> SUFFICES ASSUME KeptInv, env.waits, env.prompt, hw.on, hw.live.layers.cursor
             PROVE  hw.live.regs.base \in Buffers /\ pins[hw.live.regs.base] > 0
    BY DEF CursorKept
<1> DEFINE b == hw.live.regs.base
<1>1. PinsInv /\ Pinned
    BY DEF KeptInv, LeavingInv, PromptInv, WrittenInv, AskedInv, OrderInv
<1>2. /\ b \in Buffers
      /\ b = crtc.scanout_bo \/ b = ioctl.old \/ work.queued[b] > 0
    BY <1>1 DEF Pinned
<1>3. /\ pins[b] = One(crtc.scanout_bo)[b] + One(ioctl.bo)[b] + One(ioctl.old)[b]
                   + work.queued[b] + work.committed[b]
      /\ work.queued[b] \in Nat /\ work.committed[b] \in Nat
    BY <1>1, <1>2 DEF PinsInv, PinsBalanced, Types, Works, Counts
<1>4. crtc.scanout_bo \in Names /\ ioctl.bo \in Names /\ ioctl.old \in Names
    BY <1>1 DEF PinsInv, Types, Crtc, Calls
<1>5. \A n \in Names : One(n)[b] = IF b = n THEN 1 ELSE 0
    BY <1>2, Additions
<1> QED BY <1>2, <1>3, <1>4, <1>5

(* A cursor on the screen is read from a pinned buffer: the worker is handed *)
(* a replaced one after the vsync that took the new one over, if user space  *)
(* waits for its commits and interrupts are prompt (mdp5_crtc_vblank_irq).   *)
THEOREM CursorStaysPinned == Spec => []CursorKept
BY InitKept, NextKept, KeptIsKept, PTL DEF Spec

\* ---------------------------------------------------------------- what the screen shows

(* From the blending on the layers written are those asked for.              *)
Blended ==
    (tail.pc = "idle" /\ cs.enable) \/ tail.pc \in {"flush", "pend", "restore", "start", "wait"} =>
        (hw.layers.planes <=> cs.enable) /\ (hw.layers.cursor <=> ctl.cursor_on)

(* They are on the screen, flushed, or about to be.                          *)
Flushed ==
    /\ tail.pc \in {"idle", "pend", "wait"} /\ hw.on =>
           \/ "CTL" \in hw.flush
           \/ hw.live.layers = hw.layers
           \/ ioctl.pc = "flush" /\ "CURSOR" \in ctl.trigger
    /\ tail.pc = "flush" => "LM" \in ctl.trigger
    /\ tail.pc \in {"pend", "restore", "start"} /\ tail.modeset /\ cs.enable =>
           {"LM", "CTL"} \subseteq ctl.flush_mask

(* The same of the mixer's cursor registers.                                 *)
Placed ==
    /\ (hw.on \/ tail.pc = "start") /\ crtc.iova # NoBuffer /\ ioctl.pc \notin {"write", "move"} =>
           hw.regs = RegsOf(crtc)
    /\ hw.on => "LM" \in hw.flush \/ hw.live.regs = hw.regs \/ ioctl.pc \in {"ctl", "flush"}

BlendedInv == AskedInv /\ (env.waits => Blended)

FlushedInv == BlendedInv /\ (env.waits => Flushed)

ShownInv == FlushedInv /\ (env.waits => Placed)

LEMMA SameRegs ==
    ASSUME crtc'.iova = crtc.iova, crtc'.width = crtc.width, crtc'.x = crtc.x
    PROVE  RegsOf(crtc') = RegsOf(crtc)
BY DEF RegsOf

LEMMA NextBlended == ASSUME BlendedInv, env.waits, [Next]_vars PROVE Blended'
<1>a. PinsInv /\ Waiting /\ Deferred /\ Powered /\ Asked /\ Together /\ Blended
    BY DEF BlendedInv, AskedInv, OrderInv
<1>b. ~cs.two \/ ioctl.pc = "idle"
    BY <1>a DEF PinsInv, CallShape
<1>c. Types /\ CallShape
    BY <1>a DEF PinsInv
<1>1. ASSUME NEW b \in Buffers, NEW width \in Sizes, SetBegin(b, width) PROVE Blended'
    BY <1>a, <1>c, <1>1, SetBeginDoes, Parts, IdleIs DEF Waiting, Deferred, Powered, Asked, Together, CallShape, Blended
<1>2. ASSUME OffBegin PROVE Blended'
    BY <1>a, <1>c, <1>2, OffBeginDoes, Parts, IdleIs DEF Waiting, Deferred, Powered, Asked, Together, CallShape, Blended
<1>3. ASSUME NEW x \in env.moves, MoveBegin(x) PROVE Blended'
    BY <1>a, <1>c, <1>3, MoveBeginDoes, Parts, IdleIs DEF Waiting, Deferred, Powered, Asked, Together, CallShape, Blended
<1>4. ASSUME SetWrite PROVE Blended'
    BY <1>a, <1>c, <1>4, SetWriteDoes, Parts, IdleIs DEF Waiting, Deferred, Powered, Asked, Together, CallShape, Blended
<1>5. ASSUME SetCtl PROVE Blended'
    BY <1>a, <1>b, <1>c, <1>5, SetCtlDoes, Parts, IdleIs DEF Waiting, Deferred, Powered, Asked, Together, CallShape, Blended, SetCtl
<1>6. ASSUME Flush PROVE Blended'
    BY <1>a, <1>c, <1>6, FlushDoes, Parts, IdleIs DEF Waiting, Deferred, Powered, Asked, Together, CallShape, Blended
<1>7. ASSUME Queue PROVE Blended'
    BY <1>a, <1>c, <1>7, QueueDoes, Parts, IdleIs DEF Waiting, Deferred, Powered, Asked, Together, CallShape, Blended
<1>8. ASSUME SetPend PROVE Blended'
    BY <1>a, <1>c, <1>8, SetPendDoes, Parts, IdleIs DEF Waiting, Deferred, Powered, Asked, Together, CallShape, Blended
<1>9. ASSUME MoveWrite PROVE Blended'
    BY <1>a, <1>c, <1>9, MoveWriteDoes, Parts, IdleIs DEF Waiting, Deferred, Powered, Asked, Together, CallShape, Blended
<1>10. ASSUME NEW enable \in BOOLEAN, NEW modeset \in BOOLEAN, NEW two \in BOOLEAN,
             Swap(enable, modeset, two)
      PROVE Blended'
    BY <1>a, <1>c, <1>10, SwapDoes, Parts, IdleIs DEF Waiting, Deferred, Powered, Asked, Together, CallShape, Blended
<1>11. ASSUME EncoderOff PROVE Blended'
    BY <1>a, <1>c, <1>11, EncoderOffDoes, Parts, IdleIs DEF Waiting, Deferred, Powered, Asked, Together, CallShape, Blended
<1>12. ASSUME BlendReset PROVE Blended'
    BY <1>a, <1>c, <1>12, BlendResetDoes, Parts, IdleIs DEF Waiting, Deferred, Powered, Asked, Together, CallShape, Blended
<1>13. ASSUME BlendSetup PROVE Blended'
    BY <1>a, <1>c, <1>13, BlendSetupDoes, Parts, IdleIs DEF Waiting, Deferred, Powered, Asked, Together, CallShape, Blended
<1>14. ASSUME FlushAll PROVE Blended'
    BY <1>a, <1>c, <1>14, FlushAllDoes, Parts, IdleIs DEF Waiting, Deferred, Powered, Asked, Together, CallShape, Blended
<1>15. ASSUME FlipPend PROVE Blended'
    BY <1>a, <1>c, <1>15, FlipPendDoes, Parts, IdleIs DEF Waiting, Deferred, Powered, Asked, Together, CallShape, Blended
<1>16. ASSUME Restore PROVE Blended'
    BY <1>a, <1>c, <1>16, RestoreStepDoes, Parts, IdleIs DEF Waiting, Deferred, Powered, Asked, Together, CallShape, Blended
<1>17. ASSUME EncoderOn PROVE Blended'
    BY <1>a, <1>c, <1>17, EncoderOnDoes, Parts, IdleIs DEF Waiting, Deferred, Powered, Asked, Together, CallShape, Blended
<1>18. ASSUME CommitDone PROVE Blended'
    BY <1>a, <1>c, <1>18, CommitDoneDoes, Parts, IdleIs DEF Waiting, Deferred, Powered, Asked, Together, CallShape, Blended
<1>19. ASSUME IrqEnter PROVE Blended'
    BY <1>a, <1>c, <1>19, IrqEnterDoes, Parts, IdleIs DEF Waiting, Deferred, Powered, Asked, Together, CallShape, Blended
<1>20. ASSUME IrqTake PROVE Blended'
    BY <1>a, <1>c, <1>20, IrqTakeDoes, Parts, IdleIs DEF Waiting, Deferred, Powered, Asked, Together, CallShape, Blended
<1>21. ASSUME Worker PROVE Blended'
    BY <1>a, <1>c, <1>21, WorkerDoes, Parts, IdleIs DEF Waiting, Deferred, Powered, Asked, Together, CallShape, Blended
<1>22. ASSUME Vsync PROVE Blended'
    BY <1>a, <1>c, <1>22, VsyncDoes, Parts, IdleIs DEF Waiting, Deferred, Powered, Asked, Together, CallShape, Blended
<1>23. ASSUME PowerLoss PROVE Blended'
    BY <1>a, <1>c, <1>23, PowerLossDoes, Parts, IdleIs DEF Waiting, Deferred, Powered, Asked, Together, CallShape, Blended
<1>24. ASSUME UNCHANGED vars PROVE Blended'
    BY <1>a, <1>24 DEF vars, Blended
<1> QED BY <1>1, <1>2, <1>3, <1>4, <1>5, <1>6, <1>7, <1>8, <1>9, <1>10, <1>11, <1>12, <1>13, <1>14, <1>15, <1>16, <1>17, <1>18, <1>19, <1>20, <1>21, <1>22, <1>23, <1>24 DEF Next, Ioctl, Tail

LEMMA NextFlushed == ASSUME FlushedInv, env.waits, [Next]_vars PROVE Flushed'
<1>a. PinsInv /\ Waiting /\ Deferred /\ Powered /\ Asked /\ Together /\ Flushed
    BY DEF FlushedInv, BlendedInv, AskedInv, OrderInv
<1>b. ~cs.two \/ ioctl.pc = "idle"
    BY <1>a DEF PinsInv, CallShape
<1>c. Types /\ CallShape
    BY <1>a DEF PinsInv
<1>1. ASSUME NEW b \in Buffers, NEW width \in Sizes, SetBegin(b, width) PROVE Flushed'
    BY <1>a, <1>c, <1>1, SetBeginDoes, Parts, IdleIs DEF Waiting, Deferred, Powered, Asked, Together, CallShape, Flushed
<1>2. ASSUME OffBegin PROVE Flushed'
    BY <1>a, <1>c, <1>2, OffBeginDoes, Parts, IdleIs DEF Waiting, Deferred, Powered, Asked, Together, CallShape, Flushed
<1>3. ASSUME NEW x \in env.moves, MoveBegin(x) PROVE Flushed'
    BY <1>a, <1>c, <1>3, MoveBeginDoes, Parts, IdleIs DEF Waiting, Deferred, Powered, Asked, Together, CallShape, Flushed
<1>4. ASSUME SetWrite PROVE Flushed'
    BY <1>a, <1>c, <1>4, SetWriteDoes, Parts, IdleIs DEF Waiting, Deferred, Powered, Asked, Together, CallShape, Flushed
<1>5. ASSUME SetCtl PROVE Flushed'
    BY <1>a, <1>b, <1>c, <1>5, SetCtlDoes, Parts, IdleIs DEF Waiting, Deferred, Powered, Asked, Together, CallShape, Flushed, SetCtl
<1>6. ASSUME Flush PROVE Flushed'
    BY <1>a, <1>c, <1>6, FlushDoes, Parts, IdleIs DEF Waiting, Deferred, Powered, Asked, Together, CallShape, Flushed
<1>7. ASSUME Queue PROVE Flushed'
    BY <1>a, <1>c, <1>7, QueueDoes, Parts, IdleIs DEF Waiting, Deferred, Powered, Asked, Together, CallShape, Flushed
<1>8. ASSUME SetPend PROVE Flushed'
    BY <1>a, <1>c, <1>8, SetPendDoes, Parts, IdleIs DEF Waiting, Deferred, Powered, Asked, Together, CallShape, Flushed
<1>9. ASSUME MoveWrite PROVE Flushed'
    BY <1>a, <1>c, <1>9, MoveWriteDoes, Parts, IdleIs DEF Waiting, Deferred, Powered, Asked, Together, CallShape, Flushed
<1>10. ASSUME NEW enable \in BOOLEAN, NEW modeset \in BOOLEAN, NEW two \in BOOLEAN,
             Swap(enable, modeset, two)
      PROVE Flushed'
    BY <1>a, <1>c, <1>10, SwapDoes, Parts, IdleIs DEF Waiting, Deferred, Powered, Asked, Together, CallShape, Flushed
<1>11. ASSUME EncoderOff PROVE Flushed'
    BY <1>a, <1>c, <1>11, EncoderOffDoes, Parts, IdleIs DEF Waiting, Deferred, Powered, Asked, Together, CallShape, Flushed
<1>12. ASSUME BlendReset PROVE Flushed'
    BY <1>a, <1>c, <1>12, BlendResetDoes, Parts, IdleIs DEF Waiting, Deferred, Powered, Asked, Together, CallShape, Flushed
<1>13. ASSUME BlendSetup PROVE Flushed'
    BY <1>a, <1>c, <1>13, BlendSetupDoes, Parts, IdleIs DEF Waiting, Deferred, Powered, Asked, Together, CallShape, Flushed
<1>14. ASSUME FlushAll PROVE Flushed'
    BY <1>a, <1>c, <1>14, FlushAllDoes, Parts, IdleIs DEF Waiting, Deferred, Powered, Asked, Together, CallShape, Flushed
<1>15. ASSUME FlipPend PROVE Flushed'
    BY <1>a, <1>c, <1>15, FlipPendDoes, Parts, IdleIs DEF Waiting, Deferred, Powered, Asked, Together, CallShape, Flushed
<1>16. ASSUME Restore PROVE Flushed'
    BY <1>a, <1>c, <1>16, RestoreStepDoes, Parts, IdleIs DEF Waiting, Deferred, Powered, Asked, Together, CallShape, Flushed
<1>17. ASSUME EncoderOn PROVE Flushed'
    BY <1>a, <1>c, <1>17, EncoderOnDoes, Parts, IdleIs DEF Waiting, Deferred, Powered, Asked, Together, CallShape, Flushed
<1>18. ASSUME CommitDone PROVE Flushed'
    BY <1>a, <1>c, <1>18, CommitDoneDoes, Parts, IdleIs DEF Waiting, Deferred, Powered, Asked, Together, CallShape, Flushed
<1>19. ASSUME IrqEnter PROVE Flushed'
    BY <1>a, <1>c, <1>19, IrqEnterDoes, Parts, IdleIs DEF Waiting, Deferred, Powered, Asked, Together, CallShape, Flushed
<1>20. ASSUME IrqTake PROVE Flushed'
    BY <1>a, <1>c, <1>20, IrqTakeDoes, Parts, IdleIs DEF Waiting, Deferred, Powered, Asked, Together, CallShape, Flushed
<1>21. ASSUME Worker PROVE Flushed'
    BY <1>a, <1>c, <1>21, WorkerDoes, Parts, IdleIs DEF Waiting, Deferred, Powered, Asked, Together, CallShape, Flushed
<1>22. ASSUME Vsync PROVE Flushed'
    BY <1>a, <1>c, <1>22, VsyncDoes, Parts, IdleIs DEF Waiting, Deferred, Powered, Asked, Together, CallShape, Flushed
<1>23. ASSUME PowerLoss PROVE Flushed'
    BY <1>a, <1>c, <1>23, PowerLossDoes, Parts, IdleIs DEF Waiting, Deferred, Powered, Asked, Together, CallShape, Flushed
<1>24. ASSUME UNCHANGED vars PROVE Flushed'
    BY <1>a, <1>24 DEF vars, Flushed
<1> QED BY <1>1, <1>2, <1>3, <1>4, <1>5, <1>6, <1>7, <1>8, <1>9, <1>10, <1>11, <1>12, <1>13, <1>14, <1>15, <1>16, <1>17, <1>18, <1>19, <1>20, <1>21, <1>22, <1>23, <1>24 DEF Next, Ioctl, Tail

LEMMA NextPlaced == ASSUME ShownInv, env.waits, [Next]_vars PROVE Placed'
<1>a. PinsInv /\ Waiting /\ Deferred /\ Powered /\ Asked /\ Together /\ Flushed /\ Placed
    BY DEF ShownInv, FlushedInv, BlendedInv, AskedInv, OrderInv
<1>b. ~cs.two \/ ioctl.pc = "idle"
    BY <1>a DEF PinsInv, CallShape
<1>c. Types /\ CallShape
    BY <1>a DEF PinsInv
<1>1. ASSUME NEW b \in Buffers, NEW width \in Sizes, SetBegin(b, width) PROVE Placed'
    BY <1>a, <1>c, <1>1, SetBeginDoes, Parts, IdleIs, SameRegs DEF Waiting, Deferred, Powered, Asked, Together, CallShape, Flushed, Placed
<1>2. ASSUME OffBegin PROVE Placed'
    BY <1>a, <1>c, <1>2, OffBeginDoes, Parts, IdleIs, SameRegs DEF Waiting, Deferred, Powered, Asked, Together, CallShape, Flushed, Placed
<1>3. ASSUME NEW x \in env.moves, MoveBegin(x) PROVE Placed'
    BY <1>a, <1>c, <1>3, MoveBeginDoes, Parts, IdleIs, SameRegs DEF Waiting, Deferred, Powered, Asked, Together, CallShape, Flushed, Placed
<1>4. ASSUME SetWrite PROVE Placed'
    BY <1>a, <1>c, <1>4, SetWriteDoes, Parts, IdleIs, SameRegs DEF Waiting, Deferred, Powered, Asked, Together, CallShape, Flushed, Placed
<1>5. ASSUME SetCtl PROVE Placed'
    BY <1>a, <1>b, <1>c, <1>5, SetCtlDoes, Parts, IdleIs, SameRegs DEF Waiting, Deferred, Powered, Asked, Together, CallShape, Flushed, Placed, SetCtl
<1>6. ASSUME Flush PROVE Placed'
    BY <1>a, <1>c, <1>6, FlushDoes, Parts, IdleIs, SameRegs DEF Waiting, Deferred, Powered, Asked, Together, CallShape, Flushed, Placed
<1>7. ASSUME Queue PROVE Placed'
    BY <1>a, <1>c, <1>7, QueueDoes, Parts, IdleIs, SameRegs DEF Waiting, Deferred, Powered, Asked, Together, CallShape, Flushed, Placed
<1>8. ASSUME SetPend PROVE Placed'
    BY <1>a, <1>c, <1>8, SetPendDoes, Parts, IdleIs, SameRegs DEF Waiting, Deferred, Powered, Asked, Together, CallShape, Flushed, Placed
<1>9. ASSUME MoveWrite PROVE Placed'
    BY <1>a, <1>c, <1>9, MoveWriteDoes, Parts, IdleIs, SameRegs DEF Waiting, Deferred, Powered, Asked, Together, CallShape, Flushed, Placed
<1>10. ASSUME NEW enable \in BOOLEAN, NEW modeset \in BOOLEAN, NEW two \in BOOLEAN,
             Swap(enable, modeset, two)
      PROVE Placed'
    BY <1>a, <1>c, <1>10, SwapDoes, Parts, IdleIs, SameRegs DEF Waiting, Deferred, Powered, Asked, Together, CallShape, Flushed, Placed
<1>11. ASSUME EncoderOff PROVE Placed'
    BY <1>a, <1>c, <1>11, EncoderOffDoes, Parts, IdleIs, SameRegs DEF Waiting, Deferred, Powered, Asked, Together, CallShape, Flushed, Placed
<1>12. ASSUME BlendReset PROVE Placed'
    BY <1>a, <1>c, <1>12, BlendResetDoes, Parts, IdleIs, SameRegs DEF Waiting, Deferred, Powered, Asked, Together, CallShape, Flushed, Placed
<1>13. ASSUME BlendSetup PROVE Placed'
    BY <1>a, <1>c, <1>13, BlendSetupDoes, Parts, IdleIs, SameRegs DEF Waiting, Deferred, Powered, Asked, Together, CallShape, Flushed, Placed
<1>14. ASSUME FlushAll PROVE Placed'
    BY <1>a, <1>c, <1>14, FlushAllDoes, Parts, IdleIs, SameRegs DEF Waiting, Deferred, Powered, Asked, Together, CallShape, Flushed, Placed
<1>15. ASSUME FlipPend PROVE Placed'
    BY <1>a, <1>c, <1>15, FlipPendDoes, Parts, IdleIs, SameRegs DEF Waiting, Deferred, Powered, Asked, Together, CallShape, Flushed, Placed
<1>16. ASSUME Restore PROVE Placed'
    BY <1>a, <1>c, <1>16, RestoreStepDoes, Parts, IdleIs, SameRegs DEF Waiting, Deferred, Powered, Asked, Together, CallShape, Flushed, Placed
<1>17. ASSUME EncoderOn PROVE Placed'
    BY <1>a, <1>c, <1>17, EncoderOnDoes, Parts, IdleIs, SameRegs DEF Waiting, Deferred, Powered, Asked, Together, CallShape, Flushed, Placed
<1>18. ASSUME CommitDone PROVE Placed'
    BY <1>a, <1>c, <1>18, CommitDoneDoes, Parts, IdleIs, SameRegs DEF Waiting, Deferred, Powered, Asked, Together, CallShape, Flushed, Placed
<1>19. ASSUME IrqEnter PROVE Placed'
    BY <1>a, <1>c, <1>19, IrqEnterDoes, Parts, IdleIs, SameRegs DEF Waiting, Deferred, Powered, Asked, Together, CallShape, Flushed, Placed
<1>20. ASSUME IrqTake PROVE Placed'
    BY <1>a, <1>c, <1>20, IrqTakeDoes, Parts, IdleIs, SameRegs DEF Waiting, Deferred, Powered, Asked, Together, CallShape, Flushed, Placed
<1>21. ASSUME Worker PROVE Placed'
    BY <1>a, <1>c, <1>21, WorkerDoes, Parts, IdleIs, SameRegs DEF Waiting, Deferred, Powered, Asked, Together, CallShape, Flushed, Placed
<1>22. ASSUME Vsync PROVE Placed'
    BY <1>a, <1>c, <1>22, VsyncDoes, Parts, IdleIs, SameRegs DEF Waiting, Deferred, Powered, Asked, Together, CallShape, Flushed, Placed
<1>23. ASSUME PowerLoss PROVE Placed'
    BY <1>a, <1>c, <1>23, PowerLossDoes, Parts, IdleIs, SameRegs DEF Waiting, Deferred, Powered, Asked, Together, CallShape, Flushed, Placed
<1>24. ASSUME UNCHANGED vars PROVE Placed'
    BY <1>a, <1>24 DEF vars, Placed
<1> QED BY <1>1, <1>2, <1>3, <1>4, <1>5, <1>6, <1>7, <1>8, <1>9, <1>10, <1>11, <1>12, <1>13, <1>14, <1>15, <1>16, <1>17, <1>18, <1>19, <1>20, <1>21, <1>22, <1>23, <1>24 DEF Next, Ioctl, Tail

LEMMA InitShown == Init => ShownInv
<1> SUFFICES ASSUME Init PROVE ShownInv
    OBVIOUS
<1>1. AskedInv
    BY InitKept DEF KeptInv, LeavingInv, PromptInv, WrittenInv
<1>2. tail.pc = "idle" /\ ~cs.enable
    BY DEF Init
<1>3. ~hw.on
    BY DEF Init, PoweredUp
<1> QED BY <1>1, <1>2, <1>3 DEF ShownInv, FlushedInv, BlendedInv, Blended, Flushed, Placed

LEMMA NextShown == ShownInv /\ [Next]_vars => ShownInv'
<1> SUFFICES ASSUME ShownInv, [Next]_vars PROVE ShownInv'
    OBVIOUS
<1> USE DEF ShownInv, FlushedInv, BlendedInv, AskedInv, OrderInv
<1>1. env' = env
    BY EnvStays
<1>2. PinsInv'
    BY NextPins
<1>3. env.waits => Waiting' /\ Deferred' /\ Powered'
    BY NextOrder
<1>4. env.waits => Asked' /\ Together'
    BY NextAsked
<1>5. env.waits => Blended'
    BY NextBlended
<1>6. env.waits => Flushed'
    BY NextFlushed
<1>7. env.waits => Placed'
    BY NextPlaced
<1> QED BY <1>1, <1>2, <1>3, <1>4, <1>5, <1>6, <1>7

LEMMA ShownIsShown == ShownInv => CursorShown
<1> SUFFICES ASSUME ShownInv, env.waits, tail.pc = "idle", ioctl = Idle, cs.enable,
                    hw.flush = {}
             PROVE  /\ hw.on
                    /\ hw.live.layers = [planes |-> TRUE, cursor |-> crtc.iova # NoBuffer]
                    /\ crtc.iova # NoBuffer =>
                           hw.live.regs = restore_cursor(hw, crtc).regs
    BY DEF CursorShown, Resting
<1>1. Types /\ Powered /\ Asked /\ Blended /\ Flushed /\ Placed
    BY DEF ShownInv, FlushedInv, BlendedInv, AskedInv, OrderInv, PinsInv
<1>2. hw.on /\ ioctl.pc = "idle"
    BY <1>1, IdleIs DEF Powered
<1>3. hw.live.layers = hw.layers
    BY <1>1, <1>2 DEF Flushed
<1>4. hw.layers.planes /\ (hw.layers.cursor <=> crtc.iova # NoBuffer)
    BY <1>1, <1>2 DEF Blended, Asked
<1>5. hw.layers = [planes |-> TRUE, cursor |-> crtc.iova # NoBuffer]
    <2> DEFINE l == hw.layers  v == crtc.iova # NoBuffer
    <2>1. l \in Layers /\ v \in BOOLEAN /\ l.planes /\ (l.cursor <=> v)
        BY <1>1, <1>4 DEF Types, HwStates
    <2> HIDE DEF l, v
    <2>2. l = [planes |-> TRUE, cursor |-> v]
        BY <2>1 DEF Layers
    <2> QED BY <2>2 DEF l, v
<1>6. hw \in HwStates /\ crtc \in Crtc
    BY <1>1 DEF Types
<1>7. crtc.iova # NoBuffer => hw.live.regs = restore_cursor(hw, crtc).regs
    BY <1>1, <1>2, <1>6, RestoreDoes DEF Placed
<1> QED BY <1>2, <1>3, <1>5, <1>7

\* ---------------------------------------------------------------- the columns read

(* The columns read end with the image.                                      *)
Within(r) == r.src + r.roi <= r.width

(* The cursor hangs over the left edge by no more than its width.            *)
OverEdge == crtc.x >= -crtc.width

Sized == ioctl.pc = "write" => ioctl.width \in Sizes

InImage == Within(hw.regs) /\ Within(hw.live.regs)

RoiInv == PinsInv /\ OverEdge /\ Sized /\ InImage

(* All images have one size.  The code does not see to it: a smaller image   *)
(* set after a move is read beyond its end.                                  *)
OneSize == \A a, b \in Sizes : a = b

LEMMA RoiIs ==
    ASSUME NEW x \in Int, NEW w \in 0..XRes, x >= -w
    PROVE  /\ x < 0 => get_roi(x, w) = w + x
           /\ x \in 0..XRes => get_roi(x, w) = IF w <= XRes - x THEN w ELSE XRes - x
           /\ x > XRes => get_roi(x, w) = w
<1>1. XRes \in Nat /\ XRes <= 65535
    BY CursorAssumption
<1>2. CASE x < 0
    <2>1. get_roi(x, w) = (w + x) % 65536
        BY <1>1, <1>2 DEF get_roi
    <2>2. w \in Nat /\ w <= XRes /\ w + x >= 0
        BY <1>1, <1>2
    <2> DEFINE y == w + x
    <2>3. y \in Nat /\ y < 65536
        BY <1>1, <1>2, <2>2
    <2> HIDE DEF y
    <2>4. y % 65536 = y
        BY <2>3
    <2> QED BY <1>2, <2>1, <2>4, <1>1 DEF y
<1>3. CASE x \in 0..XRes
    BY <1>1, <1>3 DEF get_roi
<1>4. CASE x > XRes
    BY <1>1, <1>4 DEF get_roi
<1> QED BY <1>1, <1>2, <1>3, <1>4

LEMMA RegsWithin ==
    ASSUME NEW c \in Crtc, c.x >= -c.width
    PROVE  Within(RegsOf(c))
<1> DEFINE x == c.x  w == c.width  roi == get_roi(x, w)  src == IF x < 0 THEN -x ELSE 0
<1>1. x \in Int /\ w \in 0..XRes /\ XRes \in Nat /\ x >= -w
    BY SizesInt DEF Crtc
<1>2. RegsOf(c).width = w /\ RegsOf(c).roi = roi /\ RegsOf(c).src = src
    BY DEF RegsOf
<1> HIDE DEF x, w
<1>3. /\ x < 0 => roi = w + x
      /\ x \in 0..XRes => roi = IF w <= XRes - x THEN w ELSE XRes - x
      /\ x > XRes => roi = w
    BY <1>1, RoiIs
<1> HIDE DEF roi
<1>4. src + roi <= w
    BY <1>1, <1>3
<1> QED BY <1>2, <1>4 DEF Within

LEMMA InitRoi == Init => RoiInv
<1> SUFFICES ASSUME Init PROVE RoiInv
    OBVIOUS
<1>1. crtc.x = 0 /\ crtc.width = 0 /\ ioctl.pc = "idle"
    BY IdleIs DEF Init
<1>2. hw.regs = NoRegs /\ hw.live.regs = NoRegs
    BY DEF Init, PoweredUp
<1>3. Within(NoRegs)
    BY DEF Within, NoRegs
<1> QED BY <1>1, <1>2, <1>3, InitPins DEF RoiInv, OverEdge, Sized, InImage

LEMMA NextRoi == ASSUME RoiInv, OneSize, [Next]_vars PROVE OverEdge' /\ Sized' /\ InImage'
<1>a. PinsInv /\ OverEdge /\ Sized /\ InImage
    BY DEF RoiInv
<1>b. ~cs.two \/ ioctl.pc = "idle"
    BY <1>a DEF PinsInv, CallShape
<1>c. Types /\ CallShape
    BY <1>a DEF PinsInv
<1>d. \A a, b \in Sizes : a = b
    BY DEF OneSize
<1>1. ASSUME NEW b \in Buffers, NEW width \in Sizes, SetBegin(b, width) PROVE OverEdge' /\ Sized' /\ InImage'
    BY <1>a, <1>c, <1>1, SetBeginDoes, Parts, IdleIs DEF OverEdge, Sized, InImage
<1>2. ASSUME OffBegin PROVE OverEdge' /\ Sized' /\ InImage'
    BY <1>a, <1>c, <1>2, OffBeginDoes, Parts, IdleIs DEF OverEdge, Sized, InImage
<1>3. ASSUME NEW x \in env.moves, MoveBegin(x) PROVE OverEdge' /\ Sized' /\ InImage'
    BY <1>a, <1>c, <1>3, MoveBeginDoes, Parts, IdleIs DEF OverEdge, Sized, InImage
<1>4. ASSUME SetWrite PROVE OverEdge' /\ Sized' /\ InImage'
    <2>1. /\ ioctl.width \in Sizes /\ crtc'.width = ioctl.width /\ crtc'.x = crtc.x
          /\ crtc.x >= -crtc.width
        BY <1>a, <1>c, <1>4, SetWriteDoes DEF OverEdge, Sized
    <2>2. /\ crtc.width \in Sizes \union {0} /\ crtc.x \in Int /\ crtc' \in Crtc
        BY <1>c, <1>4, SetWriteDoes DEF Types, Crtc
    <2>3. crtc.width <= ioctl.width
        BY <1>d, <2>1, <2>2, SizesInt
    <2>4. crtc'.x >= -crtc'.width
        BY <2>1, <2>2, <2>3, SizesInt
    <2>5. Within(RegsOf(crtc'))
        <3> DEFINE c == crtc'
        <3>1. c \in Crtc /\ c.x >= -c.width
            BY <2>2, <2>4
        <3> HIDE DEF c
        <3>2. Within(RegsOf(c))
            BY <3>1, RegsWithin
        <3> QED BY <3>2 DEF c
    <2> QED BY <1>a, <1>c, <1>4, <2>4, <2>5, SetWriteDoes DEF OverEdge, Sized, InImage
<1>5. ASSUME SetCtl PROVE OverEdge' /\ Sized' /\ InImage'
    BY <1>a, <1>b, <1>c, <1>5, SetCtlDoes, Parts, IdleIs DEF OverEdge, Sized, InImage, SetCtl
<1>6. ASSUME Flush PROVE OverEdge' /\ Sized' /\ InImage'
    BY <1>a, <1>c, <1>6, FlushDoes, Parts, IdleIs DEF OverEdge, Sized, InImage
<1>7. ASSUME Queue PROVE OverEdge' /\ Sized' /\ InImage'
    BY <1>a, <1>c, <1>7, QueueDoes, Parts, IdleIs DEF OverEdge, Sized, InImage
<1>8. ASSUME SetPend PROVE OverEdge' /\ Sized' /\ InImage'
    BY <1>a, <1>c, <1>8, SetPendDoes, Parts, IdleIs DEF OverEdge, Sized, InImage
<1>9. ASSUME MoveWrite PROVE OverEdge' /\ Sized' /\ InImage'
    <2>1. Within(RegsOf(crtc))
        BY <1>a, <1>c, RegsWithin DEF Types, OverEdge
    <2> QED BY <1>a, <1>c, <1>9, <2>1, MoveWriteDoes DEF OverEdge, Sized, InImage
<1>10. ASSUME NEW enable \in BOOLEAN, NEW modeset \in BOOLEAN, NEW two \in BOOLEAN,
             Swap(enable, modeset, two)
      PROVE OverEdge' /\ Sized' /\ InImage'
    BY <1>a, <1>c, <1>10, SwapDoes, Parts, IdleIs DEF OverEdge, Sized, InImage
<1>11. ASSUME EncoderOff PROVE OverEdge' /\ Sized' /\ InImage'
    BY <1>a, <1>c, <1>11, EncoderOffDoes, Parts, IdleIs DEF OverEdge, Sized, InImage
<1>12. ASSUME BlendReset PROVE OverEdge' /\ Sized' /\ InImage'
    BY <1>a, <1>c, <1>12, BlendResetDoes, Parts, IdleIs DEF OverEdge, Sized, InImage
<1>13. ASSUME BlendSetup PROVE OverEdge' /\ Sized' /\ InImage'
    BY <1>a, <1>c, <1>13, BlendSetupDoes, Parts, IdleIs DEF OverEdge, Sized, InImage
<1>14. ASSUME FlushAll PROVE OverEdge' /\ Sized' /\ InImage'
    BY <1>a, <1>c, <1>14, FlushAllDoes, Parts, IdleIs DEF OverEdge, Sized, InImage
<1>15. ASSUME FlipPend PROVE OverEdge' /\ Sized' /\ InImage'
    BY <1>a, <1>c, <1>15, FlipPendDoes, Parts, IdleIs DEF OverEdge, Sized, InImage
<1>16. ASSUME Restore PROVE OverEdge' /\ Sized' /\ InImage'
    <2>1. Within(RegsOf(crtc))
        BY <1>a, <1>c, RegsWithin DEF Types, OverEdge
    <2> QED BY <1>a, <1>c, <1>16, <2>1, RestoreStepDoes DEF OverEdge, Sized, InImage
<1>17. ASSUME EncoderOn PROVE OverEdge' /\ Sized' /\ InImage'
    BY <1>a, <1>c, <1>17, EncoderOnDoes, Parts, IdleIs DEF OverEdge, Sized, InImage
<1>18. ASSUME CommitDone PROVE OverEdge' /\ Sized' /\ InImage'
    BY <1>a, <1>c, <1>18, CommitDoneDoes, Parts, IdleIs DEF OverEdge, Sized, InImage
<1>19. ASSUME IrqEnter PROVE OverEdge' /\ Sized' /\ InImage'
    BY <1>a, <1>c, <1>19, IrqEnterDoes, Parts, IdleIs DEF OverEdge, Sized, InImage
<1>20. ASSUME IrqTake PROVE OverEdge' /\ Sized' /\ InImage'
    BY <1>a, <1>c, <1>20, IrqTakeDoes, Parts, IdleIs DEF OverEdge, Sized, InImage
<1>21. ASSUME Worker PROVE OverEdge' /\ Sized' /\ InImage'
    BY <1>a, <1>c, <1>21, WorkerDoes, Parts, IdleIs DEF OverEdge, Sized, InImage
<1>22. ASSUME Vsync PROVE OverEdge' /\ Sized' /\ InImage'
    BY <1>a, <1>c, <1>22, VsyncDoes, Parts, IdleIs DEF OverEdge, Sized, InImage
<1>23. ASSUME PowerLoss PROVE OverEdge' /\ Sized' /\ InImage'
    <2>1. Within(NoRegs)
        BY DEF Within, NoRegs
    <2> QED BY <1>a, <1>c, <1>23, <2>1, PowerLossDoes DEF OverEdge, Sized, InImage
<1>24. ASSUME UNCHANGED vars PROVE OverEdge' /\ Sized' /\ InImage'
    BY <1>a, <1>24 DEF vars, OverEdge, Sized, InImage
<1> QED BY <1>1, <1>2, <1>3, <1>4, <1>5, <1>6, <1>7, <1>8, <1>9, <1>10, <1>11, <1>12, <1>13, <1>14, <1>15, <1>16, <1>17, <1>18, <1>19, <1>20, <1>21, <1>22, <1>23, <1>24 DEF Next, Ioctl, Tail

LEMMA RoiIsInBuffer == RoiInv => RoiInBuffer
BY DEF RoiInv, InImage, Within, RoiInBuffer

(* What the mixer draws with the registers restore_cursor() writes.          *)
LEMMA DrawnWhere ==
    ASSUME NEW c \in Crtc, c.x >= -c.width, c.x < 65536, NEW s \in 0..(XRes - 1)
    PROVE  Drawn(RegsOf(c), s) = IF s - c.x \in 0..(c.width - 1) THEN s - c.x ELSE -1
<1> DEFINE x == c.x  w == c.width  roi == get_roi(x, w)
           src == IF x < 0 THEN -x ELSE 0
           start == IF x < 0 THEN 0 ELSE x % 65536
<1>1. x \in Int /\ w \in 0..XRes /\ XRes \in Nat /\ x >= -w /\ x < 65536
    BY SizesInt DEF Crtc
<1>2. /\ RegsOf(c).roi = roi /\ RegsOf(c).src = src /\ RegsOf(c).start = start
    BY DEF RegsOf
<1>3. Drawn(RegsOf(c), s) = IF s \in start..(start + roi - 1) THEN src + (s - start) ELSE -1
    BY <1>2 DEF Drawn
<1> HIDE DEF x, w
<1>4. /\ x < 0 => roi = w + x
      /\ x \in 0..XRes => roi = IF w <= XRes - x THEN w ELSE XRes - x
      /\ x > XRes => roi = w
    BY <1>1, RoiIs
<1>5. start = IF x < 0 THEN 0 ELSE x
    BY <1>1
<1>6. src = IF x < 0 THEN -x ELSE 0
    OBVIOUS
<1> HIDE DEF roi, src, start
<1>7. (IF s \in start..(start + roi - 1) THEN src + (s - start) ELSE -1)
          = IF s - x \in 0..(w - 1) THEN s - x ELSE -1
    <2>1. CASE x < 0
        BY <1>1, <1>4, <1>5, <1>6, <2>1
    <2>2. CASE x \in 0..XRes
        BY <1>1, <1>4, <1>5, <1>6, <2>2
    <2>3. CASE x > XRes
        BY <1>1, <1>4, <1>5, <1>6, <2>3
    <2> QED BY <1>1, <2>1, <2>2, <2>3
<1> QED BY <1>3, <1>7 DEF x, w

LEMMA RoiIsPlaced == RoiInv /\ CursorShown => CursorPlaced
<1> SUFFICES ASSUME RoiInv, CursorShown, env.waits, Resting, crtc.iova # NoBuffer,
                    crtc.x < 65536, NEW s \in 0..(XRes - 1)
             PROVE  Drawn(hw.live.regs, s) =
                        IF s - crtc.x \in 0..(crtc.width - 1) THEN s - crtc.x ELSE -1
    BY DEF CursorPlaced
<1>1. hw \in HwStates /\ crtc \in Crtc /\ crtc.x >= -crtc.width
    BY DEF RoiInv, PinsInv, Types, OverEdge
<1>2. hw.live.regs = restore_cursor(hw, crtc).regs
    BY DEF CursorShown
<1>3. hw.live.regs = RegsOf(crtc)
    BY <1>1, <1>2, RestoreDoes
<1> QED BY <1>1, <1>3, DrawnWhere

(* At rest the screen has the cursor asked for last, and each of its columns *)
(* the column of the image that lies over it where the cursor was put, after *)
(* flips, modesets, losses of power and deferred flushes; the mixer reads    *)
(* within the image, as long as all images are of one size                   *)
(* (mdp5_crtc_restore_cursor, get_roi).                                      *)
THEOREM CursorPictureSound ==
    ASSUME OneSize
    PROVE  Spec => []PictureSound
<1>1. RoiInv /\ [Next]_vars => RoiInv'
    <2> SUFFICES ASSUME RoiInv, [Next]_vars PROVE RoiInv'
        OBVIOUS
    <2>1. PinsInv'
        BY NextPins DEF RoiInv
    <2> QED BY <2>1, NextRoi DEF RoiInv
<1>2. RoiInv /\ ShownInv => PictureSound
    BY RoiIsInBuffer, RoiIsPlaced, ShownIsShown, TypesAre DEF RoiInv, PinsInv, PictureSound
<1> QED BY <1>1, <1>2, InitRoi, InitShown, NextShown, PTL DEF Spec

(* The first half of it needs no such assumption.                            *)
THEOREM CursorStaysShown == Spec => []CursorShown
BY InitShown, NextShown, ShownIsShown, PTL DEF Spec
=============================================================================
