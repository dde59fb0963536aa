--------------------------- MODULE Mdp5Crtc_proofs ---------------------------
(***************************************************************************)
(* Proofs about Mdp5Crtc, for every bound, one half or two, with and       *)
(* without overlapping checks and lagging interrupts: the state keeps its  *)
(* type, no completion event is lost, and the CRTC implements the safety   *)
(* part of PageFlip. Of one half without overlapping checks or lagging     *)
(* interrupts: what is scanned out is one whole frame that stays mapped,   *)
(* and the event of a page flip is sent for a frame on the screen.         *)
(***************************************************************************)
EXTENDS Mdp5Crtc, TLAPS

(* Where the tail has not yet taken the event of its commit.               *)
Shut       == {"encoff", "encflush", "encwait", "vsync", "crtcoff"}
BeforeOff  == {"deps", "get0", "wait0"} \cup Shut
BeforeTake == BeforeOff \cup {"planes", "take"}

(* The events of the commits not answered: none, that of the last commit,  *)
(* or, while the tail waits for the commit before, those of the last two.  *)
Outstanding ==
  \/ sent = n /\ cs.event = 0 /\ crtc.event = 0
  \/ sent = n - 1 /\ cs.event = n /\ crtc.event = 0
  \/ sent = n - 1 /\ cs.event = 0 /\ crtc.event = n
  \/ sent = n - 2 /\ cs.event = n /\ crtc.event = n - 1 /\ tail.pc = "deps"

(* Until it is taken the event of a commit is nowhere but in its state.    *)
Untaken ==
  /\ cs.event # 0 => tail.pc \in BeforeTake
  /\ tail.pc \in BeforeTake /\ crtc.event = n => n = 0

(* The event of a commit that turned the CRTC off is sent on the way.      *)
OffAnswered ==
  ~cs.active => sent = n \/ (tail.pc \in BeforeOff /\ tail.modeset /\ tail.was_active)

Room == chk.on => n < MaxCommits

IInv == TypeOK /\ Room /\ Outstanding /\ Untaken /\ OffAnswered

-------------------------------------------------------------------------------
(* Types.                                                                  *)

LEMMA FlushTypes ==
  ASSUME NEW c \in CtlState, NEW mask \in SUBSET Bits, NEW start \in BOOLEAN
  PROVE  /\ FlushBits(c, mask) \in SUBSET FlushHwMask
         /\ Flushed(c, mask, start) \in SUBSET FlushHwMask
         /\ mdp5_ctl_commit(c, mask, start) \in CtlState
         /\ mdp5_ctl_blend(c) \in CtlState
  BY DEF CtlState, FlushBits, Flushed, mdp5_ctl_commit, mdp5_ctl_blend, TriggerLeft, Bits, Blocks

LEMMA ListenTypes ==
  ASSUME NEW i \in IrqState, NEW h \in HwState
  PROVE  UpdateIrq(i) \in IrqState /\ SetIrqmask(h, i) \in HwState
  BY DEF UpdateIrq, SetIrqmask, IrqState, HwState, Want

(* A flush leaves registers and CTLs of their types.                       *)
LEMMA WriteTypes ==
  ASSUME ctl \in [Halves -> CtlState], NEW h \in HwState, NEW s,
         NEW mask \in SUBSET Bits, NEW start \in BOOLEAN
  PROVE  /\ Write(h, s, mask, start) \in HwState
         /\ CtlCommit(s, mask, start) => ctl' \in [Halves -> CtlState]
<1>1. \A x \in Halves : /\ Flushed(ctl[x], mask, start) \in SUBSET FlushHwMask
                        /\ mdp5_ctl_commit(ctl[x], mask, start) \in CtlState
  BY FlushTypes
<1>2. h.flush \in [Halves -> SUBSET FlushHwMask]
  BY DEF HwState
<1>3. [x \in Halves |-> IF x \in s THEN h.flush[x] \cup Flushed(ctl[x], mask, start)
                                  ELSE h.flush[x]] \in [Halves -> SUBSET FlushHwMask]
  BY <1>1, <1>2
<1>4. Write(h, s, mask, start) \in HwState
  BY <1>3 DEF Write, HwState
<1>5. CtlCommit(s, mask, start) => ctl' \in [Halves -> CtlState]
  BY <1>1 DEF CtlCommit
<1> QED BY <1>4, <1>5

LEMMA BlendTypes ==
  ASSUME ctl \in [Halves -> CtlState]
  PROVE  [s \in Halves |-> mdp5_ctl_blend(ctl[s])] \in [Halves -> CtlState]
<1>1. \A s \in Halves : mdp5_ctl_blend(ctl[s]) \in CtlState
  <2> SUFFICES ASSUME NEW s \in Halves PROVE mdp5_ctl_blend(ctl[s]) \in CtlState
    OBVIOUS
  <2>1. ctl[s] \in CtlState
    OBVIOUS
  <2> QED BY <2>1 DEF mdp5_ctl_blend, CtlState, Bits, Blocks
<1> QED BY <1>1

LEMMA LeftHalf == "L" \in Halves
  BY CrtcAssumption

LEMMA MaskTypes == /\ {"TIMING"} \in SUBSET Bits
                   /\ FlushMask \in SUBSET Bits
  BY DEF Bits, Blocks, FlushMask

LEMMA ProgramTypes ==
  ASSUME TypeOK, NEW bs, Program(bs)
  PROVE  hw' \in HwState
<1>1. [s \in Halves |-> [b \in Blocks |-> IF b \in bs THEN cs.fb ELSE hw.shadow[s][b]]]
        \in Registers
  <2>1. cs.fb \in Commits /\ hw.shadow \in Registers
    BY DEF TypeOK, CrtcState, HwState
  <2> QED BY <2>1 DEF Registers
<1> QED BY <1>1 DEF Program, TypeOK, HwState

LEMMA UnusedTypes ==
  ASSUME TypeOK, NEW h \in HwState
  PROVE  Unused(h) \in HwState
<1>1. [s \in Halves |-> [h.shadow[s] EXCEPT !["CTL"] = 0]] \in Registers
  <2>1. h.shadow \in Registers /\ 0 \in Commits
    BY CrtcAssumption DEF HwState, Commits
  <2> QED BY <2>1 DEF Registers
<1> QED BY <1>1 DEF Unused, HwState

LEMMA VsyncTypes ==
  ASSUME TypeOK, Vsync
  PROVE  hw' \in HwState
<1>1. hw \in HwState
  BY DEF TypeOK
<1>2. [s \in Halves |-> Latched(s)] \in Registers
  <2>1. hw.shadow \in Registers /\ hw.live \in Registers
    BY <1>1 DEF HwState
  <2> QED BY <2>1 DEF Registers, Latched
<1>3. [s \in Halves |-> {}] \in [Halves -> SUBSET FlushHwMask]
  OBVIOUS
<1> DEFINE l == [s \in Halves |-> Latched(s)]
           f == [s \in Halves |-> {}]
           h1 == [hw EXCEPT !.live = l]
           h2 == [h1 EXCEPT !.flush = f]
           h3 == [h2 EXCEPT !.intr_status = TRUE]
           h4 == [h3 EXCEPT !.engine = IF hw.timing_en THEN "on" ELSE "off"]
<1>4. hw' = h4
  BY DEF Vsync
<1>5. l \in Registers /\ f \in [Halves -> SUBSET FlushHwMask]
  BY <1>2, <1>3
<1> HIDE DEF l, f
<1>6. h1 \in HwState
  BY <1>1, <1>5 DEF HwState
<1> HIDE DEF h1
<1>7. h2 \in HwState
  BY <1>5, <1>6 DEF HwState
<1> HIDE DEF h2
<1>8. h3 \in HwState
  BY <1>7 DEF HwState
<1> HIDE DEF h3
<1>9. h4 \in HwState
  BY <1>8 DEF HwState
<1> QED BY <1>4, <1>9

LEMMA PoweredOnType == PoweredOn \in HwState
<1>1. Blank \in Registers
  BY CrtcAssumption DEF Blank, Registers, Commits
<1> QED BY <1>1 DEF PoweredOn, HwState

LEMMA InitType == Init => TypeOK /\ Room
<1> SUFFICES ASSUME Init PROVE TypeOK /\ Room
  OBVIOUS
<1>1. 0 \in Commits
  BY CrtcAssumption DEF Commits
<1>2. ctl \in [Halves -> CtlState]
  BY DEF Init, FreshCtl, CtlState
<1>3. hw \in HwState
  BY PoweredOnType DEF Init
<1>4. cs \in CrtcState /\ irq \in IrqState
  BY <1>1 DEF Init, CrtcState, IrqState
<1> QED BY <1>1, <1>2, <1>3, <1>4 DEF Init, TypeOK, Room, Pcs

LEMMA TypeStep == TypeOK /\ Room /\ [Next]_vars => TypeOK' /\ Room'
<1> SUFFICES ASSUME TypeOK, Room, [Next]_vars PROVE TypeOK' /\ Room'
  OBVIOUS
<1> USE CrtcAssumption DEF Room
<1>a. /\ n \in Commits /\ sent \in Commits /\ cs \in CrtcState
      /\ crtc.event \in Commits /\ ctl \in [Halves -> CtlState] /\ irq \in IrqState
      /\ hw \in HwState
  BY DEF TypeOK
<1>b. cs.fb \in Commits /\ cs.event \in Commits /\ cs.defer_start \in BOOLEAN
  BY <1>a DEF CrtcState
<1>0. CASE UNCHANGED vars
  BY <1>0 DEF vars, TypeOK
<1>1. ASSUME NEW enable \in BOOLEAN, NEW active \in BOOLEAN, NEW mode \in BOOLEAN,
             Check(enable, active, mode)
      PROVE  TypeOK' /\ Room'
  BY <1>1, <1>b DEF Check, TypeOK, CrtcState
<1>2. CASE Discard
  BY <1>2 DEF Discard, TypeOK
<1>3. CASE Swap
  <2>1. n + 1 \in Commits /\ 0 \in Commits
    BY <1>3, <1>a DEF Swap, Commits
  <2>2. cs' \in CrtcState
    BY <1>3, <2>1 DEF Swap, TypeOK, CrtcState
  <2>3. NeedsModeset(chk.enable, chk.active, chk.mode) \in BOOLEAN
    BY DEF NeedsModeset, TypeOK
  <2>4. sent' \in Commits /\ pinned' \subseteq Commits
    BY <1>3, <2>1, <1>a DEF Swap, TypeOK
  <2>5. tail' \in [pc : Pcs, modeset : BOOLEAN, was_active : BOOLEAN, start : BOOLEAN]
    BY <1>3, <2>3, <1>a DEF Swap, TypeOK, CrtcState, Pcs
  <2> QED BY <1>3, <2>1, <2>2, <2>4, <2>5 DEF Swap, TypeOK
<1>4. CASE Deps
  BY <1>4 DEF Deps, Goto, TypeOK, Pcs
<1>5. ASSUME NEW pc, NEW next \in Waits, VblankGet(pc, next)
      PROVE  TypeOK' /\ Room'
  <2>1. [irq EXCEPT !.mask = TRUE] \in IrqState
    BY <1>a DEF IrqState
  <2>2. irq' \in IrqState /\ hw' \in HwState
    BY <1>5, <2>1, <1>a, ListenTypes DEF VblankGet, Listen
  <2>3. AfterWait(pc) \in Pcs /\ next \in Pcs
    BY DEF AfterWait, AfterWait0, Pcs
  <2>4. tail' \in [pc : Pcs, modeset : BOOLEAN, was_active : BOOLEAN, start : BOOLEAN]
    BY <1>5, <2>3 DEF VblankGet, Goto, TypeOK
  <2> QED BY <1>5, <2>2, <2>4 DEF VblankGet, TypeOK
<1>6. ASSUME NEW pc \in Waits, WaitFlush(pc)
      PROVE  TypeOK' /\ Room'
  <2>1. AfterWait(pc) \in Pcs
    BY DEF AfterWait, AfterWait0, Pcs
  <2> QED BY <1>6, <2>1 DEF WaitFlush, Goto, TypeOK
<1>7. CASE EngineStop \/ EncoderDisable \/ IrqWait \/ WaitTimesOut
  <2>1. CASE EngineStop
    BY <1>a, <2>1 DEF EngineStop, Goto, TypeOK, Pcs, HwState
  <2>2. CASE EncoderDisable
    <3>1. hw' \in HwState /\ ctl' \in [Halves -> CtlState]
      BY <2>2, <1>a, MaskTypes, WriteTypes DEF EncoderDisable
    <3> QED BY <2>2, <3>1 DEF EncoderDisable, Goto, TypeOK, Pcs
  <2>3. CASE IrqWait \/ WaitTimesOut
    <3>1. [irq EXCEPT !.wait = TRUE] \in IrqState /\ [irq EXCEPT !.wait = FALSE] \in IrqState
      BY <1>a DEF IrqState
    <3>2. irq' \in IrqState /\ hw' \in HwState
      BY <2>3, <3>1, <1>a, ListenTypes DEF IrqWait, WaitTimesOut, Listen
    <3> QED BY <2>3, <3>2 DEF IrqWait, WaitTimesOut, Goto, TypeOK, Pcs
  <2> QED BY <1>7, <2>1, <2>2, <2>3
<1>8. CASE EncoderDisabled
  BY <1>8 DEF EncoderDisabled, Goto, TypeOK, Pcs
<1>9. CASE CrtcDisable
  <2>1. [irq EXCEPT !.mask = FALSE] \in IrqState
    BY <1>a DEF IrqState
  <2>2. irq' \in IrqState /\ hw' \in HwState
    BY <1>9, <2>1, <1>a, ListenTypes DEF CrtcDisable, Listen
  <2>3. cs' \in CrtcState /\ sent' \in Commits
    <3>1. 0 \in Commits
      BY DEF Commits
    <3> QED BY <1>9, <3>1, <1>a, <1>b DEF CrtcDisable, CrtcState
  <2> QED BY <1>9, <2>2, <2>3 DEF CrtcDisable, Goto, TypeOK, Pcs
<1>10. CASE Planes
  <2>1. hw' \in HwState
    BY <1>10, <1>a, ProgramTypes DEF Planes
  <2> QED BY <1>10, <2>1 DEF Planes, Goto, TypeOK, Pcs
<1>11. CASE TakeEvent
  <2>1. cs' \in CrtcState
    BY <1>11, <1>a DEF TakeEvent, CrtcState, Commits
  <2> QED BY <1>11, <2>1, <1>b DEF TakeEvent, Goto, TypeOK, Pcs
<1>12. CASE BlendSetup
  <2>1. hw' \in HwState
    BY <1>12, ProgramTypes DEF BlendSetup
  <2>2. ctl' \in [Halves -> CtlState]
    BY <1>12, <1>a, BlendTypes DEF BlendSetup
  <2> QED BY <1>12, <2>1, <2>2 DEF BlendSetup, Goto, TypeOK, Pcs
<1>13. CASE FlushLeft
  <2>1. (~cs.defer_start) \in BOOLEAN
    OBVIOUS
  <2>2. hw' \in HwState /\ ctl' \in [Halves -> CtlState]
    BY <1>13, <1>a, <2>1, MaskTypes, WriteTypes DEF FlushLeft
  <2>3. cs' \in CrtcState
    BY <1>13, <1>a DEF FlushLeft, CrtcState
  <2>4. FlushBits(ctl["L"], FlushMask) \in SUBSET FlushHwMask
    BY <1>a, LeftHalf, MaskTypes, FlushTypes
  <2>5. tail' \in [pc : Pcs, modeset : BOOLEAN, was_active : BOOLEAN, start : BOOLEAN]
    BY <1>13, <2>1 DEF FlushLeft, TypeOK, Pcs
  <2> QED BY <1>13, <2>2, <2>3, <2>4, <2>5 DEF FlushLeft, TypeOK
<1>14. CASE FlushRight
  <2>1. tail.start \in BOOLEAN
    BY DEF TypeOK
  <2>2. hw' \in HwState /\ ctl' \in [Halves -> CtlState]
    BY <1>14, <1>a, <2>1, MaskTypes, WriteTypes DEF FlushRight
  <2> QED BY <1>14, <2>2 DEF FlushRight, Goto, TypeOK, Pcs
<1>15. CASE RequestPending
  <2>1. [irq EXCEPT !.vblank = TRUE] \in IrqState
    BY <1>a DEF IrqState
  <2>2. irq' \in IrqState /\ hw' \in HwState
    BY <1>15, <2>1, <1>a, ListenTypes DEF RequestPending, Listen
  <2> QED BY <1>15, <2>2 DEF RequestPending, Goto, TypeOK, Pcs
<1>16. CASE CrtcEnable
  BY <1>16 DEF CrtcEnable, Goto, TypeOK, Pcs
<1>17. CASE EngineStart
  <2>1. [hw EXCEPT !.timing_en = TRUE,
                   !.engine = IF hw.engine = "off" THEN "start" ELSE hw.engine] \in HwState
    BY <1>a DEF HwState
  <2>2. irq' \in IrqState /\ hw' \in HwState
    BY <1>17, <2>1, <1>a, ListenTypes DEF EngineStart, Listen
  <2> QED BY <1>17, <2>2 DEF EngineStart, Goto, TypeOK, Pcs
<1>18. CASE EncoderEnable
  <2>1. hw' \in HwState /\ ctl' \in [Halves -> CtlState]
    BY <1>18, <1>a, MaskTypes, WriteTypes DEF EncoderEnable
  <2> QED BY <1>18, <2>1 DEF EncoderEnable, Goto, TypeOK, Pcs
<1>19. CASE Cleanup
  BY <1>19, <1>b DEF Cleanup, Goto, TypeOK, Pcs
<1>20. CASE Irq
  <2>1. [irq EXCEPT !.vblank = FALSE, !.wait = FALSE] \in IrqState
    BY <1>a DEF IrqState
  <2>2. [hw EXCEPT !.intr_status = FALSE] \in HwState
    BY <1>a DEF HwState
  <2>3. irq' \in IrqState /\ hw' \in HwState
    BY <1>20, <2>1, <2>2, UnusedTypes, ListenTypes DEF Irq, Listen
  <2>4. ctl' \in [Halves -> CtlState]
    BY <1>20, <1>a, BlendTypes DEF Irq
  <2>5. sent' \in Commits
    BY <1>20, <1>a DEF Irq
  <2>6. crtc' \in [event : Commits, flushed_mask : SUBSET FlushHwMask, pending : BOOLEAN,
                   vblank_on : BOOLEAN]
    <3>1. 0 \in Commits
      BY DEF Commits
    <3> QED BY <1>20, <3>1 DEF Irq, Completed, TypeOK
  <2> QED BY <1>20, <2>3, <2>4, <2>5, <2>6 DEF Irq, TypeOK
<1>21. CASE Vsync
  BY <1>21, VsyncTypes DEF Vsync, TypeOK
<1>22. CASE DisableVblank
  <2>1. [irq EXCEPT !.mask = FALSE] \in IrqState
    BY <1>a DEF IrqState
  <2>2. irq' \in IrqState /\ hw' \in HwState
    BY <1>22, <2>1, <1>a, ListenTypes DEF DisableVblank, Listen
  <2> QED BY <1>22, <2>2 DEF DisableVblank, TypeOK
<1>23. CASE PowerCollapse
  BY <1>23, PoweredOnType DEF PowerCollapse, TypeOK
<1> QED
  BY <1>0, <1>1, <1>2, <1>3, <1>4, <1>5, <1>6, <1>7, <1>8, <1>9, <1>10, <1>11, <1>12, <1>13,
     <1>14, <1>15, <1>16, <1>17, <1>18, <1>19, <1>20, <1>21, <1>22, <1>23
     DEF Next, Tail, Waits

(* Theorem: every variable keeps its type; in particular only FLUSH bits   *)
(* the hardware has are held back or written (mdp5_ctl_commit()).          *)
THEOREM TypeCorrect == Spec => []TypeOK
<1> QED BY InitType, TypeStep, PTL DEF Spec

-------------------------------------------------------------------------------
(* Events.                                                                 *)

LEMMA InitInv == Init => IInv
<1> SUFFICES ASSUME Init PROVE IInv
  OBVIOUS
<1>1. TypeOK /\ Room
  BY InitType
<1> QED BY <1>1 DEF Init, IInv, Outstanding, Untaken, OffAnswered, BeforeTake, BeforeOff, Shut

(* Steps that send nothing and move no event; the tail may go on to pc.    *)
LEMMA StillTail ==
  ASSUME IInv, UNCHANGED <<n, sent, cs, tail>>, crtc'.event = crtc.event
  PROVE  Outstanding' /\ Untaken' /\ OffAnswered'
  BY DEF IInv, Outstanding, Untaken, OffAnswered

(* A step from "deps" has waited for the event of the commit before; no    *)
(* other step leaves the part of the tail it is in.                        *)
LEMMA Advance ==
  ASSUME IInv, NEW pc \in Pcs, tail' = [tail EXCEPT !.pc = pc],
         UNCHANGED <<n, sent>>, cs'.event = cs.event, cs'.active = cs.active,
         crtc'.event = crtc.event,
         tail.pc = "deps" => sent >= n - 1,
         tail.pc \in BeforeTake \ {"take"} => pc \in BeforeTake,
         pc \in BeforeTake => tail.pc \in BeforeTake,
         \/ tail.pc \notin BeforeOff
         \/ pc \in BeforeOff
         \/ ~(tail.modeset /\ tail.was_active),
         tail.pc # "take"
  PROVE  Outstanding' /\ Untaken' /\ OffAnswered'
<1>1. tail'.pc = pc /\ tail'.modeset = tail.modeset /\ tail'.was_active = tail.was_active
  BY DEF IInv, TypeOK
<1>2. n \in Nat /\ sent \in Nat
  BY CrtcAssumption DEF IInv, TypeOK, Commits
<1>3. Outstanding'
  BY <1>1, <1>2 DEF IInv, Outstanding
<1>4. Untaken'
  BY <1>1 DEF IInv, Untaken
<1>5. OffAnswered'
  BY <1>1 DEF IInv, OffAnswered
<1> QED BY <1>3, <1>4, <1>5

(* The steps of the commit tail.                                           *)
LEMMA TailStep == IInv /\ Tail => Outstanding' /\ Untaken' /\ OffAnswered'
<1> SUFFICES ASSUME IInv, Tail PROVE Outstanding' /\ Untaken' /\ OffAnswered'
  OBVIOUS
<1> USE DEF At, Goto
<1>t. TypeOK /\ n \in Nat /\ sent \in Nat /\ cs.event \in Nat
  BY CrtcAssumption DEF IInv, TypeOK, Commits, CrtcState
<1>1. CASE Deps
  BY <1>1, Advance DEF Deps, Pcs, BeforeTake, BeforeOff, Shut
<1>2. ASSUME VblankGet("get0", "wait0") \/ VblankGet("get", "wait")
      PROVE  Outstanding' /\ Untaken' /\ OffAnswered'
  <2>1. PICK pc \in Pcs : tail' = [tail EXCEPT !.pc = pc] /\
           \/ tail.pc = "get0" /\ pc \in {"wait0", AfterWait0}
           \/ tail.pc = "get" /\ pc \in {"wait", "cleanup"}
    BY <1>2 DEF VblankGet, AfterWait, AfterWait0, Pcs, Waits
  <2>2. UNCHANGED <<n, sent, cs, crtc>>
    BY <1>2 DEF VblankGet
  <2> QED BY <2>1, <2>2, Advance DEF AfterWait0, BeforeTake, BeforeOff, Shut
<1>3. ASSUME NEW w \in Waits, WaitFlush(w)
      PROVE  Outstanding' /\ Untaken' /\ OffAnswered'
  <2>1. PICK pc \in Pcs : tail' = [tail EXCEPT !.pc = pc] /\
           \/ tail.pc = "wait0" /\ pc = AfterWait0
           \/ tail.pc = "wait" /\ pc = "cleanup"
    BY <1>3 DEF WaitFlush, AfterWait, AfterWait0, Pcs, Waits
  <2>2. UNCHANGED <<n, sent, cs>> /\ crtc'.event = crtc.event
    BY <1>3, <1>t DEF WaitFlush, TypeOK
  <2> QED BY <2>1, <2>2, Advance DEF AfterWait0, BeforeTake, BeforeOff, Shut
<1>4. CASE EngineStop \/ EncoderDisable \/ IrqWait \/ EncoderDisabled \/ WaitTimesOut
  <2>1. UNCHANGED <<n, sent, cs, crtc>>
    BY <1>4 DEF EngineStop, EncoderDisable, IrqWait, EncoderDisabled, WaitTimesOut
  <2>2. PICK pc \in Shut : tail' = [tail EXCEPT !.pc = pc] /\ tail.pc \in Shut
    BY <1>4 DEF EngineStop, EncoderDisable, IrqWait, EncoderDisabled, WaitTimesOut, Shut
  <2>3. pc \in Pcs
    BY DEF Pcs, Shut
  <2> QED BY <2>1, <2>2, <2>3, Advance DEF BeforeTake, BeforeOff, Shut
<1>5. CASE CrtcDisable
  <2>1. tail.pc = "crtcoff" /\ tail'.pc = "planes" /\ crtc'.event = crtc.event /\ n' = n
    BY <1>5, <1>t DEF CrtcDisable, TypeOK
  <2>2. crtc.event = 0
    BY <2>1, <1>t DEF IInv, Outstanding, Untaken, BeforeTake, BeforeOff, Shut
  <2>3. cs'.active = cs.active
    BY <1>5, <1>t DEF CrtcDisable, TypeOK, CrtcState
  <2>4. CASE SendsAtDisable
    <3>1. sent' = n /\ cs'.event = 0 /\ cs.event = n /\ n # 0
      BY <1>5, <1>t, <2>1, <2>4
      DEF CrtcDisable, SendsAtDisable, IInv, Outstanding, TypeOK, CrtcState
    <3> QED BY <3>1, <2>1, <2>2, <2>3
            DEF Outstanding, Untaken, OffAnswered, BeforeTake, BeforeOff, Shut
  <2>5. CASE ~SendsAtDisable
    <3>1. sent' = sent /\ cs' = cs
      BY <1>5, <2>5 DEF CrtcDisable
    <3>2. ~cs.active => cs.event = 0
      BY <2>5 DEF SendsAtDisable
    <3>3. ~cs.active => sent = n
      BY <3>2, <2>1, <2>2, <1>t DEF IInv, Outstanding, Untaken, BeforeTake, BeforeOff, Shut
    <3> QED BY <3>1, <3>3, <2>1, <2>2, <1>t
            DEF IInv, Outstanding, Untaken, OffAnswered, BeforeTake, BeforeOff, Shut
  <2> QED BY <2>4, <2>5
<1>6. CASE Planes
  BY <1>6, Advance DEF Planes, Pcs, BeforeTake, BeforeOff, Shut
<1>7. CASE TakeEvent
  <2>1. /\ tail.pc = "take" /\ tail'.pc = "blend" /\ n' = n /\ sent' = sent
        /\ crtc'.event = cs.event /\ cs'.event = 0 /\ cs'.active = cs.active
    BY <1>7, <1>t DEF TakeEvent, TypeOK, CrtcState
  <2>2. crtc.event = 0 \/ crtc.event = n
    BY <2>1, <1>t DEF IInv, Outstanding
  <2>3. (sent = n /\ cs.event = 0) \/ (sent = n - 1 /\ cs.event = n)
    BY <2>1, <2>2, <1>t DEF IInv, Outstanding, Untaken, BeforeTake
  <2>4. ~cs.active => sent = n
    BY <2>1 DEF IInv, OffAnswered, BeforeOff, Shut
  <2> QED BY <2>1, <2>3, <2>4 DEF Outstanding, Untaken, OffAnswered, BeforeTake, BeforeOff, Shut
<1>8. CASE BlendSetup \/ FlushRight \/ CrtcEnable \/ EngineStart \/ EncoderEnable \/ Cleanup
  <2>1. UNCHANGED <<n, sent, cs>> /\ crtc'.event = crtc.event
    BY <1>8, <1>t
    DEF BlendSetup, FlushRight, CrtcEnable, EngineStart, EncoderEnable, Cleanup, TypeOK
  <2>2. PICK pc \in Pcs \ BeforeTake : tail' = [tail EXCEPT !.pc = pc]
    BY <1>8 DEF BlendSetup, FlushRight, CrtcEnable, EngineStart, EncoderEnable, Cleanup,
                Pcs, BeforeTake, BeforeOff, Shut
  <2>3. tail.pc \notin BeforeTake
    BY <1>8 DEF BlendSetup, FlushRight, CrtcEnable, EngineStart, EncoderEnable, Cleanup,
                BeforeTake, BeforeOff, Shut
  <2> QED BY <2>1, <2>2, <2>3, Advance DEF BeforeTake, BeforeOff, Shut
<1>9. CASE FlushLeft
  <2>1. /\ tail.pc = "flushL" /\ tail'.pc \in {"pend", "flushR"} /\ n' = n /\ sent' = sent
        /\ crtc'.event = crtc.event /\ cs'.event = cs.event /\ cs'.active = cs.active
    BY <1>9, <1>t DEF FlushLeft, TypeOK, CrtcState
  <2> QED BY <2>1, <1>t DEF IInv, Outstanding, Untaken, OffAnswered, BeforeTake, BeforeOff, Shut
<1>10. CASE RequestPending
  <2>1. /\ tail.pc = "pend" /\ tail'.pc \in {"crtcon", "get"} /\ UNCHANGED <<n, sent, cs>>
        /\ crtc'.event = crtc.event
    BY <1>10, <1>t DEF RequestPending, TypeOK
  <2> QED BY <2>1, <1>t DEF IInv, Outstanding, Untaken, OffAnswered, BeforeTake, BeforeOff, Shut
<1> QED
  BY <1>1, <1>2, <1>3, <1>4, <1>5, <1>6, <1>7, <1>8, <1>9, <1>10 DEF Tail

(* A vblank answers the oldest commit that waits for an answer.            *)
LEMMA IrqStep == IInv /\ Irq => Outstanding' /\ Untaken' /\ OffAnswered'
<1> SUFFICES ASSUME IInv, Irq PROVE Outstanding' /\ Untaken' /\ OffAnswered'
  OBVIOUS
<1>t. TypeOK /\ n \in Nat /\ sent \in Nat
  BY CrtcAssumption DEF IInv, TypeOK, Commits
<1>1. UNCHANGED <<n, cs, tail>>
  BY DEF Irq
<1>2. CASE irq.vblank /\ crtc.pending /\ crtc.event # 0
  <2>1. crtc'.event = 0 /\ sent' = crtc.event
    BY <1>2, <1>t DEF Irq, Completed, TypeOK
  <2>2. crtc.event = n \/ crtc.event = n - 1
    BY <1>2 DEF IInv, Outstanding
  <2>3. Outstanding'
    BY <2>1, <2>2, <1>1, <1>2, <1>t DEF IInv, Outstanding
  <2>4. Untaken'
    BY <2>1, <1>1, <1>2, <1>t DEF IInv, Untaken, Outstanding
  <2>5. OffAnswered'
    BY <2>1, <1>1, <1>2, <1>t DEF IInv, OffAnswered, Outstanding, BeforeOff
  <2> QED BY <2>3, <2>4, <2>5
<1>3. CASE ~(irq.vblank /\ crtc.pending /\ crtc.event # 0)
  <2>1. crtc'.event = crtc.event /\ sent' = sent
    BY <1>3, <1>t DEF Irq, Completed, TypeOK
  <2> QED BY <2>1, <1>1, StillTail
<1> QED BY <1>2, <1>3

LEMMA SwapStep == IInv /\ Swap => Outstanding' /\ Untaken' /\ OffAnswered'
<1> SUFFICES ASSUME IInv, Swap PROVE Outstanding' /\ Untaken' /\ OffAnswered'
  OBVIOUS
<1>t. TypeOK /\ n \in Nat /\ sent \in Nat
  BY CrtcAssumption DEF IInv, TypeOK, Commits
<1>1. cs.event = 0 /\ tail.pc = "idle"
  BY DEF Swap, IInv, Untaken, BeforeTake, BeforeOff, Shut
<1>2. /\ n' = n + 1 /\ crtc' = crtc /\ tail'.pc = "deps" /\ tail'.was_active = cs.active
      /\ cs'.active = chk.active
      /\ cs'.event = IF cs.active \/ chk.active THEN n + 1 ELSE 0
      /\ sent' = IF cs'.event = 0 THEN n + 1 ELSE sent
      /\ cs.active # chk.active => tail'.modeset
  BY <1>t DEF Swap, TypeOK, NeedsModeset
<1>3. ~cs.active => sent = n
  BY <1>1 DEF IInv, OffAnswered, BeforeOff, Shut
<1>4. Outstanding'
  BY <1>1, <1>2, <1>3, <1>t DEF IInv, Outstanding
<1>5. Untaken'
  BY <1>1, <1>2, <1>t DEF IInv, Outstanding, Untaken, BeforeTake, BeforeOff, Shut
<1>6. OffAnswered'
  BY <1>2, <1>t DEF OffAnswered, BeforeOff, TypeOK, IInv
<1> QED BY <1>4, <1>5, <1>6

LEMMA InvStep == IInv /\ [Next]_vars => IInv'
<1> SUFFICES ASSUME IInv, [Next]_vars PROVE IInv'
  OBVIOUS
<1>1. TypeOK' /\ Room'
  BY TypeStep DEF IInv
<1>2. Outstanding' /\ Untaken' /\ OffAnswered'
  <2>1. CASE Swap
    BY <2>1, SwapStep
  <2>2. CASE Tail
    BY <2>2, TailStep
  <2>3. CASE Irq
    BY <2>3, IrqStep
  <2>4. ASSUME \/ UNCHANGED vars
               \/ \E enable, active, mode \in BOOLEAN : Check(enable, active, mode)
               \/ Discard \/ Vsync \/ DisableVblank \/ PowerCollapse
        PROVE  Outstanding' /\ Untaken' /\ OffAnswered'
    <3>1. UNCHANGED <<n, sent, cs, tail, crtc>>
      BY <2>4 DEF vars, Check, Discard, Vsync, DisableVblank, PowerCollapse
    <3> QED BY <3>1, StillTail
  <2> QED BY <2>1, <2>2, <2>3, <2>4 DEF Next
<1> QED BY <1>1, <1>2 DEF IInv

LEMMA InvNoLostEvent == IInv => NoLostEvent
<1> SUFFICES ASSUME IInv PROVE NoLostEvent
  OBVIOUS
<1>t. n \in Nat /\ sent \in Nat /\ crtc.event \in Nat /\ cs.event \in Nat
  BY CrtcAssumption DEF IInv, TypeOK, Commits, CrtcState
<1>1. CASE sent = n /\ cs.event = 0 /\ crtc.event = 0
  <2>1. (sent + 1) .. n = {}
    BY <1>1, <1>t
  <2> QED BY <1>1, <2>1 DEF NoLostEvent
<1>2. ASSUME \/ sent = n - 1 /\ cs.event = n /\ crtc.event = 0
             \/ sent = n - 1 /\ cs.event = 0 /\ crtc.event = n
      PROVE  NoLostEvent
  <2>1. n # 0 /\ (sent + 1) .. n = {n}
    BY <1>2, <1>t
  <2>2. {cs.event, crtc.event} \ {0} = {n}
    BY <1>2, <2>1
  <2> QED BY <1>2, <2>1, <2>2 DEF NoLostEvent
<1>3. CASE sent = n - 2 /\ cs.event = n /\ crtc.event = n - 1
  <2>1. n >= 2 /\ (sent + 1) .. n = {n - 1, n}
    BY <1>3, <1>t
  <2>2. {cs.event, crtc.event} \ {0} = {n - 1, n}
    BY <1>3, <2>1, <1>t
  <2> QED BY <1>3, <2>1, <2>2, <1>t DEF NoLostEvent
<1> QED BY <1>1, <1>2, <1>3 DEF IInv, Outstanding

(* Theorem: no completion event is lost or sent twice.                     *)
THEOREM EventsKept == Spec => []NoLostEvent
<1> QED BY InitInv, InvStep, InvNoLostEvent, PTL DEF Spec

(* Theorem: one event for every commit, in order, at most two outstanding: *)
(* every step of the CRTC is a step or a stutter of PageFlip.              *)
THEOREM ImplementsPageFlip == Spec => PFSafety
<1>1. Init => PF!Init
  BY DEF Init, PF!Init
<1>2. IInv /\ [Next]_vars => [PF!Next]_<<n, sent>>
  <2> SUFFICES ASSUME IInv, [Next]_vars PROVE [PF!Next]_<<n, sent>>
    OBVIOUS
  <2>t. TypeOK /\ n \in Nat /\ sent \in Nat
    BY CrtcAssumption DEF IInv, TypeOK, Commits
  <2>1. CASE Swap
    <3>1. cs.event = 0 /\ tail.pc = "idle"
      BY <2>1 DEF Swap, IInv, Untaken, BeforeTake, BeforeOff, Shut
    <3>2. n' = n + 1 /\ sent' = IF cs.active \/ chk.active THEN sent ELSE n + 1
      BY <2>1, <2>t DEF Swap
    <3>3. ~cs.active => sent = n
      BY <3>1 DEF IInv, OffAnswered, BeforeOff, Shut
    <3>4. n - sent < 2
      BY <3>1, <2>t DEF IInv, Outstanding
    <3>5. CASE cs.active \/ chk.active
      BY <3>2, <3>4, <3>5 DEF PF!Next, PF!Commit
    <3>6. CASE ~(cs.active \/ chk.active)
      BY <3>2, <3>3, <3>6 DEF PF!Next, PF!CommitAnswered
    <3> QED BY <3>5, <3>6
  <2>2. CASE Irq
    <3>1. n' = n /\ sent' = IF irq.vblank /\ crtc.pending /\ crtc.event # 0
                            THEN crtc.event ELSE sent
      BY <2>2 DEF Irq
    <3>2. crtc.event # 0 => crtc.event = sent + 1 /\ sent < n
      BY <2>t DEF IInv, Outstanding
    <3> QED BY <3>1, <3>2 DEF PF!Next, PF!Answer
  <2>3. CASE CrtcDisable
    <3>1. n' = n /\ sent' = IF SendsAtDisable THEN cs.event ELSE sent
      BY <2>3 DEF CrtcDisable
    <3>2. SendsAtDisable => cs.event = sent + 1 /\ sent < n
      BY <2>3, <2>t DEF CrtcDisable, At, SendsAtDisable, IInv, Outstanding
    <3> QED BY <3>1, <3>2 DEF PF!Next, PF!Answer
  <2>4. ASSUME ~Swap, ~Irq, ~CrtcDisable
        PROVE  UNCHANGED <<n, sent>>
    BY <2>4 DEF Next, Tail, vars, Check, Discard, Deps, VblankGet, WaitFlush, EngineStop,
                EncoderDisable, IrqWait, EncoderDisabled, WaitTimesOut, Planes, TakeEvent, BlendSetup, FlushLeft, FlushRight,
                RequestPending, CrtcEnable, EngineStart, EncoderEnable, Cleanup, Vsync,
                DisableVblank, PowerCollapse
  <2> QED BY <2>1, <2>2, <2>3, <2>4
<1> QED BY <1>1, <1>2, InitInv, InvStep, PTL DEF Spec, PFSafety, PF!Safety

-------------------------------------------------------------------------------
(* One half, checks that do not overlap a tail, interrupts handled at once *)
(* (the tablet's mode before the panel was split): what is on the screen.  *)

(* The places of the tail: before it turned anything off, while it turns   *)
(* the CRTC off (Shut), while it draws, while it turns the CRTC on.        *)
Before == {"deps", "get0", "wait0"}
Draw   == {"planes", "take", "blend", "flushL"}
Start  == {"crtcon", "timing", "enable"}

(* A commit that only turns a page, and one that starts the engine.        *)
Plain   == cs.active /\ ~tail.modeset
Starts  == cs.active /\ tail.modeset

(* The control of a commit: what the software's state is at each place of  *)
(* the tail.                                                               *)
ControlInv ==
  /\ chk.on => /\ tail.pc = "idle"
               /\ chk.active => chk.enable
               /\ chk.defer_start = (chk.enable /\ NeedsModeset(chk.enable, chk.active, chk.mode))
  /\ cs.active => cs.enable
  /\ cs.enable <=> cs.fb # 0
  /\ cs.fb # 0 => cs.fb \in pinned
  /\ cs.defer_start <=> tail.pc \in Before \cup Shut \cup Draw /\ cs.enable /\ tail.modeset
  /\ tail.pc \notin {"idle", "flushR"} /\ ~tail.modeset => cs.active = tail.was_active
  /\ tail.pc \in Shut => tail.modeset /\ tail.was_active
  /\ tail.pc \in Start => Starts
  /\ crtc.vblank_on <=>
       \/ tail.pc \in {"idle", "timing", "enable", "get", "wait", "cleanup"} /\ cs.active
       \/ tail.pc \in Before \cup Shut /\ tail.was_active
       \/ tail.pc \in Draw \cup {"pend"} /\ Plain
  /\ tail.pc # "flushR"

(* The driver's mask of interrupts is what is asked for, and the            *)
(* hardware's while the engine runs.                                       *)
IntrInv ==
  /\ irq.cur = Want(irq)
  /\ hw.engine # "off" => hw.intr_en = Want(irq)

(* The engine sends frames; the frame's registers whose flush is under way *)
(* or held back for the start; what the screen and the registers show.     *)
Lit == hw.engine = "on" /\ hw.timing_en
InFlush == hw.flush["L"] \cap Blocks
Held == ctl["L"].flush_mask \cap Blocks
Shows(k) == \A b \in Blocks : hw.live["L"][b] = k
Written(k) == \A b \in Blocks : hw.shadow["L"][b] = k
Steady == \E k \in pinned : Shows(k)

(* Where the tail is while the engine runs undisturbed, while it runs out  *)
(* after ENABLE=0, and while it is off.                                    *)
LitPhase ==
  \/ tail.pc = "idle" /\ cs.active
  \/ tail.pc \in Before \cup {"encoff"} /\ tail.was_active
  \/ tail.pc \in Draw /\ Plain
Stopping == {"encflush", "encwait", "vsync"}
DarkPhase ==
  \/ tail.pc = "idle" /\ ~cs.active
  \/ tail.pc \in Before /\ ~tail.was_active
  \/ tail.pc \in {"crtcoff", "crtcon", "timing"}
  \/ tail.pc \in Draw \cup {"pend"} /\ ~Plain
  \/ tail.pc \in {"get", "wait", "cleanup"} /\ ~cs.active

(* At each place of the tail: whether the engine runs, what flush is under *)
(* way and which frame is scanned out.                                     *)
ScreenInv ==
  /\ LitPhase => Lit /\ InFlush = {} /\ Held = {} /\ Steady
  /\ DarkPhase => hw.engine = "off"
  /\ tail.pc \in Stopping => ~hw.timing_en /\ InFlush = {} /\ Held = {} /\ Steady
  /\ tail.pc = "vsync" => hw.engine = "off" \/ (irq.wait /\ ~hw.intr_status)
  /\ tail.pc \in {"pend", "get", "wait"} /\ Plain =>
       /\ Lit /\ Held = {}
       /\ (InFlush = {} /\ Shows(cs.fb)) \/ (InFlush = Blocks /\ Steady)
  /\ tail.pc \in Start \cup {"pend"} /\ Starts => Held = Blocks
  /\ tail.pc = "enable" => hw.engine # "off" /\ hw.timing_en
  /\ tail.pc \in {"get", "wait"} /\ Starts =>
       /\ hw.engine # "off" /\ hw.timing_en /\ Held = {}
       /\ (InFlush = {} /\ Shows(cs.fb) /\ hw.engine = "on") \/ InFlush = Blocks
  /\ tail.pc \in {"cleanup", "idle"} /\ cs.active =>
       Lit /\ InFlush = {} /\ Held = {} /\ Shows(cs.fb)

(* What the registers hold of the new frame at each place of the tail.     *)
DrawInv ==
  /\ ctl["L"].pending_ctl_trigger \subseteq {"LM"}
  /\ tail.pc = "flushL" => ctl["L"].pending_ctl_trigger = {"LM"}
  /\ tail.pc \in {"take", "blend"} /\ cs.enable => hw.shadow["L"]["PIPE"] = cs.fb
  /\ tail.pc \in {"flushL", "pend", "get", "wait"} \cup Start /\ cs.enable => Written(cs.fb)
  /\ tail.pc \in {"pend", "get", "wait"} \cup Start /\ cs.enable => Blocks \subseteq crtc.flushed_mask
(* Where the event of a commit and the request to send it are, and that no *)
(* interrupt from before the flush can be taken for the flip.              *)
BeforeT == Before \cup Shut \cup {"planes", "take"}
Taken == {"blend", "flushL", "pend"}
FlipInv ==
  /\ cs.enable => cs.fb = n
  /\ tail.pc \in BeforeT /\ cs.active => cs.event # 0
  /\ tail.pc \in Taken /\ cs.active => crtc.event # 0
  /\ tail.pc \in Taken /\ Starts => ~(hw.intr_en /\ hw.intr_status)
  /\ tail.pc \in (BeforeT \ {"deps"}) \cup Taken /\ Plain => ~crtc.pending
  /\ \/ tail.pc \in {"idle", "get", "wait", "cleanup"} \cup Start /\ cs.active
     \/ tail.pc = "deps" /\ tail.was_active
     => (crtc.pending => crtc.event # 0)
  /\ tail.pc \in {"get", "wait"} /\ Plain /\ crtc.pending /\ hw.intr_en /\ hw.intr_status
     => InFlush = {}
  /\ hw.intr_en # irq.cur => ~hw.intr_status

(* The mode the theorems below are about.                                  *)
OneHalf == Halves = {"L"} /\ ~Overlap /\ ~IrqLag

(* The tail goes on and keeps what it knows of its commit.                 *)
LEMMA GotoFields ==
  ASSUME TypeOK, NEW pc, Goto(pc)
  PROVE  /\ tail'.pc = pc /\ tail'.modeset = tail.modeset
         /\ tail'.was_active = tail.was_active /\ tail'.start = tail.start
  BY DEF TypeOK, Goto

(* What a change of the listeners leaves in the registers.                 *)
LEMMA ListenFields ==
  ASSUME NEW i \in IrqState, NEW h \in HwState, Listen(i, h)
  PROVE  /\ irq'.vblank = i.vblank /\ irq'.wait = i.wait /\ irq'.mask = i.mask
         /\ irq'.cur = Want(i) /\ Want(irq') = Want(i)
         /\ hw'.intr_en = Want(i)
         /\ hw'.intr_status = (h.intr_status /\ ~(Want(i) /\ ~i.cur))
         /\ hw'.engine = h.engine /\ hw'.timing_en = h.timing_en /\ hw'.flush = h.flush
         /\ hw'.shadow = h.shadow /\ hw'.live = h.live
  BY DEF Listen, UpdateIrq, SetIrqmask, IrqState, HwState, Want

(* The control invariant holds first and is kept by every step.            *)
LEMMA InitControl == Init => ControlInv
  BY DEF Init, ControlInv, Before, Shut, Draw, Start, Plain, Starts

LEMMA ControlStep ==
  ASSUME OneHalf, TypeOK, ControlInv, [Next]_vars
  PROVE  ControlInv'
<1> USE DEF OneHalf, Before, Shut, Draw, Start, Plain, Starts
<1>0. CASE UNCHANGED vars
  BY <1>0 DEF vars, ControlInv, NeedsModeset
<1>a. /\ n \in Nat /\ cs \in CrtcState /\ irq \in IrqState /\ hw \in HwState
      /\ chk \in [on : BOOLEAN, enable : BOOLEAN, active : BOOLEAN, mode : BOOLEAN,
                  defer_start : BOOLEAN]
      /\ tail \in [pc : Pcs, modeset : BOOLEAN, was_active : BOOLEAN, start : BOOLEAN]
      /\ crtc \in [event : Commits, flushed_mask : SUBSET FlushHwMask, pending : BOOLEAN,
                   vblank_on : BOOLEAN]
  BY CrtcAssumption DEF TypeOK, Commits
<1>1. ASSUME NEW enable \in BOOLEAN, NEW active \in BOOLEAN, NEW mode \in BOOLEAN,
             Check(enable, active, mode)
      PROVE  ControlInv'
  <2>1. tail.pc = "idle" /\ ~cs.defer_start
    BY <1>1 DEF Check, ControlInv
  <2>2. /\ chk'.on /\ chk'.enable = enable /\ chk'.active = active /\ chk'.mode = mode
        /\ chk'.defer_start = (enable /\ NeedsModeset(enable, active, mode))
        /\ active => enable
        /\ UNCHANGED <<n, cs, tail, crtc, pinned>>
    BY <1>1, <2>1 DEF Check, NeedsModeset
  <2> QED BY <2>1, <2>2 DEF ControlInv, NeedsModeset
<1>2. CASE Discard
  BY <1>2, <1>a DEF Discard, ControlInv, NeedsModeset
<1>3. CASE Swap
  <2>1. /\ tail'.pc = "deps" /\ tail'.was_active = cs.active
        /\ tail'.modeset = NeedsModeset(chk.enable, chk.active, chk.mode)
        /\ cs'.enable = chk.enable /\ cs'.active = chk.active
        /\ cs'.defer_start = chk.defer_start /\ cs'.fb = IF chk.enable THEN n + 1 ELSE 0
        /\ ~chk'.on /\ crtc' = crtc /\ chk.on /\ tail.pc = "idle"
        /\ pinned' = pinned \cup ({cs'.fb} \ {0})
    BY <1>3, <1>a DEF Swap
  <2>2. chk.active # cs.active => tail'.modeset
    BY <2>1 DEF NeedsModeset
  <2> QED BY <1>a, <2>1, <2>2 DEF ControlInv
<1>4. CASE Deps
  BY <1>4, <1>a, GotoFields DEF Deps, At, ControlInv, NeedsModeset
<1>5. ASSUME NEW pc, NEW next, \/ pc = "get0" /\ next = "wait0"
                               \/ pc = "get" /\ next = "wait",
             VblankGet(pc, next)
      PROVE  ControlInv'
  <2>1. /\ UNCHANGED <<n, cs, chk, crtc, pinned>> /\ tail.pc = pc
        /\ Goto(next) \/ Goto(AfterWait(pc))
    BY <1>5 DEF VblankGet, At
  <2> QED BY <1>a, <1>5, <2>1, GotoFields DEF AfterWait, AfterWait0, ControlInv, NeedsModeset
<1>6. ASSUME NEW pc \in Waits, WaitFlush(pc)
      PROVE  ControlInv'
  <2>1. /\ UNCHANGED <<n, cs, chk, pinned>> /\ crtc'.vblank_on = crtc.vblank_on
        /\ tail.pc = pc /\ Goto(AfterWait(pc))
    BY <1>6, <1>a DEF WaitFlush, At
  <2> QED BY <1>a, <2>1, GotoFields DEF Waits, AfterWait, AfterWait0, ControlInv, NeedsModeset
<1>7. CASE EngineStop \/ EncoderDisable \/ IrqWait \/ EncoderDisabled \/ WaitTimesOut
  <2>1. /\ UNCHANGED <<n, cs, chk, crtc, pinned>>
        /\ \/ tail.pc = "encoff" /\ Goto("encflush")
           \/ tail.pc = "encflush" /\ Goto("encwait")
           \/ tail.pc = "encwait" /\ Goto("vsync")
           \/ tail.pc = "vsync" /\ Goto("crtcoff")
    BY <1>7 DEF EngineStop, EncoderDisable, IrqWait, EncoderDisabled, WaitTimesOut, At
  <2> QED BY <1>a, <2>1, GotoFields DEF ControlInv, NeedsModeset
<1>8. CASE CrtcDisable
  <2>1. /\ UNCHANGED <<n, chk, pinned>> /\ ~crtc'.vblank_on /\ Goto("planes")
        /\ tail.pc = "crtcoff"
        /\ cs'.enable = cs.enable /\ cs'.active = cs.active /\ cs'.fb = cs.fb
        /\ cs'.defer_start = cs.defer_start
    BY <1>8, <1>a DEF CrtcDisable, At, CrtcState
  <2> QED BY <1>a, <2>1, GotoFields DEF ControlInv, NeedsModeset
<1>9. CASE Planes
  BY <1>9, <1>a, GotoFields DEF Planes, At, ControlInv, NeedsModeset
<1>10. CASE TakeEvent
  <2>1. /\ UNCHANGED <<n, chk, pinned>> /\ crtc'.vblank_on = crtc.vblank_on
        /\ Goto("blend") /\ tail.pc = "take"
        /\ cs'.enable = cs.enable /\ cs'.active = cs.active /\ cs'.fb = cs.fb
        /\ cs'.defer_start = cs.defer_start
    BY <1>10, <1>a DEF TakeEvent, At, CrtcState
  <2> QED BY <1>a, <2>1, GotoFields DEF ControlInv, NeedsModeset
<1>11. CASE BlendSetup
  BY <1>11, <1>a, GotoFields DEF BlendSetup, At, ControlInv, NeedsModeset
<1>12. CASE FlushLeft
  <2>1. /\ UNCHANGED <<n, chk, pinned>> /\ crtc'.vblank_on = crtc.vblank_on
        /\ tail'.pc = "pend" /\ tail.pc = "flushL" /\ tail'.modeset = tail.modeset
        /\ tail'.was_active = tail.was_active
        /\ cs'.enable = cs.enable /\ cs'.active = cs.active /\ cs'.fb = cs.fb
        /\ ~cs'.defer_start
    BY <1>12, <1>a DEF FlushLeft, At, CrtcState
  <2> QED BY <1>a, <2>1 DEF ControlInv, NeedsModeset
<1>13. CASE FlushRight
  BY <1>13 DEF FlushRight, At, ControlInv
<1>14. CASE RequestPending
  <2>1. /\ UNCHANGED <<n, cs, chk, pinned>> /\ crtc'.vblank_on = crtc.vblank_on
        /\ tail.pc = "pend"
        /\ \/ Starts /\ Goto("crtcon")
           \/ ~Starts /\ Goto("get")
    BY <1>14, <1>a DEF RequestPending, At
  <2> QED BY <1>a, <2>1, GotoFields DEF ControlInv, NeedsModeset
<1>15. CASE CrtcEnable
  BY <1>15, <1>a, GotoFields DEF CrtcEnable, At, ControlInv, NeedsModeset
<1>16. CASE EngineStart \/ EncoderEnable
  <2>1. /\ UNCHANGED <<n, cs, chk, crtc, pinned>>
        /\ \/ tail.pc = "timing" /\ Goto("enable")
           \/ tail.pc = "enable" /\ Goto("get")
    BY <1>16 DEF EngineStart, EncoderEnable, At
  <2> QED BY <1>a, <2>1, GotoFields DEF ControlInv, NeedsModeset
<1>17. CASE Cleanup
  BY <1>17, <1>a, GotoFields DEF Cleanup, At, ControlInv, NeedsModeset
<1>18. CASE Irq
  <2>1. UNCHANGED <<n, cs, chk, tail, pinned>> /\ crtc'.vblank_on = crtc.vblank_on
    BY <1>18, <1>a DEF Irq, Completed
  <2> QED BY <2>1 DEF ControlInv, NeedsModeset
<1>19. CASE Vsync \/ DisableVblank \/ PowerCollapse
  BY <1>19 DEF Vsync, DisableVblank, PowerCollapse, ControlInv, NeedsModeset
<1> QED
  BY <1>0, <1>1, <1>2, <1>3, <1>4, <1>5, <1>6, <1>7, <1>8, <1>9, <1>10, <1>11, <1>12, <1>13,
     <1>14, <1>15, <1>16, <1>17, <1>18, <1>19 DEF Next, Tail

(* What a flush of the left half leaves in the registers.                  *)
LEMMA WriteFields ==
  ASSUME OneHalf, TypeOK, NEW h \in HwState, NEW s, "L" \in s, NEW mask, NEW start
  PROVE  LET w == Write(h, s, mask, start)
         IN  /\ w.flush["L"] = h.flush["L"] \cup Flushed(ctl["L"], mask, start)
             /\ w.engine = h.engine /\ w.timing_en = h.timing_en /\ w.intr_en = h.intr_en
             /\ w.shadow = h.shadow /\ w.live = h.live /\ w.intr_status = h.intr_status
             /\ CtlCommit(s, mask, start) => ctl'["L"] = mdp5_ctl_commit(ctl["L"], mask, start)
  BY DEF OneHalf, Write, HwState, CtlCommit

(* The flush of the timing engine lets go what was held back.              *)
LEMMA TimingFlush ==
  ASSUME NEW c \in CtlState, c.pending_ctl_trigger \subseteq {"LM"}
  PROVE  /\ Flushed(c, {"TIMING"}, TRUE) \cap Blocks = c.flush_mask \cap Blocks
         /\ mdp5_ctl_commit(c, {"TIMING"}, TRUE).flush_mask = {}
         /\ mdp5_ctl_commit(c, {"TIMING"}, TRUE).pending_ctl_trigger = c.pending_ctl_trigger
  BY DEF Flushed, FlushBits, mdp5_ctl_commit, TriggerLeft, Blocks

(* After the layers were blended a flush of pipes and mixer takes all.     *)
LEMMA FrameBits ==
  ASSUME NEW c, c.pending_ctl_trigger = {"LM"}
  PROVE  Blocks \subseteq FlushBits(c, {"PIPE", "LM"})
  BY FlushAssumption DEF FlushBits, Blocks

(* At first nothing listens.                                               *)
LEMMA InitIntr == Init => IntrInv
<1> SUFFICES ASSUME Init PROVE IntrInv
  OBVIOUS
<1>1. ~irq.cur /\ ~irq.vblank /\ ~irq.wait /\ ~irq.mask /\ hw.engine = "off" /\ irq \in IrqState
  BY DEF Init, PoweredOn, IrqState
<1> QED BY <1>1 DEF IntrInv, Want, IrqState

(* The driver's idea of the interrupt is the hardware's while frames come. *)
LEMMA IntrStep ==
  ASSUME TypeOK, IntrInv, [Next]_vars
  PROVE  IntrInv'
<1>a. irq \in IrqState /\ hw \in HwState /\ ctl \in [Halves -> CtlState]
  BY DEF TypeOK
<1>1. CASE hw' = hw /\ irq' = irq
  BY <1>1 DEF IntrInv, Want
<1>2. ASSUME NEW i \in IrqState, NEW h \in HwState, Listen(i, h)
      PROVE  IntrInv'
  BY <1>2, ListenFields DEF IntrInv
<1>3. ASSUME irq' = irq, hw'.engine = hw.engine, hw'.intr_en = hw.intr_en
      PROVE  IntrInv'
  BY <1>3 DEF IntrInv, Want
<1>4. ASSUME NEW pc, NEW next, VblankGet(pc, next)
      PROVE  IntrInv'
  <2>1. [irq EXCEPT !.mask = TRUE] \in IrqState
    BY <1>a DEF IrqState
  <2> QED BY <1>1, <1>2, <1>4, <1>a, <2>1 DEF VblankGet
<1>5. CASE EngineStop \/ EncoderDisable
  <2>1. irq' = irq /\ hw'.engine = hw.engine /\ hw'.intr_en = hw.intr_en
    BY <1>5, <1>a DEF EngineStop, EncoderDisable, Write, HwState
  <2> QED BY <1>3, <2>1
<1>15. CASE IrqWait \/ WaitTimesOut
  <2>1. [irq EXCEPT !.wait = TRUE] \in IrqState /\ [irq EXCEPT !.wait = FALSE] \in IrqState
    BY <1>a DEF IrqState
  <2> QED BY <1>2, <1>15, <1>a, <2>1 DEF IrqWait, WaitTimesOut
<1>6. CASE CrtcDisable \/ DisableVblank
  <2>1. [irq EXCEPT !.mask = FALSE] \in IrqState
    BY <1>a DEF IrqState
  <2> QED BY <1>2, <1>6, <1>a, <2>1 DEF CrtcDisable, DisableVblank
<1>7. CASE Planes \/ BlendSetup
  <2>1. irq' = irq /\ hw'.engine = hw.engine /\ hw'.intr_en = hw.intr_en
    BY <1>7, <1>a DEF Planes, BlendSetup, Program, HwState
  <2> QED BY <1>3, <2>1
<1>8. CASE FlushLeft \/ FlushRight \/ EncoderEnable
  <2>1. irq' = irq /\ hw'.engine = hw.engine /\ hw'.intr_en = hw.intr_en
    BY <1>8, <1>a DEF FlushLeft, FlushRight, EncoderEnable, Write, HwState
  <2> QED BY <1>3, <2>1
<1>9. CASE RequestPending
  <2>1. [irq EXCEPT !.vblank = TRUE] \in IrqState
    BY <1>a DEF IrqState
  <2> QED BY <1>1, <1>2, <1>9, <1>a, <2>1 DEF RequestPending
<1>10. CASE EngineStart
  <2>1. [hw EXCEPT !.timing_en = TRUE,
                   !.engine = IF hw.engine = "off" THEN "start" ELSE hw.engine] \in HwState
    BY <1>a DEF HwState
  <2> QED BY <1>2, <1>10, <1>a, <2>1 DEF EngineStart
<1>11. CASE Irq
  <2>1. [irq EXCEPT !.vblank = FALSE, !.wait = FALSE] \in IrqState
    BY <1>a DEF IrqState
  <2>2. [hw EXCEPT !.intr_status = FALSE] \in HwState
    BY <1>a DEF HwState
  <2>3. Unused([hw EXCEPT !.intr_status = FALSE]) \in HwState
    BY <2>2, UnusedTypes
  <2> QED BY <1>2, <1>11, <2>1, <2>3 DEF Irq
<1>12. CASE Vsync
  <2>1. irq' = irq /\ hw.engine # "off" /\ hw'.intr_en = hw.intr_en
    BY <1>12, <1>a DEF Vsync, HwState
  <2> QED BY <2>1 DEF IntrInv, Want
<1>13. CASE PowerCollapse
  BY <1>13 DEF PowerCollapse, PoweredOn, IntrInv, Want
<1>14. CASE \/ UNCHANGED vars \/ Discard \/ Swap \/ Deps \/ EncoderDisabled \/ TakeEvent
            \/ CrtcEnable \/ Cleanup \/ \E pc \in Waits : WaitFlush(pc)
            \/ \E enable, active, mode \in BOOLEAN : Check(enable, active, mode)
  BY <1>1, <1>14 DEF vars, Discard, Swap, Deps, EncoderDisabled, TakeEvent, CrtcEnable, Cleanup,
                     WaitFlush, Check
<1> QED
  BY <1>4, <1>5, <1>6, <1>7, <1>8, <1>9, <1>10, <1>11, <1>12, <1>13, <1>14, <1>15 DEF Next, Tail

(* What is shown and what is drawn.                                        *)
PicInv == ScreenInv /\ DrawInv

(* A step that leaves what is drawn and shown as it is.                    *)
Still ==
  /\ hw'.engine = hw.engine /\ hw'.timing_en = hw.timing_en
  /\ hw'.flush = hw.flush /\ hw'.live = hw.live
  /\ hw'.intr_status => hw.intr_status
  /\ hw.engine = "off" \/ irq'.wait = irq.wait
  /\ ctl'["L"].flush_mask = ctl["L"].flush_mask
  /\ cs'.enable = cs.enable /\ cs'.active = cs.active /\ cs'.fb = cs.fb
  /\ pinned' = pinned

LEMMA StillScreen ==
  ASSUME Still
  PROVE  /\ InFlush' = InFlush /\ Held' = Held /\ Lit' = Lit
         /\ Steady' = Steady /\ \A k : Shows(k)' = Shows(k)
  BY DEF Still, InFlush, Held, Lit, Steady, Shows

(* At first the screen is dark and nothing is drawn.                       *)
LEMMA InitPic == OneHalf /\ Init => PicInv
<1> SUFFICES ASSUME OneHalf, Init PROVE PicInv
  OBVIOUS
<1>1. tail.pc = "idle" /\ ~cs.active /\ hw.engine = "off" /\ ctl["L"].pending_ctl_trigger = {}
  BY DEF Init, OneHalf, PoweredOn, FreshCtl
<1> QED BY <1>1 DEF PicInv, ScreenInv, DrawInv, LitPhase, DarkPhase, Before, Draw, Start,
                  Stopping

(* Every step keeps what is drawn and shown, read through the place the    *)
(* tail is at.                                                             *)
LEMMA PicStep ==
  ASSUME OneHalf, TypeOK, TypeOK', ControlInv, ControlInv', IntrInv, PicInv, [Next]_vars
  PROVE  PicInv'
<1> USE DEF Before, Shut, Draw, Start, Plain, Starts, Stopping
<1>a. /\ cs \in CrtcState /\ irq \in IrqState /\ hw \in HwState /\ ctl["L"] \in CtlState
      /\ "L" \in Halves
      /\ tail \in [pc : Pcs, modeset : BOOLEAN, was_active : BOOLEAN, start : BOOLEAN]
      /\ crtc \in [event : Commits, flushed_mask : SUBSET FlushHwMask, pending : BOOLEAN,
                   vblank_on : BOOLEAN]
  BY DEF OneHalf, TypeOK
(* Steps that leave the tail where it is.                                  *)
<1>b. ASSUME Still, tail' = tail, crtc'.flushed_mask = crtc.flushed_mask,
             hw'.shadow = hw.shadow, ctl' = ctl
      PROVE  PicInv'
  <2>1. /\ InFlush' = InFlush /\ Held' = Held /\ Lit' = Lit
        /\ Steady' = Steady /\ \A k : Shows(k)' = Shows(k)
    BY <1>b, StillScreen
  <2>2. ScreenInv'
    BY <1>b, <2>1 DEF Still, PicInv, ScreenInv, LitPhase, DarkPhase
  <2>3. DrawInv'
    BY <1>b DEF Still, PicInv, DrawInv, Written
  <2> QED BY <2>2, <2>3 DEF PicInv
<1>0. CASE UNCHANGED vars
  BY <1>0, <1>b DEF vars, Still
<1>1. CASE Discard \/ \E enable, active, mode \in BOOLEAN : Check(enable, active, mode)
  BY <1>1, <1>b DEF Check, Discard, Still
<1>2. CASE DisableVblank
  <2>1. [irq EXCEPT !.mask = FALSE] \in IrqState
    BY <1>a DEF IrqState
  <2>2. Listen([irq EXCEPT !.mask = FALSE], hw)
    BY <1>2 DEF DisableVblank
  <2>3. Still /\ hw'.shadow = hw.shadow
    BY <1>2, <1>a, <2>1, <2>2, ListenFields DEF DisableVblank, Still, IrqState
  <2> QED BY <1>2, <1>b, <2>3 DEF DisableVblank
<1>3. CASE Swap
  <2>1. /\ tail'.pc = "deps" /\ tail'.was_active = cs.active /\ tail.pc = "idle"
        /\ hw' = hw /\ irq' = irq /\ ctl' = ctl /\ crtc' = crtc /\ pinned \subseteq pinned'
    BY <1>3, <1>a DEF Swap
  <2>2. Steady => Steady'
    BY <2>1 DEF Steady, Shows
  <2>3. InFlush' = InFlush /\ Held' = Held /\ Lit' = Lit
    BY <2>1 DEF InFlush, Held, Lit
  <2> QED BY <2>1, <2>2, <2>3 DEF PicInv, ScreenInv, DrawInv, LitPhase, DarkPhase
(* Steps of the tail that draw nothing.                                    *)
<1>c. ASSUME NEW pc, Still, Goto(pc), hw'.shadow = hw.shadow, ctl' = ctl,
             crtc'.flushed_mask = crtc.flushed_mask,
             \/ tail.pc = "deps" /\ pc = "get0"
             \/ tail.pc = "get0" /\ pc \in {"wait0", AfterWait0}
             \/ tail.pc = "get" /\ pc = "wait"
             \/ tail.pc = "get" /\ pc = "cleanup" /\ ~cs.active
             \/ tail.pc = "vsync" /\ pc = "crtcoff" /\ (irq.wait => hw.engine = "off")
             \/ tail.pc = "crtcoff" /\ pc = "planes"
             \/ tail.pc = "pend" /\ pc = "get" /\ ~Starts
             \/ tail.pc = "pend" /\ pc = "crtcon" /\ Starts
             \/ tail.pc = "crtcon" /\ pc = "timing"
      PROVE  PicInv'
  <2>1. /\ InFlush' = InFlush /\ Held' = Held /\ Lit' = Lit
        /\ Steady' = Steady /\ \A k : Shows(k)' = Shows(k)
    BY <1>c, StillScreen
  <2>2. /\ tail'.pc = pc /\ tail'.modeset = tail.modeset /\ tail'.was_active = tail.was_active
    BY <1>c, GotoFields
  <2>3. ScreenInv'
    BY <1>c, <2>1, <2>2 DEF Still, PicInv, ScreenInv, LitPhase, DarkPhase, ControlInv, AfterWait0
  <2>4. DrawInv'
    BY <1>c, <2>2 DEF Still, PicInv, DrawInv, Written, AfterWait0
  <2> QED BY <2>3, <2>4 DEF PicInv
<1>4. CASE Deps
  BY <1>4, <1>c DEF Deps, At, Still
<1>5. ASSUME NEW pc, NEW next, \/ pc = "get0" /\ next = "wait0"
                               \/ pc = "get" /\ next = "wait",
             VblankGet(pc, next)
      PROVE  PicInv'
  <2>1. UNCHANGED <<cs, crtc, ctl, pinned>> /\ tail.pc = pc
    BY <1>5 DEF VblankGet, At
  <2>2. CASE crtc.vblank_on
    <3>1. [irq EXCEPT !.mask = TRUE] \in IrqState
      BY <1>a DEF IrqState
    <3>2. Listen([irq EXCEPT !.mask = TRUE], hw) /\ Goto(next)
      BY <1>5, <2>2 DEF VblankGet
    <3>3. Still /\ hw'.shadow = hw.shadow
      BY <1>a, <2>1, <3>1, <3>2, ListenFields DEF Still, IrqState
    <3> QED BY <1>5, <1>c, <2>1, <3>2, <3>3
  <2>3. CASE ~crtc.vblank_on
    <3>1. Goto(AfterWait(pc)) /\ hw' = hw /\ irq' = irq
      BY <1>5, <2>3 DEF VblankGet
    <3>2. tail.pc = "get" => ~cs.active
      BY <2>3 DEF ControlInv
    <3> QED BY <1>5, <1>c, <2>1, <3>1, <3>2 DEF AfterWait, Still
  <2> QED BY <2>2, <2>3
<1>6. CASE EncoderDisabled \/ CrtcEnable
  BY <1>6, <1>c, <1>a DEF EncoderDisabled, CrtcEnable, At, Still
<1>7. CASE CrtcDisable
  <2>1. [irq EXCEPT !.mask = FALSE] \in IrqState
    BY <1>a DEF IrqState
  <2>2. /\ Listen([irq EXCEPT !.mask = FALSE], hw) /\ Goto("planes") /\ tail.pc = "crtcoff"
        /\ cs'.enable = cs.enable /\ cs'.active = cs.active /\ cs'.fb = cs.fb
        /\ crtc'.flushed_mask = crtc.flushed_mask /\ ctl' = ctl /\ pinned' = pinned
    BY <1>7, <1>a DEF CrtcDisable, At, CrtcState
  <2>3. Still /\ hw'.shadow = hw.shadow
    BY <1>a, <2>1, <2>2, ListenFields DEF Still, IrqState
  <2> QED BY <1>c, <2>2, <2>3
<1>8. CASE RequestPending
  <2>1. [irq EXCEPT !.vblank = TRUE] \in IrqState
    BY <1>a DEF IrqState
  <2>2. /\ UNCHANGED <<cs, ctl, pinned>> /\ crtc'.flushed_mask = crtc.flushed_mask
        /\ tail.pc = "pend"
        /\ \/ Starts /\ Goto("crtcon")
           \/ ~Starts /\ Goto("get")
    BY <1>8, <1>a DEF RequestPending, At
  <2>3. Listen([irq EXCEPT !.vblank = TRUE], hw) \/ UNCHANGED <<irq, hw>>
    BY <1>8 DEF RequestPending
  <2>4. Still /\ hw'.shadow = hw.shadow
    BY <1>a, <2>1, <2>2, <2>3, ListenFields DEF Still, IrqState
  <2> QED BY <1>c, <2>2, <2>4
<1>9. ASSUME NEW pc \in Waits, WaitFlush(pc)
      PROVE  PicInv'
  <2>1. /\ UNCHANGED <<cs, ctl, irq, hw, pinned>> /\ tail.pc = pc /\ Goto(AfterWait(pc))
        /\ hw.flush["L"] \cap crtc.flushed_mask = {}
    BY <1>9 DEF WaitFlush, At, FlushDone
  <2>2. /\ InFlush' = InFlush /\ Held' = Held /\ Lit' = Lit
        /\ Steady' = Steady /\ \A k : Shows(k)' = Shows(k)
    BY <2>1, StillScreen DEF Still
  <2>3. /\ tail'.pc = AfterWait(pc) /\ tail'.modeset = tail.modeset
        /\ tail'.was_active = tail.was_active
    BY <2>1, GotoFields
  <2>4. CASE pc = "wait0"
    <3>1. tail'.pc = AfterWait0
      BY <2>3, <2>4 DEF AfterWait
    <3>2. ScreenInv'
      BY <2>1, <2>2, <2>3, <2>4, <3>1
      DEF PicInv, ScreenInv, LitPhase, DarkPhase, ControlInv, AfterWait0
    <3>3. DrawInv'
      BY <2>1, <2>3, <2>4, <3>1 DEF PicInv, DrawInv, Written, AfterWait0
    <3> QED BY <3>2, <3>3 DEF PicInv
  <2>5. CASE pc = "wait"
    <3>1. tail'.pc = "cleanup" /\ tail.pc = "wait"
      BY <2>1, <2>3, <2>5 DEF AfterWait
    <3>2. cs.active => InFlush = {}
      <4>1. cs.active => Blocks \subseteq crtc.flushed_mask
        BY <3>1 DEF PicInv, DrawInv, ControlInv
      <4> QED BY <2>1, <4>1 DEF InFlush
    <3>3. InFlush = {} => InFlush # Blocks
      BY DEF Blocks
    <3>4. ScreenInv'
      BY <2>1, <2>2, <2>3, <3>1, <3>2, <3>3 DEF PicInv, ScreenInv, LitPhase, DarkPhase, Lit
    <3>5. DrawInv'
      BY <2>1, <3>1 DEF PicInv, DrawInv
    <3> QED BY <3>4, <3>5 DEF PicInv
  <2> QED BY <2>4, <2>5 DEF Waits
<1>10. CASE EngineStop
  <2>1. /\ UNCHANGED <<cs, crtc, ctl, irq, pinned>> /\ tail.pc = "encoff" /\ Goto("encflush")
        /\ hw'.flush = hw.flush /\ ~hw'.timing_en /\ hw'.live = hw.live
    BY <1>10, <1>a DEF EngineStop, At, HwState
  <2>2. LitPhase /\ tail'.pc = "encflush"
    BY <2>1, GotoFields DEF LitPhase, ControlInv
  <2>3. InFlush' = {} /\ Held' = {} /\ Steady'
    <3>1. InFlush = {} /\ Held = {} /\ Steady
      BY <2>2 DEF PicInv, ScreenInv
    <3> QED BY <2>1, <3>1 DEF InFlush, Held, Steady, Shows
  <2>4. ScreenInv'
    BY <2>1, <2>2, <2>3 DEF ScreenInv, LitPhase, DarkPhase
  <2>5. DrawInv'
    BY <2>1, <2>2 DEF PicInv, DrawInv
  <2> QED BY <2>4, <2>5 DEF PicInv
<1>22. CASE EncoderDisable
  <2>1. /\ UNCHANGED <<cs, crtc, irq, pinned>> /\ tail.pc = "encflush" /\ Goto("encwait")
        /\ CtlCommit(Halves, {"TIMING"}, TRUE)
        /\ hw' = Write(hw, Halves, {"TIMING"}, TRUE)
    BY <1>22 DEF EncoderDisable, At
  <2>2. /\ hw'.flush["L"] = hw.flush["L"] \cup Flushed(ctl["L"], {"TIMING"}, TRUE)
        /\ hw'.timing_en = hw.timing_en /\ hw'.live = hw.live
        /\ ctl'["L"] = mdp5_ctl_commit(ctl["L"], {"TIMING"}, TRUE)
    BY <1>a, <2>1 DEF OneHalf, Write, HwState, CtlCommit
  <2>3. /\ Flushed(ctl["L"], {"TIMING"}, TRUE) \cap Blocks = ctl["L"].flush_mask \cap Blocks
        /\ ctl'["L"].flush_mask = {}
        /\ ctl'["L"].pending_ctl_trigger = ctl["L"].pending_ctl_trigger
    BY <1>a, <2>2, TimingFlush DEF PicInv, DrawInv
  <2>4. ~hw.timing_en /\ InFlush = {} /\ Held = {} /\ Steady
    BY <2>1 DEF PicInv, ScreenInv
  <2>5. InFlush' = {} /\ Held' = {} /\ Steady'
    <3>1. InFlush' = {}
      BY <2>2, <2>3, <2>4 DEF InFlush, Held
    <3>2. Held' = {}
      BY <2>3 DEF Held
    <3>3. Steady'
      BY <2>1, <2>2, <2>4 DEF Steady, Shows
    <3> QED BY <3>1, <3>2, <3>3
  <2>6. tail'.pc = "encwait" /\ ~hw'.timing_en
    BY <2>1, <2>2, <2>4, GotoFields
  <2>7. ScreenInv'
    BY <2>5, <2>6 DEF ScreenInv, LitPhase, DarkPhase
  <2>8. DrawInv'
    BY <2>3, <2>6 DEF PicInv, DrawInv
  <2> QED BY <2>7, <2>8 DEF PicInv
<1>23. CASE IrqWait
  <2> DEFINE i == [irq EXCEPT !.wait = TRUE]
  <2>1. i \in IrqState /\ i.wait /\ Want(i) /\ i.cur = irq.cur
    BY <1>a DEF IrqState, Want
  <2>2. /\ Listen(i, hw) /\ Goto("vsync") /\ UNCHANGED <<cs, crtc, ctl, pinned>>
        /\ tail.pc = "encwait" /\ ~(hw.intr_en /\ hw.intr_status)
    BY <1>23 DEF IrqWait, At, OneHalf
  <2> HIDE DEF i
  <2>3. /\ irq'.wait /\ hw'.intr_status = (hw.intr_status /\ ~(Want(i) /\ ~i.cur))
        /\ hw'.engine = hw.engine /\ hw'.timing_en = hw.timing_en /\ hw'.flush = hw.flush
        /\ hw'.live = hw.live
    BY <1>a, <2>1, <2>2, ListenFields
  <2>4. ~hw.timing_en /\ InFlush = {} /\ Held = {} /\ Steady
    BY <2>2 DEF PicInv, ScreenInv
  <2>5. hw'.engine # "off" => ~hw'.intr_status
    BY <2>1, <2>2, <2>3 DEF IntrInv
  <2>6. InFlush' = {} /\ Held' = {} /\ Steady'
    BY <2>2, <2>3, <2>4 DEF InFlush, Held, Steady, Shows
  <2>7. tail'.pc = "vsync"
    BY <2>2, GotoFields
  <2>8. ScreenInv'
    BY <2>3, <2>4, <2>5, <2>6, <2>7 DEF ScreenInv, LitPhase, DarkPhase
  <2>9. DrawInv'
    BY <2>2, <2>7 DEF PicInv, DrawInv
  <2> QED BY <2>8, <2>9 DEF PicInv
<1>24. CASE WaitTimesOut
  <2>1. [irq EXCEPT !.wait = FALSE] \in IrqState
    BY <1>a DEF IrqState
  <2>2. /\ Listen([irq EXCEPT !.wait = FALSE], hw) /\ Goto("crtcoff")
        /\ UNCHANGED <<cs, crtc, ctl, pinned>> /\ tail.pc = "vsync" /\ hw.engine = "off"
    BY <1>24 DEF WaitTimesOut, NoVsync, At
  <2>3. Still /\ hw'.shadow = hw.shadow
    BY <1>a, <2>1, <2>2, ListenFields DEF Still
  <2> QED BY <1>c, <2>2, <2>3
(* Drawing: registers are written, and no more.                            *)
<1>d. ASSUME NEW bs, Program(bs)
      PROVE  /\ hw'.engine = hw.engine /\ hw'.timing_en = hw.timing_en
             /\ hw'.flush = hw.flush /\ hw'.live = hw.live
             /\ hw'.intr_status = hw.intr_status
             /\ \A b \in Blocks : hw'.shadow["L"][b] = IF b \in bs THEN cs.fb ELSE hw.shadow["L"][b]
  BY <1>a, <1>d DEF Program, HwState
<1>11. CASE Planes
  <2>1. /\ UNCHANGED <<cs, crtc, ctl, irq, pinned>> /\ tail.pc = "planes" /\ Goto("take")
        /\ IF cs.fb # 0 THEN Program({"PIPE"}) ELSE hw' = hw
    BY <1>11 DEF Planes, At
  <2>2. Still
    BY <1>d, <2>1 DEF Still
  <2>3. /\ InFlush' = InFlush /\ Held' = Held /\ Lit' = Lit
        /\ Steady' = Steady /\ \A k : Shows(k)' = Shows(k)
    BY <2>2, StillScreen
  <2>4. tail'.pc = "take" /\ tail'.modeset = tail.modeset
    BY <2>1, GotoFields
  <2>5. ScreenInv'
    BY <2>1, <2>2, <2>3, <2>4 DEF Still, PicInv, ScreenInv, LitPhase, DarkPhase
  <2>6. cs.enable => hw'.shadow["L"]["PIPE"] = cs.fb
    BY <1>d, <2>1 DEF ControlInv, Blocks
  <2>7. DrawInv'
    BY <2>1, <2>4, <2>6 DEF PicInv, DrawInv
  <2> QED BY <2>5, <2>7 DEF PicInv
<1>12. CASE TakeEvent
  <2>1. /\ UNCHANGED <<ctl, irq, hw, pinned>> /\ tail.pc = "take" /\ Goto("blend")
        /\ cs'.enable = cs.enable /\ cs'.active = cs.active /\ cs'.fb = cs.fb
        /\ crtc'.flushed_mask = crtc.flushed_mask
    BY <1>12, <1>a DEF TakeEvent, At, CrtcState
  <2>2. Still
    BY <2>1 DEF Still
  <2>3. /\ InFlush' = InFlush /\ Held' = Held /\ Lit' = Lit
        /\ Steady' = Steady /\ \A k : Shows(k)' = Shows(k)
    BY <2>2, StillScreen
  <2>4. tail'.pc = "blend" /\ tail'.modeset = tail.modeset
    BY <2>1, GotoFields
  <2>5. ScreenInv'
    BY <2>1, <2>2, <2>3, <2>4 DEF Still, PicInv, ScreenInv, LitPhase, DarkPhase
  <2>6. DrawInv'
    BY <2>1, <2>4 DEF PicInv, DrawInv
  <2> QED BY <2>5, <2>6 DEF PicInv
<1>13. CASE BlendSetup
  <2>1. /\ UNCHANGED <<cs, crtc, irq, pinned>> /\ tail.pc = "blend" /\ Goto("flushL")
        /\ Program({"LM", "CTL"}) /\ ctl'["L"] = mdp5_ctl_blend(ctl["L"])
    BY <1>13, <1>a DEF BlendSetup, At
  <2>2. ctl'["L"].flush_mask = ctl["L"].flush_mask /\ ctl'["L"].pending_ctl_trigger = {"LM"}
    BY <1>a, <2>1 DEF mdp5_ctl_blend, CtlState
  <2>3. Still
    BY <1>d, <2>1, <2>2 DEF Still
  <2>4. /\ InFlush' = InFlush /\ Held' = Held /\ Lit' = Lit
        /\ Steady' = Steady /\ \A k : Shows(k)' = Shows(k)
    BY <2>3, StillScreen
  <2>5. tail'.pc = "flushL" /\ tail'.modeset = tail.modeset
    BY <2>1, GotoFields
  <2>6. ScreenInv'
    BY <2>1, <2>3, <2>4, <2>5 DEF Still, PicInv, ScreenInv, LitPhase, DarkPhase
  <2>7. cs.enable => Written(cs.fb)'
    <3>1. cs.enable => hw.shadow["L"]["PIPE"] = cs.fb
      BY <2>1 DEF PicInv, DrawInv
    <3> QED BY <1>d, <2>1, <3>1 DEF Written, Blocks
  <2>8. DrawInv'
    BY <2>1, <2>2, <2>5, <2>7 DEF PicInv, DrawInv, Written
  <2> QED BY <2>6, <2>8 DEF PicInv
<1>14. CASE FlushLeft
  <2>1. /\ tail.pc = "flushL" /\ tail'.pc = "pend" /\ tail'.modeset = tail.modeset
        /\ UNCHANGED <<irq, pinned>>
        /\ cs'.enable = cs.enable /\ cs'.active = cs.active /\ cs'.fb = cs.fb
        /\ crtc'.flushed_mask = FlushBits(ctl["L"], FlushMask)
        /\ hw' = Write(hw, {"L"}, FlushMask, ~cs.defer_start)
        /\ CtlCommit({"L"}, FlushMask, ~cs.defer_start)
    BY <1>14, <1>a DEF FlushLeft, At, CrtcState, OneHalf
  <2> DEFINE start == ~cs.defer_start
  <2>2. /\ hw'.flush["L"] = hw.flush["L"] \cup Flushed(ctl["L"], FlushMask, start)
        /\ hw'.engine = hw.engine /\ hw'.timing_en = hw.timing_en
        /\ hw'.shadow = hw.shadow /\ hw'.live = hw.live
        /\ ctl'["L"] = mdp5_ctl_commit(ctl["L"], FlushMask, start)
    BY <1>a, <2>1 DEF OneHalf, Write, HwState, CtlCommit
  <2>3. ctl["L"].pending_ctl_trigger = {"LM"} /\ start \in BOOLEAN
    BY <1>a, <2>1 DEF PicInv, DrawInv
  <2>4. FlushMask = IF cs.fb = 0 THEN {"LM"} ELSE {"PIPE", "LM"}
    BY DEF FlushMask
  <2>5. ctl'["L"].pending_ctl_trigger = {}
    BY <2>2, <2>3, <2>4 DEF mdp5_ctl_commit, TriggerLeft
  <2>6. cs.enable => FlushMask = {"PIPE", "LM"} /\ Written(cs.fb)
    BY <2>1, <2>4 DEF ControlInv, PicInv, DrawInv
  <2>7. start <=> ~(cs.enable /\ tail.modeset)
    BY <2>1 DEF ControlInv
  <2>f. /\ cs.enable => Blocks \subseteq FlushBits(ctl["L"], FlushMask)
        /\ start => /\ Flushed(ctl["L"], FlushMask, start) =
                          FlushBits(ctl["L"], FlushMask) \cup ctl["L"].flush_mask
                    /\ ctl'["L"].flush_mask = {}
        /\ ~start => /\ Flushed(ctl["L"], FlushMask, start) = {}
                     /\ ctl'["L"].flush_mask =
                          ctl["L"].flush_mask \cup FlushBits(ctl["L"], FlushMask)
    <3>1. cs.enable => Blocks \subseteq FlushBits(ctl["L"], FlushMask)
      BY <2>3, <2>6, FrameBits
    <3> QED BY <2>2, <3>1 DEF Flushed, mdp5_ctl_commit
  <2>8. CASE ~cs.active
    <3>1. hw.engine = "off"
      BY <2>1, <2>8 DEF PicInv, ScreenInv, DarkPhase
    <3>2. ScreenInv'
      BY <2>1, <2>2, <2>8, <3>1 DEF ScreenInv, LitPhase, DarkPhase
    <3>3. DrawInv'
      <4>1. cs.enable => Blocks \subseteq crtc'.flushed_mask
        BY <2>1, <2>f
      <4> QED BY <2>1, <2>2, <2>5, <2>6, <4>1 DEF DrawInv, Written
    <3> QED BY <3>2, <3>3 DEF PicInv
  <2>9. CASE Plain
    <3>1. start /\ cs.enable
      BY <2>7, <2>9 DEF ControlInv
    <3>2. /\ Blocks \subseteq crtc'.flushed_mask
          /\ Blocks \subseteq Flushed(ctl["L"], FlushMask, start)
          /\ ctl'["L"].flush_mask = {}
      BY <2>1, <2>f, <3>1
    <3>3. Lit /\ InFlush = {} /\ Held = {} /\ Steady
      BY <2>1, <2>9 DEF PicInv, ScreenInv, LitPhase
    <3> HIDE DEF start
    <3>4. InFlush' = Blocks /\ Held' = {} /\ Lit' /\ Steady'
      <4>1. InFlush' = Blocks
        BY <2>2, <3>2 DEF InFlush
      <4>2. Held' = {}
        BY <3>2 DEF Held
      <4>3. pinned' = pinned /\ hw'.live = hw.live
        BY <2>1, <2>2
      <4>4. Lit'
        BY <2>2, <3>3 DEF Lit
      <4>5. Steady'
        BY <3>3, <4>3 DEF Steady, Shows
      <4> QED BY <4>1, <4>2, <4>4, <4>5
    <3>5. ScreenInv'
      BY <2>1, <2>9, <3>4 DEF ScreenInv, LitPhase, DarkPhase, Lit
    <3>6. DrawInv'
      BY <2>1, <2>2, <2>5, <2>6, <3>1, <3>2 DEF DrawInv, Written
    <3> QED BY <3>5, <3>6 DEF PicInv
  <2>10. CASE Starts
    <3>1. ~start /\ cs.enable
      BY <2>7, <2>10 DEF ControlInv
    <3>2. /\ Blocks \subseteq crtc'.flushed_mask
          /\ Blocks \subseteq ctl'["L"].flush_mask
      BY <2>1, <2>f, <3>1
    <3>3. hw.engine = "off"
      BY <2>1, <2>10 DEF PicInv, ScreenInv, DarkPhase
    <3> HIDE DEF start
    <3>4. Held' = Blocks
      BY <3>2 DEF Held
    <3>5. ScreenInv'
      BY <2>1, <2>2, <2>10, <3>3, <3>4 DEF ScreenInv, LitPhase, DarkPhase, Lit
    <3>6. DrawInv'
      BY <2>1, <2>2, <2>5, <2>6, <3>1, <3>2 DEF DrawInv, Written
    <3> QED BY <3>5, <3>6 DEF PicInv
  <2> QED BY <2>8, <2>9, <2>10
<1>15. CASE EngineStart
  <2> DEFINE h == [hw EXCEPT !.timing_en = TRUE,
                             !.engine = IF hw.engine = "off" THEN "start" ELSE hw.engine]
  <2>1. h \in HwState /\ h.engine # "off" /\ h.timing_en /\ h.flush = hw.flush
        /\ h.live = hw.live /\ h.shadow = hw.shadow
    BY <1>a DEF HwState
  <2>2. /\ UNCHANGED <<cs, crtc, ctl, pinned>> /\ tail.pc = "timing" /\ Goto("enable")
        /\ Listen(irq, h)
    BY <1>15 DEF EngineStart, At
  <2> HIDE DEF h
  <2>3. /\ hw'.engine # "off" /\ hw'.timing_en /\ hw'.flush = hw.flush
        /\ hw'.live = hw.live /\ hw'.shadow = hw.shadow
    BY <1>a, <2>1, <2>2, ListenFields
  <2>4. tail'.pc = "enable" /\ tail'.modeset = tail.modeset
    BY <2>2, GotoFields
  <2>5. Starts => Held' = Blocks
    BY <2>2 DEF PicInv, ScreenInv, Held
  <2>6. ScreenInv'
    BY <2>2, <2>3, <2>4, <2>5 DEF ScreenInv, LitPhase, DarkPhase
  <2>7. DrawInv'
    BY <2>2, <2>3, <2>4 DEF PicInv, DrawInv, Written
  <2> QED BY <2>6, <2>7 DEF PicInv
<1>16. CASE EncoderEnable
  <2>1. /\ UNCHANGED <<cs, crtc, irq, pinned>> /\ tail.pc = "enable" /\ Goto("get")
        /\ hw' = Write(hw, Halves, {"TIMING"}, TRUE)
        /\ CtlCommit(Halves, {"TIMING"}, TRUE)
    BY <1>16 DEF EncoderEnable, At
  <2>2. /\ hw'.flush["L"] = hw.flush["L"] \cup Flushed(ctl["L"], {"TIMING"}, TRUE)
        /\ hw'.engine = hw.engine /\ hw'.timing_en = hw.timing_en
        /\ hw'.shadow = hw.shadow /\ hw'.live = hw.live
        /\ ctl'["L"] = mdp5_ctl_commit(ctl["L"], {"TIMING"}, TRUE)
    BY <1>a, <2>1 DEF OneHalf, Write, HwState, CtlCommit
  <2>3. /\ Flushed(ctl["L"], {"TIMING"}, TRUE) \cap Blocks = ctl["L"].flush_mask \cap Blocks
        /\ ctl'["L"].flush_mask = {}
        /\ ctl'["L"].pending_ctl_trigger = ctl["L"].pending_ctl_trigger
    BY <1>a, <2>2, TimingFlush DEF PicInv, DrawInv
  <2>4. Starts /\ Held = Blocks /\ hw.engine # "off" /\ hw.timing_en
    BY <2>1 DEF ControlInv, PicInv, ScreenInv
  <2>5. Held' = {}
    BY <2>3 DEF Held
  <2>6. InFlush' = Blocks
    <3>1. Flushed(ctl["L"], {"TIMING"}, TRUE) \cap Blocks = Blocks
      BY <2>3, <2>4 DEF Held
    <3> QED BY <2>2, <3>1 DEF InFlush
  <2>7. tail'.pc = "get" /\ tail'.modeset = tail.modeset
    BY <2>1, GotoFields
  <2>8. ScreenInv'
    BY <2>1, <2>2, <2>4, <2>5, <2>6, <2>7 DEF ScreenInv, LitPhase, DarkPhase
  <2>9. DrawInv'
    BY <2>1, <2>2, <2>3, <2>7 DEF PicInv, DrawInv, Written
  <2> QED BY <2>8, <2>9 DEF PicInv
<1>17. CASE FlushRight
  BY <1>17 DEF FlushRight, At, ControlInv
<1>18. CASE Cleanup
  <2>1. /\ UNCHANGED <<cs, crtc, ctl, irq, hw>> /\ tail.pc = "cleanup" /\ Goto("idle")
        /\ pinned' = {cs.fb} \ {0}
    BY <1>18 DEF Cleanup, At
  <2>2. tail'.pc = "idle"
    BY <2>1, GotoFields
  <2>3. cs.active => /\ Lit' /\ InFlush' = {} /\ Held' = {} /\ Shows(cs.fb)'
                     /\ cs.fb # 0
    BY <2>1 DEF ControlInv, PicInv, ScreenInv, Lit, InFlush, Held, Shows
  <2>4. cs.active => Steady'
    BY <2>1, <2>3 DEF Steady, Shows
  <2>5. ~cs.active => hw'.engine = "off"
    BY <2>1 DEF PicInv, ScreenInv, DarkPhase
  <2>6. ScreenInv'
    BY <2>1, <2>2, <2>3, <2>4, <2>5 DEF ScreenInv, LitPhase, DarkPhase
  <2>7. DrawInv'
    BY <2>1, <2>2 DEF PicInv, DrawInv
  <2> QED BY <2>6, <2>7 DEF PicInv
<1>19. CASE Irq
  <2> DEFINE i == [irq EXCEPT !.vblank = FALSE, !.wait = FALSE]
             g == [hw EXCEPT !.intr_status = FALSE]
             h == Unused(g)
  <2>1. i \in IrqState /\ g \in HwState
    BY <1>a DEF IrqState, HwState
  <2>2. h \in HwState
    BY <2>1, UnusedTypes
  <2>3. /\ UNCHANGED <<cs, tail, pinned>> /\ Listen(i, h) /\ hw.intr_status
        /\ crtc'.flushed_mask = crtc.flushed_mask
        /\ \/ ctl' = ctl
           \/ ctl'["L"] = mdp5_ctl_blend(ctl["L"])
    BY <1>19, <1>a DEF Irq, Completed
  <2>4. /\ h.engine = hw.engine /\ h.timing_en = hw.timing_en /\ h.flush = hw.flush
        /\ h.live = hw.live /\ ~h.intr_status
        /\ cs.enable => h.shadow = hw.shadow
    <3>1. /\ g.engine = hw.engine /\ g.timing_en = hw.timing_en /\ g.flush = hw.flush
          /\ g.live = hw.live /\ ~g.intr_status /\ g.shadow = hw.shadow
      BY <1>a DEF HwState
    <3> HIDE DEF g
    <3> QED BY <2>1, <3>1 DEF Unused, HwState
  <2> HIDE DEF i, g, h
  <2>5. /\ hw'.engine = hw.engine /\ hw'.timing_en = hw.timing_en /\ hw'.flush = hw.flush
        /\ hw'.live = hw.live /\ ~hw'.intr_status
        /\ cs.enable => hw'.shadow = hw.shadow
    BY <2>1, <2>2, <2>3, <2>4, ListenFields
  <2>6. /\ ctl'["L"].flush_mask = ctl["L"].flush_mask
        /\ \/ ctl'["L"].pending_ctl_trigger = ctl["L"].pending_ctl_trigger
           \/ ctl'["L"].pending_ctl_trigger = {"LM"}
    BY <1>a, <2>3 DEF mdp5_ctl_blend, CtlState
  <2>7. /\ InFlush' = InFlush /\ Held' = Held /\ Lit' = Lit
        /\ Steady' = Steady /\ \A k : Shows(k)' = Shows(k)
    BY <2>3, <2>5, <2>6 DEF InFlush, Held, Lit, Steady, Shows
  <2>8. ScreenInv'
    BY <2>3, <2>5, <2>7 DEF PicInv, ScreenInv, LitPhase, DarkPhase
  <2>9. DrawInv'
    BY <2>3, <2>5, <2>6 DEF PicInv, DrawInv, Written
  <2> QED BY <2>8, <2>9 DEF PicInv
<1>20. CASE Vsync
  <2>1. /\ UNCHANGED <<cs, tail, crtc, ctl, irq, pinned>> /\ hw.engine # "off"
        /\ hw'.flush["L"] = {} /\ hw'.timing_en = hw.timing_en /\ hw'.shadow = hw.shadow
        /\ hw'.engine = IF hw.timing_en THEN "on" ELSE "off"
        /\ \A b \in Blocks : hw'.live["L"][b] =
              IF b \in hw.flush["L"] THEN hw.shadow["L"][b] ELSE hw.live["L"][b]
    BY <1>20, <1>a DEF Vsync, Latched, HwState
  <2>2. InFlush' = {} /\ Held' = Held
    BY <2>1 DEF InFlush, Held
  <2>3. InFlush = {} => Steady' = Steady /\ \A k : Shows(k)' = Shows(k)
    <3>1. InFlush = {} => \A b \in Blocks : hw'.live["L"][b] = hw.live["L"][b]
      BY <2>1 DEF InFlush
    <3> QED BY <2>1, <3>1 DEF Steady, Shows
  <2>4. InFlush = Blocks => \A k : Written(k) => Shows(k)'
    BY <2>1 DEF InFlush, Shows, Written
  <2>5. InFlush' # Blocks
    BY <2>2 DEF Blocks
  <2>6. ~DarkPhase
    BY <2>1 DEF PicInv, ScreenInv
  <2>7. DrawInv'
    BY <2>1 DEF PicInv, DrawInv, Written
  <2>8. tail.pc \in {"pend", "get", "wait"} /\ cs.active => Written(cs.fb)
    BY DEF PicInv, DrawInv, ControlInv
  <2>9. ScreenInv'
    BY <2>1, <2>2, <2>3, <2>4, <2>5, <2>6, <2>8 DEF PicInv, ScreenInv, LitPhase, DarkPhase, Lit
  <2> QED BY <2>7, <2>9 DEF PicInv
<1>21. CASE PowerCollapse
  <2>1. /\ UNCHANGED <<cs, tail, crtc, ctl, irq, pinned>> /\ tail.pc = "idle" /\ ~cs.active
        /\ hw'.engine = "off"
    BY <1>21 DEF PowerCollapse, PoweredOn
  <2>2. ScreenInv'
    BY <2>1 DEF ScreenInv, LitPhase, DarkPhase
  <2>3. DrawInv'
    BY <2>1 DEF PicInv, DrawInv
  <2> QED BY <2>2, <2>3 DEF PicInv
<1> QED
  BY <1>0, <1>1, <1>2, <1>3, <1>4, <1>5, <1>6, <1>7, <1>8, <1>9, <1>10, <1>11, <1>12, <1>13,
     <1>14, <1>15, <1>16, <1>17, <1>18, <1>19, <1>20, <1>21, <1>22, <1>23, <1>24 DEF Next, Tail

(* What is known at each place gives what the run checks.                  *)
LEMMA PicFramesKept ==
  ASSUME OneHalf, TypeOK, ControlInv, PicInv
  PROVE  FramesKept
<1> USE DEF Before, Shut, Draw, Start, Plain, Starts, Stopping
<1>1. DisableLatched
  BY DEF DisableLatched, PicInv, ScreenInv, DarkPhase
<1>2. hw.engine = "on" /\ ~FirstFrame => \E k \in pinned : Shows(k)
  <2> SUFFICES ASSUME hw.engine = "on", ~FirstFrame PROVE \E k \in pinned : Shows(k)
    OBVIOUS
  <2>1. CASE LitPhase \/ tail.pc \in Stopping
    BY <2>1 DEF PicInv, ScreenInv, Steady
  <2>2. CASE tail.pc \in {"pend", "get", "wait"} /\ Plain
    <3>1. cs.fb \in pinned
      BY <2>2 DEF ControlInv
    <3> QED BY <2>2, <3>1 DEF PicInv, ScreenInv, Steady
  <2>3. CASE tail.pc = "cleanup" /\ cs.active
    <3>1. cs.fb \in pinned
      BY <2>3 DEF ControlInv
    <3> QED BY <2>3, <3>1 DEF PicInv, ScreenInv
  <2>4. ~DarkPhase
    BY DEF PicInv, ScreenInv
  <2>5. tail.pc \in Pcs /\ tail.pc # "flushR" /\ (tail.pc = "encoff" => tail.was_active)
    BY DEF TypeOK, ControlInv
  <2>6. tail.pc = "enable" => Starts
    BY DEF ControlInv
  <2> QED BY <2>1, <2>2, <2>3, <2>4, <2>5, <2>6 DEF LitPhase, DarkPhase, FirstFrame, Pcs, Waits
<1>3. NoTear /\ FbKept
  BY <1>2 DEF OneHalf, NoTear, FbKept, Scanned, Shows, Blocks
<1> QED BY <1>1, <1>3 DEF FramesKept

(* Of one half, a frame that is scanned out is a whole frame, its          *)
(* framebuffer is mapped until the next one was taken over, and the        *)
(* encoder is only declared off once the engine has stopped, for any       *)
(* number of commits (mdp5_crtc.c, mdp5_encoder.c, msm_atomic.c).          *)
THEOREM FramesCorrect ==
  ASSUME OneHalf
  PROVE  Spec => []FramesKept
<1> DEFINE Inv == ControlInv /\ IntrInv /\ PicInv
<1>1. Spec => []TypeOK
  BY TypeCorrect
<1>2. Init => Inv
  BY InitControl, InitIntr, InitPic
<1>3. TypeOK /\ TypeOK' /\ Inv /\ [Next]_vars => Inv'
  BY ControlStep, IntrStep, PicStep
<1>4. TypeOK /\ Inv => FramesKept
  BY PicFramesKept
<1> HIDE DEF Inv
<1> QED BY <1>1, <1>2, <1>3, <1>4, PTL DEF Spec

(* A change of the listeners brings no interrupt about.                    *)
LEMMA ListenQuiet ==
  ASSUME NEW i \in IrqState, NEW h \in HwState, Listen(i, h), i.cur = irq.cur,
         h.intr_status => hw.intr_status, irq \in IrqState, hw \in HwState,
         hw.intr_en # irq.cur => ~hw.intr_status
  PROVE  /\ hw'.intr_en /\ hw'.intr_status => hw.intr_en /\ hw.intr_status
         /\ hw'.intr_en # irq'.cur => ~hw'.intr_status
<1>1. /\ irq'.cur = Want(i) /\ hw'.intr_en = Want(i)
      /\ hw'.intr_status = (h.intr_status /\ ~(Want(i) /\ ~i.cur))
  BY ListenFields
<1>2. irq.cur \in BOOLEAN /\ hw.intr_en \in BOOLEAN
  BY DEF IrqState, HwState
<1> QED BY <1>1, <1>2

(* At first no event is awaited.                                           *)
LEMMA InitFlip == Init => FlipInv
  BY DEF Init, FlipInv, BeforeT, Before, Shut, Taken, Start, Plain, Starts, PoweredOn

(* Every step keeps the events in order with the flushes.                  *)
LEMMA FlipStep ==
  ASSUME OneHalf, IInv, ControlInv, IntrInv, PicInv, FlipInv, [Next]_vars
  PROVE  FlipInv'
<1> USE DEF Before, Shut, Draw, Start, Plain, Starts, Stopping, BeforeT, Taken
<1>a. /\ cs \in CrtcState /\ irq \in IrqState /\ hw \in HwState /\ ctl["L"] \in CtlState
      /\ "L" \in Halves /\ TypeOK /\ n \in Nat /\ sent \in Nat
      /\ tail \in [pc : Pcs, modeset : BOOLEAN, was_active : BOOLEAN, start : BOOLEAN]
      /\ crtc \in [event : Commits, flushed_mask : SUBSET FlushHwMask, pending : BOOLEAN,
                   vblank_on : BOOLEAN]
  BY CrtcAssumption DEF OneHalf, IInv, TypeOK, Commits
<1>h. hw.intr_en # irq.cur => ~hw.intr_status
  BY DEF FlipInv
(* Steps that bring no interrupt and touch neither events nor flushes.     *)
<1>q. ASSUME n' = n, cs'.active = cs.active, cs'.enable = cs.enable, cs'.fb = cs.fb,
             cs'.event = cs.event, crtc'.event = crtc.event, crtc'.pending = crtc.pending,
             InFlush' = InFlush,
             hw'.intr_en /\ hw'.intr_status => hw.intr_en /\ hw.intr_status,
             hw'.intr_en # irq'.cur => ~hw'.intr_status,
             tail'.modeset = tail.modeset, tail'.was_active = tail.was_active,
             \/ tail'.pc = tail.pc
             \/ tail.pc = "deps" /\ tail'.pc = "get0" /\ (Plain => ~crtc.pending)
             \/ tail.pc \in {"get0", "wait0"} /\ tail'.pc \in {"wait0", AfterWait0}
             \/ tail.pc = "vsync" /\ tail'.pc = "crtcoff"
             \/ tail.pc = "planes" /\ tail'.pc = "take"
             \/ tail.pc = "blend" /\ tail'.pc = "flushL"
             \/ tail.pc = "crtcon" /\ tail'.pc = "timing"
             \/ tail.pc = "timing" /\ tail'.pc = "enable"
             \/ tail.pc = "get" /\ tail'.pc \in {"wait", "cleanup"}
             \/ tail.pc = "wait" /\ tail'.pc = "cleanup"
             \/ tail.pc = "cleanup" /\ tail'.pc = "idle"
      PROVE  FlipInv'
  BY <1>q DEF FlipInv, AfterWait0
<1>0. CASE UNCHANGED vars
  BY <1>0, <1>h, <1>q DEF vars, InFlush
<1>1. CASE Discard \/ \E enable, active, mode \in BOOLEAN : Check(enable, active, mode)
  BY <1>1, <1>h, <1>q DEF Check, Discard, InFlush
<1>2. CASE DisableVblank
  <2>1. [irq EXCEPT !.mask = FALSE] \in IrqState /\ [irq EXCEPT !.mask = FALSE].cur = irq.cur
    BY <1>a DEF IrqState
  <2>2. Listen([irq EXCEPT !.mask = FALSE], hw) /\ UNCHANGED <<n, cs, crtc, tail>>
    BY <1>2 DEF DisableVblank
  <2>3. InFlush' = InFlush
    BY <1>a, <2>1, <2>2, ListenFields DEF InFlush
  <2>4. /\ hw'.intr_en /\ hw'.intr_status => hw.intr_en /\ hw.intr_status
        /\ hw'.intr_en # irq'.cur => ~hw'.intr_status
    BY <1>a, <1>h, <2>1, <2>2, ListenQuiet
  <2> QED BY <1>q, <2>2, <2>3, <2>4
<1>3. CASE Swap
  <2>1. /\ tail'.pc = "deps" /\ tail'.was_active = cs.active /\ tail.pc = "idle"
        /\ hw' = hw /\ irq' = irq /\ crtc' = crtc /\ n' = n + 1
        /\ cs'.active = chk.active /\ cs'.enable = chk.enable
        /\ chk.active => cs'.event = n + 1
        /\ cs'.enable => cs'.fb = n + 1
    BY <1>3, <1>a DEF Swap
  <2> QED BY <1>a, <2>1 DEF FlipInv
<1>4. CASE Deps
  <2>1. /\ UNCHANGED <<n, cs, crtc, hw, irq>> /\ tail.pc = "deps" /\ Goto("get0")
        /\ sent >= n - 1
    BY <1>4 DEF Deps, At
  <2>2. crtc.event = 0
    BY <1>a, <2>1 DEF IInv, Outstanding, Untaken, BeforeTake, BeforeOff, Shut
  <2>3. Plain => ~crtc.pending
    BY <2>1, <2>2 DEF FlipInv, ControlInv
  <2>4. tail'.pc = "get0" /\ tail'.modeset = tail.modeset /\ tail'.was_active = tail.was_active
    BY <1>a, <2>1, GotoFields
  <2> QED BY <1>h, <1>q, <2>1, <2>3, <2>4 DEF InFlush
<1>5. ASSUME NEW pc, NEW next, \/ pc = "get0" /\ next = "wait0"
                               \/ pc = "get" /\ next = "wait",
             VblankGet(pc, next)
      PROVE  FlipInv'
  <2>1. UNCHANGED <<n, cs, crtc>> /\ tail.pc = pc
    BY <1>5 DEF VblankGet, At
  <2>2. [irq EXCEPT !.mask = TRUE] \in IrqState /\ [irq EXCEPT !.mask = TRUE].cur = irq.cur
    BY <1>a DEF IrqState
  <2>3. CASE crtc.vblank_on
    <3>1. Listen([irq EXCEPT !.mask = TRUE], hw) /\ Goto(next)
      BY <1>5, <2>3 DEF VblankGet
    <3>2. InFlush' = InFlush
      BY <1>a, <2>2, <3>1, ListenFields DEF InFlush
    <3>3. /\ hw'.intr_en /\ hw'.intr_status => hw.intr_en /\ hw.intr_status
          /\ hw'.intr_en # irq'.cur => ~hw'.intr_status
      BY <1>a, <1>h, <2>2, <3>1, ListenQuiet
    <3>4. tail'.pc = next /\ tail'.modeset = tail.modeset /\ tail'.was_active = tail.was_active
      BY <1>a, <3>1, GotoFields
    <3> QED BY <1>5, <1>q, <2>1, <3>2, <3>3, <3>4
  <2>4. CASE ~crtc.vblank_on
    <3>1. Goto(AfterWait(pc)) /\ hw' = hw /\ irq' = irq
      BY <1>5, <2>4 DEF VblankGet
    <3>2. /\ tail'.pc = AfterWait(pc) /\ tail'.modeset = tail.modeset
          /\ tail'.was_active = tail.was_active
      BY <1>a, <3>1, GotoFields
    <3>3. \/ pc = "get0" /\ tail'.pc = AfterWait0
          \/ pc = "get" /\ tail'.pc = "cleanup"
      BY <1>5, <3>2 DEF AfterWait
    <3> QED BY <1>h, <1>q, <2>1, <3>1, <3>2, <3>3 DEF InFlush
  <2> QED BY <2>3, <2>4
<1>6. ASSUME NEW pc \in Waits, WaitFlush(pc)
      PROVE  FlipInv'
  <2>1. /\ UNCHANGED <<n, cs, irq, hw>> /\ tail.pc = pc /\ Goto(AfterWait(pc))
        /\ crtc'.event = crtc.event /\ crtc'.pending = crtc.pending
    BY <1>6, <1>a DEF WaitFlush, At
  <2>2. /\ tail'.pc = AfterWait(pc) /\ tail'.modeset = tail.modeset
        /\ tail'.was_active = tail.was_active
    BY <1>a, <2>1, GotoFields
  <2>3. \/ pc = "wait0" /\ tail'.pc = AfterWait0
        \/ pc = "wait" /\ tail'.pc = "cleanup"
    BY <1>6, <2>2 DEF AfterWait, Waits
  <2> QED BY <1>h, <1>q, <2>1, <2>2, <2>3 DEF InFlush
<1>7. CASE IrqWait \/ WaitTimesOut \/ EngineStart
  <2>1. PICK i \in IrqState, h \in HwState :
          Listen(i, h) /\ i.cur = irq.cur /\ h.intr_status = hw.intr_status
    <3>1. CASE IrqWait \/ WaitTimesOut
      <4>1. /\ [irq EXCEPT !.wait = TRUE] \in IrqState /\ [irq EXCEPT !.wait = TRUE].cur = irq.cur
            /\ [irq EXCEPT !.wait = FALSE] \in IrqState /\ [irq EXCEPT !.wait = FALSE].cur = irq.cur
        BY <1>a DEF IrqState
      <4> QED BY <1>a, <3>1, <4>1 DEF IrqWait, WaitTimesOut
    <3>2. CASE EngineStart
      <4> DEFINE g == [hw EXCEPT !.timing_en = TRUE,
                                 !.engine = IF hw.engine = "off" THEN "start" ELSE hw.engine]
      <4>1. g \in HwState /\ g.intr_status = hw.intr_status
        BY <1>a DEF HwState
      <4>2. Listen(irq, g)
        BY <3>2 DEF EngineStart
      <4> QED BY <1>a, <4>1, <4>2
    <3> QED BY <1>7, <3>1, <3>2
  <2>2. /\ hw'.intr_en /\ hw'.intr_status => hw.intr_en /\ hw.intr_status
        /\ hw'.intr_en # irq'.cur => ~hw'.intr_status
    BY <1>a, <1>h, <2>1, ListenQuiet
  <2>3. /\ UNCHANGED <<n, cs, crtc>>
        /\ \/ tail.pc = "encwait" /\ Goto("vsync")
           \/ tail.pc = "vsync" /\ Goto("crtcoff")
           \/ tail.pc = "timing" /\ Goto("enable")
    BY <1>7 DEF IrqWait, WaitTimesOut, EngineStart, At
  <2>4. /\ tail'.modeset = tail.modeset /\ tail'.was_active = tail.was_active
        /\ tail'.pc = "vsync" \/ tail'.pc = "crtcoff" \/ tail'.pc = "enable"
    BY <1>a, <2>3, GotoFields
  <2> QED BY <1>a, <2>2, <2>3, <2>4, GotoFields DEF FlipInv
<1>19. CASE EngineStop \/ EncoderDisable
  <2>1. /\ UNCHANGED <<n, cs, crtc, irq>>
        /\ hw'.intr_en = hw.intr_en /\ hw'.intr_status = hw.intr_status
        /\ \/ tail.pc = "encoff" /\ Goto("encflush")
           \/ tail.pc = "encflush" /\ Goto("encwait")
    BY <1>19, <1>a DEF EngineStop, EncoderDisable, Write, At, HwState
  <2>2. /\ tail'.modeset = tail.modeset /\ tail'.was_active = tail.was_active
        /\ tail'.pc = "encflush" \/ tail'.pc = "encwait"
    BY <1>a, <2>1, GotoFields
  <2> QED BY <1>h, <2>1, <2>2 DEF FlipInv
<1>8. CASE EncoderDisabled \/ CrtcEnable \/ Cleanup
  <2>1. /\ UNCHANGED <<n, cs, hw, irq>>
        /\ crtc'.event = crtc.event /\ crtc'.pending = crtc.pending
        /\ \/ tail.pc = "vsync" /\ Goto("crtcoff")
           \/ tail.pc = "crtcon" /\ Goto("timing")
           \/ tail.pc = "cleanup" /\ Goto("idle")
    BY <1>8, <1>a DEF EncoderDisabled, CrtcEnable, Cleanup, At
  <2>2. /\ tail'.modeset = tail.modeset /\ tail'.was_active = tail.was_active
        /\ \/ tail.pc = "vsync" /\ tail'.pc = "crtcoff"
           \/ tail.pc = "crtcon" /\ tail'.pc = "timing"
           \/ tail.pc = "cleanup" /\ tail'.pc = "idle"
    BY <1>a, <2>1, GotoFields
  <2> QED BY <1>h, <1>q, <2>1, <2>2 DEF InFlush
<1>9. CASE CrtcDisable
  <2>1. [irq EXCEPT !.mask = FALSE] \in IrqState /\ [irq EXCEPT !.mask = FALSE].cur = irq.cur
    BY <1>a DEF IrqState
  <2>2. /\ Listen([irq EXCEPT !.mask = FALSE], hw) /\ Goto("planes") /\ tail.pc = "crtcoff"
        /\ cs'.enable = cs.enable /\ cs'.active = cs.active /\ cs'.fb = cs.fb
        /\ cs.active => cs'.event = cs.event
        /\ crtc'.event = crtc.event /\ crtc'.pending = crtc.pending /\ n' = n
    BY <1>9, <1>a DEF CrtcDisable, At, CrtcState, SendsAtDisable
  <2>3. hw'.intr_en # irq'.cur => ~hw'.intr_status
    BY <1>a, <1>h, <2>1, <2>2, ListenQuiet
  <2>4. tail'.pc = "planes" /\ tail'.modeset = tail.modeset /\ tail'.was_active = tail.was_active
    BY <1>a, <2>2, GotoFields
  <2>5. tail.modeset
    BY <2>2 DEF ControlInv
  <2> QED BY <2>2, <2>3, <2>4, <2>5 DEF FlipInv
(* Steps that draw or flush, and are not beside an interrupt.              *)
<1>w. ASSUME n' = n, cs'.active = cs.active, cs'.enable = cs.enable, cs'.fb = cs.fb,
             crtc'.pending = crtc.pending, irq' = irq,
             hw'.intr_en = hw.intr_en, hw'.intr_status = hw.intr_status,
             ~(hw.intr_en /\ hw.intr_status),
             tail'.modeset = tail.modeset, tail'.was_active = tail.was_active,
             \/ /\ tail.pc = "planes" /\ tail'.pc = "take"
                /\ cs'.event = cs.event
             \/ /\ tail.pc = "take" /\ tail'.pc = "blend"
                /\ crtc'.event = cs.event
             \/ /\ (tail.pc = "blend" /\ tail'.pc = "flushL") \/ (tail.pc = "flushL" /\ tail'.pc = "pend")
                /\ crtc'.event = crtc.event
             \/ /\ tail.pc = "enable" /\ tail'.pc = "get"
                /\ crtc'.event = crtc.event
      PROVE  FlipInv'
  BY <1>w, <1>h DEF FlipInv
<1>10. CASE Planes \/ BlendSetup
  <2>1. /\ UNCHANGED <<n, cs, crtc, irq>> /\ ~(hw.intr_en /\ hw.intr_status)
        /\ hw'.intr_en = hw.intr_en /\ hw'.intr_status = hw.intr_status
        /\ \/ tail.pc = "planes" /\ Goto("take")
           \/ tail.pc = "blend" /\ Goto("flushL")
    BY <1>10, <1>a DEF Planes, BlendSetup, Program, At, HwState, OneHalf
  <2>2. /\ tail'.modeset = tail.modeset /\ tail'.was_active = tail.was_active
        /\ \/ tail.pc = "planes" /\ tail'.pc = "take"
           \/ tail.pc = "blend" /\ tail'.pc = "flushL"
    BY <1>a, <2>1, GotoFields
  <2>3. /\ n' = n /\ irq' = irq /\ cs' = cs /\ crtc' = crtc
        /\ ~(hw.intr_en /\ hw.intr_status)
        /\ hw'.intr_en = hw.intr_en /\ hw'.intr_status = hw.intr_status
    BY <2>1
  <2>4. CASE tail.pc = "planes" /\ tail'.pc = "take"
    BY <2>2, <2>3, <2>4, <1>h DEF FlipInv
  <2>5. CASE tail.pc = "blend" /\ tail'.pc = "flushL"
    BY <2>2, <2>3, <2>5, <1>h DEF FlipInv
  <2> QED BY <2>2, <2>4, <2>5
<1>11. CASE TakeEvent
  <2>1. /\ UNCHANGED <<n, hw, irq>> /\ ~(hw.intr_en /\ hw.intr_status)
        /\ tail.pc = "take" /\ Goto("blend")
        /\ cs'.enable = cs.enable /\ cs'.active = cs.active /\ cs'.fb = cs.fb
        /\ crtc'.event = cs.event /\ crtc'.pending = crtc.pending
    BY <1>11, <1>a DEF TakeEvent, At, CrtcState, OneHalf
  <2> QED BY <1>a, <1>w, <2>1, GotoFields
<1>12. CASE FlushLeft
  <2>1. /\ UNCHANGED <<n, irq>> /\ ~(hw.intr_en /\ hw.intr_status)
        /\ tail.pc = "flushL" /\ tail'.pc = "pend"
        /\ tail'.modeset = tail.modeset /\ tail'.was_active = tail.was_active
        /\ cs'.enable = cs.enable /\ cs'.active = cs.active /\ cs'.fb = cs.fb
        /\ crtc'.event = crtc.event /\ crtc'.pending = crtc.pending
        /\ hw'.intr_en = hw.intr_en /\ hw'.intr_status = hw.intr_status
    BY <1>12, <1>a DEF FlushLeft, Write, At, CrtcState, HwState, OneHalf
  <2> QED BY <1>w, <2>1
<1>13. CASE EncoderEnable
  <2>1. /\ UNCHANGED <<n, cs, crtc, irq>> /\ ~(hw.intr_en /\ hw.intr_status)
        /\ tail.pc = "enable" /\ Goto("get")
        /\ hw'.intr_en = hw.intr_en /\ hw'.intr_status = hw.intr_status
    BY <1>13, <1>a DEF EncoderEnable, Write, At, HwState, OneHalf
  <2> QED BY <1>a, <1>w, <2>1, GotoFields
<1>14. CASE FlushRight
  BY <1>14 DEF FlushRight, At, ControlInv
<1>15. CASE RequestPending
  <2>1. [irq EXCEPT !.vblank = TRUE] \in IrqState /\ [irq EXCEPT !.vblank = TRUE].cur = irq.cur
    BY <1>a DEF IrqState
  <2>2. /\ UNCHANGED <<n, cs>> /\ crtc'.event = crtc.event
        /\ tail.pc = "pend" /\ ~(hw.intr_en /\ hw.intr_status)
        /\ \/ Starts /\ Goto("crtcon")
           \/ ~Starts /\ Goto("get")
    BY <1>15, <1>a DEF RequestPending, At, OneHalf
  <2>3. Listen([irq EXCEPT !.vblank = TRUE], hw) \/ UNCHANGED <<irq, hw>>
    BY <1>15 DEF RequestPending
  <2>4. /\ ~(hw'.intr_en /\ hw'.intr_status)
        /\ hw'.intr_en # irq'.cur => ~hw'.intr_status
    <3>1. CASE Listen([irq EXCEPT !.vblank = TRUE], hw)
      BY <1>a, <1>h, <2>1, <2>2, <3>1, ListenQuiet
    <3>2. CASE UNCHANGED <<irq, hw>>
      BY <1>h, <2>2, <3>2
    <3> QED BY <2>3, <3>1, <3>2
  <2>5. /\ tail'.modeset = tail.modeset /\ tail'.was_active = tail.was_active
        /\ \/ Starts /\ tail'.pc = "crtcon"
           \/ ~Starts /\ tail'.pc = "get"
    BY <1>a, <2>2, GotoFields
  <2> QED BY <2>2, <2>4, <2>5 DEF FlipInv
<1>16. CASE Irq
  <2> DEFINE i == [irq EXCEPT !.vblank = FALSE, !.wait = FALSE]
             g == [hw EXCEPT !.intr_status = FALSE]
             h == Unused(g)
  <2>1. i \in IrqState /\ g \in HwState
    BY <1>a DEF IrqState, HwState
  <2>2. h \in HwState
    BY <1>a, <2>1, UnusedTypes
  <2>3. /\ UNCHANGED <<n, cs, tail>> /\ Listen(i, h) /\ hw.intr_en /\ hw.intr_status
        /\ \/ crtc' = crtc
           \/ ~crtc'.pending
        /\ crtc.pending \/ crtc'.event = crtc.event
    BY <1>16, <1>a DEF Irq, Completed
  <2>4. ~h.intr_status
    <3>1. ~g.intr_status
      BY <1>a DEF HwState
    <3> HIDE DEF g
    <3> QED BY <2>1, <3>1 DEF Unused, HwState
  <2> HIDE DEF i, g, h
  <2>5. ~hw'.intr_status
    BY <2>1, <2>2, <2>3, <2>4, ListenFields
  <2>6. tail.pc \in Taken /\ cs.active => crtc'.event = crtc.event
    BY <2>3 DEF FlipInv
  <2> QED BY <2>3, <2>5, <2>6 DEF FlipInv
<1>17. CASE Vsync
  <2>1. /\ UNCHANGED <<n, cs, tail, crtc, irq>> /\ hw.engine # "off"
        /\ hw'.flush["L"] = {} /\ hw'.intr_en = hw.intr_en
    BY <1>17, <1>a DEF Vsync, HwState
  <2>2. InFlush' = {}
    BY <2>1 DEF InFlush
  <2>3. ~(tail.pc \in Taken /\ Starts)
    BY <2>1 DEF PicInv, ScreenInv, DarkPhase
  <2>4. hw'.intr_en = irq'.cur
    BY <2>1 DEF IntrInv
  <2> QED BY <2>1, <2>2, <2>3, <2>4 DEF FlipInv
<1>18. CASE PowerCollapse
  <2>1. /\ UNCHANGED <<n, cs, tail, crtc, irq>> /\ tail.pc = "idle" /\ ~hw'.intr_status
    BY <1>18 DEF PowerCollapse, PoweredOn
  <2> QED BY <2>1 DEF FlipInv
<1> QED
  BY <1>0, <1>1, <1>2, <1>3, <1>4, <1>5, <1>6, <1>7, <1>8, <1>9, <1>10, <1>11, <1>12, <1>13,
     <1>14, <1>15, <1>16, <1>17, <1>18, <1>19 DEF Next, Tail

(* An event that is sent is that of a frame on the screen.                 *)
LEMMA SentIsShown ==
  ASSUME OneHalf, IInv, ControlInv, IntrInv, PicInv, FlipInv, Next,
         sent' # sent, sent' = n, cs.active, ~tail.modeset
  PROVE  Flipped(n)
<1> USE DEF Before, Shut, Draw, Start, Plain, Starts, Stopping, BeforeT, Taken
<1>a. TypeOK /\ n \in Nat /\ sent \in Nat /\ irq \in IrqState /\ crtc.event \in Nat /\ tail.pc \in Pcs
  BY CrtcAssumption DEF IInv, TypeOK, Commits
<1>1. CASE Irq
  <2>1. /\ irq.vblank /\ crtc.pending /\ crtc.event # 0 /\ crtc.event = n
        /\ hw.intr_en /\ hw.intr_status
    BY <1>1 DEF Irq
  <2>2. tail.pc \notin BeforeTake
    BY <2>1 DEF IInv, Untaken
  <2>3. tail.pc \notin Taken /\ tail.pc \notin Start /\ tail.pc # "flushR"
    BY <2>1 DEF FlipInv, ControlInv
  <2>4. tail.pc \in {"get", "wait", "cleanup", "idle"}
    BY <1>a, <2>2, <2>3 DEF Pcs, Waits, BeforeTake, BeforeOff, Shut
  <2>5. Shows(cs.fb)
    <3>1. CASE tail.pc \in {"cleanup", "idle"}
      BY <3>1 DEF PicInv, ScreenInv
    <3>2. CASE tail.pc \in {"get", "wait"}
      <4>1. InFlush = {}
        BY <2>1, <3>2 DEF FlipInv
      <4>2. InFlush # Blocks
        BY <4>1 DEF Blocks
      <4> QED BY <3>2, <4>2 DEF PicInv, ScreenInv
    <3> QED BY <2>4, <3>1, <3>2
  <2>6. cs.fb = n
    BY DEF FlipInv, ControlInv
  <2> QED BY <2>5, <2>6 DEF Shows, Flipped, OneHalf, Blocks
<1>2. CASE CrtcDisable
  BY <1>2 DEF CrtcDisable, SendsAtDisable
<1>3. CASE Swap
  BY <1>3, <1>a DEF Swap
<1>4. CASE ~Irq /\ ~CrtcDisable /\ ~Swap
  <2>1. sent' = sent
    BY <1>4 DEF Next, Tail, Check, Discard, Deps, VblankGet, WaitFlush, EngineStop,
                EncoderDisable, IrqWait, EncoderDisabled, WaitTimesOut, Planes, TakeEvent, BlendSetup, FlushLeft, FlushRight,
                RequestPending, CrtcEnable, EngineStart, EncoderEnable, Cleanup, Vsync,
                DisableVblank, PowerCollapse
  <2> QED BY <2>1
<1> QED BY <1>1, <1>2, <1>3, <1>4

(* Of one half, the event of a page flip is sent only when its frame was   *)
(* taken over by the hardware: no interrupt from before the flush answers  *)
(* it, for any number of commits (crtc_flush_all, mdp5_crtc_vblank_irq).     *)
THEOREM FlipsCorrect ==
  ASSUME OneHalf
  PROVE  Spec => FlipShown
<1> DEFINE Inv == IInv /\ ControlInv /\ IntrInv /\ PicInv /\ FlipInv
           Told == sent' # sent /\ sent' = n /\ cs.active /\ ~tail.modeset => Flipped(n)
<1>1. Init => Inv
  BY InitInv, InitControl, InitIntr, InitPic, InitFlip
<1>2. Inv /\ [Next]_vars => Inv'
  <2> SUFFICES ASSUME Inv, [Next]_vars PROVE Inv'
    OBVIOUS
  <2>1. IInv'
    BY InvStep
  <2>2. TypeOK /\ TypeOK'
    BY <2>1 DEF IInv
  <2> QED BY <2>1, <2>2, ControlStep, IntrStep, PicStep, FlipStep
<1>3. Inv /\ [Next]_vars => [Told]_vars
  BY SentIsShown
<1> HIDE DEF Inv
<1> QED BY <1>1, <1>2, <1>3, PTL DEF Spec, FlipShown
==============================================================================
