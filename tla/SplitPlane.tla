------------------------------- MODULE SplitPlane -------------------------------
(***************************************************************************)
(* Planes on a split display: one CRTC whose left and right half are two   *)
(* mixers, each with a CTL of its own (mdp5_plane.c, mdp5_crtc.c).  A plane *)
(* across the seam is shown by two hardware pipes.  Three places decide on *)
(* their own which half a pipe belongs to: mdp5_plane_mode_set() when it   *)
(* programs the pipes, blend_setup() when it stages them on the mixers, and *)
(* mdp5_plane_get_flush_split() when the CTLs are told to latch them.      *)
(*                                                                         *)
(* Only columns matter at the seam, so a plane is a row of columns.  Which *)
(* pipes a check is given is left open (Mdp5Resources has that), and so is *)
(* the order of the layers.                                                *)
(***************************************************************************)
EXTENDS Integers, FiniteSets

CONSTANTS
  HDisplay,      \* columns of the mode
  Planes, Pipes,
  NoPipe,
  Requests,      \* what may be asked of a plane
  VsyncBetween   \* a vsync may fall between the FLUSH writes of the two CTLs

Request == [crtc_x : Int, crtc_w : Nat \ {0}, src_x : Nat, src_w : Nat \ {0}]

ASSUME SplitAssumption ==
  /\ HDisplay \in Nat \ {0, 1}
  /\ Planes # {}
  /\ NoPipe \notin Pipes
  /\ Requests \subseteq Request
  /\ VsyncBetween \in BOOLEAN

VARIABLES
  planes,   \* committed state of each plane
  old,      \* the state before, which the tail still has
  chk,      \* the planes of the atomic state being checked
  visited,  \* planes checked already
  tail,     \* step of the commit tail
  regs,     \* pipe registers as written
  layers,   \* the layer registers of each half's CTL as written: pipes staged
  flush,    \* FLUSH of each half's CTL
  live      \* what the last vsync latched: registers and layers

vars == <<planes, old, chk, visited, tail, regs, layers, flush, live>>

Halves == {"L", "R"}

(* A plane without framebuffer is as one outside the screen.               *)
Disabled == [crtc_x |-> HDisplay, crtc_w |-> 1, src_x |-> 0, src_w |-> 1]

PlaneState == [req : Requests \cup {Disabled}, hwpipe : Pipes \cup {NoPipe},
               r_hwpipe : Pipes \cup {NoPipe}]

-------------------------------------------------------------------------------
(* Geometry.                                                               *)

(* mdp5_crtc_state_split_width()                                           *)
mixer_width == HDisplay \div 2

(* drm_atomic_helper_check_plane_state(): the part on the screen, with the *)
(* integer part of its source.                                             *)
Left(r)    == IF r.crtc_x < 0 THEN 0 ELSE r.crtc_x
Right(r)   == IF r.crtc_x + r.crtc_w > HDisplay THEN HDisplay ELSE r.crtc_x + r.crtc_w
Visible(r) == Left(r) < Right(r)

Clipped(r) ==
  [crtc_x |-> Left(r), crtc_w |-> Right(r) - Left(r),
   src_x  |-> r.src_x + ((Left(r) - r.crtc_x) * r.src_w) \div r.crtc_w,
   src_w  |-> ((Right(r) - Left(r)) * r.src_w) \div r.crtc_w]

(* Mutant: a plane that only reaches the seam counts as crossing it.       *)
need_right_hwpipe_Touches(r) ==
  Visible(r) /\ r.crtc_x < mixer_width /\ r.crtc_x + r.crtc_w >= mixer_width

(* mdp5_plane_atomic_check_with_state(): does the plane cross the seam?    *)
need_right_hwpipe(r) ==
  Visible(r) /\ r.crtc_x < mixer_width /\ r.crtc_x + r.crtc_w > mixer_width

(* The columns of a mixer a pipe covers, and where its source begins.  The *)
(* scaler's step is that of the left pipe.                                 *)
Regs == [plane : Planes, src_x : Int, crtc_x : Int, crtc_w : Int, step : Int \X Int]

PipeRegs(p, src_x, crtc_x, crtc_w, step) ==
  [plane |-> p, src_x |-> src_x, crtc_x |-> crtc_x, crtc_w |-> crtc_w, step |-> step]

(* mdp5_plane_mode_set(): the cut at the seam.                             *)
CutWidth(d) == mixer_width - d.crtc_x
CutSrc(d)   == (d.src_w * CutWidth(d)) \div d.crtc_w

LeftRegs(p, d) == PipeRegs(p, d.src_x, d.crtc_x, CutWidth(d), <<CutSrc(d), CutWidth(d)>>)

(* Mutant: the right half starts with the source of the left one.          *)
RightRegs_SameSource(p, d) ==
  PipeRegs(p, d.src_x, 0, d.crtc_w - CutWidth(d), <<CutSrc(d), CutWidth(d)>>)

RightRegs(p, d) ==
  PipeRegs(p, d.src_x + CutSrc(d), 0, d.crtc_w - CutWidth(d), <<CutSrc(d), CutWidth(d)>>)

(* A plane with one pipe: on the right mixer x counts from the seam.       *)
WholeRegs(p, d) ==
  PipeRegs(p, d.src_x, IF d.crtc_x >= mixer_width THEN d.crtc_x - mixer_width ELSE d.crtc_x,
           d.crtc_w, <<d.src_w, d.crtc_w>>)

(* calc_phase_step() refuses a pipe that has no source or is scaled down   *)
(* too far, and then none of the plane's pipes is written.                 *)
StepOK(step) == step[1] # 0 /\ step[1] <= 32 * step[2]

-------------------------------------------------------------------------------
(* Check and swap.                                                         *)

PipesOf(s) == {s.hwpipe, s.r_hwpipe} \ {NoPipe}
InUse(st)  == UNION {PipesOf(st[p]) : p \in Planes}

WithPipes(r, x, y) == [req |-> r, hwpipe |-> x, r_hwpipe |-> y]
NoPipes(r)         == WithPipes(r, NoPipe, NoPipe)

(* mdp5_plane_atomic_check_with_state() of plane p.  The pipes are kept    *)
(* when they still do; caps and blocks may force new ones, which were free *)
(* before the commit and still are.                                        *)
CheckPlane(p, r) ==
  LET s == chk[p]
      free == Pipes \ (InUse(planes) \cup InUse(chk))
  IN  /\ tail = "idle"
      /\ p \notin visited
      /\ \/ ~Visible(r) /\ chk' = [chk EXCEPT ![p] = NoPipes(r)]
         \/ /\ Visible(r) /\ s.hwpipe # NoPipe
            /\ need_right_hwpipe(r) <=> s.r_hwpipe # NoPipe
            /\ chk' = [chk EXCEPT ![p] = WithPipes(r, s.hwpipe, s.r_hwpipe)]
         \/ /\ Visible(r)
            /\ \E x \in free, y \in (free \cup {NoPipe}) :
                 /\ y # x
                 /\ need_right_hwpipe(r) <=> y # NoPipe
                 /\ chk' = [chk EXCEPT ![p] = WithPipes(r, x, y)]
      /\ visited' = visited \cup {p}
      /\ UNCHANGED <<planes, old, tail, regs, layers, flush, live>>

(* The check fails, or was a test only: its state is dropped.              *)
Drop ==
  /\ visited # {}
  /\ chk' = planes
  /\ visited' = {}
  /\ UNCHANGED <<planes, old, tail, regs, layers, flush, live>>

(* drm_atomic_helper_swap_state()                                          *)
Swap ==
  /\ visited # {}
  /\ planes' = chk
  /\ old' = planes
  /\ visited' = {}
  /\ tail' = "update"
  /\ UNCHANGED <<chk, regs, layers, flush, live>>

-------------------------------------------------------------------------------
(* The commit tail.                                                        *)

(* mdp5_plane_mode_set(): the registers of the pipes of plane p, as far as *)
(* they are written.                                                       *)
ModeSet(p, s) ==
  LET d == Clipped(s.req)
  IN  IF s.r_hwpipe # NoPipe
      THEN IF StepOK(LeftRegs(p, d).step)
           THEN {<<s.hwpipe, LeftRegs(p, d)>>, <<s.r_hwpipe, RightRegs(p, d)>>} ELSE {}
      ELSE IF StepOK(WholeRegs(p, d).step) THEN {<<s.hwpipe, WholeRegs(p, d)>>} ELSE {}

(* mdp5_plane_atomic_update() of every plane.                              *)
Update ==
  LET written == UNION {ModeSet(p, planes[p]) : p \in {q \in Planes : Visible(planes[q].req)}}
  IN  /\ tail = "update"
      /\ regs' = [x \in Pipes |-> IF \E w \in written : w[1] = x
                                  THEN (CHOOSE w \in written : w[1] = x)[2] ELSE regs[x]]
      /\ tail' = "blend"
      /\ UNCHANGED <<planes, old, chk, visited, layers, flush, live>>

(* blend_setup(): the pipe of s staged on the mixer of half h.             *)
Staged(s, h) ==
  IF ~Visible(s.req) THEN {}
  ELSE IF h = "L" THEN IF s.req.crtc_x < mixer_width THEN {s.hwpipe} ELSE {}
  ELSE IF s.req.crtc_x + s.req.crtc_w <= mixer_width THEN {}
  ELSE IF s.r_hwpipe # NoPipe THEN {s.r_hwpipe} ELSE {s.hwpipe}

BlendSetup ==
  /\ tail = "blend"
  /\ layers' = [h \in Halves |-> UNION {Staged(planes[p], h) : p \in Planes}]
  /\ tail' = "flushL"
  /\ UNCHANGED <<planes, old, chk, visited, regs, flush, live>>

(* mdp5_plane_get_flush_split(), as crtc_flush_all() asks visible planes.  *)
mdp5_plane_get_flush_split(s, h) ==
  IF ~Visible(s.req) THEN {}
  ELSE IF s.r_hwpipe # NoPipe THEN (IF h = "L" THEN {s.hwpipe} ELSE {s.r_hwpipe})
  ELSE IF (s.req.crtc_x >= mixer_width) = (h = "R") THEN {s.hwpipe} ELSE {}

(* crtc_flush(): mdp5_ctl_commit() of one half, its mixer and layers too.  *)
FlushMask(h) == {"LM"} \cup UNION {mdp5_plane_get_flush_split(planes[p], h) : p \in Planes}

FlushHalf(h, from, to) ==
  /\ tail = from
  /\ flush' = [flush EXCEPT ![h] = @ \cup FlushMask(h)]
  /\ tail' = to
  /\ UNCHANGED <<planes, old, chk, visited, regs, layers, live>>

FlushLeft  == FlushHalf("L", "flushL", "flushR")
FlushRight == FlushHalf("R", "flushR", "wait")

(* mdp5_crtc_wait_for_flush_done() looks at the left CTL.  The old state   *)
(* goes, and its framebuffers with it.                                     *)
WaitFlush ==
  /\ tail = "wait"
  /\ flush["L"] = {}
  /\ tail' = "idle"
  /\ old' = planes
  /\ UNCHANGED <<planes, chk, visited, regs, layers, flush, live>>

(* The hardware latches what was flushed.  Both engines run in step.       *)
Vsync ==
  /\ VsyncBetween \/ tail # "flushR"
  /\ \E h \in Halves : flush[h] # {}
  /\ live' = [regs   |-> [x \in Pipes |-> IF \E h \in Halves : x \in flush[h]
                                          THEN regs[x] ELSE live.regs[x]],
              layers |-> [h \in Halves |-> IF "LM" \in flush[h]
                                           THEN layers[h] ELSE live.layers[h]]]
  /\ flush' = [h \in Halves |-> {}]
  /\ UNCHANGED <<planes, old, chk, visited, tail, regs, layers>>

Blank(p) == PipeRegs(p, 0, 0, 0, <<1, 1>>)

Init ==
  /\ planes = [p \in Planes |-> NoPipes(Disabled)]
  /\ old = planes
  /\ chk = planes
  /\ visited = {}
  /\ tail = "idle"
  /\ regs = [x \in Pipes |-> Blank(CHOOSE p \in Planes : TRUE)]
  /\ layers = [h \in Halves |-> {}]
  /\ flush = [h \in Halves |-> {}]
  /\ live = [regs |-> regs, layers |-> layers]

Next ==
  \/ \E p \in Planes, r \in Requests \cup {Disabled} : CheckPlane(p, r)
  \/ Drop \/ Swap \/ Update \/ BlendSetup \/ FlushLeft \/ FlushRight
  \/ WaitFlush \/ Vsync

Spec == Init /\ [][Next]_vars

-------------------------------------------------------------------------------
(* Properties.                                                             *)

(* Every variable has its type.                                            *)
TypeOK ==
  /\ {planes, old, chk} \subseteq [Planes -> PlaneState]
  /\ visited \subseteq Planes
  /\ tail \in {"idle", "update", "blend", "flushL", "flushR", "wait"}
  /\ regs \in [Pipes -> Regs]
  /\ layers \in [Halves -> SUBSET Pipes]
  /\ flush \in [Halves -> SUBSET (Pipes \cup {"LM"})]
  /\ live \in [regs : [Pipes -> Regs], layers : [Halves -> SUBSET Pipes]]

(* What a frame should look like: on each column the planes that cover it, *)
(* each with the column of its framebuffer that belongs there.             *)
SourceAt(r, c) == r.src_x + ((c - r.crtc_x) * r.src_w) \div r.crtc_w

Picture(st) ==
  [c \in 0 .. 2 * mixer_width - 1 |->
     {<<p, SourceAt(st[p].req, c)>> : p \in {q \in Planes :
        st[q].req.crtc_x <= c /\ c < st[q].req.crtc_x + st[q].req.crtc_w}}]

(* What the pipes fetch for the mixer of each half.                        *)
HalfOf(c) == IF c < mixer_width THEN "L" ELSE "R"
Seam(h)   == IF h = "L" THEN 0 ELSE mixer_width

Covers(g, i)  == g.crtc_x <= i /\ i < g.crtc_x + g.crtc_w
Fetched(g, i) == g.src_x + ((i - g.crtc_x) * g.step[1]) \div g.step[2]

Screen ==
  [c \in 0 .. 2 * mixer_width - 1 |->
     LET h == HalfOf(c)
         i == c - Seam(h)
     IN  {<<live.regs[x].plane, Fetched(live.regs[x], i)>> :
            x \in {y \in live.layers[h] : Covers(live.regs[y], i)}}]

(* The screen shows the frame of one commit at any time, the new one or    *)
(* the one before, and never a mixture: the pipes on both sides of the     *)
(* seam are programmed, staged and latched for the same picture, whole     *)
(* planes and cut ones, also when a plane or a pipe changes sides          *)
(* (mdp5_plane_mode_set, blend_setup, crtc_flush_all).                     *)
OnePicture == Screen \in {Picture(planes), Picture(old)}

(* The three places agree on the half a pipe belongs to: a visible plane's *)
(* pipe is flushed by the CTL of the half it is staged on, no pipe is      *)
(* staged on both, and the columns it is programmed for are those of the   *)
(* plane that are on that half.                                            *)
Columns(h, g) == {c \in 0 .. HDisplay - 1 : Covers(g, c - Seam(h))}

Programmed(p, s, h) ==
  IF s.r_hwpipe = NoPipe THEN WholeRegs(p, Clipped(s.req))
  ELSE IF h = "L" THEN LeftRegs(p, Clipped(s.req)) ELSE RightRegs(p, Clipped(s.req))

Agrees(p, s) ==
  /\ Staged(s, "L") \cap Staged(s, "R") = {}
  /\ \A h \in Halves :
       /\ Staged(s, h) = mdp5_plane_get_flush_split(s, h)
       /\ {c \in 0 .. HDisplay - 1 : Left(s.req) <= c /\ c < Right(s.req) /\ HalfOf(c) = h}
            = IF Staged(s, h) = {} THEN {} ELSE Columns(h, Programmed(p, s, h))

SidesAgree == \A p \in Planes : Agrees(p, planes[p])

==============================================================================
