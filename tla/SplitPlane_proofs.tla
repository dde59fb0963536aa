---------------------------- MODULE SplitPlane_proofs ----------------------------
(***************************************************************************)
(* Theorems about SplitPlane, for screens, planes and requests of any size. *)
(***************************************************************************)
EXTENDS SplitPlane, TLAPS

(* What a check leaves in a plane's state: a visible plane has a pipe, and *)
(* a second one exactly when it crosses the seam; another has none.        *)
Fits(s) ==
  IF Visible(s.req)
  THEN /\ s.hwpipe # NoPipe
       /\ s.r_hwpipe # s.hwpipe
       /\ need_right_hwpipe(s.req) <=> s.r_hwpipe # NoPipe
  ELSE s.hwpipe = NoPipe /\ s.r_hwpipe = NoPipe

PipesFit == \A p \in Planes : Fits(planes[p]) /\ Fits(old[p]) /\ Fits(chk[p])

-------------------------------------------------------------------------------
(* Geometry.                                                               *)

(* The width of a half is at least one column.                             *)
LEMMA SeamType == mixer_width \in Nat \ {0} /\ 2 * mixer_width <= HDisplay
  BY SplitAssumption DEF mixer_width

(* A plane that is turned off asks for nothing, in the form of a request.  *)
LEMMA RequestType ==
  /\ Requests \cup {Disabled} \subseteq Request
  /\ ~Visible(Disabled)
  BY SplitAssumption DEF Request, Disabled, Visible, Left, Right

(* The part of a visible plane on the screen.                              *)
LEMMA ClippedType ==
  ASSUME NEW r \in Request, Visible(r)
  PROVE  Clipped(r) \in [crtc_x : Nat, crtc_w : Nat \ {0}, src_x : Int, src_w : Int]
  <1>1. Left(r) \in Nat /\ Right(r) - Left(r) \in Nat \ {0}
    BY SplitAssumption DEF Request, Visible, Left, Right
  <1>2. r.crtc_w \in Nat \ {0} /\ r.crtc_x \in Int /\ r.src_x \in Nat /\ r.src_w \in Nat
    BY DEF Request
  <1>3. (Left(r) - r.crtc_x) * r.src_w \in Int /\ (Right(r) - Left(r)) * r.src_w \in Int
    BY <1>1, <1>2
  <1>4. \A a \in Int, b \in Nat \ {0} : a \div b \in Int
    OBVIOUS
  <1> QED
    BY <1>1, <1>2, <1>3, <1>4 DEF Clipped

(* What mdp5_plane_mode_set() writes has the type of the registers.        *)
LEMMA RegsType ==
  ASSUME NEW p \in Planes, NEW r \in Request, Visible(r)
  PROVE  /\ LeftRegs(p, Clipped(r)) \in Regs
         /\ RightRegs(p, Clipped(r)) \in Regs
         /\ WholeRegs(p, Clipped(r)) \in Regs
  <1> DEFINE d == Clipped(r)
  <1>1. d \in [crtc_x : Nat, crtc_w : Nat \ {0}, src_x : Int, src_w : Int]
    BY ClippedType
  <1>2. CutWidth(d) \in Int
    BY <1>1, SeamType DEF CutWidth
  <1>3. d.src_w * CutWidth(d) \in Int
    BY <1>1, <1>2
  <1>4. \A a \in Int, b \in Nat \ {0} : a \div b \in Int
    OBVIOUS
  <1>5. CutSrc(d) \in Int
    BY <1>1, <1>3, <1>4 DEF CutSrc
  <1> HIDE DEF d
  <1> QED
    BY <1>1, <1>2, <1>5, SeamType DEF LeftRegs, RightRegs, WholeRegs, PipeRegs, Regs, d

(* The three places agree for every plane whose pipes fit its position:    *)
(* one with two pipes, one on the left mixer, one on the right.            *)
LEMMA SidesOfPlane ==
  ASSUME NEW p \in Planes, NEW s \in PlaneState, Fits(s)
  PROVE  Agrees(p, s)
  <1> DEFINE On(h) == {c \in 0 .. HDisplay - 1 :
                         Left(s.req) <= c /\ c < Right(s.req) /\ HalfOf(c) = h}
  <1>1. s.req \in Request
    BY RequestType DEF PlaneState
  <1>2. s.req.crtc_x \in Int /\ s.req.crtc_w \in Nat \ {0} /\ HDisplay \in Nat \ {0, 1}
    BY <1>1, SplitAssumption DEF Request
  <1>3. CASE ~Visible(s.req)
    <2>1. \A h \in Halves : Staged(s, h) = {} /\ mdp5_plane_get_flush_split(s, h) = {}
      BY <1>3 DEF Staged, mdp5_plane_get_flush_split
    <2>2. \A h \in Halves : On(h) = {}
      BY <1>2, <1>3 DEF Visible, Left, Right
    <2> QED
      BY <2>1, <2>2 DEF Agrees, Halves
  <1>4. CASE Visible(s.req) /\ s.r_hwpipe # NoPipe
    <2>1. s.req.crtc_x < mixer_width /\ s.req.crtc_x + s.req.crtc_w > mixer_width
      BY <1>4 DEF Fits, need_right_hwpipe
    <2>2. /\ Staged(s, "L") = {s.hwpipe} /\ mdp5_plane_get_flush_split(s, "L") = {s.hwpipe}
          /\ Staged(s, "R") = {s.r_hwpipe} /\ mdp5_plane_get_flush_split(s, "R") = {s.r_hwpipe}
      BY <1>2, <1>4, <2>1, SeamType DEF Staged, mdp5_plane_get_flush_split
    <2>3. On("L") = Columns("L", Programmed(p, s, "L"))
      BY <1>2, <1>4, <2>1, SeamType DEF Columns, Programmed, Covers, LeftRegs, PipeRegs,
         CutWidth, Clipped, Seam, HalfOf, Left, Right, Visible
    <2>4. On("R") = Columns("R", Programmed(p, s, "R"))
      BY <1>2, <1>4, <2>1, SeamType DEF Columns, Programmed, Covers, RightRegs, PipeRegs,
         CutWidth, Clipped, Seam, HalfOf, Left, Right, Visible
    <2> QED
      BY <1>4, <2>2, <2>3, <2>4 DEF Agrees, Halves, Fits
  <1>5. CASE Visible(s.req) /\ s.r_hwpipe = NoPipe /\ s.req.crtc_x < mixer_width
    <2>1. s.req.crtc_x + s.req.crtc_w <= mixer_width
      BY <1>2, <1>5, SeamType DEF Fits, need_right_hwpipe
    <2>2. /\ Staged(s, "L") = {s.hwpipe} /\ mdp5_plane_get_flush_split(s, "L") = {s.hwpipe}
          /\ Staged(s, "R") = {} /\ mdp5_plane_get_flush_split(s, "R") = {}
      BY <1>2, <1>5, <2>1, SeamType DEF Staged, mdp5_plane_get_flush_split
    <2>3. On("L") = Columns("L", Programmed(p, s, "L"))
      BY <1>2, <1>5, <2>1, SeamType DEF Columns, Programmed, Covers, WholeRegs, PipeRegs,
         Clipped, Seam, HalfOf, Left, Right, Visible
    <2>4. On("R") = {}
      BY <1>2, <1>5, <2>1, SeamType DEF HalfOf, Left, Right, Visible
    <2> QED
      BY <1>5, <2>2, <2>3, <2>4 DEF Agrees, Halves
  <1>6. CASE Visible(s.req) /\ s.r_hwpipe = NoPipe /\ ~(s.req.crtc_x < mixer_width)
    <2>1. s.req.crtc_x >= mixer_width /\ s.req.crtc_x + s.req.crtc_w > mixer_width
      BY <1>2, <1>6, SeamType
    <2>2. /\ Staged(s, "R") = {s.hwpipe} /\ mdp5_plane_get_flush_split(s, "R") = {s.hwpipe}
          /\ Staged(s, "L") = {} /\ mdp5_plane_get_flush_split(s, "L") = {}
      BY <1>2, <1>6, <2>1, SeamType DEF Staged, mdp5_plane_get_flush_split
    <2>3. On("R") = Columns("R", Programmed(p, s, "R"))
      BY <1>2, <1>6, <2>1, SeamType DEF Columns, Programmed, Covers, WholeRegs, PipeRegs,
         Clipped, Seam, HalfOf, Left, Right, Visible
    <2>4. On("L") = {}
      BY <1>2, <1>6, <2>1, SeamType DEF HalfOf, Left, Right, Visible
    <2> QED
      BY <1>6, <2>2, <2>3, <2>4 DEF Agrees, Halves
  <1> QED
    BY <1>3, <1>4, <1>5, <1>6

(* Unscaled requests: a column of the framebuffer for a column of the      *)
(* screen.                                                                 *)
Unscaled == \A r \in Requests : r.src_w = r.crtc_w

LEMMA DivExact == \A a \in Int, b \in Nat \ {0} : (a * b) \div b = a /\ (b * a) \div b = a
  OBVIOUS

(* A pipe that does not scale fetches column by column.                    *)
LEMMA FetchedUnit ==
  ASSUME NEW g, NEW i \in Int, NEW w \in Nat \ {0},
         g.step = <<w, w>>, g.crtc_x \in Int, g.src_x \in Int
  PROVE  Fetched(g, i) = g.src_x + (i - g.crtc_x)
  <1>1. g.step[1] = w /\ g.step[2] = w
    OBVIOUS
  <1>2. i - g.crtc_x \in Int
    OBVIOUS
  <1>3. ((i - g.crtc_x) * w) \div w = i - g.crtc_x
    BY <1>2, DivExact
  <1> QED
    BY <1>1, <1>3 DEF Fetched

(* On the columns of its half, a pipe fetches what belongs there.          *)
LEMMA FetchedIsSource ==
  ASSUME Unscaled, NEW p \in Planes, NEW s \in PlaneState, Fits(s), Visible(s.req),
         NEW c \in 0 .. HDisplay - 1, Left(s.req) <= c, c < Right(s.req)
  PROVE  Fetched(Programmed(p, s, HalfOf(c)), c - Seam(HalfOf(c))) = SourceAt(s.req, c)
  <1> DEFINE r == s.req
             d == Clipped(r)
             w == Right(r) - Left(r)
             l == mixer_width - Left(r)
             x == r.src_x + (Left(r) - r.crtc_x)
  <1>1. r \in Request /\ r.src_w = r.crtc_w
    BY RequestType DEF PlaneState, Unscaled, Disabled
  <1>2. /\ r.crtc_x \in Int /\ r.crtc_w \in Nat \ {0} /\ r.src_x \in Nat
        /\ HDisplay \in Nat /\ mixer_width \in Nat \ {0}
    BY <1>1, SplitAssumption, SeamType DEF Request
  <1>3. /\ Left(r) \in Nat /\ w \in Nat \ {0} /\ l \in Int /\ c \in Int /\ x \in Int
        /\ Left(r) - r.crtc_x \in Int /\ c - r.crtc_x \in Int
    BY <1>2 DEF Visible, Left, Right
  <1>4. SourceAt(r, c) = x + (c - Left(r))
    BY <1>1, <1>2, <1>3, DivExact DEF SourceAt
  <1>5. d.crtc_x = Left(r) /\ d.crtc_w = w /\ d.src_x = x /\ d.src_w = w
    BY <1>1, <1>2, <1>3, DivExact DEF Clipped
  <1>6. CutWidth(d) = l
    BY <1>5 DEF CutWidth
  <1>7. CASE s.r_hwpipe = NoPipe
    <2>1. ~need_right_hwpipe(r)
      BY <1>7 DEF Fits
    <2>2. HalfOf(c) = IF Left(r) >= mixer_width THEN "R" ELSE "L"
      BY <1>2, <1>3, <2>1 DEF HalfOf, need_right_hwpipe, Left, Right, Visible
    <2> DEFINE g == WholeRegs(p, d)
    <2>3. g.src_x = x /\ g.crtc_x = Left(r) - Seam(HalfOf(c)) /\ g.step = <<w, w>>
      BY <1>2, <1>3, <1>5, <2>2 DEF WholeRegs, PipeRegs, Seam
    <2>4. c - Seam(HalfOf(c)) \in Int /\ g.crtc_x \in Int
      BY <1>2, <1>3, <2>3 DEF Seam
    <2>5. Programmed(p, s, HalfOf(c)) = g
      BY <1>7 DEF Programmed
    <2> HIDE DEF g, w, x, l, d
    <2>6. Fetched(g, c - Seam(HalfOf(c))) = x + (c - Left(r))
      <3>1. Fetched(g, c - Seam(HalfOf(c))) = g.src_x + ((c - Seam(HalfOf(c))) - g.crtc_x)
        BY <1>3, <2>3, <2>4, FetchedUnit
      <3> QED
        BY <1>2, <1>3, <2>3, <3>1 DEF Seam
    <2> QED
      BY <1>4, <2>5, <2>6
  <1>8. CASE s.r_hwpipe # NoPipe
    <2>1. l \in Nat \ {0}
      BY <1>2, <1>3, <1>8 DEF Fits, need_right_hwpipe, Left
    <2> DEFINE g == Programmed(p, s, HalfOf(c))
    <2> HIDE DEF w, x, l, d
    <2>2. CutSrc(d) = l
      <3>1. (w * l) \div w = l
        BY <1>3, DivExact
      <3> QED
        BY <1>5, <1>6, <3>1 DEF CutSrc
    <2>3. /\ g.step = <<l, l>>
          /\ g.src_x = IF HalfOf(c) = "L" THEN x ELSE x + l
          /\ g.crtc_x = IF HalfOf(c) = "L" THEN Left(r) ELSE 0
      BY <1>5, <1>6, <1>8, <2>2 DEF Programmed, LeftRegs, RightRegs, PipeRegs, d
    <2>4. c - Seam(HalfOf(c)) \in Int /\ g.crtc_x \in Int /\ g.src_x \in Int
      BY <1>2, <1>3, <2>1, <2>3 DEF Seam
    <2> HIDE DEF g
    <2>5. Fetched(g, c - Seam(HalfOf(c))) = g.src_x + ((c - Seam(HalfOf(c))) - g.crtc_x)
      BY <2>1, <2>3, <2>4, FetchedUnit
    <2>6. Fetched(g, c - Seam(HalfOf(c))) = x + (c - Left(r))
      BY <1>2, <1>3, <2>1, <2>3, <2>5 DEF Seam, HalfOf, l
    <2> QED
      BY <1>4, <2>6 DEF g
  <1> QED
    BY <1>7, <1>8

-------------------------------------------------------------------------------
(* The states of planes.                                                   *)

(* One check keeps the type of the states and gives the plane pipes that   *)
(* fit its position.                                                       *)
LEMMA CheckFits ==
  ASSUME TypeOK, PipesFit, NEW p \in Planes, NEW r \in Requests \cup {Disabled},
         CheckPlane(p, r)
  PROVE  chk' \in [Planes -> PlaneState] /\ \A q \in Planes : Fits(chk'[q])
  <1> DEFINE free == Pipes \ (InUse(planes) \cup InUse(chk))
  <1>0. chk \in [Planes -> PlaneState] /\ \A q \in Planes : Fits(chk[q])
    BY DEF TypeOK, PipesFit
  <1>1. ASSUME NEW x \in Pipes \cup {NoPipe}, NEW y \in Pipes \cup {NoPipe},
               Fits(WithPipes(r, x, y)), chk' = [chk EXCEPT ![p] = WithPipes(r, x, y)]
        PROVE  chk' \in [Planes -> PlaneState] /\ \A q \in Planes : Fits(chk'[q])
    <2>1. WithPipes(r, x, y) \in PlaneState
      BY DEF WithPipes, PlaneState
    <2> QED
      BY <1>0, <1>1, <2>1
  <1>2. CASE ~Visible(r) /\ chk' = [chk EXCEPT ![p] = NoPipes(r)]
    <2>1. Fits(WithPipes(r, NoPipe, NoPipe))
      BY <1>2 DEF Fits, WithPipes
    <2> QED
      BY <1>1, <1>2, <2>1 DEF NoPipes
  <1>3. CASE /\ Visible(r) /\ chk[p].hwpipe # NoPipe
             /\ need_right_hwpipe(r) <=> chk[p].r_hwpipe # NoPipe
             /\ chk' = [chk EXCEPT ![p] = WithPipes(r, chk[p].hwpipe, chk[p].r_hwpipe)]
    <2>1. chk[p].hwpipe \in Pipes \cup {NoPipe} /\ chk[p].r_hwpipe \in Pipes \cup {NoPipe}
      BY <1>0 DEF PlaneState
    <2>2. Fits(WithPipes(r, chk[p].hwpipe, chk[p].r_hwpipe))
      BY <1>0, <1>3 DEF Fits, WithPipes
    <2> QED
      BY <1>1, <1>3, <2>1, <2>2
  <1>4. CASE /\ Visible(r)
             /\ \E x \in free, y \in (free \cup {NoPipe}) :
                  /\ y # x
                  /\ need_right_hwpipe(r) <=> y # NoPipe
                  /\ chk' = [chk EXCEPT ![p] = WithPipes(r, x, y)]
    <2>1. PICK x \in free, y \in (free \cup {NoPipe}) :
                  /\ y # x
                  /\ need_right_hwpipe(r) <=> y # NoPipe
                  /\ chk' = [chk EXCEPT ![p] = WithPipes(r, x, y)]
      BY <1>4
    <2>2. x \in Pipes /\ y \in Pipes \cup {NoPipe} /\ x # NoPipe
      BY SplitAssumption
    <2>3. Fits(WithPipes(r, x, y))
      BY <1>4, <2>1, <2>2 DEF Fits, WithPipes
    <2> QED
      BY <1>1, <2>1, <2>2, <2>3
  <1> QED
    BY <1>2, <1>3, <1>4 DEF CheckPlane

-------------------------------------------------------------------------------
(* What the registers hold.                                                *)

StagedLayers(st) == [h \in Halves |-> UNION {Staged(st[p], h) : p \in Planes}]

(* The pipes of every plane of st are programmed for it.                   *)
RegsOf(st, g) ==
  \A p \in Planes, h \in Halves : \A x \in Staged(st[p], h) : g[x] = Programmed(p, st[p], h)

(* What is staged is a pipe.                                               *)
LEMMA StagedType ==
  ASSUME NEW s \in PlaneState, Fits(s), NEW h \in Halves
  PROVE  /\ Staged(s, h) \subseteq Pipes
         /\ Staged(s, h) \subseteq PipesOf(s)
         /\ mdp5_plane_get_flush_split(s, h) \subseteq Pipes
  BY DEF PlaneState, Fits, Staged, mdp5_plane_get_flush_split, PipesOf

(* Pipes programmed and staged for st show its picture.                    *)
LEMMA ScreenShows ==
  ASSUME Unscaled, NEW st \in [Planes -> PlaneState], \A p \in Planes : Fits(st[p]),
         RegsOf(st, live.regs), live.layers = StagedLayers(st)
  PROVE  Screen = Picture(st)
  <1> DEFINE Cols == 0 .. 2 * mixer_width - 1
             Shown(c) == {<<live.regs[x].plane, Fetched(live.regs[x], c - Seam(HalfOf(c)))>> :
                x \in {y \in live.layers[HalfOf(c)] : Covers(live.regs[y], c - Seam(HalfOf(c)))}}
             Wanted(c) == {<<p, SourceAt(st[p].req, c)>> : p \in {q \in Planes :
                st[q].req.crtc_x <= c /\ c < st[q].req.crtc_x + st[q].req.crtc_w}}
  <1>1. ASSUME NEW c \in Cols
        PROVE  Shown(c) = Wanted(c)
    <2> DEFINE h == HalfOf(c)
               i == c - Seam(h)
    <2>1. c \in 0 .. HDisplay - 1 /\ h \in Halves
      BY SeamType, SplitAssumption DEF HalfOf, Halves
    (* The columns of a plane on this half are those its pipe covers.      *)
    <2>2. ASSUME NEW p \in Planes
          PROVE  (st[p].req.crtc_x <= c /\ c < st[p].req.crtc_x + st[p].req.crtc_w)
                   <=> (Left(st[p].req) <= c /\ c < Right(st[p].req))
      <3>1. st[p].req \in Request
        BY RequestType DEF PlaneState
      <3> QED
        BY <2>1, <3>1, SplitAssumption DEF Request, Left, Right
    <2>3. ASSUME NEW p \in Planes, Left(st[p].req) <= c, c < Right(st[p].req)
          PROVE  /\ Visible(st[p].req)
                 /\ Staged(st[p], h) # {}
                 /\ Covers(Programmed(p, st[p], h), i)
      <3>1. Agrees(p, st[p])
        BY SidesOfPlane
      <3>2. st[p].req \in Request
        BY RequestType DEF PlaneState
      <3>3. Visible(st[p].req)
        BY <2>1, <2>3, <3>2, SplitAssumption DEF Visible, Left, Right, Request
      <3>4. c \in {e \in 0 .. HDisplay - 1 : Left(st[p].req) <= e /\ e < Right(st[p].req) /\ HalfOf(e) = h}
        BY <2>1, <2>3
      <3>5. Staged(st[p], h) # {} /\ c \in Columns(h, Programmed(p, st[p], h))
        BY <2>1, <3>1, <3>4 DEF Agrees
      <3> QED
        BY <3>3, <3>5 DEF Columns
    <2>4. ASSUME NEW p \in Planes, Staged(st[p], h) # {}, Covers(Programmed(p, st[p], h), i)
          PROVE  Left(st[p].req) <= c /\ c < Right(st[p].req)
      <3>1. Agrees(p, st[p])
        BY SidesOfPlane
      <3>2. c \in Columns(h, Programmed(p, st[p], h))
        BY <2>1, <2>4 DEF Columns
      <3>3. c \in {e \in 0 .. HDisplay - 1 : Left(st[p].req) <= e /\ e < Right(st[p].req) /\ HalfOf(e) = h}
        BY <2>1, <2>4, <3>1, <3>2 DEF Agrees
      <3> QED
        BY <3>3
    <2>5. ASSUME NEW p \in Planes, NEW x \in Staged(st[p], h), Left(st[p].req) <= c, c < Right(st[p].req)
          PROVE  /\ live.regs[x].plane = p
                 /\ Fetched(live.regs[x], i) = SourceAt(st[p].req, c)
      <3>1. live.regs[x] = Programmed(p, st[p], h)
        BY <2>1 DEF RegsOf
      <3>2. Fetched(Programmed(p, st[p], h), i) = SourceAt(st[p].req, c)
        BY <2>1, <2>3, <2>5, FetchedIsSource
      <3>3. Programmed(p, st[p], h).plane = p
        BY DEF Programmed, LeftRegs, RightRegs, WholeRegs, PipeRegs
      <3> QED
        BY <3>1, <3>2, <3>3
    <2>6. live.layers[h] = UNION {Staged(st[p], h) : p \in Planes}
      BY <2>1 DEF StagedLayers
    <2>7. ASSUME NEW e \in Shown(c)
          PROVE  e \in Wanted(c)
      <3>1. PICK x \in live.layers[h] : /\ Covers(live.regs[x], i)
                                        /\ e = <<live.regs[x].plane, Fetched(live.regs[x], i)>>
        BY <2>7
      <3>2. PICK p \in Planes : x \in Staged(st[p], h)
        BY <2>6, <3>1
      <3>3. live.regs[x] = Programmed(p, st[p], h)
        BY <2>1, <3>2 DEF RegsOf
      <3>4. Left(st[p].req) <= c /\ c < Right(st[p].req)
        BY <2>4, <3>1, <3>2, <3>3
      <3> QED
        BY <2>2, <2>5, <3>1, <3>2, <3>4
    <2>8. ASSUME NEW e \in Wanted(c)
          PROVE  e \in Shown(c)
      <3>1. PICK p \in Planes : /\ st[p].req.crtc_x <= c /\ c < st[p].req.crtc_x + st[p].req.crtc_w
                                /\ e = <<p, SourceAt(st[p].req, c)>>
        BY <2>8
      <3>2. Left(st[p].req) <= c /\ c < Right(st[p].req)
        BY <2>2, <3>1
      <3>3. PICK x : x \in Staged(st[p], h)
        BY <2>3, <3>2
      <3>4. x \in live.layers[h] /\ Covers(live.regs[x], i)
        BY <2>1, <2>3, <2>6, <3>2, <3>3 DEF RegsOf
      <3>5. e = <<live.regs[x].plane, Fetched(live.regs[x], i)>>
        BY <2>5, <3>1, <3>2, <3>3
      <3> QED
        BY <3>4, <3>5
    <2> QED
      BY <2>7, <2>8
  <1>2. Screen = [c \in Cols |-> Shown(c)]
    BY DEF Screen
  <1>3. Picture(st) = [c \in Cols |-> Wanted(c)]
    BY DEF Picture
  <1> HIDE DEF Cols, Shown, Wanted
  <1> QED
    BY <1>1, <1>2, <1>3

-------------------------------------------------------------------------------
(* Types, and pipes that fit.                                              *)

LEMMA InitTyped == Init => TypeOK /\ PipesFit
  <1> SUFFICES ASSUME Init PROVE TypeOK /\ PipesFit
    OBVIOUS
  <1>1. NoPipes(Disabled) \in PlaneState /\ Fits(NoPipes(Disabled))
    BY RequestType DEF NoPipes, WithPipes, PlaneState, Fits
  <1>2. planes \in [Planes -> PlaneState] /\ old = planes /\ chk = planes
    BY <1>1 DEF Init
  <1>3. PICK q \in Planes : q = CHOOSE p \in Planes : TRUE
    BY SplitAssumption
  <1>4. Blank(q) \in Regs
    BY DEF Blank, PipeRegs, Regs
  <1>5. regs \in [Pipes -> Regs]
    BY <1>3, <1>4 DEF Init
  <1> QED
    BY <1>1, <1>2, <1>5 DEF Init, TypeOK, PipesFit, Halves

(* What one plane's mode_set writes: its own pipes, for its own place.     *)
LEMMA ModeSetWrites ==
  ASSUME NEW p \in Planes, NEW s \in PlaneState, Fits(s), Visible(s.req),
         NEW w \in ModeSet(p, s)
  PROVE  /\ w[1] \in PipesOf(s)
         /\ w[2] \in Regs
         /\ \A h \in Halves : Staged(s, h) = {w[1]} => w[2] = Programmed(p, s, h)
  <1>1. s.req \in Request
    BY RequestType DEF PlaneState
  <1>2. /\ LeftRegs(p, Clipped(s.req)) \in Regs /\ RightRegs(p, Clipped(s.req)) \in Regs
        /\ WholeRegs(p, Clipped(s.req)) \in Regs
    BY <1>1, RegsType
  <1>3. CASE s.r_hwpipe = NoPipe
    <2>1. w = <<s.hwpipe, WholeRegs(p, Clipped(s.req))>>
      BY <1>3 DEF ModeSet
    <2> QED
      BY <1>2, <1>3, <2>1 DEF Programmed, PipesOf, Fits
  <1>4. CASE s.r_hwpipe # NoPipe
    <2>1. \/ w = <<s.hwpipe, LeftRegs(p, Clipped(s.req))>>
          \/ w = <<s.r_hwpipe, RightRegs(p, Clipped(s.req))>>
      BY <1>4 DEF ModeSet
    <2>2. /\ s.hwpipe \in PipesOf(s) /\ s.r_hwpipe \in PipesOf(s) /\ s.hwpipe # s.r_hwpipe
          /\ need_right_hwpipe(s.req)
      BY <1>4 DEF PipesOf, Fits
    <2>3. Staged(s, "L") = {s.hwpipe} /\ Staged(s, "R") = {s.r_hwpipe}
      <3>1. s.req.crtc_x \in Int /\ s.req.crtc_w \in Int /\ mixer_width \in Int
        BY <1>1, SeamType DEF Request
      <3> QED
        BY <1>4, <2>2, <3>1 DEF Staged, need_right_hwpipe
    <2>4. /\ Programmed(p, s, "L") = LeftRegs(p, Clipped(s.req))
          /\ Programmed(p, s, "R") = RightRegs(p, Clipped(s.req))
      BY <1>4 DEF Programmed
    <2>5. CASE w = <<s.hwpipe, LeftRegs(p, Clipped(s.req))>>
      BY <1>2, <2>2, <2>3, <2>4, <2>5 DEF Halves
    <2>6. CASE w = <<s.r_hwpipe, RightRegs(p, Clipped(s.req))>>
      BY <1>2, <2>2, <2>3, <2>4, <2>6 DEF Halves
    <2> QED
      BY <2>1, <2>5, <2>6
  <1> QED
    BY <1>3, <1>4

LEMMA NextTyped == TypeOK /\ PipesFit /\ [Next]_vars => TypeOK' /\ PipesFit'
  <1> SUFFICES ASSUME TypeOK, PipesFit, [Next]_vars
               PROVE  TypeOK' /\ PipesFit'
    OBVIOUS
  <1>0. /\ planes \in [Planes -> PlaneState] /\ old \in [Planes -> PlaneState]
        /\ chk \in [Planes -> PlaneState]
    BY DEF TypeOK
  <1>1. ASSUME NEW p \in Planes, NEW r \in Requests \cup {Disabled}, CheckPlane(p, r)
        PROVE  TypeOK' /\ PipesFit'
    <2>1. chk' \in [Planes -> PlaneState] /\ \A q \in Planes : Fits(chk'[q])
      BY <1>1, CheckFits
    <2>2. /\ visited' = visited \cup {p}
          /\ UNCHANGED <<planes, old, tail, regs, layers, flush, live>>
      BY <1>1 DEF CheckPlane
    <2>3. TypeOK'
      BY <1>0, <2>1, <2>2 DEF TypeOK
    <2> QED
      BY <2>1, <2>2, <2>3 DEF PipesFit
  <1>2. CASE Drop
    BY <1>0, <1>2 DEF Drop, TypeOK, PipesFit
  <1>3. CASE Swap
    BY <1>0, <1>3 DEF Swap, TypeOK, PipesFit
  <1>4. CASE Update
    <2> DEFINE written == UNION {ModeSet(p, planes[p]) : p \in {q \in Planes : Visible(planes[q].req)}}
    <2>1. \A w \in written : w[2] \in Regs
      BY <1>0, ModeSetWrites DEF PipesFit
    <2>2. ASSUME NEW x \in Pipes PROVE regs'[x] \in Regs
      <3>1. CASE \E w \in written : w[1] = x
        <4>1. PICK v \in written : v = CHOOSE w \in written : w[1] = x
          BY <3>1
        <4>2. regs'[x] = v[2]
          BY <1>4, <3>1, <4>1 DEF Update
        <4> QED
          BY <2>1, <4>1, <4>2
      <3>2. CASE ~\E w \in written : w[1] = x
        <4>1. regs'[x] = regs[x]
          BY <1>4, <3>2 DEF Update
        <4> QED
          BY <4>1 DEF TypeOK
      <3> QED
        BY <3>1, <3>2
    <2>3. regs' \in [Pipes -> Regs]
      <3>1. DOMAIN regs' = Pipes /\ regs' = [x \in Pipes |-> regs'[x]]
        BY <1>4 DEF Update
      <3> QED
        BY <2>2, <3>1
    <2> QED
      BY <1>0, <1>4, <2>3 DEF Update, TypeOK, PipesFit
  <1>5. CASE BlendSetup
    <2>1. layers' = StagedLayers(planes)
      BY <1>5 DEF BlendSetup, StagedLayers
    <2>2. StagedLayers(planes) \in [Halves -> SUBSET Pipes]
      BY <1>0, StagedType DEF StagedLayers, PipesFit
    <2> QED
      BY <1>0, <1>5, <2>1, <2>2 DEF BlendSetup, TypeOK, PipesFit
  <1>6. ASSUME NEW h \in Halves, NEW from, NEW to \in {"flushR", "wait"}, FlushHalf(h, from, to)
        PROVE  TypeOK' /\ PipesFit'
    <2>1. FlushMask(h) \subseteq Pipes \cup {"LM"}
      <3>1. \A p \in Planes : mdp5_plane_get_flush_split(planes[p], h) \subseteq Pipes
        BY <1>0, StagedType DEF PipesFit
      <3>2. ASSUME NEW x \in FlushMask(h), x # "LM" PROVE x \in Pipes
        <4>1. PICK p \in Planes : x \in mdp5_plane_get_flush_split(planes[p], h)
          BY <3>2 DEF FlushMask
        <4> QED
          BY <3>1, <4>1
      <3> QED
        BY <3>2
    <2>2. flush' \in [Halves -> SUBSET (Pipes \cup {"LM"})]
      BY <1>6, <2>1 DEF FlushHalf, TypeOK
    <2> QED
      BY <1>0, <1>6, <2>2 DEF FlushHalf, TypeOK, PipesFit
  <1>7. CASE FlushLeft \/ FlushRight
    BY <1>6, <1>7 DEF FlushLeft, FlushRight, Halves
  <1>8. CASE WaitFlush
    BY <1>0, <1>8 DEF WaitFlush, TypeOK, PipesFit
  <1>9. CASE Vsync
    <2>1. live' \in [regs : [Pipes -> Regs], layers : [Halves -> SUBSET Pipes]]
      BY <1>9 DEF Vsync, TypeOK
    <2>2. flush' = [h \in Halves |-> {}]
      BY <1>9 DEF Vsync
    <2>3. flush' \in [Halves -> SUBSET (Pipes \cup {"LM"})]
      BY <2>2
    <2> QED
      BY <1>0, <1>9, <2>1, <2>3 DEF Vsync, TypeOK, PipesFit
  <1>10. CASE UNCHANGED vars
    BY <1>0, <1>10 DEF vars, TypeOK, PipesFit
  <1> QED
    BY <1>1, <1>2, <1>3, <1>4, <1>5, <1>7, <1>8, <1>9, <1>10 DEF Next

-------------------------------------------------------------------------------
(* Every variable keeps its type: registers and FLUSH only ever get pipes  *)
(* that exist, however planes move, shrink or go (mdp5_plane_mode_set).    *)
THEOREM TypeCorrect == Spec => []TypeOK
  <1>1. Spec => [](TypeOK /\ PipesFit)
    BY InitTyped, NextTyped, PTL DEF Spec
  <1> QED
    BY <1>1, PTL

(* mdp5_plane_mode_set(), blend_setup() and mdp5_plane_get_flush_split()   *)
(* agree on the half of every pipe, on screens of any width, even or odd,  *)
(* and for planes of any size, position and scale.                         *)
THEOREM SidesCorrect == Spec => []SidesAgree
  <1>1. TypeOK /\ PipesFit => SidesAgree
    <2> SUFFICES ASSUME TypeOK, PipesFit, NEW p \in Planes PROVE Agrees(p, planes[p])
      BY DEF SidesAgree
    <2>1. planes[p] \in PlaneState /\ Fits(planes[p])
      BY DEF TypeOK, PipesFit
    <2> QED
      BY <2>1, SidesOfPlane
  <1>2. Spec => [](TypeOK /\ PipesFit)
    BY InitTyped, NextTyped, PTL DEF Spec
  <1> QED
    BY <1>1, <1>2, PTL

-------------------------------------------------------------------------------
(* One picture at any time.                                                *)

(* No pipe belongs to two planes.                                          *)
Apart(st) == \A p, q \in Planes : p # q => PipesOf(st[p]) \cap PipesOf(st[q]) = {}

(* The state that is on the screen.                                        *)
Drawn == IF tail = "idle" \/ (tail = "wait" /\ flush["L"] = {}) THEN planes ELSE old

OnScreen == RegsOf(Drawn, live.regs) /\ live.layers = StagedLayers(Drawn)

(* What the tail has written so far.                                       *)
Written ==
  /\ tail \in {"blend", "flushL", "flushR", "wait"} => RegsOf(planes, regs)
  /\ tail \in {"flushL", "flushR", "wait"} => layers = StagedLayers(planes)

(* Nothing is left in FLUSH, or the whole of the commit is.                *)
Flushing ==
  /\ tail \in {"idle", "update", "blend", "flushL"} => flush = [h \in Halves |-> {}]
  /\ tail = "flushR" => flush = [h \in Halves |-> IF h = "L" THEN FlushMask("L") ELSE {}]
  /\ tail = "wait" => flush \in {[h \in Halves |-> {}], [h \in Halves |-> FlushMask(h)]}

(* Checks wait for the tail.                                               *)
Checking == visited # {} => tail = "idle"

PictureInv ==
  /\ TypeOK /\ PipesFit /\ Apart(planes) /\ Apart(chk)
  /\ OnScreen /\ Written /\ Flushing /\ Checking

(* Pipes are given to one plane of a state only.                           *)
LEMMA CheckApart ==
  ASSUME TypeOK, PipesFit, Apart(chk), NEW p \in Planes, NEW r \in Requests \cup {Disabled},
         CheckPlane(p, r)
  PROVE  Apart(chk')
  <1>0. chk \in [Planes -> PlaneState] /\ \A q \in Planes : Fits(chk[q])
    BY DEF TypeOK, PipesFit
  <1>1. ASSUME NEW x, NEW y, chk' = [chk EXCEPT ![p] = WithPipes(r, x, y)],
               \A q \in Planes \ {p} : {x, y} \cap PipesOf(chk[q]) = {}
        PROVE  Apart(chk')
    <2>1. \A q \in Planes : q # p => chk'[q] = chk[q]
      BY <1>0, <1>1
    <2>2. PipesOf(chk'[p]) \subseteq {x, y}
      BY <1>0, <1>1 DEF PipesOf, WithPipes
    <2> QED
      BY <1>1, <2>1, <2>2 DEF Apart
  <1>2. CASE chk' = [chk EXCEPT ![p] = NoPipes(r)]
    <2>1. \A q \in Planes \ {p} : {NoPipe, NoPipe} \cap PipesOf(chk[q]) = {}
      BY DEF PipesOf
    <2> QED
      BY <1>1, <1>2, <2>1 DEF NoPipes
  <1>3. CASE chk' = [chk EXCEPT ![p] = WithPipes(r, chk[p].hwpipe, chk[p].r_hwpipe)]
    <2>1. \A q \in Planes \ {p} :
            {chk[p].hwpipe, chk[p].r_hwpipe} \cap PipesOf(chk[q]) = {}
      BY DEF Apart, PipesOf
    <2> QED
      BY <1>1, <1>3, <2>1
  <1>4. CASE \E x \in Pipes \ (InUse(planes) \cup InUse(chk)) :
             \E y \in (Pipes \ (InUse(planes) \cup InUse(chk))) \cup {NoPipe} :
               chk' = [chk EXCEPT ![p] = WithPipes(r, x, y)]
    <2>1. PICK x \in Pipes \ (InUse(planes) \cup InUse(chk)),
               y \in (Pipes \ (InUse(planes) \cup InUse(chk))) \cup {NoPipe} :
               chk' = [chk EXCEPT ![p] = WithPipes(r, x, y)]
      BY <1>4
    <2>2. ASSUME NEW q \in Planes PROVE x \notin PipesOf(chk[q]) /\ y \notin PipesOf(chk[q])
      <3>1. PipesOf(chk[q]) \subseteq InUse(chk)
        BY DEF InUse
      <3>2. NoPipe \notin PipesOf(chk[q])
        BY DEF PipesOf
      <3> QED
        BY <3>1, <3>2
    <2>3. \A q \in Planes \ {p} : {x, y} \cap PipesOf(chk[q]) = {}
      BY <2>2
    <2> QED
      BY <1>1, <2>1, <2>3
  <1> QED
    BY <1>2, <1>3, <1>4 DEF CheckPlane

(* Unscaled planes are always programmed.                                  *)
LEMMA AllWritten ==
  ASSUME Unscaled, NEW p \in Planes, NEW s \in PlaneState, Fits(s), Visible(s.req),
         NEW h \in Halves, NEW x \in Staged(s, h)
  PROVE  <<x, Programmed(p, s, h)>> \in ModeSet(p, s)
  <1> DEFINE r == s.req
             d == Clipped(r)
             w == Right(r) - Left(r)
             l == mixer_width - Left(r)
  <1>1. r \in Request /\ r.src_w = r.crtc_w
    BY RequestType DEF PlaneState, Unscaled, Disabled
  <1>2. /\ r.crtc_x \in Int /\ r.crtc_w \in Nat \ {0} /\ r.src_x \in Nat
        /\ HDisplay \in Nat /\ mixer_width \in Nat \ {0}
    BY <1>1, SplitAssumption, SeamType DEF Request
  <1>3. Left(r) \in Nat /\ w \in Nat \ {0} /\ l \in Int
    BY <1>2 DEF Visible, Left, Right
  <1>4. d.crtc_x = Left(r) /\ d.crtc_w = w /\ d.src_w = w
    BY <1>1, <1>2, <1>3, DivExact DEF Clipped
  <1>5. CutWidth(d) = l
    BY <1>4 DEF CutWidth
  <1> HIDE DEF d, w
  <1>6. CASE s.r_hwpipe = NoPipe
    <2>1. StepOK(WholeRegs(p, d).step)
      BY <1>3, <1>4 DEF StepOK, WholeRegs, PipeRegs
    <2>2. x = s.hwpipe
      BY <1>6 DEF Staged
    <2> QED
      BY <1>6, <2>1, <2>2 DEF ModeSet, Programmed, d
  <1>7. CASE s.r_hwpipe # NoPipe
    <2>1. l \in Nat \ {0} /\ need_right_hwpipe(r)
      BY <1>2, <1>3, <1>7 DEF Fits, need_right_hwpipe, Left
    <2> HIDE DEF l
    <2>2. CutSrc(d) = l
      <3>1. (w * l) \div w = l
        BY <1>3, DivExact
      <3> QED
        BY <1>4, <1>5, <3>1 DEF CutSrc
    <2>3. StepOK(LeftRegs(p, d).step)
      BY <1>5, <2>1, <2>2 DEF StepOK, LeftRegs, PipeRegs
    <2>4. x = IF h = "L" THEN s.hwpipe ELSE s.r_hwpipe
      BY <1>2, <1>7, <2>1 DEF Staged, need_right_hwpipe, Halves
    <2> QED
      BY <1>7, <2>3, <2>4 DEF ModeSet, Programmed, Halves, d
  <1> QED
    BY <1>6, <1>7

(* After the planes are updated every pipe is programmed for its plane.    *)
LEMMA UpdateWrites ==
  ASSUME Unscaled, TypeOK, PipesFit, Apart(planes), Update
  PROVE  RegsOf(planes, regs')
  <1> DEFINE written == UNION {ModeSet(p, planes[p]) : p \in {q \in Planes : Visible(planes[q].req)}}
  <1> SUFFICES ASSUME NEW p \in Planes, NEW h \in Halves, NEW x \in Staged(planes[p], h)
               PROVE  regs'[x] = Programmed(p, planes[p], h)
    BY DEF RegsOf
  <1>0. /\ planes \in [Planes -> PlaneState]
        /\ \A q \in Planes : planes[q] \in PlaneState /\ Fits(planes[q])
    BY DEF TypeOK, PipesFit
  <1>1. Visible(planes[p].req)
    BY DEF Staged
  <1>2. <<x, Programmed(p, planes[p], h)>> \in written
    BY <1>0, <1>1, AllWritten
  <1>3. x \in Pipes /\ x \in PipesOf(planes[p]) /\ Staged(planes[p], h) = {x}
    <2>1. x \in Pipes /\ x \in PipesOf(planes[p])
      BY <1>0, StagedType
    <2> QED
      BY <2>1 DEF Staged
  <1>4. PICK v \in written : v[1] = x /\ v = CHOOSE w \in written : w[1] = x
    BY <1>2
  <1>5. regs'[x] = v[2]
    BY <1>2, <1>3, <1>4 DEF Update
  <1>6. PICK q \in Planes : Visible(planes[q].req) /\ v \in ModeSet(q, planes[q])
    BY <1>4
  <1>7. x \in PipesOf(planes[q])
    BY <1>0, <1>4, <1>6, ModeSetWrites
  <1>8. q = p
    BY <1>3, <1>7 DEF Apart
  <1>9. v[2] = Programmed(p, planes[p], h)
    BY <1>0, <1>3, <1>4, <1>6, <1>8, ModeSetWrites
  <1> QED
    BY <1>5, <1>9

LEMMA InitPicture == Init => PictureInv
  <1> SUFFICES ASSUME Init PROVE PictureInv
    OBVIOUS
  <1>1. TypeOK /\ PipesFit
    BY InitTyped
  <1>2. \A p \in Planes : planes[p] = NoPipes(Disabled)
    BY DEF Init
  <1>3. \A p \in Planes : PipesOf(planes[p]) = {}
    BY <1>2 DEF PipesOf, NoPipes, WithPipes
  <1>4. \A p \in Planes, h \in Halves : Staged(planes[p], h) = {}
    BY <1>2, RequestType DEF Staged, NoPipes, WithPipes
  <1>5. StagedLayers(planes) = [h \in Halves |-> {}]
    BY <1>4 DEF StagedLayers
  <1>6. Apart(planes) /\ Apart(chk)
    BY <1>3 DEF Apart, Init
  <1>7. OnScreen
    BY <1>4, <1>5 DEF OnScreen, Drawn, RegsOf, Init
  <1>8. Written /\ Flushing /\ Checking
    BY DEF Written, Flushing, Checking, Init
  <1> QED
    BY <1>1, <1>6, <1>7, <1>8 DEF PictureInv

(* The screen only changes at a vsync that finds the whole commit flushed. *)
LEMMA VsyncDraws ==
  ASSUME PictureInv, ~VsyncBetween, Vsync
  PROVE  OnScreen'
  <1>1. tail \in {"wait"} /\ flush = [h \in Halves |-> FlushMask(h)]
    <2>1. flush # [h \in Halves |-> {}]
      BY DEF Vsync
    <2>2. tail # "flushR"
      BY DEF Vsync
    <2> QED
      BY <2>1, <2>2 DEF PictureInv, Flushing, TypeOK
  <1>2. tail' = "wait" /\ flush'["L"] = {} /\ planes' = planes
    BY <1>1 DEF Vsync, Halves
  <1>3. Drawn' = planes
    BY <1>2 DEF Drawn
  <1>4. \A h \in Halves : "LM" \in flush[h]
    BY <1>1 DEF FlushMask
  <1>5. live'.layers = layers /\ layers = StagedLayers(planes)
    BY <1>1, <1>4 DEF Vsync, PictureInv, TypeOK, Written
  <1>6. ASSUME NEW p \in Planes, NEW h \in Halves, NEW x \in Staged(planes[p], h)
        PROVE  live'.regs[x] = Programmed(p, planes[p], h)
    <2>1. planes[p] \in PlaneState /\ Fits(planes[p])
      BY DEF PictureInv, TypeOK, PipesFit
    <2>2. x \in Pipes /\ x \in mdp5_plane_get_flush_split(planes[p], h)
      BY <2>1, SidesOfPlane, StagedType DEF Agrees
    <2>3. x \in flush[h]
      BY <1>1, <2>2 DEF FlushMask
    <2>4. live'.regs[x] = regs[x]
      BY <2>2, <2>3 DEF Vsync
    <2>5. RegsOf(planes, regs)
      BY <1>1 DEF PictureInv, Written
    <2> QED
      BY <2>4, <2>5 DEF RegsOf
  <1>7. RegsOf(planes, live'.regs)
    BY <1>6 DEF RegsOf
  <1> QED
    BY <1>3, <1>5, <1>7 DEF OnScreen, StagedLayers

LEMMA NextPicture ==
  ASSUME Unscaled, ~VsyncBetween
  PROVE  PictureInv /\ [Next]_vars => PictureInv'
  <1> SUFFICES ASSUME PictureInv, [Next]_vars PROVE PictureInv'
    OBVIOUS
  <1> USE DEF PictureInv
  <1>0. TypeOK' /\ PipesFit'
    BY NextTyped
  <1>a. \A h \in Halves : planes' = planes => FlushMask(h)' = FlushMask(h)
    BY DEF FlushMask
  <1>1. ASSUME NEW p \in Planes, NEW r \in Requests \cup {Disabled}, CheckPlane(p, r)
        PROVE  PictureInv'
    <2>1. Apart(chk')
      BY <1>1, CheckApart
    <2>2. tail = "idle" /\ UNCHANGED <<planes, old, tail, regs, layers, flush, live>>
      BY <1>1 DEF CheckPlane
    <2> QED
      BY <1>0, <2>1, <2>2 DEF Apart, OnScreen, Drawn, Written, Flushing, FlushMask, Checking
  <1>2. CASE Drop
    BY <1>0, <1>2 DEF Drop, Apart, OnScreen, Drawn, Written, Flushing, FlushMask, Checking
  <1>3. CASE Swap
    <2>1. /\ tail = "idle" /\ tail' = "update" /\ planes' = chk /\ old' = planes /\ visited' = {}
          /\ UNCHANGED <<chk, regs, layers, flush, live>>
      BY <1>3 DEF Swap, Checking
    <2>2. OnScreen'
      BY <2>1 DEF OnScreen, Drawn
    <2>3. Written' /\ Flushing' /\ Checking'
      BY <2>1 DEF Written, Flushing, Checking
    <2> QED
      BY <1>0, <2>1, <2>2, <2>3 DEF Apart
  <1>4. CASE Update
    <2>1. /\ tail = "update" /\ tail' = "blend"
          /\ UNCHANGED <<planes, old, chk, visited, layers, flush, live>>
      BY <1>4 DEF Update
    <2>2. RegsOf(planes, regs')
      BY <1>4, UpdateWrites
    <2>3. Written' /\ Flushing' /\ Checking'
      BY <2>1, <2>2 DEF Written, Flushing, Checking
    <2>4. OnScreen'
      BY <2>1 DEF OnScreen, Drawn
    <2> QED
      BY <1>0, <2>1, <2>3, <2>4 DEF Apart
  <1>5. CASE BlendSetup
    <2>1. /\ tail = "blend" /\ tail' = "flushL" /\ layers' = StagedLayers(planes)
          /\ UNCHANGED <<planes, old, chk, visited, regs, flush, live>>
      BY <1>5 DEF BlendSetup, StagedLayers
    <2>2. Written' /\ Flushing' /\ Checking'
      BY <2>1 DEF Written, Flushing, Checking
    <2>3. OnScreen'
      BY <2>1 DEF OnScreen, Drawn
    <2> QED
      BY <1>0, <2>1, <2>2, <2>3 DEF Apart
  <1>6. CASE FlushLeft
    <2>1. /\ tail = "flushL" /\ tail' = "flushR"
          /\ flush' = [h \in Halves |-> IF h = "L" THEN FlushMask("L") ELSE {}]
          /\ UNCHANGED <<planes, old, chk, visited, regs, layers, live>>
      BY <1>6 DEF FlushLeft, FlushHalf, Flushing, Halves
    <2>2. FlushMask("L")' = FlushMask("L")
      BY <1>a, <2>1 DEF Halves
    <2>3. Written' /\ Flushing' /\ Checking'
      BY <2>1, <2>2 DEF Written, Flushing, Checking
    <2>4. OnScreen'
      BY <2>1 DEF OnScreen, Drawn
    <2> QED
      BY <1>0, <2>1, <2>3, <2>4 DEF Apart
  <1>7. CASE FlushRight
    <2>1. /\ tail = "flushR" /\ tail' = "wait" /\ flush' = [h \in Halves |-> FlushMask(h)]
          /\ UNCHANGED <<planes, old, chk, visited, regs, layers, live>>
      BY <1>7 DEF FlushRight, FlushHalf, Flushing, Halves
    <2>2. [h \in Halves |-> FlushMask(h)]' = [h \in Halves |-> FlushMask(h)]
      BY <1>a, <2>1
    <2>3. Written' /\ Flushing' /\ Checking'
      BY <2>1, <2>2 DEF Written, Flushing, Checking
    <2>4. flush'["L"] # {}
      BY <2>1 DEF FlushMask, Halves
    <2>5. OnScreen'
      BY <2>1, <2>4 DEF OnScreen, Drawn
    <2> QED
      BY <1>0, <2>1, <2>3, <2>5 DEF Apart
  <1>8. CASE WaitFlush
    <2>1. /\ tail = "wait" /\ flush["L"] = {} /\ tail' = "idle" /\ old' = planes
          /\ UNCHANGED <<planes, chk, visited, regs, layers, flush, live>>
      BY <1>8 DEF WaitFlush
    <2>2. flush = [h \in Halves |-> {}]
      <3>1. FlushMask("L") # {}
        BY DEF FlushMask
      <3> QED
        BY <2>1, <3>1 DEF Flushing, Halves
    <2>3. OnScreen'
      BY <2>1 DEF OnScreen, Drawn
    <2>4. Written' /\ Flushing' /\ Checking'
      BY <2>1, <2>2 DEF Written, Flushing, Checking
    <2> QED
      BY <1>0, <2>1, <2>3, <2>4 DEF Apart
  <1>9. CASE Vsync
    <2>1. OnScreen'
      BY <1>9, VsyncDraws
    <2>2. /\ tail = "wait" /\ flush' = [h \in Halves |-> {}]
          /\ UNCHANGED <<planes, old, chk, visited, tail, regs, layers>>
      BY <1>9 DEF Vsync, Flushing, TypeOK
    <2>3. Written' /\ Flushing' /\ Checking'
      BY <2>2 DEF Written, Flushing, Checking
    <2> QED
      BY <1>0, <2>1, <2>2, <2>3 DEF Apart
  <1>10. CASE UNCHANGED vars
    BY <1>0, <1>10 DEF vars, Apart, OnScreen, Drawn, Written, Flushing, FlushMask, Checking
  <1> QED
    BY <1>1, <1>2, <1>3, <1>4, <1>5, <1>6, <1>7, <1>8, <1>9, <1>10 DEF Next

(* The screen shows the frame of one commit at any time, if planes are not *)
(* scaled and no vsync falls between the FLUSH writes of the two CTLs      *)
(* (mdp5_plane_mode_set, blend_setup, crtc_flush_all).                     *)
THEOREM PictureCorrect ==
  ASSUME Unscaled, ~VsyncBetween
  PROVE  Spec => []OnePicture
  <1>1. PictureInv => OnePicture
    <2> SUFFICES ASSUME PictureInv PROVE OnePicture
      OBVIOUS
    <2>1. /\ Drawn \in {planes, old}
          /\ Drawn \in [Planes -> PlaneState] /\ \A p \in Planes : Fits(Drawn[p])
      BY DEF PictureInv, Drawn, TypeOK, PipesFit
    <2>2. Screen = Picture(Drawn)
      BY <2>1, ScreenShows DEF PictureInv, OnScreen
    <2> QED
      BY <2>1, <2>2 DEF OnePicture
  <1>2. PictureInv /\ [Next]_vars => PictureInv'
    BY NextPicture
  <1> QED
    BY InitPicture, <1>1, <1>2, PTL DEF Spec

-------------------------------------------------------------------------------
(* Programming a plane does not fail.                                      *)

LEMMA DivBounds ==
  ASSUME NEW a \in Int, NEW b \in Nat \ {0}, NEW k \in Int
  PROVE  /\ k * b <= a => k <= a \div b
         /\ a <= k * b => a \div b <= k
  OBVIOUS

LEMMA Products == \A a, b \in Int : a * (8 * b) = (8 * a) * b /\ a * b = b * a /\ a * b \in Int
  OBVIOUS

LEMMA Monotone ==
  ASSUME NEW a \in Int, NEW b \in Int, NEW k \in Nat, a <= b
  PROVE  k * a <= k * b
  OBVIOUS

(* mdp5_plane_mode_set() does not fail after a check, as the WARN_ON() of  *)
(* mdp5_plane_atomic_update() expects, for a plane that is not enlarged    *)
(* and reduced by no more than the eight times its check allows.  A plane  *)
(* that is enlarged can have no source left of the seam, and does fail.    *)
THEOREM ModeSetSucceeds ==
  ASSUME NEW p \in Planes, NEW s \in PlaneState, Fits(s), Visible(s.req),
         s.req.crtc_w <= s.req.src_w, s.req.src_w <= 8 * s.req.crtc_w
  PROVE  ModeSet(p, s) # {}
  <1> DEFINE r == s.req
             d == Clipped(r)
             w == Right(r) - Left(r)
             l == mixer_width - Left(r)
  <1>1. r \in Request
    BY RequestType DEF PlaneState
  <1>2. /\ r.crtc_x \in Int /\ r.crtc_w \in Nat \ {0} /\ r.src_w \in Nat \ {0}
        /\ HDisplay \in Nat /\ mixer_width \in Nat \ {0}
    BY <1>1, SplitAssumption, SeamType DEF Request
  <1>3. Left(r) \in Nat /\ w \in Nat \ {0} /\ l \in Int
    BY <1>2 DEF Visible, Left, Right
  <1>4. d.crtc_x = Left(r) /\ d.crtc_w = w /\ d.src_w = (w * r.src_w) \div r.crtc_w
    BY DEF Clipped
  <1>5. CutWidth(d) = l
    BY <1>4 DEF CutWidth
  <1> HIDE DEF d, w, l
  <1>6. d.src_w \in Int /\ w <= d.src_w /\ d.src_w <= 8 * w
    <2>1. w * r.crtc_w <= w * r.src_w /\ w * r.src_w <= w * (8 * r.crtc_w)
      BY <1>2, <1>3, Monotone
    <2>2. w * (8 * r.crtc_w) = (8 * w) * r.crtc_w /\ w * r.src_w \in Int /\ 8 * w \in Int
      BY <1>2, <1>3, Products
    <2>3. w <= (w * r.src_w) \div r.crtc_w
      BY <1>2, <1>3, <2>1, <2>2, DivBounds
    <2>4. (w * r.src_w) \div r.crtc_w <= 8 * w
      BY <1>2, <1>3, <2>1, <2>2, DivBounds
    <2>5. (w * r.src_w) \div r.crtc_w \in Int
      BY <1>2, <2>2
    <2> QED
      BY <1>4, <2>3, <2>4, <2>5
  <1>7. CASE s.r_hwpipe = NoPipe
    <2>1. StepOK(WholeRegs(p, d).step)
      BY <1>3, <1>4, <1>6 DEF StepOK, WholeRegs, PipeRegs
    <2> QED
      BY <1>7, <2>1 DEF ModeSet, d
  <1>8. CASE s.r_hwpipe # NoPipe
    <2>1. l \in Nat \ {0}
      BY <1>2, <1>3, <1>8 DEF Fits, need_right_hwpipe, Left, l
    <2>2. CutSrc(d) \in Int /\ l <= CutSrc(d) /\ CutSrc(d) <= 8 * l
      <3>1. l * w <= l * d.src_w /\ l * d.src_w <= l * (8 * w)
        BY <1>3, <1>6, <2>1, Monotone
      <3>2. l * (8 * w) = (8 * l) * w /\ l * d.src_w = d.src_w * l
        BY <1>3, <1>6, <2>1, Products
      <3>3. d.src_w * l \in Int /\ 8 * l \in Int
        BY <1>6, <2>1, Products
      <3>4. l <= (d.src_w * l) \div w
        BY <1>3, <2>1, <3>1, <3>2, <3>3, DivBounds
      <3>5. (d.src_w * l) \div w <= 8 * l
        BY <1>3, <2>1, <3>1, <3>2, <3>3, DivBounds
      <3>6. (d.src_w * l) \div w \in Int
        BY <1>3, <3>3
      <3> QED
        BY <1>4, <1>5, <3>4, <3>5, <3>6 DEF CutSrc
    <2>3. StepOK(LeftRegs(p, d).step)
      BY <1>5, <2>1, <2>2 DEF StepOK, LeftRegs, PipeRegs
    <2> QED
      BY <1>8, <2>3 DEF ModeSet, d
  <1> QED
    BY <1>7, <1>8

==============================================================================
