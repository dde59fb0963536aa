---------------------------- MODULE Mdp5Resources ----------------------------
(***************************************************************************)
(* Hardware pipes and shared-memory-pool (SMP) blocks of the MDP5 display  *)
(* controller, handed out by atomic modesetting: mdp5_pipe.c, mdp5_smp.c,  *)
(* the global state of mdp5_kms.c and the pipe half of the plane check in  *)
(* mdp5_plane.c.                                                           *)
(*                                                                         *)
(* A commit is checked plane by plane against a duplicate of the committed *)
(* global state while the modeset locks are held, swapped in, and carried  *)
(* to the hardware by a commit tail that runs without those locks.  The    *)
(* next check may therefore run beside the tail of the previous commit.    *)
(***************************************************************************)
EXTENDS Naturals, FiniteSets, Sequences

CONSTANTS
  NumPipes,       \* length of mdp5_kms->hwpipes; a pipe is its index there
  PipeCaps,       \* the capability set of each pipe
  PipeId,         \* enum mdp5_pipe of each pipe, its priority among its kind
  NClients,       \* SMP clients of each pipe: 1 for RGB, 3 for VIG and DMA
  BlkCnt,         \* blocks (MMBs) in the pool
  ReservedState,  \* blocks tied statically to a client
  Reserved,       \* how many of those each client has
  NumPlanes,      \* planes, in the order atomic check visits them
  CursorPlanes,   \* the planes of type DRM_PLANE_TYPE_CURSOR
  Configs,        \* what userspace may ask of a visible plane
  Overlap,        \* a check may run while a commit tail is in flight
  Suspends        \* the system suspends and resumes

Pipe   == 1 .. NumPipes
Plane  == 1 .. NumPlanes
Block  == 0 .. (BlkCnt - 1)
Client == Pipe \X (1 .. 3)

NoPipe   == 0
NoPlane  == 0
NoClient == <<0, 0>>

(* A request for a plane: invisible, or visible with the capabilities its  *)
(* format, scaling and rotation need, the SMP blocks of each component     *)
(* (blkcfg), and whether it needs a second pipe for the right mixer.       *)
Off == [on |-> FALSE, caps |-> {}, blkcfg |-> << >>, right |-> FALSE]
Request == Configs \cup {Off}

ASSUME ResourceAssumption ==
  /\ NumPipes \in Nat /\ NumPlanes \in Nat /\ BlkCnt \in Nat
  /\ NClients \in [Pipe -> {1, 3}]
  /\ PipeId \in [Pipe -> Nat]
  /\ ReservedState \subseteq Block
  /\ Reserved \in [Client -> Nat]
  /\ CursorPlanes \subseteq Plane
  /\ \A c \in Configs :
       /\ DOMAIN c = {"on", "caps", "blkcfg", "right"}
       /\ c = [on |-> TRUE, caps |-> c.caps, blkcfg |-> c.blkcfg, right |-> c.right]
       /\ c.right \in BOOLEAN
       /\ c.blkcfg \in Seq(Nat \ {0})
  /\ Overlap \in BOOLEAN /\ Suspends \in BOOLEAN

VARIABLES
  glob,      \* the committed struct mdp5_global_state
  planes,    \* the committed state of each plane
  blkcfg,    \* hwpipe->blkcfg, which belongs to no atomic state
  chk,       \* the atomic state being checked
  saved,     \* the state drm_atomic_helper_suspend() duplicated
  tail,      \* progress of the commit tail
  allocReg,  \* SMP_ALLOC registers (and their cache): client of each block
  wm,        \* blocks the FIFO watermarks of each pipe are set for
  scan       \* blocks each pipe on the screen was latched with

vars == <<glob, planes, blkcfg, chk, saved, tail, allocReg, wm, scan>>

------------------------------------------------------------------------------
(* Global state (mdp5_kms.c, mdp5_pipe.h, mdp5_smp.h).                     *)

EmptyGlobal ==
  [hwpipe_to_plane |-> [x \in Pipe |-> NoPlane],
   state           |-> ReservedState,
   client_state    |-> [c \in Client |-> {}],
   assigned        |-> {},
   released        |-> {}]

NoPipes == [p \in Plane |-> [hwpipe |-> NoPipe, r_hwpipe |-> NoPipe, req |-> Off]]

NoCheck == [phase |-> "none", todo |-> {}, glob |-> EmptyGlobal, planes |-> NoPipes]
NotSaved == [on |-> FALSE, planes |-> NoPipes]

PipesOf(s) == {s.hwpipe, s.r_hwpipe} \ {NoPipe}

------------------------------------------------------------------------------
(* Shared memory pool (mdp5_smp.c).                                        *)

(* The n lowest members of S: what n calls of find_first_zero_bit yield.   *)
TakeLowest(S, n) == {b \in S : Cardinality({a \in S : a < b}) < n}

FreeBlocks(g) == Block \ g.state

(* Mutant: blocks numbered from one.                                       *)
smp_request_block_FromOne(g, cid, n) ==
  LET got == TakeLowest((1 .. BlkCnt) \ g.state, n)
  IN  [g EXCEPT !.state = @ \cup got, !.client_state[cid] = @ \cup got]

(* smp_request_block(): n blocks, the lowest free ones, to client cid.     *)
smp_request_block(g, cid, n) ==
  LET got == TakeLowest(FreeBlocks(g), n)
  IN  [g EXCEPT !.state = @ \cup got, !.client_state[cid] = @ \cup got]

(* Blocks requested for component i of a pipe, less its reserved ones.     *)
Wanted(x, cfg, i) ==
  IF i <= NClients[x] /\ i <= Len(cfg) /\ cfg[i] > Reserved[<<x, i>>]
    THEN cfg[i] - Reserved[<<x, i>>] ELSE 0

Fits(g, x, cfg) ==
  Wanted(x, cfg, 1) + Wanted(x, cfg, 2) + Wanted(x, cfg, 3)
    <= Cardinality(FreeBlocks(g))

(* Mutant: the pipe is not marked for the next prepare_commit.             *)
mdp5_smp_assign_Unmarked(g, x, cfg) ==
  LET g1 == smp_request_block(g,  <<x, 1>>, Wanted(x, cfg, 1))
      g2 == smp_request_block(g1, <<x, 2>>, Wanted(x, cfg, 2))
  IN  smp_request_block(g2, <<x, 3>>, Wanted(x, cfg, 3))

mdp5_smp_assign(g, x, cfg) ==
  LET g1 == smp_request_block(g,  <<x, 1>>, Wanted(x, cfg, 1))
      g2 == smp_request_block(g1, <<x, 2>>, Wanted(x, cfg, 2))
      g3 == smp_request_block(g2, <<x, 3>>, Wanted(x, cfg, 3))
  IN  [g3 EXCEPT !.assigned = @ \cup {x}]

BlocksOf(g, x) == UNION {g.client_state[<<x, i>>] : i \in 1 .. 3}

(* Mutant: the clients keep the blocks they give back.                     *)
mdp5_smp_release_KeepsClients(g, x) ==
  [g EXCEPT !.state = @ \ BlocksOf(g, x), !.released = @ \cup {x}]

mdp5_smp_release(g, x) ==
  [g EXCEPT !.state = @ \ BlocksOf(g, x),
            !.client_state = [c \in Client |-> IF c[1] = x THEN {} ELSE g.client_state[c]],
            !.released = @ \cup {x}]

------------------------------------------------------------------------------
(* Pipe assignment (mdp5_pipe.c).  g is the new global state; the old one  *)
(* is the committed glob.                                                  *)

(* Mutant: the old state is not looked at.                                 *)
Available_NewStateOnly(g, x) == g.hwpipe_to_plane[x] = NoPlane

Available(g, x) ==
  g.hwpipe_to_plane[x] = NoPlane /\ glob.hwpipe_to_plane[x] = NoPlane

(* Pipes that can be the right half beside x.  The loop over them looks at *)
(* their kind and order only, not at whether they are in use.              *)
RightPipes(x) ==
  {y \in Pipe : y > x /\ PipeCaps[y] = PipeCaps[x] /\ PipeId[x] <= PipeId[y]}

Candidates(g, p, r) ==
  {x \in Pipe :
     /\ Available(g, x)
     /\ r.caps \subseteq PipeCaps[x]
     /\ "CURSOR" \in PipeCaps[x] => p \in CursorPlanes
     /\ r.right => RightPipes(x) # {}}

Waste(x, r) == Cardinality(PipeCaps[x] \ r.caps)

(* x, y are the pipes the search ends with: the first candidate with the   *)
(* fewest unneeded capabilities and the first right pipe for it.           *)
Chosen(g, p, r, x, y) ==
  /\ x \in Candidates(g, p, r)
  /\ \A z \in Candidates(g, p, r) :
       Waste(x, r) < Waste(z, r) \/ (Waste(x, r) = Waste(z, r) /\ x <= z)
  /\ IF r.right THEN y \in RightPipes(x) /\ \A z \in RightPipes(x) : y <= z
                ELSE y = NoPipe

(* Mutant: the blocks are freed, the pipe is not.                          *)
mdp5_pipe_release_BlocksOnly(g, x) ==
  IF x = NoPipe THEN g
  ELSE IF g.hwpipe_to_plane[x] = NoPlane THEN g
  ELSE mdp5_smp_release(g, x)

mdp5_pipe_release(g, x) ==
  IF x = NoPipe THEN g
  ELSE IF g.hwpipe_to_plane[x] = NoPlane THEN g
  ELSE [mdp5_smp_release(g, x) EXCEPT !.hwpipe_to_plane[x] = NoPlane]

mdp5_pipe_assigned(g, x, p) == g.hwpipe_to_plane[x] = p

SmpAssignRight(g, x, y, cfg) ==
  IF y = NoPipe THEN mdp5_smp_assign(g, x, cfg)
                ELSE mdp5_smp_assign(mdp5_smp_assign(g, x, cfg), y, cfg)

(* mdp5_pipe_assign() on success: blocks for both pipes, then ownership.   *)
mdp5_pipe_assign(g, p, cfg, x, y) ==
  LET h == SmpAssignRight(g, x, y, cfg)
  IN  [h EXCEPT !.hwpipe_to_plane =
         [z \in Pipe |-> IF z \in {x, y} THEN p ELSE h.hwpipe_to_plane[z]]]

------------------------------------------------------------------------------
(* Atomic check (mdp5_plane.c).                                            *)

Checking == chk.phase # "none"

(* drm_atomic_state_clear(): a TEST_ONLY check ends, another object's      *)
(* check fails, or a lock had to be backed off.                            *)
Discard ==
  /\ Checking
  /\ chk' = NoCheck
  /\ saved' = NotSaved
  /\ UNCHANGED <<glob, planes, blkcfg, tail, allocReg, wm, scan>>

(* The locks are free; the plane states and, on first use, the global      *)
(* state are duplicated.                                                   *)
BeginCheck(phase, ps, S) ==
  /\ ~Checking
  /\ Overlap \/ tail = "idle"
  /\ chk' = [phase |-> phase, todo |-> S, glob |-> glob, planes |-> ps]
  /\ UNCHANGED <<glob, planes, blkcfg, tail, allocReg, wm, scan>>

(* A commit from userspace for some planes.                                *)
UserCommit ==
  /\ ~saved.on
  /\ \E S \in SUBSET Plane \ {{}} : BeginCheck("user", planes, S)
  /\ UNCHANGED saved

(* drm_atomic_helper_suspend(): keep a duplicate, disable every plane.     *)
Suspend ==
  /\ Suspends /\ ~saved.on
  /\ \E p \in Plane : planes[p].req.on
  /\ BeginCheck("suspend", planes, Plane)
  /\ saved' = [on |-> TRUE, planes |-> planes]

(* drm_atomic_helper_resume(): commit the duplicate, whose plane states    *)
(* still name the pipes the planes had.                                    *)
Resume ==
  /\ saved.on /\ tail = "idle"
  /\ BeginCheck("resume", saved.planes, Plane)
  /\ UNCHANGED saved

(* What the state being checked asks of plane p.                           *)
Requested(p) ==
  CASE chk.phase = "user"    -> Request
    [] chk.phase = "suspend" -> {Off}
    [] chk.phase = "resume"  -> {saved.planes[p].req}
    [] OTHER                 -> {}

NextPlane(p) == p \in chk.todo /\ \A q \in chk.todo : p <= q

(* Mutant: a change of the number of blocks keeps the pipe.                *)
NeedsNewPipe_AnyBlocks(g, p, s, r) ==
  s.hwpipe # NoPipe =>
    ~(/\ r.caps \subseteq PipeCaps[s.hwpipe]
      /\ mdp5_pipe_assigned(g, s.hwpipe, p)
      /\ r.right = (s.r_hwpipe # NoPipe))

(* mdp5_plane_atomic_check_with_state(): new_hwpipe.                       *)
NeedsNewPipe(g, p, s, r) ==
  s.hwpipe # NoPipe =>
    ~(/\ r.caps \subseteq PipeCaps[s.hwpipe]
      /\ mdp5_pipe_assigned(g, s.hwpipe, p)
      /\ r.right = (s.r_hwpipe # NoPipe)
      /\ blkcfg[s.hwpipe] = r.blkcfg)

Checked(p, g, s) ==
  chk' = [chk EXCEPT !.todo = @ \ {p}, !.glob = g, !.planes[p] = s]

(* Both pipes a plane state names go back.                                 *)
ReleasePipes(g, s) ==
  mdp5_pipe_release(mdp5_pipe_release(g, s.hwpipe), s.r_hwpipe)

(* Mutant: the right pipe of a hidden plane is not released.               *)
CheckInvisible_LeftOnly(p) ==
  LET s == chk.planes[p] IN
  /\ NextPlane(p) /\ Off \in Requested(p)
  /\ chk.phase = "user" => s.hwpipe # NoPipe
  /\ Checked(p, mdp5_pipe_release(chk.glob, s.hwpipe),
             [hwpipe |-> NoPipe, r_hwpipe |-> NoPipe, req |-> Off])
  /\ UNCHANGED <<glob, planes, blkcfg, saved, tail, allocReg, wm, scan>>

(* Userspace is taken not to hide a plane that is hidden already.          *)
CheckInvisible(p) ==
  LET s == chk.planes[p] IN
  /\ NextPlane(p) /\ Off \in Requested(p)
  /\ chk.phase = "user" => s.hwpipe # NoPipe
  /\ Checked(p, ReleasePipes(chk.glob, s),
             [hwpipe |-> NoPipe, r_hwpipe |-> NoPipe, req |-> Off])
  /\ UNCHANGED <<glob, planes, blkcfg, saved, tail, allocReg, wm, scan>>

CheckKeepsPipe(p) ==
  \E r \in Requested(p) \ {Off} :
    /\ NextPlane(p)
    /\ ~NeedsNewPipe(chk.glob, p, chk.planes[p], r)
    /\ Checked(p, chk.glob, [chk.planes[p] EXCEPT !.req = r])
    /\ UNCHANGED <<glob, planes, blkcfg, saved, tail, allocReg, wm, scan>>

(* hwpipe->blkcfg is written in place: the pipe is shared by every state.  *)
SetBlkcfg(X, cfg) ==
  blkcfg' = [x \in Pipe |-> IF x \in X THEN cfg ELSE blkcfg[x]]

(* Assign first, then release what the plane state named before.           *)
AssignPipe(p, s, r, x, y) ==
  LET g == mdp5_pipe_assign(chk.glob, p, r.blkcfg, x, y) IN
  /\ Fits(chk.glob, x, r.blkcfg)
  /\ y # NoPipe => Fits(mdp5_smp_assign(chk.glob, x, r.blkcfg), y, r.blkcfg)
  /\ SetBlkcfg({x, y}, r.blkcfg)
  /\ Checked(p, ReleasePipes(g, s), [hwpipe |-> x, r_hwpipe |-> y, req |-> r])

CheckAssigns(p) ==
  /\ NextPlane(p)
  /\ \E r \in Requested(p) \ {Off}, x \in Pipe, y \in Pipe \cup {NoPipe} :
       /\ NeedsNewPipe(chk.glob, p, chk.planes[p], r)
       /\ Chosen(chk.glob, p, r, x, y)
       /\ AssignPipe(p, chk.planes[p], r, x, y)
  /\ UNCHANGED <<glob, planes, saved, tail, allocReg, wm, scan>>

(* -ENOMEM: no pipe, or too few blocks for one of them.  The state is      *)
(* dropped; the left pipe's blkcfg stays written when the right one fails. *)
CheckFails(p) ==
  /\ NextPlane(p)
  /\ \E r \in Requested(p) \ {Off} :
       /\ NeedsNewPipe(chk.glob, p, chk.planes[p], r)
       /\ \/ Candidates(chk.glob, p, r) = {} /\ UNCHANGED blkcfg
          \/ \E x \in Pipe, y \in Pipe \cup {NoPipe} :
               /\ Chosen(chk.glob, p, r, x, y)
               /\ \/ ~Fits(chk.glob, x, r.blkcfg) /\ UNCHANGED blkcfg
                  \/ /\ Fits(chk.glob, x, r.blkcfg) /\ y # NoPipe
                     /\ ~Fits(mdp5_smp_assign(chk.glob, x, r.blkcfg), y, r.blkcfg)
                     /\ SetBlkcfg({x}, r.blkcfg)
  /\ chk' = NoCheck
  /\ saved' = NotSaved
  /\ UNCHANGED <<glob, planes, tail, allocReg, wm, scan>>

------------------------------------------------------------------------------
(* Commit (drm_atomic_helper_swap_state() and the msm commit tail).        *)

(* The swap waits until the previous commit's tail is done.                *)
SwapState ==
  /\ Checking /\ chk.todo = {} /\ tail = "idle"
  /\ glob' = chk.glob
  /\ planes' = chk.planes
  /\ saved' = IF chk.phase = "resume" THEN NotSaved ELSE saved
  /\ chk' = NoCheck
  /\ tail' = "swapped"
  /\ UNCHANGED <<blkcfg, allocReg, wm, scan>>

ClientsOf(X) == {c \in Client : c[1] \in X}

NumBlocks(g, x) ==
  Cardinality(g.client_state[<<x, 1>>]) + Cardinality(g.client_state[<<x, 2>>])
    + Cardinality(g.client_state[<<x, 3>>])

(* mdp5_smp_prepare_commit(): the pipes assigned since the last prepare.   *)
PrepareCommit ==
  /\ tail = "swapped"
  /\ allocReg' =
       [b \in Block |->
          IF \E c \in ClientsOf(glob.assigned) : b \in glob.client_state[c]
            THEN CHOOSE c \in ClientsOf(glob.assigned) : b \in glob.client_state[c]
            ELSE allocReg[b]]
  /\ wm' = [x \in Pipe |-> IF x \in glob.assigned THEN NumBlocks(glob, x) ELSE wm[x]]
  /\ glob' = [glob EXCEPT !.assigned = {}]
  /\ tail' = "prepared"
  /\ UNCHANGED <<planes, blkcfg, chk, saved, scan>>

(* The planes are programmed and flushed; the next vsync latches them.     *)
Vsync ==
  /\ tail = "prepared"
  /\ scan' = [x \in Pipe |->
                [on |-> \E p \in Plane : planes[p].req.on /\ x \in PipesOf(planes[p]),
                 blocks |-> IF \E p \in Plane : planes[p].req.on /\ x \in PipesOf(planes[p])
                              THEN BlocksOf(glob, x) ELSE {}]]
  /\ tail' = "latched"
  /\ UNCHANGED <<glob, planes, blkcfg, chk, saved, allocReg, wm>>

(* mdp5_smp_complete_commit(): no watermarks for the released pipes.       *)
CompleteCommit ==
  /\ tail = "latched"
  /\ wm' = [x \in Pipe |-> IF x \in glob.released THEN 0 ELSE wm[x]]
  /\ glob' = [glob EXCEPT !.released = {}]
  /\ tail' = "idle"
  /\ UNCHANGED <<planes, blkcfg, chk, saved, allocReg, scan>>

Init ==
  /\ glob = EmptyGlobal
  /\ planes = NoPipes
  /\ blkcfg = [x \in Pipe |-> << >>]
  /\ chk = NoCheck
  /\ saved = NotSaved
  /\ tail = "idle"
  /\ allocReg = [b \in Block |-> NoClient]
  /\ wm = [x \in Pipe |-> 0]
  /\ scan = [x \in Pipe |-> [on |-> FALSE, blocks |-> {}]]

Next ==
  \/ UserCommit \/ Suspend \/ Resume \/ Discard
  \/ \E p \in Plane : CheckInvisible(p)
  \/ \E p \in Plane : CheckKeepsPipe(p)
  \/ \E p \in Plane : CheckAssigns(p)
  \/ \E p \in Plane : CheckFails(p)
  \/ SwapState \/ PrepareCommit \/ Vsync \/ CompleteCommit

Spec == Init /\ [][Next]_vars

------------------------------------------------------------------------------
(* Invariants and action properties.                                       *)

GlobalState ==
  [hwpipe_to_plane : [Pipe -> Plane \cup {NoPlane}],
   state           : SUBSET Block,
   client_state    : [Client -> SUBSET Block],
   assigned        : SUBSET Pipe,
   released        : SUBSET Pipe]

PlaneState ==
  [hwpipe : Pipe \cup {NoPipe}, r_hwpipe : Pipe \cup {NoPipe}, req : Request]

CheckState ==
  [phase : {"none", "user", "suspend", "resume"}, todo : SUBSET Plane,
   glob : GlobalState, planes : [Plane -> PlaneState]]

(* Every variable holds a value of the structure it stands for; pipes,     *)
(* clients and blocks never leave the ranges the hardware has.             *)
TypeOK ==
  /\ glob \in GlobalState
  /\ planes \in [Plane -> PlaneState]
  /\ blkcfg \in [Pipe -> Seq(Nat)]
  /\ chk \in CheckState
  /\ saved \in [on : BOOLEAN, planes : [Plane -> PlaneState]]
  /\ tail \in {"idle", "swapped", "prepared", "latched"}
  /\ allocReg \in [Block -> Client \cup {NoClient}]
  /\ wm \in [Pipe -> Nat]
  /\ scan \in [Pipe -> [on : BOOLEAN, blocks : SUBSET Block]]

(* The pool's bitmap is the disjoint union of the blocks its clients hold  *)
(* and the reserved ones: no block is given to two clients or lost.        *)
PoolOK(g) ==
  /\ \A b \in Block : b \in g.state <=>
       (b \in ReservedState \/ \E c \in Client : b \in g.client_state[c])
  /\ \A c \in Client : g.client_state[c] \cap ReservedState = {}
  /\ \A c, d \in Client : c # d => g.client_state[c] \cap g.client_state[d] = {}

PoolConsistent == PoolOK(glob) /\ PoolOK(chk.glob)

OnlyOwnersHold(g) ==
  \A c \in Client : g.client_state[c] # {} => g.hwpipe_to_plane[c[1]] # NoPlane

(* Whatever is held can be released: an owned pipe is named by its owner's *)
(* plane state, and only an owned pipe holds blocks.                       *)
HeldIsNamed(g, ps) ==
  /\ \A x \in Pipe : g.hwpipe_to_plane[x] # NoPlane => x \in PipesOf(ps[g.hwpipe_to_plane[x]])
  /\ OnlyOwnersHold(g)

NothingLeaks == HeldIsNamed(glob, planes) /\ HeldIsNamed(chk.glob, chk.planes)

(* From prepare_commit on, the SMP_ALLOC registers say what the committed  *)
(* state says, also when checks of later commits copied the pending sets.  *)
RegsMatchPool ==
  tail # "swapped" => \A c \in Client : \A b \in glob.client_state[c] : allocReg[b] = c

(* The inductive invariants behind NothingLeaks and RegsMatchPool.         *)
SuspendInv ==
  /\ chk.phase = "suspend" =>
       saved.on /\ \A p \in Plane \ chk.todo : PipesOf(chk.planes[p]) = {}
  /\ saved.on => chk.phase # "user"
  /\ saved.on /\ chk.phase # "suspend" => \A p \in Plane : PipesOf(planes[p]) = {}

Recorded(g, c) == \A b \in g.client_state[c] : allocReg[b] = c

RegsInv ==
  /\ tail # "swapped" => glob.assigned = {}
  /\ \A c \in Client : c[1] \notin glob.assigned => Recorded(glob, c)
  /\ Checking => \A c \in Client : c[1] \notin chk.glob.assigned =>
       chk.glob.client_state[c] \subseteq glob.client_state[c]

(* Plane states and the global state agree on who has which pipe.          *)
Agree(g, ps) ==
  \A x \in Pipe, p \in Plane : g.hwpipe_to_plane[x] = p <=> x \in PipesOf(ps[p])

OwnersAgree == Agree(glob, planes)

(* A visible plane has every pipe its state names.                         *)
VisiblePlaneOwnsPipe ==
  \A p \in Plane : planes[p].req.on =>
    \A x \in PipesOf(planes[p]) : glob.hwpipe_to_plane[x] = p

(* A visible plane's pipes hold exactly the blocks its request needs.      *)
BlocksCoverPlane ==
  \A p \in Plane : planes[p].req.on =>
    \A x \in PipesOf(planes[p]), i \in 1 .. 3 :
      Cardinality(glob.client_state[<<x, i>>]) = Wanted(x, planes[p].req.blkcfg, i)

(* A pipe on the screen has its FIFO watermarks set for the blocks it was  *)
(* given: mdp5_smp_prepare_commit() and mdp5_smp_complete_commit() touch   *)
(* those of other pipes only (mdp5_smp.h:39-44).                           *)
LiveWatermarks == \A x \in Pipe : scan[x].on => wm[x] = Cardinality(scan[x].blocks)

(* A pipe does not pass from one plane to another in one commit.           *)
NoImmediateReuse ==
  [][\A x \in Pipe : glob.hwpipe_to_plane[x] # NoPlane =>
       glob'.hwpipe_to_plane[x] \in {glob.hwpipe_to_plane[x], NoPlane}]_vars

(* Blocks are not taken away from pipes that are still scanning out.       *)
LiveBlocksKept ==
  [][\A x \in Pipe : \A b \in scan[x].blocks :
       allocReg[b][1] = x => allocReg'[b][1] = x]_vars

(* What the pool owes the screen: a visible plane has the blocks it needs,  *)
(* and a pipe that scans out its watermarks.                               *)
SmpServes == BlocksCoverPlane /\ LiveWatermarks
==============================================================================
