------------------------- MODULE Mdp5Resources_proofs -------------------------
(***************************************************************************)
(* Proofs about Mdp5Resources, for every number of pipes, planes and       *)
(* blocks and every set of plane requests.                                 *)
(***************************************************************************)
EXTENDS Mdp5Resources, FiniteSetTheorems, WellFoundedInduction, TLAPS

------------------------------------------------------------------------------
(* What the operations on the global state return, field by field.         *)

LEMMA RequestBlockFields ==
  ASSUME NEW g \in GlobalState, NEW cid \in Client, NEW n
  PROVE  LET h   == smp_request_block(g, cid, n)
             got == TakeLowest(FreeBlocks(g), n)
         IN  /\ h \in GlobalState
             /\ got \subseteq Block \ g.state
             /\ h.hwpipe_to_plane = g.hwpipe_to_plane
             /\ h.state = g.state \cup got
             /\ h.client_state[cid] = g.client_state[cid] \cup got
             /\ \A c \in Client : c # cid => h.client_state[c] = g.client_state[c]
             /\ h.assigned = g.assigned
             /\ h.released = g.released
  <1> DEFINE got == TakeLowest(FreeBlocks(g), n)
             h1  == [g EXCEPT !.state = g.state \cup got]
             h2  == [h1 EXCEPT !.client_state[cid] = g.client_state[cid] \cup got]
  <1>1. got \subseteq Block \ g.state
    BY DEF TakeLowest, FreeBlocks
  <1>2. smp_request_block(g, cid, n) = h2
    BY DEF smp_request_block
  <1> HIDE DEF got
  <1>3. /\ h1 \in GlobalState
        /\ h1.hwpipe_to_plane = g.hwpipe_to_plane
        /\ h1.state = g.state \cup got
        /\ h1.client_state = g.client_state
        /\ h1.assigned = g.assigned
        /\ h1.released = g.released
    BY <1>1 DEF GlobalState
  <1> HIDE DEF h1
  <1>4. /\ h2 \in GlobalState
        /\ h2.hwpipe_to_plane = g.hwpipe_to_plane
        /\ h2.state = g.state \cup got
        /\ h2.client_state = [g.client_state EXCEPT ![cid] = g.client_state[cid] \cup got]
        /\ h2.assigned = g.assigned
        /\ h2.released = g.released
    BY <1>1, <1>3 DEF GlobalState
  <1> HIDE DEF h2
  <1>5. /\ h2.client_state[cid] = g.client_state[cid] \cup got
        /\ \A c \in Client : c # cid => h2.client_state[c] = g.client_state[c]
    BY <1>4 DEF GlobalState
  <1> QED BY <1>1, <1>2, <1>4, <1>5 DEF got

LEMMA SmpReleaseFields ==
  ASSUME NEW g \in GlobalState, NEW x \in Pipe
  PROVE  LET h == mdp5_smp_release(g, x)
         IN  /\ h \in GlobalState
             /\ h.hwpipe_to_plane = g.hwpipe_to_plane
             /\ h.state = g.state \ BlocksOf(g, x)
             /\ \A c \in Client : c[1] = x => h.client_state[c] = {}
             /\ \A c \in Client : c[1] # x => h.client_state[c] = g.client_state[c]
             /\ h.assigned = g.assigned
             /\ h.released = g.released \cup {x}
  <1> DEFINE cs == [c \in Client |-> IF c[1] = x THEN {} ELSE g.client_state[c]]
             h1 == [g EXCEPT !.state = g.state \ BlocksOf(g, x)]
             h2 == [h1 EXCEPT !.client_state = cs]
             h3 == [h2 EXCEPT !.released = g.released \cup {x}]
  <1>1. mdp5_smp_release(g, x) = h3
    BY DEF mdp5_smp_release
  <1>2. cs \in [Client -> SUBSET Block]
    BY DEF GlobalState
  <1>3. /\ h1 \in GlobalState
        /\ h1.hwpipe_to_plane = g.hwpipe_to_plane
        /\ h1.state = g.state \ BlocksOf(g, x)
        /\ h1.client_state = g.client_state
        /\ h1.assigned = g.assigned
        /\ h1.released = g.released
    BY DEF GlobalState
  <1> HIDE DEF h1, cs
  <1>4. /\ h2 \in GlobalState
        /\ h2.hwpipe_to_plane = g.hwpipe_to_plane
        /\ h2.state = g.state \ BlocksOf(g, x)
        /\ h2.client_state = cs
        /\ h2.assigned = g.assigned
        /\ h2.released = g.released
    BY <1>2, <1>3 DEF GlobalState
  <1> HIDE DEF h2
  <1>5. /\ h3 \in GlobalState
        /\ h3.hwpipe_to_plane = g.hwpipe_to_plane
        /\ h3.state = g.state \ BlocksOf(g, x)
        /\ h3.client_state = cs
        /\ h3.assigned = g.assigned
        /\ h3.released = g.released \cup {x}
    BY <1>4 DEF GlobalState
  <1> QED BY <1>1, <1>5 DEF cs

LEMMA NoPipeIsNoPipe == NoPipe \notin Pipe
  BY DEF NoPipe, Pipe

(* A pipe that is not owned is left alone.                                 *)
LEMMA PipeReleaseUnowned ==
  ASSUME NEW g, NEW x, x \notin Pipe \/ g.hwpipe_to_plane[x] = NoPlane,
         x \in Pipe \cup {NoPipe}
  PROVE  mdp5_pipe_release(g, x) = g
  BY DEF mdp5_pipe_release

(* An owned pipe loses its owner and its blocks.                           *)
LEMMA PipeReleaseOwned ==
  ASSUME NEW g \in GlobalState, NEW x \in Pipe, g.hwpipe_to_plane[x] # NoPlane
  PROVE  LET h == mdp5_pipe_release(g, x)
         IN  /\ h \in GlobalState
             /\ h.assigned = g.assigned
             /\ h.hwpipe_to_plane = [g.hwpipe_to_plane EXCEPT ![x] = NoPlane]
             /\ h.state = g.state \ BlocksOf(g, x)
             /\ \A c \in Client : c[1] = x => h.client_state[c] = {}
             /\ \A c \in Client : c[1] # x => h.client_state[c] = g.client_state[c]
  <1> DEFINE h  == mdp5_pipe_release(g, x)
             h1 == mdp5_smp_release(g, x)
             h2 == [h1 EXCEPT !.hwpipe_to_plane[x] = NoPlane]
  <1>1. h = h2
    BY NoPipeIsNoPipe DEF mdp5_pipe_release
  <1>2. /\ h1 \in GlobalState
        /\ h1.hwpipe_to_plane = g.hwpipe_to_plane
        /\ h1.state = g.state \ BlocksOf(g, x)
        /\ \A c \in Client : c[1] = x => h1.client_state[c] = {}
        /\ \A c \in Client : c[1] # x => h1.client_state[c] = g.client_state[c]
        /\ h1.assigned = g.assigned
    BY SmpReleaseFields
  <1> HIDE DEF h1
  <1>3. /\ h2 \in GlobalState
        /\ h2.hwpipe_to_plane = [g.hwpipe_to_plane EXCEPT ![x] = NoPlane]
        /\ h2.state = h1.state
        /\ h2.client_state = h1.client_state
        /\ h2.assigned = h1.assigned
    BY <1>2 DEF GlobalState
  <1> HIDE DEF h, h2
  <1> QED BY <1>1, <1>2, <1>3 DEF h

------------------------------------------------------------------------------
(* What the operations do to the pool.                                     *)

LEMMA BlocksOfPipe ==
  ASSUME NEW g \in GlobalState, NEW x \in Pipe, NEW b
  PROVE  b \in BlocksOf(g, x) <=> \E c \in Client : c[1] = x /\ b \in g.client_state[c]
  <1>1. ASSUME NEW c \in Client, c[1] = x, b \in g.client_state[c]
        PROVE  b \in BlocksOf(g, x)
    <2>1. c[2] \in 1 .. 3 /\ c = <<x, c[2]>>
      BY <1>1 DEF Client
    <2> QED BY <1>1, <2>1 DEF BlocksOf
  <1>2. ASSUME NEW i \in 1 .. 3, b \in g.client_state[<<x, i>>]
        PROVE  \E c \in Client : c[1] = x /\ b \in g.client_state[c]
    <2>1. <<x, i>> \in Client /\ <<x, i>>[1] = x
      BY DEF Client
    <2> QED BY <1>2, <2>1
  <1>3. b \in BlocksOf(g, x) => \E i \in 1 .. 3 : b \in g.client_state[<<x, i>>]
    BY DEF BlocksOf
  <1> QED BY <1>1, <1>2, <1>3

LEMMA RequestBlockPool ==
  ASSUME NEW g \in GlobalState, NEW cid \in Client, NEW n, PoolOK(g)
  PROVE  PoolOK(smp_request_block(g, cid, n))
  <1> DEFINE h   == smp_request_block(g, cid, n)
             got == TakeLowest(FreeBlocks(g), n)
  <1>1. /\ got \subseteq Block \ g.state
        /\ h.state = g.state \cup got
    BY RequestBlockFields
  <1>2. /\ h.client_state[cid] = g.client_state[cid] \cup got
        /\ \A c \in Client : c # cid => h.client_state[c] = g.client_state[c]
    BY RequestBlockFields
  <1> HIDE DEF h, got
  <1>3. \A b \in Block : b \in h.state <=>
          (b \in ReservedState \/ \E c \in Client : b \in h.client_state[c])
    BY <1>1, <1>2 DEF PoolOK
  <1>4. ReservedState \subseteq g.state
    BY ResourceAssumption DEF PoolOK
  <1>5. \A c \in Client : h.client_state[c] \cap ReservedState = {}
    BY <1>1, <1>2, <1>4 DEF PoolOK
  <1>6. \A c \in Client : g.client_state[c] \cap got = {}
    BY <1>1 DEF PoolOK, GlobalState
  <1>7. ASSUME NEW c \in Client, NEW d \in Client, c # d
        PROVE  h.client_state[c] \cap h.client_state[d] = {}
    <2>1. g.client_state[c] \cap g.client_state[d] = {}
      BY <1>7 DEF PoolOK
    <2> QED BY <1>2, <1>6, <1>7, <2>1
  <1> QED BY <1>3, <1>5, <1>7 DEF PoolOK, h

LEMMA RequestBlockEffect ==
  ASSUME NEW g \in GlobalState, NEW cid \in Client, NEW n
  PROVE  LET h == smp_request_block(g, cid, n)
         IN  /\ h \in GlobalState
             /\ h.hwpipe_to_plane = g.hwpipe_to_plane
             /\ h.assigned = g.assigned
             /\ \A c \in Client : c # cid => h.client_state[c] = g.client_state[c]
             /\ PoolOK(g) => PoolOK(h)
  BY RequestBlockFields, RequestBlockPool

(* Blocks go to clients of the pipe only, and the pipe is marked.          *)
LEMMA SmpAssignEffect ==
  ASSUME NEW g \in GlobalState, NEW x \in Pipe, NEW cfg
  PROVE  LET h == mdp5_smp_assign(g, x, cfg)
         IN  /\ h \in GlobalState
             /\ h.hwpipe_to_plane = g.hwpipe_to_plane
             /\ h.assigned = g.assigned \cup {x}
             /\ \A c \in Client : c[1] # x => h.client_state[c] = g.client_state[c]
             /\ PoolOK(g) => PoolOK(h)
  <1> DEFINE g1 == smp_request_block(g,  <<x, 1>>, Wanted(x, cfg, 1))
             g2 == smp_request_block(g1, <<x, 2>>, Wanted(x, cfg, 2))
             g3 == smp_request_block(g2, <<x, 3>>, Wanted(x, cfg, 3))
             h  == [g3 EXCEPT !.assigned = g3.assigned \cup {x}]
  <1>1. <<x, 1>> \in Client /\ <<x, 2>> \in Client /\ <<x, 3>> \in Client
    BY DEF Client
  <1>2. mdp5_smp_assign(g, x, cfg) = h
    BY DEF mdp5_smp_assign
  <1>3. \A c \in Client : c[1] # x => c # <<x, 1>> /\ c # <<x, 2>> /\ c # <<x, 3>>
    BY DEF Client
  <1>4. /\ g1 \in GlobalState /\ g1.hwpipe_to_plane = g.hwpipe_to_plane
        /\ g1.assigned = g.assigned
        /\ \A c \in Client : c[1] # x => g1.client_state[c] = g.client_state[c]
        /\ PoolOK(g) => PoolOK(g1)
    BY <1>1, <1>3, RequestBlockEffect
  <1> HIDE DEF g1
  <1>5. /\ g2 \in GlobalState /\ g2.hwpipe_to_plane = g1.hwpipe_to_plane
        /\ g2.assigned = g1.assigned
        /\ \A c \in Client : c[1] # x => g2.client_state[c] = g1.client_state[c]
        /\ PoolOK(g1) => PoolOK(g2)
    BY <1>1, <1>3, <1>4, RequestBlockEffect
  <1> HIDE DEF g2
  <1>6. /\ g3 \in GlobalState /\ g3.hwpipe_to_plane = g2.hwpipe_to_plane
        /\ g3.assigned = g2.assigned
        /\ \A c \in Client : c[1] # x => g3.client_state[c] = g2.client_state[c]
        /\ PoolOK(g2) => PoolOK(g3)
    BY <1>1, <1>3, <1>5, RequestBlockEffect
  <1> HIDE DEF g3
  <1>7. /\ h \in GlobalState
        /\ h.hwpipe_to_plane = g3.hwpipe_to_plane
        /\ h.assigned = g3.assigned \cup {x}
        /\ h.state = g3.state
        /\ h.client_state = g3.client_state
    BY <1>6 DEF GlobalState
  <1>8. PoolOK(g3) => PoolOK(h)
    BY <1>7 DEF PoolOK
  <1> HIDE DEF h
  <1>9. \A c \in Client : c[1] # x => h.client_state[c] = g.client_state[c]
    BY <1>4, <1>5, <1>6, <1>7
  <1> QED BY <1>2, <1>4, <1>5, <1>6, <1>7, <1>8, <1>9

LEMMA PipeAssignEffect ==
  ASSUME NEW g \in GlobalState, NEW p \in Plane, NEW cfg,
         NEW x \in Pipe, NEW y \in Pipe \cup {NoPipe}
  PROVE  LET h == mdp5_pipe_assign(g, p, cfg, x, y)
         IN  /\ h \in GlobalState
             /\ h.hwpipe_to_plane =
                  [z \in Pipe |-> IF z \in {x, y} THEN p ELSE g.hwpipe_to_plane[z]]
             /\ \A z \in Pipe : z \in h.assigned <=> z \in g.assigned \/ z \in {x, y}
             /\ \A c \in Client : c[1] \notin {x, y} => h.client_state[c] = g.client_state[c]
             /\ PoolOK(g) => PoolOK(h)
  <1> DEFINE a == SmpAssignRight(g, x, y, cfg)
             f == [z \in Pipe |-> IF z \in {x, y} THEN p ELSE a.hwpipe_to_plane[z]]
             h == [a EXCEPT !.hwpipe_to_plane = f]
  <1>1. mdp5_pipe_assign(g, p, cfg, x, y) = h
    BY DEF mdp5_pipe_assign
  <1>2. NoPipe \notin Pipe
    BY DEF NoPipe, Pipe
  <1>3. /\ a \in GlobalState
        /\ a.hwpipe_to_plane = g.hwpipe_to_plane
        /\ \A z \in Pipe : z \in a.assigned <=> z \in g.assigned \/ z \in {x, y}
        /\ \A c \in Client : c[1] \notin {x, y} => a.client_state[c] = g.client_state[c]
        /\ PoolOK(g) => PoolOK(a)
    <2>1. CASE y = NoPipe
      BY <1>2, <2>1, SmpAssignEffect DEF SmpAssignRight
    <2>2. CASE y \in Pipe
      <3> DEFINE a1 == mdp5_smp_assign(g, x, cfg)
                 a2 == mdp5_smp_assign(a1, y, cfg)
      <3>1. a = a2
        BY <1>2, <2>2 DEF SmpAssignRight
      <3>2. /\ a1 \in GlobalState
            /\ a1.hwpipe_to_plane = g.hwpipe_to_plane
            /\ a1.assigned = g.assigned \cup {x}
            /\ \A c \in Client : c[1] # x => a1.client_state[c] = g.client_state[c]
            /\ PoolOK(g) => PoolOK(a1)
        BY SmpAssignEffect
      <3> HIDE DEF a1
      <3>3. /\ a2 \in GlobalState
            /\ a2.hwpipe_to_plane = a1.hwpipe_to_plane
            /\ a2.assigned = a1.assigned \cup {y}
            /\ \A c \in Client : c[1] # y => a2.client_state[c] = a1.client_state[c]
            /\ PoolOK(a1) => PoolOK(a2)
        BY <2>2, <3>2, SmpAssignEffect
      <3> HIDE DEF a2, a
      <3> QED BY <3>1, <3>2, <3>3
    <2> QED BY <2>1, <2>2
  <1> HIDE DEF a
  <1>4. f \in [Pipe -> Plane \cup {NoPlane}]
    BY <1>3 DEF GlobalState
  <1>5. f = [z \in Pipe |-> IF z \in {x, y} THEN p ELSE g.hwpipe_to_plane[z]]
    BY <1>3
  <1> HIDE DEF f
  <1>6. /\ h \in GlobalState
        /\ h.hwpipe_to_plane = f
        /\ h.state = a.state
        /\ h.client_state = a.client_state
        /\ h.assigned = a.assigned
    BY <1>3, <1>4 DEF GlobalState
  <1>7. PoolOK(a) => PoolOK(h)
    BY <1>6 DEF PoolOK
  <1> HIDE DEF h
  <1> QED BY <1>1, <1>3, <1>5, <1>6, <1>7

LEMMA PipeReleaseType ==
  ASSUME NEW g \in GlobalState, NEW x \in Pipe \cup {NoPipe}
  PROVE  mdp5_pipe_release(g, x) \in GlobalState
  <1>1. CASE x \notin Pipe \/ g.hwpipe_to_plane[x] = NoPlane
    BY <1>1, PipeReleaseUnowned
  <1>2. CASE x \in Pipe /\ g.hwpipe_to_plane[x] # NoPlane
    BY <1>2, PipeReleaseOwned
  <1> QED BY <1>1, <1>2

LEMMA PipeReleasePool ==
  ASSUME NEW g \in GlobalState, NEW x \in Pipe \cup {NoPipe}, PoolOK(g)
  PROVE  PoolOK(mdp5_pipe_release(g, x))
  <1> DEFINE h == mdp5_pipe_release(g, x)
  <1>1. CASE x \notin Pipe \/ g.hwpipe_to_plane[x] = NoPlane
    BY <1>1, PipeReleaseUnowned
  <1>2. CASE x \in Pipe /\ g.hwpipe_to_plane[x] # NoPlane
    <2>1. /\ h.state = g.state \ BlocksOf(g, x)
          /\ \A c \in Client : c[1] = x => h.client_state[c] = {}
          /\ \A c \in Client : c[1] # x => h.client_state[c] = g.client_state[c]
      BY <1>2, PipeReleaseOwned
    <2> HIDE DEF h
    <2>2. ASSUME NEW b \in Block
          PROVE  b \in h.state <=>
                   (b \in ReservedState \/ \E c \in Client : b \in h.client_state[c])
      <3>1. b \in g.state <=> (b \in ReservedState \/ \E c \in Client : b \in g.client_state[c])
        BY DEF PoolOK
      <3>2. b \in BlocksOf(g, x) <=> \E c \in Client : c[1] = x /\ b \in g.client_state[c]
        BY <1>2, BlocksOfPipe
      <3>3. b \in ReservedState => \A c \in Client : b \notin g.client_state[c]
        BY DEF PoolOK
      <3>4. \A c, d \in Client : b \in g.client_state[c] /\ b \in g.client_state[d] => c = d
        BY DEF PoolOK
      <3> QED BY <2>1, <3>1, <3>2, <3>3, <3>4
    <2> QED BY <2>1, <2>2 DEF PoolOK, h
  <1> QED BY <1>1, <1>2

LEMMA PipeReleaseEffect ==
  ASSUME NEW g \in GlobalState, NEW x \in Pipe \cup {NoPipe}
  PROVE  LET h == mdp5_pipe_release(g, x)
         IN  /\ h \in GlobalState
             /\ h.assigned = g.assigned
             /\ x \in Pipe => h.hwpipe_to_plane[x] = NoPlane
             /\ \A z \in Pipe : z # x => h.hwpipe_to_plane[z] = g.hwpipe_to_plane[z]
             /\ \A c \in Client : h.client_state[c] \subseteq g.client_state[c]
             /\ PoolOK(g) => PoolOK(h)
             /\ OnlyOwnersHold(g) => OnlyOwnersHold(h)
  <1> DEFINE h == mdp5_pipe_release(g, x)
  <1>1. PoolOK(g) => PoolOK(h)
    BY PipeReleasePool
  <1>2. CASE x \notin Pipe \/ g.hwpipe_to_plane[x] = NoPlane
    <2>1. h = g
      BY <1>2, PipeReleaseUnowned
    <2> HIDE DEF h
    <2> QED BY <1>1, <1>2, <2>1 DEF h
  <1>3. CASE x \in Pipe /\ g.hwpipe_to_plane[x] # NoPlane
    <2>1. /\ h \in GlobalState
          /\ h.assigned = g.assigned
          /\ h.hwpipe_to_plane = [g.hwpipe_to_plane EXCEPT ![x] = NoPlane]
          /\ \A c \in Client : c[1] = x => h.client_state[c] = {}
          /\ \A c \in Client : c[1] # x => h.client_state[c] = g.client_state[c]
      BY <1>3, PipeReleaseOwned
    <2> HIDE DEF h
    <2>2. /\ h.hwpipe_to_plane[x] = NoPlane
          /\ \A z \in Pipe : z # x => h.hwpipe_to_plane[z] = g.hwpipe_to_plane[z]
      BY <1>3, <2>1 DEF GlobalState
    <2>3. \A c \in Client : c[1] \in Pipe
      BY DEF Client
    <2>4. OnlyOwnersHold(g) => OnlyOwnersHold(h)
      BY <2>1, <2>2, <2>3 DEF OnlyOwnersHold
    <2>5. \A c \in Client : h.client_state[c] \subseteq g.client_state[c]
      BY <2>1
    <2> QED BY <1>1, <2>1, <2>2, <2>4, <2>5 DEF h
  <1> QED BY <1>2, <1>3

------------------------------------------------------------------------------
(* Type correctness.                                                       *)

LEMMA RequestFields ==
  ASSUME NEW r \in Request
  PROVE  r.blkcfg \in Seq(Nat) /\ r.right \in BOOLEAN /\ r.on \in BOOLEAN
  <1>1. CASE r = Off
    BY <1>1 DEF Off
  <1>2. CASE r \in Configs
    <2>1. /\ r = [on |-> TRUE, caps |-> r.caps, blkcfg |-> r.blkcfg, right |-> r.right]
          /\ r.right \in BOOLEAN /\ r.blkcfg \in Seq(Nat \ {0})
      BY <1>2, ResourceAssumption
    <2>2. r.on = TRUE
      BY <2>1
    <2>3. Seq(Nat \ {0}) \subseteq Seq(Nat)
      OBVIOUS
    <2> QED BY <2>1, <2>2, <2>3
  <1> QED BY <1>1, <1>2 DEF Request

LEMMA RequestedIsRequest ==
  ASSUME TypeOK, NEW p \in Plane, NEW r \in Requested(p)
  PROVE  r \in Request
  <1>1. Off \in Request
    BY DEF Request
  <1>2. saved.planes[p].req \in Request
    BY DEF TypeOK, PlaneState
  <1>3. chk.phase \in {"none", "user", "suspend", "resume"}
    BY DEF TypeOK, CheckState
  <1> QED BY <1>1, <1>2, <1>3 DEF Requested

(* The check goes on with global state g and state s of plane p.           *)
LEMMA CheckedFields ==
  ASSUME chk \in CheckState, NEW p \in Plane, NEW g \in GlobalState,
         NEW s \in PlaneState, Checked(p, g, s)
  PROVE  /\ chk' \in CheckState
         /\ chk'.phase = chk.phase
         /\ chk'.todo = chk.todo \ {p}
         /\ chk'.glob = g
         /\ chk'.planes[p] = s
         /\ \A q \in Plane : q # p => chk'.planes[q] = chk.planes[q]
  <1> DEFINE h1 == [chk EXCEPT !.todo = chk.todo \ {p}]
             h2 == [h1 EXCEPT !.glob = g]
             h3 == [h2 EXCEPT !.planes[p] = s]
  <1>1. chk' = h3
    BY DEF Checked
  <1>2. /\ h1 \in CheckState /\ h1.phase = chk.phase /\ h1.todo = chk.todo \ {p}
        /\ h1.planes = chk.planes
    BY DEF CheckState
  <1> HIDE DEF h1
  <1>3. /\ h2 \in CheckState /\ h2.phase = h1.phase /\ h2.todo = h1.todo
        /\ h2.glob = g /\ h2.planes = h1.planes
    BY <1>2 DEF CheckState
  <1> HIDE DEF h2
  <1>4. /\ h3 \in CheckState /\ h3.phase = h2.phase /\ h3.todo = h2.todo
        /\ h3.glob = h2.glob /\ h3.planes[p] = s
        /\ \A q \in Plane : q # p => h3.planes[q] = h2.planes[q]
    BY <1>3 DEF CheckState
  <1> HIDE DEF h3
  <1> QED BY <1>1, <1>2, <1>3, <1>4

LEMMA EmptyTypes ==
  /\ EmptyGlobal \in GlobalState
  /\ NoPipes \in [Plane -> PlaneState]
  /\ NoCheck \in CheckState
  /\ NotSaved \in [on : BOOLEAN, planes : [Plane -> PlaneState]]
  <1>1. EmptyGlobal \in GlobalState
    BY ResourceAssumption DEF EmptyGlobal, GlobalState
  <1>2. NoPipes \in [Plane -> PlaneState]
    BY DEF NoPipes, PlaneState, Request
  <1>3. NoCheck \in CheckState
    BY <1>1, <1>2 DEF NoCheck, CheckState
  <1> QED BY <1>1, <1>2, <1>3 DEF NotSaved

LEMMA SetBlkcfgType ==
  ASSUME blkcfg \in [Pipe -> Seq(Nat)], NEW X, NEW r \in Request, SetBlkcfg(X, r.blkcfg)
  PROVE  blkcfg' \in [Pipe -> Seq(Nat)]
  <1>1. r.blkcfg \in Seq(Nat)
    BY RequestFields
  <1> QED BY <1>1 DEF SetBlkcfg

LEMMA BeginCheckType ==
  ASSUME TypeOK, NEW phase \in {"user", "suspend", "resume"},
         NEW ps \in [Plane -> PlaneState], NEW S \in SUBSET Plane, BeginCheck(phase, ps, S)
  PROVE  chk' \in CheckState
  BY DEF TypeOK, BeginCheck, CheckState

LEMMA ReleasePipesEffect ==
  ASSUME NEW g \in GlobalState, NEW s \in PlaneState
  PROVE  LET h == ReleasePipes(g, s)
         IN  /\ h \in GlobalState
             /\ h.assigned = g.assigned
             /\ \A z \in Pipe : z \in PipesOf(s) => h.hwpipe_to_plane[z] = NoPlane
             /\ \A z \in Pipe : z \notin PipesOf(s) =>
                                  h.hwpipe_to_plane[z] = g.hwpipe_to_plane[z]
             /\ \A c \in Client : h.client_state[c] \subseteq g.client_state[c]
             /\ PoolOK(g) => PoolOK(h)
             /\ OnlyOwnersHold(g) => OnlyOwnersHold(h)
  <1> DEFINE g1 == mdp5_pipe_release(g, s.hwpipe)
             h  == mdp5_pipe_release(g1, s.r_hwpipe)
  <1>1. s.hwpipe \in Pipe \cup {NoPipe} /\ s.r_hwpipe \in Pipe \cup {NoPipe}
    BY DEF PlaneState
  <1>2. /\ g1 \in GlobalState
        /\ g1.assigned = g.assigned
        /\ s.hwpipe \in Pipe => g1.hwpipe_to_plane[s.hwpipe] = NoPlane
        /\ \A z \in Pipe : z # s.hwpipe => g1.hwpipe_to_plane[z] = g.hwpipe_to_plane[z]
        /\ \A c \in Client : g1.client_state[c] \subseteq g.client_state[c]
        /\ PoolOK(g) => PoolOK(g1)
        /\ OnlyOwnersHold(g) => OnlyOwnersHold(g1)
    BY <1>1, PipeReleaseEffect
  <1> HIDE DEF g1
  <1>3. /\ h \in GlobalState
        /\ h.assigned = g1.assigned
        /\ s.r_hwpipe \in Pipe => h.hwpipe_to_plane[s.r_hwpipe] = NoPlane
        /\ \A z \in Pipe : z # s.r_hwpipe => h.hwpipe_to_plane[z] = g1.hwpipe_to_plane[z]
        /\ \A c \in Client : h.client_state[c] \subseteq g1.client_state[c]
        /\ PoolOK(g1) => PoolOK(h)
        /\ OnlyOwnersHold(g1) => OnlyOwnersHold(h)
    BY <1>1, <1>2, PipeReleaseEffect
  <1>4. ReleasePipes(g, s) = h
    BY DEF ReleasePipes, g1
  <1> HIDE DEF h
  <1>5. \A z \in Pipe : z \in PipesOf(s) <=> z = s.hwpipe \/ z = s.r_hwpipe
    BY NoPipeIsNoPipe DEF PipesOf
  <1>6. \A z \in Pipe : z \in PipesOf(s) => h.hwpipe_to_plane[z] = NoPlane
    BY <1>2, <1>3, <1>5
  <1> QED BY <1>2, <1>3, <1>4, <1>5, <1>6

(* A plane is hidden: its pipes go back.                                   *)
LEMMA CheckInvisibleEffect ==
  ASSUME TypeOK, NEW p \in Plane, CheckInvisible(p)
  PROVE  /\ chk' \in CheckState
         /\ chk'.phase = chk.phase
         /\ chk'.todo = chk.todo \ {p}
         /\ chk'.planes[p] = [hwpipe |-> NoPipe, r_hwpipe |-> NoPipe, req |-> Off]
         /\ \A q \in Plane : q # p => chk'.planes[q] = chk.planes[q]
         /\ chk'.glob.assigned = chk.glob.assigned
         /\ \A z \in Pipe : z \in PipesOf(chk.planes[p]) =>
                              chk'.glob.hwpipe_to_plane[z] = NoPlane
         /\ \A z \in Pipe : z \notin PipesOf(chk.planes[p]) =>
                              chk'.glob.hwpipe_to_plane[z] = chk.glob.hwpipe_to_plane[z]
         /\ \A c \in Client : chk'.glob.client_state[c] \subseteq chk.glob.client_state[c]
         /\ PoolOK(chk.glob) => PoolOK(chk'.glob)
         /\ OnlyOwnersHold(chk.glob) => OnlyOwnersHold(chk'.glob)
  <1> DEFINE h == ReleasePipes(chk.glob, chk.planes[p])
             t == [hwpipe |-> NoPipe, r_hwpipe |-> NoPipe, req |-> Off]
  <1>1. chk \in CheckState /\ chk.glob \in GlobalState /\ chk.planes[p] \in PlaneState
    BY DEF TypeOK, CheckState
  <1>2. t \in PlaneState
    BY DEF PlaneState, Request
  <1>3. Checked(p, h, t)
    BY DEF CheckInvisible
  <1>4. /\ h \in GlobalState
        /\ h.assigned = chk.glob.assigned
        /\ \A z \in Pipe : z \in PipesOf(chk.planes[p]) => h.hwpipe_to_plane[z] = NoPlane
        /\ \A z \in Pipe : z \notin PipesOf(chk.planes[p]) =>
                             h.hwpipe_to_plane[z] = chk.glob.hwpipe_to_plane[z]
        /\ \A c \in Client : h.client_state[c] \subseteq chk.glob.client_state[c]
        /\ PoolOK(chk.glob) => PoolOK(h)
        /\ OnlyOwnersHold(chk.glob) => OnlyOwnersHold(h)
    BY <1>1, ReleasePipesEffect
  <1> HIDE DEF h, t
  <1>5. /\ chk' \in CheckState
        /\ chk'.phase = chk.phase
        /\ chk'.todo = chk.todo \ {p}
        /\ chk'.glob = h
        /\ chk'.planes[p] = t
        /\ \A q \in Plane : q # p => chk'.planes[q] = chk.planes[q]
    BY <1>1, <1>2, <1>3, <1>4, CheckedFields
  <1> QED BY <1>4, <1>5 DEF t

(* A plane gets pipes x and y, and what its state named before goes back.  *)
AssignedTo(p, s, r, x, y) ==
  /\ chk'.phase = chk.phase
  /\ chk'.todo = chk.todo \ {p}
  /\ chk'.planes[p] = [hwpipe |-> x, r_hwpipe |-> y, req |-> r]
  /\ \A q \in Plane : q # p => chk'.planes[q] = chk.planes[q]
  /\ \A z \in Pipe : z \in chk'.glob.assigned <=> z \in chk.glob.assigned \/ z \in {x, y}
  /\ \A z \in Pipe : z \in PipesOf(s) => chk'.glob.hwpipe_to_plane[z] = NoPlane
  /\ \A z \in Pipe : z \notin PipesOf(s) /\ z \in {x, y} =>
                       chk'.glob.hwpipe_to_plane[z] = p
  /\ \A z \in Pipe : z \notin PipesOf(s) /\ z \notin {x, y} =>
                       chk'.glob.hwpipe_to_plane[z] = chk.glob.hwpipe_to_plane[z]
  /\ \A c \in Client : c[1] \notin {x, y} =>
                         chk'.glob.client_state[c] \subseteq chk.glob.client_state[c]
  /\ PoolOK(chk.glob) => PoolOK(chk'.glob)
  /\ OnlyOwnersHold(chk.glob) => OnlyOwnersHold(chk'.glob)

LEMMA AssignPipeEffect ==
  ASSUME TypeOK, NEW p \in Plane, NEW s \in PlaneState, NEW r \in Request,
         NEW x \in Pipe, NEW y \in Pipe \cup {NoPipe}, AssignPipe(p, s, r, x, y)
  PROVE  /\ chk' \in CheckState
         /\ blkcfg' \in [Pipe -> Seq(Nat)]
         /\ AssignedTo(p, s, r, x, y)
  <1> DEFINE g == mdp5_pipe_assign(chk.glob, p, r.blkcfg, x, y)
             h == ReleasePipes(g, s)
             t == [hwpipe |-> x, r_hwpipe |-> y, req |-> r]
  <1>1. chk.glob \in GlobalState /\ chk \in CheckState
    BY DEF TypeOK, CheckState
  <1>2. t \in PlaneState
    BY DEF PlaneState
  <1>3. Checked(p, h, t)
    BY DEF AssignPipe
  <1>4. /\ g \in GlobalState
        /\ g.hwpipe_to_plane =
             [z \in Pipe |-> IF z \in {x, y} THEN p ELSE chk.glob.hwpipe_to_plane[z]]
        /\ \A z \in Pipe : z \in g.assigned <=> z \in chk.glob.assigned \/ z \in {x, y}
        /\ \A c \in Client : c[1] \notin {x, y} =>
                               g.client_state[c] = chk.glob.client_state[c]
        /\ PoolOK(chk.glob) => PoolOK(g)
    BY <1>1, PipeAssignEffect
  <1> HIDE DEF g
  <1>5. OnlyOwnersHold(chk.glob) => OnlyOwnersHold(g)
    <2>1. \A c \in Client : c[1] \in Pipe
      BY DEF Client
    <2>2. p # NoPlane
      BY DEF Plane, NoPlane
    <2> QED BY <1>4, <2>1, <2>2 DEF OnlyOwnersHold
  <1>6. /\ h \in GlobalState
        /\ h.assigned = g.assigned
        /\ \A z \in Pipe : z \in PipesOf(s) => h.hwpipe_to_plane[z] = NoPlane
        /\ \A z \in Pipe : z \notin PipesOf(s) => h.hwpipe_to_plane[z] = g.hwpipe_to_plane[z]
        /\ \A c \in Client : h.client_state[c] \subseteq g.client_state[c]
        /\ PoolOK(g) => PoolOK(h)
        /\ OnlyOwnersHold(g) => OnlyOwnersHold(h)
    BY <1>4, ReleasePipesEffect
  <1> HIDE DEF h, t
  <1>7. /\ chk' \in CheckState
        /\ chk'.phase = chk.phase
        /\ chk'.todo = chk.todo \ {p}
        /\ chk'.glob = h
        /\ chk'.planes[p] = t
        /\ \A q \in Plane : q # p => chk'.planes[q] = chk.planes[q]
    BY <1>1, <1>2, <1>3, <1>6, CheckedFields
  <1>8. blkcfg' \in [Pipe -> Seq(Nat)]
    BY SetBlkcfgType DEF AssignPipe, TypeOK
  <1>9. /\ \A z \in Pipe : z \notin PipesOf(s) /\ z \in {x, y} => h.hwpipe_to_plane[z] = p
        /\ \A z \in Pipe : z \notin PipesOf(s) /\ z \notin {x, y} =>
                             h.hwpipe_to_plane[z] = chk.glob.hwpipe_to_plane[z]
    BY <1>4, <1>6
  <1>10. \A c \in Client : c[1] \notin {x, y} =>
           h.client_state[c] \subseteq chk.glob.client_state[c]
    BY <1>4, <1>6
  <1> QED BY <1>4, <1>5, <1>6, <1>7, <1>8, <1>9, <1>10 DEF t, AssignedTo

LEMMA PrepareCommitType ==
  ASSUME TypeOK, PrepareCommit
  PROVE  TypeOK'
  <1>1. allocReg' \in [Block -> Client \cup {NoClient}]
    <2> DEFINE C(b) == CHOOSE c \in ClientsOf(glob.assigned) : b \in glob.client_state[c]
               A(b) == \E c \in ClientsOf(glob.assigned) : b \in glob.client_state[c]
    <2>1. \A b \in Block : A(b) => C(b) \in Client
      BY DEF ClientsOf
    <2>2. allocReg' = [b \in Block |-> IF A(b) THEN C(b) ELSE allocReg[b]]
      BY DEF PrepareCommit
    <2>3. allocReg \in [Block -> Client \cup {NoClient}]
      BY DEF TypeOK
    <2> HIDE DEF A, C
    <2> QED BY <2>1, <2>2, <2>3
  <1>2. \A x \in Pipe : NumBlocks(glob, x) \in Nat
    <2>1. IsFiniteSet(Block)
      <3>1. 0 \in Int /\ BlkCnt - 1 \in Int
        BY ResourceAssumption
      <3> QED BY <3>1, FS_Interval DEF Block
    <2> DEFINE N(x, i) == Cardinality(glob.client_state[<<x, i>>])
    <2>2. ASSUME NEW x \in Pipe, NEW i \in 1 .. 3
          PROVE  N(x, i) \in Nat
      <3>1. <<x, i>> \in Client
        BY DEF Client
      <3>2. glob.client_state[<<x, i>>] \subseteq Block
        BY <3>1 DEF TypeOK, GlobalState
      <3> QED BY <2>1, <3>2, FS_Subset, FS_CardinalityType
    <2>3. \A x \in Pipe : NumBlocks(glob, x) = N(x, 1) + N(x, 2) + N(x, 3)
      BY DEF NumBlocks
    <2> HIDE DEF N
    <2>4. \A x \in Pipe : N(x, 1) \in Nat /\ N(x, 2) \in Nat /\ N(x, 3) \in Nat
      BY <2>2
    <2> QED BY <2>3, <2>4
  <1>3. wm' \in [Pipe -> Nat]
    BY <1>2 DEF TypeOK, PrepareCommit
  <1>4. glob' \in GlobalState
    <2>1. glob' = [glob EXCEPT !.assigned = {}]
      BY DEF PrepareCommit
    <2> QED BY <2>1 DEF TypeOK, GlobalState
  <1> QED BY <1>1, <1>3, <1>4 DEF TypeOK, PrepareCommit

LEMMA VsyncType ==
  ASSUME TypeOK, Vsync
  PROVE  TypeOK'
  <1>1. \A x \in Pipe : BlocksOf(glob, x) \in SUBSET Block
    <2>1. \A x \in Pipe, i \in 1 .. 3 : glob.client_state[<<x, i>>] \subseteq Block
      BY DEF TypeOK, GlobalState, Client
    <2> QED BY <2>1 DEF BlocksOf
  <1>2. scan' \in [Pipe -> [on : BOOLEAN, blocks : SUBSET Block]]
    BY <1>1 DEF Vsync
  <1> QED BY <1>2 DEF TypeOK, Vsync

LEMMA CompleteCommitType ==
  ASSUME TypeOK, CompleteCommit
  PROVE  TypeOK'
  <1>1. wm' \in [Pipe -> Nat]
    BY DEF TypeOK, CompleteCommit
  <1>2. glob' \in GlobalState
    <2>1. glob' = [glob EXCEPT !.released = {}]
      BY DEF CompleteCommit
    <2> QED BY <2>1 DEF TypeOK, GlobalState
  <1> QED BY <1>1, <1>2 DEF TypeOK, CompleteCommit

LEMMA InitType == Init => TypeOK
  <1> SUFFICES ASSUME Init PROVE TypeOK
    OBVIOUS
  <1>1. NoClient \in Client \cup {NoClient}
    OBVIOUS
  <1> QED BY <1>1, EmptyTypes DEF Init, TypeOK

LEMMA NextType == TypeOK /\ [Next]_vars => TypeOK'
  <1> SUFFICES ASSUME TypeOK, [Next]_vars PROVE TypeOK'
    OBVIOUS
  <1>0. /\ glob \in GlobalState /\ chk \in CheckState
        /\ chk.glob \in GlobalState /\ chk.planes \in [Plane -> PlaneState]
        /\ planes \in [Plane -> PlaneState] /\ saved.planes \in [Plane -> PlaneState]
    BY DEF TypeOK, CheckState
  <1>1. CASE UserCommit
    BY <1>0, <1>1, BeginCheckType DEF UserCommit, BeginCheck, TypeOK
  <1>2. CASE Suspend
    <2>1. chk' \in CheckState
      BY <1>0, <1>2, BeginCheckType DEF Suspend
    <2> QED BY <1>0, <1>2, <2>1 DEF Suspend, BeginCheck, TypeOK
  <1>3. CASE Resume
    BY <1>0, <1>3, BeginCheckType DEF Resume, BeginCheck, TypeOK
  <1>4. CASE Discard
    BY <1>4, EmptyTypes DEF Discard, TypeOK
  <1>5. ASSUME NEW p \in Plane, CheckInvisible(p)
        PROVE  TypeOK'
    <2>1. chk' \in CheckState
      BY <1>5, CheckInvisibleEffect
    <2> QED BY <1>5, <2>1 DEF CheckInvisible, TypeOK
  <1>6. ASSUME NEW p \in Plane, CheckKeepsPipe(p)
        PROVE  TypeOK'
    <2>1. PICK r \in Requested(p) : Checked(p, chk.glob, [chk.planes[p] EXCEPT !.req = r])
      BY <1>6 DEF CheckKeepsPipe
    <2>2. r \in Request
      BY RequestedIsRequest
    <2>3. [chk.planes[p] EXCEPT !.req = r] \in PlaneState
      BY <1>0, <2>2 DEF PlaneState
    <2>4. chk' \in CheckState
      BY <1>0, <2>1, <2>3, CheckedFields
    <2> QED BY <1>6, <2>4 DEF CheckKeepsPipe, TypeOK
  <1>7. ASSUME NEW p \in Plane, CheckAssigns(p)
        PROVE  TypeOK'
    <2>1. PICK r \in Requested(p), x \in Pipe, y \in Pipe \cup {NoPipe} :
            AssignPipe(p, chk.planes[p], r, x, y)
      BY <1>7 DEF CheckAssigns
    <2>2. r \in Request /\ chk.planes[p] \in PlaneState
      BY <1>0, RequestedIsRequest
    <2>3. chk' \in CheckState /\ blkcfg' \in [Pipe -> Seq(Nat)]
      BY <2>1, <2>2, AssignPipeEffect
    <2> QED BY <1>7, <2>3 DEF CheckAssigns, TypeOK
  <1>8. ASSUME NEW p \in Plane, CheckFails(p)
        PROVE  TypeOK'
    <2>1. PICK r \in Requested(p) :
            blkcfg' = blkcfg \/ \E x \in Pipe : SetBlkcfg({x}, r.blkcfg)
      BY <1>8 DEF CheckFails
    <2>2. r \in Request
      BY RequestedIsRequest
    <2>3. blkcfg' \in [Pipe -> Seq(Nat)]
      BY <2>1, <2>2, SetBlkcfgType DEF TypeOK
    <2> QED BY <1>8, <2>3, EmptyTypes DEF CheckFails, TypeOK
  <1>9. CASE SwapState
    <2>1. saved' \in [on : BOOLEAN, planes : [Plane -> PlaneState]]
      BY <1>9, EmptyTypes DEF SwapState, TypeOK
    <2> QED BY <1>0, <1>9, <2>1, EmptyTypes DEF SwapState, TypeOK
  <1>10. CASE PrepareCommit
    BY <1>10, PrepareCommitType
  <1>11. CASE Vsync
    BY <1>11, VsyncType
  <1>12. CASE CompleteCommit
    BY <1>12, CompleteCommitType
  <1>13. CASE UNCHANGED vars
    BY <1>13 DEF vars, TypeOK
  <1> QED BY <1>1, <1>2, <1>3, <1>4, <1>5, <1>6, <1>7, <1>8, <1>9, <1>10,
             <1>11, <1>12, <1>13 DEF Next

(* Pipes, planes, clients and blocks stay within the ranges the hardware   *)
(* has, and the first fit of mdp5_smp.c never runs past the pool.          *)
THEOREM TypeCorrect == Spec => []TypeOK
  BY InitType, NextType, PTL DEF Spec

------------------------------------------------------------------------------
(* The pool.                                                               *)

(* Clearing one of the pending sets touches neither pool nor ownership.    *)
LEMMA ClearedSets ==
  ASSUME TypeOK, PrepareCommit \/ CompleteCommit
  PROVE  /\ glob'.hwpipe_to_plane = glob.hwpipe_to_plane
         /\ glob'.state = glob.state
         /\ glob'.client_state = glob.client_state
         /\ glob'.assigned \subseteq glob.assigned
         /\ chk' = chk /\ planes' = planes /\ saved' = saved
  <1>1. CASE PrepareCommit
    <2>1. glob' = [glob EXCEPT !.assigned = {}]
      BY <1>1 DEF PrepareCommit
    <2> QED BY <1>1, <2>1 DEF TypeOK, GlobalState, PrepareCommit
  <1>2. CASE CompleteCommit
    <2>1. glob' = [glob EXCEPT !.released = {}]
      BY <1>2 DEF CompleteCommit
    <2> QED BY <1>2, <2>1 DEF TypeOK, GlobalState, CompleteCommit
  <1> QED BY <1>1, <1>2

(* The states a check may leave behind or start from.                      *)
LEMMA EmptyPool == PoolOK(EmptyGlobal) /\ OnlyOwnersHold(EmptyGlobal)
  BY ResourceAssumption DEF PoolOK, OnlyOwnersHold, EmptyGlobal

LEMMA CheckStarts ==
  ASSUME UserCommit \/ Suspend \/ Resume
  PROVE  /\ chk'.glob = glob /\ glob' = glob /\ planes' = planes
         /\ tail' = tail /\ allocReg' = allocReg
  BY DEF UserCommit, Suspend, Resume, BeginCheck

(* A checked plane that keeps its pipe changes nothing but its request.    *)
LEMMA CheckKeepsEffect ==
  ASSUME TypeOK, NEW p \in Plane, CheckKeepsPipe(p)
  PROVE  /\ chk'.phase = chk.phase
         /\ chk'.todo = chk.todo \ {p}
         /\ chk'.glob = chk.glob
         /\ chk'.planes[p].hwpipe = chk.planes[p].hwpipe
         /\ chk'.planes[p].r_hwpipe = chk.planes[p].r_hwpipe
         /\ \A q \in Plane : q # p => chk'.planes[q] = chk.planes[q]
         /\ \A q \in Plane : PipesOf(chk'.planes[q]) = PipesOf(chk.planes[q])
  <1>1. PICK r \in Requested(p) : Checked(p, chk.glob, [chk.planes[p] EXCEPT !.req = r])
    BY DEF CheckKeepsPipe
  <1> DEFINE t == [chk.planes[p] EXCEPT !.req = r]
  <1>2. /\ r \in Request /\ chk \in CheckState
        /\ chk.planes[p] \in PlaneState /\ chk.glob \in GlobalState
    BY RequestedIsRequest DEF TypeOK, CheckState
  <1>3. /\ t \in PlaneState
        /\ t.hwpipe = chk.planes[p].hwpipe /\ t.r_hwpipe = chk.planes[p].r_hwpipe
    BY <1>2 DEF PlaneState
  <1>4. Checked(p, chk.glob, t)
    BY <1>1
  <1> HIDE DEF t
  <1>5. /\ chk'.phase = chk.phase
        /\ chk'.todo = chk.todo \ {p}
        /\ chk'.glob = chk.glob
        /\ chk'.planes[p] = t
        /\ \A q \in Plane : q # p => chk'.planes[q] = chk.planes[q]
    BY <1>2, <1>3, <1>4, CheckedFields
  <1>6. \A q \in Plane : PipesOf(chk'.planes[q]) = PipesOf(chk.planes[q])
    BY <1>3, <1>5 DEF PipesOf
  <1> QED BY <1>3, <1>5, <1>6

(* What a successful assignment chose.                                     *)
LEMMA CheckAssignsPicks ==
  ASSUME TypeOK, NEW p \in Plane, CheckAssigns(p)
  PROVE  \E r \in Request, x \in Pipe, y \in Pipe \cup {NoPipe} :
           /\ r \in Requested(p) \ {Off}
           /\ Chosen(chk.glob, p, r, x, y)
           /\ AssignPipe(p, chk.planes[p], r, x, y)
           /\ chk.planes[p] \in PlaneState
  <1>1. PICK r \in Requested(p) \ {Off}, x \in Pipe, y \in Pipe \cup {NoPipe} :
          Chosen(chk.glob, p, r, x, y) /\ AssignPipe(p, chk.planes[p], r, x, y)
    BY DEF CheckAssigns
  <1>2. r \in Request /\ chk.planes[p] \in PlaneState
    BY RequestedIsRequest DEF TypeOK, CheckState
  <1> QED BY <1>1, <1>2

LEMMA InitPool == Init => PoolConsistent
  BY EmptyPool DEF Init, PoolConsistent, NoCheck

LEMMA NextPool == TypeOK /\ PoolConsistent /\ [Next]_vars => PoolConsistent'
  <1> SUFFICES ASSUME TypeOK, PoolConsistent, [Next]_vars PROVE PoolConsistent'
    OBVIOUS
  <1>0. PoolOK(glob) /\ PoolOK(chk.glob)
    BY DEF PoolConsistent
  <1>1. CASE UserCommit \/ Suspend \/ Resume
    BY <1>0, <1>1, CheckStarts DEF PoolConsistent
  <1>2. CASE Discard \/ \E p \in Plane : CheckFails(p)
    <2>1. glob' = glob /\ chk'.glob = EmptyGlobal
      BY <1>2 DEF Discard, CheckFails, NoCheck
    <2> QED BY <1>0, <2>1, EmptyPool DEF PoolConsistent
  <1>3. ASSUME NEW p \in Plane, CheckInvisible(p)
        PROVE  PoolConsistent'
    <2>1. PoolOK(chk'.glob) /\ glob' = glob
      BY <1>0, <1>3, CheckInvisibleEffect DEF CheckInvisible
    <2> QED BY <1>0, <2>1 DEF PoolConsistent
  <1>4. ASSUME NEW p \in Plane, CheckKeepsPipe(p)
        PROVE  PoolConsistent'
    <2>1. chk'.glob = chk.glob /\ glob' = glob
      BY <1>4, CheckKeepsEffect DEF CheckKeepsPipe
    <2> QED BY <1>0, <2>1 DEF PoolConsistent
  <1>5. ASSUME NEW p \in Plane, CheckAssigns(p)
        PROVE  PoolConsistent'
    <2>1. PoolOK(chk'.glob)
      BY <1>0, <1>5, CheckAssignsPicks, AssignPipeEffect DEF AssignedTo
    <2>2. glob' = glob
      BY <1>5 DEF CheckAssigns
    <2> QED BY <1>0, <2>1, <2>2 DEF PoolConsistent
  <1>6. CASE SwapState
    <2>1. glob' = chk.glob /\ chk'.glob = EmptyGlobal
      BY <1>6 DEF SwapState, NoCheck
    <2> QED BY <1>0, <2>1, EmptyPool DEF PoolConsistent
  <1>7. CASE PrepareCommit \/ CompleteCommit
    BY <1>0, <1>7, ClearedSets DEF PoolConsistent, PoolOK
  <1>8. CASE Vsync \/ UNCHANGED vars
    <2>1. glob' = glob /\ chk' = chk
      BY <1>8 DEF Vsync, vars
    <2> QED BY <1>0, <2>1 DEF PoolConsistent
  <1> QED BY <1>1, <1>2, <1>3, <1>4, <1>5, <1>6, <1>7, <1>8 DEF Next

(* No block of the pool is lost or has two clients, whatever planes,       *)
(* modes, failed checks and suspends there are.                            *)
THEOREM PoolCorrect == Spec => []PoolConsistent
  <1>1. Spec => []TypeOK
    BY TypeCorrect
  <1> QED BY <1>1, InitPool, NextPool, PTL DEF Spec

------------------------------------------------------------------------------
(* Nothing leaks.  SuspendInv carries what Resume needs: while the system  *)
(* is suspended no plane has a pipe, so the stale plane states of the      *)
(* duplicate meet a global state in which nothing is owned.                *)

LeakInv == NothingLeaks /\ SuspendInv

LEMMA InitLeak == Init => LeakInv
  <1> SUFFICES ASSUME Init PROVE LeakInv
    OBVIOUS
  <1>1. HeldIsNamed(EmptyGlobal, NoPipes)
    BY EmptyPool DEF HeldIsNamed, EmptyGlobal
  <1>2. NothingLeaks
    BY <1>1 DEF Init, NothingLeaks, NoCheck
  <1>3. SuspendInv
    BY DEF Init, SuspendInv, NoCheck, NotSaved
  <1> QED BY <1>2, <1>3 DEF LeakInv

(* HeldIsNamed reads the pipes of the plane states only.                   *)
LEMMA HeldIsNamedPipes ==
  ASSUME NEW g \in GlobalState, NEW ps, NEW qs, HeldIsNamed(g, ps),
         \A p \in Plane : PipesOf(ps[p]) = PipesOf(qs[p])
  PROVE  HeldIsNamed(g, qs)
  BY DEF HeldIsNamed, GlobalState

LEMMA NothingOwned ==
  ASSUME TypeOK, HeldIsNamed(glob, planes), \A p \in Plane : PipesOf(planes[p]) = {}, NEW ps
  PROVE  HeldIsNamed(glob, ps)
  <1>1. \A x \in Pipe : glob.hwpipe_to_plane[x] = NoPlane
    BY DEF TypeOK, GlobalState, HeldIsNamed
  <1> QED BY <1>1 DEF HeldIsNamed

LEMMA NextHeld ==
  ASSUME TypeOK, NothingLeaks, SuspendInv, [Next]_vars
  PROVE  NothingLeaks'
  <1>0. /\ HeldIsNamed(glob, planes) /\ HeldIsNamed(chk.glob, chk.planes)
        /\ glob \in GlobalState /\ chk.glob \in GlobalState
    BY DEF NothingLeaks, TypeOK, CheckState
  <1>e. HeldIsNamed(EmptyGlobal, NoPipes)
    BY EmptyPool DEF HeldIsNamed, EmptyGlobal
  <1>1. CASE UserCommit \/ Suspend
    <2>1. chk'.glob = glob /\ chk'.planes = planes /\ glob' = glob /\ planes' = planes
      BY <1>1 DEF UserCommit, Suspend, BeginCheck
    <2> QED BY <1>0, <2>1 DEF NothingLeaks
  <1>2. CASE Resume
    <2>1. /\ chk'.glob = glob /\ chk'.planes = saved.planes /\ glob' = glob /\ planes' = planes
          /\ saved.on /\ chk.phase = "none"
      BY <1>2 DEF Resume, BeginCheck, Checking
    <2>2. \A p \in Plane : PipesOf(planes[p]) = {}
      BY <2>1 DEF SuspendInv
    <2>3. HeldIsNamed(glob, saved.planes)
      BY <1>0, <2>2, NothingOwned
    <2> QED BY <1>0, <2>1, <2>3 DEF NothingLeaks
  <1>3. CASE Discard \/ \E p \in Plane : CheckFails(p)
    <2>1. glob' = glob /\ planes' = planes /\ chk'.glob = EmptyGlobal /\ chk'.planes = NoPipes
      BY <1>3 DEF Discard, CheckFails, NoCheck
    <2> QED BY <1>0, <1>e, <2>1 DEF NothingLeaks
  <1>4. ASSUME NEW p \in Plane, CheckInvisible(p)
        PROVE  NothingLeaks'
    <2>1. glob' = glob /\ planes' = planes
      BY <1>4 DEF CheckInvisible
    <2>2. OnlyOwnersHold(chk'.glob) /\ chk'.glob \in GlobalState
      BY <1>0, <1>4, CheckInvisibleEffect DEF HeldIsNamed, CheckState
    <2>3. ASSUME NEW x \in Pipe, chk'.glob.hwpipe_to_plane[x] # NoPlane
          PROVE  x \in PipesOf(chk'.planes[chk'.glob.hwpipe_to_plane[x]])
      <3>1. /\ x \notin PipesOf(chk.planes[p])
            /\ chk'.glob.hwpipe_to_plane[x] = chk.glob.hwpipe_to_plane[x]
        BY <1>4, <2>3, CheckInvisibleEffect
      <3>2. x \in PipesOf(chk.planes[chk.glob.hwpipe_to_plane[x]])
        BY <1>0, <2>3, <3>1 DEF HeldIsNamed
      <3>3. chk.glob.hwpipe_to_plane[x] \in Plane /\ chk.glob.hwpipe_to_plane[x] # p
        BY <1>0, <2>3, <3>1, <3>2 DEF GlobalState
      <3> QED BY <1>4, <3>1, <3>2, <3>3, CheckInvisibleEffect
    <2> QED BY <1>0, <2>1, <2>2, <2>3 DEF NothingLeaks, HeldIsNamed
  <1>5. ASSUME NEW p \in Plane, CheckKeepsPipe(p)
        PROVE  NothingLeaks'
    <2>1. glob' = glob /\ planes' = planes
      BY <1>5 DEF CheckKeepsPipe
    <2>2. chk'.glob = chk.glob /\ \A q \in Plane : PipesOf(chk'.planes[q]) = PipesOf(chk.planes[q])
      BY <1>5, CheckKeepsEffect
    <2>3. HeldIsNamed(chk.glob, chk'.planes)
      BY <1>0, <2>2, HeldIsNamedPipes
    <2> QED BY <1>0, <2>1, <2>2, <2>3 DEF NothingLeaks
  <1>6. ASSUME NEW p \in Plane, CheckAssigns(p)
        PROVE  NothingLeaks'
    <2>1. glob' = glob /\ planes' = planes
      BY <1>6 DEF CheckAssigns
    <2>2. PICK r \in Request, x \in Pipe, y \in Pipe \cup {NoPipe} :
            AssignedTo(p, chk.planes[p], r, x, y)
      BY <1>6, CheckAssignsPicks, AssignPipeEffect
    <2> DEFINE s == chk.planes[p]
    <2>3. /\ chk'.planes[p] = [hwpipe |-> x, r_hwpipe |-> y, req |-> r]
          /\ \A q \in Plane : q # p => chk'.planes[q] = chk.planes[q]
          /\ \A z \in Pipe : z \in PipesOf(s) => chk'.glob.hwpipe_to_plane[z] = NoPlane
          /\ \A z \in Pipe : z \notin PipesOf(s) /\ z \in {x, y} =>
                               chk'.glob.hwpipe_to_plane[z] = p
          /\ \A z \in Pipe : z \notin PipesOf(s) /\ z \notin {x, y} =>
                               chk'.glob.hwpipe_to_plane[z] = chk.glob.hwpipe_to_plane[z]
          /\ OnlyOwnersHold(chk.glob) => OnlyOwnersHold(chk'.glob)
      BY <2>2 DEF AssignedTo
    <2>4. ASSUME NEW z \in Pipe, chk'.glob.hwpipe_to_plane[z] # NoPlane
          PROVE  z \in PipesOf(chk'.planes[chk'.glob.hwpipe_to_plane[z]])
      <3>1. z \notin PipesOf(s)
        BY <2>3, <2>4
      <3>2. CASE z \in {x, y}
        BY <2>3, <3>1, <3>2, NoPipeIsNoPipe DEF PipesOf
      <3>3. CASE z \notin {x, y}
        <4>1. chk'.glob.hwpipe_to_plane[z] = chk.glob.hwpipe_to_plane[z]
          BY <2>3, <3>1, <3>3
        <4>2. z \in PipesOf(chk.planes[chk.glob.hwpipe_to_plane[z]])
          BY <1>0, <2>4, <4>1 DEF HeldIsNamed
        <4>3. chk.glob.hwpipe_to_plane[z] \in Plane /\ chk.glob.hwpipe_to_plane[z] # p
          BY <1>0, <2>4, <3>1, <4>1, <4>2 DEF GlobalState
        <4> QED BY <2>3, <4>1, <4>2, <4>3
      <3> QED BY <3>2, <3>3
    <2> QED BY <1>0, <2>1, <2>3, <2>4 DEF NothingLeaks, HeldIsNamed
  <1>7. CASE SwapState
    <2>1. /\ glob' = chk.glob /\ planes' = chk.planes
          /\ chk'.glob = EmptyGlobal /\ chk'.planes = NoPipes
      BY <1>7 DEF SwapState, NoCheck
    <2> QED BY <1>0, <1>e, <2>1 DEF NothingLeaks
  <1>8. CASE PrepareCommit \/ CompleteCommit
    BY <1>0, <1>8, ClearedSets DEF NothingLeaks, HeldIsNamed, OnlyOwnersHold
  <1>9. CASE Vsync \/ UNCHANGED vars
    <2>1. glob' = glob /\ chk' = chk /\ planes' = planes
      BY <1>9 DEF Vsync, vars
    <2> QED BY <1>0, <2>1 DEF NothingLeaks
  <1> QED BY <1>1, <1>2, <1>3, <1>4, <1>5, <1>6, <1>7, <1>8, <1>9 DEF Next

LEMMA NextSuspend ==
  ASSUME TypeOK, SuspendInv, [Next]_vars
  PROVE  SuspendInv'
  <1>0. chk.phase \in {"none", "user", "suspend", "resume"} /\ chk.todo \subseteq Plane
    BY DEF TypeOK, CheckState
  <1>1. CASE UserCommit
    <2>1. chk'.phase = "user" /\ ~saved'.on
      BY <1>1 DEF UserCommit, BeginCheck
    <2> QED BY <2>1 DEF SuspendInv
  <1>2. CASE Suspend
    <2>1. chk'.phase = "suspend" /\ chk'.todo = Plane /\ saved'.on
      BY <1>2 DEF Suspend, BeginCheck
    <2> QED BY <2>1 DEF SuspendInv
  <1>3. CASE Resume
    <2>1. chk'.phase = "resume" /\ chk.phase = "none" /\ saved' = saved /\ planes' = planes
      BY <1>3 DEF Resume, BeginCheck, Checking
    <2> QED BY <2>1 DEF SuspendInv
  <1>4. CASE Discard \/ \E p \in Plane : CheckFails(p)
    <2>1. chk'.phase = "none" /\ ~saved'.on
      BY <1>4 DEF Discard, CheckFails, NoCheck, NotSaved
    <2> QED BY <2>1 DEF SuspendInv
  <1>5. ASSUME NEW p \in Plane, CheckInvisible(p)
        PROVE  SuspendInv'
    <2>1. saved' = saved /\ planes' = planes
      BY <1>5 DEF CheckInvisible
    <2>2. /\ chk'.phase = chk.phase /\ chk'.todo = chk.todo \ {p}
          /\ PipesOf(chk'.planes[p]) = {}
          /\ \A q \in Plane : q # p => chk'.planes[q] = chk.planes[q]
      BY <1>5, CheckInvisibleEffect DEF PipesOf
    <2> QED BY <2>1, <2>2 DEF SuspendInv
  <1>6. ASSUME NEW p \in Plane, CheckKeepsPipe(p) \/ CheckAssigns(p)
        PROVE  SuspendInv'
    <2>1. saved' = saved /\ planes' = planes
      BY <1>6 DEF CheckKeepsPipe, CheckAssigns
    <2>2. Requested(p) \ {Off} # {}
      BY <1>6 DEF CheckKeepsPipe, CheckAssigns
    <2>3. chk.phase # "suspend"
      BY <2>2 DEF Requested
    <2>4. chk'.phase = chk.phase
      BY <1>6, CheckKeepsEffect, CheckAssignsPicks, AssignPipeEffect DEF AssignedTo
    <2> QED BY <2>1, <2>3, <2>4 DEF SuspendInv
  <1>7. CASE SwapState
    <2>1. /\ chk'.phase = "none" /\ planes' = chk.planes /\ chk.todo = {}
          /\ saved' = IF chk.phase = "resume" THEN NotSaved ELSE saved
          /\ chk.phase # "none"
      BY <1>7 DEF SwapState, NoCheck, Checking
    <2>2. saved'.on => chk.phase = "suspend"
      BY <1>0, <2>1 DEF SuspendInv, NotSaved
    <2> QED BY <2>1, <2>2 DEF SuspendInv
  <1>8. CASE PrepareCommit \/ CompleteCommit
    BY <1>8, ClearedSets DEF SuspendInv
  <1>9. CASE Vsync \/ UNCHANGED vars
    <2>1. saved' = saved /\ chk' = chk /\ planes' = planes
      BY <1>9 DEF Vsync, vars
    <2> QED BY <2>1 DEF SuspendInv
  <1> QED BY <1>1, <1>2, <1>3, <1>4, <1>5, <1>6, <1>7, <1>8, <1>9 DEF Next

(* Whatever a commit or a check holds is named by the plane state of its   *)
(* owner, so hiding the plane, and suspending, gives everything back.      *)
THEOREM LeakFree == Spec => []NothingLeaks
  <1>1. Spec => []TypeOK
    BY TypeCorrect
  <1>2. TypeOK /\ LeakInv /\ [Next]_vars => LeakInv'
    BY NextHeld, NextSuspend DEF LeakInv
  <1>3. LeakInv => NothingLeaks
    BY DEF LeakInv
  <1> QED BY <1>1, <1>2, <1>3, InitLeak, PTL DEF Spec

------------------------------------------------------------------------------
(* The SMP_ALLOC registers.  RegsInv adds what holds while a prepare is    *)
(* due: a block that no register names belongs to a pipe marked for it,    *)
(* in the committed state and, relative to it, in a state being checked.   *)

LEMMA InitRegs == Init => RegsInv
  <1> SUFFICES ASSUME Init PROVE RegsInv
    OBVIOUS
  <1>1. \A c \in Client : glob.client_state[c] = {}
    BY DEF Init, EmptyGlobal
  <1> QED BY <1>1 DEF Init, RegsInv, Recorded, Checking, NoCheck, EmptyGlobal

LEMMA NextRegs ==
  ASSUME TypeOK, PoolConsistent, RegsInv, [Next]_vars
  PROVE  RegsInv'
  <1>0. chk.glob \in GlobalState /\ glob \in GlobalState
    BY DEF TypeOK, CheckState
  <1>p. \A c \in Client : c[1] \in Pipe
    BY DEF Client
  <1>1. CASE UserCommit \/ Suspend \/ Resume
    BY <1>1, CheckStarts DEF RegsInv, Recorded
  <1>2. CASE Discard \/ \E p \in Plane : CheckFails(p)
    <2>1. glob' = glob /\ tail' = tail /\ allocReg' = allocReg /\ ~Checking'
      BY <1>2 DEF Discard, CheckFails, NoCheck, Checking
    <2> QED BY <2>1 DEF RegsInv, Recorded
  <1>3. ASSUME NEW p \in Plane, CheckInvisible(p)
        PROVE  RegsInv'
    <2>1. glob' = glob /\ tail' = tail /\ allocReg' = allocReg /\ chk'.phase = chk.phase
      BY <1>3, CheckInvisibleEffect DEF CheckInvisible
    <2>2. /\ chk'.glob.assigned = chk.glob.assigned
          /\ \A c \in Client : chk'.glob.client_state[c] \subseteq chk.glob.client_state[c]
      BY <1>3, CheckInvisibleEffect
    <2>3. Checking' => \A c \in Client : c[1] \notin chk'.glob.assigned =>
            chk'.glob.client_state[c] \subseteq glob.client_state[c]
      BY <2>1, <2>2 DEF RegsInv, Checking
    <2> QED BY <2>1, <2>3 DEF RegsInv, Recorded
  <1>4. ASSUME NEW p \in Plane, CheckKeepsPipe(p)
        PROVE  RegsInv'
    <2>1. /\ glob' = glob /\ tail' = tail /\ allocReg' = allocReg
          /\ chk'.phase = chk.phase /\ chk'.glob = chk.glob
      BY <1>4, CheckKeepsEffect DEF CheckKeepsPipe
    <2> QED BY <2>1 DEF RegsInv, Recorded, Checking
  <1>5. ASSUME NEW p \in Plane, CheckAssigns(p)
        PROVE  RegsInv'
    <2>1. glob' = glob /\ tail' = tail /\ allocReg' = allocReg
      BY <1>5 DEF CheckAssigns
    <2>2. PICK r \in Request, x \in Pipe, y \in Pipe \cup {NoPipe} :
            AssignedTo(p, chk.planes[p], r, x, y)
      BY <1>5, CheckAssignsPicks, AssignPipeEffect
    <2>3. /\ chk'.phase = chk.phase
          /\ \A z \in Pipe : z \in chk'.glob.assigned <=> z \in chk.glob.assigned \/ z \in {x, y}
          /\ \A c \in Client : c[1] \notin {x, y} =>
                                 chk'.glob.client_state[c] \subseteq chk.glob.client_state[c]
      BY <2>2 DEF AssignedTo
    <2>4. ASSUME Checking', NEW c \in Client, c[1] \notin chk'.glob.assigned
          PROVE  chk'.glob.client_state[c] \subseteq glob.client_state[c]
      <3>1. c[1] \notin chk.glob.assigned /\ c[1] \notin {x, y}
        BY <1>p, <2>3, <2>4
      <3>2. chk.glob.client_state[c] \subseteq glob.client_state[c]
        BY <2>3, <2>4, <3>1 DEF RegsInv, Checking
      <3> QED BY <2>3, <3>1, <3>2
    <2> QED BY <2>1, <2>4 DEF RegsInv, Recorded
  <1>6. CASE SwapState
    <2>1. /\ glob' = chk.glob /\ tail' = "swapped" /\ allocReg' = allocReg
          /\ ~Checking' /\ Checking /\ tail = "idle"
      BY <1>6 DEF SwapState, NoCheck, Checking
    <2>2. ASSUME NEW c \in Client, c[1] \notin chk.glob.assigned
          PROVE  Recorded(chk.glob, c)
      <3>1. chk.glob.client_state[c] \subseteq glob.client_state[c]
        BY <2>1, <2>2 DEF RegsInv
      <3>2. Recorded(glob, c)
        BY <2>1 DEF RegsInv
      <3> QED BY <3>1, <3>2 DEF Recorded
    <2> QED BY <2>1, <2>2 DEF RegsInv, Recorded
  <1>7. CASE PrepareCommit
    <2> DEFINE A(b) == \E c \in ClientsOf(glob.assigned) : b \in glob.client_state[c]
               C(b) == CHOOSE c \in ClientsOf(glob.assigned) : b \in glob.client_state[c]
    <2>1. allocReg' = [b \in Block |-> IF A(b) THEN C(b) ELSE allocReg[b]]
      BY <1>7 DEF PrepareCommit
    <2>2. \A b \in Block : A(b) => C(b) \in ClientsOf(glob.assigned) /\ b \in glob.client_state[C(b)]
      <3> SUFFICES ASSUME NEW b \in Block, A(b)
                   PROVE  C(b) \in ClientsOf(glob.assigned) /\ b \in glob.client_state[C(b)]
        OBVIOUS
      <3> QED BY Zenon
    <2>3. \A d \in Client : d[1] \in glob.assigned => d \in ClientsOf(glob.assigned)
      BY DEF ClientsOf
    <2>4. ASSUME NEW c \in Client, NEW b \in glob.client_state[c]
          PROVE  allocReg'[b] = c
      <3>1. b \in Block
        BY <1>0, <2>4 DEF GlobalState
      <3>2. \A d \in Client : b \in glob.client_state[d] => d = c
        BY <2>4, <3>1 DEF PoolConsistent, PoolOK
      <3>3. CASE c[1] \in glob.assigned
        <4>1. A(b)
          BY <2>3, <2>4, <3>3
        <4>2. C(b) \in Client /\ b \in glob.client_state[C(b)]
          BY <2>2, <3>1, <4>1 DEF ClientsOf
        <4>3. C(b) = c
          BY <3>2, <4>2
        <4> HIDE DEF A, C
        <4> QED BY <2>1, <3>1, <4>1, <4>3
      <3>4. CASE c[1] \notin glob.assigned
        <4>1. ~A(b)
          BY <3>2, <3>4 DEF ClientsOf
        <4>2. allocReg[b] = c
          BY <2>4, <3>4 DEF RegsInv, Recorded
        <4> HIDE DEF A, C
        <4> QED BY <2>1, <3>1, <4>1, <4>2
      <3> QED BY <3>3, <3>4
    <2>5. glob'.client_state = glob.client_state /\ chk' = chk
      BY <1>7, ClearedSets
    <2>6. glob'.assigned = {}
      BY <1>0, <1>7 DEF PrepareCommit, GlobalState
    <2>7. \A c \in Client : Recorded(glob, c)'
      BY <2>4, <2>5 DEF Recorded
    <2> QED BY <2>5, <2>6, <2>7 DEF RegsInv, Checking
  <1>8. CASE CompleteCommit
    <2>1. /\ glob'.client_state = glob.client_state /\ glob'.assigned = glob.assigned
          /\ chk' = chk
      BY <1>0, <1>8, ClearedSets DEF CompleteCommit, GlobalState
    <2>2. allocReg' = allocReg /\ tail = "latched" /\ tail' = "idle"
      BY <1>8 DEF CompleteCommit
    <2> QED BY <2>1, <2>2 DEF RegsInv, Recorded, Checking
  <1>9. CASE Vsync
    <2>1. glob' = glob /\ chk' = chk /\ allocReg' = allocReg /\ tail = "prepared" /\ tail' = "latched"
      BY <1>9 DEF Vsync
    <2> QED BY <2>1 DEF RegsInv, Recorded, Checking
  <1>10. CASE UNCHANGED vars
    BY <1>10 DEF vars, RegsInv, Recorded, Checking
  <1> QED BY <1>1, <1>2, <1>3, <1>4, <1>5, <1>6, <1>7, <1>8, <1>9, <1>10 DEF Next

(* Once prepare_commit has run, the registers that are not double buffered *)
(* name for each block the client the committed state gives it to, however *)
(* many checks copied the pending sets meanwhile.                          *)
THEOREM RegsCorrect == Spec => []RegsMatchPool
  <1>1. Spec => []TypeOK /\ []PoolConsistent
    BY TypeCorrect, PoolCorrect
  <1>2. TypeOK /\ PoolConsistent /\ RegsInv /\ [Next]_vars => RegsInv'
    BY NextRegs
  <1>3. RegsInv => RegsMatchPool
    BY DEF RegsInv, Recorded, RegsMatchPool
  <1> QED BY <1>1, <1>2, <1>3, InitRegs, PTL DEF Spec

------------------------------------------------------------------------------
(* Ownership, as long as no plane asks for a right pipe and the system is  *)
(* not suspended.                                                          *)

NoRight == \A c \in Configs : ~c.right

OwnerInv ==
  /\ Agree(glob, planes) /\ Agree(chk.glob, chk.planes)
  /\ \A p \in Plane : planes[p].r_hwpipe = NoPipe /\ chk.planes[p].r_hwpipe = NoPipe
  /\ chk.phase \in {"none", "user"} /\ ~saved.on
  /\ Checking => \A x \in Pipe : glob.hwpipe_to_plane[x] # NoPlane =>
       chk.glob.hwpipe_to_plane[x] \in {glob.hwpipe_to_plane[x], NoPlane}

LEMMA EmptyAgrees == Agree(EmptyGlobal, NoPipes) /\ \A p \in Plane : NoPipes[p].r_hwpipe = NoPipe
  <1>1. \A p \in Plane : PipesOf(NoPipes[p]) = {} /\ p # NoPlane
    BY DEF NoPipes, PipesOf, Plane, NoPlane
  <1> QED BY <1>1 DEF Agree, EmptyGlobal, NoPipes

LEMMA InitOwner == Init => OwnerInv
  <1> SUFFICES ASSUME Init PROVE OwnerInv
    OBVIOUS
  <1>1. /\ glob = EmptyGlobal /\ planes = NoPipes
        /\ chk.glob = EmptyGlobal /\ chk.planes = NoPipes /\ chk.phase = "none" /\ ~saved.on
    BY DEF Init, NoCheck, NotSaved
  <1> QED BY <1>1, EmptyAgrees DEF OwnerInv, Checking

LEMMA NextOwner ==
  ASSUME NoRight, ~Suspends, TypeOK, OwnerInv, [Next]_vars
  PROVE  OwnerInv'
  <1>0. /\ Agree(glob, planes) /\ Agree(chk.glob, chk.planes)
        /\ glob \in GlobalState /\ chk.glob \in GlobalState
        /\ planes \in [Plane -> PlaneState] /\ chk.planes \in [Plane -> PlaneState]
    BY DEF OwnerInv, TypeOK, CheckState
  <1>n. \A p \in Plane : p # NoPlane
    BY DEF Plane, NoPlane
  <1>1. CASE UserCommit
    <2>1. /\ chk'.glob = glob /\ chk'.planes = planes /\ glob' = glob /\ planes' = planes
          /\ chk'.phase = "user" /\ ~saved'.on
      BY <1>1 DEF UserCommit, BeginCheck
    <2> QED BY <2>1 DEF OwnerInv
  <1>2. CASE Suspend \/ Resume
    BY <1>2 DEF Suspend, Resume, OwnerInv
  <1>3. CASE Discard \/ \E p \in Plane : CheckFails(p)
    <2>1. /\ glob' = glob /\ planes' = planes /\ ~saved'.on
          /\ chk'.glob = EmptyGlobal /\ chk'.planes = NoPipes /\ chk'.phase = "none"
      BY <1>3 DEF Discard, CheckFails, NoCheck, NotSaved
    <2> QED BY <2>1, EmptyAgrees DEF OwnerInv, Checking
  <1>4. ASSUME NEW p \in Plane, CheckInvisible(p)
        PROVE  OwnerInv'
    <2>1. glob' = glob /\ planes' = planes /\ saved' = saved
      BY <1>4 DEF CheckInvisible
    <2>2. /\ chk'.phase = chk.phase
          /\ chk'.planes[p] = [hwpipe |-> NoPipe, r_hwpipe |-> NoPipe, req |-> Off]
          /\ \A q \in Plane : q # p => chk'.planes[q] = chk.planes[q]
          /\ \A z \in Pipe : z \in PipesOf(chk.planes[p]) =>
                               chk'.glob.hwpipe_to_plane[z] = NoPlane
          /\ \A z \in Pipe : z \notin PipesOf(chk.planes[p]) =>
                               chk'.glob.hwpipe_to_plane[z] = chk.glob.hwpipe_to_plane[z]
      BY <1>4, CheckInvisibleEffect
    <2>3. PipesOf(chk'.planes[p]) = {}
      BY <2>2 DEF PipesOf
    <2>4. Agree(chk'.glob, chk'.planes)
      BY <1>0, <1>n, <2>2, <2>3 DEF Agree
    <2>5. \A q \in Plane : chk'.planes[q].r_hwpipe = NoPipe
      BY <2>2 DEF OwnerInv
    <2>6. Checking' => \A x \in Pipe : glob.hwpipe_to_plane[x] # NoPlane =>
            chk'.glob.hwpipe_to_plane[x] \in {glob.hwpipe_to_plane[x], NoPlane}
      BY <2>2 DEF OwnerInv, Checking
    <2> QED BY <1>0, <2>1, <2>2, <2>4, <2>5, <2>6 DEF OwnerInv
  <1>5. ASSUME NEW p \in Plane, CheckKeepsPipe(p)
        PROVE  OwnerInv'
    <2>1. glob' = glob /\ planes' = planes /\ saved' = saved
      BY <1>5 DEF CheckKeepsPipe
    <2>2. /\ chk'.phase = chk.phase /\ chk'.glob = chk.glob
          /\ chk'.planes[p].r_hwpipe = chk.planes[p].r_hwpipe
          /\ \A q \in Plane : q # p => chk'.planes[q] = chk.planes[q]
          /\ \A q \in Plane : PipesOf(chk'.planes[q]) = PipesOf(chk.planes[q])
      BY <1>5, CheckKeepsEffect
    <2>3. Agree(chk.glob, chk'.planes)
      BY <1>0, <2>2 DEF Agree
    <2> QED BY <2>1, <2>2, <2>3 DEF OwnerInv, Checking
  <1>6. ASSUME NEW p \in Plane, CheckAssigns(p)
        PROVE  OwnerInv'
    <2>1. glob' = glob /\ planes' = planes /\ saved' = saved
      BY <1>6 DEF CheckAssigns
    <2>2. PICK r \in Request, x \in Pipe, y \in Pipe \cup {NoPipe} :
            r # Off /\ Chosen(chk.glob, p, r, x, y) /\ AssignedTo(p, chk.planes[p], r, x, y)
      BY <1>6, CheckAssignsPicks, AssignPipeEffect
    <2>3. y = NoPipe
      BY <2>2 DEF Chosen, Request, NoRight
    <2>4. glob.hwpipe_to_plane[x] = NoPlane /\ chk.glob.hwpipe_to_plane[x] = NoPlane
      BY <2>2 DEF Chosen, Candidates, Available
    <2> DEFINE s == chk.planes[p]
    <2>5. /\ chk'.phase = chk.phase
          /\ chk'.planes[p] = [hwpipe |-> x, r_hwpipe |-> y, req |-> r]
          /\ \A q \in Plane : q # p => chk'.planes[q] = chk.planes[q]
          /\ \A z \in Pipe : z \in PipesOf(s) => chk'.glob.hwpipe_to_plane[z] = NoPlane
          /\ \A z \in Pipe : z \notin PipesOf(s) /\ z \in {x, y} =>
                               chk'.glob.hwpipe_to_plane[z] = p
          /\ \A z \in Pipe : z \notin PipesOf(s) /\ z \notin {x, y} =>
                               chk'.glob.hwpipe_to_plane[z] = chk.glob.hwpipe_to_plane[z]
      BY <2>2 DEF AssignedTo
    <2>6. \A z \in Pipe : z \in PipesOf(chk'.planes[p]) <=> z = x
      BY <2>3, <2>5, NoPipeIsNoPipe DEF PipesOf
    <2>7. \A z \in Pipe : z \in {x, y} <=> z = x
      BY <2>3, NoPipeIsNoPipe
    <2>8. \A z \in Pipe : z \in PipesOf(s) <=> chk.glob.hwpipe_to_plane[z] = p
      BY <1>0 DEF Agree
    <2>9. ASSUME NEW z \in Pipe, NEW q \in Plane
          PROVE  chk'.glob.hwpipe_to_plane[z] = q <=> z \in PipesOf(chk'.planes[q])
      <3>1. chk.glob.hwpipe_to_plane[z] = q <=> z \in PipesOf(chk.planes[q])
        BY <1>0 DEF Agree
      <3> HIDE DEF s
      <3>2. CASE q = p
        BY <1>n, <2>4, <2>5, <2>6, <2>7, <2>8, <3>2
      <3>3. CASE q # p
        BY <1>n, <2>4, <2>5, <2>7, <2>8, <3>1, <3>3
      <3> QED BY <3>2, <3>3
    <2>10. Agree(chk'.glob, chk'.planes)
      BY <2>9 DEF Agree
    <2>11. \A q \in Plane : chk'.planes[q].r_hwpipe = NoPipe
      BY <2>3, <2>5 DEF OwnerInv
    <2>12. ASSUME Checking', NEW z \in Pipe, glob.hwpipe_to_plane[z] # NoPlane
           PROVE  chk'.glob.hwpipe_to_plane[z] \in {glob.hwpipe_to_plane[z], NoPlane}
      <3>1. z # x
        BY <2>4, <2>12
      <3>2. chk.glob.hwpipe_to_plane[z] \in {glob.hwpipe_to_plane[z], NoPlane}
        BY <2>5, <2>12 DEF OwnerInv, Checking
      <3> HIDE DEF s
      <3> QED BY <2>5, <2>7, <3>1, <3>2
    <2> QED BY <1>0, <2>1, <2>5, <2>10, <2>11, <2>12 DEF OwnerInv
  <1>7. CASE SwapState
    <2>1. /\ glob' = chk.glob /\ planes' = chk.planes /\ chk'.phase = "none"
          /\ chk'.glob = EmptyGlobal /\ chk'.planes = NoPipes
          /\ saved' = saved \/ saved' = NotSaved
      BY <1>7 DEF SwapState, NoCheck
    <2> QED BY <2>1, EmptyAgrees DEF OwnerInv, Checking, NotSaved
  <1>8. CASE PrepareCommit \/ CompleteCommit
    BY <1>8, ClearedSets DEF OwnerInv, Agree, Checking
  <1>9. CASE Vsync \/ UNCHANGED vars
    <2>1. glob' = glob /\ chk' = chk /\ planes' = planes /\ saved' = saved
      BY <1>9 DEF Vsync, vars
    <2> QED BY <2>1 DEF OwnerInv, Checking
  <1> QED BY <1>1, <1>2, <1>3, <1>4, <1>5, <1>6, <1>7, <1>8, <1>9 DEF Next

(* Without right pipes and suspends the two records of who has which pipe, *)
(* the plane states and hwpipe_to_plane, never disagree.                   *)
THEOREM OwnersCorrect ==
  ASSUME NoRight, ~Suspends
  PROVE  Spec => []OwnersAgree
  <1>1. Spec => []TypeOK
    BY TypeCorrect
  <1>2. TypeOK /\ OwnerInv /\ [Next]_vars => OwnerInv'
    BY NextOwner
  <1>3. OwnerInv => OwnersAgree
    BY DEF OwnerInv, OwnersAgree
  <1> QED BY <1>1, <1>2, <1>3, InitOwner, PTL DEF Spec

(* Nor does a commit move a pipe from one plane to another: the search in  *)
(* mdp5_pipe_assign() looks at the old and the new state.                  *)
THEOREM NoReuse ==
  ASSUME NoRight, ~Suspends
  PROVE  Spec => NoImmediateReuse
  <1> DEFINE Keeps == \A x \in Pipe : glob.hwpipe_to_plane[x] # NoPlane =>
               glob'.hwpipe_to_plane[x] \in {glob.hwpipe_to_plane[x], NoPlane}
  <1>1. Spec => []TypeOK
    BY TypeCorrect
  <1>2. TypeOK /\ OwnerInv /\ [Next]_vars => OwnerInv'
    BY NextOwner
  <1>3. TypeOK /\ OwnerInv /\ [Next]_vars => [Keeps]_vars
    <2> SUFFICES ASSUME TypeOK, OwnerInv, Next PROVE Keeps
      OBVIOUS
    <2>1. CASE SwapState
      BY <2>1 DEF SwapState, OwnerInv, Checking
    <2>2. CASE PrepareCommit \/ CompleteCommit
      BY <2>2, ClearedSets
    <2>3. CASE ~SwapState /\ ~(PrepareCommit \/ CompleteCommit)
      <3>1. glob' = glob
        BY <2>3 DEF Next, UserCommit, Suspend, Resume, BeginCheck, Discard,
                    CheckInvisible, CheckKeepsPipe, CheckAssigns, CheckFails, Vsync
      <3> QED BY <3>1
    <2> QED BY <2>1, <2>2, <2>3
  <1> QED BY <1>1, <1>2, <1>3, InitOwner, PTL DEF Spec, NoImmediateReuse

------------------------------------------------------------------------------
(* What the pool owes the screen: without right pipes, suspends and checks *)
(* beside a commit tail.                                                   *)

(* Pipe x has an owner in g.                                               *)
Owned(g, x) == g.hwpipe_to_plane[x] # NoPlane

(* The blocks of pipe x are those cfg asks for.                            *)
Holds(g, x, cfg) ==
  \A i \in 1 .. 3 : Cardinality(g.client_state[<<x, i>>]) = Wanted(x, cfg, i)

(* hwpipe->blkcfg, the request of the owner and the pool agree.            *)
Covered(g, ps) ==
  \A x \in Pipe, p \in Plane : g.hwpipe_to_plane[x] = p =>
    blkcfg[x] = ps[p].req.blkcfg /\ Holds(g, x, blkcfg[x])

CoverInv == Covered(glob, planes) /\ Covered(chk.glob, chk.planes)

(* What a check has done so far, beside the state it started from.         *)
CheckInv ==
  /\ Checking => tail = "idle"
  /\ Checking => \A p \in chk.todo : chk.planes[p] = planes[p]
  /\ Checking => \A x \in Pipe :
       /\ x \in chk.glob.assigned => ~Owned(glob, x)
       /\ x \in chk.glob.released => Owned(glob, x) /\ ~Owned(chk.glob, x)
       /\ x \notin chk.glob.assigned /\ Owned(chk.glob, x) =>
            /\ Owned(glob, x)
            /\ \A i \in 1 .. 3 : chk.glob.client_state[<<x, i>>] = glob.client_state[<<x, i>>]

(* What the hardware has of the committed state.                           *)
WatermarkInv ==
  /\ LiveWatermarks
  /\ tail = "idle" => glob.assigned = {} /\ glob.released = {}
  /\ \A x \in Pipe :
       /\ Owned(glob, x) /\ x \notin glob.assigned => wm[x] = NumBlocks(glob, x)
       /\ x \in glob.released => ~Owned(glob, x)
       /\ tail \in {"idle", "latched"} /\ scan[x].on => Owned(glob, x)
       /\ tail \in {"swapped", "prepared"} /\ x \in glob.assigned => ~scan[x].on

------------------------------------------------------------------------------
(* Counting blocks.                                                        *)

(* Every set of natural numbers but the empty one has a least member.      *)
LEMMA LeastMember ==
  ASSUME NEW S, S \subseteq Nat, S # {}
  PROVE  \E m \in S : \A n \in S : m <= n
  <1>1. PICK m \in S : \A n \in S : <<n, m>> \notin OpToRel(<, Nat)
    BY NatLessThanWellFounded, WFMin
  <1>2. \A n \in S : ~(n < m)
    BY <1>1 DEF OpToRel
  <1> QED BY <1>2

(* The members of S that are found before b.                               *)
Below(S, b) == {a \in S : a < b}

LEMMA TakenIsLow ==
  ASSUME NEW S, NEW n, NEW b
  PROVE  b \in TakeLowest(S, n) <=> b \in S /\ Cardinality(Below(S, b)) < n
  BY DEF TakeLowest, Below

(* The first n members of S, and the next one.                             *)
LEMMA TakeLowestNext ==
  ASSUME NEW S, S \subseteq Nat, IsFiniteSet(S), NEW n \in Nat, n < Cardinality(S),
         Cardinality(TakeLowest(S, n)) = n
  PROVE  Cardinality(TakeLowest(S, n + 1)) = n + 1
  <1> DEFINE T == TakeLowest(S, n)
             C(b) == Cardinality(Below(S, b))
  <1>1. Cardinality(T) = n /\ \A b : b \in T <=> b \in S /\ C(b) < n
    BY TakenIsLow
  <1> HIDE DEF T
  <1>2. T \subseteq S /\ IsFiniteSet(T)
    BY <1>1, FS_Subset
  <1>3. \A b \in S : b \in Nat /\ IsFiniteSet(Below(S, b)) /\ C(b) \in Nat
    BY FS_Subset, FS_CardinalityType DEF Below
  <1>4. \A U, V : IsFiniteSet(V) /\ U \subseteq V =>
          Cardinality(U) \in Nat /\ Cardinality(V) \in Nat /\ Cardinality(U) <= Cardinality(V)
    BY FS_Subset, FS_CardinalityType
  <1>5. S \ T # {}
    <2> SUFFICES ASSUME S = T PROVE FALSE
      BY <1>2
    <2> QED BY <1>1, <1>4
  <1>6. PICK m \in S \ T : \A c \in S \ T : m <= c
    BY <1>5, LeastMember
  <1>7. \A b \in T : b < m
    <2> SUFFICES ASSUME NEW b \in T, ~(b < m) PROVE FALSE
      OBVIOUS
    <2>1. b \in Nat /\ m \in Nat /\ m <= b
      BY <1>2, <1>3, <1>6
    <2>2. Below(S, m) \subseteq Below(S, b)
      <3> SUFFICES ASSUME NEW a \in Below(S, m) PROVE a \in Below(S, b)
        OBVIOUS
      <3>1. a \in S /\ a < m
        BY DEF Below
      <3>2. a \in Nat
        BY <3>1
      <3>3. a < b
        BY <2>1, <3>1, <3>2
      <3> QED BY <3>1, <3>3 DEF Below
    <2>3. C(b) < n /\ ~(C(m) < n) /\ C(b) \in Nat /\ C(m) \in Nat
      BY <1>1, <1>3, <1>6
    <2>4. C(m) <= C(b)
      <3>1. IsFiniteSet(Below(S, b))
        BY <1>2, <1>3
      <3> QED BY <2>2, <3>1, <1>4
    <2> QED BY <2>3, <2>4
  <1>8. Below(S, m) = T
    <2>1. ASSUME NEW a \in Below(S, m), a \notin T PROVE FALSE
      <3>1. a \in S /\ a < m
        BY <2>1 DEF Below
      <3>2. m <= a
        BY <2>1, <3>1, <1>6
      <3> QED BY <3>1, <3>2, <1>3, <1>6
    <2> QED BY <2>1, <1>2, <1>7 DEF Below
  <1>9. Cardinality(T \cup {m}) = n + 1
    BY <1>1, <1>2, <1>6, FS_AddElement
  <1>10. C(m) < n + 1 /\ \A b \in T : C(b) < n + 1
    BY <1>1, <1>2, <1>3, <1>8
  <1>11. ASSUME NEW c \in S \ T, c # m PROVE ~(C(c) < n + 1)
    <2>1. m < c /\ \A b \in T : b < c
      BY <1>2, <1>3, <1>6, <1>7, <1>11
    <2>2. T \cup {m} \subseteq Below(S, c)
      BY <2>1, <1>2, <1>6 DEF Below
    <2>3. n + 1 <= C(c)
      BY <2>2, <1>3, <1>4, <1>9
    <2> QED BY <2>3, <1>3
  <1>12. \A b : b \in TakeLowest(S, n + 1) <=> b \in S /\ C(b) < n + 1
    BY TakenIsLow
  <1>13. TakeLowest(S, n + 1) = T \cup {m}
    BY <1>2, <1>6, <1>10, <1>11, <1>12
  <1> QED BY <1>9, <1>13

(* n calls of find_first_zero_bit() find n blocks, if there are so many.   *)
LEMMA TakeLowestCount ==
  ASSUME NEW S, S \subseteq Nat, IsFiniteSet(S), NEW n \in Nat, n <= Cardinality(S)
  PROVE  Cardinality(TakeLowest(S, n)) = n
  <1> DEFINE Bad == {k \in Nat : k <= Cardinality(S) /\ Cardinality(TakeLowest(S, k)) # k}
  <1> SUFFICES ASSUME Bad # {} PROVE FALSE
    OBVIOUS
  <1>0. Cardinality(S) \in Nat
    BY FS_CardinalityType
  <1>1. PICK m \in Bad : \A k \in Bad : m <= k
    BY LeastMember
  <1>2. m # 0
    <2>1. \A b \in S : IsFiniteSet(Below(S, b)) /\ Cardinality(Below(S, b)) \in Nat
      <3> SUFFICES ASSUME NEW b \in S
                   PROVE  IsFiniteSet(Below(S, b)) /\ Cardinality(Below(S, b)) \in Nat
        OBVIOUS
      <3>1. Below(S, b) \in SUBSET S
        BY DEF Below
      <3>2. IsFiniteSet(Below(S, b))
        BY <3>1, FS_Subset
      <3> QED BY <3>2, FS_CardinalityType
    <2>2. ASSUME NEW b \in TakeLowest(S, 0) PROVE FALSE
      <3>1. b \in S /\ Cardinality(Below(S, b)) < 0
        BY TakenIsLow
      <3> QED BY <2>1, <3>1
    <2>3. TakeLowest(S, 0) = {}
      BY <2>2
    <2> QED BY <2>3, <1>1, FS_EmptySet
  <1>3. m - 1 \in Nat /\ m - 1 < Cardinality(S)
    BY <1>0, <1>1, <1>2
  <1>4. Cardinality(TakeLowest(S, m - 1)) = m - 1
    BY <1>0, <1>1, <1>3
  <1>5. Cardinality(TakeLowest(S, (m - 1) + 1)) = (m - 1) + 1
    BY <1>3, <1>4, TakeLowestNext
  <1> QED BY <1>1, <1>5

LEMMA FiniteBlocks == Block \subseteq Nat /\ IsFiniteSet(Block)
  <1>1. 0 \in Int /\ BlkCnt - 1 \in Int
    BY ResourceAssumption
  <1>2. IsFiniteSet(0 .. (BlkCnt - 1))
    BY <1>1, FS_Interval
  <1> QED BY <1>1, <1>2 DEF Block

(* Client c of the pool holds no block.                                    *)
Vacant(g, c) == g.client_state[c] = {}

(* A client that held nothing gets as many blocks as it asks for.          *)
LEMMA RequestBlockCount ==
  ASSUME NEW g \in GlobalState, NEW cid \in Client, NEW n \in Nat,
         n <= Cardinality(FreeBlocks(g)), Vacant(g, cid)
  PROVE  LET h == smp_request_block(g, cid, n)
         IN  /\ Cardinality(h.client_state[cid]) = n
             /\ Cardinality(FreeBlocks(h)) = Cardinality(FreeBlocks(g)) - n
  <1> DEFINE h   == smp_request_block(g, cid, n)
             F   == FreeBlocks(g)
             got == TakeLowest(F, n)
  <1>1. Block \subseteq Nat /\ IsFiniteSet(Block)
    BY FiniteBlocks
  <1>2. F \subseteq Nat /\ F \subseteq Block /\ IsFiniteSet(F)
    BY <1>1, FS_Subset DEF FreeBlocks
  <1>3. Cardinality(got) = n
    BY <1>2, TakeLowestCount
  <1>4. /\ h.state = g.state \cup got
        /\ h.client_state[cid] = got
        /\ got \subseteq F
    <2>1. /\ h.state = g.state \cup got
          /\ h.client_state[cid] = g.client_state[cid] \cup got
          /\ got \subseteq Block \ g.state
      BY RequestBlockFields
    <2> QED BY <2>1 DEF FreeBlocks, Vacant
  <1>5. FreeBlocks(h) = F \ got
    BY <1>4 DEF FreeBlocks
  <1> HIDE DEF h, F, got
  <1>6. F \cap got = got
    BY <1>4
  <1>7. Cardinality(F \ got) = Cardinality(F) - n
    BY <1>2, <1>3, <1>6, FS_Difference
  <1> QED BY <1>3, <1>4, <1>5, <1>7 DEF h, F

LEMMA WantedType ==
  ASSUME NEW x \in Pipe, NEW cfg \in Seq(Nat), NEW i \in 1 .. 3
  PROVE  Wanted(x, cfg, i) \in Nat
  <1>1. <<x, i>> \in Client
    BY DEF Client
  <1>2. Reserved[<<x, i>>] \in Nat /\ NClients[x] \in {1, 3}
    BY <1>1, ResourceAssumption
  <1>3. i <= Len(cfg) => cfg[i] \in Nat
    OBVIOUS
  <1> QED BY <1>2, <1>3 DEF Wanted

(* If the blocks suffice, every client of the pipe has what it wanted.     *)
LEMMA SmpAssignCount ==
  ASSUME NEW g \in GlobalState, NEW x \in Pipe, NEW cfg \in Seq(Nat), Fits(g, x, cfg),
         \A i \in 1 .. 3 : Vacant(g, <<x, i>>)
  PROVE  Holds(mdp5_smp_assign(g, x, cfg), x, cfg)
  <1> DEFINE N(f) == Cardinality(FreeBlocks(f))
             g1 == smp_request_block(g,  <<x, 1>>, Wanted(x, cfg, 1))
             g2 == smp_request_block(g1, <<x, 2>>, Wanted(x, cfg, 2))
             g3 == smp_request_block(g2, <<x, 3>>, Wanted(x, cfg, 3))
             h  == [g3 EXCEPT !.assigned = g3.assigned \cup {x}]
  <1>1. <<x, 1>> \in Client /\ <<x, 2>> \in Client /\ <<x, 3>> \in Client
    BY DEF Client
  <1>2. mdp5_smp_assign(g, x, cfg) = h
    BY DEF mdp5_smp_assign
  <1>3. /\ <<x, 1>> # <<x, 2>> /\ <<x, 1>> # <<x, 3>> /\ <<x, 2>> # <<x, 3>>
        /\ Wanted(x, cfg, 1) \in Nat /\ Wanted(x, cfg, 2) \in Nat /\ Wanted(x, cfg, 3) \in Nat
    BY WantedType
  <1>4. N(g) \in Nat /\ Wanted(x, cfg, 1) + Wanted(x, cfg, 2) + Wanted(x, cfg, 3) <= N(g)
    <2>1. IsFiniteSet(Block)
      BY FiniteBlocks
    <2>2. IsFiniteSet(FreeBlocks(g))
      BY <2>1, FS_Subset DEF FreeBlocks
    <2> QED BY <2>2, FS_CardinalityType DEF Fits
  <1> HIDE DEF N
  <1>5. /\ g1 \in GlobalState
        /\ \A c \in Client : c # <<x, 1>> => g1.client_state[c] = g.client_state[c]
        /\ Cardinality(g1.client_state[<<x, 1>>]) = Wanted(x, cfg, 1) /\ N(g1) = N(g) - Wanted(x, cfg, 1)
    <2>1. Vacant(g, <<x, 1>>) /\ Wanted(x, cfg, 1) <= N(g)
      BY <1>3, <1>4
    <2>2. g1 \in GlobalState /\ \A c \in Client : c # <<x, 1>> => g1.client_state[c] = g.client_state[c]
      BY <1>1, RequestBlockEffect
    <2>3. Cardinality(g1.client_state[<<x, 1>>]) = Wanted(x, cfg, 1) /\ N(g1) = N(g) - Wanted(x, cfg, 1)
      BY <1>1, <1>3, <2>1, RequestBlockCount DEF N
    <2> QED BY <2>2, <2>3
  <1> HIDE DEF g1
  <1>6. /\ g2 \in GlobalState
        /\ \A c \in Client : c # <<x, 2>> => g2.client_state[c] = g1.client_state[c]
        /\ Cardinality(g2.client_state[<<x, 2>>]) = Wanted(x, cfg, 2) /\ N(g2) = N(g1) - Wanted(x, cfg, 2)
    <2>1. Wanted(x, cfg, 2) <= N(g1)
      BY <1>3, <1>4, <1>5
    <2>4. Vacant(g1, <<x, 2>>)
      <3>1. g1.client_state[<<x, 2>>] = g.client_state[<<x, 2>>]
        BY <1>1, <1>3, <1>5
      <3>2. Vacant(g, <<x, 2>>)
        OBVIOUS
      <3> QED BY <3>1, <3>2, Zenon DEF Vacant
    <2>2. g2 \in GlobalState /\ \A c \in Client : c # <<x, 2>> => g2.client_state[c] = g1.client_state[c]
      <3>1. g1 \in GlobalState
        BY <1>5
      <3> QED BY <1>1, <3>1, RequestBlockEffect, SMTT(60)
    <2>3. Cardinality(g2.client_state[<<x, 2>>]) = Wanted(x, cfg, 2) /\ N(g2) = N(g1) - Wanted(x, cfg, 2)
      BY <1>1, <1>3, <1>5, <2>1, <2>4, RequestBlockCount DEF N
    <2> QED BY <2>2, <2>3
  <1> HIDE DEF g2
  <1>7. /\ g3 \in GlobalState
        /\ \A c \in Client : c # <<x, 3>> => g3.client_state[c] = g2.client_state[c]
        /\ Cardinality(g3.client_state[<<x, 3>>]) = Wanted(x, cfg, 3)
    <2>1. Wanted(x, cfg, 3) <= N(g2)
      BY <1>3, <1>4, <1>5, <1>6
    <2>2. Vacant(g2, <<x, 3>>)
      <3>1. g1.client_state[<<x, 3>>] = g.client_state[<<x, 3>>]
        BY <1>1, <1>3, <1>5
      <3>2. g2.client_state[<<x, 3>>] = g1.client_state[<<x, 3>>]
        BY <1>1, <1>3, <1>6
      <3>3. Vacant(g, <<x, 3>>)
        OBVIOUS
      <3> QED BY <3>1, <3>2, <3>3, Zenon DEF Vacant
    <2>3. g3 \in GlobalState /\ \A c \in Client : c # <<x, 3>> => g3.client_state[c] = g2.client_state[c]
      <3>1. g2 \in GlobalState
        BY <1>6
      <3> QED BY <1>1, <3>1, RequestBlockEffect
    <2>4. Cardinality(g3.client_state[<<x, 3>>]) = Wanted(x, cfg, 3)
      BY <1>1, <1>3, <1>6, <2>1, <2>2, RequestBlockCount DEF N
    <2> QED BY <2>3, <2>4
  <1> HIDE DEF g3
  <1>8. h.client_state = g3.client_state
    BY <1>7 DEF GlobalState
  <1>9. /\ Cardinality(g3.client_state[<<x, 1>>]) = Wanted(x, cfg, 1)
        /\ Cardinality(g3.client_state[<<x, 2>>]) = Wanted(x, cfg, 2)
        /\ Cardinality(g3.client_state[<<x, 3>>]) = Wanted(x, cfg, 3)
    BY <1>1, <1>3, <1>5, <1>6, <1>7
  <1> HIDE DEF h
  <1>10. \A i \in 1 .. 3 : i = 1 \/ i = 2 \/ i = 3
    OBVIOUS
  <1>11. \A i \in 1 .. 3 : Cardinality(h.client_state[<<x, i>>]) = Wanted(x, cfg, i)
    BY <1>8, <1>9, <1>10
  <1> QED BY <1>2, <1>11 DEF Holds

(* The blocks of a pipe are those of its clients, counted one by one.      *)
LEMMA NumBlocksCounts ==
  ASSUME NEW g \in GlobalState, PoolOK(g), NEW x \in Pipe
  PROVE  NumBlocks(g, x) = Cardinality(BlocksOf(g, x)) /\ NumBlocks(g, x) \in Nat
  <1> DEFINE B(i) == g.client_state[<<x, i>>]
  <1>1. <<x, 1>> \in Client /\ <<x, 2>> \in Client /\ <<x, 3>> \in Client
    BY DEF Client
  <1>2. IsFiniteSet(Block)
    BY FiniteBlocks
  <1>3. B(1) \subseteq Block /\ B(2) \subseteq Block /\ B(3) \subseteq Block
    BY <1>1 DEF GlobalState
  <1>4. BlocksOf(g, x) = (B(1) \cup B(2)) \cup B(3)
    <2>1. \A i : i \in 1 .. 3 <=> i = 1 \/ i = 2 \/ i = 3
      OBVIOUS
    <2> QED BY <2>1 DEF BlocksOf
  <1>5. B(1) \cap B(2) = {} /\ (B(1) \cup B(2)) \cap B(3) = {}
    <2>1. <<x, 1>> # <<x, 2>> /\ <<x, 1>> # <<x, 3>> /\ <<x, 2>> # <<x, 3>>
      OBVIOUS
    <2>2. B(1) \cap B(2) = {} /\ B(1) \cap B(3) = {} /\ B(2) \cap B(3) = {}
      BY <1>1, <2>1 DEF PoolOK
    <2> QED BY <2>2
  <1>6. NumBlocks(g, x) = Cardinality(B(1)) + Cardinality(B(2)) + Cardinality(B(3))
    BY DEF NumBlocks
  <1> HIDE DEF B
  <1>7. /\ IsFiniteSet(B(1)) /\ IsFiniteSet(B(2)) /\ IsFiniteSet(B(3))
        /\ Cardinality(B(1)) \in Nat /\ Cardinality(B(2)) \in Nat /\ Cardinality(B(3)) \in Nat
    BY <1>2, <1>3, FS_Subset, FS_CardinalityType
  <1>8. IsFiniteSet(B(1) \cup B(2)) /\ Cardinality(B(1) \cup B(2)) = Cardinality(B(1)) + Cardinality(B(2))
    BY <1>5, <1>7, FS_Union, FS_EmptySet
  <1>9. Cardinality((B(1) \cup B(2)) \cup B(3)) = Cardinality(B(1) \cup B(2)) + Cardinality(B(3))
    BY <1>5, <1>7, <1>8, FS_Union, FS_EmptySet
  <1> QED BY <1>4, <1>6, <1>7, <1>8, <1>9

(* Releasing a pipe disturbs no other pipe, and records what it gave back. *)
LEMMA PipeReleaseRest ==
  ASSUME NEW g \in GlobalState, NEW x \in Pipe \cup {NoPipe}
  PROVE  LET h == mdp5_pipe_release(g, x)
         IN  /\ \A c \in Client : c[1] # x => h.client_state[c] = g.client_state[c]
             /\ \A z \in Pipe : z \in h.released <=> z \in g.released \/ (z = x /\ Owned(g, z))
  <1> DEFINE h  == mdp5_pipe_release(g, x)
             h1 == mdp5_smp_release(g, x)
             h2 == [h1 EXCEPT !.hwpipe_to_plane[x] = NoPlane]
  <1>1. CASE x \notin Pipe \/ g.hwpipe_to_plane[x] = NoPlane
    <2>1. h = g
      BY <1>1, PipeReleaseUnowned
    <2> QED BY <1>1, <2>1 DEF Owned
  <1>2. CASE x \in Pipe /\ g.hwpipe_to_plane[x] # NoPlane
    <2>1. h = h2
      BY <1>2, NoPipeIsNoPipe DEF mdp5_pipe_release
    <2>2. /\ h1 \in GlobalState
          /\ \A c \in Client : c[1] # x => h1.client_state[c] = g.client_state[c]
          /\ h1.released = g.released \cup {x}
      BY <1>2, SmpReleaseFields
    <2> HIDE DEF h1
    <2>3. h2.client_state = h1.client_state /\ h2.released = h1.released
      BY <2>2 DEF GlobalState
    <2> HIDE DEF h, h2
    <2>4. \A z \in Pipe : z \in h.released <=> z \in g.released \/ (z = x /\ Owned(g, z))
      BY <1>2, <2>1, <2>2, <2>3 DEF Owned
    <2> QED BY <2>1, <2>2, <2>3, <2>4 DEF h
  <1> QED BY <1>1, <1>2

(* What becomes of global state g when the only pipe of s is given back.   *)
GivenBack(g, s, h) ==
  /\ \A c \in Client : c[1] \notin PipesOf(s) => h.client_state[c] = g.client_state[c]
  /\ \A z \in Pipe : z \in h.released <=> z \in g.released \/ (z \in PipesOf(s) /\ Owned(g, z))

LEMMA ReleasePipesRest ==
  ASSUME NEW g \in GlobalState, NEW s \in PlaneState, s.r_hwpipe = NoPipe
  PROVE  GivenBack(g, s, ReleasePipes(g, s))
  <1> DEFINE g1 == mdp5_pipe_release(g, s.hwpipe)
  <1>1. ReleasePipes(g, s) = g1
    BY DEF ReleasePipes, mdp5_pipe_release
  <1>2. s.hwpipe \in Pipe \cup {NoPipe}
    BY DEF PlaneState
  <1>3. \A z \in Pipe : z \in PipesOf(s) <=> z = s.hwpipe
    BY NoPipeIsNoPipe DEF PipesOf
  <1>4. \A c \in Client : c[1] \in Pipe
    BY DEF Client
  <1>5. /\ \A c \in Client : c[1] # s.hwpipe => g1.client_state[c] = g.client_state[c]
        /\ \A z \in Pipe : z \in g1.released <=> z \in g.released \/ (z = s.hwpipe /\ Owned(g, z))
    BY <1>2, PipeReleaseRest
  <1> HIDE DEF g1
  <1> QED BY <1>1, <1>3, <1>4, <1>5 DEF GivenBack

LEMMA CheckInvisibleRest ==
  ASSUME TypeOK, NEW p \in Plane, CheckInvisible(p), chk.planes[p].r_hwpipe = NoPipe
  PROVE  GivenBack(chk.glob, chk.planes[p], chk'.glob)
  <1> DEFINE h == ReleasePipes(chk.glob, chk.planes[p])
             t == [hwpipe |-> NoPipe, r_hwpipe |-> NoPipe, req |-> Off]
  <1>1. chk \in CheckState /\ chk.glob \in GlobalState /\ chk.planes[p] \in PlaneState
    BY DEF TypeOK, CheckState
  <1>2. chk' = [chk EXCEPT !.todo = @ \ {p}, !.glob = h, !.planes[p] = t]
    BY DEF CheckInvisible, Checked
  <1>3. GivenBack(chk.glob, chk.planes[p], h)
    BY <1>1, ReleasePipesRest
  <1> HIDE DEF h, t
  <1>4. chk'.glob = h
    BY <1>1, <1>2 DEF CheckState
  <1> QED BY <1>3, <1>4

(* An assignment fills the new pipe, and disturbs no pipe but it and the   *)
(* one given back.                                                         *)
LEMMA AssignPipeRest ==
  ASSUME TypeOK, NEW p \in Plane, NEW s \in PlaneState, s.r_hwpipe = NoPipe,
         NEW r \in Request, NEW x \in Pipe, AssignPipe(p, s, r, x, NoPipe),
         x \notin PipesOf(s), \A i \in 1 .. 3 : Vacant(chk.glob, <<x, i>>)
  PROVE  /\ Holds(chk'.glob, x, r.blkcfg)
         /\ \A c \in Client : c[1] # x /\ c[1] \notin PipesOf(s) =>
              chk'.glob.client_state[c] = chk.glob.client_state[c]
         /\ \A z \in Pipe : z # x => (z \in chk'.glob.released <=>
              z \in chk.glob.released \/ (z \in PipesOf(s) /\ Owned(chk.glob, z)))
         /\ x \in chk'.glob.released <=> x \in chk.glob.released
         /\ blkcfg' = [blkcfg EXCEPT ![x] = r.blkcfg]
  <1> DEFINE a == mdp5_smp_assign(chk.glob, x, r.blkcfg)
             f == [z \in Pipe |-> IF z \in {x, NoPipe} THEN p ELSE a.hwpipe_to_plane[z]]
             g == [a EXCEPT !.hwpipe_to_plane = f]
             h == ReleasePipes(g, s)
             t == [hwpipe |-> x, r_hwpipe |-> NoPipe, req |-> r]
  <1>1. chk \in CheckState /\ chk.glob \in GlobalState /\ r.blkcfg \in Seq(Nat)
    BY RequestFields DEF TypeOK, CheckState
  <1>2. chk' = [chk EXCEPT !.todo = @ \ {p}, !.glob = h, !.planes[p] = t]
    BY DEF AssignPipe, Checked, mdp5_pipe_assign, SmpAssignRight
  <1>3. Holds(a, x, r.blkcfg)
    BY <1>1, SmpAssignCount DEF AssignPipe
  <1>4. /\ a \in GlobalState
        /\ a.hwpipe_to_plane = chk.glob.hwpipe_to_plane
        /\ \A c \in Client : c[1] # x => a.client_state[c] = chk.glob.client_state[c]
    BY <1>1, SmpAssignEffect
  <1>5. a.released = chk.glob.released
    <2> DEFINE g1 == smp_request_block(chk.glob,  <<x, 1>>, Wanted(x, r.blkcfg, 1))
               g2 == smp_request_block(g1, <<x, 2>>, Wanted(x, r.blkcfg, 2))
               g3 == smp_request_block(g2, <<x, 3>>, Wanted(x, r.blkcfg, 3))
               b  == [g3 EXCEPT !.assigned = g3.assigned \cup {x}]
    <2>1. <<x, 1>> \in Client /\ <<x, 2>> \in Client /\ <<x, 3>> \in Client
      BY DEF Client
    <2>2. a = b
      BY DEF mdp5_smp_assign
    <2> HIDE DEF a, b
    <2>3. g1 \in GlobalState /\ g1.released = chk.glob.released
      BY <1>1, <2>1, RequestBlockFields
    <2> HIDE DEF g1
    <2>4. g2 \in GlobalState /\ g2.released = g1.released
      BY <2>1, <2>3, RequestBlockFields
    <2> HIDE DEF g2
    <2>5. g3 \in GlobalState /\ g3.released = g2.released
      BY <2>1, <2>4, RequestBlockFields
    <2> HIDE DEF g3
    <2>6. b.released = g3.released
      BY <2>5 DEF GlobalState, b
    <2> QED BY <2>2, <2>3, <2>4, <2>5, <2>6
  <1> HIDE DEF a
  <1>6. p \in Plane \cup {NoPlane} /\ f \in [Pipe -> Plane \cup {NoPlane}]
    BY <1>4 DEF GlobalState
  <1> HIDE DEF f
  <1>7. /\ g \in GlobalState /\ g.hwpipe_to_plane = f
        /\ g.client_state = a.client_state /\ g.released = a.released
    BY <1>4, <1>6 DEF GlobalState
  <1> HIDE DEF g
  <1>8. GivenBack(g, s, h)
    BY <1>7, ReleasePipesRest
  <1> HIDE DEF h, t
  <1>9. chk'.glob = h
    BY <1>1, <1>2 DEF CheckState
  <1>10. \A z \in Pipe : z # x => (Owned(g, z) <=> Owned(chk.glob, z))
    BY <1>4, <1>7, NoPipeIsNoPipe DEF Owned, f
  <1>11. Holds(h, x, r.blkcfg)
    <2>1. \A i \in 1 .. 3 : <<x, i>> \in Client /\ <<x, i>>[1] = x
      BY DEF Client
    <2>2. \A i \in 1 .. 3 : h.client_state[<<x, i>>] = a.client_state[<<x, i>>]
      BY <1>7, <1>8, <2>1 DEF GivenBack
    <2> QED BY <1>3, <2>2 DEF Holds
  <1>12. \A c \in Client : c[1] # x /\ c[1] \notin PipesOf(s) =>
           h.client_state[c] = chk.glob.client_state[c]
    BY <1>4, <1>7, <1>8 DEF GivenBack
  <1>13. \A z \in Pipe : z # x => (z \in h.released <=>
           z \in chk.glob.released \/ (z \in PipesOf(s) /\ Owned(chk.glob, z)))
    BY <1>5, <1>7, <1>8, <1>10 DEF GivenBack
  <1>14. x \in h.released <=> x \in chk.glob.released
    BY <1>5, <1>7, <1>8 DEF GivenBack
  <1>15. blkcfg' = [blkcfg EXCEPT ![x] = r.blkcfg]
    BY NoPipeIsNoPipe DEF AssignPipe, SetBlkcfg, TypeOK
  <1> QED BY <1>9, <1>11, <1>12, <1>13, <1>14, <1>15

(* A plane keeps its pipe only if the new request wants the same blocks.   *)
LEMMA CheckKeepsBlocks ==
  ASSUME TypeOK, NEW p \in Plane, CheckKeepsPipe(p)
  PROVE  /\ chk.planes[p].hwpipe \in Pipe
         /\ chk'.planes[p].req.blkcfg = blkcfg[chk.planes[p].hwpipe]
  <1>1. PICK r \in Requested(p) : /\ Checked(p, chk.glob, [chk.planes[p] EXCEPT !.req = r])
                                  /\ ~NeedsNewPipe(chk.glob, p, chk.planes[p], r)
    BY DEF CheckKeepsPipe
  <1> DEFINE t == [chk.planes[p] EXCEPT !.req = r]
  <1>2. /\ r \in Request /\ chk \in CheckState
        /\ chk.planes[p] \in PlaneState /\ chk.glob \in GlobalState
    BY RequestedIsRequest DEF TypeOK, CheckState
  <1>3. t \in PlaneState /\ t.req = r
    BY <1>2 DEF PlaneState
  <1>4. Checked(p, chk.glob, t)
    BY <1>1
  <1>5. chk.planes[p].hwpipe \in Pipe /\ blkcfg[chk.planes[p].hwpipe] = r.blkcfg
    BY <1>1, <1>2 DEF NeedsNewPipe, PlaneState
  <1> HIDE DEF t
  <1>6. chk'.planes[p] = t
    BY <1>2, <1>3, <1>4, CheckedFields
  <1> QED BY <1>3, <1>5, <1>6

(* A free pipe holds no block.                                             *)
LEMMA FreeIsVacant ==
  ASSUME NEW g \in GlobalState, OnlyOwnersHold(g), NEW x \in Pipe, ~Owned(g, x)
  PROVE  \A i \in 1 .. 3 : Vacant(g, <<x, i>>)
  <1> SUFFICES ASSUME NEW i \in 1 .. 3 PROVE Vacant(g, <<x, i>>)
    OBVIOUS
  <1>1. <<x, i>> \in Client /\ <<x, i>>[1] = x
    BY DEF Client
  <1> QED BY <1>1 DEF OnlyOwnersHold, Owned, Vacant

LEMMA HoldsStays ==
  ASSUME NEW g, NEW h, NEW x \in Pipe, NEW cfg, Holds(g, x, cfg),
         \A c \in Client : c[1] = x => h.client_state[c] = g.client_state[c]
  PROVE  Holds(h, x, cfg)
  <1>1. \A i \in 1 .. 3 : <<x, i>> \in Client /\ <<x, i>>[1] = x
    BY DEF Client
  <1>2. \A i \in 1 .. 3 : h.client_state[<<x, i>>] = g.client_state[<<x, i>>]
    BY <1>1
  <1> QED BY <1>2 DEF Holds

LEMMA EmptyCovered == ASSUME NEW ps PROVE Covered(EmptyGlobal, ps)
  BY DEF Covered, EmptyGlobal, Plane, NoPlane

LEMMA InitCover == Init => CoverInv
  BY EmptyCovered DEF Init, CoverInv, NoCheck

LEMMA NextCover ==
  ASSUME NoRight, ~Suspends, TypeOK, NothingLeaks, OwnerInv, CoverInv, [Next]_vars
  PROVE  CoverInv'
  <1>0. /\ Agree(chk.glob, chk.planes)
        /\ glob \in GlobalState /\ chk.glob \in GlobalState
        /\ chk.planes \in [Plane -> PlaneState]
        /\ \A q \in Plane : chk.planes[q].r_hwpipe = NoPipe
        /\ OnlyOwnersHold(chk.glob)
        /\ Covered(glob, planes) /\ Covered(chk.glob, chk.planes)
        /\ blkcfg \in [Pipe -> Seq(Nat)]
    BY DEF OwnerInv, TypeOK, CheckState, NothingLeaks, HeldIsNamed, CoverInv
  <1>n. \A p \in Plane : p # NoPlane
    BY DEF Plane, NoPlane
  <1>1. CASE UserCommit
    BY <1>0, <1>1 DEF UserCommit, BeginCheck, CoverInv, Covered
  <1>2. CASE Suspend \/ Resume
    BY <1>2 DEF Suspend, Resume, OwnerInv
  <1>3. CASE Discard \/ \E p \in Plane : CheckFails(p)
    <2>1. blkcfg' = blkcfg
      <3>1. ASSUME NEW p \in Plane, CheckFails(p), blkcfg' # blkcfg
            PROVE  FALSE
        <4>1. PICK r \in Requested(p) \ {Off}, x \in Pipe, y \in Pipe \cup {NoPipe} :
                Chosen(chk.glob, p, r, x, y) /\ y # NoPipe
          BY <3>1 DEF CheckFails
        <4>2. r \in Configs
          BY <4>1, RequestedIsRequest DEF Request
        <4> QED BY <4>1, <4>2 DEF Chosen, NoRight
      <3> QED BY <1>3, <3>1 DEF Discard
    <2>2. glob' = glob /\ planes' = planes /\ chk' = NoCheck
      BY <1>3 DEF Discard, CheckFails
    <2>3. Covered(glob, planes)'
      BY <1>0, <2>1, <2>2 DEF Covered, Holds
    <2>4. Covered(chk.glob, chk.planes)'
      BY <2>2, <1>n DEF Covered, NoCheck, EmptyGlobal
    <2> QED BY <2>3, <2>4 DEF CoverInv
  <1>4. ASSUME NEW p \in Plane, CheckInvisible(p)
        PROVE  CoverInv'
    <2>1. glob' = glob /\ planes' = planes /\ blkcfg' = blkcfg
      BY <1>4 DEF CheckInvisible
    <2>2. /\ \A q \in Plane : q # p => chk'.planes[q] = chk.planes[q]
          /\ \A z \in Pipe : z \in PipesOf(chk.planes[p]) =>
                               chk'.glob.hwpipe_to_plane[z] = NoPlane
          /\ \A z \in Pipe : z \notin PipesOf(chk.planes[p]) =>
                               chk'.glob.hwpipe_to_plane[z] = chk.glob.hwpipe_to_plane[z]
      BY <1>4, CheckInvisibleEffect
    <2>3. \A c \in Client : c[1] \notin PipesOf(chk.planes[p]) =>
            chk'.glob.client_state[c] = chk.glob.client_state[c]
      BY <1>0, <1>4, CheckInvisibleRest DEF GivenBack
    <2>4. ASSUME NEW z \in Pipe, NEW q \in Plane, chk'.glob.hwpipe_to_plane[z] = q
          PROVE  blkcfg[z] = chk'.planes[q].req.blkcfg /\ Holds(chk'.glob, z, blkcfg[z])
      <3>1. z \notin PipesOf(chk.planes[p]) /\ chk.glob.hwpipe_to_plane[z] = q
        BY <1>n, <2>2, <2>4
      <3>2. q # p
        BY <1>0, <3>1 DEF Agree
      <3>3. blkcfg[z] = chk.planes[q].req.blkcfg /\ Holds(chk.glob, z, blkcfg[z])
        BY <1>0, <3>1 DEF Covered
      <3>4. Holds(chk'.glob, z, blkcfg[z])
        BY <2>3, <3>1, <3>3, HoldsStays
      <3> QED BY <2>2, <3>2, <3>3, <3>4
    <2>5. Covered(chk.glob, chk.planes)'
      BY <2>1, <2>4 DEF Covered, Holds
    <2>6. Covered(glob, planes)'
      BY <1>0, <2>1 DEF Covered, Holds
    <2> QED BY <2>5, <2>6 DEF CoverInv
  <1>5. ASSUME NEW p \in Plane, CheckKeepsPipe(p)
        PROVE  CoverInv'
    <2>1. glob' = glob /\ planes' = planes /\ blkcfg' = blkcfg
      BY <1>5 DEF CheckKeepsPipe
    <2>2. /\ chk'.glob = chk.glob
          /\ \A q \in Plane : q # p => chk'.planes[q] = chk.planes[q]
      BY <1>5, CheckKeepsEffect
    <2>3. /\ chk.planes[p].hwpipe \in Pipe
          /\ chk'.planes[p].req.blkcfg = blkcfg[chk.planes[p].hwpipe]
      BY <1>5, CheckKeepsBlocks
    <2>4. ASSUME NEW z \in Pipe, NEW q \in Plane, chk.glob.hwpipe_to_plane[z] = q
          PROVE  blkcfg[z] = chk'.planes[q].req.blkcfg /\ Holds(chk.glob, z, blkcfg[z])
      <3>1. blkcfg[z] = chk.planes[q].req.blkcfg /\ Holds(chk.glob, z, blkcfg[z])
        BY <1>0, <2>4 DEF Covered
      <3>2. CASE q = p
        <4>1. z \in PipesOf(chk.planes[p])
          BY <1>0, <2>4, <3>2 DEF Agree
        <4>2. z = chk.planes[p].hwpipe
          BY <1>0, <4>1 DEF PipesOf
        <4> QED BY <2>3, <3>1, <3>2, <4>2
      <3> QED BY <2>2, <3>1, <3>2
    <2>5. Covered(chk.glob, chk.planes)'
      BY <2>1, <2>2, <2>4 DEF Covered, Holds
    <2>6. Covered(glob, planes)'
      BY <1>0, <2>1 DEF Covered, Holds
    <2> QED BY <2>5, <2>6 DEF CoverInv
  <1>6. ASSUME NEW p \in Plane, CheckAssigns(p)
        PROVE  CoverInv'
    <2>1. glob' = glob /\ planes' = planes
      BY <1>6 DEF CheckAssigns
    <2>2. PICK r \in Request, x \in Pipe, y \in Pipe \cup {NoPipe} :
            /\ r # Off /\ Chosen(chk.glob, p, r, x, y)
            /\ AssignPipe(p, chk.planes[p], r, x, y)
            /\ AssignedTo(p, chk.planes[p], r, x, y)
      BY <1>6, CheckAssignsPicks, AssignPipeEffect
    <2>3. y = NoPipe
      BY <2>2 DEF Chosen, Request, NoRight
    <2>4. ~Owned(glob, x) /\ ~Owned(chk.glob, x)
      BY <2>2 DEF Chosen, Candidates, Available, Owned
    <2> DEFINE s == chk.planes[p]
    <2>5. s \in PlaneState /\ s.r_hwpipe = NoPipe
      BY <1>0
    <2>6. x \notin PipesOf(s)
      BY <1>0, <1>n, <2>4 DEF Agree, Owned
    <2>7. \A i \in 1 .. 3 : Vacant(chk.glob, <<x, i>>)
      BY <1>0, <2>4, FreeIsVacant
    <2>8. /\ Holds(chk'.glob, x, r.blkcfg)
          /\ \A c \in Client : c[1] # x /\ c[1] \notin PipesOf(s) =>
               chk'.glob.client_state[c] = chk.glob.client_state[c]
          /\ blkcfg' = [blkcfg EXCEPT ![x] = r.blkcfg]
      BY <2>2, <2>3, <2>5, <2>6, <2>7, AssignPipeRest
    <2>9. /\ chk'.planes[p].req = r
          /\ \A q \in Plane : q # p => chk'.planes[q] = chk.planes[q]
          /\ \A z \in Pipe : z \in PipesOf(s) => chk'.glob.hwpipe_to_plane[z] = NoPlane
          /\ chk'.glob.hwpipe_to_plane[x] = p
          /\ \A z \in Pipe : z \notin PipesOf(s) /\ z # x =>
                               chk'.glob.hwpipe_to_plane[z] = chk.glob.hwpipe_to_plane[z]
      BY <2>2, <2>3, <2>6, NoPipeIsNoPipe DEF AssignedTo
    <2>10. \A z \in Pipe : z \in PipesOf(s) <=> chk.glob.hwpipe_to_plane[z] = p
      BY <1>0 DEF Agree
    <2> HIDE DEF s
    <2>11. blkcfg'[x] = r.blkcfg /\ \A z \in Pipe : z # x => blkcfg'[z] = blkcfg[z]
      BY <1>0, <2>8
    <2>12. ASSUME NEW z \in Pipe, NEW q \in Plane, chk'.glob.hwpipe_to_plane[z] = q
           PROVE  blkcfg'[z] = chk'.planes[q].req.blkcfg /\ Holds(chk'.glob, z, blkcfg'[z])
      <3>1. CASE z = x
        BY <2>8, <2>9, <2>11, <2>12, <3>1
      <3>2. CASE z # x
        <4>1. z \notin PipesOf(s) /\ chk.glob.hwpipe_to_plane[z] = q
          BY <1>n, <2>9, <2>12, <3>2
        <4>2. q # p
          BY <2>10, <4>1
        <4>3. blkcfg[z] = chk.planes[q].req.blkcfg /\ Holds(chk.glob, z, blkcfg[z])
          BY <1>0, <4>1 DEF Covered
        <4>4. Holds(chk'.glob, z, blkcfg[z])
          BY <2>8, <3>2, <4>1, <4>3, HoldsStays
        <4> QED BY <2>9, <2>11, <3>2, <4>2, <4>3, <4>4
      <3> QED BY <3>1, <3>2
    <2>13. Covered(chk.glob, chk.planes)'
      BY <2>12 DEF Covered, Holds
    <2>14. Covered(glob, planes)'
      <3> SUFFICES ASSUME NEW z \in Pipe, NEW q \in Plane, glob.hwpipe_to_plane[z] = q
                   PROVE  blkcfg'[z] = planes[q].req.blkcfg /\ Holds(glob, z, blkcfg'[z])
        BY <2>1 DEF Covered, Holds
      <3>1. z # x
        BY <1>n, <2>4 DEF Owned
      <3> QED BY <1>0, <2>11, <3>1 DEF Covered
    <2> QED BY <2>13, <2>14 DEF CoverInv
  <1>7. CASE SwapState
    <2>1. glob' = chk.glob /\ planes' = chk.planes /\ chk' = NoCheck /\ blkcfg' = blkcfg
      BY <1>7 DEF SwapState
    <2>2. Covered(glob, planes)'
      BY <1>0, <2>1 DEF Covered, Holds
    <2>3. Covered(chk.glob, chk.planes)'
      BY <2>1, <1>n DEF Covered, NoCheck, EmptyGlobal
    <2> QED BY <2>2, <2>3 DEF CoverInv
  <1>8. CASE PrepareCommit \/ CompleteCommit
    <2>1. /\ glob'.hwpipe_to_plane = glob.hwpipe_to_plane
          /\ glob'.client_state = glob.client_state
          /\ chk' = chk /\ planes' = planes
      BY <1>8, ClearedSets
    <2>2. blkcfg' = blkcfg
      BY <1>8 DEF PrepareCommit, CompleteCommit
    <2> QED BY <1>0, <2>1, <2>2 DEF CoverInv, Covered, Holds
  <1>9. CASE Vsync \/ UNCHANGED vars
    <2>1. glob' = glob /\ chk' = chk /\ planes' = planes /\ blkcfg' = blkcfg
      BY <1>9 DEF Vsync, vars
    <2> QED BY <1>0, <2>1 DEF CoverInv, Covered, Holds
  <1> QED BY <1>1, <1>2, <1>3, <1>4, <1>5, <1>6, <1>7, <1>8, <1>9 DEF Next

LEMMA InitCheckWatermark == Init => CheckInv /\ WatermarkInv
  BY DEF Init, NoCheck, EmptyGlobal, CheckInv, WatermarkInv, LiveWatermarks, Checking, Owned

(* Without overlap a check runs between two commits only.                  *)
LEMMA NextCheck ==
  ASSUME NoRight, ~Suspends, ~Overlap, TypeOK, NothingLeaks, OwnerInv, CheckInv, WatermarkInv,
         [Next]_vars
  PROVE  CheckInv'
  <1>0. /\ Agree(glob, planes) /\ Agree(chk.glob, chk.planes)
        /\ glob \in GlobalState /\ chk.glob \in GlobalState
        /\ planes \in [Plane -> PlaneState] /\ chk.planes \in [Plane -> PlaneState]
        /\ \A q \in Plane : chk.planes[q].r_hwpipe = NoPipe
        /\ chk.todo \subseteq Plane /\ OnlyOwnersHold(chk.glob)
    BY DEF OwnerInv, TypeOK, CheckState, NothingLeaks, HeldIsNamed
  <1>n. \A p \in Plane : p # NoPlane
    BY DEF Plane, NoPlane
  <1>i. \A x \in Pipe, i \in 1 .. 3 : <<x, i>> \in Client /\ <<x, i>>[1] = x
    BY DEF Client
  <1>1. CASE UserCommit
    <2>1. /\ chk'.glob = glob /\ chk'.planes = planes /\ glob' = glob /\ planes' = planes
          /\ tail = "idle" /\ tail' = tail
      BY <1>1 DEF UserCommit, BeginCheck
    <2>2. glob.assigned = {} /\ glob.released = {}
      BY <2>1 DEF WatermarkInv
    <2> QED BY <2>1, <2>2 DEF CheckInv
  <1>2. CASE Suspend \/ Resume
    BY <1>2 DEF Suspend, Resume, OwnerInv
  <1>3. CASE Discard \/ SwapState \/ \E p \in Plane : CheckFails(p)
    <2>1. chk' = NoCheck
      BY <1>3 DEF Discard, SwapState, CheckFails
    <2> QED BY <2>1 DEF CheckInv, Checking, NoCheck
  <1>4. ASSUME NEW p \in Plane, CheckInvisible(p)
        PROVE  CheckInv'
    <2>1. /\ glob' = glob /\ planes' = planes /\ tail' = tail /\ p \in chk.todo
          /\ Checking
      BY <1>4 DEF CheckInvisible, NextPlane, Requested, Checking
    <2>2. /\ chk'.todo = chk.todo \ {p}
          /\ chk'.glob.assigned = chk.glob.assigned
          /\ \A q \in Plane : q # p => chk'.planes[q] = chk.planes[q]
          /\ \A z \in Pipe : z \in PipesOf(chk.planes[p]) =>
                               chk'.glob.hwpipe_to_plane[z] = NoPlane
          /\ \A z \in Pipe : z \notin PipesOf(chk.planes[p]) =>
                               chk'.glob.hwpipe_to_plane[z] = chk.glob.hwpipe_to_plane[z]
      BY <1>4, CheckInvisibleEffect
    <2>3. GivenBack(chk.glob, chk.planes[p], chk'.glob)
      BY <1>0, <1>4, CheckInvisibleRest
    <2>4. tail = "idle" /\ chk.planes[p] = planes[p]
      BY <2>1 DEF CheckInv
    <2>5. \A q \in chk'.todo : chk'.planes[q] = planes[q]
      BY <1>0, <2>1, <2>2 DEF CheckInv
    <2>6. ASSUME NEW x \in Pipe, x \in chk'.glob.assigned
          PROVE  ~Owned(glob, x)
      BY <2>1, <2>2, <2>6 DEF CheckInv
    <2>7. ASSUME NEW x \in Pipe, x \in chk'.glob.released
          PROVE  Owned(glob, x) /\ ~Owned(chk'.glob, x)
      <3>1. CASE x \in chk.glob.released
        <4>1. Owned(glob, x) /\ ~Owned(chk.glob, x)
          BY <2>1, <3>1 DEF CheckInv
        <4> QED BY <2>2, <4>1 DEF Owned
      <3>2. CASE x \in PipesOf(chk.planes[p])
        <4>1. glob.hwpipe_to_plane[x] = p
          BY <1>0, <2>4, <3>2 DEF Agree
        <4> QED BY <1>n, <2>2, <3>2, <4>1 DEF Owned
      <3> QED BY <2>3, <2>7, <3>1, <3>2 DEF GivenBack
    <2>8. ASSUME NEW x \in Pipe, x \notin chk'.glob.assigned, Owned(chk'.glob, x)
          PROVE  /\ Owned(glob, x)
                 /\ \A i \in 1 .. 3 : chk'.glob.client_state[<<x, i>>] = glob.client_state[<<x, i>>]
      <3>1. x \notin PipesOf(chk.planes[p]) /\ Owned(chk.glob, x) /\ x \notin chk.glob.assigned
        BY <2>2, <2>8 DEF Owned
      <3>2. /\ Owned(glob, x)
            /\ \A i \in 1 .. 3 : chk.glob.client_state[<<x, i>>] = glob.client_state[<<x, i>>]
        BY <2>1, <3>1 DEF CheckInv
      <3>3. \A i \in 1 .. 3 : chk'.glob.client_state[<<x, i>>] = chk.glob.client_state[<<x, i>>]
        BY <1>i, <2>3, <3>1 DEF GivenBack
      <3> QED BY <3>2, <3>3
    <2> QED BY <2>1, <2>4, <2>5, <2>6, <2>7, <2>8 DEF CheckInv, Owned
  <1>5. ASSUME NEW p \in Plane, CheckKeepsPipe(p)
        PROVE  CheckInv'
    <2>1. /\ glob' = glob /\ planes' = planes /\ tail' = tail /\ Checking
      BY <1>5 DEF CheckKeepsPipe, NextPlane, Requested, Checking
    <2>2. /\ chk'.glob = chk.glob /\ chk'.todo = chk.todo \ {p}
          /\ \A q \in Plane : q # p => chk'.planes[q] = chk.planes[q]
      BY <1>5, CheckKeepsEffect
    <2>3. \A q \in chk'.todo : chk'.planes[q] = planes[q]
      BY <1>0, <2>1, <2>2 DEF CheckInv
    <2> QED BY <2>1, <2>2, <2>3 DEF CheckInv, Owned
  <1>6. ASSUME NEW p \in Plane, CheckAssigns(p)
        PROVE  CheckInv'
    <2>1. /\ glob' = glob /\ planes' = planes /\ tail' = tail /\ p \in chk.todo
          /\ Checking
      BY <1>6 DEF CheckAssigns, NextPlane, Requested, Checking
    <2>2. PICK r \in Request, x \in Pipe, y \in Pipe \cup {NoPipe} :
            /\ r # Off /\ Chosen(chk.glob, p, r, x, y)
            /\ AssignPipe(p, chk.planes[p], r, x, y)
            /\ AssignedTo(p, chk.planes[p], r, x, y)
      BY <1>6, CheckAssignsPicks, AssignPipeEffect
    <2>3. y = NoPipe
      BY <2>2 DEF Chosen, Request, NoRight
    <2>4. ~Owned(glob, x) /\ ~Owned(chk.glob, x)
      BY <2>2 DEF Chosen, Candidates, Available, Owned
    <2> DEFINE s == chk.planes[p]
    <2>5. s \in PlaneState /\ s.r_hwpipe = NoPipe /\ s = planes[p] /\ tail = "idle"
      BY <1>0, <2>1 DEF CheckInv
    <2>6. \A z \in Pipe : z \in PipesOf(s) => glob.hwpipe_to_plane[z] = p
      BY <1>0, <2>5 DEF Agree
    <2>7. x \notin PipesOf(s)
      BY <1>n, <2>4, <2>6 DEF Owned
    <2>8. /\ chk'.todo = chk.todo \ {p}
          /\ \A q \in Plane : q # p => chk'.planes[q] = chk.planes[q]
          /\ \A z \in Pipe : z \in chk'.glob.assigned <=> z \in chk.glob.assigned \/ z = x
          /\ \A z \in Pipe : z \in PipesOf(s) => ~Owned(chk'.glob, z)
          /\ \A z \in Pipe : z \notin PipesOf(s) /\ z # x =>
                               (Owned(chk'.glob, z) <=> Owned(chk.glob, z))
      BY <2>2, <2>3, NoPipeIsNoPipe DEF AssignedTo, Owned
    <2>9. \A i \in 1 .. 3 : Vacant(chk.glob, <<x, i>>)
      BY <1>0, <2>4, FreeIsVacant
    <2>10. /\ \A c \in Client : c[1] # x /\ c[1] \notin PipesOf(s) =>
                chk'.glob.client_state[c] = chk.glob.client_state[c]
           /\ \A z \in Pipe : z # x => (z \in chk'.glob.released <=>
                z \in chk.glob.released \/ (z \in PipesOf(s) /\ Owned(chk.glob, z)))
           /\ x \in chk'.glob.released <=> x \in chk.glob.released
      BY <2>2, <2>3, <2>5, <2>7, <2>9, AssignPipeRest
    <2> HIDE DEF s
    <2>11. \A q \in chk'.todo : chk'.planes[q] = planes[q]
      BY <1>0, <2>1, <2>8 DEF CheckInv
    <2>12. ASSUME NEW z \in Pipe, z \in chk'.glob.assigned
           PROVE  ~Owned(glob, z)
      BY <2>1, <2>4, <2>8, <2>12 DEF CheckInv
    <2>13. ASSUME NEW z \in Pipe, z \in chk'.glob.released
           PROVE  Owned(glob, z) /\ ~Owned(chk'.glob, z)
      <3>1. z # x /\ (z \in chk.glob.released \/ z \in PipesOf(s))
        <4>1. x \notin chk.glob.released
          BY <2>1, <2>4 DEF CheckInv
        <4> QED BY <2>10, <2>13, <4>1
      <3>2. CASE z \in PipesOf(s)
        BY <1>n, <2>6, <2>8, <3>2 DEF Owned
      <3>3. CASE z \in chk.glob.released /\ z \notin PipesOf(s)
        <4>1. Owned(glob, z) /\ ~Owned(chk.glob, z)
          BY <2>1, <3>3 DEF CheckInv
        <4> QED BY <2>8, <3>1, <3>3, <4>1
      <3> QED BY <3>1, <3>2, <3>3
    <2>14. ASSUME NEW z \in Pipe, z \notin chk'.glob.assigned, Owned(chk'.glob, z)
           PROVE  /\ Owned(glob, z)
                  /\ \A i \in 1 .. 3 : chk'.glob.client_state[<<z, i>>] = glob.client_state[<<z, i>>]
      <3>1. z # x /\ z \notin PipesOf(s) /\ Owned(chk.glob, z) /\ z \notin chk.glob.assigned
        BY <2>8, <2>14
      <3>2. /\ Owned(glob, z)
            /\ \A i \in 1 .. 3 : chk.glob.client_state[<<z, i>>] = glob.client_state[<<z, i>>]
        BY <2>1, <3>1 DEF CheckInv
      <3>3. \A i \in 1 .. 3 : chk'.glob.client_state[<<z, i>>] = chk.glob.client_state[<<z, i>>]
        BY <1>i, <2>10, <3>1
      <3> QED BY <3>2, <3>3
    <2> QED BY <2>1, <2>5, <2>11, <2>12, <2>13, <2>14 DEF CheckInv, Owned
  <1>7. CASE PrepareCommit \/ CompleteCommit \/ Vsync
    <2>1. tail # "idle" /\ chk' = chk
      BY <1>7 DEF PrepareCommit, CompleteCommit, Vsync
    <2> QED BY <2>1 DEF CheckInv, Checking
  <1>8. CASE UNCHANGED vars
    BY <1>8 DEF vars, CheckInv, Checking, Owned
  <1> QED BY <1>1, <1>2, <1>3, <1>4, <1>5, <1>6, <1>7, <1>8 DEF Next

(* The watermarks follow the commits.                                      *)
LEMMA NextWatermark ==
  ASSUME TypeOK, PoolConsistent, RegsInv, OwnerInv, CheckInv, WatermarkInv, [Next]_vars
  PROVE  WatermarkInv'
  <1>0. /\ Agree(glob, planes) /\ glob \in GlobalState /\ PoolOK(glob)
        /\ wm \in [Pipe -> Nat] /\ scan \in [Pipe -> [on : BOOLEAN, blocks : SUBSET Block]]
    BY DEF OwnerInv, TypeOK, PoolConsistent
  <1>n. \A p \in Plane : p # NoPlane
    BY DEF Plane, NoPlane
  <1>a. tail # "swapped" => glob.assigned = {}
    BY DEF RegsInv
  <1>1. CASE glob' = glob /\ wm' = wm /\ scan' = scan /\ tail' = tail
    BY <1>1 DEF WatermarkInv, LiveWatermarks, Owned, NumBlocks
  <1>2. CASE SwapState
    <2>1. /\ glob' = chk.glob /\ wm' = wm /\ scan' = scan /\ Checking
          /\ tail = "idle" /\ tail' = "swapped"
      BY <1>2 DEF SwapState
    <2>2. ASSUME NEW x \in Pipe, Owned(chk.glob, x), x \notin chk.glob.assigned
          PROVE  wm[x] = NumBlocks(chk.glob, x)
      <3>1. /\ Owned(glob, x)
            /\ \A i \in 1 .. 3 : chk.glob.client_state[<<x, i>>] = glob.client_state[<<x, i>>]
        BY <2>1, <2>2 DEF CheckInv
      <3>2. wm[x] = NumBlocks(glob, x)
        BY <1>a, <2>1, <3>1 DEF WatermarkInv
      <3> QED BY <3>1, <3>2 DEF NumBlocks
    <2>3. ASSUME NEW x \in Pipe
          PROVE  /\ x \in chk.glob.released => ~Owned(chk.glob, x)
                 /\ x \in chk.glob.assigned => ~scan[x].on
      BY <2>1 DEF CheckInv, WatermarkInv
    <2> QED BY <2>1, <2>2, <2>3 DEF WatermarkInv, LiveWatermarks, Owned, NumBlocks
  <1>3. CASE PrepareCommit
    <2>1. /\ glob'.hwpipe_to_plane = glob.hwpipe_to_plane
          /\ glob'.client_state = glob.client_state
      BY <1>3, ClearedSets
    <2>2. /\ glob'.assigned = {} /\ glob'.released = glob.released
          /\ scan' = scan /\ tail = "swapped" /\ tail' = "prepared"
          /\ \A x \in Pipe : wm'[x] = IF x \in glob.assigned THEN NumBlocks(glob, x) ELSE wm[x]
      BY <1>0, <1>3 DEF PrepareCommit, GlobalState
    <2>3. ASSUME NEW x \in Pipe, scan[x].on
          PROVE  wm'[x] = Cardinality(scan[x].blocks)
      BY <2>2, <2>3 DEF WatermarkInv, LiveWatermarks
    <2>4. ASSUME NEW x \in Pipe
          PROVE  /\ Owned(glob, x) => wm'[x] = NumBlocks(glob, x)
                 /\ x \in glob.released => ~Owned(glob, x)
      BY <2>2 DEF WatermarkInv
    <2> QED BY <2>1, <2>2, <2>3, <2>4 DEF WatermarkInv, LiveWatermarks, Owned, NumBlocks
  <1>4. CASE Vsync
    <2>1. /\ glob' = glob /\ wm' = wm /\ tail = "prepared" /\ tail' = "latched"
          /\ glob.assigned = {}
      BY <1>4, <1>a DEF Vsync
    <2>2. ASSUME NEW x \in Pipe, scan'[x].on
          PROVE  Owned(glob, x) /\ wm[x] = Cardinality(scan'[x].blocks)
      <3>1. /\ \E p \in Plane : planes[p].req.on /\ x \in PipesOf(planes[p])
            /\ scan'[x].blocks = BlocksOf(glob, x)
        BY <1>4, <2>2 DEF Vsync
      <3>2. Owned(glob, x)
        BY <1>0, <1>n, <3>1 DEF Agree, Owned
      <3>3. wm[x] = NumBlocks(glob, x)
        BY <2>1, <3>2 DEF WatermarkInv
      <3>4. NumBlocks(glob, x) = Cardinality(BlocksOf(glob, x))
        BY <1>0, NumBlocksCounts
      <3> QED BY <3>1, <3>2, <3>3, <3>4
    <2> QED BY <2>1, <2>2 DEF WatermarkInv, LiveWatermarks, Owned, NumBlocks
  <1>5. CASE CompleteCommit
    <2>1. /\ glob'.hwpipe_to_plane = glob.hwpipe_to_plane
          /\ glob'.client_state = glob.client_state
      BY <1>5, ClearedSets
    <2>2. /\ glob'.assigned = {} /\ glob'.released = {}
          /\ scan' = scan /\ tail = "latched" /\ tail' = "idle"
          /\ \A x \in Pipe : wm'[x] = IF x \in glob.released THEN 0 ELSE wm[x]
      BY <1>0, <1>5, <1>a DEF CompleteCommit, GlobalState
    <2>3. ASSUME NEW x \in Pipe, Owned(glob, x)
          PROVE  wm'[x] = wm[x] /\ wm[x] = NumBlocks(glob, x)
      BY <1>a, <2>2, <2>3 DEF WatermarkInv
    <2>4. ASSUME NEW x \in Pipe, scan[x].on
          PROVE  Owned(glob, x) /\ wm'[x] = Cardinality(scan[x].blocks)
      BY <2>2, <2>3, <2>4 DEF WatermarkInv, LiveWatermarks
    <2> QED BY <2>1, <2>2, <2>3, <2>4 DEF WatermarkInv, LiveWatermarks, Owned, NumBlocks
  <1> QED BY <1>1, <1>2, <1>3, <1>4, <1>5 DEF Next, UserCommit, Suspend, Resume, BeginCheck,
        Discard, CheckInvisible, CheckKeepsPipe, CheckAssigns, CheckFails, vars

LEMMA CoverMeansBlocks == TypeOK /\ OwnerInv /\ CoverInv => BlocksCoverPlane
  <1> SUFFICES ASSUME TypeOK, OwnerInv, CoverInv, NEW p \in Plane,
                      NEW x \in PipesOf(planes[p]), NEW i \in 1 .. 3
               PROVE  Cardinality(glob.client_state[<<x, i>>]) = Wanted(x, planes[p].req.blkcfg, i)
    BY DEF BlocksCoverPlane
  <1>1. x \in Pipe
    BY DEF TypeOK, PlaneState, PipesOf
  <1>2. glob.hwpipe_to_plane[x] = p
    BY <1>1 DEF OwnerInv, Agree
  <1>3. blkcfg[x] = planes[p].req.blkcfg /\ Holds(glob, x, blkcfg[x])
    BY <1>1, <1>2 DEF CoverInv, Covered
  <1> QED BY <1>3 DEF Holds

(* The pool serves the screen, as long as no plane asks for a right pipe,  *)
(* the system is not suspended and no check runs beside a commit tail:     *)
(* a visible plane's pipes hold the blocks of its request, and a pipe that *)
(* scans out has its watermarks set for the blocks it was latched with.    *)
THEOREM SmpCorrect ==
  ASSUME NoRight, ~Suspends, ~Overlap
  PROVE  Spec => []SmpServes
  <1>1. Spec => []TypeOK
    BY TypeCorrect
  <1>2. Spec => []PoolConsistent
    BY PoolCorrect
  <1>3. Spec => []NothingLeaks
    BY LeakFree
  <1> DEFINE Inv == OwnerInv /\ RegsInv /\ CoverInv /\ CheckInv /\ WatermarkInv
  <1>4. Init => Inv
    BY InitOwner, InitRegs, InitCover, InitCheckWatermark
  <1>5. ASSUME TypeOK, PoolConsistent, NothingLeaks, Inv, [Next]_vars
        PROVE  Inv'
    <2>1. OwnerInv'
      BY <1>5, NextOwner
    <2>2. RegsInv'
      BY <1>5, NextRegs
    <2>3. CoverInv'
      BY <1>5, NextCover
    <2>4. CheckInv'
      BY <1>5, NextCheck
    <2>5. WatermarkInv'
      BY <1>5, NextWatermark
    <2> QED BY <2>1, <2>2, <2>3, <2>4, <2>5
  <1>6. TypeOK /\ Inv => SmpServes
    BY CoverMeansBlocks DEF WatermarkInv, SmpServes
  <1> HIDE DEF Inv
  <1> QED BY <1>1, <1>2, <1>3, <1>4, <1>5, <1>6, PTL DEF Spec
==============================================================================
