----------------------------- MODULE MsmGem_proofs -----------------------------
(***************************************************************************)
(* Proofs about MsmGem, for any objects, devices and bounds: the pins and  *)
(* mappings of an object are those of its users and jobs whatever fails,   *)
(* and what is pinned or in the hands of a job keeps its pages although    *)
(* jobs drop their pins without the lock that the shrinker holds (IInv);   *)
(* on devices that can keep what their objects hold, mappings, addresses,  *)
(* lists and books stay true to the pages, and the contents of an object   *)
(* that was not given up are kept (MInv).                                  *)
(***************************************************************************)
EXTENDS MsmGem, FiniteSetTheorems, TLAPS

BoFields == {"live", "imported", "vram_node", "pages", "sgt", "addr", "madv", "pin_count",
             "vmap_count", "vaddr", "pte", "lru", "data", "iova", "vmas"}

Counted(b) ==
  /\ DOMAIN b = BoFields
  /\ b.live \in BOOLEAN /\ b.pages \in BOOLEAN /\ b.madv \in Madv
  /\ b.pin_count \in Nat /\ b.vmap_count \in Nat
  /\ DOMAIN b.vmas = Aspaces

Users == [iova : Nat, vaddr : Nat]

Jobs(f) == IF f = "queued" THEN 1 ELSE 0

(* Pins and mappings of an object b with users u and a job in state f.     *)
Balanced(b, u, f) ==
  IF b.live THEN b.pin_count = u.iova + u.vaddr + Jobs(f) /\ b.vmap_count = u.vaddr
  ELSE b.pin_count = 0 /\ u.iova = 0 /\ u.vaddr = 0 /\ f = "none"

(* A pin of the display has a vma to be undone through.                    *)
Undoable(b, u) == u.iova > 0 => b.vmas[KmsAspace] # "none"

Backed(b, f) == b.pin_count > 0 \/ f # "none" => b.pages /\ b.madv # PURGED

Sound(b, u, f) ==
  /\ Counted(b) /\ u \in Users /\ f \in {"none", "queued", "running"}
  /\ Balanced(b, u, f) /\ Undoable(b, u) /\ Backed(b, f)

IInv ==
  /\ DOMAIN bo = Objects /\ DOMAIN uses = Objects /\ DOMAIN fence = Objects
  /\ want \in [Objects -> {WILLNEED, DONTNEED, NoAdvice}]
  /\ \A o \in Objects : Sound(bo[o], uses[o], fence[o])

-------------------------------------------------------------------------------
(* What the helpers leave alone.                                           *)

Keeps(b, c) ==
  /\ Counted(c)
  /\ c.live = b.live /\ c.madv = b.madv
  /\ c.pin_count = b.pin_count /\ c.vmap_count = b.vmap_count
  /\ c.vmas = b.vmas

LEMMA AspacesIn == KmsAspace \in Aspaces /\ CtxAspace \in Aspaces
  BY DEF KmsAspace, CtxAspace, Aspaces

LEMMA UpdateLruKeeps ==
  ASSUME NEW b, Counted(b)
  PROVE  /\ Keeps(b, UpdateLru(b)) /\ UpdateLru(b).pages = b.pages
         /\ Keeps(b, UpdateLruActive(b)) /\ UpdateLruActive(b).pages = b.pages
<1>1. ASSUME NEW l
      PROVE  Keeps(b, [b EXCEPT !.lru = l]) /\ [b EXCEPT !.lru = l].pages = b.pages
  BY DEF Keeps, Counted, BoFields
<1>2. Keeps(b, UpdateLruActive(b)) /\ UpdateLruActive(b).pages = b.pages
  BY <1>1 DEF UpdateLruActive
<1>3. UpdateLru(b) = UpdateLruActive(b) \/ UpdateLru(b) = [b EXCEPT !.lru = "unbacked"]
  BY DEF UpdateLru
<1> QED BY <1>1, <1>2, <1>3

LEMMA GetPagesKeeps ==
  ASSUME NEW b, Counted(b), NEW r \in GetPages(b)
  PROVE  Keeps(b, r.b) /\ (b.pages => r.b.pages) /\ (r.ok => r.b.pages) /\ "b" \in DOMAIN r
<1> DEFINE Taken(a) == [b EXCEPT !.pages = TRUE, !.addr = a]
           Used(a)  == mm \cup ({a} \ {NoSlot})
           Full(a)  == [Taken(a) EXCEPT !.sgt = TRUE]
<1>1. CASE b.pages
  <2>1. r = Result(TRUE, b, mm, total_mem)
    BY <1>1 DEF GetPages
  <2> QED BY <1>1, <2>1 DEF Keeps, Result
<1>2. CASE ~b.pages
  <2>1. \/ r = Result(FALSE, b, mm, total_mem)
        \/ \E a : r = Result(TRUE, UpdateLru(Full(a)), Used(a), total_mem + 1)
        \/ \E a : r = Result(FALSE, Taken(a), Used(a), total_mem + 1)
    BY <1>2 DEF GetPages
  <2>2. \A a : Keeps(b, Taken(a)) /\ Taken(a).pages = TRUE
    BY DEF Keeps, Counted, BoFields
  <2>3. \A a : Keeps(b, Full(a)) /\ Full(a).pages = TRUE
    BY DEF Keeps, Counted, BoFields
  <2> HIDE DEF Taken, Full, Used
  <2>4. \A a : Keeps(b, UpdateLru(Full(a))) /\ UpdateLru(Full(a)).pages = TRUE
    BY <2>3, UpdateLruKeeps DEF Keeps
  <2>5. CASE r = Result(FALSE, b, mm, total_mem)
    BY <1>2, <2>5 DEF Keeps, Result
  <2>6. CASE \E a : r = Result(TRUE, UpdateLru(Full(a)), Used(a), total_mem + 1)
    BY <2>4, <2>6 DEF Result
  <2>7. CASE \E a : r = Result(FALSE, Taken(a), Used(a), total_mem + 1)
    BY <2>2, <2>7 DEF Result
  <2> QED BY <2>1, <2>5, <2>6, <2>7
<1> QED BY <1>1, <1>2

LEMMA GetPagesLockedKeeps ==
  ASSUME NEW b, Counted(b), NEW madv \in Madv, NEW r \in GetPagesLocked(b, madv)
  PROVE  /\ Keeps(b, r.b) /\ (b.pages => r.b.pages) /\ "b" \in DOMAIN r
         /\ r.ok => r.b.pages /\ b.madv <= madv
<1>1. CASE b.madv > madv
  <2>1. r = Result(FALSE, b, mm, total_mem)
    BY <1>1 DEF GetPagesLocked
  <2> QED BY <2>1 DEF Keeps, Result
<1>2. CASE ~(b.madv > madv)
  <2>1. r \in GetPages(b)
    BY <1>2 DEF GetPagesLocked
  <2>2. b.madv <= madv
    BY <1>2 DEF Counted, Madv, WILLNEED, PURGED
  <2> QED BY <2>1, <2>2, GetPagesKeeps
<1> QED BY <1>1, <1>2

LEMMA PinKeeps ==
  ASSUME NEW b, Counted(b)
  PROVE  /\ Counted(PinObj(b))
         /\ PinObj(b).pin_count = b.pin_count + 1
         /\ PinObj(b).live = b.live /\ PinObj(b).pages = b.pages
         /\ PinObj(b).madv = b.madv /\ PinObj(b).vmas = b.vmas
         /\ PinObj(b).vmap_count = b.vmap_count
  BY DEF PinObj, Counted, BoFields

LEMMA UnpinKeeps ==
  ASSUME NEW b, Counted(b), b.pin_count > 0
  PROVE  /\ Counted(UnpinObj(b))
         /\ UnpinObj(b).pin_count = b.pin_count - 1
         /\ UnpinObj(b).live = b.live /\ UnpinObj(b).pages = b.pages
         /\ UnpinObj(b).madv = b.madv /\ UnpinObj(b).vmas = b.vmas
         /\ UnpinObj(b).vmap_count = b.vmap_count
<1> DEFINE n == b.pin_count - 1
           c == [b EXCEPT !.pin_count = n]
<1>0. n \in Nat
  BY DEF Counted
<1>1. /\ Counted(c) /\ c.pin_count = n
      /\ c.live = b.live /\ c.pages = b.pages /\ c.madv = b.madv /\ c.vmas = b.vmas
      /\ c.vmap_count = b.vmap_count
  <2> HIDE DEF n
  <2> QED BY <1>0 DEF Counted, BoFields
<1> HIDE DEF c
<1>2. Keeps(c, UpdateLru(c)) /\ UpdateLru(c).pages = c.pages
  BY <1>1, UpdateLruKeeps
<1>3. UnpinObj(b) = UpdateLru(c)
  BY DEF UnpinObj, c
<1> QED BY <1>1, <1>2, <1>3 DEF Keeps

(* What the memory gives back is the backing alone.                        *)
LEMMA PutPagesKeeps ==
  ASSUME NEW r, Counted(r.b)
  PROVE  Keeps(r.b, PutPages(r).b)
<1> DEFINE d == r.b.data /\ r.b.vram_node = "null"
           c == [r.b EXCEPT !.pages = FALSE, !.sgt = FALSE, !.addr = NoSlot, !.data = d]
<1>1. Keeps(r.b, c)
  <2> HIDE DEF d
  <2> QED BY DEF Keeps, Counted, BoFields
<1>2. Keeps(r.b, UpdateLru(c))
  <2> HIDE DEF c
  <2> QED BY <1>1, UpdateLruKeeps DEF Keeps
<1>3. CASE r.b.pages
  <2>1. PutPages(r).b = UpdateLru(c)
    BY <1>3 DEF PutPages, GivenBack, Result
  <2> QED BY <1>2, <2>1
<1>4. CASE ~r.b.pages
  BY <1>4 DEF PutPages, Keeps
<1> QED BY <1>3, <1>4

(* A mapping of the display is never undone by looking one up.             *)
LEMMA GetVmaKeeps ==
  ASSUME NEW b, Counted(b), NEW a \in Aspaces
  PROVE  /\ Counted(GetVma(b, a))
         /\ GetVma(b, a).live = b.live /\ GetVma(b, a).madv = b.madv
         /\ GetVma(b, a).pages = b.pages
         /\ GetVma(b, a).pin_count = b.pin_count
         /\ GetVma(b, a).vmap_count = b.vmap_count
         /\ GetVma(b, a).vmas[a] # "none"
         /\ \A s \in Aspaces : b.vmas[s] # "none" => GetVma(b, a).vmas[s] # "none"
<1> DEFINE v == [b.vmas EXCEPT ![a] = IF @ = "none" THEN "reserved" ELSE @]
<1>1. GetVma(b, a) = [b EXCEPT !.vmas = v]
  BY DEF GetVma
<1>2. /\ DOMAIN v = Aspaces /\ v[a] # "none"
      /\ \A s \in Aspaces : b.vmas[s] # "none" => v[s] # "none"
  BY DEF Counted
<1> HIDE DEF v
<1> QED BY <1>1, <1>2 DEF Counted, BoFields

-------------------------------------------------------------------------------
(* A step that changes one object at most keeps the invariant if what it   *)
(* makes of that object is sound.                                          *)
LEMMA Frame ==
  ASSUME IInv, NEW o \in Objects, NEW b, NEW u, NEW f,
         dev' = dev, want' = want,
         bo' = [bo EXCEPT ![o] = b],
         uses' = uses \/ uses' = [uses EXCEPT ![o] = u],
         fence' = fence \/ fence' = [fence EXCEPT ![o] = f],
         Sound(b, uses'[o], fence'[o])
  PROVE  IInv'
<1>1. DOMAIN bo' = Objects /\ DOMAIN uses' = Objects /\ DOMAIN fence' = Objects
  BY DEF IInv
<1>2. bo'[o] = b
  BY DEF IInv
<1>3. \A p \in Objects : p # o =>
        bo'[p] = bo[p] /\ uses'[p] = uses[p] /\ fence'[p] = fence[p]
  BY DEF IInv
<1>4. ASSUME NEW p \in Objects
      PROVE  Sound(bo'[p], uses'[p], fence'[p])
  <2>1. CASE p = o
    BY <1>2, <2>1
  <2>2. CASE p # o
    <3>1. Sound(bo[p], uses[p], fence[p])
      BY DEF IInv
    <3> QED BY <1>3, <2>2, <3>1
  <2> QED BY <2>1, <2>2
<1>5. KmsAspace' = KmsAspace
  BY DEF KmsAspace
<1>6. ASSUME NEW p \in Objects
      PROVE  Sound(bo[p], uses[p], fence[p])'
  BY <1>4, <1>5 DEF Sound, Counted, Balanced, Undoable, Backed
<1> QED BY <1>1, <1>6 DEF IInv

LEMMA FreshSound ==
  /\ Counted(Fresh) /\ ~Fresh.live /\ Fresh.pin_count = 0 /\ Fresh.vmap_count = 0
  /\ Fresh.madv = WILLNEED
  BY DEF Fresh, Counted, BoFields, Madv, WILLNEED, PURGED

LEMMA FreeObjectFresh ==
  ASSUME NEW r, "b" \in DOMAIN r
  PROVE  FreeObject(r).b = Fresh
<1> DEFINE spaces == [r EXCEPT !.b = PutIovaSpaces(@, TRUE)]
           shut   == [spaces EXCEPT !.b = Vunmap(@)]
           put    == IF r.b.imported THEN spaces ELSE PutPages(shut)
<1>1. "b" \in DOMAIN spaces /\ "b" \in DOMAIN shut
  OBVIOUS
<1>2. "b" \in DOMAIN PutPages(shut)
  <2> HIDE DEF shut
  <2> QED BY <1>1 DEF PutPages, GivenBack, Result
<1>3. FreeObject(r) = [put EXCEPT !.b = Fresh]
  BY DEF FreeObject
<1>4. "b" \in DOMAIN put
  BY <1>1, <1>2
<1> HIDE DEF put
<1> QED BY <1>3, <1>4

-------------------------------------------------------------------------------
(* The actions, one lemma each.                                            *)

LEMMA SoundOf ==
  ASSUME IInv, NEW o \in Objects
  PROVE  Sound(bo[o], uses[o], fence[o]) /\ want[o] \in {WILLNEED, DONTNEED, NoAdvice}
  BY DEF IInv

(* A new object has no users yet.                                          *)
LEMMA BornSound ==
  ASSUME NEW b, NEW u, NEW f, NEW old,
         Sound(old, u, f), ~old.live,
         Counted(b), b.pin_count = 0, b.vmap_count = 0
  PROVE  Sound(b, u, f)
  BY DEF Sound, Balanced, Undoable, Backed, Jobs, Users

LEMMA NewKeeps ==
  ASSUME IInv, NEW o \in Objects, NEW scanout \in BOOLEAN, New(o, scanout)
  PROVE  IInv'
<1> DEFINE vram == [Fresh EXCEPT !.live = TRUE, !.vram_node = "node",
                                 !.vmas["null"] = "reserved"]
           shmem == [Fresh EXCEPT !.live = TRUE]
<1>1. Sound(bo[o], uses[o], fence[o]) /\ ~bo[o].live
  BY SoundOf DEF New
<1>2. dev' = dev /\ want' = want /\ uses' = uses /\ fence' = fence
  BY DEF New, Steady
<1>3. Counted(vram) /\ vram.pin_count = 0 /\ vram.vmap_count = 0
  BY DEF Fresh, Counted, BoFields, Madv, WILLNEED, PURGED
<1>4. Counted(shmem) /\ shmem.pin_count = 0 /\ shmem.vmap_count = 0
  BY DEF Fresh, Counted, BoFields, Madv, WILLNEED, PURGED
<1>5. ASSUME NEW b, bo' = [bo EXCEPT ![o] = b],
             Counted(b), b.pin_count = 0, b.vmap_count = 0
      PROVE  IInv'
  <2>1. Sound(b, uses'[o], fence'[o])
    BY <1>1, <1>2, <1>5, BornSound
  <2> QED BY <1>2, <1>5, <2>1, Frame
<1>6. \/ Set(o, Result(TRUE, shmem, mm, total_mem))
      \/ \E r \in GetPages(vram) :
           Set(o, IF ~r.ok THEN FreeObject(r)
                  ELSE [r EXCEPT !.b.iova = r.b.addr, !.b.lru = "unbacked"])
  BY DEF New
<1> HIDE DEF vram, shmem
<1>7. CASE Set(o, Result(TRUE, shmem, mm, total_mem))
  <2>1. bo' = [bo EXCEPT ![o] = shmem]
    BY <1>7 DEF Set, Result
  <2> QED BY <1>4, <1>5, <2>1
<1>8. ASSUME NEW r \in GetPages(vram),
             Set(o, IF ~r.ok THEN FreeObject(r)
                    ELSE [r EXCEPT !.b.iova = r.b.addr, !.b.lru = "unbacked"])
      PROVE  IInv'
  <2>1. Keeps(vram, r.b) /\ "b" \in DOMAIN r
    BY <1>3, GetPagesKeeps
  <2>2. CASE r.ok
    <3> DEFINE addr == r.b.addr
               c == [r.b EXCEPT !.iova = addr, !.lru = "unbacked"]
    <3>1. [r EXCEPT !.b.iova = r.b.addr, !.b.lru = "unbacked"].b = c
      BY <2>1
    <3>2. Counted(c) /\ c.pin_count = r.b.pin_count /\ c.vmap_count = r.b.vmap_count
      <4> HIDE DEF addr
      <4> QED BY <2>1 DEF Keeps, Counted, BoFields
    <3> HIDE DEF c
    <3>3. bo' = [bo EXCEPT ![o] = c]
      BY <1>8, <2>2, <3>1 DEF Set
    <3> QED BY <1>3, <1>5, <2>1, <3>2, <3>3 DEF Keeps
  <2>3. CASE ~r.ok
    <3>1. bo' = [bo EXCEPT ![o] = Fresh]
      BY <1>8, <2>1, <2>3, FreeObjectFresh DEF Set
    <3> QED BY <1>5, <3>1, FreshSound
  <2> QED BY <2>2, <2>3
<1> QED BY <1>6, <1>7, <1>8

LEMMA ImportKeeps ==
  ASSUME IInv, NEW o \in Objects, Import(o)
  PROVE  IInv'
<1> DEFINE b == [Fresh EXCEPT !.live = TRUE, !.imported = TRUE, !.pages = TRUE,
                              !.sgt = TRUE, !.lru = "pinned"]
<1>1. bo' = [bo EXCEPT ![o] = b] /\ ~bo[o].live
  BY DEF Import, Set, Result
<1>2. dev' = dev /\ want' = want /\ uses' = uses /\ fence' = fence
  BY DEF Import, Steady
<1>3. Counted(b) /\ b.pin_count = 0 /\ b.vmap_count = 0
  BY DEF Fresh, Counted, BoFields, Madv, WILLNEED, PURGED
<1> HIDE DEF b
<1>4. Sound(b, uses'[o], fence'[o])
  BY <1>1, <1>2, <1>3, SoundOf, BornSound
<1> QED BY <1>1, <1>2, <1>4, Frame

LEMMA FreeKeeps ==
  ASSUME IInv, NEW o \in Objects, Free(o)
  PROVE  IInv'
<1> DEFINE r == Result(TRUE, bo[o], mm, total_mem)
<1>1. Set(o, FreeObject(r)) /\ uses[o] = NoUse /\ fence[o] = "none"
  BY DEF Free
<1>2. dev' = dev /\ want' = want /\ uses' = uses /\ fence' = fence
  BY DEF Free, Steady
<1>3. "b" \in DOMAIN r
  BY DEF Result
<1> HIDE DEF r
<1>4. bo' = [bo EXCEPT ![o] = Fresh]
  BY <1>1, <1>3, FreeObjectFresh DEF Set
<1>5. Sound(Fresh, uses'[o], fence'[o])
  BY <1>1, <1>2, FreshSound, SoundOf
    DEF Sound, Balanced, Undoable, Backed, NoUse
<1> QED BY <1>2, <1>4, <1>5, Frame

-------------------------------------------------------------------------------
(* Pins.                                                                   *)

(* One more pin, for a user or a job that is counted with it.              *)
LEMMA PinnedSound ==
  ASSUME NEW old, NEW u, NEW f, Sound(old, u, f), old.live,
         NEW b, NEW v, NEW g, Counted(b),
         b.live, b.pages, b.madv # PURGED,
         b.pin_count = old.pin_count + 1,
         b.vmap_count - old.vmap_count = v.vaddr - u.vaddr,
         v \in Users, g \in {"none", "queued", "running"},
         (v.iova + v.vaddr) + Jobs(g) = (u.iova + u.vaddr) + Jobs(f) + 1,
         Undoable(b, v)
  PROVE  Sound(b, v, g)
  BY DEF Sound, Counted, Balanced, Backed, Jobs, Users

(* A look at the pages, that pins nothing.                                 *)
LEMMA LookedSound ==
  ASSUME NEW old, NEW u, NEW f, Sound(old, u, f), NEW b, Counted(b),
         b.live = old.live, b.madv = old.madv,
         b.pin_count = old.pin_count, b.vmap_count = old.vmap_count,
         old.pages => b.pages, Undoable(old, u) => Undoable(b, u)
  PROVE  Sound(b, u, f)
  BY DEF Sound, Balanced, Backed

LEMMA NotPurged ==
  ASSUME NEW b, Counted(b), b.madv <= WILLNEED
  PROVE  b.madv # PURGED
  BY DEF Counted, Madv, WILLNEED, PURGED

Mapped(b, a) == [PinObj(b) EXCEPT !.vmas[a] = "mapped"]

LEMMA MappedKeeps ==
  ASSUME NEW b, Counted(b), NEW a \in Aspaces
  PROVE  /\ Counted(Mapped(b, a))
         /\ Mapped(b, a).live = b.live /\ Mapped(b, a).pages = b.pages
         /\ Mapped(b, a).madv = b.madv
         /\ Mapped(b, a).pin_count = b.pin_count + 1
         /\ Mapped(b, a).vmap_count = b.vmap_count
         /\ Mapped(b, a).vmas[a] # "none"
         /\ \A s \in Aspaces : b.vmas[s] # "none" => Mapped(b, a).vmas[s] # "none"
<1> DEFINE p == PinObj(b)
           v == [p.vmas EXCEPT ![a] = "mapped"]
<1>1. Counted(p) /\ p.vmas = b.vmas
  BY PinKeeps
<1>2. Mapped(b, a) = [p EXCEPT !.vmas = v]
  BY DEF Mapped
<1>3. /\ DOMAIN v = Aspaces /\ v[a] # "none"
      /\ \A s \in Aspaces : b.vmas[s] # "none" => v[s] # "none"
  BY <1>1 DEF Counted
<1> HIDE DEF v
<1>4. /\ p.live = b.live /\ p.pages = b.pages /\ p.madv = b.madv
      /\ p.pin_count = b.pin_count + 1 /\ p.vmap_count = b.vmap_count
  BY PinKeeps
<1> HIDE DEF p
<1> QED BY <1>1, <1>2, <1>3, <1>4 DEF Counted, BoFields

(* The pages of a pin: what a failure leaves, and what a success makes.    *)
LEMMA PinPages ==
  ASSUME IInv, NEW o \in Objects, NEW a \in Aspaces,
         NEW r \in GetPagesLocked(GetVma(bo[o], a), WILLNEED)
  PROVE  /\ "b" \in DOMAIN r
         /\ Sound(r.b, uses[o], fence[o])
         /\ Counted(r.b) /\ r.b.live = bo[o].live
         /\ r.b.pin_count = bo[o].pin_count /\ r.b.vmap_count = bo[o].vmap_count
         /\ r.b.vmas[a] # "none"
         /\ \A s \in Aspaces : bo[o].vmas[s] # "none" => r.b.vmas[s] # "none"
         /\ r.ok => r.b.pages /\ r.b.madv # PURGED
<1> DEFINE g == GetVma(bo[o], a)
<1>1. Sound(bo[o], uses[o], fence[o]) /\ Counted(bo[o])
  BY SoundOf DEF Sound
<1>2. /\ Counted(g) /\ g.live = bo[o].live /\ g.madv = bo[o].madv /\ g.pages = bo[o].pages
      /\ g.pin_count = bo[o].pin_count /\ g.vmap_count = bo[o].vmap_count
      /\ g.vmas[a] # "none"
      /\ \A s \in Aspaces : bo[o].vmas[s] # "none" => g.vmas[s] # "none"
  BY <1>1, GetVmaKeeps
<1>3. r \in GetPagesLocked(g, WILLNEED)
  OBVIOUS
<1> HIDE DEF g
<1>4. WILLNEED \in Madv
  BY DEF Madv, WILLNEED, PURGED
<1>5. /\ Keeps(g, r.b) /\ (g.pages => r.b.pages) /\ "b" \in DOMAIN r
      /\ r.ok => r.b.pages /\ g.madv <= WILLNEED
  BY <1>2, <1>3, <1>4, GetPagesLockedKeeps
<1>6. /\ Counted(r.b) /\ r.b.live = bo[o].live /\ r.b.madv = bo[o].madv
      /\ r.b.pin_count = bo[o].pin_count /\ r.b.vmap_count = bo[o].vmap_count
      /\ r.b.vmas = g.vmas /\ (bo[o].pages => r.b.pages)
  BY <1>2, <1>5 DEF Keeps
<1>7. Undoable(bo[o], uses[o]) => Undoable(r.b, uses[o])
  BY <1>2, <1>6, AspacesIn DEF Undoable
<1>8. Sound(r.b, uses[o], fence[o])
  BY <1>1, <1>6, <1>7, LookedSound
<1>9. r.ok => r.b.madv # PURGED
  BY <1>2, <1>5, <1>6, NotPurged
<1> QED BY <1>2, <1>5, <1>6, <1>8, <1>9

(* The steps of a pin that fail.                                           *)
LEMMA LookKeeps ==
  ASSUME IInv, NEW o \in Objects, NEW b, bo' = [bo EXCEPT ![o] = b],
         dev' = dev, want' = want, uses' = uses, fence' = fence,
         Sound(b, uses[o], fence[o])
  PROVE  IInv'
  BY Frame

LEMMA DiesKeeps ==
  ASSUME IInv, NEW o \in Objects, Dies(o)
  PROVE  IInv'
  BY DEF Dies, IInv, Sound, Counted, Balanced, Undoable, Backed, KmsAspace

LEMMA PinIovaKeeps ==
  ASSUME IInv, NEW o \in Objects, PinIova(o)
  PROVE  IInv'
<1> DEFINE a == KmsAspace
           u == [uses[o] EXCEPT !.iova = @ + 1]
<1>1. PICK r \in GetPagesLocked(GetVma(bo[o], a), WILLNEED) :
        \/ Set(o, r) /\ Steady /\ UNCHANGED <<fence, uses, told>>
        \/ /\ r.ok
           /\ Set(o, [r EXCEPT !.b = [PinObj(@) EXCEPT !.vmas[a] = "mapped"]])
           /\ Steady
           /\ uses' = [uses EXCEPT ![o] = u] /\ fence' = fence
        \/ Dies(o)
  BY DEF PinIova, PinVma
<1>2. bo[o].live
  BY DEF PinIova, Open
<1>3. a \in Aspaces
  BY AspacesIn
<1> HIDE DEF a
<1>4. /\ "b" \in DOMAIN r
      /\ Sound(r.b, uses[o], fence[o])
      /\ Counted(r.b) /\ r.b.live = bo[o].live
      /\ r.b.pin_count = bo[o].pin_count /\ r.b.vmap_count = bo[o].vmap_count
      /\ r.b.vmas[a] # "none"
      /\ r.ok => r.b.pages /\ r.b.madv # PURGED
  BY <1>1, <1>3, PinPages
<1>5. CASE Set(o, r) /\ Steady /\ UNCHANGED <<fence, uses, told>>
  <2>1. bo' = [bo EXCEPT ![o] = r.b] /\ dev' = dev /\ want' = want
    BY <1>5 DEF Set, Steady
  <2> QED BY <1>4, <1>5, <2>1, LookKeeps
<1>6. CASE /\ r.ok
           /\ Set(o, [r EXCEPT !.b = [PinObj(@) EXCEPT !.vmas[a] = "mapped"]])
           /\ Steady
           /\ uses' = [uses EXCEPT ![o] = u] /\ fence' = fence
  <2>1. bo' = [bo EXCEPT ![o] = Mapped(r.b, a)] /\ dev' = dev /\ want' = want
    BY <1>4, <1>6 DEF Set, Steady, Mapped
  <2>2. uses[o] \in Users /\ Sound(bo[o], uses[o], fence[o])
    BY SoundOf DEF Sound
  <2>3. u \in Users /\ u.iova = uses[o].iova + 1 /\ u.vaddr = uses[o].vaddr
    BY <2>2 DEF Users
  <2>4. uses'[o] = u /\ fence'[o] = fence[o]
    BY <1>6 DEF IInv
  <2> HIDE DEF u
  <2>5. Undoable(Mapped(r.b, a), u)
    BY <1>3, <1>4, MappedKeeps DEF Undoable, a
  <2>6. Sound(r.b, uses[o], fence[o]) /\ r.b.live
    BY <1>2, <1>4
  <2>7. /\ Counted(Mapped(r.b, a)) /\ Mapped(r.b, a).live /\ Mapped(r.b, a).pages
        /\ Mapped(r.b, a).madv # PURGED
        /\ Mapped(r.b, a).pin_count = r.b.pin_count + 1
        /\ Mapped(r.b, a).vmap_count = r.b.vmap_count
    BY <1>3, <1>4, <1>6, <2>6, MappedKeeps
  <2>8. /\ Mapped(r.b, a).vmap_count - r.b.vmap_count = u.vaddr - uses[o].vaddr
        /\ fence[o] \in {"none", "queued", "running"}
        /\ (u.iova + u.vaddr) + Jobs(fence[o]) =
             (uses[o].iova + uses[o].vaddr) + Jobs(fence[o]) + 1
    BY <1>4, <2>2, <2>3, <2>7 DEF Sound, Counted, Users, Jobs
  <2>9. Sound(Mapped(r.b, a), u, fence[o])
    BY <2>3, <2>5, <2>6, <2>7, <2>8, PinnedSound
  <2> QED BY <1>6, <2>1, <2>4, <2>9, Frame
<1> QED BY <1>1, <1>5, <1>6, DiesKeeps

LEMMA SubmitKeeps ==
  ASSUME IInv, NEW o \in Objects, Submit(o)
  PROVE  IInv'
<1> DEFINE a == CtxAspace
<1>1. PICK r \in GetPagesLocked(GetVma(bo[o], a), WILLNEED) :
        \/ Set(o, r) /\ Steady /\ UNCHANGED <<fence, uses, told>>
        \/ /\ r.ok
           /\ Set(o, [r EXCEPT !.b = [PinObj(@) EXCEPT !.vmas[a] = "mapped"]])
           /\ Steady
           /\ fence' = [fence EXCEPT ![o] = "queued"] /\ uses' = uses
        \/ Dies(o)
  BY DEF Submit, PinVma
<1>2. bo[o].live /\ fence[o] = "none"
  BY DEF Submit, Open
<1>3. a \in Aspaces
  BY AspacesIn
<1> HIDE DEF a
<1>4. /\ "b" \in DOMAIN r
      /\ Sound(r.b, uses[o], fence[o])
      /\ Counted(r.b) /\ r.b.live = bo[o].live
      /\ r.ok => r.b.pages /\ r.b.madv # PURGED
  BY <1>1, <1>3, PinPages
<1>5. CASE Set(o, r) /\ Steady /\ UNCHANGED <<fence, uses, told>>
  <2>1. bo' = [bo EXCEPT ![o] = r.b] /\ dev' = dev /\ want' = want
    BY <1>5 DEF Set, Steady
  <2> QED BY <1>4, <1>5, <2>1, LookKeeps
<1>6. CASE /\ r.ok
           /\ Set(o, [r EXCEPT !.b = [PinObj(@) EXCEPT !.vmas[a] = "mapped"]])
           /\ Steady
           /\ fence' = [fence EXCEPT ![o] = "queued"] /\ uses' = uses
  <2>1. bo' = [bo EXCEPT ![o] = Mapped(r.b, a)] /\ dev' = dev /\ want' = want
    BY <1>4, <1>6 DEF Set, Steady, Mapped
  <2>2. uses[o] \in Users
    BY SoundOf DEF Sound
  <2>3. uses'[o] = uses[o] /\ fence'[o] = "queued"
    BY <1>6 DEF IInv
  <2>4. Sound(r.b, uses[o], fence[o]) /\ r.b.live
    BY <1>2, <1>4
  <2>5. /\ Counted(Mapped(r.b, a)) /\ Mapped(r.b, a).live /\ Mapped(r.b, a).pages
        /\ Mapped(r.b, a).madv # PURGED
        /\ Mapped(r.b, a).pin_count = r.b.pin_count + 1
        /\ Mapped(r.b, a).vmap_count = r.b.vmap_count
    BY <1>3, <1>4, <1>6, <2>4, MappedKeeps
  <2>6. Undoable(Mapped(r.b, a), uses[o])
    BY <1>3, <1>4, AspacesIn, MappedKeeps DEF Undoable, Sound
  <2>7. /\ Mapped(r.b, a).vmap_count - r.b.vmap_count = uses[o].vaddr - uses[o].vaddr
        /\ "queued" \in {"none", "queued", "running"}
        /\ (uses[o].iova + uses[o].vaddr) + Jobs("queued") =
             (uses[o].iova + uses[o].vaddr) + Jobs(fence[o]) + 1
    BY <1>2, <1>4, <2>2, <2>5 DEF Counted, Users, Jobs
  <2>8. Sound(Mapped(r.b, a), uses[o], "queued")
    BY <2>2, <2>4, <2>5, <2>6, <2>7, PinnedSound
  <2> QED BY <1>6, <2>1, <2>3, <2>8, Frame
<1> QED BY <1>1, <1>5, <1>6, DiesKeeps

(* One pin less, of a user or a job that is counted with it.               *)
LEMMA UnpinnedSound ==
  ASSUME NEW old, NEW u, NEW f, Sound(old, u, f),
         NEW b, NEW v, NEW g, Counted(b),
         b.live = old.live, old.live, b.pages = old.pages, b.madv = old.madv,
         b.pin_count = old.pin_count - 1, old.pin_count > 0,
         b.vmap_count - old.vmap_count = v.vaddr - u.vaddr,
         v \in Users, g \in {"none", "queued", "running"},
         (v.iova + v.vaddr) + Jobs(g) = (u.iova + u.vaddr) + Jobs(f) - 1,
         g # "none" => f # "none",
         Undoable(b, v)
  PROVE  Sound(b, v, g)
  BY DEF Sound, Counted, Balanced, Backed, Jobs, Users

LEMMA UnpinIovaKeeps ==
  ASSUME IInv, NEW o \in Objects, UnpinIova(o)
  PROVE  IInv'
<1> DEFINE u == [uses[o] EXCEPT !.iova = @ - 1]
           b == UnpinObj(bo[o])
<1>1. Sound(bo[o], uses[o], fence[o]) /\ Counted(bo[o]) /\ uses[o] \in Users
  BY SoundOf DEF Sound
<1>2. uses[o].iova > 0 /\ bo[o].live
  BY DEF UnpinIova, Open
<1>3. bo[o].vmas[KmsAspace] # "none"
  BY <1>1, <1>2 DEF Sound, Undoable
<1>4. /\ bo' = [bo EXCEPT ![o] = b] /\ uses' = [uses EXCEPT ![o] = u] /\ fence' = fence
      /\ dev' = dev /\ want' = want
  BY <1>3 DEF UnpinIova, Steady
<1>5. u \in Users /\ u.iova = uses[o].iova - 1 /\ u.vaddr = uses[o].vaddr
  BY <1>1, <1>2 DEF Users
<1>6. uses'[o] = u /\ fence'[o] = fence[o]
  BY <1>4 DEF IInv
<1> HIDE DEF u
<1>7. bo[o].pin_count > 0
  BY <1>1, <1>2 DEF Sound, Balanced, Counted, Users, Jobs
<1>8. /\ Counted(b) /\ b.pin_count = bo[o].pin_count - 1
      /\ b.live = bo[o].live /\ b.pages = bo[o].pages /\ b.madv = bo[o].madv
      /\ b.vmas = bo[o].vmas /\ b.vmap_count = bo[o].vmap_count
  BY <1>1, <1>7, UnpinKeeps
<1> HIDE DEF b
<1>9. /\ b.vmap_count - bo[o].vmap_count = u.vaddr - uses[o].vaddr
      /\ (u.iova + u.vaddr) + Jobs(fence[o]) =
           (uses[o].iova + uses[o].vaddr) + Jobs(fence[o]) - 1
      /\ fence[o] \in {"none", "queued", "running"}
  BY <1>1, <1>5, <1>8 DEF Sound, Counted, Users, Jobs
<1>10. Undoable(b, u)
  BY <1>3, <1>8 DEF Undoable
<1>11. Sound(b, u, fence[o])
  BY <1>1, <1>2, <1>5, <1>7, <1>8, <1>9, <1>10, UnpinnedSound
<1> QED BY <1>4, <1>6, <1>11, Frame

LEMMA GetIovaKeeps ==
  ASSUME IInv, NEW o \in Objects, GetIova(o)
  PROVE  IInv'
<1> DEFINE b == GetVma(bo[o], KmsAspace)
<1>1. Sound(bo[o], uses[o], fence[o]) /\ Counted(bo[o])
  BY SoundOf DEF Sound
<1>2. /\ bo' = [bo EXCEPT ![o] = b]
      /\ dev' = dev /\ want' = want /\ uses' = uses /\ fence' = fence
  BY DEF GetIova, Steady
<1>3. /\ Counted(b) /\ b.live = bo[o].live /\ b.madv = bo[o].madv /\ b.pages = bo[o].pages
      /\ b.pin_count = bo[o].pin_count /\ b.vmap_count = bo[o].vmap_count
      /\ b.vmas[KmsAspace] # "none"
  BY <1>1, AspacesIn, GetVmaKeeps
<1> HIDE DEF b
<1>4. Undoable(b, uses[o])
  BY <1>3 DEF Undoable
<1>5. Sound(b, uses[o], fence[o])
  BY <1>1, <1>3, <1>4, LookedSound
<1> QED BY <1>2, <1>5, LookKeeps

(* The address space of a process is not the display's.                    *)
LEMMA ClearIovaKeeps ==
  ASSUME IInv, NEW o \in Objects, ClearIova(o)
  PROVE  IInv'
<1> DEFINE v == [bo[o].vmas EXCEPT !["ctx"] = "none"]
           b == [bo[o] EXCEPT !.vmas = v]
<1>1. Sound(bo[o], uses[o], fence[o]) /\ Counted(bo[o])
  BY SoundOf DEF Sound
<1>2. /\ bo' = [bo EXCEPT ![o] = b]
      /\ dev' = dev /\ want' = want /\ uses' = uses /\ fence' = fence
  BY DEF ClearIova, Steady
<1>3. DOMAIN v = Aspaces /\ v[KmsAspace] = bo[o].vmas[KmsAspace]
  BY <1>1, AspacesIn DEF Counted, KmsAspace, Aspaces
<1> HIDE DEF v
<1>4. /\ Counted(b) /\ b.live = bo[o].live /\ b.madv = bo[o].madv /\ b.pages = bo[o].pages
      /\ b.pin_count = bo[o].pin_count /\ b.vmap_count = bo[o].vmap_count
      /\ b.vmas = v
  BY <1>1, <1>3 DEF Counted, BoFields
<1> HIDE DEF b
<1>5. Undoable(b, uses[o])
  BY <1>1, <1>3, <1>4 DEF Sound, Undoable
<1>6. Sound(b, uses[o], fence[o])
  BY <1>1, <1>4, <1>5, LookedSound
<1> QED BY <1>2, <1>6, LookKeeps

-------------------------------------------------------------------------------
(* Mappings of the kernel.                                                 *)

WithMaps(b, n) == [b EXCEPT !.vmap_count = n]

LEMMA WithMapsKeeps ==
  ASSUME NEW b, Counted(b), NEW n \in Nat
  PROVE  LET c == WithMaps(b, n) IN
         /\ Counted(c) /\ c.vmap_count = n
         /\ c.live = b.live /\ c.pages = b.pages /\ c.madv = b.madv
         /\ c.vmas = b.vmas /\ c.pin_count = b.pin_count
  BY DEF WithMaps, Counted, BoFields

(* An object that get_vaddr() pinned and counted, and one it gave back.    *)
VPin(b) == [PinObj(b) EXCEPT !.vmap_count = @ + 1]
VMapped(b) == [VPin(b) EXCEPT !.vaddr = TRUE]

LEMMA VPinKeeps ==
  ASSUME NEW b, Counted(b)
  PROVE  /\ Counted(VPin(b)) /\ VPin(b).vmap_count = b.vmap_count + 1
         /\ VPin(b).pin_count = b.pin_count + 1
         /\ VPin(b).live = b.live /\ VPin(b).pages = b.pages
         /\ VPin(b).madv = b.madv /\ VPin(b).vmas = b.vmas
<1> DEFINE p == PinObj(b)
           n == p.vmap_count + 1
<1>1. /\ Counted(p) /\ p.pin_count = b.pin_count + 1 /\ p.vmap_count = b.vmap_count
      /\ p.live = b.live /\ p.pages = b.pages /\ p.madv = b.madv /\ p.vmas = b.vmas
  BY PinKeeps
<1>2. VPin(b) = WithMaps(p, n)
  BY DEF VPin, WithMaps
<1>3. n \in Nat /\ n = b.vmap_count + 1
  BY <1>1 DEF Counted
<1> HIDE DEF p, n
<1> DEFINE w == WithMaps(p, n)
<1>4. /\ Counted(w) /\ w.vmap_count = n
      /\ w.live = p.live /\ w.pages = p.pages /\ w.madv = p.madv
      /\ w.vmas = p.vmas /\ w.pin_count = p.pin_count
  BY <1>1, <1>3, WithMapsKeeps
<1>5. VPin(b) = w
  BY <1>2
<1> HIDE DEF w
<1> QED BY <1>1, <1>3, <1>4, <1>5

LEMMA VMappedKeeps ==
  ASSUME NEW b, Counted(b)
  PROVE  /\ Counted(VMapped(b)) /\ VMapped(b).vmap_count = b.vmap_count + 1
         /\ VMapped(b).pin_count = b.pin_count + 1
         /\ VMapped(b).live = b.live /\ VMapped(b).pages = b.pages
         /\ VMapped(b).madv = b.madv /\ VMapped(b).vmas = b.vmas
<1> DEFINE p == VPin(b)
<1>1. /\ Counted(p) /\ p.vmap_count = b.vmap_count + 1
      /\ p.pin_count = b.pin_count + 1
      /\ p.live = b.live /\ p.pages = b.pages /\ p.madv = b.madv /\ p.vmas = b.vmas
  BY VPinKeeps
<1> HIDE DEF p
<1> DEFINE w == [p EXCEPT !.vaddr = TRUE]
<1>2. VMapped(b) = w
  BY DEF VMapped, p
<1>3. /\ Counted(w) /\ w.vmap_count = p.vmap_count
      /\ w.live = p.live /\ w.pages = p.pages /\ w.madv = p.madv
      /\ w.vmas = p.vmas /\ w.pin_count = p.pin_count
  BY <1>1 DEF Counted, BoFields
<1> HIDE DEF w
<1> QED BY <1>1, <1>2, <1>3

LEMMA VmapFailedKeeps ==
  ASSUME NEW b, Counted(b)
  PROVE  Keeps(b, VmapFailed(VPin(b))) /\ VmapFailed(VPin(b)).pages = b.pages
<1> DEFINE p == VPin(b)
           n == p.vmap_count - 1
           w == WithMaps(p, n)
<1>1. /\ Counted(p) /\ p.vmap_count = b.vmap_count + 1
      /\ p.pin_count = b.pin_count + 1
      /\ p.live = b.live /\ p.pages = b.pages /\ p.madv = b.madv /\ p.vmas = b.vmas
  BY VPinKeeps
<1>2. VmapFailed(p) = UnpinObj(w)
  BY DEF VmapFailed, WithMaps
<1>3. n \in Nat /\ n = b.vmap_count
  BY <1>1 DEF Counted
<1> HIDE DEF p, n
<1>4. /\ Counted(w) /\ w.vmap_count = n
      /\ w.live = p.live /\ w.pages = p.pages /\ w.madv = p.madv
      /\ w.vmas = p.vmas /\ w.pin_count = p.pin_count
  BY <1>1, <1>3, WithMapsKeeps
<1> HIDE DEF w
<1>5. w.pin_count > 0 /\ b.pin_count \in Nat
  BY <1>1, <1>4 DEF Counted
<1>6. /\ Counted(UnpinObj(w)) /\ UnpinObj(w).pin_count = w.pin_count - 1
      /\ UnpinObj(w).live = w.live /\ UnpinObj(w).pages = w.pages
      /\ UnpinObj(w).madv = w.madv /\ UnpinObj(w).vmas = w.vmas
      /\ UnpinObj(w).vmap_count = w.vmap_count
  BY <1>4, <1>5, UnpinKeeps
<1>7. w.pin_count - 1 = b.pin_count
  BY <1>1, <1>4, <1>5
<1>8. Keeps(b, UnpinObj(w)) /\ UnpinObj(w).pages = b.pages
  BY <1>1, <1>3, <1>4, <1>6, <1>7 DEF Keeps
<1> QED BY <1>2, <1>8 DEF p

LEMMA GetVaddrKeeps ==
  ASSUME IInv, NEW o \in Objects, NEW madv \in {WILLNEED, PURGED}, GetVaddr(o, madv),
         madv = PURGED => fence[o] # "none"
  PROVE  IInv'
<1> DEFINE u == [uses[o] EXCEPT !.vaddr = @ + 1]
<1>1. CASE Dies(o)
  BY <1>1, DiesKeeps
<1>2. CASE ~Dies(o)
  <2>1. PICK r \in GetPagesLocked(bo[o], madv) :
          \/ ~r.ok /\ Set(o, r) /\ uses' = uses
          \/ /\ r.ok
             /\ Set(o, [r EXCEPT !.b = VMapped(r.b)])
             /\ uses' = [uses EXCEPT ![o] = u]
          \/ /\ r.ok
             /\ Set(o, [r EXCEPT !.b = VmapFailed(VPin(r.b))])
             /\ uses' = uses
    BY <1>2 DEF GetVaddr, VMapped, VPin
  <2>2. dev' = dev /\ want' = want /\ fence' = fence /\ bo[o].live
    BY <1>2 DEF GetVaddr, Steady, Open
  <2>3. Sound(bo[o], uses[o], fence[o]) /\ Counted(bo[o]) /\ uses[o] \in Users
    BY SoundOf DEF Sound
  <2>4. madv \in Madv
    BY DEF Madv, WILLNEED, PURGED
  <2>5. /\ Keeps(bo[o], r.b) /\ (bo[o].pages => r.b.pages) /\ "b" \in DOMAIN r
        /\ r.ok => r.b.pages /\ bo[o].madv <= madv
    BY <2>3, <2>4, GetPagesLockedKeeps
  <2>6. Counted(r.b) /\ r.b.madv = bo[o].madv
    BY <2>5 DEF Keeps
  <2>7. Sound(r.b, uses[o], fence[o])
    BY <2>3, <2>5, LookedSound DEF Keeps, Undoable
  <2>8. CASE ~r.ok /\ Set(o, r) /\ uses' = uses
    <3>1. bo' = [bo EXCEPT ![o] = r.b]
      BY <2>8 DEF Set
    <3> QED BY <2>2, <2>7, <2>8, <3>1, LookKeeps
  <2>9. CASE /\ r.ok
             /\ Set(o, [r EXCEPT !.b = VMapped(r.b)])
             /\ uses' = [uses EXCEPT ![o] = u]
    <3> DEFINE c == VMapped(r.b)
    <3>1. bo' = [bo EXCEPT ![o] = c]
      BY <2>5, <2>9 DEF Set
    <3>2. u \in Users /\ u.vaddr = uses[o].vaddr + 1 /\ u.iova = uses[o].iova
      BY <2>3 DEF Users
    <3>3. uses'[o] = u /\ fence'[o] = fence[o]
      BY <2>2, <2>9 DEF IInv
    <3> HIDE DEF u
    <3>4. /\ Counted(c) /\ c.vmap_count = r.b.vmap_count + 1
          /\ c.pin_count = r.b.pin_count + 1
          /\ c.live = r.b.live /\ c.pages = r.b.pages /\ c.madv = r.b.madv
          /\ c.vmas = r.b.vmas
      BY <2>6, VMappedKeeps
    <3> HIDE DEF c
    <3>5. c.madv # PURGED
      <4>1. CASE madv = PURGED
        BY <2>3, <2>6, <3>4, <4>1 DEF Sound, Backed
      <4>2. CASE madv = WILLNEED
        BY <2>3, <2>5, <2>6, <2>9, <3>4, <4>2, NotPurged
      <4> QED BY <4>1, <4>2
    <3>6. c.live /\ c.pages /\ r.b.live
      BY <2>2, <2>5, <2>9, <3>4 DEF Keeps
    <3>7. /\ c.vmap_count - r.b.vmap_count = u.vaddr - uses[o].vaddr
          /\ fence[o] \in {"none", "queued", "running"}
          /\ (u.iova + u.vaddr) + Jobs(fence[o]) =
               (uses[o].iova + uses[o].vaddr) + Jobs(fence[o]) + 1
      BY <2>3, <2>6, <3>2, <3>4 DEF Sound, Counted, Users, Jobs
    <3>8. Undoable(c, u)
      BY <2>7, <3>2, <3>4 DEF Sound, Undoable
    <3>9. Sound(c, u, fence[o])
      BY <2>7, <3>2, <3>4, <3>5, <3>6, <3>7, <3>8, PinnedSound
    <3> QED BY <2>2, <2>9, <3>1, <3>3, <3>9, Frame
  <2>10. CASE /\ r.ok
              /\ Set(o, [r EXCEPT !.b = VmapFailed(VPin(r.b))])
              /\ uses' = uses
    <3> DEFINE c == VmapFailed(VPin(r.b))
    <3>1. bo' = [bo EXCEPT ![o] = c]
      BY <2>5, <2>10 DEF Set
    <3>2. Keeps(r.b, c) /\ c.pages = r.b.pages
      BY <2>6, VmapFailedKeeps
    <3> HIDE DEF c
    <3>3. Sound(c, uses[o], fence[o])
      BY <2>7, <3>2, LookedSound DEF Keeps, Undoable
    <3> QED BY <2>2, <2>10, <3>1, <3>3, LookKeeps
  <2> QED BY <2>1, <2>8, <2>9, <2>10
<1> QED BY <1>1, <1>2

LEMMA PutVaddrKeeps ==
  ASSUME IInv, NEW o \in Objects, PutVaddr(o)
  PROVE  IInv'
<1> DEFINE u == [uses[o] EXCEPT !.vaddr = @ - 1]
           n == bo[o].vmap_count - 1
           w == WithMaps(bo[o], n)
           b == UnpinObj(w)
<1>1. Sound(bo[o], uses[o], fence[o]) /\ Counted(bo[o]) /\ uses[o] \in Users
  BY SoundOf DEF Sound
<1>2. uses[o].vaddr > 0 /\ bo[o].live
  BY DEF PutVaddr, Open
<1>3. /\ bo' = [bo EXCEPT ![o] = b] /\ uses' = [uses EXCEPT ![o] = u] /\ fence' = fence
      /\ dev' = dev /\ want' = want
  <2>1. bo' = [bo EXCEPT ![o] = b]
    BY DEF PutVaddr, WithMaps
  <2>2. uses' = [uses EXCEPT ![o] = u] /\ fence' = fence /\ dev' = dev /\ want' = want
    BY DEF PutVaddr, Steady
  <2> QED BY <2>1, <2>2
<1>4. u \in Users /\ u.vaddr = uses[o].vaddr - 1 /\ u.iova = uses[o].iova
  BY <1>1, <1>2 DEF Users
<1>5. uses'[o] = u /\ fence'[o] = fence[o]
  BY <1>3 DEF IInv
<1> HIDE DEF u
<1>6. bo[o].pin_count > 0 /\ n \in Nat
  BY <1>1, <1>2 DEF Sound, Balanced, Counted, Users, Jobs
<1>7. n = bo[o].vmap_count - 1
  OBVIOUS
<1> HIDE DEF n
<1>8. /\ Counted(w) /\ w.vmap_count = n
      /\ w.live = bo[o].live /\ w.pages = bo[o].pages /\ w.madv = bo[o].madv
      /\ w.vmas = bo[o].vmas /\ w.pin_count = bo[o].pin_count
  BY <1>1, <1>6, WithMapsKeeps
<1> HIDE DEF w
<1>9. /\ Counted(b) /\ b.pin_count = w.pin_count - 1
      /\ b.live = w.live /\ b.pages = w.pages /\ b.madv = w.madv
      /\ b.vmas = w.vmas /\ b.vmap_count = w.vmap_count
  BY <1>6, <1>8, UnpinKeeps
<1> HIDE DEF b
<1>10. /\ b.vmap_count - bo[o].vmap_count = u.vaddr - uses[o].vaddr
       /\ (u.iova + u.vaddr) + Jobs(fence[o]) =
            (uses[o].iova + uses[o].vaddr) + Jobs(fence[o]) - 1
       /\ fence[o] \in {"none", "queued", "running"}
  BY <1>1, <1>4, <1>7, <1>8, <1>9 DEF Sound, Counted, Users, Jobs
<1>11. Undoable(b, u)
  BY <1>1, <1>4, <1>8, <1>9 DEF Sound, Undoable
<1>12. Sound(b, u, fence[o])
  BY <1>1, <1>2, <1>4, <1>6, <1>8, <1>9, <1>10, <1>11, UnpinnedSound
<1> QED BY <1>3, <1>5, <1>12, Frame

-------------------------------------------------------------------------------
(* Faults, advice and jobs.                                                *)

LEMMA FaultKeeps ==
  ASSUME IInv, NEW o \in Objects, Fault(o)
  PROVE  IInv'
<1>1. CASE Dies(o)
  BY <1>1, DiesKeeps
<1>2. CASE ~Dies(o)
  <2>1. PICK r \in GetPages(bo[o]) : Set(o, [r EXCEPT !.b.pte = @ \/ r.ok])
    BY <1>2 DEF Fault, FaultIn
  <2>2. dev' = dev /\ want' = want /\ uses' = uses /\ fence' = fence
    BY <1>2 DEF Fault, FaultIn, Steady
  <2>3. Sound(bo[o], uses[o], fence[o]) /\ Counted(bo[o])
    BY SoundOf DEF Sound
  <2>4. Keeps(bo[o], r.b) /\ (bo[o].pages => r.b.pages) /\ "b" \in DOMAIN r
    BY <2>3, GetPagesKeeps
  <2> DEFINE t == r.b.pte \/ r.ok
             c == [r.b EXCEPT !.pte = t]
  <2>5. bo' = [bo EXCEPT ![o] = c]
    BY <2>1, <2>4 DEF Set
  <2> HIDE DEF t
  <2>6. Keeps(r.b, c) /\ c.pages = r.b.pages
    BY <2>4 DEF Keeps, Counted, BoFields
  <2> HIDE DEF c
  <2>7. Sound(c, uses[o], fence[o])
    BY <2>3, <2>4, <2>6, LookedSound DEF Keeps, Undoable
  <2> QED BY <2>2, <2>5, <2>7, LookKeeps
<1> QED BY <1>1, <1>2

LEMMA MunmapKeeps ==
  ASSUME IInv, NEW o \in Objects, Munmap(o)
  PROVE  IInv'
<1> DEFINE c == [bo[o] EXCEPT !.pte = FALSE]
<1>1. Sound(bo[o], uses[o], fence[o]) /\ Counted(bo[o])
  BY SoundOf DEF Sound
<1>2. /\ bo' = [bo EXCEPT ![o] = c]
      /\ dev' = dev /\ want' = want /\ uses' = uses /\ fence' = fence
  BY DEF Munmap, Steady
<1>3. Keeps(bo[o], c) /\ c.pages = bo[o].pages
  BY <1>1 DEF Keeps, Counted, BoFields
<1> HIDE DEF c
<1>4. Sound(c, uses[o], fence[o])
  BY <1>1, <1>3, LookedSound DEF Keeps, Undoable
<1> QED BY <1>2, <1>4, LookKeeps

(* Advice does not make a purged object of one that is not, nor the reverse. *)
LEMMA MadviseKeeps ==
  ASSUME IInv, NEW o \in Objects, Madvise(o)
  PROVE  IInv'
<1> DEFINE m == IF bo[o].madv = PURGED THEN bo[o].madv ELSE want[o]
           c == [bo[o] EXCEPT !.madv = m]
           b == UpdateLru(c)
<1>1. Sound(bo[o], uses[o], fence[o]) /\ Counted(bo[o])
  BY SoundOf DEF Sound
<1>2. bo' = [bo EXCEPT ![o] = b] /\ want' = [want EXCEPT ![o] = NoAdvice]
  <2>1. bo' = [bo EXCEPT ![o] = b]
    BY DEF Madvise
  <2>2. want' = [want EXCEPT ![o] = NoAdvice]
    BY DEF Madvise
  <2> QED BY <2>1, <2>2
<1>3. dev' = dev /\ uses' = uses /\ fence' = fence /\ want[o] # NoAdvice
  BY DEF Madvise
<1>4. m \in Madv /\ (m = PURGED => bo[o].madv = PURGED)
  BY <1>1, <1>3, SoundOf DEF Counted, Madv, WILLNEED, DONTNEED, PURGED, NoAdvice
<1> HIDE DEF m
<1>5. /\ Counted(c) /\ c.live = bo[o].live /\ c.madv = m /\ c.pages = bo[o].pages
      /\ c.pin_count = bo[o].pin_count /\ c.vmap_count = bo[o].vmap_count
      /\ c.vmas = bo[o].vmas
  BY <1>1, <1>4 DEF Counted, BoFields
<1> HIDE DEF c
<1>6. Keeps(c, b) /\ b.pages = c.pages
  BY <1>5, UpdateLruKeeps
<1> HIDE DEF b
<1>7. Sound(b, uses[o], fence[o])
  BY <1>1, <1>4, <1>5, <1>6 DEF Sound, Balanced, Undoable, Backed, Keeps
<1>8. want' \in [Objects -> {WILLNEED, DONTNEED, NoAdvice}]
  BY <1>2 DEF IInv
<1>9. DOMAIN bo' = Objects /\ \A p \in Objects : bo'[p] = IF p = o THEN b ELSE bo[p]
  BY <1>2 DEF IInv
<1>10. ASSUME NEW p \in Objects
       PROVE  Sound(bo'[p], uses[p], fence[p])
  BY <1>7, <1>9, SoundOf
<1>11. KmsAspace' = KmsAspace
  BY <1>3 DEF KmsAspace
<1>12. ASSUME NEW p \in Objects
       PROVE  Sound(bo[p], uses[p], fence[p])'
  BY <1>3, <1>10, <1>11 DEF Sound, Counted, Balanced, Undoable, Backed
<1> QED BY <1>3, <1>8, <1>9, <1>12 DEF IInv

(* The job that starts hands its pin over to its fence.                    *)
LEMMA JobRunKeeps ==
  ASSUME IInv, NEW o \in Objects, JobRun(o)
  PROVE  IInv'
<1> DEFINE n == bo[o].pin_count - 1
           c == [bo[o] EXCEPT !.pin_count = n]
           b == UpdateLruActive(c)
<1>1. Sound(bo[o], uses[o], fence[o]) /\ Counted(bo[o]) /\ uses[o] \in Users
  BY SoundOf DEF Sound
<1>2. /\ bo' = [bo EXCEPT ![o] = b] /\ fence' = [fence EXCEPT ![o] = "running"]
      /\ dev' = dev /\ want' = want /\ uses' = uses /\ fence[o] = "queued"
  <2>1. bo' = [bo EXCEPT ![o] = b]
    BY DEF JobRun
  <2>2. /\ fence' = [fence EXCEPT ![o] = "running"]
        /\ dev' = dev /\ want' = want /\ uses' = uses /\ fence[o] = "queued"
    BY DEF JobRun, Steady
  <2> QED BY <2>1, <2>2
<1>3. bo[o].live
  BY <1>1, <1>2 DEF Sound, Balanced
<1>4. bo[o].pin_count > 0 /\ n \in Nat /\ n = bo[o].pin_count - 1
  BY <1>1, <1>2, <1>3 DEF Sound, Balanced, Counted, Users, Jobs
<1> HIDE DEF n
<1>5. /\ Counted(c) /\ c.live = bo[o].live /\ c.madv = bo[o].madv /\ c.pages = bo[o].pages
      /\ c.pin_count = n /\ c.vmap_count = bo[o].vmap_count /\ c.vmas = bo[o].vmas
  BY <1>1, <1>4 DEF Counted, BoFields
<1> HIDE DEF c
<1>6. Keeps(c, b) /\ b.pages = c.pages
  BY <1>5, UpdateLruKeeps
<1> HIDE DEF b
<1>7. /\ b.vmap_count - bo[o].vmap_count = uses[o].vaddr - uses[o].vaddr
      /\ (uses[o].iova + uses[o].vaddr) + Jobs("running") =
           (uses[o].iova + uses[o].vaddr) + Jobs(fence[o]) - 1
      /\ "running" \in {"none", "queued", "running"}
  BY <1>1, <1>2, <1>5, <1>6 DEF Keeps, Counted, Users, Jobs
<1>8. /\ Counted(b) /\ b.live = bo[o].live /\ b.pages = bo[o].pages /\ b.madv = bo[o].madv
      /\ b.pin_count = bo[o].pin_count - 1 /\ b.vmas = bo[o].vmas
  BY <1>4, <1>5, <1>6 DEF Keeps
<1>9. Undoable(b, uses[o])
  BY <1>1, <1>8 DEF Sound, Undoable
<1>10. Sound(b, uses[o], "running")
  BY <1>1, <1>2, <1>3, <1>4, <1>7, <1>8, <1>9, UnpinnedSound
<1>11. uses'[o] = uses[o] /\ fence'[o] = "running"
  BY <1>2 DEF IInv
<1> QED BY <1>2, <1>10, <1>11, Frame

LEMMA RetireKeeps ==
  ASSUME IInv, NEW o \in Objects, Retire(o)
  PROVE  IInv'
<1>1. /\ bo' = bo /\ fence' = [fence EXCEPT ![o] = "none"]
      /\ dev' = dev /\ want' = want /\ uses' = uses /\ fence[o] = "running"
  BY DEF Retire, Steady
<1>2. ASSUME NEW p \in Objects
      PROVE  Sound(bo[p], uses[p], fence'[p])
  BY <1>1, SoundOf DEF IInv, Sound, Balanced, Backed, Jobs, Counted, Users
<1>3. KmsAspace' = KmsAspace
  BY <1>1 DEF KmsAspace
<1>4. ASSUME NEW p \in Objects
      PROVE  Sound(bo[p], uses[p], fence[p])'
  BY <1>1, <1>2, <1>3 DEF Sound, Counted, Balanced, Undoable, Backed
<1> QED BY <1>1, <1>4 DEF IInv

-------------------------------------------------------------------------------
(* The shrinker.                                                           *)

(* What takes the memory and the mappings leaves the counts.               *)
Same(b, c) ==
  /\ Counted(c) /\ c.live = b.live
  /\ c.pin_count = b.pin_count /\ c.vmap_count = b.vmap_count

LEMMA IdleSound ==
  ASSUME NEW b, NEW u, Sound(b, u, "none"), b.pin_count = 0, NEW c, Same(b, c)
  PROVE  Sound(c, u, "none")
  BY DEF Sound, Same, Counted, Balanced, Undoable, Backed, Jobs, Users

LEMMA PutIovaSpacesSame ==
  ASSUME NEW b, Counted(b), NEW close \in BOOLEAN
  PROVE  Same(b, PutIovaSpaces(b, close))
<1> DEFINE v == [a \in Aspaces |->
                   IF a = "null" \/ b.vmas[a] = "none" THEN b.vmas[a]
                   ELSE IF close THEN "none" ELSE "reserved"]
<1>1. PutIovaSpaces(b, close) = [b EXCEPT !.vmas = v]
  BY DEF PutIovaSpaces
<1>2. DOMAIN v = Aspaces
  OBVIOUS
<1> HIDE DEF v
<1> QED BY <1>1, <1>2 DEF Same, Counted, BoFields

LEMMA PutIovaVmasSame ==
  ASSUME NEW b, Counted(b)
  PROVE  Same(b, PutIovaVmas(b))
<1> DEFINE v == [a \in Aspaces |-> "none"]
           m == IF b.vram_node = "null" THEN "null" ELSE "freed"
<1>1. PutIovaVmas(b) = [b EXCEPT !.vmas = v, !.iova = NoSlot, !.vram_node = m]
  BY DEF PutIovaVmas
<1>2. DOMAIN v = Aspaces
  OBVIOUS
<1> HIDE DEF v, m
<1> QED BY <1>1, <1>2 DEF Same, Counted, BoFields

LEMMA UnmappedSame ==
  ASSUME NEW b, Counted(b)
  PROVE  Same(b, [b EXCEPT !.pte = FALSE]) /\ Same(b, Vunmap(b))
<1>1. Same(b, [b EXCEPT !.pte = FALSE])
  BY DEF Same, Counted, BoFields
<1>2. Same(b, [b EXCEPT !.vaddr = FALSE])
  BY DEF Same, Counted, BoFields
<1>3. Vunmap(b) = b \/ Vunmap(b) = [b EXCEPT !.vaddr = FALSE]
  BY DEF Vunmap
<1> QED BY <1>1, <1>2, <1>3 DEF Same

LEMMA PutPagesResult ==
  ASSUME NEW b, Counted(b)
  PROVE  LET r == PutPages(Result(TRUE, b, mm, total_mem)) IN
         Same(b, r.b) /\ "b" \in DOMAIN r
<1> DEFINE q == Result(TRUE, b, mm, total_mem)
<1>1. q.b = b /\ "b" \in DOMAIN q
  BY DEF Result
<1> HIDE DEF q
<1>2. Keeps(b, PutPages(q).b)
  BY <1>1, PutPagesKeeps
<1>3. "b" \in DOMAIN PutPages(q)
  BY <1>1 DEF PutPages, GivenBack, Result
<1> QED BY <1>2, <1>3 DEF Keeps, Same, q

LEMMA PurgeKeeps ==
  ASSUME IInv, NEW o \in Objects, Purge(o)
  PROVE  IInv'
<1> DEFINE s == PutIovaSpaces(bo[o], TRUE)
           v == Vunmap(s)
           b == [v EXCEPT !.pte = FALSE]
           r == PutPages(Result(TRUE, b, mm, total_mem))
           w == PutIovaVmas(r.b)
           c == [w EXCEPT !.madv = PURGED, !.data = FALSE]
<1>1. Sound(bo[o], uses[o], fence[o]) /\ Counted(bo[o])
  BY SoundOf DEF Sound
<1>2. /\ Set(o, Purged(o)) /\ bo[o].pin_count = 0 /\ fence[o] = "none"
      /\ dev' = dev /\ want' = want /\ uses' = uses /\ fence' = fence
  BY DEF Purge, Purgeable, Active
<1>3. Purged(o) = [r EXCEPT !.b = c]
  BY DEF Purged
<1>4. Same(bo[o], s)
  BY <1>1, PutIovaSpacesSame
<1> HIDE DEF s
<1>5. Same(bo[o], v)
  BY <1>4, UnmappedSame DEF Same
<1> HIDE DEF v
<1>6. Same(bo[o], b)
  BY <1>5, UnmappedSame DEF Same
<1> HIDE DEF b
<1>7. Same(bo[o], r.b) /\ "b" \in DOMAIN r
  BY <1>6, PutPagesResult DEF Same
<1> HIDE DEF r
<1>8. Same(bo[o], w)
  BY <1>7, PutIovaVmasSame DEF Same
<1> HIDE DEF w
<1>9. PURGED \in Madv
  BY DEF Madv, WILLNEED, PURGED
<1>10. Same(bo[o], c)
  BY <1>8, <1>9 DEF Same, Counted, BoFields
<1> HIDE DEF c
<1>11. bo' = [bo EXCEPT ![o] = c]
  BY <1>2, <1>3, <1>7 DEF Set
<1>12. Sound(c, uses[o], fence[o])
  BY <1>1, <1>2, <1>10, IdleSound
<1> QED BY <1>2, <1>11, <1>12, LookKeeps

LEMMA EvictKeeps ==
  ASSUME IInv, NEW o \in Objects, Evict(o)
  PROVE  IInv'
<1> DEFINE s == PutIovaSpaces(bo[o], FALSE)
           b == [s EXCEPT !.pte = FALSE]
           c == PutPages(Result(TRUE, b, mm, total_mem)).b
<1>1. Sound(bo[o], uses[o], fence[o]) /\ Counted(bo[o])
  BY SoundOf DEF Sound
<1>2. /\ Set(o, Evicted(o)) /\ bo[o].pin_count = 0 /\ fence[o] = "none"
      /\ dev' = dev /\ want' = want /\ uses' = uses /\ fence' = fence
  BY DEF Evict, Evictable, Active
<1>3. bo' = [bo EXCEPT ![o] = c]
  BY <1>2 DEF Set, Evicted
<1>4. Same(bo[o], s)
  BY <1>1, PutIovaSpacesSame
<1> HIDE DEF s
<1>5. Same(bo[o], b)
  BY <1>4, UnmappedSame DEF Same
<1> HIDE DEF b
<1>6. Same(bo[o], c)
  BY <1>5, PutPagesResult DEF Same
<1> HIDE DEF c
<1>7. Sound(c, uses[o], fence[o])
  BY <1>1, <1>2, <1>6, IdleSound
<1> QED BY <1>2, <1>3, <1>7, LookKeeps

(* Locks, advice that waits, and an object that is spared.                 *)
LEMMA StillKeeps ==
  ASSUME IInv, UNCHANGED <<dev, bo, fence, uses>>,
         want' \in [Objects -> {WILLNEED, DONTNEED, NoAdvice}]
  PROVE  IInv'
  BY DEF IInv, Sound, Counted, Balanced, Undoable, Backed, KmsAspace

-------------------------------------------------------------------------------
LEMMA InitIInv == Init => IInv
<1> SUFFICES ASSUME Init PROVE IInv
  OBVIOUS
<1>1. ASSUME NEW o \in Objects
      PROVE  Sound(bo[o], uses[o], fence[o])
  <2>1. bo[o] = Fresh /\ uses[o] = NoUse /\ fence[o] = "none"
    BY DEF Init
  <2> QED BY <2>1, FreshSound DEF Sound, Balanced, Undoable, Backed, Users, NoUse
<1> QED BY <1>1 DEF Init, IInv

LEMMA LiveKeeps ==
  ASSUME IInv, NEW o \in Objects, Live(o)
  PROVE  IInv'
<1>1. CASE \E scanout \in BOOLEAN : New(o, scanout)
  BY <1>1, NewKeeps
<1>2. CASE Free(o)
  BY <1>2, FreeKeeps
<1>3. CASE Fault(o)
  BY <1>3, FaultKeeps
<1>4. CASE Munmap(o)
  BY <1>4, MunmapKeeps
<1>5. CASE \E madv \in {WILLNEED, DONTNEED} : AskMadvise(o, madv)
  BY <1>5, StillKeeps DEF AskMadvise, IInv
<1>6. CASE Madvise(o)
  BY <1>6, MadviseKeeps
<1>7. CASE ShrinkPick(o)
  BY <1>7, StillKeeps DEF ShrinkPick, IInv
<1>8. CASE ShrinkLock(o)
  BY <1>8, StillKeeps DEF ShrinkLock, IInv
<1>9. CASE Purge(o)
  BY <1>9, PurgeKeeps
<1>10. CASE Evict(o)
  BY <1>10, EvictKeeps
<1>11. CASE Spare(o)
  BY <1>11, StillKeeps DEF Spare, IInv
<1> QED
  BY <1>1, <1>2, <1>3, <1>4, <1>5, <1>6, <1>7, <1>8, <1>9, <1>10, <1>11
    DEF Live, Shrink

LEMMA UseKeeps ==
  ASSUME IInv, NEW o \in Objects, Use(o)
  PROVE  IInv'
<1>1. CASE GetVaddr(o, WILLNEED)
  BY <1>1, GetVaddrKeeps DEF WILLNEED, PURGED
<1>2. CASE GetVaddrActive(o)
  BY <1>2, GetVaddrKeeps DEF GetVaddrActive
<1> QED
  BY <1>1, <1>2, PinIovaKeeps, UnpinIovaKeeps, GetIovaKeeps, ClearIovaKeeps,
     PutVaddrKeeps, SubmitKeeps, JobRunKeeps, RetireKeeps
    DEF Use

LEMMA NextIInv ==
  ASSUME IInv, [Next]_vars
  PROVE  IInv'
<1>1. CASE \E o \in Objects : Live(o)
  BY <1>1, LiveKeeps
<1>2. CASE \E o \in Pinnable : Use(o) \/ Import(o)
  BY <1>2, UseKeeps, ImportKeeps, GemAssumption
<1>3. CASE UNCHANGED vars
  BY <1>3, StillKeeps DEF vars, IInv
<1> QED BY <1>1, <1>2, <1>3 DEF Next

(* Whatever fails on the way, the pins of an object are those its users    *)
(* and queued jobs hold, and its kernel mappings those of its users: what  *)
(* get_vaddr(), the pin paths and the job start must take back they do.    *)
THEOREM PinsAlwaysBalanced == Spec => []PinsBalanced
<1>1. IInv => PinsBalanced
  BY DEF IInv, Sound, Balanced, PinsBalanced, Jobs
<1> QED BY <1>1, InitIInv, NextIInv, PTL DEF Spec

(* The shrinker never takes the pages of an object that is pinned or in    *)
(* the hands of a job, although it looks at the object when the job drops  *)
(* its pin without the lock.                                               *)
THEOREM UsedStaysBacked == Spec => []UsedBacked
<1>1. IInv => UsedBacked
  BY DEF IInv, Sound, Backed, UsedBacked
<1> QED BY <1>1, InitIInv, NextIInv, PTL DEF Spec

-------------------------------------------------------------------------------
(* The memory and those who use it.                                        *)


(* The devices that can keep what their objects hold: pages of a carve-out *)
(* have nowhere to be swapped to, and an sgt of shmem pages can be built.  *)
DevicesSound ==
  \A d \in Devices : (d.vram => ~d.swap) /\ (d.mmu => ~d.sgt_fails)

LruGood(b) ==
  /\ b.pin_count > 0 => b.lru = "pinned"
  /\ b.lru \in {"dontneed", "willneed"} => b.pages /\ b.pin_count = 0
  /\ b.pages /\ b.pin_count = 0 /\ b.madv = DONTNEED => b.lru = "dontneed" \/ b.imported

(* A live object, the address of which its users were told is t.           *)
Good(b, t) ==
  /\ b \in Bo /\ b.live
  /\ b.imported => dev.mmu /\ b.pages /\ b.sgt /\ b.vram_node = "null"
  /\ LruGood(b)
  /\ ~b.pages => /\ ~b.pte /\ ~b.vaddr /\ b.addr = NoSlot
                 /\ b.vmas["kms"] # "mapped" /\ b.vmas["ctx"] # "mapped"
  /\ b.vram_node = "null" => b.addr = NoSlot /\ dev.mmu
  /\ b.vram_node = "node" => dev.vram /\ b.pages /\ b.addr # NoSlot /\ b.addr = b.iova
  /\ b.vram_node = "freed" => dev.vram /\ b.madv = PURGED /\ ~b.pages
  /\ b.madv # PURGED => b.data
  /\ dev.mmu /\ b.pages => b.sgt
  /\ t # NoSlot => ~dev.mmu
  /\ t # NoSlot /\ b.pages => t = b.iova
Proper(b, t) == IF b.live THEN Good(b, t) ELSE b = Fresh /\ t = NoSlot

(* The page of the carve-out an object holds, and its share of the total.  *)
Owned(b) == IF b.pages /\ ~b.imported THEN 1 ELSE 0
InCarveout(b) == b.pages /\ ~b.imported /\ b.vram_node # "null"
Held(b) == IF InCarveout(b) THEN {b.addr} ELSE {}

InVram == {o \in Objects : InCarveout(bo[o])}
MemInv ==
  /\ mm = {bo[o].addr : o \in InVram}
  /\ \A o, p \in InVram : bo[o].addr = bo[p].addr => o = p
  /\ total_mem = Cardinality({o \in Objects : Owned(bo[o]) = 1})

Others ==
  /\ dev \in Devices
  /\ lock \subseteq Objects
  /\ shr \in [obj : SUBSET Objects, list : Lrus]
  /\ fence \in [Objects -> {"none", "queued", "running"}]
  /\ uses \in [Objects -> [iova : 0 .. MaxUses, vaddr : 0 .. MaxUses]]
  /\ told \in [Objects -> Slots \cup {NoSlot}]
  /\ want \in [Objects -> {WILLNEED, DONTNEED, NoAdvice}]
  /\ shr.list = "willneed" /\ shr.obj # {} => dev.swap
  /\ oops = FALSE

MInv ==
  /\ Others /\ bo \in [Objects -> Bo]
  /\ \A o \in Objects : Proper(bo[o], told[o])
  /\ MemInv
  /\ \A o \in shr.obj : bo[o].live

(* What a call leaves of the memory when it makes the object of result r.  *)
Accounts(b, r) ==
  /\ r.mm = (mm \ Held(b)) \cup Held(r.b)
  /\ Held(r.b) \cap (mm \ Held(b)) = {}
  /\ r.mem = total_mem - Owned(b) + Owned(r.b)

LEMMA DevFacts ==
  ASSUME Others, DevicesSound
  PROVE  /\ dev.mmu \in BOOLEAN /\ dev.vram \in BOOLEAN /\ dev.swap \in BOOLEAN
         /\ dev.sgt_fails \in BOOLEAN
         /\ dev.vram => ~dev.swap
         /\ dev.mmu => ~dev.sgt_fails
  BY GemAssumption DEF Others, DevicesSound

LEMMA LruForm ==
  ASSUME NEW b \in Bo
  PROVE  /\ \E l \in Lrus : /\ UpdateLru(b) = [b EXCEPT !.lru = l]
                            /\ LruGood([b EXCEPT !.lru = l]) \/ ~(b.pin_count > 0 => b.pages)
         /\ \E l \in Lrus : /\ UpdateLruActive(b) = [b EXCEPT !.lru = l]
                            /\ LruGood([b EXCEPT !.lru = l]) \/ ~b.pages
<1>1. ASSUME NEW l \in Lrus
      PROVE  LET c == [b EXCEPT !.lru = l] IN
             /\ c.lru = l /\ c.pin_count = b.pin_count /\ c.pages = b.pages
             /\ c.madv = b.madv /\ c.imported = b.imported
  BY DEF Bo
<1>2. b.pin_count \in Nat /\ b.madv \in Madv /\ b.pages \in BOOLEAN
  BY DEF Bo
<1>3. \E l \in Lrus : /\ UpdateLruActive(b) = [b EXCEPT !.lru = l]
                      /\ l = "pinned" <=> b.pin_count # 0
                      /\ l = "willneed" <=> (b.pin_count = 0 /\ b.madv = WILLNEED)
                      /\ l = "dontneed" <=> (b.pin_count = 0 /\ b.madv # WILLNEED)
  BY DEF UpdateLruActive, Lrus
<1>4. PICK l \in Lrus : /\ UpdateLruActive(b) = [b EXCEPT !.lru = l]
                        /\ l = "pinned" <=> b.pin_count # 0
                        /\ l = "willneed" <=> (b.pin_count = 0 /\ b.madv = WILLNEED)
                        /\ l = "dontneed" <=> (b.pin_count = 0 /\ b.madv # WILLNEED)
  BY <1>3
<1>5. b.pages => LruGood([b EXCEPT !.lru = l])
  BY <1>1, <1>2, <1>4 DEF LruGood, WILLNEED, DONTNEED, PURGED, Madv
<1>6. ~b.pages => UpdateLru(b) = [b EXCEPT !.lru = "unbacked"] /\ "unbacked" \in Lrus
  BY DEF UpdateLru, Lrus
<1>7. ~b.pages /\ ~(b.pin_count > 0) => LruGood([b EXCEPT !.lru = "unbacked"])
  BY <1>1, <1>2, <1>6 DEF LruGood
<1>8. b.pages => UpdateLru(b) = UpdateLruActive(b)
  BY DEF UpdateLru
<1> QED BY <1>4, <1>5, <1>6, <1>7, <1>8

(* What a change of pins, mappings or lists must see to.                   *)
LEMMA GoodChange ==
  ASSUME NEW b, NEW t, Good(b, t), NEW c \in Bo, LruGood(c),
         c.live = b.live, c.imported = b.imported, c.vram_node = b.vram_node,
         c.pages = b.pages, c.sgt = b.sgt, c.addr = b.addr, c.madv = b.madv,
         c.data = b.data, c.iova = b.iova,
         ~b.pages => /\ ~c.pte /\ ~c.vaddr
                     /\ c.vmas["kms"] # "mapped" /\ c.vmas["ctx"] # "mapped"
  PROVE  Good(c, t) /\ Held(c) = Held(b) /\ Owned(c) = Owned(b)
  BY DEF Good, Held, Owned, InCarveout


LEMMA GetPagesGood ==
  ASSUME Others, DevicesSound, NEW b, NEW t, Good(b, t), Held(b) \subseteq mm, total_mem \in Nat,
         ~b.pages => b.madv = WILLNEED, b.pin_count > 0 => b.pages,
         NEW r \in GetPages(b)
  PROVE  /\ Good(r.b, t) /\ Accounts(b, r) /\ DOMAIN r = {"ok", "b", "mm", "mem"}
         /\ r.ok => r.b.pages
         /\ b.pages => r.b = b
         /\ r.b.vmas = b.vmas /\ r.b.madv = b.madv /\ r.b.pin_count = b.pin_count
         /\ r.b.vmap_count = b.vmap_count /\ r.b.iova = b.iova
         /\ r.b.imported = b.imported
<1>1. CASE b.pages
  <2>1. r = Result(TRUE, b, mm, total_mem)
    BY <1>1 DEF GetPages
  <2>2. Accounts(b, r)
    BY <2>1 DEF Accounts, Result, Owned
  <2> QED BY <1>1, <2>1, <2>2 DEF Result
<1>2. CASE ~b.pages
  <2>1. b.vram_node = "null" /\ dev.mmu /\ ~b.imported /\ ~dev.sgt_fails /\ b.pin_count = 0
    BY <1>2, DevFacts DEF Good, Bo, WILLNEED, PURGED
  <2> DEFINE c == [b EXCEPT !.pages = TRUE, !.addr = NoSlot, !.sgt = TRUE]
  <2>2. c = [[b EXCEPT !.pages = TRUE, !.addr = NoSlot] EXCEPT !.sgt = TRUE]
    BY DEF Good, Bo
  <2>3. mm \cup ({NoSlot} \ {NoSlot}) = mm
    OBVIOUS
  <2>4. r = Result(FALSE, b, mm, total_mem) \/ r = Result(TRUE, UpdateLru(c), mm, total_mem + 1)
    BY <1>2, <2>1, <2>2, <2>3 DEF GetPages, Places
  <2>5. CASE r = Result(FALSE, b, mm, total_mem)
    <3>1. Accounts(b, r)
      BY <2>5 DEF Accounts, Result, Owned
    <3> QED BY <1>2, <2>5, <3>1 DEF Result
  <2>6. CASE r = Result(TRUE, UpdateLru(c), mm, total_mem + 1)
    <3>1. /\ c \in Bo /\ c.pages /\ c.sgt /\ c.addr = NoSlot /\ c.pin_count = 0
          /\ c.live /\ c.imported = b.imported /\ c.vram_node = "null" /\ c.madv = b.madv
          /\ c.data = b.data /\ c.iova = b.iova /\ c.vmas = b.vmas /\ c.vmap_count = b.vmap_count
      BY <2>1 DEF Good, Bo
    <3> HIDE DEF c
    <3>2. PICK l \in Lrus : UpdateLru(c) = [c EXCEPT !.lru = l] /\ LruGood([c EXCEPT !.lru = l])
      BY <3>1, LruForm
    <3> DEFINE d == [c EXCEPT !.lru = l]
    <3>3. /\ d \in Bo /\ d.pages /\ d.sgt /\ d.addr = NoSlot /\ d.pin_count = 0
          /\ d.live /\ d.imported = b.imported /\ d.vram_node = "null" /\ d.madv = b.madv
          /\ d.data = b.data /\ d.iova = b.iova /\ d.vmas = b.vmas /\ d.vmap_count = b.vmap_count
      BY <3>1 DEF Bo
    <3>4. LruGood(d)
      BY <3>2
    <3>5. r = Result(TRUE, d, mm, total_mem + 1)
      BY <2>6, <3>2
    <3> HIDE DEF d
    <3>6. t # NoSlot => FALSE
      BY <2>1 DEF Good
    <3>7. Good(d, t)
      BY <2>1, <3>3, <3>4, <3>6 DEF Good
    <3>8. Held(d) = {} /\ Owned(d) = 1 /\ Held(b) = {} /\ Owned(b) = 0
      BY <1>2, <3>3, <2>1 DEF Held, Owned, InCarveout
    <3>9. Accounts(b, r)
      BY <3>5, <3>8 DEF Accounts, Result
    <3> QED BY <1>2, <2>1, <3>3, <3>5, <3>7, <3>9 DEF Result
  <2> QED BY <2>4, <2>5, <2>6
<1>3. b.pages \in BOOLEAN
  BY DEF Good, Bo
<1> QED BY <1>1, <1>2, <1>3

(* The books after a step that changes one object.                         *)
LEMMA MemFrame ==
  ASSUME MemInv, DOMAIN bo = Objects, NEW o \in Objects, NEW c,
         bo' = [bo EXCEPT ![o] = c],
         mm' = (mm \ Held(bo[o])) \cup Held(c), Held(c) \cap (mm \ Held(bo[o])) = {},
         total_mem' = total_mem - Owned(bo[o]) + Owned(c)
  PROVE  MemInv'
<1>1. bo'[o] = c /\ \A p \in Objects : p # o => bo'[p] = bo[p]
  OBVIOUS
<1>2. InVram' = {p \in Objects : InCarveout(bo'[p])}
  BY DEF InVram, InCarveout
<1>3. \A p \in Objects : p # o => (p \in InVram' <=> p \in InVram)
  BY <1>1, <1>2 DEF InVram
<1>4. (o \in InVram' <=> Held(c) = {c.addr}) /\ (o \notin InVram' <=> Held(c) = {})
  BY <1>1, <1>2 DEF Held
<1>5. (o \in InVram <=> Held(bo[o]) = {bo[o].addr}) /\ (o \notin InVram <=> Held(bo[o]) = {})
  BY DEF Held, InVram
<1>6. InVram \subseteq Objects /\ InVram' \subseteq Objects
  BY <1>2 DEF InVram
<1>7. mm' = {bo'[p].addr : p \in InVram'}
  <2>1. mm \ Held(bo[o]) = {bo[p].addr : p \in InVram \ {o}}
    BY <1>5, <1>6 DEF MemInv
  <2> QED BY <1>1, <1>3, <1>4, <1>6, <2>1
<1>8. \A p, q \in InVram' : bo'[p].addr = bo'[q].addr => p = q
  <2>1. ASSUME NEW p \in InVram', p # o
        PROVE  p \in InVram /\ bo'[p].addr = bo[p].addr /\ bo[p].addr \in mm \ Held(bo[o])
    <3>1. p \in InVram /\ bo'[p].addr = bo[p].addr
      BY <1>1, <1>3, <1>6, <2>1
    <3> QED BY <1>5, <2>1, <3>1 DEF MemInv
  <2>2. ASSUME NEW p \in InVram', p # o, o \in InVram'
        PROVE  bo'[p].addr # bo'[o].addr
    BY <1>1, <1>4, <2>1, <2>2
  <2> QED BY <2>1, <2>2 DEF MemInv
<1> DEFINE A == {p \in Objects : Owned(bo[p]) = 1}
           B == {p \in Objects : Owned(bo'[p]) = 1}
<1>9. IsFiniteSet(A) /\ IsFiniteSet(B) /\ Cardinality(A) \in Nat
  <2>1. A \subseteq Objects /\ B \subseteq Objects
    OBVIOUS
  <2> HIDE DEF A, B
  <2> QED BY <2>1, FS_Subset, FS_CardinalityType, GemAssumption
<1>10. Owned(bo[o]) \in {0, 1} /\ Owned(c) \in {0, 1}
  BY DEF Owned
<1>11. total_mem' = Cardinality(B)
  <2>1. total_mem = Cardinality(A)
    BY DEF MemInv
  <2>2. (o \in A <=> Owned(bo[o]) = 1) /\ (o \in B <=> Owned(c) = 1)
    BY <1>1
  <2>3. \A p : p # o => (p \in A <=> p \in B)
    BY <1>1
  <2> HIDE DEF A, B
  <2>4. CASE Owned(bo[o]) = Owned(c)
    <3>1. A = B
      BY <2>2, <2>3, <2>4
    <3> QED BY <1>9, <1>10, <2>1, <2>4, <3>1
  <2>5. CASE Owned(bo[o]) = 0 /\ Owned(c) = 1
    <3>1. B = A \cup {o} /\ o \notin A
      BY <2>2, <2>3, <2>5
    <3> QED BY <1>9, <2>1, <2>5, <3>1, FS_AddElement
  <2>6. CASE Owned(bo[o]) = 1 /\ Owned(c) = 0
    <3>1. B = A \ {o} /\ o \in A
      BY <2>2, <2>3, <2>6
    <3> QED BY <1>9, <2>1, <2>6, <3>1, FS_RemoveElement
  <2> QED BY <1>10, <2>4, <2>5, <2>6
<1>12. Cardinality({p \in Objects : Owned(bo[p]) = 1})' = Cardinality(B)
  BY DEF Owned
<1> QED BY <1>7, <1>8, <1>11, <1>12 DEF MemInv

LEMMA FreshOwnsNothing == Held(Fresh) = {} /\ Owned(Fresh) = 0 /\ Fresh \in Bo /\ ~Fresh.live
  BY DEF Held, Owned, InCarveout, Fresh, Bo, Madv, Lrus, Aspaces, WILLNEED, PURGED

LEMMA FreshFields ==
  /\ Fresh.vram_node = "null" /\ ~Fresh.pages /\ ~Fresh.sgt /\ Fresh.addr = NoSlot
  /\ ~Fresh.imported /\ Fresh.madv = 0 /\ Fresh.pin_count = 0 /\ Fresh.lru = "unbacked"
  /\ Fresh.data /\ Fresh.iova = NoSlot /\ ~Fresh.pte /\ ~Fresh.vaddr
  /\ Fresh.vmas["kms"] = "none" /\ Fresh.vmas["ctx"] = "none"
  BY DEF Fresh, Aspaces, WILLNEED

LEMMA HeldIn ==
  ASSUME MInv, NEW o \in Objects
  PROVE  /\ Held(bo[o]) \subseteq mm /\ mm \subseteq Slots /\ NoSlot \notin mm /\ total_mem \in Nat
         /\ Owned(bo[o]) \in {0, 1}
<1>1. Held(bo[o]) \subseteq mm
  BY DEF MInv, MemInv, InVram, Held
<1>2. ASSUME NEW p \in InVram
      PROVE  bo[p].addr \in Slots
  <2>1. Proper(bo[p], told[p]) /\ InCarveout(bo[p])
    BY DEF MInv, InVram
  <2>2. Good(bo[p], told[p])
    BY <2>1 DEF Proper, InCarveout, Fresh
  <2> QED BY <2>1, <2>2 DEF Good, InCarveout, Bo
<1>3. mm \subseteq Slots
  BY <1>2 DEF MInv, MemInv
<1>4. total_mem \in Nat
  <2> DEFINE A == {p \in Objects : Owned(bo[p]) = 1}
  <2>1. IsFiniteSet(A)
    BY FS_Subset, GemAssumption
  <2>2. total_mem = Cardinality(A)
    BY DEF MInv, MemInv
  <2> HIDE DEF A
  <2> QED BY <2>1, <2>2, FS_CardinalityType
<1> QED BY <1>1, <1>3, <1>4, GemAssumption DEF Owned

(* What is known of an object a step works on.                             *)
LEMMA GoodOf ==
  ASSUME MInv, IInv, NEW o \in Objects, bo[o].live
  PROVE  /\ Good(bo[o], told[o]) /\ bo[o] \in Bo
         /\ Held(bo[o]) \subseteq mm /\ total_mem \in Nat
         /\ bo[o].pin_count > 0 \/ fence[o] # "none" => bo[o].pages /\ bo[o].madv # PURGED
         /\ bo[o].vmap_count <= bo[o].pin_count
<1>1. Good(bo[o], told[o])
  BY DEF MInv, Proper
<1>2. Sound(bo[o], uses[o], fence[o])
  BY SoundOf
<1>3. bo[o].pin_count > 0 \/ fence[o] # "none" => bo[o].pages /\ bo[o].madv # PURGED
  BY <1>2 DEF Sound, Backed
<1>4. bo[o].vmap_count <= bo[o].pin_count
  BY <1>2 DEF Sound, Balanced, Users, Jobs
<1> QED BY <1>1, <1>3, <1>4, HeldIn DEF Good

(* A step that changes one object, and keeps the books of the memory.      *)
LEMMA StepFrame ==
  ASSUME MInv, IInv, NEW o \in Objects, NEW c, NEW t \in Slots \cup {NoSlot},
         bo' = [bo EXCEPT ![o] = c],
         told' = [told EXCEPT ![o] = t], Proper(c, t),
         dev' = dev, Others',
         shr'.obj \subseteq shr.obj, o \in shr'.obj => c.live,
         mm' = (mm \ Held(bo[o])) \cup Held(c), Held(c) \cap (mm \ Held(bo[o])) = {},
         total_mem' = total_mem - Owned(bo[o]) + Owned(c)
  PROVE  MInv'
<1>1. DOMAIN bo = Objects /\ DOMAIN told = Objects
  BY DEF IInv, MInv, Others
<1>2. MemInv'
  BY <1>1, MemFrame DEF MInv
<1>3. ASSUME NEW p \in Objects
      PROVE  Proper(bo'[p], told'[p])
  BY <1>1 DEF MInv
<1>4. ASSUME NEW p \in Objects
      PROVE  Proper(bo[p], told[p])'
  BY <1>3 DEF Proper, Good, LruGood
<1>5. \A p \in shr'.obj : bo'[p].live
  BY <1>1 DEF MInv, Others
<1>6. c \in Bo
  BY FreshOwnsNothing DEF Proper, Good
<1>7. bo' \in [Objects -> Bo]
  BY <1>6 DEF MInv
<1> QED BY <1>2, <1>4, <1>5, <1>7 DEF MInv

(* The same when the memory is left alone.                                 *)
LEMMA QuietFrame ==
  ASSUME MInv, IInv, NEW o \in Objects, NEW c, NEW t \in Slots \cup {NoSlot},
         bo' = [bo EXCEPT ![o] = c],
         told' = [told EXCEPT ![o] = t], Proper(c, t),
         dev' = dev, Others',
         shr'.obj \subseteq shr.obj, o \in shr'.obj => c.live,
         mm' = mm, total_mem' = total_mem,
         Held(c) = Held(bo[o]), Owned(c) = Owned(bo[o])
  PROVE  MInv'
<1>1. /\ mm' = (mm \ Held(bo[o])) \cup Held(c) /\ Held(c) \cap (mm \ Held(bo[o])) = {}
      /\ total_mem' = total_mem - Owned(bo[o]) + Owned(c)
  BY HeldIn
<1> QED BY <1>1, StepFrame

(* The rest of the state in a step that leaves the shrinker alone.         *)
LEMMA OthersSteady ==
  ASSUME Others, Steady,
         fence' \in [Objects -> {"none", "queued", "running"}],
         uses' \in [Objects -> [iova : 0 .. MaxUses, vaddr : 0 .. MaxUses]],
         told' \in [Objects -> Slots \cup {NoSlot}]
  PROVE  Others' /\ dev' = dev /\ shr' = shr /\ lock' = lock /\ oops' = oops /\ want' = want
  BY DEF Others, Steady

LEMMA ToldSame ==
  ASSUME Others, told' = told, NEW o \in Objects
  PROVE  told' = [told EXCEPT ![o] = told[o]] /\ told[o] \in Slots \cup {NoSlot}
  BY DEF Others

-------------------------------------------------------------------------------
(* Objects come and go.                                                    *)

(* What an object that is freed gives back.                                *)
LEMMA FreeGives ==
  ASSUME NEW r, DOMAIN r = {"ok", "b", "mm", "mem"}, r.b \in Bo, NoSlot \notin r.mm,
         r.b.vram_node = "null" => r.b.addr = NoSlot, r.mem \in Int
  PROVE  LET f == FreeObject(r) IN
         f.b = Fresh /\ f.mm = r.mm \ Held(r.b) /\ f.mem = r.mem - Owned(r.b)
<1> DEFINE v == [a \in Aspaces |->
                   IF a = "null" \/ r.b.vmas[a] = "none" THEN r.b.vmas[a] ELSE "none"]
           s == [r.b EXCEPT !.vmas = v]
           spaces == [r EXCEPT !.b = s]
           u == Vunmap(s)
           shut == [spaces EXCEPT !.b = u]
           put == IF r.b.imported THEN spaces ELSE PutPages(shut)
<1>1. PutIovaSpaces(r.b, TRUE) = s
  BY DEF PutIovaSpaces
<1>2. spaces.b = s /\ DOMAIN spaces = {"ok", "b", "mm", "mem"} /\ spaces.mm = r.mm /\ spaces.mem = r.mem
  <2> HIDE DEF s
  <2> QED OBVIOUS
<1>3. FreeObject(r) = [put EXCEPT !.b = Fresh]
  <2>1. [r EXCEPT !.b = PutIovaSpaces(@, TRUE)] = spaces
    BY <1>1
  <2>2. [spaces EXCEPT !.b = Vunmap(@)] = shut
    BY <1>2
  <2> HIDE DEF spaces, shut
  <2> QED BY <2>1, <2>2 DEF FreeObject
<1>4. /\ s.pages = r.b.pages /\ s.addr = r.b.addr /\ s.vram_node = r.b.vram_node
      /\ DOMAIN s = DOMAIN r.b
  <2> HIDE DEF v
  <2> QED BY DEF Bo
<1>5. u.pages = r.b.pages /\ u.addr = r.b.addr
  <2>1. u = s \/ u = [s EXCEPT !.vaddr = FALSE]
    BY DEF Vunmap
  <2> HIDE DEF s, u
  <2> QED BY <1>4, <2>1 DEF Bo
<1>6. shut.b = u /\ shut.mm = r.mm /\ shut.mem = r.mem /\ DOMAIN shut = {"ok", "b", "mm", "mem"}
  <2> HIDE DEF spaces, u
  <2> QED BY <1>2
<1>7. r.b.pages \in BOOLEAN /\ r.b.imported \in BOOLEAN
  BY DEF Bo
<1> HIDE DEF s, u, spaces, shut
<1>8. CASE r.b.imported
  <2>1. put = spaces
    BY <1>8
  <2>2. Held(r.b) = {} /\ Owned(r.b) = 0
    BY <1>8 DEF Held, Owned, InCarveout
  <2> HIDE DEF put
  <2> QED BY <1>2, <1>3, <2>1, <2>2
<1>9. CASE ~r.b.imported /\ r.b.pages
  <2>1. put = GivenBack(shut)
    BY <1>5, <1>6, <1>9 DEF PutPages
  <2>2. /\ DOMAIN put = {"ok", "b", "mm", "mem"}
        /\ put.mm = r.mm \ {r.b.addr} /\ put.mem = r.mem - 1
    BY <1>5, <1>6, <2>1 DEF GivenBack, Result
  <2>3. r.mm \ {r.b.addr} = r.mm \ Held(r.b) /\ Owned(r.b) = 1
    BY <1>9 DEF Held, Owned, InCarveout
  <2> HIDE DEF put
  <2> QED BY <1>3, <2>2, <2>3
<1>10. CASE ~r.b.imported /\ ~r.b.pages
  <2>1. put = shut
    BY <1>5, <1>6, <1>10 DEF PutPages
  <2>2. Held(r.b) = {} /\ Owned(r.b) = 0
    BY <1>10 DEF Held, Owned, InCarveout
  <2> HIDE DEF put
  <2> QED BY <1>3, <1>6, <2>1, <2>2
<1> QED BY <1>7, <1>8, <1>9, <1>10

LEMMA FreeMem ==
  ASSUME MInv, IInv, DevicesSound, NEW o \in Objects, Free(o)
  PROVE  MInv'
<1> DEFINE r == Result(TRUE, bo[o], mm, total_mem)
<1>1. bo[o].live /\ o \notin shr.obj /\ Set(o, FreeObject(r)) /\ Steady /\ UNCHANGED <<fence, uses>>
      /\ told' = [told EXCEPT ![o] = NoSlot]
  BY DEF Free, Open
<1>2. Good(bo[o], told[o]) /\ bo[o] \in Bo /\ total_mem \in Nat /\ NoSlot \notin mm
  BY <1>1, GoodOf, HeldIn
<1>3. /\ DOMAIN r = {"ok", "b", "mm", "mem"} /\ r.b = bo[o] /\ r.mm = mm /\ r.mem = total_mem
  BY DEF Result
<1> HIDE DEF r
<1>4. bo' = [bo EXCEPT ![o] = Fresh] /\ mm' = mm \ Held(bo[o]) /\ total_mem' = total_mem - Owned(bo[o])
  <2>1. bo[o].vram_node = "null" => bo[o].addr = NoSlot
    BY <1>2 DEF Good
  <2>2. /\ FreeObject(r).b = Fresh /\ FreeObject(r).mm = mm \ Held(bo[o])
        /\ FreeObject(r).mem = total_mem - Owned(bo[o])
    <3>1. r.mem \in Int /\ NoSlot \notin r.mm
      BY <1>2, <1>3
    <3> QED BY <1>2, <1>3, <2>1, <3>1, FreeGives
  <2> QED BY <1>1, <2>2 DEF Set
<1>5. Others' /\ dev' = dev /\ shr' = shr
  BY <1>1, OthersSteady DEF MInv, Others
<1>6. Owned(bo[o]) \in {0, 1}
  BY DEF Owned
<1>7. Proper(Fresh, NoSlot)
  BY FreshOwnsNothing DEF Proper
<1>8. /\ mm' = (mm \ Held(bo[o])) \cup Held(Fresh) /\ Held(Fresh) \cap (mm \ Held(bo[o])) = {}
      /\ total_mem' = total_mem - Owned(bo[o]) + Owned(Fresh)
  BY <1>2, <1>4, <1>6, FreshOwnsNothing
<1>9. shr'.obj \subseteq shr.obj /\ (o \in shr'.obj => Fresh.live)
  BY <1>1, <1>5
<1> QED BY <1>1, <1>4, <1>5, <1>7, <1>8, <1>9, StepFrame

LEMMA ImportMem ==
  ASSUME MInv, IInv, DevicesSound, NEW o \in Objects, Import(o)
  PROVE  MInv'
<1> DEFINE b == [Fresh EXCEPT !.live = TRUE, !.imported = TRUE, !.pages = TRUE,
                              !.sgt = TRUE, !.lru = "pinned"]
<1>1. /\ ~bo[o].live /\ bo' = [bo EXCEPT ![o] = b] /\ mm' = mm /\ total_mem' = total_mem
      /\ dev.mmu /\ Steady /\ UNCHANGED <<fence, uses, told>>
  BY DEF Import, Set, Result
<1>2. bo[o] = Fresh /\ told[o] = NoSlot
  BY <1>1 DEF MInv, Proper
<1>b. /\ b \in Bo /\ b.live /\ b.imported /\ b.pages /\ b.sgt /\ b.lru = "pinned"
      /\ b.vram_node = "null" /\ b.addr = NoSlot /\ b.madv = 0 /\ b.data
  BY FreshOwnsNothing, FreshFields DEF Bo, Lrus
<1>3. Good(b, NoSlot) /\ b.live
  <2> HIDE DEF b
  <2> QED BY <1>1, <1>b DEF Good, LruGood, WILLNEED, PURGED, DONTNEED
<1>4. Held(b) = {} /\ Owned(b) = 0
  <2> HIDE DEF b
  <2> QED BY <1>b DEF Held, Owned, InCarveout
<1> HIDE DEF b
<1>5. Others' /\ dev' = dev /\ shr' = shr
  BY <1>1, OthersSteady DEF MInv, Others
<1>6. told' = [told EXCEPT ![o] = NoSlot]
  BY <1>1, <1>2, ToldSame DEF MInv
<1>7. Proper(b, NoSlot)
  BY <1>3 DEF Proper
<1> QED BY <1>1, <1>2, <1>3, <1>4, <1>5, <1>6, <1>7, FreshOwnsNothing, QuietFrame

LEMMA NewMem ==
  ASSUME MInv, IInv, DevicesSound, NEW o \in Objects, NEW scanout \in BOOLEAN, New(o, scanout)
  PROVE  MInv'
<1> DEFINE vram == [Fresh EXCEPT !.live = TRUE, !.vram_node = "node",
                                 !.vmas["null"] = "reserved"]
           shmem == [Fresh EXCEPT !.live = TRUE]
           use_vram == ~dev.mmu \/ (scanout /\ dev.vram)
<1>1. ~bo[o].live /\ Steady /\ UNCHANGED <<fence, uses, told>> /\ (use_vram => dev.vram)
  BY DEF New
<1>2. bo[o] = Fresh /\ told[o] = NoSlot /\ o \notin shr.obj
  BY <1>1 DEF MInv, Proper
<1>3. Others' /\ dev' = dev /\ shr' = shr
  BY <1>1, OthersSteady DEF MInv, Others
<1>4. told' = [told EXCEPT ![o] = NoSlot]
  BY <1>1, <1>2, ToldSame DEF MInv
<1>5. mm \subseteq Slots /\ NoSlot \notin mm /\ total_mem \in Nat
  BY HeldIn
<1>6. ASSUME NEW c, bo' = [bo EXCEPT ![o] = c], Proper(c, NoSlot),
             mm' = mm \cup Held(c), Held(c) \cap mm = {}, total_mem' = total_mem + Owned(c)
      PROVE  MInv'
  <2>1. Owned(c) \in {0, 1}
    BY DEF Owned
  <2>2. /\ mm' = (mm \ Held(bo[o])) \cup Held(c) /\ Held(c) \cap (mm \ Held(bo[o])) = {}
        /\ total_mem' = total_mem - Owned(bo[o]) + Owned(c)
    BY <1>2, <1>5, <1>6, <2>1, FreshOwnsNothing
  <2>3. shr'.obj \subseteq shr.obj /\ (o \in shr'.obj => c.live)
    BY <1>2, <1>3
  <2> QED BY <1>3, <1>4, <1>6, <2>2, <2>3, StepFrame
<1>7. CASE ~use_vram
  <2>1. Set(o, Result(TRUE, shmem, mm, total_mem)) /\ dev.mmu
    BY <1>7, DevFacts DEF New, MInv
  <2>b. /\ shmem \in Bo /\ shmem.live /\ ~shmem.imported /\ ~shmem.pages /\ shmem.lru = "unbacked"
        /\ shmem.vram_node = "null" /\ shmem.addr = NoSlot /\ shmem.madv = 0 /\ shmem.data
        /\ ~shmem.pte /\ ~shmem.vaddr /\ shmem.vmas = Fresh.vmas /\ shmem.pin_count = 0
    BY FreshOwnsNothing, FreshFields DEF Bo
  <2> HIDE DEF shmem
  <2>2. Good(shmem, NoSlot) /\ shmem.live
    BY <2>1, <2>b, FreshFields DEF Good, LruGood, WILLNEED, PURGED, DONTNEED
  <2>3. Held(shmem) = {} /\ Owned(shmem) = 0
    BY <2>b DEF Held, Owned, InCarveout
  <2>4. Proper(shmem, NoSlot)
    BY <2>2 DEF Proper
  <2>5. bo' = [bo EXCEPT ![o] = shmem] /\ mm' = mm /\ total_mem' = total_mem
    BY <2>1 DEF Set, Result
  <2>6. mm' = mm \cup Held(shmem) /\ Held(shmem) \cap mm = {} /\ total_mem' = total_mem + Owned(shmem)
    BY <1>5, <2>3, <2>5
  <2> QED BY <1>6, <2>4, <2>5, <2>6
<1>8. CASE use_vram
  <2>1. PICK r \in GetPages(vram) :
              Set(o, IF ~r.ok THEN FreeObject(r)
                     ELSE [r EXCEPT !.b.iova = r.b.addr, !.b.lru = "unbacked"])
    BY <1>8 DEF New
  <2>2. dev.vram
    BY <1>1, <1>8
  <2> DEFINE Taken(a) == [vram EXCEPT !.pages = TRUE, !.addr = a]
             Full(a)  == [Taken(a) EXCEPT !.sgt = TRUE]
             Used(a)  == mm \cup ({a} \ {NoSlot})
  <2>3. ~vram.pages /\ vram.vram_node = "node"
    BY DEF Fresh
  <2>4. \/ r = Result(FALSE, vram, mm, total_mem)
        \/ \E a \in Slots \ mm : r = Result(TRUE, UpdateLru(Full(a)), Used(a), total_mem + 1)
        \/ \E a \in Slots \ mm : r = Result(FALSE, Taken(a), Used(a), total_mem + 1)
    BY <2>3 DEF GetPages, Places
  <2>5. /\ vram \in Bo /\ ~vram.pages /\ ~vram.imported /\ vram.live /\ vram.data
        /\ vram.madv = 0 /\ vram.pin_count = 0 /\ ~vram.pte /\ ~vram.vaddr
    <3> DEFINE m == [Fresh.vmas EXCEPT !["null"] = "reserved"]
    <3>1. m \in [Aspaces -> {"none", "reserved", "mapped"}]
      BY FreshOwnsNothing DEF Bo
    <3>2. vram = [Fresh EXCEPT !.live = TRUE, !.vram_node = "node", !.vmas = m]
      BY FreshOwnsNothing DEF Bo
    <3> HIDE DEF m, vram
    <3> QED BY <3>1, <3>2, FreshOwnsNothing, FreshFields DEF Bo
  <2>6. ASSUME NEW a \in Slots \ mm
        PROVE  /\ Taken(a) \in Bo /\ Taken(a).pages /\ ~Taken(a).imported
               /\ Taken(a).vram_node = "node" /\ Taken(a).addr = a
               /\ Full(a) \in Bo /\ Full(a).pages /\ ~Full(a).imported /\ Full(a).live
               /\ Full(a).vram_node = "node" /\ Full(a).addr = a /\ Full(a).sgt /\ Full(a).data
               /\ Full(a).madv = WILLNEED /\ Full(a).pin_count = 0 /\ ~Full(a).pte /\ ~Full(a).vaddr
    <3> HIDE DEF vram
    <3>1. /\ Taken(a) \in Bo /\ Taken(a).pages /\ ~Taken(a).imported /\ Taken(a).live
          /\ Taken(a).vram_node = "node" /\ Taken(a).addr = a /\ Taken(a).data
          /\ Taken(a).madv = 0 /\ Taken(a).pin_count = 0 /\ ~Taken(a).pte /\ ~Taken(a).vaddr
      BY <2>3, <2>5 DEF Bo
    <3> HIDE DEF Taken
    <3> QED BY <3>1 DEF Bo, WILLNEED
  <2> HIDE DEF vram, Taken, Full
  <2>7. ASSUME NEW a \in Slots \ mm
        PROVE  Used(a) = mm \cup {a} /\ a # NoSlot
    BY GemAssumption
  <2> HIDE DEF Used
  <2>f. ASSUME DOMAIN r = {"ok", "b", "mm", "mem"}, r.b \in Bo, ~r.ok, NoSlot \notin r.mm,
               r.b.vram_node = "node", r.mem \in Int,
               r.mm \ Held(r.b) = mm, r.mem - Owned(r.b) = total_mem
        PROVE  MInv'
    <3>1. FreeObject(r).b = Fresh /\ FreeObject(r).mm = mm /\ FreeObject(r).mem = total_mem
      BY <2>f, FreeGives
    <3>2. bo' = [bo EXCEPT ![o] = Fresh] /\ mm' = mm /\ total_mem' = total_mem
      BY <2>1, <2>f, <3>1 DEF Set
    <3>3. mm' = mm \cup Held(Fresh) /\ Held(Fresh) \cap mm = {} /\ total_mem' = total_mem + Owned(Fresh)
      BY <1>5, <3>2, FreshOwnsNothing
    <3>4. Proper(Fresh, NoSlot)
      BY FreshOwnsNothing DEF Proper
    <3> QED BY <1>6, <3>2, <3>3, <3>4
  <2>8. CASE r = Result(FALSE, vram, mm, total_mem)
    <3>1. DOMAIN r = {"ok", "b", "mm", "mem"} /\ r.b = vram /\ r.mm = mm /\ r.mem = total_mem /\ ~r.ok
      BY <2>8 DEF Result
    <3>2. Held(vram) = {} /\ Owned(vram) = 0
      BY <2>5 DEF Held, Owned, InCarveout
    <3> QED BY <1>5, <2>3, <2>5, <2>f, <3>1, <3>2
  <2>9. ASSUME NEW a \in Slots \ mm, r = Result(FALSE, Taken(a), Used(a), total_mem + 1)
        PROVE  MInv'
    <3>1. /\ DOMAIN r = {"ok", "b", "mm", "mem"} /\ r.b = Taken(a) /\ r.mm = mm \cup {a}
          /\ r.mem = total_mem + 1 /\ ~r.ok
      BY <2>7, <2>9 DEF Result
    <3>2. Held(r.b) = {a} /\ Owned(r.b) = 1
      BY <2>6, <3>1 DEF Held, Owned, InCarveout
    <3> QED BY <1>5, <2>6, <2>7, <2>f, <3>1, <3>2
  <2>10. ASSUME NEW a \in Slots \ mm, r = Result(TRUE, UpdateLru(Full(a)), Used(a), total_mem + 1)
         PROVE  MInv'
    <3>1. PICK l \in Lrus : UpdateLru(Full(a)) = [Full(a) EXCEPT !.lru = l]
      BY <2>6, LruForm
    <3> DEFINE c == [Full(a) EXCEPT !.lru = "unbacked", !.iova = a]
    <3>2. /\ DOMAIN r = {"ok", "b", "mm", "mem"} /\ r.b = [Full(a) EXCEPT !.lru = l]
          /\ r.mm = mm \cup {a} /\ r.mem = total_mem + 1 /\ r.ok
      BY <2>7, <2>10, <3>1 DEF Result
    <3>3. r.b.addr = a
      BY <2>6, <3>2 DEF Bo
    <3>4. [r EXCEPT !.b.iova = r.b.addr, !.b.lru = "unbacked"].b = c
      BY <2>6, <3>2, <3>3 DEF Bo
    <3>5. /\ c \in Bo /\ c.pages /\ ~c.imported /\ c.live /\ c.vram_node = "node" /\ c.addr = a
          /\ c.sgt /\ c.data /\ c.madv = WILLNEED /\ c.pin_count = 0 /\ c.iova = a
          /\ c.lru = "unbacked"
      <4> DEFINE f == Full(a)
      <4>1. a \in Slots \cup {NoSlot} /\ "unbacked" \in Lrus
        BY DEF Lrus
      <4>2. /\ f \in Bo /\ f.pages /\ ~f.imported /\ f.live /\ f.vram_node = "node" /\ f.addr = a
            /\ f.sgt /\ f.data /\ f.madv = WILLNEED /\ f.pin_count = 0
        BY <2>6
      <4> HIDE DEF f
      <4>3. c = [f EXCEPT !.lru = "unbacked", !.iova = a]
        BY DEF f
      <4> HIDE DEF c
      <4> QED BY <4>1, <4>2, <4>3 DEF Bo
    <3>6. bo' = [bo EXCEPT ![o] = c] /\ mm' = mm \cup {a} /\ total_mem' = total_mem + 1
      <4>r. r.ok
        BY <3>2
      <4>1. Set(o, [r EXCEPT !.b.iova = r.b.addr, !.b.lru = "unbacked"])
        BY <2>1, <4>r
      <4>2. /\ [r EXCEPT !.b.iova = r.b.addr, !.b.lru = "unbacked"].mm = r.mm
            /\ [r EXCEPT !.b.iova = r.b.addr, !.b.lru = "unbacked"].mem = r.mem
        BY <3>2
      <4> QED BY <3>2, <3>4, <4>1, <4>2 DEF Set
    <3> HIDE DEF c
    <3>7. Good(c, NoSlot)
      BY <2>2, <2>7, <3>5 DEF Good, LruGood, WILLNEED, DONTNEED, PURGED
    <3>8. Held(c) = {a} /\ Owned(c) = 1
      BY <3>5 DEF Held, Owned, InCarveout
    <3> QED BY <1>6, <3>5, <3>6, <3>7, <3>8 DEF Proper
  <2> QED BY <2>4, <2>8, <2>9, <2>10
<1> QED BY <1>7, <1>8

-------------------------------------------------------------------------------
(* Pins and mappings.                                                      *)

(* What a change that leaves the memory alone keeps of an object.          *)
Kept(b, c, t) == /\ Good(c, t) /\ Held(c) = Held(b) /\ Owned(c) = Owned(b)
                 /\ c.pages = b.pages /\ c.iova = b.iova

LEMMA PinObjGood ==
  ASSUME NEW b, NEW t, Good(b, t), b.pages
  PROVE  Kept(b, PinObj(b), t) /\ PinObj(b).pin_count = b.pin_count + 1
<1> DEFINE n == b.pin_count + 1
           c == PinObj(b)
<1>n. n \in Nat /\ n > 0
  BY DEF Good, Bo
<1>1. /\ c \in Bo /\ c.lru = "pinned" /\ c.pin_count > 0 /\ c.pin_count = b.pin_count + 1
      /\ c.live = b.live /\ c.imported = b.imported /\ c.vram_node = b.vram_node
      /\ c.pages = b.pages /\ c.sgt = b.sgt /\ c.addr = b.addr /\ c.madv = b.madv
      /\ c.data = b.data /\ c.iova = b.iova
  <2>1. c = [b EXCEPT !.pin_count = n, !.lru = "pinned"] /\ n = b.pin_count + 1
    BY DEF PinObj
  <2> HIDE DEF c, n
  <2> QED BY <1>n, <2>1 DEF Good, Bo, Lrus
<1> HIDE DEF c
<1>2. LruGood(c)
  BY <1>1 DEF LruGood
<1>3. Good(c, t) /\ Held(c) = Held(b) /\ Owned(c) = Owned(b)
  BY <1>1, <1>2, GoodChange
<1> QED BY <1>1, <1>3 DEF Kept, c

LEMMA VmasGood ==
  ASSUME NEW b, NEW t, Good(b, t), NEW v \in [Aspaces -> {"none", "reserved", "mapped"}],
         ~b.pages => v["kms"] # "mapped" /\ v["ctx"] # "mapped"
  PROVE  LET c == [b EXCEPT !.vmas = v] IN
         /\ Kept(b, c, t) /\ c.vmas = v /\ c.madv = b.madv /\ c.pin_count = b.pin_count
         /\ c.vmap_count = b.vmap_count /\ c.imported = b.imported
<1> DEFINE c == [b EXCEPT !.vmas = v]
<1>1. /\ c \in Bo /\ c.lru = b.lru /\ c.pin_count = b.pin_count /\ c.vmas = v
      /\ c.vmap_count = b.vmap_count
      /\ c.live = b.live /\ c.imported = b.imported /\ c.vram_node = b.vram_node
      /\ c.pages = b.pages /\ c.sgt = b.sgt /\ c.addr = b.addr /\ c.madv = b.madv
      /\ c.data = b.data /\ c.iova = b.iova /\ c.pte = b.pte /\ c.vaddr = b.vaddr
  BY DEF Good, Bo
<1> HIDE DEF c
<1>2. LruGood(c)
  BY <1>1 DEF LruGood, Good
<1>3. ~b.pages => ~b.pte /\ ~b.vaddr
  BY DEF Good
<1>4. Good(c, t) /\ Held(c) = Held(b) /\ Owned(c) = Owned(b)
  BY <1>1, <1>2, <1>3, GoodChange
<1> QED BY <1>1, <1>4 DEF Kept, c

LEMMA GetVmaGood ==
  ASSUME NEW b, NEW t, Good(b, t), NEW a \in Aspaces
  PROVE  LET c == GetVma(b, a) IN
         /\ Kept(b, c, t) /\ c.madv = b.madv /\ c.pin_count = b.pin_count
         /\ c.vmap_count = b.vmap_count
<1> DEFINE v == [b.vmas EXCEPT ![a] = IF @ = "none" THEN "reserved" ELSE @]
<1>1. GetVma(b, a) = [b EXCEPT !.vmas = v]
  BY DEF GetVma
<1>2. b.vmas \in [Aspaces -> {"none", "reserved", "mapped"}]
  BY DEF Good, Bo
<1>3. v \in [Aspaces -> {"none", "reserved", "mapped"}] /\ \A s \in Aspaces : v[s] = "mapped" => b.vmas[s] = "mapped"
  BY <1>2
<1>4. ~b.pages => b.vmas["kms"] # "mapped" /\ b.vmas["ctx"] # "mapped"
  BY DEF Good
<1>5. "kms" \in Aspaces /\ "ctx" \in Aspaces
  BY DEF Aspaces
<1> HIDE DEF v
<1>6. ~b.pages => v["kms"] # "mapped" /\ v["ctx"] # "mapped"
  BY <1>3, <1>4, <1>5
<1> QED BY <1>1, <1>3, <1>6, VmasGood

LEMMA MappedGood ==
  ASSUME NEW b, NEW t, Good(b, t), b.pages, NEW a \in Aspaces
  PROVE  Kept(b, Mapped(b, a), t)
<1> DEFINE p == PinObj(b)
           v == [p.vmas EXCEPT ![a] = "mapped"]
<1>1. Kept(b, p, t)
  BY PinObjGood
<1>2. Mapped(b, a) = [p EXCEPT !.vmas = v]
  BY DEF Mapped
<1> HIDE DEF p
<1>3. p.vmas \in [Aspaces -> {"none", "reserved", "mapped"}]
  BY <1>1 DEF Kept, Good, Bo
<1>4. v \in [Aspaces -> {"none", "reserved", "mapped"}]
  BY <1>3
<1> HIDE DEF v
<1>5. Kept(p, [p EXCEPT !.vmas = v], t)
  BY <1>1, <1>4, VmasGood DEF Kept
<1> QED BY <1>1, <1>2, <1>5 DEF Kept

(* The pages a pin asks for: what is made of them, and that mapping them   *)
(* finds a table.                                                          *)
LEMMA PinMem ==
  ASSUME MInv, IInv, DevicesSound, NEW o \in Objects, bo[o].live,
         NEW a \in Aspaces, a = "null" <=> ~dev.mmu,
         NEW r \in GetPagesLocked(GetVma(bo[o], a), WILLNEED)
  PROVE  /\ Good(r.b, told[o]) /\ Accounts(bo[o], r) /\ DOMAIN r = {"ok", "b", "mm", "mem"}
         /\ r.ok => r.b.pages
         /\ r.b.iova = bo[o].iova
         /\ ~(r.ok /\ a # "null" /\ ~r.b.sgt)
<1> DEFINE b == bo[o]
           g == GetVma(b, a)
<1>1. /\ Good(b, told[o]) /\ Held(b) \subseteq mm /\ total_mem \in Nat
      /\ b.pin_count > 0 => b.pages
  BY GoodOf
<1>2. Kept(b, g, told[o]) /\ g.madv = b.madv /\ g.pin_count = b.pin_count
  BY <1>1, GetVmaGood
<1>3. g.madv \in Madv /\ g.pages \in BOOLEAN
  BY <1>2 DEF Kept, Good, Bo
<1> HIDE DEF g
<1>4. CASE g.madv > WILLNEED
  <2>1. r = Result(FALSE, g, mm, total_mem)
    BY <1>4 DEF GetPagesLocked, g
  <2>2. /\ r.ok = FALSE /\ r.b = g /\ r.mm = mm /\ r.mem = total_mem
        /\ DOMAIN r = {"ok", "b", "mm", "mem"}
    BY <2>1 DEF Result
  <2>3. Accounts(b, r)
    <3>1. Owned(b) \in {0, 1}
      BY DEF Owned
    <3> QED BY <1>1, <1>2, <2>2, <3>1 DEF Accounts, Kept
  <2> QED BY <1>2, <2>2, <2>3 DEF Kept
<1>5. CASE ~(g.madv > WILLNEED)
  <2>1. r \in GetPages(g) /\ g.madv = WILLNEED
    <3>1. r \in GetPages(g)
      BY <1>5 DEF GetPagesLocked, g
    <3>2. g.madv = WILLNEED
      BY <1>3, <1>5 DEF Madv, WILLNEED, PURGED
    <3> QED BY <3>1, <3>2
  <2>2. Good(g, told[o]) /\ Held(g) = Held(b) /\ Owned(g) = Owned(b) /\ g.pages = b.pages /\ g.iova = b.iova
    BY <1>2 DEF Kept
  <2>3. /\ Good(r.b, told[o]) /\ Accounts(g, r) /\ DOMAIN r = {"ok", "b", "mm", "mem"}
        /\ r.ok => r.b.pages
        /\ r.b.iova = g.iova
    <3>1. Others /\ Held(g) \subseteq mm /\ (g.pin_count > 0 => g.pages)
      BY <1>1, <1>2, <2>2 DEF MInv
    <3> QED BY <1>1, <2>1, <2>2, <3>1, GetPagesGood
  <2>4. Accounts(b, r)
    BY <2>2, <2>3 DEF Accounts
  <2>5. dev.mmu \in BOOLEAN
    BY DevFacts DEF MInv
  <2>6. r.ok /\ a # "null" => r.b.sgt
    BY <2>3, <2>5 DEF Good
  <2> QED BY <2>2, <2>3, <2>4, <2>6
<1> QED BY <1>3, <1>4, <1>5 DEF Madv, WILLNEED, PURGED

(* The steps that make an object out of the result of a call.              *)
LEMMA ResultFrame ==
  ASSUME MInv, IInv, NEW o \in Objects, NEW c, NEW t \in Slots \cup {NoSlot}, NEW r,
         Accounts(bo[o], r), bo' = [bo EXCEPT ![o] = c], mm' = r.mm, total_mem' = r.mem,
         told' = [told EXCEPT ![o] = t], Kept(r.b, c, t),
         dev' = dev, Others', shr' = shr
  PROVE  MInv'
<1>1. /\ mm' = (mm \ Held(bo[o])) \cup Held(c) /\ Held(c) \cap (mm \ Held(bo[o])) = {}
      /\ total_mem' = total_mem - Owned(bo[o]) + Owned(c)
  BY DEF Accounts, Kept
<1>2. Proper(c, t) /\ c.live
  BY DEF Kept, Proper, Good
<1>3. shr'.obj \subseteq shr.obj /\ (o \in shr'.obj => c.live)
  BY <1>2
<1> QED BY <1>1, <1>2, <1>3, StepFrame

LEMMA KeptSame ==
  ASSUME NEW b, NEW t, Good(b, t)
  PROVE  Kept(b, b, t)
  BY DEF Kept

(* Telling a user the address the object has in a carve-out.               *)
LEMMA ToldGood ==
  ASSUME NEW b, NEW c, NEW t, Kept(b, c, t), ~dev.mmu
  PROVE  Kept(b, c, c.iova) /\ c.iova \in Slots \cup {NoSlot}
  BY DEF Kept, Good, Bo

LEMMA PinVmaMem ==
  ASSUME MInv, IInv, DevicesSound, NEW o \in Objects, bo[o].live,
         NEW a \in Aspaces, a = "null" <=> ~dev.mmu,
         NEW r \in GetPagesLocked(GetVma(bo[o], a), WILLNEED), dev' = dev, Others', shr' = shr,
         \/ Set(o, r) /\ told' = told
         \/ r.ok /\ Set(o, [r EXCEPT !.b = [PinObj(@) EXCEPT !.vmas[a] = "mapped"]]) /\ told' = told
         \/ /\ r.ok /\ Set(o, [r EXCEPT !.b = [PinObj(@) EXCEPT !.vmas[a] = "mapped"]])
            /\ told' = [told EXCEPT ![o] = IF dev.mmu THEN @ ELSE bo[o].iova]
  PROVE  MInv'
<1> DEFINE c == Mapped(r.b, a)
<1>1. /\ Good(r.b, told[o]) /\ Accounts(bo[o], r) /\ DOMAIN r = {"ok", "b", "mm", "mem"}
      /\ r.ok => r.b.pages
      /\ r.b.iova = bo[o].iova
  BY PinMem
<1>2. told \in [Objects -> Slots \cup {NoSlot}]
  BY DEF MInv, Others
<1>3. CASE Set(o, r) /\ told' = told
  <2>1. told' = [told EXCEPT ![o] = told[o]] /\ told[o] \in Slots \cup {NoSlot}
    BY <1>2, <1>3
  <2>2. bo' = [bo EXCEPT ![o] = r.b] /\ mm' = r.mm /\ total_mem' = r.mem
    BY <1>3 DEF Set
  <2> QED BY <1>1, <2>1, <2>2, KeptSame, ResultFrame
<1>4. CASE r.ok /\ Set(o, [r EXCEPT !.b = [PinObj(@) EXCEPT !.vmas[a] = "mapped"]])
  <2>1. [r EXCEPT !.b = [PinObj(@) EXCEPT !.vmas[a] = "mapped"]] = [r EXCEPT !.b = c]
    BY <1>1 DEF Mapped
  <2>2. Kept(r.b, c, told[o])
    BY <1>1, <1>4, MappedGood
  <2> HIDE DEF c
  <2>3. bo' = [bo EXCEPT ![o] = c] /\ mm' = r.mm /\ total_mem' = r.mem
    BY <1>1, <1>4, <2>1 DEF Set
  <2>4. CASE told' = told \/ dev.mmu
    <3>1. told' = [told EXCEPT ![o] = told[o]] /\ told[o] \in Slots \cup {NoSlot}
      BY <1>2, <2>4, <1>4
    <3> QED BY <1>1, <2>2, <2>3, <3>1, ResultFrame
  <2>5. CASE told' = [told EXCEPT ![o] = IF dev.mmu THEN @ ELSE bo[o].iova] /\ ~dev.mmu
    <3>1. told' = [told EXCEPT ![o] = c.iova]
      BY <1>1, <2>2, <2>5 DEF Kept
    <3>2. Kept(r.b, c, c.iova) /\ c.iova \in Slots \cup {NoSlot}
      BY <2>2, <2>5, ToldGood
    <3> QED BY <1>1, <2>3, <3>1, <3>2, ResultFrame
  <2> QED BY <1>3, <2>4, <2>5
<1> QED BY <1>3, <1>4

LEMMA UsesType ==
  ASSUME Others, NEW o \in Objects,
         \/ uses' = uses
         \/ uses[o].iova < MaxUses /\ uses' = [uses EXCEPT ![o].iova = @ + 1]
         \/ uses[o].vaddr < MaxUses /\ uses' = [uses EXCEPT ![o].vaddr = @ + 1]
         \/ uses[o].iova > 0 /\ uses' = [uses EXCEPT ![o].iova = @ - 1]
         \/ uses[o].vaddr > 0 /\ uses' = [uses EXCEPT ![o].vaddr = @ - 1]
  PROVE  uses' \in [Objects -> [iova : 0 .. MaxUses, vaddr : 0 .. MaxUses]]
<1>1. uses \in [Objects -> [iova : 0 .. MaxUses, vaddr : 0 .. MaxUses]] /\ MaxUses \in Nat
  BY GemAssumption DEF Others
<1>2. uses[o] \in [iova : 0 .. MaxUses, vaddr : 0 .. MaxUses]
  BY <1>1
<1>3. \A n \in 0 .. MaxUses : /\ [uses[o] EXCEPT !.iova = n] \in [iova : 0 .. MaxUses, vaddr : 0 .. MaxUses]
                              /\ [uses[o] EXCEPT !.vaddr = n] \in [iova : 0 .. MaxUses, vaddr : 0 .. MaxUses]
  BY <1>2
<1>4. ASSUME NEW u \in [iova : 0 .. MaxUses, vaddr : 0 .. MaxUses], uses' = [uses EXCEPT ![o] = u]
      PROVE  uses' \in [Objects -> [iova : 0 .. MaxUses, vaddr : 0 .. MaxUses]]
  BY <1>1, <1>4
<1>5. CASE uses[o].iova < MaxUses /\ uses' = [uses EXCEPT ![o].iova = @ + 1]
  <2>1. uses[o].iova + 1 \in 0 .. MaxUses
    BY <1>1, <1>2, <1>5
  <2> QED BY <1>3, <1>4, <1>5, <2>1
<1>6. CASE uses[o].vaddr < MaxUses /\ uses' = [uses EXCEPT ![o].vaddr = @ + 1]
  <2>1. uses[o].vaddr + 1 \in 0 .. MaxUses
    BY <1>1, <1>2, <1>6
  <2> QED BY <1>3, <1>4, <1>6, <2>1
<1>7. CASE uses[o].iova > 0 /\ uses' = [uses EXCEPT ![o].iova = @ - 1]
  <2>1. uses[o].iova - 1 \in 0 .. MaxUses
    BY <1>1, <1>2, <1>7
  <2> QED BY <1>3, <1>4, <1>7, <2>1
<1>8. CASE uses[o].vaddr > 0 /\ uses' = [uses EXCEPT ![o].vaddr = @ - 1]
  <2>1. uses[o].vaddr - 1 \in 0 .. MaxUses
    BY <1>1, <1>2, <1>8
  <2> QED BY <1>3, <1>4, <1>8, <2>1
<1> QED BY <1>1, <1>5, <1>6, <1>7, <1>8

LEMMA AspaceOf ==
  ASSUME MInv, DevicesSound
  PROVE  /\ KmsAspace \in Aspaces /\ (KmsAspace = "null" <=> ~dev.mmu)
         /\ CtxAspace \in Aspaces /\ (CtxAspace = "null" <=> ~dev.mmu)
<1>1. dev.mmu \in BOOLEAN
  BY DevFacts DEF MInv
<1> QED BY <1>1 DEF KmsAspace, CtxAspace, Aspaces

LEMMA PinIovaMem ==
  ASSUME MInv, IInv, DevicesSound, NEW o \in Objects, PinIova(o)
  PROVE  MInv'
<1> DEFINE a == KmsAspace
<1>1. bo[o].live /\ uses[o].iova < MaxUses
  BY DEF PinIova, Open
<1>2. PICK r \in GetPagesLocked(GetVma(bo[o], a), WILLNEED) :
        \/ Set(o, r) /\ Steady /\ UNCHANGED <<fence, uses, told>>
        \/ /\ r.ok
           /\ Set(o, [r EXCEPT !.b = [PinObj(@) EXCEPT !.vmas[a] = "mapped"]])
           /\ Steady /\ UNCHANGED fence
           /\ uses' = [uses EXCEPT ![o].iova = @ + 1]
           /\ told' = [told EXCEPT ![o] = IF dev.mmu THEN @ ELSE bo[o].iova]
        \/ r.ok /\ a # "null" /\ ~r.b.sgt
  BY DEF PinIova, PinVma
<1>3. a \in Aspaces /\ (a = "null" <=> ~dev.mmu)
  BY AspaceOf
<1> HIDE DEF a
<1>4. ~(r.ok /\ a # "null" /\ ~r.b.sgt)
  BY <1>1, <1>3, PinMem
<1>5. Steady /\ fence' = fence
  BY <1>2, <1>4
<1>6. /\ fence' \in [Objects -> {"none", "queued", "running"}] /\ told \in [Objects -> Slots \cup {NoSlot}]
      /\ Others
  BY <1>5 DEF MInv, Others
<1>7. bo[o].iova \in Slots \cup {NoSlot}
  BY <1>1, GoodOf DEF Bo
<1>8. told' \in [Objects -> Slots \cup {NoSlot}]
  BY <1>2, <1>4, <1>6, <1>7
<1>9. uses' \in [Objects -> [iova : 0 .. MaxUses, vaddr : 0 .. MaxUses]]
  BY <1>1, <1>2, <1>4, <1>6, UsesType
<1>10. Others' /\ dev' = dev /\ shr' = shr
  BY <1>5, <1>6, <1>8, <1>9, OthersSteady
<1> QED BY <1>1, <1>2, <1>3, <1>4, <1>10, PinVmaMem

LEMMA SubmitMem ==
  ASSUME MInv, IInv, DevicesSound, NEW o \in Objects, Submit(o)
  PROVE  MInv'
<1> DEFINE a == CtxAspace
<1>1. bo[o].live
  BY DEF Submit, Open
<1>2. PICK r \in GetPagesLocked(GetVma(bo[o], a), WILLNEED) :
        \/ Set(o, r) /\ Steady /\ UNCHANGED <<fence, uses, told>>
        \/ /\ r.ok
           /\ Set(o, [r EXCEPT !.b = [PinObj(@) EXCEPT !.vmas[a] = "mapped"]])
           /\ Steady /\ fence' = [fence EXCEPT ![o] = "queued"] /\ UNCHANGED <<uses, told>>
        \/ r.ok /\ a # "null" /\ ~r.b.sgt
  BY DEF Submit, PinVma
<1>3. a \in Aspaces /\ (a = "null" <=> ~dev.mmu)
  BY AspaceOf
<1> HIDE DEF a
<1>4. ~(r.ok /\ a # "null" /\ ~r.b.sgt)
  BY <1>1, <1>3, PinMem
<1>5. Steady /\ uses' = uses /\ told' = told
  BY <1>2, <1>4
<1>6. Others' /\ dev' = dev /\ shr' = shr
  <2>1. fence' \in [Objects -> {"none", "queued", "running"}]
    BY <1>2, <1>4 DEF MInv, Others
  <2> QED BY <1>5, <2>1, OthersSteady DEF MInv, Others
<1> QED BY <1>1, <1>2, <1>3, <1>4, <1>5, <1>6, PinVmaMem

(* The steps that change one live object and leave the memory alone.       *)
LEMMA KeptFrame ==
  ASSUME MInv, IInv, NEW o \in Objects, NEW c, NEW t \in Slots \cup {NoSlot},
         bo' = [bo EXCEPT ![o] = c], mm' = mm, total_mem' = total_mem,
         told' = [told EXCEPT ![o] = t], Kept(bo[o], c, t),
         dev' = dev, Others', shr'.obj \subseteq shr.obj
  PROVE  MInv'
<1>1. Proper(c, t) /\ c.live /\ Held(c) = Held(bo[o]) /\ Owned(c) = Owned(bo[o])
  BY DEF Kept, Proper, Good
<1> QED BY <1>1, QuietFrame

(* The same when nobody is told an address.                                *)
LEMMA KeptStep ==
  ASSUME MInv, IInv, NEW o \in Objects, NEW c,
         bo' = [bo EXCEPT ![o] = c], mm' = mm, total_mem' = total_mem,
         told' = told, Kept(bo[o], c, told[o]),
         dev' = dev, Others', shr'.obj \subseteq shr.obj
  PROVE  MInv'
<1>1. told' = [told EXCEPT ![o] = told[o]] /\ told[o] \in Slots \cup {NoSlot}
  BY ToldSame DEF MInv
<1> QED BY <1>1, KeptFrame

LEMMA LruChange ==
  ASSUME NEW b, NEW t, Good(b, t), NEW m, m \in Bo, NEW l \in Lrus, NEW c,
         c = [m EXCEPT !.lru = l], LruGood(c),
         m.live = b.live, m.imported = b.imported, m.vram_node = b.vram_node,
         m.pages = b.pages, m.sgt = b.sgt, m.addr = b.addr, m.madv = b.madv,
         m.data = b.data, m.iova = b.iova, m.vmas = b.vmas,
         m.pte = b.pte, m.vaddr = b.vaddr
  PROVE  Kept(b, c, t)
<1>1. /\ c \in Bo
      /\ c.live = b.live /\ c.imported = b.imported /\ c.vram_node = b.vram_node
      /\ c.pages = b.pages /\ c.sgt = b.sgt /\ c.addr = b.addr /\ c.madv = b.madv
      /\ c.data = b.data /\ c.iova = b.iova /\ c.vmas = b.vmas
      /\ c.pte = b.pte /\ c.vaddr = b.vaddr
  BY DEF Bo
<1>2. ~b.pages => /\ ~c.pte /\ ~c.vaddr
                  /\ c.vmas["kms"] # "mapped" /\ c.vmas["ctx"] # "mapped"
  BY <1>1 DEF Good
<1>3. Good(c, t) /\ Held(c) = Held(b) /\ Owned(c) = Owned(b)
  BY <1>1, <1>2, GoodChange
<1> QED BY <1>1, <1>3 DEF Kept

(* A pin is dropped, with the lock or, by a job, without it.               *)
LEMMA UnpinGood ==
  ASSUME NEW b, NEW t, Good(b, t), b.pages, b.pin_count > 0
  PROVE  /\ Kept(b, UnpinObj(b), t)
         /\ Kept(b, UpdateLruActive([b EXCEPT !.pin_count = @ - 1]), t)
<1> DEFINE n == b.pin_count - 1
           m == [b EXCEPT !.pin_count = n]
<1>0. n \in Nat
  BY DEF Good, Bo
<1>1. /\ m \in Bo /\ m.pin_count = n
      /\ m.live = b.live /\ m.imported = b.imported /\ m.vram_node = b.vram_node
      /\ m.pages = b.pages /\ m.sgt = b.sgt /\ m.addr = b.addr /\ m.madv = b.madv
      /\ m.data = b.data /\ m.iova = b.iova /\ m.vmas = b.vmas
      /\ m.pte = b.pte /\ m.vaddr = b.vaddr
  <2> HIDE DEF n
  <2> QED BY <1>0 DEF Good, Bo
<1>2. UnpinObj(b) = UpdateLru(m) /\ [b EXCEPT !.pin_count = @ - 1] = m
  BY DEF UnpinObj
<1> HIDE DEF m
<1>3. PICK l \in Lrus : UpdateLru(m) = [m EXCEPT !.lru = l] /\ LruGood([m EXCEPT !.lru = l])
  BY <1>1, LruForm
<1>4. PICK k \in Lrus : UpdateLruActive(m) = [m EXCEPT !.lru = k] /\ LruGood([m EXCEPT !.lru = k])
  BY <1>1, LruForm
<1>5. Kept(b, UpdateLru(m), t)
  BY <1>1, <1>3, LruChange
<1>6. Kept(b, UpdateLruActive(m), t)
  BY <1>1, <1>4, LruChange
<1> QED BY <1>2, <1>5, <1>6

LEMMA UnpinIovaMem ==
  ASSUME MInv, IInv, DevicesSound, NEW o \in Objects, UnpinIova(o)
  PROVE  MInv'
<1>1. /\ bo[o].live /\ uses[o].iova > 0 /\ uses' = [uses EXCEPT ![o].iova = @ - 1]
      /\ Steady /\ UNCHANGED <<mm, total_mem, fence, told>>
  BY DEF UnpinIova, Open
<1>2. /\ Good(bo[o], told[o]) /\ (bo[o].pin_count > 0 => bo[o].pages)
  BY <1>1, GoodOf
<1>3. bo[o].pin_count > 0 /\ bo[o].vmas[KmsAspace] # "none"
  <2>1. Sound(bo[o], uses[o], fence[o])
    BY SoundOf
  <2> QED BY <1>1, <2>1 DEF Sound, Balanced, Undoable, Users, Jobs
<1>4. bo' = [bo EXCEPT ![o] = UnpinObj(bo[o])]
  BY <1>3 DEF UnpinIova
<1>5. Others' /\ dev' = dev /\ shr' = shr
  <2>1. uses' \in [Objects -> [iova : 0 .. MaxUses, vaddr : 0 .. MaxUses]]
    BY <1>1, UsesType DEF MInv
  <2> QED BY <1>1, <2>1, OthersSteady DEF MInv, Others
<1>6. Kept(bo[o], UnpinObj(bo[o]), told[o])
  BY <1>2, <1>3, UnpinGood
<1> QED BY <1>1, <1>4, <1>5, <1>6, KeptStep

LEMMA GetIovaMem ==
  ASSUME MInv, IInv, DevicesSound, NEW o \in Objects, GetIova(o)
  PROVE  MInv'
<1> DEFINE c == GetVma(bo[o], KmsAspace)
<1>1. /\ bo[o].live /\ bo' = [bo EXCEPT ![o] = c]
      /\ told' = [told EXCEPT ![o] = IF dev.mmu THEN @ ELSE bo[o].iova]
      /\ Steady /\ UNCHANGED <<mm, total_mem, fence, uses>>
  BY DEF GetIova, Open
<1>2. Good(bo[o], told[o]) /\ bo[o] \in Bo
  BY <1>1, GoodOf
<1>3. Kept(bo[o], c, told[o])
  BY <1>2, AspaceOf, GetVmaGood
<1> HIDE DEF c
<1>4. told \in [Objects -> Slots \cup {NoSlot}] /\ bo[o].iova \in Slots \cup {NoSlot}
  BY <1>2 DEF MInv, Others, Bo
<1>5. Others' /\ dev' = dev /\ shr' = shr
  <2>1. told' \in [Objects -> Slots \cup {NoSlot}]
    BY <1>1, <1>4
  <2> QED BY <1>1, <2>1, OthersSteady DEF MInv, Others
<1>6. CASE dev.mmu
  <2>1. told' = told
    BY <1>1, <1>4, <1>6
  <2> QED BY <1>1, <1>3, <1>5, <2>1, KeptStep
<1>7. CASE ~dev.mmu
  <2>1. Kept(bo[o], c, c.iova) /\ c.iova \in Slots \cup {NoSlot} /\ c.iova = bo[o].iova
    BY <1>3, <1>7, ToldGood DEF Kept
  <2>2. told' = [told EXCEPT ![o] = c.iova]
    BY <1>1, <1>7, <2>1
  <2> QED BY <1>1, <1>5, <2>1, <2>2, KeptFrame
<1> QED BY <1>6, <1>7

LEMMA ClearIovaMem ==
  ASSUME MInv, IInv, DevicesSound, NEW o \in Objects, ClearIova(o)
  PROVE  MInv'
<1> DEFINE v == [bo[o].vmas EXCEPT !["ctx"] = "none"]
           c == [bo[o] EXCEPT !.vmas = v]
<1>1. /\ bo[o].live /\ bo' = [bo EXCEPT ![o] = c]
      /\ Steady /\ UNCHANGED <<mm, total_mem, fence, uses, told>>
  BY DEF ClearIova, Open
<1>2. Good(bo[o], told[o]) /\ bo[o].vmas \in [Aspaces -> {"none", "reserved", "mapped"}]
  BY <1>1, GoodOf DEF Bo
<1>3. v \in [Aspaces -> {"none", "reserved", "mapped"}] /\ (~bo[o].pages => v["kms"] # "mapped" /\ v["ctx"] # "mapped")
  BY <1>2 DEF Good, Aspaces
<1> HIDE DEF v
<1>4. Kept(bo[o], c, told[o])
  BY <1>2, <1>3, VmasGood
<1> HIDE DEF c
<1>5. Others' /\ dev' = dev /\ shr' = shr
  BY <1>1, OthersSteady DEF MInv, Others
<1> QED BY <1>1, <1>4, <1>5, KeptStep

(* The number of kernel mappings, and whether there is one.                *)
LEMMA MapsGood ==
  ASSUME NEW b, NEW t, Good(b, t), b.pages, NEW n \in Nat, NEW x \in BOOLEAN
  PROVE  LET c == [b EXCEPT !.vmap_count = n, !.vaddr = x] IN
         Kept(b, c, t) /\ c.pin_count = b.pin_count /\ c.vmap_count = n
<1> DEFINE c == [b EXCEPT !.vmap_count = n, !.vaddr = x]
<1>1. /\ c \in Bo /\ c.lru = b.lru /\ c.pin_count = b.pin_count /\ c.vmap_count = n
      /\ c.live = b.live /\ c.imported = b.imported /\ c.vram_node = b.vram_node
      /\ c.pages = b.pages /\ c.sgt = b.sgt /\ c.addr = b.addr /\ c.madv = b.madv
      /\ c.data = b.data /\ c.iova = b.iova
  BY DEF Good, Bo
<1> HIDE DEF c
<1>2. LruGood(c)
  BY <1>1 DEF LruGood, Good
<1>3. Good(c, t) /\ Held(c) = Held(b) /\ Owned(c) = Owned(b)
  BY <1>1, <1>2, GoodChange
<1> QED BY <1>1, <1>3 DEF Kept, c

LEMMA MapsAlone ==
  ASSUME NEW b, NEW t, Good(b, t), b.pages, NEW n \in Nat
  PROVE  LET c == [b EXCEPT !.vmap_count = n] IN
         Kept(b, c, t) /\ c.pin_count = b.pin_count /\ c.vmap_count = n /\ c.vaddr = b.vaddr
<1> DEFINE c == [b EXCEPT !.vmap_count = n]
<1>1. /\ c \in Bo /\ c.lru = b.lru /\ c.pin_count = b.pin_count /\ c.vmap_count = n
      /\ c.live = b.live /\ c.imported = b.imported /\ c.vram_node = b.vram_node
      /\ c.pages = b.pages /\ c.sgt = b.sgt /\ c.addr = b.addr /\ c.madv = b.madv
      /\ c.data = b.data /\ c.iova = b.iova /\ c.vaddr = b.vaddr
  BY DEF Good, Bo
<1> HIDE DEF c
<1>2. LruGood(c)
  BY <1>1 DEF LruGood, Good
<1>3. Good(c, t) /\ Held(c) = Held(b) /\ Owned(c) = Owned(b)
  BY <1>1, <1>2, GoodChange
<1> QED BY <1>1, <1>3 DEF Kept, c

LEMMA KeptTrans ==
  ASSUME NEW b, NEW c, NEW d, NEW t, Kept(b, c, t), Kept(c, d, t)
  PROVE  Kept(b, d, t)
  BY DEF Kept

LEMMA PutVaddrMem ==
  ASSUME MInv, IInv, DevicesSound, NEW o \in Objects, PutVaddr(o)
  PROVE  MInv'
<1> DEFINE b == bo[o]
           n == b.vmap_count - 1
           m == [b EXCEPT !.vmap_count = n]
<1>1. /\ b.live /\ uses[o].vaddr > 0 /\ uses' = [uses EXCEPT ![o].vaddr = @ - 1]
      /\ bo' = [bo EXCEPT ![o] = UnpinObj(m)]
      /\ Steady /\ UNCHANGED <<mm, total_mem, fence, told>>
  BY DEF PutVaddr, Open
<1>2. /\ Good(b, told[o]) /\ (b.pin_count > 0 => b.pages)
  BY <1>1, GoodOf
<1>3. b.pin_count > 0 /\ n \in Nat
  <2>1. Sound(b, uses[o], fence[o])
    BY SoundOf
  <2> QED BY <1>1, <2>1 DEF Sound, Balanced, Users, Jobs
<1>4. Kept(b, m, told[o]) /\ m.pin_count = b.pin_count
  <2> HIDE DEF n
  <2> QED BY <1>2, <1>3, MapsAlone
<1> HIDE DEF m
<1>5. Kept(m, UnpinObj(m), told[o])
  BY <1>2, <1>3, <1>4, UnpinGood DEF Kept
<1>6. Kept(b, UnpinObj(m), told[o])
  BY <1>4, <1>5, KeptTrans
<1>7. Others' /\ dev' = dev /\ shr' = shr
  <2>1. uses' \in [Objects -> [iova : 0 .. MaxUses, vaddr : 0 .. MaxUses]]
    BY <1>1, UsesType DEF MInv
  <2> QED BY <1>1, <2>1, OthersSteady DEF MInv, Others
<1> QED BY <1>1, <1>6, <1>7, KeptStep

(* What get_vaddr() makes of an object with its pages, and what is left    *)
(* when vmap() fails.                                                      *)
LEMMA VaddrGood ==
  ASSUME NEW b, NEW t, Good(b, t), b.pages
  PROVE  Kept(b, VMapped(b), t) /\ Kept(b, VmapFailed(VPin(b)), t)
<1> DEFINE p == PinObj(b)
           n == p.vmap_count + 1
           v == VPin(b)
           k == v.vmap_count - 1
<1>1. Kept(b, p, t) /\ p.pin_count = b.pin_count + 1 /\ p.vmap_count \in Nat
  BY PinObjGood DEF Kept, Good, Bo
<1>2. v = [p EXCEPT !.vmap_count = n] /\ n \in Nat
  BY <1>1 DEF VPin
<1> HIDE DEF p, n, v
<1>3. Kept(p, v, t) /\ v.pin_count = p.pin_count /\ v.vmap_count = n
  BY <1>1, <1>2, MapsAlone DEF Kept
<1>4. Kept(b, v, t)
  BY <1>1, <1>3, KeptTrans
<1>5. v.vmap_count \in Nat /\ v.pages /\ Good(v, t)
  BY <1>2, <1>3, <1>4 DEF Kept
<1>6. Kept(b, VMapped(b), t)
  <2>1. VMapped(b) = [v EXCEPT !.vmap_count = v.vmap_count, !.vaddr = TRUE]
    BY <1>5 DEF VMapped, v, Good, Bo
  <2>2. Kept(v, [v EXCEPT !.vmap_count = v.vmap_count, !.vaddr = TRUE], t)
    BY <1>5, MapsGood
  <2> QED BY <1>4, <2>1, <2>2, KeptTrans
<1>7. Kept(b, VmapFailed(v), t)
  <2> DEFINE w == [v EXCEPT !.vmap_count = k]
  <2>1. VmapFailed(v) = UnpinObj(w)
    BY DEF VmapFailed
  <2>2. k \in Nat
    <3>1. p.vmap_count \in Nat /\ v.vmap_count = p.vmap_count + 1
      BY <1>1, <1>3 DEF n
    <3> QED BY <3>1
  <2> HIDE DEF k
  <2>3. Kept(v, w, t) /\ w.pin_count = v.pin_count
    BY <1>5, <2>2, MapsAlone
  <2>4. w.pin_count > 0
    BY <1>1, <1>3, <2>3 DEF Good, Bo
  <2> HIDE DEF w
  <2>5. Kept(w, UnpinObj(w), t)
    BY <1>5, <2>3, <2>4, UnpinGood DEF Kept
  <2> QED BY <1>4, <2>1, <2>3, <2>5, KeptTrans
<1> QED BY <1>6, <1>7 DEF v

LEMMA GetVaddrMem ==
  ASSUME MInv, IInv, DevicesSound, NEW o \in Objects, NEW madv \in {WILLNEED, PURGED},
         GetVaddr(o, madv), madv = PURGED => fence[o] # "none"
  PROVE  MInv'
<1> DEFINE b == bo[o]
<1>1. b.live /\ uses[o].vaddr < MaxUses
  BY DEF GetVaddr, Open
<1>2. /\ Good(b, told[o]) /\ Held(b) \subseteq mm /\ total_mem \in Nat
      /\ b.pin_count > 0 \/ fence[o] # "none" => b.pages /\ b.madv # PURGED
  BY <1>1, GoodOf
<1>3. b.madv \in Madv
  BY <1>2 DEF Good, Bo
<1>4. ~(UsesFreed(b) /\ b.madv <= madv)
  <2> SUFFICES ASSUME UsesFreed(b), b.madv <= madv PROVE FALSE
    OBVIOUS
  <2>1. ~b.pages /\ b.madv = PURGED
    BY <1>2 DEF UsesFreed, Good
  <2>2. madv = PURGED
    BY <2>1 DEF PURGED, WILLNEED
  <2> QED BY <1>2, <2>1, <2>2
<1>5. PICK r \in GetPagesLocked(b, madv) :
        LET pin == [PinObj(r.b) EXCEPT !.vmap_count = @ + 1] IN
        \/ ~r.ok /\ Set(o, r) /\ UNCHANGED uses
        \/ /\ r.ok
           /\ Set(o, [r EXCEPT !.b = [pin EXCEPT !.vaddr = TRUE]])
           /\ uses' = [uses EXCEPT ![o].vaddr = @ + 1]
        \/ /\ r.ok /\ ~r.b.vaddr
           /\ Set(o, [r EXCEPT !.b = VmapFailed(pin)])
           /\ UNCHANGED uses
  BY <1>4 DEF GetVaddr
<1>6. Steady /\ fence' = fence /\ told' = told
  BY <1>4 DEF GetVaddr
<1>7. /\ Good(r.b, told[o]) /\ Accounts(b, r) /\ DOMAIN r = {"ok", "b", "mm", "mem"}
      /\ r.ok => r.b.pages
  <2>1. CASE b.madv > madv
    <3>1. r = Result(FALSE, b, mm, total_mem)
      BY <2>1 DEF GetPagesLocked
    <3>2. /\ r.ok = FALSE /\ r.b = b /\ r.mm = mm /\ r.mem = total_mem
          /\ DOMAIN r = {"ok", "b", "mm", "mem"}
      BY <3>1 DEF Result
    <3>3. Owned(b) \in {0, 1}
      BY DEF Owned
    <3> QED BY <1>2, <3>2, <3>3 DEF Accounts
  <2>2. CASE ~(b.madv > madv)
    <3>1. r \in GetPages(b)
      BY <2>2 DEF GetPagesLocked
    <3>2. ~b.pages => b.madv = WILLNEED
      BY <1>2, <1>3, <2>2 DEF Madv, WILLNEED, PURGED
    <3> QED BY <1>2, <3>1, <3>2, GetPagesGood DEF MInv
  <2> QED BY <2>1, <2>2
<1>8. uses' \in [Objects -> [iova : 0 .. MaxUses, vaddr : 0 .. MaxUses]]
  <2>1. uses' = uses \/ uses' = [uses EXCEPT ![o].vaddr = @ + 1]
    BY <1>5
  <2> QED BY <1>1, <2>1, UsesType DEF MInv
<1>9. Others' /\ dev' = dev /\ shr' = shr
  BY <1>6, <1>8, OthersSteady DEF MInv, Others
<1>10. ASSUME NEW c, Kept(r.b, c, told[o]), bo' = [bo EXCEPT ![o] = c], mm' = r.mm, total_mem' = r.mem
       PROVE  MInv'
  <2>1. told' = [told EXCEPT ![o] = told[o]] /\ told[o] \in Slots \cup {NoSlot}
    BY <1>6, ToldSame DEF MInv
  <2> QED BY <1>7, <1>9, <1>10, <2>1, ResultFrame
<1>11. \/ Set(o, r)
       \/ r.ok /\ Set(o, [r EXCEPT !.b = VMapped(r.b)])
       \/ r.ok /\ Set(o, [r EXCEPT !.b = VmapFailed(VPin(r.b))])
  BY <1>5 DEF VMapped, VPin
<1>12. CASE Set(o, r)
  <2>1. Kept(r.b, r.b, told[o])
    BY <1>7, KeptSame
  <2> QED BY <1>10, <1>12, <2>1 DEF Set
<1>13. CASE r.ok /\ Set(o, [r EXCEPT !.b = VMapped(r.b)])
  <2>1. Kept(r.b, VMapped(r.b), told[o])
    BY <1>7, <1>13, VaddrGood
  <2> QED BY <1>7, <1>10, <1>13, <2>1 DEF Set
<1>14. CASE r.ok /\ Set(o, [r EXCEPT !.b = VmapFailed(VPin(r.b))])
  <2>1. Kept(r.b, VmapFailed(VPin(r.b)), told[o])
    BY <1>7, <1>14, VaddrGood
  <2> QED BY <1>7, <1>10, <1>14, <2>1 DEF Set
<1> QED BY <1>11, <1>12, <1>13, <1>14

(* A page table entry of a process.                                        *)
LEMMA PteGood ==
  ASSUME NEW b, NEW t, Good(b, t), NEW x \in BOOLEAN, ~b.pages => ~x
  PROVE  Kept(b, [b EXCEPT !.pte = x], t)
<1> DEFINE c == [b EXCEPT !.pte = x]
<1>1. /\ c \in Bo /\ c.lru = b.lru /\ c.pin_count = b.pin_count /\ c.vmas = b.vmas
      /\ c.pte = x /\ c.vaddr = b.vaddr
      /\ c.live = b.live /\ c.imported = b.imported /\ c.vram_node = b.vram_node
      /\ c.pages = b.pages /\ c.sgt = b.sgt /\ c.addr = b.addr /\ c.madv = b.madv
      /\ c.data = b.data /\ c.iova = b.iova
  BY DEF Good, Bo
<1> HIDE DEF c
<1>2. LruGood(c)
  BY <1>1 DEF LruGood, Good
<1>3. ~b.pages => /\ ~c.pte /\ ~c.vaddr
                  /\ c.vmas["kms"] # "mapped" /\ c.vmas["ctx"] # "mapped"
  BY <1>1 DEF Good
<1>4. Good(c, t) /\ Held(c) = Held(b) /\ Owned(c) = Owned(b)
  BY <1>1, <1>2, <1>3, GoodChange
<1> QED BY <1>1, <1>4 DEF Kept, c

LEMMA FaultMem ==
  ASSUME MInv, IInv, DevicesSound, NEW o \in Objects, Fault(o)
  PROVE  MInv'
<1> DEFINE b == bo[o]
<1>1. b.live /\ b.madv = WILLNEED
  BY DEF Fault, Open
<1>2. /\ Good(b, told[o]) /\ Held(b) \subseteq mm /\ total_mem \in Nat
      /\ b.pin_count > 0 => b.pages
  BY <1>1, GoodOf
<1>3. ~UsesFreed(b)
  BY <1>1, <1>2 DEF UsesFreed, Good, WILLNEED, PURGED
<1>4. PICK r \in GetPages(b) : Set(o, [r EXCEPT !.b.pte = @ \/ r.ok])
  BY <1>3 DEF Fault, FaultIn
<1>5. Steady /\ UNCHANGED <<fence, uses, told>>
  BY <1>3 DEF Fault, FaultIn
<1>6. /\ Good(r.b, told[o]) /\ Accounts(b, r) /\ DOMAIN r = {"ok", "b", "mm", "mem"}
      /\ r.ok => r.b.pages
  BY <1>1, <1>2, <1>4, GetPagesGood DEF MInv
<1> DEFINE x == r.b.pte \/ r.ok
           c == [r.b EXCEPT !.pte = x]
<1>7. x \in BOOLEAN /\ (~r.b.pages => ~x)
  BY <1>6 DEF Good, Bo
<1>8. bo' = [bo EXCEPT ![o] = c] /\ mm' = r.mm /\ total_mem' = r.mem
  BY <1>4, <1>6 DEF Set
<1> HIDE DEF x
<1>9. Kept(r.b, c, told[o])
  BY <1>6, <1>7, PteGood
<1> HIDE DEF c
<1>10. Others' /\ dev' = dev /\ shr' = shr
  BY <1>5, OthersSteady DEF MInv, Others
<1>11. told' = [told EXCEPT ![o] = told[o]] /\ told[o] \in Slots \cup {NoSlot}
  BY <1>5, ToldSame DEF MInv
<1> QED BY <1>6, <1>8, <1>9, <1>10, <1>11, ResultFrame

LEMMA MunmapMem ==
  ASSUME MInv, IInv, DevicesSound, NEW o \in Objects, Munmap(o)
  PROVE  MInv'
<1> DEFINE c == [bo[o] EXCEPT !.pte = FALSE]
<1>1. /\ bo[o].pte /\ bo' = [bo EXCEPT ![o] = c]
      /\ Steady /\ UNCHANGED <<mm, total_mem, fence, uses, told>>
  BY DEF Munmap
<1>2. bo[o].live
  BY <1>1, FreshFields DEF MInv, Proper
<1>3. Good(bo[o], told[o])
  BY <1>2, GoodOf
<1>4. Kept(bo[o], c, told[o])
  BY <1>3, PteGood
<1> HIDE DEF c
<1>5. Others' /\ dev' = dev /\ shr' = shr
  BY <1>1, OthersSteady DEF MInv, Others
<1> QED BY <1>1, <1>4, <1>5, KeptStep

-------------------------------------------------------------------------------
(* Advice and jobs.                                                        *)

LEMMA MadviseMem ==
  ASSUME MInv, IInv, DevicesSound, NEW o \in Objects, Madvise(o)
  PROVE  MInv'
<1> DEFINE b == bo[o]
           m == IF b.madv = PURGED THEN b.madv ELSE want[o]
           c == [b EXCEPT !.madv = m]
<1>1. /\ b.live /\ want[o] # NoAdvice /\ want' = [want EXCEPT ![o] = NoAdvice]
      /\ UNCHANGED <<dev, mm, total_mem, lock, shr, fence, uses, told, oops>>
  BY DEF Madvise, Open
<1>2. bo' = [bo EXCEPT ![o] = UpdateLru(c)]
  BY DEF Madvise
<1>3. Good(b, told[o]) /\ (b.pin_count > 0 => b.pages)
  BY <1>1, GoodOf
<1>4. want[o] \in {WILLNEED, DONTNEED, NoAdvice} /\ b.madv \in Madv
  BY <1>3 DEF MInv, Others, Good, Bo
<1>5. m \in Madv /\ (m = PURGED <=> b.madv = PURGED)
  BY <1>1, <1>4 DEF Madv, WILLNEED, DONTNEED, PURGED, NoAdvice
<1> HIDE DEF m
<1>6. /\ c \in Bo /\ c.pin_count = b.pin_count
      /\ c.live = b.live /\ c.imported = b.imported /\ c.vram_node = b.vram_node
      /\ c.pages = b.pages /\ c.sgt = b.sgt /\ c.addr = b.addr /\ c.madv = m
      /\ c.data = b.data /\ c.iova = b.iova /\ c.vmas = b.vmas
      /\ c.pte = b.pte /\ c.vaddr = b.vaddr
  BY <1>3, <1>5 DEF Good, Bo
<1> HIDE DEF c
<1>7. PICK l \in Lrus : UpdateLru(c) = [c EXCEPT !.lru = l] /\ LruGood([c EXCEPT !.lru = l])
  BY <1>3, <1>6, LruForm
<1> DEFINE d == [c EXCEPT !.lru = l]
<1>8. /\ d \in Bo
      /\ d.live = b.live /\ d.imported = b.imported /\ d.vram_node = b.vram_node
      /\ d.pages = b.pages /\ d.sgt = b.sgt /\ d.addr = b.addr /\ d.madv = m
      /\ d.data = b.data /\ d.iova = b.iova /\ d.vmas = b.vmas
      /\ d.pte = b.pte /\ d.vaddr = b.vaddr
  BY <1>6 DEF Bo
<1>9. LruGood(d) /\ bo' = [bo EXCEPT ![o] = d]
  BY <1>2, <1>7
<1> HIDE DEF d
<1>10. Good(d, told[o])
  BY <1>3, <1>5, <1>8, <1>9 DEF Good
<1>11. Kept(b, d, told[o])
  BY <1>8, <1>10 DEF Kept, Held, Owned, InCarveout
<1>12. Others'
  BY <1>1 DEF MInv, Others
<1> QED BY <1>1, <1>9, <1>11, <1>12, KeptStep

LEMMA JobRunMem ==
  ASSUME MInv, IInv, DevicesSound, NEW o \in Objects, JobRun(o)
  PROVE  MInv'
<1> DEFINE c == UpdateLruActive([bo[o] EXCEPT !.pin_count = @ - 1])
<1>1. /\ fence[o] = "queued" /\ Steady /\ UNCHANGED <<mm, total_mem, uses, told>>
      /\ fence' = [fence EXCEPT ![o] = "running"]
  BY DEF JobRun
<1>2. bo' = [bo EXCEPT ![o] = c]
  BY DEF JobRun
<1>3. bo[o].live /\ bo[o].pin_count > 0
  <2>1. Sound(bo[o], uses[o], fence[o])
    BY SoundOf
  <2> QED BY <1>1, <2>1 DEF Sound, Balanced, Users, Jobs
<1>4. Good(bo[o], told[o]) /\ bo[o].pages
  BY <1>3, GoodOf
<1>5. Kept(bo[o], c, told[o])
  BY <1>3, <1>4, UnpinGood
<1> HIDE DEF c
<1>6. Others' /\ dev' = dev /\ shr' = shr
  <2>1. fence' \in [Objects -> {"none", "queued", "running"}]
    BY <1>1 DEF MInv, Others
  <2> QED BY <1>1, <2>1, OthersSteady DEF MInv, Others
<1> QED BY <1>1, <1>2, <1>5, <1>6, KeptStep

(* Steps that leave the objects and the memory alone.                      *)
LEMMA AloneMem ==
  ASSUME MInv, UNCHANGED <<dev, bo, mm, total_mem, told>>, Others',
         \A p \in shr'.obj : bo[p].live
  PROVE  MInv'
<1>1. MemInv'
  BY DEF MInv, MemInv, InVram, InCarveout, Owned
<1>2. ASSUME NEW p \in Objects
      PROVE  Proper(bo[p], told[p])'
  <2>1. Proper(bo[p], told[p])
    BY DEF MInv
  <2> QED BY <2>1 DEF Proper, Good, LruGood
<1>3. \A p \in shr'.obj : bo'[p].live
  OBVIOUS
<1> QED BY <1>1, <1>2, <1>3 DEF MInv

LEMMA RetireMem ==
  ASSUME MInv, IInv, NEW o \in Objects, Retire(o)
  PROVE  MInv'
<1>1. /\ Steady /\ UNCHANGED <<bo, mm, total_mem, uses, told>>
      /\ fence' = [fence EXCEPT ![o] = "none"]
  BY DEF Retire
<1>2. Others' /\ dev' = dev /\ shr' = shr
  <2>1. fence' \in [Objects -> {"none", "queued", "running"}]
    BY <1>1 DEF MInv, Others
  <2> QED BY <1>1, <2>1, OthersSteady DEF MInv, Others
<1> QED BY <1>1, <1>2, AloneMem DEF MInv

LEMMA AskMem ==
  ASSUME MInv, IInv, NEW o \in Objects, NEW madv \in {WILLNEED, DONTNEED}, AskMadvise(o, madv)
  PROVE  MInv'
<1>1. /\ want' = [want EXCEPT ![o] = madv]
      /\ UNCHANGED <<dev, bo, mm, total_mem, lock, shr, fence, uses, told, oops>>
  BY DEF AskMadvise
<1>2. Others'
  BY <1>1 DEF MInv, Others
<1> QED BY <1>1, <1>2, AloneMem DEF MInv

-------------------------------------------------------------------------------
(* The shrinker.                                                           *)

LEMMA PickMem ==
  ASSUME MInv, IInv, NEW o \in Objects, ShrinkPick(o)
  PROVE  MInv'
<1>1. /\ bo[o].lru = "dontneed" \/ (bo[o].lru = "willneed" /\ dev.swap)
      /\ shr' = [obj |-> {o}, list |-> bo[o].lru]
      /\ UNCHANGED <<dev, bo, mm, total_mem, lock, fence, uses, told, want, oops>>
  BY DEF ShrinkPick
<1>2. bo[o].live
  BY <1>1, FreshFields DEF MInv, Proper
<1>3. Others'
  <2>1. shr' \in [obj : SUBSET Objects, list : Lrus] /\ (shr'.list = "willneed" => dev.swap)
    BY <1>1 DEF Lrus
  <2> QED BY <1>1, <2>1 DEF MInv, Others
<1>4. \A p \in shr'.obj : bo[p].live
  BY <1>1, <1>2
<1> QED BY <1>1, <1>3, <1>4, AloneMem

LEMMA LockMem ==
  ASSUME MInv, IInv, NEW o \in Objects, ShrinkLock(o) \/ Spare(o)
  PROVE  MInv'
<1>1. /\ UNCHANGED <<dev, bo, mm, total_mem, fence, uses, told, want, oops>>
      /\ lock' \subseteq lock \cup {o} /\ (shr' = shr \/ shr' = Nobody)
  BY DEF ShrinkLock, Spare, Unlock
<1>2. Nobody \in [obj : SUBSET Objects, list : Lrus] /\ Nobody.list # "willneed" /\ Nobody.obj = {}
  BY DEF Nobody, Lrus
<1>3. Others'
  BY <1>1, <1>2 DEF MInv, Others
<1> QED BY <1>1, <1>2, <1>3, AloneMem DEF MInv

(* What is left of an object w when its pages are put back, p.             *)
PutForm(w, p) ==
  /\ DOMAIN p = {"ok", "b", "mm", "mem"}
  /\ p.b \in Bo /\ ~p.b.pages
  /\ w.pages => /\ p.b.lru = "unbacked" /\ ~p.b.sgt /\ p.b.addr = NoSlot
                /\ p.mm = mm \ {w.addr} /\ p.mem = total_mem - 1
                /\ (p.b.data <=> w.data /\ w.vram_node = "null")
  /\ ~w.pages => p.b = w /\ p.mm = mm /\ p.mem = total_mem
  /\ p.b.live = w.live /\ p.b.imported = w.imported /\ p.b.vram_node = w.vram_node
  /\ p.b.madv = w.madv /\ p.b.pin_count = w.pin_count /\ p.b.vaddr = w.vaddr
  /\ p.b.pte = w.pte /\ p.b.iova = w.iova /\ p.b.vmas = w.vmas

LEMMA PutPagesForm ==
  ASSUME NEW w \in Bo
  PROVE  PutForm(w, PutPages(Result(TRUE, w, mm, total_mem)))
<1> DEFINE p == PutPages(Result(TRUE, w, mm, total_mem))
<1> DEFINE q == Result(TRUE, w, mm, total_mem)
<1>1. q.ok = TRUE /\ q.b = w /\ q.mm = mm /\ q.mem = total_mem /\ DOMAIN q = {"ok", "b", "mm", "mem"}
  BY DEF Result
<1>2. CASE ~w.pages
  <2>1. p = q
    BY <1>1, <1>2 DEF PutPages
  <2> HIDE DEF p, q
  <2>2. PutForm(w, p)
    BY <1>1, <1>2, <2>1 DEF PutForm
  <2> QED BY <2>2 DEF p
<1>3. CASE w.pages
  <2> DEFINE d == w.data /\ w.vram_node = "null"
             m == [w EXCEPT !.pages = FALSE, !.sgt = FALSE, !.addr = NoSlot, !.data = d]
             c == UpdateLru(m)
  <2>1. p = Result(TRUE, c, mm \ {w.addr}, total_mem - 1)
    BY <1>1, <1>3 DEF PutPages, GivenBack
  <2>2. /\ m \in Bo /\ ~m.pages /\ ~m.sgt /\ m.addr = NoSlot /\ m.data = d
        /\ m.live = w.live /\ m.imported = w.imported /\ m.vram_node = w.vram_node
        /\ m.madv = w.madv /\ m.pin_count = w.pin_count /\ m.vaddr = w.vaddr
        /\ m.pte = w.pte /\ m.iova = w.iova /\ m.vmas = w.vmas
    <3>1. d \in BOOLEAN
      BY DEF Bo
    <3> HIDE DEF d
    <3> QED BY <3>1 DEF Bo
  <2>d. (m.data <=> w.data /\ w.vram_node = "null")
    BY DEF Bo
  <2>3. c = [m EXCEPT !.lru = "unbacked"]
    BY <2>2 DEF UpdateLru
  <2> HIDE DEF m, c, d
  <2>4. /\ c \in Bo /\ ~c.pages /\ ~c.sgt /\ c.addr = NoSlot /\ c.data = m.data /\ c.lru = "unbacked"
        /\ c.live = w.live /\ c.imported = w.imported /\ c.vram_node = w.vram_node
        /\ c.madv = w.madv /\ c.pin_count = w.pin_count /\ c.vaddr = w.vaddr
        /\ c.pte = w.pte /\ c.iova = w.iova /\ c.vmas = w.vmas
    BY <2>2, <2>3 DEF Bo, Lrus
  <2> HIDE DEF q
  <2>5. /\ p.b = c /\ p.mm = mm \ {w.addr} /\ p.mem = total_mem - 1
        /\ DOMAIN p = {"ok", "b", "mm", "mem"}
    <3> HIDE DEF p
    <3> DEFINE e == mm \ {w.addr}
               n == total_mem - 1
    <3>1. p = Result(TRUE, c, e, n)
      BY <2>1
    <3>3. e = mm \ {w.addr} /\ n = total_mem - 1
      OBVIOUS
    <3> HIDE DEF e, n
    <3>2. p.b = c /\ p.mm = e /\ p.mem = n /\ DOMAIN p = {"ok", "b", "mm", "mem"}
      BY <3>1 DEF Result
    <3> QED BY <3>2, <3>3
  <2> HIDE DEF p
  <2>6. PutForm(w, p)
    BY <1>3, <2>d, <2>4, <2>5 DEF PutForm
  <2> QED BY <2>6 DEF p
<1> QED BY <1>2, <1>3

(* The rest of the state when the shrinker is done with an object.         *)
LEMMA UnlockOthers ==
  ASSUME MInv, NEW o, Unlock(o), UNCHANGED <<dev, fence, uses, told, want, oops>>
  PROVE  Others' /\ shr'.obj = {}
<1>1. Nobody \in [obj : SUBSET Objects, list : Lrus] /\ Nobody.list # "willneed" /\ Nobody.obj = {}
  BY DEF Nobody, Lrus
<1> QED BY <1>1 DEF Unlock, MInv, Others

(* The page of the carve-out and the total when the pages are put back.    *)
LEMMA PutFrame ==
  ASSUME MInv, IInv, NEW o \in Objects, bo[o].live, ~bo[o].imported, NEW c, Good(c, told[o]),
         ~c.pages, bo' = [bo EXCEPT ![o] = c],
         mm' = IF bo[o].pages THEN mm \ {bo[o].addr} ELSE mm,
         total_mem' = IF bo[o].pages THEN total_mem - 1 ELSE total_mem,
         told' = told, dev' = dev, Others', shr'.obj = {}
  PROVE  MInv'
<1>1. Good(bo[o], told[o]) /\ Held(bo[o]) \subseteq mm /\ total_mem \in Nat /\ NoSlot \notin mm
  BY GoodOf, HeldIn
<1>2. Held(c) = {} /\ Owned(c) = 0
  BY DEF Held, Owned, InCarveout
<1>3. mm' = mm \ Held(bo[o])
  BY <1>1 DEF Held, InCarveout, Good
<1>4. total_mem' = total_mem - Owned(bo[o])
  BY <1>1 DEF Owned
<1>5. Owned(bo[o]) \in {0, 1}
  BY DEF Owned
<1>6. /\ mm' = (mm \ Held(bo[o])) \cup Held(c) /\ Held(c) \cap (mm \ Held(bo[o])) = {}
      /\ total_mem' = total_mem - Owned(bo[o]) + Owned(c)
  BY <1>1, <1>2, <1>3, <1>4, <1>5
<1>7. told' = [told EXCEPT ![o] = told[o]] /\ told[o] \in Slots \cup {NoSlot}
  BY ToldSame DEF MInv
<1>8. Proper(c, told[o]) /\ c.live
  BY DEF Proper, Good
<1> QED BY <1>6, <1>7, <1>8, StepFrame

LEMMA PurgeMem ==
  ASSUME MInv, IInv, DevicesSound, NEW o \in Objects, Purge(o)
  PROVE  MInv'
<1> DEFINE b == bo[o]
           v == [a \in Aspaces |->
                   IF a = "null" \/ b.vmas[a] = "none" THEN b.vmas[a] ELSE "none"]
           s == [b EXCEPT !.vmas = v]
           u == Vunmap(s)
           w == [u EXCEPT !.pte = FALSE]
           q == Result(TRUE, w, mm, total_mem)
           r == PutPages(q)
           f == [a \in Aspaces |-> "none"]
           k == IF r.b.vram_node = "null" THEN "null" ELSE "freed"
           x == [r.b EXCEPT !.vmas = f, !.iova = NoSlot, !.vram_node = k]
           c == [x EXCEPT !.madv = PURGED, !.data = FALSE]
<1>1. /\ b.madv = DONTNEED /\ ~b.imported /\ b.pin_count = 0 /\ Set(o, Purged(o)) /\ Unlock(o)
      /\ UNCHANGED <<dev, fence, uses, told, want, oops>>
  BY DEF Purge, Purgeable
<1>2. b.live
  BY <1>1, FreshFields DEF MInv, Proper, DONTNEED
<1>3. Good(b, told[o]) /\ b.vmap_count = 0
  <2>1. Good(b, told[o]) /\ b.vmap_count <= b.pin_count /\ b.vmap_count \in Nat
    BY <1>2, GoodOf DEF Bo
  <2> QED BY <1>1, <2>1
<1>4. Purged(o) = [r EXCEPT !.b = c]
  BY DEF Purged, PutIovaSpaces, PutIovaVmas
<1>5. v \in [Aspaces -> {"none", "reserved", "mapped"}]
  BY <1>3 DEF Good, Bo
<1> HIDE DEF v
<1>6. /\ s \in Bo /\ s.vmap_count = 0 /\ s.pages = b.pages /\ s.addr = b.addr /\ s.live /\ ~s.imported
      /\ s.vram_node = b.vram_node /\ s.pin_count = 0 /\ s.lru = b.lru
  BY <1>1, <1>2, <1>3, <1>5 DEF Good, Bo
<1> HIDE DEF s
<1>7. u = [s EXCEPT !.vaddr = FALSE]
  BY <1>6 DEF Vunmap
<1> HIDE DEF u
<1>8. /\ w \in Bo /\ w.pages = b.pages /\ w.addr = b.addr /\ w.live /\ ~w.imported
      /\ w.vram_node = b.vram_node /\ w.pin_count = 0 /\ w.lru = b.lru /\ ~w.vaddr /\ ~w.pte
  BY <1>6, <1>7 DEF Bo
<1>r. r = PutPages(Result(TRUE, w, mm, total_mem))
  OBVIOUS
<1> HIDE DEF w, q, r
<1>9. /\ DOMAIN r = {"ok", "b", "mm", "mem"} /\ r.b \in Bo /\ ~r.b.pages
      /\ w.pages => r.b.lru = "unbacked" /\ r.b.addr = NoSlot /\ r.mm = mm \ {w.addr} /\ r.mem = total_mem - 1
      /\ ~w.pages => r.b = w /\ r.mm = mm /\ r.mem = total_mem
      /\ r.b.live = w.live /\ r.b.imported = w.imported /\ r.b.vram_node = w.vram_node
      /\ r.b.pin_count = w.pin_count /\ r.b.vaddr = w.vaddr /\ r.b.pte = w.pte
  <2>1. PutForm(w, r)
    BY <1>8, <1>r, PutPagesForm
  <2> QED BY <2>1 DEF PutForm
<1>10. f \in [Aspaces -> {"none", "reserved", "mapped"}] /\ f["kms"] = "none" /\ f["ctx"] = "none"
       /\ k \in {"null", "freed"}
  BY DEF Aspaces
<1>k. (k = "null" <=> b.vram_node = "null") /\ (k = "freed" <=> b.vram_node # "null")
  BY <1>8, <1>9
<1> HIDE DEF f, k
<1>11. /\ x \in Bo /\ ~x.pages /\ x.lru = r.b.lru /\ x.addr = r.b.addr /\ x.live /\ ~x.imported
       /\ x.vram_node = k /\ x.pin_count = 0 /\ ~x.vaddr /\ ~x.pte /\ x.vmas = f /\ x.iova = NoSlot
  BY <1>8, <1>9, <1>10 DEF Bo
<1> HIDE DEF x
<1>12. /\ c \in Bo /\ ~c.pages /\ c.lru = r.b.lru /\ c.addr = r.b.addr /\ c.live /\ ~c.imported
       /\ c.vram_node = k /\ c.pin_count = 0 /\ ~c.vaddr /\ ~c.pte /\ c.vmas = f /\ c.madv = PURGED
  <2>1. PURGED \in Madv
    BY DEF Madv, WILLNEED, PURGED
  <2> QED BY <1>11, <2>1 DEF Bo
<1> HIDE DEF c
<1>13. r.b.lru \notin {"dontneed", "willneed"} /\ r.b.addr = NoSlot
  <2>1. CASE w.pages
    BY <1>9, <2>1
  <2>2. CASE ~w.pages
    BY <1>3, <1>8, <1>9, <2>2 DEF Good, LruGood
  <2> QED BY <2>1, <2>2
<1>14. LruGood(c)
  BY <1>12, <1>13 DEF LruGood
<1>15. (k = "null" => dev.mmu) /\ (k = "freed" => dev.vram)
  BY <1>k, <1>3 DEF Good, Bo
<1>16. told[o] # NoSlot => ~dev.mmu
  BY <1>3 DEF Good
<1>17. k \in {"null", "freed"} /\ c.vmas["kms"] = "none" /\ c.vmas["ctx"] = "none"
  BY <1>10, <1>12
<1>18. Good(c, told[o])
  BY <1>12, <1>13, <1>14, <1>15, <1>16, <1>17 DEF Good
<1>19. /\ bo' = [bo EXCEPT ![o] = c] /\ mm' = r.mm /\ total_mem' = r.mem
  BY <1>1, <1>4, <1>9 DEF Set
<1>20. /\ mm' = IF b.pages THEN mm \ {b.addr} ELSE mm
       /\ total_mem' = IF b.pages THEN total_mem - 1 ELSE total_mem
  BY <1>8, <1>9, <1>19
<1>21. Others' /\ shr'.obj = {}
  BY <1>1, UnlockOthers
<1> QED BY <1>1, <1>2, <1>12, <1>18, <1>19, <1>20, <1>21, PutFrame

LEMMA EvictMem ==
  ASSUME MInv, IInv, DevicesSound, NEW o \in Objects, Evict(o)
  PROVE  MInv'
<1> DEFINE b == bo[o]
           v == [a \in Aspaces |->
                   IF a = "null" \/ b.vmas[a] = "none" THEN b.vmas[a] ELSE "reserved"]
           s == [b EXCEPT !.vmas = v]
           w == [s EXCEPT !.pte = FALSE]
           q == Result(TRUE, w, mm, total_mem)
           r == PutPages(q)
           c == r.b
<1>1. /\ o \in shr.obj /\ shr.list = "willneed" /\ ~b.imported /\ b.pin_count = 0 /\ ~b.vaddr
      /\ Set(o, Evicted(o)) /\ Unlock(o)
      /\ UNCHANGED <<dev, fence, uses, told, want, oops>>
  BY DEF Evict, Evictable
<1>2. b.live /\ dev.swap
  BY <1>1 DEF MInv, Others
<1>3. Good(b, told[o])
  BY <1>2, GoodOf
<1>4. b.vram_node = "null" /\ dev.mmu /\ told[o] = NoSlot
  BY <1>2, <1>3, DevFacts DEF Good, Bo, MInv
<1>5. Evicted(o) = r
  BY DEF Evicted, PutIovaSpaces
<1>6. /\ v \in [Aspaces -> {"none", "reserved", "mapped"}]
      /\ v["kms"] # "mapped" /\ v["ctx"] # "mapped"
  BY <1>3 DEF Good, Bo, Aspaces
<1> HIDE DEF v
<1>7. /\ s \in Bo /\ s.pages = b.pages /\ s.addr = b.addr /\ s.live /\ ~s.imported
      /\ s.vram_node = "null" /\ s.pin_count = 0 /\ s.lru = b.lru /\ ~s.vaddr /\ s.vmas = v
      /\ s.madv = b.madv /\ s.data = b.data
  BY <1>1, <1>2, <1>3, <1>4, <1>6 DEF Good, Bo
<1> HIDE DEF s
<1>8. /\ w \in Bo /\ w.pages = b.pages /\ w.addr = b.addr /\ w.live /\ ~w.imported
      /\ w.vram_node = "null" /\ w.pin_count = 0 /\ w.lru = b.lru /\ ~w.vaddr /\ ~w.pte
      /\ w.vmas = v /\ w.madv = b.madv /\ w.data = b.data
  BY <1>7 DEF Bo
<1>r. r = PutPages(Result(TRUE, w, mm, total_mem))
  OBVIOUS
<1>10. bo' = [bo EXCEPT ![o] = c] /\ mm' = r.mm /\ total_mem' = r.mem
  BY <1>1, <1>5 DEF Set
<1> HIDE DEF w, q, r
<1>9. /\ c \in Bo /\ ~c.pages
      /\ w.pages => c.lru = "unbacked" /\ c.addr = NoSlot /\ r.mm = mm \ {w.addr} /\ r.mem = total_mem - 1
      /\ w.pages => (c.data <=> w.data)
      /\ ~w.pages => c = w /\ r.mm = mm /\ r.mem = total_mem
      /\ c.live = w.live /\ c.imported = w.imported /\ c.vram_node = w.vram_node /\ c.madv = w.madv
      /\ c.pin_count = w.pin_count /\ c.vaddr = w.vaddr /\ c.pte = w.pte /\ c.vmas = w.vmas
  <2>1. PutForm(w, r)
    BY <1>8, <1>r, PutPagesForm
  <2> QED BY <1>8, <2>1 DEF PutForm, c
<1> HIDE DEF c
<1>11. c.lru \notin {"dontneed", "willneed"} /\ c.addr = NoSlot /\ (c.data <=> b.data)
  <2>1. CASE w.pages
    BY <1>8, <1>9, <2>1
  <2>2. CASE ~w.pages
    BY <1>3, <1>8, <1>9, <2>2 DEF Good, LruGood
  <2> QED BY <2>1, <2>2
<1>12. LruGood(c)
  BY <1>8, <1>9, <1>11 DEF LruGood
<1>13. b.madv # PURGED => c.data
  BY <1>3, <1>11 DEF Good
<1>14. Good(c, told[o])
  BY <1>4, <1>6, <1>8, <1>9, <1>11, <1>12, <1>13 DEF Good
<1>15. /\ mm' = IF b.pages THEN mm \ {b.addr} ELSE mm
       /\ total_mem' = IF b.pages THEN total_mem - 1 ELSE total_mem
  BY <1>8, <1>9, <1>10
<1>16. Others' /\ shr'.obj = {}
  BY <1>1, UnlockOthers
<1> QED BY <1>1, <1>2, <1>9, <1>10, <1>14, <1>15, <1>16, PutFrame

-------------------------------------------------------------------------------
LEMMA InitMInv ==
  ASSUME Init
  PROVE  MInv
<1>1. \A o \in Objects : bo[o] = Fresh /\ told[o] = NoSlot
  BY DEF Init
<1>2. \A o \in Objects : Proper(bo[o], told[o])
  BY <1>1, FreshOwnsNothing DEF Proper
<1>3. InVram = {} /\ {o \in Objects : Owned(bo[o]) = 1} = {}
  BY <1>1, FreshFields DEF InVram, InCarveout, Owned
<1>4. MemInv
  BY <1>3, FS_EmptySet DEF MemInv, Init
<1>5. Others /\ shr.obj = {}
  BY GemAssumption DEF Init, Others, NoUse, Nobody, Lrus
<1>6. bo \in [Objects -> Bo]
  BY FreshOwnsNothing DEF Init
<1> QED BY <1>2, <1>4, <1>5, <1>6 DEF MInv

LEMMA LiveMem ==
  ASSUME MInv, IInv, DevicesSound, NEW o \in Objects, Live(o)
  PROVE  MInv'
<1>1. CASE \E scanout \in BOOLEAN : New(o, scanout)
  BY <1>1, NewMem
<1>2. CASE Free(o)
  BY <1>2, FreeMem
<1>3. CASE Fault(o)
  BY <1>3, FaultMem
<1>4. CASE Munmap(o)
  BY <1>4, MunmapMem
<1>5. CASE \E madv \in {WILLNEED, DONTNEED} : AskMadvise(o, madv)
  BY <1>5, AskMem
<1>6. CASE Madvise(o)
  BY <1>6, MadviseMem
<1>7. CASE ShrinkPick(o)
  BY <1>7, PickMem
<1>8. CASE ShrinkLock(o) \/ Spare(o)
  BY <1>8, LockMem
<1>9. CASE Purge(o)
  BY <1>9, PurgeMem
<1>10. CASE Evict(o)
  BY <1>10, EvictMem
<1> QED BY <1>1, <1>2, <1>3, <1>4, <1>5, <1>6, <1>7, <1>8, <1>9, <1>10 DEF Live, Shrink

LEMMA UseMem ==
  ASSUME MInv, IInv, DevicesSound, NEW o \in Objects, Use(o)
  PROVE  MInv'
<1>1. CASE GetVaddr(o, WILLNEED)
  BY <1>1, GetVaddrMem DEF WILLNEED, PURGED
<1>2. CASE GetVaddrActive(o)
  BY <1>2, GetVaddrMem DEF GetVaddrActive
<1> QED
  BY <1>1, <1>2, PinIovaMem, UnpinIovaMem, GetIovaMem, ClearIovaMem, PutVaddrMem, SubmitMem,
     JobRunMem, RetireMem
    DEF Use

LEMMA NextMInv ==
  ASSUME MInv, IInv, DevicesSound, [Next]_vars
  PROVE  MInv'
<1>1. CASE \E o \in Objects : Live(o)
  BY <1>1, LiveMem
<1>2. CASE \E o \in Pinnable : Use(o) \/ Import(o)
  BY <1>2, UseMem, ImportMem, GemAssumption
<1>3. CASE UNCHANGED vars
  BY <1>3, AloneMem DEF vars, MInv, Others
<1> QED BY <1>1, <1>2, <1>3 DEF Next

(* The pages of the carve-out are one to an object.                        *)
LEMMA CountOfPages ==
  ASSUME MInv
  PROVE  Cardinality(mm) = Cardinality(InVram)
<1>1. IsFiniteSet(InVram)
  BY FS_Subset, GemAssumption DEF InVram
<1> DEFINE f == [o \in InVram |-> bo[o].addr]
<1>2. f \in Bijection(InVram, mm)
  BY DEF MInv, MemInv, Bijection, Injection, Surjection, IsInjective
<1>3. ExistsBijection(InVram, mm)
  BY <1>2 DEF ExistsBijection
<1> QED BY <1>1, <1>3, FS_Bijection

LEMMA SoundFromMInv ==
  ASSUME MInv, IInv
  PROVE  MemorySound /\ WillNeedKept
<1>1. ASSUME NEW o \in Objects
      PROVE  /\ bo[o] \in Bo
             /\ bo[o].madv = WILLNEED => bo[o].data
             /\ bo[o].pages /\ told[o] # NoSlot => bo[o].addr = told[o]
             /\ bo[o].pte \/ bo[o].vaddr \/ bo[o].vmas["kms"] = "mapped"
                  \/ bo[o].vmas["ctx"] = "mapped" => bo[o].pages
             /\ LruGood(bo[o])
  <2>1. CASE bo[o].live
    <3>1. Good(bo[o], told[o])
      BY <2>1, GoodOf
    <3>2. bo[o].pages /\ told[o] # NoSlot => bo[o].vram_node = "node"
      BY <3>1 DEF Good, Bo
    <3> QED BY <3>1, <3>2 DEF Good, WILLNEED, PURGED
  <2>2. CASE ~bo[o].live
    <3>1. bo[o] = Fresh /\ told[o] = NoSlot
      BY <2>2 DEF MInv, Proper
    <3> QED BY <3>1, FreshFields, FreshOwnsNothing DEF LruGood, WILLNEED, DONTNEED
  <2> QED BY <2>1, <2>2
<1>2. TypeOK
  <2>1. bo \in [Objects -> Bo]
    BY DEF MInv
  <2>2. mm \subseteq Slots /\ total_mem \in Nat
    <3>1. CASE Objects = {}
      <4> DEFINE A == {o \in Objects : Owned(bo[o]) = 1}
      <4>1. InVram = {} /\ A = {}
        BY <3>1 DEF InVram
      <4>2. mm = {}
        BY <4>1 DEF MInv, MemInv
      <4>3. total_mem = Cardinality(A)
        BY DEF MInv, MemInv
      <4> HIDE DEF A
      <4> QED BY <4>1, <4>2, <4>3, FS_EmptySet
    <3>2. CASE Objects # {}
      BY <3>2, HeldIn
    <3> QED BY <3>1, <3>2
  <2>3. oops \in BOOLEAN
    BY DEF MInv, Others
  <2> QED BY <2>1, <2>2, <2>3 DEF TypeOK, MInv, Others
<1>3. UsedBacked
  BY DEF IInv, Sound, Backed, UsedBacked
<1>4. LruTrue
  BY <1>1 DEF LruTrue, LruGood
<1>5. MemoryExact
  <2>1. {o \in {p \in Objects : bo[p].pages /\ ~bo[p].imported} : bo[o].vram_node # "null"} = InVram
    BY DEF InVram, InCarveout
  <2>2. {o \in Objects : bo[o].pages /\ ~bo[o].imported} = {o \in Objects : Owned(bo[o]) = 1}
    BY DEF Owned
  <2> QED BY <2>1, <2>2, CountOfPages DEF MemoryExact, MInv, MemInv
<1>6. NoStaleMapping /\ IovaValid /\ NoOops /\ WillNeedKept
  BY <1>1 DEF NoStaleMapping, IovaValid, NoOops, WillNeedKept, MInv, Others
<1> QED BY <1>2, <1>3, <1>4, <1>5, <1>6 DEF MemorySound

(* On the devices whose objects can be built and kept, the memory and      *)
(* those who use it always agree: what is used or mapped has its pages     *)
(* where its users were told, the lists of the shrinker tell the truth,    *)
(* the carve-out and the total are exact, and no thread dies over a file   *)
(* or a table that is not there, in any order of calls, faults, jobs,      *)
(* advice and shrinking.                                                   *)
THEOREM MemoryStaysSound ==
  ASSUME DevicesSound
  PROVE  Spec => []MemorySound
<1>1. Init => MInv /\ IInv
  BY InitMInv, InitIInv
<1>2. MInv /\ IInv /\ [Next]_vars => (MInv /\ IInv)'
  BY NextMInv, NextIInv
<1>3. MInv /\ IInv => MemorySound
  BY SoundFromMInv
<1> QED BY <1>1, <1>2, <1>3, PTL DEF Spec

(* An object that its owner did not give up keeps its contents, however    *)
(* the shrinker, advice and jobs interleave.                               *)
THEOREM ContentsKept ==
  ASSUME DevicesSound
  PROVE  Spec => []WillNeedKept
<1>1. Init => MInv /\ IInv
  BY InitMInv, InitIInv
<1>2. MInv /\ IInv /\ [Next]_vars => (MInv /\ IInv)'
  BY NextMInv, NextIInv
<1>3. MInv /\ IInv => WillNeedKept
  BY SoundFromMInv
<1> QED BY <1>1, <1>2, <1>3, PTL DEF Spec
==============================================================================
