--------------------------------- MODULE MsmGem ---------------------------------
(***************************************************************************)
(* The buffer objects of the msm driver (msm_gem.c): their backing pages,  *)
(* taken from shmem, from the VRAM carve-out of a device without an IOMMU, *)
(* or from another driver; pins, mappings, madvise, and the shrinker that  *)
(* purges and evicts them.  What runs under the lock of an object is one   *)
(* step, save that the shrinker takes the lock in a step of its own; a job *)
(* that starts and a fence that signals need no lock.  The size of every   *)
(* object is one page.                                                     *)
(***************************************************************************)
EXTENDS Integers, FiniteSets

CONSTANTS
  Objects,   \* buffer objects
  Pinnable,  \* those that the display, the GPU or the kernel use;
             \* the others are only mapped by processes
  Slots,     \* pages of the VRAM carve-out
  NoSlot,    \* not a page of it
  Devices,   \* the devices to check
  MaxUses    \* bound: pins of a kind that users hold on an object

ASSUME GemAssumption ==
  /\ IsFiniteSet(Objects) /\ IsFiniteSet(Slots) /\ NoSlot \notin Slots
  /\ Pinnable \subseteq Objects /\ MaxUses \in Nat
  /\ Devices \subseteq [mmu : BOOLEAN, vram : BOOLEAN, swap : BOOLEAN, sgt_fails : BOOLEAN]

VARIABLES
  dev,        \* the device: has it an IOMMU, a carve-out, swap; may an sgt fail
  bo,         \* struct msm_gem_object
  mm,         \* priv->vram.mm: the pages of the carve-out in use
  total_mem,  \* priv->total_mem
  lock,       \* objects whose reservation lock somebody holds between steps
  shr,        \* the object the shrinker works on, and the list it took it from
  fence,      \* the GPU job that uses an object: none, queued or running
  uses,       \* pins the users of an object hold
  told,       \* the address users were told an object has
  want,       \* the advice a process waits to give
  oops        \* a thread died in the kernel

vars == <<dev, bo, mm, total_mem, lock, shr, fence, uses, told, want, oops>>

WILLNEED == 0
DONTNEED == 1
PURGED   == 2
NoAdvice == 3
Madv     == WILLNEED .. PURGED

(* Of no MMU, of the display, and of the GPU.                              *)
Aspaces == {"null", "kms", "ctx"}
Lrus    == {"unbacked", "willneed", "dontneed", "pinned"}
Bo == [live : BOOLEAN, imported : BOOLEAN, vram_node : {"null", "node", "freed"},
       pages : BOOLEAN, sgt : BOOLEAN, addr : Slots \cup {NoSlot}, madv : Madv,
       pin_count : Nat, vmap_count : Nat, vaddr : BOOLEAN, pte : BOOLEAN,
       lru : Lrus, data : BOOLEAN, iova : Slots \cup {NoSlot},
       vmas : [Aspaces -> {"none", "reserved", "mapped"}]]

Fresh == [live |-> FALSE, imported |-> FALSE, vram_node |-> "null", pages |-> FALSE,
          sgt |-> FALSE, addr |-> NoSlot, madv |-> WILLNEED, pin_count |-> 0,
          vmap_count |-> 0, vaddr |-> FALSE, pte |-> FALSE, lru |-> "unbacked",
          data |-> TRUE, iova |-> NoSlot, vmas |-> [a \in Aspaces |-> "none"]]

NoUse   == [iova |-> 0, vaddr |-> 0]
Nobody  == [obj |-> {}, list |-> "unbacked"]

TypeOK ==
  /\ dev \in Devices
  /\ bo \in [Objects -> Bo]
  /\ mm \subseteq Slots
  /\ total_mem \in Nat
  /\ lock \subseteq Objects
  /\ shr \in [obj : SUBSET Objects, list : Lrus]
  /\ fence \in [Objects -> {"none", "queued", "running"}]
  /\ uses \in [Objects -> [iova : 0 .. MaxUses, vaddr : 0 .. MaxUses]]
  /\ told \in [Objects -> Slots \cup {NoSlot}]
  /\ want \in [Objects -> {WILLNEED, DONTNEED, NoAdvice}]
  /\ oops \in BOOLEAN

(* The address spaces the display and the GPU map buffers into.            *)
KmsAspace == IF dev.mmu THEN "kms" ELSE "null"
CtxAspace == IF dev.mmu THEN "ctx" ELSE "null"

-------------------------------------------------------------------------------
(* The lists of the shrinker.                                              *)

UpdateLruActive(b) ==
  [b EXCEPT !.lru = CASE b.pin_count # 0       -> "pinned"
                      [] b.pin_count = 0 /\ b.madv = WILLNEED -> "willneed"
                      [] OTHER                 -> "dontneed"]

UpdateLru(b) == IF b.pages THEN UpdateLruActive(b) ELSE [b EXCEPT !.lru = "unbacked"]

PinObj(b)   == [b EXCEPT !.pin_count = @ + 1, !.lru = "pinned"]
UnpinObj(b) == UpdateLru([b EXCEPT !.pin_count = @ - 1])

-------------------------------------------------------------------------------
(* Backing pages.  A result tells whether the call succeeded, the object,  *)
(* the carve-out and the memory total after it.                            *)

Result(ok, b, m, mem) == [ok |-> ok, b |-> b, mm |-> m, mem |-> mem]

Places(b) == IF b.vram_node = "null" THEN {NoSlot} ELSE Slots \ mm

(* get_pages(): the pages stay with the object when its sgt cannot be      *)
(* built, on the list it was on.                                           *)
GetPages(b) ==
  IF b.pages THEN {Result(TRUE, b, mm, total_mem)}
  ELSE LET Taken(a)  == [b EXCEPT !.pages = TRUE, !.addr = a]
           Used(a)   == mm \cup ({a} \ {NoSlot})
           Sgt(a)    == UpdateLru([Taken(a) EXCEPT !.sgt = TRUE])
       IN  {Result(FALSE, b, mm, total_mem)}
           \cup {Result(TRUE, Sgt(a), Used(a), total_mem + 1) : a \in Places(b)}
           \cup {Result(FALSE, Taken(a), Used(a), total_mem + 1) :
                   a \in {p \in Places(b) : dev.sgt_fails}}

(* The memory goes back: pages of shmem keep their contents in swap, a     *)
(* page of the carve-out goes to another object.                           *)
GivenBack(r) ==
  Result(r.ok,
         UpdateLru([r.b EXCEPT !.pages = FALSE, !.sgt = FALSE, !.addr = NoSlot,
                               !.data = @ /\ r.b.vram_node = "null"]),
         r.mm \ {r.b.addr}, r.mem - 1)

(* put_pages(), on an object and the memory of result r.                   *)
PutPages(r) == IF r.b.pages THEN GivenBack(r) ELSE r

(* msm_gem_get_pages_locked(): refused when the object was given up.       *)
GetPagesLocked(b, madv) ==
  IF b.madv > madv THEN {Result(FALSE, b, mm, total_mem)} ELSE GetPages(b)

(* get_pages_vram() would write a vram_node that was freed.                *)
UsesFreed(b) == ~b.pages /\ b.vram_node = "freed"

-------------------------------------------------------------------------------
(* Address spaces.                                                         *)

(* get_vma_locked(): the address range is reserved on the first use.       *)
GetVma(b, a) == [b EXCEPT !.vmas[a] = IF @ = "none" THEN "reserved" ELSE @]

(* A vma cannot be made for no address space.                              *)
HasVma(b, a) == a = "null" => b.vmas[a] # "none"

(* put_iova_spaces(): the vma of the carve-out has no address space and is *)
(* passed over; close gives the address range back as well.                *)
PutIovaSpaces(b, close) ==
  [b EXCEPT !.vmas = [a \in Aspaces |->
     IF a = "null" \/ @[a] = "none" THEN @[a]
     ELSE IF close THEN "none" ELSE "reserved"]]

(* put_iova_vmas() frees every vma, the one that holds the vram_node too.  *)
PutIovaVmas(b) ==
  [b EXCEPT !.vmas = [a \in Aspaces |-> "none"],
            !.iova = NoSlot,
            !.vram_node = IF @ = "null" THEN "null" ELSE "freed"]

Vunmap(b) == IF b.vmap_count = 0 THEN [b EXCEPT !.vaddr = FALSE] ELSE b

-------------------------------------------------------------------------------
Init ==
  /\ dev \in Devices
  /\ bo = [o \in Objects |-> Fresh]
  /\ mm = {}
  /\ total_mem = 0
  /\ lock = {}
  /\ shr = Nobody
  /\ fence = [o \in Objects |-> "none"]
  /\ uses = [o \in Objects |-> NoUse]
  /\ told = [o \in Objects |-> NoSlot]
  /\ want = [o \in Objects |-> NoAdvice]
  /\ oops = FALSE

Set(o, r) == bo' = [bo EXCEPT ![o] = r.b] /\ mm' = r.mm /\ total_mem' = r.mem

Open(o) == bo[o].live /\ o \notin lock

(* The thread dies and never drops the lock of the object.                 *)
Dies(o) ==
  /\ oops' = TRUE
  /\ lock' = lock \cup {o}
  /\ UNCHANGED <<dev, bo, mm, total_mem, shr, fence, uses, told, want>>

Steady == UNCHANGED <<dev, lock, shr, want, oops>>

-------------------------------------------------------------------------------
(* Objects come and go.                                                    *)

(* msm_gem_free_object(): the pages of an imported object are not ours.    *)
FreeObject(r) ==
  LET spaces == [r EXCEPT !.b = PutIovaSpaces(@, TRUE)]
      put    == IF r.b.imported THEN spaces
                ELSE PutPages([spaces EXCEPT !.b = Vunmap(@)])
  IN  [put EXCEPT !.b = Fresh]

(* msm_gem_new(): an object of the carve-out gets its page at once, and is *)
(* then put on the list of those without; a failure frees the object.      *)
New(o, scanout) ==
  LET use_vram == ~dev.mmu \/ (scanout /\ dev.vram)
      vram     == [Fresh EXCEPT !.live = TRUE, !.vram_node = "node",
                                !.vmas["null"] = "reserved"]
  IN
  /\ ~bo[o].live
  /\ use_vram => dev.vram
  /\ IF ~use_vram
     THEN Set(o, Result(TRUE, [Fresh EXCEPT !.live = TRUE], mm, total_mem))
     ELSE \E r \in GetPages(vram) :
            Set(o, IF ~r.ok THEN FreeObject(r)
                   ELSE [r EXCEPT !.b.iova = r.b.addr, !.b.lru = "unbacked"])
  /\ Steady /\ UNCHANGED <<fence, uses, told>>

(* msm_gem_import(): needs an IOMMU.                                       *)
Import(o) ==
  /\ ~bo[o].live /\ dev.mmu
  /\ Set(o, Result(TRUE, [Fresh EXCEPT !.live = TRUE, !.imported = TRUE, !.pages = TRUE,
                                       !.sgt = TRUE, !.lru = "pinned"], mm, total_mem))
  /\ Steady /\ UNCHANGED <<fence, uses, told>>

(* The last reference is dropped: pins, jobs, handles and mappings have one. *)
Free(o) ==
  /\ Open(o) /\ uses[o] = NoUse /\ fence[o] = "none" /\ want[o] = NoAdvice
  /\ ~bo[o].pte /\ o \notin shr.obj
  /\ Set(o, FreeObject(Result(TRUE, bo[o], mm, total_mem)))
  /\ told' = [told EXCEPT ![o] = NoSlot]
  /\ Steady /\ UNCHANGED <<fence, uses>>

-------------------------------------------------------------------------------
(* Pins and mappings.                                                      *)

(* msm_gem_pin_vma_locked() and the pin of its caller: Pinned(b) is the    *)
(* object with its mapping, fin what the caller does on success.  Mapping  *)
(* a table that is not there kills the thread; mapping may also fail.      *)
PinVma(o, a, fin) ==
  /\ HasVma(bo[o], a)
  /\ \E r \in GetPagesLocked(GetVma(bo[o], a), WILLNEED) :
       \/ /\ ~r.ok \/ (a # "null" /\ r.b.sgt /\ r.b.vmas[a] = "reserved")
          /\ Set(o, r) /\ Steady /\ UNCHANGED <<fence, uses, told>>
       \/ /\ r.ok /\ (a = "null" \/ r.b.sgt)
          /\ Set(o, [r EXCEPT !.b = [PinObj(@) EXCEPT !.vmas[a] = "mapped"]])
          /\ Steady /\ fin
       \/ r.ok /\ a # "null" /\ ~r.b.sgt /\ Dies(o)

(* msm_gem_get_and_pin_iova().                                             *)
PinIova(o) ==
  /\ Open(o) /\ uses[o].iova < MaxUses
  /\ PinVma(o, KmsAspace,
            /\ uses' = [uses EXCEPT ![o].iova = @ + 1]
            /\ told' = [told EXCEPT ![o] = IF dev.mmu THEN @ ELSE bo[o].iova]
            /\ UNCHANGED fence)

(* msm_gem_unpin_iova(): without a vma nothing is undone.                  *)
UnpinIova(o) ==
  /\ Open(o) /\ uses[o].iova > 0
  /\ bo' = [bo EXCEPT ![o] = IF @.vmas[KmsAspace] = "none" THEN @ ELSE UnpinObj(@)]
  /\ uses' = [uses EXCEPT ![o].iova = @ - 1]
  /\ Steady /\ UNCHANGED <<mm, total_mem, fence, told>>

(* msm_gem_get_iova(): the address is told, the object not pinned.         *)
GetIova(o) ==
  /\ Open(o) /\ HasVma(bo[o], KmsAspace)
  /\ bo' = [bo EXCEPT ![o] = GetVma(@, KmsAspace)]
  /\ told' = [told EXCEPT ![o] = IF dev.mmu THEN @ ELSE bo[o].iova]
  /\ Steady /\ UNCHANGED <<mm, total_mem, fence, uses>>

(* msm_gem_set_iova(0), which is allowed in an address space of a process. *)
ClearIova(o) ==
  /\ Open(o) /\ bo[o].vmas["ctx"] # "none"
  /\ bo' = [bo EXCEPT ![o].vmas["ctx"] = "none"]
  /\ Steady /\ UNCHANGED <<mm, total_mem, fence, uses, told>>

(* vmap() failed: the pin and the count are taken back.                    *)
VmapFailed_KeepsPin(b) == [b EXCEPT !.vmap_count = @ - 1]

VmapFailed(b) == UnpinObj([b EXCEPT !.vmap_count = @ - 1])

(* get_vaddr(): vmap() may fail.                                           *)
GetVaddr(o, madv) ==
  /\ Open(o) /\ ~bo[o].imported /\ uses[o].vaddr < MaxUses
  /\ IF UsesFreed(bo[o]) /\ bo[o].madv <= madv THEN Dies(o) ELSE
     /\ \E r \in GetPagesLocked(bo[o], madv) :
          LET pin == [PinObj(r.b) EXCEPT !.vmap_count = @ + 1] IN
          \/ ~r.ok /\ Set(o, r) /\ UNCHANGED uses
          \/ /\ r.ok
             /\ Set(o, [r EXCEPT !.b = [pin EXCEPT !.vaddr = TRUE]])
             /\ uses' = [uses EXCEPT ![o].vaddr = @ + 1]
          \/ /\ r.ok /\ ~r.b.vaddr
             /\ Set(o, [r EXCEPT !.b = VmapFailed(pin)])
             /\ UNCHANGED uses
     /\ Steady /\ UNCHANGED <<fence, told>>

(* msm_gem_get_vaddr_active(): dumps the buffers of a job that hangs, those *)
(* given up among them.                                                    *)
GetVaddrActive(o) == fence[o] # "none" /\ GetVaddr(o, PURGED)

PutVaddr(o) ==
  /\ Open(o) /\ uses[o].vaddr > 0
  /\ bo' = [bo EXCEPT ![o] = UnpinObj([bo[o] EXCEPT !.vmap_count = @ - 1])]
  /\ uses' = [uses EXCEPT ![o].vaddr = @ - 1]
  /\ Steady /\ UNCHANGED <<mm, total_mem, fence, told>>

FaultIn(o) ==
  IF UsesFreed(bo[o]) THEN Dies(o) ELSE
  /\ \E r \in GetPages(bo[o]) : Set(o, [r EXCEPT !.b.pte = @ \/ r.ok])
  /\ Steady /\ UNCHANGED <<fence, uses, told>>

(* msm_gem_fault().                                                        *)
Fault(o) == Open(o) /\ bo[o].madv = WILLNEED /\ FaultIn(o)

Munmap(o) ==
  /\ bo[o].pte
  /\ bo' = [bo EXCEPT ![o].pte = FALSE]
  /\ Steady /\ UNCHANGED <<mm, total_mem, fence, uses, told>>

-------------------------------------------------------------------------------
(* Advice.                                                                 *)

(* The compositor gives advice, on one object at a time.                   *)
AskMadvise(o, madv) ==
  /\ bo[o].live /\ \A p \in Objects : want[p] = NoAdvice
  /\ want' = [want EXCEPT ![o] = madv]
  /\ UNCHANGED <<dev, bo, mm, total_mem, lock, shr, fence, uses, told, oops>>

(* Mutant: a purged object may be taken back.                              *)
Madvise_Revives(o) ==
  /\ Open(o) /\ want[o] # NoAdvice
  /\ bo' = [bo EXCEPT ![o] = UpdateLru([@ EXCEPT !.madv = want[o]])]
  /\ want' = [want EXCEPT ![o] = NoAdvice]
  /\ UNCHANGED <<dev, mm, total_mem, lock, shr, fence, uses, told, oops>>

(* msm_gem_madvise(): given up is for ever.                                *)
Madvise(o) ==
  /\ Open(o) /\ want[o] # NoAdvice
  /\ bo' = [bo EXCEPT ![o] =
              UpdateLru([bo[o] EXCEPT !.madv = IF @ = PURGED THEN @ ELSE want[o]])]
  /\ want' = [want EXCEPT ![o] = NoAdvice]
  /\ UNCHANGED <<dev, mm, total_mem, lock, shr, fence, uses, told, oops>>

-------------------------------------------------------------------------------
(* Jobs of the GPU.                                                        *)

Submit(o) ==
  /\ Open(o) /\ fence[o] = "none"
  /\ PinVma(o, CtxAspace,
            fence' = [fence EXCEPT ![o] = "queued"] /\ UNCHANGED <<uses, told>>)

(* msm_gem_unpin_active(), as the job starts, without the object's lock.   *)
JobRun(o) ==
  /\ fence[o] = "queued"
  /\ bo' = [bo EXCEPT ![o] = UpdateLruActive([bo[o] EXCEPT !.pin_count = @ - 1])]
  /\ fence' = [fence EXCEPT ![o] = "running"]
  /\ Steady /\ UNCHANGED <<mm, total_mem, uses, told>>

Retire(o) ==
  /\ fence[o] = "running"
  /\ fence' = [fence EXCEPT ![o] = "none"]
  /\ Steady /\ UNCHANGED <<bo, mm, total_mem, uses, told>>

-------------------------------------------------------------------------------
(* The shrinker walks the lists under memory pressure.                     *)

(* An object is picked from its list with a reference, then locked if      *)
(* nobody holds it: what the list said may be out of date by then.         *)
ShrinkPick(o) ==
  /\ shr = Nobody
  /\ bo[o].lru = "dontneed" \/ (bo[o].lru = "willneed" /\ dev.swap)
  /\ shr' = [obj |-> {o}, list |-> bo[o].lru]
  /\ UNCHANGED <<dev, bo, mm, total_mem, lock, fence, uses, told, want, oops>>

ShrinkLock(o) ==
  /\ o \in shr.obj \ lock
  /\ lock' = lock \cup {o}
  /\ UNCHANGED <<dev, bo, mm, total_mem, shr, fence, uses, told, want, oops>>

Purgeable(b) == b.madv = DONTNEED /\ b.sgt /\ ~b.imported /\ b.pin_count = 0
Evictable(b) == ~b.imported /\ b.pin_count = 0 /\ ~b.vaddr

(* Mutant: a running job is overlooked.                                    *)
Active_PinsOnly(o) == bo[o].pin_count > 0

(* msm_gem_active().                                                       *)
Active(o) == bo[o].pin_count > 0 \/ fence[o] # "none"

(* msm_gem_purge() and msm_gem_evict().                                    *)
Purged(o) ==
  LET b == [Vunmap(PutIovaSpaces(bo[o], TRUE)) EXCEPT !.pte = FALSE]
      r == PutPages(Result(TRUE, b, mm, total_mem))
  IN  [r EXCEPT !.b = [PutIovaVmas(@) EXCEPT !.madv = PURGED, !.data = FALSE]]

Evicted(o) ==
  PutPages(Result(TRUE, [PutIovaSpaces(bo[o], FALSE) EXCEPT !.pte = FALSE], mm, total_mem))

Unlock(o) == lock' = lock \ {o} /\ shr' = Nobody

(* Mutant: truncates the shmem file of an object that has none.            *)
Purge_AnyFile(o) ==
  LET dies == bo[o].vram_node # "null" IN
  /\ o \in shr.obj \cap lock /\ shr.list = "dontneed" /\ Purgeable(bo[o]) /\ ~Active(o)
  /\ Set(o, Purged(o))
  /\ lock' = IF dies THEN lock ELSE lock \ {o}
  /\ shr' = Nobody
  /\ oops' = (oops \/ dies)
  /\ UNCHANGED <<dev, fence, uses, told, want>>

Purge(o) ==
  /\ o \in shr.obj \cap lock /\ shr.list = "dontneed" /\ Purgeable(bo[o]) /\ ~Active(o)
  /\ Set(o, Purged(o)) /\ Unlock(o)
  /\ UNCHANGED <<dev, fence, uses, told, want, oops>>

Evict(o) ==
  /\ o \in shr.obj \cap lock /\ shr.list = "willneed" /\ Evictable(bo[o]) /\ ~Active(o)
  /\ Set(o, Evicted(o)) /\ Unlock(o)
  /\ UNCHANGED <<dev, fence, uses, told, want, oops>>

Spare(o) ==
  /\ o \in shr.obj \cap lock
  /\ \/ Active(o)
     \/ shr.list = "dontneed" /\ ~Purgeable(bo[o])
     \/ shr.list = "willneed" /\ ~Evictable(bo[o])
  /\ Unlock(o)
  /\ UNCHANGED <<dev, bo, mm, total_mem, fence, uses, told, want, oops>>

Shrink(o) == ShrinkLock(o) \/ Purge(o) \/ Evict(o) \/ Spare(o)

(* What the display, the GPU and the kernel do with an object.             *)
Use(o) ==
  \/ PinIova(o) \/ UnpinIova(o) \/ GetIova(o) \/ ClearIova(o)
  \/ GetVaddr(o, WILLNEED) \/ GetVaddrActive(o) \/ PutVaddr(o)
  \/ Submit(o) \/ JobRun(o) \/ Retire(o)

(* What happens to every object.                                           *)
Live(o) ==
  \/ \E scanout \in BOOLEAN : New(o, scanout)
  \/ Free(o) \/ Fault(o) \/ Munmap(o)
  \/ \E madv \in {WILLNEED, DONTNEED} : AskMadvise(o, madv)
  \/ Madvise(o)
  \/ ShrinkPick(o) \/ Shrink(o)

Next ==
  \/ \E o \in Objects : Live(o)
  \/ \E o \in Pinnable : Use(o) \/ Import(o)

(* The shrinker goes on with the object it has locked; a waiter for the    *)
(* lock of an object is handed it.                                         *)
Fairness == \A o \in Objects : WF_vars(Shrink(o)) /\ SF_vars(Madvise(o))

Spec == Init /\ [][Next]_vars /\ Fairness

-------------------------------------------------------------------------------
(* Every pin is a user's or a queued job's, and every kernel mapping a     *)
(* user's: whatever failed on the way, none is lost and none left over.    *)
PinsBalanced ==
  \A o \in Objects : bo[o].live =>
    /\ bo[o].pin_count = uses[o].iova + uses[o].vaddr + (IF fence[o] = "queued" THEN 1 ELSE 0)
    /\ bo[o].vmap_count = uses[o].vaddr

(* What is pinned or in a job's hands has its pages, although the job's    *)
(* pin is dropped without the lock that the shrinker holds.                *)
UsedBacked ==
  \A o \in Objects : bo[o].pin_count > 0 \/ fence[o] # "none" =>
    bo[o].pages /\ bo[o].madv # PURGED

(* The list an object is on tells the shrinker the truth: it finds all it  *)
(* may purge, and nothing without pages or with a pin.                     *)
LruTrue ==
  \A o \in Objects : LET b == bo[o] IN
    /\ b.live /\ b.pages /\ b.pin_count = 0 /\ b.madv = DONTNEED => b.lru = "dontneed" \/ b.imported
    /\ b.lru \in {"dontneed", "willneed"} => b.pages /\ b.pin_count = 0
    /\ b.pin_count > 0 => b.lru = "pinned"

(* No mapping, of an IOMMU, a process or the kernel, outlives the pages.   *)
NoStaleMapping ==
  \A o \in Objects : LET b == bo[o] IN
    b.pte \/ b.vaddr \/ b.vmas["kms"] = "mapped" \/ b.vmas["ctx"] = "mapped" => b.pages

(* The pages of the carve-out in use are those of the objects, one each,   *)
(* and the total counts the objects that have pages of their own.          *)
MemoryExact ==
  LET own == {o \in Objects : bo[o].pages /\ ~bo[o].imported}
      in_vram == {o \in own : bo[o].vram_node # "null"}
  IN  /\ mm = {bo[o].addr : o \in in_vram}
      /\ Cardinality(mm) = Cardinality(in_vram)
      /\ total_mem = Cardinality(own)

(* "iovas are currently valid for the life of the object": the address     *)
(* users were told is where the pages are.                                 *)
IovaValid ==
  \A o \in Objects : bo[o].pages /\ told[o] # NoSlot => bo[o].addr = told[o]

(* An object that its owner did not give up keeps its contents.            *)
WillNeedKept == \A o \in Objects : bo[o].madv = WILLNEED => bo[o].data

(* No thread dies on a missing file, a freed node or a missing table.      *)
NoOops == ~oops

(* Advice is taken in the end: no lock of an object is left behind.        *)
AdviceTaken == \A o \in Objects : want[o] # NoAdvice ~> want[o] = NoAdvice

(* Memory and those who use it agree: what is used or mapped has its pages, *)
(* where its users were told, the shrinker's lists and the books are true,  *)
(* and no thread dies over a mistake in them.                              *)
MemorySound ==
  TypeOK /\ UsedBacked /\ LruTrue /\ NoStaleMapping /\ MemoryExact /\ IovaValid /\ NoOops
==============================================================================
