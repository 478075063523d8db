-------------------------------- MODULE Vma --------------------------------
(***************************************************************************)
(* The memory of user processes: the regions of src/src/kernel/VMA.cpp,    *)
(* the page tables they are mapped in (src/src/arch/x86/paging.cpp) and    *)
(* the operations that change them: starting /init, fork, execve, sbrk and *)
(* the destruction of a task.                                              *)
(*                                                                         *)
(* A VMA belongs to one task and only that task (or, while it is not yet   *)
(* or no longer in the run queue, its parent or the freer) operates on it, *)
(* so an operation is one action.  Regions are measured in pages; the ends *)
(* of the heap area (brk) in bytes of PageSize to a page.  The frames that *)
(* get4k hands out are distinct (theorem of MemmanProofs) and not told     *)
(* apart: a page table entry records whether its frame still is this       *)
(* page's.  Frames of the page tables are left out; memory does not run    *)
(* out.                                                                    *)
(***************************************************************************)
EXTENDS Integers, Sequences, FiniteSets, FiniteSetsExt, SequencesExt, TLC

CONSTANTS
  Task,          \* user tasks
  PageSize,
  FirstPage,     \* 0x1000, the page where the first region begins
  SpaceLength,   \* the length of that region
  TrampolinePage,\* 0x5000
  TaskPointer,   \* TASK_POINTER
  StackPages,    \* TASK_SS
  BrkPage,       \* 0x100000000
  BrkPages,      \* kBrkSize
  SlackPages,    \* what sbrk leaves mapped beyond the end of the heap area
  Programs,      \* the PT_LOAD segments of the executables
  Increments,    \* arguments of sbrk
  MaxHeap,       \* bound: the size of the heap area in bytes
  MaxEnd,        \* bound: no sbrk once a region ends beyond this page
  None

(***************************************************************************)
(* The address space layout of the kernel: the pages below TASK_POINTER    *)
(* have room for the trampoline but not for the stack, and the linker puts *)
(* the segments, in ascending order, above the stack and below the heap.   *)
(***************************************************************************)
ASSUME VmaAssumption ==
  /\ 0 < FirstPage /\ FirstPage < TrampolinePage /\ TrampolinePage + 1 < TaskPointer
  /\ TaskPointer - FirstPage < StackPages
  /\ \A p \in Programs :
       \A i \in DOMAIN p :
         /\ p[i].vaddr >= IF i = 1 THEN TaskPointer + 1 + StackPages
                                   ELSE p[i - 1].vaddr + p[i - 1].pages
         /\ p[i].pages > 0
         /\ p[i].vaddr + p[i].pages <= BrkPage

VARIABLES
  vma,   \* of each live task: its VMA and the page table entries present,
         \* "held" or "stale" (the frame was given back to the manager)
  taken, \* frames that get4k has handed out for user memory
  hcf    \* an assertion failed and the machine is halted

vars == <<vma, taken, hcf>>

Live == {t \in Task : vma[t] # None}

-----------------------------------------------------------------------------
\* The i-th smallest element, and the elements in ascending order.
Nth(S, i) == CHOOSE x \in S : Cardinality({y \in S : y < x}) = i - 1

Ascending(S) == [i \in 1..Cardinality(S) |-> Nth(S, i)]

Erase(f, k) == [x \in DOMAIN f \ {k} |-> f[x]]

\* SkipListMap::upper_bound followed by --: the last key not above k.
Before(f, k) == Max({b \in DOMAIN f : b <= k})

\* SkipListMap::emplace keeps an entry that is already there, as @@ does.
Emplace(f, k, v) == f @@ (k :> v)

Free(length) == [type |-> "FREE", length |-> length]
Anon(length) == [type |-> "ANON", length |-> length]

Pages(begin, length) == begin..(begin + length - 1)

(***************************************************************************)
(* VMA::get_entry: a free region that has room, the one v_addr lies in if  *)
(* possible, else the first one; what is left of it on either side stays   *)
(* free.  The length of a region that is cut is reduced by v_addr -        *)
(* tmpFound.begin after tmpFound.begin has become v_addr, that is by 0.    *)
(***************************************************************************)
get_entry(regions, v_addr, length) ==
  LET Fits(b) == regions[b].length >= length /\ regions[b].type = "FREE"
      room    == {b \in DOMAIN regions : Fits(b)}
  IN  IF room = {} THEN [found |-> None, regions |-> regions]
      ELSE LET begin == IF v_addr # 0 /\ Fits(Before(regions, v_addr))
                        THEN Before(regions, v_addr) ELSE Min(room)
               tmp   == regions[begin]
               cut   == begin < v_addr /\ tmp.length > (v_addr - begin) + length
               found == IF cut THEN v_addr ELSE begin
               rest  == IF cut THEN Emplace(Erase(regions, begin), begin, Free(v_addr - begin))
                               ELSE Erase(regions, begin)
           IN  [found   |-> found,
                regions |-> Emplace(Emplace(rest, found + length, Free(tmp.length - length)),
                                    found, Anon(length))]

(***************************************************************************)
(* The operations below take and return the state m of an operation: the   *)
(* VMA v, the frames taken, the value returned and whether every assertion *)
(* held so far.                                                            *)
(***************************************************************************)
Asserted(m, cond) == [m EXCEPT !.ok = @ /\ cond]

\* AddressSpace::map of a fresh frame for each of the pages.
map(pte, pages) == [p \in pages |-> "held"] @@ pte

mmap_mem(m, v_addr, length) ==
  LET e == get_entry(m.v.regions, v_addr, length)
  IN  IF e.found = None THEN [m EXCEPT !.ret = None]
      ELSE [m EXCEPT !.v.regions = e.regions,
                     !.v.pte = map(@, Pages(e.found, length)),
                     !.taken = @ + length,
                     !.ret = e.found]

\* free4k(virt2real(page)) of each page: free4k asserts that the frame is in use.
Freed(m, pages) ==
  [m EXCEPT !.taken = @ - Cardinality(pages),
            !.v.pte = [p \in DOMAIN @ |-> IF p \in pages THEN "stale" ELSE @[p]],
            !.ok = @ /\ \A p \in pages : p \in DOMAIN m.v.pte /\ m.v.pte[p] = "held"]

\* Mutant of ReleasePages: the entries are cleared, the frames are not freed.
ReleasePagesLeak(m, pages) ==
  [m EXCEPT !.v.pte = [p \in DOMAIN @ \ pages |-> @[p]]]

\* The loop of munmap over pages: the frame is freed, then the page unmapped.
ReleasePages(m, pages) ==
  [Freed(m, pages) EXCEPT !.v.pte = [p \in DOMAIN @ \ pages |-> @[p]]]

\* The two merge loops of munmap: the free regions that follow, and that
\* precede, the free range r without a gap are taken into it.
RECURSIVE MergeNext(_, _)
MergeNext(regions, r) ==
  LET next == r.begin + r.length
  IN  IF next \in DOMAIN regions /\ regions[next].type = "FREE"
         /\ \A b \in DOMAIN regions : ~(r.begin < b /\ b < next)
      THEN MergeNext(Erase(regions, next), [r EXCEPT !.length = @ + regions[next].length])
      ELSE [regions |-> regions, r |-> r]

RECURSIVE MergePrevious(_, _)
MergePrevious(regions, r) ==
  LET prev == Before(regions, r.begin)
  IN  IF prev + regions[prev].length = r.begin /\ regions[prev].type = "FREE"
      THEN MergePrevious(Erase(regions, prev),
                         [begin |-> prev, length |-> r.length + regions[prev].length])
      ELSE [regions |-> regions, r |-> r]

(***************************************************************************)
(* One round of the loop of VMA::munmap, for the region cur lies in: it is *)
(* erased, its parts before cur and behind end are put back, the pages in  *)
(* between are released and become one free region with their free         *)
(* neighbours.  ret is the value of cur for the next round.                *)
(***************************************************************************)
munmapOne(m, cur, end, length) ==
  LET begin  == Before(m.v.regions, cur)
      old    == m.v.regions[begin]
      left   == IF begin < cur THEN Emplace(Erase(m.v.regions, begin), begin, [old EXCEPT !.length = cur - begin])
                               ELSE Erase(m.v.regions, begin)
      rest   == IF begin + old.length > end
                THEN Emplace(left, end, [old EXCEPT !.length = begin + old.length - end]) ELSE left
      size   == Min({old.length - (cur - begin), length})
      m2     == ReleasePages(m, Pages(cur, size))
      next   == MergeNext(rest, [begin |-> cur, length |-> size])
      merged == MergePrevious(next.regions, next.r)
  IN  IF old.type = "FREE" THEN [m EXCEPT !.ret = cur + old.length]
      ELSE [m2 EXCEPT !.v.regions = Emplace(merged.regions, merged.r.begin, Free(merged.r.length)),
                      !.ret = merged.r.begin + merged.r.length]

RECURSIVE munmapFrom(_, _, _, _)
munmapFrom(m, cur, end, length) ==
  IF cur >= end THEN m
  ELSE LET m2 == munmapOne(m, cur, end, length) IN munmapFrom(m2, m2.ret, end, length)

munmap(m, addr, length) == munmapFrom(m, addr, addr + length, length)

AnonPages(v) ==
  UNION {Pages(b, v.regions[b].length) : b \in {b \in DOMAIN v.regions : v.regions[b].type = "ANON"}}

\* VMA::~VMA: the frames of all anonymous regions are freed, nothing is unmapped.
Destroyed(m) == Freed(m, AnonPages(m.v))

\* VMA::VMA, in an address space with the given page table entries.
NewVma(pte) ==
  [regions |-> FirstPage :> Free(SpaceLength), pte |-> pte,
   brk_start |-> None, brk_end_fake |-> None, brk_end_real |-> None]

\* Mutant of user_setup: the stack is mapped before the task pointer page.
user_setupStackFirst(m) ==
  LET m2 == mmap_mem(mmap_mem(m, 0, StackPages), TaskPointer, 1)
  IN  Asserted(m2, m2.ret = TaskPointer)

\* Task::user_setup and Task::user_reset, as far as memory is concerned: the
\* task pointer page, which must be where it belongs, and the user stack.
user_setup(m) ==
  LET m2 == mmap_mem(m, TaskPointer, 1)
  IN  mmap_mem(Asserted(m2, m2.ret = TaskPointer), 0, StackPages)

\* ElfParser::copy_to; both its callers assert that it succeeds.
copy_to(m, program) ==
  LET Load(m1, seg) == LET m2 == mmap_mem(m1, seg.vaddr, seg.pages)
                       IN  Asserted(m2, m2.ret = seg.vaddr)
  IN  FoldLeft(Load, m, program)

\* Mutant of clone_from: the heap area is left to the first sbrk of the child.
clone_fromNoBrk(m, parent) ==
  LET begins == Ascending({b \in DOMAIN parent.regions : parent.regions[b].type = "ANON"})
      Copy(m1, b) == IF b \in DOMAIN m1.v.regions /\ m1.v.regions[b].type # "FREE"
                     THEN m1 ELSE mmap_mem(m1, b, parent.regions[b].length)
  IN  FoldLeft(Copy, m, begins)

(***************************************************************************)
(* VMA::clone_from: a region for each anonymous region of the parent, at   *)
(* the same address, and the heap area of the parent.                      *)
(***************************************************************************)
clone_from(m, parent) ==
  LET begins == Ascending({b \in DOMAIN parent.regions : parent.regions[b].type = "ANON"})
      Copy(m1, b) ==
        IF b \in DOMAIN m1.v.regions /\ m1.v.regions[b].type # "FREE"
        THEN Asserted(m1, m1.v.regions[b].length = parent.regions[b].length)
        ELSE LET m2 == mmap_mem(m1, b, parent.regions[b].length) IN Asserted(m2, m2.ret = b)
      m3 == FoldLeft(Copy, m, begins)
  IN  [m3 EXCEPT !.v.brk_start = parent.brk_start, !.v.brk_end_fake = parent.brk_end_fake,
                 !.v.brk_end_real = parent.brk_end_real]

RoundUp(bytes) == (bytes + PageSize - 1) \div PageSize

\* Mutant of sbrkFrom: the end of the mapped heap is not moved when it shrinks.
sbrkFromStaleEnd(m, brk) ==
  LET v    == m.v
      goal == v.brk_end_fake + brk
      diff == RoundUp(goal - v.brk_end_real)
      grow == mmap_mem(m, v.brk_end_real \div PageSize, diff)
  IN  CASE goal > v.brk_end_real ->
             [grow EXCEPT !.v.brk_end_real = v.brk_end_real + diff * PageSize, !.v.brk_end_fake = goal]
        [] goal <= v.brk_end_real /\ v.brk_end_real - goal > SlackPages * PageSize ->
             [munmap(m, RoundUp(goal), v.brk_end_real \div PageSize - RoundUp(goal)) EXCEPT
                !.v.brk_end_fake = goal]
        [] OTHER -> [m EXCEPT !.v.brk_end_fake = goal]

\* syscall_sbrk once the heap area exists: it grows, shrinks or has room enough.
sbrkFrom(m, brk) ==
  LET v    == m.v
      goal == v.brk_end_fake + brk
      diff == RoundUp(goal - v.brk_end_real)
      grow == mmap_mem(m, v.brk_end_real \div PageSize, diff)
  IN  CASE goal > v.brk_end_real /\ grow.ret * PageSize = v.brk_end_real ->
             [grow EXCEPT !.v.brk_end_real = (grow.ret + diff) * PageSize, !.v.brk_end_fake = goal]
        [] goal > v.brk_end_real /\ grow.ret * PageSize # v.brk_end_real ->
             munmap(grow, grow.ret, diff)
        [] goal <= v.brk_end_real /\ v.brk_end_real - goal > SlackPages * PageSize ->
             [munmap(m, RoundUp(goal), v.brk_end_real \div PageSize - RoundUp(goal)) EXCEPT
                !.v.brk_end_real = RoundUp(goal) * PageSize, !.v.brk_end_fake = goal]
        [] OTHER -> [m EXCEPT !.v.brk_end_fake = goal]

\* The first sbrk maps the heap area.
heap_area(m) ==
  LET m2    == mmap_mem(m, BrkPage, BrkPages)
      start == m2.ret * PageSize
  IN  IF m.v.brk_start # None THEN m
      ELSE [m2 EXCEPT !.v.brk_start = start, !.v.brk_end_fake = start,
                      !.v.brk_end_real = start + BrkPages * PageSize]

-----------------------------------------------------------------------------
Operation(v) == [v |-> v, taken |-> taken, ret |-> None, ok |-> TRUE]

\* The state after the operation m of task t; a failed assertion halts the machine.
Done(t, m) ==
  /\ vma' = [vma EXCEPT ![t] = m.v]
  /\ taken' = m.taken
  /\ hcf' = ~m.ok

\* syscall_fork: Task::clone into a task that is not in use.
Fork(t, child) ==
  /\ vma[t] # None
  /\ vma[child] = None
  /\ Done(child, clone_from(user_setup(Operation(NewVma(<<>>))), vma[t]))

\* syscall_execve of an executable: Task::user_reset replaces the VMA but keeps
\* the page tables, then the segments and the trampoline are mapped.
Execve(t, program) ==
  /\ vma[t] # None
  /\ LET old   == Destroyed(Operation(vma[t]))
         reset == [old EXCEPT !.v = NewVma(old.v.pte)]
         m     == copy_to(user_setup(reset), program)
     IN  Done(t, mmap_mem(m, TrampolinePage, 1))

\* syscall_sbrk.  The C library never gives back more than it got.
Sbrk(t, brk) ==
  /\ vma[t] # None
  /\ \A b \in DOMAIN vma[t].regions : b + vma[t].regions[b].length <= MaxEnd
  /\ LET m == heap_area(Operation(vma[t]))
     IN  /\ m.v.brk_end_fake + brk \in m.v.brk_start..(m.v.brk_start + MaxHeap)
         /\ Done(t, sbrkFrom(m, brk))

\* The freer destroys the task: first its VMA, then its page tables.
Destroy(t) ==
  /\ vma[t] # None
  /\ Done(t, [Destroyed(Operation(vma[t])) EXCEPT !.v = None])

\* ktask_main: user memory is empty but for the task it creates for /init.
Init ==
  \E t \in Task, program \in Programs :
    LET new == [v |-> NewVma(<<>>), taken |-> 0, ret |-> None, ok |-> TRUE]
        m   == copy_to(user_setup(new), program)
    IN  /\ vma = [u \in Task |-> IF u = t THEN m.v ELSE None]
        /\ taken = m.taken
        /\ hcf = ~m.ok

Next ==
  /\ ~hcf
  /\ \E t \in Task :
       \/ \E program \in Programs : Execve(t, program)
       \/ \E child \in Task : Fork(t, child)
       \/ \E brk \in Increments : Sbrk(t, brk)
       \/ Destroy(t)

Spec == Init /\ [][Next]_vars

-----------------------------------------------------------------------------
\* Type invariant.
TypeOK ==
  /\ hcf \in BOOLEAN
  /\ taken \in Nat
  /\ \A t \in Live :
       /\ \A b \in DOMAIN vma[t].regions :
            b \in Nat /\ vma[t].regions[b].length \in Nat /\ vma[t].regions[b].type \in {"FREE", "ANON"}
       /\ Range(vma[t].pte) \subseteq {"held", "stale"}

(* The assertions of user_setup, user_reset, clone_from, unmap and of the
   callers of copy_to never fail: whatever a process did to its heap area, it
   can fork and execute another program. *)
NoPanic == TypeOK /\ ~hcf

(* No memory is handed out twice: get_entry never puts an anonymous region over
   another one, although the free regions it keeps may reach into them.  Every
   page of an anonymous region has a frame of its own, and no other frame
   is taken: mmap_mem, munmap, fork, execve and the end of a process neither
   lose a frame nor leave a region with one that was given back. *)
FramesAccounted ==
  /\ \A t \in Live :
       LET anon == {b \in DOMAIN vma[t].regions : vma[t].regions[b].type = "ANON"}
       IN  \A a, b \in anon : a < b => a + vma[t].regions[a].length <= b
  /\ \A t \in Live : \A p \in AnonPages(vma[t]) : p \in DOMAIN vma[t].pte /\ vma[t].pte[p] = "held"
  /\ taken = MapThenSumSet(LAMBDA t : Cardinality(AnonPages(vma[t])), Live)

(* The memory between brk_start and the end of the heap that sbrk reported is
   mapped, and at most the slack (and the rest of a page) beyond it. *)
HeapMapped ==
  \A t \in Live :
    LET v == vma[t]
    IN  v.brk_start # None =>
          /\ v.brk_start <= v.brk_end_fake /\ v.brk_end_fake <= v.brk_end_real
          /\ v.brk_end_real - v.brk_end_fake <= SlackPages * PageSize
          /\ \A p \in AnonPages(v) : p >= BrkPage => p * PageSize < v.brk_end_real
          /\ Pages(v.brk_start \div PageSize, (v.brk_end_real - v.brk_start) \div PageSize)
               \subseteq AnonPages(v)

(* A child has memory at exactly the addresses its parent has, and the same
   heap area: what clone_from builds region by region has the shape of what the
   parent built by another sequence of calls. *)
ForkCopies ==
  [][\A t, child \in Task :
       Fork(t, child) =>
         /\ AnonPages(vma'[child]) = AnonPages(vma[t])
         /\ vma'[child].brk_end_real = vma[t].brk_end_real
         /\ vma'[child].brk_end_fake = vma[t].brk_end_fake]_vars
=============================================================================
