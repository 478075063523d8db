-------------------------------- MODULE Kmem --------------------------------
(***************************************************************************)
(* The kernel heap of src/src/arch/x86/kmem.cpp: block headers in one      *)
(* contiguous area that grows and shrinks by pages, the free blocks in a   *)
(* doubly linked list.  The bodies of kmalloc and kfree run under          *)
(* kmem_lock, so each of them is one action; the accounting at the end of  *)
(* kmalloc and the steps of krealloc are not under the lock.               *)
(*                                                                         *)
(* Addresses are offsets from KERN_HeapVirtBegin.  A heap h is a record:   *)
(* its headers (ent), KERN_HeapBegin, KERN_HeapEnd, the bytes of allocated *)
(* pages, and the first assertion that failed or null pointer that was     *)
(* used on the way (err).                                                  *)
(***************************************************************************)
EXTENDS Integers, FiniteSets, FiniteSetsExt, Functions, TLC

CONSTANTS
  Task,      \* tasks that use the heap
  Sizes,     \* numbers of bytes they ask for
  Align,     \* 16
  Header,    \* sizeof(struct HeapEntry), 32
  PageSize,  \* 4096
  PhysPages, \* pages get4k can hand to the heap
  NULL

ASSUME KmemAssumption ==
  /\ Sizes \subseteq Nat
  /\ Align \in Nat \ {0} /\ Header \in Nat \ {0} /\ Header % Align = 0
  /\ PageSize \in Nat /\ PageSize > Header /\ PageSize % Align = 0
  /\ PhysPages \in Nat \ {0}
  /\ NULL \notin Int

VARIABLES
  heap,  \* the heap
  used,  \* bytes in blocks handed out
  live,  \* blocks that belong to some task: address |-> bytes asked for
  op     \* the kmalloc or krealloc a task is in

vars == <<heap, used, live, op>>

Idle == [pc |-> "idle", res |-> NULL, old |-> NULL, n |-> 0]

\* The first failure halts the machine; nothing later counts.
Assert2(h, cond, what) == IF h.err = "" /\ ~cond THEN [h EXCEPT !.err = what] ELSE h

Without(f, x) == Restrict(f, DOMAIN f \ {x})

IsFree(h, a) == a \in DOMAIN h.ent /\ h.ent[a].free

\* a->f = v, if a is not NULL.
SetNext(h, a, v) == IF a = NULL THEN h ELSE [h EXCEPT !.ent[a].next = v]
SetPrev(h, a, v) == IF a = NULL THEN h ELSE [h EXCEPT !.ent[a].prev = v]

NewEntry(h, a, len, next, prev) ==
  [h EXCEPT !.ent = (a :> [len |-> len, free |-> TRUE, next |-> next, prev |-> prev]) @@ @]

\* The first byte after block a.
After(h, a) == a + Header + h.ent[a].len

-----------------------------------------------------------------------------
\* Mutant of ExtendHeap: allocated is not updated.
ExtendHeapUncounted(h, n_pages) ==
  Assert2([h EXCEPT !.end = @ + n_pages * PageSize],
          h.end + n_pages * PageSize <= PhysPages * PageSize, "Kernel out of memory!")

ExtendHeap(h, n_pages) ==
  Assert2([h EXCEPT !.end = @ + n_pages * PageSize, !.allocated = @ + n_pages * PageSize],
          h.end + n_pages * PageSize <= PhysPages * PageSize, "Kernel out of memory!")

\* Cut block a after n bytes; the rest becomes a free block at a + Header + n.
SplitEntry(h, a, n) ==
  LET new == a + Header + n
      e   == h.ent[a]
      h1  == NewEntry(h, new, e.len - n - Header, e.next, a)
      h2  == SetPrev([h1 EXCEPT !.ent[a].len = n], e.next, new)
  IN  IF e.len > n + Header THEN SetNext(h2, a, new)
      ELSE Assert2(h, FALSE, "Trying to split a heap entry that's too small!")

\* The loop of kmalloc: the first entry that fits, or NULL, and the one before.
RECURSIVE FirstFit(_, _, _, _)
FirstFit(h, prev, entry, n) ==
  LET e == h.ent[entry] IN
  IF entry = NULL THEN [h |-> h, prev |-> prev, entry |-> NULL]
  ELSE IF ~IsFree(h, entry) \/ (prev # NULL /\ e.prev # prev)
  THEN [h |-> Assert2(h, FALSE, "Bad heap!"), prev |-> prev, entry |-> NULL]
  ELSE IF e.len = n \/ e.len > n + Header
  THEN [h |-> h, prev |-> prev, entry |-> entry]
  ELSE FirstFit(h, entry, e.next, n)

\* The block fits exactly and leaves the list; the list may not become empty.
TakeExact(h, prev, a) ==
  LET next == h.ent[a].next
      h1   == ExtendHeap([h EXCEPT !.begin = h.end], 1)
  IN  IF prev # NULL THEN SetPrev(SetNext(h, prev, next), next, prev)
      ELSE IF next # NULL THEN SetPrev([h EXCEPT !.begin = next], next, NULL)
      ELSE NewEntry(h1, h.end, PageSize - Header, NULL, NULL)

\* Mutant of TakeSplit: the rest does not point back to its predecessor.
TakeSplitNoPrev(h, prev, a, n) ==
  LET h1  == SplitEntry(h, a, n)
      new == a + Header + n
  IN  IF prev # NULL THEN SetNext(h1, prev, new)
      ELSE SetPrev([h1 EXCEPT !.begin = new], new, NULL)

\* The block is too large; the rest takes its place in the list.
TakeSplit(h, prev, a, n) ==
  LET h1  == SplitEntry(h, a, n)
      new == a + Header + n
  IN  IF prev # NULL THEN SetPrev(SetNext(h1, prev, new), new, prev)
      ELSE SetPrev([h1 EXCEPT !.begin = new], new, NULL)

PagesFor(bytes) == (bytes + PageSize - 1) \div PageSize

\* Mutant of TakeNew: the pages hold one header only.
TakeNewOneHeader(h, last, n) ==
  LET a     == h.end
      pages == PagesFor(n + Header)
      h1    == NewEntry(ExtendHeap(h, pages), a, pages * PageSize - Header, NULL, last)
      h2    == SplitEntry(h1, a, n)
      new   == a + Header + n
  IN  IF h2.err # "" THEN h2 ELSE SetPrev(SetNext(h2, last, new), new, last)

\* No block fits: new pages at the end, cut to size, the rest ends the list.
\* The pages hold two headers, so the new block is always longer than n.
TakeNew(h, last, n) ==
  LET a     == h.end
      pages == PagesFor(n + 2 * Header)
      h1    == NewEntry(ExtendHeap(h, pages), a, pages * PageSize - Header, NULL, last)
      h2    == SplitEntry(h1, a, n)
      new   == a + Header + n
  IN  IF h2.err # "" THEN h2 ELSE SetPrev(SetNext(h2, last, new), new, last)

\* Mutant of RoundUp: the low bits are cut off.
RoundDown(n) == (n \div Align) * Align

RoundUp(n) == ((n + Align - 1) \div Align) * Align

\* The critical section of kmalloc, for n already rounded up.
Allocate(h, n) ==
  LET f    == FirstFit(h, NULL, h.begin, n)
      a    == IF f.entry = NULL THEN h.end ELSE f.entry
      h1   == IF f.h.err # "" THEN f.h
              ELSE IF f.entry = NULL THEN TakeNew(h, f.prev, n)
              ELSE IF h.ent[a].len = n THEN TakeExact(h, f.prev, a)
              ELSE TakeSplit(h, f.prev, a, n)
  IN  IF h1.err # "" THEN [h |-> h1, res |-> NULL]
      ELSE [h   |-> [h1 EXCEPT !.ent[a] = [len |-> @.len, free |-> FALSE,
                                           next |-> NULL, prev |-> NULL]],
            res |-> a]

-----------------------------------------------------------------------------
\* Mutant of MergeOne: no branch looks whether there is a next element.
MergeOneUnguarded(h, a, next) ==
  LET n  == h.ent[next]
      h1 == Assert2(h, n.next # NULL, "nextEntry->next is NULL")
      h2 == IF next = h.ent[a].next
            THEN SetNext(SetPrev(h1, n.next, a), a, n.next)
            ELSE SetNext(SetPrev(h1, n.next, n.prev), n.prev, n.next)
  IN  [h2 EXCEPT !.ent = Without([@ EXCEPT ![a].len = @ + Header + n.len], next)]

\* One iteration of try_merge_fwd, on the header next that follows block a.
MergeOne(h, a, next) ==
  LET n  == h.ent[next]
      h1 == Assert2(h, /\ n.prev # NULL => IsFree(h, n.prev)
                       /\ n.next # NULL => IsFree(h, n.next), "Bad merge!")
      h2 == IF next = h.ent[a].next
            THEN Assert2(SetNext(SetPrev(h1, n.next, a), a, n.next),
                         n.next # NULL, "nextEntry->next is NULL")
            ELSE Assert2(SetNext(SetPrev(h1, n.next, n.prev), n.prev, n.next),
                         n.prev # NULL, "Bad merge!")
  IN  [h2 EXCEPT !.ent = Without([@ EXCEPT ![a].len = @ + Header + n.len], next)]

RECURSIVE TryMergeFwd(_, _)
TryMergeFwd(h, a) ==
  LET next == After(h, a) IN
  IF h.err = "" /\ next < h.end /\ IsFree(h, next)
  THEN TryMergeFwd(MergeOne(h, a, next), a)
  ELSE h

\* Give the pages of the block at the end back; begin becomes what remains.
TryShrinkHeap(h, a) ==
  LET diff    == PageSize - (a % PageSize)
      pad     == (IF diff <= Header THEN diff + PageSize ELSE diff) - Header
      aligned == a % PageSize = 0
      last    == IF aligned THEN a ELSE a + Header + pad
      h1      == IF aligned THEN h ELSE SplitEntry(h, a, pad)
      ret     == IF aligned THEN h.ent[a].next ELSE a
      next    == h1.ent[last].next
      h2      == IF aligned
                 THEN Assert2(SetPrev(h1, ret, NULL), ret # NULL, "KERN_HeapBegin is NULL")
                 ELSE SetPrev(SetNext(h1, a, next), next, a)
      total   == h1.ent[last].len + Header
  IN  IF After(h, a) # h.end \/ h.ent[a].len + Header < PageSize * 3
      THEN [h EXCEPT !.begin = a]
      ELSE Assert2([h2 EXCEPT !.begin = ret, !.end = last, !.allocated = @ - total,
                              !.ent = Without(@, last)],
                   last % PageSize = 0 /\ total % PageSize = 0, "Bad shrink!")

\* The critical section of kfree.
Release(h, a) ==
  LET ok == /\ ~h.ent[a].free /\ h.ent[a].next = NULL /\ h.ent[a].prev = NULL
            /\ IsFree(h, h.begin) /\ h.ent[h.begin].prev = NULL
      h1 == [h EXCEPT !.ent[a] = [len |-> @.len, free |-> TRUE, next |-> h.begin, prev |-> NULL],
                      !.ent[h.begin].prev = a, !.begin = a]
      h2 == TryMergeFwd(h1, a)
  IN  IF ~ok THEN Assert2(h, FALSE, "Bad free!")
      ELSE IF h2.err # "" THEN h2
      ELSE TryShrinkHeap(Assert2(h2, h2.ent[a].prev = NULL, "Bad free!"), a)

-----------------------------------------------------------------------------
\* kmalloc up to the release of kmem_lock; old is the block of a krealloc.
EnterMalloc(t, n, old) ==
  LET r == Allocate(heap, RoundUp(n)) IN
  /\ op[t] = Idle
  /\ heap' = r.h
  /\ op' = [op EXCEPT ![t] = [pc |-> "account", res |-> r.res, old |-> old, n |-> n]]
  /\ UNCHANGED used

kmalloc(t, n) == EnterMalloc(t, n, NULL) /\ UNCHANGED live

\* krealloc takes the block from its owner until it is done.
krealloc(t, a, n) ==
  /\ EnterMalloc(t, n, a)
  /\ live' = Without(live, a)

\* The end of kmalloc; krealloc copies the block and goes on to kfree.
Account(t) ==
  LET o == op[t] IN
  /\ o.pc = "account"
  /\ used' = used + RoundUp(o.n)
  /\ IF o.old = NULL
     THEN live' = (o.res :> o.n) @@ live /\ op' = [op EXCEPT ![t] = Idle]
     ELSE op' = [op EXCEPT ![t].pc = "free"] /\ UNCHANGED live
  /\ UNCHANGED heap

kfree(t, a) ==
  /\ op[t] = Idle
  /\ heap' = Release(heap, a)
  /\ used' = used - heap.ent[a].len
  /\ live' = Without(live, a)
  /\ UNCHANGED op

\* The kfree at the end of krealloc.
KreallocFree(t) ==
  LET o == op[t] IN
  /\ o.pc = "free"
  /\ heap' = Release(heap, o.old)
  /\ used' = used - heap.ent[o.old].len
  /\ live' = (o.res :> o.n) @@ live
  /\ op' = [op EXCEPT ![t] = Idle]

\* init_kern_heap: one page, one free block.
Init ==
  /\ heap = [ent |-> 0 :> [len |-> PageSize - Header, free |-> TRUE, next |-> NULL, prev |-> NULL],
             begin |-> 0, end |-> PageSize, allocated |-> PageSize, err |-> ""]
  /\ used = 0
  /\ live = <<>>
  /\ op = [t \in Task |-> Idle]

Next ==
  /\ heap.err = ""
  /\ \E t \in Task :
       \/ \E n \in Sizes : kmalloc(t, n)
       \/ \E a \in DOMAIN live : kfree(t, a) \/ \E n \in Sizes : krealloc(t, a, n)
       \/ Account(t)
       \/ KreallocFree(t)

Spec == Init /\ [][Next]_vars

-----------------------------------------------------------------------------
TypeOK ==
  /\ DOMAIN heap.ent \subseteq Nat
  /\ \A a \in DOMAIN heap.ent :
       heap.ent[a] \in [len : Nat, free : BOOLEAN, next : Nat \cup {NULL}, prev : Nat \cup {NULL}]
  /\ heap.begin \in Nat /\ heap.end \in Nat /\ heap.allocated \in Nat
  /\ used \in Nat
  /\ \A t \in Task : op[t].pc \in {"idle", "account", "free"}

Running == heap.err = ""

\* The blocks that following next from a reaches.
RECURSIVE Reach(_, _)
Reach(a, seen) ==
  IF a = NULL \/ a \in seen THEN seen ELSE Reach(heap.ent[a].next, seen \cup {a})

\* The headers tile the heap: every block ends where the next one, or the
\* heap, begins, so no byte belongs to two blocks and none is lost, whatever
\* was split, merged, added and given back.  The list that starts at
\* KERN_HeapBegin is doubly linked and has every free block once (kmalloc,
\* try_merge_fwd, try_shrink_heap).
HeapLinked ==
  Running =>
    LET free == {a \in DOMAIN heap.ent : heap.ent[a].free} IN
    /\ {0} \cup {After(heap, a) : a \in DOMAIN heap.ent} = DOMAIN heap.ent \cup {heap.end}
    /\ \A a, b \in DOMAIN heap.ent : a < b => After(heap, a) <= b
    /\ Reach(heap.begin, {}) = free
    /\ heap.ent[heap.begin].prev = NULL
    /\ \A a \in free : LET n == heap.ent[a].next IN n # NULL => heap.ent[n].prev = a

\* The blocks the operations have in hand.
InHand == {op[t].res : t \in Task} \cup {op[t].old : t \in Task}

\* A block keeps the size its owner asked for until it is freed, whatever
\* others allocate and free, and no block is lost: the blocks taken are those
\* of the owners and of the operations in progress (kmalloc, kfree, krealloc).
BlocksKept ==
  Running =>
    /\ {a \in DOMAIN heap.ent : ~heap.ent[a].free} = DOMAIN live \cup (InHand \ {NULL})
    /\ \A a \in DOMAIN live : heap.ent[a].len >= live[a]
    /\ \A t \in Task : op[t].res # NULL => heap.ent[op[t].res].len >= op[t].n

\* get_heap_used and get_heap_allocated: used lags behind by the allocations
\* in progress and is never below zero, allocated is the size of the heap.
HeapCounted ==
  Running =>
    LET taken == {a \in DOMAIN heap.ent : ~heap.ent[a].free}
        late  == {t \in Task : op[t].pc = "account"}
    IN  /\ used + MapThenSumSet(LAMBDA t : RoundUp(op[t].n), late)
             = MapThenSumSet(LAMBDA a : heap.ent[a].len, taken)
        /\ heap.allocated = heap.end

\* The consistency checks of the heap never fire: "Bad heap!", "Bad free!",
\* "Bad merge!", the checks of try_shrink_heap, and KERN_HeapBegin is never
\* NULL after a kfree.  The assertion of split_entry fails for no request but
\* one that fills whole pages up to two headers: kmalloc then cuts new pages
\* that have no room for the rest's header.
HeapConsistent ==
  /\ TypeOK
  /\ heap.err \notin {"Bad heap!", "Bad free!", "Bad merge!", "Bad shrink!", "KERN_HeapBegin is NULL"}
  /\ heap.err = "Trying to split a heap entry that's too small!" =>
       \E t \in Task : /\ op[t].pc = "account" /\ op[t].res = NULL
                        /\ (RoundUp(op[t].n) + 2 * Header) % PageSize = 0

\* try_merge_fwd writes through the null link of the last free block exactly
\* when all free blocks follow the block being freed, with no other block
\* between (the branch nextEntry == entry->next, without "if (nextEntry->next)").
MergesFollowLinks ==
  [][LET free == {a \in DOMAIN heap.ent : heap.ent[a].free}
         freed == {a \in DOMAIN heap.ent \ free : IsFree(heap', a)}
         Behind(a) == \A b \in free : /\ a < b
                                      /\ \A c \in DOMAIN heap.ent : a < c /\ c < b => c \in free
     IN  \A a \in freed : heap'.err = "nextEntry->next is NULL" <=> Behind(a)]_vars
=============================================================================
