------------------------------- MODULE Memman -------------------------------
(***************************************************************************)
(* The physical memory manager of src/src/arch/x86/memman.cpp: a bitmap    *)
(* with the status of every page, a hint below which no page is free, and  *)
(* the amount of free memory.  At boot (boot.cpp) it reads the usable      *)
(* ranges of the boot loader's memory map, is used, then reads the         *)
(* reclaimable ranges; from then on get4k and free4k run one at a time     *)
(* under memman_lock.                                                      *)
(***************************************************************************)
EXTENDS Integers, Sequences, FiniteSets

CONSTANTS
  PageSize,  \* 4096
  MAX_PID,   \* number of pages the bitmap has room for
  MemMap,    \* the boot loader's memory map
  NULL

Usable      == "LIMINE_MEMMAP_USABLE"
Reclaimable == "LIMINE_MEMMAP_BOOTLOADER_RECLAIMABLE"

EntryType == [type : {Usable, Reclaimable, "other"}, base : Nat, length : Nat]

roundup4k(addr) ==
  IF addr % PageSize = 0 THEN addr ELSE ((addr + PageSize) \div PageSize) * PageSize

rounddown4k(addr) == (addr \div PageSize) * PageSize

\* First page of an entry, and the page past its last one.
pid(e) == roundup4k(e.base) \div PageSize

pidend(e) ==
  LET roundbase == roundup4k(e.base)
      len       == rounddown4k(e.length - (roundbase - e.base))
      end       == (roundbase + len) \div PageSize
  IN  IF end >= MAX_PID THEN MAX_PID - 1 ELSE end

\* The three "continue" of parse_limine_memmap: no whole page in the entry.
Skipped(e) ==
  \/ roundup4k(e.base) >= e.base + e.length
  \/ rounddown4k(e.length - (roundup4k(e.base) - e.base)) = 0

Pages(e) == IF Skipped(e) THEN {} ELSE pid(e)..(pidend(e) - 1)

(***************************************************************************)
(* What the Limine protocol guarantees of the ranges the kernel uses: page *)
(* 0 is not in them and they do not overlap.  Of the machine: no range     *)
(* starts beyond the 32 GiB the bitmap covers.                             *)
(***************************************************************************)
ASSUME MemmanAssumption ==
  /\ PageSize \in Nat \ {0}
  /\ MAX_PID \in Nat \ {0}
  /\ MemMap \in Seq(EntryType)
  /\ \A i \in DOMAIN MemMap :
       MemMap[i].type # "other" =>
         /\ ~Skipped(MemMap[i]) => 0 < pid(MemMap[i]) /\ pid(MemMap[i]) <= pidend(MemMap[i])
         /\ \A j \in DOMAIN MemMap :
              i # j /\ MemMap[j].type # "other" => Pages(MemMap[i]) \cap Pages(MemMap[j]) = {}
  /\ NULL \notin Nat

VARIABLES
  sts,       \* used_bitmap, as getSts reads it
  minPid, maxPid, totalMem,
  phase,     \* "usable", "early", "reclaimable", "run"
  idx,       \* the loop variable of parse_limine_memmap
  ret        \* what the last get4k returned

vars == <<sts, minPid, maxPid, totalMem, phase, idx, ret>>

FreePids == {p \in DOMAIN sts : sts[p] = "FREE"}
UsedPids == {p \in DOMAIN sts : sts[p] = "USED"}

-----------------------------------------------------------------------------
\* One iteration of the loop of parse_limine_memmap(entries, num, what).
ParseEntry(what) ==
  LET e == MemMap[idx] IN
  /\ idx \in DOMAIN MemMap
  /\ idx' = idx + 1
  /\ IF e.type # what \/ Skipped(e)
     THEN UNCHANGED <<sts, minPid, maxPid, totalMem>>
     ELSE /\ minPid' = IF minPid = 0 \/ pid(e) < minPid THEN pid(e) ELSE minPid
          /\ sts' = [p \in DOMAIN sts |->
                       IF p \in Pages(e) /\ sts[p] # "USED" THEN "FREE" ELSE sts[p]]
          /\ totalMem' = totalMem + (pidend(e) - pid(e)) * 4
          /\ maxPid' = IF pidend(e) > maxPid THEN pidend(e) ELSE maxPid
  /\ UNCHANGED <<phase, ret>>

\* _start parses the usable memory, real_start the reclaimable one.
EndParse(next) ==
  /\ idx \notin DOMAIN MemMap
  /\ idx' = 1
  /\ phase' = next
  /\ UNCHANGED <<sts, minPid, maxPid, totalMem, ret>>

\* Where the loop of get4k stops.
curPid ==
  CHOOSE p \in minPid..maxPid :
    /\ p = maxPid \/ sts[p] = "FREE"
    /\ \A q \in minPid..(p - 1) : sts[q] # "FREE"

\* Mutant of get4k: totalMem is not updated.
get4kUncounted ==
  /\ minPid' = IF curPid = minPid THEN minPid ELSE curPid - 1
  /\ IF totalMem = 0 \/ curPid >= maxPid
     THEN ret' = NULL /\ UNCHANGED <<sts, totalMem>>
     ELSE /\ sts' = [sts EXCEPT ![curPid] = "USED"]
          /\ ret' = curPid
          /\ UNCHANGED totalMem
  /\ UNCHANGED <<maxPid, phase, idx>>

get4k ==
  /\ IF totalMem = 0
     THEN ret' = NULL /\ UNCHANGED <<sts, minPid, totalMem>>
     ELSE /\ minPid' = IF curPid = minPid THEN minPid ELSE curPid - 1
          /\ IF curPid >= maxPid
             THEN ret' = NULL /\ UNCHANGED <<sts, totalMem>>
             ELSE /\ totalMem' = totalMem - 4
                  /\ sts' = [sts EXCEPT ![curPid] = "USED"]
                  /\ ret' = curPid
  /\ UNCHANGED <<maxPid, phase, idx>>

\* Mutant of free4k: the hint is not moved down.
free4kNoHint(p) ==
  /\ sts' = [sts EXCEPT ![p] = "FREE"]
  /\ totalMem' = totalMem + 4
  /\ UNCHANGED <<minPid, maxPid, phase, idx, ret>>

\* free4k of a page obtained from get4k and not freed since.
free4k(p) ==
  /\ sts' = [sts EXCEPT ![p] = "FREE"]
  /\ totalMem' = totalMem + 4
  /\ minPid' = IF minPid > p THEN p ELSE minPid
  /\ UNCHANGED <<maxPid, phase, idx, ret>>

Init ==
  /\ sts = [p \in 0..(MAX_PID - 1) |-> "RESERVED"]
  /\ minPid = 0 /\ maxPid = 0 /\ totalMem = 0
  /\ phase = "usable" /\ idx = 1
  /\ ret = NULL

Parse ==
  \/ phase = "usable" /\ (ParseEntry(Usable) \/ EndParse("early"))
  \/ phase = "early" /\ phase' = "reclaimable"
       /\ UNCHANGED <<sts, minPid, maxPid, totalMem, idx, ret>>
  \/ phase = "reclaimable" /\ (ParseEntry(Reclaimable) \/ EndParse("run"))

Next ==
  \/ Parse
  \/ phase \in {"early", "run"} /\ get4k
  \/ phase \in {"early", "run"} /\ \E p \in UsedPids : free4k(p)

Spec == Init /\ [][Next]_vars

-----------------------------------------------------------------------------
TypeOK ==
  /\ sts \in [0..(MAX_PID - 1) -> {"RESERVED", "FREE", "USED"}]
  /\ minPid \in Nat /\ maxPid \in 0..(MAX_PID - 1)
  /\ totalMem \in Nat
  /\ phase \in {"usable", "early", "reclaimable", "run"}
  /\ idx \in 1..(Len(MemMap) + 1)
  /\ ret \in Nat \cup {NULL}

\* get_free() is exact: 4 KiB for every free page, although ranges are counted
\* as a whole when they are read (parse_limine_memmap) and page by page
\* afterwards (get4k, free4k).
FreeCounted == totalMem = 4 * Cardinality(FreePids)

\* get4k never hands out a page twice or one the boot loader did not report,
\* and returns NULL only when no page is free: the hint minPid, which trails
\* the scan by one page and is moved down by free4k, hides no free page.
Allocator == INSTANCE PageAllocator WITH free <- FreePids, taken <- UsedPids
AllocatorSpec == Allocator!Spec

-----------------------------------------------------------------------------
\* The parser has not come to entry i yet.
Unread(i) ==
  \/ MemMap[i].type = Usable /\ phase = "usable" /\ i >= idx
  \/ MemMap[i].type = Reclaimable /\ phase \in {"usable", "early"}
  \/ MemMap[i].type = Reclaimable /\ phase = "reclaimable" /\ i >= idx

\* The inductive invariant behind FreeCounted and AllocatorSpec: every free
\* page is between the hint and maxPid, the hint is 0 only as long as there is
\* no memory at all, page 0 is never handed out, pages of entries not read yet
\* are reserved (memman.cpp).
IInv ==
  /\ TypeOK
  /\ FreeCounted
  /\ \A p \in FreePids : minPid <= p /\ p < maxPid
  /\ \A p \in UsedPids : 0 < p /\ p < maxPid
  /\ minPid = 0 => FreePids = {} /\ UsedPids = {}
  /\ \A i \in DOMAIN MemMap :
       Unread(i) => \A p \in Pages(MemMap[i]) : sts[p] = "RESERVED"
=============================================================================
