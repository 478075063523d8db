---------------------------- MODULE MemmanProofs ----------------------------
(***************************************************************************)
(* Proofs about module Memman, for every memory map the Limine protocol    *)
(* allows and any number of calls.                                         *)
(***************************************************************************)
EXTENDS Memman, FiniteSetTheorems, WellFoundedInduction, TLAPS

\* A nonempty set of naturals has a least element.
LEMMA LeastNat ==
  ASSUME NEW S \in SUBSET Nat, S # {}
  PROVE  \E x \in S : \A y \in S : x <= y
<1>1. PICK x \in S : \A y \in S : ~(<<y, x>> \in OpToRel(<, Nat))
  BY NatLessThanWellFounded, WFMin
<1>2. \A y \in S : ~(y < x)
  BY <1>1 DEF OpToRel
<1> QED
  BY <1>2

\* What the assumptions say of an entry with at least one whole page.
LEMMA EntryPages ==
  ASSUME NEW i \in DOMAIN MemMap, MemMap[i].type # "other", ~Skipped(MemMap[i])
  PROVE  /\ pid(MemMap[i]) \in Nat /\ pid(MemMap[i]) > 0
         /\ pidend(MemMap[i]) \in 0..(MAX_PID - 1)
         /\ pid(MemMap[i]) <= pidend(MemMap[i])
         /\ Pages(MemMap[i]) = pid(MemMap[i])..(pidend(MemMap[i]) - 1)
         /\ Pages(MemMap[i]) \subseteq 0..(MAX_PID - 1)
         /\ IsFiniteSet(Pages(MemMap[i]))
         /\ Cardinality(Pages(MemMap[i])) = pidend(MemMap[i]) - pid(MemMap[i])
<1> DEFINE e == MemMap[i]
<1>1. e \in EntryType /\ PageSize \in Nat \ {0} /\ MAX_PID \in Nat \ {0}
  BY MemmanAssumption
<1>2. 0 < pid(e) /\ pid(e) <= pidend(e)
  BY MemmanAssumption
<1>3. e.base \in Nat /\ e.length \in Nat
  BY <1>1 DEF EntryType
<1>4. roundup4k(e.base) \in Int
  BY <1>1, <1>3 DEF roundup4k
<1>5. pid(e) \in Int
  BY <1>1, <1>4 DEF pid
<1>6. rounddown4k(e.length - (roundup4k(e.base) - e.base)) \in Int
  BY <1>1, <1>3, <1>4 DEF rounddown4k
<1>7. pidend(e) \in Int /\ pidend(e) <= MAX_PID - 1
  BY <1>1, <1>4, <1>6 DEF pidend
<1>8. Pages(e) = pid(e)..(pidend(e) - 1)
  BY DEF Pages
<1>9. IsFiniteSet(Pages(e)) /\ Cardinality(Pages(e)) = pidend(e) - pid(e)
  <2> HIDE DEF e
  <2>1. pid(e) \in Int /\ pidend(e) - 1 \in Int
    BY <1>5, <1>7
  <2>2. /\ IsFiniteSet(pid(e)..(pidend(e) - 1))
        /\ Cardinality(pid(e)..(pidend(e) - 1)) =
             IF pid(e) > pidend(e) - 1 THEN 0 ELSE (pidend(e) - 1) - pid(e) + 1
    BY <2>1, FS_Interval
  <2> QED
    BY <2>2, <1>2, <1>5, <1>7, <1>8
<1> QED
  BY <1>1, <1>2, <1>5, <1>7, <1>8, <1>9

\* There are finitely many free pages.
LEMMA FreeFinite ==
  ASSUME TypeOK
  PROVE  IsFiniteSet(FreePids) /\ Cardinality(FreePids) \in Nat /\ FreePids \in SUBSET Nat
<1>1. 0 \in Int /\ MAX_PID - 1 \in Int
  BY MemmanAssumption
<1>2. IsFiniteSet(0..(MAX_PID - 1))
  BY <1>1, FS_Interval
<1>3. FreePids \subseteq 0..(MAX_PID - 1)
  BY DEF FreePids, TypeOK
<1>4. IsFiniteSet(FreePids)
  BY <1>2, <1>3, FS_Subset
<1>5. Cardinality(FreePids) \in Nat
  BY <1>4, FS_CardinalityType
<1> QED
  BY <1>3, <1>4, <1>5

\* The loop of get4k finds the lowest free page if there is one.
LEMMA ScanFinds ==
  ASSUME IInv, totalMem # 0
  PROVE  /\ curPid \in FreePids
         /\ \A q \in FreePids : curPid <= q
         /\ minPid <= curPid /\ curPid < maxPid /\ curPid \in Nat
<1>1. FreePids # {}
  <2>1. Cardinality(FreePids) # 0
    BY FreeFinite DEF IInv, FreeCounted
  <2> QED
    BY <2>1, FS_EmptySet
<1>2. PICK x \in FreePids : \A y \in FreePids : x <= y
  BY <1>1, FreeFinite, LeastNat DEF IInv
<1>3. /\ minPid \in Nat /\ maxPid \in 0..(MAX_PID - 1) /\ MAX_PID \in Nat
      /\ sts \in [0..(MAX_PID - 1) -> {"RESERVED", "FREE", "USED"}]
      /\ \A p \in FreePids : p \in Nat /\ minPid <= p /\ p < maxPid
  BY FreeFinite, MemmanAssumption DEF IInv, TypeOK
<1> DEFINE Stop(p) == /\ p = maxPid \/ sts[p] = "FREE"
                      /\ \A q \in minPid..(p - 1) : sts[q] # "FREE"
<1>4. x \in minPid..maxPid /\ Stop(x)
  <2>1. x \in minPid..maxPid /\ sts[x] = "FREE"
    BY <1>2, <1>3 DEF FreePids
  <2>2. ASSUME NEW q \in minPid..(x - 1) PROVE sts[q] # "FREE"
    BY <1>2, <1>3, <2>1 DEF FreePids
  <2> QED
    BY <2>1, <2>2
<1>5. curPid \in minPid..maxPid /\ Stop(curPid)
  <2>1. curPid = CHOOSE p \in minPid..maxPid : Stop(p)
    BY DEF curPid
  <2> HIDE DEF Stop
  <2> QED
    BY <1>4, <2>1
<1>6. curPid <= x
  <2> SUFFICES ASSUME ~(curPid <= x) PROVE FALSE
    OBVIOUS
  <2>1. x \in minPid..(curPid - 1)
    BY <1>3, <1>4, <1>5
  <2> QED
    BY <1>5, <2>1, <1>2 DEF FreePids
<1>7. curPid # maxPid
  BY <1>2, <1>3, <1>6
<1>8. curPid \in FreePids
  BY <1>3, <1>5, <1>7 DEF FreePids
<1> QED
  BY <1>2, <1>3, <1>6, <1>8

\* One iteration of parse_limine_memmap keeps the invariant.
LEMMA ParseStep ==
  ASSUME IInv, NEW what \in {Usable, Reclaimable}, ParseEntry(what),
         phase = IF what = Usable THEN "usable" ELSE "reclaimable"
  PROVE  /\ IInv'
         /\ FreePids \subseteq FreePids' /\ UsedPids' = UsedPids
         /\ (FreePids' \ FreePids) \cap UsedPids = {} /\ ret' = ret
<1> DEFINE e == MemMap[idx]
<1>1. idx \in DOMAIN MemMap /\ idx' = idx + 1 /\ phase' = phase /\ ret' = ret
  BY DEF ParseEntry
<1>2. DOMAIN MemMap = 1..Len(MemMap) /\ Len(MemMap) \in Nat /\ MAX_PID \in Nat
  BY MemmanAssumption
<1>3. idx' \in 1..(Len(MemMap) + 1) /\ phase' \in {"usable", "early", "reclaimable", "run"}
      /\ ret' \in Nat \cup {NULL}
  BY <1>1, <1>2 DEF IInv, TypeOK
<1>4. \A i \in DOMAIN MemMap : Unread(i)' => Unread(i) /\ (i = idx => MemMap[i].type # what)
  BY <1>1, <1>2 DEF Unread, Usable, Reclaimable
<1>5. CASE e.type # what \/ Skipped(e)
  <2>1. UNCHANGED <<sts, minPid, maxPid, totalMem>>
    BY <1>5 DEF ParseEntry
  <2>2. FreePids' = FreePids /\ UsedPids' = UsedPids
    BY <2>1 DEF FreePids, UsedPids
  <2>3. TypeOK'
    BY <1>3, <2>1 DEF IInv, TypeOK
  <2>4. FreeCounted'
    BY <2>1, <2>2 DEF IInv, FreeCounted
  <2> QED
    BY <1>1, <1>4, <2>1, <2>2, <2>3, <2>4 DEF IInv
<1>6. CASE ~(e.type # what \/ Skipped(e))
  <2>1. /\ e.type = what /\ ~Skipped(e) /\ what # "other"
        /\ minPid' = IF minPid = 0 \/ pid(e) < minPid THEN pid(e) ELSE minPid
        /\ sts' = [p \in DOMAIN sts |->
                     IF p \in Pages(e) /\ sts[p] # "USED" THEN "FREE" ELSE sts[p]]
        /\ totalMem' = totalMem + (pidend(e) - pid(e)) * 4
        /\ maxPid' = IF pidend(e) > maxPid THEN pidend(e) ELSE maxPid
    BY <1>6 DEF ParseEntry, Usable, Reclaimable
  <2>2. /\ pid(e) \in Nat /\ pid(e) > 0
        /\ pidend(e) \in 0..(MAX_PID - 1) /\ pid(e) <= pidend(e)
        /\ Pages(e) = pid(e)..(pidend(e) - 1)
        /\ Pages(e) \subseteq 0..(MAX_PID - 1)
        /\ IsFiniteSet(Pages(e)) /\ Cardinality(Pages(e)) = pidend(e) - pid(e)
    BY <1>1, <2>1, EntryPages
  <2>3. Unread(idx)
    BY <1>1, <1>2, <2>1 DEF Unread, IInv, TypeOK
  <2>4. \A p \in Pages(e) : sts[p] = "RESERVED"
    BY <1>1, <2>3 DEF IInv
  <2>5. /\ sts \in [0..(MAX_PID - 1) -> {"RESERVED", "FREE", "USED"}]
        /\ minPid \in Nat /\ maxPid \in 0..(MAX_PID - 1) /\ totalMem \in Nat
    BY DEF IInv, TypeOK
  <2>6. FreePids' = FreePids \cup Pages(e) /\ UsedPids' = UsedPids
        /\ FreePids \cap Pages(e) = {} /\ UsedPids \cap Pages(e) = {}
    <3> HIDE DEF e
    <3> QED
      BY <2>1, <2>2, <2>4, <2>5 DEF FreePids, UsedPids
  <2>7. TypeOK'
    <3> HIDE DEF e
    <3>1. sts' \in [0..(MAX_PID - 1) -> {"RESERVED", "FREE", "USED"}]
      BY <2>1, <2>5
    <3>2. minPid' \in Nat /\ maxPid' \in 0..(MAX_PID - 1)
      BY <2>1, <2>2, <2>5
    <3>3. totalMem' \in Nat
      BY <2>1, <2>2, <2>5
    <3> QED
      BY <1>3, <3>1, <3>2, <3>3 DEF TypeOK
  <2>8. FreeCounted'
    <3> HIDE DEF e
    <3>1. IsFiniteSet(FreePids) /\ Cardinality(FreePids) \in Nat
      BY FreeFinite DEF IInv
    <3>2. Cardinality(FreePids \cup Pages(e)) =
            Cardinality(FreePids) + Cardinality(Pages(e)) - Cardinality(FreePids \cap Pages(e))
      BY <2>2, <3>1, FS_Union
    <3>3. Cardinality(FreePids \cap Pages(e)) = 0
      BY <2>6, FS_EmptySet
    <3>4. totalMem = 4 * Cardinality(FreePids)
      BY DEF IInv, FreeCounted
    <3>5. Cardinality(FreePids') = Cardinality(FreePids) + (pidend(e) - pid(e))
      BY <2>2, <2>6, <3>1, <3>2, <3>3
    <3> QED
      BY <2>1, <2>2, <3>1, <3>4, <3>5 DEF FreeCounted
  <2>9. \A p \in FreePids' : minPid' <= p /\ p < maxPid'
    <3> HIDE DEF e
    <3>1. \A p \in FreePids : p \in Nat /\ minPid <= p /\ p < maxPid
      BY FreeFinite DEF IInv
    <3>2. \A p \in Pages(e) : p \in Nat /\ pid(e) <= p /\ p < pidend(e)
      BY <2>2, <1>2
    <3>3. minPid' <= pid(e) /\ pidend(e) <= maxPid' /\ maxPid <= maxPid'
      BY <2>1, <2>2, <2>5, <1>2
    <3>4. minPid = 0 => FreePids = {}
      BY DEF IInv
    <3>5. minPid # 0 => minPid' <= minPid
      BY <2>1, <2>2, <2>5
    <3>6. minPid' \in Nat /\ maxPid' \in Nat /\ pidend(e) \in Nat
      BY <2>7, <2>2, <1>2 DEF TypeOK
    <3> QED
      BY <2>2, <2>5, <2>6, <3>1, <3>2, <3>3, <3>4, <3>5, <3>6
  <2>10. minPid' # 0
    BY <2>1, <2>2, <2>5
  <2>12. \A p \in UsedPids' : 0 < p /\ p < maxPid'
    <3>1. \A p \in UsedPids : p \in Int /\ 0 < p /\ p < maxPid
      BY <2>5 DEF IInv, UsedPids
    <3> HIDE DEF e
    <3>2. maxPid <= maxPid' /\ maxPid \in Int /\ maxPid' \in Int
      BY <1>2, <2>1, <2>2, <2>5
    <3> QED
      BY <2>6, <3>1, <3>2
  <2>11. ASSUME NEW i \in DOMAIN MemMap, Unread(i)', NEW p \in Pages(MemMap[i])
         PROVE  sts'[p] = "RESERVED"
    <3>1. Unread(i) /\ i # idx /\ MemMap[i].type # "other"
      BY <1>4, <2>1, <2>11 DEF Unread, Usable, Reclaimable
    <3>2. sts[p] = "RESERVED"
      BY <3>1 DEF IInv
    <3>3. p \notin Pages(e)
      BY <1>1, <2>1, <3>1, MemmanAssumption
    <3>4. p \in 0..(MAX_PID - 1)
      BY <3>1, EntryPages DEF Pages
    <3> QED
      BY <2>1, <2>5, <3>2, <3>3, <3>4
  <2> QED
    BY <1>1, <2>6, <2>7, <2>8, <2>9, <2>10, <2>11, <2>12 DEF IInv
<1> QED
  BY <1>5, <1>6
\* get4k keeps the invariant; it returns a free page, or NULL if there is none.
LEMMA GetStep ==
  ASSUME IInv, get4k
  PROVE  /\ IInv'
         /\ \/ /\ ret' \in FreePids
               /\ FreePids' = FreePids \ {ret'}
               /\ UsedPids' = UsedPids \cup {ret'}
            \/ FreePids = {} /\ ret' = NULL /\ FreePids' = FreePids /\ UsedPids' = UsedPids
<1>1. UNCHANGED <<maxPid, phase, idx>>
  BY DEF get4k
<1>2. \A i \in DOMAIN MemMap : Unread(i)' <=> Unread(i)
  BY <1>1 DEF Unread
<1>3. CASE totalMem = 0
  <2>1. ret' = NULL /\ UNCHANGED <<sts, minPid, totalMem>>
    BY <1>3 DEF get4k
  <2>2. FreePids' = FreePids /\ UsedPids' = UsedPids
    BY <2>1 DEF FreePids, UsedPids
  <2>3. FreePids = {}
    <3>1. Cardinality(FreePids) = 0
      BY <1>3, FreeFinite DEF IInv, FreeCounted
    <3> QED
      BY <3>1, FreeFinite, FS_EmptySet DEF IInv
  <2>4. TypeOK'
    BY <1>1, <2>1 DEF IInv, TypeOK
  <2>5. FreeCounted'
    BY <2>1, <2>2 DEF IInv, FreeCounted
  <2> QED
    BY <1>1, <1>2, <2>1, <2>2, <2>3, <2>4, <2>5 DEF IInv
<1>4. CASE totalMem # 0
  <2>1. /\ curPid \in FreePids
        /\ \A q \in FreePids : curPid <= q
        /\ minPid <= curPid /\ curPid < maxPid /\ curPid \in Nat
    BY <1>4, ScanFinds
  <2> DEFINE c == curPid
  <2>2. /\ sts \in [0..(MAX_PID - 1) -> {"RESERVED", "FREE", "USED"}]
        /\ minPid \in Nat /\ maxPid \in Nat /\ totalMem \in Nat
    BY MemmanAssumption DEF IInv, TypeOK
  <2>3. /\ minPid' = IF c = minPid THEN minPid ELSE c - 1
        /\ totalMem' = totalMem - 4
        /\ sts' = [sts EXCEPT ![c] = "USED"]
        /\ ret' = c
    BY <1>4, <2>1, <2>2 DEF get4k
  <2>4. /\ c \in FreePids /\ c \in Nat /\ minPid <= c
        /\ \A q \in FreePids : c <= q
    BY <2>1
  <2> HIDE DEF c
  <2>5. FreePids' = FreePids \ {c} /\ UsedPids' = UsedPids \cup {c}
    BY <2>2, <2>3, <2>4 DEF FreePids, UsedPids
  <2>6. FreeCounted' /\ totalMem' \in Nat
    <3>1. IsFiniteSet(FreePids) /\ Cardinality(FreePids) \in Nat
      BY FreeFinite DEF IInv
    <3>2. Cardinality(FreePids \ {c}) = Cardinality(FreePids) - 1
      BY <2>4, <3>1, FS_RemoveElement
    <3>3. totalMem = 4 * Cardinality(FreePids)
      BY DEF IInv, FreeCounted
    <3> QED
      BY <1>4, <2>2, <2>3, <2>5, <3>1, <3>2, <3>3 DEF FreeCounted
  <2>7. TypeOK'
    <3>1. sts' \in [0..(MAX_PID - 1) -> {"RESERVED", "FREE", "USED"}]
      BY <2>2, <2>3
    <3>2. minPid' \in Nat
      BY <2>2, <2>3, <2>4
    <3> QED
      BY <1>1, <2>3, <2>4, <2>6, <3>1, <3>2 DEF IInv, TypeOK
  <2>8. \A p \in FreePids' : minPid' <= p /\ p < maxPid'
    <3>1. minPid' <= c
      BY <2>2, <2>3, <2>4
    <3>2. \A p \in FreePids : p \in Nat /\ c <= p /\ p < maxPid
      BY <2>4, FreeFinite DEF IInv
    <3> QED
      BY <1>1, <2>4, <2>5, <2>7, <3>1, <3>2 DEF TypeOK
  <2>9. minPid # 0
    BY <2>4 DEF IInv
  <2>10. minPid' # 0
    <3>1. c # minPid => c - 1 >= minPid
      BY <2>2, <2>4
    <3> QED
      BY <2>2, <2>3, <2>4, <2>9, <3>1
  <2>12. \A p \in UsedPids' : 0 < p /\ p < maxPid'
    <3>1. 0 < c /\ c < maxPid
      BY <2>2, <2>4, <2>9 DEF IInv
    <3> QED
      BY <1>1, <2>5, <3>1 DEF IInv
  <2>11. ASSUME NEW i \in DOMAIN MemMap, Unread(i)', NEW p \in Pages(MemMap[i])
         PROVE  sts'[p] = "RESERVED"
    <3>1. sts[p] = "RESERVED"
      BY <1>2, <2>11 DEF IInv
    <3>2. p # c
      BY <2>4, <3>1 DEF FreePids
    <3> QED
      BY <2>2, <2>3, <3>1, <3>2
  <2> QED
    BY <2>3, <2>4, <2>5, <2>6, <2>7, <2>8, <2>10, <2>11, <2>12 DEF IInv
<1> QED
  BY <1>3, <1>4

\* free4k keeps the invariant and makes the page free.
LEMMA FreeStep ==
  ASSUME IInv, NEW p \in UsedPids, free4k(p)
  PROVE  /\ IInv'
         /\ FreePids' = FreePids \cup {p} /\ UsedPids' = UsedPids \ {p} /\ ret' = ret
<1>1. /\ sts' = [sts EXCEPT ![p] = "FREE"]
      /\ totalMem' = totalMem + 4
      /\ minPid' = IF minPid > p THEN p ELSE minPid
      /\ UNCHANGED <<maxPid, phase, idx, ret>>
  BY DEF free4k
<1>2. /\ sts \in [0..(MAX_PID - 1) -> {"RESERVED", "FREE", "USED"}]
      /\ minPid \in Nat /\ maxPid \in Nat /\ totalMem \in Nat /\ MAX_PID \in Nat
  BY MemmanAssumption DEF IInv, TypeOK
<1>3. p \in 0..(MAX_PID - 1) /\ sts[p] = "USED"
  BY <1>2 DEF UsedPids
<1>4. FreePids' = FreePids \cup {p} /\ UsedPids' = UsedPids \ {p} /\ p \notin FreePids
  BY <1>1, <1>2, <1>3 DEF FreePids, UsedPids
<1>5. FreeCounted'
  <2>1. IsFiniteSet(FreePids) /\ Cardinality(FreePids) \in Nat
    BY FreeFinite DEF IInv
  <2>2. Cardinality(FreePids \cup {p}) = Cardinality(FreePids) + 1
    BY <1>4, <2>1, FS_AddElement
  <2>3. totalMem = 4 * Cardinality(FreePids)
    BY DEF IInv, FreeCounted
  <2> QED
    BY <1>1, <1>2, <1>4, <2>1, <2>2, <2>3 DEF FreeCounted
<1>6. TypeOK'
  <2>1. sts' \in [0..(MAX_PID - 1) -> {"RESERVED", "FREE", "USED"}]
    BY <1>1, <1>2
  <2>2. minPid' \in Nat /\ totalMem' \in Nat
    BY <1>1, <1>2, <1>3
  <2> QED
    BY <1>1, <2>1, <2>2 DEF IInv, TypeOK
<1>7. p < maxPid /\ 0 < p /\ minPid # 0
  BY DEF IInv
<1>8. \A q \in FreePids' : minPid' <= q /\ q < maxPid'
  <2>1. \A q \in FreePids : q \in Nat /\ minPid <= q /\ q < maxPid
    BY FreeFinite DEF IInv
  <2> QED
    BY <1>1, <1>2, <1>3, <1>4, <1>7, <2>1
<1>9. minPid' # 0
  BY <1>1, <1>2, <1>3, <1>7
<1>10. ASSUME NEW i \in DOMAIN MemMap, Unread(i)', NEW q \in Pages(MemMap[i])
       PROVE  sts'[q] = "RESERVED"
  <2>1. Unread(i)
    BY <1>1, <1>10 DEF Unread
  <2>2. sts[q] = "RESERVED"
    BY <2>1 DEF IInv
  <2> QED
    BY <1>1, <1>2, <1>3, <2>2
<1>11. \A q \in UsedPids' : 0 < q /\ q < maxPid'
  BY <1>1, <1>4 DEF IInv
<1> QED
  BY <1>1, <1>4, <1>5, <1>6, <1>8, <1>9, <1>10, <1>11 DEF IInv

\* Before the memory map is read no page is free or used (used_bitmap starts
\* as zeros, MEMMAN_STATE_RESERVED).
LEMMA InitIInv == Init => IInv
<1> SUFFICES ASSUME Init PROVE IInv
  OBVIOUS
<1>1. MAX_PID \in Nat \ {0} /\ Len(MemMap) \in Nat /\ DOMAIN MemMap = 1..Len(MemMap)
  BY MemmanAssumption
<1>2. /\ sts = [p \in 0..(MAX_PID - 1) |-> "RESERVED"]
      /\ minPid = 0 /\ maxPid = 0 /\ totalMem = 0 /\ idx = 1
      /\ phase = "usable" /\ ret = NULL
  BY DEF Init
<1>3. FreePids = {} /\ UsedPids = {}
  BY <1>2 DEF FreePids, UsedPids
<1>4. TypeOK
  BY <1>1, <1>2 DEF TypeOK
<1>5. FreeCounted
  BY <1>2, <1>3, FS_EmptySet DEF FreeCounted
<1>6. ASSUME NEW i \in DOMAIN MemMap, Unread(i), NEW p \in Pages(MemMap[i])
      PROVE  sts[p] = "RESERVED"
  <2>1. MemMap[i].type # "other"
    BY <1>6 DEF Unread, Usable, Reclaimable
  <2>2. p \in 0..(MAX_PID - 1)
    BY <2>1, EntryPages DEF Pages
  <2> QED
    BY <1>2, <2>2
<1> QED
  BY <1>2, <1>3, <1>4, <1>5, <1>6 DEF IInv

\* The abstract counterpart of a step.
AllocatorNext ==
  \/ Allocator!AddMemory \/ Allocator!Get \/ Allocator!Release
  \/ UNCHANGED <<FreePids, UsedPids, ret>>

\* The steps of the boot sequence between two calls only move the phase.
LEMMA PhaseStep ==
  ASSUME IInv, UNCHANGED <<sts, minPid, maxPid, totalMem, ret>>,
         \/ idx \notin DOMAIN MemMap /\ idx' = 1 /\ phase = "usable" /\ phase' = "early"
         \/ idx \notin DOMAIN MemMap /\ idx' = 1 /\ phase = "reclaimable" /\ phase' = "run"
         \/ idx' = idx /\ phase = "early" /\ phase' = "reclaimable"
         \/ UNCHANGED <<phase, idx>>
  PROVE  IInv' /\ UNCHANGED <<FreePids, UsedPids, ret>>
<1>1. FreePids' = FreePids /\ UsedPids' = UsedPids
  BY DEF FreePids, UsedPids
<1>2. Len(MemMap) \in Nat /\ idx \in 1..(Len(MemMap) + 1)
  BY MemmanAssumption DEF IInv, TypeOK
<1>3. TypeOK'
  BY <1>2 DEF IInv, TypeOK
<1>4. FreeCounted'
  BY <1>1 DEF IInv, FreeCounted
<1>5. \A i \in DOMAIN MemMap : Unread(i)' => Unread(i)
  BY DEF Unread
<1> QED
  BY <1>1, <1>3, <1>4, <1>5 DEF IInv

\* Every step keeps the invariant and is a step of PageAllocator or a stutter.
LEMMA NextIInv == IInv /\ [Next]_vars => IInv' /\ AllocatorNext
<1> SUFFICES ASSUME IInv, [Next]_vars PROVE IInv' /\ AllocatorNext
  OBVIOUS
<1>1. CASE phase = "usable" /\ ParseEntry(Usable)
  BY <1>1, ParseStep DEF AllocatorNext, Allocator!AddMemory
<1>2. CASE phase = "reclaimable" /\ ParseEntry(Reclaimable)
  <2>1. phase = IF Reclaimable = Usable THEN "usable" ELSE "reclaimable"
    BY <1>2 DEF Usable, Reclaimable
  <2> QED
    BY <1>2, <2>1, ParseStep DEF AllocatorNext, Allocator!AddMemory
<1>3. CASE \/ phase = "usable" /\ EndParse("early")
           \/ phase = "early" /\ phase' = "reclaimable"
                /\ UNCHANGED <<sts, minPid, maxPid, totalMem, idx, ret>>
           \/ phase = "reclaimable" /\ EndParse("run")
           \/ UNCHANGED vars
  BY <1>3, PhaseStep DEF AllocatorNext, EndParse, vars
<1>4. CASE get4k
  BY <1>4, GetStep DEF AllocatorNext, Allocator!Get
<1>5. CASE \E p \in UsedPids : free4k(p)
  BY <1>5, FreeStep DEF AllocatorNext, Allocator!Release
<1> QED
  BY <1>1, <1>2, <1>3, <1>4, <1>5 DEF Next, Parse

\* Everything IInv says holds in every state, for every memory map and every
\* sequence of get4k and free4k (memman.cpp).
THEOREM IInvariant == Spec => []IInv
<1>1. IInv /\ [Next]_vars => IInv'
  BY NextIInv
<1> QED
  BY InitIInv, <1>1, PTL DEF Spec

\* Type correctness: minPid, maxPid and totalMem stay in range (get4k, free4k and
\* parse_limine_memmap in memman.cpp).
THEOREM TypeCorrect == Spec => []TypeOK
<1>1. IInv => TypeOK
  BY DEF IInv
<1> QED
  BY IInvariant, <1>1, PTL

\* get_free() is exact (totalMem in memman.cpp).
THEOREM FreeMemoryCounted == Spec => []FreeCounted
<1>1. IInv => FreeCounted
  BY DEF IInv
<1> QED
  BY IInvariant, <1>1, PTL

\* The memory manager implements PageAllocator: no page has two owners, and
\* get4k fails only when nothing is free (get4k, free4k in memman.cpp).
THEOREM ImplementsAllocator == Spec => AllocatorSpec
<1>1. Init => Allocator!Init
  BY DEF Init, Allocator!Init, FreePids, UsedPids
<1>2. IInv /\ [Next]_vars => AllocatorNext
  BY NextIInv
<1>3. AllocatorNext =>
        [Allocator!AddMemory \/ Allocator!Get \/ Allocator!Release]_<<FreePids, UsedPids, ret>>
  BY DEF AllocatorNext
<1> QED
  BY IInvariant, <1>1, <1>2, <1>3, PTL DEF Spec, AllocatorSpec, Allocator!Spec
=============================================================================
