-------------------------- MODULE SharedPtrProofs --------------------------
(***************************************************************************)
(* Proofs about module SharedPtr, for any number of tasks and handles.     *)
(***************************************************************************)
EXTENDS SharedPtr, FiniteSetTheorems, TLAPS

\* What the counters say about the handles.
LEMMA Finite ==
  ASSUME IInv
  PROVE  /\ IsFiniteSet(Counted) /\ IsFiniteSet(Strong) /\ Strong \subseteq Counted
         /\ uses.ctl \in Nat /\ uses.obj \in Nat
         /\ uses.ctl = 0 <=> Counted = {}
         /\ uses.obj = 0 <=> Strong = {}
<1>1. Counted \subseteq Handle /\ Strong \subseteq Counted
  BY DEF Counted, Strong
<1>2. IsFiniteSet(Counted) /\ IsFiniteSet(Strong)
  BY <1>1, FS_Subset, SharedPtrAssumption
<1>3. uses.ctl = Cardinality(Counted) /\ uses.obj = Cardinality(Strong)
  BY DEF IInv, CountsExact
<1> QED
  BY <1>1, <1>2, <1>3, FS_EmptySet, FS_CardinalityType

\* A step that changes neither the counters nor who deletes what preserves what
\* is said about deletion.
LEMMA Same ==
  ASSUME IInv,
         Cardinality(Counted') = Cardinality(Counted), Counted' = {} <=> Counted = {},
         Cardinality(Strong') = Cardinality(Strong), Strong' = {} <=> Strong = {},
         UNCHANGED <<uses, object, block>>,
         \A u \in Task : op'[u].dead = op[u].dead
  PROVE  CountsExact' /\ NoUseAfterFree' /\ DeletedOnce' /\ DeadInv'
<1>1. CountsExact' /\ NoUseAfterFree'
  BY DEF IInv, CountsExact, NoUseAfterFree
<1>2. DeadInv'
  BY DEF IInv, DeadInv
<1>3. Deleting("block")' = Deleting("block") /\ Deleting("object")' = Deleting("object")
  BY DEF Deleting
<1>4. DeletedOnce'
  BY <1>3 DEF IInv, DeletedOnce
<1> QED
  BY <1>1, <1>2, <1>4

\* The handles in Counted and Strong stay when kind does and no unref() passes
\* its compare and exchange.
LEMMA SameHandles ==
  ASSUME kind' = kind,
         \A u \in Task : op'[u].pc = "delete" /\ op'[u].src = op[u].src
                           <=> op[u].pc = "delete" /\ op'[u].src = op[u].src,
         \A u \in Task : op'[u].src = op[u].src \/ (op[u].pc # "delete" /\ op'[u].pc # "delete")
  PROVE  Counted' = Counted /\ Strong' = Strong
<1>1. Counted' = Counted
  BY DEF Counted
<1> QED
  BY <1>1 DEF Strong

\* A function that ends leaves the other functions and their handles alone.
LEMMA OthersOpInv ==
  ASSUME IInv, NEW t \in Task, op'[t] = Quiet, \A u \in Task : u # t => op'[u] = op[u],
         \A u \in Task : u # t /\ op[u].pc # "none" => kind'[op[u].src] = kind[op[u].src],
         \A u \in Task : u # t /\ op[u].pc = "cas" /\ op[u].fn \in Locks
                           => kind'[op[u].dst] = kind[op[u].dst]
  PROVE  OpInv'
<1> SUFFICES ASSUME NEW u \in Task PROVE OpOK(u)'
  BY DEF OpInv
<1>1. CASE u = t
  <2>1. op'[u].pc = "none" /\ op'[u].fn = "none"
    BY <1>1 DEF Quiet
  <2> QED
    BY <1>1, <2>1 DEF OpOK, Releases
<1>2. CASE u # t
  <2>1. op'[u] = op[u] /\ OpOK(u)
    BY <1>2 DEF IInv, OpInv
  <2>2. op[u].pc # "none" => kind'[op[u].src] = kind[op[u].src]
    BY <1>2
  <2>3. op[u].pc = "cas" /\ op[u].fn \in Locks => kind'[op[u].dst] = kind[op[u].dst]
    BY <1>2
  <2>4. op[u].fn \in Releases => op[u].pc # "none"
    BY <2>1 DEF OpOK, Releases, Quiet
  <2> QED
    BY <2>1, <2>2, <2>3, <2>4 DEF OpOK, Releases
<1> QED
  BY <1>1, <1>2

\* The load at the start of a function.
LEMMA CallStep ==
  ASSUME IInv, NEW t \in Task, NEW fn, NEW src \in Handle, NEW dst,
         Call(t, fn, src, dst), kind[src] # "null", Untouched(src),
         \/ fn \in Locks /\ dst \in Handle /\ kind[dst] = "null" /\ Untouched(dst)
         \/ fn = "strong_release" /\ kind[src] = "strong" /\ dst = None
         \/ fn = "weak_release" /\ kind[src] = "weak" /\ dst = None
  PROVE  IInv'
<1> DEFINE o == [Quiet EXCEPT !.pc = "cas", !.fn = fn, !.src = src, !.dst = dst, !.old = uses]
<1>1. op[t] = Quiet /\ op' = [op EXCEPT ![t] = o]
      /\ kind' = kind /\ owner' = owner /\ UNCHANGED <<uses, object, block>>
  BY DEF Call
<1>2. op[t].pc = "none" /\ op[t].dead = {} /\ op[t].src = None /\ op[t].dst = None
  BY <1>1 DEF Quiet
<1>3. o.pc = "cas" /\ o.fn = fn /\ o.src = src /\ o.dst = dst /\ o.old = uses /\ o.dead = {}
  BY DEF Quiet
<1>4. op'[t] = o /\ \A u \in Task : u # t => op'[u] = op[u]
  BY <1>1 DEF IInv, TypeOK
<1>5. o \in OpType
  BY DEF Quiet, IInv, TypeOK, Locks, OpType
<1> HIDE DEF o
<1>6. TypeOK'
  BY <1>1, <1>5 DEF IInv, TypeOK
<1>7. Counted' = Counted /\ Strong' = Strong
  BY <1>1, <1>2, <1>3, <1>4, SameHandles
<1>8. kind[src] = "strong" => uses.obj > 0
  <2>1. src \in Counted
    BY DEF Counted, Untouched
  <2> QED
    BY <2>1, Finite DEF Strong
<1>9. OpInv'
  <2>1. src # None
    BY SharedPtrAssumption
  <2> QED
    BY <1>1, <1>3, <1>4, <1>8, <2>1 DEF IInv, OpInv, OpOK, Locks, Releases
<1>10. Apart'
  BY <1>1, <1>2, <1>3, <1>4 DEF IInv, Apart, Untouched
<1>11. CountsExact' /\ NoUseAfterFree' /\ DeletedOnce' /\ DeadInv'
  BY <1>1, <1>2, <1>3, <1>4, <1>7, Same
<1> QED
  BY <1>6, <1>9, <1>10, <1>11 DEF IInv

\* Exchanging one element keeps the cardinality.
LEMMA Exchange ==
  ASSUME NEW S, IsFiniteSet(S), NEW x \in S, NEW y, y \notin S
  PROVE  Cardinality((S \ {x}) \cup {y}) = Cardinality(S)
<1>1. IsFiniteSet(S \ {x}) /\ Cardinality(S \ {x}) = Cardinality(S) - 1
  BY FS_RemoveElement
<1>2. Cardinality((S \ {x}) \cup {y}) = Cardinality(S \ {x}) + 1
  BY <1>1, FS_AddElement
<1> QED
  BY <1>1, <1>2, FS_CardinalityType

\* A move constructor.
LEMMA MoveStep ==
  ASSUME IInv, NEW t \in Task, NEW src \in Handle, NEW dst \in Handle, Move(t, src, dst)
  PROVE  IInv'
<1>1. /\ kind[src] # "null" /\ kind[dst] = "null" /\ src # dst
      /\ Untouched(src) /\ Untouched(dst)
      /\ kind' = [kind EXCEPT ![dst] = kind[src], ![src] = "null"]
      /\ op' = op /\ UNCHANGED <<owner, uses, object, block>>
  BY DEF Move
<1>2. /\ kind'[src] = "null" /\ kind'[dst] = kind[src] /\ kind' \in [Handle -> Kinds]
      /\ \A h \in Handle : h # src /\ h # dst => kind'[h] = kind[h]
  BY <1>1 DEF IInv, TypeOK
<1>3. TypeOK'
  BY <1>1, <1>2 DEF IInv, TypeOK
<1>4. src \in Counted /\ dst \notin Counted /\ Counted' = (Counted \ {src}) \cup {dst}
  BY <1>1, <1>2 DEF Counted, Untouched
<1>5. /\ src \in Strong => dst \notin Strong /\ Strong' = (Strong \ {src}) \cup {dst}
      /\ src \notin Strong => Strong' = Strong
  <2>1. \A h \in Handle : h \in Strong' <=> h \in Counted' /\ kind'[h] = "strong"
    BY DEF Strong, Counted
  <2>2. Strong' \subseteq Handle /\ Strong \subseteq Handle
    BY DEF Strong, Counted
  <2>3. dst \notin Strong /\ (dst \in Strong' <=> src \in Strong) /\ src \notin Strong'
    BY <1>2, <1>4, <2>1 DEF Strong
  <2>4. \A h \in Handle : h # src /\ h # dst => (h \in Strong' <=> h \in Strong)
    BY <1>2, <1>4, <2>1 DEF Strong
  <2> QED
    BY <2>2, <2>3, <2>4
<1>6. Cardinality(Counted') = Cardinality(Counted)
  BY <1>4, Finite, Exchange
<1>7. Cardinality(Strong') = Cardinality(Strong)
  BY <1>5, Finite, Exchange
<1>8. CountsExact' /\ NoUseAfterFree' /\ DeletedOnce' /\ DeadInv'
  <2>1. (Counted' = {} <=> Counted = {}) /\ (Strong' = {} <=> Strong = {})
    BY <1>4, <1>5
  <2> QED
    BY <1>1, <1>6, <1>7, <2>1, Same
<1>9. OpInv'
  <2>1. \A u \in Task : /\ op[u].src \in Handle => kind'[op[u].src] = kind[op[u].src]
                        /\ op[u].dst \in Handle => kind'[op[u].dst] = kind[op[u].dst]
    BY <1>1, <1>2 DEF Untouched
  <2>2. ASSUME NEW u \in Task, op[u].fn \in Releases PROVE op[u].src \in Handle
    <3>1. op[u].pc # "none"
      BY <2>2 DEF IInv, OpInv, OpOK, Releases, Quiet
    <3> QED
      BY <3>1 DEF IInv, OpInv, OpOK
  <2>3. \A u \in Task : op[u].pc # "none" => op[u].src \in Handle
    BY DEF IInv, OpInv, OpOK
  <2>4. \A u \in Task : op[u].pc = "cas" /\ op[u].fn \in Locks => op[u].dst \in Handle
    BY DEF IInv, OpInv, OpOK
  <2> SUFFICES ASSUME NEW u \in Task
               PROVE  /\ op[u].pc # "none" => kind'[op[u].src] # "null"
                      /\ op[u].pc = "cas" /\ kind'[op[u].src] = "strong" => op[u].old.obj > 0
                      /\ op[u].pc = "cas" /\ op[u].fn \in Locks => kind'[op[u].dst] = "null"
                      /\ op[u].fn = "strong_release" => kind'[op[u].src] = "strong"
                      /\ op[u].fn = "weak_release" => kind'[op[u].src] = "weak"
    BY ZenonT(60), <1>1 DEF IInv, OpInv, OpOK
  <2>5. (op[u].fn = "strong_release" \/ op[u].fn = "weak_release") => op[u].src \in Handle
    BY <2>2 DEF Releases
  <2> QED
    BY <2>1, <2>3, <2>4, <2>5 DEF IInv, OpInv, OpOK
<1>10. Apart'
  BY <1>1 DEF IInv, Apart
<1> QED
  BY <1>3, <1>8, <1>9, <1>10 DEF IInv

\* The handle of a function before its compare and exchange is counted.
LEMMA AtCas ==
  ASSUME IInv, NEW t \in Task, op[t].pc = "cas"
  PROVE  op[t].src \in Counted /\ op[t].src \in Handle /\ op[t].src # None
<1>1. op[t].src \in Handle /\ kind[op[t].src] # "null" /\ op[t].src # None
  BY SharedPtrAssumption DEF IInv, OpInv, OpOK
<1>2. \A u \in Task : ~(op[u].pc = "delete" /\ op[u].src = op[t].src)
  BY <1>1 DEF IInv, Apart
<1> QED
  BY <1>1, <1>2 DEF Counted

\* A compare and exchange that fails.
LEMMA RetryStep ==
  ASSUME IInv, NEW t \in Task, Retry(t)
  PROVE  IInv'
<1>1. /\ op[t].pc = "cas" /\ op' = [op EXCEPT ![t].old = uses]
      /\ kind' = kind /\ owner' = owner /\ UNCHANGED <<uses, object, block>>
  BY DEF Retry
<1>2. /\ op'[t] = [op[t] EXCEPT !.old = uses]
      /\ \A u \in Task : u # t => op'[u] = op[u]
  BY <1>1 DEF IInv, TypeOK
<1>3. op[t] \in OpType /\ uses \in Counts
  BY DEF IInv, TypeOK
<1>4. /\ op'[t] \in OpType /\ op'[t].old = uses
       /\ op'[t].pc = op[t].pc /\ op'[t].fn = op[t].fn /\ op'[t].src = op[t].src
       /\ op'[t].dst = op[t].dst /\ op'[t].dead = op[t].dead
  BY <1>2, <1>3 DEF OpType
<1>5. \A u \in Task : /\ op'[u].pc = op[u].pc /\ op'[u].fn = op[u].fn /\ op'[u].src = op[u].src
                        /\ op'[u].dst = op[u].dst /\ op'[u].dead = op[u].dead
  BY <1>2, <1>4
<1>6. TypeOK'
  BY <1>1, <1>2, <1>4 DEF IInv, TypeOK
<1>7. Counted' = Counted /\ Strong' = Strong
  BY <1>1, <1>5, SameHandles
<1>8. CountsExact' /\ NoUseAfterFree' /\ DeletedOnce' /\ DeadInv'
  BY <1>1, <1>5, <1>7, Same
<1>9. kind[op[t].src] = "strong" => uses.obj > 0
  BY <1>1, AtCas, Finite DEF Strong
<1>10. OpInv'
  BY <1>1, <1>2, <1>4, <1>9 DEF IInv, OpInv, OpOK
<1>11. Apart'
  BY <1>5 DEF IInv, Apart
<1> QED
  BY <1>6, <1>8, <1>10, <1>11 DEF IInv

\* The end of a function: t becomes quiet.
LEMMA QuietStep ==
  ASSUME IInv, NEW t \in Task, op' = [op EXCEPT ![t] = Quiet]
  PROVE  /\ op' \in [Task -> OpType]
         /\ op'[t] = Quiet /\ \A u \in Task : u # t => op'[u] = op[u]
         /\ Apart'
<1>1. Quiet \in OpType
  BY DEF Quiet, Counts, OpType
<1>2. op'[t] = Quiet /\ \A u \in Task : u # t => op'[u] = op[u]
  BY DEF IInv, TypeOK
<1>3. Quiet.src = None /\ Quiet.dst = None
  BY DEF Quiet
<1>4. Apart'
  BY <1>2, <1>3 DEF IInv, Apart
<1> QED
  BY <1>1, <1>2, <1>4 DEF IInv, TypeOK

\* A WeakPtr::lock() that finds no object; no copy constructor gets here.
LEMMA LockFailsStep ==
  ASSUME IInv, NEW t \in Task, LockFails(t)
  PROVE  IInv'
<1>1. /\ op[t].pc = "cas" /\ op[t].old.obj <= 0
      /\ op' = [op EXCEPT ![t] = Quiet]
      /\ owner' = owner /\ UNCHANGED <<uses, object, block>>
  BY DEF LockFails, LockRefused
<1>2. op[t].old.obj \in Nat /\ op[t].dead = {}
  BY <1>1 DEF IInv, OpInv, OpOK, TypeOK, OpType, Counts
<1>3. kind' = kind
  BY <1>1, <1>2 DEF LockFails, IInv, OpInv, OpOK
<1>4. op'[t] = Quiet /\ Apart' /\ \A u \in Task : u # t => op'[u] = op[u]
  BY <1>1, QuietStep
<1>5. TypeOK'
  BY <1>1, <1>3, QuietStep DEF IInv, TypeOK
<1>6. Quiet.pc = "none" /\ Quiet.fn = "none" /\ Quiet.dead = {}
  BY DEF Quiet
<1>7. Counted' = Counted /\ Strong' = Strong
  BY <1>1, <1>3, <1>4, <1>6, SameHandles
<1>8. CountsExact' /\ NoUseAfterFree' /\ DeletedOnce' /\ DeadInv'
  BY <1>1, <1>2, <1>4, <1>6, <1>7, Same
<1>9. OpInv'
  BY <1>3, <1>4, <1>6 DEF IInv, OpInv, OpOK, Releases
<1> QED
  BY <1>4, <1>5, <1>8, <1>9 DEF IInv

\* A successful strong_lock() or weak_lock(): one more handle, of kind k.
LEMMA LockStep ==
  ASSUME IInv, NEW t \in Task, op[t].pc = "cas", op[t].fn \in Locks,
         NEW k \in {"strong", "weak"}, k = "strong" => uses.obj > 0,
         op' = [op EXCEPT ![t] = Quiet],
         kind' = [kind EXCEPT ![op[t].dst] = k],
         uses' = [ctl |-> uses.ctl + 1, obj |-> IF k = "strong" THEN uses.obj + 1 ELSE uses.obj],
         UNCHANGED <<owner, object, block>>
  PROVE  IInv'
<1> DEFINE dst == op[t].dst
<1>1. dst \in Handle /\ dst # None /\ kind[dst] = "null" /\ op[t].dead = {}
  BY SharedPtrAssumption DEF IInv, OpInv, OpOK
<1>2. op'[t] = Quiet /\ Apart' /\ \A u \in Task : u # t => op'[u] = op[u]
  BY QuietStep
<1>3. Quiet.pc = "none" /\ Quiet.fn = "none" /\ Quiet.dead = {}
  BY DEF Quiet
<1>4. /\ kind'[dst] = k /\ kind' \in [Handle -> Kinds]
      /\ \A h \in Handle : h # dst => kind'[h] = kind[h]
  BY <1>1 DEF IInv, TypeOK, Kinds
<1> HIDE DEF dst
<1>5. TypeOK'
  <2>1. uses' \in Counts
    BY Finite DEF Counts
  <2>2. op' \in [Task -> OpType]
    BY QuietStep
  <2> QED
    BY <1>4, <2>1, <2>2 DEF IInv, TypeOK
<1>6. \A u \in Task : u # t => op[u].src # dst /\ op[u].dst # dst
  <2>1. \A u \in Task : u # t => op[u].dst # dst
    BY <1>1 DEF IInv, Apart, dst
  <2>2. \A u \in Task : u # t => op[u].src # dst
    BY <1>1 DEF IInv, Apart, dst
  <2> QED
    BY <2>1, <2>2
<1>7. dst \notin Counted /\ Counted' = Counted \cup {dst}
  <2>1. dst \notin Counted
    BY <1>1 DEF Counted
  <2>2. \A u \in Task : op'[u].pc = "delete" => u # t /\ op'[u] = op[u] /\ op[u].src # dst
    BY <1>2, <1>3, <1>6
  <2>3. \A u \in Task : op[u].pc = "delete" => u # t /\ op'[u] = op[u]
    BY <1>2
  <2>4. dst \in Counted'
    BY <1>1, <1>4, <2>2 DEF Counted
  <2>5. \A h \in Handle : h # dst => (h \in Counted' <=> h \in Counted)
    BY <1>4, <2>2, <2>3 DEF Counted
  <2>6. Counted \subseteq Handle /\ Counted' \subseteq Handle
    BY DEF Counted
  <2> QED
    BY <1>1, <2>1, <2>4, <2>5, <2>6
<1>8. dst \notin Strong /\ Strong' = IF k = "strong" THEN Strong \cup {dst} ELSE Strong
  <2>1. dst \notin Strong /\ Strong' = {h \in Counted' : kind'[h] = "strong"}
    BY <1>7 DEF Strong
  <2>2. \A h \in Counted : kind'[h] = kind[h]
    BY <1>4, <1>7 DEF Counted
  <2> QED
    BY <1>4, <1>7, <2>1, <2>2 DEF Strong
<1>9. CountsExact'
  <2>1. Cardinality(Counted') = Cardinality(Counted) + 1
    BY <1>7, Finite, FS_AddElement
  <2>2. Cardinality(Strong') = IF k = "strong" THEN Cardinality(Strong) + 1 ELSE Cardinality(Strong)
    BY <1>8, Finite, FS_AddElement
  <2> QED
    BY <2>1, <2>2 DEF IInv, CountsExact
<1>10. Counted # {} /\ (k = "strong" => Strong # {})
  BY AtCas, Finite
<1>11. NoUseAfterFree'
  BY <1>7, <1>8, <1>10 DEF IInv, NoUseAfterFree
<1>12. \A u \in Task : op'[u].dead = op[u].dead
  BY <1>1, <1>2, <1>3
<1>13. DeadInv'
  BY <1>8, <1>10, <1>12 DEF IInv, DeadInv
<1>14. DeletedOnce'
  <2>1. Deleting("block")' = Deleting("block") /\ Deleting("object")' = Deleting("object")
    BY <1>12 DEF Deleting
  <2> QED
    BY <1>7, <1>8, <2>1 DEF IInv, DeletedOnce
<1>15. OpInv'
  <2>1. \A u \in Task : u # t /\ op[u].pc # "none" => kind'[op[u].src] = kind[op[u].src]
    BY <1>4, <1>6 DEF IInv, OpInv, OpOK
  <2>2. \A u \in Task : u # t /\ op[u].pc = "cas" /\ op[u].fn \in Locks
                         => kind'[op[u].dst] = kind[op[u].dst]
    BY <1>4, <1>6 DEF IInv, OpInv, OpOK
  <2> QED
    BY <1>2, <2>1, <2>2, OthersOpInv
<1> QED
  BY <1>2, <1>5, <1>9, <1>11, <1>13, <1>14, <1>15 DEF IInv

\* The compare and exchange of strong_release() or weak_release().
LEMMA ReleaseStep ==
  ASSUME IInv, NEW t \in Task, Release(t)
  PROVE  IInv'
<1> DEFINE src == op[t].src
           fn  == op[t].fn
           n   == Released(fn, uses)
           d   == ToDelete(fn, n)
<1>1. /\ op[t].pc = "cas" /\ fn \in Releases
      /\ uses' = n /\ op' = [op EXCEPT ![t].pc = "delete", ![t].dead = d]
      /\ kind' = kind /\ owner' = owner /\ object' = object /\ block' = block
  BY DEF Release, Releases
<1>2. src \in Counted /\ src \in Handle
  BY <1>1, AtCas
<1>3. (fn = "strong_release" => src \in Strong) /\ (fn = "weak_release" => src \notin Strong)
  BY <1>1, <1>2 DEF IInv, OpInv, OpOK, Strong
<1>4. /\ n.ctl = uses.ctl - 1
      /\ n.obj = IF fn = "strong_release" THEN uses.obj - 1 ELSE uses.obj
      /\ n = [ctl |-> n.ctl, obj |-> n.obj]
  BY DEF Released, IInv, TypeOK, Counts
<1>5. n \in Counts
  BY <1>2, <1>3, <1>4, Finite DEF Counts
<1>6. /\ d \in SUBSET {"block", "object"}
      /\ "block" \in d <=> n.ctl = 0
      /\ "object" \in d <=> fn = "strong_release" /\ n.obj = 0
  BY DEF ToDelete
<1> HIDE DEF n, d
<1>7. /\ op'[t] \in OpType /\ op'[t].pc = "delete" /\ op'[t].dead = d
      /\ op'[t].fn = fn /\ op'[t].src = src /\ op'[t].dst = op[t].dst
      /\ \A u \in Task : u # t => op'[u] = op[u]
      /\ op' \in [Task -> OpType]
  <2>1. op'[t] = [op[t] EXCEPT !.pc = "delete", !.dead = d] /\ \A u \in Task : u # t => op'[u] = op[u]
    BY <1>1 DEF IInv, TypeOK
  <2>2. op[t] \in OpType
    BY DEF IInv, TypeOK
  <2>3. /\ op'[t] \in OpType /\ op'[t].pc = "delete" /\ op'[t].dead = d
        /\ op'[t].fn = op[t].fn /\ op'[t].src = op[t].src /\ op'[t].dst = op[t].dst
    BY <1>6, <2>1, <2>2 DEF OpType
  <2> QED
    BY <1>1, <2>1, <2>3 DEF IInv, TypeOK
<1>8. TypeOK'
  BY <1>1, <1>5, <1>7 DEF IInv, TypeOK
<1>9. \A u \in Task : u # t => op[u].src # src
  BY <1>1, AtCas DEF IInv, Apart
<1> HIDE DEF src, fn
<1>10. Counted' = Counted \ {src}
  <2>1. src \notin Counted'
    BY <1>7 DEF Counted
  <2>2. \A h \in Handle : h # src => (h \in Counted' <=> h \in Counted)
    BY <1>1, <1>7 DEF Counted, src
  <2>3. Counted \subseteq Handle /\ Counted' \subseteq Handle
    BY DEF Counted
  <2> QED
    BY <2>1, <2>2, <2>3
<1>11. Strong' = Strong \ {src}
  BY <1>1, <1>10 DEF Strong
<1>12. CountsExact'
  <2>1. Cardinality(Counted') = Cardinality(Counted) - 1
    BY <1>2, <1>10, Finite, FS_RemoveElement
  <2>2. Cardinality(Strong') = IF fn = "strong_release" THEN Cardinality(Strong) - 1 ELSE Cardinality(Strong)
    BY <1>1, <1>3, <1>11, Finite, FS_RemoveElement DEF Releases
  <2> QED
    BY <1>1, <1>4, <2>1, <2>2 DEF IInv, CountsExact
<1>13. NoUseAfterFree'
  BY <1>1, <1>10, <1>11 DEF IInv, NoUseAfterFree
<1>14. /\ IsFiniteSet(Counted') /\ IsFiniteSet(Strong')
       /\ n.ctl = 0 <=> Counted' = {}
       /\ n.obj = 0 <=> Strong' = {}
  BY <1>1, <1>10, <1>11, <1>12, Finite, FS_RemoveElement, FS_EmptySet DEF CountsExact
<1>15. block = "live" /\ (fn = "strong_release" => object = "live")
  BY <1>2, <1>3 DEF IInv, NoUseAfterFree
<1>16. /\ \A u \in Task : u # t => "block" \notin op[u].dead
       /\ fn = "strong_release" => \A u \in Task : u # t => "object" \notin op[u].dead
  BY <1>2, <1>3 DEF IInv, DeadInv
<1>17. DeadInv'
  BY <1>1, <1>6, <1>7, <1>11, <1>14, <1>15, <1>16 DEF IInv, DeadInv
<1>18. DeletedOnce'
  <2>1. Deleting("block")' = IF n.ctl = 0 THEN {t} ELSE {}
    BY <1>6, <1>7, <1>16 DEF Deleting
  <2>2. fn = "strong_release" => Deleting("object")' = IF n.obj = 0 THEN {t} ELSE {}
    BY <1>6, <1>7, <1>16 DEF Deleting
  <2>3. fn # "strong_release" => Deleting("object")' = Deleting("object") /\ Strong' = Strong
    <3>1. op[t].dead = {}
      BY <1>1 DEF IInv, OpInv, OpOK
    <3> QED
      BY <1>1, <1>3, <1>6, <1>7, <1>11, <3>1 DEF Deleting, Releases
  <2>4. /\ \A u, v \in Deleting("block")' : u = v
        /\ Counted' = {} => (block' = "live" <=> Deleting("block")' # {})
    BY <1>1, <1>14, <1>15, <2>1
  <2>5. /\ \A u, v \in Deleting("object")' : u = v
        /\ Strong' = {} => (object' = "live" <=> Deleting("object")' # {})
    BY <1>1, <1>14, <1>15, <2>2, <2>3 DEF IInv, DeletedOnce
  <2> QED
    BY <2>4, <2>5 DEF DeletedOnce
<1>19. OpInv'
  BY <1>1, <1>7 DEF IInv, OpInv, OpOK, Releases, src, fn
<1>20. Apart'
  <2>1. \A u \in Task : op'[u].src = op[u].src /\ op'[u].dst = op[u].dst
    BY <1>7 DEF src
  <2> QED
    BY <2>1 DEF IInv, Apart
<1> QED
  BY <1>8, <1>12, <1>13, <1>17, <1>18, <1>19, <1>20 DEF IInv

\* t has deleted something; d is what it has left to delete.
LEMMA DeadStep ==
  ASSUME IInv, NEW t \in Task, NEW d \in SUBSET {"block", "object"}, op[t].pc = "delete",
         op' = [op EXCEPT ![t].dead = d], kind' = kind, owner' = owner, uses' = uses
  PROVE  /\ op' \in [Task -> OpType] /\ OpInv' /\ Apart' /\ CountsExact'
         /\ Counted' = Counted /\ Strong' = Strong
         /\ op'[t].dead = d /\ \A u \in Task : u # t => op'[u] = op[u]
<1>1. op'[t] = [op[t] EXCEPT !.dead = d] /\ \A u \in Task : u # t => op'[u] = op[u]
  BY DEF IInv, TypeOK
<1>2. op[t] \in OpType
  BY DEF IInv, TypeOK
<1>3. /\ op'[t] \in OpType /\ op'[t].pc = op[t].pc /\ op'[t].dead = d
      /\ op'[t].fn = op[t].fn /\ op'[t].src = op[t].src /\ op'[t].dst = op[t].dst
  BY <1>1, <1>2 DEF OpType
<1>4. op' \in [Task -> OpType]
  BY <1>1, <1>3 DEF IInv, TypeOK
<1>5. \A u \in Task : /\ op'[u].pc = op[u].pc /\ op'[u].fn = op[u].fn
                      /\ op'[u].src = op[u].src /\ op'[u].dst = op[u].dst
  BY <1>1, <1>3
<1>6. Counted' = Counted /\ Strong' = Strong
  BY <1>5, SameHandles
<1>7. OpInv'
  BY <1>1, <1>3 DEF IInv, OpInv, OpOK
<1>8. Apart'
  BY <1>5 DEF IInv, Apart
<1> QED
  BY <1>1, <1>3, <1>4, <1>6, <1>7, <1>8 DEF IInv, CountsExact

\* delete this.
LEMMA DeleteBlockStep ==
  ASSUME IInv, NEW t \in Task, DeleteBlock(t)
  PROVE  IInv'
<1> DEFINE d == op[t].dead \ {"block"}
<1>1. /\ op[t].pc = "delete" /\ "block" \in op[t].dead /\ block' = "deleted"
      /\ op' = [op EXCEPT ![t].dead = d]
      /\ kind' = kind /\ owner' = owner /\ uses' = uses /\ object' = object
  BY DEF DeleteBlock
<1>2. d \in SUBSET {"block", "object"}
  BY DEF IInv, TypeOK, OpType
<1> HIDE DEF d
<1>3. /\ op' \in [Task -> OpType] /\ OpInv' /\ Apart' /\ CountsExact'
      /\ Counted' = Counted /\ Strong' = Strong
      /\ op'[t].dead = d /\ \A u \in Task : u # t => op'[u] = op[u]
  BY <1>1, <1>2, DeadStep
<1>4. Counted = {} /\ \A u \in Task : u # t => "block" \notin op[u].dead
  BY <1>1 DEF IInv, DeadInv, DeletedOnce, Deleting
<1>5. TypeOK'
  BY <1>1, <1>3 DEF IInv, TypeOK
<1>6. Deleting("block")' = {} /\ Deleting("object")' = Deleting("object")
  BY <1>3, <1>4 DEF Deleting, d
<1>7. NoUseAfterFree' /\ DeletedOnce'
  BY <1>1, <1>3, <1>4, <1>6 DEF IInv, NoUseAfterFree, DeletedOnce
<1>8. DeadInv'
  BY <1>1, <1>3, <1>4 DEF IInv, DeadInv, d
<1> QED
  BY <1>3, <1>5, <1>7, <1>8 DEF IInv

\* delete _ptr.
LEMMA DeleteObjectStep ==
  ASSUME IInv, NEW t \in Task, DeleteObject(t)
  PROVE  IInv'
<1>1. /\ op[t].pc = "delete" /\ op[t].dead = {"object"} /\ object' = "deleted"
      /\ op' = [op EXCEPT ![t].dead = {}]
      /\ kind' = kind /\ owner' = owner /\ uses' = uses /\ block' = block
  BY DEF DeleteObject
<1>2. /\ op' \in [Task -> OpType] /\ OpInv' /\ Apart' /\ CountsExact'
      /\ Counted' = Counted /\ Strong' = Strong
      /\ op'[t].dead = {} /\ \A u \in Task : u # t => op'[u] = op[u]
  <2> DEFINE d == {}
  <2>1. d \in SUBSET {"block", "object"} /\ op' = [op EXCEPT ![t].dead = d]
    BY <1>1
  <2> HIDE DEF d
  <2>2. /\ op' \in [Task -> OpType] /\ OpInv' /\ Apart' /\ CountsExact'
        /\ Counted' = Counted /\ Strong' = Strong
        /\ op'[t].dead = d /\ \A u \in Task : u # t => op'[u] = op[u]
    BY <1>1, <2>1, DeadStep
  <2> QED
    BY <2>2 DEF d
<1>3. Strong = {} /\ \A u \in Task : u # t => "object" \notin op[u].dead
  BY <1>1 DEF IInv, DeadInv, DeletedOnce, Deleting
<1>4. TypeOK'
  BY <1>1, <1>2 DEF IInv, TypeOK
<1>5. Deleting("object")' = {} /\ Deleting("block")' = Deleting("block")
  BY <1>1, <1>2, <1>3 DEF Deleting
<1>6. NoUseAfterFree' /\ DeletedOnce'
  BY <1>1, <1>2, <1>3, <1>5 DEF IInv, NoUseAfterFree, DeletedOnce
<1>7. DeadInv'
  BY <1>1, <1>2, <1>3 DEF IInv, DeadInv
<1> QED
  BY <1>2, <1>4, <1>6, <1>7 DEF IInv

\* The end of unref(): the handle was not counted any more.
LEMMA EndUnrefStep ==
  ASSUME IInv, NEW t \in Task, EndUnref(t)
  PROVE  IInv'
<1> DEFINE src == op[t].src
<1>1. /\ op[t].pc = "delete" /\ op[t].dead = {}
      /\ kind' = [kind EXCEPT ![src] = "null"]
      /\ op' = [op EXCEPT ![t] = Quiet]
      /\ owner' = owner /\ UNCHANGED <<uses, object, block>>
  BY DEF EndUnref
<1>2. src \in Handle /\ src # None /\ src \notin Counted
  BY <1>1, SharedPtrAssumption DEF IInv, OpInv, OpOK, Counted
<1>3. op'[t] = Quiet /\ Apart' /\ op' \in [Task -> OpType] /\ \A u \in Task : u # t => op'[u] = op[u]
  BY <1>1, QuietStep
<1>4. Quiet.pc = "none" /\ Quiet.fn = "none" /\ Quiet.dead = {}
  BY DEF Quiet
<1>5. /\ kind'[src] = "null" /\ kind' \in [Handle -> Kinds]
      /\ \A h \in Handle : h # src => kind'[h] = kind[h]
  BY <1>1, <1>2 DEF IInv, TypeOK, Kinds
<1>6. \A u \in Task : u # t => op[u].src # src /\ op[u].dst # src
  BY <1>2 DEF IInv, Apart
<1>7. TypeOK'
  BY <1>1, <1>3, <1>5 DEF IInv, TypeOK
<1>8. Counted' = Counted
  <2>1. src \notin Counted'
    BY <1>5 DEF Counted
  <2>2. \A u \in Task : op'[u].pc = "delete" => op'[u] = op[u]
    BY <1>3, <1>4
  <2>3. \A u \in Task : op[u].pc = "delete" => op'[u] = op[u] \/ op[u].src = src
    BY <1>3
  <2>4. \A h \in Handle : h # src => (h \in Counted' <=> h \in Counted)
    BY <1>5, <2>2, <2>3 DEF Counted
  <2>5. Counted \subseteq Handle /\ Counted' \subseteq Handle
    BY DEF Counted
  <2> QED
    BY <1>2, <2>1, <2>4, <2>5
<1>9. Strong' = Strong
  <2>1. \A h \in Counted : kind'[h] = kind[h]
    BY <1>2, <1>5 DEF Counted
  <2> QED
    BY <1>8, <2>1 DEF Strong
<1>10. CountsExact' /\ NoUseAfterFree' /\ DeletedOnce' /\ DeadInv'
  BY <1>1, <1>3, <1>4, <1>8, <1>9, Same
<1>11. OpInv'
  <2>1. \A u \in Task : u # t /\ op[u].pc # "none" => kind'[op[u].src] = kind[op[u].src]
    BY <1>5, <1>6 DEF IInv, OpInv, OpOK
  <2>2. \A u \in Task : u # t /\ op[u].pc = "cas" /\ op[u].fn \in Locks
                         => kind'[op[u].dst] = kind[op[u].dst]
    BY <1>5, <1>6 DEF IInv, OpInv, OpOK
  <2> QED
    BY <1>3, <2>1, <2>2, OthersOpInv
<1> QED
  BY <1>3, <1>7, <1>10, <1>11 DEF IInv

-----------------------------------------------------------------------------
\* SharedPtr(T *data) creates one handle and sets both counters to one.
LEMMA InitIInv ==
  ASSUME Init PROVE IInv
<1>1. \A t \in Task : op[t] = Quiet
  BY DEF Init
<1>2. /\ Quiet.pc = "none" /\ Quiet.fn = "none" /\ Quiet.dead = {}
      /\ Quiet.src = None /\ Quiet.dst = None /\ Quiet \in OpType
  BY DEF Quiet, OpType, Counts
<1>3. TypeOK
  BY <1>2 DEF Init, TypeOK, Kinds, Counts
<1>4. Counted = {First} /\ Strong = {First}
  <2>1. Counted = {First}
    BY <1>1, <1>2, SharedPtrAssumption DEF Init, Counted
  <2> QED
    BY <2>1, SharedPtrAssumption DEF Init, Strong
<1>5. CountsExact
  BY <1>4, FS_Singleton DEF Init, CountsExact
<1>6. Deleting("block") = {} /\ Deleting("object") = {}
  BY <1>1, <1>2 DEF Deleting
<1>7. NoUseAfterFree /\ DeletedOnce
  BY <1>4, <1>6 DEF Init, NoUseAfterFree, DeletedOnce
<1>8. OpInv /\ Apart /\ DeadInv
  BY <1>1, <1>2 DEF OpInv, OpOK, Apart, DeadInv, Releases
<1> QED
  BY <1>3, <1>5, <1>7, <1>8 DEF IInv

\* Every step of every task preserves the invariant.
LEMMA NextIInv ==
  ASSUME IInv, [Next]_vars PROVE IInv'
<1>1. CASE UNCHANGED vars
  <2>1. UNCHANGED <<kind, owner, uses, object, block, op>>
    BY <1>1 DEF vars
  <2>2. Counted' = Counted /\ Strong' = Strong
    BY <2>1, SameHandles
  <2>3. CountsExact' /\ NoUseAfterFree' /\ DeletedOnce' /\ DeadInv'
    BY <2>1, <2>2, Same
  <2>4. TypeOK'
    BY <2>1 DEF IInv, TypeOK
  <2>5. OpInv'
    BY <2>1 DEF IInv, OpInv, OpOK
  <2>6. Apart'
    BY <2>1 DEF IInv, Apart
  <2> QED
    BY <2>3, <2>4, <2>5, <2>6 DEF IInv
<1>2. ASSUME NEW t \in Task, NEW src \in Handle, NEW dst \in Handle, Acquire(t, src, dst)
      PROVE  IInv'
  <2>1. CASE Call(t, "strong_lock", src, dst)
    BY <1>2, <2>1, CallStep DEF Acquire, Locks
  <2>2. CASE Call(t, "weak_lock", src, dst)
    BY <1>2, <2>2, CallStep DEF Acquire, Locks
  <2> QED
    BY <1>2, <2>1, <2>2 DEF Acquire
<1>3. ASSUME NEW t \in Task, NEW src \in Handle, Unref(t, src)
      PROVE  IInv'
  <2>1. kind[src] \in {"strong", "weak"} /\ Untouched(src)
    BY <1>3 DEF Unref, IInv, TypeOK, Kinds
  <2>2. CASE kind[src] = "strong"
    BY <1>3, <2>1, <2>2, CallStep DEF Unref
  <2>3. CASE kind[src] = "weak"
    BY <1>3, <2>1, <2>3, CallStep DEF Unref
  <2> QED
    BY <2>1, <2>2, <2>3
<1>4. ASSUME NEW t \in Task, StrongLock(t) PROVE IInv'
  <2>1. uses.obj > 0
    BY SMTT(60), <1>4, Finite DEF StrongLock, LockRefused
  <2> QED
    BY <1>4, <2>1, LockStep DEF StrongLock, Locks
<1>5. ASSUME NEW t \in Task, WeakLock(t) PROVE IInv'
  <2>1. uses' = [ctl |-> uses.ctl + 1, obj |-> uses.obj]
    BY <1>5 DEF WeakLock, IInv, TypeOK, Counts
  <2> QED
    BY <1>5, <2>1, LockStep DEF WeakLock, Locks
<1> QED
  BY <1>1, <1>2, <1>3, <1>4, <1>5, MoveStep, RetryStep, LockFailsStep, ReleaseStep,
     DeleteBlockStep, DeleteObjectStep, EndUnrefStep DEF Next, Step

\* The inductive invariant of the reference counts (PointersCollection.hpp).
THEOREM IInvariant == Spec => []IInv
<1>1. Init => IInv
  BY InitIInv
<1>2. IInv /\ [Next]_vars => IInv'
  BY NextIInv
<1> QED
  BY <1>1, <1>2, PTL DEF Spec

\* Type correctness: in particular the counters never fall below zero
\* (weak_release, strong_release).
THEOREM TypeCorrect == Spec => []TypeOK
<1>1. IInv => TypeOK
  BY DEF IInv
<1> QED
  BY <1>1, IInvariant, PTL

\* The counters are the numbers of handles, for any number of tasks that copy,
\* lock and drop handles at the same time (strong_lock, weak_lock,
\* strong_release, weak_release).
THEOREM CountersExact == Spec => []CountsExact
<1>1. IInv => CountsExact
  BY DEF IInv
<1> QED
  BY <1>1, IInvariant, PTL

\* No function reaches a deleted control block and no SharedPtr a deleted
\* object.
THEOREM NeverDangling == Spec => []NoUseAfterFree
<1>1. IInv => NoUseAfterFree
  BY DEF IInv
<1> QED
  BY <1>1, IInvariant, PTL

\* Object and control block are deleted once, by one task, and are not leaked
\* (unref).
THEOREM DeletedExactlyOnce == Spec => []DeletedOnce
<1>1. IInv => DeletedOnce
  BY DEF IInv
<1> QED
  BY <1>1, IInvariant, PTL

\* WeakPtr::lock() does not revive an object (strong_lock).
THEOREM NeverRevived == Spec => NoRevival
<1>1. ASSUME IInv, [Next]_vars, uses.obj = 0 PROVE uses'.obj = 0
  <2>1. Strong = {}
    BY <1>1, Finite
  <2>2. ASSUME NEW t \in Task, Release(t) PROVE uses'.obj = uses.obj
    <3>1. op[t].pc = "cas" /\ op[t].fn \in Releases /\ uses' = Released(op[t].fn, uses)
      BY <2>2 DEF Release, Releases
    <3>2. op[t].fn # "strong_release"
      BY <1>1, <2>1, <3>1, AtCas DEF IInv, OpInv, OpOK, Strong
    <3> QED
      BY <1>1, <3>1, <3>2 DEF Released, IInv, TypeOK, Counts
  <2>3. ASSUME NEW t \in Task PROVE ~StrongLock(t)
    BY <1>1 DEF StrongLock, LockRefused
  <2>4. ASSUME NEW t \in Task, WeakLock(t) PROVE uses'.obj = uses.obj
    BY <1>1, <2>4 DEF WeakLock, IInv, TypeOK, Counts
  <2> QED
    BY ZenonT(60), <1>1, <2>2, <2>3, <2>4
       DEF Next, Step, Acquire, Call, Move, Unref, Retry, LockFails, DeleteBlock, DeleteObject,
           EndUnref, vars
<1>2. IInv /\ [Next]_vars => [uses.obj = 0 => uses'.obj = 0]_vars
  BY <1>1
<1> QED
  BY <1>2, IInvariant, PTL DEF Spec, NoRevival
=============================================================================
