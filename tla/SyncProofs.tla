----------------------------- MODULE SyncProofs -----------------------------
(***************************************************************************)
(* Proofs, for any number of tasks, mutexes and condition variables, of    *)
(* the safety properties of Sync.                                          *)
(***************************************************************************)
EXTENDS Sync, TLAPS

-----------------------------------------------------------------------------
(* Sequences without repetitions. *)

\* Appending to a list of nodes adds the node and keeps the nodes distinct
\* (List::emplace_front).
LEMMA AppendNode ==
  ASSUME NEW S, NEW q \in Seq(S), NEW x \in S
  PROVE  /\ Append(q, x) \in Seq(S)
         /\ Range(Append(q, x)) = Range(q) \cup {x}
         /\ IsInjective(q) /\ x \notin Range(q) => IsInjective(Append(q, x))
<1> DEFINE r == Append(q, x)
<1>1. r \in Seq(S) /\ Len(r) = Len(q) + 1 /\ r[Len(q) + 1] = x
  OBVIOUS
<1>2. \A i \in 1..Len(q) : r[i] = q[i]
  OBVIOUS
<1>3. DOMAIN r = 1..(Len(q) + 1) /\ DOMAIN q = 1..Len(q) /\ Len(q) \in Nat
  BY <1>1
<1>4. Range(r) = Range(q) \cup {x}
  BY <1>1, <1>2, <1>3 DEF Range
<1>5. ASSUME IsInjective(q), x \notin Range(q)
      PROVE  IsInjective(r)
  BY <1>1, <1>2, <1>3, <1>5 DEF Range, IsInjective
<1> QED
  BY <1>1, <1>3, <1>4, <1>5

\* Taking the oldest node off a list removes just that node
\* (List::extract_back).
LEMMA TailNode ==
  ASSUME NEW S, NEW q \in Seq(S), q # <<>>
  PROVE  /\ Head(q) \in S /\ Tail(q) \in Seq(S) /\ Head(q) \in Range(q)
         /\ IsInjective(q) => /\ Range(Tail(q)) = Range(q) \ {Head(q)}
                              /\ IsInjective(Tail(q))
<1> DEFINE r == Tail(q)
<1>1. /\ Len(q) \in Nat \ {0} /\ Len(r) = Len(q) - 1 /\ r \in Seq(S)
      /\ Head(q) = q[1] /\ Head(q) \in S
  OBVIOUS
<1>2. \A i \in 1..Len(r) : r[i] = q[i + 1]
  BY <1>1
<1>3. DOMAIN r = 1..(Len(q) - 1) /\ DOMAIN q = 1..Len(q)
  BY <1>1
<1>4. Head(q) \in Range(q)
  BY <1>1, <1>3 DEF Range
<1>5. ASSUME IsInjective(q)
      PROVE  Range(r) = Range(q) \ {Head(q)}
  <2>1. ASSUME NEW y \in Range(r) PROVE y \in Range(q) /\ y # Head(q)
    <3>1. PICK i \in 1..(Len(q) - 1) : y = q[i + 1]
      BY <1>1, <1>2, <1>3 DEF Range
    <3>2. i + 1 \in 1..Len(q) /\ i + 1 # 1
      BY <1>1
    <3> QED
      BY <3>1, <3>2, <1>1, <1>3, <1>5 DEF Range, IsInjective
  <2>2. ASSUME NEW y \in Range(q), y # Head(q) PROVE y \in Range(r)
    <3>1. PICK i \in 1..Len(q) : y = q[i]
      BY <1>3 DEF Range
    <3>2. i - 1 \in 1..Len(r) /\ r[i - 1] = y
      BY <3>1, <2>2, <1>1, <1>2
    <3> QED
      BY <3>2, <1>3, <1>1 DEF Range
  <2> QED
    BY <2>1, <2>2
<1>6. ASSUME IsInjective(q)
      PROVE  IsInjective(r)
  <2> SUFFICES ASSUME NEW i \in 1..Len(r), NEW j \in 1..Len(r), r[i] = r[j]
               PROVE  i = j
    BY <1>1, <1>3 DEF IsInjective
  <2>1. q[i + 1] = q[j + 1] /\ i + 1 \in 1..Len(q) /\ j + 1 \in 1..Len(q)
    BY <1>1, <1>2
  <2> QED
    BY <2>1, <1>1, <1>3, <1>6 DEF IsInjective
<1> QED
  BY <1>1, <1>4, <1>5, <1>6

-----------------------------------------------------------------------------
(* What the operators on scheduler records change. *)

\* NextTasks.emplace_front changes the run queue only.
LEMMA PushNextFields ==
  ASSUME NEW s \in SchedRec, NEW n \in Task
  PROVE  /\ PushNext(s, n) \in SchedRec
         /\ PushNext(s, n).next = Append(s.next, n)
         /\ PushNext(s, n).wait = s.wait
         /\ PushNext(s, n).st = s.st
         /\ s.ok /\ ~OnList(s, n) => PushNext(s, n).ok
<1> DEFINE b == s.ok /\ ~OnList(s, n)
           x == Append(s.next, n)
<1>1. b \in BOOLEAN /\ x \in Seq(Task)
  BY DEF SchedRec
<1>2. PushNext(s, n) = [s EXCEPT !.next = x, !.ok = b]
  BY DEF PushNext
<1>3. ASSUME s.ok, ~OnList(s, n) PROVE PushNext(s, n).ok
  <2>1. b = TRUE
    BY <1>3
  <2> QED
    BY <1>2, <2>1 DEF SchedRec
<1> HIDE DEF b, x
<1>4. /\ PushNext(s, n) \in SchedRec
      /\ PushNext(s, n).next = x
      /\ PushNext(s, n).wait = s.wait
      /\ PushNext(s, n).st = s.st
  BY <1>1, <1>2 DEF SchedRec
<1> QED
  BY <1>3, <1>4 DEF x

\* waiters.emplace_front changes one waiter list only.
LEMMA PushWaiterFields ==
  ASSUME NEW s \in SchedRec, NEW n \in Task, NEW q \in WaitLists
  PROVE  /\ PushWaiter(s, q, n) \in SchedRec
         /\ PushWaiter(s, q, n).next = s.next
         /\ PushWaiter(s, q, n).st = s.st
         /\ PushWaiter(s, q, n).wait = [s.wait EXCEPT ![q] = Append(s.wait[q], n)]
         /\ s.ok /\ ~OnList(s, n) => PushWaiter(s, q, n).ok
<1> DEFINE b == s.ok /\ ~OnList(s, n)
           x == Append(s.wait[q], n)
<1>1. b \in BOOLEAN /\ x \in Seq(Task)
  BY DEF SchedRec
<1>2. PushWaiter(s, q, n) = [s EXCEPT !.wait[q] = x, !.ok = b]
  BY DEF PushWaiter
<1>3. ASSUME s.ok, ~OnList(s, n) PROVE PushWaiter(s, q, n).ok
  <2>1. b = TRUE
    BY <1>3
  <2> QED
    BY <1>2, <2>1 DEF SchedRec
<1> HIDE DEF b, x
<1>4. /\ PushWaiter(s, q, n) \in SchedRec
      /\ PushWaiter(s, q, n).next = s.next
      /\ PushWaiter(s, q, n).st = s.st
      /\ PushWaiter(s, q, n).wait = [s.wait EXCEPT ![q] = x]
  BY ZenonT(60), <1>1, <1>2 DEF SchedRec
<1> QED
  BY <1>3, <1>4 DEF x

\* Scheduler::unblock queues the node and marks its task runnable.
LEMMA UnblockFields ==
  ASSUME NEW s \in SchedRec, NEW n \in Task
  PROVE  /\ Unblock(s, n) \in SchedRec
         /\ Unblock(s, n).next = Append(s.next, n)
         /\ Unblock(s, n).wait = s.wait
         /\ Unblock(s, n).st = [s.st EXCEPT ![n] = "RUNNING"]
         /\ s.ok /\ ~OnList(s, n) /\ s.st[n] # "RUNNING" => Unblock(s, n).ok
<1> DEFINE b == s.ok /\ ~OnList(s, n) /\ s.st[n] # "RUNNING"
           x == Append(s.next, n)
           y == [s.st EXCEPT ![n] = "RUNNING"]
<1>1. b \in BOOLEAN /\ x \in Seq(Task) /\ y \in [Task -> TaskState]
  BY DEF SchedRec, TaskState
<1>2. Unblock(s, n) = [next |-> x, wait |-> s.wait, st |-> y, ok |-> b]
  BY DEF Unblock
<1>3. s.ok /\ ~OnList(s, n) /\ s.st[n] # "RUNNING" => b = TRUE
  OBVIOUS
<1> HIDE DEF b, x, y
<1>5. b = TRUE => Unblock(s, n).ok
  BY <1>2
<1>4. /\ Unblock(s, n) \in SchedRec
      /\ Unblock(s, n).next = x
      /\ Unblock(s, n).wait = s.wait
      /\ Unblock(s, n).st = y
  BY <1>1, <1>2 DEF SchedRec
<1> QED
  BY <1>3, <1>4, <1>5 DEF x, y

\* An assignment to _state changes nothing else.
LEMMA SetStateFields ==
  ASSUME NEW s \in SchedRec, NEW t \in Task, NEW v \in TaskState
  PROVE  /\ SetState(s, t, v) \in SchedRec
         /\ SetState(s, t, v).next = s.next
         /\ SetState(s, t, v).wait = s.wait
         /\ SetState(s, t, v).ok = s.ok
         /\ SetState(s, t, v).st = [s.st EXCEPT ![t] = v]
  BY DEF SchedRec, SetState

-----------------------------------------------------------------------------
(* How they keep every node in its place. *)

\* Scheduler::unblock of a node that was taken off a list.
LEMMA UnblockPlaced ==
  ASSUME NEW s, NEW on, NEW hand, NEW n \in hand, hand \subseteq Task,
         Placed(s, on, hand), s.ok
  PROVE  Placed(Unblock(s, n), on, hand \ {n}) /\ Unblock(s, n).ok
<1> DEFINE r == Unblock(s, n)
<1>1. s \in SchedRec /\ n \in Task
  BY DEF Placed
<1>2. /\ r \in SchedRec
      /\ r.next = Append(s.next, n) /\ r.wait = s.wait
      /\ r.st = [s.st EXCEPT ![n] = "RUNNING"]
      /\ s.ok /\ ~OnList(s, n) /\ s.st[n] # "RUNNING" => r.ok
  BY <1>1, UnblockFields
<1>3. s.st[n] = "BLOCKED" /\ n \notin Range(s.next) /\ n \notin on
  BY <1>1 DEF Placed
<1>4. ~OnList(s, n)
  BY <1>3 DEF Placed, OnList
<1>5. r.ok
  BY <1>2, <1>3, <1>4
<1>6. Range(r.next) = Range(s.next) \cup {n} /\ IsInjective(r.next)
  BY <1>1, <1>2, <1>3, AppendNode DEF Placed, SchedRec
<1>7. \A t \in Task : r.st[t] = IF t = n THEN "RUNNING" ELSE s.st[t]
  BY <1>1, <1>2 DEF SchedRec
<1> HIDE DEF r
<1>8. \A t \in Task : r.st[t] = "RUNNING" <=> t \in Range(r.next) \cup on
  BY <1>1, <1>6, <1>7 DEF Placed
<1>9. \A t \in Task : r.st[t] = "BLOCKED" <=>
        t \in hand \ {n} \/ \E q \in WaitLists : t \in Range(r.wait[q])
  BY <1>1, <1>2, <1>3, <1>7 DEF Placed
<1>10. Placed(r, on, hand \ {n})
  <2>1. on \cap Range(r.next) = {}
    BY <1>3, <1>6 DEF Placed
  <2>2. /\ \A q \in WaitLists : IsInjective(r.wait[q])
        /\ \A q \in WaitLists : (hand \ {n}) \cap Range(r.wait[q]) = {}
        /\ \A q, p \in WaitLists : q # p => Range(r.wait[q]) \cap Range(r.wait[p]) = {}
    BY ZenonT(60), <1>2 DEF Placed
  <2>3. (\A t \in Task : r.st[t] \in {"RUNNING", "BLOCKED"}) /\ r.st[Idle] = "RUNNING"
    BY <1>7, SchedulerAssumption DEF Placed
  <2> QED
    BY <1>2, <1>6, <1>8, <1>9, <2>1, <2>2, <2>3 DEF Placed
<1> QED
  BY <1>5, <1>10 DEF r

\* extract_back from the waiters of q.
LEMMA ExtractPlaced ==
  ASSUME NEW s, NEW on, NEW hand, hand \subseteq Task,
         NEW q \in WaitLists, s.wait[q] # <<>>, Placed(s, on, hand)
  PROVE  LET h == Head(s.wait[q])
             r == [s EXCEPT !.wait[q] = Tail(s.wait[q])]
         IN  /\ h \in Task /\ h \notin hand
             /\ Placed(r, on, hand \cup {h}) /\ (s.ok => r.ok)
<1> DEFINE h == Head(s.wait[q])
           x == Tail(s.wait[q])
           r == [s EXCEPT !.wait[q] = x]
<1>1. s \in SchedRec /\ s.wait[q] \in Seq(Task) /\ IsInjective(s.wait[q])
  BY DEF Placed, SchedRec
<1>2. /\ h \in Task /\ x \in Seq(Task) /\ h \in Range(s.wait[q])
      /\ Range(x) = Range(s.wait[q]) \ {h} /\ IsInjective(x)
  BY <1>1, TailNode
<1> HIDE DEF x, h
<1>3. /\ r \in SchedRec /\ r.next = s.next /\ r.st = s.st /\ r.ok = s.ok
      /\ r.wait = [s.wait EXCEPT ![q] = x]
  BY <1>1, <1>2 DEF SchedRec
<1>4. \A p \in WaitLists : r.wait[p] = IF p = q THEN x ELSE s.wait[p]
  BY <1>1, <1>3 DEF SchedRec
<1> HIDE DEF r
<1>5. \A p \in WaitLists : Range(r.wait[p]) = Range(s.wait[p]) \ {h}
  BY <1>2, <1>4 DEF Placed
<1>6. h \notin hand
  BY <1>2 DEF Placed
<1>7. \A t \in Task : r.st[t] = "BLOCKED" <=>
        t \in hand \cup {h} \/ \E p \in WaitLists : t \in Range(r.wait[p])
  BY <1>2, <1>3, <1>5 DEF Placed
<1>8. Placed(r, on, hand \cup {h})
  <2>1. \A p \in WaitLists : IsInjective(r.wait[p])
    BY <1>2, <1>4 DEF Placed
  <2>3. \A p \in WaitLists : (hand \cup {h}) \cap Range(r.wait[p]) = {}
    BY <1>5 DEF Placed
  <2>4. \A o, p \in WaitLists : o # p => Range(r.wait[o]) \cap Range(r.wait[p]) = {}
    BY <1>5 DEF Placed
  <2>2. /\ IsInjective(r.next) /\ on \cap Range(r.next) = {}
        /\ \A t \in Task : r.st[t] = "RUNNING" <=> t \in Range(r.next) \cup on
        /\ \A t \in Task : r.st[t] \in {"RUNNING", "BLOCKED"}
        /\ r.st[Idle] = "RUNNING"
    BY <1>3 DEF Placed
  <2> QED
    BY <1>3, <1>7, <2>1, <2>2, <2>3, <2>4 DEF Placed
<1> QED
  BY <1>2, <1>3, <1>6, <1>8 DEF r, h, x

\* CV::notify_one, and the waiter part of unlock_nolock.
LEMMA UnblockOnePlaced ==
  ASSUME NEW s, NEW on, NEW hand, hand \subseteq Task,
         NEW q \in WaitLists, Placed(s, on, hand), s.ok
  PROVE  /\ Placed(UnblockOne(s, q), on, hand) /\ UnblockOne(s, q).ok
         /\ \A t \in on : UnblockOne(s, q).st[t] = s.st[t]
<1>1. CASE s.wait[q] = <<>>
  BY <1>1 DEF UnblockOne
<1>2. CASE s.wait[q] # <<>>
  <2> DEFINE h == Head(s.wait[q])
             r == [s EXCEPT !.wait[q] = Tail(s.wait[q])]
  <2>1. /\ h \in Task /\ h \notin hand
        /\ Placed(r, on, hand \cup {h}) /\ (s.ok => r.ok)
    BY <1>2, ExtractPlaced
  <2>2. UnblockOne(s, q) = Unblock(r, h)
    BY <1>2 DEF UnblockOne
  <2>3. r.st = s.st /\ r \in SchedRec
    BY ZenonT(60), <2>1 DEF Placed, SchedRec
  <2> HIDE DEF h, r
  <2>9. r.ok
    BY <2>1
  <2>4. (hand \cup {h}) \ {h} = hand /\ hand \cup {h} \subseteq Task
    BY <2>1
  <2>5. Placed(Unblock(r, h), on, hand) /\ Unblock(r, h).ok
    BY <2>1, <2>4, <2>9, UnblockPlaced
  <2>6. \A t \in on : t # h
    BY <2>1 DEF Placed
  <2>7. Unblock(r, h).st = [s.st EXCEPT ![h] = "RUNNING"]
    BY <2>1, <2>3, UnblockFields
  <2>8. s.st \in [Task -> TaskState]
    BY DEF Placed, SchedRec
  <2> QED
    BY <2>2, <2>5, <2>6, <2>7, <2>8
<1> QED
  BY <1>1, <1>2

\* The running task n joins the waiters of q and blocks.
LEMMA BlockPlaced ==
  ASSUME NEW s, NEW hand, hand \subseteq Task, NEW q \in WaitLists,
         NEW n \in Task \ {Idle}, Placed(s, {n}, hand), s.ok
  PROVE  LET r == SetState(PushWaiter(s, q, n), n, "BLOCKED")
         IN  Placed(r, {}, hand) /\ r.ok /\ r.st[n] = "BLOCKED"
<1> DEFINE w == PushWaiter(s, q, n)
           r == SetState(w, n, "BLOCKED")
<1>1. s \in SchedRec /\ s.st[n] = "RUNNING" /\ n \notin Range(s.next) /\ n \notin hand
  BY DEF Placed
<1>2. \A p \in WaitLists : n \notin Range(s.wait[p])
  BY <1>1 DEF Placed
<1>3. ~OnList(s, n)
  BY <1>1, <1>2 DEF OnList
<1>4. /\ w \in SchedRec /\ w.next = s.next /\ w.st = s.st /\ w.ok
      /\ w.wait = [s.wait EXCEPT ![q] = Append(s.wait[q], n)]
  BY <1>1, <1>3, PushWaiterFields
<1> HIDE DEF w
<1>15. /\ r \in SchedRec /\ r.next = w.next /\ r.ok = w.ok /\ r.wait = w.wait
       /\ r.st = [w.st EXCEPT ![n] = "BLOCKED"]
  <2>1. w \in SchedRec /\ "BLOCKED" \in TaskState
    BY <1>4 DEF TaskState
  <2> QED
    BY <2>1, SetStateFields
<1> HIDE DEF r
<1>16. r.ok
  BY <1>4, <1>15
<1>5. /\ r \in SchedRec /\ r.next = s.next /\ r.wait = w.wait
      /\ r.st = [s.st EXCEPT ![n] = "BLOCKED"]
  BY <1>4, <1>15
<1>6. \A p \in WaitLists : r.wait[p] = IF p = q THEN Append(s.wait[q], n) ELSE s.wait[p]
  BY <1>1, <1>4, <1>5 DEF SchedRec
<1>7. \A t \in Task : r.st[t] = IF t = n THEN "BLOCKED" ELSE s.st[t]
  BY <1>1, <1>5 DEF SchedRec
<1>8. /\ Range(Append(s.wait[q], n)) = Range(s.wait[q]) \cup {n}
      /\ IsInjective(Append(s.wait[q], n))
  BY <1>1, <1>2, AppendNode DEF Placed, SchedRec
<1>9. /\ \A p \in WaitLists : IsInjective(r.wait[p])
      /\ \A p \in WaitLists :
           Range(r.wait[p]) = IF p = q THEN Range(s.wait[q]) \cup {n} ELSE Range(s.wait[p])
  BY <1>6, <1>8 DEF Placed
<1>10. \A t \in Task : r.st[t] = "BLOCKED" <=>
         t \in hand \/ \E p \in WaitLists : t \in Range(r.wait[p])
  BY <1>7, <1>9, <1>2 DEF Placed
<1>11. /\ \A t \in Task : r.st[t] = "RUNNING" <=> t \in Range(r.next) \cup {}
       /\ \A t \in Task : r.st[t] \in {"RUNNING", "BLOCKED"}
       /\ r.st[Idle] = "RUNNING"
  BY <1>1, <1>5, <1>7, SchedulerAssumption DEF Placed
<1>12. /\ \A p \in WaitLists : hand \cap Range(r.wait[p]) = {}
       /\ \A o, p \in WaitLists : o # p => Range(r.wait[o]) \cap Range(r.wait[p]) = {}
  BY <1>1, <1>2, <1>9 DEF Placed
<1>13. IsInjective(r.next)
  BY <1>5 DEF Placed
<1>14. Placed(r, {}, hand)
  BY <1>5, <1>9, <1>10, <1>11, <1>12, <1>13 DEF Placed
<1> QED
  BY <1>7, <1>14, <1>16 DEF r, w

\* switch_task queues the running task n.
LEMMA QueuePlaced ==
  ASSUME NEW s, NEW hand, NEW n \in Task, Placed(s, {n}, hand), s.ok
  PROVE  Placed(PushNext(s, n), {}, hand) /\ PushNext(s, n).ok
<1> DEFINE r == PushNext(s, n)
<1>1. s \in SchedRec /\ s.st[n] = "RUNNING" /\ n \notin Range(s.next)
  BY DEF Placed
<1>2. ~OnList(s, n)
  BY <1>1 DEF OnList, Placed
<1>3. /\ r \in SchedRec /\ r.next = Append(s.next, n) /\ r.wait = s.wait
      /\ r.st = s.st /\ r.ok
  BY <1>1, <1>2, PushNextFields
<1>4. Range(r.next) = Range(s.next) \cup {n} /\ IsInjective(r.next)
  BY <1>1, <1>3, AppendNode DEF Placed, SchedRec
<1> HIDE DEF r
<1>5. \A t \in Task : r.st[t] = "RUNNING" <=> t \in Range(r.next) \cup {}
  BY <1>3, <1>4 DEF Placed
<1>6. /\ \A q \in WaitLists : IsInjective(r.wait[q])
      /\ \A t \in Task :
           r.st[t] = "BLOCKED" <=> t \in hand \/ \E q \in WaitLists : t \in Range(r.wait[q])
      /\ \A t \in Task : r.st[t] \in {"RUNNING", "BLOCKED"}
      /\ \A q \in WaitLists : hand \cap Range(r.wait[q]) = {}
      /\ \A q, p \in WaitLists : q # p => Range(r.wait[q]) \cap Range(r.wait[p]) = {}
      /\ r.st[Idle] = "RUNNING"
  BY ZenonT(60), <1>3 DEF Placed
<1>7. Placed(r, {}, hand)
  BY <1>3, <1>4, <1>5, <1>6 DEF Placed
<1> QED
  BY <1>3, <1>7 DEF r

\* switch_task gives the CPU to the oldest entry of the run queue; there is one,
\* because the dummy task never blocks.
LEMMA DispatchPlaced ==
  ASSUME NEW s, NEW hand, Placed(s, {}, hand), s.ok
  PROVE  LET h == Head(s.next)
             r == [s EXCEPT !.next = Tail(s.next)]
         IN  /\ s.next # <<>> /\ h \in Task /\ s.st[h] = "RUNNING"
             /\ Placed(r, {h}, hand) /\ r.ok
<1> DEFINE h == Head(s.next)
           x == Tail(s.next)
           r == [s EXCEPT !.next = x]
<1>1. s \in SchedRec /\ s.next \in Seq(Task) /\ IsInjective(s.next)
  BY DEF Placed, SchedRec
<1>2. Idle \in Range(s.next)
  BY SchedulerAssumption DEF Placed
<1>3. s.next # <<>>
  BY <1>2 DEF Range
<1>4. /\ h \in Task /\ x \in Seq(Task) /\ h \in Range(s.next)
      /\ Range(x) = Range(s.next) \ {h} /\ IsInjective(x)
  BY <1>1, <1>3, TailNode
<1> HIDE DEF h, x
<1>5. /\ r \in SchedRec /\ r.next = x /\ r.wait = s.wait /\ r.st = s.st /\ r.ok
  BY <1>1, <1>4 DEF SchedRec
<1>6. s.st[h] = "RUNNING"
  BY <1>4 DEF Placed
<1> HIDE DEF r
<1>7. /\ \A t \in Task : r.st[t] = "RUNNING" <=> t \in Range(r.next) \cup {h}
      /\ {h} \cap Range(r.next) = {}
  BY <1>4, <1>5 DEF Placed
<1>8. /\ \A q \in WaitLists : IsInjective(r.wait[q])
      /\ \A t \in Task :
           r.st[t] = "BLOCKED" <=> t \in hand \/ \E q \in WaitLists : t \in Range(r.wait[q])
      /\ \A t \in Task : r.st[t] \in {"RUNNING", "BLOCKED"}
      /\ \A q \in WaitLists : hand \cap Range(r.wait[q]) = {}
      /\ \A q, p \in WaitLists : q # p => Range(r.wait[q]) \cap Range(r.wait[p]) = {}
      /\ r.st[Idle] = "RUNNING"
  BY <1>5 DEF Placed
<1>9. Placed(r, {h}, hand)
  BY <1>4, <1>5, <1>7, <1>8 DEF Placed
<1> QED
  BY <1>3, <1>4, <1>5, <1>6, <1>9 DEF r, h, x

(***************************************************************************)
(* switch_task, called with the CPU's task either running (on = its node)  *)
(* or already blocked.  In the second case the waker is not due: only the  *)
(* timer interrupt moves the clock, so the threshold is never crossed at a *)
(* voluntary switch.  Otherwise the notification could put the running     *)
(* task's own node into the run queue twice.                               *)
(***************************************************************************)
LEMMA SwitchPlaced ==
  ASSUME NEW s, NEW hand, hand \subseteq Task, RunningTask \in Task, s.ok,
         NEW ticks \in Nat,
         \/ Placed(s, {RunningTask}, hand)
         \/ Placed(s, {}, hand) /\ s.st[RunningTask] = "BLOCKED" /\ ticks <= WakeupTicks,
         SwitchTask(s, ticks)
  PROVE  /\ Placed(Now', {RunningTask'}, hand)
         /\ hcf' = FALSE /\ RunningTask' \in Task /\ sinceWakeup' \in 0..WakeupTicks
<1> DEFINE due == ticks > WakeupTicks
           s1  == IF due THEN UnblockOne(s, WaitingTasks_cv) ELSE s
           s2  == IF s1.st[RunningTask] = "RUNNING" THEN PushNext(s1, RunningTask) ELSE s1
           h   == Head(s2.next)
           r   == [s2 EXCEPT !.next = Tail(s2.next)]
<1>1. WaitingTasks_cv \in WaitLists /\ WakeupTicks \in Nat
  BY SchedulerAssumption DEF WaitLists
<1>2. Placed(s2, {}, hand) /\ s2.ok
  <2>1. CASE Placed(s, {RunningTask}, hand)
    <3>1. Placed(s1, {RunningTask}, hand) /\ s1.ok
      BY <1>1, <2>1, UnblockOnePlaced
    <3> HIDE DEF s1
    <3>2. s1.st[RunningTask] = "RUNNING"
      BY <3>1 DEF Placed
    <3>3. s2 = PushNext(s1, RunningTask)
      BY <3>2
    <3> QED
      BY ZenonT(60), <3>1, <3>3, QueuePlaced
  <2>2. CASE Placed(s, {}, hand) /\ s.st[RunningTask] = "BLOCKED" /\ ticks <= WakeupTicks
    <3>1. ~due
      BY <1>1, <2>2
    <3> QED
      BY <3>1, <2>2
  <2> QED
    BY <2>1, <2>2
<1>3. /\ sinceWakeup' = IF due THEN 0 ELSE ticks
      /\ s2.ok /\ s2.next # <<>> /\ s2.st[h] = "RUNNING" => RunningTask' = h /\ Commit(r)
  <2>1. PICK x1 \in {s1} :
          \E x2 \in {IF x1.st[RunningTask] = "RUNNING" THEN PushNext(x1, RunningTask) ELSE x1} :
            /\ sinceWakeup' = IF due THEN 0 ELSE ticks
            /\ IF x2.ok /\ x2.next # <<>> /\ x2.st[Head(x2.next)] = "RUNNING"
               THEN /\ RunningTask' = Head(x2.next)
                    /\ Commit([x2 EXCEPT !.next = Tail(@)])
               ELSE /\ RunningTask' = RunningTask
                    /\ Commit([x2 EXCEPT !.ok = FALSE])
    BY Zenon DEF SwitchTask
  <2>2. x1 = s1
    BY <2>1
  <2> HIDE DEF s1
  <2>3. PICK x2 \in {s2} :
          /\ sinceWakeup' = IF due THEN 0 ELSE ticks
          /\ x2.ok /\ x2.next # <<>> /\ x2.st[Head(x2.next)] = "RUNNING"
               => RunningTask' = Head(x2.next) /\ Commit([x2 EXCEPT !.next = Tail(x2.next)])
    BY Zenon, <2>1, <2>2
  <2>4. x2 = s2
    BY <2>3
  <2> HIDE DEF s2
  <2> QED
    BY <2>3, <2>4 DEF Commit
<1> HIDE DEF s1, s2
<1>4. /\ s2.next # <<>> /\ h \in Task /\ s2.st[h] = "RUNNING"
      /\ Placed(r, {h}, hand) /\ r.ok
  BY <1>2, DispatchPlaced
<1>5. RunningTask' = h /\ Commit(r)
  BY <1>2, <1>3, <1>4
<1>6. sinceWakeup' \in 0..WakeupTicks
  BY <1>1, <1>3
<1> HIDE DEF h, r
<1>7. Now' = [next |-> r.next, wait |-> r.wait, st |-> r.st, ok |-> TRUE] /\ hcf' = FALSE
  BY <1>4, <1>5 DEF Commit, Now
<1>8. Placed(Now', {h}, hand)
  BY ZenonT(60), <1>4, <1>7 DEF Placed, SchedRec
<1> QED
  BY <1>4, <1>5, <1>6, <1>7, <1>8

-----------------------------------------------------------------------------
(* The mutexes. *)

MutexTypes ==
  /\ locked \in [Mutexes -> BOOLEAN]
  /\ owner \in [Mutexes -> Task \cup {None}]
  /\ spin_success \in [Mutexes -> 0..SpinMax]
  /\ call \in [Task -> Calls]
  /\ arg \in [Task -> Mutexes \cup {None}]
  /\ fresh \in [Task -> BOOLEAN]
  /\ held \in [Task -> SUBSET Mutexes]

(***************************************************************************)
(* What a step of t must do to keep MutexInv: it comes to own only a free  *)
(* mutex, it frees only a mutex it owns, and it writes _owner only while   *)
(* nobody else is the owner.                                               *)
(***************************************************************************)
LEMMA MutexFrame ==
  ASSUME NEW t \in Task, MutexInv,
         \A u \in Task \ {t} : call'[u] = call[u] /\ arg'[u] = arg[u] /\ held'[u] = held[u],
         \A k \in Mutexes : Owns(t, k)' => locked'[k],
         \A k \in Mutexes : Owns(t, k)' => Owns(t, k) \/ ~locked[k],
         \A k \in Mutexes : locked[k] => locked'[k] \/ Owns(t, k),
         \A k \in Mutexes : owner'[k] = t <=> Holds(t, k)',
         \A k \in Mutexes : owner'[k] = owner[k] \/ {owner[k], owner'[k]} \subseteq {t, None},
         call'[t] \in LockCalls => arg'[t] \in held'[t],
         call'[t] \in {"release", "extract"} => arg'[t] \in Mutexes \ held'[t],
         t = Idle => call'[t] = "none" /\ held'[t] = {}
  PROVE  MutexInv'
<1>1. \A u \in Task \ {t}, k \in Mutexes : /\ Holds(u, k)' <=> Holds(u, k)
                                          /\ Owns(u, k)' <=> Owns(u, k)
  BY DEF Holds, Owns
<1>2. \A k \in Mutexes, u, v \in Task : Owns(u, k)' /\ Owns(v, k)' => u = v
  <2>1. ASSUME NEW k \in Mutexes, NEW u \in Task \ {t}, Owns(u, k)', Owns(t, k)' PROVE FALSE
    <3>1. Owns(u, k)
      BY <1>1, <2>1 DEF Owns, Holds
    <3>2. locked[k]
      BY <3>1 DEF MutexInv
    <3>3. Owns(t, k)
      BY <2>1, <3>2
    <3> QED
      BY <3>1, <3>3 DEF MutexInv
  <2>2. ASSUME NEW k \in Mutexes, NEW u \in Task \ {t}, NEW v \in Task \ {t},
               Owns(u, k)', Owns(v, k)'
        PROVE  u = v
    <3>1. Owns(u, k) /\ Owns(v, k)
      BY <1>1, <2>2 DEF Owns, Holds
    <3> QED
      BY <3>1 DEF MutexInv
  <2> QED
    BY <2>1, <2>2
<1>3. \A k \in Mutexes, u \in Task : Owns(u, k)' => locked'[k]
  BY <1>1 DEF MutexInv, Owns, Holds
<1>4. \A k \in Mutexes, u \in Task : owner'[k] = u <=> Holds(u, k)'
  <2> SUFFICES ASSUME NEW k \in Mutexes, NEW u \in Task \ {t}
               PROVE  owner'[k] = u <=> Holds(u, k)'
    OBVIOUS
  <2>1. owner'[k] = u <=> owner[k] = u
    BY MutexAssumption
  <2> QED
    BY <1>1, <2>1 DEF MutexInv, Holds
<1>5. /\ \A u \in Task : call'[u] \in LockCalls => arg'[u] \in held'[u]
      /\ \A u \in Task : call'[u] \in {"release", "extract"} => arg'[u] \in Mutexes \ held'[u]
      /\ call'[Idle] = "none" /\ held'[Idle] = {}
  BY SchedulerAssumption DEF MutexInv
<1> QED
  BY <1>2, <1>3, <1>4, <1>5 DEF MutexInv, Owns, Holds

\* Nothing about mutexes changes, or only spin counters and points between
\* which a task owns the same mutexes.
LEMMA MutexQuiet ==
  ASSUME MutexInv, NEW t \in Task, t # Idle \/ call' = call,
         UNCHANGED <<locked, owner, arg, held>>,
         \A u \in Task \ {t} : call'[u] = call[u],
         \/ call'[t] = call[t]
         \/ {call[t], call'[t]} \subseteq LockCalls \ {"own", "slowown"}
         \/ {call[t], call'[t]} \subseteq {"none", "wake"}
  PROVE  MutexInv'
<1>1. \A u \in Task, k \in Mutexes : (Holds(u, k)' <=> Holds(u, k)) /\ (Owns(u, k)' <=> Owns(u, k))
  <2>1. ASSUME NEW u \in Task, NEW k \in Mutexes, call'[u] = call[u]
        PROVE  (Holds(u, k)' <=> Holds(u, k)) /\ (Owns(u, k)' <=> Owns(u, k))
    BY <2>1 DEF Holds, Owns
  <2>2. ASSUME NEW k \in Mutexes, {call[t], call'[t]} \subseteq LockCalls \ {"own", "slowown"}
        PROVE  (Holds(t, k)' <=> Holds(t, k)) /\ (Owns(t, k)' <=> Owns(t, k))
    BY <2>2 DEF Holds, HoldsAt, Owns, OwnsAt, LockCalls
  <2>3. ASSUME NEW k \in Mutexes, {call[t], call'[t]} \subseteq {"none", "wake"}
        PROVE  (Holds(t, k)' <=> Holds(t, k)) /\ (Owns(t, k)' <=> Owns(t, k))
    BY <2>3 DEF Holds, HoldsAt, Owns, OwnsAt, LockCalls
  <2> QED
    BY <2>1, <2>2, <2>3
<1>2. /\ call'[t] \in LockCalls => arg[t] \in held[t]
      /\ call'[t] \in {"release", "extract"} => arg[t] \in Mutexes \ held[t]
  BY DEF MutexInv, LockCalls
<1>3. call'[Idle] = "none"
  BY SchedulerAssumption DEF MutexInv
<1> QED
  BY <1>1, <1>2, <1>3 DEF MutexInv, Owns, Holds

\* The assertion and the first try_lock of lock().
LEMMA LockMutex ==
  ASSUME NEW t \in Task \ {Idle}, NEW m \in Mutexes, MutexTypes, MutexInv,
         \/ call[t] = "none" /\ m \notin held[t] /\ held' = [held EXCEPT ![t] = @ \cup {m}]
         \/ call[t] = "lock" /\ m = arg[t] /\ held' = held,
         EnterLock(t, m)
  PROVE  MutexInv' /\ MutexTypes' /\ hcf' = FALSE
<1>1. ~(owner[m] = t /\ locked[m])
  BY DEF MutexInv, Holds, HoldsAt, LockCalls
<1>2. hcf' = FALSE
  BY <1>1 DEF EnterLock, Asserting
<1>3. /\ locked' = [locked EXCEPT ![m] = TRUE]
      /\ call' = [call EXCEPT ![t] = IF locked[m] THEN "contend" ELSE "own"]
      /\ arg' = [arg EXCEPT ![t] = m]
      /\ UNCHANGED <<owner, spin_success, fresh>>
  BY DEF EnterLock, TryLock, Goto
<1>4. MutexTypes'
  BY <1>3 DEF MutexTypes, Calls, LockCalls
<1>5. MutexInv'
  <2>1. \A u \in Task \ {t} : call'[u] = call[u] /\ arg'[u] = arg[u] /\ held'[u] = held[u]
    BY <1>3 DEF MutexTypes
  <2>2. /\ call'[t] = (IF locked[m] THEN "contend" ELSE "own")
        /\ arg'[t] = m /\ m \in held'[t] /\ held'[t] = held[t] \cup {m}
    BY <1>3 DEF MutexTypes, MutexInv, LockCalls
  <2>3. \A k \in Mutexes : locked'[k] = IF k = m THEN TRUE ELSE locked[k]
    BY <1>3 DEF MutexTypes
  <2>4. \A k \in Mutexes : Holds(t, k)' <=> Holds(t, k)
    BY <2>2 DEF Holds, HoldsAt, LockCalls
  <2>5. \A k \in Mutexes : Owns(t, k)' => (IF k = m THEN ~locked[m] ELSE Owns(t, k))
    BY <2>2 DEF Owns, OwnsAt, Holds, HoldsAt, LockCalls
  <2>6. \A k \in Mutexes : Owns(t, k)' => locked'[k]
    BY <2>3, <2>5 DEF MutexInv, Owns
  <2>7. \A k \in Mutexes : Owns(t, k)' => Owns(t, k) \/ ~locked[k]
    BY <2>5 DEF Owns
  <2>8. \A k \in Mutexes : locked[k] => locked'[k] \/ Owns(t, k)
    BY <2>3
  <2>9. \A k \in Mutexes : owner'[k] = owner[k] /\ (owner'[k] = t <=> Holds(t, k)')
    BY <1>3, <2>4 DEF MutexInv, Holds
  <2>10. call'[t] \notin {"release", "extract"}
    BY <2>2
  <2> QED
    BY ZenonT(60), <2>1, <2>2, <2>6, <2>7, <2>8, <2>9, <2>10, MutexFrame DEF Owns, Holds
<1> QED
  BY <1>2, <1>4, <1>5

\* The try_lock of the spin loop and of the sleeping loop.
LEMMA TryMutex ==
  ASSUME NEW t \in Task \ {Idle}, MutexTypes, MutexInv,
         NEW yes \in {"own", "slowown"}, NEW no \in {"spinyield", "enqueue"},
         call[t] \in {"spin", "slow"}, TryLock(t, arg[t], yes, no),
         UNCHANGED <<owner, spin_success, arg, held>>
  PROVE  /\ MutexInv'
         /\ fresh' \in [Task -> BOOLEAN] => MutexTypes'
<1> DEFINE m == arg[t]
<1>1. m \in Mutexes /\ m \in held[t]
  BY DEF MutexInv, LockCalls, MutexTypes
<1>2. /\ locked' = [locked EXCEPT ![m] = TRUE]
      /\ call' = [call EXCEPT ![t] = IF locked[m] THEN no ELSE yes]
  BY DEF TryLock, Goto
<1> HIDE DEF m
<1>3. fresh' \in [Task -> BOOLEAN] => MutexTypes'
  BY ZenonT(60), <1>1, <1>2 DEF MutexTypes, Calls, LockCalls
<1>4. MutexInv'
  <2>1. \A u \in Task \ {t} : call'[u] = call[u] /\ arg'[u] = arg[u] /\ held'[u] = held[u]
    BY <1>2 DEF MutexTypes
  <2>2. call'[t] = (IF locked[m] THEN no ELSE yes) /\ arg'[t] = m /\ held'[t] = held[t]
    BY <1>2 DEF MutexTypes, m
  <2>3. \A k \in Mutexes : locked'[k] = IF k = m THEN TRUE ELSE locked[k]
    BY <1>2 DEF MutexTypes
  <2>4. \A k \in Mutexes : Holds(t, k)' <=> Holds(t, k)
    BY <2>2 DEF Holds, HoldsAt, LockCalls, m
  <2>5. \A k \in Mutexes : Owns(t, k)' => (IF k = m THEN ~locked[m] ELSE Owns(t, k))
    BY <2>2 DEF Owns, OwnsAt, Holds, HoldsAt, LockCalls
  <2>6. \A k \in Mutexes : Owns(t, k)' => locked'[k]
    BY <2>3, <2>5 DEF MutexInv, Owns
  <2>7. \A k \in Mutexes : Owns(t, k)' => Owns(t, k) \/ ~locked[k]
    BY <2>5 DEF Owns
  <2>8. \A k \in Mutexes : locked[k] => locked'[k] \/ Owns(t, k)
    BY ZenonT(60), <2>3
  <2>9. \A k \in Mutexes : owner'[k] = owner[k] /\ (owner'[k] = t <=> Holds(t, k)')
    BY <2>4 DEF MutexInv, Holds
  <2>10. call'[t] \notin {"release", "extract"} /\ arg'[t] \in held'[t]
    BY <1>1, <2>2
  <2> QED
    BY <2>1, <2>6, <2>7, <2>8, <2>9, <2>10, MutexFrame DEF Owns, Holds
<1> QED
  BY <1>3, <1>4

\* The second half of try_lock: _owner = cur_task().
LEMMA OwnMutex ==
  ASSUME NEW t \in Task \ {Idle}, MutexTypes, MutexInv, call[t] \in {"own", "slowown"},
         owner' = [owner EXCEPT ![arg[t]] = t], Return(t), UNCHANGED <<locked, held>>
  PROVE  MutexInv'
<1> DEFINE m == arg[t]
<1>1. m \in Mutexes /\ m \in held[t] /\ Owns(t, m)
  BY DEF MutexInv, LockCalls, MutexTypes, Owns, OwnsAt
<1>2. call' = [call EXCEPT ![t] = "none"] /\ arg' = [arg EXCEPT ![t] = None]
  BY DEF Return, Goto
<1>3. \A u \in Task \ {t} : call'[u] = call[u] /\ arg'[u] = arg[u] /\ held'[u] = held[u]
  BY <1>2 DEF MutexTypes
<1>4. call'[t] = "none" /\ held'[t] = held[t]
  BY <1>2 DEF MutexTypes
<1>5. \A k \in Mutexes : owner'[k] = IF k = m THEN t ELSE owner[k]
  BY DEF MutexTypes
<1>6. \A k \in Mutexes : Holds(t, k)' <=> k = m \/ Holds(t, k)
  BY <1>1, <1>4 DEF Holds, HoldsAt, LockCalls
<1>7. \A k \in Mutexes : Owns(t, k)' <=> Owns(t, k)
  BY <1>1, <1>4 DEF Owns, OwnsAt, Holds, HoldsAt, LockCalls
<1>8. owner[m] \in {t, None}
  BY <1>1 DEF MutexInv, MutexTypes, Owns, OwnsAt, Holds
<1> HIDE DEF m
<1>9. \A k \in Mutexes : Owns(t, k)' => locked'[k]
  BY <1>7 DEF MutexInv, Owns
<1>10. \A k \in Mutexes : Owns(t, k)' => Owns(t, k) \/ ~locked[k]
  BY <1>7 DEF Owns
<1>11. \A k \in Mutexes : locked[k] => locked'[k] \/ Owns(t, k)
  OBVIOUS
<1>12. \A k \in Mutexes : owner'[k] = t <=> Holds(t, k)'
  <2>1. \A k \in Mutexes : owner[k] = t <=> Holds(t, k)
    BY DEF MutexInv, Holds
  <2> QED
    BY <1>5, <1>6, <2>1
<1>13. \A k \in Mutexes : owner'[k] = owner[k] \/ {owner[k], owner'[k]} \subseteq {t, None}
  BY <1>5, <1>8
<1>14. call'[t] \notin LockCalls \cup {"release", "extract"}
  BY <1>4 DEF LockCalls
<1> QED
  BY <1>3, <1>9, <1>10, <1>11, <1>12, <1>13, <1>14, MutexFrame DEF Owns, Holds

\* unlock(): _owner = nullptr.
LEMMA UnlockMutex ==
  ASSUME NEW t \in Task \ {Idle}, NEW m \in Mutexes, MutexTypes, MutexInv,
         call[t] = "none", m \in held[t], EnterUnlock(t, m),
         held' = [held EXCEPT ![t] = @ \ {m}]
  PROVE  MutexInv' /\ MutexTypes'
<1>1. Holds(t, m) /\ Owns(t, m)
  BY DEF Owns, OwnsAt, Holds, HoldsAt, LockCalls
<1>2. /\ owner' = [owner EXCEPT ![m] = None] /\ arg' = [arg EXCEPT ![t] = m]
      /\ call' = [call EXCEPT ![t] = "release"] /\ UNCHANGED <<locked, spin_success, fresh>>
  BY DEF EnterUnlock, Goto
<1>3. MutexTypes'
  BY <1>2 DEF MutexTypes, Calls
<1>4. \A u \in Task \ {t} : call'[u] = call[u] /\ arg'[u] = arg[u] /\ held'[u] = held[u]
  BY <1>2 DEF MutexTypes
<1>5. call'[t] = "release" /\ arg'[t] = m /\ held'[t] = held[t] \ {m}
  BY <1>2 DEF MutexTypes
<1>6. \A k \in Mutexes : Holds(t, k)' <=> k # m /\ Holds(t, k)
  BY <1>5 DEF Holds, HoldsAt, LockCalls
<1>7. \A k \in Mutexes : Owns(t, k)' <=> Owns(t, k)
  BY <1>1, <1>5 DEF Owns, OwnsAt, Holds, HoldsAt, LockCalls
<1>8. \A k \in Mutexes : owner'[k] = IF k = m THEN None ELSE owner[k]
  BY <1>2 DEF MutexTypes
<1>9. \A k \in Mutexes : Owns(t, k)' => locked'[k]
  BY <1>2, <1>7 DEF MutexInv, Owns
<1>10. \A k \in Mutexes : Owns(t, k)' => Owns(t, k) \/ ~locked[k]
  BY <1>7 DEF Owns
<1>11. \A k \in Mutexes : locked[k] => locked'[k] \/ Owns(t, k)
  BY <1>2
<1>20. (\A k \in Mutexes : owner[k] = t <=> Holds(t, k)) /\ owner[m] = t /\ None # t
  BY <1>1, MutexAssumption DEF MutexInv
<1>12. \A k \in Mutexes : owner'[k] = t <=> Holds(t, k)'
  <2> SUFFICES ASSUME NEW k \in Mutexes PROVE owner'[k] = t <=> Holds(t, k)'
    OBVIOUS
  <2>1. CASE k = m
    BY <1>6, <1>8, <1>20, <2>1
  <2>2. CASE k # m
    BY <1>6, <1>8, <1>20, <2>2
  <2> QED
    BY <2>1, <2>2
<1>13. \A k \in Mutexes : owner'[k] = owner[k] \/ {owner[k], owner'[k]} \subseteq {t, None}
  BY <1>8, <1>20
<1>14. call'[t] \notin LockCalls /\ arg'[t] \in Mutexes \ held'[t]
  BY <1>5 DEF LockCalls
<1>15. MutexInv'
  BY ZenonT(60), <1>4, <1>9, <1>10, <1>11, <1>12, <1>13, <1>14, MutexFrame DEF Owns, Holds
<1> QED
  BY <1>3, <1>15

\* The compare_exchange of unlock().
LEMMA ReleaseMutex ==
  ASSUME NEW t \in Task \ {Idle}, MutexTypes, MutexInv, Release(t), UNCHANGED held
  PROVE  MutexInv' /\ MutexTypes' /\ hcf' = FALSE
<1> DEFINE m == arg[t]
<1>1. call[t] = "release" /\ m \in Mutexes /\ m \notin held[t]
  BY DEF Release, At, MutexInv
<1>2. Owns(t, m) /\ locked[m]
  BY <1>1 DEF MutexInv, Owns, OwnsAt
<1>3. hcf' = FALSE
  BY <1>2 DEF Release, Asserting
<1>4. /\ locked' = [locked EXCEPT ![m] = FALSE]
      /\ call' = [call EXCEPT ![t] = "extract"] /\ UNCHANGED <<owner, spin_success, arg, fresh>>
  BY DEF Release, Goto
<1> HIDE DEF m
<1>5. MutexTypes'
  BY ZenonT(60), <1>4 DEF MutexTypes, Calls
<1>6. \A u \in Task \ {t} : call'[u] = call[u] /\ arg'[u] = arg[u] /\ held'[u] = held[u]
  BY <1>4 DEF MutexTypes
<1>7. call'[t] = "extract" /\ arg'[t] = m /\ held'[t] = held[t]
  BY <1>4 DEF MutexTypes, m
<1>8. \A k \in Mutexes : locked'[k] = IF k = m THEN FALSE ELSE locked[k]
  BY <1>4 DEF MutexTypes
<1>9. \A k \in Mutexes : Holds(t, k)' <=> Holds(t, k)
  BY <1>1, <1>7 DEF Holds, HoldsAt, LockCalls
<1>10. \A k \in Mutexes : Owns(t, k)' <=> k # m /\ Owns(t, k)
  BY <1>1, <1>7 DEF Owns, OwnsAt, Holds, HoldsAt, LockCalls, m
<1>11. \A k \in Mutexes : Owns(t, k)' => locked'[k]
  BY <1>8, <1>10 DEF MutexInv, Owns
<1>12. \A k \in Mutexes : Owns(t, k)' => Owns(t, k) \/ ~locked[k]
  BY <1>10 DEF Owns
<1>13. \A k \in Mutexes : locked[k] => locked'[k] \/ Owns(t, k)
  BY ZenonT(60), <1>2, <1>8
<1>14. \A k \in Mutexes : owner'[k] = owner[k] /\ (owner'[k] = t <=> Holds(t, k)')
  BY <1>4, <1>9 DEF MutexInv, Holds
<1>15. call'[t] \notin LockCalls /\ arg'[t] \in Mutexes \ held'[t]
  BY <1>1, <1>7 DEF LockCalls
<1>16. MutexInv'
  BY <1>6, <1>11, <1>12, <1>13, <1>14, <1>15, MutexFrame DEF Owns, Holds
<1> QED
  BY <1>3, <1>5, <1>16

\* The mutex half of CV::wait: unlock() and, later, lock().
LEMMA WaitMutex ==
  ASSUME NEW t \in Task \ {Idle}, NEW m \in Mutexes, MutexTypes, MutexInv,
         call[t] = "none", m \in held[t], UNCHANGED <<held, fresh>>, ReleaseNolock(m),
         arg' = [arg EXCEPT ![t] = m], Goto(t, "lock")
  PROVE  MutexInv' /\ MutexTypes' /\ locked[m]
<1>1. Holds(t, m) /\ Owns(t, m) /\ locked[m]
  <2>1. Holds(t, m) /\ Owns(t, m)
    BY DEF Owns, OwnsAt, Holds, HoldsAt, LockCalls
  <2> QED
    BY <2>1 DEF MutexInv
<1>2. /\ owner' = [owner EXCEPT ![m] = None] /\ locked' = [locked EXCEPT ![m] = FALSE]
      /\ call' = [call EXCEPT ![t] = "lock"] /\ UNCHANGED spin_success
  BY DEF ReleaseNolock, Goto
<1>3. MutexTypes'
  BY <1>2 DEF MutexTypes, Calls, LockCalls
<1>4. \A u \in Task \ {t} : call'[u] = call[u] /\ arg'[u] = arg[u] /\ held'[u] = held[u]
  BY <1>2 DEF MutexTypes
<1>5. call'[t] = "lock" /\ arg'[t] = m /\ held'[t] = held[t]
  BY <1>2 DEF MutexTypes
<1>6. \A k \in Mutexes : Holds(t, k)' <=> k # m /\ Holds(t, k)
  BY <1>5 DEF Holds, HoldsAt, LockCalls
<1>7. \A k \in Mutexes : Owns(t, k)' <=> k # m /\ Owns(t, k)
  BY <1>5 DEF Owns, OwnsAt, Holds, HoldsAt, LockCalls
<1>8. \A k \in Mutexes : owner'[k] = IF k = m THEN None ELSE owner[k]
  BY <1>2 DEF MutexTypes
<1>16. \A k \in Mutexes : locked'[k] = IF k = m THEN FALSE ELSE locked[k]
  BY <1>2 DEF MutexTypes
<1>9. \A k \in Mutexes : Owns(t, k)' => locked'[k]
  BY <1>7, <1>16 DEF MutexInv, Owns
<1>10. \A k \in Mutexes : Owns(t, k)' => Owns(t, k) \/ ~locked[k]
  BY <1>7 DEF Owns
<1>11. \A k \in Mutexes : locked[k] => locked'[k] \/ Owns(t, k)
  BY ZenonT(60), <1>1, <1>16
<1>20. (\A k \in Mutexes : owner[k] = t <=> Holds(t, k)) /\ owner[m] = t /\ None # t
  BY <1>1, MutexAssumption DEF MutexInv
<1>12. \A k \in Mutexes : owner'[k] = t <=> Holds(t, k)'
  <2> SUFFICES ASSUME NEW k \in Mutexes PROVE owner'[k] = t <=> Holds(t, k)'
    OBVIOUS
  <2>1. CASE k = m
    BY <1>6, <1>8, <1>20, <2>1
  <2>2. CASE k # m
    BY <1>6, <1>8, <1>20, <2>2
  <2> QED
    BY <2>1, <2>2
<1>13. \A k \in Mutexes : owner'[k] = owner[k] \/ {owner[k], owner'[k]} \subseteq {t, None}
  BY <1>8, <1>20
<1>14. call'[t] \notin {"release", "extract"} /\ arg'[t] \in held'[t]
  BY <1>5
<1>15. MutexInv'
  BY <1>4, <1>9, <1>10, <1>11, <1>12, <1>13, <1>14, MutexFrame DEF Owns, Holds
<1> QED
  BY <1>1, <1>3, <1>15

\* The mutex half of taking a node off a list: the operation ends, or goes on
\* to unblock the node.
LEMMA ExtractMutex ==
  ASSUME NEW t \in Task \ {Idle}, MutexTypes, MutexInv, call[t] \in {"none", "extract"},
         NEW c \in {"none", "wake"}, Goto(t, c), arg' = [arg EXCEPT ![t] = None],
         UNCHANGED <<mutexVars, held, fresh>>
  PROVE  MutexInv' /\ MutexTypes'
<1>1. call' = [call EXCEPT ![t] = c] /\ UNCHANGED <<locked, owner, spin_success>>
  BY DEF Goto, mutexVars
<1>2. MutexTypes'
  BY <1>1 DEF MutexTypes, Calls
<1>3. \A u \in Task \ {t} : call'[u] = call[u] /\ arg'[u] = arg[u] /\ held'[u] = held[u]
  BY <1>1 DEF MutexTypes
<1>4. call'[t] = c /\ held'[t] = held[t]
  BY <1>1 DEF MutexTypes
<1>5. \A k \in Mutexes : (Holds(t, k)' <=> Holds(t, k)) /\ (Owns(t, k)' <=> Owns(t, k))
  BY <1>4 DEF Owns, OwnsAt, Holds, HoldsAt, LockCalls
<1>6. \A k \in Mutexes : Owns(t, k)' => locked'[k]
  BY <1>1, <1>5 DEF MutexInv, Owns
<1>7. \A k \in Mutexes : Owns(t, k)' => Owns(t, k) \/ ~locked[k]
  BY <1>5 DEF Owns
<1>8. \A k \in Mutexes : owner'[k] = owner[k] /\ (owner'[k] = t <=> Holds(t, k)')
  BY <1>1, <1>5 DEF MutexInv, Holds
<1>9. call'[t] \notin LockCalls \cup {"release", "extract"}
  BY <1>4 DEF LockCalls
<1>10. \A k \in Mutexes : locked[k] => locked'[k] \/ Owns(t, k)
  BY <1>1
<1>11. MutexInv'
  BY ZenonT(60), <1>3, <1>6, <1>7, <1>8, <1>9, <1>10, MutexFrame DEF Owns, Holds
<1> QED
  BY <1>2, <1>11

-----------------------------------------------------------------------------
(* The three parts of IInv. *)

SchedOK ==
  /\ Placed(Now, {RunningTask}, Hand)
  /\ hcf = FALSE /\ RunningTask \in Task /\ sinceWakeup \in 0..WakeupTicks

PendOK == pend \in [Task -> Seq(Task)] /\ HandInv

MutexOK == MutexTypes /\ MutexInv

\* The parts follow from IInv ...
LEMMA IInvParts ==
  ASSUME IInv
  PROVE  SchedOK /\ PendOK /\ MutexOK /\ Hand \subseteq Task
  BY DEF IInv, TypeOK, SchedTypeOK, MutexTypeOK, SchedOK, PendOK, MutexOK, MutexTypes, Hand

\* ... and make it up again after a step.
LEMMA PartsIInv ==
  ASSUME SchedOK', PendOK', MutexOK'
  PROVE  IInv'
<1>1. NextTasks' \in Seq(Task) /\ waiters' \in [WaitLists -> Seq(Task)] /\ state' \in [Task -> TaskState]
  BY DEF SchedOK, Placed, SchedRec, Now
<1> QED
  BY <1>1 DEF IInv, TypeOK, SchedTypeOK, MutexTypeOK, SchedOK, PendOK, MutexOK, MutexTypes

-----------------------------------------------------------------------------
(* The nodes in hand. *)

\* Most steps neither take a node off a list nor unblock one.
LEMMA PendSame ==
  ASSUME PendOK, UNCHANGED pend, \A u \in Task : call'[u] = "wake" <=> call[u] = "wake"
  PROVE  PendOK' /\ Hand' = Hand
  BY DEF PendOK, HandInv, Hand, InHand

\* unlock, notify_one and notify_all take nodes off a list.
LEMMA PendTake ==
  ASSUME PendOK, call \in [Task -> Calls], NEW t \in Task, call[t] # "wake",
         NEW q \in Seq(Task), q # <<>>, IsInjective(q), Range(q) \cap Hand = {},
         pend' = [pend EXCEPT ![t] = q], call' = [call EXCEPT ![t] = "wake"]
  PROVE  PendOK' /\ Hand' = Hand \cup Range(q)
<1>1. pend[t] = <<>> /\ Range(pend[t]) = {} /\ Range(q) \subseteq Task
  BY DEF PendOK, HandInv, Range
<1>2. \A u \in Task : /\ pend'[u] = (IF u = t THEN q ELSE pend[u])
                      /\ call'[u] = (IF u = t THEN "wake" ELSE call[u])
  BY DEF PendOK
<1>3. \A u \in Task : Range(q) \cap Range(pend[u]) = {}
  BY <1>1 DEF Hand, InHand
<1>4. pend' \in [Task -> Seq(Task)]
  BY DEF PendOK
<1>5. \A u \in Task : IsInjective(pend'[u]) /\ (pend'[u] = <<>> <=> call'[u] # "wake")
  BY <1>2 DEF PendOK, HandInv
<1>6. \A u, v \in Task : u # v => Range(pend'[u]) \cap Range(pend'[v]) = {}
  BY <1>2, <1>3 DEF PendOK, HandInv
<1>7. Hand' = Hand \cup Range(q)
  BY <1>1, <1>2 DEF Hand, InHand
<1> QED
  BY <1>4, <1>5, <1>6, <1>7 DEF PendOK, HandInv

\* Scheduler::unblock of the first node in hand.
LEMMA PendWake ==
  ASSUME PendOK, call \in [Task -> Calls], NEW t \in Task, call[t] = "wake",
         pend' = [pend EXCEPT ![t] = Tail(pend[t])],
         call' = [call EXCEPT ![t] = IF Len(pend[t]) = 1 THEN "none" ELSE "wake"]
  PROVE  /\ PendOK' /\ Head(pend[t]) \in Hand /\ Hand' = Hand \ {Head(pend[t])}
<1> DEFINE q == pend[t]
           h == Head(q)
           x == Tail(q)
<1>1. q \in Seq(Task) /\ q # <<>> /\ IsInjective(q)
  BY DEF PendOK, HandInv
<1>2. h \in Task /\ x \in Seq(Task) /\ h \in Range(q) /\ Range(x) = Range(q) \ {h} /\ IsInjective(x)
  BY <1>1, TailNode
<1>3. x = <<>> <=> Len(q) = 1
  <2>1. Len(q) \in Nat \ {0} /\ Len(x) = Len(q) - 1
    BY <1>1
  <2> HIDE DEF x, q
  <2>2. x = <<>> <=> Len(x) = 0
    BY <1>2
  <2> QED
    BY <2>1, <2>2
<1>4. pend' = [pend EXCEPT ![t] = x]
  OBVIOUS
<1> HIDE DEF x, h
<1>5. \A u \in Task : /\ pend'[u] = (IF u = t THEN x ELSE pend[u])
                      /\ u # t => call'[u] = call[u]
  BY <1>4 DEF PendOK
<1>6. call'[t] = (IF Len(q) = 1 THEN "none" ELSE "wake")
  OBVIOUS
<1>7. \A u \in Task \ {t} : h \notin Range(pend[u])
  BY <1>2 DEF PendOK, HandInv
<1>8. pend' \in [Task -> Seq(Task)]
  BY <1>2, <1>4 DEF PendOK
<1>9. \A u \in Task : IsInjective(pend'[u]) /\ (pend'[u] = <<>> <=> call'[u] # "wake")
  BY <1>2, <1>3, <1>5, <1>6 DEF PendOK, HandInv
<1>10. \A u, v \in Task : u # v => Range(pend'[u]) \cap Range(pend'[v]) = {}
  BY <1>2, <1>5 DEF PendOK, HandInv
<1>11. \A u \in Task : Range(pend'[u]) = Range(pend[u]) \ {h}
  BY <1>2, <1>5, <1>7
<1>12. Hand' = Hand \ {h} /\ h \in Hand
  BY ZenonT(60), <1>2, <1>11 DEF Hand, InHand
<1> QED
  BY <1>8, <1>9, <1>10, <1>12 DEF PendOK, HandInv, h

-----------------------------------------------------------------------------
(* The scheduler. *)

\* A step that leaves the scheduler alone.
LEMMA SchedSame ==
  ASSUME SchedOK, UNCHANGED <<RunningTask, NextTasks, waiters, state, sinceWakeup>>,
         hcf' = FALSE, Hand' = Hand
  PROVE  SchedOK'
<1>1. Now' = Now
  BY DEF Now
<1> QED
  BY <1>1 DEF SchedOK

\* yield_self.
LEMMA SchedYield ==
  ASSUME SchedOK, Hand \subseteq Task, Hand' = Hand, NEW ticks \in Nat, SwitchTask(Now, ticks)
  PROVE  SchedOK'
<1>1. Now.ok /\ RunningTask \in Task /\ Placed(Now, {RunningTask}, Hand)
  BY DEF Now, SchedOK
<1>2. /\ Placed(Now', {RunningTask'}, Hand)
      /\ hcf' = FALSE /\ RunningTask' \in Task /\ sinceWakeup' \in 0..WakeupTicks
  BY ZenonT(60), <1>1, SwitchPlaced
<1> QED
  BY <1>2 DEF SchedOK

\* self_block: the running task joins a waiter list and gives up the CPU.
LEMMA SchedBlock ==
  ASSUME NEW s, Placed(s, {RunningTask}, Hand), s.ok, RunningTask \in Task \ {Idle},
         Hand \subseteq Task, Hand' = Hand, sinceWakeup \in 0..WakeupTicks, NEW q \in WaitLists,
         Yield(SetState(PushWaiter(s, q, RunningTask), RunningTask, "BLOCKED"))
  PROVE  SchedOK'
<1> DEFINE r == SetState(PushWaiter(s, q, RunningTask), RunningTask, "BLOCKED")
<1>1. Placed(r, {}, Hand) /\ r.ok /\ r.st[RunningTask] = "BLOCKED"
  BY BlockPlaced
<1>2. SwitchTask(r, sinceWakeup)
  BY DEF Yield
<1> HIDE DEF r
<1>3. sinceWakeup \in Nat /\ sinceWakeup <= WakeupTicks
  BY SchedulerAssumption
<1>4. /\ Placed(Now', {RunningTask'}, Hand)
      /\ hcf' = FALSE /\ RunningTask' \in Task /\ sinceWakeup' \in 0..WakeupTicks
  BY <1>1, <1>2, <1>3, SwitchPlaced
<1> QED
  BY <1>4 DEF SchedOK

\* A change of the lists that keeps the CPU with the running task.
LEMMA SchedStay ==
  ASSUME NEW s, Placed(s, {RunningTask}, Hand'), s.ok, Stay(s), SchedOK
  PROVE  SchedOK'
<1>1. Now' = [next |-> s.next, wait |-> s.wait, st |-> s.st, ok |-> TRUE] /\ hcf' = FALSE
  BY DEF Stay, Commit, Now
<1>2. Placed(Now', {RunningTask}, Hand')
  BY <1>1 DEF Placed, SchedRec
<1> QED
  BY <1>1, <1>2 DEF SchedOK, Stay

\* The whole list of q is taken in hand (CV::notify_all).
LEMMA SwapPlaced ==
  ASSUME NEW s, NEW on, NEW hand, NEW q \in WaitLists, Placed(s, on, hand)
  PROVE  LET r == [s EXCEPT !.wait[q] = <<>>]
         IN  Placed(r, on, hand \cup Range(s.wait[q]))
<1> DEFINE x == <<>>
           r == [s EXCEPT !.wait[q] = x]
           R == Range(s.wait[q])
<1>1. s \in SchedRec /\ x \in Seq(Task)
  BY DEF Placed
<1>4. IsInjective(x) /\ Range(x) = {}
  BY DEF IsInjective, Range
<1> HIDE DEF x
<1>2. /\ r \in SchedRec /\ r.next = s.next /\ r.st = s.st
      /\ r.wait = [s.wait EXCEPT ![q] = x]
  BY ZenonT(60), <1>1 DEF SchedRec
<1> HIDE DEF r
<1>3. \A p \in WaitLists : r.wait[p] = IF p = q THEN x ELSE s.wait[p]
  BY <1>1, <1>2 DEF SchedRec
<1>5. \A p \in WaitLists : Range(r.wait[p]) = (IF p = q THEN {} ELSE Range(s.wait[p]))
  BY <1>3, <1>4
<1>6. \A p \in WaitLists : IsInjective(r.wait[p])
  BY <1>3, <1>4 DEF Placed
<1>7. \A t \in Task : r.st[t] = "BLOCKED" <=>
        t \in hand \cup R \/ \E p \in WaitLists : t \in Range(r.wait[p])
  BY <1>2, <1>5 DEF Placed
<1>8. \A p \in WaitLists : (hand \cup R) \cap Range(r.wait[p]) = {}
  BY <1>5 DEF Placed
<1>9. \A o, p \in WaitLists : o # p => Range(r.wait[o]) \cap Range(r.wait[p]) = {}
  BY <1>5 DEF Placed
<1>10. /\ IsInjective(r.next) /\ on \cap Range(r.next) = {}
       /\ \A t \in Task : r.st[t] = "RUNNING" <=> t \in Range(r.next) \cup on
       /\ \A t \in Task : r.st[t] \in {"RUNNING", "BLOCKED"}
       /\ r.st[Idle] = "RUNNING"
  BY <1>2 DEF Placed
<1> HIDE DEF R
<1>11. Placed(r, on, hand \cup R)
  BY <1>2, <1>6, <1>7, <1>8, <1>9, <1>10 DEF Placed
<1> QED
  BY <1>11 DEF r, R, x

-----------------------------------------------------------------------------
(* Every step preserves IInv. *)

\* An operation moves on to another point without touching the nodes in hand.
LEMMA PendGoto ==
  ASSUME PendOK, MutexOK, NEW t \in Task, call[t] # "wake", NEW c, c # "wake",
         Goto(t, c), UNCHANGED pend
  PROVE  PendOK' /\ Hand' = Hand
<1>1. \A u \in Task : call'[u] = IF u = t THEN c ELSE call[u]
  BY DEF Goto, MutexOK, MutexTypes
<1>2. \A u \in Task : call'[u] = "wake" <=> call[u] = "wake"
  BY <1>1
<1> QED
  BY <1>2, PendSame

\* lock(), called by the task or by CV::wait.
LEMMA LockStep ==
  ASSUME IInv, NEW t \in Task, NEW m \in Mutexes, EnterLock(t, m), t # Idle,
         \/ call[t] = "none" /\ m \notin held[t] /\ held' = [held EXCEPT ![t] = @ \cup {m}]
         \/ call[t] = "lock" /\ m = arg[t] /\ held' = held
  PROVE  IInv'
<1>1. SchedOK /\ PendOK /\ MutexOK
  BY IInvParts
<1>2. MutexOK' /\ hcf' = FALSE
  BY ZenonT(60), <1>1, LockMutex DEF MutexOK
<1>3. PendOK' /\ Hand' = Hand
  <2>1. PICK c \in {"own", "contend"} : Goto(t, c)
    BY DEF EnterLock, TryLock
  <2>2. call[t] # "wake" /\ c # "wake" /\ UNCHANGED pend
    BY DEF EnterLock
  <2> QED
    BY <1>1, <2>1, <2>2, PendGoto
<1>4. SchedOK'
  BY ZenonT(60), <1>1, <1>2, <1>3, SchedSame DEF EnterLock, Asserting
<1> QED
  BY <1>2, <1>3, <1>4, PartsIInv

\* The points of lock() that leave the scheduler alone.
LEMMA LockPointStep ==
  ASSUME IInv, NEW t \in Task, UNCHANGED held,
         \/ TakeOwnership(t) \/ Contend(t) \/ SpinCheck(t) \/ SpinTry(t)
         \/ SlowTry(t) \/ SlowTakeOwnership(t)
  PROVE  IInv'
<1>1. SchedOK /\ PendOK /\ MutexOK
  BY IInvParts
<1>2. UNCHANGED schedVars /\ UNCHANGED pend
  BY DEF TakeOwnership, Contend, SpinCheck, SpinTry, SlowTry, SlowTakeOwnership
<1>3. /\ call[t] \in {"own", "contend", "spincheck", "spin", "slow", "slowown"}
      /\ t # Idle /\ arg[t] \in Mutexes
  BY <1>1 DEF TakeOwnership, Contend, SpinCheck, SpinTry, SlowTry, SlowTakeOwnership, At,
              MutexOK, MutexInv, MutexTypes, LockCalls
<1>4. PendOK' /\ Hand' = Hand
  <2>1. PICK c \in LockCalls \cup {"none"} : Goto(t, c)
    BY DEF TakeOwnership, Contend, SpinCheck, SpinTry, SlowTry, SlowTakeOwnership,
           TryLock, SpinFailed, Return, LockCalls
  <2>2. call[t] # "wake" /\ c # "wake"
    BY <1>3 DEF LockCalls
  <2> QED
    BY <1>1, <1>2, <2>1, <2>2, PendGoto
<1>5. SchedOK'
  BY <1>1, <1>2, <1>4, SchedSame DEF schedVars, SchedOK
<1>6. MutexOK'
  <2>1. CASE TakeOwnership(t)
    <3>1. MutexInv'
      BY <1>1, <1>3, <2>1, OwnMutex DEF TakeOwnership, MutexOK, At
    <3>2. MutexTypes'
      <4> DEFINE n == spin_success[arg[t]]
                 i == IF n < SpinMax THEN n + 1 ELSE n
      <4>1. /\ spin_success' = [spin_success EXCEPT ![arg[t]] = i]
            /\ owner' = [owner EXCEPT ![arg[t]] = t]
            /\ call' = [call EXCEPT ![t] = "none"] /\ arg' = [arg EXCEPT ![t] = None]
            /\ UNCHANGED <<locked, fresh, held>>
        BY <2>1 DEF TakeOwnership, Return, Goto
      <4>2. n \in 0..SpinMax /\ SpinMax \in Nat /\ MutexTypes
        BY <1>1, <1>3, MutexAssumption DEF MutexOK, MutexTypes
      <4> HIDE DEF n
      <4>3. i \in 0..SpinMax
        BY <4>2
      <4> HIDE DEF i
      <4>4. spin_success' \in [Mutexes -> 0..SpinMax]
        BY <4>1, <4>2, <4>3 DEF MutexTypes
      <4>5. call' \in [Task -> Calls]
        BY <4>1, <4>2 DEF MutexTypes, Calls
      <4> QED
        BY <4>1, <4>2, <4>4, <4>5 DEF MutexTypes
    <3> QED
      BY <3>1, <3>2 DEF MutexOK
  <2>2. CASE SlowTakeOwnership(t)
    <3>1. MutexInv'
      BY ZenonT(60), <1>1, <1>3, <2>2, OwnMutex DEF SlowTakeOwnership, MutexOK, At
    <3>2. MutexTypes'
      BY <1>1, <1>3, <2>2
      DEF SlowTakeOwnership, MutexOK, MutexTypes, Return, Goto, Calls
    <3> QED
      BY <3>1, <3>2 DEF MutexOK
  <2>3. CASE SpinTry(t)
    <3>1. fresh' \in [Task -> BOOLEAN]
      BY <1>1, <2>3 DEF SpinTry, MutexOK, MutexTypes
    <3>2. /\ TryLock(t, arg[t], "own", "spinyield") /\ call[t] = "spin"
          /\ UNCHANGED <<owner, spin_success, arg, held>>
      BY <2>3 DEF SpinTry, At
    <3> QED
      BY <1>1, <1>3, <3>1, <3>2, TryMutex DEF MutexOK
  <2>4. CASE SlowTry(t)
    <3>1. fresh' \in [Task -> BOOLEAN]
      BY <1>1, <2>4 DEF SlowTry, MutexOK, MutexTypes
    <3>2. /\ TryLock(t, arg[t], "slowown", "enqueue") /\ call[t] = "slow"
          /\ UNCHANGED <<owner, spin_success, arg, held>>
      BY <2>4 DEF SlowTry, At
    <3> QED
      BY <1>1, <1>3, <3>1, <3>2, TryMutex DEF MutexOK
  <2>5. CASE Contend(t) \/ SpinCheck(t)
    <3>1. PICK c \in {"spincheck", "spin", "slow"} : Goto(t, c)
      BY <2>5 DEF Contend, SpinCheck, SpinFailed
    <3>2. /\ UNCHANGED <<locked, owner, arg, held>> /\ call[t] \in {"contend", "spincheck"}
          /\ call' = [call EXCEPT ![t] = c]
      BY <2>5, <3>1 DEF Contend, SpinCheck, At, Goto
    <3>3. (\A u \in Task \ {t} : call'[u] = call[u]) /\ call'[t] = c
      BY <1>1, <3>2 DEF MutexOK, MutexTypes
    <3>4. {call[t], call'[t]} \subseteq LockCalls \ {"own", "slowown"}
      BY <3>2, <3>3 DEF LockCalls
    <3>5. MutexInv'
      BY <1>1, <1>3, <3>2, <3>3, <3>4, MutexQuiet DEF MutexOK
    <3>6. spin_success' \in [Mutexes -> 0..SpinMax] /\ fresh' \in [Task -> BOOLEAN]
      <4> DEFINE n == spin_success[arg[t]]
                 d == IF n > 0 THEN n - 1 ELSE n
      <4>1. \/ spin_success' = spin_success
            \/ spin_success' = [spin_success EXCEPT ![arg[t]] = d]
        BY <2>5 DEF Contend, SpinCheck, SpinFailed
      <4>2. n \in 0..SpinMax /\ SpinMax \in Nat /\ spin_success \in [Mutexes -> 0..SpinMax]
        BY <1>1, <1>3, MutexAssumption DEF MutexOK, MutexTypes
      <4> HIDE DEF n
      <4>3. d \in 0..SpinMax
        BY <4>2
      <4> HIDE DEF d
      <4>4. spin_success' \in [Mutexes -> 0..SpinMax]
        BY <4>1, <4>2, <4>3
      <4>5. fresh' = fresh \/ fresh' = [fresh EXCEPT ![t] = TRUE]
        BY <2>5 DEF Contend, SpinCheck
      <4> QED
        BY ZenonT(60), <1>1, <4>4, <4>5 DEF MutexOK, MutexTypes
    <3>7. call' \in [Task -> Calls]
      BY <1>1, <3>2 DEF MutexOK, MutexTypes, Calls, LockCalls
    <3> QED
      BY <1>1, <3>2, <3>5, <3>6, <3>7 DEF MutexOK, MutexTypes
  <2> QED
    BY <2>1, <2>2, <2>3, <2>4, <2>5
<1> QED
  BY <1>4, <1>5, <1>6, PartsIInv

\* Points that yield, and yield_self itself.
LEMMA YieldStep ==
  ASSUME IInv, NEW t \in Task, (SpinYield(t) /\ UNCHANGED held) \/ YieldSelf(t)
  PROVE  IInv'
<1>1. SchedOK /\ PendOK /\ MutexOK /\ Hand \subseteq Task
  BY IInvParts
<1>2. /\ SwitchTask(Now, sinceWakeup)
      /\ UNCHANGED <<locked, owner, spin_success, arg, pend, fresh, held>>
  BY DEF SpinYield, YieldSelf, Yield, mutexVars, callVars
<1>3. \/ call[t] = "spinyield" /\ call' = [call EXCEPT ![t] = "spincheck"]
      \/ call' = call
  BY DEF SpinYield, YieldSelf, At, Goto, callVars
<1>4. /\ \A u \in Task \ {t} : call'[u] = call[u]
      /\ call'[t] = call[t] \/ {call[t], call'[t]} \subseteq LockCalls \ {"own", "slowown"}
      /\ t # Idle \/ call' = call
  <2>1. CASE call' = call
    BY <2>1
  <2>2. CASE call[t] = "spinyield" /\ call' = [call EXCEPT ![t] = "spincheck"]
    <3>1. call \in [Task -> Calls] /\ call[Idle] = "none"
      BY <1>1 DEF MutexOK, MutexTypes, MutexInv
    <3> QED
      BY <2>2, <3>1 DEF LockCalls
  <2> QED
    BY <1>3, <2>1, <2>2
<1>5. MutexInv'
  BY <1>1, <1>2, <1>4, MutexQuiet DEF MutexOK
<1>6. MutexOK'
  BY <1>1, <1>2, <1>3, <1>5 DEF MutexOK, MutexTypes, Calls, LockCalls
<1>7. \A u \in Task : call'[u] = "wake" <=> call[u] = "wake"
  BY <1>1, <1>3 DEF MutexOK, MutexTypes
<1>8. PendOK' /\ Hand' = Hand
  BY <1>1, <1>2, <1>7, PendSame
<1>9. sinceWakeup \in Nat
  BY <1>1, SchedulerAssumption DEF SchedOK
<1>10. SchedOK'
  BY <1>1, <1>2, <1>8, <1>9, SchedYield
<1> QED
  BY <1>6, <1>8, <1>10, PartsIInv

\* The timer interrupt.
LEMMA TickStep ==
  ASSUME IInv, Tick, UNCHANGED held
  PROVE  IInv'
<1>1. SchedOK /\ PendOK /\ MutexOK /\ Hand \subseteq Task
  BY IInvParts
<1>2. /\ SwitchTask(Now, sinceWakeup + 1) /\ fresh' = [t \in Task |-> FALSE]
      /\ UNCHANGED <<locked, owner, spin_success, call, arg, pend, held>>
  BY DEF Tick, TimerIrq, mutexVars
<1>3. MutexInv'
  BY <1>1, <1>2, MutexQuiet, SchedulerAssumption DEF MutexOK
<1>4. MutexOK'
  BY <1>1, <1>2, <1>3 DEF MutexOK, MutexTypes
<1>5. PendOK' /\ Hand' = Hand
  BY <1>1, <1>2, PendSame
<1>6. sinceWakeup + 1 \in Nat
  BY <1>1, SchedulerAssumption DEF SchedOK
<1>7. SchedOK'
  BY <1>1, <1>2, <1>5, <1>6, SchedYield
<1> QED
  BY <1>4, <1>5, <1>7, PartsIInv

\* The sleeping loop of lock() joins the waiters.
LEMMA EnqueueStep ==
  ASSUME IInv, NEW t \in Task, SlowEnqueue(t), UNCHANGED held
  PROVE  IInv'
<1>1. SchedOK /\ PendOK /\ MutexOK /\ Hand \subseteq Task
  BY IInvParts
<1>2. /\ RunningTask = t /\ call[t] = "enqueue" /\ call' = [call EXCEPT ![t] = "slow"]
      /\ Yield(SetState(PushWaiter(Now, arg[t], t), t, "BLOCKED"))
      /\ UNCHANGED <<locked, owner, spin_success, arg, pend, fresh>>
  BY DEF SlowEnqueue, At, Goto, mutexVars
<1>3. t # Idle /\ arg[t] \in Mutexes /\ arg[t] \in WaitLists
  BY <1>1, <1>2 DEF MutexOK, MutexInv, MutexTypes, LockCalls, WaitLists
<1>4. /\ \A u \in Task \ {t} : call'[u] = call[u]
      /\ {call[t], call'[t]} \subseteq LockCalls \ {"own", "slowown"}
  BY <1>1, <1>2 DEF MutexOK, MutexTypes, LockCalls
<1>5. MutexInv'
  BY <1>1, <1>2, <1>3, <1>4, MutexQuiet DEF MutexOK
<1>6. MutexOK'
  BY <1>1, <1>2, <1>5 DEF MutexOK, MutexTypes, Calls, LockCalls
<1>7. PendOK' /\ Hand' = Hand
  BY ZenonT(60), <1>1, <1>2, PendGoto DEF Goto
<1>8. Placed(Now, {RunningTask}, Hand) /\ Now.ok /\ sinceWakeup \in 0..WakeupTicks
  BY <1>1 DEF SchedOK, Now
<1>9. SchedOK'
  BY <1>1, <1>2, <1>3, <1>7, <1>8, SchedBlock
<1> QED
  BY <1>6, <1>7, <1>9, PartsIInv

\* unlock_nolock of a locked mutex.
LEMMA UnlockNolockPlaced ==
  ASSUME NEW on, Hand \subseteq Task, NEW m \in Mutexes, Placed(Now, on, Hand), locked[m]
  PROVE  Placed(UnlockNolock(Now, m), on, Hand) /\ UnlockNolock(Now, m).ok
<1> DEFINE b == Now.ok /\ locked[m]
           r == [Now EXCEPT !.ok = b]
<1>1. b = TRUE
  BY DEF Now
<1>2. r = Now
  <2>1. r = [Now EXCEPT !.ok = TRUE]
    BY ZenonT(60), <1>1
  <2> HIDE DEF r
  <2> QED
    BY <2>1 DEF Now
<1>3. UnlockNolock(Now, m) = UnblockOne(r, m)
  BY DEF UnlockNolock
<1> HIDE DEF r
<1>4. Now.ok /\ m \in WaitLists
  BY DEF Now, WaitLists
<1> QED
  BY <1>2, <1>3, <1>4, UnblockOnePlaced

\* CV::wait.
LEMMA WaitStep ==
  ASSUME IInv, NEW t \in Task, NEW c \in CVs, NEW m \in Mutexes, Wait(t, c, m)
  PROVE  IInv'
<1>1. SchedOK /\ PendOK /\ MutexOK /\ Hand \subseteq Task
  BY IInvParts
<1>2. /\ RunningTask = t /\ call[t] = "none" /\ t # Idle /\ m \in held[t]
      /\ Yield(SetState(PushWaiter(UnlockNolock(Now, m), c, t), t, "BLOCKED"))
      /\ ReleaseNolock(m) /\ arg' = [arg EXCEPT ![t] = m] /\ Goto(t, "lock")
      /\ UNCHANGED <<held, pend, fresh>>
  BY DEF Wait, Free, At, CVWait
<1>3. MutexOK' /\ locked[m]
  BY <1>1, <1>2, WaitMutex DEF MutexOK
<1>4. PendOK' /\ Hand' = Hand
  BY <1>1, <1>2, PendGoto
<1>5. Placed(Now, {RunningTask}, Hand) /\ sinceWakeup \in 0..WakeupTicks
  BY <1>1 DEF SchedOK
<1>6. Placed(UnlockNolock(Now, m), {RunningTask}, Hand) /\ UnlockNolock(Now, m).ok
  BY <1>1, <1>3, <1>5, UnlockNolockPlaced
<1>7. c \in WaitLists /\ RunningTask \in Task \ {Idle}
  BY <1>2 DEF WaitLists
<1>8. SchedOK'
  BY <1>1, <1>2, <1>4, <1>5, <1>6, <1>7, SchedBlock
<1> QED
  BY <1>3, <1>4, <1>8, PartsIInv

\* unlock() up to the point where it takes a waiter.
LEMMA UnlockStep ==
  ASSUME IInv, NEW t \in Task,
         \/ \E m \in Mutexes : Unlock(t, m)
         \/ Release(t) /\ UNCHANGED held
  PROVE  IInv'
<1>1. SchedOK /\ PendOK /\ MutexOK
  BY IInvParts
<1>2. CASE \E m \in Mutexes : Unlock(t, m)
  <2>1. PICK m \in Mutexes : Unlock(t, m)
    BY <1>2
  <2>2. /\ call[t] = "none" /\ t # Idle /\ m \in held[t] /\ EnterUnlock(t, m)
        /\ held' = [held EXCEPT ![t] = @ \ {m}]
    BY <2>1 DEF Unlock, Free, At
  <2>3. MutexOK'
    BY <1>1, <2>2, UnlockMutex DEF MutexOK
  <2>4. Goto(t, "release") /\ UNCHANGED <<schedVars, pend>>
    BY <2>2 DEF EnterUnlock
  <2>5. PendOK' /\ Hand' = Hand
    BY <1>1, <2>2, <2>4, PendGoto
  <2>6. SchedOK'
    BY <1>1, <2>4, <2>5, SchedSame DEF schedVars, SchedOK
  <2> QED
    BY <2>3, <2>5, <2>6, PartsIInv
<1>3. CASE Release(t) /\ UNCHANGED held
  <2>1. call[t] = "release" /\ t # Idle
    BY <1>1, <1>3 DEF Release, At, MutexOK, MutexInv
  <2>2. MutexOK' /\ hcf' = FALSE
    BY <1>1, <1>3, <2>1, ReleaseMutex DEF MutexOK
  <2>3. Goto(t, "extract") /\ UNCHANGED pend
    BY <1>3 DEF Release
  <2>4. PendOK' /\ Hand' = Hand
    BY <1>1, <2>1, <2>3, PendGoto
  <2>5. SchedOK'
    BY ZenonT(60), <1>1, <1>3, <2>2, <2>4, SchedSame DEF Release, Asserting
  <2> QED
    BY <2>2, <2>4, <2>5, PartsIInv
<1> QED
  BY <1>2, <1>3

\* unlock() and notify_one take the oldest waiter off its list.
LEMMA ExtractStep ==
  ASSUME IInv, NEW t \in Task \ {Idle}, NEW q \in WaitLists, call[t] \in {"none", "extract"},
         ExtractOne(t, q), UNCHANGED mutexVars, UNCHANGED held
  PROVE  IInv'
<1>1. SchedOK /\ PendOK /\ MutexOK /\ Hand \subseteq Task
  BY IInvParts
<1>2. UNCHANGED <<RunningTask, NextTasks, state, sinceWakeup, hcf, fresh>>
  BY DEF ExtractOne
<1>3. CASE waiters[q] = <<>>
  <2>1. /\ Goto(t, "none") /\ arg' = [arg EXCEPT ![t] = None] /\ UNCHANGED <<pend, waiters>>
    BY <1>3 DEF ExtractOne, Return
  <2>2. MutexOK'
    BY <1>1, <1>2, <2>1, ExtractMutex DEF MutexOK
  <2>3. PendOK' /\ Hand' = Hand
    BY <1>1, <2>1, PendGoto
  <2>4. SchedOK'
    BY ZenonT(60), <1>1, <1>2, <2>1, <2>3, SchedSame DEF SchedOK
  <2> QED
    BY <2>2, <2>3, <2>4, PartsIInv
<1>4. CASE waiters[q] # <<>>
  <2> DEFINE h == Head(waiters[q])
             r == [Now EXCEPT !.wait[q] = Tail(Now.wait[q])]
  <2>1. /\ Goto(t, "wake") /\ arg' = [arg EXCEPT ![t] = None]
        /\ pend' = [pend EXCEPT ![t] = <<h>>]
        /\ waiters' = [waiters EXCEPT ![q] = Tail(@)]
    BY <1>4 DEF ExtractOne
  <2>2. MutexOK'
    BY <1>1, <1>2, <2>1, ExtractMutex DEF MutexOK
  <2>3. Now.wait = waiters /\ Now' = r
    <3> DEFINE x == Tail(waiters[q])
    <3>1. Now.wait = waiters
      BY DEF Now
    <3>2. r = [Now EXCEPT !.wait[q] = x] /\ waiters' = [waiters EXCEPT ![q] = x]
      BY <2>1, <3>1
    <3> HIDE DEF x, r
    <3> QED
      BY ZenonT(60), <1>2, <3>1, <3>2 DEF Now
  <2>4. Placed(Now, {RunningTask}, Hand)
    BY <1>1 DEF SchedOK
  <2>5. h \in Task /\ h \notin Hand /\ Placed(Now', {RunningTask}, Hand \cup {h})
    BY <1>1, <1>4, <2>3, <2>4, ExtractPlaced
  <2> HIDE DEF h, r
  <2>6. <<h>> \in Seq(Task) /\ <<h>> # <<>> /\ Range(<<h>>) = {h} /\ IsInjective(<<h>>)
    BY <2>5 DEF Range, IsInjective
  <2>7. PendOK' /\ Hand' = Hand \cup {h}
    <3>1. call \in [Task -> Calls] /\ call[t] # "wake" /\ call' = [call EXCEPT ![t] = "wake"]
      BY <1>1, <2>1 DEF MutexOK, MutexTypes, Goto
    <3>2. Range(<<h>>) \cap Hand = {}
      BY <2>5, <2>6
    <3> DEFINE w == <<h>>
    <3>3. w \in Seq(Task) /\ w # <<>> /\ IsInjective(w) /\ pend' = [pend EXCEPT ![t] = w]
      BY <2>1, <2>6
    <3> QED
      BY ZenonT(60), <1>1, <2>6, <3>1, <3>2, <3>3, PendTake
  <2>8. SchedOK'
    BY <1>1, <1>2, <2>5, <2>7 DEF SchedOK
  <2> QED
    BY <2>2, <2>7, <2>8, PartsIInv
<1> QED
  BY <1>3, <1>4

\* notify_all takes all waiters off their list.
LEMMA NotifyAllStep ==
  ASSUME IInv, NEW t \in Task \ {Idle}, NEW c \in CVs, call[t] = "none", NotifyAll(t, c),
         UNCHANGED held
  PROVE  IInv'
<1> DEFINE w == waiters[c]
<1>1. SchedOK /\ PendOK /\ MutexOK /\ Hand \subseteq Task
  BY IInvParts
<1>2. /\ UNCHANGED <<RunningTask, NextTasks, state, sinceWakeup, hcf>>
      /\ UNCHANGED <<locked, owner, spin_success, arg, fresh>>
      /\ pend' = [pend EXCEPT ![t] = w] /\ waiters' = [waiters EXCEPT ![c] = <<>>]
      /\ call' = [call EXCEPT ![t] = IF w = <<>> THEN "none" ELSE "wake"]
  BY DEF NotifyAll, mutexVars, Goto
<1>3. /\ c \in WaitLists /\ Placed(Now, {RunningTask}, Hand)
      /\ Now.wait = waiters /\ waiters \in [WaitLists -> Seq(Task)]
  BY <1>1 DEF WaitLists, SchedOK, Placed, SchedRec, Now
<1>4. w \in Seq(Task) /\ IsInjective(w) /\ Range(w) \cap Hand = {}
  BY <1>3 DEF Placed
<1> HIDE DEF w
<1>5. MutexInv'
  <2>1. (\A u \in Task \ {t} : call'[u] = call[u]) /\ {call[t], call'[t]} \subseteq {"none", "wake"}
    BY <1>1, <1>2 DEF MutexOK, MutexTypes
  <2> QED
    BY <1>1, <1>2, <2>1, MutexQuiet DEF MutexOK
<1>6. MutexOK'
  BY <1>1, <1>2, <1>5 DEF MutexOK, MutexTypes, Calls
<1>7. PendOK' /\ Hand' = Hand \cup Range(w)
  <2>1. CASE w = <<>>
    <3>1. pend[t] = <<>> /\ pend' = pend /\ Range(w) = {}
      <4>1. pend[t] = <<>> /\ pend \in [Task -> Seq(Task)]
        BY <1>1 DEF PendOK, HandInv
      <4>2. pend' = pend
        BY <1>2, <2>1, <4>1
      <4>3. Range(w) = {}
        BY <2>1 DEF Range
      <4> QED
        BY <4>1, <4>2, <4>3
    <3>2. Goto(t, "none")
      BY <1>2, <2>1 DEF Goto
    <3> QED
      BY <1>1, <3>1, <3>2, PendGoto
  <2>2. CASE w # <<>>
    BY <1>1, <1>2, <1>4, <2>2, PendTake DEF MutexOK, MutexTypes
  <2> QED
    BY <2>1, <2>2
<1>8. SchedOK'
  <2> DEFINE x == <<>>
             r == [Now EXCEPT !.wait[c] = x]
  <2>1. Placed(r, {RunningTask}, Hand \cup Range(w))
    BY <1>3, SwapPlaced DEF w
  <2>3. waiters' = [waiters EXCEPT ![c] = x] /\ NextTasks' = NextTasks /\ state' = state
    BY <1>2
  <2>4. r = [Now EXCEPT !.wait[c] = x]
    OBVIOUS
  <2> HIDE DEF x, r
  <2>2. Now' = r
    BY <1>3, <2>3, <2>4 DEF Now
  <2> QED
    BY <1>1, <1>2, <1>7, <2>1, <2>2 DEF SchedOK
<1> QED
  BY <1>6, <1>7, <1>8, PartsIInv

\* Scheduler::unblock of a node in hand.
LEMMA WakeStep ==
  ASSUME IInv, NEW t \in Task, Wake(t), UNCHANGED held
  PROVE  IInv'
<1> DEFINE h == Head(pend[t])
<1>1. SchedOK /\ PendOK /\ MutexOK /\ Hand \subseteq Task
  BY IInvParts
<1>2. /\ call[t] = "wake" /\ t # Idle /\ Stay(Unblock(Now, h))
      /\ pend' = [pend EXCEPT ![t] = Tail(pend[t])]
      /\ call' = [call EXCEPT ![t] = IF Len(pend[t]) = 1 THEN "none" ELSE "wake"]
      /\ UNCHANGED <<locked, owner, spin_success, arg, fresh>>
  BY <1>1 DEF Wake, At, Goto, mutexVars, MutexOK, MutexInv
<1>3. PendOK' /\ h \in Hand /\ Hand' = Hand \ {h}
  BY ZenonT(60), <1>1, <1>2, PendWake DEF MutexOK, MutexTypes
<1>4. MutexInv'
  <2>1. (\A u \in Task \ {t} : call'[u] = call[u]) /\ {call[t], call'[t]} \subseteq {"none", "wake"}
    BY <1>1, <1>2 DEF MutexOK, MutexTypes
  <2> QED
    BY <1>1, <1>2, <2>1, MutexQuiet DEF MutexOK
<1>5. MutexOK'
  BY <1>1, <1>2, <1>4 DEF MutexOK, MutexTypes, Calls
<1> HIDE DEF h
<1>6. Placed(Now, {RunningTask}, Hand) /\ Now.ok
  BY <1>1 DEF SchedOK, Now
<1>7. Placed(Unblock(Now, h), {RunningTask}, Hand') /\ Unblock(Now, h).ok
  BY <1>1, <1>3, <1>6, UnblockPlaced
<1>8. SchedOK'
  BY ZenonT(60), <1>1, <1>2, <1>7, SchedStay
<1> QED
  BY <1>3, <1>5, <1>8, PartsIInv

\* notify_one in an interrupt handler.
LEMMA IrqStep ==
  ASSUME IInv, NEW c \in CVs, IrqNotify(c), UNCHANGED held
  PROVE  IInv'
<1>1. SchedOK /\ PendOK /\ MutexOK /\ Hand \subseteq Task
  BY IInvParts
<1>2. /\ Stay(UnblockOne(Now, c))
      /\ UNCHANGED <<locked, owner, spin_success, call, arg, pend, fresh>>
  BY DEF IrqNotify, mutexVars, callVars
<1>3. MutexInv'
  BY <1>1, <1>2, MutexQuiet, SchedulerAssumption DEF MutexOK
<1>4. MutexOK'
  BY <1>1, <1>2, <1>3 DEF MutexOK, MutexTypes
<1>5. PendOK' /\ Hand' = Hand
  BY <1>1, <1>2, PendSame
<1>6. Placed(Now, {RunningTask}, Hand) /\ Now.ok /\ c \in WaitLists
  BY <1>1 DEF SchedOK, Now, WaitLists
<1>7. Placed(UnblockOne(Now, c), {RunningTask}, Hand) /\ UnblockOne(Now, c).ok
  BY <1>1, <1>6, UnblockOnePlaced
<1>8. SchedOK'
  BY <1>1, <1>2, <1>5, <1>7, SchedStay
<1> QED
  BY <1>4, <1>5, <1>8, PartsIInv

-----------------------------------------------------------------------------
(* The theorems. *)

\* The state kmain reaches before the first interrupt: the dummy task runs, the
\* others are queued, nothing is locked.
LEMMA InitIInv == Init => IInv
<1> SUFFICES ASSUME Init PROVE IInv
  OBVIOUS
<1>0. Range(<<>>) = {} /\ IsInjective(<<>>)
  BY SMTT(60) DEF Range, IsInjective
<1> USE DEF Init, SchedInit, MutexInit
<1>1. \A u \in Task : pend[u] = <<>> /\ Range(pend[u]) = {} /\ IsInjective(pend[u])
  BY <1>0
<1>2. Hand = {} /\ HandInv
  BY <1>1 DEF Hand, InHand, HandInv
<1>3. MutexInv
  BY MutexAssumption, SchedulerAssumption
  DEF MutexInv, Owns, OwnsAt, Holds, HoldsAt, LockCalls
<1>4. MutexTypeOK /\ held \in [Task -> SUBSET Mutexes]
  BY SMTT(60), MutexAssumption DEF MutexTypeOK, Calls
<1>5. SchedTypeOK
  <2>1. waiters \in [WaitLists -> Seq(Task)]
    OBVIOUS
  <2>2. RunningTask \in Task /\ NextTasks \in Seq(Task) /\ sinceWakeup \in 0..WakeupTicks
    BY SchedulerAssumption, StartAssumption
  <2>3. state \in [Task -> TaskState] /\ hcf \in BOOLEAN
    BY ZenonT(60) DEF TaskState
  <2> QED
    BY <2>1, <2>2, <2>3 DEF SchedTypeOK
<1>6. \A q \in WaitLists : waiters[q] = <<>> /\ Range(waiters[q]) = {} /\ IsInjective(waiters[q])
  BY <1>0
<1>7. \A t \in Task : state[t] = "RUNNING"
  BY StartAssumption
<1>8. Range(NextTasks) = Task \ {Idle} /\ IsInjective(NextTasks) /\ Idle \in Task
  BY StartAssumption, SchedulerAssumption
<1>9. Placed(Now, {RunningTask}, Hand)
  <2>1. /\ Now.next = NextTasks /\ Now.wait = waiters /\ Now.st = state
        /\ Now \in SchedRec /\ RunningTask = Idle
    BY <1>5 DEF Now, SchedRec, SchedTypeOK
  <2> QED
    BY <1>2, <1>6, <1>7, <1>8, <2>1 DEF Placed
<1> QED
  BY <1>2, <1>3, <1>4, <1>5, <1>9 DEF IInv, TypeOK

\* One step per action of Next.
LEMMA NextIInv == IInv /\ [Next]_vars => IInv'
<1> SUFFICES ASSUME IInv, [Next]_vars PROVE IInv'
  OBVIOUS
<1>1. ASSUME NEW t \in Task, Step(t) PROVE IInv'
  <2>1. ASSUME NEW m \in Mutexes, Lock(t, m) PROVE IInv'
    BY ZenonT(60), <2>1, LockStep DEF Lock, Free, At
  <2>2. ASSUME NEW m \in Mutexes, Unlock(t, m) PROVE IInv'
    BY <2>2, UnlockStep
  <2>3. ASSUME NEW c \in CVs, NEW m \in Mutexes, Wait(t, c, m) PROVE IInv'
    BY <2>3, WaitStep
  <2>4. ASSUME NEW c \in CVs, Notify(t, c) PROVE IInv'
    <3>1. call[t] = "none" /\ t # Idle /\ UNCHANGED held /\ c \in WaitLists
      BY <2>4 DEF Notify, Free, At, WaitLists
    <3>2. CASE NotifyOne(t, c)
      BY <3>1, <3>2, ExtractStep DEF NotifyOne
    <3>3. CASE NotifyAll(t, c)
      BY <3>1, <3>3, NotifyAllStep
    <3> QED
      BY <2>4, <3>2, <3>3 DEF Notify
  <2>5. ASSUME YieldSelf(t) PROVE IInv'
    BY <2>5, YieldStep
  <2>6. ASSUME CallStep(t), UNCHANGED held PROVE IInv'
    <3>1. ASSUME Relock(t) PROVE IInv'
      <4>1. call[t] = "lock" /\ EnterLock(t, arg[t])
        BY <3>1 DEF Relock, At
      <4>2. t # Idle /\ arg[t] \in Mutexes
        BY <4>1, IInvParts DEF MutexOK, MutexInv, MutexTypes, LockCalls
      <4> QED
        BY <2>6, <4>1, <4>2, LockStep
    <3>2. ASSUME Extract(t) PROVE IInv'
      <4>1. call[t] = "extract" /\ ExtractOne(t, arg[t]) /\ UNCHANGED mutexVars
        BY <3>2 DEF Extract, At
      <4>2. t # Idle /\ arg[t] \in WaitLists
        BY <4>1, IInvParts DEF MutexOK, MutexInv, WaitLists
      <4> QED
        BY <2>6, <4>1, <4>2, ExtractStep
    <3> QED
      BY <2>6, <3>1, <3>2, LockPointStep, YieldStep, EnqueueStep, UnlockStep, WakeStep DEF CallStep
  <2> QED
    BY <1>1, <2>1, <2>2, <2>3, <2>4, <2>5, <2>6 DEF Step
<1>2. ASSUME Tick, UNCHANGED held PROVE IInv'
  BY <1>2, TickStep
<1>3. ASSUME Irq PROVE IInv'
  BY <1>3, IrqStep DEF Irq
<1>4. ASSUME UNCHANGED vars PROVE IInv'
  <2>1. UNCHANGED <<RunningTask, NextTasks, waiters, state, sinceWakeup, hcf, locked, owner,
                    spin_success, call, arg, pend, fresh, held>>
    BY <1>4 DEF vars, schedVars, mutexVars, callVars
  <2>2. SchedOK /\ PendOK /\ MutexOK
    BY IInvParts
  <2>3. PendOK' /\ Hand' = Hand
    BY <2>1, <2>2, PendSame
  <2>4. SchedOK'
    BY ZenonT(60), <2>1, <2>2, <2>3, SchedSame DEF SchedOK
  <2>5. MutexInv'
    BY <2>1, <2>2, MutexQuiet, SchedulerAssumption DEF MutexOK
  <2>6. MutexOK'
    BY <2>1, <2>2, <2>5 DEF MutexOK, MutexTypes
  <2> QED
    BY <2>3, <2>4, <2>6, PartsIInv
<1> QED
  BY <1>1, <1>2, <1>3, <1>4 DEF Next

\* IInv holds in every state the kernel tasks and interrupts can reach.
THEOREM IInvariant == Spec => []IInv
  BY InitIInv, NextIInv, PTL DEF Spec

\* Type correctness: in particular spin_success stays within 0..255 and the
\* waker of switch_task is notified at most WakeupTicks + 1 ticks apart.
THEOREM TypeCorrect == Spec => []TypeOK
<1>1. IInv => TypeOK
  BY DEF IInv
<1> QED
  BY <1>1, IInvariant, PTL

\* No assertion in task.cpp, mutex.cpp, cv.hpp or List.hpp can fail, for any
\* number of tasks, mutexes and condition variables.
THEOREM PanicFree == Spec => []NoPanic
<1>1. IInv => NoPanic
  BY DEF IInv, NoPanic
<1> QED
  BY <1>1, IInvariant, PTL

\* Mutual exclusion, with _owner exact, although lock() and unlock() write
\* locked and _owner in separate steps.
THEOREM MutualExclusion == Spec => []OwnerIsHolder
<1>1. IInv => OwnerIsHolder
  BY DEF IInv, MutexInv, OwnerIsHolder, Owns, OwnsAt, Holds
<1> QED
  BY <1>1, IInvariant, PTL

\* Every task is in exactly one place, and is TS_RUNNING there iff the place is
\* the CPU or the run queue.
THEOREM TasksKept == Spec => []NoTaskLost
<1>1. ASSUME IInv PROVE NoTaskLost
  <2>1. Placed(Now, {RunningTask}, Hand) /\ RunningTask \in Task
    BY <1>1 DEF IInv, TypeOK, SchedTypeOK
  <2>2. \A t \in Task : t \in Hand <=> InHand(t)
    BY DEF Hand
  <2>3. Now.next = NextTasks /\ Now.wait = waiters /\ Now.st = state
    BY DEF Now
  <2>4. RunningTask \notin Range(NextTasks)
    BY <2>1, <2>3 DEF Placed
  <2>5. ASSUME NEW t \in Task, t = RunningTask \/ t \in Range(NextTasks)
        PROVE  state[t] = "RUNNING" /\ ~InHand(t) /\ \A q \in WaitLists : t \notin Range(waiters[q])
    BY <2>1, <2>2, <2>3, <2>5 DEF Placed
  <2>6. ASSUME NEW t \in Task, t # RunningTask, t \notin Range(NextTasks)
        PROVE  /\ state[t] = "BLOCKED"
               /\ InHand(t) <=> \A q \in WaitLists : t \notin Range(waiters[q])
               /\ \A q, r \in WaitLists : t \in Range(waiters[q]) /\ t \in Range(waiters[r]) => q = r
    <3>1. state[t] = "BLOCKED"
      BY <2>1, <2>3, <2>6 DEF Placed
    <3>2. InHand(t) <=> \A q \in WaitLists : t \notin Range(waiters[q])
      BY <2>1, <2>2, <2>3, <3>1 DEF Placed
    <3>3. \A q, r \in WaitLists : t \in Range(waiters[q]) /\ t \in Range(waiters[r]) => q = r
      BY <2>1, <2>3 DEF Placed
    <3> QED
      BY <3>1, <3>2, <3>3
  <2> QED
    BY <2>4, <2>5, <2>6 DEF NoTaskLost
<1> QED
  BY <1>1, IInvariant, PTL
=============================================================================
