------------------------------ MODULE SharedPtr ------------------------------
(***************************************************************************)
(* The reference counted pointers of                                       *)
(* src/src/kernel/templates/PointersCollection.hpp: SharedPtr and WeakPtr  *)
(* objects (here: handles) of several tasks refer to one object through a  *)
(* control block with two counters.  The counters change together, by a    *)
(* compare and exchange that is retried when another task was faster; the  *)
(* object and the block are deleted in later steps of their own.  A handle *)
(* belongs to one task at a time, as the code expects of its users.        *)
(***************************************************************************)
EXTENDS Integers, FiniteSets

CONSTANTS
  Task,
  Handle,  \* the SharedPtr and WeakPtr objects of the tasks
  First,   \* the handle the object was created with
  None

ASSUME SharedPtrAssumption ==
  /\ IsFiniteSet(Handle)
  /\ First \in Handle
  /\ None \notin Handle

VARIABLES
  kind,    \* what a handle is: "null", "strong" (SharedPtr), "weak" (WeakPtr)
  owner,   \* the task a handle belongs to
  uses,    \* _uses of the control block
  object,  \* the object: "live" or "deleted"
  block,   \* the control block: "live" or "deleted"
  op       \* the member function a task is in

vars == <<kind, owner, uses, object, block, op>>

Kinds == {"null", "strong", "weak"}

Quiet == [pc |-> "none", fn |-> "none", src |-> None, dst |-> None,
          old |-> [ctl |-> 0, obj |-> 0], dead |-> {}]

\* No member function of t or of another task is at work on handle h.
Untouched(h) == \A u \in Task : op[u].src # h /\ op[u].dst # h

-----------------------------------------------------------------------------
\* A member function begins with _uses.load().
Call(t, fn, src, dst) ==
  /\ op[t] = Quiet
  /\ op' = [op EXCEPT ![t] = [Quiet EXCEPT !.pc = "cas", !.fn = fn, !.src = src,
                                           !.dst = dst, !.old = uses]]
  /\ UNCHANGED <<kind, owner, uses, object, block>>

\* A new handle from handle src of t: the copy constructors (and
\* static_ptr_cast), WeakPtr(const SharedPtr &), WeakPtr::lock().
Acquire(t, src, dst) ==
  /\ kind[src] # "null" /\ kind[dst] = "null"
  /\ owner[src] = t /\ owner[dst] = t
  /\ Untouched(src) /\ Untouched(dst)
  /\ \/ Call(t, "strong_lock", src, dst)
     \/ Call(t, "weak_lock", src, dst)

\* unref(), from a destructor.
Unref(t, src) ==
  /\ kind[src] # "null" /\ owner[src] = t /\ Untouched(src)
  /\ Call(t, IF kind[src] = "strong" THEN "strong_release" ELSE "weak_release", src, None)

\* The move constructors; the new handle may be another task's.
Move(t, src, dst) ==
  /\ kind[src] # "null" /\ kind[dst] = "null" /\ owner[src] = t
  /\ Untouched(src) /\ Untouched(dst)
  /\ kind' = [kind EXCEPT ![dst] = kind[src], ![src] = "null"]
  /\ UNCHANGED <<owner, uses, object, block, op>>

-----------------------------------------------------------------------------
\* The test of strong_lock() on the counters it has read.
LockRefused(t) == op[t].fn = "strong_lock" /\ op[t].old.obj <= 0

\* compare_exchange_weak fails and loads the counters again.
Retry(t) ==
  /\ op[t].pc = "cas" /\ ~LockRefused(t) /\ uses # op[t].old
  /\ op' = [op EXCEPT ![t].old = uses]
  /\ UNCHANGED <<kind, owner, uses, object, block>>

\* strong_lock() returns false: WeakPtr::lock() returns nothing, but a copy
\* constructor would not notice.
LockFails(t) ==
  LET o == op[t] IN
  /\ o.pc = "cas" /\ LockRefused(t)
  /\ kind' = IF kind[o.src] = "strong" THEN [kind EXCEPT ![o.dst] = "strong"] ELSE kind
  /\ op' = [op EXCEPT ![t] = Quiet]
  /\ UNCHANGED <<owner, uses, object, block>>

\* Mutant of StrongLock: the test uses what was read, the counters are changed
\* whatever they are now.
StrongLockBlind(t) ==
  LET o == op[t] IN
  /\ o.pc = "cas" /\ o.fn = "strong_lock" /\ o.old.obj > 0
  /\ uses' = [ctl |-> uses.ctl + 1, obj |-> uses.obj + 1]
  /\ kind' = [kind EXCEPT ![o.dst] = "strong"]
  /\ op' = [op EXCEPT ![t] = Quiet]
  /\ UNCHANGED <<owner, object, block>>

StrongLock(t) ==
  LET o == op[t] IN
  /\ o.pc = "cas" /\ o.fn = "strong_lock" /\ ~LockRefused(t) /\ uses = o.old
  /\ uses' = [ctl |-> uses.ctl + 1, obj |-> uses.obj + 1]
  /\ kind' = [kind EXCEPT ![o.dst] = "strong"]
  /\ op' = [op EXCEPT ![t] = Quiet]
  /\ UNCHANGED <<owner, object, block>>

WeakLock(t) ==
  LET o == op[t] IN
  /\ o.pc = "cas" /\ o.fn = "weak_lock" /\ uses = o.old
  /\ uses' = [uses EXCEPT !.ctl = @ + 1]
  /\ kind' = [kind EXCEPT ![o.dst] = "weak"]
  /\ op' = [op EXCEPT ![t] = Quiet]
  /\ UNCHANGED <<owner, object, block>>

\* Mutant of ToDelete: weak_release reports the object too.
ToDeleteAny(fn, n) ==
  (IF n.ctl = 0 THEN {"block"} ELSE {}) \cup (IF n.obj = 0 THEN {"object"} ELSE {})

\* What the release that left the counters at n has to delete.
ToDelete(fn, n) ==
  (IF n.ctl = 0 THEN {"block"} ELSE {})
    \cup (IF fn = "strong_release" /\ n.obj = 0 THEN {"object"} ELSE {})

\* Mutant of Released: the object counter alone is decremented.
ReleasedObjOnly(fn, n) == IF fn = "strong_release" THEN [n EXCEPT !.obj = @ - 1]
                          ELSE [n EXCEPT !.ctl = @ - 1]

\* The counters after a release.
Released(fn, n) ==
  IF fn = "strong_release" THEN [ctl |-> n.ctl - 1, obj |-> n.obj - 1]
  ELSE [n EXCEPT !.ctl = @ - 1]

\* strong_release(), weak_release().
Release(t) ==
  LET o == op[t]
      n == Released(o.fn, uses)
  IN  /\ o.pc = "cas" /\ o.fn \in {"strong_release", "weak_release"} /\ uses = o.old
      /\ uses' = n
      /\ op' = [op EXCEPT ![t].pc = "delete", ![t].dead = ToDelete(o.fn, n)]
      /\ UNCHANGED <<kind, owner, object, block>>

\* delete this, in strong_release() and weak_release().
DeleteBlock(t) ==
  /\ op[t].pc = "delete" /\ "block" \in op[t].dead
  /\ block' = "deleted"
  /\ op' = [op EXCEPT ![t].dead = @ \ {"block"}]
  /\ UNCHANGED <<kind, owner, uses, object>>

\* delete _ptr, in SharedPtr::unref().
DeleteObject(t) ==
  /\ op[t].pc = "delete" /\ op[t].dead = {"object"}
  /\ object' = "deleted"
  /\ op' = [op EXCEPT ![t].dead = {}]
  /\ UNCHANGED <<kind, owner, uses, block>>

\* The end of unref().
EndUnref(t) ==
  /\ op[t].pc = "delete" /\ op[t].dead = {}
  /\ kind' = [kind EXCEPT ![op[t].src] = "null"]
  /\ op' = [op EXCEPT ![t] = Quiet]
  /\ UNCHANGED <<owner, uses, object, block>>

-----------------------------------------------------------------------------
\* SharedPtr(T *data).
Init ==
  /\ kind = [h \in Handle |-> IF h = First THEN "strong" ELSE "null"]
  /\ owner \in [Handle -> Task]
  /\ uses = [ctl |-> 1, obj |-> 1]
  /\ object = "live" /\ block = "live"
  /\ op = [t \in Task |-> Quiet]

Step(t) ==
  \/ Retry(t) \/ LockFails(t) \/ StrongLock(t) \/ WeakLock(t)
  \/ Release(t) \/ DeleteBlock(t) \/ DeleteObject(t) \/ EndUnref(t)

Next ==
  \E t \in Task :
    \/ \E src, dst \in Handle : Acquire(t, src, dst) \/ Move(t, src, dst)
    \/ \E src \in Handle : Unref(t, src)
    \/ Step(t)

Spec == Init /\ [][Next]_vars

-----------------------------------------------------------------------------
Counts == [ctl : Nat, obj : Nat]

OpType == [pc   : {"none", "cas", "delete"},
           fn   : {"none", "strong_lock", "weak_lock", "strong_release", "weak_release"},
           src  : Handle \cup {None},
           dst  : Handle \cup {None},
           old  : Counts,
           dead : SUBSET {"block", "object"}]

TypeOK ==
  /\ kind \in [Handle -> Kinds]
  /\ owner \in [Handle -> Task]
  /\ uses \in Counts
  /\ object \in {"live", "deleted"} /\ block \in {"live", "deleted"}
  /\ op \in [Task -> OpType]

\* The handles that have a share in _uses_ctl, and those in _uses_obj: until
\* the compare and exchange of their unref().
Counted == {h \in Handle : kind[h] # "null" /\ \A t \in Task : ~(op[t].pc = "delete" /\ op[t].src = h)}
Strong == {h \in Counted : kind[h] = "strong"}

\* The counters are exact, whatever compare and exchange fails and is retried.
CountsExact == uses.ctl = Cardinality(Counted) /\ uses.obj = Cardinality(Strong)

\* As long as a SharedPtr is there the object is, and as long as any handle is
\* there the control block is; in particular for a function between its load()
\* and its compare and exchange, and for a WeakPtr::lock() that meets the last
\* unref().
NoUseAfterFree ==
  /\ Counted # {} => block = "live"
  /\ Strong # {} => object = "live"

\* What nobody refers to is deleted, once: it is gone, or exactly one task is
\* about to delete it (strong_release, weak_release, unref).
Deleting(what) == {t \in Task : what \in op[t].dead}
DeletedOnce ==
  /\ \A t, u \in Deleting("block") : t = u
  /\ \A t, u \in Deleting("object") : t = u
  /\ Counted = {} => (block = "live" <=> Deleting("block") # {})
  /\ Strong = {} => (object = "live" <=> Deleting("object") # {})

\* An object without a SharedPtr never gets one again: WeakPtr::lock() does not
\* revive what is being deleted (strong_lock).
NoRevival == [][uses.obj = 0 => uses'.obj = 0]_vars

-----------------------------------------------------------------------------
Locks == {"strong_lock", "weak_lock"}
Releases == {"strong_release", "weak_release"}

\* A function at work has its handles, of the right kind, to itself.
OpOK(t) ==
  /\ op[t].pc = "none" => op[t] = Quiet
  /\ op[t].pc # "none" => op[t].src \in Handle /\ kind[op[t].src] # "null"
  /\ op[t].pc = "cas" => op[t].fn \in Locks \cup Releases /\ op[t].dead = {}
  /\ op[t].pc = "cas" /\ kind[op[t].src] = "strong" => op[t].old.obj > 0
  /\ op[t].pc = "cas" /\ op[t].fn \in Locks => op[t].dst \in Handle /\ kind[op[t].dst] = "null"
  /\ op[t].fn \in Releases => op[t].dst = None
  /\ op[t].fn = "strong_release" => kind[op[t].src] = "strong"
  /\ op[t].fn = "weak_release" => kind[op[t].src] = "weak"
  /\ op[t].pc = "delete" => op[t].fn \in Releases

OpInv == \A t \in Task : OpOK(t)

Apart ==
  \A t, u \in Task : t # u =>
    /\ op[t].src # None => op[t].src # op[u].src /\ op[t].src # op[u].dst
    /\ op[t].dst # None => op[t].dst # op[u].dst

\* Only what nobody refers to any more is about to be deleted.
DeadInv ==
  \A t \in Task :
    /\ "block" \in op[t].dead => Counted = {} /\ block = "live"
    /\ "object" \in op[t].dead => Strong = {} /\ object = "live"

\* The inductive invariant behind CountsExact, NoUseAfterFree and DeletedOnce:
\* beyond these, a function at work has its handles to itself and deletes only
\* what has no references left (PointersCollection.hpp).
IInv == TypeOK /\ CountsExact /\ NoUseAfterFree /\ DeletedOnce /\ OpInv /\ Apart /\ DeadInv
=============================================================================
