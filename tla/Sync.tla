-------------------------------- MODULE Sync --------------------------------
(***************************************************************************)
(* Kernel tasks that use mutexes and condition variables in every legal    *)
(* way: a task locks mutexes it does not hold, nested or not, unlocks the  *)
(* ones it holds, waits on a condition variable with a mutex it holds,     *)
(* notifies, yields; interrupt handlers notify; the timer preempts.        *)
(***************************************************************************)
EXTENDS Mutex

CONSTANT StartOrder  \* order in which the tasks other than Idle were started

ASSUME StartAssumption ==
  /\ StartOrder \in Seq(Task)
  /\ IsInjective(StartOrder)
  /\ Range(StartOrder) = Task \ {Idle}

VARIABLE held  \* the mutexes a task has locked or is locking (or re-locking)

vars == <<schedVars, mutexVars, callVars, held>>

\* t runs its own code and may start an operation.
Free(t) == At(t, "none") /\ t # Idle

Lock(t, m) ==
  /\ Free(t) /\ m \notin held[t]
  /\ EnterLock(t, m)
  /\ held' = [held EXCEPT ![t] = @ \cup {m}]

Unlock(t, m) ==
  /\ Free(t) /\ m \in held[t]
  /\ EnterUnlock(t, m)
  /\ held' = [held EXCEPT ![t] = @ \ {m}]

Wait(t, c, m) ==
  /\ Free(t) /\ m \in held[t]
  /\ CVWait(t, c, m)
  /\ UNCHANGED held

Notify(t, c) ==
  /\ Free(t)
  /\ NotifyOne(t, c) \/ NotifyAll(t, c)
  /\ UNCHANGED held

\* dummy_task, and any call of yield_self.
YieldSelf(t) ==
  /\ At(t, "none")
  /\ Yield(Now)
  /\ UNCHANGED <<mutexVars, callVars, held>>

Step(t) ==
  \/ \E m \in Mutexes : Lock(t, m) \/ Unlock(t, m)
  \/ \E c \in CVs, m \in Mutexes : Wait(t, c, m)
  \/ \E c \in CVs : Notify(t, c)
  \/ YieldSelf(t)
  \/ CallStep(t) /\ UNCHANGED held

Irq == \E c \in CVs : IrqNotify(c) /\ UNCHANGED held

Init ==
  /\ SchedInit(Idle, StartOrder)
  /\ MutexInit
  /\ held = [t \in Task |-> {}]

Next ==
  /\ ~hcf
  /\ \/ \E t \in Task : Step(t)
     \/ Tick /\ UNCHANGED held
     \/ Irq

Spec == Init /\ [][Next]_vars

(***************************************************************************)
(* The timer keeps firing, and a task inside an operation of a mutex or a  *)
(* condition variable that is given the CPU again and again executes       *)
(* instructions: between two ticks the CPU runs the task it was given.     *)
(* Nothing is assumed of what the tasks do on their own.                   *)
(***************************************************************************)
FairSpec ==
  /\ Spec
  /\ WF_vars(Tick /\ UNCHANGED held)
  /\ \A t \in Task : SF_vars(CallStep(t) /\ UNCHANGED held)

-----------------------------------------------------------------------------
TypeOK ==
  /\ SchedTypeOK
  /\ MutexTypeOK
  /\ held \in [Task -> SUBSET Mutexes]

\* No assertion of the scheduler, of List, of Mutex or of CV ever fails:
\* a node is on one list at a time, a blocked task is never in the run queue,
\* the run queue is never empty, no runnable task is unblocked, no free mutex
\* is unlocked, no mutex is locked twice by a task (task.cpp, mutex.cpp,
\* cv.hpp, List.hpp).
NoPanic == ~hcf

\* A task at the point c of an operation on a, which has locked or is locking
\* the mutexes h, is between the return of lock() and the call of unlock().
HoldsAt(c, a, h, m) == m \in h /\ ~(c \in LockCalls /\ a = m)

Holds(t, m) == HoldsAt(call[t], arg[t], held[t], m)

\* Mutual exclusion, and Mutex::owner() is exact for the task that asks:
\* although locked and _owner are written in two steps, the mutex is locked
\* and owned by t as long as t holds it (try_lock, unlock in mutex.cpp).
OwnerIsHolder ==
  \A m \in Mutexes, t \in Task : Holds(t, m) => locked[m] /\ owner[m] = t

InHand(t) == \E u \in Task : t \in Range(pend[u])

\* No task is lost and none is in two places: it runs, or it is in the run
\* queue, or it sleeps on one waiter list, or another task holds its node to
\* unblock it; it is TS_RUNNING in the first two places only (task.cpp,
\* mutex.cpp, cv.hpp).
NoTaskLost ==
  /\ \A t \in Task :
       LET places == {q \in WaitLists : t \in Range(waiters[q])}
       IN  IF t = RunningTask \/ t \in Range(NextTasks)
           THEN state[t] = "RUNNING" /\ places = {} /\ ~InHand(t)
           ELSE state[t] = "BLOCKED" /\ (InHand(t) <=> places = {})
                /\ \A q, r \in places : q = r
  /\ RunningTask \notin Range(NextTasks)

\* A task in the run queue is given the CPU, the only way out of the queue,
\* however often others are queued (switch_task is round robin).
NoStarvation ==
  \A t \in Task : []<>(t \notin Range(NextTasks))

\* A task that sleeps on a mutex is woken if the mutex is unlocked again and
\* again: later sleepers do not overtake it (waiters is a FIFO in mutex.cpp).
ExtractFrom(m) == \E u \in Task : At(u, "extract") /\ arg[u] = m /\ CallStep(u)
SleepersServed ==
  \A t \in Task, m \in Mutexes :
    []<><<ExtractFrom(m)>>_vars => []<>(t \notin Range(waiters[m]))

-----------------------------------------------------------------------------
(***************************************************************************)
(* The inductive invariant behind TypeOK, NoPanic, OwnerIsHolder and       *)
(* NoTaskLost.                                                             *)
(***************************************************************************)
SchedRec == [next : Seq(Task), wait : [WaitLists -> Seq(Task)],
             st : [Task -> TaskState], ok : BOOLEAN]

(***************************************************************************)
(* The lists and states of s are in order while the nodes of "on" have the *)
(* CPU and those of "hand" have been taken off a list: a task is TS_RUNNING*)
(* iff it has the CPU or is in the run queue, else it is TS_BLOCKED and    *)
(* its node is in exactly one other place.                                 *)
(***************************************************************************)
Placed(s, on, hand) ==
  /\ s \in SchedRec
  /\ IsInjective(s.next)
  /\ \A q \in WaitLists : IsInjective(s.wait[q])
  /\ \A t \in Task : s.st[t] = "RUNNING" <=> t \in Range(s.next) \cup on
  /\ on \cap Range(s.next) = {}
  /\ \A t \in Task :
       s.st[t] = "BLOCKED" <=> t \in hand \/ \E q \in WaitLists : t \in Range(s.wait[q])
  /\ \A t \in Task : s.st[t] \in {"RUNNING", "BLOCKED"}
  /\ \A q \in WaitLists : hand \cap Range(s.wait[q]) = {}
  /\ \A q, r \in WaitLists : q # r => Range(s.wait[q]) \cap Range(s.wait[r]) = {}
  /\ s.st[Idle] = "RUNNING"

Hand == {t \in Task : InHand(t)}

\* A node is in one task's hand; nodes are in hand only in the middle of an
\* operation that unblocks them.
HandInv ==
  /\ \A u \in Task : IsInjective(pend[u]) /\ (pend[u] = <<>> <=> call[u] # "wake")
  /\ \A u, v \in Task : u # v => Range(pend[u]) \cap Range(pend[v]) = {}

\* Such a task is between the two compare_exchange of lock() and unlock().
OwnsAt(c, a, h, m) ==
  \/ HoldsAt(c, a, h, m)
  \/ c \in {"own", "slowown", "release"} /\ a = m

Owns(t, m) == OwnsAt(call[t], arg[t], held[t], m)

MutexInv ==
  /\ \A m \in Mutexes, t, u \in Task : Owns(t, m) /\ Owns(u, m) => t = u
  /\ \A m \in Mutexes, t \in Task : Owns(t, m) => locked[m]
  /\ \A m \in Mutexes, t \in Task : owner[m] = t <=> Holds(t, m)
  /\ \A t \in Task : call[t] \in LockCalls => arg[t] \in held[t]
  /\ \A t \in Task : call[t] \in {"release", "extract"} => arg[t] \in Mutexes \ held[t]
  /\ call[Idle] = "none" /\ held[Idle] = {}

\* All of it.  TLC checks it on the small instances, module SyncProofs proves
\* that every step preserves it (task.cpp, mutex.cpp, cv.hpp).
IInv ==
  /\ TypeOK
  /\ ~hcf
  /\ Placed(Now, {RunningTask}, Hand)
  /\ HandInv
  /\ MutexInv
=============================================================================
