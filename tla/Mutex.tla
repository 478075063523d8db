-------------------------------- MODULE Mutex --------------------------------
(***************************************************************************)
(* The blocking mutex of src/src/kernel/mutex.cpp and the condition        *)
(* variable of src/src/kernel/cv.hpp, on top of the scheduler.             *)
(*                                                                         *)
(* A task inside one of their operations is at the point call[t] of the    *)
(* operation; "none" means that it runs its own code.  The points are the  *)
(* places where interrupts are enabled and another task may be switched    *)
(* to.                                                                     *)
(***************************************************************************)
EXTENDS Scheduler

CONSTANTS
  None,           \* nullptr
  SpinThreshold,  \* 127 in Mutex::lock, also the initial spin_success
  SpinMax         \* 255 in Mutex::lock

ASSUME MutexAssumption ==
  /\ None \notin Task
  /\ SpinThreshold \in Nat
  /\ SpinMax \in Nat
  /\ SpinThreshold <= SpinMax

VARIABLES
  locked,        \* Mutex::locked
  owner,         \* Mutex::_owner
  spin_success,  \* Mutex::spin_success
  call,          \* point of the operation a task is in
  arg,           \* the mutex a task's operation is on
  pend,          \* nodes an operation took off a waiter list, not yet unblocked
  fresh          \* no tick since the task read startMicros

mutexVars == <<locked, owner, spin_success>>
callVars  == <<call, arg, pend, fresh>>

LockCalls == {"lock", "own", "contend", "spincheck", "spin", "spinyield",
              "slow", "slowown", "enqueue"}
Calls     == LockCalls \cup {"none", "release", "extract", "wake"}

\* t executes the operation point p.
At(t, p) == RunningTask = t /\ call[t] = p

Goto(t, p) == call' = [call EXCEPT ![t] = p]

\* The operation is over.
Return(t) == Goto(t, "none") /\ arg' = [arg EXCEPT ![t] = None]

\* An assertion on c that leaves the scheduler alone.
Asserting(c) ==
  hcf' = ~c /\ UNCHANGED <<RunningTask, NextTasks, waiters, state, sinceWakeup>>

-----------------------------------------------------------------------------
(***************************************************************************)
(* Mutex::lock                                                             *)
(***************************************************************************)
\* The compare_exchange of try_lock; the write of _owner is a later step.
TryLock(t, m, success, failure) ==
  /\ locked' = [locked EXCEPT ![m] = TRUE]
  /\ Goto(t, IF locked[m] THEN failure ELSE success)

\* Entry of lock(): the assertion, then the first try_lock.
EnterLock(t, m) ==
  /\ Asserting(~(owner[m] = t /\ locked[m]))
  /\ arg' = [arg EXCEPT ![t] = m]
  /\ TryLock(t, m, "own", "contend")
  /\ UNCHANGED <<owner, spin_success, pend, fresh>>

\* The lock() at the end of CV::wait and waitpid_block.
Relock(t) == At(t, "lock") /\ EnterLock(t, arg[t])

\* try_lock succeeded at the first attempt or while spinning.
TakeOwnership(t) ==
  /\ At(t, "own")
  /\ owner' = [owner EXCEPT ![arg[t]] = t]
  /\ spin_success' = [spin_success EXCEPT ![arg[t]] = IF @ < SpinMax THEN @ + 1 ELSE @]
  /\ Return(t)
  /\ UNCHANGED <<schedVars, locked, pend, fresh>>

SpinFailed(t) ==
  /\ spin_success' = [spin_success EXCEPT ![arg[t]] = IF @ > 0 THEN @ - 1 ELSE @]
  /\ Goto(t, "slow")

\* Choose between spinning and sleeping.
Contend(t) ==
  /\ At(t, "contend")
  /\ IF spin_success[arg[t]] >= SpinThreshold
     THEN /\ Goto(t, "spincheck")
          /\ fresh' = [fresh EXCEPT ![t] = TRUE]
          /\ UNCHANGED spin_success
     ELSE SpinFailed(t) /\ UNCHANGED fresh
  /\ UNCHANGED <<schedVars, locked, owner, arg, pend>>

\* The condition of the spin loop: it ends at the first tick after its start.
SpinCheck(t) ==
  /\ At(t, "spincheck")
  /\ \/ fresh[t] /\ Goto(t, "spin") /\ UNCHANGED spin_success
     \/ ~fresh[t] /\ SpinFailed(t)
  /\ UNCHANGED <<schedVars, locked, owner, arg, pend, fresh>>

\* The body of the spin loop: try_lock, then yield_self.
SpinTry(t) ==
  /\ At(t, "spin")
  /\ TryLock(t, arg[t], "own", "spinyield")
  /\ fresh' = [fresh EXCEPT ![t] = @ /\ locked[arg[t]]]  \* unused after success
  /\ UNCHANGED <<schedVars, owner, spin_success, arg, pend>>

SpinYield(t) ==
  /\ At(t, "spinyield")
  /\ Yield(Now)
  /\ Goto(t, "spincheck")
  /\ UNCHANGED <<mutexVars, arg, pend, fresh>>

\* The condition of the sleeping loop.
SlowTry(t) ==
  /\ At(t, "slow")
  /\ TryLock(t, arg[t], "slowown", "enqueue")
  /\ UNCHANGED <<schedVars, owner, spin_success, arg, pend, fresh>>

SlowTakeOwnership(t) ==
  /\ At(t, "slowown")
  /\ owner' = [owner EXCEPT ![arg[t]] = t]
  /\ Return(t)
  /\ UNCHANGED <<schedVars, locked, spin_success, pend, fresh>>

\* The NO_INT body: queue the own node, self_block(waiters_lock).
SlowEnqueue(t) ==
  /\ At(t, "enqueue")
  /\ Yield(SetState(PushWaiter(Now, arg[t], t), t, "BLOCKED"))
  /\ Goto(t, "slow")
  /\ UNCHANGED <<mutexVars, arg, pend, fresh>>

-----------------------------------------------------------------------------
(***************************************************************************)
(* Mutex::unlock and unlock_nolock                                         *)
(***************************************************************************)
\* Entry of unlock(): _owner = nullptr.
EnterUnlock(t, m) ==
  /\ owner' = [owner EXCEPT ![m] = None]
  /\ arg' = [arg EXCEPT ![t] = m]
  /\ Goto(t, "release")
  /\ UNCHANGED <<schedVars, locked, spin_success, pend, fresh>>

\* The compare_exchange, with "Unlocking an unlocked mutex!".
Release(t) ==
  /\ At(t, "release")
  /\ Asserting(locked[arg[t]])
  /\ locked' = [locked EXCEPT ![arg[t]] = FALSE]
  /\ Goto(t, "extract")
  /\ UNCHANGED <<owner, spin_success, arg, pend, fresh>>

\* Mutant of ExtractOne: the newest waiter is taken.
ExtractOneNewest(t, q) ==
  LET w == waiters[q] IN
  /\ IF w = <<>>
     THEN Return(t) /\ UNCHANGED <<pend, waiters>>
     ELSE /\ Goto(t, "wake")
          /\ arg' = [arg EXCEPT ![t] = None]
          /\ pend' = [pend EXCEPT ![t] = <<w[Len(w)]>>]
          /\ waiters' = [waiters EXCEPT ![q] = SubSeq(w, 1, Len(w) - 1)]
  /\ UNCHANGED <<RunningTask, NextTasks, state, sinceWakeup, hcf, fresh>>

\* Take the oldest waiter of q off its list; the caller unblocks it later.
ExtractOne(t, q) ==
  /\ IF waiters[q] = <<>>
     THEN Return(t) /\ UNCHANGED <<pend, waiters>>
     ELSE /\ Goto(t, "wake")
          /\ arg' = [arg EXCEPT ![t] = None]
          /\ pend' = [pend EXCEPT ![t] = <<Head(waiters[q])>>]
          /\ waiters' = [waiters EXCEPT ![q] = Tail(@)]
  /\ UNCHANGED <<RunningTask, NextTasks, state, sinceWakeup, hcf, fresh>>

\* Mutant of Extract: _owner is cleared after the mutex was released.
ExtractLateOwner(t) ==
  /\ At(t, "extract")
  /\ ExtractOne(t, arg[t])
  /\ owner' = [owner EXCEPT ![arg[t]] = None]
  /\ UNCHANGED <<locked, spin_success>>

Extract(t) ==
  /\ At(t, "extract")
  /\ ExtractOne(t, arg[t])
  /\ UNCHANGED mutexVars

\* Scheduler::unblock of the next node taken off a list.
Wake(t) ==
  /\ At(t, "wake")
  /\ Stay(Unblock(Now, Head(pend[t])))
  /\ pend' = [pend EXCEPT ![t] = Tail(@)]
  /\ Goto(t, IF Len(pend[t]) = 1 THEN "none" ELSE "wake")
  /\ UNCHANGED <<mutexVars, arg, fresh>>

(***************************************************************************)
(* unlock_nolock, and unlock() called with interrupts disabled: all of it  *)
(* belongs to the caller's action.  The scheduler half is a function of    *)
(* the lists, the mutex half is an action.                                 *)
(***************************************************************************)
UnlockNolock(s, m) ==
  LET r == [s EXCEPT !.ok = @ /\ locked[m]] IN UnblockOne(r, m)

ReleaseNolock(m) ==
  /\ owner' = [owner EXCEPT ![m] = None]
  /\ locked' = [locked EXCEPT ![m] = FALSE]
  /\ UNCHANGED spin_success

-----------------------------------------------------------------------------
(***************************************************************************)
(* CV                                                                      *)
(***************************************************************************)
\* wait(l): unlock l, join the waiters, block and switch; then lock l again.
CVWait(t, c, m) ==
  /\ Yield(SetState(PushWaiter(UnlockNolock(Now, m), c, t), t, "BLOCKED"))
  /\ ReleaseNolock(m)
  /\ arg' = [arg EXCEPT ![t] = m]
  /\ Goto(t, "lock")
  /\ UNCHANGED <<pend, fresh>>

\* notify_one in a task.
NotifyOne(t, c) == ExtractOne(t, c) /\ UNCHANGED mutexVars

\* Mutant of NotifyAll: the loop stops one node early.
NotifyAllButLast(t, c) ==
  LET w == waiters[c] IN
  /\ Goto(t, IF Len(w) <= 1 THEN "none" ELSE "wake")
  /\ pend' = [pend EXCEPT ![t] = SubSeq(w, 1, Len(w) - 1)]
  /\ waiters' = [waiters EXCEPT ![c] = <<>>]
  /\ UNCHANGED <<RunningTask, NextTasks, state, sinceWakeup, hcf, arg, fresh, mutexVars>>

\* notify_all: swap the list out, then unblock its nodes one after another.
NotifyAll(t, c) ==
  /\ Goto(t, IF waiters[c] = <<>> THEN "none" ELSE "wake")
  /\ pend' = [pend EXCEPT ![t] = waiters[c]]
  /\ waiters' = [waiters EXCEPT ![c] = <<>>]
  /\ UNCHANGED <<RunningTask, NextTasks, state, sinceWakeup, hcf, arg, fresh, mutexVars>>

\* notify_one in an interrupt handler, on top of whatever task is running.
IrqNotify(c) == Stay(UnblockOne(Now, c)) /\ UNCHANGED <<mutexVars, callVars>>

-----------------------------------------------------------------------------
\* The steps of t inside an operation.
CallStep(t) ==
  \/ Relock(t) \/ TakeOwnership(t) \/ Contend(t)
  \/ SpinCheck(t) \/ SpinTry(t) \/ SpinYield(t)
  \/ SlowTry(t) \/ SlowTakeOwnership(t) \/ SlowEnqueue(t)
  \/ Release(t) \/ Extract(t) \/ Wake(t)

Tick ==
  /\ TimerIrq
  /\ fresh' = [t \in Task |-> FALSE]
  /\ UNCHANGED <<mutexVars, call, arg, pend>>

MutexInit ==
  /\ locked = [m \in Mutexes |-> FALSE]
  /\ owner = [m \in Mutexes |-> None]
  /\ spin_success = [m \in Mutexes |-> SpinThreshold]
  /\ call = [t \in Task |-> "none"]
  /\ arg = [t \in Task |-> None]
  /\ pend = [t \in Task |-> <<>>]
  /\ fresh = [t \in Task |-> FALSE]

MutexTypeOK ==
  /\ locked \in [Mutexes -> BOOLEAN]
  /\ owner \in [Mutexes -> Task \cup {None}]
  /\ spin_success \in [Mutexes -> 0..SpinMax]
  /\ call \in [Task -> Calls]
  /\ arg \in [Task -> Mutexes \cup {None}]
  /\ pend \in [Task -> Seq(Task)]
  /\ fresh \in [Task -> BOOLEAN]
=============================================================================
