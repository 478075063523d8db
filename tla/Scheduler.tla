------------------------------ MODULE Scheduler ------------------------------
(***************************************************************************)
(* The scheduler of src/src/arch/x86/task.cpp: the running task, the run   *)
(* queue, the states of the tasks, and the intrusive list nodes that move  *)
(* between the run queue and the waiter lists of mutexes and condition     *)
(* variables (src/src/kernel/templates/List.hpp).                          *)
(*                                                                         *)
(* The machine has one CPU.  A region that runs with interrupts disabled   *)
(* (NO_INT, SpinlockLockNoInt, an interrupt handler) is one action.  A     *)
(* timer interrupt may come between any two actions.  Every task owns one  *)
(* List<Task*>::Node, so a list of nodes is a sequence of tasks: head of   *)
(* the sequence = back() of the list, Append = emplace_front.              *)
(***************************************************************************)
EXTENDS Integers, Sequences, Functions

CONSTANTS
  Task,             \* tasks that may exist
  Idle,             \* the "dummy" task of kmain.cpp, which only yields
  Mutexes,          \* mutexes, each with a list of waiters
  CVs,              \* condition variables, each with a list of waiters
  WaitingTasks_cv,  \* the condition variable switch_task notifies
  WakeupTicks       \* timer ticks in the 10000 us of switch_task

ASSUME SchedulerAssumption ==
  /\ Idle \in Task
  /\ Mutexes \cap CVs = {}
  /\ WaitingTasks_cv \in CVs
  /\ WakeupTicks \in Nat

VARIABLES
  RunningTask,  \* the task whose node RunningTask points to
  NextTasks,    \* the run queue
  waiters,      \* waiters of every mutex and condition variable
  state,        \* Task::_state
  sinceWakeup,  \* ticks since lastWaitingWakeupMicros was set
  hcf           \* an assertion failed and the machine is halted (_hcf)

schedVars == <<RunningTask, NextTasks, waiters, state, sinceWakeup, hcf>>

WaitLists == Mutexes \cup CVs

TaskState == {"RUNNING", "BLOCKED", "ZOMBIE", "WAITPID_BLOCKED"}

-----------------------------------------------------------------------------
(***************************************************************************)
(* One interrupts-disabled region may change the lists and the states      *)
(* several times.  Each change is an operator on the record below; ok      *)
(* becomes FALSE when an assertion of the code fails on the way.           *)
(***************************************************************************)
Now == [next |-> NextTasks, wait |-> waiters, st |-> state, ok |-> TRUE]

\* node->list # nullptr
OnList(s, n) ==
  \/ n \in Range(s.next)
  \/ \E q \in WaitLists : n \in Range(s.wait[q])

\* Mutant of PushNext: the node goes to the wrong end of the run queue.
PushNextBack(s, n) ==
  [s EXCEPT !.next = <<n>> \o @, !.ok = @ /\ ~OnList(s, n)]

\* NextTasks.emplace_front(n), with the assertion on n->list.
PushNext(s, n) ==
  [s EXCEPT !.next = Append(@, n), !.ok = @ /\ ~OnList(s, n)]

\* waiters.emplace_front(n) on the list of q, with the same assertion.
PushWaiter(s, q, n) ==
  [s EXCEPT !.wait[q] = Append(@, n), !.ok = @ /\ ~OnList(s, n)]

\* Scheduler::unblock and unblock_nolock of a node that is on no list.
Unblock(s, n) ==
  [next |-> Append(s.next, n),
   wait |-> s.wait,
   st   |-> [s.st EXCEPT ![n] = "RUNNING"],
   ok   |-> s.ok /\ ~OnList(s, n) /\ s.st[n] # "RUNNING"]

\* extract_back from the waiters of q, if any, and unblock what came out.
UnblockOne(s, q) ==
  IF s.wait[q] = <<>> THEN s
  ELSE Unblock([s EXCEPT !.wait[q] = Tail(@)], Head(s.wait[q]))

\* _state = v
SetState(s, t, v) == [s EXCEPT !.st[t] = v]

\* The machine continues from s, or halts on the failed assertion.
Commit(s) ==
  /\ hcf' = ~s.ok
  /\ NextTasks' = s.next
  /\ waiters' = s.wait
  /\ state' = s.st

\* Mutant of SwitchTask: lastWaitingWakeupMicros is never updated.
SwitchTaskNoReset(s, ticks) ==
  LET s1 == IF ticks > WakeupTicks THEN UnblockOne(s, WaitingTasks_cv) ELSE s
      s2 == IF s1.st[RunningTask] = "RUNNING" THEN PushNext(s1, RunningTask) ELSE s1
      ok == s2.ok /\ s2.next # <<>>
  IN  /\ sinceWakeup' = ticks
      /\ RunningTask' = IF ok THEN Head(s2.next) ELSE RunningTask
      /\ Commit([s2 EXCEPT !.next = IF ok THEN Tail(@) ELSE @, !.ok = ok])

(***************************************************************************)
(* switch_task, entered with lists and states s and with the given number  *)
(* of ticks since the waker was last notified.  The notification comes     *)
(* first, then the running task is queued if it still may run, then the    *)
(* oldest entry of the run queue takes the CPU.  (s1 and s2 are bound by   *)
(* quantifiers so that TLC computes them once.)                            *)
(***************************************************************************)
SwitchTask(s, ticks) ==
  LET due == ticks > WakeupTicks
  IN  \E s1 \in {IF due THEN UnblockOne(s, WaitingTasks_cv) ELSE s} :
      \E s2 \in {IF s1.st[RunningTask] = "RUNNING" THEN PushNext(s1, RunningTask)
                                                   ELSE s1} :
        /\ sinceWakeup' = IF due THEN 0 ELSE ticks
        /\ IF s2.ok /\ s2.next # <<>> /\ s2.st[Head(s2.next)] = "RUNNING"
           THEN /\ RunningTask' = Head(s2.next)
                /\ Commit([s2 EXCEPT !.next = Tail(@)])
           ELSE /\ RunningTask' = RunningTask
                /\ Commit([s2 EXCEPT !.ok = FALSE])

\* yield_self, and the voluntary end of a region that left the tasks as in s.
Yield(s) == SwitchTask(s, sinceWakeup)

\* The timer interrupt: timer_tick, then switch_task.
TimerIrq == SwitchTask(Now, sinceWakeup + 1)

\* A change that does not give up the CPU.
Stay(s) == Commit(s) /\ UNCHANGED <<RunningTask, sinceWakeup>>

\* All tasks of the set ts have been started; r runs first, the rest is queued.
SchedInit(r, queue) ==
  /\ RunningTask = r
  /\ NextTasks = queue
  /\ waiters = [q \in WaitLists |-> <<>>]
  /\ state = [t \in Task |-> IF t = r \/ t \in Range(queue) THEN "RUNNING"
                                                            ELSE "BLOCKED"]
  /\ sinceWakeup = 0
  /\ hcf = FALSE

SchedTypeOK ==
  /\ RunningTask \in Task
  /\ NextTasks \in Seq(Task)
  /\ waiters \in [WaitLists -> Seq(Task)]
  /\ state \in [Task -> TaskState]
  /\ sinceWakeup \in 0..WakeupTicks
  /\ hcf \in BOOLEAN
=============================================================================
