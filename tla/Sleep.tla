-------------------------------- MODULE Sleep --------------------------------
(***************************************************************************)
(* Timed sleeping: Scheduler::sleep_self and the kernel task task_waker of *)
(* src/src/arch/x86/task.cpp, which share the map WaitingTasks under the   *)
(* mutex WaitingTasks_mlock.  A task that sleeps keeps its node; the map   *)
(* only points to it.                                                      *)
(*                                                                         *)
(* The clock micros only grows, and the code only compares it with the     *)
(* times at which tasks are to wake.  The model therefore keeps, for every *)
(* task inside sleep_self, left = wake_time - micros.  Times in the past   *)
(* matter only by their order, and are renumbered -1, -2, ... at every     *)
(* tick, so that an endless run has finitely many states.                  *)
(***************************************************************************)
EXTENDS Mutex, FiniteSets

CONSTANTS
  Waker,               \* the task that runs task_waker
  WaitingTasks_mlock,
  MicrosPerTick,       \* MICROS_PER_TICK, in units of the smallest difference
  Diffs,               \* arguments of sleep_self
  StartOrder           \* order in which the tasks other than Idle were started

ASSUME SleepAssumption ==
  /\ Waker \in Task \ {Idle}
  /\ WaitingTasks_mlock \in Mutexes
  /\ MicrosPerTick \in Nat \ {0}
  /\ Diffs \subseteq Nat
  /\ StartOrder \in Seq(Task) /\ IsInjective(StartOrder)
  /\ Range(StartOrder) = Task \ {Idle}

VARIABLES
  pc,            \* next statement of a task between two operations
  left,          \* wake_time - micros of a task inside sleep_self, else 0
  WaitingTasks,  \* the map: its vectors of nodes in the order of their keys
  to_wake        \* the waker's local vector

sleepVars == <<left, WaitingTasks, to_wake>>

vars == <<schedVars, mutexVars, callVars, pc, sleepVars>>

SleepPcs == {"s_check", "s_add", "s_block", "s_yield"}
WakerPcs == {"w_lock", "w_scan", "w_wake", "w_push", "w_relock", "w_unlock"}

\* t executes its statement p.
AtPc(t, p) == At(t, "none") /\ pc[t] = p

GotoPc(t, p) == pc' = [pc EXCEPT ![t] = p]

\* The wake_time of a vector of the map, relative to micros.
Key(group) == left[group[1]]

Asleep == UNION {Range(WaitingTasks[i]) : i \in DOMAIN WaitingTasks}

-----------------------------------------------------------------------------
(***************************************************************************)
(* sleep_self                                                              *)
(***************************************************************************)
\* uint64_t wake_time = micros + diff
EnterSleep(t, diff) ==
  /\ AtPc(t, "user")
  /\ left' = [left EXCEPT ![t] = diff]
  /\ GotoPc(t, "s_check")
  /\ UNCHANGED <<schedVars, mutexVars, callVars, WaitingTasks, to_wake>>

\* The condition of the loop.
SleepCheck(t) ==
  /\ AtPc(t, "s_check")
  /\ UNCHANGED <<WaitingTasks, to_wake>>
  /\ \/ /\ left[t] >= 0
        /\ EnterLock(t, WaitingTasks_mlock)
        /\ GotoPc(t, "s_add")
        /\ UNCHANGED left
     \/ /\ left[t] < 0
        /\ GotoPc(t, "user")
        /\ left' = [left EXCEPT ![t] = 0]
        /\ UNCHANGED <<schedVars, mutexVars, callVars>>

\* Mutant of Enlisted: the map takes one task for every wake_time.
EnlistedOver(t) ==
  LET before == {i \in DOMAIN WaitingTasks : Key(WaitingTasks[i]) < left[t]}
      n      == Cardinality(before)
      same   == {i \in DOMAIN WaitingTasks : Key(WaitingTasks[i]) = left[t]}
  IN  SubSeq(WaitingTasks, 1, n) \o << <<t>> >>
      \o SubSeq(WaitingTasks, n + 1 + Cardinality(same), Len(WaitingTasks))

\* The task's node goes to the end of the vector of its wake_time, or into a
\* new one.
Enlisted(t) ==
  LET before == {i \in DOMAIN WaitingTasks : Key(WaitingTasks[i]) < left[t]}
      n      == Cardinality(before)
  IN  IF \E i \in DOMAIN WaitingTasks : Key(WaitingTasks[i]) = left[t]
      THEN [WaitingTasks EXCEPT ![n + 1] = Append(@, t)]
      ELSE SubSeq(WaitingTasks, 1, n) \o << <<t>> >>
           \o SubSeq(WaitingTasks, n + 1, Len(WaitingTasks))

SleepAdd(t) ==
  /\ AtPc(t, "s_add")
  /\ WaitingTasks' = Enlisted(t)
  /\ GotoPc(t, "s_block")
  /\ UNCHANGED <<schedVars, mutexVars, callVars, left, to_wake>>

\* Mutant of SleepBlock: the map is unlocked before the task is blocked.
SleepBlockLate(t) ==
  \/ /\ AtPc(t, "s_block")
     /\ Stay(UnlockNolock(Now, WaitingTasks_mlock))
     /\ ReleaseNolock(WaitingTasks_mlock)
     /\ GotoPc(t, "s_yield")
     /\ UNCHANGED <<callVars, sleepVars>>
  \/ /\ AtPc(t, "s_yield") /\ state[t] # "BLOCKED"
     /\ Stay(SetState(Now, t, "BLOCKED"))
     /\ UNCHANGED <<pc, mutexVars, callVars, sleepVars>>

\* self_block(WaitingTasks_mlock): its critical section, then yield_self.
SleepBlock(t) ==
  /\ AtPc(t, "s_block")
  /\ Stay(SetState(UnlockNolock(Now, WaitingTasks_mlock), t, "BLOCKED"))
  /\ ReleaseNolock(WaitingTasks_mlock)
  /\ GotoPc(t, "s_yield")
  /\ UNCHANGED <<callVars, sleepVars>>

SleepYield(t) ==
  /\ AtPc(t, "s_yield")
  /\ Yield(Now)
  /\ GotoPc(t, "s_check")
  /\ UNCHANGED <<mutexVars, callVars, sleepVars>>

SleepStep(t) ==
  SleepCheck(t) \/ SleepAdd(t) \/ SleepBlock(t) \/ SleepYield(t)

-----------------------------------------------------------------------------
(***************************************************************************)
(* task_waker                                                              *)
(***************************************************************************)
WakerLock(p) ==
  /\ AtPc(Waker, p)
  /\ EnterLock(Waker, WaitingTasks_mlock)
  /\ GotoPc(Waker, "w_scan")
  /\ UNCHANGED sleepVars

\* The first vector of the map is due and none of its tasks still runs.
Due ==
  /\ WaitingTasks # <<>>
  /\ Key(WaitingTasks[1]) <= 0
  /\ \A t \in Range(WaitingTasks[1]) : state[t] # "RUNNING"

\* Take the due vector out of the map and unlock it, or wait.
WakerScan ==
  /\ AtPc(Waker, "w_scan")
  /\ UNCHANGED left
  /\ \/ /\ Due
        /\ to_wake' = Head(WaitingTasks)
        /\ WaitingTasks' = Tail(WaitingTasks)
        /\ EnterUnlock(Waker, WaitingTasks_mlock)
        /\ GotoPc(Waker, "w_wake")
     \/ /\ ~Due
        /\ CVWait(Waker, WaitingTasks_cv, WaitingTasks_mlock)
        /\ GotoPc(Waker, "w_unlock")
        /\ UNCHANGED <<WaitingTasks, to_wake>>

\* _state = TS_RUNNING, with interrupts enabled ...
WakerMark ==
  /\ AtPc(Waker, "w_wake")
  /\ Stay(SetState(Now, to_wake[1], "RUNNING"))
  /\ GotoPc(Waker, "w_push")
  /\ UNCHANGED <<mutexVars, callVars, sleepVars>>

\* Mutant of WakerPush: only the first task of the vector.
WakerPushFirst ==
  /\ AtPc(Waker, "w_push")
  /\ Stay(PushNext(Now, to_wake[1]))
  /\ to_wake' = <<>>
  /\ GotoPc(Waker, "w_relock")
  /\ UNCHANGED <<mutexVars, callVars, left, WaitingTasks>>

\* ... and then the node into the run queue.
WakerPush ==
  /\ AtPc(Waker, "w_push")
  /\ Stay(PushNext(Now, to_wake[1]))
  /\ to_wake' = Tail(to_wake)
  /\ GotoPc(Waker, IF Len(to_wake) = 1 THEN "w_relock" ELSE "w_wake")
  /\ UNCHANGED <<mutexVars, callVars, left, WaitingTasks>>

WakerUnlock ==
  /\ AtPc(Waker, "w_unlock")
  /\ EnterUnlock(Waker, WaitingTasks_mlock)
  /\ GotoPc(Waker, "w_lock")
  /\ UNCHANGED sleepVars

WakerStep ==
  \/ WakerLock("w_lock") \/ WakerLock("w_relock")
  \/ WakerScan \/ WakerMark \/ WakerPush \/ WakerUnlock

-----------------------------------------------------------------------------
\* timer_tick moves every wake_time MicrosPerTick closer.
Aged ==
  LET inside  == {t \in Task : pc[t] \in SleepPcs}
      aged(t) == left[t] - MicrosPerTick
      past    == {aged(t) : t \in inside} \ Nat
  IN  [t \in Task |-> IF t \notin inside THEN left[t]
                      ELSE IF aged(t) >= 0 THEN aged(t)
                      ELSE -Cardinality({p \in past : p >= aged(t)})]

Preempt ==
  /\ Tick
  /\ left' = Aged
  /\ UNCHANGED <<pc, WaitingTasks, to_wake>>

\* dummy_task
IdleYield ==
  /\ RunningTask = Idle
  /\ Yield(Now)
  /\ UNCHANGED <<mutexVars, callVars, pc, sleepVars>>

\* The steps of t that the kernel prescribes.
Kernel(t) ==
  /\ RunningTask = t
  /\ \/ CallStep(t) /\ UNCHANGED <<pc, sleepVars>>
     \/ SleepStep(t)
     \/ t = Waker /\ WakerStep

StartPc(t) == IF t = Waker THEN "w_lock" ELSE IF t = Idle THEN "idle" ELSE "user"

Init ==
  /\ SchedInit(Idle, StartOrder)
  /\ MutexInit
  /\ pc = [t \in Task |-> StartPc(t)]
  /\ left = [t \in Task |-> 0]
  /\ WaitingTasks = <<>>
  /\ to_wake = <<>>

Next ==
  /\ ~hcf
  /\ \/ \E t \in Task : Kernel(t)
     \/ \E t \in Task, diff \in Diffs : EnterSleep(t, diff)
     \/ IdleYield
     \/ Preempt

Spec == Init /\ [][Next]_vars

(***************************************************************************)
(* The timer keeps firing, and a task in the kernel that is given the CPU  *)
(* again and again executes instructions.                                  *)
(***************************************************************************)
FairSpec ==
  /\ Spec
  /\ WF_vars(Preempt)
  /\ \A t \in Task \ {Idle} : SF_vars(Kernel(t))

-----------------------------------------------------------------------------
TypeOK ==
  /\ SchedTypeOK /\ MutexTypeOK
  /\ pc \in [Task -> SleepPcs \cup WakerPcs \cup {"idle", "user"}]
  /\ left \in [Task -> Int]
  /\ WaitingTasks \in Seq(Seq(Task))
  /\ to_wake \in Seq(Task)

InHand(t) == t \in Range(to_wake) \/ \E u \in Task : t \in Range(pend[u])

\* No node is lost and none is in two places: a task that may run runs or is
\* in the run queue; else it waits on one list, or sleeps in one vector of
\* WaitingTasks, or is about to be woken.  Only the task that holds the map's
\* mutex is in the map and in another place (sleep_self, task_waker,
\* self_block).
NoTaskLost ==
  TypeOK /\ \A t \in Task :
    LET One(c)  == IF c THEN 1 ELSE 0
        running == state[t] = "RUNNING" /\ (t = RunningTask \/ t \in Range(NextTasks))
        lists   == {q \in WaitLists : t \in Range(waiters[q])}
        asleep  == t \in Asleep /\ pc[t] # "s_block"
    IN  One(running) + Cardinality(lists) + One(asleep) + One(InHand(t)) = 1

\* The waker, when it looks, finds no task in the map that still runs: a task
\* unlocks the map and blocks in one step (self_block), so that the test for
\* TS_RUNNING in task_waker never makes a sleeper miss its turn.
SleepersBlocked ==
  AtPc(Waker, "w_scan") => \A t \in Asleep : state[t] = "BLOCKED"

\* Every call of lock() returns.  Mutex does not promise it: it may lose a
\* wakeup, and a task that was woken may find the mutex taken again.
LocksReturn == \A t \in Task \ {Idle} : []<>(call[t] \notin LockCalls)

\* A task that sleeps returns from sleep_self, if the calls of lock() on the
\* way return: the waker is notified again and again, takes every due vector
\* out of the map and queues all of its tasks (sleep_self, task_waker,
\* switch_task).
SleepEnds == LocksReturn => \A t \in Task \ {Idle, Waker} : []<>(pc[t] \notin SleepPcs)
=============================================================================
