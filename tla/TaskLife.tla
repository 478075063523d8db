------------------------------ MODULE TaskLife ------------------------------
(***************************************************************************)
(* The life of tasks (src/src/arch/x86/task.cpp): fork, exit, waitpid, the *)
(* zombie a child leaves for its parent, and the kernel task "freer" that  *)
(* destroys tasks nobody runs any more.  They interact through             *)
(* AllTasks_lock, TasksToFree_lock and TasksToFree_cv, whose every         *)
(* preemption point is that of module Mutex.                               *)
(*                                                                         *)
(* Tasks are named by their pids.  A pid is used once (max_pid only grows).*)
(***************************************************************************)
EXTENDS Mutex

CONSTANTS
  Freer,        \* pid of the kernel task running task_freer
  Roots,        \* the order in which the tasks without a parent were started
  AllTasks_lock, TasksToFree_lock, TasksToFree_cv,
  Any,          \* the pid -1 of waitpid
  ForeignWait,  \* may a task wait for a pid that is not its child?
  MayFault      \* user tasks that may raise a CPU exception

ASSUME TaskLifeAssumption ==
  /\ Task \subseteq Nat /\ Any \notin Task
  /\ Freer # Idle /\ Range(Roots) \cap {Freer, Idle} = {}
  /\ {Freer, Idle} \cup Range(Roots) = 0..(Len(Roots) + 1)
  /\ 0..(Len(Roots) + 1) \subseteq Task
  /\ {AllTasks_lock, TasksToFree_lock} \subseteq Mutexes /\ TasksToFree_cv \in CVs
  /\ ForeignWait \in BOOLEAN /\ MayFault \subseteq Task

VARIABLES
  pc,           \* what a task does when it is not inside a mutex or CV operation
  AllTasks,     \* pids in the map AllTasks
  TasksToFree,  \* tasks handed to the freer
  freed,        \* tasks whose Task object has been destroyed
  max_pid,      \* next pid
  parent,       \* Task::_parent, None for -1
  woken_pid,    \* Task::_woken_pid
  waitpid_node, \* Task::_waitpid_node # nullptr
  want,         \* argument of the waitpid in progress
  target        \* the task a waitpid, a fork or the freer is working on

taskVars == <<AllTasks, TasksToFree, freed, max_pid, parent, woken_pid,
              waitpid_node, want, target>>
vars == <<schedVars, mutexVars, callVars, pc, taskVars>>

User == Task \ {Idle, Freer}

\* t is at the point p of its own code and runs.
AtPc(t, p) == At(t, "none") /\ pc[t] = p

Then(t, p) == pc' = [pc EXCEPT ![t] = p]

\* The system call returns to user code; its local variables are gone.
Done(t) ==
  /\ Then(t, "user")
  /\ want' = [want EXCEPT ![t] = Any]
  /\ target' = [target EXCEPT ![t] = None]

-----------------------------------------------------------------------------
(***************************************************************************)
(* fork: Task::Task, Task::clone, Task::start                              *)
(***************************************************************************)
Fork(t) ==
  /\ AtPc(t, "user") /\ max_pid \in Task
  /\ EnterLock(t, AllTasks_lock)
  /\ max_pid' = max_pid + 1
  /\ target' = [target EXCEPT ![t] = max_pid]
  /\ Then(t, "fork_insert")
  /\ UNCHANGED <<AllTasks, TasksToFree, freed, parent, woken_pid, waitpid_node, want>>

ForkInsert(t) ==
  /\ AtPc(t, "fork_insert")
  /\ AllTasks' = AllTasks \cup {target[t]}
  /\ EnterUnlock(t, AllTasks_lock)
  /\ Then(t, "fork_parent")
  /\ UNCHANGED <<TasksToFree, freed, max_pid, parent, woken_pid, waitpid_node, want, target>>

\* _parent = pid, then the first half of start().
ForkParent(t) ==
  /\ AtPc(t, "fork_parent")
  /\ parent' = [parent EXCEPT ![target[t]] = t]
  /\ Stay([SetState(Now, target[t], "RUNNING") EXCEPT !.ok = state[target[t]] # "RUNNING"])
  /\ Then(t, "fork_start")
  /\ UNCHANGED <<mutexVars, callVars, AllTasks, TasksToFree, freed, max_pid,
                 woken_pid, waitpid_node, want, target>>

ForkStart(t) ==
  /\ AtPc(t, "fork_start")
  /\ Stay(PushNext(Now, target[t]))
  /\ Done(t)
  /\ UNCHANGED <<mutexVars, callVars, AllTasks, TasksToFree, freed, max_pid,
                 parent, woken_pid, waitpid_node>>

-----------------------------------------------------------------------------
(***************************************************************************)
(* exit: remove_self, zombify_self, dispose_self                           *)
(***************************************************************************)
Exit(t) ==
  /\ AtPc(t, "user")
  /\ IF parent[t] = None
     THEN EnterLock(t, TasksToFree_lock) /\ Then(t, "dispose_push")
     ELSE EnterLock(t, AllTasks_lock) /\ Then(t, "remove_find")
  /\ UNCHANGED taskVars

\* The parent, if there is one, is woken if it waits for this task.
RemoveFound(t) ==
  LET p == parent[t] IN
  /\ AtPc(t, "remove_find") /\ p \in AllTasks
  /\ IF state[p] = "WAITPID_BLOCKED" /\ woken_pid[p] \in {t, Any}
     THEN /\ woken_pid' = [woken_pid EXCEPT ![p] = t]
          /\ waitpid_node' = [waitpid_node EXCEPT ![p] = FALSE]
          /\ Stay([PushNext(SetState(Now, p, "RUNNING"), p)
                     EXCEPT !.ok = @ /\ waitpid_node[p]])
     ELSE UNCHANGED <<schedVars, woken_pid, waitpid_node>>
  /\ Then(t, "zombify")
  /\ UNCHANGED <<mutexVars, callVars, AllTasks, TasksToFree, freed, max_pid,
                 parent, want, target>>

RemoveOrphan(t) ==
  /\ AtPc(t, "remove_find") /\ parent[t] \notin AllTasks
  /\ EnterUnlock(t, AllTasks_lock)
  /\ Then(t, "dispose")
  /\ UNCHANGED taskVars

ZombifySelf(t) ==
  /\ AtPc(t, "zombify")
  /\ Yield(UnlockNolock(SetState(Now, t, "ZOMBIE"), AllTasks_lock))
  /\ ReleaseNolock(AllTasks_lock)
  /\ waitpid_node' = [waitpid_node EXCEPT ![t] = TRUE]
  /\ Then(t, "dead")
  /\ UNCHANGED <<callVars, AllTasks, TasksToFree, freed, max_pid, parent,
                 woken_pid, want, target>>

DisposeSelf(t) ==
  /\ AtPc(t, "dispose")
  /\ EnterLock(t, TasksToFree_lock)
  /\ Then(t, "dispose_push")
  /\ UNCHANGED taskVars

\* TasksToFree.emplace_front(RunningTask), then notify_one.
DisposePush(t) ==
  /\ AtPc(t, "dispose_push")
  /\ TasksToFree' = Append(TasksToFree, t)
  /\ NotifyOne(t, TasksToFree_cv)
  /\ Then(t, "dispose_unlock")
  /\ UNCHANGED <<AllTasks, freed, max_pid, parent, woken_pid, waitpid_node, want, target>>

DisposeUnlock(t) ==
  /\ AtPc(t, "dispose_unlock")
  /\ EnterUnlock(t, TasksToFree_lock)
  /\ Then(t, "dispose_block")
  /\ UNCHANGED taskVars

\* self_block()
DisposeBlock(t) ==
  /\ AtPc(t, "dispose_block")
  /\ Yield(SetState(Now, t, "BLOCKED"))
  /\ Then(t, "dead")
  /\ UNCHANGED <<mutexVars, callVars, taskVars>>

\* exception_handler: the task is blocked for good, nobody is told.
Fault(t) ==
  /\ AtPc(t, "user") /\ t \in MayFault
  /\ Yield(SetState(Now, t, "BLOCKED"))
  /\ Then(t, "faulted")
  /\ UNCHANGED <<mutexVars, callVars, taskVars>>

-----------------------------------------------------------------------------
(***************************************************************************)
(* waitpid, waitpid_block, dispose_zombie                                  *)
(***************************************************************************)
Waitpid(t, p) ==
  /\ AtPc(t, "user")
  /\ EnterLock(t, AllTasks_lock)
  /\ want' = [want EXCEPT ![t] = p]
  /\ Then(t, "wait_find")
  /\ UNCHANGED <<AllTasks, TasksToFree, freed, max_pid, parent, woken_pid,
                 waitpid_node, target>>

\* pid # -1 and the task is in AllTasks.
WaitFound(t) ==
  LET p == want[t] IN
  /\ AtPc(t, "wait_find") /\ p # Any /\ p \in AllTasks
  /\ \/ /\ parent[p] # t                \* return -1: task not our child
        /\ Done(t)
        /\ UNCHANGED woken_pid
     \/ /\ parent[p] = t /\ state[p] # "ZOMBIE"
        /\ woken_pid' = [woken_pid EXCEPT ![t] = p]
        /\ Then(t, "wait_block")
        /\ UNCHANGED <<want, target>>
     \/ /\ parent[p] = t /\ state[p] = "ZOMBIE"
        /\ target' = [target EXCEPT ![t] = p]
        /\ Then(t, "reap")
        /\ UNCHANGED <<woken_pid, want>>
  /\ UNCHANGED <<schedVars, mutexVars, callVars, AllTasks, TasksToFree, freed,
                 max_pid, parent, waitpid_node>>

\* pid # -1 and the task is not in AllTasks: return -1.
WaitNotFound(t) ==
  /\ AtPc(t, "wait_find") /\ want[t] # Any /\ want[t] \notin AllTasks
  /\ EnterUnlock(t, AllTasks_lock)
  /\ Done(t)
  /\ UNCHANGED <<AllTasks, TasksToFree, freed, max_pid, parent, woken_pid, waitpid_node>>

\* Mutant of Zombies: a blocked child passes for a dead one.
ZombiesOrBlocked(t) == {z \in AllTasks : parent[z] = t /\ state[z] \in {"ZOMBIE", "BLOCKED"}}

Zombies(t) == {z \in AllTasks : parent[z] = t /\ state[z] = "ZOMBIE"}

\* pid = -1: take the first zombie child in pid order, or block.
WaitAny(t) ==
  /\ AtPc(t, "wait_find") /\ want[t] = Any
  /\ IF Zombies(t) = {}
     THEN /\ woken_pid' = [woken_pid EXCEPT ![t] = Any]
          /\ Then(t, "wait_block")
          /\ UNCHANGED <<schedVars, mutexVars, callVars, target>>
     ELSE /\ target' = [target EXCEPT ![t] =
                          CHOOSE z \in Zombies(t) : \A y \in Zombies(t) : z <= y]
          /\ EnterUnlock(t, AllTasks_lock)
          /\ Then(t, "reap")
          /\ UNCHANGED woken_pid
  /\ UNCHANGED <<AllTasks, TasksToFree, freed, max_pid, parent, waitpid_node, want>>

\* waitpid_block: release AllTasks_lock and sleep; lock it again once woken.
WaitBlock(t) ==
  /\ AtPc(t, "wait_block")
  /\ Yield(UnlockNolock(SetState(Now, t, "WAITPID_BLOCKED"), AllTasks_lock))
  /\ ReleaseNolock(AllTasks_lock)
  /\ waitpid_node' = [waitpid_node EXCEPT ![t] = TRUE]
  /\ Goto(t, "lock") /\ arg' = [arg EXCEPT ![t] = AllTasks_lock]
  /\ Then(t, "wait_woken")
  /\ UNCHANGED <<pend, fresh, AllTasks, TasksToFree, freed, max_pid, parent,
                 woken_pid, want, target>>

\* Woken by a child; for pid # -1 the assertion on _woken_pid.
WaitWoken(t) ==
  /\ AtPc(t, "wait_woken")
  /\ target' = [target EXCEPT ![t] = woken_pid[t]]
  /\ IF want[t] = Any
     THEN EnterUnlock(t, AllTasks_lock)
     ELSE Asserting(woken_pid[t] = want[t]) /\ UNCHANGED <<mutexVars, callVars>>
  /\ Then(t, "reap")
  /\ UNCHANGED <<AllTasks, TasksToFree, freed, max_pid, parent, woken_pid,
                 waitpid_node, want>>

\* dispose_zombie
Reap(t) ==
  /\ AtPc(t, "reap")
  /\ EnterLock(t, TasksToFree_lock)
  /\ Then(t, "reap_push")
  /\ UNCHANGED taskVars

ReapPush(t) ==
  /\ AtPc(t, "reap_push")
  /\ Stay([SetState(Now, target[t], "BLOCKED") EXCEPT !.ok = waitpid_node[target[t]]])
  /\ waitpid_node' = [waitpid_node EXCEPT ![target[t]] = FALSE]
  /\ TasksToFree' = Append(TasksToFree, target[t])
  /\ Then(t, "reap_notify")
  /\ UNCHANGED <<mutexVars, callVars, AllTasks, freed, max_pid, parent,
                 woken_pid, want, target>>

ReapNotify(t) ==
  /\ AtPc(t, "reap_notify")
  /\ NotifyOne(t, TasksToFree_cv)
  /\ Then(t, "reap_unlock")
  /\ UNCHANGED taskVars

\* End of dispose_zombie; waitpid(-1) has released AllTasks_lock before it.
ReapUnlock(t) ==
  /\ AtPc(t, "reap_unlock")
  /\ EnterUnlock(t, TasksToFree_lock)
  /\ IF want[t] = Any THEN Done(t)
                      ELSE Then(t, "wait_unlock") /\ UNCHANGED <<want, target>>
  /\ UNCHANGED <<AllTasks, TasksToFree, freed, max_pid, parent, woken_pid, waitpid_node>>

WaitUnlock(t) ==
  /\ AtPc(t, "wait_unlock")
  /\ EnterUnlock(t, AllTasks_lock)
  /\ Done(t)
  /\ UNCHANGED <<AllTasks, TasksToFree, freed, max_pid, parent, woken_pid, waitpid_node>>

-----------------------------------------------------------------------------
(***************************************************************************)
(* task_freer                                                              *)
(***************************************************************************)
\* lock() of the mutex m at the point p, going on at q.
FreerLock(p, m, q) ==
  /\ AtPc(Freer, p) /\ EnterLock(Freer, m) /\ Then(Freer, q) /\ UNCHANGED taskVars

FreerUnlock(p, m, q) ==
  /\ AtPc(Freer, p) /\ EnterUnlock(Freer, m) /\ Then(Freer, q) /\ UNCHANGED taskVars

\* Look at the list, then at its oldest entry, in two critical sections.
FreerCheck ==
  \/ FreerLock("free_check", TasksToFree_lock, "free_empty")
  \/ FreerUnlock("free_empty", TasksToFree_lock,
                 IF TasksToFree = <<>> THEN "free_wait_lock" ELSE "free_again")
  \/ FreerLock("free_again", TasksToFree_lock, "free_back")

\* Mutant of FreerPop: a task that still runs is popped as well.
FreerPopRunning ==
  /\ AtPc(Freer, "free_back")
  /\ target' = [target EXCEPT ![Freer] = Head(TasksToFree)]
  /\ TasksToFree' = Tail(TasksToFree)
  /\ Then(Freer, "free_erase_lock")
  /\ EnterUnlock(Freer, TasksToFree_lock)
  /\ UNCHANGED <<AllTasks, freed, max_pid, parent, woken_pid, waitpid_node, want>>

\* A task that still runs is left in the list; another one is popped.
FreerPop ==
  /\ AtPc(Freer, "free_back")
  /\ IF state[Head(TasksToFree)] = "RUNNING"
     THEN Then(Freer, "free_wait_lock") /\ UNCHANGED <<TasksToFree, target>>
     ELSE /\ target' = [target EXCEPT ![Freer] = Head(TasksToFree)]
          /\ TasksToFree' = Tail(TasksToFree)
          /\ Then(Freer, "free_erase_lock")
  /\ EnterUnlock(Freer, TasksToFree_lock)
  /\ UNCHANGED <<AllTasks, freed, max_pid, parent, woken_pid, waitpid_node, want>>

\* AllTasks.erase(pid) runs ~Task, which asserts that the task does not run.
FreerErase ==
  /\ AtPc(Freer, "free_erase")
  /\ Asserting(state[target[Freer]] # "RUNNING")
  /\ AllTasks' = AllTasks \ {target[Freer]}
  /\ freed' = freed \cup {target[Freer]}
  /\ target' = [target EXCEPT ![Freer] = None]
  /\ Then(Freer, "free_erase_unlock")
  /\ UNCHANGED <<mutexVars, callVars, TasksToFree, max_pid, parent, woken_pid,
                 waitpid_node, want>>

\* Wait until somebody adds to the list.
FreerWait ==
  /\ AtPc(Freer, "free_wait")
  /\ CVWait(Freer, TasksToFree_cv, TasksToFree_lock)
  /\ Then(Freer, "free_wait_unlock")
  /\ UNCHANGED taskVars

FreerStep ==
  \/ FreerCheck
  \/ FreerPop
  \/ FreerLock("free_erase_lock", AllTasks_lock, "free_erase")
  \/ FreerErase
  \/ FreerUnlock("free_erase_unlock", AllTasks_lock, "free_check")
  \/ FreerLock("free_wait_lock", TasksToFree_lock, "free_wait")
  \/ FreerWait
  \/ FreerUnlock("free_wait_unlock", TasksToFree_lock, "free_check")

-----------------------------------------------------------------------------
\* What a user program asks for next.
Request(t) ==
  \/ Fork(t)
  \/ Exit(t)
  \/ Fault(t)
  \/ \E p \in {q \in Task \cup {Any} : q = Any \/ parent[q] = t \/ ForeignWait} :
       Waitpid(t, p)

\* The kernel's steps on behalf of t.
Kernel(t) ==
  \/ ForkInsert(t) \/ ForkParent(t) \/ ForkStart(t)
  \/ RemoveFound(t) \/ RemoveOrphan(t) \/ ZombifySelf(t)
  \/ DisposeSelf(t) \/ DisposePush(t) \/ DisposeUnlock(t) \/ DisposeBlock(t)
  \/ WaitFound(t) \/ WaitNotFound(t) \/ WaitAny(t) \/ WaitBlock(t) \/ WaitWoken(t)
  \/ Reap(t) \/ ReapPush(t) \/ ReapNotify(t) \/ ReapUnlock(t) \/ WaitUnlock(t)
  \/ t = Freer /\ FreerStep
  \/ CallStep(t) /\ UNCHANGED <<pc, taskVars>>

\* dummy_task
IdleYield ==
  /\ AtPc(Idle, "idle")
  /\ Yield(Now)
  /\ UNCHANGED <<mutexVars, callVars, pc, taskVars>>

Preempt == Tick /\ UNCHANGED <<pc, taskVars>>

Init ==
  /\ SchedInit(Freer, Append(Roots, Idle))
  /\ MutexInit
  /\ pc = [t \in Task |-> IF t = Freer THEN "free_check"
                          ELSE IF t = Idle THEN "idle" ELSE "user"]
  /\ AllTasks = {Freer, Idle} \cup Range(Roots)
  /\ TasksToFree = <<>>
  /\ freed = {}
  /\ max_pid = Len(Roots) + 2
  /\ parent = [t \in Task |-> None]
  /\ woken_pid = [t \in Task |-> Any]
  /\ waitpid_node = [t \in Task |-> FALSE]
  /\ want = [t \in Task |-> Any]
  /\ target = [t \in Task |-> None]

Next ==
  /\ ~hcf
  /\ \/ \E t \in User : Request(t)
     \/ \E t \in Task : Kernel(t)
     \/ IdleYield
     \/ Preempt

Spec == Init /\ [][Next]_vars

-----------------------------------------------------------------------------
Points == {"user", "fork_insert", "fork_parent", "fork_start", "remove_find", "zombify",
           "dispose", "dispose_push", "dispose_unlock", "dispose_block", "dead", "faulted",
           "wait_find", "wait_block", "wait_woken", "wait_unlock",
           "reap", "reap_push", "reap_notify", "reap_unlock",
           "free_check", "free_empty", "free_again", "free_back", "free_erase_lock",
           "free_erase", "free_erase_unlock", "free_wait_lock", "free_wait",
           "free_wait_unlock", "idle"}

TypeOK ==
  /\ SchedTypeOK /\ MutexTypeOK
  /\ pc \in [Task -> Points]
  /\ AllTasks \subseteq Task /\ freed \subseteq Task
  /\ TasksToFree \in Seq(Task)
  /\ max_pid \in Nat
  /\ parent \in [Task -> Task \cup {None}]
  /\ woken_pid \in [Task -> Task \cup {Any}]
  /\ waitpid_node \in [Task -> BOOLEAN]
  /\ want \in [Task -> Task \cup {Any}]
  /\ target \in [Task -> Task \cup {Any, None}]

\* No assertion fails and no null node is used: in particular a task is never
\* destroyed while it may run (~Task), waitpid(pid) is woken by pid only, the
\* parent that remove_self wakes has left its node, the zombie that waitpid
\* disposes of has left its own (task.cpp).
NoPanic == ~hcf

\* A task that exited or was killed by an exception is never scheduled again
\* (the assert(false) after self_block in dispose_self, "should be removed!"
\* in remove_self).  A destroyed Task is out of everybody's reach: it does not run, its node is
\* on no list, it is not queued to be destroyed again, no waitpid is about to
\* dispose of it, and a parent is woken only while it exists (task_freer,
\* dispose_zombie, remove_self in task.cpp).
NoUseAfterFree ==
  /\ TypeOK
  /\ \A t \in Task : pc[t] \in {"dead", "faulted"} =>
       RunningTask # t /\ t \notin Range(NextTasks)
  /\ \A f \in freed :
       /\ f # RunningTask /\ ~OnList(Now, f)
       /\ f \notin AllTasks /\ f \notin Range(TasksToFree)
       /\ \A t \in Task :
            /\ f \notin Range(pend[t])
            /\ pc[t] \in {"reap", "reap_push"} => target[t] # f

\* waitpid hands to the freer only a child of the caller that has exited for
\* good and that nobody else has taken: a zombie, still in AllTasks, not yet in
\* TasksToFree, though waitpid(-1) released AllTasks_lock before it.
ReapsOwnZombie ==
  \A t \in Task : pc[t] \in {"reap", "reap_push"} =>
    LET z == target[t] IN
    /\ z \in AllTasks /\ parent[z] = t
    /\ state[z] = "ZOMBIE" /\ pc[z] = "dead"
    /\ z \notin Range(TasksToFree)

\* wait() returns once a child exits (test/hello2.c prints "Fork exited!" after
\* it): a parent that sleeps in waitpid(-1) while its child runs remove_self
\* comes back to user code.
WaitReturns ==
  \A p, c \in Task :
    /\ pc[p] = "wait_woken" /\ want[p] = Any
    /\ parent[c] = p /\ pc[c] = "remove_find"
    ~> pc[p] = "user"
=============================================================================
