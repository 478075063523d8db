SPECIFICATION HelloSpec
CONSTANTS
  Task = {0, 1, 2, 3}
  Idle = 1
  Freer = 0
  Roots <- OneRoot
  AllTasks_lock = AllTasks_lock
  TasksToFree_lock = TasksToFree_lock
  TasksToFree_cv = TasksToFree_cv
  WaitingTasks_cv = WaitingTasks_cv
  Mutexes = {AllTasks_lock, TasksToFree_lock}
  CVs = {TasksToFree_cv, WaitingTasks_cv}
  WakeupTicks = 0
  None = None
  Any = Any
  SpinThreshold = 1
  SpinMax = 1
  ForeignWait = FALSE
  MayFault = {}
PROPERTY WaitReturns
