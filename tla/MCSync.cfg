SPECIFICATION FairSpec
CONSTANTS
  idle = idle
  a = a
  b = b
  c = c
  Task <- Tasks
  StartOrder <- Order
  Idle = idle
  Mutexes = {m1}
  CVs = {cv1}
  WaitingTasks_cv = cv1
  WakeupTicks = 0
  None = None
  SpinThreshold = 1
  SpinMax = 1
INVARIANTS NoPanic OwnerIsHolder NoTaskLost
PROPERTIES NoStarvation SleepersServed
