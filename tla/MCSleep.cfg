SPECIFICATION FairSpec
CONSTANTS
  idle = idle
  waker = waker
  a = a
  b = b
  Task <- Tasks
  StartOrder <- Order
  Idle = idle
  Waker = waker
  WaitingTasks_mlock = WaitingTasks_mlock
  Mutexes = {WaitingTasks_mlock}
  WaitingTasks_cv = WaitingTasks_cv
  CVs = {WaitingTasks_cv}
  WakeupTicks = 0
  None = None
  SpinThreshold = 0
  SpinMax = 0
  MicrosPerTick = 2
  Diffs = {1, 2}
INVARIANTS NoTaskLost SleepersBlocked
PROPERTIES SleepEnds
