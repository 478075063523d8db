SPECIFICATION Spec
CONSTANTS
  PageSize = 4
  MAX_PID = 15
  MemMap <- SmallMap
  NULL = NULL
INVARIANT FreeCounted
PROPERTY AllocatorSpec
