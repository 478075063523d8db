SPECIFICATION Spec
CONSTANTS
  Task = {t1, t2}
  Sizes = {11, 24}
  Align = 2
  Header = 4
  PageSize = 16
  PhysPages = 7
  NULL = NULL
SYMMETRY Symmetry
INVARIANTS HeapLinked BlocksKept HeapCounted HeapConsistent
PROPERTIES MergesFollowLinks
CHECK_DEADLOCK FALSE
