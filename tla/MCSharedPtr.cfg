SPECIFICATION Spec
CONSTANTS
  Task = {t1, t2, t3}
  Handle = {h1, h2, h3, h4}
  First = h1
  None = None
INVARIANTS CountsExact NoUseAfterFree DeletedOnce
PROPERTY NoRevival
SYMMETRY Symmetry
CHECK_DEADLOCK FALSE
