SPECIFICATION FairSpec
CONSTANTS
  Pooler = pooler
  User = {u1, u2}
  None = None
  Devices = {"serial", "keyboard"}
  S = 2
  Elem <- Bytes
  FifoSize = 2
  MaxBytes = 4
  MaxNum = 2
INVARIANTS InOrder ReadersNotified 
PROPERTIES FifoSpec ReadersServed
CHECK_DEADLOCK FALSE
