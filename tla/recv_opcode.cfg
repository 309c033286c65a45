SPECIFICATION Spec
CONSTANTS
  t1 = t1
  t2 = t2
  Tasks = {t1, t2}
  None = None
  MaxSize = 65535
  Events <- OpcodeEvents
  MaxEvents = 1
  Cancellable = {}
INVARIANT OpcodeKept
CHECK_DEADLOCK FALSE
