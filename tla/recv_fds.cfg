SPECIFICATION Spec
CONSTANTS
  t1 = t1
  t2 = t2
  Tasks = {t1, t2}
  None = None
  MaxSize = 65535
  Events <- FdEvents
  MaxEvents = 2
  Cancellable = {}
INVARIANT FdsBelong
CHECK_DEADLOCK FALSE
