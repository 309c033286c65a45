SPECIFICATION FairSpec
CONSTANTS
  t1 = t1
  t2 = t2
  t3 = t3
  Tasks = {t1, t2, t3}
  None = None
  Objects = {1}
  Handlers = {h1}
  Unregister = Unregister
  Dispatchers = {t1, t2}
  HandlerCalls = {"enqueue", "dispatch"}
  Cancellable = {}
PROPERTY CallsReturnOrCycle
INVARIANT CycleNeedsHandler
CHECK_DEADLOCK FALSE
INVARIANT NoWaitCycle
