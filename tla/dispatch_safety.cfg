SPECIFICATION Spec
CONSTANTS
  t1 = t1
  t2 = t2
  t3 = t3
  Tasks = {t1, t2, t3}
  None = None
  Objects = {1, 2}
  Handlers = {h1}
  Unregister = Unregister
  Dispatchers = {t1, t2}
  HandlerCalls = {"enqueue", "dispatch"}
  Cancellable = {t1, t2}
INVARIANT TypeOK
INVARIANT LookupIsFresh
PROPERTY HandlerPinned
PROPERTY ImplementsTable
CHECK_DEADLOCK FALSE
