SPECIFICATION FairSpec
CONSTANTS
  t1 = t1
  t2 = t2
  Tasks = {t1, t2}
  None = None
  MaxSize = 65535
  Events <- AllEvents
  MaxEvents = 2
  Cancellable = {t1, t2}
INVARIANT TypeOK
INVARIANT DeliveredInOrder
INVARIANT FdsNotLate
INVARIANT FdsConserved
PROPERTY ImplementsReceiver
PROPERTY PayloadReturns
PROPERTY CallsEndOrSpin
CHECK_DEADLOCK FALSE
