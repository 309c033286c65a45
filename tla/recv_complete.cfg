SPECIFICATION FairSpec
CONSTANTS
  t1 = t1
  t2 = t2
  Tasks = {t1, t2}
  None = None
  MaxSize = 65535
  Events <- GoodEvents
  MaxEvents = 2
  Cancellable = {}
PROPERTY CompleteReturns
CHECK_DEADLOCK FALSE
