SPECIFICATION FairSpec
CONSTANTS
  t1 = t1
  t2 = t2
  Tasks = {t1, t2}
  None = None
  MaxSize = 12
  Allocators = {t1, t2}
  Modulus = 4
  MaxIds = 4
  Calls <- AllCalls
  MaxCalls = 3
  Capacity = 2
  Cancellable = {t2}
INVARIANT TypeOK
INVARIANT StreamIsPackets
INVARIANT IdsAccounted
INVARIANT UniqueInLap
INVARIANT IntroducedInOrder
PROPERTY ImplementsSender
PROPERTY RequestsEnd
CHECK_DEADLOCK FALSE
