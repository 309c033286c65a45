SPECIFICATION Spec
CONSTANTS
  Base = 4
  NotUtf8 = {3}
  Interfaces <- AllInterfaces
  Variants <- BothVariants
  Strays <- StrayFds
  Cuts = {0, 4, 8, 12}
  Nullables <- NullableEvents
INVARIANT TypeOK
INVARIANT IntactArrives
INVARIANT NullRefused
INVARIANT DeliveredWhole
INVARIANT TablesGenerated
CHECK_DEADLOCK FALSE
