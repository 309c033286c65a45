SPECIFICATION Spec
CONSTANTS
  o1 = o1
  o2 = o2
  Objects = {o1, o2}
  Other = Other
  None = None
  Names = {"name"}
  Options <- SomeOptions
  Ranges <- SomeRanges
  Lengths = {0, 3}
  Half = 8
  PageSize = 2
  Descriptors = 3
  MaxFiles = 3
  MaxFailures = 1
INVARIANT TypeOK
INVARIANT DescriptorsOwned
INVARIANT SentIsMeant
INVARIANT MapsTheRange
INVARIANT BackedMapping
CONSTRAINT OneMapping
SYMMETRY Symmetry
CHECK_DEADLOCK FALSE
