SPECIFICATION Spec
CONSTANTS
  Width <- Widths
  Signed <- SomeSigned
  NarrowTypes <- Narrow
  Precision <- Floats32And64
  FracBits = 2
  FloatRange = 150
INVARIANT RepresentableKept
INVARIANT FloatsKept
INVARIANT NoDrift
CHECK_DEADLOCK FALSE
