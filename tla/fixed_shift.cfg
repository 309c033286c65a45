SPECIFICATION Spec
CONSTANTS
  Width <- Widths
  Signed <- SomeSigned
  NarrowTypes <- Narrow
  Precision <- Floats32And64
  FracBits = 2
  FloatRange = 150
INVARIANT IntegersKept
CHECK_DEADLOCK FALSE
