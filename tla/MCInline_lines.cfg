SPECIFICATION Spec
CONSTANTS
  Lines <- MCLines
  Reference <- MCReference
CHECK_DEADLOCK FALSE
INVARIANTS
  RendersAsWritten
  TextKept
  EveryTagEnds
