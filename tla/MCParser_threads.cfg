SPECIFICATION Spec
CONSTANTS
  Parsers = {p1, p2}
  Line <- CodeLines
  MaxDocs = 2
  MaxLines = 4
CHECK_DEADLOCK FALSE
INVARIANTS
  FirstCodeHasItsFence
