SPECIFICATION Spec
CONSTANTS
  Parsers = {p1}
  Line <- BlockLines
  MaxDocs = 2
  MaxLines = 4
CHECK_DEADLOCK FALSE
INVARIANTS
  TypeOK
  GlobalsMatchHtml
  NothingLost
  ShownOnce
  WrittenInOrder
  FencesAreSyntax
  Inductive
PROPERTIES
  ImplementsOutline
