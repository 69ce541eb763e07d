\* Windows of five characters, cut to two or three.
SPECIFICATION Spec
CONSTANTS
  Segment = 5
  CutFrom = 5
  CutBack = 1
  AllowSpaces = TRUE
  ManyTokens = 3
  ManyWithP = 3
  ManyWithPo = 2
  Documents <- MCDocuments
  TwoWords <- MCTwoWords
INVARIANTS
  TextKept
  MarksRight
PROPERTIES
  TokenizingProceeds
