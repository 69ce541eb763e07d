\* Texts of five lines with up to three words to a sentence.
SPECIFICATION FairSpec
CONSTANTS
  MaxWords = 3
  MaxLines = 5
  Endings = {"lf", "crlf"}
INVARIANTS
  ReturnsWellFormed
  RoundTrip
  SameByBlocks
PROPERTIES
  ReadingEnds
CHECK_DEADLOCK FALSE
