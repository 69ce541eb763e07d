\* The same with a CR that no LF follows.
SPECIFICATION FairSpec
CONSTANTS
  MaxWords = 2
  MaxLines = 3
  Endings = {"lf", "crlf", "cr"}
PROPERTIES
  ReadingEnds
CHECK_DEADLOCK FALSE
