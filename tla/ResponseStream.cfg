\* Up to twelve bytes in pieces of up to three, a minimum of two.
SPECIFICATION FairSpec
CONSTANTS
  MinGenerated = 2
  Rooms = {1, 2, 4}
  MaxPiece = 3
  MaxMade = 12
PROPERTIES
  InOrder
  IsStream
  CallbackReturns
CHECK_DEADLOCK FALSE
