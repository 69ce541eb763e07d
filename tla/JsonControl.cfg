\* Documents of a few calls with a control character.
SPECIFICATION Spec
CONSTANTS
  Texts <- ControlTexts
  MaxBytes = 6
INVARIANTS
  SaysWhatWasSaid
CHECK_DEADLOCK FALSE
