CONSTANTS
  N = 6
  Searches <- MCSearches
  KeyTexts <- ZeroWheelTexts
  Numbers <- MCNumbers
  Lists <- MCLists
  MaxRounds = 1
SPECIFICATION Spec
INVARIANTS WheelDigits
CHECK_DEADLOCK FALSE
