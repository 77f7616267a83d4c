CONSTANTS
  N = 6
  Searches <- MCSearches
  KeyTexts <- MCKeyTexts
  Numbers <- MCNumbers
  Lists <- MCLists
  MaxRounds = 1
SPECIFICATION Spec
INVARIANTS TypeOK ResumedIsSearchable
PROPERTIES SavedIsRestored CutIsNoticed
CHECK_DEADLOCK FALSE
