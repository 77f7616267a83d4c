CONSTANTS
  Key <- MCKey
  From <- First
  To <- Fourth
  NextKey <- MCNextKey
  NoKey = NoKey
  Rank <- MCRank
  Endloop <- MCEndloop
  Scores = {12}
  MaxPass = 2
  Interval = 2
  HandlesSignals = TRUE
  MaxStops = 0
SPECIFICATION AgeSpec

PROPERTIES PeriodicSave
CHECK_DEADLOCK FALSE
