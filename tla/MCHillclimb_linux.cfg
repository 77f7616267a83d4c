CONSTANTS
  Key <- MCKey
  From <- First
  To <- Fourth
  NextKey <- MCNextKey
  NoKey = NoKey
  Rank <- MCRank
  Endloop <- MCEndloop
  Scores = {7, 12}
  MaxPass = 2
  Interval = 1
  HandlesSignals = FALSE
  MaxStops = 2
SPECIFICATION Spec
INVARIANTS SignalSavesState
CHECK_DEADLOCK FALSE
