CONSTANTS
  Key <- MCKey
  From <- First
  To <- Fourth
  NextKey <- MCNextKey
  NoKey = NoKey
  Rank <- MCRank
  Endloop <- MCEndloop
  Scores = {12}
  MaxPass = 2
  Interval = 1
  HandlesSignals = TRUE
  MaxStops = 2
SPECIFICATION FairSpec

PROPERTIES SearchEnds StopIsAnswered
CHECK_DEADLOCK FALSE
