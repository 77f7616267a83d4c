CONSTANTS
  Key <- MCKey
  From <- First
  To <- Fourth
  NextKey <- MCNextKey
  NoKey = NoKey
  Rank <- MCRank
  Endloop <- MCEndloop
  Scores = {7, 12}
  MaxPass = 2
  Interval = 1
  HandlesSignals = TRUE
  MaxStops = 2
SPECIFICATION Spec
INVARIANTS TypeOK FileNeverAhead FileIsAccepted BestIsReported FirstPassByFrequency ExitMeansSaved Bookkeeping PromptStop
PROPERTIES NoRework FileOnlyAdvances IsExhaustiveSearch
CHECK_DEADLOCK FALSE
