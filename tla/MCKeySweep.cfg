CONSTANTS
  StartKeys <- MCStartKeys
  MaxTurns = 2
SPECIFICATION Spec
INVARIANTS TypeOK OnlyAdmissibleKeys EveryKeyCanBeResumed
PROPERTIES NextKeyInOrder EndsBehindLastKey ResumeKeepsOrder
CHECK_DEADLOCK FALSE
