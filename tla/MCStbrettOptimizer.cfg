CONSTANTS
  N = 6
  Scorings <- MCScorings
  Score <- MCScore
  Orders <- MCOrders
SPECIFICATION Spec
INVARIANTS TypeOK StaysPlugboard BestIsScoreOfBoard ResultDescribesBoard EndsOnHilltop
PROPERTIES Terminates
CHECK_DEADLOCK FALSE
