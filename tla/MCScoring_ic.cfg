CONSTANTS
  Alphabet = {"a", "b"}
  Texts <- MCTexts
  Jobs <- CommonLetterJobs
SPECIFICATION Spec
INVARIANTS IcExact
CHECK_DEADLOCK FALSE
