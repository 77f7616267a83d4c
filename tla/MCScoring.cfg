CONSTANTS
  Alphabet = {"a", "b"}
  Texts <- MCTexts
  Jobs <- MCJobs
SPECIFICATION Spec
INVARIANTS TypeOK DictionaryAsWritten GramsScoredOnce IcExactBelow129
CHECK_DEADLOCK FALSE
