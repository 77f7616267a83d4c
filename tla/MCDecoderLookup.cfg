CONSTANTS
  Calls <- MCCalls
  wal <- Walzen
  rev_wal <- RevWalzen
  ukw <- Umkehrwalzen
  stbrett <- Board
  ciphertext <- Text
SPECIFICATION Spec
INVARIANTS TypeOK InStepWithMachine LookupHoldsUnderMask MasksPartitionBite SlowWheelForecast SearchesComplement DecodedAsMachine
CHECK_DEADLOCK FALSE
