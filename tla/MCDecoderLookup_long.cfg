CONSTANTS
  Calls <- LongCalls
  wal <- Walzen
  rev_wal <- RevWalzen
  ukw <- Umkehrwalzen
  stbrett <- Board
  ciphertext <- Text
SPECIFICATION Spec
INVARIANTS AllBitesPrepared
CHECK_DEADLOCK FALSE
