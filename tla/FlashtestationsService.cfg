SPECIFICATION Spec
CONSTANTS
  MaxBlocks = 2
  MaxTxs = 5
  MaxKeys = 3
  MaxStarts = 3
INVARIANTS
  TypeOK
  AllOrNothing
  BuilderNonces
  ProofCoversWhatPrecedes
  WorksWithSavedKey
  KeySurvivesCrashes
  OneAddressPerKeyFile
CHECK_DEADLOCK FALSE
