CONSTANTS
  Msgs <- MCMsgs
  MaxMsgs = 2
  SizeLimit = 4
SPECIFICATION Spec
\* The reader has returned false or thrown: the file is consumed.
CHECK_DEADLOCK FALSE
INVARIANTS
  TypeOK
  ReadIsPrefixOfWritten
  RoundTrip
  FileMatchesHash
  FalseTellsEndFromLimit
