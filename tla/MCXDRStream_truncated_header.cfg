CONSTANTS
  Msgs <- MCMsgs
  MaxMsgs = 2
  SizeLimit = 4
SPECIFICATION Spec
CHECK_DEADLOCK FALSE
INVARIANT EndOfFileOnlyAtFrameBoundary
