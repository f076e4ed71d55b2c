SPECIFICATION FairSpec
CONSTANTS
  MaxSends = 2
  MaxClicks = 1
  MaxMessages = 1
  Pieces = 1
  BodyAccepted = TRUE
  HeaderExposed = FALSE
  Faults = {"call", "cut", "drop", "split"}
  MaxFaults = 1
CHECK_DEADLOCK FALSE
INVARIANTS
  TypeOK
  LockedOutOnlyByFault
  NothingLostUndisturbed
  AnswersBelong
PROPERTIES
  InputReturns
