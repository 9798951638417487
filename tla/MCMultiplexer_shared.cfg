SPECIFICATION Spec

CONSTANTS
  Nobody = Nobody
  m1 = m1
  m2 = m2
  Messages <- Two
  AutoMessages <- Two
  Numbers <- OneOrTwo
  Chunks <- EqualMessages
  MaxChunks = 4
  IdSpace = 3
  ChanSize = 1
  ChecksFirst = TRUE
  Distinct = FALSE
  Cancellable <- Nothing
  Endings <- Nothing
  MayStop = FALSE
  MayClose = FALSE
  MaxReceived = 4

INVARIANTS
  CompleteIsWhole

CHECK_DEADLOCK FALSE
