SPECIFICATION DrainedSpec

CONSTANTS
  Nobody = Nobody
  m1 = m1
  m2 = m2
  Messages <- Two
  AutoMessages <- JustFirst
  Numbers <- OneOrTwo
  Chunks <- SmallMessages
  MaxChunks = 1
  IdSpace = 3
  ChanSize = 1
  ChecksFirst = TRUE
  Distinct = TRUE
  Cancellable <- JustFirst
  Endings <- BothEndings
  MayStop = TRUE
  MayClose = TRUE
  MaxReceived = 5

INVARIANTS
  TypeOK
  NoOrphans
  CompleteIsWhole
  PendingExact

PROPERTIES
  StreamSpec
  SentIsReceived
  EndIsNoticed

CHECK_DEADLOCK FALSE
