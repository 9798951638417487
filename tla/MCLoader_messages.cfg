SPECIFICATION Spec

CONSTANTS
  None = None
  c1 = c1
  c2 = c2
  c3 = c3
  n1 = n1
  p1 = p1
  e1 = e1
  r1 = r1
  Calls <- TwoCalls
  HostNotes <- OneHostNote
  PeerNotes <- Nobody
  PeerErrors <- OnePeerError
  PeerRequests <- OnePeerRequest
  Closers <- Nobody
  ClockNumbers <- JustOne
  IdSpace = 8
  MaxAttempts = 3
  MaxAdds = 7
  MayCrash = FALSE
  MayQuit = TRUE
  SlowStart = FALSE
  MayExpire = FALSE
  EarlyClose = FALSE
  PastCalls = 0

SYMMETRY CallSymmetry

CONSTRAINT AtMostTwo

INVARIANTS
  TypeOK
  CallsNeverCross
  RepliesExplained
  Correlated
  StaysRegistered

CHECK_DEADLOCK FALSE
