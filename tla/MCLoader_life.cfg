SPECIFICATION FairSpec

CONSTANTS
  None = None
  c1 = c1
  c2 = c2
  c3 = c3
  n1 = n1
  p1 = p1
  e1 = e1
  r1 = r1
  Calls <- OneCall
  HostNotes <- Nobody
  PeerNotes <- Nobody
  PeerErrors <- Nobody
  PeerRequests <- Nobody
  Closers <- BothClosers
  ClockNumbers <- JustOne
  IdSpace = 8
  MaxAttempts = 3
  MaxAdds = 7
  MayCrash = FALSE
  MayQuit = FALSE
  SlowStart = FALSE
  MayExpire = FALSE
  EarlyClose = FALSE
  PastCalls = 0

INVARIANTS
  ClosedMeansGone
  Gone
  NoLateRegistration
  Sealed

PROPERTIES
  CallsReturn
  ShutdownReleasesCalls
  CloseReturns

CHECK_DEADLOCK FALSE
