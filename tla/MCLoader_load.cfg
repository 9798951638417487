SPECIFICATION FairSpec

CONSTANTS
  None = None
  c1 = c1
  c2 = c2
  c3 = c3
  n1 = n1
  p1 = p1
  e1 = e1
  r1 = r1
  Calls <- Nobody
  HostNotes <- OneHostNote
  PeerNotes <- Nobody
  PeerErrors <- OnePeerError
  PeerRequests <- Nobody
  Closers <- JustClose
  ClockNumbers <- JustOne
  IdSpace = 8
  MaxAttempts = 3
  MaxAdds = 7
  MayCrash = FALSE
  MayQuit = FALSE
  SlowStart = TRUE
  MayExpire = TRUE
  EarlyClose = TRUE
  PastCalls = 0

INVARIANTS
  LoadFailedMeansGone


  
  

CHECK_DEADLOCK FALSE
