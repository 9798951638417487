SPECIFICATION FairSpec

CONSTANTS
  None = None
  c1 = c1
  c2 = c2
  e1 = e1
  r1 = r1
  Calls <- TwoCalls
  HostNotes <- Nobody
  PeerNotes <- Nobody
  PeerErrors <- OnePeerError
  PeerRequests <- OnePeerRequest
  ClockNumbers <- JustOne
  IdSpace = 4
  HostMessages <- HostTalk
  HostMax = 1
  AppMay <- AllEnds
  AppMax = 0
  InCap = 2
  OutCap = 1
  Base = 2
  Width = 2
  MaxDataLength = 2
  MaxText = 2
  MaxFrames = 2

PROPERTY ListenEnds

CHECK_DEADLOCK FALSE
