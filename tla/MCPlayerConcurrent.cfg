CONSTANTS
  a = a
  b = b
  c = c
  r1 = r1
  r2 = r2
  Songs <- Three
  TrackIDs = {"t1", "t2", "t3", "t4", "t5"}
  NoID = ""
  TrackID <- MCTrackID
  Recommended <- NoMix
  YouTube <- Three
  MaxLoop = 1
  MaxBatch = 1
  None = None
  Handlers = {h1, h2}
  QueueLimit = 0
  AutoPlayLimit = 2
  Attempts = 2
  Commands = {"play", "skip", "stop", "loop"}
  Faults = {"send", "download", "call", "videochat"}
  MaxRequests = 3

SPECIFICATION FairSpec

CHECK_DEADLOCK FALSE

INVARIANTS
  QueueBounded

PROPERTIES
  HandlersReturn
