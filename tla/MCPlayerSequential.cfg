CONSTANTS
  a = a
  b = b
  c = c
  r1 = r1
  r2 = r2
  Songs <- TwoAndMix
  TrackIDs = {"t1", "t2", "t3", "t4", "t5"}
  NoID = ""
  TrackID <- MCTrackID
  Recommended <- TheMix
  YouTube <- TwoAndMix
  MaxLoop = 1
  MaxBatch = 2
  None = None
  Handlers = {h1}
  QueueLimit = 1
  AutoPlayLimit = 2
  Attempts = 2
  Commands = {"play", "fplay", "list", "flist", "skip", "stop", "playnow", "loop", "autoplay", "remove"}
  Faults = {"download", "mix"}
  MaxRequests = 5

SPECIFICATION DrainSpec

CHECK_DEADLOCK FALSE

INVARIANTS
  HeadIsPlaying
  InactiveIsSilent
  RecommendationsBounded

PROPERTIES
  QueueDrains
