CONSTANTS
  a = a
  b = b
  c = c
  d = d
  Songs <- MCSongs
  TrackIDs = {"t1", "t2"}
  NoID = ""
  TrackID <- MCTrackID
  Recommended = {c}
  YouTube = {a, b, c}
  MaxLoop = 1
  MaxBatch = 2
  Nil = Nil
  Capacities <- MCCapacities
  Caches = {c1, c2}
  Keys = {k1}
  Readers = {r1}
  Janitors = {j1, j2}
  TTL = 1
  MaxTime = 4
  MaxSets = 2

SPECIFICATION MCSpec

CHECK_DEADLOCK FALSE

INVARIANTS
  QueueDistinct
  OneJanitor

PROPERTIES
  ImplementsChatQueue
  OrderIsPreserved
  FreshIsKept
  ExpiredIsSwept
