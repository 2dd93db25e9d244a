CONSTANTS
  v = v
  y = y
  s = s
  m = m
  u = u
  c1 = c1
  c2 = c2
  Chats = {c1, c2}
  Tracks = {v, y, s, m, u}
  Kind <- MCKind
  Absent = Absent
  None = None
  Cycles = 2
  MaxRequests = 2
  MaxTroubles = 1
  MaxFaults = 1
  MaxUrgent = 1
  MaxRestarts = 1

SPECIFICATION MCSpec

CHECK_DEADLOCK FALSE
PROPERTIES
  NeverSwept
