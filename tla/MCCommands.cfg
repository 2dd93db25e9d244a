CONSTANTS
  Chats = {g1}
  Users = {u1}
  Handlers = {h1, h2}
  MaxCommands = 3
  MaxMoves = 1
  MaxRestarts = 1
  Owners = {o1, o2}
  Playlists = {p1, p2, p3}
  Tracks = {t1}
  None = none
  PlaylistLimit = 1
  Clients = {l1, l2}
  MaxRequests = 4

SPECIFICATION MCSpec

CHECK_DEADLOCK FALSE

INVARIANTS
  TypesOK
  FlagIsRight
  StopIsObeyed
  FlaggedForAReason
  OnceForAReason
  PlaylistsBounded

PROPERTIES
  OnlyOwnersChange
