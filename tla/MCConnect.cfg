CONSTANTS
  Threads = {t1}
  Reconnector = reconnector
  Nobody = nobody
  Faults = {"create", "sources", "fetch", "join", "connect", "stop", "leave"}
  MaxCalls = 3
  MaxGroupCalls = 2

SPECIFICATION MCSpec

CHECK_DEADLOCK FALSE

INVARIANTS
  RegisteredHears
  ConnectedTakesPart
