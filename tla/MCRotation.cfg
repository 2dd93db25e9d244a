CONSTANTS
  c1 = c1
  c2 = c2
  N = 3
  Earlier = 4
  Calls = {c1, c2}
  Operations = {"play", "stop", "clear"}
  Faults = {"join", "connect", "leave", "member", "db", "lost", "expire", "discard"}
  MaxCalls = 2

SPECIFICATION MCSpec

CHECK_DEADLOCK FALSE

INVARIANTS
  CoherentUnlessUnseen
  OneWhenCalm
  AttemptsBounded

PROPERTIES
  TwoCallsReturn
