CONSTANTS
  N = 2
  Earlier = 2
  Calls = {c1}
  Operations = {"play", "stop"}
  Faults = {"join", "connect"}
  MaxCalls = 2

SPECIFICATION Spec

CHECK_DEADLOCK FALSE

PROPERTIES
  StopHalts
