CONSTANTS
  Assistants = {a1, a2}
  Threads = {t1}
  Links = {l1, l2, l3}
  PublicLink = publiclink
  NoLink = nolink
  Unknown = unknown
  Faults = {"ask", "create", "join", "request", "approve", "rights"}
  ChatKey = chatkey
  DialogKey = dialogkey
  MaxTrouble = 2

SPECIFICATION Spec

CHECK_DEADLOCK FALSE

PROPERTIES
  ActiveIsKept
