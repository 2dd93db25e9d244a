CONSTANTS
  Assistants = {a1, a2}
  Threads = {t1}
  Links = {l1, l2, l3}
  PublicLink = publiclink
  NoLink = nolink
  Unknown = unknown
  Faults = {"ask", "create", "join", "request", "approve", "rights"}
  ChatKey = chatkey
  DialogKey = dialogkey
  MaxTrouble = 2
  Users = {bot, u1}
  Bot = bot
  None = none
  Handlers = {h1, h2}
  MaxChanges = 2
  MaxCommands = 2
  MaxFailures = 1

SPECIFICATION MCSpec

CHECK_DEADLOCK FALSE

INVARIANTS
  EnsureSound
  RefusedIsForgotten
  WrongForAReason

PROPERTIES
  JoinedInTheEnd
  FormerAdminsRefused
