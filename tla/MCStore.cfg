CONSTANTS
  chat = chat
  user = user
  list = list
  logger = logger
  delete = delete
  on = on
  Chats = {chat}
  Users = {user}
  Lists = {list}
  Loggers = {}
  Collection <- MCCollection
  Items <- MCItems
  Backups <- MCBackups
  Unreachable = unreachable
  NeedsRight = {delete}
  None = none
  Threads = {t1, t2}
  Kinds = {"show", "toggle", "set", "admit", "meet", "mark", "list", "backup", "restore"}
  Faults = {"refused", "lost", "crash"}
  MaxCommands = 2
  MaxTrouble = 1

SPECIFICATION Spec

CHECK_DEADLOCK FALSE

INVARIANTS
  TypeOK
  StaleForAReason
  BackupIsWhole
  RestoreIsExact

PROPERTIES
  TogglesFlip
