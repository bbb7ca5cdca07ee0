\* Every cut of a log of four commands, with restarts and repeated commands.
SPECIFICATION PagedSpec
CONSTANTS
  a = a
  b = b
  k = k
  None = None
  Timers = {a, b}
  LegacyIds = {}
  Tasks = {k}
  Payloads <- MCPayloads
  MaxCommands = 4
  PageSize = 2
  Instants = {0, 3}
INVARIANTS
  PagesMatchReplay
CHECK_DEADLOCK FALSE
