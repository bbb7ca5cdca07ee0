\* Every command kind against two timers, from an empty account and after every
\* accepted pair of a canonical timer and two history rows.
SPECIFICATION Spec
CONSTANTS
  a = a
  b = b
  old = old
  k = k
  None = None
  Timers = {a, b}
  LegacyIds = {old}
  Tasks = {k}
  Payloads <- MCPayloads
  BaseTimers <- MCBaseTimers
  BaseHistories <- MCBaseHistories
  FirstId = 10
  MaxCommands = 4
  Instants <- MCInstants
INVARIANTS
  LiveTimerUnique
  ProjectionReadable
  NaturalEndAtDeadline
  DeadlineReadStable
CHECK_DEADLOCK FALSE
