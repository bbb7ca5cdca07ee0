SPECIFICATION Spec
CONSTANTS
  None = None
  Timers <- MCTimers
  LegacyIds = {}
  Tasks = {}
  LongEvery = 2
  DayLength = 1
  Generations = 2
  Profiles = {"android", "pwa"}
  Planned = 2
  OldLengths <- MCOldLengths
  NewLengths <- MCNewLengths
  MaxNow = 2
  MaxCommands = 4
  MaxRefused = 1
INVARIANTS
  RecoversCauses
  AgreesWithRebase
CHECK_DEADLOCK FALSE
