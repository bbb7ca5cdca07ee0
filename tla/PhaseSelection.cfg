SPECIFICATION Spec
CONSTANTS
  None = None
  Timers <- AllTimers
  LegacyIds = {}
  Tasks = {}
  LongEvery = 2
  DayLength = 1
  Generations = 6
  Profiles = {"apple", "android", "desktop", "pwa"}
  Pausing = {"pwa"}
  Planned = 1
  MaxNow = 1
  MaxCommands <- Commands
  MaxChoices = 1
  MaxRefused = 1
INVARIANTS
  ChoiceStands
  RefusedLeavesNoTrace
PROPERTIES
  BreakFollowsItsFocus
CHECK_DEADLOCK FALSE
