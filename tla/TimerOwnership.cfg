CONSTANTS
  focus1 = focus1
  focus2 = focus2
  break1 = break1
  None = None
  Timers = {focus1, focus2, break1}
  LegacyIds = {}
  Tasks = {}
  Breaks = {break1}
  tab1 = tab1
  tab2 = tab2
  Tabs = {tab1, tab2}
  Planned = 1
  Lease = 1
  MaxNow = 2
  MaxCommands = 3
  Reserve = 0
  Means = {"start", "pause", "cancelAndClear", "finish"}
  PeerKinds = {"start", "resume", "finish"}
  AutoStart = {TRUE, FALSE}
  Evidence = TRUE
SYMMETRY Symmetry
SPECIFICATION Spec
INVARIANTS
  Consistent
  OneFinish
PROPERTY LeaseKept
CHECK_DEADLOCK FALSE
