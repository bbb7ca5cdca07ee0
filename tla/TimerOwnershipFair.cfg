CONSTANTS
  focus1 = focus1
  focus2 = focus2
  break1 = break1
  None = None
  Timers = {focus1, break1}
  LegacyIds = {}
  Tasks = {}
  Breaks = {break1}
  tab1 = tab1
  tab2 = tab2
  Tabs = {tab1, tab2}
  Planned = 1
  Lease = 1
  MaxNow = 2
  MaxCommands = 5
  Reserve = 3
  Means = {"start"}
  PeerKinds = {"resume"}
  AutoStart = {TRUE}
  Evidence = FALSE
SPECIFICATION FairSpec
PROPERTY FinishedAtLast
CHECK_DEADLOCK FALSE
