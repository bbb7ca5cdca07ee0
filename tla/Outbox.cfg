\* Losses, repetitions, another device and one operation past the claims.
SPECIFICATION Spec
CONSTANTS
  MaxOps = 3
  MaxClock = 3
  MaxPeers = 1
  MaxStray = 1
  MaxFlight = 1
  Menu <- MCMenu
  Completions = {"none", "inside", "outside"}
INVARIANTS
  Consistent
  ImmutableRetry
  ChildAfterParent
  ProjectionIsReplay
  SettledVisible
  NeverRefused
PROPERTY
  KeepsPromise
  BreakGivesWay
CHECK_DEADLOCK FALSE
