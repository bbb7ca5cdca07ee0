\* Every operation of a device that keeps its proofs is answered or dropped.
SPECIFICATION FairSpec
CONSTANTS
  MaxOps = 3
  MaxClock = 3
  MaxPeers = 0
  MaxStray = 0
  MaxFlight = 1
  Menu <- MCMenu
  Completions = {"none", "inside"}
PROPERTY Drains
CHECK_DEADLOCK FALSE
