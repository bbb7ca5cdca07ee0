CONSTANTS
  None = None
  Profiles <- AllProfiles
  Skew = 4
  Drift = 1
  Uncertainty = 2
  Start = 5
  MaxNow = 8
  Offsets = {0, 3}
  Leads = {0, 5}
  MaxTime = 16
  MaxUpsets = 2
SPECIFICATION Spec
INVARIANTS
  NeverAhead
  NeverBehind
PROPERTY SteadyPace
CHECK_DEADLOCK FALSE
