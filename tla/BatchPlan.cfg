\* All five domains, chains of dependencies, every mode, and a total limit
\* that one domain and a half exhaust.
SPECIFICATION PlanFairSpec
CONSTANTS
  PerDomain = 2
  Total = 3
  Room <- MCRoom
  None = None
INVARIANTS
  HeldStaysHome
  ClaimReplayable
  PlanMaximal
  FiveBatches
PROPERTY QueuesDrain
