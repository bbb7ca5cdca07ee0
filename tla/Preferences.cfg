\* An edit needs a greater clock value than any the device saw, so the bound
\* on clock values ends the editing.
CONSTANTS
  task = task
  other = other
  focus = focus
  short = short
  long = long
  None = None
  Devices = {1, 2}
  Profiles <- TheProfiles
  Tasks = {task, other}
  Phases = {focus}
  Durations = {short, long}
  Standard = short
  MaxStamp = 4
  MaxOps <- TheOps
  LastStamp <- TheStamps
  MaxLead <- TheLead
  Intents <- TheIntents
  Legacy <- TheLegacy
SPECIFICATION FairSpec
INVARIANTS
  HonestPreview
  Consistent
  OfferedIsAdmitted
  NothingHidden
PROPERTIES
  NothingLost
  DisplayStep
  Converges
