\* Two devices whose physical clocks disagree; the counter can overflow.
SPECIFICATION HlcSpec
CONSTANTS
  d1 = d1
  d2 = d2
  Error = Error
  Devices <- MCDevices
  MaxSafe = 2
  MaxWall = 2
  MaxOps = 3
SYMMETRY MCSymmetry
INVARIANTS
  CausalStamps
  NoRunaway
