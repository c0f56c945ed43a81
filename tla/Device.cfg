CONSTANTS
  r1 = r1
  r2 = r2
  None = None
  Foreign = Foreign
  Torn = Torn
  Base = Base
  Release <- Releases
  NClients = 2
  MaxFaults = 2
  MaxCrashes = 2
  MaxEdits = 2
SPECIFICATION Spec
SYMMETRY Symmetry
INVARIANTS
  Consistent
  FailedChangeRestoresFiles
  OnlySwitchesSpoil
  SuccessIsComplete
PROPERTY ForeignUntouched
