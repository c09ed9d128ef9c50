SPECIFICATION Spec

CONSTANTS
  N = 3
  Copies <- TwoThenOne
  v1 = v1
  v2 = v2
  Versions = {v1, v2}
  Bad = Bad
  Gone = Gone
  MaxEdits = 2

INVARIANT TypeOK
INVARIANT CheckTellsTheTruth
INVARIANT SetLeavesAPrefix
INVARIANT SetsEndHonestly
