SPECIFICATION Spec
CONSTANTS
  u1 = u1
  u2 = u2
  p1 = p1
  Uploads <- MCUploads
  PathRequests <- MCPathRequests
  Limits <- MCLimits
  Inputs <- MCInputs
  MaxKeep = 1
  MaxEntries = 3
  Batch = 2
  MaxCrashes = 1
SYMMETRY MCSymmetry
INVARIANTS SlotsConserved FilesOwned TableComplete SuccessTruthful
CHECK_DEADLOCK FALSE
