CONSTANTS
  P = 17
  A = 2
  B = 2
  Gen <- MCGen
  N = 19
  XCoord <- MCXCoord
  Keys = {1, 2, 7, 18}
  Dgsts <- MCDgsts
  Scalars <- MCScalars
  LibMayFail = TRUE
SPECIFICATION Spec
INVARIANTS TypeOK SigBindsDigest MemoryReleased
PROPERTIES Implements
CHECK_DEADLOCK FALSE
