CONSTANTS
  P = 17
  A = 2
  B = 2
  Gen <- MCGen
  N = 19
  XCoord <- MCXCoord
  Keys = {1, 2, 7, 18}
  Dgsts <- MCDgsts
  Scalars = {}
  LibMayFail = FALSE
SPECIFICATION Spec
INVARIANTS SignVerifyRoundTrip
CHECK_DEADLOCK FALSE
