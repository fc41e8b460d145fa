CONSTANTS
  P = 17
  A = 2
  B = 2
  Gen <- MCGen
  N = 19
  XCoord <- MCXCoord
  Keys = {1, 2, 7, 18}
  LibMayFail = TRUE
  Ids <- MCIds
  Msgs <- MCMsgs
  Digest <- MCDigest
SPECIFICATION Spec
INVARIANTS TypeOK WrongIdentityRejects SignResultOwned
CHECK_DEADLOCK FALSE
