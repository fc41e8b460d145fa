\* The length checks of lines 60-68 against every flen an int can carry.
CONSTANTS
  ByteBits = 2
  MdLen = 1
  Hash <- MCHash
  MgfLen = 1
  MgfHash <- MCHash
  Labels <- MCLabels
  Msgs <- MCMsgs
  TLens = {4, 6}
  LibMayFail = FALSE
  BadFLens <- MCBadFLens
  UIntBits = 16
SPECIFICATION Spec
\* Each behaviour is one call of the function, which returns and stops.
CHECK_DEADLOCK FALSE
INVARIANT EncodeWritesInBounds
