\* The decoder against every input of up to 6 bytes (rsa_oaep.c:116-219).
CONSTANTS
  ByteBits = 2
  MdLen = 1
  Hash <- MCHash
  MgfLen = 1
  MgfHash <- MCHash
  Labels <- MCLabels
  Nums = {3, 6}
  TLens = {1, 5}
  MaxFlen = 6
  LibMayFail = FALSE
SPECIFICATION Spec
\* Each behaviour is one call of the function, which returns and stops.
CHECK_DEADLOCK FALSE

INVARIANT ReleasedZeroed
