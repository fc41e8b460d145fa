\* PKCS1_MGF1 with a 2-byte digest computes the MGF1 mask (rsa_oaep.c:221-260).
CONSTANTS
  ByteBits = 2
  MdLen = 2
  Hash <- MCHash
  MgfLen = 2
  MgfHash <- MCMgfHash
  Seeds <- MCSeeds
  Lens = {0, 1, 2, 3, 4, 5}
  MaxCounter = 4
  LibMayFail = TRUE
SPECIFICATION Spec
\* Each behaviour is one call of the function, which returns and stops.
CHECK_DEADLOCK FALSE
INVARIANT TypeOK
PROPERTY Implements
