\* spec.md 4.2/7: a modulus shorter than 2*hLen+2 bytes is KeySizeTooSmall.
CONSTANTS
  ByteBits = 2
  MdLen = 1
  Hash <- MCHash
  MgfLen = 1
  MgfHash <- MCHash
  Labels <- MCLabels
  Msgs <- MCMsgs
  TLens = {2, 3, 4, 6}
  LibMayFail = FALSE
  BadFLens = {}
  UIntBits = 16
SPECIFICATION Spec
\* Each behaviour is one call of the function, which returns and stops.
CHECK_DEADLOCK FALSE
INVARIANT EncodeErrorKind
