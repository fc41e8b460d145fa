\* spec.md 4.3/5: the decoder's steps do not depend on the ciphertext bytes.
CONSTANTS
  ByteBits = 2
  MdLen = 1
  Hash <- MCHash
  MgfLen = 1
  MgfHash <- MCHash
  Labels <- MCLabels
  Nums = {5}
  TLens = {4}
  MaxFlen = 4
SPECIFICATION Spec
\* Each behaviour is one pair of calls; both return and the pair stops.
CHECK_DEADLOCK FALSE
INVARIANT SameTrace
