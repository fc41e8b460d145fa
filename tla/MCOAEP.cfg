\* Encode, RSA round trip and decode of every message, label and seed.
CONSTANTS
  ByteBits = 2
  MdLen = 1
  Hash <- MCHash
  MgfLen = 2
  MgfHash <- MCMgfHash
  Labels <- MCLabels
  Msgs <- MCMsgs
  ModLen = 6
  DecTLens = {1, 6}
  LibMayFail = TRUE
SPECIFICATION Spec
\* Each behaviour is one encryption and one decryption; both return.
CHECK_DEADLOCK FALSE
INVARIANT RoundTrip
INVARIANT LabelBinding
