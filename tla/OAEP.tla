-------------------------------- MODULE OAEP --------------------------------
(***************************************************************************)
(* RSA-OAEP end to end: a sender pads a message with OAEPEncode, the RSA   *)
(* permutation carries the block to the key holder, and the key holder    *)
(* unpads what the private operation returns with OAEPDecode.             *)
(*                                                                         *)
(* Between the two, the RSA private-key operation (rsa_eay.c, outside     *)
(* src/) turns the block back into an integer and writes it with          *)
(* BN_bn2bin, which drops its leading zero bytes, then calls the decoder  *)
(* with flen = the length written, num = tlen = the modulus length (or a  *)
(* shorter output buffer).  That conversion is modelled from spec.md 4.3.  *)
(***************************************************************************)
EXTENDS Octets

CONSTANTS
  Msgs,        \* messages the sender pads
  Labels,      \* labels, shared by sender and key holder
  ModLen,      \* the modulus length in bytes
  DecTLens,    \* output buffer sizes the key holder passes
  LibMayFail

VARIABLES
  phase,                                 \* "encrypt", "decrypt" or "decode"
  epc, efrom, elabel, etlen, eto, eret, eerr,          \* the sender's call
  dpc, dfrom, dlabel, dtlen, dflen, dnum, dbad, dlzero, \* the key holder's
  ddblen, dbuf, dseed, dphash, di, dret, derr, dto, dreleased, \* call
  dlibFailed

Enc == INSTANCE OAEPEncode
         WITH TLens <- {ModLen}, BadFLens <- {}, UIntBits <- 32, pc <- epc, from <- efrom,
              flen <- Len(efrom), label <- elabel,
              tlen <- etlen, to <- eto, ret <- eret, err <- eerr

Dec == INSTANCE OAEPDecode
         WITH Nums <- {ModLen}, TLens <- DecTLens, MaxFlen <- ModLen,
              pc <- dpc, from <- dfrom, label <- dlabel, tlen <- dtlen,
              flen <- dflen, num <- dnum, bad <- dbad, lzero <- dlzero,
              dblen <- ddblen, buf <- dbuf, seed <- dseed, phash <- dphash,
              i <- di, ret <- dret, err <- derr, to <- dto,
              released <- dreleased, libFailed <- dlibFailed

encVars == <<epc, efrom, elabel, etlen, eto, eret, eerr>>
decVars == <<dpc, dfrom, dlabel, dtlen, dflen, dnum, dbad, dlzero, ddblen,
             dbuf, dseed, dphash, di, dret, derr, dto, dreleased, dlibFailed>>
vars == <<phase, encVars, decVars>>

(* BN_bn2bin of the integer the block encodes: its big-endian bytes       *)
(* without leading zeros.                                                 *)
RECURSIVE StripZeros(_)
StripZeros(s) == IF s /= <<>> /\ Head(s) = 0 THEN StripZeros(Tail(s)) ELSE s

-----------------------------------------------------------------------------
(* The sender's call of RSA_padding_add_PKCS1_OAEP_mgf1. *)
Encrypt ==
  /\ phase = "encrypt"
  /\ Enc!Next
  /\ phase' = IF eret' = 1 THEN "decrypt" ELSE "end"
  /\ UNCHANGED decVars

(* The private-key operation hands the key holder's decoder the block     *)
(* with its leading zeros stripped; the key holder chooses the label and  *)
(* the output buffer.                                                     *)
Decrypt ==
  /\ phase = "decrypt"
  /\ UNCHANGED encVars
  /\ \E l \in Labels, t \in DecTLens :
       Dec!Call(StripZeros(eto), ModLen, t, l)
  /\ phase' = "decode"

(* One step of the key holder's call of RSA_padding_check_PKCS1_OAEP_mgf1. *)
Decode ==
  /\ phase = "decode"
  /\ Dec!Next
  /\ UNCHANGED <<phase, encVars>>

Init ==
  /\ phase = "encrypt"
  /\ Enc!Init
  /\ dpc = "idle" /\ dfrom = <<>> /\ dlabel = <<>> /\ dtlen = 0 /\ dflen = 0
  /\ dnum = 0 /\ dbad = 0 /\ dlzero = 0 /\ ddblen = 0 /\ dbuf = <<>>
  /\ dseed = <<>> /\ dphash = <<>> /\ di = 0 /\ dret = -1 /\ derr = "none"
  /\ dto = <<>> /\ dreleased = <<>> /\ dlibFailed = FALSE

Next == Encrypt \/ Decrypt \/ Decode

Spec == Init /\ [][Next]_vars /\ WF_vars(Next)

-----------------------------------------------------------------------------
(* A malloc or a digest call of the decoder failed (the decoder's         *)
(* history variable, which no other step sets).                           *)
DecLibFailed == dlibFailed

(* spec.md 8.1, round trip: decoding what the sender encoded, with the    *)
(* sender's label, returns exactly the sender's message when it fits in   *)
(* the key holder's buffer and DATA_TOO_LARGE when it does not, unless a  *)
(* library call failed.  This holds for every seed, including those whose *)
(* masked block starts with zero bytes that BN_bn2bin strips and the       *)
(* decoder's lzero padding (rsa_oaep.c:145-171) must restore.             *)
RoundTrip ==
  (dpc = "done" /\ dlabel = elabel /\ ~DecLibFailed) =>
    IF Len(efrom) <= dtlen
      THEN dret = Len(efrom) /\ dto = efrom
      ELSE dret = -1 /\ derr = "RSA_R_DATA_TOO_LARGE"

(* spec.md 8.2, label binding: decoding with a label other than the       *)
(* sender's fails with the single decoding error, never with a message    *)
(* and never with a distinguishable error.                                *)
LabelBinding ==
  (dpc = "done" /\ dlabel /= elabel /\ ~DecLibFailed) =>
    dret = -1 /\ derr = "RSA_R_OAEP_DECODING_ERROR"

=============================================================================
