----------------------------- MODULE OAEPEncode -----------------------------
(***************************************************************************)
(* RSA_padding_add_PKCS1_OAEP_mgf1 (src/.../rsa/rsa_oaep.c:43-104): the   *)
(* function is straight-line code with early returns, so one call is one  *)
(* action.  The random seed (arc4random_buf) and the library call that    *)
(* fails, if any, are inputs of the action.                               *)
(***************************************************************************)
EXTENDS Octets

CONSTANTS
  Msgs,        \* messages (from, flen) callers pass
  Labels,      \* labels (param, plen)
  TLens,       \* output sizes tlen: the modulus length
  LibMayFail,  \* whether malloc and digest calls may fail
  BadFLens,    \* negative flen values a caller may pass with from
  UIntBits     \* the width of unsigned int: 32, less in an instance

ASSUME LibMayFail \in BOOLEAN /\ MdLen > 0

VARIABLES
  pc,      \* "call" before the function runs, "done" after it returned
  from,    \* the message
  flen,    \* flen: Len(from), or a negative int a caller passed
  label,   \* param
  tlen,    \* tlen
  to,      \* the output buffer
  ret,     \* return value: 1 or 0
  err      \* the error queued with RSAerror, "none" if none

vars == <<pc, from, flen, label, tlen, to, ret, err>>

(* The library call that fails during the call, if any: the digest of   *)
(* the label, the malloc of dbmask, or the first or second MGF1.          *)
Faults ==
  IF LibMayFail THEN {"none", "digest", "malloc", "mgf1_db", "mgf1_seed"}
  ELSE {"none"}

(* The caller's output buffer of tlen bytes before the call.  RSA_eay's   *)
(* is fresh from malloc; the model fills it with zeros, which no data     *)
(* block equals (a data block holds the 0x01 separator).                  *)
OldTo(t) == Zeros(t)

(* Lines 74-78: DB = lHash || PS || 0x01 || m, emlen - mdlen bytes. *)
DataBlock(m, l, t) == Hash(l) \o Zeros(t - 1 - Len(m) - 2 * MdLen - 1) \o <<1>> \o m

(* Line 60: the message is too long for the modulus. *)
TooLarge(fl, t) == fl > (t - 1) - 2 * MdLen - 1

(* Line 65: the modulus is too short for the digest. *)
KeyTooSmall(t) == t - 1 < 2 * MdLen + 1

(* The conversion (unsigned int)flen of line 78. *)
UInt(x) == x % 2^UIntBits

(***************************************************************************)
(* The byte ranges <<first, last>> of to, 0-based, that lines 70-96 write  *)
(* for flen fl and tlen t once the checks of lines 60-68 let the call     *)
(* through: to[0] (70), lHash (74), PS, whose size_t length is            *)
(* emlen - fl - 2*mdlen - 1 (76), the 0x01 (77), the (unsigned int)fl     *)
(* bytes of the message (78), the seed (79, 95) and the masked DB (90).   *)
(***************************************************************************)
WriteRanges(fl, t) ==
  LET emlen == t - 1
      sep   == emlen - fl    \* offset of db[emlen - flen - mdlen - 1]
  IN  { <<0, 0>>, <<MdLen + 1, 2 * MdLen>>, <<2 * MdLen + 1, sep - 1>>,
        <<sep, sep>>, <<sep + 1, sep + UInt(fl)>>, <<1, MdLen>>,
        <<MdLen + 1, emlen>> }

(***************************************************************************)
(* The result of one call, as a record [ret, to, err], for message m,     *)
(* label l, output size t, random seed sd and failing call fault.  The    *)
(* buffer to is written in place, so a failure returns what it holds:     *)
(*   lines 60-68: the message does not fit (DATA_TOO_LARGE_FOR_KEY_SIZE), *)
(*                or the modulus is too short (KEY_SIZE_TOO_SMALL): to is *)
(*                untouched;                                              *)
(*   lines 70-75: to[0] = 0; EVP_Digest of the label fails: return 0;     *)
(*   lines 76-79: to = 0x00 || seed || DB with DB = lHash || PS || 0x01 || m*)
(*                in clear;                                               *)
(*   lines 82-86: malloc of dbmask fails: return 0;                       *)
(*   lines 88-91: db ^= MGF1(seed); MGF1 failing jumps to err, return 0;  *)
(*   lines 93-96: seed ^= MGF1(db); MGF1 failing jumps to err, return 0;  *)
(*   line  98:    return 1.                                               *)
(***************************************************************************)
OaepEncode(m, l, t, sd, fault) ==
  LET emlen    == t - 1
      db       == DataBlock(m, l, t)
      maskedDB == XorBytes(db, Mgf1(sd, emlen - MdLen))
      maskedSd == XorBytes(sd, Mgf1(maskedDB, MdLen))
      Fail(buf, e) == [ret |-> 0, to |-> buf, err |-> e]
  IN  CASE TooLarge(Len(m), t) ->
             Fail(OldTo(t), "RSA_R_DATA_TOO_LARGE_FOR_KEY_SIZE")
        [] KeyTooSmall(t) -> Fail(OldTo(t), "RSA_R_KEY_SIZE_TOO_SMALL")
        [] fault = "digest"      -> Fail(<<0>> \o Zeros(t - 1), "none")
        [] fault = "malloc"      -> Fail(<<0>> \o sd \o db, "ERR_R_MALLOC_FAILURE")
        [] fault = "mgf1_db"     -> Fail(<<0>> \o sd \o db, "none")
        [] fault = "mgf1_seed"   -> Fail(<<0>> \o sd \o maskedDB, "none")
        [] OTHER -> [ret |-> 1, to |-> <<0>> \o maskedSd \o maskedDB,
                     err |-> "none"]

(* One call of the function.  A call with a negative flen writes outside *)
(* to (EncodeWritesInBounds) and is not followed further.                *)
Encode(sd, fault) ==
  /\ pc = "call" /\ flen = Len(from)
  /\ LET r == OaepEncode(from, label, tlen, sd, fault)
     IN  to' = r.to /\ ret' = r.ret /\ err' = r.err
  /\ pc' = "done"
  /\ UNCHANGED <<from, flen, label, tlen>>

(* Entry to the function with its arguments. *)
Entry(m, fl, l, t) ==
  /\ pc = "call" /\ from = m /\ flen = fl /\ label = l /\ tlen = t
  /\ to = OldTo(t) /\ ret = 0 /\ err = "none"

Init ==
  \E m \in Msgs, l \in Labels, t \in TLens :
    \E fl \in {Len(m)} \cup BadFLens : Entry(m, fl, l, t)

Next == \E sd \in [1 .. MdLen -> Byte], fault \in Faults : Encode(sd, fault)

Spec == Init /\ [][Next]_vars

-----------------------------------------------------------------------------
(* spec.md 4.2 and 7: a modulus too short for the digest (tlen < 2*hLen+2) *)
(* is reported as KeySizeTooSmall, whatever the message; only a message   *)
(* too long for an adequate modulus is DataTooLargeForKeySize.  This is    *)
(* about the order of the two checks at lines 60 and 65.                  *)
EncodeErrorKind ==
  (pc = "done" /\ tlen < 2 * MdLen + 2) => err = "RSA_R_KEY_SIZE_TOO_SMALL"


(* The length checks of lines 60-68 keep every write of lines 70-96      *)
(* inside the tlen bytes of to, whatever int flen the caller passes (only *)
(* the decoder's negative flen is dealt with, in spec.md 4.3).            *)
EncodeWritesInBounds ==
  ~TooLarge(flen, tlen) /\ ~KeyTooSmall(tlen) =>
    \A w \in WriteRanges(flen, tlen) : w[1] > w[2] \/ (0 <= w[1] /\ w[2] < tlen)

=============================================================================
