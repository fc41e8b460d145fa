------------------------------- MODULE Octets -------------------------------
(***************************************************************************)
(* Octet strings and the hash collaborator shared by the OAEP modules.    *)
(*                                                                         *)
(* A byte is abstracted to ByteBits bits: the code only ever compares     *)
(* bytes with 0x00 and 0x01, XORs them and hashes them, so a narrow byte   *)
(* keeps every case while keeping the input space enumerable.  The hash   *)
(* (EVP_Digest with the chosen EVP_MD) is a constant operator that the MC  *)
(* module gives a concrete, deterministic definition.  The OAEP functions  *)
(* take two digests: md hashes the label, mgf1md drives MGF1.  A caller    *)
(* passing mgf1md = NULL, as the wrappers RSA_padding_add_PKCS1_OAEP and   *)
(* RSA_padding_check_PKCS1_OAEP do (rsa_oaep.c:36-40, 106-113), gets md    *)
(* for both (lines 55-56, 133-134): an instance with MgfHash = Hash.       *)
(*                                                                         *)
(* Mgf1 and EmeOaep are REFERENCE definitions written from RFC 8017 and   *)
(* spec.md sections 4.1-4.2, not from the code: the MGF1 module shows that *)
(* the PKCS1_MGF1 loop computes Mgf1, and the OAEP modules compare the    *)
(* decoder's results with EmeOaep.                                         *)
(***************************************************************************)
EXTENDS Integers, Sequences, SequencesExt, Bitwise

CONSTANTS
  ByteBits,   \* width of a modelled byte
  MdLen,      \* EVP_MD_size(md): the digest length hLen in bytes
  Hash(_),    \* EVP_Digest with md: an octet string to MdLen octets
  MgfLen,     \* EVP_MD_size(mgf1md)
  MgfHash(_)  \* EVP_Digest with mgf1md: an octet string to MgfLen octets

ASSUME ByteBits \in 1 .. 8 /\ MdLen \in Nat /\ MgfLen \in Nat

Byte == 0 .. (2^ByteBits - 1)

Zeros(n) == [k \in 1 .. n |-> 0]

\* Bytewise XOR of two octet strings of the same length.
XorBytes(a, b) == [k \in 1 .. Len(a) |-> a[k] ^^ b[k]]

\* I2OSP(x, n): the n-byte big-endian encoding of x (8-bit bytes).
I2OSP(x, n) == [k \in 1 .. n |-> (x \div 2^(8 * (n - k))) % 256]

\* The string s padded on the left with zero bytes to length n.
LeftPad(s, n) == Zeros(n - Len(s)) \o s

(***************************************************************************)
(* Reference MGF1 (RFC 8017 B.2.1, spec.md 4.1): the first len bytes of    *)
(* H(seed || I2OSP(0,4)) || H(seed || I2OSP(1,4)) || ... for the mask    *)
(* generation hash H = MgfHash.                                           *)
(***************************************************************************)
Mgf1(seed, len) ==
  LET blocks == IF MgfLen = 0 THEN 0 ELSE (len + MgfLen - 1) \div MgfLen
  IN  SubSeq(FlattenSeq([c \in 1 .. blocks |-> MgfHash(seed \o I2OSP(c - 1, 4))]),
             1, len)

(***************************************************************************)
(* Reference EME-OAEP encoding (RFC 8017 7.1.1, spec.md 4.2) of message m  *)
(* under label l with random seed sd into a k-byte block.                  *)
(***************************************************************************)
EmeOaep(m, l, sd, k) ==
  LET db       == Hash(l) \o Zeros(k - Len(m) - 2 * MdLen - 2) \o <<1>> \o m
      maskedDB == XorBytes(db, Mgf1(sd, k - MdLen - 1))
      maskedSd == XorBytes(sd, Mgf1(maskedDB, MdLen))
  IN  <<0>> \o maskedSd \o maskedDB

(***************************************************************************)
(* Reference EME-OAEP decoding (RFC 8017 7.1.2 step 3, spec.md 4.3) of a   *)
(* k-byte block em under label l: the set of messages it encodes, {} when *)
(* Y /= 0, lHash' /= lHash or no 0x01 ends the padding, else {M}.          *)
(***************************************************************************)
EmeOaepDecode(em, l, k) ==
  LET maskedSd == SubSeq(em, 2, MdLen + 1)
      maskedDB == SubSeq(em, MdLen + 2, k)
      sd       == XorBytes(maskedSd, Mgf1(maskedDB, MdLen))
      db       == XorBytes(maskedDB, Mgf1(sd, k - MdLen - 1))
      ps1m     == SubSeq(db, MdLen + 1, Len(db))
      Ends(j)  == ps1m[j] = 1 /\ \A q \in 1 .. j - 1 : ps1m[q] = 0
  IN  IF em[1] /= 0 \/ SubSeq(db, 1, MdLen) /= Hash(l) THEN {}
      ELSE { SubSeq(ps1m, j + 1, Len(ps1m)) : j \in { j \in DOMAIN ps1m : Ends(j) } }

=============================================================================
