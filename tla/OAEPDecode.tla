----------------------------- MODULE OAEPDecode -----------------------------
(***************************************************************************)
(* RSA_padding_check_PKCS1_OAEP_mgf1 (src/.../rsa/rsa_oaep.c:116-219), one *)
(* action per basic block of the function, in the order the code runs     *)
(* them.  The caller passes `from` (flen bytes, the RSA output with its   *)
(* leading zeros stripped), the modulus length `num`, the output buffer   *)
(* size `tlen` and the label `param`.                                     *)
(*                                                                         *)
(* The heap block `db = malloc(dblen + num)` is the variable buf: its     *)
(* first dblen bytes are DB and the remaining num bytes are padded_from.   *)
(* The stack arrays seed[] and phash[] are variables of their own.  The   *)
(* library calls that can fail (malloc, the digests inside PKCS1_MGF1 and  *)
(* EVP_Digest) fail nondeterministically when LibMayFail is TRUE.         *)
(***************************************************************************)
EXTENDS Octets

CONSTANTS
  Labels,      \* the labels (param, plen) callers pass
  Nums,        \* modulus lengths num
  TLens,       \* output buffer sizes tlen
  MaxFlen,     \* longest input from the environment
  LibMayFail   \* whether malloc and digest calls may fail

ASSUME LibMayFail \in BOOLEAN /\ MdLen > 0

VARIABLES
  pc,        \* the point of the function reached
  from,      \* input buffer (its length is the caller's flen)
  label,     \* param
  tlen,      \* size of the output buffer `to`
  flen,      \* local copy of flen, clamped on the bad path
  num,       \* num, decremented on entry
  bad,       \* the deferred error flag
  lzero,     \* number of leading zeros to restore
  dblen,     \* num - mdlen
  buf,       \* the malloc'd block: DB followed by padded_from
  seed,      \* stack array seed[]
  phash,     \* stack array phash[]
  i,         \* scan index into DB (0-based, as in the code)
  ret,       \* return value: mlen or -1
  err,       \* the error queued with RSAerror, "none" if none
  to,        \* bytes written to the output buffer
  released,  \* contents of the heap block when it was freed
  libFailed  \* history: a library call failed during the call

vars == <<pc, from, label, tlen, flen, num, bad, lzero, dblen, buf, seed,
          phash, i, ret, err, to, released, libFailed>>


(* Views of the heap block, with the code's names. *)
DB         == SubSeq(buf, 1, dblen)
PaddedFrom == SubSeq(buf, dblen + 1, Len(buf))
MaskedDB   == SubSeq(PaddedFrom, MdLen + 1, Len(PaddedFrom))
DBAt(k)    == buf[k + 1]          \* db[k] for a 0-based k

\* freezero(db, dblen): the first dblen bytes are cleared, then freed.
FreeZero == [k \in 1 .. Len(buf) |-> IF k <= dblen THEN 0 ELSE buf[k]]

Goto(p) == pc' = p

-----------------------------------------------------------------------------
(* Entry to the function with its arguments (lines 116-136): each       *)
(* behaviour of this module is one call, which ends when it returns.      *)
Entry(f, n, t, l) ==
  /\ pc = "check"
  /\ from = f /\ flen = Len(f) /\ num = n /\ tlen = t /\ label = l
  /\ bad = 0 /\ lzero = 0 /\ dblen = 0 /\ buf = <<>> /\ i = 0
  /\ seed = <<>> /\ phash = <<>>
  /\ ret = -1 /\ err = "none" /\ to = <<>> /\ released = <<>>
  /\ libFailed = FALSE

(* The same entry as a step, for a caller that composes this module. *)
Call(f, n, t, l) ==
  /\ pc' = "check"
  /\ from' = f /\ flen' = Len(f) /\ num' = n /\ tlen' = t /\ label' = l
  /\ bad' = 0 /\ lzero' = 0 /\ dblen' = 0 /\ buf' = <<>> /\ i' = 0
  /\ seed' = <<>> /\ phash' = <<>>
  /\ ret' = -1 /\ err' = "none" /\ to' = <<>> /\ released' = <<>>
  /\ libFailed' = FALSE

(* Lines 138-143: the modulus is too short for the digest. *)
CheckNumTooSmall ==
  /\ pc = "check"
  /\ num - 1 < 2 * MdLen + 1
  /\ num' = num - 1
  /\ Goto("decoding_err")
  /\ UNCHANGED <<from, label, tlen, flen, bad, lzero, dblen, buf, seed, phash,
                 i, ret, err, to, released, libFailed>>

(* Mutant of CheckNum: an input as long as the block (lzero = 0) is        *)
(* taken for one that is too long.                                         *)
CheckNumFullTooLong ==
  /\ pc = "check"
  /\ num - 1 >= 2 * MdLen + 1
  /\ LET n == num - 1 IN
       /\ num' = n
       /\ IF n - flen <= 0
            THEN bad' = 1 /\ lzero' = 0 /\ flen' = n
            ELSE lzero' = n - flen /\ UNCHANGED <<bad, flen, libFailed>>
  /\ Goto("alloc")
  /\ UNCHANGED <<from, label, tlen, dblen, buf, seed, phash, i, ret, err, to,
                 released, libFailed>>

(* Lines 138-157: lzero = num - flen; a too long input sets bad. *)
CheckNum ==
  /\ pc = "check"
  /\ num - 1 >= 2 * MdLen + 1
  /\ LET n == num - 1 IN
       /\ num' = n
       /\ IF n - flen < 0
            THEN bad' = 1 /\ lzero' = 0 /\ flen' = n
            ELSE lzero' = n - flen /\ UNCHANGED <<bad, flen, libFailed>>
  /\ Goto("alloc")
  /\ UNCHANGED <<from, label, tlen, dblen, buf, seed, phash, i, ret, err, to,
                 released, libFailed>>

(* Lines 159-163: malloc fails; return -1 without freeing anything. *)
AllocFail ==
  /\ pc = "alloc" /\ LibMayFail /\ libFailed' = TRUE
  /\ dblen' = num - MdLen
  /\ err' = "ERR_R_MALLOC_FAILURE" /\ ret' = -1
  /\ Goto("done")
  /\ UNCHANGED <<from, label, tlen, flen, num, bad, lzero, buf, seed, phash,
                 i, to, released>>

(* Lines 159-173: allocate, then always zero-pad the input into          *)
(* padded_from.  DB is overwritten by MGF1 before it is read.             *)
Alloc ==
  /\ pc = "alloc"
  /\ dblen' = num - MdLen
  /\ buf' = Zeros(num - MdLen) \o Zeros(lzero) \o SubSeq(from, 1, flen)
  /\ Goto("mgf_seed")
  /\ UNCHANGED <<from, label, tlen, flen, num, bad, lzero, seed, phash, i,
                 ret, err, to, released, libFailed>>

(* Lines 175-178: seed = MGF1(maskeddb, mdlen) XOR maskedSeed. *)
MaskSeed ==
  /\ pc = "mgf_seed"
  /\ seed' = XorBytes(Mgf1(MaskedDB, MdLen), SubSeq(PaddedFrom, 1, MdLen))
  /\ Goto("mgf_db")
  /\ UNCHANGED <<from, label, tlen, flen, num, bad, lzero, dblen, buf, phash,
                 i, ret, err, to, released, libFailed>>

(* Lines 180-183: DB = MGF1(seed, dblen) XOR maskedDB. *)
MaskDB ==
  /\ pc = "mgf_db"
  /\ buf' = XorBytes(Mgf1(seed, dblen), MaskedDB) \o PaddedFrom
  /\ Goto("hash")
  /\ UNCHANGED <<from, label, tlen, flen, num, bad, lzero, dblen, seed, phash,
                 i, ret, err, to, released, libFailed>>

(* Lines 175-176, 180-181 and 185-186: a digest inside PKCS1_MGF1 or      *)
(* EVP_Digest fails and the function jumps to err.                        *)
DigestFail ==
  /\ pc \in {"mgf_seed", "mgf_db", "hash"} /\ LibMayFail
  /\ libFailed' = TRUE
  /\ Goto("err")
  /\ UNCHANGED <<from, label, tlen, flen, num, bad, lzero, dblen, buf, seed,
                 phash, i, ret, err, to, released>>

(* Lines 185-186: phash = Hash(param). *)
HashLabel ==
  /\ pc = "hash"
  /\ phash' = Hash(label)
  /\ Goto("compare")
  /\ UNCHANGED <<from, label, tlen, flen, num, bad, lzero, dblen, buf, seed,
                 i, ret, err, to, released, libFailed>>

(* Lines 188-189: the label hash differs or bad is set. *)
CompareFail ==
  /\ pc = "compare"
  /\ SubSeq(DB, 1, MdLen) /= phash \/ bad /= 0
  /\ Goto("decoding_err")
  /\ UNCHANGED <<from, label, tlen, flen, num, bad, lzero, dblen, buf, seed,
                 phash, i, ret, err, to, released, libFailed>>

(* Mutant of CompareOk: the label hash is not compared. *)
CompareOkIgnoringLabel ==
  /\ pc = "compare"
  /\ bad = 0
  /\ i' = MdLen
  /\ Goto("scan")
  /\ UNCHANGED <<from, label, tlen, flen, num, bad, lzero, dblen, buf, seed,
                 phash, ret, err, to, released, libFailed>>

(* Lines 188-191: both checks pass; the scan starts at i = mdlen. *)
CompareOk ==
  /\ pc = "compare"
  /\ SubSeq(DB, 1, MdLen) = phash /\ bad = 0
  /\ i' = MdLen
  /\ Goto("scan")
  /\ UNCHANGED <<from, label, tlen, flen, num, bad, lzero, dblen, buf, seed,
                 phash, ret, err, to, released, libFailed>>

(* Mutant of ScanZero: the loop bound i < dblen is dropped. *)
ScanZeroUnbounded ==
  /\ pc = "scan"
  /\ DBAt(i) = 0
  /\ i' = i + 1
  /\ UNCHANGED <<pc, from, label, tlen, flen, num, bad, lzero, dblen, buf,
                 seed, phash, ret, err, to, released, libFailed>>

(* Lines 191-193: one iteration of the scan over the zero padding. *)
ScanZero ==
  /\ pc = "scan"
  /\ i < dblen /\ DBAt(i) = 0
  /\ i' = i + 1
  /\ UNCHANGED <<pc, from, label, tlen, flen, num, bad, lzero, dblen, buf,
                 seed, phash, ret, err, to, released, libFailed>>

(* Line 194: the scan ran off the end or stopped on a byte other than 1. *)
NoSeparator ==
  /\ pc = "scan"
  /\ i = dblen \/ DBAt(i) \notin {0, 1}
  /\ Goto("decoding_err")
  /\ UNCHANGED <<from, label, tlen, flen, num, bad, lzero, dblen, buf, seed,
                 phash, i, ret, err, to, released, libFailed>>

(* Mutant of Separator: mlen = dblen - i, without the pre-increment. *)
SeparatorOffByOne ==
  /\ pc = "scan"
  /\ i < dblen /\ DBAt(i) = 1
  /\ LET mlen == dblen - i
     IN  /\ UNCHANGED i
         /\ IF tlen < mlen
              THEN ret' = -1 /\ err' = "RSA_R_DATA_TOO_LARGE" /\ UNCHANGED to
              ELSE ret' = mlen /\ to' = SubSeq(DB, i + 1, dblen)
                   /\ UNCHANGED err
  /\ released' = FreeZero
  /\ Goto("done")
  /\ UNCHANGED <<from, label, tlen, flen, num, bad, lzero, dblen, buf, seed,
                 phash, libFailed>>

(* Lines 194-208: the separator is found; mlen = dblen - ++i; the message *)
(* is copied if it fits in tlen, and the block is freed with freezero.    *)
Separator ==
  /\ pc = "scan"
  /\ i < dblen /\ DBAt(i) = 1
  /\ LET j == i + 1
         mlen == dblen - j
     IN  /\ i' = j
         /\ IF tlen < mlen
              THEN ret' = -1 /\ err' = "RSA_R_DATA_TOO_LARGE" /\ UNCHANGED to
              ELSE ret' = mlen /\ to' = SubSeq(DB, j + 1, dblen)
                   /\ UNCHANGED err
  /\ released' = FreeZero
  /\ Goto("done")
  /\ UNCHANGED <<from, label, tlen, flen, num, bad, lzero, dblen, buf, seed,
                 phash, libFailed>>

(* Lines 210-218: decoding_err queues the one decoding error, then falls  *)
(* through to err.                                                        *)
DecodingErr ==
  /\ pc = "decoding_err"
  /\ err' = "RSA_R_OAEP_DECODING_ERROR"
  /\ Goto("err")
  /\ UNCHANGED <<from, label, tlen, flen, num, bad, lzero, dblen, buf, seed,
                 phash, i, ret, to, released, libFailed>>

(* Lines 216-218: err frees the block with freezero and returns -1. *)
Err ==
  /\ pc = "err"
  /\ released' = FreeZero /\ ret' = -1
  /\ Goto("done")
  /\ UNCHANGED <<from, label, tlen, flen, num, bad, lzero, dblen, buf, seed,
                 phash, i, err, to, libFailed>>

-----------------------------------------------------------------------------
(* The caller passes any input of up to MaxFlen bytes: an adversary      *)
(* chooses the ciphertext.                                                *)
Init ==
  \E f \in BoundedSeq(Byte, MaxFlen), n \in Nums, t \in TLens, l \in Labels :
    Entry(f, n, t, l)

Next ==
  \/ CheckNumTooSmall \/ CheckNum \/ AllocFail \/ Alloc \/ MaskSeed
  \/ MaskDB \/ DigestFail \/ HashLabel \/ CompareFail \/ CompareOk
  \/ ScanZero \/ NoSeparator \/ Separator \/ DecodingErr \/ Err

(* The function runs to completion on the calling thread. *)
Spec == Init /\ [][Next]_vars /\ WF_vars(Next)

-----------------------------------------------------------------------------
TypeOK ==
  /\ pc \in {"check", "alloc", "mgf_seed", "mgf_db", "hash", "compare",
             "scan", "decoding_err", "err", "done"}
  /\ from \in Seq(Byte) /\ label \in Labels /\ tlen \in TLens
  /\ flen \in 0 .. MaxFlen /\ bad \in {0, 1} /\ lzero \in Nat
  /\ buf \in Seq(Byte) /\ (buf = <<>> \/ Len(buf) = dblen + num)
  /\ seed \in Seq(Byte) /\ phash \in Seq(Byte)
  /\ i \in 0 .. dblen /\ ret \in -1 .. dblen
  /\ err \in {"none", "ERR_R_MALLOC_FAILURE", "RSA_R_DATA_TOO_LARGE",
              "RSA_R_OAEP_DECODING_ERROR"}
  /\ to \in Seq(Byte) /\ released \in Seq(Byte) /\ libFailed \in BOOLEAN

(* spec.md 5: every buffer that held the seed or DB is zeroed before it   *)
(* is released.  When the function returns, the heap block it freed and   *)
(* the stack array seed[] hold no byte of the decrypted block.            *)
ReleasedZeroed ==
  pc = "done" =>
    /\ \A k \in DOMAIN released : released[k] = 0
    /\ \A k \in DOMAIN seed : seed[k] = 0

-----------------------------------------------------------------------------
(***************************************************************************)
(* The refinement mapping to OAEPDecodeAbstract: the call has returned    *)
(* when pc is "done"; k is the modulus length the caller passed, before   *)
(* the decrement of line 138; the error queued is visible once the call  *)
(* has returned; the abstract failure is the history variable libFailed, *)
(* which only malloc and digest failures set.                             *)
(***************************************************************************)
Abs == INSTANCE OAEPDecodeAbstract
         WITH Inputs <- Seq(Byte),
              pc <- IF pc = "done" THEN "done" ELSE "call",
              k <- IF pc = "check" THEN num ELSE num + 1,
              err <- IF pc = "done" THEN err ELSE "none",
              failed <- libFailed

(* The decoder implements spec.md 4.3: every call returns, and for every  *)
(* input an adversary can choose, it returns the message exactly when the *)
(* input is a valid encoding under the caller's label (the lzero padding, *)
(* the bad flag and the separator scan of lines 145-199 reject no valid   *)
(* encoding and accept no other input), with DATA_TOO_LARGE only for a    *)
(* valid message that does not fit and one decoding error otherwise.     *)
Implements == Abs!Spec

=============================================================================
