-------------------------------- MODULE MGF1 --------------------------------
(***************************************************************************)
(* PKCS1_MGF1 (src/.../rsa/rsa_oaep.c:221-260): one action per iteration   *)
(* of the loop that hashes seed || cnt for cnt = 0, 1, ... and appends     *)
(* the digest, or the part of it that still fits, to the mask.  The       *)
(* digest dgst is mgf1md: MgfHash, of length MgfLen; its calls may fail. *)
(***************************************************************************)
EXTENDS Octets

CONSTANTS
  Seeds,        \* seeds callers pass
  Lens,         \* mask lengths len callers ask for
  MaxCounter,   \* bound on the counter i, which only an endless loop reaches
  LibMayFail

ASSUME LibMayFail \in BOOLEAN /\ MaxCounter \in Nat

VARIABLES
  pc,       \* "loop" while in the for loop, "done" after return
  seed,     \* seed, seedlen
  len,      \* len
  i,        \* the counter i
  outlen,   \* bytes of mask written
  mask,     \* the mask buffer, as far as written
  rv        \* return value: 0 or -1

vars == <<pc, seed, len, i, outlen, mask, rv>>

(* Mutant of Cnt: the counter is encoded least significant byte first. *)
CntLittleEndian(c) == << c % 256, (c \div 2^8) % 256, (c \div 2^16) % 256,
                        (c \div 2^24) % 256 >>

(* Lines 237-240: cnt[], the counter i as four bytes, most significant   *)
(* first; (i >> s) & 255 is (i div 2^s) mod 256 for the counter i >= 0.  *)
Cnt(c) == << (c \div 2^24) % 256, (c \div 2^16) % 256, (c \div 2^8) % 256,
             c % 256 >>

(* Mutant of Block: the counter is encoded one too high. *)
BlockFromOne(c) == MgfHash(seed \o Cnt(c + 1))

(* Lines 241-246: the digest of seed || cnt for counter value c. *)
Block(c) == MgfHash(seed \o Cnt(c))

-----------------------------------------------------------------------------
(* Lines 232-236: entry; mdlen = EVP_MD_size(dgst) is MgfLen >= 0, so the *)
(* mdlen < 0 exit is not taken.                                           *)
Entry(s, l) ==
  /\ pc = "loop" /\ seed = s /\ len = l
  /\ i = 0 /\ outlen = 0 /\ mask = <<>> /\ rv = -1

(* Lines 245-248: a whole digest fits and is appended. *)
FullBlock ==
  /\ pc = "loop" /\ outlen < len /\ i < MaxCounter
  /\ outlen + MgfLen <= len
  /\ mask' = mask \o Block(i)
  /\ outlen' = outlen + MgfLen
  /\ i' = i + 1
  /\ UNCHANGED <<pc, seed, len, rv>>

(* Mutant of PartialBlock: the whole digest is copied, past len. *)
PartialBlockOverrun ==
  /\ pc = "loop" /\ outlen < len /\ i < MaxCounter
  /\ outlen + MgfLen > len
  /\ mask' = mask \o Block(i)
  /\ outlen' = outlen + MgfLen
  /\ i' = i + 1
  /\ UNCHANGED <<pc, seed, len, rv>>

(* Lines 249-254: only the first len - outlen bytes of the digest fit. *)
PartialBlock ==
  /\ pc = "loop" /\ outlen < len /\ i < MaxCounter
  /\ outlen + MgfLen > len
  /\ mask' = mask \o SubSeq(Block(i), 1, len - outlen)
  /\ outlen' = len
  /\ i' = i + 1
  /\ UNCHANGED <<pc, seed, len, rv>>

(* Lines 241-244, 246-247, 250-251, 257-259: a digest call fails; the     *)
(* context is cleaned up and -1 returned.                                 *)
DigestFail ==
  /\ pc = "loop" /\ outlen < len /\ LibMayFail
  /\ pc' = "done" /\ rv' = -1
  /\ UNCHANGED <<seed, len, i, outlen, mask>>

(* Lines 236 and 256-259: the loop ends when outlen reaches len. *)
Return ==
  /\ pc = "loop" /\ outlen >= len
  /\ pc' = "done" /\ rv' = 0
  /\ UNCHANGED <<seed, len, i, outlen, mask>>

Init == \E s \in Seeds, l \in Lens : Entry(s, l)

Next == FullBlock \/ PartialBlock \/ DigestFail \/ Return

(* The call runs to completion on the calling thread. *)
Spec == Init /\ [][Next]_vars /\ WF_vars(Next)

-----------------------------------------------------------------------------
TypeOK ==
  /\ pc \in {"loop", "done"} /\ seed \in Seeds /\ len \in Lens
  /\ i \in 0 .. MaxCounter /\ outlen \in 0 .. len
  /\ mask \in Seq(Byte) /\ rv \in {-1, 0}

(* The loop implements MGF1Abstract: the abstract call is busy until the   *)
(* loop returns, and the mask it returns with 0 is the detailed one.     *)
Abs == INSTANCE MGF1Abstract
         WITH pc <- IF pc = "done" THEN "done" ELSE "busy",
              mask <- IF pc = "done" /\ rv = 0 THEN mask ELSE <<>>

(* Refinement: every behaviour of the loop is a behaviour of the abstract *)
(* call, so a successful return always carries exactly Mgf1(seed, len):    *)
(* the counter encoding of lines 237-240 and the truncation of the last    *)
(* block in lines 245-253 are right for every length.                     *)
Implements == Abs!Spec

=============================================================================
