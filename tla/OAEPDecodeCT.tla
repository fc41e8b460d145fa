---------------------------- MODULE OAEPDecodeCT ----------------------------
(***************************************************************************)
(* The timing of RSA_padding_check_PKCS1_OAEP_mgf1, by self-composition:  *)
(* two calls of the decoder with the same public arguments (modulus       *)
(* length, input length, label, output size) and different secret input   *)
(* bytes run in lock step, one basic block each per step.  A copy that    *)
(* has returned stays returned.  Library calls do not fail here: whether  *)
(* they fail does not depend on the input bytes.                          *)
(***************************************************************************)
EXTENDS Octets

CONSTANTS Labels, Nums, TLens, MaxFlen

VARIABLES
  pc1, from1, label1, tlen1, flen1, num1, bad1, lzero1, dblen1, buf1, seed1,
  phash1, i1, ret1, err1, to1, released1, libFailed1,
  pc2, from2, label2, tlen2, flen2, num2, bad2, lzero2, dblen2, buf2, seed2,
  phash2, i2, ret2, err2, to2, released2, libFailed2

D1 == INSTANCE OAEPDecode
        WITH LibMayFail <- FALSE, pc <- pc1, from <- from1, label <- label1,
             tlen <- tlen1, flen <- flen1, num <- num1, bad <- bad1,
             lzero <- lzero1, dblen <- dblen1, buf <- buf1, seed <- seed1,
             phash <- phash1, i <- i1, ret <- ret1, err <- err1, to <- to1,
             released <- released1, libFailed <- libFailed1

D2 == INSTANCE OAEPDecode
        WITH LibMayFail <- FALSE, pc <- pc2, from <- from2, label <- label2,
             tlen <- tlen2, flen <- flen2, num <- num2, bad <- bad2,
             lzero <- lzero2, dblen <- dblen2, buf <- buf2, seed <- seed2,
             phash <- phash2, i <- i2, ret <- ret2, err <- err2, to <- to2,
             released <- released2, libFailed <- libFailed2

vars1 == <<pc1, from1, label1, tlen1, flen1, num1, bad1, lzero1, dblen1,
           buf1, seed1, phash1, i1, ret1, err1, to1, released1, libFailed1>>
vars2 == <<pc2, from2, label2, tlen2, flen2, num2, bad2, lzero2, dblen2,
           buf2, seed2, phash2, i2, ret2, err2, to2, released2, libFailed2>>
vars == <<vars1, vars2>>

(* Both calls get the same public arguments and inputs of equal length. *)
Init ==
  \E n \in Nums, t \in TLens, l \in Labels, len \in 0 .. MaxFlen :
    \E f1, f2 \in [1 .. len -> Byte] :
      D1!Entry(f1, n, t, l) /\ D2!Entry(f2, n, t, l)

(* One copy takes its next step, or stays returned. *)
Step1 == D1!Next \/ (pc1 = "done" /\ UNCHANGED vars1)
Step2 == D2!Next \/ (pc2 = "done" /\ UNCHANGED vars2)

Next == Step1 /\ Step2 /\ ~(pc1 = "done" /\ pc2 = "done")

Spec == Init /\ [][Next]_vars

-----------------------------------------------------------------------------
(* The point where a copy's outcome is fixed: it has jumped to the error  *)
(* exit or returned.                                                       *)
Decided(pc) == pc \in {"decoding_err", "err", "done"}

(* spec.md 4.3 and 5, the constant-time policy: up to the final accept or *)
(* reject decision, the sequence of steps the decoder takes does not       *)
(* depend on the ciphertext bytes.  Two calls with equal public arguments  *)
(* reach their decision at the same step, and before it they are at the   *)
(* same point of the code.  This is about the early exit on the label-hash *)
(* comparison (rsa_oaep.c:188-189) and the scan that stops at the first    *)
(* non-zero byte (lines 191-195).                                          *)
SameTrace ==
  /\ Decided(pc1) <=> Decided(pc2)
  /\ ~Decided(pc1) => pc1 = pc2 /\ i1 = i2

=============================================================================
