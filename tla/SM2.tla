-------------------------------- MODULE SM2 ---------------------------------
(***************************************************************************)
(* SM2 signing and verification (src/.../sm2/sm2_sign.c).  A behaviour is  *)
(* one call, with a key pair (dA, PA = [dA]G), of                          *)
(*   SM2_sign(dgst) (lines 361-393), which runs SM2_sig_gen (82-219): one  *)
(*     action per block of its rejection loop, the random k an input of    *)
(*     the draw; or                                                        *)
(*   SM2_verify(dgst, sig) (lines 395-434), which parses and re-encodes    *)
(*     the DER signature and runs SM2_sig_verify (221-318): straight-line  *)
(*     code with early returns, so one action.                             *)
(* The DER signature is abstracted to the pair it parses to and the kind   *)
(* of its encoding.                                                        *)
(* Library calls (malloc, BN, EC, RNG) fail nondeterministically when     *)
(* LibMayFail is TRUE; the ghost variable libFailed records that one did.  *)
(***************************************************************************)
EXTENDS Integers, Sequences, SequencesExt, ECGroup

CONSTANTS
  Keys,        \* private keys dA
  Dgsts,       \* digests passed to SM2_sign and SM2_verify, as octets
  Scalars,     \* the values r and s of the signatures verified
  LibMayFail

ASSUME Keys \subseteq 1 .. N - 1 /\ LibMayFail \in BOOLEAN

(* The null ECDSA_SIG pointer. *)
NULL == <<>>

(* The signatures SM2_verify is given: the pair (r, s) an encoding parses *)
(* to and whether it is the canonical DER one ("der"), another parsable   *)
(* one ("ber": long lengths, trailing bytes), or does not parse at all.   *)
EncodedSigs ==
  [r : Scalars, s : Scalars, enc : {"der", "ber"}]
    \cup {[r |-> 0, s |-> 0, enc |-> "garbage"]}

VARIABLES
  call,       \* "sign" or "verify"
  pc,         \* the point of the call reached
  dA,         \* the private key
  dgst,       \* dgst
  insig,      \* the signature passed to SM2_verify
  e,          \* e = BN_bin2bn(dgst)
  k,          \* the random k
  r, s,       \* the signature halves being computed
  sig,        \* the ECDSA_SIG returned by SM2_sig_gen: NULL or <<r, s>>
  ret,        \* return value of SM2_sign / SM2_verify
  err,        \* the last error queued with SM2error
  libFailed,  \* ghost: a library call failed during the call
  heap        \* the objects of the signing path: Objs -> HeapStates

vars == <<call, pc, dA, dgst, insig, e, k, r, s, sig, ret, err, libFailed, heap>>

PA == Mul(dA, G)

(* BN_bin2bn: the big-endian integer the octets encode. *)
Bin2Bn(d) == FoldLeft(LAMBDA acc, b : acc * 256 + b, 0, d)

(* Inverse modulo the prime group order (BN_mod_inverse). *)
OrderInv(a) == PowMod(a % N, N - 2, N)

-----------------------------------------------------------------------------
(* Mutant of SigVerify: the t = 0 check of line 291 is missing. *)
SigVerifyNoT0(pub, ev, rv, sv) ==
  LET t == (rv + sv) % N
      pt == Add(Mul(sv, G), Mul(t, pub))
  IN  CASE rv < 1 \/ sv < 1   -> 0
        [] N <= rv \/ N <= sv -> 0
        [] IsInfinity(pt)     -> 0
        [] OTHER              -> IF rv = (ev + AffineX(pt)) % N THEN 1 ELSE 0

(***************************************************************************)
(* SM2_sig_verify (lines 221-318) with public key pub, digest value ev and *)
(* signature (rv, sv), when no library call fails:                        *)
(*   276-284: r and s must lie in [1, n-1];                                *)
(*   286-294: t = (r + s) mod n must not be 0;                             *)
(*   296-304: pt = [s]G + [t]PA; its affine x fails at infinity;          *)
(*   306-312: accept iff r = (e + x1) mod n.                               *)
(***************************************************************************)
SigVerify(pub, ev, rv, sv) ==
  LET t == (rv + sv) % N
      pt == Add(Mul(sv, G), Mul(t, pub))
  IN  CASE rv < 1 \/ sv < 1   -> 0
        [] N <= rv \/ N <= sv -> 0
        [] t = 0              -> 0
        [] IsInfinity(pt)     -> 0
        [] OTHER              -> IF rv = (ev + AffineX(pt)) % N THEN 1 ELSE 0

Goto(p) == pc' = p

(***************************************************************************)
(* The heap objects of the signing path: the BIGNUM e of SM2_sign, the    *)
(* order, kG, ctx, r and s of SM2_sig_gen, and the ECDSA_SIG.  An object  *)
(* is "none" while its pointer is NULL, "live" once allocated, "freed"   *)
(* after one free and "twice" after a second.  The BIGNUMs k, rk, x1 and  *)
(* tmp belong to ctx and go with it.                                      *)
(***************************************************************************)
Objs == {"e", "order", "kG", "ctx", "r", "s", "sig"}
HeapStates == {"none", "live", "freed", "twice"}

Allocate(h, S) == [o \in Objs |-> IF o \in S THEN "live" ELSE h[o]]

(* BN_free, EC_POINT_free, BN_CTX_free and ECDSA_SIG_free: no-ops on NULL. *)
Release(h, S) ==
  [o \in Objs |-> IF o \notin S \/ h[o] = "none" THEN h[o]
                  ELSE IF h[o] = "live" THEN "freed" ELSE "twice"]

(* What SM2_sig_gen's setup (lines 99-141) has allocated when one of its  *)
(* calls fails: order, kG, ctx, then r and s in either order.             *)
SetupPartial ==
  {{}, {"order"}, {"order", "kG"}, {"order", "kG", "ctx"},
   {"order", "kG", "ctx", "r"}, {"order", "kG", "ctx", "s"}}

(* Mutant of SigGenCleanup: r and s are freed even when sig owns them. *)
SigGenCleanupUnconditional(h) == Release(h, {"r", "s", "order", "ctx", "kG"})

(* SM2_sig_gen's done label (lines 209-217): r and s are freed only when *)
(* no signature took ownership of them.                                  *)
SigGenCleanup(h) ==
  Release(Release(h, IF sig = NULL THEN {"r", "s"} ELSE {}),
          {"order", "ctx", "kG"})

(* SM2_sign's done label (lines 389-391): ECDSA_SIG_free frees the       *)
(* signature with the r and s it owns, then e is freed.                   *)
SignCleanup(h) ==
  Release(h, IF sig = NULL THEN {"e"} ELSE {"sig", "r", "s", "e"})

-----------------------------------------------------------------------------
(* SM2_sign entry (lines 361-373): e = BN_bin2bn(dgst). *)
SignBin2Bn ==
  /\ pc = "sign"
  /\ e' = Bin2Bn(dgst)
  /\ heap' = Allocate(heap, {"e"})
  /\ Goto("gen_setup")
  /\ UNCHANGED <<call, dA, dgst, insig, k, r, s, sig, ret, err, libFailed>>

(* SM2_sig_gen lines 99-141: order, kG, ctx and the halves r, s allocated. *)
GenSetup ==
  /\ pc = "gen_setup"
  /\ heap' = Allocate(heap, {"order", "kG", "ctx", "r", "s"})
  /\ Goto("draw")
  /\ UNCHANGED <<call, dA, dgst, insig, e, k, r, s, sig, ret, err, libFailed>>

(* Lines 143-147: k = BN_rand_range(order), uniform in [0, n-1]. *)
DrawK(kv) ==
  /\ pc = "draw"
  /\ k' = kv
  /\ Goto("mul")
  /\ UNCHANGED <<call, dA, dgst, insig, e, r, s, sig, ret, err, libFailed, heap>>

(* Lines 149-157: [k]G is the point at infinity (k = 0), whose affine      *)
(* coordinates EC_POINT_get_affine_coordinates_GFp cannot produce.        *)
AffineAtInfinity ==
  /\ pc = "mul"
  /\ IsInfinity(Mul(k, G))
  /\ err' = "ERR_R_EC_LIB"
  /\ Goto("gen_done")
  /\ UNCHANGED <<call, dA, dgst, insig, e, k, r, s, sig, ret, libFailed, heap>>

(* Mutant of ComputeR: the digest is left out of r. *)
ComputeRNoDigest ==
  /\ pc = "mul"
  /\ ~IsInfinity(Mul(k, G))
  /\ r' = AffineX(Mul(k, G)) % N
  /\ Goto("check")
  /\ UNCHANGED <<call, dA, dgst, insig, e, k, s, sig, ret, err, libFailed, heap>>

(* Lines 149-162: x1 = affine x of [k]G; r = (e + x1) mod n. *)
ComputeR ==
  /\ pc = "mul"
  /\ ~IsInfinity(Mul(k, G))
  /\ r' = (e + AffineX(Mul(k, G))) % N
  /\ Goto("check")
  /\ UNCHANGED <<call, dA, dgst, insig, e, k, s, sig, ret, err, libFailed, heap>>

(* Lines 164-166: r = 0; draw again. *)
RetryRZero ==
  /\ pc = "check"
  /\ r = 0
  /\ Goto("draw")
  /\ UNCHANGED <<call, dA, dgst, insig, e, k, r, s, sig, ret, err, libFailed, heap>>

(* Lines 168-171: r + k = n; draw again. *)
RetryRK ==
  /\ pc = "check"
  /\ r /= 0 /\ r + k = N
  /\ Goto("draw")
  /\ UNCHANGED <<call, dA, dgst, insig, e, k, r, s, sig, ret, err, libFailed, heap>>

(* Lines 168-176: neither degenerate case; go on to s. *)
Proceed ==
  /\ pc = "check"
  /\ r /= 0 /\ r + k /= N
  /\ Goto("sign_s")
  /\ UNCHANGED <<call, dA, dgst, insig, e, k, r, s, sig, ret, err, libFailed, heap>>

(* Lines 173-181: 1 + dA has no inverse mod n (dA = n - 1). *)
InverseFail ==
  /\ pc = "sign_s"
  /\ (dA + 1) % N = 0
  /\ err' = "ERR_R_BN_LIB"
  /\ Goto("gen_done")
  /\ UNCHANGED <<call, dA, dgst, insig, e, k, r, s, sig, ret, libFailed, heap>>

(* Mutant of ComputeS: the last product is not reduced mod n. *)
ComputeSUnreduced ==
  /\ pc = "sign_s"
  /\ (dA + 1) % N /= 0
  /\ s' = OrderInv(dA + 1) * ((k - ((dA * r) % N)) % N)
  /\ Goto("new_sig")
  /\ UNCHANGED <<call, dA, dgst, insig, e, k, r, sig, ret, err, libFailed, heap>>

(* Lines 173-196: s = (1 + dA)^-1 * (k - r*dA) mod n.  There is no check  *)
(* that s is non-zero.                                                    *)
ComputeS ==
  /\ pc = "sign_s"
  /\ (dA + 1) % N /= 0
  /\ s' = (OrderInv(dA + 1) * (k - ((dA * r) % N))) % N
  /\ Goto("new_sig")
  /\ UNCHANGED <<call, dA, dgst, insig, e, k, r, sig, ret, err, libFailed, heap>>

(* Lines 198-206: the signature takes ownership of r and s. *)
NewSig ==
  /\ pc = "new_sig"
  /\ sig' = <<r, s>>
  /\ heap' = Allocate(heap, {"sig"})
  /\ Goto("gen_done")
  /\ UNCHANGED <<call, dA, dgst, insig, e, k, r, s, ret, err, libFailed>>

(* SM2_sig_gen lines 209-218 clean up and return sig; SM2_sign lines      *)
(* 375-392 encode it with i2d_ECDSA_SIG and return 1, or return -1 when   *)
(* sig is NULL, and free the signature and e.                             *)
SignReturn ==
  /\ pc = "gen_done"
  /\ ret' = IF sig = NULL THEN -1 ELSE 1
  /\ heap' = SignCleanup(SigGenCleanup(heap))
  /\ Goto("done")
  /\ UNCHANGED <<call, dA, dgst, insig, e, k, r, s, sig, err, libFailed>>

(* A library call of the signing path fails: BN_bin2bn (369-373), an      *)
(* allocation of sig_gen (99-141), the RNG (144-147), the EC and BN calls  *)
(* (149-196), ECDSA_SIG_new (198-202) or i2d_ECDSA_SIG (380-384).  Inside  *)
(* SM2_sig_gen the error leads to done with sig NULL.                      *)
SignLibFail ==
  /\ LibMayFail
  /\ pc \in {"sign", "gen_setup", "draw", "mul", "sign_s", "new_sig",
             "gen_done"}
  /\ pc = "gen_done" => sig /= NULL
  /\ libFailed' = TRUE
  /\ err' = CASE pc = "draw" -> "SM2_R_RANDOM_NUMBER_GENERATION_FAILED"
              [] pc = "gen_done" -> "SM2_R_ASN1_ERROR"
              [] OTHER -> "ERR_R_MALLOC_FAILURE"
  /\ CASE pc = "sign"      -> ret' = -1 /\ Goto("done") /\ UNCHANGED heap
       [] pc = "gen_done"  -> ret' = -1 /\ Goto("done")
                              /\ heap' = SignCleanup(SigGenCleanup(heap))
       [] pc = "gen_setup" -> Goto("gen_done") /\ UNCHANGED ret
                              /\ \E S \in SetupPartial : heap' = Allocate(heap, S)
       [] OTHER            -> Goto("gen_done") /\ UNCHANGED <<ret, heap>>
  /\ UNCHANGED <<call, dA, dgst, insig, e, k, r, s, sig>>

(***************************************************************************)
(* SM2_verify (lines 395-434) with no library failure: a signature that   *)
(* does not parse, or whose DER re-encoding differs from the input, is    *)
(* INVALID_ENCODING (-1); otherwise e = BN_bin2bn(dgst) and the result is  *)
(* that of SM2_sig_verify (whose queued errors are not modelled).         *)
(***************************************************************************)
Verify ==
  /\ pc = "verify"
  /\ e' = Bin2Bn(dgst)
  /\ IF insig.enc /= "der"
       THEN ret' = -1 /\ err' = "SM2_R_INVALID_ENCODING"
       ELSE ret' = SigVerify(PA, Bin2Bn(dgst), insig.r, insig.s)
            /\ UNCHANGED err
  /\ Goto("done")
  /\ UNCHANGED <<call, dA, dgst, insig, k, r, s, sig, libFailed, heap>>

(* A library call of the verification path fails: in SM2_verify itself   *)
(* (405-409, 415, 421-425) the result is -1, inside SM2_sig_verify        *)
(* (234-262, 286-309) it is 0.                                            *)
VerifyLibFail ==
  /\ pc = "verify" /\ LibMayFail
  /\ \E rv \in {-1, 0} : ret' = rv
  /\ err' = "ERR_R_MALLOC_FAILURE" /\ libFailed' = TRUE
  /\ Goto("done")
  /\ UNCHANGED <<call, dA, dgst, insig, e, k, r, s, sig, heap>>

-----------------------------------------------------------------------------
Init ==
  /\ dA \in Keys /\ dgst \in Dgsts
  /\ e = 0 /\ k = 0 /\ r = 0 /\ s = 0 /\ sig = NULL /\ ret = 0
  /\ err = "none" /\ libFailed = FALSE
  /\ heap = [o \in Objs |-> "none"]
  /\ \/ call = "sign" /\ pc = "sign" /\ insig = CHOOSE g \in EncodedSigs : TRUE
     \/ call = "verify" /\ pc = "verify" /\ insig \in EncodedSigs

Next ==
  \/ SignBin2Bn \/ GenSetup \/ \E kv \in 0 .. N - 1 : DrawK(kv)
  \/ AffineAtInfinity \/ ComputeR \/ RetryRZero \/ RetryRK \/ Proceed
  \/ InverseFail \/ ComputeS \/ NewSig \/ SignReturn \/ SignLibFail
  \/ Verify \/ VerifyLibFail

(* A nonce spec.md 4.5 accepts for digest value ev: in [1, n-1], with    *)
(* r /= 0 and r + k /= n.                                                 *)
AcceptableNonce(kv, ev) ==
  LET rr == (ev + AffineX(Mul(kv, G))) % N
  IN  kv \in 1 .. N - 1 /\ rr /= 0 /\ rr + kv /= N

(* The call runs on the calling thread.  BN_rand_range returns each value *)
(* of [0, n-1] with probability 1/n at every draw, and at most three of    *)
(* them are not acceptable nonces, so with probability 1 an acceptable     *)
(* one is drawn while the loop keeps drawing: strong fairness of such a   *)
(* draw is that argument.                                                  *)
Fairness ==
  /\ WF_vars(Next)
  /\ SF_vars(\E kv \in 0 .. N - 1 : AcceptableNonce(kv, e) /\ DrawK(kv))

Spec == Init /\ [][Next]_vars /\ Fairness

-----------------------------------------------------------------------------
TypeOK ==
  /\ call \in {"sign", "verify"} /\ dA \in Keys /\ dgst \in Dgsts
  /\ pc \in {"sign", "gen_setup", "draw", "mul", "check", "sign_s",
             "new_sig", "gen_done", "verify", "done"}
  /\ insig \in EncodedSigs /\ e \in Nat
  /\ k \in 0 .. N - 1 /\ r \in 0 .. N - 1 /\ s \in 0 .. N - 1
  /\ sig \in {NULL} \cup (0 .. N - 1) \X (0 .. N - 1)
  /\ ret \in {-1, 0, 1} /\ libFailed \in BOOLEAN
  /\ heap \in [Objs -> HeapStates]

(* A key whose signatures SM2_sig_gen can compute: 1 + dA is invertible.  *)
GoodKey == (dA + 1) % N /= 0

(* A signature binds its digest (spec.md 8.7): a signature SM2_sign made   *)
(* for dgst verifies under another digest only if the two digests agree    *)
(* modulo n.  This is about the use of e in lines 159 and 306.            *)
SigBindsDigest ==
  (call = "sign" /\ pc = "done" /\ ret = 1) =>
    \A d2 \in Dgsts :
      SigVerify(PA, Bin2Bn(d2), sig[1], sig[2]) = 1 =>
        Bin2Bn(d2) % N = Bin2Bn(dgst) % N

(* Every exit path of SM2_sign releases what it allocated exactly once   *)
(* (spec.md 5 and 9: big-integer contexts, points and signature halves are *)
(* released on success and on failure).  No object is ever freed twice,  *)
(* and when SM2_sign returns nothing it allocated is still live.  This is  *)
(* about the ownership hand-over of r and s to the signature (lines        *)
(* 205 and 210-213) under every failing call of lines 99-202 and 380.     *)
MemoryReleased ==
  /\ \A o \in Objs : heap[o] /= "twice"
  /\ call = "sign" /\ pc = "done" => \A o \in Objs : heap[o] /= "live"

(* spec.md 8.5 and 8.9: with no library failure, what SM2_sign returns for *)
(* a good key verifies under the same key and digest.                     *)
SignVerifyRoundTrip ==
  (call = "sign" /\ pc = "done" /\ ret = 1) =>
    SigVerify(PA, Bin2Bn(dgst), sig[1], sig[2]) = 1

(* spec.md 4.5 and 7: SM2_sign fails only when a library call fails or the *)
(* key is malformed (1 + dA = 0 mod n): the nonce k is drawn from          *)
(* [1, n-1], never from a value that makes the signing step fail.         *)
SignFailsOnlyForCause ==
  (call = "sign" /\ pc = "done" /\ ret = -1) => libFailed \/ ~GoodKey

-----------------------------------------------------------------------------
(***************************************************************************)
(* The refinement mapping to SM2Abstract: the call has returned when pc   *)
(* is "done", the signature is visible to the caller only when SM2_sign   *)
(* returned 1, and the abstract failure is the ghost libFailed.           *)
(***************************************************************************)
Abs == INSTANCE SM2Abstract
         WITH SigInputs <- EncodedSigs,
              pc <- IF pc = "done" THEN "done" ELSE "call",
              sig <- IF pc = "done" /\ ret = 1 THEN sig ELSE NULL,
              failed <- libFailed

(* SM2_sign and SM2_verify implement what spec.md 4.5 and 4.6 promise:    *)
(* every call returns; a signature returned is the signing equation for a *)
(* nonce the loop of lines 143-171 accepts; verification with a good key  *)
(* and no library failure accepts exactly the signer's pairs with halves  *)
(* in [1, n-1] (the range, t = 0 and infinity checks of lines 276-304 are *)
(* neither too weak nor too strong) and rejects a non-DER encoding.        *)
Implements == Abs!Spec

=============================================================================
