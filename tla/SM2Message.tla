----------------------------- MODULE SM2Message ------------------------------
(***************************************************************************)
(* SM2 signing and verification of a message under a user identity       *)
(* (src/.../sm2/sm2_sign.c): SM2_compute_msg_hash (lines 26-80) computes   *)
(* e = H(ZA || msg), SM2_do_sign (320-338) runs SM2_sig_gen on it and      *)
(* SM2_do_verify (340-359) runs SM2_sig_verify on it.                      *)
(*                                                                         *)
(* A behaviour is a caller that signs msg as user uid with SM2_do_sign     *)
(* and, when it gets a signature, checks it with SM2_do_verify as user     *)
(* vid.  The steps of SM2_sig_gen are those of module SM2; the hashing is  *)
(* straight-line code with early exits, so one action per call.           *)
(***************************************************************************)
EXTENDS Integers, Sequences

CONSTANTS P, A, B, Gen, N, XCoord, Keys, LibMayFail,
          Ids,         \* user identities, as octets
          Msgs,        \* messages, as octet sequences
          Digest(_)    \* the message digest EVP_MD: octets -> octets

VARIABLES call, pc, dA, dgst, insig, e, k, r, s, sig, ret, err, libFailed,
          heap,
          uid,   \* the user_id passed to SM2_do_sign
          vid,   \* the user_id passed to SM2_do_verify
          msg    \* the message signed and verified

vars == <<call, pc, dA, dgst, insig, e, k, r, s, sig, ret, err, libFailed,
          heap, uid, vid, msg>>

(* SM2_sig_gen and SM2_sig_verify, as module SM2 models them; the raw     *)
(* digest and encoded signature of SM2_sign and SM2_verify are unused.     *)
S == INSTANCE SM2 WITH Dgsts <- {<<>>}, Scalars <- {0}

NULL == S!NULL

(***************************************************************************)
(* ZA = H(ENTL || id || a || b || xG || yG || xA || yA), from the SM2      *)
(* standard (SM2_compute_userid_digest is not in this source tree).  The   *)
(* public key is encoded by its discrete log, which, like (xA, yA),        *)
(* determines the point.                                                  *)
(***************************************************************************)
ZA(id, pub) == Digest(<<8 * Len(id)>> \o id \o <<A, B, Gen[1], Gen[2], pub>>)

(* Mutant of MsgHash: the DigestUpdate of ZA (line 58) is left out. *)
MsgHashNoZA(pub, id, m) == S!Bin2Bn(Digest(m))

(* SM2_compute_msg_hash lines 53-74: H(ZA || msg), read as an integer. *)
MsgHash(pub, id, m) == S!Bin2Bn(Digest(ZA(id, pub) \o m))

(* Mutant of DoSignCleanup: SM2_sign's cleanup, which frees the signature. *)
DoSignCleanupAsSign(h) == S!SignCleanup(S!SigGenCleanup(h))

(* SM2_sig_gen's done label, then SM2_do_sign's (lines 335-337): e is     *)
(* freed and the signature goes to the caller.                            *)
DoSignCleanup(h) == S!Release(S!SigGenCleanup(h), {"e"})

-----------------------------------------------------------------------------
(***************************************************************************)
(* SM2_do_sign lines 327-331 with SM2_compute_msg_hash.  When one of the  *)
(* calls of lines 36-74 fails (EVP_MD_CTX_new, calloc, the userid digest, *)
(* DigestInit, either DigestUpdate, DigestFinal or BN_bin2bn), e is NULL   *)
(* after za and the hash context are freed, and SM2_do_sign queues        *)
(* DIGEST_FAILURE and returns NULL without running SM2_sig_gen.           *)
(***************************************************************************)
DoSignHash ==
  /\ pc = "hash_sign"
  /\ \/ /\ e' = MsgHash(S!PA, uid, msg)
        /\ heap' = S!Allocate(heap, {"e"})
        /\ pc' = "gen_setup"
        /\ UNCHANGED <<err, libFailed>>
     \/ /\ LibMayFail
        /\ err' = "SM2_R_DIGEST_FAILURE" /\ libFailed' = TRUE
        /\ pc' = "done"
        /\ UNCHANGED <<e, heap>>
  /\ UNCHANGED <<call, dA, dgst, insig, k, r, s, sig, ret, uid, vid, msg>>

(* Line 333: the steps of SM2_sig_gen, up to its done label. *)
SigGen ==
  /\ \/ S!GenSetup \/ \E kv \in 0 .. N - 1 : S!DrawK(kv)
     \/ S!AffineAtInfinity \/ S!ComputeR \/ S!RetryRZero \/ S!RetryRK
     \/ S!Proceed \/ S!InverseFail \/ S!ComputeS \/ S!NewSig
     \/ pc \in {"gen_setup", "draw", "mul", "sign_s", "new_sig"}
        /\ S!SignLibFail
  /\ UNCHANGED <<uid, vid, msg>>

(* SM2_sig_gen and SM2_do_sign return (lines 209-218, 335-337); the caller *)
(* verifies a signature it got.                                           *)
DoSignReturn ==
  /\ pc = "gen_done"
  /\ heap' = DoSignCleanup(heap)
  /\ IF sig = NULL THEN pc' = "done" /\ UNCHANGED call
                   ELSE pc' = "hash_verify" /\ call' = "verify"
  /\ UNCHANGED <<dA, dgst, insig, e, k, r, s, sig, ret, err, libFailed,
                 uid, vid, msg>>

(***************************************************************************)
(* SM2_do_verify (lines 340-359): ret = -1 and DIGEST_FAILURE when the     *)
(* message hash fails, otherwise the result of SM2_sig_verify, which is 0  *)
(* when one of its library calls fails.                                   *)
(***************************************************************************)
DoVerify ==
  /\ pc = "hash_verify"
  /\ \/ ret' = S!SigVerify(S!PA, MsgHash(S!PA, vid, msg), sig[1], sig[2])
        /\ UNCHANGED <<err, libFailed>>
     \/ /\ LibMayFail
        /\ \/ ret' = -1 /\ err' = "SM2_R_DIGEST_FAILURE"
           \/ ret' = 0 /\ err' = "ERR_R_MALLOC_FAILURE"
        /\ libFailed' = TRUE
  /\ pc' = "done"
  /\ UNCHANGED <<call, dA, dgst, insig, e, k, r, s, sig, heap, uid, vid, msg>>

-----------------------------------------------------------------------------
Init ==
  /\ dA \in Keys /\ uid \in Ids /\ vid \in Ids /\ msg \in Msgs
  /\ call = "sign" /\ pc = "hash_sign"
  /\ dgst = <<>> /\ insig = [r |-> 0, s |-> 0, enc |-> "der"]
  /\ e = 0 /\ k = 0 /\ r = 0 /\ s = 0 /\ sig = NULL /\ ret = 0
  /\ err = "none" /\ libFailed = FALSE
  /\ heap = [o \in S!Objs |-> "none"]

Next == DoSignHash \/ SigGen \/ DoSignReturn \/ DoVerify

(* As in module SM2: the nonce draw is uniform, so an acceptable nonce is *)
(* drawn with probability 1 while the rejection loop keeps drawing.       *)
Fairness ==
  /\ WF_vars(Next)
  /\ SF_vars(\E kv \in 0 .. N - 1 : S!AcceptableNonce(kv, e) /\ S!DrawK(kv))

Spec == Init /\ [][Next]_vars /\ Fairness

-----------------------------------------------------------------------------
TypeOK ==
  /\ call \in {"sign", "verify"} /\ dA \in Keys /\ e \in Nat
  /\ k \in 0 .. N - 1 /\ r \in 0 .. N - 1 /\ s \in 0 .. N - 1
  /\ sig \in {NULL} \cup (0 .. N - 1) \X (0 .. N - 1)
  /\ ret \in {-1, 0, 1} /\ heap \in [S!Objs -> S!HeapStates]
  /\ pc \in {"hash_sign", "gen_setup", "draw", "mul", "check", "sign_s",
             "new_sig", "gen_done", "hash_verify", "done"}
  /\ uid \in Ids /\ vid \in Ids /\ msg \in Msgs

(* A signature binds the signer's identity (spec.md 4.4 and 8.7): when    *)
(* SM2_do_verify accepts what SM2_do_sign produced for the same key and    *)
(* message, the verifier's user_id is the signer's.  This is about ZA      *)
(* entering the message hash (lines 48-69) on both paths.                 *)
WrongIdentityRejects ==
  (call = "verify" /\ pc = "done" /\ ret = 1) => vid = uid

(* SM2_do_sign hands the caller the signature and nothing else: once it   *)
(* has returned, the ECDSA_SIG is live exactly when it was returned, and   *)
(* e, the group order, kG, the context, and r and s apart from the        *)
(* signature that owns them, are released, none of them twice (lines     *)
(* 99-141, 205, 209-217 and 335-336).                                     *)
SignResultOwned ==
  (call = "verify" \/ pc = "done") =>
    /\ \A o \in S!Objs : heap[o] /= "twice"
    /\ heap["sig"] = IF sig = NULL THEN "none" ELSE "live"
    /\ \A o \in S!Objs \ {"sig", "r", "s"} : heap[o] /= "live"
    /\ sig = NULL => heap["r"] /= "live" /\ heap["s"] /= "live"

=============================================================================
