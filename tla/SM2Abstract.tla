---------------------------- MODULE SM2Abstract -----------------------------
(***************************************************************************)
(* What one call of SM2 signing or verification promises (spec.md 4.5,    *)
(* 4.6 and 7), as a call that returns in one step:                        *)
(*   sign:   the pair (r, s) of the signing equation for some nonce k in  *)
(*           [1, n-1] with r /= 0 and r + k /= n, or a failure;           *)
(*   verify: -1 for an encoding that is not canonical DER, otherwise 1    *)
(*           exactly for the pairs a signer with the key could produce    *)
(*           with both halves in [1, n-1], and 0 for the others; a        *)
(*           library failure may turn any answer into -1 or 0.           *)
(* A key with 1 + dA = 0 mod n is malformed (spec.md 4.5 step 4): its     *)
(* signatures cannot be computed and its verdicts are not constrained.    *)
(***************************************************************************)
EXTENDS Integers, SequencesExt, ECGroup

CONSTANTS
  Keys,       \* private keys dA
  Dgsts,      \* digests, as octets
  SigInputs   \* the signatures handed to verification, with their encoding

VARIABLES
  call,    \* "sign" or "verify"
  pc,      \* "call" until the call has returned, then "done"
  dA,      \* the private key
  dgst,    \* the digest
  insig,   \* the signature to verify
  ret,     \* the result
  sig,     \* the signature returned by signing, <<>> if none
  failed   \* a library call failed during the call

vars == <<call, pc, dA, dgst, insig, ret, sig, failed>>

(* e = OS2IP(digest). *)
DigestValue(d) == FoldLeft(LAMBDA acc, b : acc * 256 + b, 0, d)

(* The pairs the signing equation of spec.md 4.5 gives for key d and      *)
(* digest value ev, one for each nonce the loop accepts.                  *)
NonceSignatures(d, ev) ==
  LET R(kv) == (ev + AffineX(Mul(kv, G))) % N
      S(kv) == (PowMod(1 + d, N - 2, N) * (kv - R(kv) * d)) % N
  IN  { <<R(kv), S(kv)>> : kv \in { kk \in 1 .. N - 1 :
                                      R(kk) /= 0 /\ R(kk) + kk /= N } }

(* The signatures verification accepts: those of the signer whose halves *)
(* lie in [1, n-1] (spec.md 3 and 4.6 step 1).                            *)
Signatures(d, ev) == { rs \in NonceSignatures(d, ev) : rs[2] /= 0 }

GoodKey(d) == (1 + d) % N /= 0

Verdicts(d, ev, in) ==
  CASE in.enc /= "der" -> {-1}
    [] ~GoodKey(d)     -> {0, 1}
    [] OTHER           -> {IF <<in.r, in.s>> \in Signatures(d, ev) THEN 1 ELSE 0}

-----------------------------------------------------------------------------
Init ==
  /\ dA \in Keys /\ dgst \in Dgsts /\ call \in {"sign", "verify"}
  /\ insig \in SigInputs /\ pc = "call"
  /\ ret = 0 /\ sig = <<>> /\ failed = FALSE

(* A library call fails while the call runs. *)
LibFail ==
  /\ pc = "call" /\ ~failed /\ failed' = TRUE
  /\ UNCHANGED <<call, pc, dA, dgst, insig, ret, sig>>

(* Signing returns a signature of a good key, or fails: spec.md 7 names  *)
(* the causes, which this specification does not tell apart.           *)
Sign ==
  /\ call = "sign" /\ pc = "call" /\ pc' = "done"
  /\ failed' \in {failed, TRUE}
  /\ \/ GoodKey(dA) /\ ret' = 1
        /\ sig' \in NonceSignatures(dA, DigestValue(dgst))
     \/ ret' = -1 /\ sig' = <<>>
  /\ UNCHANGED <<call, dA, dgst, insig>>

(* Verification returns its verdict, or -1 or 0 after a library failure. *)
Verify ==
  /\ call = "verify" /\ pc = "call" /\ pc' = "done" /\ sig' = <<>>
  /\ \/ ~failed /\ failed' = FALSE
        /\ ret' \in Verdicts(dA, DigestValue(dgst), insig)
     \/ failed' = TRUE /\ ret' \in {-1, 0}
  /\ UNCHANGED <<call, dA, dgst, insig>>

Next == LibFail \/ Sign \/ Verify

(* Every call returns. *)
Spec == Init /\ [][Next]_vars /\ WF_vars(Sign \/ Verify)

=============================================================================
