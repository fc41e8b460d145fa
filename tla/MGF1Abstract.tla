---------------------------- MODULE MGF1Abstract ----------------------------
(***************************************************************************)
(* What a call of PKCS1_MGF1 promises (spec.md 4.1): it returns, either   *)
(* with the first len bytes of the MGF1 mask of seed in the buffer and    *)
(* 0, or with -1 when the digest failed.                                  *)
(***************************************************************************)
EXTENDS Octets

CONSTANTS Seeds, Lens

VARIABLES pc, seed, len, mask, rv

vars == <<pc, seed, len, mask, rv>>

Init ==
  /\ pc = "busy" /\ seed \in Seeds /\ len \in Lens /\ mask = <<>> /\ rv = -1

(* The call returns with the mask. *)
Return ==
  /\ pc = "busy" /\ pc' = "done"
  /\ mask' = Mgf1(seed, len) /\ rv' = 0
  /\ UNCHANGED <<seed, len>>

(* The call returns -1 because the digest failed. *)
Fail ==
  /\ pc = "busy" /\ pc' = "done"
  /\ rv' = -1
  /\ UNCHANGED <<seed, len, mask>>

Next == Return \/ Fail

Spec == Init /\ [][Next]_vars /\ WF_vars(Next)

=============================================================================
