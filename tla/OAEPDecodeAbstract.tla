------------------------- MODULE OAEPDecodeAbstract -------------------------
(***************************************************************************)
(* What one call of the OAEP decoder promises (spec.md 4.3 and 7), as a   *)
(* call that returns in one step.  The caller passes the RSA output from  *)
(* without its leading zero bytes, the modulus length k, the size tlen of *)
(* the output buffer and the label.  The call returns                     *)
(*   the message m, and its length, when from, left-padded to k bytes, is *)
(*     the EME-OAEP encoding of m under the label for some seed and m     *)
(*     fits in tlen bytes;                                                *)
(*   -1 with DATA_TOO_LARGE when it is such an encoding but m does not   *)
(*     fit;                                                               *)
(*   -1 with the single decoding error for every other input;             *)
(*   -1 with a malloc error, or no error, when a library call failed,    *)
(*     and only then.                                                     *)
(***************************************************************************)
EXTENDS Octets

CONSTANTS Inputs, Nums, TLens, Labels

VARIABLES pc, from, k, tlen, label, ret, err, to,
          failed   \* a library call failed during the call

vars == <<pc, from, k, tlen, label, ret, err, to, failed>>

(* The messages whose encoding under label l, in a k-byte block, is the   *)
(* input f padded on the left: none, or exactly one.                      *)
Decodings(f, kk, l) ==
  IF Len(f) > kk - 1 \/ kk < 2 * MdLen + 2 THEN {}
  ELSE EmeOaepDecode(<<0>> \o LeftPad(f, kk - 1), l, kk)

Init ==
  /\ pc = "call" /\ from \in Inputs /\ k \in Nums /\ tlen \in TLens
  /\ label \in Labels /\ ret = -1 /\ err = "none" /\ to = <<>>
  /\ failed = FALSE

(* The call returns its answer: no library call failed. *)
Decode ==
  /\ pc = "call" /\ pc' = "done" /\ ~failed /\ UNCHANGED failed
  /\ LET D == Decodings(from, k, label)
     IN  IF D = {}
           THEN ret' = -1 /\ err' = "RSA_R_OAEP_DECODING_ERROR" /\ to' = to
           ELSE \E m \in D :
                  IF Len(m) <= tlen
                    THEN ret' = Len(m) /\ to' = m /\ err' = err
                    ELSE ret' = -1 /\ err' = "RSA_R_DATA_TOO_LARGE" /\ to' = to
  /\ UNCHANGED <<from, k, tlen, label>>

(* A library call fails while the call runs. *)
LibFail ==
  /\ pc = "call" /\ ~failed /\ failed' = TRUE
  /\ UNCHANGED <<pc, from, k, tlen, label, ret, err, to>>

(* The call returns -1 after a library call failed, now or before. *)
Fail ==
  /\ pc = "call" /\ pc' = "done" /\ failed' = TRUE /\ ret' = -1
  /\ err' \in {"none", "ERR_R_MALLOC_FAILURE"}
  /\ UNCHANGED <<from, k, tlen, label, to>>

(* Fail first: it is enabled whenever the call runs, which keeps ENABLED  *)
(* cheap to evaluate under a refinement mapping.                          *)
Next == Fail \/ LibFail \/ Decode

(* Every call returns. *)
Spec == Init /\ [][Next]_vars /\ WF_vars(Next)

=============================================================================
