---------------------------- MODULE MCOAEPEncode ----------------------------
(***************************************************************************)
(* Model-checking instance of OAEPEncode over moduli that are too short,  *)
(* just long enough and comfortably long for a 1-byte digest.            *)
(***************************************************************************)
EXTENDS OAEPEncode, MCOctets

(* Negative ints a caller can pass as flen. *)
MCBadFLens == {-2, -1}
=============================================================================
