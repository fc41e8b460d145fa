------------------------------- MODULE MCOAEP -------------------------------
(***************************************************************************)
(* Model-checking instance of OAEP: every message of up to 2 bytes, both  *)
(* labels, every seed, a 6-byte modulus, and an output buffer that is     *)
(* large enough or one byte long.                                         *)
(***************************************************************************)
EXTENDS OAEP, MCOctets
=============================================================================
