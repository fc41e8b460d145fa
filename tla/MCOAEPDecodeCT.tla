--------------------------- MODULE MCOAEPDecodeCT ---------------------------
(***************************************************************************)
(* Model-checking instance of OAEPDecodeCT: pairs of inputs of up to 4    *)
(* 2-bit bytes against a 5-byte modulus and a 1-byte digest.              *)
(***************************************************************************)
EXTENDS OAEPDecodeCT, MCOctets
=============================================================================
