---------------------------- MODULE MCOAEPDecode ----------------------------
(***************************************************************************)
(* Model-checking instance of OAEPDecode: 2-bit bytes, a 1-byte digest,    *)
(* a 6-byte modulus (so DB holds lHash, padding, the separator and a       *)
(* message of up to 2 bytes) and a 3-byte one that is too short, and a    *)
(* one-byte output buffer, which a 2-byte message does not fit.           *)
(***************************************************************************)
EXTENDS OAEPDecode, MCOctets
=============================================================================
