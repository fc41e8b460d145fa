-------------------------------- MODULE MCMGF1 ------------------------------
(***************************************************************************)
(* Model-checking instance of MGF1: seeds of up to 2 bytes and masks of   *)
(* up to 5 bytes, so a call takes up to three blocks and the last block   *)
(* may be whole or cut.                                                    *)
(***************************************************************************)
EXTENDS MGF1, MCOctets

MCSeeds == BoundedSeq(Byte, 2)
=============================================================================
