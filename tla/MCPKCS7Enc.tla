----------------------------- MODULE MCPKCS7Enc -----------------------------
(***************************************************************************)
(* The demo over argument vectors with and without -nd and a file name,  *)
(* and data of zero to three chunks.                                     *)
(***************************************************************************)
EXTENDS PKCS7Enc

CONSTANTS c1, c2, c3

MCArgs == {<<>>, <<"file">>, <<"-nd">>, <<"-nd", "-nd", "file">>}

MCInputs == {<<>>, <<c1>>, <<c1, c2, c3>>}

=============================================================================
