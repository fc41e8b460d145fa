-------------------------------- MODULE MCSM2 -------------------------------
(***************************************************************************)
(* SM2 over the curve y^2 = x^3 + 2x + 2 over F_17, whose point (5, 1)    *)
(* generates a group of prime order 19.                                   *)
(***************************************************************************)
EXTENDS SM2

MCGen == <<5, 1>>

(* The x-coordinates of [1]G .. [18]G, checked by the assumption of       *)
(* ECGroup against the group law.                                          *)
MCXCoord == <<5, 6, 10, 3, 9, 16, 0, 13, 7, 7, 13, 0, 16, 9, 3, 10, 6, 5>>

(* Digests whose values are 0, 5 and 0 mod n, and a two-byte one. *)
MCDgsts == {<<0>>, <<5>>, <<19>>, <<1, 3>>}

(* Signature halves below, inside and above [1, n-1]. *)
MCScalars == -1 .. 19

=============================================================================
