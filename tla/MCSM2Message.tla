---------------------------- MODULE MCSM2Message ----------------------------
(***************************************************************************)
(* SM2Message over the curve of MCSM2, with three one-byte identities,    *)
(* two one-byte messages and a one-byte digest.                           *)
(***************************************************************************)
EXTENDS SM2Message, SequencesExt

MCGen == <<5, 1>>
MCXCoord == <<5, 6, 10, 3, 9, 16, 0, 13, 7, 7, 13, 0, 16, 9, 3, 10, 6, 5>>
MCIds == {<<1>>, <<2>>, <<3>>}
MCMsgs == {<<0>>, <<7>>}

(* A one-byte polynomial hash standing in for SM3. *)
MCDigest(bytes) == <<FoldLeft(LAMBDA acc, b : (acc * 3 + b) % 256, 1, bytes)>>

(* Like SM3 on real inputs, the stand-in is collision free where it      *)
(* matters: distinct identities give message hashes distinct mod n, for   *)
(* every key and message of the instance.                                 *)
ASSUME \A key \in Keys, m \in MCMsgs, i1, i2 \in MCIds :
         LET H(id) == S!Bin2Bn(MCDigest(ZA(id, S!Mul(key, S!G)) \o m)) % N
         IN  i1 /= i2 => H(i1) /= H(i2)

=============================================================================
