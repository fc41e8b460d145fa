------------------------------ MODULE MCOctets ------------------------------
(***************************************************************************)
(* Model values for the hash collaborator, shared by the OAEP MC modules. *)
(***************************************************************************)
EXTENDS Octets

(* A deterministic stand-in for the digest: a multiplicative fold of the   *)
(* input reduced to a byte, one fold per output byte.                      *)
MCHash(s) ==
  [j \in 1 .. MdLen |->
     FoldLeft(LAMBDA acc, x : (acc * 7 + x * 3 + 1) % 251, j, s) % (2^ByteBits)]

(* The mask generation digest mgf1md when the caller passes one other    *)
(* than md: a different fold, of MgfLen bytes.                            *)
MCMgfHash(s) ==
  [j \in 1 .. MgfLen |->
     FoldLeft(LAMBDA acc, x : (acc * 5 + x * 11 + 3) % 241, j, s) % (2^ByteBits)]

(* The empty label and a one-byte label. *)
MCLabels == {<<>>, <<1>>}

(* The label binding the models rely on: distinct labels hash apart. *)
ASSUME MdLen > 0 =>
         \A l1, l2 \in MCLabels : l1 /= l2 => MCHash(l1) /= MCHash(l2)

(* Every message of up to two bytes. *)
MCMsgs == BoundedSeq(Byte, 2)
=============================================================================
