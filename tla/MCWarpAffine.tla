---------------------------- MODULE MCWarpAffine -----------------------------
(***************************************************************************)
(* Pictures for TLC: the configured size, which leaves grey above and      *)
(* below; a smaller one, which leaves it at the sides; one that was not    *)
(* read; and one that is larger than the buffer.                           *)
(***************************************************************************)
EXTENDS WarpAffine

Sizes == {[width |-> w, height |-> h] :
             <<w, h>> \in {<<4, 2>>, <<1, 3>>, <<0, 0>>, <<5, 2>>}}
=============================================================================
