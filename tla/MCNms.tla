-------------------------------- MODULE MCNms --------------------------------
(***************************************************************************)
(* Boxes for TLC: strips one unit high.  The first two overlap by exactly  *)
(* 60 percent, as do the second and the third, while the first and the     *)
(* third overlap less; the fourth is empty.                                *)
(***************************************************************************)
EXTENDS Nms

Strip(l, r, c, k) == [left |-> l, top |-> 0, right |-> r, bottom |-> 1,
                      confidence |-> c, label |-> k]

Strips == {Strip(x, x + 4, c, k) : x \in 0 .. 2, c \in 1 .. 2, k \in 1 .. 2}
              \cup {Strip(1, 1, 1, 1)}
=============================================================================
