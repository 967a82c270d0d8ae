----------------------------- MODULE MCGpuDecode -----------------------------
(***************************************************************************)
(* Rows for TLC: strips eight pixels wide and one high.  Strips that lie   *)
(* one pixel apart overlap by more than 60 percent, two pixels by exactly  *)
(* 60, three by less.  Two of them are equally good, one has two equally   *)
(* likely classes, one is of the other class, and two are no objects.      *)
(***************************************************************************)
EXTENDS GpuDecode

Strip(x, o, p, q) == [cx |-> x, cy |-> 1, width |-> 8, height |-> 2,
                      objness |-> o, prob |-> <<p, q>>]

Strips ==
    {Strip(4, 90, 80, 50), Strip(5, 90, 70, 20), Strip(6, 80, 90, 90),
     Strip(7, 90, 90, 10), Strip(6, 90, 40, 80),
     Strip(4, 40, 90, 90), Strip(4, 60, 70, 10)}
=============================================================================
