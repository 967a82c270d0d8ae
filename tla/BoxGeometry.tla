----------------------------- MODULE BoxGeometry -----------------------------
(***************************************************************************)
(* Boxes and how much they overlap (the lambda iou in                      *)
(* app_yolo/architecture/decodeprocessor.cpp).                             *)
(*                                                                         *)
(* Coordinates and confidences are integers, the threshold is a percentage *)
(* and the ratio of areas is compared exactly; the code uses floats.       *)
(***************************************************************************)
EXTENDS Integers

CONSTANT NmsThreshold       \* nms_threshold, in percent

ASSUME ThresholdAssumption == NmsThreshold \in Nat

Box == [left : Int, top : Int, right : Int, bottom : Int,
        confidence : Int, label : Int]

Larger(a, b) == IF a > b THEN a ELSE b
Smaller(a, b) == IF a < b THEN a ELSE b

\* std::max(0.0f, right - left) * std::max(0.0f, bottom - top)
Area(left, top, right, bottom) ==
    Larger(0, right - left) * Larger(0, bottom - top)

CrossArea(a, b) ==
    Area(Larger(a.left, b.left), Larger(a.top, b.top),
         Smaller(a.right, b.right), Smaller(a.bottom, b.bottom))

UnionArea(a, b) ==
    Area(a.left, a.top, a.right, a.bottom)
        + Area(b.left, b.top, b.right, b.bottom) - CrossArea(a, b)

\* iou(a, b) >= nms_threshold, where iou is 0 when an area is.
IouReached(a, b) ==
    IF CrossArea(a, b) = 0 \/ UnionArea(a, b) = 0
    THEN 0 >= NmsThreshold
    ELSE 100 * CrossArea(a, b) >= NmsThreshold * UnionArea(a, b)

SuppressesAnyClass(a, b) ==     \* mutant: the class is not compared
    IouReached(a, b)

Suppresses(a, b) == a.label = b.label /\ IouReached(a, b)
=============================================================================
