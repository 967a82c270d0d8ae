--------------------------------- MODULE Nms ---------------------------------
(***************************************************************************)
(* DecodeProcessor::Nms (app_yolo/architecture/decodeprocessor.cpp): the   *)
(* boxes are sorted by confidence, and then two nested loops mark every    *)
(* box that overlaps a kept box of its class too much.  One action is one  *)
(* iteration of a loop.                                                    *)
(*                                                                         *)
(* Coordinates and confidences are integers, the threshold is a percentage *)
(* and the ratio of areas is compared exactly; the code uses floats.       *)
(***************************************************************************)
EXTENDS BoxGeometry, Sequences

CONSTANTS
    Boxes,          \* the boxes that may be found
    MaxBoxes        \* bound: boxes in one frame

ASSUME NmsAssumption ==
    Boxes \subseteq Box /\ MaxBoxes \in Nat

VARIABLES
    given,          \* the boxes as CpuDecode collected them
    boxes,          \* the same vector after std::sort
    remove_flags, box_result,
    i, j,           \* the loop variables, counted from 1
    pc

nmsVars == <<given, boxes, remove_flags, box_result, i, j, pc>>

-----------------------------------------------------------------------------
\* What std::sort may return: it is not stable, so boxes of equal confidence
\* come in any order.
Permutations(n) == {f \in [1 .. n -> 1 .. n] :
                        \A a, b \in 1 .. n : f[a] = f[b] => a = b}

Sorted(s) ==
    {t \in {[k \in 1 .. Len(s) |-> s[f[k]]] : f \in Permutations(Len(s))} :
        \A a, b \in 1 .. Len(s) : a < b => t[a].confidence >= t[b].confidence}

-----------------------------------------------------------------------------
NmsInit ==
    /\ \E n \in 0 .. MaxBoxes : given \in [1 .. n -> Boxes]
    /\ boxes = <<>> /\ remove_flags = <<>> /\ box_result = <<>>
    /\ i = 1 /\ j = 1
    /\ pc = "sort"

Sort ==
    /\ pc = "sort"
    /\ boxes' \in Sorted(given)
    /\ remove_flags' = [k \in 1 .. Len(given) |-> FALSE]
    /\ pc' = "outer"
    /\ UNCHANGED <<given, box_result, i, j>>

SkipRemoved ==
    /\ pc = "outer" /\ i <= Len(boxes)
    /\ remove_flags[i]
    /\ i' = i + 1
    /\ UNCHANGED <<given, boxes, remove_flags, box_result, j, pc>>

KeepAndSkip ==                  \* mutant: the next box is not compared
    /\ pc = "outer" /\ i <= Len(boxes)
    /\ ~remove_flags[i]
    /\ box_result' = Append(box_result, boxes[i])
    /\ j' = IF i < Len(boxes) THEN i + 2 ELSE i + 1
    /\ pc' = "inner"
    /\ UNCHANGED <<given, boxes, remove_flags, i>>

Keep ==
    /\ pc = "outer" /\ i <= Len(boxes)
    /\ ~remove_flags[i]
    /\ box_result' = Append(box_result, boxes[i])
    /\ j' = i + 1
    /\ pc' = "inner"
    /\ UNCHANGED <<given, boxes, remove_flags, i>>

\* One pass of the inner loop; a box that is marked already stays marked.
Compare ==
    /\ pc = "inner" /\ j <= Len(boxes)
    /\ remove_flags' =
          [remove_flags EXCEPT ![j] = @ \/ Suppresses(boxes[i], boxes[j])]
    /\ j' = j + 1
    /\ UNCHANGED <<given, boxes, box_result, i, pc>>

EndInner ==
    /\ pc = "inner" /\ j > Len(boxes)
    /\ i' = i + 1
    /\ pc' = "outer"
    /\ UNCHANGED <<given, boxes, remove_flags, box_result, j>>

EndOuter ==
    /\ pc = "outer" /\ i > Len(boxes)
    /\ pc' = "done"
    /\ UNCHANGED <<given, boxes, remove_flags, box_result, i, j>>

NmsNext == Sort \/ SkipRemoved \/ Keep \/ Compare \/ EndInner \/ EndOuter

NmsSpec == NmsInit /\ [][NmsNext]_nmsVars

-----------------------------------------------------------------------------
NmsTypeOK ==
    /\ given \in Seq(Boxes) /\ boxes \in Seq(Boxes)
    /\ box_result \in Seq(Boxes)
    /\ pc \in {"sort", "outer", "inner", "done"}
    /\ IF pc = "sort" THEN boxes = <<>> /\ box_result = <<>>
                      ELSE Len(boxes) = Len(given)
    /\ remove_flags \in [1 .. Len(boxes) -> BOOLEAN]
    /\ i \in 1 .. Len(boxes) + 1 /\ j \in 1 .. Len(boxes) + 1
    /\ pc = "inner" => i < j
    /\ pc = "done" => i = Len(boxes) + 1

\* Of any two boxes that are returned, the more confident one does not
\* suppress the other: no step of the two loops forgets to mark or to test a
\* mark.
NoOverlapLeft ==
    \A a, b \in 1 .. Len(box_result) :
        a < b => ~Suppresses(box_result[a], box_result[b])

\* Nothing is lost without a reason: a box that is not returned overlaps a
\* returned one of its class that is at least as confident, whichever way
\* std::sort orders boxes of equal confidence.  So the best box of every class
\* is returned.
EveryBoxAccounted ==
    pc = "done" =>
        \A k \in 1 .. Len(given) :
            \E r \in 1 .. Len(box_result) :
                \/ box_result[r] = given[k]
                \/ /\ box_result[r].label = given[k].label
                   /\ IouReached(box_result[r], given[k])
                   /\ box_result[r].confidence >= given[k].confidence

\* The two loops compute the greedy choice and nothing else: the boxes without a
\* mark are those that no better one without a mark suppresses, which is what
\* the kernel's parallel suppression is held against, and they are returned
\* once each, the best first.
Unmarked == {k \in 1 .. Len(boxes) : ~remove_flags[k]}

ResultIsGreedy ==
    pc = "done" =>
        /\ \A s \in 1 .. Len(boxes) :
              s \in Unmarked <=>
                  \A r \in Unmarked : r < s => ~Suppresses(boxes[r], boxes[s])
        /\ \E place \in [1 .. Len(box_result) -> Unmarked] :
              /\ \A a, b \in 1 .. Len(box_result) : a < b => place[a] < place[b]
              /\ \A k \in Unmarked : \E a \in 1 .. Len(box_result) : place[a] = k
              /\ \A a \in 1 .. Len(box_result) : box_result[a] = boxes[place[a]]
=============================================================================
