------------------------------ MODULE BoxDecode ------------------------------
(***************************************************************************)
(* What a row of the network's output says: DecodeProcessor::CpuDecode     *)
(* (app_yolo/architecture/decodeprocessor.cpp) up to its call of Nms, and  *)
(* the same done by one thread of decode_kernel (cuda/gpu_decode.cu).      *)
(*                                                                         *)
(* A row is a record with cx, cy, width, height, objness and prob, the     *)
(* sequence of the classes' probabilities.  Probabilities are percentages, *)
(* so a confidence counts ten-thousandths; a box's coordinates count half  *)
(* pixels; labels are counted from 1.                                      *)
(***************************************************************************)
EXTENDS BoxGeometry, Sequences

CONSTANT ObjThreshold       \* obj_threshold_, in percent

\* std::max_element returns the first of several largest, and the kernel's
\* loop replaces the best label by a later one only if that is likelier.
Label(prob) ==
    CHOOSE k \in 1 .. Len(prob) :
        /\ \A l \in 1 .. Len(prob) : prob[l] <= prob[k]
        /\ \A l \in 1 .. k - 1 : prob[l] < prob[k]

Confidence(row) == row.prob[Label(row.prob)] * row.objness

\* The two thresholds of a row.
Detects(row) ==
    /\ row.objness >= ObjThreshold
    /\ Confidence(row) >= 100 * ObjThreshold

\* cx - width * 0.5 and so on.
BoxOf(row) ==
    [left  |-> 2 * row.cx - row.width,  top    |-> 2 * row.cy - row.height,
     right |-> 2 * row.cx + row.width,  bottom |-> 2 * row.cy + row.height,
     confidence |-> Confidence(row),    label  |-> Label(row.prob)]

\* The loop of CpuDecode: boxes[i] is what it has found in the first i rows.
CpuDecode(predict) ==
    LET boxes[i \in 0 .. Len(predict)] ==
            IF i = 0 THEN <<>>
            ELSE IF Detects(predict[i])
                 THEN Append(boxes[i - 1], BoxOf(predict[i]))
                 ELSE boxes[i - 1]
    IN  boxes[Len(predict)]

OverlapsSum(a, b) ==            \* mutant: the common area is counted twice
    /\ CrossArea(a, b) # 0
    /\ 100 * CrossArea(a, b) >
          NmsThreshold * (UnionArea(a, b) + CrossArea(a, b))

\* box_iou(a, b) > threshold; box_iou is 0 when the boxes have no area in
\* common.
GpuOverlaps(a, b) ==
    /\ CrossArea(a, b) # 0
    /\ 100 * CrossArea(a, b) > NmsThreshold * UnionArea(a, b)
=============================================================================
