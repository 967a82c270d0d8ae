----------------------------- MODULE InfertMsg -----------------------------
(***************************************************************************)
(* The message that travels through the pipeline                           *)
(* (common/msg_struct/task_struct.hpp): the number of a frame and the      *)
(* boxes found in it.  Picture, size, time stamp and matrices of a message *)
(* are copied together with its number and are not told apart from it.     *)
(***************************************************************************)
EXTENDS Integers, Sequences

\* InfertMsg(): no frame yet (frames are numbered from 1 here), no boxes.
NoFrame == 0
NewMsg == [frame_id |-> NoFrame, bboxes |-> <<>>]

\* The message with which the caller hands in frame f.
FrameMsg(f) == [frame_id |-> f, bboxes |-> <<>>]

AssignLost(this, obj) ==        \* mutant: the fields are not overwritten
    [frame_id |-> this.frame_id, bboxes |-> this.bboxes \o obj.bboxes]

\* operator=: overwrites every field but the boxes, to which it appends those
\* of the right-hand side.
Assign(this, obj) ==
    [frame_id |-> obj.frame_id, bboxes |-> this.bboxes \o obj.bboxes]
=============================================================================
