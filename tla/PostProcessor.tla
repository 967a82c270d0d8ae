--------------------------- MODULE PostProcessor ---------------------------
(***************************************************************************)
(* PostProcessor (app_yolo/architecture/postprocessor.cpp): a second       *)
(* worker thread, which takes the messages out of the bboxQueue_ of the    *)
(* InferenceEngine it was linked to by SetModulePipeline.  Its variables   *)
(* carry a p where the engine has one of the same name.                    *)
(***************************************************************************)
EXTENDS InferenceEngine

VARIABLES
    prunning_, pworker, ppc,
    output_msg_,    \* the message the thread pops into, over and over
    delivered       \* history: the frames popped so far, in order

postVars == <<prunning_, pworker, ppc, output_msg_, delivered>>
postThreadVars == <<prunning_, pworker, ppc>>

\* The engine's variables that PostProcessor never writes.
engineOwnVars == <<running_, worker, wpc, input_msg_, inputMsgQue_,
                   memory, image, faults, stale, evicted, crashed>>

PostStart ==
    /\ prunning_ = FALSE /\ pworker = "none" /\ ppc = "off"
    /\ output_msg_ = NewMsg
    /\ delivered = <<>>

\* A new PostProcessor.
PostInit ==
    /\ prunning_' = FALSE /\ pworker' = "none" /\ ppc' = "off"
    /\ output_msg_' = NewMsg
    /\ UNCHANGED delivered

PostRunStart ==
    /\ prunning_' = TRUE
    /\ pworker' = "joinable" /\ ppc' = "test"
    /\ UNCHANGED <<output_msg_, delivered>>

PostClearNothing ==             \* mutant: the flag is not cleared
    UNCHANGED postVars

PostClearRunning ==
    /\ prunning_' = FALSE
    /\ UNCHANGED <<pworker, ppc, output_msg_, delivered>>

PostJoin ==
    /\ pworker = "joinable" => ppc = "returned"
    /\ pworker' = "joined"
    /\ UNCHANGED <<prunning_, ppc, output_msg_, delivered>>

\* The only operation of the main thread on the engine's output queue.
PostDataResourceRelease ==
    /\ bboxQueue_' = <<>>
    /\ UNCHANGED <<engineOwnVars, postVars>>

-----------------------------------------------------------------------------
\* The worker thread, PostProcessor::Inference.
PostGoTo(from, to) == ppc = from /\ ppc' = to

PostTest ==
    /\ prunning_
    /\ PostGoTo("test", "pop")
    /\ UNCHANGED <<prunning_, pworker, output_msg_, delivered, engineVars>>

PostExit ==
    /\ ~prunning_
    /\ PostGoTo("test", "returned")
    /\ prunning_' = FALSE
    /\ UNCHANGED <<pworker, output_msg_, delivered, engineVars>>

PostPopEmptyEnds ==             \* mutant: an empty queue ends the thread
    /\ bboxQueue_ = <<>>
    /\ PostGoTo("pop", "returned")
    /\ UNCHANGED <<prunning_, pworker, output_msg_, delivered, engineVars>>

PostPopEmpty ==
    /\ bboxQueue_ = <<>>
    /\ PostGoTo("pop", "test")
    /\ UNCHANGED <<prunning_, pworker, output_msg_, delivered, engineVars>>

PostPop ==
    /\ bboxQueue_ # <<>>
    /\ PostGoTo("pop", "test")
    /\ output_msg_' = Assign(output_msg_, Head(bboxQueue_))
    /\ bboxQueue_' = Tail(bboxQueue_)
    /\ delivered' = Append(delivered, Head(bboxQueue_).frame_id)
    /\ UNCHANGED <<prunning_, pworker, engineOwnVars>>

PostWorker == PostTest \/ PostExit \/ PostPopEmpty \/ PostPop

-----------------------------------------------------------------------------
PostTypeOK ==
    /\ prunning_ \in BOOLEAN
    /\ pworker \in {"none", "joinable", "joined"}
    /\ ppc \in {"off", "test", "pop", "returned"}
    /\ output_msg_ \in Messages
    /\ delivered \in Seq(Frames)
=============================================================================
