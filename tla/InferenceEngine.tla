-------------------------- MODULE InferenceEngine --------------------------
(***************************************************************************)
(* InferenceEngine (app_yolo/architecture/inference.cpp) with the parts it *)
(* drives: PreProcessor, TrtInfer and the publishing half of               *)
(* DecodeProcessor.  One worker thread takes frames from inputMsgQue_,     *)
(* works on them in device memory, and puts their boxes into bboxQueue_.   *)
(* The operations that the main thread calls (RunStart, RunStop, ...) are  *)
(* given step by step; InferPipeline puts the steps in sequence.           *)
(*                                                                         *)
(* A queue operation is one step here; MsgQueue shows that it acts as one. *)
(* An image in memory is told apart only by the frame it was made from.    *)
(***************************************************************************)
EXTENDS InfertMsg, BoundedBuffer

CONSTANTS
    MaxFrames,      \* bound: frames that the caller hands in
    MaxFaults,      \* bound: CUDA and TensorRT calls that fail
    EngineStates    \* how TrtInfer::Init may leave the engine

ASSUME EngineAssumption ==
    /\ MaxFrames \in Nat /\ MaxFaults \in Nat
    /\ EngineStates \subseteq {"live", "wild", "void"}

VARIABLES
    running_,       \* the flag that the worker tests
    worker,         \* worker_ptr_: "none", "joinable" or "joined"
    wpc,            \* the worker thread: "off", a place in its loop,
                    \* "returned", or "failed" when it returned an error
    input_msg_, inputMsgQue_, bboxQueue_,
    memory,         \* memory[b]: what the pointers of buffer b point to
    image,          \* what the buffers hold
    faults,         \* calls that have failed so far
    stale,          \* a failed copy has gone unnoticed
    evicted,        \* history: the frames pushed out of a full queue
    crashed         \* the process has ended in std::terminate or a bad access

deviceVars == <<memory, image, faults, stale>>
threadVars == <<running_, worker, wpc>>
engineVars == <<running_, worker, wpc, input_msg_, inputMsgQue_, bboxQueue_,
                memory, image, faults, stale, evicted, crashed>>

Frames == 1 .. MaxFrames

-----------------------------------------------------------------------------
\* The buffers: "src" is input_data_device_ of the preprocessor, "dst" is
\* output_img_device_, and "trt" the bindings, the host buffer and the stream
\* of TrtInfer, which are allocated and freed together.
Buffers == {"src", "dst", "trt"}

\* "wild": no member was ever initialized (no model file, Init gave up);
\* "void": there is no engine, but stream_ holds a stream or nullptr;
\* "live": allocated; "freed": dangling; "null": freed and nulled.
Pointers == {"wild", "void", "live", "freed", "null"}
NoEngine == memory["trt"] \in {"wild", "void"}

\* sizeof(float), and the floats of one network input: four stand for
\* dstimg_size_ of them, since only the quarters are told apart.
SizeofFloat == 4
dstimg_size_ == 4
Tensor == 1 .. dstimg_size_

\* A tensor made from the frame f alone.
Whole(f) == [i \in Tensor |-> f]

NoImages == [src |-> NoFrame, dst |-> NoFrame,
             input |-> Whole(NoFrame), output |-> Whole(NoFrame)]

\* The copy into the input binding: dstimg_size_ * sizeof(uint8_t) bytes.
CopiedFloats == dstimg_size_ \div SizeofFloat
CopiedIn(binding, f) ==
    [i \in Tensor |-> IF i <= CopiedFloats THEN f ELSE binding[i]]

Live(b) == memory[b] = "live"

\* A call on buffer b: it may fail where a fault is left, and always fails on
\* memory that is not there.
Works(b) == Live(b)
Fails(b) == ~Live(b) \/ faults < MaxFaults
CountFault(b) == faults' = IF Live(b) THEN faults + 1 ELSE faults

\* TrtInfer::MemFree nulls its pointers; the other two stay dangling.
Freed == [src |-> "freed", dst |-> "freed",
          trt |-> IF NoEngine THEN "void" ELSE "null"]

-----------------------------------------------------------------------------
\* A process that has not called Init.
EngineStart ==
    /\ running_ = FALSE /\ worker = "none" /\ wpc = "off"
    /\ input_msg_ = NewMsg /\ inputMsgQue_ = <<>> /\ bboxQueue_ = <<>>
    /\ memory = [b \in Buffers |-> "wild"]
    /\ image = NoImages
    /\ faults = 0 /\ stale = FALSE /\ evicted = {} /\ crashed = FALSE

\* A new InferenceEngine and its Init.  That TrtInfer::Init has failed is
\* not looked at.
EngineInit ==
    /\ running_' = FALSE /\ worker' = "none" /\ wpc' = "off"
    /\ input_msg_' = NewMsg /\ inputMsgQue_' = <<>> /\ bboxQueue_' = <<>>
    /\ \E trt \in EngineStates :
          memory' = [src |-> "live", dst |-> "live", trt |-> trt]
    /\ image' = NoImages
    /\ stale' = FALSE
    /\ UNCHANGED <<faults, evicted, crashed>>

\* RunStart.  The flag and the queues are reset before the new thread runs.
EngineRunStart ==
    /\ running_' = TRUE
    /\ inputMsgQue_' = <<>>
    /\ bboxQueue_' = <<>>
    /\ worker' = "joinable" /\ wpc' = "test"
    /\ UNCHANGED <<input_msg_, deviceVars, evicted, crashed>>

EngineClearNothing ==           \* mutant: the flag is not cleared
    UNCHANGED engineVars

EngineClearRunning ==
    /\ running_' = FALSE
    /\ UNCHANGED <<worker, wpc, input_msg_, inputMsgQue_, bboxQueue_,
                   deviceVars, evicted, crashed>>

\* The thread is no more, whatever it returned.
Ended == {"returned", "failed"}

EngineJoinAtOnce ==             \* mutant: the handle is given up, not joined
    /\ worker' = "joined"
    /\ UNCHANGED <<running_, wpc, input_msg_, inputMsgQue_, bboxQueue_,
                   deviceVars, evicted, crashed>>

EngineJoinForgotten ==          \* mutant: nobody calls join
    UNCHANGED engineVars

EngineJoin ==
    /\ worker = "joinable" => wpc \in Ended
    /\ worker' = "joined"
    /\ UNCHANGED <<running_, wpc, input_msg_, inputMsgQue_, bboxQueue_,
                   deviceVars, evicted, crashed>>

EngineReleaseAll ==             \* mutant: the output queue is cleared as well
    /\ inputMsgQue_' = <<>> /\ bboxQueue_' = <<>>
    /\ memory' = Freed
    /\ UNCHANGED <<threadVars, input_msg_, image, faults, stale, evicted,
                   crashed>>

\* DataResourceRelease: its result, which is about the last cudaFree, is not
\* looked at.  Destroying a stream_ that was never set may end the process.
EngineDataResourceRelease ==
    /\ inputMsgQue_' = <<>>
    /\ memory' = Freed
    /\ crashed' \in {FALSE, memory["trt"] = "wild"}
    /\ UNCHANGED <<threadVars, input_msg_, bboxQueue_, image, faults, stale,
                   evicted>>

\* The frames that a push onto q discards.
Evicted(q) == IF Len(q) < length_ THEN {} ELSE {Head(q).frame_id}

\* LoadData, by the main thread: a push that returns at once, whatever it
\* discards.
EngineLoadData(f) ==
    /\ inputMsgQue_' = Pushed(inputMsgQue_, FrameMsg(f))
    /\ evicted' = evicted \cup Evicted(inputMsgQue_)
    /\ UNCHANGED <<threadVars, input_msg_, bboxQueue_, deviceVars, crashed>>

-----------------------------------------------------------------------------
\* The worker thread, InferenceEngine::Inference.
WorkerGoTo(from, to) == wpc = from /\ wpc' = to

WorkerTest ==
    /\ running_
    /\ WorkerGoTo("test", "pop")
    /\ UNCHANGED <<running_, worker, input_msg_, inputMsgQue_, bboxQueue_,
                   deviceVars, evicted, crashed>>

WorkerExit ==
    /\ ~running_
    /\ WorkerGoTo("test", "returned")
    /\ running_' = FALSE
    /\ UNCHANGED <<worker, input_msg_, inputMsgQue_, bboxQueue_, deviceVars,
                   evicted, crashed>>

WorkerPopEmpty ==
    /\ inputMsgQue_ = <<>>
    /\ WorkerGoTo("pop", "test")
    /\ UNCHANGED <<running_, worker, input_msg_, inputMsgQue_, bboxQueue_,
                   deviceVars, evicted, crashed>>

WorkerPop ==
    /\ inputMsgQue_ # <<>>
    /\ WorkerGoTo("pop", "preprocess")
    /\ input_msg_' = Assign(input_msg_, Head(inputMsgQue_))
    /\ inputMsgQue_' = Tail(inputMsgQue_)
    /\ UNCHANGED <<running_, worker, bboxQueue_, deviceVars, evicted,
                   crashed>>

\* PreProcessor::GpuPreprocessor: the image goes to the device and is warped
\* into output_img_device_.  A failed copy is logged and forgotten.
Preprocess ==
    /\ WorkerGoTo("preprocess", "infer")
    /\ \/ /\ Works("src") /\ Works("dst")
          /\ image' = [image EXCEPT !.src = input_msg_.frame_id,
                                    !.dst = input_msg_.frame_id]
          /\ UNCHANGED <<faults, stale>>
       \/ /\ Fails("src")
          /\ CountFault("src")
          /\ image' = [image EXCEPT !.dst = image.src]
          /\ stale' = TRUE
    /\ UNCHANGED <<running_, worker, input_msg_, inputMsgQue_, bboxQueue_,
                   memory, evicted, crashed>>

\* The failure of one of TrtInfer's copies leaves the target as it was.
CopyFault == Fails("trt") /\ CountFault("trt") /\ stale' = TRUE
NoCopyFault == Works("trt") /\ UNCHANGED <<faults, stale>>

InferUnsynced ==                \* mutant: the copy back is not waited for
    /\ WorkerGoTo("infer", "decode")
    /\ ~NoEngine
    /\ LET bound == CopiedIn(image.input, image.dst)
       IN  /\ NoCopyFault
           /\ image' = [image EXCEPT !.input = bound]
    /\ UNCHANGED <<running_, worker, input_msg_, inputMsgQue_, bboxQueue_,
                   memory, evicted, crashed>>

\* TrtInfer::Inference, enqueueV2 succeeding: in, compute, out, synchronize.
Infer ==
    /\ WorkerGoTo("infer", "decode")
    /\ ~NoEngine
    /\ LET bound == CopiedIn(image.input, image.dst)
       IN  \/ /\ NoCopyFault
              /\ image' = [image EXCEPT !.input = bound, !.output = bound]
           \/ /\ CopyFault          \* of the copy into the binding
              /\ image' = [image EXCEPT !.output = image.input]
           \/ /\ CopyFault          \* of the copy back to the host
              /\ image' = [image EXCEPT !.input = bound]
    /\ UNCHANGED <<running_, worker, input_msg_, inputMsgQue_, bboxQueue_,
                   memory, evicted, crashed>>

\* enqueueV2 fails: the worker returns from the middle of its loop, and
\* running_ stays true.
InferFail ==
    /\ WorkerGoTo("infer", "failed")
    /\ ~NoEngine
    /\ Fails("trt") /\ CountFault("trt")
    /\ image' = [image EXCEPT !.input = CopiedIn(image.input, image.dst)]
    /\ UNCHANGED <<running_, worker, input_msg_, inputMsgQue_, bboxQueue_,
                   memory, stale, evicted, crashed>>

\* Without an engine there is no binding_names_["input"][0] and no context.
InferCrash ==
    /\ wpc = "infer"
    /\ NoEngine
    /\ crashed' = TRUE
    /\ UNCHANGED <<threadVars, input_msg_, inputMsgQue_, bboxQueue_,
                   deviceVars, evicted>>

\* The message that DecodeProcessor::Inference makes: a copy of the frame's
\* with one box, which stands for all boxes decoded from the host buffer.
Decoded ==
    [Assign(NewMsg, input_msg_) EXCEPT !.bboxes = Append(@, image.output)]

Decode ==
    /\ WorkerGoTo("decode", "test")
    /\ bboxQueue_' = Pushed(bboxQueue_, Decoded)
    /\ evicted' = evicted \cup Evicted(bboxQueue_)
    /\ UNCHANGED <<running_, worker, input_msg_, inputMsgQue_, deviceVars,
                   crashed>>

Worker ==
    \/ WorkerTest \/ WorkerExit \/ WorkerPopEmpty \/ WorkerPop
    \/ Preprocess \/ Infer \/ InferFail \/ InferCrash \/ Decode

\* The worker has a frame in hand.
WorkerBusy == wpc \in {"preprocess", "infer", "decode"}

\* The worker gave up on a frame, and nobody was told.
WorkerDead == wpc = "failed"

-----------------------------------------------------------------------------
Messages == [frame_id : 0 .. MaxFrames,
             bboxes : Seq([Tensor -> 0 .. MaxFrames])]

EngineTypeOK ==
    /\ running_ \in BOOLEAN
    /\ worker \in {"none", "joinable", "joined"}
    /\ wpc \in {"off", "test", "pop", "preprocess", "infer", "decode"}
                \cup Ended
    /\ input_msg_ \in Messages
    /\ inputMsgQue_ \in Seq(Messages) /\ Len(inputMsgQue_) <= length_
    /\ bboxQueue_ \in Seq(Messages) /\ Len(bboxQueue_) <= length_
    /\ memory \in [Buffers -> Pointers]
    /\ image \in [src : 0 .. MaxFrames, dst : 0 .. MaxFrames,
                  input : [Tensor -> 0 .. MaxFrames],
                  output : [Tensor -> 0 .. MaxFrames]]
    /\ faults \in 0 .. MaxFaults /\ stale \in BOOLEAN
    /\ evicted \subseteq Frames /\ crashed \in BOOLEAN
=============================================================================
