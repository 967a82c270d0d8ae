------------------------ MODULE InferPipelineProofs ------------------------
(***************************************************************************)
(* Theorems about InferPipeline for every queue length, every number of    *)
(* frames, faults and initializations, and every program: Allowed is       *)
(* arbitrary unless a theorem restricts it.                                *)
(***************************************************************************)
EXTENDS InferPipeline, SequenceTheorems, TLAPS

\* The constructor's std::max makes room for at least one entry.
LEMMA LengthType == length_ \in Nat /\ length_ >= 1
BY LengthAssumption DEF length_

\* What Tail and Head do to a nonempty queue.
LEMMA TailFacts ==
    ASSUME NEW S, NEW q \in Seq(S), q # <<>>
    PROVE  /\ Tail(q) \in Seq(S)
           /\ Len(Tail(q)) = Len(q) - 1
           /\ Head(q) \in S
           /\ Head(q) = q[1]
           /\ Len(q) \in Nat \ {0}
           /\ \A i \in 1 .. Len(q) - 1 : Tail(q)[i] = q[i + 1]
OBVIOUS

-----------------------------------------------------------------------------
\* The frames in a queue are in the order of their numbers, ...
Increasing(q) ==
    \A a, b \in 1 .. Len(q) : a < b => q[a].frame_id < q[b].frame_id

\* ... and the frames in S are older than those in T.
Precedes(S, T) == \A f \in S, g \in T : f < g

\* A push keeps the type and the bound of a queue.
LEMMA PushedType ==
    ASSUME NEW S, NEW q \in Seq(S), Len(q) <= length_, NEW m \in S
    PROVE  Pushed(q, m) \in Seq(S) /\ Len(Pushed(q, m)) <= length_
<1>1. CASE Len(q) < length_
  BY <1>1, LengthType DEF Pushed
<1>2. CASE Len(q) = length_
  <2>1. q # <<>>
    BY <1>2, LengthType
  <2> QED
    BY <1>2, <2>1, TailFacts, LengthType DEF Pushed
<1> QED
  BY <1>1, <1>2, LengthType

\* The frames of an empty queue, of a queue and its tail, of an extended one.
LEMMA QueueFrames ==
    ASSUME NEW q \in Seq(Messages), NEW m \in Messages
    PROVE  /\ InQueue(<<>>) = {}
           /\ InQueue(Append(q, m)) = InQueue(q) \cup {m.frame_id}
           /\ q # <<>> =>
                InQueue(q) = {Head(q).frame_id} \cup InQueue(Tail(q))
<1>1. InQueue(<<>>) = {}
  BY DEF InQueue
<1>2. InQueue(Append(q, m)) = InQueue(q) \cup {m.frame_id}
  <2>1. /\ Len(Append(q, m)) = Len(q) + 1
        /\ \A i \in 1 .. Len(q) : Append(q, m)[i] = q[i]
        /\ Append(q, m)[Len(q) + 1] = m
        /\ Len(q) \in Nat
    OBVIOUS
  <2> QED
    BY <2>1 DEF InQueue
<1>3. ASSUME q # <<>>
      PROVE  InQueue(q) = {Head(q).frame_id} \cup InQueue(Tail(q))
  <2>1. ASSUME NEW i \in 1 .. Len(q)
        PROVE  q[i].frame_id \in {Head(q).frame_id} \cup InQueue(Tail(q))
    <3>1. CASE i = 1
      BY <1>3, <3>1, TailFacts
    <3>2. CASE i > 1
      <4>1. i - 1 \in 1 .. Len(Tail(q)) /\ Tail(q)[i - 1] = q[i]
        BY <1>3, <3>2, TailFacts
      <4> QED
        BY <4>1 DEF InQueue
    <3> QED
      BY <3>1, <3>2
  <2>2. ASSUME NEW i \in 1 .. Len(Tail(q))
        PROVE  Tail(q)[i].frame_id \in InQueue(q)
    <3>1. i + 1 \in 1 .. Len(q) /\ Tail(q)[i] = q[i + 1]
      BY <1>3, TailFacts
    <3> QED
      BY <3>1 DEF InQueue
  <2>3. Head(q).frame_id \in InQueue(q)
    BY <1>3, TailFacts DEF InQueue
  <2> QED
    BY <2>1, <2>2, <2>3 DEF InQueue
<1> QED
  BY <1>1, <1>2, <1>3

\* An increasing queue stays so when its head is taken, and the head is the
\* least of its frames.
LEMMA IncreasingTail ==
    ASSUME NEW q \in Seq(Messages), Increasing(q), q # <<>>
    PROVE  /\ Increasing(Tail(q))
           /\ \A f \in InQueue(Tail(q)) : Head(q).frame_id < f
BY TailFacts DEF Increasing, InQueue

\* It stays so when a later frame is appended, ...
LEMMA IncreasingAppend ==
    ASSUME NEW q \in Seq(Messages), Increasing(q), NEW m \in Messages,
           \A f \in InQueue(q) : f < m.frame_id
    PROVE  Increasing(Append(q, m))
<1> SUFFICES ASSUME NEW a \in 1 .. Len(q) + 1, NEW b \in 1 .. Len(q) + 1,
                    a < b
             PROVE  Append(q, m)[a].frame_id < Append(q, m)[b].frame_id
  BY AppendProperties DEF Increasing
<1>1. a \in 1 .. Len(q) /\ Append(q, m)[a] = q[a]
  BY AppendProperties
<1>2. CASE b = Len(q) + 1
  BY <1>1, <1>2, AppendProperties DEF InQueue
<1>3. CASE b \in 1 .. Len(q)
  BY <1>1, <1>3, AppendProperties DEF Increasing
<1> QED
  BY <1>2, <1>3

\* ... and so when it is pushed, which costs the queue its head at most.
LEMMA IncreasingPushed ==
    ASSUME NEW q \in Seq(Messages), Increasing(q), Len(q) <= length_,
           NEW m \in Messages, \A f \in InQueue(q) : f < m.frame_id
    PROVE  /\ Increasing(Pushed(q, m))
           /\ InQueue(Pushed(q, m))
                = (InQueue(q) \ Evicted(q)) \cup {m.frame_id}
           /\ Evicted(q) \subseteq InQueue(q)
<1>1. CASE Len(q) < length_
  BY <1>1, IncreasingAppend, QueueFrames DEF Pushed, Evicted
<1>2. CASE Len(q) = length_
  <2>1. q # <<>>
    BY <1>2, LengthType
  <2>2. Tail(q) \in Seq(Messages) /\ Increasing(Tail(q))
    BY <2>1, TailFacts, IncreasingTail
  <2>3. InQueue(q) = {Head(q).frame_id} \cup InQueue(Tail(q))
    BY <2>1, QueueFrames
  <2>4. \A f \in InQueue(Tail(q)) : Head(q).frame_id < f
    BY <2>1, IncreasingTail
  <2>5. Pushed(q, m) = Append(Tail(q), m) /\ Evicted(q) = {Head(q).frame_id}
    BY <1>2, LengthType DEF Pushed, Evicted
  <2>6. Increasing(Append(Tail(q), m))
    BY <2>2, <2>3, IncreasingAppend
  <2>7. InQueue(Append(Tail(q), m)) = InQueue(Tail(q)) \cup {m.frame_id}
    BY <2>2, QueueFrames
  <2>8. Head(q).frame_id \in Int
    <3>1. Head(q) \in Messages
      BY <2>1, TailFacts
    <3> QED
      BY <3>1, EngineAssumption DEF Messages
  <2>9. Head(q).frame_id \notin InQueue(Tail(q))
    BY <2>4, <2>8
  <2>10. Head(q).frame_id # m.frame_id
    <3>1. m.frame_id \in Int
      BY EngineAssumption DEF Messages
    <3>2. Head(q).frame_id < m.frame_id
      BY <2>3
    <3> QED
      BY <2>8, <3>1, <3>2
  <2> QED
    BY <2>3, <2>5, <2>6, <2>7, <2>9, <2>10
<1> QED
  BY <1>1, <1>2, LengthType
-----------------------------------------------------------------------------
(***************************************************************************)
(* Where the frames are.  From the post-processor backwards, the numbers   *)
(* of the frames increase: through the boxes, the frame in the worker's    *)
(* hand, and the frames that wait for it.                                  *)
(***************************************************************************)
Ordered ==
    /\ Increasing(bboxQueue_) /\ Increasing(inputMsgQue_)
    /\ Precedes(InQueue(bboxQueue_), InHand)
    /\ Precedes(InQueue(bboxQueue_), InQueue(inputMsgQue_))
    /\ Precedes(InHand, InQueue(inputMsgQue_))
    /\ InFlight \subseteq 1 .. loaded

\* A step that moves no frame forward: queues stay or are cleared, and the
\* worker keeps its frame or drops it.
Quiet ==
    /\ inputMsgQue_' \in {inputMsgQue_, <<>>}
    /\ bboxQueue_' \in {bboxQueue_, <<>>}
    /\ InHand' \subseteq InHand
    /\ UNCHANGED <<loaded, delivered, evicted>>

\* Only four steps move a frame.
LEMMA StepKinds ==
    ASSUME [Next]_vars
    PROVE  \/ Quiet
           \/ CallLoadData
           \/ WorkerPop /\ UNCHANGED <<postVars, mainVars>>
           \/ Decode /\ UNCHANGED <<postVars, mainVars>>
           \/ PostPop /\ UNCHANGED mainVars
<1> USE DEF Quiet, InHand, WorkerBusy, deviceVars, threadVars, engineVars,
            postVars, postThreadVars, engineOwnVars, mainVars, history,
            Next_, Return, At, Goes, WorkerGoTo, PostGoTo
<1>1. CASE CallTooEarly
  BY <1>1 DEF CallTooEarly, Crash
<1>2. CASE CallInit
  BY <1>2 DEF CallInit, EngineInit, PostInit
<1>3. CASE CallInitCrash \/ CallStartCrash
  BY <1>3 DEF CallInitCrash, CallStartCrash, Crash
<1>4. CASE CallStart
  BY <1>4 DEF CallStart, EngineRunStart
<1>5. CASE CallStop \/ CallRelease
  BY <1>5 DEF CallStop, CallRelease
<1>6. CASE StartPost
  BY <1>6 DEF StartPost, PostRunStart
<1>7. CASE Drain \/ ClearRunning \/ Join
  BY <1>7 DEF Drain, ClearRunning, EngineClearRunning, Join, EngineJoin
<1>8. CASE JoinCrash
  BY <1>8 DEF JoinCrash, Crash
<1>9. CASE Free
  BY <1>9 DEF Free, EngineDataResourceRelease
<1>10. CASE PostDrain \/ PostClear \/ PostJoined
  BY <1>10 DEF PostDrain, PostClear, PostClearRunning, PostJoined, PostJoin
<1>11. CASE PostFree
  BY <1>11 DEF PostFree, PostDataResourceRelease
<1>12. CASE EngineThread
  <2>1. CASE WorkerTest \/ WorkerExit \/ WorkerPopEmpty
    BY <1>12, <2>1 DEF EngineThread, WorkerTest, WorkerExit, WorkerPopEmpty
  <2>2. CASE Preprocess
    BY <1>12, <2>2 DEF EngineThread, Preprocess
  <2>3. CASE Infer
    BY <1>12, <2>3 DEF EngineThread, Infer
  <2>4. CASE InferFail \/ InferCrash
    BY <1>12, <2>4 DEF EngineThread, InferFail, InferCrash
  <2> QED
    BY <1>12, <2>1, <2>2, <2>3, <2>4 DEF EngineThread, Worker
<1>13. CASE PostThread
  <2>1. CASE PostTest \/ PostExit \/ PostPopEmpty
    BY <1>13, <2>1 DEF PostThread, PostTest, PostExit, PostPopEmpty
  <2> QED
    BY <1>13, <2>1 DEF PostThread, PostWorker
<1>14. CASE UNCHANGED vars
  BY <1>14 DEF vars
<1> QED
  BY <1>1, <1>2, <1>3, <1>4, <1>5, <1>6, <1>7, <1>8, <1>9, <1>10, <1>11,
     <1>12, <1>13, <1>14
  DEF Next, MainCalls, MainWorks

-----------------------------------------------------------------------------
\* Messages are made of messages.
LEMMA AssignType ==
    ASSUME NEW a \in Messages, NEW b \in Messages
    PROVE  Assign(a, b) \in Messages /\ Assign(a, b).frame_id = b.frame_id
<1>1. a.bboxes \o b.bboxes \in Seq([Tensor -> 0 .. MaxFrames])
  BY ConcatProperties DEF Messages
<1> QED
  BY <1>1 DEF Assign, Messages

LEMMA NewType == NewMsg \in Messages
BY EngineAssumption DEF NewMsg, Messages, NoFrame

LEMMA FrameType ==
    ASSUME NEW f \in 1 .. MaxFrames
    PROVE  FrameMsg(f) \in Messages /\ FrameMsg(f).frame_id = f
BY EngineAssumption DEF FrameMsg, Messages

LEMMA DecodedType ==
    ASSUME input_msg_ \in Messages,
           image.output \in [Tensor -> 0 .. MaxFrames]
    PROVE  Decoded \in Messages /\ Decoded.frame_id = input_msg_.frame_id
<1> DEFINE m == Assign(NewMsg, input_msg_)
<1>1. m \in Messages /\ m.frame_id = input_msg_.frame_id
  BY NewType, AssignType
<1>2. Append(m.bboxes, image.output) \in Seq([Tensor -> 0 .. MaxFrames])
  BY <1>1 DEF Messages
<1>3. Decoded = [m EXCEPT !.bboxes = Append(@, image.output)]
  BY DEF Decoded
<1> HIDE DEF m
<1> QED
  BY <1>1, <1>2, <1>3 DEF Messages

-----------------------------------------------------------------------------
\* Every variable keeps its type.  That the frames evicted and delivered were
\* handed in is part of it, and follows from where they come from.
ImageType == [src : 0 .. MaxFrames, dst : 0 .. MaxFrames,
              input : [Tensor -> 0 .. MaxFrames],
              output : [Tensor -> 0 .. MaxFrames]]

LEMMA EvictedType ==
    ASSUME NEW q \in Seq(Messages)
    PROVE  Evicted(q) \subseteq InQueue(q)
<1>1. CASE q = <<>>
  BY <1>1, LengthType DEF Evicted
<1>2. CASE q # <<>>
  BY <1>2, TailFacts DEF Evicted, InQueue
<1> QED
  BY <1>1, <1>2

LEMMA FaultType ==
    ASSUME NEW b, faults \in 0 .. MaxFaults, Fails(b), CountFault(b)
    PROVE  faults' \in 0 .. MaxFaults
BY EngineAssumption DEF Fails, CountFault

\* The frames in the pipeline are frames that were handed in.
LEMMA FlightType ==
    ASSUME Ordered, loaded \in 0 .. MaxFrames
    PROVE  /\ InQueue(bboxQueue_) \subseteq Frames
           /\ InQueue(inputMsgQue_) \subseteq Frames
<1>1. InFlight \subseteq Frames
  BY EngineAssumption DEF Ordered, Frames
<1> QED
  BY <1>1 DEF InFlight

LEMMA WorkerTypes ==
    ASSUME EngineTypeOK, Ordered, loaded \in 0 .. MaxFrames, Worker
    PROVE  EngineTypeOK'
<1> USE EngineAssumption, LengthType
    DEF EngineTypeOK, ImageType, deviceVars, threadVars, WorkerGoTo, Ended
<1>1. CASE WorkerTest \/ WorkerExit \/ WorkerPopEmpty
  BY <1>1 DEF WorkerTest, WorkerExit, WorkerPopEmpty
<1>2. CASE WorkerPop
  <2>1. Assign(input_msg_, Head(inputMsgQue_)) \in Messages
    BY <1>2, TailFacts, AssignType DEF WorkerPop
  <2>2. /\ Tail(inputMsgQue_) \in Seq(Messages)
        /\ Len(Tail(inputMsgQue_)) <= length_
    BY <1>2, TailFacts DEF WorkerPop
  <2> QED
    BY <1>2, <2>1, <2>2 DEF WorkerPop
<1>3. CASE Preprocess
  <2>1. image' \in ImageType
    BY <1>3 DEF Preprocess, Messages
  <2>2. faults' \in 0 .. MaxFaults /\ stale' \in BOOLEAN
    BY <1>3, FaultType DEF Preprocess
  <2> QED
    BY <1>3, <2>1, <2>2 DEF Preprocess
<1>4. CopiedIn(image.input, image.dst) \in [Tensor -> 0 .. MaxFrames]
  BY DEF CopiedIn
<1>5. CASE Infer
  <2>1. image' \in ImageType
    BY <1>4, <1>5 DEF Infer
  <2>2. faults' \in 0 .. MaxFaults /\ stale' \in BOOLEAN
    BY <1>5, FaultType DEF Infer, CopyFault, NoCopyFault
  <2> QED
    BY <1>5, <2>1, <2>2 DEF Infer
<1>6. CASE InferFail
  <2>1. image' \in ImageType
    BY <1>4, <1>6 DEF InferFail
  <2>2. faults' \in 0 .. MaxFaults
    BY <1>6, FaultType DEF InferFail
  <2> QED
    BY <1>6, <2>1, <2>2 DEF InferFail
<1>7. CASE InferCrash
  BY <1>7 DEF InferCrash
<1>8. CASE Decode
  <2>1. bboxQueue_' \in Seq(Messages) /\ Len(bboxQueue_') <= length_
    BY <1>8, DecodedType, PushedType DEF Decode
  <2>2. evicted' \subseteq Frames
    BY <1>8, EvictedType, FlightType DEF Decode
  <2> QED
    BY <1>8, <2>1, <2>2 DEF Decode
<1> QED
  BY <1>1, <1>2, <1>3, <1>5, <1>6, <1>7, <1>8 DEF Worker

LEMMA TypeInductive == TypeOK /\ Ordered /\ [Next]_vars => TypeOK'
<1> SUFFICES ASSUME TypeOK, Ordered, [Next]_vars PROVE TypeOK'
  OBVIOUS
<1> USE DEF TypeOK, deviceVars, threadVars, engineVars, postVars,
            postThreadVars, engineOwnVars, mainVars, history,
            Next_, Return, At, Goes, PostGoTo, Ended
<1>1. UNCHANGED engineVars => EngineTypeOK'
  BY DEF EngineTypeOK
<1>2. UNCHANGED postVars => PostTypeOK'
  BY DEF PostTypeOK
<1>3. UNCHANGED mainVars => MainTypeOK'
  BY DEF MainTypeOK
<1>c. Crash /\ misused' \in BOOLEAN => TypeOK'
  BY <1>2 DEF Crash, EngineTypeOK, MainTypeOK
<1>m. ASSUME NEW c, Makes(c) PROVE misused' \in BOOLEAN
  BY <1>m DEF Makes
<1>4. CASE CallTooEarly \/ CallInitCrash \/ CallStartCrash
  <2>1. misused' \in BOOLEAN
    BY <1>4, <1>m DEF CallTooEarly, CallInitCrash, CallStartCrash
  <2> QED
    BY <1>4, <1>c, <2>1 DEF CallTooEarly, CallInitCrash, CallStartCrash
<1>5. CASE JoinCrash
  BY <1>5, <1>c DEF JoinCrash, MainTypeOK
<1>6. CASE CallInit
  <2>1. memory' \in [Buffers -> Pointers]
    BY <1>6, EngineAssumption DEF CallInit, EngineInit, Buffers, Pointers
  <2>2. image' \in ImageType
    BY <1>6, EngineAssumption
    DEF CallInit, EngineInit, NoImages, Whole, NoFrame, ImageType
  <2>3. EngineTypeOK'
    <3>1. /\ inputMsgQue_' = <<>> /\ bboxQueue_' = <<>>
          /\ input_msg_' = NewMsg
          /\ running_' = FALSE /\ worker' = "none" /\ wpc' = "off"
          /\ stale' = FALSE
          /\ UNCHANGED <<faults, evicted, crashed>>
      BY <1>6 DEF CallInit, EngineInit
    <3>2. /\ <<>> \in Seq(Messages) /\ Len(<<>>) <= length_
          /\ input_msg_' \in Messages
      BY <3>1, NewType, LengthType
    <3> QED
      BY <2>1, <2>2, <3>1, <3>2 DEF EngineTypeOK, ImageType
  <2>4. PostTypeOK'
    BY <1>6, NewType DEF CallInit, PostInit, PostTypeOK
  <2>5. inits' \in 0 .. MaxInits
    BY <1>6, AllowedAssumption DEF CallInit, MainTypeOK
  <2>6. MainTypeOK'
    BY <1>6, <2>5 DEF CallInit, Makes, MainTypeOK, Phases
  <2> QED
    BY <2>3, <2>4, <2>6
<1>7. CASE CallStart
  <2>1. EngineTypeOK'
    BY <1>7, LengthType DEF CallStart, EngineRunStart, EngineTypeOK
  <2>2. MainTypeOK'
    BY <1>7, EngineAssumption DEF CallStart, Makes, MainTypeOK
  <2> QED
    BY <1>2, <1>7, <2>1, <2>2 DEF CallStart
<1>8. CASE CallStop \/ CallRelease
  BY <1>1, <1>2, <1>8 DEF CallStop, CallRelease, Makes, MainTypeOK
<1>9. CASE CallLoadData
  <2>1. /\ FrameMsg(loaded + 1) \in Messages
        /\ loaded' \in 1 .. MaxFrames /\ loaded' = loaded + 1
    BY <1>9, FrameType, EngineAssumption DEF CallLoadData, MainTypeOK
  <2>2. inputMsgQue_' \in Seq(Messages) /\ Len(inputMsgQue_') <= length_
    BY <1>9, <2>1, PushedType DEF CallLoadData, EngineLoadData, EngineTypeOK
  <2>3. evicted' \subseteq Frames
    BY <1>9, EvictedType, FlightType
    DEF CallLoadData, EngineLoadData, EngineTypeOK, MainTypeOK
  <2>4. EngineTypeOK'
    BY <1>9, <2>2, <2>3 DEF CallLoadData, EngineLoadData, EngineTypeOK
  <2>5. MainTypeOK'
    BY <1>9, <2>1 DEF CallLoadData, Makes, MainTypeOK
  <2> QED
    BY <1>2, <1>9, <2>4, <2>5 DEF CallLoadData
<1>10. CASE StartPost
  <2>1. PostTypeOK' /\ MainTypeOK'
    BY <1>10 DEF StartPost, PostRunStart, PostTypeOK, MainTypeOK, Phases
  <2> QED
    BY <1>1, <1>10, <2>1 DEF StartPost
<1>11. CASE Drain
  BY <1>1, <1>2, <1>11 DEF Drain, MainTypeOK
<1>12. CASE ClearRunning
  BY <1>2, <1>12
  DEF ClearRunning, EngineClearRunning, EngineTypeOK, MainTypeOK
<1>13. CASE Join
  BY <1>2, <1>13 DEF Join, EngineJoin, EngineTypeOK, MainTypeOK
<1>14. CASE Free
  <2>1. memory' \in [Buffers -> Pointers]
    BY <1>14
    DEF Free, EngineDataResourceRelease, Freed, Buffers, Pointers
  <2>2. crashed' \in BOOLEAN
    <3>1. crashed' \in {FALSE, memory["trt"] = "wild"}
      BY <1>14 DEF Free, EngineDataResourceRelease
    <3>2. (memory["trt"] = "wild") \in BOOLEAN
      OBVIOUS
    <3> QED
      BY <3>1, <3>2, Zenon
  <2>3. EngineTypeOK'
    <3>1. /\ inputMsgQue_' = <<>>
          /\ UNCHANGED <<threadVars, input_msg_, bboxQueue_, image, faults,
                         stale, evicted>>
      BY <1>14 DEF Free, EngineDataResourceRelease
    <3> QED
      BY <2>1, <2>2, <3>1, LengthType DEF EngineTypeOK
  <2> QED
    BY <1>2, <1>14, <2>3 DEF Free, MainTypeOK
<1>15. CASE PostDrain
  BY <1>1, <1>2, <1>15 DEF PostDrain, MainTypeOK
<1>16. CASE PostClear \/ PostJoined
  BY <1>1, <1>16
  DEF PostClear, PostClearRunning, PostJoined, PostJoin, PostTypeOK,
      MainTypeOK
<1>17. CASE PostFree
  BY <1>2, <1>17, LengthType
  DEF PostFree, PostDataResourceRelease, EngineTypeOK, MainTypeOK, Phases
<1>18. CASE EngineThread
  BY <1>2, <1>3, <1>18, WorkerTypes DEF EngineThread, MainTypeOK
<1>19. CASE PostThread
  <2>1. CASE PostTest \/ PostExit \/ PostPopEmpty
    BY <1>1, <1>3, <1>19, <2>1
    DEF PostThread, PostTest, PostExit, PostPopEmpty, PostTypeOK
  <2>2. CASE PostPop
    <3>1. Assign(output_msg_, Head(bboxQueue_)) \in Messages
      BY <2>2, TailFacts, AssignType DEF PostPop, PostTypeOK, EngineTypeOK
    <3>2. /\ Tail(bboxQueue_) \in Seq(Messages)
          /\ Len(Tail(bboxQueue_)) <= length_
      BY <2>2, TailFacts, LengthType DEF PostPop, EngineTypeOK
    <3>3. Head(bboxQueue_).frame_id \in Frames
      BY <2>2, TailFacts, FlightType
      DEF PostPop, InQueue, EngineTypeOK, MainTypeOK
    <3>4. EngineTypeOK'
      BY <2>2, <3>2 DEF PostPop, EngineTypeOK
    <3>5. PostTypeOK'
      BY <2>2, <3>1, <3>3 DEF PostPop, PostTypeOK
    <3> QED
      BY <1>3, <1>19, <3>4, <3>5 DEF PostThread
  <2> QED
    BY <1>19, <2>1, <2>2 DEF PostThread, PostWorker
<1>20. CASE UNCHANGED vars
  BY <1>1, <1>2, <1>3, <1>20 DEF vars
<1> QED
  BY <1>4, <1>5, <1>6, <1>7, <1>8, <1>9, <1>10, <1>11, <1>12, <1>13, <1>14,
     <1>15, <1>16, <1>17, <1>18, <1>19, <1>20
  DEF Next, MainCalls, MainWorks

-----------------------------------------------------------------------------
\* What each of the four moving steps does to the frames; frame numbers are
\* integers throughout.
LEMMA FramesAreInts ==
    ASSUME TypeOK, Ordered
    PROVE  /\ InQueue(bboxQueue_) \subseteq 1 .. loaded
           /\ InQueue(inputMsgQue_) \subseteq 1 .. loaded
           /\ InHand \subseteq 1 .. loaded
           /\ loaded \in 0 .. MaxFrames
BY DEF TypeOK, MainTypeOK, Ordered, InFlight

LEMMA LoadMoves ==
    ASSUME TypeOK, Ordered, CallLoadData
    PROVE  /\ loaded' = loaded + 1
           /\ Increasing(inputMsgQue_')
           /\ InQueue(inputMsgQue_')
                = (InQueue(inputMsgQue_) \ Evicted(inputMsgQue_))
                    \cup {loaded + 1}
           /\ Evicted(inputMsgQue_) \subseteq InQueue(inputMsgQue_)
           /\ evicted' = evicted \cup Evicted(inputMsgQue_)
           /\ bboxQueue_' = bboxQueue_ /\ InHand' = InHand
           /\ UNCHANGED <<delivered, wpc, input_msg_>>
<1>1. loaded + 1 \in 1 .. MaxFrames
  BY EngineAssumption DEF CallLoadData, TypeOK, MainTypeOK
<1>2. \A f \in InQueue(inputMsgQue_) : f < FrameMsg(loaded + 1).frame_id
  BY <1>1, FramesAreInts, FrameType
<1>3. inputMsgQue_' = Pushed(inputMsgQue_, FrameMsg(loaded + 1))
  BY DEF CallLoadData, EngineLoadData
<1>4. inputMsgQue_ \in Seq(Messages) /\ Len(inputMsgQue_) <= length_
  BY DEF TypeOK, EngineTypeOK
<1>5. Increasing(inputMsgQue_)
  BY DEF Ordered
<1>6. /\ FrameMsg(loaded + 1) \in Messages
      /\ FrameMsg(loaded + 1).frame_id = loaded + 1
  BY <1>1, FrameType
<1>7. /\ Increasing(inputMsgQue_')
      /\ InQueue(inputMsgQue_')
            = (InQueue(inputMsgQue_) \ Evicted(inputMsgQue_)) \cup {loaded + 1}
      /\ Evicted(inputMsgQue_) \subseteq InQueue(inputMsgQue_)
  BY <1>2, <1>3, <1>4, <1>5, <1>6, IncreasingPushed
<1> QED
  BY <1>7
  DEF CallLoadData, EngineLoadData, postVars, threadVars, InHand, WorkerBusy

LEMMA PopMoves ==
    ASSUME TypeOK, Ordered, WorkerPop, UNCHANGED <<postVars, mainVars>>
    PROVE  /\ InHand = {}
           /\ InHand' = {Head(inputMsgQue_).frame_id}
           /\ InQueue(inputMsgQue_) = InHand' \cup InQueue(inputMsgQue_')
           /\ Increasing(inputMsgQue_')
           /\ Precedes(InHand', InQueue(inputMsgQue_'))
           /\ UNCHANGED <<bboxQueue_, loaded, delivered, evicted>>
           /\ ~WorkerDead /\ ~WorkerDead'
<1>1. /\ inputMsgQue_ \in Seq(Messages) /\ inputMsgQue_ # <<>>
      /\ input_msg_ \in Messages /\ Increasing(inputMsgQue_)
      /\ inputMsgQue_' = Tail(inputMsgQue_)
  BY DEF TypeOK, EngineTypeOK, Ordered, WorkerPop
<1>2. input_msg_'.frame_id = Head(inputMsgQue_).frame_id
  BY <1>1, TailFacts, AssignType DEF WorkerPop
<1>3. /\ InHand = {} /\ InHand' = {Head(inputMsgQue_).frame_id}
      /\ ~WorkerDead /\ ~WorkerDead'
  BY <1>2 DEF InHand, WorkerBusy, WorkerDead, WorkerPop, WorkerGoTo
<1>4. NewMsg \in Messages
  BY NewType
<1> QED
  BY <1>1, <1>3, <1>4, QueueFrames, IncreasingTail
  DEF Precedes, WorkerPop, postVars, mainVars

LEMMA DecodeMoves ==
    ASSUME TypeOK, Ordered, Decode, UNCHANGED <<postVars, mainVars>>
    PROVE  /\ InHand = {input_msg_.frame_id} /\ InHand' = {}
           /\ Increasing(bboxQueue_')
           /\ InQueue(bboxQueue_')
                = (InQueue(bboxQueue_) \ Evicted(bboxQueue_)) \cup InHand
           /\ Evicted(bboxQueue_) \subseteq InQueue(bboxQueue_)
           /\ evicted' = evicted \cup Evicted(bboxQueue_)
           /\ UNCHANGED <<inputMsgQue_, loaded, delivered>>
           /\ ~WorkerDead /\ ~WorkerDead'
<1>1. /\ bboxQueue_ \in Seq(Messages) /\ Len(bboxQueue_) <= length_
      /\ Increasing(bboxQueue_)
      /\ input_msg_ \in Messages
      /\ image.output \in [Tensor -> 0 .. MaxFrames]
      /\ bboxQueue_' = Pushed(bboxQueue_, Decoded)
  BY DEF TypeOK, EngineTypeOK, Ordered, Decode
<1>2. Decoded \in Messages /\ Decoded.frame_id = input_msg_.frame_id
  BY <1>1, DecodedType
<1>3. /\ InHand = {input_msg_.frame_id} /\ InHand' = {}
      /\ ~WorkerDead /\ ~WorkerDead'
  BY DEF InHand, WorkerBusy, WorkerDead, Decode, WorkerGoTo
<1>4. \A f \in InQueue(bboxQueue_) : f < Decoded.frame_id
  BY <1>2, <1>3 DEF Ordered, Precedes
<1> QED
  BY <1>1, <1>2, <1>3, <1>4, IncreasingPushed
  DEF Decode, postVars, mainVars

LEMMA DeliverMoves ==
    ASSUME TypeOK, Ordered, PostPop, UNCHANGED mainVars
    PROVE  LET f == Head(bboxQueue_).frame_id
           IN  /\ f \in InQueue(bboxQueue_)
               /\ InQueue(bboxQueue_) = {f} \cup InQueue(bboxQueue_')
               /\ Precedes({f}, InQueue(bboxQueue_'))
               /\ Increasing(bboxQueue_')
               /\ delivered' = Append(delivered, f)
               /\ InHand' = InHand
               /\ UNCHANGED <<inputMsgQue_, loaded, evicted, wpc,
                              input_msg_>>
<1>1. /\ bboxQueue_ \in Seq(Messages) /\ bboxQueue_ # <<>>
      /\ Increasing(bboxQueue_)
      /\ bboxQueue_' = Tail(bboxQueue_)
  BY DEF TypeOK, EngineTypeOK, Ordered, PostPop
<1>2. NewMsg \in Messages
  BY NewType
<1> QED
  BY <1>1, <1>2, QueueFrames, IncreasingTail
  DEF Precedes, PostPop, engineOwnVars, mainVars, InHand, WorkerBusy

\* The order of the frames is never disturbed.
LEMMA OrderInductive == TypeOK /\ Ordered /\ [Next]_vars => Ordered'
<1> SUFFICES ASSUME TypeOK, Ordered, [Next]_vars PROVE Ordered'
  OBVIOUS
<1>i. /\ InQueue(bboxQueue_) \subseteq Int
      /\ InQueue(inputMsgQue_) \subseteq Int
      /\ InHand \subseteq Int
      /\ loaded \in Nat
  BY FramesAreInts, EngineAssumption
<1>1. CASE Quiet
  <2>1. InQueue(<<>>) = {} /\ Increasing(<<>>)
    BY DEF InQueue, Increasing
  <2>2. /\ Increasing(bboxQueue_') /\ Increasing(inputMsgQue_')
        /\ InQueue(bboxQueue_') \subseteq InQueue(bboxQueue_)
        /\ InQueue(inputMsgQue_') \subseteq InQueue(inputMsgQue_)
        /\ InHand' \subseteq InHand /\ loaded' = loaded
    BY <1>1, <2>1 DEF Quiet, Ordered
  <2> QED
    BY <2>2 DEF Ordered, Precedes, InFlight
<1>2. CASE CallLoadData
  <2>1. /\ loaded' = loaded + 1 /\ Increasing(inputMsgQue_')
        /\ InQueue(inputMsgQue_')
                \subseteq InQueue(inputMsgQue_) \cup {loaded + 1}
        /\ bboxQueue_' = bboxQueue_ /\ InHand' = InHand
    BY <1>2, LoadMoves
  <2>2. /\ InFlight \subseteq 1 .. loaded
        /\ InFlight' \subseteq InFlight \cup {loaded + 1}
    BY <2>1 DEF Ordered, InFlight
  <2>3. \A f \in InFlight : f < loaded + 1
    BY <1>i, <2>2
  <2>4. InFlight' \subseteq 1 .. loaded'
    BY <1>i, <2>1, <2>2
  <2> QED
    BY <2>1, <2>3, <2>4 DEF Ordered, Precedes, InFlight
<1>3. CASE WorkerPop /\ UNCHANGED <<postVars, mainVars>>
  BY <1>3, PopMoves DEF Ordered, Precedes, InFlight
<1>4. CASE Decode /\ UNCHANGED <<postVars, mainVars>>
  BY <1>4, DecodeMoves DEF Ordered, Precedes, InFlight
<1>5. CASE PostPop /\ UNCHANGED mainVars
  BY <1>5, DeliverMoves DEF Ordered, Precedes, InFlight
<1> QED
  BY <1>1, <1>2, <1>3, <1>4, <1>5, StepKinds

LEMMA SafeStart == Init => TypeOK /\ Ordered
<1> SUFFICES ASSUME Init PROVE TypeOK /\ Ordered
  OBVIOUS
<1>1. EngineTypeOK
  <2>1. /\ <<>> \in Seq(Messages) /\ Len(<<>>) <= length_
        /\ NewMsg \in Messages
    BY NewType, LengthType
  <2>2. memory \in [Buffers -> Pointers] /\ image \in ImageType
    BY EngineAssumption
    DEF Init, EngineStart, Pointers, NoImages, Whole, NoFrame, ImageType
  <2>3. running_ \in BOOLEAN /\ stale \in BOOLEAN /\ crashed \in BOOLEAN
    BY Zenon DEF Init, EngineStart
  <2>4. /\ worker = "none" /\ wpc = "off"
        /\ input_msg_ = NewMsg /\ inputMsgQue_ = <<>> /\ bboxQueue_ = <<>>
        /\ faults = 0 /\ evicted = {}
    BY DEF Init, EngineStart
  <2> QED
    BY <2>1, <2>2, <2>3, <2>4, EngineAssumption DEF EngineTypeOK, ImageType
<1>2. PostTypeOK
  <2>1. prunning_ \in BOOLEAN
    BY Zenon DEF Init, PostStart
  <2>2. /\ pworker = "none" /\ ppc = "off"
        /\ output_msg_ = NewMsg /\ delivered = <<>>
    BY DEF Init, PostStart
  <2> QED
    BY <2>1, <2>2, NewType DEF PostTypeOK
<1>4. MainTypeOK
  <2>1. misused \in BOOLEAN
    BY Zenon DEF Init
  <2>2. /\ call = "none" /\ at = "out" /\ phase = "new"
        /\ loaded = 0 /\ base = 0 /\ inits = 0
    BY DEF Init
  <2> QED
    BY <2>1, <2>2, EngineAssumption, AllowedAssumption DEF MainTypeOK, Phases
<1>3. InFlight = {} /\ Increasing(<<>>)
  BY DEF Init, EngineStart, InFlight, InQueue, InHand, WorkerBusy, Increasing
<1> QED
  BY <1>1, <1>2, <1>3, <1>4
  DEF TypeOK, Ordered, Precedes, InFlight, Init, EngineStart

\* Every variable keeps its type, and frames in the pipeline are in order,
\* whatever the program calls.
THEOREM TypeCorrect == Spec => []TypeOK
<1>1. TypeOK /\ Ordered /\ [Next]_vars => (TypeOK /\ Ordered)'
  BY TypeInductive, OrderInductive
<1> QED
  BY <1>1, SafeStart, PTL DEF Spec

THEOREM FramesInOrder == Spec => []Ordered
<1>1. TypeOK /\ Ordered /\ [Next]_vars => (TypeOK /\ Ordered)'
  BY TypeInductive, OrderInductive
<1> QED
  BY <1>1, SafeStart, PTL DEF Spec

-----------------------------------------------------------------------------
\* Every step of the pipeline is a step of the channel or changes nothing
\* the channel knows.
LEMMA StepRefines ==
    ASSUME TypeOK, Ordered, [Next]_vars
    PROVE  [Channel!ChannelNext]_(Channel!cvars)
<1> USE DEF Channel!ChannelNext, Channel!cvars
<1>1. CASE Quiet
  <2>1. InQueue(<<>>) = {}
    BY DEF InQueue
  <2> QED
    BY <1>1, <2>1 DEF Quiet, InFlight, Channel!Lose
<1>2. CASE CallLoadData
  <2> DEFINE lost == IF Evicted(inputMsgQue_) = {} THEN loaded + 1
                     ELSE Head(inputMsgQue_).frame_id
  <2>1. InFlight' = (InFlight \ {lost}) \cup {loaded + 1}
    <3>1. CASE Evicted(inputMsgQue_) = {}
      BY <1>2, <3>1, LoadMoves DEF InFlight
    <3>2. CASE Evicted(inputMsgQue_) # {}
      <4>1. Evicted(inputMsgQue_) = {lost} /\ lost \in InQueue(inputMsgQue_)
        BY <1>2, <3>2, LoadMoves DEF Evicted
      <4>2. lost \notin InQueue(bboxQueue_) \cup InHand
        BY <4>1, FramesAreInts DEF Ordered, Precedes
      <4> QED
        BY <1>2, <4>1, <4>2, LoadMoves DEF InFlight
    <3> QED
      BY <3>1, <3>2
  <2>2. lost \in InFlight \cup {loaded + 1}
    BY <1>2, LoadMoves DEF Evicted, InFlight
  <2>3. loaded' = loaded + 1 /\ delivered' = delivered
    BY <1>2, LoadMoves
  <2> HIDE DEF lost
  <2> QED
    BY <2>1, <2>2, <2>3 DEF Channel!Send
<1>3. CASE WorkerPop /\ UNCHANGED <<postVars, mainVars>>
  BY <1>3, PopMoves DEF InFlight, Channel!Lose
<1>4. CASE Decode /\ UNCHANGED <<postVars, mainVars>>
  BY <1>4, DecodeMoves DEF InFlight, Channel!Lose
<1>5. CASE PostPop /\ UNCHANGED mainVars
  <2> DEFINE f == Head(bboxQueue_).frame_id
  <2>1. /\ f \in InQueue(bboxQueue_)
        /\ InQueue(bboxQueue_) = {f} \cup InQueue(bboxQueue_')
        /\ Precedes({f}, InQueue(bboxQueue_'))
        /\ delivered' = Append(delivered, f)
        /\ InHand' = InHand
        /\ UNCHANGED <<inputMsgQue_, loaded>>
    BY <1>5, DeliverMoves
  <2> HIDE DEF f
  <2>2. f \in Int /\ InFlight \subseteq Int
    BY <2>1, FramesAreInts DEF InFlight
  <2>3. \A g \in InFlight \ {f} : f < g
    BY <2>1 DEF InFlight, Ordered, Precedes
  <2>4. \A g \in InFlight : f <= g
    BY <2>2, <2>3
  <2>5. f \notin InQueue(bboxQueue_') \cup InHand \cup InQueue(inputMsgQue_)
    BY <2>1, <2>2 DEF Ordered, Precedes
  <2>6. InFlight' = InFlight \ {f}
    BY <2>1, <2>5 DEF InFlight
  <2>7. f \in InFlight
    BY <2>1 DEF InFlight
  <2> QED
    BY <2>1, <2>4, <2>6, <2>7 DEF Channel!Deliver
<1> QED
  BY <1>1, <1>2, <1>3, <1>4, <1>5, StepKinds

\* Two queues, two threads, failing calls, and any program whatever: the
\* pipeline never delivers a frame twice, out of order or out of nothing, and
\* a push never costs the frame that is pushed.
THEOREM Refinement == Spec => ImplementsFrameChannel
<1>1. Init => Channel!ChannelInit
  BY DEF Init, EngineStart, PostStart, InFlight, InQueue, InHand, WorkerBusy,
         Channel!ChannelInit
<1> QED
  BY <1>1, StepRefines, TypeCorrect, FramesInOrder, PTL
  DEF Spec, ImplementsFrameChannel, Channel!ChannelSpec

-----------------------------------------------------------------------------
(***************************************************************************)
(* That the boxes published under a frame's number come from that frame,   *)
(* although all frames share one message and one set of buffers.           *)
(***************************************************************************)

\* What a queue holds after a push was there before, or is what was pushed.
LEMMA PushedEntries ==
    ASSUME NEW q \in Seq(Messages), Len(q) <= length_, NEW m \in Messages,
           NEW i \in 1 .. Len(Pushed(q, m))
    PROVE  Pushed(q, m)[i] = m \/ \E k \in 1 .. Len(q) : Pushed(q, m)[i] = q[k]
<1>1. CASE Len(q) < length_
  BY <1>1, AppendProperties DEF Pushed
<1>2. CASE Len(q) = length_
  <2> DEFINE t == Tail(q)
  <2>1. q # <<>>
    BY <1>2, LengthType
  <2>2. /\ t \in Seq(Messages) /\ Len(t) = Len(q) - 1
        /\ \A k \in 1 .. Len(q) - 1 : t[k] = q[k + 1]
    BY <2>1, TailFacts
  <2>3. Pushed(q, m) = Append(t, m)
    BY <1>2 DEF Pushed
  <2> HIDE DEF t
  <2>4. CASE i \in 1 .. Len(t)
    <3>1. Pushed(q, m)[i] = q[i + 1] /\ i + 1 \in 1 .. Len(q)
      BY <2>2, <2>3, <2>4
    <3> QED
      BY <3>1
  <2>5. CASE i = Len(t) + 1
    BY <2>2, <2>3, <2>5
  <2> QED
    BY <2>2, <2>3, <2>4, <2>5
<1> QED
  BY <1>1, <1>2, LengthType

\* The message handed in and the one in the worker's hand carry no boxes.
Plain ==
    /\ input_msg_.bboxes = <<>>
    /\ \A i \in 1 .. Len(inputMsgQue_) : inputMsgQue_[i].bboxes = <<>>

\* The shared buffers hold what was made of the frame in the worker's hand,
\* at the two places where they are read.
Synced ==
    ~stale =>
        /\ wpc = "infer" => image.dst = input_msg_.frame_id
        /\ wpc = "decode" => image.output[1] = input_msg_.frame_id

LEMMA PlainInductive ==
    ASSUME TypeOK, Plain, [Next]_vars
    PROVE  Plain'
<1>t. /\ inputMsgQue_ \in Seq(Messages) /\ Len(inputMsgQue_) <= length_
      /\ loaded \in 0 .. MaxFrames
  BY DEF TypeOK, EngineTypeOK, MainTypeOK
<1>e. ASSUME inputMsgQue_' = inputMsgQue_ \/ inputMsgQue_' = <<>>,
             input_msg_' = input_msg_ \/ input_msg_' = NewMsg
      PROVE  Plain'
  BY <1>e DEF Plain, NewMsg
<1> USE DEF deviceVars, threadVars, engineVars, postVars, postThreadVars,
            engineOwnVars, mainVars, history, Next_, Return, At, Goes
<1>1. CASE MainCalls /\ ~CallLoadData
  BY <1>1, <1>e
  DEF MainCalls, CallTooEarly, CallInit, EngineInit, CallInitCrash,
      CallStart, EngineRunStart, CallStartCrash, CallStop, CallRelease, Crash
<1>2. CASE CallLoadData
  <2>1. FrameMsg(loaded + 1) \in Messages
    BY <1>t, <1>2, FrameType, EngineAssumption DEF CallLoadData
  <2>2. FrameMsg(loaded + 1).bboxes = <<>>
    BY DEF FrameMsg
  <2>3. /\ inputMsgQue_' = Pushed(inputMsgQue_, FrameMsg(loaded + 1))
        /\ input_msg_' = input_msg_
    BY <1>2 DEF CallLoadData, EngineLoadData
  <2>4. ASSUME NEW i \in 1 .. Len(inputMsgQue_')
        PROVE  inputMsgQue_'[i].bboxes = <<>>
    BY <1>t, <2>1, <2>2, <2>3, <2>4, PushedEntries DEF Plain
  <2> QED
    BY <2>3, <2>4 DEF Plain
<1>3. CASE MainWorks
  BY <1>3, <1>e
  DEF MainWorks, StartPost, Drain, ClearRunning, EngineClearRunning, Join,
      EngineJoin, JoinCrash, Crash, Free, EngineDataResourceRelease,
      PostDrain, PostClear, PostJoined, PostFree, PostDataResourceRelease
<1>4. CASE EngineThread
  <2>1. CASE WorkerPop
    <3>1. inputMsgQue_ # <<>> /\ inputMsgQue_' = Tail(inputMsgQue_)
      BY <2>1 DEF WorkerPop
    <3>2. \A i \in 1 .. Len(inputMsgQue_') : inputMsgQue_'[i].bboxes = <<>>
      BY <1>t, <3>1, TailFacts DEF Plain
    <3>3. Head(inputMsgQue_).bboxes = <<>>
      BY <1>t, <3>1, TailFacts DEF Plain
    <3>4. input_msg_'.bboxes = <<>>
      BY <2>1, <3>3 DEF WorkerPop, Assign, Plain
    <3> QED
      BY <3>2, <3>4 DEF Plain
  <2>2. CASE Worker /\ ~WorkerPop
    BY <1>e, <2>2
    DEF Worker, WorkerTest, WorkerExit, WorkerPopEmpty, Preprocess, Infer,
        InferFail, InferCrash, Decode
  <2> QED
    BY <1>4, <2>1, <2>2 DEF EngineThread
<1>5. CASE PostThread
  BY <1>5, <1>e
  DEF PostThread, PostWorker, PostTest, PostExit, PostPopEmpty, PostPop
<1>6. CASE UNCHANGED vars
  BY <1>6, <1>e DEF vars
<1> QED
  BY <1>1, <1>2, <1>3, <1>4, <1>5, <1>6 DEF Next, MainCalls

LEMMA CopiedFirst ==
    ASSUME NEW binding, NEW f
    PROVE  CopiedIn(binding, f)[1] = f
<1>1. CopiedFloats = 1
  BY DEF CopiedFloats, dstimg_size_, SizeofFloat
<1>2. 1 \in Tensor
  BY DEF Tensor, dstimg_size_
<1> QED
  BY <1>1, <1>2 DEF CopiedIn

LEMMA SyncedInductive ==
    ASSUME TypeOK, Synced, [Next]_vars
    PROVE  Synced'
<1>t. image \in ImageType /\ stale \in BOOLEAN
  BY DEF TypeOK, EngineTypeOK, ImageType
<1>e. ASSUME wpc' \notin {"infer", "decode"}
      PROVE  Synced'
  BY <1>e DEF Synced
<1>u. ASSUME UNCHANGED <<wpc, image, stale, input_msg_>>
      PROVE  Synced'
  BY <1>u DEF Synced
<1> USE DEF deviceVars, threadVars, engineVars, postVars, postThreadVars,
            engineOwnVars, mainVars, history, Next_, Return, At, Goes,
            WorkerGoTo
<1>1. CASE CallInit \/ CallStart
  BY <1>1, <1>e DEF CallInit, EngineInit, CallStart, EngineRunStart
<1>2. CASE MainCalls /\ ~CallInit /\ ~CallStart
  BY <1>2, <1>u
  DEF MainCalls, CallTooEarly, CallInitCrash, CallStartCrash, CallLoadData,
      EngineLoadData, CallStop, CallRelease, Crash
<1>3. CASE MainWorks
  BY <1>3, <1>u
  DEF MainWorks, StartPost, Drain, ClearRunning, EngineClearRunning, Join,
      EngineJoin, JoinCrash, Crash, Free, EngineDataResourceRelease,
      PostDrain, PostClear, PostJoined, PostFree, PostDataResourceRelease
<1>4. CASE EngineThread
  <2>1. CASE WorkerTest \/ WorkerExit \/ WorkerPopEmpty \/ WorkerPop
             \/ InferFail \/ Decode
    BY <1>e, <2>1, Zenon
    DEF WorkerTest, WorkerExit, WorkerPopEmpty, WorkerPop, InferFail, Decode
  <2>2. CASE Preprocess
    <3>1. wpc' = "infer" /\ input_msg_' = input_msg_
      BY <2>2 DEF Preprocess
    <3>2. stale' \/ image'.dst = input_msg_.frame_id
      BY <1>t, <2>2 DEF Preprocess, ImageType
    <3> QED
      BY <3>1, <3>2 DEF Synced
  <2>3. CASE Infer
    <3>1. wpc' = "decode" /\ input_msg_' = input_msg_ /\ wpc = "infer"
      BY <2>3 DEF Infer
    <3> DEFINE bound == CopiedIn(image.input, image.dst)
    <3>2. stale' \/ (image'.output = bound /\ stale' = stale)
      <4> HIDE DEF bound
      <4>1. CASE NoCopyFault /\ image' = [image EXCEPT !.input = bound,
                                                       !.output = bound]
        BY <1>t, <4>1 DEF NoCopyFault, ImageType
      <4>2. CASE CopyFault
        BY <4>2 DEF CopyFault
      <4> QED
        BY <2>3, <4>1, <4>2 DEF Infer, bound
    <3>3. bound[1] = image.dst
      BY CopiedFirst
    <3> QED
      BY <3>1, <3>2, <3>3 DEF Synced
  <2>4. CASE InferCrash
    BY <1>u, <2>4 DEF InferCrash
  <2> QED
    BY <1>4, <2>1, <2>2, <2>3, <2>4 DEF EngineThread, Worker
<1>5. CASE PostThread
  BY <1>5, <1>u
  DEF PostThread, PostWorker, PostTest, PostExit, PostPopEmpty, PostPop
<1>6. CASE UNCHANGED vars
  BY <1>6, <1>u DEF vars
<1> QED
  BY <1>1, <1>2, <1>3, <1>4, <1>5, <1>6 DEF Next, MainCalls

LEMMA DecodedFresh ==
    ASSUME TypeOK, Plain, Synced, ~stale, Decode
    PROVE  /\ Len(Decoded.bboxes) = 1
           /\ Decoded.bboxes[1][1] = Decoded.frame_id
<1>1. image.output \in [Tensor -> 0 .. MaxFrames] /\ input_msg_ \in Messages
  BY DEF TypeOK, EngineTypeOK
<1>2. Decoded.frame_id = input_msg_.frame_id
  BY <1>1, DecodedType
<1>3. Decoded.bboxes = Append(<<>> \o <<>>, image.output)
  BY DEF Decoded, Assign, NewMsg, Plain
<1>4. <<>> \o <<>> = <<>>
  OBVIOUS
<1>5. Decoded.bboxes = <<image.output>>
  BY <1>3, <1>4
<1>6. image.output[1] = input_msg_.frame_id
  BY DEF Synced, Decode, WorkerGoTo
<1> QED
  BY <1>2, <1>5, <1>6

LEMMA FreshInductive ==
    ASSUME TypeOK, Plain, Synced, FreshBoxes, [Next]_vars
    PROVE  FreshBoxes'
<1>t. /\ bboxQueue_ \in Seq(Messages) /\ Len(bboxQueue_) <= length_
      /\ image.output \in [Tensor -> 0 .. MaxFrames]
      /\ input_msg_ \in Messages
  BY DEF TypeOK, EngineTypeOK
<1>e. ASSUME bboxQueue_' = <<>> PROVE FreshBoxes'
  BY <1>e DEF FreshBoxes
<1>u. ASSUME bboxQueue_' = bboxQueue_, stale' \/ stale' = stale
      PROVE  FreshBoxes'
  BY <1>u DEF FreshBoxes
<1> USE DEF deviceVars, threadVars, engineVars, postVars, postThreadVars,
            engineOwnVars, mainVars, history, Next_, Return, At, Goes
<1>1. CASE CallInit \/ CallStart
  BY <1>1, <1>e DEF CallInit, EngineInit, CallStart, EngineRunStart
<1>2. CASE MainCalls /\ ~CallInit /\ ~CallStart
  BY <1>2, <1>u
  DEF MainCalls, CallTooEarly, CallInitCrash, CallStartCrash, CallLoadData,
      EngineLoadData, CallStop, CallRelease, Crash
<1>3. CASE MainWorks /\ ~PostFree
  BY <1>3, <1>u
  DEF MainWorks, StartPost, Drain, ClearRunning, EngineClearRunning, Join,
      EngineJoin, JoinCrash, Crash, Free, EngineDataResourceRelease,
      PostDrain, PostClear, PostJoined
<1>4. CASE PostFree
  BY <1>4, <1>e DEF PostFree, PostDataResourceRelease
<1>5. CASE EngineThread
  <2>1. CASE Decode
    <3>1. bboxQueue_' = Pushed(bboxQueue_, Decoded) /\ stale' = stale
      BY <2>1 DEF Decode
    <3>2. Decoded \in Messages
      BY <1>t, DecodedType
    <3>3. ASSUME ~stale, NEW i \in 1 .. Len(bboxQueue_')
          PROVE  /\ Len(bboxQueue_'[i].bboxes) = 1
                 /\ bboxQueue_'[i].bboxes[1][1] = bboxQueue_'[i].frame_id
      <4>1. \/ bboxQueue_'[i] = Decoded
            \/ \E k \in 1 .. Len(bboxQueue_) : bboxQueue_'[i] = bboxQueue_[k]
        BY <1>t, <3>1, <3>2, <3>3, PushedEntries
      <4> QED
        BY <2>1, <3>3, <4>1, DecodedFresh DEF FreshBoxes
    <3> QED
      BY <3>1, <3>3 DEF FreshBoxes
  <2>2. CASE WorkerTest \/ WorkerExit \/ WorkerPopEmpty \/ WorkerPop
             \/ InferFail \/ InferCrash
    BY <1>u, <2>2
    DEF WorkerTest, WorkerExit, WorkerPopEmpty, WorkerPop, InferFail,
        InferCrash
  <2>3. CASE Preprocess
    BY <1>u, <2>3 DEF Preprocess
  <2>4. CASE Infer
    BY <1>u, <2>4 DEF Infer, CopyFault, NoCopyFault
  <2> QED
    BY <1>5, <2>1, <2>2, <2>3, <2>4 DEF EngineThread, Worker
<1>6. CASE PostThread
  <2>1. CASE PostPop
    <3>1. /\ bboxQueue_ # <<>> /\ bboxQueue_' = Tail(bboxQueue_)
          /\ stale' = stale
      BY <2>1 DEF PostPop
    <3>2. /\ Len(bboxQueue_') = Len(bboxQueue_) - 1
          /\ \A i \in 1 .. Len(bboxQueue_) - 1 :
                bboxQueue_'[i] = bboxQueue_[i + 1]
          /\ Len(bboxQueue_) \in Nat
      BY <1>t, <3>1, TailFacts
    <3>3. ASSUME ~stale, NEW i \in 1 .. Len(bboxQueue_')
          PROVE  /\ Len(bboxQueue_'[i].bboxes) = 1
                 /\ bboxQueue_'[i].bboxes[1][1] = bboxQueue_'[i].frame_id
      <4>1. i + 1 \in 1 .. Len(bboxQueue_) /\ bboxQueue_'[i] = bboxQueue_[i + 1]
        BY <3>2
      <4> QED
        BY <3>3, <4>1 DEF FreshBoxes
    <3> QED
      BY <3>1, <3>3 DEF FreshBoxes
  <2>2. CASE PostTest \/ PostExit \/ PostPopEmpty
    BY <1>u, <2>2 DEF PostTest, PostExit, PostPopEmpty
  <2> QED
    BY <1>6, <2>1, <2>2 DEF PostThread, PostWorker
<1>7. CASE UNCHANGED vars
  BY <1>7, <1>u DEF vars
<1> QED
  BY <1>1, <1>2, <1>3, <1>4, <1>5, <1>6, <1>7 DEF Next, MainCalls, MainWorks

\* As long as no copy has failed, the boxes published under a frame's number
\* were computed from that frame, whatever the program calls.
THEOREM BoxesAreFresh == Spec => []FreshBoxes
<1>1. Init => Plain /\ Synced /\ FreshBoxes
  BY DEF Init, EngineStart, NewMsg, Plain, Synced, FreshBoxes
<1>2. TypeOK /\ Plain /\ [Next]_vars => Plain'
  BY PlainInductive
<1>3. TypeOK /\ Synced /\ [Next]_vars => Synced'
  BY SyncedInductive
<1>4. TypeOK /\ Plain /\ Synced /\ FreshBoxes /\ [Next]_vars => FreshBoxes'
  BY FreshInductive
<1> QED
  BY <1>1, <1>2, <1>3, <1>4, TypeCorrect, PTL DEF Spec
=============================================================================
