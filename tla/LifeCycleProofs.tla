-------------------------- MODULE LifeCycleProofs --------------------------
(***************************************************************************)
(* Theorems about the calls of InferPipeline: which thread exists while    *)
(* main is where, what a program that keeps to the life cycle is safe      *)
(* from, and that no frame disappears in silence.  All are for every queue *)
(* length, number of frames, faults and initializations.                   *)
(***************************************************************************)
EXTENDS InferPipelineProofs

\* Main has joined the engine's worker and is on its way out of Stop or
\* Release.
AfterJoin == {"free", "post.drain", "post.flag", "post.join", "post.free"}
AfterFree == AfterJoin \ {"free"}

\* Where main is, what it is in, and the threads there are: ThreadsHaveHandles
\* follows from the second half.
Control ==
    /\ call = "none" <=> at = "out"
    /\ call = "Start" <=> at = "post.start"
    /\ at = "post.start" => worker = "joinable"
    /\ at \in AfterJoin => worker = "joined"
    /\ wpc \notin Ended \cup {"off"} => worker = "joinable"
    /\ ppc \notin {"off", "returned"} => pworker = "joinable"
    /\ pworker = "none" => worker = "none" \/ at = "post.start"

\* Steps of the two threads touch neither main's variables nor the handles.
LEMMA ThreadSteps ==
    ASSUME EngineThread \/ PostThread
    PROVE  /\ UNCHANGED <<call, at, phase, loaded, base, misused, inits,
                          worker, pworker, memory>>
           /\ wpc \in Ended \cup {"off"} => UNCHANGED wpc
           /\ ppc \in {"off", "returned"} => UNCHANGED ppc
<1> USE DEF deviceVars, threadVars, engineVars, postVars, postThreadVars,
            engineOwnVars, mainVars, WorkerGoTo, PostGoTo, Ended
<1>1. CASE EngineThread
  <2>1. CASE WorkerTest \/ WorkerExit \/ WorkerPopEmpty \/ WorkerPop
    BY <1>1, <2>1
    DEF EngineThread, WorkerTest, WorkerExit, WorkerPopEmpty, WorkerPop
  <2>2. CASE Preprocess
    BY <1>1, <2>2 DEF EngineThread, Preprocess
  <2>3. CASE Infer
    BY <1>1, <2>3 DEF EngineThread, Infer
  <2>4. CASE InferFail \/ InferCrash \/ Decode
    BY <1>1, <2>4 DEF EngineThread, InferFail, InferCrash, Decode
  <2> QED
    BY <1>1, <2>1, <2>2, <2>3, <2>4 DEF EngineThread, Worker
<1>2. CASE PostThread
  BY <1>2
  DEF PostThread, PostWorker, PostTest, PostExit, PostPopEmpty, PostPop
<1> QED
  BY <1>1, <1>2

LEMMA ControlInductive == Control /\ [Next]_vars => Control'
<1> SUFFICES ASSUME Control, [Next]_vars PROVE Control'
  OBVIOUS
<1> USE DEF Control, AfterJoin, deviceVars, threadVars, engineVars, postVars,
            postThreadVars, engineOwnVars, mainVars, history,
            Next_, Return, At, Goes, Makes, Ended
<1>1. CASE CallTooEarly \/ CallInitCrash \/ CallStartCrash \/ JoinCrash
  BY <1>1 DEF CallTooEarly, CallInitCrash, CallStartCrash, JoinCrash, Crash
<1>2. CASE CallInit
  BY <1>2 DEF CallInit, EngineInit, PostInit
<1>3. CASE CallStart
  BY <1>3 DEF CallStart, EngineRunStart
<1>4. CASE CallLoadData
  BY <1>4 DEF CallLoadData, EngineLoadData
<1>5. CASE CallStop \/ CallRelease
  BY <1>5 DEF CallStop, CallRelease
<1>6. CASE StartPost
  BY <1>6 DEF StartPost, PostRunStart
<1>7. CASE Drain \/ ClearRunning
  BY <1>7 DEF Drain, ClearRunning, EngineClearRunning
<1>8. CASE Join
  BY <1>8 DEF Join, EngineJoin
<1>9. CASE Free
  BY <1>9 DEF Free, EngineDataResourceRelease
<1>10. CASE PostDrain \/ PostClear \/ PostJoined
  BY <1>10 DEF PostDrain, PostClear, PostClearRunning, PostJoined, PostJoin
<1>11. CASE PostFree
  BY <1>11 DEF PostFree, PostDataResourceRelease
<1>12. CASE EngineThread
  <2>1. /\ UNCHANGED <<call, at, worker, pworker, ppc>>
        /\ wpc \in Ended \cup {"off"} => UNCHANGED wpc
    BY <1>12, ThreadSteps DEF EngineThread
  <2> QED
    BY <2>1
<1>13. CASE PostThread
  <2>1. /\ UNCHANGED <<call, at, worker, pworker, wpc>>
        /\ ppc \in {"off", "returned"} => UNCHANGED ppc
    BY <1>13, ThreadSteps
    DEF PostThread, PostWorker, PostTest, PostExit, PostPopEmpty, PostPop
  <2> QED
    BY <2>1
<1>14. CASE UNCHANGED vars
  BY <1>14 DEF vars
<1> QED
  BY <1>1, <1>2, <1>3, <1>4, <1>5, <1>6, <1>7, <1>8, <1>9, <1>10, <1>11,
     <1>12, <1>13, <1>14
  DEF Next, MainCalls, MainWorks

LEMMA ControlKept == Spec => []Control
<1>1. Init => Control
  BY DEF Init, EngineStart, PostStart, Control, AfterJoin, Ended
<1> QED
  BY <1>1, ControlInductive, PTL DEF Spec

\* A thread that runs can be joined, whatever the program calls.
THEOREM HandlesKept == Spec => []ThreadsHaveHandles
<1>1. Control => ThreadsHaveHandles
  BY DEF Control, ThreadsHaveHandles
<1> QED
  BY <1>1, ControlKept, PTL

-----------------------------------------------------------------------------
\* The life cycle, phase by phase.
LEMMA LifeCycleCalls ==
    ASSUME NEW p \in Phases, NEW c \in LifeCycle[p]
    PROVE  /\ p = "new" => c = "Init"
           /\ p = "inited" => c \in {"Start", "LoadData"}
           /\ p = "started" => c \in {"LoadData", "Stop", "Release"}
           /\ p = "stopped" => c = "Init"
<1>1. CASE p = "new"
  BY <1>1 DEF LifeCycle
<1>2. CASE p = "inited"
  BY <1>2 DEF LifeCycle
<1>3. CASE p = "started"
  BY <1>3 DEF LifeCycle
<1>4. CASE p = "stopped"
  BY <1>4 DEF LifeCycle
<1> QED
  BY <1>1, <1>2, <1>3, <1>4 DEF Phases

\* What is true as long as the program has kept to the life cycle.
Proper ==
    ~misused =>
        /\ phase \in {"new", "stopped"} => call = "none" /\ worker # "joinable"
        /\ phase = "inited" =>
                /\ call \in {"none", "Start"}
                /\ call = "none" => worker = "none"
        /\ phase = "started" =>
                call \in {"none", "Stop", "Release"} /\ worker # "none"

LEMMA ProperInductive ==
    TypeOK /\ Control /\ Proper /\ [Next]_vars => Proper'
<1> SUFFICES ASSUME TypeOK, Control, Proper, [Next]_vars PROVE Proper'
  OBVIOUS
<1>t. phase \in Phases /\ misused \in BOOLEAN
  BY DEF TypeOK, MainTypeOK
<1> USE DEF Control, Proper, AfterJoin, deviceVars, threadVars, engineVars,
            postVars, postThreadVars, engineOwnVars, mainVars, history,
            Next_, Return, At, Goes, Makes
<1>1. CASE CallTooEarly \/ CallInitCrash \/ CallStartCrash \/ JoinCrash
  BY <1>1 DEF CallTooEarly, CallInitCrash, CallStartCrash, JoinCrash, Crash
<1>2. CASE CallInit
  BY <1>2 DEF CallInit, EngineInit, PostInit
<1>3. CASE CallStart
  BY <1>3, <1>t, LifeCycleCalls DEF CallStart, EngineRunStart
<1>4. CASE CallLoadData
  BY <1>4 DEF CallLoadData, EngineLoadData
<1>5. CASE CallStop \/ CallRelease
  BY <1>5, <1>t, LifeCycleCalls DEF CallStop, CallRelease
<1>6. CASE StartPost
  BY <1>6, <1>t DEF StartPost, PostRunStart
<1>7. CASE Drain \/ ClearRunning
  BY <1>7 DEF Drain, ClearRunning, EngineClearRunning
<1>8. CASE Join
  BY <1>8 DEF Join, EngineJoin
<1>9. CASE Free
  BY <1>9 DEF Free, EngineDataResourceRelease
<1>10. CASE PostDrain \/ PostClear \/ PostJoined
  BY <1>10 DEF PostDrain, PostClear, PostClearRunning, PostJoined, PostJoin
<1>11. CASE PostFree
  BY <1>11 DEF PostFree, PostDataResourceRelease
<1>12. CASE EngineThread \/ PostThread
  <2>1. UNCHANGED <<call, phase, worker, misused>>
    BY <1>12, ThreadSteps
  <2> QED
    BY <2>1
<1>13. CASE UNCHANGED vars
  BY <1>13 DEF vars
<1> QED
  BY <1>1, <1>2, <1>3, <1>4, <1>5, <1>6, <1>7, <1>8, <1>9, <1>10, <1>11,
     <1>12, <1>13
  DEF Next, MainCalls, MainWorks

LEMMA ProperKept == Spec => []Proper
<1>1. Init => Proper
  BY DEF Init, EngineStart, Proper
<1> QED
  BY <1>1, ProperInductive, TypeCorrect, ControlKept, PTL DEF Spec

-----------------------------------------------------------------------------
\* Only three kinds of steps end the process, and each has its reason.
LEMMA CrashInductive ==
    ASSUME TypeOK, Control, Proper, CrashOnlyByMisuse, [Next]_vars
    PROVE  CrashOnlyByMisuse'
<1>t. phase \in Phases /\ misused \in BOOLEAN /\ crashed \in BOOLEAN
  BY DEF TypeOK, MainTypeOK, EngineTypeOK
<1> USE DEF CrashOnlyByMisuse, NoEngine, deviceVars, threadVars, engineVars,
            postVars, postThreadVars, engineOwnVars, mainVars, history,
            Next_, Return, At, Goes, WorkerGoTo, PostGoTo
<1>1. CASE CallTooEarly
  BY <1>1, <1>t, LifeCycleCalls DEF CallTooEarly, Makes, Calls
<1>2. CASE CallInitCrash
  BY <1>2, <1>t, LifeCycleCalls DEF CallInitCrash, Makes, Proper, Phases
<1>3. CASE CallStartCrash
  BY <1>3, <1>t, LifeCycleCalls DEF CallStartCrash, Makes, Proper, Phases
<1>4. CASE JoinCrash
  BY <1>4, <1>t DEF JoinCrash, Proper, Control, Phases
<1>5. CASE Free
  BY <1>5 DEF Free, EngineDataResourceRelease, Freed
<1>6. CASE EngineThread
  <2>1. CASE InferCrash
    BY <1>6, <2>1 DEF EngineThread, InferCrash
  <2>2. CASE Worker /\ ~InferCrash
    BY <1>6, <2>2
    DEF EngineThread, Worker, WorkerTest, WorkerExit, WorkerPopEmpty,
        WorkerPop, Preprocess, Infer, InferFail, Decode
  <2> QED
    BY <1>6, <2>1, <2>2 DEF EngineThread
<1>7. CASE PostThread
  BY <1>7
  DEF PostThread, PostWorker, PostTest, PostExit, PostPopEmpty, PostPop
<1>8. CASE CallInit \/ CallStart \/ CallLoadData \/ CallStop \/ CallRelease
  BY <1>8
  DEF CallInit, EngineInit, CallStart, EngineRunStart, CallLoadData,
      EngineLoadData, CallStop, CallRelease, Makes
<1>9. CASE StartPost \/ Drain \/ ClearRunning \/ Join
  BY <1>9 DEF StartPost, Drain, ClearRunning, EngineClearRunning, Join,
              EngineJoin
<1>10. CASE PostDrain \/ PostClear \/ PostJoined \/ PostFree
  BY <1>10 DEF PostDrain, PostClear, PostJoined, PostFree,
               PostDataResourceRelease
<1>11. CASE UNCHANGED vars
  BY <1>11 DEF vars
<1> QED
  BY <1>1, <1>2, <1>3, <1>4, <1>5, <1>6, <1>7, <1>8, <1>9, <1>10, <1>11
  DEF Next, MainCalls, MainWorks

\* A program that keeps to the life cycle and whose engine was loaded never
\* ends in std::terminate or with a null pointer.
THEOREM CrashExplained == Spec => []CrashOnlyByMisuse
<1>1. Init => CrashOnlyByMisuse
  BY DEF Init, EngineStart, CrashOnlyByMisuse
<1> QED
  BY <1>1, CrashInductive, TypeCorrect, ControlKept, ProperKept, PTL DEF Spec

-----------------------------------------------------------------------------
\* The program makes no call outside the life cycle.
Conforms == \A p \in Phases : Allowed[p] \subseteq LifeCycle[p]

LEMMA ConformingSteps ==
    ASSUME Conforms, TypeOK, ~misused, [Next]_vars
    PROVE  ~misused'
<1>1. phase \in Phases
  BY DEF TypeOK, MainTypeOK
<1>2. ASSUME NEW c, Makes(c) PROVE ~misused'
  BY <1>1, <1>2 DEF Conforms, Makes
<1>3. CASE MainCalls
  BY <1>2, <1>3
  DEF MainCalls, CallTooEarly, CallInit, CallInitCrash, CallStart,
      CallStartCrash, CallLoadData, CallStop, CallRelease
<1>4. CASE MainWorks
  BY <1>4
  DEF MainWorks, StartPost, Drain, ClearRunning, Join, JoinCrash, Free,
      PostDrain, PostClear, PostJoined, PostFree, history
<1>5. CASE EngineThread \/ PostThread
  BY <1>5, ThreadSteps
<1>6. CASE UNCHANGED vars
  BY <1>6 DEF vars, mainVars
<1> QED
  BY <1>3, <1>4, <1>5, <1>6 DEF Next

\* Until the engine is released its device memory is there; Stop and Release
\* free it once the worker is joined.
MemoryThere ==
    phase \in {"inited", "started"} /\ at \notin AfterFree =>
        \A b \in Buffers : memory[b] \notin {"freed", "null"}

LEMMA MemoryInductive ==
    ASSUME TypeOK, Control, Proper, ~misused, MemoryThere, [Next]_vars
    PROVE  MemoryThere'
<1>t. phase \in Phases
  BY DEF TypeOK, MainTypeOK
<1>u. ASSUME UNCHANGED memory, phase \in {"inited", "started"},
             at \notin AfterFree
      PROVE  MemoryThere'
  BY <1>u DEF MemoryThere
<1> USE DEF AfterJoin, AfterFree, deviceVars, threadVars, engineVars,
            engineOwnVars, mainVars, history, Next_, Return, At, Goes, Makes
<1>1. CASE CallTooEarly \/ CallInitCrash \/ CallStartCrash \/ JoinCrash
  BY <1>1
  DEF CallTooEarly, CallInitCrash, CallStartCrash, JoinCrash, Crash,
      MemoryThere
<1>2. CASE CallInit
  BY <1>2, EngineAssumption DEF CallInit, EngineInit, Buffers, MemoryThere
<1>3. CASE CallStart \/ CallLoadData \/ CallStop \/ CallRelease
  BY <1>3
  DEF CallStart, EngineRunStart, CallLoadData, EngineLoadData, CallStop,
      CallRelease, Control, MemoryThere
<1>4. CASE StartPost
  <2>1. phase \in {"inited", "started"}
    BY <1>4, <1>t DEF StartPost, Control, Proper, Phases
  <2> QED
    BY <1>4, <1>u, <2>1 DEF StartPost
<1>5. CASE Drain \/ ClearRunning \/ Join
  BY <1>5
  DEF Drain, ClearRunning, EngineClearRunning, Join, EngineJoin, MemoryThere
<1>6. CASE Free
  <2>1. at' \in AfterFree
    BY <1>6 DEF Free
  <2> QED
    BY <2>1 DEF MemoryThere
<1>7. CASE PostDrain \/ PostClear \/ PostJoined
  BY <1>7 DEF PostDrain, PostClear, PostJoined, MemoryThere
<1>8. CASE PostFree
  BY <1>8 DEF PostFree, MemoryThere
<1>9. CASE EngineThread \/ PostThread
  <2>1. UNCHANGED <<at, phase, memory>>
    BY <1>9, ThreadSteps
  <2> QED
    BY <2>1 DEF MemoryThere
<1>10. CASE UNCHANGED vars
  BY <1>10 DEF vars, MemoryThere
<1> QED
  BY <1>1, <1>2, <1>3, <1>4, <1>5, <1>6, <1>7, <1>8, <1>9, <1>10
  DEF Next, MainCalls, MainWorks

\* Device memory is never freed under the worker's hands, nor used after it
\* was freed, by a program that keeps to the life cycle: the join between the
\* two stands in for a lock.
THEOREM MemoryOutlivesUse ==
    ASSUME Conforms PROVE Spec => []NoUseAfterFree
<1>1. Init => ~misused /\ MemoryThere
  BY DEF Init, MemoryThere
<1>2. TypeOK /\ ~misused /\ [Next]_vars => ~misused'
  BY ConformingSteps
<1>3. /\ TypeOK /\ Control /\ Proper /\ ~misused /\ MemoryThere
      /\ [Next]_vars
      => MemoryThere'
  BY MemoryInductive
<1>4. TypeOK /\ Control /\ Proper /\ ~misused /\ MemoryThere
      => NoUseAfterFree
  <2> SUFFICES ASSUME TypeOK, Control, Proper, ~misused, MemoryThere,
                      WorkerBusy
               PROVE  \A b \in Buffers : memory[b] \notin {"freed", "null"}
    BY DEF NoUseAfterFree
  <2>1. worker = "joinable"
    BY DEF WorkerBusy, Control, Ended
  <2>2. at \notin AfterFree
    BY <2>1 DEF Control, AfterFree
  <2>3. phase \in {"inited", "started"}
    BY <2>1 DEF TypeOK, MainTypeOK, Phases, Proper
  <2> QED
    BY <2>2, <2>3 DEF MemoryThere
<1> QED
  BY <1>1, <1>2, <1>3, <1>4, TypeCorrect, ControlKept, ProperKept, PTL
  DEF Spec

-----------------------------------------------------------------------------
\* Stop has seen the input queue empty, and later the output queue: nobody
\* fills them again, for main is in Stop, and then the worker is joined.
Drained ==
    call = "Stop" =>
        /\ at # "drain" => inputMsgQue_ = <<>>
        /\ at \in {"post.flag", "post.join", "post.free"} => bboxQueue_ = <<>>

\* Start counts the frames handed in before it.
Counted == call = "Start" => base = loaded

\* A step that moves a frame nowhere, but perhaps out of the hands of a worker
\* that gives up.
Still ==
    /\ UNCHANGED <<inputMsgQue_, bboxQueue_, loaded, base, delivered, evicted>>
    /\ InHand' \cup FailedOn' = InHand \cup FailedOn

LEMMA StillSteps ==
    ASSUME [Next]_vars
    PROVE  \/ Still
           \/ CallInit \/ CallStart \/ CallLoadData \/ Free \/ PostFree
           \/ WorkerPop /\ UNCHANGED <<postVars, mainVars>>
           \/ Decode /\ UNCHANGED <<postVars, mainVars>>
           \/ PostPop /\ UNCHANGED mainVars
<1> USE DEF Still, InHand, FailedOn, WorkerBusy, WorkerDead, deviceVars,
            threadVars, engineVars, postVars, postThreadVars, engineOwnVars,
            mainVars, history, Next_, Return, At, Goes, WorkerGoTo, PostGoTo
<1>1. CASE CallTooEarly \/ CallInitCrash \/ CallStartCrash \/ JoinCrash
  BY <1>1 DEF CallTooEarly, CallInitCrash, CallStartCrash, JoinCrash, Crash
<1>2. CASE CallStop \/ CallRelease
  BY <1>2 DEF CallStop, CallRelease
<1>3. CASE StartPost
  BY <1>3 DEF StartPost, PostRunStart
<1>4. CASE Drain \/ ClearRunning \/ Join
  BY <1>4 DEF Drain, ClearRunning, EngineClearRunning, Join, EngineJoin
<1>5. CASE PostDrain \/ PostClear \/ PostJoined
  BY <1>5 DEF PostDrain, PostClear, PostClearRunning, PostJoined, PostJoin
<1>6. CASE EngineThread
  <2>1. CASE WorkerTest \/ WorkerExit \/ WorkerPopEmpty
    BY <1>6, <2>1 DEF EngineThread, WorkerTest, WorkerExit, WorkerPopEmpty
  <2>2. CASE Preprocess
    BY <1>6, <2>2 DEF EngineThread, Preprocess
  <2>3. CASE Infer
    BY <1>6, <2>3 DEF EngineThread, Infer
  <2>4. CASE InferFail \/ InferCrash
    BY <1>6, <2>4 DEF EngineThread, InferFail, InferCrash
  <2> QED
    BY <1>6, <2>1, <2>2, <2>3, <2>4 DEF EngineThread, Worker
<1>7. CASE PostThread
  <2>1. CASE PostTest \/ PostExit \/ PostPopEmpty
    BY <1>7, <2>1 DEF PostThread, PostTest, PostExit, PostPopEmpty
  <2> QED
    BY <1>7, <2>1 DEF PostThread, PostWorker
<1>8. CASE UNCHANGED vars
  BY <1>8 DEF vars
<1> QED
  BY <1>1, <1>2, <1>3, <1>4, <1>5, <1>6, <1>7, <1>8
  DEF Next, MainCalls, MainWorks

LEMMA DrainedInductive ==
    ASSUME TypeOK, Control, Drained, Counted, [Next]_vars
    PROVE  Drained' /\ Counted'
<1> USE DEF Control, Drained, Counted, AfterJoin, deviceVars, threadVars,
            engineVars, postVars, postThreadVars, engineOwnVars, mainVars,
            history, Next_, Return, At, Goes, Makes
<1>1. CASE CallTooEarly \/ CallInitCrash \/ CallStartCrash \/ JoinCrash
  BY <1>1 DEF CallTooEarly, CallInitCrash, CallStartCrash, JoinCrash, Crash
<1>2. CASE CallInit \/ CallStart \/ CallLoadData \/ CallStop \/ CallRelease
  BY <1>2
  DEF CallInit, EngineInit, CallStart, EngineRunStart, CallLoadData,
      EngineLoadData, CallStop, CallRelease
<1>3. CASE StartPost \/ Drain \/ ClearRunning \/ Join
  BY <1>3 DEF StartPost, Drain, ClearRunning, EngineClearRunning, Join,
              EngineJoin
<1>4. CASE Free
  BY <1>4 DEF Free, EngineDataResourceRelease
<1>5. CASE PostDrain \/ PostClear \/ PostJoined \/ PostFree
  BY <1>5 DEF PostDrain, PostClear, PostJoined, PostFree,
              PostDataResourceRelease
<1>6. CASE EngineThread
  <2>1. UNCHANGED <<call, at, base, loaded>>
    BY <1>6, ThreadSteps
  <2>2. inputMsgQue_ = <<>> => inputMsgQue_' = <<>>
    BY <1>6
    DEF EngineThread, Worker, WorkerTest, WorkerExit, WorkerPopEmpty,
        WorkerPop, Preprocess, Infer, InferFail, InferCrash, Decode
  <2>3. worker = "joined" => bboxQueue_' = bboxQueue_
    BY <1>6
    DEF EngineThread, Worker, WorkerTest, WorkerExit, WorkerPopEmpty,
        WorkerPop, Preprocess, Infer, InferFail, InferCrash, Decode,
        WorkerGoTo, Ended
  <2> QED
    BY <2>1, <2>2, <2>3
<1>7. CASE PostThread
  BY <1>7
  DEF PostThread, PostWorker, PostTest, PostExit, PostPopEmpty, PostPop
<1>8. CASE UNCHANGED vars
  BY <1>8 DEF vars
<1> QED
  BY <1>1, <1>2, <1>3, <1>4, <1>5, <1>6, <1>7, <1>8
  DEF Next, MainCalls, MainWorks

LEMMA DrainedKept == Spec => [](Drained /\ Counted)
<1>1. Init => Drained /\ Counted
  BY DEF Init, Drained, Counted
<1>2. TypeOK /\ Control /\ Drained /\ Counted /\ [Next]_vars
      => Drained' /\ Counted'
  BY DrainedInductive
<1> QED
  BY <1>1, <1>2, TypeCorrect, ControlKept, PTL DEF Spec

\* How the pipeline comes to be running.
LEMMA Running ==
    ASSUME [Next]_vars, Control, phase' = "started", call' \in {"none", "Stop"}
    PROVE  \/ phase = "started" /\ call \in {"none", "Stop"}
           \/ call = "Start" /\ UNCHANGED <<base, loaded>>
<1> USE DEF Control, mainVars, history, Next_, Return, At, Goes, Makes
<1>1. CASE CallTooEarly \/ CallInitCrash \/ CallStartCrash \/ JoinCrash
  BY <1>1 DEF CallTooEarly, CallInitCrash, CallStartCrash, JoinCrash, Crash
<1>2. CASE CallInit \/ CallStart \/ CallLoadData \/ CallStop \/ CallRelease
  BY <1>2 DEF CallInit, CallStart, CallLoadData, CallStop, CallRelease
<1>3. CASE StartPost
  BY <1>3 DEF StartPost
<1>4. CASE Drain \/ ClearRunning \/ Join \/ Free
  BY <1>4 DEF Drain, ClearRunning, Join, Free
<1>5. CASE PostDrain \/ PostClear \/ PostJoined \/ PostFree
  BY <1>5 DEF PostDrain, PostClear, PostJoined, PostFree
<1>6. CASE EngineThread \/ PostThread
  BY <1>6, ThreadSteps
<1>7. CASE UNCHANGED vars
  BY <1>7 DEF vars
<1> QED
  BY <1>1, <1>2, <1>3, <1>4, <1>5, <1>6, <1>7
  DEF Next, MainCalls, MainWorks

\* Where a frame can be that has not vanished.
Accounted == InFlight \cup Delivered \cup evicted \cup FailedOn

LEMMA DeliveredGrows ==
    ASSUME TypeOK, NEW f, delivered' = Append(delivered, f)
    PROVE  Delivered' = Delivered \cup {f}
<1>1. delivered \in Seq(Frames)
  BY DEF TypeOK, PostTypeOK
<1>2. /\ Len(delivered') = Len(delivered) + 1 /\ Len(delivered) \in Nat
      /\ \A i \in 1 .. Len(delivered) : delivered'[i] = delivered[i]
      /\ delivered'[Len(delivered) + 1] = f
  BY <1>1
<1> QED
  BY <1>2 DEF Delivered

LEMMA VanishInductive ==
    ASSUME TypeOK, Ordered, Control, Drained, Counted, NothingVanishes,
           [Next]_vars
    PROVE  NothingVanishes'
<1> SUFFICES ASSUME phase' = "started", call' \in {"none", "Stop"},
                    NEW f \in base' + 1 .. loaded'
             PROVE  f \in Accounted'
  BY DEF NothingVanishes, Accounted
<1>a. base \in Nat /\ loaded \in Nat
  BY EngineAssumption DEF TypeOK, MainTypeOK
<1>b. phase = "started" /\ call \in {"none", "Stop"}
  BY <1>a, Running DEF Counted
<1>c. \A g \in base + 1 .. loaded : g \in Accounted
  BY <1>b DEF NothingVanishes, Accounted
<1>1. CASE Still
  BY <1>1, <1>c DEF Still, Accounted, InFlight, Delivered
<1>2. CASE CallInit \/ CallStart
  BY <1>2 DEF CallInit, CallStart, Next_
<1>3. CASE CallLoadData
  <2>1. base' = base /\ loaded' = loaded + 1
    BY <1>3 DEF CallLoadData
  <2>2. loaded + 1 \in Accounted' /\ Accounted \subseteq Accounted'
    BY <1>3, LoadMoves
    DEF Accounted, InFlight, Delivered, FailedOn, WorkerDead
  <2>3. f \in base + 1 .. loaded \/ f = loaded + 1
    BY <1>a, <2>1
  <2> QED
    BY <1>c, <2>2, <2>3
<1>4. CASE Free
  <2>1. /\ UNCHANGED <<base, loaded, bboxQueue_, delivered, evicted, wpc,
                       input_msg_, call>>
        /\ at = "free" /\ inputMsgQue_' = <<>>
    BY <1>4
    DEF Free, EngineDataResourceRelease, postVars, history, threadVars, At,
        Next_
  <2>2. inputMsgQue_ = <<>>
    BY <1>b, <2>1 DEF Drained, Control
  <2> QED
    BY <1>c, <2>1, <2>2
    DEF Accounted, InFlight, InHand, WorkerBusy, Delivered, FailedOn,
        WorkerDead
<1>5. CASE PostFree
  BY <1>5 DEF PostFree
<1>6. CASE WorkerPop /\ UNCHANGED <<postVars, mainVars>>
  <2>1. base' = base /\ loaded' = loaded
    BY <1>6 DEF mainVars
  <2>2. Accounted \subseteq Accounted'
    BY <1>6, PopMoves DEF Accounted, InFlight, Delivered, FailedOn
  <2> QED
    BY <1>c, <2>1, <2>2
<1>7. CASE Decode /\ UNCHANGED <<postVars, mainVars>>
  <2>1. base' = base /\ loaded' = loaded
    BY <1>7 DEF mainVars
  <2>2. Accounted \subseteq Accounted'
    BY <1>7, DecodeMoves DEF Accounted, InFlight, Delivered, FailedOn
  <2> QED
    BY <1>c, <2>1, <2>2
<1>8. CASE PostPop /\ UNCHANGED mainVars
  <2>1. base' = base /\ loaded' = loaded
    BY <1>8 DEF mainVars
  <2>2. Delivered' = Delivered \cup {Head(bboxQueue_).frame_id}
    BY <1>8, DeliverMoves, DeliveredGrows
  <2>3. Accounted \subseteq Accounted'
    BY <1>8, <2>2, DeliverMoves DEF Accounted, InFlight, FailedOn, WorkerDead
  <2> QED
    BY <1>c, <2>1, <2>3
<1> QED
  BY <1>1, <1>2, <1>3, <1>4, <1>5, <1>6, <1>7, <1>8, StillSteps

\* While the pipeline runs no frame is lost in silence, whatever the program
\* called before.
THEOREM NoFrameVanishes == Spec => []NothingVanishes
<1>1. Init => NothingVanishes
  BY DEF Init, NothingVanishes
<1>2. /\ TypeOK /\ Ordered /\ Control /\ Drained /\ Counted
      /\ NothingVanishes /\ [Next]_vars
      => NothingVanishes'
  BY VanishInductive
<1> QED
  BY <1>1, <1>2, TypeCorrect, FramesInOrder, ControlKept, DrainedKept, PTL
  DEF Spec

\* When Stop is about to return, the frames handed in since Start are through,
\* in every program that keeps to the life cycle.
THEOREM StopIsThorough ==
    ASSUME Conforms PROVE Spec => []StopDrains
<1>1. Init => ~misused
  BY DEF Init
<1>2. TypeOK /\ ~misused /\ [Next]_vars => ~misused'
  BY ConformingSteps
<1>3. /\ TypeOK /\ Control /\ Proper /\ ~misused /\ Drained
      /\ NothingVanishes
      => StopDrains
  <2> SUFFICES ASSUME TypeOK, Control, Proper, ~misused, Drained,
                      NothingVanishes, call = "Stop", at = "post.free"
               PROVE  base + 1 .. loaded
                        \subseteq Delivered \cup evicted \cup FailedOn
    BY DEF StopDrains
  <2>1. phase = "started"
    BY DEF TypeOK, MainTypeOK, Phases, Proper
  <2>2. bboxQueue_ = <<>> /\ inputMsgQue_ = <<>>
    BY DEF Drained
  <2>3. ~WorkerBusy
    BY DEF Control, AfterJoin, Ended, WorkerBusy
  <2>4. InFlight = {}
    BY <2>2, <2>3 DEF InFlight, InHand, InQueue
  <2> QED
    BY <2>1, <2>4 DEF NothingVanishes
<1> QED
  BY <1>1, <1>2, <1>3, TypeCorrect, ControlKept, ProperKept, DrainedKept,
     NoFrameVanishes, PTL
  DEF Spec
-----------------------------------------------------------------------------
\* The two threads, seen from outside: a loop is left by a thread that was
\* told to, and by an engine that gives up.
LEMMA ThreadLoops ==
    ASSUME TypeOK, EngineThread \/ PostThread
    PROVE  /\ UNCHANGED <<running_, prunning_>>
           /\ EngineLoops => \/ EngineLoops' \/ WorkerDead'
                             \/ ~running_ /\ wpc' = "returned"
           /\ PostLoops => \/ PostLoops'
                           \/ ~prunning_ /\ ppc' = "returned"
<1>t. running_ \in BOOLEAN /\ prunning_ \in BOOLEAN
  BY DEF TypeOK, EngineTypeOK, PostTypeOK
<1> USE DEF EngineLoops, PostLoops, WorkerDead, Ended, threadVars, engineVars,
            postVars, engineOwnVars, WorkerGoTo, PostGoTo
<1>1. CASE EngineThread
  <2>1. CASE WorkerTest \/ WorkerExit \/ WorkerPopEmpty \/ WorkerPop
    BY <1>1, <1>t, <2>1
    DEF EngineThread, WorkerTest, WorkerExit, WorkerPopEmpty, WorkerPop
  <2>2. CASE Preprocess \/ Infer
    BY <1>1, <2>2 DEF EngineThread, Preprocess, Infer
  <2>3. CASE InferFail \/ InferCrash \/ Decode
    BY <1>1, <2>3 DEF EngineThread, InferFail, InferCrash, Decode
  <2> QED
    BY <1>1, <2>1, <2>2, <2>3 DEF EngineThread, Worker
<1>2. CASE PostThread
  BY <1>2, <1>t
  DEF PostThread, PostWorker, PostTest, PostExit, PostPopEmpty, PostPop
<1> QED
  BY <1>1, <1>2

\* What NoWaitInVain needs of the times before main waits: while the pipeline
\* is up both threads run, with their flags set, until main has cleared the
\* flag of each.
Up == phase = "started" /\ call # "Start"

Answered ==
    ~misused =>
        /\ at = "post.start" \/ (Up /\ at \in {"out", "drain", "flag"})
              => WorkerDead \/ (running_ /\ EngineLoops)
        /\ at = "join" => wpc \in Ended \/ (~running_ /\ EngineLoops)
        /\ Up /\ at \notin {"post.join", "post.free"} => prunning_ /\ PostLoops
        /\ at = "post.join" => ppc = "returned" \/ (~prunning_ /\ PostLoops)

LEMMA AnsweredInductive ==
    ASSUME TypeOK, Control, Proper, Answered, [Next]_vars
    PROVE  Answered'
<1>t. phase \in Phases /\ misused \in BOOLEAN
  BY DEF TypeOK, MainTypeOK
<1> USE DEF Answered, Up, Control, AfterJoin, deviceVars, threadVars,
            engineVars, postVars, postThreadVars, engineOwnVars, mainVars,
            history, Next_, Return, At, Goes, Makes
<1>1. CASE CallTooEarly \/ CallInitCrash \/ CallStartCrash \/ JoinCrash
  BY <1>1
  DEF CallTooEarly, CallInitCrash, CallStartCrash, JoinCrash, Crash,
      EngineLoops, PostLoops, WorkerDead
<1>2. CASE CallInit
  BY <1>2 DEF CallInit, EngineInit, PostInit
<1>3. CASE CallStart
  <2>1. ~misused' => ~misused /\ phase = "inited"
    BY <1>3, <1>t, LifeCycleCalls DEF CallStart, Phases
  <2> QED
    BY <1>3, <2>1 DEF CallStart, EngineRunStart, EngineLoops, Ended
<1>4. CASE CallLoadData
  BY <1>4
  DEF CallLoadData, EngineLoadData, EngineLoops, PostLoops, WorkerDead
<1>5. CASE CallStop \/ CallRelease
  <2>1. ~misused' => ~misused /\ phase = "started"
    BY <1>5, <1>t, LifeCycleCalls DEF CallStop, CallRelease, Phases
  <2> QED
    BY <1>5, <2>1
    DEF CallStop, CallRelease, EngineLoops, PostLoops, WorkerDead
<1>6. CASE StartPost
  BY <1>6 DEF StartPost, PostRunStart, EngineLoops, PostLoops, WorkerDead
<1>u. ~misused /\ at \notin {"out", "post.start"} => Up
  BY <1>t DEF Proper, Phases
<1>7. CASE Drain \/ ClearRunning
  BY <1>7, <1>u
  DEF Drain, ClearRunning, EngineClearRunning, EngineLoops, PostLoops,
      WorkerDead, Ended
<1>8. CASE Join
  BY <1>8, <1>u DEF Join, EngineJoin, PostLoops
<1>9. CASE Free
  BY <1>9, <1>u DEF Free, EngineDataResourceRelease, PostLoops
<1>10. CASE PostDrain \/ PostClear
  BY <1>10, <1>u DEF PostDrain, PostClear, PostClearRunning, PostLoops
<1>11. CASE PostJoined \/ PostFree
  BY <1>11, <1>u DEF PostJoined, PostFree
<1>12. CASE EngineThread
  <2>1. /\ UNCHANGED <<call, at, phase, misused, running_, prunning_, ppc>>
        /\ EngineLoops => \/ EngineLoops' \/ WorkerDead'
                          \/ ~running_ /\ wpc' = "returned"
        /\ wpc \in Ended => UNCHANGED wpc
    BY <1>12, ThreadSteps, ThreadLoops DEF EngineThread
  <2> QED
    BY <2>1 DEF PostLoops, WorkerDead, Ended
<1>13. CASE PostThread
  <2>1. /\ UNCHANGED <<call, at, phase, misused, running_, prunning_, wpc>>
        /\ PostLoops => \/ PostLoops'
                        \/ ~prunning_ /\ ppc' = "returned"
        /\ ppc = "returned" => UNCHANGED ppc
    BY <1>13, ThreadSteps, ThreadLoops
    DEF PostThread, PostWorker, PostTest, PostExit, PostPopEmpty, PostPop
  <2> QED
    BY <2>1 DEF EngineLoops, WorkerDead, Ended
<1>14. CASE UNCHANGED vars
  BY <1>14 DEF vars, EngineLoops, PostLoops, WorkerDead
<1> QED
  BY <1>1, <1>2, <1>3, <1>4, <1>5, <1>6, <1>7, <1>8, <1>9, <1>10, <1>11,
     <1>12, <1>13, <1>14
  DEF Next, MainCalls, MainWorks

\* Whenever main waits, there is a thread that will answer it, unless the
\* engine has given up or the program has left the life cycle: main and the
\* two threads never wait for one another.
THEOREM WaitsAnswered == Spec => []NoWaitInVain
<1>1. Init => Answered
  BY DEF Init, Answered, Up
<1>2. /\ TypeOK /\ Control /\ Proper /\ Answered /\ [Next]_vars
      => Answered'
  BY AnsweredInductive
<1>3. TypeOK /\ Control /\ Proper /\ Answered => NoWaitInVain
  <2> SUFFICES ASSUME TypeOK, Control, Proper, Answered, ~misused
               PROVE  at \in {"drain", "post.drain"} => Up
    BY DEF Answered, NoWaitInVain
  <2> QED
    BY DEF TypeOK, MainTypeOK, Control, Proper, Up, Phases
<1> QED
  BY <1>1, <1>2, <1>3, TypeCorrect, ControlKept, ProperKept, PTL DEF Spec
=============================================================================
