--------------------------- MODULE InferPipeline ---------------------------
(***************************************************************************)
(* InterfaceYolo and InferPipeline (app_yolo/appinterface/interface.cpp,   *)
(* app_yolo/app/inferpipeline.cpp) over the two modules they drive.  The   *)
(* main thread of the program makes one interface call after the other;    *)
(* the two worker threads run meanwhile.  A call visits the                *)
(* InferenceEngine first and the PostProcessor second (moduleMap_ is       *)
(* ordered by ModuleType).                                                 *)
(*                                                                         *)
(* call is the call that main is in, at the step it has to do next.        *)
(***************************************************************************)
EXTENDS PostProcessor

CONSTANTS
    Allowed,        \* Allowed[phase]: the calls the program may make then
    MaxInits        \* bound: calls of Init

VARIABLES
    call, at,
    phase,          \* what the calls so far amount to
    loaded,         \* history: frames handed in; they are 1 .. loaded
    base,           \* history: frames handed in before the last Start
    misused,        \* history: a call was made outside the life cycle
    inits           \* calls of Init so far

mainVars == <<call, at, phase, loaded, base, misused, inits>>
vars == <<engineVars, postVars, mainVars>>

Calls == {"Init", "Start", "LoadData", "Stop", "Release"}
Phases == {"new", "inited", "started", "stopped"}

\* The life cycle that the test programs follow (test/yolov5/main.cpp:
\* InitConfig, Init, Start, LoadData for every image, Stop), with what is as
\* harmless: frames handed in early, Release instead of Stop, and another
\* Init afterwards.
LifeCycle ==
    [new     |-> {"Init"},
     inited  |-> {"Start", "LoadData"},
     started |-> {"LoadData", "Stop", "Release"},
     stopped |-> {"Init"}]

ASSUME AllowedAssumption ==
    Allowed \in [Phases -> SUBSET Calls] /\ MaxInits \in Nat

Init ==
    /\ EngineStart
    /\ PostStart
    /\ call = "none" /\ at = "out" /\ phase = "new"
    /\ loaded = 0 /\ base = 0 /\ misused = FALSE
    /\ inits = 0

-----------------------------------------------------------------------------
\* Main makes the call c.
Makes(c) ==
    /\ ~crashed
    /\ call = "none"
    /\ c \in Allowed[phase]
    /\ misused' = (misused \/ c \notin LifeCycle[phase])

Next_(c, a) == call' = c /\ at' = a
Return == Next_("none", "out")
At(a) == ~crashed /\ at = a
Goes(from, to) == At(from) /\ at' = to /\ UNCHANGED call

\* std::terminate, or a null pointer used: the process is gone.
Crash ==
    /\ crashed' = TRUE
    /\ UNCHANGED <<running_, worker, wpc, input_msg_, inputMsgQue_,
                   bboxQueue_, deviceVars, evicted, postVars, call, at,
                   phase, loaded, base, inits>>

\* Before the first Init, infer_ is null.
CallTooEarly ==
    /\ \E c \in Calls \ {"Init"} : Makes(c)
    /\ phase = "new"
    /\ Crash

\* InterfaceYolo::Init replaces the pipeline by a new one and initializes
\* it; all of this happens while no worker exists.
CallInit ==
    /\ Makes("Init")
    /\ inits < MaxInits
    /\ worker # "joinable"
    /\ inits' = inits + 1
    /\ phase' = "inited"
    /\ EngineInit
    /\ PostInit
    /\ UNCHANGED <<call, at, loaded, base>>

\* The old pipeline is destroyed with the handle of a thread that was never
\* joined.
CallInitCrash ==
    /\ Makes("Init")
    /\ inits < MaxInits
    /\ worker = "joinable"
    /\ Crash

\* Start: InferenceEngine::RunStart, then PostProcessor::RunStart.
CallStart ==
    /\ Makes("Start")
    /\ phase # "new"
    /\ worker # "joinable"
    /\ Next_("Start", "post.start")
    /\ base' = loaded
    /\ EngineRunStart
    /\ UNCHANGED <<postVars, phase, loaded, inits>>

StartPost ==
    /\ At("post.start")
    /\ PostRunStart
    /\ Return
    /\ phase' = "started"
    /\ UNCHANGED <<engineVars, loaded, base, misused, inits>>

\* The handle of a thread that was never joined is overwritten.
CallStartCrash ==
    /\ Makes("Start")
    /\ phase # "new"
    /\ worker = "joinable"
    /\ Crash

\* LoadData hands in the next frame.
CallLoadData ==
    /\ Makes("LoadData")
    /\ phase # "new"
    /\ loaded < MaxFrames
    /\ loaded' = loaded + 1
    /\ EngineLoadData(loaded + 1)
    /\ UNCHANGED <<postVars, call, at, phase, base, inits>>

\* Stop and Release visit the same steps; Release does not wait for the
\* queues to drain.
CallStop ==
    /\ Makes("Stop")
    /\ phase # "new"
    /\ Next_("Stop", "drain")
    /\ UNCHANGED <<engineVars, postVars, phase, loaded, base, inits>>

CallRelease ==
    /\ Makes("Release")
    /\ phase # "new"
    /\ Next_("Release", "flag")
    /\ UNCHANGED <<engineVars, postVars, phase, loaded, base, inits>>

history == <<phase, loaded, base, misused, inits>>

DrainNothing ==                 \* mutant: Stop does not wait for the frames
    /\ Goes("drain", "flag")
    /\ UNCHANGED <<engineVars, postVars, history>>

Drain ==
    /\ inputMsgQue_ = <<>>
    /\ Goes("drain", "flag")
    /\ UNCHANGED <<engineVars, postVars, history>>

ClearRunning ==
    /\ Goes("flag", "join")
    /\ EngineClearRunning
    /\ UNCHANGED <<postVars, history>>

Join ==
    /\ Goes("join", "free")
    /\ worker # "none"
    /\ EngineJoin
    /\ UNCHANGED <<postVars, history>>

\* worker_ptr_ is null before the first Start.
JoinCrash ==
    /\ At("join")
    /\ worker = "none"
    /\ Crash
    /\ UNCHANGED misused

Free ==
    /\ At("free")
    /\ Next_(call, IF call = "Stop" THEN "post.drain" ELSE "post.flag")
    /\ EngineDataResourceRelease
    /\ UNCHANGED <<postVars, history>>

PostDrain ==
    /\ bboxQueue_ = <<>>
    /\ Goes("post.drain", "post.flag")
    /\ UNCHANGED <<engineVars, postVars, history>>

PostClear ==
    /\ Goes("post.flag", "post.join")
    /\ PostClearRunning
    /\ UNCHANGED <<engineVars, history>>

PostJoined ==
    /\ Goes("post.join", "post.free")
    /\ PostJoin
    /\ UNCHANGED <<engineVars, history>>

PostFree ==
    /\ At("post.free")
    /\ Return
    /\ phase' = "stopped"
    /\ PostDataResourceRelease
    /\ UNCHANGED <<loaded, base, misused, inits>>

-----------------------------------------------------------------------------
\* Main outside and inside a call, and the two threads.
MainCalls ==
    \/ CallTooEarly \/ CallInit \/ CallInitCrash \/ CallStart
    \/ CallStartCrash \/ CallLoadData \/ CallStop \/ CallRelease

MainWorks ==
    \/ StartPost
    \/ Drain \/ ClearRunning \/ Join \/ JoinCrash \/ Free
    \/ PostDrain \/ PostClear \/ PostJoined \/ PostFree

EngineThread == ~crashed /\ Worker /\ UNCHANGED <<postVars, mainVars>>

PostThread == ~crashed /\ PostWorker /\ UNCHANGED mainVars

Next == MainCalls \/ MainWorks \/ EngineThread \/ PostThread

\* The operating system runs both workers and a main that is inside a call.
\* Nothing makes the program call anything.
Fairness ==
    /\ WF_vars(MainWorks)
    /\ WF_vars(EngineThread)
    /\ WF_vars(PostThread)

Spec == Init /\ [][Next]_vars
FairSpec == Spec /\ Fairness

-----------------------------------------------------------------------------
MainTypeOK ==
    /\ call \in {"none", "Start", "Stop", "Release"}
    /\ at \in {"out", "drain", "flag", "join", "free", "post.start",
               "post.drain", "post.flag", "post.join", "post.free"}
    /\ phase \in Phases
    /\ loaded \in 0 .. MaxFrames /\ base \in 0 .. loaded
    /\ misused \in BOOLEAN /\ inits \in 0 .. MaxInits

TypeOK == EngineTypeOK /\ PostTypeOK /\ MainTypeOK

\* What the two threads touch.  The frames that lie in a queue or are being
\* worked on:
InQueue(q) == {q[i].frame_id : i \in 1 .. Len(q)}
InHand == IF WorkerBusy THEN {input_msg_.frame_id} ELSE {}
InFlight == InQueue(bboxQueue_) \cup InHand \cup InQueue(inputMsgQue_)
Delivered == {delivered[i] : i \in 1 .. Len(delivered)}
FailedOn == IF WorkerDead THEN {input_msg_.frame_id} ELSE {}

\* Device memory is freed by the main thread, in Stop and Release, and used by
\* the worker without any lock: only the join in between keeps them apart.
NoUseAfterFree ==
    WorkerBusy => \A b \in Buffers : memory[b] \notin {"freed", "null"}

\* Between Start and Stop no frame is lost in silence: each is still in
\* flight, has reached the post-processor, was pushed out of a full queue, or
\* is the one on which the engine gave up.
NothingVanishes ==
    phase = "started" /\ call \in {"none", "Stop"} =>
        \A f \in base + 1 .. loaded :
            f \in InFlight \cup Delivered \cup evicted \cup FailedOn

\* Stop drains the pipeline although it looks at each queue once and joins
\* each thread after that: when it is about to return, every frame handed in
\* since Start is through, but for those evicted and the one that failed.
StopDrains ==
    call = "Stop" /\ at = "post.free" =>
        base + 1 .. loaded \subseteq Delivered \cup evicted \cup FailedOn

\* The boxes published under a frame's number were computed from that frame,
\* as long as no copy has failed: the buffers are shared by all frames and
\* synchronized by one call.
FreshBoxes ==
    ~stale =>
        \A i \in 1 .. Len(bboxQueue_) :
            /\ Len(bboxQueue_[i].bboxes) = 1
            /\ bboxQueue_[i].bboxes[1][1] = bboxQueue_[i].frame_id

\* The pipeline is a channel for frames: it may lose some, it never delivers
\* one twice, out of order or out of nothing, and a push never costs the
\* frame that is pushed.
Channel == INSTANCE FrameChannel WITH sent <- loaded, inflight <- InFlight
ImplementsFrameChannel == Channel!ChannelSpec

\* A thread that runs can still be joined: its handle is neither lost nor
\* taken for joined.
ThreadsHaveHandles ==
    ~crashed =>
        /\ wpc \notin Ended \cup {"off"} => worker = "joinable"
        /\ ppc \notin {"off", "returned"} => pworker = "joinable"
        /\ pworker = "none" => worker = "none" \/ at = "post.start"

\* A program that keeps to the life cycle never ends in std::terminate or
\* with a null pointer, provided the engine was loaded.
CrashOnlyByMisuse == crashed => misused \/ NoEngine

\* A thread that looks at its flag and its queue again and again.
EngineLoops == wpc \notin Ended \cup {"off"}
PostLoops == ppc \in {"test", "pop"}

\* In the life cycle main never waits in vain, unless the engine has given up:
\* whenever Stop waits for a queue to drain, the thread that empties it runs
\* and has not been told to end; whenever Stop or Release waits for a thread,
\* that thread has ended or has been told to.
NoWaitInVain ==
    ~misused =>
        /\ at = "drain" => WorkerDead \/ (running_ /\ EngineLoops)
        /\ at = "join" => wpc \in Ended \/ (~running_ /\ EngineLoops)
        /\ at = "post.drain" => prunning_ /\ PostLoops
        /\ at = "post.join" => ppc = "returned" \/ (~prunning_ /\ PostLoops)

-----------------------------------------------------------------------------
\* Stop returns unless the engine has given up, in the life cycle, ...
StopReturns ==
    call = "Stop" ~> call = "none" \/ WorkerDead \/ misused \/ crashed

\* ... and Release returns in any case, unless it ends the process.
ReleaseReturns == call = "Release" ~> call = "none" \/ crashed

\* A frame handed in while the pipeline runs does not stay in it for ever,
\* whatever the program called before.
FramesSettle ==
    \A f \in Frames :
        phase = "started" /\ f \in base + 1 .. loaded
            ~> \/ f \in Delivered \cup evicted
               \/ phase # "started" \/ WorkerDead \/ crashed

-----------------------------------------------------------------------------
\* What comments and documents of the repository say, and the code does not
\* do; each is the subject of a run that refutes it.

\* "Thread stop" (interface.h:62): Stop ends the threads and returns.
StopAlwaysReturns == call = "Stop" ~> call = "none"

\* "Frame output" and "result output" (docs/framework.md:19,26): the
\* post-processor's message holds the boxes of the frame whose number it has.
ResultIsOfOneFrame ==
    ~stale => \A i \in 1 .. Len(output_msg_.bboxes) :
                 output_msg_.bboxes[i][1] = output_msg_.frame_id

\* "Target image size" (parseconfig.h:70): what the network is given is the
\* target image, all of it.
NetworkSeesWholeImage ==
    wpc = "decode" /\ ~stale => image.input = Whole(input_msg_.frame_id)

\* "ALL module init success" (inferpipeline.cpp:65): an Init that returned
\* true has an engine.
InitMeansReady == phase = "inited" => ~NoEngine
=============================================================================
