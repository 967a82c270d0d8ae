------------------------------ MODULE Pictures ------------------------------
(***************************************************************************)
(* The pixels of the pictures that travel through the pipeline.  A message *)
(* holds a cv::Mat, which refers to pixels it may share with others: the   *)
(* copy constructor of InfertMsg, with which MsgQueue::Push stores a       *)
(* message, shares them; its operator=, with which Pop and                 *)
(* DecodeProcessor::Inference copy one, makes new ones (cv::Mat::clone).   *)
(* The calling program, the engine's worker and the post-processor's       *)
(* worker run meanwhile, and pictures are read and written line by line.   *)
(*                                                                         *)
(* Pixels that are made are named by the call that makes them and the      *)
(* number of the frame it makes them for; cv::Mat frees them when nobody   *)
(* refers to them any more.  Every picture is taken to have objects in it; *)
(* the boxes found in it are represented by the picture they were found in.*)
(***************************************************************************)
EXTENDS BoundedBuffer

CONSTANTS
    Height,         \* lines of a picture
    MaxFrames       \* bound: frames handed in

ASSUME PicturesAssumption == Height \in Nat \ {0} /\ MaxFrames \in Nat

VARIABLES
    frames,         \* frames the program has made; they are 1 .. frames
    msg,            \* the message of the program
    inputMsgQue_, input_msg_,
    bboxQueue_, output_msg_,
    pixels,         \* pixels[b][k]: what line k of the pixels b shows
    pc,             \* pc[t]: what thread t is doing
    line,           \* line[t]: how many lines of a picture it has done
    found,          \* box_result of the engine's worker
    files,          \* img_<frame_id>.jpg, by frame_id
    spoiled         \* history: frames whose picture the program wrote to
                    \* after it had handed it in and before it was copied

queues == <<inputMsgQue_, input_msg_, bboxQueue_, output_msg_>>
vars == <<frames, msg, queues, pixels, pc, line, found, files, spoiled>>

Threads == {"main", "engine", "post"}
Frames == 1 .. MaxFrames
Lines == 1 .. Height
Buffers == {"loaded", "popped", "published", "delivered"} \X Frames
Pictures == [Lines -> [frame : 0 .. MaxFrames, marked : BOOLEAN]]

\* A picture as the program makes it, and with boxes drawn on it.
Line(f) == [frame |-> f, marked |-> FALSE]
Picture(f) == [k \in Lines |-> Line(f)]
Marked(picture) == [k \in Lines |-> [picture[k] EXCEPT !.marked = TRUE]]

\* InfertMsg(): cv::Mat() has no pixels.
NoPixels == <<"none", 0>>
NewMsg == [frame_id |-> 0, image |-> NoPixels, bboxes |-> <<>>]

\* operator=, when the new pixels are b.
Assigned(this, obj, b) ==
    [frame_id |-> obj.frame_id, image |-> b,
     bboxes |-> this.bboxes \o obj.bboxes]

Init ==
    /\ frames = 0 /\ msg = NewMsg
    /\ inputMsgQue_ = <<>> /\ input_msg_ = NewMsg
    /\ bboxQueue_ = <<>> /\ output_msg_ = NewMsg
    /\ pixels = [b \in Buffers |-> Picture(0)]
    /\ pc = [t \in Threads |-> IF t = "main" THEN "next" ELSE "poll"]
    /\ line = [t \in Threads |-> 0]
    /\ found = Picture(0)
    /\ files = <<>> /\ spoiled = {}

\* Thread t is done with one thing and begins another.
Goes(t, from, to) ==
    /\ pc[t] = from
    /\ pc' = [pc EXCEPT ![t] = to]
    /\ line' = [line EXCEPT ![t] = 0]

\* Thread t, doing a, has another line to do, and line[t] + 1 of the pixels b
\* becomes l; or it has done all lines and goes on.
Does(t, a, b, l) ==
    /\ pc[t] = a /\ line[t] < Height
    /\ pixels' = [pixels EXCEPT ![b][line[t] + 1] = l]
    /\ line' = [line EXCEPT ![t] = @ + 1]
    /\ UNCHANGED pc

Finishes(t, from, to) == line[t] = Height /\ Goes(t, from, to)

-----------------------------------------------------------------------------
\* The program: the pixels of its next picture are new ones (TestDemo), or
\* those of its last one (a program that reads a video into one cv::Mat).
NewPicture ==
    /\ frames < MaxFrames
    /\ Goes("main", "next", "load")
    /\ frames' = frames + 1
    /\ msg' = [frame_id |-> frames', image |-> <<"loaded", frames'>>,
               bboxes |-> <<>>]
    /\ pixels' = [pixels EXCEPT ![msg'.image] = Picture(frames')]
    /\ UNCHANGED <<queues, found, files, spoiled>>

SamePixels ==
    /\ frames \in 1 .. MaxFrames - 1
    /\ Goes("main", "next", "draw")
    /\ frames' = frames + 1
    /\ msg' = [msg EXCEPT !.frame_id = frames']
    /\ UNCHANGED <<queues, pixels, found, files, spoiled>>

\* The messages in the queue whose next line to be copied, or a later one, is
\* about to be overwritten.
Sharing ==
    {i \in 1 .. Len(inputMsgQue_) :
        /\ inputMsgQue_[i].image = msg.image
        /\ ~ (i = 1 /\ pc["engine"] = "copy" /\ line["main"] < line["engine"])}

OverwriteLine ==
    /\ Does("main", "draw", msg.image, Line(frames))
    /\ spoiled' = spoiled \cup {inputMsgQue_[i].frame_id : i \in Sharing}
    /\ UNCHANGED <<frames, msg, queues, found, files>>

Overwritten ==
    /\ Finishes("main", "draw", "load")
    /\ UNCHANGED <<frames, msg, queues, pixels, found, files, spoiled>>

\* LoadData: Push shares the pixels.  It waits while Pop copies, which holds
\* the mutex of the queue.
LoadData ==
    /\ pc["engine"] # "copy"
    /\ Goes("main", "load", "next")
    /\ inputMsgQue_' = Pushed(inputMsgQue_, msg)
    /\ UNCHANGED <<frames, msg, input_msg_, bboxQueue_, output_msg_, pixels,
                   found, files, spoiled>>

-----------------------------------------------------------------------------
\* The engine's worker: InferenceEngine::Inference.
PopInput ==
    /\ inputMsgQue_ # <<>>
    /\ Goes("engine", "poll", "copy")
    /\ UNCHANGED <<frames, msg, queues, pixels, found, files, spoiled>>

Popped == <<"popped", Head(inputMsgQue_).frame_id>>

CopyInput ==
    /\ pc["engine"] = "copy"
    /\ Does("engine", "copy", Popped,
            pixels[Head(inputMsgQue_).image][line["engine"] + 1])
    /\ UNCHANGED <<frames, msg, queues, found, files, spoiled>>

PopShares ==                    \* mutant: Pop makes no pixels of its own
    /\ Finishes("engine", "copy", "infer")
    /\ input_msg_' = Assigned(input_msg_, Head(inputMsgQue_),
                              Head(inputMsgQue_).image)
    /\ inputMsgQue_' = Tail(inputMsgQue_)
    /\ UNCHANGED <<frames, msg, bboxQueue_, output_msg_, pixels, found, files,
                   spoiled>>

PoppedInput ==
    /\ Finishes("engine", "copy", "infer")
    /\ input_msg_' = Assigned(input_msg_, Head(inputMsgQue_), Popped)
    /\ inputMsgQue_' = Tail(inputMsgQue_)
    /\ UNCHANGED <<frames, msg, bboxQueue_, output_msg_, pixels, found, files,
                   spoiled>>

\* The picture goes to the device and through the network, and CpuDecode says
\* what is in it.
Infer ==
    /\ Goes("engine", "infer", "publish")
    /\ found' = pixels[input_msg_.image]
    /\ UNCHANGED <<frames, msg, queues, pixels, files, spoiled>>

\* DecodeProcessor::Inference: msg = infer_msg and the boxes go into
\* bboxQueue_; Push waits while the other worker's Pop copies.  Only then
\* Visualization draws on infer_msg.
PublishShares ==                \* mutant: InfertMsg msg = infer_msg
    /\ pc["post"] # "copy"
    /\ Goes("engine", "publish", "draw")
    /\ bboxQueue_' = Pushed(bboxQueue_,
                         [input_msg_ EXCEPT !.bboxes = Append(@, found)])
    /\ UNCHANGED <<frames, msg, inputMsgQue_, input_msg_, output_msg_, pixels,
                   found, files, spoiled>>

Published == <<"published", input_msg_.frame_id>>

Publish ==
    /\ pc["post"] # "copy"
    /\ Goes("engine", "publish", "draw")
    /\ LET copy == Assigned(NewMsg, input_msg_, Published)
       IN  bboxQueue_' = Pushed(bboxQueue_,
                             [copy EXCEPT !.bboxes = Append(@, found)])
    /\ pixels' = [pixels EXCEPT ![Published] = pixels[input_msg_.image]]
    /\ UNCHANGED <<frames, msg, inputMsgQue_, input_msg_, output_msg_, found,
                   files, spoiled>>

\* Visualization draws on infer_msg.image, which is input_msg_.image, and
\* writes the file.
Draw ==
    /\ pc["engine"] = "draw" /\ line["engine"] < Height
    /\ LET old == pixels[input_msg_.image][line["engine"] + 1]
       IN  Does("engine", "draw", input_msg_.image,
                [old EXCEPT !.marked = TRUE])
    /\ UNCHANGED <<frames, msg, queues, found, files, spoiled>>

SaveEarly ==                    \* mutant: the file is written before it is drawn
    /\ Goes("engine", "draw", "poll")
    /\ files' = [f \in DOMAIN files \cup {input_msg_.frame_id} |->
                    IF f = input_msg_.frame_id THEN pixels[input_msg_.image]
                                               ELSE files[f]]
    /\ UNCHANGED <<frames, msg, queues, pixels, found, spoiled>>

Save ==
    /\ Finishes("engine", "draw", "poll")
    /\ files' = [f \in DOMAIN files \cup {input_msg_.frame_id} |->
                    IF f = input_msg_.frame_id THEN pixels[input_msg_.image]
                                               ELSE files[f]]
    /\ UNCHANGED <<frames, msg, queues, pixels, found, spoiled>>

-----------------------------------------------------------------------------
\* The post-processor's worker: PostProcessor::Inference.
PopResult ==
    /\ bboxQueue_ # <<>>
    /\ Goes("post", "poll", "copy")
    /\ UNCHANGED <<frames, msg, queues, pixels, found, files, spoiled>>

Delivered == <<"delivered", Head(bboxQueue_).frame_id>>

CopyResult ==
    /\ pc["post"] = "copy"
    /\ Does("post", "copy", Delivered,
            pixels[Head(bboxQueue_).image][line["post"] + 1])
    /\ UNCHANGED <<frames, msg, queues, found, files, spoiled>>

PoppedResult ==
    /\ Finishes("post", "copy", "poll")
    /\ output_msg_' = Assigned(output_msg_, Head(bboxQueue_), Delivered)
    /\ bboxQueue_' = Tail(bboxQueue_)
    /\ UNCHANGED <<frames, msg, inputMsgQue_, input_msg_, pixels, found,
                   files, spoiled>>

Main == NewPicture \/ SamePixels \/ OverwriteLine \/ Overwritten \/ LoadData
Engine ==
    \/ PopInput \/ CopyInput \/ PoppedInput \/ Infer \/ Publish \/ Draw
    \/ Save
Post == PopResult \/ CopyResult \/ PoppedResult

Next == Main \/ Engine \/ Post

Spec == Init /\ [][Next]_vars

-----------------------------------------------------------------------------
Messages == [frame_id : 0 .. MaxFrames, image : Buffers \cup {NoPixels},
             bboxes : Seq(Pictures)]

PicturesTypeOK ==
    /\ frames \in 0 .. MaxFrames
    /\ {msg, input_msg_, output_msg_} \subseteq Messages
    /\ inputMsgQue_ \in Seq(Messages) /\ bboxQueue_ \in Seq(Messages)
    /\ pixels \in [Buffers -> Pictures]
    /\ pc \in [Threads -> {"next", "draw", "load", "poll", "copy", "infer",
                           "publish"}]
    /\ pc["main"] \in {"next", "draw", "load"}
    /\ pc["engine"] \in {"poll", "copy", "infer", "publish", "draw"}
    /\ pc["post"] \in {"poll", "copy"}
    /\ line \in [Threads -> 0 .. Height]
    /\ found \in Pictures
    /\ files \in [DOMAIN files -> Pictures] /\ DOMAIN files \subseteq Frames
    /\ spoiled \subseteq Frames

\* The results that others can see: what waits in bboxQueue_, and what the
\* post-processor has.
Results ==
    {bboxQueue_[i] : i \in 1 .. Len(bboxQueue_)}
        \cup (IF output_msg_ = NewMsg THEN {} ELSE {output_msg_})

\* The picture of a result is the one its boxes (the last ones in it) were
\* found in, as the network saw it: although Visualization draws on the
\* engine's copy after the result was published and while it is copied, no
\* published picture ever has a mark, or is torn.
ResultsFitPictures ==
    \A r \in Results :
        /\ r.bboxes # <<>> /\ r.bboxes[Len(r.bboxes)] = pixels[r.image]
        /\ \A k \in Lines : ~pixels[r.image][k].marked

\* A result shows its own frame, whole, although the queue shares the pixels
\* with the calling program: nobody but the program itself can spoil a
\* picture, by writing to it before it is copied.
OwnPicture ==
    \A r \in Results :
        r.frame_id \notin spoiled => pixels[r.image] = Picture(r.frame_id)

\* The program's picture stays as the program made it: the boxes are never
\* drawn on it, although it is handed in without a copy.
CallersPictureKept ==
    frames # 0 /\ pc["main"] # "draw" => pixels[msg.image] = Picture(frames)

\* The file of a frame shows what the frame's result shows, with the marks
\* everywhere: not a picture that is half drawn, and, unless the program
\* spoiled it, no other frame's.
FilesFitResults ==
    \A f \in DOMAIN files :
        /\ files[f] = Marked(pixels[<<"published", f>>])
        /\ f \notin spoiled => files[f] = Marked(Picture(f))
=============================================================================
