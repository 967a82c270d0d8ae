--------------------------- MODULE PicturesProofs ---------------------------
(***************************************************************************)
(* Theorems about the pictures, for queues of any length, pictures of any  *)
(* height, any number of frames and any program: that no result, no file   *)
(* and no picture of the program ever shows what it should not.            *)
(***************************************************************************)
EXTENDS Pictures, SequenceTheorems, TLAPS

\* How many frames have been handed in.
HandedIn == IF pc["main"] = "next" THEN frames ELSE frames - 1

\* Frames keep their order, and every message refers to pixels that were made
\* by the call it came from; the program alone may use pixels again.
Order ==
    /\ msg.frame_id = frames
    /\ pc["main"] # "next" => frames # 0
    /\ frames # 0 => \E n \in 1 .. frames : msg.image = <<"loaded", n>>
    /\ \A i, j \in 1 .. Len(inputMsgQue_) :
          i < j => inputMsgQue_[i].frame_id < inputMsgQue_[j].frame_id
    /\ \A i \in 1 .. Len(inputMsgQue_) :
          /\ inputMsgQue_[i].frame_id <= HandedIn
          /\ input_msg_.frame_id < inputMsgQue_[i].frame_id
          /\ \E n \in 1 .. frames : inputMsgQue_[i].image = <<"loaded", n>>
    /\ input_msg_.frame_id <= HandedIn
    /\ \A i, j \in 1 .. Len(bboxQueue_) :
          i < j => bboxQueue_[i].frame_id < bboxQueue_[j].frame_id
    /\ \A i \in 1 .. Len(bboxQueue_) :
          /\ bboxQueue_[i].frame_id <= input_msg_.frame_id
          /\ output_msg_.frame_id < bboxQueue_[i].frame_id
          /\ bboxQueue_[i].image = <<"published", bboxQueue_[i].frame_id>>
    /\ output_msg_.frame_id <= input_msg_.frame_id
    /\ \A f \in DOMAIN files : f <= input_msg_.frame_id

\* A frame in the worker's hand that is not published has no result yet, and
\* one that is not drawn has no file.
Unpublished ==
    /\ pc["engine"] \in {"infer", "publish"} =>
          /\ \A i \in 1 .. Len(bboxQueue_) :
                bboxQueue_[i].frame_id < input_msg_.frame_id
          /\ output_msg_.frame_id < input_msg_.frame_id
    /\ pc["engine"] \in {"infer", "publish", "draw"} =>
          \A f \in DOMAIN files : f < input_msg_.frame_id

\* The program's own pictures.
Callers ==
    /\ \A n \in Frames, k \in Lines : ~pixels[<<"loaded", n>>][k].marked
    /\ frames # 0 => \A k \in Lines :
          pc["main"] # "draw" \/ k <= line["main"]
              => pixels[msg.image][k] = Line(frames)

\* The frames that wait: lines that are still to be copied are the frame's
\* own, and so are those that have been copied.
Waiting ==
    /\ \A i \in 1 .. Len(inputMsgQue_), k \in Lines :
          /\ inputMsgQue_[i].frame_id \notin spoiled
          /\ i = 1 /\ pc["engine"] = "copy" => k > line["engine"]
          => pixels[inputMsgQue_[i].image][k] = Line(inputMsgQue_[i].frame_id)
    /\ pc["engine"] = "copy" =>
          /\ inputMsgQue_ # <<>>
          /\ \A k \in Lines : k <= line["engine"] =>
                /\ ~pixels[Popped][k].marked
                /\ inputMsgQue_[1].frame_id \notin spoiled =>
                      pixels[Popped][k] = Line(inputMsgQue_[1].frame_id)

\* Picture p is what the network may see of frame f.
Genuine(p, f) ==
    /\ \A k \in Lines : ~p[k].marked
    /\ f \notin spoiled => p = Picture(f)

\* The frame in the worker's hand, until it is published, and then, down to
\* the line that Visualization has reached.
InHand ==
    /\ input_msg_.bboxes = <<>>
    /\ \A i \in 1 .. Len(inputMsgQue_) : inputMsgQue_[i].bboxes = <<>>
    /\ msg.bboxes = <<>>
    /\ pc["engine"] \in {"infer", "publish", "draw"} =>
          /\ input_msg_.frame_id # 0
          /\ input_msg_.image = <<"popped", input_msg_.frame_id>>
    /\ pc["engine"] \in {"infer", "publish"} =>
          Genuine(pixels[input_msg_.image], input_msg_.frame_id)
    /\ pc["engine"] = "publish" => found = pixels[input_msg_.image]
    /\ pc["engine"] = "draw" =>
          /\ Genuine(pixels[Published], input_msg_.frame_id)
          /\ \A k \in Lines : k <= line["engine"] =>
                pixels[input_msg_.image][k] = Marked(pixels[Published])[k]
          /\ \A k \in Lines : k > line["engine"] =>
                pixels[input_msg_.image][k] = pixels[Published][k]

\* The results, and what of the first one has been copied.
Shown ==
    /\ \A i \in 1 .. Len(bboxQueue_) :
          /\ bboxQueue_[i].bboxes = <<pixels[bboxQueue_[i].image]>>
          /\ Genuine(pixels[bboxQueue_[i].image], bboxQueue_[i].frame_id)
    /\ pc["post"] = "copy" =>
          /\ bboxQueue_ # <<>>
          /\ \A k \in Lines : k <= line["post"] =>
                pixels[Delivered][k] = pixels[bboxQueue_[1].image][k]
    /\ output_msg_ # NewMsg =>
          /\ output_msg_.frame_id # 0
          /\ output_msg_.image = <<"delivered", output_msg_.frame_id>>
          /\ output_msg_.bboxes # <<>>
          /\ output_msg_.bboxes[Len(output_msg_.bboxes)]
                = pixels[output_msg_.image]
          /\ Genuine(pixels[output_msg_.image], output_msg_.frame_id)

\* The files.
Saved ==
    \A f \in DOMAIN files :
        /\ files[f] = Marked(pixels[<<"published", f>>])
        /\ Genuine(pixels[<<"published", f>>], f)

IInv ==
    /\ PicturesTypeOK /\ Order /\ Unpublished /\ Callers /\ Waiting
    /\ InHand /\ Shown /\ Saved

-----------------------------------------------------------------------------
\* The queue p is q without its first d entries and with m at the end.
Follows(p, q, d, m) ==
    /\ d <= Len(q) /\ Len(p) = Len(q) + 1 - d
    /\ p[Len(q) + 1 - d] = m
    /\ \A i \in 1 .. Len(q) - d : p[i] = q[i + d]

\* A push drops the first entry or none, and appends.
LEMMA PushedFacts ==
    ASSUME NEW S, NEW q \in Seq(S), NEW m \in S
    PROVE  /\ Pushed(q, m) \in Seq(S)
           /\ \E d \in {0, 1} : Follows(Pushed(q, m), q, d, m)
<1>1. CASE Len(q) < length_
  <2>1. Pushed(q, m) = Append(q, m)
    BY <1>1 DEF Pushed
  <2>2. Follows(Pushed(q, m), q, 0, m)
    BY <2>1 DEF Follows
  <2> QED
    BY <2>1, <2>2
<1>2. CASE ~(Len(q) < length_)
  <2> DEFINE t == Tail(q)
  <2>1. Pushed(q, m) = Append(t, m)
    BY <1>2 DEF Pushed
  <2>2. q # <<>> /\ Len(q) \in Nat /\ Len(q) >= 1
    BY <1>2, LengthAssumption DEF length_
  <2>3. /\ t \in Seq(S) /\ Len(t) = Len(q) - 1
        /\ \A i \in 1 .. Len(q) - 1 : t[i] = q[i + 1]
    BY <2>2
  <2> HIDE DEF t
  <2>4. Pushed(q, m) \in Seq(S)
    BY <2>1, <2>3
  <2>5. Follows(Pushed(q, m), q, 1, m)
    BY <2>1, <2>2, <2>3 DEF Follows
  <2> QED
    BY <2>4, <2>5
<1> QED
  BY <1>1, <1>2

\* What is left of a queue when its first entry is taken.
LEMMA TailFacts ==
    ASSUME NEW S, NEW q \in Seq(S), q # <<>>
    PROVE  /\ Tail(q) \in Seq(S) /\ Len(Tail(q)) = Len(q) - 1
           /\ Head(q) = q[1] /\ q[1] \in S /\ Len(q) \in Nat \ {0}
           /\ \A i \in 1 .. Len(q) - 1 : Tail(q)[i] = q[i + 1]
OBVIOUS

\* Line k of the pixels b is written.
Writes(b, k, l) == pixels' = [pixels EXCEPT ![b][k] = l]

\* Nothing else changes.
Written(b, k, l) ==
    /\ pixels' \in [Buffers -> Pictures]
    /\ \A c \in Buffers : c # b => pixels'[c] = pixels[c]
    /\ \A j \in Lines : pixels'[b][j] = IF j = k THEN l ELSE pixels[b][j]

LEMMA WritesOnly ==
    ASSUME PicturesTypeOK, NEW b \in Buffers, NEW k \in Lines,
           NEW l \in [frame : 0 .. MaxFrames, marked : BOOLEAN],
           Writes(b, k, l)
    PROVE  Written(b, k, l)
BY DEF PicturesTypeOK, Pictures, Writes, Written

\* What a picture shows.
LEMMA PictureFacts ==
    /\ \A f \in 0 .. MaxFrames :
          /\ Line(f) \in [frame : 0 .. MaxFrames, marked : BOOLEAN]
          /\ Picture(f) \in Pictures
    /\ \A p \in Pictures : Marked(p) \in Pictures
    /\ \A f, k : ~Line(f).marked
    /\ \A f : \A k \in Lines : Picture(f)[k] = Line(f)
BY PicturesAssumption DEF Line, Picture, Pictures, Marked

-----------------------------------------------------------------------------
LEMMA Start == Init => IInv
<1> SUFFICES ASSUME Init PROVE IInv
  OBVIOUS
<1>1. NewMsg \in Messages
  BY PicturesAssumption DEF NewMsg, Messages
<1>2. PicturesTypeOK
  BY <1>1, PictureFacts, PicturesAssumption
  DEF Init, PicturesTypeOK, Threads, Frames
<1>3. Order /\ Unpublished
  BY DEF Init, Order, Unpublished, NewMsg, HandedIn, Threads
<1>4. Callers /\ Waiting
  BY PictureFacts DEF Init, Callers, Waiting, Threads, Buffers, Picture, Line
<1>5. InHand
  BY DEF Init, InHand, NewMsg, Threads
<1>6. Shown /\ Saved
  BY DEF Init, Shown, Saved, Threads
<1> QED
  BY <1>2, <1>3, <1>4, <1>5, <1>6 DEF IInv

-----------------------------------------------------------------------------
\* Where the other threads are, when thread t goes on.
LEMMA Going ==
    ASSUME PicturesTypeOK, NEW t \in Threads, NEW from, NEW to,
           Goes(t, from, to),
           to \in {"next", "draw", "load", "poll", "copy", "infer", "publish"}
    PROVE  /\ pc[t] = from /\ pc'[t] = to /\ line'[t] = 0
           /\ \A u \in Threads : u # t => pc'[u] = pc[u] /\ line'[u] = line[u]
           /\ pc' \in [Threads -> {"next", "draw", "load", "poll", "copy",
                                   "infer", "publish"}]
           /\ line' \in [Threads -> 0 .. Height]
BY PicturesAssumption DEF Goes, PicturesTypeOK

\* What the messages refer to.
LEMMA References ==
    ASSUME IInv
    PROVE  /\ \A i \in 1 .. Len(inputMsgQue_) :
                 /\ inputMsgQue_[i].frame_id \in Frames
                 /\ \E n \in Frames : inputMsgQue_[i].image = <<"loaded", n>>
           /\ \A i \in 1 .. Len(bboxQueue_) :
                 /\ bboxQueue_[i].frame_id \in Frames
                 /\ bboxQueue_[i].image = <<"published", bboxQueue_[i].frame_id>>
           /\ inputMsgQue_ # <<>> => Popped = <<"popped", inputMsgQue_[1].frame_id>>
           /\ bboxQueue_ # <<>> =>
                 Delivered = <<"delivered", bboxQueue_[1].frame_id>>
           /\ input_msg_.frame_id \in 0 .. MaxFrames
           /\ output_msg_.frame_id \in 0 .. MaxFrames
           /\ Len(inputMsgQue_) \in Nat /\ Len(bboxQueue_) \in Nat
           /\ inputMsgQue_ # <<>> => Len(inputMsgQue_) >= 1
           /\ bboxQueue_ # <<>> => Len(bboxQueue_) >= 1
           /\ frames \in 0 .. MaxFrames /\ MaxFrames \in Nat
<1>1. /\ inputMsgQue_ \in Seq(Messages) /\ bboxQueue_ \in Seq(Messages)
      /\ input_msg_ \in Messages /\ output_msg_ \in Messages
      /\ frames \in 0 .. MaxFrames /\ MaxFrames \in Nat
  BY PicturesAssumption DEF IInv, PicturesTypeOK
<1>2. \A m \in Messages : m.frame_id \in 0 .. MaxFrames
  BY DEF Messages
<1>3. \A i \in 1 .. Len(inputMsgQue_) :
          /\ inputMsgQue_[i].frame_id \in Frames
          /\ \E n \in Frames : inputMsgQue_[i].image = <<"loaded", n>>
  <2> SUFFICES ASSUME NEW i \in 1 .. Len(inputMsgQue_)
               PROVE  /\ inputMsgQue_[i].frame_id \in Frames
                      /\ \E n \in Frames : inputMsgQue_[i].image = <<"loaded", n>>
    OBVIOUS
  <2>1. inputMsgQue_[i].frame_id \in 0 .. MaxFrames
    BY <1>1, <1>2
  <2>2. PICK n \in 1 .. frames : inputMsgQue_[i].image = <<"loaded", n>>
    BY DEF IInv, Order
  <2> QED
    BY <1>1, <1>2, <2>1, <2>2 DEF IInv, Order, Frames
<1>4. \A i \in 1 .. Len(bboxQueue_) :
          /\ bboxQueue_[i].frame_id \in Frames
          /\ bboxQueue_[i].image = <<"published", bboxQueue_[i].frame_id>>
  BY <1>1, <1>2 DEF IInv, Order, Frames
<1> QED
  BY <1>1, <1>2, <1>3, <1>4 DEF Popped, Delivered

\* Frame numbers are numbers, wherever they are kept.
LEMMA Numbers ==
    ASSUME IInv
    PROVE  /\ \A n \in Frames : n \in Nat
           /\ input_msg_.frame_id \in Nat /\ output_msg_.frame_id \in Nat
           /\ \A i \in 1 .. Len(bboxQueue_) : bboxQueue_[i].frame_id \in Nat
           /\ \A g \in DOMAIN files : g \in Nat
<1>1. \A n \in Frames : n \in Nat
  BY PicturesAssumption DEF Frames
<1>2. \A n \in 0 .. MaxFrames : n \in Nat
  BY PicturesAssumption
<1>3. DOMAIN files \subseteq Frames
  BY DEF IInv, PicturesTypeOK
<1> QED
  BY <1>1, <1>2, <1>3, References

\* The frame in the worker's hand, and what was or will be made for it.
LEMMA FrameInHand ==
    ASSUME IInv, pc["engine"] \in {"infer", "publish", "draw"}
    PROVE  /\ input_msg_.frame_id \in Frames /\ input_msg_.frame_id # 0
           /\ input_msg_.image = <<"popped", input_msg_.frame_id>>
           /\ Published = <<"published", input_msg_.frame_id>>
           /\ input_msg_.image \in Buffers /\ Published \in Buffers
<1>1. /\ input_msg_.frame_id # 0
      /\ input_msg_.image = <<"popped", input_msg_.frame_id>>
  BY DEF IInv, InHand
<1>2. input_msg_.frame_id \in Frames
  BY <1>1, References DEF Frames
<1> QED
  BY <1>1, <1>2 DEF Published, Buffers

-----------------------------------------------------------------------------
(***************************************************************************)
(* What a step does not touch stays as it was.                             *)
(***************************************************************************)

\* The pixels that the calls of the set made are not written to.
Keeps(calls) ==
    \A s \in calls, n \in Frames : pixels'[<<s, n>>] = pixels[<<s, n>>]

Stays(t) == pc'[t] = pc[t] /\ line'[t] = line[t]

LEMMA CallersStay ==
    ASSUME IInv, Keeps({"loaded"}), Stays("main"), UNCHANGED <<frames, msg>>
    PROVE  Callers'
<1>1. frames # 0 => \E n \in Frames : msg.image = <<"loaded", n>>
  BY References DEF IInv, Order, Frames
<1> QED
  BY <1>1 DEF IInv, Callers, Keeps, Stays

LEMMA WaitingStays ==
    ASSUME IInv, Keeps({"popped"}), Stays("engine"),
           \A i \in 1 .. Len(inputMsgQue_) :
              pixels'[inputMsgQue_[i].image] = pixels[inputMsgQue_[i].image],
           UNCHANGED <<inputMsgQue_, spoiled>>
    PROVE  Waiting'
<1>1. /\ Popped' = Popped
      /\ inputMsgQue_ # <<>> => pixels'[Popped] = pixels[Popped]
  BY References DEF Keeps, Popped
<1> QED
  BY <1>1 DEF IInv, Waiting, Stays

LEMMA InHandStays ==
    ASSUME IInv, Keeps({"popped", "published"}), Stays("engine"),
           UNCHANGED <<inputMsgQue_, input_msg_, found>>, msg'.bboxes = <<>>,
           spoiled \subseteq spoiled'
    PROVE  InHand'
<1>1. pc["engine"] \in {"infer", "publish", "draw"} =>
         /\ pixels'[input_msg_.image] = pixels[input_msg_.image]
         /\ pixels'[Published] = pixels[Published] /\ Published' = Published
  BY References DEF IInv, InHand, Keeps, Published, Frames
<1> QED
  BY <1>1 DEF IInv, InHand, Stays, Genuine

LEMMA ShownStays ==
    ASSUME IInv, Keeps({"published", "delivered"}), Stays("post"),
           UNCHANGED <<bboxQueue_, output_msg_>>, spoiled \subseteq spoiled'
    PROVE  Shown'
<1>1. \A i \in 1 .. Len(bboxQueue_) :
          pixels'[bboxQueue_[i].image] = pixels[bboxQueue_[i].image]
  <2> SUFFICES ASSUME NEW i \in 1 .. Len(bboxQueue_)
               PROVE  pixels'[bboxQueue_[i].image] = pixels[bboxQueue_[i].image]
    OBVIOUS
  <2> DEFINE n == bboxQueue_[i].frame_id
  <2>1. n \in Frames /\ bboxQueue_[i].image = <<"published", n>>
    BY References
  <2>2. pixels'[<<"published", n>>] = pixels[<<"published", n>>]
    BY <2>1 DEF Keeps
  <2> QED
    BY <2>1, <2>2
<1>2. /\ Delivered' = Delivered
      /\ bboxQueue_ # <<>> => pixels'[Delivered] = pixels[Delivered]
  BY References DEF Keeps, Delivered
<1>3. ASSUME output_msg_ # NewMsg
      PROVE  pixels'[output_msg_.image] = pixels[output_msg_.image]
  <2>1. output_msg_.frame_id \in Frames
    BY <1>3, References DEF IInv, Shown, Frames
  <2> QED
    BY <1>3, <2>1 DEF IInv, Shown, Keeps
<1>4. \A i \in 1 .. Len(bboxQueue_) :
          /\ bboxQueue_[i].bboxes = <<pixels'[bboxQueue_[i].image]>>
          /\ Genuine(pixels[bboxQueue_[i].image], bboxQueue_[i].frame_id)'
  BY <1>1 DEF IInv, Shown, Genuine
<1>5. bboxQueue_ # <<>> => 1 \in 1 .. Len(bboxQueue_)
  BY References
<1> QED
  BY <1>1, <1>2, <1>3, <1>4, <1>5 DEF IInv, Shown, Stays, Genuine

LEMMA SavedStays ==
    ASSUME IInv, Keeps({"published"}), UNCHANGED files,
           spoiled \subseteq spoiled'
    PROVE  Saved'
<1>1. \A f \in DOMAIN files : f \in Frames
  BY DEF IInv, PicturesTypeOK
<1> QED
  BY <1>1 DEF IInv, Saved, Keeps, Genuine

LEMMA UnpublishedStays ==
    ASSUME IInv, pc'["engine"] = pc["engine"],
           UNCHANGED <<input_msg_, bboxQueue_, output_msg_, files>>
    PROVE  Unpublished'
BY DEF IInv, Unpublished

-----------------------------------------------------------------------------
(***************************************************************************)
(* The steps of the program.                                               *)
(***************************************************************************)

LEMMA NewPictureKeeps ==
    ASSUME IInv, NewPicture PROVE IInv'
<1> DEFINE b == <<"loaded", frames + 1>>
<1>1. /\ frames \in Nat /\ frames + 1 \in Frames /\ frames' = frames + 1
      /\ b \in Buffers
  BY References DEF NewPicture, Frames, Buffers
<1>2. /\ msg' = [frame_id |-> frames + 1, image |-> b, bboxes |-> <<>>]
      /\ msg' \in Messages
      /\ pixels' = [pixels EXCEPT ![b] = Picture(frames + 1)]
      /\ UNCHANGED <<inputMsgQue_, input_msg_, bboxQueue_, output_msg_, found,
                     files, spoiled>>
  BY <1>1 DEF NewPicture, Messages, Frames, queues
<1>3. /\ pc["main"] = "next" /\ pc'["main"] = "load"
      /\ Stays("engine") /\ Stays("post")
      /\ pc' \in [Threads -> {"next", "draw", "load", "poll", "copy",
                              "infer", "publish"}]
      /\ line' \in [Threads -> 0 .. Height]
  BY Going DEF NewPicture, IInv, Threads, Stays
<1>4. /\ pixels' \in [Buffers -> Pictures] /\ pixels'[b] = Picture(frames + 1)
      /\ \A c \in Buffers : c # b => pixels'[c] = pixels[c]
  BY <1>1, <1>2, PictureFacts DEF IInv, PicturesTypeOK, Frames
<1>5. Keeps({"popped", "published", "delivered"})
  BY <1>4 DEF Keeps, Buffers
<1>6. PicturesTypeOK'
  BY <1>1, <1>2, <1>3, <1>4 DEF IInv, PicturesTypeOK, Frames, Stays
<1>7. Order'
  <2>1. HandedIn = frames /\ HandedIn' = frames
    BY <1>1, <1>3 DEF HandedIn
  <2>2. msg'.frame_id = frames' /\ msg'.image = <<"loaded", frames'>>
        /\ frames' # 0 /\ frames' \in 1 .. frames'
    BY <1>1, <1>2
  <2>3. \A i \in 1 .. Len(inputMsgQue_) :
            \E n \in 1 .. frames' : inputMsgQue_[i].image = <<"loaded", n>>
    <3>1. \A n \in 1 .. frames : n \in 1 .. frames'
      BY <1>1
    <3> QED
      BY <3>1 DEF IInv, Order
  <2> QED
    BY <1>2, <2>1, <2>2, <2>3 DEF IInv, Order
<1>8. Unpublished'
  BY <1>2, <1>3, UnpublishedStays DEF Stays
<1>9. Callers'
  BY <1>1, <1>2, <1>3, <1>4, PictureFacts DEF IInv, Callers, Buffers, Frames
<1>10. Waiting'
  <2>1. ASSUME NEW i \in 1 .. Len(inputMsgQue_)
        PROVE  pixels'[inputMsgQue_[i].image] = pixels[inputMsgQue_[i].image]
    <3>1. PICK n \in 1 .. frames : inputMsgQue_[i].image = <<"loaded", n>>
      BY DEF IInv, Order
    <3>2. n \in Frames /\ n # frames + 1
      BY <1>1, References DEF Frames
    <3>3. <<"loaded", n>> \in Buffers /\ <<"loaded", n>> # b
      BY <3>2 DEF Buffers
    <3> QED
      BY <1>4, <3>1, <3>3
  <2>2. Keeps({"popped"})
    BY <1>5 DEF Keeps
  <2> QED
    BY <1>2, <1>3, <2>1, <2>2, WaitingStays
<1>11. InHand'
  BY <1>2, <1>3, <1>5, InHandStays DEF Keeps
<1>12. Shown' /\ Saved'
  BY <1>2, <1>3, <1>5, ShownStays, SavedStays DEF Keeps
<1> QED
  BY <1>6, <1>7, <1>8, <1>9, <1>10, <1>11, <1>12 DEF IInv

LEMMA SamePixelsKeeps ==
    ASSUME IInv, SamePixels PROVE IInv'
<1>1. /\ frames \in Nat \ {0} /\ frames + 1 \in Frames
      /\ frames' = frames + 1 /\ frames' \in 0 .. MaxFrames
  BY References DEF SamePixels, Frames
<1>2. /\ msg \in Messages /\ msg' = [msg EXCEPT !.frame_id = frames + 1]
      /\ UNCHANGED <<inputMsgQue_, input_msg_, bboxQueue_, output_msg_, pixels,
                     found, files, spoiled>>
  BY DEF SamePixels, queues, IInv, PicturesTypeOK
<1>3. /\ msg' \in Messages /\ msg'.frame_id = frames + 1
      /\ msg'.image = msg.image /\ msg'.bboxes = msg.bboxes
  BY <1>1, <1>2 DEF Messages, Frames
<1>4. /\ pc["main"] = "next" /\ pc'["main"] = "draw" /\ line'["main"] = 0
      /\ Stays("engine") /\ Stays("post")
      /\ pc' \in [Threads -> {"next", "draw", "load", "poll", "copy",
                              "infer", "publish"}]
      /\ line' \in [Threads -> 0 .. Height]
  BY Going DEF SamePixels, IInv, Threads, Stays
<1>5. Keeps({"popped"}) /\ Keeps({"popped", "published"})
      /\ Keeps({"published", "delivered"}) /\ Keeps({"published"})
  BY <1>2 DEF Keeps
<1>6. PicturesTypeOK'
  BY <1>1, <1>2, <1>3, <1>4 DEF IInv, PicturesTypeOK, Stays
<1>7. Order'
  <2>1. HandedIn = frames /\ HandedIn' = frames
    BY <1>1, <1>4 DEF HandedIn
  <2>2. \A n \in 1 .. frames : n \in 1 .. frames'
    BY <1>1
  <2>3. /\ \E n \in 1 .. frames' : msg'.image = <<"loaded", n>>
        /\ \A i \in 1 .. Len(inputMsgQue_) :
              \E n \in 1 .. frames' : inputMsgQue_[i].image = <<"loaded", n>>
    BY <1>1, <1>3, <2>2 DEF IInv, Order
  <2> QED
    BY <1>1, <1>2, <1>3, <2>1, <2>3 DEF IInv, Order
<1>8. Unpublished'
  BY <1>2, <1>4, UnpublishedStays DEF Stays
<1>9. Callers'
  BY <1>1, <1>2, <1>4 DEF IInv, Callers, Lines
<1>10. Waiting'
  BY <1>2, <1>4, <1>5, WaitingStays
<1>11. InHand'
  BY <1>2, <1>3, <1>4, <1>5, InHandStays DEF IInv, InHand
<1>12. Shown' /\ Saved'
  BY <1>2, <1>4, <1>5, ShownStays, SavedStays
<1> QED
  BY <1>6, <1>7, <1>8, <1>9, <1>10, <1>11, <1>12 DEF IInv

LEMMA OverwriteLineKeeps ==
    ASSUME IInv, OverwriteLine PROVE IInv'
<1> DEFINE k == line["main"] + 1
<1>1. PICK n \in 1 .. frames : msg.image = <<"loaded", n>>
  BY DEF OverwriteLine, Does, IInv, Order
<1>2. /\ n \in Frames /\ msg.image \in Buffers /\ frames \in 0 .. MaxFrames
      /\ frames # 0 /\ k \in Lines /\ line["main"] \in Nat /\ Height \in Nat
  <2>1. frames \in 0 .. MaxFrames /\ MaxFrames \in Nat /\ n \in Frames
    BY <1>1, References DEF Frames
  <2>2. line["main"] \in Nat /\ line["main"] < Height /\ Height \in Nat
    BY PicturesAssumption DEF OverwriteLine, Does, IInv, PicturesTypeOK, Threads
  <2> QED
    BY <1>1, <2>1, <2>2 DEF Buffers, Lines
<1>3. /\ pixels' = [pixels EXCEPT ![msg.image][k] = Line(frames)]
      /\ spoiled' = spoiled \cup {inputMsgQue_[i].frame_id : i \in Sharing}
      /\ UNCHANGED <<frames, msg, inputMsgQue_, input_msg_, bboxQueue_,
                     output_msg_, found, files>>
  BY DEF OverwriteLine, Does, queues
<1>4. /\ pc["main"] = "draw" /\ pc' = pc /\ line'["main"] = k
      /\ Stays("engine") /\ Stays("post")
      /\ line' \in [Threads -> 0 .. Height]
  BY <1>2 DEF OverwriteLine, Does, IInv, PicturesTypeOK, Threads, Stays, Lines
<1>5. /\ pixels' \in [Buffers -> Pictures]
      /\ \A c \in Buffers : c # msg.image => pixels'[c] = pixels[c]
      /\ \A j \in Lines : pixels'[msg.image][j] =
            IF j = k THEN Line(frames) ELSE pixels[msg.image][j]
  <2>1. Line(frames) \in [frame : 0 .. MaxFrames, marked : BOOLEAN]
    BY <1>2, PictureFacts
  <2>2. PicturesTypeOK /\ k \in Lines /\ msg.image \in Buffers
    BY <1>2 DEF IInv
  <2>3. Writes(msg.image, k, Line(frames))
    BY <1>3 DEF Writes
  <2> QED
    BY <2>1, <2>2, <2>3, WritesOnly DEF Written
<1>6. Keeps({"popped"}) /\ Keeps({"popped", "published"})
      /\ Keeps({"published", "delivered"}) /\ Keeps({"published"})
  BY <1>1, <1>5 DEF Keeps, Buffers
<1>7. spoiled \subseteq spoiled' /\ spoiled' \subseteq Frames
  BY <1>3, References DEF IInv, PicturesTypeOK, Sharing
<1>8. PicturesTypeOK'
  BY <1>3, <1>4, <1>5, <1>7 DEF IInv, PicturesTypeOK
<1>9. Order'
  BY <1>3, <1>4 DEF IInv, Order, HandedIn
<1>10. Unpublished'
  BY <1>3, <1>4, UnpublishedStays DEF Stays
<1>11. Callers'
  <2>1. ASSUME NEW m \in Frames, NEW j \in Lines
        PROVE  ~pixels'[<<"loaded", m>>][j].marked
    <3>1. <<"loaded", m>> \in Buffers
      BY DEF Buffers
    <3> QED
      BY <1>5, <3>1, PictureFacts DEF IInv, Callers
  <2>2. ASSUME NEW j \in Lines, j <= k PROVE pixels'[msg.image][j] = Line(frames)
    <3>1. j = k \/ j <= line["main"]
      BY <1>2, <2>2 DEF Lines
    <3> QED
      BY <1>2, <1>5, <3>1 DEF IInv, Callers
  <2> QED
    BY <1>3, <1>4, <2>1, <2>2 DEF Callers
<1>12. Waiting'
  <2>1. ASSUME NEW i \in 1 .. Len(inputMsgQue_), NEW j \in Lines,
               inputMsgQue_[i].frame_id \notin spoiled',
               i = 1 /\ pc["engine"] = "copy" => j > line["engine"]
        PROVE  pixels'[inputMsgQue_[i].image][j]
                  = Line(inputMsgQue_[i].frame_id)
    <3>1. inputMsgQue_[i].frame_id \notin spoiled /\ i \notin Sharing
      BY <1>3, <2>1
    <3>2. pixels[inputMsgQue_[i].image][j] = Line(inputMsgQue_[i].frame_id)
      BY <2>1, <3>1 DEF IInv, Waiting
    <3>3. CASE inputMsgQue_[i].image # msg.image
      <4>1. inputMsgQue_[i].image \in Buffers
        BY References DEF Buffers
      <4> QED
        BY <1>5, <3>2, <3>3, <4>1
    <3>4. CASE inputMsgQue_[i].image = msg.image
      <4>1. i = 1 /\ pc["engine"] = "copy" /\ line["main"] < line["engine"]
        BY <3>1, <3>4 DEF Sharing
      <4>2. line["engine"] \in Nat /\ j \in Nat
        BY DEF IInv, PicturesTypeOK, Threads, Lines
      <4>3. j # k
        BY <1>2, <2>1, <4>1, <4>2
      <4> QED
        BY <1>5, <3>2, <3>4, <4>3
    <3> QED
      BY <3>3, <3>4
  <2>2. /\ Popped' = Popped
        /\ inputMsgQue_ # <<>> => pixels'[Popped] = pixels[Popped]
    BY <1>3, <1>6, References DEF Keeps, Popped
  <2> QED
    BY <1>3, <1>4, <1>7, <2>1, <2>2 DEF IInv, Waiting, Stays
<1>13. InHand'
  BY <1>3, <1>4, <1>6, <1>7, InHandStays DEF IInv, InHand
<1>14. Shown' /\ Saved'
  BY <1>3, <1>4, <1>6, <1>7, ShownStays, SavedStays
<1> QED
  BY <1>8, <1>9, <1>10, <1>11, <1>12, <1>13, <1>14 DEF IInv

LEMMA OverwrittenKeeps ==
    ASSUME IInv, Overwritten PROVE IInv'
<1>1. UNCHANGED <<frames, msg, inputMsgQue_, input_msg_, bboxQueue_,
                  output_msg_, pixels, found, files, spoiled>>
  BY DEF Overwritten, queues
<1>2. /\ pc["main"] = "draw" /\ pc'["main"] = "load" /\ line["main"] = Height
      /\ Stays("engine") /\ Stays("post")
      /\ pc' \in [Threads -> {"next", "draw", "load", "poll", "copy",
                              "infer", "publish"}]
      /\ line' \in [Threads -> 0 .. Height]
  BY Going DEF Overwritten, Finishes, IInv, Threads, Stays
<1>3. Keeps({"popped"}) /\ Keeps({"popped", "published"})
      /\ Keeps({"published", "delivered"}) /\ Keeps({"published"})
  BY <1>1 DEF Keeps
<1>4. PicturesTypeOK'
  BY <1>1, <1>2 DEF IInv, PicturesTypeOK, Stays
<1>5. Order' /\ Unpublished'
  BY <1>1, <1>2, UnpublishedStays DEF IInv, Order, HandedIn, Stays
<1>6. Callers'
  BY <1>1, <1>2, PicturesAssumption DEF IInv, Callers, Lines
<1>7. Waiting' /\ InHand'
  BY <1>1, <1>2, <1>3, WaitingStays, InHandStays DEF IInv, InHand
<1>8. Shown' /\ Saved'
  BY <1>1, <1>2, <1>3, ShownStays, SavedStays
<1> QED
  BY <1>4, <1>5, <1>6, <1>7, <1>8 DEF IInv

LEMMA LoadDataKeeps ==
    ASSUME IInv, LoadData PROVE IInv'
<1>1. /\ inputMsgQue_' = Pushed(inputMsgQue_, msg) /\ pc["engine"] # "copy"
      /\ UNCHANGED <<frames, msg, input_msg_, bboxQueue_, output_msg_, pixels,
                     found, files, spoiled>>
      /\ inputMsgQue_ \in Seq(Messages) /\ msg \in Messages
      /\ Len(inputMsgQue_) \in Nat
  BY DEF LoadData, IInv, PicturesTypeOK
<1>2. /\ pc["main"] = "load" /\ pc'["main"] = "next"
      /\ Stays("engine") /\ Stays("post")
      /\ pc' \in [Threads -> {"next", "draw", "load", "poll", "copy",
                              "infer", "publish"}]
      /\ line' \in [Threads -> 0 .. Height]
  BY Going DEF LoadData, IInv, Threads, Stays
<1>3. Keeps({"popped"}) /\ Keeps({"popped", "published"})
      /\ Keeps({"published", "delivered"}) /\ Keeps({"published"})
  BY <1>1 DEF Keeps
<1>4. PICK d \in {0, 1} : Follows(inputMsgQue_', inputMsgQue_, d, msg)
  BY <1>1, PushedFacts
<1>5. \A i \in 1 .. Len(inputMsgQue_') :
          \/ i = Len(inputMsgQue_') /\ inputMsgQue_'[i] = msg
          \/ /\ i \in 1 .. Len(inputMsgQue_) - d
             /\ i + d \in 1 .. Len(inputMsgQue_)
             /\ inputMsgQue_'[i] = inputMsgQue_[i + d]
             /\ i < Len(inputMsgQue_')
  BY <1>1, <1>4 DEF Follows
<1>6. PicturesTypeOK'
  BY <1>1, <1>2, PushedFacts DEF IInv, PicturesTypeOK, Stays
<1>7. Order'
  <2>1. /\ HandedIn = frames - 1 /\ HandedIn' = frames /\ frames \in Nat
        /\ frames # 0 /\ msg.frame_id = frames
        /\ input_msg_.frame_id \in Nat
        /\ \E n \in 1 .. frames : msg.image = <<"loaded", n>>
    BY <1>1, <1>2, References DEF HandedIn, IInv, Order
  <2>2. \A i \in 1 .. Len(inputMsgQue_) : inputMsgQue_[i].frame_id \in Nat
    BY References DEF Frames
  <2>3. ASSUME NEW i \in 1 .. Len(inputMsgQue_'),
               NEW j \in 1 .. Len(inputMsgQue_'), i < j
        PROVE  inputMsgQue_'[i].frame_id < inputMsgQue_'[j].frame_id
    <3>1. /\ i + d \in 1 .. Len(inputMsgQue_)
          /\ inputMsgQue_'[i] = inputMsgQue_[i + d]
      BY <1>1, <1>4, <1>5, <2>3 DEF Follows
    <3>2. CASE j = Len(inputMsgQue_') /\ inputMsgQue_'[j] = msg
      BY <2>1, <2>2, <3>1, <3>2 DEF IInv, Order
    <3>3. CASE /\ j + d \in 1 .. Len(inputMsgQue_)
               /\ inputMsgQue_'[j] = inputMsgQue_[j + d]
      <4>1. i + d < j + d
        BY <2>3
      <4> QED
        BY <3>1, <3>3, <4>1 DEF IInv, Order
    <3> QED
      BY <1>5, <3>2, <3>3
  <2>4. ASSUME NEW i \in 1 .. Len(inputMsgQue_')
        PROVE  /\ inputMsgQue_'[i].frame_id <= frames
               /\ input_msg_.frame_id < inputMsgQue_'[i].frame_id
               /\ \E n \in 1 .. frames : inputMsgQue_'[i].image = <<"loaded", n>>
    <3>1. CASE inputMsgQue_'[i] = msg
      BY <2>1, <3>1 DEF IInv, Order
    <3>2. CASE /\ i + d \in 1 .. Len(inputMsgQue_)
               /\ inputMsgQue_'[i] = inputMsgQue_[i + d]
      BY <2>1, <2>2, <3>2 DEF IInv, Order
    <3> QED
      BY <1>5, <3>1, <3>2
  <2>5. input_msg_.frame_id <= frames
    BY <2>1 DEF IInv, Order
  <2> QED
    BY <1>1, <1>2, <2>1, <2>3, <2>4, <2>5 DEF IInv, Order
<1>8. Unpublished'
  BY <1>1, <1>2, UnpublishedStays DEF Stays
<1>9. Callers'
  BY <1>1, <1>2 DEF IInv, Callers
<1>10. Waiting'
  <2>1. ASSUME NEW i \in 1 .. Len(inputMsgQue_'), NEW k \in Lines,
               inputMsgQue_'[i].frame_id \notin spoiled
        PROVE  pixels[inputMsgQue_'[i].image][k]
                  = Line(inputMsgQue_'[i].frame_id)
    <3>1. CASE inputMsgQue_'[i] = msg
      <4>1. frames # 0 /\ msg.frame_id = frames
        BY <1>2 DEF IInv, Order
      <4> QED
        BY <1>2, <3>1, <4>1 DEF IInv, Callers
    <3>2. CASE /\ i + d \in 1 .. Len(inputMsgQue_)
               /\ inputMsgQue_'[i] = inputMsgQue_[i + d]
      BY <1>1, <2>1, <3>2 DEF IInv, Waiting
    <3> QED
      BY <1>5, <3>1, <3>2
  <2> QED
    BY <1>1, <1>2, <2>1 DEF Waiting, Stays
<1>11. InHand'
  <2>1. \A i \in 1 .. Len(inputMsgQue_') : inputMsgQue_'[i].bboxes = <<>>
    BY <1>5 DEF IInv, InHand
  <2> QED
    BY <1>1, <1>2, <2>1 DEF IInv, InHand, Published, Genuine, Stays
<1>12. Shown' /\ Saved'
  BY <1>1, <1>2, <1>3, ShownStays, SavedStays
<1> QED
  BY <1>6, <1>7, <1>8, <1>9, <1>10, <1>11, <1>12 DEF IInv

-----------------------------------------------------------------------------
(***************************************************************************)
(* The steps of the engine's worker.                                       *)
(***************************************************************************)
LEMMA PopInputKeeps ==
    ASSUME IInv, PopInput PROVE IInv'
<1>1. /\ inputMsgQue_ # <<>>
      /\ UNCHANGED <<frames, msg, inputMsgQue_, input_msg_, bboxQueue_,
                     output_msg_, pixels, found, files, spoiled>>
  BY DEF PopInput, queues
<1>2. /\ pc["engine"] = "poll" /\ pc'["engine"] = "copy" /\ line'["engine"] = 0
      /\ Stays("main") /\ Stays("post")
      /\ pc' \in [Threads -> {"next", "draw", "load", "poll", "copy",
                              "infer", "publish"}]
      /\ line' \in [Threads -> 0 .. Height]
  BY Going DEF PopInput, IInv, Threads, Stays
<1>3. Keeps({"loaded"}) /\ Keeps({"published", "delivered"})
      /\ Keeps({"published"})
  BY <1>1 DEF Keeps
<1>4. PicturesTypeOK'
  BY <1>1, <1>2 DEF IInv, PicturesTypeOK, Stays
<1>5. Order' /\ Unpublished'
  BY <1>1, <1>2 DEF IInv, Order, HandedIn, Unpublished, Stays
<1>6. Callers' /\ Shown' /\ Saved'
  BY <1>1, <1>2, <1>3, CallersStay, ShownStays, SavedStays
<1>7. Waiting'
  BY <1>1, <1>2 DEF IInv, Waiting, Lines
<1>8. InHand'
  BY <1>1, <1>2 DEF IInv, InHand
<1> QED
  BY <1>4, <1>5, <1>6, <1>7, <1>8 DEF IInv

LEMMA CopyInputKeeps ==
    ASSUME IInv, CopyInput PROVE IInv'
<1> DEFINE k == line["engine"] + 1
           f == inputMsgQue_[1].frame_id
           old == pixels[inputMsgQue_[1].image][k]
<1>1. /\ pc["engine"] = "copy" /\ inputMsgQue_ # <<>>
      /\ Len(inputMsgQue_) >= 1 /\ 1 \in 1 .. Len(inputMsgQue_)
      /\ Head(inputMsgQue_) = inputMsgQue_[1]
      /\ f \in Frames /\ Popped = <<"popped", f>> /\ Popped \in Buffers
      /\ inputMsgQue_[1].image \in Buffers
  <2>1. pc["engine"] = "copy" /\ inputMsgQue_ # <<>>
    BY DEF CopyInput, IInv, Waiting
  <2>2. inputMsgQue_ \in Seq(Messages)
    BY DEF IInv, PicturesTypeOK
  <2> QED
    BY <2>1, <2>2, References DEF Buffers
<1>2. PICK n \in Frames : inputMsgQue_[1].image = <<"loaded", n>>
  BY <1>1, References
<1>3. /\ k \in Lines /\ line["engine"] \in Nat
      /\ UNCHANGED <<frames, msg, inputMsgQue_, input_msg_, bboxQueue_,
                     output_msg_, found, files, spoiled>>
  BY PicturesAssumption
  DEF CopyInput, Does, queues, IInv, PicturesTypeOK, Threads, Lines
<1>4. /\ pc' = pc /\ line'["engine"] = k /\ Stays("main") /\ Stays("post")
      /\ line' \in [Threads -> 0 .. Height]
  BY <1>3 DEF CopyInput, Does, IInv, PicturesTypeOK, Threads, Stays, Lines
<1>5. Written(Popped, k, old)
  <2>1. old \in [frame : 0 .. MaxFrames, marked : BOOLEAN]
    BY <1>1, <1>3 DEF IInv, PicturesTypeOK, Pictures
  <2>2. Writes(Popped, k, old)
    BY <1>1 DEF CopyInput, Does, Writes
  <2> QED
    BY <1>1, <1>3, <2>1, <2>2, WritesOnly DEF IInv
<1>6. Keeps({"loaded"}) /\ Keeps({"published", "delivered"})
      /\ Keeps({"published"})
  BY <1>1, <1>5 DEF Keeps, Buffers, Written
<1>7. PicturesTypeOK'
  BY <1>3, <1>4, <1>5 DEF IInv, PicturesTypeOK, Written
<1>8. Order' /\ Unpublished'
  BY <1>3, <1>4 DEF IInv, Order, HandedIn, Unpublished
<1>9. Callers' /\ Shown' /\ Saved'
  BY <1>3, <1>4, <1>6, CallersStay, ShownStays, SavedStays
<1>10. Waiting'
  <2>1. \A i \in 1 .. Len(inputMsgQue_) :
            pixels'[inputMsgQue_[i].image] = pixels[inputMsgQue_[i].image]
    BY <1>6, References DEF Keeps
  <2>2. ASSUME NEW j \in Lines, j <= k
        PROVE  /\ ~pixels'[Popped][j].marked
               /\ f \notin spoiled => pixels'[Popped][j] = Line(f)
    <3>1. CASE j = k
      <4>1. pixels'[Popped][j] = old
        BY <1>3, <1>5, <3>1 DEF Written
      <4>2. ~old.marked
        BY <1>2, <1>3 DEF IInv, Callers
      <4>3. f \notin spoiled => old = Line(f)
        BY <1>1, <1>3 DEF IInv, Waiting
      <4> QED
        BY <4>1, <4>2, <4>3
    <3>2. CASE j # k
      <4>1. j <= line["engine"]
        BY <1>3, <2>2, <3>2 DEF Lines
      <4> QED
        BY <1>1, <1>5, <3>2, <4>1 DEF IInv, Waiting, Written
    <3> QED
      BY <3>1, <3>2
  <2>3. \A j \in Lines : j > k => j > line["engine"]
    BY <1>3 DEF Lines
  <2> QED
    BY <1>1, <1>3, <1>4, <2>1, <2>2, <2>3 DEF IInv, Waiting, Popped
<1>11. InHand'
  BY <1>1, <1>3, <1>4 DEF IInv, InHand
<1> QED
  BY <1>7, <1>8, <1>9, <1>10, <1>11 DEF IInv

LEMMA PoppedInputKeeps ==
    ASSUME IInv, PoppedInput PROVE IInv'
<1> DEFINE q == inputMsgQue_
           f == q[1].frame_id
<1>1. /\ pc["engine"] = "copy" /\ line["engine"] = Height
      /\ pc'["engine"] = "infer" /\ Stays("main") /\ Stays("post")
      /\ pc' \in [Threads -> {"next", "draw", "load", "poll", "copy",
                              "infer", "publish"}]
      /\ line' \in [Threads -> 0 .. Height]
  BY Going DEF PoppedInput, Finishes, IInv, Threads, Stays
<1>2. /\ q \in Seq(Messages) /\ q # <<>> /\ 1 \in 1 .. Len(q)
      /\ q[1] \in Messages /\ Head(q) = q[1] /\ Len(q) \in Nat \ {0}
      /\ f \in Frames /\ f # 0 /\ Popped = <<"popped", f>> /\ Popped \in Buffers
  <2>1. q \in Seq(Messages) /\ q # <<>>
    BY <1>1 DEF IInv, PicturesTypeOK, Waiting
  <2> QED
    BY <2>1, References DEF Buffers, Frames
<1>3. /\ q' = Tail(q)
      /\ input_msg_' = [frame_id |-> f, image |-> Popped, bboxes |-> <<>>]
      /\ UNCHANGED <<frames, msg, bboxQueue_, output_msg_, pixels, found,
                     files, spoiled>>
  <2>1. input_msg_.bboxes = <<>> /\ q[1].bboxes = <<>>
    BY <1>2 DEF IInv, InHand
  <2>2. <<>> \o <<>> = <<>>
    OBVIOUS
  <2> QED
    BY <1>2, <2>1, <2>2 DEF PoppedInput, Assigned
<1>4. /\ q' \in Seq(Messages) /\ Len(q') = Len(q) - 1
      /\ \A i \in 1 .. Len(q') : q'[i] = q[i + 1] /\ i + 1 \in 1 .. Len(q)
  <2>1. /\ Tail(q) \in Seq(Messages) /\ Len(Tail(q)) = Len(q) - 1
        /\ \A i \in 1 .. Len(q) - 1 : Tail(q)[i] = q[i + 1]
    BY <1>2, TailFacts
  <2> QED
    BY <1>2, <1>3, <2>1
<1>5. Keeps({"loaded"}) /\ Keeps({"published", "delivered"})
      /\ Keeps({"published"})
  BY <1>3 DEF Keeps
<1>6. PicturesTypeOK'
  <2>1. input_msg_' \in Messages
    BY <1>2, <1>3 DEF Messages, Frames
  <2> QED
    BY <1>1, <1>3, <1>4, <2>1 DEF IInv, PicturesTypeOK, Stays
<1>7. Order'
  <2>1. /\ HandedIn' = HandedIn /\ input_msg_.frame_id < f /\ f <= HandedIn
        /\ input_msg_'.frame_id = f
    BY <1>1, <1>2, <1>3 DEF IInv, Order, HandedIn, Stays
  <2>2. /\ input_msg_.frame_id \in Nat /\ f \in Nat
        /\ output_msg_.frame_id \in Nat
        /\ \A i \in 1 .. Len(bboxQueue_) : bboxQueue_[i].frame_id \in Nat
        /\ \A g \in DOMAIN files : g \in Nat
    BY <1>2, Numbers
  <2>3. \A i \in 1 .. Len(q') :
            /\ q'[i].frame_id <= HandedIn /\ f < q'[i].frame_id
            /\ \E n \in 1 .. frames : q'[i].image = <<"loaded", n>>
    <3> SUFFICES ASSUME NEW i \in 1 .. Len(q')
                 PROVE  /\ q'[i].frame_id <= HandedIn /\ f < q'[i].frame_id
                        /\ \E n \in 1 .. frames : q'[i].image = <<"loaded", n>>
      OBVIOUS
    <3>1. q'[i] = q[i + 1] /\ i + 1 \in 1 .. Len(q) /\ 1 < i + 1
      BY <1>4
    <3> QED
      BY <1>2, <3>1 DEF IInv, Order
  <2>4. \A i, j \in 1 .. Len(q') : i < j => q'[i].frame_id < q'[j].frame_id
    <3> SUFFICES ASSUME NEW i \in 1 .. Len(q'), NEW j \in 1 .. Len(q'), i < j
                 PROVE  q'[i].frame_id < q'[j].frame_id
      OBVIOUS
    <3>1. i + 1 < j + 1
      OBVIOUS
    <3> QED
      BY <1>4, <3>1 DEF IInv, Order
  <2>5. /\ output_msg_.frame_id <= f
        /\ \A i \in 1 .. Len(bboxQueue_) : bboxQueue_[i].frame_id <= f
        /\ \A g \in DOMAIN files : g <= f
    BY <2>1, <2>2 DEF IInv, Order
  <2> QED
    BY <1>1, <1>3, <2>1, <2>3, <2>4, <2>5 DEF IInv, Order, Stays
<1>8. Unpublished'
  <2>1. input_msg_.frame_id < f /\ input_msg_'.frame_id = f
    BY <1>2, <1>3 DEF IInv, Order
  <2>2. /\ input_msg_.frame_id \in Nat /\ f \in Nat
        /\ output_msg_.frame_id \in Nat
        /\ \A i \in 1 .. Len(bboxQueue_) : bboxQueue_[i].frame_id \in Nat
        /\ \A g \in DOMAIN files : g \in Nat
    BY <1>2, Numbers
  <2>a. \A g \in Nat : g <= input_msg_.frame_id => g < f
    BY <2>1, <2>2
  <2>3. /\ output_msg_.frame_id < f
        /\ \A i \in 1 .. Len(bboxQueue_) : bboxQueue_[i].frame_id < f
        /\ \A g \in DOMAIN files : g < f
    BY <2>a, <2>2 DEF IInv, Order
  <2> QED
    BY <1>3, <2>1, <2>3 DEF Unpublished
<1>9. Callers' /\ Shown' /\ Saved'
  BY <1>1, <1>3, <1>5, CallersStay, ShownStays, SavedStays
<1>10. Waiting'
  <2>1. ASSUME NEW i \in 1 .. Len(q'), NEW j \in Lines,
               q'[i].frame_id \notin spoiled
        PROVE  pixels[q'[i].image][j] = Line(q'[i].frame_id)
    <3>1. q'[i] = q[i + 1] /\ i + 1 \in 1 .. Len(q) /\ i + 1 # 1
      BY <1>4
    <3> QED
      BY <2>1, <3>1 DEF IInv, Waiting
  <2> QED
    BY <1>1, <1>3, <2>1 DEF Waiting
<1>11. InHand'
  <2>1. \A i \in 1 .. Len(q') : q'[i].bboxes = <<>>
    BY <1>4 DEF IInv, InHand
  <2>2. \A j \in Lines : j <= Height
    BY PicturesAssumption DEF Lines
  <2>3. /\ \A j \in Lines : ~pixels[Popped][j].marked
        /\ f \notin spoiled => \A j \in Lines : pixels[Popped][j] = Line(f)
    BY <1>1, <2>2 DEF IInv, Waiting
  <2>4. pixels[Popped] \in Pictures
    BY <1>2 DEF IInv, PicturesTypeOK
  <2>5. Genuine(pixels[Popped], f)
    BY <2>3, <2>4 DEF Genuine, Pictures, Picture
  <2> QED
    BY <1>1, <1>2, <1>3, <2>1, <2>5 DEF IInv, InHand, Genuine
<1> QED
  BY <1>6, <1>7, <1>8, <1>9, <1>10, <1>11 DEF IInv

LEMMA InferKeeps ==
    ASSUME IInv, Infer PROVE IInv'
<1>1. /\ found' = pixels[input_msg_.image]
      /\ UNCHANGED <<frames, msg, inputMsgQue_, input_msg_, bboxQueue_,
                     output_msg_, pixels, files, spoiled>>
  BY DEF Infer, queues
<1>2. /\ pc["engine"] = "infer" /\ pc'["engine"] = "publish"
      /\ Stays("main") /\ Stays("post")
      /\ pc' \in [Threads -> {"next", "draw", "load", "poll", "copy",
                              "infer", "publish"}]
      /\ line' \in [Threads -> 0 .. Height]
  BY Going DEF Infer, IInv, Threads, Stays
<1>3. Keeps({"loaded"}) /\ Keeps({"published", "delivered"})
      /\ Keeps({"published"})
  BY <1>1 DEF Keeps
<1>4. input_msg_.image \in Buffers
  BY <1>2, FrameInHand
<1>5. PicturesTypeOK'
  BY <1>1, <1>2, <1>4 DEF IInv, PicturesTypeOK, Stays
<1>6. Order' /\ Unpublished'
  BY <1>1, <1>2 DEF IInv, Order, HandedIn, Unpublished, Stays
<1>7. Callers' /\ Shown' /\ Saved'
  BY <1>1, <1>2, <1>3, CallersStay, ShownStays, SavedStays
<1>8. Waiting'
  BY <1>1, <1>2 DEF IInv, Waiting
<1>9. InHand'
  BY <1>1, <1>2 DEF IInv, InHand, Genuine
<1> QED
  BY <1>5, <1>6, <1>7, <1>8, <1>9 DEF IInv

LEMMA PublishKeeps ==
    ASSUME IInv, Publish PROVE IInv'
<1> DEFINE q == bboxQueue_
           f == input_msg_.frame_id
           p == pixels[input_msg_.image]
           m == [frame_id |-> f, image |-> Published, bboxes |-> <<p>>]
<1>1. /\ pc["engine"] = "publish" /\ pc'["engine"] = "draw"
      /\ line'["engine"] = 0 /\ pc["post"] # "copy"
      /\ Stays("main") /\ Stays("post")
      /\ pc' \in [Threads -> {"next", "draw", "load", "poll", "copy",
                              "infer", "publish"}]
      /\ line' \in [Threads -> 0 .. Height]
  BY Going DEF Publish, IInv, Threads, Stays
<1>2. /\ f \in Frames /\ f # 0 /\ Published = <<"published", f>>
      /\ Published \in Buffers /\ input_msg_.image = <<"popped", f>>
      /\ input_msg_.image \in Buffers /\ p \in Pictures /\ Genuine(p, f)
      /\ found = p
  BY <1>1, FrameInHand DEF IInv, InHand, PicturesTypeOK
<1>3. /\ q' = Pushed(q, m) /\ m \in Messages /\ q \in Seq(Messages)
      /\ pixels' = [pixels EXCEPT ![Published] = p]
      /\ UNCHANGED <<frames, msg, inputMsgQue_, input_msg_, output_msg_, found,
                     files, spoiled>>
  <2>1. /\ input_msg_.bboxes = <<>> /\ <<>> \o <<>> = <<>>
        /\ Append(<<>>, found) = <<p>> /\ <<p>> \in Seq(Pictures)
    BY <1>2 DEF IInv, InHand
  <2>2. [Assigned(NewMsg, input_msg_, Published)
            EXCEPT !.bboxes = Append(@, found)] = m
    BY <2>1 DEF Assigned, NewMsg
  <2>3. m \in Messages
    BY <1>2, <2>1 DEF Messages, Frames
  <2> QED
    BY <2>2, <2>3 DEF Publish, IInv, PicturesTypeOK
<1>4. /\ pixels' \in [Buffers -> Pictures] /\ pixels'[Published] = p
      /\ \A b \in Buffers : b # Published => pixels'[b] = pixels[b]
  BY <1>2, <1>3 DEF IInv, PicturesTypeOK
<1>5. Keeps({"loaded"})
  BY <1>2, <1>4 DEF Keeps, Buffers
<1>6. PICK d \in {0, 1} : Follows(q', q, d, m)
  BY <1>3, PushedFacts
<1>7. \A i \in 1 .. Len(q') :
          \/ i = Len(q') /\ q'[i] = m
          \/ /\ i \in 1 .. Len(q) - d /\ i + d \in 1 .. Len(q)
             /\ q'[i] = q[i + d] /\ i < Len(q')
  BY <1>3, <1>6 DEF Follows
<1>8. PicturesTypeOK'
  <2>1. q' \in Seq(Messages)
    BY <1>3, PushedFacts
  <2> QED
    BY <1>1, <1>3, <1>4, <2>1 DEF IInv, PicturesTypeOK, Stays
<1>9. /\ \A i \in 1 .. Len(q) : q[i].frame_id < f /\ q[i].frame_id \in Frames
      /\ output_msg_.frame_id < f
      /\ \A g \in DOMAIN files : g < f
  BY <1>1, References DEF IInv, Unpublished
<1> HIDE DEF m, p
<1>10. m.frame_id = f /\ m.image = Published /\ m.bboxes = <<p>>
  BY DEF m
<1>11. Order'
  <2>1. ASSUME NEW i \in 1 .. Len(q'), NEW j \in 1 .. Len(q'), i < j
        PROVE  q'[i].frame_id < q'[j].frame_id
    <3>1. i + d \in 1 .. Len(q) /\ q'[i] = q[i + d]
      BY <1>3, <1>6, <1>7, <2>1 DEF Follows
    <3>2. CASE q'[j] = m
      BY <1>9, <1>10, <3>1, <3>2
    <3>3. CASE j + d \in 1 .. Len(q) /\ q'[j] = q[j + d]
      <4>1. i + d < j + d
        BY <2>1
      <4> QED
        BY <3>1, <3>3, <4>1 DEF IInv, Order
    <3> QED
      BY <1>7, <3>2, <3>3
  <2>2. ASSUME NEW i \in 1 .. Len(q')
        PROVE  /\ q'[i].frame_id <= f /\ output_msg_.frame_id < q'[i].frame_id
               /\ q'[i].image = <<"published", q'[i].frame_id>>
    <3>1. CASE q'[i] = m
      BY <1>2, <1>9, <1>10, <3>1 DEF Frames
    <3>2. CASE i + d \in 1 .. Len(q) /\ q'[i] = q[i + d]
      BY <3>2 DEF IInv, Order
    <3> QED
      BY <1>7, <3>1, <3>2
  <2>3. HandedIn' = HandedIn
    BY <1>1, <1>3 DEF HandedIn, Stays
  <2> QED
    BY <1>1, <1>3, <2>1, <2>2, <2>3 DEF IInv, Order, Stays
<1>12. Unpublished'
  BY <1>1, <1>3, <1>9 DEF Unpublished
<1>13. Callers'
  BY <1>1, <1>3, <1>5, CallersStay
<1>14. Waiting'
  <2>1. \A i \in 1 .. Len(inputMsgQue_) :
            pixels'[inputMsgQue_[i].image] = pixels[inputMsgQue_[i].image]
    BY <1>5, References DEF Keeps
  <2> QED
    BY <1>1, <1>3, <2>1 DEF IInv, Waiting
<1>15. InHand'
  <2>1. Published' = Published /\ Published # input_msg_.image
    BY <1>2, <1>3 DEF Published
  <2>2. pixels'[input_msg_.image] = p
    BY <1>2, <1>4, <2>1 DEF p
  <2>3. Genuine(p, f)' /\ (p = pixels'[Published])
    BY <1>2, <1>3, <1>4, <2>2 DEF Genuine, p
  <2>4. \A k \in Lines : ~(k <= 0)
    BY PicturesAssumption DEF Lines
  <2>5. Genuine(pixels[Published], input_msg_.frame_id)'
    BY <1>2, <1>3, <1>4, <2>1 DEF Genuine
  <2> QED
    BY <1>1, <1>2, <1>3, <1>4, <2>1, <2>2, <2>4, <2>5 DEF IInv, InHand
<1>16. Shown'
  <2>1. ASSUME NEW i \in 1 .. Len(q')
        PROVE  /\ q'[i].bboxes = <<pixels'[q'[i].image]>>
               /\ Genuine(pixels'[q'[i].image], q'[i].frame_id)
    <3>1. CASE q'[i] = m
      BY <1>2, <1>4, <1>10, <3>1
    <3>2. CASE i + d \in 1 .. Len(q) /\ q'[i] = q[i + d]
      <4>1. /\ q'[i].image = <<"published", q'[i].frame_id>>
            /\ q'[i].frame_id \in Frames /\ q'[i].frame_id < f
        BY <1>9, <3>2 DEF IInv, Order
      <4>2. pixels'[q'[i].image] = pixels[q'[i].image]
        BY <1>2, <1>4, <4>1 DEF Buffers, Frames
      <4> QED
        BY <3>2, <4>2 DEF IInv, Shown
    <3> QED
      BY <1>7, <3>1, <3>2
  <2>2. output_msg_ # NewMsg =>
            pixels'[output_msg_.image] = pixels[output_msg_.image]
    <3>1. output_msg_ # NewMsg => output_msg_.frame_id \in Frames
      BY References DEF IInv, Shown, Frames
    <3> QED
      BY <1>2, <1>4, <3>1 DEF IInv, Shown, Buffers
  <2> QED
    BY <1>1, <1>3, <2>1, <2>2 DEF IInv, Shown, Stays, Genuine
<1>17. Saved'
  <2>1. \A g \in DOMAIN files :
            /\ <<"published", g>> \in Buffers
            /\ <<"published", g>> # Published
    BY <1>2, <1>9 DEF Buffers, IInv, PicturesTypeOK, Frames
  <2> QED
    BY <1>3, <1>4, <2>1 DEF IInv, Saved, Genuine
<1> QED
  BY <1>8, <1>11, <1>12, <1>13, <1>14, <1>15, <1>16, <1>17 DEF IInv

LEMMA DrawKeeps ==
    ASSUME IInv, Draw PROVE IInv'
<1> DEFINE k == line["engine"] + 1
           b == input_msg_.image
           new == [pixels[b][k] EXCEPT !.marked = TRUE]
<1>1. /\ pc["engine"] = "draw" /\ pc' = pc /\ line["engine"] < Height
      /\ UNCHANGED <<frames, msg, inputMsgQue_, input_msg_, bboxQueue_,
                     output_msg_, found, files, spoiled>>
  BY DEF Draw, Does, queues
<1>2. /\ b \in Buffers /\ b = <<"popped", input_msg_.frame_id>>
      /\ Published = <<"published", input_msg_.frame_id>>
      /\ Published \in Buffers /\ input_msg_.frame_id \in Frames
  BY <1>1, FrameInHand
<1>3. k \in Lines /\ line["engine"] \in Nat
  BY <1>1, PicturesAssumption DEF IInv, PicturesTypeOK, Threads, Lines
<1>4. /\ line'["engine"] = k /\ Stays("main") /\ Stays("post")
      /\ line' \in [Threads -> 0 .. Height]
  BY <1>1, <1>3 DEF Draw, Does, IInv, PicturesTypeOK, Threads, Stays, Lines
<1>5. Written(b, k, new)
  <2>1. pixels[b][k] \in [frame : 0 .. MaxFrames, marked : BOOLEAN]
    BY <1>2, <1>3 DEF IInv, PicturesTypeOK, Pictures
  <2>2. new \in [frame : 0 .. MaxFrames, marked : BOOLEAN]
    BY <2>1
  <2>3. Writes(b, k, new)
    BY DEF Draw, Does, Writes
  <2> QED
    BY <1>2, <1>3, <2>2, <2>3, WritesOnly DEF IInv
<1> HIDE DEF new
<1>6. Keeps({"loaded"}) /\ Keeps({"published", "delivered"})
      /\ Keeps({"published"})
  BY <1>2, <1>5 DEF Keeps, Buffers, Written
<1>7. PicturesTypeOK'
  BY <1>1, <1>4, <1>5 DEF IInv, PicturesTypeOK, Written
<1>8. Order' /\ Unpublished'
  BY <1>1 DEF IInv, Order, HandedIn, Unpublished
<1>9. Callers' /\ Shown' /\ Saved'
  BY <1>1, <1>4, <1>6, CallersStay, ShownStays, SavedStays
<1>10. Waiting'
  <2>1. \A i \in 1 .. Len(inputMsgQue_) :
            pixels'[inputMsgQue_[i].image] = pixels[inputMsgQue_[i].image]
    BY <1>6, References DEF Keeps
  <2> QED
    BY <1>1, <2>1 DEF IInv, Waiting
<1>11. InHand'
  <2>1. Published' = Published /\ pixels'[Published] = pixels[Published]
    BY <1>1, <1>2, <1>5 DEF Published, Written
  <2>2. Genuine(pixels[Published], input_msg_.frame_id)'
    BY <1>1, <2>1 DEF IInv, InHand, Genuine
  <2>3. new = Marked(pixels[Published])[k]
    <3>1. k > line["engine"]
      BY <1>3
    <3>2. pixels[b][k] = pixels[Published][k]
      BY <1>1, <1>3, <3>1 DEF IInv, InHand
    <3> QED
      BY <1>3, <3>2 DEF Marked, new
  <2>4. ASSUME NEW j \in Lines, j <= k
        PROVE  pixels'[b][j] = Marked(pixels[Published])[j]
    <3>1. CASE j = k
      BY <1>3, <1>5, <2>3, <3>1 DEF Written
    <3>2. CASE j # k
      <4>1. j <= line["engine"]
        BY <1>3, <2>4, <3>2 DEF Lines
      <4> QED
        BY <1>1, <1>5, <3>2, <4>1 DEF IInv, InHand, Written
    <3> QED
      BY <3>1, <3>2
  <2>5. ASSUME NEW j \in Lines, j > k
        PROVE  pixels'[b][j] = pixels[Published][j]
    <3>1. j > line["engine"] /\ j # k
      BY <1>3, <2>5 DEF Lines
    <3> QED
      BY <1>1, <1>5, <3>1 DEF IInv, InHand, Written
  <2> QED
    BY <1>1, <1>4, <2>1, <2>2, <2>4, <2>5 DEF IInv, InHand
<1> QED
  BY <1>7, <1>8, <1>9, <1>10, <1>11 DEF IInv

LEMMA SaveKeeps ==
    ASSUME IInv, Save PROVE IInv'
<1> DEFINE f == input_msg_.frame_id
<1>1. /\ pc["engine"] = "draw" /\ pc'["engine"] = "poll"
      /\ line["engine"] = Height
      /\ Stays("main") /\ Stays("post")
      /\ pc' \in [Threads -> {"next", "draw", "load", "poll", "copy",
                              "infer", "publish"}]
      /\ line' \in [Threads -> 0 .. Height]
  BY Going DEF Save, Finishes, IInv, Threads, Stays
<1>2. /\ f \in Frames /\ input_msg_.image \in Buffers /\ Published \in Buffers
      /\ Published = <<"published", f>>
  BY <1>1, FrameInHand
<1>3. /\ files' = [g \in DOMAIN files \cup {f} |->
                      IF g = f THEN pixels[input_msg_.image] ELSE files[g]]
      /\ UNCHANGED <<frames, msg, inputMsgQue_, input_msg_, bboxQueue_,
                     output_msg_, pixels, found, spoiled>>
  BY DEF Save, queues
<1>4. /\ DOMAIN files' = DOMAIN files \cup {f}
      /\ files'[f] = pixels[input_msg_.image]
      /\ \A g \in DOMAIN files : g # f => files'[g] = files[g]
  BY <1>3
<1>5. Keeps({"loaded"}) /\ Keeps({"published", "delivered"})
  BY <1>3 DEF Keeps
<1>6. PicturesTypeOK'
  <2>1. files' \in [DOMAIN files' -> Pictures] /\ DOMAIN files' \subseteq Frames
    BY <1>2, <1>3 DEF IInv, PicturesTypeOK
  <2> QED
    BY <1>1, <1>3, <2>1 DEF IInv, PicturesTypeOK, Stays
<1>7. Order'
  <2>1. HandedIn' = HandedIn
    BY <1>1, <1>3 DEF HandedIn, Stays
  <2>2. \A g \in DOMAIN files' : g <= f
    BY <1>2, <1>4 DEF IInv, Order, Frames
  <2> QED
    BY <1>1, <1>3, <2>1, <2>2 DEF IInv, Order, Stays
<1>8. Unpublished'
  BY <1>1 DEF Unpublished
<1>9. Callers' /\ Shown'
  BY <1>1, <1>3, <1>5, CallersStay, ShownStays
<1>10. Waiting'
  BY <1>1, <1>3 DEF IInv, Waiting
<1>11. InHand'
  BY <1>1, <1>3 DEF IInv, InHand
<1>12. Saved'
  <2>1. /\ Genuine(pixels[Published], f)
        /\ \A k \in Lines :
              pixels[input_msg_.image][k] = Marked(pixels[Published])[k]
    <3>1. \A k \in Lines : k <= Height
      BY PicturesAssumption DEF Lines
    <3> QED
      BY <1>1, <3>1 DEF IInv, InHand
  <2>2. /\ pixels[Published] \in Pictures
        /\ pixels[input_msg_.image] \in Pictures
    BY <1>2 DEF IInv, PicturesTypeOK
  <2>3. Marked(pixels[Published]) \in Pictures
    BY <2>2, PictureFacts
  <2>4. pixels[input_msg_.image] = Marked(pixels[Published])
    BY <2>1, <2>2, <2>3 DEF Pictures
  <2> QED
    BY <1>2, <1>3, <1>4, <2>1, <2>4 DEF IInv, Saved, Genuine
<1> QED
  BY <1>6, <1>7, <1>8, <1>9, <1>10, <1>11, <1>12 DEF IInv

-----------------------------------------------------------------------------
(***************************************************************************)
(* The steps of the post-processor's worker.                               *)
(***************************************************************************)
LEMMA PopResultKeeps ==
    ASSUME IInv, PopResult PROVE IInv'
<1>1. /\ bboxQueue_ # <<>>
      /\ UNCHANGED <<frames, msg, inputMsgQue_, input_msg_, bboxQueue_,
                     output_msg_, pixels, found, files, spoiled>>
  BY DEF PopResult, queues
<1>2. /\ pc'["post"] = "copy" /\ line'["post"] = 0
      /\ Stays("main") /\ Stays("engine")
      /\ pc' \in [Threads -> {"next", "draw", "load", "poll", "copy",
                              "infer", "publish"}]
      /\ line' \in [Threads -> 0 .. Height]
  BY Going DEF PopResult, IInv, Threads, Stays
<1>3. Keeps({"loaded"}) /\ Keeps({"popped"}) /\ Keeps({"popped", "published"})
      /\ Keeps({"published"})
  BY <1>1 DEF Keeps
<1>4. PicturesTypeOK'
  BY <1>1, <1>2 DEF IInv, PicturesTypeOK, Stays
<1>5. Order' /\ Unpublished'
  BY <1>1, <1>2 DEF IInv, Order, HandedIn, Unpublished, Stays
<1>6. Callers' /\ Waiting' /\ InHand' /\ Saved'
  BY <1>1, <1>2, <1>3, CallersStay, WaitingStays, InHandStays, SavedStays
  DEF IInv, InHand
<1>7. Shown'
  <2>1. \A k \in Lines : ~(k <= 0)
    BY PicturesAssumption DEF Lines
  <2> QED
    BY <1>1, <1>2, <2>1 DEF IInv, Shown, Genuine
<1> QED
  BY <1>4, <1>5, <1>6, <1>7 DEF IInv

LEMMA CopyResultKeeps ==
    ASSUME IInv, CopyResult PROVE IInv'
<1> DEFINE k == line["post"] + 1
           f == bboxQueue_[1].frame_id
           old == pixels[bboxQueue_[1].image][k]
<1>1. /\ pc["post"] = "copy" /\ bboxQueue_ # <<>>
      /\ Len(bboxQueue_) >= 1 /\ 1 \in 1 .. Len(bboxQueue_)
      /\ Head(bboxQueue_) = bboxQueue_[1]
      /\ f \in Frames /\ Delivered = <<"delivered", f>>
      /\ Delivered \in Buffers /\ bboxQueue_[1].image = <<"published", f>>
      /\ bboxQueue_[1].image \in Buffers /\ output_msg_.frame_id < f
  <2>1. pc["post"] = "copy" /\ bboxQueue_ # <<>>
    BY DEF CopyResult, IInv, Shown
  <2>2. bboxQueue_ \in Seq(Messages)
    BY DEF IInv, PicturesTypeOK
  <2>3. /\ Len(bboxQueue_) >= 1 /\ 1 \in 1 .. Len(bboxQueue_)
        /\ Head(bboxQueue_) = bboxQueue_[1]
        /\ f \in Frames /\ Delivered = <<"delivered", f>>
        /\ bboxQueue_[1].image = <<"published", f>>
    BY <2>1, <2>2, References
  <2> QED
    BY <2>1, <2>3 DEF IInv, Order, Buffers
<1>2. /\ k \in Lines /\ line["post"] \in Nat
      /\ UNCHANGED <<frames, msg, inputMsgQue_, input_msg_, bboxQueue_,
                     output_msg_, found, files, spoiled>>
  BY PicturesAssumption
  DEF CopyResult, Does, queues, IInv, PicturesTypeOK, Threads, Lines
<1>3. /\ pc' = pc /\ line'["post"] = k /\ Stays("main") /\ Stays("engine")
      /\ line' \in [Threads -> 0 .. Height]
  BY <1>2 DEF CopyResult, Does, IInv, PicturesTypeOK, Threads, Stays, Lines
<1>4. Written(Delivered, k, old)
  <2>1. old \in [frame : 0 .. MaxFrames, marked : BOOLEAN]
    BY <1>1, <1>2 DEF IInv, PicturesTypeOK, Pictures
  <2>2. Writes(Delivered, k, old)
    BY <1>1 DEF CopyResult, Does, Writes
  <2> QED
    BY <1>1, <1>2, <2>1, <2>2, WritesOnly DEF IInv
<1>5. Keeps({"loaded"}) /\ Keeps({"popped"}) /\ Keeps({"popped", "published"})
      /\ Keeps({"published"})
  BY <1>1, <1>4 DEF Keeps, Buffers, Written
<1>6. \A i \in 1 .. Len(inputMsgQue_) :
          pixels'[inputMsgQue_[i].image] = pixels[inputMsgQue_[i].image]
  BY <1>5, References DEF Keeps
<1>7. PicturesTypeOK'
  BY <1>2, <1>3, <1>4 DEF IInv, PicturesTypeOK, Written
<1>8. Order' /\ Unpublished'
  BY <1>2, <1>3 DEF IInv, Order, HandedIn, Unpublished
<1>9. Callers' /\ Waiting' /\ InHand' /\ Saved'
  BY <1>2, <1>3, <1>5, <1>6, CallersStay, WaitingStays, InHandStays,
     SavedStays
  DEF IInv, InHand
<1>10. Shown'
  <2>1. \A i \in 1 .. Len(bboxQueue_) :
            pixels'[bboxQueue_[i].image] = pixels[bboxQueue_[i].image]
    BY <1>5, References DEF Keeps
  <2>2. output_msg_ # NewMsg =>
            pixels'[output_msg_.image] = pixels[output_msg_.image]
    <3>1. output_msg_ # NewMsg => output_msg_.frame_id \in Frames
      BY References DEF IInv, Shown, Frames
    <3>2. output_msg_ # NewMsg =>
             /\ output_msg_.image \in Buffers /\ output_msg_.image # Delivered
      BY <1>1, <3>1 DEF IInv, Shown, Buffers, Frames
    <3> QED
      BY <1>4, <3>2 DEF Written
  <2>3. ASSUME NEW j \in Lines, j <= k
        PROVE  pixels'[Delivered][j] = pixels[bboxQueue_[1].image][j]
    <3>1. CASE j = k
      BY <1>2, <1>4, <3>1 DEF Written
    <3>2. CASE j # k
      <4>1. j <= line["post"]
        BY <1>2, <2>3, <3>2 DEF Lines
      <4> QED
        BY <1>1, <1>4, <3>2, <4>1 DEF IInv, Shown, Written
    <3> QED
      BY <3>1, <3>2
  <2>4. Delivered' = Delivered
    BY <1>2 DEF Delivered
  <2>5. \A i \in 1 .. Len(bboxQueue_) :
            /\ bboxQueue_[i].bboxes = <<pixels'[bboxQueue_[i].image]>>
            /\ Genuine(pixels'[bboxQueue_[i].image], bboxQueue_[i].frame_id)
    BY <2>1 DEF IInv, Shown
  <2>6. output_msg_ # NewMsg =>
            Genuine(pixels'[output_msg_.image], output_msg_.frame_id)
    BY <2>2 DEF IInv, Shown
  <2> QED
    BY <1>1, <1>2, <1>3, <2>1, <2>2, <2>3, <2>4, <2>5, <2>6
    DEF IInv, Shown, Genuine
<1> QED
  BY <1>7, <1>8, <1>9, <1>10 DEF IInv

LEMMA PoppedResultKeeps ==
    ASSUME IInv, PoppedResult PROVE IInv'
<1> DEFINE q == bboxQueue_
           f == q[1].frame_id
           boxes == output_msg_.bboxes \o q[1].bboxes
<1>1. /\ pc["post"] = "copy" /\ line["post"] = Height
      /\ pc'["post"] = "poll" /\ Stays("main") /\ Stays("engine")
      /\ pc' \in [Threads -> {"next", "draw", "load", "poll", "copy",
                              "infer", "publish"}]
      /\ line' \in [Threads -> 0 .. Height]
  BY Going DEF PoppedResult, Finishes, IInv, Threads, Stays
<1>2. /\ q \in Seq(Messages) /\ q # <<>> /\ 1 \in 1 .. Len(q)
      /\ q[1] \in Messages /\ Head(q) = q[1] /\ Len(q) \in Nat \ {0}
      /\ f \in Frames /\ f # 0 /\ Delivered = <<"delivered", f>>
      /\ Delivered \in Buffers /\ q[1].image = <<"published", f>>
      /\ q[1].image \in Buffers
  <2>1. q \in Seq(Messages) /\ q # <<>>
    BY <1>1 DEF IInv, PicturesTypeOK, Shown
  <2>2. /\ 1 \in 1 .. Len(q) /\ q[1] \in Messages /\ Head(q) = q[1]
        /\ Len(q) \in Nat \ {0}
    BY <2>1
  <2>3. /\ f \in Frames /\ Delivered = <<"delivered", f>>
        /\ q[1].image = <<"published", f>>
    BY <2>1, <2>2, References
  <2>4. Delivered \in Buffers /\ q[1].image \in Buffers /\ f # 0
    BY <2>3 DEF Buffers, Frames
  <2> QED
    BY <2>1, <2>2, <2>3, <2>4
<1>3. /\ q' = Tail(q)
      /\ output_msg_' = [frame_id |-> f, image |-> Delivered, bboxes |-> boxes]
      /\ UNCHANGED <<frames, msg, inputMsgQue_, input_msg_, pixels, found,
                     files, spoiled>>
  BY <1>2 DEF PoppedResult, Assigned
<1>4. /\ q' \in Seq(Messages) /\ Len(q') = Len(q) - 1
      /\ \A i \in 1 .. Len(q') : q'[i] = q[i + 1] /\ i + 1 \in 1 .. Len(q)
  <2>1. /\ Tail(q) \in Seq(Messages) /\ Len(Tail(q)) = Len(q) - 1
        /\ \A i \in 1 .. Len(q) - 1 : Tail(q)[i] = q[i + 1]
    BY <1>2, TailFacts
  <2> QED
    BY <1>2, <1>3, <2>1
<1>5. Keeps({"loaded"}) /\ Keeps({"popped"}) /\ Keeps({"popped", "published"})
      /\ Keeps({"published"})
  BY <1>3 DEF Keeps
<1>6. /\ pixels[q[1].image] \in Pictures /\ q[1].bboxes = <<pixels[q[1].image]>>
      /\ Genuine(pixels[q[1].image], f)
  BY <1>2 DEF IInv, Shown, PicturesTypeOK
<1>7. /\ boxes \in Seq(Pictures) /\ boxes # <<>>
      /\ boxes[Len(boxes)] = pixels[q[1].image]
  <2>1. output_msg_.bboxes \in Seq(Pictures)
    BY DEF IInv, PicturesTypeOK, Messages
  <2> QED
    BY <1>6, <2>1
<1> HIDE DEF boxes
<1>8. PicturesTypeOK'
  <2>1. output_msg_' \in Messages
    BY <1>2, <1>3, <1>7 DEF Messages, Frames
  <2> QED
    BY <1>1, <1>3, <1>4, <2>1 DEF IInv, PicturesTypeOK, Stays
<1>9. Order'
  <2>1. HandedIn' = HandedIn /\ output_msg_'.frame_id = f
        /\ f <= input_msg_.frame_id
    BY <1>1, <1>2, <1>3 DEF IInv, Order, HandedIn, Stays
  <2>2. ASSUME NEW i \in 1 .. Len(q')
        PROVE  /\ q'[i].frame_id <= input_msg_.frame_id
               /\ f < q'[i].frame_id
               /\ q'[i].image = <<"published", q'[i].frame_id>>
    <3>1. q'[i] = q[i + 1] /\ i + 1 \in 1 .. Len(q) /\ 1 < i + 1
      BY <1>4
    <3> QED
      BY <1>2, <3>1 DEF IInv, Order
  <2>3. ASSUME NEW i \in 1 .. Len(q'), NEW j \in 1 .. Len(q'), i < j
        PROVE  q'[i].frame_id < q'[j].frame_id
    <3>1. i + 1 < j + 1
      BY <2>3
    <3> QED
      BY <1>4, <3>1 DEF IInv, Order
  <2> QED
    BY <1>1, <1>3, <2>1, <2>2, <2>3 DEF IInv, Order, Stays
<1>10. Unpublished'
  <2>1. output_msg_'.frame_id = f
    BY <1>3
  <2> QED
    BY <1>1, <1>2, <1>3, <1>4, <2>1 DEF IInv, Unpublished, Stays
<1>11. Callers' /\ Waiting' /\ InHand' /\ Saved'
  BY <1>1, <1>3, <1>5, CallersStay, WaitingStays, InHandStays, SavedStays
  DEF IInv, InHand
<1>12. Shown'
  <2>1. ASSUME NEW i \in 1 .. Len(q')
        PROVE  /\ q'[i].bboxes = <<pixels[q'[i].image]>>
               /\ Genuine(pixels[q'[i].image], q'[i].frame_id)
    BY <1>4 DEF IInv, Shown
  <2>2. pixels[Delivered] = pixels[q[1].image]
    <3>1. \A k \in Lines : k <= Height
      BY PicturesAssumption DEF Lines
    <3>2. \A k \in Lines : pixels[Delivered][k] = pixels[q[1].image][k]
      BY <1>1, <3>1 DEF IInv, Shown
    <3>3. pixels[Delivered] \in Pictures
      BY <1>2 DEF IInv, PicturesTypeOK
    <3> QED
      BY <1>6, <3>2, <3>3 DEF Pictures
  <2>3. /\ output_msg_'.frame_id = f /\ output_msg_'.image = Delivered
        /\ output_msg_'.bboxes = boxes
    BY <1>3
  <2> QED
    BY <1>1, <1>2, <1>3, <1>6, <1>7, <2>1, <2>2, <2>3
    DEF Shown, Genuine
<1> QED
  BY <1>8, <1>9, <1>10, <1>11, <1>12 DEF IInv

-----------------------------------------------------------------------------
(***************************************************************************)
(* The theorems.                                                           *)
(***************************************************************************)
LEMMA Inductive == IInv /\ [Next]_vars => IInv'
<1> SUFFICES ASSUME IInv, [Next]_vars PROVE IInv'
  OBVIOUS
<1>1. CASE Main
  BY <1>1, NewPictureKeeps, SamePixelsKeeps, OverwriteLineKeeps,
     OverwrittenKeeps, LoadDataKeeps DEF Main
<1>2. CASE Engine
  BY <1>2, PopInputKeeps, CopyInputKeeps, PoppedInputKeeps, InferKeeps,
     PublishKeeps, DrawKeeps, SaveKeeps DEF Engine
<1>3. CASE Post
  BY <1>3, PopResultKeeps, CopyResultKeeps, PoppedResultKeeps DEF Post
<1>4. CASE UNCHANGED vars
  <2>1. /\ UNCHANGED <<frames, msg, inputMsgQue_, input_msg_, bboxQueue_,
                       output_msg_, pixels, found, files, spoiled>>
        /\ UNCHANGED <<pc, line>>
    BY <1>4 DEF vars, queues
  <2>2. PicturesTypeOK'
    BY <2>1 DEF IInv, PicturesTypeOK
  <2>3. Order' /\ Unpublished'
    BY <2>1 DEF IInv, Order, HandedIn, Unpublished
  <2>4. Callers' /\ Waiting'
    BY <2>1 DEF IInv, Callers, Waiting, Popped
  <2>5. InHand'
    BY <2>1 DEF IInv, InHand, Published, Genuine
  <2>6. Shown' /\ Saved'
    BY <2>1 DEF IInv, Shown, Delivered, Saved, Genuine
  <2> QED
    BY <2>2, <2>3, <2>4, <2>5, <2>6 DEF IInv
<1> QED
  BY <1>1, <1>2, <1>3, <1>4 DEF Next

LEMMA Invariance == Spec => []IInv
BY Start, Inductive, PTL DEF Spec

\* Every reference is to pixels that exist.
THEOREM PicturesTyped == Spec => []PicturesTypeOK
<1>1. IInv => PicturesTypeOK
  BY DEF IInv
<1> QED
  BY <1>1, Invariance, PTL

\* Although the worker draws on its picture beside the queue that its copy
\* waits in, no result has a mark, and each shows what its boxes were found
\* in.
THEOREM ResultsUnmarked == Spec => []ResultsFitPictures
<1>1. ASSUME IInv PROVE ResultsFitPictures
  <2>1. ASSUME NEW i \in 1 .. Len(bboxQueue_)
        PROVE  LET r == bboxQueue_[i]
               IN  /\ r.bboxes # <<>>
                   /\ r.bboxes[Len(r.bboxes)] = pixels[r.image]
                   /\ \A k \in Lines : ~pixels[r.image][k].marked
    <3>1. /\ bboxQueue_[i].bboxes = <<pixels[bboxQueue_[i].image]>>
          /\ Genuine(pixels[bboxQueue_[i].image], bboxQueue_[i].frame_id)
      BY <1>1 DEF IInv, Shown
    <3> QED
      BY <3>1 DEF Genuine
  <2>2. output_msg_ # NewMsg =>
            /\ output_msg_.bboxes # <<>>
            /\ output_msg_.bboxes[Len(output_msg_.bboxes)]
                  = pixels[output_msg_.image]
            /\ \A k \in Lines : ~pixels[output_msg_.image][k].marked
    BY <1>1 DEF IInv, Shown, Genuine
  <2> QED
    BY <2>1, <2>2 DEF ResultsFitPictures, Results
<1> QED
  BY <1>1, Invariance, PTL

\* A result shows its own frame, unless the program wrote to it in the queue.
THEOREM ResultsOwn == Spec => []OwnPicture
<1>1. ASSUME IInv PROVE OwnPicture
  <2>1. \A i \in 1 .. Len(bboxQueue_) :
            bboxQueue_[i].frame_id \notin spoiled =>
               pixels[bboxQueue_[i].image] = Picture(bboxQueue_[i].frame_id)
    BY <1>1 DEF IInv, Shown, Genuine
  <2>2. output_msg_ # NewMsg /\ output_msg_.frame_id \notin spoiled =>
            pixels[output_msg_.image] = Picture(output_msg_.frame_id)
    BY <1>1 DEF IInv, Shown, Genuine
  <2> QED
    BY <2>1, <2>2 DEF OwnPicture, Results
<1> QED
  BY <1>1, Invariance, PTL

\* Nobody writes to the pixels of the program but the program.
THEOREM CallersOwn == Spec => []CallersPictureKept
<1>1. ASSUME IInv PROVE CallersPictureKept
  <2> SUFFICES ASSUME frames # 0, pc["main"] # "draw"
               PROVE  pixels[msg.image] = Picture(frames)
    BY DEF CallersPictureKept
  <2>1. PICK n \in 1 .. frames : msg.image = <<"loaded", n>>
    BY <1>1 DEF IInv, Order
  <2>2. n \in Frames
    BY <1>1, <2>1, References DEF Frames
  <2>3. pixels[msg.image] \in Pictures
    BY <1>1, <2>1, <2>2 DEF IInv, PicturesTypeOK, Buffers
  <2>4. \A k \in Lines : pixels[msg.image][k] = Line(frames)
    BY <1>1 DEF IInv, Callers
  <2> QED
    BY <2>3, <2>4 DEF Pictures, Picture
<1> QED
  BY <1>1, Invariance, PTL

\* A file shows the picture of the frame's result with all its marks.
THEOREM FilesShowResults == Spec => []FilesFitResults
<1>1. ASSUME IInv PROVE FilesFitResults
  BY <1>1 DEF IInv, Saved, Genuine, FilesFitResults
<1> QED
  BY <1>1, Invariance, PTL
=============================================================================
