---------------------------- MODULE FrameChannel ----------------------------
(***************************************************************************)
(* What the pipeline promises about frames, whatever its two queues and    *)
(* two threads do: it is a channel from LoadData to the post-processor     *)
(* that may lose frames and never reorders, repeats or invents one.        *)
(* Frames are numbered in the order in which they are handed in.           *)
(* InferPipeline implements this module.                                   *)
(***************************************************************************)
EXTENDS Integers, Sequences, FiniteSets

VARIABLES
    sent,           \* frames 1 .. sent were handed in
    inflight,       \* those that may still be delivered
    delivered       \* those that were, in order

cvars == <<sent, inflight, delivered>>

ChannelInit == sent = 0 /\ inflight = {} /\ delivered = <<>>

\* A frame is handed in, and may cost one older frame its place.
Send ==
    /\ sent' = sent + 1
    /\ \E f \in inflight \cup {sent + 1} :
          inflight' = (inflight \ {f}) \cup {sent + 1}
    /\ UNCHANGED delivered

\* Frames are lost: a full queue, a failed inference, a queue cleared.
Lose ==
    /\ inflight' \subseteq inflight
    /\ UNCHANGED <<sent, delivered>>

\* Of the frames in flight the oldest is delivered.
Deliver ==
    /\ \E f \in inflight :
          /\ \A g \in inflight : f <= g
          /\ delivered' = Append(delivered, f)
          /\ inflight' = inflight \ {f}
    /\ UNCHANGED sent

ChannelNext == Send \/ Lose \/ Deliver

ChannelSpec == ChannelInit /\ [][ChannelNext]_cvars
=============================================================================
