--------------------------- MODULE MCInferPipeline ---------------------------
(***************************************************************************)
(* Programs that use the pipeline, for TLC.                                *)
(***************************************************************************)
EXTENDS InferPipeline

\* The life cycle, no more and no less.
AllowedLifeCycle == LifeCycle

\* The same, and the threads are started again after they were stopped.
AllowedRestart == [LifeCycle EXCEPT !["stopped"] = {"Start"}]

\* Any call at any time.
AllowedAnyOrder == [p \in Phases |-> Calls]
=============================================================================
