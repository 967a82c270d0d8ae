----------------------------- MODULE EngineCache -----------------------------
(***************************************************************************)
(* What TrtInfer::Init makes of the engine file: whoever finds none builds *)
(* one, and what is there when nobody is building stays as it is.  A good  *)
(* engine is never damaged, and a bad one is never repaired.               *)
(***************************************************************************)

CONSTANT Places         \* where an engine may lie

VARIABLE cache          \* cache[h]: "none", "busy", "good" or "bad"

States == {"none", "busy", "good", "bad"}

Init == cache = [h \in Places |-> "none"]

Begin(h) == cache[h] = "none" /\ cache' = [cache EXCEPT ![h] = "busy"]

\* The last one who is building ends.  It may have made nothing at all.
End(h) ==
    /\ cache[h] = "busy"
    /\ \E s \in States : cache' = [cache EXCEPT ![h] = s]

Next == \E h \in Places : Begin(h) \/ End(h)

Spec == Init /\ [][Next]_cache
=============================================================================
