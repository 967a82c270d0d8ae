------------------------------ MODULE MCStartup ------------------------------
(***************************************************************************)
(* Bindings for TLC: an input and an output, and one output too many.  Two *)
(* processes are configured, or one twice; a third Init loads what another *)
(* built.                                                                  *)
(***************************************************************************)
EXTENDS Startup

In == [input |-> TRUE, size |-> 1]
Out == [input |-> FALSE, size |-> 2]
Engines == {<<In, Out>>, <<In, Out, Out>>}

Calls == [InitConfig |-> 2, Init |-> 3]
=============================================================================
