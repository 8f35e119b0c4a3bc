---------------------------- MODULE MC_FlowGraph ----------------------------
(* All four flow graphs. *)
EXTENDS FlowGraph
=============================================================================
