---------------------------- MODULE MC_SyncShort ----------------------------
(* SyncShort on a small instance: a gap of 4 samples between tags, copies of *)
(* at most 7, calls of up to 3 items, 18 samples of input.                   *)
EXTENDS SyncShort
=============================================================================
