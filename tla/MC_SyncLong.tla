----------------------------- MODULE MC_SyncLong -----------------------------
(* SyncLong on a small instance: symbols of 2 samples with a prefix of 1.    *)
EXTENDS SyncLong
=============================================================================
