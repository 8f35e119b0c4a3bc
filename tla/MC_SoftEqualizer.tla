-------------------------- MODULE MC_SoftEqualizer --------------------------
(* SoftEqualizer with a frame of one data symbol, one of two, and one whose   *)
(* SIGNAL symbol cannot be decoded.                                          *)
EXTENDS SoftEqualizer

One   == [ok |-> TRUE, encoding |-> 1, bytes |-> 1]
Two   == [ok |-> TRUE, encoding |-> 1, bytes |-> 4]
Wrong == [ok |-> FALSE, encoding |-> 0, bytes |-> 0]

AllHeaders == {One, Two, Wrong}
=============================================================================
