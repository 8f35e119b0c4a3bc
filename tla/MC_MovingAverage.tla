-------------------------- MODULE MC_MovingAverage --------------------------
(* Lengths that grow and shrink by more than the items of one call.         *)
EXTENDS MovingAverage
MCLengths == {1, 2, 4}
=============================================================================
