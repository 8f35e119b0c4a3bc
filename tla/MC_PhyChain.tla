----------------------------- MODULE MC_PhyChain -----------------------------
(* PhyChain with PSDUs of 4 and 14 bytes, which fill one symbol in part and   *)
(* take several symbols at the low rates, and three states of the scrambler. *)
EXTENDS PhyChain

AllNoise == -1..1

SomePsdus == {<<8, 0, 255, 129>>, <<1, 2, 3, 5, 8, 13, 21, 34, 55, 89, 144, 233, 0, 170>>}
=============================================================================
