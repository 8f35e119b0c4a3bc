---------------------------- MODULE MC_Transmitter ----------------------------
(* Transmitter with two values per symbol, at most three symbols per packet,  *)
(* and a buffer that holds little more than the largest packet.              *)
EXTENDS Transmitter
=============================================================================
