---------------------------- MODULE MC_LinkLayer ----------------------------
(* LinkLayer with sequence numbers that wrap at 4.  Lengths are those around *)
(* the limits of the code, 24, 33 and 34 bytes.                              *)
EXTENDS LinkLayer
=============================================================================
