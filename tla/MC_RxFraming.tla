---------------------------- MODULE MC_RxFraming ----------------------------
(* RxFraming with MAX_PSDU_SIZE scaled to 4 bytes, so that MAX_SYM is 3, and *)
(* with real encodings: a frame of one symbol, one of two, one that is too   *)
(* large and has two symbols, and a SIGNAL symbol that cannot be decoded.    *)
EXTENDS RxFraming

Small == [ok |-> TRUE, encoding |-> 2, bytes |-> 3]
Large == [ok |-> TRUE, encoding |-> 3, bytes |-> 9]
Short == [ok |-> TRUE, encoding |-> 1, bytes |-> 1]
Wrong == [ok |-> FALSE, encoding |-> 0, bytes |-> 0]

AllHeaders == {Small, Large, Short, Wrong}
=============================================================================
