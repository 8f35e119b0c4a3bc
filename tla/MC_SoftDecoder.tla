--------------------------- MODULE MC_SoftDecoder ---------------------------
(* SoftDecoder, and with it SignalField: lengths that set every bit of the   *)
(* length field, and the limits of MAC and receiver, and up to three wrong   *)
(* bits for the hard decision; for the soft one two SIGNAL words, frames of  *)
(* 18, 10 and 2 padding bits in three symbols, and for rivals the words that *)
(* differ from the one decoded in up to seven bits in a row.                 *)
EXTENDS SoftDecoder

UpToThree == {{}} \union {{a, b, c} : a, b, c \in 1..24}

FieldLengths == {2^k : k \in 0..11} \union {0, 14, 1528, 1529, 2047, 4095}

Short == signal_header(0, 14)
Long  == signal_header(7, 2047)

TwoWords == {Short, Long}

(* With seed 4 the padding leaves the encoder where the path into state 0    *)
(* that parts from it before the padding is as good as the right one.        *)
ThreeFrames ==
  {[psdu |-> <<8, 0, 255, 129>>, seed |-> 93],
   [psdu |-> <<1, 2, 3, 5, 8>>, seed |-> 4],
   [psdu |-> <<144, 233, 0, 170, 85, 254>>, seed |-> 23]}

EveryFourth == {k \in 0..144 : k % 4 = 0}

UpToSeven == {c \in [1..7 -> {0, 1}] : c[1] = 1}
=============================================================================
