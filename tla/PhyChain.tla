------------------------------ MODULE PhyChain ------------------------------
(***************************************************************************)
(* One frame on its way through the physical layer: mapper (src/lib/mapper.cc *)
(* 98 to 119) and chunks_to_symbols on one side, the decisions of the        *)
(* equalizer and decode() of decode_mac (src/lib/decode_mac.cc 120 to 164)   *)
(* on the other.  One action per function; each works on what the one before *)
(* it left.  Between the two the channel moves every point of a constellation *)
(* by less than half the distance to the next one.                           *)
(***************************************************************************)
EXTENDS Coding, Constellations

CONSTANTS
  Psdus,  (* PSDUs, sequences of bytes                                      *)
  Seeds,  (* values of d_scrambler when the frame is sent, of 1..127         *)
  Noise   (* displacements of a coordinate, in half levels                  *)

ASSUME ChainAssumption ==
  /\ \A p \in Psdus : p \in Seq(0..255) /\ Len(p) >= 4
  /\ Seeds \subseteq 1..127
  /\ Noise \subseteq -1..1

VARIABLES
  e, psdu, seed,  (* encoding, PSDU and scrambler state of the frame         *)
  next,           (* the function that runs next                            *)
  buf,            (* the array it works on                                  *)
  returned        (* history: what the functions of the transmitter returned *)

chainVars == <<e, psdu, seed, next, buf, returned>>

frame == frame_param(e, Len(psdu))

Tx == <<"generate_bits", "scramble", "reset_tail_bits", "convolutional_encoding",
        "puncturing", "interleave", "split_symbols", "map_to_points">>
Rx == <<"channel", "decision_maker", "unpack", "deinterleave", "depuncture",
        "viterbi", "descramble", "done">>
Steps == Tx \o Rx

Follows(step) == Steps[(CHOOSE k \in DOMAIN Steps : Steps[k] = step) + 1]

ChainInit ==
  /\ e \in Encoding
  /\ psdu \in Psdus
  /\ seed \in Seeds
  /\ next = "generate_bits"
  /\ buf = <<>>
  /\ returned = [step \in {} |-> <<>>]

-----------------------------------------------------------------------------
(* One function of the transmitter returns `result', which is remembered.   *)
Send(step, result) ==
  /\ next = step
  /\ buf' = result
  /\ returned' = [s \in DOMAIN returned \union {step} |->
                    IF s = step THEN result ELSE returned[s]]
  /\ next' = Follows(step)
  /\ UNCHANGED <<e, psdu, seed>>

GenerateBits  == Send("generate_bits", generate_bits(psdu, frame))
Scramble      == Send("scramble", scramble(buf, seed))
ResetTailBits == Send("reset_tail_bits", reset_tail_bits(buf, frame))
Encode        == Send("convolutional_encoding", convolutional_encoding(buf))
Puncture      == Send("puncturing", puncturing(buf, e))
Interleave    == Send("interleave", interleave(buf, e))
SplitSymbols  == Send("split_symbols", split_symbols(buf, e))
MapToPoints   == Send("map_to_points", [k \in DOMAIN buf |-> map_to_points(buf[k], e)])

Transmit ==
  \/ GenerateBits \/ Scramble \/ ResetTailBits \/ Encode
  \/ Puncture \/ Interleave \/ SplitSymbols \/ MapToPoints

-----------------------------------------------------------------------------
Receive(step, result) ==
  /\ next = step
  /\ buf' = result
  /\ next' = Follows(step)
  /\ UNCHANGED <<e, psdu, seed, returned>>

Channel ==
  \E dx, dy \in Noise :
    Receive("channel", [k \in DOMAIN buf |-> <<buf[k][1] + dx, buf[k][2] + dy>>])

Demap        == Receive("decision_maker", [k \in DOMAIN buf |-> decision_maker(buf[k], e)])
Unpack       == Receive("unpack", unpack(buf, e))
Deinterleave == Receive("deinterleave", deinterleave(buf, e))
Depuncture   == Receive("depuncture", depuncture(buf, e, frame))
Viterbi      == Receive("viterbi", viterbi(buf, frame.n_data_bits))
Descramble   == Receive("descramble", descramble(buf, Len(psdu)))

ChainNext ==
  \/ Transmit
  \/ Channel \/ Demap \/ Unpack \/ Deinterleave \/ Depuncture \/ Viterbi
  \/ Descramble

ChainSpec == ChainInit /\ [][ChainNext]_chainVars

-----------------------------------------------------------------------------
(* Each function of the receiver undoes its counterpart of the transmitter,  *)
(* for every encoding: the decisions (constellations_impl.cc), the bits of a *)
(* subcarrier (decode_mac.cc:124-127) and the interleaver (185-198).  What    *)
(* depuncture makes has the bits that were sent where the encoder had them,  *)
(* and its mark where they were punctured (viterbi_decoder.cc:266-284), at    *)
(* least one bit of every pair being there.                                  *)
Undone ==
  /\ next = "unpack" => buf = returned["split_symbols"]
  /\ next = "deinterleave" => buf = returned["interleave"]
  /\ next = "depuncture" => buf = returned["puncturing"]
  /\ next = "viterbi" =>
       /\ DOMAIN buf = DOMAIN returned["convolutional_encoding"]
       /\ \A k \in DOMAIN buf :
            buf[k] = IF Sent(e, k - 1) THEN returned["convolutional_encoding"][k] ELSE 2
       /\ \A i \in 1..frame.n_data_bits : buf[2 * i - 1] # 2 \/ buf[2 * i] # 2

(* The PSDU that decode_mac checks and publishes is the one that was sent,   *)
(* whatever state the scrambler had: the receiver finds it in the service    *)
(* field (decode_mac.cc:209-225).                                            *)
PsduReceived ==
  next = "done" => out_bytes(buf, Len(psdu)) = psdu
=============================================================================
