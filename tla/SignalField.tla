----------------------------- MODULE SignalField -----------------------------
(***************************************************************************)
(* The SIGNAL symbol that announces the encoding and the length of a frame:  *)
(* header_formatter and generate_signal_field (src/lib/signal_field_impl.cc) *)
(* make it, decode_signal_field and parse_signal of the frame equalizer      *)
(* (src/lib/frame_equalizer_impl.cc) read it.  Between the two the decoder    *)
(* may get some of the 24 bits wrong.  SoftDecoder adds the other receiver,   *)
(* soft_frame_equalizer, and is the module that is run.                      *)
(***************************************************************************)
EXTENDS Coding

CONSTANTS
  Lengths,      (* PSDU sizes of the frames sent                            *)
  Flips,        (* Bound of the model: sets of bits decoded wrongly.        *)
  MAX_PSDU_SIZE (* utils.h:27, 1528                                         *)

ASSUME SignalAssumption ==
  /\ Lengths \subseteq Nat
  /\ Flips \subseteq SUBSET (1..24)
  /\ MAX_PSDU_SIZE \in Nat

VARIABLES
  encoding, psdu_len,  (* the tags of the packet sent                       *)
  air,                 (* the 48 bits of the SIGNAL symbol                  *)
  bits,                (* its 24 decoded bits                               *)
  flipped,             (* bits that were decoded wrongly                    *)
  header               (* what the frame equalizer makes of it              *)

signalVars == <<encoding, psdu_len, air, bits, flipped, header>>

NotYet == [ok |-> FALSE, encoding |-> -1, bytes |-> -1]

Init ==
  /\ encoding = -1
  /\ psdu_len = -1
  /\ air = <<>>
  /\ bits = <<>>
  /\ flipped = {}
  /\ header = NotYet

-----------------------------------------------------------------------------
(* A bug: the rate goes out with its lowest bit first. *)
SignalData_RateReversed(e, length) ==
  [k \in 1..17 |->
     CASE k \in 1..4 -> Bit(ofdm_param[e].rate_field, k - 1)
       [] k = 5 -> 0
       [] OTHER -> Bit(length, k - 6)]

(* The first 17 bits: rate, reserved bit, length.  Only 12 bits of the      *)
(* length are there.                                                        *)
SignalData(e, length) ==
  [k \in 1..17 |->
     CASE k \in 1..4 -> Bit(ofdm_param[e].rate_field, 4 - k)
       [] k = 5 -> 0
       [] OTHER -> Bit(length, k - 6)]

OnesOf(b) == Cardinality({k \in DOMAIN b : b[k] = 1})

(* Parity and tail follow.                                                  *)
signal_header(e, length) ==
  LET data == SignalData(e, length)
  IN data \o <<OnesOf(data) % 2, 0, 0, 0, 0, 0, 0>>

generate_signal_field(e, length) ==
  interleave(convolutional_encoding(signal_header(e, length)), 0)

(* The header of a packet whose tags say which encoding and length it has.   *)
(* What a mapper with room for MaxSym symbols accepts is sent.               *)
header_formatter ==
  /\ air = <<>>
  /\ encoding' \in Encoding
  /\ psdu_len' \in Lengths
  /\ NSym(encoding', psdu_len') <= MaxSym(MAX_PSDU_SIZE)
  /\ air' = generate_signal_field(encoding', psdu_len')
  /\ UNCHANGED <<bits, flipped, header>>

-----------------------------------------------------------------------------
interleaver_pattern ==
  <<0, 3, 6, 9, 12, 15, 18, 21, 24, 27, 30, 33, 36, 39, 42, 45,
    1, 4, 7, 10, 13, 16, 19, 22, 25, 28, 31, 34, 37, 40, 43, 46,
    2, 5, 8, 11, 14, 17, 20, 23, 26, 29, 32, 35, 38, 41, 44, 47>>

d_deinterleaved(rx_bits) == [k \in 1..48 |-> rx_bits[interleaver_pattern[k] + 1]]

(* The encoding of each value of the rate bits; the others are unknown.     *)
EncodingOf(r) ==
  CASE r = 11 -> 0 [] r = 15 -> 1 [] r = 10 -> 2 [] r = 14 -> 3
    [] r = 9 -> 4  [] r = 13 -> 5 [] r = 8 -> 6  [] r = 12 -> 7
    [] OTHER -> -1

(* A bug: the parity leaves out the last bit of the length. *)
parse_signal_ShortParity(b) ==
  LET r == b[1] + 2 * b[2] + 4 * b[3] + 8 * b[4]
  IN [ok |-> OnesOf(SubSeq(b, 1, 16)) % 2 = b[18] /\ EncodingOf(r) # -1,
      encoding |-> EncodingOf(r), bytes |-> Number(SubSeq(b, 6, 17))]

parse_signal(b) ==
  LET r == b[1] + 2 * b[2] + 4 * b[3] + 8 * b[4]
  IN [ok |-> OnesOf(SubSeq(b, 1, 17)) % 2 = b[18] /\ EncodingOf(r) # -1,
      encoding |-> EncodingOf(r), bytes |-> Number(SubSeq(b, 6, 17))]

(* The decoder makes 24 bits of the SIGNAL symbol.                          *)
decode ==
  /\ air # <<>>
  /\ bits = <<>>
  /\ bits' = viterbi(d_deinterleaved(air), 24)
  /\ UNCHANGED <<encoding, psdu_len, air, flipped, header>>

(* They are parsed, with some of them wrong.                                *)
decode_signal_field ==
  /\ bits # <<>>
  /\ header = NotYet
  /\ flipped' \in Flips
  /\ header' = parse_signal([k \in 1..24 |-> IF k \in flipped' THEN 1 - bits[k] ELSE bits[k]])
  /\ UNCHANGED <<encoding, psdu_len, air, bits>>

Next == header_formatter \/ decode \/ decode_signal_field

Spec == Init /\ [][Next]_signalVars

-----------------------------------------------------------------------------
(* A SIGNAL symbol decoded without an error tells the encoding and, if it    *)
(* has no more than 12 bits, the length of the frame that was sent: the bit  *)
(* orders of generator and parser, the interleaver and its table agree       *)
(* (signal_field_impl.cc:57-83, frame_equalizer_impl.cc:264-330, 342).       *)
HeaderAsSent ==
  header # NotYet /\ flipped \intersect (1..18) = {} =>
    header = [ok |-> TRUE, encoding |-> encoding, bytes |-> psdu_len % 4096]

(* One wrong bit, or any odd number of them, in rate, length or parity is    *)
(* never taken for a header (frame_equalizer_impl.cc:276): a wrong header    *)
(* would make decode_mac wait for the wrong number of symbols.               *)
OddErrorsFound ==
  Cardinality(flipped \intersect (1..18)) % 2 = 1 => ~header.ok

=============================================================================
