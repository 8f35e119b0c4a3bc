----------------------------- MODULE SoftDecoder -----------------------------
(***************************************************************************)
(* The decoding of soft bits: s_deinterleave and s_decode_signal_field of    *)
(* soft_frame_equalizer_impl.cc for the SIGNAL symbol, oai_decode and        *)
(* gnu_deinterleave of decode_mac_soft.cc for the data symbols of a frame in  *)
(* BPSK 1/2 (the one modulation the soft receiver is written for), and the   *)
(* Viterbi decoder soft_viterbi_decoder.cc that both use.  A SIGNAL symbol of *)
(* SignalField is received by frame_equalizer, as there, or by               *)
(* soft_frame_equalizer.                                                     *)
(*                                                                          *)
(* A SIGNAL word ends in the tail, six zero bits that lead the encoder back  *)
(* to state 0.  Behind the tail of a data frame there are scrambled padding  *)
(* bits, 2, 10 or 18 of them, which are decoded with the rest.               *)
(*                                                                          *)
(* A soft bit is a number, positive for 1, and 0 when the equalizer found    *)
(* its subcarrier hit.  Bit and subcarrier k of the code is element k + 1.   *)
(***************************************************************************)
EXTENDS SignalField, FiniteSetsExt

CONSTANTS
  Words,    (* the SIGNAL words among which those received softly are       *)
  Frames,   (* data frames: PSDU and state of the scrambler                 *)
  Errors,   (* Bound of the model: the soft bits of a data frame, from 1 on, *)
            (* that may have the wrong sign, and 0: none has                *)
  Changes,  (* some bits in a row, 1 for those in which a rival of the word  *)
            (* decoded differs from it                                      *)
  Good,     (* size of a soft bit that was received well                    *)
  Bad       (* size of the one soft bit that has the wrong sign             *)

ASSUME DecoderAssumption ==
  /\ Words \subseteq [1..24 -> {0, 1}]
  /\ \A f \in Frames : f.psdu \in Seq(0..255) /\ f.seed \in 1..127
  /\ Errors \subseteq Nat
  /\ Changes \subseteq Seq({0, 1})
  /\ Good \in 1..7 /\ Bad \in 1..127

VARIABLES
  kind,               (* "none", "signal" or "data"                         *)
  sent,               (* the bits that were encoded                         *)
  size,               (* d_frame.psdu_size, of a data frame                 *)
  hit,                (* whether the equalizer found interference           *)
  wrong,              (* the soft bit that has the wrong sign, 0: none      *)
  rx,                 (* the soft bits, 48 of each symbol                   *)
  y,                  (* the input of the Viterbi decoder, <<>>: none yet   *)
  position,           (* loop variable of both loops of the decoder         *)
  d_partial_metrics,
  d_survivors, d_inputs,
  prev_state0, decoded_bits,
  pc

symbolVars == <<kind, sent, size, hit, wrong>>
decoderVars == <<symbolVars, rx, y, position, d_partial_metrics, d_survivors, d_inputs,
                 prev_state0, decoded_bits, pc>>
vars == <<signalVars, decoderVars>>

States == 0..63

(* The size of the coded block: a SIGNAL symbol, or the symbols of a frame.  *)
n == IF kind = "signal" THEN 24 ELSE frame_param(0, size).n_data_bits

(* The soft bits of a symbol that ls_soft.cc zeroes                          *)
Hit == 20..31

SoftInit ==
  /\ Init
  /\ kind = "none" /\ sent = <<>> /\ size = 0 /\ hit = FALSE /\ wrong = 0
  /\ rx = <<>> /\ y = <<>>
  /\ position = 0
  /\ d_partial_metrics = [state \in States |-> IF state = 0 THEN 0 ELSE -127]
  /\ d_survivors = <<>> /\ d_inputs = <<>>
  /\ prev_state0 = 0 /\ decoded_bits = <<>>
  /\ pc = "idle"

-----------------------------------------------------------------------------
(* The generator of the SIGNAL symbol, and its reception by frame_equalizer. *)
HardReception ==
  /\ pc = "idle"
  /\ Next
  /\ UNCHANGED decoderVars

(* The soft bits of what `word' was encoded to reach the soft receiver.     *)
Arrive(symbolKind, word, errors) ==
  /\ pc = "idle" /\ pc' = "deinterleave"
  /\ kind' = symbolKind
  /\ sent' = word
  /\ hit' \in BOOLEAN
  /\ wrong' \in errors
  /\ LET coded == interleave(convolutional_encoding(word), 0)
     IN rx' = [k \in DOMAIN coded |->
                 IF k = wrong' THEN (1 - 2 * coded[k]) * Bad
                 ELSE IF hit' /\ ((k - 1) % 48) + 1 \in Hit THEN 0
                 ELSE (2 * coded[k] - 1) * Good]
  /\ UNCHANGED <<signalVars, y, position, d_partial_metrics, d_survivors, d_inputs,
                 prev_state0, decoded_bits>>

SignalArrives ==
  /\ air # <<>> /\ bits = <<>>
  /\ signal_header(encoding, psdu_len) \in Words
  /\ Arrive("signal", signal_header(encoding, psdu_len), 0..48)
  /\ UNCHANGED size

(* What the mapper encodes: behind the tail the padding stays scrambled.     *)
DataWord(f) ==
  LET param == frame_param(0, Len(f.psdu))
  IN reset_tail_bits(scramble(generate_bits(f.psdu, param), f.seed), param)

(* decode_mac_soft has all symbols of a frame.                               *)
DataArrives ==
  /\ air = <<>>
  /\ \E f \in Frames :
       /\ Arrive("data", DataWord(f), Errors)
       /\ size' = Len(f.psdu)

-----------------------------------------------------------------------------

Clipped(v) == IF v > 7 THEN 7 ELSE IF v < -8 THEN -8 ELSE v

(* The loop clips soft bit i and takes soft bit interleaver_pattern[i],      *)
(* which may be one it has not come to yet.                                  *)
s_deinterleave ==
  [k \in 1..48 |->
     LET from == interleaver_pattern[k]
     IN IF from <= k - 1 THEN Clipped(rx[from + 1]) ELSE rx[from + 1]]

(* The soft bits of data symbols are clipped first.                          *)
gnu_deinterleave == deinterleave([k \in DOMAIN rx |-> Clipped(rx[k])], 0)

SoftDeinterleave ==
  /\ pc = "deinterleave"
  /\ y' = IF kind = "signal" THEN s_deinterleave ELSE gnu_deinterleave
  /\ pc' = "forward"
  /\ UNCHANGED <<signalVars, symbolVars, rx, position, d_partial_metrics, d_survivors,
                 d_inputs, prev_state0, decoded_bits>>

-----------------------------------------------------------------------------
(* The coder outputs for seven bits, the newest one highest: bits of 0133    *)
(* and 0171.                                                                 *)
d_gdot11 == <<{0, 1, 3, 4, 6}, {0, 3, 4, 5, 6}>>

d_ccodedot11_table ==
  [i \in 0..127 |-> [j \in 1..2 |-> Cardinality({b \in d_gdot11[j] : Bit(i, b) = 1}) % 2]]

(* What the two soft bits of the position say for a pair of coder outputs.   *)
w(out) == (2 * out[1] - 1) * y[2 * position + 1] + (2 * out[2] - 1) * y[2 * position + 2]

Metric(prev) == d_partial_metrics[prev % 64] + w(d_ccodedot11_table[prev])

(* A bug: of two paths the worse one survives. *)
Survivor_Worse(state) ==
  IF Metric(2 * state) > Metric(2 * state + 1) THEN 2 * state + 1 ELSE 2 * state

Survivor(state) ==
  IF Metric(2 * state) > Metric(2 * state + 1) THEN 2 * state ELSE 2 * state + 1

(* max_metric starts with -127.                                              *)
Normalised(metrics) ==
  LET max_metric == Max({metrics[s] : s \in States} \union {-127})
  IN [s \in States |-> metrics[s] - max_metric]

Forward ==
  /\ pc = "forward"
  /\ position < n
  /\ LET survivor == [state \in States |-> Survivor(state)]
     IN /\ d_partial_metrics' = Normalised([state \in States |-> Metric(survivor[state])])
        /\ d_survivors' = Append(d_survivors, [state \in States |-> survivor[state] % 64])
        /\ d_inputs' = Append(d_inputs, [state \in States |-> IF state > 31 THEN 1 ELSE 0])
  /\ position' = position + 1
  /\ UNCHANGED <<signalVars, symbolVars, rx, y, prev_state0, decoded_bits, pc>>

(* The traceback starts in state 0.  The tail of a SIGNAL word leads there;  *)
(* the padding of a data frame leads elsewhere, as a rule, and is decoded as *)
(* if it did not.                                                            *)
Turn ==
  /\ pc = "forward"
  /\ position = n
  /\ prev_state0' = 0
  /\ pc' = "traceback"
  /\ UNCHANGED <<signalVars, symbolVars, rx, y, position, d_partial_metrics, d_survivors,
                 d_inputs, decoded_bits>>

Traceback ==
  /\ pc = "traceback"
  /\ position > 0
  /\ decoded_bits' = <<d_inputs[position][prev_state0]>> \o decoded_bits
  /\ prev_state0' = d_survivors[position][prev_state0]
  /\ position' = position - 1
  /\ UNCHANGED <<signalVars, symbolVars, rx, y, d_partial_metrics, d_survivors, d_inputs, pc>>

Decoded == pc = "traceback" /\ position = 0

(* What is decoded of the SIGNAL symbol is parsed.  parse_signal is a copy of *)
(* that of frame_equalizer.                                                  *)
s_decode_signal_field ==
  /\ kind = "signal" /\ Decoded
  /\ header = NotYet
  /\ bits' = decoded_bits
  /\ header' = parse_signal(decoded_bits)
  /\ flipped' = {k \in 1..24 : decoded_bits[k] # sent[k]}
  /\ UNCHANGED <<encoding, psdu_len, air, decoderVars>>

SoftNext ==
  \/ HardReception
  \/ SignalArrives \/ DataArrives
  \/ SoftDeinterleave \/ Forward \/ Turn \/ Traceback
  \/ s_decode_signal_field

SoftSpec == SoftInit /\ [][SoftNext]_vars

-----------------------------------------------------------------------------
(* Properties *)

(* Bit k of the code of a word that the encoder is given in state 0.         *)
CodeBit(word, k) ==
  LET newest == (k + 1) \div 2
  IN Cardinality({b \in Generator[2 - (k % 2)] : b < newest /\ word[newest - b] = 1}) % 2

(* The bits of the code that change with the word, from the first change on. *)
Changed ==
  [c \in Changes |->
     {k \in 1..2 * (Len(c) + 6) : CodeBit(c \o <<0, 0, 0, 0, 0, 0>>, k) = 1}]

(* Of the words that end in state 0 the decoder finds one that no other goes *)
(* better with: the soft bits in which their codes differ speak for the word *)
(* found, in sum.  Add-compare-select, normalising and traceback agree       *)
(* (soft_viterbi_decoder.cc:132-214).  A path that starts in another state   *)
(* is held back by 127.                                                      *)
BestWord ==
  Decoded =>
    /\ prev_state0 = 0
    /\ LET speaks(k) == (2 * CodeBit(decoded_bits, k) - 1) * y[k]
       IN \A c \in Changes : \A first \in 0..n - 6 - Len(c) :
            MapThenSumSet(LAMBDA k : speaks(2 * first + k), Changed[c]) >= 0

=============================================================================
