------------------------------- MODULE Coding -------------------------------
(***************************************************************************)
(* The bit processing of the transmitter (src/lib/utils.cc) and its inverse  *)
(* in the receiver (src/lib/decode_mac.cc, viterbi_decoder.cc), on sequences *)
(* of bits.  C arrays start at 0, sequences at 1: bit k of the code is       *)
(* element k + 1 here.                                                       *)
(***************************************************************************)
EXTENDS Ofdm, FiniteSets, Sequences

Bit(x, k) == (x \div 2^k) % 2
Xor(a, b) == (a + b) % 2

-----------------------------------------------------------------------------
(* generate_bits: 16 zeros for the service field, the bytes of the PSDU,    *)
(* least significant bit first, and zeros up to n_data_bits.                 *)
generate_bits(psdu, frame) ==
  [k \in 1..frame.n_data_bits |->
     IF k - 17 \in 0..8 * Len(psdu) - 1
     THEN Bit(psdu[(k - 17) \div 8 + 1], (k - 17) % 8)
     ELSE 0]

(* What a loop of n passes makes of a variable with values of S: its value   *)
(* at the start and behind each pass.  step[i][v] is what pass i makes of    *)
(* the value v.  The passes are halved again and again only to keep the      *)
(* recursion flat.                                                           *)
Passes(S, step, start, n) ==
  LET after[lo \in 1..n] ==
        [hi \in 1..n |-> [v \in S |->
           IF lo >= hi THEN step[lo][v]
           ELSE LET mid == (lo + hi) \div 2
                IN after[mid + 1][hi][after[lo][mid][v]]]]
  IN [i \in 0..n |-> IF i = 0 THEN start ELSE after[1][i][start]]

(* The number with these bits, the first one the least significant.          *)
Number(bits) ==
  LET step == [k \in DOMAIN bits |-> [v \in Nat |-> v + bits[k] * 2^(k - 1)]]
  IN Passes(Nat, step, 0, Len(bits))[Len(bits)]

(* A shift register of seven bits takes a bit in.                            *)
Shifted(state, in) == ((2 * state) % 128) + in

(* The scrambler's feedback is bit 6 xor bit 3.                             *)
Feedback(state) == Xor(Bit(state, 6), Bit(state, 3))

Whitened(in, initial_state) ==
  LET step == [i \in 1..Len(in) |-> [state \in 0..127 |-> Shifted(state, Feedback(state))]]
      states == Passes(0..127, step, initial_state, Len(in))
  IN [i \in 1..Len(in) |-> Xor(Feedback(states[i - 1]), in[i])]

scramble(in, initial_state) == Whitened(in, initial_state)

(* The six tail bits behind the PSDU are zero again after scrambling.       *)
reset_tail_bits(in, frame) ==
  LET tail == frame.n_data_bits - frame.n_pad - 6
  IN [k \in DOMAIN in |-> IF k - 1 \in tail..tail + 5 THEN 0 ELSE in[k]]

(* The bits of the state that the generators 0155 and 0117 add up.          *)
Generator == <<{0, 2, 3, 5, 6}, {0, 1, 2, 3, 6}>>

Parity(state, g) == Cardinality({k \in Generator[g] : Bit(state, k) = 1}) % 2

convolutional_encoding(in) ==
  LET step == [i \in 1..Len(in) |-> [state \in 0..127 |-> Shifted(state, in[i])]]
      states == Passes(0..127, step, 0, Len(in))
  IN [k \in 1..2 * Len(in) |-> Parity(states[(k + 1) \div 2], 2 - (k % 2))]

(* Whether bit i, counted from 0, of the encoder's output is sent.           *)
Sent(e, i) ==
  CASE e \in {0, 2, 4} -> TRUE
    [] e = 6 -> i % 4 # 3
    [] OTHER -> i % 6 \notin {3, 4}

puncturing(in, e) ==
  LET step == [i \in 1..Len(in) |-> [out \in Seq({0, 1}) |->
                 IF Sent(e, i - 1) THEN Append(out, in[i]) ELSE out]]
  IN Passes(Seq({0, 1}), step, <<>>, Len(in))[Len(in)]

(* Position in the encoder's order of bit k, counted from 0, of a symbol.    *)
Position(e, k) ==
  LET n_cbps == ofdm_param[e].n_cbps
      half == ofdm_param[e].n_bpsc \div 2
      s == IF half > 1 THEN half ELSE 1
      first(j) == s * (j \div s) + ((j + ((16 * j) \div n_cbps)) % s)
      second(i) == 16 * i - (n_cbps - 1) * ((16 * i) \div n_cbps)
  IN second(first(k))

(* Position of bit k of a frame: each symbol is interleaved for itself.     *)
InFrame(e, k) ==
  LET n_cbps == ofdm_param[e].n_cbps
  IN n_cbps * (k \div n_cbps) + Position(e, k % n_cbps)

interleave(in, e) == [k \in DOMAIN in |-> in[InFrame(e, k - 1) + 1]]

(* The bits of one subcarrier as a number, first bit least significant.     *)
split_symbols(in, e) ==
  LET n_bpsc == ofdm_param[e].n_bpsc
  IN [i \in 1..Len(in) \div n_bpsc |->
        Number([b \in 1..n_bpsc |-> in[(i - 1) * n_bpsc + b]])]

-----------------------------------------------------------------------------
(* decode: the bits of the received subcarrier values.                      *)
unpack(in, e) ==
  LET n_bpsc == ofdm_param[e].n_bpsc
  IN [k \in 1..Len(in) * n_bpsc |-> Bit(in[(k - 1) \div n_bpsc + 1], (k - 1) % n_bpsc)]

(* A bug: it permutes as the transmitter does. *)
deinterleave_Forward(in, e) == [k \in DOMAIN in |-> in[InFrame(e, k - 1) + 1]]

(* deinterleave writes bit k to its position; a position written by no k    *)
(* would keep what is there, which the model marks with 3.                  *)
deinterleave(in, e) ==
  LET n_cbps == ofdm_param[e].n_cbps
      from(p) == {k \in 0..n_cbps - 1 : Position(e, k) = p}
      source == [p \in 0..n_cbps - 1 |->
                   IF from(p) = {} THEN -1 ELSE CHOOSE k \in from(p) : TRUE]
  IN [k \in DOMAIN in |->
        LET p == source[(k - 1) % n_cbps]
        IN IF p = -1 THEN 3 ELSE in[n_cbps * ((k - 1) \div n_cbps) + p + 1]]

(* The pattern of the punctured code, 1 for a bit that was sent.            *)
d_depuncture_pattern(e) ==
  CASE e \in {0, 2, 4} -> <<1, 1>>
    [] e = 6 -> <<1, 1, 1, 0>>
    [] OTHER -> <<1, 1, 1, 0, 0, 1>>

(* depuncture puts a 2 where a bit was not sent.                            *)
depuncture(in, e, frame) ==
  LET pattern == d_depuncture_pattern(e)
      period == Len(pattern)
      ones(n) == Cardinality({q \in 1..n : pattern[q] = 1})
      rank(c) == (c \div period) * ones(period) + ones(c % period)
  IN [c \in 1..2 * frame.n_data_bits |->
        IF pattern[((c - 1) % period) + 1] = 1 THEN in[rank(c - 1) + 1] ELSE 2]

(* decode on what a codeword, as far as it was sent, agrees with.  The       *)
(* search for the path with the best metric is not modelled: both generators *)
(* have the newest bit, so an output that is not missing tells it.           *)
viterbi(in, n_data_bits) ==
  LET newest(state, i) ==
        LET g == IF in[2 * i - 1] # 2 THEN 1 ELSE 2
        IN Xor(Parity(Shifted(state, 0), g), in[2 * (i - 1) + g])
      step == [i \in 1..n_data_bits |-> [state \in 0..127 |-> Shifted(state, newest(state, i))]]
      states == Passes(0..127, step, 0, n_data_bits)
  IN [i \in 1..n_data_bits |-> newest(states[i - 1], i)]

(* A bug: the first bit is taken for the lowest one. *)
descramble_LowFirst(in, psdu_size) ==
  Whitened(SubSeq(in, 8, 8 * psdu_size + 16), Number(SubSeq(in, 1, 7)))

(* descramble: the first seven bits are the state of the scrambler after    *)
(* them; what follows them is descrambled up to the end of the PSDU.        *)
descramble(in, psdu_size) ==
  Whitened(SubSeq(in, 8, 8 * psdu_size + 16), Number([k \in 1..7 |-> in[8 - k]]))

(* The bytes of the PSDU that decode() passes on, counted from the 8th bit  *)
(* on because descramble starts there.                                      *)
out_bytes(descrambled, psdu_size) ==
  [i \in 1..psdu_size |-> Number([b \in 1..8 |-> descrambled[8 * i + b + 1]])]
=============================================================================
