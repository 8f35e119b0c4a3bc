-------------------------------- MODULE Ofdm --------------------------------
(***************************************************************************)
(* The parameters of an encoding and of a frame: ofdm_param and frame_param  *)
(* (src/lib/utils.cc), and the limits of src/lib/utils.h.  Encodings are     *)
(* numbered as in mapper.h: BPSK_1_2 = 0 ... QAM64_3_4 = 7.                  *)
(***************************************************************************)
EXTENDS Integers

Encoding == 0..7

(* Coded bits per subcarrier, coded and data bits per symbol, and the rate  *)
(* field of the SIGNAL symbol.                                              *)
ofdm_param ==
  [e \in Encoding |->
     CASE e = 0 -> [n_bpsc |-> 1, n_cbps |-> 48,  n_dbps |-> 24,  rate_field |-> 13]
       [] e = 1 -> [n_bpsc |-> 1, n_cbps |-> 48,  n_dbps |-> 36,  rate_field |-> 15]
       [] e = 2 -> [n_bpsc |-> 2, n_cbps |-> 96,  n_dbps |-> 48,  rate_field |-> 5]
       [] e = 3 -> [n_bpsc |-> 2, n_cbps |-> 96,  n_dbps |-> 72,  rate_field |-> 7]
       [] e = 4 -> [n_bpsc |-> 4, n_cbps |-> 192, n_dbps |-> 96,  rate_field |-> 9]
       [] e = 5 -> [n_bpsc |-> 4, n_cbps |-> 192, n_dbps |-> 144, rate_field |-> 11]
       [] e = 6 -> [n_bpsc |-> 6, n_cbps |-> 288, n_dbps |-> 192, rate_field |-> 1]
       [] e = 7 -> [n_bpsc |-> 6, n_cbps |-> 288, n_dbps |-> 216, rate_field |-> 3]]

(* Service, PSDU and tail bits of a frame.                                  *)
PayloadBits(psdu_size) == 16 + 8 * psdu_size + 6

CeilDiv(x, y) == (x + y - 1) \div y

NSym(e, psdu_size) == CeilDiv(PayloadBits(psdu_size), ofdm_param[e].n_dbps)

frame_param(e, psdu_size) ==
  LET n_sym == NSym(e, psdu_size)
  IN [psdu_size |-> psdu_size,
      n_sym |-> n_sym,
      n_data_bits |-> n_sym * ofdm_param[e].n_dbps,
      n_pad |-> n_sym * ofdm_param[e].n_dbps - PayloadBits(psdu_size),
      n_encoded_bits |-> n_sym * ofdm_param[e].n_cbps]

(* MAX_SYM and MAX_ENCODED_BITS as functions of MAX_PSDU_SIZE.              *)
MaxSym(max_psdu) == PayloadBits(max_psdu) \div 24 + 1
MaxEncodedBits(max_psdu) == PayloadBits(max_psdu) * 2 + 288
=============================================================================
