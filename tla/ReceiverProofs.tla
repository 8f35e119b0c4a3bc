--------------------------- MODULE ReceiverProofs ---------------------------
(***************************************************************************)
(* The receiver behind the synchronizers.  First the sizes of a frame: the *)
(* buffers of utils.h:28-29 hold every frame that decode_mac accepts.  Then*)
(* frame_equalizer: each symbol is equalized with the estimate of its own  *)
(* frame, for all headers, frame lengths and cuts into calls.  Then        *)
(* soft_frame_equalizer: it reads and writes as frame_equalizer does, and  *)
(* its interference flag and its noise vector stay within their frame.     *)
(* Last decode_mac behind frame_equalizer: it stays inside its buffers,    *)
(* and decodes every frame that fits once, in order and from its own       *)
(* symbols, for all turns of the two threads.                              *)
(***************************************************************************)
EXTENDS SoftEqualizer, RxFraming, WellFoundedInduction, TLAPS

(* What the table of encodings says, as numbers.                            *)
LEMMA Parameters ==
  ASSUME NEW e \in Encoding
  PROVE  \/ ofdm_param[e].n_cbps = 48 /\ ofdm_param[e].n_dbps = 24
         \/ ofdm_param[e].n_cbps = 48 /\ ofdm_param[e].n_dbps = 36
         \/ ofdm_param[e].n_cbps = 96 /\ ofdm_param[e].n_dbps = 48
         \/ ofdm_param[e].n_cbps = 96 /\ ofdm_param[e].n_dbps = 72
         \/ ofdm_param[e].n_cbps = 192 /\ ofdm_param[e].n_dbps = 96
         \/ ofdm_param[e].n_cbps = 192 /\ ofdm_param[e].n_dbps = 144
         \/ ofdm_param[e].n_cbps = 288 /\ ofdm_param[e].n_dbps = 192
         \/ ofdm_param[e].n_cbps = 288 /\ ofdm_param[e].n_dbps = 216
<1>1. e \in 0..7
  BY DEF Encoding
<1>2. CASE e = 0
  BY <1>2 DEF ofdm_param, Encoding
<1>3. CASE e = 1
  BY <1>3 DEF ofdm_param, Encoding
<1>4. CASE e = 2
  BY <1>4 DEF ofdm_param, Encoding
<1>5. CASE e = 3
  BY <1>5 DEF ofdm_param, Encoding
<1>6. CASE e = 4
  BY <1>6 DEF ofdm_param, Encoding
<1>7. CASE e = 5
  BY <1>7 DEF ofdm_param, Encoding
<1>8. CASE e = 6
  BY <1>8 DEF ofdm_param, Encoding
<1>9. CASE e = 7
  BY <1>9 DEF ofdm_param, Encoding
<1>10. QED
  BY <1>1, <1>2, <1>3, <1>4, <1>5, <1>6, <1>7, <1>8, <1>9

(* A symbol count never rounds up by a whole symbol.                        *)
SymbolSizes == {24, 36, 48, 72, 96, 144, 192, 216}

LEMMA RoundedUp ==
  ASSUME NEW x \in Nat, NEW y \in SymbolSizes
  PROVE  CeilDiv(x, y) \in Nat /\ y * CeilDiv(x, y) <= x + y - 1
BY DEF CeilDiv, SymbolSizes

(* So the data bits of a frame exceed its payload by less than a symbol.     *)
LEMMA SymbolsOfFrame ==
  ASSUME NEW e \in Encoding, NEW n \in Nat
  PROVE  /\ NSym(e, n) \in Nat
         /\ ofdm_param[e].n_dbps * NSym(e, n) <= PayloadBits(n) + ofdm_param[e].n_dbps - 1
<1>1. ofdm_param[e].n_dbps \in SymbolSizes
  BY Parameters DEF SymbolSizes
<1>2. PayloadBits(n) \in Nat
  BY DEF PayloadBits
<1>3. QED
  BY <1>1, <1>2, RoundedUp, Zenon DEF NSym

(* A PSDU of at most max bytes has at most MAX_SYM symbols in every encoding *)
(* (the first check of decode_mac.cc:84 is implied by the second), and its   *)
(* coded bits fit d_rx_bits and d_deinterleaved_bits (decode_mac.cc:263-265) *)
(* whatever MAX_PSDU_SIZE is.                                               *)
THEOREM CodedBitsFit ==
  ASSUME NEW e \in Encoding, NEW max \in Nat, NEW n \in 0..max
  PROVE  /\ frame_param(e, n).n_sym <= MaxSym(max)
         /\ frame_param(e, n).n_encoded_bits <= MaxEncodedBits(max)
<1> DEFINE cbps == ofdm_param[e].n_cbps
           dbps == ofdm_param[e].n_dbps
           x == PayloadBits(n)
<1>1. /\ frame_param(e, n).n_sym = CeilDiv(x, dbps)
      /\ frame_param(e, n).n_encoded_bits = CeilDiv(x, dbps) * cbps
  BY DEF frame_param, NSym
<1>2. \/ cbps = 48 /\ dbps = 24
      \/ cbps = 48 /\ dbps = 36
      \/ cbps = 96 /\ dbps = 48
      \/ cbps = 96 /\ dbps = 72
      \/ cbps = 192 /\ dbps = 96
      \/ cbps = 192 /\ dbps = 144
      \/ cbps = 288 /\ dbps = 192
      \/ cbps = 288 /\ dbps = 216
  BY Parameters
<1>3. x \in Nat /\ x = 22 + 8 * n /\ x <= 22 + 8 * max
  BY DEF PayloadBits
<1> DEFINE s == CeilDiv(x, dbps)
<1>4. s \in Nat /\ dbps * s <= x + dbps - 1
  BY SymbolsOfFrame DEF NSym
<1> HIDE DEF cbps, dbps, x, s
<1>5. s * cbps <= 2 * x + 288
  BY <1>2, <1>3, <1>4
<1>6. s <= MaxSym(max)
  <2>1. dbps >= 24 /\ 24 * s <= x + 23
    BY <1>2, <1>3, <1>4
  <2>2. s <= (22 + 8 * max) \div 24 + 1
    BY <2>1, <1>3, <1>4
  <2>3. QED
    BY <2>2 DEF MaxSym, PayloadBits
<1>7. QED
  <2>1. s * cbps <= MaxEncodedBits(max)
    BY <1>2, <1>3, <1>4, <1>5 DEF MaxEncodedBits, PayloadBits
  <2>2. QED
    BY <1>1, <1>6, <2>1 DEF s

(* With MAX_PSDU_SIZE 1528 the depunctured bits of an accepted frame fit     *)
(* d_depunctured (viterbi_decoder.h:69), which has no more room than the     *)
(* coded bits need: this holds for the size of utils.h:27, not for every.    *)
THEOREM DepuncturedBitsFit ==
  ASSUME NEW e \in Encoding, NEW n \in 0..1528
  PROVE  2 * frame_param(e, n).n_data_bits <= MaxEncodedBits(1528)
<1> DEFINE dbps == ofdm_param[e].n_dbps
           x == PayloadBits(n)
<1>1. frame_param(e, n).n_data_bits = CeilDiv(x, dbps) * dbps
  BY DEF frame_param, NSym
<1>2. dbps \in {24, 36, 48, 72, 96, 144, 192, 216}
  BY Parameters
<1>3. x \in Nat /\ x <= 12246
  BY DEF PayloadBits
<1> DEFINE s == CeilDiv(x, dbps)
<1>4. s \in Nat /\ dbps * s <= x + dbps - 1
  BY SymbolsOfFrame DEF NSym
<1> HIDE DEF dbps, x, s
<1>5. 2 * (s * dbps) <= 24780
  BY <1>2, <1>3, <1>4
<1>6. QED
  BY <1>1, <1>5 DEF s, MaxEncodedBits, PayloadBits

(* The soft decoder has one column of d_inputs and d_survivors for each data *)
(* bit, 12264 of them (soft_viterbi_decoder.h:40-41), and decode_mac_soft    *)
(* asks it for n_dbps * n_sym bits (decode_mac_soft.cc:147): that fits for   *)
(* BPSK 1/2, the only encoding it decodes, without any depuncturing.  It does*)
(* not for all that a SIGNAL symbol may announce (BPSK 3/4: up to 12276).    *)
THEOREM SoftBitsFit ==
  ASSUME NEW n \in 0..1528
  PROVE  frame_param(0, n).n_data_bits <= 12264
<1> DEFINE x == PayloadBits(n)
           s == CeilDiv(x, 24)
<1>1. ofdm_param[0].n_dbps = 24
  BY DEF ofdm_param, Encoding
<1>2. frame_param(0, n).n_data_bits = s * 24
  BY <1>1 DEF frame_param, NSym
<1>3. x \in Nat /\ x <= 12246
  BY DEF PayloadBits
<1>4. s \in Nat /\ 24 * s <= x + 23
  BY <1>3, RoundedUp DEF SymbolSizes
<1> HIDE DEF x, s
<1>5. s * 24 <= 12264
  BY <1>3, <1>4
<1>6. QED
  BY <1>2, <1>5

-----------------------------------------------------------------------------

FrameRecord == [header : Headers, vectors : 1..MaxVectors]
OutRecord   == [frame : 1..MaxFrames, pos : Int,
                est : (0..MaxFrames) \X (0..MaxFrames)]

Types ==
  /\ sent \in Seq(FrameRecord) /\ frame \in 1..MaxFrames
  /\ d_current_symbol \in 0..MaxVectors
  /\ d_frame_symbols \in Nat
  /\ d_H \in (0..MaxFrames) \X (0..MaxFrames)
  /\ nwritten \in Nat
  /\ pc \in {"idle", "loop"}
  /\ ninput \in 0..MaxCall /\ i \in 0..ninput
  /\ noutput \in 0..MaxRoom /\ o \in 0..noutput
  /\ pc = "idle" => o = 0 /\ i = 0
  /\ out \in Seq(OutRecord)
  /\ Len(out) = nwritten + o

(* The count of vectors goes with the frame until it stops behind its last   *)
(* data symbol.                                                              *)
Counted ==
  vector > 0 => \/ d_current_symbol = vector
                \/ d_current_symbol \in 3..vector /\ d_current_symbol > d_frame_symbols + 2

(* How far the estimate is made: a replaced equalizer is excused.            *)
Estimated ==
  frame \notin switched =>
    /\ vector > 0 => d_H[1] = frame
    /\ vector > 1 => d_H[2] = frame

IInv == Types /\ Counted /\ Estimated /\ EstimateOfFrame

-----------------------------------------------------------------------------
(* The vector at the read position is a number, and so is what the loop body *)
(* takes for it.                                                             *)
LEMMA VectorNumber ==
  ASSUME Types, Counted
  PROVE  /\ sent[frame] \in FrameRecord /\ sent[frame].header \in Headers
         /\ vector \in 0..MaxVectors - 1
         /\ symbol \in 0..vector /\ symbols \in Nat
         /\ vector = 0 <=> symbol = 0
         /\ vector = 1 <=> symbol = 1
         /\ symbol = vector \/ symbol > symbols + 2
<1>1. frame \in 1..Len(sent)
  BY DEF Types, frame
<1>2. sent[frame] \in FrameRecord
  BY <1>1 DEF Types
<1>3. sent[frame].header \in Headers /\ sent[frame].vectors \in 1..MaxVectors
  BY <1>2 DEF FrameRecord
<1>4. vector \in 0..MaxVectors - 1
  BY <1>3, EqualizerAssumption DEF EqualizerAssumption, vector
<1>5. QED
  BY <1>2, <1>3, <1>4, EqualizerAssumption
  DEF EqualizerAssumption, Types, Counted, symbol, symbols

LEMMA HeaderSymbols ==
  ASSUME NEW h \in Headers
  PROVE  NSym(h.encoding, h.bytes) \in Nat
<1> DEFINE Sizes == 0..4095
<1>1. \A b \in Sizes : b \in Nat
  OBVIOUS
<1>2. h \in [ok : BOOLEAN, encoding : Encoding, bytes : Sizes]
  BY EqualizerAssumption DEF EqualizerAssumption
<1> HIDE DEF Sizes
<1>3. h.encoding \in Encoding /\ h.bytes \in Nat
  BY <1>1, <1>2
<1>4. QED
  BY <1>3, SymbolsOfFrame

(* The next vector is the next of the same frame or the first of the next.   *)
LEMMA NextVector ==
  ASSUME Types, Counted, Advance
  PROVE  /\ sent' \in Seq(FrameRecord) /\ frame' \in 1..MaxFrames
         /\ \/ frame' = frame /\ vector' = vector + 1
            \/ frame' = frame + 1 /\ vector' = 0
<1> USE EqualizerAssumption DEF EqualizerAssumption
<1>0. sent[frame] \in FrameRecord /\ frame \in 1..Len(sent) /\ frame = Len(sent)
  BY VectorNumber DEF Types, frame
<1>1. CASE /\ sent[frame].vectors < MaxVectors
           /\ sent' = [sent EXCEPT ![frame].vectors = @ + 1]
  <2> DEFINE f == [sent[frame] EXCEPT !.vectors = @ + 1]
  <2>1. f \in FrameRecord /\ f.vectors = sent[frame].vectors + 1
    BY <1>0, <1>1 DEF FrameRecord
  <2>2. sent' = [sent EXCEPT ![frame] = f]
    BY <1>1
  <2> HIDE DEF f
  <2>3. sent' \in Seq(FrameRecord) /\ Len(sent') = Len(sent) /\ sent'[frame] = f
    BY <1>0, <2>1, <2>2 DEF Types
  <2>4. frame' = frame
    BY <2>3 DEF frame
  <2>5. vector' = f.vectors - 1
    BY <2>3, <2>4 DEF vector
  <2>6. sent[frame].vectors \in Int
    BY <1>0 DEF FrameRecord
  <2>7. vector' = vector + 1
    BY <2>1, <2>5, <2>6 DEF vector
  <2>8. QED
    BY <2>3, <2>4, <2>7 DEF Types
<1>2. CASE frame < MaxFrames /\ \E f \in NewFrames : sent' = Append(sent, f)
  <2>1. PICK f \in NewFrames : sent' = Append(sent, f)
    BY <1>2
  <2>2. f \in FrameRecord /\ f.vectors = 1
    BY DEF NewFrames, FrameRecord
  <2>3. sent' \in Seq(FrameRecord) /\ Len(sent') = Len(sent) + 1
        /\ sent'[Len(sent) + 1] = f
    BY <2>1, <2>2 DEF Types
  <2>4. frame' = frame + 1
    BY <2>3 DEF frame
  <2>5. vector' = 0
    BY <1>0, <2>2, <2>3, <2>4 DEF vector
  <2>6. QED
    BY <1>2, <2>3, <2>4, <2>5 DEF Types
<1>3. QED
  BY <1>1, <1>2 DEF Advance

-----------------------------------------------------------------------------
LEMMA InvInitially == Init => IInv
<1> SUFFICES ASSUME Init PROVE IInv
  OBVIOUS
<1> USE EqualizerAssumption DEF EqualizerAssumption
<1>1. PICK f \in NewFrames : sent = <<f>>
  BY DEF Init
<1>2. f \in FrameRecord /\ f.vectors = 1
  BY DEF NewFrames, FrameRecord
<1>3. sent \in Seq(FrameRecord) /\ frame = 1 /\ vector = 0
  BY <1>1, <1>2 DEF frame, vector
<1>4. d_H \in (0..MaxFrames) \X (0..MaxFrames)
  BY DEF Init
<1>5. Types
  BY <1>3, <1>4 DEF Init, Types
<1>6. QED
  BY <1>3, <1>5 DEF Init, IInv, Counted, Estimated, EstimateOfFrame

(* What the loop body leaves in the estimate.                                *)
LEMMA EstimateMade ==
  ASSUME IInv, equalize
  PROVE  /\ d_H' \in (0..MaxFrames) \X (0..MaxFrames)
         /\ frame \notin switched =>
              d_H'[1] = frame /\ (vector > 0 => d_H'[2] = frame)
<1>1. frame \in 0..MaxFrames /\ d_H \in (0..MaxFrames) \X (0..MaxFrames)
  BY EqualizerAssumption DEF EqualizerAssumption, IInv, Types
<1>2. vector \in Nat /\ (vector = 0 <=> symbol = 0) /\ (vector = 1 <=> symbol = 1)
  BY VectorNumber DEF IInv
<1>3. CASE symbol = 0
  <2>1. d_H' = <<frame, 0>> /\ vector = 0
    BY <1>2, <1>3 DEF equalize
  <2>2. 0 \in 0..MaxFrames
    BY EqualizerAssumption DEF EqualizerAssumption
  <2>3. QED
    BY <1>1, <2>1, <2>2
<1>4. CASE symbol = 1
  <2>1. d_H' = <<d_H[1], frame>> /\ vector = 1
    BY <1>2, <1>4 DEF equalize
  <2>2. d_H[1] \in 0..MaxFrames
    BY <1>1
  <2>3. d_H' \in (0..MaxFrames) \X (0..MaxFrames) /\ d_H'[1] = d_H[1] /\ d_H'[2] = frame
    BY <1>1, <2>1, <2>2
  <2>4. frame \notin switched => d_H[1] = frame
    BY <2>1 DEF IInv, Estimated
  <2>5. QED
    BY <2>3, <2>4
<1>5. CASE symbol \notin {0, 1}
  <2>1. d_H' = d_H /\ vector > 1
    BY <1>2, <1>5 DEF equalize
  <2>2. frame \notin switched => d_H[1] = frame /\ d_H[2] = frame
    BY <1>2, <2>1 DEF IInv, Estimated
  <2>3. QED
    BY <1>1, <2>1, <2>2
<1>6. QED
  BY <1>3, <1>4, <1>5

(* The part of the loop body that all symbols share.                         *)
LEMMA BodyKeeps ==
  ASSUME IInv, Body,
         d_frame_symbols' \in Nat, symbol < 2 \/ symbol > 2 => d_frame_symbols' = symbols
  PROVE  /\ sent' \in Seq(FrameRecord) /\ frame' \in 1..MaxFrames
         /\ d_current_symbol' \in 0..MaxVectors
         /\ d_H' \in (0..MaxFrames) \X (0..MaxFrames)
         /\ i' \in 0..ninput /\ o \in 0..noutput - 1 /\ pc = "loop"
         /\ UNCHANGED <<nwritten, pc, ninput, noutput, switched>>
         /\ symbol = vector
         /\ Counted' /\ Estimated'
<1> USE EqualizerAssumption DEF EqualizerAssumption
<1>1. Types /\ Counted /\ Estimated
  BY DEF IInv
<1>2. Advance /\ equalize /\ Looping /\ ~Skipped /\ i' = i + 1
      /\ d_current_symbol' = symbol + 1
      /\ UNCHANGED <<nwritten, pc, ninput, noutput, switched>>
  BY DEF Body
<1>3. /\ vector \in 0..MaxVectors - 1 /\ symbols \in Nat
      /\ symbol = vector
  BY <1>1, <1>2, VectorNumber DEF Skipped
<1>4. /\ sent' \in Seq(FrameRecord) /\ frame' \in 1..MaxFrames
      /\ \/ frame' = frame /\ vector' = vector + 1
         \/ frame' = frame + 1 /\ vector' = 0
  BY <1>1, <1>2, NextVector
<1>5. i' \in 0..ninput /\ o \in 0..noutput - 1 /\ pc = "loop"
  BY <1>1, <1>2 DEF Looping, Types
<1>6. d_current_symbol' \in 0..MaxVectors
  BY <1>2, <1>3
<1>7. Counted'
  <2>1. vector' > 0 => d_current_symbol' = vector'
    BY <1>2, <1>3, <1>4
  <2>2. QED
    BY <2>1 DEF Counted
<1>8. Estimated'
  <2>1. /\ d_H' \in (0..MaxFrames) \X (0..MaxFrames)
        /\ frame \notin switched =>
             d_H'[1] = frame /\ (vector > 0 => d_H'[2] = frame)
    BY <1>2, EstimateMade
  <2>2. QED
    BY <1>2, <1>3, <1>4, <2>1 DEF Estimated
<1>9. QED
  BY <1>2, <1>3, <1>4, <1>5, <1>6, <1>7, <1>8, EstimateMade

LEMMA InvKept == IInv /\ [Next]_eqVars => IInv'
<1> SUFFICES ASSUME IInv, [Next]_eqVars PROVE IInv'
  OBVIOUS
<1> USE EqualizerAssumption DEF EqualizerAssumption
<1>0. Types /\ Counted /\ Estimated /\ EstimateOfFrame
  BY DEF IInv
<1>a. ASSUME UNCHANGED <<sent, out, d_current_symbol, d_frame_symbols>>
      PROVE  frame' = frame /\ vector' = vector /\ (Counted => Counted')
  BY <1>a DEF frame, vector, Counted
<1>1. CASE Call
  <2>1. Types'
    BY <1>0, <1>1 DEF Call, Types, frame
  <2>2. QED
    BY <1>0, <1>1, <1>a, <2>1 DEF Call, IInv, Estimated, EstimateOfFrame
<1>2. CASE Skip
  <2>1. /\ vector \in Nat /\ symbol \in 0..vector /\ symbols \in Nat
        /\ vector = 0 <=> symbol = 0
    BY <1>0, VectorNumber
  <2>2. vector > 2 /\ d_current_symbol \in 3..vector /\ d_current_symbol > d_frame_symbols + 2
    BY <1>0, <1>2, <2>1 DEF Skip, Skipped, symbol, symbols, Types
  <2>3. /\ sent' \in Seq(FrameRecord) /\ frame' \in 1..MaxFrames
        /\ \/ frame' = frame /\ vector' = vector + 1
           \/ frame' = frame + 1 /\ vector' = 0
    BY <1>0, <1>2, NextVector DEF Skip
  <2>4. Types'
    BY <1>0, <1>2, <2>3 DEF Skip, Looping, Types
  <2>5. UNCHANGED <<d_current_symbol, d_frame_symbols, d_H, out, switched>>
    BY <1>2 DEF Skip
  <2>6. Counted'
    <3>1. vector' > 0 => d_current_symbol \in 3..vector'
      BY <2>1, <2>2, <2>3
    <3>2. QED
      BY <2>2, <2>5, <3>1 DEF Counted
  <2>7. Estimated'
    BY <1>0, <2>1, <2>2, <2>3, <2>5 DEF Estimated
  <2>8. EstimateOfFrame'
    BY <1>0, <2>5 DEF EstimateOfFrame
  <2>9. QED
    BY <2>4, <2>6, <2>7, <2>8 DEF IInv
<1>3. CASE Training
  <2>1. symbols \in Nat
    BY <1>0, VectorNumber
  <2>2. Body /\ symbol < 2 /\ d_frame_symbols' = symbols /\ UNCHANGED <<o, out, outTags>>
    BY <1>3 DEF Training
  <2>3. Types' /\ Counted' /\ Estimated'
    BY <1>0, <2>1, <2>2, BodyKeeps DEF Types
  <2>4. QED
    BY <1>0, <2>2, <2>3 DEF Body, IInv, EstimateOfFrame
<1>4. CASE Signal
  <2>1. symbols \in Nat /\ sent[frame].header \in Headers
    BY <1>0, VectorNumber
  <2>2. Body /\ symbol = 2 /\ UNCHANGED <<o, out>>
    BY <1>4 DEF Signal
  <2>3. d_frame_symbols' \in Nat
    BY <1>4, <2>1, HeaderSymbols DEF Signal
  <2>4. Types' /\ Counted' /\ Estimated'
    BY <1>0, <2>2, <2>3, BodyKeeps DEF Types
  <2>5. QED
    BY <1>0, <2>2, <2>4 DEF Body, IInv, EstimateOfFrame
<1>5. CASE Data
  <2> DEFINE s == [frame |-> frame, pos |-> vector - 3, est |-> d_H]
  <2>1. symbols \in Nat /\ vector \in 0..MaxVectors - 1
    BY <1>0, VectorNumber
  <2>2. Body /\ symbol > 2 /\ out' = Append(out, s) /\ o' = o + 1
        /\ d_frame_symbols' = symbols
    BY <1>5 DEF Data
  <2>3. s \in OutRecord
    BY <1>0, <2>1 DEF Types, OutRecord
  <2>4. s.est = d_H /\ s.frame = frame
    OBVIOUS
  <2> HIDE DEF s
  <2>a. out \in Seq(OutRecord) /\ out' = Append(out, s)
    BY <1>0, <2>2 DEF Types
  <2>5. out' \in Seq(OutRecord) /\ Len(out') = Len(out) + 1
        /\ out'[Len(out) + 1] = s /\ \A k \in DOMAIN out : out'[k] = out[k]
    BY <2>3, <2>a
  <2>6. vector = symbol /\ Counted' /\ Estimated' /\ switched' = switched
    BY <2>1, <2>2, BodyKeeps
  <2>7. Types'
    BY <1>0, <2>1, <2>2, <2>5, BodyKeeps DEF Types
  <2>8. s.est = <<s.frame, s.frame>> \/ s.frame \in switched
    BY <1>0, <2>1, <2>2, <2>4, <2>6 DEF Estimated, Types
  <2>9. EstimateOfFrame'
    <3> SUFFICES ASSUME NEW k \in DOMAIN out'
                 PROVE  out'[k].est = <<out'[k].frame, out'[k].frame>>
                        \/ out'[k].frame \in switched
      BY <2>6 DEF EstimateOfFrame
    <3>1. k \in DOMAIN out \/ k = Len(out) + 1
      BY <1>0, <2>5 DEF Types
    <3>2. QED
      BY <1>0, <2>5, <2>8, <3>1 DEF EstimateOfFrame
  <2>10. QED
    BY <2>6, <2>7, <2>9 DEF IInv
<1>6. CASE Return
  <2>1. Types'
    BY <1>0, <1>6 DEF Return, Types, frame
  <2>2. QED
    BY <1>0, <1>6, <1>a, <2>1 DEF Return, IInv, Estimated, EstimateOfFrame
<1>7. CASE set_algorithm
  <2>1. d_H' \in (0..MaxFrames) \X (0..MaxFrames)
    BY <1>7 DEF set_algorithm
  <2>2. Types'
    BY <1>0, <1>7, <2>1 DEF set_algorithm, Types, frame
  <2>3. vector \in Nat /\ switched \subseteq switched'
        /\ (vector > 0 => frame \in switched')
    BY <1>0, <1>7, VectorNumber DEF set_algorithm
  <2>4. Estimated' /\ EstimateOfFrame'
    BY <1>0, <1>7, <1>a, <2>3 DEF set_algorithm, Estimated, EstimateOfFrame
  <2>5. QED
    BY <1>0, <1>7, <1>a, <2>2, <2>4 DEF set_algorithm, IInv
<1>8. CASE UNCHANGED eqVars
  BY <1>0, <1>8 DEF eqVars, IInv, Types, Counted, Estimated, EstimateOfFrame, frame, vector
<1>9. QED
  BY <1>1, <1>2, <1>3, <1>4, <1>5, <1>6, <1>7, <1>8 DEF Next

LEMMA TypesSuffice == IInv => TypeOK
<1> SUFFICES ASSUME IInv PROVE TypeOK
  OBVIOUS
<1>1. \A f \in 1..frame : sent[f] \in FrameRecord
  BY DEF IInv, Types, frame
<1>2. \A f \in 1..frame : sent[f].header \in Headers /\ sent[f].vectors \in 1..MaxVectors
  BY <1>1 DEF FrameRecord
<1>3. QED
  BY <1>2 DEF IInv, Types, TypeOK

(* The state of frame_equalizer has its types, whatever is received.         *)
THEOREM EqualizerTypeCorrect == Spec => []TypeOK
<1>1. Init => IInv
  BY InvInitially
<1>2. IInv /\ [Next]_eqVars => IInv'
  BY InvKept
<1>3. IInv => TypeOK
  BY TypesSuffice
<1>4. QED
  BY <1>1, <1>2, <1>3, PTL DEF Spec

(* Each symbol is equalized with the training symbols of its own frame: no   *)
(* frame length, no frame cut short before or within its training, and no    *)
(* cut into calls mixes two frames, unless set_algorithm replaced the        *)
(* equalizer during the frame (frame_equalizer_impl.cc:127-205, ls.cc:24-58).*)
THEOREM EstimateIsOfFrame == Spec => []EstimateOfFrame
<1>1. Init => IInv
  BY InvInitially
<1>2. IInv /\ [Next]_eqVars => IInv'
  BY InvKept
<1>3. IInv => EstimateOfFrame
  BY DEF IInv
<1>4. QED
  BY <1>1, <1>2, <1>3, PTL DEF Spec
-----------------------------------------------------------------------------
(* Which symbols are written and where their tags are.                      *)
TagRecord == [offset : Nat, frame : 1..MaxFrames, header : Headers]

(* The length of the frame is that of its SIGNAL symbol once it was read.    *)
SignalRead ==
  /\ vector \in 1..2 => d_frame_symbols = 0
  /\ vector > 2 => d_frame_symbols = Symbols(frame)

(* The symbols of frame f start behind the first s, and those of the current *)
(* frame are the last ones.                                                 *)
Placed(f, s) == IsRun(out, f, s, Arrived(f)) /\ (f = frame => s + Arrived(f) = Len(out))

Emitted ==
  /\ \A f \in 1..frame : \E s \in 0..Len(out) : Placed(f, s)
  /\ \A k \in DOMAIN out : out[k].frame \in 1..frame

Tagged ==
  /\ outTags \in Seq(TagRecord)
  /\ \A t \in DOMAIN outTags :
       /\ outTags[t].frame \in 1..frame
       /\ outTags[t].frame = frame => vector > 2
       /\ Placed(outTags[t].frame, outTags[t].offset)
  /\ \A k \in DOMAIN out : \E t \in DOMAIN outTags : outTags[t].frame = out[k].frame
  /\ vector > 2 /\ sent[frame].header.ok =>
       \E t \in DOMAIN outTags : outTags[t].frame = frame

EInv == SignalRead /\ Emitted /\ Tagged

(* A run stays what it is when a symbol of another frame is written, grows   *)
(* by the next symbol of its own, and starts anywhere while it is empty.     *)
LEMMA RunStays ==
  ASSUME NEW w \in Seq(OutRecord), NEW r \in OutRecord, NEW f, NEW s \in Nat, NEW n \in Nat,
         IsRun(w, f, s, n), r.frame # f
  PROVE  IsRun(Append(w, r), f, s, n)
<1> DEFINE v == Append(w, r)
<1>1. /\ Len(v) = Len(w) + 1 /\ Len(w) \in Nat /\ v[Len(w) + 1] = r
      /\ \A k \in 1..Len(w) : v[k] = w[k]
      /\ DOMAIN w = 1..Len(w) /\ DOMAIN v = 1..Len(w) + 1
  OBVIOUS
<1> HIDE DEF v
<1>2. s + n <= Len(w) /\ s <= Len(w)
  BY <1>1 DEF IsRun
<1>3. ASSUME NEW k \in 1..Len(w) + 1
      PROVE  /\ v[k].frame = f <=> k \in s + 1..s + n
             /\ v[k].frame = f => v[k].pos = k - s - 1
  <2>1. CASE k \in 1..Len(w)
    BY <1>1, <2>1 DEF IsRun
  <2>2. CASE k = Len(w) + 1
    BY <1>1, <1>2, <2>2
  <2>3. QED
    BY <1>1, <2>1, <2>2
<1>4. s \in 0..Len(v) - n
  BY <1>1, <1>2
<1>5. IsRun(v, f, s, n)
  BY <1>1, <1>3, <1>4 DEF IsRun
<1>6. QED
  BY <1>5 DEF v

LEMMA RunGrows ==
  ASSUME NEW w \in Seq(OutRecord), NEW r \in OutRecord, NEW f, NEW s \in Nat, NEW n \in Nat,
         IsRun(w, f, s, n), r.frame = f, r.pos = n, s + n = Len(w)
  PROVE  IsRun(Append(w, r), f, s, n + 1)
<1> DEFINE v == Append(w, r)
<1>1. /\ Len(v) = Len(w) + 1 /\ Len(w) \in Nat /\ v[Len(w) + 1] = r
      /\ \A k \in 1..Len(w) : v[k] = w[k]
      /\ DOMAIN w = 1..Len(w) /\ DOMAIN v = 1..Len(w) + 1
  OBVIOUS
<1> HIDE DEF v
<1>2. ASSUME NEW k \in 1..Len(w) + 1
      PROVE  /\ v[k].frame = f <=> k \in s + 1..s + (n + 1)
             /\ v[k].frame = f => v[k].pos = k - s - 1
  <2>1. CASE k \in 1..Len(w)
    <3>1. v[k] = w[k] /\ k \in DOMAIN w
      BY <1>1, <2>1
    <3>2. k \in s + 1..s + n <=> k \in s + 1..s + (n + 1)
      BY <1>1, <2>1
    <3>3. QED
      BY <3>1, <3>2 DEF IsRun
  <2>2. CASE k = Len(w) + 1
    <3>1. v[k].frame = f /\ v[k].pos = n
      BY <1>1, <2>2
    <3>2. k \in s + 1..s + (n + 1) /\ n = k - s - 1
      BY <1>1, <2>2
    <3>3. QED
      BY <3>1, <3>2
  <2>3. QED
    BY <1>1, <2>1, <2>2
<1>3. s \in 0..Len(v) - (n + 1)
  BY <1>1
<1>4. IsRun(v, f, s, n + 1)
  BY <1>1, <1>2, <1>3 DEF IsRun
<1>5. QED
  BY <1>4 DEF v

LEMMA RunEmpty ==
  ASSUME NEW w \in Seq(OutRecord), NEW f, \A k \in DOMAIN w : w[k].frame # f
  PROVE  IsRun(w, f, Len(w), 0)
<1>1. Len(w) \in Nat /\ \A k \in DOMAIN w : k \notin Len(w) + 1..Len(w) + 0
  OBVIOUS
<1>2. QED
  BY <1>1 DEF IsRun

(* A count that is cut off at a and at 0.                                   *)
LEMMA Cut ==
  ASSUME NEW a \in Nat, NEW b \in Int
  PROVE  Min({a, Max({b, 0})}) = IF b < 0 THEN 0 ELSE IF b < a THEN b ELSE a
<1>1. PICK m \in {b, 0} : m = Max({b, 0}) /\ \A y \in {b, 0} : m >= y
  <2>1. \E m \in {b, 0} : \A y \in {b, 0} : m >= y
    OBVIOUS
  <2>2. QED
    BY <2>1 DEF Max
<1>2. m = IF b < 0 THEN 0 ELSE b
  BY <1>1
<1>3. PICK n \in {a, m} : n = Min({a, m}) /\ \A y \in {a, m} : n <= y
  <2>1. \E n \in {a, m} : \A y \in {a, m} : n <= y
    BY <1>2
  <2>2. QED
    BY <2>1 DEF Min
<1>4. QED
  BY <1>1, <1>2, <1>3

(* Each frame has a number of symbols.                                      *)
LEMMA SymbolsOfSent ==
  ASSUME Types, NEW f \in 1..frame
  PROVE  /\ sent[f] \in FrameRecord /\ sent[f].header \in Headers
         /\ sent[f].vectors \in 1..MaxVectors
         /\ Symbols(f) \in Nat
<1>1. sent[f] \in FrameRecord
  BY DEF Types, frame
<1>2. sent[f].header \in Headers /\ sent[f].vectors \in 1..MaxVectors
  BY <1>1 DEF FrameRecord
<1>3. NSym(sent[f].header.encoding, sent[f].header.bytes) \in Nat
  BY <1>2, HeaderSymbols
<1>4. QED
  BY <1>1, <1>2, <1>3 DEF Symbols

(* The frames that are over keep their vectors when the next one is read,    *)
(* and the current one has one more.                                        *)
LEMMA ReadNext ==
  ASSUME Types, Counted, Advance, NEW f \in 1..frame
  PROVE  /\ sent'[f].header = sent[f].header /\ Symbols(f)' = Symbols(f)
         /\ f \in 1..frame'
         /\ VectorsRead(f)' = IF f = frame THEN vector + 1 ELSE VectorsRead(f)
<1> USE EqualizerAssumption DEF EqualizerAssumption
<1>0. /\ sent[f] \in FrameRecord /\ sent[f].vectors \in Int
      /\ frame = Len(sent) /\ frame \in Nat /\ sent \in Seq(FrameRecord)
  BY SymbolsOfSent DEF Types, frame
<1>1. CASE /\ sent[frame].vectors < MaxVectors
           /\ sent' = [sent EXCEPT ![frame].vectors = @ + 1]
  <2> DEFINE g == [sent[frame] EXCEPT !.vectors = @ + 1]
  <2>1. sent[frame] \in FrameRecord /\ sent[frame].vectors \in Int
    BY SymbolsOfSent, <1>0 DEF FrameRecord, Types
  <2>2. g \in FrameRecord /\ g.vectors = sent[frame].vectors + 1
        /\ g.header = sent[frame].header
    BY <1>1, <2>1 DEF FrameRecord
  <2>3. sent' = [sent EXCEPT ![frame] = g]
    BY <1>1
  <2> HIDE DEF g
  <2>4. /\ Len(sent') = Len(sent)
        /\ sent'[f] = IF f = frame THEN g ELSE sent[f]
        /\ sent'[frame] = g
    BY <1>0, <2>2, <2>3
  <2>5. frame' = frame
    BY <2>4 DEF frame
  <2>6. sent'[f].header = sent[f].header
    BY <2>2, <2>4
  <2>7. vector' = vector + 1
    <3>1. vector' = g.vectors - 1
      BY <2>4, <2>5 DEF vector
    <3>2. QED
      BY <2>1, <2>2, <3>1 DEF vector
  <2>8. VectorsRead(f)' = IF f = frame THEN vector + 1 ELSE VectorsRead(f)
    <3>1. VectorsRead(f)' = IF f < frame' THEN sent'[f].vectors ELSE vector'
      BY DEF VectorsRead
    <3>2. VectorsRead(f) = IF f < frame THEN sent[f].vectors ELSE vector
      BY DEF VectorsRead
    <3>3. QED
      BY <1>0, <2>4, <2>5, <2>7, <3>1, <3>2
  <2>9. QED
    BY <2>5, <2>6, <2>8 DEF Symbols
<1>2. CASE frame < MaxFrames /\ \E n \in NewFrames : sent' = Append(sent, n)
  <2>1. PICK n \in NewFrames : sent' = Append(sent, n)
    BY <1>2
  <2>2. Len(sent') = Len(sent) + 1 /\ sent'[f] = sent[f]
    BY <1>0, <2>1
  <2>3. frame' = frame + 1
    BY <2>2 DEF frame
  <2>4. VectorsRead(f)' = sent[f].vectors
    BY <1>0, <2>2, <2>3 DEF VectorsRead
  <2>5. QED
    BY <1>0, <2>2, <2>3, <2>4 DEF VectorsRead, vector, Symbols
<1>3. QED
  BY <1>1, <1>2 DEF Advance

(* So only a data symbol of the current frame changes what arrived.          *)
LEMMA ArrivedNext ==
  ASSUME Types, Counted, Advance, NEW f \in 1..frame
  PROVE  /\ Arrived(f) \in Nat
         /\ f < frame => Arrived(f)' = Arrived(f)
         /\ f = frame /\ vector <= 2 => Arrived(f) = 0 /\ Arrived(f)' = 0
         /\ f = frame /\ vector > 2 /\ vector - 3 >= Symbols(f) => Arrived(f)' = Arrived(f)
         /\ f = frame /\ vector > 2 /\ vector - 3 < Symbols(f) =>
              Arrived(f) = vector - 3 /\ Arrived(f)' = vector - 2
<1>1. /\ Symbols(f) \in Nat /\ vector \in Nat /\ frame \in Nat
      /\ sent[f].vectors \in Int
  <2>1. Symbols(f) \in Nat /\ sent[f].vectors \in Int
    BY SymbolsOfSent, EqualizerAssumption DEF EqualizerAssumption
  <2>2. vector \in Nat
    BY VectorNumber, EqualizerAssumption DEF EqualizerAssumption
  <2>3. frame \in Nat
    BY EqualizerAssumption DEF EqualizerAssumption, Types
  <2>4. QED
    BY <2>1, <2>2, <2>3
<1>2. /\ Symbols(f)' = Symbols(f)
      /\ VectorsRead(f)' = IF f = frame THEN vector + 1 ELSE VectorsRead(f)
  BY ReadNext
<1>3. VectorsRead(f) = IF f = frame THEN vector ELSE sent[f].vectors
  BY <1>1 DEF VectorsRead
<1> DEFINE a == Symbols(f)
           r == VectorsRead(f)
           v == vector
           q == IF f = frame THEN v + 1 ELSE r
<1>4. a \in Nat /\ r \in Int /\ v \in Nat /\ q \in Int /\ (f = frame => r = v)
  BY <1>1, <1>3
<1>5. Arrived(f) = Min({a, Max({r - 3, 0})}) /\ Arrived(f)' = Min({a, Max({q - 3, 0})})
  BY <1>2 DEF Arrived
<1> HIDE DEF a, r, v
<1>6. Arrived(f) = IF r - 3 < 0 THEN 0 ELSE IF r - 3 < a THEN r - 3 ELSE a
  BY <1>4, <1>5, Cut
<1>7. Arrived(f)' = IF q - 3 < 0 THEN 0 ELSE IF q - 3 < a THEN q - 3 ELSE a
  <2>1. q - 3 \in Int
    BY <1>4
  <2> HIDE DEF q
  <2>2. QED
    BY <1>4, <1>5, <2>1, Cut
<1>8. QED
  BY <1>1, <1>4, <1>6, <1>7 DEF a, v

(* Nothing has arrived of the frame that starts.                            *)
LEMMA NothingArrived ==
  ASSUME Types, Counted, Advance, NEW f, f = frame + 1, frame' = f
  PROVE  Arrived(f)' = 0
<1>1. sent' \in Seq(FrameRecord) /\ vector' = 0 /\ frame \in Nat
  BY NextVector DEF Types
<1>2. sent'[f] \in FrameRecord
  BY <1>1 DEF frame
<1>3. sent'[f].header \in Headers
  BY <1>2 DEF FrameRecord
<1>4. NSym(sent'[f].header.encoding, sent'[f].header.bytes) \in Nat
  BY <1>3, HeaderSymbols
<1>5. Symbols(f)' \in Nat
  BY <1>4 DEF Symbols
<1>6. VectorsRead(f)' = 0
  BY <1>1 DEF VectorsRead
<1>7. Arrived(f)' = Min({Symbols(f)', Max({0 - 3, 0})})
  BY <1>6 DEF Arrived
<1>8. QED
  BY <1>5, <1>7, Cut

(* A vector that is not written leaves every symbol in its place.            *)
LEMMA NotWritten ==
  ASSUME IInv, Emitted, Advance, out' = out,
         vector <= 2 \/ vector - 3 >= Symbols(frame)
  PROVE  /\ Emitted'
         /\ \A f \in 1..frame, s \in Nat : Placed(f, s) => Placed(f, s)'
<1>1. Types /\ Counted /\ frame \in Nat /\ Len(out) \in Nat
  BY DEF IInv, Types
<1>2. frame' \in {frame, frame + 1}
  BY <1>1, NextVector
<1>3. ASSUME NEW f \in 1..frame
      PROVE  Arrived(f)' = Arrived(f) /\ (f = frame' => f = frame)
  <2>1. vector \in Nat /\ Symbols(f) \in Nat
    BY <1>1, VectorNumber, SymbolsOfSent, EqualizerAssumption DEF EqualizerAssumption
  <2>2. QED
    BY <1>1, <1>2, <2>1, ArrivedNext
<1>4. ASSUME NEW f \in 1..frame, NEW s \in Nat, Placed(f, s)
      PROVE  Placed(f, s)'
  BY <1>3, <1>4 DEF Placed
<1>5. ASSUME NEW f, f = frame + 1, frame' = f
      PROVE  Placed(f, Len(out))'
  <2>1. Arrived(f)' = 0
    BY <1>1, <1>5, NothingArrived
  <2>2. \A k \in DOMAIN out : out[k].frame # f
    BY <1>1, <1>5 DEF Emitted
  <2>3. IsRun(out, f, Len(out), 0)
    BY <2>2, RunEmpty DEF IInv, Types
  <2>4. QED
    BY <1>1, <2>1, <2>3 DEF Placed
<1>6. Emitted'
  <2>1. ASSUME NEW f \in 1..frame'
        PROVE  \E s \in 0..Len(out') : Placed(f, s)'
    <3>1. CASE f \in 1..frame
      <4>1. PICK s \in 0..Len(out) : Placed(f, s)
        BY <3>1 DEF Emitted
      <4>2. QED
        BY <1>1, <1>4, <3>1, <4>1
    <3>2. CASE f = frame + 1 /\ frame' = f
      BY <1>1, <1>5, <3>2
    <3>3. QED
      BY <1>1, <1>2, <3>1, <3>2
  <2>2. \A k \in DOMAIN out' : out'[k].frame \in 1..frame'
    BY <1>1, <1>2 DEF Emitted
  <2>3. QED
    BY <2>1, <2>2 DEF Emitted
<1>7. QED
  BY <1>4, <1>6

(* A data symbol is the next of its frame, and the last one written.         *)
LEMMA DataWritten ==
  ASSUME IInv, EInv, Data
  PROVE  /\ Emitted'
         /\ \A f \in 1..frame, s \in Nat : Placed(f, s) => Placed(f, s)'
         /\ vector > 2 /\ sent[frame].header.ok
         /\ Len(out') = Len(out) + 1 /\ out'[Len(out) + 1].frame = frame
         /\ \A k \in DOMAIN out : out'[k] = out[k]
         /\ DOMAIN out' = 1..Len(out) + 1
<1> DEFINE r == [frame |-> frame, pos |-> vector - 3, est |-> d_H]
<1>1. Types /\ Counted /\ Emitted /\ SignalRead /\ frame \in Nat /\ Len(out) \in Nat
      /\ out \in Seq(OutRecord) /\ frame >= 1
  BY DEF IInv, EInv, Types
<1>2. Advance /\ symbol > 2 /\ ~Skipped /\ out' = Append(out, r)
  BY DEF Data, Body
<1>3. vector \in Nat /\ vector = symbol /\ vector > 2 /\ symbols = Symbols(frame)
      /\ Symbols(frame) \in Nat
  BY <1>1, <1>2, VectorNumber, SymbolsOfSent, EqualizerAssumption
  DEF EqualizerAssumption, Skipped, SignalRead, symbols
<1>4. vector - 3 < Symbols(frame)
  BY <1>2, <1>3 DEF Skipped
<1>0. r \in OutRecord
  BY <1>1, <1>3 DEF Types, OutRecord
<1>5. sent[frame].header.ok
  BY <1>3, <1>4 DEF Symbols
<1>6. r.frame = frame /\ r.pos = vector - 3
  OBVIOUS
<1> HIDE DEF r
<1>7. /\ Len(out') = Len(out) + 1 /\ out'[Len(out) + 1] = r
      /\ \A k \in DOMAIN out : out'[k] = out[k]
      /\ DOMAIN out = 1..Len(out) /\ DOMAIN out' = 1..Len(out) + 1
      /\ out' \in Seq(OutRecord)
  BY <1>0, <1>1, <1>2
<1>8. frame' \in {frame, frame + 1}
  BY <1>1, <1>2, NextVector
<1>9. ASSUME NEW f \in 1..frame, NEW s \in Nat, Placed(f, s)
      PROVE  Placed(f, s)'
  <2>1. CASE f < frame
    <3>1. Arrived(f)' = Arrived(f) /\ Arrived(f) \in Nat /\ f # frame'
      BY <1>1, <1>2, <1>8, <2>1, ArrivedNext
    <3>2. IsRun(out, f, s, Arrived(f)) /\ r.frame # f
      BY <1>6, <1>9, <2>1 DEF Placed
    <3>3. IsRun(out', f, s, Arrived(f))
      BY <1>0, <1>1, <1>2, <3>1, <3>2, RunStays
    <3>4. QED
      BY <3>1, <3>3 DEF Placed
  <2>2. CASE f = frame
    <3>1. Arrived(f) = vector - 3 /\ Arrived(f)' = vector - 2
      BY <1>1, <1>2, <1>3, <1>4, <2>2, ArrivedNext
    <3> DEFINE n == vector - 3
    <3>2. n \in Nat /\ vector - 2 = n + 1
      BY <1>3
    <3>3. IsRun(out, f, s, n) /\ r.frame = f /\ r.pos = n /\ s + n = Len(out)
      BY <1>6, <1>9, <2>2, <3>1 DEF Placed
    <3> HIDE DEF n
    <3>4. IsRun(Append(out, r), f, s, n + 1)
      BY <1>0, <1>1, <3>2, <3>3, RunGrows
    <3>5. IsRun(out', f, s, Arrived(f)') /\ s + Arrived(f)' = Len(out')
      BY <1>1, <1>2, <1>7, <3>1, <3>2, <3>3, <3>4
    <3>6. QED
      BY <3>5 DEF Placed
  <2>3. QED
    BY <1>1, <2>1, <2>2
<1>10. ASSUME NEW f, f = frame + 1, frame' = f, NEW s, s = Len(out) + 1
       PROVE  Placed(f, s)'
  <2>1. Arrived(f)' = 0
    BY <1>1, <1>2, <1>10, NothingArrived
  <2>2. \A k \in DOMAIN out' : out'[k].frame # f
    BY <1>1, <1>6, <1>7, <1>10 DEF Emitted
  <2>3. IsRun(out', f, s, 0) /\ s + 0 = Len(out')
    BY <1>1, <1>7, <1>10, <2>2, RunEmpty
  <2>4. QED
    BY <2>1, <2>3 DEF Placed
<1>11. Emitted'
  <2>1. ASSUME NEW f \in 1..frame'
        PROVE  \E s \in 0..Len(out') : Placed(f, s)'
    <3>1. CASE f \in 1..frame
      <4>1. PICK s \in 0..Len(out) : Placed(f, s)
        BY <1>1, <3>1 DEF Emitted
      <4>2. QED
        BY <1>1, <1>7, <1>9, <3>1, <4>1
    <3>2. CASE f = frame + 1 /\ frame' = f
      BY <1>1, <1>7, <1>10, <3>2
    <3>3. QED
      BY <1>1, <1>8, <3>1, <3>2
  <2>2. ASSUME NEW k \in DOMAIN out'
        PROVE  out'[k].frame \in 1..frame'
    <3>1. CASE k \in DOMAIN out
      <4>1. out'[k] = out[k] /\ out[k].frame \in 1..frame
        BY <1>1, <1>7, <3>1, Zenon DEF Emitted
      <4>2. QED
        BY <1>1, <1>8, <4>1
    <3>2. CASE k = Len(out) + 1
      BY <1>1, <1>6, <1>7, <1>8, <3>2
    <3>3. QED
      BY <1>1, <1>7, <3>1, <3>2
  <2>3. QED
    BY <2>1, <2>2 DEF Emitted
<1>12. QED
  BY <1>3, <1>5, <1>6, <1>7, <1>9, <1>11

(* What the next vector leaves of the length of the frame.                   *)
LEMMA SignalKept ==
  ASSUME IInv, EInv, Advance,
         \/ vector < 2 /\ d_frame_symbols' = 0
         \/ vector >= 2 /\ d_frame_symbols' = Symbols(frame)
  PROVE  SignalRead'
<1>1. Types /\ Counted /\ vector \in Nat /\ frame \in 1..frame
  BY VectorNumber, EqualizerAssumption DEF EqualizerAssumption, IInv, Types
<1>2. \/ frame' = frame /\ vector' = vector + 1
      \/ frame' = frame + 1 /\ vector' = 0
  BY <1>1, NextVector
<1>3. CASE vector' = 0
  BY <1>3 DEF SignalRead
<1>4. CASE frame' = frame /\ vector' = vector + 1
  <2>1. \A f : f = frame => Symbols(f)' = Symbols(frame)
    BY <1>1, ReadNext
  <2>2. Symbols(frame)' = Symbols(frame)
    BY <1>4, <2>1
  <2>3. QED
    BY <1>1, <1>4, <2>2 DEF SignalRead
<1>5. QED
  BY <1>2, <1>3, <1>4

(* A step that puts no tag keeps the tags where they belong.                 *)
LEMMA TagsKept ==
  ASSUME IInv, EInv, Advance, outTags' = outTags, vector # 2,
         \A f \in 1..frame, s \in Nat : Placed(f, s) => Placed(f, s)',
         \/ out' = out
         \/ /\ vector > 2 /\ sent[frame].header.ok
            /\ Len(out') = Len(out) + 1 /\ out'[Len(out) + 1].frame = frame
            /\ \A k \in DOMAIN out : out'[k] = out[k]
            /\ DOMAIN out' = 1..Len(out) + 1
  PROVE  Tagged'
<1>1. /\ Types /\ Counted /\ vector \in Nat /\ frame \in 1..frame
      /\ out \in Seq(OutRecord) /\ Len(out) \in Nat
  BY VectorNumber, EqualizerAssumption DEF EqualizerAssumption, IInv, Types
<1>2. \/ frame' = frame /\ vector' = vector + 1
      \/ frame' = frame + 1 /\ vector' = 0
  BY <1>1, NextVector
<1>3. outTags \in Seq(TagRecord)
  BY DEF EInv, Tagged
<1>4. ASSUME NEW t \in DOMAIN outTags
      PROVE  /\ outTags[t].frame \in 1..frame'
             /\ outTags[t].frame = frame' => vector' > 2
             /\ Placed(outTags[t].frame, outTags[t].offset)'
  <2>1. outTags[t] \in TagRecord
    BY <1>3
  <2>2. /\ outTags[t].offset \in Nat /\ outTags[t].frame \in 1..frame
        /\ outTags[t].frame = frame => vector > 2
        /\ Placed(outTags[t].frame, outTags[t].offset)
    BY <2>1 DEF EInv, Tagged, TagRecord
  <2>3. PICK f \in 1..frame, s \in Nat : f = outTags[t].frame /\ s = outTags[t].offset
    BY <2>2
  <2>4. Placed(f, s)'
    BY <2>2, <2>3
  <2>5. outTags[t].frame \in 1..frame' /\ (outTags[t].frame = frame' => vector' > 2)
    BY <1>1, <1>2, <2>2, <2>3
  <2>6. Placed(outTags[t].frame, outTags[t].offset)'
    BY <2>3, <2>4
  <2>7. QED
    BY <2>5, <2>6
<1>5. vector > 2 /\ sent[frame].header.ok => \E t \in DOMAIN outTags : outTags[t].frame = frame
  BY DEF EInv, Tagged
<1>6. \A k \in DOMAIN out' : \E t \in DOMAIN outTags : outTags[t].frame = out'[k].frame
  <2>1. \A k \in DOMAIN out : \E t \in DOMAIN outTags : outTags[t].frame = out[k].frame
    BY DEF EInv, Tagged
  <2>2. CASE out' = out
    BY <2>1, <2>2
  <2>3. CASE out' # out
    <3> TAKE k \in DOMAIN out'
    <3>1. k \in DOMAIN out \/ k = Len(out) + 1
      BY <1>1, <2>3
    <3>2. QED
      BY <1>5, <2>1, <2>3, <3>1
  <2>4. QED
    BY <2>2, <2>3
<1>7. vector' > 2 /\ sent'[frame'].header.ok =>
        \E t \in DOMAIN outTags : outTags[t].frame = frame'
  <2> SUFFICES ASSUME vector' > 2, sent'[frame'].header.ok
               PROVE  \E t \in DOMAIN outTags : outTags[t].frame = frame'
    OBVIOUS
  <2>1. frame' = frame /\ vector > 2
    BY <1>1, <1>2
  <2>2. sent'[frame].header = sent[frame].header
    BY <1>1, ReadNext
  <2>3. QED
    BY <1>5, <2>1, <2>2
<1>8. QED
  BY <1>3, <1>4, <1>6, <1>7 DEF Tagged

(* The SIGNAL symbol puts the tag where the symbols of its frame will start. *)
LEMMA SignalTags ==
  ASSUME IInv, EInv, Signal
  PROVE  EInv'
<1> DEFINE h == sent[frame].header
           tag == [offset |-> nwritten + o, frame |-> frame, header |-> h]
<1>1. /\ Types /\ Counted /\ vector \in Nat /\ frame \in 1..frame /\ frame \in 1..MaxFrames
      /\ out \in Seq(OutRecord) /\ Len(out) \in Nat /\ Len(out) = nwritten + o
      /\ h \in Headers /\ outTags \in Seq(TagRecord)
  BY VectorNumber, EqualizerAssumption DEF EqualizerAssumption, IInv, EInv, Tagged, Types
<1>2. /\ Advance /\ symbol = 2 /\ out' = out /\ ~Skipped
      /\ d_frame_symbols' = IF h.ok THEN NSym(h.encoding, h.bytes) ELSE symbols
      /\ outTags' = IF h.ok THEN Append(outTags, tag) ELSE outTags
  BY DEF Signal, Body
<1>3. vector = 2 /\ symbols = 0
  BY <1>1, <1>2, VectorNumber DEF Skipped, SignalRead, EInv, symbols
<1>4. /\ Emitted'
      /\ \A f \in 1..frame, s \in Nat : Placed(f, s) => Placed(f, s)'
  BY <1>2, <1>3, NotWritten DEF EInv
<1>5. SignalRead'
  <2>1. d_frame_symbols' = Symbols(frame)
    BY <1>2, <1>3 DEF Symbols
  <2>2. QED
    BY <1>2, <1>3, <2>1, SignalKept
<1>6. \/ frame' = frame /\ vector' = 3
      \/ frame' = frame + 1 /\ vector' = 0
  BY <1>1, <1>2, <1>3, NextVector
<1>7. Placed(frame, Len(out))
  <2>1. PICK s \in 0..Len(out) : Placed(frame, s)
    BY <1>1 DEF EInv, Emitted
  <2>2. \A f : f = frame => Arrived(f) = 0
    BY <1>1, <1>2, <1>3, ArrivedNext
  <2>3. QED
    BY <1>1, <2>1, <2>2 DEF Placed
<1>8. /\ tag \in TagRecord /\ tag.frame = frame /\ tag.offset = Len(out)
  BY <1>1 DEF TagRecord
<1> HIDE DEF h, tag
<1>9. PICK new \in {outTags, Append(outTags, tag)} :
        /\ outTags' = new
        /\ new \in Seq(TagRecord)
        /\ \A t \in DOMAIN new : (t \in DOMAIN outTags /\ new[t] = outTags[t]) \/ new[t] = tag
        /\ \A t \in DOMAIN outTags : t \in DOMAIN new /\ new[t] = outTags[t]
        /\ h.ok => \E t \in DOMAIN new : new[t] = tag
  <2>1. /\ Append(outTags, tag) \in Seq(TagRecord)
        /\ \A t \in DOMAIN Append(outTags, tag) :
             \/ t \in DOMAIN outTags /\ Append(outTags, tag)[t] = outTags[t]
             \/ Append(outTags, tag)[t] = tag
        /\ \A t \in DOMAIN outTags :
             t \in DOMAIN Append(outTags, tag) /\ Append(outTags, tag)[t] = outTags[t]
        /\ Len(outTags) + 1 \in DOMAIN Append(outTags, tag)
        /\ Append(outTags, tag)[Len(outTags) + 1] = tag
    BY <1>1, <1>8
  <2>2. QED
    BY <1>1, <1>2, <2>1
<1>10. ASSUME NEW t \in DOMAIN new
       PROVE  /\ new[t].frame \in 1..frame'
              /\ new[t].frame = frame' => vector' > 2
              /\ Placed(new[t].frame, new[t].offset)'
  <2>1. PICK f \in 1..frame, s \in Nat :
          f = new[t].frame /\ s = new[t].offset /\ Placed(f, s)
    <3>1. CASE new[t] = tag
      BY <1>1, <1>7, <1>8, <3>1
    <3>2. CASE t \in DOMAIN outTags /\ new[t] = outTags[t]
      <4>1. outTags[t] \in TagRecord
        BY <1>1, <3>2
      <4>2. /\ outTags[t].offset \in Nat /\ outTags[t].frame \in 1..frame
            /\ Placed(outTags[t].frame, outTags[t].offset)
        BY <3>2, <4>1 DEF EInv, Tagged, TagRecord
      <4>3. QED
        BY <3>2, <4>2
    <3>3. QED
      BY <1>9, <3>1, <3>2
  <2>2. Placed(f, s)' /\ f \in 1..frame' /\ (f = frame' => vector' > 2)
    BY <1>1, <1>4, <1>6, <2>1
  <2>3. QED
    BY <2>1, <2>2
<1>11. \A k \in DOMAIN out : \E t \in DOMAIN new : new[t].frame = out[k].frame
  BY <1>9 DEF EInv, Tagged
<1>12. vector' > 2 /\ sent'[frame'].header.ok => \E t \in DOMAIN new : new[t].frame = frame'
  <2>1. sent'[frame].header = sent[frame].header
    BY <1>1, <1>2, ReadNext
  <2>2. QED
    BY <1>6, <1>8, <1>9, <2>1 DEF h
<1>13. Tagged'
  <2>1. outTags' = new /\ out' = out /\ new \in Seq(TagRecord)
    BY <1>2, <1>9
  <2>2. ASSUME NEW t \in DOMAIN outTags'
        PROVE  /\ outTags'[t].frame \in 1..frame'
               /\ outTags'[t].frame = frame' => vector' > 2
               /\ Placed(outTags[t].frame, outTags[t].offset)'
    <3>1. t \in DOMAIN new
      BY <2>1, Zenon
    <3>2. /\ new[t].frame \in 1..frame'
          /\ new[t].frame = frame' => vector' > 2
          /\ Placed(new[t].frame, new[t].offset)'
      BY <1>10, <3>1
    <3>3. QED
      BY <2>1, <3>2
  <2>3. \A k \in DOMAIN out' : \E t \in DOMAIN outTags' : outTags'[t].frame = out'[k].frame
    BY <1>11, <2>1, Zenon
  <2>4. vector' > 2 /\ sent'[frame'].header.ok =>
          \E t \in DOMAIN outTags' : outTags'[t].frame = frame'
    BY <1>12, <2>1, Zenon
  <2>5. QED
    BY <2>1, <2>2, <2>3, <2>4 DEF Tagged
<1>14. QED
  BY <1>4, <1>5, <1>13 DEF EInv

LEMMA EmissionInitially == Init => EInv
<1> SUFFICES ASSUME Init PROVE EInv
  OBVIOUS
<1>1. PICK f \in NewFrames : sent = <<f>>
  BY DEF Init
<1>2. IInv /\ Types /\ frame = 1 /\ vector = 0 /\ Len(out) = 0 /\ out = <<>>
  BY <1>1, InvInitially DEF Init, IInv, frame, vector, NewFrames
<1>3. Symbols(1) \in Nat /\ VectorsRead(1) = 0
  BY <1>2, SymbolsOfSent DEF VectorsRead
<1>4. Arrived(1) = 0
  BY <1>3, Cut DEF Arrived
<1>5. Placed(1, 0)
  <2>1. IsRun(out, 1, 0, 0)
    BY <1>2 DEF IsRun
  <2>2. QED
    BY <1>2, <1>4, <2>1 DEF Placed
<1>6. QED
  BY <1>2, <1>5 DEF Init, EInv, SignalRead, Emitted, Tagged

LEMMA EmissionKept == IInv /\ EInv /\ [Next]_eqVars => EInv'
<1> SUFFICES ASSUME IInv, EInv, [Next]_eqVars PROVE EInv'
  OBVIOUS
<1>0. Types /\ Counted /\ Emitted /\ vector \in Nat /\ (vector = 0 <=> symbol = 0)
      /\ (symbol = vector \/ Skipped) /\ (vector = 1 <=> symbol = 1)
  BY VectorNumber, EqualizerAssumption DEF EqualizerAssumption, IInv, EInv, Skipped
<1>1. CASE UNCHANGED <<sent, d_frame_symbols, out, outTags>>
  <2>1. SignalRead'
    BY <1>1 DEF EInv, SignalRead, Symbols, frame, vector
  <2>2. Emitted'
    BY <1>1 DEF EInv, Emitted, Placed, Arrived, VectorsRead, Symbols, frame, vector
  <2>3. Tagged'
    BY <1>1 DEF EInv, Tagged, Placed, Arrived, VectorsRead, Symbols, frame, vector
  <2>4. QED
    BY <2>1, <2>2, <2>3 DEF EInv
<1>2. CASE Skip
  <2>1. /\ Advance /\ UNCHANGED <<d_frame_symbols, out, outTags>> /\ Skipped
    BY <1>2 DEF Skip
  <2>2. vector > 2 /\ vector - 3 >= d_frame_symbols /\ d_frame_symbols \in Nat
    BY <1>0, <2>1, VectorNumber DEF Skipped, symbol, symbols, Types
  <2>3. d_frame_symbols = Symbols(frame)
    BY <2>2 DEF EInv, SignalRead
  <2>4. /\ Emitted' /\ \A f \in 1..frame, s \in Nat : Placed(f, s) => Placed(f, s)'
    BY <1>0, <2>1, <2>2, <2>3, NotWritten
  <2>5. SignalRead'
    BY <1>0, <2>1, <2>2, <2>3, SignalKept
  <2>6. Tagged'
    BY <2>1, <2>2, <2>4, TagsKept
  <2>7. QED
    BY <2>4, <2>5, <2>6 DEF EInv
<1>3. CASE Training
  <2>1. /\ Advance /\ UNCHANGED <<out, outTags>> /\ symbol < 2 /\ ~Skipped
        /\ d_frame_symbols' = symbols
    BY <1>3 DEF Training, Body
  <2>2. vector < 2 /\ symbols = 0
    BY <1>0, <2>1 DEF EInv, SignalRead, symbols
  <2>3. /\ Emitted' /\ \A f \in 1..frame, s \in Nat : Placed(f, s) => Placed(f, s)'
    BY <1>0, <2>1, <2>2, NotWritten
  <2>4. SignalRead'
    BY <2>1, <2>2, SignalKept
  <2>5. Tagged'
    BY <2>1, <2>2, <2>3, TagsKept
  <2>6. QED
    BY <2>3, <2>4, <2>5 DEF EInv
<1>4. CASE Signal
  BY <1>4, SignalTags
<1>5. CASE Data
  <2>1. /\ Advance /\ outTags' = outTags /\ ~Skipped
        /\ d_frame_symbols' = symbols
    BY <1>5 DEF Data, Body
  <2>2. /\ Emitted' /\ \A f \in 1..frame, s \in Nat : Placed(f, s) => Placed(f, s)'
        /\ vector > 2 /\ sent[frame].header.ok
        /\ Len(out') = Len(out) + 1 /\ out'[Len(out) + 1].frame = frame
        /\ \A k \in DOMAIN out : out'[k] = out[k]
        /\ DOMAIN out' = 1..Len(out) + 1
    BY <1>5, DataWritten
  <2>4. SignalRead'
    <3>1. d_frame_symbols' = Symbols(frame)
      BY <1>0, <2>1, <2>2 DEF EInv, SignalRead, symbols
    <3>2. QED
      BY <1>0, <2>1, <2>2, <3>1, SignalKept
  <2>5. Tagged'
    BY <1>0, <2>1, <2>2, TagsKept
  <2>6. QED
    BY <2>2, <2>4, <2>5 DEF EInv
<1>6. QED
  BY <1>1, <1>2, <1>3, <1>4, <1>5 DEF Next, Call, Return, set_algorithm, eqVars

LEMMA EmissionAlways == Spec => [](IInv /\ EInv)
<1>1. Init => IInv /\ EInv
  BY InvInitially, EmissionInitially
<1>2. IInv /\ EInv /\ [Next]_eqVars => IInv' /\ EInv'
  BY InvKept, EmissionKept
<1>3. QED
  BY <1>1, <1>2, PTL DEF Spec

(* Of every frame exactly the announced data symbols that arrived are        *)
(* written, in order and once, and nothing of another frame between them,    *)
(* whatever the SIGNAL symbols say, wherever frames are cut and however the  *)
(* items are cut into calls (frame_equalizer_impl.cc:130-146, 225).          *)
THEOREM SymbolsAreWrittenOnce == Spec => []EmitsItsSymbols
<1>1. EInv => EmitsItsSymbols
  BY DEF EInv, Emitted, Placed, EmitsItsSymbols
<1>2. QED
  BY <1>1, EmissionAlways, PTL

(* The tag with the header of a frame is on its first data symbol            *)
(* (frame_equalizer_impl.cc:218), and every symbol has the tag of its frame.  *)
THEOREM TagIsOnFirstSymbol == Spec => []TagOnFirstSymbol
<1>1. IInv /\ EInv => TagOnFirstSymbol
  <2> SUFFICES ASSUME IInv, EInv PROVE TagOnFirstSymbol
    OBVIOUS
  <2>1. outTags \in Seq(TagRecord) /\ out \in Seq(OutRecord)
    BY DEF IInv, EInv, Types, Tagged
  <2>2. ASSUME NEW t \in DOMAIN outTags, NEW k \in DOMAIN out,
               out[k].frame = outTags[t].frame
        PROVE  LET first == outTags[t].offset + 1
               IN first \in DOMAIN out /\ out[first].frame = outTags[t].frame
                  /\ out[first].pos = 0
    <3>1. outTags[t] \in TagRecord
      BY <2>1
    <3>2. outTags[t].offset \in Nat /\ outTags[t].frame \in 1..frame
          /\ Placed(outTags[t].frame, outTags[t].offset)
      BY <3>1 DEF EInv, Tagged, TagRecord
    <3>3. PICK f \in 1..frame, s \in Nat :
            f = outTags[t].frame /\ s = outTags[t].offset /\ Placed(f, s)
      BY <3>2
    <3> DEFINE n == Arrived(f)
    <3>4. IsRun(out, f, s, n) /\ out[k].frame = f
      BY <2>2, <3>3 DEF Placed
    <3> HIDE DEF n
    <3>5. k \in s + 1..s + n /\ k \in 1..Len(out)
      BY <2>1, <3>4 DEF IsRun
    <3>6. s + 1 \in 1..Len(out)
      BY <2>1, <3>5
    <3>7. n \in Nat
      <4>1. f \in 1..frame
        OBVIOUS
      <4>2. Symbols(f) \in Nat /\ sent[f].vectors \in Int /\ vector \in Int
        BY <4>1, SymbolsOfSent, VectorNumber, EqualizerAssumption
        DEF EqualizerAssumption, IInv
      <4>3. VectorsRead(f) \in Int
        BY <4>2 DEF VectorsRead
      <4>4. QED
        BY <4>2, <4>3, Cut DEF n, Arrived
    <3>8. s + 1 \in s + 1..s + n
      BY <3>5, <3>7
    <3>9. s + 1 \in DOMAIN out /\ (s + 1) - s - 1 = 0
      BY <2>1, <3>6
    <3>10. out[s + 1].frame = f
      BY <3>4, <3>8, <3>9 DEF IsRun
    <3>11. out[s + 1].pos = (s + 1) - s - 1
      BY <3>4, <3>9, <3>10 DEF IsRun
    <3>12. s = outTags[t].offset /\ f = outTags[t].frame
      BY <3>3
    <3>13. QED
      BY <3>9, <3>10, <3>11, <3>12, Zenon
  <2>3. \A k \in DOMAIN out : \E t \in DOMAIN outTags : outTags[t].frame = out[k].frame
    BY DEF EInv, Tagged
  <2>4. QED
    BY <2>2, <2>3 DEF TagOnFirstSymbol
<1>2. QED
  BY <1>1, EmissionAlways, PTL

-----------------------------------------------------------------------------
(* soft_frame_equalizer *)

(* From the second training symbol on, the flag, the noise vector of the     *)
(* call and part of the energy belong to the frame.                          *)
FlagOfFrame == vector > 1 /\ d_interference => frame \in detected

NoiseOfFrame == vector > 1 => noise_vec \in {0, frame}

EnergyOfFrame == vector > 1 => frame \in d_temp \union switched

LlrRecord == [zeroed : BOOLEAN, scaling : BOOLEAN, energy : SUBSET (1..MaxFrames)]

(* One value for each symbol written.                                       *)
Parallel ==
  /\ llr \in Seq(LlrRecord) /\ Len(llr) = Len(out)
  /\ noise \in Seq(0..MaxFrames) /\ Len(noise) = Len(out)
  /\ d_interference \in BOOLEAN /\ d_scaling \in BOOLEAN /\ noise_vec \in 0..MaxFrames
  /\ d_temp \in SUBSET (1..MaxFrames)

SInv ==
  /\ FlagOfFrame /\ NoiseOfFrame /\ EnergyOfFrame /\ Parallel
  /\ ZeroedOnlyIfDetected /\ NoiseNotOfAnother /\ EnergyOfItsOwn

-----------------------------------------------------------------------------
(* Every step is a step of frame_equalizer or none.                          *)
LEMMA StepsOfFrameEqualizer == [SoftNext]_softEqVars => [Next]_eqVars
BY DEF SoftNext, SoftCall, SoftSkip, SoftTraining, SoftSignal, SoftData, SoftReturn,
       set_scaling, set_threshold, soft_set_algorithm, softEqVars, Next

(* soft_frame_equalizer skips, counts, estimates, tags and writes exactly as *)
(* frame_equalizer does: what is shown of the one holds for the other        *)
(* (soft_frame_equalizer_impl.cc:120-282, frame_equalizer_impl.cc:102-237).  *)
THEOREM SoftIsFrameEqualizer == SoftSpec => Spec
<1>1. SoftInit => Init
  BY DEF SoftInit
<1>2. [SoftNext]_softEqVars => [Next]_eqVars
  BY StepsOfFrameEqualizer
<1>3. QED
  BY <1>1, <1>2, PTL DEF SoftSpec, Spec

-----------------------------------------------------------------------------
LEMMA SInvInitially == SoftInit => SInv
<1> SUFFICES ASSUME SoftInit PROVE SInv
  OBVIOUS
<1>1. Init /\ out = <<>> /\ llr = <<>> /\ noise = <<>> /\ noise_vec = 0
      /\ d_interference = FALSE /\ d_scaling \in BOOLEAN /\ d_temp = {}
  BY DEF SoftInit, Init
<1>2. 0 \in 0..MaxFrames
  BY EqualizerAssumption DEF EqualizerAssumption
<1>3. Parallel
  <2>1. /\ <<>> \in Seq(LlrRecord)
        /\ <<>> \in Seq(0..MaxFrames)
    OBVIOUS
  <2>2. Len(llr) = Len(out) /\ Len(noise) = Len(out)
    BY <1>1
  <2>3. /\ d_interference \in BOOLEAN /\ noise_vec \in 0..MaxFrames
        /\ d_temp \in SUBSET (1..MaxFrames)
    BY <1>1, <1>2
  <2>4. QED
    BY <1>1, <2>1, <2>2, <2>3, Zenon DEF Parallel
<1>4. ZeroedOnlyIfDetected /\ NoiseNotOfAnother /\ EnergyOfItsOwn
  BY <1>1 DEF ZeroedOnlyIfDetected, NoiseNotOfAnother, EnergyOfItsOwn
<1>5. vector = 0
  <2>1. PICK f \in NewFrames : sent = <<f>>
    BY <1>1 DEF Init
  <2>2. f.vectors = 1
    BY DEF NewFrames
  <2>3. QED
    BY <2>1, <2>2 DEF frame, vector
<1>6. QED
  BY <1>1, <1>3, <1>4, <1>5 DEF SInv, FlagOfFrame, NoiseOfFrame, EnergyOfFrame

(* Where the read position goes and what the loop body has found out.        *)
LEMMA BodyMoves ==
  ASSUME IInv, Body
  PROVE  /\ symbol = vector /\ vector \in 0..MaxVectors - 1
         /\ \/ frame' = frame /\ vector' = vector + 1
            \/ frame' = frame + 1 /\ vector' = 0
<1>1. Types /\ Counted /\ Advance /\ ~Skipped
  BY DEF IInv, Body
<1>2. QED
  BY <1>1, VectorNumber, NextVector DEF Skipped

LEMMA SkipMoves ==
  ASSUME IInv, Skip
  PROVE  /\ vector > 2 /\ vector \in Nat
         /\ \/ frame' = frame /\ vector' = vector + 1
            \/ frame' = frame + 1 /\ vector' = 0
<1>1. Types /\ Counted /\ Advance /\ Skipped
  BY DEF IInv, Skip
<1>2. /\ vector \in Nat /\ symbol \in 0..vector /\ symbols \in Nat
  BY <1>1, VectorNumber DEF Skipped
<1>3. vector > 2
  BY <1>1, <1>2 DEF Skipped
<1>4. QED
  BY <1>1, <1>2, <1>3, NextVector

LEMMA SInvKept == IInv /\ SInv /\ [SoftNext]_softEqVars => SInv'
<1> SUFFICES ASSUME IInv, SInv, [SoftNext]_softEqVars PROVE SInv'
  OBVIOUS
<1>0. /\ FlagOfFrame /\ NoiseOfFrame /\ EnergyOfFrame /\ Parallel
      /\ ZeroedOnlyIfDetected /\ NoiseNotOfAnother /\ EnergyOfItsOwn
  BY DEF SInv
<1>a. frame \in 1..MaxFrames /\ out \in Seq(OutRecord)
  BY DEF IInv, Types
<1>b. ASSUME UNCHANGED <<out, llr, detected>>
      PROVE  ZeroedOnlyIfDetected'
  BY <1>0, <1>b DEF ZeroedOnlyIfDetected
<1>c. ASSUME UNCHANGED <<out, noise>>
      PROVE  NoiseNotOfAnother'
  BY <1>0, <1>c DEF NoiseNotOfAnother
<1>e. ASSUME UNCHANGED <<out, llr>>, switched \subseteq switched'
      PROVE  EnergyOfItsOwn'
  BY <1>0, <1>e DEF EnergyOfItsOwn
<1>d. ASSUME UNCHANGED sent
      PROVE  frame' = frame /\ vector' = vector
  BY <1>d DEF frame, vector
<1>1. CASE SoftCall
  <2>1. UNCHANGED <<sent, out, llr, noise, detected, switched, d_temp, d_interference, d_scaling>>
        /\ noise_vec' = 0
    BY <1>1 DEF SoftCall, Call
  <2>2. noise_vec' \in 0..MaxFrames
    BY <2>1, EqualizerAssumption DEF EqualizerAssumption
  <2>3. Parallel'
    BY <1>0, <2>1, <2>2 DEF Parallel
  <2>4. QED
    BY <1>0, <1>b, <1>c, <1>d, <1>e, <2>1, <2>3
       DEF SInv, FlagOfFrame, NoiseOfFrame, EnergyOfFrame
<1>2. CASE SoftSkip
  <2>1. UNCHANGED <<out, llr, noise, detected, switched, d_temp, d_interference, d_scaling,
                    noise_vec>>
        /\ Skip
    BY <1>2 DEF SoftSkip, Skip, softVars
  <2>2. /\ vector > 2 /\ vector \in Nat
        /\ \/ frame' = frame /\ vector' = vector + 1
           \/ frame' = frame + 1 /\ vector' = 0
    BY <2>1, SkipMoves
  <2>3. FlagOfFrame' /\ NoiseOfFrame' /\ EnergyOfFrame'
    BY <1>0, <2>1, <2>2 DEF FlagOfFrame, NoiseOfFrame, EnergyOfFrame
  <2>4. Parallel'
    BY <1>0, <2>1 DEF Parallel
  <2>5. QED
    BY <1>b, <1>c, <1>e, <2>1, <2>3, <2>4 DEF SInv
<1>3. CASE SoftTraining
  <2>1. UNCHANGED <<out, llr, noise, switched, d_scaling>> /\ Body /\ CopyNoise /\ symbol < 2
    BY <1>3 DEF SoftTraining, Training, Body
  <2>2. /\ symbol = vector /\ vector \in 0..MaxVectors - 1
        /\ \/ frame' = frame /\ vector' = vector + 1
           \/ frame' = frame + 1 /\ vector' = 0
    BY <2>1, BodyMoves
  <2>3. /\ detected \subseteq detected'
        /\ d_interference' \in BOOLEAN
        /\ symbol = 1 /\ d_interference' => frame \in detected'
    <3>1. CASE symbol = 0 /\ UNCHANGED <<d_interference, detected>>
      BY <1>0, <3>1 DEF Parallel
    <3>2. CASE symbol = 1 /\ \E nlr \in NLRs :
                 /\ Detect(nlr)
                 /\ detected' = IF nlr > d_threshold THEN detected \union {frame} ELSE detected
      <4>1. PICK nlr \in NLRs :
              /\ d_interference' = (nlr > d_threshold)
              /\ detected' = IF nlr > d_threshold THEN detected \union {frame} ELSE detected
        BY <3>2 DEF Detect
      <4>2. CASE nlr > d_threshold
        <5>1. d_interference' = TRUE /\ detected' = detected \union {frame}
          BY <4>1, <4>2, Zenon
        <5>2. QED
          BY <5>1
      <4>3. CASE ~ (nlr > d_threshold)
        <5>1. ~ d_interference'
          BY <4>1, <4>3
        <5>2. d_interference' \in BOOLEAN
          BY <4>1, <4>3
        <5>3. detected' = detected
          BY <4>1, <4>3
        <5>4. QED
          BY <5>1, <5>2, <5>3
      <4>4. QED
        BY <4>2, <4>3
    <3>3. QED
      BY <1>3, <3>1, <3>2 DEF SoftTraining
  <2>4. FlagOfFrame'
    BY <2>1, <2>2, <2>3 DEF FlagOfFrame
  <2>5. noise_vec' \in 0..MaxFrames /\ (symbol = 1 => noise_vec' = frame)
    BY <1>0, <1>a, <2>1 DEF CopyNoise, Parallel
  <2>6. NoiseOfFrame'
    BY <2>1, <2>2, <2>5 DEF NoiseOfFrame
  <2>7. ZeroedOnlyIfDetected'
    BY <1>0, <2>1, <2>3 DEF ZeroedOnlyIfDetected
  <2>8. /\ d_temp \subseteq d_temp' /\ d_temp' \in SUBSET (1..MaxFrames)
        /\ symbol = 1 => frame \in d_temp'
    <3>1. \/ symbol = 0 /\ d_temp' = d_temp
          \/ d_temp' = d_temp \union {frame}
      BY <1>3 DEF SoftTraining
    <3>2. d_temp \in SUBSET (1..MaxFrames)
      BY <1>0 DEF Parallel
    <3>3. CASE symbol = 0 /\ d_temp' = d_temp
      <4>1. symbol # 1
        BY <3>3
      <4>2. QED
        BY <3>2, <3>3, <4>1, Zenon
    <3>4. CASE d_temp' = d_temp \union {frame}
      BY <1>a, <3>2, <3>4
    <3>5. QED
      BY <3>1, <3>3, <3>4, Zenon
  <2>9. Parallel'
    BY <1>0, <2>1, <2>3, <2>5, <2>8 DEF Parallel
  <2>10. EnergyOfFrame'
    BY <1>0, <2>1, <2>2, <2>8 DEF EnergyOfFrame
  <2>11. QED
    BY <1>c, <1>e, <2>1, <2>4, <2>6, <2>7, <2>9, <2>10 DEF SInv
<1>4. CASE SoftSignal
  <2>1. UNCHANGED <<out, llr, noise, detected, switched, d_temp, d_interference, d_scaling,
                    noise_vec>>
        /\ Body /\ symbol = 2
    BY <1>4 DEF SoftSignal, Signal, Body, softVars
  <2>2. /\ symbol = vector /\ vector \in 0..MaxVectors - 1
        /\ \/ frame' = frame /\ vector' = vector + 1
           \/ frame' = frame + 1 /\ vector' = 0
    BY <2>1, BodyMoves
  <2>3. FlagOfFrame' /\ NoiseOfFrame' /\ EnergyOfFrame'
    BY <1>0, <2>1, <2>2 DEF FlagOfFrame, NoiseOfFrame, EnergyOfFrame
  <2>4. Parallel'
    BY <1>0, <2>1 DEF Parallel
  <2>5. QED
    BY <1>b, <1>c, <1>e, <2>1, <2>3, <2>4 DEF SInv
<1>5. CASE SoftData
  <2> DEFINE s == [frame |-> frame, pos |-> vector - 3, est |-> d_H]
             z == [zeroed |-> d_interference' /\ d_scaling, scaling |-> d_scaling,
                   energy |-> d_temp]
  <2>1. /\ UNCHANGED <<detected, switched, d_temp, noise_vec, d_scaling>> /\ Body /\ symbol > 2
        /\ out' = Append(out, s) /\ llr' = Append(llr, z)
        /\ noise' = Append(noise, noise_vec)
        /\ d_interference' = (d_interference /\ ~FrameEnds)
    BY <1>5 DEF SoftData, Data, Body
  <2>2. /\ symbol = vector /\ vector \in 0..MaxVectors - 1
        /\ \/ frame' = frame /\ vector' = vector + 1
           \/ frame' = frame + 1 /\ vector' = 0
    BY <2>1, BodyMoves
  <2>3. d_interference' \in BOOLEAN /\ (d_interference' => d_interference)
    BY <1>0, <2>1, Zenon DEF Parallel
  <2>4. vector > 1 /\ (d_interference' => frame \in detected) /\ noise_vec \in {0, frame}
    BY <1>0, <2>1, <2>2, <2>3 DEF FlagOfFrame, NoiseOfFrame
  <2>5. FlagOfFrame' /\ NoiseOfFrame' /\ EnergyOfFrame'
    BY <1>0, <2>1, <2>2, <2>4 DEF FlagOfFrame, NoiseOfFrame, EnergyOfFrame
  <2>6. s.frame = frame /\ (z.zeroed => frame \in detected) /\ z.energy = d_temp
    BY <2>4, Zenon
  <2>7. z \in LlrRecord
    <3>1. /\ (d_interference' /\ d_scaling) \in BOOLEAN /\ d_scaling \in BOOLEAN
          /\ d_temp \in SUBSET (1..MaxFrames)
      BY <1>0, <2>3, Zenon DEF Parallel
    <3>2. QED
      BY <3>1, Zenon DEF LlrRecord
  <2>8. s \in OutRecord
    <3>1. frame \in 1..MaxFrames /\ d_H \in (0..MaxFrames) \X (0..MaxFrames)
      BY DEF IInv, Types
    <3>2. vector - 3 \in Int
      BY <2>2
    <3>3. QED
      BY <3>1, <3>2 DEF OutRecord
  <2> HIDE DEF s, z
  <2>9. /\ out' \in Seq(OutRecord) /\ Len(out') = Len(out) + 1 /\ out'[Len(out) + 1] = s
        /\ \A k \in 1..Len(out) : out'[k] = out[k]
    BY <1>a, <2>1, <2>8
  <2>10. /\ llr' \in Seq(LlrRecord)
         /\ Len(llr') = Len(out) + 1 /\ llr'[Len(out) + 1] = z
         /\ \A k \in 1..Len(out) : llr'[k] = llr[k]
    BY <1>0, <2>1, <2>7 DEF Parallel
  <2>11. /\ noise' \in Seq(0..MaxFrames)
         /\ Len(noise') = Len(out) + 1 /\ noise'[Len(out) + 1] = noise_vec
         /\ \A k \in 1..Len(out) : noise'[k] = noise[k]
    BY <1>0, <2>1 DEF Parallel
  <2>12. Parallel'
    BY <1>0, <2>1, <2>3, <2>9, <2>10, <2>11 DEF Parallel
  <2>13. ZeroedOnlyIfDetected'
    <3> SUFFICES ASSUME NEW k \in DOMAIN llr', llr'[k].zeroed
                 PROVE  out'[k].frame \in detected
      BY <2>1 DEF ZeroedOnlyIfDetected
    <3>1. k \in 1..Len(out) \/ k = Len(out) + 1
      BY <1>a, <2>10
    <3>2. CASE k = Len(out) + 1
      BY <2>6, <2>9, <2>10, <3>2
    <3>3. CASE k \in 1..Len(out)
      BY <1>0, <2>9, <2>10, <3>3 DEF ZeroedOnlyIfDetected, Parallel
    <3>4. QED
      BY <3>1, <3>2, <3>3
  <2>14. NoiseNotOfAnother'
    <3> SUFFICES ASSUME NEW k \in DOMAIN noise'
                 PROVE  noise'[k] \in {0, out'[k].frame}
      BY DEF NoiseNotOfAnother
    <3>1. k \in 1..Len(out) \/ k = Len(out) + 1
      BY <1>a, <2>11
    <3>2. CASE k = Len(out) + 1
      BY <2>4, <2>6, <2>9, <2>11, <3>2
    <3>3. CASE k \in 1..Len(out)
      BY <1>0, <2>9, <2>11, <3>3 DEF NoiseNotOfAnother, Parallel
    <3>4. QED
      BY <3>1, <3>2, <3>3
  <2>15. EnergyOfItsOwn'
    <3> SUFFICES ASSUME NEW k \in DOMAIN llr'
                 PROVE  out'[k].frame \in llr'[k].energy \union switched
      BY <2>1 DEF EnergyOfItsOwn
    <3>1. k \in 1..Len(out) \/ k = Len(out) + 1
      BY <1>a, <2>10
    <3>2. CASE k = Len(out) + 1
      <4>1. frame \in d_temp \union switched
        BY <1>0, <2>4 DEF EnergyOfFrame
      <4>2. QED
        BY <2>6, <2>9, <2>10, <3>2, <4>1
    <3>3. CASE k \in 1..Len(out)
      BY <1>0, <2>9, <2>10, <3>3 DEF EnergyOfItsOwn, Parallel
    <3>4. QED
      BY <3>1, <3>2, <3>3
  <2>16. QED
    BY <2>5, <2>12, <2>13, <2>14, <2>15 DEF SInv
<1>6. CASE SoftReturn
  <2>1. UNCHANGED <<sent, out, llr, noise, detected, switched, d_temp, d_interference, d_scaling,
                    noise_vec>>
    BY <1>6 DEF SoftReturn, Return, softVars
  <2>2. Parallel'
    BY <1>0, <2>1 DEF Parallel
  <2>3. QED
    BY <1>0, <1>b, <1>c, <1>d, <1>e, <2>1, <2>2
       DEF SInv, FlagOfFrame, NoiseOfFrame, EnergyOfFrame
<1>7. CASE set_scaling \/ set_threshold \/ UNCHANGED softEqVars
  <2>1. UNCHANGED <<sent, out, llr, noise, detected, switched, d_temp, d_interference, noise_vec>>
    BY <1>7 DEF set_scaling, set_threshold, softEqVars, eqVars, softVars
  <2>2. d_scaling' \in BOOLEAN
    BY <1>0, <1>7 DEF set_scaling, set_threshold, softEqVars, softVars, Parallel
  <2>3. Parallel'
    BY <1>0, <2>1, <2>2 DEF Parallel
  <2>4. QED
    BY <1>0, <1>b, <1>c, <1>d, <1>e, <2>1, <2>3
       DEF SInv, FlagOfFrame, NoiseOfFrame, EnergyOfFrame
<1>8. CASE \E algo \in Algorithms : soft_set_algorithm(algo)
  <2>1. UNCHANGED <<sent, out, llr, noise, detected, d_scaling, noise_vec>>
        /\ d_interference' = FALSE /\ d_temp' = {}
        /\ switched' = IF vector > 0 THEN switched \union {frame} ELSE switched
    BY <1>8 DEF soft_set_algorithm, set_algorithm
  <2>2. Parallel'
    BY <1>0, <2>1 DEF Parallel
  <2>3. EnergyOfFrame'
    <3>1. vector \in Nat
      BY VectorNumber DEF IInv
    <3>2. QED
      BY <1>d, <2>1, <3>1 DEF EnergyOfFrame
  <2>4. QED
    BY <1>0, <1>b, <1>c, <1>d, <1>e, <2>1, <2>2, <2>3 DEF SInv, FlagOfFrame, NoiseOfFrame
<1>9. QED
  BY <1>1, <1>2, <1>3, <1>4, <1>5, <1>6, <1>7, <1>8 DEF SoftNext

LEMMA SInvAlways == SoftSpec => []SInv
<1>1. SoftInit => IInv
  BY InvInitially DEF SoftInit
<1>2. IInv /\ [SoftNext]_softEqVars => IInv'
  BY InvKept, StepsOfFrameEqualizer
<1>3. SoftInit => SInv
  BY SInvInitially
<1>4. IInv /\ SInv /\ [SoftNext]_softEqVars => SInv'
  BY SInvKept
<1>5. QED
  BY <1>1, <1>2, <1>3, <1>4, PTL DEF SoftSpec

(* Soft bits are set to zero only in a frame whose own training symbols      *)
(* showed interference, whatever setter is called when and wherever the      *)
(* frame before was cut short (ls_soft.cc:76-84, 116-125).                   *)
THEOREM FlagStaysInFrame == SoftSpec => []ZeroedOnlyIfDetected
<1>1. SInv => ZeroedOnlyIfDetected
  BY DEF SInv
<1>2. QED
  BY <1>1, SInvAlways, PTL

(* No noise vector is published with the symbol of another frame, and the    *)
(* soft bits of a symbol are divided by an energy with that of its own frame *)
(* in it, unless set_algorithm ran in the frame (ls_soft.cc:65-68, 112, 137, *)
(* soft_frame_equalizer_impl.cc:137, 272).                                   *)
THEOREM NoiseStaysInFrame == SoftSpec => []MeasuredOnFrame
<1>1. SInv => MeasuredOnFrame
  BY DEF SInv, MeasuredOnFrame
<1>2. QED
  BY <1>1, SInvAlways, PTL

(* What the setters and the training symbols store.                         *)
Settings ==
  /\ d_equalizer \in BOOLEAN /\ d_threshold \in Thresholds
  /\ detected \subseteq 1..MaxFrames
  /\ sets \in 0..MaxSets

LEMMA SettingsKept == IInv /\ Settings /\ [SoftNext]_softEqVars => Settings'
<1> SUFFICES ASSUME IInv, Settings, [SoftNext]_softEqVars PROVE Settings'
  OBVIOUS
<1> USE SoftAssumption DEF SoftAssumption
<1>1. frame \in 1..MaxFrames
  BY DEF IInv, Types
<1>2. CASE SoftCall \/ SoftSkip \/ SoftSignal \/ SoftData \/ SoftReturn
  BY <1>2 DEF Settings, SoftCall, SoftSkip, SoftSignal, SoftData, SoftReturn, softVars
<1>3. CASE SoftTraining
  BY <1>1, <1>3 DEF Settings, SoftTraining
<1>4. CASE set_scaling \/ set_threshold
  <2>1. sets' \in 0..MaxSets
    BY <1>4 DEF Settings, set_scaling, set_threshold
  <2>2. d_equalizer' = d_equalizer /\ detected' = detected /\ d_threshold' \in Thresholds
    BY <1>4 DEF Settings, set_scaling, set_threshold
  <2>3. QED
    BY <2>1, <2>2 DEF Settings
<1>5. ASSUME NEW algo \in Algorithms, soft_set_algorithm(algo) PROVE Settings'
  BY <1>5 DEF Settings, soft_set_algorithm
<1>6. CASE UNCHANGED softEqVars
  BY <1>6 DEF Settings, softEqVars, softVars
<1>7. QED
  BY <1>2, <1>3, <1>4, <1>5, <1>6 DEF SoftNext

(* The state that the soft equalizer adds has its types: one soft symbol and *)
(* one noise vector per symbol written, at every moment of a call and       *)
(* whatever setter acts in it.                                              *)
THEOREM SoftTypesCorrect == SoftSpec => []SoftTypeOK
<1>1. SoftInit => IInv
  BY InvInitially DEF SoftInit
<1>2. IInv /\ [SoftNext]_softEqVars => IInv'
  BY InvKept, StepsOfFrameEqualizer
<1>3. SoftInit => Settings
  BY SoftAssumption DEF SoftAssumption, SoftInit, Settings
<1>4. IInv /\ Settings /\ [SoftNext]_softEqVars => Settings'
  BY SettingsKept
<1>5. IInv /\ SInv /\ Settings => SoftTypeOK
  <2> SUFFICES ASSUME IInv, SInv, Settings PROVE SoftTypeOK
    OBVIOUS
  <2>1. Len(out) = nwritten + o
    BY TypesSuffice DEF TypeOK
  <2>2. QED
    BY <2>1 DEF SInv, Parallel, Settings, SoftTypeOK
<1>6. QED
  BY <1>1, <1>2, <1>3, <1>4, <1>5, SInvAlways, PTL DEF SoftSpec

-----------------------------------------------------------------------------
(* Why the soft bits are set to zero through a whole frame: the flag stays   *)
(* set from the training symbols to the last data symbol, because nothing    *)
(* but that symbol and a replaced equalizer clears it.                       *)
FlagKept ==
  frame \in detected \ switched /\ vector > 1 /\ (vector > 2 => vector - 3 < Symbols(frame)) =>
    d_interference

DetectedSoFar ==
  \A f \in detected : f \in 1..frame /\ (f = frame => vector > 1)

ZInv == FlagKept /\ DetectedSoFar /\ ZeroedThroughFrame

(* What was written before stays as it was treated.                          *)
LEMMA WrittenStays ==
  ASSUME IInv, EInv, Parallel, ZeroedThroughFrame, sent' = sent \/ Advance,
         switched \subseteq switched',
         \A k \in DOMAIN out : /\ out'[k] = out[k] /\ llr'[k] = llr[k]
                               /\ out[k].frame \in detected' => out[k].frame \in detected,
         NEW k \in DOMAIN out, NEW f, f = out[k].frame, f \in detected' \ switched',
         out[k].pos # LastPos(f)'
  PROVE  llr'[k].zeroed = llr'[k].scaling
<1>1. f \in 1..frame
  BY DEF EInv, Emitted
<1>2. LastPos(f)' = LastPos(f)
  <2>1. CASE sent' = sent
    BY <2>1 DEF LastPos, Symbols
  <2>2. CASE Advance
    BY <1>1, <2>2, ReadNext DEF LastPos, IInv
  <2>3. QED
    BY <2>1, <2>2
<1>3. k \in DOMAIN llr /\ f \in detected \ switched
  BY DEF Parallel, IInv, Types
<1>4. QED
  BY <1>2, <1>3 DEF ZeroedThroughFrame

LEMMA ZInvQuiet ==
  ASSUME IInv, EInv, Parallel, ZInv,
         UNCHANGED <<sent, out, llr, detected, switched, d_interference>>
  PROVE  ZInv'
BY DEF ZInv, FlagKept, DetectedSoFar, ZeroedThroughFrame, frame, vector, Symbols, LastPos

LEMMA ZInvKept == IInv /\ EInv /\ SInv /\ ZInv /\ [SoftNext]_softEqVars => ZInv'
<1> SUFFICES ASSUME IInv, EInv, SInv, ZInv, [SoftNext]_softEqVars PROVE ZInv'
  OBVIOUS
<1>0. /\ Types /\ Counted /\ Parallel /\ FlagKept /\ DetectedSoFar /\ ZeroedThroughFrame
      /\ vector \in Nat /\ frame \in Nat /\ frame \in 1..frame /\ Symbols(frame) \in Nat
      /\ out \in Seq(OutRecord) /\ Len(out) \in Nat /\ Len(llr) = Len(out)
      /\ DOMAIN llr = DOMAIN out /\ DOMAIN out = 1..Len(out)
  <2>1. Types /\ Counted /\ Parallel
    BY DEF IInv, SInv
  <2>2. vector \in Nat /\ frame \in Nat /\ frame \in 1..frame
    BY <2>1, VectorNumber, EqualizerAssumption DEF EqualizerAssumption, Types
  <2>3. QED
    BY <2>1, <2>2, SymbolsOfSent DEF ZInv, Parallel, Types
<1>a. ASSUME Advance
      PROVE  /\ \/ frame' = frame /\ vector' = vector + 1
                \/ frame' = frame + 1 /\ vector' = 0
             /\ frame' = frame => Symbols(frame)' = Symbols(frame)
  <2>1. \/ frame' = frame /\ vector' = vector + 1
        \/ frame' = frame + 1 /\ vector' = 0
    BY <1>0, <1>a, NextVector
  <2>2. \A f : f = frame => Symbols(f)' = Symbols(f)
    BY <1>0, <1>a, ReadNext
  <2>3. ASSUME NEW f, f = frame, frame' = f PROVE Symbols(frame)' = Symbols(frame)
    BY <2>2, <2>3
  <2>4. QED
    BY <2>1, <2>3
<1>b. ASSUME UNCHANGED <<out, llr>>, sent' = sent \/ Advance, switched \subseteq switched',
             \A k \in DOMAIN out : out[k].frame \in detected' => out[k].frame \in detected
      PROVE  ZeroedThroughFrame'
  <2> SUFFICES ASSUME NEW k \in DOMAIN llr, NEW f, f = out[k].frame,
                      f \in detected' \ switched', out[k].pos # LastPos(f)'
               PROVE  llr[k].zeroed = llr[k].scaling
    BY <1>b DEF ZeroedThroughFrame
  <2>1. \A j \in DOMAIN out : /\ out'[j] = out[j] /\ llr'[j] = llr[j]
                              /\ out[j].frame \in detected' => out[j].frame \in detected
    BY <1>b
  <2>2. k \in DOMAIN out
    BY <1>0
  <2>3. llr'[k].zeroed = llr'[k].scaling
    BY <1>0, <1>b, <2>1, <2>2, WrittenStays
  <2>4. QED
    BY <1>b, <2>3
<1>1. CASE SoftCall \/ SoftReturn \/ set_scaling \/ set_threshold \/ UNCHANGED softEqVars
  <2>1. UNCHANGED <<sent, out, llr, detected, switched, d_interference>>
    BY <1>1 DEF SoftCall, Call, SoftReturn, Return, set_scaling, set_threshold, softEqVars, eqVars,
                softVars
  <2>2. QED
    BY <1>0, <2>1, ZInvQuiet
<1>2. CASE SoftSkip
  <2>1. /\ Advance /\ Skip /\ UNCHANGED <<out, llr, detected, switched, d_interference>>
    BY <1>2 DEF SoftSkip, Skip, softVars
  <2>2. vector > 2 /\ ~ (vector - 3 < Symbols(frame))
    <3>1. /\ Skipped /\ symbol \in 0..vector /\ symbols \in Nat /\ d_frame_symbols \in Nat
      BY <1>0, <2>1, VectorNumber DEF Skip, Types
    <3>2. vector > 2 /\ vector - 3 >= d_frame_symbols
      BY <1>0, <3>1 DEF Skipped, symbol, symbols
    <3>3. d_frame_symbols = Symbols(frame)
      BY <3>2 DEF EInv, SignalRead
    <3>4. QED
      BY <1>0, <3>2, <3>3
  <2>3. FlagKept'
    <3>1. CASE frame' = frame /\ vector' = vector + 1
      BY <1>0, <1>a, <2>1, <2>2, <3>1 DEF FlagKept
    <3>2. CASE vector' = 0
      BY <3>2 DEF FlagKept
    <3>3. QED
      BY <1>a, <2>1, <3>1, <3>2
  <2>4. DetectedSoFar'
    BY <1>0, <1>a, <2>1 DEF DetectedSoFar
  <2>5. QED
    BY <1>b, <2>1, <2>3, <2>4 DEF ZInv
<1>3. CASE SoftTraining
  <2>1. /\ Advance /\ Body /\ symbol < 2 /\ UNCHANGED <<out, llr, switched>>
    BY <1>3 DEF SoftTraining, Training, Body
  <2>2. symbol = vector
    BY <2>1, BodyMoves
  <2>3. /\ detected \subseteq detected' /\ detected' \subseteq detected \union {frame}
        /\ vector = 0 => detected' = detected
        /\ vector = 1 /\ frame \in detected' => d_interference'
    <3>1. CASE symbol = 0 /\ UNCHANGED <<d_interference, detected>>
      BY <2>2, <3>1
    <3>2. CASE symbol = 1 /\ \E nlr \in NLRs :
                 /\ Detect(nlr)
                 /\ detected' = IF nlr > d_threshold THEN detected \union {frame} ELSE detected
      <4>1. PICK nlr \in NLRs :
              /\ d_interference' = (nlr > d_threshold)
              /\ detected' = IF nlr > d_threshold THEN detected \union {frame} ELSE detected
        BY <3>2 DEF Detect
      <4>2. frame \notin detected
        BY <1>0, <2>2, <3>2 DEF DetectedSoFar
      <4>3. CASE nlr > d_threshold
        <5>1. d_interference' = TRUE /\ detected' = detected \union {frame}
          BY <4>1, <4>3, Zenon
        <5>2. QED
          BY <2>2, <3>2, <5>1
      <4>4. CASE ~ (nlr > d_threshold)
        BY <2>2, <3>2, <4>1, <4>2, <4>4
      <4>5. QED
        BY <4>3, <4>4
    <3>3. QED
      BY <1>3, <3>1, <3>2 DEF SoftTraining
  <2>4. FlagKept'
    <3>1. CASE frame' = frame /\ vector' = vector + 1
      BY <1>0, <2>1, <2>2, <2>3, <3>1 DEF FlagKept
    <3>2. CASE vector' = 0
      BY <3>2 DEF FlagKept
    <3>3. QED
      BY <1>a, <2>1, <3>1, <3>2
  <2>5. DetectedSoFar'
    <3>1. CASE vector = 0
      BY <1>0, <1>a, <2>1, <2>3, <3>1 DEF DetectedSoFar
    <3>2. CASE vector = 1
      BY <1>0, <1>a, <2>1, <2>3, <3>2 DEF DetectedSoFar
    <3>3. QED
      BY <1>0, <2>1, <2>2, <3>1, <3>2
  <2>6. \A k \in DOMAIN out : out[k].frame # frame
    <3>1. \A f : f = frame => Arrived(f) = 0
      BY <1>0, <2>1, <2>2, ArrivedNext
    <3>2. PICK s \in 0..Len(out) : IsRun(out, frame, s, Arrived(frame))
      BY <1>0 DEF EInv, Emitted, Placed
    <3>3. IsRun(out, frame, s, 0)
      BY <3>1, <3>2
    <3>4. \A k \in DOMAIN out : out[k].frame = frame <=> k \in s + 1..s + 0
      BY <3>3 DEF IsRun
    <3>5. QED
      BY <1>0, <3>4
  <2>7. QED
    BY <1>b, <2>1, <2>3, <2>4, <2>5, <2>6 DEF ZInv
<1>4. CASE SoftSignal
  <2>1. /\ Advance /\ Body /\ symbol = 2
        /\ UNCHANGED <<out, llr, switched, detected, d_interference>>
    BY <1>4 DEF SoftSignal, Signal, Body, softVars
  <2>2. symbol = vector
    BY <2>1, BodyMoves
  <2>3. FlagKept'
    <3>1. CASE frame' = frame /\ vector' = vector + 1
      BY <1>0, <2>1, <2>2, <3>1 DEF FlagKept
    <3>2. CASE vector' = 0
      BY <3>2 DEF FlagKept
    <3>3. QED
      BY <1>a, <2>1, <3>1, <3>2
  <2>4. DetectedSoFar'
    BY <1>0, <1>a, <2>1 DEF DetectedSoFar
  <2>5. QED
    BY <1>b, <2>1, <2>3, <2>4 DEF ZInv
<1>5. CASE SoftData
  <2> DEFINE s == [frame |-> frame, pos |-> vector - 3, est |-> d_H]
             z == [zeroed |-> d_interference' /\ d_scaling, scaling |-> d_scaling,
                   energy |-> d_temp]
  <2>1. /\ UNCHANGED <<detected, d_scaling, switched>> /\ Body /\ Advance /\ symbol > 2
        /\ out' = Append(out, s) /\ llr' = Append(llr, z) /\ Data
        /\ d_interference' = (d_interference /\ ~FrameEnds)
    BY <1>5 DEF SoftData, Data, Body
  <2>2. symbol = vector /\ vector > 2
    BY <2>1, BodyMoves
  <2>3. d_frame_symbols = Symbols(frame) /\ vector - 3 < Symbols(frame)
    <3>1. d_frame_symbols = Symbols(frame)
      BY <2>2 DEF EInv, SignalRead
    <3>2. ~Skipped /\ symbols = d_frame_symbols
      BY <2>1, <2>2 DEF Body, symbols
    <3>3. QED
      BY <1>0, <2>2, <3>1, <3>2 DEF Skipped
  <2>4. FrameEnds <=> vector - 3 = Symbols(frame) - 1
    BY <1>0, <2>2, <2>3 DEF FrameEnds
  <2>5. frame \in detected \ switched => d_interference
    BY <1>0, <2>2, <2>3 DEF FlagKept
  <2>a. /\ UNCHANGED <<detected, switched>> /\ (d_interference /\ ~FrameEnds => d_interference')
        /\ \/ frame' = frame /\ vector' = vector + 1
           \/ frame' = frame + 1 /\ vector' = 0
        /\ frame' = frame => Symbols(frame)' = Symbols(frame)
    BY <1>a, <2>1
  <2>6. FlagKept'
    <3>1. CASE frame' = frame /\ vector' = vector + 1
      <4>1. vector' - 3 < Symbols(frame)' => ~FrameEnds
        BY <1>0, <2>2, <2>4, <2>a, <3>1
      <4>2. vector' > 2
        BY <1>0, <2>2, <3>1
      <4>3. QED
        BY <2>5, <2>a, <3>1, <4>1, <4>2 DEF FlagKept
    <3>2. CASE vector' = 0
      BY <3>2 DEF FlagKept
    <3>3. QED
      BY <2>a, <3>1, <3>2
  <2>7. DetectedSoFar'
    BY <1>0, <2>2, <2>a DEF DetectedSoFar
  <2>8. s.frame = frame /\ s.pos = vector - 3
    OBVIOUS
  <2>9. z.zeroed = (d_interference' /\ d_scaling) /\ z.scaling = d_scaling
    OBVIOUS
  <2>10. s \in OutRecord /\ z \in LlrRecord
    <3>1. s \in OutRecord
      BY <1>0 DEF OutRecord, Types
    <3>2. d_scaling \in BOOLEAN /\ d_temp \in SUBSET (1..MaxFrames)
      BY <1>0 DEF Parallel
    <3>3. (d_interference' /\ d_scaling) \in BOOLEAN
      OBVIOUS
    <3>4. z \in LlrRecord
      BY <3>2, <3>3, Zenon DEF LlrRecord
    <3>5. QED
      BY <3>1, <3>4
  <2> HIDE DEF s, z
  <2>11. /\ Len(out') = Len(out) + 1 /\ out'[Len(out) + 1] = s
         /\ \A k \in 1..Len(out) : out'[k] = out[k]
    BY <1>0, <2>1, <2>10
  <2>12. /\ DOMAIN llr' = 1..Len(out) + 1 /\ llr'[Len(out) + 1] = z
         /\ \A k \in 1..Len(out) : llr'[k] = llr[k]
    BY <1>0, <2>1, <2>10 DEF Parallel
  <2>13. ZeroedThroughFrame'
    <3> SUFFICES ASSUME NEW k \in DOMAIN llr', NEW f, f = out'[k].frame,
                        f \in detected' \ switched', out'[k].pos # LastPos(f)'
                 PROVE  llr'[k].zeroed = llr'[k].scaling
      BY DEF ZeroedThroughFrame
    <3>1. CASE k \in 1..Len(out)
      <4>1. /\ k \in DOMAIN out /\ f = out[k].frame /\ out[k].pos # LastPos(f)'
            /\ \A j \in DOMAIN out : /\ out'[j] = out[j] /\ llr'[j] = llr[j]
                                     /\ out[j].frame \in detected' => out[j].frame \in detected
        BY <1>0, <2>1, <2>11, <2>12, <3>1
      <4>2. QED
        BY <1>0, <2>1, <4>1, WrittenStays
    <3>2. CASE k = Len(out) + 1
      <4>1. f = frame /\ out'[k].pos = vector - 3 /\ llr'[k] = z
        BY <2>8, <2>11, <2>12, <3>2
      <4>2. Symbols(f)' = Symbols(f)
        BY <1>0, <2>1, <4>1, ReadNext
      <4>3. ~FrameEnds
        BY <2>4, <4>1, <4>2 DEF LastPos
      <4>4. d_interference' = TRUE
        <5>1. frame \in detected \ switched
          BY <2>1, <4>1
        <5>2. QED
          BY <1>0, <2>1, <2>5, <4>3, <5>1 DEF Parallel
      <4>5. z.zeroed = d_scaling
        BY <1>0, <2>9, <4>4 DEF Parallel
      <4>6. QED
        BY <2>9, <4>1, <4>5
    <3>3. QED
      BY <1>0, <2>12, <3>1, <3>2
  <2>14. QED
    BY <2>6, <2>7, <2>13 DEF ZInv
<1>6. CASE \E algo \in Algorithms : soft_set_algorithm(algo)
  <2>1. /\ UNCHANGED <<sent, out, llr, detected>>
        /\ switched' = IF vector > 0 THEN switched \union {frame} ELSE switched
    BY <1>6 DEF soft_set_algorithm, set_algorithm
  <2>2. frame' = frame /\ vector' = vector
    BY <2>1 DEF frame, vector
  <2>3. FlagKept'
    BY <1>0, <2>1, <2>2 DEF FlagKept
  <2>4. DetectedSoFar'
    BY <1>0, <2>1, <2>2 DEF DetectedSoFar
  <2>5. QED
    BY <1>b, <2>1, <2>3, <2>4 DEF ZInv
<1>7. QED
  BY <1>1, <1>2, <1>3, <1>4, <1>5, <1>6 DEF SoftNext

(* In a frame with interference the soft bits of every symbol but the last   *)
(* are set to zero if scaling is on when it is written, in whatever calls of *)
(* general_work the frame comes and whatever set_scaling and set_threshold   *)
(* do meanwhile (soft_frame_equalizer_impl.cc:99, 226, ls_soft.cc:76-84).    *)
THEOREM FrameIsZeroedThroughout == SoftSpec => []ZeroedThroughFrame
<1>1. SoftInit => IInv /\ EInv /\ SInv
  BY InvInitially, EmissionInitially, SInvInitially DEF SoftInit
<1>2. SoftInit => ZInv
  <2> SUFFICES ASSUME SoftInit PROVE ZInv
    OBVIOUS
  <2>1. detected = {} /\ llr = <<>>
    BY DEF SoftInit
  <2>2. QED
    BY <2>1 DEF ZInv, FlagKept, DetectedSoFar, ZeroedThroughFrame
<1>3. IInv /\ EInv /\ [SoftNext]_softEqVars => IInv' /\ EInv'
  BY InvKept, EmissionKept, StepsOfFrameEqualizer
<1>4. IInv /\ SInv /\ [SoftNext]_softEqVars => SInv'
  BY SInvKept
<1>5. IInv /\ EInv /\ SInv /\ ZInv /\ [SoftNext]_softEqVars => ZInv'
  BY ZInvKept
<1>6. ZInv => ZeroedThroughFrame
  BY DEF ZInv
<1>7. QED
  BY <1>1, <1>2, <1>3, <1>4, <1>5, <1>6, PTL DEF SoftSpec

-----------------------------------------------------------------------------
(* decode_mac behind the frame equalizer                                   *)

(* How many symbols decode_mac has looked at, and where the frame of the     *)
(* k-th one starts.                                                         *)
r == nread + mi
Start(k) == k - 1 - out[k].pos

Reading ==
  /\ nread \in Nat /\ mninput \in Nat /\ mi \in 0..mninput
  /\ nread + mninput <= nwritten
  /\ mpc = "idle" => mi = 0 /\ mninput = 0
  /\ DOMAIN d_rx_symbols = 0..Mac!MAX_SYM - 1
  /\ d_frame.n_sym \in Int /\ copied \in Int
  /\ \E S : decoded \in Seq(S)

(* What is known of decode_mac once it has accepted a header.               *)
Bounded ==
  accepted => /\ d_frame.n_sym \in Nat /\ d_frame.n_sym <= Mac!MAX_SYM
              /\ d_frame.header.bytes <= MAX_PSDU_SIZE
              /\ copied \in 0..d_frame.n_sym

(* Frames are written one after the other, and a tag carries the header of   *)
(* its frame and is on the first symbol of some frame, if it is on one.      *)
Sorted == \A j, k \in DOMAIN out : j < k => out[j].frame <= out[k].frame

TagPlaces ==
  \A t \in DOMAIN outTags :
    /\ outTags[t].header = sent[outTags[t].frame].header
    /\ outTags[t].offset + Arrived(frame) <= Len(out)
    /\ outTags[t].offset < Len(out) => out[outTags[t].offset + 1].pos = 0

(* The frame of the last symbol read is collected as far as it was read.     *)
Collected(k) ==
  LET f == out[k].frame
  IN /\ d_frame = [n_sym |-> Symbols(f), header |-> sent[f].header]
     /\ copied = out[k].pos + 1
     /\ \A n \in 0..out[k].pos : d_rx_symbols[n] = [frame |-> f, pos |-> n]

Wanted(k) == Fits(out[k].frame) /\ OneTag(Start(k))

Current == r > 0 /\ Wanted(r) => Collected(r)

(* A frame whose last symbol was read is decoded.                           *)
Finished ==
  \A k \in 1..r :
    Wanted(k) /\ out[k].pos + 1 = Symbols(out[k].frame) =>
      \E j \in DOMAIN decoded : Decoded(decoded[j], out[k].frame)

(* The last symbol of a run of decode() is one that was read.               *)
LastOf(d, n) ==
  \/ d.symbols[n] = Mac!NoSymbol
  \/ \E k \in 1..r : d.symbols[n] = [frame |-> out[k].frame, pos |-> out[k].pos]

LastsRead ==
  \A j \in DOMAIN decoded, n \in Nat \ {0} :
    DOMAIN decoded[j].symbols = 1..n => LastOf(decoded[j], n)

Lasting == IInv /\ EInv /\ Sorted /\ TagPlaces
RInv == Reading /\ Bounded /\ Current /\ Finished /\ LastsRead /\ DecodedInOrder

-----------------------------------------------------------------------------
(* A set of naturals that is not empty has a least element.                 *)
LEMMA LeastNatural ==
  ASSUME NEW S, S \subseteq Nat, S # {}
  PROVE  \E t \in S : \A u \in S : t <= u
<1>1. PICK t \in S : \A u \in S : ~ (<<u, t>> \in OpToRel(<, Nat))
  BY WFMin, NatLessThanWellFounded, Zenon
<1>2. \A u \in S : ~ (u < t)
  BY <1>1, Zenon DEF OpToRel
<1>3. QED
  BY <1>2

(* Both blocks count the symbols of a frame in the same way.                *)
LEMMA SameSizes ==
  ASSUME NEW e, NEW n
  PROVE  Mac!NSym(e, n) = NSym(e, n)
BY Zenon DEF NSym, Mac!NSym, CeilDiv, Mac!CeilDiv, PayloadBits, Mac!PayloadBits,
             ofdm_param, Mac!ofdm_param, Encoding, Mac!Encoding

(* The header that decode_mac takes from the tags is one of Headers.        *)
LEMMA HeaderIsKnown ==
  ASSUME Tagged, Mac!TagsHere # {}
  PROVE  Mac!Header \in Headers
<1>1. Mac!TagsHere \subseteq DOMAIN outTags /\ DOMAIN outTags \subseteq Nat
  BY DEF Mac!TagsHere, Tagged
<1>2. \E t \in Mac!TagsHere : \A u \in Mac!TagsHere : t <= u
  BY <1>1, LeastNatural
<1>3. PICK t \in Mac!TagsHere : Mac!Header = outTags[t].header
  BY <1>2 DEF Mac!Header
<1>4. outTags[t] \in TagRecord
  BY <1>1, <1>3 DEF Tagged
<1>5. QED
  BY <1>3, <1>4 DEF TagRecord

(* What the check for a header leaves fits the buffers.                     *)
LEMMA CurrentIsBounded ==
  ASSUME Tagged, Bounded, accepted \/ Mac!Accepts
  PROVE  /\ Mac!current.n_sym \in Nat /\ Mac!current.n_sym <= Mac!MAX_SYM
         /\ Mac!current.header.bytes <= MAX_PSDU_SIZE
         /\ Mac!count \in 0..Mac!current.n_sym
<1>1. CASE Mac!Accepts
  <2>1. Mac!Header \in Headers
    BY <1>1, HeaderIsKnown DEF Mac!Accepts
  <2>3. Mac!NSym(Mac!Header.encoding, Mac!Header.bytes) \in Nat
    BY <2>1, HeaderSymbols, SameSizes
  <2>4. /\ Mac!current = [n_sym |-> Mac!NSym(Mac!Header.encoding, Mac!Header.bytes),
                          header |-> Mac!Header]
        /\ Mac!count = 0
    BY <1>1 DEF Mac!current, Mac!count
  <2>5. QED
    BY <1>1, <2>3, <2>4 DEF Mac!Accepts
<1>2. CASE ~Mac!Accepts
  BY <1>2 DEF Bounded, Mac!current, Mac!count
<1>3. QED
  BY <1>1, <1>2

(* Every step of decode_mac keeps to its buffers.                           *)
LEMMA MacKeepsBounds ==
  ASSUME Tagged, Bounded, Mac!MacNext
  PROVE  Bounded'
<1>1. ASSUME NEW wanted \in BOOLEAN, Mac!Collect(wanted),
             copied' = IF wanted THEN Mac!count + 1 ELSE Mac!count
      PROVE  Bounded'
  <2>1. /\ d_frame' = Mac!current /\ accepted' = (accepted \/ Mac!Accepts)
        /\ wanted = (Mac!count < Mac!current.n_sym)
    BY <1>1 DEF Mac!Collect
  <2> SUFFICES ASSUME accepted \/ Mac!Accepts PROVE Bounded'
    BY <2>1 DEF Bounded
  <2>2. /\ Mac!current.n_sym \in Nat /\ Mac!current.n_sym <= Mac!MAX_SYM
        /\ Mac!current.header.bytes <= MAX_PSDU_SIZE
        /\ Mac!count \in 0..Mac!current.n_sym
    BY CurrentIsBounded
  <2>3. CASE wanted
    <3>1. Mac!count < Mac!current.n_sym /\ copied' = Mac!count + 1
      BY <1>1, <2>1, <2>3
    <3>2. copied' \in 0..Mac!current.n_sym
      BY <2>2, <3>1
    <3>3. QED
      BY <2>1, <2>2, <3>2 DEF Bounded, Mac!MAX_SYM, Mac!MaxSym, Mac!PayloadBits
  <2>4. CASE ~wanted
    <3>1. copied' \in 0..Mac!current.n_sym
      BY <1>1, <2>2, <2>4
    <3>2. QED
      BY <2>1, <2>2, <3>1 DEF Bounded, Mac!MAX_SYM, Mac!MaxSym, Mac!PayloadBits
  <2>5. QED
    BY <2>3, <2>4
<1>2. CASE Mac!Ignore
  BY <1>2, <1>1 DEF Mac!Ignore
<1>3. CASE Mac!CopySymbol
  BY <1>3, <1>1 DEF Mac!CopySymbol
<1>4. CASE Mac!CopyLast
  BY <1>4, <1>1 DEF Mac!CopyLast
<1>5. CASE Mac!MacCall \/ Mac!MacReturn
  BY <1>5 DEF Mac!MacCall, Mac!MacReturn, Bounded, Mac!MAX_SYM
<1>6. QED
  BY <1>2, <1>3, <1>4, <1>5 DEF Mac!MacNext

-----------------------------------------------------------------------------
-----------------------------------------------------------------------------
(* What the frame equalizer wrote and knows of frames stays as it is.       *)
LEMMA FramesStay ==
  ASSUME IInv, sent' = sent \/ Advance
  PROVE  /\ frame \in Nat /\ frame' \in Nat /\ frame <= frame' /\ frame' <= frame + 1
         /\ \A f \in 1..frame : sent'[f].header = sent[f].header /\ Symbols(f)' = Symbols(f)
<1>1. Types /\ Counted /\ frame \in Nat
  BY DEF IInv, Types
<1>2. CASE sent' = sent
  BY <1>1, <1>2 DEF frame, Symbols
<1>3. CASE Advance
  <2>1. frame' \in {frame, frame + 1}
    BY <1>1, <1>3, NextVector
  <2>2. QED
    BY <1>1, <1>3, <2>1, ReadNext
<1>4. QED
  BY <1>2, <1>3

LEMMA EqualizerGrows ==
  ASSUME IInv, EInv, [Next]_eqVars
  PROVE  /\ nwritten' \in Nat /\ nwritten <= nwritten'
         /\ sent' = sent \/ Advance
         /\ \A k \in DOMAIN out : k \in DOMAIN out' /\ out'[k] = out[k]
         /\ \A t \in DOMAIN outTags : t \in DOMAIN outTags' /\ outTags'[t] = outTags[t]
<1>1. /\ nwritten \in Nat /\ o \in Nat /\ outTags \in Seq(TagRecord)
      /\ out \in Seq(OutRecord)
  BY EqualizerAssumption DEF EqualizerAssumption, IInv, EInv, Types, Tagged
<1>2. CASE Data
  <2>1. /\ Len(out') = Len(out) + 1 /\ \A k \in DOMAIN out : out'[k] = out[k]
        /\ DOMAIN out' = 1..Len(out) + 1
    BY <1>2, DataWritten
  <2>2. QED
    BY <1>1, <1>2, <2>1 DEF Data, Body
<1>3. CASE Signal
  <2> DEFINE tag == [offset |-> nwritten + o, frame |-> frame, header |-> sent[frame].header]
  <2>1. outTags' \in {outTags, Append(outTags, tag)}
    BY <1>3 DEF Signal
  <2>a. frame \in 1..MaxFrames /\ sent[frame].header \in Headers
    BY VectorNumber DEF IInv, Types
  <2>b. tag \in TagRecord
    BY <1>1, <2>a DEF TagRecord
  <2> HIDE DEF tag
  <2>c. \A t \in DOMAIN outTags :
          t \in DOMAIN Append(outTags, tag) /\ Append(outTags, tag)[t] = outTags[t]
    BY <1>1, <2>b
  <2>2. \A t \in DOMAIN outTags : t \in DOMAIN outTags' /\ outTags'[t] = outTags[t]
    BY <2>1, <2>c
  <2>3. QED
    BY <1>1, <1>3, <2>2 DEF Signal, Body
<1>4. CASE Skip \/ Training
  BY <1>1, <1>4 DEF Skip, Training, Body
<1>5. CASE Return
  BY <1>1, <1>5 DEF Return
<1>6. CASE Call \/ set_algorithm \/ UNCHANGED eqVars
  BY <1>1, <1>6 DEF Call, set_algorithm, eqVars
<1>7. QED
  BY <1>2, <1>3, <1>4, <1>5, <1>6 DEF Next

(* Frames are written one after the other.                                  *)
LEMMA SortedKept ==
  ASSUME IInv, EInv, Sorted, [Next]_eqVars
  PROVE  Sorted'
<1>1. CASE out' = out
  BY <1>1 DEF Sorted
<1>2. CASE Data
  <2>1. /\ Len(out') = Len(out) + 1 /\ out'[Len(out) + 1].frame = frame
        /\ \A k \in DOMAIN out : out'[k] = out[k]
        /\ DOMAIN out' = 1..Len(out) + 1
    BY <1>2, DataWritten
  <2>a. out \in Seq(OutRecord) /\ frame \in Nat
    BY DEF IInv, Types
  <2>2. out \in Seq(OutRecord) /\ frame \in Nat /\ \A k \in DOMAIN out : out[k].frame \in 1..frame
    BY <2>a DEF EInv, Emitted
  <2>3. ASSUME NEW j \in 1..Len(out) + 1, NEW k \in 1..Len(out) + 1, j < k
        PROVE  out'[j].frame <= out'[k].frame
    <3>1. j \in DOMAIN out /\ (k \in DOMAIN out \/ k = Len(out) + 1)
      BY <2>2, <2>3
    <3>2. CASE k \in DOMAIN out
      BY <2>1, <2>3, <3>1, <3>2 DEF Sorted
    <3>3. CASE k = Len(out) + 1
      BY <2>1, <2>2, <3>1, <3>3
    <3>4. QED
      BY <3>1, <3>2, <3>3
  <2>4. QED
    BY <2>1, <2>3 DEF Sorted
<1>3. QED
  BY <1>1, <1>2 DEF Next, Call, Skip, Training, Signal, Body, Return, set_algorithm, eqVars

(* What is left of the length of the current frame.                         *)
LEMMA ArrivedOfFrame ==
  ASSUME IInv, Advance, NEW f, f = frame'
  PROVE  /\ Arrived(frame) \in Nat /\ Arrived(f)' \in Nat
         /\ frame' # frame => Arrived(f)' = 0
         /\ vector <= 2 => Arrived(f)' = 0
         /\ \/ Arrived(f)' \in {0, Arrived(frame)}
            \/ /\ frame' = frame /\ vector > 2 /\ vector - 3 < Symbols(frame)
               /\ Arrived(frame) = vector - 3 /\ Arrived(f)' = vector - 2
<1>1. /\ Types /\ Counted /\ frame \in 1..frame /\ vector \in Nat /\ Symbols(frame) \in Nat
  BY VectorNumber, SymbolsOfSent, EqualizerAssumption DEF EqualizerAssumption, IInv, Types
<1>2. PICK g \in 1..frame : g = frame
  BY <1>1
<1>3. /\ Arrived(g) \in Nat
      /\ vector <= 2 => Arrived(g) = 0 /\ Arrived(g)' = 0
      /\ vector > 2 /\ vector - 3 >= Symbols(g) => Arrived(g)' = Arrived(g)
      /\ vector > 2 /\ vector - 3 < Symbols(g) =>
              Arrived(g) = vector - 3 /\ Arrived(g)' = vector - 2
  BY <1>1, <1>2, ArrivedNext
<1>4. CASE f = g
  BY <1>1, <1>2, <1>3, <1>4
<1>5. CASE f # g
  <2>1. f = frame + 1
    BY <1>1, <1>2, <1>5, NextVector
  <2>2. Arrived(f)' = 0
    BY <1>1, <2>1, NothingArrived
  <2>3. QED
    BY <1>2, <1>3, <2>2
<1>6. QED
  BY <1>4, <1>5

(* Only a vector that is no data symbol of its frame is not written.        *)
LEMMA NoDataSymbol ==
  ASSUME IInv, EInv, Skip \/ Training \/ Signal
  PROVE  /\ Advance /\ out' = out
         /\ vector <= 2 \/ vector - 3 >= Symbols(frame)
<1>1. /\ Types /\ vector \in Nat /\ (vector = 0 <=> symbol = 0)
      /\ symbol \in 0..vector /\ symbols \in Nat
      /\ symbol = vector \/ Skipped
  BY VectorNumber, EqualizerAssumption DEF EqualizerAssumption, IInv, Skipped
<1>2. CASE Skip
  <2>1. Skipped /\ Advance /\ out' = out
    BY <1>2 DEF Skip
  <2>2. vector > 2 /\ symbol > symbols + 2
    BY <1>1, <2>1 DEF Skipped
  <2>3. symbols = Symbols(frame)
    BY <1>1, <2>2 DEF EInv, SignalRead, symbols
  <2>4. QED
    BY <1>1, <2>1, <2>2, <2>3
<1>3. CASE Training \/ Signal
  <2>1. symbol <= 2 /\ ~Skipped /\ Advance /\ out' = out
    BY <1>1, <1>3 DEF Training, Signal, Body
  <2>2. QED
    BY <1>1, <2>1
<1>4. QED
  BY <1>2, <1>3

(* A data symbol is the next of its frame.                                  *)
LEMMA DataArrived ==
  ASSUME IInv, EInv, Data
  PROVE  Arrived(frame) = vector - 3
<1>1. /\ Types /\ Counted /\ frame \in 1..frame /\ vector \in Nat
      /\ (symbol = vector \/ Skipped) /\ symbols \in Nat
  BY VectorNumber, EqualizerAssumption DEF EqualizerAssumption, IInv, Types, Skipped
<1>2. Advance /\ symbol > 2 /\ ~Skipped
  BY DEF Data, Body
<1>a. vector > 2 /\ vector - 3 < symbols
  BY <1>1, <1>2 DEF Skipped
<1>3. vector > 2 /\ vector - 3 < symbols /\ symbols = Symbols(frame)
  BY <1>1, <1>a DEF symbols, EInv, SignalRead
<1>4. QED
  BY <1>1, <1>2, <1>3, ArrivedNext

(* A tag stays on the first symbol of a frame.                              *)
LEMMA TagStays ==
  ASSUME IInv, EInv, TagPlaces, Skip \/ Training \/ Signal \/ Data,
         NEW t \in DOMAIN outTags, NEW g, g = frame'
  PROVE  /\ outTags[t].header = sent'[outTags[t].frame].header
         /\ outTags[t].offset + Arrived(g)' <= Len(out')
         /\ outTags[t].offset < Len(out') => out'[outTags[t].offset + 1].pos = 0
<1>1. outTags[t] \in TagRecord /\ outTags[t].frame \in 1..frame
  BY DEF EInv, Tagged
<1>2. PICK s \in Nat, f \in 1..frame : s = outTags[t].offset /\ f = outTags[t].frame
  BY <1>1 DEF TagRecord
<1>0. Advance
  BY DEF Skip, Training, Signal, Data, Body
<1>3. outTags[t].header = sent[f].header /\ sent'[f].header = sent[f].header
  BY <1>0, <1>2, FramesStay DEF TagPlaces
<1>5. PICK a \in Nat, b \in Nat : a = Arrived(frame) /\ b = Arrived(g)'
  BY <1>0, ArrivedOfFrame
<1>6. /\ s + a <= Len(out)
      /\ s < Len(out) => out[s + 1].pos = 0
  BY <1>2, <1>5 DEF TagPlaces
<1>7. out \in Seq(OutRecord) /\ Len(out) \in Nat /\ vector \in Nat
  BY VectorNumber, EqualizerAssumption DEF EqualizerAssumption, IInv, Types
<1>b. b \in {0, a} \/ (vector > 2 /\ a = vector - 3 /\ b = a + 1)
  BY <1>0, <1>5, <1>7, ArrivedOfFrame
<1>8. CASE Skip \/ Training \/ Signal
  <2>1. out' = out /\ (vector <= 2 \/ vector - 3 >= Symbols(frame))
    BY <1>8, NoDataSymbol
  <2>a. Symbols(frame) \in Nat
    BY SymbolsOfSent DEF IInv, Types
  <2>2. b \in {0, a}
    BY <1>0, <1>5, <1>7, <2>1, <2>a, ArrivedOfFrame
  <2>3. s + b <= Len(out)
    BY <1>6, <1>7, <2>2
  <2>4. QED
    BY <1>2, <1>3, <1>5, <1>6, <2>1, <2>3
<1>9. CASE Data
  <2> DEFINE x == [frame |-> frame, pos |-> vector - 3, est |-> d_H]
  <2>1. out' = Append(out, x) /\ x.pos = vector - 3
    BY <1>9 DEF Data
  <2>2. /\ Len(out') = Len(out) + 1
        /\ \A k \in DOMAIN out : out'[k] = out[k]
        /\ DOMAIN out' = 1..Len(out) + 1
    BY <1>9, DataWritten
  <2>3. out'[Len(out) + 1] = x
    BY <1>7, <2>1
  <2>4. a = vector - 3
    BY <1>0, <1>5, <1>7, <1>9, DataArrived
  <2> HIDE DEF x
  <2>5. s + b <= Len(out')
    BY <1>6, <1>7, <1>b, <2>2
  <2>6. ASSUME s < Len(out') PROVE out'[s + 1].pos = 0
    <3>1. CASE s < Len(out)
      <4>1. s + 1 \in DOMAIN out
        BY <1>7, <3>1
      <4>2. QED
        BY <1>6, <2>2, <3>1, <4>1
    <3>2. CASE s = Len(out)
      BY <1>6, <1>7, <2>1, <2>3, <2>4, <3>2
    <3>3. QED
      BY <1>7, <2>2, <2>6, <3>1, <3>2
  <2>7. QED
    BY <1>2, <1>3, <1>5, <2>5, <2>6
<1>10. QED
  BY <1>8, <1>9

LEMMA TagPlacesKept ==
  ASSUME IInv, EInv, TagPlaces, [Next]_eqVars
  PROVE  TagPlaces'
<1>1. PICK g : g = frame'
  OBVIOUS
<1>2. CASE Skip \/ Training \/ Data
  <2>1. outTags' = outTags
    BY <1>2 DEF Skip, Training, Data
  <2>2. QED
    BY <1>1, <1>2, <2>1, TagStays DEF TagPlaces
<1>3. CASE Signal
  <2> DEFINE tag == [offset |-> nwritten + o, frame |-> frame, header |-> sent[frame].header]
  <2>1. /\ out \in Seq(OutRecord) /\ Len(out) \in Nat /\ Len(out) = nwritten + o
        /\ frame \in 1..MaxFrames /\ frame \in 1..frame
        /\ sent[frame].header \in Headers /\ outTags \in Seq(TagRecord)
        /\ vector \in Nat /\ (symbol = vector \/ Skipped)
    <3>1. /\ out \in Seq(OutRecord) /\ Len(out) = nwritten + o
          /\ frame \in 1..MaxFrames /\ outTags \in Seq(TagRecord)
      BY DEF IInv, EInv, Tagged, Types
    <3>2. frame \in 1..frame /\ Len(out) \in Nat
      BY <3>1, EqualizerAssumption DEF EqualizerAssumption
    <3>3. sent[frame].header \in Headers /\ (symbol = vector \/ Skipped)
      BY VectorNumber DEF IInv, Skipped
    <3>4. vector \in Nat
      BY VectorNumber, EqualizerAssumption DEF EqualizerAssumption, IInv
    <3>5. QED
      BY <3>1, <3>2, <3>3, <3>4
  <2>2. /\ Advance /\ symbol = 2 /\ out' = out /\ ~Skipped
        /\ outTags' \in {outTags, Append(outTags, tag)}
    BY <1>3 DEF Signal, Body
  <2>3. Arrived(g)' = 0
    BY <1>1, <2>1, <2>2, ArrivedOfFrame
  <2>4. sent'[frame].header = sent[frame].header
    BY <2>1, <2>2, FramesStay
  <2>5. /\ tag \in TagRecord /\ tag.frame = frame /\ tag.offset = Len(out)
        /\ tag.header = sent[frame].header
    BY <2>1 DEF TagRecord
  <2> HIDE DEF tag
  <2>6. \A t \in DOMAIN outTags' :
          \/ t \in DOMAIN outTags /\ outTags'[t] = outTags[t]
          \/ outTags'[t] = tag
    <3>1. \A t \in DOMAIN Append(outTags, tag) :
            \/ t \in DOMAIN outTags /\ Append(outTags, tag)[t] = outTags[t]
            \/ Append(outTags, tag)[t] = tag
      BY <2>1, <2>5
    <3>2. QED
      BY <2>2, <3>1
  <2>7. ASSUME NEW t \in DOMAIN outTags'
        PROVE  /\ outTags'[t].header = sent'[outTags'[t].frame].header
               /\ outTags'[t].offset + Arrived(g)' <= Len(out')
               /\ outTags'[t].offset < Len(out') => out'[outTags'[t].offset + 1].pos = 0
    <3>1. CASE t \in DOMAIN outTags /\ outTags'[t] = outTags[t]
      BY <1>1, <1>3, <3>1, TagStays
    <3>2. CASE outTags'[t] = tag
      BY <2>1, <2>2, <2>3, <2>4, <2>5, <3>2
    <3>3. QED
      BY <2>6, <3>1, <3>2
  <2>8. QED
    BY <1>1, <2>7 DEF TagPlaces
<1>4. CASE Call \/ Return \/ set_algorithm \/ UNCHANGED eqVars
  <2>1. UNCHANGED <<sent, out, outTags>>
    BY <1>4 DEF Call, Return, set_algorithm, eqVars
  <2>2. QED
    BY <2>1 DEF TagPlaces, Arrived, VectorsRead, Symbols, frame, vector
<1>5. QED
  BY <1>2, <1>3, <1>4 DEF Next

LEMMA LastingInitially == Init => Lasting
<1> SUFFICES ASSUME Init PROVE Lasting
  OBVIOUS
<1>1. IInv /\ EInv /\ out = <<>> /\ outTags = <<>>
  BY InvInitially, EmissionInitially DEF Init
<1>2. QED
  BY <1>1 DEF Lasting, Sorted, TagPlaces

LEMMA LastingKept ==
  ASSUME Lasting, [Next]_eqVars
  PROVE  Lasting'
BY InvKept, EmissionKept, SortedKept, TagPlacesKept DEF Lasting

-----------------------------------------------------------------------------
(* A frame whose SIGNAL symbol could be decoded has a symbol at least.       *)
LEMMA SomeSymbols ==
  ASSUME NEW h \in Headers
  PROVE  NSym(h.encoding, h.bytes) \in Nat \ {0}
<1> DEFINE Sizes == 0..4095
<1>1. \A b \in Sizes : b \in Nat
  OBVIOUS
<1>2. h \in [ok : BOOLEAN, encoding : Encoding, bytes : Sizes]
  BY EqualizerAssumption DEF EqualizerAssumption
<1> HIDE DEF Sizes
<1>3. PICK e \in Encoding, bytes \in Nat : e = h.encoding /\ bytes = h.bytes
  BY <1>1, <1>2
<1>4. ofdm_param[e].n_dbps \in SymbolSizes
  BY Parameters DEF SymbolSizes
<1>5. PICK x \in Nat : x = PayloadBits(bytes) /\ x > 0
  BY DEF PayloadBits
<1>6. \A y \in SymbolSizes : CeilDiv(x, y) \in Nat \ {0}
  BY <1>5 DEF CeilDiv, SymbolSizes
<1>7. QED
  BY <1>3, <1>4, <1>5, <1>6 DEF NSym

(* No more symbols arrive than the frame has.                               *)
LEMMA ArrivedAtMost ==
  ASSUME IInv, NEW f \in 1..frame
  PROVE  Arrived(f) \in Nat /\ Symbols(f) \in Nat /\ Arrived(f) <= Symbols(f)
<1>1. Symbols(f) \in Nat /\ sent[f].vectors \in Int /\ vector \in Int
  BY SymbolsOfSent, VectorNumber, EqualizerAssumption DEF EqualizerAssumption, IInv
<1>2. PICK v \in Int : v = VectorsRead(f) - 3
  BY <1>1 DEF VectorsRead
<1>3. Arrived(f) = Min({Symbols(f), Max({v, 0})})
  BY <1>2 DEF Arrived
<1>4. QED
  BY <1>1, <1>3, Cut

(* The symbol before one that is not the first of its frame is its           *)
(* predecessor in the frame, and a symbol is written once.                  *)
LEMMA Neighbours ==
  ASSUME IInv, EInv, NEW k \in DOMAIN out
  PROVE  /\ k \in Nat \ {0} /\ out[k].frame \in 1..frame
         /\ out[k].pos \in Nat /\ out[k].pos < Symbols(out[k].frame)
         /\ Symbols(out[k].frame) \in Nat
         /\ out[k].pos > 0 => /\ k - 1 \in DOMAIN out
                              /\ out[k - 1].frame = out[k].frame
                              /\ out[k - 1].pos = out[k].pos - 1
         /\ \A j \in DOMAIN out :
              out[j].frame = out[k].frame /\ out[j].pos = out[k].pos => j = k
<1>1. out \in Seq(OutRecord) /\ Len(out) \in Nat /\ DOMAIN out = 1..Len(out)
  BY DEF IInv, Types
<1>2. PICK f \in 1..frame : f = out[k].frame
  BY DEF EInv, Emitted
<1>3. PICK s \in 0..Len(out) : Placed(f, s)
  BY DEF EInv, Emitted
<1>4. PICK n \in Nat : n = Arrived(f) /\ n <= Symbols(f) /\ Symbols(f) \in Nat
  BY ArrivedAtMost
<1>5. /\ s + n <= Len(out)
      /\ \A j \in DOMAIN out : /\ out[j].frame = f <=> j \in s + 1..s + n
                               /\ out[j].frame = f => out[j].pos = j - s - 1
  BY <1>1, <1>3, <1>4 DEF Placed, IsRun
<1>6. k \in s + 1..s + n /\ out[k].pos = k - s - 1
  BY <1>2, <1>5
<1>7. ASSUME out[k].pos > 0
      PROVE  k - 1 \in DOMAIN out /\ out[k - 1].frame = f /\ out[k - 1].pos = out[k].pos - 1
  <2>a. k \in Int /\ k - s - 1 > 0
    BY <1>1, <1>6, <1>7
  <2>b. k - 1 \in s + 1..s + n /\ k - 1 \in 1..Len(out)
    BY <1>1, <1>5, <1>6, <2>a
  <2>1. k - 1 \in s + 1..s + n /\ k - 1 \in DOMAIN out
    BY <1>1, <2>b
  <2>2. PICK j \in DOMAIN out : j = k - 1 /\ j \in s + 1..s + n
    BY <2>1
  <2>3. out[j].frame = f /\ out[j].pos = j - s - 1
    BY <1>5, <2>2
  <2>4. QED
    BY <1>6, <2>1, <2>2, <2>3
<1>8. ASSUME NEW j \in DOMAIN out, out[j].frame = f, out[j].pos = out[k].pos
      PROVE  j = k
  <2>1. j \in Int /\ k \in Int /\ s \in Int
    BY <1>1
  <2>2. j - s - 1 = k - s - 1
    BY <1>5, <1>6, <1>8
  <2>3. \A a, b, c \in Int : a - c - 1 = b - c - 1 => a = b
    OBVIOUS
  <2>4. QED
    BY <2>1, <2>2, <2>3, Zenon
<1>9. QED
  BY <1>1, <1>2, <1>4, <1>6, <1>7, <1>8

(* decode_mac takes the header of a frame at its first symbol if no other    *)
(* tag is on it, and finds none at the others.                              *)
LEMMA FirstTag ==
  ASSUME Lasting, NEW k \in DOMAIN out, r = k - 1, out[k].pos = 0, OneTag(r)
  PROVE  Mac!TagsHere # {} /\ Mac!Header = sent[out[k].frame].header
<1>1. IInv /\ EInv /\ TagPlaces
  BY DEF Lasting
<1>2. k \in Nat \ {0} /\ out[k].frame \in 1..frame /\ outTags \in Seq(TagRecord)
  BY <1>1, Neighbours DEF EInv, Tagged
<1>3. PICK t \in DOMAIN outTags : outTags[t].frame = out[k].frame
  BY <1>1 DEF EInv, Tagged
<1>a. outTags[t] \in TagRecord
  BY <1>2
<1>b. outTags[t].offset \in Nat
  BY <1>a DEF TagRecord
<1>4. outTags[t].offset \in Nat /\ Placed(outTags[t].frame, outTags[t].offset)
  BY <1>1, <1>b DEF EInv, Tagged
<1>5. PICK f \in 1..frame, s \in Nat : f = out[k].frame /\ s = outTags[t].offset
  BY <1>2, <1>4
<1>6. IsRun(out, f, s, Arrived(f))
  BY <1>3, <1>4, <1>5 DEF Placed
<1>c. k - s - 1 = 0
  BY <1>5, <1>6 DEF IsRun
<1>7. s = r
  BY <1>2, <1>c
<1>8. Mac!TagsHere = {t}
  BY <1>5, <1>7 DEF Mac!TagsHere, OneTag, r
<1>9. t \in Nat /\ Mac!Header = outTags[t].header
  <2>1. t \in Nat
    BY <1>2
  <2>2. (CHOOSE x \in {t} : \A u \in {t} : x <= u) = t
    BY <2>1
  <2>3. QED
    BY <1>8, <2>1, <2>2 DEF Mac!Header
<1>10. QED
  BY <1>1, <1>3, <1>8, <1>9 DEF TagPlaces

LEMMA NoTagWithin ==
  ASSUME Lasting, NEW k \in DOMAIN out, r = k - 1, out[k].pos # 0
  PROVE  Mac!TagsHere = {}
<1>1. outTags \in Seq(TagRecord) /\ out \in Seq(OutRecord) /\ TagPlaces
  BY DEF Lasting, IInv, EInv, Types, Tagged
<1>2. SUFFICES ASSUME NEW t \in DOMAIN outTags, outTags[t].offset = r PROVE FALSE
  BY DEF Mac!TagsHere, r
<1>3. r + 1 = k /\ r < Len(out)
  BY <1>1
<1>4. QED
  BY <1>1, <1>2, <1>3 DEF TagPlaces

-----------------------------------------------------------------------------
LEMMA MaxSymIsNatural == Mac!MAX_SYM \in Nat
BY MacAssumption DEF MacAssumption, Mac!MAX_SYM, Mac!MaxSym, Mac!PayloadBits

(* The symbol looked at was written.                                        *)
LEMMA LooksAtWritten ==
  ASSUME IInv, Reading
  PROVE  /\ r \in Nat /\ \A k \in 1..r : k \in DOMAIN out
         /\ Mac!MacLooping => r + 1 \in DOMAIN out
<1>1. /\ out \in Seq(OutRecord) /\ nwritten \in Nat /\ o \in Nat /\ Len(out) = nwritten + o
      /\ Len(out) \in Nat /\ DOMAIN out = 1..Len(out)
  BY EqualizerAssumption DEF EqualizerAssumption, IInv, Types
<1>2. nread \in Nat /\ mninput \in Nat /\ mi \in 0..mninput /\ nread + mninput <= nwritten
  BY DEF Reading
<1>3. r \in Nat /\ r <= Len(out)
  BY <1>1, <1>2 DEF r
<1>4. Mac!MacLooping => r + 1 <= Len(out)
  BY <1>1, <1>2 DEF r, Mac!MacLooping
<1>5. QED
  BY <1>1, <1>3, <1>4

(* A wanted symbol goes behind those of its frame that are there.           *)
LEMMA WantedRead ==
  ASSUME Lasting, RInv, Mac!MacLooping, NEW k, k = r + 1, Wanted(k),
         NEW f, f = out[k].frame, NEW p, p = out[k].pos
  PROVE  /\ p \in Nat /\ Symbols(f) \in Nat /\ p < Symbols(f) /\ Symbols(f) <= Mac!MAX_SYM
         /\ Mac!count = p
         /\ Mac!current = [n_sym |-> Symbols(f), header |-> sent[f].header]
         /\ \A n \in 0..p - 1 : d_rx_symbols[n] = [frame |-> f, pos |-> n]
<1>1. IInv /\ EInv /\ Reading /\ Current
  BY DEF Lasting, RInv
<1>2. r \in Nat /\ k \in DOMAIN out /\ r = k - 1
  BY <1>1, LooksAtWritten
<1>3. p \in Nat /\ Symbols(f) \in Nat /\ p < Symbols(f) /\ f \in 1..frame
  BY <1>1, <1>2, Neighbours
<1>4. Fits(f) /\ OneTag(k - 1 - p)
  BY DEF Wanted, Start
<1>5. Symbols(f) <= Mac!MAX_SYM
  BY <1>4 DEF Fits
<1>6. CASE p = 0
  <2>1. OneTag(r)
    <3>1. k - 1 - p = r
      BY <1>2, <1>6
    <3>2. QED
      BY <1>4, <3>1
  <2>2. Mac!TagsHere # {} /\ Mac!Header = sent[f].header
    BY <1>2, <1>6, <2>1, FirstTag
  <2>3. Symbols(f) = Mac!NSym(Mac!Header.encoding, Mac!Header.bytes)
    BY <1>4, <2>2, SameSizes DEF Fits, Symbols
  <2>4. Mac!Accepts
    BY <1>4, <1>5, <2>2, <2>3 DEF Fits, Mac!Accepts
  <2>5. /\ Mac!count = 0
        /\ Mac!current = [n_sym |-> Symbols(f), header |-> sent[f].header]
    BY <2>2, <2>3, <2>4 DEF Mac!count, Mac!current
  <2>6. \A n \in 0..p - 1 : FALSE
    BY <1>6
  <2>7. QED
    BY <1>3, <1>5, <1>6, <2>5, <2>6
<1>7. CASE p # 0
  <2>1. ~Mac!Accepts
    BY <1>2, <1>7, NoTagWithin DEF Mac!Accepts
  <2>2. /\ r \in DOMAIN out /\ r > 0 /\ out[r].frame = f /\ out[r].pos = p - 1
    <3>1. k - 1 \in DOMAIN out /\ out[k - 1].frame = f /\ out[k - 1].pos = p - 1
      BY <1>1, <1>2, <1>3, <1>7, Neighbours
    <3>2. r \in DOMAIN out /\ out[r].frame = f /\ out[r].pos = p - 1
      BY <1>2, <3>1, Zenon
    <3>3. r \in Nat \ {0}
      BY <1>1, <3>2, Neighbours
    <3>4. r > 0
      BY <3>3
    <3>5. QED
      BY <3>2, <3>4
  <2>3. Start(r) = Start(k)
    <3>1. \A a \in Nat, b \in Nat : (a + 1) - 1 - b = a - 1 - (b - 1)
      OBVIOUS
    <3>2. Start(k) = (r + 1) - 1 - p /\ Start(r) = r - 1 - (p - 1)
      BY <2>2 DEF Start
    <3>3. QED
      BY <1>2, <1>3, <3>1, <3>2
  <2>4. Wanted(r)
    BY <2>2, <2>3 DEF Wanted
  <2>5. Collected(r)
    BY <1>1, <2>2, <2>4 DEF Current
  <2>6. /\ d_frame = [n_sym |-> Symbols(f), header |-> sent[f].header]
        /\ copied = (p - 1) + 1
        /\ \A n \in 0..p - 1 : d_rx_symbols[n] = [frame |-> f, pos |-> n]
    BY <2>2, <2>5 DEF Collected
  <2>7. Mac!count = copied /\ Mac!current = d_frame
    BY <2>1 DEF Mac!count, Mac!current
  <2>8. QED
    BY <1>3, <1>5, <2>6, <2>7
<1>8. QED
  BY <1>6, <1>7

(* What stays when only decode_mac makes a step.                            *)
LEMMA SymbolsStay ==
  ASSUME UNCHANGED eqVars
  PROVE  /\ out' = out /\ sent' = sent /\ outTags' = outTags /\ nwritten' = nwritten
         /\ frame' = frame
         /\ \A k : Wanted(k)' <=> Wanted(k)
         /\ \A f : Symbols(f)' = Symbols(f)
         /\ \A d, f : Decoded(d, f)' <=> Decoded(d, f)
<1>1. out' = out /\ sent' = sent /\ outTags' = outTags /\ nwritten' = nwritten
  BY DEF eqVars
<1>2. QED
  BY <1>1 DEF frame, Wanted, Fits, OneTag, Start, Symbols, Decoded, Mac!MAX_SYM

(* The wanted symbol is in its place.                                       *)
LEMMA WantedStored ==
  ASSUME Lasting, RInv, Mac!MacLooping, NEW k, k = r + 1, Wanted(k),
         NEW f, f = out[k].frame, NEW p, p = out[k].pos
  PROVE  \A n \in 0..p : Mac!Stored[n] = [frame |-> f, pos |-> n]
<1>1. /\ p \in Nat /\ Symbols(f) \in Nat /\ p < Symbols(f) /\ Symbols(f) <= Mac!MAX_SYM
      /\ Mac!count = p
      /\ \A n \in 0..p - 1 : d_rx_symbols[n] = [frame |-> f, pos |-> n]
  BY WantedRead
<1>2. DOMAIN d_rx_symbols = 0..Mac!MAX_SYM - 1 /\ k = nread + mi + 1
  BY DEF RInv, Reading, r
<1>3. p \in DOMAIN d_rx_symbols /\ \A n \in 0..p : n \in DOMAIN d_rx_symbols
  BY <1>1, <1>2, MaxSymIsNatural
<1>4. Mac!Stored = [d_rx_symbols EXCEPT ![p] = [frame |-> f, pos |-> p]]
  BY <1>1, <1>2, <1>3 DEF Mac!Stored
<1>5. QED
  BY <1>1, <1>3, <1>4

-----------------------------------------------------------------------------
(* One step of decode_mac behind the other invariants.  The length of the    *)
(* frame it collects is a number, be it from a header or uninitialised.      *)
LEMMA LengthIsNumber ==
  ASSUME Tagged, Reading
  PROVE  Mac!current.n_sym \in Int /\ Mac!count \in Int
<1>1. CASE Mac!Accepts
  <2>1. Mac!Header \in Headers
    BY <1>1, HeaderIsKnown DEF Mac!Accepts
  <2>2. Mac!NSym(Mac!Header.encoding, Mac!Header.bytes) \in Nat
    BY <2>1, HeaderSymbols, SameSizes
  <2>3. QED
    BY <1>1, <2>2 DEF Mac!current, Mac!count
<1>2. CASE ~Mac!Accepts
  BY <1>2 DEF Mac!current, Mac!count, Reading
<1>3. QED
  BY <1>1, <1>2

(* The three ways to look at a symbol.                                      *)
LookAt == Mac!Ignore \/ Mac!CopySymbol \/ Mac!CopyLast

LEMMA LookingAt ==
  ASSUME Reading, LookAt
  PROVE  /\ Mac!MacLooping /\ r' = r + 1 /\ nread' = nread /\ mninput' = mninput
         /\ mi' = mi + 1 /\ mi < mninput /\ d_frame' = Mac!current
         /\ mpc' # "idle"
         /\ d_rx_symbols' \in {d_rx_symbols, Mac!Stored}
         /\ decoded' = decoded \/ Mac!CopyLast
         /\ copied' = Mac!count \/ copied' = Mac!count + 1
         /\ Mac!count < Mac!current.n_sym =>
              copied' = Mac!count + 1 /\ d_rx_symbols' = Mac!Stored
<1>1. PICK wanted \in BOOLEAN : Mac!Collect(wanted)
  BY DEF LookAt, Mac!Ignore, Mac!CopySymbol, Mac!CopyLast
<1>2. /\ Mac!MacLooping /\ nread' = nread /\ mninput' = mninput /\ mi' = mi + 1
      /\ mi < mninput /\ mpc = "loop" /\ d_frame' = Mac!current
  BY <1>1 DEF Mac!Collect, Mac!MacLooping
<1>3. r' = r + 1
  BY <1>2 DEF Reading, r
<1>4. Mac!count < Mac!current.n_sym =>
        copied' = Mac!count + 1 /\ d_rx_symbols' = Mac!Stored
  BY DEF LookAt, Mac!Ignore, Mac!CopySymbol, Mac!CopyLast, Mac!Collect
<1>5. /\ mpc' # "idle" /\ d_rx_symbols' \in {d_rx_symbols, Mac!Stored}
      /\ decoded' = decoded \/ Mac!CopyLast
      /\ copied' = Mac!count \/ copied' = Mac!count + 1
  BY <1>2 DEF LookAt, Mac!Ignore, Mac!CopySymbol, Mac!CopyLast
<1>6. QED
  BY <1>2, <1>3, <1>4, <1>5

LEMMA StoredDomain == DOMAIN Mac!Stored = DOMAIN d_rx_symbols
BY DEF Mac!Stored

(* What a run of decode() is added as.                                      *)
LEMMA RunAdded ==
  ASSUME Reading, Mac!CopyLast
  PROVE  \E d : /\ decoded' = Append(decoded, d)
                /\ d.header = Mac!current.header
                /\ d.symbols = [k \in 1..Mac!current.n_sym |->
                      IF k \in 1..Mac!MAX_SYM THEN Mac!Stored[k - 1] ELSE Mac!NoSymbol]
                /\ Mac!count + 1 = Mac!current.n_sym
                /\ DOMAIN decoded = 1..Len(decoded) /\ Len(decoded) \in Nat
                /\ DOMAIN decoded' = 1..Len(decoded) + 1
                /\ decoded'[Len(decoded) + 1] = d
                /\ \A j \in DOMAIN decoded : decoded'[j] = decoded[j]
                /\ \E S : decoded' \in Seq(S)
<1> DEFINE d == [header |-> Mac!current.header,
                 symbols |-> [k \in 1..Mac!current.n_sym |->
                      IF k \in 1..Mac!MAX_SYM THEN Mac!Stored[k - 1] ELSE Mac!NoSymbol]]
<1>1. decoded' = Append(decoded, d) /\ Mac!count + 1 = Mac!current.n_sym
  BY DEF Mac!CopyLast, Mac!Decode
<1>2. PICK S : decoded \in Seq(S)
  BY DEF Reading
<1>3. d.header = Mac!current.header
      /\ d.symbols = [k \in 1..Mac!current.n_sym |->
            IF k \in 1..Mac!MAX_SYM THEN Mac!Stored[k - 1] ELSE Mac!NoSymbol]
  OBVIOUS
<1> HIDE DEF d
<1>4. PICK T : T = S \union {d}
  OBVIOUS
<1>5. decoded \in Seq(T) /\ d \in T
  BY <1>2, <1>4
<1>6. /\ Append(decoded, d) \in Seq(T) /\ Len(decoded) \in Nat
      /\ DOMAIN decoded = 1..Len(decoded)
      /\ DOMAIN Append(decoded, d) = 1..Len(decoded) + 1
      /\ Append(decoded, d)[Len(decoded) + 1] = d
      /\ \A j \in DOMAIN decoded : Append(decoded, d)[j] = decoded[j]
  BY <1>5
<1>7. QED
  BY <1>1, <1>3, <1>6

LEMMA ReadingKept ==
  ASSUME Lasting, Reading, Mac!MacNext, UNCHANGED eqVars
  PROVE  Reading'
<1>0. nwritten' = nwritten /\ nwritten \in Nat /\ Tagged
  BY SymbolsStay DEF Lasting, IInv, EInv, Types
<1>1. CASE LookAt
  <2>1. DOMAIN d_rx_symbols' = DOMAIN d_rx_symbols
    BY <1>1, LookingAt, StoredDomain
  <2>2. \E S : decoded' \in Seq(S)
    <3>1. CASE decoded' = decoded
      BY <3>1 DEF Reading
    <3>2. CASE Mac!CopyLast
      BY <3>2, RunAdded
    <3>3. QED
      BY <1>1, <3>1, <3>2, LookingAt
  <2>3. d_frame'.n_sym \in Int /\ copied' \in Int
    BY <1>0, <1>1, LookingAt, LengthIsNumber
  <2>4. /\ nread' \in Nat /\ mninput' \in Nat /\ mi' \in 0..mninput'
        /\ nread' + mninput' <= nwritten' /\ mpc' # "idle"
    BY <1>0, <1>1, LookingAt DEF Reading
  <2>5. QED
    BY <2>1, <2>2, <2>3, <2>4 DEF Reading, Mac!MAX_SYM
<1>2. CASE Mac!MacCall
  <2>1. /\ nread' = nread /\ mi' = mi /\ mninput' \in 1..MaxMacCall
        /\ nread + mninput' <= nwritten /\ mpc' = "loop" /\ mi = 0
        /\ UNCHANGED <<copied, d_frame, d_rx_symbols, decoded>>
    BY <1>2 DEF Mac!MacCall, Reading
  <2>2. mninput' \in Nat /\ mi' \in 0..mninput'
    BY <2>1, MacAssumption DEF MacAssumption
  <2>3. QED
    BY <1>0, <2>1, <2>2 DEF Reading, Mac!MAX_SYM
<1>3. CASE Mac!MacReturn
  <2>1. /\ nread' = nread + mi /\ mi' = 0 /\ mninput' = 0
        /\ UNCHANGED <<copied, d_frame, d_rx_symbols, decoded>>
    BY <1>3 DEF Mac!MacReturn
  <2>2. QED
    BY <1>0, <2>1 DEF Reading, Mac!MAX_SYM
<1>4. QED
  BY <1>1, <1>2, <1>3 DEF Mac!MacNext, LookAt

LEMMA CurrentKept ==
  ASSUME Lasting, RInv, LookAt, UNCHANGED eqVars
  PROVE  Current'
<1>1. PICK k : k = r + 1
  OBVIOUS
<1>2. Mac!MacLooping /\ r' = k
  BY <1>1, LookingAt DEF RInv
<1>3. SUFFICES ASSUME Wanted(k) PROVE Collected(k)'
  BY <1>2, SymbolsStay DEF Current
<1>4. PICK f, p : f = out[k].frame /\ p = out[k].pos
  OBVIOUS
<1>5. /\ p \in Nat /\ p < Symbols(f) /\ Mac!count = p
      /\ Mac!current = [n_sym |-> Symbols(f), header |-> sent[f].header]
  BY <1>1, <1>2, <1>3, <1>4, WantedRead
<1>6. \A n \in 0..p : Mac!Stored[n] = [frame |-> f, pos |-> n]
  BY <1>1, <1>2, <1>3, <1>4, WantedStored
<1>7. /\ d_frame' = Mac!current /\ copied' = p + 1 /\ d_rx_symbols' = Mac!Stored
  BY <1>5, LookingAt DEF RInv
<1>8. out' = out /\ sent' = sent /\ \A g : Symbols(g)' = Symbols(g)
  BY SymbolsStay
<1>9. QED
  BY <1>4, <1>5, <1>6, <1>7, <1>8 DEF Collected

LEMMA FinishedKept ==
  ASSUME Lasting, RInv, LookAt, UNCHANGED eqVars
  PROVE  Finished'
<1>1. /\ r \in Nat /\ r' = r + 1 /\ Mac!MacLooping
  BY LookingAt, LooksAtWritten DEF RInv, Lasting
<1>2. /\ out' = out /\ \A f : Symbols(f)' = Symbols(f)
      /\ \A k : Wanted(k)' <=> Wanted(k)
      /\ \A d, f : Decoded(d, f)' <=> Decoded(d, f)
  BY SymbolsStay
<1>3. \A j \in DOMAIN decoded : j \in DOMAIN decoded' /\ decoded'[j] = decoded[j]
  <2>1. CASE Mac!CopyLast
    <3>1. Reading
      BY DEF RInv
    <3>2. PICK d : /\ DOMAIN decoded = 1..Len(decoded) /\ Len(decoded) \in Nat
                   /\ DOMAIN decoded' = 1..Len(decoded) + 1
                   /\ \A j \in DOMAIN decoded : decoded'[j] = decoded[j]
      BY <2>1, <3>1, RunAdded
    <3>3. QED
      BY <3>2
  <2>2. QED
    BY <2>1, LookingAt DEF RInv
<1>4. ASSUME NEW k \in 1..r', Wanted(k), out[k].pos + 1 = Symbols(out[k].frame)
      PROVE  \E j \in DOMAIN decoded' : Decoded(decoded'[j], out[k].frame)
  <2>1. CASE k \in 1..r
    <3>1. PICK j \in DOMAIN decoded : Decoded(decoded[j], out[k].frame)
      BY <1>4, <2>1 DEF RInv, Finished
    <3>2. QED
      BY <1>3, <3>1
  <2>2. CASE k = r + 1
    <3>1. PICK f, p : f = out[k].frame /\ p = out[k].pos
      OBVIOUS
    <3>2. /\ p \in Nat /\ Symbols(f) \in Nat /\ p < Symbols(f) /\ Symbols(f) <= Mac!MAX_SYM
          /\ Mac!count = p
          /\ Mac!current = [n_sym |-> Symbols(f), header |-> sent[f].header]
      BY <1>1, <1>4, <2>2, <3>1, WantedRead
    <3>3. \A n \in 0..p : Mac!Stored[n] = [frame |-> f, pos |-> n]
      BY <1>1, <1>4, <2>2, <3>1, WantedStored
    <3>4. PICK n \in Nat : n = Symbols(f) /\ p = n - 1 /\ n <= Mac!MAX_SYM
      BY <1>4, <3>1, <3>2
    <3>5. Mac!CopyLast
      <4>1. Mac!count = p /\ Mac!current.n_sym = n
        BY <3>2, <3>4
      <4>2. ~(p + 1 < n) /\ p < n
        BY <3>2, <3>4
      <4>3. ~Mac!CopySymbol /\ ~Mac!Ignore
        BY <4>1, <4>2 DEF Mac!CopySymbol, Mac!Ignore, Mac!Collect
      <4>4. QED
        BY <4>3 DEF LookAt
    <3>6. PICK d : /\ d.header = Mac!current.header
                   /\ d.symbols = [m \in 1..Mac!current.n_sym |->
                         IF m \in 1..Mac!MAX_SYM THEN Mac!Stored[m - 1] ELSE Mac!NoSymbol]
                   /\ Len(decoded) + 1 \in DOMAIN decoded'
                   /\ decoded'[Len(decoded) + 1] = d
      <4>1. Reading
        BY DEF RInv
      <4>2. PICK d : /\ d.header = Mac!current.header
                     /\ d.symbols = [m \in 1..Mac!current.n_sym |->
                         IF m \in 1..Mac!MAX_SYM THEN Mac!Stored[m - 1] ELSE Mac!NoSymbol]
                     /\ DOMAIN decoded' = 1..Len(decoded) + 1 /\ Len(decoded) \in Nat
                     /\ decoded'[Len(decoded) + 1] = d
        BY <3>5, <4>1, RunAdded
      <4>3. Len(decoded) + 1 \in DOMAIN decoded'
        BY <4>2
      <4>4. QED
        BY <4>2, <4>3
    <3>7. d.symbols = [m \in 1..n |-> [frame |-> f, pos |-> m - 1]]
      <4>1. d.symbols = [m \in 1..n |->
               IF m \in 1..Mac!MAX_SYM THEN Mac!Stored[m - 1] ELSE Mac!NoSymbol]
        BY <3>2, <3>4, <3>6
      <4>2. \A m \in 1..n : m \in 1..Mac!MAX_SYM /\ m - 1 \in 0..p
        BY <3>4, MaxSymIsNatural
      <4>3. \A m \in 1..n : Mac!Stored[m - 1] = [frame |-> f, pos |-> m - 1]
        BY <3>3, <4>2
      <4>4. QED
        BY <4>1, <4>2, <4>3
    <3>8. d.header = sent[f].header /\ sent[f].header.ok
      BY <1>4, <3>1, <3>2, <3>6 DEF Wanted, Fits
    <3>9. Decoded(d, f)
      BY <3>4, <3>7, <3>8 DEF Decoded
    <3>10. QED
      BY <3>1, <3>6, <3>9
  <2>3. QED
    BY <1>1, <2>1, <2>2
<1>5. QED
  BY <1>2, <1>4 DEF Finished

(* The last symbol of the run that is added is the one looked at, or beyond  *)
(* the buffer.                                                              *)
LEMMA LastAdded ==
  ASSUME Lasting, Reading, Mac!CopyLast, NEW n \in Nat \ {0},
         NEW d, d.symbols = [k \in 1..Mac!current.n_sym |->
                    IF k \in 1..Mac!MAX_SYM THEN Mac!Stored[k - 1] ELSE Mac!NoSymbol],
         DOMAIN d.symbols = 1..n, Mac!count + 1 = Mac!current.n_sym,
         NEW k, k = r + 1
  PROVE  d.symbols[n] \in {Mac!NoSymbol, [frame |-> out[k].frame, pos |-> out[k].pos]}
<1>1. PICK m \in Int : m = Mac!current.n_sym
  BY LengthIsNumber DEF Lasting, EInv
<1>2. 1..m = 1..n
  BY <1>1
<1>3. m = n
  <2>1. n \in 1..m /\ m >= 1
    BY <1>2
  <2>2. m \in 1..n
    BY <1>2, <2>1
  <2>3. QED
    BY <2>1, <2>2
<1>4. d.symbols[n] = IF n \in 1..Mac!MAX_SYM THEN Mac!Stored[n - 1] ELSE Mac!NoSymbol
  BY <1>1, <1>3
<1>5. CASE n \in 1..Mac!MAX_SYM
  <2>1. PICK c : c = n - 1
    OBVIOUS
  <2>2. c \in DOMAIN d_rx_symbols
    BY <1>5, <2>1, MaxSymIsNatural DEF Reading
  <2>3. Mac!count = c
    <3>1. Mac!count \in Int
      BY LengthIsNumber DEF Lasting, EInv
    <3>2. QED
      BY <1>1, <1>3, <2>1, <3>1
  <2>4. k = nread + mi + 1
    BY DEF r
  <2>5. Mac!Stored[c] = [frame |-> out[k].frame, pos |-> out[k].pos]
    BY <2>2, <2>3, <2>4 DEF Mac!Stored
  <2>6. QED
    BY <1>4, <1>5, <2>1, <2>5
<1>6. QED
  BY <1>4, <1>5

LEMMA LastsKept ==
  ASSUME Lasting, RInv, LookAt, UNCHANGED eqVars
  PROVE  LastsRead'
<1>1. /\ r \in Nat /\ r' = r + 1 /\ Reading /\ out' = out
  BY LookingAt, LooksAtWritten, SymbolsStay DEF RInv, Lasting
<1>2. ASSUME NEW d, NEW n, LastOf(d, n)
      PROVE  LastOf(d, n)'
  <2>1. 1..r \subseteq 1..r'
    BY <1>1
  <2>2. QED
    BY <1>1, <1>2, <2>1 DEF LastOf
<1>3. CASE decoded' = decoded
  BY <1>2, <1>3 DEF RInv, LastsRead
<1>4. CASE Mac!CopyLast
  <2>1. PICK d : /\ d.symbols = [k \in 1..Mac!current.n_sym |->
                      IF k \in 1..Mac!MAX_SYM THEN Mac!Stored[k - 1] ELSE Mac!NoSymbol]
                /\ Mac!count + 1 = Mac!current.n_sym
                /\ DOMAIN decoded = 1..Len(decoded) /\ Len(decoded) \in Nat
                /\ DOMAIN decoded' = 1..Len(decoded) + 1
                /\ decoded'[Len(decoded) + 1] = d
                /\ \A j \in DOMAIN decoded : decoded'[j] = decoded[j]
    BY <1>1, <1>4, RunAdded
  <2>2. ASSUME NEW n \in Nat \ {0}, DOMAIN d.symbols = 1..n
        PROVE  LastOf(d, n)'
    <3>1. PICK k : k = r + 1
      OBVIOUS
    <3>2. d.symbols[n] \in {Mac!NoSymbol, [frame |-> out[k].frame, pos |-> out[k].pos]}
      BY <1>1, <1>4, <2>1, <2>2, <3>1, LastAdded
    <3>3. k \in 1..r'
      BY <1>1, <3>1
    <3>4. QED
      BY <1>1, <3>2, <3>3 DEF LastOf
  <2>3. ASSUME NEW j \in DOMAIN decoded', NEW n \in Nat \ {0},
               DOMAIN decoded'[j].symbols = 1..n
        PROVE  LastOf(decoded[j], n)'
    <3>1. CASE j \in DOMAIN decoded
      <4>1. LastOf(decoded[j], n)
        BY <2>1, <2>3, <3>1 DEF RInv, LastsRead
      <4>2. PICK e : e = decoded[j] /\ e = decoded'[j]
        BY <2>1, <3>1
      <4>3. LastOf(e, n)'
        BY <1>2, <4>1, <4>2
      <4>4. QED
        BY <4>2, <4>3
    <3>2. CASE j = Len(decoded) + 1
      BY <2>1, <2>2, <2>3, <3>2
    <3>3. QED
      BY <2>1, <3>1, <3>2
  <2>4. QED
    BY <2>3 DEF LastsRead
<1>5. QED
  BY <1>1, <1>3, <1>4, LookingAt

(* What decode() was run on ends with the last symbol of its frame.         *)
LEMMA DecodedLast ==
  ASSUME IInv, NEW f \in 1..frame, NEW d, Decoded(d, f)
  PROVE  \E n \in Nat \ {0} : /\ n = Symbols(f) /\ DOMAIN d.symbols = 1..n
                              /\ d.symbols[n] = [frame |-> f, pos |-> n - 1]
<1>1. sent[f].header \in Headers
  BY SymbolsOfSent DEF IInv
<1>2. PICK n \in Nat \ {0} : n = Symbols(f)
  BY <1>1, SomeSymbols DEF Decoded, Symbols
<1>3. d.symbols = [k \in 1..n |-> [frame |-> f, pos |-> k - 1]]
  BY <1>2 DEF Decoded
<1>4. n \in 1..n
  OBVIOUS
<1>5. QED
  BY <1>2, <1>3, <1>4

LEMMA NotNoSymbol ==
  ASSUME NEW f, f # 0, NEW p
  PROVE  [frame |-> f, pos |-> p] # Mac!NoSymbol
<1>1. [frame |-> f, pos |-> p].frame = f /\ Mac!NoSymbol.frame = 0
  BY DEF Mac!NoSymbol
<1>2. QED
  BY <1>1

(* So the last symbol of a decoded frame was read.                          *)
LEMMA DecodedWasRead ==
  ASSUME IInv, LastsRead, NEW f \in 1..frame, NEW j \in DOMAIN decoded, Decoded(decoded[j], f)
  PROVE  \E k \in 1..r : out[k].frame = f /\ out[k].pos = Symbols(f) - 1
<1>1. PICK n \in Nat \ {0} : /\ n = Symbols(f) /\ DOMAIN decoded[j].symbols = 1..n
                             /\ decoded[j].symbols[n] = [frame |-> f, pos |-> n - 1]
  BY DecodedLast
<1>2. LastOf(decoded[j], n)
  BY <1>1 DEF LastsRead
<1>3. PICK k \in 1..r : [frame |-> f, pos |-> n - 1] = [frame |-> out[k].frame, pos |-> out[k].pos]
  BY <1>1, <1>2, NotNoSymbol DEF LastOf
<1>4. f = out[k].frame /\ n - 1 = out[k].pos
  BY <1>3
<1>5. QED
  BY <1>1, <1>4

LEMMA OrderKept ==
  ASSUME Lasting, RInv, LookAt, UNCHANGED eqVars
  PROVE  DecodedInOrder'
<1>1. /\ r \in Nat /\ Reading /\ LastsRead /\ Mac!MacLooping /\ r + 1 \in DOMAIN out
      /\ \A k \in 1..r : k \in DOMAIN out
      /\ IInv /\ EInv /\ Sorted
  BY LookingAt, LooksAtWritten DEF RInv, Lasting
<1>2. frame' = frame /\ \A d, f : Decoded(d, f)' <=> Decoded(d, f)
  BY SymbolsStay
<1>3. CASE decoded' = decoded
  BY <1>2, <1>3 DEF RInv, DecodedInOrder
<1>4. CASE Mac!CopyLast
  <2>1. PICK d : /\ d.symbols = [k \in 1..Mac!current.n_sym |->
                      IF k \in 1..Mac!MAX_SYM THEN Mac!Stored[k - 1] ELSE Mac!NoSymbol]
                /\ Mac!count + 1 = Mac!current.n_sym
                /\ DOMAIN decoded = 1..Len(decoded) /\ Len(decoded) \in Nat
                /\ DOMAIN decoded' = 1..Len(decoded) + 1
                /\ decoded'[Len(decoded) + 1] = d
                /\ \A j \in DOMAIN decoded : decoded'[j] = decoded[j]
    BY <1>1, <1>4, RunAdded
  <2>2. PICK k \in DOMAIN out : k = r + 1
    BY <1>1
  <2>3. ASSUME NEW j \in DOMAIN decoded, NEW f \in 1..frame, NEW g \in 1..frame,
               Decoded(decoded[j], f), Decoded(d, g)
        PROVE  f < g
    <3>1. PICK m \in 1..r : out[m].frame = f /\ out[m].pos = Symbols(f) - 1
      BY <1>1, <2>3, DecodedWasRead
    <3>2. PICK n \in Nat \ {0} : /\ n = Symbols(g) /\ DOMAIN d.symbols = 1..n
                                 /\ d.symbols[n] = [frame |-> g, pos |-> n - 1]
      BY <1>1, <2>3, DecodedLast
    <3>3. d.symbols[n] \in {Mac!NoSymbol, [frame |-> out[k].frame, pos |-> out[k].pos]}
      BY <1>1, <1>4, <2>1, <2>2, <3>2, LastAdded
    <3>4. [frame |-> g, pos |-> n - 1] = [frame |-> out[k].frame, pos |-> out[k].pos]
      BY <3>2, <3>3, NotNoSymbol
    <3>5. g = out[k].frame /\ out[k].pos = Symbols(g) - 1
      BY <3>2, <3>4
    <3>6. m \in DOMAIN out /\ m < k
      BY <1>1, <2>2
    <3>7. f <= g
      BY <1>1, <3>1, <3>5, <3>6 DEF Sorted
    <3>8. f # g
      <4> SUFFICES ASSUME f = g PROVE FALSE
        OBVIOUS
      <4>1. m = k
        BY <1>1, <3>1, <3>5, <3>6, Neighbours
      <4>2. QED
        BY <1>1, <2>2, <3>6, <4>1
    <3>9. QED
      BY <3>7, <3>8
  <2>4. ASSUME NEW i1 \in DOMAIN decoded', NEW j1 \in DOMAIN decoded',
               NEW f \in 1..frame, NEW g \in 1..frame, i1 < j1,
               Decoded(decoded'[i1], f), Decoded(decoded'[j1], g)
        PROVE  f < g
    <3>1. i1 \in DOMAIN decoded /\ (j1 \in DOMAIN decoded \/ j1 = Len(decoded) + 1)
      BY <2>1, <2>4
    <3>2. CASE j1 \in DOMAIN decoded
      BY <2>1, <2>4, <3>1, <3>2 DEF RInv, DecodedInOrder
    <3>3. CASE j1 = Len(decoded) + 1
      BY <2>1, <2>3, <2>4, <3>1, <3>3
    <3>4. QED
      BY <3>1, <3>2, <3>3
  <2>5. QED
    BY <1>2, <2>4 DEF DecodedInOrder
<1>5. QED
  BY <1>1, <1>3, <1>4, LookingAt

(* A call that starts or returns looks at no symbol.                        *)
LEMMA CallKeeps ==
  ASSUME Lasting, RInv, Mac!MacCall \/ Mac!MacReturn, UNCHANGED eqVars
  PROVE  Current' /\ Finished' /\ LastsRead' /\ DecodedInOrder'
<1>1. UNCHANGED <<copied, d_frame, d_rx_symbols, accepted, decoded>>
  BY DEF Mac!MacCall, Mac!MacReturn
<1>2. r' = r
  BY DEF Mac!MacCall, Mac!MacReturn, RInv, Reading, r
<1>3. /\ out' = out /\ sent' = sent /\ frame' = frame
      /\ \A k : Wanted(k)' <=> Wanted(k)
      /\ \A f : Symbols(f)' = Symbols(f)
      /\ \A d, f : Decoded(d, f)' <=> Decoded(d, f)
  BY SymbolsStay
<1>4. Current'
  <2>1. \A k : Collected(k)' <=> Collected(k)
    BY <1>1, <1>3 DEF Collected
  <2>2. QED
    BY <1>2, <1>3, <2>1 DEF RInv, Current
<1>5. Finished'
  BY <1>1, <1>2, <1>3 DEF RInv, Finished
<1>6. LastsRead'
  <2>1. \A d, n : LastOf(d, n)' <=> LastOf(d, n)
    BY <1>2, <1>3 DEF LastOf
  <2>2. QED
    BY <1>1, <2>1 DEF RInv, LastsRead
<1>7. DecodedInOrder'
  BY <1>1, <1>3 DEF RInv, DecodedInOrder
<1>8. QED
  BY <1>4, <1>5, <1>6, <1>7

LEMMA MacStepKeeps ==
  ASSUME Lasting, RInv, MacStep
  PROVE  Lasting' /\ RInv'
<1>1. Mac!MacNext /\ UNCHANGED eqVars
  BY DEF MacStep
<1>2. Lasting'
  BY <1>1, LastingKept
<1>3. Reading'
  BY <1>1, ReadingKept DEF RInv
<1>4. Bounded'
  BY <1>1, MacKeepsBounds DEF RInv, Lasting, EInv
<1>5. Current' /\ Finished' /\ LastsRead' /\ DecodedInOrder'
  BY <1>1, CallKeeps, CurrentKept, FinishedKept, LastsKept, OrderKept DEF Mac!MacNext, LookAt
<1>6. QED
  BY <1>2, <1>3, <1>4, <1>5 DEF RInv

-----------------------------------------------------------------------------
(* What the frame equalizer adds disturbs nothing that decode_mac has read.  *)
LEMMA ReadStays ==
  ASSUME Lasting, Reading, [Next]_eqVars, UNCHANGED macVars
  PROVE  /\ r' = r /\ UNCHANGED <<copied, d_frame, d_rx_symbols, decoded>>
         /\ frame \in Nat /\ frame' \in Nat /\ frame <= frame'
         /\ nwritten' \in Nat /\ nwritten <= nwritten'
         /\ \A k \in 1..r : /\ k \in DOMAIN out /\ out'[k] = out[k]
                            /\ out[k].frame \in 1..frame
                            /\ Wanted(k)' => Wanted(k)
         /\ \A f \in 1..frame : sent'[f].header = sent[f].header /\ Symbols(f)' = Symbols(f)
         /\ \A d, f : f \in 1..frame => (Decoded(d, f)' <=> Decoded(d, f))
<1>1. IInv /\ EInv
  BY DEF Lasting
<1>2. /\ nwritten' \in Nat /\ nwritten <= nwritten' /\ (sent' = sent \/ Advance)
      /\ \A k \in DOMAIN out : k \in DOMAIN out' /\ out'[k] = out[k]
      /\ \A t \in DOMAIN outTags : t \in DOMAIN outTags' /\ outTags'[t] = outTags[t]
  BY <1>1, EqualizerGrows
<1>3. /\ frame \in Nat /\ frame' \in Nat /\ frame <= frame'
      /\ \A f \in 1..frame : sent'[f].header = sent[f].header /\ Symbols(f)' = Symbols(f)
  BY <1>1, <1>2, FramesStay
<1>4. r' = r /\ UNCHANGED <<copied, d_frame, d_rx_symbols, decoded>>
  BY DEF macVars, r
<1>5. \A d, f : f \in 1..frame => (Decoded(d, f)' <=> Decoded(d, f))
  BY <1>3 DEF Decoded
<1>6. \A f \in 1..frame : Fits(f)' <=> Fits(f)
  BY <1>3 DEF Fits, Mac!MAX_SYM
<1>7. \A s : OneTag(s)' => OneTag(s)
  BY <1>2 DEF OneTag
<1>8. ASSUME NEW k \in 1..r
      PROVE  /\ k \in DOMAIN out /\ out'[k] = out[k] /\ out[k].frame \in 1..frame
             /\ Wanted(k)' => Wanted(k)
  <2>1. k \in DOMAIN out
    BY <1>1, LooksAtWritten
  <2>2. PICK f \in 1..frame : f = out[k].frame
    BY <1>1, <2>1, Neighbours
  <2>3. PICK s : s = k - 1 - out[k].pos
    OBVIOUS
  <2>4. Wanted(k) <=> Fits(f) /\ OneTag(s)
    BY <2>2, <2>3 DEF Wanted, Start
  <2>5. Wanted(k)' <=> Fits(f)' /\ OneTag(s)'
    BY <1>2, <2>1, <2>2, <2>3 DEF Wanted, Start
  <2>6. QED
    BY <1>2, <1>6, <1>7, <2>1, <2>2, <2>4, <2>5
<1>9. QED
  BY <1>2, <1>3, <1>4, <1>5, <1>8

LEMMA HeaderLater ==
  ASSUME IInv', NEW f \in 1..frame'
  PROVE  sent'[f].header \in Headers
<1>1. sent' \in Seq(FrameRecord) /\ frame' = Len(sent')
  BY DEF IInv, Types, frame
<1>2. sent'[f] \in FrameRecord
  BY <1>1
<1>3. QED
  BY <1>2 DEF FrameRecord

LEMMA EqualizerStepKeeps ==
  ASSUME Lasting, RInv, [Next]_eqVars, UNCHANGED macVars
  PROVE  Lasting' /\ RInv'
<1>0. Reading /\ IInv /\ EInv
  BY DEF RInv, Lasting
<1>1. /\ r' = r /\ UNCHANGED <<copied, d_frame, d_rx_symbols, decoded>>
      /\ frame \in Nat /\ frame' \in Nat /\ frame <= frame'
      /\ nwritten' \in Nat /\ nwritten <= nwritten' /\ nwritten \in Nat
      /\ \A k \in 1..r : /\ k \in DOMAIN out /\ out'[k] = out[k]
                         /\ out[k].frame \in 1..frame
                         /\ Wanted(k)' => Wanted(k)
      /\ \A f \in 1..frame : sent'[f].header = sent[f].header /\ Symbols(f)' = Symbols(f)
      /\ \A d, f : f \in 1..frame => (Decoded(d, f)' <=> Decoded(d, f))
  BY <1>0, ReadStays DEF IInv, Types
<1>2. Lasting'
  BY LastingKept
<1>3. Reading'
  BY <1>1 DEF RInv, Reading, macVars, Mac!MAX_SYM
<1>4. Bounded'
  BY DEF RInv, Bounded, macVars, Mac!MAX_SYM
<1>5. Current'
  <2>1. PICK k : k = r
    OBVIOUS
  <2>2. SUFFICES ASSUME k > 0, Wanted(k)' PROVE Collected(k)'
    BY <1>1, <2>1 DEF Current
  <2>3. k \in 1..r
    BY <1>0, <2>1, <2>2, LooksAtWritten
  <2>4. Collected(k)
    BY <1>1, <2>1, <2>2, <2>3 DEF RInv, Current
  <2>5. PICK f \in 1..frame : f = out[k].frame /\ out'[k] = out[k]
    BY <1>1, <2>3
  <2>6. QED
    BY <1>1, <2>4, <2>5 DEF Collected
<1>6. Finished'
  <2> SUFFICES ASSUME NEW k \in 1..r', Wanted(k)',
                      out'[k].pos + 1 = Symbols(out[k].frame)'
               PROVE  \E j \in DOMAIN decoded' : Decoded(decoded[j], out[k].frame)'
    BY DEF Finished
  <2>1. k \in 1..r /\ Wanted(k)
    BY <1>1
  <2>2. PICK f \in 1..frame : f = out[k].frame /\ out'[k] = out[k]
    BY <1>1, <2>1
  <2>3. Symbols(out[k].frame)' = Symbols(f)
    BY <1>1, <2>2
  <2>4. PICK j \in DOMAIN decoded : Decoded(decoded[j], f)
    BY <2>1, <2>2, <2>3 DEF RInv, Finished
  <2>5. PICK d : d = decoded[j] /\ d = decoded'[j]
    BY <1>1
  <2>6. Decoded(d, f)'
    BY <1>1, <2>4, <2>5
  <2>7. QED
    BY <1>1, <2>2, <2>5, <2>6
<1>7. LastsRead'
  <2>1. ASSUME NEW d, NEW n, LastOf(d, n) PROVE LastOf(d, n)'
    BY <1>1, <2>1 DEF LastOf
  <2>2. QED
    BY <1>1, <2>1 DEF RInv, LastsRead
<1>8. DecodedInOrder'
  <2>1. ASSUME NEW j \in DOMAIN decoded, NEW f \in 1..frame', NEW d, d = decoded[j],
               Decoded(d, f)'
        PROVE  f \in 1..frame
    <3>1. PICK n \in Nat \ {0} : /\ DOMAIN d.symbols = 1..n
                                 /\ d.symbols[n] = [frame |-> f, pos |-> n - 1]
      <4>1. IInv'
        BY <1>2 DEF Lasting
      <4>2. sent'[f].header \in Headers
        BY <4>1, HeaderLater
      <4>3. PICK n \in Nat \ {0} : n = Symbols(f)'
        BY <2>1, <4>2, SomeSymbols DEF Decoded, Symbols
      <4>4. d.symbols = [k \in 1..n |-> [frame |-> f, pos |-> k - 1]]
        BY <2>1, <4>3 DEF Decoded
      <4>5. n \in 1..n
        OBVIOUS
      <4>6. QED
        BY <4>4, <4>5
    <3>2. LastOf(d, n)
      BY <2>1, <3>1 DEF RInv, LastsRead
    <3>3. f # 0
      OBVIOUS
    <3>4. PICK k \in 1..r :
            [frame |-> f, pos |-> n - 1] = [frame |-> out[k].frame, pos |-> out[k].pos]
      BY <3>1, <3>2, <3>3, NotNoSymbol DEF LastOf
    <3>5. f = out[k].frame
      BY <3>4
    <3>6. QED
      BY <1>1, <3>5
  <2>2. ASSUME NEW j \in DOMAIN decoded, NEW k \in DOMAIN decoded, j < k,
               NEW f \in 1..frame', NEW g \in 1..frame',
               NEW d, NEW e, d = decoded[j], e = decoded[k],
               Decoded(d, f)', Decoded(e, g)'
        PROVE  f < g
    <3>1. f \in 1..frame /\ g \in 1..frame
      BY <2>1, <2>2
    <3>2. Decoded(d, f) /\ Decoded(e, g)
      BY <1>1, <2>2, <3>1
    <3>3. QED
      BY <2>2, <3>1, <3>2 DEF RInv, DecodedInOrder
  <2>3. QED
    BY <1>1, <2>2 DEF DecodedInOrder
<1>9. QED
  BY <1>2, <1>3, <1>4, <1>5, <1>6, <1>7, <1>8 DEF RInv

-----------------------------------------------------------------------------
LEMMA InitiallyRInv == RxInit => Lasting /\ RInv
<1> SUFFICES ASSUME RxInit PROVE Lasting /\ RInv
  OBVIOUS
<1>1. Init /\ Mac!MacInit
  BY DEF RxInit
<1>2. Lasting
  BY <1>1, LastingInitially
<1>3. /\ nread = 0 /\ mninput = 0 /\ mi = 0 /\ accepted = FALSE /\ decoded = <<>>
      /\ copied \in Int /\ d_frame.n_sym \in Int
      /\ DOMAIN d_rx_symbols = 0..Mac!MAX_SYM - 1
      /\ nwritten = 0
  BY <1>1, MacAssumption DEF MacAssumption, Mac!MacInit, Init
<1>4. decoded \in Seq({0})
  BY <1>3
<1>5. Reading /\ r = 0
  BY <1>3, <1>4 DEF Reading, r
<1>6. Bounded /\ Current /\ Finished /\ LastsRead /\ DecodedInOrder
  BY <1>3, <1>5 DEF Bounded, Current, Finished, LastsRead, DecodedInOrder
<1>7. QED
  BY <1>2, <1>5, <1>6 DEF RInv

LEMMA RxAlways == RxSpec => [](Lasting /\ RInv)
<1>1. Lasting /\ RInv /\ [RxNext]_vars => Lasting' /\ RInv'
  <2> SUFFICES ASSUME Lasting, RInv, [RxNext]_vars PROVE Lasting' /\ RInv'
    OBVIOUS
  <2>1. CASE EqualizerStep
    BY <2>1, EqualizerStepKeeps DEF EqualizerStep
  <2>2. CASE MacStep
    BY <2>2, MacStepKeeps
  <2>3. CASE UNCHANGED vars
    BY <2>3, EqualizerStepKeeps DEF vars
  <2>4. QED
    BY <2>1, <2>2, <2>3 DEF RxNext
<1>2. QED
  BY <1>1, InitiallyRInv, PTL DEF RxSpec

(* Both blocks and the buffer between them keep their types.                *)
THEOREM RxTypesCorrect == RxSpec => []RxTypeOK
<1>1. Lasting /\ RInv => RxTypeOK
  BY TypesSuffice DEF Lasting, RInv, Reading, RxTypeOK
<1>2. QED
  BY <1>1, RxAlways, PTL

(* From the first header it accepts on, decode_mac collects no more symbols  *)
(* than its buffer has and decodes no more bytes than out_bytes has          *)
(* (decode_mac.cc:84-87, 98, 225), whatever the frame equalizer writes,      *)
(* wherever frames are cut short and however the two threads take turns.     *)
THEOREM StaysInsideBuffer == RxSpec => []InsideBuffer
<1>1. RInv => InsideBuffer
  BY DEF RInv, Bounded, InsideBuffer
<1>2. QED
  BY <1>1, RxAlways, PTL

(* No frame is lost: one that fits, arrives whole and has no second tag on   *)
(* its first symbol is decoded from exactly its own symbols, whatever came   *)
(* before it (decode_mac.cc:70-117, frame_equalizer_impl.cc:127-225).        *)
THEOREM NoFrameIsLost == RxSpec => []NoFrameLost
<1>1. Lasting /\ RInv => NoFrameLost
  <2> SUFFICES ASSUME Lasting, RInv,
                      NEW f \in 1..frame, NEW s \in 0..Len(out),
                      Fits(f), IsRun(out, f, s, Symbols(f)), s + Symbols(f) <= nread,
                      OneTag(s)
               PROVE  \E j \in DOMAIN decoded : Decoded(decoded[j], f)
    BY DEF NoFrameLost
  <2>1. IInv /\ EInv /\ Reading /\ Finished /\ Len(out) \in Nat
    BY DEF Lasting, RInv, IInv, Types
  <2>2. sent[f].header \in Headers
    BY <2>1, SymbolsOfSent DEF IInv
  <2>3. PICK n \in Nat \ {0} : n = Symbols(f)
    BY <2>2, SomeSymbols DEF Fits, Symbols
  <2>a. s \in Nat /\ n \in Nat /\ n >= 1 /\ nread \in Nat /\ mi \in Nat /\ s + n <= nread
    BY <2>1, <2>3 DEF Reading
  <2>4. PICK k \in Nat : k = s + n /\ k >= 1 /\ k <= nread + mi /\ k - s - 1 = n - 1
                         /\ k - 1 - (n - 1) = s /\ (n - 1) + 1 = n /\ k \in s + 1..s + n
    BY <2>a
  <2>b. k <= r /\ r \in Nat
    BY <2>1, <2>4, LooksAtWritten DEF r
  <2>5. k \in 1..r
    BY <2>4, <2>b
  <2>6. k \in DOMAIN out
    BY <2>1, <2>5, LooksAtWritten
  <2>c. out[k].frame = f /\ out[k].pos = k - s - 1
    BY <2>3, <2>4, <2>6 DEF IsRun
  <2>7. out[k].frame = f /\ out[k].pos = n - 1
    BY <2>4, <2>c
  <2>8. k - 1 - out[k].pos = s /\ out[k].pos + 1 = n
    BY <2>4, <2>7
  <2>9. Wanted(k) /\ out[k].pos + 1 = Symbols(out[k].frame)
    BY <2>3, <2>7, <2>8 DEF Wanted, Start
  <2>10. QED
    BY <2>1, <2>5, <2>7, <2>9 DEF Finished
<1>2. QED
  BY <1>1, RxAlways, PTL

(* A frame is decoded at most once, and frames are decoded in the order in   *)
(* which they were received (decode_mac.cc:95-107).                          *)
THEOREM FramesAreDecodedInOrder == RxSpec => []DecodedInOrder
<1>1. RInv => DecodedInOrder
  BY DEF RInv
<1>2. QED
  BY <1>1, RxAlways, PTL

=============================================================================
