--------------------------- MODULE SoftEqualizer ---------------------------
(***************************************************************************)
(* soft_frame_equalizer (src/lib/soft_frame_equalizer_impl.cc) with its      *)
(* only equalizer, equalizer/ls_soft.cc.  Which vectors it reads, skips and  *)
(* writes is copied from frame_equalizer, and is FrameEqualizer here.  What  *)
(* is new: the second training symbol tells whether ZigBee interferes, the   *)
(* soft bits of the subcarriers hit are set to zero until the frame ends,    *)
(* a noise estimate is published with each data symbol, all soft bits are     *)
(* divided by the energy of the channel, and the scaling and the threshold   *)
(* can be set without the lock that general_work holds.                      *)
(***************************************************************************)
EXTENDS FrameEqualizer

CONSTANTS
  NLRs,        (* Noise ratios that training symbols may show               *)
  Thresholds,  (* Values of the threshold                                   *)
  Algorithms,  (* Algorithms that set_algorithm is called with              *)
  MaxSets      (* Bound of the model: calls of setters.                     *)

ASSUME SoftAssumption ==
  /\ NLRs \subseteq Nat /\ NLRs # {}
  /\ Thresholds \subseteq Nat /\ Thresholds # {}
  /\ Algorithms \subseteq {"LS_s", "LMS_s", "COMB_s", "STA_s"}
  /\ MaxSets \in Nat

VARIABLES
  d_equalizer,     (* whether d_equalizer points to an object               *)
  d_scaling, d_threshold,
  d_interference,
  d_temp,          (* the frames whose channel has gone into the energy     *)
  noise_vec,       (* local to a call: the frame whose noise it has, 0:     *)
                   (* never written                                         *)
  llr,             (* of each written symbol: whether the subcarriers were  *)
                   (* set to zero, whether scaling was on then, and the     *)
                   (* energy that its soft bits were divided by             *)
  noise,           (* the published noise vectors                           *)
  detected,        (* history: the frames with a ratio above the threshold  *)
  sets             (* calls of setters so far                               *)

softVars == <<d_equalizer, d_scaling, d_threshold, d_interference, d_temp, noise_vec,
              llr, noise, detected, sets>>
softEqVars == <<eqVars, softVars>>

SoftInit ==
  /\ Init
  /\ d_equalizer = TRUE
  /\ d_scaling \in BOOLEAN /\ d_threshold \in Thresholds
  /\ d_interference = FALSE
  /\ d_temp = {}
  /\ noise_vec = 0
  /\ llr = <<>> /\ noise = <<>>
  /\ detected = {}
  /\ sets = 0

-----------------------------------------------------------------------------
(* The setters *)

(* The old object is deleted; only one algorithm has a new one, the others   *)
(* raise an exception.                                                       *)
soft_set_algorithm(algo) ==
  /\ sets < MaxSets /\ sets' = sets + 1
  /\ set_algorithm
  /\ d_equalizer' = (algo = "LS_s")
  /\ d_interference' = FALSE
  /\ d_temp' = {}
  /\ UNCHANGED <<d_scaling, d_threshold, noise_vec, llr, noise, detected>>

(* Without the lock: at any time.                                           *)
set_scaling ==
  /\ sets < MaxSets /\ sets' = sets + 1
  /\ d_scaling' = ~d_scaling
  /\ UNCHANGED <<eqVars, d_equalizer, d_threshold, d_interference, d_temp, noise_vec,
                 llr, noise, detected>>

set_threshold ==
  /\ sets < MaxSets /\ sets' = sets + 1
  /\ d_threshold' \in Thresholds \ {d_threshold}
  /\ UNCHANGED <<eqVars, d_equalizer, d_scaling, d_interference, d_temp, noise_vec,
                 llr, noise, detected>>

-----------------------------------------------------------------------------
(* general_work and equalize_soft *)

SoftCall ==
  /\ Call
  /\ noise_vec' = 0
  /\ UNCHANGED <<d_equalizer, d_scaling, d_threshold, d_interference, d_temp, llr,
                 noise, detected, sets>>

SoftSkip == Skip /\ UNCHANGED softVars

(* A bug: the flag is set, and left to the end of the frame to be cleared. *)
Detect_OnlySet(nlr) == d_interference' = (d_interference \/ nlr > d_threshold)

Detect(nlr) == d_interference' = (nlr > d_threshold)

(* A bug: the noise vector is copied with the first training symbol. *)
CopyNoise_First == noise_vec' = IF symbol = 0 THEN d_H[2] ELSE noise_vec

(* The copy of the noise estimate, which is made with the second training   *)
(* symbol and of its frame.                                                 *)
CopyNoise == noise_vec' = IF symbol = 1 THEN frame ELSE noise_vec

(* The second training symbol adds the energy of its frame's channel to what *)
(* there is, a 64th of the energy before: d_temp is never set back.          *)
SoftTraining ==
  /\ d_equalizer
  /\ Training
  /\ CopyNoise
  /\ \/ /\ symbol = 0 /\ UNCHANGED <<d_interference, d_temp, detected>>
     \/ /\ symbol = 1
        /\ d_temp' = d_temp \union {frame}
        /\ \E nlr \in NLRs :
             /\ Detect(nlr)
             /\ detected' = IF nlr > d_threshold THEN detected \union {frame} ELSE detected
  /\ UNCHANGED <<d_equalizer, d_scaling, d_threshold, llr, noise, sets>>

(* The soft bits of the SIGNAL symbol are not written.                      *)
SoftSignal == d_equalizer /\ Signal /\ UNCHANGED softVars

(* A bug: one of the vectors before the data symbols is forgotten. *)
FrameEnds_Early == symbol - d_frame_symbols = 1

FrameEnds == symbol - d_frame_symbols = 2

SoftData ==
  /\ d_equalizer
  /\ Data
  /\ d_interference' = (d_interference /\ ~FrameEnds)
  /\ llr' = Append(llr, [zeroed |-> d_interference' /\ d_scaling, scaling |-> d_scaling,
                         energy |-> d_temp])
  /\ noise' = Append(noise, noise_vec)
  /\ UNCHANGED <<d_equalizer, d_scaling, d_threshold, d_temp, noise_vec, detected, sets>>

SoftReturn == Return /\ UNCHANGED softVars

SoftNext ==
  \/ SoftCall \/ SoftSkip \/ SoftTraining \/ SoftSignal \/ SoftData \/ SoftReturn
  \/ set_scaling \/ set_threshold
  \/ \E algo \in Algorithms : soft_set_algorithm(algo)

SoftSpec == SoftInit /\ [][SoftNext]_softEqVars

-----------------------------------------------------------------------------
(* Properties *)

(* Type invariant.                                                          *)
SoftTypeOK ==
  /\ d_equalizer \in BOOLEAN /\ d_scaling \in BOOLEAN /\ d_threshold \in Thresholds
  /\ d_interference \in BOOLEAN
  /\ d_temp \subseteq 1..MaxFrames /\ noise_vec \in 0..MaxFrames
  /\ Len(llr) = nwritten + o /\ Len(noise) = Len(llr)
  /\ detected \subseteq 1..MaxFrames
  /\ sets \in 0..MaxSets

(* Position of the last data symbol that the SIGNAL symbol announces        *)
LastPos(f) == Symbols(f) - 1

(* Soft bits are set to zero only in a frame whose own training symbols      *)
(* showed interference: the flag of a frame that was cut short before it     *)
(* could be cleared does not reach the next (ls_soft.cc:76-84, 116-125).     *)
ZeroedOnlyIfDetected == \A k \in DOMAIN llr : llr[k].zeroed => out[k].frame \in detected

(* In a frame with interference every symbol but the last is treated alike,  *)
(* over all calls of general_work that the frame takes: its soft bits are    *)
(* set to zero if scaling is on, and a frame is treated in part only when    *)
(* set_scaling was called meanwhile (soft_frame_equalizer_impl.cc:99, 226).  *)
ZeroedThroughFrame ==
  \A k \in DOMAIN llr :
    LET f == out[k].frame
    IN f \in detected \ switched /\ out[k].pos # LastPos(f) => llr[k].zeroed = llr[k].scaling

(* What goes with a symbol was measured on its frame.  The noise vector that *)
(* is published with it was never written or has the noise of its frame, not *)
(* of the one before (ls_soft.cc:112, soft_frame_equalizer_impl.cc:137, 272). *)
(* The energy that its soft bits are divided by has that of its own channel  *)
(* in it, unless set_algorithm ran in the frame (ls_soft.cc:65-68, 137): a   *)
(* new object starts with none.                                              *)
NoiseNotOfAnother == \A k \in DOMAIN noise : noise[k] \in {0, out[k].frame}

EnergyOfItsOwn == \A k \in DOMAIN llr : out[k].frame \in llr[k].energy \union switched

MeasuredOnFrame == NoiseNotOfAnother /\ EnergyOfItsOwn

=============================================================================
