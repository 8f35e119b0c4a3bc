--------------------------- MODULE FrameEqualizer ---------------------------
(***************************************************************************)
(* frame_equalizer (src/lib/frame_equalizer_impl.cc) with an equalizer that  *)
(* estimates the channel on the two training symbols (equalizer/ls.cc).  Of  *)
(* the vectors of a frame, 0 and 1 are training symbols, 2 is the SIGNAL     *)
(* symbol, whose content says how many data symbols follow, and the data     *)
(* symbols are demapped and written; what follows them is skipped.           *)
(*                                                                          *)
(* sync_long and stream_to_vector deliver frames of any number of vectors    *)
(* (SyncLong: a frame ends where the next tag is), the first one tagged.     *)
(* What a SIGNAL symbol decodes to is chosen when the frame starts.          *)
(***************************************************************************)
EXTENDS Ofdm, SequencesExt

CONSTANTS
  Headers,     (* SIGNAL contents: [ok, encoding, bytes], ok FALSE when the *)
               (* parity or the rate is wrong                               *)
  MaxFrames,   (* Bound of the model: frames received.                      *)
  MaxVectors,  (* Bound of the model: vectors of one frame.                 *)
  MaxCall,     (* Bound of the model: items of one call.                    *)
  MaxRoom,     (* Bound of the model: room offered to one call.             *)
  Switching    (* Whether set_algorithm may be called.                      *)

ASSUME EqualizerAssumption ==
  /\ Headers # {}
  /\ Headers \subseteq [ok : BOOLEAN, encoding : Encoding, bytes : 0..4095]
  /\ MaxFrames \in Nat \ {0}
  /\ MaxVectors \in Nat \ {0}
  /\ MaxCall \in Nat \ {0}
  /\ MaxRoom \in 1..MaxCall
  /\ Switching \in BOOLEAN

VARIABLES
  sent,              (* the frames so far, each with its SIGNAL content and  *)
                     (* its vectors; the last vector of the last frame is at *)
                     (* the read position                                    *)
  d_current_symbol,  (* number of the vector in its frame                    *)
  d_frame_symbols,   (* data symbols of the frame, 0 without a SIGNAL        *)
  d_H,               (* the frames whose training symbols 0 and 1 the        *)
                     (* channel estimate comes from, 0: uninitialised        *)
  nwritten,          (* nitems_written(0)                                    *)
  pc, ninput, noutput, i, o,
  out,               (* written symbols: frame, position in it, estimate     *)
  outTags,           (* wifi_start tags: offset, frame, header               *)
  switched           (* history: the frames during which set_algorithm ran   *)

eqVars == <<sent, d_current_symbol, d_frame_symbols, d_H, nwritten, pc, ninput,
            noutput, i, o, out, outTags, switched>>

(* The frame and the number of the vector at the read position.             *)
frame  == Len(sent)
vector == sent[frame].vectors - 1

NewFrames == {[header |-> h, vectors |-> 1] : h \in Headers}

Init ==
  /\ \E f \in NewFrames : sent = <<f>>
  /\ d_current_symbol = 0
  /\ d_frame_symbols = 0
  /\ d_H = <<0, 0>>
  /\ nwritten = 0
  /\ pc = "idle"
  /\ ninput = 0 /\ noutput = 0 /\ i = 0 /\ o = 0
  /\ out = <<>>
  /\ outTags = <<>>
  /\ switched = {}

-----------------------------------------------------------------------------
(* The next vector: one more of the frame, or the first of another.         *)
Advance ==
  \/ /\ sent[frame].vectors < MaxVectors
     /\ sent' = [sent EXCEPT ![frame].vectors = @ + 1]
  \/ /\ frame < MaxFrames
     /\ \E f \in NewFrames : sent' = Append(sent, f)

(* set_algorithm: a new equalizer object, between two calls of general_work  *)
(* because both take d_mutex.                                               *)
set_algorithm ==
  /\ Switching
  /\ pc = "idle"
  /\ d_H' = <<0, 0>>
  /\ switched' = IF vector > 0 THEN switched \union {frame} ELSE switched
  /\ UNCHANGED <<sent, d_current_symbol, d_frame_symbols, nwritten, pc, ninput,
                 noutput, i, o, out, outTags>>

Call ==
  /\ pc = "idle"
  /\ noutput' \in 1..MaxRoom
  /\ ninput' \in noutput'..MaxCall
  /\ pc' = "loop"
  /\ UNCHANGED <<sent, d_current_symbol, d_frame_symbols, d_H, nwritten, i, o,
                 out, outTags, switched>>

Looping == pc = "loop" /\ i < ninput /\ o < noutput

(* A bug: the tag does not reset d_frame_symbols. *)
symbols_Kept == d_frame_symbols

(* The number of the vector and the length of the frame as the loop body    *)
(* uses them: the tag on the first vector restarts both.                    *)
symbol  == IF vector = 0 THEN 0 ELSE d_current_symbol
symbols == IF vector = 0 THEN 0 ELSE d_frame_symbols

Skipped == symbol > symbols + 2

Skip ==
  /\ Looping
  /\ Skipped
  /\ i' = i + 1
  /\ Advance
  /\ UNCHANGED <<d_current_symbol, d_frame_symbols, d_H, nwritten, pc, ninput,
                 noutput, o, out, outTags, switched>>

(* A bug: the first training symbol is added to the estimate it should replace. *)
equalize_Added ==
  d_H' = IF symbol = 1 THEN <<d_H[1], frame>> ELSE d_H

(* The training symbols make the channel estimate.                          *)
equalize ==
  d_H' = IF symbol = 0 THEN <<frame, 0>>
         ELSE IF symbol = 1 THEN <<d_H[1], frame>>
         ELSE d_H

Body ==
  /\ Looping
  /\ ~Skipped
  /\ equalize
  /\ i' = i + 1
  /\ d_current_symbol' = symbol + 1
  /\ Advance
  /\ UNCHANGED <<nwritten, pc, ninput, noutput, switched>>

Training ==
  /\ symbol < 2
  /\ Body
  /\ d_frame_symbols' = symbols
  /\ UNCHANGED <<o, out, outTags>>

(* A bug: the tag is put at nitems_written(0). *)
Signal_TagAtStart ==
  LET h == sent[frame].header
      tag == [offset |-> nwritten, frame |-> frame, header |-> h]
  IN /\ symbol = 2
     /\ Body
     /\ d_frame_symbols' = IF h.ok THEN NSym(h.encoding, h.bytes) ELSE symbols
     /\ outTags' = IF h.ok THEN Append(outTags, tag) ELSE outTags
     /\ UNCHANGED <<o, out>>

(* The SIGNAL symbol: the tag goes on the next item written, which is the   *)
(* first data symbol if the frame gets that far.                            *)
Signal ==
  LET h == sent[frame].header
      tag == [offset |-> nwritten + o, frame |-> frame, header |-> h]
  IN /\ symbol = 2
     /\ Body
     /\ d_frame_symbols' = IF h.ok THEN NSym(h.encoding, h.bytes) ELSE symbols
     /\ outTags' = IF h.ok THEN Append(outTags, tag) ELSE outTags
     /\ UNCHANGED <<o, out>>

Data ==
  /\ symbol > 2
  /\ Body
  /\ out' = Append(out, [frame |-> frame, pos |-> vector - 3, est |-> d_H])
  /\ o' = o + 1
  /\ d_frame_symbols' = symbols
  /\ UNCHANGED outTags

Return ==
  /\ pc = "loop"
  /\ ~Looping
  /\ nwritten' = nwritten + o
  /\ pc' = "idle"
  /\ ninput' = 0 /\ noutput' = 0 /\ i' = 0 /\ o' = 0
  /\ UNCHANGED <<sent, d_current_symbol, d_frame_symbols, d_H, out, outTags,
                 switched>>

Next == Call \/ Skip \/ Training \/ Signal \/ Data \/ Return \/ set_algorithm

Spec == Init /\ [][Next]_eqVars

-----------------------------------------------------------------------------
(* How many data symbols a frame has, and how many of its vectors were read.*)
Symbols(f) ==
  IF sent[f].header.ok THEN NSym(sent[f].header.encoding, sent[f].header.bytes) ELSE 0

VectorsRead(f) == IF f < frame THEN sent[f].vectors ELSE vector

(* Data symbols of a frame that arrived, as far as it was not cut short.    *)
Arrived(f) == Min({Symbols(f), Max({VectorsRead(f) - 3, 0})})

(* The symbols of frame f in w are n, behind the first s, and in order.      *)
IsRun(w, f, s, n) ==
  /\ s \in 0..Len(w) - n
  /\ \A k \in DOMAIN w :
       /\ w[k].frame = f <=> k \in s + 1..s + n
       /\ w[k].frame = f => w[k].pos = k - s - 1

(* Type invariant.                                                          *)
TypeOK ==
  /\ frame \in 1..MaxFrames
  /\ \A f \in 1..frame : sent[f].header \in Headers /\ sent[f].vectors \in 1..MaxVectors
  /\ d_current_symbol \in 0..MaxVectors
  /\ d_frame_symbols \in Nat
  /\ d_H \in (0..MaxFrames) \X (0..MaxFrames)
  /\ ninput \in 0..MaxCall /\ i \in 0..ninput
  /\ noutput \in 0..MaxRoom /\ o \in 0..noutput
  /\ Len(out) = nwritten + o

(* The equalizer writes of every frame exactly the data symbols its SIGNAL   *)
(* symbol announces, as far as they arrived, in order and once, whatever was *)
(* left of the frame before, and skips all else (frame_equalizer_impl.cc:130 *)
(* to 146, 225).                                                             *)
EmitsItsSymbols == \A f \in 1..frame : \E s \in 0..Len(out) : IsRun(out, f, s, Arrived(f))

(* The tag with the header of a frame is on its first data symbol           *)
(* (frame_equalizer_impl.cc:218) if the frame has one, and no symbol is      *)
(* without the tag of its frame.                                            *)
TagOnFirstSymbol ==
  /\ \A t \in DOMAIN outTags :
       LET first == outTags[t].offset + 1
           f == outTags[t].frame
       IN (\E k \in DOMAIN out : out[k].frame = f) =>
            first \in DOMAIN out /\ out[first].frame = f /\ out[first].pos = 0
  /\ \A k \in DOMAIN out : \E t \in DOMAIN outTags : outTags[t].frame = out[k].frame

(* Each symbol is equalized with the channel estimate of its own frame,      *)
(* except in a frame during which set_algorithm replaced the equalizer.      *)
EstimateOfFrame ==
  \A k \in DOMAIN out :
    out[k].est = <<out[k].frame, out[k].frame>> \/ out[k].frame \in switched

=============================================================================
