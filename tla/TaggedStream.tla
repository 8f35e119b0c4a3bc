---------------------------- MODULE TaggedStream ----------------------------
(***************************************************************************)
(* What sync_short promises to the block behind it: a stream of samples cut *)
(* into frames by tags.  The stream starts with a tag, two tags are more    *)
(* than MIN_GAP samples apart, a tag is put on a sample that has not been   *)
(* made yet, and a frame has at most MAX_SAMPLES samples.                   *)
(*                                                                          *)
(* SyncShort implements this specification; SyncLong is verified with it as *)
(* the only thing known of its input.                                       *)
(***************************************************************************)
EXTENDS Integers, Sequences

CONSTANTS
  MIN_GAP,      (* sync_short.cc:25, 480                                   *)
  MAX_SAMPLES,  (* sync_short.cc:26, 540 * 80                              *)
  MaxItems      (* Bound of the model: samples the stream may get.         *)

ASSUME GapAssumption ==
  /\ MIN_GAP \in Nat
  /\ MAX_SAMPLES \in Nat
  /\ MIN_GAP < MAX_SAMPLES
  /\ MaxItems \in Nat

VARIABLES
  made,  (* samples made so far, the offset of the next one                 *)
  tags   (* offsets of the wifi_start tags, in the order they were added    *)

streamVars == <<made, tags>>

(* Samples since the last tag. *)
SinceTag == made - tags[Len(tags)]

StreamInit ==
  /\ made = 0
  /\ tags = <<>>

(* A frame starts: the next sample gets a tag. *)
StartFrame ==
  /\ made = 0 \/ tags # <<>>
  /\ tags # <<>> => SinceTag > MIN_GAP
  /\ tags' = Append(tags, made)
  /\ UNCHANGED made

(* One more sample of the current frame. *)
Sample ==
  /\ made < MaxItems
  /\ tags # <<>>
  /\ SinceTag < MAX_SAMPLES
  /\ made' = made + 1
  /\ UNCHANGED tags

StreamNext == StartFrame \/ Sample

StreamSpec == StreamInit /\ [][StreamNext]_streamVars

-----------------------------------------------------------------------------
(* The stream is cut into frames without a gap between them: nothing comes  *)
(* before the first tag, no tag lies beyond the next sample, a frame has    *)
(* more than MIN_GAP samples when the next one starts and never more than   *)
(* MAX_SAMPLES (sync_short.cc:97, 91).                                      *)
FramesApart ==
  /\ tags = <<>> => made = 0
  /\ tags # <<>> => tags[1] = 0 /\ made - tags[Len(tags)] \in 0..MAX_SAMPLES
  /\ \A k \in 1..Len(tags) - 1 :
       tags[k + 1] - tags[k] \in MIN_GAP + 1..MAX_SAMPLES
=============================================================================
