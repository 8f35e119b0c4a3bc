------------------------------ MODULE SyncShort ------------------------------
(***************************************************************************)
(* sync_short (src/lib/sync_short.cc): frame detection on the short training *)
(* sequence.  In SEARCH the block drops samples until MIN_PLATEAU + 1        *)
(* consecutive autocorrelation values exceed d_threshold; it then tags the   *)
(* next output sample and copies, until a later plateau, more than MIN_GAP   *)
(* samples after the tag, starts another frame, or MAX_SAMPLES were copied.  *)
(*                                                                          *)
(* Of a sample the model keeps whether in_cor exceeds d_threshold, and its   *)
(* position.  general_work is three kinds of step: Call fixes how many items *)
(* the scheduler offers, one step per loop iteration moves the locals i and  *)
(* o, Return consumes and produces.                                         *)
(***************************************************************************)
EXTENDS Integers, Sequences

CONSTANTS
  MIN_PLATEAU,  (* constructor argument min_plateau                         *)
  MIN_GAP,
  MAX_SAMPLES,
  MaxCall,      (* Bound of the model: items offered to one call.         *)
  MaxItems      (* Bound of the model: samples read.                        *)

ASSUME ShortAssumption ==
  /\ MIN_PLATEAU \in Nat
  /\ MIN_GAP \in Nat
  /\ MAX_SAMPLES \in Nat
  /\ MIN_PLATEAU <= MIN_GAP
  /\ MIN_GAP < MAX_SAMPLES
  /\ MaxCall \in Nat
  /\ MaxItems \in Nat

VARIABLES
  d_state,        (* SEARCH or COPY                                         *)
  d_plateau,      (* length of the current plateau, up to MIN_PLATEAU       *)
  d_copied,       (* samples copied since the last tag                      *)
  d_freq_offset,  (* input position the frequency offset was measured at    *)
  nread,          (* nitems_read                                            *)
  nwritten,       (* nitems_written(0)                                      *)
  tags,           (* offsets of the wifi_start tags put on the output       *)
  pc,             (* where the running call is: in its loop or past it      *)
  ninput, noutput,(* its arguments                                          *)
  i, o,           (* its locals: items looked at, items produced            *)
  high,           (* in_cor of the sample at the read position > threshold  *)
  run             (* history: high samples directly before the read         *)
                  (* position, counted up to MIN_PLATEAU                    *)

shortVars == <<d_state, d_plateau, d_copied, d_freq_offset, nread, nwritten,
               tags, pc, ninput, noutput, i, o, high, run>>

(* Positions of the sample the loop looks at and of the next output sample. *)
InPos  == nread + i
OutPos == nwritten + o

LastTag == tags[Len(tags)]

Init ==
  /\ d_state = "SEARCH"
  /\ d_plateau = 0
  /\ d_copied = 0
  /\ d_freq_offset = 0
  /\ nread = 0
  /\ nwritten = 0
  /\ tags = <<>>
  /\ pc = "idle"
  /\ ninput = 0 /\ noutput = 0 /\ i = 0 /\ o = 0
  /\ high \in BOOLEAN
  /\ run = 0

-----------------------------------------------------------------------------
(* The loop goes past the sample it looks at; the next one is any sample. *)
Advance ==
  /\ high' \in BOOLEAN
  /\ run' = IF ~high THEN 0 ELSE IF run < MIN_PLATEAU THEN run + 1 ELSE run

(* A plateau is complete at a sample: enough high samples came before it.   *)
Detected == high /\ d_plateau = MIN_PLATEAU

(* A bug: the else branch does not restart the plateau. *)
Plateau_KeptAtLow ==
  IF high /\ d_plateau < MIN_PLATEAU THEN d_plateau + 1 ELSE d_plateau

(* d_plateau after a sample that starts no frame.                           *)
Plateau ==
  IF ~high THEN 0
  ELSE IF d_plateau < MIN_PLATEAU THEN d_plateau + 1 ELSE d_plateau

(* A new frame: its tag goes on output item `item', and break leaves the    *)
(* sample that completed the plateau to the next call.                      *)
insert_tag(item) ==
  /\ tags' = Append(tags, item)
  /\ d_copied' = 0
  /\ d_plateau' = 0
  /\ d_freq_offset' = InPos
  /\ pc' = "done"
  /\ UNCHANGED <<ninput, noutput, i, o, high, run>>

-----------------------------------------------------------------------------
(* The scheduler calls general_work: ninput items on every input and room   *)
(* for noutput.                                                             *)
Call ==
  /\ pc = "idle"
  /\ ninput' \in 0..MaxCall
  /\ nread + ninput' <= MaxItems
  /\ noutput' \in 1..MaxCall
  /\ pc' = "loop"
  /\ UNCHANGED <<i, o, d_state, d_plateau, d_copied, d_freq_offset, nread, nwritten,
                 tags, high, run>>

Searching ==
  /\ pc = "loop"
  /\ d_state = "SEARCH"
  /\ i < ninput

SearchSkip ==
  /\ Searching
  /\ ~Detected
  /\ d_plateau' = Plateau
  /\ i' = i + 1
  /\ Advance
  /\ UNCHANGED <<pc, ninput, noutput, o, d_state, d_copied, d_freq_offset, nread,
                 nwritten, tags>>

SearchDetect ==
  /\ Searching
  /\ Detected
  /\ d_state' = "COPY"
  /\ insert_tag(nwritten)
  /\ UNCHANGED <<nread, nwritten>>

Copying ==
  /\ pc = "loop"
  /\ d_state = "COPY"
  /\ o < ninput
  /\ o < noutput
  /\ d_copied < MAX_SAMPLES

(* A bug: a plateau restarts the frame however close the last tag is. *)
NewFrame_NoGap == Detected

NewFrame == Detected /\ d_copied > MIN_GAP

CopySample ==
  /\ Copying
  /\ ~NewFrame
  /\ d_plateau' = Plateau
  /\ d_copied' = d_copied + 1
  /\ i' = i + 1
  /\ o' = o + 1
  /\ Advance
  /\ UNCHANGED <<pc, ninput, noutput, d_state, d_freq_offset, nread, nwritten,
                 tags>>

(* A bug: the tag goes on the first item of the call, not on the next one. *)
CopyDetect_NoOffset ==
  /\ Copying
  /\ NewFrame
  /\ insert_tag(nwritten)
  /\ UNCHANGED <<d_state, nread, nwritten>>

CopyDetect ==
  /\ Copying
  /\ NewFrame
  /\ insert_tag(OutPos)
  /\ UNCHANGED <<d_state, nread, nwritten>>

(* A bug: the end of a copy forgets the plateau it is in. *)
Return_PlateauReset ==
  /\ pc # "idle"
  /\ ~Searching /\ ~Copying
  /\ IF d_state = "COPY" /\ d_copied = MAX_SAMPLES
     THEN d_state' = "SEARCH" /\ d_plateau' = 0
     ELSE UNCHANGED <<d_state, d_plateau>>
  /\ nread' = nread + i
  /\ nwritten' = nwritten + o
  /\ pc' = "idle"
  /\ ninput' = 0 /\ noutput' = 0 /\ i' = 0 /\ o' = 0
  /\ UNCHANGED <<d_copied, d_freq_offset, tags, high, run>>

(* The loop is over: consume i, produce o.  A copy that has reached         *)
(* MAX_SAMPLES goes back to SEARCH and keeps its d_plateau.                 *)
Return ==
  /\ pc # "idle"
  /\ ~Searching /\ ~Copying
  /\ d_state' = IF d_state = "COPY" /\ d_copied = MAX_SAMPLES
                THEN "SEARCH" ELSE d_state
  /\ nread' = nread + i
  /\ nwritten' = nwritten + o
  /\ pc' = "idle"
  /\ ninput' = 0 /\ noutput' = 0 /\ i' = 0 /\ o' = 0
  /\ UNCHANGED <<d_plateau, d_copied, d_freq_offset, tags, high, run>>

Next ==
  \/ Call
  \/ SearchSkip
  \/ SearchDetect
  \/ CopySample
  \/ CopyDetect
  \/ Return

Spec == Init /\ [][Next]_shortVars

-----------------------------------------------------------------------------
(* Type invariant.                                                          *)
TypeOK ==
  /\ d_state \in {"SEARCH", "COPY"}
  /\ d_plateau \in 0..MIN_PLATEAU
  /\ d_copied \in 0..MAX_SAMPLES
  /\ d_freq_offset \in Nat
  /\ nread \in Nat
  /\ nwritten \in Nat
  /\ tags \in Seq(Nat)
  /\ pc \in {"idle", "loop", "done"}
  /\ ninput \in 0..MaxCall /\ noutput \in 0..MaxCall
  /\ i \in 0..MaxCall /\ o \in 0..MaxCall
  /\ high \in BOOLEAN
  /\ run \in 0..MIN_PLATEAU

(* Within a frame the block neither drops nor repeats a sample, whichever   *)
(* way calls cut the stream: the k-th sample after the tag is the k-th      *)
(* input sample from the one the frequency offset was measured at, and is   *)
(* rotated by k times that offset (sync_short.cc:110, 103, 137).            *)
InStep ==
  d_state = "COPY" =>
    /\ tags # <<>>
    /\ OutPos - LastTag = d_copied
    /\ InPos - d_freq_offset = d_copied

(* No plateau is missed: a sample with MIN_PLATEAU high samples before it    *)
(* is passed over only within MIN_GAP of the last tag, also when a plateau   *)
(* spans calls, follows a break or runs over the end of a copy.              *)
NoPlateauMissed ==
  [][InPos' # InPos /\ high /\ run = MIN_PLATEAU =>
       d_state = "COPY" /\ d_copied <= MIN_GAP]_shortVars

(* A frame is only announced at a full plateau of consecutive high samples  *)
(* of the input, however the samples were spread over calls and states.     *)
TagAtPlateau ==
  [][tags' # tags => high /\ run = MIN_PLATEAU]_shortVars

(* The stream the block writes is a tagged stream: see TaggedStream.        *)
Stream == INSTANCE TaggedStream WITH made <- OutPos

RefinesTaggedStream == Stream!StreamSpec
=============================================================================
