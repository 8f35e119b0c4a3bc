------------------------------ MODULE SyncLong ------------------------------
(***************************************************************************)
(* sync_long (src/lib/sync_long.cc): symbol alignment on the long training  *)
(* sequence.  From a wifi_start tag on, SYNC correlates SYNC_LENGTH samples  *)
(* and picks the frame start; COPY emits the two training symbols and the   *)
(* data symbols without their cyclic prefix, taken from input 1, which is    *)
(* input 0 behind a delay of SYNC_LENGTH samples; at the next tag RESET      *)
(* pads the output with zeros up to a multiple of F and SYNC starts again.  *)
(*                                                                          *)
(* The input is any tagged stream (TaggedStream); samples are known by their *)
(* position in it.  As in SyncShort one general_work is Call, a step per    *)
(* iteration of the loop, and Return.                                       *)
(***************************************************************************)
EXTENDS TaggedStream, Functions

CONSTANTS
  F,            (* samples of a symbol, 64                                  *)
  CP,           (* samples of its cyclic prefix, 16                         *)
  SYNC_LENGTH,  (* constructor argument sync_length, and the delay of input 1 *)
  MaxIn,        (* items of one call at most, 8192                          *)
  MaxOut,       (* Bound of the model: room offered to one call.            *)
  Garbage       (* Values an uninitialised int may have.                    *)

ASSUME LongAssumption ==
  /\ F \in Nat \ {0}
  /\ CP \in Nat
  /\ SYNC_LENGTH \in Nat
  /\ SYNC_LENGTH >= 4
  /\ SYNC_LENGTH + F <= MIN_GAP + 2
  /\ MaxIn \in Nat
  /\ MaxIn >= F
  /\ MaxOut \in Nat \ {0}
  /\ Garbage \subseteq Int

VARIABLES
  d_state,              (* SYNC, COPY or RESET                              *)
  d_offset,             (* samples since the tag (SYNC), since SYNC (COPY)  *)
  d_frame_start,        (* of the frame, counted from its tag               *)
  d_count,              (* items produced since SYNC                        *)
  d_cor,                (* length of the list of correlations               *)
  d_freq_offset_short,  (* the tag whose value is used; -1: uninitialised   *)
  d_freq_offset,        (* the tag it was estimated after; -1: uninitialised *)
  nread, nwritten,      (* nitems_read(0), nitems_written(0)                *)
  pc,                   (* where the running call is                        *)
  ninput, noutput,      (* its arguments                                    *)
  i, o,                 (* its locals                                       *)
  out,                  (* what was written: the position of the sample in   *)
                        (* the stream, or Pad                               *)
  outTags               (* the wifi_start tags put on the output            *)

state  == <<d_state, d_offset, d_frame_start, d_count, d_cor,
            d_freq_offset_short, d_freq_offset>>
locals == <<pc, ninput, noutput, i, o>>
longVars == <<state, nread, nwritten, locals, out, outTags, streamVars>>

(* A written zero; input 1 starts with the positions -SYNC_LENGTH..-1.      *)
Pad == -SYNC_LENGTH - 1

InPos  == nread + i
OutPos == nwritten + o

(* The sample at the read position of input 1.                              *)
in_delayed == InPos - SYNC_LENGTH

Init ==
  /\ StreamInit
  /\ d_state = "SYNC"
  /\ d_offset = 0
  /\ d_cor = 0
  /\ d_frame_start \in Garbage
  /\ d_count \in Garbage
  /\ d_freq_offset_short = -1
  /\ d_freq_offset = -1
  /\ nread = 0
  /\ nwritten = 0
  /\ pc = "idle"
  /\ ninput = 0 /\ noutput = 0 /\ i = 0 /\ o = 0
  /\ out = <<>>
  /\ outTags = <<>>

-----------------------------------------------------------------------------
(* search_frame_start.  A ranking lists the four offsets with the highest   *)
(* correlations.  The first pair F apart decides; without one the last pair *)
(* F - 1 or F + 1 apart; without any the start is SYNC_LENGTH and the       *)
(* frequency offset is not estimated.                                       *)
Rankings ==
  {v \in [1..4 -> 0..SYNC_LENGTH - 1] : \A a, b \in 1..4 : a # b => v[a] # v[b]}

Pairs == <<<<1, 2>>, <<1, 3>>, <<1, 4>>, <<2, 3>>, <<2, 4>>, <<3, 4>>>>

Diff(v, p) ==
  IF v[Pairs[p][1]] > v[Pairs[p][2]]
  THEN v[Pairs[p][1]] - v[Pairs[p][2]]
  ELSE v[Pairs[p][2]] - v[Pairs[p][1]]

First(v, p) ==
  IF v[Pairs[p][1]] > v[Pairs[p][2]] THEN v[Pairs[p][2]] ELSE v[Pairs[p][1]]

FrameStart(v) ==
  LET exact == {p \in 1..6 : Diff(v, p) = F}
      near  == {p \in 1..6 : Diff(v, p) \in {F - 1, F + 1}}
  IN IF exact # {}
     THEN [start |-> First(v, CHOOSE p \in exact : \A q \in exact : p <= q),
           estimated |-> TRUE]
     ELSE IF near # {}
     THEN [start |-> First(v, CHOOSE p \in near : \A q \in near : q <= p),
           estimated |-> TRUE]
     ELSE [start |-> SYNC_LENGTH, estimated |-> FALSE]

SearchResults == {FrameStart(v) : v \in Rankings}

-----------------------------------------------------------------------------
(* A bug: SYNC asks for no more items than it produces. *)
Forecast_NoSymbol(room) == room

(* forecast: a training symbol in SYNC, one item per output item otherwise. *)
Forecast(room) == IF d_state = "SYNC" THEN F ELSE room

(* Tags among the next n items.  Only the first one counts.                 *)
TagsAhead(n) == {k \in DOMAIN tags : tags[k] \in nread..nread + n - 1}
FrontTag(n) == tags[CHOOSE k \in TagsAhead(n) : \A l \in TagsAhead(n) : tags[k] <= tags[l]]

(* A bug: only a frame that ends another one takes its tag's value. *)
AtTag_OnlyInCopy ==
  /\ pc' = IF d_offset # 0 /\ d_state = "SYNC" THEN "threw" ELSE "loop"
  /\ IF d_state = "COPY"
     THEN d_state' = "RESET" /\ d_freq_offset_short' = nread
     ELSE UNCHANGED <<d_state, d_freq_offset_short>>

(* A tag on the first item ends the frame in COPY; it must not come within  *)
(* SYNC.  Its value, the short frequency offset, is kept.                   *)
AtTag ==
  /\ pc' = IF d_offset # 0 /\ d_state = "SYNC" THEN "threw" ELSE "loop"
  /\ d_state' = IF d_state = "COPY" THEN "RESET" ELSE d_state
  /\ d_freq_offset_short' = nread

(* general_work is called with n items on both inputs; a tag further on     *)
(* cuts the call there.                                                     *)
Call(n, room) ==
  /\ pc = "idle"
  /\ nread + n <= made
  /\ n >= Forecast(room)
  /\ IF TagsAhead(n) = {}
     THEN /\ ninput' = n
          /\ pc' = "loop"
          /\ UNCHANGED <<d_state, d_freq_offset_short>>
     ELSE IF FrontTag(n) > nread
     THEN /\ ninput' = FrontTag(n) - nread
          /\ pc' = "loop"
          /\ UNCHANGED <<d_state, d_freq_offset_short>>
     ELSE /\ ninput' = n
          /\ AtTag
  /\ noutput' = room
  /\ UNCHANGED <<d_offset, d_frame_start, d_count, d_cor, d_freq_offset,
                 nread, nwritten, i, o, out, outTags, streamVars>>

Correlating == pc = "loop" /\ d_state = "SYNC" /\ i + F - 1 < ninput

(* One correlation; after SYNC_LENGTH of them the frame start is searched.  *)
Correlate ==
  /\ Correlating
  /\ i' = i + 1
  /\ IF d_offset + 1 < SYNC_LENGTH
     THEN /\ d_offset' = d_offset + 1
          /\ d_cor' = d_cor + 1
          /\ UNCHANGED <<d_state, d_frame_start, d_count, d_freq_offset, pc>>
     ELSE /\ \E r \in SearchResults :
               /\ d_frame_start' = r.start
               /\ d_freq_offset' = IF r.estimated THEN d_freq_offset_short
                                                  ELSE d_freq_offset
          /\ d_offset' = 0
          /\ d_cor' = 0
          /\ d_count' = 0
          /\ d_state' = "COPY"
          /\ pc' = "done"
  /\ UNCHANGED <<d_freq_offset_short, ninput, noutput, o, nread, nwritten, out,
                 outTags, streamVars>>

(* A bug: one sample too many is taken for the prefix. *)
OnGrid_OffByOne(rel) ==
  rel >= 0 /\ (rel < 2 * F \/ (rel - 2 * F) % (F + CP) > CP)

(* The rel-th sample from the frame start belongs to a training symbol or   *)
(* to the part of a data symbol behind its cyclic prefix.                   *)
OnGrid(rel) == rel >= 0 /\ (rel < 2 * F \/ (rel - 2 * F) % (F + CP) > CP - 1)

Copying == pc = "loop" /\ d_state = "COPY" /\ i < ninput /\ o < noutput

(* One sample: the frame start tags the output, at nitems_written(0).       *)
Copy ==
  /\ Copying
  /\ LET rel == d_offset - d_frame_start IN
     /\ outTags' = IF rel = 0
                   THEN Append(outTags, [offset |-> nwritten, first |-> in_delayed,
                          short |-> d_freq_offset_short, fine |-> d_freq_offset])
                   ELSE outTags
     /\ IF OnGrid(rel)
        THEN out' = Append(out, in_delayed) /\ o' = o + 1
        ELSE UNCHANGED <<out, o>>
  /\ i' = i + 1
  /\ d_offset' = d_offset + 1
  /\ UNCHANGED <<d_state, d_frame_start, d_count, d_cor, d_freq_offset_short,
                 d_freq_offset, pc, ninput, noutput, nread, nwritten, streamVars>>

Resetting == pc = "loop" /\ d_state = "RESET" /\ o < noutput

(* A bug: d_offset is left as COPY counted it. *)
Reset_OffsetKept ==
  /\ Resetting
  /\ IF (d_count + o) % F = 0
     THEN d_state' = "SYNC" /\ pc' = "done" /\ UNCHANGED <<out, o>>
     ELSE out' = Append(out, Pad) /\ o' = o + 1 /\ UNCHANGED <<d_state, pc>>
  /\ UNCHANGED <<d_offset, d_frame_start, d_count, d_cor, d_freq_offset_short,
                 d_freq_offset, ninput, noutput, i, nread, nwritten, outTags,
                 streamVars>>

(* A zero, or, at a multiple of F, back to SYNC.                            *)
Reset ==
  /\ Resetting
  /\ IF (d_count + o) % F = 0
     THEN /\ d_offset' = 0
          /\ d_state' = "SYNC"
          /\ pc' = "done"
          /\ UNCHANGED <<out, o>>
     ELSE /\ out' = Append(out, Pad)
          /\ o' = o + 1
          /\ UNCHANGED <<d_offset, d_state, pc>>
  /\ UNCHANGED <<d_frame_start, d_count, d_cor, d_freq_offset_short,
                 d_freq_offset, ninput, noutput, i, nread, nwritten, outTags,
                 streamVars>>

(* A bug: the items of the call are not counted. *)
Return_NotCounted ==
  /\ pc \in {"loop", "done"}
  /\ ~Correlating /\ ~Copying /\ ~Resetting
  /\ nread' = nread + i
  /\ nwritten' = nwritten + o
  /\ pc' = "idle"
  /\ ninput' = 0 /\ noutput' = 0 /\ i' = 0 /\ o' = 0
  /\ UNCHANGED <<state, out, outTags, streamVars>>

Return ==
  /\ pc \in {"loop", "done"}
  /\ ~Correlating /\ ~Copying /\ ~Resetting
  /\ d_count' = d_count + o
  /\ nread' = nread + i
  /\ nwritten' = nwritten + o
  /\ pc' = "idle"
  /\ ninput' = 0 /\ noutput' = 0 /\ i' = 0 /\ o' = 0
  /\ UNCHANGED <<d_state, d_offset, d_frame_start, d_cor, d_freq_offset_short,
                 d_freq_offset, out, outTags, streamVars>>

(* The block upstream writes; tags come before the sample they are on.      *)
Upstream ==
  /\ StreamNext
  /\ UNCHANGED <<state, nread, nwritten, locals, out, outTags>>

LongNext ==
  \/ \E n \in 1..MaxIn, room \in 1..MaxOut : Call(n, room)
  \/ Correlate
  \/ Copy
  \/ Reset
  \/ Return

Next == LongNext \/ Upstream

Spec == Init /\ [][Next]_longVars

(* The scheduler calls a block as long as forecast is satisfied and there   *)
(* is room, and a call that has begun goes on.  Nothing is assumed of the   *)
(* block upstream.                                                          *)
FairSpec == Spec /\ WF_longVars(LongNext)

-----------------------------------------------------------------------------
(* Type invariant.                                                          *)
TypeOK ==
  /\ made \in Nat /\ tags \in Seq(Nat)
  /\ d_state \in {"SYNC", "COPY", "RESET"}
  /\ d_offset \in Nat
  /\ d_frame_start \in Int /\ d_count \in Int
  /\ d_cor \in 0..SYNC_LENGTH - 1
  /\ d_freq_offset_short \in Int /\ d_freq_offset \in Int
  /\ nread \in Nat /\ nwritten \in Nat
  /\ pc \in {"idle", "loop", "done", "threw"}
  /\ ninput \in Nat /\ noutput \in 0..MaxOut
  /\ i \in Nat /\ o \in Nat
  /\ out \in Seq(Int)
  /\ outTags \in Seq([offset : Nat, first : Int, short : Int, fine : Int])

(* Two checks of the code never fail: a frame cannot start while the last    *)
(* one is being correlated (runtime_error "wtf", sync_long.cc:80), because   *)
(* sync_short keeps tags MIN_GAP apart, and the list that search_frame_start *)
(* sorts has one entry per correlated sample (assert, sync_long.cc:182).     *)
NoCheckFails ==
  /\ pc # "threw"
  /\ d_cor = IF d_state = "SYNC" THEN d_offset ELSE 0

(* A frame starts on a vector of F items however the frame before it ended, *)
(* so stream_to_vector behind this block never mixes two frames, and its    *)
(* tag is on the sample found as the frame start, although the code adds it *)
(* at nitems_written(0) and not at + o (sync_long.cc:124, 141-154).         *)
TagsOnVectors ==
  \A k \in DOMAIN outTags :
    /\ outTags[k].offset % F = 0
    /\ out[outTags[k].offset + 1] = outTags[k].first

(* The k-th sample of a frame behind its start that is no cyclic prefix.    *)
Grid(k) == IF k < 2 * F THEN k ELSE k + CP * ((k - 2 * F) \div F + 1)

(* Where what was written of the k-th frame ends in the output.             *)
FrameEnd(k) == IF k < Len(outTags) THEN outTags[k + 1].offset ELSE Len(out)

(* How far its samples were read: SYNC_LENGTH samples before the read        *)
(* position, or before the next tag of the stream.                          *)
ReadUpTo(k) ==
  LET later == {t \in Range(tags) : t > outTags[k].short}
      end == IF later = {} THEN InPos ELSE CHOOSE t \in later : \A u \in later : t <= u
  IN (IF end < InPos THEN end ELSE InPos) - SYNC_LENGTH

(* What is written of a frame is exactly the samples of its symbols without *)
(* the cyclic prefixes, each once and in order, up to SYNC_LENGTH samples   *)
(* before the point read or before the next frame's tag, then fewer than F  *)
(* zeros: no cut of the stream into calls loses, repeats or moves a sample. *)
FramesOnGrid ==
  \A k \in DOMAIN outTags :
    LET from  == outTags[k].offset
        first == outTags[k].first
        to    == FrameEnd(k)
    IN \E n \in 1..to - from :
         /\ \A j \in 1..n : out[from + j] = first + Grid(j - 1)
         /\ \A x \in from + n + 1..to : out[x] = Pad
         /\ to - from < n + F
         /\ first + Grid(n - 1) < ReadUpTo(k)
         /\ ReadUpTo(k) <= first + Grid(n)

(* The frequency offset that a tag carries was measured on its own frame:   *)
(* its short part is the value of the last stream tag before the frame      *)
(* start, and the fine part is never one from a later frame.                *)
OffsetsOfFrame ==
  \A k \in DOMAIN outTags :
    LET t == outTags[k]
    IN /\ t.short \in Range(tags)
       /\ t.first - t.short \in 0..SYNC_LENGTH
       /\ \A u \in Range(tags) : u <= t.short \/ u > t.first
       /\ t.fine <= t.short

(* Nothing stalls: with less than F samples left to the next tag SYNC could  *)
(* do nothing for ever, but the gap between tags never leaves it there, so   *)
(* all but the last F - 1 samples are read in the end, and RESET ends.       *)
Drains == []<>(made - nread < F)
=============================================================================
