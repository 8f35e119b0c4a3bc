--------------------------- MODULE SyncShortProofs ---------------------------
(***************************************************************************)
(* Proofs about SyncShort, for every plateau, gap, copy limit and call size. *)
(* The inductive invariant adds to the type invariant how the locals of a    *)
(* call follow its phase, where the last tag lies, and how d_plateau relates *)
(* to the plateau the input really has.                                      *)
(***************************************************************************)
EXTENDS SyncShort, TLAPS

(* The locals of a call and the bound of the stream. *)
CallInv ==
  /\ pc = "idle" => ninput = 0 /\ i = 0 /\ o = 0
  /\ i <= ninput
  /\ nread + ninput <= MaxItems
  /\ d_state = "SEARCH" => o = 0
  /\ pc = "loop" /\ d_state = "COPY" => i = o
  /\ OutPos <= InPos

(* Where the last tag lies; a finished copy ended MAX_SAMPLES after it. *)
TagInv ==
  /\ tags = <<>> => d_state = "SEARCH" /\ OutPos = 0
  /\ tags # <<>> => OutPos - LastTag = d_copied
  /\ d_state = "COPY" => InPos - d_freq_offset = d_copied
  /\ tags # <<>> /\ d_state = "SEARCH" => d_copied = MAX_SAMPLES

(* d_plateau is the real plateau, except that it restarts at a tag. *)
PlateauInv ==
  /\ d_plateau <= run
  /\ d_plateau = run \/ (d_state = "COPY" /\ d_plateau = d_copied)

IInv == TypeOK /\ CallInv /\ TagInv /\ PlateauInv

-----------------------------------------------------------------------------
LEMMA InitIInv == Init => IInv
BY ShortAssumption
   DEF Init, IInv, TypeOK, CallInv, TagInv, PlateauInv, InPos, OutPos

(* The new tag is the last one. *)
LEMMA AppendedTag ==
  ASSUME TypeOK, NEW item \in Nat, tags' = Append(tags, item)
  PROVE  /\ tags' \in Seq(Nat)
         /\ tags' # <<>>
         /\ LastTag' = item
<1>1. tags \in Seq(Nat)
  BY DEF TypeOK
<1>2. /\ Append(tags, item) \in Seq(Nat) /\ Append(tags, item) # <<>>
      /\ Append(tags, item)[Len(Append(tags, item))] = item
  BY <1>1
<1>3. QED
  BY <1>2 DEF LastTag

LEMMA CallStep == IInv /\ Call => IInv'
<1> SUFFICES ASSUME IInv, Call PROVE IInv'
  OBVIOUS
<1> USE ShortAssumption DEF IInv, Call
<1>1. TypeOK'
  BY DEF TypeOK
<1>2. CallInv'
  <2>1. i' = 0 /\ o' = 0 /\ ninput' \in Nat /\ InPos' = InPos /\ OutPos' = OutPos
    BY DEF CallInv, InPos, OutPos
  <2>2. nread' + ninput' <= MaxItems /\ i' <= ninput'
    BY <2>1
  <2>3. OutPos' <= InPos'
    BY <2>1 DEF CallInv
  <2>4. QED
    BY <2>1, <2>2, <2>3 DEF CallInv
<1>3. TagInv'
  BY DEF TypeOK, CallInv, TagInv, InPos, OutPos, LastTag
<1>4. PlateauInv'
  BY DEF PlateauInv
<1>5. QED
  BY <1>1, <1>2, <1>3, <1>4

LEMMA SearchSkipStep == IInv /\ SearchSkip => IInv'
<1> SUFFICES ASSUME IInv, SearchSkip PROVE IInv'
  OBVIOUS
<1> USE ShortAssumption DEF IInv, SearchSkip, Searching, Advance, Plateau
<1>1. TypeOK'
  BY DEF TypeOK, CallInv
<1>2. CallInv'
  BY DEF TypeOK, CallInv, InPos, OutPos
<1>3. TagInv'
  BY DEF TypeOK, CallInv, TagInv, InPos, OutPos, LastTag
<1>4. PlateauInv'
  BY DEF TypeOK, PlateauInv, Detected
<1>5. QED
  BY <1>1, <1>2, <1>3, <1>4

LEMMA SearchDetectStep == IInv /\ SearchDetect => IInv'
<1> SUFFICES ASSUME IInv, SearchDetect PROVE IInv'
  OBVIOUS
<1> USE ShortAssumption DEF IInv, SearchDetect, Searching, insert_tag
<1>1. InPos \in Nat /\ OutPos = nwritten /\ nwritten \in Nat
  BY DEF TypeOK, CallInv, InPos, OutPos
<1>2. tags' \in Seq(Nat) /\ tags' # <<>> /\ LastTag' = nwritten
  BY <1>1, AppendedTag
<1>3. TypeOK'
  BY <1>1, <1>2 DEF TypeOK
<1>4. InPos' = InPos /\ OutPos' = OutPos
  BY DEF TypeOK, InPos, OutPos
<1>5. CallInv'
  BY <1>4 DEF TypeOK, CallInv
<1>6. TagInv'
  BY <1>1, <1>2, <1>4 DEF TypeOK, TagInv
<1>7. PlateauInv'
  BY DEF TypeOK, PlateauInv
<1>8. QED
  BY <1>3, <1>5, <1>6, <1>7

LEMMA CopySampleStep == IInv /\ CopySample => IInv'
<1> SUFFICES ASSUME IInv, CopySample PROVE IInv'
  OBVIOUS
<1> USE ShortAssumption DEF IInv, CopySample, Copying, Advance, Plateau
<1>1. TypeOK'
  BY DEF TypeOK, CallInv
<1>2. CallInv'
  BY DEF TypeOK, CallInv, InPos, OutPos
<1>3. TagInv'
  BY DEF TypeOK, CallInv, TagInv, InPos, OutPos, LastTag
<1>4. PlateauInv'
  BY DEF TypeOK, PlateauInv
<1>5. QED
  BY <1>1, <1>2, <1>3, <1>4

LEMMA CopyDetectStep == IInv /\ CopyDetect => IInv'
<1> SUFFICES ASSUME IInv, CopyDetect PROVE IInv'
  OBVIOUS
<1> USE ShortAssumption DEF IInv, CopyDetect, Copying, insert_tag
<1>1. InPos \in Nat /\ OutPos \in Nat
  BY DEF TypeOK, InPos, OutPos
<1>2. tags' \in Seq(Nat) /\ tags' # <<>> /\ LastTag' = OutPos
  BY <1>1, AppendedTag
<1>3. TypeOK'
  BY <1>1, <1>2 DEF TypeOK
<1>4. InPos' = InPos /\ OutPos' = OutPos
  BY DEF TypeOK, InPos, OutPos
<1>5. CallInv'
  BY <1>4 DEF TypeOK, CallInv
<1>6. TagInv'
  BY <1>1, <1>2, <1>4 DEF TypeOK, TagInv
<1>7. PlateauInv'
  BY DEF TypeOK, PlateauInv
<1>8. QED
  BY <1>3, <1>5, <1>6, <1>7

LEMMA ReturnStep == IInv /\ Return => IInv'
<1> SUFFICES ASSUME IInv, Return PROVE IInv'
  OBVIOUS
<1> USE ShortAssumption DEF IInv, Return
<1>1. TypeOK'
  BY DEF TypeOK
<1>2. InPos' = InPos /\ OutPos' = OutPos
  BY DEF TypeOK, InPos, OutPos
<1>3. CallInv'
  BY <1>2 DEF TypeOK, CallInv, InPos, OutPos
<1>4. TagInv'
  BY <1>2 DEF TypeOK, TagInv, LastTag
<1>5. PlateauInv'
  BY DEF TypeOK, PlateauInv
<1>6. QED
  BY <1>1, <1>3, <1>4, <1>5

LEMMA StutterStep == IInv /\ UNCHANGED shortVars => IInv'
BY DEF shortVars, IInv, TypeOK, CallInv, TagInv, PlateauInv, InPos, OutPos, LastTag

LEMMA IInvInductive == IInv /\ [Next]_shortVars => IInv'
BY CallStep, SearchSkipStep, SearchDetectStep, CopySampleStep, CopyDetectStep,
   ReturnStep, StutterStep DEF Next

LEMMA IInvHolds == Spec => []IInv
BY InitIInv, IInvInductive, PTL DEF Spec

-----------------------------------------------------------------------------
(* Every variable keeps its type. *)
THEOREM TypeCorrect == Spec => []TypeOK
<1>1. IInv => TypeOK
  BY DEF IInv
<1>2. QED
  BY <1>1, IInvHolds, PTL

(* The samples of a frame leave in step with the input from the tag on. *)
THEOREM CopiesInStep == Spec => []InStep
<1>1. IInv => InStep
  BY DEF IInv, TagInv, InStep
<1>2. QED
  BY <1>1, IInvHolds, PTL

(* A frame is announced only at MIN_PLATEAU + 1 consecutive high samples. *)
THEOREM TagsAtPlateaus == Spec => TagAtPlateau
<1>1. IInv /\ [Next]_shortVars =>
        [tags' # tags => high /\ run = MIN_PLATEAU]_shortVars
  <2> SUFFICES ASSUME IInv, Next, tags' # tags
               PROVE  high /\ run = MIN_PLATEAU
    OBVIOUS
  <2>1. SearchDetect \/ CopyDetect
    BY DEF Next, Call, SearchSkip, CopySample, Return
  <2>2. Detected
    BY <2>1 DEF SearchDetect, CopyDetect, NewFrame
  <2>3. QED
    BY <2>2 DEF Detected, IInv, PlateauInv, TypeOK
<1>2. QED
  BY <1>1, IInvHolds, PTL DEF Spec, TagAtPlateau

(* No plateau is passed over except within MIN_GAP of a tag. *)
THEOREM PlateausDetected == Spec => NoPlateauMissed
<1>1. IInv /\ [Next]_shortVars =>
        [InPos' # InPos /\ high /\ run = MIN_PLATEAU =>
           d_state = "COPY" /\ d_copied <= MIN_GAP]_shortVars
  <2> SUFFICES ASSUME IInv, Next, InPos' # InPos, high, run = MIN_PLATEAU
               PROVE  d_state = "COPY" /\ d_copied <= MIN_GAP
    OBVIOUS
  <2> USE ShortAssumption DEF IInv, TypeOK, PlateauInv, InPos
  <2>1. SearchSkip \/ CopySample
    <3>1. Call \/ SearchDetect \/ CopyDetect => InPos' = InPos
      BY DEF Call, SearchDetect, CopyDetect, insert_tag
    <3>2. Return => InPos' = InPos
      BY DEF Return
    <3>3. QED
      BY <3>1, <3>2 DEF Next
  <2>2. ~SearchSkip
    BY DEF SearchSkip, Searching, Detected
  <2>3. QED
    BY <2>1, <2>2 DEF CopySample, Copying, NewFrame, Detected
<1>2. QED
  BY <1>1, IInvHolds, PTL DEF Spec, NoPlateauMissed

-----------------------------------------------------------------------------
(* Every step of the block is a step of the tagged stream or changes neither *)
(* its length nor its tags.                                                  *)
LEMMA StepRefines == IInv /\ [Next]_shortVars => [Stream!StreamNext]_<<OutPos, tags>>
<1> SUFFICES ASSUME IInv, [Next]_shortVars
             PROVE  Stream!StreamNext \/ UNCHANGED <<OutPos, tags>>
  OBVIOUS
<1> USE ShortAssumption DEF IInv, TypeOK
<1>1. CASE SearchDetect \/ CopyDetect
  <2>1. tags' = Append(tags, OutPos) /\ OutPos' = OutPos
    <3>1. CASE SearchDetect
      BY <3>1 DEF SearchDetect, Searching, insert_tag, OutPos, CallInv
    <3>2. CASE CopyDetect
      BY <3>2 DEF CopyDetect, insert_tag, OutPos
    <3>3. QED
      BY <1>1, <3>1, <3>2
  <2>2. OutPos = 0 \/ tags # <<>>
    BY <1>1 DEF TagInv
  <2>3. tags # <<>> => OutPos - tags[Len(tags)] > MIN_GAP
    BY <1>1 DEF TagInv, LastTag, SearchDetect, CopyDetect, Searching, Copying, NewFrame
  <2>4. QED
    BY <2>1, <2>2, <2>3 DEF Stream!StreamNext, Stream!StartFrame, Stream!SinceTag
<1>2. CASE CopySample
  <2>1. OutPos' = OutPos + 1 /\ tags' = tags
    BY <1>2 DEF CopySample, OutPos
  <2>2. OutPos < MaxItems
    BY <1>2 DEF CopySample, Copying, CallInv, OutPos, InPos
  <2>3. tags # <<>> /\ OutPos - tags[Len(tags)] < MAX_SAMPLES
    BY <1>2 DEF CopySample, Copying, TagInv, LastTag
  <2>4. QED
    BY <2>1, <2>2, <2>3 DEF Stream!StreamNext, Stream!Sample, Stream!SinceTag
<1>3. CASE Call
  BY <1>3 DEF Call, CallInv, OutPos
<1>4. CASE SearchSkip
  BY <1>4 DEF SearchSkip, OutPos
<1>5. CASE Return
  BY <1>5 DEF Return, OutPos
<1>6. CASE UNCHANGED shortVars
  BY <1>6 DEF shortVars, OutPos
<1>7. QED
  BY <1>1, <1>2, <1>3, <1>4, <1>5, <1>6 DEF Next

(* sync_short implements the tagged stream, so what FramesStayApart shows *)
(* of every tagged stream holds of its output.                               *)
THEOREM Refinement == Spec => RefinesTaggedStream
<1>1. Init => Stream!StreamInit
  BY DEF Init, Stream!StreamInit, OutPos
<1>2. QED
  BY <1>1, StepRefines, IInvHolds, PTL
     DEF Spec, RefinesTaggedStream, Stream!StreamSpec, Stream!streamVars
=============================================================================
