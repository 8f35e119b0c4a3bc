--------------------------- MODULE SyncLongProofs ---------------------------
(***************************************************************************)
(* Proofs about SyncLong, for every symbol length, cyclic prefix, length of  *)
(* the search, size of a call and every tagged stream.  The inductive        *)
(* invariant says where the reading position lies relative to the tag of the *)
(* frame, how the items written relate to multiples of F, and what each tag  *)
(* of the output was put on.                                                 *)
(***************************************************************************)
EXTENDS SyncLong, WellFoundedInduction, TLAPS

Tag(t) == \E k \in DOMAIN tags : tags[k] = t

(* The stream starts with a tag, tags are ahead of the samples and any two   *)
(* of them are more than MIN_GAP apart.                                      *)
StreamInv ==
  /\ made \in Nat
  /\ tags \in Seq(Nat)
  /\ made > 0 => Tag(0)
  /\ \A k \in DOMAIN tags : tags[k] <= made
  /\ \A j, k \in DOMAIN tags : j < k => tags[j] + MIN_GAP < tags[k]

(* The locals of a call and the counters of the block. *)
CallInv ==
  /\ pc \in {"idle", "loop", "done"}
  /\ pc = "idle" => i = 0 /\ o = 0 /\ ninput = 0
  /\ i <= ninput
  /\ nread + ninput <= made
  /\ d_cor = IF d_state = "SYNC" THEN d_offset ELSE 0

(* No tag is in between lo and hi. *)
Free(lo, hi) == \A t \in Nat : Tag(t) => t <= lo \/ t >= hi

(* Where the reading position lies relative to the tag of the frame. *)
PlaceInv ==
  /\ d_freq_offset <= d_freq_offset_short
  /\ d_freq_offset_short <= nread
  /\ d_state = "SYNC" =>
       /\ d_offset < SYNC_LENGTH
       /\ \/ pc = "idle" /\ InPos = 0 /\ d_offset = 0
          \/ Tag(d_freq_offset_short) /\ InPos = d_freq_offset_short + d_offset
  /\ d_state = "COPY" =>
       /\ Tag(d_freq_offset_short)
       /\ InPos = d_freq_offset_short + SYNC_LENGTH + d_offset
       /\ d_frame_start \in 0..SYNC_LENGTH
       /\ Free(d_freq_offset_short, InPos)
       /\ pc = "loop" => Free(d_freq_offset_short, nread + ninput)
  /\ d_state = "RESET" =>
       Tag(d_freq_offset_short) /\ InPos = d_freq_offset_short

(* How many items were written, counted in vectors of F. *)
WriteInv ==
  /\ Len(out) = OutPos
  /\ d_state = "SYNC" => OutPos % F = 0 /\ (pc = "loop" => o = 0)
  /\ d_state # "SYNC" => (nwritten - d_count) % F = 0
  /\ d_state = "COPY" /\ d_offset <= d_frame_start => o = 0 /\ d_count = 0

(* What is true of a tag on the output from then on. *)
FrameInv(offset, first, short, fine) ==
  /\ offset % F = 0
  /\ offset < Len(out)
  /\ out[offset + 1] = first
  /\ Tag(short)
  /\ first - short \in 0..SYNC_LENGTH
  /\ Free(short, first + 1)
  /\ fine <= short
  /\ first < InPos

FramesInv ==
  \A k \in DOMAIN outTags :
    FrameInv(outTags[k].offset, outTags[k].first, outTags[k].short, outTags[k].fine)

IInv ==
  TypeOK /\ StreamInv /\ CallInv /\ PlaceInv /\ WriteInv /\ FramesInv

-----------------------------------------------------------------------------
(* A set of naturals that is not empty has a least element.                 *)
LEMMA LeastNatural ==
  ASSUME NEW S, S \subseteq Nat, S # {}
  PROVE  \E t \in S : \A u \in S : t <= u
<1>1. PICK t \in S : \A u \in S : ~ (<<u, t>> \in OpToRel(<, Nat))
  BY WFMin, NatLessThanWellFounded, Zenon
<1>2. \A u \in S : ~ (u < t)
  BY <1>1, Zenon DEF OpToRel
<1>3. QED
  BY <1>2

(* A sum of multiples of F is one.                                          *)
LEMMA ModSum ==
  ASSUME NEW a \in Int, NEW b \in Int, a % F = 0, b % F = 0
  PROVE  (a + b) % F = 0
<1>1. F \in Int /\ F > 0
  BY LongAssumption
<1>2. a = F * (a \div F) /\ b = F * (b \div F) /\ a \div F \in Int /\ b \div F \in Int
  BY <1>1
<1>3. a + b = F * (a \div F + b \div F)
  BY <1>1, <1>2
<1>4. \A q \in Int : (F * q) % F = 0
  BY <1>1
<1>5. QED
  BY <1>2, <1>3, <1>4

(* Wherever the correlation peaks, the frame starts within SYNC_LENGTH.     *)
LEMMA StartInRange ==
  ASSUME NEW v \in Rankings
  PROVE  FrameStart(v).start \in 0..SYNC_LENGTH
<1> DEFINE exact == {p \in 1..6 : Diff(v, p) = F}
           near  == {p \in 1..6 : Diff(v, p) \in {F - 1, F + 1}}
<1>1. \A p \in 1..6 : First(v, p) \in 0..SYNC_LENGTH - 1
  <2>1. \A a \in 1..4 : v[a] \in 0..SYNC_LENGTH - 1
    BY DEF Rankings
  <2>2. \A p \in 1..6 : Pairs[p][1] \in 1..4 /\ Pairs[p][2] \in 1..4
    BY DEF Pairs
  <2>3. QED
    BY <2>1, <2>2 DEF First
<1>2. ASSUME NEW S, S \subseteq 1..6, S # {}
      PROVE  /\ (CHOOSE p \in S : \A q \in S : p <= q) \in S
             /\ (CHOOSE p \in S : \A q \in S : q <= p) \in S
  <2>0. S \subseteq Nat /\ \A q \in S : q \in 1..6
    BY <1>2
  <2>1. \E p \in S : \A q \in S : p <= q
    BY <1>2, <2>0, LeastNatural
  <2>2. \E p \in S : \A q \in S : q <= p
    <3> DEFINE R == {7 - p : p \in S}
    <3>1. R \subseteq Nat /\ R # {}
      <4>1. \A q \in 1..6 : 7 - q \in Nat
        OBVIOUS
      <4>2. QED
        BY <1>2, <2>0, <4>1
    <3>2. PICK m \in R : \A u \in R : m <= u
      BY <3>1, LeastNatural
    <3>3. PICK p \in S : m = 7 - p
      BY <3>2
    <3>4. ASSUME NEW q \in S PROVE q <= p
      <4>1. 7 - p <= 7 - q
        BY <3>2, <3>3
      <4>2. p \in 1..6 /\ q \in 1..6
        BY <2>0
      <4>3. QED
        BY <4>1, <4>2
    <3>5. QED
      BY <3>4
  <2>3. QED
    BY <2>1, <2>2
<1>3. exact # {} => (CHOOSE p \in exact : \A q \in exact : p <= q) \in 1..6
  BY <1>2
<1>4. near # {} => (CHOOSE p \in near : \A q \in near : q <= p) \in 1..6
  BY <1>2
<1>5. FrameStart(v) =
        IF exact # {}
        THEN [start |-> First(v, CHOOSE p \in exact : \A q \in exact : p <= q),
              estimated |-> TRUE]
        ELSE IF near # {}
        THEN [start |-> First(v, CHOOSE p \in near : \A q \in near : q <= p),
              estimated |-> TRUE]
        ELSE [start |-> SYNC_LENGTH, estimated |-> FALSE]
  BY DEF FrameStart
<1>6. CASE exact # {}
  <2>1. FrameStart(v).start = First(v, CHOOSE p \in exact : \A q \in exact : p <= q)
    BY <1>5, <1>6
  <2>2. QED
    BY <2>1, <1>1, <1>3, <1>6, LongAssumption
<1>7. CASE exact = {} /\ near # {}
  <2>1. FrameStart(v).start = First(v, CHOOSE p \in near : \A q \in near : q <= p)
    BY <1>5, <1>7
  <2>2. QED
    BY <2>1, <1>1, <1>4, <1>7, LongAssumption
<1>8. CASE exact = {} /\ near = {}
  BY <1>5, <1>8, LongAssumption
<1>9. QED
  BY <1>6, <1>7, <1>8

(* The first tag ahead is a tag among the next n items, and none is before it. *)
LEMMA FrontTagIsFirst ==
  ASSUME StreamInv, NEW n \in Nat, nread \in Nat, TagsAhead(n) # {}
  PROVE  /\ Tag(FrontTag(n))
         /\ FrontTag(n) \in nread..nread + n - 1
         /\ \A t \in Nat : Tag(t) => t < nread \/ t >= FrontTag(n)
<1> DEFINE S == {tags[k] : k \in TagsAhead(n)}
<1>1. TagsAhead(n) \subseteq DOMAIN tags /\ \A k \in DOMAIN tags : tags[k] \in Nat
  BY DEF TagsAhead, StreamInv
<1>2. S \subseteq Nat /\ S # {}
  BY <1>1
<1>3. PICK m \in S : \A u \in S : m <= u
  BY <1>2, LeastNatural
<1>4. \E k \in TagsAhead(n) : \A l \in TagsAhead(n) : tags[k] <= tags[l]
  BY <1>3
<1>5. PICK k \in TagsAhead(n) : /\ FrontTag(n) = tags[k]
                                /\ \A l \in TagsAhead(n) : tags[k] <= tags[l]
  BY <1>4 DEF FrontTag
<1>6. Tag(FrontTag(n)) /\ FrontTag(n) \in nread..nread + n - 1
  BY <1>5 DEF TagsAhead, Tag
<1>7. ASSUME NEW t \in Nat, Tag(t) PROVE t < nread \/ t >= FrontTag(n)
  <2>1. PICK l \in DOMAIN tags : tags[l] = t
    BY <1>7 DEF Tag
  <2>2. CASE t \in nread..nread + n - 1
    BY <2>1, <2>2, <1>5 DEF TagsAhead
  <2>3. CASE t >= nread + n
    BY <2>3, <1>6
  <2>4. QED
    BY <2>2, <2>3
<1>8. QED
  BY <1>6, <1>7

(* Two different tags are more than MIN_GAP apart.                          *)
LEMMA TagsApart ==
  ASSUME StreamInv, NEW s, NEW t, Tag(s), Tag(t), s < t
  PROVE  s \in Nat /\ t \in Nat /\ s + MIN_GAP < t
<1>1. PICK j \in DOMAIN tags : tags[j] = s
  BY DEF Tag
<1>2. PICK k \in DOMAIN tags : tags[k] = t
  BY DEF Tag
<1>3. s \in Nat /\ t \in Nat /\ j \in Nat /\ k \in Nat
  BY <1>1, <1>2 DEF StreamInv
<1>4. k < j => t + MIN_GAP < s
  BY <1>1, <1>2 DEF StreamInv
<1>5. j # k
  BY <1>1, <1>2, <1>3
<1>6. j < k
  BY <1>3, <1>4, <1>5, GapAssumption
<1>7. QED
  BY <1>1, <1>2, <1>3, <1>6 DEF StreamInv

-----------------------------------------------------------------------------
LEMMA InitIInv == Init => IInv
<1> SUFFICES ASSUME Init PROVE IInv
  OBVIOUS
<1> USE LongAssumption DEF Init, StreamInit
<1>1. TypeOK
  BY DEF TypeOK
<1>2. StreamInv /\ CallInv
  BY DEF StreamInv, CallInv
<1>3. PlaceInv /\ WriteInv /\ FramesInv
  BY DEF PlaceInv, InPos, OutPos, WriteInv, FramesInv
<1>4. QED
  BY <1>1, <1>2, <1>3 DEF IInv

LEMMA TypesOfTags ==
  ASSUME TypeOK
  PROVE  /\ InPos \in Nat /\ OutPos \in Nat /\ Len(out) \in Nat
         /\ \A k \in DOMAIN outTags :
              /\ outTags[k].offset \in Nat /\ outTags[k].first \in Int
              /\ outTags[k].short \in Int /\ outTags[k].fine \in Int
<1> DEFINE R == [offset : Nat, first : Int, short : Int, fine : Int]
<1>1. InPos \in Nat /\ OutPos \in Nat /\ Len(out) \in Nat
  BY DEF InPos, OutPos, TypeOK
<1>2. \A r \in R : /\ r.offset \in Nat /\ r.first \in Int
                   /\ r.short \in Int /\ r.fine \in Int
  OBVIOUS
<1>3. outTags \in Seq(R)
  BY DEF TypeOK
<1> HIDE DEF R
<1>4. \A k \in DOMAIN outTags : outTags[k] \in R
  BY <1>3
<1>5. QED
  BY <1>1, <1>2, <1>4

(* What was written stays written, so a tag of the output stays right as     *)
(* long as new tags of the stream lie beyond what was read.                 *)
LEMMA FrameKept ==
  ASSUME NEW offset \in Nat, NEW first \in Int, NEW short \in Int, NEW fine \in Int,
         TypeOK, FrameInv(offset, first, short, fine),
         InPos' \in Nat, InPos <= InPos',
         \A t : Tag(t) => Tag(t)',
         \A t \in Nat : Tag(t)' => Tag(t) \/ t >= InPos,
         out' \in Seq(Int), Len(out) <= Len(out'),
         \A x \in 1..Len(out) : out'[x] = out[x]
  PROVE  FrameInv(offset, first, short, fine)'
<1> USE LongAssumption
<1>1. InPos \in Nat /\ Len(out) \in Nat /\ Len(out') \in Nat
  BY TypesOfTags
<1>2. offset + 1 \in 1..Len(out)
  BY <1>1 DEF FrameInv
<1>3. offset < Len(out') /\ out'[offset + 1] = first
  <2>1. out'[offset + 1] = out[offset + 1]
    BY <1>2
  <2>2. offset < Len(out) /\ out[offset + 1] = first
    BY DEF FrameInv
  <2>3. offset < Len(out')
    BY <1>1, <2>2
  <2>4. QED
    BY <2>1, <2>2, <2>3
<1>4. first < InPos'
  BY <1>1 DEF FrameInv
<1>5. Free(short, first + 1)'
  <2> SUFFICES ASSUME NEW t \in Nat, Tag(t)' PROVE t <= short \/ t >= first + 1
    BY DEF Free
  <2>1. CASE Tag(t)
    BY <2>1 DEF FrameInv, Free
  <2>2. CASE t >= InPos
    BY <1>1, <2>2 DEF FrameInv
  <2>3. QED
    BY <2>1, <2>2
<1>6. QED
  BY <1>3, <1>4, <1>5 DEF FrameInv

LEMMA FramesKept ==
  ASSUME TypeOK, FramesInv, UNCHANGED outTags, InPos' \in Nat, InPos <= InPos',
         \A t : Tag(t) => Tag(t)',
         \A t \in Nat : Tag(t)' => Tag(t) \/ t >= InPos,
         out' \in Seq(Int), Len(out) <= Len(out'),
         \A x \in 1..Len(out) : out'[x] = out[x]
  PROVE  FramesInv'
BY TypesOfTags, FrameKept DEF FramesInv

LEMMA CallStep ==
  ASSUME IInv, NEW n \in 1..MaxIn, NEW room \in 1..MaxOut, Call(n, room)
  PROVE  IInv'
<1> USE LongAssumption, GapAssumption DEF IInv
<1>1. /\ pc = "idle" /\ i = 0 /\ o = 0 /\ i' = 0 /\ o' = 0
      /\ nread' = nread /\ nwritten' = nwritten /\ nread \in Nat
      /\ d_offset' = d_offset /\ d_frame_start' = d_frame_start
      /\ d_count' = d_count /\ d_cor' = d_cor /\ d_freq_offset' = d_freq_offset
      /\ out' = out /\ outTags' = outTags /\ UNCHANGED streamVars
      /\ made' = made /\ made \in Nat /\ tags' = tags
      /\ n \in Nat /\ n > 0 /\ nread + n <= made
      /\ noutput' = room
  BY DEF Call, CallInv, TypeOK, StreamInv, streamVars
<1>2. InPos = nread /\ InPos' = nread /\ OutPos' = OutPos
  BY <1>1 DEF InPos, OutPos, TypeOK
<1>3. StreamInv' /\ \A t : Tag(t)' <=> Tag(t)
  BY <1>1 DEF StreamInv, Tag
<1>4. FramesInv'
  BY <1>1, <1>2, <1>3, FramesKept DEF TypeOK
(* Either the call begins on a tag, or it ends before the next one.         *)
<1>5. \/ /\ Tag(nread) /\ ninput' = n /\ AtTag
      \/ /\ ninput' \in 1..n /\ pc' = "loop"
         /\ \A t \in Nat : Tag(t) => t < nread \/ t >= nread + ninput'
         /\ UNCHANGED <<d_state, d_freq_offset_short>>
  <2>1. CASE TagsAhead(n) = {}
    <3>1. ASSUME NEW t \in Nat, Tag(t) PROVE t < nread \/ t >= nread + n
      BY <1>1, <2>1, <3>1 DEF TagsAhead, Tag
    <3>2. QED
      BY <1>1, <2>1, <3>1 DEF Call
  <2>2. CASE TagsAhead(n) # {}
    <3> DEFINE front == FrontTag(n)
    <3>1. /\ Tag(front) /\ front \in nread..nread + n - 1
          /\ \A t \in Nat : Tag(t) => t < nread \/ t >= front
      BY <1>1, <2>2, FrontTagIsFirst
    <3>2. \/ /\ front > nread /\ ninput' = front - nread /\ pc' = "loop"
             /\ UNCHANGED <<d_state, d_freq_offset_short>>
          \/ ~(front > nread) /\ ninput' = n /\ AtTag
      BY <2>2 DEF Call
    <3> HIDE DEF front
    <3>3. front \in Int
      BY <1>1, <3>1
    <3>4. QED
      BY <1>1, <3>1, <3>2, <3>3
  <2>3. QED
    BY <2>1, <2>2
(* Where no tag is known yet, the first one is on the first sample.         *)
<1>6. nread = 0 => Tag(0)
  BY <1>1 DEF StreamInv
<1>7. CASE Tag(nread) /\ ninput' = n /\ AtTag
  <2>1. d_state = "SYNC" => d_offset = 0
    <3> SUFFICES ASSUME d_state = "SYNC", d_offset # 0 PROVE FALSE
      OBVIOUS
    <3>1. /\ Tag(d_freq_offset_short) /\ nread = d_freq_offset_short + d_offset
          /\ d_offset \in 1..SYNC_LENGTH - 1 /\ d_freq_offset_short \in Int
      BY <1>2 DEF PlaceInv, TypeOK
    <3>2. d_freq_offset_short < nread
      BY <3>1, <1>1
    <3>3. d_freq_offset_short + MIN_GAP < nread
      BY <3>1, <3>2, <1>7, TagsApart
    <3>4. QED
      BY <3>1, <3>3, <1>1
  <2>2. /\ pc' = "loop" /\ d_freq_offset_short' = nread
        /\ d_state' = IF d_state = "COPY" THEN "RESET" ELSE d_state
        /\ d_state' \in {"SYNC", "RESET"}
    BY <1>7, <2>1 DEF AtTag, TypeOK
  <2>3. TypeOK'
    BY <1>1, <1>7, <2>2 DEF TypeOK
  <2>4. CallInv'
    BY <1>1, <1>7, <2>2 DEF CallInv, TypeOK
  <2>5. PlaceInv'
    <3>1. d_freq_offset' <= d_freq_offset_short'
      BY <1>1, <2>2 DEF PlaceInv, TypeOK
    <3>2. d_state' = "SYNC" => d_offset' = 0 /\ d_offset' < SYNC_LENGTH
      BY <1>1, <2>1, <2>2
    <3>3. QED
      BY <1>1, <1>2, <1>3, <1>7, <2>2, <3>1, <3>2 DEF PlaceInv
  <2>6. WriteInv'
    BY <1>1, <1>2, <2>2 DEF WriteInv
  <2>7. QED
    BY <1>3, <1>4, <2>3, <2>4, <2>5, <2>6
<1>8. CASE /\ ninput' \in 1..n /\ pc' = "loop"
           /\ \A t \in Nat : Tag(t) => t < nread \/ t >= nread + ninput'
           /\ UNCHANGED <<d_state, d_freq_offset_short>>
  <2>0. \A x \in 1..n : 0 <= x /\ nread + x <= made /\ ~(nread >= nread + x)
    BY <1>1
  <2>1. TypeOK'
    BY <1>1, <1>8 DEF TypeOK
  <2>2. CallInv'
    <3>1. nread' + ninput' <= made'
      BY <1>1, <1>8, <2>0
    <3>2. i' <= ninput'
      BY <1>1, <1>8, <2>0
    <3>3. d_cor = IF d_state = "SYNC" THEN d_offset ELSE 0
      BY DEF CallInv
    <3>4. QED
      BY <1>1, <1>8, <3>1, <3>2, <3>3 DEF CallInv
  <2>3. ~Tag(nread)
    <3>1. Tag(nread) => nread < nread \/ nread >= nread + ninput'
      BY <1>1, <1>8
    <3>2. ~(nread >= nread + ninput')
      BY <1>8, <2>0
    <3>3. QED
      BY <1>1, <3>1, <3>2
  <2>4. d_state = "COPY" => Free(d_freq_offset_short, nread + ninput')
    <3> SUFFICES ASSUME d_state = "COPY", NEW t \in Nat, Tag(t)
                 PROVE  t <= d_freq_offset_short \/ t >= nread + ninput'
      BY DEF Free
    <3>1. t <= d_freq_offset_short \/ t >= nread
      BY <1>2 DEF PlaceInv, Free
    <3>2. t < nread \/ t >= nread + ninput'
      BY <1>8
    <3>3. QED
      BY <1>1, <3>1, <3>2
  <2>5. PlaceInv'
    BY <1>1, <1>2, <1>3, <1>6, <1>8, <2>3, <2>4 DEF PlaceInv, Free
  <2>6. WriteInv'
    BY <1>1, <1>2, <1>8 DEF WriteInv
  <2>7. QED
    BY <1>3, <1>4, <2>1, <2>2, <2>5, <2>6
<1>9. QED
  BY <1>5, <1>7, <1>8

LEMMA CorrelateStep == IInv /\ Correlate => IInv'
<1> SUFFICES ASSUME IInv, Correlate PROVE IInv'
  OBVIOUS
<1> USE LongAssumption, GapAssumption DEF IInv
<1>1. /\ pc = "loop" /\ d_state = "SYNC" /\ i' = i + 1 /\ i + F - 1 < ninput
      /\ i \in Nat /\ ninput \in Nat /\ nread \in Nat /\ o = 0 /\ o' = o
      /\ d_freq_offset_short' = d_freq_offset_short
      /\ nread' = nread /\ nwritten' = nwritten /\ nwritten \in Nat
      /\ ninput' = ninput /\ noutput' = noutput
      /\ out' = out /\ outTags' = outTags /\ made' = made /\ tags' = tags
      /\ d_offset \in Nat /\ d_freq_offset_short \in Int /\ d_freq_offset \in Int
  BY DEF Correlate, Correlating, TypeOK, WriteInv, streamVars
<1>2. InPos' = InPos + 1 /\ InPos \in Nat /\ OutPos' = OutPos /\ i + 1 <= ninput
  BY <1>1 DEF InPos, OutPos
<1>3. StreamInv' /\ \A t : Tag(t)' <=> Tag(t)
  BY <1>1 DEF StreamInv, Tag
<1>4. FramesInv'
  BY <1>1, <1>2, <1>3, FramesKept DEF TypeOK
<1>5. /\ d_offset < SYNC_LENGTH /\ Tag(d_freq_offset_short)
      /\ InPos = d_freq_offset_short + d_offset
      /\ d_freq_offset <= d_freq_offset_short /\ d_freq_offset_short <= nread
  BY <1>1 DEF PlaceInv
<1>6. CASE /\ d_offset + 1 < SYNC_LENGTH
           /\ d_offset' = d_offset + 1 /\ d_cor' = d_cor + 1
           /\ UNCHANGED <<d_state, d_frame_start, d_count, d_freq_offset, pc>>
  <2>1. CallInv'
    BY <1>1, <1>2, <1>6 DEF CallInv
  <2>2. TypeOK'
    BY <1>1, <1>6, <2>1 DEF TypeOK, CallInv
  <2>3. PlaceInv'
    BY <1>1, <1>2, <1>3, <1>5, <1>6 DEF PlaceInv
  <2>4. WriteInv'
    BY <1>1, <1>2, <1>6 DEF WriteInv
  <2>5. QED
    BY <1>3, <1>4, <2>1, <2>2, <2>3, <2>4
<1>7. CASE /\ ~(d_offset + 1 < SYNC_LENGTH)
           /\ \E r \in SearchResults :
                /\ d_frame_start' = r.start
                /\ d_freq_offset' = IF r.estimated THEN d_freq_offset_short
                                                   ELSE d_freq_offset
           /\ d_offset' = 0 /\ d_cor' = 0 /\ d_count' = 0
           /\ d_state' = "COPY" /\ pc' = "done"
  <2>1. d_frame_start' \in 0..SYNC_LENGTH
    BY <1>7, StartInRange DEF SearchResults
  <2>2. d_freq_offset' \in {d_freq_offset_short, d_freq_offset}
    BY <1>7
  <2>3. CallInv'
    BY <1>1, <1>2, <1>7 DEF CallInv
  <2>4. TypeOK'
    BY <1>1, <1>7, <2>1, <2>2 DEF TypeOK
  <2>5. InPos' = d_freq_offset_short + SYNC_LENGTH
    BY <1>1, <1>2, <1>5, <1>7
  <2>6. Free(d_freq_offset_short, InPos')
    <3> SUFFICES ASSUME NEW t \in Nat, Tag(t), ~(t <= d_freq_offset_short)
                 PROVE  t >= InPos'
      BY DEF Free
    <3>1. d_freq_offset_short < t
      BY <1>1
    <3>2. d_freq_offset_short + MIN_GAP < t
      BY <1>5, <3>1, TagsApart
    <3>3. QED
      BY <1>1, <2>5, <3>2
  <2>7. PlaceInv'
    <3>1. d_freq_offset' <= d_freq_offset_short'
      BY <1>1, <1>5, <2>2
    <3>2. Free(d_freq_offset_short, InPos)'
      BY <1>1, <1>3, <2>6 DEF Free
    <3>3. InPos' = d_freq_offset_short' + SYNC_LENGTH + d_offset'
      BY <1>1, <1>7, <2>5
    <3>4. QED
      BY <1>1, <1>3, <1>5, <1>7, <2>1, <3>1, <3>2, <3>3 DEF PlaceInv
  <2>8. WriteInv'
    <3>1. OutPos = nwritten /\ OutPos % F = 0
      BY <1>1 DEF OutPos, WriteInv
    <3>2. (nwritten' - d_count') % F = 0
      BY <1>1, <1>7, <3>1
    <3>3. QED
      BY <1>1, <1>2, <1>7, <3>2 DEF WriteInv
  <2>9. QED
    BY <1>3, <1>4, <2>3, <2>4, <2>7, <2>8
<1>8. QED
  BY <1>6, <1>7 DEF Correlate

LEMMA CopyStep == IInv /\ Copy => IInv'
<1> SUFFICES ASSUME IInv, Copy PROVE IInv'
  OBVIOUS
<1> USE LongAssumption, GapAssumption DEF IInv
<1> DEFINE rel == d_offset - d_frame_start
           R == [offset : Nat, first : Int, short : Int, fine : Int]
           t == [offset |-> nwritten, first |-> in_delayed,
                 short |-> d_freq_offset_short, fine |-> d_freq_offset]
<1>1. /\ pc = "loop" /\ d_state = "COPY" /\ i' = i + 1 /\ i < ninput /\ o < noutput
      /\ i \in Nat /\ o \in Nat /\ ninput \in Nat /\ nread \in Nat /\ nwritten \in Nat
      /\ nread' = nread /\ nwritten' = nwritten /\ ninput' = ninput /\ noutput' = noutput
      /\ made' = made /\ tags' = tags /\ pc' = pc /\ d_state' = d_state
      /\ d_offset \in Nat /\ d_freq_offset_short \in Int /\ d_freq_offset \in Int
      /\ d_offset' = d_offset + 1 /\ d_frame_start' = d_frame_start /\ d_cor' = d_cor
      /\ d_count' = d_count /\ d_count \in Int /\ d_freq_offset' = d_freq_offset
      /\ d_freq_offset_short' = d_freq_offset_short
      /\ noutput \in Nat
  BY DEF Copy, Copying, TypeOK, streamVars
<1>2. InPos' = InPos + 1 /\ InPos \in Nat /\ in_delayed \in Int /\ InPos = nread + i
  BY <1>1 DEF InPos, in_delayed
<1>3. StreamInv' /\ \A s : Tag(s)' <=> Tag(s)
  BY <1>1 DEF StreamInv, Tag
<1>4. /\ Tag(d_freq_offset_short) /\ InPos = d_freq_offset_short + SYNC_LENGTH + d_offset
      /\ d_frame_start \in 0..SYNC_LENGTH
      /\ Free(d_freq_offset_short, InPos) /\ Free(d_freq_offset_short, nread + ninput)
      /\ d_freq_offset <= d_freq_offset_short /\ d_freq_offset_short <= nread
  BY <1>1 DEF PlaceInv
<1>5. \/ OnGrid(rel) /\ out' = Append(out, in_delayed) /\ o' = o + 1
      \/ ~OnGrid(rel) /\ out' = out /\ o' = o
  BY DEF Copy
<1>6. outTags' = IF rel = 0 THEN Append(outTags, t) ELSE outTags
  BY DEF Copy
<1>7. /\ out \in Seq(Int) /\ out' \in Seq(Int)
      /\ \/ Len(out') = Len(out) /\ o' = o
         \/ Len(out') = Len(out) + 1 /\ o' = o + 1
      /\ Len(out) \in Nat /\ Len(out') \in Nat /\ o' \in Nat /\ o <= o'
      /\ \A x \in 1..Len(out) : out'[x] = out[x]
      /\ Len(out) <= Len(out')
  <2>1. out \in Seq(Int) /\ Len(out) \in Nat
    BY DEF TypeOK
  <2>2. CASE out' = Append(out, in_delayed) /\ o' = o + 1
    <3>1. out' \in Seq(Int) /\ Len(out') = Len(out) + 1
      BY <1>2, <2>1, <2>2
    <3>2. \A x \in 1..Len(out) : out'[x] = out[x]
      BY <1>2, <2>1, <2>2
    <3>3. QED
      BY <1>1, <2>1, <2>2, <3>1, <3>2
  <2>3. CASE out' = out /\ o' = o
    BY <1>1, <2>1, <2>3
  <2>4. QED
    BY <1>5, <2>2, <2>3
<1>8. CallInv'
  BY <1>1 DEF CallInv
<1>9. PlaceInv'
  <2>1. Free(d_freq_offset_short, InPos)'
    BY <1>1, <1>2, <1>3, <1>4 DEF Free
  <2>2. Free(d_freq_offset_short, nread + ninput)'
    BY <1>1, <1>3, <1>4 DEF Free
  <2>3. InPos' = d_freq_offset_short' + SYNC_LENGTH + d_offset'
    BY <1>1, <1>2, <1>4
  <2>4. QED
    BY <1>1, <1>3, <1>4, <2>1, <2>2, <2>3 DEF PlaceInv
(* Nothing is written before the frame start, and the frame start is.       *)
<1>10. rel \in Int /\ (rel < 0 => ~OnGrid(rel)) /\ (rel = 0 => OnGrid(rel))
  BY <1>1, <1>4 DEF OnGrid
<1>11. WriteInv'
  <2>1. Len(out') = OutPos'
    <3>1. Len(out) = nwritten + o
      BY DEF WriteInv, OutPos
    <3>2. CASE Len(out') = Len(out) /\ o' = o
      BY <1>1, <3>1, <3>2 DEF OutPos
    <3>3. CASE Len(out') = Len(out) + 1 /\ o' = o + 1
      BY <1>1, <3>1, <3>3 DEF OutPos
    <3>4. QED
      BY <1>7, <3>2, <3>3
  <2>2. d_offset' <= d_frame_start' => o' = 0 /\ d_count' = 0
    BY <1>1, <1>4, <1>5, <1>10 DEF WriteInv
  <2>3. (nwritten' - d_count') % F = 0
    BY <1>1 DEF WriteInv
  <2>4. QED
    BY <1>1, <2>1, <2>2, <2>3 DEF WriteInv
(* A frame start is tagged while nothing of the frame has been written.      *)
<1>12. PICK first : first = in_delayed
  OBVIOUS
<1>13. rel = 0 => FrameInv(nwritten, first, d_freq_offset_short, d_freq_offset)'
  <2> SUFFICES ASSUME rel = 0
               PROVE  FrameInv(nwritten, first, d_freq_offset_short, d_freq_offset)'
    OBVIOUS
  <2>1. o = 0 /\ d_count = 0 /\ nwritten % F = 0 /\ Len(out) = nwritten
    BY <1>1, <1>4 DEF WriteInv, OutPos
  <2>2. out' = Append(out, first)
    BY <1>5, <1>10, <1>12
  <2>3. nwritten < Len(out') /\ out'[nwritten + 1] = first
    BY <1>1, <1>2, <1>7, <1>12, <2>1, <2>2
  <2>4. first - d_freq_offset_short = d_frame_start /\ first \in Int
    BY <1>1, <1>2, <1>4, <1>12 DEF in_delayed
  <2>5. first < InPos /\ first + 1 <= InPos /\ first < InPos'
    BY <1>2, <1>12 DEF in_delayed
  <2>6. Free(d_freq_offset_short, first + 1)'
    BY <1>1, <1>2, <1>3, <1>4, <2>4, <2>5 DEF Free
  <2>7. QED
    BY <1>1, <1>3, <1>4, <2>1, <2>3, <2>4, <2>5, <2>6 DEF FrameInv
<1> HIDE DEF rel, t, R
<1>14. outTags \in Seq(R) /\ (rel = 0 => t \in R)
  BY <1>1, <1>2 DEF TypeOK, R, t
<1>15. outTags' \in Seq(R)
  BY <1>6, <1>14
<1>16. TypeOK'
  BY <1>1, <1>7, <1>8, <1>15 DEF TypeOK, CallInv, R
<1>17. ASSUME NEW k \in DOMAIN outTags, outTags'[k] = outTags[k]
       PROVE  FrameInv(outTags[k].offset, outTags[k].first,
                       outTags[k].short, outTags[k].fine)'
  <2>1. PICK offset \in Nat, f \in Int, short \in Int, fine \in Int :
          /\ offset = outTags[k].offset /\ f = outTags[k].first
          /\ short = outTags[k].short /\ fine = outTags[k].fine
    BY TypesOfTags
  <2>2. FrameInv(offset, f, short, fine)
    BY <2>1 DEF FramesInv
  <2>3. FrameInv(offset, f, short, fine)'
    <3>1. InPos' \in Nat /\ InPos <= InPos'
      BY <1>2
    <3>2. /\ \A s : Tag(s) => Tag(s)'
          /\ \A s \in Nat : Tag(s)' => Tag(s) \/ s >= InPos
      BY <1>3
    <3>3. QED
      BY <1>7, <2>2, <3>1, <3>2, FrameKept
  <2>4. QED
    BY <1>17, <2>1, <2>3
<1>18. FramesInv'
  <2> SUFFICES ASSUME NEW k \in DOMAIN outTags'
               PROVE  FrameInv(outTags[k].offset, outTags[k].first,
                               outTags[k].short, outTags[k].fine)'
    BY DEF FramesInv
  <2>1. CASE k \in DOMAIN outTags
    <3>1. outTags'[k] = outTags[k]
      BY <1>6, <1>14, <2>1
    <3>2. QED
      BY <1>17, <2>1, <3>1
  <2>2. CASE k \notin DOMAIN outTags
    <3>1. rel = 0 /\ outTags'[k] = t
      BY <1>6, <1>14, <2>2
    <3>2. /\ outTags'[k].offset = nwritten' /\ outTags'[k].first = first
          /\ outTags'[k].short = d_freq_offset_short'
          /\ outTags'[k].fine = d_freq_offset'
      BY <1>1, <1>12, <3>1 DEF t
    <3>3. QED
      BY <1>13, <3>1, <3>2
  <2>3. QED
    BY <2>1, <2>2
<1>19. QED
  BY <1>3, <1>8, <1>9, <1>11, <1>16, <1>18

LEMMA ResetStep == IInv /\ Reset => IInv'
<1> SUFFICES ASSUME IInv, Reset PROVE IInv'
  OBVIOUS
<1> USE LongAssumption, GapAssumption DEF IInv
<1>1. /\ pc = "loop" /\ d_state = "RESET" /\ o < noutput /\ o \in Nat /\ i \in Nat
      /\ nread' = nread /\ nwritten' = nwritten /\ nread \in Nat /\ nwritten \in Nat
      /\ d_frame_start' = d_frame_start /\ d_count' = d_count /\ d_count \in Int
      /\ d_cor' = d_cor /\ d_freq_offset_short' = d_freq_offset_short
      /\ d_freq_offset' = d_freq_offset /\ ninput' = ninput /\ noutput' = noutput
      /\ i' = i /\ outTags' = outTags /\ made' = made /\ tags' = tags
      /\ out \in Seq(Int) /\ noutput \in Nat /\ d_freq_offset_short \in Int
  BY DEF Reset, Resetting, TypeOK, streamVars
<1>2. InPos' = InPos /\ InPos \in Nat
  BY <1>1 DEF InPos
<1>3. StreamInv' /\ \A t : Tag(t)' <=> Tag(t)
  BY <1>1 DEF StreamInv, Tag
<1>4. /\ Tag(d_freq_offset_short) /\ InPos = d_freq_offset_short
      /\ d_freq_offset <= d_freq_offset_short /\ d_freq_offset_short <= nread
      /\ (nwritten - d_count) % F = 0 /\ Len(out) = nwritten + o
  BY <1>1 DEF PlaceInv, WriteInv, OutPos
<1>5. CASE /\ (d_count + o) % F = 0
           /\ d_offset' = 0 /\ d_state' = "SYNC" /\ pc' = "done" /\ UNCHANGED <<out, o>>
  <2>1. TypeOK' /\ CallInv'
    BY <1>1, <1>5 DEF TypeOK, CallInv
  <2>2. PlaceInv'
    BY <1>1, <1>2, <1>3, <1>4, <1>5 DEF PlaceInv
  <2>3. (nwritten + o) % F = 0
    <3>1. nwritten - d_count \in Int /\ d_count + o \in Int
      BY <1>1
    <3>2. ((nwritten - d_count) + (d_count + o)) % F = 0
      BY <1>4, <1>5, <3>1, ModSum
    <3>3. (nwritten - d_count) + (d_count + o) = nwritten + o
      BY <1>1
    <3>4. QED
      BY <3>2, <3>3
  <2>4. WriteInv'
    BY <1>1, <1>4, <1>5, <2>3 DEF WriteInv, OutPos
  <2>5. FramesInv'
    BY <1>1, <1>2, <1>3, <1>5, FramesKept DEF TypeOK
  <2>6. QED
    BY <1>3, <2>1, <2>2, <2>4, <2>5
<1>6. CASE out' = Append(out, Pad) /\ o' = o + 1 /\ UNCHANGED <<d_offset, d_state, pc>>
  <2>1. Pad \in Int /\ Len(out) \in Nat
    BY <1>1 DEF Pad
  <2>2. /\ out' \in Seq(Int) /\ Len(out') = Len(out) + 1
        /\ \A x \in 1..Len(out) : out'[x] = out[x]
    BY <1>1, <1>6, <2>1
  <2>3. TypeOK' /\ CallInv'
    BY <1>1, <1>6, <2>2 DEF TypeOK, CallInv
  <2>4. PlaceInv'
    BY <1>1, <1>2, <1>3, <1>4, <1>6 DEF PlaceInv
  <2>5. WriteInv'
    BY <1>1, <1>4, <1>6, <2>2 DEF WriteInv, OutPos
  <2>6. FramesInv'
    BY <1>1, <1>2, <1>3, <2>1, <2>2, FramesKept
  <2>7. QED
    BY <1>3, <2>3, <2>4, <2>5, <2>6
<1>7. QED
  BY <1>5, <1>6 DEF Reset

LEMMA ReturnStep == IInv /\ Return => IInv'
<1> SUFFICES ASSUME IInv, Return PROVE IInv'
  OBVIOUS
<1> USE LongAssumption, GapAssumption DEF IInv
<1>1. /\ d_count' = d_count + o /\ nread' = nread + i /\ nwritten' = nwritten + o
      /\ pc' = "idle" /\ ninput' = 0 /\ noutput' = 0 /\ i' = 0 /\ o' = 0
      /\ d_state' = d_state /\ d_offset' = d_offset /\ d_frame_start' = d_frame_start
      /\ d_cor' = d_cor /\ d_freq_offset_short' = d_freq_offset_short
      /\ d_freq_offset' = d_freq_offset /\ out' = out /\ outTags' = outTags
      /\ made' = made /\ tags' = tags /\ pc \in {"loop", "done"}
      /\ nread \in Nat /\ nwritten \in Nat /\ i \in Nat /\ o \in Nat /\ d_count \in Int
      /\ out \in Seq(Int) /\ d_freq_offset_short \in Int /\ ninput \in Nat /\ made \in Nat
  BY DEF Return, TypeOK, StreamInv, streamVars
<1>2. InPos' = InPos /\ InPos = nread + i /\ OutPos' = OutPos /\ OutPos = nwritten + o
  BY <1>1 DEF InPos, OutPos
<1>3. StreamInv' /\ \A t : Tag(t)' <=> Tag(t)
  BY <1>1 DEF StreamInv, Tag
<1>4. TypeOK'
  BY <1>1 DEF TypeOK
<1>5. CallInv'
  BY <1>1 DEF CallInv
<1>6. PlaceInv'
  <2>1. d_freq_offset_short <= nread + i
    BY <1>1 DEF PlaceInv
  <2>2. Free(d_freq_offset_short, InPos) => Free(d_freq_offset_short, InPos)'
    BY <1>1, <1>2, <1>3 DEF Free
  <2>3. QED
    BY <1>1, <1>2, <1>3, <2>1, <2>2 DEF PlaceInv
<1>7. WriteInv'
  <2>1. nwritten' - d_count' = nwritten - d_count
    BY <1>1
  <2>2. d_count = 0 /\ o = 0 => d_count' = 0
    BY <1>1
  <2>3. QED
    BY <1>1, <1>2, <2>1, <2>2 DEF WriteInv
<1>8. FramesInv'
  BY <1>1, <1>2, <1>3, FramesKept
<1>9. QED
  BY <1>3, <1>4, <1>5, <1>6, <1>7, <1>8

(* Upstream puts tags behind all that was read.                              *)
LEMMA UpstreamStep == IInv /\ Upstream => IInv'
<1> SUFFICES ASSUME IInv, Upstream PROVE IInv'
  OBVIOUS
<1> USE LongAssumption, GapAssumption DEF IInv
<1>1. /\ d_state' = d_state /\ d_offset' = d_offset /\ d_frame_start' = d_frame_start
      /\ d_count' = d_count /\ d_cor' = d_cor
      /\ d_freq_offset_short' = d_freq_offset_short /\ d_freq_offset' = d_freq_offset
      /\ nread' = nread /\ nwritten' = nwritten /\ pc' = pc /\ ninput' = ninput
      /\ noutput' = noutput /\ i' = i /\ o' = o /\ out' = out /\ outTags' = outTags
      /\ nread \in Nat /\ i \in Nat /\ ninput \in Nat /\ i <= ninput
      /\ made \in Nat /\ tags \in Seq(Nat) /\ nread + ninput <= made
      /\ d_freq_offset_short \in Int /\ out \in Seq(Int)
  BY DEF Upstream, state, locals, TypeOK, CallInv, StreamInv
<1>2. /\ InPos' = InPos /\ InPos \in Nat /\ OutPos' = OutPos /\ InPos <= made
      /\ nread + ninput = (nread + ninput)'
  BY <1>1 DEF InPos, OutPos
<1>3. /\ StreamInv' /\ made' \in Nat /\ made <= made' /\ tags' \in Seq(Nat)
      /\ \A t : Tag(t) => Tag(t)'
      /\ \A t : Tag(t)' => Tag(t) \/ t = made
  <2>1. CASE StartFrame
    <3>1. /\ tags' = Append(tags, made) /\ made' = made
          /\ made = 0 \/ tags # <<>>
          /\ tags # <<>> => made - tags[Len(tags)] > MIN_GAP
      BY <2>1 DEF StartFrame, SinceTag
    <3>2. /\ tags' \in Seq(Nat) /\ Len(tags') = Len(tags) + 1
          /\ tags'[Len(tags) + 1] = made
          /\ \A k \in DOMAIN tags : k \in DOMAIN tags' /\ tags'[k] = tags[k]
          /\ DOMAIN tags' = DOMAIN tags \cup {Len(tags) + 1}
      BY <1>1, <3>1
    <3>3. \A t : Tag(t)' <=> Tag(t) \/ t = made
      BY <3>2 DEF Tag
    <3>4. \A k \in DOMAIN tags : tags[k] + MIN_GAP < made
      <4> SUFFICES ASSUME NEW k \in DOMAIN tags PROVE tags[k] + MIN_GAP < made
        OBVIOUS
      <4>1. k \in 1..Len(tags) /\ Len(tags) \in DOMAIN tags /\ tags # <<>>
            /\ tags[k] \in Nat /\ tags[Len(tags)] \in Nat
        BY <1>1
      <4>2. tags[Len(tags)] + MIN_GAP < made
        BY <1>1, <3>1, <4>1
      <4>3. k < Len(tags) => tags[k] + MIN_GAP < tags[Len(tags)]
        BY <4>1 DEF StreamInv
      <4>4. QED
        BY <1>1, <4>1, <4>2, <4>3
    <3>5. \A k \in DOMAIN tags' : tags'[k] <= made'
      BY <1>1, <3>1, <3>2 DEF StreamInv
    <3>6. \A j, k \in DOMAIN tags' : j < k => tags'[j] + MIN_GAP < tags'[k]
      <4> SUFFICES ASSUME NEW j \in DOMAIN tags', NEW k \in DOMAIN tags', j < k
                   PROVE  tags'[j] + MIN_GAP < tags'[k]
        OBVIOUS
      <4>1. j \in 1..Len(tags) + 1 /\ k \in 1..Len(tags) + 1 /\ Len(tags) \in Nat
        <5>1. DOMAIN tags = 1..Len(tags) /\ Len(tags) \in Nat
          BY <1>1
        <5>2. \A x \in DOMAIN tags : x \in 1..Len(tags) + 1
          BY <5>1
        <5>3. Len(tags) + 1 \in 1..Len(tags) + 1
          BY <5>1
        <5>4. QED
          BY <3>2, <5>1, <5>2, <5>3
      <4>2. j \in DOMAIN tags
        BY <1>1, <4>1
      <4>3. CASE k = Len(tags) + 1
        BY <3>2, <3>4, <4>2, <4>3
      <4>4. CASE k \in DOMAIN tags
        BY <3>2, <4>2, <4>4 DEF StreamInv
      <4>5. QED
        BY <3>2, <4>3, <4>4
    <3>7. made' > 0 => Tag(0)'
      BY <3>1, <3>3 DEF StreamInv
    <3>8. StreamInv'
      BY <1>1, <3>1, <3>2, <3>5, <3>6, <3>7 DEF StreamInv
    <3>9. QED
      BY <1>1, <3>1, <3>2, <3>3, <3>8
  <2>2. CASE Sample
    <3>1. made' = made + 1 /\ tags' = tags /\ tags # <<>>
      BY <2>2 DEF Sample
    <3>2. \A t : Tag(t)' <=> Tag(t)
      BY <3>1 DEF Tag
    <3>3. Tag(0)
      <4>1. CASE made > 0
        BY <4>1 DEF StreamInv
      <4>2. CASE made = 0
        <5>1. 1 \in DOMAIN tags /\ tags[1] \in Nat /\ tags[1] <= made
          BY <1>1, <3>1 DEF StreamInv
        <5>2. tags[1] = 0
          BY <4>2, <5>1
        <5>3. QED
          BY <5>1, <5>2 DEF Tag
      <4>3. QED
        BY <1>1, <4>1, <4>2
    <3>4. \A k \in DOMAIN tags : tags[k] <= made + 1
      BY <1>1 DEF StreamInv
    <3>5. StreamInv'
      BY <1>1, <3>1, <3>2, <3>3, <3>4 DEF StreamInv
    <3>6. QED
      BY <1>1, <3>1, <3>2, <3>5
  <2>3. QED
    BY <2>1, <2>2 DEF Upstream, StreamNext
<1>4. TypeOK'
  BY <1>1, <1>3 DEF TypeOK
<1>5. CallInv'
  BY <1>1, <1>2, <1>3 DEF CallInv
<1>6. PlaceInv'
  <2>1. ASSUME Free(d_freq_offset_short, InPos)
        PROVE  Free(d_freq_offset_short, InPos)'
    BY <1>1, <1>2, <1>3, <2>1 DEF Free
  <2>2. ASSUME Free(d_freq_offset_short, nread + ninput)
        PROVE  Free(d_freq_offset_short, nread + ninput)'
    BY <1>1, <1>2, <1>3, <2>2 DEF Free
  <2>3. QED
    BY <1>1, <1>2, <1>3, <2>1, <2>2 DEF PlaceInv
<1>7. WriteInv'
  BY <1>1, <1>2 DEF WriteInv
<1>8. FramesInv'
  <2>1. \A t \in Nat : Tag(t)' => Tag(t) \/ t >= InPos
    BY <1>2, <1>3
  <2>2. QED
    BY <1>1, <1>2, <1>3, <2>1, FramesKept
<1>9. QED
  BY <1>3, <1>4, <1>5, <1>6, <1>7, <1>8

LEMMA IInvInductive == IInv /\ [Next]_longVars => IInv'
<1> SUFFICES ASSUME IInv, [Next]_longVars PROVE IInv'
  OBVIOUS
<1>1. CASE \E n \in 1..MaxIn, room \in 1..MaxOut : Call(n, room)
  BY <1>1, CallStep
<1>2. CASE UNCHANGED longVars
  <2>1. UNCHANGED <<d_state, d_offset, d_frame_start, d_count, d_cor, d_freq_offset_short,
                    d_freq_offset, nread, nwritten, pc, ninput, noutput, i, o, out,
                    outTags, made, tags>>
    BY <1>2 DEF longVars, state, locals, streamVars
  <2>2. TypeOK'
    BY <2>1 DEF IInv, TypeOK
  <2>3. StreamInv' /\ CallInv'
    BY <2>1 DEF IInv, StreamInv, CallInv, Tag
  <2>4. PlaceInv'
    BY <2>1 DEF IInv, PlaceInv, Free, Tag, InPos
  <2>5. WriteInv'
    BY <2>1 DEF IInv, WriteInv, OutPos
  <2>6. FramesInv'
    BY <2>1 DEF IInv, FramesInv, FrameInv, Free, Tag, InPos
  <2>7. QED
    BY <2>2, <2>3, <2>4, <2>5, <2>6 DEF IInv
<1>3. QED
  BY <1>1, <1>2, CorrelateStep, CopyStep, ResetStep, ReturnStep, UpstreamStep
     DEF Next, LongNext

LEMMA IInvAlways == Spec => []IInv
BY InitIInv, IInvInductive, PTL DEF Spec

-----------------------------------------------------------------------------
(* Every variable of sync_long keeps its type.                              *)
THEOREM TypeCorrect == Spec => []TypeOK
<1>1. IInv => TypeOK
  BY DEF IInv
<1>2. QED
  BY <1>1, IInvAlways, PTL

(* The runtime_error "wtf" (sync_long.cc:80) is never thrown and the assert *)
(* of search_frame_start (sync_long.cc:182) never fails, on any stream whose *)
(* tags are more than MIN_GAP apart.                                        *)
THEOREM ChecksHold == Spec => []NoCheckFails
<1>1. IInv => NoCheckFails
  BY DEF IInv, CallInv, NoCheckFails
<1>2. QED
  BY <1>1, IInvAlways, PTL

(* Each frame starts on a vector of F items and its tag is on its first      *)
(* sample, although the code adds it at nitems_written(0)                    *)
(* (sync_long.cc:124).                                                      *)
THEOREM FramesStartOnVectors == Spec => []TagsOnVectors
<1>1. IInv => TagsOnVectors
  BY DEF IInv, FramesInv, FrameInv, TagsOnVectors
<1>2. QED
  BY <1>1, IInvAlways, PTL

(* The offsets a frame is corrected by are its own: d_freq_offset_short is   *)
(* of the last tag before its start, and d_freq_offset not of a later frame. *)
THEOREM OffsetsAreOfTheFrame == Spec => []OffsetsOfFrame
<1>1. IInv => OffsetsOfFrame
  <2> SUFFICES ASSUME IInv, NEW k \in DOMAIN outTags
               PROVE  LET t == outTags[k]
                      IN /\ t.short \in Range(tags)
                         /\ t.first - t.short \in 0..SYNC_LENGTH
                         /\ \A u \in Range(tags) : u <= t.short \/ u > t.first
                         /\ t.fine <= t.short
    BY DEF OffsetsOfFrame
  <2>1. PICK offset \in Nat, first \in Int, short \in Int, fine \in Int :
          /\ offset = outTags[k].offset /\ first = outTags[k].first
          /\ short = outTags[k].short /\ fine = outTags[k].fine
    BY TypesOfTags DEF IInv
  <2>2. FrameInv(offset, first, short, fine)
    BY <2>1 DEF IInv, FramesInv
  <2>3. \A u : u \in Range(tags) <=> Tag(u)
    BY DEF Range, Tag
  <2>4. \A u \in Range(tags) : u \in Nat
    BY DEF IInv, StreamInv, Range
  <2>5. \A u \in Range(tags) : u <= short \/ u > first
    BY <2>2, <2>3, <2>4 DEF FrameInv, Free
  <2>6. QED
    BY <2>1, <2>2, <2>3, <2>5 DEF FrameInv
<1>2. QED
  BY <1>1, IInvAlways, PTL
-----------------------------------------------------------------------------
(* What is written of each frame.                                           *)

(* Division by w gives back the quotient and the remainder it was made of.   *)
LEMMA Division ==
  ASSUME NEW w \in Nat \ {0}, NEW q \in Int, NEW s \in 0..w - 1, NEW m \in Int,
         m = w * q + s
  PROVE  m % w = s /\ m \div w = q
<1>1. m % w \in 0..w - 1 /\ m \div w \in Int /\ m = w * (m \div w) + (m % w)
  OBVIOUS
<1>2. w * (q - m \div w) = (m % w) - s
  BY <1>1
<1>3. q - m \div w = 0
  <2>1. PICK d \in Int : d = q - m \div w
    BY <1>1
  <2>2. w * d \in -(w - 1)..w - 1
    BY <1>1, <1>2, <2>1
  <2>3. ~(d >= 1)
    BY <2>2
  <2>4. ~(d <= -1)
    BY <2>2
  <2>5. QED
    BY <2>1, <2>3, <2>4
<1>4. QED
  BY <1>1, <1>2, <1>3

(* The k-th sample is the r-th of data symbol q, or of a training symbol.    *)
LEMMA GridParts ==
  ASSUME NEW k \in Nat, k >= 2 * F
  PROVE  \E q \in Nat, r \in 0..F - 1 :
           /\ k = 2 * F + F * q + r
           /\ Grid(k) = 2 * F + (F + CP) * q + CP + r
<1>1. F \in Nat \ {0} /\ CP \in Nat
  BY LongAssumption
<1>2. PICK m \in Nat : m = k - 2 * F
  BY <1>1
<1>3. PICK q \in Nat, r \in 0..F - 1 : m = F * q + r /\ q = m \div F
  <2>1. m \div F \in Nat /\ m % F \in 0..F - 1 /\ m = F * (m \div F) + (m % F)
    BY <1>1
  <2>2. QED
    BY <2>1
<1>4. Grid(k) = k + CP * (q + 1)
  BY <1>1, <1>2, <1>3 DEF Grid
<1>5. k = 2 * F + F * q + r
  BY <1>1, <1>2, <1>3
<1>6. F * q + CP * (q + 1) = (F + CP) * q + CP
  BY <1>1
<1>7. F * q \in Int /\ CP * (q + 1) \in Int /\ (F + CP) * q \in Int
  BY <1>1
<1>8. Grid(k) = 2 * F + (F + CP) * q + CP + r
  BY <1>1, <1>4, <1>5, <1>6, <1>7
<1>9. QED
  BY <1>5, <1>8

(* From one sample to the next the grid goes on by one, or over a prefix.    *)
LEMMA GridGoesOn ==
  ASSUME NEW n \in Nat
  PROVE  /\ Grid(n) \in Nat
         /\ \/ /\ Grid(n + 1) = Grid(n) + 1
               /\ OnGrid(Grid(n + 1))
            \/ \E q \in Nat :
                 /\ Grid(n) = 2 * F + (F + CP) * q - 1
                 /\ Grid(n + 1) = 2 * F + (F + CP) * q + CP
<1>1. F \in Nat \ {0} /\ CP \in Nat
  BY LongAssumption
<1>2. CASE n + 1 < 2 * F
  BY <1>1, <1>2 DEF Grid, OnGrid
<1>3. CASE n + 1 = 2 * F
  <2>1. Grid(n) = 2 * F + (F + CP) * 0 - 1
    BY <1>1, <1>3 DEF Grid
  <2>2. n + 1 - 2 * F = 0 /\ 0 \div F = 0
    BY <1>1, <1>3
  <2>3. Grid(n + 1) = 2 * F + (F + CP) * 0 + CP
    BY <1>1, <1>3, <2>2 DEF Grid
  <2>4. Grid(n) \in Nat
    BY <1>1, <1>3 DEF Grid
  <2>5. QED
    BY <2>1, <2>3, <2>4
<1>4. CASE n + 1 > 2 * F
  <2>1. PICK q \in Nat, r \in 0..F - 1 :
          /\ n = 2 * F + F * q + r
          /\ Grid(n) = 2 * F + (F + CP) * q + CP + r
    <3>1. n >= 2 * F
      BY <1>1, <1>4
    <3>2. QED
      BY <3>1, GridParts, Zenon
  <2>2. PICK a \in Nat, b \in Nat, c \in Nat, d \in Nat :
          a = (F + CP) * q /\ b = F * q /\ c = CP * (q + 1) /\ d = CP * q
    BY <1>1
  <2>3. a = b + d /\ c = d + CP
    BY <1>1, <2>2
  <2>4. Grid(n) \in Nat
    BY <1>1, <2>1, <2>2
  <2>5. CASE r < F - 1
    <3>1. (n + 1 - 2 * F) \div F = q
      BY <1>1, <2>1, <2>5, Division
    <3>2. Grid(n + 1) = n + 1 + CP * (q + 1)
      BY <1>1, <1>4, <3>1 DEF Grid
    <3>3. Grid(n + 1) = Grid(n) + 1
      BY <1>1, <2>1, <2>2, <2>3, <3>2
    <3>4. (Grid(n + 1) - 2 * F) % (F + CP) = CP + r + 1
      <4>1. PICK w \in Nat \ {0} : w = F + CP
        BY <1>1
      <4>2. PICK m \in Int : m = Grid(n + 1) - 2 * F
        BY <1>1, <2>4, <3>3
      <4>3. PICK s \in Int : s = CP + r + 1
        BY <1>1
      <4>4. m = w * q + s
        BY <1>1, <2>1, <3>3, <4>1, <4>2, <4>3
      <4>5. s \in 0..w - 1 /\ q \in Int
        BY <1>1, <2>5, <4>1, <4>3
      <4>6. m % w = s
        BY <4>4, <4>5, Division
      <4>7. QED
        BY <4>1, <4>2, <4>3, <4>6
    <3>5. OnGrid(Grid(n + 1))
      BY <1>1, <2>4, <3>3, <3>4 DEF OnGrid
    <3>6. QED
      BY <2>4, <3>3, <3>5
  <2>6. CASE r = F - 1
    <3>1. n + 1 - 2 * F = F * (q + 1) + 0
      BY <1>1, <2>1, <2>6
    <3>2. (n + 1 - 2 * F) \div F = q + 1
      BY <1>1, <3>1, Division
    <3>3. Grid(n + 1) = n + 1 + CP * (q + 2)
      BY <1>1, <1>4, <3>2 DEF Grid
    <3>4. (F + CP) * (q + 1) = a + F + CP /\ CP * (q + 2) = d + CP + CP
      BY <1>1, <2>2
    <3>5. /\ Grid(n) = 2 * F + (F + CP) * (q + 1) - 1
          /\ Grid(n + 1) = 2 * F + (F + CP) * (q + 1) + CP
      BY <1>1, <2>1, <2>2, <2>3, <2>6, <3>3, <3>4
    <3>6. QED
      BY <2>4, <3>5
  <2>7. QED
    BY <1>1, <2>5, <2>6
<1>5. QED
  BY <1>1, <1>2, <1>3, <1>4

(* Between two samples of the grid and on the later one: on the grid is only *)
(* the later one.                                                           *)
LEMMA GridHit ==
  ASSUME NEW n \in Nat, NEW rel \in Int, Grid(n) < rel, rel <= Grid(n + 1)
  PROVE  OnGrid(rel) <=> rel = Grid(n + 1)
<1>1. F \in Nat \ {0} /\ CP \in Nat /\ Grid(n) \in Nat
  BY LongAssumption, GridGoesOn
<1>2. CASE Grid(n + 1) = Grid(n) + 1 /\ OnGrid(Grid(n + 1))
  BY <1>1, <1>2
<1>3. CASE \E q \in Nat : /\ Grid(n) = 2 * F + (F + CP) * q - 1
                          /\ Grid(n + 1) = 2 * F + (F + CP) * q + CP
  <2>1. PICK q \in Nat : /\ Grid(n) = 2 * F + (F + CP) * q - 1
                         /\ Grid(n + 1) = 2 * F + (F + CP) * q + CP
    BY <1>3
  <2>2. PICK w \in Nat \ {0} : w = F + CP
    BY <1>1
  <2>3. PICK a \in Nat : a = w * q
    BY <2>2
  <2>4. PICK s \in Int : s = rel - 2 * F - a
    BY <1>1
  <2>5. PICK m \in Int : m = rel - 2 * F
    BY <1>1
  <2>6. s \in 0..CP /\ m = w * q + s
    BY <1>1, <2>1, <2>2, <2>3, <2>4, <2>5
  <2>7. m % w = s
    <3>1. s \in 0..w - 1 /\ q \in Int
      BY <1>1, <2>2, <2>6
    <3>2. m = w * q + s
      BY <2>6
    <3>3. QED
      BY <3>1, <3>2, Division
  <2>8. rel >= 0 /\ ~(rel < 2 * F) /\ (s > CP - 1 <=> rel = Grid(n + 1))
    BY <1>1, <2>1, <2>2, <2>3, <2>4, <2>6
  <2>9. QED
    BY <2>2, <2>5, <2>7, <2>8 DEF OnGrid
<1>4. QED
  BY <1>2, <1>3, GridGoesOn

(* Items from + 1..to of the output are n samples of the frame that starts   *)
(* with sample first, those read before position upto, and then zeros that   *)
(* stop at a multiple of F.                                                 *)
Filled(from, n, to, first, upto) ==
  /\ \A j \in 1..n : out[from + j] = first + Grid(j - 1)
  /\ \A x \in from + n + 1..to : out[x] = Pad
  /\ \A x \in from + n..to - 1 : x % F # 0
  /\ first + Grid(n - 1) < upto - SYNC_LENGTH
  /\ upto - SYNC_LENGTH <= first + Grid(n)

(* A frame that the next tag of the stream has ended.                       *)
Closed(from, to, first, short) ==
  \E n \in Nat \ {0}, end \in Nat :
    /\ Tag(end) /\ short < end /\ end <= InPos /\ Free(short, end)
    /\ from + n <= to /\ to <= Len(out)
    /\ Filled(from, n, to, first, end)

ClosedFrame(k) ==
  Closed(outTags[k].offset, FrameEnd(k), outTags[k].first, outTags[k].short)

(* A frame that COPY is writing: there are no zeros yet.                    *)
Open(from, to, first, short) ==
  /\ short = d_freq_offset_short
  /\ first = short + d_frame_start
  /\ from < to
  /\ Filled(from, to - from, to, first, InPos)

OpenFrame ==
  LET t == outTags[Len(outTags)]
  IN Open(t.offset, Len(out), t.first, t.short)

Writing == d_state = "COPY" /\ d_offset > d_frame_start

ContentInv ==
  /\ \A k \in DOMAIN outTags : k < Len(outTags) \/ ~Writing => ClosedFrame(k)
  /\ Writing => outTags # <<>> /\ OpenFrame

(* What was written stays, and new tags of the stream lie beyond what was    *)
(* read.                                                                    *)
Grows ==
  /\ InPos' \in Nat /\ InPos <= InPos'
  /\ \A t : Tag(t) => Tag(t)'
  /\ \A t \in Nat : Tag(t)' => Tag(t) \/ t >= InPos
  /\ out' \in Seq(Int) /\ Len(out') \in Nat /\ Len(out) <= Len(out')
  /\ \A x \in 1..Len(out) : out'[x] = out[x]

LEMMA FilledKept ==
  ASSUME NEW from \in Nat, NEW n \in Nat, NEW to \in Nat, NEW first \in Int,
         NEW upto \in Nat, Len(out) \in Nat,
         Filled(from, n, to, first, upto), from + n <= to, to <= Len(out),
         \A x \in 1..Len(out) : out'[x] = out[x]
  PROVE  Filled(from, n, to, first, upto)'
<1>1. \A j \in 1..n : out'[from + j] = out[from + j]
  <2> SUFFICES ASSUME NEW j \in 1..n PROVE out'[from + j] = out[from + j]
    OBVIOUS
  <2>1. PICK x \in Int : x = from + j
    OBVIOUS
  <2>2. x \in 1..Len(out)
    BY <2>1
  <2>3. QED
    BY <2>1, <2>2
<1>2. \A x \in from + n + 1..to : out'[x] = out[x]
  <2>1. \A x \in from + n + 1..to : x \in 1..Len(out)
    OBVIOUS
  <2>2. QED
    BY <2>1
<1>3. QED
  BY <1>1, <1>2 DEF Filled

LEMMA ClosedKept ==
  ASSUME NEW from \in Nat, NEW to \in Nat, NEW first \in Int, NEW short \in Int,
         TypeOK, Closed(from, to, first, short), Grows
  PROVE  Closed(from, to, first, short)'
<1>1. InPos \in Nat /\ Len(out) \in Nat
  BY TypesOfTags
<1>2. PICK n \in Nat \ {0}, end \in Nat :
        /\ Tag(end) /\ short < end /\ end <= InPos /\ Free(short, end)
        /\ from + n <= to /\ to <= Len(out)
        /\ Filled(from, n, to, first, end)
  BY DEF Closed
<1>3. Tag(end)' /\ end <= InPos' /\ to <= Len(out')
  <2>1. Tag(end)'
    BY <1>2 DEF Grows
  <2>2. /\ InPos' \in Nat /\ InPos <= InPos'
        /\ Len(out') \in Nat /\ Len(out) <= Len(out')
    BY DEF Grows
  <2>3. end <= InPos' /\ to <= Len(out')
    BY <1>1, <1>2, <2>2
  <2>4. QED
    BY <2>1, <2>3
<1>4. Free(short, end)'
  <2> SUFFICES ASSUME NEW t \in Nat, Tag(t)' PROVE t <= short \/ t >= end
    BY DEF Free
  <2>1. Tag(t) \/ t >= InPos
    BY DEF Grows
  <2>2. QED
    BY <1>1, <1>2, <2>1 DEF Free
<1>5. Filled(from, n, to, first, end)'
  BY <1>1, <1>2, FilledKept DEF Grows
<1>6. QED
  BY <1>2, <1>3, <1>4, <1>5 DEF Closed

(* RESET writes a zero at no multiple of F.                                 *)
LEMMA ClosedPadded ==
  ASSUME NEW from \in Nat, NEW to \in Nat, NEW first \in Int, NEW short \in Int,
         TypeOK, Closed(from, to, first, short), Grows,
         to = Len(out), to % F # 0, out' = Append(out, Pad)
  PROVE  Closed(from, to + 1, first, short)'
<1>1. InPos \in Nat /\ Len(out) \in Nat /\ out \in Seq(Int) /\ Pad \in Int
  BY TypesOfTags, LongAssumption DEF TypeOK, Pad
<1>2. Len(out') = to + 1 /\ out'[to + 1] = Pad
  BY <1>1
<1>3. Closed(from, to, first, short)'
  BY ClosedKept
<1>4. PICK n \in Nat \ {0}, end \in Nat :
        /\ Tag(end)' /\ short < end /\ end <= InPos' /\ Free(short, end)'
        /\ from + n <= to /\ to <= Len(out')
        /\ Filled(from, n, to, first, end)'
  BY <1>3 DEF Closed
<1>5. Filled(from, n, to + 1, first, end)'
  <2>1. \A x \in (from + n + 1)..(to + 1) : x \in (from + n + 1)..to \/ x = to + 1
    OBVIOUS
  <2>2. \A x \in (from + n)..(to + 1 - 1) : x \in (from + n)..(to - 1) \/ x = to
    OBVIOUS
  <2>3. QED
    BY <1>2, <1>4, <2>1, <2>2 DEF Filled
<1>6. from + n <= to + 1 /\ to + 1 <= Len(out')
  BY <1>2, <1>4
<1>7. QED
  BY <1>4, <1>5, <1>6 DEF Closed

LEMMA TypesOfEnds ==
  ASSUME TypeOK, NEW k \in DOMAIN outTags
  PROVE  /\ FrameEnd(k) \in Nat /\ Len(outTags) \in Nat /\ k \in 1..Len(outTags)
         /\ outTags[k].offset \in Nat /\ outTags[k].first \in Int
         /\ outTags[k].short \in Int /\ outTags[k].fine \in Int
<1>1. k \in 1..Len(outTags) /\ Len(outTags) \in Nat
      /\ (k < Len(outTags) => k + 1 \in DOMAIN outTags)
  <2> DEFINE R == [offset : Nat, first : Int, short : Int, fine : Int]
  <2>1. outTags \in Seq(R)
    BY DEF TypeOK
  <2> HIDE DEF R
  <2>2. QED
    BY <2>1
<1>2. QED
  BY <1>1, TypesOfTags DEF FrameEnd

LEMMA ClosedStays ==
  ASSUME TypeOK, Grows, NEW k \in DOMAIN outTags, ClosedFrame(k),
         outTags'[k] = outTags[k], FrameEnd(k)' = FrameEnd(k)
  PROVE  ClosedFrame(k)'
<1>1. PICK from \in Nat, to \in Nat, first \in Int, short \in Int :
        /\ from = outTags[k].offset /\ to = FrameEnd(k)
        /\ first = outTags[k].first /\ short = outTags[k].short
  BY TypesOfEnds
<1>2. Closed(from, to, first, short)
  BY <1>1 DEF ClosedFrame
<1>3. Closed(from, to, first, short)'
  BY <1>2, ClosedKept
<1>4. QED
  BY <1>1, <1>3 DEF ClosedFrame

(* Nothing is written and COPY stays where it is, if it is writing.         *)
LEMMA ContentSame ==
  ASSUME TypeOK, ContentInv, Grows, UNCHANGED <<out, outTags>>,
         Writing' => Writing, Writing => Writing',
         Writing => InPos' = InPos /\ UNCHANGED <<d_freq_offset_short, d_frame_start>>
  PROVE  ContentInv'
<1>1. ASSUME NEW k \in DOMAIN outTags', (k < Len(outTags) \/ ~Writing)'
      PROVE  ClosedFrame(k)'
  <2>1. k \in DOMAIN outTags /\ ClosedFrame(k)
    BY <1>1 DEF ContentInv
  <2>2. FrameEnd(k)' = FrameEnd(k)
    BY DEF FrameEnd
  <2>3. QED
    BY <2>1, <2>2, ClosedStays
<1>2. ASSUME Writing'
      PROVE  (outTags # <<>> /\ OpenFrame)'
  BY <1>2 DEF ContentInv, OpenFrame, Open, Filled
<1>3. QED
  BY <1>1, <1>2, Zenon DEF ContentInv

LEMMA StepGrows == IInv /\ [Next]_longVars => Grows
<1> SUFFICES ASSUME IInv, [Next]_longVars PROVE Grows
  OBVIOUS
<1>1. /\ InPos \in Nat /\ nread \in Nat /\ i \in Nat /\ out \in Seq(Int)
      /\ Len(out) \in Nat /\ made \in Nat /\ tags \in Seq(Nat)
      /\ InPos <= made /\ ninput \in Nat
      /\ in_delayed \in Int /\ Pad \in Int
  BY LongAssumption
     DEF IInv, TypeOK, StreamInv, CallInv, InPos, in_delayed, Pad
<1>2. \/ InPos' = InPos
      \/ InPos' = InPos + 1
  BY <1>1 DEF Next, LongNext, Call, Correlate, Copy, Reset, Return, Upstream, InPos,
              locals, longVars, IInv, CallInv
<1>3. \/ UNCHANGED out
      \/ \E x \in Int : out' = Append(out, x)
  BY <1>1 DEF Next, LongNext, Call, Correlate, Copy, Reset, Return, Upstream, longVars
<1>4. /\ out' \in Seq(Int) /\ Len(out') \in Nat /\ Len(out) <= Len(out')
      /\ \A x \in 1..Len(out) : out'[x] = out[x]
  <2>1. CASE UNCHANGED out
    BY <1>1, <2>1
  <2>2. CASE \E x \in Int : out' = Append(out, x)
    <3>1. PICK x \in Int : out' = Append(out, x)
      BY <2>2
    <3>2. QED
      BY <1>1, <3>1
  <2>3. QED
    BY <1>3, <2>1, <2>2
<1>5. \/ UNCHANGED tags
      \/ tags' = Append(tags, made)
  BY DEF Next, LongNext, Call, Correlate, Copy, Reset, Return, Upstream, longVars,
         streamVars, StreamNext, StartFrame, Sample
<1>6. (\A t : Tag(t) => Tag(t)') /\ (\A t \in Nat : Tag(t)' => Tag(t) \/ t >= InPos)
  <2>1. CASE UNCHANGED tags
    BY <2>1 DEF Tag
  <2>2. CASE tags' = Append(tags, made)
    <3>1. /\ \A k \in DOMAIN tags : k \in DOMAIN tags' /\ tags'[k] = tags[k]
          /\ \A k \in DOMAIN tags' : k \in DOMAIN tags \/ tags'[k] = made
      BY <1>1, <2>2
    <3>2. \A t : Tag(t)' => Tag(t) \/ t = made
      BY <3>1 DEF Tag
    <3>3. \A t : Tag(t) => Tag(t)'
      BY <3>1 DEF Tag
    <3>4. QED
      BY <1>1, <3>2, <3>3
  <2>3. QED
    BY <1>5, <2>1, <2>2
<1>7. InPos' \in Nat /\ InPos <= InPos'
  BY <1>1, <1>2
<1>8. QED
  BY <1>4, <1>6, <1>7 DEF Grows

LEMMA InitContent == Init => ContentInv
BY DEF Init, ContentInv, Writing

(* The tag that ends the frame COPY is writing is where it was read to.      *)
LEMMA TagCloses ==
  ASSUME IInv, ContentInv, Grows, AtTag, d_state = "COPY", pc = "idle", Tag(nread),
         UNCHANGED <<out, outTags, d_offset, d_frame_start, nread, i>>
  PROVE  ContentInv'
<1>1. d_state' = "RESET" /\ ~Writing'
  BY DEF AtTag, Writing
<1>2. /\ InPos = nread /\ nread \in Nat /\ InPos' = InPos /\ d_offset \in Nat
      /\ InPos = d_freq_offset_short + SYNC_LENGTH + d_offset
      /\ Free(d_freq_offset_short, InPos) /\ d_freq_offset_short \in Int
  BY DEF IInv, TypeOK, CallInv, PlaceInv, InPos
<1>3. ASSUME NEW k \in DOMAIN outTags' PROVE ClosedFrame(k)'
  <2>1. k \in DOMAIN outTags /\ k \in 1..Len(outTags) /\ FrameEnd(k)' = FrameEnd(k)
    BY TypesOfEnds DEF IInv, FrameEnd
  <2>2. CASE k < Len(outTags) \/ ~Writing
    BY <2>1, <2>2, ClosedStays DEF IInv, ContentInv
  <2>3. CASE k = Len(outTags) /\ Writing
    <3>1. PICK from \in Nat, first \in Int, short \in Int, to \in Nat :
            /\ from = outTags[k].offset /\ first = outTags[k].first
            /\ short = outTags[k].short /\ to = FrameEnd(k)
      BY <2>1, TypesOfEnds DEF IInv
    <3>2. to = Len(out)
      BY <2>3, <3>1 DEF FrameEnd
    <3>3. Open(from, to, first, short)
      BY <2>3, <3>1, <3>2 DEF ContentInv, OpenFrame
    <3>4. PICK end \in Nat : end = InPos
      BY <1>2
    <3>5. PICK n \in Nat \ {0} : n = to - from
      BY <3>3 DEF Open
    <3>6. Filled(from, n, to, first, end)
      BY <3>3, <3>4, <3>5 DEF Open
    <3>7. /\ Tag(end) /\ short < end /\ end <= InPos /\ Free(short, end)
          /\ from + n <= to /\ to <= Len(out)
      BY <1>2, <3>2, <3>3, <3>4, <3>5, LongAssumption DEF Open
    <3>8. Closed(from, to, first, short)
      BY <3>6, <3>7 DEF Closed
    <3>9. ClosedFrame(k)
      BY <3>1, <3>8 DEF ClosedFrame
    <3>10. QED
      BY <2>1, <3>9, ClosedStays DEF IInv
  <2>4. QED
    BY <2>1, <2>2, <2>3, TypesOfEnds DEF IInv
<1>4. QED
  BY <1>1, <1>3 DEF ContentInv

(* The next sample of a frame: the first one, one of its grid, or one of a   *)
(* prefix.                                                                  *)
LEMMA CopyContent ==
  ASSUME IInv, ContentInv, Grows, Copy
  PROVE  ContentInv'
<1> DEFINE rel == d_offset - d_frame_start
           R == [offset : Nat, first : Int, short : Int, fine : Int]
           t == [offset |-> nwritten, first |-> in_delayed,
                 short |-> d_freq_offset_short, fine |-> d_freq_offset]
<1>1. /\ d_state = "COPY" /\ d_state' = d_state
      /\ d_offset \in Nat /\ d_offset' = d_offset + 1
      /\ d_frame_start \in Nat /\ d_frame_start' = d_frame_start
      /\ d_freq_offset_short \in Int /\ d_freq_offset_short' = d_freq_offset_short
      /\ d_freq_offset \in Int /\ nwritten \in Nat
      /\ in_delayed \in Int /\ in_delayed = InPos - SYNC_LENGTH
      /\ InPos \in Nat /\ InPos' = InPos + 1
      /\ in_delayed = d_freq_offset_short + d_offset
      /\ out \in Seq(Int) /\ Len(out) \in Nat
  BY LongAssumption DEF IInv, TypeOK, PlaceInv, Copy, Copying, InPos, in_delayed
<1>2. rel \in Int /\ (rel < 0 => ~OnGrid(rel)) /\ (rel = 0 => OnGrid(rel))
  BY <1>1, LongAssumption DEF OnGrid
<1>3. \/ OnGrid(rel) /\ out' = Append(out, in_delayed)
      \/ ~OnGrid(rel) /\ out' = out
  BY DEF Copy
<1>4. outTags' = IF rel = 0 THEN Append(outTags, t) ELSE outTags
  BY DEF Copy
<1>5. (Writing <=> rel > 0) /\ (Writing' <=> rel >= 0)
  BY <1>1 DEF Writing
<1> HIDE DEF rel, t
<1>6. CASE rel < 0
  <2>1. UNCHANGED <<out, outTags>> /\ ~Writing /\ ~Writing'
    BY <1>2, <1>3, <1>4, <1>5, <1>6
  <2>2. QED
    BY <2>1, ContentSame DEF IInv
<1>7. CASE rel = 0
  <2>1. /\ out' = Append(out, in_delayed) /\ outTags' = Append(outTags, t)
        /\ ~Writing /\ Writing' /\ d_offset = d_frame_start
    BY <1>1, <1>2, <1>3, <1>4, <1>5, <1>7 DEF rel
  <2>2. nwritten = Len(out)
    BY <1>1, <2>1 DEF IInv, WriteInv, OutPos, TypeOK
  <2>3. outTags \in Seq(R) /\ Len(outTags) \in Nat
    BY DEF IInv, TypeOK
  <2> HIDE DEF R
  <2>4. /\ Len(outTags') = Len(outTags) + 1 /\ outTags' # <<>>
        /\ outTags'[Len(outTags) + 1] = t
        /\ \A k \in 1..Len(outTags) : outTags'[k] = outTags[k]
        /\ DOMAIN outTags' = 1..Len(outTags) + 1
    BY <2>1, <2>3
  <2>5. ASSUME NEW k \in DOMAIN outTags', (k < Len(outTags) \/ ~Writing)'
        PROVE  ClosedFrame(k)'
    <3>1. k \in 1..Len(outTags)
      BY <2>1, <2>3, <2>4, <2>5
    <3>2. FrameEnd(k)' = FrameEnd(k)
      <4>1. CASE k < Len(outTags)
        <5>1. k + 1 \in 1..Len(outTags)
          BY <2>3, <3>1, <4>1
        <5>2. outTags'[k + 1] = outTags[k + 1] /\ k < Len(outTags')
          BY <2>3, <2>4, <3>1, <4>1, <5>1
        <5>3. QED
          BY <4>1, <5>2 DEF FrameEnd
      <4>2. CASE k = Len(outTags)
        <5>1. outTags'[k + 1].offset = Len(out) /\ k < Len(outTags')
          BY <2>2, <2>3, <2>4, <4>2 DEF t
        <5>2. QED
          BY <2>3, <4>2, <5>1 DEF FrameEnd
      <4>3. QED
        BY <2>3, <3>1, <4>1, <4>2
    <3>3. k \in DOMAIN outTags /\ outTags'[k] = outTags[k]
      BY <2>3, <2>4, <3>1
    <3>4. ClosedFrame(k)
      BY <2>1, <3>3 DEF ContentInv
    <3>5. QED
      BY <3>2, <3>3, <3>4, ClosedStays DEF IInv
  <2>6. OpenFrame'
    <3>0. PICK from \in Nat, first \in Int, short \in Int :
            from = Len(out) /\ first = in_delayed /\ short = d_freq_offset_short
      BY <1>1
    <3>1. PICK to \in Nat : from = Len(out) /\ to = from + 1
                            /\ first = in_delayed /\ short = d_freq_offset_short
      BY <3>0
    <3>2. /\ outTags'[Len(outTags')].offset = from
          /\ outTags'[Len(outTags')].first = first
          /\ outTags'[Len(outTags')].short = short
      BY <2>2, <2>4, <3>1 DEF t
    <3>3. Len(out') = to /\ out'[from + 1] = first
      BY <1>1, <2>1, <3>1
    <3>4. Grid(0) = 0 /\ Grid(1) >= 1 /\ Grid(1) \in Nat
      <4>1. F >= 1 /\ F \in Nat /\ CP \in Nat
        BY LongAssumption
      <4>2. Grid(0) = 0
        BY <4>1 DEF Grid
      <4>3. Grid(1) = 1
        BY <4>1 DEF Grid
      <4>4. QED
        BY <4>2, <4>3
    <3>5. InPos' - SYNC_LENGTH = first + 1
      BY <1>1, <3>1, LongAssumption
    <3>6. Filled(from, 1, to, first, InPos)'
      BY <3>1, <3>3, <3>4, <3>5 DEF Filled
    <3>7. to - from = 1 /\ from < to
      BY <3>1
    <3>8. short = d_freq_offset_short' /\ first = short + d_frame_start'
      BY <1>1, <2>1, <3>1
    <3>9. Open(from, to, first, short)'
      BY <3>6, <3>7, <3>8 DEF Open
    <3>10. QED
      BY <3>2, <3>3, <3>9 DEF OpenFrame
  <2>7. QED
    BY <2>4, <2>5, <2>6 DEF ContentInv
<1>8. CASE rel > 0
  <2>1. outTags' = outTags /\ Writing /\ Writing' /\ outTags # <<>> /\ OpenFrame
    BY <1>2, <1>4, <1>5, <1>8 DEF ContentInv
  <2>2. ASSUME NEW k \in DOMAIN outTags', (k < Len(outTags) \/ ~Writing)'
        PROVE  ClosedFrame(k)'
    <3>1. k \in DOMAIN outTags /\ k < Len(outTags)
      BY <2>1, <2>2
    <3>2. ClosedFrame(k) /\ FrameEnd(k)' = FrameEnd(k) /\ outTags'[k] = outTags[k]
      BY <2>1, <3>1 DEF ContentInv, FrameEnd
    <3>3. QED
      BY <3>1, <3>2, ClosedStays DEF IInv
  <2>3. OpenFrame'
    <3>1. Len(outTags) \in DOMAIN outTags
      BY <2>1 DEF IInv, TypeOK
    <3>2. PICK from \in Nat, to \in Nat, first \in Int, short \in Int :
            /\ from = outTags[Len(outTags)].offset /\ to = Len(out)
            /\ first = outTags[Len(outTags)].first
            /\ short = outTags[Len(outTags)].short
      BY <1>1, <3>1, TypesOfEnds DEF IInv
    <3>3. Open(from, to, first, short)
      BY <2>1, <3>2 DEF OpenFrame
    <3>4. PICK n \in Nat : n + 1 = to - from
      BY <3>3 DEF Open
    <3>5. /\ to - from = n + 1 /\ to = from + n + 1
          /\ InPos - SYNC_LENGTH = first + rel /\ in_delayed = first + rel
          /\ (n + 1) - 1 = n
      <4>1. first = d_freq_offset_short + d_frame_start
        BY <3>3 DEF Open
      <4>2. in_delayed = first + rel
        BY <1>1, <4>1 DEF rel
      <4>3. QED
        BY <1>1, <3>4, <4>2
    <3>6. Filled(from, n + 1, to, first, InPos)
      BY <3>3, <3>5 DEF Open
    <3>7. /\ \A j \in 1..n + 1 : out[from + j] = first + Grid(j - 1)
          /\ first + Grid(n) < first + rel /\ first + rel <= first + Grid(n + 1)
      BY <3>5, <3>6 DEF Filled
    <3>8. PICK g \in Nat, h \in Nat, l \in Nat :
            g = Grid(n) /\ h = Grid(n + 1) /\ l = Grid(n + 2)
      BY GridGoesOn
    <3>9. g < rel /\ rel <= h
      BY <1>2, <3>7, <3>8
    <3>10. OnGrid(rel) <=> rel = h
      BY <1>2, <3>8, <3>9, GridHit
    <3>11. h < l
      <4>1. n + 1 \in Nat /\ (n + 1) + 1 = n + 2
        OBVIOUS
      <4>2. \/ l = h + 1
            \/ \E q \in Nat : /\ h = 2 * F + (F + CP) * q - 1
                              /\ l = 2 * F + (F + CP) * q + CP
        <5>1. PICK m \in Nat : m = n + 1 /\ m + 1 = n + 2
          BY <4>1
        <5>2. QED
          BY <3>8, <5>1, GridGoesOn
      <4>3. CP \in Nat /\ \A q \in Nat : (F + CP) * q \in Int
        BY LongAssumption
      <4>4. QED
        BY <4>2, <4>3, LongAssumption
    <3>12. InPos' - SYNC_LENGTH = first + rel + 1
      BY <1>1, <3>5, LongAssumption
    <3>13. CASE OnGrid(rel)
      <4>1. out' = Append(out, in_delayed) /\ rel = h
        BY <1>3, <3>10, <3>13
      <4>2. /\ Len(out') = to + 1 /\ out'[to + 1] = first + h
            /\ \A x \in 1..to : out'[x] = out[x]
        <5>1. in_delayed = first + h
          BY <3>5, <4>1, Zenon
        <5>2. PICK s \in Int : s = in_delayed
          BY <1>1
        <5>3. out' = Append(out, s)
          BY <4>1, <5>2
        <5>4. QED
          BY <1>1, <3>2, <5>1, <5>2, <5>3
      <4>3. \A j \in 1..n + 2 : out'[from + j] = first + Grid(j - 1)
        <5> SUFFICES ASSUME NEW j \in 1..n + 2
                     PROVE  out'[from + j] = first + Grid(j - 1)
          OBVIOUS
        <5>1. CASE j = n + 2
          <6>1. from + j = to + 1 /\ j - 1 = n + 1
            BY <3>5, <5>1
          <6>2. QED
            BY <3>8, <4>2, <6>1
        <5>2. CASE j \in 1..n + 1
          <6>1. PICK x \in Int : x = from + j
            OBVIOUS
          <6>2. x \in 1..to
            BY <3>5, <5>2, <6>1
          <6>3. QED
            BY <3>7, <4>2, <5>2, <6>1, <6>2
        <5>3. QED
          BY <5>1, <5>2
      <4>4. Filled(from, n + 2, to + 1, first, InPos)'
        <5>1. first + h < InPos' - SYNC_LENGTH /\ InPos' - SYNC_LENGTH <= first + l
          BY <1>2, <3>11, <3>12, <4>1
        <5>2. (n + 2) - 1 = n + 1 /\ to + 1 = from + (n + 2)
          BY <3>5
        <5>3. /\ \A x \in from + (n + 2) + 1..to + 1 : FALSE
              /\ \A x \in from + (n + 2)..(to + 1) - 1 : FALSE
          BY <5>2
        <5>4. QED
          BY <3>8, <4>3, <5>1, <5>2, <5>3 DEF Filled
      <4>5. (to + 1) - from = n + 2 /\ from < to + 1
        BY <3>5
      <4>6. Open(from, to + 1, first, short)'
        BY <1>1, <3>3, <4>4, <4>5 DEF Open
      <4>7. QED
        BY <2>1, <3>2, <4>2, <4>6 DEF OpenFrame
    <3>14. CASE ~OnGrid(rel)
      <4>1. out' = out /\ rel < h
        BY <1>2, <1>3, <3>9, <3>10, <3>14
      <4>2. first + g < InPos' - SYNC_LENGTH /\ InPos' - SYNC_LENGTH <= first + h
        BY <1>2, <3>9, <3>12, <4>1
      <4>3. Filled(from, n + 1, to, first, InPos)'
        BY <3>5, <3>6, <3>8, <4>1, <4>2 DEF Filled
      <4>4. Open(from, to, first, short)'
        BY <1>1, <3>3, <3>5, <4>3 DEF Open
      <4>5. QED
        BY <2>1, <3>2, <4>1, <4>4 DEF OpenFrame
    <3>15. QED
      BY <3>13, <3>14
  <2>4. QED
    BY <2>1, <2>2, <2>3, Zenon DEF ContentInv
<1>9. QED
  BY <1>2, <1>6, <1>7, <1>8

(* RESET writes a zero behind the last frame only at no multiple of F.      *)
LEMMA ResetContent ==
  ASSUME IInv, ContentInv, Grows, Reset
  PROVE  ContentInv'
<1>1. /\ ~Writing /\ ~Writing' /\ outTags' = outTags
      /\ d_count \in Int /\ nwritten \in Int /\ o \in Nat
      /\ (nwritten - d_count) % F = 0 /\ Len(out) = nwritten + o
  BY DEF Reset, Resetting, Writing, IInv, TypeOK, WriteInv, OutPos
<1>2. CASE out' = out
  BY <1>1, <1>2, ContentSame DEF IInv
<1>3. CASE (d_count + o) % F # 0 /\ out' = Append(out, Pad)
  <2>1. Len(out) % F # 0
    <3> SUFFICES ASSUME Len(out) % F = 0 PROVE FALSE
      OBVIOUS
    <3>1. PICK a \in Int, b \in Int : a = Len(out) /\ b = nwritten - d_count
      BY <1>1
    <3>2. a % F = 0 /\ (-b) % F = 0 /\ -b \in Int
      <4>1. F \in Nat \ {0} /\ b % F = 0
        BY <1>1, <3>1, LongAssumption
      <4>2. b \div F \in Int /\ b = F * (b \div F)
        BY <4>1
      <4>3. PICK q \in Int, c \in Int : q = -(b \div F) /\ c = -b
        BY <4>2
      <4>4. c = F * q + 0
        BY <4>1, <4>2, <4>3
      <4>5. c % F = 0
        BY <4>1, <4>4, Division
      <4>6. QED
        BY <3>1, <4>3, <4>5
    <3>3. (a + -b) % F = 0
      BY <3>2, ModSum
    <3>4. a + -b = d_count + o
      BY <1>1, <3>1
    <3>5. QED
      BY <1>3, <3>3, <3>4
  <2>2. Len(out) \in Nat /\ Len(out') = Len(out) + 1
    BY <1>3, LongAssumption DEF IInv, TypeOK, Pad
  <2>3. ASSUME NEW k \in DOMAIN outTags' PROVE ClosedFrame(k)'
    <3>1. k \in DOMAIN outTags /\ k \in 1..Len(outTags) /\ ClosedFrame(k)
          /\ Len(outTags) \in Nat
      BY <1>1, TypesOfEnds DEF IInv, ContentInv
    <3>2. CASE k < Len(outTags)
      <4>1. FrameEnd(k)' = FrameEnd(k) /\ outTags'[k] = outTags[k]
        BY <1>1, <3>2 DEF FrameEnd
      <4>2. QED
        BY <3>1, <4>1, ClosedStays DEF IInv
    <3>3. CASE ~(k < Len(outTags))
      <4>1. PICK from \in Nat, to \in Nat, first \in Int, short \in Int :
              /\ from = outTags[k].offset /\ to = FrameEnd(k)
              /\ first = outTags[k].first /\ short = outTags[k].short
        BY <3>1, TypesOfEnds DEF IInv
      <4>2. to = Len(out) /\ Closed(from, to, first, short)
        BY <3>1, <3>3, <4>1 DEF ClosedFrame, FrameEnd
      <4>3. Closed(from, to + 1, first, short)'
        BY <1>3, <2>1, <4>2, ClosedPadded DEF IInv
      <4>4. FrameEnd(k)' = to + 1
        BY <1>1, <2>2, <3>3, <4>2 DEF FrameEnd
      <4>5. QED
        BY <1>1, <4>1, <4>3, <4>4 DEF ClosedFrame
    <3>4. QED
      BY <3>2, <3>3
  <2>4. QED
    BY <1>1, <2>3 DEF ContentInv
<1>4. QED
  BY <1>2, <1>3 DEF Reset

LEMMA ContentKept == IInv /\ ContentInv /\ [Next]_longVars => ContentInv'
<1> SUFFICES ASSUME IInv, ContentInv, [Next]_longVars PROVE ContentInv'
  OBVIOUS
<1>1. TypeOK /\ Grows
  BY StepGrows DEF IInv
<1>2. ASSUME NEW n \in 1..MaxIn, NEW room \in 1..MaxOut, Call(n, room)
      PROVE  ContentInv'
  <2>1. /\ UNCHANGED <<out, outTags, d_offset, d_frame_start, nread, i>>
        /\ pc = "idle" /\ InPos' = InPos
        /\ nread \in Nat /\ n \in Nat /\ n > 0 /\ StreamInv
    BY <1>2 DEF Call, InPos, IInv, TypeOK
  <2>2. CASE UNCHANGED <<d_state, d_freq_offset_short>>
    <3>1. (Writing' <=> Writing) /\ UNCHANGED <<d_freq_offset_short, d_frame_start>>
      BY <2>1, <2>2 DEF Writing
    <3>2. QED
      BY <1>1, <2>1, <3>1, ContentSame
  <2>3. CASE AtTag /\ d_state # "COPY"
    <3>1. ~Writing /\ ~Writing'
      BY <2>3 DEF AtTag, Writing
    <3>2. QED
      BY <1>1, <2>1, <3>1, ContentSame
  <2>4. CASE AtTag /\ d_state = "COPY" /\ Tag(nread)
    BY <1>1, <2>1, <2>4, TagCloses
  <2>5. UNCHANGED <<d_state, d_freq_offset_short>> \/ (AtTag /\ Tag(nread))
    <3>1. CASE TagsAhead(n) = {}
      BY <1>2, <3>1 DEF Call
    <3>2. CASE TagsAhead(n) # {}
      <4>1. Tag(FrontTag(n)) /\ FrontTag(n) \in nread..nread + n - 1
        BY <2>1, <3>2, FrontTagIsFirst
      <4>2. FrontTag(n) > nread \/ FrontTag(n) = nread
        BY <2>1, <4>1
      <4>3. \/ FrontTag(n) > nread /\ UNCHANGED <<d_state, d_freq_offset_short>>
            \/ ~(FrontTag(n) > nread) /\ AtTag
        BY <1>2, <3>2 DEF Call
      <4>4. QED
        BY <4>1, <4>2, <4>3
    <3>3. QED
      BY <3>1, <3>2
  <2>6. QED
    BY <2>2, <2>3, <2>4, <2>5
<1>3. CASE Correlate
  <2>1. UNCHANGED <<out, outTags>> /\ ~Writing
    BY <1>3 DEF Correlate, Correlating, Writing
  <2>2. ~Writing'
    <3>1. CASE d_state' = d_state
      BY <1>3, <3>1 DEF Correlate, Correlating, Writing
    <3>2. CASE d_state' = "COPY"
      <4>1. d_offset' = 0 /\ \E r \in SearchResults : d_frame_start' = r.start
        BY <1>3, <3>2 DEF Correlate, Correlating
      <4>2. d_frame_start' \in 0..SYNC_LENGTH
        BY <4>1, StartInRange DEF SearchResults
      <4>3. QED
        BY <4>1, <4>2, LongAssumption DEF Writing
    <3>3. QED
      BY <1>3, <3>1, <3>2 DEF Correlate
  <2>3. QED
    BY <1>1, <2>1, <2>2, ContentSame
<1>4. CASE Return \/ Upstream \/ UNCHANGED longVars
  <2>1. UNCHANGED <<out, outTags, d_state, d_offset, d_frame_start, d_freq_offset_short>>
    BY <1>4 DEF Return, Upstream, longVars, state
  <2>2. InPos' = InPos
    BY <1>4 DEF Return, Upstream, longVars, locals, InPos, IInv, TypeOK
  <2>3. Writing' <=> Writing
    BY <2>1 DEF Writing
  <2>4. QED
    BY <1>1, <2>1, <2>2, <2>3, ContentSame
<1>5. QED
  BY <1>1, <1>2, <1>3, <1>4, CopyContent, ResetContent DEF Next, LongNext

LEMMA ContentAlways == Spec => []ContentInv
<1>1. IInv /\ ContentInv /\ [Next]_longVars => ContentInv'
  BY ContentKept
<1>2. QED
  BY <1>1, InitContent, IInvAlways, PTL DEF Spec

(* Of F numbers in a row one is a multiple of F.                            *)
LEMMA FewZeros ==
  ASSUME NEW a \in Nat, NEW b \in Nat, \A x \in a..b - 1 : x % F # 0
  PROVE  b < a + F
<1> SUFFICES ASSUME b >= a + F PROVE FALSE
  BY LongAssumption
<1>1. F \in Nat \ {0}
  BY LongAssumption
<1>2. PICK q \in Int, r \in 0..F - 1 : a = F * q + r
  <2>1. a \div F \in Int /\ a % F \in 0..F - 1 /\ a = F * (a \div F) + (a % F)
    BY <1>1
  <2>2. QED
    BY <2>1
<1>3. PICK p \in Int : p = IF r = 0 THEN q ELSE q + 1
  OBVIOUS
<1>4. PICK x \in Int : x = F * p + 0
  BY <1>1
<1>5. x % F = 0
  BY <1>1, <1>4, Division
<1>6. F * (q + 1) = F * q + F
  BY <1>1
<1>7. x \in a..b - 1
  BY <1>1, <1>2, <1>3, <1>4, <1>6
<1>8. QED
  BY <1>5, <1>7

LEMMA ReadUpToEnd ==
  ASSUME IInv, NEW k \in DOMAIN outTags, NEW end \in Nat, end <= InPos,
         Free(outTags[k].short, end), Tag(end) \/ end = InPos, outTags[k].short < end
  PROVE  ReadUpTo(k) = end - SYNC_LENGTH
<1> DEFINE later == {t \in Range(tags) : t > outTags[k].short}
           least == CHOOSE t \in later : \A u \in later : t <= u
           stop  == IF later = {} THEN InPos ELSE least
<1>1. /\ InPos \in Nat /\ outTags[k].short \in Int
      /\ \A u : u \in Range(tags) <=> Tag(u)
      /\ \A u \in Range(tags) : u \in Nat
  <2>1. \A u : u \in Range(tags) <=> Tag(u)
    BY DEF Range, Tag
  <2>2. \A u \in Range(tags) : u \in Nat
    BY DEF IInv, StreamInv, Range
  <2>3. InPos \in Nat /\ outTags[k].short \in Int
    BY TypesOfTags DEF IInv
  <2>4. QED
    BY <2>1, <2>2, <2>3
<1>2. later \subseteq Nat /\ \A t \in later : t >= end
  BY <1>1 DEF Free
<1>3. later # {} => least \in later /\ \A u \in later : least <= u
  <2>1. later # {} => \E t \in later : \A u \in later : t <= u
    BY <1>2, LeastNatural
  <2> HIDE DEF later
  <2>2. QED
    BY <2>1
<1>4. Tag(end) => end \in later
  BY <1>1
<1> HIDE DEF later, least
<1>5. (IF stop < InPos THEN stop ELSE InPos) = end
  <2>1. CASE later = {}
    BY <1>1, <1>4, <2>1
  <2>2. CASE later # {} /\ Tag(end)
    <3>1. least \in Nat /\ least <= end /\ least >= end
      BY <1>2, <1>3, <1>4, <2>2
    <3>2. least = end
      BY <3>1
    <3>3. QED
      BY <1>1, <2>2, <3>2
  <2>3. CASE later # {} /\ end = InPos
    <3>1. least \in Nat /\ least >= InPos
      BY <1>2, <1>3, <2>3
    <3>2. QED
      BY <1>1, <2>3, <3>1
  <2>4. QED
    BY <2>1, <2>2, <2>3
<1>6. ReadUpTo(k) = (IF stop < InPos THEN stop ELSE InPos) - SYNC_LENGTH
  BY DEF ReadUpTo, later, least
<1>7. QED
  BY <1>5, <1>6

(* Of every frame the samples of its symbols are written, each once and in   *)
(* order, and then fewer than F zeros (sync_long.cc:115-154), wherever calls *)
(* are cut and wherever the next tag falls.                                 *)
THEOREM FramesKeepTheirGrid == Spec => []FramesOnGrid
<1>1. IInv /\ ContentInv => FramesOnGrid
  <2> SUFFICES ASSUME IInv, ContentInv, NEW k \in DOMAIN outTags
               PROVE  \E n \in 1..FrameEnd(k) - outTags[k].offset :
                        /\ \A j \in 1..n : out[outTags[k].offset + j]
                                             = outTags[k].first + Grid(j - 1)
                        /\ \A x \in outTags[k].offset + n + 1..FrameEnd(k) : out[x] = Pad
                        /\ FrameEnd(k) - outTags[k].offset < n + F
                        /\ outTags[k].first + Grid(n - 1) < ReadUpTo(k)
                        /\ ReadUpTo(k) <= outTags[k].first + Grid(n)
    BY DEF FramesOnGrid
  <2>1. PICK from \in Nat, to \in Nat, first \in Int, short \in Int :
          /\ from = outTags[k].offset /\ to = FrameEnd(k)
          /\ first = outTags[k].first /\ short = outTags[k].short
    BY TypesOfEnds DEF IInv
  <2>2. \E n \in Nat \ {0}, end \in Nat :
          /\ Filled(from, n, to, first, end) /\ from + n <= to
          /\ end <= InPos /\ short < end /\ Free(short, end)
          /\ Tag(end) \/ end = InPos
    <3>1. CASE k < Len(outTags) \/ ~Writing
      BY <2>1, <3>1 DEF ContentInv, ClosedFrame, Closed
    <3>2. CASE ~(k < Len(outTags)) /\ Writing
      <4>1. k = Len(outTags) /\ to = Len(out)
        BY <2>1, <3>2, TypesOfEnds DEF IInv, FrameEnd
      <4>2. Open(from, to, first, short)
        BY <2>1, <3>2, <4>1 DEF ContentInv, OpenFrame
      <4>3. PICK n \in Nat \ {0} : n = to - from
        BY <4>2 DEF Open
      <4>4. /\ InPos \in Nat /\ short < InPos /\ Free(short, InPos)
        <5>1. d_state = "COPY" /\ short = d_freq_offset_short
          BY <3>2, <4>2 DEF Writing, Open
        <5>2. /\ InPos = short + SYNC_LENGTH + d_offset /\ d_offset \in Nat
              /\ Free(short, InPos) /\ InPos \in Nat
          BY <5>1, TypesOfTags DEF IInv, PlaceInv, TypeOK
        <5>3. QED
          BY <5>2, LongAssumption
      <4>5. Filled(from, n, to, first, InPos) /\ from + n <= to
        BY <4>2, <4>3 DEF Open
      <4>6. QED
        BY <4>4, <4>5
    <3>3. QED
      BY <3>1, <3>2
  <2>3. PICK n \in Nat \ {0}, end \in Nat :
          /\ Filled(from, n, to, first, end) /\ from + n <= to
          /\ end <= InPos /\ short < end /\ Free(short, end)
          /\ Tag(end) \/ end = InPos
    BY <2>2
  <2>4. ReadUpTo(k) = end - SYNC_LENGTH
    BY <2>1, <2>3, ReadUpToEnd
  <2>5. to < from + n + F
    <3>1. PICK a \in Nat : a = from + n
      OBVIOUS
    <3>2. \A x \in a..to - 1 : x % F # 0
      BY <2>3, <3>1 DEF Filled
    <3>3. to < a + F
      BY <3>2, FewZeros
    <3>4. QED
      BY <3>1, <3>3
  <2>6. n \in 1..to - from /\ to - from < n + F
    BY <2>3, <2>5, LongAssumption
  <2>7. /\ \A j \in 1..n : out[from + j] = first + Grid(j - 1)
        /\ \A x \in from + n + 1..to : out[x] = Pad
        /\ first + Grid(n - 1) < ReadUpTo(k) /\ ReadUpTo(k) <= first + Grid(n)
    BY <2>3, <2>4 DEF Filled
  <2>8. QED
    BY <2>1, <2>6, <2>7
<1>2. QED
  BY <1>1, IInvAlways, ContentAlways, PTL

-----------------------------------------------------------------------------
(* The input alone: TaggedStream, by its own specification.                 *)
SourceType ==
  /\ made \in Nat
  /\ tags \in Seq(Nat)

SourceInv == SourceType /\ FramesApart

LEMMA SourceInvInductive == SourceInv /\ [StreamNext]_streamVars => SourceInv'
<1> USE GapAssumption DEF SourceInv, SourceType, FramesApart, SinceTag
<1> SUFFICES ASSUME SourceInv, [StreamNext]_streamVars
             PROVE  SourceInv'
  OBVIOUS
<1>1. CASE StartFrame
  <2>1. /\ made' = made
        /\ tags' = Append(tags, made)
        /\ tags = <<>> => made = 0
        /\ tags # <<>> => made - tags[Len(tags)] \in MIN_GAP + 1..MAX_SAMPLES
    BY <1>1 DEF StartFrame
  <2>2. SourceType'
    BY <2>1
  <2>3. /\ tags' # <<>>
        /\ Len(tags') = Len(tags) + 1
        /\ tags'[Len(tags')] = made
        /\ \A k \in 1..Len(tags) : tags'[k] = tags[k]
    BY <2>1
  <2>4. tags'[1] = 0
    BY <2>1, <2>3
  <2>5. \A k \in 1..Len(tags') - 1 : tags'[k + 1] - tags'[k] \in MIN_GAP + 1..MAX_SAMPLES
    <3> SUFFICES ASSUME NEW k \in 1..Len(tags)
                 PROVE  tags'[k + 1] - tags'[k] \in MIN_GAP + 1..MAX_SAMPLES
      BY <2>3
    <3>1. CASE k = Len(tags)
      BY <3>1, <2>1, <2>3
    <3>2. CASE k \in 1..Len(tags) - 1
      <4>1. tags[k + 1] - tags[k] \in MIN_GAP + 1..MAX_SAMPLES
        BY <3>2
      <4>2. tags'[k + 1] = tags[k + 1] /\ tags'[k] = tags[k]
        <5>1. k \in 1..Len(tags) /\ k + 1 \in 1..Len(tags)
          BY <3>2
        <5>2. QED
          BY <2>3, <5>1
      <4>3. QED
        BY <4>1, <4>2
    <3>3. QED
      BY <3>1, <3>2
  <2>6. made' - tags'[Len(tags')] \in 0..MAX_SAMPLES
    BY <2>1, <2>3
  <2>7. FramesApart'
    BY <2>3, <2>4, <2>5, <2>6
  <2>8. QED
    BY <2>2, <2>7
<1>2. CASE Sample
  BY <1>2 DEF Sample
<1>3. CASE UNCHANGED streamVars
  BY <1>3 DEF streamVars
<1>4. QED
  BY <1>1, <1>2, <1>3 DEF StreamNext

(* In every tagged stream consecutive tags are more than MIN_GAP and at most *)
(* MAX_SAMPLES samples apart and the samples before the first tag are none.  *)
THEOREM FramesStayApart == StreamSpec => []FramesApart
<1>1. StreamInit => SourceInv
  BY GapAssumption DEF StreamInit, SourceInv, SourceType, FramesApart
<1>2. SourceInv => FramesApart
  BY DEF SourceInv
<1>3. QED
  BY <1>1, <1>2, SourceInvInductive, PTL DEF StreamSpec
=============================================================================
