------------------------ MODULE MovingAverageProofs ------------------------
(* moving_average reads only what it was given, and loses a new length only  *)
(* in a race, for all lengths and all bounds.                                *)
EXTENDS MovingAverage, SequenceTheorems, WellFoundedInduction, TLAPS

(* The history is the length in use, except between the two assignments.    *)
HistoryFollows == pc # "history" => history = d_length

(* What the scheduler measured, once work goes on to sum.                   *)
Measured == pc = "sum" => noutput + history - 1 <= supplied

ReadInv == TypeOK /\ HistoryFollows /\ Measured

(* The flag stands while work takes a length over.                          *)
FlagStands == Taking => d_updated

(* As long as the stores of set_length kept out of the taking over: what     *)
(* was stored of the last length, and where it has arrived.                  *)
NotLost ==
  ~raced =>
    /\ "d_new_length" \notin setter => d_new_length = length
    /\ setter = {"d_new_length"} => d_updated /\ ~Taking
    /\ setter = {} /\ ~d_updated => d_length = length
    /\ setter = {} /\ pc \in {"history", "clear"} => d_length = length

RaceInv == FlagStands /\ NotLost

-----------------------------------------------------------------------------
LEMMA ReadInvInitially == Init => ReadInv
<1> SUFFICES ASSUME Init PROVE ReadInv
  OBVIOUS
<1> USE LengthAssumption DEF LengthAssumption, Init
<1>1. d_length \in Nat /\ read \in Int
  OBVIOUS
<1>2. 0 \in 0..MaxItems /\ 0 \in 0..MaxOutput /\ 0 \in 0..MaxSets
  OBVIOUS
<1>3. HistoryFollows /\ Measured
  BY DEF HistoryFollows, Measured
<1>4. /\ d_new_length \in Lengths /\ history \in Lengths /\ length \in Lengths
      /\ d_length \in Lengths
  OBVIOUS
<1>5. setter \subseteq {"d_new_length", "d_updated"} /\ supplied \in Int
  OBVIOUS
<1> USE <1>1, <1>2, <1>4, <1>5
<1>6. d_updated \in BOOLEAN /\ raced \in BOOLEAN
  OBVIOUS
<1>7. TypeOK
  BY <1>6 DEF TypeOK
<1>8. QED
  BY <1>3, <1>7 DEF ReadInv

LEMMA ReadInvKept == ReadInv /\ [Next]_avgVars => ReadInv'
<1> SUFFICES ASSUME ReadInv, [Next]_avgVars PROVE ReadInv'
  OBVIOUS
<1> USE LengthAssumption DEF LengthAssumption, ReadInv, TypeOK, HistoryFollows, Measured
<1>1. CASE Upstream
  BY <1>1 DEF Upstream, setVars
<1>2. CASE set_length
  BY <1>2 DEF set_length, streamVars
<1>3. CASE Store
  <2>1. PICK field \in setter :
          /\ setter' = setter \ {field}
          /\ d_new_length' = IF field = "d_new_length" THEN length ELSE d_new_length
          /\ d_updated' = (field = "d_updated" \/ d_updated)
          /\ raced' = (raced \/ Taking)
          /\ UNCHANGED <<d_length, history, streamVars, pc, length, sets>>
    BY <1>3 DEF Store
  <2>2. d_updated' \in BOOLEAN /\ raced' \in BOOLEAN
    BY <2>1, Zenon DEF Taking
  <2>3. QED
    BY <2>1, <2>2 DEF streamVars
<1>4. CASE Call
  <2>1. raced' \in BOOLEAN
    BY <1>4, Zenon DEF Call
  <2>2. pc' \in {"take", "sum"}
    BY <1>4 DEF Call
  <2>3. noutput' \in 1..MaxOutput /\ supplied' = written - read + 1
        /\ supplied' >= noutput' + history - 1
    BY <1>4 DEF Call
  <2>4. noutput' \in 0..MaxOutput /\ supplied' \in Int
    BY <2>3
  <2>5. Measured'
    BY <1>4, <2>3, <2>4 DEF Call
  <2>6. QED
    BY <1>4, <2>1, <2>2, <2>4, <2>5 DEF Call, setVars
<1>5. CASE Take
  BY <1>5 DEF Take, streamVars, setVars
<1>6. CASE SetHistory
  BY <1>6 DEF SetHistory, streamVars, setVars
<1>7. CASE Clear
  BY <1>7 DEF Clear, streamVars, setVars
<1>8. CASE Sum
  <2>1. read' \in Int
    BY <1>8 DEF Sum
  <2>2. QED
    BY <1>8, <2>1 DEF Sum, setVars
<1>9. CASE UNCHANGED avgVars
  BY <1>9 DEF avgVars, streamVars, setVars
<1>10. QED
  BY <1>1, <1>2, <1>3, <1>4, <1>5, <1>6, <1>7, <1>8, <1>9 DEF Next, Work

(* The state of moving_average has its types.                               *)
THEOREM TypeCorrect == Spec => []TypeOK
<1>1. Init => ReadInv
  BY ReadInvInitially
<1>2. ReadInv /\ [Next]_avgVars => ReadInv'
  BY ReadInvKept
<1>3. ReadInv => TypeOK
  BY DEF ReadInv
<1>4. QED
  BY <1>1, <1>2, <1>3, PTL DEF Spec

(* No sum reads an item that the call was not given, however set_length and  *)
(* work interleave: the length the scheduler measured with is the one in use *)
(* whenever work goes on to sum (moving_average_XX_impl.cc.t:43-48).         *)
THEOREM ReadsOnlySupplied == Spec => []ReadsSupplied
<1>1. Init => ReadInv
  BY ReadInvInitially
<1>2. ReadInv /\ [Next]_avgVars => ReadInv'
  BY ReadInvKept
<1>3. ReadInv => ReadsSupplied
  BY DEF ReadInv, HistoryFollows, Measured, ReadsSupplied
<1>4. QED
  BY <1>1, <1>2, <1>3, PTL DEF Spec

-----------------------------------------------------------------------------
LEMMA RaceInvInitially == Init => RaceInv
BY DEF Init, RaceInv, FlagStands, NotLost, Taking

LEMMA RaceInvKept == TypeOK /\ RaceInv /\ [Next]_avgVars => RaceInv'
<1> SUFFICES ASSUME TypeOK, RaceInv, [Next]_avgVars PROVE RaceInv'
  OBVIOUS
<1>0. setter \subseteq {"d_new_length", "d_updated"}
  BY DEF TypeOK
<1> USE DEF RaceInv, FlagStands, NotLost, Taking
<1>1. CASE Upstream
  BY <1>1, Zenon DEF Upstream, setVars
<1>2. CASE set_length
  BY <1>2 DEF set_length, streamVars
<1>3. CASE Store
  <2>1. PICK field \in setter :
          /\ setter' = setter \ {field}
          /\ d_new_length' = IF field = "d_new_length" THEN length ELSE d_new_length
          /\ d_updated' = (field = "d_updated" \/ d_updated)
          /\ raced' = (raced \/ Taking)
          /\ UNCHANGED <<d_length, history, streamVars, pc, length, sets>>
    BY <1>3 DEF Store
  <2>2. CASE field = "d_new_length"
    BY <1>0, <2>1, <2>2
  <2>3. CASE field = "d_updated"
    BY <1>0, <2>1, <2>3
  <2>4. QED
    BY <1>0, <2>2, <2>3
<1>4. CASE Call
  BY <1>0, <1>4 DEF Call, setVars
<1>5. CASE Take
  BY <1>5 DEF Take, streamVars, setVars
<1>6. CASE SetHistory
  BY <1>6 DEF SetHistory, streamVars, setVars
<1>7. CASE Clear
  BY <1>0, <1>7 DEF Clear, streamVars, setVars
<1>8. CASE Sum
  BY <1>8 DEF Sum, setVars
<1>9. CASE UNCHANGED avgVars
  BY <1>9 DEF avgVars, streamVars, setVars
<1>10. QED
  BY <1>1, <1>2, <1>3, <1>4, <1>5, <1>6, <1>7, <1>8, <1>9 DEF Next, Work

(* A length set is the length in use once work has taken it over, unless a   *)
(* store of set_length fell between the ends of taking one over or work took *)
(* one over between two stores (moving_average_XX_impl.cc.t:33-37, 43-48).   *)
THEOREM LengthLostOnlyInRace == Spec => []LostOnlyInRace
<1>1. Init => RaceInv
  BY RaceInvInitially
<1>2. TypeOK /\ RaceInv /\ [Next]_avgVars => RaceInv'
  BY RaceInvKept
<1>3. RaceInv => LostOnlyInRace
  BY DEF RaceInv, NotLost, LostOnlyInRace
<1>4. QED
  BY <1>1, <1>2, <1>3, TypeCorrect, PTL DEF Spec

-----------------------------------------------------------------------------
(* An output: the items summed in it and the length it was made with.       *)
Window == [items : SUBSET Int, length : Lengths]

SlideInv == out \in Seq(Window) /\ WindowsSlide

LEMMA LeastNatural ==
  ASSUME NEW S \in SUBSET Nat, S # {}
  PROVE  \E least \in S : \A k \in S : least <= k
<1> DEFINE R == OpToRel(<, Nat)
<1>1. PICK least \in S : \A k \in S : ~(<<k, least>> \in R)
  BY NatLessThanWellFounded, WFMin, Zenon
<1>2. \A k \in S : ~(k < least)
  BY <1>1 DEF OpToRel
<1>3. QED
  BY <1>2

(* The loop of the running sum, from what is in the sum before output i - 1. *)
LEMMA RunningSum ==
  ASSUME noutput \in Nat, d_length \in Nat \ {0}, NEW before,
         \A i \in 1..noutput :
           before[i] = IF i = 1 THEN 1..(d_length - 1)
                       ELSE (before[i - 1] \union {i + d_length - 2}) \ {i - 1}
  PROVE  \A i \in 1..noutput : before[i] = i..(i + d_length - 2)
<1> DEFINE Wrong == {i \in 1..noutput : before[i] # i..(i + d_length - 2)}
<1>1. SUFFICES ASSUME Wrong # {} PROVE FALSE
  OBVIOUS
<1>2. PICK i \in Wrong : \A k \in Wrong : i <= k
  <2> HIDE DEF Wrong
  <2>1. Wrong \in SUBSET Nat
    BY DEF Wrong
  <2>2. QED
    BY <1>1, <2>1, LeastNatural, Zenon
<1>3. CASE i = 1
  <2>1. before[1] = 1..(d_length - 1)
    BY <1>2, <1>3
  <2>2. 1 + d_length - 2 = d_length - 1
    OBVIOUS
  <2>3. QED
    BY <1>2, <1>3, <2>1, <2>2
<1>4. CASE i # 1
  <2>1. i - 1 \in 1..noutput /\ i - 1 \notin Wrong /\ i \in 2..noutput
    <3>1. i \in 2..noutput /\ i - 1 \in 1..noutput /\ ~(i <= i - 1)
      BY <1>2, <1>4
    <3>2. QED
      BY <1>2, <3>1, Zenon
  <2>2. before[i - 1] = (i - 1)..(i - 1 + d_length - 2)
    BY <2>1
  <2>3. before[i] = (before[i - 1] \union {i + d_length - 2}) \ {i - 1}
    BY <1>4, <2>1
  <2>4. ((i - 1)..(i - 1 + d_length - 2) \union {i + d_length - 2}) \ {i - 1}
          = i..(i + d_length - 2)
    BY <2>1
  <2>5. QED
    BY <1>2, <2>2, <2>3, <2>4
<1>5. QED
  BY <1>3, <1>4

(* Output i sums d_length items, from the i-th of the call on.              *)
LEMMA SumsAreWindows ==
  ASSUME noutput \in Nat, d_length \in Nat \ {0}
  PROVE  \A i \in 1..noutput : Sums[i] = i..(i + d_length - 1)
<1> DEFINE Loop(f) == [i \in 1..noutput |->
                         IF i = 1 THEN 1..(d_length - 1)
                         ELSE (f[i - 1] \union {i + d_length - 2}) \ {i - 1}]
           before == CHOOSE f : f = Loop(f)
           w == [i \in 1..noutput |-> i..(i + d_length - 2)]
<1>1. Sums = [i \in 1..noutput |-> before[i] \union {i + d_length - 1}]
  BY Zenon DEF Sums
<1>2. w = Loop(w)
  <2>1. ASSUME NEW i \in 1..noutput
        PROVE  i..(i + d_length - 2) = IF i = 1 THEN 1..(d_length - 1)
                                ELSE (w[i - 1] \union {i + d_length - 2}) \ {i - 1}
    <3>1. CASE i = 1
      BY <3>1
    <3>2. CASE i # 1
      <4>1. i - 1 \in 1..noutput /\ i \in Int /\ d_length \in Nat \ {0}
        BY <3>2
      <4>2. w[i - 1] = (i - 1)..(i - 1 + d_length - 2)
        BY <4>1
      <4>3. ((i - 1)..(i - 1 + d_length - 2) \union {i + d_length - 2}) \ {i - 1}
              = i..(i + d_length - 2)
        BY <4>1
      <4>4. QED
        BY <3>2, <4>2, <4>3, Zenon
    <3>3. QED
      BY <3>1, <3>2
  <2>2. QED
    BY <2>1, Zenon
<1>3. before = Loop(before)
  BY <1>2, Zenon
<1>4. \A i \in 1..noutput : before[i] = i..(i + d_length - 2)
  <2>1. \A i \in 1..noutput : Loop(before)[i] = IF i = 1 THEN 1..(d_length - 1)
                                          ELSE (before[i - 1] \union {i + d_length - 2}) \ {i - 1}
    OBVIOUS
  <2> HIDE DEF before, Loop
  <2>2. \A i \in 1..noutput : before[i] = IF i = 1 THEN 1..(d_length - 1)
                                    ELSE (before[i - 1] \union {i + d_length - 2}) \ {i - 1}
    BY <1>3, <2>1, Zenon
  <2>3. QED
    BY <2>2, RunningSum
<1>5. ASSUME NEW i \in 1..noutput PROVE Sums[i] = i..(i + d_length - 1)
  <2> HIDE DEF before
  <2>1. Sums[i] = i..(i + d_length - 2) \union {i + d_length - 1}
    BY <1>1, <1>4
  <2>2. i \in Int /\ d_length \in Nat \ {0}
    OBVIOUS
  <2>3. i..(i + d_length - 2) \union {i + d_length - 1} = i..(i + d_length - 1)
    BY <2>2
  <2>4. QED
    BY <2>1, <2>3, Zenon
<1>6. QED
  BY <1>5

LEMMA SlideInvInitially == Init => SlideInv
BY DEF Init, SlideInv, WindowsSlide, Window

(* Sum appends windows that go on where the last one ended; the distance of *)
(* the read position and the outputs stays the same.                        *)
LEMMA SumSlides ==
  ASSUME TypeOK, SlideInv, Sum
  PROVE  SlideInv'
<1> DEFINE made == [k \in 1..noutput |->
                      [items |-> {read - 1 + j : j \in Sums[k]}, length |-> d_length]]
<1>1. /\ d_length \in Lengths /\ d_length \in Nat \ {0}
      /\ noutput \in Nat /\ read \in Int /\ read' = read + noutput
      /\ out \in Seq(Window) /\ out' = out \o made
  BY LengthAssumption DEF LengthAssumption, TypeOK, SlideInv, Sum
<1>2. \A k \in 1..noutput :
        made[k] = [items |-> (read - 1 + k)..(read - 1 + k + d_length - 1),
                   length |-> d_length]
  <2>0. SUFFICES ASSUME NEW k \in 1..noutput
                 PROVE  made[k] = [items |-> (read - 1 + k)..(read - 1 + k + d_length - 1),
                                   length |-> d_length]
    OBVIOUS
  <2>1. Sums[k] = k..(k + d_length - 1)
    BY <1>1, SumsAreWindows
  <2>2. k \in Int
    BY <1>1
  <2>3. {read - 1 + j : j \in k..(k + d_length - 1)}
          = (read - 1 + k)..(read - 1 + k + d_length - 1)
    <3>1. \A j \in k..(k + d_length - 1) :
            read - 1 + j \in (read - 1 + k)..(read - 1 + k + d_length - 1)
      BY <1>1, <2>2
    <3>2. \A x \in (read - 1 + k)..(read - 1 + k + d_length - 1) :
            /\ x - read + 1 \in k..(k + d_length - 1)
            /\ x = read - 1 + (x - read + 1)
      BY <1>1, <2>2
    <3>3. QED
      BY <3>1, <3>2, Zenon
  <2>4. QED
    BY <2>1, <2>3
<1>3. made \in Seq(Window) /\ Len(made) = noutput
  <2>1. ASSUME NEW k \in 1..noutput PROVE made[k] \in Window
    <3>1. PICK first \in Int : first = read - 1 + k
      BY <1>1
    <3>2. PICK last \in Int : last = read - 1 + k + d_length - 1
      BY <1>1
    <3>3. made[k] = [items |-> first..last, length |-> d_length]
      BY <1>2, <3>1, <3>2
    <3> HIDE DEF made
    <3>4. QED
      BY <1>1, <3>3 DEF Window
  <2> HIDE DEF made
  <2>2. made = [k \in 1..noutput |-> made[k]]
    BY Zenon DEF made
  <2>3. QED
    BY <1>1, <2>1, <2>2
<1> HIDE DEF made
<1>4. /\ out' \in Seq(Window) /\ Len(out') = Len(out) + noutput
      /\ \A k \in 1..(Len(out) + noutput) :
           out'[k] = IF k <= Len(out) THEN out[k] ELSE made[k - Len(out)]
  BY <1>1, <1>3, ConcatProperties
<1>5. PICK l \in Nat : l = Len(out)
  BY <1>1
<1>6. PICK base \in Int : base = read - Len(out)
  BY <1>1, <1>5
<1>7. read' - Len(out') = base /\ read = base + l
  BY <1>1, <1>4, <1>5, <1>6
<1>8. ASSUME NEW k \in DOMAIN out'
      PROVE  out'[k].items = (base + k - 1)..(base + k - 1 + out'[k].length - 1)
  <2>1. k \in 1..(l + noutput)
    BY <1>1, <1>4, <1>5
  <2>2. CASE k <= l
    <3>1. k \in DOMAIN out /\ out'[k] = out[k]
      BY <1>1, <1>4, <1>5, <2>1, <2>2
    <3>2. out[k].items = (base + k - 1)..(base + k - 1 + out[k].length - 1)
      BY <1>6, <3>1 DEF SlideInv, WindowsSlide
    <3>3. QED
      BY <3>1, <3>2
  <2>3. CASE ~(k <= l)
    <3>1. PICK m \in 1..noutput : k = l + m
      <4>1. k - l \in 1..noutput /\ k = l + (k - l)
        BY <1>1, <2>1, <2>3
      <4>2. QED
        BY <4>1
    <3>2. out'[k] = made[m]
      BY <1>1, <1>4, <1>5, <2>1, <2>3, <3>1
    <3>3. /\ read - 1 + m = base + k - 1
          /\ read - 1 + m + d_length - 1 = base + k - 1 + d_length - 1
      BY <1>1, <1>7, <3>1
    <3>4. made[m] = [items |-> (base + k - 1)..(base + k - 1 + d_length - 1),
                     length |-> d_length]
      BY <1>2, <3>3
    <3>5. QED
      BY <3>2, <3>4
  <2>4. QED
    BY <2>2, <2>3
<1>9. QED
  BY <1>4, <1>7, <1>8 DEF SlideInv, WindowsSlide

LEMMA SlideInvKept == TypeOK /\ SlideInv /\ [Next]_avgVars => SlideInv'
<1> SUFFICES ASSUME TypeOK, SlideInv, [Next]_avgVars PROVE SlideInv'
  OBVIOUS
<1>1. CASE Sum
  BY <1>1, SumSlides
<1>2. CASE ~Sum
  <2>1. UNCHANGED <<read, out>>
    BY <1>2 DEF Next, Work, Upstream, set_length, Store, Call, Take, SetHistory,
                Clear, avgVars, streamVars
  <2>2. QED
    BY <2>1 DEF SlideInv, WindowsSlide
<1>3. QED
  BY <1>1, <1>2

(* Each output is the sum of as many consecutive items as the length was, and *)
(* the windows go on one item at a time, across every change of the length    *)
(* (moving_average_XX_impl.cc.t:52-64): what the running sum keeps between two *)
(* outputs and rebuilds at the start of a call is what the window says.       *)
THEOREM EachSumIsAWindow == Spec => []WindowsSlide
<1>1. Init => SlideInv
  BY SlideInvInitially
<1>2. TypeOK /\ SlideInv /\ [Next]_avgVars => SlideInv'
  BY SlideInvKept
<1>3. SlideInv => WindowsSlide
  BY DEF SlideInv
<1>4. QED
  BY <1>1, <1>2, <1>3, TypeCorrect, PTL DEF Spec

=============================================================================
