------------------------------ MODULE PhyProofs ------------------------------
(* What the transmitter does to the bits of a frame the receiver undoes, for *)
(* every encoding, every PSDU and every state of the scrambler.              *)
EXTENDS PhyChain, SoftDecoder, FiniteSetTheorems, SequenceTheorems,
  WellFoundedInduction, TLAPS

-----------------------------------------------------------------------------
(* Loops *)

(* Induction on naturals, for a set instead of a predicate.                  *)
LEMMA AllNaturals ==
  ASSUME NEW P, 0 \in P, \A k \in Nat : k \in P => k + 1 \in P
  PROVE  \A k \in Nat : k \in P
<1> DEFINE Others == Nat \ P
<1>1. SUFFICES ASSUME Others # {} PROVE FALSE
  OBVIOUS
<1>2. PICK least \in Others : \A k \in Others : ~(<<k, least>> \in OpToRel(<, Nat))
  <2>1. Others \subseteq Nat
    OBVIOUS
  <2> HIDE DEF Others
  <2>2. QED
    BY <1>1, <2>1, NatLessThanWellFounded, WFMin, Zenon
<1>3. \A k \in Others : ~(k < least)
  <2> HIDE DEF Others
  <2>1. Others \subseteq Nat
    BY DEF Others
  <2>2. QED
    BY <1>2, <2>1, Zenon DEF OpToRel
<1>4. least \in Nat /\ least # 0
  OBVIOUS
<1>5. least - 1 \in Nat /\ least - 1 < least /\ (least - 1) + 1 = least
  BY <1>4
<1>6. least - 1 \notin Others
  BY <1>3, <1>5
<1>7. QED
  BY <1>5, <1>6

(* The passes of a loop keep a variable within S.                            *)
Keeps(S, step, N) == \A v \in S, i \in 1..N : step[i][v] \in S

(* Behind pass a up to pass b, t goes through the loop.                      *)
Goes(t, step, a, b) == \A i \in a + 1..b : t[i] = step[i][t[i - 1]]

Path(S, step, a, b) == {t \in [a..b -> S] : Goes(t, step, a, b)}

(* There is one from every value.                                            *)
LEMMA PathExists ==
  ASSUME NEW S, NEW step, NEW a \in Nat, NEW b \in Nat, a <= b,
         Keeps(S, step, b), NEW v \in S
  PROVE  \E t \in Path(S, step, a, b) : t[a] = v
<1> DEFINE P == {k \in Nat : a + k <= b => \E t \in Path(S, step, a, a + k) : t[a] = v}
<1>1. 0 \in P
  <2> DEFINE t == [i \in a..a |-> v]
  <2>1. t \in Path(S, step, a, a) /\ t[a] = v
    BY DEF Path, Goes
  <2>2. QED
    BY <2>1
<1>2. ASSUME NEW k \in Nat, k \in P PROVE k + 1 \in P
  <2>1. SUFFICES ASSUME a + (k + 1) <= b
                 PROVE  \E t \in Path(S, step, a, a + (k + 1)) : t[a] = v
    OBVIOUS
  <2>2. PICK t \in Path(S, step, a, a + k) : t[a] = v
    BY <1>2, <2>1
  <2>3. t \in [a..a + k -> S] /\ \A i \in a + 1..a + k : t[i] = step[i][t[i - 1]]
    BY <2>2 DEF Path, Goes
  <2> DEFINE last == a + (k + 1)
             u == [i \in a..last |-> IF i = last THEN step[last][t[a + k]] ELSE t[i]]
  <2>4. last \in 1..b /\ last - 1 = a + k /\ a + k \in a..a + k /\ a # last
    BY <2>1
  <2>5. step[last][t[a + k]] \in S
    BY <2>3, <2>4 DEF Keeps
  <2>6. u \in [a..last -> S]
    BY <2>3, <2>4, <2>5
  <2>7. ASSUME NEW i \in a + 1..last PROVE u[i] = step[i][u[i - 1]]
    <3>1. i \in a..last /\ i - 1 \in a..a + k /\ i - 1 # last /\ i - 1 \in a..last
      BY <2>4
    <3>2. CASE i = last
      BY <2>4, <3>1, <3>2
    <3>3. CASE i # last
      BY <2>3, <2>4, <3>1, <3>3
    <3>4. QED
      BY <3>2, <3>3
  <2>8. u[a] = v
    BY <2>2, <2>4
  <2> HIDE DEF u, last
  <2>9. u \in Path(S, step, a, last)
    BY <2>6, <2>7 DEF Path, Goes
  <2>10. QED
    BY <2>8, <2>9 DEF last
<1>3. \A k \in Nat : k \in P
  <2> HIDE DEF P
  <2>1. QED
    BY <1>1, <1>2, AllNaturals
<1>4. b - a \in Nat /\ a + (b - a) = b
  OBVIOUS
<1>5. b - a \in P
  BY <1>3, <1>4, Zenon
<1>6. QED
  BY <1>4, <1>5

(* Two of them that meet go on together.                                     *)
LEMMA PathsStayTogether ==
  ASSUME NEW S, NEW step, NEW a \in Nat, NEW b \in Nat,
         NEW t, NEW u, NEW m \in a..b, t[m] = u[m],
         Goes(t, step, a, b), Goes(u, step, m, b)
  PROVE  \A i \in m..b : t[i] = u[i]
<1> DEFINE P == {k \in Nat : m + k <= b => t[m + k] = u[m + k]}
<1>1. 0 \in P
  OBVIOUS
<1>2. ASSUME NEW k \in Nat, k \in P PROVE k + 1 \in P
  <2>1. SUFFICES ASSUME m + (k + 1) <= b
                 PROVE  t[m + (k + 1)] = u[m + (k + 1)]
    OBVIOUS
  <2>2. t[m + k] = u[m + k]
    BY <1>2, <2>1
  <2>3. PICK i \in Int : i = m + (k + 1)
    OBVIOUS
  <2>4. i \in a + 1..b /\ i \in m + 1..b /\ i - 1 = m + k
    BY <2>1, <2>3
  <2>5. t[i] = step[i][t[i - 1]] /\ u[i] = step[i][u[i - 1]]
    BY <2>4 DEF Goes
  <2>6. QED
    BY <2>2, <2>3, <2>4, <2>5
<1>3. \A k \in Nat : k \in P
  <2> HIDE DEF P
  <2>1. QED
    BY <1>1, <1>2, AllNaturals
<1>4. ASSUME NEW i \in m..b PROVE t[i] = u[i]
  <2>1. i - m \in Nat /\ m + (i - m) = i /\ i <= b
    OBVIOUS
  <2>2. i - m \in P
    BY <1>3, <2>1, Zenon
  <2>3. QED
    BY <2>1, <2>2
<1>5. QED
  BY <1>4

(* The path of a variable that has the value v behind pass a.                *)
From(S, step, N, a, v) == CHOOSE t \in Path(S, step, a, N) : t[a] = v

Starts(t, S, step, N, a, v) == t \in [a..N -> S] /\ Goes(t, step, a, N) /\ t[a] = v

LEMMA FromPath ==
  ASSUME NEW S, NEW step, NEW N \in Nat, Keeps(S, step, N),
         NEW a \in Nat, a <= N, NEW v \in S
  PROVE  Starts(From(S, step, N, a, v), S, step, N, a, v)
<1>1. \E t \in Path(S, step, a, N) : t[a] = v
  BY PathExists
<1>2. /\ From(S, step, N, a, v) \in Path(S, step, a, N)
      /\ From(S, step, N, a, v)[a] = v
  BY <1>1, Zenon DEF From
<1>3. QED
  BY <1>2, Zenon DEF Path, Starts

(* It can be left and taken up again behind any pass.                        *)
Continues(S, step, N, a, m, v) ==
  \A i \in m..N : From(S, step, N, a, v)[i] = From(S, step, N, m, From(S, step, N, a, v)[m])[i]

LEMMA FromMiddle ==
  ASSUME NEW S, NEW step, NEW N \in Nat, Keeps(S, step, N),
         NEW a \in Nat, NEW m \in Nat, a <= m, m <= N, NEW v \in S
  PROVE  Continues(S, step, N, a, m, v)
<1>1. a <= N /\ m \in a..N
  OBVIOUS
<1>2. Starts(From(S, step, N, a, v), S, step, N, a, v)
  BY <1>1, FromPath, Zenon
<1> DEFINE x == From(S, step, N, a, v)[m]
<1> x \in S
  BY <1>1, <1>2 DEF Starts
<1> HIDE DEF x
<1>3. Starts(From(S, step, N, m, x), S, step, N, m, x)
  BY FromPath, Zenon
<1>4. /\ Goes(From(S, step, N, a, v), step, a, N)
      /\ Goes(From(S, step, N, m, x), step, m, N)
      /\ From(S, step, N, a, v)[m] = From(S, step, N, m, x)[m]
  BY <1>2, <1>3, Zenon DEF Starts, x
<1>5. \A i \in m..N : From(S, step, N, a, v)[i] = From(S, step, N, m, x)[i]
  BY <1>1, <1>4, PathsStayTogether
<1>6. QED
  BY <1>5, Zenon DEF Continues, x

(* A variable with the value v before pass lo has this behind pass i.        *)
Value(S, step, N, lo, i, v) == From(S, step, N, lo - 1, v)[i]

LEMMA ValueSteps ==
  ASSUME NEW S, NEW step, NEW N \in Nat, Keeps(S, step, N),
         NEW lo \in 1..N, NEW v \in S
  PROVE  /\ \A i \in lo..N : Value(S, step, N, lo, i, v) \in S
         /\ Value(S, step, N, lo, lo, v) = step[lo][v]
         /\ \A i \in lo + 1..N :
              Value(S, step, N, lo, i, v) = step[i][Value(S, step, N, lo, i - 1, v)]
<1>1. PICK a \in Nat : a = lo - 1 /\ a <= N
  OBVIOUS
<1>2. Starts(From(S, step, N, a, v), S, step, N, a, v)
  BY <1>1, FromPath, Zenon
<1> DEFINE t == From(S, step, N, a, v)
<1>3. t \in [a..N -> S] /\ (\A i \in a + 1..N : t[i] = step[i][t[i - 1]]) /\ t[a] = v
  BY <1>2, Zenon DEF Starts, Goes
<1>4. \A i : Value(S, step, N, lo, i, v) = t[i]
  BY <1>1, Zenon DEF Value
<1> HIDE DEF t
<1>5. \A i \in lo..N : t[i] \in S
  BY <1>1, <1>3
<1>6. t[lo] = step[lo][v]
  BY <1>1, <1>3
<1>7. \A i \in lo + 1..N : t[i] = step[i][t[i - 1]]
  BY <1>1, <1>3
<1>8. QED
  BY <1>4, <1>5, <1>6, <1>7, Zenon

LEMMA ValueSplits ==
  ASSUME NEW S, NEW step, NEW N \in Nat, Keeps(S, step, N),
         NEW lo \in 1..N, NEW hi \in 1..N, NEW v \in S, NEW mid \in lo..hi - 1
  PROVE  Value(S, step, N, lo, hi, v)
           = Value(S, step, N, mid + 1, hi, Value(S, step, N, lo, mid, v))
<1>1. PICK a \in Nat : a = lo - 1 /\ a <= mid
  OBVIOUS
<1>2. mid \in Nat /\ mid <= N /\ hi \in mid..N
  OBVIOUS
<1>3. Continues(S, step, N, a, mid, v)
  BY <1>1, <1>2, FromMiddle, Zenon
<1>4. From(S, step, N, a, v)[hi] = From(S, step, N, mid, From(S, step, N, a, v)[mid])[hi]
  BY <1>2, <1>3, Zenon DEF Continues
<1>5. PICK b : b = mid + 1 /\ b - 1 = mid
  OBVIOUS
<1>6. \A x : Value(S, step, N, b, hi, x) = From(S, step, N, mid, x)[hi]
  BY <1>5, Zenon DEF Value
<1>7. \A i : Value(S, step, N, lo, i, v) = From(S, step, N, a, v)[i]
  BY <1>1, Zenon DEF Value
<1>8. QED
  BY <1>4, <1>5, <1>6, <1>7, Zenon

(* A loop whose passes keep to S goes through them in their order.           *)
LEMMA PassesInOrder ==
  ASSUME NEW S, NEW step, NEW N \in Nat, NEW start \in S,
         Keeps(S, step, N)
  PROVE  Starts(Passes(S, step, start, N), S, step, N, 0, start)
<1> DEFINE Halved(f) ==
             [lo \in 1..N |-> [hi \in 1..N |-> [v \in S |->
                IF lo >= hi THEN step[lo][v]
                ELSE f[((lo + hi) \div 2) + 1][hi][f[lo][(lo + hi) \div 2][v]]]]]
           after == CHOOSE f : f = Halved(f)
           At(lo, hi, v) == Value(S, step, N, lo, hi, v)
           whole == [lo \in 1..N |-> [hi \in 1..N |-> [v \in S |->
                       IF lo >= hi THEN step[lo][v] ELSE At(lo, hi, v)]]]
<1>1. ASSUME NEW lo \in 1..N, NEW v \in S
      PROVE  /\ \A i \in lo..N : At(lo, i, v) \in S
             /\ At(lo, lo, v) = step[lo][v]
             /\ \A i \in lo + 1..N : At(lo, i, v) = step[i][At(lo, i - 1, v)]
  BY ValueSteps
<1>2. ASSUME NEW lo \in 1..N, NEW hi \in 1..N, NEW v \in S, NEW mid \in lo..hi - 1
      PROVE  At(lo, hi, v) = At(mid + 1, hi, At(lo, mid, v))
  BY ValueSplits, Zenon
<1> HIDE DEF At
<1>3. ASSUME NEW lo \in 1..N, NEW hi \in lo..N, NEW v \in S
      PROVE  whole[lo][hi][v] = At(lo, hi, v)
  BY <1>1
<1>4. ASSUME NEW lo \in 1..N, NEW hi \in 1..N, NEW v \in S
      PROVE  whole[lo][hi][v] = IF lo >= hi THEN step[lo][v]
                ELSE whole[((lo + hi) \div 2) + 1][hi][whole[lo][(lo + hi) \div 2][v]]
  <2>1. CASE lo >= hi
    BY <2>1
  <2>2. CASE lo < hi
    <3>1. PICK mid \in lo..hi - 1 : mid = (lo + hi) \div 2
      BY <2>2
    <3>2. mid \in 1..N /\ mid + 1 \in 1..N /\ mid \in lo..N /\ hi \in mid + 1..N /\ hi \in lo..N
      BY <3>1, <2>2
    <3>3. whole[lo][mid][v] = At(lo, mid, v) /\ At(lo, mid, v) \in S
      BY <1>1, <1>3, <3>2
    <3>4. whole[mid + 1][hi][At(lo, mid, v)] = At(mid + 1, hi, At(lo, mid, v))
      BY <1>3, <3>2, <3>3
    <3>5. whole[lo][hi][v] = At(lo, hi, v)
      BY <1>3, <3>2
    <3> HIDE DEF whole
    <3>6. At(lo, hi, v) = At(mid + 1, hi, At(lo, mid, v))
      BY <1>2
    <3>7. ~(lo >= hi)
      BY <2>2
    <3>8. QED
      BY <3>1, <3>3, <3>4, <3>5, <3>6, <3>7, Zenon
  <2>3. QED
    BY <2>1, <2>2
<1>5. whole = Halved(whole)
  <2> DEFINE wh == whole
      Inner(lo, hi, v) == IF lo >= hi THEN step[lo][v]
                ELSE wh[((lo + hi) \div 2) + 1][hi][wh[lo][(lo + hi) \div 2][v]]
      Shape == [lo \in 1..N |-> [hi \in 1..N |-> [v \in S |-> wh[lo][hi][v]]]]
  <2>1. wh = Shape
    BY Zenon
  <2> HIDE DEF wh
  <2>2. \A lo \in 1..N, hi \in 1..N, v \in S : wh[lo][hi][v] = Inner(lo, hi, v)
    BY <1>4 DEF wh
  <2> HIDE DEF Inner
  <2>3. Shape = [lo \in 1..N |-> [hi \in 1..N |-> [v \in S |-> Inner(lo, hi, v)]]]
    BY <2>2, Zenon
  <2>4. QED
    BY <2>1, <2>3, Zenon DEF wh, Inner, Halved
<1>6. after = Halved(after)
  <2> HIDE DEF Halved, whole
  <2>1. QED
    BY <1>5, Zenon
<1>7. ASSUME NEW lo \in 1..N, NEW hi \in 1..N, NEW v \in S
      PROVE  after[lo][hi][v] = IF lo >= hi THEN step[lo][v]
                ELSE after[((lo + hi) \div 2) + 1][hi][after[lo][(lo + hi) \div 2][v]]
  <2> DEFINE a == after
  <2>1. a = Halved(a)
    BY <1>6
  <2> HIDE DEF a
  <2>2. Halved(a)[lo][hi][v] = IF lo >= hi THEN step[lo][v]
                ELSE a[((lo + hi) \div 2) + 1][hi][a[lo][(lo + hi) \div 2][v]]
    OBVIOUS
  <2> HIDE DEF Halved
  <2>3. a[lo][hi][v] = IF lo >= hi THEN step[lo][v]
                ELSE a[((lo + hi) \div 2) + 1][hi][a[lo][(lo + hi) \div 2][v]]
    BY <2>1, <2>2, Zenon
  <2>4. QED
    BY <2>3 DEF a
<1> HIDE DEF after, whole, Halved
<1> DEFINE P == {k \in Nat : \A lo \in 1..N : \A hi \in lo..N : \A v \in S :
                     hi - lo <= k => after[lo][hi][v] = At(lo, hi, v)}
<1>8. 0 \in P
  <2>1. ASSUME NEW lo \in 1..N, NEW hi \in lo..N, NEW v \in S, hi - lo <= 0
        PROVE  after[lo][hi][v] = At(lo, hi, v)
    <3>1. hi = lo
      BY <2>1
    <3>2. after[lo][lo][v] = step[lo][v]
      BY <1>7
    <3>3. At(lo, lo, v) = step[lo][v]
      BY <1>1
    <3>4. QED
      BY <3>1, <3>2, <3>3
  <2>2. QED
    BY <2>1
<1>9. ASSUME NEW k \in Nat, k \in P PROVE k + 1 \in P
  <2>1. ASSUME NEW lo \in 1..N, NEW hi \in lo..N, NEW v \in S, hi - lo <= k + 1
        PROVE  after[lo][hi][v] = At(lo, hi, v)
    <3>1. CASE hi - lo <= k
      BY <1>9, <3>1
    <3>2. CASE ~(hi - lo <= k)
      <4>1. PICK mid \in lo..hi - 1 : mid = (lo + hi) \div 2
        BY <3>2
      <4>2. /\ hi \in 1..N /\ ~(lo >= hi)
            /\ mid \in lo..N /\ mid + 1 \in 1..N /\ hi \in mid + 1..N
            /\ mid - lo <= k /\ hi - (mid + 1) <= k
        BY <2>1, <3>2, <4>1
      <4>3. after[lo][mid][v] = At(lo, mid, v)
        BY <1>9, <4>2
      <4>4. At(lo, mid, v) \in S
        BY <1>1, <4>2
      <4>5. after[mid + 1][hi][At(lo, mid, v)] = At(mid + 1, hi, At(lo, mid, v))
        BY <1>9, <4>2, <4>4
      <4>6. after[lo][hi][v] = after[mid + 1][hi][after[lo][mid][v]]
        BY <1>7, <4>1, <4>2
      <4>7. At(lo, hi, v) = At(mid + 1, hi, At(lo, mid, v))
        BY <1>2, <4>2
      <4>8. QED
        BY <4>3, <4>5, <4>6, <4>7
    <3>3. QED
      BY <3>1, <3>2
  <2>2. QED
    BY <2>1
<1>10. \A k \in Nat : k \in P
  <2> HIDE DEF P
  <2>1. QED
    BY <1>8, <1>9, AllNaturals
<1>11. ASSUME NEW lo \in 1..N, NEW hi \in lo..N, NEW v \in S
       PROVE  after[lo][hi][v] = At(lo, hi, v)
  <2>1. hi - lo \in Nat
    OBVIOUS
  <2>2. hi - lo \in P
    BY <1>10, <2>1
  <2>3. QED
    BY <2>2
<1> HIDE DEF P
<1> DEFINE p == Passes(S, step, start, N)
<1>12. p = [i \in 0..N |-> IF i = 0 THEN start ELSE after[1][i][start]]
  BY Zenon DEF Passes, after, Halved
<1> HIDE DEF p
<1>13. p[0] = start
  BY <1>12
<1>14. ASSUME NEW i \in 1..N PROVE p[i] = At(1, i, start)
  <2>1. 1 \in 1..N /\ i \in 0..N /\ i # 0
    OBVIOUS
  <2>2. p[i] = after[1][i][start]
    BY <1>12, <2>1
  <2>3. QED
    BY <1>11, <2>1, <2>2
<1>15. ASSUME NEW i \in 1..N PROVE p[i] \in S
  BY <1>1, <1>14
<1>16. ASSUME NEW i \in 1..N PROVE p[i] = step[i][p[i - 1]]
  <2>1. CASE i = 1
    BY <1>1, <1>13, <1>14, <2>1
  <2>2. CASE i # 1
    <3>1. 1 \in 1..N /\ i \in 1 + 1..N /\ i - 1 \in 1..N
      BY <2>2
    <3>2. p[i] = At(1, i, start) /\ p[i - 1] = At(1, i - 1, start)
      BY <1>14, <3>1
    <3>3. At(1, i, start) = step[i][At(1, i - 1, start)]
      BY <1>1, <3>1
    <3>4. QED
      BY <3>2, <3>3
  <2>3. QED
    BY <2>1, <2>2
<1>17. p \in [0..N -> S]
  <2>1. \A i \in 0..N : p[i] \in S
    BY <1>13, <1>15
  <2>2. p = [i \in 0..N |-> p[i]]
    BY <1>12
  <2>3. QED
    BY <2>1, <2>2
<1>18. Goes(p, step, 0, N)
  BY <1>16 DEF Goes
<1>19. QED
  BY <1>13, <1>17, <1>18 DEF p, Starts

-----------------------------------------------------------------------------
(* Bits *)

LEMMA ShiftedIn ==
  /\ \A s \in 0..127 : \A b \in 0..1 : Shifted(s, b) \in 0..127
  /\ \A s \in 0..127 : Shifted(s, 0) \in 0..127
BY DEF Shifted

LEMMA ShiftedBits ==
  ASSUME NEW s \in 0..127, NEW b \in 0..1
  PROVE  /\ Bit(Shifted(s, b), 0) = b
         /\ \A k \in 1..6 : Bit(Shifted(s, b), k) = Bit(Shifted(s, 0), k)
<1>1. PICK d \in 0..63 : (2 * s) % 128 = 2 * d
  OBVIOUS
<1>2. Shifted(s, b) = 2 * d + b /\ Shifted(s, 0) = 2 * d
  BY <1>1 DEF Shifted
<1>4. 2^0 = 1 /\ 2^1 = 2 /\ 2^2 = 4 /\ 2^3 = 8 /\ 2^4 = 16 /\ 2^5 = 32 /\ 2^6 = 64
  OBVIOUS
<1>5. Bit(Shifted(s, b), 0) = b
  BY <1>2, <1>4 DEF Bit
<1>6. ASSUME NEW k \in 1..6 PROVE Bit(Shifted(s, b), k) = Bit(Shifted(s, 0), k)
  <2>1. CASE k = 1
    <3>1. (2 * d + b) \div 2 = (2 * d) \div 2
      OBVIOUS
    <3>2. QED
      BY <1>2, <1>4, <2>1, <3>1 DEF Bit
  <2>2. CASE k = 2
    <3>1. (2 * d + b) \div 4 = (2 * d) \div 4
      OBVIOUS
    <3>2. QED
      BY <1>2, <1>4, <2>2, <3>1 DEF Bit
  <2>3. CASE k = 3
    <3>1. (2 * d + b) \div 8 = (2 * d) \div 8
      OBVIOUS
    <3>2. QED
      BY <1>2, <1>4, <2>3, <3>1 DEF Bit
  <2>4. CASE k = 4
    <3>1. (2 * d + b) \div 16 = (2 * d) \div 16
      OBVIOUS
    <3>2. QED
      BY <1>2, <1>4, <2>4, <3>1 DEF Bit
  <2>5. CASE k = 5
    <3>1. (2 * d + b) \div 32 = (2 * d) \div 32
      OBVIOUS
    <3>2. QED
      BY <1>2, <1>4, <2>5, <3>1 DEF Bit
  <2>6. CASE k = 6
    <3>1. (2 * d + b) \div 64 = (2 * d) \div 64
      OBVIOUS
    <3>2. QED
      BY <1>2, <1>4, <2>6, <3>1 DEF Bit
  <2>7. QED
    BY <2>1, <2>2, <2>3, <2>4, <2>5, <2>6
<1>7. QED
  BY <1>5, <1>6

LEMMA ParityIn ==
  \A s \in 0..127 : \A g \in 1..2 : Parity(s, g) \in 0..1
<1>1. ASSUME NEW s \in 0..127, NEW g \in 1..2 PROVE Parity(s, g) \in 0..1
  <2> DEFINE On == {k \in Generator[g] : Bit(s, k) = 1}
  <2>1. On \subseteq 0..6
    BY DEF Generator
  <2>2. IsFiniteSet(On) /\ Cardinality(On) \in Nat
    <3> HIDE DEF On
    <3>1. PICK lo \in Int, hi \in Int : lo = 0 /\ hi = 6
      OBVIOUS
    <3>2. IsFiniteSet(lo..hi)
      BY FS_Interval
    <3>3. QED
      BY <2>1, <3>1, <3>2, FS_Subset, FS_CardinalityType
  <2>3. Parity(s, g) = Cardinality(On) % 2
    BY DEF Parity
  <2> HIDE DEF On
  <2>4. PICK c \in Nat : c = Cardinality(On)
    BY <2>2
  <2>5. QED
    BY <2>3, <2>4
<1>2. QED
  BY <1>1

(* Both generators have the newest bit, so it turns both outputs.            *)
LEMMA ParityOfNewest ==
  ASSUME NEW s \in 0..127, NEW b \in 0..1, NEW g \in 1..2
  PROVE  Parity(Shifted(s, b), g) = Xor(Parity(Shifted(s, 0), g), b)
<1>1. Generator[g] \subseteq 0..6 /\ 0 \in Generator[g]
  BY DEF Generator
<1>2. IsFiniteSet(0..6)
  <2>1. PICK lo \in Int, hi \in Int : lo = 0 /\ hi = 6
    OBVIOUS
  <2>2. IsFiniteSet(lo..hi)
    BY FS_Interval
  <2>3. QED
    BY <2>1, <2>2
<1> DEFINE A == {k \in Generator[g] \ {0} : Bit(Shifted(s, 0), k) = 1}
           On(x) == {k \in Generator[g] : Bit(x, k) = 1}
<1>3. ASSUME NEW x PROVE Cardinality(On(x)) \in Nat
  <2>1. On(x) \subseteq 0..6
    BY <1>1
  <2>2. QED
    BY <1>2, <2>1, FS_Subset, FS_CardinalityType
<1>4. IsFiniteSet(A) /\ Cardinality(A) \in Nat
  <2>1. A \subseteq 0..6
    BY <1>1
  <2>2. QED
    BY <1>2, <2>1, FS_Subset, FS_CardinalityType
<1>5. 0 \notin A
  OBVIOUS
<1>6. Bit(Shifted(s, 0), 0) = 0 /\ Bit(Shifted(s, b), 0) = b
  BY ShiftedBits
<1>7. \A k \in 1..6 : Bit(Shifted(s, b), k) = Bit(Shifted(s, 0), k)
  BY ShiftedBits
<1>8. On(Shifted(s, 0)) = A
  BY <1>1, <1>6
<1>9. On(Shifted(s, b)) = IF b = 1 THEN A \union {0} ELSE A
  BY <1>1, <1>6, <1>7
<1>10. Cardinality(A \union {0}) = Cardinality(A) + 1
  BY <1>4, <1>5, FS_AddElement
<1>11. \A x : Parity(x, g) = Cardinality(On(x)) % 2
  BY DEF Parity
<1> HIDE DEF On, A
<1>12. Parity(Shifted(s, b), g) = Xor(Parity(Shifted(s, 0), g), b)
  <2>1. PICK c \in Nat : c = Cardinality(A)
    BY <1>4
  <2>2. Parity(Shifted(s, 0), g) = c % 2
    BY <1>8, <1>11, <2>1
  <2>3. Parity(Shifted(s, b), g) = (c + b) % 2
    <3>1. CASE b = 1
      BY <1>9, <1>10, <1>11, <2>1, <3>1
    <3>2. CASE b = 0
      BY <1>9, <1>11, <2>1, <3>2
    <3>3. QED
      BY <3>1, <3>2
  <2>4. QED
    BY <2>1, <2>2, <2>3 DEF Xor
<1>13. QED
  BY <1>12

(* A sequence given as a function.                                           *)
LEMMA AsSequence ==
  ASSUME NEW S, NEW N \in Nat, NEW x \in [1..N -> S]
  PROVE  x \in Seq(S) /\ Len(x) = N /\ DOMAIN x = 1..N
OBVIOUS

(* What a convolutional encoder and a decoder for what it makes agree in.    *)
EncoderStates(in, N, states) ==
  /\ states \in [0..N -> 0..127]
  /\ states[0] = 0
  /\ \A i \in 1..N : states[i] = Shifted(states[i - 1], in[i])

LEMMA Encoded ==
  ASSUME NEW N \in Nat, NEW in \in [1..N -> {0, 1}]
  PROVE  \E states : /\ EncoderStates(in, N, states)
                     /\ convolutional_encoding(in) =
                          [k \in 1..2 * N |-> Parity(states[(k + 1) \div 2], 2 - (k % 2))]
<1> DEFINE step == [i \in 1..N |-> [state \in 0..127 |-> Shifted(state, in[i])]]
           states == Passes(0..127, step, 0, N)
<1>1. Keeps(0..127, step, N)
  <2>1. ASSUME NEW v \in 0..127, NEW i \in 1..N PROVE step[i][v] \in 0..127
    <3>1. step[i][v] = Shifted(v, in[i])
      OBVIOUS
    <3>2. in[i] \in 0..1
      OBVIOUS
    <3> HIDE DEF step
    <3>3. Shifted(v, in[i]) \in 0..127
      BY <3>2, ShiftedIn, Zenon
    <3>4. QED
      BY <3>1, <3>3, Zenon
  <2>2. QED
    BY <2>1, Zenon DEF Keeps
<1>2. Len(in) = N
  BY AsSequence
<1>3. convolutional_encoding(in) =
        [k \in 1..2 * N |-> Parity(states[(k + 1) \div 2], 2 - (k % 2))]
  BY <1>2, Zenon DEF convolutional_encoding
<1>4. \A i \in 1..N, v \in 0..127 : step[i][v] = Shifted(v, in[i])
  OBVIOUS
<1>5. 0 \in 0..127
  OBVIOUS
<1> HIDE DEF step
<1>6. /\ states \in [0..N -> 0..127] /\ states[0] = 0
      /\ \A i \in 1..N : states[i] = step[i][states[i - 1]]
  <2>1. Starts(states, 0..127, step, N, 0, 0)
    BY <1>1, <1>5, PassesInOrder, Zenon
  <2> HIDE DEF states
  <2>2. QED
    BY <2>1 DEF Starts, Goes
<1> HIDE DEF states
<1>7. ASSUME NEW i \in 1..N PROVE states[i] = Shifted(states[i - 1], in[i])
  <2>1. i - 1 \in 0..N
    OBVIOUS
  <2>2. QED
    BY <1>4, <1>6, <2>1
<1>8. EncoderStates(in, N, states)
  BY <1>6, <1>7, Zenon DEF EncoderStates
<1>9. QED
  BY <1>3, <1>8, Zenon

(* coded has the encoder's output for `in' where it does not have a 2, which *)
(* is at most once in every pair.                                            *)
Agrees(coded, out, N) ==
  /\ coded \in [1..2 * N -> 0..2]
  /\ \A k \in 1..2 * N : coded[k] # 2 => coded[k] = out[k]
  /\ \A i \in 1..N : coded[2 * i - 1] # 2 \/ coded[2 * i] # 2

LEMMA DecoderInverts ==
  ASSUME NEW N \in Nat, NEW in \in [1..N -> {0, 1}], NEW coded,
         Agrees(coded, convolutional_encoding(in), N)
  PROVE  viterbi(coded, N) = in
<1>1. PICK states :
        /\ EncoderStates(in, N, states)
        /\ convolutional_encoding(in) =
             [k \in 1..2 * N |-> Parity(states[(k + 1) \div 2], 2 - (k % 2))]
  BY Encoded, Zenon
<1>2. /\ states \in [0..N -> 0..127] /\ states[0] = 0
      /\ \A i \in 1..N : states[i] = Shifted(states[i - 1], in[i])
  BY <1>1, Zenon DEF EncoderStates
<1> DEFINE newest(state, i) ==
             LET g == IF coded[2 * i - 1] # 2 THEN 1 ELSE 2
             IN Xor(Parity(Shifted(state, 0), g), coded[2 * (i - 1) + g])
           step == [i \in 1..N |-> [state \in 0..127 |-> Shifted(state, newest(state, i))]]
           found == Passes(0..127, step, 0, N)
<1>3. ASSUME NEW state \in 0..127, NEW i \in 1..N
      PROVE  newest(state, i) \in 0..1
  <2>1. ASSUME NEW g \in 1..2 PROVE Xor(Parity(Shifted(state, 0), g), coded[2 * (i - 1) + g]) \in 0..1
    <3>1. 2 * (i - 1) + g \in 1..2 * N
      OBVIOUS
    <3>2. coded[2 * (i - 1) + g] \in 0..2
      BY <3>1 DEF Agrees
    <3>3. Shifted(state, 0) \in 0..127
      BY ShiftedIn
    <3>4. Parity(Shifted(state, 0), g) \in 0..1
      BY <3>3, ParityIn
    <3>5. QED
      BY <3>2, <3>4 DEF Xor
  <2>2. CASE coded[2 * i - 1] # 2
    BY <2>1, <2>2
  <2>3. CASE coded[2 * i - 1] = 2
    BY <2>1, <2>3
  <2>4. QED
    BY <2>2, <2>3
<1>4. ASSUME NEW i \in 1..N PROVE newest(states[i - 1], i) = in[i]
  <2>1. PICK s \in 0..127 : s = states[i - 1]
    <3>1. i - 1 \in 0..N
      OBVIOUS
    <3>2. QED
      BY <1>2, <3>1
  <2>2. PICK b \in 0..1 : b = in[i]
    OBVIOUS
  <2>3. states[i] = Shifted(s, b)
    BY <1>2, <2>1, <2>2
  <2>4. ASSUME NEW g \in 1..2, coded[2 * (i - 1) + g] # 2
        PROVE  Xor(Parity(Shifted(s, 0), g), coded[2 * (i - 1) + g]) = b
    <3>1. PICK k \in 1..2 * N : k = 2 * (i - 1) + g
      OBVIOUS
    <3>2. (k + 1) \div 2 = i /\ 2 - (k % 2) = g
      BY <3>1
    <3>3. coded[k] = Parity(states[i], g)
      BY <1>1, <2>4, <3>1, <3>2 DEF Agrees
    <3>4. Parity(Shifted(s, b), g) = Xor(Parity(Shifted(s, 0), g), b)
      BY ParityOfNewest
    <3>5. Shifted(s, 0) \in 0..127
      BY ShiftedIn
    <3>6. PICK p \in 0..1 : p = Parity(Shifted(s, 0), g)
      BY <3>5, ParityIn
    <3>7. coded[k] = Xor(p, b)
      BY <2>3, <3>3, <3>4, <3>6
    <3>8. Xor(p, Xor(p, b)) = b
      BY DEF Xor
    <3>9. QED
      BY <3>1, <3>6, <3>7, <3>8
  <2>5. CASE coded[2 * i - 1] # 2
    <3>1. 2 * (i - 1) + 1 = 2 * i - 1
      OBVIOUS
    <3>2. QED
      BY <2>1, <2>2, <2>4, <2>5, <3>1
  <2>6. CASE coded[2 * i - 1] = 2
    <3>1. 2 * (i - 1) + 2 = 2 * i
      OBVIOUS
    <3>2. coded[2 * i] # 2
      BY <2>6 DEF Agrees
    <3>3. QED
      BY <2>1, <2>2, <2>4, <2>6, <3>1, <3>2
  <2>7. QED
    BY <2>5, <2>6
<1>5. viterbi(coded, N) = [i \in 1..N |-> newest(found[i - 1], i)]
  BY Zenon DEF viterbi
<1> HIDE DEF newest
<1>6. ASSUME NEW i \in 1..N, NEW state \in 0..127
      PROVE  /\ step[i][state] = Shifted(state, newest(state, i))
             /\ step[i][state] \in 0..127
  <2>1. Shifted(state, newest(state, i)) \in 0..127
    BY <1>3, ShiftedIn, Zenon
  <2>2. QED
    BY <2>1
<1> HIDE DEF step
<1>7. Keeps(0..127, step, N)
  BY <1>6, Zenon DEF Keeps
<1>8. Starts(found, 0..127, step, N, 0, 0)
  <2>1. 0 \in 0..127
    OBVIOUS
  <2>2. QED
    BY <1>7, <2>1, PassesInOrder, Zenon
<1> HIDE DEF found
<1>9. Goes(states, step, 0, N)
  <2>1. ASSUME NEW i \in 1..N PROVE states[i] = step[i][states[i - 1]]
    <3>1. PICK s \in 0..127 : s = states[i - 1]
      <4>1. states[i - 1] \in 0..127
        BY <1>2
      <4>2. QED
        BY <4>1, Zenon
    <3>2. step[i][s] = Shifted(s, newest(s, i))
      BY <1>6, Zenon
    <3>3. newest(states[i - 1], i) = in[i]
      BY <1>4
    <3>4. states[i] = Shifted(states[i - 1], in[i])
      BY <1>2
    <3>5. QED
      BY <3>1, <3>2, <3>3, <3>4, Zenon
  <2>2. QED
    BY <2>1 DEF Goes
<1>10. \A i \in 0..N : found[i] = states[i]
  <2>1. Goes(found, step, 0, N) /\ found[0] = states[0]
    BY <1>2, <1>8, Zenon DEF Starts
  <2>2. 0 \in 0..N
    OBVIOUS
  <2>3. QED
    BY <1>9, <2>1, <2>2, PathsStayTogether
<1>11. ASSUME NEW i \in 1..N PROVE newest(found[i - 1], i) = in[i]
  BY <1>4, <1>10
<1>12. QED
  BY <1>5, <1>11

-----------------------------------------------------------------------------
(* Scrambler *)

LEMMA FeedbackIn == \A s \in 0..127 : Feedback(s) \in 0..1
<1>1. ASSUME NEW s \in 0..127 PROVE Feedback(s) \in 0..1
  <2>1. 2^6 = 64 /\ 2^3 = 8
    OBVIOUS
  <2>2. QED
    BY <2>1 DEF Feedback, Bit, Xor
<1>2. QED
  BY <1>1

ScramblerStates(states, N, initial_state) ==
  /\ states \in [0..N -> 0..127]
  /\ states[0] = initial_state
  /\ \A i \in 1..N : states[i] = Shifted(states[i - 1], Feedback(states[i - 1]))

LEMMA WhitenedIs ==
  ASSUME NEW N \in Nat, NEW in, Len(in) = N, NEW initial_state \in 0..127
  PROVE  \E states : /\ ScramblerStates(states, N, initial_state)
                     /\ Whitened(in, initial_state) =
                          [i \in 1..N |-> Xor(Feedback(states[i - 1]), in[i])]
<1> DEFINE step == [i \in 1..N |-> [state \in 0..127 |-> Shifted(state, Feedback(state))]]
           states == Passes(0..127, step, initial_state, N)
<1>1. Whitened(in, initial_state) = [i \in 1..N |-> Xor(Feedback(states[i - 1]), in[i])]
  BY Zenon DEF Whitened
<1>2. ASSUME NEW i \in 1..N, NEW state \in 0..127
      PROVE  /\ step[i][state] = Shifted(state, Feedback(state))
             /\ step[i][state] \in 0..127
  <2>1. Feedback(state) \in 0..1
    BY FeedbackIn, Zenon
  <2>2. Shifted(state, Feedback(state)) \in 0..127
    BY <2>1, ShiftedIn, Zenon
  <2>3. QED
    BY <2>2
<1> HIDE DEF step
<1>3. Keeps(0..127, step, N)
  BY <1>2, Zenon DEF Keeps
<1>4. Starts(states, 0..127, step, N, 0, initial_state)
  BY <1>3, PassesInOrder, Zenon
<1> HIDE DEF states
<1>5. /\ states \in [0..N -> 0..127] /\ states[0] = initial_state
      /\ \A i \in 1..N : states[i] = step[i][states[i - 1]]
  BY <1>4 DEF Starts, Goes
<1>6. ASSUME NEW i \in 1..N
      PROVE  states[i] = Shifted(states[i - 1], Feedback(states[i - 1]))
  <2>1. PICK s \in 0..127 : s = states[i - 1]
    <3>1. states[i - 1] \in 0..127
      BY <1>5
    <3>2. QED
      BY <3>1, Zenon
  <2>2. step[i][s] = Shifted(s, Feedback(s))
    BY <1>2, Zenon
  <2>3. states[i] = step[i][states[i - 1]]
    BY <1>5
  <2>4. QED
    BY <2>1, <2>2, <2>3, Zenon
<1>7. ScramblerStates(states, N, initial_state)
  BY <1>5, <1>6, Zenon DEF ScramblerStates
<1>8. QED
  BY <1>1, <1>7, Zenon

(* After seven steps nothing is left of the state that the scrambler started *)
(* with: its bits are the last seven outputs.                                *)
LEMMA TailOfShifted ==
  ASSUME NEW s \in 0..127, NEW f \in 0..1
  PROVE  /\ Shifted(s, f) % 2 = f
         /\ Shifted(s, f) % 4 = 2 * (s % 2) + f
         /\ Shifted(s, f) % 8 = 2 * (s % 4) + f
         /\ Shifted(s, f) % 16 = 2 * (s % 8) + f
         /\ Shifted(s, f) % 32 = 2 * (s % 16) + f
         /\ Shifted(s, f) % 64 = 2 * (s % 32) + f
         /\ Shifted(s, f) = 2 * (s % 64) + f
<1>1. PICK d \in 0..63, h \in 0..1 : s = 64 * h + d
  OBVIOUS
<1>2. s % 64 = d
  BY <1>1
<1>3. Shifted(s, f) = 2 * d + f
  BY <1>1 DEF Shifted
<1>4. Shifted(s, f) % 2 = f
  BY <1>3
<1>5. Shifted(s, f) % 4 = 2 * (s % 2) + f
  <2>1. (2 * d + f) % 4 = 2 * (d % 2) + f /\ (64 * h + d) % 2 = d % 2
    OBVIOUS
  <2>2. QED
    BY <1>1, <1>3, <2>1
<1>6. Shifted(s, f) % 8 = 2 * (s % 4) + f
  <2>1. (2 * d + f) % 8 = 2 * (d % 4) + f /\ (64 * h + d) % 4 = d % 4
    OBVIOUS
  <2>2. QED
    BY <1>1, <1>3, <2>1
<1>7. Shifted(s, f) % 16 = 2 * (s % 8) + f
  <2>1. (2 * d + f) % 16 = 2 * (d % 8) + f /\ (64 * h + d) % 8 = d % 8
    OBVIOUS
  <2>2. QED
    BY <1>1, <1>3, <2>1
<1>8. Shifted(s, f) % 32 = 2 * (s % 16) + f
  <2>1. (2 * d + f) % 32 = 2 * (d % 16) + f /\ (64 * h + d) % 16 = d % 16
    OBVIOUS
  <2>2. QED
    BY <1>1, <1>3, <2>1
<1>9. Shifted(s, f) % 64 = 2 * (s % 32) + f
  <2>1. (2 * d + f) % 64 = 2 * (d % 32) + f /\ (64 * h + d) % 32 = d % 32
    OBVIOUS
  <2>2. QED
    BY <1>1, <1>3, <2>1
<1>10. QED
  BY <1>2, <1>3, <1>4, <1>5, <1>6, <1>7, <1>8, <1>9

LEMMA SeventhState ==
  ASSUME NEW N \in Nat, N >= 7, NEW initial_state, NEW states,
         ScramblerStates(states, N, initial_state)
  PROVE  states[7] = Feedback(states[6]) + 2 * Feedback(states[5]) + 4 * Feedback(states[4])
                       + 8 * Feedback(states[3]) + 16 * Feedback(states[2])
                       + 32 * Feedback(states[1]) + 64 * Feedback(states[0])
<1> DEFINE f(i) == Feedback(states[i])
<1>1. ASSUME NEW i \in 0..N PROVE states[i] \in 0..127
  BY Zenon DEF ScramblerStates
<1>2. ASSUME NEW i \in 0..N PROVE f(i) \in 0..1
  BY <1>1, FeedbackIn, Zenon
<1>3. ASSUME NEW i \in 1..7
      PROVE  states[i] = Shifted(states[i - 1], f(i - 1))
  <2>1. i \in 1..N
    OBVIOUS
  <2>2. QED
    BY <2>1, Zenon DEF ScramblerStates
<1> HIDE DEF f
<1>4. ASSUME NEW i \in 0..6 PROVE states[i] \in 0..127 /\ f(i) \in 0..1
  <2>1. i \in 0..N
    OBVIOUS
  <2>2. QED
    BY <1>1, <1>2, <2>1, Zenon
<1>5. states[1] % 2 = f(0)
  <2>1. states[1] = Shifted(states[0], f(0))
    BY <1>3
  <2>2. QED
    BY <1>4, <2>1, TailOfShifted
<1>6. states[2] % 4 = 2 * (states[1] % 2) + f(1)
  <2>1. states[2] = Shifted(states[1], f(1))
    BY <1>3
  <2>2. QED
    BY <1>4, <2>1, TailOfShifted
<1>7. states[3] % 8 = 2 * (states[2] % 4) + f(2)
  <2>1. states[3] = Shifted(states[2], f(2))
    BY <1>3
  <2>2. QED
    BY <1>4, <2>1, TailOfShifted
<1>8. states[4] % 16 = 2 * (states[3] % 8) + f(3)
  <2>1. states[4] = Shifted(states[3], f(3))
    BY <1>3
  <2>2. QED
    BY <1>4, <2>1, TailOfShifted
<1>9. states[5] % 32 = 2 * (states[4] % 16) + f(4)
  <2>1. states[5] = Shifted(states[4], f(4))
    BY <1>3
  <2>2. QED
    BY <1>4, <2>1, TailOfShifted
<1>10. states[6] % 64 = 2 * (states[5] % 32) + f(5)
  <2>1. states[6] = Shifted(states[5], f(5))
    BY <1>3
  <2>2. QED
    BY <1>4, <2>1, TailOfShifted
<1>11. states[7] = 2 * (states[6] % 64) + f(6)
  <2>1. states[7] = Shifted(states[6], f(6))
    BY <1>3
  <2>2. QED
    BY <1>4, <2>1, TailOfShifted
<1>12. PICK f0 \in Int, f1 \in Int, f2 \in Int, f3 \in Int, f4 \in Int, f5 \in Int, f6 \in Int :
         f0 = f(0) /\ f1 = f(1) /\ f2 = f(2) /\ f3 = f(3) /\ f4 = f(4) /\ f5 = f(5) /\ f6 = f(6)
  <2>1. /\ f(0) \in Int /\ f(1) \in Int /\ f(2) \in Int /\ f(3) \in Int
        /\ f(4) \in Int /\ f(5) \in Int /\ f(6) \in Int
    BY <1>4
  <2>2. QED
    BY <2>1, Zenon
<1>13. states[3] % 8 = f2 + 2 * f1 + 4 * f0
  BY <1>5, <1>6, <1>7, <1>12
<1>14. states[5] % 32 = f4 + 2 * f3 + 4 * f2 + 8 * f1 + 16 * f0
  BY <1>8, <1>9, <1>12, <1>13
<1>15. states[7] = f6 + 2 * f5 + 4 * f4 + 8 * f3 + 16 * f2 + 32 * f1 + 64 * f0
  BY <1>10, <1>11, <1>12, <1>14
<1>16. QED
  BY <1>12, <1>15, Zenon DEF f

-----------------------------------------------------------------------------
(* Numbers *)

Powers == /\ 2^0 = 1 /\ 2^1 = 2 /\ 2^2 = 4 /\ 2^3 = 8 /\ 2^4 = 16 /\ 2^5 = 32
          /\ 2^6 = 64 /\ 2^7 = 128 /\ 2^8 = 256 /\ 2^9 = 512 /\ 2^10 = 1024
          /\ 2^11 = 2048 /\ 2^12 = 4096

LEMMA PowersOfTwo == Powers
BY DEF Powers

LEMMA PowerIn ==
  ASSUME NEW k \in 0..11
  PROVE  2^k \in Nat
<1>1. Powers
  BY PowersOfTwo
<1>2. CASE k = 0
  BY <1>1, <1>2 DEF Powers
<1>3. CASE k = 1
  BY <1>1, <1>3 DEF Powers
<1>4. CASE k = 2
  BY <1>1, <1>4 DEF Powers
<1>5. CASE k = 3
  BY <1>1, <1>5 DEF Powers
<1>6. CASE k = 4
  BY <1>1, <1>6 DEF Powers
<1>7. CASE k = 5
  BY <1>1, <1>7 DEF Powers
<1>8. CASE k = 6
  BY <1>1, <1>8 DEF Powers
<1>9. CASE k = 7
  BY <1>1, <1>9 DEF Powers
<1>10. CASE k = 8
  BY <1>1, <1>10 DEF Powers
<1>11. CASE k = 9
  BY <1>1, <1>11 DEF Powers
<1>12. CASE k = 10
  BY <1>1, <1>12 DEF Powers
<1>13. CASE k = 11
  BY <1>1, <1>13 DEF Powers
<1>14. QED
  BY <1>2, <1>3, <1>4, <1>5, <1>6, <1>7, <1>8, <1>9, <1>10, <1>11, <1>12, <1>13

LEMMA NumberIs ==
  ASSUME NEW N \in 0..12, NEW bs \in [1..N -> {0, 1}]
  PROVE  \E sums : /\ sums \in [0..N -> Nat]
                   /\ sums[0] = 0
                   /\ \A k \in 1..N : sums[k] = sums[k - 1] + bs[k] * 2^(k - 1)
                   /\ Number(bs) = sums[N]
<1> DEFINE step == [k \in DOMAIN bs |-> [v \in Nat |-> v + bs[k] * 2^(k - 1)]]
           sums == Passes(Nat, step, 0, N)
<1>1. N \in Nat /\ 0 \in Nat
  OBVIOUS
<1>2. Len(bs) = N /\ DOMAIN bs = 1..N
  BY <1>1, AsSequence
<1>3. Number(bs) = sums[N]
  BY <1>2, Zenon DEF Number
<1>4. ASSUME NEW k \in 1..N, NEW v \in Nat
      PROVE  step[k][v] = v + bs[k] * 2^(k - 1) /\ step[k][v] \in Nat
  <2>1. k - 1 \in 0..11
    OBVIOUS
  <2>2. PICK p \in Nat : p = 2^(k - 1)
    BY <2>1, PowerIn
  <2>3. PICK b \in {0, 1} : b = bs[k]
    OBVIOUS
  <2>4. step[k][v] = v + bs[k] * 2^(k - 1)
    BY <1>2
  <2>5. step[k][v] = v + b * p
    BY <2>2, <2>3, <2>4
  <2>6. v + b * p \in Nat
    <3>1. CASE b = 0
      BY <3>1
    <3>2. CASE b = 1
      BY <3>2
    <3>3. QED
      BY <3>1, <3>2
  <2>7. QED
    BY <2>4, <2>5, <2>6
<1> HIDE DEF step
<1>5. Keeps(Nat, step, N)
  BY <1>4, Zenon DEF Keeps
<1>6. Starts(sums, Nat, step, N, 0, 0)
  BY <1>1, <1>5, PassesInOrder, Zenon
<1> HIDE DEF sums
<1>7. /\ sums \in [0..N -> Nat] /\ sums[0] = 0
      /\ \A k \in 1..N : sums[k] = step[k][sums[k - 1]]
  BY <1>6 DEF Starts, Goes
<1>8. ASSUME NEW k \in 1..N PROVE sums[k] = sums[k - 1] + bs[k] * 2^(k - 1)
  <2>1. PICK v \in Nat : v = sums[k - 1]
    <3>1. sums[k - 1] \in Nat
      BY <1>7
    <3>2. QED
      BY <3>1, Zenon
  <2>2. step[k][v] = v + bs[k] * 2^(k - 1)
    BY <1>4, Zenon
  <2>3. sums[k] = step[k][sums[k - 1]]
    BY <1>7
  <2>4. QED
    BY <2>1, <2>2, <2>3, Zenon
<1>9. QED
  BY <1>3, <1>7, <1>8, Zenon

(* The bits of a number, one by one.                                         *)
Padded(bs, N) == [k \in 1..12 |-> IF k <= N THEN bs[k] ELSE 0]

Weighted(b) ==
  b[1] + 2 * b[2] + 4 * b[3] + 8 * b[4] + 16 * b[5] + 32 * b[6] + 64 * b[7] + 128 * b[8]
    + 256 * b[9] + 512 * b[10] + 1024 * b[11] + 2048 * b[12]

LEMMA NumberAddsBits ==
  ASSUME NEW N \in 0..12, NEW bs \in [1..N -> {0, 1}]
  PROVE  Number(bs) = Weighted(Padded(bs, N))
<1> PICK b : b = Padded(bs, N)
  OBVIOUS
<1> b = [k \in 1..12 |-> IF k <= N THEN bs[k] ELSE 0]
  BY DEF Padded
<1>1. PICK sums :
        /\ sums \in [0..N -> Nat]
        /\ sums[0] = 0
        /\ \A k \in 1..N : sums[k] = sums[k - 1] + bs[k] * 2^(k - 1)
        /\ Number(bs) = sums[N]
  BY NumberIs
<1> DEFINE upTo(k) == IF k <= N THEN sums[k] ELSE sums[N]
<1>2. ASSUME NEW k \in 0..12 PROVE upTo(k) \in Nat
  <2>1. CASE k <= N
    <3>1. k \in 0..N
      BY <2>1
    <3>2. QED
      BY <1>1, <2>1, <3>1
  <2>2. CASE k > N
    <3>1. N \in 0..N
      OBVIOUS
    <3>2. QED
      BY <1>1, <2>2, <3>1
  <2>3. QED
    BY <2>1, <2>2
<1>3. ASSUME NEW k \in 1..12, NEW p \in Nat, p = 2^(k - 1)
      PROVE  upTo(k) = upTo(k - 1) + p * b[k]
  <2>1. CASE k <= N
    <3>1. upTo(k) = sums[k] /\ upTo(k - 1) = sums[k - 1]
      BY <2>1
    <3>2. b[k] = bs[k] /\ b[k] \in {0, 1}
      <4>1. k \in 1..N
        BY <2>1
      <4>2. bs[k] \in {0, 1}
        BY <4>1
      <4>3. b[k] = bs[k]
        BY <2>1
      <4>4. QED
        BY <4>2, <4>3
    <3>3. sums[k] = sums[k - 1] + b[k] * p
      BY <1>1, <1>3, <2>1, <3>2
    <3>4. b[k] * p = p * b[k]
      BY <3>2
    <3>5. QED
      BY <3>1, <3>3, <3>4
  <2>2. CASE k > N
    <3>1. upTo(k) = sums[N] /\ upTo(k - 1) = sums[N] /\ sums[N] \in Nat
      BY <1>1, <2>2
    <3>2. b[k] = 0
      BY <2>2
    <3>3. QED
      BY <3>1, <3>2
  <2>3. QED
    BY <2>1, <2>2
<1>4. ASSUME NEW k \in 1..12 PROVE b[k] \in {0, 1}
  OBVIOUS
<1>5. upTo(0) = 0 /\ upTo(12) = Number(bs)
  BY <1>1
<1> HIDE DEF upTo
<1>6. /\ upTo(1) = upTo(0) + 1 * b[1] /\ upTo(2) = upTo(1) + 2 * b[2]
      /\ upTo(3) = upTo(2) + 4 * b[3] /\ upTo(4) = upTo(3) + 8 * b[4]
      /\ upTo(5) = upTo(4) + 16 * b[5] /\ upTo(6) = upTo(5) + 32 * b[6]
      /\ upTo(7) = upTo(6) + 64 * b[7] /\ upTo(8) = upTo(7) + 128 * b[8]
      /\ upTo(9) = upTo(8) + 256 * b[9] /\ upTo(10) = upTo(9) + 512 * b[10]
      /\ upTo(11) = upTo(10) + 1024 * b[11] /\ upTo(12) = upTo(11) + 2048 * b[12]
  <2>1. Powers
    BY PowersOfTwo
  <2>2. /\ upTo(1) = upTo(0) + 1 * b[1] /\ upTo(2) = upTo(1) + 2 * b[2]
        /\ upTo(3) = upTo(2) + 4 * b[3] /\ upTo(4) = upTo(3) + 8 * b[4]
    BY <1>3, <2>1 DEF Powers
  <2>3. /\ upTo(5) = upTo(4) + 16 * b[5] /\ upTo(6) = upTo(5) + 32 * b[6]
        /\ upTo(7) = upTo(6) + 64 * b[7] /\ upTo(8) = upTo(7) + 128 * b[8]
    BY <1>3, <2>1 DEF Powers
  <2>4. /\ upTo(9) = upTo(8) + 256 * b[9] /\ upTo(10) = upTo(9) + 512 * b[10]
        /\ upTo(11) = upTo(10) + 1024 * b[11] /\ upTo(12) = upTo(11) + 2048 * b[12]
    BY <1>3, <2>1 DEF Powers
  <2>5. QED
    BY <2>2, <2>3, <2>4
<1>7. /\ b[1] \in Int /\ b[2] \in Int /\ b[3] \in Int /\ b[4] \in Int /\ b[5] \in Int
      /\ b[6] \in Int /\ b[7] \in Int /\ b[8] \in Int /\ b[9] \in Int /\ b[10] \in Int
      /\ b[11] \in Int /\ b[12] \in Int
  BY <1>4, SMTT(30)
<1>8. /\ upTo(4) \in Int /\ upTo(8) \in Int /\ upTo(12) \in Int
  BY <1>2
<1>9. upTo(4) = b[1] + 2 * b[2] + 4 * b[3] + 8 * b[4]
  BY <1>5, <1>6, <1>7, SMTT(30)
<1>10. upTo(8) = upTo(4) + 16 * b[5] + 32 * b[6] + 64 * b[7] + 128 * b[8]
  BY <1>6, <1>7, <1>8
<1>11. upTo(12) = upTo(8) + 256 * b[9] + 512 * b[10] + 1024 * b[11] + 2048 * b[12]
  BY <1>6, <1>7, <1>8
<1>12. upTo(12) = b[1] + 2 * b[2] + 4 * b[3] + 8 * b[4] + 16 * b[5] + 32 * b[6]
                   + 64 * b[7] + 128 * b[8] + 256 * b[9] + 512 * b[10]
                   + 1024 * b[11] + 2048 * b[12]
  BY <1>7, <1>9, <1>10, <1>11
<1>13. upTo(12) = Weighted(b)
  BY <1>12 DEF Weighted
<1>14. QED
  BY <1>5, <1>13

LEMMA BitIn == \A x \in Nat, k \in 0..11 : Bit(x, k) \in {0, 1}
<1>1. ASSUME NEW x \in Nat, NEW k \in 0..11 PROVE Bit(x, k) \in {0, 1}
  <2>1. PICK p \in Nat \ {0} : p = 2^k
    <3>1. Powers
      BY PowersOfTwo
    <3>2. CASE k = 0
      BY <3>1, <3>2 DEF Powers
    <3>3. CASE k = 1
      BY <3>1, <3>3 DEF Powers
    <3>4. CASE k = 2
      BY <3>1, <3>4 DEF Powers
    <3>5. CASE k = 3
      BY <3>1, <3>5 DEF Powers
    <3>6. CASE k = 4
      BY <3>1, <3>6 DEF Powers
    <3>7. CASE k = 5
      BY <3>1, <3>7 DEF Powers
    <3>8. CASE k = 6
      BY <3>1, <3>8 DEF Powers
    <3>9. CASE k = 7
      BY <3>1, <3>9 DEF Powers
    <3>10. CASE k = 8
      BY <3>1, <3>10 DEF Powers
    <3>11. CASE k = 9
      BY <3>1, <3>11 DEF Powers
    <3>12. CASE k = 10
      BY <3>1, <3>12 DEF Powers
    <3>13. CASE k = 11
      BY <3>1, <3>13 DEF Powers
    <3>14. QED
      BY <3>2, <3>3, <3>4, <3>5, <3>6, <3>7, <3>8, <3>9, <3>10, <3>11, <3>12, <3>13
  <2>2. PICK q \in Nat : q = x \div p
    OBVIOUS
  <2>3. QED
    BY <2>1, <2>2 DEF Bit
<1>2. QED
  BY <1>1

(* A number from its bits.                                                   *)
LEMMA RestGrows ==
  ASSUME NEW x \in Nat
  PROVE  /\ x % 2 = 1 * Bit(x, 0)
         /\ x % 4 = (x % 2) + 2 * Bit(x, 1)
         /\ x % 8 = (x % 4) + 4 * Bit(x, 2)
         /\ x % 16 = (x % 8) + 8 * Bit(x, 3)
         /\ x % 32 = (x % 16) + 16 * Bit(x, 4)
         /\ x % 64 = (x % 32) + 32 * Bit(x, 5)
         /\ x % 128 = (x % 64) + 64 * Bit(x, 6)
         /\ x % 256 = (x % 128) + 128 * Bit(x, 7)
         /\ x % 512 = (x % 256) + 256 * Bit(x, 8)
         /\ x % 1024 = (x % 512) + 512 * Bit(x, 9)
         /\ x % 2048 = (x % 1024) + 1024 * Bit(x, 10)
         /\ x % 4096 = (x % 2048) + 2048 * Bit(x, 11)
<1>1. Powers
  BY PowersOfTwo
<1>2. x % 2 = 1 * Bit(x, 0)
  <2>1. Bit(x, 0) = (x \div 1) % 2
    BY <1>1 DEF Bit, Powers
  <2>2. x % 2 = 1 * ((x \div 1) % 2)
    OBVIOUS
  <2>3. QED
    BY <2>1, <2>2
<1>3. x % 4 = (x % 2) + 2 * Bit(x, 1)
  <2>1. Bit(x, 1) = (x \div 2) % 2
    BY <1>1 DEF Bit, Powers
  <2>2. x % 4 = (x % 2) + 2 * ((x \div 2) % 2)
    OBVIOUS
  <2>3. QED
    BY <2>1, <2>2
<1>4. x % 8 = (x % 4) + 4 * Bit(x, 2)
  <2>1. Bit(x, 2) = (x \div 4) % 2
    BY <1>1 DEF Bit, Powers
  <2>2. x % 8 = (x % 4) + 4 * ((x \div 4) % 2)
    OBVIOUS
  <2>3. QED
    BY <2>1, <2>2
<1>5. x % 16 = (x % 8) + 8 * Bit(x, 3)
  <2>1. Bit(x, 3) = (x \div 8) % 2
    BY <1>1 DEF Bit, Powers
  <2>2. x % 16 = (x % 8) + 8 * ((x \div 8) % 2)
    OBVIOUS
  <2>3. QED
    BY <2>1, <2>2
<1>6. x % 32 = (x % 16) + 16 * Bit(x, 4)
  <2>1. Bit(x, 4) = (x \div 16) % 2
    BY <1>1 DEF Bit, Powers
  <2>2. x % 32 = (x % 16) + 16 * ((x \div 16) % 2)
    OBVIOUS
  <2>3. QED
    BY <2>1, <2>2
<1>7. x % 64 = (x % 32) + 32 * Bit(x, 5)
  <2>1. Bit(x, 5) = (x \div 32) % 2
    BY <1>1 DEF Bit, Powers
  <2>2. x % 64 = (x % 32) + 32 * ((x \div 32) % 2)
    OBVIOUS
  <2>3. QED
    BY <2>1, <2>2
<1>8. x % 128 = (x % 64) + 64 * Bit(x, 6)
  <2>1. Bit(x, 6) = (x \div 64) % 2
    BY <1>1 DEF Bit, Powers
  <2>2. x % 128 = (x % 64) + 64 * ((x \div 64) % 2)
    OBVIOUS
  <2>3. QED
    BY <2>1, <2>2
<1>9. x % 256 = (x % 128) + 128 * Bit(x, 7)
  <2>1. Bit(x, 7) = (x \div 128) % 2
    BY <1>1 DEF Bit, Powers
  <2>2. x % 256 = (x % 128) + 128 * ((x \div 128) % 2)
    OBVIOUS
  <2>3. QED
    BY <2>1, <2>2
<1>10. x % 512 = (x % 256) + 256 * Bit(x, 8)
  <2>1. Bit(x, 8) = (x \div 256) % 2
    BY <1>1 DEF Bit, Powers
  <2>2. x % 512 = (x % 256) + 256 * ((x \div 256) % 2)
    OBVIOUS
  <2>3. QED
    BY <2>1, <2>2
<1>11. x % 1024 = (x % 512) + 512 * Bit(x, 9)
  <2>1. Bit(x, 9) = (x \div 512) % 2
    BY <1>1 DEF Bit, Powers
  <2>2. x % 1024 = (x % 512) + 512 * ((x \div 512) % 2)
    OBVIOUS
  <2>3. QED
    BY <2>1, <2>2
<1>12. x % 2048 = (x % 1024) + 1024 * Bit(x, 10)
  <2>1. Bit(x, 10) = (x \div 1024) % 2
    BY <1>1 DEF Bit, Powers
  <2>2. x % 2048 = (x % 1024) + 1024 * ((x \div 1024) % 2)
    OBVIOUS
  <2>3. QED
    BY <2>1, <2>2
<1>13. x % 4096 = (x % 2048) + 2048 * Bit(x, 11)
  <2>1. Bit(x, 11) = (x \div 2048) % 2
    BY <1>1 DEF Bit, Powers
  <2>2. x % 4096 = (x % 2048) + 2048 * ((x \div 2048) % 2)
    OBVIOUS
  <2>3. QED
    BY <2>1, <2>2
<1>14. QED
  BY <1>2, <1>3, <1>4, <1>5, <1>6, <1>7, <1>8, <1>9, <1>10, <1>11, <1>12, <1>13

LowBits(x, N) == [k \in 1..N |-> Bit(x, k - 1)]

LEMMA NumberOfBits ==
  ASSUME NEW x \in Nat
  PROVE  /\ Number(LowBits(x, 8)) = x % 256
         /\ Number(LowBits(x, 12)) = x % 4096
<1> DEFINE bs(N) == [k \in 1..N |-> Bit(x, k - 1)]
           b(N) == Padded(bs(N), N)
<1>1. ASSUME NEW N \in 1..12 PROVE bs(N) \in [1..N -> {0, 1}]
  <2>1. ASSUME NEW k \in 1..N PROVE Bit(x, k - 1) \in {0, 1}
    <3>1. k - 1 \in 0..11
      OBVIOUS
    <3>2. QED
      BY <3>1, BitIn
  <2>2. QED
    BY <2>1
<1>2. ASSUME NEW N \in 1..12, NEW k \in 1..12
      PROVE  b(N)[k] = IF k <= N THEN Bit(x, k - 1) ELSE 0
  BY DEF Padded
<1>3. ASSUME NEW N \in 1..12 PROVE Number(bs(N)) = Weighted(b(N))
  <2> HIDE DEF bs
  <2>1. N \in 0..12
    OBVIOUS
  <2>2. QED
    BY <1>1, <2>1, NumberAddsBits
<1> HIDE DEF b
<1> DEFINE B(k) == Bit(x, k)
<1>4. \A k \in 0..11 : B(k) \in {0, 1}
  BY BitIn
<1>5. /\ x % 2 = B(0) /\ x % 4 = (x % 2) + 2 * B(1)
      /\ x % 8 = (x % 4) + 4 * B(2) /\ x % 16 = (x % 8) + 8 * B(3)
      /\ x % 32 = (x % 16) + 16 * B(4) /\ x % 64 = (x % 32) + 32 * B(5)
      /\ x % 128 = (x % 64) + 64 * B(6) /\ x % 256 = (x % 128) + 128 * B(7)
      /\ x % 512 = (x % 256) + 256 * B(8) /\ x % 1024 = (x % 512) + 512 * B(9)
      /\ x % 2048 = (x % 1024) + 1024 * B(10) /\ x % 4096 = (x % 2048) + 2048 * B(11)
  BY <1>4, RestGrows
<1> HIDE DEF B
<1>6. x % 256 = B(0) + 2 * B(1) + 4 * B(2) + 8 * B(3) + 16 * B(4) + 32 * B(5) + 64 * B(6) + 128 * B(7)
  BY <1>4, <1>5
<1>7. x % 4096 = B(0) + 2 * B(1) + 4 * B(2) + 8 * B(3) + 16 * B(4) + 32 * B(5) + 64 * B(6) + 128 * B(7)
                   + 256 * B(8) + 512 * B(9) + 1024 * B(10) + 2048 * B(11)
  BY <1>4, <1>5, <1>6
<1>8. Number(bs(8)) = x % 256
  <2>1. /\ b(8)[1] = B(0) /\ b(8)[2] = B(1) /\ b(8)[3] = B(2) /\ b(8)[4] = B(3)
        /\ b(8)[5] = B(4) /\ b(8)[6] = B(5) /\ b(8)[7] = B(6) /\ b(8)[8] = B(7)
    BY <1>2 DEF B
  <2>2. b(8)[9] = 0 /\ b(8)[10] = 0 /\ b(8)[11] = 0 /\ b(8)[12] = 0
    BY <1>2
  <2> HIDE DEF bs
  <2>3. QED
    BY <1>3, <1>4, <1>6, <2>1, <2>2 DEF Weighted
<1>9. Number(bs(12)) = x % 4096
  <2>1. /\ b(12)[1] = B(0) /\ b(12)[2] = B(1) /\ b(12)[3] = B(2) /\ b(12)[4] = B(3)
        /\ b(12)[5] = B(4) /\ b(12)[6] = B(5) /\ b(12)[7] = B(6) /\ b(12)[8] = B(7)
    BY <1>2 DEF B
  <2>2. b(12)[9] = B(8) /\ b(12)[10] = B(9) /\ b(12)[11] = B(10) /\ b(12)[12] = B(11)
    BY <1>2 DEF B
  <2> HIDE DEF bs
  <2>3. QED
    BY <1>3, <1>7, <2>1, <2>2 DEF Weighted
<1>10. QED
  BY <1>8, <1>9 DEF LowBits

(* The bits of the number that bits make.                                    *)
Six(b) ==
  /\ b \in [1..12 -> 0..1]
  /\ b[7] = 0 /\ b[8] = 0 /\ b[9] = 0 /\ b[10] = 0 /\ b[11] = 0 /\ b[12] = 0

LEMMA SixAdded ==
  ASSUME NEW b, Six(b)
  PROVE  Weighted(b) = b[1] + 2 * b[2] + 4 * b[3] + 8 * b[4] + 16 * b[5] + 32 * b[6]
<1>1. /\ b[1] \in 0..1 /\ b[2] \in 0..1 /\ b[3] \in 0..1 /\ b[4] \in 0..1
      /\ b[5] \in 0..1 /\ b[6] \in 0..1
  BY DEF Six
<1>2. b[7] = 0 /\ b[8] = 0 /\ b[9] = 0 /\ b[10] = 0 /\ b[11] = 0 /\ b[12] = 0
  BY DEF Six
<1>3. PICK low \in Int : low = b[1] + 2 * b[2] + 4 * b[3] + 8 * b[4] + 16 * b[5] + 32 * b[6]
  BY <1>1
<1>4. Weighted(b) = low + 64 * b[7] + 128 * b[8] + 256 * b[9] + 512 * b[10]
                        + 1024 * b[11] + 2048 * b[12]
  BY <1>3 DEF Weighted
<1>5. Weighted(b) = low
  BY <1>2, <1>4
<1>6. QED
  BY <1>3, <1>5

LEMMA SixBits ==
  ASSUME NEW b, Six(b)
  PROVE  /\ Bit(Weighted(b), 0) = b[1] /\ Bit(Weighted(b), 1) = b[2]
         /\ Bit(Weighted(b), 2) = b[3] /\ Bit(Weighted(b), 3) = b[4]
         /\ Bit(Weighted(b), 4) = b[5] /\ Bit(Weighted(b), 5) = b[6]
<1>1. PICK b1 \in 0..1, b2 \in 0..1, b3 \in 0..1, b4 \in 0..1, b5 \in 0..1, b6 \in 0..1 :
        b1 = b[1] /\ b2 = b[2] /\ b3 = b[3] /\ b4 = b[4] /\ b5 = b[5] /\ b6 = b[6]
  <2>1. /\ b[1] \in 0..1 /\ b[2] \in 0..1 /\ b[3] \in 0..1 /\ b[4] \in 0..1
        /\ b[5] \in 0..1 /\ b[6] \in 0..1
    BY DEF Six
  <2>2. QED
    BY <2>1, Zenon
<1>2. PICK x \in Int : x = b1 + 2 * b2 + 4 * b3 + 8 * b4 + 16 * b5 + 32 * b6
  OBVIOUS
<1>3. Powers
  BY PowersOfTwo
<1>4. Bit(x, 0) = b1
  BY <1>3, <1>2 DEF Bit, Powers
<1>5. Bit(x, 1) = b2
  <2>1. x \div 2 = b2 + 2 * b3 + 4 * b4 + 8 * b5 + 16 * b6
    BY <1>2
  <2>2. QED
    BY <1>3, <2>1 DEF Bit, Powers
<1>6. Bit(x, 2) = b3
  <2>1. x \div 4 = b3 + 2 * b4 + 4 * b5 + 8 * b6
    BY <1>2
  <2>2. QED
    BY <1>3, <2>1 DEF Bit, Powers
<1>7. Bit(x, 3) = b4
  <2>1. x \div 8 = b4 + 2 * b5 + 4 * b6
    BY <1>2
  <2>2. QED
    BY <1>3, <2>1 DEF Bit, Powers
<1>8. Bit(x, 4) = b5
  <2>1. x \div 16 = b5 + 2 * b6
    BY <1>2
  <2>2. QED
    BY <1>3, <2>1 DEF Bit, Powers
<1>9. Bit(x, 5) = b6
  <2>1. x \div 32 = b6
    BY <1>2
  <2>2. QED
    BY <1>3, <2>1 DEF Bit, Powers
<1>10. Weighted(b) = x
  BY <1>1, <1>2, SixAdded
<1>11. QED
  BY <1>1, <1>4, <1>5, <1>6, <1>7, <1>8, <1>9, <1>10, Zenon

(* The number of values that N bits can have.                                *)
Values(N) == CASE N = 1 -> 2 [] N = 2 -> 4 [] N = 3 -> 8 [] N = 4 -> 16 [] N = 5 -> 32
               [] N = 6 -> 64

LEMMA BitsOfNumber ==
  ASSUME NEW N \in 1..6, NEW bs \in [1..N -> {0, 1}]
  PROVE  /\ Number(bs) \in 0..Values(N) - 1
         /\ \A k \in 1..N : Bit(Number(bs), k - 1) = bs[k]
<1>1. PICK b : b = Padded(bs, N)
  OBVIOUS
<1>2. \A k \in 1..12 : b[k] = IF k <= N THEN bs[k] ELSE 0
  BY <1>1 DEF Padded
<1>3. Six(b)
  <2>1. b = [k \in 1..12 |-> IF k <= N THEN bs[k] ELSE 0]
    BY <1>1 DEF Padded
  <2>2. \A k \in 1..N : bs[k] \in 0..1
    OBVIOUS
  <2>3. b \in [1..12 -> 0..1]
    BY <2>1, <2>2
  <2>4. b[7] = 0 /\ b[8] = 0 /\ b[9] = 0 /\ b[10] = 0 /\ b[11] = 0 /\ b[12] = 0
    BY <1>2
  <2>5. QED
    BY <2>3, <2>4 DEF Six
<1>4. PICK x : x = Number(bs)
  OBVIOUS
<1>5. x = Weighted(b)
  <2>1. N \in 0..12
    OBVIOUS
  <2>2. QED
    BY <1>1, <1>4, <2>1, NumberAddsBits
<1>6. x = b[1] + 2 * b[2] + 4 * b[3] + 8 * b[4] + 16 * b[5] + 32 * b[6]
  BY <1>3, <1>5, SixAdded
<1>7. /\ Bit(x, 0) = b[1] /\ Bit(x, 1) = b[2] /\ Bit(x, 2) = b[3]
      /\ Bit(x, 3) = b[4] /\ Bit(x, 4) = b[5] /\ Bit(x, 5) = b[6]
  BY <1>3, <1>5, SixBits
<1>8. ASSUME NEW k \in 1..N PROVE Bit(x, k - 1) = bs[k]
  <2>1. b[k] = bs[k]
    BY <1>2
  <2>2. CASE k = 1
    BY <1>7, <2>1, <2>2
  <2>3. CASE k = 2
    BY <1>7, <2>1, <2>3
  <2>4. CASE k = 3
    BY <1>7, <2>1, <2>4
  <2>5. CASE k = 4
    BY <1>7, <2>1, <2>5
  <2>6. CASE k = 5
    BY <1>7, <2>1, <2>6
  <2>7. CASE k = 6
    BY <1>7, <2>1, <2>7
  <2>8. QED
    BY <2>2, <2>3, <2>4, <2>5, <2>6, <2>7
<1>9. x \in 0..Values(N) - 1
  <2>1. /\ N < 2 => b[2] = 0
        /\ N < 3 => b[3] = 0
        /\ N < 4 => b[4] = 0
        /\ N < 5 => b[5] = 0
        /\ N < 6 => b[6] = 0
    BY <1>2
  <2>2. /\ b[1] \in 0..1 /\ b[2] \in 0..1 /\ b[3] \in 0..1 /\ b[4] \in 0..1
        /\ b[5] \in 0..1 /\ b[6] \in 0..1
    BY <1>3 DEF Six
  <2>3. CASE N = 1
    BY <1>6, <2>1, <2>2, <2>3 DEF Values
  <2>4. CASE N = 2
    BY <1>6, <2>1, <2>2, <2>4 DEF Values
  <2>5. CASE N = 3
    BY <1>6, <2>1, <2>2, <2>5 DEF Values
  <2>6. CASE N = 4
    BY <1>6, <2>1, <2>2, <2>6 DEF Values
  <2>7. CASE N = 5
    BY <1>6, <2>1, <2>2, <2>7 DEF Values
  <2>8. CASE N = 6
    BY <1>6, <2>2, <2>8 DEF Values
  <2>9. QED
    BY <2>3, <2>4, <2>5, <2>6, <2>7, <2>8
<1>10. QED
  BY <1>4, <1>8, <1>9

-----------------------------------------------------------------------------
(* Subcarriers *)

LEMMA Parameters ==
  ASSUME NEW c \in Encoding
  PROVE  /\ ofdm_param[c].n_bpsc = CASE c \in {0, 1} -> 1 [] c \in {2, 3} -> 2
                                       [] c \in {4, 5} -> 4 [] c \in {6, 7} -> 6
         /\ ofdm_param[c].n_cbps = 48 * ofdm_param[c].n_bpsc
         /\ ofdm_param[c].n_dbps = CASE c = 0 -> 24 [] c = 1 -> 36 [] c = 2 -> 48 [] c = 3 -> 72
                                       [] c = 4 -> 96 [] c = 5 -> 144 [] c = 6 -> 192 [] c = 7 -> 216
<1>1. CASE c = 0
  <2>1. /\ ofdm_param[c].n_bpsc = 1 /\ ofdm_param[c].n_cbps = 48
        /\ ofdm_param[c].n_dbps = 24
    BY <1>1 DEF Encoding, ofdm_param
  <2>2. QED
    BY <1>1, <2>1
<1>2. CASE c = 1
  <2>1. /\ ofdm_param[c].n_bpsc = 1 /\ ofdm_param[c].n_cbps = 48
        /\ ofdm_param[c].n_dbps = 36
    BY <1>2 DEF Encoding, ofdm_param
  <2>2. QED
    BY <1>2, <2>1
<1>3. CASE c = 2
  <2>1. /\ ofdm_param[c].n_bpsc = 2 /\ ofdm_param[c].n_cbps = 96
        /\ ofdm_param[c].n_dbps = 48
    BY <1>3 DEF Encoding, ofdm_param
  <2>2. QED
    BY <1>3, <2>1
<1>4. CASE c = 3
  <2>1. /\ ofdm_param[c].n_bpsc = 2 /\ ofdm_param[c].n_cbps = 96
        /\ ofdm_param[c].n_dbps = 72
    BY <1>4 DEF Encoding, ofdm_param
  <2>2. QED
    BY <1>4, <2>1
<1>5. CASE c = 4
  <2>1. /\ ofdm_param[c].n_bpsc = 4 /\ ofdm_param[c].n_cbps = 192
        /\ ofdm_param[c].n_dbps = 96
    BY <1>5 DEF Encoding, ofdm_param
  <2>2. QED
    BY <1>5, <2>1
<1>6. CASE c = 5
  <2>1. /\ ofdm_param[c].n_bpsc = 4 /\ ofdm_param[c].n_cbps = 192
        /\ ofdm_param[c].n_dbps = 144
    BY <1>6 DEF Encoding, ofdm_param
  <2>2. QED
    BY <1>6, <2>1
<1>7. CASE c = 6
  <2>1. /\ ofdm_param[c].n_bpsc = 6 /\ ofdm_param[c].n_cbps = 288
        /\ ofdm_param[c].n_dbps = 192
    BY <1>7 DEF Encoding, ofdm_param
  <2>2. QED
    BY <1>7, <2>1
<1>8. CASE c = 7
  <2>1. /\ ofdm_param[c].n_bpsc = 6 /\ ofdm_param[c].n_cbps = 288
        /\ ofdm_param[c].n_dbps = 216
    BY <1>8 DEF Encoding, ofdm_param
  <2>2. QED
    BY <1>8, <2>1
<1>9. QED
  BY <1>1, <1>2, <1>3, <1>4, <1>5, <1>6, <1>7, <1>8 DEF Encoding

LEMMA BitsPerSubcarrier ==
  ASSUME NEW c \in Encoding
  PROVE  ofdm_param[c].n_bpsc \in {1, 2, 4, 6}
BY Parameters DEF Encoding

(* Blocks of nb elements.                                                    *)
InBlocks(nb, M) ==
  \A k \in 1..M * nb : \E i \in 1..M, b \in 1..nb :
    (k - 1) \div nb + 1 = i /\ (k - 1) % nb = b - 1 /\ (i - 1) * nb + b = k

LEMMA Blocks ==
  ASSUME NEW nb \in {1, 2, 4, 6}, NEW M \in Nat
  PROVE  InBlocks(nb, M)
<1>1. ASSUME NEW k \in 1..M * nb
      PROVE  /\ (k - 1) \div nb + 1 \in 1..M
             /\ ((k - 1) % nb) + 1 \in 1..nb
             /\ ((k - 1) \div nb) * nb + ((k - 1) % nb) + 1 = k
             /\ (k - 1) % nb \in Int /\ (k - 1) \div nb \in Int
  <2>1. CASE nb = 1
    BY <2>1
  <2>2. CASE nb = 2
    BY <2>2
  <2>3. CASE nb = 4
    BY <2>3
  <2>4. CASE nb = 6
    BY <2>4
  <2>5. QED
    BY <2>1, <2>2, <2>3, <2>4
<1>2. ASSUME NEW k \in 1..M * nb
      PROVE  \E i \in 1..M, b \in 1..nb :
               (k - 1) \div nb + 1 = i /\ (k - 1) % nb = b - 1 /\ (i - 1) * nb + b = k
  <2>1. PICK q \in Int, r \in Int : q = (k - 1) \div nb /\ r = (k - 1) % nb
    BY <1>1
  <2>2. q + 1 \in 1..M /\ r + 1 \in 1..nb /\ q * nb + r + 1 = k
    BY <1>1, <2>1
  <2>3. (q + 1 - 1) * nb + (r + 1) = k /\ r = (r + 1) - 1
    BY <2>1, <2>2
  <2>4. QED
    BY <2>1, <2>2, <2>3
<1>3. QED
  BY <1>2 DEF InBlocks

LEMMA BlocksBack ==
  ASSUME NEW nb \in {1, 2, 4, 6}, NEW M \in Nat
  PROVE  /\ (M * nb) \div nb = M
         /\ \A i \in 1..M, b \in 1..nb : (i - 1) * nb + b \in 1..M * nb
<1>1. CASE nb = 1
  BY <1>1
<1>2. CASE nb = 2
  BY <1>2
<1>3. CASE nb = 4
  BY <1>3
<1>4. CASE nb = 6
  BY <1>4
<1>5. QED
  BY <1>1, <1>2, <1>3, <1>4

CarrierBits(x, c, nb, M) == nb = ofdm_param[c].n_bpsc /\ x \in [1..M * nb -> {0, 1}]

LEMMA SplitAndUnpacked ==
  ASSUME NEW c \in Encoding, NEW M \in Nat, NEW nb, NEW x, CarrierBits(x, c, nb, M)
  PROVE  /\ split_symbols(x, c) \in [1..M -> 0..Values(nb) - 1]
         /\ unpack(split_symbols(x, c), c) = x
<1>1. nb = ofdm_param[c].n_bpsc /\ x \in [1..M * nb -> {0, 1}]
  BY DEF CarrierBits
<1>2. nb \in {1, 2, 4, 6} /\ M * nb \in Nat
  BY <1>1, BitsPerSubcarrier
<1>3. Len(x) = M * nb
  BY <1>1, <1>2, AsSequence
<1> DEFINE bs(i) == [b \in 1..nb |-> x[(i - 1) * nb + b]]
           v == [i \in 1..M |-> Number(bs(i))]
<1>4. split_symbols(x, c) = v
  <2>1. Len(x) \div nb = M
    BY <1>2, <1>3, BlocksBack
  <2>2. QED
    BY <1>1, <2>1, Zenon DEF split_symbols
<1>5. ASSUME NEW i \in 1..M
      PROVE  /\ v[i] \in 0..Values(nb) - 1
             /\ \A b \in 1..nb : Bit(v[i], b - 1) = x[(i - 1) * nb + b]
  <2>1. bs(i) \in [1..nb -> {0, 1}]
    <3>1. ASSUME NEW b \in 1..nb PROVE x[(i - 1) * nb + b] \in {0, 1}
      <4>1. (i - 1) * nb + b \in 1..M * nb
        BY <1>2, BlocksBack
      <4>2. QED
        BY <1>1, <4>1, Zenon
    <3>2. QED
      BY <3>1, Zenon
  <2>2. nb \in 1..6
    BY <1>2
  <2>3. \A b \in 1..nb : bs(i)[b] = x[(i - 1) * nb + b]
    OBVIOUS
  <2>4. v[i] = Number(bs(i))
    OBVIOUS
  <2> HIDE DEF bs, v
  <2>5. /\ Number(bs(i)) \in 0..Values(nb) - 1
        /\ \A b \in 1..nb : Bit(Number(bs(i)), b - 1) = bs(i)[b]
    BY <2>1, <2>2, BitsOfNumber
  <2>6. QED
    BY <2>3, <2>4, <2>5
<1>6. v \in [1..M -> 0..Values(nb) - 1]
  BY <1>5
<1> HIDE DEF v
<1>7. Len(v) = M
  BY <1>6, AsSequence
<1>8. unpack(v, c) = [k \in 1..M * nb |-> Bit(v[(k - 1) \div nb + 1], (k - 1) % nb)]
  BY <1>1, <1>7, Zenon DEF unpack
<1>9. ASSUME NEW k \in 1..M * nb
      PROVE  Bit(v[(k - 1) \div nb + 1], (k - 1) % nb) = x[k]
  <2>1. PICK i \in 1..M, b \in 1..nb :
          (k - 1) \div nb + 1 = i /\ (k - 1) % nb = b - 1 /\ (i - 1) * nb + b = k
    <3>1. InBlocks(nb, M)
      BY <1>2, Blocks
    <3>2. QED
      BY <3>1 DEF InBlocks
  <2>2. Bit(v[i], b - 1) = x[(i - 1) * nb + b]
    BY <1>5
  <2>3. QED
    BY <2>1, <2>2
<1>10. unpack(v, c) = x
  BY <1>1, <1>8, <1>9
<1>11. QED
  BY <1>4, <1>6, <1>10

(* The decision on a coordinate that the noise moves by less than half the   *)
(* distance to the next one.                                                 *)
LEMMA AxisDecided ==
  ASSUME NEW d \in -1..1
  PROVE  /\ \A u \in 0..1 : Decide(Axis(1)[u + 1] + d, 1) = u
         /\ \A u \in 0..3 : Decide(Axis(2)[u + 1] + d, 2) = u
         /\ \A u \in 0..7 : Decide(Axis(3)[u + 1] + d, 3) = u
<1>1. Axis(1) = <<-2, 2>> /\ Axis(2) = <<-6, 6, -2, 2>>
      /\ Axis(3) = <<-14, 14, -2, 2, -10, 10, -6, 6>>
  BY DEF Axis
<1>2. ASSUME NEW u \in 0..1 PROVE Decide(Axis(1)[u + 1] + d, 1) = u
  <2>1. CASE u = 0
    <3>1. Axis(1)[u + 1] = -2
      BY <1>1, <2>1
    <3>2. Decide(-2 + d, 1) = 0
      BY DEF Decide, Flag, Magnitude
    <3>3. QED
      BY <2>1, <3>1, <3>2
  <2>2. CASE u = 1
    <3>1. Axis(1)[u + 1] = 2
      BY <1>1, <2>2
    <3>2. Decide(2 + d, 1) = 1
      BY DEF Decide, Flag, Magnitude
    <3>3. QED
      BY <2>2, <3>1, <3>2
  <2>3. QED
    BY <2>1, <2>2
<1>3. ASSUME NEW u \in 0..3 PROVE Decide(Axis(2)[u + 1] + d, 2) = u
  <2>1. CASE u = 0
    <3>1. Axis(2)[u + 1] = -6
      BY <1>1, <2>1
    <3>2. Decide(-6 + d, 2) = 0
      BY DEF Decide, Flag, Magnitude
    <3>3. QED
      BY <2>1, <3>1, <3>2
  <2>2. CASE u = 1
    <3>1. Axis(2)[u + 1] = 6
      BY <1>1, <2>2
    <3>2. Decide(6 + d, 2) = 1
      BY DEF Decide, Flag, Magnitude
    <3>3. QED
      BY <2>2, <3>1, <3>2
  <2>3. CASE u = 2
    <3>1. Axis(2)[u + 1] = -2
      BY <1>1, <2>3
    <3>2. Decide(-2 + d, 2) = 2
      BY DEF Decide, Flag, Magnitude
    <3>3. QED
      BY <2>3, <3>1, <3>2
  <2>4. CASE u = 3
    <3>1. Axis(2)[u + 1] = 2
      BY <1>1, <2>4
    <3>2. Decide(2 + d, 2) = 3
      BY DEF Decide, Flag, Magnitude
    <3>3. QED
      BY <2>4, <3>1, <3>2
  <2>5. QED
    BY <2>1, <2>2, <2>3, <2>4
<1>4. ASSUME NEW u \in 0..7 PROVE Decide(Axis(3)[u + 1] + d, 3) = u
  <2>1. CASE u = 0
    <3>1. Axis(3)[u + 1] = -14
      BY <1>1, <2>1
    <3>2. Decide(-14 + d, 3) = 0
      BY DEF Decide, Flag, Magnitude
    <3>3. QED
      BY <2>1, <3>1, <3>2
  <2>2. CASE u = 1
    <3>1. Axis(3)[u + 1] = 14
      BY <1>1, <2>2
    <3>2. Decide(14 + d, 3) = 1
      BY DEF Decide, Flag, Magnitude
    <3>3. QED
      BY <2>2, <3>1, <3>2
  <2>3. CASE u = 2
    <3>1. Axis(3)[u + 1] = -2
      BY <1>1, <2>3
    <3>2. Decide(-2 + d, 3) = 2
      BY DEF Decide, Flag, Magnitude
    <3>3. QED
      BY <2>3, <3>1, <3>2
  <2>4. CASE u = 3
    <3>1. Axis(3)[u + 1] = 2
      BY <1>1, <2>4
    <3>2. Decide(2 + d, 3) = 3
      BY DEF Decide, Flag, Magnitude
    <3>3. QED
      BY <2>4, <3>1, <3>2
  <2>5. CASE u = 4
    <3>1. Axis(3)[u + 1] = -10
      BY <1>1, <2>5
    <3>2. Decide(-10 + d, 3) = 4
      BY DEF Decide, Flag, Magnitude
    <3>3. QED
      BY <2>5, <3>1, <3>2
  <2>6. CASE u = 5
    <3>1. Axis(3)[u + 1] = 10
      BY <1>1, <2>6
    <3>2. Decide(10 + d, 3) = 5
      BY DEF Decide, Flag, Magnitude
    <3>3. QED
      BY <2>6, <3>1, <3>2
  <2>7. CASE u = 6
    <3>1. Axis(3)[u + 1] = -6
      BY <1>1, <2>7
    <3>2. Decide(-6 + d, 3) = 6
      BY DEF Decide, Flag, Magnitude
    <3>3. QED
      BY <2>7, <3>1, <3>2
  <2>8. CASE u = 7
    <3>1. Axis(3)[u + 1] = 6
      BY <1>1, <2>8
    <3>2. Decide(6 + d, 3) = 7
      BY DEF Decide, Flag, Magnitude
    <3>3. QED
      BY <2>8, <3>1, <3>2
  <2>9. QED
    BY <2>1, <2>2, <2>3, <2>4, <2>5, <2>6, <2>7, <2>8
<1>5. QED
  BY <1>2, <1>3, <1>4

Moved(point, dx, dy) == <<point[1] + dx, point[2] + dy>>

LEMMA PointDecided ==
  ASSUME NEW c \in Encoding, NEW v \in 0..Values(ofdm_param[c].n_bpsc) - 1,
         NEW dx \in -1..1, NEW dy \in -1..1
  PROVE  decision_maker(Moved(map_to_points(v, c), dx, dy), c) = v
<1> DEFINE nb == ofdm_param[c].n_bpsc
<1>1. nb \in {1, 2, 4, 6}
  BY BitsPerSubcarrier
<1>2. AxisBits(c) = CASE nb = 1 -> 1 [] nb = 2 -> 1 [] nb = 4 -> 2 [] nb = 6 -> 3
  BY <1>1 DEF AxisBits
<1>3. Powers
  BY PowersOfTwo
<1> HIDE DEF nb
<1>4. CASE nb = 1
  <2>1. v \in 0..1 /\ AxisBits(c) = 1 /\ 2^1 = 2 /\ v % 2 = v
    BY <1>2, <1>3, <1>4 DEF Powers, Values, nb
  <2>2. map_to_points(v, c) = <<Axis(1)[v + 1], 0>>
    BY <1>4, <2>1 DEF map_to_points, nb
  <2>3. decision_maker(Moved(map_to_points(v, c), dx, dy), c) = Decide(Axis(1)[v + 1] + dx, 1)
    <3>1. Decide(Axis(1)[v + 1] + dx, 1) = v
      BY <2>1, AxisDecided
    <3>2. QED
      BY <1>4, <2>1, <2>2, <3>1 DEF decision_maker, Moved, nb
  <2>4. QED
    BY <2>1, <2>3, AxisDecided
<1>5. CASE nb = 2
  <2>1. /\ v \in 0..3 /\ AxisBits(c) = 1 /\ 2^1 = 2 /\ v % 2 \in 0..1 /\ v \div 2 \in 0..1
        /\ (v % 2) + 2 * (v \div 2) = v
    <3>1. v \in 0..3
      BY <1>5 DEF Values, nb
    <3>2. AxisBits(c) = 1
      BY <1>2, <1>5
    <3>3. 2^1 = 2
      BY <1>3 DEF Powers
    <3>4. v % 2 \in 0..1 /\ v \div 2 \in 0..1 /\ (v % 2) + 2 * (v \div 2) = v
      BY <3>1
    <3>5. QED
      BY <3>1, <3>2, <3>3, <3>4
  <2>2. map_to_points(v, c) = <<Axis(1)[(v % 2) + 1], Axis(1)[v \div 2 + 1]>>
    BY <1>5, <2>1 DEF map_to_points, nb
  <2>3. /\ Decide(Axis(1)[(v % 2) + 1] + dx, 1) = v % 2
        /\ Decide(Axis(1)[v \div 2 + 1] + dy, 1) = v \div 2
    BY <2>1, AxisDecided
  <2>4. PICK x : x = Axis(1)[(v % 2) + 1] + dx
    OBVIOUS
  <2>5. PICK z : z = Axis(1)[v \div 2 + 1] + dy
    OBVIOUS
  <2>6. Moved(map_to_points(v, c), dx, dy) = <<x, z>>
    BY <2>2, <2>4, <2>5 DEF Moved
  <2>7. decision_maker(<<x, z>>, c) = Decide(x, 1) + 2 * Decide(z, 1)
    BY <1>5, <2>1 DEF decision_maker, nb
  <2>8. Decide(x, 1) = v % 2 /\ Decide(z, 1) = v \div 2
    BY <2>3, <2>4, <2>5
  <2>9. QED
    BY <2>1, <2>6, <2>7, <2>8
<1>6. CASE nb = 4
  <2>1. /\ v \in 0..15 /\ AxisBits(c) = 2 /\ 2^2 = 4 /\ v % 4 \in 0..3 /\ v \div 4 \in 0..3
        /\ (v % 4) + 4 * (v \div 4) = v
    <3>1. v \in 0..15
      BY <1>6 DEF Values, nb
    <3>2. AxisBits(c) = 2
      BY <1>2, <1>6
    <3>3. 2^2 = 4
      BY <1>3 DEF Powers
    <3>4. v % 4 \in 0..3 /\ v \div 4 \in 0..3 /\ (v % 4) + 4 * (v \div 4) = v
      BY <3>1
    <3>5. QED
      BY <3>1, <3>2, <3>3, <3>4
  <2>2. map_to_points(v, c) = <<Axis(2)[(v % 4) + 1], Axis(2)[v \div 4 + 1]>>
    BY <1>6, <2>1 DEF map_to_points, nb
  <2>3. /\ Decide(Axis(2)[(v % 4) + 1] + dx, 2) = v % 4
        /\ Decide(Axis(2)[v \div 4 + 1] + dy, 2) = v \div 4
    BY <2>1, AxisDecided
  <2>4. PICK x : x = Axis(2)[(v % 4) + 1] + dx
    OBVIOUS
  <2>5. PICK z : z = Axis(2)[v \div 4 + 1] + dy
    OBVIOUS
  <2>6. Moved(map_to_points(v, c), dx, dy) = <<x, z>>
    BY <2>2, <2>4, <2>5 DEF Moved
  <2>7. decision_maker(<<x, z>>, c) = Decide(x, 2) + 4 * Decide(z, 2)
    BY <1>6, <2>1 DEF decision_maker, nb
  <2>8. Decide(x, 2) = v % 4 /\ Decide(z, 2) = v \div 4
    BY <2>3, <2>4, <2>5
  <2>9. QED
    BY <2>1, <2>6, <2>7, <2>8
<1>7. CASE nb = 6
  <2>1. /\ v \in 0..63 /\ AxisBits(c) = 3 /\ 2^3 = 8 /\ v % 8 \in 0..7 /\ v \div 8 \in 0..7
        /\ (v % 8) + 8 * (v \div 8) = v
    <3>1. v \in 0..63
      BY <1>7 DEF Values, nb
    <3>2. AxisBits(c) = 3
      BY <1>2, <1>7
    <3>3. 2^3 = 8
      BY <1>3 DEF Powers
    <3>4. v % 8 \in 0..7 /\ v \div 8 \in 0..7 /\ (v % 8) + 8 * (v \div 8) = v
      BY <3>1
    <3>5. QED
      BY <3>1, <3>2, <3>3, <3>4
  <2>2. map_to_points(v, c) = <<Axis(3)[(v % 8) + 1], Axis(3)[v \div 8 + 1]>>
    BY <1>7, <2>1 DEF map_to_points, nb
  <2>3. /\ Decide(Axis(3)[(v % 8) + 1] + dx, 3) = v % 8
        /\ Decide(Axis(3)[v \div 8 + 1] + dy, 3) = v \div 8
    BY <2>1, AxisDecided
  <2>4. PICK x : x = Axis(3)[(v % 8) + 1] + dx
    OBVIOUS
  <2>5. PICK z : z = Axis(3)[v \div 8 + 1] + dy
    OBVIOUS
  <2>6. Moved(map_to_points(v, c), dx, dy) = <<x, z>>
    BY <2>2, <2>4, <2>5 DEF Moved
  <2>7. decision_maker(<<x, z>>, c) = Decide(x, 3) + 8 * Decide(z, 3)
    BY <1>7, <2>1 DEF decision_maker, nb
  <2>8. Decide(x, 3) = v % 8 /\ Decide(z, 3) = v \div 8
    BY <2>3, <2>4, <2>5
  <2>9. QED
    BY <2>1, <2>6, <2>7, <2>8
<1>8. QED
  BY <1>1, <1>4, <1>5, <1>6, <1>7

-----------------------------------------------------------------------------
(* Interleaver *)

(* Bit k of a symbol: its block of a sixteenth of the symbol, the group in    *)
(* the block and the place in the group.                                     *)
LEMMA Position48 ==
  ASSUME NEW c \in {0, 1}, NEW q \in 0..15, NEW r \in 0..2
  PROVE  Position(c, 3 * q + r) = 16 * r + q
<1>1. ofdm_param[c].n_cbps = 48 /\ ofdm_param[c].n_bpsc = 1
  BY Parameters DEF Encoding
<1>2. PICK k \in Nat : k = 3 * q + r
  OBVIOUS
<1>3. 1 * (k \div 1) + ((k + ((16 * k) \div 48)) % 1) = k
  <2>1. PICK t \in Int : t = k + ((16 * k) \div 48)
    OBVIOUS
  <2>2. t % 1 = 0 /\ k \div 1 = k
    OBVIOUS
  <2>3. QED
    BY <2>1, <2>2
<1>4. Position(c, k) = 16 * k - 47 * ((16 * k) \div 48)
  <2>1. ~(ofdm_param[c].n_bpsc \div 2 > 1)
    BY <1>1
  <2>2. QED
    BY <1>1, <1>3, <2>1 DEF Position
<1>5. (16 * k) \div 48 = q
  BY <1>2
<1>6. QED
  BY <1>2, <1>4, <1>5

LEMMA Position96 ==
  ASSUME NEW c \in {2, 3}, NEW q \in 0..15, NEW r \in 0..5
  PROVE  Position(c, 6 * q + r) = 16 * r + q
<1>1. ofdm_param[c].n_cbps = 96 /\ ofdm_param[c].n_bpsc = 2
  BY Parameters DEF Encoding
<1>2. PICK k \in Nat : k = 6 * q + r
  OBVIOUS
<1>3. 1 * (k \div 1) + ((k + ((16 * k) \div 96)) % 1) = k
  <2>1. PICK t \in Int : t = k + ((16 * k) \div 96)
    OBVIOUS
  <2>2. t % 1 = 0 /\ k \div 1 = k
    OBVIOUS
  <2>3. QED
    BY <2>1, <2>2
<1>4. Position(c, k) = 16 * k - 95 * ((16 * k) \div 96)
  <2>1. ~(ofdm_param[c].n_bpsc \div 2 > 1)
    BY <1>1
  <2>2. QED
    BY <1>1, <1>3, <2>1 DEF Position
<1>5. (16 * k) \div 96 = q
  BY <1>2
<1>6. QED
  BY <1>2, <1>4, <1>5

LEMMA Position192 ==
  ASSUME NEW c \in {4, 5}, NEW q \in 0..15, NEW a \in 0..5, NEW b \in 0..1
  PROVE  Position(c, 12 * q + 2 * a + b) = 16 * (2 * a + ((b + q) % 2)) + q
<1>1. ofdm_param[c].n_cbps = 192 /\ ofdm_param[c].n_bpsc = 4
  BY Parameters DEF Encoding
<1>2. PICK k \in Nat : k = 12 * q + 2 * a + b
  OBVIOUS
<1>3. PICK j \in Int : j = 2 * (k \div 2) + ((k + ((16 * k) \div 192)) % 2)
  OBVIOUS
<1>4. Position(c, k) = 16 * j - 191 * ((16 * j) \div 192)
  <2>1. ofdm_param[c].n_bpsc \div 2 = 2
    BY <1>1
  <2>2. QED
    BY <1>1, <1>3, <2>1 DEF Position
<1>5. PICK t \in 0..1 : t = (b + q) % 2
  OBVIOUS
<1>6. j = 12 * q + 2 * a + t
  <2>1. (16 * k) \div 192 = q
    BY <1>2
  <2>2. k \div 2 = 6 * q + a
    BY <1>2
  <2>3. (k + q) % 2 = t
    BY <1>2, <1>5
  <2>4. QED
    BY <1>3, <2>1, <2>2, <2>3
<1>7. (16 * j) \div 192 = q
  BY <1>6
<1>8. QED
  BY <1>2, <1>4, <1>5, <1>6, <1>7

LEMMA Position288 ==
  ASSUME NEW c \in {6, 7}, NEW q \in 0..15, NEW a \in 0..5, NEW b \in 0..2
  PROVE  Position(c, 18 * q + 3 * a + b) = 16 * (3 * a + ((b + q) % 3)) + q
<1>1. ofdm_param[c].n_cbps = 288 /\ ofdm_param[c].n_bpsc = 6
  BY Parameters DEF Encoding
<1>2. PICK k \in Nat : k = 18 * q + 3 * a + b
  OBVIOUS
<1>3. PICK j \in Int : j = 3 * (k \div 3) + ((k + ((16 * k) \div 288)) % 3)
  OBVIOUS
<1>4. Position(c, k) = 16 * j - 287 * ((16 * j) \div 288)
  <2>1. ofdm_param[c].n_bpsc \div 2 = 3
    BY <1>1
  <2>2. QED
    BY <1>1, <1>3, <2>1 DEF Position
<1>5. PICK t \in 0..2 : t = (b + q) % 3
  OBVIOUS
<1>6. j = 18 * q + 3 * a + t
  <2>1. (16 * k) \div 288 = q
    BY <1>2
  <2>2. k \div 3 = 6 * q + a
    BY <1>2
  <2>3. (k + q) % 3 = t
    BY <1>2, <1>5
  <2>4. QED
    BY <1>3, <2>1, <2>2, <2>3
<1>7. (16 * j) \div 288 = q
  BY <1>6
<1>8. QED
  BY <1>2, <1>4, <1>5, <1>6, <1>7

(* The interleaver permutes the bits of a symbol.                            *)
Within(c, last) == \A k \in 0..last : Position(c, k) \in 0..last
Onto(c, last) == \A p \in 0..last : \E k \in 0..last : Position(c, k) = p

LEMMA PositionPermutes ==
  ASSUME NEW c \in Encoding
  PROVE  Within(c, ofdm_param[c].n_cbps - 1) /\ Onto(c, ofdm_param[c].n_cbps - 1)
<1>1. CASE c \in {0, 1}
  <2>1. ofdm_param[c].n_cbps - 1 = 47
    BY <1>1, Parameters
  <2>2. ASSUME NEW k \in 0..47 PROVE Position(c, k) \in 0..47
    <3>1. PICK q \in 0..15, r \in 0..2 : k = 3 * q + r
      <4>1. k \div 3 \in 0..15 /\ k % 3 \in 0..2 /\ k = 3 * (k \div 3) + (k % 3)
        OBVIOUS
      <4>2. QED
        BY <4>1
    <3>2. Position(c, 3 * q + r) = 16 * r + q
      BY <1>1, Position48
    <3>3. QED
      BY <3>1, <3>2
  <2>3. ASSUME NEW p \in 0..47 PROVE \E k \in 0..47 : Position(c, k) = p
    <3>1. PICK q \in 0..15, r \in 0..2 : p = 16 * r + q
      <4>1. p \div 16 \in 0..2 /\ p % 16 \in 0..15 /\ p = 16 * (p \div 16) + (p % 16)
        OBVIOUS
      <4>2. QED
        BY <4>1
    <3>2. Position(c, 3 * q + r) = 16 * r + q
      BY <1>1, Position48
    <3>3. 3 * q + r \in 0..47
      OBVIOUS
    <3>4. QED
      BY <3>1, <3>2, <3>3
  <2>4. Within(c, 47)
    BY <2>2, Zenon DEF Within
  <2>5. Onto(c, 47)
    BY <2>3, Zenon DEF Onto
  <2>6. QED
    BY <2>1, <2>4, <2>5
<1>2. CASE c \in {2, 3}
  <2>1. ofdm_param[c].n_cbps - 1 = 95
    BY <1>2, Parameters
  <2>2. ASSUME NEW k \in 0..95 PROVE Position(c, k) \in 0..95
    <3>1. PICK q \in 0..15, r \in 0..5 : k = 6 * q + r
      <4>1. k \div 6 \in 0..15 /\ k % 6 \in 0..5 /\ k = 6 * (k \div 6) + (k % 6)
        OBVIOUS
      <4>2. QED
        BY <4>1
    <3>2. Position(c, 6 * q + r) = 16 * r + q
      BY <1>2, Position96
    <3>3. QED
      BY <3>1, <3>2
  <2>3. ASSUME NEW p \in 0..95 PROVE \E k \in 0..95 : Position(c, k) = p
    <3>1. PICK q \in 0..15, r \in 0..5 : p = 16 * r + q
      <4>1. p \div 16 \in 0..5 /\ p % 16 \in 0..15 /\ p = 16 * (p \div 16) + (p % 16)
        OBVIOUS
      <4>2. QED
        BY <4>1
    <3>2. Position(c, 6 * q + r) = 16 * r + q
      BY <1>2, Position96
    <3>3. 6 * q + r \in 0..95
      OBVIOUS
    <3>4. QED
      BY <3>1, <3>2, <3>3
  <2>4. Within(c, 95)
    BY <2>2, Zenon DEF Within
  <2>5. Onto(c, 95)
    BY <2>3, Zenon DEF Onto
  <2>6. QED
    BY <2>1, <2>4, <2>5
<1>3. CASE c \in {4, 5}
  <2>1. ofdm_param[c].n_cbps - 1 = 191
    BY <1>3, Parameters
  <2>2. ASSUME NEW k \in 0..191 PROVE Position(c, k) \in 0..191
    <3>1. PICK q \in 0..15, r \in 0..11 : k = 12 * q + r
      <4>1. k \div 12 \in 0..15 /\ k % 12 \in 0..11 /\ k = 12 * (k \div 12) + (k % 12)
        OBVIOUS
      <4>2. QED
        BY <4>1
    <3>2. PICK a \in 0..5, b \in 0..1 : r = 2 * a + b
      <4>1. r \div 2 \in 0..5 /\ r % 2 \in 0..1 /\ r = 2 * (r \div 2) + (r % 2)
        OBVIOUS
      <4>2. QED
        BY <4>1
    <3>3. Position(c, 12 * q + 2 * a + b) = 16 * (2 * a + ((b + q) % 2)) + q
      BY <1>3, Position192
    <3>4. 12 * q + 2 * a + b = k
      BY <3>1, <3>2
    <3>5. PICK t \in 0..1 : t = (b + q) % 2
      OBVIOUS
    <3>6. QED
      BY <3>3, <3>4, <3>5
  <2>3. ASSUME NEW p \in 0..191 PROVE \E k \in 0..191 : Position(c, k) = p
    <3>1. PICK q \in 0..15, r \in 0..11 : p = 16 * r + q
      <4>1. p \div 16 \in 0..11 /\ p % 16 \in 0..15 /\ p = 16 * (p \div 16) + (p % 16)
        OBVIOUS
      <4>2. QED
        BY <4>1
    <3>2. PICK a \in 0..5, t \in 0..1 : r = 2 * a + t
      <4>1. r \div 2 \in 0..5 /\ r % 2 \in 0..1 /\ r = 2 * (r \div 2) + (r % 2)
        OBVIOUS
      <4>2. QED
        BY <4>1
    <3>3. PICK b \in 0..1 : t = (b + q) % 2
      <4>1. PICK b \in 0..1 : b = (t + 1 * q) % 2
        OBVIOUS
      <4>2. (b + q) % 2 = t
        BY <4>1
      <4>3. QED
        BY <4>2
    <3>4. Position(c, 12 * q + 2 * a + b) = 16 * (2 * a + ((b + q) % 2)) + q
      BY <1>3, Position192
    <3>5. Position(c, 12 * q + 2 * a + b) = p
      BY <3>1, <3>2, <3>3, <3>4
    <3>6. 12 * q + 2 * a + b \in 0..191
      OBVIOUS
    <3>7. QED
      BY <3>5, <3>6
  <2>4. Within(c, 191)
    BY <2>2, Zenon DEF Within
  <2>5. Onto(c, 191)
    BY <2>3, Zenon DEF Onto
  <2>6. QED
    BY <2>1, <2>4, <2>5
<1>4. CASE c \in {6, 7}
  <2>1. ofdm_param[c].n_cbps - 1 = 287
    BY <1>4, Parameters
  <2>2. ASSUME NEW k \in 0..287 PROVE Position(c, k) \in 0..287
    <3>1. PICK q \in 0..15, r \in 0..17 : k = 18 * q + r
      <4>1. k \div 18 \in 0..15 /\ k % 18 \in 0..17 /\ k = 18 * (k \div 18) + (k % 18)
        OBVIOUS
      <4>2. QED
        BY <4>1
    <3>2. PICK a \in 0..5, b \in 0..2 : r = 3 * a + b
      <4>1. r \div 3 \in 0..5 /\ r % 3 \in 0..2 /\ r = 3 * (r \div 3) + (r % 3)
        OBVIOUS
      <4>2. QED
        BY <4>1
    <3>3. Position(c, 18 * q + 3 * a + b) = 16 * (3 * a + ((b + q) % 3)) + q
      BY <1>4, Position288
    <3>4. 18 * q + 3 * a + b = k
      BY <3>1, <3>2
    <3>5. PICK t \in 0..2 : t = (b + q) % 3
      OBVIOUS
    <3>6. QED
      BY <3>3, <3>4, <3>5
  <2>3. ASSUME NEW p \in 0..287 PROVE \E k \in 0..287 : Position(c, k) = p
    <3>1. PICK q \in 0..15, r \in 0..17 : p = 16 * r + q
      <4>1. p \div 16 \in 0..17 /\ p % 16 \in 0..15 /\ p = 16 * (p \div 16) + (p % 16)
        OBVIOUS
      <4>2. QED
        BY <4>1
    <3>2. PICK a \in 0..5, t \in 0..2 : r = 3 * a + t
      <4>1. r \div 3 \in 0..5 /\ r % 3 \in 0..2 /\ r = 3 * (r \div 3) + (r % 3)
        OBVIOUS
      <4>2. QED
        BY <4>1
    <3>3. PICK b \in 0..2 : t = (b + q) % 3
      <4>1. PICK b \in 0..2 : b = (t + 2 * q) % 3
        OBVIOUS
      <4>2. (b + q) % 3 = t
        BY <4>1
      <4>3. QED
        BY <4>2
    <3>4. Position(c, 18 * q + 3 * a + b) = 16 * (3 * a + ((b + q) % 3)) + q
      BY <1>4, Position288
    <3>5. Position(c, 18 * q + 3 * a + b) = p
      BY <3>1, <3>2, <3>3, <3>4
    <3>6. 18 * q + 3 * a + b \in 0..287
      OBVIOUS
    <3>7. QED
      BY <3>5, <3>6
  <2>4. Within(c, 287)
    BY <2>2, Zenon DEF Within
  <2>5. Onto(c, 287)
    BY <2>3, Zenon DEF Onto
  <2>6. QED
    BY <2>1, <2>4, <2>5
<1>5. QED
  BY <1>1, <1>2, <1>3, <1>4 DEF Encoding

(* Symbols one behind the other.                                             *)
InSymbols(n_cbps, M) ==
  \A k \in 1..M * n_cbps : \E i \in 0..M - 1, r \in 0..n_cbps - 1 :
    (k - 1) \div n_cbps = i /\ (k - 1) % n_cbps = r /\ n_cbps * i + r + 1 = k

FromSymbols(n_cbps, M) ==
  \A i \in 0..M - 1, r \in 0..n_cbps - 1 : \E k \in 1..M * n_cbps :
    n_cbps * i + r + 1 = k /\ (k - 1) \div n_cbps = i /\ (k - 1) % n_cbps = r

LEMMA Symbols ==
  ASSUME NEW n_cbps \in {48, 96, 192, 288}, NEW M \in Nat
  PROVE  InSymbols(n_cbps, M) /\ FromSymbols(n_cbps, M)
<1>1. ASSUME NEW k \in 1..M * n_cbps
      PROVE  \E i \in 0..M - 1, r \in 0..n_cbps - 1 :
               (k - 1) \div n_cbps = i /\ (k - 1) % n_cbps = r /\ n_cbps * i + r + 1 = k
  <2>1. PICK i \in Int, r \in Int : i = (k - 1) \div n_cbps /\ r = (k - 1) % n_cbps
    OBVIOUS
  <2>2. i \in 0..M - 1 /\ r \in 0..n_cbps - 1 /\ n_cbps * i + r + 1 = k
    <3>1. CASE n_cbps = 48
      BY <2>1, <3>1
    <3>2. CASE n_cbps = 96
      BY <2>1, <3>2
    <3>3. CASE n_cbps = 192
      BY <2>1, <3>3
    <3>4. CASE n_cbps = 288
      BY <2>1, <3>4
    <3>5. QED
      BY <3>1, <3>2, <3>3, <3>4
  <2>3. QED
    BY <2>1, <2>2
<1>2. ASSUME NEW i \in 0..M - 1, NEW r \in 0..n_cbps - 1
      PROVE  \E k \in 1..M * n_cbps :
               n_cbps * i + r + 1 = k /\ (k - 1) \div n_cbps = i /\ (k - 1) % n_cbps = r
  <2>1. PICK k \in Int : k = n_cbps * i + r + 1
    OBVIOUS
  <2>2. k \in 1..M * n_cbps /\ (k - 1) \div n_cbps = i /\ (k - 1) % n_cbps = r
    <3>1. CASE n_cbps = 48
      BY <2>1, <3>1
    <3>2. CASE n_cbps = 96
      BY <2>1, <3>2
    <3>3. CASE n_cbps = 192
      BY <2>1, <3>3
    <3>4. CASE n_cbps = 288
      BY <2>1, <3>4
    <3>5. QED
      BY <3>1, <3>2, <3>3, <3>4
  <2>3. QED
    BY <2>1, <2>2
<1>3. QED
  BY <1>1, <1>2 DEF InSymbols, FromSymbols

LEMMA SymbolWidth ==
  ASSUME NEW c \in Encoding
  PROVE  ofdm_param[c].n_cbps \in {48, 96, 192, 288}
BY Parameters DEF Encoding

(* The inverse of the permutation that deinterleave makes for a symbol.     *)
Sources(c, n_cbps) ==
  LET from(p) == {k \in 0..n_cbps - 1 : Position(c, k) = p}
  IN [p \in 0..n_cbps - 1 |-> IF from(p) = {} THEN -1 ELSE CHOOSE k \in from(p) : TRUE]

IsInverse(c, n_cbps, source) ==
  \A p \in 0..n_cbps - 1 : \E k \in 0..n_cbps - 1 : source[p] = k /\ Position(c, k) = p

LEMMA SourcesInverse ==
  ASSUME NEW c \in Encoding
  PROVE  IsInverse(c, ofdm_param[c].n_cbps, Sources(c, ofdm_param[c].n_cbps))
<1> DEFINE n_cbps == ofdm_param[c].n_cbps
<1>1. Onto(c, n_cbps - 1)
  BY PositionPermutes
<1> HIDE DEF n_cbps
<1>2. ASSUME NEW p \in 0..n_cbps - 1
      PROVE  \E k \in 0..n_cbps - 1 : Sources(c, n_cbps)[p] = k /\ Position(c, k) = p
  <2> DEFINE from == {k \in 0..n_cbps - 1 : Position(c, k) = p}
  <2>1. \E k \in 0..n_cbps - 1 : Position(c, k) = p
    BY <1>1, Zenon DEF Onto
  <2>2. from # {}
    BY <2>1, Zenon
  <2>3. Sources(c, n_cbps)[p] = CHOOSE k \in from : TRUE
    BY <2>2, Zenon DEF Sources
  <2>4. Sources(c, n_cbps)[p] \in from
    BY <2>2, <2>3, Zenon
  <2>5. QED
    BY <2>4, Zenon
<1>3. IsInverse(c, n_cbps, Sources(c, n_cbps))
  BY <1>2, Zenon DEF IsInverse
<1>4. QED
  BY <1>3 DEF n_cbps

(* Both functions on one bit, r counted within symbol i.                     *)
Interleaving(c, n_cbps, M, in, out) ==
  \A i \in 0..M - 1, r \in 0..n_cbps - 1 :
    \E p \in 0..n_cbps - 1, k \in 1..M * n_cbps, l \in 1..M * n_cbps :
      /\ p = Position(c, r) /\ k = n_cbps * i + r + 1 /\ l = n_cbps * i + p + 1
      /\ out[k] = in[l]

LEMMA Interleaved ==
  ASSUME NEW c \in Encoding, NEW M \in Nat, NEW S,
         NEW x \in [1..M * ofdm_param[c].n_cbps -> S]
  PROVE  /\ interleave(x, c) \in [1..M * ofdm_param[c].n_cbps -> S]
         /\ Interleaving(c, ofdm_param[c].n_cbps, M, x, interleave(x, c))
<1> DEFINE n_cbps == ofdm_param[c].n_cbps
<1>1. n_cbps \in {48, 96, 192, 288}
  BY SymbolWidth
<1>2. InSymbols(n_cbps, M) /\ FromSymbols(n_cbps, M)
  BY <1>1, Symbols
<1>3. Within(c, n_cbps - 1)
  BY PositionPermutes
<1>4. \A k : InFrame(c, k) = n_cbps * (k \div n_cbps) + Position(c, k % n_cbps)
  BY Zenon DEF InFrame
<1> HIDE DEF n_cbps
<1>5. x \in [1..M * n_cbps -> S]
  BY DEF n_cbps
<1> DEFINE out == interleave(x, c)
<1>6. out = [k \in 1..M * n_cbps |-> x[InFrame(c, k - 1) + 1]]
  <2>1. DOMAIN x = 1..M * n_cbps
    BY <1>5
  <2>2. QED
    BY <2>1, Zenon DEF interleave
<1> HIDE DEF out
<1>7. ASSUME NEW i \in 0..M - 1, NEW r \in 0..n_cbps - 1
      PROVE  \E p \in 0..n_cbps - 1, k \in 1..M * n_cbps, l \in 1..M * n_cbps :
               /\ p = Position(c, r) /\ k = n_cbps * i + r + 1 /\ l = n_cbps * i + p + 1
               /\ out[k] = x[l]
  <2>1. PICK k \in 1..M * n_cbps :
          n_cbps * i + r + 1 = k /\ (k - 1) \div n_cbps = i /\ (k - 1) % n_cbps = r
    BY <1>2, Zenon DEF FromSymbols
  <2>2. Position(c, r) \in 0..n_cbps - 1
    BY <1>3, Zenon DEF Within
  <2>3. PICK p \in 0..n_cbps - 1 : p = Position(c, r)
    BY <2>2, Zenon
  <2>4. PICK l \in 1..M * n_cbps : n_cbps * i + p + 1 = l
    BY <1>2, Zenon DEF FromSymbols
  <2>5. InFrame(c, k - 1) = n_cbps * i + p
    BY <1>4, <2>1, <2>3, Zenon
  <2>6. out[k] = x[n_cbps * i + p + 1]
    BY <1>6, <2>5, Zenon
  <2>7. QED
    BY <2>1, <2>3, <2>4, <2>6, Zenon
<1>8. Interleaving(c, n_cbps, M, x, out)
  BY <1>7, Zenon DEF Interleaving
<1>9. ASSUME NEW k \in 1..M * n_cbps PROVE out[k] \in S
  <2>1. PICK i \in 0..M - 1, r \in 0..n_cbps - 1 : n_cbps * i + r + 1 = k
    BY <1>2, Zenon DEF InSymbols
  <2>2. PICK l \in 1..M * n_cbps : out[k] = x[l]
    <3>1. PICK p \in 0..n_cbps - 1, m \in 1..M * n_cbps, l \in 1..M * n_cbps :
            /\ p = Position(c, r) /\ m = n_cbps * i + r + 1 /\ l = n_cbps * i + p + 1
            /\ out[m] = x[l]
      BY <1>8, Zenon DEF Interleaving
    <3>2. out[k] = x[l]
      BY <2>1, <3>1, Zenon
    <3>3. QED
      BY <3>2, Zenon
  <2>3. QED
    BY <2>2, <1>5, Zenon
<1>10. out \in [1..M * n_cbps -> S]
  BY <1>6, <1>9, Zenon
<1>11. QED
  BY <1>8, <1>10 DEF n_cbps, out

LEMMA Deinterleaved ==
  ASSUME NEW c \in Encoding, NEW M \in Nat, NEW S,
         NEW x \in [1..M * ofdm_param[c].n_cbps -> S]
  PROVE  deinterleave(interleave(x, c), c) = x
<1> DEFINE n_cbps == ofdm_param[c].n_cbps
           w1 == interleave(x, c)
           source == Sources(c, n_cbps)
           back == deinterleave(w1, c)
<1>1. n_cbps \in {48, 96, 192, 288}
  BY SymbolWidth
<1>2. InSymbols(n_cbps, M)
  BY <1>1, Symbols
<1>3. w1 \in [1..M * n_cbps -> S] /\ Interleaving(c, n_cbps, M, x, w1)
  BY Interleaved
<1>4. IsInverse(c, n_cbps, source)
  BY SourcesInverse
<1>5. x \in [1..M * n_cbps -> S]
  OBVIOUS
<1>6. back = [k \in DOMAIN w1 |->
                IF source[(k - 1) % n_cbps] = -1 THEN 3
                ELSE w1[n_cbps * ((k - 1) \div n_cbps) + source[(k - 1) % n_cbps] + 1]]
  BY Zenon DEF deinterleave, Sources
<1> HIDE DEF n_cbps, w1, source, back
<1>7. back = [k \in 1..M * n_cbps |->
                IF source[(k - 1) % n_cbps] = -1 THEN 3
                ELSE w1[n_cbps * ((k - 1) \div n_cbps) + source[(k - 1) % n_cbps] + 1]]
  <2>1. DOMAIN w1 = 1..M * n_cbps
    BY <1>3
  <2>2. QED
    BY <1>6, <2>1, Zenon
<1>8. ASSUME NEW k \in 1..M * n_cbps PROVE back[k] = x[k]
  <2>1. PICK i \in 0..M - 1, r \in 0..n_cbps - 1 :
          (k - 1) \div n_cbps = i /\ (k - 1) % n_cbps = r /\ n_cbps * i + r + 1 = k
    BY <1>2, Zenon DEF InSymbols
  <2>2. PICK s \in 0..n_cbps - 1 : source[r] = s /\ Position(c, s) = r
    BY <1>4, Zenon DEF IsInverse
  <2>3. s # -1
    BY <1>1
  <2>4. back[k] = w1[n_cbps * i + s + 1]
    BY <1>7, <2>1, <2>2, <2>3, Zenon
  <2>5. w1[n_cbps * i + s + 1] = x[n_cbps * i + r + 1]
    <3>1. Interleaving(c, n_cbps, M, x, w1)
      BY <1>3
    <3>2. PICK p \in 0..n_cbps - 1, m \in 1..M * n_cbps, l \in 1..M * n_cbps :
            /\ p = Position(c, s) /\ m = n_cbps * i + s + 1 /\ l = n_cbps * i + p + 1
            /\ w1[m] = x[l]
      BY <3>1, Zenon DEF Interleaving
    <3>3. QED
      BY <2>2, <3>2, Zenon
  <2>6. QED
    BY <2>1, <2>4, <2>5, Zenon
<1>9. back = x
  BY <1>5, <1>7, <1>8, Zenon
<1>10. QED
  BY <1>9 DEF back, w1

-----------------------------------------------------------------------------
(* Descrambler *)

(* The bits that descramble works on.                                        *)
LEMMA BehindSeven ==
  ASSUME NEW N \in Nat, NEW t \in [1..N -> {0, 1}], NEW M \in Nat, M + 7 <= N
  PROVE  /\ Len(SubSeq(t, 8, M + 7)) = M
         /\ \A j \in 1..M : SubSeq(t, 8, M + 7)[j] = t[j + 7]
<1>1. t \in Seq({0, 1}) /\ Len(t) = N
  BY AsSequence
<1>2. QED
  BY <1>1

LEMMA XorTwice ==
  /\ \A f \in 0..1 : Xor(f, 0) = f
  /\ \A f \in 0..1, b \in {0, 1} : Xor(f, Xor(f, b)) = b
BY DEF Xor

(* Seven zeros show the state of the scrambler behind them.                  *)
ShowsState(t, states) == \A k \in 1..7 : t[k] = Feedback(states[k - 1])

FoundState(t) == Number([k \in 1..7 |-> t[8 - k]])

Seven(b) ==
  /\ b[1] \in 0..1 /\ b[2] \in 0..1 /\ b[3] \in 0..1 /\ b[4] \in 0..1
  /\ b[5] \in 0..1 /\ b[6] \in 0..1 /\ b[7] \in 0..1
  /\ b[8] = 0 /\ b[9] = 0 /\ b[10] = 0 /\ b[11] = 0 /\ b[12] = 0

LEMMA SevenAdded ==
  ASSUME NEW b, Seven(b)
  PROVE  Weighted(b) = b[1] + 2 * b[2] + 4 * b[3] + 8 * b[4] + 16 * b[5] + 32 * b[6]
                         + 64 * b[7]
<1>1. /\ b[1] \in 0..1 /\ b[2] \in 0..1 /\ b[3] \in 0..1 /\ b[4] \in 0..1
      /\ b[5] \in 0..1 /\ b[6] \in 0..1 /\ b[7] \in 0..1
  BY DEF Seven
<1>2. b[8] = 0 /\ b[9] = 0 /\ b[10] = 0 /\ b[11] = 0 /\ b[12] = 0
  BY DEF Seven
<1>3. PICK low \in Int : low = b[1] + 2 * b[2] + 4 * b[3] + 8 * b[4] + 16 * b[5] + 32 * b[6]
                                 + 64 * b[7]
  BY <1>1
<1>4. Weighted(b) = low + 128 * b[8] + 256 * b[9] + 512 * b[10] + 1024 * b[11]
                      + 2048 * b[12]
  BY <1>3 DEF Weighted
<1>5. Weighted(b) = low
  BY <1>2, <1>4
<1>6. QED
  BY <1>3, <1>5

LEMMA StateFound ==
  ASSUME NEW N \in Nat, N >= 7, NEW s0, NEW states, ScramblerStates(states, N, s0),
         NEW t \in [1..N -> {0, 1}], ShowsState(t, states)
  PROVE  FoundState(t) = states[7]
<1> DEFINE bs == [k \in 1..7 |-> t[8 - k]]
<1>1. bs \in [1..7 -> {0, 1}]
  OBVIOUS
<1>2. Number(bs) = Weighted(Padded(bs, 7))
  BY <1>1, NumberAddsBits
<1>3. /\ bs[1] = t[7] /\ bs[2] = t[6] /\ bs[3] = t[5] /\ bs[4] = t[4]
      /\ bs[5] = t[3] /\ bs[6] = t[2] /\ bs[7] = t[1]
  OBVIOUS
<1> HIDE DEF bs
<1>4. /\ t[7] = Feedback(states[6]) /\ t[6] = Feedback(states[5]) /\ t[5] = Feedback(states[4])
      /\ t[4] = Feedback(states[3]) /\ t[3] = Feedback(states[2]) /\ t[2] = Feedback(states[1])
      /\ t[1] = Feedback(states[0])
  BY DEF ShowsState
<1>5. Weighted(Padded(bs, 7)) = bs[1] + 2 * bs[2] + 4 * bs[3] + 8 * bs[4] + 16 * bs[5]
                                  + 32 * bs[6] + 64 * bs[7]
  <2>1. Padded(bs, 7) \in [1..12 -> 0..1]
    <3>1. ASSUME NEW k \in 1..12 PROVE (IF k <= 7 THEN bs[k] ELSE 0) \in 0..1
      <4>1. CASE k <= 7
        BY <1>1, <4>1
      <4>2. CASE ~(k <= 7)
        BY <4>2
      <4>3. QED
        BY <4>1, <4>2
    <3>2. QED
      BY <3>1, Zenon DEF Padded
  <2>2. PICK b \in [1..12 -> 0..1] : b = Padded(bs, 7)
    BY <2>1, Zenon
  <2>3. /\ b[1] = bs[1] /\ b[2] = bs[2] /\ b[3] = bs[3] /\ b[4] = bs[4] /\ b[5] = bs[5]
        /\ b[6] = bs[6] /\ b[7] = bs[7] /\ b[8] = 0 /\ b[9] = 0 /\ b[10] = 0 /\ b[11] = 0
        /\ b[12] = 0
    BY <2>2 DEF Padded
  <2>4. Weighted(b) = b[1] + 2 * b[2] + 4 * b[3] + 8 * b[4] + 16 * b[5] + 32 * b[6]
                        + 64 * b[7]
    <3>1. Seven(b)
      BY <2>2, <2>3 DEF Seven
    <3>2. QED
      BY <3>1, SevenAdded
  <2>5. QED
    BY <2>2, <2>3, <2>4, Zenon
<1>6. Number(bs) = states[7]
  BY <1>2, <1>3, <1>4, <1>5, SeventhState
<1>7. QED
  BY <1>6 DEF bs, FoundState

(* Two scramblers in the same state stay so.                                 *)
LEMMA SameStates ==
  ASSUME NEW N \in Nat, NEW M \in Nat, M + 7 <= N, NEW s0, NEW states, NEW later,
         ScramblerStates(states, N, s0), ScramblerStates(later, M, states[7])
  PROVE  \A j \in 0..M : later[j] = states[j + 7]
<1> DEFINE P == {k \in Nat : k <= M => later[k] = states[k + 7]}
<1>1. 0 \in P
  BY DEF ScramblerStates
<1>2. ASSUME NEW k \in Nat, k \in P PROVE k + 1 \in P
  <2>1. SUFFICES ASSUME k + 1 <= M PROVE later[k + 1] = states[k + 1 + 7]
    BY SMT
  <2>2. later[k] = states[k + 7]
    BY <1>2, <2>1
  <2>3. PICK i \in 1..M : i = k + 1 /\ i - 1 = k
    BY <2>1
  <2>4. PICK m \in 1..N : m = k + 8 /\ m - 1 = k + 7
    BY <2>1
  <2>5. later[i] = Shifted(later[i - 1], Feedback(later[i - 1]))
    BY Zenon DEF ScramblerStates
  <2>6. states[m] = Shifted(states[m - 1], Feedback(states[m - 1]))
    BY Zenon DEF ScramblerStates
  <2>7. later[i] = states[m]
    BY <2>2, <2>3, <2>4, <2>5, <2>6, Zenon
  <2>8. k + 1 + 7 = m
    BY <2>4
  <2>9. QED
    BY <2>3, <2>7, <2>8, Zenon
<1> HIDE DEF P
<1>3. \A k \in Nat : k \in P
  BY <1>1, <1>2, AllNaturals, Zenon
<1>4. QED
  BY <1>3 DEF P

Begins(t, g, s0, M) == \A k \in 1..M + 7 : t[k] = scramble(g, s0)[k]

SevenZeros(g) == \A k \in 1..7 : g[k] = 0

WithoutSeven(g, M) == [j \in 1..M |-> g[j + 7]]

(* What descramble is given for a PSDU of L bytes.                           *)
Scrambling(t, g, s0, N, M) ==
  /\ N \in Nat
  /\ M + 7 <= N
  /\ g \in [1..N -> {0, 1}]
  /\ SevenZeros(g)
  /\ s0 \in 0..127
  /\ t \in [1..N -> {0, 1}]
  /\ Begins(t, g, s0, M)

LEMMA Descrambled ==
  ASSUME NEW L \in Nat, NEW M, M = 8 * L + 9, NEW t, NEW g, NEW s0, NEW N,
         Scrambling(t, g, s0, N, M)
  PROVE  descramble(t, L) = WithoutSeven(g, M)
<1>1. /\ M \in Nat /\ N \in Nat /\ M + 7 <= N /\ g \in [1..N -> {0, 1}] /\ SevenZeros(g)
      /\ s0 \in 0..127 /\ t \in [1..N -> {0, 1}] /\ Begins(t, g, s0, M)
  BY DEF Scrambling
<1>2. Len(g) = N
  BY <1>1, AsSequence
<1>3. PICK states : /\ ScramblerStates(states, N, s0)
                    /\ scramble(g, s0) = [i \in 1..N |-> Xor(Feedback(states[i - 1]), g[i])]
  BY <1>1, <1>2, WhitenedIs, Zenon DEF scramble
<1>4. ASSUME NEW i \in 0..N PROVE Feedback(states[i]) \in 0..1
  BY <1>3, FeedbackIn, Zenon DEF ScramblerStates
<1>5. ASSUME NEW k \in 1..M + 7
      PROVE  t[k] = Xor(Feedback(states[k - 1]), g[k]) /\ k - 1 \in 0..N
  <2>1. k \in 1..N /\ k - 1 \in 0..N
    BY <1>1
  <2>2. QED
    BY <1>1, <1>3, <2>1, Zenon DEF Begins
<1>6. ASSUME NEW k \in 1..7 PROVE t[k] = Feedback(states[k - 1])
  <2>1. k \in 1..M + 7 /\ g[k] = 0
    BY <1>1 DEF SevenZeros
  <2>2. QED
    BY <1>4, <1>5, <2>1, XorTwice, Zenon
<1>7. ShowsState(t, states)
  BY <1>6, Zenon DEF ShowsState
<1>8. FoundState(t) = states[7]
  <2>1. N >= 7
    BY <1>1
  <2>2. QED
    BY <1>1, <1>3, <1>7, <2>1, StateFound, Zenon
<1>9. states[7] \in 0..127
  BY <1>1, <1>3 DEF ScramblerStates
<1> DEFINE in == SubSeq(t, 8, M + 7)
<1>10. Len(in) = M /\ \A j \in 1..M : in[j] = t[j + 7]
  BY <1>1, BehindSeven
<1>11. descramble(t, L) = Whitened(in, states[7])
  <2>1. 8 * L + 16 = M + 7
    BY <1>1
  <2>2. QED
    BY <1>8, <2>1, Zenon DEF descramble, FoundState
<1> HIDE DEF in
<1>12. PICK later : /\ ScramblerStates(later, M, states[7])
                    /\ Whitened(in, states[7]) = [i \in 1..M |-> Xor(Feedback(later[i - 1]), in[i])]
  BY <1>1, <1>9, <1>10, WhitenedIs, Zenon
<1>13. \A j \in 0..M : later[j] = states[j + 7]
  BY <1>1, <1>3, <1>12, SameStates
<1>14. ASSUME NEW j \in 1..M PROVE Xor(Feedback(later[j - 1]), in[j]) = g[j + 7]
  <2>1. PICK k \in 1..M + 7 : k = j + 7 /\ k - 1 = j - 1 + 7
    BY <1>1
  <2>2. j - 1 \in 0..M
    BY <1>1
  <2>3. later[j - 1] = states[k - 1]
    BY <1>13, <2>1, <2>2, Zenon
  <2>4. in[j] = Xor(Feedback(states[k - 1]), g[k])
    BY <1>5, <1>10, <2>1, Zenon
  <2>5. g[k] \in {0, 1}
    BY <1>1, <2>1
  <2>6. Feedback(states[k - 1]) \in 0..1
    BY <1>4, <1>5, Zenon
  <2>7. QED
    BY <2>1, <2>3, <2>4, <2>5, <2>6, XorTwice, Zenon
<1>15. [i \in 1..M |-> Xor(Feedback(later[i - 1]), in[i])] = [j \in 1..M |-> g[j + 7]]
  BY <1>14, Zenon
<1>16. QED
  BY <1>11, <1>12, <1>15, Zenon DEF WithoutSeven

-----------------------------------------------------------------------------
(* Frames *)

(* What a frame has room for.                                                *)
Room(fr, L) ==
  /\ fr.n_data_bits \in Nat
  /\ fr.n_data_bits >= 8 * L + 22
  /\ fr.n_data_bits - fr.n_pad - 6 = 8 * L + 16

LEMMA FrameParam ==
  ASSUME NEW c \in Encoding, NEW L \in Nat
  PROVE  /\ frame_param(c, L).n_sym \in Nat
         /\ frame_param(c, L).n_data_bits = frame_param(c, L).n_sym * ofdm_param[c].n_dbps
         /\ Room(frame_param(c, L), L)
<1>1. PICK d \in {24, 36, 48, 72, 96, 144, 192, 216} : d = ofdm_param[c].n_dbps
  <2>1. ofdm_param[c].n_dbps \in {24, 36, 48, 72, 96, 144, 192, 216}
    BY Parameters DEF Encoding
  <2>2. QED
    BY <2>1, ZenonT(30)
<1>2. PICK m : m = NSym(c, L)
  OBVIOUS
<1>3. m = (8 * L + 22 + d - 1) \div d
  BY <1>1, <1>2 DEF NSym, CeilDiv, PayloadBits
<1>4. m \in Nat /\ m * d \in Nat /\ m * d >= 8 * L + 22
  <2>1. CASE d = 24
    BY <1>3, <2>1
  <2>2. CASE d = 36
    BY <1>3, <2>2
  <2>3. CASE d = 48
    BY <1>3, <2>3
  <2>4. CASE d = 72
    BY <1>3, <2>4
  <2>5. CASE d = 96
    BY <1>3, <2>5
  <2>6. CASE d = 144
    BY <1>3, <2>6
  <2>7. CASE d = 192
    BY <1>3, <2>7
  <2>8. CASE d = 216
    BY <1>3, <2>8
  <2>9. QED
    BY <2>1, <2>2, <2>3, <2>4, <2>5, <2>6, <2>7, <2>8
<1>5. /\ frame_param(c, L).n_sym = m
      /\ frame_param(c, L).n_data_bits = m * ofdm_param[c].n_dbps
      /\ frame_param(c, L).n_pad = m * ofdm_param[c].n_dbps - PayloadBits(L)
  BY <1>2 DEF frame_param
<1>6. PayloadBits(L) = 8 * L + 22
  BY DEF PayloadBits
<1>7. Room(frame_param(c, L), L)
  BY <1>1, <1>4, <1>5, <1>6 DEF Room
<1>8. QED
  BY <1>4, <1>5, <1>7

(* generate_bits: the bits of the PSDU between zeros.                        *)
PsduBits(g, p, L) ==
  \A i \in 1..L, b \in 1..8 : g[8 * i + b + 8] = Bit(p[i], b - 1)

LEMMA BytesIn ==
  ASSUME NEW S, NEW p \in Seq(S)
  PROVE  p \in [1..Len(p) -> S] /\ DOMAIN p = 1..Len(p) /\ Len(p) \in Nat
BY LenProperties, Zenon

LEMMA Eighths ==
  ASSUME NEW q \in Int, NEW i \in Int, NEW b \in 0..7, q = 8 * i + b
  PROVE  q \div 8 = i /\ q % 8 = b
OBVIOUS

LEMMA Generated ==
  ASSUME NEW L \in Nat, NEW p \in Seq(0..255), Len(p) = L, NEW fr, Room(fr, L)
  PROVE  /\ generate_bits(p, fr) \in [1..fr.n_data_bits -> {0, 1}]
         /\ \A k \in 1..16 : generate_bits(p, fr)[k] = 0
         /\ \A k \in 8 * L + 17..fr.n_data_bits : generate_bits(p, fr)[k] = 0
         /\ PsduBits(generate_bits(p, fr), p, L)
<1> DEFINE g == generate_bits(p, fr)
<1>1. PICK N \in Nat : N = fr.n_data_bits
  BY Zenon DEF Room
<1>2. N >= 8 * L + 22
  BY <1>1 DEF Room
<1>3. g = [k \in 1..N |-> IF k - 17 \in 0..8 * L - 1
                          THEN Bit(p[(k - 17) \div 8 + 1], (k - 17) % 8) ELSE 0]
  BY <1>1, Zenon DEF generate_bits
<1> HIDE DEF g
<1>4. ASSUME NEW k \in 1..N, k - 17 \in 0..8 * L - 1
      PROVE  g[k] = Bit(p[(k - 17) \div 8 + 1], (k - 17) % 8) /\ g[k] \in {0, 1}
  <2>1. PICK i \in 1..L, b \in 0..7 : i = (k - 17) \div 8 + 1 /\ b = (k - 17) % 8
    <3>1. (k - 17) \div 8 + 1 \in 1..L /\ (k - 17) % 8 \in 0..7
      BY <1>4
    <3>2. QED
      BY <3>1, Zenon
  <2>2. g[k] = Bit(p[i], b)
    BY <1>3, <1>4, <2>1, Zenon
  <2>3. p[i] \in Nat /\ b \in 0..11
    <3>1. p \in [1..L -> 0..255]
      BY BytesIn
    <3>2. p[i] \in 0..255
      BY <3>1
    <3>3. \A z \in 0..255 : z \in Nat
      OBVIOUS
    <3>4. b \in 0..11
      OBVIOUS
    <3>5. QED
      BY <3>2, <3>3, <3>4, Zenon
  <2>4. Bit(p[i], b) \in {0, 1}
    BY <2>3, BitIn, Zenon
  <2>5. QED
    BY <2>1, <2>2, <2>4, Zenon
<1>5. ASSUME NEW k \in 1..N, k - 17 \notin 0..8 * L - 1 PROVE g[k] = 0
  BY <1>3, <1>5, Zenon
<1>6. ASSUME NEW k \in 1..N PROVE g[k] \in {0, 1}
  BY <1>4, <1>5
<1>7. g \in [1..N -> {0, 1}]
  BY <1>3, <1>6, Zenon
<1>8. \A k \in 1..16 : g[k] = 0
  BY <1>2, <1>5
<1>9. \A k \in 8 * L + 17..N : g[k] = 0
  BY <1>5
<1>10. ASSUME NEW i \in 1..L, NEW b \in 1..8 PROVE g[8 * i + b + 8] = Bit(p[i], b - 1)
  <2>1. PICK k \in 1..N : k = 8 * i + b + 8
    BY <1>2
  <2>2. k - 17 \in 0..8 * L - 1 /\ (k - 17) \div 8 + 1 = i /\ (k - 17) % 8 = b - 1
    <3>1. k - 17 = 8 * (i - 1) + (b - 1) /\ i - 1 \in Int /\ b - 1 \in 0..7
      BY <2>1
    <3>2. PICK q \in Int, h \in Int, d \in 0..7 : q = k - 17 /\ h = i - 1 /\ d = b - 1
      BY <3>1
    <3>3. q = 8 * h + d /\ q \in 0..8 * L - 1
      BY <3>1, <3>2
    <3>4. q \div 8 = h /\ q % 8 = d
      BY <3>3
    <3>5. QED
      BY <3>2, <3>3, <3>4
  <2>3. QED
    BY <1>4, <2>1, <2>2, Zenon
<1>11. PsduBits(g, p, L)
  BY <1>10, Zenon DEF PsduBits
<1>12. QED
  BY <1>1, <1>7, <1>8, <1>9, <1>11 DEF g

(* The bytes that decode() makes of the descrambled bits.                    *)
LEMMA ByteFromBits ==
  \A v \in 0..255 : Number(LowBits(v, 8)) = v
<1>1. \A v \in Nat : Number(LowBits(v, 8)) = v % 256
  <2>1. TAKE v \in Nat
  <2>2. QED
    BY NumberOfBits
<1>2. \A v \in 0..255 : v \in Nat /\ v % 256 = v
  OBVIOUS
<1>3. QED
  BY <1>1, <1>2, Zenon

LEMMA BytesPublished ==
  ASSUME NEW L \in Nat, NEW p \in Seq(0..255), Len(p) = L, NEW g, PsduBits(g, p, L)
  PROVE  out_bytes(WithoutSeven(g, 8 * L + 9), L) = p
<1> DEFINE back == [j \in 1..8 * L + 9 |-> g[j + 7]]
<1>1. ASSUME NEW i \in 1..L PROVE Number([b \in 1..8 |-> back[8 * i + b + 1]]) = p[i]
  <2>1. ASSUME NEW b \in 1..8 PROVE back[8 * i + b + 1] = Bit(p[i], b - 1)
    <3>1. PICK j \in 1..8 * L + 9 : j = 8 * i + b + 1 /\ j + 7 = 8 * i + b + 8
      OBVIOUS
    <3>2. back[j] = g[j + 7]
      OBVIOUS
    <3>3. QED
      BY <3>1, <3>2, Zenon DEF PsduBits
  <2>2. [b \in 1..8 |-> back[8 * i + b + 1]] = [b \in 1..8 |-> Bit(p[i], b - 1)]
    BY <2>1, Zenon
  <2>3. p[i] \in 0..255
    <3>1. p \in [1..L -> 0..255]
      BY BytesIn
    <3>2. QED
      BY <3>1
  <2>4. Number([b \in 1..8 |-> Bit(p[i], b - 1)]) = p[i]
    BY <2>3, ByteFromBits, Zenon DEF LowBits
  <2>5. QED
    BY <2>2, <2>4, Zenon
<1> HIDE DEF back
<1>2. out_bytes(back, L) = [i \in 1..L |-> Number([b \in 1..8 |-> back[8 * i + b + 1]])]
  BY Zenon DEF out_bytes
<1>3. out_bytes(back, L) = [i \in 1..L |-> p[i]]
  BY <1>1, <1>2, Zenon
<1>4. p = [i \in 1..L |-> p[i]]
  BY BytesIn
<1>5. QED
  BY <1>3, <1>4 DEF back, WithoutSeven

LEMMA Scrambled ==
  ASSUME NEW N \in Nat, NEW g \in [1..N -> {0, 1}], NEW s0 \in 0..127
  PROVE  scramble(g, s0) \in [1..N -> {0, 1}]
<1>1. Len(g) = N
  BY AsSequence
<1>2. PICK states : /\ ScramblerStates(states, N, s0)
                    /\ scramble(g, s0) = [i \in 1..N |-> Xor(Feedback(states[i - 1]), g[i])]
  BY <1>1, WhitenedIs, Zenon DEF scramble
<1>3. ASSUME NEW i \in 1..N PROVE Xor(Feedback(states[i - 1]), g[i]) \in {0, 1}
  <2>1. i - 1 \in 0..N
    OBVIOUS
  <2>2. Feedback(states[i - 1]) \in 0..1
    BY <1>2, <2>1, FeedbackIn, Zenon DEF ScramblerStates
  <2>3. g[i] \in {0, 1}
    OBVIOUS
  <2>4. \A f \in 0..1, b \in {0, 1} : Xor(f, b) \in {0, 1}
    BY DEF Xor
  <2>5. QED
    BY <2>2, <2>3, <2>4, Zenon
<1>4. QED
  BY <1>2, <1>3, Zenon

(* The tail bits lie behind the PSDU.                                        *)
SameUntil(t, x, K) == \A k \in 1..K : t[k] = x[k]

LEMMA TailReset ==
  ASSUME NEW L \in Nat, NEW fr, Room(fr, L), NEW x \in [1..fr.n_data_bits -> {0, 1}]
  PROVE  /\ reset_tail_bits(x, fr) \in [1..fr.n_data_bits -> {0, 1}]
         /\ SameUntil(reset_tail_bits(x, fr), x, 8 * L + 16)
<1> DEFINE t == reset_tail_bits(x, fr)
<1>1. PICK N \in Nat : N = fr.n_data_bits
  BY Zenon DEF Room
<1>2. N >= 8 * L + 22 /\ fr.n_data_bits - fr.n_pad - 6 = 8 * L + 16
  BY <1>1 DEF Room
<1>3. x \in [1..N -> {0, 1}]
  BY <1>1
<1>4. t = [k \in 1..N |-> IF k - 1 \in 8 * L + 16..8 * L + 16 + 5 THEN 0 ELSE x[k]]
  <2>1. DOMAIN x = 1..N
    BY <1>3
  <2>2. QED
    BY <1>2, <2>1, Zenon DEF reset_tail_bits
<1> HIDE DEF t
<1>5. ASSUME NEW k \in 1..N PROVE t[k] \in {0, 1}
  BY <1>3, <1>4
<1>6. ASSUME NEW k \in 1..8 * L + 16 PROVE t[k] = x[k]
  <2>1. k \in 1..N /\ k - 1 \notin 8 * L + 16..8 * L + 16 + 5
    BY <1>2
  <2>2. QED
    BY <1>4, <2>1, Zenon
<1>7. t \in [1..N -> {0, 1}]
  BY <1>4, <1>5, Zenon
<1>8. QED
  BY <1>1, <1>6, <1>7 DEF t, SameUntil

(* What the receiver makes of the bits that the encoder was given.           *)
LEMMA PsduFound ==
  ASSUME NEW p \in Seq(0..255), NEW s0 \in 0..127, NEW fr, Room(fr, Len(p))
  PROVE  out_bytes(descramble(reset_tail_bits(scramble(generate_bits(p, fr), s0), fr), Len(p)),
                   Len(p)) = p
<1> DEFINE g == generate_bits(p, fr)
           t == reset_tail_bits(scramble(g, s0), fr)
<1>1. PICK L \in Nat : L = Len(p)
  <2>1. Len(p) \in Nat
    BY BytesIn
  <2>2. QED
    BY <2>1, Zenon
<1>2. Room(fr, L)
  BY <1>1, Zenon
<1>3. PICK N \in Nat : N = fr.n_data_bits
  BY <1>2, Zenon DEF Room
<1>4. N >= 8 * L + 22
  BY <1>2, <1>3 DEF Room
<1>5. /\ g \in [1..N -> {0, 1}]
      /\ \A k \in 1..16 : g[k] = 0
      /\ PsduBits(g, p, L)
  BY <1>1, <1>2, <1>3, Generated, ZenonT(30)
<1> HIDE DEF g
<1>6. scramble(g, s0) \in [1..fr.n_data_bits -> {0, 1}]
  BY <1>3, <1>5, Scrambled, Zenon
<1>7. /\ t \in [1..N -> {0, 1}]
      /\ \A k \in 1..8 * L + 16 : t[k] = scramble(g, s0)[k]
  <2>1. PICK ys \in [1..fr.n_data_bits -> {0, 1}] : ys = scramble(g, s0)
    BY <1>6, Zenon
  <2>2. /\ reset_tail_bits(ys, fr) \in [1..fr.n_data_bits -> {0, 1}]
        /\ SameUntil(reset_tail_bits(ys, fr), ys, 8 * L + 16)
    BY <1>2, TailReset
  <2>3. QED
    BY <1>3, <2>1, <2>2, Zenon DEF SameUntil
<1> HIDE DEF t
<1>8. PICK M \in Nat : M = 8 * L + 9
  OBVIOUS
<1>9. Begins(t, g, s0, M)
  <2>1. M + 7 = 8 * L + 16
    BY <1>8
  <2>2. QED
    BY <1>7, <2>1, Zenon DEF Begins
<1>10. M + 7 <= N /\ SevenZeros(g)
  BY <1>4, <1>5, <1>8 DEF SevenZeros
<1>11. descramble(t, L) = WithoutSeven(g, M)
  <2>1. Scrambling(t, g, s0, N, M)
    BY <1>5, <1>7, <1>9, <1>10, Zenon DEF Scrambling
  <2>2. QED
    BY <1>8, <2>1, Descrambled
<1>12. out_bytes(WithoutSeven(g, 8 * L + 9), L) = p
  BY <1>1, <1>5, BytesPublished, Zenon
<1>13. QED
  BY <1>1, <1>8, <1>11, <1>12, Zenon DEF t, g

-----------------------------------------------------------------------------
(* Punctured code *)

(* How many of the first i bits of the encoder are sent.                     *)
SentBefore(c, i) ==
  CASE c \in {0, 2, 4} -> i
    [] c = 6 -> 3 * (i \div 4) + (i % 4)
    [] OTHER -> 4 * (i \div 6) + (IF i % 6 <= 3 THEN i % 6 ELSE 3)

SentSteps(c, i) ==
  /\ SentBefore(c, i) \in Nat
  /\ Sent(c, i) => SentBefore(c, i + 1) = SentBefore(c, i) + 1
  /\ ~Sent(c, i) => SentBefore(c, i + 1) = SentBefore(c, i)

LEMMA SentCounted ==
  ASSUME NEW c \in Encoding
  PROVE  SentBefore(c, 0) = 0 /\ \A i \in Nat : SentSteps(c, i)
<1>1. ASSUME NEW i \in Nat PROVE SentSteps(c, i)
  <2>1. CASE c \in {0, 2, 4}
    BY <2>1 DEF SentSteps, Sent, SentBefore
  <2>2. CASE c = 6
    <3>1. PICK q \in Nat, r \in 0..3 : q = i \div 4 /\ r = i % 4
      <4>1. i \div 4 \in Nat /\ i % 4 \in 0..3
        OBVIOUS
      <4>2. QED
        BY <4>1, Zenon
    <3>2. i = 4 * q + r
      BY <3>1
    <3>3. (i + 1) \div 4 = (IF r = 3 THEN q + 1 ELSE q) /\ (i + 1) % 4 = (IF r = 3 THEN 0 ELSE r + 1)
      BY <3>2
    <3>4. SentBefore(c, i) = 3 * q + r
      BY <2>2, <3>1 DEF SentBefore
    <3>5. SentBefore(c, i + 1) = 3 * ((i + 1) \div 4) + ((i + 1) % 4)
      BY <2>2 DEF SentBefore
    <3>6. Sent(c, i) <=> r # 3
      BY <2>2, <3>1 DEF Sent
    <3>7. QED
      BY <3>3, <3>4, <3>5, <3>6 DEF SentSteps
  <2>3. CASE c \in {1, 3, 5, 7}
    <3>1. PICK q \in Nat, r \in 0..5 : q = i \div 6 /\ r = i % 6
      <4>1. i \div 6 \in Nat /\ i % 6 \in 0..5
        OBVIOUS
      <4>2. QED
        BY <4>1, Zenon
    <3>2. i = 6 * q + r
      BY <3>1
    <3>3. (i + 1) \div 6 = (IF r = 5 THEN q + 1 ELSE q) /\ (i + 1) % 6 = (IF r = 5 THEN 0 ELSE r + 1)
      BY <3>2
    <3>4. SentBefore(c, i) = 4 * q + (IF r <= 3 THEN r ELSE 3)
      BY <2>3, <3>1 DEF SentBefore
    <3>5. SentBefore(c, i + 1)
            = 4 * ((i + 1) \div 6) + (IF (i + 1) % 6 <= 3 THEN (i + 1) % 6 ELSE 3)
      BY <2>3 DEF SentBefore
    <3>6. Sent(c, i) <=> r \notin {3, 4}
      BY <2>3, <3>1 DEF Sent
    <3>7. QED
      BY <3>3, <3>4, <3>5, <3>6 DEF SentSteps
  <2>4. QED
    BY <2>1, <2>2, <2>3 DEF Encoding
<1>2. SentBefore(c, 0) = 0
  <2>1. 0 \div 4 = 0 /\ 0 % 4 = 0 /\ 0 \div 6 = 0 /\ 0 % 6 = 0
    OBVIOUS
  <2>2. QED
    BY <2>1 DEF SentBefore, Encoding
<1>3. QED
  BY <1>1, <1>2

(* What puncturing has made of the first cnt bits.                             *)
PuncturedTo(out, in, c, cnt) ==
  /\ out \in Seq({0, 1})
  /\ Len(out) = SentBefore(c, cnt)
  /\ \A j \in 1..cnt : Sent(c, j - 1) =>
       \E m \in 1..Len(out) : m = SentBefore(c, j - 1) + 1 /\ out[m] = in[j]

LEMMA PuncturedMore ==
  ASSUME NEW c \in Encoding, NEW in, NEW out, NEW cnt \in Nat, PuncturedTo(out, in, c, cnt),
         in[cnt + 1] \in {0, 1}
  PROVE  PuncturedTo(IF Sent(c, cnt) THEN Append(out, in[cnt + 1]) ELSE out, in, c, cnt + 1)
<1>1. SentSteps(c, cnt)
  BY SentCounted
<1>2. out \in Seq({0, 1}) /\ Len(out) \in Nat /\ Len(out) = SentBefore(c, cnt)
  BY LenProperties, Zenon DEF PuncturedTo
<1>3. ASSUME NEW j \in 1..cnt + 1, j # cnt + 1, Sent(c, j - 1)
      PROVE  \E m \in 1..Len(out) : m = SentBefore(c, j - 1) + 1 /\ out[m] = in[j]
  <2>1. j \in 1..cnt
    BY <1>3
  <2>2. QED
    BY <1>3, <2>1, Zenon DEF PuncturedTo
<1>4. CASE Sent(c, cnt)
  <2> DEFINE more == Append(out, in[cnt + 1])
  <2>1. /\ more \in Seq({0, 1})
        /\ Len(more) = Len(out) + 1
        /\ \A m \in 1..Len(out) : more[m] = out[m]
        /\ more[Len(out) + 1] = in[cnt + 1]
    BY <1>2, AppendProperties
  <2> HIDE DEF more
  <2>2. Len(more) = SentBefore(c, cnt + 1)
    BY <1>1, <1>2, <1>4, <2>1 DEF SentSteps
  <2>3. ASSUME NEW j \in 1..cnt + 1, Sent(c, j - 1)
        PROVE  \E m \in 1..Len(more) : m = SentBefore(c, j - 1) + 1 /\ more[m] = in[j]
    <3>1. CASE j = cnt + 1
      <4>1. j - 1 = cnt
        BY <3>1
      <4>2. PICK m : m = Len(out) + 1
        OBVIOUS
      <4>3. m \in 1..Len(more)
        BY <1>2, <2>1, <4>2
      <4>4. m = SentBefore(c, j - 1) + 1
        BY <1>2, <4>1, <4>2, Zenon
      <4>5. more[m] = in[j]
        BY <2>1, <3>1, <4>2, Zenon
      <4>6. QED
        BY <4>3, <4>4, <4>5, Zenon
    <3>2. CASE j # cnt + 1
      <4>1. PICK m \in 1..Len(out) : m = SentBefore(c, j - 1) + 1 /\ out[m] = in[j]
        BY <1>3, <2>3, <3>2, Zenon
      <4>2. m \in 1..Len(more)
        BY <1>2, <2>1
      <4>3. more[m] = in[j]
        BY <2>1, <4>1, Zenon
      <4>4. QED
        BY <4>1, <4>2, <4>3, Zenon
    <3>3. QED
      BY <3>1, <3>2
  <2>4. PuncturedTo(more, in, c, cnt + 1)
    BY <2>1, <2>2, <2>3, Zenon DEF PuncturedTo
  <2>5. QED
    BY <1>4, <2>4 DEF more
<1>5. CASE ~Sent(c, cnt)
  <2>1. Len(out) = SentBefore(c, cnt + 1)
    BY <1>1, <1>2, <1>5 DEF SentSteps
  <2>2. ASSUME NEW j \in 1..cnt + 1, Sent(c, j - 1)
        PROVE  \E m \in 1..Len(out) : m = SentBefore(c, j - 1) + 1 /\ out[m] = in[j]
    <3>1. CASE j = cnt + 1
      <4>1. j - 1 = cnt
        BY <3>1
      <4>2. QED
        BY <1>5, <2>2, <4>1, Zenon
    <3>2. QED
      BY <1>3, <2>2, <3>1, Zenon
  <2>3. PuncturedTo(out, in, c, cnt + 1)
    BY <1>2, <2>1, <2>2, Zenon DEF PuncturedTo
  <2>4. QED
    BY <1>5, <2>3
<1>6. QED
  BY <1>4, <1>5

LEMMA Punctured ==
  ASSUME NEW c \in Encoding, NEW N \in Nat, NEW in \in [1..N -> {0, 1}]
  PROVE  PuncturedTo(puncturing(in, c), in, c, N)
<1> DEFINE S == Seq({0, 1})
           step == [i \in 1..N |-> [out \in S |->
                      IF Sent(c, i - 1) THEN Append(out, in[i]) ELSE out]]
           outs == Passes(S, step, <<>>, N)
<1>1. Len(in) = N
  BY AsSequence
<1>2. puncturing(in, c) = outs[N]
  BY <1>1, Zenon DEF puncturing
<1>3. ASSUME NEW i \in 1..N, NEW out \in S
      PROVE  /\ step[i][out] = IF Sent(c, i - 1) THEN Append(out, in[i]) ELSE out
             /\ step[i][out] \in S
  <2>1. Append(out, in[i]) \in S
    <3>1. in[i] \in {0, 1}
      OBVIOUS
    <3>2. QED
      BY <3>1, AppendProperties, Zenon
  <2>2. QED
    BY <2>1, Zenon
<1> HIDE DEF step
<1>4. Keeps(S, step, N)
  BY <1>3, Zenon DEF Keeps
<1>5. <<>> \in S /\ Len(<<>>) = 0
  OBVIOUS
<1> HIDE DEF S
<1>6. Starts(outs, S, step, N, 0, <<>>)
  BY <1>4, <1>5, PassesInOrder, Zenon
<1> HIDE DEF outs
<1>7. /\ outs \in [0..N -> S] /\ outs[0] = <<>>
      /\ \A i \in 1..N : outs[i] = step[i][outs[i - 1]]
  BY <1>6 DEF Starts, Goes
<1> DEFINE P == {k \in Nat : k <= N => PuncturedTo(outs[k], in, c, k)}
<1>8. 0 \in P
  <2>1. SentBefore(c, 0) = 0
    BY SentCounted
  <2>2. \A j : j \notin 1..0
    OBVIOUS
  <2>3. PuncturedTo(<<>>, in, c, 0)
    BY <1>5, <2>1, <2>2, Zenon DEF PuncturedTo, S
  <2>4. QED
    BY <1>7, <2>3
<1>9. ASSUME NEW k \in Nat, k \in P PROVE k + 1 \in P
  <2>1. SUFFICES ASSUME k + 1 <= N PROVE PuncturedTo(outs[k + 1], in, c, k + 1)
    BY SMT
  <2>2. PuncturedTo(outs[k], in, c, k)
    BY <1>9, <2>1
  <2>3. PICK i \in 1..N : i = k + 1 /\ i - 1 = k
    BY <2>1
  <2>4. PICK out \in S : out = outs[k]
    <3>1. k \in 0..N
      BY <2>1
    <3>2. outs[k] \in S
      BY <1>7, <3>1, Zenon
    <3>3. QED
      BY <3>2, Zenon
  <2>5. outs[i] = IF Sent(c, k) THEN Append(out, in[i]) ELSE out
    <3>1. step[i][out] = IF Sent(c, i - 1) THEN Append(out, in[i]) ELSE out
      BY <1>3, Zenon
    <3>2. outs[i] = step[i][outs[i - 1]]
      BY <1>7, Zenon
    <3>3. outs[i] = step[i][out]
      BY <2>3, <2>4, <3>2, Zenon
    <3>4. QED
      BY <2>3, <3>1, <3>3, Zenon
  <2>6. in[k + 1] \in {0, 1}
    BY <2>3
  <2>7. PuncturedTo(IF Sent(c, k) THEN Append(out, in[k + 1]) ELSE out, in, c, k + 1)
    BY <2>2, <2>4, <2>6, PuncturedMore, Zenon
  <2>8. QED
    BY <2>3, <2>5, <2>7, Zenon
<1> HIDE DEF P
<1>10. \A k \in Nat : k \in P
  BY <1>8, <1>9, AllNaturals, Zenon
<1>11. PuncturedTo(outs[N], in, c, N)
  <2>1. N \in P
    BY <1>10
  <2>2. QED
    BY <2>1 DEF P
<1>12. QED
  BY <1>2, <1>11, Zenon

(* The ones of a pattern of the receiver.                                    *)
Ones(c, cnt) == Cardinality({q \in 1..cnt : d_depuncture_pattern(c)[q] = 1})

LEMMA OnesCounted ==
  ASSUME NEW c \in Encoding
  PROVE  /\ c \in {0, 2, 4} => Ones(c, 0) = 0 /\ Ones(c, 1) = 1 /\ Ones(c, 2) = 2
         /\ c = 6 => /\ Ones(c, 0) = 0 /\ Ones(c, 1) = 1 /\ Ones(c, 2) = 2
                     /\ Ones(c, 3) = 3 /\ Ones(c, 4) = 3
         /\ c \in {1, 3, 5, 7} => /\ Ones(c, 0) = 0 /\ Ones(c, 1) = 1 /\ Ones(c, 2) = 2
                                  /\ Ones(c, 3) = 3 /\ Ones(c, 4) = 3 /\ Ones(c, 5) = 3
                                  /\ Ones(c, 6) = 4
<1>1. /\ Cardinality({}) = 0 /\ Cardinality({1}) = 1 /\ Cardinality({1, 2}) = 2
      /\ Cardinality({1, 2, 3}) = 3 /\ Cardinality({1, 2, 3, 6}) = 4
  <2>1. Cardinality({}) = 0 /\ IsFiniteSet({})
    BY FS_EmptySet
  <2>2. Cardinality({1}) = 1 /\ IsFiniteSet({1})
    BY FS_Singleton
  <2>3. {1} \union {2} = {1, 2} /\ {1, 2} \union {3} = {1, 2, 3}
        /\ {1, 2, 3} \union {6} = {1, 2, 3, 6}
    OBVIOUS
  <2>4. Cardinality({1, 2}) = 2 /\ IsFiniteSet({1, 2})
    <3>1. /\ IsFiniteSet({1} \union {2})
          /\ Cardinality({1} \union {2}) =
               IF 2 \in {1} THEN Cardinality({1}) ELSE Cardinality({1}) + 1
      BY <2>2, <2>3, FS_AddElement, Zenon
    <3>2. QED
      BY <2>2, <2>3, <3>1
  <2>5. Cardinality({1, 2, 3}) = 3 /\ IsFiniteSet({1, 2, 3})
    <3>1. /\ IsFiniteSet({1, 2} \union {3})
          /\ Cardinality({1, 2} \union {3}) =
               IF 3 \in {1, 2} THEN Cardinality({1, 2}) ELSE Cardinality({1, 2}) + 1
      BY <2>3, <2>4, FS_AddElement, Zenon
    <3>2. QED
      BY <2>3, <2>4, <3>1
  <2>6. Cardinality({1, 2, 3, 6}) = 4
    <3>1. Cardinality({1, 2, 3} \union {6}) =
            IF 6 \in {1, 2, 3} THEN Cardinality({1, 2, 3}) ELSE Cardinality({1, 2, 3}) + 1
      BY <2>5, FS_AddElement, Zenon
    <3>2. QED
      BY <2>3, <2>5, <3>1
  <2>7. QED
    BY <2>1, <2>2, <2>4, <2>5, <2>6
<1> DEFINE D(cnt) == {q \in 1..cnt : d_depuncture_pattern(c)[q] = 1}
<1>2. ASSUME c \in {0, 2, 4} PROVE D(0) = {} /\ D(1) = {1} /\ D(2) = {1, 2}
  <2>1. d_depuncture_pattern(c) = <<1, 1>>
    BY <1>2 DEF d_depuncture_pattern
  <2>2. QED
    BY <2>1
<1>3. ASSUME c = 6
      PROVE  D(0) = {} /\ D(1) = {1} /\ D(2) = {1, 2} /\ D(3) = {1, 2, 3} /\ D(4) = {1, 2, 3}
  <2>1. d_depuncture_pattern(c) = <<1, 1, 1, 0>>
    BY <1>3 DEF d_depuncture_pattern
  <2>2. QED
    BY <2>1
<1>4. ASSUME c \in {1, 3, 5, 7}
      PROVE  /\ D(0) = {} /\ D(1) = {1} /\ D(2) = {1, 2} /\ D(3) = {1, 2, 3}
             /\ D(4) = {1, 2, 3} /\ D(5) = {1, 2, 3} /\ D(6) = {1, 2, 3, 6}
  <2>1. d_depuncture_pattern(c) = <<1, 1, 1, 0, 0, 1>>
    BY <1>4 DEF d_depuncture_pattern
  <2>2. QED
    BY <2>1
<1>5. \A cnt : Ones(c, cnt) = Cardinality(D(cnt))
  BY DEF Ones
<1> HIDE DEF D
<1>6. QED
  BY <1>1, <1>2, <1>3, <1>4, <1>5

(* The receiver's pattern has a one where the transmitter sends a bit, and   *)
(* the ones before it tell how many were sent before.                        *)
Rank(c, x) ==
  (x \div Len(d_depuncture_pattern(c))) * Ones(c, Len(d_depuncture_pattern(c)))
    + Ones(c, x % Len(d_depuncture_pattern(c)))

PatternAt(c, x) == d_depuncture_pattern(c)[(x % Len(d_depuncture_pattern(c))) + 1]

LEMMA PatternFits ==
  ASSUME NEW c \in Encoding, NEW x \in Nat
  PROVE  /\ PatternAt(c, x) = 1 <=> Sent(c, x)
         /\ Rank(c, x) = SentBefore(c, x)
<1>1. CASE c \in {0, 2, 4}
  <2>1. d_depuncture_pattern(c) = <<1, 1>> /\ Len(d_depuncture_pattern(c)) = 2
    BY <1>1 DEF d_depuncture_pattern
  <2>2. PICK q \in Nat, r \in 0..1 : q = x \div 2 /\ r = x % 2
    <3>1. x \div 2 \in Nat /\ x % 2 \in 0..1
      OBVIOUS
    <3>2. QED
      BY <3>1, Zenon
  <2>3. x = 2 * q + r
    BY <2>2
  <2>4. Ones(c, 0) = 0 /\ Ones(c, 1) = 1 /\ Ones(c, 2) = 2
    BY <1>1, OnesCounted
  <2>5. Rank(c, x) = q * 2 + Ones(c, r)
    BY <2>1, <2>2, <2>4, Zenon DEF Rank
  <2>6. Rank(c, x) = x
    <3>1. CASE r = 0
      BY <2>3, <2>4, <2>5, <3>1
    <3>2. CASE r = 1
      BY <2>3, <2>4, <2>5, <3>2
    <3>3. QED
      BY <3>1, <3>2
  <2>7. PatternAt(c, x) = 1
    BY <2>1, <2>2 DEF PatternAt
  <2>8. QED
    BY <1>1, <2>6, <2>7 DEF SentBefore, Sent
<1>2. CASE c = 6
  <2>1. d_depuncture_pattern(c) = <<1, 1, 1, 0>> /\ Len(d_depuncture_pattern(c)) = 4
    BY <1>2 DEF d_depuncture_pattern
  <2>2. PICK q \in Nat, r \in 0..3 : q = x \div 4 /\ r = x % 4
    <3>1. x \div 4 \in Nat /\ x % 4 \in 0..3
      OBVIOUS
    <3>2. QED
      BY <3>1, Zenon
  <2>3. Ones(c, 0) = 0 /\ Ones(c, 1) = 1 /\ Ones(c, 2) = 2 /\ Ones(c, 3) = 3 /\ Ones(c, 4) = 3
    BY <1>2, OnesCounted
  <2>4. Rank(c, x) = q * 3 + Ones(c, r)
    BY <2>1, <2>2, <2>3, Zenon DEF Rank
  <2>5. SentBefore(c, x) = 3 * q + r
    BY <1>2, <2>2 DEF SentBefore
  <2>6. Ones(c, r) = r
    <3>1. r = 0 \/ r = 1 \/ r = 2 \/ r = 3
      OBVIOUS
    <3>2. QED
      BY <2>3, <3>1
  <2>7. PatternAt(c, x) = 1 <=> r # 3
    <3>1. PatternAt(c, x) = <<1, 1, 1, 0>>[r + 1]
      BY <2>1, <2>2, Zenon DEF PatternAt
    <3>2. QED
      BY <3>1
  <2>8. QED
    BY <1>2, <2>2, <2>4, <2>5, <2>6, <2>7 DEF Sent
<1>3. CASE c \in {1, 3, 5, 7}
  <2>1. /\ d_depuncture_pattern(c) = <<1, 1, 1, 0, 0, 1>>
        /\ Len(d_depuncture_pattern(c)) = 6
    BY <1>3 DEF d_depuncture_pattern
  <2>2. PICK q \in Nat, r \in 0..5 : q = x \div 6 /\ r = x % 6
    <3>1. x \div 6 \in Nat /\ x % 6 \in 0..5
      OBVIOUS
    <3>2. QED
      BY <3>1, Zenon
  <2>3. /\ Ones(c, 0) = 0 /\ Ones(c, 1) = 1 /\ Ones(c, 2) = 2 /\ Ones(c, 3) = 3
        /\ Ones(c, 4) = 3 /\ Ones(c, 5) = 3 /\ Ones(c, 6) = 4
    BY <1>3, OnesCounted
  <2>4. Rank(c, x) = q * 4 + Ones(c, r)
    BY <2>1, <2>2, <2>3, Zenon DEF Rank
  <2>5. SentBefore(c, x) = 4 * q + (IF r <= 3 THEN r ELSE 3)
    BY <1>3, <2>2 DEF SentBefore
  <2>6. Ones(c, r) = IF r <= 3 THEN r ELSE 3
    <3>1. r = 0 \/ r = 1 \/ r = 2 \/ r = 3 \/ r = 4 \/ r = 5
      OBVIOUS
    <3>2. QED
      BY <2>3, <3>1
  <2>7. PatternAt(c, x) = 1 <=> r \notin {3, 4}
    <3>1. PatternAt(c, x) = <<1, 1, 1, 0, 0, 1>>[r + 1]
      BY <2>1, <2>2, Zenon DEF PatternAt
    <3>2. QED
      BY <3>1
  <2>8. QED
    BY <1>3, <2>2, <2>4, <2>5, <2>6, <2>7 DEF Sent
<1>4. QED
  BY <1>1, <1>2, <1>3 DEF Encoding

(* At least one bit of every pair is sent.                                   *)
LEMMA PairSent ==
  ASSUME NEW c \in Encoding, NEW i \in Nat
  PROVE  Sent(c, 2 * i) \/ Sent(c, 2 * i + 1)
<1>1. CASE c \in {0, 2, 4}
  BY <1>1 DEF Sent
<1>2. CASE c = 6
  <2>1. (2 * i) % 4 # 3
    OBVIOUS
  <2>2. QED
    BY <1>2, <2>1 DEF Sent
<1>3. CASE c \in {1, 3, 5, 7}
  <2>1. (2 * i) % 6 \notin {3, 4} \/ (2 * i + 1) % 6 \notin {3, 4}
    OBVIOUS
  <2>2. QED
    BY <1>3, <2>1 DEF Sent
<1>4. QED
  BY <1>1, <1>2, <1>3 DEF Encoding

(* What is sent of the data bits of m symbols fills them.                    *)
LEMMA SentOfFrame ==
  ASSUME NEW c \in Encoding, NEW m \in Nat
  PROVE  SentBefore(c, 2 * (m * ofdm_param[c].n_dbps)) = m * ofdm_param[c].n_cbps
<1>1. CASE c = 0
  BY <1>1, Parameters DEF SentBefore
<1>2. CASE c = 1
  BY <1>2, Parameters DEF SentBefore
<1>3. CASE c = 2
  BY <1>3, Parameters DEF SentBefore
<1>4. CASE c = 3
  BY <1>4, Parameters DEF SentBefore
<1>5. CASE c = 4
  BY <1>5, Parameters DEF SentBefore
<1>6. CASE c = 5
  BY <1>6, Parameters DEF SentBefore
<1>7. CASE c = 6
  BY <1>7, Parameters DEF SentBefore
<1>8. CASE c = 7
  BY <1>8, Parameters DEF SentBefore
<1>9. QED
  BY <1>1, <1>2, <1>3, <1>4, <1>5, <1>6, <1>7, <1>8 DEF Encoding

(* What depuncture makes of a punctured codeword.                            *)
Marked(in, c, N) == [k \in 1..2 * N |-> IF Sent(c, k - 1) THEN in[k] ELSE 2]

LEMMA Depunctured ==
  ASSUME NEW c \in Encoding, NEW fr, fr.n_data_bits \in Nat,
         NEW in \in [1..2 * fr.n_data_bits -> {0, 1}]
  PROVE  depuncture(puncturing(in, c), c, fr) = Marked(in, c, fr.n_data_bits)
<1> DEFINE out == puncturing(in, c)
           back == depuncture(out, c, fr)
<1>1. PICK N \in Nat : N = fr.n_data_bits
  BY Zenon
<1>2. in \in [1..2 * N -> {0, 1}] /\ 2 * N \in Nat
  BY <1>1
<1>3. PuncturedTo(out, in, c, 2 * N)
  BY <1>2, Punctured, Zenon
<1>4. back = [k \in 1..2 * N |-> IF PatternAt(c, k - 1) = 1 THEN out[Rank(c, k - 1) + 1] ELSE 2]
  BY <1>1, Zenon DEF depuncture, PatternAt, Rank, Ones
<1> HIDE DEF out, back
<1>5. ASSUME NEW k \in 1..2 * N
      PROVE  (IF PatternAt(c, k - 1) = 1 THEN out[Rank(c, k - 1) + 1] ELSE 2)
               = IF Sent(c, k - 1) THEN in[k] ELSE 2
  <2>1. PICK x \in Nat : x = k - 1
    OBVIOUS
  <2>2. (PatternAt(c, x) = 1 <=> Sent(c, x)) /\ Rank(c, x) = SentBefore(c, x)
    BY PatternFits
  <2>3. CASE Sent(c, x)
    <3>1. PICK m \in 1..Len(out) : m = SentBefore(c, k - 1) + 1 /\ out[m] = in[k]
      BY <1>3, <2>1, <2>3, Zenon DEF PuncturedTo
    <3>2. QED
      BY <2>1, <2>2, <2>3, <3>1, Zenon
  <2>4. CASE ~Sent(c, x)
    BY <2>1, <2>2, <2>4, Zenon
  <2>5. QED
    BY <2>3, <2>4
<1>6. back = [k \in 1..2 * N |-> IF Sent(c, k - 1) THEN in[k] ELSE 2]
  BY <1>4, <1>5, Zenon
<1>7. QED
  BY <1>1, <1>6, Zenon DEF Marked, back, out

(* It agrees with the codeword.                                              *)
LEMMA MarkedAgrees ==
  ASSUME NEW c \in Encoding, NEW N \in Nat, NEW in \in [1..2 * N -> {0, 1}]
  PROVE  Agrees(Marked(in, c, N), in, N)
<1> DEFINE mk == Marked(in, c, N)
<1>1. ASSUME NEW k \in 1..2 * N
      PROVE  /\ mk[k] = IF Sent(c, k - 1) THEN in[k] ELSE 2
             /\ mk[k] \in 0..2
  <2>1. mk[k] = IF Sent(c, k - 1) THEN in[k] ELSE 2
    BY Zenon DEF Marked
  <2>2. QED
    BY <2>1
<1>2. mk = [k \in 1..2 * N |-> mk[k]]
  BY Zenon DEF Marked
<1> HIDE DEF mk
<1>3. mk \in [1..2 * N -> 0..2]
  BY <1>1, <1>2, Zenon
<1>4. \A k \in 1..2 * N : mk[k] # 2 => mk[k] = in[k]
  BY <1>1, Zenon
<1>5. ASSUME NEW i \in 1..N PROVE mk[2 * i - 1] # 2 \/ mk[2 * i] # 2
  <2>1. PICK q \in Nat : i = q + 1
    <3>1. i = (i - 1) + 1 /\ i - 1 \in Nat
      OBVIOUS
    <3>2. QED
      BY <3>1, Zenon
  <2>2. PICK a \in 1..2 * N, b \in 1..2 * N :
          a = 2 * i - 1 /\ b = 2 * i /\ a - 1 = 2 * q /\ b - 1 = 2 * q + 1
    BY <2>1
  <2>3. Sent(c, 2 * q) \/ Sent(c, 2 * q + 1)
    BY PairSent
  <2>4. in[a] # 2 /\ in[b] # 2
    OBVIOUS
  <2>5. QED
    BY <1>1, <2>2, <2>3, <2>4, Zenon
<1>6. QED
  BY <1>3, <1>4, <1>5, Zenon DEF Agrees, mk

-----------------------------------------------------------------------------
(* The whole way *)

LEMMA EncodedBits ==
  ASSUME NEW N \in Nat, NEW in \in [1..N -> {0, 1}]
  PROVE  convolutional_encoding(in) \in [1..2 * N -> {0, 1}]
<1>1. PICK states : /\ EncoderStates(in, N, states)
                    /\ convolutional_encoding(in) =
                         [k \in 1..2 * N |-> Parity(states[(k + 1) \div 2], 2 - (k % 2))]
  BY Encoded
<1>2. ASSUME NEW k \in 1..2 * N PROVE Parity(states[(k + 1) \div 2], 2 - (k % 2)) \in {0, 1}
  <2>1. (k + 1) \div 2 \in 0..N /\ 2 - (k % 2) \in 1..2
    OBVIOUS
  <2>2. states[(k + 1) \div 2] \in 0..127
    BY <1>1, <2>1, Zenon DEF EncoderStates
  <2>3. Parity(states[(k + 1) \div 2], 2 - (k % 2)) \in 0..1
    BY <2>1, <2>2, ParityIn, Zenon
  <2>4. 0..1 = {0, 1}
    OBVIOUS
  <2>5. QED
    BY <2>3, <2>4, Zenon
<1>3. QED
  BY <1>1, <1>2, Zenon

(* What the functions of the transmitter return, one after the other, for the *)
(* PSDU p, the encoding c and the scrambler state s0.                         *)
FrameFor(c, p) == frame_param(c, Len(p))
DataBits(c, p, s0) ==
  reset_tail_bits(scramble(generate_bits(p, FrameFor(c, p)), s0), FrameFor(c, p))
Coded(c, p, s0) == convolutional_encoding(DataBits(c, p, s0))
Thinned(c, p, s0) == puncturing(Coded(c, p, s0), c)
Mixed(c, p, s0) == interleave(Thinned(c, p, s0), c)
Chunks(c, p, s0) == split_symbols(Mixed(c, p, s0), c)

(* Their lengths, for a frame of m symbols.                                   *)
LEMMA FrameOf ==
  ASSUME NEW c \in Encoding, NEW p \in Seq(0..255)
  PROVE  \E m \in Nat : /\ FrameFor(c, p).n_data_bits = m * ofdm_param[c].n_dbps
                        /\ FrameFor(c, p).n_data_bits \in Nat
                        /\ Room(FrameFor(c, p), Len(p))
<1>1. Len(p) \in Nat
  BY BytesIn
<1>2. PICK L \in Nat : L = Len(p)
  BY <1>1, Zenon
<1>3. /\ frame_param(c, L).n_sym \in Nat
      /\ frame_param(c, L).n_data_bits = frame_param(c, L).n_sym * ofdm_param[c].n_dbps
      /\ Room(frame_param(c, L), L)
  BY FrameParam
<1>4. QED
  BY <1>2, <1>3, Zenon DEF FrameFor, Room

LEMMA DataBitsIn ==
  ASSUME NEW c \in Encoding, NEW p \in Seq(0..255), NEW s0 \in 0..127
  PROVE  /\ DataBits(c, p, s0) \in [1..FrameFor(c, p).n_data_bits -> {0, 1}]
         /\ out_bytes(descramble(DataBits(c, p, s0), Len(p)), Len(p)) = p
<1>1. Room(FrameFor(c, p), Len(p)) /\ FrameFor(c, p).n_data_bits \in Nat
  BY FrameOf
<1>2. PICK L \in Nat : L = Len(p)
  <2>1. Len(p) \in Nat
    BY BytesIn
  <2>2. QED
    BY <2>1, Zenon
<1>3. PICK fr : fr = FrameFor(c, p)
  OBVIOUS
<1>4. generate_bits(p, fr) \in [1..fr.n_data_bits -> {0, 1}]
  BY <1>1, <1>2, <1>3, Generated, Zenon
<1>5. scramble(generate_bits(p, fr), s0) \in [1..fr.n_data_bits -> {0, 1}]
  BY <1>1, <1>3, <1>4, Scrambled, Zenon
<1>6. reset_tail_bits(scramble(generate_bits(p, fr), s0), fr) \in [1..fr.n_data_bits -> {0, 1}]
  BY <1>1, <1>2, <1>3, <1>5, TailReset, Zenon
<1>7. out_bytes(descramble(reset_tail_bits(scramble(generate_bits(p, fr), s0), fr), Len(p)),
                Len(p)) = p
  BY <1>1, <1>3, PsduFound, Zenon
<1>8. QED
  BY <1>3, <1>6, <1>7, Zenon DEF DataBits

LEMMA CodeUndone ==
  ASSUME NEW c \in Encoding, NEW p \in Seq(0..255), NEW s0 \in 0..127
  PROVE  /\ Coded(c, p, s0) \in [1..2 * FrameFor(c, p).n_data_bits -> {0, 1}]
         /\ viterbi(Marked(Coded(c, p, s0), c, FrameFor(c, p).n_data_bits), FrameFor(c, p).n_data_bits)
              = DataBits(c, p, s0)
         /\ Agrees(Marked(Coded(c, p, s0), c, FrameFor(c, p).n_data_bits), Coded(c, p, s0),
                   FrameFor(c, p).n_data_bits)
         /\ depuncture(Thinned(c, p, s0), c, FrameFor(c, p))
              = Marked(Coded(c, p, s0), c, FrameFor(c, p).n_data_bits)
<1>1. PICK fr : fr = FrameFor(c, p)
  OBVIOUS
<1>2. PICK N \in Nat : N = fr.n_data_bits
  <2>1. fr.n_data_bits \in Nat
    BY <1>1, FrameOf, Zenon
  <2>2. QED
    BY <2>1, Zenon
<1>3. DataBits(c, p, s0) \in [1..N -> {0, 1}]
  BY <1>1, <1>2, DataBitsIn, Zenon
<1>4. PICK x \in [1..N -> {0, 1}] : x = DataBits(c, p, s0)
  BY <1>3, Zenon
<1>5. Coded(c, p, s0) = convolutional_encoding(x)
  BY <1>4, Zenon DEF Coded
<1>6. convolutional_encoding(x) \in [1..2 * N -> {0, 1}]
  BY EncodedBits, Zenon
<1>7. PICK ys \in [1..2 * N -> {0, 1}] : ys = convolutional_encoding(x)
  BY <1>6, Zenon
<1>8. Agrees(Marked(ys, c, N), ys, N)
  BY MarkedAgrees, Zenon
<1>9. viterbi(Marked(ys, c, N), N) = x
  BY <1>7, <1>8, DecoderInverts, Zenon
<1>10. depuncture(puncturing(ys, c), c, fr) = Marked(ys, c, N)
  BY <1>2, Depunctured, Zenon
<1>11. Thinned(c, p, s0) = puncturing(ys, c) /\ Coded(c, p, s0) = ys
  BY <1>5, <1>7, Zenon DEF Thinned
<1>12. QED
  BY <1>1, <1>2, <1>4, <1>7, <1>8, <1>9, <1>10, <1>11, Zenon

LEMMA ThinnedIn ==
  ASSUME NEW c \in Encoding, NEW p \in Seq(0..255), NEW s0 \in 0..127
  PROVE  \E m \in Nat : Thinned(c, p, s0) \in [1..m * ofdm_param[c].n_cbps -> {0, 1}]
<1>1. PICK fr : fr = FrameFor(c, p)
  OBVIOUS
<1>2. PICK m \in Nat : fr.n_data_bits = m * ofdm_param[c].n_dbps /\ fr.n_data_bits \in Nat
  BY <1>1, FrameOf, Zenon
<1>3. Coded(c, p, s0) \in [1..2 * fr.n_data_bits -> {0, 1}]
  BY <1>1, CodeUndone, Zenon
<1>4. PICK N \in Nat : N = 2 * fr.n_data_bits
  BY <1>2
<1>5. PICK ys \in [1..N -> {0, 1}] : ys = Coded(c, p, s0)
  BY <1>3, <1>4, Zenon
<1>6. PuncturedTo(puncturing(ys, c), ys, c, N)
  BY Punctured, Zenon
<1>7. puncturing(ys, c) \in Seq({0, 1}) /\ Len(puncturing(ys, c)) = SentBefore(c, N)
  BY <1>6, Zenon DEF PuncturedTo
<1>8. SentBefore(c, N) = m * ofdm_param[c].n_cbps
  <2>1. SentBefore(c, 2 * (m * ofdm_param[c].n_dbps)) = m * ofdm_param[c].n_cbps
    BY SentOfFrame
  <2>2. QED
    BY <1>2, <1>4, <2>1, Zenon
<1>9. puncturing(ys, c) \in [1..Len(puncturing(ys, c)) -> {0, 1}]
  BY <1>7, BytesIn, Zenon
<1>10. QED
  BY <1>5, <1>7, <1>8, <1>9, Zenon DEF Thinned

LEMMA SymbolsUndone ==
  ASSUME NEW c \in Encoding, NEW p \in Seq(0..255), NEW s0 \in 0..127
  PROVE  /\ deinterleave(Mixed(c, p, s0), c) = Thinned(c, p, s0)
         /\ unpack(Chunks(c, p, s0), c) = Mixed(c, p, s0)
         /\ \E M \in Nat : Chunks(c, p, s0) \in [1..M -> 0..Values(ofdm_param[c].n_bpsc) - 1]
<1>1. PICK m \in Nat : Thinned(c, p, s0) \in [1..m * ofdm_param[c].n_cbps -> {0, 1}]
  BY ThinnedIn
<1>2. PICK x \in [1..m * ofdm_param[c].n_cbps -> {0, 1}] : x = Thinned(c, p, s0)
  BY <1>1, Zenon
<1>3. interleave(x, c) \in [1..m * ofdm_param[c].n_cbps -> {0, 1}]
  BY Interleaved, Zenon
<1>4. deinterleave(interleave(x, c), c) = x
  BY Deinterleaved, Zenon
<1>5. PICK nb \in {1, 2, 4, 6} : nb = ofdm_param[c].n_bpsc
  <2>1. ofdm_param[c].n_bpsc \in {1, 2, 4, 6}
    BY BitsPerSubcarrier
  <2>2. QED
    BY <2>1, Zenon
<1>6. PICK M \in Nat : M = 48 * m
  OBVIOUS
<1>7. m * ofdm_param[c].n_cbps = M * nb
  <2>1. ofdm_param[c].n_cbps = 48 * ofdm_param[c].n_bpsc
    BY Parameters
  <2>2. ofdm_param[c].n_cbps = 48 * nb
    BY <1>5, <2>1, Zenon
  <2>3. CASE nb = 1
    BY <1>6, <2>2, <2>3
  <2>4. CASE nb = 2
    BY <1>6, <2>2, <2>4
  <2>5. CASE nb = 4
    BY <1>6, <2>2, <2>5
  <2>6. CASE nb = 6
    BY <1>6, <2>2, <2>6
  <2>7. QED
    BY <2>3, <2>4, <2>5, <2>6
<1>8. PICK ys \in [1..M * nb -> {0, 1}] : ys = interleave(x, c)
  BY <1>3, <1>7, Zenon
<1>9. split_symbols(ys, c) \in [1..M -> 0..Values(nb) - 1] /\ unpack(split_symbols(ys, c), c) = ys
  <2>1. CarrierBits(ys, c, nb, M)
    BY <1>5 DEF CarrierBits
  <2>2. QED
    BY <2>1, SplitAndUnpacked, Zenon
<1>10. Mixed(c, p, s0) = ys /\ Chunks(c, p, s0) = split_symbols(ys, c)
  BY <1>2, <1>8, Zenon DEF Mixed, Chunks
<1>11. QED
  BY <1>2, <1>4, <1>5, <1>8, <1>9, <1>10, Zenon

(* The points of a frame that the channel has moved, and the decisions.      *)
PointsOf(values, c) == [k \in DOMAIN values |-> map_to_points(values[k], c)]
MovedAll(points, dx, dy) ==
  [k \in DOMAIN points |-> <<points[k][1] + dx, points[k][2] + dy>>]
DecidedAll(points, c) == [k \in DOMAIN points |-> decision_maker(points[k], c)]

LEMMA PointsUndone ==
  ASSUME NEW c \in Encoding, NEW M \in Nat,
         NEW v \in [1..M -> 0..Values(ofdm_param[c].n_bpsc) - 1],
         NEW dx \in -1..1, NEW dy \in -1..1
  PROVE  DecidedAll(MovedAll(PointsOf(v, c), dx, dy), c) = v
<1> DEFINE pts == PointsOf(v, c)
           mvd == MovedAll(pts, dx, dy)
           dec == DecidedAll(mvd, c)
<1>1. pts = [k \in 1..M |-> map_to_points(v[k], c)]
  <2>1. DOMAIN v = 1..M
    OBVIOUS
  <2>2. QED
    BY <2>1, Zenon DEF PointsOf
<1> HIDE DEF pts
<1>2. mvd = [k \in 1..M |-> <<pts[k][1] + dx, pts[k][2] + dy>>]
  <2>1. DOMAIN pts = 1..M
    BY <1>1, Zenon
  <2>2. QED
    BY <2>1, Zenon DEF MovedAll
<1> HIDE DEF mvd
<1>3. dec = [k \in 1..M |-> decision_maker(mvd[k], c)]
  <2>1. DOMAIN mvd = 1..M
    BY <1>2, Zenon
  <2>2. QED
    BY <2>1, Zenon DEF DecidedAll
<1> HIDE DEF dec
<1>4. ASSUME NEW k \in 1..M PROVE dec[k] = v[k]
  <2>1. PICK u \in 0..Values(ofdm_param[c].n_bpsc) - 1 : u = v[k]
    <3>1. v[k] \in 0..Values(ofdm_param[c].n_bpsc) - 1
      BY Zenon
    <3>2. QED
      BY <3>1, Zenon
  <2>2. pts[k] = map_to_points(u, c)
    BY <1>1, <2>1, Zenon
  <2>3. mvd[k] = Moved(map_to_points(u, c), dx, dy)
    BY <1>2, <2>2, Zenon DEF Moved
  <2>4. dec[k] = decision_maker(mvd[k], c)
    BY <1>3, Zenon
  <2>5. decision_maker(Moved(map_to_points(u, c), dx, dy), c) = u
    BY PointDecided, Zenon
  <2>6. QED
    BY <2>1, <2>3, <2>4, <2>5, Zenon
<1>5. dec = v
  <2>1. v = [k \in 1..M |-> v[k]]
    BY Zenon
  <2>2. QED
    BY <1>3, <1>4, <2>1, Zenon
<1>6. QED
  BY <1>5 DEF dec, mvd, pts

-----------------------------------------------------------------------------
(* The frame on its way *)

LEMMA StepsInOrder ==
  /\ Follows("generate_bits") = "scramble"
  /\ Follows("scramble") = "reset_tail_bits"
  /\ Follows("reset_tail_bits") = "convolutional_encoding"
  /\ Follows("convolutional_encoding") = "puncturing"
  /\ Follows("puncturing") = "interleave"
  /\ Follows("interleave") = "split_symbols"
  /\ Follows("split_symbols") = "map_to_points"
  /\ Follows("map_to_points") = "channel"
  /\ Follows("channel") = "decision_maker"
  /\ Follows("decision_maker") = "unpack"
  /\ Follows("unpack") = "deinterleave"
  /\ Follows("deinterleave") = "depuncture"
  /\ Follows("depuncture") = "viterbi"
  /\ Follows("viterbi") = "descramble"
  /\ Follows("descramble") = "done"
<1> DEFINE Names == {"generate_bits", "scramble", "reset_tail_bits", "convolutional_encoding",
                      "puncturing", "interleave", "split_symbols", "map_to_points",
                      "channel", "decision_maker", "unpack", "deinterleave", "depuncture",
                      "viterbi", "descramble", "done"}
<1>1. /\ Tx \in Seq(Names) /\ Len(Tx) = 8
      /\ Tx[1] = "generate_bits" /\ Tx[2] = "scramble" /\ Tx[3] = "reset_tail_bits"
      /\ Tx[4] = "convolutional_encoding" /\ Tx[5] = "puncturing" /\ Tx[6] = "interleave"
      /\ Tx[7] = "split_symbols" /\ Tx[8] = "map_to_points"
  <2>1. /\ Len(Tx) = 8
        /\ Tx[1] = "generate_bits" /\ Tx[2] = "scramble" /\ Tx[3] = "reset_tail_bits"
        /\ Tx[4] = "convolutional_encoding" /\ Tx[5] = "puncturing" /\ Tx[6] = "interleave"
        /\ Tx[7] = "split_symbols" /\ Tx[8] = "map_to_points"
    BY DEF Tx
  <2>2. Tx \in Seq(Names)
    BY DEF Tx
  <2>3. QED
    BY <2>1, <2>2
<1>2. /\ Rx \in Seq(Names) /\ Len(Rx) = 8
      /\ Rx[1] = "channel" /\ Rx[2] = "decision_maker" /\ Rx[3] = "unpack"
      /\ Rx[4] = "deinterleave" /\ Rx[5] = "depuncture" /\ Rx[6] = "viterbi"
      /\ Rx[7] = "descramble" /\ Rx[8] = "done"
  <2>1. /\ Len(Rx) = 8
        /\ Rx[1] = "channel" /\ Rx[2] = "decision_maker" /\ Rx[3] = "unpack"
        /\ Rx[4] = "deinterleave" /\ Rx[5] = "depuncture" /\ Rx[6] = "viterbi"
        /\ Rx[7] = "descramble" /\ Rx[8] = "done"
    BY DEF Rx
  <2>2. Rx \in Seq(Names)
    BY DEF Rx
  <2>3. QED
    BY <2>1, <2>2
<1>3. /\ DOMAIN Steps = 1..16
      /\ Steps[1] = "generate_bits" /\ Steps[2] = "scramble" /\ Steps[3] = "reset_tail_bits"
      /\ Steps[4] = "convolutional_encoding" /\ Steps[5] = "puncturing" /\ Steps[6] = "interleave"
      /\ Steps[7] = "split_symbols" /\ Steps[8] = "map_to_points" /\ Steps[9] = "channel"
      /\ Steps[10] = "decision_maker" /\ Steps[11] = "unpack" /\ Steps[12] = "deinterleave"
      /\ Steps[13] = "depuncture" /\ Steps[14] = "viterbi" /\ Steps[15] = "descramble"
      /\ Steps[16] = "done"
  <2>1. /\ Len(Tx \o Rx) = Len(Tx) + Len(Rx)
        /\ \A k \in 1..Len(Tx) + Len(Rx) :
             (Tx \o Rx)[k] = IF k <= Len(Tx) THEN Tx[k] ELSE Rx[k - Len(Tx)]
        /\ Tx \o Rx \in Seq(Names)
    BY <1>1, <1>2, ConcatProperties, ZenonT(30)
  <2>2. DOMAIN Steps = 1..16
    <3>1. DOMAIN (Tx \o Rx) = 1..Len(Tx \o Rx)
      BY <2>1, BytesIn, Zenon
    <3>2. QED
      BY <1>1, <1>2, <2>1, <3>1 DEF Steps
  <2>3. \A k \in 1..8 : Steps[k] = Tx[k]
    BY <1>1, <1>2, <2>1 DEF Steps
  <2>4. \A k \in 1..8 : Steps[k + 8] = Rx[k]
    <3>1. TAKE k \in 1..8
    <3>2. PICK m \in 9..16 : m = k + 8
      OBVIOUS
    <3>3. m \in 1..Len(Tx) + Len(Rx) /\ ~(m <= Len(Tx)) /\ m - Len(Tx) = k
      BY <1>1, <1>2, <3>2
    <3>4. Steps[m] = Rx[k]
      BY <2>1, <3>3, Zenon DEF Steps
    <3>5. QED
      BY <3>2, <3>4, Zenon
  <2>5. /\ Steps[9] = Rx[1] /\ Steps[10] = Rx[2] /\ Steps[11] = Rx[3] /\ Steps[12] = Rx[4]
        /\ Steps[13] = Rx[5] /\ Steps[14] = Rx[6] /\ Steps[15] = Rx[7] /\ Steps[16] = Rx[8]
    BY <2>4
  <2>6. QED
    BY <1>1, <1>2, <2>2, <2>3, <2>5
<1>4. ASSUME NEW j \in 1..16, NEW k \in 1..16, Steps[j] = Steps[k] PROVE j = k
  <2>1. j \in 1..16 /\ k \in 1..16
    OBVIOUS
  <2>2. QED
    BY <1>3, <1>4, <2>1
<1>5. ASSUME NEW j \in 1..15 PROVE Follows(Steps[j]) = Steps[j + 1]
  <2> DEFINE K == CHOOSE k \in DOMAIN Steps : Steps[k] = Steps[j]
  <2>1. j \in DOMAIN Steps /\ Steps[j] = Steps[j]
    BY <1>3
  <2>2. K \in DOMAIN Steps /\ Steps[K] = Steps[j]
    BY <2>1, Zenon
  <2>3. Follows(Steps[j]) = Steps[K + 1]
    BY Zenon DEF Follows
  <2> HIDE DEF K
  <2>4. K = j
    BY <1>3, <1>4, <2>2
  <2>5. QED
    BY <2>3, <2>4, Zenon
<1>6. QED
  BY <1>3, <1>5

(* What the function st finds in the buffer b, for the PSDU p, the encoding c *)
(* and the scrambler state s0.                                                *)
Right(c, p, s0, st, b) ==
  /\ st = "scramble" => b = generate_bits(p, FrameFor(c, p))
  /\ st = "reset_tail_bits" => b = scramble(generate_bits(p, FrameFor(c, p)), s0)
  /\ st = "convolutional_encoding" => b = DataBits(c, p, s0)
  /\ st = "puncturing" => b = Coded(c, p, s0)
  /\ st = "interleave" => b = Thinned(c, p, s0)
  /\ st = "split_symbols" => b = Mixed(c, p, s0)
  /\ st = "map_to_points" => b = Chunks(c, p, s0)
  /\ st = "channel" => b = PointsOf(Chunks(c, p, s0), c)
  /\ st = "decision_maker" =>
       \E dx, dy \in -1..1 : b = MovedAll(PointsOf(Chunks(c, p, s0), c), dx, dy)
  /\ st = "unpack" => b = Chunks(c, p, s0)
  /\ st = "deinterleave" => b = Mixed(c, p, s0)
  /\ st = "depuncture" => b = Thinned(c, p, s0)
  /\ st = "viterbi" => b = Marked(Coded(c, p, s0), c, FrameFor(c, p).n_data_bits)
  /\ st = "descramble" => b = DataBits(c, p, s0)
  /\ st = "done" => b = descramble(DataBits(c, p, s0), Len(p))

(* What is remembered of the transmitter when st runs.                       *)
Kept(r, step, value) == step \in DOMAIN r /\ r[step] = value

Remembered(c, p, s0, st, r) ==
  /\ st \notin {"generate_bits", "scramble", "reset_tail_bits", "convolutional_encoding"} =>
       /\ Kept(r, "convolutional_encoding", Coded(c, p, s0))
       /\ st # "puncturing" =>
            /\ Kept(r, "puncturing", Thinned(c, p, s0))
            /\ st # "interleave" =>
                 /\ Kept(r, "interleave", Mixed(c, p, s0))
                 /\ st # "split_symbols" => Kept(r, "split_symbols", Chunks(c, p, s0))

ChainIInv ==
  /\ e \in Encoding
  /\ psdu \in Seq(0..255)
  /\ seed \in 0..127
  /\ Right(e, psdu, seed, next, buf)
  /\ Remembered(e, psdu, seed, next, returned)

LEMMA ChainStarts == ChainInit => ChainIInv
<1> SUFFICES ASSUME ChainInit PROVE ChainIInv
  OBVIOUS
<1>1. e \in Encoding /\ psdu \in Psdus /\ seed \in Seeds /\ next = "generate_bits"
  BY DEF ChainInit
<1>2. psdu \in Seq(0..255) /\ seed \in 0..127
  <2>1. psdu \in Seq(0..255)
    BY <1>1, ChainAssumption, Zenon
  <2>2. seed \in 1..127
    BY <1>1, ChainAssumption, Zenon
  <2>3. QED
    BY <2>1, <2>2
<1>3. Right(e, psdu, seed, next, buf)
  BY <1>1 DEF Right
<1>4. Remembered(e, psdu, seed, next, returned)
  BY <1>1 DEF Remembered
<1>5. QED
  BY <1>1, <1>2, <1>3, <1>4 DEF ChainIInv

(* A function of the transmitter remembers its result and nothing is lost.   *)
LEMMA SendKeeps ==
  ASSUME NEW step, NEW result, Send(step, result)
  PROVE  /\ Kept(returned', step, result)
         /\ \A other, value : Kept(returned, other, value) /\ other # step =>
                                Kept(returned', other, value)
<1>1. returned' = [s \in DOMAIN returned \union {step} |->
                     IF s = step THEN result ELSE returned[s]]
  BY DEF Send
<1>2. QED
  BY <1>1, Zenon DEF Kept

(* The right buffer makes the next one right, in the transmitter ...         *)
LEMMA TransmitSteps ==
  ASSUME ChainIInv, Transmit
  PROVE  ChainIInv'
<1>1. /\ e \in Encoding /\ psdu \in Seq(0..255) /\ seed \in 0..127
      /\ Right(e, psdu, seed, next, buf)
      /\ Remembered(e, psdu, seed, next, returned)
  BY DEF ChainIInv
<1>2. frame = FrameFor(e, psdu)
  BY DEF frame, FrameFor
<1>3. e' = e /\ psdu' = psdu /\ seed' = seed
  BY DEF Transmit, GenerateBits, Scramble, ResetTailBits, Encode, Puncture, Interleave,
         SplitSymbols, MapToPoints, Send
<1>4. SUFFICES /\ Right(e, psdu, seed, next', buf')
               /\ Remembered(e, psdu, seed, next', returned')
  BY <1>1, <1>3, Zenon DEF ChainIInv
<1>5. CASE GenerateBits
  <2>1. Send("generate_bits", generate_bits(psdu, frame))
    BY <1>5 DEF GenerateBits
  <2>2. next = "generate_bits" /\ next' = "scramble" /\ buf' = generate_bits(psdu, frame)
    BY <2>1, StepsInOrder, Zenon DEF Send
  <2>3. buf' = generate_bits(psdu, FrameFor(e, psdu))
    BY <1>2, <2>2, Zenon
  <2>4. Right(e, psdu, seed, next', buf')
    BY <2>2, <2>3 DEF Right
  <2>5. Remembered(e, psdu, seed, next', returned')
    BY <2>2 DEF Remembered
  <2>6. QED
    BY <2>4, <2>5
<1>6. CASE Scramble
  <2>1. Send("scramble", scramble(buf, seed))
    BY <1>6 DEF Scramble
  <2>2. next = "scramble" /\ next' = "reset_tail_bits" /\ buf' = scramble(buf, seed)
    BY <2>1, StepsInOrder, Zenon DEF Send
  <2>3. buf = generate_bits(psdu, FrameFor(e, psdu))
    BY <1>1, <2>2, Zenon DEF Right
  <2>4. buf' = scramble(generate_bits(psdu, FrameFor(e, psdu)), seed)
    BY <1>2, <2>2, <2>3, Zenon
  <2>5. Right(e, psdu, seed, next', buf')
    BY <2>2, <2>4 DEF Right
  <2>6. Remembered(e, psdu, seed, next', returned')
    BY <2>2 DEF Remembered
  <2>7. QED
    BY <2>5, <2>6
<1>7. CASE ResetTailBits
  <2>1. Send("reset_tail_bits", reset_tail_bits(buf, frame))
    BY <1>7 DEF ResetTailBits
  <2>2. next = "reset_tail_bits" /\ next' = "convolutional_encoding" /\ buf' = reset_tail_bits(buf, frame)
    BY <2>1, StepsInOrder, Zenon DEF Send
  <2>3. buf = scramble(generate_bits(psdu, FrameFor(e, psdu)), seed)
    BY <1>1, <2>2, Zenon DEF Right
  <2>4. buf' = DataBits(e, psdu, seed)
    BY <1>2, <2>2, <2>3, Zenon DEF DataBits
  <2>5. Right(e, psdu, seed, next', buf')
    BY <2>2, <2>4 DEF Right
  <2>6. Remembered(e, psdu, seed, next', returned')
    BY <2>2 DEF Remembered
  <2>7. QED
    BY <2>5, <2>6
<1>8. CASE Encode
  <2>1. Send("convolutional_encoding", convolutional_encoding(buf))
    BY <1>8 DEF Encode
  <2>2. next = "convolutional_encoding" /\ next' = "puncturing" /\ buf' = convolutional_encoding(buf)
    BY <2>1, StepsInOrder, Zenon DEF Send
  <2>3. buf = DataBits(e, psdu, seed)
    BY <1>1, <2>2, Zenon DEF Right
  <2>4. buf' = Coded(e, psdu, seed)
    BY <1>2, <2>2, <2>3, Zenon DEF Coded
  <2>5. Right(e, psdu, seed, next', buf')
    BY <2>2, <2>4 DEF Right
  <2>6. Kept(returned', "convolutional_encoding", Coded(e, psdu, seed))
    BY <2>1, <2>2, <2>4, SendKeeps
  <2>7. Remembered(e, psdu, seed, next', returned')
    BY <1>1, <2>1, <2>2, <2>6, SendKeeps DEF Remembered
  <2>8. QED
    BY <2>5, <2>7
<1>9. CASE Puncture
  <2>1. Send("puncturing", puncturing(buf, e))
    BY <1>9 DEF Puncture
  <2>2. next = "puncturing" /\ next' = "interleave" /\ buf' = puncturing(buf, e)
    BY <2>1, StepsInOrder, Zenon DEF Send
  <2>3. buf = Coded(e, psdu, seed)
    BY <1>1, <2>2, Zenon DEF Right
  <2>4. buf' = Thinned(e, psdu, seed)
    BY <1>2, <2>2, <2>3, Zenon DEF Thinned
  <2>5. Right(e, psdu, seed, next', buf')
    BY <2>2, <2>4 DEF Right
  <2>6. Kept(returned', "puncturing", Thinned(e, psdu, seed))
    BY <2>1, <2>2, <2>4, SendKeeps
  <2>7. Remembered(e, psdu, seed, next', returned')
    BY <1>1, <2>1, <2>2, <2>6, SendKeeps DEF Remembered
  <2>8. QED
    BY <2>5, <2>7
<1>10. CASE Interleave
  <2>1. Send("interleave", interleave(buf, e))
    BY <1>10 DEF Interleave
  <2>2. next = "interleave" /\ next' = "split_symbols" /\ buf' = interleave(buf, e)
    BY <2>1, StepsInOrder, Zenon DEF Send
  <2>3. buf = Thinned(e, psdu, seed)
    BY <1>1, <2>2, Zenon DEF Right
  <2>4. buf' = Mixed(e, psdu, seed)
    BY <1>2, <2>2, <2>3, Zenon DEF Mixed
  <2>5. Right(e, psdu, seed, next', buf')
    BY <2>2, <2>4 DEF Right
  <2>6. Kept(returned', "interleave", Mixed(e, psdu, seed))
    BY <2>1, <2>2, <2>4, SendKeeps
  <2>7. Remembered(e, psdu, seed, next', returned')
    BY <1>1, <2>1, <2>2, <2>6, SendKeeps DEF Remembered
  <2>8. QED
    BY <2>5, <2>7
<1>11. CASE SplitSymbols
  <2>1. Send("split_symbols", split_symbols(buf, e))
    BY <1>11 DEF SplitSymbols
  <2>2. next = "split_symbols" /\ next' = "map_to_points" /\ buf' = split_symbols(buf, e)
    BY <2>1, StepsInOrder, Zenon DEF Send
  <2>3. buf = Mixed(e, psdu, seed)
    BY <1>1, <2>2, Zenon DEF Right
  <2>4. buf' = Chunks(e, psdu, seed)
    BY <1>2, <2>2, <2>3, Zenon DEF Chunks
  <2>5. Right(e, psdu, seed, next', buf')
    BY <2>2, <2>4 DEF Right
  <2>6. Kept(returned', "split_symbols", Chunks(e, psdu, seed))
    BY <2>1, <2>2, <2>4, SendKeeps
  <2>7. Remembered(e, psdu, seed, next', returned')
    BY <1>1, <2>1, <2>2, <2>6, SendKeeps DEF Remembered
  <2>8. QED
    BY <2>5, <2>7
<1>12. CASE MapToPoints
  <2>1. Send("map_to_points", [k \in DOMAIN buf |-> map_to_points(buf[k], e)])
    BY <1>12 DEF MapToPoints
  <2>2. next = "map_to_points" /\ next' = "channel" /\ buf' = [k \in DOMAIN buf |-> map_to_points(buf[k], e)]
    BY <2>1, StepsInOrder, Zenon DEF Send
  <2>3. buf = Chunks(e, psdu, seed)
    BY <1>1, <2>2, Zenon DEF Right
  <2>4. buf' = PointsOf(Chunks(e, psdu, seed), e)
    BY <1>2, <2>2, <2>3, Zenon DEF PointsOf
  <2>5. Right(e, psdu, seed, next', buf')
    BY <2>2, <2>4 DEF Right
  <2>6. Remembered(e, psdu, seed, next', returned')
    BY <1>1, <2>1, <2>2, SendKeeps DEF Remembered
  <2>7. QED
    BY <2>5, <2>6
<1>13. QED
  BY <1>5, <1>6, <1>7, <1>8, <1>9, <1>10, <1>11, <1>12 DEF Transmit

(* ... and in the channel and the receiver.                                  *)
LEMMA ReceiveSteps ==
  ASSUME ChainIInv,
         Channel \/ Demap \/ Unpack \/ Deinterleave \/ Depuncture \/ Viterbi \/ Descramble
  PROVE  ChainIInv'
<1>1. /\ e \in Encoding /\ psdu \in Seq(0..255) /\ seed \in 0..127
      /\ Right(e, psdu, seed, next, buf)
      /\ Remembered(e, psdu, seed, next, returned)
  BY DEF ChainIInv
<1>2. frame = FrameFor(e, psdu)
  BY DEF frame, FrameFor
<1>3. e' = e /\ psdu' = psdu /\ seed' = seed /\ returned' = returned
  BY DEF Channel, Demap, Unpack, Deinterleave, Depuncture, Viterbi, Descramble, Receive
<1>4. SUFFICES /\ Right(e, psdu, seed, next', buf')
               /\ Remembered(e, psdu, seed, next', returned)
  BY <1>1, <1>3, Zenon DEF ChainIInv
<1>5. CASE Channel
  <2>1. PICK dx \in Noise, dy \in Noise :
          Receive("channel", [k \in DOMAIN buf |-> <<buf[k][1] + dx, buf[k][2] + dy>>])
    BY <1>5 DEF Channel
  <2>2. next = "channel" /\ next' = "decision_maker" /\ buf' = MovedAll(buf, dx, dy)
    BY <2>1, StepsInOrder, Zenon DEF Receive, MovedAll
  <2>3. buf = PointsOf(Chunks(e, psdu, seed), e)
    BY <1>1, <2>2, Zenon DEF Right
  <2>4. dx \in -1..1 /\ dy \in -1..1
    BY ChainAssumption, Zenon
  <2>5. \E ax, ay \in -1..1 : buf' = MovedAll(PointsOf(Chunks(e, psdu, seed), e), ax, ay)
    BY <2>2, <2>3, <2>4, Zenon
  <2>6. Right(e, psdu, seed, next', buf')
    BY <2>2, <2>5 DEF Right
  <2>7. Remembered(e, psdu, seed, next', returned)
    BY <1>1, <2>2 DEF Remembered
  <2>8. QED
    BY <2>6, <2>7
<1>6. CASE Demap
  <2>1. Receive("decision_maker", [k \in DOMAIN buf |-> decision_maker(buf[k], e)])
    BY <1>6 DEF Demap
  <2>2. next = "decision_maker" /\ next' = "unpack" /\ buf' = [k \in DOMAIN buf |-> decision_maker(buf[k], e)]
    BY <2>1, StepsInOrder, Zenon DEF Receive
  <2>3. PICK dx \in -1..1, dy \in -1..1 :
          buf = MovedAll(PointsOf(Chunks(e, psdu, seed), e), dx, dy)
    BY <1>1, <2>2, Zenon DEF Right
  <2>4. buf' = Chunks(e, psdu, seed)
    <3>1. PICK M \in Nat : Chunks(e, psdu, seed) \in [1..M -> 0..Values(ofdm_param[e].n_bpsc) - 1]
      BY <1>1, SymbolsUndone, Zenon
    <3>2. PICK v \in [1..M -> 0..Values(ofdm_param[e].n_bpsc) - 1] : v = Chunks(e, psdu, seed)
      BY <3>1, Zenon
    <3>3. DecidedAll(MovedAll(PointsOf(v, e), dx, dy), e) = v
      BY <1>1, PointsUndone, Zenon
    <3>4. buf' = DecidedAll(buf, e)
      BY <2>2, Zenon DEF DecidedAll
    <3>5. QED
      BY <2>3, <3>2, <3>3, <3>4, Zenon
  <2>5. Right(e, psdu, seed, next', buf')
    BY <2>2, <2>4 DEF Right
  <2>6. Remembered(e, psdu, seed, next', returned)
    BY <1>1, <2>2 DEF Remembered
  <2>7. QED
    BY <2>5, <2>6
<1>7. CASE Unpack
  <2>1. Receive("unpack", unpack(buf, e))
    BY <1>7 DEF Unpack
  <2>2. next = "unpack" /\ next' = "deinterleave" /\ buf' = unpack(buf, e)
    BY <2>1, StepsInOrder, Zenon DEF Receive
  <2>3. buf = Chunks(e, psdu, seed)
    BY <1>1, <2>2, Zenon DEF Right
  <2>4. buf' = Mixed(e, psdu, seed)
    BY <1>1, <2>2, <2>3, SymbolsUndone, Zenon
  <2>5. Right(e, psdu, seed, next', buf')
    BY <2>2, <2>4 DEF Right
  <2>6. Remembered(e, psdu, seed, next', returned)
    BY <1>1, <2>2 DEF Remembered
  <2>7. QED
    BY <2>5, <2>6
<1>8. CASE Deinterleave
  <2>1. Receive("deinterleave", deinterleave(buf, e))
    BY <1>8 DEF Deinterleave
  <2>2. next = "deinterleave" /\ next' = "depuncture" /\ buf' = deinterleave(buf, e)
    BY <2>1, StepsInOrder, Zenon DEF Receive
  <2>3. buf = Mixed(e, psdu, seed)
    BY <1>1, <2>2, Zenon DEF Right
  <2>4. buf' = Thinned(e, psdu, seed)
    BY <1>1, <2>2, <2>3, SymbolsUndone, Zenon
  <2>5. Right(e, psdu, seed, next', buf')
    BY <2>2, <2>4 DEF Right
  <2>6. Remembered(e, psdu, seed, next', returned)
    BY <1>1, <2>2 DEF Remembered
  <2>7. QED
    BY <2>5, <2>6
<1>9. CASE Depuncture
  <2>1. Receive("depuncture", depuncture(buf, e, frame))
    BY <1>9 DEF Depuncture
  <2>2. next = "depuncture" /\ next' = "viterbi" /\ buf' = depuncture(buf, e, frame)
    BY <2>1, StepsInOrder, Zenon DEF Receive
  <2>3. buf = Thinned(e, psdu, seed)
    BY <1>1, <2>2, Zenon DEF Right
  <2>4. buf' = Marked(Coded(e, psdu, seed), e, FrameFor(e, psdu).n_data_bits)
    BY <1>1, <1>2, <2>2, <2>3, CodeUndone, Zenon
  <2>5. Right(e, psdu, seed, next', buf')
    BY <2>2, <2>4 DEF Right
  <2>6. Remembered(e, psdu, seed, next', returned)
    BY <1>1, <2>2 DEF Remembered
  <2>7. QED
    BY <2>5, <2>6
<1>10. CASE Viterbi
  <2>1. Receive("viterbi", viterbi(buf, frame.n_data_bits))
    BY <1>10 DEF Viterbi
  <2>2. next = "viterbi" /\ next' = "descramble" /\ buf' = viterbi(buf, frame.n_data_bits)
    BY <2>1, StepsInOrder, Zenon DEF Receive
  <2>3. buf = Marked(Coded(e, psdu, seed), e, FrameFor(e, psdu).n_data_bits)
    BY <1>1, <2>2, Zenon DEF Right
  <2>4. buf' = DataBits(e, psdu, seed)
    BY <1>1, <1>2, <2>2, <2>3, CodeUndone, Zenon
  <2>5. Right(e, psdu, seed, next', buf')
    BY <2>2, <2>4 DEF Right
  <2>6. Remembered(e, psdu, seed, next', returned)
    BY <1>1, <2>2 DEF Remembered
  <2>7. QED
    BY <2>5, <2>6
<1>11. CASE Descramble
  <2>1. Receive("descramble", descramble(buf, Len(psdu)))
    BY <1>11 DEF Descramble
  <2>2. next = "descramble" /\ next' = "done" /\ buf' = descramble(buf, Len(psdu))
    BY <2>1, StepsInOrder, Zenon DEF Receive
  <2>3. buf = DataBits(e, psdu, seed)
    BY <1>1, <2>2, Zenon DEF Right
  <2>4. buf' = descramble(DataBits(e, psdu, seed), Len(psdu))
    BY <2>2, <2>3, Zenon
  <2>5. Right(e, psdu, seed, next', buf')
    BY <2>2, <2>4 DEF Right
  <2>6. Remembered(e, psdu, seed, next', returned)
    BY <1>1, <2>2 DEF Remembered
  <2>7. QED
    BY <2>5, <2>6
<1>12. QED
  BY <1>5, <1>6, <1>7, <1>8, <1>9, <1>10, <1>11

LEMMA ChainInductive == ChainSpec => []ChainIInv
<1>1. ChainInit => ChainIInv
  BY ChainStarts
<1>2. ChainIInv /\ [ChainNext]_chainVars => ChainIInv'
  <2> SUFFICES ASSUME ChainIInv, [ChainNext]_chainVars PROVE ChainIInv'
    OBVIOUS
  <2>1. CASE Transmit
    BY <2>1, TransmitSteps
  <2>2. CASE Channel \/ Demap \/ Unpack \/ Deinterleave \/ Depuncture \/ Viterbi \/ Descramble
    BY <2>2, ReceiveSteps
  <2>3. CASE UNCHANGED chainVars
    BY <2>3 DEF chainVars, ChainIInv
  <2>4. QED
    BY <2>1, <2>2, <2>3 DEF ChainNext
<1>3. QED
  BY <1>1, <1>2, PTL DEF ChainSpec

(* Every function of the receiver gives back what its counterpart in the      *)
(* transmitter was given (src/lib/mapper.cc 98 to 119, decode_mac.cc 120 to   *)
(* 164): for every encoding, every PSDU and every scrambler state, whatever   *)
(* displacement within a half of the decision distance the channel makes.     *)
THEOREM ReceiverUndoes == ChainSpec => []Undone
<1>1. ChainIInv => Undone
  <2> SUFFICES ASSUME ChainIInv PROVE Undone
    OBVIOUS
  <2>1. /\ e \in Encoding /\ psdu \in Seq(0..255) /\ seed \in 0..127
        /\ Right(e, psdu, seed, next, buf)
        /\ Remembered(e, psdu, seed, next, returned)
    BY DEF ChainIInv
  <2>2. next = "unpack" => buf = returned["split_symbols"]
    BY <2>1 DEF Right, Remembered, Kept
  <2>3. next = "deinterleave" => buf = returned["interleave"]
    BY <2>1 DEF Right, Remembered, Kept
  <2>4. next = "depuncture" => buf = returned["puncturing"]
    BY <2>1 DEF Right, Remembered, Kept
  <2>5. ASSUME next = "viterbi"
        PROVE  /\ DOMAIN buf = DOMAIN returned["convolutional_encoding"]
               /\ \A k \in DOMAIN buf :
                    buf[k] = IF Sent(e, k - 1) THEN returned["convolutional_encoding"][k] ELSE 2
               /\ \A i \in 1..frame.n_data_bits : buf[2 * i - 1] # 2 \/ buf[2 * i] # 2
    <3>1. PICK N : N = FrameFor(e, psdu).n_data_bits
      OBVIOUS
    <3>2. PICK ys : ys = Coded(e, psdu, seed)
      OBVIOUS
    <3>3. buf = Marked(ys, e, N) /\ returned["convolutional_encoding"] = ys
      BY <2>1, <2>5, <3>1, <3>2 DEF Right, Remembered, Kept
    <3>4. ys \in [1..2 * N -> {0, 1}] /\ Agrees(Marked(ys, e, N), ys, N)
      BY <2>1, <3>1, <3>2, CodeUndone, Zenon
    <3>5. buf = [k \in 1..2 * N |-> IF Sent(e, k - 1) THEN ys[k] ELSE 2]
      BY <3>3, Zenon DEF Marked
    <3>6. DOMAIN buf = 1..2 * N /\ DOMAIN ys = 1..2 * N
      BY <3>4, <3>5, Zenon
    <3>7. \A k \in DOMAIN buf : buf[k] = IF Sent(e, k - 1) THEN ys[k] ELSE 2
      BY <3>5, <3>6, Zenon
    <3>8. \A i \in 1..N : buf[2 * i - 1] # 2 \/ buf[2 * i] # 2
      BY <3>3, <3>4, Zenon DEF Agrees
    <3>9. frame.n_data_bits = N
      BY <3>1, Zenon DEF frame, FrameFor
    <3>10. QED
      BY <3>3, <3>6, <3>7, <3>8, <3>9, Zenon
  <2>6. QED
    BY <2>2, <2>3, <2>4, <2>5, Zenon DEF Undone
<1>2. QED
  BY <1>1, ChainInductive, PTL

(* decode_mac publishes the PSDU that the mapper was given, for every         *)
(* encoding, every PSDU and every state of the scrambler (decode_mac.cc 120   *)
(* to 175): the state is found in the first seven bits of the service field.  *)
THEOREM PsduIsReceived == ChainSpec => []PsduReceived
<1>1. ChainIInv => PsduReceived
  <2> SUFFICES ASSUME ChainIInv, next = "done" PROVE out_bytes(buf, Len(psdu)) = psdu
    BY DEF PsduReceived
  <2>1. /\ e \in Encoding /\ psdu \in Seq(0..255) /\ seed \in 0..127
        /\ Right(e, psdu, seed, next, buf)
    BY DEF ChainIInv
  <2>2. buf = descramble(DataBits(e, psdu, seed), Len(psdu))
    BY <2>1, Zenon DEF Right
  <2>3. QED
    BY <2>1, <2>2, DataBitsIn, Zenon
<1>2. QED
  BY <1>1, ChainInductive, PTL

-----------------------------------------------------------------------------
(* SIGNAL symbol *)

(* The table of the receiver is the interleaver of BPSK.                     *)
LEMMA PatternEntries ==
  /\ \A k \in 0..15 : interleaver_pattern[k + 1] = 3 * k
  /\ \A k \in 0..15 : interleaver_pattern[k + 17] = 3 * k + 1
  /\ \A k \in 0..15 : interleaver_pattern[k + 33] = 3 * k + 2
<1> DEFINE t == interleaver_pattern
<1>1. /\ t[1] = 0 /\ t[2] = 3 /\ t[3] = 6 /\ t[4] = 9 /\ t[5] = 12 /\ t[6] = 15 /\ t[7] = 18
      /\ t[8] = 21 /\ t[9] = 24 /\ t[10] = 27 /\ t[11] = 30 /\ t[12] = 33 /\ t[13] = 36
      /\ t[14] = 39 /\ t[15] = 42 /\ t[16] = 45
  BY DEF interleaver_pattern
<1>2. /\ t[17] = 1 /\ t[18] = 4 /\ t[19] = 7 /\ t[20] = 10 /\ t[21] = 13 /\ t[22] = 16
      /\ t[23] = 19 /\ t[24] = 22 /\ t[25] = 25 /\ t[26] = 28 /\ t[27] = 31 /\ t[28] = 34
      /\ t[29] = 37 /\ t[30] = 40 /\ t[31] = 43 /\ t[32] = 46
  BY DEF interleaver_pattern
<1>3. /\ t[33] = 2 /\ t[34] = 5 /\ t[35] = 8 /\ t[36] = 11 /\ t[37] = 14 /\ t[38] = 17
      /\ t[39] = 20 /\ t[40] = 23 /\ t[41] = 26 /\ t[42] = 29 /\ t[43] = 32 /\ t[44] = 35
      /\ t[45] = 38 /\ t[46] = 41 /\ t[47] = 44 /\ t[48] = 47
  BY DEF interleaver_pattern
<1> HIDE DEF t
<1>4. \A k \in 0..15 : t[k + 1] = 3 * k
  BY <1>1
<1>5. \A k \in 0..15 : t[k + 17] = 3 * k + 1
  BY <1>2
<1>6. \A k \in 0..15 : t[k + 33] = 3 * k + 2
  BY <1>3
<1>7. QED
  BY <1>4, <1>5, <1>6, Zenon DEF t

LEMMA PatternInverts ==
  ASSUME NEW k \in 1..48
  PROVE  interleaver_pattern[k] \in 0..47 /\ InFrame(0, interleaver_pattern[k]) = k - 1
<1>1. ofdm_param[0].n_cbps = 48
  BY Parameters DEF Encoding
<1>2. ASSUME NEW p \in 0..47 PROVE InFrame(0, p) = Position(0, p)
  <2>1. p \div 48 = 0 /\ p % 48 = p
    OBVIOUS
  <2>2. InFrame(0, p) = 48 * (p \div 48) + Position(0, p % 48)
    BY <1>1, Zenon DEF InFrame
  <2>3. Position(0, p) \in 0..47
    <3>1. Within(0, ofdm_param[0].n_cbps - 1)
      BY PositionPermutes DEF Encoding
    <3>2. ofdm_param[0].n_cbps - 1 = 47
      BY <1>1
    <3>3. QED
      BY <3>1, <3>2, Zenon DEF Within
  <2>4. QED
    BY <2>1, <2>2, <2>3
<1>3. PICK r \in 0..2, q \in 0..15 : k = 16 * r + q + 1
  <2>1. (k - 1) \div 16 \in 0..2 /\ (k - 1) % 16 \in 0..15
        /\ k = 16 * ((k - 1) \div 16) + ((k - 1) % 16) + 1
    OBVIOUS
  <2>2. QED
    BY <2>1
<1>4. interleaver_pattern[k] = 3 * q + r
  <2>1. CASE r = 0
    BY <1>3, <2>1, PatternEntries
  <2>2. CASE r = 1
    BY <1>3, <2>2, PatternEntries
  <2>3. CASE r = 2
    BY <1>3, <2>3, PatternEntries
  <2>4. QED
    BY <2>1, <2>2, <2>3
<1>5. Position(0, 3 * q + r) = 16 * r + q
  BY Position48
<1>6. 3 * q + r \in 0..47
  OBVIOUS
<1>7. InFrame(0, 3 * q + r) = 16 * r + q
  BY <1>2, <1>5, <1>6
<1>8. QED
  BY <1>3, <1>4, <1>6, <1>7

(* What the decoder makes of a SIGNAL symbol without errors.                 *)
LEMMA SignalDecoded ==
  ASSUME NEW h \in [1..24 -> {0, 1}]
  PROVE  viterbi(d_deinterleaved(interleave(convolutional_encoding(h), 0)), 24) = h
<1> DEFINE coded == convolutional_encoding(h)
           x == d_deinterleaved(interleave(coded, 0))
<1>1. coded \in [1..48 -> {0, 1}]
  <2>1. coded \in [1..2 * 24 -> {0, 1}]
    BY EncodedBits
  <2>2. 2 * 24 = 48
    OBVIOUS
  <2>3. QED
    BY <2>1, <2>2
<1>2. ASSUME NEW k \in 1..48 PROVE x[k] = coded[k]
  <2>1. DOMAIN coded = 1..48
    BY <1>1
  <2>2. PICK p \in 0..47 : p = interleaver_pattern[k] /\ InFrame(0, p) = k - 1
    BY PatternInverts, Zenon
  <2>3. PICK i \in 1..48 : i = p + 1 /\ i - 1 = p /\ k - 1 + 1 = k
    OBVIOUS
  <2>4. x[k] = interleave(coded, 0)[p + 1]
    BY <2>2, Zenon DEF d_deinterleaved
  <2>5. interleave(coded, 0)[i] = coded[InFrame(0, i - 1) + 1]
    BY <2>1, Zenon DEF interleave
  <2>6. QED
    BY <2>2, <2>3, <2>4, <2>5, Zenon
<1>3. x = [k \in 1..48 |-> x[k]]
  BY Zenon DEF d_deinterleaved
<1>4. coded = [k \in 1..48 |-> coded[k]]
  BY <1>1, Zenon
<1> HIDE DEF x
<1>5. x = coded
  BY <1>2, <1>3, <1>4, Zenon
<1>6. Agrees(coded, coded, 24)
  <2> HIDE DEF coded
  <2>1. coded \in [1..2 * 24 -> 0..2]
    BY <1>1
  <2>2. \A k \in 1..48 : coded[k] # 2
    BY <1>1
  <2>3. \A i \in 1..24 : 2 * i \in 1..48
    OBVIOUS
  <2>4. QED
    BY <2>1, <2>2, <2>3 DEF Agrees
<1>7. viterbi(coded, 24) = h
  <2>1. 24 \in Nat
    OBVIOUS
  <2>2. QED
    BY <1>6, <2>1, DecoderInverts, Zenon
<1>8. QED
  BY <1>5, <1>7, Zenon DEF x

OnesIn(b, N) == {k \in 1..N : b[k] = 1}

LEMMA OnesFinite ==
  ASSUME NEW b, NEW N \in Nat
  PROVE  IsFiniteSet(OnesIn(b, N)) /\ Cardinality(OnesIn(b, N)) \in Nat
<1>1. IsFiniteSet(1..N)
  BY FS_Interval
<1>2. OnesIn(b, N) \subseteq 1..N
  BY DEF OnesIn
<1>3. QED
  BY <1>1, <1>2, FS_Subset, FS_CardinalityType

(* The header that the transmitter makes.                                    *)
IsHeader(h, c, L) ==
  /\ h \in [1..24 -> {0, 1}]
  /\ \A k \in 1..4 : h[k] = Bit(ofdm_param[c].rate_field, 4 - k)
  /\ \A k \in 6..17 : h[k] = Bit(L, k - 6)
  /\ h[18] = Cardinality(OnesIn(h, 17)) % 2

LEMMA HeaderMade ==
  ASSUME NEW c \in Encoding, NEW L \in Nat
  PROVE  IsHeader(signal_header(c, L), c, L)
<1> DEFINE data == SignalData(c, L)
           par == OnesOf(data) % 2
           tail == <<par, 0, 0, 0, 0, 0, 0>>
           h == signal_header(c, L)
<1>1. ofdm_param[c].rate_field \in Nat
  BY DEF ofdm_param, Encoding
<1>2. ASSUME NEW k \in 1..17 PROVE data[k] \in {0, 1}
  <2>1. CASE k \in 1..4
    <3>1. data[k] = Bit(ofdm_param[c].rate_field, 4 - k)
      BY <2>1 DEF SignalData
    <3>2. 4 - k \in 0..11
      BY <2>1
    <3>3. QED
      BY <1>1, <3>1, <3>2, BitIn, Zenon
  <2>2. CASE k = 5
    BY <2>2 DEF SignalData
  <2>3. CASE k \in 6..17
    <3>1. data[k] = Bit(L, k - 6)
      BY <2>3 DEF SignalData
    <3>2. k - 6 \in 0..11
      BY <2>3
    <3>3. QED
      BY <3>1, <3>2, BitIn, Zenon
  <2>4. QED
    BY <2>1, <2>2, <2>3
<1>3. data \in [1..17 -> {0, 1}]
  BY <1>2, Zenon DEF SignalData
<1>4. /\ \A k \in 1..4 : data[k] = Bit(ofdm_param[c].rate_field, 4 - k)
      /\ \A k \in 6..17 : data[k] = Bit(L, k - 6)
  BY DEF SignalData
<1> HIDE DEF data
<1>5. OnesOf(data) = Cardinality(OnesIn(data, 17))
  <2>1. DOMAIN data = 1..17
    BY <1>3
  <2>2. QED
    BY <2>1, Zenon DEF OnesOf, OnesIn
<1>6. par \in {0, 1}
  <2>1. 17 \in Nat
    OBVIOUS
  <2>2. OnesOf(data) \in Nat
    BY <1>5, <2>1, OnesFinite, Zenon
  <2>3. QED
    BY <2>2
<1> HIDE DEF par
<1>7. data \in Seq({0, 1}) /\ Len(data) = 17
  <2>1. 17 \in Nat
    OBVIOUS
  <2>2. QED
    BY <1>3, <2>1, AsSequence, Zenon
<1>8. tail \in Seq({0, 1}) /\ Len(tail) = 7 /\ tail[1] = par
  BY <1>6
<1>9. h = data \o tail
  BY Zenon DEF signal_header, data, par
<1> HIDE DEF tail, h
<1>10. /\ h \in Seq({0, 1}) /\ Len(h) = 24
       /\ \A k \in 1..24 : h[k] = IF k <= 17 THEN data[k] ELSE tail[k - 17]
  <2>1. /\ data \o tail \in Seq({0, 1})
        /\ Len(data \o tail) = Len(data) + Len(tail)
        /\ \A k \in 1..Len(data) + Len(tail) :
             (data \o tail)[k] = IF k <= Len(data) THEN data[k] ELSE tail[k - Len(data)]
    BY <1>7, <1>8, ConcatProperties
  <2>2. Len(data) + Len(tail) = 24
    BY <1>7, <1>8
  <2>3. QED
    BY <1>7, <1>9, <2>1, <2>2
<1>11. h \in [1..24 -> {0, 1}]
  BY <1>10, BytesIn, Zenon
<1>12. \A k \in 1..17 : h[k] = data[k]
  BY <1>10, SMTT(30)
<1>13. h[18] = par
  BY <1>8, <1>10
<1>14. OnesIn(h, 17) = OnesIn(data, 17)
  BY <1>12, Zenon DEF OnesIn
<1>15. h[18] = Cardinality(OnesIn(h, 17)) % 2
  BY <1>5, <1>13, <1>14, Zenon DEF par
<1>16. /\ \A k \in 1..4 : h[k] = Bit(ofdm_param[c].rate_field, 4 - k)
       /\ \A k \in 6..17 : h[k] = Bit(L, k - 6)
  BY <1>4, <1>12
<1>17. IsHeader(h, c, L)
  BY <1>11, <1>15, <1>16, Zenon DEF IsHeader
<1>18. QED
  BY <1>17 DEF h

(* What parse_signal looks at.                                               *)
LEMMA Parsed ==
  ASSUME NEW b \in [1..24 -> {0, 1}]
  PROVE  parse_signal(b) =
           [ok |-> /\ Cardinality(OnesIn(b, 17)) % 2 = b[18]
                   /\ EncodingOf(b[1] + 2 * b[2] + 4 * b[3] + 8 * b[4]) # -1,
            encoding |-> EncodingOf(b[1] + 2 * b[2] + 4 * b[3] + 8 * b[4]),
            bytes |-> Number([k \in 1..12 |-> b[k + 5]])]
<1> DEFINE front == SubSeq(b, 1, 17)
           field == SubSeq(b, 6, 17)
<1>1. b \in Seq({0, 1}) /\ Len(b) = 24
  <2>1. 24 \in Nat
    OBVIOUS
  <2>2. QED
    BY <2>1, AsSequence, Zenon
<1>2. DOMAIN front = 1..17 /\ \A k \in 1..17 : front[k] = b[k]
  BY <1>1
<1>3. DOMAIN field = 1..12 /\ \A k \in 1..12 : field[k] = b[k + 5]
  BY <1>1
<1>4. field \in Seq({0, 1})
  BY <1>1, SubSeqProperties
<1>5. field = [k \in 1..12 |-> b[k + 5]]
  <2> HIDE DEF field
  <2>1. field = [k \in 1..12 |-> field[k]]
    BY <1>3, <1>4, BytesIn, Zenon
  <2>2. QED
    BY <1>3, <2>1, Zenon
<1> HIDE DEF front, field
<1>6. OnesOf(front) = Cardinality(OnesIn(b, 17))
  <2>1. {k \in DOMAIN front : front[k] = 1} = {k \in 1..17 : b[k] = 1}
    BY <1>2, Zenon
  <2>2. QED
    BY <2>1, Zenon DEF OnesOf, OnesIn
<1>7. QED
  BY <1>5, <1>6, Zenon DEF parse_signal, front, field

Header(c, L) == [ok |-> TRUE, encoding |-> c, bytes |-> L % 4096]

SameUpTo18(b, h) == \A k \in 1..18 : b[k] = h[k]

LEMMA HeaderParsed ==
  ASSUME NEW c \in Encoding, NEW L \in Nat, NEW h, IsHeader(h, c, L),
         NEW b \in [1..24 -> {0, 1}], SameUpTo18(b, h)
  PROVE  parse_signal(b) = Header(c, L)
<1>1. Cardinality(OnesIn(b, 17)) % 2 = b[18]
  <2>1. \A k \in 1..17 : b[k] = h[k]
    BY DEF SameUpTo18
  <2>2. OnesIn(b, 17) = OnesIn(h, 17)
    BY <2>1, Zenon DEF OnesIn
  <2>3. b[18] = h[18]
    BY DEF SameUpTo18
  <2>4. h[18] = Cardinality(OnesIn(h, 17)) % 2
    BY Zenon DEF IsHeader
  <2>5. QED
    BY <2>2, <2>3, <2>4, Zenon
<1>2. b[1] + 2 * b[2] + 4 * b[3] + 8 * b[4]
        = CASE c = 0 -> 11 [] c = 1 -> 15 [] c = 2 -> 10 [] c = 3 -> 14
            [] c = 4 -> 9 [] c = 5 -> 13 [] c = 6 -> 8 [] c = 7 -> 12
  <2> DEFINE rate == ofdm_param[c].rate_field
  <2>1. /\ b[1] = Bit(rate, 3) /\ b[2] = Bit(rate, 2) /\ b[3] = Bit(rate, 1) /\ b[4] = Bit(rate, 0)
    <3>1. \A k \in 1..4 : b[k] = Bit(rate, 4 - k)
      BY DEF SameUpTo18, IsHeader
    <3> HIDE DEF rate
    <3>2. QED
      BY <3>1
  <2>2. rate = CASE c = 0 -> 13 [] c = 1 -> 15 [] c = 2 -> 5 [] c = 3 -> 7
                 [] c = 4 -> 9 [] c = 5 -> 11 [] c = 6 -> 1 [] c = 7 -> 3
    BY DEF ofdm_param, Encoding
  <2> HIDE DEF rate
  <2>3. 2^0 = 1 /\ 2^1 = 2 /\ 2^2 = 4 /\ 2^3 = 8
    BY PowersOfTwo DEF Powers
  <2>4. /\ b[1] = (rate \div 8) % 2 /\ b[2] = (rate \div 4) % 2
        /\ b[3] = (rate \div 2) % 2 /\ b[4] = (rate \div 1) % 2
    BY <2>1, <2>3 DEF Bit
  <2>5. c = 0 \/ c = 1 \/ c = 2 \/ c = 3 \/ c = 4 \/ c = 5 \/ c = 6 \/ c = 7
    BY DEF Encoding
  <2>6. CASE c = 0
    <3>1. rate = 13
      BY <2>2, <2>6
    <3>2. b[1] = 1 /\ b[2] = 1 /\ b[3] = 0 /\ b[4] = 1
      BY <2>4, <3>1
    <3>3. QED
      BY <2>6, <3>2
  <2>7. CASE c = 1
    <3>1. rate = 15
      BY <2>2, <2>7
    <3>2. b[1] = 1 /\ b[2] = 1 /\ b[3] = 1 /\ b[4] = 1
      BY <2>4, <3>1
    <3>3. QED
      BY <2>7, <3>2
  <2>8. CASE c = 2
    <3>1. rate = 5
      BY <2>2, <2>8
    <3>2. b[1] = 0 /\ b[2] = 1 /\ b[3] = 0 /\ b[4] = 1
      BY <2>4, <3>1
    <3>3. QED
      BY <2>8, <3>2
  <2>9. CASE c = 3
    <3>1. rate = 7
      BY <2>2, <2>9
    <3>2. b[1] = 0 /\ b[2] = 1 /\ b[3] = 1 /\ b[4] = 1
      BY <2>4, <3>1
    <3>3. QED
      BY <2>9, <3>2
  <2>10. CASE c = 4
    <3>1. rate = 9
      BY <2>2, <2>10
    <3>2. b[1] = 1 /\ b[2] = 0 /\ b[3] = 0 /\ b[4] = 1
      BY <2>4, <3>1
    <3>3. QED
      BY <2>10, <3>2
  <2>11. CASE c = 5
    <3>1. rate = 11
      BY <2>2, <2>11
    <3>2. b[1] = 1 /\ b[2] = 0 /\ b[3] = 1 /\ b[4] = 1
      BY <2>4, <3>1
    <3>3. QED
      BY <2>11, <3>2
  <2>12. CASE c = 6
    <3>1. rate = 1
      BY <2>2, <2>12
    <3>2. b[1] = 0 /\ b[2] = 0 /\ b[3] = 0 /\ b[4] = 1
      BY <2>4, <3>1
    <3>3. QED
      BY <2>12, <3>2
  <2>13. CASE c = 7
    <3>1. rate = 3
      BY <2>2, <2>13
    <3>2. b[1] = 0 /\ b[2] = 0 /\ b[3] = 1 /\ b[4] = 1
      BY <2>4, <3>1
    <3>3. QED
      BY <2>13, <3>2
  <2>14. QED
    BY <2>5, <2>6, <2>7, <2>8, <2>9, <2>10, <2>11, <2>12, <2>13
<1>3. EncodingOf(b[1] + 2 * b[2] + 4 * b[3] + 8 * b[4]) = c
  BY <1>2 DEF EncodingOf, Encoding
<1>4. Number([k \in 1..12 |-> b[k + 5]]) = L % 4096
  <2>1. ASSUME NEW k \in 1..12 PROVE b[k + 5] = Bit(L, k - 1)
    <3>1. PICK m \in 6..17 : m = k + 5 /\ m - 6 = k - 1
      OBVIOUS
    <3>2. m \in 1..18
      OBVIOUS
    <3>3. b[m] = Bit(L, m - 6)
      BY <3>2, Zenon DEF SameUpTo18, IsHeader
    <3>4. QED
      BY <3>1, <3>3, Zenon
  <2>2. [k \in 1..12 |-> b[k + 5]] = LowBits(L, 12)
    BY <2>1, Zenon DEF LowBits
  <2>3. Number(LowBits(L, 12)) = L % 4096
    BY NumberOfBits
  <2>4. QED
    BY <2>2, <2>3
<1>5. c # -1
  BY DEF Encoding
<1>6. QED
  BY <1>1, <1>3, <1>4, <1>5, Parsed DEF Header

(* Parity over rate, reserved bit, length and the parity bit.                *)
LEMMA ParityBit ==
  ASSUME NEW b \in [1..24 -> {0, 1}]
  PROVE  Cardinality(OnesIn(b, 17)) % 2 = b[18] <=> Cardinality(OnesIn(b, 18)) % 2 = 0
<1>1. IsFiniteSet(OnesIn(b, 17)) /\ Cardinality(OnesIn(b, 17)) \in Nat
  BY OnesFinite
<1>2. b[18] = 0 \/ b[18] = 1
  OBVIOUS
<1>3. CASE b[18] = 0
  <2>1. OnesIn(b, 18) = OnesIn(b, 17)
    BY <1>3 DEF OnesIn
  <2>2. QED
    BY <1>3, <2>1, Zenon
<1>4. CASE b[18] = 1
  <2>1. OnesIn(b, 18) = OnesIn(b, 17) \union {18} /\ 18 \notin OnesIn(b, 17)
    BY <1>4 DEF OnesIn
  <2>2. Cardinality(OnesIn(b, 18)) = Cardinality(OnesIn(b, 17)) + 1
    BY <1>1, <2>1, FS_AddElement
  <2>3. QED
    BY <1>1, <1>4, <2>2
<1>5. QED
  BY <1>2, <1>3, <1>4

LEMMA Differences ==
  ASSUME NEW A, NEW B, IsFiniteSet(A), IsFiniteSet(B)
  PROVE  \E common \in Nat :
           Cardinality((A \ B) \union (B \ A)) + 2 * common = Cardinality(A) + Cardinality(B)
<1>1. /\ IsFiniteSet(A \ B) /\ IsFiniteSet(B \ A) /\ IsFiniteSet(A \intersect B)
  <2>1. A \ B \subseteq A /\ B \ A \subseteq B /\ A \intersect B \subseteq A
    OBVIOUS
  <2>2. QED
    BY <2>1, FS_Subset
<1>2. /\ Cardinality(A \ B) \in Nat /\ Cardinality(B \ A) \in Nat
      /\ Cardinality(A \intersect B) \in Nat /\ Cardinality({}) = 0
  BY <1>1, FS_CardinalityType, FS_EmptySet
<1>3. Cardinality(A \ B) = Cardinality(A) - Cardinality(A \intersect B)
  BY FS_Difference, Zenon
<1>4. Cardinality(B \ A) = Cardinality(B) - Cardinality(A \intersect B)
  <2>1. B \intersect A = A \intersect B
    OBVIOUS
  <2>2. Cardinality(B \ A) = Cardinality(B) - Cardinality(B \intersect A)
    BY FS_Difference, Zenon
  <2>3. QED
    BY <2>1, <2>2
<1>5. Cardinality((A \ B) \union (B \ A)) = Cardinality(A \ B) + Cardinality(B \ A)
  <2>1. (A \ B) \intersect (B \ A) = {}
    OBVIOUS
  <2>2. Cardinality((A \ B) \union (B \ A)) =
          Cardinality(A \ B) + Cardinality(B \ A) - Cardinality((A \ B) \intersect (B \ A))
    BY <1>1, FS_Union, Zenon
  <2>3. QED
    BY <1>2, <2>1, <2>2
<1>6. Cardinality(A) \in Nat /\ Cardinality(B) \in Nat
  BY FS_CardinalityType
<1>7. PICK common \in Nat : common = Cardinality(A \intersect B)
  BY <1>2, Zenon
<1>8. Cardinality((A \ B) \union (B \ A)) + 2 * common = Cardinality(A) + Cardinality(B)
  BY <1>2, <1>3, <1>4, <1>5, <1>6, <1>7
<1>9. QED
  BY <1>8, Zenon

WrongIn18(b, h) == {k \in 1..18 : b[k] # h[k]}

LEMMA OddFound ==
  ASSUME NEW c, NEW L, NEW h, IsHeader(h, c, L), NEW b \in [1..24 -> {0, 1}],
         Cardinality(WrongIn18(b, h)) % 2 = 1
  PROVE  ~parse_signal(b).ok
<1>1. h \in [1..24 -> {0, 1}]
  BY DEF IsHeader
<1> DEFINE A == OnesIn(b, 18)
           H == OnesIn(h, 18)
<1>2. IsFiniteSet(A) /\ IsFiniteSet(H) /\ Cardinality(A) \in Nat /\ Cardinality(H) \in Nat
  BY OnesFinite
<1>3. Cardinality(H) % 2 = 0
  BY <1>1, ParityBit DEF IsHeader
<1>4. WrongIn18(b, h) = (A \ H) \union (H \ A)
  <2>1. \A k \in 1..18 : b[k] \in {0, 1} /\ h[k] \in {0, 1}
    BY <1>1
  <2>2. QED
    BY <2>1 DEF WrongIn18, OnesIn
<1>5. PICK common \in Nat :
        Cardinality((A \ H) \union (H \ A)) + 2 * common = Cardinality(A) + Cardinality(H)
  BY <1>2, Differences
<1> HIDE DEF A, H
<1>6. Cardinality(A) % 2 # 0
  <2>1. PICK x \in Nat : x = Cardinality(A)
    BY <1>2
  <2>2. PICK z \in Nat : z = Cardinality(H)
    BY <1>2
  <2>3. PICK v : v = Cardinality(WrongIn18(b, h))
    OBVIOUS
  <2>4. v + 2 * common = x + z
    BY <1>4, <1>5, <2>1, <2>2, <2>3, Zenon
  <2>5. v \in Int
    <3>1. IsFiniteSet(A \ H) /\ IsFiniteSet(H \ A)
      BY <1>2, FS_Difference
    <3>2. Cardinality((A \ H) \union (H \ A)) \in Nat
      BY <3>1, FS_Union, FS_CardinalityType
    <3>3. QED
      BY <1>4, <2>3, <3>2
  <2>6. v % 2 = 1 /\ z % 2 = 0
    BY <1>3, <2>2, <2>3
  <2>7. x % 2 # 0
    BY <2>4, <2>5, <2>6
  <2>8. QED
    BY <2>1, <2>7
<1>7. ~(Cardinality(OnesIn(b, 17)) % 2 = b[18])
  BY <1>6, ParityBit DEF A
<1>8. parse_signal(b).ok <=> /\ Cardinality(OnesIn(b, 17)) % 2 = b[18]
                             /\ EncodingOf(b[1] + 2 * b[2] + 4 * b[3] + 8 * b[4]) # -1
  <2> DEFINE found == Cardinality(OnesIn(b, 17)) % 2 = b[18]
             code == EncodingOf(b[1] + 2 * b[2] + 4 * b[3] + 8 * b[4])
             count == Number([k \in 1..12 |-> b[k + 5]])
  <2>1. parse_signal(b) = [ok |-> found /\ code # -1, encoding |-> code, bytes |-> count]
    BY Parsed, Zenon
  <2> HIDE DEF found, code, count
  <2>2. PICK both : both = (found /\ code # -1)
    BY Zenon
  <2>3. parse_signal(b) = [ok |-> both, encoding |-> code, bytes |-> count]
    BY <2>1, <2>2, Zenon
  <2>4. parse_signal(b).ok = both
    BY <2>3
  <2>5. QED
    BY <2>2, <2>4, Zenon DEF found, code
<1>9. QED
  BY <1>7, <1>8, Zenon

-----------------------------------------------------------------------------
(* The SIGNAL symbol of one frame, and the two receivers of it *)

(* What is on the air, and what the hard decision makes of it.               *)
OnAir ==
  /\ air # <<>> => /\ encoding \in Encoding /\ psdu_len \in Nat
                   /\ air = generate_signal_field(encoding, psdu_len)
  /\ bits # <<>> => air # <<>>
  /\ pc = "idle" /\ bits # <<>> => bits = signal_header(encoding, psdu_len)

(* A header that was read of b when h was sent, with the differences noted.  *)
Differ(F, b, h) == F = {k \in 1..24 : b[k] # h[k]}

ReadOf(parsed, F, b, h) == parsed = parse_signal(b) /\ Differ(F, b, h)

HeaderRead ==
  header # NotYet =>
    /\ air # <<>>
    /\ \E b \in [1..24 -> {0, 1}] :
         ReadOf(header, flipped, b, signal_header(encoding, psdu_len))

(* The soft receiver has the word of the generator before it.                *)
SoftWord ==
  /\ pc = "idle" => kind = "none"
  /\ kind = "signal" => air # <<>> /\ sent = signal_header(encoding, psdu_len)

(* Before the decoder has run, and the two loops of it on a SIGNAL symbol.   *)
NotRun ==
  /\ position = 0 /\ prev_state0 = 0
  /\ d_survivors = <<>> /\ d_inputs = <<>> /\ decoded_bits = <<>>

Loops ==
  /\ position \in 0..24 /\ prev_state0 \in States
  /\ d_survivors \in Seq([States -> States]) /\ d_inputs \in Seq([States -> {0, 1}])
  /\ pc = "deinterleave" => position = 0
  /\ pc # "traceback" => /\ Len(d_survivors) = position /\ Len(d_inputs) = position
                         /\ decoded_bits = <<>>
  /\ pc = "traceback" => /\ Len(d_survivors) = 24 /\ Len(d_inputs) = 24
                         /\ decoded_bits \in Seq({0, 1}) /\ Len(decoded_bits) = 24 - position

Decoding ==
  /\ pc = "idle" => NotRun
  /\ kind = "signal" => Loops

SoftIInv == OnAir /\ HeaderRead /\ SoftWord /\ Decoding

LEMMA SoftStarts == SoftInit => SoftIInv
<1> SUFFICES ASSUME SoftInit PROVE SoftIInv
  OBVIOUS
<1>1. OnAir /\ SoftWord
  BY DEF SoftInit, Init, OnAir, SoftWord
<1>2. HeaderRead
  BY DEF SoftInit, Init, HeaderRead
<1>3. Decoding
  BY DEF SoftInit, Decoding, NotRun
<1>4. QED
  BY <1>1, <1>2, <1>3 DEF SoftIInv

(* The word that is sent is 24 bits.                                         *)
LEMMA HeaderIsWord ==
  ASSUME NEW c \in Encoding, NEW L \in Nat
  PROVE  /\ IsHeader(signal_header(c, L), c, L)
         /\ signal_header(c, L) \in [1..24 -> {0, 1}]
BY HeaderMade DEF IsHeader

LEMMA HeaderFormatted ==
  ASSUME SoftIInv, pc = "idle", header_formatter, UNCHANGED decoderVars
  PROVE  SoftIInv'
<1>1. /\ air = <<>> /\ encoding' \in Encoding /\ psdu_len' \in Nat
      /\ air' = generate_signal_field(encoding', psdu_len')
      /\ UNCHANGED <<bits, flipped, header>>
  BY SignalAssumption DEF header_formatter
<1>2. UNCHANGED <<kind, sent, position, d_survivors, d_inputs, prev_state0, decoded_bits, pc>>
  BY DEF decoderVars, symbolVars
<1>3. bits = <<>> /\ header = NotYet /\ kind = "none"
  BY <1>1 DEF SoftIInv, OnAir, HeaderRead, SoftWord
<1>4. OnAir'
  BY <1>1, <1>3 DEF OnAir
<1>5. HeaderRead'
  BY <1>1, <1>3 DEF HeaderRead
<1>6. SoftWord'
  BY <1>2, <1>3 DEF SoftWord
<1>7. Decoding'
  BY <1>2 DEF SoftIInv, Decoding, NotRun, Loops
<1>8. QED
  BY <1>4, <1>5, <1>6, <1>7 DEF SoftIInv

LEMMA HardDecided ==
  ASSUME SoftIInv, pc = "idle", decode, UNCHANGED decoderVars
  PROVE  SoftIInv'
<1>1. /\ air # <<>> /\ bits' = viterbi(d_deinterleaved(air), 24)
      /\ UNCHANGED <<encoding, psdu_len, air, flipped, header>>
  BY DEF decode
<1>2. UNCHANGED <<kind, sent, position, d_survivors, d_inputs, prev_state0, decoded_bits, pc>>
  BY DEF decoderVars, symbolVars
<1>3. /\ encoding \in Encoding /\ psdu_len \in Nat
      /\ air = generate_signal_field(encoding, psdu_len)
  BY <1>1 DEF SoftIInv, OnAir
<1>4. bits' = signal_header(encoding, psdu_len)
  <2>1. PICK h : h = signal_header(encoding, psdu_len)
    OBVIOUS
  <2>2. h \in [1..24 -> {0, 1}]
    BY <1>3, <2>1, HeaderIsWord
  <2>3. air = interleave(convolutional_encoding(h), 0)
    BY <1>3, <2>1, Zenon DEF generate_signal_field
  <2>4. bits' = h
    BY <1>1, <2>2, <2>3, SignalDecoded, Zenon
  <2>5. QED
    BY <2>1, <2>4
<1>5. OnAir'
  BY <1>1, <1>3, <1>4 DEF OnAir
<1>6. HeaderRead'
  BY <1>1 DEF SoftIInv, HeaderRead
<1>7. SoftWord'
  BY <1>1, <1>2 DEF SoftIInv, SoftWord
<1>8. Decoding'
  BY <1>2 DEF SoftIInv, Decoding, NotRun, Loops
<1>9. QED
  BY <1>5, <1>6, <1>7, <1>8 DEF SoftIInv

(* The bits that are turned round are those that differ.                     *)
TurnedRound(F, h) == [k \in 1..24 |-> IF k \in F THEN 1 - h[k] ELSE h[k]]

LEMMA FlippedDiffer ==
  ASSUME NEW h \in [1..24 -> {0, 1}], NEW F \in SUBSET (1..24)
  PROVE  /\ TurnedRound(F, h) \in [1..24 -> {0, 1}]
         /\ Differ(F, TurnedRound(F, h), h)
<1>1. \A k \in 1..24 : h[k] \in {0, 1}
  OBVIOUS
<1>2. \A k \in 1..24 : TurnedRound(F, h)[k] \in {0, 1} /\ (k \in F <=> TurnedRound(F, h)[k] # h[k])
  BY <1>1 DEF TurnedRound
<1>3. TurnedRound(F, h) = [k \in 1..24 |-> TurnedRound(F, h)[k]]
  BY DEF TurnedRound
<1>4. QED
  BY <1>2, <1>3 DEF Differ

LEMMA HardParsed ==
  ASSUME SoftIInv, pc = "idle", decode_signal_field, UNCHANGED decoderVars
  PROVE  SoftIInv'
<1>1. /\ bits # <<>> /\ flipped' \in SUBSET (1..24)
      /\ header' = parse_signal([k \in 1..24 |-> IF k \in flipped' THEN 1 - bits[k] ELSE bits[k]])
      /\ UNCHANGED <<encoding, psdu_len, air, bits>>
  BY SignalAssumption DEF decode_signal_field
<1>2. UNCHANGED <<kind, sent, position, d_survivors, d_inputs, prev_state0, decoded_bits, pc>>
  BY DEF decoderVars, symbolVars
<1>3. /\ air # <<>> /\ encoding \in Encoding /\ psdu_len \in Nat
      /\ bits = signal_header(encoding, psdu_len)
  BY <1>1 DEF SoftIInv, OnAir
<1>4. OnAir'
  BY <1>1, <1>2 DEF SoftIInv, OnAir
<1>5. HeaderRead'
  <2>1. bits \in [1..24 -> {0, 1}]
    BY <1>3, HeaderIsWord
  <2>2. PICK b : b = TurnedRound(flipped', bits)
    OBVIOUS
  <2>3. b \in [1..24 -> {0, 1}] /\ Differ(flipped', b, bits)
    BY <1>1, <2>1, <2>2, FlippedDiffer, Zenon
  <2>4. header' = parse_signal(b)
    BY <1>1, <2>2, Zenon DEF TurnedRound
  <2>5. ReadOf(header', flipped', b, signal_header(encoding', psdu_len'))
    BY <1>1, <1>3, <2>3, <2>4, Zenon DEF ReadOf
  <2>6. QED
    BY <1>1, <1>3, <2>3, <2>5 DEF HeaderRead
<1>6. SoftWord'
  BY <1>1, <1>2 DEF SoftIInv, SoftWord
<1>7. Decoding'
  BY <1>2 DEF SoftIInv, Decoding, NotRun, Loops
<1>8. QED
  BY <1>4, <1>5, <1>6, <1>7 DEF SoftIInv

LEMMA ArriveSets ==
  ASSUME NEW symbolKind, NEW word, NEW errors, Arrive(symbolKind, word, errors)
  PROVE  /\ pc = "idle" /\ pc' = "deinterleave" /\ kind' = symbolKind /\ sent' = word
         /\ UNCHANGED <<signalVars, position, d_survivors, d_inputs, prev_state0, decoded_bits>>
<1>1. /\ pc = "idle" /\ pc' = "deinterleave" /\ kind' = symbolKind /\ sent' = word
  BY Zenon DEF Arrive
<1>2. UNCHANGED <<signalVars, y, position, d_partial_metrics, d_survivors, d_inputs,
                  prev_state0, decoded_bits>>
  BY Zenon DEF Arrive
<1>3. QED
  BY <1>1, <1>2

LEMMA SymbolArrives ==
  ASSUME SoftIInv, SignalArrives \/ DataArrives
  PROVE  SoftIInv'
<1>1. PICK symbolKind, word, errors :
        /\ Arrive(symbolKind, word, errors)
        /\ \/ air # <<>> /\ symbolKind = "signal" /\ word = signal_header(encoding, psdu_len)
           \/ symbolKind = "data"
  <2>1. CASE SignalArrives
    BY <2>1, Zenon DEF SignalArrives
  <2>2. CASE DataArrives
    BY <2>2, Zenon DEF DataArrives
  <2>3. QED
    BY <2>1, <2>2
<1>2. /\ pc = "idle" /\ pc' = "deinterleave" /\ kind' = symbolKind /\ sent' = word
      /\ UNCHANGED <<signalVars, position, d_survivors, d_inputs, prev_state0, decoded_bits>>
  BY <1>1, ArriveSets, Zenon
<1>3. UNCHANGED <<encoding, psdu_len, air, bits, flipped, header>>
  BY <1>2 DEF signalVars
<1>4. OnAir'
  BY <1>2, <1>3 DEF SoftIInv, OnAir
<1>5. HeaderRead'
  BY <1>3 DEF SoftIInv, HeaderRead
<1>6. SoftWord'
  BY <1>1, <1>2, <1>3 DEF SoftWord
<1>7. Decoding'
  <2>1. NotRun /\ NotRun'
    BY <1>2 DEF SoftIInv, Decoding, NotRun
  <2>2. Loops'
    BY <1>2, <2>1 DEF NotRun, Loops, States
  <2>3. QED
    BY <1>2, <2>2 DEF Decoding
<1>8. QED
  BY <1>4, <1>5, <1>6, <1>7 DEF SoftIInv

(* Within the decoder the frame and its header stay as they are.             *)
LEMMA OutsideTheLoops ==
  ASSUME SoftIInv, pc # "idle", pc' # "idle", UNCHANGED <<signalVars, kind, sent>>
  PROVE  OnAir' /\ HeaderRead' /\ SoftWord'
<1>1. UNCHANGED <<encoding, psdu_len, air, bits, flipped, header>>
  BY DEF signalVars
<1>2. OnAir'
  BY <1>1 DEF SoftIInv, OnAir
<1>3. HeaderRead'
  BY <1>1 DEF SoftIInv, HeaderRead
<1>4. SoftWord'
  BY <1>1 DEF SoftIInv, SoftWord
<1>5. QED
  BY <1>2, <1>3, <1>4

LEMMA DecoderSteps ==
  ASSUME SoftIInv, SoftDeinterleave \/ Forward \/ Turn \/ Traceback
  PROVE  SoftIInv'
<1>1. OnAir' /\ HeaderRead' /\ SoftWord'
  <2>1. pc # "idle" /\ pc' # "idle" /\ UNCHANGED <<signalVars, kind, sent>>
    BY DEF SoftDeinterleave, Forward, Turn, Traceback, symbolVars
  <2>2. QED
    BY <2>1, OutsideTheLoops
<1>2. pc' # "idle" /\ kind' = kind
  BY DEF SoftDeinterleave, Forward, Turn, Traceback, symbolVars
<1>3. SUFFICES ASSUME kind = "signal" PROVE Loops'
  BY <1>1, <1>2 DEF SoftIInv, Decoding
<1>4. Loops /\ n = 24 /\ (pc # "idle")
  BY <1>3 DEF SoftIInv, Decoding, n, SoftDeinterleave, Forward, Turn, Traceback
<1>5. CASE SoftDeinterleave
  <2>1. /\ pc = "deinterleave" /\ pc' = "forward"
        /\ UNCHANGED <<position, d_survivors, d_inputs, prev_state0, decoded_bits>>
    BY <1>5 DEF SoftDeinterleave
  <2>2. QED
    BY <1>4, <2>1 DEF Loops
<1>6. CASE Forward
  <2> DEFINE came == [state \in States |-> [state2 \in States |-> Survivor(state2)][state] % 64]
             put == [state \in States |-> IF state > 31 THEN 1 ELSE 0]
  <2>1. /\ pc = "forward" /\ position < 24 /\ position' = position + 1
        /\ d_survivors' = Append(d_survivors, came) /\ d_inputs' = Append(d_inputs, put)
        /\ UNCHANGED <<prev_state0, decoded_bits, pc>>
    BY <1>4, <1>6 DEF Forward
  <2>2. came \in [States -> States]
    <3>1. ASSUME NEW x \in States PROVE came[x] \in States
      <4>1. Survivor(x) \in {2 * x, 2 * x + 1}
        BY DEF Survivor
      <4>2. Survivor(x) % 64 \in 0..63
        BY <4>1 DEF States
      <4>3. QED
        BY <4>2 DEF States
    <3>2. QED
      BY <3>1
  <2>3. put \in [States -> {0, 1}]
    OBVIOUS
  <2> HIDE DEF came, put
  <2>4. Loops
    BY <1>4
  <2>5. d_survivors' \in Seq([States -> States]) /\ Len(d_survivors') = Len(d_survivors) + 1
    BY <2>1, <2>2, <2>4 DEF Loops
  <2>6. d_inputs' \in Seq([States -> {0, 1}]) /\ Len(d_inputs') = Len(d_inputs) + 1
    BY <2>1, <2>3, <2>4 DEF Loops
  <2>7. QED
    BY <2>1, <2>4, <2>5, <2>6 DEF Loops
<1>7. CASE Turn
  <2>1. /\ pc = "forward" /\ position = 24 /\ prev_state0' = 0 /\ pc' = "traceback"
        /\ UNCHANGED <<position, d_survivors, d_inputs, decoded_bits>>
    BY <1>4, <1>7 DEF Turn
  <2>2. QED
    BY <1>4, <2>1 DEF Loops, States
<1>8. CASE Traceback
  <2>1. /\ pc = "traceback" /\ position > 0 /\ position' = position - 1
        /\ decoded_bits' = <<d_inputs[position][prev_state0]>> \o decoded_bits
        /\ prev_state0' = d_survivors[position][prev_state0]
        /\ UNCHANGED <<d_survivors, d_inputs, pc>>
    BY <1>8 DEF Traceback
  <2>2. Loops
    BY <1>4
  <2>3. position \in 1..24 /\ prev_state0 \in States
    BY <2>1, <2>2 DEF Loops
  <2>4. d_survivors[position] \in [States -> States] /\ d_inputs[position] \in [States -> {0, 1}]
    <3>1. /\ d_survivors \in Seq([States -> States]) /\ d_inputs \in Seq([States -> {0, 1}])
          /\ position \in 1..Len(d_survivors) /\ position \in 1..Len(d_inputs)
      BY <2>1, <2>2, <2>3 DEF Loops
    <3>2. QED
      BY <3>1, ElementOfSeq, Zenon
  <2>5. d_inputs[position][prev_state0] \in {0, 1} /\ prev_state0' \in States
    BY <2>1, <2>3, <2>4
  <2>6. PICK bit \in {0, 1} : bit = d_inputs[position][prev_state0]
    BY <2>5
  <2>7. decoded_bits' = <<bit>> \o decoded_bits
    BY <2>1, <2>6
  <2>8. decoded_bits \in Seq({0, 1}) /\ Len(decoded_bits) = 24 - position
    BY <2>1, <2>2 DEF Loops
  <2>9. decoded_bits' \in Seq({0, 1}) /\ Len(decoded_bits') = 1 + Len(decoded_bits)
    BY <2>7, <2>8
  <2>10. QED
    BY <2>1, <2>2, <2>3, <2>5, <2>8, <2>9 DEF Loops
<1>9. QED
  BY <1>5, <1>6, <1>7, <1>8

LEMMA SoftParsed ==
  ASSUME SoftIInv, s_decode_signal_field
  PROVE  SoftIInv'
<1>1. /\ kind = "signal" /\ pc = "traceback" /\ position = 0
      /\ header' = parse_signal(decoded_bits)
      /\ flipped' = {k \in 1..24 : decoded_bits[k] # sent[k]}
      /\ UNCHANGED <<encoding, psdu_len, air, decoderVars>>
  BY DEF s_decode_signal_field, Decoded
<1>2. UNCHANGED <<kind, sent, position, d_survivors, d_inputs, prev_state0, decoded_bits, pc>>
  BY <1>1 DEF decoderVars, symbolVars
<1>3. air # <<>> /\ sent = signal_header(encoding, psdu_len)
  BY <1>1 DEF SoftIInv, SoftWord
<1>4. OnAir'
  BY <1>1, <1>2, <1>3 DEF SoftIInv, OnAir
<1>5. decoded_bits \in [1..24 -> {0, 1}]
  <2>1. decoded_bits \in Seq({0, 1}) /\ Len(decoded_bits) = 24
    BY <1>1 DEF SoftIInv, Decoding, Loops
  <2>2. decoded_bits \in [1..Len(decoded_bits) -> {0, 1}]
    BY <2>1, LenProperties, Zenon
  <2>3. QED
    BY <2>1, <2>2, Zenon
<1>6. HeaderRead'
  <2>1. ReadOf(header', flipped', decoded_bits, signal_header(encoding', psdu_len'))
    BY <1>1, <1>3, Zenon DEF ReadOf, Differ
  <2>2. QED
    BY <1>1, <1>3, <1>5, <2>1 DEF HeaderRead
<1>7. SoftWord'
  BY <1>1, <1>2 DEF SoftIInv, SoftWord
<1>8. Decoding'
  BY <1>2 DEF SoftIInv, Decoding, NotRun, Loops
<1>9. QED
  BY <1>4, <1>6, <1>7, <1>8 DEF SoftIInv

LEMMA SoftInductive == SoftSpec => []SoftIInv
<1>1. SoftIInv /\ [SoftNext]_vars => SoftIInv'
  <2> SUFFICES ASSUME SoftIInv, [SoftNext]_vars PROVE SoftIInv'
    OBVIOUS
  <2>1. CASE HardReception
    <3>1. pc = "idle" /\ Next /\ UNCHANGED decoderVars
      BY <2>1 DEF HardReception
    <3>2. QED
      BY <3>1, HeaderFormatted, HardDecided, HardParsed DEF Next
  <2>2. CASE SignalArrives \/ DataArrives
    BY <2>2, SymbolArrives
  <2>3. CASE SoftDeinterleave \/ Forward \/ Turn \/ Traceback
    BY <2>3, DecoderSteps
  <2>4. CASE s_decode_signal_field
    BY <2>4, SoftParsed
  <2>5. CASE UNCHANGED vars
    <3>1. UNCHANGED <<encoding, psdu_len, air, bits, flipped, header>>
      BY <2>5 DEF vars, signalVars
    <3>2. UNCHANGED <<kind, sent, position, d_survivors, d_inputs, prev_state0, decoded_bits, pc>>
      BY <2>5 DEF vars, decoderVars, symbolVars
    <3>3. QED
      BY <3>1, <3>2 DEF SoftIInv, OnAir, HeaderRead, SoftWord, Decoding, NotRun, Loops
  <2>6. QED
    BY <2>1, <2>2, <2>3, <2>4, <2>5 DEF SoftNext
<1>2. QED
  BY SoftStarts, <1>1, PTL DEF SoftSpec

(* What a receiver reads of a SIGNAL symbol whose bits it decoded without an *)
(* error is the encoding and the length, modulo 4096, that the generator was *)
(* given (signal_field_impl.cc 57 to 83, frame_equalizer_impl.cc 264 to 330  *)
(* and 342, soft_frame_equalizer_impl.cc 343 to 350): for every encoding and *)
(* every length, by the hard and by the soft decision.                       *)
THEOREM SignalIsRead == SoftSpec => []HeaderAsSent
<1>1. SoftIInv => HeaderAsSent
  <2> SUFFICES ASSUME SoftIInv, header # NotYet, flipped \intersect (1..18) = {}
               PROVE  header = [ok |-> TRUE, encoding |-> encoding, bytes |-> psdu_len % 4096]
    BY DEF HeaderAsSent
  <2>1. air # <<>> /\ encoding \in Encoding /\ psdu_len \in Nat
    BY DEF SoftIInv, HeaderRead, OnAir
  <2>2. PICK h : h = signal_header(encoding, psdu_len)
    OBVIOUS
  <2>3. IsHeader(h, encoding, psdu_len)
    BY <2>1, <2>2, HeaderIsWord
  <2>4. PICK b \in [1..24 -> {0, 1}] : ReadOf(header, flipped, b, h)
    BY <2>2 DEF SoftIInv, HeaderRead
  <2>5. SameUpTo18(b, h)
    BY <2>4 DEF ReadOf, Differ, SameUpTo18
  <2>6. parse_signal(b) = Header(encoding, psdu_len)
    BY <2>1, <2>3, <2>5, HeaderParsed, Zenon
  <2>7. header = parse_signal(b)
    BY <2>4, Zenon DEF ReadOf
  <2>8. header = Header(encoding, psdu_len)
    BY <2>6, <2>7, Zenon
  <2>9. QED
    BY <2>8 DEF Header
<1>2. QED
  BY SoftInductive, <1>1, PTL

(* An odd number of wrong bits in rate, length and parity is never taken for *)
(* a header (frame_equalizer_impl.cc 276), whichever bits they are.          *)
THEOREM OddErrorsAreFound == SoftSpec => []OddErrorsFound
<1>1. SoftIInv => OddErrorsFound
  <2> SUFFICES ASSUME SoftIInv, Cardinality(flipped \intersect (1..18)) % 2 = 1
               PROVE  ~header.ok
    BY DEF OddErrorsFound
  <2>1. CASE header = NotYet
    BY <2>1, Zenon DEF NotYet
  <2>2. CASE header # NotYet
    <3>1. air # <<>> /\ encoding \in Encoding /\ psdu_len \in Nat
      BY <2>2 DEF SoftIInv, HeaderRead, OnAir
    <3>2. PICK h : h = signal_header(encoding, psdu_len)
      OBVIOUS
    <3>3. IsHeader(h, encoding, psdu_len)
      BY <3>1, <3>2, HeaderIsWord
    <3>4. PICK b \in [1..24 -> {0, 1}] : ReadOf(header, flipped, b, h)
      BY <2>2, <3>2 DEF SoftIInv, HeaderRead
    <3>5. flipped \intersect (1..18) = WrongIn18(b, h)
      BY <3>4 DEF ReadOf, Differ, WrongIn18
    <3>6. ~parse_signal(b).ok
      <4>1. Cardinality(WrongIn18(b, h)) % 2 = 1
        BY <3>5
      <4>2. QED
        BY <3>3, <4>1, OddFound, Zenon
    <3>7. QED
      BY <3>4, <3>6, Zenon DEF ReadOf
  <2>3. QED
    BY <2>1, <2>2
<1>2. QED
  BY SoftInductive, <1>1, PTL

=============================================================================
