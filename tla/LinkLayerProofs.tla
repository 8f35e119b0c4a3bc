--------------------------- MODULE LinkLayerProofs ---------------------------
(***************************************************************************)
(* ether_encap and parse_mac behind a lossy channel, for any number of       *)
(* sequence numbers, any stations, frame types and lengths, and however the  *)
(* two blocks and the stations take turns.                                   *)
(***************************************************************************)
EXTENDS LinkLayer, FiniteSetTheorems, TLAPS

Frame == [from : Stations, number : Nat, type : Types, length : Lengths]

(* What a station sends last is the frame it numbered last.                  *)
SenderInv ==
  /\ d_seq_nr \in [Stations -> 0..MaxNumbered]
  /\ last \in [Stations -> Frame \union {NoFrame}]
  /\ \A s \in Stations :
       /\ last[s].number = d_seq_nr[s] - 1
       /\ last[s] # NoFrame => last[s] \in Frame /\ last[s].from = s

(* Of one station frames are received in the order of their numbers, and a   *)
(* number belongs to one frame; l is the last frame of each station.         *)
Ordered(h, l) ==
  /\ \A k \in DOMAIN h :
       /\ h[k].number <= l[h[k].from].number
       /\ h[k].number = l[h[k].from].number => h[k] = l[h[k].from]
  /\ \A j, k \in DOMAIN h :
       j < k /\ h[j].from = h[k].from =>
         /\ h[j].number <= h[k].number
         /\ h[j].number = h[k].number => h[j] = h[k]

HeardInv ==
  /\ heard \in Seq(Frame) /\ Len(heard) <= MaxHeard
  /\ Ordered(heard, last)

(* ether_encap remembers the frame it handled last.                          *)
EncapInv ==
  /\ handled \in 0..Len(heard)
  /\ d_last_seq = IF handled = 0 THEN 123 ELSE seq_nr(heard[handled])
  /\ skipped \subseteq 1..handled
  /\ tap \in Seq(Frame)
  /\ TapOnceInOrder

(* parse_mac remembers the number of the frame it counted last.              *)
Newest(k) == k \in Counted /\ \A c \in Counted : c <= k

ParserInv ==
  /\ parsed \in 0..Len(heard)
  /\ d_last_seq_no \in -1..SeqNumbers - 1
  /\ lost \in Nat
  /\ Counted = {} => d_last_seq_no = -1 /\ lost = 0
  /\ Counted # {} => \E k \in Counted : Newest(k)
  /\ \A k \in Counted : Newest(k) => d_last_seq_no = heard[k].number % SeqNumbers
  /\ LossesCounted

LInv == SenderInv /\ HeardInv /\ EncapInv /\ ParserInv

-----------------------------------------------------------------------------
LEMMA FieldsOfFrame ==
  ASSUME NEW f \in Frame
  PROVE  f.number \in Nat /\ f.from \in Stations
BY DEF Frame

(* Two frames fewer than SeqNumbers apart have the same sequence number only *)
(* if they are the same, and the numbers between them can be told from the   *)
(* sequence numbers.                                                        *)
LEMMA Wraps ==
  ASSUME NEW p \in Nat, NEW n \in Nat
  PROVE  /\ n % SeqNumbers \in 0..SeqNumbers - 1
         /\ n < SeqNumbers => n % SeqNumbers = n
         /\ p <= n /\ n < p + SeqNumbers /\ p % SeqNumbers = n % SeqNumbers => p = n
         /\ n - p \in 1..SeqNumbers =>
              LET between == (n % SeqNumbers) - (p % SeqNumbers) - 1
              IN n - p - 1 = IF between < 0 THEN between + SeqNumbers ELSE between
<1> USE LinkAssumption DEF LinkAssumption
<1> DEFINE a == n \div SeqNumbers
           b == p \div SeqNumbers
           x == n % SeqNumbers
           y == p % SeqNumbers
           w == SeqNumbers
<1>1. w \in Nat /\ w > 0
  OBVIOUS
<1>2. a \in Int /\ x \in 0..w - 1 /\ n = w * a + x
  OBVIOUS
<1>3. b \in Int /\ y \in 0..w - 1 /\ p = w * b + y
  OBVIOUS
<1>4. n < w => x = n
  OBVIOUS
<1> HIDE DEF a, b, x, y, w
<1> DEFINE c == a - b
<1>5. c \in Int /\ n - p = w * c + (x - y)
  BY <1>1, <1>2, <1>3
<1>6. c <= 0 \/ c = 1 \/ c >= 2
  BY <1>5
<1>7. /\ c <= -1 => w * c <= -w
      /\ c >= 2 => w * c >= 2 * w
  <2> HIDE DEF c
  <2>1. ASSUME NEW e \in Nat PROVE w * e >= 0
    BY <1>1
  <2>2. c <= -1 => -1 - c \in Nat /\ w * (-1 - c) = -w - w * c
    BY <1>1, <1>5
  <2>3. c >= 2 => c - 2 \in Nat /\ w * (c - 2) = w * c - 2 * w
    BY <1>1, <1>5
  <2>4. w * c \in Int
    BY <1>1, <1>5
  <2>5. QED
    BY <1>1, <2>1, <2>2, <2>3, <2>4
<1>8. /\ c = 0 => w * c = 0
      /\ c = 1 => w * c = w
  BY <1>1
<1> DEFINE q == w * c
<1>9. q \in Int /\ (c <= -1 => q <= -w) /\ (c >= 2 => q >= 2 * w) /\ (c = 0 => q = 0)
      /\ (c = 1 => q = w) /\ n - p = q + (x - y) /\ c \in Int
  BY <1>1, <1>5, <1>7, <1>8
<1> HIDE DEF c, q
<1>10. p <= n /\ n < p + w /\ x = y => p = n
  BY <1>1, <1>2, <1>3, <1>9
<1>11. n - p \in 1..w =>
        n - p - 1 = IF x - y - 1 < 0 THEN x - y - 1 + w ELSE x - y - 1
  BY <1>1, <1>2, <1>3, <1>9
<1>12. QED
  BY <1>2, <1>4, <1>10, <1>11 DEF x, y, w

(* The sequence control field is the sequence number above four zero bits,   *)
(* and never the number that ether_encap starts with.                       *)
LEMMA SequenceControl ==
  ASSUME NEW f \in Frame
  PROVE  /\ f.number % SeqNumbers \in 0..SeqNumbers - 1
         /\ seq_nr(f) # 123
         /\ seq_nr(f) \div 16 = f.number % SeqNumbers
         /\ \A g \in Frame :
              seq_nr(f) = seq_nr(g) => f.number % SeqNumbers = g.number % SeqNumbers
<1>1. \A n \in Nat : n % SeqNumbers \in Nat /\ n % SeqNumbers \in 0..SeqNumbers - 1
  BY Wraps, LinkAssumption DEF LinkAssumption
<1>2. \A g \in Frame : g.number % SeqNumbers \in Nat
  BY <1>1, FieldsOfFrame
<1>3. \A x \in Nat : 16 * x # 123 /\ (16 * x) \div 16 = x
  OBVIOUS
<1>4. f.number % SeqNumbers \in 0..SeqNumbers - 1
  BY <1>1, FieldsOfFrame
<1>5. \A x, y \in Nat : 16 * x = 16 * y => x = y
  OBVIOUS
<1>6. QED
  BY <1>2, <1>3, <1>4, <1>5, Zenon DEF seq_nr

(* A frame is received that its station numbered last.                       *)
LEMMA Received ==
  ASSUME NEW h \in Seq(Frame), NEW l, NEW f \in Frame, Ordered(h, l), f = l[f.from]
  PROVE  Ordered(Append(h, f), l)
<1> DEFINE g == Append(h, f)
<1>1. /\ DOMAIN h = 1..Len(h) /\ DOMAIN g = 1..Len(h) + 1 /\ Len(h) \in Nat
      /\ g[Len(h) + 1] = f /\ \A k \in 1..Len(h) : g[k] = h[k]
  OBVIOUS
<1> HIDE DEF g
<1>2. \A k \in 1..Len(h) : h[k].number \in Nat
  BY FieldsOfFrame
<1>3. f.number \in Nat
  BY FieldsOfFrame
<1>4. ASSUME NEW k \in 1..Len(h) + 1
      PROVE  /\ g[k].number <= l[g[k].from].number
             /\ g[k].number = l[g[k].from].number => g[k] = l[g[k].from]
  <2>1. CASE k \in 1..Len(h)
    BY <1>1, <2>1 DEF Ordered
  <2>2. CASE k = Len(h) + 1
    BY <1>1, <1>3, <2>2
  <2>3. QED
    BY <1>1, <2>1, <2>2
<1>5. ASSUME NEW j \in 1..Len(h) + 1, NEW k \in 1..Len(h) + 1, j < k, g[j].from = g[k].from
      PROVE  g[j].number <= g[k].number /\ (g[j].number = g[k].number => g[j] = g[k])
  <2>1. j \in 1..Len(h) /\ g[j] = h[j]
    BY <1>1, <1>5
  <2>2. CASE k \in 1..Len(h)
    BY <1>1, <1>5, <2>1, <2>2 DEF Ordered
  <2>3. CASE k = Len(h) + 1
    <3>1. g[k] = f /\ h[j].from = f.from
      BY <1>1, <1>5, <2>1, <2>3
    <3>2. h[j].number <= f.number /\ (h[j].number = f.number => h[j] = f)
      BY <1>1, <2>1, <3>1 DEF Ordered
    <3>3. QED
      BY <2>1, <3>1, <3>2
  <2>4. QED
    BY <1>1, <2>2, <2>3
<1>6. Ordered(g, l)
  BY <1>1, <1>4, <1>5 DEF Ordered
<1>7. QED
  BY <1>6 DEF g

(* What goes on the air is received or lost.                                 *)
LEMMA HeardGrows ==
  ASSUME HeardInv, Ordered(heard, last'), NEW f \in Frame, f = last'[f.from], OnAir(f)
  PROVE  HeardInv'
<1> USE LinkAssumption DEF LinkAssumption
<1>1. CASE heard' = heard
  BY <1>1 DEF HeardInv
<1>2. CASE Len(heard) < MaxHeard /\ heard' = Append(heard, f)
  <2>1. Ordered(heard', last')
    BY <1>2, Received DEF HeardInv
  <2>2. heard' \in Seq(Frame) /\ Len(heard') <= MaxHeard
    BY <1>2 DEF HeardInv
  <2>3. QED
    BY <2>1, <2>2 DEF HeardInv
<1>3. QED
  BY <1>1, <1>2 DEF OnAir

(* A station numbers a frame.                                               *)
LEMMA AppIn ==
  ASSUME SenderInv, HeardInv,
         NEW s \in Stations, NEW type \in Types, NEW length \in Lengths, app_in(s, type, length)
  PROVE  SenderInv' /\ HeardInv'
<1> USE LinkAssumption DEF LinkAssumption
<1> DEFINE f == [from |-> s, number |-> d_seq_nr[s], type |-> type, length |-> length]
<1>1. /\ d_seq_nr[s] < MaxNumbered /\ last' = [last EXCEPT ![s] = f] /\ OnAir(f)
      /\ d_seq_nr' = [d_seq_nr EXCEPT ![s] = @ + 1]
  BY DEF app_in
<1>2. d_seq_nr[s] \in 0..MaxNumbered
  BY DEF SenderInv
<1>3. f \in Frame /\ f.number = d_seq_nr[s] /\ f.from = s
  BY <1>2 DEF Frame
<1> HIDE DEF f
<1>4. SenderInv'
  <2>1. d_seq_nr' \in [Stations -> 0..MaxNumbered]
    BY <1>1, <1>2 DEF SenderInv
  <2>2. last' \in [Stations -> Frame \union {NoFrame}]
    BY <1>1, <1>3 DEF SenderInv
  <2>3. ASSUME NEW t \in Stations
        PROVE  /\ last'[t].number = d_seq_nr'[t] - 1
               /\ last'[t] # NoFrame => last'[t] \in Frame /\ last'[t].from = t
    <3>1. CASE t = s
      <4>1. last'[t] = f /\ d_seq_nr'[t] = d_seq_nr[s] + 1
        BY <1>1, <3>1 DEF SenderInv
      <4>2. QED
        BY <1>2, <1>3, <3>1, <4>1
    <3>2. CASE t # s
      BY <1>1, <3>2 DEF SenderInv
    <3>3. QED
      BY <3>1, <3>2
  <2>4. QED
    BY <2>1, <2>2, <2>3 DEF SenderInv
<1>5. Ordered(heard, last')
  <2>1. ASSUME NEW k \in DOMAIN heard
        PROVE  /\ heard[k].number <= last'[heard[k].from].number
               /\ heard[k].number = last'[heard[k].from].number
                    => heard[k] = last'[heard[k].from]
    <3>1. heard[k] \in Frame
      BY DEF HeardInv
    <3>2. heard[k].number \in Nat /\ heard[k].from \in Stations
      BY <3>1, FieldsOfFrame
    <3>3. heard[k].number <= last[heard[k].from].number
          /\ (heard[k].number = last[heard[k].from].number => heard[k] = last[heard[k].from])
      BY DEF HeardInv, Ordered
    <3>4. CASE heard[k].from = s
      <4>1. last'[s] = f /\ last[s].number = d_seq_nr[s] - 1
        BY <1>1 DEF SenderInv
      <4>2. QED
        BY <1>2, <1>3, <3>2, <3>3, <3>4, <4>1
    <3>5. CASE heard[k].from # s
      <4>1. last'[heard[k].from] = last[heard[k].from]
        BY <1>1, <3>2, <3>5 DEF SenderInv
      <4>2. QED
        BY <3>3, <4>1
    <3>6. QED
      BY <3>4, <3>5
  <2>2. QED
    BY <2>1 DEF Ordered, HeardInv
<1>6. last'[f.from] = f
  BY <1>1, <1>3 DEF SenderInv
<1>7. QED
  BY <1>1, <1>3, <1>4, <1>5, <1>6, HeardGrows

(* A station repeats a frame.                                               *)
LEMMA Retried ==
  ASSUME SenderInv, HeardInv, NEW s \in Stations, Retry(s)
  PROVE  SenderInv' /\ HeardInv'
<1>1. last[s] # NoFrame /\ OnAir(last[s]) /\ last' = last /\ d_seq_nr' = d_seq_nr
  BY DEF Retry
<1>2. last[s] \in Frame /\ last[s].from = s
  BY <1>1 DEF SenderInv
<1>3. HeardInv'
  BY <1>1, <1>2, HeardGrows DEF HeardInv
<1>4. QED
  BY <1>1, <1>3 DEF SenderInv

-----------------------------------------------------------------------------
(* What is received later changes nothing for the two blocks.                *)
LEMMA ReceivedLater ==
  ASSUME HeardInv, EncapInv, ParserInv, UNCHANGED <<parserVars, encapVars>>,
         heard' \in Seq(Frame), Len(heard) <= Len(heard'),
         \A k \in 1..Len(heard) : heard'[k] = heard[k]
  PROVE  EncapInv' /\ ParserInv'
<1>1. /\ UNCHANGED <<parsed, d_last_seq_no, d_total_packets, lost>>
      /\ UNCHANGED <<handled, d_last_seq, tap, skipped>>
  BY DEF parserVars, encapVars
<1>2. /\ DOMAIN heard = 1..Len(heard) /\ DOMAIN heard' = 1..Len(heard')
      /\ Len(heard) \in Nat /\ Len(heard') \in Nat
      /\ parsed \in 0..Len(heard) /\ handled \in 0..Len(heard)
  BY DEF HeardInv, EncapInv, ParserInv
<1>3. /\ parsed \in 0..Len(heard') /\ handled \in 0..Len(heard')
  BY <1>2
<1>4. OneStation' => OneStation
  BY <1>2 DEF OneStation
<1>5. ShortLosses' => ShortLosses
  <2> SUFFICES ASSUME ShortLosses', NEW k \in 2..Len(heard)
               PROVE  heard[k].number < heard[k - 1].number + SeqNumbers
    BY DEF ShortLosses
  <2>1. k \in 2..Len(heard') /\ k \in 1..Len(heard) /\ k - 1 \in 1..Len(heard)
    BY <1>2
  <2>2. heard'[k].number < heard'[k - 1].number + SeqNumbers
    BY <2>1 DEF ShortLosses
  <2>3. QED
    BY <2>1, <2>2
<1>6. EncapInv'
  <2>1. {j \in 1..handled : HasPayload(heard'[j])} = {j \in 1..handled : HasPayload(heard[j])}
    BY <1>2
  <2>2. {heard'[k] : k \in {j \in 1..handled : HasPayload(heard'[j])}}
          = {heard[k] : k \in {j \in 1..handled : HasPayload(heard[j])}}
    BY <1>2, <2>1
  <2>3. handled # 0 => heard'[handled] = heard[handled]
    BY <1>2
  <2>4. TapOnceInOrder'
    BY <1>1, <1>4, <1>5, <2>2 DEF EncapInv, TapOnceInOrder
  <2>5. d_last_seq = IF handled = 0 THEN 123 ELSE seq_nr(heard'[handled])
    BY <2>3 DEF EncapInv
  <2>6. QED
    BY <1>1, <1>3, <2>4, <2>5 DEF EncapInv, seq_nr
<1>7. Counted' = Counted
  BY <1>1, <1>2 DEF Counted
<1>8. \A k \in Counted : heard'[k] = heard[k]
  BY <1>2 DEF Counted
<1>9. Fresh' <=> Fresh
  BY <1>7, <1>8 DEF Fresh, NoneBetween
<1>10. LossesCounted'
  BY <1>1, <1>4, <1>7, <1>8, <1>9 DEF ParserInv, LossesCounted
<1>11. ParserInv'
  BY <1>1, <1>3, <1>7, <1>8, <1>10 DEF ParserInv, Newest
<1>12. QED
  BY <1>6, <1>11

(* ether_encap takes a frame for a repetition of the last one only if it is   *)
(* one.                                                                     *)
LEMMA Repetition ==
  ASSUME HeardInv, EncapInv, OneStation, ShortLosses, handled < Len(heard), handled > 0
  PROVE  /\ heard[handled] \in Frame /\ heard[handled + 1] \in Frame
         /\ heard[handled].number <= heard[handled + 1].number
         /\ d_last_seq = seq_nr(heard[handled + 1]) => heard[handled] = heard[handled + 1]
         /\ d_last_seq # seq_nr(heard[handled + 1]) =>
              heard[handled].number < heard[handled + 1].number
<1> DEFINE f == heard[handled]
           g == heard[handled + 1]
<1>1. handled \in 1..Len(heard) /\ handled + 1 \in 1..Len(heard) /\ handled < handled + 1
      /\ handled + 1 \in 2..Len(heard) /\ handled = (handled + 1) - 1
  BY DEF EncapInv, HeardInv
<1>2. f \in Frame /\ g \in Frame
  BY <1>1 DEF HeardInv
<1>3. f.number \in Nat /\ g.number \in Nat
  BY <1>2, FieldsOfFrame
<1>4. f.number <= g.number /\ (f.number = g.number => f = g)
  BY <1>1 DEF HeardInv, Ordered, OneStation
<1>5. g.number < f.number + SeqNumbers
  BY <1>1 DEF ShortLosses
<1>6. d_last_seq = seq_nr(f)
  BY <1>1 DEF EncapInv
<1> HIDE DEF f, g
<1>7. seq_nr(f) = seq_nr(g) => f.number % SeqNumbers = g.number % SeqNumbers
  BY <1>2, SequenceControl
<1>8. seq_nr(f) = seq_nr(g) => f = g
  BY <1>3, <1>4, <1>5, <1>7, Wraps
<1>9. seq_nr(f) # seq_nr(g) => f.number < g.number
  BY <1>3, <1>4
<1>10. QED
  BY <1>2, <1>4, <1>6, <1>8, <1>9 DEF f, g

(* The payload of a new frame goes to the TAP device behind all others.      *)
LEMMA FromWifi ==
  ASSUME HeardInv, EncapInv, from_wifi
  PROVE  EncapInv'
<1> DEFINE f == heard[handled + 1]
<1>1. /\ handled < Len(heard) /\ handled' = handled + 1 /\ heard' = heard
      /\ handled \in 0..Len(heard) /\ heard \in Seq(Frame) /\ DOMAIN heard = 1..Len(heard)
      /\ Len(heard) \in Nat /\ tap \in Seq(Frame) /\ DOMAIN tap = 1..Len(tap)
      /\ Len(tap) \in Nat /\ skipped \subseteq 1..handled
  BY DEF from_wifi, senderVars, HeardInv, EncapInv
<1>2. \/ d_last_seq = seq_nr(f) /\ skipped' = skipped \union {handled + 1}
         /\ UNCHANGED <<d_last_seq, tap>>
      \/ d_last_seq # seq_nr(f) /\ d_last_seq' = seq_nr(f) /\ skipped' = skipped
         /\ tap' = IF HasPayload(f) THEN Append(tap, f) ELSE tap
  BY DEF from_wifi
<1>3. handled + 1 \in 1..Len(heard) /\ f \in Frame /\ f.number \in Nat
  <2>1. handled + 1 \in 1..Len(heard)
    BY <1>1
  <2>2. f \in Frame
    BY <1>1, <2>1
  <2>3. QED
    BY <2>1, <2>2, FieldsOfFrame
<1>4. d_last_seq' = seq_nr(heard'[handled'])
  BY <1>1, <1>2
<1>5. tap' \in Seq(Frame) /\ skipped' \subseteq 1..handled'
  <2>1. Append(tap, f) \in Seq(Frame) /\ tap' \in {tap, Append(tap, f)}
    BY <1>1, <1>2, <1>3
  <2>2. 1..handled \subseteq 1..handled + 1 /\ handled + 1 \in 1..handled + 1
    BY <1>1
  <2>3. skipped' \subseteq 1..handled + 1
    BY <1>1, <1>2, <2>2
  <2>4. QED
    BY <1>1, <2>1, <2>3
<1>6. ASSUME OneStation, ShortLosses
      PROVE  /\ Range(tap') = {heard[k] : k \in {j \in 1..handled + 1 : HasPayload(heard[j])}}
             /\ \A j, k \in DOMAIN tap' : j < k => tap'[j].number < tap'[k].number
  <2>1. /\ Range(tap) = {heard[k] : k \in {j \in 1..handled : HasPayload(heard[j])}}
        /\ \A j, k \in DOMAIN tap : j < k => tap[j].number < tap[k].number
    BY <1>6 DEF EncapInv, TapOnceInOrder
  <2> DEFINE old == {heard[k] : k \in {j \in 1..handled : HasPayload(heard[j])}}
             new == {heard[k] : k \in {j \in 1..handled + 1 : HasPayload(heard[j])}}
  <2>2. new = IF HasPayload(f) THEN old \union {f} ELSE old
    <3>1. 1..handled + 1 = (1..handled) \union {handled + 1}
      BY <1>1
    <3>2. QED
      BY <3>1
  <2>3. CASE d_last_seq = seq_nr(f) /\ tap' = tap
    <3>1. handled > 0
      <4>1. seq_nr(f) # 123
        BY <1>3, SequenceControl
      <4>2. QED
        BY <1>1, <2>3, <4>1 DEF EncapInv
    <3>2. f = heard[handled]
      BY <1>1, <1>6, <2>3, <3>1, Repetition
    <3>3. HasPayload(f) => f \in old
      BY <1>1, <3>1, <3>2
    <3>4. QED
      BY <2>1, <2>2, <2>3, <3>3
  <2>4. CASE d_last_seq # seq_nr(f) /\ ~HasPayload(f) /\ tap' = tap
    BY <2>1, <2>2, <2>4
  <2>5. CASE d_last_seq # seq_nr(f) /\ HasPayload(f) /\ tap' = Append(tap, f)
    <3>1. /\ DOMAIN tap' = 1..Len(tap) + 1 /\ tap'[Len(tap) + 1] = f
          /\ \A k \in 1..Len(tap) : tap'[k] = tap[k]
      BY <1>1, <1>3, <2>5
    <3>2. Range(tap') = Range(tap) \union {f}
      BY <1>1, <3>1 DEF Range
    <3>3. ASSUME NEW j \in 1..Len(tap) PROVE tap[j].number < f.number
      <4>1. tap[j] \in old
        BY <1>1, <2>1 DEF Range
      <4>2. PICK k \in 1..handled : tap[j] = heard[k]
        BY <4>1
      <4>3. handled > 0 /\ handled \in 1..Len(heard) /\ k \in 1..Len(heard)
        BY <1>1
      <4>4. heard[k] \in Frame /\ heard[handled] \in Frame
        BY <1>1, <4>3
      <4>5. heard[k].number \in Nat /\ heard[handled].number \in Nat
        BY <4>4, FieldsOfFrame
      <4>6. heard[k].number <= heard[handled].number
        <5>1. CASE k = handled
          BY <4>5, <5>1
        <5>2. CASE k < handled
          BY <1>1, <1>6, <4>3, <5>2 DEF HeardInv, Ordered, OneStation
        <5>3. QED
          BY <4>3, <5>1, <5>2
      <4>7. heard[handled].number < f.number
        BY <1>1, <1>6, <2>5, <4>3, Repetition
      <4>8. \A a, b, c \in Nat : a <= b /\ b < c => a < c
        OBVIOUS
      <4>9. heard[k].number < f.number
        BY <1>3, <4>5, <4>6, <4>7, <4>8
      <4>10. QED
        BY <4>2, <4>9
    <3>4. \A j, k \in DOMAIN tap' : j < k => tap'[j].number < tap'[k].number
      <4> SUFFICES ASSUME NEW j \in 1..Len(tap) + 1, NEW k \in 1..Len(tap) + 1, j < k
                   PROVE  tap'[j].number < tap'[k].number
        BY <3>1
      <4>1. j \in 1..Len(tap)
        BY <1>1
      <4>2. CASE k = Len(tap) + 1
        BY <3>1, <3>3, <4>1, <4>2
      <4>3. CASE k \in 1..Len(tap)
        BY <1>1, <2>1, <3>1, <4>1, <4>3
      <4>4. QED
        BY <1>1, <4>2, <4>3
    <3>5. QED
      BY <2>1, <2>2, <2>5, <3>2, <3>4
  <2>6. QED
    BY <1>2, <2>3, <2>4, <2>5
<1>7. TapOnceInOrder'
  <2>1. OneStation' = OneStation /\ ShortLosses' = ShortLosses
    BY <1>1 DEF OneStation, ShortLosses
  <2>2. QED
    BY <1>1, <1>6, <2>1 DEF TapOnceInOrder
<1>8. handled' \in 0..Len(heard') /\ handled' # 0
  BY <1>1
<1>9. QED
  BY <1>4, <1>5, <1>7, <1>8 DEF EncapInv

(* A counted frame is the newest one, and one more.                          *)
LEMMA CountOne ==
  ASSUME HeardInv, ParserInv, parsed < Len(heard), heard' = heard, parsed' = parsed + 1
  PROVE  /\ Counted' = IF IsParsed(heard[parsed + 1]) THEN Counted \union {parsed + 1} ELSE Counted
         /\ Counted \subseteq 1..parsed /\ IsFiniteSet(Counted)
         /\ Cardinality(Counted) \in Nat
         /\ Cardinality(Counted \union {parsed + 1}) = Cardinality(Counted) + 1
<1>1. parsed \in 0..Len(heard) /\ Len(heard) \in Nat
  BY DEF ParserInv, HeardInv
<1>2. 1..parsed + 1 = (1..parsed) \union {parsed + 1} /\ parsed + 1 \notin 1..parsed
  BY <1>1
<1>3. Counted \subseteq 1..parsed
  BY DEF Counted
<1>4. IsFiniteSet(1..parsed)
  BY <1>1, FS_Interval
<1>5. IsFiniteSet(Counted)
  BY <1>3, <1>4, FS_Subset
<1>6. parsed + 1 \notin Counted
  BY <1>2, <1>3
<1>7. QED
  BY <1>2, <1>3, <1>5, <1>6, FS_AddElement, FS_CardinalityType DEF Counted

LEMMA Parse ==
  ASSUME HeardInv, ParserInv, parse
  PROVE  ParserInv'
<1> USE LinkAssumption DEF LinkAssumption
<1> DEFINE f == heard[parsed + 1]
           seq_no == seq_nr(f) \div 16
<1>1. /\ parsed < Len(heard) /\ parsed' = parsed + 1 /\ heard' = heard
      /\ parsed \in 0..Len(heard) /\ Len(heard) \in Nat /\ DOMAIN heard = 1..Len(heard)
      /\ d_last_seq_no \in -1..SeqNumbers - 1 /\ lost \in Nat
  BY DEF parse, senderVars, ParserInv, HeardInv
<1>2. IF IsParsed(f)
      THEN /\ lost' = lost + lost_frames(seq_no)
           /\ d_last_seq_no' = seq_no
           /\ d_total_packets' = d_total_packets + 1
      ELSE UNCHANGED <<lost, d_last_seq_no, d_total_packets>>
  BY DEF parse
<1>3. parsed' \in 0..Len(heard')
  BY <1>1
<1>4. /\ Counted' = IF IsParsed(f) THEN Counted \union {parsed + 1} ELSE Counted
      /\ Counted \subseteq 1..parsed /\ IsFiniteSet(Counted) /\ Cardinality(Counted) \in Nat
      /\ Cardinality(Counted \union {parsed + 1}) = Cardinality(Counted) + 1
  BY <1>1, CountOne
<1>5. f \in Frame /\ f.number \in Nat
  <2>1. f \in Frame
    BY <1>1 DEF HeardInv
  <2>2. QED
    BY <2>1, FieldsOfFrame
<1>6. seq_no = f.number % SeqNumbers /\ seq_no \in 0..SeqNumbers - 1
  BY <1>5, SequenceControl
<1>7. lost_frames(seq_no) \in 0..SeqNumbers - 1 \/ lost_frames(seq_no) = SeqNumbers
  BY <1>1, <1>6 DEF lost_frames
<1>8. OneStation' = OneStation
  BY <1>1 DEF OneStation
<1>9. d_total_packets = Cardinality(Counted)
  BY DEF ParserInv, LossesCounted
<1> HIDE DEF f, seq_no
<1>10. CASE ~IsParsed(f)
  <2>1. Counted' = Counted /\ UNCHANGED <<lost, d_last_seq_no, d_total_packets, heard>>
    BY <1>1, <1>2, <1>4, <1>10
  <2>2. Fresh' <=> Fresh
    BY <2>1 DEF Fresh, NoneBetween
  <2>3. LossesCounted'
    BY <1>8, <2>1, <2>2 DEF ParserInv, LossesCounted
  <2>4. QED
    BY <1>3, <2>1, <2>3 DEF ParserInv, Newest
<1>11. CASE IsParsed(f)
  <2>1. /\ Counted' = Counted \union {parsed + 1} /\ d_last_seq_no' = seq_no
        /\ lost' = lost + lost_frames(seq_no) /\ d_total_packets' = d_total_packets + 1
    BY <1>2, <1>4, <1>11
  <2>2. \A c \in Counted : c \in Nat /\ c <= parsed /\ c < parsed + 1
    BY <1>1, <1>4
  <2>3. lost' \in Nat /\ d_last_seq_no' \in -1..SeqNumbers - 1
    BY <1>1, <1>6, <1>7, <2>1
  <2>n. PICK n : n = parsed + 1
    OBVIOUS
  <2>4. Newest(n)'
    BY <1>1, <2>1, <2>2, <2>n DEF Newest
  <2>5. \A k \in Counted' : Newest(k)' => k = n
    <3>1. n \in Int /\ \A c \in Counted : c \in Int /\ c < n
      BY <1>1, <2>2, <2>n
    <3>2. n \in Counted' /\ \A k \in Counted' : k \in Counted \/ k = n
      BY <2>1, <2>n
    <3>3. \A x, y \in Int : x < y => ~(y <= x)
      OBVIOUS
    <3>4. \A k \in Counted : ~(n <= k)
      BY <3>1, <3>3
    <3>5. QED
      BY <3>2, <3>4 DEF Newest
  <2>6. \A k \in Counted' : Newest(k)' => d_last_seq_no' = heard'[k].number % SeqNumbers
    BY <1>1, <1>6, <2>1, <2>5, <2>n DEF f
  <2>7. Counted' # {} /\ \E k \in Counted' : Newest(k)'
    BY <2>1, <2>4 DEF Newest
  <2>c. Cardinality(Counted') = Cardinality(Counted) + 1
    BY <1>4, <2>1
  <2>8. d_total_packets' = Cardinality(Counted')
    BY <1>9, <2>1, <2>c
  <2>9. ASSUME OneStation', Fresh'
        PROVE  lost' = f.number + 1 - Cardinality(Counted')
    <3>1. CASE Counted = {}
      <4>1. Cardinality(Counted) = 0
        BY <3>1, FS_EmptySet
      <4>2. d_last_seq_no = -1 /\ lost = 0
        BY <3>1 DEF ParserInv
      <4>3. \A c \in Counted' : parsed + 1 <= c
        BY <1>1, <2>1, <3>1
      <4>4. f.number < SeqNumbers
        BY <1>1, <2>1, <2>9, <4>3 DEF Fresh, f
      <4>5. seq_no = f.number
        BY <1>5, <1>6, <4>4, Wraps
      <4>6. lost_frames(seq_no) = f.number
        BY <1>5, <4>2, <4>5 DEF lost_frames
      <4>7. QED
        BY <1>5, <2>1, <2>c, <4>1, <4>2, <4>6
    <3>2. CASE Counted # {}
      <4>1. PICK p \in Counted : Newest(p)
        BY <3>2 DEF ParserInv
      <4>2. d_last_seq_no = heard[p].number % SeqNumbers
        BY <4>1 DEF ParserInv
      <4>3. p \in 1..Len(heard) /\ p < parsed + 1 /\ \A c \in Counted : c <= p
        BY <1>1, <1>4, <2>2, <4>1 DEF Newest
      <4>4. heard[p] \in Frame /\ heard[p].number \in Nat
        <5>1. heard[p] \in Frame
          BY <4>3 DEF HeardInv
        <5>2. QED
          BY <5>1, FieldsOfFrame
      <4>5. Fresh
        <5>1. ASSUME NEW k \in Counted, \A c \in Counted : k <= c
              PROVE  heard[k].number < SeqNumbers
          <6>1. \A c \in Counted' : k <= c
            BY <1>1, <2>1, <2>2, <5>1
          <6>2. QED
            BY <1>1, <2>1, <2>9, <6>1 DEF Fresh
        <5>2. ASSUME NEW k \in Counted, NEW j \in Counted, NoneBetween(j, k)
              PROVE  heard[k].number - heard[j].number \in 1..SeqNumbers
          <6>1. NoneBetween(j, k)'
            BY <1>1, <2>1, <2>2, <5>2 DEF NoneBetween
          <6>2. QED
            BY <1>1, <2>1, <2>9, <6>1 DEF Fresh
        <5>3. QED
          BY <5>1, <5>2 DEF Fresh
      <4>6. lost = heard[p].number + 1 - Cardinality(Counted)
        BY <1>8, <2>9, <4>3, <4>5 DEF ParserInv, LossesCounted
      <4>7. NoneBetween(p, n)'
        BY <1>1, <2>1, <2>n, <4>3 DEF NoneBetween
      <4>8. f.number - heard[p].number \in 1..SeqNumbers
        BY <1>1, <2>1, <2>9, <2>n, <4>1, <4>7 DEF Fresh, f
      <4>9. lost_frames(seq_no) = f.number - heard[p].number - 1
        BY <1>5, <1>6, <4>2, <4>4, <4>8, Wraps DEF lost_frames
      <4>10. QED
        <5>1. \A x, y, c \in Int : (x + 1 - c) + (y - x - 1) = y + 1 - (c + 1)
          OBVIOUS
        <5>2. (heard[p].number + 1 - Cardinality(Counted)) + (f.number - heard[p].number - 1)
                = f.number + 1 - (Cardinality(Counted) + 1)
          BY <1>4, <1>5, <4>4, <5>1
        <5>3. QED
          BY <2>1, <2>c, <4>6, <4>9, <5>2
    <3>3. QED
      BY <3>1, <3>2
  <2>10. LossesCounted'
    <3>1. \A k \in Counted' : (\A c \in Counted' : c <= k) => heard'[k] = f
      BY <1>1, <2>5, <2>n DEF Newest, f
    <3>2. QED
      BY <2>8, <2>9, <3>1 DEF LossesCounted
  <2>11. QED
    BY <1>3, <2>3, <2>6, <2>7, <2>10 DEF ParserInv
<1>12. QED
  BY <1>10, <1>11

-----------------------------------------------------------------------------
LEMMA LinkInitially == Init => LInv
<1> SUFFICES ASSUME Init PROVE LInv
  OBVIOUS
<1> USE LinkAssumption DEF LinkAssumption
<1>1. /\ heard = <<>> /\ parsed = 0 /\ d_last_seq_no = -1 /\ d_total_packets = 0 /\ lost = 0
      /\ handled = 0 /\ d_last_seq = 123 /\ tap = <<>> /\ skipped = {}
      /\ d_seq_nr = [s \in Stations |-> 0] /\ last = [s \in Stations |-> NoFrame]
  BY DEF Init
<1>2. SenderInv
  BY <1>1 DEF SenderInv, NoFrame
<1>3. HeardInv
  BY <1>1 DEF HeardInv, Ordered
<1>4. Range(tap) = {} /\ {heard[k] : k \in {j \in 1..handled : HasPayload(heard[j])}} = {}
  BY <1>1 DEF Range
<1>5. EncapInv
  BY <1>1, <1>4 DEF EncapInv, TapOnceInOrder
<1>6. Counted = {} /\ Cardinality(Counted) = 0
  <2>1. Counted = {}
    BY <1>1 DEF Counted
  <2>2. QED
    BY <2>1, FS_EmptySet
<1>7. ParserInv
  BY <1>1, <1>6 DEF ParserInv, LossesCounted
<1>8. QED
  BY <1>2, <1>3, <1>5, <1>7 DEF LInv

LEMMA LinkKept == LInv /\ [Next]_linkVars => LInv'
<1> SUFFICES ASSUME LInv, [Next]_linkVars PROVE LInv'
  OBVIOUS
<1>1. SenderInv /\ HeardInv /\ EncapInv /\ ParserInv
  BY DEF LInv
<1>2. ASSUME SenderInv' /\ HeardInv', UNCHANGED <<parserVars, encapVars>>,
             heard' = heard \/ \E f : heard' = Append(heard, f)
      PROVE  LInv'
  <2>1. heard' \in Seq(Frame) /\ heard \in Seq(Frame)
    BY <1>1, <1>2 DEF HeardInv
  <2>2. Len(heard) <= Len(heard') /\ \A k \in 1..Len(heard) : heard'[k] = heard[k]
    BY <1>2, <2>1
  <2>3. QED
    BY <1>1, <1>2, <2>1, <2>2, ReceivedLater DEF LInv
<1>3. CASE Send
  <2>1. PICK s \in Stations, type \in Types, length \in Lengths : app_in(s, type, length)
    BY <1>3 DEF Send
  <2>2. heard' = heard \/ \E f : heard' = Append(heard, f)
    BY <2>1 DEF app_in, OnAir
  <2>3. UNCHANGED <<parserVars, encapVars>>
    BY <2>1 DEF app_in
  <2>4. QED
    BY <1>1, <1>2, <2>1, <2>2, <2>3, AppIn
<1>4. ASSUME NEW s \in Stations, Retry(s) PROVE LInv'
  <2>1. heard' = heard \/ \E f : heard' = Append(heard, f)
    BY <1>4 DEF Retry, OnAir
  <2>2. UNCHANGED <<parserVars, encapVars>>
    BY <1>4 DEF Retry
  <2>3. QED
    BY <1>1, <1>2, <1>4, <2>1, <2>2, Retried
<1>5. CASE parse
  <2>1. UNCHANGED <<senderVars, encapVars>>
    BY <1>5 DEF parse
  <2>2. SenderInv' /\ HeardInv'
    BY <1>1, <2>1 DEF senderVars, SenderInv, HeardInv, Ordered
  <2>3. EncapInv'
    BY <1>1, <2>1 DEF senderVars, encapVars, EncapInv, TapOnceInOrder, OneStation, ShortLosses
  <2>4. QED
    BY <1>1, <1>5, <2>2, <2>3, Parse DEF LInv
<1>6. CASE from_wifi
  <2>1. UNCHANGED <<senderVars, parserVars>>
    BY <1>6 DEF from_wifi
  <2>2. SenderInv' /\ HeardInv'
    BY <1>1, <2>1 DEF senderVars, SenderInv, HeardInv, Ordered
  <2>3. ParserInv'
    BY <1>1, <2>1 DEF senderVars, parserVars, ParserInv, LossesCounted, Counted, Newest, Fresh,
                      NoneBetween, OneStation
  <2>4. QED
    BY <1>1, <1>6, <2>2, <2>3, FromWifi DEF LInv
<1>7. CASE UNCHANGED linkVars
  <2>1. UNCHANGED <<senderVars, parserVars, encapVars>>
    BY <1>7 DEF linkVars
  <2>2. SenderInv' /\ HeardInv'
    BY <1>1, <2>1 DEF senderVars, SenderInv, HeardInv, Ordered
  <2>3. UNCHANGED heard
    BY <2>1 DEF senderVars
  <2>4. QED
    BY <1>2, <2>1, <2>2, <2>3
<1>8. QED
  BY <1>3, <1>4, <1>5, <1>6, <1>7 DEF Next

THEOREM LinkAlways == Spec => []LInv
<1>1. QED
  BY LinkInitially, LinkKept, PTL DEF Spec

(* The losses are bounded by the packets: parse_mac never adds a whole turn. *)
LostInv == lost \in 0..d_total_packets * (SeqNumbers - 1)

LEMMA PacketsOfParsed ==
  ASSUME ParserInv
  PROVE  parsed \in Nat /\ d_total_packets \in 0..parsed
<1>1. parsed \in Nat
  BY DEF ParserInv
<1>2. Counted \in SUBSET (1..parsed)
  BY DEF Counted
<1>3. IsFiniteSet(1..parsed) /\ Cardinality(1..parsed) = parsed
  BY <1>1, FS_Interval
<1>4. IsFiniteSet(Counted) /\ Cardinality(Counted) <= Cardinality(1..parsed)
  BY <1>2, <1>3, FS_Subset
<1>5. Cardinality(Counted) \in Nat
  BY <1>4, FS_CardinalityType
<1>6. d_total_packets = Cardinality(Counted)
  BY DEF ParserInv, LossesCounted
<1>7. QED
  BY <1>1, <1>3, <1>4, <1>5, <1>6

LEMMA LostKept == LInv /\ LostInv /\ [Next]_linkVars => LostInv'
<1> SUFFICES ASSUME LInv, LostInv, [Next]_linkVars PROVE LostInv'
  OBVIOUS
<1> USE LinkAssumption DEF LinkAssumption
<1>1. CASE parse
  <2> DEFINE f == heard[parsed + 1]
             seq_no == seq_nr(f) \div 16
  <2>1. f \in Frame /\ d_last_seq_no \in -1..SeqNumbers - 1
    BY <1>1 DEF parse, LInv, HeardInv, ParserInv
  <2>2. seq_no \in 0..SeqNumbers - 1
    BY <2>1, FieldsOfFrame, SequenceControl
  <2>3. lost_frames(seq_no) \in 0..SeqNumbers - 1
    BY <2>1, <2>2 DEF lost_frames
  <2>4. IF IsParsed(f)
        THEN /\ lost' = lost + lost_frames(seq_no)
             /\ d_total_packets' = d_total_packets + 1
        ELSE UNCHANGED <<lost, d_total_packets>>
    BY <1>1 DEF parse
  <2>5. d_total_packets \in Nat
    BY PacketsOfParsed DEF LInv, ParserInv
  <2>6. (d_total_packets + 1) * (SeqNumbers - 1)
          = d_total_packets * (SeqNumbers - 1) + (SeqNumbers - 1)
    BY <2>5
  <2>7. d_total_packets * (SeqNumbers - 1) \in Int
    BY <2>5
  <2> HIDE DEF f, seq_no
  <2>8. QED
    BY <2>3, <2>4, <2>5, <2>6, <2>7 DEF LostInv
<1>2. CASE ~parse
  <2>1. UNCHANGED parserVars
    BY <1>2 DEF Next, Send, app_in, Retry, from_wifi, linkVars
  <2>2. QED
    BY <2>1 DEF LostInv, parserVars
<1>3. QED
  BY <1>1, <1>2

(* The state of the link layer has its types; the estimate of the losses is  *)
(* less than a turn of the numbers per packet (parse_mac.cc:262-264).        *)
THEOREM LinkTypesCorrect == Spec => []TypeOK
<1>1. Init => LostInv
  BY LinkAssumption DEF LinkAssumption, Init, LostInv
<1>2. LInv /\ LostInv => TypeOK
  <2> SUFFICES ASSUME LInv, LostInv PROVE TypeOK
    OBVIOUS
  <2> USE LinkAssumption DEF LinkAssumption
  <2>1. SenderInv /\ HeardInv /\ EncapInv /\ ParserInv
    BY DEF LInv
  <2>2. d_total_packets \in 0..parsed
    BY <2>1, PacketsOfParsed
  <2>3. d_last_seq \in {123} \union {16 * n : n \in 0..SeqNumbers - 1}
    <3>1. CASE handled = 0
      BY <2>1, <3>1 DEF EncapInv
    <3>2. CASE handled # 0
      <4>1. heard[handled] \in Frame /\ d_last_seq = seq_nr(heard[handled])
        BY <2>1, <3>2 DEF EncapInv, HeardInv
      <4>2. heard[handled].number % SeqNumbers \in 0..SeqNumbers - 1
        BY <4>1, FieldsOfFrame
      <4>3. QED
        BY <4>1, <4>2 DEF seq_nr
    <3>3. QED
      BY <3>1, <3>2
  <2>4. QED
    BY <2>1, <2>2, <2>3
       DEF SenderInv, HeardInv, EncapInv, ParserInv, LostInv, TypeOK
<1>3. QED
  BY <1>1, <1>2, LostKept, LinkAlways, PTL DEF Spec

(* The TAP device gets every payload of a single station exactly once and in *)
(* order, over losses, repetitions and wraps (ether_encap_impl.cc:50-60).    *)
THEOREM TapGetsEachOnce == Spec => []TapOnceInOrder
<1>1. LInv => TapOnceInOrder
  BY DEF LInv, EncapInv
<1>2. QED
  BY <1>1, LinkAlways, PTL

(* parse_mac counts the lost frames of a single station exactly, over every  *)
(* wrap of the sequence numbers (parse_mac.cc:262, 271).                     *)
THEOREM LossesAreCounted == Spec => []LossesCounted
<1>1. LInv => LossesCounted
  BY DEF LInv, ParserInv
<1>2. QED
  BY <1>1, LinkAlways, PTL

=============================================================================
