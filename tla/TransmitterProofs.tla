-------------------------- MODULE TransmitterProofs --------------------------
(***************************************************************************)
(* The transmitter's packets, for every set of encodings and PSDU sizes,     *)
(* every size of the buffer that holds a packet, and whatever room the calls *)
(* of the mapper have: the tags lie end to end on the stream, one per packet, *)
(* though a tag is added before the values it is for are written, so the two *)
(* blocks behind the mapper agree on every packet.                           *)
(***************************************************************************)
EXTENDS Transmitter, FiniteSetTheorems, SequenceTheorems, TLAPS

Value(m, k, e) == [of |-> m, k |-> k, encoding |-> e]
ValueType == [of : Nat, k : Nat, encoding : Encodings]

Tag == [offset : Nat, packet_len : Nat \ {0}, psdu_len : Nat, encoding : Encodings]
End(t) == t.offset + t.packet_len

(* Tags end to end, over a number of values.                                 *)
Laid(ts, total) ==
  /\ ts \in Seq(Tag)
  /\ \A i, j \in 1..Len(ts) : i < j => End(ts[i]) <= ts[j].offset
  /\ \A j \in 1..Len(ts) : ts[j].offset = IF j = 1 THEN 0 ELSE End(ts[j - 1])
  /\ total = IF Len(ts) = 0 THEN 0 ELSE End(ts[Len(ts)])

(* A packet has the symbols of its PSDU at its encoding, and no more than    *)
(* MAX_SYM.                                                                 *)
Sized(t) ==
  /\ t.packet_len = DATA_CARRIERS * NSym(t.encoding, t.psdu_len)
  /\ t.packet_len <= DATA_CARRIERS * MaxSym(MAX_PSDU_SIZE)

MapperTypes ==
  /\ messages \in Seq(Sizes \union {-1}) /\ taken \in 0..Len(messages)
  /\ refused \subseteq 1..taken
  /\ d_ofdm \in Encodings
  /\ d_scrambler \in 1..LAST_SEED
  /\ stream \in Seq(ValueType)

(* The packet being written, and where the mapper's call is.                 *)
Writing ==
  /\ d_symbols \in Seq(ValueType) /\ d_symbols_offset \in Nat
  /\ pc \in {"idle", "take", "copy"} /\ noutput \in 0..Buffer
  /\ pc = "idle" => (d_symbols = <<>> <=> d_symbols_offset = 0)
  /\ pc = "take" => d_symbols = <<>> /\ noutput >= 1
  /\ pc = "copy" => d_symbols # <<>> /\ noutput >= 1
  /\ IF d_symbols = <<>> THEN d_symbols_offset = 0
     ELSE /\ d_symbols_offset < Len(d_symbols)
          /\ Len(tags) > 0 /\ Len(d_symbols) = tags[Len(tags)].packet_len

Layout ==
  /\ Laid(tags, Len(stream) + Len(d_symbols) - d_symbols_offset)
  /\ \A j \in 1..Len(tags) : Sized(tags[j])

(* The values of the packet of a tag, made from message m.                   *)
Values(t, m) == [k \in 1..t.packet_len |-> Value(m, k, t.encoding)]

(* Message m is the j-th of which a packet was made.                         *)
SentAs(j, m) == m \in Sent /\ Cardinality({l \in Sent : l <= m}) = j

(* The values of the j-th packet come from message m, those that are written *)
(* and those that still wait.                                               *)
Carries(j, m) ==
  LET t == tags[j] IN
  /\ t.psdu_len = messages[m]
  /\ \A k \in 1..t.packet_len :
       t.offset + k <= Len(stream) => stream[t.offset + k] = Value(m, k, t.encoding)
  /\ j = Len(tags) /\ d_symbols # <<>> => d_symbols = Values(t, m)

Content ==
  /\ Cardinality(Sent) = Len(tags)
  /\ \A j \in 1..Len(tags) : \E m \in Sent : SentAs(j, m) /\ Carries(j, m)

(* A block behind the mapper has read the first n packets.                   *)
HasRead(n, read) ==
  /\ n \in 0..Len(tags)
  /\ read = IF n = 0 THEN 0 ELSE End(tags[n])
  /\ read <= Len(stream)

HeadersInv ==
  /\ headers \in Seq([encoding : Encodings, psdu_len : Nat])
  /\ HasRead(Len(headers), headers_read)
  /\ \A p \in 1..Len(headers) :
       headers[p].encoding = tags[p].encoding /\ headers[p].psdu_len = tags[p].psdu_len

MappedInv ==
  /\ threw = FALSE
  /\ mapped \in Seq([values : Seq(ValueType), encoding : Encodings])
  /\ HasRead(Len(mapped), mapped_read)
  /\ \A p \in 1..Len(mapped) :
       /\ mapped[p].encoding = tags[p].encoding
       /\ \E m \in Sent :
            /\ SentAs(p, m)
            /\ tags[p].psdu_len = messages[m] /\ mapped[p].values = Values(tags[p], m)

TInv == MapperTypes /\ Writing /\ Layout /\ Content /\ HeadersInv /\ MappedInv
-----------------------------------------------------------------------------
LEMMA Products ==
  ASSUME NEW x \in Nat
  PROVE  /\ DATA_CARRIERS * x \in Nat
         /\ x >= 1 => DATA_CARRIERS * x >= 1
         /\ \A y \in Nat : x <= y => DATA_CARRIERS * x <= DATA_CARRIERS * y
<1> DEFINE d == DATA_CARRIERS
<1>1. d \in Nat /\ d >= 1
  BY TransmitterAssumption DEF TransmitterAssumption
<1> HIDE DEF d
<1>2. d * x \in Nat
  BY <1>1
<1>3. x >= 1 => d * x >= 1
  <2> SUFFICES ASSUME x >= 1 PROVE d * x >= 1
    OBVIOUS
  <2>1. x - 1 \in Nat /\ d * x = d * (x - 1) + d /\ d * (x - 1) \in Nat
    BY <1>1
  <2>2. QED
    BY <1>1, <2>1
<1>4. ASSUME NEW y \in Nat, x <= y PROVE d * x <= d * y
  <2>1. y - x \in Nat /\ d * y = d * x + d * (y - x) /\ d * (y - x) \in Nat
    BY <1>1, <1>4
  <2>2. QED
    BY <1>2, <2>1
<1>5. QED
  BY <1>2, <1>3, <1>4 DEF d

(* A frame has at least one symbol.                                         *)
LEMMA NSymType ==
  ASSUME NEW e \in Encodings, NEW n \in Nat
  PROVE  NSym(e, n) \in Nat \ {0}
<1>1. e \in 0..7
  BY TransmitterAssumption DEF TransmitterAssumption, Encoding
<1>2. PayloadBits(n) \in Nat /\ PayloadBits(n) >= 22
  BY DEF PayloadBits
<1>3. ofdm_param[e].n_dbps \in {24, 36, 48, 72, 96, 144, 192, 216}
  BY <1>1 DEF ofdm_param, Encoding
<1>4. ASSUME NEW x \in Nat, x >= 22, NEW y \in {24, 36, 48, 72, 96, 144, 192, 216}
      PROVE  (x + y - 1) \div y \in Nat \ {0}
  BY <1>4
<1>5. QED
  BY <1>2, <1>3, <1>4 DEF NSym, CeilDiv

LEMMA MaxSymType == MaxSym(MAX_PSDU_SIZE) \in Nat
<1>1. \A x \in Nat : x \div 24 + 1 \in Nat
  OBVIOUS
<1>2. PayloadBits(MAX_PSDU_SIZE) \in Nat
  BY TransmitterAssumption DEF TransmitterAssumption, PayloadBits
<1>3. QED
  BY <1>1, <1>2 DEF MaxSym

LEMMA FieldsOfTag ==
  ASSUME NEW t \in Tag
  PROVE  /\ t.offset \in Nat /\ t.packet_len \in Nat /\ t.packet_len >= 1
         /\ t.psdu_len \in Nat /\ t.encoding \in Encodings
         /\ End(t) \in Nat /\ End(t) = t.offset + t.packet_len /\ t.offset < End(t)
BY DEF Tag, End

-----------------------------------------------------------------------------
(* Tags end to end, and one more behind the last.                            *)
LEMMA LaidAppend ==
  ASSUME NEW ts, NEW total, Laid(ts, total), NEW t \in Tag, t.offset = total
  PROVE  Laid(Append(ts, t), total + t.packet_len)
<1> DEFINE g == Append(ts, t)
           n == Len(ts)
<1>1. /\ ts \in Seq(Tag) /\ n \in Nat /\ g \in Seq(Tag) /\ Len(g) = n + 1
      /\ g[n + 1] = t /\ \A k \in 1..n : g[k] = ts[k] /\ ts[k] \in Tag
  BY DEF Laid
<1>2. total = IF n = 0 THEN 0 ELSE End(ts[n])
  BY DEF Laid
<1>3. /\ \A i, j \in 1..n : i < j => End(ts[i]) <= ts[j].offset
      /\ \A j \in 1..n : ts[j].offset = IF j = 1 THEN 0 ELSE End(ts[j - 1])
  BY DEF Laid
<1> HIDE DEF g, n
<1>4. ASSUME NEW i \in 1..n + 1, NEW j \in 1..n + 1, i < j
      PROVE  End(g[i]) <= g[j].offset
  <2>1. i \in 1..n
    BY <1>1, <1>4
  <2>2. CASE j \in 1..n
    BY <1>1, <1>3, <1>4, <2>1, <2>2
  <2>3. CASE j = n + 1
    <3>1. n \in 1..n /\ n # 0
      BY <1>1, <2>1
    <3>2. End(ts[i]) <= End(ts[n])
      <4>1. CASE i = n
        BY <1>1, <2>1, <4>1, FieldsOfTag
      <4>2. CASE i < n
        <5>1. End(ts[i]) <= ts[n].offset
          BY <1>3, <2>1, <3>1, <4>2
        <5>2. ts[n].offset < End(ts[n]) /\ ts[n].offset \in Nat /\ End(ts[n]) \in Nat
              /\ End(ts[i]) \in Nat
          BY <1>1, <2>1, <3>1, FieldsOfTag
        <5>3. QED
          BY <5>1, <5>2
      <4>3. QED
        BY <1>1, <2>1, <4>1, <4>2
    <3>3. QED
      BY <1>1, <1>2, <2>1, <2>3, <3>1, <3>2
  <2>4. QED
    BY <1>1, <2>2, <2>3
<1>5. ASSUME NEW j \in 1..n + 1
      PROVE  g[j].offset = IF j = 1 THEN 0 ELSE End(g[j - 1])
  <2>1. CASE j \in 1..n
    <3>1. j # 1 => j - 1 \in 1..n
      BY <1>1, <2>1
    <3>2. QED
      BY <1>1, <1>3, <2>1, <3>1
  <2>2. CASE j = n + 1
    <3>1. n # 0 => n \in 1..n /\ j - 1 = n /\ j # 1
      BY <1>1, <2>2
    <3>2. QED
      BY <1>1, <1>2, <2>2, <3>1
  <2>3. QED
    BY <1>1, <2>1, <2>2
<1>6. total + t.packet_len = End(t)
  BY DEF End
<1>7. Laid(g, total + t.packet_len)
  BY <1>1, <1>4, <1>5, <1>6 DEF Laid
<1>8. QED
  BY <1>7 DEF g

(* A block that has read n packets finds the tag of the next one, and no     *)
(* other, on the values of that.                                            *)
LEMMA NextPacket ==
  ASSUME NEW total, Laid(tags, total), NEW n, NEW at, HasRead(n, at), IsWhole(at),
         stream \in Seq(ValueType)
  PROVE  /\ n + 1 \in 1..Len(tags) /\ tags[n + 1] \in Tag
         /\ at = tags[n + 1].offset
         /\ PacketLen(at) = tags[n + 1].packet_len
         /\ TagsOf(at) = {n + 1}
         /\ HasRead(n + 1, at + PacketLen(at))
<1> DEFINE N == Len(tags)
<1>1. /\ tags \in Seq(Tag) /\ N \in Nat /\ DOMAIN tags = 1..N
      /\ \A j \in 1..N : tags[j] \in Tag
      /\ n \in 0..N /\ at = (IF n = 0 THEN 0 ELSE End(tags[n])) /\ Len(stream) \in Nat
  BY DEF Laid, HasRead
<1>2. /\ \A i, j \in 1..N : i < j => End(tags[i]) <= tags[j].offset
      /\ \A j \in 1..N : tags[j].offset = IF j = 1 THEN 0 ELSE End(tags[j - 1])
  BY DEF Laid
<1> HIDE DEF N
<1>3. \A j \in 1..N : /\ tags[j].offset \in Nat /\ tags[j].packet_len \in Nat
                      /\ tags[j].packet_len >= 1 /\ End(tags[j]) \in Nat
                      /\ End(tags[j]) = tags[j].offset + tags[j].packet_len
                      /\ tags[j].offset < End(tags[j])
  BY <1>1, FieldsOfTag
<1>4. at \in Nat
  BY <1>1, <1>3
<1>5. \A j \in 1..N : j <= n => tags[j].offset < at
  <2> SUFFICES ASSUME NEW j \in 1..N, j <= n PROVE tags[j].offset < at
    OBVIOUS
  <2>1. n \in 1..N /\ at = End(tags[n])
    BY <1>1
  <2>2. CASE j = n
    BY <1>3, <2>1, <2>2
  <2>3. CASE j < n
    <3>1. End(tags[j]) <= tags[n].offset
      BY <1>2, <2>1, <2>3
    <3>2. QED
      BY <1>3, <2>1, <3>1
  <2>4. QED
    BY <1>1, <2>2, <2>3
<1>6. PICK a \in 1..N : tags[a].offset = at /\ at + tags[a].packet_len <= Len(stream)
  BY <1>1 DEF IsWhole, Announced
<1>7. n + 1 \in 1..N
  <2>1. ~(a <= n)
    BY <1>3, <1>4, <1>5, <1>6
  <2>2. QED
    BY <1>1, <2>1
<1>8. tags[n + 1].offset = at
  <2>1. n + 1 = 1 <=> n = 0
    BY <1>1
  <2>2. (n + 1) - 1 = n
    BY <1>1
  <2>3. QED
    BY <1>1, <1>2, <1>7, <2>1, <2>2
<1>9. \A j \in 1..N : j > n + 1 => tags[j].offset >= at + tags[n + 1].packet_len
  <2> SUFFICES ASSUME NEW j \in 1..N, j > n + 1
               PROVE  tags[j].offset >= at + tags[n + 1].packet_len
    OBVIOUS
  <2>1. End(tags[n + 1]) <= tags[j].offset
    BY <1>1, <1>2, <1>7
  <2>2. QED
    BY <1>3, <1>7, <1>8, <2>1
<1>10. \A j \in 1..N : tags[j].offset = at <=> j = n + 1
  <2> SUFFICES ASSUME NEW j \in 1..N, tags[j].offset = at PROVE j = n + 1
    BY <1>7, <1>8
  <2>1. ~(j <= n)
    BY <1>3, <1>4, <1>5
  <2>2. ~(j > n + 1)
    <3>1. \A x, l \in Nat : l >= 1 => ~(x >= x + l)
      OBVIOUS
    <3>2. ~(at >= at + tags[n + 1].packet_len)
      BY <1>3, <1>4, <1>7, <3>1
    <3>3. QED
      BY <1>9, <3>2
  <2>3. QED
    BY <1>1, <2>1, <2>2
<1>11. Announced(at) = {n + 1}
  BY <1>1, <1>7, <1>10 DEF Announced
<1>12. PacketLen(at) = tags[n + 1].packet_len
  BY <1>11 DEF PacketLen
<1>13. TagsOf(at) = {n + 1}
  <2> DEFINE L == tags[n + 1].packet_len
  <2>1. L \in Nat /\ L >= 1
    BY <1>3, <1>7
  <2> HIDE DEF L
  <2>2. ASSUME NEW j \in 1..N
        PROVE  tags[j].offset \in at..at + L - 1 <=> j = n + 1
    <3>r. \A x, y, l \in Nat : x < y \/ x >= y + l => x \notin y..y + l - 1
      OBVIOUS
    <3>s. n \in Nat /\ j \in Nat
      BY <1>1
    <3>t. tags[j].offset \in Nat /\ (j <= n \/ j > n + 1 => j # n + 1)
      <4>1. tags[j].offset \in Nat
        BY <1>3
      <4>2. j <= n \/ j > n + 1 => j # n + 1
        BY <3>s
      <4>3. QED
        BY <4>1, <4>2
    <3>1. CASE j <= n
      <4>1. tags[j].offset < at
        BY <1>5, <3>1
      <4>2. QED
        BY <1>4, <2>1, <3>r, <3>t, <3>1, <4>1
    <3>2. CASE j = n + 1
      BY <1>4, <1>8, <2>1, <3>2
    <3>3. CASE j > n + 1
      <4>1. tags[j].offset >= at + L
        BY <1>9, <3>3 DEF L
      <4>2. QED
        BY <1>4, <2>1, <3>r, <3>t, <3>3, <4>1
    <3>4. QED
      BY <1>1, <3>1, <3>2, <3>3
  <2>3. TagsOf(at) = {j \in 1..N : tags[j].offset \in at..at + L - 1}
    BY <1>1, <1>12 DEF TagsOf, L
  <2>4. QED
    BY <1>7, <2>2, <2>3
<1>14. a = n + 1
  BY <1>6, <1>10
<1>15. at + PacketLen(at) = End(tags[n + 1]) /\ at + PacketLen(at) <= Len(stream)
  BY <1>3, <1>6, <1>7, <1>8, <1>12, <1>14
<1>16. HasRead(n + 1, at + PacketLen(at))
  BY <1>1, <1>7, <1>15 DEF HasRead, N
<1>17. QED
  BY <1>1, <1>7, <1>8, <1>12, <1>13, <1>16 DEF N

-----------------------------------------------------------------------------
(* Taking a message of which no packet is made changes no packet's message.  *)
LEMMA SentFinite ==
  ASSUME MapperTypes
  PROVE  /\ Sent \subseteq 1..taken /\ IsFiniteSet(Sent) /\ Cardinality(Sent) \in Nat
         /\ taken \in Nat /\ \A m \in Sent : m \in Nat /\ m <= taken
         /\ \A m \in Sent : messages[m] \in Nat
<1>1. taken \in Nat /\ messages \in Seq(Sizes \union {-1}) /\ taken <= Len(messages)
      /\ Len(messages) \in Nat
  BY DEF MapperTypes
<1>2. Sent \subseteq 1..taken
  BY DEF Sent
<1>3. IsFiniteSet(Sent)
  <2>1. IsFiniteSet(1..taken)
    BY <1>1, FS_Interval
  <2>2. QED
    BY <1>2, <2>1, FS_Subset
<1>4. ASSUME NEW m \in Sent PROVE messages[m] \in Nat
  <2>1. m \in 1..Len(messages) /\ messages[m] # -1
    BY <1>1 DEF Sent
  <2>2. messages[m] \in Sizes \union {-1}
    BY <1>1, <2>1
  <2>3. QED
    BY <2>1, <2>2, TransmitterAssumption DEF TransmitterAssumption
<1>5. QED
  BY <1>1, <1>2, <1>3, <1>4, FS_CardinalityType

(* What holds of the packets holds on while their messages, their tags and   *)
(* their values stay.                                                       *)
LEMMA ContentStays ==
  ASSUME Content, Sent' = Sent, \A m \in Sent : messages'[m] = messages[m],
         UNCHANGED <<tags, stream, d_symbols>>
  PROVE  Content' /\ \A j, m : SentAs(j, m) => SentAs(j, m)'
<1>1. \A j, m : SentAs(j, m) => SentAs(j, m)'
  BY DEF SentAs
<1>2. \A j, m : m \in Sent /\ Carries(j, m) => Carries(j, m)'
  BY DEF Carries
<1>3. QED
  BY <1>1, <1>2 DEF Content, SentAs

LEMMA ReadersStay ==
  ASSUME HeadersInv, MappedInv, UNCHANGED <<headerVars, chunksVars, tags, stream>>,
         Sent' = Sent, \A m \in Sent : messages'[m] = messages[m]
  PROVE  HeadersInv' /\ MappedInv'
<1>1. UNCHANGED <<headers, headers_read, mapped, mapped_read, threw>>
  BY DEF headerVars, chunksVars
<1>2. HeadersInv'
  BY <1>1 DEF HeadersInv, HasRead
<1>3. \A j, m : SentAs(j, m) => SentAs(j, m)'
  BY DEF SentAs
<1>4. MappedInv'
  BY <1>1, <1>3 DEF MappedInv, HasRead
<1>5. QED
  BY <1>2, <1>4

-----------------------------------------------------------------------------
LEMMA ValuesType ==
  ASSUME NEW t \in Tag, NEW m \in Nat
  PROVE  /\ Values(t, m) \in Seq(ValueType) /\ Len(Values(t, m)) = t.packet_len
         /\ Values(t, m) # <<>>
<1>1. t.packet_len \in Nat /\ t.packet_len >= 1 /\ t.encoding \in Encodings
  BY FieldsOfTag
<1>2. \A k \in 1..t.packet_len : Value(m, k, t.encoding) \in ValueType
  BY <1>1 DEF Value, ValueType
<1>3. Values(t, m) \in [1..t.packet_len -> ValueType]
  BY <1>2 DEF Values
<1>4. Values(t, m) \in Seq(ValueType) /\ Len(Values(t, m)) = t.packet_len
  BY <1>1, <1>3
<1>5. QED
  BY <1>1, <1>4

(* A packet is made of the next message.                                     *)
LEMMA Converted ==
  ASSUME TInv, Convert
  PROVE  TInv'
<1>0. Sizes \subseteq Nat /\ LAST_SEED \in Nat \ {0} /\ Buffer \in Nat
  BY TransmitterAssumption DEF TransmitterAssumption
<1> DEFINE size == messages[taken + 1]
           t == [offset |-> Len(stream), packet_len |-> DATA_CARRIERS * NSym(d_ofdm, size),
                 psdu_len |-> size, encoding |-> d_ofdm]
<1>1. MapperTypes /\ Writing /\ Layout /\ Content /\ HeadersInv /\ MappedInv
  BY DEF TInv
<1>2. /\ pc = "take" /\ taken < Len(messages) /\ size # -1
      /\ ~(NSym(d_ofdm, size) > MaxSym(MAX_PSDU_SIZE))
  BY DEF Convert, Pending, TooLarge
<1>3. /\ tags' = Append(tags, t) /\ taken' = taken + 1 /\ pc' = "copy"
      /\ d_scrambler' = IF d_scrambler = LAST_SEED THEN 1 ELSE d_scrambler + 1
      /\ UNCHANGED <<messages, d_ofdm, changes, d_symbols_offset, noutput, stream,
                     refused, headerVars, chunksVars>>
  BY DEF Convert
<1>4. d_symbols' = Values(t, taken + 1)
  BY DEF Convert, Values, Value
<1>5. /\ taken \in Nat /\ taken + 1 \in 1..Len(messages) /\ d_ofdm \in Encodings
      /\ Len(messages) \in Nat
      /\ messages \in Seq(Sizes \union {-1}) /\ stream \in Seq(ValueType) /\ Len(stream) \in Nat
  BY <1>1, <1>2 DEF MapperTypes
<1>6. size \in Nat
  <2>1. size \in Sizes \union {-1}
    BY <1>5
  <2>2. QED
    BY <1>0, <1>2, <2>1
<1>7. t \in Tag /\ Sized(t) /\ t.offset = Len(stream) /\ t.psdu_len = size
  <2>1. NSym(d_ofdm, size) \in Nat \ {0}
    BY <1>5, <1>6, NSymType
  <2>2. MaxSym(MAX_PSDU_SIZE) \in Nat /\ NSym(d_ofdm, size) <= MaxSym(MAX_PSDU_SIZE)
    BY <1>2, <2>1, MaxSymType
  <2>3. /\ DATA_CARRIERS * NSym(d_ofdm, size) \in Nat \ {0}
        /\ DATA_CARRIERS * NSym(d_ofdm, size) <= DATA_CARRIERS * MaxSym(MAX_PSDU_SIZE)
    BY <2>1, <2>2, Products
  <2>4. QED
    BY <1>5, <1>6, <2>3 DEF Tag, Sized
<1> HIDE DEF size, t
<1>8. d_symbols = <<>> /\ Len(d_symbols) = 0 /\ d_symbols_offset = 0 /\ noutput \in 0..Buffer
      /\ noutput >= 1
  BY <1>1, <1>2 DEF Writing
<1>9. Laid(tags, Len(stream)) /\ \A j \in 1..Len(tags) : Sized(tags[j])
  BY <1>1, <1>5, <1>8 DEF Layout
<1>10. /\ tags \in Seq(Tag) /\ Len(tags) \in Nat /\ Len(tags') = Len(tags) + 1
       /\ tags'[Len(tags) + 1] = t /\ \A j \in 1..Len(tags) : tags'[j] = tags[j]
  <2>1. tags \in Seq(Tag)
    BY <1>9 DEF Laid
  <2>2. QED
    BY <1>3, <1>7, <2>1
<1>11. /\ d_symbols' \in Seq(ValueType) /\ Len(d_symbols') = t.packet_len /\ d_symbols' # <<>>
       /\ t.packet_len \in Nat /\ t.packet_len >= 1
  <2>1. PICK m \in Nat : m = taken + 1
    BY <1>5
  <2>2. d_symbols' = Values(t, m)
    BY <1>4, <2>1
  <2>3. t \in Tag
    BY <1>7
  <2>4. /\ Values(t, m) \in Seq(ValueType) /\ Len(Values(t, m)) = t.packet_len
        /\ Values(t, m) # <<>>
    BY <2>3, ValuesType
  <2>5. t.packet_len \in Nat /\ t.packet_len >= 1
    BY <2>3, FieldsOfTag
  <2>6. QED
    BY <2>2, <2>4, <2>5
<1>12. MapperTypes'
  <2>1. d_scrambler' \in 1..LAST_SEED
    BY <1>0, <1>1, <1>3 DEF MapperTypes
  <2>2. refused' \subseteq 1..taken'
    BY <1>1, <1>3, <1>5 DEF MapperTypes
  <2>3. taken' \in 0..Len(messages')
    BY <1>3, <1>5
  <2>4. QED
    BY <1>3, <1>5, <2>1, <2>2, <2>3 DEF MapperTypes
<1>13. Writing'
  <2>1. Len(tags') > 0 /\ tags'[Len(tags')] = t
    BY <1>10
  <2>2. d_symbols_offset' = 0 /\ noutput' = noutput
    BY <1>3, <1>8
  <2>3. QED
    BY <1>3, <1>8, <1>11, <2>1, <2>2 DEF Writing
<1>14. Layout'
  <2>1. Laid(tags', Len(stream) + t.packet_len)
    BY <1>3, <1>7, <1>9, LaidAppend
  <2>2. Len(stream') + Len(d_symbols') - d_symbols_offset' = Len(stream) + t.packet_len
    BY <1>3, <1>5, <1>8, <1>11
  <2>3. ASSUME NEW j \in 1..Len(tags) + 1 PROVE Sized(tags'[j])
    <3>1. CASE j \in 1..Len(tags)
      BY <1>9, <1>10, <3>1, Zenon
    <3>2. CASE j = Len(tags) + 1
      BY <1>7, <1>10, <3>2, Zenon
    <3>3. QED
      BY <1>10, <3>1, <3>2
  <2>4. QED
    BY <1>10, <2>1, <2>2, <2>3 DEF Layout
<1>15. /\ Sent' = Sent \union {taken + 1} /\ taken + 1 \notin Sent
       /\ IsFiniteSet(Sent) /\ \A m \in Sent : m \in Nat /\ m <= taken
  <2>1. taken + 1 \notin refused /\ messages[taken + 1] # -1
    BY <1>1, <1>2, <1>5 DEF MapperTypes, size
  <2>2. 1..taken + 1 = (1..taken) \union {taken + 1}
    BY <1>5
  <2>3. Sent' = Sent \union {taken + 1}
    BY <1>3, <2>1, <2>2 DEF Sent
  <2>4. QED
    BY <1>1, <1>5, <2>3, SentFinite
<1>16. \A j, m : SentAs(j, m) => SentAs(j, m)'
  <2> SUFFICES ASSUME NEW j, NEW m, SentAs(j, m) PROVE SentAs(j, m)'
    OBVIOUS
  <2>1. m \in Sent /\ m \in Nat /\ m <= taken /\ ~(taken + 1 <= m)
    BY <1>5, <1>15 DEF SentAs
  <2>2. {l \in Sent' : l <= m} = {l \in Sent : l <= m}
    BY <1>15, <2>1
  <2>3. QED
    BY <1>15, <2>1, <2>2 DEF SentAs
<1>17. Cardinality(Sent') = Len(tags')
  <2>1. Cardinality(Sent \union {taken + 1}) = Cardinality(Sent) + 1
    BY <1>15, FS_AddElement
  <2>2. QED
    BY <1>1, <1>10, <1>15, <2>1 DEF Content
<1>18. \A j \in 1..Len(tags') : \E m \in Sent' : SentAs(j, m)' /\ Carries(j, m)'
  <2> SUFFICES ASSUME NEW j \in 1..Len(tags) + 1
               PROVE  \E m \in Sent' : SentAs(j, m)' /\ Carries(j, m)'
    BY <1>10
  <2>1. CASE j \in 1..Len(tags)
    <3>1. PICK m \in Sent : SentAs(j, m) /\ Carries(j, m)
      BY <1>1, <2>1 DEF Content
    <3>2. j # Len(tags') /\ tags'[j] = tags[j] /\ messages' = messages /\ stream' = stream
      BY <1>3, <1>10, <2>1
    <3>3. Carries(j, m)'
      BY <3>1, <3>2 DEF Carries
    <3>4. QED
      BY <1>15, <1>16, <3>1, <3>3
  <2>2. CASE j = Len(tags) + 1
    <3>1. PICK m : m = taken + 1
      OBVIOUS
    <3>2. m \in Sent' /\ m \in Nat
      BY <1>5, <1>15, <3>1
    <3>3. {l \in Sent' : l <= m} = Sent'
      BY <1>5, <1>15, <3>1
    <3>4. SentAs(j, m)'
      BY <1>10, <1>17, <2>2, <3>2, <3>3 DEF SentAs
    <3>5. tags'[j] = t /\ messages' = messages /\ stream' = stream /\ d_symbols' = Values(t, m)
      BY <1>3, <1>4, <1>10, <2>2, <3>1
    <3>6. t.psdu_len = messages[m]
      BY <1>7, <3>1 DEF size
    <3>7. \A k \in 1..t.packet_len : ~(t.offset + k <= Len(stream))
      BY <1>5, <1>7, <1>11
    <3>8. Carries(j, m)'
      BY <3>5, <3>6, <3>7 DEF Carries
    <3>9. QED
      BY <3>2, <3>4, <3>8
  <2>3. QED
    BY <1>10, <2>1, <2>2
<1>19. Content'
  BY <1>17, <1>18 DEF Content
<1>20. UNCHANGED <<headers, headers_read, mapped, mapped_read, threw, stream, messages>>
  BY <1>3 DEF headerVars, chunksVars
<1>21. ASSUME NEW n, NEW read, HasRead(n, read)
       PROVE  /\ n \in 0..Len(tags') /\ (read = IF n = 0 THEN 0 ELSE End(tags'[n]))
              /\ read <= Len(stream') /\ \A p \in 1..n : tags'[p] = tags[p]
  <2>1. n \in 0..Len(tags)
    BY <1>21 DEF HasRead
  <2>2. /\ n \in 0..Len(tags') /\ \A p \in 1..n : tags'[p] = tags[p]
        /\ n # 0 => tags'[n] = tags[n]
    BY <1>10, <2>1
  <2>3. QED
    BY <1>20, <1>21, <2>2 DEF HasRead
<1>22. HeadersInv'
  BY <1>1, <1>20, <1>21 DEF HeadersInv, HasRead
<1>23. MappedInv'
  <2>1. \A p \in 1..Len(mapped) : tags'[p] = tags[p]
    BY <1>1, <1>21 DEF MappedInv
  <2>2. \A p \in 1..Len(mapped) :
          /\ mapped[p].encoding = tags'[p].encoding
          /\ \E m \in Sent' :
               /\ SentAs(p, m)'
               /\ tags'[p].psdu_len = messages[m] /\ mapped[p].values = Values(tags'[p], m)
    <3> SUFFICES ASSUME NEW p \in 1..Len(mapped)
                 PROVE  /\ mapped[p].encoding = tags[p].encoding
                        /\ \E m \in Sent' :
                             /\ SentAs(p, m)'
                             /\ tags[p].psdu_len = messages[m]
                             /\ mapped[p].values = Values(tags[p], m)
      BY <2>1
    <3>1. PICK m \in Sent : /\ SentAs(p, m)
                            /\ tags[p].psdu_len = messages[m]
                            /\ mapped[p].values = Values(tags[p], m)
      BY <1>1 DEF MappedInv
    <3>2. m \in Sent' /\ SentAs(p, m)'
      BY <1>15, <1>16, <3>1
    <3>3. QED
      BY <1>1, <3>1, <3>2 DEF MappedInv
  <2>3. HasRead(Len(mapped), mapped_read)'
    BY <1>1, <1>20, <1>21 DEF MappedInv, HasRead
  <2>4. QED
    BY <1>1, <1>20, <2>2, <2>3 DEF MappedInv
<1>24. QED
  BY <1>12, <1>13, <1>14, <1>19, <1>22, <1>23 DEF TInv

(* Some values of a packet behind what is written.                           *)
LEMMA CopySome ==
  ASSUME NEW V, NEW w \in Seq(V), NEW d \in Seq(V), NEW off \in Nat, NEW n \in Nat,
         off + n <= Len(d),
         NEW a, NEW b, a = off + 1, b = off + n, NEW x, x = w \o SubSeq(d, a, b)
  PROVE  /\ x \in Seq(V) /\ Len(x) = Len(w) + n
         /\ \A i \in 1..Len(w) : x[i] = w[i]
         /\ \A i \in 1..Len(w) + n : i > Len(w) => x[i] = d[i - Len(w) + off]
<1> DEFINE c == SubSeq(d, off + 1, off + n)
<1>1. c \in Seq(V) /\ Len(c) = n /\ \A i \in 1..n : c[i] = d[off + 1 + i - 1]
  <2>1. Len(d) \in Nat /\ off + 1 \in 1..Len(d) + 1 /\ off + n \in off..Len(d)
    OBVIOUS
  <2>2. \A k \in off + 1..off + n : d[k] \in V
    BY <2>1
  <2>3. QED
    BY <2>1, <2>2
<1> HIDE DEF c
<1>2. /\ x \in Seq(V) /\ Len(x) = Len(w) + n /\ Len(w) \in Nat
      /\ \A i \in 1..Len(w) + n : x[i] = IF i <= Len(w) THEN w[i] ELSE c[i - Len(w)]
  <2>1. x = w \o c /\ Len(w) \in Nat
    BY DEF c
  <2>2. /\ w \o c \in Seq(V) /\ Len(w \o c) = Len(w) + Len(c)
        /\ \A i \in 1..Len(w) + Len(c) :
             (w \o c)[i] = IF i <= Len(w) THEN w[i] ELSE c[i - Len(w)]
    BY <1>1, ConcatProperties, Zenon
  <2>3. QED
    BY <1>1, <2>1, <2>2
<1>3. ASSUME NEW i \in 1..Len(w) + n, i > Len(w)
      PROVE  x[i] = d[i - Len(w) + off]
  <2>1. i - Len(w) \in 1..n /\ ~(i <= Len(w))
    BY <1>2, <1>3
  <2>2. off + 1 + (i - Len(w)) - 1 = i - Len(w) + off
    BY <1>2, <2>1
  <2>3. QED
    BY <1>1, <1>2, <2>1, <2>2
<1>4. QED
  <2>1. \A i \in 1..Len(w) : i \in 1..Len(w) + n /\ i <= Len(w)
    BY <1>2
  <2>2. QED
    BY <1>2, <1>3, <2>1

(* A call writes what of the packet it has room for.                         *)
LEMMA Copied ==
  ASSUME TInv, Copy
  PROVE  TInv'
<1> DEFINE rest == Len(d_symbols) - d_symbols_offset
           n == IF noutput < rest THEN noutput ELSE rest
           last == Len(tags)
<1>0. Buffer \in Nat
  BY TransmitterAssumption DEF TransmitterAssumption
<1>1. MapperTypes /\ Writing /\ Layout /\ Content /\ HeadersInv /\ MappedInv
  BY DEF TInv
<1>2. /\ stream' = stream \o SubSeq(d_symbols, d_symbols_offset + 1, d_symbols_offset + n)
      /\ d_symbols_offset' = (IF n = rest THEN 0 ELSE d_symbols_offset + n)
      /\ d_symbols' = (IF n = rest THEN <<>> ELSE d_symbols)
      /\ pc = "copy" /\ pc' = "idle" /\ noutput' = 0
      /\ UNCHANGED <<messages, d_ofdm, changes, taken, d_scrambler, tags, refused,
                     headerVars, chunksVars>>
  BY DEF Copy
<1>3. /\ d_symbols \in Seq(ValueType) /\ d_symbols # <<>> /\ Len(d_symbols) \in Nat
      /\ d_symbols_offset \in Nat /\ d_symbols_offset < Len(d_symbols)
      /\ noutput \in Nat /\ noutput >= 1
      /\ last > 0 /\ Len(d_symbols) = tags[last].packet_len
  BY <1>0, <1>1, <1>2 DEF Writing
<1>4. stream \in Seq(ValueType) /\ Len(stream) \in Nat
  BY <1>1 DEF MapperTypes
<1>5. /\ n \in Nat /\ n >= 1 /\ rest \in Nat /\ n <= rest /\ d_symbols_offset + n <= Len(d_symbols)
      /\ n # rest => d_symbols_offset + n < Len(d_symbols) /\ d_symbols_offset + n >= 1
  BY <1>3
<1> HIDE DEF n
<1>6. /\ stream' \in Seq(ValueType) /\ Len(stream') = Len(stream) + n
      /\ \A i \in 1..Len(stream) : stream'[i] = stream[i]
      /\ \A i \in 1..Len(stream) + n :
           i > Len(stream) => stream'[i] = d_symbols[i - Len(stream) + d_symbols_offset]
  <2>1. stream' = stream \o SubSeq(d_symbols, d_symbols_offset + 1, d_symbols_offset + n)
    BY <1>2
  <2>2. PICK x, a, b : x = stream' /\ a = d_symbols_offset + 1 /\ b = d_symbols_offset + n
    OBVIOUS
  <2>3. x = stream \o SubSeq(d_symbols, a, b)
    BY <2>1, <2>2
  <2>4. /\ d_symbols \in Seq(ValueType) /\ d_symbols_offset \in Nat /\ n \in Nat
        /\ d_symbols_offset + n <= Len(d_symbols)
    BY <1>3, <1>5
  <2>5. /\ x \in Seq(ValueType) /\ Len(x) = Len(stream) + n
        /\ \A i \in 1..Len(stream) : x[i] = stream[i]
        /\ \A i \in 1..Len(stream) + n :
             i > Len(stream) => x[i] = d_symbols[i - Len(stream) + d_symbols_offset]
    BY <1>4, <2>2, <2>3, <2>4, CopySome
  <2>6. QED
    BY <2>2, <2>5
<1>7. /\ Laid(tags, Len(stream) + Len(d_symbols) - d_symbols_offset)
      /\ \A j \in 1..Len(tags) : Sized(tags[j])
  BY <1>1 DEF Layout
<1>8. /\ tags \in Seq(Tag) /\ last \in 1..Len(tags) /\ Len(tags) \in Nat
      /\ \A j \in 1..Len(tags) : tags[j] \in Tag
      /\ End(tags[last]) = Len(stream) + Len(d_symbols) - d_symbols_offset
      /\ \A j \in 1..Len(tags) : j # last => End(tags[j]) <= tags[last].offset
  <2>1. tags \in Seq(Tag) /\ Len(tags) \in Nat /\ last \in 1..Len(tags) /\ last # 0
    BY <1>3, <1>7 DEF Laid
  <2>2. \A j \in 1..Len(tags) : j # last => j < last
    BY <2>1
  <2>3. QED
    BY <1>7, <2>1, <2>2 DEF Laid
<1> HIDE DEF rest, last
<1>9. tags[last].offset = Len(stream) - d_symbols_offset /\ tags[last].offset \in Nat
  <2>1. tags[last].offset \in Nat /\ End(tags[last]) = tags[last].offset + tags[last].packet_len
    BY <1>8, FieldsOfTag
  <2>2. PICK a, b, c, d \in Nat : /\ a = tags[last].offset /\ b = Len(d_symbols)
                                  /\ c = Len(stream) /\ d = d_symbols_offset
    BY <1>3, <1>4, <2>1
  <2>3. tags[last].offset + Len(d_symbols) = Len(stream) + Len(d_symbols) - d_symbols_offset
    BY <1>3, <1>8, <2>1
  <2>4. QED
    <3>1. a + b = c + b - d
      BY <2>2, <2>3
    <3>2. a = c - d
      BY <3>1
    <3>3. QED
      BY <2>2, <3>2
<1>10. MapperTypes'
  BY <1>1, <1>2, <1>6 DEF MapperTypes
<1>11. /\ d_symbols' \in Seq(ValueType) /\ d_symbols_offset' \in Nat
       /\ d_symbols' = <<>> <=> d_symbols_offset' = 0
       /\ d_symbols' # <<>> => d_symbols' = d_symbols /\ d_symbols_offset' < Len(d_symbols)
       /\ Len(d_symbols') - d_symbols_offset' = Len(d_symbols) - d_symbols_offset - n
       /\ Len(d_symbols') \in Nat
  <2>1. CASE n = rest
    <3>1. d_symbols' = <<>> /\ d_symbols_offset' = 0 /\ Len(d_symbols') = 0
      BY <1>2, <2>1
    <3>2. Len(d_symbols) - d_symbols_offset - n = 0
      BY <1>3, <1>5, <2>1 DEF rest
    <3>3. QED
      BY <3>1, <3>2
  <2>2. CASE n # rest
    <3>1. d_symbols' = d_symbols /\ d_symbols_offset' = d_symbols_offset + n
      BY <1>2, <2>2
    <3>2. QED
      BY <1>3, <1>5, <2>2, <3>1
  <2>3. QED
    BY <2>1, <2>2
<1>12. Writing'
  <2>1. tags' = tags /\ 0 \in 0..Buffer
    BY <1>0, <1>2
  <2>2. d_symbols' # <<>> => Len(tags') > 0 /\ Len(d_symbols') = tags'[Len(tags')].packet_len
                             /\ d_symbols_offset' < Len(d_symbols')
    BY <1>3, <1>11, <2>1 DEF last
  <2>3. QED
    BY <1>2, <1>11, <2>1, <2>2 DEF Writing
<1>13. Layout'
  <2>1. Len(stream') + Len(d_symbols') - d_symbols_offset'
          = Len(stream) + Len(d_symbols) - d_symbols_offset
    <3>1. PICK a, b, c, m \in Nat : /\ a = Len(stream) /\ b = Len(d_symbols)
                                    /\ c = d_symbols_offset /\ m = n
      BY <1>3, <1>4, <1>5
    <3>2. PICK x, y \in Nat : x = Len(d_symbols') /\ y = d_symbols_offset'
      BY <1>11
    <3>3. x - y = b - c - m /\ Len(stream') = a + m
      BY <1>6, <1>11, <3>1, <3>2
    <3>4. a + m + x - y = a + b - c
      BY <3>3
    <3>5. QED
      BY <3>1, <3>2, <3>3, <3>4
  <2>2. QED
    BY <1>2, <1>7, <2>1 DEF Layout
<1>14. Sent' = Sent /\ \A j, m : SentAs(j, m) => SentAs(j, m)'
  <2>1. Sent' = Sent
    BY <1>2 DEF Sent
  <2>2. QED
    BY <2>1 DEF SentAs
<1>15. ASSUME NEW j \in 1..Len(tags), NEW m, Carries(j, m)
       PROVE  Carries(j, m)'
  <2>1. tags' = tags /\ messages' = messages /\ tags[j].psdu_len = messages[m]
    BY <1>2, <1>15 DEF Carries
  <2>2. j = last => d_symbols = Values(tags[j], m)
    BY <1>3, <1>15 DEF Carries, last
  <2>3. tags[j].offset \in Nat /\ tags[j].packet_len \in Nat
        /\ End(tags[j]) = tags[j].offset + tags[j].packet_len
    BY <1>8, FieldsOfTag
  <2>4. ASSUME NEW k \in 1..tags[j].packet_len, tags[j].offset + k <= Len(stream) + n
        PROVE  stream'[tags[j].offset + k] = Value(m, k, tags[j].encoding)
    <3> DEFINE at == tags[j].offset + k
    <3>k. k \in Nat /\ k >= 1 /\ k <= tags[j].packet_len
      BY <2>3
    <3>a. at \in Nat /\ at >= 1
      BY <2>3, <3>k
    <3>n. at <= Len(stream) + n
      BY <2>4
    <3> HIDE DEF at
    <3>1. at \in 1..Len(stream) + n
      BY <1>4, <1>5, <3>a, <3>n
    <3>2. CASE at <= Len(stream)
      <4>1. at \in 1..Len(stream)
        BY <1>4, <3>1, <3>2
      <4>2. stream[at] = Value(m, k, tags[j].encoding)
        BY <1>15, <3>2 DEF Carries, at
      <4>3. QED
        BY <1>6, <4>1, <4>2 DEF at
    <3>3. CASE at > Len(stream)
      <4>1. j = last
        <5> SUFFICES ASSUME j # last PROVE FALSE
          OBVIOUS
        <5>1. tags[j].offset + tags[j].packet_len <= tags[last].offset
          BY <1>8, <2>3
        <5>2. \A a, b, c, d, x, y \in Nat : a + b <= c /\ c = d - x /\ y <= b => a + y <= d
          OBVIOUS
        <5>3. at <= Len(stream)
          BY <1>3, <1>4, <1>9, <2>3, <3>k, <5>1, <5>2 DEF at
        <5>4. QED
          BY <1>4, <3>a, <3>3, <5>3
      <4>2. at - Len(stream) + d_symbols_offset = k
        <5>1. \A a, b, c \in Nat : (b - c) + a - b + c = a
          OBVIOUS
        <5>2. QED
          BY <1>3, <1>4, <1>9, <3>k, <4>1, <5>1 DEF at
      <4>3. stream'[at] = d_symbols[k]
        BY <1>6, <3>1, <3>3, <4>2
      <4>4. d_symbols[k] = Value(m, k, tags[j].encoding)
        BY <2>2, <4>1 DEF Values
      <4>5. QED
        BY <4>3, <4>4 DEF at
    <3>4. QED
      BY <1>4, <3>a, <3>2, <3>3
  <2>5. j = Len(tags') /\ d_symbols' # <<>> => d_symbols' = Values(tags'[j], m)
    BY <1>11, <2>1, <2>2 DEF last
  <2>6. QED
    BY <1>6, <2>1, <2>4, <2>5 DEF Carries
<1>16. Content'
  <2>1. \A j \in 1..Len(tags') : \E m \in Sent' : SentAs(j, m)' /\ Carries(j, m)'
    <3> SUFFICES ASSUME NEW j \in 1..Len(tags)
                 PROVE  \E m \in Sent' : SentAs(j, m)' /\ Carries(j, m)'
      BY <1>2
    <3>1. PICK m \in Sent : SentAs(j, m) /\ Carries(j, m)
      BY <1>1 DEF Content
    <3>2. QED
      BY <1>14, <1>15, <3>1
  <2>2. QED
    BY <1>1, <1>2, <1>14, <2>1 DEF Content
<1>17. UNCHANGED <<headers, headers_read, mapped, mapped_read, threw, tags, messages>>
  BY <1>2 DEF headerVars, chunksVars
<1>18. \A m, read : HasRead(m, read) => HasRead(m, read)'
  <2>1. \A read \in Int : read <= Len(stream) => read <= Len(stream')
    BY <1>4, <1>5, <1>6
  <2>2. \A m \in 0..Len(tags) : (IF m = 0 THEN 0 ELSE End(tags[m])) \in Int
    BY <1>8, FieldsOfTag
  <2>3. QED
    BY <1>17, <2>1, <2>2 DEF HasRead
<1>19. HeadersInv'
  BY <1>1, <1>17, <1>18 DEF HeadersInv
<1>20. MappedInv'
  BY <1>1, <1>14, <1>17, <1>18 DEF MappedInv
<1>21. QED
  BY <1>10, <1>12, <1>13, <1>16, <1>19, <1>20 DEF TInv

(* The header generator announces the packet of the next tag.                *)
LEMMA HeaderFormatted ==
  ASSUME TInv, header_formatter
  PROVE  TInv'
<1> DEFINE at == headers_read
           p == Len(headers) + 1
           h == [encoding |-> tags[p].encoding, psdu_len |-> tags[p].psdu_len]
<1>1. MapperTypes /\ Writing /\ Layout /\ Content /\ HeadersInv /\ MappedInv
  BY DEF TInv
<1>2. /\ IsWhole(at) /\ headers_read' = at + PacketLen(at)
      /\ headers' = Append(headers,
           LET t == tags[CHOOSE j \in TagsOf(at) : \A l \in TagsOf(at) : l <= j]
           IN [encoding |-> t.encoding, psdu_len |-> t.psdu_len])
      /\ UNCHANGED <<messages, d_ofdm, changes, mapperVars, chunksVars>>
  BY DEF header_formatter
<1>3. UNCHANGED <<messages, d_ofdm, taken, d_scrambler, d_symbols, d_symbols_offset, pc,
                  noutput, stream, tags, refused, mapped, mapped_read, threw>>
  BY <1>2 DEF mapperVars, chunksVars
<1>4. headers \in Seq([encoding : Encodings, psdu_len : Nat]) /\ Len(headers) \in Nat
      /\ HasRead(Len(headers), at)
  BY <1>1 DEF HeadersInv
<1>5. /\ p \in 1..Len(tags) /\ tags[p] \in Tag /\ TagsOf(at) = {p}
      /\ HasRead(p, at + PacketLen(at))
  BY <1>1, <1>2, <1>4, NextPacket DEF Layout, MapperTypes
<1>6. (CHOOSE j \in TagsOf(at) : \A l \in TagsOf(at) : l <= j) = p
  <2>1. p <= p
    BY <1>4
  <2>2. QED
    BY <1>5, <2>1
<1>7. headers' = Append(headers, h) /\ h \in [encoding : Encodings, psdu_len : Nat]
  <2>1. tags[p].encoding \in Encodings /\ tags[p].psdu_len \in Nat
    BY <1>5, FieldsOfTag
  <2>2. QED
    BY <1>2, <1>6, <2>1
<1>8. /\ headers' \in Seq([encoding : Encodings, psdu_len : Nat]) /\ Len(headers') = p
      /\ headers'[p] = h /\ \A k \in 1..Len(headers) : headers'[k] = headers[k]
  BY <1>4, <1>7
<1>9. h.encoding = tags[p].encoding /\ h.psdu_len = tags[p].psdu_len
  OBVIOUS
<1> HIDE DEF h
<1>10. ASSUME NEW k \in 1..p
       PROVE  headers'[k].encoding = tags[k].encoding /\ headers'[k].psdu_len = tags[k].psdu_len
  <2>1. CASE k = p
    BY <1>8, <1>9, <2>1
  <2>2. CASE k \in 1..Len(headers)
    BY <1>1, <1>8, <2>2 DEF HeadersInv
  <2>3. QED
    BY <1>4, <2>1, <2>2
<1>11. HeadersInv'
  BY <1>2, <1>3, <1>5, <1>8, <1>10 DEF HeadersInv, HasRead
<1>12. Sent' = Sent /\ \A m \in Sent : messages'[m] = messages[m]
  BY <1>3 DEF Sent
<1>13. Content' /\ \A j, m : SentAs(j, m) => SentAs(j, m)'
  BY <1>1, <1>3, <1>12, ContentStays
<1>14. MappedInv'
  BY <1>1, <1>3, <1>12, <1>13 DEF MappedInv, HasRead
<1>15. MapperTypes' /\ Writing' /\ Layout'
  BY <1>1, <1>3 DEF MapperTypes, Writing, Layout
<1>16. QED
  BY <1>11, <1>13, <1>14, <1>15 DEF TInv

(* chunks_to_symbols finds one encoding on the packet of the next tag, and   *)
(* the values of one message.                                               *)
LEMMA ChunksMapped ==
  ASSUME TInv, chunks_to_symbols
  PROVE  TInv'
<1> DEFINE at == mapped_read
           p == Len(mapped) + 1
           e == tags[p].encoding
<1>1. MapperTypes /\ Writing /\ Layout /\ Content /\ HeadersInv /\ MappedInv
  BY DEF TInv
<1>2. /\ IsWhole(at)
      /\ IF Cardinality(TagsOf(at)) = 1
         THEN /\ mapped' = Append(mapped,
                   [values |-> SubSeq(stream, at + 1, at + PacketLen(at)),
                    encoding |-> tags[CHOOSE j \in TagsOf(at) : TRUE].encoding])
              /\ mapped_read' = at + PacketLen(at)
              /\ UNCHANGED threw
         ELSE threw' = TRUE /\ UNCHANGED <<mapped, mapped_read>>
      /\ UNCHANGED <<messages, d_ofdm, changes, mapperVars, headerVars>>
  BY DEF chunks_to_symbols
<1>3. UNCHANGED <<messages, d_ofdm, taken, d_scrambler, d_symbols, d_symbols_offset, pc,
                  noutput, stream, tags, refused, headers, headers_read>>
  BY <1>2 DEF mapperVars, headerVars
<1>4. /\ mapped \in Seq([values : Seq(ValueType), encoding : Encodings])
      /\ Len(mapped) \in Nat /\ HasRead(Len(mapped), at) /\ threw = FALSE
  BY <1>1 DEF MappedInv
<1>5. /\ p \in 1..Len(tags) /\ tags[p] \in Tag /\ TagsOf(at) = {p} /\ at = tags[p].offset
      /\ PacketLen(at) = tags[p].packet_len /\ HasRead(p, at + PacketLen(at))
  BY <1>1, <1>2, <1>4, NextPacket DEF Layout, MapperTypes
<1>6. Cardinality(TagsOf(at)) = 1 /\ (CHOOSE j \in TagsOf(at) : TRUE) = p
  BY <1>5, FS_Singleton
<1>7. PICK m \in Sent : SentAs(p, m) /\ Carries(p, m)
  BY <1>1, <1>5 DEF Content
<1>8. SubSeq(stream, at + 1, at + PacketLen(at)) = Values(tags[p], m)
  <2>1. /\ tags[p].offset \in Nat /\ tags[p].packet_len \in Nat
        /\ End(tags[p]) = tags[p].offset + tags[p].packet_len
    BY <1>5, FieldsOfTag
  <2>2. stream \in Seq(ValueType) /\ Len(stream) \in Nat
    BY <1>1 DEF MapperTypes
  <2> DEFINE o == tags[p].offset
             n == tags[p].packet_len
  <2>3. o + n <= Len(stream)
    BY <1>5, <2>1 DEF HasRead
  <2>4. \A k \in 1..n : stream[o + k] = Value(m, k, e)
    <3>1. \A k \in 1..n : o + k <= Len(stream)
      <4> HIDE DEF o, n
      <4>1. o \in Nat /\ n \in Nat
        BY <2>1 DEF o, n
      <4>2. QED
        BY <2>2, <2>3, <4>1
    <3>2. QED
      BY <1>7, <3>1 DEF Carries
  <2>5. o \in Nat /\ n \in Nat /\ at + 1 = o + 1 /\ at + PacketLen(at) = o + n
    BY <1>5, <2>1
  <2> HIDE DEF o, n
  <2>6. SubSeq(stream, o + 1, o + n) = [k \in 1..n |-> stream[o + k]]
    BY <2>2, <2>3, <2>5
  <2>7. QED
    BY <2>4, <2>5, <2>6 DEF Values, n
<1>9. m \in Nat
  BY <1>1, <1>7, SentFinite
<1> DEFINE r == [values |-> Values(tags[p], m), encoding |-> e]
<1>10. mapped' = Append(mapped, r) /\ threw' = FALSE /\ mapped_read' = at + PacketLen(at)
  BY <1>2, <1>4, <1>6, <1>8
<1>11. r \in [values : Seq(ValueType), encoding : Encodings]
  <2>1. tags[p].encoding \in Encodings /\ Values(tags[p], m) \in Seq(ValueType)
    BY <1>5, <1>9, FieldsOfTag, ValuesType
  <2>2. QED
    BY <2>1
<1>12. r.encoding = tags[p].encoding /\ r.values = Values(tags[p], m)
  OBVIOUS
<1> HIDE DEF r
<1>13. /\ mapped' \in Seq([values : Seq(ValueType), encoding : Encodings]) /\ Len(mapped') = p
       /\ mapped'[p] = r /\ \A k \in 1..Len(mapped) : mapped'[k] = mapped[k]
  BY <1>4, <1>10, <1>11
<1>14. Sent' = Sent /\ \A l \in Sent : messages'[l] = messages[l]
  BY <1>3 DEF Sent
<1>15. Content' /\ \A j, l : SentAs(j, l) => SentAs(j, l)'
  BY <1>1, <1>3, <1>14, ContentStays
<1>16. ASSUME NEW k \in 1..p
       PROVE  /\ mapped'[k].encoding = tags[k].encoding
              /\ \E l \in Sent : /\ SentAs(k, l)
                                 /\ tags[k].psdu_len = messages[l]
                                 /\ mapped'[k].values = Values(tags[k], l)
  <2>1. CASE k = p
    BY <1>7, <1>12, <1>13, <2>1 DEF Carries
  <2>2. CASE k \in 1..Len(mapped)
    BY <1>1, <1>13, <2>2 DEF MappedInv
  <2>3. QED
    BY <1>4, <2>1, <2>2
<1>17. MappedInv'
  <2>1. \A k \in 1..Len(mapped') :
          /\ mapped'[k].encoding = tags'[k].encoding
          /\ \E l \in Sent' : /\ SentAs(k, l)'
                              /\ tags'[k].psdu_len = messages'[l]
                              /\ mapped'[k].values = Values(tags'[k], l)
    BY <1>3, <1>13, <1>14, <1>15, <1>16
  <2>2. HasRead(Len(mapped), mapped_read)'
    BY <1>3, <1>5, <1>10, <1>13 DEF HasRead
  <2>3. QED
    BY <1>10, <1>13, <2>1, <2>2 DEF MappedInv
<1>18. HeadersInv'
  BY <1>1, <1>3 DEF HeadersInv, HasRead
<1>19. MapperTypes' /\ Writing' /\ Layout'
  BY <1>1, <1>3 DEF MapperTypes, Writing, Layout
<1>20. QED
  BY <1>15, <1>17, <1>18, <1>19 DEF TInv

(* Nothing that is written or read, and no packet of a message.              *)
LEMMA NothingWritten ==
  ASSUME TInv, UNCHANGED <<tags, stream, d_symbols, d_symbols_offset, headerVars, chunksVars>>,
         MapperTypes', Sent' = Sent, \A m \in Sent : messages'[m] = messages[m],
         pc' \in {"idle", "take", "copy"}, noutput' \in 0..Buffer,
         pc' = "idle" => (d_symbols = <<>> <=> d_symbols_offset = 0),
         pc' = "take" => d_symbols = <<>> /\ noutput' >= 1,
         pc' = "copy" => d_symbols # <<>> /\ noutput' >= 1
  PROVE  TInv'
<1>1. MapperTypes /\ Writing /\ Layout /\ Content /\ HeadersInv /\ MappedInv
  BY DEF TInv
<1>2. UNCHANGED <<tags, stream, d_symbols, d_symbols_offset>>
  OBVIOUS
<1>3. Writing'
  BY <1>1, <1>2 DEF Writing
<1>4. Layout'
  BY <1>1, <1>2 DEF Layout
<1>5. Content'
  BY <1>1, <1>2, ContentStays
<1>6. HeadersInv' /\ MappedInv'
  BY <1>1, <1>2, ReadersStay
<1>7. QED
  BY <1>3, <1>4, <1>5, <1>6 DEF TInv

(* What is read is written, so that no call has more room than the buffer.   *)
LEMMA Room ==
  ASSUME TInv
  PROVE  \A n \in 1..Space : n \in 0..Buffer
<1>1. /\ HasRead(Len(headers), headers_read) /\ HasRead(Len(mapped), mapped_read)
      /\ tags \in Seq(Tag) /\ stream \in Seq(ValueType)
  BY DEF TInv, HeadersInv, MappedInv, Layout, Laid, MapperTypes
<1>2. \A j \in 1..Len(tags) : End(tags[j]) \in Nat
  BY <1>1, FieldsOfTag
<1>3. \A n, read : HasRead(n, read) => read \in 0..Len(stream)
  <2> SUFFICES ASSUME NEW n \in 0..Len(tags), NEW read,
                      read = IF n = 0 THEN 0 ELSE End(tags[n]), read <= Len(stream)
               PROVE  read \in 0..Len(stream)
    BY DEF HasRead
  <2>1. n # 0 => n \in 1..Len(tags)
    BY <1>1
  <2>2. read \in Nat
    BY <1>2, <2>1
  <2>3. Len(stream) \in Nat
    BY <1>1
  <2>4. QED
    BY <2>2, <2>3
<1>4. headers_read \in 0..Len(stream) /\ mapped_read \in 0..Len(stream) /\ Len(stream) \in Nat
  BY <1>1, <1>3
<1>5. Buffer \in Nat
  BY TransmitterAssumption DEF TransmitterAssumption
<1>6. QED
  BY <1>4, <1>5 DEF Space

LEMMA TransmitterInitially == Init => TInv
<1> SUFFICES ASSUME Init PROVE TInv
  OBVIOUS
<1>0. Encodings \subseteq Encoding /\ LAST_SEED \in Nat \ {0} /\ Buffer \in Nat
  BY TransmitterAssumption DEF TransmitterAssumption
<1>1. MapperTypes
  BY <1>0 DEF Init, MapperTypes
<1>2. Writing
  BY <1>0 DEF Init, Writing
<1>3. Layout
  BY DEF Init, Layout, Laid
<1>4. Content
  <2>1. Sent = {}
    BY DEF Init, Sent
  <2>2. Cardinality(Sent) = 0
    BY <2>1, FS_EmptySet
  <2>3. QED
    BY <2>2 DEF Init, Content
<1>5. HeadersInv
  BY DEF Init, HeadersInv, HasRead
<1>6. MappedInv
  BY DEF Init, MappedInv, HasRead
<1>7. QED
  BY <1>1, <1>2, <1>3, <1>4, <1>5, <1>6 DEF TInv

LEMMA TransmitterKept == TInv /\ [Next]_transmitterVars => TInv'
<1> SUFFICES ASSUME TInv, [Next]_transmitterVars PROVE TInv'
  OBVIOUS
<1>0. MapperTypes /\ Writing
  BY DEF TInv
<1>b. Buffer \in Nat
  BY TransmitterAssumption DEF TransmitterAssumption
<1>w. /\ pc \in {"idle", "take", "copy"} /\ noutput \in 0..Buffer
      /\ pc = "idle" => (d_symbols = <<>> <=> d_symbols_offset = 0)
      /\ pc = "take" => d_symbols = <<>> /\ noutput >= 1 /\ d_symbols_offset = 0
      /\ pc = "copy" => d_symbols # <<>> /\ noutput >= 1
  BY <1>0 DEF Writing
<1>t. /\ messages \in Seq(Sizes \union {-1}) /\ taken \in Nat /\ Len(messages) \in Nat
      /\ taken <= Len(messages) /\ refused \subseteq 1..taken
      /\ \A m \in Sent : m \in 1..taken
  BY <1>0 DEF MapperTypes, Sent
<1>1. CASE Message
  <2>1. PICK size \in Sizes \union {-1} : messages' = Append(messages, size)
    BY <1>1 DEF Message
  <2>2. UNCHANGED <<taken, d_scrambler, d_symbols, d_symbols_offset, pc, noutput, stream, tags,
                    refused, d_ofdm, headerVars, chunksVars>>
    BY <1>1 DEF Message, mapperVars
  <2>3. messages' \in Seq(Sizes \union {-1}) /\ Len(messages') = Len(messages) + 1
        /\ \A m \in 1..Len(messages) : messages'[m] = messages[m]
    BY <1>t, <2>1
  <2>4. \A m \in 1..taken : messages'[m] = messages[m]
    BY <1>t, <2>3
  <2>5. Sent' = Sent
    BY <2>2, <2>4 DEF Sent
  <2>6. MapperTypes'
    BY <1>0, <1>t, <2>2, <2>3 DEF MapperTypes
  <2>7. QED
    BY <1>w, <1>t, <2>2, <2>4, <2>5, <2>6, NothingWritten
<1>2. CASE set_encoding
  <2>1. d_ofdm' \in Encodings
    BY <1>2 DEF set_encoding
  <2>2. UNCHANGED <<taken, d_scrambler, d_symbols, d_symbols_offset, pc, noutput, stream, tags,
                    refused, messages, headerVars, chunksVars>>
    BY <1>2 DEF set_encoding, mapperVars
  <2>3. Sent' = Sent /\ MapperTypes'
    BY <1>0, <2>1, <2>2 DEF MapperTypes, Sent
  <2>4. QED
    BY <1>w, <2>2, <2>3, NothingWritten
<1>3. CASE Call
  <2>1. /\ pc = "idle" /\ noutput' \in 1..Space
        /\ pc' = (IF d_symbols_offset = 0 THEN "take" ELSE "copy")
        /\ UNCHANGED <<messages, d_ofdm, changes, taken, d_scrambler, d_symbols,
                       d_symbols_offset, stream, tags, refused, headerVars, chunksVars>>
    BY <1>3 DEF Call
  <2>2. noutput' \in 0..Buffer /\ noutput' >= 1
    <3>1. noutput' \in 0..Buffer
      BY <2>1, Room
    <3>2. noutput' >= 1
      BY <2>1
    <3>3. QED
      BY <3>1, <3>2
  <2>3. Sent' = Sent /\ MapperTypes'
    BY <1>0, <2>1 DEF MapperTypes, Sent
  <2>4. QED
    BY <1>w, <2>1, <2>2, <2>3, NothingWritten
<1>4. CASE NoMessage
  <2>1. /\ pc = "take" /\ pc' = "idle" /\ noutput' = 0
        /\ UNCHANGED <<messages, d_ofdm, changes, taken, d_scrambler, d_symbols,
                       d_symbols_offset, stream, tags, refused, headerVars, chunksVars>>
    BY <1>4 DEF NoMessage
  <2>2. Sent' = Sent /\ MapperTypes' /\ noutput' \in 0..Buffer
    BY <1>0, <1>b, <2>1 DEF MapperTypes, Sent
  <2>3. QED
    BY <1>w, <2>1, <2>2, NothingWritten
<1>5. CASE Skip
  <2>1. /\ pc = "take" /\ taken < Len(messages) /\ messages[taken + 1] = -1
        /\ taken' = taken + 1
        /\ UNCHANGED <<messages, d_ofdm, changes, d_scrambler, d_symbols, d_symbols_offset,
                       pc, noutput, stream, tags, refused, headerVars, chunksVars>>
    BY <1>5 DEF Skip
  <2>2. 1..taken + 1 = (1..taken) \union {taken + 1}
    BY <1>t
  <2>3. Sent' = Sent
    BY <2>1, <2>2 DEF Sent
  <2>4. MapperTypes'
    <3>1. taken' \in 0..Len(messages') /\ refused' \subseteq 1..taken'
      BY <1>t, <2>1, <2>2
    <3>2. QED
      BY <1>0, <2>1, <3>1 DEF MapperTypes
  <2>5. QED
    BY <1>w, <2>1, <2>3, <2>4, NothingWritten
<1>6. CASE Refuse
  <2>1. /\ pc = "take" /\ taken < Len(messages) /\ taken' = taken + 1
        /\ refused' = refused \union {taken + 1} /\ pc' = "idle" /\ noutput' = 0
        /\ UNCHANGED <<messages, d_ofdm, changes, d_scrambler, d_symbols, d_symbols_offset,
                       stream, tags, headerVars, chunksVars>>
    BY <1>6 DEF Refuse, Pending
  <2>2. 1..taken + 1 = (1..taken) \union {taken + 1} /\ taken + 1 \notin 1..taken
    BY <1>t
  <2>3. Sent' = Sent
    BY <2>1, <2>2 DEF Sent
  <2>4. MapperTypes'
    <3>1. taken' \in 0..Len(messages') /\ refused' \subseteq 1..taken'
      BY <1>t, <2>1, <2>2
    <3>2. QED
      BY <1>0, <2>1, <3>1 DEF MapperTypes
  <2>5. noutput' \in 0..Buffer
    BY <1>b, <2>1
  <2>6. QED
    BY <1>w, <2>1, <2>3, <2>4, <2>5, NothingWritten
<1>7. CASE UNCHANGED transmitterVars
  <2>1. UNCHANGED <<taken, d_scrambler, d_symbols, d_symbols_offset, pc, noutput, stream, tags,
                    refused, messages, d_ofdm, headerVars, chunksVars>>
    BY <1>7 DEF transmitterVars, mapperVars
  <2>2. Sent' = Sent /\ MapperTypes'
    BY <1>0, <2>1 DEF MapperTypes, Sent
  <2>3. QED
    BY <1>w, <2>1, <2>2, NothingWritten
<1>8. QED
  BY <1>1, <1>2, <1>3, <1>4, <1>5, <1>6, <1>7, Converted, Copied, HeaderFormatted, ChunksMapped
  DEF Next, general_work

THEOREM TransmitterAlways == Spec => []TInv
<1>1. QED
  BY TransmitterInitially, TransmitterKept, PTL DEF Spec

(* The variables of the transmitter keep their types; no packet is longer    *)
(* than MAX_SYM symbols.                                                    *)
THEOREM TransmitterTypesCorrect == Spec => []TypeOK
<1>1. TInv => TypeOK
  <2> SUFFICES ASSUME TInv PROVE TypeOK
    OBVIOUS
  <2>1. MapperTypes /\ Writing /\ Layout
    BY DEF TInv
  <2>2. d_symbols_offset \in 0..Len(d_symbols) /\ Len(d_symbols) \in Nat
    <3>1. Len(<<>>) = 0
      OBVIOUS
    <3>2. QED
      BY <2>1, <3>1 DEF Writing
  <2>3. Len(d_symbols) <= DATA_CARRIERS * MaxSym(MAX_PSDU_SIZE)
    <3>1. CASE d_symbols = <<>>
      <4>1. DATA_CARRIERS * MaxSym(MAX_PSDU_SIZE) \in Nat
        BY MaxSymType, Products
      <4>2. Len(d_symbols) = 0
        BY <3>1
      <4>3. QED
        BY <4>1, <4>2
    <3>2. CASE d_symbols # <<>>
      <4>1. Len(tags) > 0 /\ Len(d_symbols) = tags[Len(tags)].packet_len
        BY <2>1, <3>2 DEF Writing
      <4>2. Len(tags) \in Nat
        BY <2>1 DEF Layout, Laid
      <4>3. Sized(tags[Len(tags)])
        BY <2>1, <4>1, <4>2 DEF Layout
      <4>4. QED
        BY <4>1, <4>3 DEF Sized
    <3>3. QED
      BY <3>1, <3>2
  <2>4. QED
    BY <2>1, <2>2, <2>3 DEF MapperTypes, Writing, TypeOK
<1>2. QED
  BY <1>1, TransmitterAlways, PTL

(* Packets leave whole, in the order of their messages, none twice and none  *)
(* missing but the refused ones, whatever room the calls of the mapper have  *)
(* and whenever the encoding is set (mapper.cc:80-172).                      *)
THEOREM PacketsAreWhole == Spec => []PacketsWhole
<1>1. TInv => PacketsWhole
  <2> SUFFICES ASSUME TInv, NEW p \in 1..Len(mapped)
               PROVE  \E m \in Sent :
                        /\ Cardinality({l \in Sent : l <= m}) = p
                        /\ mapped[p].values =
                             [k \in 1..DATA_CARRIERS * NSym(mapped[p].encoding, messages[m]) |->
                                [of |-> m, k |-> k, encoding |-> mapped[p].encoding]]
    <3>1. TInv => DOMAIN mapped = 1..Len(mapped)
      BY DEF TInv, MappedInv
    <3>2. QED
      BY <3>1 DEF PacketsWhole
  <2>1. mapped[p].encoding = tags[p].encoding
    BY DEF TInv, MappedInv
  <2>2. PICK m \in Sent : /\ SentAs(p, m)
                          /\ tags[p].psdu_len = messages[m]
                          /\ mapped[p].values = Values(tags[p], m)
    BY DEF TInv, MappedInv
  <2>3. p \in 1..Len(tags)
    BY DEF TInv, MappedInv, HasRead, Layout, Laid
  <2>4. tags[p].packet_len = DATA_CARRIERS * NSym(tags[p].encoding, tags[p].psdu_len)
    BY <2>3 DEF TInv, Layout, Sized
  <2>5. tags[p].packet_len = DATA_CARRIERS * NSym(mapped[p].encoding, messages[m])
    BY <2>1, <2>2, <2>4
  <2>6. mapped[p].values =
          [k \in 1..DATA_CARRIERS * NSym(mapped[p].encoding, messages[m]) |->
             [of |-> m, k |-> k, encoding |-> mapped[p].encoding]]
    BY <2>1, <2>2, <2>5, Zenon DEF Values, Value
  <2>7. QED
    BY <2>2, <2>6 DEF SentAs
<1>2. QED
  BY <1>1, TransmitterAlways, PTL

(* The header of a packet announces the encoding and the length its data     *)
(* symbols have (signal_field_impl.cc:107-136).                              *)
THEOREM HeadersFitTheirPackets == Spec => []HeaderFitsPacket
<1>1. TInv => HeaderFitsPacket
  <2> SUFFICES ASSUME TInv, NEW p \in 1..Len(headers), p \in 1..Len(mapped)
               PROVE  /\ \A k \in DOMAIN mapped[p].values :
                           mapped[p].values[k].encoding = headers[p].encoding
                      /\ Len(mapped[p].values) =
                           DATA_CARRIERS * NSym(headers[p].encoding, headers[p].psdu_len)
                      /\ Len(mapped[p].values) <= DATA_CARRIERS * MaxSym(MAX_PSDU_SIZE)
    <3>1. TInv => DOMAIN mapped = 1..Len(mapped) /\ DOMAIN headers = 1..Len(headers)
      BY DEF TInv, MappedInv, HeadersInv
    <3>2. QED
      BY <3>1 DEF HeaderFitsPacket
  <2>1. headers[p].encoding = tags[p].encoding /\ headers[p].psdu_len = tags[p].psdu_len
    BY DEF TInv, HeadersInv
  <2>2. PICK m \in Sent : mapped[p].values = Values(tags[p], m)
    BY DEF TInv, MappedInv
  <2>3. p \in 1..Len(tags) /\ tags[p] \in Tag
    BY DEF TInv, MappedInv, HasRead, Layout, Laid
  <2>4. Sized(tags[p])
    BY <2>3 DEF TInv, Layout
  <2>5. m \in Nat
    BY SentFinite DEF TInv
  <2>6. Len(Values(tags[p], m)) = tags[p].packet_len
    BY <2>3, <2>5, ValuesType
  <2>7. \A k \in DOMAIN Values(tags[p], m) : Values(tags[p], m)[k].encoding = tags[p].encoding
    BY DEF Values, Value
  <2>8. QED
    BY <2>1, <2>2, <2>4, <2>6, <2>7 DEF Sized
<1>2. QED
  BY <1>1, TransmitterAlways, PTL

(* chunks_to_symbols always finds exactly one encoding                       *)
(* (chunks_to_symbols_impl.cc:56).                                          *)
THEOREM OneEncodingPerPacket == Spec => []NeverThrows
<1>1. TInv => NeverThrows
  BY DEF TInv, MappedInv, NeverThrows
<1>2. QED
  BY <1>1, TransmitterAlways, PTL

=============================================================================
