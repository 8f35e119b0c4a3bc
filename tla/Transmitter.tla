----------------------------- MODULE Transmitter -----------------------------
(***************************************************************************)
(* The transmitter between MAC and OFDM: the mapper (src/lib/mapper.cc)      *)
(* turns messages into packets of subcarrier values with tags on the first,  *)
(* the header generator (header_formatter, src/lib/signal_field_impl.cc) and *)
(* chunks_to_symbols (src/lib/chunks_to_symbols_impl.cc) read each packet.   *)
(* Every block has a thread; set_encoding comes from another one at any time *)
(* and excludes the mapper only while that makes a packet of a message.      *)
(*                                                                          *)
(* A subcarrier value is known by the message it comes from, its place in    *)
(* the packet and the encoding it was made with (PhyChain has its bits).     *)
(***************************************************************************)
EXTENDS Ofdm, SequencesExt

CONSTANTS
  Encodings,      (* that set_encoding is called with                       *)
  Sizes,          (* of the PSDUs in the messages                           *)
  MAX_PSDU_SIZE,  (* utils.h:27, 1528                                       *)
  DATA_CARRIERS,  (* values of a symbol, 48                                 *)
  LAST_SEED,      (* of the scrambler, 127                                  *)
  Buffer,         (* items between the mapper and the blocks behind it      *)
  MaxMessages,    (* Bound of the model: messages sent to the mapper.       *)
  MaxChanges      (* Bound of the model: calls of set_encoding.             *)

ASSUME TransmitterAssumption ==
  /\ Encodings \subseteq Encoding /\ Encodings # {}
  /\ Sizes \subseteq Nat
  /\ MAX_PSDU_SIZE \in Nat
  /\ DATA_CARRIERS \in Nat \ {0}
  /\ LAST_SEED \in Nat \ {0}
  /\ Buffer \in Nat /\ Buffer >= DATA_CARRIERS * MaxSym(MAX_PSDU_SIZE)
  /\ MaxMessages \in Nat /\ MaxChanges \in Nat

VARIABLES
  messages,          (* all messages sent to the port "in": the size of the *)
                     (* PSDU, or -1 for one that is not a pair              *)
  taken,             (* how many of them the mapper took                    *)
  d_ofdm, changes,   (* the encoding now; how often it was set              *)
  d_scrambler,
  d_symbols,         (* the packet being written, <<>> for none             *)
  d_symbols_offset,  (* values of it that are written                       *)
  pc, noutput,       (* where the mapper's call is, and its argument        *)
  stream, tags,      (* output of the mapper: values, and tags by position  *)
  headers,           (* what the header generator announced                 *)
  headers_read,      (* values that it has read                             *)
  mapped,            (* packets that chunks_to_symbols mapped               *)
  mapped_read,       (* values that it has read                             *)
  threw,             (* whether it threw                                    *)
  refused            (* history: messages that were too large               *)

mapperVars == <<taken, d_scrambler, d_symbols, d_symbols_offset, pc, noutput,
                stream, tags, refused>>
headerVars == <<headers, headers_read>>
chunksVars == <<mapped, mapped_read, threw>>
transmitterVars == <<messages, d_ofdm, changes, mapperVars, headerVars, chunksVars>>

Init ==
  /\ messages = <<>> /\ taken = 0
  /\ d_ofdm \in Encodings /\ changes = 0
  /\ d_scrambler = 1
  /\ d_symbols = <<>> /\ d_symbols_offset = 0
  /\ pc = "idle" /\ noutput = 0
  /\ stream = <<>> /\ tags = <<>>
  /\ headers = <<>> /\ headers_read = 0
  /\ mapped = <<>> /\ mapped_read = 0 /\ threw = FALSE
  /\ refused = {}

-----------------------------------------------------------------------------
(* The MAC sends a PSDU, or something else comes to the port.               *)
Message ==
  /\ Len(messages) < MaxMessages
  /\ \E size \in Sizes \union {-1} : messages' = Append(messages, size)
  /\ UNCHANGED <<d_ofdm, changes, mapperVars, headerVars, chunksVars>>

set_encoding ==
  /\ changes < MaxChanges
  /\ d_ofdm' \in Encodings \ {d_ofdm}
  /\ changes' = changes + 1
  /\ UNCHANGED <<messages, mapperVars, headerVars, chunksVars>>

-----------------------------------------------------------------------------
(* A value stays in the buffer until both blocks behind it have read it.     *)
Space ==
  LET read == IF headers_read < mapped_read THEN headers_read ELSE mapped_read
  IN Buffer - (Len(stream) - read)

(* general_work is called with room for some values.                        *)
Call ==
  /\ pc = "idle"
  /\ noutput' \in 1..Space
  /\ pc' = IF d_symbols_offset = 0 THEN "take" ELSE "copy"
  /\ UNCHANGED <<messages, d_ofdm, changes, taken, d_scrambler, d_symbols,
                 d_symbols_offset, stream, tags, refused, headerVars, chunksVars>>

(* Without a message the call returns; what is no pair is skipped.          *)
NoMessage ==
  /\ pc = "take"
  /\ taken = Len(messages)
  /\ pc' = "idle" /\ noutput' = 0
  /\ UNCHANGED <<messages, d_ofdm, changes, taken, d_scrambler, d_symbols,
                 d_symbols_offset, stream, tags, refused, headerVars, chunksVars>>

Skip ==
  /\ pc = "take"
  /\ taken < Len(messages) /\ messages[taken + 1] = -1
  /\ taken' = taken + 1
  /\ UNCHANGED <<messages, d_ofdm, changes, d_scrambler, d_symbols, d_symbols_offset,
                 pc, noutput, stream, tags, refused, headerVars, chunksVars>>

TooLarge(psdu_length) == NSym(d_ofdm, psdu_length) > MaxSym(MAX_PSDU_SIZE)

Pending == pc = "take" /\ taken < Len(messages) /\ messages[taken + 1] # -1

(* A packet that has too many symbols ends the call and is gone.            *)
Refuse ==
  /\ Pending
  /\ TooLarge(messages[taken + 1])
  /\ taken' = taken + 1
  /\ refused' = refused \union {taken + 1}
  /\ pc' = "idle" /\ noutput' = 0
  /\ UNCHANGED <<messages, d_ofdm, changes, d_scrambler, d_symbols, d_symbols_offset,
                 stream, tags, headerVars, chunksVars>>

(* A bug: the lock is released before the encoding goes into its tag. *)
Convert_TagUnlocked ==
  /\ Pending
  /\ ~TooLarge(messages[taken + 1])
  /\ LET psdu_length == messages[taken + 1]
         d_symbols_len == DATA_CARRIERS * NSym(d_ofdm, psdu_length)
     IN /\ d_symbols' = [k \in 1..d_symbols_len |->
                           [of |-> taken + 1, k |-> k, encoding |-> d_ofdm]]
        /\ \E later \in Encodings :
             tags' = Append(tags, [offset |-> Len(stream), packet_len |-> d_symbols_len,
                                   psdu_len |-> psdu_length, encoding |-> later])
  /\ taken' = taken + 1
  /\ d_scrambler' = IF d_scrambler = LAST_SEED THEN 1 ELSE d_scrambler + 1
  /\ pc' = "copy"
  /\ UNCHANGED <<messages, d_ofdm, changes, d_symbols_offset, noutput, stream,
                 refused, headerVars, chunksVars>>

(* The values of the packet and its tags are made with one encoding, under  *)
(* the lock.                                                                *)
Convert ==
  /\ Pending
  /\ ~TooLarge(messages[taken + 1])
  /\ LET psdu_length == messages[taken + 1]
         d_symbols_len == DATA_CARRIERS * NSym(d_ofdm, psdu_length)
     IN /\ d_symbols' = [k \in 1..d_symbols_len |->
                           [of |-> taken + 1, k |-> k, encoding |-> d_ofdm]]
        /\ tags' = Append(tags, [offset |-> Len(stream), packet_len |-> d_symbols_len,
                                 psdu_len |-> psdu_length, encoding |-> d_ofdm])
  /\ taken' = taken + 1
  /\ d_scrambler' = IF d_scrambler = LAST_SEED THEN 1 ELSE d_scrambler + 1
  /\ pc' = "copy"
  /\ UNCHANGED <<messages, d_ofdm, changes, d_symbols_offset, noutput, stream,
                 refused, headerVars, chunksVars>>

(* A bug: d_symbols_offset stays at the end of the packet. *)
Copy_OffsetKept ==
  /\ pc = "copy"
  /\ LET rest == Len(d_symbols) - d_symbols_offset
         n == IF noutput < rest THEN noutput ELSE rest
     IN /\ stream' = stream \o SubSeq(d_symbols, d_symbols_offset + 1, d_symbols_offset + n)
        /\ d_symbols_offset' = d_symbols_offset + n
        /\ d_symbols' = d_symbols
  /\ pc' = "idle" /\ noutput' = 0
  /\ UNCHANGED <<messages, d_ofdm, changes, taken, d_scrambler, tags, refused,
                 headerVars, chunksVars>>

(* A bug: every call copies from the start of the packet. *)
Copy_FromStart ==
  /\ pc = "copy"
  /\ LET rest == Len(d_symbols) - d_symbols_offset
         n == IF noutput < rest THEN noutput ELSE rest
     IN /\ stream' = stream \o SubSeq(d_symbols, 1, n)
        /\ d_symbols_offset' = IF n = rest THEN 0 ELSE d_symbols_offset + n
        /\ d_symbols' = IF n = rest THEN <<>> ELSE d_symbols
  /\ pc' = "idle" /\ noutput' = 0
  /\ UNCHANGED <<messages, d_ofdm, changes, taken, d_scrambler, tags, refused,
                 headerVars, chunksVars>>

(* As much of the packet as there is room for is written.                   *)
Copy ==
  /\ pc = "copy"
  /\ LET rest == Len(d_symbols) - d_symbols_offset
         n == IF noutput < rest THEN noutput ELSE rest
     IN /\ stream' = stream \o SubSeq(d_symbols, d_symbols_offset + 1, d_symbols_offset + n)
        /\ d_symbols_offset' = IF n = rest THEN 0 ELSE d_symbols_offset + n
        /\ d_symbols' = IF n = rest THEN <<>> ELSE d_symbols
  /\ pc' = "idle" /\ noutput' = 0
  /\ UNCHANGED <<messages, d_ofdm, changes, taken, d_scrambler, tags, refused,
                 headerVars, chunksVars>>

general_work == Call \/ NoMessage \/ Skip \/ Refuse \/ Convert \/ Copy

-----------------------------------------------------------------------------
(* A block on a tagged stream gets the whole packet that the tag at its read *)
(* position announces, once it is there.                                    *)
Announced(at) == {j \in DOMAIN tags : tags[j].offset = at}
IsWhole(at) == \E j \in Announced(at) : at + tags[j].packet_len <= Len(stream)
PacketLen(at) == tags[CHOOSE j \in Announced(at) : TRUE].packet_len

(* A bug: the range ends one item too late. *)
TagsOf_OneMore(at) == {j \in DOMAIN tags : tags[j].offset \in at..at + PacketLen(at)}

(* The tags on its values.                                                  *)
TagsOf(at) == {j \in DOMAIN tags : tags[j].offset \in at..at + PacketLen(at) - 1}

(* The SIGNAL symbol is made of the last tags on the packet.                *)
header_formatter ==
  LET at == headers_read IN
  /\ IsWhole(at)
  /\ LET t == tags[CHOOSE j \in TagsOf(at) : \A l \in TagsOf(at) : l <= j]
     IN headers' = Append(headers, [encoding |-> t.encoding, psdu_len |-> t.psdu_len])
  /\ headers_read' = at + PacketLen(at)
  /\ UNCHANGED <<messages, d_ofdm, changes, mapperVars, chunksVars>>

(* chunks_to_symbols throws unless there is exactly one encoding.           *)
chunks_to_symbols ==
  LET at == mapped_read IN
  /\ ~threw
  /\ IsWhole(at)
  /\ IF Cardinality(TagsOf(at)) = 1
     THEN /\ mapped' = Append(mapped,
               [values |-> SubSeq(stream, at + 1, at + PacketLen(at)),
                encoding |-> tags[CHOOSE j \in TagsOf(at) : TRUE].encoding])
          /\ mapped_read' = at + PacketLen(at)
          /\ UNCHANGED threw
     ELSE threw' = TRUE /\ UNCHANGED <<mapped, mapped_read>>
  /\ UNCHANGED <<messages, d_ofdm, changes, mapperVars, headerVars>>

Next ==
  \/ Message \/ set_encoding
  \/ general_work
  \/ header_formatter \/ chunks_to_symbols

Spec == Init /\ [][Next]_transmitterVars

(* The scheduler runs each of the three blocks as long as it can.           *)
FairSpec ==
  /\ Spec
  /\ WF_transmitterVars(general_work)
  /\ WF_transmitterVars(header_formatter)
  /\ WF_transmitterVars(chunks_to_symbols)

-----------------------------------------------------------------------------
(* Type invariant.                                                          *)
TypeOK ==
  /\ taken \in 0..Len(messages)
  /\ d_ofdm \in Encodings
  /\ d_scrambler \in 1..LAST_SEED
  /\ Len(d_symbols) <= DATA_CARRIERS * MaxSym(MAX_PSDU_SIZE)
  /\ d_symbols_offset \in 0..Len(d_symbols)
  /\ pc \in {"idle", "take", "copy"}
  /\ noutput \in 0..Buffer
  /\ refused \subseteq 1..taken

(* The messages of which the mapper made a packet.                          *)
Sent == {m \in 1..taken : messages[m] # -1 /\ m \notin refused}

(* Packets leave chunks_to_symbols whole, in the order of their messages,    *)
(* none twice and none missing but the ones refused: the p-th is made of the *)
(* p-th message sent.  Each is mapped with the constellation its bits were   *)
(* grouped for, however little room a call has (mapper.cc:150-158) and       *)
(* whenever the encoding is set (166-172).                                  *)
PacketsWhole ==
  \A p \in DOMAIN mapped :
    LET e == mapped[p].encoding IN
    \E m \in Sent :
      /\ Cardinality({l \in Sent : l <= m}) = p
      /\ mapped[p].values = [k \in 1..DATA_CARRIERS * NSym(e, messages[m]) |->
                               [of |-> m, k |-> k, encoding |-> e]]

(* The SIGNAL symbol and the data symbols it is put in front of agree: the   *)
(* header of the p-th packet announces the encoding its values were made     *)
(* with and as many symbols as it has (signal_field_impl.cc:107-136), though *)
(* two blocks read the tags, each in its own time; and no packet has more    *)
(* symbols than the arrays of the receiver hold (mapper.cc:85).              *)
HeaderFitsPacket ==
  \A p \in DOMAIN headers \intersect DOMAIN mapped :
    /\ \A k \in DOMAIN mapped[p].values :
         mapped[p].values[k].encoding = headers[p].encoding
    /\ Len(mapped[p].values) =
         DATA_CARRIERS * NSym(headers[p].encoding, headers[p].psdu_len)
    /\ Len(mapped[p].values) <= DATA_CARRIERS * MaxSym(MAX_PSDU_SIZE)

(* chunks_to_symbols finds one encoding on every packet, and never throws    *)
(* "no encoding in input stream" (chunks_to_symbols_impl.cc:56): tags are    *)
(* added where the packet will begin, though it is written later.            *)
NeverThrows == ~threw

(* Every message that is a pair leaves as a packet or is refused; none waits *)
(* for ever behind a packet in several calls or in the full buffer.          *)
EveryMessageHandled ==
  <>[](taken = Len(messages) /\ d_symbols = <<>>
       /\ Len(mapped) = Len(tags) /\ Len(headers) = Len(tags))
=============================================================================
