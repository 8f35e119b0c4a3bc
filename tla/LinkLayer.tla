------------------------------ MODULE LinkLayer ------------------------------
(***************************************************************************)
(* The link layer on both ends of a lossy channel.  A station numbers its    *)
(* frames (generate_mac_data_frame, src/lib/mac.cc); stations that are not   *)
(* this program may send other types and repeat a frame.  What decode_mac    *)
(* publishes goes to two blocks, each with a message queue of its own:       *)
(* parse_mac (src/lib/parse_mac.cc) estimates the loss from the sequence     *)
(* numbers, ether_encap (src/lib/ether_encap_impl.cc) passes payloads to the *)
(* TAP device and drops what it has seen already.                            *)
(*                                                                          *)
(* A frame is known by its station and by how many that station had numbered *)
(* before; of its content the model keeps type and length.                   *)
(***************************************************************************)
EXTENDS Integers, SequencesExt

CONSTANTS
  Stations,
  Types,      (* subset of "data", "qos", "null" (data without payload),     *)
              (* "management", "control"                                    *)
  Lengths,    (* of a frame without its checksum, in bytes                  *)
  SeqNumbers, (* sequence numbers before they wrap, 4096                    *)
  MayRetry,   (* Whether stations repeat a frame.                           *)
  MaxNumbered,(* Bound of the model: frames numbered by a station.          *)
  MaxHeard    (* Bound of the model: frames received.                       *)

ASSUME LinkAssumption ==
  /\ Types \subseteq {"data", "qos", "null", "management", "control"}
  /\ Lengths \subseteq Nat
  /\ SeqNumbers \in Nat \ {0}
  /\ MayRetry \in BOOLEAN
  /\ MaxNumbered \in Nat
  /\ MaxHeard \in Nat

VARIABLES
  d_seq_nr,       (* per station: frames numbered so far                    *)
  last,           (* per station: the last of them                          *)
  heard,          (* frames received, in order                              *)
  parsed,         (* how many of them parse_mac has handled                 *)
  d_last_seq_no,  (* its last sequence number                               *)
  d_total_packets,
  lost,           (* history: the sum of the lost_frames it computed        *)
  handled,        (* how many of them ether_encap has handled               *)
  d_last_seq,     (* its last sequence control field                        *)
  tap,            (* frames whose payload went to the TAP device            *)
  skipped         (* history: frames skipped as already seen                *)

senderVars == <<d_seq_nr, last, heard>>
parserVars == <<parsed, d_last_seq_no, d_total_packets, lost>>
encapVars  == <<handled, d_last_seq, tap, skipped>>
linkVars   == <<senderVars, parserVars, encapVars>>

(* The sequence control field: 12 bits of the number above 4 bits that are  *)
(* zero; the counter itself wraps later, at a multiple of 2^12.             *)
seq_nr(f) == 16 * (f.number % SeqNumbers)

NoFrame == [from |-> "nobody", number |-> -1, type |-> "null", length |-> 0]

Init ==
  /\ d_seq_nr = [s \in Stations |-> 0]
  /\ last = [s \in Stations |-> NoFrame]
  /\ heard = <<>>
  /\ parsed = 0 /\ d_last_seq_no = -1 /\ d_total_packets = 0 /\ lost = 0
  /\ handled = 0 /\ d_last_seq = 123 /\ tap = <<>> /\ skipped = {}

-----------------------------------------------------------------------------
(* A frame is received, or it is lost.                                      *)
OnAir(f) ==
  \/ Len(heard) < MaxHeard /\ heard' = Append(heard, f)
  \/ heard' = heard

(* app_in numbers the frame it makes; this program sends data frames only.  *)
app_in(s, type, length) ==
  /\ d_seq_nr[s] < MaxNumbered
  /\ LET f == [from |-> s, number |-> d_seq_nr[s], type |-> type, length |-> length]
     IN last' = [last EXCEPT ![s] = f] /\ OnAir(f)
  /\ d_seq_nr' = [d_seq_nr EXCEPT ![s] = @ + 1]
  /\ UNCHANGED <<parserVars, encapVars>>

(* A station of another make repeats the frame it sent last.                *)
Retry(s) ==
  /\ MayRetry
  /\ last[s] # NoFrame
  /\ OnAir(last[s])
  /\ UNCHANGED <<d_seq_nr, last, parserVars, encapVars>>

-----------------------------------------------------------------------------
(* parse hands a frame of type data to parse_data, which reads the number if *)
(* the header is whole.                                                     *)
IsData(f) == f.length >= 20 /\ f.type \in {"data", "qos", "null"}
IsParsed(f) == IsData(f) /\ f.length >= 24

(* from_wifi passes the payload of these on.                                *)
HasPayload(f) ==
  \/ f.type = "data" /\ f.length >= 33
  \/ f.type = "qos" /\ f.length >= 34

(* The header of a QoS frame is longer than the length that is asked for: of *)
(* one of 33 bytes -1 bytes are copied, which the program does not survive.  *)
Aborts(f) == f.type = "qos" /\ f.length = 33

(* A bug: the number of the frame before it is one of the lost. *)
lost_frames_OffByOne(seq_no) ==
  LET between == seq_no - d_last_seq_no
  IN IF between < 0 THEN between + SeqNumbers ELSE between

(* lost_frames: sequence numbers between this frame and the last one.       *)
lost_frames(seq_no) ==
  LET between == seq_no - d_last_seq_no - 1
  IN IF between < 0 THEN between + SeqNumbers ELSE between

(* parse, and parse_data for a data frame with a whole header.              *)
parse ==
  /\ parsed < Len(heard)
  /\ LET f == heard[parsed + 1]
         seq_no == seq_nr(f) \div 16
     IN IF IsParsed(f)
        THEN /\ lost' = lost + lost_frames(seq_no)
             /\ d_last_seq_no' = seq_no
             /\ d_total_packets' = d_total_packets + 1
        ELSE UNCHANGED <<lost, d_last_seq_no, d_total_packets>>
  /\ parsed' = parsed + 1
  /\ UNCHANGED <<senderVars, encapVars>>

(* A bug: the last number is not remembered. *)
from_wifi_Forgetful ==
  /\ handled < Len(heard)
  /\ LET f == heard[handled + 1]
     IN ~Aborts(f) /\ tap' = IF HasPayload(f) THEN Append(tap, f) ELSE tap
  /\ handled' = handled + 1
  /\ UNCHANGED <<d_last_seq, skipped, senderVars, parserVars>>

(* from_wifi looks at the number first, then at length and type.            *)
from_wifi ==
  /\ handled < Len(heard)
  /\ LET f == heard[handled + 1]
     IN IF d_last_seq = seq_nr(f)
        THEN /\ skipped' = skipped \union {handled + 1}
             /\ UNCHANGED <<d_last_seq, tap>>
        ELSE /\ d_last_seq' = seq_nr(f)
             /\ ~Aborts(f)
             /\ tap' = IF HasPayload(f) THEN Append(tap, f) ELSE tap
             /\ UNCHANGED skipped
  /\ handled' = handled + 1
  /\ UNCHANGED <<senderVars, parserVars>>

Send == \E s \in Stations, type \in Types, length \in Lengths : app_in(s, type, length)

Next ==
  \/ Send
  \/ \E s \in Stations : Retry(s)
  \/ parse
  \/ from_wifi

Spec == Init /\ [][Next]_linkVars

-----------------------------------------------------------------------------
(* Only one station was received, and fewer frames of it than there are      *)
(* sequence numbers were lost in a row.                                      *)
OneStation == \A j, k \in DOMAIN heard : heard[j].from = heard[k].from

ShortLosses ==
  \A k \in 2..Len(heard) : heard[k].number < heard[k - 1].number + SeqNumbers

(* The frames parse_mac has counted, and that each of them is one of the      *)
(* next frames after the counted one before it.                              *)
Counted == {k \in 1..parsed : IsParsed(heard[k])}

NoneBetween(j, k) == j < k /\ \A c \in Counted : c <= j \/ c >= k

Fresh ==
  \A k \in Counted :
    /\ (\A c \in Counted : k <= c) => heard[k].number < SeqNumbers
    /\ \A j \in Counted :
         NoneBetween(j, k) => heard[k].number - heard[j].number \in 1..SeqNumbers

(* Type invariant.                                                          *)
TypeOK ==
  /\ \A s \in Stations : d_seq_nr[s] \in 0..MaxNumbered /\ last[s].number = d_seq_nr[s] - 1
  /\ Len(heard) <= MaxHeard
  /\ parsed \in 0..Len(heard) /\ handled \in 0..Len(heard)
  /\ d_last_seq_no \in -1..SeqNumbers - 1
  /\ d_total_packets \in 0..parsed
  /\ lost \in 0..d_total_packets * (SeqNumbers - 1)
  /\ d_last_seq \in {123} \union {16 * n : n \in 0..SeqNumbers - 1}
  /\ skipped \subseteq 1..handled

(* With one station on the channel the TAP device gets every payload that    *)
(* was received, exactly once and in order, however often frames are lost    *)
(* and repeated, over every wrap of the numbers, and whatever frames without *)
(* a payload lie between (ether_encap_impl.cc:50-60).                        *)
TapOnceInOrder ==
  OneStation /\ ShortLosses =>
    /\ Range(tap) = {heard[k] : k \in {j \in 1..handled : HasPayload(heard[j])}}
    /\ \A j, k \in DOMAIN tap : j < k => tap[j].number < tap[k].number

(* parse_mac counts exactly the frames between the data frames it saw, over  *)
(* every wrap of the numbers, as long as they come from one station, none    *)
(* is repeated and not all numbers lie between two of them (parse_mac.cc:262, *)
(* 271), however ether_encap and parse_mac run.                              *)
LossesCounted ==
  /\ d_total_packets = Cardinality(Counted)
  /\ OneStation /\ Fresh =>
       \A k \in Counted :
         (\A c \in Counted : c <= k) => lost = heard[k].number + 1 - Cardinality(Counted)

=============================================================================
