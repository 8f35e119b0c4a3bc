------------------------------ MODULE DecodeMac ------------------------------
(***************************************************************************)
(* decode_mac (src/lib/decode_mac.cc): collects the data symbols of a frame  *)
(* behind the header that came as a wifi_start tag, and decodes them once    *)
(* n_sym of them are there.  The symbols and the tags are those that the     *)
(* frame equalizer wrote; a symbol is known by its frame and its position    *)
(* in it.  What decode() makes of its buffer is not computed: `decoded'      *)
(* lists, for every run of decode(), the header and the symbols it works on. *)
(***************************************************************************)
EXTENDS Ofdm, Sequences

CONSTANTS
  MAX_PSDU_SIZE,  (* utils.h:27, 1528                                       *)
  MaxMacCall,     (* Bound of the model: items of one call.                 *)
  Garbage         (* Values an uninitialised int may have.                  *)

VARIABLES
  (* Read only; the composition says how they change.                       *)
  in, inTags,     (* written by the frame equalizer                         *)
  available,      (* how many of its symbols the scheduler has passed on    *)
  (* The state of the block.                                                *)
  nread,          (* nitems_read(0)                                         *)
  mpc, mninput, mi,  (* the running call                                    *)
  copied,         (* symbols in d_rx_symbols                                *)
  d_frame,        (* n_sym and header of the frame being received           *)
  d_rx_symbols,   (* the buffer of MAX_SYM symbols                          *)
  accepted,       (* history: a header was accepted                         *)
  decoded         (* history: what decode() was run on                      *)

macVars == <<nread, mpc, mninput, mi, copied, d_frame, d_rx_symbols, accepted,
             decoded>>

MAX_SYM == MaxSym(MAX_PSDU_SIZE)

NoHeader == [ok |-> FALSE, encoding |-> 0, bytes |-> 0]
NoSymbol == [frame |-> 0, pos |-> 0]

(* The constructor leaves copied alone, and builds d_frame from d_ofdm       *)
(* before d_ofdm is (decode_mac.cc:41, 42, 256, 257).                        *)
MacInit ==
  /\ nread = 0
  /\ mpc = "idle" /\ mninput = 0 /\ mi = 0
  /\ copied \in Garbage
  /\ \E n \in Garbage : d_frame = [n_sym |-> n, header |-> NoHeader]
  /\ d_rx_symbols = [k \in 0..MAX_SYM - 1 |-> NoSymbol]
  /\ accepted = FALSE
  /\ decoded = <<>>

-----------------------------------------------------------------------------
MacCall ==
  /\ mpc = "idle"
  /\ mninput' \in 1..MaxMacCall
  /\ nread + mninput' <= available
  /\ mpc' = "loop"
  /\ UNCHANGED <<nread, mi, copied, d_frame, d_rx_symbols, accepted, decoded>>

MacLooping == mpc = "loop" /\ mi < mninput

(* The tags on the symbol looked at, oldest first: get_tags_in_range keeps  *)
(* the order in which tags of one offset were added, and only tags[0] is    *)
(* used.                                                                    *)
TagsHere == {t \in DOMAIN inTags : inTags[t].offset = nread + mi}
Header == inTags[CHOOSE t \in TagsHere : \A u \in TagsHere : t <= u].header

(* A bug: the size is not checked. *)
Accepts_AnySize == TagsHere # {}

(* A header starts a frame unless it is too large.                          *)
Accepts ==
  /\ TagsHere # {}
  /\ NSym(Header.encoding, Header.bytes) <= MAX_SYM
  /\ Header.bytes <= MAX_PSDU_SIZE

(* A bug: a new header does not reset copied. *)
count_Kept == copied

(* copied and d_frame behind the check for a header.                        *)
count   == IF Accepts THEN 0 ELSE copied
current == IF Accepts
           THEN [n_sym |-> NSym(Header.encoding, Header.bytes), header |-> Header]
           ELSE d_frame

(* One symbol goes into the buffer, or is ignored when the frame is full.   *)
Collect(wanted) ==
  /\ MacLooping
  /\ wanted = (count < current.n_sym)
  /\ d_frame' = current
  /\ accepted' = (accepted \/ Accepts)
  /\ mi' = mi + 1
  /\ UNCHANGED <<nread, mninput>>

Ignore ==
  /\ Collect(FALSE)
  /\ copied' = count
  /\ UNCHANGED <<mpc, d_rx_symbols, decoded>>

Stored ==
  LET s == in[nread + mi + 1]
  IN IF count \in DOMAIN d_rx_symbols
     THEN [d_rx_symbols EXCEPT ![count] = [frame |-> s.frame, pos |-> s.pos]]
     ELSE d_rx_symbols

CopySymbol ==
  /\ Collect(TRUE)
  /\ count + 1 < current.n_sym
  /\ d_rx_symbols' = Stored
  /\ copied' = count + 1
  /\ UNCHANGED <<mpc, decoded>>

Decode ==
  decoded' = Append(decoded, [header |-> current.header,
                              symbols |-> [k \in 1..current.n_sym |->
                                 IF k \in 1..MAX_SYM THEN Stored[k - 1] ELSE NoSymbol]])

(* A bug: the call ends without counting the last symbol. *)
CopyLast_NotConsumed ==
  /\ MacLooping
  /\ count + 1 = current.n_sym
  /\ d_frame' = current
  /\ accepted' = (accepted \/ Accepts)
  /\ d_rx_symbols' = Stored
  /\ copied' = count + 1
  /\ Decode
  /\ mpc' = "done"
  /\ UNCHANGED <<nread, mninput, mi>>

(* The last symbol: decode() runs and the call ends.                        *)
CopyLast ==
  /\ Collect(TRUE)
  /\ count + 1 = current.n_sym
  /\ d_rx_symbols' = Stored
  /\ copied' = count + 1
  /\ Decode
  /\ mpc' = "done"

MacReturn ==
  /\ mpc # "idle"
  /\ ~MacLooping
  /\ nread' = nread + mi
  /\ mpc' = "idle" /\ mninput' = 0 /\ mi' = 0
  /\ UNCHANGED <<copied, d_frame, d_rx_symbols, accepted, decoded>>

MacNext == MacCall \/ Ignore \/ CopySymbol \/ CopyLast \/ MacReturn
=============================================================================
