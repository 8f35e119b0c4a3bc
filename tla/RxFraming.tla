------------------------------ MODULE RxFraming ------------------------------
(***************************************************************************)
(* The receiver behind sync_long: the frame equalizer writes data symbols    *)
(* and header tags, decode_mac reads them.  The two run in threads of their  *)
(* own and share the buffer between them; set_algorithm comes from the       *)
(* thread of the user interface.                                             *)
(***************************************************************************)
EXTENDS FrameEqualizer

CONSTANTS MAX_PSDU_SIZE, MaxMacCall, Garbage

ASSUME MacAssumption ==
  /\ MAX_PSDU_SIZE \in Nat
  /\ MaxMacCall \in Nat \ {0}
  /\ Garbage \subseteq Int /\ Garbage # {}

VARIABLES nread, mpc, mninput, mi, copied, d_frame, d_rx_symbols, accepted, decoded

Mac == INSTANCE DecodeMac WITH in <- out, inTags <- outTags, available <- nwritten

macVars == <<nread, mpc, mninput, mi, copied, d_frame, d_rx_symbols, accepted,
             decoded>>

vars == <<eqVars, macVars>>

RxInit == Init /\ Mac!MacInit

EqualizerStep == Next /\ UNCHANGED macVars
MacStep == Mac!MacNext /\ UNCHANGED eqVars

RxNext == EqualizerStep \/ MacStep

RxSpec == RxInit /\ [][RxNext]_vars

-----------------------------------------------------------------------------
(* Type invariant.                                                          *)
RxTypeOK ==
  /\ TypeOK
  /\ nread + mninput <= nwritten /\ mi \in 0..mninput
  /\ DOMAIN d_rx_symbols = 0..Mac!MAX_SYM - 1

(* decode() was run on all symbols of frame f, with its header.             *)
Decoded(d, f) ==
  /\ sent[f].header.ok
  /\ d.header = sent[f].header
  /\ d.symbols = [k \in 1..Symbols(f) |-> [frame |-> f, pos |-> k - 1]]

Fits(f) ==
  /\ sent[f].header.ok
  /\ Symbols(f) <= Mac!MAX_SYM
  /\ sent[f].header.bytes <= MAX_PSDU_SIZE

(* No two tags are on the symbol behind the first s.                        *)
OneTag(s) ==
  \A t, u \in DOMAIN outTags : outTags[t].offset = s /\ outTags[u].offset = s => t = u

(* No frame is lost: a frame whose symbols all arrived and were read, that   *)
(* is not too large and whose first symbol carries no second tag is decoded  *)
(* from exactly its own symbols, whatever came before it: a frame cut short, *)
(* one that was too large, or nothing at all.                                *)
NoFrameLost ==
  \A f \in 1..frame, s \in 0..Len(out) :
    /\ Fits(f)
    /\ IsRun(out, f, s, Symbols(f)) /\ s + Symbols(f) <= nread
    /\ OneTag(s)
    => \E j \in DOMAIN decoded : Decoded(decoded[j], f)

(* A frame is decoded at most once, and frames are decoded in order.        *)
DecodedInOrder ==
  \A j, k \in DOMAIN decoded : \A f, g \in 1..frame :
    j < k /\ Decoded(decoded[j], f) /\ Decoded(decoded[k], g) => f < g

(* From the first accepted header on, every symbol is written inside         *)
(* d_rx_symbols and descramble stays inside out_bytes, however headers, short *)
(* frames and large frames alternate (decode_mac.cc:84-87, 98, 225).         *)
InsideBuffer ==
  accepted =>
    /\ copied \in 0..d_frame.n_sym
    /\ d_frame.n_sym <= Mac!MAX_SYM
    /\ d_frame.header.bytes <= MAX_PSDU_SIZE

-----------------------------------------------------------------------------
(* What comments and messages of the code say, and the code does not do.    *)

(* decode_mac.cc:88, "frame start -- len": the header that is taken at the   *)
(* first data symbol of a frame is the header of that frame.                 *)
FrameStartHasItsHeader ==
  [][accepted' /\ d_frame' # d_frame =>
       sent[out[nread + mi + 1].frame].header = d_frame'.header]_vars

=============================================================================
