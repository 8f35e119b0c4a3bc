--------------------------- MODULE MovingAverage ---------------------------
(***************************************************************************)
(* moving_average_cc and moving_average_ff (src/lib/                        *)
(* moving_average_XX_impl.cc.t): the sum of the last d_length items.         *)
(* set_length comes from another thread (wifi_rx.set_window_size) and takes   *)
(* no lock.  It leaves the new length and a flag; the next call of work takes *)
(* the length over, and nothing else, because the input it was given was      *)
(* measured with the old one.                                                *)
(*                                                                          *)
(* The scheduler gives a sync_block noutput + history - 1 items, the first of *)
(* them at the read position, and does not move the read position when the    *)
(* history changes.  Items are numbered from 1, the read position starts at   *)
(* the length - 1 items of silence before them.                              *)
(***************************************************************************)
EXTENDS Integers, Sequences, FiniteSets

CONSTANTS
  Lengths,   (* lengths, all positive                                        *)
  MaxOutput, (* Bound of the model: items of one call.                       *)
  MaxItems,  (* Bound of the model: items of the stream.                     *)
  MaxSets    (* Bound of the model: calls of set_length.                     *)

ASSUME LengthAssumption ==
  /\ Lengths # {} /\ Lengths \subseteq Nat \ {0}
  /\ MaxOutput \in Nat \ {0}
  /\ MaxItems \in Nat
  /\ MaxSets \in Nat

VARIABLES
  d_length, d_new_length, d_updated,
  history,   (* what set_history declared to the scheduler                   *)
  written,   (* items upstream has produced                                  *)
  read,      (* read position: the first item of the next call               *)
  pc,        (* where work is                                                *)
  noutput,   (* noutput_items of the call                                    *)
  supplied,  (* items the call may read                                      *)
  out,       (* for each output the items summed in it                       *)
  setter,    (* the stores of the running set_length still to come           *)
  length,    (* its argument                                                 *)
  sets,      (* calls of set_length so far                                   *)
  raced      (* history: a store of set_length met work taking a length over *)

streamVars == <<written, read, noutput, supplied, out>>
setVars    == <<setter, length, sets>>
avgVars    == <<d_length, d_new_length, d_updated, history, streamVars, pc, setVars, raced>>

Init ==
  /\ d_length \in Lengths
  /\ d_new_length = d_length
  /\ d_updated = FALSE
  /\ history = d_length
  /\ written = 0
  /\ read = 2 - d_length
  /\ pc = "idle"
  /\ noutput = 0 /\ supplied = 0
  /\ out = <<>>
  /\ setter = {} /\ length = d_length /\ sets = 0
  /\ raced = FALSE

-----------------------------------------------------------------------------
(* Another item arrives.                                                    *)
Upstream ==
  /\ written < MaxItems
  /\ written' = written + 1
  /\ UNCHANGED <<d_length, d_new_length, d_updated, history, read, pc, noutput,
                 supplied, out, setVars, raced>>

(* A caller enters set_length.                                              *)
set_length ==
  /\ setter = {} /\ sets < MaxSets
  /\ length' \in Lengths
  /\ setter' = {"d_new_length", "d_updated"}
  /\ sets' = sets + 1
  /\ UNCHANGED <<d_length, d_new_length, d_updated, history, streamVars, pc, raced>>

Taking == pc \in {"take", "history", "clear"}

(* Its two stores: nothing orders them for another thread.                  *)
Store ==
  \E field \in setter :
    /\ setter' = setter \ {field}
    /\ d_new_length' = IF field = "d_new_length" THEN length ELSE d_new_length
    /\ d_updated' = (field = "d_updated" \/ d_updated)
    /\ raced' = (raced \/ Taking)
    /\ UNCHANGED <<d_length, history, streamVars, pc, length, sets>>

-----------------------------------------------------------------------------
(* The scheduler calls work with as many outputs as the input allows.       *)
Call ==
  /\ pc = "idle"
  /\ noutput' \in 1..MaxOutput
  /\ supplied' = written - read + 1
  /\ supplied' >= noutput' + history - 1
  /\ pc' = IF d_updated THEN "take" ELSE "sum"
  /\ raced' = (raced \/ (d_updated /\ setter # {}))
  /\ UNCHANGED <<d_length, d_new_length, d_updated, history, written, read, out, setVars>>

(* A bug: only a longer length is taken over, as if the history could not shrink. *)
Take_Longer ==
  /\ pc = "take"
  /\ d_length' = IF d_new_length > d_length THEN d_new_length ELSE d_length
  /\ pc' = "history"
  /\ UNCHANGED <<d_new_length, d_updated, history, streamVars, setVars, raced>>

Take ==
  /\ pc = "take"
  /\ d_length' = d_new_length
  /\ pc' = "history"
  /\ UNCHANGED <<d_new_length, d_updated, history, streamVars, setVars, raced>>

SetHistory ==
  /\ pc = "history"
  /\ history' = d_length
  /\ pc' = "clear"
  /\ UNCHANGED <<d_length, d_new_length, d_updated, streamVars, setVars, raced>>

(* A bug: work goes on with the items it was given for the old length. *)
Clear_GoOn ==
  /\ pc = "clear"
  /\ d_updated' = FALSE
  /\ pc' = "sum"
  /\ UNCHANGED <<d_length, d_new_length, history, streamVars, setVars, raced>>

(* A bug: the flag is not cleared. *)
Clear_Kept ==
  /\ pc = "clear"
  /\ d_updated' = d_updated
  /\ pc' = "idle"
  /\ UNCHANGED <<d_length, d_new_length, history, streamVars, setVars, raced>>

(* The flag is cleared and work returns 0: no item is read or written.      *)
Clear ==
  /\ pc = "clear"
  /\ d_updated' = FALSE
  /\ pc' = "idle"
  /\ UNCHANGED <<d_length, d_new_length, history, streamVars, setVars, raced>>

(* A bug: the item that leaves the window is not subtracted. *)
Sums_Growing ==
  LET before[i \in 1..noutput] ==
        IF i = 1 THEN 1..(d_length - 1) ELSE before[i - 1] \union {i + d_length - 2}
  IN [i \in 1..noutput |-> before[i] \union {i + d_length - 1}]

(* The running sum as the set of the input items in it, in[0] counted as 1:  *)
(* before[i] is what the loop has before it adds the newest item of output i, *)
(* and the oldest one is subtracted after the output.                       *)
Sums ==
  LET before[i \in 1..noutput] ==
        IF i = 1 THEN 1..(d_length - 1)
        ELSE (before[i - 1] \union {i + d_length - 2}) \ {i - 1}
  IN [i \in 1..noutput |-> before[i] \union {i + d_length - 1}]

Sum ==
  /\ pc = "sum"
  /\ out' = out \o [i \in 1..noutput |->
                      [items |-> {read - 1 + k : k \in Sums[i]}, length |-> d_length]]
  /\ read' = read + noutput
  /\ pc' = "idle"
  /\ noutput' = 0 /\ supplied' = 0
  /\ UNCHANGED <<d_length, d_new_length, d_updated, history, written, setVars, raced>>

Work == Call \/ Take \/ SetHistory \/ Clear \/ Sum

Next == Upstream \/ set_length \/ Store \/ Work

(* The scheduler calls work while there is input for it, and a caller that   *)
(* has entered set_length leaves it.                                        *)
FairSpec == Init /\ [][Next]_avgVars /\ WF_avgVars(Work) /\ WF_avgVars(Store)

Spec == Init /\ [][Next]_avgVars

-----------------------------------------------------------------------------
(* Type invariant.                                                          *)
TypeOK ==
  /\ d_length \in Lengths /\ d_new_length \in Lengths
  /\ history \in Lengths /\ length \in Lengths
  /\ d_updated \in BOOLEAN /\ raced \in BOOLEAN
  /\ written \in 0..MaxItems /\ read \in Int
  /\ pc \in {"idle", "take", "history", "clear", "sum"}
  /\ noutput \in 0..MaxOutput /\ supplied \in Int
  /\ setter \subseteq {"d_new_length", "d_updated"} /\ sets \in 0..MaxSets

(* The sums read only items the call was given, although the length may have *)
(* grown after the scheduler measured them (return 0, line 59).             *)
ReadsSupplied == pc = "sum" => noutput + d_length - 1 <= supplied

(* Across all changes of the length each output is the sum of d_length        *)
(* consecutive items, and starts one item behind the output before it.      *)
WindowsSlide ==
  \A k \in DOMAIN out :
    LET first == read - Len(out) + k - 1
    IN out[k].items = first..(first + out[k].length - 1)

(* A new length is only lost when a store of set_length falls between the two *)
(* ends of work taking one over, or the reverse: otherwise, with no call under*)
(* way and the flag down, the length in use is the one set last.            *)
LostOnlyInRace ==
  setter = {} /\ ~Taking /\ ~d_updated /\ ~raced => d_length = length

Enough == written - read + 1 >= history

(* While there is input for a call a length set does not wait forever.      *)
TakenOver == ~<>[](d_updated /\ Enough)

=============================================================================
