----------------------------- MODULE FlowGraph -----------------------------
(***************************************************************************)
(* What the flow graphs of examples/test_code do with the variables,       *)
(* widgets and parameters that FlowGraphTables lists: the constructor, the *)
(* setters, and the calls from one to the other through signals of Qt.     *)
(*                                                                         *)
(* All of this runs in the thread of the user interface: __init__ before   *)
(* its event loop, then one slot after the other.  But setters nest:       *)
(* set_freq shows the new frequency in the combo box, whose signal calls   *)
(* set_freq again before the outer one has given it to any block.          *)
(*                                                                         *)
(* A value is 1, the first option of a widget, 2, another one, or 0, which *)
(* is no option (of a line to edit: a text that is no number).             *)
(***************************************************************************)
EXTENDS FlowGraphTables, Integers, FiniteSets

CONSTANT MaxSets  (* Bound of the model: sets by the user or by a program. *)

ASSUME SetsAssumption == MaxSets \in Nat

VARIABLES
  graph,      (* the flow graph                                            *)
  var,        (* self.freq and so on                                       *)
  widget,     (* what the widgets show                                     *)
  connected,  (* the widgets whose signals are connected                   *)
  given,      (* parameter of a block that is made -> the values of the    *)
              (* variables it was last computed from                       *)
  stack,      (* the calls that are running, each as the steps it has left;*)
              (* the inner one first                                       *)
  raised,     (* an AttributeError was raised                              *)
  sets        (* sets so far                                               *)

vars == <<graph, var, widget, connected, given, stack, raised, sets>>

Variables == DOMAIN graph.widgets
Kind(v)   == graph.widgets[v]

Init ==
  /\ graph \in Graphs
  /\ var = graph.initial
  /\ widget = [v \in Variables |-> 0]
  /\ connected = {}
  /\ given = <<>>
  /\ stack = <<graph.init>>
  /\ raised = FALSE
  /\ sets = 0

-----------------------------------------------------------------------------
(* The calls *)

Assign(v, value) == [op |-> "assign", on |-> v, value |-> value]

(* A bug: the variable is assigned when all is done. *)
Setter_AssignLast(v, value) == graph.setters[v] \o <<Assign(v, value)>>

(* A bug: a block is told the value before the widget shows it. *)
Setter_ShowLate(v, value) ==
  LET steps == graph.setters[v]
      later == [i \in DOMAIN steps |-> steps[CASE i = 1 -> 2 [] i = 2 -> 1 [] OTHER -> i]]
  IN <<Assign(v, value)>> \o (IF Len(steps) < 2 THEN steps ELSE later)

Setter(v, value) == <<Assign(v, value)>> \o graph.setters[v]

Running(op) == stack # <<>> /\ stack[1] # <<>> /\ stack[1][1].op = op

On    == stack[1][1].on
Rest  == [stack EXCEPT ![1] = Tail(@)]

(* A slot of Qt whose exception is printed, or a call of a program: its    *)
(* caller goes on.                                                         *)
Raise == stack' = Tail(stack)

DoAssign ==
  /\ Running("assign")
  /\ var' = [var EXCEPT ![On] = stack[1][1].value]
  /\ stack' = Rest
  /\ UNCHANGED <<graph, widget, connected, given, raised, sets>>

(* A combo box starts with its first option, buttons with none pressed.    *)
DoCreate ==
  /\ Running("create")
  /\ widget' = [widget EXCEPT ![On] =
                  CASE Kind(On) = "combo" -> 1
                    [] Kind(On) = "buttons" -> 0
                    [] OTHER -> var[On]]
  /\ stack' = Rest
  /\ UNCHANGED <<graph, var, connected, given, raised, sets>>

DoConnect ==
  /\ Running("connect")
  /\ connected' = connected \cup {On}
  /\ stack' = Rest
  /\ UNCHANGED <<graph, var, widget, given, raised, sets>>

(* `options.index' raises ValueError when the value is none of them.  A    *)
(* combo box that changes calls the setter; buttons only do so when they   *)
(* are clicked.                                                            *)
DoShow ==
  /\ Running("show")
  /\ \/ /\ Kind(On) # "edit" /\ var[On] = 0
        /\ Raise /\ UNCHANGED widget
     \/ /\ Kind(On) = "edit" \/ var[On] # 0
        /\ widget' = [widget EXCEPT ![On] = var[On]]
        /\ stack' = IF Kind(On) = "combo" /\ On \in connected /\ widget[On] # var[On]
                    THEN <<Setter(On, var[On])>> \o Rest ELSE Rest
  /\ UNCHANGED <<graph, var, connected, given, raised, sets>>

(* Before the first event                                                  *)
Constructing == sets = 0 /\ stack # <<>>

(* The constructor gives parameters with the block it makes; a setter that *)
(* meets a block that is not made yet raises AttributeError.               *)
DoGive ==
  /\ Running("give")
  /\ LET values == [v \in graph.reads[On] |-> var[v]]
         constructor == Constructing /\ Len(stack) = 1
     IN \/ /\ ~constructor /\ On \notin DOMAIN given
           /\ raised' = TRUE /\ Raise /\ UNCHANGED given
        \/ /\ constructor \/ On \in DOMAIN given
           /\ given' = [p \in DOMAIN given \cup {On} |-> IF p = On THEN values ELSE given[p]]
           /\ stack' = Rest /\ UNCHANGED raised
  /\ UNCHANGED <<graph, var, widget, connected, sets>>

DoReturn ==
  /\ stack # <<>> /\ stack[1] = <<>>
  /\ stack' = Tail(stack)
  /\ UNCHANGED <<graph, var, widget, connected, given, raised, sets>>

-----------------------------------------------------------------------------
(* The event loop *)

Idle == stack = <<>>

(* The user picks another entry of a combo box, clicks a button, moves a   *)
(* slider, or ends a line with return.                                     *)
User ==
  /\ Idle /\ sets < MaxSets
  /\ \E v \in connected, value \in 0 .. 2 :
       /\ Kind(v) = "combo" => value # widget[v]
       /\ value = 0 => Kind(v) = "edit"
       /\ widget' = [widget EXCEPT ![v] = value]
       /\ stack' = IF value = 0 THEN <<>> ELSE <<Setter(v, value)>>
  /\ sets' = sets + 1
  /\ UNCHANGED <<graph, var, connected, given, raised>>

(* A program that uses the class calls a setter, with any value.           *)
Program ==
  /\ Idle /\ sets < MaxSets
  /\ \E v \in Variables, value \in 0 .. 2 :
       /\ value = 0 => Kind(v) \in {"combo", "buttons"}
       /\ stack' = <<Setter(v, value)>>
  /\ sets' = sets + 1
  /\ UNCHANGED <<graph, var, widget, connected, given, raised>>

Run == DoAssign \/ DoCreate \/ DoConnect \/ DoShow \/ DoGive \/ DoReturn

Next == Run \/ User \/ Program

Spec == Init /\ [][Next]_vars

-----------------------------------------------------------------------------
(* Properties *)

(* Type invariant.  Setters nest once at the most: the inner one finds the *)
(* combo box as it should be.                                              *)
TypeOK ==
  /\ var \in [Variables -> 0 .. 2] /\ widget \in [Variables -> 0 .. 2]
  /\ connected \subseteq Variables
  /\ DOMAIN given \subseteq DOMAIN graph.reads
  /\ \A p \in DOMAIN given : given[p] \in [graph.reads[p] -> 0 .. 2]
  /\ Len(stack) <= 2
  /\ raised \in BOOLEAN /\ sets \in 0 .. MaxSets

(* The parameters that can change                                          *)
Live == {p \in DOMAIN graph.reads : \E v \in Variables :
           \E i \in DOMAIN graph.setters[v] : graph.setters[v][i] = Give(p)}

(* Between two events each parameter of each block is computed from the    *)
(* values the variables have, whoever set them, in whatever order, and     *)
(* however often setters were left by an exception: only a variable whose  *)
(* own value was refused is ahead of the blocks (set_freq gives the        *)
(* frequency to the radio and to each equalizer).  A refused value stays   *)
(* in the variable, and another setter that reads it may give it to a      *)
(* block (set_lo_offset tunes to the frequency that set_freq refused); the *)
(* blocks that only its own setter gives it to still agree with each other *)
(* on the old value.                                                       *)
BlocksFollow ==
  Idle =>
    /\ \A p \in Live : \A v \in graph.reads[p] :
         p \in DOMAIN given /\ (given[p][v] = var[v] \/ var[v] = 0)
    /\ \A v \in Variables : \A p, q \in Live :
         graph.reads[p] = {v} /\ graph.reads[q] = {v} => given[p] = given[q]

(* What the user sees is what the variable is.  (Sliders show what the     *)
(* user did last, not what a program set.)                                 *)
WidgetsFollow ==
  Idle => \A v \in connected :
            Kind(v) \in {"combo", "buttons"} => widget[v] = var[v] \/ var[v] = 0

(* No signal reaches a setter before the constructor has made its blocks:  *)
(* the combo boxes are set to the initial values before they are connected *)
(* (wifi_rx.py:88-90, the receiver would not start otherwise).             *)
ConstructorUndisturbed == ~raised

=============================================================================
