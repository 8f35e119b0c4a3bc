--------------------------- MODULE FlowGraphProofs ---------------------------
(***************************************************************************)
(* The blocks and the widgets of the flow graphs follow the variables, for *)
(* any number of sets by the user and by programs.  First what the tables  *)
(* of a flow graph need for that (Sound), then that the four of            *)
(* FlowGraphTables have it, then the invariant.                            *)
(***************************************************************************)
EXTENDS FlowGraph, SequenceTheorems, TLAPS

-----------------------------------------------------------------------------
(* What the tables need *)

Steps(g) ==
  [op : {"create", "show", "connect", "give"}, on : DOMAIN g.widgets \cup DOMAIN g.reads]

HasGive(f, p) == \E i \in DOMAIN f : f[i] = Give(p)

(* A combo box and buttons show the variable whoever sets it.              *)
Picks(g, v) == g.widgets[v] \in {"combo", "buttons"}

(* The parameter is given by some setter.                                  *)
Settable(g, p) == \E v \in DOMAIN g.widgets : HasGive(g.setters[v], p)

(* What may be left of a setter of v: it shows v first, and gives          *)
(* parameters that are computed from v.                                    *)
Gives(g, v, step) ==
  \E p \in DOMAIN g.reads : v \in g.reads[p] /\ Settable(g, p) /\ step = Give(p)

SetterPart(g, v, f) ==
  /\ f \in Seq(Steps(g))
  /\ \A i \in DOMAIN f : (i = 1 /\ f[i] = Show(v)) \/ Gives(g, v, f[i])

ShowsFirst(v, f) == f # <<>> /\ f[1] = Show(v)

(* A setter gives all that is computed from its variable.                  *)
SoundSetter(g, v) ==
  /\ SetterPart(g, v, g.setters[v])
  /\ Picks(g, v) => ShowsFirst(v, g.setters[v])
  /\ \A p \in DOMAIN g.reads :
       Settable(g, p) /\ v \in g.reads[p] => HasGive(g.setters[v], p)

(* What may be left of the constructor: no widget is made or set when its  *)
(* signal is connected.                                                    *)
MakesWidget(g, step) ==
  \E v \in DOMAIN g.widgets : step \in {Create(v), Show(v), Connect(v)}

Untouched(f, i, v) == \A j \in DOMAIN f : j > i => f[j] # Create(v) /\ f[j] # Show(v)

BuildPart(g, f) ==
  /\ f \in Seq(Steps(g))
  /\ \A i \in DOMAIN f : MakesWidget(g, f[i]) \/ \E p \in DOMAIN g.reads : f[i] = Give(p)
  /\ \A i \in DOMAIN f, v \in DOMAIN g.widgets : f[i] = Connect(v) => Untouched(f, i, v)

(* v is shown before step i, and its widget is not made anew behind that.  *)
ShownBefore(f, i, v) ==
  \E j \in DOMAIN f :
    j < i /\ f[j] = Show(v) /\ \A k \in DOMAIN f : k > j => f[k] # Create(v)

SoundConstructor(g, f) ==
  /\ BuildPart(g, f)
  /\ \A i \in DOMAIN f, v \in DOMAIN g.widgets :
       f[i] = Connect(v) /\ Picks(g, v) => ShownBefore(f, i, v)

Sound(g) ==
  /\ g.initial \in [DOMAIN g.widgets -> {1, 2}]
  /\ \A v \in DOMAIN g.widgets : SoundSetter(g, v)
  /\ \A p \in DOMAIN g.reads : g.reads[p] \subseteq DOMAIN g.widgets
  /\ SoundConstructor(g, g.init)
  /\ \A p \in DOMAIN g.reads : Settable(g, p) => HasGive(g.init, p)

-----------------------------------------------------------------------------
(* The invariant *)

Follows(p, u) == given[p][u] = var[u] \/ var[u] = 0

AllFollow == \A p \in Live : \A u \in graph.reads[p] : Follows(p, u)

(* The blocks follow but for what is left of a setter of v.                *)
Behind(v, f) ==
  \A p \in Live : \A u \in graph.reads[p] : Follows(p, u) \/ (u = v /\ HasGive(f, p))

WidgetFollows(u) ==
  u \in connected /\ Picks(graph, u) => widget[u] = var[u] \/ var[u] = 0

(* The blocks that only v is given to agree on it.                         *)
Alike(v) ==
  \A p, q \in Live : graph.reads[p] = {v} /\ graph.reads[q] = {v} => given[p] = given[q]

Values ==
  /\ graph \in Graphs
  /\ var \in [Variables -> 0 .. 2] /\ widget \in [Variables -> 0 .. 2]
  /\ connected \subseteq Variables
  /\ DOMAIN given \subseteq DOMAIN graph.reads
  /\ \A p \in DOMAIN given : given[p] \in [graph.reads[p] -> 0 .. 2]
  /\ sets \in 0 .. MaxSets
  /\ raised = FALSE

(* The constructor is running.                                             *)
InConstructor(f) ==
  /\ sets = 0 /\ stack = <<f>> /\ var = graph.initial
  /\ BuildPart(graph, f)
  /\ \A v \in connected : Untouched(f, 0, v) /\ WidgetFollows(v)
  /\ \A i \in DOMAIN f, v \in Variables :
       f[i] = Connect(v) /\ Picks(graph, v) =>
         \/ ShownBefore(f, i, v)
         \/ widget[v] = var[v] /\ \A k \in DOMAIN f : f[k] # Create(v)
  /\ \A p \in Live : p \in DOMAIN given \/ HasGive(f, p)
  /\ \A p \in DOMAIN given : \A u \in graph.reads[p] : given[p][u] = var[u]

(* The constructor is done.                                                *)
Settled ==
  /\ Live \subseteq DOMAIN given
  /\ \A v \in Variables : var[v] = 0 => Picks(graph, v) /\ Alike(v)

Quiet == stack = <<>> /\ AllFollow /\ \A u \in Variables : WidgetFollows(u)

(* A setter of v is called.                                                *)
Called(v, x) ==
  /\ stack = <<Setter(v, x)>> /\ x \in 0 .. 2 /\ (x = 0 => Picks(graph, v))
  /\ AllFollow
  /\ \A u \in Variables \ {v} : WidgetFollows(u)

(* It has assigned the variable.                                           *)
Within(v, f) ==
  /\ stack = <<f>> /\ SetterPart(graph, v, f)
  /\ var[v] = 0 => ShowsFirst(v, f)
  /\ Behind(v, f)
  /\ \A u \in Variables : WidgetFollows(u) \/ (u = v /\ ShowsFirst(v, f))

(* It has shown the variable, and the widget has called it once more.      *)
Nested(v, f, h) ==
  /\ stack = <<f, h>>
  /\ f = Setter(v, var[v]) \/ SetterPart(graph, v, f)
  /\ SetterPart(graph, v, h) /\ ~ShowsFirst(v, h)
  /\ var[v] # 0 /\ widget[v] = var[v]
  /\ Behind(v, h)
  /\ \A u \in Variables : WidgetFollows(u)

Setting ==
  \E v \in Variables :
    \/ \E x : Called(v, x)
    \/ \E f : Within(v, f)
    \/ \E f, h : Nested(v, f, h)

FlowInv ==
  /\ Values
  /\ (\E f : InConstructor(f)) \/ (Settled /\ (Quiet \/ Setting))

-----------------------------------------------------------------------------
(* Sequences of steps and of calls *)

LEMMA OneCall ==
  ASSUME NEW f
  PROVE  /\ <<f>> # <<>> /\ <<f>>[1] = f /\ Tail(<<f>>) = <<>> /\ Len(<<f>>) = 1
         /\ [<<f>> EXCEPT ![1] = Tail(@)] = <<Tail(f)>>
OBVIOUS

LEMMA TwoCalls ==
  ASSUME NEW f, NEW h
  PROVE  /\ <<f, h>> # <<>> /\ <<f, h>>[1] = f /\ Tail(<<f, h>>) = <<h>> /\ Len(<<f, h>>) = 2
         /\ [<<f, h>> EXCEPT ![1] = Tail(@)] = <<Tail(f), h>>
<1>1. <<f, h>> # <<>> /\ <<f, h>>[1] = f /\ Len(<<f, h>>) = 2
  OBVIOUS
<1>2. Tail(<<f, h>>) = <<h>>
  OBVIOUS
<1>3. [<<f, h>> EXCEPT ![1] = Tail(@)] = <<Tail(f), h>>
  OBVIOUS
<1>4. QED
  BY <1>1, <1>2, <1>3

LEMMA CallWithin ==
  ASSUME NEW f, NEW h
  PROVE  <<f>> \o <<h>> = <<f, h>>
<1> DEFINE s == <<f>> \o <<h>>
<1>1. <<f>> \in Seq({f, h}) /\ <<h>> \in Seq({f, h})
  OBVIOUS
<1>2. /\ s \in Seq({f, h}) /\ Len(s) = 2
      /\ s[1] = f /\ s[2] = h
  <2>1. PICK x \in Seq({f, h}), z \in Seq({f, h}) : x = <<f>> /\ z = <<h>>
    BY <1>1, Zenon
  <2>2. Len(x) = 1 /\ Len(z) = 1 /\ x[1] = f /\ z[1] = h
    BY <2>1
  <2>3. /\ x \o z \in Seq({f, h}) /\ Len(x \o z) = Len(x) + Len(z)
        /\ \A i \in 1..Len(x) + Len(z) : (x \o z)[i] = IF i <= Len(x) THEN x[i] ELSE z[i - Len(x)]
    BY ConcatProperties, Zenon
  <2>4. x \o z \in Seq({f, h}) /\ Len(x \o z) = 2 /\ (x \o z)[1] = f /\ (x \o z)[2] = h
    BY <2>2, <2>3
  <2>5. QED
    BY <2>1, <2>4
<1> HIDE DEF s
<1>3. s = <<f, h>>
  BY <1>2
<1>4. QED
  BY <1>3 DEF s

LEMMA SetterCalled ==
  ASSUME NEW v, NEW x, NEW S, graph.setters[v] \in Seq(S)
  PROVE  /\ Setter(v, x) # <<>> /\ Setter(v, x)[1] = Assign(v, x)
         /\ Tail(Setter(v, x)) = graph.setters[v]
BY DEF Setter

LEMMA StepsBehind ==
  ASSUME NEW S, NEW f \in Seq(S), f # <<>>
  PROVE  /\ Tail(f) \in Seq(S) /\ 1 \in DOMAIN f
         /\ \A i \in DOMAIN Tail(f) : i + 1 \in DOMAIN f /\ i + 1 > 1 /\ Tail(f)[i] = f[i + 1]
         /\ \A i \in DOMAIN f : i > 1 => i - 1 \in DOMAIN Tail(f) /\ Tail(f)[i - 1] = f[i]
OBVIOUS

LEMMA GiveBehind ==
  ASSUME NEW S, NEW f \in Seq(S), f # <<>>, NEW p, HasGive(f, p), f[1] # Give(p)
  PROVE  HasGive(Tail(f), p)
<1>1. PICK i \in DOMAIN f : f[i] = Give(p)
  BY DEF HasGive
<1>2. i > 1
  BY <1>1
<1>3. QED
  BY <1>1, <1>2, StepsBehind DEF HasGive

(* Steps differ in what they do and on what.                               *)
LEMMA StepsDiffer ==
  ASSUME NEW v, NEW u
  PROVE  /\ Show(v) # Give(u) /\ Show(v) # Create(u) /\ Show(v) # Connect(u)
         /\ Create(v) # Give(u) /\ Create(v) # Connect(u) /\ Connect(v) # Give(u)
         /\ Create(v).op = "create" /\ Show(v).op = "show" /\ Connect(v).op = "connect"
         /\ Give(v).op = "give" /\ Create(v).on = v /\ Show(v).on = v
         /\ Connect(v).on = v /\ Give(v).on = v
         /\ (Show(v) = Show(u) => v = u) /\ (Give(v) = Give(u) => v = u)
         /\ (Create(v) = Create(u) => v = u) /\ (Connect(v) = Connect(u) => v = u)
BY DEF Create, Show, Connect, Give

LEMMA AssignIs ==
  ASSUME NEW v, NEW x
  PROVE  Assign(v, x).op = "assign" /\ Assign(v, x).on = v /\ Assign(v, x).value = x
BY DEF Assign

(* The rest of a part of a setter gives only.                              *)
LEMMA SetterRest ==
  ASSUME NEW g, NEW v, NEW f, SetterPart(g, v, f), f # <<>>
  PROVE  /\ SetterPart(g, v, Tail(f)) /\ ~ShowsFirst(v, Tail(f))
         /\ f[1] = Show(v) \/ Gives(g, v, f[1])
<1>1. f \in Seq(Steps(g)) /\ \A i \in DOMAIN f : (i = 1 /\ f[i] = Show(v)) \/ Gives(g, v, f[i])
  BY DEF SetterPart
<1>2. Tail(f) \in Seq(Steps(g)) /\ 1 \in DOMAIN f
  BY <1>1, StepsBehind
<1>3. ASSUME NEW i \in DOMAIN Tail(f) PROVE Gives(g, v, Tail(f)[i])
  <2>1. i + 1 \in DOMAIN f /\ i + 1 > 1 /\ Tail(f)[i] = f[i + 1]
    BY <1>1, StepsBehind
  <2>2. Gives(g, v, f[i + 1])
    BY <1>1, <2>1
  <2>3. QED
    BY <2>1, <2>2
<1>4. ~ShowsFirst(v, Tail(f))
  <2>1. SUFFICES ASSUME Tail(f) # <<>>, Tail(f)[1] = Show(v) PROVE FALSE
    BY DEF ShowsFirst
  <2>2. 1 \in DOMAIN Tail(f)
    BY <1>2, <2>1
  <2>3. PICK p : Tail(f)[1] = Give(p)
    BY <1>3, <2>2 DEF Gives
  <2>4. QED
    BY <2>1, <2>3, StepsDiffer
<1>5. QED
  BY <1>1, <1>2, <1>3, <1>4 DEF SetterPart

-----------------------------------------------------------------------------
(* Which action may run *)

LEMMA Guards ==
  /\ DoAssign => Running("assign")
  /\ DoCreate => Running("create")
  /\ DoConnect => Running("connect")
  /\ DoShow => Running("show")
  /\ DoGive => Running("give")
  /\ DoReturn => stack # <<>> /\ stack[1] = <<>>
  /\ User \/ Program => stack = <<>>
<1>1. (DoAssign => Running("assign")) /\ (DoCreate => Running("create"))
  BY DEF DoAssign, DoCreate
<1>2. (DoConnect => Running("connect")) /\ (DoShow => Running("show"))
  BY DEF DoConnect, DoShow
<1>3. (DoGive => Running("give")) /\ (DoReturn => stack # <<>> /\ stack[1] = <<>>)
  BY DEF DoGive, DoReturn
<1>4. User \/ Program => stack = <<>>
  BY DEF User, Program, Idle
<1>5. QED
  BY <1>1, <1>2, <1>3, <1>4

LEMMA StepOf ==
  ASSUME Next, stack # <<>>, stack[1] # <<>>
  PROVE  /\ stack[1][1].op = "assign" => DoAssign
         /\ stack[1][1].op = "create" => DoCreate
         /\ stack[1][1].op = "connect" => DoConnect
         /\ stack[1][1].op = "show" => DoShow
         /\ stack[1][1].op = "give" => DoGive
BY Guards DEF Next, Run, Running

LEMMA ReturnOf ==
  ASSUME Next, stack # <<>>, stack[1] = <<>>
  PROVE  DoReturn
BY Guards DEF Next, Run, Running

-----------------------------------------------------------------------------
(* Giving a parameter *)

LEMMA LiveIs == Live = {p \in DOMAIN graph.reads : Settable(graph, p)}
BY DEF Live, Settable, HasGive, Variables

LEMMA GivenNow ==
  ASSUME NEW p, Running("give"), On = p, p \in DOMAIN given, DoGive
  PROVE  /\ stack' = Rest /\ UNCHANGED <<graph, var, widget, connected, raised, sets>>
         /\ DOMAIN given' = DOMAIN given
         /\ given'[p] = [u \in graph.reads[p] |-> var[u]]
         /\ \A q \in DOMAIN given : q # p => given'[q] = given[q]
<1>1. /\ given' = [q \in DOMAIN given \cup {p} |->
                     IF q = p THEN [u \in graph.reads[p] |-> var[u]] ELSE given[q]]
      /\ stack' = Rest /\ UNCHANGED <<graph, var, widget, connected, raised, sets>>
  BY DEF DoGive
<1>2. QED
  BY <1>1

LEMMA GiveKeeps ==
  ASSUME Values, Sound(graph), Settled, NEW v \in Variables, NEW p \in Live,
         v \in graph.reads[p], var[v] # 0, Running("give"), On = p, DoGive
  PROVE  /\ stack' = Rest /\ UNCHANGED <<graph, var, widget, connected, sets>>
         /\ Values' /\ Settled'
         /\ \A u \in graph.reads[p] : Follows(p, u)'
         /\ \A q \in Live : \A u \in graph.reads[q] : Follows(q, u) => Follows(q, u)'
<1>1. p \in DOMAIN given /\ p \in DOMAIN graph.reads
  BY LiveIs DEF Settled
<1>2. /\ stack' = Rest /\ UNCHANGED <<graph, var, widget, connected, raised, sets>>
      /\ DOMAIN given' = DOMAIN given
      /\ given'[p] = [u \in graph.reads[p] |-> var[u]]
      /\ \A q \in DOMAIN given : q # p => given'[q] = given[q]
  BY <1>1, GivenNow
<1>3. Variables' = Variables /\ Live' = Live
  BY <1>2 DEF Variables, Live
<1>4. Values'
  <2>1. graph.reads[p] \subseteq Variables
    BY <1>1 DEF Sound, Variables
  <2>2. given'[p] \in [graph.reads[p] -> 0 .. 2]
    BY <1>2, <2>1 DEF Values
  <2>3. \A q \in DOMAIN given : given'[q] \in [graph.reads[q] -> 0 .. 2]
    BY <1>2, <2>2 DEF Values
  <2>4. QED
    BY <1>2, <1>3, <2>3 DEF Values
<1>5. Settled'
  <2>1. ASSUME NEW u \in Variables, var[u] = 0
        PROVE  Picks(graph, u) /\ Alike(u)'
    <3>1. Picks(graph, u) /\ Alike(u)
      BY <2>1 DEF Settled
    <3>2. ASSUME NEW q \in Live, graph.reads[q] = {u}
          PROVE  given'[q] = given[q]
      <4>1. q # p
        BY <2>1, <3>2
      <4>2. q \in DOMAIN given
        BY DEF Settled
      <4>3. QED
        BY <1>2, <4>1, <4>2
    <3>3. Alike(u)'
      BY <1>2, <1>3, <3>1, <3>2 DEF Alike
    <3>4. QED
      BY <3>1, <3>3
  <2>2. QED
    BY <1>2, <1>3, <2>1 DEF Settled
<1>6. \A u \in graph.reads[p] : Follows(p, u)'
  BY <1>2 DEF Follows
<1>7. ASSUME NEW q \in Live, NEW u \in graph.reads[q], Follows(q, u)
      PROVE  Follows(q, u)'
  <2>1. CASE q = p
    BY <1>6, <2>1
  <2>2. CASE q # p
    <3>1. q \in DOMAIN given
      BY DEF Settled
    <3>2. given'[q] = given[q] /\ var' = var
      BY <1>2, <2>2, <3>1
    <3>3. QED
      BY <1>7, <3>2 DEF Follows
  <2>3. QED
    BY <2>1, <2>2
<1>8. QED
  BY <1>2, <1>4, <1>5, <1>6, <1>7

-----------------------------------------------------------------------------
(* From one event to the next *)

LEMMA SetsMore ==
  ASSUME sets \in 0 .. MaxSets, sets < MaxSets, sets' = sets + 1
  PROVE  sets' \in 0 .. MaxSets
BY SetsAssumption DEF SetsAssumption

LEMMA EventKeeps ==
  ASSUME Values, Settled, Quiet, Next
  PROVE  Values' /\ Settled' /\ (Quiet' \/ Setting')
<1>1. User \/ Program
  BY Guards DEF Quiet, Next, Run, Running
<1>2. UNCHANGED <<graph, var, connected, given, raised>> /\ sets' \in 0 .. MaxSets
  BY <1>1, SetsMore DEF User, Program, Values
<1>3. Variables' = Variables /\ Live' = Live
  BY <1>2 DEF Variables, Live
<1>4. Settled'
  BY <1>2, <1>3 DEF Settled, Alike
<1>5. AllFollow'
  BY <1>2, <1>3 DEF Quiet, AllFollow, Follows
<1>6. CASE Program
  <2>1. PICK v \in Variables, x \in 0 .. 2 :
          /\ x = 0 => Kind(v) \in {"combo", "buttons"}
          /\ stack' = <<Setter(v, x)>>
    BY <1>6 DEF Program
  <2>2. UNCHANGED widget
    BY <1>6 DEF Program
  <2>3. Values'
    BY <1>2, <1>3, <2>2 DEF Values
  <2>4. Called(v, x)'
    <3>1. x = 0 => Picks(graph, v)
      BY <2>1 DEF Picks, Kind
    <3>2. stack' = <<Setter(v, x)'>>
      BY <1>2, <2>1 DEF Setter
    <3>3. \A u \in Variables : WidgetFollows(u)'
      BY <1>2, <2>2 DEF Quiet, WidgetFollows
    <3>4. QED
      BY <1>2, <1>3, <1>5, <3>1, <3>2, <3>3 DEF Called
  <2>5. QED
    BY <1>3, <1>4, <2>3, <2>4 DEF Setting
<1>7. CASE User
  <2>1. PICK v \in connected, x \in 0 .. 2 :
          /\ x = 0 => Kind(v) = "edit"
          /\ widget' = [widget EXCEPT ![v] = x]
          /\ stack' = IF x = 0 THEN <<>> ELSE <<Setter(v, x)>>
    BY <1>7 DEF User
  <2>2. v \in Variables /\ widget' \in [Variables -> 0 .. 2]
        /\ \A u \in Variables \ {v} : widget'[u] = widget[u]
    BY <2>1 DEF Values
  <2>3. Values'
    BY <1>2, <1>3, <2>2 DEF Values
  <2>4. \A u \in Variables \ {v} : WidgetFollows(u)'
    BY <1>2, <2>2 DEF Quiet, WidgetFollows
  <2>5. CASE x = 0
    <3>1. ~Picks(graph, v)
      BY <2>1, <2>5 DEF Picks, Kind
    <3>2. WidgetFollows(v)'
      BY <1>2, <3>1 DEF WidgetFollows
    <3>3. Quiet'
      BY <1>3, <1>5, <2>1, <2>4, <2>5, <3>2 DEF Quiet
    <3>4. QED
      BY <1>4, <2>3, <3>3
  <2>6. CASE x # 0
    <3>1. stack' = <<Setter(v, x)'>>
      BY <1>2, <2>1, <2>6 DEF Setter
    <3>2. Called(v, x)'
      BY <1>2, <1>3, <1>5, <2>4, <2>6, <3>1 DEF Called
    <3>3. QED
      BY <1>3, <1>4, <2>2, <2>3, <3>2 DEF Setting
  <2>7. QED
    BY <2>5, <2>6
<1>8. QED
  BY <1>1, <1>6, <1>7

(* The setter assigns the variable.                                        *)
LEMMA SetterParts ==
  ASSUME Sound(graph), NEW v \in Variables
  PROVE  /\ SoundSetter(graph, v) /\ SetterPart(graph, v, graph.setters[v])
         /\ graph.setters[v] \in Seq(Steps(graph))
BY DEF Sound, SoundSetter, SetterPart, Variables

LEMMA AssignKeeps ==
  ASSUME Values, Sound(graph), Settled, NEW v \in Variables, NEW x, Called(v, x), Next
  PROVE  Values' /\ Settled' /\ Setting'
<1>1. SoundSetter(graph, v) /\ graph.setters[v] \in Seq(Steps(graph))
  BY SetterParts
<1>2. /\ stack = <<Setter(v, x)>> /\ x \in 0 .. 2 /\ (x = 0 => Picks(graph, v))
      /\ AllFollow
      /\ \A u \in Variables \ {v} : WidgetFollows(u)
  BY DEF Called
<1>3. PICK s : s = Setter(v, x)
  OBVIOUS
<1>4. s # <<>> /\ s[1] = Assign(v, x) /\ Tail(s) = graph.setters[v]
  BY <1>1, <1>3, SetterCalled, Zenon
<1>5. stack # <<>> /\ stack[1] = s /\ [stack EXCEPT ![1] = Tail(@)] = <<Tail(s)>>
  BY <1>2, <1>3, OneCall
<1>6. DoAssign
  BY <1>4, <1>5, StepOf, AssignIs
<1>7. /\ var' = [var EXCEPT ![v] = x] /\ stack' = <<graph.setters[v]>>
      /\ UNCHANGED <<graph, widget, connected, given, raised, sets>>
  <2>1. stack[1][1].on = v /\ stack[1][1].value = x
    BY <1>4, <1>5, AssignIs
  <2>2. stack' = <<graph.setters[v]>>
    BY <1>4, <1>5, <1>6 DEF DoAssign, Rest
  <2>3. var' = [var EXCEPT ![v] = x] /\ UNCHANGED <<graph, widget, connected, given, raised, sets>>
    BY <1>6, <2>1 DEF DoAssign, On
  <2>4. QED
    BY <2>2, <2>3
<1>8. Variables' = Variables /\ Live' = Live
  BY <1>7 DEF Variables, Live
<1>9. var' \in [Variables -> 0 .. 2] /\ var'[v] = x /\ \A u \in Variables \ {v} : var'[u] = var[u]
  BY <1>2, <1>7 DEF Values
<1>10. Values'
  BY <1>7, <1>8, <1>9 DEF Values
<1>11. Settled'
  <2>1. ASSUME NEW u \in Variables, u # v, var'[u] = 0
        PROVE  Picks(graph, u) /\ Alike(u)
    BY <1>9, <2>1 DEF Settled
  <2>2. ASSUME x = 0 PROVE Picks(graph, v) /\ Alike(v)
    <3>1. CASE var[v] = 0
      BY <3>1 DEF Settled
    <3>2. CASE var[v] # 0
      <4>1. ASSUME NEW p \in Live, graph.reads[p] = {v}
            PROVE  given[p] = [u \in {v} |-> var[v]]
        <5>1. p \in DOMAIN given
          BY DEF Settled
        <5>2. given[p] \in [{v} -> 0 .. 2]
          BY <4>1, <5>1 DEF Values
        <5>3. given[p][v] = var[v]
          BY <1>2, <3>2, <4>1 DEF AllFollow, Follows
        <5>4. QED
          BY <5>2, <5>3
      <4>2. Alike(v)
        BY <4>1, Zenon DEF Alike
      <4>3. QED
        BY <1>2, <2>2, <4>2
    <3>3. QED
      BY <3>1, <3>2
  <2>3. \A u \in Variables : var'[u] = 0 => Picks(graph, u) /\ Alike(u)
    BY <1>9, <2>1, <2>2
  <2>4. QED
    BY <1>7, <1>8, <2>3 DEF Settled, Alike
<1>12. Within(v, graph.setters[v])'
  <2> DEFINE f == graph.setters[v]
  <2>1. SetterPart(graph, v, f) /\ (Picks(graph, v) => ShowsFirst(v, f))
    BY <1>1 DEF SoundSetter
  <2>2. \A p \in Live : v \in graph.reads[p] => HasGive(f, p)
    BY <1>1, LiveIs DEF SoundSetter
  <2>3. Behind(v, f)'
    <3>1. ASSUME NEW p \in Live, NEW u \in graph.reads[p]
          PROVE  Follows(p, u)' \/ (u = v /\ HasGive(f, p))
      <4>1. CASE u = v
        BY <2>2, <4>1
      <4>2. CASE u # v
        <5>1. u \in Variables
          BY LiveIs DEF Sound, Variables
        <5>2. Follows(p, u)
          BY <1>2 DEF AllFollow
        <5>3. QED
          BY <1>7, <1>9, <4>2, <5>1, <5>2 DEF Follows
      <4>3. QED
        BY <4>1, <4>2
    <3>2. QED
      BY <1>7, <1>8, <3>1 DEF Behind
  <2>4. \A u \in Variables : WidgetFollows(u)' \/ (u = v /\ ShowsFirst(v, f))
    <3>1. ASSUME NEW u \in Variables, u # v PROVE WidgetFollows(u)'
      BY <1>2, <1>7, <1>9, <3>1 DEF WidgetFollows
    <3>2. WidgetFollows(v)' \/ ShowsFirst(v, f)
      BY <1>7, <2>1 DEF WidgetFollows
    <3>3. QED
      BY <3>1, <3>2
  <2>5. var'[v] = 0 => ShowsFirst(v, f)
    BY <1>2, <1>9, <2>1
  <2> HIDE DEF f
  <2>6. stack' = <<f>> /\ f' = f
    BY <1>7 DEF f
  <2>7. Within(v, f)'
    BY <1>7, <1>8, <2>1, <2>3, <2>4, <2>5, <2>6 DEF Within
  <2>8. QED
    BY <2>7 DEF f
<1>13. QED
  BY <1>8, <1>10, <1>11, <1>12 DEF Setting

(* What is left of a setter gives its parameters, which all exist.         *)
LEMMA GivesLive ==
  ASSUME NEW v, NEW step, Gives(graph, v, step)
  PROVE  \E p \in Live : v \in graph.reads[p] /\ step = Give(p)
BY LiveIs DEF Gives

LEMMA ShowSets ==
  ASSUME Values, NEW v \in Variables, Running("show"), On = v, var[v] # 0, DoShow
  PROVE  /\ widget' = [widget EXCEPT ![v] = var[v]]
         /\ UNCHANGED <<graph, var, connected, given, raised, sets>>
         /\ \/ stack' = Rest
            \/ /\ v \in connected /\ widget[v] # var[v]
               /\ stack' = <<Setter(v, var[v])>> \o Rest
         /\ Values'
         /\ widget'[v] = var[v] /\ \A u \in Variables \ {v} : widget'[u] = widget[u]
<1>1. /\ widget' = [widget EXCEPT ![v] = var[v]]
      /\ UNCHANGED <<graph, var, connected, given, raised, sets>>
  BY DEF DoShow
<1>2. \/ stack' = Rest
      \/ v \in connected /\ widget[v] # var[v] /\ stack' = <<Setter(v, var[v])>> \o Rest
  BY DEF DoShow
<1>3. var[v] \in 0 .. 2 /\ widget \in [Variables -> 0 .. 2]
  BY DEF Values
<1>4. /\ widget' \in [Variables -> 0 .. 2] /\ widget'[v] = var[v]
      /\ \A u \in Variables \ {v} : widget'[u] = widget[u]
  BY <1>1, <1>3
<1>5. Values'
  BY <1>1, <1>4 DEF Values, Variables
<1>6. QED
  BY <1>1, <1>2, <1>4, <1>5

(* Where nothing but the stack and a widget moves, the rest stays true.    *)
LEMMA SameValues ==
  ASSUME UNCHANGED <<graph, var, given>>
  PROVE  /\ Variables' = Variables /\ Live' = Live
         /\ Settled => Settled'
         /\ AllFollow => AllFollow'
         /\ \A v, f : Behind(v, f) => Behind(v, f)'
<1>1. Variables' = Variables /\ Live' = Live
  BY DEF Variables, Live
<1>2. Settled => Settled'
  BY <1>1 DEF Settled, Alike
<1>3. AllFollow => AllFollow'
  BY <1>1 DEF AllFollow, Follows
<1>4. \A v, f : Behind(v, f) => Behind(v, f)'
  BY <1>1 DEF Behind, Follows
<1>5. QED
  BY <1>1, <1>2, <1>3, <1>4

LEMMA WithinKeeps ==
  ASSUME Values, Sound(graph), Settled, NEW v \in Variables, NEW f, Within(v, f), Next
  PROVE  Values' /\ Settled' /\ (Quiet' \/ Setting')
<1>1. /\ stack = <<f>> /\ SetterPart(graph, v, f) /\ (var[v] = 0 => ShowsFirst(v, f))
      /\ Behind(v, f)
      /\ \A u \in Variables : WidgetFollows(u) \/ (u = v /\ ShowsFirst(v, f))
  BY DEF Within
<1>2. stack # <<>> /\ stack[1] = f /\ Tail(stack) = <<>> /\ Rest = <<Tail(f)>>
  BY <1>1, OneCall DEF Rest
<1>3. f \in Seq(Steps(graph))
  BY <1>1 DEF SetterPart
<1>4. CASE f = <<>>
  <2>1. stack' = <<>> /\ UNCHANGED <<graph, var, widget, connected, given, raised, sets>>
    BY <1>2, <1>4, ReturnOf DEF DoReturn
  <2>2. ~ShowsFirst(v, f) /\ \A p : ~HasGive(f, p)
    BY <1>4 DEF ShowsFirst, HasGive
  <2>3. AllFollow /\ \A u \in Variables : WidgetFollows(u)
    BY <1>1, <2>2 DEF Behind, AllFollow
  <2>4. Variables' = Variables /\ Settled' /\ AllFollow'
    BY <2>1, <2>3, SameValues
  <2>5. Values'
    BY <2>1, <2>4 DEF Values
  <2>6. Quiet'
    BY <2>1, <2>3, <2>4 DEF Quiet, WidgetFollows
  <2>7. QED
    BY <2>4, <2>5, <2>6
<1>5. CASE f # <<>> /\ f[1] = Show(v)
  <2>1. DoShow /\ Running("show") /\ On = v
    BY <1>2, <1>5, StepOf, StepsDiffer DEF Running, On
  <2>2. /\ SetterPart(graph, v, Tail(f)) /\ ~ShowsFirst(v, Tail(f))
        /\ \A p : HasGive(f, p) => HasGive(Tail(f), p)
    <3>1. \A p : f[1] # Give(p)
      BY <1>5, StepsDiffer
    <3>2. QED
      BY <1>1, <1>3, <1>5, <3>1, SetterRest, GiveBehind
  <2>3. \A u \in Variables \ {v} : WidgetFollows(u)
    BY <1>1
  <2>4. CASE var[v] = 0
    <3>1. Kind(v) # "edit"
      BY <2>4 DEF Settled, Picks, Kind
    <3>2. stack' = <<>> /\ UNCHANGED <<graph, var, widget, connected, given, raised, sets>>
      BY <1>2, <2>1, <2>4, <3>1 DEF DoShow, Raise
    <3>3. AllFollow
      <4>1. ASSUME NEW p \in Live, NEW u \in graph.reads[p] PROVE Follows(p, u)
        BY <1>1, <2>4 DEF Behind, Follows
      <4>2. QED
        BY <4>1 DEF AllFollow
    <3>4. Variables' = Variables /\ Settled' /\ AllFollow'
      BY <3>2, <3>3, SameValues
    <3>5. Values'
      BY <3>2, <3>4 DEF Values
    <3>6. \A u \in Variables : WidgetFollows(u)'
      BY <2>3, <2>4, <3>2 DEF WidgetFollows
    <3>7. Quiet'
      BY <3>2, <3>4, <3>6 DEF Quiet
    <3>8. QED
      BY <3>4, <3>5, <3>7
  <2>5. CASE var[v] # 0
    <3>1. /\ UNCHANGED <<graph, var, connected, given>> /\ Values'
          /\ \/ stack' = Rest
             \/ widget[v] # var[v] /\ stack' = <<Setter(v, var[v])>> \o Rest
          /\ widget'[v] = var[v] /\ \A u \in Variables \ {v} : widget'[u] = widget[u]
      BY <2>1, <2>5, ShowSets
    <3>2. Variables' = Variables /\ Settled' /\ Behind(v, f)'
      BY <1>1, <3>1, SameValues
    <3>3. Behind(v, Tail(f))'
      BY <2>2, <3>2 DEF Behind
    <3>4. \A u \in Variables : WidgetFollows(u)'
      BY <2>3, <3>1 DEF WidgetFollows
    <3>5. PICK h : h = Tail(f)
      OBVIOUS
    <3>6. CASE stack' = Rest
      <4>1. stack' = <<h>>
        BY <1>2, <3>5, <3>6
      <4>2. Within(v, h)'
        BY <2>2, <2>5, <3>1, <3>2, <3>3, <3>4, <3>5, <4>1 DEF Within
      <4>3. QED
        BY <3>1, <3>2, <4>2 DEF Setting
    <3>7. CASE stack' = <<Setter(v, var[v])>> \o Rest
      <4>1. PICK s : s = Setter(v, var[v])
        OBVIOUS
      <4>2. stack' = <<s, h>>
        BY <1>2, <3>5, <3>7, <4>1, CallWithin, Zenon
      <4>3. s = Setter(v, var[v])'
        BY <3>1, <4>1 DEF Setter
      <4>4. Nested(v, s, h)'
        BY <2>2, <2>5, <3>1, <3>2, <3>3, <3>4, <3>5, <4>2, <4>3 DEF Nested
      <4>5. QED
        BY <3>1, <3>2, <4>4 DEF Setting
    <3>8. QED
      BY <3>1, <3>6, <3>7
  <2>6. QED
    BY <2>4, <2>5
<1>6. CASE f # <<>> /\ f[1] # Show(v)
  <2>1. PICK p \in Live : v \in graph.reads[p] /\ f[1] = Give(p)
    BY <1>1, <1>6, SetterRest, GivesLive
  <2>2. DoGive /\ Running("give") /\ On = p
    BY <1>2, <1>6, <2>1, StepOf, StepsDiffer DEF Running, On
  <2>3. ~ShowsFirst(v, f) /\ var[v] # 0
    BY <1>1, <1>6 DEF ShowsFirst
  <2>4. /\ stack' = <<Tail(f)>> /\ UNCHANGED <<graph, var, widget, connected>>
        /\ Values' /\ Settled'
        /\ \A u \in graph.reads[p] : Follows(p, u)'
        /\ \A q \in Live : \A u \in graph.reads[q] : Follows(q, u) => Follows(q, u)'
    BY <1>2, <2>1, <2>2, <2>3, GiveKeeps
  <2>5. Variables' = Variables /\ Live' = Live
    BY <2>4 DEF Variables, Live
  <2>6. SetterPart(graph, v, Tail(f)) /\ ~ShowsFirst(v, Tail(f))
    BY <1>1, <1>6, SetterRest
  <2>7. Behind(v, Tail(f))'
    <3>1. ASSUME NEW q \in Live, NEW u \in graph.reads[q]
          PROVE  Follows(q, u)' \/ (u = v /\ HasGive(Tail(f), q))
      <4>1. CASE q = p
        BY <2>4, <4>1
      <4>2. CASE q # p
        <5>1. Follows(q, u) \/ (u = v /\ HasGive(f, q))
          BY <1>1 DEF Behind
        <5>2. HasGive(f, q) => HasGive(Tail(f), q)
          BY <1>3, <1>6, <2>1, <4>2, GiveBehind, StepsDiffer
        <5>3. QED
          BY <2>4, <5>1, <5>2
      <4>3. QED
        BY <4>1, <4>2
    <3>2. QED
      BY <2>4, <2>5, <3>1 DEF Behind
  <2>8. \A u \in Variables : WidgetFollows(u)'
    BY <1>1, <2>3, <2>4 DEF WidgetFollows
  <2>9. Within(v, Tail(f))'
    <3>1. PICK h : h = Tail(f)
      OBVIOUS
    <3>2. Within(v, h)'
      BY <2>3, <2>4, <2>5, <2>6, <2>7, <2>8, <3>1 DEF Within
    <3>3. QED
      BY <3>1, <3>2
  <2>10. QED
    BY <2>4, <2>5, <2>9 DEF Setting
<1>7. QED
  BY <1>4, <1>5, <1>6

(* The inner call finds the widget as it should be, and no call is nested  *)
(* in it.                                                                  *)
LEMMA NestedKeeps ==
  ASSUME Values, Sound(graph), Settled, NEW v \in Variables, NEW f, NEW h, Nested(v, f, h), Next
  PROVE  Values' /\ Settled' /\ Setting'
<1>1. /\ stack = <<f, h>> /\ (f = Setter(v, var[v]) \/ SetterPart(graph, v, f))
      /\ SetterPart(graph, v, h) /\ ~ShowsFirst(v, h)
      /\ var[v] # 0 /\ widget[v] = var[v] /\ Behind(v, h)
      /\ \A u \in Variables : WidgetFollows(u)
  BY DEF Nested
<1>2. stack # <<>> /\ stack[1] = f /\ Tail(stack) = <<h>> /\ Rest = <<Tail(f), h>>
  BY <1>1, TwoCalls DEF Rest
<1>3. ASSUME UNCHANGED <<graph, var, connected, given>>,
             \A u \in Variables : widget'[u] = widget[u],
             NEW k, SetterPart(graph, v, k), stack' = <<k, h>>
      PROVE  Settled' /\ Setting'
  <2>1. Variables' = Variables /\ Settled' /\ Behind(v, h)'
    BY <1>1, <1>3, SameValues
  <2>2. \A u \in Variables : WidgetFollows(u)'
    BY <1>1, <1>3 DEF WidgetFollows
  <2>3. Nested(v, k, h)'
    BY <1>1, <1>3, <2>1, <2>2 DEF Nested
  <2>4. QED
    BY <2>1, <2>3 DEF Setting
<1>4. CASE f = Setter(v, var[v])
  <2>1. SetterPart(graph, v, graph.setters[v]) /\ graph.setters[v] \in Seq(Steps(graph))
    BY SetterParts
  <2>2. f # <<>> /\ f[1] = Assign(v, var[v]) /\ Tail(f) = graph.setters[v]
    BY <1>4, <2>1, SetterCalled, Zenon
  <2>3. stack[1][1].op = "assign" /\ stack[1][1].on = v /\ stack[1][1].value = var[v]
    BY <1>2, <2>2, AssignIs
  <2>4. DoAssign
    BY <1>2, <2>2, <2>3, StepOf
  <2>5. /\ var' = [var EXCEPT ![v] = var[v]] /\ stack' = <<graph.setters[v], h>>
        /\ UNCHANGED <<graph, widget, connected, given, raised, sets>>
    BY <1>2, <2>2, <2>3, <2>4 DEF DoAssign, On
  <2>6. var' = var
    BY <2>5 DEF Values
  <2>7. Values'
    BY <2>5, <2>6 DEF Values, Variables
  <2>8. QED
    BY <1>3, <2>1, <2>5, <2>6, <2>7
<1>5. CASE SetterPart(graph, v, f) /\ f = <<>>
  <2>1. stack' = <<h>> /\ UNCHANGED <<graph, var, widget, connected, given, raised, sets>>
    BY <1>2, <1>5, ReturnOf DEF DoReturn
  <2>2. Variables' = Variables /\ Settled' /\ Behind(v, h)'
    BY <1>1, <2>1, SameValues
  <2>3. Values'
    BY <2>1, <2>2 DEF Values
  <2>4. \A u \in Variables : WidgetFollows(u)'
    BY <1>1, <2>1 DEF WidgetFollows
  <2>5. Within(v, h)'
    BY <1>1, <2>1, <2>2, <2>4 DEF Within
  <2>6. QED
    BY <2>2, <2>3, <2>5 DEF Setting
<1>6. CASE SetterPart(graph, v, f) /\ f # <<>> /\ f[1] = Show(v)
  <2>1. DoShow /\ Running("show") /\ On = v
    <3>1. stack[1] # <<>> /\ stack[1][1].op = "show" /\ stack[1][1].on = v
      BY <1>2, <1>6, StepsDiffer
    <3>2. QED
      BY <1>2, <3>1, StepOf DEF Running, On
  <2>2. /\ UNCHANGED <<graph, var, connected, given>> /\ Values' /\ stack' = Rest
        /\ widget'[v] = var[v] /\ \A u \in Variables \ {v} : widget'[u] = widget[u]
    BY <1>1, <2>1, ShowSets
  <2>3. \A u \in Variables : widget'[u] = widget[u]
    BY <1>1, <2>2
  <2>4. SetterPart(graph, v, Tail(f))
    BY <1>6, SetterRest
  <2>5. PICK k : k = Tail(f)
    OBVIOUS
  <2>6. QED
    BY <1>2, <1>3, <2>2, <2>3, <2>4, <2>5
<1>7. CASE SetterPart(graph, v, f) /\ f # <<>> /\ f[1] # Show(v)
  <2>1. PICK p \in Live : v \in graph.reads[p] /\ f[1] = Give(p)
    BY <1>7, SetterRest, GivesLive
  <2>2. DoGive /\ Running("give") /\ On = p
    <3>1. stack[1] # <<>> /\ stack[1][1].op = "give" /\ stack[1][1].on = p
      BY <1>2, <1>7, <2>1, StepsDiffer
    <3>2. QED
      BY <1>2, <3>1, StepOf DEF Running, On
  <2>3. /\ stack' = <<Tail(f), h>> /\ UNCHANGED <<graph, var, widget, connected>>
        /\ Values' /\ Settled'
        /\ \A q \in Live : \A u \in graph.reads[q] : Follows(q, u) => Follows(q, u)'
    BY <1>1, <1>2, <2>1, <2>2, GiveKeeps
  <2>4. Variables' = Variables /\ Live' = Live
    BY <2>3 DEF Variables, Live
  <2>5. Behind(v, h)'
    BY <1>1, <2>3, <2>4 DEF Behind
  <2>6. \A u \in Variables : WidgetFollows(u)'
    BY <1>1, <2>3 DEF WidgetFollows
  <2>7. PICK k : k = Tail(f)
    OBVIOUS
  <2>8. Nested(v, k, h)'
    <3>1. SetterPart(graph, v, k)
      BY <1>7, <2>7, SetterRest
    <3>2. QED
      BY <1>1, <2>3, <2>4, <2>5, <2>6, <2>7, <3>1 DEF Nested
  <2>9. QED
    BY <2>3, <2>4, <2>8 DEF Setting
<1>8. QED
  BY <1>1, <1>4, <1>5, <1>6, <1>7

-----------------------------------------------------------------------------
(* The constructor *)

LEMMA BuildRest ==
  ASSUME NEW g, NEW f, BuildPart(g, f), f # <<>>
  PROVE  BuildPart(g, Tail(f))
<1>1. /\ f \in Seq(Steps(g))
      /\ \A i \in DOMAIN f : MakesWidget(g, f[i]) \/ \E p \in DOMAIN g.reads : f[i] = Give(p)
      /\ \A i \in DOMAIN f, v \in DOMAIN g.widgets : f[i] = Connect(v) => Untouched(f, i, v)
  BY DEF BuildPart
<1>2. /\ Tail(f) \in Seq(Steps(g))
      /\ \A i \in DOMAIN Tail(f) : i + 1 \in DOMAIN f /\ Tail(f)[i] = f[i + 1]
  BY <1>1, StepsBehind
<1>3. ASSUME NEW i \in DOMAIN Tail(f)
      PROVE  MakesWidget(g, Tail(f)[i]) \/ \E p \in DOMAIN g.reads : Tail(f)[i] = Give(p)
  <2>1. i + 1 \in DOMAIN f /\ Tail(f)[i] = f[i + 1]
    BY <1>2
  <2>2. PICK step : step = f[i + 1]
    OBVIOUS
  <2>3. MakesWidget(g, step) \/ \E p \in DOMAIN g.reads : step = Give(p)
    BY <1>1, <2>1, <2>2
  <2>4. QED
    BY <2>1, <2>2, <2>3
<1>4. ASSUME NEW i \in DOMAIN Tail(f), NEW v \in DOMAIN g.widgets, Tail(f)[i] = Connect(v)
      PROVE  Untouched(Tail(f), i, v)
  <2>1. i + 1 \in DOMAIN f /\ f[i + 1] = Connect(v)
    BY <1>2, <1>4
  <2>2. Untouched(f, i + 1, v)
    BY <1>1, <2>1
  <2>3. ASSUME NEW j \in DOMAIN Tail(f), j > i
        PROVE  Tail(f)[j] # Create(v) /\ Tail(f)[j] # Show(v)
    <3>1. j + 1 \in DOMAIN f /\ Tail(f)[j] = f[j + 1] /\ j \in Int /\ i \in Int
      BY <1>2
    <3>2. j + 1 > i + 1
      BY <2>3, <3>1
    <3>3. QED
      BY <2>2, <3>1, <3>2 DEF Untouched
  <2>4. QED
    BY <2>3 DEF Untouched
<1>5. QED
  BY <1>2, <1>3, <1>4 DEF BuildPart

LEMMA UntouchedRest ==
  ASSUME NEW S, NEW f \in Seq(S), f # <<>>, NEW v
  PROVE  /\ Untouched(f, 0, v) => Untouched(Tail(f), 0, v) /\ f[1] # Create(v) /\ f[1] # Show(v)
         /\ Untouched(f, 1, v) => Untouched(Tail(f), 0, v)
<1>1. 1 \in DOMAIN f /\ \A i \in DOMAIN Tail(f) : i + 1 \in DOMAIN f /\ i + 1 > 1 /\ Tail(f)[i] = f[i + 1]
  BY StepsBehind
<1>2. Untouched(f, 1, v) => Untouched(Tail(f), 0, v)
  BY <1>1 DEF Untouched
<1>3. Untouched(f, 0, v) => Untouched(f, 1, v) /\ f[1] # Create(v) /\ f[1] # Show(v)
  BY <1>1 DEF Untouched
<1>4. QED
  BY <1>2, <1>3

NotMade(f, v) == \A k \in DOMAIN f : f[k] # Create(v)

LEMMA NotMadeRest ==
  ASSUME NEW S, NEW f \in Seq(S), f # <<>>, NEW v, NotMade(f, v)
  PROVE  NotMade(Tail(f), v) /\ f[1] # Create(v)
BY StepsBehind DEF NotMade

LEMMA ShownRest ==
  ASSUME NEW S, NEW f \in Seq(S), f # <<>>, NEW v, NEW i \in DOMAIN Tail(f),
         ShownBefore(f, i + 1, v)
  PROVE  ShownBefore(Tail(f), i, v) \/ (f[1] = Show(v) /\ NotMade(Tail(f), v))
<1>1. PICK j \in DOMAIN f :
        j < i + 1 /\ f[j] = Show(v) /\ \A k \in DOMAIN f : k > j => f[k] # Create(v)
  BY DEF ShownBefore
<1>2. \A k \in DOMAIN Tail(f) : k + 1 \in DOMAIN f /\ k + 1 > 1 /\ Tail(f)[k] = f[k + 1]
  BY StepsBehind
<1>3. CASE j = 1
  BY <1>1, <1>2, <1>3 DEF NotMade
<1>4. CASE j # 1
  <2>1. j > 1 /\ j \in Int /\ i \in Int
    BY <1>1, <1>4
  <2>2. j - 1 \in DOMAIN Tail(f) /\ Tail(f)[j - 1] = f[j]
    BY <1>1, <2>1, StepsBehind
  <2>3. j - 1 < i
    BY <1>1, <2>1
  <2>4. ASSUME NEW k \in DOMAIN Tail(f), k > j - 1 PROVE Tail(f)[k] # Create(v)
    <3>1. k + 1 > j /\ k + 1 \in DOMAIN f
      BY <1>2, <2>1, <2>4
    <3>2. QED
      BY <1>1, <1>2, <3>1
  <2>5. ShownBefore(Tail(f), i, v)
    BY <1>1, <2>2, <2>3, <2>4 DEF ShownBefore
  <2>6. QED
    BY <2>5
<1>5. QED
  BY <1>3, <1>4

LEMMA NoneBeforeFirst ==
  ASSUME NEW S, NEW f \in Seq(S), NEW v
  PROVE  ~ShownBefore(f, 1, v)
BY DEF ShownBefore

(* What is known of the widgets while the constructor runs.                *)
WidgetsMade(f) ==
  /\ \A v \in connected : Untouched(f, 0, v) /\ WidgetFollows(v)
  /\ \A i \in DOMAIN f, v \in Variables :
       f[i] = Connect(v) /\ Picks(graph, v) =>
         \/ ShownBefore(f, i, v)
         \/ widget[v] = var[v] /\ NotMade(f, v)

ParametersGiven(f) ==
  /\ \A p \in Live : p \in DOMAIN given \/ HasGive(f, p)
  /\ \A p \in DOMAIN given : \A u \in graph.reads[p] : given[p][u] = var[u]

LEMMA ConstructorParts ==
  ASSUME NEW f
  PROVE  InConstructor(f) <=>
           /\ sets = 0 /\ stack = <<f>> /\ var = graph.initial
           /\ BuildPart(graph, f) /\ WidgetsMade(f) /\ ParametersGiven(f)
BY DEF InConstructor, WidgetsMade, ParametersGiven, NotMade

LEMMA ConstructorPartsNext ==
  ASSUME NEW f
  PROVE  InConstructor(f)' <=>
           /\ sets' = 0 /\ stack' = <<f>> /\ var' = graph'.initial
           /\ BuildPart(graph', f) /\ WidgetsMade(f)' /\ ParametersGiven(f)'
BY DEF InConstructor, WidgetsMade, ParametersGiven, NotMade

(* A step that leaves the parameters alone.                                *)
GivesNone(step) == \A p : step # Give(p)

LEMMA GivesNoneIs ==
  ASSUME NEW v
  PROVE  GivesNone(Create(v)) /\ GivesNone(Show(v)) /\ GivesNone(Connect(v))
BY StepsDiffer DEF GivesNone

LEMMA ParametersStay ==
  ASSUME NEW f \in Seq(Steps(graph)), f # <<>>, GivesNone(f[1]),
         UNCHANGED <<graph, var, given>>, ParametersGiven(f)
  PROVE  ParametersGiven(Tail(f))'
<1>1. ASSUME NEW p, HasGive(f, p) PROVE HasGive(Tail(f), p)
  <2>1. f[1] # Give(p)
    BY DEF GivesNone
  <2>2. QED
    BY <1>1, <2>1, GiveBehind
<1>2. Live' = Live
  BY DEF Live, Variables
<1>3. QED
  BY <1>1, <1>2 DEF ParametersGiven

(* A step that moves at most the widget of v.                              *)
LEMMA WidgetsStay ==
  ASSUME NEW f \in Seq(Steps(graph)), f # <<>>, WidgetsMade(f), NEW v \in Variables,
         UNCHANGED <<graph, var, connected>>,
         \A u \in Variables \ {v} : widget'[u] = widget[u],
         \/ f[1] = Create(v)
         \/ f[1] = Show(v) /\ widget'[v] = var[v],
         connected \subseteq Variables
  PROVE  WidgetsMade(Tail(f))'
<1>1. Variables' = Variables
  BY DEF Variables
<1>2. ASSUME NEW u \in connected
      PROVE  Untouched(Tail(f), 0, u) /\ WidgetFollows(u)'
  <2>1. Untouched(f, 0, u) /\ WidgetFollows(u)
    BY DEF WidgetsMade
  <2>2. Untouched(Tail(f), 0, u) /\ f[1] # Create(u) /\ f[1] # Show(u)
    BY <2>1, UntouchedRest
  <2>3. u # v
    BY <2>2
  <2>4. widget'[u] = widget[u]
    BY <2>3
  <2>5. QED
    BY <2>1, <2>2, <2>4 DEF WidgetFollows
<1>3. ASSUME NEW i \in DOMAIN Tail(f), NEW u \in Variables, Tail(f)[i] = Connect(u),
             Picks(graph, u)
      PROVE  ShownBefore(Tail(f), i, u) \/ (widget'[u] = var[u] /\ NotMade(Tail(f), u))
  <2>1. i + 1 \in DOMAIN f /\ f[i + 1] = Connect(u)
    BY <1>3, StepsBehind
  <2>2. ShownBefore(f, i + 1, u) \/ (widget[u] = var[u] /\ NotMade(f, u))
    BY <1>3, <2>1 DEF WidgetsMade
  <2>3. CASE ShownBefore(f, i + 1, u)
    <3>1. ShownBefore(Tail(f), i, u) \/ (f[1] = Show(u) /\ NotMade(Tail(f), u))
      BY <2>3, ShownRest
    <3>2. ASSUME f[1] = Show(u) PROVE widget'[u] = var[u]
      <4>1. f[1] # Create(v)
        <5>1. Show(u) # Create(v)
          BY DEF Show, Create
        <5>2. QED
          BY <3>2, <5>1
      <4>2. Show(u) = Show(v) /\ widget'[v] = var[v]
        BY <3>2, <4>1
      <4>3. u = v
        BY <4>2 DEF Show
      <4>4. QED
        BY <4>2, <4>3
    <3>3. QED
      BY <3>1, <3>2
  <2>4. CASE widget[u] = var[u] /\ NotMade(f, u)
    <3>1. NotMade(Tail(f), u) /\ f[1] # Create(u)
      BY <2>4, NotMadeRest
    <3>2. widget'[u] = var[u]
      BY <2>4, <3>1
    <3>3. QED
      BY <3>1, <3>2
  <2>5. QED
    BY <2>2, <2>3, <2>4
<1>4. QED
  BY <1>1, <1>2, <1>3 DEF WidgetsMade

LEMMA ConstructorKeeps ==
  ASSUME Values, Sound(graph), NEW f, InConstructor(f), Next
  PROVE  Values' /\ (InConstructor(Tail(f))' \/ (Settled' /\ Quiet'))
<1>1. /\ sets = 0 /\ stack = <<f>> /\ var = graph.initial
      /\ BuildPart(graph, f) /\ WidgetsMade(f) /\ ParametersGiven(f)
  BY ConstructorParts
<1>2. /\ stack # <<>> /\ stack[1] = f /\ Tail(stack) = <<>> /\ Rest = <<Tail(f)>>
      /\ Len(stack) = 1
  BY <1>1, OneCall DEF Rest
<1>3. /\ f \in Seq(Steps(graph))
      /\ \A i \in DOMAIN f : MakesWidget(graph, f[i]) \/ \E p \in DOMAIN graph.reads : f[i] = Give(p)
      /\ \A i \in DOMAIN f, v \in Variables : f[i] = Connect(v) => Untouched(f, i, v)
  BY <1>1 DEF BuildPart, Variables
<1>4. \A v \in Variables : var[v] # 0
  BY <1>1 DEF Sound, Variables
<1>5. CASE f = <<>>
  <2>1. stack' = <<>> /\ UNCHANGED <<graph, var, widget, connected, given, raised, sets>>
    BY <1>2, <1>5, ReturnOf DEF DoReturn
  <2>2. Live \subseteq DOMAIN given /\ AllFollow
    <3>1. \A p : ~HasGive(f, p)
      BY <1>5 DEF HasGive
    <3>2. QED
      BY <1>1, <3>1 DEF ParametersGiven, AllFollow, Follows
  <2>3. Settled
    BY <1>4, <2>2 DEF Settled
  <2>4. Variables' = Variables /\ Settled' /\ AllFollow'
    BY <2>1, <2>2, <2>3, SameValues
  <2>5. Values'
    BY <2>1, <2>4 DEF Values
  <2>6. \A u \in Variables : WidgetFollows(u)'
    <3>1. \A u \in Variables : WidgetFollows(u)
      BY <1>1 DEF WidgetsMade, WidgetFollows
    <3>2. QED
      BY <2>1, <3>1 DEF WidgetFollows
  <2>7. QED
    BY <2>1, <2>4, <2>5, <2>6 DEF Quiet
<1>6. CASE f # <<>>
  <2>1. 1 \in DOMAIN f
    BY <1>3, <1>6
  <2>2. BuildPart(graph, Tail(f))
    BY <1>1, <1>6, BuildRest
  <2>3. ASSUME stack' = Rest, UNCHANGED <<graph, var, sets>>, WidgetsMade(Tail(f))',
               ParametersGiven(Tail(f))'
        PROVE  InConstructor(Tail(f))'
    <3>1. PICK h : h = Tail(f)
      OBVIOUS
    <3>2. InConstructor(h)'
      BY <1>1, <1>2, <2>2, <2>3, <3>1, ConstructorPartsNext
    <3>3. QED
      BY <3>1, <3>2
  <2>4. ASSUME NEW v \in Variables, f[1] = Create(v)
        PROVE  Values' /\ InConstructor(Tail(f))'
    <3>1. DoCreate /\ On = v
      <4>1. stack[1] # <<>> /\ stack[1][1].op = "create" /\ stack[1][1].on = v
        BY <1>2, <1>6, <2>4, StepsDiffer
      <4>2. QED
        BY <1>2, <4>1, StepOf DEF On
    <3>2. PICK x \in 0 .. 2 : widget' = [widget EXCEPT ![v] = x]
      <4>1. PICK x : /\ x = CASE Kind(v) = "combo" -> 1 [] Kind(v) = "buttons" -> 0
                             [] OTHER -> var[v]
                     /\ widget' = [widget EXCEPT ![v] = x]
        BY <3>1 DEF DoCreate
      <4>2. x \in 0 .. 2
        BY <4>1 DEF Values
      <4>3. QED
        BY <4>1, <4>2
    <3>3. stack' = Rest /\ UNCHANGED <<graph, var, connected, given, raised, sets>>
      BY <3>1 DEF DoCreate
    <3>4. /\ widget' \in [Variables -> 0 .. 2]
          /\ \A u \in Variables \ {v} : widget'[u] = widget[u]
      BY <3>2 DEF Values
    <3>5. Values'
      BY <3>3, <3>4 DEF Values, Variables
    <3>6. WidgetsMade(Tail(f))'
      BY <1>1, <1>3, <1>6, <2>4, <3>3, <3>4, WidgetsStay DEF Values
    <3>7. ParametersGiven(Tail(f))'
      <4>1. GivesNone(f[1])
        BY <2>4, GivesNoneIs
      <4>2. QED
        BY <1>1, <1>3, <1>6, <3>3, <4>1, ParametersStay
    <3>8. QED
      BY <2>3, <3>3, <3>5, <3>6, <3>7
  <2>5. ASSUME NEW v \in Variables, f[1] = Show(v)
        PROVE  Values' /\ InConstructor(Tail(f))'
    <3>1. DoShow /\ Running("show") /\ On = v
      <4>1. stack[1] # <<>> /\ stack[1][1].op = "show" /\ stack[1][1].on = v
        BY <1>2, <1>6, <2>5, StepsDiffer
      <4>2. QED
        BY <1>2, <4>1, StepOf DEF Running, On
    <3>2. v \notin connected
      BY <1>1, <1>3, <1>6, <2>5, UntouchedRest DEF WidgetsMade
    <3>3. /\ stack' = Rest /\ UNCHANGED <<graph, var, connected, given, raised, sets>>
          /\ Values' /\ widget'[v] = var[v]
          /\ \A u \in Variables \ {v} : widget'[u] = widget[u]
      BY <1>4, <3>1, <3>2, ShowSets
    <3>4. WidgetsMade(Tail(f))'
      BY <1>1, <1>3, <1>6, <2>5, <3>3, WidgetsStay DEF Values
    <3>5. ParametersGiven(Tail(f))'
      <4>1. GivesNone(f[1])
        BY <2>5, GivesNoneIs
      <4>2. QED
        BY <1>1, <1>3, <1>6, <3>3, <4>1, ParametersStay
    <3>6. QED
      BY <2>3, <3>3, <3>4, <3>5
  <2>6. ASSUME NEW v \in Variables, f[1] = Connect(v)
        PROVE  Values' /\ InConstructor(Tail(f))'
    <3>1. DoConnect /\ On = v
      <4>1. stack[1] # <<>> /\ stack[1][1].op = "connect" /\ stack[1][1].on = v
        BY <1>2, <1>6, <2>6, StepsDiffer
      <4>2. QED
        BY <1>2, <4>1, StepOf DEF On
    <3>2. /\ connected' = connected \cup {v} /\ stack' = Rest
          /\ UNCHANGED <<graph, var, widget, given, raised, sets>>
      BY <3>1 DEF DoConnect
    <3>3. Values'
      BY <3>2 DEF Values, Variables
    <3>4. ASSUME NEW u \in connected' PROVE Untouched(Tail(f), 0, u) /\ WidgetFollows(u)'
      <4>1. CASE u \in connected
        <5>1. Untouched(f, 0, u) /\ WidgetFollows(u)
          BY <1>1, <4>1 DEF WidgetsMade
        <5>2. Untouched(Tail(f), 0, u)
          BY <1>3, <1>6, <5>1, UntouchedRest
        <5>3. QED
          BY <3>2, <4>1, <5>1, <5>2 DEF WidgetFollows
      <4>2. CASE u = v
        <5>1. Untouched(f, 1, v)
          BY <1>3, <2>1, <2>6
        <5>2. Untouched(Tail(f), 0, v)
          BY <1>3, <1>6, <5>1, UntouchedRest
        <5>3. Picks(graph, v) => widget[v] = var[v]
          BY <1>1, <1>3, <2>1, <2>6, NoneBeforeFirst DEF WidgetsMade
        <5>4. QED
          BY <3>2, <4>2, <5>2, <5>3 DEF WidgetFollows
      <4>3. QED
        BY <3>2, <4>1, <4>2
    <3>5. ASSUME NEW i \in DOMAIN Tail(f), NEW u \in Variables, Tail(f)[i] = Connect(u),
                 Picks(graph, u)
          PROVE  ShownBefore(Tail(f), i, u) \/ (widget[u] = var[u] /\ NotMade(Tail(f), u))
      <4>1. i + 1 \in DOMAIN f /\ f[i + 1] = Connect(u)
        BY <1>3, <1>6, <3>5, StepsBehind
      <4>2. ShownBefore(f, i + 1, u) \/ (widget[u] = var[u] /\ NotMade(f, u))
        BY <1>1, <3>5, <4>1 DEF WidgetsMade
      <4>3. ShownBefore(f, i + 1, u) => ShownBefore(Tail(f), i, u)
        <5>1. f[1] # Show(u)
          BY <2>6, StepsDiffer
        <5>2. QED
          BY <1>3, <1>6, <3>5, <5>1, ShownRest
      <4>4. NotMade(f, u) => NotMade(Tail(f), u)
        BY <1>3, <1>6, NotMadeRest
      <4>5. QED
        BY <4>2, <4>3, <4>4
    <3>6. WidgetsMade(Tail(f))'
      <4>1. Variables' = Variables
        BY <3>2 DEF Variables
      <4>2. QED
        BY <3>2, <3>4, <3>5, <4>1 DEF WidgetsMade
    <3>7. ParametersGiven(Tail(f))'
      <4>1. GivesNone(f[1])
        BY <2>6, GivesNoneIs
      <4>2. QED
        BY <1>1, <1>3, <1>6, <3>2, <4>1, ParametersStay
    <3>8. QED
      BY <2>3, <3>2, <3>3, <3>6, <3>7
  <2>7. ASSUME NEW p \in DOMAIN graph.reads, f[1] = Give(p)
        PROVE  Values' /\ InConstructor(Tail(f))'
    <3>1. DoGive /\ On = p
      <4>1. stack[1] # <<>> /\ stack[1][1].op = "give" /\ stack[1][1].on = p
        BY <1>2, <1>6, <2>7, StepsDiffer
      <4>2. QED
        BY <1>2, <4>1, StepOf DEF On
    <3>2. /\ given' = [q \in DOMAIN given \cup {p} |->
                         IF q = p THEN [u \in graph.reads[p] |-> var[u]] ELSE given[q]]
          /\ stack' = Rest /\ UNCHANGED <<graph, var, widget, connected, raised, sets>>
      BY <1>1, <1>2, <3>1 DEF DoGive, Constructing
    <3>3. /\ DOMAIN given' = DOMAIN given \cup {p}
          /\ given'[p] = [u \in graph.reads[p] |-> var[u]]
          /\ \A q \in DOMAIN given : q # p => given'[q] = given[q]
      BY <3>2
    <3>4. Values'
      <4>1. graph.reads[p] \subseteq Variables
        BY DEF Sound, Variables
      <4>2. given'[p] \in [graph.reads[p] -> 0 .. 2]
        BY <3>3, <4>1 DEF Values
      <4>3. \A q \in DOMAIN given' : given'[q] \in [graph.reads[q] -> 0 .. 2]
        BY <3>3, <4>2 DEF Values
      <4>4. QED
        BY <3>2, <3>3, <4>3 DEF Values, Variables
    <3>5. WidgetsMade(Tail(f))'
      <4>1. Variables' = Variables
        BY <3>2 DEF Variables
      <4>2. ASSUME NEW u \in connected PROVE Untouched(Tail(f), 0, u) /\ WidgetFollows(u)'
        BY <1>1, <1>3, <1>6, <3>2, UntouchedRest DEF WidgetsMade, WidgetFollows
      <4>3. ASSUME NEW i \in DOMAIN Tail(f), NEW u \in Variables, Tail(f)[i] = Connect(u),
                   Picks(graph, u)
            PROVE  ShownBefore(Tail(f), i, u) \/ (widget[u] = var[u] /\ NotMade(Tail(f), u))
        <5>1. i + 1 \in DOMAIN f /\ f[i + 1] = Connect(u)
          BY <1>3, <1>6, <4>3, StepsBehind
        <5>2. ShownBefore(f, i + 1, u) \/ (widget[u] = var[u] /\ NotMade(f, u))
          BY <1>1, <4>3, <5>1 DEF WidgetsMade
        <5>3. ShownBefore(f, i + 1, u) => ShownBefore(Tail(f), i, u)
          <6>1. f[1] # Show(u)
            BY <2>7, StepsDiffer
          <6>2. QED
            BY <1>3, <1>6, <4>3, <6>1, ShownRest
        <5>4. NotMade(f, u) => NotMade(Tail(f), u)
          BY <1>3, <1>6, NotMadeRest
        <5>5. QED
          BY <5>2, <5>3, <5>4
      <4>4. QED
        BY <3>2, <4>1, <4>2, <4>3 DEF WidgetsMade
    <3>6. ParametersGiven(Tail(f))'
      <4>1. Live' = Live
        BY <3>2 DEF Live, Variables
      <4>2. \A q \in Live : q \in DOMAIN given' \/ HasGive(Tail(f), q)
        <5>1. \A q : HasGive(f, q) /\ q # p => HasGive(Tail(f), q)
          BY <1>3, <1>6, <2>7, GiveBehind, StepsDiffer
        <5>2. QED
          BY <1>1, <3>3, <5>1 DEF ParametersGiven
      <4>3. \A q \in DOMAIN given' : \A u \in graph.reads[q] : given'[q][u] = var[u]
        BY <1>1, <3>3 DEF ParametersGiven
      <4>4. QED
        BY <3>2, <4>1, <4>2, <4>3 DEF ParametersGiven
    <3>7. QED
      BY <2>3, <3>2, <3>4, <3>5, <3>6
  <2>8. MakesWidget(graph, f[1]) \/ \E p \in DOMAIN graph.reads : f[1] = Give(p)
    BY <1>3, <2>1
  <2>9. QED
    BY <2>4, <2>5, <2>6, <2>7, <2>8 DEF MakesWidget, Variables
<1>7. QED
  BY <1>5, <1>6

-----------------------------------------------------------------------------
(* The invariant holds as long as the tables are sound.                    *)

LEMMA ConstructorStarts ==
  ASSUME Init, Sound(graph)
  PROVE  FlowInv
<1>1. /\ graph \in Graphs /\ var = graph.initial /\ widget = [v \in Variables |-> 0]
      /\ connected = {} /\ given = <<>> /\ stack = <<graph.init>> /\ raised = FALSE
      /\ sets = 0
  BY DEF Init
<1>2. DOMAIN given = {}
  BY <1>1
<1>3. Values
  <2>1. var \in [Variables -> 0 .. 2]
    <3>1. graph.initial \in [Variables -> {1, 2}]
      BY DEF Sound, Variables
    <3>2. QED
      BY <1>1, <3>1
  <2>2. widget \in [Variables -> 0 .. 2]
    BY <1>1
  <2>3. sets \in 0 .. MaxSets
    BY <1>1, SetsAssumption DEF SetsAssumption
  <2>4. QED
    BY <1>1, <1>2, <2>1, <2>2, <2>3 DEF Values
<1>4. BuildPart(graph, graph.init)
  BY DEF Sound, SoundConstructor
<1>5. WidgetsMade(graph.init)
  <2>1. ASSUME NEW i \in DOMAIN graph.init, NEW v \in Variables,
               graph.init[i] = Connect(v), Picks(graph, v)
        PROVE  ShownBefore(graph.init, i, v)
    BY <2>1 DEF Sound, SoundConstructor, Variables
  <2>2. QED
    BY <1>1, <2>1 DEF WidgetsMade
<1>6. ParametersGiven(graph.init)
  BY <1>2, LiveIs DEF Sound, ParametersGiven
<1>7. QED
  <2>1. PICK f : f = graph.init
    OBVIOUS
  <2>2. InConstructor(f)
    BY <1>1, <1>4, <1>5, <1>6, <2>1, ConstructorParts
  <2>3. QED
    BY <1>3, <2>2 DEF FlowInv

LEMMA FlowStep ==
  ASSUME FlowInv, Sound(graph), Next
  PROVE  FlowInv'
<1>1. Values
  BY DEF FlowInv
<1>2. ASSUME NEW f, InConstructor(f) PROVE FlowInv'
  <2>1. Values' /\ (InConstructor(Tail(f))' \/ (Settled' /\ Quiet'))
    BY <1>1, <1>2, ConstructorKeeps
  <2>2. QED
    BY <2>1 DEF FlowInv
<1>3. ASSUME Settled, Quiet PROVE FlowInv'
  <2>1. Values' /\ Settled' /\ (Quiet' \/ Setting')
    BY <1>1, <1>3, EventKeeps
  <2>2. QED
    BY <2>1 DEF FlowInv
<1>4. ASSUME Settled, Setting PROVE FlowInv'
  <2>1. PICK v \in Variables :
          (\E x : Called(v, x)) \/ (\E f : Within(v, f)) \/ (\E f, h : Nested(v, f, h))
    BY <1>4 DEF Setting
  <2>2. ASSUME NEW x, Called(v, x) PROVE Values' /\ Settled' /\ Setting'
    BY <1>1, <1>4, <2>2, AssignKeeps
  <2>3. ASSUME NEW f, Within(v, f) PROVE Values' /\ Settled' /\ (Quiet' \/ Setting')
    BY <1>1, <1>4, <2>3, WithinKeeps
  <2>4. ASSUME NEW f, NEW h, Nested(v, f, h) PROVE Values' /\ Settled' /\ Setting'
    BY <1>1, <1>4, <2>4, NestedKeeps
  <2>5. Values' /\ Settled' /\ (Quiet' \/ Setting')
    BY <2>1, <2>2, <2>3, <2>4
  <2>6. QED
    BY <2>5 DEF FlowInv
<1>5. QED
  BY <1>2, <1>3, <1>4 DEF FlowInv

LEMMA FlowStutters ==
  ASSUME FlowInv, UNCHANGED vars
  PROVE  FlowInv'
<1>1. /\ UNCHANGED <<graph, var, widget, connected, given, stack, raised, sets>>
      /\ Variables' = Variables /\ Live' = Live
  BY DEF vars, Variables, Live
<1>2. Values' /\ (Settled => Settled') /\ (Quiet => Quiet')
  BY <1>1, SameValues DEF FlowInv, Values, Quiet, WidgetFollows
<1>3. ASSUME NEW f, InConstructor(f) PROVE InConstructor(f)'
  BY <1>1, <1>3 DEF InConstructor, WidgetFollows
<1>4. ASSUME NEW v, NEW x, Called(v, x) PROVE Called(v, x)'
  BY <1>1, <1>4, SameValues DEF Called, Setter, WidgetFollows
<1>5. ASSUME NEW v, NEW f, Within(v, f) PROVE Within(v, f)'
  BY <1>1, <1>5, SameValues DEF Within, WidgetFollows
<1>6. ASSUME NEW v, NEW f, NEW h, Nested(v, f, h) PROVE Nested(v, f, h)'
  BY <1>1, <1>6, SameValues DEF Nested, Setter, WidgetFollows
<1>7. Setting => Setting'
  BY <1>1, <1>4, <1>5, <1>6 DEF Setting
<1>8. QED
  BY <1>2, <1>3, <1>7 DEF FlowInv

LEMMA FlowInvImplies ==
  FlowInv => BlocksFollow /\ WidgetsFollow /\ ConstructorUndisturbed
<1> SUFFICES ASSUME FlowInv PROVE BlocksFollow /\ WidgetsFollow /\ ConstructorUndisturbed
  OBVIOUS
<1>1. ConstructorUndisturbed
  BY DEF FlowInv, Values, ConstructorUndisturbed
<1>2. CASE ~Idle
  BY <1>1, <1>2 DEF BlocksFollow, WidgetsFollow
<1>3. CASE Idle
  <2>1. Settled /\ Quiet
    <3>1. \A f : ~InConstructor(f)
      BY <1>3, OneCall DEF InConstructor, Idle
    <3>2. ~Setting
      BY <1>3, OneCall, TwoCalls DEF Setting, Called, Within, Nested, Idle
    <3>3. QED
      BY <3>1, <3>2 DEF FlowInv
  <2>2. WidgetsFollow
    BY <2>1 DEF Quiet, WidgetsFollow, WidgetFollows, Picks, Kind, FlowInv, Values
  <2>3. ASSUME NEW p \in Live, NEW u \in graph.reads[p]
        PROVE  p \in DOMAIN given /\ (given[p][u] = var[u] \/ var[u] = 0)
    BY <2>1 DEF Settled, Quiet, AllFollow, Follows
  <2>4. ASSUME NEW v \in Variables, NEW p \in Live, NEW q \in Live,
               graph.reads[p] = {v}, graph.reads[q] = {v}
        PROVE  given[p] = given[q]
    <3>1. CASE var[v] = 0
      BY <2>1, <2>4, <3>1 DEF Settled, Alike
    <3>2. CASE var[v] # 0
      <4>1. given[p][v] = var[v] /\ given[q][v] = var[v]
        BY <2>3, <2>4, <3>2
      <4>2. given[p] \in [{v} -> 0 .. 2] /\ given[q] \in [{v} -> 0 .. 2]
        BY <2>3, <2>4 DEF FlowInv, Values, Settled
      <4>3. QED
        BY <4>1, <4>2
    <3>3. QED
      BY <3>1, <3>2
  <2>5. QED
    BY <1>1, <2>2, <2>3, <2>4 DEF BlocksFollow
<1>4. QED
  BY <1>2, <1>3

-----------------------------------------------------------------------------
(* The tables are sound.  A piece of a constructor makes the widgets of V  *)
(* and gives the parameters of P.                                          *)

WidgetStep(step, v) == step \in {Create(v), Show(v), Connect(v)}

Builds(f, V, P) ==
  \A i \in DOMAIN f : (\E v \in V : WidgetStep(f[i], v)) \/ (\E p \in P : f[i] = Give(p))

Wired(g, f, i, v) ==
  f[i] = Connect(v) => Untouched(f, i, v) /\ (Picks(g, v) => ShownBefore(f, i, v))

Piece(g, f, V, P) ==
  /\ V \subseteq DOMAIN g.widgets /\ P \subseteq DOMAIN g.reads
  /\ f \in Seq(Steps(g)) /\ Builds(f, V, P)
  /\ \A i \in DOMAIN f, v \in V : Wired(g, f, i, v)
  /\ \A p \in P : HasGive(f, p)

LEMMA JoinIs ==
  ASSUME NEW S, NEW f \in Seq(S), NEW h \in Seq(S)
  PROVE  /\ f \o h \in Seq(S)
         /\ \A i \in DOMAIN (f \o h) :
              \/ i \in DOMAIN f /\ (f \o h)[i] = f[i]
              \/ i > Len(f) /\ i - Len(f) \in DOMAIN h /\ (f \o h)[i] = h[i - Len(f)]
         /\ \A i \in DOMAIN f : i \in DOMAIN (f \o h) /\ (f \o h)[i] = f[i] /\ i <= Len(f)
         /\ \A i \in DOMAIN h :
              i + Len(f) \in DOMAIN (f \o h) /\ (f \o h)[i + Len(f)] = h[i] /\ i > 0
<1>1. PICK k : k = f \o h
  OBVIOUS
<1>2. /\ k \in Seq(S) /\ Len(k) = Len(f) + Len(h)
      /\ \A i \in 1 .. Len(f) + Len(h) : k[i] = IF i <= Len(f) THEN f[i] ELSE h[i - Len(f)]
  BY <1>1, ConcatProperties, Zenon
<1>3. DOMAIN k = 1 .. Len(f) + Len(h) /\ DOMAIN f = 1 .. Len(f) /\ DOMAIN h = 1 .. Len(h)
  BY <1>2
<1>4. Len(f) \in Nat /\ Len(h) \in Nat
  OBVIOUS
<1>5. \A i \in DOMAIN k :
        \/ i \in DOMAIN f /\ k[i] = f[i]
        \/ i > Len(f) /\ i - Len(f) \in DOMAIN h /\ k[i] = h[i - Len(f)]
  BY <1>2, <1>3, <1>4
<1>6. \A i \in DOMAIN f : i \in DOMAIN k /\ k[i] = f[i] /\ i <= Len(f)
  BY <1>2, <1>3, <1>4
<1>7. \A i \in DOMAIN h : i + Len(f) \in DOMAIN k /\ k[i + Len(f)] = h[i] /\ i > 0
  <2>1. ASSUME NEW i \in DOMAIN h
        PROVE  i + Len(f) \in DOMAIN k /\ k[i + Len(f)] = h[i] /\ i > 0
    <3>1. PICK j : j = i + Len(f)
      OBVIOUS
    <3>2. j \in 1 .. Len(f) + Len(h) /\ ~(j <= Len(f)) /\ j - Len(f) = i /\ i > 0
      BY <1>3, <1>4, <3>1
    <3>3. k[j] = h[i]
      BY <1>2, <3>2
    <3>4. QED
      BY <1>3, <3>1, <3>2, <3>3
  <2>2. QED
    BY <2>1
<1>8. QED
  BY <1>1, <1>2, <1>5, <1>6, <1>7

LEMMA PieceMakes ==
  ASSUME NEW g, NEW f, NEW V, NEW P, Piece(g, f, V, P), NEW i \in DOMAIN f, NEW v,
         WidgetStep(f[i], v)
  PROVE  v \in V
<1>1. (\E u \in V : WidgetStep(f[i], u)) \/ (\E p \in P : f[i] = Give(p))
  BY DEF Piece, Builds
<1>2. \A p : f[i] # Give(p)
  BY StepsDiffer DEF WidgetStep
<1>3. PICK u \in V : WidgetStep(f[i], u)
  BY <1>1, <1>2
<1>4. u = v
  BY <1>3, StepsDiffer DEF WidgetStep
<1>5. QED
  BY <1>4

LEMMA PiecesJoin ==
  ASSUME NEW g, NEW f, NEW h, NEW V, NEW W, NEW P, NEW Q,
         Piece(g, f, V, P), Piece(g, h, W, Q), V \cap W = {}
  PROVE  Piece(g, f \o h, V \cup W, P \cup Q)
<1>1. PICK k, n : k = f \o h /\ n = Len(f)
  OBVIOUS
<1>2. /\ f \in Seq(Steps(g)) /\ h \in Seq(Steps(g)) /\ k \in Seq(Steps(g)) /\ n \in Nat
      /\ V \subseteq DOMAIN g.widgets /\ W \subseteq DOMAIN g.widgets
      /\ P \subseteq DOMAIN g.reads /\ Q \subseteq DOMAIN g.reads
  BY <1>1, JoinIs DEF Piece
<1>3. \A i \in DOMAIN k :
        \/ i \in DOMAIN f /\ k[i] = f[i] /\ i <= n
        \/ i > n /\ i - n \in DOMAIN h /\ k[i] = h[i - n]
  BY <1>1, <1>2, JoinIs
<1>4. \A i \in DOMAIN f : i \in DOMAIN k /\ k[i] = f[i] /\ i <= n
  BY <1>1, <1>2, JoinIs
<1>5. \A i \in DOMAIN h : i + n \in DOMAIN k /\ k[i + n] = h[i] /\ i > 0
  BY <1>1, <1>2, JoinIs
<1>6. Builds(k, V \cup W, P \cup Q)
  <2>1. Builds(f, V, P) /\ Builds(h, W, Q)
    BY DEF Piece
  <2>2. QED
    BY <1>3, <2>1 DEF Builds
<1>7. ASSUME NEW p \in P \cup Q PROVE HasGive(k, p)
  <2>1. HasGive(f, p) \/ HasGive(h, p)
    BY <1>7 DEF Piece
  <2>2. QED
    BY <1>4, <1>5, <2>1 DEF HasGive
<1>8. ASSUME NEW i \in DOMAIN k, NEW v \in V \cup W, k[i] = Connect(v)
      PROVE  Untouched(k, i, v) /\ (Picks(g, v) => ShownBefore(k, i, v))
  <2>1. CASE i \in DOMAIN f /\ k[i] = f[i] /\ i <= n
    <3>1. v \in V /\ v \notin W
      <4>1. WidgetStep(f[i], v)
        BY <1>8, <2>1 DEF WidgetStep
      <4>2. QED
        BY <2>1, <4>1, PieceMakes, Zenon
    <3>2. Untouched(f, i, v) /\ (Picks(g, v) => ShownBefore(f, i, v))
      BY <1>8, <2>1, <3>1 DEF Piece, Wired
    <3>3. \A j \in DOMAIN h : h[j] # Create(v) /\ h[j] # Show(v)
      <4>1. \A j \in DOMAIN h : ~WidgetStep(h[j], v)
        BY <3>1, PieceMakes, Zenon
      <4>2. QED
        BY <4>1 DEF WidgetStep
    <3>4. Untouched(k, i, v)
      BY <1>3, <3>2, <3>3 DEF Untouched
    <3>5. ASSUME Picks(g, v) PROVE ShownBefore(k, i, v)
      <4>1. PICK j \in DOMAIN f :
              j < i /\ f[j] = Show(v) /\ \A m \in DOMAIN f : m > j => f[m] # Create(v)
        BY <3>2, <3>5 DEF ShownBefore
      <4>2. \A m \in DOMAIN k : m > j => k[m] # Create(v)
        BY <1>3, <3>3, <4>1
      <4>3. QED
        BY <1>4, <4>1, <4>2 DEF ShownBefore
    <3>6. QED
      BY <3>4, <3>5
  <2>2. CASE i > n /\ i - n \in DOMAIN h /\ k[i] = h[i - n]
    <3>1. PICK r \in DOMAIN h : r = i - n
      BY <2>2
    <3>2. v \in W /\ v \notin V
      <4>1. WidgetStep(h[r], v)
        BY <1>8, <2>2, <3>1 DEF WidgetStep
      <4>2. QED
        BY <4>1, PieceMakes, Zenon
    <3>3. i \in Int /\ r \in Int /\ i = r + n
      BY <1>2, <2>2, <3>1
    <3>4. Untouched(h, r, v) /\ (Picks(g, v) => ShownBefore(h, r, v))
      BY <1>8, <2>2, <3>1, <3>2 DEF Piece, Wired
    <3>5. Untouched(k, i, v)
      <4>1. ASSUME NEW j \in DOMAIN k, j > i PROVE k[j] # Create(v) /\ k[j] # Show(v)
        <5>1. j \in Int
          BY <1>2, <4>1
        <5>2. ~(j <= n)
          BY <1>2, <2>2, <3>3, <4>1, <5>1
        <5>3. j - n \in DOMAIN h /\ k[j] = h[j - n]
          BY <1>3, <5>2
        <5>4. j - n > r
          BY <1>2, <3>3, <4>1, <5>1
        <5>5. QED
          BY <3>4, <5>3, <5>4 DEF Untouched
      <4>2. QED
        BY <4>1 DEF Untouched
    <3>6. ASSUME Picks(g, v) PROVE ShownBefore(k, i, v)
      <4>1. PICK j \in DOMAIN h :
              j < r /\ h[j] = Show(v) /\ \A m \in DOMAIN h : m > j => h[m] # Create(v)
        BY <3>4, <3>6 DEF ShownBefore
      <4>2. j \in Int /\ j > 0
        BY <1>2, <1>5
      <4>3. ASSUME NEW m \in DOMAIN k, m > j + n PROVE k[m] # Create(v)
        <5>1. m \in Int
          BY <1>2
        <5>2. ~(m <= n)
          BY <1>2, <4>2, <4>3, <5>1
        <5>3. m - n \in DOMAIN h /\ k[m] = h[m - n]
          BY <1>3, <5>2
        <5>4. m - n > j
          BY <1>2, <4>2, <4>3, <5>1
        <5>5. QED
          BY <4>1, <5>3, <5>4
      <4>4. j + n \in DOMAIN k /\ k[j + n] = Show(v)
        BY <1>5, <4>1
      <4>5. j + n < i
        BY <1>2, <3>3, <4>1, <4>2
      <4>6. QED
        BY <4>3, <4>4, <4>5 DEF ShownBefore
    <3>7. QED
      BY <3>5, <3>6
  <2>3. QED
    BY <1>3, <2>1, <2>2
<1>9. Piece(g, k, V \cup W, P \cup Q)
  BY <1>2, <1>6, <1>7, <1>8 DEF Piece, Wired
<1>10. QED
  BY <1>1, <1>9

LEMMA PieceOfChooser ==
  ASSUME NEW g, NEW v \in DOMAIN g.widgets
  PROVE  Piece(g, Chooser(v), {v}, {})
<1>1. PICK f : f = <<Create(v), Show(v), Connect(v)>>
  OBVIOUS
<1>2. /\ Create(v) \in Steps(g) /\ Show(v) \in Steps(g) /\ Connect(v) \in Steps(g)
  BY DEF Steps, Create, Show, Connect
<1>3. f \in Seq(Steps(g))
  BY <1>1, <1>2
<1>4. DOMAIN f = 1 .. 3 /\ f[1] = Create(v) /\ f[2] = Show(v) /\ f[3] = Connect(v)
  BY <1>1
<1>5. Builds(f, {v}, {})
  BY <1>4 DEF Builds, WidgetStep
<1>6. ASSUME NEW i \in DOMAIN f, f[i] = Connect(v)
      PROVE  Untouched(f, i, v) /\ ShownBefore(f, i, v)
  <2>1. i = 3
    <3>1. f[1] # Connect(v) /\ f[2] # Connect(v)
      BY <1>4, StepsDiffer
    <3>2. QED
      BY <1>4, <1>6, <3>1
  <2>2. Untouched(f, 3, v)
    BY <1>4 DEF Untouched
  <2>3. ShownBefore(f, 3, v)
    <3>1. f[3] # Create(v)
      BY <1>4, StepsDiffer
    <3>2. \A k \in DOMAIN f : k > 2 => f[k] # Create(v)
      BY <1>4, <3>1
    <3>3. 2 \in DOMAIN f /\ 2 < 3 /\ f[2] = Show(v)
      BY <1>4
    <3>4. QED
      BY <3>2, <3>3 DEF ShownBefore
  <2>4. QED
    BY <2>1, <2>2, <2>3
<1>7. Piece(g, f, {v}, {})
  BY <1>3, <1>5, <1>6 DEF Piece, Wired
<1>8. QED
  BY <1>1, <1>7 DEF Chooser

LEMMA PieceOfEntry ==
  ASSUME NEW g, NEW v \in DOMAIN g.widgets, ~Picks(g, v)
  PROVE  Piece(g, Entry(v), {v}, {})
<1>1. PICK f : f = <<Create(v), Connect(v)>>
  OBVIOUS
<1>2. Create(v) \in Steps(g) /\ Connect(v) \in Steps(g)
  BY DEF Steps, Create, Connect
<1>3. f \in Seq(Steps(g))
  BY <1>1, <1>2
<1>4. DOMAIN f = 1 .. 2 /\ f[1] = Create(v) /\ f[2] = Connect(v)
  BY <1>1
<1>5. Builds(f, {v}, {})
  BY <1>4 DEF Builds, WidgetStep
<1>6. ASSUME NEW i \in DOMAIN f, f[i] = Connect(v)
      PROVE  Untouched(f, i, v)
  <2>1. i = 2
    BY <1>4, <1>6, StepsDiffer
  <2>2. QED
    BY <1>4, <2>1 DEF Untouched
<1>7. Piece(g, f, {v}, {})
  BY <1>3, <1>5, <1>6 DEF Piece, Wired
<1>8. QED
  BY <1>1, <1>7 DEF Entry

(* A sequence of names and the set of its elements.                        *)
Lists(ps, P) == ps \in Seq(P) /\ \A p \in P : \E i \in DOMAIN ps : ps[i] = p

LEMMA ListsTwo ==
  ASSUME NEW a, NEW b
  PROVE  Lists(<<a, b>>, {a, b})
<1>1. PICK ps : ps = <<a, b>>
  OBVIOUS
<1>2. ps \in Seq({a, b}) /\ DOMAIN ps = 1 .. 2 /\ ps[1] = a /\ ps[2] = b
  BY <1>1
<1>3. Lists(ps, {a, b})
  BY <1>2 DEF Lists
<1>4. QED
  BY <1>1, <1>3

LEMMA PieceOfGives ==
  ASSUME NEW g, NEW P, P \subseteq DOMAIN g.reads, NEW ps, Lists(ps, P)
  PROVE  Piece(g, GiveAll(ps), {}, P)
<1>1. PICK f : f = [i \in DOMAIN ps |-> Give(ps[i])]
  OBVIOUS
<1>2. /\ DOMAIN f = 1 .. Len(ps) /\ DOMAIN ps = 1 .. Len(ps) /\ Len(ps) \in Nat
      /\ \A i \in DOMAIN f : ps[i] \in P /\ f[i] = Give(ps[i])
      /\ \A p \in P : \E i \in DOMAIN ps : ps[i] = p
  BY <1>1 DEF Lists
<1>3. \A p \in P : Give(p) \in Steps(g)
  BY DEF Steps, Give
<1>4. f \in Seq(Steps(g))
  <2>1. f \in [1 .. Len(ps) -> Steps(g)]
    BY <1>1, <1>2, <1>3
  <2>2. QED
    BY <1>2, <2>1, SeqDef
<1>5. Builds(f, {}, P)
  BY <1>2 DEF Builds
<1>6. \A p \in P : HasGive(f, p)
  BY <1>2 DEF HasGive
<1>7. Piece(g, f, {}, P)
  BY <1>4, <1>5, <1>6 DEF Piece
<1>8. QED
  BY <1>1, <1>7 DEF GiveAll

(* One more widget, or the parameters                                      *)
LEMMA PieceThenChooser ==
  ASSUME NEW g, NEW f, NEW V, NEW P, Piece(g, f, V, P), NEW v \in DOMAIN g.widgets,
         v \notin V
  PROVE  Piece(g, f \o Chooser(v), V \cup {v}, P)
<1>1. Piece(g, Chooser(v), {v}, {}) /\ V \cap {v} = {} /\ P \cup {} = P
  BY PieceOfChooser
<1>2. Piece(g, f \o Chooser(v), V \cup {v}, P \cup {})
  BY <1>1, PiecesJoin
<1>3. QED
  BY <1>1, <1>2

LEMMA PieceThenEntry ==
  ASSUME NEW g, NEW f, NEW V, NEW P, Piece(g, f, V, P), NEW v \in DOMAIN g.widgets,
         ~Picks(g, v), v \notin V
  PROVE  Piece(g, f \o Entry(v), V \cup {v}, P)
<1>1. Piece(g, Entry(v), {v}, {}) /\ V \cap {v} = {} /\ P \cup {} = P
  BY PieceOfEntry
<1>2. Piece(g, f \o Entry(v), V \cup {v}, P \cup {})
  BY <1>1, PiecesJoin
<1>3. QED
  BY <1>1, <1>2

LEMMA PieceThenGives ==
  ASSUME NEW g, NEW f, NEW V, Piece(g, f, V, {}), NEW P, P \subseteq DOMAIN g.reads,
         NEW ps, Lists(ps, P)
  PROVE  Piece(g, f \o GiveAll(ps), V, P)
<1>1. Piece(g, GiveAll(ps), {}, P) /\ V \cap {} = {} /\ V \cup {} = V /\ {} \cup P = P
  BY PieceOfGives
<1>2. Piece(g, f \o GiveAll(ps), V \cup {}, {} \cup P)
  BY <1>1, PiecesJoin
<1>3. QED
  BY <1>1, <1>2

LEMMA PieceThenGive ==
  ASSUME NEW g, NEW f, NEW V, NEW P, Piece(g, f, V, P), NEW p \in DOMAIN g.reads
  PROVE  Piece(g, f \o <<Give(p)>>, V, P \cup {p})
<1>1. PICK h : h = <<Give(p)>>
  OBVIOUS
<1>2. Give(p) \in Steps(g)
  BY DEF Steps, Give
<1>3. h \in Seq(Steps(g)) /\ DOMAIN h = 1 .. 1 /\ h[1] = Give(p)
  BY <1>1, <1>2
<1>4. Piece(g, h, {}, {p})
  BY <1>3 DEF Piece, Builds, HasGive
<1>5. V \cap {} = {} /\ V \cup {} = V
  OBVIOUS
<1>6. Piece(g, f \o h, V \cup {}, P \cup {p})
  BY <1>4, <1>5, PiecesJoin
<1>7. QED
  BY <1>1, <1>5, <1>6

(* A constructor that is a piece is sound.                                 *)
LEMMA PieceConstructs ==
  ASSUME NEW g, NEW f, NEW V, NEW P, Piece(g, f, V, P)
  PROVE  SoundConstructor(g, f)
<1>1. /\ V \subseteq DOMAIN g.widgets /\ P \subseteq DOMAIN g.reads
      /\ f \in Seq(Steps(g)) /\ Builds(f, V, P)
      /\ \A i \in DOMAIN f, v \in V : Wired(g, f, i, v)
  BY DEF Piece
<1>2. ASSUME NEW i \in DOMAIN f
      PROVE  MakesWidget(g, f[i]) \/ \E p \in DOMAIN g.reads : f[i] = Give(p)
  BY <1>1 DEF Builds, WidgetStep, MakesWidget
<1>3. ASSUME NEW i \in DOMAIN f, NEW v \in DOMAIN g.widgets, f[i] = Connect(v)
      PROVE  Untouched(f, i, v) /\ (Picks(g, v) => ShownBefore(f, i, v))
  <2>1. v \in V
    <3>1. WidgetStep(f[i], v)
      BY <1>3 DEF WidgetStep
    <3>2. QED
      BY <3>1, PieceMakes, Zenon
  <2>2. QED
    BY <1>1, <1>3, <2>1 DEF Wired
<1>4. QED
  BY <1>1, <1>2, <1>3 DEF SoundConstructor, BuildPart

IsSequence(f) == \E S : f \in Seq(S)

LEMMA SequenceIs ==
  ASSUME NEW S, NEW f \in Seq(S)
  PROVE  IsSequence(f)
BY Zenon DEF IsSequence

(* A setter of v may show it first, and gives the parameters of G.         *)
Offers(f, v, G) ==
  /\ IsSequence(f)
  /\ \A i \in DOMAIN f : (i = 1 /\ f[i] = Show(v)) \/ \E p \in G : f[i] = Give(p)
  /\ \A p \in G : HasGive(f, p)

LEMMA OffersGiveAll ==
  ASSUME NEW v, NEW G, NEW ps, Lists(ps, G)
  PROVE  Offers(GiveAll(ps), v, G)
<1>1. PICK f : f = [i \in DOMAIN ps |-> Give(ps[i])]
  OBVIOUS
<1>2. /\ DOMAIN f = 1 .. Len(ps) /\ DOMAIN ps = 1 .. Len(ps) /\ Len(ps) \in Nat
      /\ \A i \in DOMAIN f : ps[i] \in G /\ f[i] = Give(ps[i])
      /\ \A p \in G : \E i \in DOMAIN ps : ps[i] = p
  BY <1>1 DEF Lists
<1>3. IsSequence(f)
  <2>1. PICK S : S = {Give(p) : p \in G}
    OBVIOUS
  <2>2. \A p \in G : Give(p) \in S
    BY <2>1
  <2>3. f \in [1 .. Len(ps) -> S]
    BY <1>1, <1>2, <2>2
  <2>4. f \in Seq(S)
    BY <1>2, <2>3, SeqDef
  <2>5. QED
    BY <2>4, SequenceIs
<1>4. \A i \in DOMAIN f : \E p \in G : f[i] = Give(p)
  BY <1>2
<1>5. \A p \in G : HasGive(f, p)
  BY <1>2 DEF HasGive
<1>6. QED
  BY <1>1, <1>3, <1>4, <1>5 DEF Offers, GiveAll

LEMMA OffersNone ==
  ASSUME NEW v
  PROVE  Offers(<<>>, v, {}) /\ Offers(<<Show(v)>>, v, {}) /\ ShowsFirst(v, <<Show(v)>>)
<1>1. PICK f, h : f = <<>> /\ h = <<Show(v)>>
  OBVIOUS
<1>2. IsSequence(f) /\ IsSequence(h)
  <2>1. f \in Seq({Show(v)}) /\ h \in Seq({Show(v)})
    BY <1>1
  <2>2. QED
    BY <2>1, SequenceIs
<1>3. DOMAIN f = {} /\ DOMAIN h = 1 .. 1 /\ h[1] = Show(v)
  BY <1>1
<1>4. Offers(f, v, {}) /\ Offers(h, v, {})
  BY <1>2, <1>3 DEF Offers
<1>5. ShowsFirst(v, h)
  BY <1>1 DEF ShowsFirst
<1>6. QED
  BY <1>1, <1>4, <1>5

LEMMA OffersOne ==
  ASSUME NEW v, NEW a
  PROVE  /\ Offers(<<Give(a)>>, v, {a})
         /\ Offers(<<Show(v), Give(a)>>, v, {a}) /\ ShowsFirst(v, <<Show(v), Give(a)>>)
<1>1. PICK f, h : f = <<Give(a)>> /\ h = <<Show(v), Give(a)>>
  OBVIOUS
<1>2. IsSequence(f) /\ IsSequence(h)
  <2>1. f \in Seq({Show(v), Give(a)}) /\ h \in Seq({Show(v), Give(a)})
    BY <1>1
  <2>2. QED
    BY <2>1, SequenceIs
<1>3. /\ DOMAIN f = 1 .. 1 /\ DOMAIN h = 1 .. 2
      /\ f[1] = Give(a) /\ h[1] = Show(v) /\ h[2] = Give(a)
  BY <1>1
<1>4. Offers(f, v, {a}) /\ Offers(h, v, {a}) /\ ShowsFirst(v, h)
  BY <1>2, <1>3 DEF Offers, HasGive, ShowsFirst
<1>5. QED
  BY <1>1, <1>4

LEMMA OffersTwo ==
  ASSUME NEW v, NEW a, NEW b
  PROVE  /\ Offers(<<Show(v), Give(a), Give(b)>>, v, {a, b})
         /\ ShowsFirst(v, <<Show(v), Give(a), Give(b)>>)
<1>1. PICK f : f = <<Show(v), Give(a), Give(b)>>
  OBVIOUS
<1>2. IsSequence(f)
  <2>1. f \in Seq({Show(v), Give(a), Give(b)})
    BY <1>1
  <2>2. QED
    BY <2>1, SequenceIs
<1>3. /\ DOMAIN f = 1 .. 3
      /\ f[1] = Show(v) /\ f[2] = Give(a) /\ f[3] = Give(b)
  BY <1>1
<1>4. Offers(f, v, {a, b}) /\ ShowsFirst(v, f)
  BY <1>2, <1>3 DEF Offers, HasGive, ShowsFirst
<1>5. QED
  BY <1>1, <1>4

LEMMA OffersThree ==
  ASSUME NEW v, NEW a, NEW b, NEW c
  PROVE  /\ Offers(<<Show(v), Give(a), Give(b), Give(c)>>, v, {a, b, c})
         /\ ShowsFirst(v, <<Show(v), Give(a), Give(b), Give(c)>>)
<1>1. PICK f : f = <<Show(v), Give(a), Give(b), Give(c)>>
  OBVIOUS
<1>2. IsSequence(f)
  <2>1. f \in Seq({Show(v), Give(a), Give(b), Give(c)})
    BY <1>1
  <2>2. QED
    BY <2>1, SequenceIs
<1>3. /\ DOMAIN f = 1 .. 4
      /\ f[1] = Show(v) /\ f[2] = Give(a) /\ f[3] = Give(b) /\ f[4] = Give(c)
  BY <1>1
<1>4. Offers(f, v, {a, b, c}) /\ ShowsFirst(v, f)
  BY <1>2, <1>3 DEF Offers, HasGive, ShowsFirst
<1>5. QED
  BY <1>1, <1>4

LEMMA OffersFour ==
  ASSUME NEW v, NEW a, NEW b, NEW c, NEW d
  PROVE  /\ Offers(<<Show(v), Give(a), Give(b), Give(c), Give(d)>>, v, {a, b, c, d})
         /\ ShowsFirst(v, <<Show(v), Give(a), Give(b), Give(c), Give(d)>>)
<1>1. PICK f : f = <<Show(v), Give(a), Give(b), Give(c), Give(d)>>
  OBVIOUS
<1>2. IsSequence(f)
  <2>1. f \in Seq({Show(v), Give(a), Give(b), Give(c), Give(d)})
    BY <1>1
  <2>2. QED
    BY <2>1, SequenceIs
<1>3. /\ DOMAIN f = 1 .. 5
      /\ f[1] = Show(v) /\ f[2] = Give(a) /\ f[3] = Give(b) /\ f[4] = Give(c)
      /\ f[5] = Give(d)
  BY <1>1
<1>4. Offers(f, v, {a, b, c, d}) /\ ShowsFirst(v, f)
  BY <1>2, <1>3 DEF Offers, HasGive, ShowsFirst
<1>5. QED
  BY <1>1, <1>4

(* Each setter gives what G lists, and all that is computed from its       *)
(* variable if any setter gives it.                                        *)
Offered(g, G) ==
  \A v \in DOMAIN g.widgets :
    /\ Offers(g.setters[v], v, G[v])
    /\ Picks(g, v) => ShowsFirst(v, g.setters[v])

Complete(g, G) ==
  \A v \in DOMAIN g.widgets : \A p \in G[v] :
    /\ p \in DOMAIN g.reads /\ v \in g.reads[p]
    /\ \A u \in g.reads[p] : p \in G[u]

LEMMA OffersSound ==
  ASSUME NEW g, NEW G, Offered(g, G), Complete(g, G), NEW v \in DOMAIN g.widgets
  PROVE  SoundSetter(g, v)
<1>1. PICK f : f = g.setters[v]
  OBVIOUS
<1>2. /\ IsSequence(f)
      /\ \A i \in DOMAIN f : (i = 1 /\ f[i] = Show(v)) \/ \E p \in G[v] : f[i] = Give(p)
      /\ \A p \in G[v] : HasGive(f, p)
      /\ Picks(g, v) => ShowsFirst(v, f)
  BY <1>1 DEF Offered, Offers
<1>3. \A p \in G[v] : Settable(g, p) /\ p \in DOMAIN g.reads /\ v \in g.reads[p]
  BY <1>1, <1>2 DEF Settable, Complete
<1>4. \A i \in DOMAIN f : (i = 1 /\ f[i] = Show(v)) \/ Gives(g, v, f[i])
  BY <1>2, <1>3 DEF Gives
<1>5. f \in Seq(Steps(g))
  <2>1. Show(v) \in Steps(g) /\ \A p \in DOMAIN g.reads : Give(p) \in Steps(g)
    BY DEF Steps, Show, Give
  <2>2. \A i \in DOMAIN f : f[i] \in Steps(g)
    BY <1>4, <2>1 DEF Gives
  <2>3. PICK S : f \in Seq(S)
    BY <1>2 DEF IsSequence
  <2>4. f \in [1 .. Len(f) -> Steps(g)] /\ Len(f) \in Nat
    BY <2>2, <2>3
  <2>5. QED
    BY <2>4, SeqDef
<1>6. ASSUME NEW p \in DOMAIN g.reads, Settable(g, p), v \in g.reads[p]
      PROVE  HasGive(f, p)
  <2>1. PICK u \in DOMAIN g.widgets : HasGive(g.setters[u], p)
    BY <1>6 DEF Settable
  <2>2. PICK i \in DOMAIN g.setters[u] : g.setters[u][i] = Give(p)
    BY <2>1 DEF HasGive
  <2>3. PICK q \in G[u] : g.setters[u][i] = Give(q)
    <3>1. Offers(g.setters[u], u, G[u])
      BY DEF Offered
    <3>2. (i = 1 /\ g.setters[u][i] = Show(u)) \/ \E q \in G[u] : g.setters[u][i] = Give(q)
      BY <3>1 DEF Offers
    <3>3. g.setters[u][i] # Show(u)
      BY <2>2, StepsDiffer
    <3>4. QED
      BY <3>2, <3>3
  <2>4. p \in G[u]
    <3>1. Give(p) = Give(q)
      BY <2>2, <2>3
    <3>2. p = q
      BY <3>1 DEF Give
    <3>3. QED
      BY <3>2
  <2>5. p \in G[v]
    BY <1>6, <2>4 DEF Complete
  <2>6. QED
    BY <1>2, <2>5
<1>7. QED
  BY <1>1, <1>2, <1>4, <1>5, <1>6 DEF SoundSetter, SetterPart

(* All of a table                                                          *)
LEMMA TablesSound ==
  ASSUME NEW g, NEW G, Offered(g, G), Complete(g, G), NEW V, Piece(g, g.init, V, DOMAIN g.reads),
         g.initial \in [DOMAIN g.widgets -> {1, 2}],
         \A p \in DOMAIN g.reads : g.reads[p] \subseteq DOMAIN g.widgets
  PROVE  Sound(g)
<1>1. SoundConstructor(g, g.init)
  BY PieceConstructs
<1>2. \A p \in DOMAIN g.reads : HasGive(g.init, p)
  BY DEF Piece
<1>3. \A v \in DOMAIN g.widgets : SoundSetter(g, v)
  BY OffersSound
<1>4. QED
  BY <1>1, <1>2, <1>3 DEF Sound

-----------------------------------------------------------------------------
(* wifi_rx.py: the parameters that each setter gives                       *)

rx_gives ==
  [ window_size |-> {"average_1_length", "average_0_length"},
    sync_length |-> {"delay_dly"},
    samp_rate   |-> {"usrp_samp_rate", "time_sink_samp_rate", "equalizer_bandwidth"},
    lo_offset   |-> {"usrp_center_freq"},
    gain        |-> {"usrp_gain"},
    freq        |-> {"usrp_center_freq", "equalizer_frequency"},
    chan_est    |-> {"equalizer_algorithm"} ]

LEMMA RxIs ==
  /\ wifi_rx.widgets = rx_widgets
  /\ wifi_rx.initial = rx_initial
  /\ wifi_rx.reads = rx_reads
  /\ wifi_rx.init = rx_init
  /\ wifi_rx.setters = rx_setters
BY DEF wifi_rx, Graph

LEMMA RxVariables ==
  /\ DOMAIN rx_widgets =
        {"window_size", "sync_length", "samp_rate", "lo_offset", "gain", "freq",
          "chan_est"}
  /\ \A v \in DOMAIN rx_widgets :
       Picks(wifi_rx, v) <=> v \in {"samp_rate", "lo_offset", "freq", "chan_est"}
<1>1. DOMAIN rx_widgets =
        {"window_size", "sync_length", "samp_rate", "lo_offset", "gain", "freq",
          "chan_est"}
  BY DEF rx_widgets
<1>2. QED
  BY <1>1, RxIs DEF Picks, rx_widgets

LEMMA RxOffered == Offered(wifi_rx, rx_gives)
<1>1. Offers(rx_setters["window_size"], "window_size", rx_gives["window_size"])
  <2>1. /\ rx_setters["window_size"] = GiveAll(<<"average_1_length", "average_0_length">>)
        /\ rx_gives["window_size"] = {"average_1_length", "average_0_length"}
    BY DEF rx_setters, rx_gives
  <2>2. QED
    BY <2>1, ListsTwo, OffersGiveAll
<1>2. Offers(rx_setters["sync_length"], "sync_length", rx_gives["sync_length"])
  <2>1. /\ rx_setters["sync_length"] = <<Give("delay_dly")>>
        /\ rx_gives["sync_length"] = {"delay_dly"}
    BY DEF rx_setters, rx_gives
  <2>2. QED
    BY <2>1, OffersOne
<1>3. /\ Offers(rx_setters["samp_rate"], "samp_rate", rx_gives["samp_rate"])
      /\ ShowsFirst("samp_rate", rx_setters["samp_rate"])
  <2>1. /\ rx_setters["samp_rate"] =
             <<Show("samp_rate"), Give("usrp_samp_rate"), Give("time_sink_samp_rate"),
               Give("equalizer_bandwidth")>>
        /\ rx_gives["samp_rate"] =
             {"usrp_samp_rate", "time_sink_samp_rate", "equalizer_bandwidth"}
    BY DEF rx_setters, rx_gives
  <2>2. QED
    BY <2>1, OffersThree
<1>4. /\ Offers(rx_setters["lo_offset"], "lo_offset", rx_gives["lo_offset"])
      /\ ShowsFirst("lo_offset", rx_setters["lo_offset"])
  <2>1. /\ rx_setters["lo_offset"] = <<Show("lo_offset"), Give("usrp_center_freq")>>
        /\ rx_gives["lo_offset"] = {"usrp_center_freq"}
    BY DEF rx_setters, rx_gives
  <2>2. QED
    BY <2>1, OffersOne
<1>5. Offers(rx_setters["gain"], "gain", rx_gives["gain"])
  <2>1. /\ rx_setters["gain"] = <<Give("usrp_gain")>>
        /\ rx_gives["gain"] = {"usrp_gain"}
    BY DEF rx_setters, rx_gives
  <2>2. QED
    BY <2>1, OffersOne
<1>6. /\ Offers(rx_setters["freq"], "freq", rx_gives["freq"])
      /\ ShowsFirst("freq", rx_setters["freq"])
  <2>1. /\ rx_setters["freq"] =
             <<Show("freq"), Give("usrp_center_freq"), Give("equalizer_frequency")>>
        /\ rx_gives["freq"] = {"usrp_center_freq", "equalizer_frequency"}
    BY DEF rx_setters, rx_gives
  <2>2. QED
    BY <2>1, OffersTwo
<1>7. /\ Offers(rx_setters["chan_est"], "chan_est", rx_gives["chan_est"])
      /\ ShowsFirst("chan_est", rx_setters["chan_est"])
  <2>1. /\ rx_setters["chan_est"] = <<Show("chan_est"), Give("equalizer_algorithm")>>
        /\ rx_gives["chan_est"] = {"equalizer_algorithm"}
    BY DEF rx_setters, rx_gives
  <2>2. QED
    BY <2>1, OffersOne
<1>8. QED
  BY <1>1, <1>2, <1>3, <1>4, <1>5, <1>6, <1>7,
     RxIs, RxVariables DEF Offered

LEMMA RxComplete == Complete(wifi_rx, rx_gives)
<1>1. ASSUME NEW v \in DOMAIN rx_widgets, NEW p \in rx_gives[v]
      PROVE  p \in DOMAIN rx_reads /\ v \in rx_reads[p]
  BY RxVariables DEF rx_gives, rx_reads
<1>2. ASSUME NEW v \in DOMAIN rx_widgets, NEW p \in rx_gives[v], NEW u \in rx_reads[p]
      PROVE  p \in rx_gives[u]
  BY RxVariables DEF rx_gives, rx_reads
<1>3. QED
  BY <1>1, <1>2, RxIs DEF Complete

LEMMA RxConstructor ==
  \E V : Piece(wifi_rx, rx_init, V, DOMAIN rx_reads)
<1> DEFINE names == <<"usrp_samp_rate", "usrp_center_freq", "usrp_gain",
                       "time_sink_samp_rate", "sync_long_length", "average_1_length",
                       "average_0_length", "equalizer_algorithm", "equalizer_frequency",
                       "equalizer_bandwidth", "delay_dly">>
           listed == {"usrp_samp_rate", "usrp_center_freq", "usrp_gain",
                        "time_sink_samp_rate", "sync_long_length", "average_1_length",
                        "average_0_length", "equalizer_algorithm",
                        "equalizer_frequency", "equalizer_bandwidth", "delay_dly"}
           f1 == Chooser("samp_rate")
           f2 == f1 \o Chooser("lo_offset")
           f3 == f2 \o Entry("gain")
           f4 == f3 \o Chooser("freq")
           f5 == f4 \o Chooser("chan_est")
           f6 == f5 \o GiveAll(names)
<1>1. rx_init = f6 /\ DOMAIN rx_reads = listed
  BY DEF rx_init, rx_reads
<1>2. Lists(names, listed)
  <2>1. names \in Seq(listed)
    OBVIOUS
  <2>2. /\ DOMAIN names = 1 .. 11 /\ names[1] = "usrp_samp_rate"
        /\ names[2] = "usrp_center_freq" /\ names[3] = "usrp_gain"
        /\ names[4] = "time_sink_samp_rate" /\ names[5] = "sync_long_length"
        /\ names[6] = "average_1_length" /\ names[7] = "average_0_length"
        /\ names[8] = "equalizer_algorithm" /\ names[9] = "equalizer_frequency"
        /\ names[10] = "equalizer_bandwidth" /\ names[11] = "delay_dly"
    OBVIOUS
  <2>3. QED
    BY <2>1, <2>2 DEF Lists
<1> HIDE DEF names, listed
<1>3. Piece(wifi_rx, f1, {"samp_rate"}, {})
  BY RxIs, RxVariables, PieceOfChooser
<1>4. Piece(wifi_rx, f2, {"samp_rate", "lo_offset"}, {})
  BY <1>3, RxIs, RxVariables, PieceThenChooser
<1>5. Piece(wifi_rx, f3, {"samp_rate", "lo_offset", "gain"}, {})
  BY <1>4, RxIs, RxVariables, PieceThenEntry
<1>6. Piece(wifi_rx, f4, {"samp_rate", "lo_offset", "gain", "freq"}, {})
  BY <1>5, RxIs, RxVariables, PieceThenChooser
<1>7. Piece(wifi_rx, f5, {"samp_rate", "lo_offset", "gain", "freq", "chan_est"}, {})
  BY <1>6, RxIs, RxVariables, PieceThenChooser
<1>8. Piece(wifi_rx, f6, {"samp_rate", "lo_offset", "gain", "freq", "chan_est"}, listed)
  BY <1>1, <1>2, <1>7, RxIs, RxVariables, PieceThenGives
<1>9. QED
  BY <1>1, <1>8

LEMMA RxSound == Sound(wifi_rx)
<1>1. rx_initial \in [DOMAIN rx_widgets -> {1, 2}]
  BY DEF rx_initial, rx_widgets
<1>2. \A p \in DOMAIN rx_reads : rx_reads[p] \subseteq DOMAIN rx_widgets
  BY RxVariables DEF rx_reads
<1>3. QED
  BY <1>1, <1>2, RxIs, RxOffered, RxComplete, RxConstructor, TablesSound

-----------------------------------------------------------------------------
(* wifi_soft_decision_receiver.py: the parameters that each setter gives   *)

soft_gives ==
  [ window_size |-> {"average_1_length", "average_0_length"},
    threshold   |-> {},
    sync_length |-> {"delay_dly"},
    samp_rate   |-> {"usrp_samp_rate", "time_sink_samp_rate", "equalizer_1_0_bandwidth",
                    "equalizer_1_bandwidth"},
    lo_offset   |-> {"usrp_center_freq"},
    gain        |-> {"usrp_gain"},
    freq        |-> {"usrp_center_freq", "equalizer_1_0_frequency", "equalizer_1_frequency"},
    chan_est    |-> {} ]

LEMMA SoftIs ==
  /\ wifi_soft_decision_receiver.widgets = soft_widgets
  /\ wifi_soft_decision_receiver.initial = soft_initial
  /\ wifi_soft_decision_receiver.reads = soft_reads
  /\ wifi_soft_decision_receiver.init = soft_init
  /\ wifi_soft_decision_receiver.setters = soft_setters
BY DEF wifi_soft_decision_receiver, Graph

LEMMA SoftVariables ==
  /\ DOMAIN soft_widgets =
        {"window_size", "threshold", "sync_length", "samp_rate", "lo_offset", "gain",
          "freq", "chan_est"}
  /\ \A v \in DOMAIN soft_widgets :
       Picks(wifi_soft_decision_receiver, v) <=>
         v \in {"samp_rate", "lo_offset", "freq", "chan_est"}
<1>1. DOMAIN soft_widgets =
        {"window_size", "threshold", "sync_length", "samp_rate", "lo_offset", "gain",
          "freq", "chan_est"}
  BY DEF soft_widgets
<1>2. QED
  BY <1>1, SoftIs DEF Picks, soft_widgets

LEMMA SoftOffered == Offered(wifi_soft_decision_receiver, soft_gives)
<1>1. Offers(soft_setters["window_size"], "window_size", soft_gives["window_size"])
  <2>1. /\ soft_setters["window_size"] = GiveAll(<<"average_1_length", "average_0_length">>)
        /\ soft_gives["window_size"] = {"average_1_length", "average_0_length"}
    BY DEF soft_setters, soft_gives
  <2>2. QED
    BY <2>1, ListsTwo, OffersGiveAll
<1>2. /\ Offers(soft_setters["threshold"], "threshold", soft_gives["threshold"])
      /\ ShowsFirst("threshold", soft_setters["threshold"])
  <2>1. /\ soft_setters["threshold"] = <<Show("threshold")>>
        /\ soft_gives["threshold"] = {}
    BY DEF soft_setters, soft_gives
  <2>2. QED
    BY <2>1, OffersNone
<1>3. Offers(soft_setters["sync_length"], "sync_length", soft_gives["sync_length"])
  <2>1. /\ soft_setters["sync_length"] = <<Give("delay_dly")>>
        /\ soft_gives["sync_length"] = {"delay_dly"}
    BY DEF soft_setters, soft_gives
  <2>2. QED
    BY <2>1, OffersOne
<1>4. /\ Offers(soft_setters["samp_rate"], "samp_rate", soft_gives["samp_rate"])
      /\ ShowsFirst("samp_rate", soft_setters["samp_rate"])
  <2>1. /\ soft_setters["samp_rate"] =
             <<Show("samp_rate"), Give("usrp_samp_rate"), Give("time_sink_samp_rate"),
               Give("equalizer_1_0_bandwidth"), Give("equalizer_1_bandwidth")>>
        /\ soft_gives["samp_rate"] =
             {"usrp_samp_rate", "time_sink_samp_rate", "equalizer_1_0_bandwidth",
              "equalizer_1_bandwidth"}
    BY DEF soft_setters, soft_gives
  <2>2. QED
    BY <2>1, OffersFour
<1>5. /\ Offers(soft_setters["lo_offset"], "lo_offset", soft_gives["lo_offset"])
      /\ ShowsFirst("lo_offset", soft_setters["lo_offset"])
  <2>1. /\ soft_setters["lo_offset"] = <<Show("lo_offset"), Give("usrp_center_freq")>>
        /\ soft_gives["lo_offset"] = {"usrp_center_freq"}
    BY DEF soft_setters, soft_gives
  <2>2. QED
    BY <2>1, OffersOne
<1>6. Offers(soft_setters["gain"], "gain", soft_gives["gain"])
  <2>1. /\ soft_setters["gain"] = <<Give("usrp_gain")>>
        /\ soft_gives["gain"] = {"usrp_gain"}
    BY DEF soft_setters, soft_gives
  <2>2. QED
    BY <2>1, OffersOne
<1>7. /\ Offers(soft_setters["freq"], "freq", soft_gives["freq"])
      /\ ShowsFirst("freq", soft_setters["freq"])
  <2>1. /\ soft_setters["freq"] =
             <<Show("freq"), Give("usrp_center_freq"), Give("equalizer_1_0_frequency"),
               Give("equalizer_1_frequency")>>
        /\ soft_gives["freq"] =
             {"usrp_center_freq", "equalizer_1_0_frequency", "equalizer_1_frequency"}
    BY DEF soft_setters, soft_gives
  <2>2. QED
    BY <2>1, OffersThree
<1>8. /\ Offers(soft_setters["chan_est"], "chan_est", soft_gives["chan_est"])
      /\ ShowsFirst("chan_est", soft_setters["chan_est"])
  <2>1. /\ soft_setters["chan_est"] = <<Show("chan_est")>>
        /\ soft_gives["chan_est"] = {}
    BY DEF soft_setters, soft_gives
  <2>2. QED
    BY <2>1, OffersNone
<1>9. QED
  BY <1>1, <1>2, <1>3, <1>4, <1>5, <1>6, <1>7, <1>8,
     SoftIs, SoftVariables DEF Offered

LEMMA SoftComplete == Complete(wifi_soft_decision_receiver, soft_gives)
<1>1. ASSUME NEW v \in DOMAIN soft_widgets, NEW p \in soft_gives[v]
      PROVE  p \in DOMAIN soft_reads /\ v \in soft_reads[p]
  BY SoftVariables DEF soft_gives, soft_reads
<1>2. ASSUME NEW v \in DOMAIN soft_widgets, NEW p \in soft_gives[v], NEW u \in soft_reads[p]
      PROVE  p \in soft_gives[u]
  BY SoftVariables DEF soft_gives, soft_reads
<1>3. QED
  BY <1>1, <1>2, SoftIs DEF Complete

LEMMA SoftConstructor ==
  \E V : Piece(wifi_soft_decision_receiver, soft_init, V, DOMAIN soft_reads)
<1> DEFINE names == <<"usrp_samp_rate", "usrp_center_freq", "usrp_gain",
                       "time_sink_samp_rate", "sync_long_length",
                       "equalizer_1_0_frequency", "equalizer_1_0_bandwidth",
                       "equalizer_1_0_threshold", "equalizer_1_frequency",
                       "equalizer_1_bandwidth", "equalizer_1_threshold",
                       "average_1_length", "average_0_length">>
           listed == {"usrp_samp_rate", "usrp_center_freq", "usrp_gain",
                        "time_sink_samp_rate", "sync_long_length",
                        "equalizer_1_0_frequency", "equalizer_1_0_bandwidth",
                        "equalizer_1_0_threshold", "equalizer_1_frequency",
                        "equalizer_1_bandwidth", "equalizer_1_threshold",
                        "average_1_length", "average_0_length"}
           f1 == Entry("threshold")
           f2 == f1 \o Chooser("samp_rate")
           f3 == f2 \o Chooser("lo_offset")
           f4 == f3 \o Entry("gain")
           f5 == f4 \o Chooser("freq")
           f6 == f5 \o GiveAll(names)
           f7 == f6 \o Chooser("chan_est")
           f8 == f7 \o <<Give("delay_dly")>>
<1>1. soft_init = f8 /\ DOMAIN soft_reads = listed \cup {"delay_dly"}
  BY DEF soft_init, soft_reads
<1>2. Lists(names, listed)
  <2>1. names \in Seq(listed)
    OBVIOUS
  <2>2. /\ DOMAIN names = 1 .. 13 /\ names[1] = "usrp_samp_rate"
        /\ names[2] = "usrp_center_freq" /\ names[3] = "usrp_gain"
        /\ names[4] = "time_sink_samp_rate" /\ names[5] = "sync_long_length"
        /\ names[6] = "equalizer_1_0_frequency" /\ names[7] = "equalizer_1_0_bandwidth"
        /\ names[8] = "equalizer_1_0_threshold" /\ names[9] = "equalizer_1_frequency"
        /\ names[10] = "equalizer_1_bandwidth" /\ names[11] = "equalizer_1_threshold"
        /\ names[12] = "average_1_length" /\ names[13] = "average_0_length"
    OBVIOUS
  <2>3. QED
    BY <2>1, <2>2 DEF Lists
<1> HIDE DEF names, listed
<1>3. Piece(wifi_soft_decision_receiver, f1, {"threshold"}, {})
  BY SoftIs, SoftVariables, PieceOfEntry
<1>4. Piece(wifi_soft_decision_receiver, f2, {"threshold", "samp_rate"}, {})
  BY <1>3, SoftIs, SoftVariables, PieceThenChooser
<1>5. Piece(wifi_soft_decision_receiver, f3,
            {"threshold", "samp_rate", "lo_offset"}, {})
  BY <1>4, SoftIs, SoftVariables, PieceThenChooser
<1>6. Piece(wifi_soft_decision_receiver, f4,
            {"threshold", "samp_rate", "lo_offset", "gain"}, {})
  BY <1>5, SoftIs, SoftVariables, PieceThenEntry
<1>7. Piece(wifi_soft_decision_receiver, f5,
            {"threshold", "samp_rate", "lo_offset", "gain", "freq"}, {})
  BY <1>6, SoftIs, SoftVariables, PieceThenChooser
<1>8. Piece(wifi_soft_decision_receiver, f6,
            {"threshold", "samp_rate", "lo_offset", "gain", "freq"},
            listed)
  BY <1>1, <1>2, <1>7, SoftIs, SoftVariables, PieceThenGives
<1>9. Piece(wifi_soft_decision_receiver, f7,
            {"threshold", "samp_rate", "lo_offset", "gain", "freq", "chan_est"},
            listed)
  BY <1>8, SoftIs, SoftVariables, PieceThenChooser
<1>10. Piece(wifi_soft_decision_receiver, f8,
            {"threshold", "samp_rate", "lo_offset", "gain", "freq", "chan_est"},
            listed \cup {"delay_dly"})
  BY <1>1, <1>2, <1>9, SoftIs, SoftVariables, PieceThenGive
<1>11. QED
  BY <1>1, <1>10

LEMMA SoftSound == Sound(wifi_soft_decision_receiver)
<1>1. soft_initial \in [DOMAIN soft_widgets -> {1, 2}]
  BY DEF soft_initial, soft_widgets
<1>2. \A p \in DOMAIN soft_reads : soft_reads[p] \subseteq DOMAIN soft_widgets
  BY SoftVariables DEF soft_reads
<1>3. QED
  BY <1>1, <1>2, SoftIs, SoftOffered, SoftComplete, SoftConstructor, TablesSound

-----------------------------------------------------------------------------
(* wifi_tx.py: the parameters that each setter gives                       *)

tx_gives ==
  [ tx_gain      |-> {"usrp_gain"},
    samp_rate    |-> {"phy_hier_bandwidth", "usrp_samp_rate"},
    pdu_length   |-> {"strobe_msg"},
    out_buf_size |-> {},
    lo_offset    |-> {"usrp_center_freq"},
    interval     |-> {"strobe_period"},
    freq         |-> {"phy_hier_frequency", "usrp_center_freq"},
    encoding     |-> {"phy_hier_encoding"} ]

LEMMA TxIs ==
  /\ wifi_tx.widgets = tx_widgets
  /\ wifi_tx.initial = tx_initial
  /\ wifi_tx.reads = tx_reads
  /\ wifi_tx.init = tx_init
  /\ wifi_tx.setters = tx_setters
BY DEF wifi_tx, Graph

LEMMA TxVariables ==
  /\ DOMAIN tx_widgets =
        {"tx_gain", "samp_rate", "pdu_length", "out_buf_size", "lo_offset", "interval",
          "freq", "encoding"}
  /\ \A v \in DOMAIN tx_widgets :
       Picks(wifi_tx, v) <=> v \in {"samp_rate", "lo_offset", "freq", "encoding"}
<1>1. DOMAIN tx_widgets =
        {"tx_gain", "samp_rate", "pdu_length", "out_buf_size", "lo_offset", "interval",
          "freq", "encoding"}
  BY DEF tx_widgets
<1>2. QED
  BY <1>1, TxIs DEF Picks, tx_widgets

LEMMA TxOffered == Offered(wifi_tx, tx_gives)
<1>1. Offers(tx_setters["tx_gain"], "tx_gain", tx_gives["tx_gain"])
  <2>1. /\ tx_setters["tx_gain"] = <<Give("usrp_gain")>>
        /\ tx_gives["tx_gain"] = {"usrp_gain"}
    BY DEF tx_setters, tx_gives
  <2>2. QED
    BY <2>1, OffersOne
<1>2. /\ Offers(tx_setters["samp_rate"], "samp_rate", tx_gives["samp_rate"])
      /\ ShowsFirst("samp_rate", tx_setters["samp_rate"])
  <2>1. /\ tx_setters["samp_rate"] =
             <<Show("samp_rate"), Give("phy_hier_bandwidth"), Give("usrp_samp_rate")>>
        /\ tx_gives["samp_rate"] = {"phy_hier_bandwidth", "usrp_samp_rate"}
    BY DEF tx_setters, tx_gives
  <2>2. QED
    BY <2>1, OffersTwo
<1>3. Offers(tx_setters["pdu_length"], "pdu_length", tx_gives["pdu_length"])
  <2>1. /\ tx_setters["pdu_length"] = <<Give("strobe_msg")>>
        /\ tx_gives["pdu_length"] = {"strobe_msg"}
    BY DEF tx_setters, tx_gives
  <2>2. QED
    BY <2>1, OffersOne
<1>4. Offers(tx_setters["out_buf_size"], "out_buf_size", tx_gives["out_buf_size"])
  <2>1. /\ tx_setters["out_buf_size"] = <<>>
        /\ tx_gives["out_buf_size"] = {}
    BY DEF tx_setters, tx_gives
  <2>2. QED
    BY <2>1, OffersNone
<1>5. /\ Offers(tx_setters["lo_offset"], "lo_offset", tx_gives["lo_offset"])
      /\ ShowsFirst("lo_offset", tx_setters["lo_offset"])
  <2>1. /\ tx_setters["lo_offset"] = <<Show("lo_offset"), Give("usrp_center_freq")>>
        /\ tx_gives["lo_offset"] = {"usrp_center_freq"}
    BY DEF tx_setters, tx_gives
  <2>2. QED
    BY <2>1, OffersOne
<1>6. Offers(tx_setters["interval"], "interval", tx_gives["interval"])
  <2>1. /\ tx_setters["interval"] = <<Give("strobe_period")>>
        /\ tx_gives["interval"] = {"strobe_period"}
    BY DEF tx_setters, tx_gives
  <2>2. QED
    BY <2>1, OffersOne
<1>7. /\ Offers(tx_setters["freq"], "freq", tx_gives["freq"])
      /\ ShowsFirst("freq", tx_setters["freq"])
  <2>1. /\ tx_setters["freq"] =
             <<Show("freq"), Give("phy_hier_frequency"), Give("usrp_center_freq")>>
        /\ tx_gives["freq"] = {"phy_hier_frequency", "usrp_center_freq"}
    BY DEF tx_setters, tx_gives
  <2>2. QED
    BY <2>1, OffersTwo
<1>8. /\ Offers(tx_setters["encoding"], "encoding", tx_gives["encoding"])
      /\ ShowsFirst("encoding", tx_setters["encoding"])
  <2>1. /\ tx_setters["encoding"] = <<Show("encoding"), Give("phy_hier_encoding")>>
        /\ tx_gives["encoding"] = {"phy_hier_encoding"}
    BY DEF tx_setters, tx_gives
  <2>2. QED
    BY <2>1, OffersOne
<1>9. QED
  BY <1>1, <1>2, <1>3, <1>4, <1>5, <1>6, <1>7, <1>8,
     TxIs, TxVariables DEF Offered

LEMMA TxComplete == Complete(wifi_tx, tx_gives)
<1>1. ASSUME NEW v \in DOMAIN tx_widgets, NEW p \in tx_gives[v]
      PROVE  p \in DOMAIN tx_reads /\ v \in tx_reads[p]
  BY TxVariables DEF tx_gives, tx_reads
<1>2. ASSUME NEW v \in DOMAIN tx_widgets, NEW p \in tx_gives[v], NEW u \in tx_reads[p]
      PROVE  p \in tx_gives[u]
  BY TxVariables DEF tx_gives, tx_reads
<1>3. QED
  BY <1>1, <1>2, TxIs DEF Complete

LEMMA TxConstructor ==
  \E V : Piece(wifi_tx, tx_init, V, DOMAIN tx_reads)
<1> DEFINE names == <<"phy_hier_bandwidth", "phy_hier_encoding", "phy_hier_frequency",
                       "usrp_samp_rate", "usrp_center_freq", "usrp_gain", "strobe_msg",
                       "strobe_period">>
           listed == {"phy_hier_bandwidth", "phy_hier_encoding", "phy_hier_frequency",
                        "usrp_samp_rate", "usrp_center_freq", "usrp_gain", "strobe_msg",
                        "strobe_period"}
           f1 == Entry("tx_gain")
           f2 == f1 \o Chooser("samp_rate")
           f3 == f2 \o Entry("pdu_length")
           f4 == f3 \o Chooser("lo_offset")
           f5 == f4 \o Entry("interval")
           f6 == f5 \o Chooser("freq")
           f7 == f6 \o Chooser("encoding")
           f8 == f7 \o GiveAll(names)
<1>1. tx_init = f8 /\ DOMAIN tx_reads = listed
  BY DEF tx_init, tx_reads
<1>2. Lists(names, listed)
  <2>1. names \in Seq(listed)
    OBVIOUS
  <2>2. /\ DOMAIN names = 1 .. 8 /\ names[1] = "phy_hier_bandwidth"
        /\ names[2] = "phy_hier_encoding" /\ names[3] = "phy_hier_frequency"
        /\ names[4] = "usrp_samp_rate" /\ names[5] = "usrp_center_freq"
        /\ names[6] = "usrp_gain" /\ names[7] = "strobe_msg"
        /\ names[8] = "strobe_period"
    OBVIOUS
  <2>3. QED
    BY <2>1, <2>2 DEF Lists
<1> HIDE DEF names, listed
<1>3. Piece(wifi_tx, f1, {"tx_gain"}, {})
  BY TxIs, TxVariables, PieceOfEntry
<1>4. Piece(wifi_tx, f2, {"tx_gain", "samp_rate"}, {})
  BY <1>3, TxIs, TxVariables, PieceThenChooser
<1>5. Piece(wifi_tx, f3, {"tx_gain", "samp_rate", "pdu_length"}, {})
  BY <1>4, TxIs, TxVariables, PieceThenEntry
<1>6. Piece(wifi_tx, f4, {"tx_gain", "samp_rate", "pdu_length", "lo_offset"}, {})
  BY <1>5, TxIs, TxVariables, PieceThenChooser
<1>7. Piece(wifi_tx, f5,
            {"tx_gain", "samp_rate", "pdu_length", "lo_offset", "interval"}, {})
  BY <1>6, TxIs, TxVariables, PieceThenEntry
<1>8. Piece(wifi_tx, f6,
            {"tx_gain", "samp_rate", "pdu_length", "lo_offset", "interval", "freq"}, {})
  BY <1>7, TxIs, TxVariables, PieceThenChooser
<1>9. Piece(wifi_tx, f7,
            {"tx_gain", "samp_rate", "pdu_length", "lo_offset", "interval", "freq", "encoding"}, {})
  BY <1>8, TxIs, TxVariables, PieceThenChooser
<1>10. Piece(wifi_tx, f8,
            {"tx_gain", "samp_rate", "pdu_length", "lo_offset", "interval", "freq", "encoding"},
            listed)
  BY <1>1, <1>2, <1>9, TxIs, TxVariables, PieceThenGives
<1>11. QED
  BY <1>1, <1>10

LEMMA TxSound == Sound(wifi_tx)
<1>1. tx_initial \in [DOMAIN tx_widgets -> {1, 2}]
  BY DEF tx_initial, tx_widgets
<1>2. \A p \in DOMAIN tx_reads : tx_reads[p] \subseteq DOMAIN tx_widgets
  BY TxVariables DEF tx_reads
<1>3. QED
  BY <1>1, <1>2, TxIs, TxOffered, TxComplete, TxConstructor, TablesSound

-----------------------------------------------------------------------------
(* top_block.py: the parameters that each setter gives                     *)

top_gives ==
  [ samp_rate       |-> {"usrp_samp_rate", "decim"},
    window_size     |-> {},
    tran_wid        |-> {},
    sync_length     |-> {},
    rx_gain         |-> {"usrp_gain_0", "usrp_gain_1"},
    freq            |-> {"usrp_center_freq_0", "usrp_center_freq_1"},
    center_offset_2 |-> {},
    center_offset_1 |-> {} ]

LEMMA TopIs ==
  /\ top_block.widgets = top_widgets
  /\ top_block.initial = top_initial
  /\ top_block.reads = top_reads
  /\ top_block.init = top_init
  /\ top_block.setters = top_setters
BY DEF top_block, Graph

LEMMA TopVariables ==
  /\ DOMAIN top_widgets =
        {"samp_rate", "window_size", "tran_wid", "sync_length", "rx_gain", "freq",
          "center_offset_2", "center_offset_1"}
  /\ \A v \in DOMAIN top_widgets :
       Picks(top_block, v) <=> v \in {}
<1>1. DOMAIN top_widgets =
        {"samp_rate", "window_size", "tran_wid", "sync_length", "rx_gain", "freq",
          "center_offset_2", "center_offset_1"}
  BY DEF top_widgets
<1>2. QED
  BY <1>1, TopIs DEF Picks, top_widgets

LEMMA TopOffered == Offered(top_block, top_gives)
<1>1. Offers(top_setters["samp_rate"], "samp_rate", top_gives["samp_rate"])
  <2>1. /\ top_setters["samp_rate"] = GiveAll(<<"usrp_samp_rate", "decim">>)
        /\ top_gives["samp_rate"] = {"usrp_samp_rate", "decim"}
    BY DEF top_setters, top_gives
  <2>2. QED
    BY <2>1, ListsTwo, OffersGiveAll
<1>2. Offers(top_setters["window_size"], "window_size", top_gives["window_size"])
  <2>1. /\ top_setters["window_size"] = <<>>
        /\ top_gives["window_size"] = {}
    BY DEF top_setters, top_gives
  <2>2. QED
    BY <2>1, OffersNone
<1>3. Offers(top_setters["tran_wid"], "tran_wid", top_gives["tran_wid"])
  <2>1. /\ top_setters["tran_wid"] = <<>>
        /\ top_gives["tran_wid"] = {}
    BY DEF top_setters, top_gives
  <2>2. QED
    BY <2>1, OffersNone
<1>4. Offers(top_setters["sync_length"], "sync_length", top_gives["sync_length"])
  <2>1. /\ top_setters["sync_length"] = <<>>
        /\ top_gives["sync_length"] = {}
    BY DEF top_setters, top_gives
  <2>2. QED
    BY <2>1, OffersNone
<1>5. Offers(top_setters["rx_gain"], "rx_gain", top_gives["rx_gain"])
  <2>1. /\ top_setters["rx_gain"] = GiveAll(<<"usrp_gain_0", "usrp_gain_1">>)
        /\ top_gives["rx_gain"] = {"usrp_gain_0", "usrp_gain_1"}
    BY DEF top_setters, top_gives
  <2>2. QED
    BY <2>1, ListsTwo, OffersGiveAll
<1>6. Offers(top_setters["freq"], "freq", top_gives["freq"])
  <2>1. /\ top_setters["freq"] = GiveAll(<<"usrp_center_freq_0", "usrp_center_freq_1">>)
        /\ top_gives["freq"] = {"usrp_center_freq_0", "usrp_center_freq_1"}
    BY DEF top_setters, top_gives
  <2>2. QED
    BY <2>1, ListsTwo, OffersGiveAll
<1>7. Offers(top_setters["center_offset_2"], "center_offset_2", top_gives["center_offset_2"])
  <2>1. /\ top_setters["center_offset_2"] = <<>>
        /\ top_gives["center_offset_2"] = {}
    BY DEF top_setters, top_gives
  <2>2. QED
    BY <2>1, OffersNone
<1>8. Offers(top_setters["center_offset_1"], "center_offset_1", top_gives["center_offset_1"])
  <2>1. /\ top_setters["center_offset_1"] = <<>>
        /\ top_gives["center_offset_1"] = {}
    BY DEF top_setters, top_gives
  <2>2. QED
    BY <2>1, OffersNone
<1>9. QED
  BY <1>1, <1>2, <1>3, <1>4, <1>5, <1>6, <1>7, <1>8,
     TopIs, TopVariables DEF Offered

LEMMA TopComplete == Complete(top_block, top_gives)
<1>1. ASSUME NEW v \in DOMAIN top_widgets, NEW p \in top_gives[v]
      PROVE  p \in DOMAIN top_reads /\ v \in top_reads[p]
  BY TopVariables DEF top_gives, top_reads
<1>2. ASSUME NEW v \in DOMAIN top_widgets, NEW p \in top_gives[v], NEW u \in top_reads[p]
      PROVE  p \in top_gives[u]
  BY TopVariables DEF top_gives, top_reads
<1>3. QED
  BY <1>1, <1>2, TopIs DEF Complete

LEMMA TopConstructor ==
  \E V : Piece(top_block, top_init, V, DOMAIN top_reads)
<1> DEFINE names == <<"decim", "usrp_samp_rate", "usrp_center_freq_0", "usrp_gain_0",
                       "usrp_center_freq_1", "usrp_gain_1">>
           listed == {"decim", "usrp_samp_rate", "usrp_center_freq_0", "usrp_gain_0",
                        "usrp_center_freq_1", "usrp_gain_1"}
           f1 == GiveAll(names)
<1>1. top_init = f1 /\ DOMAIN top_reads = listed
  BY DEF top_init, top_reads
<1>2. Lists(names, listed)
  <2>1. names \in Seq(listed)
    OBVIOUS
  <2>2. /\ DOMAIN names = 1 .. 6 /\ names[1] = "decim"
        /\ names[2] = "usrp_samp_rate" /\ names[3] = "usrp_center_freq_0"
        /\ names[4] = "usrp_gain_0" /\ names[5] = "usrp_center_freq_1"
        /\ names[6] = "usrp_gain_1"
    OBVIOUS
  <2>3. QED
    BY <2>1, <2>2 DEF Lists
<1> HIDE DEF names, listed
<1>3. Piece(top_block, f1, {}, listed)
  BY <1>1, <1>2, TopIs, TopVariables, PieceOfGives
<1>4. QED
  BY <1>1, <1>3

LEMMA TopSound == Sound(top_block)
<1>1. top_initial \in [DOMAIN top_widgets -> {1, 2}]
  BY DEF top_initial, top_widgets
<1>2. \A p \in DOMAIN top_reads : top_reads[p] \subseteq DOMAIN top_widgets
  BY TopVariables DEF top_reads
<1>3. QED
  BY <1>1, <1>2, TopIs, TopOffered, TopComplete, TopConstructor, TablesSound


-----------------------------------------------------------------------------
LEMMA GraphsSound == \A g \in Graphs : Sound(g)
BY RxSound, SoftSound, TxSound, TopSound DEF Graphs

LEMMA FlowInductive == Spec => []FlowInv
<1>1. Init => FlowInv
  BY GraphsSound, ConstructorStarts DEF Init
<1>2. FlowInv /\ [Next]_vars => FlowInv'
  BY GraphsSound, FlowStep, FlowStutters DEF FlowInv, Values
<1>3. QED
  BY <1>1, <1>2, PTL DEF Spec

(* Between two events the blocks follow the variables, after any number of *)
(* sets by the user and by programs (set_freq, set_samp_rate and so on).   *)
THEOREM TheBlocksFollow == Spec => []BlocksFollow
BY FlowInductive, FlowInvImplies, PTL

(* And so do the combo boxes and the buttons.                              *)
THEOREM TheWidgetsFollow == Spec => []WidgetsFollow
BY FlowInductive, FlowInvImplies, PTL

(* No setter ever meets a block that is not made: neither the constructor  *)
(* nor any setter raises AttributeError.                                   *)
THEOREM NoSetterIsEarly == Spec => []ConstructorUndisturbed
BY FlowInductive, FlowInvImplies, PTL

LEMMA FlowTypes ==
  FlowInv => TypeOK
<1> SUFFICES ASSUME FlowInv PROVE TypeOK
  OBVIOUS
<1>1. Values
  BY DEF FlowInv
<1>2. Len(stack) <= 2
  <2>1. ASSUME NEW f, stack = <<f>> PROVE Len(stack) <= 2
    BY <2>1, OneCall
  <2>2. ASSUME NEW f, NEW h, stack = <<f, h>> PROVE Len(stack) <= 2
    BY <2>2, TwoCalls
  <2>3. CASE stack = <<>>
    BY <2>3
  <2>4. stack = <<>> \/ (\E f : stack = <<f>>) \/ (\E f, h : stack = <<f, h>>)
    BY DEF FlowInv, InConstructor, Quiet, Setting, Called, Within, Nested
  <2>5. QED
    BY <2>1, <2>2, <2>3, <2>4
<1>3. QED
  BY <1>1, <1>2 DEF TypeOK, Values

(* Setters nest once at the most: set_freq shows the frequency in the      *)
(* combo box, which calls set_freq again, which finds it shown.            *)
THEOREM SettersNestOnce == Spec => []TypeOK
BY FlowInductive, FlowTypes, PTL

=============================================================================
