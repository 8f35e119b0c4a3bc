------------------------------ MODULE DoxyXml ------------------------------
(***************************************************************************)
(* How the documentation scripts read a doxygen file and what they keep of *)
(* it: compound.parse and index.parse make an object of the root element,  *)
(* which builds its children, and so on (the classes are in DoxySchema);   *)
(* text.description flattens an object to the text of a docstring; parse,  *)
(* parseString and parseLiteral of the generated modules write the object  *)
(* tree out again.                                                         *)
(*                                                                         *)
(* An XML node is a text, a CDATA section or an element.  A run of         *)
(* adjacent texts is one text node of minidom: the code only ever joins    *)
(* them, so the model keeps them word by word.  Layout (indentation, line  *)
(* ends between elements) and comments are left out.                       *)
(***************************************************************************)
EXTENDS DoxySchema, SequencesExt

CONSTANTS
  Words,    (* texts of a document and values of its attributes            *)
  Special,  (* those of them with a character that XML has to escape       *)
  Numbers,  (* those that int() accepts                                    *)
  MaxKids,  (* Bound of the model: children of the root element.           *)
  MaxParts, (* Bound of the model: classes with more kinds of children get *)
            (* at most two of them.                                        *)
  MaxDepth  (* Bound of the model: elements below those.                   *)

ASSUME WordsAssumption == Special \subseteq Words /\ Numbers \subseteq Words

VARIABLES
  class,  (* the class that builds the document                            *)
  doc,    (* its root element                                              *)
  phase,  (* what has been done with it                                    *)
  obj,    (* the object tree                                               *)
  xml,    (* the document that export wrote                                *)
  again,  (* the object tree of that document                              *)
  text    (* what description returned                                     *)

vars == <<class, doc, phase, obj, xml, again, text>>

-----------------------------------------------------------------------------
(* XML nodes *)

Text(w)  == [node |-> "text", word |-> w]
CData(w) == [node |-> "cdata", word |-> w]
Element(name, attrs, kids) ==
  [node |-> "element", name |-> name, attrs |-> attrs, kids |-> kids]

IsElement(k) == k.node = "element"

Children(e, name) == SelectSeq(e.kids, LAMBDA k : IsElement(k) /\ k.name = name)

(* `for text__content_ in child_.childNodes: x_ += text__content_.nodeValue' *)
NodeValues(e) == [i \in DOMAIN e.kids |-> e.kids[i].word]

-----------------------------------------------------------------------------
(* build *)

IsText(f) == f.keeps \in {"string", "strings"}

(* A bad integer raises ValueError; the nodeValue of an element is None,   *)
(* and a string plus None raises TypeError.  Nothing catches either: the   *)
(* whole document is lost.                                                 *)
RECURSIVE Raises(_, _)
Raises(c, e) ==
  \/ \E a \in IntAttributes \cap Class[c].attrs \cap DOMAIN e.attrs :
       e.attrs[a] \notin Numbers
  \/ \E f \in Range(Class[c].fields) : \E k \in Range(Children(e, f.name)) :
       IF IsText(f) THEN \E t \in Range(k.kids) : IsElement(t)
                    ELSE Raises(f.class, k)

(* The fields that an object keeps under their names, and those it keeps   *)
(* in its content.                                                         *)
NamedFields(c) ==
  CASE Class[c].shape = "structured" -> FieldNames(c)
    [] Class[c].shape = "para"       -> FieldNames(c) \ {"ref"}
    [] OTHER                         -> {}

ContentFields(c) ==
  CASE Class[c].shape = "mixed" -> FieldNames(c)
    [] Class[c].shape = "para"  -> {"ref"}
    [] OTHER                    -> {}

FieldOf(c, name) == CHOOSE f \in Range(Class[c].fields) : f.name = name

(* A MixedContainer, or in a para the object itself *)
TextItem(w)          == [item |-> "text", word |-> w]
SimpleItem(name, ws) == [item |-> "simple", name |-> name, words |-> ws]
ComplexItem(name, o) == [item |-> "complex", name |-> name, value |-> o]

(* valueOf_: text and CDATA sections *)
ValueOf(e) == SelectSeq(e.kids, LAMBDA k : ~IsElement(k))

RECURSIVE Build(_, _)

(* A bug: an element no case knows is built by the class of its parent. *)
Item_Unknown(c, k) ==
  CASE k.node = "text" -> <<TextItem(k.word)>>
    [] IsElement(k) -> <<ComplexItem(k.name, Build(c, k))>>
    [] OTHER -> <<>>

(* buildChildren where there is content_: a text or a child it knows       *)
Item(c, k) ==
  CASE k.node = "text" -> <<TextItem(k.word)>>
    [] IsElement(k) /\ k.name \in ContentFields(c) ->
         LET f == FieldOf(c, k.name) IN
         IF IsText(f) THEN <<SimpleItem(k.name, NodeValues(k))>>
                      ELSE <<ComplexItem(k.name, Build(f.class, k))>>
    [] OTHER -> <<>>

(* buildChildren where there is none.  A String that is absent is empty.   *)
Kept(f, ks) ==
  CASE f.keeps = "string"  -> IF ks = <<>> THEN << <<>> >>
                                           ELSE <<NodeValues(Last(ks))>>
    [] f.keeps = "strings" -> [i \in DOMAIN ks |-> NodeValues(ks[i])]
    [] f.keeps = "object"  -> IF ks = <<>> THEN <<>>
                                           ELSE <<Build(f.class, Last(ks))>>
    [] f.keeps = "objects" -> [i \in DOMAIN ks |-> Build(f.class, ks[i])]

Build(c, e) ==
  LET shape == Class[c].shape IN
  [ class   |-> c,
    attrs   |-> [a \in Class[c].attrs \cap DOMAIN e.attrs |-> e.attrs[a]],
    fields  |-> [n \in NamedFields(c) |-> Kept(FieldOf(c, n), Children(e, n))],
    value   |-> IF shape \in {"value", "mixedvalue", "para"} THEN ValueOf(e)
                ELSE <<>>,
    content |-> IF shape \in {"mixed", "mixedvalue", "para"}
                THEN FlattenSeq([i \in DOMAIN e.kids |-> Item(c, e.kids[i])])
                ELSE <<>> ]

-----------------------------------------------------------------------------
(* export: the XML it writes, as a parser reads it back                    *)

(* What quote_xml does to a text is undone by the parser, except in a      *)
(* CDATA section, where the quotes stay.                                   *)
Quoted(k) ==
  IF k.node = "cdata" /\ k.word \in Special THEN CData("quoted " \o k.word) ELSE k

(* MixedContainer writes a text, and a simple element, as they are.        *)
Broken == [node |-> "broken"]

Raw(w) == IF w \in Special THEN Broken ELSE Text(w)

Texts(ws) == [i \in DOMAIN ws |-> Text(ws[i])]

NoAttrs == [a \in {} |-> ""]

(* An attribute is written if the object has it, and these in any case.    *)
AlwaysWritten(c) ==
  CASE c \in {"DoxygenType", "index_DoxygenType"}       -> {"version"}
    [] c \in {"index_CompoundType", "index_MemberType"} -> {"kind", "refid"}
    [] OTHER                                            -> {}

(* `quote_attrib(None)' writes "None" *)
ExportAttributes(c, attrs) ==
  [a \in DOMAIN attrs \cup AlwaysWritten(c) |->
     IF a \in DOMAIN attrs THEN attrs[a] ELSE "None"]

RECURSIVE Export(_, _)

ExportItem(i) ==
  CASE i.item = "text"    -> Raw(i.word)
    [] i.item = "simple"  -> Element(i.name, NoAttrs,
                               [j \in DOMAIN i.words |-> Raw(i.words[j])])
    [] i.item = "complex" -> Export(i.value, i.name)

(* compounddefType builds title as an object and exports it as a string: a *)
(* title that is there becomes the representation of the object.           *)
ExportTitle(titles) ==
  <<Element("title", NoAttrs,
            IF titles = <<>> THEN <<>> ELSE <<Text("docTitleType instance")>>)>>

ExportField(c, f, kept) ==
  IF c = "compounddefType" /\ f.name = "title" THEN ExportTitle(kept)
  ELSE [i \in DOMAIN kept |->
          IF IsText(f) THEN Element(f.name, NoAttrs, Texts(kept[i]))
                       ELSE Export(kept[i], f.name)]

(* A bug: the last kind of children is not written. *)
Export_NoLast(o, name) ==
  LET C == Class[o.class] IN
  Element(name, ExportAttributes(o.class, o.attrs),
    CASE C.shape = "structured" ->
           FlattenSeq([i \in DOMAIN Tail(C.fields) |->
              ExportField(o.class, C.fields[i], o.fields[C.fields[i].name])])
      [] C.shape = "mixed" ->
           [i \in DOMAIN o.content |-> ExportItem(o.content[i])]
      [] OTHER -> [i \in DOMAIN o.value |-> Quoted(o.value[i])])

(* A para exports its valueOf_ alone, not what compound.py adds to it.     *)
Export(o, name) ==
  LET C == Class[o.class] IN
  Element(name, ExportAttributes(o.class, o.attrs),
    CASE C.shape = "structured" ->
           FlattenSeq([i \in DOMAIN C.fields |->
              ExportField(o.class, C.fields[i], o.fields[C.fields[i].name])])
      [] C.shape = "mixed" ->
           [i \in DOMAIN o.content |-> ExportItem(o.content[i])]
      [] OTHER -> [i \in DOMAIN o.value |-> Quoted(o.value[i])])

RECURSIVE HasBroken(_)
HasBroken(k) ==
  \/ k = Broken
  \/ IsElement(k) /\ \E j \in DOMAIN k.kids : HasBroken(k.kids[j])

(* exportLiteral.  hasContent_ of a Mixed class reads attributes that      *)
(* nothing ever sets: AttributeError.                                      *)
RECURSIVE LiteralRaises(_)
LiteralRaises(o) ==
  LET C == Class[o.class] IN
  \/ C.shape = "mixed"
  \/ /\ C.shape = "structured"
     /\ \E f \in Range(C.fields) :
          ~IsText(f) /\ \E k \in Range(o.fields[f.name]) : LiteralRaises(k)

-----------------------------------------------------------------------------
(* text.py *)

Break == "\n\n"

RECURSIVE description_bit(_)

(* A bug: the line breaks come before the paragraph. *)
ItemText_BreakFirst(i) ==
  CASE i.item = "text"    -> <<i.word>>
    [] i.item = "simple"  -> i.words
    [] i.item = "complex" -> (IF i.name = "para" THEN <<Break>> ELSE <<>>)
                             \o description_bit(i.value)

ItemText(i) ==
  CASE i.item = "text"    -> <<i.word>>
    [] i.item = "simple"  -> i.words
    [] i.item = "complex" -> description_bit(i.value)
                             \o (IF i.name = "para" THEN <<Break>> ELSE <<>>)

(* content goes before content_: a para has both, and only content has the *)
(* references.                                                             *)
description_bit(o) == FlattenSeq([i \in DOMAIN o.content |-> ItemText(o.content[i])])

RECURSIVE Strip(_)
Strip(ws) ==
  CASE ws # <<>> /\ Head(ws) = Break -> Strip(Tail(ws))
    [] ws # <<>> /\ Last(ws) = Break -> Strip(Front(ws))
    [] OTHER -> ws

description(o) == Strip(description_bit(o))

-----------------------------------------------------------------------------
(* The documents: every class as a root element, with every sequence of a  *)
(* few children.                                                           *)

RECURSIVE Sample(_, _, _)

(* One element for each class: a text where it keeps one, and one child of *)
(* each kind down to the given depth.                                      *)
Sample(name, c, depth) ==
  LET C == Class[c]
      SampleOf(f) == IF IsText(f) THEN Element(f.name, NoAttrs, <<Text(f.name)>>)
                                  ELSE Sample(f.name, f.class, depth - 1)
  IN Element(name, NoAttrs,
       (IF C.shape = "structured" THEN <<>> ELSE <<Text(name)>>)
       \o (IF depth = 0 THEN <<>>
           ELSE [i \in DOMAIN C.fields |-> SampleOf(C.fields[i])]))

Unknown == Element("bold", NoAttrs, <<Text("bold")>>)

Parts(c) ==
  {Text(w) : w \in Words} \cup {CData(w) : w \in Special} \cup {Unknown}
  \cup {Sample(f.name, f.class, MaxDepth) :
          f \in {g \in Range(Class[c].fields) : ~IsText(g)}}
  \cup UNION {{Element(f.name, NoAttrs, <<k>>) : k \in {Text(w) : w \in Words} \cup {Unknown}} :
          f \in {g \in Range(Class[c].fields) : IsText(g)}}

(* Structured elements have no text of their own. *)
PartsOf(c) ==
  IF Class[c].shape = "structured" THEN {k \in Parts(c) : IsElement(k)} ELSE Parts(c)

(* All attributes that the class knows, or all but one                     *)
Attributes(c) ==
  {[a \in (Class[c].attrs \ {absent}) \cup {"newer"} |-> w] :
     absent \in Class[c].attrs \cup {"newer"}, w \in Words}

KidSequences(c, n) == UNION {[1 .. i -> PartsOf(c)] : i \in 0 .. n}

Documents(c) ==
  {Element("root", NoAttrs, kids) :
     kids \in KidSequences(c, IF Len(Class[c].fields) > MaxParts THEN 2 ELSE MaxKids)}
  \cup
  {Element("root", attrs, kids) : attrs \in Attributes(c), kids \in KidSequences(c, 1)}

-----------------------------------------------------------------------------
Init ==
  /\ class \in ClassNames
  /\ doc \in Documents(class)
  /\ phase = "file"
  /\ obj = <<>> /\ xml = <<>> /\ again = <<>> /\ text = <<>>

(* rootObj.build(rootNode) *)
parse ==
  /\ phase = "file"
  /\ \/ Raises(class, doc) /\ phase' = "raised" /\ UNCHANGED obj
     \/ ~Raises(class, doc) /\ phase' = "built" /\ obj' = Build(class, doc)
  /\ UNCHANGED <<class, doc, xml, again, text>>

(* rootObj.export, in parse and parseString of the generated modules *)
exportDocument ==
  /\ phase = "built"
  /\ xml' = Export(obj, "root")
  /\ phase' = "exported"
  /\ UNCHANGED <<class, doc, obj, again, text>>

(* What was written, read again *)
reparse ==
  /\ phase = "exported"
  /\ \/ HasBroken(xml) /\ phase' = "malformed" /\ UNCHANGED again
     \/ ~HasBroken(xml) /\ phase' = "reread" /\ again' = Build(class, xml)
  /\ UNCHANGED <<class, doc, obj, xml, text>>

(* parseLiteral *)
parseLiteral ==
  /\ phase = "built"
  /\ phase' = IF LiteralRaises(obj) THEN "literal raised" ELSE "literal"
  /\ UNCHANGED <<class, doc, obj, xml, again, text>>

(* text.description, of a description or of the title of a group *)
describe ==
  /\ phase = "built"
  /\ class \in {"descriptionType", "docTitleType"}
  /\ text' = description(obj)
  /\ phase' = "described"
  /\ UNCHANGED <<class, doc, obj, xml, again>>

Next == parse \/ exportDocument \/ reparse \/ parseLiteral \/ describe

Spec == Init /\ [][Next]_vars

-----------------------------------------------------------------------------
(* Properties *)

TypeOK ==
  /\ class \in ClassNames
  /\ phase \in {"file", "raised", "built", "exported", "malformed", "reread",
                "literal", "literal raised", "described"}
  /\ phase \in {"file", "raised"} <=> obj = <<>>

(* A document without what the classes of 2009 do not know *)
RECURSIVE Known(_, _)
Known(c, e) ==
  LET Keep(k) == ~IsElement(k) \/ k.name \in FieldNames(c)
      KnownKid(k) == IF ~IsElement(k) \/ IsText(FieldOf(c, k.name)) THEN k
                     ELSE Known(FieldOf(c, k.name).class, k)
      kids == SelectSeq(e.kids, Keep)
  IN Element(e.name, [a \in DOMAIN e.attrs \cap Class[c].attrs |-> e.attrs[a]],
             [i \in DOMAIN kids |-> KnownKid(kids[i])])

(* The object of a file does not depend on what a newer doxygen adds to    *)
(* it: elements and attributes the classes do not know leave no trace and  *)
(* move nothing (the chains of `elif' in the buildChildren methods).       *)
UnknownLeavesNoTrace ==
  phase = "built" => obj = Build(class, Known(class, doc))

(* The elements, with their classes, that are built and exported again     *)
RECURSIVE Written(_, _)
Written(c, e) ==
  {<<c, e>>} \cup
  UNION {LET ks == Children(e, f.name) IN
         CASE IsText(f) -> {}
           [] f.keeps = "object"  -> IF ks = <<>> THEN {} ELSE Written(f.class, Last(ks))
           [] f.keeps = "objects" -> UNION {Written(f.class, k) : k \in Range(ks)} :
         f \in IF Class[c].shape = "para" THEN {} ELSE Range(Class[c].fields)}

(* Where the round trip loses something: the title of a compound, the      *)
(* version of a file or the kind or id of an entry of the index that is    *)
(* not there, what compound.py keeps of a para besides its text, and a     *)
(* CDATA section with a character to be escaped.                           *)
LosesSomething(c, e) ==
  \/ c = "compounddefType"
  \/ c \in {"DoxygenType", "index_DoxygenType"} /\ "version" \notin DOMAIN e.attrs
  \/ /\ c \in {"index_CompoundType", "index_MemberType"}
     /\ "kind" \notin DOMAIN e.attrs \/ "refid" \notin DOMAIN e.attrs
  \/ Class[c].shape = "para" /\ \E n \in FieldNames(c) : Children(e, n) # <<>>
  \/ /\ Class[c].shape \in {"value", "mixedvalue", "para"}
     /\ \E k \in Range(e.kids) : k.node = "cdata" /\ k.word \in Special

(* What is written is XML unless a text that needs quotes stands between   *)
(* elements, or in a simple element between texts (MixedContainer.export,  *)
(* compoundsuper.py:127-150, quotes nothing).                              *)
UnquotedBetweenElements(c, e) ==
  /\ Class[c].shape = "mixed"
  /\ \E k \in Range(e.kids) :
       \/ k.node = "text" /\ k.word \in Special
       \/ /\ IsElement(k) /\ k.name \in FieldNames(c) /\ IsText(FieldOf(c, k.name))
          /\ \E t \in Range(k.kids) : t.word \in Special

(* export writes what build read: the written file can be read again but    *)
(* for such a text, and the object tree of it is the object tree it was     *)
(* written from, but for what LosesSomething names (the export and build    *)
(* methods of one class list the same children).                            *)
ExportKeepsAll ==
  LET parts == Written(class, doc) IN
  /\ phase \in {"malformed", "reread"} =>
       (phase = "malformed" <=> \E p \in parts : UnquotedBetweenElements(p[1], p[2]))
  /\ phase = "reread" =>
       (again = obj <=> ~\E p \in parts : LosesSomething(p[1], p[2]))

(* The text of a description, read off the document: the texts that no     *)
(* element hides, in their order, each paragraph followed by a break.      *)
RECURSIVE Visible(_, _)
Visible(c, e) ==
  LET Of(k) ==
        CASE k.node = "text" -> <<k.word>>
          [] IsElement(k) /\ k.name \in ContentFields(c) ->
               Visible(FieldOf(c, k.name).class, k)
               \o (IF k.name = "para" THEN <<Break>> ELSE <<>>)
          [] OTHER -> <<>>
  IN FlattenSeq([i \in DOMAIN e.kids |-> Of(e.kids[i])])

(* A docstring has every visible text once and in order, references        *)
(* included, and a break between paragraphs and nowhere else (text.py      *)
(* looks at content, which has the references, before content_).           *)
DescriptionIsVisibleText ==
  phase = "described" => text = Strip(Visible(class, doc))

=============================================================================
