----------------------------- MODULE DoxySchema -----------------------------
(***************************************************************************)
(* The classes that generateDS made of doxygen's XML schemas, for the      *)
(* documentation scripts in docs/doxygen: compoundsuper.py for the file of *)
(* a class, a file or a group, indexsuper.py for index.xml.                *)
(*                                                                         *)
(* The generated code is one pattern, repeated for every class with other  *)
(* names.  This module has the names: one definition per class, with the   *)
(* attributes and the child elements its methods (constructor, accessors,  *)
(* buildAttributes, buildChildren, the export and exportLiteral methods,   *)
(* hasContent_) know.  DoxyXml has the pattern: what those methods do.     *)
(*                                                                         *)
(* Left out are the classes no document ever makes an object of: the code  *)
(* calls the factory of none of docListType, docTableType, docMarkupType,  *)
(* docXRefSectType and so on, because docParaType, the class of the        *)
(* element that holds them, has no case for any child element.             *)
(***************************************************************************)
EXTENDS Sequences

-----------------------------------------------------------------------------
(* A child element: the attribute of the object that keeps it.  String:    *)
(* the text of the last such child.  Strings: of each of them.  Object:    *)
(* the last such child, built by its class.  Objects: all of them.         *)

String(name)  == [name |-> name, keeps |-> "string", class |-> "str"]

Strings(name) == [name |-> name, keeps |-> "strings", class |-> "str"]

Object(name, class)  == [name |-> name, keeps |-> "object", class |-> class]

Objects(name, class) == [name |-> name, keeps |-> "objects", class |-> class]

(* A class.  Structured: only child elements, each kept under its name.    *)
(* Mixed: text and child elements, kept in content_ in their order.        *)
(* Value: only text, kept in valueOf_.  MixedValue: the text is kept in    *)
(* valueOf_ and once more in content_.                                     *)

Structured(attrs, fields) ==
  [shape |-> "structured", attrs |-> attrs, fields |-> fields]

Mixed(attrs, fields) ==
  [shape |-> "mixed", attrs |-> attrs, fields |-> fields]

Value(attrs)      == [shape |-> "value", attrs |-> attrs, fields |-> <<>>]

MixedValue(attrs) == [shape |-> "mixedvalue", attrs |-> attrs, fields |-> <<>>]

(* docParaType is a MixedValue that compound.py extends by hand: text and  *)
(* references are kept in content, parameter lists and simple sections     *)
(* under their names.  Only the class docParaType has this shape.          *)
Para(attrs, fields) ==
  [shape |-> "para", attrs |-> attrs, fields |-> fields]

(* The attributes that are read with int(), in every class that has them.  *)
IntAttributes ==
  {"lineno", "endline", "startline", "bodystart", "line", "bodyend"}

-----------------------------------------------------------------------------
(* compoundsuper.py *)

DoxygenType ==
  Structured({"version"},
             << Object("compounddef", "compounddefType") >>)

compounddefType ==
  Structured({"kind", "prot", "id"},
             << String("compoundname"), Object("title", "docTitleType"),
                Objects("basecompoundref", "compoundRefType"),
                Objects("derivedcompoundref", "compoundRefType"),
                Objects("includes", "incType"),
                Objects("includedby", "incType"),
                Object("incdepgraph", "graphType"),
                Object("invincdepgraph", "graphType"),
                Objects("innerdir", "refType"),
                Objects("innerfile", "refType"),
                Objects("innerclass", "refType"),
                Objects("innernamespace", "refType"),
                Objects("innerpage", "refType"),
                Objects("innergroup", "refType"),
                Object("templateparamlist", "templateparamlistType"),
                Objects("sectiondef", "sectiondefType"),
                Object("briefdescription", "descriptionType"),
                Object("detaileddescription", "descriptionType"),
                Object("inheritancegraph", "graphType"),
                Object("collaborationgraph", "graphType"),
                Object("programlisting", "listingType"),
                Object("location", "locationType"),
                Object("listofallmembers", "listofallmembersType") >>)

listofallmembersType ==
  Structured({},
             << Objects("member", "memberRefType") >>)

memberRefType ==
  Structured({"virt", "prot", "refid", "ambiguityscope"},
             << String("scope"), String("name") >>)

compoundRefType == MixedValue({"virt", "prot", "refid"})

reimplementType == MixedValue({"refid"})

incType == MixedValue({"local", "refid"})

refType == MixedValue({"prot", "refid"})

sectiondefType ==
  Structured({"kind"},
             << String("header"), Object("description", "descriptionType"),
                Objects("memberdef", "memberdefType") >>)

memberdefType ==
  Structured({"initonly", "kind", "volatile", "const", "raise", "virt",
              "readable", "prot", "explicit", "new", "final", "writable",
              "add", "static", "remove", "sealed", "mutable", "gettable",
              "inline", "settable", "id"},
             << Object("templateparamlist", "templateparamlistType"),
                Object("type", "linkedTextType"), String("definition"),
                String("argsstring"), String("name"), String("read"),
                String("write"), String("bitfield"),
                Objects("reimplements", "reimplementType"),
                Objects("reimplementedby", "reimplementType"),
                Objects("param", "paramType"),
                Objects("enumvalue", "enumvalueType"),
                Object("initializer", "linkedTextType"),
                Object("exceptions", "linkedTextType"),
                Object("briefdescription", "descriptionType"),
                Object("detaileddescription", "descriptionType"),
                Object("inbodydescription", "descriptionType"),
                Object("location", "locationType"),
                Objects("references", "referenceType"),
                Objects("referencedby", "referenceType") >>)

descriptionType ==
  Mixed({},
        << Objects("title", "docTitleType"), Objects("para", "docParaType"),
           Objects("sect1", "docSect1Type"),
           Objects("internal", "docInternalType") >>)

enumvalueType ==
  Mixed({"prot", "id"},
        << Strings("name"), Objects("initializer", "linkedTextType"),
           Objects("briefdescription", "descriptionType"),
           Objects("detaileddescription", "descriptionType") >>)

templateparamlistType ==
  Structured({},
             << Objects("param", "paramType") >>)

paramType ==
  Structured({},
             << Object("type", "linkedTextType"), String("declname"),
                String("defname"), String("array"),
                Object("defval", "linkedTextType"),
                Object("briefdescription", "descriptionType") >>)

linkedTextType ==
  Mixed({},
        << Objects("ref", "docRefTextType") >>)

graphType ==
  Structured({},
             << Objects("node", "nodeType") >>)

nodeType ==
  Structured({"id"},
             << String("label"), Object("link", "linkType"),
                Objects("childnode", "childnodeType") >>)

childnodeType ==
  Structured({"relation", "refid"},
             << Strings("edgelabel") >>)

linkType == Value({"refid", "external"})

listingType ==
  Structured({},
             << Objects("codeline", "codelineType") >>)

codelineType ==
  Structured({"lineno", "external", "refkind", "refid"},
             << Objects("highlight", "highlightType") >>)

highlightType ==
  Mixed({"class"},
        << Strings("sp"), Objects("ref", "docRefTextType") >>)

referenceType == MixedValue({"endline", "startline", "refid", "compoundref"})

locationType == Value({"bodystart", "line", "bodyend", "bodyfile", "file"})

docSect1Type ==
  Mixed({"id"},
        << Objects("title", "docTitleType"), Objects("para", "docParaType"),
           Objects("sect2", "docSect2Type"),
           Objects("internal", "docInternalS1Type") >>)

docSect2Type ==
  Mixed({"id"},
        << Objects("title", "docTitleType"), Objects("para", "docParaType"),
           Objects("sect3", "docSect3Type"),
           Objects("internal", "docInternalS2Type") >>)

docSect3Type ==
  Mixed({"id"},
        << Objects("title", "docTitleType"), Objects("para", "docParaType"),
           Objects("sect4", "docSect4Type"),
           Objects("internal", "docInternalS3Type") >>)

docSect4Type ==
  Mixed({"id"},
        << Objects("title", "docTitleType"), Objects("para", "docParaType"),
           Objects("internal", "docInternalS4Type") >>)

docInternalType ==
  Mixed({},
        << Objects("para", "docParaType"), Objects("sect1", "docSect1Type") >>)

docInternalS1Type ==
  Mixed({},
        << Objects("para", "docParaType"), Objects("sect2", "docSect2Type") >>)

docInternalS2Type ==
  Mixed({},
        << Objects("para", "docParaType"), Objects("sect3", "docSect3Type") >>)

docInternalS3Type ==
  Mixed({},
        << Objects("para", "docParaType"), Objects("sect3", "docSect4Type") >>)

docInternalS4Type ==
  Mixed({},
        << Objects("para", "docParaType") >>)

docTitleType == MixedValue({})

docParaType ==
  Para({},
       << Objects("ref", "docRefTextType"),
          Objects("parameterlist", "docParamListType"),
          Objects("simplesect", "docSimpleSectType") >>)

docSimpleSectType ==
  Structured({"kind"},
             << Object("title", "docTitleType"),
                Objects("para", "docParaType") >>)

docRefTextType == MixedValue({"refid", "kindref", "external"})

docParamListType ==
  Structured({"kind"},
             << Objects("parameteritem", "docParamListItem") >>)

docParamListItem ==
  Structured({},
             << Objects("parameternamelist", "docParamNameList"),
                Object("parameterdescription", "descriptionType") >>)

docParamNameList ==
  Structured({},
             << Objects("parametername", "docParamName") >>)

docParamName ==
  Mixed({"direction"},
        << Objects("ref", "docRefTextType") >>)

-----------------------------------------------------------------------------
(* indexsuper.py *)

index_DoxygenType ==
  Structured({"version"},
             << Objects("compound", "index_CompoundType") >>)

index_CompoundType ==
  Structured({"kind", "refid"},
             << String("name"), Objects("member", "index_MemberType") >>)

index_MemberType ==
  Structured({"kind", "refid"},
             << String("name") >>)
-----------------------------------------------------------------------------
(* The classes by their names.  Those of indexsuper.py have names that     *)
(* compoundsuper.py uses as well: they get a prefix.                       *)
Class ==
  [ DoxygenType |-> DoxygenType, compounddefType |-> compounddefType,
    listofallmembersType |-> listofallmembersType,
    memberRefType |-> memberRefType, compoundRefType |-> compoundRefType,
    reimplementType |-> reimplementType, incType |-> incType,
    refType |-> refType, sectiondefType |-> sectiondefType,
    memberdefType |-> memberdefType, descriptionType |-> descriptionType,
    enumvalueType |-> enumvalueType,
    templateparamlistType |-> templateparamlistType, paramType |-> paramType,
    linkedTextType |-> linkedTextType, graphType |-> graphType,
    nodeType |-> nodeType, childnodeType |-> childnodeType,
    linkType |-> linkType, listingType |-> listingType,
    codelineType |-> codelineType, highlightType |-> highlightType,
    referenceType |-> referenceType, locationType |-> locationType,
    docSect1Type |-> docSect1Type, docSect2Type |-> docSect2Type,
    docSect3Type |-> docSect3Type, docSect4Type |-> docSect4Type,
    docInternalType |-> docInternalType,
    docInternalS1Type |-> docInternalS1Type,
    docInternalS2Type |-> docInternalS2Type,
    docInternalS3Type |-> docInternalS3Type,
    docInternalS4Type |-> docInternalS4Type, docTitleType |-> docTitleType,
    docParaType |-> docParaType, docSimpleSectType |-> docSimpleSectType,
    docRefTextType |-> docRefTextType, docParamListType |-> docParamListType,
    docParamListItem |-> docParamListItem,
    docParamNameList |-> docParamNameList, docParamName |-> docParamName,
    index_DoxygenType |-> index_DoxygenType,
    index_CompoundType |-> index_CompoundType,
    index_MemberType |-> index_MemberType ]

ClassNames == DOMAIN Class

FieldNames(c) ==
  {Class[c].fields[i].name : i \in DOMAIN Class[c].fields}

=============================================================================
