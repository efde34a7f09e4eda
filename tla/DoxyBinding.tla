---------------------------- MODULE DoxyBinding ----------------------------
(***************************************************************************)
(* The XML binding of gr-talir's documentation tools (doxyxml/generated):  *)
(* one class per complexType of Doxygen's XML.  build() fills an object    *)
(* from a DOM element, export() writes it back.  parse, of compoundsuper.py *)
(* and of indexsuper.py, reads a file and prints what export makes of it.  *)
(*                                                                         *)
(* A class is a row: the attributes it reads, those converted with int(),  *)
(* those written even when absent, the child elements it knows, and        *)
(* whether it keeps its text (valueOf_) and its content in order           *)
(* (content_).  build and export are written once, over the rows; the      *)
(* classes differ in nothing else.  compoundsuper.py run by itself uses    *)
(* these classes as they are (Base); doxyindex.py uses the subclasses of   *)
(* compound.py and index.py instead (Loaded), and exports nothing.         *)
(*                                                                         *)
(* Text is a sequence of words; the word "markup" needs quoting in XML.    *)
(* White space between elements, CDATA sections and text that is not ASCII *)
(* are left out.                                                           *)
(***************************************************************************)
EXTENDS Naturals, Sequences, FiniteSets, SequencesExt

CONSTANT Elements   \* pairs <<class, element>> handed to build

VARIABLES
  phase,    \* what has been done with the element
  element,  \* the pair being worked on
  object,   \* what build made of it
  again     \* what build makes of the exported object

bindVars == <<phase, element, object, again>>

-----------------------------------------------------------------------------
(* Rows of the class table *)

\* How a class keeps the children of one tag: the last one (One), all (List),
\* or in its content (Item); as an object or as text.  A title that
\* compounddefType keeps as an object is Quoted when written.
Kid(how, class) == [how |-> how, class |-> class]
Txt == "#text"
AText == Kid("text", Txt)
Texts == Kid("list", Txt)
Simple == Kid("item", Txt)
One(c) == Kid("one", c)
List(c) == Kid("list", c)
Item(c) == Kid("item", c)
Quoted(c) == Kid("quoted", c)
NoKids == [t \in {} |-> AText]

Row(attrs, ints, kids, content, value) ==
  [attrs |-> attrs, ints |-> ints, always |-> {}, kids |-> kids,
   content |-> content, value |-> value]
Members(attrs, ints, kids) == Row(attrs, ints, kids, FALSE, FALSE)
Value(attrs, ints) == Row(attrs, ints, NoKids, FALSE, TRUE)
Both(attrs, ints) == Row(attrs, ints, NoKids, TRUE, TRUE)
Mixed(attrs, ints, kids) == Row(attrs, ints, kids, TRUE, FALSE)
Always(attrs, row) == [row EXCEPT !.always = attrs]

-----------------------------------------------------------------------------
(* compoundsuper.py and indexsuper.py (whose DoxygenType is IndexType);     *)
(* a trailing underscore marks a class named in lower case                  *)

DoxygenType ==
  Always({"version"}, Members({"version"}, {}, [compounddef |->
    One("compounddefType")]))
compounddefType ==
  Members({"kind", "prot", "id"}, {}, [compoundname |-> AText, title |->
    Quoted("docTitleType"), basecompoundref |-> List("compoundRefType"),
    derivedcompoundref |-> List("compoundRefType"), includes |->
    List("incType"), includedby |-> List("incType"), incdepgraph |->
    One("graphType"), invincdepgraph |-> One("graphType"), innerdir |->
    List("refType"), innerfile |-> List("refType"), innerclass |->
    List("refType"), innernamespace |-> List("refType"), innerpage |->
    List("refType"), innergroup |-> List("refType"), templateparamlist |->
    One("templateparamlistType"), sectiondef |-> List("sectiondefType"),
    briefdescription |-> One("descriptionType"), detaileddescription |->
    One("descriptionType"), inheritancegraph |-> One("graphType"),
    collaborationgraph |-> One("graphType"), programlisting |->
    One("listingType"), location |-> One("locationType"), listofallmembers
    |-> One("listofallmembersType")])
listofallmembersType == Members({}, {}, [member |-> List("memberRefType")])
memberRefType ==
  Members({"virt", "prot", "refid", "ambiguityscope"}, {}, [scope |-> AText,
    name |-> AText])
scope_ == Value({}, {})
name_ == Value({}, {})
compoundRefType == Both({"virt", "prot", "refid"}, {})
reimplementType == Both({"refid"}, {})
incType == Both({"local", "refid"}, {})
refType == Both({"prot", "refid"}, {})
refTextType == Both({"refid", "kindref", "external"}, {})
sectiondefType ==
  Members({"kind"}, {}, [header |-> AText, description |->
    One("descriptionType"), memberdef |-> List("memberdefType")])
memberdefType ==
  Members({"initonly", "kind", "volatile", "const", "raise", "virt",
    "readable", "prot", "explicit", "new", "final", "writable", "add",
    "static", "remove", "sealed", "mutable", "gettable", "inline",
    "settable", "id"}, {}, [templateparamlist |->
    One("templateparamlistType"), type |-> One("linkedTextType"), definition
    |-> AText, argsstring |-> AText, name |-> AText, read |-> AText, write
    |-> AText, bitfield |-> AText, reimplements |-> List("reimplementType"),
    reimplementedby |-> List("reimplementType"), param |->
    List("paramType"), enumvalue |-> List("enumvalueType"), initializer |->
    One("linkedTextType"), exceptions |-> One("linkedTextType"),
    briefdescription |-> One("descriptionType"), detaileddescription |->
    One("descriptionType"), inbodydescription |-> One("descriptionType"),
    location |-> One("locationType"), references |-> List("referenceType"),
    referencedby |-> List("referenceType")])
definition_ == Value({}, {})
argsstring_ == Value({}, {})
read_ == Value({}, {})
write_ == Value({}, {})
bitfield_ == Value({}, {})
descriptionType ==
  Mixed({}, {}, [title |-> Item("docTitleType"), para |->
    Item("docParaType"), sect1 |-> Item("docSect1Type"), internal |->
    Item("docInternalType")])
enumvalueType ==
  Mixed({"prot", "id"}, {}, [name |-> Simple, initializer |->
    Item("linkedTextType"), briefdescription |-> Item("descriptionType"),
    detaileddescription |-> Item("descriptionType")])
templateparamlistType == Members({}, {}, [param |-> List("paramType")])
paramType ==
  Members({}, {}, [type |-> One("linkedTextType"), declname |-> AText,
    defname |-> AText, array |-> AText, defval |-> One("linkedTextType"),
    briefdescription |-> One("descriptionType")])
declname_ == Value({}, {})
defname_ == Value({}, {})
array_ == Value({}, {})
linkedTextType == Mixed({}, {}, [ref |-> Item("docRefTextType")])
graphType == Members({}, {}, [node |-> List("nodeType")])
nodeType ==
  Members({"id"}, {}, [label |-> AText, link |-> One("linkType"), childnode
    |-> List("childnodeType")])
label_ == Value({}, {})
childnodeType == Members({"relation", "refid"}, {}, [edgelabel |-> Texts])
edgelabel_ == Value({}, {})
linkType == Value({"refid", "external"}, {})
listingType == Members({}, {}, [codeline |-> List("codelineType")])
codelineType ==
  Members({"external", "lineno", "refkind", "refid"}, {"lineno"}, [highlight
    |-> List("highlightType")])
highlightType ==
  Mixed({"class"}, {}, [sp |-> Simple, ref |-> Item("docRefTextType")])
sp_ == Value({}, {})
referenceType ==
  Both({"endline", "startline", "refid", "compoundref"}, {"endline",
    "startline"})
locationType ==
  Value({"bodystart", "line", "bodyend", "bodyfile", "file"}, {"bodystart",
    "line", "bodyend"})
docSect1Type ==
  Mixed({"id"}, {}, [title |-> Item("docTitleType"), para |->
    Item("docParaType"), sect2 |-> Item("docSect2Type"), internal |->
    Item("docInternalS1Type")])
docSect2Type ==
  Mixed({"id"}, {}, [title |-> Item("docTitleType"), para |->
    Item("docParaType"), sect3 |-> Item("docSect3Type"), internal |->
    Item("docInternalS2Type")])
docSect3Type ==
  Mixed({"id"}, {}, [title |-> Item("docTitleType"), para |->
    Item("docParaType"), sect4 |-> Item("docSect4Type"), internal |->
    Item("docInternalS3Type")])
docSect4Type ==
  Mixed({"id"}, {}, [title |-> Item("docTitleType"), para |->
    Item("docParaType"), internal |-> Item("docInternalS4Type")])
docInternalType ==
  Mixed({}, {}, [para |-> Item("docParaType"), sect1 |->
    Item("docSect1Type")])
docInternalS1Type ==
  Mixed({}, {}, [para |-> Item("docParaType"), sect2 |->
    Item("docSect2Type")])
docInternalS2Type ==
  Mixed({}, {}, [para |-> Item("docParaType"), sect3 |->
    Item("docSect3Type")])
docInternalS3Type ==
  Mixed({}, {}, [para |-> Item("docParaType"), sect3 |->
    Item("docSect4Type")])
docInternalS4Type == Mixed({}, {}, [para |-> Item("docParaType")])
docTitleType == Both({}, {})
docParaType == Both({}, {})
docMarkupType == Both({}, {})
docURLLink == Both({"url"}, {})
docAnchorType == Both({"id"}, {})
docFormulaType == Both({"id"}, {})
docIndexEntryType ==
  Members({}, {}, [primaryie |-> AText, secondaryie |-> AText])
docListType == Members({}, {}, [listitem |-> List("docListItemType")])
docListItemType == Members({}, {}, [para |-> List("docParaType")])
docSimpleSectType ==
  Members({"kind"}, {}, [title |-> One("docTitleType"), para |->
    List("docParaType")])
docVarListEntryType == Members({}, {}, [term |-> One("docTitleType")])
docVariableListType == Value({}, {})
docRefTextType == Both({"refid", "kindref", "external"}, {})
docTableType ==
  Members({"rows", "cols"}, {"rows", "cols"}, [row |-> List("docRowType"),
    caption |-> One("docCaptionType")])
docRowType == Members({}, {}, [entry |-> List("docEntryType")])
docEntryType == Members({"thead"}, {}, [para |-> List("docParaType")])
docCaptionType == Both({}, {})
docHeadingType == Both({"level"}, {"level"})
docImageType == Both({"width", "type", "name", "height"}, {})
docDotFileType == Both({"name"}, {})
docTocItemType == Both({"id"}, {})
docTocListType == Members({}, {}, [tocitem |-> List("docTocItemType")])
docLanguageType == Members({"langid"}, {}, [para |-> List("docParaType")])
docParamListType ==
  Members({"kind"}, {}, [parameteritem |-> List("docParamListItem")])
docParamListItem ==
  Members({}, {}, [parameternamelist |-> List("docParamNameList"),
    parameterdescription |-> One("descriptionType")])
docParamNameList == Members({}, {}, [parametername |-> List("docParamName")])
docParamName == Mixed({"direction"}, {}, [ref |-> Item("docRefTextType")])
docXRefSectType ==
  Members({"id"}, {}, [xreftitle |-> Texts, xrefdescription |->
    One("descriptionType")])
docCopyType ==
  Members({"link"}, {}, [para |-> List("docParaType"), sect1 |->
    List("docSect1Type"), internal |-> One("docInternalType")])
docCharType == Value({"char"}, {})
docEmptyType == Value({}, {})
IndexType ==
  Always({"version"}, Members({"version"}, {}, [compound |->
    List("CompoundType")]))
CompoundType ==
  Always({"kind", "refid"}, Members({"kind", "refid"}, {}, [name |-> AText,
    member |-> List("MemberType")]))
MemberType ==
  Always({"kind", "refid"}, Members({"kind", "refid"}, {}, [name |->
    AText]))

\* compound.py: docParaTypeSub also keeps references in its content, and
\* parameter lists and simple sections in members of their own.
docParaTypeSub ==
  [docParaType EXCEPT !.kids =
     [ref |-> Item("docRefTextType"), parameterlist |-> List("docParamListType"),
      simplesect |-> List("docSimpleSectType")]]

Schema ==
  [DoxygenType |-> DoxygenType, compounddefType |-> compounddefType,
   listofallmembersType |-> listofallmembersType, memberRefType |->
   memberRefType, scope_ |-> scope_, name_ |-> name_, compoundRefType |->
   compoundRefType, reimplementType |-> reimplementType, incType |->
   incType, refType |-> refType, refTextType |-> refTextType, sectiondefType
   |-> sectiondefType, memberdefType |-> memberdefType, definition_ |->
   definition_, argsstring_ |-> argsstring_, read_ |-> read_, write_ |->
   write_, bitfield_ |-> bitfield_, descriptionType |-> descriptionType,
   enumvalueType |-> enumvalueType, templateparamlistType |->
   templateparamlistType, paramType |-> paramType, declname_ |-> declname_,
   defname_ |-> defname_, array_ |-> array_, linkedTextType |->
   linkedTextType, graphType |-> graphType, nodeType |-> nodeType, label_
   |-> label_, childnodeType |-> childnodeType, edgelabel_ |-> edgelabel_,
   linkType |-> linkType, listingType |-> listingType, codelineType |->
   codelineType, highlightType |-> highlightType, sp_ |-> sp_, referenceType
   |-> referenceType, locationType |-> locationType, docSect1Type |->
   docSect1Type, docSect2Type |-> docSect2Type, docSect3Type |->
   docSect3Type, docSect4Type |-> docSect4Type, docInternalType |->
   docInternalType, docInternalS1Type |-> docInternalS1Type,
   docInternalS2Type |-> docInternalS2Type, docInternalS3Type |->
   docInternalS3Type, docInternalS4Type |-> docInternalS4Type, docTitleType
   |-> docTitleType, docParaType |-> docParaType, docMarkupType |->
   docMarkupType, docURLLink |-> docURLLink, docAnchorType |->
   docAnchorType, docFormulaType |-> docFormulaType, docIndexEntryType |->
   docIndexEntryType, docListType |-> docListType, docListItemType |->
   docListItemType, docSimpleSectType |-> docSimpleSectType,
   docVarListEntryType |-> docVarListEntryType, docVariableListType |->
   docVariableListType, docRefTextType |-> docRefTextType, docTableType |->
   docTableType, docRowType |-> docRowType, docEntryType |-> docEntryType,
   docCaptionType |-> docCaptionType, docHeadingType |-> docHeadingType,
   docImageType |-> docImageType, docDotFileType |-> docDotFileType,
   docTocItemType |-> docTocItemType, docTocListType |-> docTocListType,
   docLanguageType |-> docLanguageType, docParamListType |->
   docParamListType, docParamListItem |-> docParamListItem, docParamNameList
   |-> docParamNameList, docParamName |-> docParamName, docXRefSectType |->
   docXRefSectType, docCopyType |-> docCopyType, docCharType |->
   docCharType, docEmptyType |-> docEmptyType, IndexType |-> IndexType,
   CompoundType |-> CompoundType, MemberType |-> MemberType]

\* The classes in use, and what a text member or a title holds if the element
\* has none: None, or the empty text the subclasses have as a default.
Base == [rows |-> Schema, absent |-> <<>>]

-----------------------------------------------------------------------------
(* DOM nodes and objects *)

NoAttrs == [a \in {} |-> ""]
Node(t, attrs, kids) == [tag |-> t, attrs |-> attrs, kids |-> kids, text |-> <<>>]
TextNode(words) == [tag |-> Txt, attrs |-> NoAttrs, kids |-> <<>>, text |-> words]
IsText(n) == n.tag = Txt

Object(class, attrs, slots, content, value) ==
  [class |-> class, attrs |-> attrs, slots |-> slots, content |-> content, value |-> value]
TextObject(words) == Object(Txt, NoAttrs, [t \in {} |-> <<>>], <<>>, words)

Loaded == [rows |-> [Schema EXCEPT !.docParaType = docParaTypeSub],
           absent |-> <<TextObject(<<>>)>>]

Map(s, Op(_)) == [i \in DOMAIN s |-> Op(s[i])]
OwnText(n) == FlattenSeq(Map(n.kids, LAMBDA k : k.text))
Named(n, t) == SelectSeq(n.kids, LAMBDA k : k.tag = t)

\* The tags a class stores in a member of its own.
Slots(row) == {t \in DOMAIN row.kids : row.kids[t].how # "item"}

-----------------------------------------------------------------------------
(* build *)

\* int() accepts white space around the digits and drops it.
Integer(v) == IF v = "padded" THEN "number" ELSE v

\* build raises: a number that is none (ValueError), or an element where only
\* text is read (its nodeValue is None, a TypeError).
RECURSIVE BuildRaises(_, _, _)
BuildRaises(in, class, n) ==
  IF class = Txt
  THEN \E i \in DOMAIN n.kids : ~IsText(n.kids[i])
  ELSE LET row == in.rows[class] IN
       \/ \E a \in row.ints \cap DOMAIN n.attrs : n.attrs[a] \notin {"number", "padded"}
       \/ \E i \in DOMAIN n.kids :
            /\ n.kids[i].tag \in DOMAIN row.kids
            /\ BuildRaises(in, row.kids[n.kids[i].tag].class, n.kids[i])

\* What a member holds after all children of its tag were seen.
Stored(how, built, absent) ==
  CASE how = "list"                            -> built
    [] built = <<>> /\ how \in {"text", "quoted"} -> absent
    [] built = <<>> /\ how = "one"             -> <<>>
    [] OTHER                                   -> <<Last(built)>>

RECURSIVE Build(_, _, _)
Build(in, class, n) ==
  IF class = Txt THEN TextObject(OwnText(n))
  ELSE LET row == in.rows[class]
           Kept(k) == IsText(k) \/ k.tag \in DOMAIN row.kids \ Slots(row)
           Item_(k) == [tag |-> k.tag,
                        obj |-> IF IsText(k) THEN TextObject(k.text)
                                ELSE Build(in, row.kids[k.tag].class, k)]
           Slot(t) == Stored(row.kids[t].how,
                             Map(Named(n, t), LAMBDA k : Build(in, row.kids[t].class, k)),
                             in.absent)
       IN Object(class,
            [a \in row.attrs \cap DOMAIN n.attrs |->
               IF a \in row.ints THEN Integer(n.attrs[a]) ELSE n.attrs[a]],
            [t \in Slots(row) |-> Slot(t)],
            IF row.content THEN Map(SelectSeq(n.kids, Kept), Item_) ELSE <<>>,
            IF row.value THEN OwnText(n) ELSE <<>>)

-----------------------------------------------------------------------------
(* export, and how a parser sees the result *)

\* exportAttributes: what the object has, and "None" for an absent attribute
\* written without a test.
WrittenAttrs(o) ==
  [a \in DOMAIN o.attrs \cup Schema[o.class].always |->
     IF a \in DOMAIN o.attrs THEN o.attrs[a] ELSE "None"]

\* A MixedContainer writes its text as it is; in a parser's eyes the words
\* that needed quoting make the document ill-formed.
Raw(words) == Map(words, LAMBDA w : IF w = "markup" THEN "illformed" ELSE w)

\* Mutant: a value written without quote_xml.
QuoteNot(words) == Raw(words)

\* valueOf_ and text members go through quote_xml, which the parser undoes.
Quote(words) == words

TextNodes(words) == IF words = <<>> THEN <<>> ELSE <<TextNode(words)>>

\* Text written next to text is read back as one text node.
Joined(kids) ==
  FoldLeft(LAMBDA acc, k :
             IF acc # <<>> /\ IsText(k) /\ IsText(Last(acc))
             THEN Front(acc) \o TextNodes(Last(acc).text \o k.text)
             ELSE Append(acc, k),
           <<>>, kids)

RECURSIVE Export(_, _)
Export(t, o) ==
  IF o.class = Txt THEN Node(t, NoAttrs, TextNodes(Quote(o.value)))
  ELSE LET row == Schema[o.class]
           \* compounddefType writes '%s' of the title object: its repr.
           Written(u, p) == IF row.kids[u].how = "quoted"
                            THEN Node(u, NoAttrs, <<TextNode(<<"repr">>)>>)
                            ELSE Export(u, p)
           Slot(u) == Map(o.slots[u], LAMBDA p : Written(u, p))
           Item_(c) == CASE IsText(c)        -> TextNode(Raw(c.obj.value))
                         [] c.obj.class = Txt -> Node(c.tag, NoAttrs, TextNodes(Raw(c.obj.value)))
                         [] OTHER            -> Export(c.tag, c.obj)
       IN Node(t, WrittenAttrs(o),
               CASE row.value                  -> TextNodes(Quote(o.value))
                 [] row.content /\ ~row.value  -> Joined(Map(o.content, Item_))
                 [] OTHER -> MapThenFoldSet(LAMBDA x, y : x \o y, <<>>, Slot,
                                            LAMBDA S : CHOOSE u \in S : TRUE, Slots(row)))

RECURSIVE IllFormed(_)
IllFormed(n) == \/ \E i \in DOMAIN n.text : n.text[i] = "illformed"
                \/ \E i \in DOMAIN n.kids : IllFormed(n.kids[i])

-----------------------------------------------------------------------------
(* A caller of the binding: build, export, and build again from the result *)

Nothing == [class |-> "nothing"]

BindInit ==
  /\ phase = "read"
  /\ element \in Elements
  /\ object = Nothing
  /\ again = Nothing

BuildIt ==
  /\ phase = "read"
  /\ IF BuildRaises(Base, element[1], element[2])
     THEN phase' = "raised" /\ UNCHANGED object
     ELSE phase' = "built" /\ object' = Build(Base, element[1], element[2])
  /\ UNCHANGED <<element, again>>

ReadAgain ==
  /\ phase = "built"
  /\ LET xml == Export(element[2].tag, object) IN
     IF IllFormed(xml)
     THEN phase' = "unreadable" /\ UNCHANGED again
     ELSE phase' = "readable" /\ again' = Build(Base, object.class, xml)
  /\ UNCHANGED <<element, object>>

BindNext == BuildIt \/ ReadAgain
BindSpec == BindInit /\ [][BindNext]_bindVars

-----------------------------------------------------------------------------
(* Properties *)

\* An object export writes completely, members and all: no compounddefType with
\* a title in it (which becomes the text of a Python repr), every attribute that
\* is written without a test present, nothing in a value class but text, no two
\* texts in a row in its content, nothing to quote in mixed content.
RECURSIVE Faithful(_)
Faithful(o) ==
  \/ o.class = Txt
  \/ LET row == Schema[o.class] IN
     /\ \A t \in Slots(row) :
          /\ row.kids[t].how = "quoted" => o.slots[t] = <<>>
          /\ \A i \in DOMAIN o.slots[t] : ~row.value /\ Faithful(o.slots[t][i])
     /\ row.always \subseteq DOMAIN o.attrs
     /\ \A i \in DOMAIN o.content :
          LET c == o.content[i] IN
          /\ i > 1 => ~(IsText(c) /\ IsText(o.content[i - 1]))
          /\ row.value => IsText(c)
          /\ ~row.value /\ c.obj.class = Txt => ~Contains(c.obj.value, "markup")
          /\ Faithful(c.obj)

\* parse prints the document it has read.  What it prints builds the same object
\* exactly when the object is Faithful: a compound that has a title does not
\* survive, nor one with a text that needs quoting between markup; a document
\* of plain paragraphs does.
RoundTrip ==
  /\ phase = "readable" => (again = object <=> Faithful(object))
  /\ phase = "unreadable" => ~Faithful(object)

=============================================================================
