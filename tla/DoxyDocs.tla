------------------------------ MODULE DoxyDocs ------------------------------
(***************************************************************************)
(* swig_doc.py on top of the XML binding: the compound files it reads are  *)
(* what DoxyBinding builds from their XML, seen through text.py and        *)
(* doxyindex.py.  The binding's own round trip runs beside it, as a second *)
(* program over the same classes.                                          *)
(***************************************************************************)
EXTENDS DoxyBinding, SwigDoc

\* text.py, description: the text of an object's content, depth first; what
\* build left out of the content (bold text, lists, tables) is not in it.
RECURSIVE Description(_)
Description(o) ==
  IF o.class = Txt THEN o.value ELSE FlattenSeq(Map(o.content, LAMBDA c : Description(c.obj)))

\* A member the class does not have counts as absent.
DescriptionOf(o, member) ==
  IF member \in DOMAIN o.slots THEN FlattenSeq(Map(o.slots[member], Description)) ELSE <<>>

\* set_descriptions
Descriptions(o) ==
  DescriptionOf(o, "briefdescription") \o DescriptionOf(o, "detaileddescription")

\* set_parameters: the parameter lists of the paragraphs that are directly in
\* the detailed description.
ParameterItems(o) ==
  LET lists(c) == IF c.obj.class = "docParaType" THEN c.obj.slots["parameterlist"] ELSE <<>>
      ofDetailed(d) == FlattenSeq(Map(d.content, lists))
      all == FlattenSeq(Map(o.slots["detaileddescription"], ofDetailed))
  IN FlattenSeq(Map(all, LAMBDA l : l.slots["parameteritem"]))

\* Of all the names of a parameter the first one counts.
ItemWords(item) ==
  LET names == FlattenSeq(Map(item.slots["parameternamelist"],
                              LAMBDA l : l.slots["parametername"]))
  IN Description(Head(names)) \o DescriptionOf(item, "parameterdescription")
Parameters(o) == FlattenSeq(Map(ParameterItems(o), ItemWords))

\* DoxyFunction: a function without documented parameters has the declared ones.
ParamWords(prm) == prm.slots["declname"][1].value \o Descriptions(prm)
DeclaredParameters(m) == FlattenSeq(Map(m.slots["param"], ParamWords))
FunctionParams(m) == IF ParameterItems(m) = <<>> THEN DeclaredParameters(m) ELSE Parameters(m)

MemberFrom(m) ==
  [kind |-> m.attrs["kind"], name |-> Head(m.slots["name"][1].value), doc |-> Descriptions(m),
   params |-> IF m.attrs["kind"] = "function" THEN FunctionParams(m) ELSE <<>>]

\* retrieve_data: ill-formed XML is the one error that is caught.  A file
\* without a compounddef raises later, when its descriptions are taken.
Unusable(state) == [state |-> state, doc |-> <<>>, params |-> <<>>, members |-> <<>>]
FileFrom(xml) ==
  LET root == Build(Loaded, "DoxygenType", xml)
      c == root.slots["compounddef"][1]
  IN CASE IllFormed(xml) -> Unusable("broken")
       [] /\ ~IllFormed(xml)
          /\ BuildRaises(Loaded, "DoxygenType", xml) \/ root.slots["compounddef"] = <<>>
            -> Unusable("raises")
       [] OTHER ->
            [state |-> "ok", doc |-> Descriptions(c), params |-> Parameters(c),
             members |-> FlattenSeq(Map(c.slots["sectiondef"],
                           LAMBDA sec : Map(sec.slots["memberdef"], MemberFrom)))]

\* A run is of one of the two programs; the other's variables stay as they are.
DocsInit ==
  \/ BindInit /\ pc = "none" /\ index = <<>> /\ pos = 1 /\ di = <<>>
              /\ blocks = <<>> /\ blocks2 = <<>> /\ made = {} /\ out = {}
  \/ SwigInit /\ phase = "none" /\ element = <<>> /\ object = Nothing /\ again = Nothing

DocsNext ==
  \/ BindNext /\ UNCHANGED swigVars
  \/ SwigNext /\ UNCHANGED bindVars

DocsSpec == DocsInit /\ [][DocsNext]_<<bindVars, swigVars>>
=============================================================================
