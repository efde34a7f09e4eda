----------------------------- MODULE MCDoxyDocs -----------------------------
EXTENDS DoxyDocs

(* Elements for the round trip: for every class, the attributes it knows     *)
(* with good, padded and bad numbers, and for every tag it knows one or two  *)
(* children, between texts or not, an unknown element among them or not.     *)

AllAttrs(row, v) == [a \in row.attrs |-> IF a \in row.ints THEN v ELSE "id"]
AttrChoices(row) ==
  {NoAttrs, AllAttrs(row, "number")} \cup
    (IF row.ints = {} THEN {} ELSE {AllAttrs(row, "padded"), AllAttrs(row, "bad")})

Plain == TextNode(<<"plain">>)
Special == TextNode(<<"markup">>)
Bold == Node("bold", NoAttrs, <<Plain>>)

\* Children of a tag, with what one level more can do to them.
Children(row, t) ==
  LET class == row.kids[t].class
      inside == {<<>>, <<Plain>>, <<Special>>, <<Plain, Bold>>, <<Plain, Bold, Plain>>}
      attrs == IF class = Txt THEN NoAttrs ELSE AllAttrs(Schema[class], "number")
  IN {Node(t, attrs, k) : k \in inside} \cup {Node(t, NoAttrs, <<>>)}

Contents(row) ==
  {<<>>, <<Plain>>, <<Special>>, <<Plain, Bold, Plain>>}
  \cup UNION {UNION {{<<x>>, <<Plain, x, Plain>>, <<x, Node(t, NoAttrs, <<Plain>>)>>} :
                       x \in Children(row, t)} : t \in DOMAIN row.kids}

MCElements ==
  UNION {{<<class, Node("e", a, <<>>)>> : a \in AttrChoices(Schema[class])}
         \cup {<<class, Node("e", AllAttrs(Schema[class], "number"), k)>> :
                 k \in Contents(Schema[class])} : class \in DOMAIN Schema}

-----------------------------------------------------------------------------
(* Doxygen's files for swig_doc *)

Ref(w) == Node("ref", NoAttrs, <<TextNode(<<w>>)>>)
Para(kids) == Node("para", NoAttrs, kids)
Words(t, words) == Node(t, NoAttrs, TextNodes(words))
Brief(words) == Node("briefdescription", NoAttrs, <<Para(TextNodes(words))>>)
Detailed(kids) == Node("detaileddescription", NoAttrs, <<Para(kids)>>)
Param(name, words) ==
  Node("parameterlist", [kind |-> "param"], <<Node("parameteritem", NoAttrs,
    <<Node("parameternamelist", NoAttrs, <<Words("parametername", <<name>>)>>),
      Node("parameterdescription", NoAttrs, <<Para(TextNodes(words))>>)>>)>>)

Def(kind, name, doc) ==
  Node("memberdef", [kind |-> kind], <<Words("name", <<name>>), Brief(doc), Detailed(<<>>)>>)
DefParam(kind, name, doc, param) ==
  Node("memberdef", [kind |-> kind],
       <<Words("name", <<name>>), Brief(doc), Detailed(<<Param("n", param)>>)>>)
\* A function with a parameter that is declared, with a comment, and maybe one
\* that is documented.
DefDeclared(name, declared, detailed) ==
  Node("memberdef", [kind |-> "function"],
       <<Words("name", <<name>>), Brief(<<>>), Detailed(detailed),
         Node("param", NoAttrs, <<Words("declname", <<"n">>), Brief(declared)>>)>>)
Section(defs) == Node("sectiondef", [kind |-> "s"], defs)
Doc(kids) == Node("doxygen", [version |-> "1"], <<Node("compounddef", [kind |-> "k"], kids)>>)

Friend == Def("friend", "gr_make_a", <<>>)
ClassA(brief, detailed, defs) == Doc(<<Brief(brief), Detailed(detailed), Section(defs)>>)
Malformed == Node("doxygen", NoAttrs, <<TextNode(<<"illformed">>)>>)

Xml ==
  [a_plain   |-> ClassA(<<"A">>, <<TextNode(<<"see">>), Ref("work"), Bold>>,
                        <<Def("function", "work", <<"works">>), Def("function", "operator ", <<"op">>)>>),
   a_friend  |-> ClassA(<<"A">>, <<>>, <<Friend, Def("enum", "work", <<>>), Def("function", "work", <<"lost">>)>>),
   a_accent  |-> ClassA(<<>>, <<Param("n", <<"accent">>)>>, <<Friend>>),
   a_broken  |-> Malformed,
   a_raises  |-> Node("doxygen", [version |-> "1"], <<>>),
   b_block   |-> Doc(<<Brief(<<"B">>), Detailed(<<>>),
                       Section(<<Def("function", "make", <<"makes">>), Def("typedef", "sptr", <<>>)>>),
                       Section(<<Def("function", "make", <<"over">>), Def("function", "run", <<"runs">>)>>)>>),
   b_accent  |-> Doc(<<Brief(<<"accent">>), Detailed(<<>>),
                       Section(<<DefParam("function", "make", <<>>, <<"accent">>), Def("typedef", "sptr", <<>>)>>)>>),
   b_declared |-> Doc(<<Brief(<<"B">>), Detailed(<<>>),
                       Section(<<DefDeclared("make", <<"accent">>, <<>>), Def("typedef", "sptr", <<>>)>>)>>),
   b_hidden  |-> Doc(<<Brief(<<"B">>), Detailed(<<>>),
                       Section(<<DefDeclared("make", <<"accent">>, <<Param("n", <<"of">>)>>),
                                 Def("typedef", "sptr", <<>>)>>)>>),
   b_both    |-> Doc(<<Brief(<<>>), Detailed(<<Param("n", <<"of">>)>>),
                       Section(<<Def("function", "make", <<>>), Def("typedef", "sptr", <<>>),
                                 Def("friend", "gr_make_b", <<>>)>>)>>),
   h_make    |-> Doc(<<Brief(<<"file">>), Detailed(<<>>),
                       Section(<<Def("function", "gr_make_a", <<"making">>), Def("function", "help", <<"helps">>),
                                 Def("example", "odd", <<>>)>>)>>),
   h_broken  |-> Malformed,
   i_again   |-> Doc(<<Brief(<<>>), Detailed(<<>>), Section(<<Def("function", "gr_make_a", <<>>)>>)>>),
   i_help    |-> Doc(<<Brief(<<>>), Detailed(<<>>),
                       Section(<<Def("function", "help", <<"helps">>), Def("function", "gr_make_b", <<>>)>>)>>),
   n_make    |-> Doc(<<Brief(<<>>), Detailed(<<>>), Section(<<Def("function", "gr_make_b", <<"makes">>)>>)>>),
   g_make    |-> Doc(<<Brief(<<>>), Detailed(<<>>), Section(<<Def("function", "gr_make_", <<"makes">>)>>)>>),
   n_raises  |-> Node("doxygen", NoAttrs, <<Node("compounddef", NoAttrs, <<Words("compoundname", <<>>),
                   Node("location", [line |-> "bad"], <<>>)>>)>>),
   std       |-> ClassA(<<"std">>, <<Param("n", <<"accent">>)>>, <<>>),
   qualified |-> ClassA(<<"C">>, <<>>, <<Friend>>)]

FileOf(refid) == FileFrom(Xml[refid])

At(kind, name, refids) ==
  {<<[kind |-> kind, name |-> name, file |-> FileOf(r), header |-> TRUE]>> : r \in refids}
None == {<<>>}

MCIndices ==
  LET as == None \cup At("class", "gr_a", {"a_plain", "a_friend", "a_accent", "a_broken", "a_raises"})
      bs == None \cup At("class", "gr_b", {"b_block", "b_accent", "b_declared", "b_hidden", "b_both"})
      ns == None \cup At("namespace", "ns", {"n_make", "n_raises"})
      hs == None \cup At("file", "gr_a.h", {"h_make", "h_broken"})
      is == None \cup At("file", "other.h", {"i_again", "i_help"}) \cup At("file", "gr_a.h", {"i_help"})
      os == None \cup At("class", "std::x", {"std"}) \cup At("class", "ns::gr_c", {"qualified"})
            \cup At("example", "x", {"a_raises"}) \cup At("page", "x", {"a_raises"})
            \cup {<<[kind |-> "file", name |-> "x.cc", file |-> FileOf("h_broken"), header |-> FALSE]>>}
      \* Two blocks with one make function, and headers of the second.
      gs(name) == At("class", name, {"a_plain", "a_accent", "a_broken", "b_block", "b_accent"})
      gh == At("file", "gr_.h", {"g_make"})
      xs == None \cup At("file", "gr_.h", {"i_help"})
  IN {a \o b \o o \o n \o h \o i : a \in as, b \in bs, o \in os, n \in ns, h \in hs, i \in is}
     \cup {a \o b \o h \o x : a \in gs("gr"), b \in gs("gr_"), h \in gh, x \in xs}

Names == {"gr_a", "gr_b", "std::x", "ns::gr_c", "gr", "gr_"}
MCMakeName == [n \in Names |->
  CASE n = "gr_a" -> "gr_make_a" [] n = "gr_b" -> "gr_make_b"
    [] n = "std::x" -> "std::x_make_" [] n = "ns::gr_c" -> "ns::gr_make_c"
    [] n \in {"gr", "gr_"} -> "gr_make_"]
MCHeaderName == [n \in Names |->
  CASE n = "gr_a" -> "gr_a.h" [] n = "gr_b" -> "gr_b.h"
    [] n = "std::x" -> "std::x.h" [] n = "ns::gr_c" -> "ns::gr_c.h"
    [] n = "gr" -> "gr.h" [] n = "gr_" -> "gr_.h"]
MCQualified == {"std::x_make_", "ns::gr_make_c", "std::x.h", "ns::gr_c.h"}
=============================================================================
