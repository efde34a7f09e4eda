------------------------------ MODULE SwigDoc ------------------------------
(***************************************************************************)
(* swig_doc.py over doxyxml: Doxygen's index and the compound files it     *)
(* names become the docstring entries of swig_doc.i.                       *)
(*                                                                         *)
(* A compound file is parsed when something first asks for its contents:   *)
(* header files and namespaces while the index is read, classes while the  *)
(* script looks for GNU Radio blocks.  Only a class whose XML is ill-formed *)
(* is survived.  The entries are written in one go at the end, so a script *)
(* that dies leaves no new file.                                           *)
(*                                                                         *)
(* An index entry is a record [kind, name, file, header]: the compound     *)
(* file its refid names, and whether the name ends in ".h".  A file is a   *)
(* record [state, doc, params, members]: state is "ok", "broken" (XML that *)
(* is ill-formed) or "raises" (absent, or nothing build can read); doc the *)
(* words of its brief and detailed descriptions, params those of the       *)
(* parameters documented in them.  A member is a record [kind, name, doc,  *)
(* params].  The word "accent" is not ASCII.                               *)
(*                                                                         *)
(* An object of doxyxml is a place: <<i, 0>> is what entry i of the index  *)
(* names, <<i, j>> member j of its file.                                   *)
(***************************************************************************)
EXTENDS Naturals, Sequences, SequencesExt

CONSTANTS
  Indices,    \* the indexes a run may read: sequences of entries
  MakeName,   \* make_name: the name of a class's make function
  HeaderName, \* the name of a class with ".h"
  Qualified,  \* names that contain "::"
  StdNames,   \* names that start with "std::"
  Operators   \* names that contain "operator "

\* What Doxygen writes: no member is a class, a class is in the index once, and
\* no class is named "operator ...".
ASSUME IndicesAssumption ==
  \A idx \in Indices :
    /\ idx \in Seq([kind : STRING, name : STRING, header : BOOLEAN,
                    file : [state : {"ok", "broken", "raises"},
                            doc : Seq(STRING), params : Seq(STRING),
                            members : Seq([kind : STRING, name : STRING,
                                           doc : Seq(STRING), params : Seq(STRING)])]])
    /\ \A i \in DOMAIN idx :
         \A j \in DOMAIN idx[i].file.members : idx[i].file.members[j].kind # "class"
    /\ \A i \in DOMAIN idx : idx[i].kind = "class" =>
         /\ idx[i].name \notin Operators
         /\ \A k \in DOMAIN idx : idx[k].kind = "class" /\ k # i => idx[k].name # idx[i].name

VARIABLES
  pc,       \* what the script is doing
  index,    \* the index it was given
  pos,      \* position in the list it walks
  di,       \* DoxyIndex._members, a sequence of places
  blocks,   \* di.in_category(Block), as positions in the index
  blocks2,  \* di.in_category(Block2), the same
  made,     \* make_funcs, as sequences of bits
  out       \* the entries

swigVars == <<pc, index, pos, di, blocks, blocks2, made, out>>

-----------------------------------------------------------------------------
(* doxyindex.py: classes of members, and what parsing a compound yields *)

OtherKinds == {"variable", "struct", "union", "define", "typedef", "enum", "dir",
               "page", "signal", "slot", "property"}
Convertible(kind) ==
  kind \in {"function", "class", "file", "namespace", "group", "friend"} \cup OtherKinds

\* The record an object is converted from, and the one its words are in.
Parsed(p) == IF p[2] = 0 THEN index[p[1]] ELSE index[p[1]].file.members[p[2]]
Described(p) == IF p[2] = 0 THEN index[p[1]].file ELSE index[p[1]].file.members[p[2]]
NameOf(p) == Parsed(p).name

\* process_memberdefs: of several members with one name the first is kept.
Kept(p) ==
  p[2] # 0 => \A j \in 1..(p[2] - 1) : NameOf(<<p[1], j>>) # NameOf(p)

IsA(p, cat) ==
  /\ Kept(p)
  /\ IF cat = "other" THEN Parsed(p).kind \in OtherKinds ELSE Parsed(p).kind = cat

MembersOf(i) == {<<i, j>> : j \in DOMAIN index[i].file.members}
Methods(i) == {p \in MembersOf(i) : IsA(p, "function")}

\* base.py, get_member: a name with "::" is looked up by its first bit, which
\* no function, friend or file is called.
Hits(ps, name, cat) == {p \in ps : name \notin Qualified /\ IsA(p, cat) /\ NameOf(p) = name}
NoSuchMember(ps, name, cat) == Hits(ps, name, cat) = {}
Duplicate(ps, name, cat) == \E p, q \in Hits(ps, name, cat) : p # q
Unique(ps, name, cat) == ~NoSuchMember(ps, name, cat) /\ ~Duplicate(ps, name, cat)
Member(ps, name, cat) == CHOOSE p \in Hits(ps, name, cat) : TRUE

ClassName(i) == index[i].name
MakeOf(i) == MakeName[ClassName(i)]
HeaderOf(i) == HeaderName[ClassName(i)]
ClassFile(i) == index[i].file

-----------------------------------------------------------------------------
(* swig_doc.py: entries.  Their order in the file is left out: an entry is a *)
(* record [by, of, name, doc] of the round of the loop that writes it, the   *)
(* object it is made from, its name as "::" bits, and its words.             *)

\* make_entry: nothing for a conversion operator or without a description.
Entry(p, name, words) ==
  IF words = <<>> \/ Last(name) \in Operators
  THEN {} ELSE {[by |-> <<pc, pos>>, of |-> p, name |-> name, doc |-> words]}

\* make_class_entry
MethodName(p) == <<ClassName(p[1]), NameOf(p)>>
ClassEntries(i, words, ignored) ==
  Entry(<<i, 0>>, <<ClassName(i)>>, words)
  \cup UNION {Entry(p, MethodName(p), Described(p).doc) :
                p \in {m \in Methods(i) : NameOf(m) \notin ignored}}

\* Mutant: the make function's own description is not used.
SuperDescriptionClass(i) == ClassFile(i).doc

\* make_block_entry: class, make function and header file share a description.
SuperDescription(i) ==
  LET ps == Range(di)
  IN ClassFile(i).doc \o Described(Member(ps, MakeOf(i), "function")).doc
     \o (IF NoSuchMember(ps, HeaderOf(i), "file") THEN <<>>
         ELSE Described(Member(ps, HeaderOf(i), "file")).doc)

\* Mutant: only one header file will do.
HeaderClashMissing(i) == ~Unique(Range(di), HeaderOf(i), "file")

\* A missing header file is caught there, one of two of the same name is not.
HeaderClash(i) == Duplicate(Range(di), HeaderOf(i), "file")

\* Mutant: new style blocks are forgotten.
BlockNamesOld == {ClassName(i) : i \in Range(blocks)}

BlockNames == {ClassName(i) : i \in Range(blocks) \cup Range(blocks2)}

\* format_params cannot format what is not ASCII.
Formats(params) == "accent" \notin Range(params)

-----------------------------------------------------------------------------
(* The script *)

SwigInit ==
  /\ pc = "index" /\ pos = 1
  /\ index \in Indices
  /\ di = <<>> /\ blocks = <<>> /\ blocks2 = <<>>
  /\ made = {} /\ out = {}

Die == pc' = "died" /\ UNCHANGED <<index, pos, di, blocks, blocks2, made, out>>
Skip == pos' = pos + 1 /\ UNCHANGED <<pc, index, di, blocks, blocks2, made, out>>
Write(entries) == /\ out' = out \cup entries /\ pos' = pos + 1
                  /\ UNCHANGED <<pc, index, di, blocks, blocks2>>

\* DoxyIndex._parse.  get_cls is called once inside convert_mem, which prints
\* what it raises, and once outside.  The contents of headers and namespaces
\* come before them; an error in their XML is only looked at after
\* set_descriptions has used the result.
Flattened(i) ==
  index[i].kind = "namespace" \/ (index[i].kind = "file" /\ index[i].header)
Ignored(i) == index[i].kind = "file" /\ ~index[i].header

Add(places) == /\ di' = di \o places /\ pos' = pos + 1
               /\ UNCHANGED <<pc, index, blocks, blocks2, made, out>>

ReadIndex ==
  /\ pc = "index" /\ pos <= Len(index)
  /\ \/ ~Convertible(index[pos].kind) /\ Die
     \/ Flattened(pos) /\ ClassFile(pos).state # "ok" /\ Die
     \/ /\ Flattened(pos) /\ ClassFile(pos).state = "ok"
        /\ Add([j \in DOMAIN ClassFile(pos).members |-> <<pos, j>>] \o << <<pos, 0>> >>)
     \/ Ignored(pos) /\ Skip
     \/ /\ Convertible(index[pos].kind) /\ index[pos].kind \notin {"file", "namespace"}
        /\ Add(<< <<pos, 0>> >>)

\* Block.includes and Block2.includes: asking a class for its error parses it.
FriendMake(i) == ~NoSuchMember(MembersOf(i), MakeOf(i), "friend")

FindBlock ==
  /\ pc = "find blocks" /\ pos <= Len(di)
  /\ LET i == di[pos][1]
         class == IsA(di[pos], "class")
         readable == class /\ ClassFile(i).state = "ok"
         ps == Range(di)
         is == FriendMake(i) \/ ~NoSuchMember(ps, MakeOf(i), "function")
     IN \/ class /\ ClassFile(i).state = "raises" /\ Die
        \/ readable /\ ~FriendMake(i) /\ Duplicate(ps, MakeOf(i), "function") /\ Die
        \/ ~class /\ Skip
        \/ class /\ ClassFile(i).state = "broken" /\ Skip
        \/ /\ readable /\ (FriendMake(i) \/ ~Duplicate(ps, MakeOf(i), "function"))
           /\ blocks' = IF is THEN Append(blocks, i) ELSE blocks
           /\ pos' = pos + 1 /\ UNCHANGED <<pc, index, di, blocks2, made, out>>

NewStyle(i) == /\ ~NoSuchMember(MembersOf(i), "make", "function")
               /\ ~NoSuchMember(MembersOf(i), "sptr", "other")

FindBlock2 ==
  /\ pc = "find blocks2" /\ pos <= Len(di)
  /\ LET i == di[pos][1]
         is == IsA(di[pos], "class") /\ ClassFile(i).state = "ok" /\ NewStyle(i)
     IN blocks2' = IF is THEN Append(blocks2, i) ELSE blocks2
  /\ pos' = pos + 1 /\ UNCHANGED <<pc, index, di, blocks, made, out>>

\* The first loop of make_swig_interface_file, with make_block_entry.
WriteBlock ==
  /\ pc = "blocks" /\ pos <= Len(blocks)
  /\ LET i == blocks[pos]
         make == <<MakeOf(i)>>
         found == Unique(Range(di), MakeOf(i), "function")
         described == SuperDescription(i) \o ClassFile(i).params
     IN \/ ~found /\ Die
        \/ found /\ make \in made /\ Skip
        \/ /\ found /\ make \notin made
           /\ HeaderClash(i) \/ ~Formats(ClassFile(i).params)
           /\ Die
        \/ /\ found /\ make \notin made
           /\ ~HeaderClash(i) /\ Formats(ClassFile(i).params)
           /\ made' = made \cup {make}
           /\ Write(ClassEntries(i, described, {})
                    \cup Entry(Member(Range(di), MakeOf(i), "function"), make, described))

\* The second loop, with make_block2_entry, whose description is never empty.
MakeMethod(i) == Member(MembersOf(i), "make", "function")

WriteBlock2 ==
  /\ pc = "blocks2" /\ pos <= Len(blocks2)
  /\ LET i == blocks2[pos]
         make == Described(MakeMethod(i))
         described == ClassFile(i).doc \o <<"Constructor">> \o make.doc \o make.params
         name == <<ClassName(i), "make">>
     IN \/ name \in made /\ Skip
        \/ name \notin made /\ ~Formats(make.params) /\ Die
        \/ /\ name \notin made /\ Formats(make.params)
           /\ made' = made \cup {name}
           /\ Write(ClassEntries(i, described, {"make"})
                    \cup Entry(MakeMethod(i), name, described))

WriteFunction ==
  /\ pc = "functions" /\ pos <= Len(di)
  /\ LET f == di[pos]
         left == <<NameOf(f)>> \in made \/ NameOf(f) \in StdNames
     IN \/ (~IsA(f, "function") \/ left) /\ Skip
        \/ /\ IsA(f, "function") /\ ~left
           /\ Write(Entry(f, <<NameOf(f)>>, Described(f).doc)) /\ UNCHANGED made

\* A ParsingError is reported and the class left out.
WriteClass ==
  /\ pc = "classes" /\ pos <= Len(di)
  /\ LET i == di[pos][1]
         left == ClassName(i) \in BlockNames \cup StdNames \/ ClassFile(i).state = "broken"
         params == ClassFile(i).params
     IN \/ (~IsA(di[pos], "class") \/ left) /\ Skip
        \/ IsA(di[pos], "class") /\ ~left /\ ~Formats(params) /\ Die
        \/ /\ IsA(di[pos], "class") /\ ~left /\ Formats(params)
           /\ Write(ClassEntries(i, ClassFile(i).doc \o params, {})) /\ UNCHANGED made

\* A walk over a list has ended; after the last one the file is written.
Walked(phase, list, next) ==
  /\ pc = phase /\ pos > Len(list)
  /\ pc' = next /\ pos' = 1
  /\ UNCHANGED <<index, di, blocks, blocks2, made, out>>

NextPhase ==
  \/ Walked("index", index, "find blocks")
  \/ Walked("find blocks", di, "find blocks2")
  \/ Walked("find blocks2", di, "blocks")
  \/ Walked("blocks", blocks, "blocks2")
  \/ Walked("blocks2", blocks2, "functions")
  \/ Walked("functions", di, "classes")
  \/ Walked("classes", di, "written")

SwigNext ==
  \/ ReadIndex \/ FindBlock \/ FindBlock2
  \/ WriteBlock \/ WriteBlock2 \/ WriteFunction \/ WriteClass
  \/ NextPhase

SwigSpec == SwigInit /\ [][SwigNext]_swigVars

-----------------------------------------------------------------------------
(* Properties.  They speak of the index and the files, not of the walk.     *)

\* What the index makes accessible from the top.
Accessible ==
  {<<i, 0>> : i \in {x \in DOMAIN index : ~Ignored(x)}}
  \cup UNION {MembersOf(i) : i \in {x \in DOMAIN index : Flattened(x)}}
Functions == {p \in Accessible : IsA(p, "function")}
Classes == {i \in DOMAIN index : index[i].kind = "class"}
Readable == {i \in Classes : ClassFile(i).state = "ok"}

NoMake(i) == NoSuchMember(Accessible, MakeOf(i), "function")
SeveralMakes(i) == Duplicate(Accessible, MakeOf(i), "function")
OneMake(i) == Unique(Accessible, MakeOf(i), "function")
SeveralHeaders(i) == Duplicate(Accessible, HeaderOf(i), "file")

\* make_name is not injective ("x" and "x_" have one): of the blocks with a make
\* function in common the first is written and the others are passed over.
PassedOver(i) == OneMake(i) /\ \E k \in Readable : k < i /\ MakeOf(k) = MakeOf(i)
OldStyle(i) == OneMake(i) /\ ~PassedOver(i)

\* A readable class kills the script when its make function is ambiguous, or
\* befriended and not documented anywhere, when it has two header files, and
\* when a parameter that enters its entry is documented in anything but ASCII.
KillingClass(i) ==
  \/ SeveralMakes(i)
  \/ NoMake(i) /\ FriendMake(i)
  \/ OldStyle(i) /\ SeveralHeaders(i)
  \/ /\ ~Formats(ClassFile(i).params)
     /\ OldStyle(i) \/ (NoMake(i) /\ ~NewStyle(i) /\ ClassName(i) \notin StdNames)
  \/ NewStyle(i) /\ ~Formats(Described(MakeMethod(i)).params)

\* swig_doc.py is meant to live with bad files: it catches ParsingError for
\* functions and classes.  It dies exactly of an index entry of an unknown
\* kind, of a header or namespace it cannot parse, of a class file that is
\* missing or unreadable, and of a KillingClass; otherwise it writes its file.
Fatal ==
  \/ \E i \in DOMAIN index :
       \/ ~Convertible(index[i].kind)
       \/ Flattened(i) /\ ClassFile(i).state # "ok"
  \/ \E i \in Classes : ClassFile(i).state = "raises"
  \/ \E i \in Readable : KillingClass(i)

DiesOnlyFor ==
  /\ pc = "died" => Fatal
  /\ pc = "written" => ~Fatal

\* The entry of a name says all the words of a description.
Documents(name, words) ==
  \E x \in out : x.name = name /\ Range(words) \subseteq Range(x.doc)

\* A finished swig_doc.i has every documented function of the headers and
\* namespaces, every documented class whose file is readable, and every
\* documented method of it (the first of an overloaded name), each with its
\* whole description; only std names, conversion operators and blocks that are
\* passed over and not of the new style are left out.
Documented(p, name) ==
  Described(p).doc # <<>> /\ NameOf(p) \notin Operators => Documents(name, Described(p).doc)

Complete ==
  pc = "written" =>
    /\ \A p \in Functions : NameOf(p) \notin StdNames => Documented(p, <<NameOf(p)>>)
    /\ \A i \in Readable : ClassName(i) \notin StdNames /\ (PassedOver(i) => NewStyle(i)) =>
         /\ Documented(<<i, 0>>, <<ClassName(i)>>)
         /\ \A p \in Methods(i) : Documented(p, MethodName(p))

\* "Don't want to risk writing to output twice" (swig_doc.py:259, 271): a name
\* has two entries only if it is the name of two functions, classes or methods,
\* or if its class is a block of both styles.
Declared(name) ==
  {p \in Accessible : (IsA(p, "function") \/ IsA(p, "class")) /\ name = <<NameOf(p)>>}
  \cup UNION {{p \in Methods(i) : name = MethodName(p)} : i \in Classes}
BothStyles(i) == i \in Readable /\ OldStyle(i) /\ NewStyle(i)

WrittenOnce ==
  \A x, y \in out : x # y /\ x.name = y.name =>
    \/ \E p, q \in Declared(x.name) : p # q
    \/ \E i \in Classes : BothStyles(i) /\ ClassName(i) = x.name[1]
=============================================================================
