--------------------------- MODULE SwigDoc_proofs ---------------------------
(***************************************************************************)
(* Proofs about SwigDoc: a script that dies has met a fatal input and one  *)
(* that ends has not; a finished file has every description, and no name   *)
(* twice without a reason.                                                 *)
(*                                                                         *)
(* The invariant says of every walk what its finished rounds have done.    *)
(***************************************************************************)
EXTENDS SwigDoc, SequenceTheorems, TLAPS

-----------------------------------------------------------------------------
(* Finished rounds of the walks *)

AfterClasses == {"written"}
AfterFunctions == {"classes"} \cup AfterClasses
AfterBlocks2 == {"functions"} \cup AfterFunctions
AfterBlocks == {"blocks2"} \cup AfterBlocks2
AfterFind2 == {"blocks"} \cup AfterBlocks
AfterFind == {"find blocks2"} \cup AfterFind2
AfterIndex == {"find blocks"} \cup AfterFind

Done(q, phase, later) == pc \in later \/ (pc = phase /\ q < pos)
Read(i) == Done(i, "index", AfterIndex)
Searched(q) == Done(q, "find blocks", AfterFind)
Searched2(q) == Done(q, "find blocks2", AfterFind2)
BlockDone(q) == Done(q, "blocks", AfterBlocks)
Block2Done(q) == Done(q, "blocks2", AfterBlocks2)
FunctionDone(q) == Done(q, "functions", AfterFunctions)
ClassDone(q) == Done(q, "classes", AfterClasses)

-----------------------------------------------------------------------------
(* The invariant *)

TypeInv ==
  /\ index \in Indices /\ pos \in Nat \ {0}
  /\ pc \in {"index", "died"} \cup AfterIndex
  /\ di \in Seq(Accessible)
  /\ blocks \in Seq(Readable) /\ blocks2 \in Seq(Readable)

\* DoxyIndex._members: every object of the entries read, once, in their order.
IndexInv ==
  /\ pc = "index" => \A a \in DOMAIN di : di[a][1] < pos
  /\ \A p \in Accessible : Read(p[1]) => p \in Range(di)
  /\ \A a, b \in DOMAIN di : di[a] = di[b] => a = b
  /\ \A a, b \in DOMAIN di : a < b => di[a][1] <= di[b][1]
  /\ \A i \in DOMAIN index : Read(i) =>
       /\ Convertible(index[i].kind)
       /\ Flattened(i) => ClassFile(i).state = "ok"

\* The blocks of either style: exactly those of the members walked, in their order.
IsBlock(i) == FriendMake(i) \/ ~NoMake(i)
Found(list, phase) ==
  /\ \A a, b \in DOMAIN list : a < b => list[a] < list[b]
  /\ pc = phase =>
       \A a \in DOMAIN list : \E q \in DOMAIN di : q < pos /\ di[q] = <<list[a], 0>>

BlocksInv ==
  /\ Found(blocks, "find blocks")
  /\ pc = "index" => blocks = <<>>
  /\ \A i \in Range(blocks) : IsBlock(i)
  /\ \A q \in DOMAIN di : Searched(q) /\ di[q][1] \in Classes =>
       LET i == di[q][1]
       IN /\ ClassFile(i).state # "raises"
          /\ i \in Readable /\ ~FriendMake(i) => ~SeveralMakes(i)
          /\ i \in Readable /\ IsBlock(i) => i \in Range(blocks)

Blocks2Inv ==
  /\ Found(blocks2, "find blocks2")
  /\ pc \in {"index", "find blocks"} => blocks2 = <<>>
  /\ \A i \in Range(blocks2) : NewStyle(i)
  /\ \A q \in DOMAIN di : Searched2(q) /\ di[q][1] \in Readable /\ NewStyle(di[q][1]) =>
       di[q][1] \in Range(blocks2)

\* make_funcs and the entries: which round of which loop they are from.
MadeInv ==
  \A m \in made :
    \/ \E q \in DOMAIN blocks : BlockDone(q) /\ m = <<MakeOf(blocks[q])>>
    \/ \E q \in DOMAIN blocks2 : Block2Done(q) /\ m = <<ClassName(blocks2[q]), "make">>

PlacesOf(i) == {<<i, 0>>} \cup Methods(i)
ByBlock(x) ==
  \E q \in DOMAIN blocks :
    /\ x.by = <<"blocks", q>> /\ BlockDone(q) /\ OldStyle(blocks[q])
    /\ \/ x.of \in PlacesOf(blocks[q])
       \/ x.of \in Functions /\ x.name = <<MakeOf(blocks[q])>> /\ x.name \in made
ByBlock2(x) ==
  \E q \in DOMAIN blocks2 :
    x.by = <<"blocks2", q>> /\ Block2Done(q) /\ x.of \in PlacesOf(blocks2[q])
ByFunction(x) ==
  \E q \in DOMAIN di :
    /\ x.by = <<"functions", q>> /\ FunctionDone(q)
    /\ x.of = di[q] /\ x.of \in Functions /\ x.name \notin made
ByClass(x) ==
  \E q \in DOMAIN di :
    /\ x.by = <<"classes", q>> /\ ClassDone(q)
    /\ di[q][1] \in Classes /\ ClassName(di[q][1]) \notin BlockNames
    /\ x.of \in PlacesOf(di[q][1])
OutInv == \A x \in out : ByBlock(x) \/ ByBlock2(x) \/ ByFunction(x) \/ ByClass(x)

\* What the finished rounds have written, and that none of them had to die.
ClassDocumented(i) ==
  ClassName(i) \notin StdNames =>
    /\ Documented(<<i, 0>>, <<ClassName(i)>>)
    /\ \A p \in Methods(i) : Documented(p, MethodName(p))

BlockWritten(i) ==
  /\ OneMake(i) /\ <<MakeOf(i)>> \in made
  /\ OldStyle(i) =>
       ClassDocumented(i) /\ ~SeveralHeaders(i) /\ Formats(ClassFile(i).params)

WrittenInv ==
  /\ \A p \in Functions : <<NameOf(p)>> \in made => Documented(p, <<NameOf(p)>>)
  /\ \A q \in DOMAIN blocks : BlockDone(q) => BlockWritten(blocks[q])
  /\ \A q \in DOMAIN blocks2 : Block2Done(q) =>
       LET i == blocks2[q]
       IN ClassDocumented(i) /\ Formats(Described(MakeMethod(i)).params)
  /\ \A q \in DOMAIN di :
       FunctionDone(q) /\ di[q] \in Functions /\ NameOf(di[q]) \notin StdNames =>
         Documented(di[q], <<NameOf(di[q])>>)
  /\ \A q \in DOMAIN di : ClassDone(q) /\ di[q][1] \in Readable =>
       LET i == di[q][1]
       IN ClassName(i) \notin BlockNames \cup StdNames =>
            ClassDocumented(i) /\ Formats(ClassFile(i).params)

\* Entries are of what their name declares, and only a block of both styles is
\* written twice.
NamesInv == \A x \in out : x.of \in Declared(x.name)
OnceInv == \A x, y \in out : x.of = y.of => x = y \/ BothStyles(x.of[1])

Progress == IndexInv /\ BlocksInv /\ Blocks2Inv /\ MadeInv /\ OutInv /\ WrittenInv
SwigInv ==
  /\ TypeInv /\ NamesInv /\ OnceInv
  /\ IF pc = "died" THEN Fatal ELSE Progress

-----------------------------------------------------------------------------
(* Facts about an index *)

\* What the assumption says of an index, entry by entry.
LEMMA IndexTypes ==
  ASSUME index \in Indices
  PROVE  /\ Len(index) \in Nat /\ DOMAIN index = 1..Len(index) /\ DOMAIN index \subseteq Nat
         /\ \A i \in DOMAIN index :
              /\ ClassFile(i).state \in {"ok", "broken", "raises"}
              /\ ClassFile(i).doc \in Seq(STRING) /\ ClassFile(i).params \in Seq(STRING)
              /\ DOMAIN ClassFile(i).members \subseteq Nat \ {0}
              /\ Len(ClassFile(i).members) \in Nat
              /\ DOMAIN ClassFile(i).members = 1..Len(ClassFile(i).members)
              /\ \A j \in DOMAIN ClassFile(i).members :
                   /\ ClassFile(i).members[j].kind # "class"
                   /\ ClassFile(i).members[j].doc \in Seq(STRING)
                   /\ ClassFile(i).members[j].params \in Seq(STRING)
         /\ \A i \in Classes : ClassName(i) \notin Operators
         /\ \A i, k \in Classes : ClassName(i) = ClassName(k) => i = k
<1> DEFINE Member0 == [kind : STRING, name : STRING, doc : Seq(STRING), params : Seq(STRING)]
           File == [state : {"ok", "broken", "raises"}, doc : Seq(STRING),
                    params : Seq(STRING), members : Seq(Member0)]
           E == [kind : STRING, name : STRING, header : BOOLEAN, file : File]
<1>1. index \in Seq(E)
  BY IndicesAssumption
<1> HIDE DEF E
<1>2. Len(index) \in Nat /\ DOMAIN index = 1..Len(index)
  BY <1>1, LenProperties
<1>3. \A i \in DOMAIN index : index[i] \in E
  BY <1>1, <1>2, ElementOfSeq
<1>4. \A i \in DOMAIN index : ClassFile(i) \in File
  BY <1>3 DEF E, ClassFile
<1>5. ASSUME NEW i \in DOMAIN index
      PROVE  /\ ClassFile(i).state \in {"ok", "broken", "raises"}
             /\ ClassFile(i).doc \in Seq(STRING) /\ ClassFile(i).params \in Seq(STRING)
             /\ ClassFile(i).members \in Seq(Member0)
  BY <1>4
<1> HIDE DEF Member0, File
<1>6. ASSUME NEW i \in DOMAIN index
      PROVE  /\ Len(ClassFile(i).members) \in Nat
             /\ DOMAIN ClassFile(i).members = 1..Len(ClassFile(i).members)
  BY <1>5, LenProperties
<1>7. ASSUME NEW i \in DOMAIN index, NEW j \in DOMAIN ClassFile(i).members
      PROVE  ClassFile(i).members[j] \in Member0
  BY <1>5, <1>6, ElementOfSeq
<1>8. ASSUME NEW i \in DOMAIN index, NEW j \in DOMAIN ClassFile(i).members
      PROVE  /\ ClassFile(i).members[j].doc \in Seq(STRING)
             /\ ClassFile(i).members[j].params \in Seq(STRING)
  BY <1>7 DEF Member0
<1>9. ASSUME NEW i \in DOMAIN index, NEW j \in DOMAIN ClassFile(i).members
      PROVE  ClassFile(i).members[j].kind # "class"
  BY IndicesAssumption DEF ClassFile
<1>10. \A i \in Classes : ClassName(i) \notin Operators
  BY IndicesAssumption DEF Classes, ClassName
<1>11. \A i, k \in Classes : ClassName(i) = ClassName(k) => i = k
  BY IndicesAssumption DEF Classes, ClassName
<1>12. DOMAIN index \subseteq Nat
  BY <1>2
<1>13. QED
  BY <1>12, <1>2, <1>5, <1>6, <1>8, <1>9, <1>10, <1>11

\* Where the objects of an index are: a class is one compound, never a member,
\* and its members are not accessible from the top.
LEMMA Places ==
  ASSUME index \in Indices
  PROVE  /\ \A p \in Accessible :
              /\ p = <<p[1], p[2]>> /\ p[1] \in DOMAIN index /\ p[2] \in Nat
              /\ IsA(p, "class") <=> p[1] \in Classes
              /\ p[1] \in Classes => p = <<p[1], 0>>
              /\ p[2] # 0 => Flattened(p[1]) /\ p[2] \in DOMAIN ClassFile(p[1]).members
         /\ \A i \in Classes : <<i, 0>> \in Accessible /\ IsA(<<i, 0>>, "class")
         /\ \A p \in Functions : p \in Accessible /\ p[1] \notin Classes
         /\ \A i \in Classes : \A p \in Methods(i) :
              /\ p[1] = i /\ p # <<i, 0>> /\ p[2] # 0 /\ IsA(p, "function")
              /\ p[2] \in DOMAIN ClassFile(i).members
         /\ \A i : \A p \in PlacesOf(i) : p[1] = i
         /\ \A i : NameOf(<<i, 0>>) = ClassName(i) /\ Described(<<i, 0>>) = ClassFile(i)
<1>1. \A i \in DOMAIN index : \A j \in DOMAIN ClassFile(i).members :
        j \in Nat \ {0} /\ ClassFile(i).members[j].kind # "class"
  BY IndexTypes
<1>2. ASSUME NEW p \in Accessible
      PROVE  /\ p = <<p[1], p[2]>> /\ p[1] \in DOMAIN index /\ p[2] \in Nat
             /\ p[2] # 0 => Flattened(p[1]) /\ p[2] \in DOMAIN ClassFile(p[1]).members
  BY <1>1 DEF Accessible, MembersOf, ClassFile
<1>3. ASSUME NEW p \in Accessible, p[1] \in Classes
      PROVE  p = <<p[1], 0>> /\ IsA(p, "class")
  <2>1. p[2] = 0
    BY <1>2, <1>3 DEF Flattened, Classes
  <2>2. QED
    BY <1>2, <1>3, <2>1 DEF IsA, Kept, Parsed, Classes
<1>4. ASSUME NEW p \in Accessible, IsA(p, "class")
      PROVE  p[1] \in Classes
  BY <1>1, <1>2, <1>4 DEF IsA, Parsed, Classes, ClassFile
<1>5. ASSUME NEW i \in Classes
      PROVE  <<i, 0>> \in Accessible /\ IsA(<<i, 0>>, "class")
  BY <1>5 DEF Accessible, Classes, Ignored, IsA, Kept, Parsed
<1>6. ASSUME NEW p \in Functions
      PROVE  p \in Accessible /\ p[1] \notin Classes
  <2>1. p \in Accessible /\ IsA(p, "function")
    BY DEF Functions
  <2>2. CASE p[1] \in Classes
    <3>1. Parsed(p).kind = "class"
      BY <1>3, <2>1, <2>2 DEF IsA
    <3>2. QED
      BY <2>1, <3>1 DEF IsA
  <2>3. QED
    BY <2>1, <2>2
<1>7. \A i : \A p \in Methods(i) :
        /\ p[1] = i /\ p[2] \in DOMAIN ClassFile(i).members /\ IsA(p, "function")
  BY DEF Methods, MembersOf, ClassFile
<1>8. \A i : NameOf(<<i, 0>>) = ClassName(i) /\ Described(<<i, 0>>) = ClassFile(i)
  BY DEF NameOf, Parsed, ClassName, Described, ClassFile
<1>9. \A i \in Classes : \A p \in Methods(i) : p[2] # 0 /\ p # <<i, 0>>
  BY <1>1, <1>7 DEF Classes
<1>10. \A i : \A p \in PlacesOf(i) : p[1] = i
  BY <1>7 DEF PlacesOf
<1>11. QED
  BY <1>2, <1>3, <1>4, <1>5, <1>6, <1>7, <1>8, <1>9, <1>10

\* A step that leaves the index alone leaves all it determines alone.
LEMMA SameIndex ==
  ASSUME index' = index
  PROVE  /\ Accessible' = Accessible /\ Functions' = Functions
         /\ Classes' = Classes /\ Readable' = Readable
         /\ \A p : NameOf(p)' = NameOf(p) /\ Described(p)' = Described(p)
         /\ \A p, cat : IsA(p, cat)' = IsA(p, cat)
         /\ \A p : MethodName(p)' = MethodName(p)
         /\ \A ps, name, cat : Hits(ps, name, cat)' = Hits(ps, name, cat)
         /\ \A i : /\ ClassName(i)' = ClassName(i) /\ MakeOf(i)' = MakeOf(i)
                   /\ ClassFile(i)' = ClassFile(i) /\ Flattened(i)' = Flattened(i)
                   /\ Methods(i)' = Methods(i) /\ MakeMethod(i)' = MakeMethod(i)
                   /\ FriendMake(i)' = FriendMake(i) /\ NewStyle(i)' = NewStyle(i)
                   /\ SeveralMakes(i)' = SeveralMakes(i) /\ OneMake(i)' = OneMake(i)
                   /\ SeveralHeaders(i)' = SeveralHeaders(i)
                   /\ PassedOver(i)' = PassedOver(i) /\ OldStyle(i)' = OldStyle(i)
                   /\ IsBlock(i)' = IsBlock(i) /\ PlacesOf(i)' = PlacesOf(i)
                   /\ BothStyles(i)' = BothStyles(i)
         /\ \A name : Declared(name)' = Declared(name)
         /\ Fatal' = Fatal
<1>1. \A i : MembersOf(i)' = MembersOf(i) /\ Ignored(i)' = Ignored(i)
             /\ Flattened(i)' = Flattened(i) /\ ClassFile(i)' = ClassFile(i)
             /\ ClassName(i)' = ClassName(i)
  BY DEF MembersOf, Ignored, Flattened, ClassFile, ClassName
<1>2. Accessible' = Accessible
  BY <1>1 DEF Accessible
<1>3. Classes' = Classes
  BY DEF Classes
<1>4. Readable' = Readable
  BY <1>1, <1>3 DEF Readable
<1>5. \A p : Parsed(p)' = Parsed(p) /\ Described(p)' = Described(p)
  BY DEF Parsed, Described
<1>6. \A p : NameOf(p)' = NameOf(p)
  BY <1>5 DEF NameOf
<1>7. \A p : Kept(p)' = Kept(p)
  BY <1>6 DEF Kept
<1>8. \A p, cat : IsA(p, cat)' = IsA(p, cat)
  BY <1>5, <1>7 DEF IsA
<1>9. Functions' = Functions
  BY <1>2, <1>8 DEF Functions
<1>10. \A i : Methods(i)' = Methods(i)
  BY <1>1, <1>8 DEF Methods
<1>11. \A ps, name, cat : Hits(ps, name, cat)' = Hits(ps, name, cat)
  BY <1>6, <1>8 DEF Hits
<1>12. \A ps, name, cat : NoSuchMember(ps, name, cat)' = NoSuchMember(ps, name, cat)
                          /\ Duplicate(ps, name, cat)' = Duplicate(ps, name, cat)
                          /\ Member(ps, name, cat)' = Member(ps, name, cat)
  BY <1>11 DEF NoSuchMember, Duplicate, Member
<1>13. \A ps, name, cat : Unique(ps, name, cat)' = Unique(ps, name, cat)
  BY <1>12 DEF Unique
<1>14. \A i : MakeOf(i)' = MakeOf(i) /\ HeaderOf(i)' = HeaderOf(i)
  BY <1>1 DEF MakeOf, HeaderOf
<1>15. \A i : /\ FriendMake(i)' = FriendMake(i) /\ NewStyle(i)' = NewStyle(i)
              /\ MakeMethod(i)' = MakeMethod(i)
  BY <1>1, <1>12, <1>14 DEF FriendMake, NewStyle, MakeMethod
<1>16. \A i : /\ NoMake(i)' = NoMake(i) /\ SeveralMakes(i)' = SeveralMakes(i)
              /\ OneMake(i)' = OneMake(i) /\ SeveralHeaders(i)' = SeveralHeaders(i)
  BY <1>2, <1>12, <1>13, <1>14 DEF NoMake, SeveralMakes, OneMake, SeveralHeaders
<1>17. \A i : IsBlock(i)' = IsBlock(i)
  BY <1>15, <1>16 DEF IsBlock
<1>18. \A i : PlacesOf(i)' = PlacesOf(i)
  BY <1>10 DEF PlacesOf
<1>19. \A i : PassedOver(i)' = PassedOver(i) /\ OldStyle(i)' = OldStyle(i)
  BY <1>4, <1>14, <1>16 DEF PassedOver, OldStyle
<1>20. \A i : BothStyles(i)' = BothStyles(i)
  BY <1>4, <1>15, <1>19 DEF BothStyles
<1>21. \A p : MethodName(p)' = MethodName(p)
  BY <1>1, <1>6 DEF MethodName
<1>22. \A name : Declared(name)' = Declared(name)
  BY <1>2, <1>3, <1>6, <1>8, <1>10, <1>21 DEF Declared
<1>23. \A i : KillingClass(i)' = KillingClass(i)
  BY <1>1, <1>5, <1>15, <1>16, <1>19 DEF KillingClass
<1>24. Fatal' = Fatal
  BY <1>1, <1>3, <1>4, <1>23 DEF Fatal
<1>25. QED
  BY <1>1, <1>2, <1>3, <1>4, <1>5, <1>6, <1>8, <1>9, <1>10, <1>11, <1>14, <1>15, <1>16,
     <1>17, <1>18, <1>20, <1>21, <1>22, <1>24, <1>19

-----------------------------------------------------------------------------
(* Facts about finished rounds *)

\* One more round of a walk is finished, and of no other.
LEMMA NextRound ==
  ASSUME pc' = pc, pos \in Nat, pos' = pos + 1
  PROVE  \A q \in Nat :
           /\ Read(q)' <=> Read(q) \/ (pc = "index" /\ q = pos)
           /\ Searched(q)' <=> Searched(q) \/ (pc = "find blocks" /\ q = pos)
           /\ Searched2(q)' <=> Searched2(q) \/ (pc = "find blocks2" /\ q = pos)
           /\ BlockDone(q)' <=> BlockDone(q) \/ (pc = "blocks" /\ q = pos)
           /\ Block2Done(q)' <=> Block2Done(q) \/ (pc = "blocks2" /\ q = pos)
           /\ FunctionDone(q)' <=> FunctionDone(q) \/ (pc = "functions" /\ q = pos)
           /\ ClassDone(q)' <=> ClassDone(q) \/ (pc = "classes" /\ q = pos)
<1> TAKE q \in Nat
<1>0. q < pos' <=> q < pos \/ q = pos
  OBVIOUS
<1>1. Read(q)' <=> Read(q) \/ (pc = "index" /\ q = pos)
  BY <1>0 DEF Read, Done
<1>2. Searched(q)' <=> Searched(q) \/ (pc = "find blocks" /\ q = pos)
  BY <1>0 DEF Searched, Done
<1>3. Searched2(q)' <=> Searched2(q) \/ (pc = "find blocks2" /\ q = pos)
  BY <1>0 DEF Searched2, Done
<1>4. BlockDone(q)' <=> BlockDone(q) \/ (pc = "blocks" /\ q = pos)
  BY <1>0 DEF BlockDone, Done
<1>5. Block2Done(q)' <=> Block2Done(q) \/ (pc = "blocks2" /\ q = pos)
  BY <1>0 DEF Block2Done, Done
<1>6. FunctionDone(q)' <=> FunctionDone(q) \/ (pc = "functions" /\ q = pos)
  BY <1>0 DEF FunctionDone, Done
<1>7. ClassDone(q)' <=> ClassDone(q) \/ (pc = "classes" /\ q = pos)
  BY <1>0 DEF ClassDone, Done
<1>8. QED
  BY <1>1, <1>2, <1>3, <1>4, <1>5, <1>6, <1>7

\* The order of the walks.
LEMMA Order ==
  ASSUME pos \in Nat
  PROVE  \A q \in Nat :
           /\ pc = "index" => (Read(q) <=> q < pos)
           /\ pc \in {"find blocks", "find blocks2", "blocks", "blocks2", "functions",
                      "classes", "written"} => Read(q)
           /\ pc = "find blocks" => (Searched(q) <=> q < pos)
           /\ pc \in {"find blocks2", "blocks", "blocks2", "functions", "classes", "written"}
                => Searched(q)
           /\ pc = "find blocks2" => (Searched2(q) <=> q < pos)
           /\ pc \in {"blocks", "blocks2", "functions", "classes", "written"} => Searched2(q)
           /\ pc = "blocks" => (BlockDone(q) <=> q < pos)
           /\ pc \in {"blocks2", "functions", "classes", "written"} => BlockDone(q)
           /\ pc = "blocks2" => (Block2Done(q) <=> q < pos)
           /\ pc \in {"functions", "classes", "written"} => Block2Done(q)
           /\ pc = "functions" => (FunctionDone(q) <=> q < pos)
           /\ pc \in {"classes", "written"} => FunctionDone(q)
           /\ pc = "classes" => (ClassDone(q) <=> q < pos)
           /\ pc = "written" => ClassDone(q)
           /\ pc = "index" => ~Searched(q)
           /\ pc \in {"index", "find blocks"} => ~Searched2(q)
           /\ pc \in {"index", "find blocks", "find blocks2"} => ~BlockDone(q)
           /\ pc \in {"index", "find blocks", "find blocks2", "blocks"} => ~Block2Done(q)
           /\ pc \in {"index", "find blocks", "find blocks2", "blocks", "blocks2"} =>
                ~FunctionDone(q)
           /\ pc \in {"index", "find blocks", "find blocks2", "blocks", "blocks2", "functions"}
                => ~ClassDone(q)
  BY DEF Read, Searched, Searched2, BlockDone, Block2Done, FunctionDone, ClassDone, Done,
     AfterIndex, AfterFind, AfterFind2, AfterBlocks, AfterBlocks2, AfterFunctions, AfterClasses

-----------------------------------------------------------------------------
(* What the type invariant says of the lists *)

\* The lists hold members of the index and readable classes.
LEMMA Lists ==
  ASSUME TypeInv
  PROVE  /\ Len(di) \in Nat /\ DOMAIN di = 1..Len(di) /\ DOMAIN di \subseteq Nat
         /\ \A q \in DOMAIN di : di[q] \in Accessible
         /\ Range(di) \subseteq Accessible
         /\ Len(blocks) \in Nat /\ DOMAIN blocks = 1..Len(blocks) /\ DOMAIN blocks \subseteq Nat
         /\ \A q \in DOMAIN blocks : blocks[q] \in Readable /\ blocks[q] \in Range(blocks)
         /\ Range(blocks) \subseteq Readable
         /\ Len(blocks2) \in Nat /\ DOMAIN blocks2 = 1..Len(blocks2)
         /\ DOMAIN blocks2 \subseteq Nat
         /\ \A q \in DOMAIN blocks2 : blocks2[q] \in Readable /\ blocks2[q] \in Range(blocks2)
         /\ Range(blocks2) \subseteq Readable
         /\ Readable \subseteq Classes /\ Classes \subseteq DOMAIN index
<1>1. Len(di) \in Nat /\ DOMAIN di = 1..Len(di)
      /\ \A q \in DOMAIN di : di[q] \in Accessible
  BY LenProperties, ElementOfSeq DEF TypeInv
<1>2. Len(blocks) \in Nat /\ DOMAIN blocks = 1..Len(blocks)
      /\ \A q \in DOMAIN blocks : blocks[q] \in Readable
  BY LenProperties, ElementOfSeq DEF TypeInv
<1>3. Len(blocks2) \in Nat /\ DOMAIN blocks2 = 1..Len(blocks2)
      /\ \A q \in DOMAIN blocks2 : blocks2[q] \in Readable
  BY LenProperties, ElementOfSeq DEF TypeInv
<1>4. Readable \subseteq Classes /\ Classes \subseteq DOMAIN index
  BY DEF Readable, Classes
<1>5. Range(di) \subseteq Accessible /\ Range(blocks) \subseteq Readable
      /\ Range(blocks2) \subseteq Readable
  BY <1>1, <1>2, <1>3 DEF Range
<1>6. (\A q \in DOMAIN blocks : blocks[q] \in Range(blocks))
      /\ \A q \in DOMAIN blocks2 : blocks2[q] \in Range(blocks2)
  BY DEF Range
<1>7. DOMAIN di \subseteq Nat /\ DOMAIN blocks \subseteq Nat /\ DOMAIN blocks2 \subseteq Nat
  BY <1>1, <1>2, <1>3
<1>8. QED
  BY <1>1, <1>2, <1>3, <1>4, <1>5, <1>6, <1>7

\* Once the index is read, the members are all that is accessible.
LEMMA AllRead ==
  ASSUME TypeInv, IndexInv, \A i \in DOMAIN index : Read(i)
  PROVE  /\ Range(di) = Accessible
         /\ \A i \in Classes : \E q \in DOMAIN di : di[q] = <<i, 0>> /\ di[q][1] = i
<1>1. Range(di) = Accessible
  <2>1. \A p \in Accessible : p[1] \in DOMAIN index
    BY Places DEF TypeInv
  <2>2. QED
    BY <2>1, Lists DEF IndexInv
<1>2. \A i \in Classes : <<i, 0>> \in Range(di)
  BY <1>1, Places DEF TypeInv
<1>3. QED
  BY <1>1, <1>2 DEF Range

-----------------------------------------------------------------------------
(* Steps that finish no round of a walk keep what is known of it *)

\* A step that only moves on keeps the types.
LEMMA KeepTypes ==
  ASSUME TypeInv, UNCHANGED <<index, di, blocks, blocks2>>, pos' \in Nat \ {0},
         pc' \in {"index", "died"} \cup AfterIndex
  PROVE  TypeInv'
  BY SameIndex DEF TypeInv

\* Nothing more to read: the members stay what they are.
LEMMA KeepIndex ==
  ASSUME IndexInv, UNCHANGED <<index, di>>, pc' # "index",
         \A i \in DOMAIN index : Read(i)' => Read(i),
         \A p \in Accessible : p[1] \in DOMAIN index
  PROVE  IndexInv'
  BY SameIndex DEF IndexInv

\* No further round of the search for blocks, or of the one for new style blocks.
LEMMA KeepBlocks ==
  ASSUME BlocksInv, UNCHANGED <<index, di, blocks>>,
         pc' \notin {"index", "find blocks"},
         \A q \in DOMAIN di : Searched(q)' => Searched(q)
  PROVE  BlocksInv'
<1>1. \A i : SeveralMakes(i)' = SeveralMakes(i) /\ FriendMake(i)' = FriendMake(i)
             /\ IsBlock(i)' = IsBlock(i) /\ ClassFile(i)' = ClassFile(i)
  BY SameIndex
<1>2. Classes' = Classes /\ Readable' = Readable
  BY SameIndex
<1>3. QED
  BY <1>1, <1>2 DEF BlocksInv, Found

\* The new-style blocks found stay as they are while their walk does not go on.
LEMMA KeepBlocks2 ==
  ASSUME Blocks2Inv, UNCHANGED <<index, di, blocks2>>, pc' # "find blocks2",
         pc' \in {"index", "find blocks"} => pc \in {"index", "find blocks"},
         \A q \in DOMAIN di : Searched2(q)' => Searched2(q)
  PROVE  Blocks2Inv'
<1>1. (\A i : NewStyle(i)' = NewStyle(i)) /\ Readable' = Readable
  BY SameIndex
<1>2. QED
  BY <1>1 DEF Blocks2Inv, Found

\* A make function stays the one of its block.
LEMMA KeepMade ==
  ASSUME MadeInv, UNCHANGED <<index, made>>,
         made = {} \/ UNCHANGED <<blocks, blocks2>>,
         \A q \in DOMAIN blocks : BlockDone(q) => BlockDone(q)',
         \A q \in DOMAIN blocks2 : Block2Done(q) => Block2Done(q)'
  PROVE  MadeInv'
<1>1. \A i : MakeOf(i)' = MakeOf(i) /\ ClassName(i)' = ClassName(i)
  BY SameIndex
<1>2. QED
  BY <1>1 DEF MadeInv

\* An entry stays the work of its round.
LEMMA KeepEntry ==
  ASSUME UNCHANGED <<index, di, blocks, blocks2>>, made \subseteq made',
         \A q \in DOMAIN blocks : BlockDone(q) => BlockDone(q)',
         \A q \in DOMAIN blocks2 : Block2Done(q) => Block2Done(q)',
         \A q \in DOMAIN di : FunctionDone(q) => FunctionDone(q)' /\ UNCHANGED made,
         \A q \in DOMAIN di : ClassDone(q) => ClassDone(q)',
         NEW x, ByBlock(x) \/ ByBlock2(x) \/ ByFunction(x) \/ ByClass(x)
  PROVE  (ByBlock(x) \/ ByBlock2(x) \/ ByFunction(x) \/ ByClass(x))'
<1>1. /\ \A i : OldStyle(i)' = OldStyle(i) /\ MakeOf(i)' = MakeOf(i)
                /\ PlacesOf(i)' = PlacesOf(i) /\ ClassName(i)' = ClassName(i)
      /\ Functions' = Functions /\ Classes' = Classes
  BY SameIndex
<1>2. BlockNames' = BlockNames
  BY <1>1 DEF BlockNames
<1>3. ByBlock(x) => ByBlock(x)'
  BY <1>1 DEF ByBlock
<1>4. ByBlock2(x) => ByBlock2(x)'
  BY <1>1 DEF ByBlock2
<1>5. ByFunction(x) => ByFunction(x)'
  BY <1>1 DEF ByFunction
<1>6. ByClass(x) => ByClass(x)'
  BY <1>1, <1>2 DEF ByClass
<1>7. QED
  BY <1>3, <1>4, <1>5, <1>6

\* A description that is documented stays so.
LEMMA KeepDocumented ==
  ASSUME UNCHANGED index, out \subseteq out'
  PROVE  /\ \A p, name : Documented(p, name) => Documented(p, name)'
         /\ \A i : ClassDocumented(i) => ClassDocumented(i)'
<1>1. \A name, words : Documents(name, words) => Documents(name, words)'
  BY DEF Documents
<1>2. \A p : NameOf(p)' = NameOf(p) /\ Described(p)' = Described(p)
             /\ MethodName(p)' = MethodName(p)
  BY SameIndex
<1>3. \A p, name : Documented(p, name) => Documented(p, name)'
  BY <1>1, <1>2 DEF Documented
<1>4. \A i : ClassName(i)' = ClassName(i) /\ Methods(i)' = Methods(i)
  BY SameIndex
<1>5. QED
  BY <1>2, <1>3, <1>4 DEF ClassDocumented

\* So does a block that is written or passed over.
LEMMA KeepBlockWritten ==
  ASSUME UNCHANGED index, out \subseteq out', made \subseteq made'
  PROVE  \A i : BlockWritten(i) => BlockWritten(i)'
<1>1. \A i : ClassDocumented(i) => ClassDocumented(i)'
  BY KeepDocumented
<1>2. \A i : /\ OneMake(i)' = OneMake(i) /\ MakeOf(i)' = MakeOf(i) /\ OldStyle(i)' = OldStyle(i)
             /\ SeveralHeaders(i)' = SeveralHeaders(i) /\ ClassFile(i)' = ClassFile(i)
  BY SameIndex
<1>3. \A i : Formats(ClassFile(i).params)' = Formats(ClassFile(i).params)
  BY <1>2 DEF Formats
<1>4. QED
  BY <1>1, <1>2, <1>3 DEF BlockWritten

\* What the finished rounds have written stays written.
LEMMA KeepWritten ==
  ASSUME WrittenInv, UNCHANGED <<index, made>>, out \subseteq out',
         UNCHANGED <<di, blocks, blocks2>> \/
           \A q \in Nat : /\ ~BlockDone(q)' /\ ~Block2Done(q)'
                          /\ ~FunctionDone(q)' /\ ~ClassDone(q)',
         (DOMAIN di)' \cup (DOMAIN blocks)' \cup (DOMAIN blocks2)' \subseteq Nat,
         \A q \in DOMAIN blocks : BlockDone(q)' => BlockDone(q),
         \A q \in DOMAIN blocks2 : Block2Done(q)' => Block2Done(q),
         \A q \in DOMAIN di : FunctionDone(q)' => FunctionDone(q),
         \A q \in DOMAIN di : ClassDone(q)' => ClassDone(q)
  PROVE  WrittenInv'
<1>1. /\ Functions' = Functions /\ Readable' = Readable
      /\ \A p : NameOf(p)' = NameOf(p) /\ Described(p)' = Described(p)
      /\ \A i : /\ OneMake(i)' = OneMake(i) /\ SeveralHeaders(i)' = SeveralHeaders(i)
                /\ ClassFile(i)' = ClassFile(i) /\ MakeMethod(i)' = MakeMethod(i)
                /\ ClassName(i)' = ClassName(i)
  BY SameIndex
<1>2. /\ \A p, name : Documented(p, name) => Documented(p, name)'
      /\ \A i : ClassDocumented(i) => ClassDocumented(i)'
  BY KeepDocumented
<1>3. (\A p \in Functions : <<NameOf(p)>> \in made => Documented(p, <<NameOf(p)>>))'
  BY <1>1, <1>2 DEF WrittenInv
<1>4. CASE \A q \in Nat : /\ ~BlockDone(q)' /\ ~Block2Done(q)'
                          /\ ~FunctionDone(q)' /\ ~ClassDone(q)'
  BY <1>3, <1>4 DEF WrittenInv
<1>5. CASE UNCHANGED <<di, blocks, blocks2>>
  <2>1. (\A q \in DOMAIN blocks : BlockDone(q) => BlockWritten(blocks[q]))'
    <3>1. \A i : BlockWritten(i) => BlockWritten(i)'
      BY KeepBlockWritten
    <3>2. QED
      BY <1>5, <3>1 DEF WrittenInv
  <2>2. (\A q \in DOMAIN blocks2 : Block2Done(q) =>
           /\ ClassDocumented(blocks2[q])
           /\ Formats(Described(MakeMethod(blocks2[q])).params))'
    BY <1>1, <1>2, <1>5 DEF WrittenInv, Formats
  <2>3. (\A q \in DOMAIN di :
           FunctionDone(q) /\ di[q] \in Functions /\ NameOf(di[q]) \notin StdNames =>
             Documented(di[q], <<NameOf(di[q])>>))'
    BY <1>1, <1>2, <1>5 DEF WrittenInv
  <2>4. BlockNames' = BlockNames
    BY <1>1, <1>5 DEF BlockNames
  <2>5. (\A q \in DOMAIN di : ClassDone(q) /\ di[q][1] \in Readable =>
           (ClassName(di[q][1]) \notin BlockNames \cup StdNames =>
              ClassDocumented(di[q][1]) /\ Formats(ClassFile(di[q][1]).params)))'
    BY <1>1, <1>2, <1>5, <2>4 DEF WrittenInv, Formats
  <2>6. QED
    BY <1>3, <2>1, <2>2, <2>3, <2>5 DEF WrittenInv
<1>6. QED
  BY <1>4, <1>5

\* The empty list.
LEMMA NoElements == DOMAIN <<>> = {} /\ Range(<<>>) = {}
<1>1. Len(<<>>) = 0 /\ DOMAIN <<>> = 1..Len(<<>>)
  BY EmptySeq, LenProperties
<1>2. DOMAIN <<>> = {}
  BY <1>1
<1>3. QED
  BY <1>2 DEF Range

\* A step that writes nothing keeps what is said of the entries alone.
LEMMA SameOut ==
  ASSUME NamesInv, OnceInv, UNCHANGED <<index, out>>
  PROVE  NamesInv' /\ OnceInv'
  BY SameIndex DEF NamesInv, OnceInv

\* Dying of a fatal input.
LEMMA DieInv ==
  ASSUME SwigInv, Die, Fatal
  PROVE  SwigInv'
<1>1. TypeInv'
  BY KeepTypes DEF Die, SwigInv, TypeInv
<1>2. NamesInv' /\ OnceInv'
  BY SameOut DEF Die, SwigInv
<1>3. Fatal' /\ pc' = "died"
  BY SameIndex DEF Die
<1>4. QED
  BY <1>1, <1>2, <1>3 DEF SwigInv

\* A walk that ends has finished all its rounds, and the next one none.
LEMMA PhaseRounds ==
  ASSUME SwigInv, NextPhase
  PROVE  /\ \A i \in DOMAIN index : Read(i)' <=> Read(i)
         /\ \A q \in DOMAIN di : /\ Searched(q)' <=> Searched(q)
                                 /\ Searched2(q)' <=> Searched2(q)
                                 /\ FunctionDone(q)' <=> FunctionDone(q)
                                 /\ ClassDone(q)' <=> ClassDone(q)
         /\ \A q \in DOMAIN blocks : BlockDone(q)' <=> BlockDone(q)
         /\ \A q \in DOMAIN blocks2 : Block2Done(q)' <=> Block2Done(q)
<1>1. /\ DOMAIN index = 1..Len(index) /\ Len(index) \in Nat
      /\ DOMAIN di = 1..Len(di) /\ Len(di) \in Nat
      /\ DOMAIN blocks = 1..Len(blocks) /\ Len(blocks) \in Nat
      /\ DOMAIN blocks2 = 1..Len(blocks2) /\ Len(blocks2) \in Nat
      /\ pos \in Nat
  BY IndexTypes, Lists DEF TypeInv, SwigInv
<1>2. /\ pos' = 1
      /\ \/ pc = "index" /\ pos > Len(index) /\ pc' = "find blocks"
         \/ pc = "find blocks" /\ pos > Len(di) /\ pc' = "find blocks2"
         \/ pc = "find blocks2" /\ pos > Len(di) /\ pc' = "blocks"
         \/ pc = "blocks" /\ pos > Len(blocks) /\ pc' = "blocks2"
         \/ pc = "blocks2" /\ pos > Len(blocks2) /\ pc' = "functions"
         \/ pc = "functions" /\ pos > Len(di) /\ pc' = "classes"
         \/ pc = "classes" /\ pos > Len(di) /\ pc' = "written"
  BY DEF NextPhase, Walked
<1>3. /\ pc = "index" \/ (pc' \in AfterIndex <=> pc \in AfterIndex)
      /\ pc = "index" => pc' \in AfterIndex /\ pos > Len(index)
  BY <1>2 DEF AfterIndex, AfterFind, AfterFind2, AfterBlocks, AfterBlocks2, AfterFunctions,
     AfterClasses
<1>4. /\ pc = "find blocks" \/ (pc' \in AfterFind <=> pc \in AfterFind)
      /\ pc = "find blocks" => pc' \in AfterFind /\ pos > Len(di)
  BY <1>2 DEF AfterFind, AfterFind2, AfterBlocks, AfterBlocks2, AfterFunctions, AfterClasses
<1>5. /\ pc = "find blocks2" \/ (pc' \in AfterFind2 <=> pc \in AfterFind2)
      /\ pc = "find blocks2" => pc' \in AfterFind2 /\ pos > Len(di)
  BY <1>2 DEF AfterFind2, AfterBlocks, AfterBlocks2, AfterFunctions, AfterClasses
<1>6. /\ pc = "blocks" \/ (pc' \in AfterBlocks <=> pc \in AfterBlocks)
      /\ pc = "blocks" => pc' \in AfterBlocks /\ pos > Len(blocks)
  BY <1>2 DEF AfterBlocks, AfterBlocks2, AfterFunctions, AfterClasses
<1>7. /\ pc = "blocks2" \/ (pc' \in AfterBlocks2 <=> pc \in AfterBlocks2)
      /\ pc = "blocks2" => pc' \in AfterBlocks2 /\ pos > Len(blocks2)
  BY <1>2 DEF AfterBlocks2, AfterFunctions, AfterClasses
<1>8. /\ pc = "functions" \/ (pc' \in AfterFunctions <=> pc \in AfterFunctions)
      /\ pc = "functions" => pc' \in AfterFunctions /\ pos > Len(di)
  BY <1>2 DEF AfterFunctions, AfterClasses
<1>9. /\ pc = "classes" \/ (pc' \in AfterClasses <=> pc \in AfterClasses)
      /\ pc = "classes" => pc' \in AfterClasses /\ pos > Len(di)
  BY <1>2 DEF AfterClasses
<1>10. pos' = 1
  BY DEF NextPhase, Walked
<1>11. \A i \in DOMAIN index : Read(i)' <=> Read(i)
  <2>1. \A i \in DOMAIN index : ~(i < pos') /\ (pos > Len(index) => i < pos)
    BY <1>1, <1>10
  <2>2. QED
    BY <2>1, <1>3 DEF Read, Done
<1>12. \A q \in DOMAIN di : Searched(q)' <=> Searched(q)
  <2>1. \A q \in DOMAIN di : ~(q < pos') /\ (pos > Len(di) => q < pos)
    BY <1>1, <1>10
  <2>2. QED
    BY <2>1, <1>4 DEF Searched, Done
<1>13. \A q \in DOMAIN di : Searched2(q)' <=> Searched2(q)
  <2>1. \A q \in DOMAIN di : ~(q < pos') /\ (pos > Len(di) => q < pos)
    BY <1>1, <1>10
  <2>2. QED
    BY <2>1, <1>5 DEF Searched2, Done
<1>14. \A q \in DOMAIN blocks : BlockDone(q)' <=> BlockDone(q)
  <2>1. \A q \in DOMAIN blocks : ~(q < pos') /\ (pos > Len(blocks) => q < pos)
    BY <1>1, <1>10
  <2>2. QED
    BY <2>1, <1>6 DEF BlockDone, Done
<1>15. \A q \in DOMAIN blocks2 : Block2Done(q)' <=> Block2Done(q)
  <2>1. \A q \in DOMAIN blocks2 : ~(q < pos') /\ (pos > Len(blocks2) => q < pos)
    BY <1>1, <1>10
  <2>2. QED
    BY <2>1, <1>7 DEF Block2Done, Done
<1>16. \A q \in DOMAIN di : FunctionDone(q)' <=> FunctionDone(q)
  <2>1. \A q \in DOMAIN di : ~(q < pos') /\ (pos > Len(di) => q < pos)
    BY <1>1, <1>10
  <2>2. QED
    BY <2>1, <1>8 DEF FunctionDone, Done
<1>17. \A q \in DOMAIN di : ClassDone(q)' <=> ClassDone(q)
  <2>1. \A q \in DOMAIN di : ~(q < pos') /\ (pos > Len(di) => q < pos)
    BY <1>1, <1>10
  <2>2. QED
    BY <2>1, <1>9 DEF ClassDone, Done
<1>18. QED
  BY <1>11, <1>12, <1>13, <1>14, <1>15, <1>16, <1>17

\* The change from one walk to the next.
LEMMA PhaseInv ==
  ASSUME SwigInv, NextPhase
  PROVE  SwigInv'
<1>1. /\ UNCHANGED <<index, di, blocks, blocks2, made, out>> /\ pos' = 1
      /\ pc \notin {"died", "written"} /\ pc' \notin {"index", "died"}
      /\ pc' = "find blocks" => pc = "index"
      /\ pc' = "find blocks2" => pc = "find blocks"
      /\ pc' \in AfterIndex
  BY DEF NextPhase, Walked, AfterIndex, AfterFind, AfterFind2, AfterBlocks, AfterBlocks2,
     AfterFunctions, AfterClasses
<1>2. TypeInv /\ NamesInv /\ OnceInv /\ Progress
  BY <1>1 DEF SwigInv
<1>3. TypeInv'
  <2>1. pos' \in Nat \ {0} /\ pc' \in {"index", "died"} \cup AfterIndex
    <3>1. pos' = 1 /\ pc' \in AfterIndex
      BY <1>1
    <3>2. QED
      BY <3>1
  <2>2. QED
    BY <1>1, <1>2, <2>1, KeepTypes
<1>4. NamesInv' /\ OnceInv'
  BY <1>1, <1>2, SameOut
<1>5. IndexInv'
  BY <1>1, <1>2, KeepIndex, PhaseRounds, Places DEF Progress, TypeInv
<1>6. BlocksInv'
  <2>1. CASE pc' = "find blocks"
    <3>1. blocks = <<>> /\ \A q \in DOMAIN di : ~Searched(q)
      BY <1>1, <1>2, <2>1, Order, Lists DEF Progress, BlocksInv, TypeInv
    <3>2. \A q \in DOMAIN di : ~Searched(q)'
      BY <3>1, PhaseRounds
    <3>3. DOMAIN blocks' = {} /\ Range(blocks') = {}
      BY <3>1, <1>1, NoElements
    <3>4. QED
      BY <1>1, <2>1, <3>2, <3>3 DEF BlocksInv, Found
  <2>2. CASE pc' # "find blocks"
    BY <1>1, <1>2, <2>2, KeepBlocks, PhaseRounds DEF Progress
  <2>3. QED
    BY <2>1, <2>2
<1>7. Blocks2Inv'
  <2>1. CASE pc' = "find blocks2"
    <3>1. blocks2 = <<>> /\ \A q \in DOMAIN di : ~Searched2(q)
      BY <1>1, <1>2, <2>1, Order, Lists DEF Progress, Blocks2Inv, TypeInv
    <3>2. \A q \in DOMAIN di : ~Searched2(q)'
      BY <3>1, PhaseRounds
    <3>3. DOMAIN blocks2' = {} /\ Range(blocks2') = {}
      BY <3>1, <1>1, NoElements
    <3>4. QED
      BY <1>1, <2>1, <3>2, <3>3 DEF Blocks2Inv, Found
  <2>2. CASE pc' # "find blocks2"
    BY <1>1, <1>2, <2>2, KeepBlocks2, PhaseRounds DEF Progress
  <2>3. QED
    BY <2>1, <2>2
<1>8. MadeInv'
  BY <1>1, <1>2, KeepMade, PhaseRounds DEF Progress
<1>9. OutInv'
  <2>1. \A x \in out : ByBlock(x) \/ ByBlock2(x) \/ ByFunction(x) \/ ByClass(x)
    BY <1>2 DEF Progress, OutInv
  <2>2. \A x \in out : (ByBlock(x) \/ ByBlock2(x) \/ ByFunction(x) \/ ByClass(x))'
    BY <1>1, <2>1, KeepEntry, PhaseRounds
  <2>3. QED
    BY <1>1, <2>2 DEF OutInv
<1>10. WrittenInv'
  BY <1>1, <1>2, KeepWritten, PhaseRounds, Lists DEF Progress
<1>11. QED
  BY <1>1, <1>3, <1>4, <1>5, <1>6, <1>7, <1>8, <1>9, <1>10 DEF SwigInv, Progress

-----------------------------------------------------------------------------
(* Reading the index, and looking for blocks: nothing is written yet *)

\* Nothing is written before the blocks are known.
LEMMA Nothing ==
  ASSUME SwigInv, pc \in {"index", "find blocks", "find blocks2"}
  PROVE  made = {} /\ out = {}
<1>1. pc # "died"
  OBVIOUS
<1>2. TypeInv /\ Progress
  BY <1>1 DEF SwigInv
<1>3. pos \in Nat
  BY <1>2 DEF TypeInv
<1>4. \A q \in Nat : ~BlockDone(q) /\ ~Block2Done(q) /\ ~FunctionDone(q) /\ ~ClassDone(q)
  BY <1>3, Order
<1>5. DOMAIN di \subseteq Nat /\ DOMAIN blocks \subseteq Nat /\ DOMAIN blocks2 \subseteq Nat
  BY <1>2, Lists
<1>6. made = {}
  BY <1>2, <1>4, <1>5 DEF Progress, MadeInv
<1>7. out = {}
  BY <1>2, <1>4, <1>5 DEF Progress, OutInv, ByBlock, ByBlock2, ByFunction, ByClass
<1>8. QED
  BY <1>6, <1>7

\* Facts of arithmetic and of sequences.
LEMMA NextPosition ==
  /\ \A n \in Nat : n + 1 \in Nat \ {0}
  /\ \A m, n \in Nat : m < n => m < n + 1
  /\ \A m, n \in Nat : m # 0 /\ m <= n => m \in 1..n
  OBVIOUS

\* The positions of a list are natural numbers.
LEMMA Positions == \A S : \A s \in Seq(S) : DOMAIN s \subseteq Nat
<1> TAKE S
<1> TAKE s \in Seq(S)
<1>1. Len(s) \in Nat /\ DOMAIN s = 1..Len(s)
  BY LenProperties
<1>2. QED
  BY <1>1

\* A round of a walk that does not write yet.
LEMMA StillNothing ==
  ASSUME SwigInv, pc \in {"index", "find blocks", "find blocks2"},
         UNCHANGED <<pc, index, made, out>>, pos' = pos + 1,
         di' \in Seq(Accessible), blocks' \in Seq(Readable), blocks2' \in Seq(Readable)
  PROVE  /\ TypeInv' /\ NamesInv' /\ OnceInv'
         /\ MadeInv' /\ OutInv' /\ WrittenInv'
<1>1. pc # "died"
  OBVIOUS
<1>2. TypeInv /\ Progress
  BY <1>1 DEF SwigInv
<1>3. pos \in Nat
  BY <1>2 DEF TypeInv
<1>4. pos' \in Nat \ {0}
  BY <1>3, NextPosition
<1>5. TypeInv'
  BY <1>2, <1>4, SameIndex DEF TypeInv
<1>6. made' = {} /\ out' = {}
  BY Nothing
<1>7. NamesInv' /\ OnceInv' /\ MadeInv' /\ OutInv'
  BY <1>6 DEF NamesInv, OnceInv, MadeInv, OutInv
<1>8. \A q \in Nat : ~BlockDone(q) /\ ~Block2Done(q) /\ ~FunctionDone(q) /\ ~ClassDone(q)
  BY <1>3, Order
<1>9. \A q \in Nat : /\ BlockDone(q)' <=> BlockDone(q)
                     /\ Block2Done(q)' <=> Block2Done(q)
                     /\ FunctionDone(q)' <=> FunctionDone(q)
                     /\ ClassDone(q)' <=> ClassDone(q)
  BY <1>3, NextRound
<1>10. (DOMAIN di)' \cup (DOMAIN blocks)' \cup (DOMAIN blocks2)' \subseteq Nat
  BY Positions
<1>11. DOMAIN di \subseteq Nat /\ DOMAIN blocks \subseteq Nat /\ DOMAIN blocks2 \subseteq Nat
  BY <1>2, Lists
<1>12. WrittenInv'
  BY <1>2, <1>8, <1>9, <1>10, <1>11, KeepWritten DEF Progress
<1>13. QED
  BY <1>5, <1>7, <1>12

\* The elements of two lists joined, and of a list of one.
LEMMA RangeConcat ==
  ASSUME NEW S, NEW s \in Seq(S), NEW t \in Seq(S)
  PROVE  Range(s \o t) = Range(s) \cup Range(t)
<1>1. /\ Len(s) \in Nat /\ DOMAIN s = 1..Len(s) /\ Len(t) \in Nat /\ DOMAIN t = 1..Len(t)
      /\ Len(s \o t) = Len(s) + Len(t) /\ DOMAIN (s \o t) = 1..(Len(s) + Len(t))
      /\ \A a \in 1..(Len(s) + Len(t)) :
           (s \o t)[a] = IF a <= Len(s) THEN s[a] ELSE t[a - Len(s)]
  BY LenProperties, ConcatProperties
<1>2. \A a \in DOMAIN s : a \in DOMAIN (s \o t) /\ (s \o t)[a] = s[a]
  BY <1>1
<1>3. \A a \in DOMAIN t : a + Len(s) \in DOMAIN (s \o t) /\ (s \o t)[a + Len(s)] = t[a]
  BY <1>1
<1>4. \A a \in DOMAIN (s \o t) : \/ a \in DOMAIN s /\ (s \o t)[a] = s[a]
                                 \/ a - Len(s) \in DOMAIN t /\ (s \o t)[a] = t[a - Len(s)]
  BY <1>1
<1>5. Range(s) \cup Range(t) \subseteq Range(s \o t)
  BY <1>2, <1>3 DEF Range
<1>6. ASSUME NEW x \in Range(s \o t)
      PROVE  x \in Range(s) \cup Range(t)
  <2>1. PICK a \in DOMAIN (s \o t) : x = (s \o t)[a]
    BY DEF Range
  <2>2. QED
    BY <1>4, <2>1 DEF Range
<1>7. QED
  BY <1>5, <1>6

\* Two lists without repetitions that share nothing have none together.
LEMMA OnceConcat ==
  ASSUME NEW S, NEW s \in Seq(S), NEW t \in Seq(S),
         \A a, b \in DOMAIN s : s[a] = s[b] => a = b,
         \A a, b \in DOMAIN t : t[a] = t[b] => a = b,
         \A a \in DOMAIN s, b \in DOMAIN t : s[a] # t[b]
  PROVE  \A a, b \in DOMAIN (s \o t) : (s \o t)[a] = (s \o t)[b] => a = b
<1>1. /\ Len(s) \in Nat /\ DOMAIN s = 1..Len(s) /\ Len(t) \in Nat /\ DOMAIN t = 1..Len(t)
      /\ Len(s \o t) = Len(s) + Len(t) /\ DOMAIN (s \o t) = 1..(Len(s) + Len(t))
      /\ \A a \in 1..(Len(s) + Len(t)) :
           (s \o t)[a] = IF a <= Len(s) THEN s[a] ELSE t[a - Len(s)]
  BY LenProperties, ConcatProperties
<1>2. TAKE a, b \in DOMAIN (s \o t)
<1>3. CASE a <= Len(s) /\ b <= Len(s)
  BY <1>1, <1>3
<1>4. CASE a > Len(s) /\ b > Len(s)
  <2>1. (s \o t)[a] = t[a - Len(s)] /\ (s \o t)[b] = t[b - Len(s)]
        /\ a - Len(s) \in DOMAIN t /\ b - Len(s) \in DOMAIN t
    BY <1>1, <1>4
  <2>2. (s \o t)[a] = (s \o t)[b] => a - Len(s) = b - Len(s)
    BY <2>1
  <2>3. QED
    BY <1>1, <2>2
<1>5. CASE a <= Len(s) /\ b > Len(s)
  BY <1>1, <1>5
<1>6. CASE a > Len(s) /\ b <= Len(s)
  BY <1>1, <1>6
<1>7. QED
  BY <1>1, <1>3, <1>4, <1>5, <1>6

\* Places of one more entry come after those of the entries before it.
LEMMA OrderConcat ==
  ASSUME NEW S, NEW s \in Seq(S), NEW t \in Seq(S), NEW n \in Nat,
         \A a \in DOMAIN s : s[a][1] \in Nat /\ s[a][1] < n,
         \A a \in DOMAIN t : t[a][1] = n,
         \A a, b \in DOMAIN s : a < b => s[a][1] <= s[b][1]
  PROVE  \A a, b \in DOMAIN (s \o t) : a < b => (s \o t)[a][1] <= (s \o t)[b][1]
<1>1. /\ Len(s) \in Nat /\ DOMAIN s = 1..Len(s) /\ Len(t) \in Nat /\ DOMAIN t = 1..Len(t)
      /\ Len(s \o t) = Len(s) + Len(t) /\ DOMAIN (s \o t) = 1..(Len(s) + Len(t))
      /\ \A a \in 1..(Len(s) + Len(t)) :
           (s \o t)[a] = IF a <= Len(s) THEN s[a] ELSE t[a - Len(s)]
  BY LenProperties, ConcatProperties
<1>2. ASSUME NEW a \in DOMAIN (s \o t)
      PROVE  \/ a <= Len(s) /\ a \in DOMAIN s /\ (s \o t)[a] = s[a]
             \/ a > Len(s) /\ (s \o t)[a][1] = n
  <2>1. CASE a <= Len(s)
    BY <1>1, <2>1
  <2>2. CASE a > Len(s)
    <3>1. a - Len(s) \in DOMAIN t /\ (s \o t)[a] = t[a - Len(s)]
      BY <1>1, <2>2
    <3>2. QED
      BY <2>2, <3>1
  <2>3. QED
    BY <1>1, <2>1, <2>2
<1>3. DOMAIN (s \o t) \subseteq Nat
  BY <1>1
<1> TAKE a, b \in DOMAIN (s \o t)
<1>4. HAVE a < b
<1>5. CASE b <= Len(s)
  <2>1. a <= Len(s)
    BY <1>1, <1>3, <1>4, <1>5
  <2>2. /\ a \in DOMAIN s /\ (s \o t)[a] = s[a]
        /\ b \in DOMAIN s /\ (s \o t)[b] = s[b]
    BY <1>1, <1>2, <1>3, <1>5, <2>1
  <2>3. QED
    BY <1>4, <2>2
<1>6. CASE b > Len(s)
  <2>1. (s \o t)[b][1] = n
    BY <1>1, <1>2, <1>3, <1>6
  <2>2. (s \o t)[a][1] \in Nat /\ (s \o t)[a][1] <= n
    BY <1>2
  <2>3. QED
    BY <2>1, <2>2
<1>7. QED
  BY <1>1, <1>3, <1>5, <1>6

\* An entry of the index is read: its objects are appended, each once.
LEMMA EntryRead ==
  ASSUME SwigInv, pc = "index", pos \in DOMAIN index,
         Convertible(index[pos].kind), Flattened(pos) => ClassFile(pos).state = "ok",
         UNCHANGED <<pc, index, blocks, blocks2, made, out>>, pos' = pos + 1,
         NEW places \in Seq(Accessible), di' = di \o places,
         \A a \in DOMAIN places : places[a][1] = pos,
         \A a, b \in DOMAIN places : places[a] = places[b] => a = b,
         \A p \in Accessible : p[1] = pos => p \in Range(places)
  PROVE  SwigInv'
<1>1. TypeInv /\ Progress /\ pos \in Nat
  BY DEF SwigInv, TypeInv
<1>2. di \in Seq(Accessible) /\ blocks \in Seq(Readable) /\ blocks2 \in Seq(Readable)
  BY <1>1 DEF TypeInv
<1>3. di' \in Seq(Accessible)
  BY <1>2, ConcatProperties
<1>4. /\ TypeInv' /\ NamesInv' /\ OnceInv' /\ MadeInv' /\ OutInv' /\ WrittenInv'
  BY <1>2, <1>3, StillNothing
<1>5. Range(di') = Range(di) \cup Range(places)
  BY <1>2, RangeConcat
<1>6. \A a \in DOMAIN di : di[a][1] < pos
  BY <1>1 DEF Progress, IndexInv
<1>7. IndexInv'
  <2>1. ASSUME NEW a \in DOMAIN di'
        PROVE  di'[a][1] < pos'
    <3>1. di'[a] \in Range(di) \cup Range(places)
      BY <1>5 DEF Range
    <3>2. CASE di'[a] \in Range(di)
      <4>1. PICK b \in DOMAIN di : di'[a] = di[b]
        BY <3>2 DEF Range
      <4>2. di[b][1] < pos /\ di[b] \in Accessible
        BY <1>1, <1>6, Lists
      <4>3. di[b][1] \in Nat
        BY <1>1, <4>2, Places, IndexTypes DEF TypeInv
      <4>4. QED
        BY <1>1, <4>1, <4>2, <4>3
    <3>3. CASE di'[a] \in Range(places)
      <4>1. PICK b \in DOMAIN places : di'[a] = places[b]
        BY <3>3 DEF Range
      <4>2. QED
        BY <1>1, <4>1
    <3>4. QED
      BY <3>1, <3>2, <3>3
  <2>2. \A a, b \in DOMAIN di' : di'[a] = di'[b] => a = b
    <3>1. \A a \in DOMAIN di, b \in DOMAIN places : di[a] # places[b]
      <4>1. TAKE a \in DOMAIN di, b \in DOMAIN places
      <4>2. di[a][1] < pos /\ places[b][1] = pos
        BY <1>6
      <4>3. QED
        BY <1>1, <4>2
    <3>2. \A a, b \in DOMAIN di : di[a] = di[b] => a = b
      BY <1>1 DEF Progress, IndexInv
    <3>3. QED
      BY <1>2, <3>1, <3>2, OnceConcat
  <2>3. \A i \in DOMAIN index : Read(i)' => Read(i) \/ i = pos
    BY <1>1, NextRound, IndexTypes DEF TypeInv
  <2>4. \A p \in Accessible : Read(p[1])' => p \in Range(di')
    BY <1>1, <1>5, <2>3, Places DEF Progress, IndexInv, TypeInv
  <2>5. \A i \in DOMAIN index : Read(i)' =>
          /\ Convertible(index[i].kind)
          /\ Flattened(i) => ClassFile(i).state = "ok"
    BY <1>1, <2>3 DEF Progress, IndexInv
  <2>6. \A a, b \in DOMAIN di' : a < b => di'[a][1] <= di'[b][1]
    <3>1. \A a \in DOMAIN di : di[a][1] \in Nat
      BY <1>1, Lists, Places, IndexTypes DEF TypeInv
    <3>2. \A a, b \in DOMAIN di : a < b => di[a][1] <= di[b][1]
      BY <1>1 DEF Progress, IndexInv
    <3>3. /\ pos \in Nat /\ di \in Seq(Accessible) /\ places \in Seq(Accessible)
          /\ di' = di \o places /\ \A a \in DOMAIN places : places[a][1] = pos
      BY <1>1, <1>2
    <3>4. QED
      BY ONLY <1>6, <3>1, <3>2, <3>3, OrderConcat
  <2>7. QED
    BY <2>1, <2>2, <2>4, <2>5, <2>6, SameIndex DEF IndexInv
<1>8. \A q \in Nat : ~Searched(q)' /\ ~Searched2(q)'
  BY <1>1, NextRound, Order
<1>9. DOMAIN di' \subseteq Nat
  BY <1>3, Positions
<1>10. blocks' = <<>> /\ blocks2' = <<>>
  BY <1>1 DEF Progress, BlocksInv, Blocks2Inv
<1>11. DOMAIN blocks' = {} /\ Range(blocks') = {} /\ DOMAIN blocks2' = {} /\ Range(blocks2') = {}
  BY <1>10, NoElements
<1>12. BlocksInv'
  BY <1>8, <1>9, <1>10, <1>11 DEF BlocksInv, Found
<1>13. Blocks2Inv'
  BY <1>8, <1>9, <1>10, <1>11 DEF Blocks2Inv, Found
<1>14. QED
  BY <1>4, <1>7, <1>12, <1>13 DEF SwigInv, Progress

\* The elements of a list of one.
LEMMA OneElement == \A e : Range(<<e>>) = {e}
<1> TAKE e
<1>1. DOMAIN <<e>> = 1..1 /\ <<e>>[1] = e
  OBVIOUS
<1>2. QED
  BY <1>1 DEF Range

\* DoxyIndex._parse reads an entry.
LEMMA ReadIndexInv ==
  ASSUME SwigInv, ReadIndex
  PROVE  SwigInv'
<1>1. TypeInv /\ pc = "index" /\ pos <= Len(index)
  BY DEF SwigInv, ReadIndex
<1>2. pos \in DOMAIN index
  BY <1>1, IndexTypes DEF TypeInv
<1> DEFINE ms == ClassFile(pos).members
           own == << <<pos, 0>> >>
<1>3. CASE ~Convertible(index[pos].kind) /\ Die
  BY <1>2, <1>3, DieInv DEF Fatal
<1>4. CASE Flattened(pos) /\ ClassFile(pos).state # "ok" /\ Die
  BY <1>2, <1>4, DieInv DEF Fatal
<1>5. CASE /\ Flattened(pos) /\ ClassFile(pos).state = "ok"
           /\ Add([j \in DOMAIN ms |-> <<pos, j>>] \o own)
  <2> DEFINE s == [j \in DOMAIN ms |-> <<pos, j>>]
  <2>1. Len(ms) \in Nat /\ DOMAIN ms = 1..Len(ms)
    BY <1>1, <1>2, IndexTypes DEF TypeInv
  <2>2. \A j \in DOMAIN ms : <<pos, j>> \in Accessible
    BY <1>2, <1>5 DEF Accessible, MembersOf, ClassFile
  <2>3. <<pos, 0>> \in Accessible
    BY <1>2, <1>5 DEF Accessible, Flattened, Ignored
  <2>4. s \in Seq(Accessible)
    <3>1. s \in [1..Len(ms) -> Accessible]
      BY <2>1, <2>2
    <3>2. QED
      BY <2>1, <3>1, SeqDef
  <2>5. own \in Seq(Accessible) /\ DOMAIN own = 1..1 /\ own[1] = <<pos, 0>>
    BY <2>3
  <2>6. s \o own \in Seq(Accessible)
    BY <2>4, <2>5, ConcatProperties
  <2>7. Range(s \o own) = Range(s) \cup Range(own)
    BY <2>4, <2>5, RangeConcat
  <2>8. \A a, b \in DOMAIN (s \o own) : (s \o own)[a] = (s \o own)[b] => a = b
    <3>1. \A a, b \in DOMAIN s : s[a] = s[b] => a = b
      OBVIOUS
    <3>2. \A a \in DOMAIN s, b \in DOMAIN own : s[a] # own[b]
      BY <2>1, <2>5
    <3>3. \A a, b \in DOMAIN own : own[a] = own[b] => a = b
      BY <2>5
    <3>4. QED
      BY <2>4, <2>5, <3>1, <3>2, <3>3, OnceConcat
  <2>9. \A x \in Range(s \o own) : x[1] = pos
    <3>1. \A j \in DOMAIN s : s[j] = <<pos, j>> /\ s[j][1] = pos
      OBVIOUS
    <3>2. \A x \in Range(s) : x[1] = pos
      <4> HIDE DEF s
      <4>1. QED
        BY <3>1 DEF Range
    <3>3. Range(own) = {<<pos, 0>>}
      BY <2>5, OneElement
    <3>4. QED
      BY <2>7, <3>2, <3>3
  <2>10. \A a \in DOMAIN (s \o own) : (s \o own)[a][1] = pos
    BY <2>9 DEF Range
  <2>11. ASSUME NEW p \in Accessible, p[1] = pos
         PROVE  p \in Range(s \o own)
    <3>1. p = <<pos, p[2]>> /\ (p[2] # 0 => p[2] \in DOMAIN ms)
      BY <1>1, <2>11, Places DEF TypeInv
    <3>2. CASE p[2] = 0
      BY <2>5, <2>7, <3>1, <3>2, OneElement
    <3>3. CASE p[2] # 0
      <4>1. p[2] \in DOMAIN s /\ s[p[2]] = p
        BY <3>1, <3>3
      <4>2. QED
        BY <2>7, <4>1 DEF Range
    <3>4. QED
      BY <3>2, <3>3
  <2>12. Convertible(index[pos].kind)
    BY <1>5 DEF Flattened, Convertible
  <2>13. /\ UNCHANGED <<pc, index, blocks, blocks2, made, out>> /\ pos' = pos + 1
         /\ di' = di \o (s \o own)
    BY <1>5 DEF Add
  <2> HIDE DEF s, own, ms
  <2>14. QED
    BY <1>1, <1>2, <1>5, <2>6, <2>8, <2>10, <2>11, <2>12, <2>13, EntryRead
<1>6. CASE Ignored(pos) /\ Skip
  <2>1. /\ UNCHANGED <<pc, index, di, blocks, blocks2, made, out>> /\ pos' = pos + 1
    BY <1>6 DEF Skip
  <2>2. <<>> \in Seq(Accessible) /\ di' = di \o <<>> /\ DOMAIN <<>> = {}
    BY <1>1, <2>1, EmptySeq, ConcatEmptySeq, NoElements DEF TypeInv
  <2>3. Convertible(index[pos].kind) /\ ~Flattened(pos)
    BY <1>6 DEF Ignored, Convertible, Flattened
  <2>4. \A p \in Accessible : p[1] # pos
    BY <1>1, <1>6, <2>3, Places DEF Accessible, MembersOf, TypeInv
  <2>5. QED
    BY <1>1, <1>2, <2>1, <2>2, <2>3, <2>4, EntryRead
<1>7. CASE /\ Convertible(index[pos].kind) /\ index[pos].kind \notin {"file", "namespace"}
           /\ Add(own)
  <2>1. ~Flattened(pos) /\ ~Ignored(pos)
    BY <1>7 DEF Flattened, Ignored
  <2>2. <<pos, 0>> \in Accessible
    BY <1>2, <2>1 DEF Accessible
  <2>3. own \in Seq(Accessible) /\ DOMAIN own = 1..1 /\ own[1] = <<pos, 0>>
    BY <2>2
  <2>4. ASSUME NEW p \in Accessible, p[1] = pos
        PROVE  p \in Range(own)
    <3>1. p = <<pos, 0>>
      BY <1>1, <2>1, <2>4, Places DEF TypeInv
    <3>2. QED
      BY <2>3, <3>1 DEF Range
  <2>5. \A a \in DOMAIN own : own[a][1] = pos
    BY <2>3
  <2>6. \A a, b \in DOMAIN own : own[a] = own[b] => a = b
    BY <2>3
  <2>7. /\ UNCHANGED <<pc, index, blocks, blocks2, made, out>> /\ pos' = pos + 1
        /\ di' = di \o own
    BY <1>7 DEF Add
  <2> HIDE DEF own
  <2>8. QED
    BY <1>1, <1>2, <1>7, <2>1, <2>3, <2>4, <2>5, <2>6, <2>7, EntryRead
<1>8. QED
  BY <1>3, <1>4, <1>5, <1>6, <1>7 DEF ReadIndex

\* A list of classes found among the members before a position, in their order.
MembersInOrder ==
  /\ \A a, b \in DOMAIN di : di[a] = di[b] => a = b
  /\ \A a, b \in DOMAIN di : a < b => di[a][1] <= di[b][1]
FoundBefore(list, n) ==
  /\ \A a, b \in DOMAIN list : a < b => list[a] < list[b]
  /\ \A a \in DOMAIN list : \E q \in DOMAIN di : q < n /\ di[q] = <<list[a], 0>>

\* One more class of the members is appended to such a list, or none.
LEMMA ClassFound ==
  ASSUME NEW S, S \subseteq Nat, NEW list \in Seq(S), NEW i \in S, pos \in Nat,
         DOMAIN di \subseteq Nat, pos \in DOMAIN di, di[pos] = <<i, 0>>,
         MembersInOrder, FoundBefore(list, pos)
  PROVE  /\ Append(list, i) \in Seq(S)
         /\ Range(Append(list, i)) = Range(list) \cup {i}
         /\ FoundBefore(Append(list, i), pos + 1)
<1> DEFINE l == Append(list, i)
<1>1. /\ Len(list) \in Nat /\ DOMAIN list = 1..Len(list)
      /\ l \in Seq(S) /\ Len(l) = Len(list) + 1 /\ DOMAIN l = 1..(Len(list) + 1)
      /\ \A a \in DOMAIN list : a \in DOMAIN l /\ l[a] = list[a]
      /\ Len(list) + 1 \in DOMAIN l /\ l[Len(list) + 1] = i
  BY AppendProperties, LenProperties
<1> HIDE DEF l
<1>2. \A a \in DOMAIN l : a \in DOMAIN list \/ a = Len(list) + 1
  BY <1>1
<1>3. Range(l) = Range(list) \cup {i}
  BY <1>1, <1>2 DEF Range
<1>4. ASSUME NEW a \in DOMAIN list
      PROVE  list[a] < i
  <2>1. PICK q \in DOMAIN di : q < pos /\ di[q] = <<list[a], 0>>
    BY DEF FoundBefore
  <2>2. q # pos
    BY <2>1
  <2>3. di[q] # di[pos] /\ di[q][1] <= di[pos][1]
    BY <2>1, <2>2 DEF MembersInOrder
  <2>4. list[a] # i /\ list[a] <= i
    BY <2>1, <2>3
  <2>5. list[a] \in Nat /\ i \in Nat
    BY <1>1, ElementOfSeq
  <2>6. QED
    BY <2>4, <2>5
<1>5. ASSUME NEW a \in DOMAIN l, NEW b \in DOMAIN l, a < b
      PROVE  l[a] < l[b]
  <2>1. a \in DOMAIN list
    BY <1>1, <1>2, <1>5
  <2>2. CASE b \in DOMAIN list
    BY <1>1, <1>5, <2>1, <2>2 DEF FoundBefore
  <2>3. CASE b = Len(list) + 1
    BY <1>1, <1>4, <2>1, <2>3
  <2>4. QED
    BY <1>2, <2>2, <2>3
<1>6. ASSUME NEW a \in DOMAIN l
      PROVE  \E q \in DOMAIN di : q < pos + 1 /\ di[q] = <<l[a], 0>>
  <2>1. CASE a = Len(list) + 1
    <3>1. pos < pos + 1 /\ di[pos] = <<l[a], 0>>
      BY <1>1, <2>1
    <3>2. QED
      BY <3>1
  <2>2. CASE a \in DOMAIN list
    <3>1. PICK q \in DOMAIN di : q < pos /\ di[q] = <<list[a], 0>>
      BY <2>2 DEF FoundBefore
    <3>2. q < pos + 1 /\ di[q] = <<l[a], 0>>
      BY <1>1, <2>2, <3>1
    <3>3. QED
      BY <3>2
  <2>3. QED
    BY <1>2, <2>1, <2>2
<1>7. FoundBefore(l, pos + 1)
  BY <1>5, <1>6 DEF FoundBefore
<1>8. QED
  BY <1>1, <1>3, <1>7 DEF l

\* Nothing is appended: the list is what it was before the next position too.
LEMMA NoneFound ==
  ASSUME NEW list, pos \in Nat, DOMAIN di \subseteq Nat, FoundBefore(list, pos)
  PROVE  FoundBefore(list, pos + 1)
<1>1. ASSUME NEW a \in DOMAIN list
      PROVE  \E q \in DOMAIN di : q < pos + 1 /\ di[q] = <<list[a], 0>>
  <2>1. PICK q \in DOMAIN di : q < pos /\ di[q] = <<list[a], 0>>
    BY DEF FoundBefore
  <2>2. q < pos + 1
    BY <2>1, NextPosition
  <2>3. QED
    BY <2>1, <2>2
<1>2. QED
  BY <1>1 DEF FoundBefore

\* What the script knows of the members once the index is read.
LEMMA Looking ==
  ASSUME SwigInv, pc \in {"find blocks", "find blocks2", "blocks", "blocks2", "functions",
                          "classes", "written"}
  PROVE  /\ TypeInv /\ Progress /\ pos \in Nat /\ pos # 0
         /\ Range(di) = Accessible
         /\ \A i \in Classes : \E q \in DOMAIN di : di[q] = <<i, 0>> /\ di[q][1] = i
         /\ \A q \in DOMAIN di : /\ di[q] \in Accessible
                                 /\ IsA(di[q], "class") <=> di[q][1] \in Classes
                                 /\ di[q][1] \in Classes => di[q] = <<di[q][1], 0>>
         /\ \A i : /\ NoSuchMember(Range(di), MakeOf(i), "function") <=> NoMake(i)
                   /\ Duplicate(Range(di), MakeOf(i), "function") <=> SeveralMakes(i)
                   /\ Unique(Range(di), MakeOf(i), "function") <=> OneMake(i)
                   /\ HeaderClash(i) <=> SeveralHeaders(i)
         /\ pos <= Len(di) => pos \in DOMAIN di
         /\ pos <= Len(blocks) => pos \in DOMAIN blocks
         /\ pos <= Len(blocks2) => pos \in DOMAIN blocks2
<1>1. pc # "died"
  OBVIOUS
<1>2. TypeInv /\ Progress
  BY <1>1 DEF SwigInv
<1>3. pos \in Nat /\ pos # 0
  BY <1>2 DEF TypeInv
<1>4. \A i \in DOMAIN index : i \in Nat
  BY <1>2, IndexTypes DEF TypeInv
<1>5. \A i \in DOMAIN index : Read(i)
  BY <1>3, <1>4, Order
<1>6. Range(di) = Accessible
      /\ \A i \in Classes : \E q \in DOMAIN di : di[q] = <<i, 0>> /\ di[q][1] = i
  BY <1>2, <1>5, AllRead DEF Progress
<1>7. \A q \in DOMAIN di : /\ di[q] \in Accessible
                           /\ IsA(di[q], "class") <=> di[q][1] \in Classes
                           /\ di[q][1] \in Classes => di[q] = <<di[q][1], 0>>
  BY <1>2, Lists, Places DEF TypeInv
<1>8. \A i : /\ NoSuchMember(Range(di), MakeOf(i), "function") <=> NoMake(i)
             /\ Duplicate(Range(di), MakeOf(i), "function") <=> SeveralMakes(i)
             /\ Unique(Range(di), MakeOf(i), "function") <=> OneMake(i)
             /\ HeaderClash(i) <=> SeveralHeaders(i)
  BY <1>6 DEF NoMake, SeveralMakes, OneMake, HeaderClash, SeveralHeaders
<1>9. /\ DOMAIN di = 1..Len(di) /\ Len(di) \in Nat
      /\ DOMAIN blocks = 1..Len(blocks) /\ Len(blocks) \in Nat
      /\ DOMAIN blocks2 = 1..Len(blocks2) /\ Len(blocks2) \in Nat
  BY <1>2, Lists
<1>10. \A n \in Nat : pos <= n => pos \in 1..n
  BY <1>3, NextPosition
<1>11. /\ pos <= Len(di) => pos \in DOMAIN di
       /\ pos <= Len(blocks) => pos \in DOMAIN blocks
       /\ pos <= Len(blocks2) => pos \in DOMAIN blocks2
  BY <1>9, <1>10
<1>12. QED
  BY <1>2, <1>3, <1>6, <1>7, <1>8, <1>11

\* A member is asked whether it is a block.
LEMMA BlockSearched ==
  ASSUME SwigInv, pc = "find blocks", pos \in DOMAIN di,
         UNCHANGED <<pc, index, di, blocks2, made, out>>, pos' = pos + 1,
         NEW i, i = di[pos][1],
         i \in Classes => ClassFile(i).state # "raises",
         i \in Readable /\ ~FriendMake(i) => ~SeveralMakes(i),
         blocks' = IF i \in Readable /\ IsBlock(i) THEN Append(blocks, i) ELSE blocks
  PROVE  SwigInv'
<1>1. TypeInv /\ Progress /\ pos \in Nat
  BY Looking
<1>2. /\ di \in Seq(Accessible) /\ blocks \in Seq(Readable) /\ blocks2 \in Seq(Readable)
      /\ DOMAIN di \subseteq Nat /\ Readable \subseteq Classes
  BY <1>1, Lists DEF TypeInv
<1>3. i \in Classes => di[pos] = <<i, 0>>
  BY Looking
<1>4. MembersInOrder /\ FoundBefore(blocks, pos)
  BY <1>1 DEF Progress, IndexInv, BlocksInv, Found, MembersInOrder, FoundBefore
<1>5. /\ blocks' \in Seq(Readable) /\ FoundBefore(blocks', pos + 1)
      /\ Range(blocks') = IF i \in Readable /\ IsBlock(i) THEN Range(blocks) \cup {i}
                          ELSE Range(blocks)
  <2>1. CASE i \in Readable /\ IsBlock(i)
    <3>1. blocks' = Append(blocks, i)
      BY <1>2, <2>1
    <3>2. /\ blocks \in Seq(Readable) /\ i \in Readable /\ pos \in Nat /\ DOMAIN di \subseteq Nat
          /\ pos \in DOMAIN di /\ Readable \subseteq Nat /\ di[pos] = <<i, 0>>
      BY <1>1, <1>2, <1>3, <2>1, Lists, IndexTypes DEF TypeInv
    <3>3. /\ Append(blocks, i) \in Seq(Readable)
          /\ Range(Append(blocks, i)) = Range(blocks) \cup {i}
          /\ FoundBefore(Append(blocks, i), pos + 1)
      BY ONLY <1>4, <3>2, ClassFound
    <3>4. QED
      BY <2>1, <3>1, <3>3
  <2>2. CASE ~(i \in Readable /\ IsBlock(i))
    <3>1. blocks' = blocks
      BY <1>2, <2>2
    <3>2. FoundBefore(blocks, pos + 1)
      BY <1>1, <1>2, <1>4, NoneFound
    <3>3. QED
      BY <1>2, <2>2, <3>1, <3>2
  <2>3. QED
    BY <2>1, <2>2
<1>6. /\ TypeInv' /\ NamesInv' /\ OnceInv' /\ MadeInv' /\ OutInv' /\ WrittenInv'
  BY <1>2, <1>5, StillNothing
<1>7. \A q \in Nat : /\ Read(q)' <=> Read(q)
                     /\ Searched(q)' <=> Searched(q) \/ q = pos
                     /\ Searched2(q)' <=> Searched2(q)
  BY <1>1, NextRound
<1>8. IndexInv'
  <2>1. \A j \in DOMAIN index : j \in Nat
    BY <1>1, IndexTypes DEF TypeInv
  <2>2. QED
    BY <1>1, <1>7, <2>1, KeepIndex, Places DEF Progress, TypeInv
<1>9. BlocksInv'
  <2>1. (Found(blocks, "find blocks"))'
    BY <1>5 DEF Found, FoundBefore
  <2>2. \A j \in Range(blocks') : IsBlock(j)
    BY <1>1, <1>5 DEF Progress, BlocksInv
  <2>3. ASSUME NEW q \in DOMAIN di, Searched(q)', di[q][1] \in Classes
        PROVE  /\ ClassFile(di[q][1]).state # "raises"
               /\ di[q][1] \in Readable /\ ~FriendMake(di[q][1]) => ~SeveralMakes(di[q][1])
               /\ di[q][1] \in Readable /\ IsBlock(di[q][1]) => di[q][1] \in Range(blocks')
    <3>1. CASE q = pos
      BY <1>5, <2>3, <3>1
    <3>2. CASE Searched(q)
      BY <1>1, <1>5, <2>3, <3>2 DEF Progress, BlocksInv
    <3>3. QED
      BY <1>2, <1>7, <2>3, <3>1, <3>2
  <2>4. QED
    BY <2>1, <2>2, <2>3, SameIndex DEF BlocksInv
<1>10. Blocks2Inv'
  BY <1>1, <1>2, <1>7, KeepBlocks2 DEF Progress
<1>11. QED
  BY <1>6, <1>8, <1>9, <1>10 DEF SwigInv, Progress

\* A step of the search for blocks.
LEMMA FindBlockInv ==
  ASSUME SwigInv, FindBlock
  PROVE  SwigInv'
<1>1. pc = "find blocks" /\ pos \in DOMAIN di
  BY Looking DEF FindBlock
<1> DEFINE i == di[pos][1]
<1>2. /\ IsA(di[pos], "class") <=> i \in Classes
      /\ NoSuchMember(Range(di), MakeOf(i), "function") <=> NoMake(i)
      /\ Duplicate(Range(di), MakeOf(i), "function") <=> SeveralMakes(i)
      /\ TypeInv
  BY <1>1, Looking
<1>3. i \in Readable <=> i \in Classes /\ ClassFile(i).state = "ok"
  BY DEF Readable
<1> HIDE DEF i
<1>4. CASE i \in Classes /\ ClassFile(i).state = "raises" /\ Die
  BY <1>4, DieInv DEF Fatal
<1>5. CASE i \in Readable /\ ~FriendMake(i) /\ SeveralMakes(i) /\ Die
  BY <1>5, DieInv DEF Fatal, KillingClass
<1>6. CASE (i \notin Classes \/ ClassFile(i).state = "broken") /\ Skip
  <2>1. i \notin Readable
    BY <1>3, <1>6
  <2>2. /\ UNCHANGED <<pc, index, di, blocks2, made, out>> /\ pos' = pos + 1
        /\ blocks' = IF i \in Readable /\ IsBlock(i) THEN Append(blocks, i) ELSE blocks
    BY <1>6, <2>1 DEF Skip
  <2>3. i \in Classes => ClassFile(i).state # "raises"
    BY <1>6
  <2>4. QED
    BY <1>1, <2>1, <2>2, <2>3, BlockSearched DEF i
<1>7. CASE /\ i \in Readable /\ (FriendMake(i) \/ ~SeveralMakes(i))
           /\ blocks' = IF FriendMake(i) \/ ~NoMake(i) THEN Append(blocks, i) ELSE blocks
           /\ pos' = pos + 1 /\ UNCHANGED <<pc, index, di, blocks2, made, out>>
  <2>1. blocks' = IF i \in Readable /\ IsBlock(i) THEN Append(blocks, i) ELSE blocks
    BY <1>7 DEF IsBlock
  <2>2. i \in Classes => ClassFile(i).state # "raises"
    BY <1>3, <1>7
  <2>3. QED
    BY <1>1, <1>7, <2>1, <2>2, BlockSearched DEF i
<1>8. QED
  BY <1>2, <1>3, <1>4, <1>5, <1>6, <1>7 DEF FindBlock, i

\* The same for blocks of the new style.
LEMMA FindBlock2Inv ==
  ASSUME SwigInv, FindBlock2
  PROVE  SwigInv'
<1> DEFINE i == di[pos][1]
<1>1. /\ pc = "find blocks2" /\ pos \in DOMAIN di /\ TypeInv /\ Progress /\ pos \in Nat
      /\ IsA(di[pos], "class") <=> i \in Classes
      /\ i \in Classes => di[pos] = <<i, 0>>
  BY Looking DEF FindBlock2
<1>2. /\ blocks2' = IF i \in Readable /\ NewStyle(i) THEN Append(blocks2, i) ELSE blocks2
      /\ pos' = pos + 1 /\ UNCHANGED <<pc, index, di, blocks, made, out>>
  BY <1>1 DEF FindBlock2, Readable
<1>3. /\ di \in Seq(Accessible) /\ blocks \in Seq(Readable) /\ blocks2 \in Seq(Readable)
      /\ DOMAIN di \subseteq Nat /\ Readable \subseteq Classes
  BY <1>1, Lists DEF TypeInv
<1>4. MembersInOrder /\ FoundBefore(blocks2, pos)
  BY <1>1 DEF Progress, IndexInv, Blocks2Inv, Found, MembersInOrder, FoundBefore
<1> HIDE DEF i
<1>5. /\ blocks2' \in Seq(Readable) /\ FoundBefore(blocks2', pos + 1)
      /\ Range(blocks2') = IF i \in Readable /\ NewStyle(i) THEN Range(blocks2) \cup {i}
                          ELSE Range(blocks2)
  <2>1. CASE i \in Readable /\ NewStyle(i)
    <3>1. blocks2' = Append(blocks2, i)
      BY <1>2, <2>1
    <3>2. /\ blocks2 \in Seq(Readable) /\ i \in Readable /\ pos \in Nat /\ DOMAIN di \subseteq Nat
          /\ pos \in DOMAIN di /\ Readable \subseteq Nat /\ di[pos] = <<i, 0>>
      BY <1>1, <1>2, <1>3, <2>1, Lists, IndexTypes DEF TypeInv
    <3>3. /\ Append(blocks2, i) \in Seq(Readable)
          /\ Range(Append(blocks2, i)) = Range(blocks2) \cup {i}
          /\ FoundBefore(Append(blocks2, i), pos + 1)
      BY ONLY <1>4, <3>2, ClassFound
    <3>4. QED
      BY <2>1, <3>1, <3>3
  <2>2. CASE ~(i \in Readable /\ NewStyle(i))
    <3>1. blocks2' = blocks2
      BY <1>2, <2>2
    <3>2. FoundBefore(blocks2, pos + 1)
      BY <1>1, <1>3, <1>4, NoneFound
    <3>3. QED
      BY <1>3, <2>2, <3>1, <3>2
  <2>3. QED
    BY <2>1, <2>2
<1>6. /\ TypeInv' /\ NamesInv' /\ OnceInv' /\ MadeInv' /\ OutInv' /\ WrittenInv'
  BY <1>1, <1>2, <1>3, <1>5, StillNothing
<1>7. \A q \in Nat : /\ Read(q)' <=> Read(q)
                     /\ Searched(q)' <=> Searched(q)
                     /\ Searched2(q)' <=> Searched2(q) \/ q = pos
  BY <1>1, <1>2, NextRound
<1>8. IndexInv'
  <2>1. \A j \in DOMAIN index : j \in Nat
    BY <1>1, IndexTypes DEF TypeInv
  <2>2. QED
    BY <1>1, <1>2, <1>7, <2>1, KeepIndex, Places DEF Progress, TypeInv
<1>9. BlocksInv'
  BY <1>1, <1>2, <1>3, <1>7, KeepBlocks DEF Progress
<1>10. Blocks2Inv'
  <2>1. (Found(blocks2, "find blocks2"))'
    BY <1>2, <1>5 DEF Found, FoundBefore
  <2>2. \A j \in Range(blocks2') : NewStyle(j)
    BY <1>1, <1>5 DEF Progress, Blocks2Inv
  <2>3. ASSUME NEW q \in DOMAIN di, Searched2(q)', di[q][1] \in Readable, NewStyle(di[q][1])
        PROVE  di[q][1] \in Range(blocks2')
    <3>1. CASE q = pos
      BY <1>5, <2>3, <3>1 DEF i
    <3>2. CASE Searched2(q)
      BY <1>1, <1>5, <2>3, <3>2 DEF Progress, Blocks2Inv
    <3>3. QED
      BY <1>3, <1>7, <2>3, <3>1, <3>2
  <2>4. QED
    BY <1>1, <1>2, <2>1, <2>2, <2>3, SameIndex DEF Blocks2Inv
<1>11. QED
  BY <1>1, <1>2, <1>6, <1>8, <1>9, <1>10 DEF SwigInv, Progress

-----------------------------------------------------------------------------
(* Entries *)

\* Names of one bit and of two, and the entries made under them.
LEMMA LastBit ==
  /\ \A a : Last(<<a>>) = a
  /\ \A a, b : Last(<<a, b>>) = b
  /\ \A a, b, c : <<a>> # <<b, c>>
  BY DEF Last

\* An entry carries the round, place, name and words it is made of; words under
\* a name that is no operator do give one.
LEMMA EntryFacts ==
  /\ \A p, name, words : \A x \in Entry(p, name, words) :
       x = [by |-> <<pc, pos>>, of |-> p, name |-> name, doc |-> words]
  /\ \A p, name, words : words # <<>> /\ Last(name) \notin Operators =>
       \E x \in Entry(p, name, words) : x.name = name /\ x.doc = words
  BY DEF Entry

FullName(p) == IF p[2] = 0 THEN <<ClassName(p[1])>> ELSE MethodName(p)

\* The entries of a class: of it and of its methods, each under its name.
LEMMA ClassEntriesFacts ==
  ASSUME index \in Indices, NEW i \in Classes, NEW words, NEW ignored
  PROVE  /\ \A x \in ClassEntries(i, words, ignored) :
              /\ x.of \in PlacesOf(i) /\ x.by = <<pc, pos>>
              /\ x.name = FullName(x.of)
              /\ x = [by |-> <<pc, pos>>, of |-> x.of, name |-> FullName(x.of),
                      doc |-> IF x.of[2] = 0 THEN words ELSE Described(x.of).doc]
              /\ x.of[2] # 0 => NameOf(x.of) \notin ignored
         /\ Entry(<<i, 0>>, <<ClassName(i)>>, words) \subseteq ClassEntries(i, words, ignored)
         /\ \A p \in Methods(i) : NameOf(p) \notin ignored =>
              Entry(p, MethodName(p), Described(p).doc) \subseteq ClassEntries(i, words, ignored)
<1>1. ASSUME NEW x \in Entry(<<i, 0>>, <<ClassName(i)>>, words)
      PROVE  /\ x.of = <<i, 0>>
             /\ x = [by |-> <<pc, pos>>, of |-> <<i, 0>>, name |-> <<ClassName(i)>>,
                     doc |-> words]
  BY EntryFacts
<1>2. ASSUME NEW p \in Methods(i), NEW x \in Entry(p, MethodName(p), Described(p).doc)
      PROVE  /\ x.of = p /\ p[2] # 0
             /\ x = [by |-> <<pc, pos>>, of |-> p, name |-> MethodName(p),
                     doc |-> Described(p).doc]
  BY EntryFacts, Places
<1>3. <<i, 0>>[1] = i /\ <<i, 0>>[2] = 0
  OBVIOUS
<1>4. ASSUME NEW x \in ClassEntries(i, words, ignored)
      PROVE  /\ x.of \in PlacesOf(i) /\ x.by = <<pc, pos>>
             /\ x.name = FullName(x.of)
             /\ x = [by |-> <<pc, pos>>, of |-> x.of, name |-> FullName(x.of),
                     doc |-> IF x.of[2] = 0 THEN words ELSE Described(x.of).doc]
             /\ x.of[2] # 0 => NameOf(x.of) \notin ignored
  <2>1. CASE x \in Entry(<<i, 0>>, <<ClassName(i)>>, words)
    <3>1. x.of = <<i, 0>> /\ x.of[2] = 0 /\ FullName(x.of) = <<ClassName(i)>>
      BY <1>1, <1>3, <2>1 DEF FullName
    <3>2. x.of \in PlacesOf(i)
      BY <3>1 DEF PlacesOf
    <3>3. QED
      BY <1>1, <2>1, <3>1, <3>2
  <2>2. CASE \E p \in Methods(i) :
               NameOf(p) \notin ignored /\ x \in Entry(p, MethodName(p), Described(p).doc)
    <3>1. PICK p \in Methods(i) :
               NameOf(p) \notin ignored /\ x \in Entry(p, MethodName(p), Described(p).doc)
      BY <2>2
    <3>2. x.of = p /\ x.of[2] # 0 /\ FullName(x.of) = MethodName(p)
      BY <1>2, <3>1 DEF FullName
    <3>3. x.of \in PlacesOf(i)
      BY <3>2 DEF PlacesOf
    <3>4. QED
      BY <1>2, <3>1, <3>2, <3>3
  <2>3. QED
    BY <2>1, <2>2 DEF ClassEntries
<1>5. QED
  BY <1>4 DEF ClassEntries

\* The names of the places of a class are declared.
LEMMA ClassDeclares ==
  ASSUME index \in Indices, NEW i \in Classes, NEW p \in PlacesOf(i)
  PROVE  p \in Declared(FullName(p)) /\ p[1] = i
<1>1. CASE p = <<i, 0>>
  <2>1. p[1] = i /\ p[2] = 0
    BY <1>1
  <2>2. p \in Accessible /\ IsA(p, "class") /\ NameOf(p) = ClassName(i)
    BY <1>1, Places
  <2>3. QED
    BY <2>1, <2>2 DEF Declared, FullName
<1>2. CASE p \in Methods(i)
  BY <1>2, Places DEF Declared, FullName
<1>3. QED
  BY <1>1, <1>2 DEF PlacesOf

\* What a declared place says about the name.
LEMMA DeclaredFacts ==
  ASSUME index \in Indices, NEW name, NEW p \in Declared(name)
  PROVE  /\ p \in Functions => name = <<NameOf(p)>>
         /\ p[1] \in Classes => name = FullName(p) /\ name[1] = ClassName(p[1])
<1>1. CASE p \in Accessible /\ (IsA(p, "function") \/ IsA(p, "class")) /\ name = <<NameOf(p)>>
  <2>1. ASSUME p[1] \in Classes
        PROVE  name = FullName(p) /\ name[1] = ClassName(p[1])
    <3>1. p = <<p[1], 0>> /\ NameOf(p) = ClassName(p[1])
      BY <1>1, <2>1, Places
    <3>2. p[2] = 0
      BY <3>1
    <3>3. QED
      BY <1>1, <3>1, <3>2 DEF FullName
  <2>2. QED
    BY <1>1, <2>1
<1>2. CASE \E i \in Classes : p \in Methods(i) /\ name = MethodName(p)
  <2>1. PICK i \in Classes : p \in Methods(i) /\ name = MethodName(p)
    BY <1>2
  <2>2. p[1] = i /\ p[2] # 0
    BY <2>1, Places
  <2>3. name = FullName(p) /\ name[1] = ClassName(p[1])
    BY <2>1, <2>2 DEF FullName, MethodName
  <2>4. p \notin Functions
    BY <2>1, <2>2, Places
  <2>5. QED
    BY <2>3, <2>4
<1>3. QED
  BY <1>1, <1>2 DEF Declared

\* A round that writes: what it adds is named as declared, each object at most
\* once, and an object already written is of a block of both styles.
LEMMA WriteNames ==
  ASSUME NamesInv, OnceInv, UNCHANGED index, NEW entries, out' = out \cup entries,
         \A x \in entries : x.of \in Declared(x.name),
         \A x, y \in entries : x.of = y.of => x = y,
         \A x \in out, y \in entries : x.of = y.of => BothStyles(x.of[1])
  PROVE  NamesInv' /\ OnceInv'
<1>1. NamesInv'
  BY SameIndex DEF NamesInv
<1>2. ASSUME NEW x \in out', NEW y \in out', x.of = y.of
      PROVE  x = y \/ BothStyles(x.of[1])
  BY <1>2 DEF OnceInv
<1>3. OnceInv'
  BY <1>2, SameIndex DEF OnceInv
<1>4. QED
  BY <1>1, <1>3

\* The words of a concatenation.
LEMMA WordsConcat ==
  ASSUME NEW S, NEW s \in Seq(S), NEW t \in Seq(S)
  PROVE  /\ s \o t \in Seq(S)
         /\ Range(s) \subseteq Range(s \o t) /\ Range(t) \subseteq Range(s \o t)
         /\ s # <<>> \/ t # <<>> => s \o t # <<>>
  BY RangeConcat, ConcatProperties, ConcatSimplifications

\* Writing an object's entry with its words documents it.
LEMMA EntryDocuments ==
  ASSUME UNCHANGED index, NEW p, NEW name, NEW words,
         Entry(p, name, words) \subseteq out',
         Last(name) = NameOf(p), Range(Described(p).doc) \subseteq Range(words),
         Described(p).doc # <<>> => words # <<>>
  PROVE  Documented(p, name)'
<1>1. NameOf(p)' = NameOf(p) /\ Described(p)' = Described(p)
  BY SameIndex
<1>2. SUFFICES ASSUME Described(p).doc # <<>>, NameOf(p) \notin Operators
               PROVE  Documents(name, Described(p).doc)'
  BY <1>1 DEF Documented
<1>3. PICK x \in Entry(p, name, words) : x.name = name /\ x.doc = words
  BY <1>2, EntryFacts
<1>4. QED
  BY <1>1, <1>3 DEF Documents

\* Writing the entries of a class documents it and its methods.
LEMMA ClassWritten ==
  ASSUME index \in Indices, UNCHANGED index, NEW i \in Classes, NEW words, NEW ignored,
         ClassEntries(i, words, ignored) \subseteq out',
         Range(ClassFile(i).doc) \subseteq Range(words),
         ClassFile(i).doc # <<>> => words # <<>>,
         \A p \in Methods(i) : NameOf(p) \in ignored => Documented(p, MethodName(p))'
  PROVE  ClassDocumented(i)'
<1>1. NameOf(<<i, 0>>) = ClassName(i) /\ Described(<<i, 0>>) = ClassFile(i)
  BY Places
<1>2. Documented(<<i, 0>>, <<ClassName(i)>>)'
  <2>1. Entry(<<i, 0>>, <<ClassName(i)>>, words) \subseteq out'
    BY ClassEntriesFacts
  <2>2. Last(<<ClassName(i)>>) = NameOf(<<i, 0>>)
    BY <1>1, LastBit
  <2>3. /\ Range(Described(<<i, 0>>).doc) \subseteq Range(words)
        /\ Described(<<i, 0>>).doc # <<>> => words # <<>>
    BY <1>1
  <2>4. QED
    BY <2>1, <2>2, <2>3, EntryDocuments, SameIndex
<1>3. ASSUME NEW p \in Methods(i)
      PROVE  Documented(p, MethodName(p))'
  <2>1. Last(MethodName(p)) = NameOf(p)
    BY LastBit DEF MethodName
  <2>2. CASE NameOf(p) \notin ignored
    <3>1. Entry(p, MethodName(p), Described(p).doc) \subseteq out'
      BY <2>2, ClassEntriesFacts
    <3>2. QED
      BY <2>1, <3>1, EntryDocuments, SameIndex
  <2>3. QED
    BY <2>2
<1>4. QED
  BY <1>2, <1>3, SameIndex DEF ClassDocumented

-----------------------------------------------------------------------------
(* The loops that write *)

\* Descriptions are sequences of words.
LEMMA DocWords ==
  ASSUME index \in Indices
  PROVE  /\ \A p \in Accessible : Described(p).doc \in Seq(STRING)
         /\ \A i \in Classes : /\ ClassFile(i).doc \in Seq(STRING)
                               /\ ClassFile(i).params \in Seq(STRING)
                               /\ \A p \in Methods(i) : /\ Described(p).doc \in Seq(STRING)
                                                        /\ Described(p).params \in Seq(STRING)
<1>1. ASSUME NEW p \in Accessible
      PROVE  Described(p).doc \in Seq(STRING)
  <2>1. p[1] \in DOMAIN index /\ (p[2] # 0 => p[2] \in DOMAIN ClassFile(p[1]).members)
    BY Places
  <2>2. QED
    BY <2>1, IndexTypes DEF Described, ClassFile
<1>2. Classes \subseteq DOMAIN index
  BY DEF Classes
<1>3. ASSUME NEW i \in Classes, NEW p \in Methods(i)
      PROVE  Described(p).doc \in Seq(STRING) /\ Described(p).params \in Seq(STRING)
  <2>1. p[1] = i /\ p[2] # 0 /\ p[2] \in DOMAIN ClassFile(i).members
    BY Places
  <2>2. QED
    BY <1>2, <2>1, IndexTypes DEF Described, ClassFile
<1>4. QED
  BY <1>1, <1>2, <1>3, IndexTypes

\* The make function of a class that has one.
LEMMA TheMake ==
  ASSUME NEW i, OneMake(i)
  PROVE  LET mk == Member(Accessible, MakeOf(i), "function")
         IN /\ mk \in Functions /\ NameOf(mk) = MakeOf(i)
            /\ \A p \in Functions : NameOf(p) = MakeOf(i) => p = mk
<1> DEFINE H == Hits(Accessible, MakeOf(i), "function")
           mk == Member(Accessible, MakeOf(i), "function")
<1>1. H # {} /\ \A p, q \in H : p = q
  BY DEF OneMake, Unique, NoSuchMember, Duplicate
<1>2. mk \in H
  BY <1>1 DEF Member
<1>3. \A p \in H : p \in Functions /\ NameOf(p) = MakeOf(i) /\ MakeOf(i) \notin Qualified
  BY DEF Hits, Functions
<1>4. ASSUME NEW p \in Functions, NameOf(p) = MakeOf(i)
      PROVE  p = mk
  <2>1. p \in H
    BY <1>2, <1>3, <1>4 DEF Hits, Functions
  <2>2. QED
    BY <1>1, <1>2, <2>1
<1>5. QED
  BY <1>2, <1>3, <1>4

\* The description of a block says what its class and its make function say.
LEMMA SuperWords ==
  ASSUME index \in Indices, Range(di) = Accessible, NEW i \in Classes, OneMake(i)
  PROVE  LET d == SuperDescription(i) \o ClassFile(i).params
             makedoc == Described(Member(Accessible, MakeOf(i), "function")).doc
         IN /\ Range(ClassFile(i).doc) \subseteq Range(d)
            /\ ClassFile(i).doc # <<>> => d # <<>>
            /\ Range(makedoc) \subseteq Range(d)
            /\ makedoc # <<>> => d # <<>>
<1> DEFINE makedoc == Described(Member(Accessible, MakeOf(i), "function")).doc
           head == ClassFile(i).doc \o makedoc
           headerdoc == IF NoSuchMember(Accessible, HeaderOf(i), "file") THEN <<>>
                        ELSE Described(Member(Accessible, HeaderOf(i), "file")).doc
<1>1. ClassFile(i).doc \in Seq(STRING) /\ ClassFile(i).params \in Seq(STRING)
  BY DocWords
<1>2. makedoc \in Seq(STRING)
  BY DocWords, TheMake DEF Functions
<1>3. headerdoc \in Seq(STRING)
  <2>1. CASE NoSuchMember(Accessible, HeaderOf(i), "file")
    BY <2>1, EmptySeq
  <2>2. CASE ~NoSuchMember(Accessible, HeaderOf(i), "file")
    <3>1. Member(Accessible, HeaderOf(i), "file") \in Hits(Accessible, HeaderOf(i), "file")
      BY <2>2 DEF NoSuchMember, Member
    <3>2. Member(Accessible, HeaderOf(i), "file") \in Accessible
      BY <3>1 DEF Hits
    <3>3. QED
      BY <2>2, <3>2, DocWords
  <2>3. QED
    BY <2>1, <2>2
<1>4. SuperDescription(i) = head \o headerdoc
  BY DEF SuperDescription
<1> HIDE DEF makedoc, headerdoc
<1>5. /\ head \in Seq(STRING)
      /\ Range(ClassFile(i).doc) \subseteq Range(head) /\ Range(makedoc) \subseteq Range(head)
      /\ ClassFile(i).doc # <<>> \/ makedoc # <<>> => head # <<>>
  BY <1>1, <1>2, WordsConcat
<1> HIDE DEF head
<1>6. /\ head \o headerdoc \in Seq(STRING)
      /\ Range(head) \subseteq Range(head \o headerdoc)
      /\ head # <<>> => head \o headerdoc # <<>>
  BY <1>3, <1>5, WordsConcat
<1> DEFINE d0 == head \o headerdoc
           d == d0 \o ClassFile(i).params
<1> HIDE DEF d0
<1>7. /\ Range(d0) \subseteq Range(d)
      /\ d0 # <<>> => d # <<>>
  BY <1>1, <1>6, WordsConcat DEF d0
<1> HIDE DEF d
<1>8. SuperDescription(i) \o ClassFile(i).params = d
  BY <1>4 DEF d, d0
<1>9. /\ Range(ClassFile(i).doc) \subseteq Range(d)
      /\ ClassFile(i).doc # <<>> => d # <<>>
      /\ Range(makedoc) \subseteq Range(d)
      /\ makedoc # <<>> => d # <<>>
  BY <1>5, <1>6, <1>7 DEF d0
<1>10. QED
  BY <1>8, <1>9 DEF makedoc

\* A round of a writing loop touches neither the members nor the blocks.
LEMMA WritingRound ==
  ASSUME SwigInv, pc \in {"blocks", "blocks2", "functions", "classes"},
         UNCHANGED <<pc, index, di, blocks, blocks2>>, pos' = pos + 1
  PROVE  TypeInv' /\ IndexInv' /\ BlocksInv' /\ Blocks2Inv'
<1>1. TypeInv /\ Progress /\ pos \in Nat
  BY Looking
<1>2. pos' \in Nat \ {0}
  BY <1>1, NextPosition
<1>3. TypeInv'
  <2>1. pc' \in {"index", "died"} \cup AfterIndex
    BY <1>1 DEF TypeInv
  <2>2. QED
    BY <1>1, <1>2, <2>1, KeepTypes
<1>4. \A q \in Nat : /\ Read(q)' <=> Read(q)
                     /\ Searched(q)' <=> Searched(q)
                     /\ Searched2(q)' <=> Searched2(q)
  BY <1>1, NextRound
<1>5. DOMAIN index \subseteq Nat /\ DOMAIN di \subseteq Nat
  BY <1>1, IndexTypes, Lists DEF TypeInv
<1>6. IndexInv'
  BY <1>1, <1>4, <1>5, KeepIndex, Places DEF Progress, TypeInv
<1>7. BlocksInv'
  BY <1>1, <1>4, <1>5, KeepBlocks DEF Progress
<1>8. Blocks2Inv'
  BY <1>1, <1>4, <1>5, KeepBlocks2 DEF Progress
<1>9. QED
  BY <1>3, <1>6, <1>7, <1>8

\* What is written stays the work of the round that wrote it.
LEMMA OldEntries ==
  ASSUME SwigInv, pc \in {"blocks", "blocks2", "functions", "classes"},
         UNCHANGED <<pc, index, di, blocks, blocks2>>, pos' = pos + 1,
         made \subseteq made', pc \in {"functions", "classes"} => made' = made
  PROVE  \A x \in out : (ByBlock(x) \/ ByBlock2(x) \/ ByFunction(x) \/ ByClass(x))'
<1>1. TypeInv /\ Progress /\ pos \in Nat
  BY Looking
<1>2. \A q \in Nat : /\ BlockDone(q) => BlockDone(q)'
                     /\ Block2Done(q) => Block2Done(q)'
                     /\ FunctionDone(q) => FunctionDone(q)'
                     /\ ClassDone(q) => ClassDone(q)'
  BY <1>1, NextRound
<1>3. \A q \in Nat : FunctionDone(q) => UNCHANGED made
  BY <1>1, Order
<1>4. DOMAIN di \subseteq Nat /\ DOMAIN blocks \subseteq Nat /\ DOMAIN blocks2 \subseteq Nat
  BY <1>1, Lists
<1>5. \A x \in out : ByBlock(x) \/ ByBlock2(x) \/ ByFunction(x) \/ ByClass(x)
  BY <1>1 DEF Progress, OutInv
<1>6. QED
  BY <1>2, <1>3, <1>4, <1>5, KeepEntry

\* Facts of arithmetic.
LEMMA SmallerRound == \A m, n \in Nat : m < n => m # n
  OBVIOUS

\* The rounds of the first loop before this one are of earlier classes.
LEMMA BlockOnce ==
  ASSUME SwigInv, pc = "blocks", pos \in DOMAIN blocks
  PROVE  \A q \in DOMAIN blocks :
           /\ BlockDone(q) <=> q < pos
           /\ BlockDone(q) =>
                q # pos /\ blocks[q] < blocks[pos] /\ blocks[q] # blocks[pos]
                /\ blocks[q] \in Classes
<1>1. TypeInv /\ Progress /\ pos \in Nat /\ index \in Indices
  BY Looking DEF TypeInv
<1>2. /\ DOMAIN blocks \subseteq Nat
      /\ \A q \in DOMAIN blocks : blocks[q] \in Classes /\ blocks[q] \in Nat
  BY <1>1, Lists, IndexTypes
<1>3. \A q \in Nat : BlockDone(q) <=> q < pos
  BY <1>1, Order
<1>4. \A q \in DOMAIN blocks : q < pos => blocks[q] < blocks[pos]
  BY <1>1 DEF Progress, BlocksInv, Found
<1>5. \A q \in DOMAIN blocks : q < pos => q # pos /\ blocks[q] # blocks[pos]
  BY <1>1, <1>2, <1>4, SmallerRound
<1>6. QED
  BY <1>2, <1>3, <1>4, <1>5

\* The make function of a block is in make_funcs when its turn comes exactly if
\* an earlier class has the same: that class is a block too, and had its turn.
LEMMA MadeBefore ==
  ASSUME SwigInv, pc = "blocks", pos \in DOMAIN blocks, NEW i, i = blocks[pos], OneMake(i)
  PROVE  <<MakeOf(i)>> \in made <=> PassedOver(i)
<1>1. TypeInv /\ Progress /\ pos \in Nat /\ index \in Indices
  BY Looking DEF TypeInv
<1>2. /\ DOMAIN blocks \subseteq Nat /\ DOMAIN blocks2 \subseteq Nat /\ DOMAIN di \subseteq Nat
      /\ \A q \in DOMAIN blocks : blocks[q] \in Readable /\ blocks[q] \in Nat
      /\ Readable \subseteq Classes /\ Readable \subseteq Nat
  BY <1>1, Lists, IndexTypes
<1>3. \A q \in Nat : ~Block2Done(q) /\ Searched(q)
  BY <1>1, Order
<1>4. ASSUME <<MakeOf(i)>> \in made
      PROVE  PassedOver(i)
  <2>1. PICK q \in DOMAIN blocks : BlockDone(q) /\ <<MakeOf(i)>> = <<MakeOf(blocks[q])>>
    BY <1>1, <1>2, <1>3, <1>4 DEF Progress, MadeInv
  <2>2. MakeOf(blocks[q]) = MakeOf(i) /\ blocks[q] < i /\ blocks[q] \in Readable
    BY <1>2, <2>1, BlockOnce
  <2>3. QED
    BY <2>2 DEF PassedOver
<1>5. ASSUME PassedOver(i)
      PROVE  <<MakeOf(i)>> \in made
  <2>1. PICK k \in Readable : k < i /\ MakeOf(k) = MakeOf(i)
    BY <1>5 DEF PassedOver
  <2>2. IsBlock(k)
    BY <2>1 DEF OneMake, Unique, IsBlock, NoMake
  <2>3. PICK q \in DOMAIN di : di[q][1] = k
    BY <1>2, Looking
  <2>4. k \in Range(blocks)
    BY <1>1, <1>2, <1>3, <2>2, <2>3 DEF Progress, BlocksInv
  <2>5. PICK a \in DOMAIN blocks : blocks[a] = k
    BY <2>4 DEF Range
  <2>6. a < pos
    <3>1. k # i /\ ~(i < k)
      BY <1>2, <2>1
    <3>2. a # pos
      BY <2>5, <3>1
    <3>3. ~(pos < a)
      BY <1>1, <2>5, <3>1 DEF Progress, BlocksInv, Found
    <3>4. QED
      BY <1>1, <1>2, <3>2, <3>3
  <2>7. BlockWritten(k)
    BY <1>1, <2>5, <2>6, BlockOnce DEF Progress, WrittenInv
  <2>8. QED
    BY <2>1, <2>7 DEF BlockWritten
<1>6. QED
  BY <1>4, <1>5

\* The entries of a block: of its class and methods, and of its make function.
LEMMA BlockEntries ==
  ASSUME index \in Indices, NEW i \in Classes, OneMake(i), NEW mk, NEW d, NEW class, NEW func,
         mk = Member(Accessible, MakeOf(i), "function"),
         class = ClassEntries(i, d, {}), func = Entry(mk, <<MakeOf(i)>>, d)
  PROVE  /\ \A x \in class : x.of \in PlacesOf(i) /\ x.of[1] = i
         /\ \A x \in func : x.of = mk /\ x.name = <<MakeOf(i)>>
         /\ mk \in Functions /\ mk[1] \notin Classes /\ NameOf(mk) = MakeOf(i)
         /\ \A x \in class \cup func : x.of \in Declared(x.name) /\ x.by = <<pc, pos>>
         /\ \A x, y \in class \cup func : x.of = y.of => x = y
<1>1. \A x \in class :
        /\ x.of \in PlacesOf(i) /\ x.by = <<pc, pos>> /\ x.name = FullName(x.of)
        /\ x = [by |-> <<pc, pos>>, of |-> x.of, name |-> FullName(x.of),
                doc |-> IF x.of[2] = 0 THEN d ELSE Described(x.of).doc]
  BY ClassEntriesFacts
<1>2. \A x \in func : x = [by |-> <<pc, pos>>, of |-> mk, name |-> <<MakeOf(i)>>, doc |-> d]
  BY EntryFacts
<1>3. \A x \in func : x.of = mk /\ x.by = <<pc, pos>> /\ x.name = <<MakeOf(i)>>
  BY <1>2
<1>4. mk \in Functions /\ NameOf(mk) = MakeOf(i)
  BY TheMake
<1>5. mk \in Accessible /\ IsA(mk, "function") /\ mk[1] \notin Classes
  BY <1>4, Places DEF Functions
<1>6. \A p \in PlacesOf(i) : p[1] = i
  BY Places
<1>7. \A x \in class : x.of \in Declared(x.name)
  BY <1>1, ClassDeclares
<1>8. mk \in Declared(<<MakeOf(i)>>)
  BY <1>4, <1>5 DEF Declared
<1>9. \A x \in class \cup func : x.of \in Declared(x.name) /\ x.by = <<pc, pos>>
  BY <1>1, <1>3, <1>7, <1>8
<1>10. \A x \in class, y \in func : x.of # y.of
  BY <1>1, <1>3, <1>5, <1>6
<1>11. \A x, y \in class : x.of = y.of => x = y
  BY <1>1
<1>12. \A x, y \in func : x = y
  BY <1>2
<1>13. \A x, y \in class \cup func : x.of = y.of => x = y
  <2> TAKE x, y \in class \cup func
  <2>1. CASE x \in class
    BY <1>10, <1>11, <2>1
  <2>2. CASE x \in func
    BY <1>10, <1>12, <2>2
  <2>3. QED
    BY <2>1, <2>2
<1>14. QED
  BY <1>1, <1>3, <1>4, <1>5, <1>6, <1>9, <1>13

\* No entry of the first loop so far is of what this round writes.
LEMMA BlockNotYet ==
  ASSUME SwigInv, pc = "blocks", pos \in DOMAIN blocks, NEW i, i = blocks[pos], i \in Classes,
         <<MakeOf(i)>> \notin made, NEW x \in out
  PROVE  /\ x.of[1] # i
         /\ \A p \in Functions : NameOf(p) = MakeOf(i) => x.of # p
<1>1. TypeInv /\ Progress /\ pos \in Nat /\ index \in Indices
  BY Looking DEF TypeInv
<1>2. DOMAIN blocks2 \subseteq Nat /\ DOMAIN di \subseteq Nat
  BY <1>1, Lists
<1>3. \A q \in Nat : ~Block2Done(q) /\ ~FunctionDone(q) /\ ~ClassDone(q)
  BY <1>1, Order
<1>4. PICK q \in DOMAIN blocks :
        /\ BlockDone(q)
        /\ \/ x.of \in PlacesOf(blocks[q])
           \/ x.of \in Functions /\ x.name = <<MakeOf(blocks[q])>> /\ x.name \in made
  <2>1. ByBlock(x)
    BY <1>1, <1>2, <1>3 DEF Progress, OutInv, ByBlock2, ByFunction, ByClass
  <2>2. QED
    BY <2>1 DEF ByBlock
<1>5. blocks[q] # i /\ blocks[q] \in Classes
  BY <1>4, BlockOnce
<1>6. \A p \in PlacesOf(blocks[q]) : p[1] = blocks[q]
  BY <1>1, Places
<1>7. \A p \in Functions : p[1] \notin Classes
  BY <1>1, Places
<1>8. x.of[1] # i
  BY <1>4, <1>5, <1>6, <1>7
<1>9. ASSUME NEW p \in Functions, NameOf(p) = MakeOf(i), x.of = p
      PROVE  FALSE
  <2>1. x.of \notin PlacesOf(blocks[q])
    BY <1>5, <1>6, <1>7, <1>9
  <2>2. x.name \in made
    BY <1>4, <2>1
  <2>3. p \in Declared(x.name)
    BY <1>9 DEF SwigInv, NamesInv
  <2>4. x.name = <<NameOf(p)>>
    BY <1>1, <2>3, DeclaredFacts
  <2>5. QED
    BY <1>9, <2>2, <2>4
<1>10. QED
  BY <1>8, <1>9

\* A round of the first loop that writes, and any round of it.
LEMMA BlockRoundWritten ==
  ASSUME SwigInv, pc = "blocks", pos \in DOMAIN blocks,
         UNCHANGED <<pc, index, di, blocks, blocks2>>, pos' = pos + 1,
         NEW i, i = blocks[pos], OneMake(i), <<MakeOf(i)>> \notin made,
         ~SeveralHeaders(i), Formats(ClassFile(i).params),
         NEW mk, mk = Member(Accessible, MakeOf(i), "function"),
         NEW d, d = SuperDescription(i) \o ClassFile(i).params,
         NEW class, class = ClassEntries(i, d, {}),
         NEW func, func = Entry(mk, <<MakeOf(i)>>, d),
         made' = made \cup {<<MakeOf(i)>>}, out' = out \cup (class \cup func)
  PROVE  SwigInv'
<1>1. /\ TypeInv /\ Progress /\ pos \in Nat /\ index \in Indices
      /\ Range(di) = Accessible
  BY Looking DEF TypeInv
<1>2. /\ DOMAIN blocks \subseteq Nat /\ DOMAIN blocks2 \subseteq Nat /\ DOMAIN di \subseteq Nat
      /\ i \in Classes
  BY <1>1, Lists
<1>3. \A q \in Nat : /\ BlockDone(q)' <=> BlockDone(q) \/ q = pos
                     /\ ~Block2Done(q) /\ ~FunctionDone(q) /\ ~ClassDone(q)
                     /\ ~Block2Done(q)' /\ ~FunctionDone(q)' /\ ~ClassDone(q)'
  <2>1. \A q \in Nat : ~Block2Done(q) /\ ~FunctionDone(q) /\ ~ClassDone(q)
    BY <1>1, Order
  <2>2. \A q \in Nat : /\ BlockDone(q)' <=> BlockDone(q) \/ q = pos
                       /\ ~Block2Done(q)' /\ ~FunctionDone(q)' /\ ~ClassDone(q)'
    BY <1>1, <2>1, NextRound
  <2>3. QED
    BY <2>1, <2>2
<1>4. TypeInv' /\ IndexInv' /\ BlocksInv' /\ Blocks2Inv'
  BY WritingRound
<1>5. /\ \A x \in class : x.of \in PlacesOf(i) /\ x.of[1] = i
      /\ \A x \in func : x.of = mk /\ x.name = <<MakeOf(i)>>
      /\ mk \in Functions /\ mk[1] \notin Classes /\ NameOf(mk) = MakeOf(i)
      /\ \A x \in class \cup func : x.of \in Declared(x.name) /\ x.by = <<pc, pos>>
      /\ \A x, y \in class \cup func : x.of = y.of => x = y
  BY <1>1, <1>2, BlockEntries
<1>6. NamesInv' /\ OnceInv'
  <2>1. \A x \in out, y \in class \cup func : x.of # y.of
    BY <1>2, <1>5, BlockNotYet
  <2>2. NamesInv /\ OnceInv
    BY DEF SwigInv
  <2>3. PICK entries : entries = class \cup func
    OBVIOUS
  <2>4. /\ \A x \in entries : x.of \in Declared(x.name)
        /\ \A x, y \in entries : x.of = y.of => x = y
        /\ \A x \in out, y \in entries : x.of = y.of => BothStyles(x.of[1])
    BY <1>5, <2>1, <2>3
  <2>5. UNCHANGED index /\ out' = out \cup entries
    BY <2>3
  <2>6. QED
    BY ONLY <2>2, <2>4, <2>5, WriteNames
<1>7. MadeInv'
  <2>1. \A m \in made : \E q \in DOMAIN blocks : BlockDone(q) /\ m = <<MakeOf(blocks[q])>>
    BY <1>1, <1>2, <1>3 DEF Progress, MadeInv
  <2>2. \A m \in made' : \E q \in DOMAIN blocks : BlockDone(q)' /\ m = <<MakeOf(blocks[q])>>
    BY <1>1, <1>2, <1>3, <2>1
  <2>3. \A j : MakeOf(j)' = MakeOf(j)
    BY SameIndex
  <2>4. QED
    BY <2>2, <2>3 DEF MadeInv
<1>8. OutInv'
  <2>1. \A x \in out : (ByBlock(x) \/ ByBlock2(x) \/ ByFunction(x) \/ ByClass(x))'
    BY OldEntries
  <2>2. ASSUME NEW x \in class \cup func
        PROVE  ByBlock(x)'
    <3>1. PICK q : q = pos
      OBVIOUS
    <3>2. x.by = <<"blocks", q>>
      BY <1>5, <3>1
    <3>3. x.of \in PlacesOf(i) \/ (x.of \in Functions /\ x.name = <<MakeOf(i)>>)
      BY <1>5
    <3>4. BlockDone(q)'
      BY <1>1, <1>3, <3>1
    <3>5. /\ OldStyle(i)' = OldStyle(i) /\ PlacesOf(i)' = PlacesOf(i)
          /\ Functions' = Functions /\ MakeOf(i)' = MakeOf(i)
      BY SameIndex
    <3>6. OldStyle(i)
      BY MadeBefore DEF OldStyle
    <3>7. q \in DOMAIN blocks' /\ blocks'[q] = i
      BY <3>1
    <3>8. <<MakeOf(i)>> \in made'
      OBVIOUS
    <3>9. QED
      BY <3>2, <3>3, <3>4, <3>5, <3>7, <3>8, <3>6 DEF ByBlock
  <2>3. QED
    BY <2>1, <2>2 DEF OutInv
<1>9. WrittenInv'
  <2>1. /\ \A p, name : Documented(p, name) => Documented(p, name)'
        /\ \A j : ClassDocumented(j) => ClassDocumented(j)'
    BY KeepDocumented
  <2>2. /\ Range(ClassFile(i).doc) \subseteq Range(d)
        /\ ClassFile(i).doc # <<>> => d # <<>>
        /\ Range(Described(mk).doc) \subseteq Range(d)
        /\ Described(mk).doc # <<>> => d # <<>>
    BY <1>1, <1>2, SuperWords
  <2>3. ClassDocumented(i)'
    <3>1. PICK none : none = {}
      OBVIOUS
    <3>2. ClassEntries(i, d, none) \subseteq out'
      BY <3>1
    <3>3. \A p \in Methods(i) : NameOf(p) \notin none
      BY <3>1
    <3>4. UNCHANGED index /\ index \in Indices /\ i \in Classes
      BY <1>1, <1>2
    <3>5. QED
      BY ONLY <2>2, <3>2, <3>3, <3>4, ClassWritten
  <2>4. \A p : NameOf(p)' = NameOf(p)
    BY SameIndex
  <2>5. ASSUME NEW p \in Functions, <<NameOf(p)>> \in made'
        PROVE  Documented(p, <<NameOf(p)>>)'
    <3>1. CASE <<NameOf(p)>> \in made
      <4>1. Documented(p, <<NameOf(p)>>)
        BY <1>1, <3>1 DEF Progress, WrittenInv
      <4>2. QED
        BY <2>1, <2>4, <4>1
    <3>2. CASE <<NameOf(p)>> \notin made
      <4>1. NameOf(p) = MakeOf(i)
        BY <2>5, <3>2
      <4>2. p = mk
        BY <4>1, TheMake
      <4>3. Entry(p, <<NameOf(p)>>, d) \subseteq out'
        BY <4>1, <4>2
      <4>4. Last(<<NameOf(p)>>) = NameOf(p)
        BY LastBit
      <4>5. \A name : name = <<NameOf(p)>> => Documented(p, name)'
        BY <2>2, <4>2, <4>3, <4>4, EntryDocuments
      <4>6. QED
        BY <2>4, <4>5
    <3>3. QED
      BY <3>1, <3>2
  <2>6. ASSUME NEW q \in DOMAIN blocks, BlockDone(q)', NEW j, j = blocks[q]
        PROVE  BlockWritten(j)'
    <3>1. CASE q = pos
      <4>1. /\ OneMake(i)' = OneMake(i) /\ SeveralHeaders(i)' = SeveralHeaders(i)
            /\ ClassFile(i)' = ClassFile(i) /\ MakeOf(i)' = MakeOf(i)
        BY SameIndex
      <4>2. OneMake(i)' /\ ~SeveralHeaders(i)' /\ Formats(ClassFile(i).params)'
        BY <4>1 DEF Formats
      <4>3. <<MakeOf(i)>>' \in made'
        BY <4>1
      <4>4. BlockWritten(i)'
        BY <2>3, <4>2, <4>3 DEF BlockWritten
      <4>5. QED
        BY <2>6, <3>1, <4>4
    <3>2. CASE BlockDone(q)
      <4>1. BlockWritten(j)
        BY <1>1, <2>6, <3>2 DEF Progress, WrittenInv
      <4>2. QED
        BY <4>1, KeepBlockWritten
    <3>3. QED
      BY <1>2, <1>3, <2>6, <3>1, <3>2
  <2>7. Functions' = Functions
    BY SameIndex
  <2>8. (\A p \in Functions : <<NameOf(p)>> \in made => Documented(p, <<NameOf(p)>>))'
    BY <2>4, <2>5, <2>7
  <2>9. (\A q \in DOMAIN blocks : BlockDone(q) => BlockWritten(blocks[q]))'
    BY <2>6
  <2>10. /\ \A q \in DOMAIN blocks2' : ~Block2Done(q)'
         /\ \A q \in DOMAIN di' : ~FunctionDone(q)' /\ ~ClassDone(q)'
    BY <1>2, <1>3
  <2>11. QED
    BY <2>8, <2>9, <2>10 DEF WrittenInv
<1>10. QED
  BY <1>4, <1>6, <1>7, <1>8, <1>9 DEF SwigInv, Progress

\* A round of the first loop that passes a block over.
LEMMA BlockRoundPassed ==
  ASSUME SwigInv, pc = "blocks", pos \in DOMAIN blocks, Skip,
         NEW i, i = blocks[pos], OneMake(i), <<MakeOf(i)>> \in made
  PROVE  SwigInv'
<1>1. TypeInv /\ Progress /\ pos \in Nat /\ index \in Indices
  BY Looking DEF TypeInv
<1>2. DOMAIN blocks \subseteq Nat /\ DOMAIN blocks2 \subseteq Nat /\ DOMAIN di \subseteq Nat
  BY <1>1, Lists
<1>3. UNCHANGED <<pc, index, di, blocks, blocks2, made, out>> /\ pos' = pos + 1
  BY DEF Skip
<1>4. \A q \in Nat : /\ BlockDone(q)' <=> BlockDone(q) \/ q = pos
                     /\ Block2Done(q)' <=> Block2Done(q)
                     /\ ~Block2Done(q)' /\ ~FunctionDone(q)' /\ ~ClassDone(q)'
  <2>1. \A q \in Nat : ~Block2Done(q) /\ ~FunctionDone(q) /\ ~ClassDone(q)
    BY <1>1, Order
  <2>2. QED
    BY <1>1, <1>3, <2>1, NextRound
<1>5. TypeInv' /\ IndexInv' /\ BlocksInv' /\ Blocks2Inv'
  BY <1>3, WritingRound
<1>6. NamesInv' /\ OnceInv'
  BY <1>3, SameOut DEF SwigInv
<1>7. MadeInv'
  <2>1. MadeInv /\ UNCHANGED <<index, made>> /\ UNCHANGED <<blocks, blocks2>>
    BY <1>1, <1>3 DEF Progress
  <2>2. /\ \A q \in DOMAIN blocks : BlockDone(q) => BlockDone(q)'
        /\ \A q \in DOMAIN blocks2 : Block2Done(q) => Block2Done(q)'
    BY <1>2, <1>4
  <2>3. QED
    BY ONLY <2>1, <2>2, KeepMade
<1>8. OutInv'
  <2>1. \A x \in out : (ByBlock(x) \/ ByBlock2(x) \/ ByFunction(x) \/ ByClass(x))'
    BY <1>3, OldEntries
  <2>2. QED
    BY <1>3, <2>1 DEF OutInv
<1>9. WrittenInv'
  <2>1. /\ \A p, name : Documented(p, name) => Documented(p, name)'
        /\ \A j : BlockWritten(j) => BlockWritten(j)'
    BY <1>3, KeepDocumented, KeepBlockWritten
  <2>2. BlockWritten(i)
    BY MadeBefore DEF BlockWritten, OldStyle
  <2>3. \A q \in DOMAIN blocks : BlockDone(q) => BlockWritten(blocks[q])
    BY <1>1 DEF Progress, WrittenInv
  <2>4. \A q \in DOMAIN blocks : BlockDone(q)' => BlockWritten(blocks[q])'
    BY <1>2, <1>3, <1>4, <2>1, <2>2, <2>3
  <2>5. (\A q \in DOMAIN blocks : BlockDone(q) => BlockWritten(blocks[q]))'
    BY <1>3, <2>4
  <2>6. Functions' = Functions /\ \A p : NameOf(p)' = NameOf(p)
    BY <1>3, SameIndex
  <2>7. (\A p \in Functions : <<NameOf(p)>> \in made => Documented(p, <<NameOf(p)>>))'
    BY <1>1, <1>3, <2>1, <2>6 DEF Progress, WrittenInv
  <2>8. /\ \A q \in DOMAIN blocks2' : ~Block2Done(q)'
        /\ \A q \in DOMAIN di' : ~FunctionDone(q)' /\ ~ClassDone(q)'
    BY <1>2, <1>3, <1>4
  <2>9. QED
    BY <2>5, <2>7, <2>8 DEF WrittenInv
<1>10. QED
  BY <1>3, <1>5, <1>6, <1>7, <1>8, <1>9 DEF SwigInv, Progress

\* A step of the first loop.
LEMMA WriteBlockInv ==
  ASSUME SwigInv, WriteBlock
  PROVE  SwigInv'
<1>1. pc = "blocks" /\ pos <= Len(blocks)
  BY DEF WriteBlock
<1>2. /\ TypeInv /\ Progress /\ pos \in DOMAIN blocks /\ Range(di) = Accessible
  BY <1>1, Looking
<1>3. PICK i : i = blocks[pos]
  OBVIOUS
<1>4. PICK mk : mk = Member(Accessible, MakeOf(i), "function")
  OBVIOUS
<1>5. PICK d : d = SuperDescription(i) \o ClassFile(i).params
  OBVIOUS
<1>6. PICK class : class = ClassEntries(i, d, {})
  OBVIOUS
<1>7. PICK func : func = Entry(mk, <<MakeOf(i)>>, d)
  OBVIOUS
<1>8. i \in Readable /\ IsBlock(i)
  BY <1>2, <1>3, Lists DEF Progress, BlocksInv
<1>9. /\ Unique(Range(di), MakeOf(i), "function") <=> OneMake(i)
      /\ HeaderClash(i) <=> SeveralHeaders(i)
  BY <1>1, Looking
<1>10. CASE ~OneMake(i) /\ Die
  <2>1. KillingClass(i)
    BY <1>8, <1>10 DEF IsBlock, KillingClass, OneMake, Unique, SeveralMakes, NoMake
  <2>2. QED
    BY <1>8, <1>10, <2>1, DieInv DEF Fatal
<1>11. CASE /\ OneMake(i) /\ <<MakeOf(i)>> \notin made
            /\ SeveralHeaders(i) \/ ~Formats(ClassFile(i).params)
            /\ Die
  <2>1. OldStyle(i)
    BY <1>1, <1>2, <1>3, <1>11, MadeBefore DEF OldStyle
  <2>2. KillingClass(i)
    BY <1>11, <2>1 DEF KillingClass
  <2>3. QED
    BY <1>8, <1>11, <2>2, DieInv DEF Fatal
<1>12. CASE OneMake(i) /\ <<MakeOf(i)>> \in made /\ Skip
  BY <1>1, <1>2, <1>3, <1>12, BlockRoundPassed
<1>13. CASE /\ OneMake(i) /\ <<MakeOf(i)>> \notin made
            /\ ~SeveralHeaders(i) /\ Formats(ClassFile(i).params)
            /\ made' = made \cup {<<MakeOf(i)>>}
            /\ Write(class \cup func)
  <2>1. /\ UNCHANGED <<pc, index, di, blocks, blocks2>> /\ pos' = pos + 1
        /\ out' = out \cup (class \cup func)
    BY <1>13 DEF Write
  <2>2. QED
    BY <1>1, <1>2, <1>3, <1>4, <1>5, <1>6, <1>7, <1>13, <2>1, BlockRoundWritten
<1>14. QED
  BY <1>2, <1>3, <1>4, <1>5, <1>6, <1>7, <1>9, <1>10, <1>11, <1>12, <1>13 DEF WriteBlock

\* The make method of a block of the new style: the only one of that name.
LEMMA TheMakeMethod ==
  ASSUME index \in Indices, NEW i \in Classes, NewStyle(i)
  PROVE  /\ MakeMethod(i) \in Methods(i) /\ NameOf(MakeMethod(i)) = "make"
         /\ \A p \in Methods(i) : NameOf(p) = "make" => p = MakeMethod(i)
<1>1. PICK mk : mk = MakeMethod(i)
  OBVIOUS
<1>2. mk \in Hits(MembersOf(i), "make", "function")
  BY <1>1 DEF NewStyle, NoSuchMember, MakeMethod, Member
<1>3. mk \in Methods(i) /\ NameOf(mk) = "make"
  BY <1>2 DEF Hits, Methods
<1>4. ASSUME NEW p \in Methods(i), NameOf(p) = "make"
      PROVE  p = mk
  <2>1. p \in MembersOf(i) /\ Kept(p) /\ mk \in MembersOf(i) /\ Kept(mk)
    BY <1>3 DEF Methods, IsA
  <2>2. PICK j \in DOMAIN index[i].file.members : p = <<i, j>>
    BY <2>1 DEF MembersOf
  <2>3. PICK k \in DOMAIN index[i].file.members : mk = <<i, k>>
    BY <2>1 DEF MembersOf
  <2>4. j \in Nat \ {0} /\ k \in Nat \ {0}
    BY IndexTypes DEF Classes, ClassFile
  <2>5. j \notin 1..(k - 1)
    BY <1>3, <1>4, <2>1, <2>2, <2>3, <2>4 DEF Kept
  <2>6. k \notin 1..(j - 1)
    BY <1>3, <1>4, <2>1, <2>2, <2>3, <2>4 DEF Kept
  <2>7. j = k
    BY <2>4, <2>5, <2>6
  <2>8. QED
    BY <2>2, <2>3, <2>7
<1>5. QED
  BY <1>1, <1>3, <1>4

\* The second loop meets a class once.
LEMMA Block2Once ==
  ASSUME SwigInv, pc = "blocks2", pos \in DOMAIN blocks2
  PROVE  /\ <<ClassName(blocks2[pos]), "make">> \notin made
         /\ \A q \in DOMAIN blocks2 : Block2Done(q) =>
              q # pos /\ blocks2[q] # blocks2[pos] /\ blocks2[q] \in Classes
<1>1. TypeInv /\ Progress /\ pos \in Nat /\ index \in Indices
  BY Looking DEF TypeInv
<1>2. /\ DOMAIN blocks2 \subseteq Nat
      /\ \A q \in DOMAIN blocks2 : blocks2[q] \in Classes /\ blocks2[q] \in Nat
  BY <1>1, Lists, IndexTypes
<1>3. \A q \in Nat : Block2Done(q) <=> q < pos
  BY <1>1, Order
<1>4. \A q \in DOMAIN blocks2 : Block2Done(q) => q # pos
  BY <1>1, <1>2, <1>3, SmallerRound
<1>5. \A q \in DOMAIN blocks2 : Block2Done(q) => blocks2[q] # blocks2[pos]
  <2>1. \A q \in DOMAIN blocks2 : q < pos => blocks2[q] < blocks2[pos]
    BY <1>1 DEF Progress, Blocks2Inv, Found
  <2>2. QED
    BY <1>2, <1>3, <2>1, SmallerRound
<1>6. SUFFICES ASSUME <<ClassName(blocks2[pos]), "make">> \in made
               PROVE  FALSE
  BY <1>2, <1>4, <1>5
<1>7. PICK q \in DOMAIN blocks2 :
        Block2Done(q) /\ <<ClassName(blocks2[pos]), "make">> = <<ClassName(blocks2[q]), "make">>
  BY <1>1, <1>6, LastBit DEF Progress, MadeInv
<1>8. ClassName(blocks2[q]) = ClassName(blocks2[pos])
  BY <1>7
<1>9. blocks2[q] = blocks2[pos]
  BY <1>1, <1>2, <1>8, IndexTypes
<1>10. QED
  BY <1>5, <1>7, <1>9

\* The entries of a block of the new style: its class, other methods and make.
LEMMA Block2Entries ==
  ASSUME index \in Indices, NEW i \in Classes, NEW mk \in Methods(i), NameOf(mk) = "make",
         NEW d, NEW class, NEW func,
         class = ClassEntries(i, d, {"make"}), func = Entry(mk, <<ClassName(i), "make">>, d)
  PROVE  /\ \A x \in class \cup func : /\ x.of \in PlacesOf(i) /\ x.of[1] = i
                                       /\ x.of \in Declared(x.name) /\ x.by = <<pc, pos>>
         /\ \A x, y \in class \cup func : x.of = y.of => x = y
<1>1. \A x \in class :
        /\ x.of \in PlacesOf(i) /\ x.by = <<pc, pos>> /\ x.name = FullName(x.of)
        /\ x = [by |-> <<pc, pos>>, of |-> x.of, name |-> FullName(x.of),
                doc |-> IF x.of[2] = 0 THEN d ELSE Described(x.of).doc]
        /\ x.of[2] # 0 => NameOf(x.of) \notin {"make"}
  BY ClassEntriesFacts
<1>2. \A x \in func : x = [by |-> <<pc, pos>>, of |-> mk, name |-> <<ClassName(i), "make">>,
                           doc |-> d]
  BY EntryFacts
<1>3. \A x \in func : x.of = mk /\ x.by = <<pc, pos>> /\ x.name = <<ClassName(i), "make">>
  BY <1>2
<1>4. mk[1] = i /\ mk[2] # 0 /\ mk \in PlacesOf(i)
  BY Places DEF PlacesOf
<1>5. FullName(mk) = <<ClassName(i), "make">>
  BY <1>4 DEF FullName, MethodName
<1>6. \A x \in class \cup func : x.of \in PlacesOf(i) /\ x.name = FullName(x.of)
  BY <1>1, <1>3, <1>4, <1>5
<1>7. \A x \in class \cup func : x.of \in Declared(x.name) /\ x.of[1] = i
  BY <1>6, ClassDeclares
<1>8. \A x \in class, y \in func : x.of # y.of
  BY <1>1, <1>3, <1>4
<1>9. \A x, y \in class : x.of = y.of => x = y
  BY <1>1
<1>10. \A x, y \in func : x = y
  BY <1>2
<1>11. \A x, y \in class \cup func : x.of = y.of => x = y
  <2> TAKE x, y \in class \cup func
  <2>1. CASE x \in class
    BY <1>8, <1>9, <2>1
  <2>2. CASE x \in func
    BY <1>8, <1>10, <2>2
  <2>3. QED
    BY <2>1, <2>2
<1>12. QED
  BY <1>1, <1>3, <1>6, <1>7, <1>11

\* What the second loop writes is only there if the class is of both styles.
LEMMA Block2NotYet ==
  ASSUME SwigInv, pc = "blocks2", pos \in DOMAIN blocks2, NEW i, i = blocks2[pos],
         i \in Readable, NewStyle(i), NEW x \in out, x.of[1] = i
  PROVE  BothStyles(i)
<1>1. TypeInv /\ Progress /\ pos \in Nat /\ index \in Indices
  BY Looking DEF TypeInv
<1>2. DOMAIN di \subseteq Nat /\ i \in Classes
  BY <1>1, Lists
<1>3. \A q \in Nat : ~FunctionDone(q) /\ ~ClassDone(q)
  BY <1>1, Order
<1>4. ByBlock(x) \/ ByBlock2(x)
  BY <1>1, <1>2, <1>3 DEF Progress, OutInv, ByFunction, ByClass
<1>5. \A k : \A p \in PlacesOf(k) : p[1] = k
  BY <1>1, Places
<1>6. x.of \notin Functions
  BY <1>1, <1>2, Places
<1>7. CASE ByBlock(x)
  <2>1. PICK q \in DOMAIN blocks : OldStyle(blocks[q]) /\ x.of \in PlacesOf(blocks[q])
    BY <1>6, <1>7 DEF ByBlock
  <2>2. QED
    BY <1>5, <2>1 DEF BothStyles
<1>8. CASE ByBlock2(x)
  <2>1. PICK q \in DOMAIN blocks2 : Block2Done(q) /\ x.of \in PlacesOf(blocks2[q])
    BY <1>8 DEF ByBlock2
  <2>2. QED
    BY <1>5, <2>1, Block2Once
<1>9. QED
  BY <1>4, <1>7, <1>8

\* The words of make_block2_entry, of which there is at least one.
LEMMA OneWord ==
  ASSUME NEW S, NEW w \in S
  PROVE  <<w>> \in Seq(S) /\ <<w>> # <<>>
<1>1. <<w>> \in Seq(S)
  OBVIOUS
<1>2. Range(<<w>>) # Range(<<>>)
  BY OneElement, NoElements
<1>3. QED
  BY <1>1, <1>2

\* The entry of a new-style block has the words of the class and of its make.
LEMMA Block2Words ==
  ASSUME index \in Indices, NEW i \in Classes, NEW mk \in Methods(i), NEW d,
         d = ClassFile(i).doc \o <<"Constructor">> \o Described(mk).doc \o Described(mk).params
  PROVE  /\ Range(ClassFile(i).doc) \subseteq Range(d)
         /\ Range(Described(mk).doc) \subseteq Range(d)
         /\ d # <<>>
<1> DEFINE Words == STRING \cup {"Constructor"}
<1>1. /\ ClassFile(i).doc \in Seq(Words) /\ Described(mk).doc \in Seq(Words)
      /\ Described(mk).params \in Seq(Words)
  <2>1. \A S, T : \A s \in Seq(S) : S \subseteq T => s \in Seq(T)
    OBVIOUS
  <2>2. QED
    BY <2>1, DocWords
<1>2. PICK a : a = ClassFile(i).doc \o <<"Constructor">>
  OBVIOUS
<1>3. /\ <<"Constructor">> \in Seq(Words) /\ <<"Constructor">> # <<>>
  BY OneWord
<1> HIDE DEF Words
<1>4. a \in Seq(Words) /\ Range(ClassFile(i).doc) \subseteq Range(a) /\ a # <<>>
  BY <1>1, <1>2, <1>3, WordsConcat
<1>5. PICK b : b = a \o Described(mk).doc
  OBVIOUS
<1>6. /\ b \in Seq(Words) /\ Range(a) \subseteq Range(b) /\ b # <<>>
      /\ Range(Described(mk).doc) \subseteq Range(b)
  BY <1>1, <1>4, <1>5, WordsConcat
<1>7. d = b \o Described(mk).params
  BY <1>2, <1>5
<1>8. Range(b) \subseteq Range(d) /\ d # <<>>
  BY <1>1, <1>6, <1>7, WordsConcat
<1>9. QED
  BY <1>4, <1>6, <1>8

\* A round of the second loop that writes, and any round of it.
LEMMA Block2Written ==
  ASSUME SwigInv, pc = "blocks2", pos \in DOMAIN blocks2,
         UNCHANGED <<pc, index, di, blocks, blocks2>>, pos' = pos + 1,
         NEW i, i = blocks2[pos], i \in Readable, NewStyle(i),
         NEW mk, mk = MakeMethod(i), Formats(Described(mk).params),
         NEW d,
         d = ClassFile(i).doc \o <<"Constructor">> \o Described(mk).doc \o Described(mk).params,
         NEW class, class = ClassEntries(i, d, {"make"}),
         NEW func, func = Entry(mk, <<ClassName(i), "make">>, d),
         made' = made \cup {<<ClassName(i), "make">>}, out' = out \cup (class \cup func)
  PROVE  SwigInv'
<1>1. TypeInv /\ Progress /\ pos \in Nat /\ index \in Indices
  BY Looking DEF TypeInv
<1>2. /\ DOMAIN blocks \subseteq Nat /\ DOMAIN blocks2 \subseteq Nat /\ DOMAIN di \subseteq Nat
      /\ i \in Classes
  BY <1>1, Lists
<1>3. \A q \in Nat : /\ BlockDone(q)' <=> BlockDone(q)
                     /\ Block2Done(q)' <=> Block2Done(q) \/ q = pos
                     /\ ~FunctionDone(q)' /\ ~ClassDone(q)'
  <2>1. \A q \in Nat : ~FunctionDone(q) /\ ~ClassDone(q)
    BY <1>1, Order
  <2>2. QED
    BY <1>1, <2>1, NextRound
<1>4. TypeInv' /\ IndexInv' /\ BlocksInv' /\ Blocks2Inv'
  BY WritingRound
<1>5. /\ mk \in Methods(i) /\ NameOf(mk) = "make"
      /\ \A p \in Methods(i) : NameOf(p) = "make" => p = mk
  BY <1>1, <1>2, TheMakeMethod
<1>6. PICK entries : entries = class \cup func
  OBVIOUS
<1>7. /\ \A x \in entries : /\ x.of \in PlacesOf(i) /\ x.of[1] = i
                            /\ x.of \in Declared(x.name) /\ x.by = <<pc, pos>>
      /\ \A x, y \in entries : x.of = y.of => x = y
  BY <1>1, <1>2, <1>5, <1>6, Block2Entries
<1>8. UNCHANGED index /\ out' = out \cup entries
  BY <1>6
<1>9. NamesInv' /\ OnceInv'
  <2>1. \A x \in out, y \in entries : x.of = y.of => BothStyles(x.of[1])
    BY <1>7, Block2NotYet
  <2>2. NamesInv /\ OnceInv
    BY DEF SwigInv
  <2>3. \A x \in entries : x.of \in Declared(x.name)
    BY <1>7
  <2>4. \A x, y \in entries : x.of = y.of => x = y
    BY <1>7
  <2>5. QED
    BY ONLY <1>8, <2>1, <2>2, <2>3, <2>4, WriteNames
<1>10. MadeInv'
  <2>1. \A m \in made :
          \/ \E q \in DOMAIN blocks : BlockDone(q) /\ m = <<MakeOf(blocks[q])>>
          \/ \E q \in DOMAIN blocks2 : Block2Done(q) /\ m = <<ClassName(blocks2[q]), "make">>
    BY <1>1 DEF Progress, MadeInv
  <2>2. \A m \in made :
          \/ \E q \in DOMAIN blocks : BlockDone(q)' /\ m = <<MakeOf(blocks[q])>>
          \/ \E q \in DOMAIN blocks2 : Block2Done(q)' /\ m = <<ClassName(blocks2[q]), "make">>
    BY <1>2, <1>3, <2>1
  <2>3. PICK q \in DOMAIN blocks2 : q = pos
    OBVIOUS
  <2>4. Block2Done(q)' /\ <<ClassName(i), "make">> = <<ClassName(blocks2[q]), "make">>
    BY <1>2, <1>3, <2>3
  <2>5. \A m \in made' :
          \/ \E a \in DOMAIN blocks : BlockDone(a)' /\ m = <<MakeOf(blocks[a])>>
          \/ \E a \in DOMAIN blocks2 : Block2Done(a)' /\ m = <<ClassName(blocks2[a]), "make">>
    BY <2>2, <2>4
  <2>6. \A j : MakeOf(j)' = MakeOf(j) /\ ClassName(j)' = ClassName(j)
    BY SameIndex
  <2>7. QED
    BY <2>5, <2>6 DEF MadeInv
<1>11. OutInv'
  <2>1. \A x \in out : (ByBlock(x) \/ ByBlock2(x) \/ ByFunction(x) \/ ByClass(x))'
    BY OldEntries
  <2>2. ASSUME NEW x \in entries
        PROVE  ByBlock2(x)'
    <3>1. PICK q : q = pos
      OBVIOUS
    <3>2. x.by = <<"blocks2", q>> /\ x.of \in PlacesOf(i)
      BY <1>7, <3>1
    <3>3. Block2Done(q)'
      BY <1>1, <1>3, <3>1
    <3>4. PlacesOf(i)' = PlacesOf(i)
      BY SameIndex
    <3>5. q \in DOMAIN blocks2' /\ blocks2'[q] = i
      BY <3>1
    <3>6. QED
      BY <3>2, <3>3, <3>4, <3>5 DEF ByBlock2
  <2>3. QED
    BY <1>8, <2>1, <2>2 DEF OutInv
<1>12. WrittenInv'
  <2>1. /\ \A p, name : Documented(p, name) => Documented(p, name)'
        /\ \A j : ClassDocumented(j) => ClassDocumented(j)'
    BY KeepDocumented
  <2>2. /\ Range(ClassFile(i).doc) \subseteq Range(d)
        /\ Range(Described(mk).doc) \subseteq Range(d)
        /\ d # <<>>
    BY <1>1, <1>2, <1>5, Block2Words
  <2>3. ClassDocumented(i)'
    <3>1. PICK ignored : ignored = {"make"}
      OBVIOUS
    <3>2. ClassEntries(i, d, ignored) \subseteq out'
      BY <3>1
    <3>3. ASSUME NEW p \in Methods(i), NameOf(p) \in ignored
          PROVE  Documented(p, MethodName(p))'
      <4>1. p = mk /\ NameOf(p) = "make"
        BY <1>5, <3>1, <3>3
      <4>2. MethodName(p) = <<ClassName(i), "make">>
        BY <1>1, <1>2, <4>1, Places DEF MethodName
      <4>3. PICK name : name = MethodName(p)
        OBVIOUS
      <4>4. Entry(p, name, d) \subseteq out'
        BY <4>1, <4>2, <4>3
      <4>5. Last(name) = NameOf(p)
        BY <4>3, LastBit DEF MethodName
      <4>6. /\ UNCHANGED index /\ Range(Described(p).doc) \subseteq Range(d)
            /\ Described(p).doc # <<>> => d # <<>>
        BY <2>2, <4>1
      <4>7. Documented(p, name)'
        BY ONLY <4>4, <4>5, <4>6, EntryDocuments
      <4>8. MethodName(p)' = MethodName(p)
        BY SameIndex
      <4>9. QED
        BY <4>3, <4>7, <4>8
    <3>4. UNCHANGED index /\ index \in Indices /\ i \in Classes
      BY <1>1, <1>2
    <3>5. \A p : MethodName(p)' = MethodName(p)
      BY SameIndex
    <3>6. QED
      BY ONLY <2>2, <3>2, <3>3, <3>4, <3>5, ClassWritten
  <2>4. \A p : NameOf(p)' = NameOf(p)
    BY SameIndex
  <2>5. ASSUME NEW p \in Functions, <<NameOf(p)>> \in made'
        PROVE  Documented(p, <<NameOf(p)>>)'
    <3>1. <<NameOf(p)>> \in made
      BY <2>5, LastBit
    <3>2. Documented(p, <<NameOf(p)>>)
      BY <1>1, <3>1 DEF Progress, WrittenInv
    <3>3. QED
      BY <2>1, <2>4, <3>2
  <2>6. ASSUME NEW q \in DOMAIN blocks, BlockDone(q)', NEW j, j = blocks[q]
        PROVE  BlockWritten(j)'
    <3>1. BlockDone(q)
      BY <1>2, <1>3, <2>6
    <3>2. BlockWritten(j)
      BY <1>1, <2>6, <3>1 DEF Progress, WrittenInv
    <3>3. QED
      BY <3>2, KeepBlockWritten
  <2>7. ASSUME NEW q \in DOMAIN blocks2, Block2Done(q)', NEW j, j = blocks2[q]
        PROVE  ClassDocumented(j)' /\ Formats(Described(MakeMethod(j)).params)
    <3>1. CASE q = pos
      BY <2>3, <2>7, <3>1
    <3>2. CASE Block2Done(q)
      BY <1>1, <2>1, <2>7, <3>2 DEF Progress, WrittenInv
    <3>3. QED
      BY <1>2, <1>3, <2>7, <3>1, <3>2
  <2>8. Functions' = Functions
        /\ \A j : ClassFile(j)' = ClassFile(j) /\ MakeMethod(j)' = MakeMethod(j)
        /\ \A p : Described(p)' = Described(p)
    BY SameIndex
  <2>9. (\A p \in Functions : <<NameOf(p)>> \in made => Documented(p, <<NameOf(p)>>))'
    BY <2>4, <2>5, <2>8
  <2>10. (\A q \in DOMAIN blocks : BlockDone(q) => BlockWritten(blocks[q]))'
    BY <2>6
  <2>11. (\A q \in DOMAIN blocks2 : Block2Done(q) =>
            ClassDocumented(blocks2[q]) /\ Formats(Described(MakeMethod(blocks2[q])).params))'
    BY <2>7, <2>8 DEF Formats
  <2>12. \A q \in DOMAIN di' : ~FunctionDone(q)' /\ ~ClassDone(q)'
    BY <1>2, <1>3
  <2>13. QED
    BY <2>9, <2>10, <2>11, <2>12 DEF WrittenInv
<1>13. QED
  BY <1>4, <1>9, <1>10, <1>11, <1>12 DEF SwigInv, Progress

\* A step of the second loop.
LEMMA WriteBlock2Inv ==
  ASSUME SwigInv, WriteBlock2
  PROVE  SwigInv'
<1>1. pc = "blocks2" /\ pos <= Len(blocks2)
  BY DEF WriteBlock2
<1>2. TypeInv /\ Progress /\ pos \in DOMAIN blocks2
  BY <1>1, Looking
<1>3. PICK i : i = blocks2[pos]
  OBVIOUS
<1>4. i \in Readable /\ NewStyle(i)
  BY <1>2, <1>3, Lists DEF Progress, Blocks2Inv
<1>5. PICK mk : mk = MakeMethod(i)
  OBVIOUS
<1>6. PICK d : d = ClassFile(i).doc \o <<"Constructor">> \o Described(mk).doc
                   \o Described(mk).params
  OBVIOUS
<1>7. PICK class : class = ClassEntries(i, d, {"make"})
  OBVIOUS
<1>8. PICK func : func = Entry(mk, <<ClassName(i), "make">>, d)
  OBVIOUS
<1>9. <<ClassName(i), "make">> \notin made
  BY <1>1, <1>2, <1>3, Block2Once
<1>10. CASE ~Formats(Described(mk).params) /\ Die
  <2>1. KillingClass(i)
    BY <1>4, <1>5, <1>10 DEF KillingClass
  <2>2. QED
    BY <1>4, <1>10, <2>1, DieInv DEF Fatal
<1>11. CASE /\ Formats(Described(mk).params)
            /\ made' = made \cup {<<ClassName(i), "make">>}
            /\ Write(class \cup func)
  <2>1. /\ UNCHANGED <<pc, index, di, blocks, blocks2>> /\ pos' = pos + 1
        /\ out' = out \cup (class \cup func)
    BY <1>11 DEF Write
  <2>2. QED
    BY <1>1, <1>2, <1>3, <1>4, <1>5, <1>6, <1>7, <1>8, <1>11, <2>1, Block2Written
<1>12. QED
  BY <1>3, <1>5, <1>6, <1>7, <1>8, <1>9, <1>10, <1>11 DEF WriteBlock2

\* A round of the last two loops: what it must do is to write or not to need to.
LEMMA LaterRound ==
  ASSUME SwigInv, pc \in {"functions", "classes"},
         UNCHANGED <<pc, index, di, blocks, blocks2, made>>, pos' = pos + 1,
         pc = "functions" => \A p \in Functions : p = di[pos] /\ NameOf(p) \notin StdNames =>
           Documented(p, <<NameOf(p)>>)',
         pc = "classes" => \A i \in Readable :
           i = di[pos][1] /\ ClassName(i) \notin BlockNames \cup StdNames =>
             ClassDocumented(i)' /\ Formats(ClassFile(i).params),
         NEW entries, out' = out \cup entries,
         \A x \in entries : x.of \in Declared(x.name),
         \A x, y \in entries : x.of = y.of => x = y,
         \A x \in out, y \in entries : x.of # y.of,
         \A x \in entries : ByFunction(x)' \/ ByClass(x)'
  PROVE  SwigInv'
<1>1. TypeInv /\ Progress /\ pos \in Nat /\ index \in Indices
  BY Looking DEF TypeInv
<1>2. DOMAIN blocks \subseteq Nat /\ DOMAIN blocks2 \subseteq Nat /\ DOMAIN di \subseteq Nat
  BY <1>1, Lists
<1>3. \A q \in Nat : /\ BlockDone(q)' <=> BlockDone(q)
                     /\ Block2Done(q)' <=> Block2Done(q)
                     /\ FunctionDone(q)' <=> FunctionDone(q) \/ (pc = "functions" /\ q = pos)
                     /\ ClassDone(q)' <=> ClassDone(q) \/ (pc = "classes" /\ q = pos)
  BY <1>1, NextRound
<1>4. TypeInv' /\ IndexInv' /\ BlocksInv' /\ Blocks2Inv'
  BY WritingRound
<1>5. NamesInv' /\ OnceInv'
  <2>1. NamesInv /\ OnceInv
    BY DEF SwigInv
  <2>2. UNCHANGED index /\ out' = out \cup entries
    OBVIOUS
  <2>3. \A x \in entries : x.of \in Declared(x.name)
    OBVIOUS
  <2>4. \A x, y \in entries : x.of = y.of => x = y
    OBVIOUS
  <2>5. \A x \in out, y \in entries : x.of = y.of => BothStyles(x.of[1])
    OBVIOUS
  <2>6. QED
    BY ONLY <2>1, <2>2, <2>3, <2>4, <2>5, WriteNames
<1>6. MadeInv'
  <2>1. MadeInv /\ UNCHANGED <<index, made>> /\ UNCHANGED <<blocks, blocks2>>
    BY <1>1 DEF Progress
  <2>2. /\ \A q \in DOMAIN blocks : BlockDone(q) => BlockDone(q)'
        /\ \A q \in DOMAIN blocks2 : Block2Done(q) => Block2Done(q)'
    BY <1>2, <1>3
  <2>3. QED
    BY ONLY <2>1, <2>2, KeepMade
<1>7. OutInv'
  <2>1. \A x \in out : (ByBlock(x) \/ ByBlock2(x) \/ ByFunction(x) \/ ByClass(x))'
    BY OldEntries
  <2>2. QED
    BY <2>1 DEF OutInv
<1>8. WrittenInv'
  <2>1. /\ \A p, name : Documented(p, name) => Documented(p, name)'
        /\ \A j : ClassDocumented(j) => ClassDocumented(j)'
    BY KeepDocumented
  <2>2. /\ Functions' = Functions /\ Readable' = Readable
        /\ \A p : NameOf(p)' = NameOf(p) /\ Described(p)' = Described(p)
        /\ \A j : /\ ClassFile(j)' = ClassFile(j) /\ MakeMethod(j)' = MakeMethod(j)
                  /\ ClassName(j)' = ClassName(j)
    BY SameIndex
  <2>3. BlockNames' = BlockNames
    BY <2>2 DEF BlockNames
  <2>4. (\A p \in Functions : <<NameOf(p)>> \in made => Documented(p, <<NameOf(p)>>))'
    BY <1>1, <2>1, <2>2 DEF Progress, WrittenInv
  <2>5. (\A q \in DOMAIN blocks : BlockDone(q) => BlockWritten(blocks[q]))'
    <3>1. \A i : BlockWritten(i) => BlockWritten(i)'
      BY KeepBlockWritten
    <3>2. QED
      BY <1>1, <1>2, <1>3, <3>1 DEF Progress, WrittenInv
  <2>6. (\A q \in DOMAIN blocks2 : Block2Done(q) =>
           ClassDocumented(blocks2[q]) /\ Formats(Described(MakeMethod(blocks2[q])).params))'
    BY <1>1, <1>2, <1>3, <2>1, <2>2 DEF Progress, WrittenInv, Formats
  <2>7. ASSUME NEW q \in DOMAIN di, FunctionDone(q)', NEW p, p = di[q], p \in Functions,
               NameOf(p) \notin StdNames
        PROVE  Documented(p, <<NameOf(p)>>)'
    <3>1. CASE FunctionDone(q)
      <4>1. Documented(p, <<NameOf(p)>>)
        BY <1>1, <2>7, <3>1 DEF Progress, WrittenInv
      <4>2. QED
        BY <2>1, <2>2, <4>1
    <3>2. CASE pc = "functions" /\ q = pos
      BY <2>7, <3>2
    <3>3. QED
      BY <1>2, <1>3, <2>7, <3>1, <3>2
  <2>8. ASSUME NEW q \in DOMAIN di, ClassDone(q)', NEW i, i = di[q][1], i \in Readable,
               ClassName(i) \notin BlockNames \cup StdNames
        PROVE  ClassDocumented(i)' /\ Formats(ClassFile(i).params)
    <3>1. CASE ClassDone(q)
      BY <1>1, <2>1, <2>8, <3>1 DEF Progress, WrittenInv
    <3>2. CASE pc = "classes" /\ q = pos
      BY <2>8, <3>2
    <3>3. QED
      BY <1>2, <1>3, <2>8, <3>1, <3>2
  <2>9. (\A q \in DOMAIN di :
           FunctionDone(q) /\ di[q] \in Functions /\ NameOf(di[q]) \notin StdNames =>
             Documented(di[q], <<NameOf(di[q])>>))'
    BY <2>2, <2>7
  <2>10. (\A q \in DOMAIN di : ClassDone(q) /\ di[q][1] \in Readable =>
            (ClassName(di[q][1]) \notin BlockNames \cup StdNames =>
               ClassDocumented(di[q][1]) /\ Formats(ClassFile(di[q][1]).params)))'
    BY <2>2, <2>3, <2>8 DEF Formats
  <2>11. QED
    BY <2>4, <2>5, <2>6, <2>9, <2>10 DEF WrittenInv
<1>9. QED
  BY <1>4, <1>5, <1>6, <1>7, <1>8 DEF SwigInv, Progress

\* Nothing in the file so far is of the function of this round.
LEMMA FunctionNotYet ==
  ASSUME SwigInv, pc = "functions", pos \in DOMAIN di, NEW f \in Functions, f = di[pos],
         <<NameOf(f)>> \notin made, NEW x \in out
  PROVE  x.of # f
<1>1. TypeInv /\ Progress /\ pos \in Nat /\ index \in Indices
  BY Looking DEF TypeInv
<1>2. /\ DOMAIN di \subseteq Nat
      /\ \A q \in DOMAIN blocks : blocks[q] \in Classes
      /\ \A q \in DOMAIN blocks2 : blocks2[q] \in Classes
  BY <1>1, Lists
<1>3. \A q \in Nat : (FunctionDone(q) <=> q < pos) /\ ~ClassDone(q)
  BY <1>1, Order
<1>4. \A q \in DOMAIN di : FunctionDone(q) => q # pos
  BY <1>1, <1>2, <1>3, SmallerRound
<1>5. \A i \in Classes : f \notin PlacesOf(i)
  BY <1>1, Places
<1>6. SUFFICES ASSUME x.of = f PROVE FALSE
  OBVIOUS
<1>7. ByBlock(x) \/ ByBlock2(x) \/ ByFunction(x)
  BY <1>1, <1>2, <1>3 DEF Progress, OutInv, ByClass
<1>8. ~ByBlock2(x)
  BY <1>2, <1>5, <1>6 DEF ByBlock2
<1>9. ~ByFunction(x)
  BY <1>1, <1>4, <1>6 DEF ByFunction, Progress, IndexInv
<1>10. x.name \in made
  BY <1>2, <1>5, <1>6, <1>7, <1>8, <1>9 DEF ByBlock
<1>11. f \in Declared(x.name)
  BY <1>6 DEF SwigInv, NamesInv
<1>12. x.name = <<NameOf(f)>>
  BY <1>1, <1>11, DeclaredFacts
<1>13. QED
  BY <1>10, <1>12

\* A round of the loop over functions.
LEMMA WriteFunctionInv ==
  ASSUME SwigInv, WriteFunction
  PROVE  SwigInv'
<1>1. pc = "functions" /\ pos <= Len(di)
  BY DEF WriteFunction
<1>2. TypeInv /\ Progress /\ pos \in Nat /\ pos \in DOMAIN di /\ index \in Indices
  BY <1>1, Looking DEF TypeInv
<1>3. PICK f : f = di[pos]
  OBVIOUS
<1>4. f \in Accessible /\ (f \in Functions <=> IsA(f, "function"))
  BY <1>2, <1>3, Lists DEF Functions
<1>5. PICK entries : entries = Entry(f, <<NameOf(f)>>, Described(f).doc)
  OBVIOUS
<1>6. pc # "classes"
  BY <1>1
<1>7. CASE (f \notin Functions \/ <<NameOf(f)>> \in made \/ NameOf(f) \in StdNames) /\ Skip
  <2>1. UNCHANGED <<pc, index, di, blocks, blocks2, made, out>> /\ pos' = pos + 1
    BY <1>7 DEF Skip
  <2>2. \A p \in Functions : p = di[pos] /\ NameOf(p) \notin StdNames =>
          Documented(p, <<NameOf(p)>>)'
    <3>1. SUFFICES ASSUME NEW p \in Functions, p = f, NameOf(p) \notin StdNames
                   PROVE  Documented(p, <<NameOf(p)>>)'
      BY <1>3
    <3>2. Documented(p, <<NameOf(p)>>)
      BY <1>2, <1>7, <3>1 DEF Progress, WrittenInv
    <3>3. \A name : Documented(p, name) => Documented(p, name)'
      BY <2>1, KeepDocumented
    <3>4. NameOf(p)' = NameOf(p)
      BY <2>1, SameIndex
    <3>5. QED
      BY <3>2, <3>3, <3>4
  <2>3. PICK none : none = {}
    OBVIOUS
  <2>4. out' = out \cup none /\ \A x \in none : FALSE
    BY <2>1, <2>3
  <2>5. QED
    BY <1>1, <1>6, <2>1, <2>2, <2>4, LaterRound
<1>8. CASE /\ f \in Functions /\ <<NameOf(f)>> \notin made /\ NameOf(f) \notin StdNames
           /\ Write(entries) /\ UNCHANGED made
  <2>1. /\ UNCHANGED <<pc, index, di, blocks, blocks2, made>> /\ pos' = pos + 1
        /\ out' = out \cup entries
    BY <1>8 DEF Write
  <2>2. \A x \in entries : x = [by |-> <<pc, pos>>, of |-> f, name |-> <<NameOf(f)>>,
                                doc |-> Described(f).doc]
    BY <1>5, EntryFacts
  <2>3. \A x \in entries : x.by = <<pc, pos>> /\ x.of = f /\ x.name = <<NameOf(f)>>
    BY <2>2
  <2>4. f \in Declared(<<NameOf(f)>>)
    BY <1>4, <1>8 DEF Declared
  <2>5. \A x \in entries : x.of \in Declared(x.name)
    BY <2>3, <2>4
  <2>6. \A x, y \in entries : x.of = y.of => x = y
    BY <2>2
  <2>7. \A x \in out, y \in entries : x.of # y.of
    BY <1>1, <1>2, <1>3, <1>8, <2>3, FunctionNotYet
  <2>8. ASSUME NEW x \in entries
        PROVE  ByFunction(x)'
    <3>1. PICK q : q = pos
      OBVIOUS
    <3>2. x.by = <<"functions", q>> /\ x.of = f /\ x.name \notin made'
      BY <1>1, <1>8, <2>1, <2>3, <3>1
    <3>3. FunctionDone(q)'
      BY <1>1, <1>2, <2>1, <3>1, NextRound
    <3>4. Functions' = Functions
      BY <2>1, SameIndex
    <3>5. q \in DOMAIN di' /\ di'[q] = f
      BY <1>2, <1>3, <2>1, <3>1
    <3>6. QED
      BY <1>8, <3>2, <3>3, <3>4, <3>5 DEF ByFunction
  <2>9. \A p \in Functions : p = di[pos] /\ NameOf(p) \notin StdNames =>
          Documented(p, <<NameOf(p)>>)'
    <3>1. SUFFICES ASSUME NEW p \in Functions, p = f
                   PROVE  Documented(p, <<NameOf(p)>>)'
      BY <1>3
    <3>2. PICK name : name = <<NameOf(p)>>
      OBVIOUS
    <3>3. PICK words : words = Described(p).doc
      OBVIOUS
    <3>4. Entry(p, name, words) \subseteq out' /\ Last(name) = NameOf(p)
      BY <1>5, <2>1, <3>1, <3>2, <3>3, LastBit
    <3>5. /\ UNCHANGED index
          /\ Range(Described(p).doc) \subseteq Range(words)
          /\ Described(p).doc # <<>> => words # <<>>
      BY <2>1, <3>3
    <3>6. Documented(p, name)'
      BY ONLY <3>4, <3>5, EntryDocuments
    <3>7. NameOf(p)' = NameOf(p)
      BY <2>1, SameIndex
    <3>8. QED
      BY <3>2, <3>6, <3>7
  <2>10. QED
    BY <1>1, <1>6, <2>1, <2>5, <2>6, <2>7, <2>8, <2>9, LaterRound
<1>9. QED
  BY <1>3, <1>4, <1>5, <1>7, <1>8 DEF WriteFunction

\* Nothing in the file so far is of the class of this round or of its methods.
LEMMA ClassNotYet ==
  ASSUME SwigInv, pc = "classes", pos \in DOMAIN di, NEW i \in Classes, i = di[pos][1],
         ClassName(i) \notin BlockNames, NEW x \in out
  PROVE  x.of[1] # i
<1>1. TypeInv /\ Progress /\ pos \in Nat /\ index \in Indices
  BY Looking DEF TypeInv
<1>2. /\ DOMAIN di \subseteq Nat
      /\ \A q \in DOMAIN blocks : blocks[q] \in Range(blocks)
      /\ \A q \in DOMAIN blocks2 : blocks2[q] \in Range(blocks2)
  BY <1>1, Lists
<1>3. \A q \in DOMAIN di : di[q][1] \in Classes => di[q] = <<di[q][1], 0>>
  BY Looking
<1>4. \A q \in Nat : ClassDone(q) <=> q < pos
  BY <1>1, Order
<1>5. \A q \in DOMAIN di : ClassDone(q) => q # pos
  BY <1>1, <1>2, <1>4, SmallerRound
<1>6. \A k : \A p \in PlacesOf(k) : p[1] = k
  BY <1>1, Places
<1>7. \A p \in Functions : p[1] \notin Classes
  BY <1>1, Places
<1>8. SUFFICES ASSUME x.of[1] = i PROVE FALSE
  OBVIOUS
<1>9. x.of \notin Functions
  BY <1>7, <1>8
<1>10. i \notin Range(blocks) /\ i \notin Range(blocks2)
  BY DEF BlockNames
<1>11. ~ByBlock(x)
  BY <1>2, <1>6, <1>8, <1>9, <1>10 DEF ByBlock
<1>12. ~ByBlock2(x)
  BY <1>2, <1>6, <1>8, <1>10 DEF ByBlock2
<1>13. ~ByFunction(x)
  BY <1>9 DEF ByFunction
<1>14. ByClass(x)
  BY <1>1, <1>11, <1>12, <1>13 DEF Progress, OutInv
<1>15. PICK q \in DOMAIN di : ClassDone(q) /\ x.of \in PlacesOf(di[q][1])
  BY <1>14 DEF ByClass
<1>16. di[q][1] = i
  BY <1>6, <1>8, <1>15
<1>17. di[q] = di[pos]
  BY <1>3, <1>16
<1>18. QED
  BY <1>1, <1>5, <1>15, <1>17 DEF Progress, IndexInv

\* A class the last loop comes to and that is no block: what is known of it.
LEMMA ClassSearched ==
  ASSUME SwigInv, pc = "classes", pos \in DOMAIN di, NEW i \in Classes, i = di[pos][1],
         ClassName(i) \notin BlockNames
  PROVE  /\ i \in Readable \/ ClassFile(i).state = "broken"
         /\ i \in Readable => ~NewStyle(i) /\ NoMake(i)
<1>1. TypeInv /\ Progress /\ pos \in Nat /\ index \in Indices
  BY Looking DEF TypeInv
<1>2. Searched(pos) /\ Searched2(pos)
  BY <1>1, Order
<1>3. ClassFile(i).state # "raises"
  BY <1>1, <1>2 DEF Progress, BlocksInv
<1>4. ClassFile(i).state \in {"ok", "broken", "raises"}
  BY <1>1, IndexTypes DEF Classes
<1>5. i \notin Range(blocks2) /\ i \notin Range(blocks)
  BY DEF BlockNames
<1>6. i \in Readable => ~NewStyle(i)
  BY <1>1, <1>2, <1>5 DEF Progress, Blocks2Inv
<1>7. i \in Readable => ~IsBlock(i)
  BY <1>1, <1>2, <1>5 DEF Progress, BlocksInv
<1>8. QED
  BY <1>3, <1>4, <1>6, <1>7 DEF Readable, IsBlock

\* A round of the loop over classes that writes, and any round of it.
LEMMA ClassRoundWritten ==
  ASSUME SwigInv, pc = "classes", pos \in DOMAIN di, NEW i \in Classes, i = di[pos][1],
         ClassName(i) \notin BlockNames, Formats(ClassFile(i).params),
         UNCHANGED <<pc, index, di, blocks, blocks2, made>>, pos' = pos + 1,
         NEW d, d = ClassFile(i).doc \o ClassFile(i).params,
         NEW none, none = {}, NEW entries, entries = ClassEntries(i, d, none),
         out' = out \cup entries
  PROVE  SwigInv'
<1>1. TypeInv /\ Progress /\ pos \in Nat /\ index \in Indices
  BY Looking DEF TypeInv
<1>2. pc # "functions"
  OBVIOUS
<1>3. \A x \in entries :
        /\ x.of \in PlacesOf(i) /\ x.by = <<pc, pos>> /\ x.name = FullName(x.of)
        /\ x = [by |-> <<pc, pos>>, of |-> x.of, name |-> FullName(x.of),
                doc |-> IF x.of[2] = 0 THEN d ELSE Described(x.of).doc]
  <2>1. index \in Indices /\ i \in Classes /\ entries = ClassEntries(i, d, none)
    BY <1>1
  <2>2. QED
    BY ONLY <2>1, ClassEntriesFacts
<1>4. \A x \in entries : x.of \in Declared(x.name) /\ x.of[1] = i
  BY <1>1, <1>3, ClassDeclares
<1>5. \A x, y \in entries : x.of = y.of => x = y
  BY ONLY <1>3
<1>6. \A x \in out, y \in entries : x.of # y.of
  BY <1>4, ClassNotYet
<1>7. ASSUME NEW x \in entries
      PROVE  ByClass(x)'
  <2>1. PICK q : q = pos
    OBVIOUS
  <2>2. x.by = <<"classes", q>> /\ x.of \in PlacesOf(i)
    BY <1>3, <2>1
  <2>3. ClassDone(q)'
    BY <1>1, <2>1, NextRound
  <2>4. /\ Classes' = Classes /\ PlacesOf(i)' = PlacesOf(i)
        /\ \A k : ClassName(k)' = ClassName(k)
    BY SameIndex
  <2>5. BlockNames' = BlockNames
    BY <2>4 DEF BlockNames
  <2>6. q \in DOMAIN di' /\ di'[q][1] = i
    BY <2>1
  <2>7. QED
    BY <2>2, <2>3, <2>4, <2>5, <2>6 DEF ByClass
<1>8. ClassDocumented(i)'
  <2>1. ClassFile(i).doc \in Seq(STRING) /\ ClassFile(i).params \in Seq(STRING)
    BY <1>1, DocWords
  <2>2. Range(ClassFile(i).doc) \subseteq Range(d) /\ (ClassFile(i).doc # <<>> => d # <<>>)
    BY <2>1, WordsConcat
  <2>3. ClassEntries(i, d, none) \subseteq out' /\ \A p \in Methods(i) : NameOf(p) \notin none
    OBVIOUS
  <2>4. UNCHANGED index /\ index \in Indices /\ i \in Classes
    BY <1>1
  <2>5. QED
    BY ONLY <2>2, <2>3, <2>4, ClassWritten
<1>9. \A k \in Readable : k = di[pos][1] /\ ClassName(k) \notin BlockNames \cup StdNames =>
        ClassDocumented(k)' /\ Formats(ClassFile(k).params)
  BY <1>8
<1>10. /\ SwigInv /\ pc \in {"functions", "classes"}
       /\ UNCHANGED <<pc, index, di, blocks, blocks2, made>> /\ pos' = pos + 1
       /\ out' = out \cup entries
  OBVIOUS
<1>11. /\ \A x \in entries : x.of \in Declared(x.name)
       /\ \A x \in entries : ByFunction(x)' \/ ByClass(x)'
  BY <1>4, <1>7
<1>12. QED
  BY ONLY <1>2, <1>5, <1>6, <1>9, <1>10, <1>11, LaterRound

\* A step of the last loop.
LEMMA WriteClassInv ==
  ASSUME SwigInv, WriteClass
  PROVE  SwigInv'
<1>1. pc = "classes" /\ pos <= Len(di)
  BY DEF WriteClass
<1>2. /\ TypeInv /\ Progress /\ pos \in Nat /\ pos \in DOMAIN di /\ index \in Indices
      /\ \A q \in DOMAIN di : IsA(di[q], "class") <=> di[q][1] \in Classes
  BY <1>1, Looking DEF TypeInv
<1>3. PICK i : i = di[pos][1]
  OBVIOUS
<1>4. IsA(di[pos], "class") <=> i \in Classes
  BY <1>2, <1>3
<1>5. PICK d : d = ClassFile(i).doc \o ClassFile(i).params
  OBVIOUS
<1>6. PICK none : none = {}
  OBVIOUS
<1>7. PICK entries : entries = ClassEntries(i, d, none)
  OBVIOUS
<1>8. CASE /\ \/ i \notin Classes \/ ClassName(i) \in BlockNames \cup StdNames
              \/ ClassFile(i).state = "broken"
           /\ Skip
  <2>1. UNCHANGED <<pc, index, di, blocks, blocks2, made, out>> /\ pos' = pos + 1
    BY <1>8 DEF Skip
  <2>2. i \in Readable => i \in Classes /\ ClassFile(i).state # "broken"
    BY DEF Readable
  <2>3. \A k \in Readable : k = di[pos][1] /\ ClassName(k) \notin BlockNames \cup StdNames => FALSE
    BY <1>3, <1>8, <2>2
  <2>4. out' = out \cup none /\ \A x \in none : FALSE
    BY <1>6, <2>1
  <2>5. pc # "functions"
    BY <1>1
  <2>6. QED
    BY <1>1, <2>1, <2>3, <2>4, <2>5, LaterRound
<1>9. CASE /\ i \in Classes /\ ClassName(i) \notin BlockNames \cup StdNames
           /\ ClassFile(i).state # "broken" /\ ~Formats(ClassFile(i).params) /\ Die
  <2>1. i \in Readable /\ ~NewStyle(i) /\ NoMake(i)
    BY <1>1, <1>2, <1>3, <1>9, ClassSearched
  <2>2. KillingClass(i)
    BY <1>9, <2>1 DEF KillingClass
  <2>3. QED
    BY <1>9, <2>1, <2>2, DieInv DEF Fatal
<1>10. CASE /\ i \in Classes /\ ClassName(i) \notin BlockNames
            /\ Formats(ClassFile(i).params) /\ Write(entries) /\ UNCHANGED made
  <2>1. /\ UNCHANGED <<pc, index, di, blocks, blocks2, made>> /\ pos' = pos + 1
        /\ out' = out \cup entries
    BY <1>10 DEF Write
  <2>2. QED
    BY <1>1, <1>2, <1>3, <1>5, <1>6, <1>7, <1>10, <2>1, ClassRoundWritten
<1>11. QED
  BY <1>3, <1>4, <1>5, <1>6, <1>7, <1>8, <1>9, <1>10 DEF WriteClass

-----------------------------------------------------------------------------
(* The theorems *)

\* The script starts in the invariant, and keeps it while it does nothing.
LEMMA InitInv ==
  ASSUME SwigInit
  PROVE  SwigInv
<1>1. pc = "index" /\ pos = 1 /\ index \in Indices /\ di = <<>> /\ blocks = <<>>
      /\ blocks2 = <<>> /\ made = {} /\ out = {}
  BY DEF SwigInit
<1>2. pos \in Nat \ {0}
  BY <1>1
<1>3. TypeInv
  BY <1>1, <1>2, EmptySeq DEF TypeInv
<1>4. DOMAIN di = {} /\ Range(di) = {} /\ DOMAIN blocks = {} /\ Range(blocks) = {}
      /\ DOMAIN blocks2 = {} /\ Range(blocks2) = {}
  BY <1>1, NoElements
<1>5. \A i \in DOMAIN index : ~Read(i)
  <2>1. \A i \in DOMAIN index : i \in 1..Len(index) /\ Len(index) \in Nat
    BY <1>1, IndexTypes
  <2>2. \A n \in Nat : \A i \in 1..n : i \in Nat /\ ~(i < 1)
    OBVIOUS
  <2>3. \A i \in DOMAIN index : i \in Nat /\ ~(i < pos)
    BY ONLY <1>1, <2>1, <2>2
  <2>4. QED
    BY <1>1, <1>2, <2>3, Order
<1>6. IndexInv
  BY <1>1, <1>4, <1>5, Places DEF IndexInv
<1>7. BlocksInv /\ Blocks2Inv
  BY <1>1, <1>4 DEF BlocksInv, Blocks2Inv, Found
<1>8. MadeInv /\ OutInv
  BY <1>1 DEF MadeInv, OutInv
<1>9. WrittenInv
  BY <1>1, <1>4 DEF WrittenInv
<1>10. NamesInv /\ OnceInv
  BY <1>1 DEF NamesInv, OnceInv
<1>11. QED
  BY <1>1, <1>3, <1>6, <1>7, <1>8, <1>9, <1>10 DEF SwigInv, Progress

\* A step that changes nothing.
LEMMA StutterInv ==
  ASSUME SwigInv, UNCHANGED swigVars
  PROVE  SwigInv'
<1>1. UNCHANGED <<pc, index, pos, di, blocks, blocks2, made, out>>
  BY DEF swigVars
<1>2. CASE pc = "died"
  <2>1. pos' \in Nat \ {0} /\ pc' \in {"index", "died"} \cup AfterIndex
    BY <1>1 DEF SwigInv, TypeInv
  <2>2. TypeInv'
    BY <1>1, <2>1, KeepTypes DEF SwigInv
  <2>3. NamesInv' /\ OnceInv'
    BY <1>1, SameOut DEF SwigInv
  <2>4. Fatal'
    BY <1>1, <1>2, SameIndex DEF SwigInv
  <2>5. QED
    BY <1>1, <1>2, <2>2, <2>3, <2>4 DEF SwigInv
<1>3. CASE pc # "died"
  <2>1. TypeInv /\ NamesInv /\ OnceInv /\ Progress
    BY <1>3 DEF SwigInv
  <2>2. \A q : /\ Read(q)' = Read(q) /\ Searched(q)' = Searched(q)
              /\ Searched2(q)' = Searched2(q) /\ BlockDone(q)' = BlockDone(q)
              /\ Block2Done(q)' = Block2Done(q) /\ FunctionDone(q)' = FunctionDone(q)
              /\ ClassDone(q)' = ClassDone(q)
    BY <1>1 DEF Read, Searched, Searched2, BlockDone, Block2Done, FunctionDone, ClassDone, Done
  <2>3. pos' \in Nat \ {0} /\ pc' \in {"index", "died"} \cup AfterIndex
    BY <1>1, <2>1 DEF TypeInv
  <2>4. TypeInv'
    BY <1>1, <2>1, <2>3, KeepTypes
  <2>5. NamesInv' /\ OnceInv'
    BY <1>1, <2>1, SameOut
  <2>6. IndexInv'
    BY <1>1, <2>1, <2>2, SameIndex DEF IndexInv, Progress
  <2>7. BlocksInv'
    BY <1>1, <2>1, <2>2, SameIndex DEF BlocksInv, Found, Progress
  <2>8. Blocks2Inv'
    BY <1>1, <2>1, <2>2, SameIndex DEF Blocks2Inv, Found, Progress
  <2>9. MadeInv'
    BY <1>1, <2>1, <2>2, KeepMade DEF Progress
  <2>10. OutInv'
    <3>1. \A x \in out : ByBlock(x) \/ ByBlock2(x) \/ ByFunction(x) \/ ByClass(x)
      BY <2>1 DEF Progress, OutInv
    <3>2. \A x \in out : (ByBlock(x) \/ ByBlock2(x) \/ ByFunction(x) \/ ByClass(x))'
      BY <1>1, <2>2, <3>1, KeepEntry
    <3>3. QED
      BY <1>1, <3>2 DEF OutInv
  <2>11. WrittenInv'
    <3>1. DOMAIN di \subseteq Nat /\ DOMAIN blocks \subseteq Nat /\ DOMAIN blocks2 \subseteq Nat
      BY <2>1, Lists
    <3>2. QED
      BY <1>1, <2>1, <2>2, <3>1, KeepWritten DEF Progress
  <2>12. QED
    BY <1>1, <1>3, <2>4, <2>5, <2>6, <2>7, <2>8, <2>9, <2>10, <2>11 DEF SwigInv, Progress
<1>4. QED
  BY <1>2, <1>3

\* The invariant holds: what the script has read, found and written so far.
THEOREM SwigInvariant == SwigSpec => []SwigInv
<1>1. SwigInit => SwigInv
  BY InitInv
<1>2. SwigInv /\ [SwigNext]_swigVars => SwigInv'
  <2> SUFFICES ASSUME SwigInv, [SwigNext]_swigVars
               PROVE  SwigInv'
    OBVIOUS
  <2>1. CASE ReadIndex
    BY <2>1, ReadIndexInv
  <2>2. CASE FindBlock
    BY <2>2, FindBlockInv
  <2>3. CASE FindBlock2
    BY <2>3, FindBlock2Inv
  <2>4. CASE WriteBlock
    BY <2>4, WriteBlockInv
  <2>5. CASE WriteBlock2
    BY <2>5, WriteBlock2Inv
  <2>6. CASE WriteFunction
    BY <2>6, WriteFunctionInv
  <2>7. CASE WriteClass
    BY <2>7, WriteClassInv
  <2>8. CASE NextPhase
    BY <2>8, PhaseInv
  <2>9. CASE UNCHANGED swigVars
    BY <2>9, StutterInv
  <2>10. QED
    BY <2>1, <2>2, <2>3, <2>4, <2>5, <2>6, <2>7, <2>8, <2>9 DEF SwigNext
<1>3. QED
  BY <1>1, <1>2, PTL DEF SwigSpec

\* A script that has ended: every walk has passed every position.
LEMMA Ended ==
  ASSUME SwigInv, pc = "written"
  PROVE  /\ TypeInv /\ Progress /\ index \in Indices /\ Range(di) = Accessible
         /\ \A i \in DOMAIN index : Read(i)
         /\ \A q \in DOMAIN di : Searched(q) /\ Searched2(q) /\ FunctionDone(q) /\ ClassDone(q)
         /\ \A q \in DOMAIN blocks : BlockDone(q)
         /\ \A q \in DOMAIN blocks2 : Block2Done(q)
         /\ \A i \in Classes : \E q \in DOMAIN di : di[q][1] = i
<1>1. /\ TypeInv /\ Progress /\ index \in Indices /\ Range(di) = Accessible /\ pos \in Nat
      /\ \A i \in Classes : \E q \in DOMAIN di : di[q][1] = i
  BY Looking DEF TypeInv
<1>2. /\ DOMAIN index \subseteq Nat /\ DOMAIN di \subseteq Nat
      /\ DOMAIN blocks \subseteq Nat /\ DOMAIN blocks2 \subseteq Nat
  BY <1>1, IndexTypes, Lists
<1>3. \A q \in Nat : /\ Read(q) /\ Searched(q) /\ Searched2(q) /\ BlockDone(q) /\ Block2Done(q)
                     /\ FunctionDone(q) /\ ClassDone(q)
  BY <1>1, Order
<1>4. QED
  BY <1>1, <1>2, <1>3

\* A readable class of an ended script: a block that was written or passed over,
\* or a class the last loop wrote.
LEMMA EndedClass ==
  ASSUME SwigInv, pc = "written", NEW i \in Readable
  PROVE  /\ i \in Classes
         /\ ~FriendMake(i) => ~SeveralMakes(i)
         /\ IsBlock(i) =>
              /\ i \in Range(blocks) /\ OneMake(i)
              /\ OldStyle(i) => /\ ClassDocumented(i) /\ ~SeveralHeaders(i)
                                /\ Formats(ClassFile(i).params)
         /\ NewStyle(i) =>
              /\ i \in Range(blocks2) /\ ClassDocumented(i)
              /\ Formats(Described(MakeMethod(i)).params)
         /\ ~IsBlock(i) /\ ~NewStyle(i) /\ ClassName(i) \notin StdNames =>
              ClassDocumented(i) /\ Formats(ClassFile(i).params)
<1>1. /\ TypeInv /\ Progress /\ index \in Indices
      /\ \A q \in DOMAIN di : Searched(q) /\ Searched2(q) /\ ClassDone(q)
      /\ \A q \in DOMAIN blocks : BlockDone(q)
      /\ \A q \in DOMAIN blocks2 : Block2Done(q)
  BY Ended
<1>2. i \in Classes
  BY DEF Readable
<1>3. PICK q \in DOMAIN di : di[q][1] = i
  BY <1>2, Ended
<1>4. /\ ~FriendMake(i) => ~SeveralMakes(i)
      /\ IsBlock(i) => i \in Range(blocks)
  BY <1>1, <1>2, <1>3 DEF Progress, BlocksInv
<1>5. NewStyle(i) => i \in Range(blocks2)
  BY <1>1, <1>3 DEF Progress, Blocks2Inv
<1>6. ASSUME i \in Range(blocks)
      PROVE  /\ OneMake(i)
             /\ OldStyle(i) => /\ ClassDocumented(i) /\ ~SeveralHeaders(i)
                               /\ Formats(ClassFile(i).params)
  <2>1. PICK a \in DOMAIN blocks : blocks[a] = i
    BY <1>6 DEF Range
  <2>2. BlockWritten(i)
    BY <1>1, <2>1 DEF Progress, WrittenInv
  <2>3. QED
    BY <2>2 DEF BlockWritten
<1>7. ASSUME i \in Range(blocks2)
      PROVE  ClassDocumented(i) /\ Formats(Described(MakeMethod(i)).params)
  <2>1. PICK a \in DOMAIN blocks2 : blocks2[a] = i
    BY <1>7 DEF Range
  <2>2. QED
    BY <1>1, <2>1 DEF Progress, WrittenInv
<1>8. ASSUME ~IsBlock(i), ~NewStyle(i), ClassName(i) \notin StdNames
      PROVE  ClassDocumented(i) /\ Formats(ClassFile(i).params)
  <2>1. ASSUME NEW k \in Range(blocks) \cup Range(blocks2), ClassName(k) = ClassName(i)
        PROVE  FALSE
    <3>1. k \in Classes /\ (IsBlock(k) \/ NewStyle(k))
      BY <1>1, <2>1, Lists DEF Progress, BlocksInv, Blocks2Inv
    <3>2. k = i
      BY <1>1, <1>2, <2>1, <3>1, IndexTypes
    <3>3. QED
      BY <1>8, <3>1, <3>2
  <2>2. ClassName(i) \notin BlockNames
    BY <2>1 DEF BlockNames
  <2>3. QED
    BY <1>1, <1>3, <1>8, <2>2 DEF Progress, WrittenInv
<1>9. QED
  BY <1>2, <1>4, <1>5, <1>6, <1>7, <1>8

\* DiesOnlyFor holds: the script dies of a fatal input only, and an input that
\* is fatal it never survives to write its file.
THEOREM DeathExplained == SwigSpec => []DiesOnlyFor
<1>1. ASSUME SwigInv PROVE DiesOnlyFor
  <2>1. pc = "died" => Fatal
    BY <1>1 DEF SwigInv
  <2>2. ASSUME pc = "written" PROVE ~Fatal
    <3>1. ASSUME NEW i \in DOMAIN index
          PROVE  Convertible(index[i].kind) /\ (Flattened(i) => ClassFile(i).state = "ok")
      BY <1>1, <2>2, Ended DEF Progress, IndexInv
    <3>2. ASSUME NEW i \in Classes PROVE ClassFile(i).state # "raises"
      <4>1. PICK q \in DOMAIN di : di[q][1] = i /\ Searched(q)
        BY <1>1, <2>2, Ended
      <4>2. QED
        BY <1>1, <2>2, <4>1, Ended DEF Progress, BlocksInv
    <3>3. ASSUME NEW i \in Readable PROVE ~KillingClass(i)
      <4>1. /\ ~FriendMake(i) => ~SeveralMakes(i)
            /\ IsBlock(i) => OneMake(i)
            /\ IsBlock(i) /\ OldStyle(i) => ~SeveralHeaders(i) /\ Formats(ClassFile(i).params)
            /\ NewStyle(i) => Formats(Described(MakeMethod(i)).params)
            /\ ~IsBlock(i) /\ ~NewStyle(i) /\ ClassName(i) \notin StdNames =>
                 Formats(ClassFile(i).params)
        BY <1>1, <2>2, EndedClass
      <4>2. OneMake(i) <=> ~NoMake(i) /\ ~SeveralMakes(i)
        BY DEF OneMake, Unique, NoMake, SeveralMakes
      <4>3. IsBlock(i) <=> FriendMake(i) \/ ~NoMake(i)
        BY DEF IsBlock
      <4>4. QED
        BY <4>1, <4>2, <4>3 DEF KillingClass, OldStyle
    <3>4. QED
      BY <3>1, <3>2, <3>3 DEF Fatal
  <2>3. QED
    BY <2>1, <2>2 DEF DiesOnlyFor
<1>2. QED
  BY <1>1, SwigInvariant, PTL

\* Complete holds: a finished file has every description it should have.
THEOREM NothingLost == SwigSpec => []Complete
<1>1. ASSUME SwigInv PROVE Complete
  <2>1. SUFFICES ASSUME pc = "written"
                 PROVE  /\ \A p \in Functions : NameOf(p) \notin StdNames =>
                             Documented(p, <<NameOf(p)>>)
                        /\ \A i \in Readable :
                             ClassName(i) \notin StdNames /\ (PassedOver(i) => NewStyle(i)) =>
                             /\ Documented(<<i, 0>>, <<ClassName(i)>>)
                             /\ \A p \in Methods(i) : Documented(p, MethodName(p))
    BY DEF Complete
  <2>2. ASSUME NEW p \in Functions, NameOf(p) \notin StdNames
        PROVE  Documented(p, <<NameOf(p)>>)
    <3>1. p \in Range(di)
      BY <1>1, <2>1, Ended DEF Functions
    <3>2. PICK q \in DOMAIN di : di[q] = p
      BY <3>1 DEF Range
    <3>3. QED
      BY <1>1, <2>1, <2>2, <3>2, Ended DEF Progress, WrittenInv
  <2>3. ASSUME NEW i \in Readable, ClassName(i) \notin StdNames, PassedOver(i) => NewStyle(i)
        PROVE  ClassDocumented(i)
    BY <1>1, <2>1, <2>3, EndedClass DEF OldStyle
  <2>4. QED
    BY <2>2, <2>3 DEF ClassDocumented
<1>2. QED
  BY <1>1, SwigInvariant, PTL

\* WrittenOnce holds: a name is written twice only if it is declared twice or
\* its class is a block of both styles.
THEOREM TwiceExplained == SwigSpec => []WrittenOnce
<1>1. ASSUME SwigInv PROVE WrittenOnce
  <2>1. SUFFICES ASSUME NEW x \in out, NEW y \in out, x # y, x.name = y.name
                 PROVE  \/ \E p, q \in Declared(x.name) : p # q
                        \/ \E i \in Classes : BothStyles(i) /\ ClassName(i) = x.name[1]
    BY DEF WrittenOnce
  <2>2. x.of \in Declared(x.name) /\ y.of \in Declared(x.name)
    BY <1>1, <2>1 DEF SwigInv, NamesInv
  <2>3. CASE x.of = y.of
    <3>1. BothStyles(x.of[1])
      BY <1>1, <2>1, <2>3 DEF SwigInv, OnceInv
    <3>2. x.of[1] \in Classes
      BY <3>1 DEF BothStyles, Readable
    <3>3. index \in Indices
      BY <1>1 DEF SwigInv, TypeInv
    <3>4. ClassName(x.of[1]) = x.name[1]
      BY <2>2, <3>2, <3>3, DeclaredFacts
    <3>5. QED
      BY <3>1, <3>2, <3>4
  <2>4. CASE x.of # y.of
    BY <2>2, <2>4
  <2>5. QED
    BY <2>3, <2>4
<1>2. QED
  BY <1>1, SwigInvariant, PTL
=============================================================================
