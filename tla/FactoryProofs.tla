----------------------------- MODULE FactoryProofs -----------------------------
(***************************************************************************)
(* Theorems about BehaviorTreeFactory and its parser: where relative paths *)
(* lead, which nodes may have the same path, and that a tree that could be *)
(* created can be created again.                                           *)
(***************************************************************************)
EXTENDS Factory, SequenceTheorems, TLAPS

-------------------------------------------------------------------------------
(* Types                                                                   *)

Names == {Element[e].name : e \in DOMAIN Element} \cup {Element[e].type : e \in DOMAIN Element}
Types == {Element[e].type : e \in DOMAIN Element} \cup {r.type : r \in Rules}
EntryTypes == {"none", "any"} \cup UNION {{p.type : p \in Element[e].ports} : e \in DOMAIN Element}

Uid == 0 .. UidRange - 1
PathLabel == [name : Names, uid : Uid]
Opened == [doc : DOMAIN Document, dir : Directory, previous : Directory, next : Nat \ {0}]
Home == [board : Nat \ {0}, key : Key]
Item == [elem : DOMAIN Element, subtree : Nat \ {0}, prefix : Seq(PathLabel), home : [Key -> Home]]
Created == [subtree : Nat \ {0}, uid : Uid, type : Types, path : Seq(PathLabel)]
Board == [Key -> EntryTypes]

ParserOK ==
    /\ path \in Directory /\ loading \in Seq(Opened)
    /\ call.pc = "load" => loading # <<>>
    /\ \A id \in DOMAIN treeRoots : treeRoots[id] \in DOMAIN Element
    /\ \A f \in DOMAIN rules : rules[f] \in Types

TreeOK ==
    /\ entries \in Board
    /\ pending \in Seq(Item)
    /\ tree \in [nodes : Seq(Created), uid : Uid, boards : Seq(Board)]
    /\ call.pc = "create" => Len(tree.boards) >= 1 /\ tree.boards[1] = entries
    /\ \A i \in 1 .. Len(pending) : pending[i].subtree <= Len(tree.boards)
    /\ \A i \in 1 .. Len(tree.nodes) : tree.nodes[i].subtree <= Len(tree.boards)

FactoryTypeOK ==
    /\ call = [pc |-> call.pc, id |-> call.id, end |-> call.end]
    /\ call.pc \in {"rest", "load", "create"}
    /\ ParserOK /\ TreeOK

-------------------------------------------------------------------------------
(* Where relative paths lead                                               *)

\* The documents being loaded go on in the directory they are in.
PathsInv ==
    /\ call.pc = "load" => path = Top.dir
    /\ \A i \in 1 .. Len(loading) - 1 : loading[i + 1].previous = loading[i].dir

-------------------------------------------------------------------------------
(* UIDs and paths                                                          *)

Named(label) == label.uid = 0 /\ \E e \in DOMAIN Element : Element[e].name = label.name

\* The UIDs are the numbers of the nodes, as long as there are enough of them.
UidsInv ==
    /\ tree.uid = Len(tree.nodes)
    /\ \A i \in 1 .. Len(tree.nodes) : tree.nodes[i].uid = i

\* The label of a node is a name of the document, or has the UID of the node.
LabelsInv ==
    \A i \in 1 .. Len(tree.nodes) :
        LET labels == tree.nodes[i].path
        IN  /\ Len(labels) >= 1
            /\ labels[Len(labels)].uid \in {0, tree.nodes[i].uid}
            /\ labels[Len(labels)].uid = 0 => Named(labels[Len(labels)])

\* Where a node or an element to visit is: the SubTree, and the labels of the SubTrees
\* down to it.
Places ==
    {[subtree |-> pending[i].subtree, prefix |-> pending[i].prefix] : i \in 1 .. Len(pending)}
    \cup {[subtree |-> tree.nodes[i].subtree,
           prefix |-> SubSeq(tree.nodes[i].path, 1, Len(tree.nodes[i].path) - 1)] :
             i \in 1 .. Len(tree.nodes)}

Label0(place) == place.prefix[Len(place.prefix)]

\* The last label of a SubTree is a name of the document, or has the UID of its SubTreeNode.
PlaceOK(p) ==
    /\ p.subtree = 1 <=> p.prefix = <<>>
    /\ p.subtree # 1 =>
          /\ Label0(p).uid = 0 => Named(Label0(p))
          /\ Label0(p).uid <= Len(tree.nodes)

PlacesInv ==
    /\ \A p \in Places : PlaceOK(p)
    /\ \A p, q \in Places :
          p.subtree # 1 /\ q.subtree # 1 /\ Label0(p) = Label0(q) /\ Label0(p).uid # 0 =>
              p.subtree = q.subtree

UniqueInv == Len(tree.nodes) < UidRange => UidsInv /\ LabelsInv /\ PlacesInv

-------------------------------------------------------------------------------
(* One node                                                                *)

First == Head(pending)
Elem == Element[First.elem]
AllFit == Known(Elem) /\ \A b \in DOMAIN tree.boards :
                           \A p \in PortsOn(b, Elem, First) : Fits(tree.boards[b], p)
Declared == [b \in DOMAIN tree.boards |->
               IF AllFit THEN Declare(tree.boards[b], PortsOn(b, Elem, First)) ELSE tree.boards[b]]
NextUid == (tree.uid + 1) % UidRange
NewNode == [subtree |-> First.subtree, uid |-> NextUid, type |-> BuiltType(Elem),
            path |-> Append(First.prefix, Label(Elem, NextUid))]
SubRoot == [elem |-> treeRoots[Elem.type], subtree |-> Len(tree.boards) + 1,
            prefix |-> Append(First.prefix, SubtreeLabel(Elem, NextUid)),
            home |-> SubtreeHome(Elem, First.home, Len(tree.boards) + 1)]
NewItems == IF Elem.tag = "SubTree" THEN <<SubRoot>> ELSE Items(Elem, First)

\* The node is built, and what is below it comes next.
CanBuild ==
    /\ AllFit /\ (Elem.tag # "SubTree" => BuiltType(Elem) \in builders \cup {"TestNode"})
    /\ Expandable(Elem)

Built ==
    /\ CanBuild
    /\ tree' = [nodes |-> Append(tree.nodes, NewNode), uid |-> NextUid,
                boards |-> Declared \o
                    IF Elem.tag = "SubTree" THEN <<SubtreeBoard(Elem)>> ELSE <<>>]
    /\ pending' = NewItems \o Tail(pending)
    /\ UNCHANGED <<call, loading>>

\* A node is built, or the call ends.
LEMMA CreateNodeCases ==
    ASSUME CreateNode
    PROVE  /\ call.pc = "create" /\ pending # <<>>
           /\ entries' = Declared[1]
           /\ Built \/ (Throw /\ ~CanBuild)
           /\ UNCHANGED <<builders, rules, parserVars, repeatable, changes>>
BY DEF CreateNode, Built, CanBuild, First, Elem, AllFit, Declared, NextUid, NewNode, SubRoot,
       NewItems

\* The port of a node, if it has one, where it leads.
LEMMA PortsOnOK ==
    ASSUME NEW e \in DOMAIN Element, NEW item \in Item, NEW b
    PROVE  /\ \A p \in PortsOn(b, Element[e], item) :
                 p.key \in Key /\ p.type \in EntryTypes /\ p.type # "none"
           /\ \A p, q \in PortsOn(b, Element[e], item) : p = q
<1>1. \A q \in Element[e].ports :
         q.key \in Key /\ q.type \in EntryTypes /\ q.type # "none"
  BY FactoryAssumption DEF EntryTypes, Key
<1>2. item.home \in [Key -> Home]
  BY DEF Item
<1>3. \A q \in Element[e].ports : item.home[q.key].key \in Key
  BY <1>1, <1>2 DEF Home
<1>4. \A p, q \in Element[e].ports : p = q
  BY FactoryAssumption
<1>. QED
  BY <1>1, <1>3, <1>4 DEF PortsOn

\* Declaring keeps the entries there are.
LEMMA DeclareOK ==
    ASSUME NEW board \in Board, NEW ports,
           \A p \in ports : p.key \in Key /\ p.type \in EntryTypes,
           \A p, q \in ports : p = q
    PROVE  /\ Declare(board, ports) \in Board
           /\ \A k \in Key : board[k] # "none" => Declare(board, ports)[k] = board[k]
           /\ \A p \in ports : board[p.key] = "none" => Declare(board, ports)[p.key] = p.type
<1>2. ASSUME NEW k \in Key
      PROVE  Declare(board, ports)[k] \in EntryTypes
  <2>1. board[k] \in EntryTypes
    BY DEF Board
  <2>2. CASE board[k] = "none" /\ \E p \in ports : p.key = k
    <3>1. (CHOOSE p \in ports : p.key = k) \in ports
      BY <2>2
    <3>. QED
      BY <2>2, <3>1 DEF Declare
  <2>. QED
    BY <2>1, <2>2 DEF Declare
<1>3. Declare(board, ports) \in Board
  <2>1. Declare(board, ports) = [k \in Key |-> Declare(board, ports)[k]]
    BY DEF Declare
  <2>. QED
    BY <1>2, <2>1 DEF Board
<1>4. ASSUME NEW p \in ports, board[p.key] = "none"
      PROVE  Declare(board, ports)[p.key] = p.type
  <2>1. \A q \in ports : q = p
    OBVIOUS
  <2>2. (CHOOSE q \in ports : q.key = p.key) = p
    BY <2>1
  <2>. QED
    BY <1>4, <2>2 DEF Declare
<1>5. \A k \in Key : board[k] # "none" => Declare(board, ports)[k] = board[k]
  BY DEF Declare
<1>. QED
  BY <1>3, <1>4, <1>5

\* What a SubTree adds: its board, and where its keys lead.
LEMMA SubtreeOK ==
    ASSUME NEW e \in DOMAIN Element, NEW outer \in [Key -> Home], NEW n \in Nat \ {0}
    PROVE  /\ SubtreeBoard(Element[e]) \in Board
           /\ OwnHome(n) \in [Key -> Home] /\ SubtreeHome(Element[e], outer, n) \in [Key -> Home]
<1>1. SubtreeBoard(Element[e]) \in Board
  BY DEF SubtreeBoard, Board, EntryTypes
<1>2. OwnHome(n) \in [Key -> Home]
  BY DEF OwnHome, Home
<1>3. \A k \in DOMAIN Element[e].remaps : Element[e].remaps[k] \in Key
  BY FactoryAssumption
<1>. QED
  BY <1>1, <1>2, <1>3 DEF SubtreeHome

\* A label is made of a name of the document, or has the UID.
LEMMA LabelsOK ==
    ASSUME NEW e \in DOMAIN Element, NEW uid \in Uid
    PROVE  /\ Label(Element[e], uid) \in PathLabel /\ SubtreeLabel(Element[e], uid) \in PathLabel
           /\ Label(Element[e], uid).uid \in {0, uid}
           /\ SubtreeLabel(Element[e], uid).uid \in {0, uid}
           /\ uid # 0 =>
                 /\ Label(Element[e], uid).uid = 0 => Named(Label(Element[e], uid))
                 /\ SubtreeLabel(Element[e], uid).uid = 0 => Named(SubtreeLabel(Element[e], uid))
<1>1. Element[e].name \in Names /\ Element[e].type \in Names
  BY DEF Names
<1>2. 0 \in Uid
  BY FactoryAssumption DEF Uid
<1>. QED
  BY <1>1, <1>2 DEF Label, SubtreeLabel, PathLabel, Named

\* What there is to do first.
LEMMA FirstOK ==
    ASSUME FactoryTypeOK, call.pc = "create", pending # <<>>
    PROVE  /\ First \in Item /\ First = pending[1] /\ First.elem \in DOMAIN Element
           /\ First.subtree \in 1 .. Len(tree.boards) /\ First.prefix \in Seq(PathLabel)
           /\ First.home \in [Key -> Home] /\ NextUid \in Uid
           /\ Declared \in Seq(Board) /\ Len(Declared) = Len(tree.boards)
           /\ \A b \in 1 .. Len(tree.boards) :
                Declared[b] = IF AllFit THEN Declare(tree.boards[b], PortsOn(b, Elem, First))
                                        ELSE tree.boards[b]
           /\ Declared[1] \in Board
           /\ BuiltType(Elem) \in Types /\ NewNode \in Created
           /\ Tail(pending) \in Seq(Item) /\ Len(Tail(pending)) = Len(pending) - 1
           /\ \A i \in 1 .. Len(pending) - 1 : Tail(pending)[i] = pending[i + 1]
<1>1. /\ pending \in Seq(Item) /\ Len(pending) >= 1 /\ First = pending[1] /\ First \in Item
      /\ Tail(pending) \in Seq(Item) /\ Len(Tail(pending)) = Len(pending) - 1
      /\ \A i \in 1 .. Len(pending) - 1 : Tail(pending)[i] = pending[i + 1]
  BY DEF FactoryTypeOK, TreeOK, First
<1>2. /\ First.elem \in DOMAIN Element /\ First.prefix \in Seq(PathLabel)
      /\ First.home \in [Key -> Home]
  BY <1>1 DEF Item
<1>3. First.subtree \in 1 .. Len(tree.boards)
  <2>1. First.subtree \in Nat \ {0}
    BY <1>1 DEF Item
  <2>3. 1 \in 1 .. Len(pending)
    BY <1>1
  <2>4. First.subtree <= Len(tree.boards)
    BY <1>1, <2>3 DEF FactoryTypeOK, TreeOK
  <2>2. tree.boards \in Seq(Board)
    BY DEF FactoryTypeOK, TreeOK
  <2>. QED
    BY <2>1, <2>2, <2>4
<1>4. NextUid \in Uid
  BY FactoryAssumption DEF NextUid, Uid, FactoryTypeOK, TreeOK
<1>5. PICK boards \in Seq(Board) : boards = tree.boards
  BY DEF FactoryTypeOK, TreeOK
<1>6. /\ Declared \in Seq(Board) /\ Len(Declared) = Len(boards)
      /\ \A b \in 1 .. Len(boards) :
           Declared[b] = IF AllFit THEN Declare(boards[b], PortsOn(b, Elem, First)) ELSE boards[b]
  <2>1. DOMAIN boards = 1 .. Len(boards) /\ Len(boards) \in Nat
    OBVIOUS
  <2>2. ASSUME NEW b \in 1 .. Len(boards)
        PROVE  /\ Declared[b] = IF AllFit THEN Declare(boards[b], PortsOn(b, Elem, First))
                                          ELSE boards[b]
               /\ Declared[b] \in Board
    <3>1. Declared[b] = IF AllFit THEN Declare(boards[b], PortsOn(b, Elem, First)) ELSE boards[b]
      BY <1>5, <2>1 DEF Declared
    <3>2. boards[b] \in Board
      BY <2>1
    <3>3. Declare(boards[b], PortsOn(b, Elem, First)) \in Board
      BY <1>1, <1>2, <3>2, PortsOnOK, DeclareOK DEF Elem
    <3>. QED
      BY <3>1, <3>2, <3>3
  <2>3. Declared = [b \in 1 .. Len(boards) |-> Declared[b]]
    BY <1>5, <2>1 DEF Declared
  <2>. HIDE DEF Board
  <2>4. Declared \in [1 .. Len(boards) -> Board]
    BY <2>2, <2>3
  <2>. QED
    BY <2>1, <2>2, <2>4
<1>9. Declared[1] \in Board
  <2>1. Len(boards) >= 1
    BY <1>5 DEF FactoryTypeOK, TreeOK
  <2>. HIDE DEF Board
  <2>. QED
    BY <1>6, <2>1
<1>7. BuiltType(Elem) \in Types
  <2>1. Elem.type \in Types
    BY <1>2 DEF Types, Elem
  <2>2. ASSUME DOMAIN rules \cap {Elem.name, Elem.type} # {}
        PROVE  (CHOOSE f \in DOMAIN rules \cap {Elem.name, Elem.type} : TRUE) \in DOMAIN rules
    BY <2>2
  <2>. QED
    BY <2>1, <2>2 DEF BuiltType, FactoryTypeOK, ParserOK
<1>8. NewNode \in Created
  <2>1. Append(First.prefix, Label(Elem, NextUid)) \in Seq(PathLabel)
    BY <1>2, <1>4, LabelsOK DEF Elem
  <2>2. First.subtree \in Nat \ {0}
    BY <1>1 DEF Item
  <2>. QED
    BY <1>4, <1>7, <2>1, <2>2 DEF NewNode, Created
<1>. QED
  BY <1>1, <1>2, <1>3, <1>4, <1>5, <1>6, <1>7, <1>8, <1>9

-------------------------------------------------------------------------------
(* Types are kept                                                          *)

\* The types hold in a new factory.
LEMMA InitTypes == Init => FactoryTypeOK
<1>. SUFFICES ASSUME Init PROVE FactoryTypeOK
  OBVIOUS
<1>1. ParserOK
  <2>1. path \in Directory
    BY DEF Init, Directory
  <2>2. loading = <<>> /\ rules = <<>> /\ treeRoots = <<>> /\ call.pc = "rest"
    BY DEF Init
  <2>3. DOMAIN rules = {} /\ DOMAIN treeRoots = {}
    BY <2>2
  <2>. QED
    BY <2>1, <2>2, <2>3 DEF ParserOK
<1>2. NoEntries \in Board
  BY DEF NoEntries, Board, EntryTypes
<1>3. TreeOK
  <2>1. /\ entries = NoEntries /\ pending = <<>> /\ call.pc = "rest"
        /\ tree = [nodes |-> <<>>, uid |-> 0, boards |-> <<>>]
    BY DEF Init, NoTree
  <2>2. tree \in [nodes : Seq(Created), uid : Uid, boards : Seq(Board)]
    BY <2>1, FactoryAssumption DEF Uid
  <2>3. 1 .. Len(pending) = {} /\ 1 .. Len(tree.nodes) = {}
    BY <2>1
  <2>. QED
    BY <1>2, <2>1, <2>2, <2>3 DEF TreeOK
<1>. QED
  BY <1>1, <1>3 DEF Init, FactoryTypeOK

\* What an exception leaves.
LEMMA ThrowTypes ==
    ASSUME FactoryTypeOK, Throw, entries' \in Board, UNCHANGED <<path, treeRoots, rules>>
    PROVE  FactoryTypeOK'
<1>1. call' = [pc |-> "rest", id |-> call.id, end |-> "threw"]
  BY DEF Throw, Returns, FactoryTypeOK
<1>2. ParserOK'
  BY <1>1 DEF Throw, FactoryTypeOK, ParserOK
<1>3. TreeOK'
  BY <1>1, FactoryAssumption DEF Throw, TreeOK, NoTree, Uid
<1>. QED
  BY <1>1, <1>2, <1>3 DEF FactoryTypeOK

\* A change of the registries leaves the parser and the tree as they are.
LEMMA ChangeTypes ==
    ASSUME FactoryTypeOK, Change,
           path' \in Directory,
           \A id \in DOMAIN treeRoots' : treeRoots'[id] \in DOMAIN Element,
           \A f \in DOMAIN rules' : rules'[f] \in Types
    PROVE  FactoryTypeOK'
BY DEF Change, FactoryTypeOK, ParserOK, TreeOK

\* While a document is loaded, the stack has a top.
LEMMA TopOK ==
    ASSUME FactoryTypeOK, call.pc = "load"
    PROVE  /\ Top \in Opened /\ Len(loading) \in Nat \ {0} /\ loading \in Seq(Opened)
           /\ Top = loading[Len(loading)] /\ Top.doc \in DOMAIN Document
           /\ Top.previous \in Directory /\ Top.dir \in Directory /\ Top.next \in Nat \ {0}
<1>1. loading \in Seq(Opened) /\ loading # <<>>
  BY DEF FactoryTypeOK, ParserOK
<1>2. Top \in Opened /\ Len(loading) \in Nat \ {0}
  BY <1>1 DEF Top
<1>. QED
  BY <1>1, <1>2 DEF Opened, Top

\* The stack with one more document, and with one less.
LEMMA IncludeOK ==
    ASSUME FactoryTypeOK, Include
    PROVE  \E file \in Location :
             /\ path' = file.dir /\ loading' \in Seq(Opened) /\ Len(loading') = Len(loading) + 1
             /\ \A i \in 1 .. Len(loading) :
                  loading'[i].dir = loading[i].dir /\ loading'[i].previous = loading[i].previous
             /\ loading'[Len(loading) + 1].dir = file.dir
             /\ loading'[Len(loading) + 1].previous = path
<1>1. call.pc = "load" /\ Top.next <= Len(Loaded.includes)
  BY DEF Include
<1>2. PICK file : file = Resolve[<<path, Loaded.includes[Top.next]>>]
  OBVIOUS
<1>3. path \in Directory
  BY DEF FactoryTypeOK, ParserOK
<1>4. file \in Location
  <2>1. Top.doc \in DOMAIN Document /\ Top.next \in Nat \ {0}
    BY <1>1, TopOK
  <2>2. CASE Len(Loaded.includes) \in Int
    <3>1. Top.next \in 1 .. Len(Document[Top.doc].includes)
      BY <1>1, <2>1, <2>2 DEF Loaded
    <3>. QED
      BY <1>2, <1>3, <2>1, <3>1, FactoryAssumption DEF Loaded
  <2>. QED
    BY <2>1, <2>2, FactoryAssumption
<1>5. file.doc \in DOMAIN Document /\ file.dir \in Directory
  BY <1>4 DEF Location
<1>6. path' = file.dir
      /\ loading' = Append([loading EXCEPT ![Len(loading)].next = @ + 1],
           [doc |-> file.doc, dir |-> file.dir, previous |-> path, next |-> 1])
  BY <1>2 DEF Include
<1>7. [loading EXCEPT ![Len(loading)].next = @ + 1]
        = [loading EXCEPT ![Len(loading)] = [Top EXCEPT !.next = @ + 1]]
  BY DEF Top
<1>8. [Top EXCEPT !.next = @ + 1] \in Opened
      /\ [Top EXCEPT !.next = @ + 1].dir = Top.dir
      /\ [Top EXCEPT !.next = @ + 1].previous = Top.previous
  BY <1>1, TopOK DEF Opened
<1>9. [doc |-> file.doc, dir |-> file.dir, previous |-> path, next |-> 1] \in Opened
  BY <1>3, <1>5 DEF Opened
<1>. DEFINE more == [loading EXCEPT ![Len(loading)] = [Top EXCEPT !.next = @ + 1]]
<1>10. more \in Seq(Opened) /\ Len(more) = Len(loading)
       /\ \A i \in 1 .. Len(loading) :
            more[i].dir = loading[i].dir /\ more[i].previous = loading[i].previous
  BY <1>1, <1>8, TopOK
<1>. HIDE DEF more
<1>11. loading' = Append(more, [doc |-> file.doc, dir |-> file.dir, previous |-> path,
                                next |-> 1])
  BY <1>6, <1>7 DEF more
<1>12. /\ loading' \in Seq(Opened) /\ Len(loading') = Len(loading) + 1
       /\ \A i \in 1 .. Len(loading) : loading'[i] = more[i]
       /\ loading'[Len(loading) + 1] =
            [doc |-> file.doc, dir |-> file.dir, previous |-> path, next |-> 1]
  BY <1>9, <1>10, <1>11
<1>. QED
  BY <1>4, <1>6, <1>10, <1>12

\* Once its includes are loaded, a document is taken off the stack and its trees registered.
LEMMA RegisterOK ==
    ASSUME FactoryTypeOK, Register
    PROVE  /\ loading' \in Seq(Opened) /\ Len(loading') = Len(loading) - 1
           /\ \A i \in 1 .. Len(loading) - 1 : loading'[i] = loading[i]
           /\ Len(loading) = 1 =>
                 /\ call' = [pc |-> "rest", id |-> call.id, end |-> "done"]
                 /\ UNCHANGED path
           /\ Len(loading) # 1 =>
                 /\ Len(loading') >= 1 /\ UNCHANGED call
                 /\ path' = loading[Len(loading)].previous
           /\ \A id \in DOMAIN treeRoots' : treeRoots'[id] \in DOMAIN Element
<1>1. call.pc = "load" /\ loading' = SubSeq(loading, 1, Len(loading) - 1)
  BY DEF Register
<1>2. loading \in Seq(Opened) /\ Len(loading) \in Nat \ {0} /\ Top.doc \in DOMAIN Document
  BY <1>1, TopOK
<1>3. /\ loading' \in Seq(Opened) /\ Len(loading') = Len(loading) - 1
      /\ \A i \in 1 .. Len(loading) - 1 : loading'[i] = loading[i]
  <2>. DEFINE n == Len(loading) - 1
  <2>1. n \in Nat /\ n <= Len(loading) /\ loading' = SubSeq(loading, 1, n)
    BY <1>1, <1>2
  <2>. HIDE DEF n
  <2>2. loading' \in Seq(Opened) /\ Len(loading') = n /\ \A i \in 1 .. n : loading'[i] = loading[i]
    BY <1>2, <2>1
  <2>. QED
    BY <2>2 DEF n
<1>4. Len(loading) = 1 => UNCHANGED path
                          /\ call' = [pc |-> "rest", id |-> call.id, end |-> "done"]
  BY DEF Register, Returns, FactoryTypeOK
<1>5. Len(loading) # 1 => UNCHANGED call /\ path' = loading[Len(loading)].previous
  BY DEF Register, RestoredPath, Top
<1>6. ASSUME NEW id \in DOMAIN treeRoots'
      PROVE  treeRoots'[id] \in DOMAIN Element
  <2>. DEFINE Id(t) == IF t = "" THEN DefaultId[suffix + 1] ELSE t
              ids == {Id(t) : t \in DOMAIN Loaded.trees}
  <2>1. treeRoots' = [i \in DOMAIN treeRoots \cup ids |->
             IF i \in ids THEN Loaded.trees[CHOOSE t \in DOMAIN Loaded.trees : Id(t) = i]
                          ELSE treeRoots[i]]
    BY DEF Register
  <2>2. CASE id \in ids
    <3>1. (CHOOSE t \in DOMAIN Loaded.trees : Id(t) = id) \in DOMAIN Loaded.trees
      BY <2>2
    <3>. HIDE DEF Id
    <3>. QED
      BY <1>2, <2>1, <2>2, <3>1, FactoryAssumption DEF Loaded
  <2>3. CASE id \notin ids
    <3>1. id \in DOMAIN treeRoots /\ treeRoots'[id] = treeRoots[id]
      BY <1>6, <2>1, <2>3
    <3>. QED
      BY <3>1 DEF FactoryTypeOK, ParserOK
  <2>. QED
    BY <2>2, <2>3
<1>. QED
  BY <1>2, <1>3, <1>4, <1>5, <1>6


\* What is to be done below a new node, and where.
LEMMA NewItemsOK ==
    ASSUME FactoryTypeOK, call.pc = "create", pending # <<>>, Built
    PROVE  /\ NewItems \in Seq(Item)
           /\ \A i \in 1 .. Len(NewItems) :
                \/ Elem.tag = "SubTree" /\ NewItems[i] = SubRoot
                \/ /\ NewItems[i].subtree = First.subtree
                   /\ NewItems[i].prefix = First.prefix
<1>1. /\ First \in Item /\ First.elem \in DOMAIN Element /\ First.prefix \in Seq(PathLabel)
      /\ NextUid \in Uid /\ First.home \in [Key -> Home]
  BY FirstOK
<1>2. tree.boards \in Seq(Board)
  BY DEF FactoryTypeOK, TreeOK
<1>3. CASE Elem.tag = "SubTree"
  <2>1. Elem.type \in DOMAIN treeRoots
    BY <1>3 DEF Built, CanBuild, Expandable
  <2>2. treeRoots[Elem.type] \in DOMAIN Element
    BY <2>1 DEF FactoryTypeOK, ParserOK
  <2>3. Append(First.prefix, SubtreeLabel(Elem, NextUid)) \in Seq(PathLabel)
    BY <1>1, LabelsOK DEF Elem
  <2>4. Len(tree.boards) + 1 \in Nat \ {0}
    BY <1>2
  <2>7. SubtreeHome(Elem, First.home, Len(tree.boards) + 1) \in [Key -> Home]
    BY <1>1, <2>4, SubtreeOK DEF Elem
  <2>5. SubRoot \in Item
    BY <2>2, <2>3, <2>4, <2>7 DEF SubRoot, Item
  <2>6. NewItems = <<SubRoot>>
    BY <1>3 DEF NewItems
  <2>. HIDE DEF SubRoot
  <2>. QED
    BY <1>3, <2>5, <2>6
<1>4. CASE Elem.tag # "SubTree"
  <2>1. NewItems = [i \in DOMAIN Elem.kids |-> [First EXCEPT !.elem = Elem.kids[i]]]
    BY <1>4 DEF NewItems, Items
  <2>2. PICK kids \in Seq(DOMAIN Element) : kids = Elem.kids
    BY <1>1, FactoryAssumption DEF Elem
  <2>3. DOMAIN kids = 1 .. Len(kids) /\ Len(kids) \in Nat
    BY <2>2
  <2>4. ASSUME NEW i \in 1 .. Len(kids)
        PROVE  /\ NewItems[i] \in Item
               /\ NewItems[i].subtree = First.subtree /\ NewItems[i].prefix = First.prefix
    <3>1. kids[i] \in DOMAIN Element
      BY <2>2, <2>4
    <3>2. NewItems[i] = [First EXCEPT !.elem = kids[i]]
      BY <2>1, <2>2, <2>3, <2>4
    <3>. QED
      BY <1>1, <3>1, <3>2 DEF Item
  <2>5. NewItems = [i \in 1 .. Len(kids) |-> NewItems[i]]
    BY <2>1, <2>2, <2>3
  <2>6. NewItems \in [1 .. Len(kids) -> Item]
    BY <2>4, <2>5
  <2>7. NewItems \in Seq(Item) /\ Len(NewItems) = Len(kids)
    BY <2>3, <2>6
  <2>. QED
    BY <2>4, <2>7
<1>. QED
  BY <1>3, <1>4

\* The elements to visit and the nodes of the tree, when one node is built.
LEMMA BuiltOK ==
    ASSUME FactoryTypeOK, call.pc = "create", pending # <<>>, Built
    PROVE  /\ pending' \in Seq(Item)
           /\ \A i \in 1 .. Len(pending') :
                \/ Elem.tag = "SubTree" /\ pending'[i] = SubRoot
                \/ pending'[i].subtree = First.subtree /\ pending'[i].prefix = First.prefix
                \/ \E j \in 1 .. Len(pending) : pending'[i] = pending[j]
           /\ tree' \in [nodes : Seq(Created), uid : Uid, boards : Seq(Board)]
           /\ tree'.uid = NextUid
           /\ Len(tree'.nodes) = Len(tree.nodes) + 1
           /\ \A i \in 1 .. Len(tree.nodes) : tree'.nodes[i] = tree.nodes[i]
           /\ tree'.nodes[Len(tree.nodes) + 1] = NewNode
           /\ Len(tree'.boards) = IF Elem.tag = "SubTree" THEN Len(tree.boards) + 1
                                                          ELSE Len(tree.boards)
           /\ \A b \in 1 .. Len(tree.boards) : tree'.boards[b] = Declared[b]
           /\ Elem.tag = "SubTree" => tree'.boards[Len(tree.boards) + 1] = SubtreeBoard(Elem)
<1>1. PICK new \in Seq(Item) : new = NewItems
  BY NewItemsOK
<1>2. PICK rest \in Seq(Item) : rest = Tail(pending)
  BY FirstOK
<1>3. /\ Len(rest) = Len(pending) - 1
      /\ \A i \in 1 .. Len(pending) - 1 : rest[i] = pending[i + 1]
  BY <1>2, FirstOK
<1>4. pending \in Seq(Item) /\ Len(pending) \in Nat
  BY DEF FactoryTypeOK, TreeOK
<1>5. pending' = new \o rest
  BY <1>1, <1>2 DEF Built
<1>6. /\ pending' \in Seq(Item) /\ Len(pending') = Len(new) + Len(rest)
      /\ \A i \in 1 .. Len(pending') :
           \/ i \in 1 .. Len(new) /\ pending'[i] = new[i]
           \/ i - Len(new) \in 1 .. Len(rest) /\ pending'[i] = rest[i - Len(new)]
  BY <1>5
<1>7. ASSUME NEW i \in 1 .. Len(pending')
      PROVE  \/ Elem.tag = "SubTree" /\ pending'[i] = SubRoot
             \/ pending'[i].subtree = First.subtree /\ pending'[i].prefix = First.prefix
             \/ \E j \in 1 .. Len(pending) : pending'[i] = pending[j]
  <2>1. CASE i \in 1 .. Len(new) /\ pending'[i] = new[i]
    BY <1>1, <2>1, NewItemsOK
  <2>2. CASE i - Len(new) \in 1 .. Len(rest) /\ pending'[i] = rest[i - Len(new)]
    <3>. DEFINE j == i - Len(new) + 1
    <3>1. Len(new) \in Nat /\ i \in Nat
      BY <1>1, <1>6
    <3>2. j \in 1 .. Len(pending) /\ pending'[i] = pending[j]
      BY <1>3, <1>4, <2>2, <3>1
    <3>. QED
      BY <3>2
  <2>. QED
    BY <1>6, <2>1, <2>2
<1>8. PICK nodes \in Seq(Created) : nodes = tree.nodes
  BY DEF FactoryTypeOK, TreeOK
<1>9. PICK boards \in Seq(Board) : boards = tree.boards
  BY DEF FactoryTypeOK, TreeOK
<1>10. NewNode \in Created /\ NextUid \in Uid /\ First.subtree \in 1 .. Len(boards)
  BY <1>9, FirstOK
<1>14. PICK changed \in Seq(Board) : changed = Declared /\ Len(changed) = Len(boards)
  BY <1>9, FirstOK
<1>11. SubtreeBoard(Elem) \in Board
  BY DEF SubtreeBoard, Board, EntryTypes
<1>12. tree' = [nodes |-> Append(nodes, NewNode), uid |-> NextUid,
                boards |-> changed \o
                    IF Elem.tag = "SubTree" THEN <<SubtreeBoard(Elem)>> ELSE <<>>]
  BY <1>8, <1>14 DEF Built
<1>13. /\ tree'.nodes \in Seq(Created) /\ Len(tree'.nodes) = Len(nodes) + 1
       /\ \A i \in 1 .. Len(nodes) : tree'.nodes[i] = nodes[i]
       /\ tree'.nodes[Len(nodes) + 1] = NewNode
  <2>1. tree'.nodes = Append(nodes, NewNode)
    BY <1>12
  <2>. QED
    BY <1>8, <1>10, <2>1
<1>15. PICK fresh \in Seq(Board) :
         /\ fresh = IF Elem.tag = "SubTree" THEN <<SubtreeBoard(Elem)>> ELSE <<>>
         /\ Len(fresh) = IF Elem.tag = "SubTree" THEN 1 ELSE 0
  <2>1. <<SubtreeBoard(Elem)>> \in Seq(Board) /\ Len(<<SubtreeBoard(Elem)>>) = 1
    <3>. HIDE DEF SubtreeBoard, Board
    <3>. QED
      BY <1>11
  <2>2. <<>> \in Seq(Board) /\ Len(<<>>) = 0
    OBVIOUS
  <2>. DEFINE fresh == IF Elem.tag = "SubTree" THEN <<SubtreeBoard(Elem)>> ELSE <<>>
  <2>3. fresh \in Seq(Board) /\ Len(fresh) = IF Elem.tag = "SubTree" THEN 1 ELSE 0
    <3>1. CASE Elem.tag = "SubTree"
      BY <2>1, <3>1
    <3>2. CASE Elem.tag # "SubTree"
      BY <2>2, <3>2
    <3>. QED
      BY <3>1, <3>2
  <2>. QED
    BY <2>3
<1>16. tree'.boards = changed \o fresh
  BY <1>12, <1>14, <1>15
<1>17. /\ changed \o fresh \in Seq(Board) /\ Len(changed \o fresh) = Len(changed) + Len(fresh)
       /\ \A i \in 1 .. Len(changed) : (changed \o fresh)[i] = changed[i]
       /\ Len(fresh) = 1 => (changed \o fresh)[Len(changed) + 1] = fresh[1]
  <2>1. ASSUME NEW a \in Seq(Board), NEW b \in Seq(Board)
        PROVE  /\ a \o b \in Seq(Board) /\ Len(a \o b) = Len(a) + Len(b)
               /\ \A i \in 1 .. Len(a) : (a \o b)[i] = a[i]
               /\ Len(b) = 1 => (a \o b)[Len(a) + 1] = b[1]
    <3>. HIDE DEF Board
    <3>. QED
      OBVIOUS
  <2>. QED
    BY <1>14, <1>15, <2>1
<1>18. Len(boards) \in Nat
  BY <1>9
<1>19. tree'.boards \in Seq(Board) /\ Len(tree'.boards) = Len(boards) + Len(fresh)
  BY <1>14, <1>16, <1>17
<1>20. Len(tree'.boards) = IF Elem.tag = "SubTree" THEN Len(boards) + 1 ELSE Len(boards)
  <2>1. CASE Elem.tag = "SubTree"
    BY <1>15, <1>18, <1>19, <2>1
  <2>2. CASE Elem.tag # "SubTree"
    BY <1>15, <1>18, <1>19, <2>2
  <2>. QED
    BY <2>1, <2>2
<1>21. ASSUME NEW b \in 1 .. Len(boards)
       PROVE  tree'.boards[b] = Declared[b]
  BY <1>14, <1>16, <1>17
<1>22. ASSUME Elem.tag = "SubTree"
       PROVE  tree'.boards[Len(boards) + 1] = SubtreeBoard(Elem)
  <2>1. Len(fresh) = 1 /\ fresh[1] = SubtreeBoard(Elem)
    BY <1>15, <1>22
  <2>. QED
    BY <1>14, <1>16, <1>17, <2>1
<1>23. tree' \in [nodes : Seq(Created), uid : Uid, boards : Seq(Board)] /\ tree'.uid = NextUid
  BY <1>10, <1>12, <1>13, <1>19
<1>24. /\ Len(tree'.boards) = IF Elem.tag = "SubTree" THEN Len(tree.boards) + 1
                                                     ELSE Len(tree.boards)
       /\ \A b \in 1 .. Len(tree.boards) : tree'.boards[b] = Declared[b]
       /\ Elem.tag = "SubTree" => tree'.boards[Len(tree.boards) + 1] = SubtreeBoard(Elem)
  BY <1>9, <1>20, <1>21, <1>22
<1>25. /\ Len(tree'.nodes) = Len(tree.nodes) + 1
       /\ \A i \in 1 .. Len(tree.nodes) : tree'.nodes[i] = tree.nodes[i]
       /\ tree'.nodes[Len(tree.nodes) + 1] = NewNode
  BY <1>8, <1>13
<1>. QED
  BY <1>6, <1>7, <1>23, <1>24, <1>25

\* Building a node keeps the types.
LEMMA CreateNodeTypes ==
    ASSUME FactoryTypeOK, CreateNode
    PROVE  FactoryTypeOK'
<1>1. /\ call.pc = "create" /\ pending # <<>>
      /\ entries' = Declared[1]
      /\ Built \/ Throw
      /\ UNCHANGED <<builders, rules, parserVars, repeatable, changes>>
  BY CreateNodeCases
<1>2. entries' \in Board
  BY <1>1, FirstOK DEF FactoryTypeOK, TreeOK
<1>3. CASE Throw
  BY <1>1, <1>2, <1>3, ThrowTypes DEF parserVars
<1>4. CASE Built
  <2>1. UNCHANGED call
    BY <1>4 DEF Built
  <2>2. ParserOK'
    BY <1>1, <1>4 DEF Built, parserVars, FactoryTypeOK, ParserOK
  <2>3. Len(tree.boards) \in Nat /\ First.subtree \in 1 .. Len(tree.boards)
    BY <1>1, FirstOK DEF FactoryTypeOK, TreeOK
  <2>4. Len(tree'.boards) >= Len(tree.boards)
        /\ (Elem.tag = "SubTree" => Len(tree'.boards) = Len(tree.boards) + 1)
    BY <1>1, <1>4, <2>3, BuiltOK
  <2>5. ASSUME NEW i \in 1 .. Len(pending')
        PROVE  pending'[i].subtree <= Len(tree'.boards)
    <3>1. CASE Elem.tag = "SubTree" /\ pending'[i] = SubRoot
      BY <2>3, <2>4, <3>1 DEF SubRoot
    <3>2. CASE pending'[i].subtree = First.subtree
      BY <2>3, <2>4, <3>2
    <3>3. CASE \E j \in 1 .. Len(pending) : pending'[i] = pending[j]
      <4>1. PICK j \in 1 .. Len(pending) : pending'[i] = pending[j]
        BY <3>3
      <4>2. pending[j].subtree <= Len(tree.boards) /\ pending[j] \in Item
        BY DEF FactoryTypeOK, TreeOK
      <4>. QED
        BY <2>3, <2>4, <4>1, <4>2 DEF Item
    <3>. QED
      BY <1>1, <1>4, <3>1, <3>2, <3>3, BuiltOK
  <2>6. ASSUME NEW i \in 1 .. Len(tree'.nodes)
        PROVE  tree'.nodes[i].subtree <= Len(tree'.boards)
    <3>1. tree.nodes \in Seq(Created)
      BY DEF FactoryTypeOK, TreeOK
    <3>2. CASE i = Len(tree.nodes) + 1
      <4>1. tree'.nodes[i] = NewNode
        BY <1>1, <1>4, <3>2, BuiltOK
      <4>. QED
        BY <2>3, <2>4, <4>1 DEF NewNode
    <3>3. CASE i # Len(tree.nodes) + 1
      <4>1. i \in 1 .. Len(tree.nodes) /\ tree'.nodes[i] = tree.nodes[i]
        BY <1>1, <1>4, <3>1, <3>3, BuiltOK
      <4>2. tree.nodes[i].subtree <= Len(tree.boards) /\ tree.nodes[i] \in Created
        BY <3>1, <4>1 DEF FactoryTypeOK, TreeOK
      <4>. QED
        BY <2>3, <2>4, <4>1, <4>2 DEF Created
    <3>. QED
      BY <3>2, <3>3
  <2>7. TreeOK'
    <3>2. 1 \in 1 .. Len(tree.boards)
      BY <1>1, <2>3 DEF FactoryTypeOK, TreeOK
    <3>3. tree'.boards[1] = entries'
      BY <1>1, <1>4, <3>2, BuiltOK
    <3>1. Len(tree'.boards) >= 1 /\ tree'.boards[1] = entries'
      BY <1>1, <2>3, <2>4, <3>2, <3>3, BuiltOK
    <3>. QED
      BY <1>1, <1>2, <1>4, <2>5, <2>6, <3>1, BuiltOK DEF TreeOK
  <2>. QED
    BY <2>1, <2>2, <2>7 DEF FactoryTypeOK
<1>. QED
  BY <1>1, <1>3, <1>4


\* Starting to create a tree keeps the types.
LEMMA CreateTreeTypes ==
    ASSUME FactoryTypeOK, NEW id, CreateTree(id)
    PROVE  FactoryTypeOK'
<1>1. /\ UNCHANGED <<builders, rules, parserVars, entries, loading, repeatable, changes>>
      /\ tree' = [NoTree EXCEPT !.boards = <<entries>>]
      /\ call'.pc \in {"rest", "create"}
      /\ call' = [pc |-> call'.pc, id |-> call'.id, end |-> call'.end]
  BY DEF CreateTree
<1>2. tree' = [nodes |-> <<>>, uid |-> 0, boards |-> <<entries>>]
  BY <1>1 DEF NoTree
<1>3. entries \in Board
  BY DEF FactoryTypeOK, TreeOK
<1>4. /\ tree' \in [nodes : Seq(Created), uid : Uid, boards : Seq(Board)]
      /\ Len(tree'.boards) = 1 /\ Len(tree'.nodes) = 0 /\ tree'.boards[1] = entries'
  <2>1. tree'.boards = <<entries>> /\ tree'.nodes = <<>> /\ tree'.uid = 0 /\ 0 \in Uid
    BY <1>2, FactoryAssumption DEF Uid
  <2>2. ASSUME NEW b \in Board
        PROVE  <<b>> \in Seq(Board) /\ Len(<<b>>) = 1 /\ <<b>>[1] = b
    <3>. HIDE DEF Board
    <3>. QED
      OBVIOUS
  <2>3. <<entries>> \in Seq(Board) /\ Len(<<entries>>) = 1 /\ <<entries>>[1] = entries
    BY <1>3, <2>2
  <2>4. <<>> \in Seq(Created) /\ Len(<<>>) = 0
    OBVIOUS
  <2>. HIDE DEF Board, Created, Uid
  <2>. QED
    BY <1>1, <1>2, <2>1, <2>3, <2>4
<1>5. pending' \in Seq(Item) /\ \A i \in 1 .. Len(pending') : pending'[i].subtree = 1
  <2>1. CASE id \in DOMAIN treeRoots
    <3>. DEFINE root == [elem |-> treeRoots[id], subtree |-> 1, prefix |-> <<>>, home |-> OwnHome(1)]
    <3>3. OwnHome(1) \in [Key -> Home]
      BY DEF OwnHome, Home
    <3>1. root \in Item /\ root.subtree = 1
      BY <2>1, <3>3 DEF FactoryTypeOK, ParserOK, Item
    <3>2. pending' = <<root>>
      BY <2>1 DEF CreateTree
    <3>. HIDE DEF root
    <3>. QED
      BY <3>1, <3>2
  <2>2. CASE id \notin DOMAIN treeRoots
    BY <2>2 DEF CreateTree
  <2>. QED
    BY <2>1, <2>2
<1>6. ParserOK'
  BY <1>1 DEF parserVars, FactoryTypeOK, ParserOK
<1>7. TreeOK'
  BY <1>1, <1>4, <1>5 DEF FactoryTypeOK, TreeOK
<1>. QED
  BY <1>1, <1>6, <1>7 DEF FactoryTypeOK

\* Starting to load a document keeps the types.
LEMMA LoadTypes ==
    ASSUME FactoryTypeOK, NEW doc \in DOMAIN Document, NEW dir \in Directory, Load(doc, dir)
    PROVE  FactoryTypeOK'
<1>1. [doc |-> doc, dir |-> dir, previous |-> dir, next |-> 1] \in Opened
  BY DEF Opened
<1>2. loading' = <<[doc |-> doc, dir |-> dir, previous |-> dir, next |-> 1]>> /\ path' = dir
      /\ call' = [pc |-> "load", id |-> "", end |-> "none"]
      /\ UNCHANGED <<treeRoots, rules, entries, pending, tree>>
  BY DEF Load
<1>3. loading' \in Seq(Opened) /\ loading' # <<>>
  <2>. DEFINE top == [doc |-> doc, dir |-> dir, previous |-> dir, next |-> 1]
  <2>1. loading' = <<top>> /\ top \in Opened
    BY <1>1, <1>2
  <2>. HIDE DEF top
  <2>. QED
    BY <2>1
<1>4. ParserOK'
  BY <1>2, <1>3 DEF FactoryTypeOK, ParserOK
<1>5. TreeOK'
  BY <1>2 DEF FactoryTypeOK, TreeOK
<1>. QED
  BY <1>2, <1>4, <1>5 DEF FactoryTypeOK

\* Every step keeps the types.
LEMMA TypesKept == FactoryTypeOK /\ [Next]_vars => FactoryTypeOK'
<1>. SUFFICES ASSUME FactoryTypeOK, [Next]_vars PROVE FactoryTypeOK'
  OBVIOUS
<1>1. ASSUME NEW type, RegisterBuilder(type) \/ UnregisterBuilder(type) \/ ClearSubstitutionRules
      PROVE  FactoryTypeOK'
  <2>1. Change /\ UNCHANGED <<path, treeRoots>> /\ (UNCHANGED rules \/ rules' = <<>>)
    BY <1>1 DEF RegisterBuilder, UnregisterBuilder, ClearSubstitutionRules, SameDocuments
  <2>2. DOMAIN <<>> = {}
    OBVIOUS
  <2>3. \A f \in DOMAIN rules' : rules'[f] \in Types
    BY <2>1, <2>2 DEF FactoryTypeOK, ParserOK
  <2>. QED
    BY <2>1, <2>3, ChangeTypes DEF FactoryTypeOK, ParserOK
<1>2. ASSUME NEW rule \in Rules, AddSubstitutionRule(rule)
      PROVE  FactoryTypeOK'
  <2>1. Change /\ UNCHANGED <<path, treeRoots>>
        /\ rules' = [f \in DOMAIN rules \cup {rule.filter} |->
                       IF f = rule.filter THEN rule.type ELSE rules[f]]
    BY <1>2 DEF AddSubstitutionRule, SameDocuments
  <2>2. rule.type \in Types
    BY DEF Types
  <2>3. \A f \in DOMAIN rules' : rules'[f] \in Types
    BY <2>1, <2>2 DEF FactoryTypeOK, ParserOK
  <2>. QED
    BY <2>1, <2>3, ChangeTypes DEF FactoryTypeOK, ParserOK
<1>3. CASE ClearTrees
  <2>1. Change /\ UNCHANGED rules /\ path' = Cwd /\ treeRoots' = <<>>
    BY <1>3 DEF ClearTrees
  <2>2. path' \in Directory /\ DOMAIN treeRoots' = {}
    BY <2>1 DEF Directory
  <2>. QED
    BY <2>1, <2>2, ChangeTypes DEF FactoryTypeOK, ParserOK
<1>4. CASE LoadFromFile
  <2>1. PICK file \in Files : Load(file.doc, file.dir)
    BY <1>4 DEF LoadFromFile
  <2>2. file.doc \in DOMAIN Document /\ file.dir \in Directory
    BY FactoryAssumption DEF Location
  <2>. QED
    BY <2>1, <2>2, LoadTypes
<1>5. CASE LoadFromText
  <2>1. PICK doc \in Texts : Load(doc, path)
    BY <1>5 DEF LoadFromText
  <2>2. doc \in DOMAIN Document /\ path \in Directory
    BY FactoryAssumption DEF FactoryTypeOK, ParserOK
  <2>. QED
    BY <2>1, <2>2, LoadTypes
<1>6. CASE Include
  <2>1. PICK file \in Location : /\ path' = file.dir /\ loading' \in Seq(Opened)
                                 /\ Len(loading') = Len(loading) + 1
    BY <1>6, IncludeOK
  <2>2. UNCHANGED <<rules, treeRoots, entries, call, pending, tree>> /\ call.pc = "load"
    BY <1>6 DEF Include
  <2>3. file.dir \in Directory /\ loading' # <<>>
    <3>1. Len(loading) \in Nat
      BY DEF FactoryTypeOK, ParserOK
    <3>. QED
      BY <2>1, <3>1 DEF Location
  <2>4. ParserOK'
    BY <2>1, <2>2, <2>3 DEF FactoryTypeOK, ParserOK
  <2>5. TreeOK'
    BY <2>2 DEF FactoryTypeOK, TreeOK
  <2>. QED
    BY <2>2, <2>4, <2>5 DEF FactoryTypeOK
<1>7. CASE Register
  <2>1. call.pc = "load" /\ UNCHANGED <<rules, entries, pending, tree>>
    BY <1>7 DEF Register
  <2>2. Len(loading) \in Nat \ {0} /\ loading \in Seq(Opened) /\ path \in Directory
    BY <2>1, TopOK DEF FactoryTypeOK, ParserOK
  <2>3. path' \in Directory
    <3>1. loading[Len(loading)].previous \in Directory
      BY <2>1, TopOK
    <3>. QED
      BY <1>7, <2>2, <3>1, RegisterOK
  <2>4. call' = [pc |-> call'.pc, id |-> call'.id, end |-> call'.end]
        /\ call'.pc \in {"rest", "load"} /\ (call'.pc = "load" => loading' # <<>>)
    <3>1. CASE Len(loading) = 1
      BY <1>7, <3>1, RegisterOK
    <3>2. CASE Len(loading) # 1
      <4>1. UNCHANGED call /\ Len(loading') >= 1
        BY <1>7, <3>2, RegisterOK
      <4>2. loading' # <<>>
        BY <4>1
      <4>. QED
        BY <2>1, <4>1, <4>2 DEF FactoryTypeOK
    <3>. QED
      BY <3>1, <3>2
  <2>5. ParserOK'
    BY <1>7, <2>1, <2>3, <2>4, RegisterOK DEF FactoryTypeOK, ParserOK
  <2>6. TreeOK'
    BY <2>1, <2>4 DEF FactoryTypeOK, TreeOK
  <2>. QED
    BY <2>4, <2>5, <2>6 DEF FactoryTypeOK
<1>8. CASE LoadThrows
  <2>1. Throw /\ UNCHANGED <<builders, rules, parserVars, entries, repeatable, changes>>
    BY <1>8 DEF LoadThrows
  <2>. QED
    BY <2>1, ThrowTypes DEF parserVars, FactoryTypeOK, TreeOK
<1>9. CASE (\E id \in TreeId : CreateTree(id)) \/ CreateMainTree
  BY <1>9, CreateTreeTypes DEF CreateMainTree
<1>10. CASE CreateNode
  BY <1>10, CreateNodeTypes
<1>11. CASE TreeIsCreated
  <2>1. /\ call' = [pc |-> "rest", id |-> call.id, end |-> "done"] /\ tree' = NoTree
        /\ UNCHANGED <<builders, rules, parserVars, entries, loading, pending, changes>>
        /\ pending = <<>>
    BY <1>11 DEF TreeIsCreated, Returns, FactoryTypeOK
  <2>2. tree' \in [nodes : Seq(Created), uid : Uid, boards : Seq(Board)]
        /\ Len(tree'.nodes) = 0 /\ Len(pending) = 0
    BY <2>1, FactoryAssumption DEF NoTree, Uid
  <2>3. ParserOK'
    BY <2>1 DEF parserVars, FactoryTypeOK, ParserOK
  <2>4. TreeOK'
    BY <2>1, <2>2 DEF FactoryTypeOK, TreeOK
  <2>. QED
    BY <2>1, <2>3, <2>4 DEF FactoryTypeOK
<1>12. CASE UNCHANGED vars
  BY <1>12 DEF vars, parserVars, FactoryTypeOK, ParserOK, TreeOK
<1>. QED
  BY <1>1, <1>2, <1>3, <1>4, <1>5, <1>6, <1>7, <1>8, <1>9, <1>10, <1>11, <1>12 DEF Next

\* Types are kept, and a node that is built lies on a board there is.
THEOREM FactoryTypeCorrect == Spec => []FactoryTypeOK
BY InitTypes, TypesKept, PTL DEF Spec

-------------------------------------------------------------------------------
(* Where relative paths lead                                               *)

\* A step that leaves the loading of documents alone.
LEMMA PathsSame ==
    ASSUME PathsInv, call'.pc # "load", UNCHANGED loading \/ loading' = <<>>
    PROVE  PathsInv'
BY DEF PathsInv

\* PathsInv is inductive: an include remembers the directory it was found in.
LEMMA PathsKept == FactoryTypeOK /\ PathsInv /\ [Next]_vars => PathsInv'
<1>. SUFFICES ASSUME FactoryTypeOK, PathsInv, [Next]_vars PROVE PathsInv'
  OBVIOUS
<1>1. CASE Change
  BY <1>1, PathsSame DEF Change, Rest
<1>2. ASSUME NEW doc, NEW dir, Load(doc, dir)
      PROVE  PathsInv'
  <2>1. loading' = <<[doc |-> doc, dir |-> dir, previous |-> dir, next |-> 1]>> /\ path' = dir
    BY <1>2 DEF Load
  <2>2. Len(loading') = 1 /\ loading'[1].dir = dir
    BY <2>1
  <2>. QED
    BY <2>1, <2>2 DEF PathsInv, Top
<1>3. CASE Include
  <2>1. PICK file \in Location :
          /\ path' = file.dir /\ loading' \in Seq(Opened) /\ Len(loading') = Len(loading) + 1
          /\ \A i \in 1 .. Len(loading) :
               loading'[i].dir = loading[i].dir /\ loading'[i].previous = loading[i].previous
          /\ loading'[Len(loading) + 1].dir = file.dir
          /\ loading'[Len(loading) + 1].previous = path
    BY <1>3, IncludeOK
  <2>2. call.pc = "load" /\ Len(loading) \in Nat \ {0} /\ Top = loading[Len(loading)]
    BY <1>3, TopOK DEF Include
  <2>3. ASSUME NEW i \in 1 .. Len(loading') - 1
        PROVE  loading'[i + 1].previous = loading'[i].dir
    <3>1. CASE i = Len(loading)
      BY <2>1, <2>2, <3>1 DEF PathsInv
    <3>2. CASE i # Len(loading)
      <4>1. i \in 1 .. Len(loading) - 1 /\ i + 1 \in 1 .. Len(loading)
        BY <2>1, <2>2, <3>2
      <4>. QED
        BY <2>1, <4>1 DEF PathsInv
    <3>. QED
      BY <3>1, <3>2
  <2>. QED
    BY <2>1, <2>2, <2>3 DEF PathsInv, Top
<1>4. CASE Register
  <2>1. call.pc = "load" /\ Len(loading) \in Nat \ {0}
    BY <1>4, TopOK DEF Register
  <2>2. /\ Len(loading') = Len(loading) - 1
        /\ \A i \in 1 .. Len(loading) - 1 : loading'[i] = loading[i]
    BY <1>4, RegisterOK
  <2>3. \A i \in 1 .. Len(loading') - 1 : loading'[i + 1].previous = loading'[i].dir
    <3>1. ASSUME NEW i \in 1 .. Len(loading') - 1
          PROVE  loading'[i + 1].previous = loading'[i].dir
      <4>1. i \in 1 .. Len(loading) - 1 /\ i + 1 \in 1 .. Len(loading) - 1
        BY <2>1, <2>2
      <4>. QED
        BY <2>2, <4>1 DEF PathsInv
    <3>. QED
      BY <3>1
  <2>4. CASE Len(loading) = 1
    <3>1. call'.pc = "rest"
      BY <1>4, <2>4, RegisterOK
    <3>. QED
      BY <2>3, <3>1 DEF PathsInv
  <2>5. CASE Len(loading) # 1
    <3>. DEFINE i == Len(loading) - 1
    <3>1. i \in 1 .. Len(loading) - 1 /\ i + 1 = Len(loading)
      BY <2>1, <2>5
    <3>2. path' = loading[i + 1].previous
      BY <1>4, <2>5, <3>1, RegisterOK
    <3>3. path' = loading'[i].dir
      BY <2>2, <3>1, <3>2 DEF PathsInv
    <3>. QED
      BY <2>2, <2>3, <3>3 DEF PathsInv, Top
  <2>. QED
    BY <2>4, <2>5
<1>5. CASE LoadThrows \/ (CreateNode /\ Throw)
  BY <1>5, PathsSame DEF LoadThrows, Throw, Returns, FactoryTypeOK
<1>6. CASE CreateNode /\ ~Throw
  <2>1. call.pc = "create" /\ UNCHANGED <<call, loading>>
    BY <1>6, CreateNodeCases DEF Built
  <2>. QED
    BY <2>1, PathsSame
<1>7. ASSUME NEW id, CreateTree(id)
      PROVE  PathsInv'
  BY <1>7, PathsSame DEF CreateTree
<1>8. CASE TreeIsCreated
  BY <1>8, PathsSame DEF TreeIsCreated, Returns, FactoryTypeOK
<1>9. CASE UNCHANGED vars
  BY <1>9 DEF vars, parserVars, PathsInv, Top
<1>10. CASE LoadFromFile \/ LoadFromText
  BY <1>2, <1>10 DEF LoadFromFile, LoadFromText
<1>11. CASE \/ \E type \in DOMAIN NodeType : RegisterBuilder(type) \/ UnregisterBuilder(type)
            \/ \E rule \in Rules : AddSubstitutionRule(rule)
            \/ ClearSubstitutionRules \/ ClearTrees
  BY <1>1, <1>11 DEF RegisterBuilder, UnregisterBuilder, AddSubstitutionRule,
     ClearSubstitutionRules, ClearTrees
<1>. QED
  <2>1. CASE (\E id \in TreeId : CreateTree(id)) \/ CreateMainTree
    BY <1>7, <2>1 DEF CreateMainTree
  <2>. QED
    BY <1>3, <1>4, <1>5, <1>6, <1>8, <1>9, <1>10, <1>11, <2>1 DEF Next

\* A relative path of an <include> leads from the directory of the document it is in,
\* whatever was included before it and however deep.
THEOREM RelativeIncludes == Spec => []IncludesAreRelative
<1>1. Init => PathsInv
  <2>. SUFFICES ASSUME Init PROVE PathsInv
    OBVIOUS
  <2>1. loading = <<>> /\ call.pc = "rest"
    BY DEF Init
  <2>2. 1 .. Len(loading) - 1 = {}
    BY <2>1
  <2>. QED
    BY <2>1, <2>2 DEF PathsInv
<1>2. FactoryTypeOK /\ PathsInv /\ [Next]_vars => PathsInv'
  BY PathsKept
<1>3. PathsInv => IncludesAreRelative
  BY DEF PathsInv, IncludesAreRelative
<1>. QED
  BY <1>1, <1>2, <1>3, FactoryTypeCorrect, PTL DEF Spec

-------------------------------------------------------------------------------
(* UIDs and paths                                                          *)

\* Without its last label, a path is the prefix it was made from.
LEMMA FrontOfAppend ==
    ASSUME NEW s \in Seq(PathLabel), NEW label \in PathLabel
    PROVE  SubSeq(Append(s, label), 1, Len(Append(s, label)) - 1) = s
<1>1. /\ Append(s, label) \in Seq(PathLabel) /\ Len(Append(s, label)) = Len(s) + 1
      /\ Len(s) \in Nat /\ s \in [1 .. Len(s) -> PathLabel]
      /\ \A i \in 1 .. Len(s) : Append(s, label)[i] = s[i]
  OBVIOUS
<1>. DEFINE n == Len(Append(s, label)) - 1
            front == SubSeq(Append(s, label), 1, n)
<1>2. n = Len(s) /\ n \in Nat /\ n <= Len(Append(s, label))
  BY <1>1
<1>3. front \in Seq(PathLabel) /\ Len(front) = n
      /\ \A i \in 1 .. n : front[i] = Append(s, label)[i]
  <2>. HIDE DEF n
  <2>. QED
    BY <1>1, <1>2
<1>4. front \in [1 .. Len(s) -> PathLabel]
  <2>. HIDE DEF front
  <2>. QED
    BY <1>2, <1>3
<1>5. \A i \in 1 .. Len(s) : front[i] = s[i]
  BY <1>1, <1>2, <1>3
<1>6. front = s
  <2>. HIDE DEF front
  <2>. QED
    BY <1>1, <1>4, <1>5
<1>. QED
  BY <1>6

\* A place is a SubTree that has a blackboard, and a sequence of labels.
LEMMA PlaceTypes ==
    ASSUME FactoryTypeOK, NEW p \in Places
    PROVE  /\ p.prefix \in Seq(PathLabel) /\ p.subtree \in Nat \ {0}
           /\ p.subtree <= Len(tree.boards)
           /\ p = [subtree |-> p.subtree, prefix |-> p.prefix]
           /\ p.prefix # <<>> => Label0(p) \in PathLabel /\ Label0(p).uid \in Uid
<1>1. CASE \E i \in 1 .. Len(pending) :
             p = [subtree |-> pending[i].subtree, prefix |-> pending[i].prefix]
  <2>1. PICK i \in 1 .. Len(pending) :
               p = [subtree |-> pending[i].subtree, prefix |-> pending[i].prefix]
    BY <1>1
  <2>2. pending[i] \in Item /\ pending[i].subtree <= Len(tree.boards)
    BY DEF FactoryTypeOK, TreeOK
  <2>3. p.prefix \in Seq(PathLabel) /\ p.subtree \in Nat \ {0} /\ p.subtree <= Len(tree.boards)
    BY <2>1, <2>2 DEF Item
  <2>4. p.prefix # <<>> => Label0(p) \in PathLabel
    BY <2>3 DEF Label0
  <2>. QED
    BY <2>1, <2>3, <2>4 DEF PathLabel
<1>2. CASE \E i \in 1 .. Len(tree.nodes) :
             p = [subtree |-> tree.nodes[i].subtree,
                  prefix |-> SubSeq(tree.nodes[i].path, 1, Len(tree.nodes[i].path) - 1)]
  <2>1. PICK i \in 1 .. Len(tree.nodes) :
             p = [subtree |-> tree.nodes[i].subtree,
                  prefix |-> SubSeq(tree.nodes[i].path, 1, Len(tree.nodes[i].path) - 1)]
    BY <1>2
  <2>2. tree.nodes \in Seq(Created) /\ tree.nodes[i].subtree <= Len(tree.boards)
    BY DEF FactoryTypeOK, TreeOK
  <2>3. tree.nodes[i] \in Created
    BY <2>2
  <2>4. PICK labels \in Seq(PathLabel) : labels = tree.nodes[i].path
    BY <2>3 DEF Created
  <2>5. SubSeq(labels, 1, Len(labels) - 1) \in Seq(PathLabel)
    <3>1. Len(labels) - 1 \in Int /\ 1 \in Int
      BY <2>4
    <3>2. \A k \in 1 .. Len(labels) - 1 : labels[k] \in PathLabel
      BY <2>4
    <3>. QED
      BY <3>1, <3>2, SubSeqProperties
  <2>6. p.prefix \in Seq(PathLabel) /\ p.subtree \in Nat \ {0} /\ p.subtree <= Len(tree.boards)
    BY <2>1, <2>2, <2>3, <2>4, <2>5 DEF Created
  <2>7. p.prefix # <<>> => Label0(p) \in PathLabel
    BY <2>6 DEF Label0
  <2>. QED
    BY <2>1, <2>6, <2>7 DEF PathLabel
<1>. QED
  BY <1>1, <1>2 DEF Places

\* The place of the SubTree below a new SubTreeNode.
NewPlace == [subtree |-> Len(tree.boards) + 1,
             prefix |-> Append(First.prefix, SubtreeLabel(Elem, NextUid))]

\* A node is built where the parser is, and only a SubTree adds a place.
LEMMA NewPlaces ==
    ASSUME FactoryTypeOK, call.pc = "create", pending # <<>>, Built
    PROVE  /\ [subtree |-> First.subtree, prefix |-> First.prefix] \in Places
           /\ Places' \subseteq Places \cup {NewPlace}
<1>1. First = pending[1] /\ 1 \in 1 .. Len(pending) /\ First.prefix \in Seq(PathLabel)
      /\ First.elem \in DOMAIN Element /\ NextUid \in Uid
  BY FirstOK DEF FactoryTypeOK, TreeOK
<1>2. [subtree |-> First.subtree, prefix |-> First.prefix] \in Places
  BY <1>1 DEF Places
<1>3. ASSUME NEW i \in 1 .. Len(pending')
      PROVE  [subtree |-> pending'[i].subtree, prefix |-> pending'[i].prefix]
               \in Places \cup {NewPlace}
  <2>1. CASE pending'[i] = SubRoot
    BY <2>1 DEF SubRoot, NewPlace
  <2>2. CASE pending'[i].subtree = First.subtree /\ pending'[i].prefix = First.prefix
    BY <1>2, <2>2
  <2>3. CASE \E j \in 1 .. Len(pending) : pending'[i] = pending[j]
    BY <2>3 DEF Places
  <2>. QED
    BY <2>1, <2>2, <2>3, BuiltOK
<1>4. ASSUME NEW i \in 1 .. Len(tree'.nodes)
      PROVE  [subtree |-> tree'.nodes[i].subtree,
              prefix |-> SubSeq(tree'.nodes[i].path, 1, Len(tree'.nodes[i].path) - 1)] \in Places
  <2>1. Len(tree.nodes) \in Nat /\ Len(tree'.nodes) = Len(tree.nodes) + 1
    BY BuiltOK DEF FactoryTypeOK, TreeOK
  <2>2. CASE i \in 1 .. Len(tree.nodes)
    <3>1. tree'.nodes[i] = tree.nodes[i]
      BY <2>2, BuiltOK
    <3>. QED
      BY <2>2, <3>1 DEF Places
  <2>3. CASE i = Len(tree.nodes) + 1
    <3>1. tree'.nodes[i] = NewNode
      BY <2>3, BuiltOK
    <3>2. PICK label \in PathLabel : label = Label(Elem, NextUid)
      BY <1>1, LabelsOK DEF Elem
    <3>3. tree'.nodes[i].path = Append(First.prefix, label)
          /\ tree'.nodes[i].subtree = First.subtree
      BY <3>1, <3>2 DEF NewNode
    <3>. QED
      BY <1>1, <1>2, <3>3, FrontOfAppend
  <2>. QED
    BY <2>1, <2>2, <2>3
<1>. QED
  BY <1>2, <1>3, <1>4 DEF Places

\* Below the range, the counter of UIDs does not wrap around.
LEMMA NotWrapped ==
    ASSUME NEW range \in Nat, NEW k \in Nat, k < range
    PROVE  k % range = k
OBVIOUS

\* A new node keeps UniqueInv: its UID is new, and so is the place of its SubTree.
LEMMA UniqueBuilt ==
    ASSUME FactoryTypeOK, UniqueInv, call.pc = "create", pending # <<>>, Built
    PROVE  UniqueInv'
<1>. SUFFICES ASSUME Len(tree'.nodes) < UidRange
              PROVE  UidsInv' /\ LabelsInv' /\ PlacesInv'
  BY DEF UniqueInv
<1>. DEFINE n == Len(tree.nodes)
<1>1. /\ n \in Nat /\ Len(tree'.nodes) = n + 1 /\ tree'.uid = NextUid
      /\ \A i \in 1 .. n : tree'.nodes[i] = tree.nodes[i]
      /\ tree'.nodes[n + 1] = NewNode
  BY BuiltOK DEF FactoryTypeOK, TreeOK
<1>2. UidRange \in Nat /\ n < UidRange /\ n + 1 < UidRange
  BY <1>1, FactoryAssumption
<1>3. UidsInv /\ LabelsInv /\ PlacesInv
  BY <1>2 DEF UniqueInv
<1>4. NextUid = n + 1
  <2>1. NextUid = (n + 1) % UidRange
    BY <1>3 DEF NextUid, UidsInv
  <2>2. (n + 1) % UidRange = n + 1
    <3>1. n + 1 \in Nat
      BY <1>1
    <3>. HIDE DEF n
    <3>2. PICK k \in Nat : k = n + 1
      BY <3>1
    <3>. QED
      BY <1>2, <3>2, NotWrapped
  <2>. QED
    BY <2>1, <2>2
<1>5. /\ First.prefix \in Seq(PathLabel) /\ First.elem \in DOMAIN Element /\ NextUid \in Uid
      /\ NextUid # 0
  BY <1>1, <1>4, FirstOK
<1>6. /\ Label(Elem, NextUid) \in PathLabel /\ SubtreeLabel(Elem, NextUid) \in PathLabel
      /\ Label(Elem, NextUid).uid \in {0, n + 1} /\ SubtreeLabel(Elem, NextUid).uid \in {0, n + 1}
      /\ Label(Elem, NextUid).uid = 0 => Named(Label(Elem, NextUid))
      /\ SubtreeLabel(Elem, NextUid).uid = 0 => Named(SubtreeLabel(Elem, NextUid))
  BY <1>4, <1>5, LabelsOK DEF Elem
<1>7. UidsInv'
  <2>1. ASSUME NEW i \in 1 .. n + 1
        PROVE  tree'.nodes[i].uid = i
    <3>1. CASE i \in 1 .. n
      BY <1>1, <1>3, <3>1 DEF UidsInv
    <3>2. CASE i = n + 1
      BY <1>1, <1>4, <3>2 DEF NewNode
    <3>. QED
      BY <1>1, <3>1, <3>2
  <2>. QED
    BY <1>1, <1>4, <2>1 DEF UidsInv
<1>8. LabelsInv'
  <2>1. ASSUME NEW i \in 1 .. n + 1
        PROVE  /\ Len(tree'.nodes[i].path) >= 1
               /\ LET label == tree'.nodes[i].path[Len(tree'.nodes[i].path)]
                  IN  /\ label.uid \in {0, tree'.nodes[i].uid}
                      /\ label.uid = 0 => Named(label)
    <3>1. CASE i \in 1 .. n
      BY <1>1, <1>3, <3>1 DEF LabelsInv
    <3>2. CASE i = n + 1
      <4>1. tree'.nodes[i].path = Append(First.prefix, Label(Elem, NextUid))
            /\ tree'.nodes[i].uid = n + 1
        BY <1>1, <1>4, <3>2 DEF NewNode
      <4>2. PICK label \in PathLabel : label = Label(Elem, NextUid)
        BY <1>6
      <4>3. Len(Append(First.prefix, label)) >= 1
            /\ Append(First.prefix, label)[Len(Append(First.prefix, label))] = label
        BY <1>5
      <4>. QED
        BY <1>6, <4>1, <4>2, <4>3
    <3>. QED
      BY <1>1, <3>1, <3>2
  <2>. QED
    BY <1>1, <2>1 DEF LabelsInv, Named
<1>9. PlacesInv'
  <2>. DEFINE new == SubtreeLabel(Elem, NextUid)
  <2>1. Len(tree.boards) \in Nat /\ Len(tree.boards) >= 1
    BY DEF FactoryTypeOK, TreeOK
  <2>2. /\ NewPlace.subtree = Len(tree.boards) + 1 /\ NewPlace.subtree # 1
        /\ NewPlace.prefix # <<>> /\ Label0(NewPlace) = new
    <3>1. Append(First.prefix, new) # <<>>
          /\ Append(First.prefix, new)[Len(Append(First.prefix, new))] = new
      <4>. HIDE DEF new
      <4>. QED
        BY <1>5, <1>6 DEF new
    <3>. QED
      BY <2>1, <3>1 DEF NewPlace, Label0
  <2>3. ASSUME NEW p \in Places'
        PROVE  PlaceOK(p)'
    <3>1. CASE p \in Places
      <4>1. PlaceOK(p)
        BY <1>3, <3>1 DEF PlacesInv
      <4>2. p.subtree # 1 => Label0(p).uid \in Nat
        BY <3>1, <4>1, <1>2, PlaceTypes DEF PlaceOK, Uid
      <4>3. Label0(p)' = Label0(p)
        BY DEF Label0
      <4>. QED
        BY <1>1, <4>1, <4>2, <4>3 DEF PlaceOK, Named
    <3>2. CASE p = NewPlace
      <4>1. Label0(p).uid \in {0, n + 1} /\ (Label0(p).uid = 0 => Named(Label0(p)))
        BY <1>6, <2>2, <3>2
      <4>. QED
        BY <1>1, <2>2, <3>2, <4>1 DEF PlaceOK, Label0, Named
    <3>. QED
      BY <3>1, <3>2, NewPlaces
  <2>4. ASSUME NEW p \in Places', NEW q \in Places', p.subtree # 1, q.subtree # 1,
               Label0(p) = Label0(q), Label0(p).uid # 0
        PROVE  p.subtree = q.subtree
    <3>1. ASSUME NEW r \in Places, r.subtree # 1, Label0(r) = new, new.uid # 0
          PROVE  FALSE
      <4>1. Label0(r).uid <= n
        BY <1>3, <3>1 DEF PlacesInv, PlaceOK
      <4>. QED
        BY <1>1, <1>6, <3>1, <4>1
    <3>2. p \in Places \cup {NewPlace} /\ q \in Places \cup {NewPlace}
      BY NewPlaces
    <3>3. CASE p \in Places /\ q \in Places
      BY <1>3, <2>4, <3>3 DEF PlacesInv
    <3>4. CASE p = NewPlace /\ q = NewPlace
      BY <3>4
    <3>5. CASE p = NewPlace /\ q \in Places
      BY <2>2, <2>4, <3>1, <3>5
    <3>6. CASE q = NewPlace /\ p \in Places
      BY <2>2, <2>4, <3>1, <3>6
    <3>. QED
      BY <3>2, <3>3, <3>4, <3>5, <3>6
  <2>. QED
    BY <2>3, <2>4 DEF PlacesInv, Label0
<1>. QED
  BY <1>7, <1>8, <1>9

\* A tree of which no node has been built.
LEMMA UniqueAtStart ==
    ASSUME FactoryTypeOK', tree'.nodes = <<>>, tree'.uid = 0,
           \A i \in 1 .. Len(pending') : pending'[i].subtree = 1 /\ pending'[i].prefix = <<>>
    PROVE  UniqueInv'
<1>1. Len(tree'.nodes) = 0 /\ 1 .. Len(tree'.nodes) = {}
  OBVIOUS
<1>2. \A p \in Places' : p = [subtree |-> 1, prefix |-> <<>>]
  BY <1>1 DEF Places
<1>3. PlacesInv'
  BY <1>2 DEF PlacesInv, PlaceOK
<1>. QED
  BY <1>1, <1>3 DEF UniqueInv, UidsInv, LabelsInv

\* UniqueInv is inductive.
LEMMA UniqueKept == FactoryTypeOK /\ UniqueInv /\ [Next]_vars => UniqueInv'
<1>. SUFFICES ASSUME FactoryTypeOK, UniqueInv, [Next]_vars PROVE UniqueInv'
  OBVIOUS
<1>1. FactoryTypeOK'
  BY TypesKept
<1>2. ASSUME tree' = NoTree, pending' = <<>>
      PROVE  UniqueInv'
  BY <1>1, <1>2, UniqueAtStart DEF NoTree
<1>3. ASSUME UNCHANGED <<pending, tree>>
      PROVE  UniqueInv'
  BY <1>3 DEF UniqueInv, UidsInv, LabelsInv, PlacesInv, Places, PlaceOK, Label0
<1>4. ASSUME NEW id, CreateTree(id)
      PROVE  UniqueInv'
  <2>1. tree' = [nodes |-> <<>>, uid |-> 0, boards |-> <<entries>>]
    BY <1>4 DEF CreateTree, NoTree
  <2>2. \A i \in 1 .. Len(pending') : pending'[i].subtree = 1 /\ pending'[i].prefix = <<>>
    <3>1. CASE id \in DOMAIN treeRoots
      BY <1>4, <3>1 DEF CreateTree
    <3>2. CASE id \notin DOMAIN treeRoots
      BY <1>4, <3>2 DEF CreateTree
    <3>. QED
      BY <3>1, <3>2
  <2>. QED
    BY <1>1, <2>1, <2>2, UniqueAtStart
<1>5. CASE CreateNode
  <2>1. call.pc = "create" /\ pending # <<>> /\ (Built \/ Throw)
    BY <1>5, CreateNodeCases
  <2>2. CASE Throw
    BY <1>2, <2>2 DEF Throw
  <2>. QED
    BY <2>1, <2>2, UniqueBuilt
<1>6. CASE TreeIsCreated
  BY <1>2, <1>6 DEF TreeIsCreated
<1>7. CASE LoadThrows
  BY <1>2, <1>7 DEF LoadThrows, Throw
<1>8. CASE LoadFromFile \/ LoadFromText \/ Include \/ Register
  BY <1>3, <1>8 DEF LoadFromFile, LoadFromText, Load, Include, Register
<1>9. CASE \/ \E type \in DOMAIN NodeType : RegisterBuilder(type) \/ UnregisterBuilder(type)
           \/ \E rule \in Rules : AddSubstitutionRule(rule)
           \/ ClearSubstitutionRules \/ ClearTrees
  BY <1>3, <1>9 DEF RegisterBuilder, UnregisterBuilder, AddSubstitutionRule,
     ClearSubstitutionRules, ClearTrees, Change
<1>10. CASE UNCHANGED vars
  BY <1>3, <1>10 DEF vars
<1>11. CASE (\E id \in TreeId : CreateTree(id)) \/ CreateMainTree
  BY <1>4, <1>11 DEF CreateMainTree
<1>. QED
  BY <1>5, <1>6, <1>7, <1>8, <1>9, <1>10, <1>11 DEF Next

\* Two nodes with the same path have their names from the document, and so have the
\* SubTrees they are in.
LEMMA SamePath ==
    ASSUME FactoryTypeOK, UniqueInv, Len(tree.nodes) < UidRange,
           NEW i \in 1 .. Len(tree.nodes), NEW j \in 1 .. Len(tree.nodes), i # j,
           tree.nodes[i].path = tree.nodes[j].path
    PROVE  LET labels == tree.nodes[i].path
           IN  /\ Named(labels[Len(labels)])
               /\ tree.nodes[i].subtree # tree.nodes[j].subtree => Named(labels[Len(labels) - 1])
<1>1. UidsInv /\ LabelsInv /\ PlacesInv
  BY DEF UniqueInv
<1>2. tree.nodes \in Seq(Created)
  BY DEF FactoryTypeOK, TreeOK
<1>3. PICK labels \in Seq(PathLabel) : labels = tree.nodes[i].path /\ labels = tree.nodes[j].path
  <2>1. tree.nodes[i] \in Created
    BY <1>2
  <2>. QED
    BY <2>1 DEF Created
<1>4. Len(labels) \in Nat /\ Len(labels) >= 1
  BY <1>1, <1>3 DEF LabelsInv
<1>5. labels[Len(labels)].uid \in {0, i} /\ labels[Len(labels)].uid \in {0, j}
      /\ (labels[Len(labels)].uid = 0 => Named(labels[Len(labels)]))
  BY <1>1, <1>3 DEF LabelsInv, UidsInv
<1>6. Named(labels[Len(labels)])
  BY <1>5
<1>7. ASSUME tree.nodes[i].subtree # tree.nodes[j].subtree
      PROVE  Named(labels[Len(labels) - 1])
  <2>. DEFINE front == SubSeq(labels, 1, Len(labels) - 1)
              p == [subtree |-> tree.nodes[i].subtree, prefix |-> front]
              q == [subtree |-> tree.nodes[j].subtree, prefix |-> front]
  <2>1. p \in Places /\ q \in Places
    BY <1>3 DEF Places
  <2>2. PlaceOK(p) /\ PlaceOK(q)
    BY <1>1, <2>1 DEF PlacesInv
  <2>3. front # <<>> /\ p.subtree # 1 /\ q.subtree # 1
    BY <1>7, <2>2 DEF PlaceOK
  <2>4. Label0(p) = Label0(q)
    BY DEF Label0
  <2>5. Label0(p).uid = 0
    BY <1>1, <1>7, <2>1, <2>3, <2>4 DEF PlacesInv
  <2>6. Named(Label0(p))
    BY <2>2, <2>3, <2>5 DEF PlaceOK
  <2>7. Label0(p) = labels[Len(labels) - 1]
    <3>. DEFINE m == Len(labels) - 1
    <3>1. m \in Nat /\ m <= Len(labels) /\ front = SubSeq(labels, 1, m)
      BY <1>4
    <3>. HIDE DEF m, front
    <3>2. Len(front) = m /\ \A k \in 1 .. m : front[k] = labels[k]
      BY <3>1
    <3>3. m \in 1 .. m
      BY <2>3, <3>1, <3>2 DEF front
    <3>. QED
      BY <3>2, <3>3 DEF m, Label0
  <2>. QED
    BY <2>6, <2>7
<1>. QED
  BY <1>3, <1>6, <1>7

\* As long as a tree has fewer nodes than there are UIDs, no two nodes share a UID, and they
\* share a path only if they and the SubTrees they are in were given names.
THEOREM NodesAreToldApart == Spec => []UidsAndPathsUnique
<1>1. Init => UniqueInv
  <2>. SUFFICES ASSUME Init PROVE UniqueInv
    OBVIOUS
  <2>1. tree.nodes = <<>> /\ tree.uid = 0 /\ pending = <<>>
    BY DEF Init, NoTree
  <2>2. 1 .. Len(tree.nodes) = {} /\ 1 .. Len(pending) = {} /\ Len(tree.nodes) = 0
    BY <2>1
  <2>. QED
    BY <2>1, <2>2 DEF UniqueInv, UidsInv, LabelsInv, PlacesInv, Places
<1>2. FactoryTypeOK /\ UniqueInv => UidsAndPathsUnique
  <2>. SUFFICES ASSUME FactoryTypeOK, UniqueInv, Len(tree.nodes) < UidRange,
                       NEW i \in DOMAIN tree.nodes, NEW j \in DOMAIN tree.nodes, i # j
                PROVE  /\ tree.nodes[i].uid # tree.nodes[j].uid
                       /\ tree.nodes[i].path = tree.nodes[j].path =>
                            LET labels == tree.nodes[i].path
                            IN  /\ Named(labels[Len(labels)])
                                /\ tree.nodes[i].subtree # tree.nodes[j].subtree =>
                                      Named(labels[Len(labels) - 1])
    BY DEF UidsAndPathsUnique, Named
  <2>1. i \in 1 .. Len(tree.nodes) /\ j \in 1 .. Len(tree.nodes)
    BY DEF FactoryTypeOK, TreeOK
  <2>2. tree.nodes[i].uid # tree.nodes[j].uid
    BY <2>1 DEF UniqueInv, UidsInv
  <2>. QED
    BY <2>1, <2>2, SamePath
<1>. QED
  BY <1>1, <1>2, UniqueKept, FactoryTypeCorrect, PTL DEF Spec

-------------------------------------------------------------------------------
(* What can be created can be created again                                *)

(***************************************************************************)
(* How far a creation is: everything that decides how it goes on but the   *)
(* blackboard of the application, on which more and more is declared.      *)
(***************************************************************************)
Point == [pending |-> pending, uid |-> tree.uid, count |-> Len(tree.boards),
          boards |-> [k \in 2 .. Len(tree.boards) |-> tree.boards[k]]]

Start(id) == [pending |-> <<[elem |-> treeRoots[id], subtree |-> 1, prefix |-> <<>>,
                             home |-> OwnHome(1)]>>,
              uid |-> 0, count |-> 1, boards |-> [k \in 2 .. 1 |-> NoEntries]]

ItemAt(v) == Head(v.pending)
ElemAt(v) == Element[ItemAt(v).elem]
BoardAt(v, b) == IF b = 1 THEN entries ELSE v.boards[b]
CountAfter(v) == IF ElemAt(v).tag = "SubTree" THEN v.count + 1 ELSE v.count

\* From one point to the next; no entry of the application's blackboard has a part in it.
After(v) ==
    LET item == ItemAt(v)
        e == ElemAt(v)
        uid == (v.uid + 1) % UidRange
        root == [elem |-> treeRoots[e.type], subtree |-> v.count + 1,
                 prefix |-> Append(item.prefix, SubtreeLabel(e, uid)),
                 home |-> SubtreeHome(e, item.home, v.count + 1)]
    IN  [pending |-> (IF e.tag = "SubTree" THEN <<root>> ELSE Items(e, item)) \o Tail(v.pending),
         uid |-> uid, count |-> CountAfter(v),
         boards |-> [k \in 2 .. CountAfter(v) |->
                       IF k = v.count + 1 THEN SubtreeBoard(e)
                       ELSE Declare(v.boards[k], PortsOn(k, e, item))]]

\* The node at a point can be built, and its entries are there already.
Passes(v) ==
    LET e == ElemAt(v)
    IN  /\ Known(e)
        /\ \A b \in 1 .. v.count : \A p \in PortsOn(b, e, ItemAt(v)) : Fits(BoardAt(v, b), p)
        /\ e.tag # "SubTree" => BuiltType(e) \in builders \cup {"TestNode"}
        /\ Expandable(e)

Settled(v) ==
    /\ ItemAt(v) \in Item /\ v.count \in Nat \ {0} /\ Passes(v)
    /\ \A p \in PortsOn(1, ElemAt(v), ItemAt(v)) : entries[p.key] # "none"

\* Points from which the creation cannot fail, and points that lead to this one.
Closed(S) == \A v \in S : v.pending # <<>> => Settled(v) /\ After(v) \in S
Reaches(S) == \A v \in S : v = Point \/ (v.pending # <<>> => Settled(v) /\ After(v) \in S)

Repeats(id) == id \in DOMAIN treeRoots /\ \E S : Start(id) \in S /\ Closed(S)

RepeatInv ==
    /\ \A id \in repeatable : Repeats(id)
    /\ call.pc = "create" =>
          /\ call.id \in DOMAIN treeRoots
          /\ \E S : Start(call.id) \in S /\ Reaches(S)
          /\ call.id \in repeatable => \E S : Point \in S /\ Closed(S)
    /\ call.pc = "load" => repeatable = {}
    /\ CreationRepeatable

\* Entries are only added.
Grown == \A k \in Key : entries[k] # "none" => entries'[k] = entries[k]

\* More entries, and the same builders, rules and trees, leave a settled point settled.
LEMMA SettledKept ==
    ASSUME Grown, UNCHANGED <<builders, rules, treeRoots, models>>, NEW v, Settled(v)
    PROVE  Settled(v)' /\ After(v)' = After(v)
<1>1. After(v)' = After(v)
  BY DEF After, ItemAt, ElemAt, CountAfter
<1>2. \A b : \A p \in PortsOn(b, ElemAt(v), ItemAt(v)) : p.key \in Key
  BY PortsOnOK DEF Settled, ElemAt, Item
<1>3. ASSUME NEW b \in 1 .. v.count, NEW p \in PortsOn(b, ElemAt(v), ItemAt(v))
      PROVE  Fits(BoardAt(v, b), p)' /\ (b = 1 => entries'[p.key] # "none")
  <2>1. Fits(BoardAt(v, b), p)
    BY DEF Settled, Passes
  <2>2. CASE b = 1
    <3>1. entries'[p.key] = entries[p.key] /\ entries[p.key] # "none"
      BY <1>2, <2>2 DEF Settled, Grown
    <3>. QED
      BY <2>1, <2>2, <3>1 DEF Fits, BoardAt
  <2>3. CASE b # 1
    BY <2>1, <2>3 DEF Fits, BoardAt
  <2>. QED
    BY <2>2, <2>3
<1>4. Known(ElemAt(v))' = Known(ElemAt(v)) /\ Expandable(ElemAt(v))' = Expandable(ElemAt(v))
      /\ BuiltType(ElemAt(v))' = BuiltType(ElemAt(v))
  BY DEF Known, Expandable, BuiltType, ElemAt, ItemAt
<1>5. 1 \in 1 .. v.count
  BY DEF Settled
<1>6. Passes(v)'
  BY <1>3, <1>4 DEF Settled, Passes, ElemAt, ItemAt
<1>. QED
  BY <1>1, <1>3, <1>5, <1>6 DEF Settled, ElemAt, ItemAt

\* So they leave a closed set of points closed.
LEMMA ClosedKept ==
    ASSUME Grown, UNCHANGED <<builders, rules, treeRoots, models>>, NEW S, Closed(S)
    PROVE  Closed(S)'
BY SettledKept DEF Closed

\* So they leave a tree that could be created again one that can.
LEMMA RepeatsKept ==
    ASSUME Grown, UNCHANGED <<builders, rules, treeRoots, models>>, NEW id, Repeats(id)
    PROVE  Repeats(id)'
<1>1. PICK S : Start(id) \in S /\ Closed(S)
  BY DEF Repeats
<1>2. Closed(S)' /\ Start(id)' = Start(id)
  BY <1>1, ClosedKept DEF Start
<1>. QED
  BY <1>1, <1>2 DEF Repeats

\* A point is what its node is built from.
LEMMA PointOK ==
    ASSUME FactoryTypeOK, call.pc = "create", pending # <<>>
    PROVE  /\ ItemAt(Point) = First /\ ElemAt(Point) = Elem
           /\ Point.count = Len(tree.boards) /\ Point.count \in Nat \ {0}
           /\ \A b \in 1 .. Len(tree.boards) : BoardAt(Point, b) = tree.boards[b]
           /\ Passes(Point) <=> CanBuild
<1>1. Len(tree.boards) \in Nat \ {0} /\ tree.boards[1] = entries
      /\ DOMAIN tree.boards = 1 .. Len(tree.boards)
  <2>1. tree.boards \in Seq(Board)
    BY DEF FactoryTypeOK, TreeOK
  <2>. HIDE DEF Board
  <2>. QED
    BY <2>1 DEF FactoryTypeOK, TreeOK
<1>2. ItemAt(Point) = First /\ ElemAt(Point) = Elem /\ Point.count = Len(tree.boards)
  BY DEF Point, ItemAt, ElemAt, First, Elem
<1>3. ASSUME NEW b \in 1 .. Len(tree.boards)
      PROVE  BoardAt(Point, b) = tree.boards[b]
  <2>1. Point.boards = [k \in 2 .. Len(tree.boards) |-> tree.boards[k]]
    BY DEF Point
  <2>2. b # 1 => Point.boards[b] = tree.boards[b]
    BY <1>1, <2>1
  <2>. QED
    BY <1>1, <2>2 DEF BoardAt
<1>4. Passes(Point) <=> CanBuild
  BY <1>1, <1>2, <1>3 DEF Passes, CanBuild, AllFit
<1>. QED
  BY <1>1, <1>2, <1>3, <1>4

\* Building a node leads from its point to the one after it.
LEMMA PointAfter ==
    ASSUME FactoryTypeOK, call.pc = "create", pending # <<>>, Built
    PROVE  Point' = After(Point)
<1>1. Len(tree.boards) \in Nat \ {0}
  BY PointOK
<1>3. ItemAt(Point) = First /\ ElemAt(Point) = Elem
  BY PointOK
<1>4. Point.count = Len(tree.boards) /\ Point.uid = tree.uid /\ Point.pending = pending
      /\ Point.boards = [k \in 2 .. Len(tree.boards) |-> tree.boards[k]]
  BY DEF Point
<1>5. After(Point).pending = pending' /\ After(Point).uid = tree'.uid
  BY <1>3, <1>4 DEF After, Built, NewItems, SubRoot, NextUid
<1>6. Len(tree'.boards) = CountAfter(Point)
  BY <1>3, <1>4, BuiltOK DEF CountAfter
<1>7. ASSUME NEW k \in 2 .. CountAfter(Point)
      PROVE  tree'.boards[k] = IF k = Len(tree.boards) + 1 THEN SubtreeBoard(Elem)
                               ELSE Declare(Point.boards[k], PortsOn(k, Elem, First))
  <2>1. CASE k = Len(tree.boards) + 1
    <3>1. Elem.tag = "SubTree"
      BY <1>1, <1>3, <1>4, <1>7, <2>1 DEF CountAfter
    <3>. QED
      BY <2>1, <3>1, BuiltOK
  <2>2. CASE k # Len(tree.boards) + 1
    <3>1. k \in 1 .. Len(tree.boards) /\ k \in 2 .. Len(tree.boards)
      BY <1>1, <1>3, <1>4, <1>7, <2>2 DEF CountAfter
    <3>2. tree'.boards[k] = Declared[k]
      BY <3>1, BuiltOK
    <3>3. Declared[k] = Declare(tree.boards[k], PortsOn(k, Elem, First))
      BY <3>1, FirstOK DEF Built, CanBuild
    <3>4. Point.boards[k] = tree.boards[k]
      BY <1>4, <3>1
    <3>. QED
      BY <2>2, <3>2, <3>3, <3>4
  <2>. QED
    BY <2>1, <2>2
<1>8. After(Point).boards = [k \in 2 .. CountAfter(Point) |-> tree'.boards[k]]
  <2>1. After(Point).boards =
          [k \in 2 .. CountAfter(Point) |->
             IF k = Len(tree.boards) + 1 THEN SubtreeBoard(Elem)
             ELSE Declare(Point.boards[k], PortsOn(k, Elem, First))]
    BY <1>3, <1>4 DEF After
  <2>. QED
    BY <1>7, <2>1
<1>9. After(Point).count = CountAfter(Point)
      /\ After(Point) = [pending |-> After(Point).pending, uid |-> After(Point).uid,
                         count |-> After(Point).count, boards |-> After(Point).boards]
  BY DEF After
<1>. QED
  BY <1>5, <1>6, <1>8, <1>9 DEF Point

\* What is declared on the board of the application is added to it.
LEMMA EntriesDeclared ==
    ASSUME FactoryTypeOK, CreateNode
    PROVE  /\ call.pc = "create" /\ pending # <<>> /\ entries \in Board
           /\ First \in Item /\ First.elem \in DOMAIN Element
           /\ entries' = IF AllFit THEN Declare(entries, PortsOn(1, Elem, First)) ELSE entries
<1>1. call.pc = "create" /\ pending # <<>> /\ entries' = Declared[1]
  BY CreateNodeCases
<1>2. 1 \in 1 .. Len(tree.boards) /\ BoardAt(Point, 1) = tree.boards[1]
  BY <1>1, PointOK
<1>3. Declared[1] = IF AllFit THEN Declare(tree.boards[1], PortsOn(1, Elem, First))
                              ELSE tree.boards[1]
  BY <1>1, <1>2, FirstOK
<1>. QED
  BY <1>1, <1>2, <1>3, FirstOK DEF BoardAt, FactoryTypeOK, TreeOK

\* Creating a node adds entries, and those it adds suit it when it comes again.
LEMMA EntriesGrow ==
    ASSUME FactoryTypeOK, CreateNode
    PROVE  Grown
BY EntriesDeclared, PortsOnOK, DeclareOK DEF Elem, Grown

\* Once its node is built, a point is settled: its entries are declared with fitting types.
LEMMA SettledOnceBuilt ==
    ASSUME FactoryTypeOK, CreateNode, Built, NEW v, v = Point
    PROVE  Settled(v)'
<1>1. /\ call.pc = "create" /\ pending # <<>>
      /\ UNCHANGED <<builders, rules, treeRoots, models>>
  BY CreateNodeCases DEF parserVars
<1>2. /\ ItemAt(v) = First /\ ElemAt(v) = Elem /\ Passes(v) /\ CanBuild
      /\ v.count \in Nat \ {0} /\ First \in Item
  BY <1>1, PointOK, FirstOK DEF Built
<1>3. /\ Expandable(ElemAt(v))' = Expandable(ElemAt(v))
      /\ BuiltType(ElemAt(v))' = BuiltType(ElemAt(v)) /\ Known(ElemAt(v))' = Known(ElemAt(v))
  BY <1>1 DEF Known, Expandable, BuiltType, ElemAt, ItemAt
<1>4. ASSUME NEW p \in PortsOn(1, Elem, First)
      PROVE  entries'[p.key] # "none" /\ Fits(entries', p)
  <2>1. entries' = Declare(entries, PortsOn(1, Elem, First)) /\ entries \in Board
    BY <1>2, EntriesDeclared DEF CanBuild
  <2>2. p.key \in Key /\ p.type # "none"
    BY <1>2, PortsOnOK, EntriesDeclared DEF Elem
  <2>3. /\ entries[p.key] # "none" => entries'[p.key] = entries[p.key]
        /\ entries[p.key] = "none" => entries'[p.key] = p.type
    BY <1>2, <2>1, <2>2, PortsOnOK, DeclareOK, EntriesDeclared DEF Elem
  <2>4. Fits(entries, p)
    <3>1. 1 \in 1 .. v.count
      BY <1>2
    <3>. QED
      BY <1>2, <3>1 DEF Passes, BoardAt
  <2>. QED
    BY <2>2, <2>3, <2>4 DEF Fits
<1>5. ASSUME NEW b \in 1 .. v.count, NEW p \in PortsOn(b, ElemAt(v), ItemAt(v))
      PROVE  Fits(BoardAt(v, b), p)'
  <2>1. CASE b = 1
    BY <1>2, <1>4, <2>1 DEF Fits, BoardAt
  <2>2. CASE b # 1
    BY <1>2, <2>2 DEF Passes, Fits, BoardAt
  <2>. QED
    BY <2>1, <2>2
<1>6. Passes(v)'
  BY <1>1, <1>2, <1>3, <1>5 DEF Passes, ElemAt, ItemAt
<1>. QED
  BY <1>2, <1>4, <1>6 DEF Settled, ElemAt, ItemAt

\* Building a node keeps RepeatInv: the points passed are settled, and the last one is the end.
LEMMA RepeatCreateNode ==
    ASSUME FactoryTypeOK, RepeatInv, CreateNode
    PROVE  RepeatInv'
<1>1. /\ call.pc = "create" /\ pending # <<>> /\ (Built \/ (Throw /\ ~CanBuild))
      /\ UNCHANGED <<builders, rules, treeRoots, models, repeatable>> /\ Grown
  BY CreateNodeCases, EntriesGrow DEF parserVars
<1>2. \A id \in repeatable' : Repeats(id)'
  BY <1>1, RepeatsKept DEF RepeatInv
<1>3. CASE Built
  <2>1. UNCHANGED call
    BY <1>3 DEF Built
  <2>2. PICK v : v = Point
    OBVIOUS
  <2>3. v.pending # <<>>
    BY <1>1, <2>2 DEF Point
  <2>4. Settled(v)' /\ Point' = After(v) /\ After(v)' = After(v)
    <3>1. Settled(v)' /\ Point' = After(v)
      BY <1>1, <1>3, <2>2, SettledOnceBuilt, PointAfter
    <3>2. After(v)' = After(v)
      BY <1>1 DEF After, ItemAt, ElemAt, CountAfter
    <3>. QED
      BY <3>1, <3>2
  <2>5. \E S : Start(call.id)' \in S /\ Reaches(S)'
    <3>1. PICK S : Start(call.id) \in S /\ Reaches(S)
      BY <1>1 DEF RepeatInv
    <3>. DEFINE T == S \cup {Point'}
    <3>2. Start(call.id)' \in T
      BY <1>1, <2>1, <3>1 DEF Start
    <3>3. ASSUME NEW w \in T, w # Point', w.pending # <<>>
          PROVE  Settled(w)' /\ After(w)' \in T
      <4>1. CASE w = v
        BY <2>4, <4>1
      <4>2. CASE w # v
        <5>1. Settled(w) /\ After(w) \in S
          BY <2>2, <3>1, <3>3, <4>2 DEF Reaches
        <5>. QED
          BY <1>1, <5>1, SettledKept
      <4>. QED
        BY <4>1, <4>2
    <3>4. PICK U : U = T
      OBVIOUS
    <3>. HIDE DEF T
    <3>5. Reaches(U)'
      BY <3>3, <3>4 DEF Reaches
    <3>. QED
      BY <3>2, <3>4, <3>5
  <2>6. call.id \in repeatable => \E S : Point' \in S /\ Closed(S)'
    <3>. SUFFICES ASSUME call.id \in repeatable
                  PROVE  \E S : Point' \in S /\ Closed(S)'
      OBVIOUS
    <3>1. PICK S : Point \in S /\ Closed(S)
      BY <1>1 DEF RepeatInv
    <3>2. After(v) \in S
      BY <2>2, <2>3, <3>1 DEF Closed
    <3>3. Closed(S)'
      BY <1>1, <3>1, ClosedKept
    <3>. QED
      BY <2>4, <3>2, <3>3
  <2>. QED
    BY <1>1, <1>2, <2>1, <2>5, <2>6 DEF RepeatInv, CreationRepeatable, Rest
<1>4. CASE Throw /\ ~CanBuild
  <2>1. call' = [pc |-> "rest", id |-> call.id, end |-> "threw"]
    BY <1>4 DEF Throw, Returns, FactoryTypeOK
  <2>2. call.id \notin repeatable
    <3>. SUFFICES ASSUME call.id \in repeatable PROVE FALSE
      OBVIOUS
    <3>1. PICK S : Point \in S /\ Closed(S)
      BY <1>1 DEF RepeatInv
    <3>2. Point.pending # <<>>
      BY <1>1 DEF Point
    <3>3. Passes(Point)
      BY <3>1, <3>2 DEF Closed, Settled
    <3>. QED
      BY <1>1, <1>4, <3>3, PointOK
  <2>. QED
    BY <1>1, <1>2, <2>1, <2>2 DEF RepeatInv, CreationRepeatable
<1>. QED
  BY <1>1, <1>3, <1>4

\* Starting to create a tree keeps RepeatInv.
LEMMA RepeatCreateTree ==
    ASSUME FactoryTypeOK, RepeatInv, NEW id, CreateTree(id)
    PROVE  RepeatInv'
<1>1. /\ call.pc = "rest" /\ UNCHANGED <<builders, rules, treeRoots, models, repeatable, entries>>
      /\ call' = [pc |-> IF id \in DOMAIN treeRoots THEN "create" ELSE "rest", id |-> id,
                  end |-> IF id \in DOMAIN treeRoots THEN "none" ELSE "threw"]
      /\ tree' = [nodes |-> <<>>, uid |-> 0, boards |-> <<entries>>]
  BY DEF CreateTree, Rest, parserVars, NoTree
<1>2. Grown
  BY <1>1 DEF Grown
<1>3. \A i \in repeatable' : Repeats(i)'
  BY <1>1, <1>2, RepeatsKept DEF RepeatInv
<1>4. CASE id \in DOMAIN treeRoots
  <2>1. pending' = <<[elem |-> treeRoots[id], subtree |-> 1, prefix |-> <<>>, home |-> OwnHome(1)]>>
    BY <1>4 DEF CreateTree
  <2>2. Len(tree'.boards) = 1
    BY <1>1
  <2>3. 2 .. 1 = {}
    OBVIOUS
  <2>4. Point' = Start(id)
    BY <1>1, <2>1, <2>2, <2>3 DEF Point, Start
  <2>5. Start(id)' = Start(id)
    BY <1>1 DEF Start
  <2>6. PICK v : v = Start(id)
    OBVIOUS
  <2>7. Reaches({v})' /\ Start(id)' \in {v}
    BY <2>4, <2>5, <2>6 DEF Reaches
  <2>8. ASSUME id \in repeatable
        PROVE  \E S : Point' \in S /\ Closed(S)'
    <3>1. PICK S : Start(id) \in S /\ Closed(S)
      BY <2>8 DEF RepeatInv, Repeats
    <3>2. Closed(S)'
      BY <1>1, <1>2, <3>1, ClosedKept
    <3>. QED
      BY <2>4, <3>1, <3>2
  <2>. QED
    BY <1>1, <1>3, <1>4, <2>7, <2>8 DEF RepeatInv, CreationRepeatable, Rest
<1>5. CASE id \notin DOMAIN treeRoots
  <2>1. id \notin repeatable
    BY <1>5 DEF RepeatInv, Repeats
  <2>. QED
    BY <1>1, <1>3, <1>5, <2>1 DEF RepeatInv, CreationRepeatable
<1>. QED
  BY <1>4, <1>5

\* A tree of which the last node has been built can be created again.
LEMMA RepeatTreeIsCreated ==
    ASSUME FactoryTypeOK, RepeatInv, TreeIsCreated
    PROVE  RepeatInv'
<1>1. /\ call.pc = "create" /\ pending = <<>> /\ repeatable' = repeatable \cup {call.id}
      /\ UNCHANGED <<builders, rules, treeRoots, models, entries>>
      /\ call' = [pc |-> "rest", id |-> call.id, end |-> "done"]
  BY DEF TreeIsCreated, Returns, FactoryTypeOK, parserVars
<1>2. Grown
  BY <1>1 DEF Grown
<1>3. Repeats(call.id)
  <2>1. PICK S : Start(call.id) \in S /\ Reaches(S)
    BY <1>1 DEF RepeatInv
  <2>2. Point.pending = <<>>
    BY <1>1 DEF Point
  <2>3. Closed(S)
    BY <2>1, <2>2 DEF Closed, Reaches
  <2>. QED
    BY <1>1, <2>1, <2>3 DEF RepeatInv, Repeats
<1>4. ASSUME NEW id \in repeatable'
      PROVE  Repeats(id)'
  <2>1. Repeats(id)
    BY <1>1, <1>3 DEF RepeatInv
  <2>. QED
    BY <1>1, <1>2, <2>1, RepeatsKept
<1>. QED
  BY <1>1, <1>4 DEF RepeatInv, CreationRepeatable

\* RepeatInv is inductive.
LEMMA RepeatKept == FactoryTypeOK /\ RepeatInv /\ [Next]_vars => RepeatInv'
<1>. SUFFICES ASSUME FactoryTypeOK, RepeatInv, [Next]_vars PROVE RepeatInv'
  OBVIOUS
<1>1. ASSUME repeatable' = {}, call'.pc \in {"rest", "load"}
      PROVE  RepeatInv'
  BY <1>1 DEF RepeatInv, CreationRepeatable
<1>2. CASE \/ \E type \in DOMAIN NodeType : RegisterBuilder(type) \/ UnregisterBuilder(type)
           \/ \E rule \in Rules : AddSubstitutionRule(rule)
           \/ ClearSubstitutionRules \/ ClearTrees
  <2>1. Change
    BY <1>2 DEF RegisterBuilder, UnregisterBuilder, AddSubstitutionRule,
       ClearSubstitutionRules, ClearTrees
  <2>. QED
    BY <1>1, <2>1 DEF Change, Rest
<1>3. CASE LoadFromFile \/ LoadFromText
  <2>1. ASSUME NEW doc, NEW dir, Load(doc, dir)
        PROVE  repeatable' = {} /\ call'.pc = "load"
    BY <2>1 DEF Load
  <2>. QED
    BY <1>1, <1>3, <2>1 DEF LoadFromFile, LoadFromText
<1>4. CASE Include \/ Register \/ LoadThrows
  <2>1. call.pc = "load" /\ repeatable' = repeatable
    BY <1>4 DEF Include, Register, LoadThrows
  <2>2. call'.pc \in {"rest", "load"}
    BY <1>4, <2>1 DEF Include, Register, LoadThrows, Throw, Returns, FactoryTypeOK
  <2>. QED
    BY <1>1, <2>1, <2>2 DEF RepeatInv
<1>5. CASE (\E id \in TreeId : CreateTree(id)) \/ CreateMainTree
  BY <1>5, RepeatCreateTree DEF CreateMainTree
<1>6. CASE CreateNode
  BY <1>6, RepeatCreateNode
<1>7. CASE TreeIsCreated
  BY <1>7, RepeatTreeIsCreated
<1>8. CASE UNCHANGED vars
  <2>1. UNCHANGED <<builders, rules, treeRoots, models, entries, call, pending, tree, repeatable>>
    BY <1>8 DEF vars, parserVars
  <2>2. Grown
    BY <2>1 DEF Grown
  <2>3. \A id \in repeatable' : Repeats(id)'
    BY <2>1, <2>2, RepeatsKept DEF RepeatInv
  <2>4. Point' = Point
    BY <2>1 DEF Point
  <2>5. ASSUME call.pc = "create"
        PROVE  \E S : Start(call.id)' \in S /\ Reaches(S)'
    <3>1. PICK S : Start(call.id) \in S /\ Reaches(S)
      BY <2>5 DEF RepeatInv
    <3>2. Start(call.id)' = Start(call.id)
      BY <2>1 DEF Start
    <3>3. Reaches(S)'
      BY <2>1, <2>2, <2>4, <3>1, SettledKept DEF Reaches
    <3>. QED
      BY <3>1, <3>2, <3>3
  <2>6. ASSUME call.pc = "create", call.id \in repeatable
        PROVE  \E S : Point' \in S /\ Closed(S)'
    <3>1. PICK S : Point \in S /\ Closed(S)
      BY <2>6 DEF RepeatInv
    <3>. QED
      BY <2>1, <2>2, <2>4, <3>1, ClosedKept
  <2>. QED
    BY <2>1, <2>3, <2>5, <2>6 DEF RepeatInv, CreationRepeatable, Rest
<1>. QED
  BY <1>2, <1>3, <1>4, <1>5, <1>6, <1>7, <1>8 DEF Next

\* A tree that was created once can be created again on the same blackboard, whatever other
\* trees were created or failed to be, as long as nothing is registered, loaded or cleared.
THEOREM CreatedAgain == Spec => []CreationRepeatable
<1>1. Init => RepeatInv
  <2>. SUFFICES ASSUME Init PROVE RepeatInv
    OBVIOUS
  <2>1. repeatable = {} /\ call.pc = "rest" /\ call.end = "none"
    BY DEF Init
  <2>. QED
    BY <2>1 DEF RepeatInv, CreationRepeatable
<1>2. RepeatInv => CreationRepeatable
  BY DEF RepeatInv
<1>. QED
  BY <1>1, <1>2, RepeatKept, FactoryTypeCorrect, PTL DEF Spec

===============================================================================
