-------------------------------- MODULE Factory --------------------------------
(***************************************************************************)
(* BehaviorTreeFactory and its XMLParser: node types are registered, XML   *)
(* documents are loaded with what they include, and trees are created from *)
(* them, again and again, over one blackboard of the application.          *)
(*                                                                         *)
(* Neither loading nor creating is undone when it throws, so both advance  *)
(* by one document or one node.  Loading keeps a stack of documents,       *)
(* creating the list of the elements it has still to visit.                *)
(***************************************************************************)
EXTENDS Integers, Sequences, FiniteSets, Functions

CONSTANTS
    NodeType,      \* of each type a node may have: "CONTROL", "DECORATOR", "ACTION"
    Builtin,       \* builtin_IDs
    Element,       \* the XML elements: tag, type, name, kids, the port that is
                   \* remapped to an entry if any; of a SubTree which of its keys
                   \* lead to which ones outside, which are given a constant, and
                   \* whether it passes the ports its model asks for
    Document,      \* XML documents: what they include and define
    Resolve,       \* document and directory of the file that a directory and a
                   \* relative path lead to
    Files, Texts,  \* what the application registers
    DefaultId,     \* "BehaviorTree_0", "BehaviorTree_1", ...
    Cwd,           \* the working directory of the process
    Rules,         \* substitution rules that may be added: filter and type
    UidRange,      \* 2 ^ 16
    MaxDocuments, MaxChanges   \* bounds: documents opened, node types or rules changed

Directory == {Cwd} \cup {f.dir : f \in Files} \cup {r.dir : r \in Range(Resolve)}
Location == [doc : DOMAIN Document, dir : Directory]

Key == UNION {{p.key : p \in Element[e].ports} \cup Element[e].constants
                \cup DOMAIN Element[e].remaps \cup Range(Element[e].remaps) : e \in DOMAIN Element}

ASSUME FactoryAssumption ==
    /\ Builtin \subseteq DOMAIN NodeType
    /\ UidRange \in Nat \ {0}
    /\ \A e \in DOMAIN Element :
         /\ Element[e].kids \in Seq(DOMAIN Element) /\ \A p, q \in Element[e].ports : p = q
         /\ \A p \in Element[e].ports : p.type # "none"
         /\ Element[e].remaps \in [DOMAIN Element[e].remaps -> Key]
         /\ Element[e].constants \cap DOMAIN Element[e].remaps = {}
    /\ \A d \in DOMAIN Document :
         /\ \A t \in DOMAIN Document[d].trees : Document[d].trees[t] \in DOMAIN Element
         /\ \A i \in 1 .. Len(Document[d].includes), dir \in Directory :
              Resolve[<<dir, Document[d].includes[i]>>] \in Location
    /\ Files \subseteq Location /\ Texts \subseteq DOMAIN Document
    \* A rule that replaces a SubTree leaves a null pointer to be used.
    /\ \A e \in DOMAIN Element, r \in Rules :
         Element[e].tag = "SubTree" => r.filter \notin {"SubTree", Element[e].name}

VARIABLES
    builders,      \* registered node types
    rules,         \* substitution_rules, from filters to types
    documents,     \* opened_documents
    treeRoots,     \* tree_roots, from IDs to elements
    models,        \* subtree_models that have a mandatory port
    path,          \* current_path
    suffix,        \* suffix_count
    entries,       \* types of the entries of the application's blackboard
    call,          \* the call in progress: what it does, which tree, how it ended
    loading,       \* the documents that include one another
    pending,       \* the elements to visit
    tree,          \* the tree under construction: its nodes and blackboards, of which
                   \* the first is that of the application
    repeatable,    \* history: what was created since anything else changed
    changes

parserVars == <<documents, treeRoots, models, path, suffix>>
vars == <<builders, rules, parserVars, entries, call, loading, pending, tree, repeatable, changes>>

TreeId == UNION {DOMAIN Document[d].trees : d \in DOMAIN Document} \cup Range(DefaultId)
NoEntries == [k \in Key |-> "none"]
NoTree == [nodes |-> <<>>, uid |-> 0, boards |-> <<>>]

Init ==
    /\ builders = DOMAIN NodeType /\ rules = <<>>
    /\ documents = <<>> /\ treeRoots = <<>> /\ models = {} /\ path = Cwd /\ suffix = 0
    /\ entries = NoEntries
    /\ call = [pc |-> "rest", id |-> "", end |-> "none"]
    /\ loading = <<>> /\ pending = <<>> /\ tree = NoTree
    /\ repeatable = {} /\ changes = 0

Rest == call.pc = "rest"
Returns(end) == call' = [call EXCEPT !.pc = "rest", !.end = end]

\* An exception ends the call, whatever it has done so far.
Throw == Returns("threw") /\ loading' = <<>> /\ pending' = <<>> /\ tree' = NoTree

-------------------------------------------------------------------------------
(* The registry of node types and rules. *)

Change ==
    /\ Rest /\ changes < MaxChanges
    /\ changes' = changes + 1 /\ repeatable' = {}
    /\ UNCHANGED <<models, entries, call, loading, pending, tree>>

SameDocuments == UNCHANGED <<documents, treeRoots, path, suffix>>

RegisterBuilder(type) ==
    /\ Change /\ type \notin builders
    /\ builders' = builders \cup {type} /\ SameDocuments /\ UNCHANGED rules

UnregisterBuilder(type) ==
    /\ Change /\ type \in builders \ Builtin
    /\ builders' = builders \ {type} /\ SameDocuments /\ UNCHANGED rules

AddSubstitutionRule(rule) ==
    /\ Change
    /\ rules' = [f \in DOMAIN rules \cup {rule.filter} |->
                   IF f = rule.filter THEN rule.type ELSE rules[f]]
    /\ SameDocuments /\ UNCHANGED builders

ClearSubstitutionRules == Change /\ rules' = <<>> /\ SameDocuments /\ UNCHANGED builders

\* clearRegisteredBehaviorTrees(); the models of SubTrees stay.
ClearTrees ==
    /\ Change
    /\ documents' = <<>> /\ treeRoots' = <<>> /\ suffix' = 0 /\ path' = Cwd
    /\ UNCHANGED <<builders, rules>>

-------------------------------------------------------------------------------
(* loadFromFile() and loadFromText(): loadDocImpl() calls itself for every   *)
(* included file, with current_path set to the directory of that file.     *)

Top == loading[Len(loading)]
Loaded == Document[Top.doc]

Load(doc, dir) ==
    /\ Rest /\ Len(documents) < MaxDocuments
    /\ documents' = Append(documents, doc) /\ path' = dir
    /\ loading' = <<[doc |-> doc, dir |-> dir, previous |-> dir, next |-> 1]>>
    /\ call' = [pc |-> "load", id |-> "", end |-> "none"] /\ repeatable' = {}
    /\ UNCHANGED <<builders, rules, treeRoots, models, suffix, entries, pending, tree, changes>>

LoadFromFile == \E file \in Files : Load(file.doc, file.dir)
LoadFromText == \E doc \in Texts : Load(doc, path)

Include ==
    LET file == Resolve[<<path, Loaded.includes[Top.next]>>]
    IN  /\ call.pc = "load" /\ Loaded.parses /\ Top.next <= Len(Loaded.includes)
        /\ documents' = Append(documents, file.doc) /\ path' = file.dir
        /\ loading' = Append([loading EXCEPT ![Len(loading)].next = @ + 1],
                 [doc |-> file.doc, dir |-> file.dir, previous |-> path, next |-> 1])
        /\ UNCHANGED <<builders, rules, treeRoots, models, suffix, entries, call, pending,
                       tree, repeatable, changes>>

\* VerifyXML().  Elements named after a type are looked up in the registry;
\* <Action ID="..."> and the like only have their children counted.
ValidElement(e) ==
    LET kids == Len(e.kids)
        type == NodeType[e.type]
    IN  /\ e.tag = "SubTree" => e.type \notin builders
        /\ e.tag = "compact" => e.type \in builders
        /\ e.tag # "SubTree" /\ type = "DECORATOR" => kids = 1
        /\ e.tag # "SubTree" /\ type = "CONTROL" => kids > 0
        /\ e.tag = "explicit" /\ type = "ACTION" => kids = 0

Verified(doc) ==
    /\ \A e \in doc.elements : ValidElement(Element[e])
    /\ "" \in DOMAIN doc.trees => doc.single
    /\ DOMAIN doc.trees \cap builders = {}

\* Mutant of RestoredPath: the directory of the included file stays.
PathOfIncluded == path

\* The directory in which the including document goes on.
RestoredPath == Top.previous

\* The trees of the document replace those that have the same ID.
Register ==
    /\ call.pc = "load" /\ Loaded.parses /\ Top.next > Len(Loaded.includes)
    /\ Verified(Loaded)
    /\ models' = models \cup Loaded.models
    /\ LET id(t) == IF t = "" THEN DefaultId[suffix + 1] ELSE t
           ids == {id(t) : t \in DOMAIN Loaded.trees}
       IN  treeRoots' = [i \in DOMAIN treeRoots \cup ids |->
             IF i \in ids THEN Loaded.trees[CHOOSE t \in DOMAIN Loaded.trees : id(t) = i]
                          ELSE treeRoots[i]]
    /\ suffix' = IF "" \in DOMAIN Loaded.trees THEN suffix + 1 ELSE suffix
    /\ IF Len(loading) = 1 THEN Returns("done") /\ UNCHANGED path
                           ELSE path' = RestoredPath /\ UNCHANGED call
    /\ loading' = SubSeq(loading, 1, Len(loading) - 1)
    /\ UNCHANGED <<builders, rules, documents, entries, pending, tree, repeatable, changes>>

\* A document that is not well-formed, or there is no such file, throws before
\* its includes are loaded, one that is not valid after.
LoadThrows ==
    /\ call.pc = "load"
    /\ ~Loaded.parses \/ (Top.next > Len(Loaded.includes) /\ ~Verified(Loaded))
    /\ Throw
    /\ UNCHANGED <<builders, rules, parserVars, entries, repeatable, changes>>

-------------------------------------------------------------------------------
(* createTree() over the blackboard of the application. *)

\* Without an ID the first document opened decides.
MainTree ==
    LET main == Document[documents[1]].main
    IN  IF main # "" THEN main
        ELSE IF Cardinality(DOMAIN treeRoots) = 1 THEN CHOOSE i \in DOMAIN treeRoots : TRUE
        ELSE ""

\* Of each key of a SubTree: the board and the key where its entry is found or made,
\* over the remappings (or the autoremapping) of the SubTrees around it.
OwnHome(board) == [k \in Key |-> [board |-> board, key |-> k]]

SubtreeHome(e, outer, board) ==
    [k \in Key |-> IF k \in DOMAIN e.remaps THEN outer[e.remaps[k]] ELSE OwnHome(board)[k]]

\* A constant is set in the SubTree, as an entry of any type.
SubtreeBoard(e) == [k \in Key |-> IF k \in e.constants THEN "any" ELSE "none"]

CreateTree(id) ==
    /\ Rest
    /\ call' = [pc |-> IF id \in DOMAIN treeRoots THEN "create" ELSE "rest", id |-> id,
                end |-> IF id \in DOMAIN treeRoots THEN "none" ELSE "threw"]
    /\ pending' = IF id \in DOMAIN treeRoots
                  THEN <<[elem |-> treeRoots[id], subtree |-> 1, prefix |-> <<>>,
                          home |-> OwnHome(1)]>>
                  ELSE <<>>
    /\ tree' = [NoTree EXCEPT !.boards = <<entries>>]
    /\ UNCHANGED <<builders, rules, parserVars, entries, loading, repeatable, changes>>

CreateMainTree ==
    /\ documents # <<>> /\ Document[documents[1]].parses
    /\ CreateTree(MainTree)

\* createNodeFromXML(): the ports first make their entries, each where it leads ...
PortsOn(b, e, item) ==
    {[key |-> item.home[p.key].key, type |-> p.type] :
        p \in {q \in e.ports : item.home[q.key].board = b}}

Strong == {"int", "string"}
Fits(board, port) ==
    \/ board[port.key] \in {"none", "string", port.type}
    \/ ~({board[port.key], port.type} \subseteq Strong)

\* Mutant of Declare: the entry follows the last port.
DeclareAgain(board, ports) ==
    [k \in Key |-> IF \E p \in ports : p.key = k THEN (CHOOSE p \in ports : p.key = k).type
                   ELSE board[k]]

Declare(board, ports) ==
    [k \in Key |-> IF board[k] = "none" /\ (\E p \in ports : p.key = k)
                   THEN (CHOOSE p \in ports : p.key = k).type ELSE board[k]]

\* ... then the node is built, by the type a rule puts in the place of its own.
\* The rules are looked at in an order that stays the same while they do.
BuiltType(e) ==
    LET matching == DOMAIN rules \cap {e.name, e.type}
    IN  IF e.tag = "SubTree" \/ matching = {} THEN e.type
        ELSE rules[CHOOSE f \in matching : TRUE]

\* The ID is made unique by the UID where there is no name.
Label(e, uid) == IF e.name \notin {"", e.type} THEN [name |-> e.name, uid |-> 0]
                                              ELSE [name |-> e.type, uid |-> uid]

\* Mutant of SubtreeLabel: no UID.
SubtreeLabelPlain(e, uid) == [name |-> IF e.name # "" THEN e.name ELSE e.type, uid |-> 0]

SubtreeLabel(e, uid) == IF e.name # "" THEN [name |-> e.name, uid |-> 0]
                                       ELSE [name |-> e.type, uid |-> uid]

Items(e, item) ==
    [i \in DOMAIN e.kids |-> [item EXCEPT !.elem = e.kids[i]]]

Known(e) == e.tag = "SubTree" \/ e.type \in builders

\* A SubTree must exist, and be given the ports its model makes mandatory.
Expandable(e) ==
    e.tag = "SubTree" => e.type \in DOMAIN treeRoots /\ (e.type \in models => e.passes)

CreateNode ==
    LET item == Head(pending)
        e == Element[item.elem]
        fit == Known(e) /\ \A b \in DOMAIN tree.boards :
                             \A p \in PortsOn(b, e, item) : Fits(tree.boards[b], p)
        boards == [b \in DOMAIN tree.boards |->
                     IF fit THEN Declare(tree.boards[b], PortsOn(b, e, item)) ELSE tree.boards[b]]
        uid == (tree.uid + 1) % UidRange
        node == [subtree |-> item.subtree, uid |-> uid, type |-> BuiltType(e),
                 path |-> Append(item.prefix, Label(e, uid))]
        root == [elem |-> treeRoots[e.type], subtree |-> Len(tree.boards) + 1,
                 prefix |-> Append(item.prefix, SubtreeLabel(e, uid)),
                 home |-> SubtreeHome(e, item.home, Len(tree.boards) + 1)]
    IN  /\ call.pc = "create" /\ pending # <<>>
        /\ entries' = boards[1]
        /\ IF /\ fit
              /\ e.tag # "SubTree" => BuiltType(e) \in builders \cup {"TestNode"}
              /\ Expandable(e)
           THEN /\ tree' = [nodes |-> Append(tree.nodes, node), uid |-> uid,
                            boards |-> boards \o
                                IF e.tag = "SubTree" THEN <<SubtreeBoard(e)>> ELSE <<>>]
                /\ pending' = (IF e.tag = "SubTree" THEN <<root>> ELSE Items(e, item))
                                 \o Tail(pending)
                /\ UNCHANGED <<call, loading>>
           ELSE Throw
        /\ UNCHANGED <<builders, rules, parserVars, repeatable, changes>>

TreeIsCreated ==
    /\ call.pc = "create" /\ pending = <<>>
    /\ Returns("done") /\ tree' = NoTree /\ repeatable' = repeatable \cup {call.id}
    /\ UNCHANGED <<builders, rules, parserVars, entries, loading, pending, changes>>

-------------------------------------------------------------------------------
Next ==
    \/ \E type \in DOMAIN NodeType : RegisterBuilder(type) \/ UnregisterBuilder(type)
    \/ \E rule \in Rules : AddSubstitutionRule(rule)
    \/ ClearSubstitutionRules \/ ClearTrees
    \/ LoadFromFile \/ LoadFromText \/ Include \/ Register \/ LoadThrows
    \/ (\E id \in TreeId : CreateTree(id)) \/ CreateMainTree
    \/ CreateNode \/ TreeIsCreated

Spec == Init /\ [][Next]_vars

-------------------------------------------------------------------------------
(* Properties. *)

\* A relative path is resolved in the directory of the document that includes it,
\* however many other directories the documents included before led through.
IncludesAreRelative == call.pc = "load" => path = Top.dir

\* UIDs are distinct as long as there are enough of them; two nodes have the same path only
\* when the document names them both, and the SubTrees they are in if there are two.
UidsAndPathsUnique ==
    LET nodes == tree.nodes
        named(label) == label.uid = 0 /\ \E e \in DOMAIN Element : Element[e].name = label.name
    IN  Len(nodes) < UidRange =>
            \A i, j \in DOMAIN nodes : i # j =>
                /\ nodes[i].uid # nodes[j].uid
                /\ nodes[i].path = nodes[j].path =>
                     LET labels == nodes[i].path
                     IN  /\ named(labels[Len(labels)])
                         /\ nodes[i].subtree # nodes[j].subtree => named(labels[Len(labels) - 1])

\* A tree that could be created can be created again on the same blackboard, whatever
\* was created there since or failed to be, as long as the factory is not changed.
CreationRepeatable == Rest /\ call.end = "threw" => call.id \notin repeatable
===============================================================================
