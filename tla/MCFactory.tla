------------------------------- MODULE MCFactory -------------------------------
(***************************************************************************)
(* A main document that includes one in another directory, which includes   *)
(* a third beside it, and one beside itself; a document with a type nobody *)
(* registered, and an anonymous tree given as text.                        *)
(***************************************************************************)
EXTENDS Factory, TLC

MCNodeType == ("Sequence" :> "CONTROL") @@ ("Inverter" :> "DECORATOR") @@
              ("Say" :> "ACTION") @@ ("Move" :> "ACTION")
MCBuiltin == {"Sequence", "Inverter"}

Compact(type, name, kids, ports) ==
    [tag |-> "compact", type |-> type, name |-> name, kids |-> kids, ports |-> ports,
     passes |-> FALSE, remaps |-> <<>>, constants |-> {}]
Explicit(type, ports) == [Compact(type, "", <<>>, ports) EXCEPT !.tag = "explicit"]
SubTree(id, name, remaps, constants) ==
    [Compact(id, name, <<>>, {}) EXCEPT !.tag = "SubTree", !.remaps = remaps,
         !.constants = constants, !.passes = "x" \in DOMAIN remaps \cup constants]
Port(key, type) == {[key |-> key, type |-> type]}

\* 1..5 Main, 6..7 and 14..15 Go, 16 Relay, 8..9 Talk, 10..11 Count, 12 anonymous,
\* 13 unknown.  What Main declares in Go is found under x and y of the application,
\* where Talk and Count declare theirs.
MCElement == <<
    Compact("Sequence", "", <<2, 3, 4, 5>>, {}), SubTree("Go", "", "x" :> "y", {}),
    SubTree("Go", "", <<>>, {"x"}), SubTree("Relay", "again", "y" :> "x", {}),
    Compact("Say", "", <<>>, Port("x", "any")),
    Compact("Inverter", "", <<14>>, {}), Compact("Move", "drive", <<>>, Port("x", "int")),
    Compact("Sequence", "", <<9>>, {}), Explicit("Say", Port("y", "string")),
    Compact("Inverter", "", <<11>>, {}), Compact("Move", "drive", <<>>, Port("x", "string")),
    SubTree("Go", "", <<>>, {}),
    Compact("Unknown", "", <<>>, {}),
    Compact("Sequence", "", <<7, 15>>, {}), Compact("Move", "drive", <<>>, Port("x", "int")),
    SubTree("Go", "", ("x" :> "y") @@ ("y" :> "x"), {}) >>

Doc(includes, trees, elements) ==
    [parses |-> TRUE, includes |-> includes, trees |-> trees, elements |-> elements,
     models |-> {}, single |-> TRUE, main |-> ""]

MCDocument ==
    ("main" :> [Doc(<<"lib/go", "count">>, "Main" :> 1, 1 .. 5) EXCEPT !.main = "Main"]) @@
    ("go" :> [Doc(<<"talk">>, ("Go" :> 6) @@ ("Relay" :> 16), {6, 7, 14, 15, 16}) EXCEPT !.models = {"Go"}]) @@
    ("talk" :> Doc(<<>>, "Talk" :> 8, 8 .. 9)) @@
    ("count" :> Doc(<<>>, "Count" :> 10, 10 .. 11)) @@
    ("anonymous" :> Doc(<<>>, "" :> 12, {12})) @@
    ("typo" :> Doc(<<"lib/go">>, "Main" :> 13, {13})) @@
    ("missing" :> [Doc(<<>>, <<>>, {}) EXCEPT !.parses = FALSE])

At(doc, dir) == [doc |-> doc, dir |-> dir]
MCResolve == [r \in {"top", "lib"} \X {"lib/go", "talk", "count"} |->
    IF r = <<"top", "lib/go">> THEN At("go", "lib")
    ELSE IF r = <<"lib", "talk">> THEN At("talk", "lib")
    ELSE IF r = <<"top", "count">> THEN At("count", "top")
    ELSE At("missing", r[1])]

MCFiles == {At("main", "top"), At("count", "top"), At("talk", "lib")}
MCTexts == {"anonymous", "typo"}
MCDefaultId == <<"BehaviorTree_0", "BehaviorTree_1", "BehaviorTree_2", "BehaviorTree_3", "BehaviorTree_4">>
MCRules == {[filter |-> "drive", type |-> "TestNode"], [filter |-> "Say", type |-> "Move"],
            [filter |-> "Inverter", type |-> "Nothing"]}
===============================================================================
