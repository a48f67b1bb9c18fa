----------------------------- MODULE MCBranches -----------------------------
(***************************************************************************)
(* Nodes that change between their children, or do without them.           *)
(* The nodes are numbered in the order the XML would list them:            *)
(*     1..7  Reactive nodes over an asynchronous sequence, woken up from   *)
(*          outside                                                        *)
(*     8..14  Two of three to succeed, two to fail; all of the inner three *)
(*          are executed                                                   *)
(*     15..23  Branches that change while they are RUNNING                 *)
(*     24..34  Decorators that may answer without their child              *)
(***************************************************************************)
EXTENDS BehaviorTree

Async == {RUNNING, SUCCESS, FAILURE, SKIPPED}   \* an asynchronous action
Busy  == {RUNNING, SUCCESS, FAILURE}            \* one that is never skipped
Sure  == {SUCCESS, FAILURE}                     \* a condition
Skips == {SUCCESS, FAILURE, SKIPPED}            \* a guarded synchronous action

MCNode == 1 .. 34

MCKind == <<
    "ReactiveSequence", "ReactiveFallback", "Condition", "StatefulAction",
    "AsyncSequence", "SyncAction", "StatefulAction",
    "Parallel", "ParallelAll", "StatefulAction", "SyncAction", "StatefulAction",
    "StatefulAction", "SyncAction",
    "WhileDoElse", "Condition", "IfThenElse", "StatefulAction", "StatefulAction",
    "SyncAction", "Switch", "StatefulAction", "StatefulAction",
    "ReactiveSequence", "RunOnce", "StatefulAction", "Precondition",
    "StatefulAction", "WaitValueUpdate", "SimpleDecorator", "SyncAction",
    "KeepRunningUntilFailure", "LoopNode", "StatefulAction" >>

MCChildren == <<
    <<2, 5>>, <<3, 4>>, <<>>, <<>>, <<6, 7>>, <<>>, <<>>,
    <<9, 13, 14>>, <<10, 11, 12>>, <<>>, <<>>, <<>>, <<>>, <<>>,
    <<16, 17, 21>>, <<>>, <<18, 19, 20>>, <<>>, <<>>, <<>>, <<22, 23>>, <<>>, <<>>,
    <<25, 27, 29, 32>>, <<26>>, <<>>, <<28>>, <<>>, <<30>>, <<31>>, <<>>, <<33>>,
    <<34>>, <<>> >>

MCParent == <<
    1, 1, 2, 2, 1, 5, 5,
    8, 8, 9, 9, 9, 8, 8,
    15, 15, 15, 17, 17, 17, 15, 21, 21,
    24, 24, 25, 24, 27, 24, 29, 30, 24, 32, 33 >>

MCAbove == <<
    {}, {1}, {1, 2}, {1, 2}, {1}, {1, 5}, {1, 5},
    {}, {8}, {8, 9}, {8, 9}, {8, 9}, {8}, {8},
    {}, {15}, {15}, {15, 17}, {15, 17}, {15, 17}, {15}, {15, 21}, {15, 21},
    {}, {24}, {24, 25}, {24}, {24, 27}, {24}, {24, 29}, {24, 29, 30}, {24}, {24,
    32}, {24, 32, 33} >>

MCAnswers == <<
    {}, {}, Skips, Async, {}, Skips, Async,
    {}, {}, Async, Skips, Async, Async, Skips,
    {}, Busy, {}, Busy, Async, Skips, {}, Busy, Async,
    {}, {}, Busy, {}, Busy, {}, Sure, Sure, {}, {}, Busy >>

MCPreConds == [n \in MCNode |-> {}]

MCLimit == <<
    1, 1, 1, 1, 1, 1, 1,
    -2, 2, 1, 1, 1, 1, 1,
    1, 1, 1, 1, 1, 1, 1, 1, 1,
    1, 1, 1, 1, 1, 1, 1, 1, 1, 1, 1 >>

MCFailLimit == <<
    1, 1, 1, 1, 1, 1, 1,
    -2, 1, 1, 1, 1, 1, 1,
    1, 1, 1, 1, 1, 1, 1, 1, 1,
    1, 1, 1, 1, 1, 1, 1, 1, 1, 1, 1 >>

MCOtherwise == [n \in MCNode |-> IF n = 27 THEN SUCCESS ELSE IF n = 33 THEN SUCCESS ELSE SKIPPED]
=============================================================================
