----------------------------- MODULE MCSequences -----------------------------
(***************************************************************************)
(* Sequences, fallbacks and loops: the nodes that yield.                   *)
(* The nodes are numbered in the order the XML would list them:            *)
(*     1..7  Sequences and fallbacks below one another, with pre-conditions*)
(*          and callbacks                                                  *)
(*     8..14  A sequence that resumes at the child that failed             *)
(*     15..24  Loops and decorators that translate                         *)
(*     25..37  Everything that throws in tick()                            *)
(* Some scripts throw in each of them (Throwing in the configuration).     *)
(***************************************************************************)
EXTENDS BehaviorTree

Async == {RUNNING, SUCCESS, FAILURE, SKIPPED}   \* an asynchronous action
Busy  == {RUNNING, SUCCESS, FAILURE}            \* one that is never skipped
Sure  == {SUCCESS, FAILURE}                     \* a condition
Skips == {SUCCESS, FAILURE, SKIPPED}            \* a guarded synchronous action

MCNode == 1 .. 37

MCKind == <<
    "Fallback", "AsyncSequence", "StatefulAction", "SyncAction", "Sequence",
    "SyncAction", "StatefulAction",
    "AsyncFallback", "SequenceWithMemory", "SimpleAction", "StatefulAction",
    "SyncAction", "Inverter", "StatefulAction",
    "Fallback", "Repeat", "RetryUntilSuccessful", "Inverter", "StatefulAction",
    "ForceFailure", "SubTree", "ParallelAll", "SyncAction", "StatefulAction",
    "Fallback", "WhileDoElse", "Condition", "StatefulAction", "IfThenElse",
    "Condition", "SimpleAction", "ReactiveSequence", "StatefulAction",
    "StatefulAction", "Parallel", "SyncAction", "SyncAction" >>

MCChildren == <<
    <<2, 5>>, <<3, 4>>, <<>>, <<>>, <<6, 7>>, <<>>, <<>>,
    <<9, 13>>, <<10, 11, 12>>, <<>>, <<>>, <<>>, <<14>>, <<>>,
    <<16, 20>>, <<17>>, <<18>>, <<19>>, <<>>, <<21>>, <<22>>, <<23, 24>>, <<>>,
    <<>>,
    <<26, 29, 32, 35>>, <<27, 28>>, <<>>, <<>>, <<30, 31>>, <<>>, <<>>, <<33, 34>>, <<>>,
    <<>>, <<36, 37>>, <<>>, <<>> >>

MCParent == <<
    1, 1, 2, 2, 1, 5, 5,
    8, 8, 9, 9, 9, 8, 13,
    15, 15, 16, 17, 18, 15, 20, 21, 22, 22,
    25, 25, 26, 26, 25, 29, 29, 25, 32, 32, 25, 35, 35 >>

MCAbove == <<
    {}, {1}, {1, 2}, {1, 2}, {1}, {1, 5}, {1, 5},
    {}, {8}, {8, 9}, {8, 9}, {8, 9}, {8}, {8, 13},
    {}, {15}, {15, 16}, {15, 16, 17}, {15, 16, 17, 18}, {15}, {15, 20}, {15, 20,
    21}, {15, 20, 21, 22}, {15, 20, 21, 22},
    {}, {25}, {25, 26}, {25, 26}, {25}, {25, 29}, {25, 29}, {25}, {25, 32}, {25, 32}, {25},
    {25, 35}, {25, 35} >>

MCAnswers == <<
    {}, {}, Async, Skips, {}, Skips, Async,
    {}, {}, Sure, Busy, Skips, {}, Async,
    {}, {}, {}, {}, Busy, {}, {}, {}, Skips, Busy,
    {}, {}, Skips, {RUNNING, FAILURE, IDLE}, {}, Skips, {FAILURE, IDLE}, {}, Busy,
    {RUNNING, FAILURE}, {}, {}, {} >>

MCPreConds == [n \in MCNode |->
    IF n = 2 THEN {"WHILE_TRUE"} ELSE
    IF n = 5 THEN {"FAILURE_IF", "SUCCESS_IF", "SKIP_IF"} ELSE
    {}]

MCLimit == <<
    1, 1, 1, 1, 1, 1, 1,
    1, 1, 1, 1, 1, 1, 1,
    1, 3, 2, 1, 1, 1, 1, 2, 1, 1,
    1, 1, 1, 1, 1, 1, 1, 1, 1, 1, 3, 1, 1 >>

MCFailLimit == <<
    1, 1, 1, 1, 1, 1, 1,
    1, 1, 1, 1, 1, 1, 1,
    1, 1, 1, 1, 1, 1, 1, 1, 1, 1,
    1, 1, 1, 1, 1, 1, 1, 1, 1, 1, 1, 1, 1 >>

MCOtherwise == [n \in MCNode |-> SKIPPED]
==============================================================================
