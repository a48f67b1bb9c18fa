-------------------------- MODULE MCStaleCondition --------------------------
(***************************************************************************)
(* An IfThenElse without a third child, whose condition is an asynchronous *)
(* action, under a Fallback.  The nodes are numbered in the order the XML  *)
(* would list them.                                                        *)
(***************************************************************************)
EXTENDS BehaviorTree

MCNode == 1 .. 5
MCKind == <<"Fallback", "IfThenElse", "StatefulAction", "SyncAction", "SyncAction">>
MCChildren == << <<2, 5>>, <<3, 4>>, <<>>, <<>>, <<>> >>
MCParent == <<1, 1, 2, 2, 1>>
MCAbove == <<{}, {1}, {1, 2}, {1, 2}, {1}>>
MCAnswers == <<{}, {}, {RUNNING, SUCCESS, FAILURE}, {SUCCESS}, {SUCCESS, FAILURE}>>
MCPreConds == [n \in MCNode |-> {}]
MCLimit == <<1, 1, 1, 1, 1>>
MCOtherwise == [n \in MCNode |-> SKIPPED]
=============================================================================
