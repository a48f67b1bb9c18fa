---------------------------- MODULE MCUpdatedHalt ----------------------------
(***************************************************************************)
(* A SkipUnlessUpdated over an asynchronous action.  The nodes are numbered *)
(* in the order the XML would list them.                                   *)
(***************************************************************************)
EXTENDS BehaviorTree

MCNode == 1 .. 3
MCKind == <<"Sequence", "SkipUnlessUpdated", "StatefulAction">>
MCChildren == << <<2>>, <<3>>, <<>> >>
MCParent == <<1, 1, 2>>
MCAbove == <<{}, {1}, {1, 2}>>
MCAnswers == <<{}, {}, {RUNNING, SUCCESS, FAILURE}>>
MCPreConds == [n \in MCNode |-> {}]
MCLimit == <<1, 1, 1>>
MCOtherwise == [n \in MCNode |-> SKIPPED]
==============================================================================
