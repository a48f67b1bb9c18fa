------------------------------ MODULE LeafNodes ------------------------------
(***************************************************************************)
(* tick() of the leaf classes.  What the user's callback answers is any    *)
(* member of Answers[n]; IDLE among them stands for a callback that the    *)
(* engine rejects or that throws.                                          *)
(***************************************************************************)
EXTENDS TreeNode

CONSTANT Answers    \* what the callback of a leaf (or of a SimpleDecorator) may answer

ASSUME AnswersAssumption == Answers \in [Node -> SUBSET NodeStatus]

\* A class derived from SyncActionNode, and SimpleConditionNode.
SyncTick(n) ==
    /\ Ticking(n, {"SyncAction", "Condition"})
    /\ \E s \in Answers[n] : Answer(n, s)
    /\ Keep

\* SimpleActionNode: RUNNING while the functor runs, then whatever it answers.
SimpleActionTick(n) ==
    /\ Ticking(n, {"SimpleAction"})
    /\ \E s \in Answers[n] :
         \/ /\ s # IDLE
            /\ status' = [status EXCEPT ![n] = s]
            /\ Answer(n, s) /\ UNCHANGED <<mem, heard>>
         \/ /\ s = IDLE
            /\ status' = [status EXCEPT ![n] = IF @ = IDLE THEN RUNNING ELSE @]
            /\ Throw

\* StatefulActionNode: onStart or onRunning; otherwise the old answer again.
StatefulTick(n) ==
    /\ Ticking(n, {"StatefulAction"})
    /\ \/ /\ status[n] \in {IDLE, RUNNING}
          /\ \E s \in Answers[n] :
               \/ s # IDLE /\ Answer(n, s) /\ Keep
               \/ s = IDLE /\ Throw /\ UNCHANGED status
       \/ /\ status[n] \notin {IDLE, RUNNING}
          /\ Answer(n, status[n]) /\ Keep

LeafTick(n) == SyncTick(n) \/ SimpleActionTick(n) \/ StatefulTick(n)
===============================================================================
