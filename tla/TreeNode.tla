------------------------------- MODULE TreeNode -------------------------------
(***************************************************************************)
(* Trees of nodes and what is common to all of them: TreeNode::executeTick*)
(* around the virtual tick() of each class, pre-conditions, the injected   *)
(* pre_tick and post_tick callbacks, and how haltNode(), resetChildren()   *)
(* and haltChild() spread down the tree.                                   *)
(*                                                                         *)
(* A tick is a nest of C++ calls, one per node on the path from the root   *)
(* to the node being executed.  `cur' is the node of the innermost call    *)
(* and `pc' says how far that call is:                                     *)
(*                                                                         *)
(*   "rest"       no call in progress (the user's code runs)               *)
(*   "enter"      executeTick() of cur starts                              *)
(*   "tick"       tick() of cur starts                                     *)
(*   "ticked"     tick() of cur has returned ret                           *)
(*   "preempted"  a pre-condition or pre_tick returned ret instead         *)
(*   "reply"      executeTick() of cur returned ret to its caller          *)
(*   "sleeping"   tickWhileRunning() waits before its next tick            *)
(*   "halting"    haltTree() is between its two passes                     *)
(*                                                                         *)
(* The callers of cur are its ancestors, so no stack is needed; at rest cur*)
(* is the root of the tree in use.  Trees share nothing, so one of them is *)
(* in use all the time: the others show what happens when it is theirs.    *)
(* Child positions are 1-based (the code counts from 0).                   *)
(***************************************************************************)
EXTENDS NodeStatus, Integers, Sequences, FiniteSets

CONSTANTS
    Node,       \* the nodes of all trees
    Roots,      \* Tree::rootNode() of each tree
    Children,   \* children_nodes_ (child_node_ of a decorator, as one child)
    Parent,     \* the caller of a node's executeTick (of a root: itself)
    Above,      \* the proper ancestors of each node
    Kind,       \* the registration ID of each node
    PreConds,   \* the pre-condition scripts attached to each node
    PreTick,    \* the nodes with an injected pre_tick callback
    PostTick,   \* the nodes with an injected post_tick callback
    Throwing,   \* the nodes whose scripts or injected callbacks may throw
    MaxCount    \* bound: scripts throw while the count their node is left with is within

LeafKinds      == {"SyncAction", "SimpleAction", "Condition", "StatefulAction"}
LinearKinds    == {"Sequence", "AsyncSequence", "Fallback", "AsyncFallback",
                   "SequenceWithMemory"}
ReactiveKinds  == {"ReactiveSequence", "ReactiveFallback"}
ParallelKinds  == {"Parallel", "ParallelAll"}
BranchKinds    == {"IfThenElse", "WhileDoElse"}
ControlKinds   == LinearKinds \cup ReactiveKinds \cup ParallelKinds
                  \cup BranchKinds \cup {"Switch"}
UpdatedKinds   == {"SkipUnlessUpdated", "WaitValueUpdate"}
DecoratorKinds == {"Inverter", "ForceSuccess", "ForceFailure", "SubTree",
                   "KeepRunningUntilFailure", "Repeat", "RetryUntilSuccessful",
                   "RunOnce", "Precondition", "LoopNode", "SimpleDecorator"}
                  \cup UpdatedKinds
PreCond        == {"FAILURE_IF", "SUCCESS_IF", "SKIP_IF", "WHILE_TRUE"}

Positions(n) == DOMAIN Children[n]
Count(n)     == Len(Children[n])
Kids(n)      == {Children[n][i] : i \in Positions(n)}
RootOf(n)    == CHOOSE r \in Roots : r = n \/ r \in Above[n]
TreeOf(r)    == {n \in Node : n = r \/ r \in Above[n]}

ASSUME TreeAssumption ==
    /\ Roots \subseteq Node
    /\ Children \in [Node -> Seq(Node)]
    /\ Parent \in [Node -> Node]
    /\ \A n \in Node : \A i \in Positions(n) :
          Children[n][i] \notin Roots /\ Parent[Children[n][i]] = n
    /\ \A c \in Node \ Roots : c \in Kids(Parent[c])
    /\ \A n \in Node : \A i, j \in Positions(n) :
          Children[n][i] = Children[n][j] => i = j
    /\ Above \in [Node -> SUBSET Node]
    /\ \A r \in Roots : Above[r] = {}
    /\ \A c \in Node \ Roots : Above[c] = {Parent[c]} \cup Above[Parent[c]]
    /\ \A n \in Node : n \notin Above[n]
    /\ \A n \in Node \ Roots : Above[n] \cap Roots # {}
    /\ \A x \in Node : \A a \in Above[x] :
          \E k \in Kids(a) : k = x \/ k \in Above[x]

\* The ancestors of a node are those on its one path from the root.
ASSUME PathAssumption ==
    \A x \in Node : \A a, b \in Above[x] :
        /\ Above[a] \subseteq Above[x]
        /\ a = b \/ a \in Above[b] \/ b \in Above[a]

ASSUME KindAssumption ==
    /\ Kind \in [Node -> LeafKinds \cup ControlKinds \cup DecoratorKinds]
    /\ \A n \in Node :
          /\ Kind[n] \in LeafKinds      => Count(n) = 0
          /\ Kind[n] \in ControlKinds   => Count(n) > 0
          /\ Kind[n] \in DecoratorKinds => Count(n) = 1
          /\ Kind[n] \in BranchKinds    => Count(n) \in {2, 3}

ASSUME CallbackAssumption ==
    /\ PreConds \in [Node -> SUBSET PreCond]
    /\ PreTick \subseteq Node
    /\ PostTick \subseteq Node
    /\ Throwing \subseteq Node
    /\ MaxCount \in Nat

VARIABLES
    status,   \* _p->status of each node
    mem,      \* the member variables each class keeps between two ticks
    frame,    \* the local variables of each tick() in progress
    heard,    \* what each node last answered to its parent, since the parent's
              \* current execution began (IDLE: nothing); read by properties only
    pc, cur, ret,
    ready,    \* WakeUpSignal::ready_
    opt       \* the TickOption of the tickRoot() call in progress, or "none"

vars == <<status, mem, frame, heard, pc, cur, ret, ready, opt>>

-------------------------------------------------------------------------------
(* State                                                                   *)

Frame == [j : Nat, prev : NodeStatus, skips : Nat]

NoFrame == [j |-> 0, prev |-> IDLE, skips |-> 0]

(***************************************************************************)
(* idx        current_child_idx_, child_idx_, running_child_ (0 for -1)    *)
(* count      skipped_count_, repeat_count_, try_count_                    *)
(* succeeded, failed   completed_list_, split by what the child answered   *)
(* flag       already_ticked_, _children_running, still_executing_child_,  *)
(*            child_running_                                               *)
(* returned   returned_status_                                             *)
(***************************************************************************)
Memory == [idx : Nat, count : Nat, succeeded : SUBSET Nat,
           failed : SUBSET Nat, flag : BOOLEAN, returned : NodeStatus]

FreshMem(n) ==
    [idx |-> IF Kind[n] \in ReactiveKinds \cup {"Switch"} THEN 0 ELSE 1,
     count |-> 0, succeeded |-> {}, failed |-> {}, flag |-> FALSE,
     returned |-> IDLE]

-------------------------------------------------------------------------------
(* Halting                                                                 *)

\* Mutants of KeepsMemory: no halt() resets the members, or every halt() does.
HaltKeepsMembers  == ControlKinds \cup DecoratorKinds
HaltClearsMembers == {}

\* Classes whose halt() leaves their own member variables alone.
KeepsMemory == {"SequenceWithMemory", "RunOnce", "Precondition", "LoopNode"}

\* Mutant of StopsHalt: classes that override halt() and forget the children.
HaltNotPassedOn(n) == Kind[n] \in DecoratorKinds \cup ParallelKinds \cup {"WhileDoElse"}

\* The only halt() that neither halts the child nor resets its own status.
StopsHalt(n) == Kind[n] \in UpdatedKinds

(***************************************************************************)
(* The nodes whose haltNode() runs when haltNode() of n does: n, and below *)
(* it every RUNNING node reached through RUNNING nodes that pass it on.    *)
(***************************************************************************)
HaltedFrom(n) ==
    {n} \cup {x \in Node :
                /\ n \in Above[x]
                /\ status[x] = RUNNING
                /\ \A a \in Above[x] : n \in Above[a] => status[a] = RUNNING
                /\ \A a \in Above[x] : (a = n \/ n \in Above[a]) => ~StopsHalt(a)}

\* haltNode() on the RUNNING ones among the nodes C.
HaltedBy(C) == UNION {HaltedFrom(c) : c \in {x \in C : status[x] = RUNNING}}

\* A halt() that goes down resets the status of its node and of the children.
ResetByHalt(H, x) ==
    \/ x \in H /\ ~StopsHalt(x)
    \/ x \notin Roots /\ Parent[x] \in H /\ ~StopsHalt(Parent[x])

StatusAfter(H, R) ==
    [x \in Node |-> IF x \in R \/ ResetByHalt(H, x) THEN IDLE ELSE status[x]]

MemAfter(H) ==
    [x \in Node |-> IF x \in H /\ Kind[x] \notin KeepsMemory
                    THEN FreshMem(x) ELSE mem[x]]

HeardAfter(H) ==
    [x \in Node |-> IF x \notin Roots /\ Parent[x] \in H /\ Kind[Parent[x]] \notin KeepsMemory
                    THEN IDLE ELSE heard[x]]

\* Mutant of ResetChildren: a child whose status is reset first is not halted.
ResetBeforeHalt(n, C, m) ==
    /\ status' = [x \in Node |-> IF x \in C THEN IDLE ELSE status[x]]
    /\ mem' = [mem EXCEPT ![n] = m]
    /\ UNCHANGED heard

\* Mutant of ResetChildren: the RUNNING children are halted, none is reset.
HaltWithoutReset(n, C, m) ==
    \E H \in {HaltedBy(C)} :
        /\ status' = StatusAfter(H, {})
        /\ mem' = [MemAfter(H) EXCEPT ![n] = m]
        /\ heard' = HeardAfter(H)

\* Node n halts and resets its children C and its own members become m.
ResetChildren(n, C, m) ==
    \E H \in {HaltedBy(C)} :
        /\ status' = StatusAfter(H, C)
        /\ mem' = [MemAfter(H) EXCEPT ![n] = m]
        /\ heard' = HeardAfter(H)

-------------------------------------------------------------------------------
(* The calls and returns of one tick                                       *)

Go(p, c, s) == pc' = p /\ cur' = c /\ ret' = s /\ UNCHANGED opt

Ticking(n, kinds) == pc = "tick" /\ cur = n /\ Kind[n] \in kinds

Replied(n, kinds) ==
    pc = "reply" /\ cur \notin Roots /\ Parent[cur] = n /\ Kind[n] \in kinds

Keep == UNCHANGED <<status, mem, heard>>

Remember(n, m) == mem' = [mem EXCEPT ![n] = m] /\ UNCHANGED <<status, heard>>

\* Mutant of SetRunning: setStatus(NodeStatus::RUNNING) is missing.
StatusNotSet(n) == Keep

SetRunning(n) ==
    status' = [status EXCEPT ![n] = RUNNING] /\ UNCHANGED <<mem, heard>>

\* executeTick() of the j-th child; the caller keeps the child's prior status.
TickChild(n, j, skips) ==
    /\ frame' = [frame EXCEPT ![n] = [j |-> j, prev |-> status'[Children[n][j]],
                                      skips |-> skips]]
    /\ Go("enter", Children[n][j], IDLE)
    /\ UNCHANGED ready

Return(n, s) == frame' = [frame EXCEPT ![n] = NoFrame] /\ Go("ticked", n, s)

Answer(n, s) == Return(n, s) /\ UNCHANGED ready

\* Mutant of Yield: RUNNING without a wake-up signal.
YieldSilently(n) == Return(n, RUNNING) /\ UNCHANGED ready

\* emitWakeUpSignal(); return RUNNING
Yield(n) == Return(n, RUNNING) /\ ready' = TRUE

\* An exception leaves tickRoot(): every call ends, nothing is undone.
Unwind ==
    /\ frame' = [x \in Node |-> NoFrame]
    /\ pc' = "rest" /\ cur' = RootOf(cur) /\ ret' = IDLE /\ opt' = "none"
    /\ UNCHANGED ready

Throw == Unwind /\ UNCHANGED <<mem, heard>>

-------------------------------------------------------------------------------
(* TreeNode::executeTick                                                   *)

(***************************************************************************)
(* checkPreConditions: scripts read the blackboard, so each may be true or *)
(* false.  An IDLE or SKIPPED node evaluates them in order; a RUNNING one  *)
(* only WHILE_TRUE.                                                        *)
(***************************************************************************)
PreOutcomes(n) ==
    {s \in NodeStatus :
        \/ s = FAILURE /\ "FAILURE_IF" \in PreConds[n]
        \/ s = SUCCESS /\ "SUCCESS_IF" \in PreConds[n]
        \/ s = SKIPPED /\ {"SKIP_IF", "WHILE_TRUE"} \cap PreConds[n] # {}}

PreConditionAnswers(n) ==
    /\ pc = "enter" /\ cur = n
    /\ ~isStatusActive(status[n])
    /\ \E s \in PreOutcomes(n) : Go("preempted", n, s)
    /\ Keep /\ UNCHANGED <<frame, ready>>

PreConditionHalts(n) ==
    /\ pc = "enter" /\ cur = n
    /\ status[n] = RUNNING /\ "WHILE_TRUE" \in PreConds[n]
    /\ LET H == HaltedFrom(n)
       IN  status' = StatusAfter(H, {}) /\ mem' = MemAfter(H) /\ heard' = HeardAfter(H)
    /\ Go("preempted", n, SKIPPED)
    /\ UNCHANGED <<frame, ready>>

\* The injected callback answers in place of tick().
PreTickSubstitutes(n) ==
    /\ pc = "enter" /\ cur = n
    /\ n \in PreTick /\ ~isStatusCompleted(status[n])
    /\ \E s \in Completed : Go("preempted", n, s)
    /\ Keep /\ UNCHANGED <<frame, ready>>

CallTick(n) ==
    /\ pc = "enter" /\ cur = n
    /\ Go("tick", n, IDLE)
    /\ Keep /\ UNCHANGED <<frame, ready>>

\* A completed child of a decorator is reset when the decorator returns.
ResetByDecorator(n, x) ==
    /\ Kind[n] \in DecoratorKinds
    /\ x \in Kids(n)
    /\ isStatusCompleted(status[x])

\* A parent that has finished starts its next execution with nothing heard.
Forgets(n, s) ==
    s # RUNNING /\ ~(Kind[n] = "SequenceWithMemory" /\ s = FAILURE)

(***************************************************************************)
(* The rest of executeTick once the answer is known: post_tick may replace *)
(* it, a SKIPPED answer leaves the node's own status as it is, IDLE cannot *)
(* be set, and a synchronous action must not answer RUNNING.               *)
(***************************************************************************)
Leave(n) ==
    /\ pc \in {"ticked", "preempted"} /\ cur = n
    /\ \E s \in IF n \in PostTick THEN {ret} \cup Completed ELSE {ret} :
         \/ s = IDLE /\ Throw /\ UNCHANGED status
         \/ /\ s = RUNNING /\ Kind[n] \in {"SyncAction", "SimpleAction"}
            /\ status' = [status EXCEPT ![n] = RUNNING]
            /\ Throw
         \/ /\ s # IDLE
            /\ s = RUNNING => Kind[n] \notin {"SyncAction", "SimpleAction"}
            /\ status' = [x \in Node |->
                            IF x = n THEN (IF s = SKIPPED THEN status[n] ELSE s)
                            ELSE IF ResetByDecorator(n, x) THEN IDLE ELSE status[x]]
            /\ heard' = [x \in Node |-> IF x = n THEN s
                                        ELSE IF x \in Kids(n) /\ Forgets(n, s) THEN IDLE
                                        ELSE heard[x]]
            /\ Go("reply", n, s)
            /\ UNCHANGED <<mem, frame, ready>>

\* A pre-condition script or pre_tick throws, before anything has changed.
PreConditionThrows(n) ==
    /\ pc = "enter" /\ cur = n /\ n \in Throwing
    /\ \/ PreConds[n] # {} /\ ~isStatusActive(status[n])
       \/ "WHILE_TRUE" \in PreConds[n] /\ status[n] = RUNNING
       \/ n \in PreTick /\ ~isStatusCompleted(status[n])
    /\ Throw /\ UNCHANGED status

(***************************************************************************)
(* A post-condition script, which only a completed answer calls for, or    *)
(* post_tick throws: tick() has returned, with what that did to the members*)
(* of the node, but setStatus() is not reached, and neither is the reset of*)
(* a decorator's child.                                                    *)
(***************************************************************************)
PostConditionThrows(n) ==
    /\ pc \in {"ticked", "preempted"} /\ cur = n /\ n \in Throwing
    /\ isStatusCompleted(ret) \/ (n \in PostTick /\ ret # IDLE)
    /\ mem[n].count <= MaxCount
    /\ heard' = [x \in Node |->
                    IF pc = "ticked" /\ x \in Kids(n) /\ Forgets(n, ret) THEN IDLE
                    ELSE heard[x]]
    /\ Unwind
    /\ UNCHANGED <<status, mem>>

ExecuteTick(n) ==
    PreConditionAnswers(n) \/ PreConditionHalts(n) \/ PreTickSubstitutes(n)
    \/ CallTick(n) \/ Leave(n) \/ PreConditionThrows(n) \/ PostConditionThrows(n)
===============================================================================
