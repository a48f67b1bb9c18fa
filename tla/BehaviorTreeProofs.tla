-------------------------- MODULE BehaviorTreeProofs --------------------------
(***************************************************************************)
(* What holds of every tree, for every kind, limit and callback of its     *)
(* nodes.  Type correctness comes first: one lemma for each way a step     *)
(* changes the members of nodes (StateOK) and for each way it moves between*)
(* the nodes of the tree (CallOK), then one step per class of node.  How   *)
(* far a halt reaches comes second.                                        *)
(***************************************************************************)
EXTENDS BehaviorTree, TLAPS

USE DEF NodeStatus, IDLE, RUNNING, SUCCESS, FAILURE, SKIPPED, Completed,
        isStatusActive, isStatusCompleted

-------------------------------------------------------------------------------
(* The tree                                                                *)

\* The positions of a node's children are 1 .. Count(n), each that of a node.
LEMMA TreeFacts ==
    ASSUME NEW n \in Node
    PROVE  /\ Count(n) \in Nat
           /\ Positions(n) = 1 .. Count(n)
           /\ \A i \in Positions(n) : Children[n][i] \in Node
           /\ Kids(n) \subseteq Node
BY TreeAssumption DEF Count, Positions, Kids

\* Every node is below the root of some tree.
LEMMA RootOfOK ==
    ASSUME NEW n \in Node
    PROVE  RootOf(n) \in Roots /\ RootOf(n) \in Node
<1>1. \E r \in Roots : r = n \/ r \in Above[n]
  BY TreeAssumption
<1>. QED
  BY <1>1, TreeAssumption DEF RootOf

\* What a class starts with, and starts again with after a halt, is in its range.
LEMMA FreshMemOK ==
    ASSUME NEW n \in Node
    PROVE  FreshMem(n) \in Memory /\ IndexOK(n, FreshMem(n))
<1>1. FreshMem(n) \in Memory
  BY DEF FreshMem, Memory
<1>2. Kind[n] \in LinearKinds \cup {"IfThenElse"} => 1 \in Positions(n)
  BY TreeFacts, KindAssumption DEF LinearKinds, ControlKinds, BranchKinds
<1>3. IndexOK(n, FreshMem(n))
  BY <1>2 DEF FreshMem, IndexOK, ReactiveKinds, LinearKinds
<1>. QED
  BY <1>1, <1>3

-------------------------------------------------------------------------------
(* Steps that change the members of nodes                                  *)

\* A halt that reaches the nodes H, whatever they are.
LEMMA HaltOK ==
    ASSUME StateOK, NEW H, NEW R
    PROVE  /\ StatusAfter(H, R) \in [Node -> NodeStatus]
           /\ MemAfter(H) \in [Node -> Memory]
           /\ HeardAfter(H) \in [Node -> NodeStatus]
           /\ \A n \in Node : IndexOK(n, MemAfter(H)[n])
<1>1. StatusAfter(H, R) \in [Node -> NodeStatus]
  BY DEF StatusAfter, StateOK
<1>2. MemAfter(H) \in [Node -> Memory]
  BY FreshMemOK DEF MemAfter, StateOK
<1>3. HeardAfter(H) \in [Node -> NodeStatus]
  BY DEF HeardAfter, StateOK
<1>4. ASSUME NEW n \in Node
      PROVE  IndexOK(n, MemAfter(H)[n])
  BY FreshMemOK DEF MemAfter, StateOK
<1>. QED
  BY <1>1, <1>2, <1>3, <1>4

\* resetChildren(), haltChild(), resetChild().
LEMMA ResetChildrenOK ==
    ASSUME StateOK, NEW n \in Node, NEW C, NEW m \in Memory, IndexOK(n, m),
           ResetChildren(n, C, m)
    PROVE  StateOK'
<1>1. PICK H : /\ status' = StatusAfter(H, C)
               /\ mem' = [MemAfter(H) EXCEPT ![n] = m]
               /\ heard' = HeardAfter(H)
  BY DEF ResetChildren
<1>2. /\ StatusAfter(H, C) \in [Node -> NodeStatus]
      /\ MemAfter(H) \in [Node -> Memory]
      /\ HeardAfter(H) \in [Node -> NodeStatus]
      /\ \A x \in Node : IndexOK(x, MemAfter(H)[x])
  BY HaltOK
<1>3. mem' \in [Node -> Memory]
  BY <1>1, <1>2
<1>4. ASSUME NEW x \in Node
      PROVE  IndexOK(x, mem'[x])
  <2>1. CASE x = n
    BY <2>1, <1>1, <1>2
  <2>2. CASE x # n
    BY <2>2, <1>1, <1>2
  <2>. QED
    BY <2>1, <2>2
<1>. QED
  BY <1>1, <1>2, <1>3, <1>4 DEF StateOK, IndexOK

\* A node's own members change, and perhaps its own status.
LEMMA OwnStateOK ==
    ASSUME StateOK, NEW n \in Node, NEW m \in Memory, IndexOK(n, m),
           NEW s \in NodeStatus,
           status' = status \/ status' = [status EXCEPT ![n] = s],
           mem' = [mem EXCEPT ![n] = m],
           heard' = heard
    PROVE  StateOK'
<1>1. status' \in [Node -> NodeStatus] /\ mem' \in [Node -> Memory]
  BY DEF StateOK
<1>2. ASSUME NEW x \in Node
      PROVE  IndexOK(x, mem'[x])
  BY DEF StateOK
<1>. QED
  BY <1>1, <1>2 DEF StateOK, IndexOK

\* Nothing but one node's status changes.
LEMMA StatusOK ==
    ASSUME StateOK, NEW n \in Node, NEW s \in NodeStatus,
           status' = status \/ status' = [status EXCEPT ![n] = s],
           UNCHANGED <<mem, heard>>
    PROVE  StateOK'
BY DEF StateOK, IndexOK

\* A step that changes no status and no member of any node.
LEMMA KeepOK ==
    ASSUME StateOK, Keep
    PROVE  StateOK'
BY DEF StateOK, IndexOK, Keep

\* A node only writes its own member variables.
LEMMA RememberOK ==
    ASSUME StateOK, NEW n \in Node, NEW m \in Memory, IndexOK(n, m), Remember(n, m)
    PROVE  StateOK'
BY OwnStateOK DEF Remember

-------------------------------------------------------------------------------
(* Steps that move in the tree                                             *)

\* A parent calls executeTick() of the child at one of its positions.
LEMMA TickChildOK ==
    ASSUME CallOK, StateOK', NEW n \in Node, NEW j \in Positions(n), NEW skips \in Nat,
           TickChild(n, j, skips)
    PROVE  CallOK'
<1>1. Children[n][j] \in Node /\ j \in Nat
  BY TreeFacts
<1>. DEFINE f == [j |-> j, prev |-> status'[Children[n][j]], skips |-> skips]
<1>2. f \in Frame /\ f.j = j
  BY <1>1 DEF Frame, StateOK
<1>3. frame' = [frame EXCEPT ![n] = f]
  BY DEF TickChild
<1>. HIDE DEF f
<1>4. /\ frame' \in [Node -> Frame]
      /\ \A x \in Node : frame'[x].j \in Positions(x) \cup {0}
  BY <1>2, <1>3 DEF CallOK
<1>. QED
  BY <1>1, <1>4 DEF CallOK, TickChild, Go, Positions

\* A node whose tick() is not in progress has no local variables.
LEMMA NoFrameOK == NoFrame \in Frame /\ NoFrame.j = 0
BY DEF NoFrame, Frame

\* tick() of a node returns.
LEMMA ReturnOK ==
    ASSUME CallOK, NEW n \in Node, NEW s \in NodeStatus, Return(n, s),
           ready' \in BOOLEAN
    PROVE  CallOK'
<1>1. /\ frame' \in [Node -> Frame]
      /\ \A x \in Node : frame'[x].j \in Positions(x) \cup {0}
  BY NoFrameOK DEF CallOK, Return
<1>. QED
  BY <1>1 DEF CallOK, Return, Go, Positions

\* tick() of a node returns, perhaps after emitWakeUpSignal().
LEMMA AnswerOK ==
    ASSUME CallOK, NEW n \in Node, NEW s \in NodeStatus,
           Answer(n, s) \/ (s = RUNNING /\ Yield(n))
    PROVE  CallOK'
BY ReturnOK DEF Answer, Yield, CallOK

\* An exception leaves tickRoot() and every call below it ends.
LEMMA UnwindOK ==
    ASSUME CallOK, Unwind
    PROVE  CallOK'
<1>1. /\ frame' \in [Node -> Frame]
      /\ \A x \in Node : frame'[x].j \in Positions(x) \cup {0}
  BY NoFrameOK DEF Unwind
<1>2. cur \in Node
  BY DEF CallOK
<1>. QED
  BY <1>1, <1>2, RootOfOK DEF CallOK, Unwind, Positions

\* A move that leaves every activation as it is.
LEMMA GoOK ==
    ASSUME CallOK, NEW c \in Node, NEW s \in NodeStatus, UNCHANGED frame,
           ready' \in BOOLEAN, opt' \in TickOption \cup {"none"},
           pc' \in {"rest", "enter", "tick", "ticked", "preempted", "reply", "sleeping",
                    "halting"},
           cur' = c, ret' = s
    PROVE  CallOK'
BY DEF CallOK, Positions
-------------------------------------------------------------------------------
(* The steps of executeTick and of the leaves                              *)

\* An exception after which only the status of the node that threw may differ.
LEMMA ThrowOK ==
    ASSUME TypeOK, Throw, NEW n \in Node, NEW s \in NodeStatus,
           status' = status \/ status' = [status EXCEPT ![n] = s]
    PROVE  TypeOK'
BY UnwindOK, StatusOK DEF Throw, TypeOK

\* The end of executeTick(): post_tick, setStatus and what the parent sees.
LEMMA LeaveOK ==
    ASSUME TypeOK, NEW n \in Node, Leave(n)
    PROVE  TypeOK'
<1>1. PICK s \in {ret} \cup Completed :
        \/ s = IDLE /\ Throw /\ UNCHANGED status
        \/ /\ s = RUNNING /\ Kind[n] \in {"SyncAction", "SimpleAction"}
           /\ status' = [status EXCEPT ![n] = RUNNING]
           /\ Throw
        \/ /\ s # IDLE
           /\ s = RUNNING => Kind[n] \notin {"SyncAction", "SimpleAction"}
           /\ status' = [x \in Node |->
                           IF x = n THEN (IF s = SKIPPED THEN status[n] ELSE s)
                           ELSE IF ResetByDecorator(n, x) THEN IDLE ELSE status[x]]
           /\ heard' = [x \in Node |-> IF x = n THEN s
                                       ELSE IF x \in Kids(n) /\ Forgets(n, s) THEN IDLE
                                       ELSE heard[x]]
           /\ Go("reply", n, s)
           /\ UNCHANGED <<mem, frame, ready>>
  BY DEF Leave
<1>2. s \in NodeStatus
  BY DEF TypeOK, CallOK
<1>3. CASE Throw /\ status' \in {status, [status EXCEPT ![n] = RUNNING]}
  BY <1>3, ThrowOK
<1>4. CASE /\ status' = [x \in Node |->
                           IF x = n THEN (IF s = SKIPPED THEN status[n] ELSE s)
                           ELSE IF ResetByDecorator(n, x) THEN IDLE ELSE status[x]]
           /\ heard' = [x \in Node |-> IF x = n THEN s
                                       ELSE IF x \in Kids(n) /\ Forgets(n, s) THEN IDLE
                                       ELSE heard[x]]
           /\ Go("reply", n, s)
           /\ UNCHANGED <<mem, frame, ready>>
  <2>1. status' \in [Node -> NodeStatus] /\ heard' \in [Node -> NodeStatus]
    BY <1>2, <1>4 DEF TypeOK, StateOK
  <2>2. StateOK'
    BY <1>4, <2>1 DEF TypeOK, StateOK, IndexOK
  <2>3. CallOK'
    BY <1>2, <1>4, GoOK DEF TypeOK, CallOK, Go
  <2>. QED
    BY <2>2, <2>3 DEF TypeOK
<1>. QED
  BY <1>1, <1>3, <1>4

ScriptThrows(n) == PreConditionThrows(n) \/ PostConditionThrows(n)

\* What a script that throws leaves: everything but what n had heard of its children.
LEMMA ScriptThrown ==
    ASSUME TypeOK, NEW n \in Node, ScriptThrows(n)
    PROVE  /\ cur = n /\ pc \in {"enter", "ticked", "preempted"}
           /\ Unwind /\ UNCHANGED <<status, mem>>
           /\ heard' \in [Node -> NodeStatus]
           /\ \A x \in Node : heard'[x] = heard[x] \/ (x \in Kids(n) /\ heard'[x] = IDLE)
<1>1. heard \in [Node -> NodeStatus]
  BY DEF TypeOK, StateOK
<1>2. CASE PreConditionThrows(n)
  BY <1>1, <1>2 DEF PreConditionThrows, Throw
<1>3. CASE PostConditionThrows(n)
  BY <1>1, <1>3 DEF PostConditionThrows
<1>. QED
  BY <1>2, <1>3 DEF ScriptThrows

\* Nothing has lost its type.
LEMMA ScriptThrowsOK ==
    ASSUME TypeOK, NEW n \in Node, ScriptThrows(n)
    PROVE  TypeOK'
<1>1. CallOK'
  BY ScriptThrown, UnwindOK DEF TypeOK
<1>2. StateOK'
  BY ScriptThrown DEF TypeOK, StateOK, IndexOK
<1>. QED
  BY <1>1, <1>2 DEF TypeOK

\* executeTick() around tick(): pre-conditions, pre_tick and the end.
LEMMA ExecuteTickOK ==
    ASSUME TypeOK, NEW n \in Node, ExecuteTick(n)
    PROVE  TypeOK'
<1>1. CASE PreConditionAnswers(n)
  <2>1. StateOK'
    BY <1>1, KeepOK DEF PreConditionAnswers, TypeOK
  <2>2. CallOK'
    BY <1>1, GoOK DEF PreConditionAnswers, PreOutcomes, TypeOK, CallOK, Go
  <2>. QED
    BY <2>1, <2>2 DEF TypeOK
<1>2. CASE PreConditionHalts(n)
  <2>1. StateOK'
    BY <1>2, HaltOK DEF PreConditionHalts, TypeOK, StateOK, IndexOK
  <2>2. CallOK'
    BY <1>2, GoOK DEF PreConditionHalts, TypeOK, CallOK, Go
  <2>. QED
    BY <2>1, <2>2 DEF TypeOK
<1>3. CASE PreTickSubstitutes(n)
  <2>1. StateOK'
    BY <1>3, KeepOK DEF PreTickSubstitutes, TypeOK
  <2>2. CallOK'
    BY <1>3, GoOK DEF PreTickSubstitutes, TypeOK, CallOK, Go
  <2>. QED
    BY <2>1, <2>2 DEF TypeOK
<1>4. CASE CallTick(n)
  <2>1. StateOK'
    BY <1>4, KeepOK DEF CallTick, TypeOK
  <2>2. CallOK'
    BY <1>4, GoOK DEF CallTick, TypeOK, CallOK, Go
  <2>. QED
    BY <2>1, <2>2 DEF TypeOK
<1>. QED
  BY <1>1, <1>2, <1>3, <1>4, LeaveOK, ScriptThrowsOK DEF ExecuteTick, ScriptThrows

\* tick() of every leaf class.
LEMMA LeafTickOK ==
    ASSUME TypeOK, NEW n \in Node, LeafTick(n)
    PROVE  TypeOK'
<1>1. Answers[n] \subseteq NodeStatus
  BY AnswersAssumption
<1>2. CASE SyncTick(n)
  BY <1>1, <1>2, KeepOK, AnswerOK DEF SyncTick, TypeOK
<1>3. CASE SimpleActionTick(n)
  <2>1. PICK s \in Answers[n] :
          \/ status' = [status EXCEPT ![n] = s] /\ Answer(n, s) /\ UNCHANGED <<mem, heard>>
          \/ status' = [status EXCEPT ![n] = IF @ = IDLE THEN RUNNING ELSE @] /\ Throw
    BY <1>3 DEF SimpleActionTick
  <2>2. CASE status' = [status EXCEPT ![n] = s] /\ Answer(n, s) /\ UNCHANGED <<mem, heard>>
    BY <1>1, <2>2, StatusOK, AnswerOK DEF TypeOK
  <2>3. CASE status' = [status EXCEPT ![n] = IF @ = IDLE THEN RUNNING ELSE @] /\ Throw
    <3>1. (IF status[n] = IDLE THEN RUNNING ELSE status[n]) \in NodeStatus
      BY DEF TypeOK, StateOK
    <3>. QED
      BY <2>3, <3>1, ThrowOK
  <2>. QED
    BY <2>1, <2>2, <2>3
<1>4. CASE StatefulTick(n)
  <2>1. status[n] \in NodeStatus
    BY DEF TypeOK, StateOK
  <2>2. CASE Keep /\ \E s \in NodeStatus : Answer(n, s)
    BY <2>2, KeepOK, AnswerOK DEF TypeOK
  <2>3. CASE Throw /\ UNCHANGED status
    BY <2>1, <2>3, ThrowOK
  <2>. QED
    BY <1>1, <1>4, <2>1, <2>2, <2>3 DEF StatefulTick
<1>. QED
  BY <1>2, <1>3, <1>4 DEF LeafTick

-------------------------------------------------------------------------------
(* The steps of the control nodes                                          *)

\* What a control node may do when its members stay in range.
LEMMA StepOK ==
    ASSUME TypeOK, NEW n \in Node, StateOK',
           \/ \E j \in Positions(n), k \in Nat : TickChild(n, j, k)
           \/ \E s \in NodeStatus : Answer(n, s)
           \/ Yield(n)
           \/ Unwind
    PROVE  TypeOK'
BY TickChildOK, AnswerOK, UnwindOK DEF TypeOK

\* The members of a node are in range, and so is each field of theirs.
LEMMA MemFacts ==
    ASSUME StateOK, NEW n \in Node
    PROVE  /\ mem[n] \in Memory /\ IndexOK(n, mem[n]) /\ status[n] \in NodeStatus
           /\ mem[n].idx \in Nat /\ mem[n].count \in Nat
           /\ mem[n].succeeded \subseteq Nat /\ mem[n].failed \subseteq Nat
           /\ mem[n].flag \in BOOLEAN /\ mem[n].returned \in NodeStatus
BY DEF StateOK, Memory

\* tick() of a sequence or fallback up to the child at current_child_idx_.
LEMMA LinearTickOK ==
    ASSUME TypeOK, NEW n \in Node, NEW kinds \in SUBSET LinearKinds, LinearTick(n, kinds)
    PROVE  TypeOK'
<1>1. StateOK
  BY DEF TypeOK
<1>. DEFINE k == IF isStatusActive(status[n]) THEN mem[n].count ELSE 0
            m == [mem[n] EXCEPT !.count = k]
<1>2. m \in Memory /\ m.idx = mem[n].idx
  <2>1. k \in Nat
    BY <1>1, MemFacts
  <2>. HIDE DEF k
  <2>. QED
    BY <1>1, <2>1, MemFacts DEF Memory
<1>3. IndexOK(n, m)
  BY <1>1, <1>2, MemFacts DEF IndexOK
<1>4. mem' = [mem EXCEPT ![n] = m]
  BY <1>1 DEF LinearTick, StateOK
<1>. HIDE DEF m
<1>5. StateOK'
  BY <1>1, <1>2, <1>3, <1>4, OwnStateOK DEF LinearTick
<1>6. mem[n].idx \in Positions(n)
  BY <1>1, MemFacts DEF IndexOK, LinearTick, Ticking
<1>. QED
  BY <1>5, <1>6, StepOK DEF LinearTick

\* current_child_idx_++ happens only while another child is left.
LEMMA LinearNextOK ==
    ASSUME TypeOK, NEW n \in Node, Kind[n] \in LinearKinds, NEW yields,
           LinearNext(n, yields)
    PROVE  TypeOK'
<1>1. StateOK /\ mem[n].idx \in Positions(n)
  BY MemFacts DEF TypeOK, IndexOK
<1>. DEFINE m == [mem[n] EXCEPT !.idx = mem[n].idx + 1, !.count = SkippedSoFar(n)]
<1>2. mem[n].idx + 1 \in Positions(n)
  BY <1>1, TreeFacts DEF LinearNext, LastChild
<1>3. SkippedSoFar(n) \in Nat
  BY <1>1, MemFacts DEF SkippedSoFar
<1>4. m \in Memory /\ m.idx = mem[n].idx + 1
  <2>1. mem[n].idx + 1 \in Nat
    BY <1>1, MemFacts
  <2>. QED
    BY <1>1, <1>3, <2>1, MemFacts DEF Memory
<1>5. IndexOK(n, m)
  BY <1>2, <1>4 DEF IndexOK, LinearKinds, ReactiveKinds
<1>. HIDE DEF m
<1>6. StateOK'
  BY <1>1, <1>4, <1>5, RememberOK DEF LinearNext, m
<1>. QED
  BY <1>2, <1>6, StepOK DEF LinearNext

\* The last child answered: the node starts again from the first.
LEMMA LinearEndOK ==
    ASSUME TypeOK, NEW n \in Node, NEW s \in NodeStatus, LinearEnd(n, s)
    PROVE  TypeOK'
BY FreshMemOK, ResetChildrenOK, StepOK DEF LinearEnd, TypeOK

\* SequenceNode::tick and FallbackNode::tick after a child.
LEMMA LinearReplyOK ==
    ASSUME TypeOK, NEW n \in Node, Kind[n] \in LinearKinds, NEW stop \in Completed,
           NEW yields, LinearReply(n, stop, yields)
    PROVE  TypeOK'
<1>1. CASE Keep /\ Answer(n, RUNNING)
  BY <1>1, KeepOK, StepOK DEF TypeOK
<1>2. CASE /\ ResetChildren(n, Kids(n), [mem[n] EXCEPT !.idx = 1])
           /\ Answer(n, stop)
  <2>1. StateOK
    BY DEF TypeOK
  <2>2. 1 \in Positions(n)
    BY TreeFacts, KindAssumption DEF ControlKinds
  <2>. DEFINE m == [mem[n] EXCEPT !.idx = 1]
  <2>3. m \in Memory /\ m.idx = 1
    BY <2>1, MemFacts DEF Memory
  <2>4. IndexOK(n, m)
    BY <2>2, <2>3 DEF IndexOK, LinearKinds, ReactiveKinds
  <2>. HIDE DEF m
  <2>5. StateOK'
    BY <1>2, <2>1, <2>3, <2>4, ResetChildrenOK DEF m
  <2>. QED
    BY <1>2, <2>5, StepOK
<1>3. CASE LinearNext(n, yields) \/ LinearEnd(n, Opposite(stop))
  BY <1>3, LinearNextOK, LinearEndOK DEF Opposite
<1>. QED
  BY <1>1, <1>2, <1>3 DEF LinearReply

\* SequenceWithMemory::tick after a child.
LEMMA MemoryReplyOK ==
    ASSUME TypeOK, NEW n \in Node, MemoryReply(n)
    PROVE  TypeOK'
<1>1. StateOK /\ Kind[n] \in LinearKinds
  BY DEF TypeOK, MemoryReply, Replied, LinearKinds
<1>2. CASE Keep /\ Answer(n, RUNNING)
  BY <1>1, <1>2, KeepOK, StepOK
<1>3. CASE /\ ResetChildren(n, {Children[n][i] : i \in mem[n].idx .. Count(n)}, mem[n])
           /\ Answer(n, FAILURE)
  BY <1>1, <1>3, MemFacts, ResetChildrenOK, StepOK
<1>4. CASE LinearNext(n, TRUE) \/ LinearEnd(n, SUCCESS)
  BY <1>1, <1>4, LinearNextOK, LinearEndOK
<1>. QED
  BY <1>2, <1>3, <1>4 DEF MemoryReply

\* ReactiveSequence::tick and ReactiveFallback::tick up to the first child.
LEMMA ReactiveTickOK ==
    ASSUME TypeOK, NEW n \in Node, NEW kinds \in SUBSET ReactiveKinds,
           ReactiveTick(n, kinds)
    PROVE  TypeOK'
<1>1. StateOK /\ Kind[n] \in ReactiveKinds
  BY DEF TypeOK, ReactiveTick, Ticking
<1>. DEFINE m == [mem[n] EXCEPT !.idx = IF status[n] = IDLE THEN 0 ELSE @]
<1>2. m \in Memory /\ m.idx \in {0, mem[n].idx}
  BY <1>1, MemFacts DEF Memory
<1>3. IndexOK(n, m)
  BY <1>1, <1>2, MemFacts DEF IndexOK, ReactiveKinds, LinearKinds
<1>4. mem' = [mem EXCEPT ![n] = m]
  BY <1>1 DEF ReactiveTick, StateOK
<1>. HIDE DEF m
<1>5. StateOK'
  BY <1>1, <1>2, <1>3, <1>4, OwnStateOK DEF ReactiveTick
<1>6. 1 \in Positions(n)
  BY <1>1, TreeFacts, KindAssumption DEF ControlKinds
<1>. QED
  BY <1>5, <1>6, StepOK DEF ReactiveTick

\* ReactiveSequence::tick and ReactiveFallback::tick after a child.
LEMMA ReactiveReplyOK ==
    ASSUME TypeOK, NEW n \in Node, NEW kinds \in SUBSET ReactiveKinds,
           NEW stop \in Completed, ReactiveReply(n, kinds, stop)
    PROVE  TypeOK'
<1>1. StateOK /\ Kind[n] \in ReactiveKinds
  BY DEF TypeOK, ReactiveReply, Replied
<1>. DEFINE j == frame[n].j
            skips == frame[n].skips + (IF ret = SKIPPED THEN 1 ELSE 0)
<1>2. j \in Positions(n) \cup {0} /\ j \in Nat /\ skips \in Nat
  BY TreeFacts DEF TypeOK, CallOK, Frame
<1>3. mem[n] \in Memory /\ IndexOK(n, mem[n])
  BY <1>1, MemFacts
<1>. HIDE DEF j, skips
<1>4. CASE ReactiveRunning(n)
  <2>. DEFINE m == [mem[n] EXCEPT !.idx = IF mem[n].idx = 0 THEN j ELSE @]
  <2>1. m \in Memory /\ m.idx \in {j, mem[n].idx}
    BY <1>2, <1>3 DEF Memory
  <2>2. IndexOK(n, m)
    BY <1>1, <1>2, <1>3, <2>1 DEF IndexOK, ReactiveKinds, LinearKinds
  <2>3. ResetChildren(n, Kids(n) \ {cur}, m) /\ (Unwind \/ Answer(n, RUNNING))
    BY <1>4 DEF ReactiveRunning, j
  <2>. HIDE DEF m
  <2>4. StateOK'
    BY <1>1, <2>1, <2>2, <2>3, ResetChildrenOK
  <2>. QED
    BY <2>3, <2>4, StepOK
<1>5. CASE ResetChildren(n, Kids(n), mem[n]) /\ \E s \in NodeStatus : Answer(n, s)
  BY <1>1, <1>3, <1>5, ResetChildrenOK, StepOK
<1>6. CASE /\ j < Count(n)
           /\ IF ret = SKIPPED THEN ResetChildren(n, {cur}, mem[n]) ELSE Keep
           /\ TickChild(n, j + 1, skips)
  <2>1. StateOK'
    BY <1>1, <1>3, <1>6, ResetChildrenOK, KeepOK
  <2>2. j + 1 \in Positions(n)
    BY <1>2, <1>6, TreeFacts
  <2>. QED
    BY <1>2, <1>6, <2>1, <2>2, StepOK
<1>. QED
  BY <1>4, <1>5, <1>6 DEF ReactiveReply, Opposite, j, skips

\* What a parallel node has collected is a set of its children's positions.
LEMMA CollectedOK ==
    ASSUME TypeOK, NEW n \in Node, Kind[n] \in ParallelKinds
    PROVE  Collected(n) \in Memory /\ IndexOK(n, Collected(n)) /\ SkippedNow(n) \in Nat
<1>1. StateOK /\ frame[n].j \in Nat /\ frame[n].skips \in Nat
  BY DEF TypeOK, CallOK, Frame
<1>2. Collected(n) \in Memory
  BY <1>1, MemFacts, ZenonT(40) DEF Collected, Memory
<1>3. IndexOK(n, Collected(n))
  BY DEF IndexOK, ParallelKinds, LinearKinds, ReactiveKinds
<1>4. SkippedNow(n) \in Nat
  BY <1>1 DEF SkippedNow
<1>. QED
  BY <1>2, <1>3, <1>4

\* The next child a parallel node ticks is one of its own.
LEMMA TickFirstOK ==
    ASSUME TypeOK, StateOK', NEW n \in Node, NEW m, NEW j, NEW skips \in Nat,
           TickFirst(n, Open(n, m, j), skips)
    PROVE  TypeOK'
BY StepOK DEF TickFirst, Open

\* ParallelNode::tick and ParallelAllNode::tick up to the first child.
LEMMA ParallelTickOK ==
    ASSUME TypeOK, NEW n \in Node, NEW kinds, NEW required, ParallelTick(n, kinds, required)
    PROVE  TypeOK'
<1>1. CASE Throw /\ UNCHANGED status
  BY <1>1, ThrowOK DEF TypeOK, StateOK
<1>2. CASE SetRunning(n) /\ TickFirst(n, Open(n, mem[n], 0), 0)
  BY <1>2, StatusOK, TickFirstOK DEF SetRunning, TypeOK
<1>. QED
  BY <1>1, <1>2 DEF ParallelTick

\* A parallel node remembers what it collected, or starts again.
LEMMA ParallelReplyOK ==
    ASSUME TypeOK, NEW n \in Node, ParallelReply(n) \/ ParallelAllReply(n)
    PROVE  TypeOK'
<1>. DEFINE m == Collected(n)
            left == Open(n, m, frame[n].j)
            skips == SkippedNow(n)
<1>1. Kind[n] \in ParallelKinds
  BY DEF ParallelReply, ParallelAllReply, Replied, ParallelKinds
<1>2. StateOK /\ m \in Memory /\ IndexOK(n, m) /\ skips \in Nat
  BY <1>1, CollectedOK DEF TypeOK
<1>3. \/ ResetChildren(n, Kids(n), FreshMem(n)) /\ \E s \in NodeStatus : Answer(n, s)
      \/ Remember(n, m) /\ TickFirst(n, left, skips)
      \/ Remember(n, m) /\ \E s \in NodeStatus : Answer(n, s)
  BY DEF ParallelReply, ParallelAllReply
<1>4. CASE ResetChildren(n, Kids(n), FreshMem(n)) /\ \E s \in NodeStatus : Answer(n, s)
  BY <1>2, <1>4, FreshMemOK, ResetChildrenOK, StepOK
<1>5. CASE Remember(n, m)
  <2>1. StateOK'
    BY <1>2, <1>5, RememberOK
  <2>. HIDE DEF m, skips
  <2>2. CASE TickFirst(n, left, skips)
    BY <1>2, <2>1, <2>2, TickFirstOK
  <2>3. CASE \E s \in NodeStatus : Answer(n, s)
    BY <2>1, <2>3, StepOK
  <2>4. CASE ResetChildren(n, Kids(n), FreshMem(n)) /\ \E s \in NodeStatus : Answer(n, s)
    BY <1>4, <2>4
  <2>. QED
    BY <1>3, <2>2, <2>3, <2>4
<1>. QED
  BY <1>3, <1>4, <1>5

\* A node that only becomes RUNNING before it ticks its j-th child.
LEMMA SetRunningOK ==
    ASSUME TypeOK, NEW n \in Node, SetRunning(n), NEW j \in Positions(n),
           NEW skips \in Nat, TickChild(n, j, skips)
    PROVE  TypeOK'
BY StatusOK, StepOK DEF SetRunning, TypeOK

\* A node that halts and resets some children and keeps its members m.
LEMMA ResetOK ==
    ASSUME TypeOK, NEW n \in Node, NEW C, NEW m \in Memory, IndexOK(n, m),
           ResetChildren(n, C, m),
           \/ \E j \in Positions(n), k \in Nat : TickChild(n, j, k)
           \/ \E s \in NodeStatus : Answer(n, s)
           \/ Yield(n)
    PROVE  TypeOK'
BY ResetChildrenOK, StepOK DEF TypeOK

\* A branch node has two or three children.
LEMMA BranchFacts ==
    ASSUME NEW n \in Node, Kind[n] \in BranchKinds
    PROVE  Positions(n) = 1 .. Count(n) /\ Count(n) \in {2, 3}
BY TreeFacts, KindAssumption

\* IfThenElseNode::tick stays at the condition or goes to one branch.
LEMMA IfThenElseReplyOK ==
    ASSUME TypeOK, NEW n \in Node, IfThenElseReply(n)
    PROVE  TypeOK'
<1>1. StateOK /\ Kind[n] = "IfThenElse" /\ ret \in NodeStatus
  BY DEF TypeOK, CallOK, IfThenElseReply, Replied
<1>2. mem[n] \in Memory
  BY <1>1, MemFacts
<1>3. CASE Keep /\ \E s \in NodeStatus : Answer(n, s)
  BY <1>1, <1>3, KeepOK, StepOK
<1>4. ASSUME NEW j \in {2, 3}, j <= Count(n),
             Remember(n, [mem[n] EXCEPT !.idx = j]), TickChild(n, j, 0)
      PROVE  TypeOK'
  <2>. DEFINE m == [mem[n] EXCEPT !.idx = j]
  <2>1. j \in Positions(n)
    BY <1>1, <1>4, BranchFacts DEF BranchKinds
  <2>2. m \in Memory /\ m.idx = j
    BY <1>2 DEF Memory
  <2>3. IndexOK(n, m)
    BY <1>1, <2>1, <2>2 DEF IndexOK, ReactiveKinds
  <2>4. Remember(n, m)
    BY <1>4
  <2>. HIDE DEF m
  <2>5. StateOK'
    BY <1>1, <2>2, <2>3, <2>4, RememberOK
  <2>. QED
    BY <1>4, <2>1, <2>5, StepOK
<1>5. CASE Throw /\ UNCHANGED status
  BY <1>5, ThrowOK DEF TypeOK, StateOK
<1>6. CASE ResetChildren(n, Kids(n), FreshMem(n)) /\ Answer(n, ret)
  BY <1>1, <1>6, FreshMemOK, ResetOK
<1>7. Count(n) \in {2, 3}
  BY <1>1, BranchFacts DEF BranchKinds
<1>. QED
  BY <1>1, <1>3, <1>4, <1>5, <1>6, <1>7 DEF IfThenElseReply

\* WhileDoElseNode::tick keeps no position between two ticks.
LEMMA WhileDoElseReplyOK ==
    ASSUME TypeOK, NEW n \in Node, WhileDoElseReply(n)
    PROVE  TypeOK'
<1>1. StateOK /\ Kind[n] = "WhileDoElse" /\ ret \in NodeStatus
  BY DEF TypeOK, CallOK, WhileDoElseReply, Replied
<1>2. mem[n] \in Memory /\ IndexOK(n, mem[n])
  BY <1>1, MemFacts
<1>3. Positions(n) = 1 .. Count(n) /\ Count(n) \in {2, 3}
  BY <1>1, BranchFacts DEF BranchKinds
<1>4. CASE Keep /\ Answer(n, RUNNING)
  BY <1>1, <1>4, KeepOK, StepOK
<1>5. \/ Keep /\ Answer(n, RUNNING)
      \/ /\ ResetChildren(n, {Children[n][i] : i \in Positions(n) \cap {3}}, mem[n])
         /\ TickChild(n, 2, 0)
      \/ ResetChildren(n, {Children[n][2]}, mem[n]) /\ TickChild(n, 3, 0) /\ Count(n) = 3
      \/ ResetChildren(n, Kids(n), mem[n]) /\ \E s \in NodeStatus : Answer(n, s)
  BY <1>1 DEF WhileDoElseReply
<1>6. 2 \in Positions(n) /\ (Count(n) = 3 => 3 \in Positions(n))
  BY <1>3
<1>. QED
  BY <1>1, <1>2, <1>4, <1>5, <1>6, ResetOK

\* SwitchNode::tick: running_child_ is a child's position, or no child.
LEMMA SwitchOK ==
    ASSUME TypeOK, NEW n \in Node, SwitchTick(n) \/ SwitchReply(n)
    PROVE  TypeOK'
<1>1. StateOK /\ Kind[n] = "Switch" /\ ret \in NodeStatus
  BY DEF TypeOK, CallOK, SwitchTick, SwitchReply, Ticking, Replied
<1>2. mem[n] \in Memory /\ IndexOK(n, mem[n])
  BY <1>1, MemFacts
<1>3. CASE SwitchTick(n)
  <2>1. PICK match \in Positions(n) :
          /\ IF mem[n].idx \notin {0, match}
             THEN ResetChildren(n, {Children[n][mem[n].idx]}, mem[n]) ELSE Keep
          /\ TickChild(n, match, 0)
    BY <1>3 DEF SwitchTick
  <2>2. StateOK'
    BY <1>1, <1>2, <2>1, ResetChildrenOK, KeepOK
  <2>. QED
    BY <2>1, <2>2, StepOK
<1>4. CASE SwitchReply(n)
  <2>1. ASSUME NEW i \in Positions(n) \cup {0}, Remember(n, [mem[n] EXCEPT !.idx = i])
        PROVE  StateOK'
    <3>. DEFINE m == [mem[n] EXCEPT !.idx = i]
    <3>1. m \in Memory /\ m.idx = i
      BY <1>2, TreeFacts DEF Memory
    <3>2. IndexOK(n, m)
      BY <1>1, <3>1 DEF IndexOK, LinearKinds, ReactiveKinds
    <3>3. Remember(n, m)
      BY <2>1
    <3>. HIDE DEF m
    <3>. QED
      BY <1>1, <3>1, <3>2, <3>3, RememberOK
  <2>2. frame[n].j \in Positions(n) \cup {0}
    BY DEF TypeOK, CallOK
  <2>3. ResetChildren(n, Kids(n), FreshMem(n)) => StateOK'
    BY <1>1, FreshMemOK, ResetChildrenOK
  <2>4. StateOK' /\ Answer(n, ret)
    BY <1>4, <2>1, <2>2, <2>3 DEF SwitchReply
  <2>. QED
    BY <1>1, <2>4, StepOK
<1>. QED
  BY <1>3, <1>4

\* Every class of ControlNodes.
LEMMA ControlTickOK ==
    ASSUME TypeOK, NEW n \in Node, ControlTick(n)
    PROVE  TypeOK'
<1>1. CASE SequenceTick(n) \/ FallbackTick(n) \/ MemoryTick(n)
  BY <1>1, LinearTickOK DEF SequenceTick, FallbackTick, MemoryTick, LinearKinds
<1>2. CASE SequenceReply(n)
  BY <1>2, LinearReplyOK DEF SequenceReply, Replied, LinearKinds
<1>3. CASE FallbackReply(n)
  BY <1>3, LinearReplyOK DEF FallbackReply, Replied, LinearKinds
<1>4. CASE ReactiveSequenceTick(n) \/ ReactiveFallbackTick(n)
  BY <1>4, ReactiveTickOK DEF ReactiveSequenceTick, ReactiveFallbackTick, ReactiveKinds
<1>5. CASE ReactiveSequenceReply(n) \/ ReactiveFallbackReply(n)
  BY <1>5, ReactiveReplyOK DEF ReactiveSequenceReply, ReactiveFallbackReply, ReactiveKinds
<1>6. CASE IfThenElseTick(n)
  <2>1. mem[n].idx \in Positions(n)
    BY <1>6, MemFacts DEF TypeOK, IndexOK, IfThenElseTick, Ticking
  <2>. QED
    BY <1>6, <2>1, SetRunningOK DEF IfThenElseTick
<1>7. CASE WhileDoElseTick(n)
  <2>1. 1 \in Positions(n)
    BY <1>7, BranchFacts DEF WhileDoElseTick, Ticking, BranchKinds
  <2>. QED
    BY <1>7, <2>1, SetRunningOK DEF WhileDoElseTick
<1>. QED
  BY <1>1, <1>2, <1>3, <1>4, <1>5, <1>6, <1>7, MemoryReplyOK, ParallelTickOK,
     ParallelReplyOK, IfThenElseReplyOK, WhileDoElseReplyOK, SwitchOK DEF ControlTick

-------------------------------------------------------------------------------
(* The steps of the decorators                                             *)

\* Only the positions of linear, reactive and branching nodes are constrained.
LEMMA DecoratorIndexOK ==
    ASSUME NEW n \in Node, Kind[n] \in DecoratorKinds, NEW m
    PROVE  IndexOK(n, m)
BY DEF IndexOK, DecoratorKinds, UpdatedKinds, LinearKinds, ReactiveKinds

\* A decorator has one child.
LEMMA ChildOK ==
    ASSUME NEW n \in Node, Kind[n] \in DecoratorKinds
    PROVE  1 \in Positions(n)
BY TreeFacts, KindAssumption

\* A decorator's members change, and perhaps its own status or its child is reset.
LEMMA DecoratorStateOK ==
    ASSUME TypeOK, NEW n \in Node, Kind[n] \in DecoratorKinds, NEW m \in Memory,
           NEW s \in NodeStatus,
           \/ /\ status' = status \/ status' = [status EXCEPT ![n] = s]
              /\ mem' = [mem EXCEPT ![n] = m]
              /\ heard' = heard
           \/ Remember(n, m)
           \/ ResetChild(n, m)
           \/ ResetIfCompleted(n, m)
    PROVE  StateOK'
<1>1. StateOK /\ IndexOK(n, m)
  BY DecoratorIndexOK DEF TypeOK
<1>2. CASE /\ status' = status \/ status' = [status EXCEPT ![n] = s]
           /\ mem' = [mem EXCEPT ![n] = m]
           /\ heard' = heard
  BY <1>1, <1>2, OwnStateOK
<1>3. CASE Remember(n, m)
  BY <1>1, <1>3, RememberOK
<1>4. CASE ResetChild(n, m)
  BY <1>1, <1>4, ResetChildrenOK DEF ResetChild
<1>. QED
  BY <1>2, <1>3, <1>4 DEF ResetIfCompleted

\* A decorator that leaves the members of nodes alone until it ticks or answers.
LEMMA DecoratorMoveOK ==
    ASSUME TypeOK, NEW n \in Node, Kind[n] \in DecoratorKinds, StateOK',
           TickChild(n, 1, 0) \/ (\E s \in NodeStatus : Answer(n, s)) \/ Yield(n)
    PROVE  TypeOK'
BY ChildOK, StepOK

\* Any value of one field is a value of the members.
LEMMA MemberOK ==
    ASSUME StateOK, NEW n \in Node, NEW b \in BOOLEAN, NEW k \in Nat, NEW s \in NodeStatus
    PROVE  /\ mem[n] \in Memory
           /\ [mem[n] EXCEPT !.flag = b] \in Memory
           /\ [mem[n] EXCEPT !.count = k] \in Memory
           /\ [mem[n] EXCEPT !.flag = b, !.returned = s] \in Memory
BY MemFacts DEF Memory

\* Inverter, ForceSuccess, ForceFailure, KeepRunningUntilFailure, SubTree.
LEMMA TranslatorOK ==
    ASSUME TypeOK, NEW n \in Node,
           \/ TranslatorTick(n) \/ InverterReply(n) \/ ForceReply(n) \/ KeepRunningReply(n)
           \/ SubTreeTick(n) \/ SubTreeReply(n)
    PROVE  TypeOK'
<1>1. /\ Kind[n] \in DecoratorKinds /\ StateOK /\ ret \in NodeStatus
      /\ mem[n] \in Memory /\ status[n] \in NodeStatus
  BY MemFacts DEF TypeOK, CallOK, TranslatorTick, InverterReply, ForceReply, KeepRunningReply,
     SubTreeTick, SubTreeReply, Ticking, Replied, Translators, DecoratorKinds
<1>2. CASE TranslatorTick(n)
  BY <1>1, <1>2, StatusOK, DecoratorMoveOK DEF TranslatorTick, SetRunning
<1>3. CASE SubTreeTick(n)
  <2>1. (IF status[n] = IDLE THEN RUNNING ELSE status[n]) \in NodeStatus
    BY <1>1
  <2>2. StateOK'
    BY <1>1, <1>3, <2>1, StatusOK DEF SubTreeTick
  <2>. QED
    BY <1>1, <1>3, <2>2, DecoratorMoveOK DEF SubTreeTick
<1>4. CASE ResetIfCompleted(n, mem[n]) /\ \E s \in NodeStatus : Answer(n, s)
  <2>1. StateOK'
    BY <1>1, <1>4, DecoratorStateOK
  <2>. QED
    BY <1>1, <1>4, <2>1, DecoratorMoveOK
<1>5. CASE InverterReply(n) \/ ForceReply(n) \/ KeepRunningReply(n) \/ SubTreeReply(n)
  BY <1>1, <1>4, <1>5 DEF InverterReply, ForceReply, KeepRunningReply, SubTreeReply, Opposite
<1>. QED
  BY <1>2, <1>3, <1>5

\* A decorator made of a functor.
LEMMA SimpleDecoratorOK ==
    ASSUME TypeOK, NEW n \in Node, SimpleDecoratorTick(n) \/ SimpleDecoratorReply(n)
    PROVE  TypeOK'
<1>1. Kind[n] \in DecoratorKinds /\ StateOK'
  BY KeepOK DEF TypeOK, SimpleDecoratorTick, SimpleDecoratorReply, Ticking, Replied,
     DecoratorKinds
<1>2. Answers[n] \subseteq NodeStatus
  BY AnswersAssumption
<1>. QED
  BY <1>1, <1>2, DecoratorMoveOK DEF SimpleDecoratorTick, SimpleDecoratorReply

\* RepeatNode::tick and RetryNode::tick up to the child.
LEMMA CountingTickOK ==
    ASSUME TypeOK, NEW n \in Node, Kind[n] \in DecoratorKinds, NEW again \in Completed,
           CountingTick(n, again)
    PROVE  TypeOK'
<1>1. StateOK
  BY DEF TypeOK
<1>2. CASE UNCHANGED mem /\ TickChild(n, 1, 0)
  <2>1. StateOK'
    BY <1>1, <1>2, StatusOK DEF CountingTick
  <2>. QED
    BY <1>2, <2>1, DecoratorMoveOK
<1>3. CASE mem' = [mem EXCEPT ![n].count = 0] /\ Answer(n, again)
  <2>. DEFINE m == [mem[n] EXCEPT !.count = 0]
  <2>1. m \in Memory
    BY <1>1, MemberOK
  <2>2. mem' = [mem EXCEPT ![n] = m]
    BY <1>1, <1>3 DEF StateOK
  <2>. HIDE DEF m
  <2>3. StateOK'
    BY <2>1, <2>2, DecoratorStateOK DEF CountingTick
  <2>. QED
    BY <1>3, <2>3, DecoratorMoveOK
<1>. QED
  BY <1>2, <1>3 DEF CountingTick

\* RepeatNode::tick and RetryNode::tick after the child.
LEMMA CountingReplyOK ==
    ASSUME TypeOK, NEW n \in Node, Kind[n] \in DecoratorKinds, NEW again \in Completed,
           CountingReply(n, again)
    PROVE  TypeOK'
<1>. DEFINE m == [mem[n] EXCEPT !.count = mem[n].count + 1]
<1>1. StateOK /\ ret \in NodeStatus
  BY DEF TypeOK, CallOK
<1>2. m \in Memory /\ mem[n] \in Memory /\ FreshMem(n) \in Memory
  <2>1. mem[n].count + 1 \in Nat
    BY <1>1, MemFacts
  <2>. QED
    BY <1>1, <2>1, MemberOK, FreshMemOK
<1>. HIDE DEF m
<1>3. CASE Keep /\ Answer(n, RUNNING)
  <2>1. StateOK'
    BY <1>1, <1>3, KeepOK
  <2>. QED
    BY <1>3, <2>1, DecoratorMoveOK
<1>4. \/ Keep /\ Answer(n, RUNNING)
      \/ /\ \E x \in {mem[n], FreshMem(n), m} : ResetChild(n, x)
         /\ TickChild(n, 1, 0) \/ (\E s \in NodeStatus : Answer(n, s)) \/ Yield(n)
  BY <1>1 DEF CountingReply, m
<1>5. ASSUME NEW x \in Memory, ResetChild(n, x)
      PROVE  StateOK'
  BY <1>5, DecoratorStateOK
<1>. QED
  BY <1>2, <1>3, <1>4, <1>5, DecoratorMoveOK

\* RunOnceNode::tick.
LEMMA RunOnceOK ==
    ASSUME TypeOK, NEW n \in Node, RunOnceTick(n) \/ RunOnceReply(n)
    PROVE  TypeOK'
<1>1. Kind[n] \in DecoratorKinds /\ StateOK /\ ret \in NodeStatus
  BY DEF TypeOK, CallOK, RunOnceTick, RunOnceReply, Ticking, Replied, DecoratorKinds
<1>2. mem[n] \in Memory /\ mem[n].returned \in NodeStatus
  BY <1>1, MemFacts
<1>3. CASE RunOnceTick(n)
  <2>1. StateOK'
    BY <1>1, <1>3, KeepOK, StatusOK DEF RunOnceTick, SetRunning
  <2>. QED
    BY <1>1, <1>2, <1>3, <2>1, DecoratorMoveOK DEF RunOnceTick
<1>4. CASE RunOnceReply(n)
  <2>1. ASSUME NEW m \in Memory, ResetIfCompleted(n, m)
        PROVE  StateOK'
    BY <1>1, <2>1, DecoratorStateOK
  <2>2. [mem[n] EXCEPT !.flag = TRUE, !.returned = ret] \in Memory
    BY <1>1, MemberOK
  <2>3. StateOK'
    BY <1>2, <1>4, <2>1, <2>2 DEF RunOnceReply
  <2>. QED
    BY <1>1, <1>4, <2>3, DecoratorMoveOK DEF RunOnceReply
<1>. QED
  BY <1>3, <1>4

\* PreconditionNode::tick.
LEMMA PreconditionOK ==
    ASSUME TypeOK, NEW n \in Node, PreconditionTick(n) \/ PreconditionReply(n)
    PROVE  TypeOK'
<1>1. /\ Kind[n] \in DecoratorKinds /\ StateOK /\ ret \in NodeStatus
      /\ mem[n].flag \in BOOLEAN /\ Otherwise[n] \in NodeStatus
  BY MemFacts, OtherwiseAssumption
     DEF TypeOK, CallOK, PreconditionTick, PreconditionReply, Ticking, Replied, DecoratorKinds
<1>2. ASSUME NEW b \in BOOLEAN,
             \/ Remember(n, [mem[n] EXCEPT !.flag = b])
             \/ ResetIfCompleted(n, [mem[n] EXCEPT !.flag = b])
      PROVE  StateOK'
  BY <1>1, <1>2, MemberOK, DecoratorStateOK
<1>3. CASE PreconditionTick(n)
  <2>1. StateOK'
    BY <1>1, <1>2, <1>3, KeepOK DEF PreconditionTick
  <2>. QED
    BY <1>1, <1>3, <2>1, DecoratorMoveOK DEF PreconditionTick
<1>4. CASE PreconditionReply(n)
  <2>. DEFINE b == mem[n].flag /\ ~isStatusCompleted(ret)
  <2>1. ResetIfCompleted(n, [mem[n] EXCEPT !.flag = b]) /\ Answer(n, ret)
    BY <1>4 DEF PreconditionReply
  <2>2. b \in BOOLEAN
    OBVIOUS
  <2>. HIDE DEF b
  <2>3. StateOK'
    BY <1>2, <2>1, <2>2
  <2>. QED
    BY <1>1, <2>1, <2>3, DecoratorMoveOK
<1>. QED
  BY <1>3, <1>4

\* EntryUpdatedDecorator::tick.
LEMMA UpdatedOK ==
    ASSUME TypeOK, NEW n \in Node, UpdatedTick(n) \/ UpdatedReply(n)
    PROVE  TypeOK'
<1>1. Kind[n] \in DecoratorKinds /\ StateOK /\ ret \in NodeStatus
  BY DEF TypeOK, CallOK, UpdatedTick, UpdatedReply, Ticking, Replied, DecoratorKinds
<1>2. CASE UpdatedTick(n)
  <2>1. StateOK'
    BY <1>1, <1>2, KeepOK DEF UpdatedTick
  <2>. QED
    BY <1>1, <1>2, <2>1, DecoratorMoveOK DEF UpdatedTick
<1>3. CASE UpdatedReply(n)
  <2>. DEFINE b == ret = RUNNING
  <2>1. Remember(n, [mem[n] EXCEPT !.flag = b]) /\ Answer(n, ret)
    BY <1>3 DEF UpdatedReply
  <2>2. b \in BOOLEAN
    OBVIOUS
  <2>. HIDE DEF b
  <2>3. StateOK'
    BY <1>1, <2>1, <2>2, MemberOK, DecoratorStateOK
  <2>. QED
    BY <1>1, <2>1, <2>3, DecoratorMoveOK
<1>. QED
  BY <1>2, <1>3

\* LoopNode::tick.
LEMMA LoopOK ==
    ASSUME TypeOK, NEW n \in Node, LoopTick(n) \/ LoopReply(n)
    PROVE  TypeOK'
<1>1. /\ Kind[n] \in DecoratorKinds /\ StateOK /\ ret \in NodeStatus
      /\ Otherwise[n] \in NodeStatus /\ status[n] \in NodeStatus
  BY MemFacts, OtherwiseAssumption
     DEF TypeOK, CallOK, LoopTick, LoopReply, Ticking, Replied, DecoratorKinds
<1>2. CASE LoopTick(n)
  <2>. DEFINE b == mem[n].flag /\ status[n] # IDLE
              m == [mem[n] EXCEPT !.flag = b]
              s == IF status[n] = IDLE THEN RUNNING ELSE status[n]
  <2>1. b \in BOOLEAN /\ s \in NodeStatus
    BY <1>1, MemFacts
  <2>2. mem' = [mem EXCEPT ![n] = m] /\ heard' = heard
    BY <1>1, <1>2 DEF LoopTick, StateOK
  <2>3. status' = status \/ status' = [status EXCEPT ![n] = s]
    BY <1>2 DEF LoopTick
  <2>. HIDE DEF b, s
  <2>4. m \in Memory
    BY <1>1, <2>1, MemberOK
  <2>. HIDE DEF m
  <2>5. StateOK'
    BY <1>1, <2>1, <2>2, <2>3, <2>4, DecoratorStateOK
  <2>. QED
    BY <1>1, <1>2, <2>5, DecoratorMoveOK DEF LoopTick
<1>3. CASE LoopReply(n)
  <2>. DEFINE b == ret = RUNNING
  <2>1. ResetIfCompleted(n, [mem[n] EXCEPT !.flag = b]) /\ \E s \in NodeStatus : Answer(n, s)
    BY <1>3 DEF LoopReply
  <2>2. b \in BOOLEAN
    OBVIOUS
  <2>. HIDE DEF b
  <2>3. StateOK'
    BY <1>1, <2>1, <2>2, MemberOK, DecoratorStateOK
  <2>. QED
    BY <1>1, <2>1, <2>3, DecoratorMoveOK
<1>. QED
  BY <1>2, <1>3

\* Every class of DecoratorNodes.
LEMMA DecoratorTickOK ==
    ASSUME TypeOK, NEW n \in Node, DecoratorTick(n)
    PROVE  TypeOK'
<1>1. CASE RepeatTick(n) \/ RetryTick(n)
  BY <1>1, CountingTickOK DEF RepeatTick, RetryTick, Ticking, DecoratorKinds
<1>2. CASE RepeatReply(n) \/ RetryReply(n)
  BY <1>2, CountingReplyOK DEF RepeatReply, RetryReply, Replied, DecoratorKinds
<1>. QED
  BY <1>1, <1>2, TranslatorOK, SimpleDecoratorOK, RunOnceOK, PreconditionOK, UpdatedOK,
     LoopOK DEF DecoratorTick

-------------------------------------------------------------------------------
(* The tree                                                                *)

\* Tree::tickRoot and Tree::haltTree, and the thread that wakes the tree up.
LEMMA TreeStepOK ==
    ASSUME TypeOK,
           \/ \E o \in TickOption : TickRoot(o)
           \/ TickAgain \/ RootAnswers \/ SleepEnds \/ HaltRoot \/ HaltVisit
           \/ \E n \in Wakers : WakeUp(n)
    PROVE  TypeOK'
<1>1. StateOK /\ CallOK /\ cur \in Node
  BY DEF TypeOK, CallOK
<1>2. CASE Keep /\ UNCHANGED frame
           /\ \/ \E o \in TickOption : TickRoot(o)
              \/ TickAgain \/ SleepEnds
  <2>1. StateOK'
    BY <1>1, <1>2, KeepOK
  <2>2. pc' = "enter" /\ cur' = cur /\ ret' = IDLE /\ UNCHANGED frame
    BY <1>2 DEF TickRoot, TickAgain, SleepEnds, Go
  <2>3. ready' \in BOOLEAN /\ opt' \in TickOption \cup {"none"}
    BY <1>1, <1>2 DEF TickRoot, TickAgain, SleepEnds, CallOK, Go
  <2>4. CallOK'
    BY <1>1, <2>2, <2>3, GoOK
  <2>. QED
    BY <2>1, <2>4 DEF TypeOK
<1>3. CASE RootAnswers
  <2>1. (IF isStatusCompleted(ret) THEN IDLE ELSE status[cur]) \in NodeStatus
    BY <1>1 DEF StateOK
  <2>2. StateOK'
    BY <1>1, <1>3, <2>1, StatusOK DEF RootAnswers
  <2>3. CallOK'
    BY <1>1, <1>3, GoOK DEF RootAnswers, CallOK, Go
  <2>. QED
    BY <2>2, <2>3 DEF TypeOK
<1>4. ASSUME NEW H, NEW R, status' = StatusAfter(H, R), mem' = MemAfter(H),
             heard' = HeardAfter(H)
      PROVE  StateOK'
  BY <1>1, <1>4, HaltOK DEF StateOK, IndexOK
<1>5. CASE HaltRoot
  <2>1. StateOK'
    BY <1>4, <1>5 DEF HaltRoot
  <2>2. CallOK'
    BY <1>1, <1>5, GoOK DEF HaltRoot, CallOK, Go
  <2>. QED
    BY <2>1, <2>2 DEF TypeOK
<1>6. CASE HaltVisit
  <2>1. StateOK'
    BY <1>4, <1>6 DEF HaltVisit
  <2>2. CallOK'
    BY <1>1, <1>6, GoOK DEF HaltVisit, CallOK, Go
  <2>. QED
    BY <2>1, <2>2 DEF TypeOK
<1>7. ASSUME NEW n \in Wakers, WakeUp(n)
      PROVE  TypeOK'
  BY <1>1, <1>7 DEF WakeUp, TypeOK, StateOK, IndexOK, CallOK, Positions
<1>. QED
  BY <1>2, <1>3, <1>5, <1>6, <1>7 DEF TickRoot, TickAgain, SleepEnds

\* Every step of the thread inside a call, of its caller and of the other threads.
LEMMA NextOK ==
    ASSUME TypeOK, Next
    PROVE  TypeOK'
<1>1. CASE \E n \in {cur} \cup Above[cur] : NodeStep(n)
  <2>1. {cur} \cup Above[cur] \subseteq Node
    BY TreeAssumption DEF TypeOK, CallOK
  <2>. QED
    BY <1>1, <2>1, ExecuteTickOK, LeafTickOK, ControlTickOK, DecoratorTickOK DEF NodeStep
<1>. QED
  BY <1>1, TreeStepOK DEF Next, CallStep

\* A tree just built.
LEMMA InitOK == Init => TypeOK
<1>. SUFFICES ASSUME Init PROVE TypeOK
  OBVIOUS
<1>1. StateOK
  BY FreshMemOK DEF Init, StateOK
<1>2. CallOK
  BY NoFrameOK, TreeAssumption DEF Init, CallOK
<1>. QED
  BY <1>1, <1>2 DEF TypeOK

\* Whatever the tree, its callbacks and the order of ticks, halts and wake-ups: every
\* variable has its type, and the position each control node keeps (current_child_idx_,
\* child_idx_, running_child_) is that of a child it has, so children_nodes_[idx] is
\* never read out of range.
THEOREM TypeCorrect == Spec => []TypeOK
<1>1. TypeOK /\ [Next]_vars => TypeOK'
  <2>1. CASE UNCHANGED vars
    BY <2>1 DEF vars, TypeOK, StateOK, IndexOK, CallOK, Positions
  <2>. QED
    BY <2>1, NextOK
<1>. QED
  BY <1>1, InitOK, PTL DEF Spec

-------------------------------------------------------------------------------
(***************************************************************************)
(* How far a halt reaches, for every tree.  haltNode() goes down through   *)
(* RUNNING nodes only, so what must be shown is that every node above a    *)
(* RUNNING one is RUNNING as well, as far up as the classes keep to the    *)
(* discipline of setting themselves RUNNING before they tick a child and   *)
(* of resetting the children before they complete.                         *)
(***************************************************************************)

\* The nodes on the way from x up to a, without x.
Between(x, a) == {b \in Above[x] : b = a \/ a \in Above[b]}

InReach(x, a) == \A b \in Between(x, a) : Disciplined(b)

RunningReached ==
    \A x \in Node : \A a \in Above[x] :
        status[x] = RUNNING /\ InReach(x, a) => status[a] = RUNNING

\* The disciplined callers of the call in progress have set themselves RUNNING.
CallersRun == InCall => \A a \in Above[cur] : Disciplined(a) => status[a] = RUNNING

\* A disciplined node that has completed has no RUNNING child left.
AnsweredIsDone ==
    pc \in {"ticked", "preempted", "reply"} /\ ret \in Completed /\ Disciplined(cur) =>
        \A k \in Kids(cur) : status[k] # RUNNING

\* A Repeat or Retry never starts a tick with its rounds used up.
Counting == {"Repeat", "RetryUntilSuccessful"}

HasRounds(n, m) == Kind[n] \in Counting /\ Loops(n, 0) => Loops(n, m.count)

RoundsLeft == \A n \in Node : HasRounds(n, mem[n])

RestsAtRoot == pc \in {"rest", "sleeping", "halting"} => cur \in Roots

\* Only the tree in use has RUNNING nodes.
InUse == \A x \in Node : status[x] = RUNNING => RootOf(x) = RootOf(cur)

\* The child of a RunOnce is being entered for the first time.
OnceBelow ==
    pc = "enter" /\ cur \notin Roots /\ Kind[Parent[cur]] = "RunOnce" =>
        ~mem[Parent[cur]].flag

HaltInv ==
    /\ TypeOK
    /\ RunningReached
    /\ CallersRun /\ AnsweredIsDone /\ RestsAtRoot
    /\ InUse
    /\ RoundsLeft /\ OnceBelow

-------------------------------------------------------------------------------
(* The tree                                                                *)

\* A child lies directly below its parent, and nothing lies above itself.
LEMMA KidFacts ==
    ASSUME NEW n \in Node, NEW k \in Kids(n)
    PROVE  /\ k \in Node /\ k \notin Roots /\ Parent[k] = n
           /\ Above[k] = {n} \cup Above[n]
           /\ k # n /\ k \notin Above[n]
<1>1. k \in Node /\ k \notin Roots /\ Parent[k] = n
  BY TreeAssumption, TreeFacts DEF Kids, Positions
<1>2. Above[k] = {n} \cup Above[n]
  BY <1>1, TreeAssumption
<1>3. k # n
  BY <1>1, <1>2, TreeAssumption
<1>4. k \notin Above[n]
  BY <1>1, <1>2, TreeAssumption, PathAssumption
<1>. QED
  BY <1>1, <1>2, <1>3, <1>4

\* The nodes above a node are nodes, above which there is less.
LEMMA AboveFacts ==
    ASSUME NEW x \in Node, NEW a \in Above[x]
    PROVE  /\ a \in Node /\ a # x /\ x \notin Above[a]
           /\ Above[a] \subseteq Above[x]
           /\ \E k \in Kids(a) : k = x \/ k \in Above[x]
<1>1. a \in Node /\ Above[x] \subseteq Node
  BY TreeAssumption
<1>2. x \notin Above[x]
  BY TreeAssumption
<1>3. Above[a] \subseteq Above[x]
  BY PathAssumption
<1>4. \E k \in Kids(a) : k = x \/ k \in Above[x]
  BY TreeAssumption
<1>. QED
  BY <1>1, <1>2, <1>3, <1>4

\* The parent of a node that is no root is above it.
LEMMA ParentFacts ==
    ASSUME NEW c \in Node, c \notin Roots
    PROVE  Parent[c] \in Node /\ Parent[c] \in Above[c] /\ c \in Kids(Parent[c])
BY TreeAssumption

\* A node is in one tree.
LEMMA RootOfIs ==
    ASSUME NEW n \in Node, NEW r \in Roots, r = n \/ r \in Above[n]
    PROVE  RootOf(n) = r
<1>1. RootOf(n) \in Roots /\ (RootOf(n) = n \/ RootOf(n) \in Above[n])
  BY DEF RootOf
<1>2. \A s \in Roots : s \in Node /\ Above[s] = {}
  BY TreeAssumption
<1>3. CASE n \in Roots
  BY <1>1, <1>2, <1>3
<1>4. CASE n \notin Roots
  BY <1>1, <1>2, <1>4, PathAssumption
<1>. QED
  BY <1>3, <1>4

\* A node is in the tree of the nodes above it.
LEMMA RootOfAbove ==
    ASSUME NEW x \in Node, NEW a \in Above[x]
    PROVE  RootOf(x) = RootOf(a)
<1>1. a \in Node /\ Above[a] \subseteq Above[x]
  BY AboveFacts
<1>2. RootOf(a) \in Roots /\ (RootOf(a) = a \/ RootOf(a) \in Above[a])
  BY <1>1, TreeAssumption DEF RootOf
<1>. QED
  BY <1>1, <1>2, RootOfIs

-------------------------------------------------------------------------------
(* Reach                                                                   *)

\* What is in reach of a is in reach of every node on the way.
LEMMA ReachSub ==
    ASSUME NEW x \in Node, NEW a \in Above[x], InReach(x, a), NEW b \in Between(x, a)
    PROVE  b \in Above[x] /\ InReach(x, b) /\ Disciplined(b)
<1>1. b \in Above[x] /\ (b = a \/ a \in Above[b]) /\ Disciplined(b)
  BY DEF Between, InReach
<1>2. ASSUME NEW c \in Between(x, b)
      PROVE  c \in Between(x, a)
  <2>1. c \in Above[x] /\ (c = b \/ b \in Above[c])
    BY DEF Between
  <2>2. b \in Above[c] => Above[b] \subseteq Above[c]
    BY <2>1, AboveFacts
  <2>. QED
    BY <1>1, <2>1, <2>2 DEF Between
<1>. QED
  BY <1>1, <1>2 DEF InReach

\* Every node between a RUNNING one and a is RUNNING.
LEMMA BetweenRun ==
    ASSUME RunningReached, NEW x \in Node, NEW a \in Above[x], InReach(x, a),
           status[x] = RUNNING, NEW b \in Between(x, a)
    PROVE  status[b] = RUNNING
BY ReachSub DEF RunningReached

\* Below a node without RUNNING children nothing in reach of it is RUNNING.
LEMMA NoneBelow ==
    ASSUME RunningReached, NEW x \in Node, NEW a \in Above[x], InReach(x, a),
           \A k \in Kids(a) : status[k] # RUNNING
    PROVE  status[x] # RUNNING
<1>1. PICK k \in Kids(a) : k = x \/ k \in Above[x]
  BY AboveFacts
<1>2. CASE k \in Above[x]
  <2>1. a \in Above[k]
    BY AboveFacts, KidFacts
  <2>2. k \in Between(x, a)
    BY <1>2, <2>1 DEF Between
  <2>. QED
    BY <2>2, BetweenRun
<1>. QED
  BY <1>1, <1>2

\* The first node on the way from a node up to a is its parent.
LEMMA ParentBetween ==
    ASSUME NEW x \in Node, NEW a \in Above[x]
    PROVE  x \notin Roots /\ Parent[x] \in Between(x, a)
<1>1. x \notin Roots
  BY TreeAssumption
<1>2. Above[x] = {Parent[x]} \cup Above[Parent[x]]
  BY <1>1, TreeAssumption
<1>. QED
  BY <1>1, <1>2 DEF Between

-------------------------------------------------------------------------------
(* Halts                                                                   *)

\* The halt of the nodes H leaves no RUNNING child of them out, and comes to the parent
\* of every RUNNING node in reach of one of them.
PassedOn(H) ==
    \A x \in Node \ Roots :
        Parent[x] \in H /\ ~StopsHalt(Parent[x]) /\ status[x] = RUNNING => x \in H

Reaches(H) ==
    \A x \in Node : \A a \in Above[x] :
        a \in H /\ status[x] = RUNNING /\ InReach(x, a) => Parent[x] \in H

\* A disciplined class passes a halt on.
LEMMA DisciplinedPasses ==
    ASSUME NEW n \in Node, Disciplined(n)
    PROVE  ~StopsHalt(n)
BY DEF Disciplined, StopsHalt, UpdatedKinds, LinearKinds, ReactiveKinds, ParallelKinds,
       Translators

\* haltNode() of one node.
LEMMA HaltedFromReaches ==
    ASSUME RunningReached, NEW n \in Node
    PROVE  PassedOn(HaltedFrom(n)) /\ Reaches(HaltedFrom(n))
<1>1. ASSUME NEW x \in Node \ Roots, Parent[x] \in HaltedFrom(n), ~StopsHalt(Parent[x]),
             status[x] = RUNNING
      PROVE  x \in HaltedFrom(n)
  <2>. DEFINE p == Parent[x]
  <2>1. p \in Node /\ Above[x] = {p} \cup Above[p]
    BY TreeAssumption
  <2>2. CASE p = n
    BY <1>1, <2>1, <2>2, AboveFacts DEF HaltedFrom
  <2>3. CASE p # n
    BY <1>1, <2>1, <2>3 DEF HaltedFrom
  <2>. QED
    BY <2>2, <2>3
<1>2. ASSUME NEW x \in Node, NEW a \in Above[x], a \in HaltedFrom(n),
             status[x] = RUNNING, InReach(x, a)
      PROVE  Parent[x] \in HaltedFrom(n)
  <2>. DEFINE p == Parent[x]
  <2>1. \A b \in Between(x, a) : status[b] = RUNNING /\ Disciplined(b)
    BY <1>2, BetweenRun, ReachSub
  <2>2. Above[x] \subseteq Node
    BY AboveFacts
  <2>3. \A b \in Between(x, a) : b \in Above[x] /\ ~StopsHalt(b)
    BY <2>1, <2>2, DisciplinedPasses DEF Between
  <2>4. p \in Between(x, a) /\ p \in Above[x] /\ Above[p] \subseteq Above[x]
    BY ParentBetween, AboveFacts DEF Between
  <2>5. \A b \in Above[p] : b = a \/ b \in Between(x, a) \/ b \in Above[a]
    BY <2>4, PathAssumption DEF Between
  <2>6. p = a \/ a \in Above[p]
    BY <2>4 DEF Between
  <2>7. CASE a = n
    <3>1. \A b \in Above[p] : n \in Above[b] => b \in Between(x, a)
      BY <2>4, <2>7 DEF Between
    <3>2. \A b \in Above[p] : b = n => b \in Between(x, a)
      BY <2>4, <2>7 DEF Between
    <3>. QED
      BY <2>1, <2>2, <2>3, <2>4, <2>6, <2>7, <3>1, <3>2 DEF HaltedFrom
  <2>8. CASE a # n
    <3>1. /\ n \in Above[a] /\ status[a] = RUNNING
          /\ \A b \in Above[a] : n \in Above[b] => status[b] = RUNNING
          /\ \A b \in Above[a] : b = n \/ n \in Above[b] => ~StopsHalt(b)
      BY <1>2, <2>8 DEF HaltedFrom
    <3>2. n \in Above[p]
      BY <2>2, <2>4, <2>6, <3>1, AboveFacts
    <3>3. a \in Between(x, a)
      BY DEF Between
    <3>. QED
      BY <2>1, <2>2, <2>3, <2>4, <2>5, <3>1, <3>2, <3>3 DEF HaltedFrom
  <2>. QED
    BY <2>7, <2>8
<1>. QED
  BY <1>1, <1>2 DEF PassedOn, Reaches

\* haltNode() of some children of a node.
LEMMA HaltedByReaches ==
    ASSUME RunningReached, NEW C \in SUBSET Node
    PROVE  /\ PassedOn(HaltedBy(C)) /\ Reaches(HaltedBy(C))
           /\ \A c \in C : status[c] = RUNNING => c \in HaltedBy(C)
<1>1. \A c \in C : c \in HaltedFrom(c)
  BY DEF HaltedFrom
<1>2. \A c \in C : PassedOn(HaltedFrom(c)) /\ Reaches(HaltedFrom(c))
  BY HaltedFromReaches
<1>. QED
  BY <1>1, <1>2 DEF PassedOn, Reaches, HaltedBy

\* haltNode() of every node of a tree.
LEMMA TreeOfReaches ==
    ASSUME NEW r \in Node
    PROVE  PassedOn(TreeOf(r)) /\ Reaches(TreeOf(r))
<1>1. PassedOn(TreeOf(r))
  BY TreeAssumption DEF PassedOn, TreeOf
<1>2. ASSUME NEW x \in Node, NEW a \in Above[x], a \in TreeOf(r)
      PROVE  Parent[x] \in TreeOf(r)
  <2>1. Parent[x] \in Node /\ Parent[x] \in Between(x, a)
    BY ParentBetween, TreeAssumption
  <2>2. a \in Above[Parent[x]] => Above[a] \subseteq Above[Parent[x]]
    BY <2>1, AboveFacts
  <2>. QED
    BY <1>2, <2>1, <2>2 DEF TreeOf, Between
<1>. QED
  BY <1>1, <1>2 DEF Reaches

\* A halt that leaves nothing out, together with the reset of nodes it reaches.
LEMMA HaltKept ==
    ASSUME TypeOK, RunningReached, NEW H, PassedOn(H), Reaches(H), NEW R,
           \A x \in R : x \in Node /\ status[x] = RUNNING => x \in H,
           status' = StatusAfter(H, R)
    PROVE  RunningReached'
<1>. SUFFICES ASSUME NEW x \in Node, NEW a \in Above[x], status'[x] = RUNNING,
                     InReach(x, a), status'[a] # RUNNING
              PROVE  FALSE
  BY DEF RunningReached
<1>1. a \in Node /\ Above[x] \subseteq Node
  BY AboveFacts
<1>2. status[x] = RUNNING /\ ~ResetByHalt(H, x)
  BY DEF StatusAfter, ResetByHalt
<1>3. status[a] = RUNNING
  BY <1>2 DEF RunningReached
<1>4. a \in R \/ ResetByHalt(H, a)
  BY <1>1, <1>3 DEF StatusAfter, ResetByHalt
<1>5. a \in H
  BY <1>1, <1>3, <1>4 DEF ResetByHalt, PassedOn
<1>6. Parent[x] \in H /\ x \notin Roots
  BY <1>2, <1>5, ParentBetween DEF Reaches
<1>7. Parent[x] \in Node /\ Disciplined(Parent[x])
  BY <1>1, ParentBetween, ReachSub
<1>. QED
  BY <1>2, <1>6, <1>7, DisciplinedPasses DEF ResetByHalt


\* resetChildren(), haltChild() and resetChild() on the children C of n.
LEMMA ResetChildrenKept ==
    ASSUME TypeOK, RunningReached, NEW n \in Node, NEW C \in SUBSET Kids(n), NEW m,
           ResetChildren(n, C, m)
    PROVE  /\ RunningReached'
           /\ \A x \in Node : status'[x] \in {IDLE, status[x]}
           /\ \A k \in C : status'[k] = IDLE
           /\ status'[n] = status[n]
           /\ \A a \in Above[n] : status'[a] = status[a]
<1>. DEFINE H == HaltedBy(C)
<1>1. C \subseteq Node /\ n \notin C /\ C \cap Above[n] = {}
  BY KidFacts
<1>2. /\ PassedOn(H) /\ Reaches(H)
      /\ \A c \in C : status[c] = RUNNING => c \in H
  BY <1>1, HaltedByReaches
<1>3. status' = StatusAfter(H, C)
  BY DEF ResetChildren
<1>4. RunningReached'
  BY <1>2, <1>3, HaltKept
<1>5. \A x \in H : x \in Node /\ n \in Above[x]
  BY <1>1, KidFacts, AboveFacts DEF HaltedBy, HaltedFrom
<1>6. ASSUME NEW a \in {n} \cup Above[n]
      PROVE  status'[a] = status[a]
  <2>1. a \in Node /\ n \notin Above[a] /\ a \notin C
    BY <1>1, AboveFacts, TreeAssumption
  <2>2. a \notin Roots => Parent[a] \in Node /\ Above[Parent[a]] \subseteq Above[a]
    BY <2>1, TreeAssumption
  <2>3. a \notin H /\ (a \notin Roots => Parent[a] \notin H)
    BY <1>5, <2>1, <2>2
  <2>. QED
    BY <1>3, <2>1, <2>3 DEF StatusAfter, ResetByHalt
<1>. HIDE DEF H
<1>7. \A x \in Node : status'[x] \in {IDLE, status[x]}
  BY <1>3 DEF StatusAfter
<1>8. \A k \in C : status'[k] = IDLE
  BY <1>1, <1>3 DEF StatusAfter
<1>. QED
  BY <1>4, <1>6, <1>7, <1>8

-------------------------------------------------------------------------------
(* What tick() of one node may do                                          *)

\* n is about to start its tick() or has just got its child's answer.
OnCallOf(n) ==
    \/ pc = "tick" /\ cur = n
    \/ pc = "reply" /\ cur \notin Roots /\ Parent[cur] = n

\* It sets its own status, or halts and resets some of its children.
StatusShape(n) ==
    \/ status' = status
    \/ cur = n /\ status' = [status EXCEPT ![n] = RUNNING]
    \/ /\ cur = n /\ Kids(n) = {}
       /\ \E s \in NodeStatus : status' = [status EXCEPT ![n] = s]
    \/ \E C \in SUBSET Kids(n) : \E m : ResetChildren(n, C, m)

\* Other nodes keep their members or lose them to a halt; its own count stays within
\* its rounds, and a RunOnce remembers that it is done.
MemShape(n) ==
    /\ \A x \in Node \ {n} :
          mem'[x] = mem[x] \/ (mem'[x] = FreshMem(x) /\ Kind[x] \notin KeepsMemory)
    /\ HasRounds(n, mem[n]) => HasRounds(n, mem'[n])
    /\ Kind[n] = "RunOnce" /\ mem[n].flag => mem'[n].flag

\* It ticks a child, RUNNING if it is disciplined; or answers, without a RUNNING child
\* if it is disciplined and completes; or throws.
MoveShape(n) ==
    \/ \E j \in Positions(n) : \E k :
          /\ TickChild(n, j, k)
          /\ cur = n /\ Disciplined(n) => status'[n] = RUNNING
          /\ Kind[n] = "RunOnce" => ~mem'[n].flag
    \/ \E s :
          /\ Return(n, s)
          /\ s \in Completed /\ Disciplined(n) => \A k \in Kids(n) : status'[k] # RUNNING
    \/ Unwind

Shape(n) == StatusShape(n) /\ MemShape(n) /\ MoveShape(n)

\* The node whose tick() is in progress is the one executed, or the one above it.
LEMMA OnCallFacts ==
    ASSUME HaltInv, NEW n \in Node, OnCallOf(n)
    PROVE  /\ cur \in Node /\ InCall
           /\ n = cur \/ (n \in Above[cur] /\ cur \in Kids(n))
           /\ Above[n] \subseteq Above[cur]
           /\ RootOf(n) = RootOf(cur)
<1>1. cur \in Node /\ InCall
  BY DEF HaltInv, TypeOK, CallOK, OnCallOf, InCall
<1>2. n = cur \/ (n \in Above[cur] /\ cur \in Kids(n))
  BY <1>1, ParentFacts DEF OnCallOf
<1>3. Above[n] \subseteq Above[cur]
  BY <1>1, <1>2, AboveFacts
<1>4. RootOf(n) = RootOf(cur)
  BY <1>1, <1>2, RootOfAbove
<1>. QED
  BY <1>1, <1>2, <1>3, <1>4

\* What a tick() does to the statuses.
LEMMA StatusShapeKept ==
    ASSUME HaltInv, StateOK', NEW n \in Node, OnCallOf(n), StatusShape(n)
    PROVE  /\ RunningReached'
           /\ \A x \in Node : status'[x] = RUNNING => status[x] = RUNNING \/ x = cur
           /\ \A a \in Above[n] : status'[a] = status[a]
           /\ cur # n => status'[n] = status[n]
<1>1. /\ cur \in Node /\ InCall /\ TypeOK /\ RunningReached
      /\ CallersRun
      /\ n \notin Above[n] /\ Above[n] \subseteq Node
  BY OnCallFacts, TreeAssumption DEF HaltInv
<1>2. status \in [Node -> NodeStatus]
  BY <1>1 DEF TypeOK, StateOK
<1>3. CASE status' = status
  BY <1>1, <1>3 DEF RunningReached
<1>4. CASE cur = n /\ status' = [status EXCEPT ![n] = RUNNING]
  <2>1. ASSUME NEW x \in Node, NEW a \in Above[x], status'[x] = RUNNING, InReach(x, a)
        PROVE  status'[a] = RUNNING
    <3>1. a \in Node /\ a \in Between(x, a) /\ a # x
      BY AboveFacts DEF Between
    <3>2. Disciplined(a)
      BY <2>1, <3>1 DEF InReach
    <3>3. CASE x = n
      BY <1>1, <1>2, <1>4, <3>1, <3>2, <3>3 DEF CallersRun
    <3>4. CASE x # n
      BY <1>1, <1>2, <1>4, <2>1, <3>1, <3>4 DEF RunningReached
    <3>. QED
      BY <3>3, <3>4
  <2>2. RunningReached'
    BY <2>1 DEF RunningReached
  <2>. QED
    BY <1>1, <1>2, <1>4, <2>2
<1>5. CASE /\ cur = n /\ Kids(n) = {}
           /\ \E s \in NodeStatus : status' = [status EXCEPT ![n] = s]
  <2>1. PICK s \in NodeStatus : status' = [status EXCEPT ![n] = s]
    BY <1>5
  <2>2. ASSUME NEW x \in Node, NEW a \in Above[x], status'[x] = RUNNING, InReach(x, a)
        PROVE  status'[a] = RUNNING
    <3>1. a \in Node /\ a \in Between(x, a) /\ a # x /\ a # n
      BY <1>5, AboveFacts DEF Between
    <3>2. Disciplined(a)
      BY <2>2, <3>1 DEF InReach
    <3>3. CASE x = n
      BY <1>1, <1>2, <1>5, <2>1, <3>1, <3>2, <3>3 DEF CallersRun
    <3>4. CASE x # n
      BY <1>1, <1>2, <2>1, <2>2, <3>1, <3>4 DEF RunningReached
    <3>. QED
      BY <3>3, <3>4
  <2>3. RunningReached'
    BY <2>2 DEF RunningReached
  <2>. QED
    BY <1>1, <1>2, <1>5, <2>1, <2>3
<1>6. CASE \E C \in SUBSET Kids(n) : \E m : ResetChildren(n, C, m)
  BY <1>1, <1>6, ResetChildrenKept
<1>. QED
  BY <1>3, <1>4, <1>5, <1>6 DEF StatusShape

\* What a tick() does to the members.
LEMMA MemShapeKept ==
    ASSUME HaltInv, NEW n \in Node, MemShape(n)
    PROVE  /\ RoundsLeft'
           /\ \A x \in Node : Kind[x] = "RunOnce" /\ mem[x].flag => mem'[x].flag
<1>1. \A x \in Node : FreshMem(x).count = 0
  BY DEF FreshMem
<1>2. \A x \in Node \ {n} : HasRounds(x, mem[x]) => HasRounds(x, mem'[x])
  BY <1>1 DEF MemShape, HasRounds
<1>3. \A x \in Node : HasRounds(x, mem[x]) => HasRounds(x, mem'[x])
  BY <1>2 DEF MemShape
<1>4. RoundsLeft'
  BY <1>3 DEF RoundsLeft, HaltInv, HasRounds, Loops
<1>5. \A x \in Node \ {n} : Kind[x] = "RunOnce" => mem'[x] = mem[x]
  BY DEF MemShape, KeepsMemory
<1>. QED
  BY <1>4, <1>5 DEF MemShape

\* A tick() of this shape keeps the invariant.
LEMMA ShapeKept ==
    ASSUME HaltInv, TypeOK', NEW n \in Node, OnCallOf(n), Shape(n)
    PROVE  HaltInv'
<1>1. /\ RunningReached'
      /\ \A x \in Node : status'[x] = RUNNING => status[x] = RUNNING \/ x = cur
      /\ \A a \in Above[n] : status'[a] = status[a]
      /\ cur # n => status'[n] = status[n]
  BY StatusShapeKept DEF Shape, TypeOK
<1>2. RoundsLeft'
  BY MemShapeKept DEF Shape
<1>3. /\ cur \in Node /\ InCall
      /\ n = cur \/ (n \in Above[cur] /\ cur \in Kids(n))
      /\ Above[n] \subseteq Above[cur]
      /\ RootOf(n) = RootOf(cur)
  BY OnCallFacts
<1>4. \A a \in Above[n] : Disciplined(a) => status'[a] = RUNNING
  BY <1>1, <1>3 DEF HaltInv, CallersRun
<1>5. RootOf(cur') = RootOf(cur) => InUse'
  BY <1>1, <1>3 DEF HaltInv, InUse
<1>6. ASSUME NEW j \in Positions(n), NEW k, TickChild(n, j, k),
             cur = n /\ Disciplined(n) => status'[n] = RUNNING,
             Kind[n] = "RunOnce" => ~mem'[n].flag
      PROVE  HaltInv'
  <2>1. pc' = "enter" /\ cur' \in Kids(n) /\ ret' = IDLE
    BY <1>6 DEF TickChild, Go, Kids
  <2>2. cur' \notin Roots /\ Parent[cur'] = n /\ Above[cur'] = {n} \cup Above[n] /\ cur' \in Node
    BY <2>1, KidFacts
  <2>3. RootOf(cur') = RootOf(cur)
    BY <1>3, <2>2, RootOfAbove
  <2>4. Disciplined(n) => status'[n] = RUNNING
    BY <1>1, <1>3, <1>6 DEF HaltInv, CallersRun
  <2>5. CallersRun'
    BY <1>4, <2>2, <2>4 DEF CallersRun
  <2>6. AnsweredIsDone' /\ RestsAtRoot'
    BY <2>1 DEF AnsweredIsDone, RestsAtRoot
  <2>7. OnceBelow'
    BY <1>6, <2>2 DEF OnceBelow
  <2>. QED
    BY <1>1, <1>2, <1>5, <2>3, <2>5, <2>6, <2>7 DEF HaltInv
<1>7. ASSUME NEW s, Return(n, s),
             s \in Completed /\ Disciplined(n) => \A k \in Kids(n) : status'[k] # RUNNING
      PROVE  HaltInv'
  <2>1. pc' = "ticked" /\ cur' = n /\ ret' = s
    BY <1>7 DEF Return, Go
  <2>2. CallersRun'
    BY <1>4, <2>1 DEF CallersRun
  <2>3. AnsweredIsDone'
    BY <1>7, <2>1 DEF AnsweredIsDone
  <2>4. RestsAtRoot' /\ OnceBelow'
    BY <2>1 DEF RestsAtRoot, OnceBelow
  <2>. QED
    BY <1>1, <1>2, <1>3, <1>5, <2>1, <2>2, <2>3, <2>4 DEF HaltInv
<1>8. CASE Unwind
  <2>1. pc' = "rest" /\ cur' = RootOf(cur) /\ RootOf(cur) \in Roots
    BY <1>3, <1>8, RootOfOK DEF Unwind
  <2>2. RootOf(cur') = RootOf(cur)
    BY <2>1, RootOfIs, TreeAssumption
  <2>3. CallersRun' /\ AnsweredIsDone' /\ RestsAtRoot' /\ OnceBelow'
    BY <2>1 DEF CallersRun, InCall, AnsweredIsDone, RestsAtRoot, OnceBelow
  <2>. QED
    BY <1>1, <1>2, <1>5, <2>2, <2>3 DEF HaltInv
<1>. QED
  BY <1>6, <1>7, <1>8 DEF Shape, MoveShape

-------------------------------------------------------------------------------
(* The shape of each class's tick()                                        *)

\* A node that leaves every status and member alone.
LEMMA KeepShape ==
    ASSUME NEW n \in Node, Keep
    PROVE  StatusShape(n) /\ MemShape(n)
BY DEF Keep, StatusShape, MemShape

\* A class that counts no rounds and remembers no completion.
Ordinary(n) == Kind[n] \notin Counting \cup {"RunOnce"}

\* The members of one node change, and those a halt resets.
LEMMA OrdinaryShape ==
    ASSUME NEW n \in Node, Ordinary(n),
           \A x \in Node \ {n} :
               mem'[x] = mem[x] \/ (mem'[x] = FreshMem(x) /\ Kind[x] \notin KeepsMemory)
    PROVE  MemShape(n)
BY DEF MemShape, HasRounds, Ordinary

\* Only the members of one node change.
LEMMA OwnMemShape ==
    ASSUME TypeOK, NEW n \in Node, NEW m,
           mem' = mem \/ mem' = [mem EXCEPT ![n] = m]
    PROVE  \A x \in Node \ {n} : mem'[x] = mem[x]
BY DEF TypeOK, StateOK

\* resetChildren(), haltChild(), resetChild().
LEMMA ResetShape ==
    ASSUME TypeOK, NEW n \in Node, NEW C \in SUBSET Kids(n), NEW m, ResetChildren(n, C, m)
    PROVE  /\ StatusShape(n)
           /\ \A x \in Node \ {n} :
                 mem'[x] = mem[x] \/ (mem'[x] = FreshMem(x) /\ Kind[x] \notin KeepsMemory)
           /\ mem'[n] = m
           /\ \A k \in C : status'[k] = IDLE
           /\ Ordinary(n) => MemShape(n)
<1>1. StatusShape(n)
  BY DEF StatusShape
<1>2. PICK H : status' = StatusAfter(H, C) /\ mem' = [MemAfter(H) EXCEPT ![n] = m]
  BY DEF ResetChildren
<1>3. mem'[n] = m
  BY <1>2 DEF MemAfter
<1>4. \A x \in Node \ {n} :
          mem'[x] = mem[x] \/ (mem'[x] = FreshMem(x) /\ Kind[x] \notin KeepsMemory)
  BY <1>2 DEF MemAfter
<1>5. \A k \in C : status'[k] = IDLE
  BY <1>2, KidFacts DEF StatusAfter
<1>. QED
  BY <1>1, <1>3, <1>4, <1>5, OrdinaryShape

\* A node that ticks one of its children.
LEMMA CallsChild ==
    ASSUME NEW n \in Node, Kind[n] # "RunOnce", NEW j \in Positions(n), NEW k,
           TickChild(n, j, k), cur = n /\ Disciplined(n) => status'[n] = RUNNING
    PROVE  MoveShape(n)
BY DEF MoveShape

\* A node that gives an answer that is not final, or not as a disciplined one.
LEMMA AnswersOpen ==
    ASSUME NEW n \in Node, NEW s, s \notin Completed \/ ~Disciplined(n),
           Answer(n, s) \/ (s = RUNNING /\ Yield(n))
    PROVE  MoveShape(n)
BY DEF MoveShape, Answer, Yield

\* A node that answers once its children are reset.
LEMMA AnswersReset ==
    ASSUME NEW n \in Node, NEW s, Answer(n, s), \A k \in Kids(n) : status'[k] = IDLE
    PROVE  MoveShape(n)
BY DEF MoveShape, Answer

\* A node at its child's answer is not the one executed.
LEMMA ReplyFacts ==
    ASSUME TypeOK, NEW n \in Node, NEW kinds, Replied(n, kinds)
    PROVE  /\ OnCallOf(n) /\ cur \in Kids(n) /\ cur # n
           /\ Kind[n] \in kinds /\ ret \in NodeStatus
<1>1. cur \in Node /\ ret \in NodeStatus
  BY DEF TypeOK, CallOK
<1>2. cur \in Kids(n) /\ cur # n
  BY <1>1, ParentFacts, KidFacts DEF Replied
<1>. QED
  BY <1>1, <1>2 DEF Replied, OnCallOf

\* A node that sets itself RUNNING and ticks a child.
LEMMA SetsRunning ==
    ASSUME TypeOK, NEW n \in Node, cur = n, pc = "tick", NEW j \in Positions(n), NEW k,
           Kind[n] # "RunOnce",
           status' = [status EXCEPT ![n] = RUNNING], MemShape(n), TickChild(n, j, k)
    PROVE  OnCallOf(n) /\ Shape(n)
<1>1. status'[n] = RUNNING
  BY DEF TypeOK, StateOK
<1>2. MoveShape(n)
  BY <1>1, CallsChild
<1>. QED
  BY <1>2 DEF Shape, StatusShape, OnCallOf

-------------------------------------------------------------------------------
(* Control nodes                                                           *)

\* Control nodes count no rounds.
LEMMA ControlOrdinary ==
    ASSUME NEW n \in Node, Kind[n] \in ControlKinds
    PROVE  Ordinary(n) /\ Kind[n] # "RunOnce"
BY DEF Ordinary, Counting, ControlKinds, LinearKinds, ReactiveKinds, ParallelKinds, BranchKinds

\* A control node that resets children and answers.
LEMMA ControlResets ==
    ASSUME TypeOK, NEW n \in Node, NEW kinds \in SUBSET ControlKinds, Replied(n, kinds),
           NEW C \in SUBSET Kids(n), NEW m, ResetChildren(n, C, m), NEW s,
           Answer(n, s), C = Kids(n) \/ s \notin Completed \/ ~Disciplined(n)
    PROVE  OnCallOf(n) /\ Shape(n)
<1>1. OnCallOf(n) /\ Ordinary(n)
  BY ReplyFacts, ControlOrdinary
<1>2. StatusShape(n) /\ MemShape(n) /\ \A k \in C : status'[k] = IDLE
  BY <1>1, ResetShape
<1>3. MoveShape(n)
  BY <1>2, AnswersOpen, AnswersReset
<1>. QED
  BY <1>1, <1>2, <1>3 DEF Shape

\* A control node that leaves its children alone and gives an answer that is not final.
LEMMA ControlAnswers ==
    ASSUME TypeOK, NEW n \in Node, NEW kinds \in SUBSET ControlKinds, Replied(n, kinds),
           Keep \/ (\E m : Remember(n, m)), NEW s,
           s \notin Completed \/ ~Disciplined(n),
           Answer(n, s) \/ (s = RUNNING /\ Yield(n))
    PROVE  OnCallOf(n) /\ Shape(n)
<1>1. OnCallOf(n) /\ Ordinary(n)
  BY ReplyFacts, ControlOrdinary
<1>2. StatusShape(n) /\ MemShape(n)
  <2>1. CASE Keep
    BY <2>1, KeepShape
  <2>2. CASE \E m : Remember(n, m)
    BY <1>1, <2>2, OwnMemShape, OrdinaryShape DEF Remember, StatusShape
  <2>. QED
    BY <2>1, <2>2
<1>3. MoveShape(n)
  BY AnswersOpen
<1>. QED
  BY <1>1, <1>2, <1>3 DEF Shape

\* A control node that goes on to another child.
LEMMA ControlGoesOn ==
    ASSUME TypeOK, NEW n \in Node, NEW kinds \in SUBSET ControlKinds, Replied(n, kinds),
           \/ Keep
           \/ \E m : Remember(n, m)
           \/ \E C \in SUBSET Kids(n) : \E m : ResetChildren(n, C, m),
           NEW j \in Positions(n), NEW k, TickChild(n, j, k)
    PROVE  OnCallOf(n) /\ Shape(n)
<1>1. OnCallOf(n) /\ Ordinary(n) /\ cur # n /\ Kind[n] # "RunOnce"
  BY ReplyFacts, ControlOrdinary
<1>2. StatusShape(n) /\ MemShape(n)
  <2>1. CASE Keep
    BY <2>1, KeepShape
  <2>2. CASE \E m : Remember(n, m)
    BY <1>1, <2>2, OwnMemShape, OrdinaryShape DEF Remember, StatusShape
  <2>3. CASE \E C \in SUBSET Kids(n) : \E m : ResetChildren(n, C, m)
    BY <1>1, <2>3, ResetShape
  <2>. QED
    BY <2>1, <2>2, <2>3
<1>3. MoveShape(n)
  BY <1>1, CallsChild
<1>. QED
  BY <1>1, <1>2, <1>3 DEF Shape

\* An exception that leaves the statuses as they are.
LEMMA ControlThrows ==
    ASSUME TypeOK, NEW n \in Node, Throw, UNCHANGED status,
           Ticking(n, ControlKinds) \/ Replied(n, ControlKinds)
    PROVE  OnCallOf(n) /\ Shape(n)
BY DEF OnCallOf, Ticking, Replied, Throw, Shape, StatusShape, MemShape, MoveShape


\* A sequence or fallback up to the child at current_child_idx_.
LEMMA LinearTickShape ==
    ASSUME TypeOK, NEW n \in Node, NEW kinds \in SUBSET LinearKinds, LinearTick(n, kinds)
    PROVE  OnCallOf(n) /\ Shape(n)
<1>1. Kind[n] \in LinearKinds /\ Kind[n] \in ControlKinds /\ cur = n /\ pc = "tick"
  BY DEF LinearTick, Ticking, ControlKinds
<1>2. mem[n].idx \in Positions(n)
  BY <1>1, MemFacts DEF TypeOK, IndexOK
<1>3. \A x \in Node \ {n} : mem'[x] = mem[x]
  BY DEF LinearTick, TypeOK, StateOK
<1>4. MemShape(n) /\ Kind[n] # "RunOnce"
  BY <1>1, <1>3, ControlOrdinary, OrdinaryShape
<1>. QED
  BY <1>1, <1>2, <1>4, SetsRunning DEF LinearTick

\* The next child of a sequence or fallback.
LEMMA LinearNextShape ==
    ASSUME TypeOK, NEW n \in Node, Replied(n, LinearKinds), NEW yields,
           LinearNext(n, yields)
    PROVE  OnCallOf(n) /\ Shape(n)
<1>1. Kind[n] \in LinearKinds /\ LinearKinds \subseteq ControlKinds
  BY DEF Replied, ControlKinds
<1>2. mem[n].idx \in Positions(n)
  BY <1>1, MemFacts DEF TypeOK, IndexOK
<1>3. mem[n].idx + 1 \in Positions(n)
  BY <1>2, TreeFacts DEF LinearNext, LastChild
<1>4. \E m : Remember(n, m)
  BY DEF LinearNext
<1>5. CASE Yield(n)
  BY <1>1, <1>4, <1>5, ControlAnswers
<1>6. CASE TickChild(n, mem[n].idx + 1, 0)
  BY <1>1, <1>3, <1>4, <1>6, ControlGoesOn
<1>. QED
  BY <1>5, <1>6 DEF LinearNext

\* A sequence or fallback at its child's answer.
LEMMA LinearReplyShape ==
    ASSUME TypeOK, NEW n \in Node, Replied(n, LinearKinds), NEW stop \in Completed,
           NEW yields, LinearReply(n, stop, yields)
    PROVE  OnCallOf(n) /\ Shape(n)
<1>1. LinearKinds \subseteq ControlKinds
  BY DEF ControlKinds
<1>2. CASE Keep /\ Answer(n, RUNNING)
  BY <1>1, <1>2, ControlAnswers
<1>3. CASE \E m, s : ResetChildren(n, Kids(n), m) /\ Answer(n, s)
  BY <1>1, <1>3, ControlResets
<1>4. CASE LinearNext(n, yields)
  BY <1>4, LinearNextShape
<1>. QED
  BY <1>2, <1>3, <1>4 DEF LinearReply, LinearEnd

\* SequenceWithMemory at its child's answer; it is not disciplined, since a failure
\* leaves the children before the failing one as they are.
LEMMA MemoryReplyShape ==
    ASSUME TypeOK, NEW n \in Node, MemoryReply(n)
    PROVE  OnCallOf(n) /\ Shape(n)
<1>1. /\ Replied(n, LinearKinds) /\ LinearKinds \subseteq ControlKinds
      /\ Kind[n] = "SequenceWithMemory"
  BY DEF MemoryReply, Replied, LinearKinds, ControlKinds
<1>2. CASE Keep /\ Answer(n, RUNNING)
  BY <1>1, <1>2, ControlAnswers
<1>3. CASE /\ ResetChildren(n, {Children[n][i] : i \in mem[n].idx .. Count(n)}, mem[n])
           /\ Answer(n, FAILURE)
  <2>1. mem[n].idx \in Positions(n) /\ Positions(n) = 1 .. Count(n) /\ Count(n) \in Nat
    BY <1>1, MemFacts, TreeFacts DEF TypeOK, IndexOK, LinearKinds
  <2>2. \A i \in mem[n].idx .. Count(n) : i \in Positions(n)
    BY <2>1
  <2>3. {Children[n][i] : i \in mem[n].idx .. Count(n)} \subseteq Kids(n)
    BY <2>2 DEF Kids
  <2>4. ~Disciplined(n)
    BY <1>1 DEF Disciplined, LinearKinds, ReactiveKinds, ParallelKinds, Translators
  <2>. QED
    BY <1>1, <1>3, <2>3, <2>4, ControlResets
<1>4. CASE LinearNext(n, TRUE)
  BY <1>1, <1>4, LinearNextShape
<1>5. CASE LinearEnd(n, SUCCESS)
  BY <1>1, <1>5, ControlResets DEF LinearEnd
<1>. QED
  BY <1>2, <1>3, <1>4, <1>5 DEF MemoryReply

\* A reactive node up to its first child.
LEMMA ReactiveTickShape ==
    ASSUME TypeOK, NEW n \in Node, NEW kinds \in SUBSET ReactiveKinds,
           ReactiveTick(n, kinds)
    PROVE  OnCallOf(n) /\ Shape(n)
<1>1. Kind[n] \in ControlKinds /\ cur = n /\ pc = "tick"
  BY DEF ReactiveTick, Ticking, ControlKinds
<1>2. 1 \in Positions(n)
  BY <1>1, TreeFacts, KindAssumption
<1>3. \A x \in Node \ {n} : mem'[x] = mem[x]
  BY DEF ReactiveTick, TypeOK, StateOK
<1>4. MemShape(n) /\ Kind[n] # "RunOnce"
  BY <1>1, <1>3, ControlOrdinary, OrdinaryShape
<1>. QED
  BY <1>1, <1>2, <1>4, SetsRunning DEF ReactiveTick

\* A reactive node at its child's answer.
LEMMA ReactiveReplyShape ==
    ASSUME TypeOK, NEW n \in Node, NEW kinds \in SUBSET ReactiveKinds,
           NEW stop \in Completed, ReactiveReply(n, kinds, stop)
    PROVE  OnCallOf(n) /\ Shape(n)
<1>1. /\ Replied(n, kinds) /\ kinds \subseteq ControlKinds
      /\ cur \in Kids(n) /\ OnCallOf(n) /\ Ordinary(n)
  BY ReplyFacts, ControlOrdinary DEF ReactiveReply, ControlKinds
<1>2. CASE ReactiveRunning(n)
  <2>1. PICK m : ResetChildren(n, Kids(n) \ {cur}, m) /\ (Unwind \/ Answer(n, RUNNING))
    BY <1>2 DEF ReactiveRunning
  <2>2. CASE Answer(n, RUNNING)
    BY <1>1, <2>1, <2>2, ControlResets
  <2>3. CASE Unwind
    BY <1>1, <2>1, <2>3, ResetShape DEF Shape, MoveShape
  <2>. QED
    BY <2>1, <2>2, <2>3
<1>3. CASE \E m, s : ResetChildren(n, Kids(n), m) /\ Answer(n, s)
  BY <1>1, <1>3, ControlResets
<1>4. CASE /\ ResetChildren(n, {cur}, mem[n]) \/ Keep
           /\ frame[n].j < Count(n)
           /\ \E k : TickChild(n, frame[n].j + 1, k)
  <2>1. frame[n].j + 1 \in Positions(n)
    BY <1>4, TreeFacts DEF TypeOK, CallOK
  <2>. QED
    BY <1>1, <1>4, <2>1, ControlGoesOn
<1>. QED
  BY <1>2, <1>3, <1>4 DEF ReactiveReply

\* Parallel and ParallelAll up to the first child that has not completed.
LEMMA ParallelTickShape ==
    ASSUME TypeOK, NEW n \in Node, NEW kinds \in SUBSET ParallelKinds, NEW required,
           ParallelTick(n, kinds, required)
    PROVE  OnCallOf(n) /\ Shape(n)
<1>1. /\ Ticking(n, ControlKinds) /\ Kind[n] \in ControlKinds /\ cur = n /\ pc = "tick"
      /\ Kind[n] # "RunOnce"
  BY ControlOrdinary DEF ParallelTick, Ticking, ControlKinds
<1>2. CASE Throw /\ UNCHANGED status
  BY <1>1, <1>2, ControlThrows
<1>3. CASE SetRunning(n) /\ TickFirst(n, Open(n, mem[n], 0), 0)
  <2>1. PICK j \in Positions(n) : TickChild(n, j, 0)
    BY <1>3 DEF TickFirst, Open
  <2>2. MemShape(n)
    BY <1>3 DEF SetRunning, MemShape
  <2>. QED
    BY <1>1, <1>3, <2>1, <2>2, SetsRunning DEF SetRunning
<1>. QED
  BY <1>2, <1>3 DEF ParallelTick

\* Parallel and ParallelAll at a child's answer.
LEMMA ParallelReplyShape ==
    ASSUME TypeOK, NEW n \in Node, ParallelReply(n) \/ ParallelAllReply(n)
    PROVE  OnCallOf(n) /\ Shape(n)
<1>1. Replied(n, ParallelKinds) /\ ParallelKinds \subseteq ControlKinds
  BY DEF ParallelReply, ParallelAllReply, Replied, ParallelKinds, ControlKinds
<1>2. CASE \E m, s : ResetChildren(n, Kids(n), m) /\ Answer(n, s)
  BY <1>1, <1>2, ControlResets
<1>3. CASE \E m, k : Remember(n, m) /\ TickFirst(n, Open(n, m, frame[n].j), k)
  <2>1. PICK m, k : Remember(n, m) /\ TickFirst(n, Open(n, m, frame[n].j), k)
    BY <1>3
  <2>2. PICK j \in Positions(n) : TickChild(n, j, k)
    BY <2>1 DEF TickFirst, Open
  <2>. QED
    BY <1>1, <2>1, <2>2, ControlGoesOn
<1>4. CASE \E m : \E s \in {RUNNING, SKIPPED} : Remember(n, m) /\ Answer(n, s)
  BY <1>1, <1>4, ControlAnswers
<1>. QED
  BY <1>2, <1>3, <1>4 DEF ParallelReply, ParallelAllReply


\* IfThenElse: without an else branch it answers its condition's FAILURE as it is.
LEMMA IfThenElseShape ==
    ASSUME TypeOK, NEW n \in Node, IfThenElseTick(n) \/ IfThenElseReply(n)
    PROVE  OnCallOf(n) /\ Shape(n)
<1>1. /\ Kind[n] = "IfThenElse" /\ Kind[n] # "RunOnce" /\ {"IfThenElse"} \subseteq ControlKinds
      /\ Positions(n) = 1 .. Count(n) /\ Count(n) \in {2, 3} /\ 2 \in 1 .. Count(n)
  BY BranchFacts DEF IfThenElseTick, IfThenElseReply, Ticking, Replied, ControlKinds,
     BranchKinds
<1>2. CASE IfThenElseTick(n)
  <2>1. mem[n].idx \in Positions(n)
    BY <1>1, MemFacts DEF TypeOK, IndexOK
  <2>2. MemShape(n)
    BY <1>2 DEF IfThenElseTick, SetRunning, MemShape
  <2>. QED
    BY <1>1, <1>2, <2>1, <2>2, SetsRunning DEF IfThenElseTick, SetRunning, Ticking
<1>3. CASE IfThenElseReply(n)
  <2>1. Replied(n, {"IfThenElse"}) /\ Replied(n, ControlKinds)
    BY <1>1, <1>3 DEF IfThenElseReply, Replied
  <2>2. CASE Keep /\ Answer(n, RUNNING)
    BY <1>1, <2>1, <2>2, ControlAnswers
  <2>3. CASE \E m : Remember(n, m) /\ TickChild(n, 2, 0)
    BY <1>1, <2>1, <2>3, ControlGoesOn
  <2>4. CASE Count(n) = 3 /\ \E m : Remember(n, m) /\ TickChild(n, 3, 0)
    BY <1>1, <2>1, <2>4, ControlGoesOn
  <2>5. CASE Count(n) = 2 /\ Keep /\ Answer(n, FAILURE)
    <3>1. ~Disciplined(n)
      BY <1>1, <2>5 DEF Disciplined, LinearKinds, ReactiveKinds, ParallelKinds, Translators
    <3>. QED
      BY <1>1, <2>1, <2>5, <3>1, ControlAnswers
  <2>6. CASE Throw /\ UNCHANGED status
    BY <2>1, <2>6, ControlThrows
  <2>7. CASE ResetChildren(n, Kids(n), FreshMem(n)) /\ Answer(n, ret)
    BY <1>1, <2>1, <2>7, ControlResets
  <2>. QED
    BY <1>3, <2>2, <2>3, <2>4, <2>5, <2>6, <2>7 DEF IfThenElseReply
<1>. QED
  BY <1>2, <1>3

\* WhileDoElse.
LEMMA WhileDoElseShape ==
    ASSUME TypeOK, NEW n \in Node, WhileDoElseTick(n) \/ WhileDoElseReply(n)
    PROVE  OnCallOf(n) /\ Shape(n)
<1>1. /\ Kind[n] # "RunOnce" /\ {"WhileDoElse"} \subseteq ControlKinds
      /\ Positions(n) = 1 .. Count(n) /\ Count(n) \in {2, 3}
      /\ 1 \in 1 .. Count(n) /\ 2 \in 1 .. Count(n)
  BY BranchFacts DEF WhileDoElseTick, WhileDoElseReply, Ticking, Replied, ControlKinds,
     BranchKinds
<1>2. CASE WhileDoElseTick(n)
  <2>1. MemShape(n)
    BY <1>2 DEF WhileDoElseTick, SetRunning, MemShape
  <2>. QED
    BY <1>1, <1>2, <2>1, SetsRunning DEF WhileDoElseTick, SetRunning, Ticking
<1>3. CASE WhileDoElseReply(n)
  <2>1. Replied(n, {"WhileDoElse"})
    BY <1>3 DEF WhileDoElseReply
  <2>. DEFINE E == {Children[n][i] : i \in Positions(n) \cap {3}}
  <2>2. \/ Keep /\ Answer(n, RUNNING)
        \/ ResetChildren(n, E, mem[n]) /\ TickChild(n, 2, 0)
        \/ Count(n) = 3 /\ ResetChildren(n, {Children[n][2]}, mem[n]) /\ TickChild(n, 3, 0)
        \/ /\ ResetChildren(n, Kids(n), mem[n])
           /\ Answer(n, FAILURE) \/ Answer(n, IDLE) \/ Answer(n, ret)
    BY <1>3 DEF WhileDoElseReply
  <2>3. E \subseteq Kids(n)
    BY DEF Kids
  <2>. HIDE DEF E
  <2>4. CASE Keep /\ Answer(n, RUNNING)
    BY <1>1, <2>1, <2>4, ControlAnswers
  <2>5. CASE ResetChildren(n, E, mem[n]) /\ TickChild(n, 2, 0)
    <3>1. 2 \in Positions(n)
      BY <1>1
    <3>2. \E C \in SUBSET Kids(n) : \E m : ResetChildren(n, C, m)
      BY <2>3, <2>5
    <3>. QED
      BY <1>1, <2>1, <2>5, <3>1, <3>2, ControlGoesOn
  <2>6. CASE Count(n) = 3 /\ ResetChildren(n, {Children[n][2]}, mem[n]) /\ TickChild(n, 3, 0)
    <3>1. {Children[n][2]} \subseteq Kids(n) /\ 3 \in Positions(n)
      BY <1>1, <2>6 DEF Kids
    <3>2. \E C \in SUBSET Kids(n) : \E m : ResetChildren(n, C, m)
      BY <2>6, <3>1
    <3>. QED
      BY <1>1, <2>1, <2>6, <3>1, <3>2, ControlGoesOn
  <2>7. CASE /\ ResetChildren(n, Kids(n), mem[n])
             /\ Answer(n, FAILURE) \/ Answer(n, IDLE) \/ Answer(n, ret)
    BY <1>1, <2>1, <2>7, ControlResets
  <2>. QED
    BY <2>2, <2>4, <2>5, <2>6, <2>7
<1>. QED
  BY <1>2, <1>3

\* Switch never sets itself RUNNING before its child, so it is not disciplined.
LEMMA SwitchShape ==
    ASSUME TypeOK, NEW n \in Node, SwitchTick(n) \/ SwitchReply(n)
    PROVE  OnCallOf(n) /\ Shape(n)
<1>1. /\ Kind[n] = "Switch" /\ Kind[n] # "RunOnce" /\ {"Switch"} \subseteq ControlKinds
      /\ Ordinary(n)
  BY ControlOrdinary DEF SwitchTick, SwitchReply, Ticking, Replied, ControlKinds
<1>2. ~Disciplined(n)
  BY <1>1 DEF Disciplined, LinearKinds, ReactiveKinds, ParallelKinds, Translators
<1>3. CASE SwitchTick(n)
  <2>1. PICK match \in Positions(n) :
          /\ IF mem[n].idx \notin {0, match}
             THEN ResetChildren(n, {Children[n][mem[n].idx]}, mem[n]) ELSE Keep
          /\ TickChild(n, match, 0)
    BY <1>3 DEF SwitchTick
  <2>2. MoveShape(n)
    BY <1>1, <1>2, <2>1, CallsChild
  <2>3. StatusShape(n) /\ MemShape(n)
    <3>1. CASE Keep
      BY <3>1, KeepShape
    <3>2. CASE mem[n].idx # 0 /\ ResetChildren(n, {Children[n][mem[n].idx]}, mem[n])
      <4>1. mem[n].idx \in Positions(n)
        BY <1>1, <3>2, MemFacts DEF TypeOK, IndexOK
      <4>2. {Children[n][mem[n].idx]} \in SUBSET Kids(n)
        BY <4>1 DEF Kids
      <4>. QED
        BY <1>1, <3>2, <4>2, ResetShape
    <3>. QED
      BY <2>1, <3>1, <3>2
  <2>. QED
    BY <1>3, <2>2, <2>3 DEF SwitchTick, Ticking, OnCallOf, Shape
<1>4. CASE SwitchReply(n)
  <2>1. Replied(n, {"Switch"}) /\ Answer(n, ret)
    BY <1>4 DEF SwitchReply
  <2>2. CASE \E m : Remember(n, m)
    BY <1>1, <1>2, <2>1, <2>2, ControlAnswers
  <2>3. CASE \E m : ResetChildren(n, Kids(n), m)
    BY <1>1, <2>1, <2>3, ControlResets
  <2>. QED
    BY <1>4, <2>2, <2>3 DEF SwitchReply
<1>. QED
  BY <1>3, <1>4

\* Every class of ControlNodes.
LEMMA ControlShape ==
    ASSUME TypeOK, NEW n \in Node, ControlTick(n)
    PROVE  OnCallOf(n) /\ Shape(n)
<1>1. CASE SequenceTick(n) \/ FallbackTick(n) \/ MemoryTick(n)
  BY <1>1, LinearTickShape DEF SequenceTick, FallbackTick, MemoryTick, LinearKinds
<1>2. CASE SequenceReply(n)
  <2>1. Replied(n, LinearKinds)
    BY <1>2 DEF SequenceReply, Replied, LinearKinds
  <2>. QED
    BY <1>2, <2>1, LinearReplyShape DEF SequenceReply
<1>3. CASE FallbackReply(n)
  <2>1. Replied(n, LinearKinds)
    BY <1>3 DEF FallbackReply, Replied, LinearKinds
  <2>. QED
    BY <1>3, <2>1, LinearReplyShape DEF FallbackReply
<1>4. CASE ReactiveSequenceTick(n) \/ ReactiveFallbackTick(n)
  BY <1>4, ReactiveTickShape DEF ReactiveSequenceTick, ReactiveFallbackTick, ReactiveKinds
<1>5. CASE ReactiveSequenceReply(n) \/ ReactiveFallbackReply(n)
  BY <1>5, ReactiveReplyShape DEF ReactiveSequenceReply, ReactiveFallbackReply, ReactiveKinds
<1>6. CASE \/ ParallelTick(n, {"Parallel"}, {Limit[n], FailLimit[n]})
           \/ ParallelTick(n, {"ParallelAll"}, {Limit[n]})
  <2>1. {"Parallel"} \in SUBSET ParallelKinds /\ {"ParallelAll"} \in SUBSET ParallelKinds
    BY DEF ParallelKinds
  <2>. QED
    BY <1>6, <2>1, ParallelTickShape
<1>. QED
  BY <1>1, <1>2, <1>3, <1>4, <1>5, <1>6, MemoryReplyShape, ParallelReplyShape,
     IfThenElseShape, WhileDoElseShape, SwitchShape DEF ControlTick

-------------------------------------------------------------------------------
(* Leaves                                                                  *)

\* A leaf has no children, and is not one of the disciplined parents.
LEMMA LeafShape ==
    ASSUME TypeOK, NEW n \in Node, LeafTick(n)
    PROVE  OnCallOf(n) /\ Shape(n)
<1>1. Kind[n] \in LeafKinds /\ cur = n /\ OnCallOf(n)
  BY DEF LeafTick, SyncTick, SimpleActionTick, StatefulTick, Ticking, LeafKinds, OnCallOf
<1>2. Kids(n) = {}
  BY <1>1, KindAssumption, TreeFacts DEF Kids
<1>3. Answers[n] \subseteq NodeStatus
  BY AnswersAssumption
<1>4. \A s : Answer(n, s) => MoveShape(n)
  BY <1>2, AnswersReset
<1>5. Unwind => MoveShape(n)
  BY DEF MoveShape
<1>6. UNCHANGED <<mem, heard>> => MemShape(n)
  BY DEF MemShape
<1>7. \A s \in NodeStatus : status' = [status EXCEPT ![n] = s] => StatusShape(n)
  BY <1>1, <1>2 DEF StatusShape
<1>8. status' = status => StatusShape(n)
  BY DEF StatusShape
<1>9. status[n] \in NodeStatus
  BY DEF TypeOK, StateOK
<1>10. CASE SyncTick(n)
  BY <1>1, <1>4, <1>6, <1>8, <1>10 DEF SyncTick, Keep, Shape
<1>11. CASE SimpleActionTick(n)
  <2>1. PICK s \in Answers[n] :
          \/ status' = [status EXCEPT ![n] = s] /\ Answer(n, s) /\ UNCHANGED <<mem, heard>>
          \/ status' = [status EXCEPT ![n] = IF @ = IDLE THEN RUNNING ELSE @] /\ Throw
    BY <1>11 DEF SimpleActionTick
  <2>2. (IF status[n] = IDLE THEN RUNNING ELSE status[n]) \in NodeStatus
    BY <1>9
  <2>. QED
    BY <1>1, <1>3, <1>4, <1>5, <1>6, <1>7, <2>1, <2>2 DEF Throw, Shape
<1>12. CASE StatefulTick(n)
  BY <1>1, <1>4, <1>5, <1>6, <1>8, <1>12 DEF StatefulTick, Keep, Throw, Shape
<1>. QED
  BY <1>10, <1>11, <1>12 DEF LeafTick

-------------------------------------------------------------------------------
(* Decorators                                                              *)

\* A decorator has one child; those that count no rounds are the ordinary ones.
LEMMA DecoratorFacts ==
    ASSUME NEW n \in Node, Kind[n] \in DecoratorKinds
    PROVE  1 \in Positions(n) /\ Kids(n) = {Child(n)}
<1>1. Positions(n) = 1 .. 1
  BY TreeFacts, KindAssumption
<1>. QED
  BY <1>1 DEF Kids, Child

\* resetChild().
LEMMA ResetChildShape ==
    ASSUME TypeOK, NEW n \in Node, Kind[n] \in DecoratorKinds, NEW m, ResetChild(n, m),
           \/ Ordinary(n)
           \/ /\ HasRounds(n, mem[n]) => HasRounds(n, m)
              /\ Kind[n] = "RunOnce" /\ mem[n].flag => m.flag
    PROVE  /\ StatusShape(n) /\ MemShape(n)
           /\ \A k \in Kids(n) : status'[k] = IDLE
<1>. DEFINE C == {Child(n)}
<1>1. C = Kids(n) /\ C \in SUBSET Kids(n)
  BY DecoratorFacts
<1>2. ResetChildren(n, C, m)
  BY DEF ResetChild
<1>. HIDE DEF C
<1>3. /\ StatusShape(n)
      /\ \A x \in Node \ {n} :
            mem'[x] = mem[x] \/ (mem'[x] = FreshMem(x) /\ Kind[x] \notin KeepsMemory)
      /\ mem'[n] = m
      /\ \A k \in C : status'[k] = IDLE
      /\ Ordinary(n) => MemShape(n)
  BY <1>1, <1>2, ResetShape
<1>. QED
  BY <1>1, <1>3 DEF MemShape

\* A node only writes its own members.
LEMMA RememberShape ==
    ASSUME TypeOK, NEW n \in Node, NEW m, Remember(n, m),
           \/ Ordinary(n)
           \/ /\ HasRounds(n, mem[n]) => HasRounds(n, m)
              /\ Kind[n] = "RunOnce" /\ mem[n].flag => m.flag
    PROVE  StatusShape(n) /\ MemShape(n)
<1>1. StatusShape(n)
  BY DEF Remember, StatusShape
<1>2. mem'[n] = m /\ \A x \in Node \ {n} : mem'[x] = mem[x]
  BY DEF Remember, TypeOK, StateOK
<1>. QED
  BY <1>1, <1>2, OrdinaryShape DEF MemShape

\* A decorator that resets a completed child, and completes only after one.
LEMMA ResetIfCompletedShape ==
    ASSUME TypeOK, NEW n \in Node, Kind[n] \in DecoratorKinds, NEW kinds,
           Replied(n, kinds), NEW m, ResetIfCompleted(n, m),
           \/ Ordinary(n)
           \/ /\ HasRounds(n, mem[n]) => HasRounds(n, m)
              /\ Kind[n] = "RunOnce" /\ mem[n].flag => m.flag,
           NEW s, Answer(n, s), isStatusCompleted(ret) \/ s \notin Completed
    PROVE  OnCallOf(n) /\ Shape(n)
<1>1. OnCallOf(n)
  BY ReplyFacts
<1>2. CASE isStatusCompleted(ret)
  <2>1. /\ StatusShape(n) /\ MemShape(n)
        /\ \A k \in Kids(n) : status'[k] = IDLE
    BY <1>2, ResetChildShape DEF ResetIfCompleted
  <2>. QED
    BY <1>1, <2>1, AnswersReset DEF Shape
<1>3. CASE ~isStatusCompleted(ret)
  <2>1. StatusShape(n) /\ MemShape(n)
    BY <1>3, RememberShape DEF ResetIfCompleted
  <2>2. MoveShape(n)
    BY <1>3, AnswersOpen
  <2>. QED
    BY <1>1, <2>1, <2>2 DEF Shape
<1>. QED
  BY <1>2, <1>3

\* Inverter, ForceSuccess, ForceFailure, KeepRunningUntilFailure, SubTree.
LEMMA TranslatorShape ==
    ASSUME TypeOK, NEW n \in Node,
           \/ TranslatorTick(n) \/ InverterReply(n) \/ ForceReply(n) \/ KeepRunningReply(n)
           \/ SubTreeTick(n) \/ SubTreeReply(n)
    PROVE  OnCallOf(n) /\ Shape(n)
<1>1. Kind[n] \in DecoratorKinds /\ Ordinary(n) /\ Kind[n] # "RunOnce"
  BY DEF TranslatorTick, InverterReply, ForceReply, KeepRunningReply, SubTreeTick,
     SubTreeReply, Ticking, Replied, Translators, DecoratorKinds, Ordinary, Counting
<1>2. CASE TranslatorTick(n)
  <2>1. cur = n /\ pc = "tick" /\ MemShape(n)
    BY <1>2 DEF TranslatorTick, Ticking, SetRunning, MemShape
  <2>. QED
    BY <1>1, <1>2, <2>1, DecoratorFacts, SetsRunning DEF TranslatorTick, SetRunning
<1>3. CASE SubTreeTick(n)
  <2>1. Kind[n] = "SubTree" /\ cur = n /\ OnCallOf(n) /\ MemShape(n)
    BY <1>3 DEF SubTreeTick, Ticking, MemShape, OnCallOf
  <2>2. ~Disciplined(n)
    BY <2>1 DEF Disciplined, LinearKinds, ReactiveKinds, ParallelKinds, Translators
  <2>3. status \in [Node -> NodeStatus]
    BY DEF TypeOK, StateOK
  <2>4. status' = status \/ status' = [status EXCEPT ![n] = RUNNING]
    BY <1>3, <2>3 DEF SubTreeTick
  <2>5. MoveShape(n)
    BY <1>1, <1>3, <2>2, DecoratorFacts, CallsChild DEF SubTreeTick
  <2>. QED
    BY <2>1, <2>4, <2>5 DEF Shape, StatusShape
<1>4. CASE InverterReply(n)
  <2>. DEFINE s == IF isStatusCompleted(ret) THEN Opposite(ret) ELSE ret
  <2>1. Replied(n, {"Inverter"}) /\ ResetIfCompleted(n, mem[n]) /\ Answer(n, s)
    BY <1>4 DEF InverterReply
  <2>2. isStatusCompleted(ret) \/ s \notin Completed
    OBVIOUS
  <2>. HIDE DEF s
  <2>. QED
    BY <1>1, <2>1, <2>2, ResetIfCompletedShape
<1>5. CASE ForceReply(n)
  <2>. DEFINE s == IF ~isStatusCompleted(ret) THEN ret
                   ELSE IF Kind[n] = "ForceSuccess" THEN SUCCESS ELSE FAILURE
  <2>1. /\ Replied(n, {"ForceSuccess", "ForceFailure"}) /\ ResetIfCompleted(n, mem[n])
        /\ Answer(n, s)
    BY <1>5 DEF ForceReply
  <2>2. isStatusCompleted(ret) \/ s \notin Completed
    OBVIOUS
  <2>. HIDE DEF s
  <2>. QED
    BY <1>1, <2>1, <2>2, ResetIfCompletedShape
<1>6. CASE KeepRunningReply(n)
  <2>. DEFINE s == IF ret = FAILURE THEN FAILURE ELSE RUNNING
  <2>1. /\ Replied(n, {"KeepRunningUntilFailure"}) /\ ResetIfCompleted(n, mem[n])
        /\ Answer(n, s)
    BY <1>6 DEF KeepRunningReply
  <2>2. isStatusCompleted(ret) \/ s \notin Completed
    OBVIOUS
  <2>. HIDE DEF s
  <2>. QED
    BY <1>1, <2>1, <2>2, ResetIfCompletedShape
<1>7. CASE SubTreeReply(n)
  BY <1>1, <1>7, ResetIfCompletedShape DEF SubTreeReply
<1>. QED
  BY <1>2, <1>3, <1>4, <1>5, <1>6, <1>7

\* SimpleDecorator, EntryUpdatedDecorator, LoopNode and Precondition do not set
\* themselves RUNNING before the child, so they are not disciplined.
LEMMA UndisciplinedShape ==
    ASSUME TypeOK, NEW n \in Node, Kind[n] \in DecoratorKinds, Ordinary(n),
           Kind[n] \notin Translators, OnCallOf(n),
           \/ Keep
           \/ \E m : Remember(n, m)
           \/ \E m : ResetChild(n, m)
           \/ /\ cur = n
              /\ status' = status \/ status' = [status EXCEPT ![n] = RUNNING]
              /\ \E m : mem' = [mem EXCEPT ![n] = m],
           (\E k : TickChild(n, 1, k)) \/ (\E s : Answer(n, s))
    PROVE  Shape(n)
<1>1. ~Disciplined(n) /\ Kind[n] # "RunOnce"
  BY DEF Disciplined, LinearKinds, ReactiveKinds, ParallelKinds, Ordinary, Counting,
         DecoratorKinds, UpdatedKinds
<1>2. StatusShape(n) /\ MemShape(n)
  <2>1. CASE Keep
    BY <2>1, KeepShape
  <2>2. CASE \E m : Remember(n, m)
    BY <2>2, RememberShape
  <2>3. CASE \E m : ResetChild(n, m)
    BY <2>3, ResetChildShape
  <2>4. CASE /\ cur = n
             /\ status' = status \/ status' = [status EXCEPT ![n] = RUNNING]
             /\ \E m : mem' = [mem EXCEPT ![n] = m]
    BY <2>4, OwnMemShape, OrdinaryShape DEF StatusShape
  <2>. QED
    BY <2>1, <2>2, <2>3, <2>4
<1>3. MoveShape(n)
  BY <1>1, DecoratorFacts, CallsChild, AnswersOpen
<1>. QED
  BY <1>2, <1>3 DEF Shape


\* The decorators that are not disciplined.
LEMMA OtherDecoratorShape ==
    ASSUME TypeOK, NEW n \in Node,
           \/ SimpleDecoratorTick(n) \/ SimpleDecoratorReply(n)
           \/ PreconditionTick(n) \/ PreconditionReply(n)
           \/ UpdatedTick(n) \/ UpdatedReply(n)
           \/ LoopTick(n) \/ LoopReply(n)
    PROVE  OnCallOf(n) /\ Shape(n)
<1>1. Kind[n] \in {"SimpleDecorator", "Precondition", "LoopNode"} \cup UpdatedKinds
  BY DEF SimpleDecoratorTick, SimpleDecoratorReply, PreconditionTick, PreconditionReply,
     UpdatedTick, UpdatedReply, LoopTick, LoopReply, Ticking, Replied
<1>2. Kind[n] \in DecoratorKinds /\ Ordinary(n) /\ Kind[n] \notin Translators
  BY <1>1 DEF DecoratorKinds, Ordinary, Counting, Translators, UpdatedKinds
<1>3. OnCallOf(n)
  BY DEF SimpleDecoratorTick, SimpleDecoratorReply, PreconditionTick, PreconditionReply,
     UpdatedTick, UpdatedReply, LoopTick, LoopReply, Ticking, Replied, OnCallOf
<1>4. \A m : ResetIfCompleted(n, m) => ResetChild(n, m) \/ Remember(n, m)
  BY DEF ResetIfCompleted
<1>5. \/ Keep
      \/ \E m : Remember(n, m)
      \/ \E m : ResetChild(n, m)
      \/ /\ cur = n
         /\ status' = status \/ status' = [status EXCEPT ![n] = RUNNING]
         /\ \E m : mem' = [mem EXCEPT ![n] = m]
  <2>1. CASE SimpleDecoratorTick(n) \/ SimpleDecoratorReply(n)
    BY <2>1 DEF SimpleDecoratorTick, SimpleDecoratorReply
  <2>2. CASE PreconditionTick(n) \/ PreconditionReply(n)
    BY <1>4, <2>2 DEF PreconditionTick, PreconditionReply
  <2>3. CASE UpdatedTick(n) \/ UpdatedReply(n)
    BY <2>3 DEF UpdatedTick, UpdatedReply
  <2>4. CASE LoopTick(n)
    <3>1. status \in [Node -> NodeStatus] /\ mem \in [Node -> Memory]
      BY DEF TypeOK, StateOK
    <3>2. status' = status \/ status' = [status EXCEPT ![n] = RUNNING]
      BY <2>4, <3>1 DEF LoopTick
    <3>3. cur = n /\ \E m : mem' = [mem EXCEPT ![n] = m]
      BY <2>4, <3>1 DEF LoopTick, Ticking
    <3>. QED
      BY <3>2, <3>3
  <2>5. CASE LoopReply(n)
    BY <1>4, <2>5 DEF LoopReply
  <2>. QED
    BY <2>1, <2>2, <2>3, <2>4, <2>5
<1>6. (\E k : TickChild(n, 1, k)) \/ (\E s : Answer(n, s))
  BY DEF SimpleDecoratorTick, SimpleDecoratorReply, PreconditionTick, PreconditionReply,
     UpdatedTick, UpdatedReply, LoopTick, LoopReply
<1>. QED
  BY <1>2, <1>3, <1>5, <1>6, UndisciplinedShape

\* RunOnce: once the flag is set the child is not ticked and the flag stays.
LEMMA RunOnceShape ==
    ASSUME TypeOK, NEW n \in Node, RunOnceTick(n) \/ RunOnceReply(n)
    PROVE  OnCallOf(n) /\ Shape(n)
<1>1. Kind[n] = "RunOnce" /\ Kind[n] \in DecoratorKinds /\ OnCallOf(n)
  BY DEF RunOnceTick, RunOnceReply, Ticking, Replied, DecoratorKinds, OnCallOf
<1>2. ~Disciplined(n)
  BY <1>1 DEF Disciplined, LinearKinds, ReactiveKinds, ParallelKinds, Translators
<1>3. CASE mem[n].flag /\ Keep /\ \E s : Answer(n, s)
  BY <1>1, <1>2, <1>3, KeepShape, AnswersOpen DEF Shape
<1>4. CASE pc = "tick" /\ cur = n /\ ~mem[n].flag /\ SetRunning(n) /\ TickChild(n, 1, 0)
  <2>1. StatusShape(n) /\ MemShape(n)
    BY <1>4 DEF SetRunning, StatusShape, MemShape
  <2>2. MoveShape(n)
    BY <1>1, <1>2, <1>4, DecoratorFacts DEF MoveShape, SetRunning
  <2>. QED
    BY <1>1, <2>1, <2>2 DEF Shape
<1>5. CASE RunOnceReply(n)
  <2>. DEFINE m == IF isStatusCompleted(ret)
                   THEN [mem[n] EXCEPT !.flag = TRUE, !.returned = ret] ELSE mem[n]
  <2>1. Replied(n, {"RunOnce"}) /\ ResetIfCompleted(n, m) /\ Answer(n, ret)
    BY <1>5 DEF RunOnceReply
  <2>2. mem[n] \in Memory
    BY DEF TypeOK, StateOK
  <2>3. mem[n].flag => m.flag
    BY <2>2 DEF Memory
  <2>4. HasRounds(n, mem[n]) => HasRounds(n, m)
    BY <1>1 DEF HasRounds, Counting
  <2>. HIDE DEF m
  <2>. QED
    BY <1>1, <2>1, <2>3, <2>4, ResetIfCompletedShape
<1>. QED
  BY <1>3, <1>4, <1>5 DEF RunOnceTick, Ticking

\* Repeat and RetryUntilSuccessful up to the child; a disciplined one has a round left.
LEMMA CountingTickShape ==
    ASSUME HaltInv, NEW n \in Node, Kind[n] \in Counting, pc = "tick", cur = n,
           NEW again \in Completed, CountingTick(n, again)
    PROVE  OnCallOf(n) /\ Shape(n)
<1>1. TypeOK /\ OnCallOf(n) /\ Kind[n] # "RunOnce" /\ Kind[n] \in DecoratorKinds
  BY DEF HaltInv, OnCallOf, Counting, DecoratorKinds
<1>2. StatusShape(n) /\ status' = [status EXCEPT ![n] = RUNNING]
  BY DEF CountingTick, StatusShape
<1>3. CASE UNCHANGED mem /\ TickChild(n, 1, 0)
  <2>1. MemShape(n)
    BY <1>3 DEF MemShape
  <2>. QED
    BY <1>1, <1>2, <1>3, <2>1, DecoratorFacts, SetsRunning
<1>4. CASE /\ ~Loops(n, mem[n].count)
           /\ mem' = [mem EXCEPT ![n].count = 0] /\ Answer(n, again)
  <2>1. HasRounds(n, mem[n])
    BY DEF HaltInv, RoundsLeft
  <2>2. ~Disciplined(n)
    BY <1>4, <2>1 DEF Disciplined, HasRounds, Counting, LinearKinds, ReactiveKinds,
       ParallelKinds, Translators
  <2>3. mem \in [Node -> Memory] /\ mem[n] \in Memory
    BY <1>1 DEF TypeOK, StateOK
  <2>4. mem'[n].count = 0 /\ \A x \in Node \ {n} : mem'[x] = mem[x]
    BY <1>4, <2>3 DEF Memory
  <2>5. MemShape(n)
    BY <1>1, <2>4 DEF MemShape, HasRounds
  <2>6. MoveShape(n)
    BY <1>4, <2>2, AnswersOpen
  <2>. QED
    BY <1>1, <1>2, <2>5, <2>6 DEF Shape
<1>. QED
  BY <1>3, <1>4 DEF CountingTick

\* Repeat and RetryUntilSuccessful at the child's answer.
LEMMA CountingReplyShape ==
    ASSUME TypeOK, NEW n \in Node, Kind[n] \in Counting, Replied(n, Counting),
           NEW again \in Completed, CountingReply(n, again)
    PROVE  OnCallOf(n) /\ Shape(n)
<1>1. /\ OnCallOf(n) /\ Kind[n] # "RunOnce" /\ Kind[n] \in DecoratorKinds /\ cur # n
      /\ mem[n] \in Memory
  BY ReplyFacts DEF Counting, DecoratorKinds, TypeOK, StateOK
<1>2. CASE Keep /\ Answer(n, RUNNING)
  BY <1>1, <1>2, KeepShape, AnswersOpen DEF Shape
<1>. DEFINE more == mem[n].count + 1
            m == [mem[n] EXCEPT !.count = more]
<1>3. CASE /\ \/ ResetChild(n, mem[n])
              \/ ResetChild(n, FreshMem(n))
              \/ Loops(n, more) /\ ResetChild(n, m)
           /\ \/ \E s : Answer(n, s)
              \/ Yield(n)
              \/ TickChild(n, 1, 0)
  <2>1. m.count = more /\ FreshMem(n).count = 0
    BY <1>1 DEF Memory, FreshMem
  <2>2. /\ HasRounds(n, FreshMem(n))
        /\ Loops(n, more) => HasRounds(n, m)
    BY <2>1 DEF HasRounds
  <2>. HIDE DEF m, more
  <2>3. /\ StatusShape(n) /\ MemShape(n)
        /\ \A k \in Kids(n) : status'[k] = IDLE
    BY <1>1, <1>3, <2>2, ResetChildShape
  <2>4. MoveShape(n)
    <3>1. CASE \E s : Answer(n, s)
      BY <2>3, <3>1, AnswersReset
    <3>2. CASE Yield(n)
      BY <3>2, AnswersOpen
    <3>3. CASE TickChild(n, 1, 0)
      BY <1>1, <3>3, DecoratorFacts, CallsChild
    <3>. QED
      BY <1>3, <3>1, <3>2, <3>3
  <2>. QED
    BY <1>1, <2>3, <2>4 DEF Shape
<1>. QED
  BY <1>2, <1>3 DEF CountingReply

\* Every class of DecoratorNodes.
LEMMA DecoratorShape ==
    ASSUME HaltInv, NEW n \in Node, DecoratorTick(n)
    PROVE  OnCallOf(n) /\ Shape(n)
<1>1. TypeOK
  BY DEF HaltInv
<1>2. CASE RepeatTick(n) \/ RetryTick(n)
  BY <1>2, CountingTickShape DEF RepeatTick, RetryTick, Ticking, Counting
<1>3. CASE RepeatReply(n)
  <2>1. Replied(n, Counting) /\ Kind[n] \in Counting
    BY <1>3 DEF RepeatReply, Replied, Counting
  <2>. QED
    BY <1>1, <1>3, <2>1, CountingReplyShape DEF RepeatReply
<1>4. CASE RetryReply(n)
  <2>1. Replied(n, Counting) /\ Kind[n] \in Counting
    BY <1>4 DEF RetryReply, Replied, Counting
  <2>. QED
    BY <1>1, <1>4, <2>1, CountingReplyShape DEF RetryReply
<1>. QED
  BY <1>1, <1>2, <1>3, <1>4, TranslatorShape, OtherDecoratorShape, RunOnceShape
     DEF DecoratorTick

-------------------------------------------------------------------------------
(* executeTick around tick()                                               *)

\* The parent of a RUNNING child is RUNNING if it is disciplined.
LEMMA RunningParent ==
    ASSUME RunningReached, NEW n \in Node, Disciplined(n), NEW k \in Kids(n),
           status[k] = RUNNING
    PROVE  status[n] = RUNNING
<1>1. k \in Node /\ n \in Above[k] /\ Above[k] = {n} \cup Above[n]
  BY KidFacts
<1>2. \A b \in Above[n] : n \notin Above[b]
  BY AboveFacts
<1>3. InReach(k, n)
  BY <1>1, <1>2 DEF InReach, Between
<1>. QED
  BY <1>1, <1>3 DEF RunningReached

\* A step that changes no status and no member.
LEMMA KeepKept ==
    ASSUME HaltInv, Keep
    PROVE  RunningReached' /\ RoundsLeft' /\ (cur' = cur => InUse')
<1>1. status' = status /\ mem' = mem
  BY DEF Keep
<1>2. RunningReached' /\ RoundsLeft'
  BY <1>1 DEF HaltInv, RunningReached, RoundsLeft, HasRounds
<1>3. cur' = cur => InUse'
  BY <1>1 DEF HaltInv, InUse
<1>. QED
  BY <1>2, <1>3

\* A pre-condition or callback answers in place of tick(), or tick() is called.
LEMMA EnterKept ==
    ASSUME HaltInv, TypeOK', NEW n \in Node,
           PreConditionAnswers(n) \/ PreTickSubstitutes(n) \/ CallTick(n)
    PROVE  HaltInv'
<1>1. pc = "enter" /\ cur = n /\ cur' = n /\ Keep /\ pc' \in {"preempted", "tick"}
  BY DEF PreConditionAnswers, PreTickSubstitutes, CallTick, Go
<1>2. RunningReached' /\ RoundsLeft' /\ InUse'
  BY <1>1, KeepKept
<1>3. CallersRun'
  BY <1>1 DEF HaltInv, CallersRun, InCall, Keep
<1>4. ASSUME pc' = "preempted", Disciplined(n)
      PROVE  \A k \in Kids(n) : status'[k] # RUNNING
  <2>1. ~PreTickSubstitutes(n) /\ PreConditionAnswers(n)
    BY <1>4 DEF PreTickSubstitutes, Disciplined, CallTick, Go
  <2>2. status[n] # RUNNING /\ status' = status
    BY <2>1 DEF PreConditionAnswers, Keep
  <2>3. RunningReached
    BY DEF HaltInv
  <2>. QED
    BY <1>4, <2>2, <2>3, RunningParent
<1>5. AnsweredIsDone' /\ RestsAtRoot' /\ OnceBelow'
  BY <1>1, <1>4 DEF AnsweredIsDone, RestsAtRoot, OnceBelow
<1>. QED
  BY <1>2, <1>3, <1>5 DEF HaltInv

\* A halt resets members to what they were at first, or leaves them.
LEMMA MemAfterKept ==
    ASSUME RoundsLeft, NEW H, mem' = MemAfter(H)
    PROVE  RoundsLeft'
<1>1. \A x \in Node : mem'[x] = mem[x] \/ mem'[x] = FreshMem(x)
  BY DEF MemAfter
<1>2. \A x \in Node : FreshMem(x).count = 0
  BY DEF FreshMem
<1>3. \A x \in Node : HasRounds(x, mem'[x])
  BY <1>1, <1>2 DEF RoundsLeft, HasRounds
<1>. QED
  BY <1>3 DEF RoundsLeft, HasRounds, Loops

\* WHILE_TRUE fails: the node and all it has running are halted, its callers are not.
LEMMA PreConditionHaltsKept ==
    ASSUME HaltInv, TypeOK', NEW n \in Node, PreConditionHalts(n)
    PROVE  HaltInv'
<1>. DEFINE H == HaltedFrom(n)
<1>1. /\ pc = "enter" /\ cur = n /\ cur' = n /\ pc' = "preempted" /\ ret' = SKIPPED
      /\ status' = StatusAfter(H, {}) /\ mem' = MemAfter(H)
  BY DEF PreConditionHalts, Go
<1>2. TypeOK /\ RunningReached /\ RoundsLeft /\ InUse /\ CallersRun
  BY DEF HaltInv
<1>3. RunningReached'
  BY <1>1, <1>2, HaltedFromReaches, HaltKept
<1>4. RoundsLeft'
  BY <1>1, <1>2, MemAfterKept
<1>5. ASSUME NEW a \in Above[n]
      PROVE  status'[a] = status[a]
  <2>1. a \in Node /\ a # n /\ n \notin Above[a]
    BY AboveFacts
  <2>2. a \notin H
    BY <2>1 DEF HaltedFrom
  <2>3. a \notin Roots => Parent[a] \notin H
    BY <2>1, TreeAssumption DEF HaltedFrom
  <2>. QED
    BY <1>1, <2>1, <2>2, <2>3 DEF StatusAfter, ResetByHalt
<1>6. CallersRun'
  BY <1>1, <1>2, <1>5 DEF CallersRun, InCall
<1>. HIDE DEF H
<1>7. \A x \in Node : status'[x] = RUNNING => status[x] = RUNNING
  BY <1>1 DEF StatusAfter
<1>8. InUse'
  BY <1>1, <1>2, <1>7 DEF InUse
<1>9. AnsweredIsDone' /\ RestsAtRoot' /\ OnceBelow'
  BY <1>1 DEF AnsweredIsDone, RestsAtRoot, OnceBelow
<1>. QED
  BY <1>3, <1>4, <1>6, <1>8, <1>9 DEF HaltInv

\* An exception: the call goes back to the root of the tree in use.
LEMMA UnwindKept ==
    ASSUME HaltInv, TypeOK', RunningReached', RoundsLeft', Unwind,
           \A x \in Node : status'[x] = RUNNING => status[x] = RUNNING \/ x = cur
    PROVE  HaltInv'
<1>1. cur \in Node
  BY DEF HaltInv, TypeOK, CallOK
<1>2. pc' = "rest" /\ cur' = RootOf(cur) /\ RootOf(cur) \in Roots
  BY <1>1, RootOfOK DEF Unwind
<1>3. RootOf(cur') = RootOf(cur)
  BY <1>2, RootOfIs, TreeAssumption
<1>4. InUse'
  BY <1>3 DEF HaltInv, InUse
<1>5. CallersRun' /\ AnsweredIsDone' /\ RestsAtRoot' /\ OnceBelow'
  BY <1>2 DEF CallersRun, InCall, AnsweredIsDone, RestsAtRoot, OnceBelow
<1>. QED
  BY <1>4, <1>5 DEF HaltInv

\* executeTick() returns the answer s to the caller.
LEMMA RepliesKept ==
    ASSUME HaltInv, TypeOK', NEW n \in Node, cur = n, pc \in {"ticked", "preempted"},
           NEW s, n \notin PostTick => s = ret, s # IDLE, s \in NodeStatus,
           status' = [x \in Node |->
                        IF x = n THEN (IF s = SKIPPED THEN status[n] ELSE s)
                        ELSE IF ResetByDecorator(n, x) THEN IDLE ELSE status[x]],
           mem' = mem, Go("reply", n, s)
    PROVE  HaltInv'
<1>1. TypeOK /\ RunningReached /\ RoundsLeft /\ InUse /\ CallersRun /\ AnsweredIsDone
  BY DEF HaltInv
<1>2. pc' = "reply" /\ cur' = n /\ ret' = s
  BY DEF Go
<1>3. status'[n] = IF s = SKIPPED THEN status[n] ELSE s
  OBVIOUS
<1>4. \A x \in Node \ {n} :
          /\ status'[x] \in {IDLE, status[x]}
          /\ status[x] = RUNNING => status'[x] = RUNNING
  BY DEF ResetByDecorator
<1>5. Disciplined(n) => s = ret
  BY DEF Disciplined
<1>6. \A a \in Above[n] : Disciplined(a) => status'[a] = RUNNING
  <2>1. \A a \in Above[n] : a \in Node /\ a # n
    BY AboveFacts
  <2>. QED
    BY <1>1, <1>4, <2>1 DEF CallersRun, InCall
<1>7. ASSUME NEW x \in Node, NEW a \in Above[x], status'[x] = RUNNING, InReach(x, a)
      PROVE  status'[a] = RUNNING
  <2>1. a \in Node /\ a \in Between(x, a)
    BY AboveFacts DEF Between
  <2>2. Disciplined(a)
    BY <1>7, <2>1 DEF InReach
  <2>3. CASE x = n
    BY <1>6, <2>2, <2>3
  <2>4. CASE x # n /\ a # n
    BY <1>1, <1>4, <1>7, <2>1, <2>4 DEF RunningReached
  <2>5. CASE x # n /\ a = n
    <3>1. status[x] = RUNNING
      BY <1>4, <1>7, <2>5
    <3>2. status[n] = RUNNING
      BY <1>1, <1>7, <2>5, <3>1 DEF RunningReached
    <3>3. s \notin Completed
      BY <1>1, <1>5, <1>7, <2>2, <2>5, <3>1, NoneBelow DEF AnsweredIsDone
    <3>. QED
      BY <1>3, <2>5, <3>2, <3>3
  <2>. QED
    BY <2>3, <2>4, <2>5
<1>8. RunningReached'
  BY <1>7 DEF RunningReached
<1>9. AnsweredIsDone'
  <2>1. \A k \in Kids(n) : k \in Node /\ k # n
    BY KidFacts
  <2>2. s \in Completed /\ Disciplined(n) => \A k \in Kids(n) : status[k] # RUNNING
    BY <1>1, <1>5 DEF AnsweredIsDone
  <2>3. s \in Completed /\ Disciplined(n) => \A k \in Kids(n) : status'[k] # RUNNING
    BY <1>4, <2>1, <2>2
  <2>. QED
    BY <1>2, <2>3 DEF AnsweredIsDone
<1>10. CallersRun'
  BY <1>2, <1>6 DEF CallersRun
<1>11. RoundsLeft'
  BY <1>1 DEF RoundsLeft, HasRounds
<1>12. InUse'
  BY <1>1, <1>2, <1>4 DEF InUse
<1>13. RestsAtRoot' /\ OnceBelow'
  BY <1>2 DEF RestsAtRoot, OnceBelow
<1>. QED
  BY <1>8, <1>9, <1>10, <1>11, <1>12, <1>13 DEF HaltInv

\* The end of executeTick().
LEMMA LeaveKept ==
    ASSUME HaltInv, TypeOK', NEW n \in Node, Leave(n)
    PROVE  HaltInv'
<1>1. PICK s \in IF n \in PostTick THEN {ret} \cup Completed ELSE {ret} :
        \/ s = IDLE /\ Throw /\ UNCHANGED status
        \/ /\ s = RUNNING /\ Kind[n] \in {"SyncAction", "SimpleAction"}
           /\ status' = [status EXCEPT ![n] = RUNNING]
           /\ Throw
        \/ /\ s # IDLE
           /\ s = RUNNING => Kind[n] \notin {"SyncAction", "SimpleAction"}
           /\ status' = [x \in Node |->
                           IF x = n THEN (IF s = SKIPPED THEN status[n] ELSE s)
                           ELSE IF ResetByDecorator(n, x) THEN IDLE ELSE status[x]]
           /\ heard' = [x \in Node |-> IF x = n THEN s
                                       ELSE IF x \in Kids(n) /\ Forgets(n, s) THEN IDLE
                                       ELSE heard[x]]
           /\ Go("reply", n, s)
           /\ UNCHANGED <<mem, frame, ready>>
  BY DEF Leave
<1>2. s \in NodeStatus /\ (n \notin PostTick => s = ret)
  BY <1>1 DEF HaltInv, TypeOK, CallOK
<1>3. cur = n /\ pc \in {"ticked", "preempted"}
  BY DEF Leave
<1>4. CASE Throw /\ status' \in {status, [status EXCEPT ![n] = RUNNING]}
  <2>1. status \in [Node -> NodeStatus] /\ RunningReached /\ CallersRun /\ InCall
    BY <1>3 DEF HaltInv, TypeOK, StateOK, InCall
  <2>2. RoundsLeft'
    BY <1>4 DEF Throw, HaltInv, RoundsLeft, HasRounds
  <2>3. \A x \in Node : status[x] = RUNNING => status'[x] = RUNNING
    BY <1>4, <2>1
  <2>4. \A x \in Node : status'[x] = RUNNING => status[x] = RUNNING \/ x = cur
    BY <1>3, <1>4, <2>1
  <2>5. ASSUME NEW x \in Node, NEW a \in Above[x], status'[x] = RUNNING, InReach(x, a)
        PROVE  status'[a] = RUNNING
    <3>1. a \in Node /\ a \in Between(x, a)
      BY AboveFacts DEF Between
    <3>2. Disciplined(a)
      BY <2>5, <3>1 DEF InReach
    <3>. QED
      BY <2>1, <2>3, <2>4, <2>5, <3>1, <3>2 DEF RunningReached, CallersRun
  <2>6. RunningReached'
    BY <2>5 DEF RunningReached
  <2>. QED
    BY <1>4, <2>2, <2>4, <2>6, UnwindKept DEF Throw
<1>5. CASE /\ s # IDLE
           /\ status' = [x \in Node |->
                           IF x = n THEN (IF s = SKIPPED THEN status[n] ELSE s)
                           ELSE IF ResetByDecorator(n, x) THEN IDLE ELSE status[x]]
           /\ Go("reply", n, s)
           /\ UNCHANGED <<mem, frame, ready>>
  BY <1>2, <1>3, <1>5, RepliesKept
<1>. QED
  BY <1>1, <1>4, <1>5

\* A script throws.
LEMMA ScriptThrowsKept ==
    ASSUME HaltInv, TypeOK', NEW n \in Node, ScriptThrows(n)
    PROVE  HaltInv'
<1>1. Unwind /\ UNCHANGED <<status, mem>>
  BY ScriptThrown DEF HaltInv
<1>2. RunningReached' /\ RoundsLeft'
  BY <1>1 DEF HaltInv, RunningReached, RoundsLeft, HasRounds
<1>. QED
  BY <1>1, <1>2, UnwindKept

-------------------------------------------------------------------------------
(* Tree::tickRoot and Tree::haltTree                                       *)

\* Above a root there is nothing.
LEMMA RootFacts ==
    ASSUME NEW r \in Roots
    PROVE  r \in Node /\ Above[r] = {} /\ RootOf(r) = r
BY TreeAssumption, RootOfIs

\* tickRoot() is called, ticks again or wakes up: the root is executed.
LEMMA RootEntersKept ==
    ASSUME HaltInv, TypeOK', Keep, cur \in Roots, pc' = "enter", cur' = cur
    PROVE  HaltInv'
<1>1. RunningReached' /\ RoundsLeft' /\ InUse'
  BY KeepKept
<1>2. CallersRun'
  BY RootFacts DEF CallersRun
<1>3. AnsweredIsDone' /\ RestsAtRoot' /\ OnceBelow'
  BY DEF AnsweredIsDone, RestsAtRoot, OnceBelow
<1>. QED
  BY <1>1, <1>2, <1>3 DEF HaltInv

\* At rest nothing is asked of the call in progress.
LEMMA RestKept ==
    ASSUME HaltInv, TypeOK', RunningReached', RoundsLeft', cur \in Roots, cur' = cur,
           pc' \in {"rest", "sleeping", "halting"},
           \A x \in Node : status'[x] = RUNNING => status[x] = RUNNING
    PROVE  HaltInv'
<1>1. InUse'
  BY DEF HaltInv, InUse
<1>2. CallersRun' /\ AnsweredIsDone' /\ RestsAtRoot' /\ OnceBelow'
  BY DEF CallersRun, InCall, AnsweredIsDone, RestsAtRoot, OnceBelow
<1>. QED
  BY <1>1, <1>2 DEF HaltInv

\* tickRoot() resets a completed root, which has no RUNNING child left if disciplined.
LEMMA RootAnswersKept ==
    ASSUME HaltInv, TypeOK', RootAnswers
    PROVE  HaltInv'
<1>1. /\ TypeOK /\ RunningReached /\ AnsweredIsDone /\ RoundsLeft
      /\ status \in [Node -> NodeStatus]
  BY DEF HaltInv, TypeOK, StateOK
<1>2. /\ pc = "reply" /\ cur \in Roots /\ cur \in Node /\ cur' = cur
      /\ pc' \in {"rest", "sleeping"} /\ mem' = mem
      /\ status' = [status EXCEPT ![cur] = IF isStatusCompleted(ret) THEN IDLE ELSE @]
  BY RootFacts DEF RootAnswers, Go
<1>3. ASSUME NEW x \in Node, NEW a \in Above[x], status'[x] = RUNNING, InReach(x, a)
      PROVE  status'[a] = RUNNING
  <2>1. a \in Node /\ a \in Between(x, a) /\ status[x] = RUNNING
    BY <1>1, <1>2, <1>3, AboveFacts DEF Between
  <2>2. Disciplined(a) /\ status[a] = RUNNING
    BY <1>1, <1>3, <2>1 DEF InReach, RunningReached
  <2>3. CASE a = cur /\ isStatusCompleted(ret)
    <3>1. \A k \in Kids(a) : status[k] # RUNNING
      BY <1>1, <1>2, <2>2, <2>3 DEF AnsweredIsDone
    <3>. QED
      BY <1>1, <1>3, <2>1, <3>1, NoneBelow
  <2>. QED
    BY <1>1, <1>2, <2>1, <2>2, <2>3
<1>4. RunningReached'
  BY <1>3 DEF RunningReached
<1>5. RoundsLeft'
  BY <1>1, <1>2 DEF RoundsLeft, HasRounds
<1>6. \A x \in Node : status'[x] = RUNNING => status[x] = RUNNING
  BY <1>1, <1>2
<1>. QED
  BY <1>2, <1>4, <1>5, <1>6, RestKept

\* Either pass of haltTree().
LEMMA HaltTreeKept ==
    ASSUME HaltInv, TypeOK', HaltRoot \/ HaltVisit
    PROVE  HaltInv'
<1>1. TypeOK /\ RunningReached /\ RoundsLeft
  BY DEF HaltInv
<1>2. cur \in Roots /\ cur \in Node
  BY RootFacts DEF HaltInv, RestsAtRoot, HaltRoot, HaltVisit
<1>3. cur' = cur /\ pc' \in {"rest", "halting"}
  BY DEF HaltRoot, HaltVisit, Go
<1>4. ASSUME NEW H, NEW R, PassedOn(H), Reaches(H),
             \A x \in R : x \in Node /\ status[x] = RUNNING => x \in H,
             status' = StatusAfter(H, R), mem' = MemAfter(H)
      PROVE  HaltInv'
  <2>1. RunningReached' /\ RoundsLeft'
    BY <1>1, <1>4, HaltKept, MemAfterKept
  <2>2. \A x \in Node : status'[x] = RUNNING => status[x] = RUNNING
    BY <1>4 DEF StatusAfter
  <2>. QED
    BY <1>2, <1>3, <2>1, <2>2, RestKept
<1>5. CASE HaltRoot
  <2>1. PassedOn(HaltedFrom(cur)) /\ Reaches(HaltedFrom(cur))
    BY <1>1, <1>2, HaltedFromReaches
  <2>2. status' = StatusAfter(HaltedFrom(cur), {}) /\ mem' = MemAfter(HaltedFrom(cur))
    BY <1>5 DEF HaltRoot
  <2>. QED
    BY <1>4, <2>1, <2>2
<1>6. CASE HaltVisit
  <2>1. PassedOn(TreeOf(cur)) /\ Reaches(TreeOf(cur)) /\ cur \in TreeOf(cur)
    BY <1>2, TreeOfReaches DEF TreeOf
  <2>2. status' = StatusAfter(TreeOf(cur), {cur}) /\ mem' = MemAfter(TreeOf(cur))
    BY <1>6 DEF HaltVisit
  <2>. QED
    BY <1>4, <2>1, <2>2
<1>. QED
  BY <1>5, <1>6

\* A signal from another thread, or no step at all.
LEMMA StatusQuietKept ==
    ASSUME HaltInv, TypeOK', UNCHANGED <<status, mem, pc, cur, ret>>
    PROVE  HaltInv'
<1>1. RunningReached' /\ RoundsLeft' /\ InUse'
  BY KeepKept DEF Keep, HaltInv, RunningReached, RoundsLeft, HasRounds, InUse
<1>2. CallersRun'
  BY DEF HaltInv, CallersRun, InCall
<1>3. AnsweredIsDone' /\ RestsAtRoot' /\ OnceBelow'
  BY DEF HaltInv, AnsweredIsDone, RestsAtRoot, OnceBelow
<1>. QED
  BY <1>1, <1>2, <1>3 DEF HaltInv

\* The steps of the nodes on call.
LEMMA NodeStepShape ==
    ASSUME HaltInv, NEW n \in {cur} \cup Above[cur], NodeStep(n)
    PROVE  /\ n \in Node
           /\ ExecuteTick(n) \/ (OnCallOf(n) /\ Shape(n))
<1>1. TypeOK /\ {cur} \cup Above[cur] \subseteq Node
  BY TreeAssumption DEF HaltInv, TypeOK, CallOK
<1>2. n \in Node
  BY <1>1
<1>. QED
  BY <1>1, <1>2, LeafShape, ControlShape, DecoratorShape DEF NodeStep

\* Every step keeps the invariant.
LEMMA HaltNextKept ==
    ASSUME HaltInv, [Next]_vars
    PROVE  HaltInv'
<1>1. TypeOK'
  <2>1. TypeOK
    BY DEF HaltInv
  <2>2. CASE UNCHANGED vars
    BY <2>1, <2>2 DEF vars, TypeOK, StateOK, IndexOK, CallOK, Positions
  <2>. QED
    BY <2>1, <2>2, NextOK
<1>2. CASE \E n \in {cur} \cup Above[cur] : NodeStep(n)
  BY <1>1, <1>2, NodeStepShape, ShapeKept, EnterKept, PreConditionHaltsKept, LeaveKept,
     ScriptThrowsKept DEF ExecuteTick, ScriptThrows
<1>3. CASE TickAgain \/ SleepEnds \/ \E o \in TickOption : TickRoot(o)
  <2>1. Keep /\ pc' = "enter" /\ cur' = cur
    BY <1>3 DEF TickAgain, SleepEnds, TickRoot, Go
  <2>2. cur \in Roots
    BY <1>3 DEF TickAgain, SleepEnds, TickRoot, HaltInv, RestsAtRoot
  <2>. QED
    BY <1>1, <2>1, <2>2, RootEntersKept
<1>4. CASE UNCHANGED vars \/ \E n \in Wakers : WakeUp(n)
  <2>1. UNCHANGED <<status, mem, pc, cur, ret>>
    BY <1>4 DEF vars, WakeUp
  <2>. QED
    BY <1>1, <2>1, StatusQuietKept
<1>. QED
  BY <1>1, <1>2, <1>3, <1>4, RootAnswersKept, HaltTreeKept DEF Next, CallStep

\* Trees just built: every node is IDLE.
LEMMA HaltInitOK == Init => HaltInv
<1>. SUFFICES ASSUME Init PROVE HaltInv
  OBVIOUS
<1>1. TypeOK
  BY InitOK
<1>2. RunningReached /\ InUse
  BY DEF Init, RunningReached, InUse
<1>3. RoundsLeft
  BY DEF Init, RoundsLeft, HasRounds, FreshMem
<1>4. CallersRun /\ AnsweredIsDone /\ RestsAtRoot /\ OnceBelow
  BY DEF Init, CallersRun, InCall, AnsweredIsDone, RestsAtRoot, OnceBelow
<1>. QED
  BY <1>1, <1>2, <1>3, <1>4 DEF HaltInv

-------------------------------------------------------------------------------
(* What holds of every tree                                                *)

\* The inductive invariant: whatever ticks, answers, halts, skips and exceptions come
\* in whatever order, a node above a RUNNING one is RUNNING, as far up as the classes
\* on the way are disciplined.
THEOREM HaltInvariant == Spec => []HaltInv
<1>1. HaltInv /\ [Next]_vars => HaltInv'
  BY HaltNextKept
<1>. QED
  BY <1>1, HaltInitOK, PTL DEF Spec

\* No step leaves a RUNNING child under a disciplined parent that is not RUNNING, where
\* resetChildren() and haltTree() would not reach it.
THEOREM ChildrenInReach == Spec => []RunningHasRunningParent
<1>1. HaltInv => RunningHasRunningParent
  <2>. SUFFICES ASSUME HaltInv, NEW c \in Node \ Roots, status[c] = RUNNING,
                       Disciplined(Parent[c])
                PROVE  status[Parent[c]] = RUNNING
    BY DEF RunningHasRunningParent
  <2>1. RunningReached /\ Parent[c] \in Node /\ c \in Kids(Parent[c])
    BY ParentFacts DEF HaltInv
  <2>. QED
    BY <2>1, RunningParent
<1>. QED
  BY <1>1, HaltInvariant, PTL

\* haltNode() of any node, called in any reachable state, leaves no RUNNING node below
\* it in reach of it, and resets each one itself.
THEOREM HaltNodeReaches ==
    Spec => [](\A n \in Node : \A x \in Node :
                  n \in Above[x] /\ InReach(x, n) =>
                      StatusAfter(HaltedFrom(n), {})[x] # RUNNING)
<1>1. ASSUME HaltInv, NEW n \in Node, NEW x \in Node, n \in Above[x], InReach(x, n),
             status[x] = RUNNING
      PROVE  ResetByHalt(HaltedFrom(n), x)
  <2>1. Reaches(HaltedFrom(n)) /\ n \in HaltedFrom(n)
    BY <1>1, HaltedFromReaches DEF HaltInv, HaltedFrom
  <2>2. Parent[x] \in HaltedFrom(n) /\ x \notin Roots
    BY <1>1, <2>1, ParentBetween DEF Reaches
  <2>3. Parent[x] \in Node /\ Disciplined(Parent[x])
    BY <1>1, ParentBetween, ReachSub, TreeAssumption
  <2>. QED
    BY <2>2, <2>3, DisciplinedPasses DEF ResetByHalt
<1>2. HaltInv => \A n \in Node : \A x \in Node :
                    n \in Above[x] /\ InReach(x, n) =>
                        StatusAfter(HaltedFrom(n), {})[x] # RUNNING
  BY <1>1 DEF StatusAfter
<1>. QED
  BY <1>2, HaltInvariant, PTL

-------------------------------------------------------------------------------
(* haltTree() of trees of disciplined classes                              *)

AllDisciplined == \A n \in Node : Kids(n) # {} => Disciplined(n)

\* The first pass of haltTree() alone.
LEMMA FirstPassReaches ==
    ASSUME AllDisciplined, HaltInv, HaltRoot, NEW x \in Node
    PROVE  status'[x] # RUNNING
<1>. DEFINE H == HaltedFrom(cur)
<1>. SUFFICES ASSUME status[x] = RUNNING PROVE ResetByHalt(H, x)
  BY DEF HaltRoot, StatusAfter
<1>1. cur \in Roots /\ cur \in Node /\ RunningReached
  BY RootFacts DEF HaltInv, RestsAtRoot, HaltRoot
<1>2. x = cur \/ cur \in Above[x]
  <2>1. RootOf(x) = cur
    BY <1>1, RootFacts DEF HaltInv, InUse
  <2>. QED
    BY <2>1, TreeAssumption DEF RootOf
<1>3. \A n \in Node : ~StopsHalt(n)
  <2>. SUFFICES ASSUME NEW n \in Node, StopsHalt(n) PROVE FALSE
    OBVIOUS
  <2>1. Kind[n] \in DecoratorKinds
    BY DEF StopsHalt, DecoratorKinds
  <2>2. Kids(n) # {}
    BY <2>1, DecoratorFacts
  <2>. QED
    BY <2>2, DisciplinedPasses DEF AllDisciplined
<1>4. cur \in H
  BY DEF HaltedFrom
<1>5. CASE cur \in Above[x]
  <2>1. \A b \in Above[x] : b \in Node /\ Kids(b) # {}
    BY AboveFacts
  <2>2. InReach(x, cur)
    BY <2>1 DEF InReach, Between, AllDisciplined
  <2>3. Parent[x] \in H /\ x \notin Roots /\ Parent[x] \in Node
    BY <1>1, <1>4, <1>5, <2>2, HaltedFromReaches, ParentBetween, TreeAssumption DEF Reaches
  <2>. QED
    BY <1>3, <2>3 DEF ResetByHalt
<1>. QED
  BY <1>2, <1>3, <1>4, <1>5 DEF ResetByHalt

\* "the halt should propagate to all the node if the nodes have been implemented
\* correctly" (Tree::haltTree): in trees whose classes are all disciplined the first
\* pass, which relies on the nodes alone, leaves nothing RUNNING.
THEOREM HaltReachesAll ==
    ASSUME AllDisciplined
    PROVE  Spec => []HaltReachesRunning
<1>1. HaltInv /\ HaltReachesRunning /\ [Next]_vars => HaltReachesRunning'
  <2>. SUFFICES ASSUME HaltInv, HaltReachesRunning, [Next]_vars, pc' = "halting"
                PROVE  \A x \in Node : status'[x] # RUNNING
    BY DEF HaltReachesRunning
  <2>1. CASE HaltRoot
    BY <2>1, FirstPassReaches
  <2>2. CASE UNCHANGED vars \/ \E n \in Wakers : WakeUp(n)
    BY <2>2 DEF vars, WakeUp, HaltReachesRunning
  <2>3. CASE \E n \in {cur} \cup Above[cur] : NodeStep(n)
    <3>1. PICK n \in {cur} \cup Above[cur] : NodeStep(n)
      BY <2>3
    <3>2. ExecuteTick(n) \/ Shape(n)
      BY <3>1, NodeStepShape
    <3>3. CASE ExecuteTick(n)
      BY <3>3 DEF ExecuteTick, PreConditionAnswers, PreConditionHalts, PreTickSubstitutes,
         CallTick, Leave, PreConditionThrows, PostConditionThrows, Throw, Unwind, Go
    <3>4. CASE Shape(n)
      BY <3>4 DEF Shape, MoveShape, TickChild, Return, Unwind, Go
    <3>. QED
      BY <3>2, <3>3, <3>4
  <2>4. CASE \/ TickAgain \/ RootAnswers \/ SleepEnds \/ HaltVisit
             \/ \E o \in TickOption : TickRoot(o)
    BY <2>4 DEF TickAgain, RootAnswers, SleepEnds, HaltVisit, TickRoot, Go
  <2>. QED
    BY <2>1, <2>2, <2>3, <2>4 DEF Next, CallStep
<1>2. Init => HaltReachesRunning
  BY DEF Init, HaltReachesRunning
<1>. QED
  BY <1>1, <1>2, HaltInvariant, PTL DEF Spec

-------------------------------------------------------------------------------
(* RunOnce                                                                 *)

\* No halt, exception or answer clears the flag of a RunOnce.
LEMMA FlagKept ==
    ASSUME HaltInv, Next, NEW x \in Node, Kind[x] = "RunOnce", mem[x].flag
    PROVE  mem'[x].flag
<1>1. \A H : mem' = MemAfter(H) => mem'[x] = mem[x]
  BY DEF MemAfter, KeepsMemory
<1>2. CASE \E n \in {cur} \cup Above[cur] : NodeStep(n)
  <2>1. PICK n \in {cur} \cup Above[cur] : NodeStep(n)
    BY <1>2
  <2>2. n \in Node /\ (ExecuteTick(n) \/ Shape(n))
    BY <2>1, NodeStepShape
  <2>3. CASE Shape(n)
    BY <2>2, <2>3, MemShapeKept DEF Shape
  <2>4. CASE ExecuteTick(n)
    BY <1>1, <2>4 DEF ExecuteTick, PreConditionAnswers, PreConditionHalts,
       PreTickSubstitutes, CallTick, Leave, PreConditionThrows, PostConditionThrows, Throw,
       Keep
  <2>. QED
    BY <2>2, <2>3, <2>4
<1>3. CASE \/ TickAgain \/ RootAnswers \/ SleepEnds \/ HaltVisit \/ HaltRoot
           \/ (\E o \in TickOption : TickRoot(o)) \/ (\E n \in Wakers : WakeUp(n))
  BY <1>1, <1>3 DEF TickAgain, RootAnswers, SleepEnds, HaltVisit, HaltRoot, TickRoot,
     WakeUp, Keep
<1>. QED
  BY <1>2, <1>3 DEF Next, CallStep

\* RunOnceNode: once the child has completed it is never ticked again, through every
\* halt and exception.
THEOREM RunOnceRunsOnce == Spec => ExecutedOnlyOnce
<1>1. HaltInv /\ HaltInv' /\ [Next]_vars =>
        [\A n \in Node : Kind[n] = "RunOnce" /\ mem[n].flag =>
            mem'[n].flag /\ ~(pc' = "enter" /\ cur' \in Kids(n))]_vars
  <2>. SUFFICES ASSUME HaltInv, HaltInv', Next, NEW n \in Node, Kind[n] = "RunOnce",
                       mem[n].flag
                PROVE  mem'[n].flag /\ ~(pc' = "enter" /\ cur' \in Kids(n))
    OBVIOUS
  <2>1. mem'[n].flag
    BY FlagKept
  <2>2. cur' \in Kids(n) => cur' \notin Roots /\ Parent[cur'] = n
    BY KidFacts
  <2>3. OnceBelow'
    BY DEF HaltInv
  <2>. QED
    BY <2>1, <2>2, <2>3 DEF OnceBelow
<1>. QED
  BY <1>1, HaltInvariant, PTL DEF Spec, ExecutedOnlyOnce

===============================================================================
