----------------------------- MODULE BehaviorTree -----------------------------
(***************************************************************************)
(* A whole tree: Tree::tickRoot() with its three options, Tree::haltTree() *)
(* with its two passes, the wake-up signal that makes tickRoot() tick      *)
(* again, and the nodes of LeafNodes, ControlNodes and DecoratorNodes.     *)
(***************************************************************************)
EXTENDS DecoratorNodes

CONSTANT Wakers    \* leaves that call emitWakeUpSignal() from another thread

ASSUME WakersAssumption == Wakers \subseteq {n \in Node : Kind[n] \in LeafKinds}

TickOption == {"EXACTLY_ONCE", "ONCE_UNLESS_WOKEN_UP", "WHILE_RUNNING"}

InCall == pc \in {"enter", "tick", "ticked", "preempted", "reply"}

\* The nodes whose executeTick() has not returned to its caller's loop yet.
OnCall == IF InCall THEN {cur} \cup Above[cur] ELSE {}

Init ==
    /\ status = [n \in Node |-> IDLE]
    /\ mem = [n \in Node |-> FreshMem(n)]
    /\ frame = [n \in Node |-> NoFrame]
    /\ heard = [n \in Node |-> IDLE]
    /\ pc = "rest" /\ cur \in Roots /\ ret = IDLE
    /\ ready = FALSE
    /\ opt = "none"

-------------------------------------------------------------------------------
TickRoot(o) ==
    /\ pc = "rest"
    /\ pc' = "enter" /\ cur' = cur /\ ret' = IDLE /\ opt' = o
    /\ Keep /\ UNCHANGED <<frame, ready>>

\* Mutant of TickAgain: the signal that was found is not cleared.
SignalKept ==
    /\ pc = "reply" /\ cur \in Roots
    /\ opt # "EXACTLY_ONCE" /\ ret = RUNNING /\ ready
    /\ Go("enter", cur, IDLE)
    /\ Keep /\ UNCHANGED <<frame, ready>>

\* wake_up_->waitFor(0) found a signal, and clears it: tick again.
TickAgain ==
    /\ pc = "reply" /\ cur \in Roots
    /\ opt # "EXACTLY_ONCE" /\ ret = RUNNING /\ ready
    /\ ready' = FALSE
    /\ Go("enter", cur, IDLE)
    /\ Keep /\ UNCHANGED frame

\* tickRoot() resets a completed root and returns, or sleeps.
RootAnswers ==
    /\ pc = "reply" /\ cur \in Roots
    /\ opt = "EXACTLY_ONCE" \/ ret # RUNNING \/ ~ready
    /\ status' = [status EXCEPT ![cur] = IF isStatusCompleted(ret) THEN IDLE ELSE @]
    /\ IF opt = "WHILE_RUNNING" /\ ret = RUNNING
       THEN Go("sleeping", cur, RUNNING)
       ELSE pc' = "rest" /\ cur' = cur /\ ret' = IDLE /\ opt' = "none"
    /\ UNCHANGED <<mem, frame, heard, ready>>

\* Time is up or a signal came: the wait clears it (a zero sleep does not wait).
SleepEnds ==
    /\ pc = "sleeping"
    /\ ready' \in {FALSE, ready}
    /\ Go("enter", cur, IDLE)
    /\ Keep /\ UNCHANGED frame

\* The first pass of haltTree(), which relies on every node to pass it on.
HaltRoot ==
    /\ pc = "rest"
    /\ LET H == HaltedFrom(cur)
       IN  status' = StatusAfter(H, {}) /\ mem' = MemAfter(H) /\ heard' = HeardAfter(H)
    /\ Go("halting", cur, IDLE)
    /\ UNCHANGED <<frame, ready>>

\* The second pass calls haltNode() on every node, then the root is reset.
HaltVisit ==
    /\ pc = "halting"
    /\ status' = StatusAfter(TreeOf(cur), {cur})
    /\ mem' = MemAfter(TreeOf(cur))
    /\ heard' = HeardAfter(TreeOf(cur))
    /\ Go("rest", cur, IDLE)
    /\ UNCHANGED <<frame, ready>>

\* Another thread, working for a RUNNING leaf, calls emitWakeUpSignal().
WakeUp(n) ==
    /\ n \in Wakers /\ status[n] = RUNNING
    /\ ~ready /\ ready' = TRUE
    /\ UNCHANGED <<status, mem, frame, heard, pc, cur, ret, opt>>

NodeStep(n) == ExecuteTick(n) \/ LeafTick(n) \/ ControlTick(n) \/ DecoratorTick(n)

\* What the thread inside tickRoot() or haltTree() does: the innermost call moves, or
\* its caller does when it has returned.
CallStep ==
    \/ \E n \in {cur} \cup Above[cur] : NodeStep(n)
    \/ TickAgain \/ RootAnswers \/ SleepEnds \/ HaltVisit

Next ==
    \/ CallStep
    \/ \E o \in TickOption : TickRoot(o)
    \/ HaltRoot
    \/ \E n \in Wakers : WakeUp(n)

Spec == Init /\ [][Next]_vars

\* A call that was made goes on; nobody has to make one.
FairSpec == Spec /\ WF_vars(CallStep)

-------------------------------------------------------------------------------
(* Type correctness, and the positions each class may keep                 *)

IndexOK(n, m) ==
    /\ Kind[n] \in LinearKinds \cup {"IfThenElse"} => m.idx \in Positions(n)
    /\ Kind[n] \in ReactiveKinds \cup {"Switch"}   => m.idx \in Positions(n) \cup {0}

StateOK ==
    /\ status \in [Node -> NodeStatus]
    /\ mem \in [Node -> Memory]
    /\ heard \in [Node -> NodeStatus]
    /\ \A n \in Node : IndexOK(n, mem[n])

CallOK ==
    /\ frame \in [Node -> Frame]
    /\ \A n \in Node : frame[n].j \in Positions(n) \cup {0}
    /\ pc \in {"rest", "enter", "tick", "ticked", "preempted", "reply", "sleeping",
               "halting"}
    /\ cur \in Node
    /\ ret \in NodeStatus
    /\ ready \in BOOLEAN
    /\ opt \in TickOption \cup {"none"}

\* Every variable has its type, and the positions the control nodes keep between and
\* during ticks (current_child_idx_, child_idx_, running_child_) are those of children.
TypeOK == StateOK /\ CallOK

-------------------------------------------------------------------------------
(* Halting                                                                 *)

(***************************************************************************)
(* The classes that set themselves RUNNING before they tick a child and    *)
(* reset every child before they complete, when no callback overrides them.*)
(***************************************************************************)
Disciplined(n) ==
    /\ n \notin PreTick \cup PostTick
    /\ \/ Kind[n] \in (LinearKinds \ {"SequenceWithMemory"}) \cup ReactiveKinds
                      \cup ParallelKinds \cup {"WhileDoElse"} \cup Translators
       \/ Kind[n] = "IfThenElse" /\ Count(n) = 3
       \/ Kind[n] \in {"Repeat", "RetryUntilSuccessful"} /\ Loops(n, 0)

\* halt() goes down through RUNNING nodes only: a RUNNING child under a parent
\* that is not RUNNING is out of its reach.  No step of any node, in any order of
\* ticks, halts, skips and exceptions, leaves one under a disciplined parent.
RunningHasRunningParent ==
    \A c \in Node \ Roots :
        status[c] = RUNNING /\ Disciplined(Parent[c]) => status[Parent[c]] = RUNNING

\* "the halt should propagate to all the node if the nodes have been implemented
\* correctly" (Tree::haltTree): nothing runs any more after its first pass.
HaltReachesRunning == pc = "halting" => \A n \in Node : status[n] # RUNNING

-------------------------------------------------------------------------------
(* Answers                                                                 *)

Heard(n, i) == heard[Children[n][i]]

Among(n, S) == {i \in Positions(n) : Heard(n, i) \in S}

\* Every child before i let the node go on.
Passed(n, i, stop) == \A k \in 1 .. i - 1 : Heard(n, k) \in {Opposite(stop), SKIPPED}

\* A node that a throwing script leaves as it completed: a SimpleAction, which sets its
\* own status in tick(), and the child of a decorator, which is reset after the script.
LeftCompleted(c) ==
    \/ Kind[c] = "SimpleAction" /\ c \in Throwing
    \/ c \notin Roots /\ Kind[Parent[c]] \in DecoratorKinds /\ Parent[c] \in Throwing

\* A child that ends a Sequence or Fallback does not clear skipped_count_; the next tick()
\* does, but only from IDLE or SKIPPED.  A script that throws in between leaves the node
\* RUNNING, or completed, and the count to the next execution.
Miscounts(n) ==
    /\ Kind[n] \in LinearKinds \ {"SequenceWithMemory"}
    /\ n \in Throwing \/ LeftCompleted(n)

\* What a Sequence (stop = FAILURE) or a Fallback (stop = SUCCESS) may answer.
LinearContract(n, stop, s) ==
    LET all == Passed(n, Count(n) + 1, stop)
    IN  /\ s = Opposite(stop) => all /\ (Among(n, {s}) # {} \/ Miscounts(n))
        /\ s = SKIPPED => all /\ (Among(n, {SKIPPED}) = Positions(n) \/ Miscounts(n))
        /\ s = stop => \E i \in Among(n, {stop}) : Passed(n, i, stop)
        /\ s = RUNNING => \/ \E i \in Among(n, {RUNNING}) : Passed(n, i, stop)
                          \/ ready /\ Passed(n, 2, stop)

ParallelContract(n, s) ==
    LET won   == Cardinality(Among(n, {SUCCESS}))
        lost  == Cardinality(Among(n, {FAILURE}))
        skips == Cardinality(Among(n, {SKIPPED}))
        needed  == Threshold(n, Limit[n])
        success == won >= needed \/ (Limit[n] < 0 /\ won + skips >= needed)
        failure == Count(n) - lost < needed \/ lost >= Threshold(n, FailLimit[n])
    IN  /\ s = SUCCESS => success
        /\ s = FAILURE => failure /\ won < needed
        /\ s \in {RUNNING, SKIPPED} => ~success /\ ~failure
        /\ s = SKIPPED => skips = Count(n)

ParallelAllContract(n, s) ==
    LET lost == Cardinality(Among(n, {FAILURE}))
    IN  /\ isStatusCompleted(s) =>
             /\ Among(n, Completed \cup {SKIPPED}) = Positions(n)
             /\ (s = FAILURE) = (lost >= Threshold(n, Limit[n]))
        /\ s = SKIPPED => Among(n, {SKIPPED}) = Positions(n)
        /\ s = RUNNING => Among(n, {RUNNING}) # {}

BranchContract(n, s) ==
    /\ Heard(n, 1) # IDLE
    /\ Heard(n, 1) = SUCCESS => s = Heard(n, 2)
    /\ Heard(n, 1) = FAILURE => s = IF Count(n) = 3 THEN Heard(n, 3) ELSE FAILURE
    /\ Heard(n, 1) = RUNNING => s = RUNNING

\* A control node answers what its children's answers of this execution call for,
\* however many ticks, skips, halts and re-executions they were spread over: counters,
\* indexes and completed lists never carry anything from a past execution, as long as
\* the parent resets the node in between (a WhileDoElse does not reset its condition) and
\* no script of a Sequence or Fallback throws once it has answered (Miscounts).
AnswersFollowChildren ==
    pc = "ticked" =>
        /\ Kind[cur] \in {"Sequence", "AsyncSequence", "SequenceWithMemory",
                          "ReactiveSequence"} => LinearContract(cur, FAILURE, ret)
        /\ Kind[cur] \in {"Fallback", "AsyncFallback", "ReactiveFallback"} =>
              LinearContract(cur, SUCCESS, ret)
        /\ Kind[cur] = "Parallel" => ParallelContract(cur, ret)
        /\ Kind[cur] = "ParallelAll" => ParallelAllContract(cur, ret)
        /\ Kind[cur] \in BranchKinds => BranchContract(cur, ret)

\* A child that has completed is not executed a second time within one execution of
\* a parent that remembers (current_child_idx_, child_idx_, completed_list_); a
\* SequenceWithMemory retries the child that failed.
CompletedChildNotRepeated ==
    pc = "enter" /\ cur \notin Roots
    /\ Kind[Parent[cur]] \in LinearKinds \cup ParallelKinds \cup {"IfThenElse"} =>
        \/ ~isStatusCompleted(heard[cur])
        \/ Kind[Parent[cur]] = "SequenceWithMemory" /\ heard[cur] = FAILURE

\* A condition its parent leaves as it completed: that of a WhileDoElse, and that of an
\* IfThenElse that answers FAILURE because it has no third child.
KeptCondition(c) ==
    /\ c \notin Roots /\ c = Children[Parent[c]][1]
    /\ \/ Kind[Parent[c]] = "WhileDoElse"
       \/ Kind[Parent[c]] = "IfThenElse" /\ Count(Parent[c]) = 2

\* "Actions which returned SUCCESS or FAILURE will not be ticked again unless
\* resetStatus() is called first" (action_node.h): no parent ticks a completed node,
\* it resets it first, or when it last answered; only conditions are asked as they are,
\* and the nodes that a script which throws has left so.
TickedNodeIsReset ==
    pc = "enter" /\ isStatusCompleted(status[cur]) =>
        KeptCondition(cur) \/ LeftCompleted(cur)

\* "This is equivalent to add AlwaysFailure as 3rd child" (if_then_else_node.h): an
\* IfThenElse starts with a condition that was reset, as it does with three children.
ConditionIsFresh ==
    pc = "enter" /\ cur \notin Roots /\ Kind[Parent[cur]] = "IfThenElse" =>
        ~isStatusCompleted(status[cur])

\* A reactive node between two ticks has at most one RUNNING child, and a node whose
\* executeTick() is over never keeps a child that ran beside it.
ReactiveRunsOne ==
    \A n \in Node : Kind[n] \in ReactiveKinds /\ n \notin OnCall =>
        \A c, d \in Kids(n) : status[c] = RUNNING /\ status[d] = RUNNING => c = d

-------------------------------------------------------------------------------
(* What an execution leaves behind                                         *)

Restarted(n) ==
    /\ Kind[n] \in (LinearKinds \ {"SequenceWithMemory"}) \cup {"IfThenElse"} => mem[n].idx = 1
    /\ Kind[n] = "Switch" => mem[n].idx = 0
    /\ Kind[n] \in ParallelKinds => Done(mem[n]) = {}
    /\ Kind[n] \in {"Repeat", "RetryUntilSuccessful"} => mem[n].count = 0
    /\ Kind[n] \in UpdatedKinds => ~mem[n].flag

\* A node that is not RUNNING starts from the beginning the next time, whether it
\* answered, was halted in the middle or was reset by its parent: resetStatus() alone
\* does not touch the members, so halt() or the answer must have done it before.
NoLeftovers ==
    \A n \in Node \ OnCall : status[n] # RUNNING => Restarted(n)

\* A RunOnce whose child has completed stays so through every halt and exception, and
\* never ticks its child again.
ExecutedOnlyOnce ==
    [][\A n \in Node : Kind[n] = "RunOnce" /\ mem[n].flag =>
          mem'[n].flag /\ ~(pc' = "enter" /\ cur' \in Kids(n))]_vars

-------------------------------------------------------------------------------
(* Waking up and returning                                                 *)

\* When the root answers RUNNING somebody will make it progress: a leaf is at work,
\* or an asynchronous node yielded and its wake-up signal is still there.
BusyOrWoken ==
    pc = "reply" /\ cur \in Roots /\ ret = RUNNING =>
        ready \/ \E n \in Node : Kind[n] \in LeafKinds /\ status[n] = RUNNING

\* tickExactlyOnce() and tickOnce() return, however many nodes yield on the way.
TickReturns == opt \in {"EXACTLY_ONCE", "ONCE_UNLESS_WOKEN_UP"} ~> pc = "rest"
===============================================================================
