----------------------------- MODULE ControlNodes -----------------------------
(***************************************************************************)
(* tick() of the control nodes.  Each class has one action for the part of *)
(* tick() up to the first child's executeTick() and one for what it does   *)
(* when a child answers, which ends in the next child's tick or in an      *)
(* answer of its own.                                                      *)
(***************************************************************************)
EXTENDS TreeNode

CONSTANTS
    Limit,       \* success_count of Parallel, max_failures of ParallelAll,
                 \* num_cycles of Repeat, num_attempts of RetryUntilSuccessful
    FailLimit,   \* failure_count of Parallel
    MultipleRunningThrows    \* throw_if_multiple_running of the reactive nodes

ASSUME LimitAssumption ==
    /\ Limit \in [Node -> Int] /\ FailLimit \in [Node -> Int]
    /\ MultipleRunningThrows \in BOOLEAN

-------------------------------------------------------------------------------
(* Sequence, Fallback, their asynchronous forms, SequenceWithMemory        *)

LinearTick(n, kinds) ==
    /\ Ticking(n, kinds)
    /\ status' = [status EXCEPT ![n] = RUNNING]
    /\ mem' = [mem EXCEPT ![n].count = IF isStatusActive(status[n]) THEN @ ELSE 0]
    /\ UNCHANGED heard
    /\ TickChild(n, mem[n].idx, 0)

LastChild(n) == mem[n].idx = Count(n)

SkippedSoFar(n) == mem[n].count + (IF ret = SKIPPED THEN 1 ELSE 0)

\* Mutant of LinearNext: the control is given back before the index moves on.
YieldBeforeNext(n, yields) ==
    /\ ~LastChild(n)
    /\ IF yields /\ ret # SKIPPED /\ frame[n].prev = IDLE
       THEN Keep /\ Yield(n)
       ELSE /\ Remember(n, [mem[n] EXCEPT !.idx = @ + 1, !.count = SkippedSoFar(n)])
            /\ TickChild(n, mem[n].idx + 1, 0)

\* Another child is left: an asynchronous node first gives the control back.
LinearNext(n, yields) ==
    /\ ~LastChild(n)
    /\ Remember(n, [mem[n] EXCEPT !.idx = @ + 1, !.count = SkippedSoFar(n)])
    /\ IF yields /\ ret # SKIPPED /\ frame[n].prev = IDLE
       THEN Yield(n) ELSE TickChild(n, mem[n].idx + 1, 0)

\* Mutant of LinearEnd: current_child_idx_ is not reset.
EndKeepsIndex(n, s) ==
    /\ LastChild(n)
    /\ ResetChildren(n, Kids(n), [mem[n] EXCEPT !.count = 0])
    /\ Answer(n, IF SkippedSoFar(n) = Count(n) THEN SKIPPED ELSE s)

LinearEnd(n, s) ==
    /\ LastChild(n)
    /\ ResetChildren(n, Kids(n), FreshMem(n))
    /\ Answer(n, IF SkippedSoFar(n) = Count(n) THEN SKIPPED ELSE s)

\* skipped_count_ survives an early stop; only the index starts again.
LinearReply(n, stop, yields) ==
    \/ ret = RUNNING /\ Keep /\ Answer(n, RUNNING)
    \/ /\ ret = stop
       /\ ResetChildren(n, Kids(n), [mem[n] EXCEPT !.idx = 1])
       /\ Answer(n, stop)
    \/ /\ ret \in {Opposite(stop), SKIPPED}
       /\ LinearNext(n, yields) \/ LinearEnd(n, Opposite(stop))

SequenceTick(n) == LinearTick(n, {"Sequence", "AsyncSequence"})

SequenceReply(n) ==
    /\ Replied(n, {"Sequence", "AsyncSequence"})
    /\ LinearReply(n, FAILURE, Kind[n] = "AsyncSequence")

FallbackTick(n) == LinearTick(n, {"Fallback", "AsyncFallback"})

FallbackReply(n) ==
    /\ Replied(n, {"Fallback", "AsyncFallback"})
    /\ LinearReply(n, SUCCESS, Kind[n] = "AsyncFallback")

MemoryTick(n) == LinearTick(n, {"SequenceWithMemory"})

\* A failure halts the children from the failing one on; the index stays.
MemoryReply(n) ==
    /\ Replied(n, {"SequenceWithMemory"})
    /\ \/ ret = RUNNING /\ Keep /\ Answer(n, RUNNING)
       \/ /\ ret = FAILURE
          /\ ResetChildren(n, {Children[n][i] : i \in mem[n].idx .. Count(n)}, mem[n])
          /\ Answer(n, FAILURE)
       \/ /\ ret \in {SUCCESS, SKIPPED}
          /\ LinearNext(n, TRUE) \/ LinearEnd(n, SUCCESS)

-------------------------------------------------------------------------------
(* ReactiveSequence and ReactiveFallback: all children from the first, at  *)
(* every tick; frame.skips counts the children skipped in this one.        *)

ReactiveTick(n, kinds) ==
    /\ Ticking(n, kinds)
    /\ status' = [status EXCEPT ![n] = RUNNING]
    /\ mem' = [mem EXCEPT ![n].idx = IF status[n] = IDLE THEN 0 ELSE @]
    /\ UNCHANGED heard
    /\ TickChild(n, 1, 0)

\* Mutant of ReactiveRunning: only the children before the RUNNING one are halted.
HaltsEarlierOnly(n) ==
    LET j == frame[n].j
    IN  /\ ResetChildren(n, {Children[n][i] : i \in 1 .. j - 1},
                         [mem[n] EXCEPT !.idx = IF @ = 0 THEN j ELSE @])
        /\ Answer(n, RUNNING)

\* The child's answer is RUNNING: every other child is halted.
ReactiveRunning(n) ==
    LET j == frame[n].j
        first == mem[n].idx = 0
    IN  /\ ResetChildren(n, Kids(n) \ {cur}, [mem[n] EXCEPT !.idx = IF first THEN j ELSE @])
        /\ IF MultipleRunningThrows /\ ~first /\ mem[n].idx # j
           THEN Unwind ELSE Answer(n, RUNNING)

ReactiveReply(n, kinds, stop) ==
    LET j == frame[n].j
        skips == frame[n].skips + (IF ret = SKIPPED THEN 1 ELSE 0)
    IN  /\ Replied(n, kinds)
        /\ \/ ret = RUNNING /\ ReactiveRunning(n)
           \/ ret = stop /\ ResetChildren(n, Kids(n), mem[n]) /\ Answer(n, stop)
           \/ /\ ret \in {Opposite(stop), SKIPPED} /\ j < Count(n)
              /\ IF ret = SKIPPED THEN ResetChildren(n, {cur}, mem[n]) ELSE Keep
              /\ TickChild(n, j + 1, skips)
           \/ /\ ret \in {Opposite(stop), SKIPPED} /\ j = Count(n)
              /\ ResetChildren(n, Kids(n), mem[n])
              /\ Answer(n, IF skips = Count(n) THEN SKIPPED ELSE Opposite(stop))

ReactiveSequenceTick(n)  == ReactiveTick(n, {"ReactiveSequence"})
ReactiveSequenceReply(n) == ReactiveReply(n, {"ReactiveSequence"}, FAILURE)
ReactiveFallbackTick(n)  == ReactiveTick(n, {"ReactiveFallback"})
ReactiveFallbackReply(n) == ReactiveReply(n, {"ReactiveFallback"}, SUCCESS)

-------------------------------------------------------------------------------
(* Parallel and ParallelAll                                                *)

\* A negative threshold counts from the number of children.
Threshold(n, t) == IF t >= 0 THEN t ELSE IF Count(n) + t + 1 > 0 THEN Count(n) + t + 1 ELSE 0

Done(m) == m.succeeded \cup m.failed

\* The children after the j-th one that have not completed yet.
Open(n, m, j) == {i \in Positions(n) : i > j /\ i \notin Done(m)}

TickFirst(n, open, skips) ==
    \E i \in open : (\A k \in open : i <= k) /\ TickChild(n, i, skips)

ParallelTick(n, kinds, required) ==
    /\ Ticking(n, kinds)
    /\ \/ /\ \E t \in required : Count(n) < Threshold(n, t)
          /\ Throw /\ UNCHANGED status
       \/ /\ \A t \in required : Count(n) >= Threshold(n, t)
          /\ SetRunning(n)
          /\ TickFirst(n, Open(n, mem[n], 0), 0)

\* The node's members after the child it ticked has answered ret.
Collected(n) ==
    [mem[n] EXCEPT !.succeeded = IF ret = SUCCESS THEN @ \cup {frame[n].j} ELSE @,
                   !.failed    = IF ret = FAILURE THEN @ \cup {frame[n].j} ELSE @]

SkippedNow(n) == frame[n].skips + (IF ret = SKIPPED THEN 1 ELSE 0)

\* Mutant of ParallelSucceeds: more than success_count children are asked for.
SucceedsAbove(n, m, skips) ==
    LET required == Threshold(n, Limit[n])
    IN  \/ Cardinality(m.succeeded) > required
        \/ Limit[n] < 0 /\ Cardinality(m.succeeded) + skips > required

\* Tested after every child; success comes first.
ParallelSucceeds(n, m, skips) ==
    LET required == Threshold(n, Limit[n])
    IN  \/ Cardinality(m.succeeded) >= required
        \/ Limit[n] < 0 /\ Cardinality(m.succeeded) + skips >= required

ParallelFails(n, m) ==
    \/ Count(n) - Cardinality(m.failed) < Threshold(n, Limit[n])
    \/ Cardinality(m.failed) = Threshold(n, FailLimit[n])

ParallelReply(n) ==
    LET m     == Collected(n)
        skips == SkippedNow(n)
        left  == Open(n, m, frame[n].j)
    IN  /\ Replied(n, {"Parallel"})
        /\ \/ /\ ParallelSucceeds(n, m, skips)
              /\ ResetChildren(n, Kids(n), FreshMem(n)) /\ Answer(n, SUCCESS)
           \/ /\ ~ParallelSucceeds(n, m, skips) /\ ParallelFails(n, m)
              /\ ResetChildren(n, Kids(n), FreshMem(n)) /\ Answer(n, FAILURE)
           \/ /\ ~ParallelSucceeds(n, m, skips) /\ ~ParallelFails(n, m)
              /\ Remember(n, m)
              /\ IF left # {} THEN TickFirst(n, left, skips)
                 ELSE Answer(n, IF skips = Count(n) THEN SKIPPED ELSE RUNNING)

\* ParallelAll decides only when every child has been visited.
ParallelAllReply(n) ==
    LET m     == Collected(n)
        skips == SkippedNow(n)
        left  == Open(n, m, frame[n].j)
        over  == skips # Count(n) /\ skips + Cardinality(Done(m)) >= Count(n)
    IN  /\ Replied(n, {"ParallelAll"})
        /\ \/ left # {} /\ Remember(n, m) /\ TickFirst(n, left, skips)
           \/ /\ left = {} /\ over
              /\ ResetChildren(n, Kids(n), FreshMem(n))
              /\ Answer(n, IF Cardinality(m.failed) >= Threshold(n, Limit[n])
                           THEN FAILURE ELSE SUCCESS)
           \/ /\ left = {} /\ ~over /\ Remember(n, m)
              /\ Answer(n, IF skips = Count(n) THEN SKIPPED ELSE RUNNING)

-------------------------------------------------------------------------------
(* IfThenElse, WhileDoElse, Switch                                         *)

\* Mutant of IfThenElseTick: the condition is ticked every time.
TicksConditionAgain(n) ==
    /\ Ticking(n, {"IfThenElse"})
    /\ SetRunning(n)
    /\ TickChild(n, 1, 0)

IfThenElseTick(n) ==
    /\ Ticking(n, {"IfThenElse"})
    /\ SetRunning(n)
    /\ TickChild(n, mem[n].idx, 0)

IfThenElseReply(n) ==
    /\ Replied(n, {"IfThenElse"})
    /\ \/ ret = RUNNING /\ Keep /\ Answer(n, RUNNING)
       \/ /\ mem[n].idx = 1 /\ ret = SUCCESS
          /\ Remember(n, [mem[n] EXCEPT !.idx = 2]) /\ TickChild(n, 2, 0)
       \/ /\ mem[n].idx = 1 /\ ret = FAILURE /\ Count(n) = 3
          /\ Remember(n, [mem[n] EXCEPT !.idx = 3]) /\ TickChild(n, 3, 0)
       \/ /\ mem[n].idx = 1 /\ ret = FAILURE /\ Count(n) = 2
          /\ Keep /\ Answer(n, FAILURE)
       \/ mem[n].idx = 1 /\ ret = SKIPPED /\ Throw /\ UNCHANGED status
       \/ /\ mem[n].idx > 1 /\ ret # RUNNING
          /\ ResetChildren(n, Kids(n), FreshMem(n)) /\ Answer(n, ret)

WhileDoElseTick(n) ==
    /\ Ticking(n, {"WhileDoElse"})
    /\ SetRunning(n)
    /\ TickChild(n, 1, 0)

\* The condition is the first child; its answer halts the branch not taken.
WhileDoElseReply(n) ==
    /\ Replied(n, {"WhileDoElse"})
    /\ \/ ret = RUNNING /\ Keep /\ Answer(n, RUNNING)
       \/ /\ frame[n].j = 1 /\ ret = SUCCESS
          /\ ResetChildren(n, {Children[n][i] : i \in Positions(n) \cap {3}}, mem[n])
          /\ TickChild(n, 2, 0)
       \/ /\ frame[n].j = 1 /\ ret = FAILURE /\ Count(n) = 3
          /\ ResetChildren(n, {Children[n][2]}, mem[n])
          /\ TickChild(n, 3, 0)
       \/ /\ frame[n].j = 1 /\ ret = FAILURE /\ Count(n) = 2
          /\ ResetChildren(n, Kids(n), mem[n]) /\ Answer(n, FAILURE)
       \/ /\ frame[n].j = 1 /\ ret = SKIPPED     \* no branch sets the answer
          /\ ResetChildren(n, Kids(n), mem[n]) /\ Answer(n, IDLE)
       \/ /\ frame[n].j > 1 /\ ret # RUNNING
          /\ ResetChildren(n, Kids(n), mem[n]) /\ Answer(n, ret)

\* The variable may equal any case or none (the last child is the default).
SwitchTick(n) ==
    /\ Ticking(n, {"Switch"})
    /\ \E match \in Positions(n) :
         /\ IF mem[n].idx \notin {0, match}
            THEN ResetChildren(n, {Children[n][mem[n].idx]}, mem[n]) ELSE Keep
         /\ TickChild(n, match, 0)

\* Mutant of SwitchReply: running_child_ is one past the child that runs.
RemembersNext(n) ==
    /\ Replied(n, {"Switch"})
    /\ \/ ret = SKIPPED /\ Remember(n, [mem[n] EXCEPT !.idx = 0])
       \/ ret = RUNNING /\ Remember(n, [mem[n] EXCEPT !.idx = frame[n].j + 1])
       \/ isStatusCompleted(ret) /\ ResetChildren(n, Kids(n), FreshMem(n))
    /\ Answer(n, ret)

SwitchReply(n) ==
    /\ Replied(n, {"Switch"})
    /\ \/ ret = SKIPPED /\ Remember(n, [mem[n] EXCEPT !.idx = 0])
       \/ ret = RUNNING /\ Remember(n, [mem[n] EXCEPT !.idx = frame[n].j])
       \/ isStatusCompleted(ret) /\ ResetChildren(n, Kids(n), FreshMem(n))
    /\ Answer(n, ret)

ControlTick(n) ==
    \/ SequenceTick(n) \/ SequenceReply(n)
    \/ FallbackTick(n) \/ FallbackReply(n)
    \/ MemoryTick(n)   \/ MemoryReply(n)
    \/ ReactiveSequenceTick(n) \/ ReactiveSequenceReply(n)
    \/ ReactiveFallbackTick(n) \/ ReactiveFallbackReply(n)
    \/ ParallelTick(n, {"Parallel"}, {Limit[n], FailLimit[n]}) \/ ParallelReply(n)
    \/ ParallelTick(n, {"ParallelAll"}, {Limit[n]}) \/ ParallelAllReply(n)
    \/ IfThenElseTick(n) \/ IfThenElseReply(n)
    \/ WhileDoElseTick(n) \/ WhileDoElseReply(n)
    \/ SwitchTick(n) \/ SwitchReply(n)
===============================================================================
