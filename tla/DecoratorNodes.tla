---------------------------- MODULE DecoratorNodes ----------------------------
(***************************************************************************)
(* tick() of the decorators, split as in ControlNodes at the child's       *)
(* executeTick().  What a script, a queue or a blackboard entry says when  *)
(* it is read is a free choice: other nodes and threads write them.        *)
(***************************************************************************)
EXTENDS LeafNodes, ControlNodes

CONSTANT Otherwise    \* else of Precondition, if_empty of LoopNode; for RunOnce,
                      \* SKIPPED stands for then_skip = true

ASSUME OtherwiseAssumption == Otherwise \in [Node -> NodeStatus \ {IDLE}]

Child(n) == Children[n][1]

\* resetChild()
ResetChild(n, m) == ResetChildren(n, {Child(n)}, m)

ResetIfCompleted(n, m) ==
    IF isStatusCompleted(ret) THEN ResetChild(n, m) ELSE Remember(n, m)

-------------------------------------------------------------------------------
(* Decorators that translate the child's answer                            *)

Translators == {"Inverter", "ForceSuccess", "ForceFailure", "KeepRunningUntilFailure"}

TranslatorTick(n) ==
    /\ Ticking(n, Translators)
    /\ SetRunning(n)
    /\ TickChild(n, 1, 0)

InverterReply(n) ==
    /\ Replied(n, {"Inverter"})
    /\ ResetIfCompleted(n, mem[n])
    /\ Answer(n, IF isStatusCompleted(ret) THEN Opposite(ret) ELSE ret)

ForceReply(n) ==
    /\ Replied(n, {"ForceSuccess", "ForceFailure"})
    /\ ResetIfCompleted(n, mem[n])
    /\ Answer(n, IF ~isStatusCompleted(ret) THEN ret
                 ELSE IF Kind[n] = "ForceSuccess" THEN SUCCESS ELSE FAILURE)

\* A skipped child leaves the decorator with its own status, RUNNING.
KeepRunningReply(n) ==
    /\ Replied(n, {"KeepRunningUntilFailure"})
    /\ ResetIfCompleted(n, mem[n])
    /\ Answer(n, IF ret = FAILURE THEN FAILURE ELSE RUNNING)

SubTreeTick(n) ==
    /\ Ticking(n, {"SubTree"})
    /\ status' = [status EXCEPT ![n] = IF @ = IDLE THEN RUNNING ELSE @]
    /\ UNCHANGED <<mem, heard>>
    /\ TickChild(n, 1, 0)

SubTreeReply(n) ==
    /\ Replied(n, {"SubTree"})
    /\ ResetIfCompleted(n, mem[n])
    /\ Answer(n, ret)

SimpleDecoratorTick(n) ==
    Ticking(n, {"SimpleDecorator"}) /\ Keep /\ TickChild(n, 1, 0)

SimpleDecoratorReply(n) ==
    /\ Replied(n, {"SimpleDecorator"})
    /\ Keep
    /\ \E s \in Answers[n] : Answer(n, s)

-------------------------------------------------------------------------------
(* Repeat and RetryUntilSuccessful                                         *)

Loops(n, count) == count < Limit[n] \/ Limit[n] = -1

\* again: the child's answer that asks for another round.
CountingTick(n, again) ==
    /\ status' = [status EXCEPT ![n] = RUNNING]
    /\ UNCHANGED heard
    /\ IF Loops(n, mem[n].count)
       THEN UNCHANGED mem /\ TickChild(n, 1, 0)
       ELSE mem' = [mem EXCEPT ![n].count = 0] /\ Answer(n, again)

CountingReply(n, again) ==
    LET more == mem[n].count + 1
    IN  \/ ret = RUNNING /\ Keep /\ Answer(n, RUNNING)
        \/ ret = SKIPPED /\ ResetChild(n, mem[n]) /\ Answer(n, SKIPPED)
        \/ ret = Opposite(again) /\ ResetChild(n, FreshMem(n)) /\ Answer(n, ret)
        \/ /\ ret = again /\ Loops(n, more)
           /\ ResetChild(n, [mem[n] EXCEPT !.count = more])
           /\ IF frame[n].prev = IDLE THEN Yield(n) ELSE TickChild(n, 1, 0)
        \/ /\ ret = again /\ ~Loops(n, more)
           /\ ResetChild(n, FreshMem(n)) /\ Answer(n, again)

RepeatTick(n)  == Ticking(n, {"Repeat"}) /\ CountingTick(n, SUCCESS)
RepeatReply(n) == Replied(n, {"Repeat"}) /\ CountingReply(n, SUCCESS)
RetryTick(n)   == Ticking(n, {"RetryUntilSuccessful"}) /\ CountingTick(n, FAILURE)
RetryReply(n)  == Replied(n, {"RetryUntilSuccessful"}) /\ CountingReply(n, FAILURE)

-------------------------------------------------------------------------------
(* Decorators that may answer without their child                          *)

RunOnceTick(n) ==
    /\ Ticking(n, {"RunOnce"})
    /\ \/ /\ mem[n].flag /\ Keep
          /\ Answer(n, IF Otherwise[n] = SKIPPED THEN SKIPPED ELSE mem[n].returned)
       \/ ~mem[n].flag /\ SetRunning(n) /\ TickChild(n, 1, 0)

RunOnceReply(n) ==
    /\ Replied(n, {"RunOnce"})
    /\ ResetIfCompleted(n, IF isStatusCompleted(ret)
                           THEN [mem[n] EXCEPT !.flag = TRUE, !.returned = ret] ELSE mem[n])
    /\ Answer(n, ret)

\* The script is read only while no child is thought to be running.
PreconditionTick(n) ==
    /\ Ticking(n, {"Precondition"})
    /\ \/ Remember(n, [mem[n] EXCEPT !.flag = TRUE]) /\ TickChild(n, 1, 0)
       \/ ~mem[n].flag /\ Keep /\ Answer(n, Otherwise[n])

PreconditionReply(n) ==
    /\ Replied(n, {"Precondition"})
    /\ ResetIfCompleted(n, [mem[n] EXCEPT !.flag = @ /\ ~isStatusCompleted(ret)])
    /\ Answer(n, ret)

\* The entry may have been written since the last visit, or not.
UpdatedTick(n) ==
    /\ Ticking(n, UpdatedKinds)
    /\ Keep
    /\ \/ TickChild(n, 1, 0)
       \/ /\ ~mem[n].flag
          /\ Answer(n, IF Kind[n] = "SkipUnlessUpdated" THEN SKIPPED ELSE RUNNING)

UpdatedReply(n) ==
    /\ Replied(n, UpdatedKinds)
    /\ Remember(n, [mem[n] EXCEPT !.flag = ret = RUNNING])
    /\ Answer(n, ret)

\* An idle node forgets a running child; the queue may be empty or not.
LoopTick(n) ==
    LET running == mem[n].flag /\ status[n] # IDLE
    IN  /\ Ticking(n, {"LoopNode"})
        /\ mem' = [mem EXCEPT ![n].flag = running]
        /\ UNCHANGED heard
        /\ \/ /\ status' = [status EXCEPT ![n] = IF @ = IDLE THEN RUNNING ELSE @]
              /\ TickChild(n, 1, 0)
           \/ ~running /\ UNCHANGED status /\ Answer(n, Otherwise[n])

LoopReply(n) ==
    /\ Replied(n, {"LoopNode"})
    /\ ResetIfCompleted(n, [mem[n] EXCEPT !.flag = ret = RUNNING])
    /\ Answer(n, IF ret = FAILURE THEN FAILURE ELSE RUNNING)

DecoratorTick(n) ==
    \/ TranslatorTick(n) \/ InverterReply(n) \/ ForceReply(n) \/ KeepRunningReply(n)
    \/ SubTreeTick(n) \/ SubTreeReply(n)
    \/ SimpleDecoratorTick(n) \/ SimpleDecoratorReply(n)
    \/ RepeatTick(n) \/ RepeatReply(n) \/ RetryTick(n) \/ RetryReply(n)
    \/ RunOnceTick(n) \/ RunOnceReply(n)
    \/ PreconditionTick(n) \/ PreconditionReply(n)
    \/ UpdatedTick(n) \/ UpdatedReply(n)
    \/ LoopTick(n) \/ LoopReply(n)
===============================================================================
