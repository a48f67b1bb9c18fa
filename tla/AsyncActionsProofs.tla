-------------------------- MODULE AsyncActionsProofs --------------------------
(***************************************************************************)
(* ThreadedAction and CoroActionNode, for any number of executions and any *)
(* outcomes of tick(): one execution's tick() at a time, and an answer that *)
(* is this execution's own.                                                *)
(***************************************************************************)
EXTENDS AsyncActions, TLAPS

\* Where the thread of an execution runs tick() or is about to set what it ended with.
InTick == {"tick", "check", "set", "catch"}

-------------------------------------------------------------------------------
(* The inductive invariant                                                 *)

\* Executions are numbered in the order they begin, and a CoroActionNode has no
\* threads.
ThreadsStarted ==
    /\ \A r \in Run : r > runs \/ kind = "Coro" => thread[r] = "none"
    /\ \A r \in Run : r <= runs /\ kind = "Threaded" => thread[r] # "none"

\* What a thread sets is what tick() returned.
ResultsKnown ==
    \A r \in Run : thread[r] \in {"check", "set"} => Completed(result[r])

\* thread_handle_ is the last execution's future, or none once that was waited for;
\* it is one behind while a thread is being started.
HandleIsLast ==
    IF main = "assign" THEN runs > 0 /\ handle \in {0, runs - 1}
                       ELSE handle \in {0, runs} /\ (kind = "Coro" => handle = 0)

\* Whoever is not reachable by thread_handle_ is over, except the thread that
\* has just been started.
OthersOver ==
    kind = "Threaded" =>
        \A r \in Run : r <= runs /\ r # handle =>
            thread[r] = "over" \/ (main = "assign" /\ r = runs)

\* A tick() in progress is that of the last execution, and the action is RUNNING.
TickOfLast ==
    \A r \in Run : thread[r] \in InTick => r = runs /\ status = "RUNNING"

\* What the root has just answered.
AnswerKnown ==
    /\ main \in {"assign", "collect"} => status # "IDLE" /\ kind = "Threaded"
    /\ main = "answered" /\ Completed(answer.status) => Completed(status)
    /\ main = "answered" => answer.run = runs
    /\ main = "answered" => answer.status = status \/ (kind = "Threaded" /\ answer.status = "RUNNING")

\* The status is that of the last execution, whose coroutine there is while it is
\* suspended.
StatusOfLast ==
    /\ Completed(status) => runs > 0 /\ status = result[runs]
    /\ status # "IDLE" => runs > 0
    /\ coro # 0 => kind = "Coro" /\ coro = runs /\ status = "RUNNING"

\* The thread of the tree is in waitFor() only while it polls or sleeps.
WaitsInTree == waiting # "out" => main \in {"poll", "sleep", "nap"}

ActionInv ==
    /\ TypeOK /\ WaitsInTree /\ ThreadsStarted /\ ResultsKnown /\ HandleIsLast
    /\ OthersOver /\ TickOfLast /\ AnswerKnown /\ StatusOfLast

\* The initial states: nothing runs, nothing was asked for.
LEMMA ActionInit ==
    ASSUME Init
    PROVE  ActionInv
<1>. USE RunsAssumption DEF Init, InTick, Run, Completed
<1>0. SignalTypeOK /\ FlagTypeOK
  BY Zenon DEF SignalInit, SignalTypeOK, WaitPC, FlagTypeOK
<1>1. ActionTypeOK
  BY DEF ActionTypeOK
<1>2. ThreadTypeOK
  BY DEF ThreadTypeOK
<1>3. TreeTypeOK
  BY DEF TreeTypeOK, Option
<1>4. ThreadsStarted /\ ResultsKnown /\ HandleIsLast
  BY DEF ThreadsStarted, ResultsKnown, HandleIsLast
<1>5. OthersOver /\ TickOfLast
  BY DEF OthersOver, TickOfLast
<1>6. AnswerKnown /\ StatusOfLast
  BY DEF AnswerKnown, StatusOfLast
<1>7. WaitsInTree
  BY DEF WaitsInTree, SignalInit
<1>. QED
  BY <1>0, <1>1, <1>2, <1>3, <1>4, <1>5, <1>6, <1>7 DEF ActionInv, TypeOK

-------------------------------------------------------------------------------
(* The thread of the tree                                                  *)

USE DEF Run, InTick, Completed, At, GoTo, Answer, signalVars, actionVars

\* tick() of an IDLE ThreadedAction starts the thread of a new execution.
LEMMA StartThreadOK ==
    ASSUME ActionInv, StartThread
    PROVE  ActionInv'
<1>. USE RunsAssumption, ActionKindsAssumption, OutcomesAssumption DEF ActionInv, TypeOK, StartThread
<1>0. SignalTypeOK' /\ FlagTypeOK'
  BY Zenon DEF SignalTypeOK, FlagTypeOK
<1>1. ActionTypeOK'
  BY DEF ActionTypeOK, ThreadTypeOK, ResultsKnown
<1>2. ThreadTypeOK'
  BY DEF ThreadTypeOK, ActionTypeOK
<1>3. TreeTypeOK'
  BY DEF TreeTypeOK, ActionTypeOK, Option, AnswerKnown
<1>4. ThreadsStarted' /\ HandleIsLast'
  BY DEF ActionTypeOK, ThreadTypeOK, ThreadsStarted, HandleIsLast, AnswerKnown
<1>5. ResultsKnown'
  BY DEF ThreadTypeOK, ResultsKnown, ThreadsStarted, ActionTypeOK
<1>6. OthersOver' /\ TickOfLast'
  BY DEF ActionTypeOK, ThreadTypeOK, OthersOver, TickOfLast, HandleIsLast, ThreadsStarted, AnswerKnown
<1>7. AnswerKnown' 
  BY DEF ActionTypeOK, ThreadTypeOK, AnswerKnown, ThreadsStarted, TickOfLast, ResultsKnown, HandleIsLast
<1>8. StatusOfLast'
  BY DEF ActionTypeOK, ThreadTypeOK, AnswerKnown, StatusOfLast, ThreadsStarted, TickOfLast
<1>9. WaitsInTree'
  BY DEF WaitsInTree
<1>. QED
  BY <1>0, <1>1, <1>2, <1>3, <1>4, <1>5, <1>6, <1>7, <1>8, <1>9

\* The assignment of thread_handle_ first waits for the thread before.
LEMMA AssignHandleOK ==
    ASSUME ActionInv, AssignHandle
    PROVE  ActionInv'
<1>. USE RunsAssumption, ActionKindsAssumption, OutcomesAssumption DEF ActionInv, TypeOK, AssignHandle
<1>0. SignalTypeOK' /\ FlagTypeOK'
  BY Zenon DEF SignalTypeOK, FlagTypeOK
<1>1. ActionTypeOK'
  BY DEF ActionTypeOK, ThreadTypeOK, ResultsKnown
<1>2. ThreadTypeOK'
  BY DEF ThreadTypeOK, ActionTypeOK
<1>3. TreeTypeOK'
  BY DEF TreeTypeOK, ActionTypeOK, Option, AnswerKnown
<1>4. ThreadsStarted' /\ HandleIsLast'
  BY DEF ActionTypeOK, ThreadTypeOK, ThreadsStarted, HandleIsLast, AnswerKnown
<1>5. ResultsKnown'
  BY DEF ThreadTypeOK, ResultsKnown, ThreadsStarted, ActionTypeOK
<1>6. OthersOver' /\ TickOfLast'
  BY DEF ActionTypeOK, ThreadTypeOK, OthersOver, TickOfLast, HandleIsLast, ThreadsStarted, AnswerKnown
<1>7. AnswerKnown' 
  BY DEF ActionTypeOK, ThreadTypeOK, AnswerKnown, ThreadsStarted, TickOfLast, ResultsKnown, HandleIsLast
<1>8. StatusOfLast'
  BY DEF ActionTypeOK, ThreadTypeOK, AnswerKnown, StatusOfLast, ThreadsStarted, TickOfLast
<1>9. WaitsInTree'
  BY DEF WaitsInTree
<1>. QED
  BY <1>0, <1>1, <1>2, <1>3, <1>4, <1>5, <1>6, <1>7, <1>8, <1>9

\* tick() answers with the status, or throws the exception its thread left.
LEMMA CollectOK ==
    ASSUME ActionInv, Collect
    PROVE  ActionInv'
<1>. USE RunsAssumption, ActionKindsAssumption, OutcomesAssumption DEF ActionInv, TypeOK, Collect
<1>0. SignalTypeOK' /\ FlagTypeOK'
  BY Zenon DEF SignalTypeOK, FlagTypeOK
<1>1. ActionTypeOK'
  BY DEF ActionTypeOK, ThreadTypeOK, ResultsKnown
<1>2. ThreadTypeOK'
  BY DEF ThreadTypeOK, ActionTypeOK
<1>3. TreeTypeOK'
  BY DEF TreeTypeOK, ActionTypeOK, Option, AnswerKnown
<1>4. ThreadsStarted' /\ HandleIsLast'
  BY DEF ActionTypeOK, ThreadTypeOK, ThreadsStarted, HandleIsLast, AnswerKnown
<1>5. ResultsKnown'
  BY DEF ThreadTypeOK, ResultsKnown, ThreadsStarted, ActionTypeOK
<1>6. OthersOver' /\ TickOfLast'
  BY DEF ActionTypeOK, ThreadTypeOK, OthersOver, TickOfLast, HandleIsLast, ThreadsStarted, AnswerKnown
<1>7. AnswerKnown' 
  BY DEF ActionTypeOK, ThreadTypeOK, AnswerKnown, ThreadsStarted, TickOfLast, ResultsKnown, HandleIsLast
<1>8. StatusOfLast'
  BY DEF ActionTypeOK, ThreadTypeOK, AnswerKnown, StatusOfLast, ThreadsStarted, TickOfLast
<1>9. WaitsInTree'
  BY DEF WaitsInTree
<1>. QED
  BY <1>0, <1>1, <1>2, <1>3, <1>4, <1>5, <1>6, <1>7, <1>8, <1>9

\* A coroutine is created, or resumed, by the thread of the tree.
LEMMA ResumeOK ==
    ASSUME ActionInv, Resume
    PROVE  ActionInv'
<1>. USE RunsAssumption, ActionKindsAssumption, OutcomesAssumption DEF ActionInv, TypeOK, Resume
<1>0. SignalTypeOK' /\ FlagTypeOK'
  BY Zenon DEF SignalTypeOK, FlagTypeOK
<1>1. ActionTypeOK'
  BY DEF ActionTypeOK, ThreadTypeOK, ResultsKnown
<1>2. ThreadTypeOK'
  BY DEF ThreadTypeOK, ActionTypeOK
<1>3. TreeTypeOK'
  BY DEF TreeTypeOK, ActionTypeOK, Option, AnswerKnown
<1>4. ThreadsStarted' /\ HandleIsLast'
  BY DEF ActionTypeOK, ThreadTypeOK, ThreadsStarted, HandleIsLast, AnswerKnown
<1>5. ResultsKnown'
  BY DEF ThreadTypeOK, ResultsKnown, ThreadsStarted, ActionTypeOK
<1>6. OthersOver' /\ TickOfLast'
  BY DEF ActionTypeOK, ThreadTypeOK, OthersOver, TickOfLast, HandleIsLast, ThreadsStarted, AnswerKnown
<1>7. AnswerKnown' 
  BY DEF ActionTypeOK, ThreadTypeOK, AnswerKnown, ThreadsStarted, TickOfLast, ResultsKnown, HandleIsLast
<1>8. StatusOfLast'
  BY DEF ActionTypeOK, ThreadTypeOK, AnswerKnown, StatusOfLast, ThreadsStarted, TickOfLast
<1>9. WaitsInTree'
  BY DEF WaitsInTree
<1>. QED
  BY <1>0, <1>1, <1>2, <1>3, <1>4, <1>5, <1>6, <1>7, <1>8, <1>9

\* Waiting for the signal and leaving tickRoot() change nothing of the action.
LEMMA WaitingOK ==
    ASSUME ActionInv, UNCHANGED <<actionVars, answer>>, SignalTypeOK', TreeTypeOK', WaitsInTree',
           \/ main' = main
           \/ main \notin {"assign", "wait"} /\ main' \in {"app", "tick", "sleep", "nap"}
    PROVE  ActionInv'
<1>. USE DEF ActionInv, TypeOK
<1>1. ActionTypeOK' /\ FlagTypeOK' /\ ThreadTypeOK'
  BY DEF ActionTypeOK, FlagTypeOK, ThreadTypeOK
<1>2. ThreadsStarted' /\ ResultsKnown'
  BY DEF ThreadsStarted, ResultsKnown
<1>3. HandleIsLast' /\ OthersOver' /\ TickOfLast'
  BY DEF HandleIsLast, OthersOver, TickOfLast
<1>4. AnswerKnown' /\ StatusOfLast'
  BY DEF AnswerKnown, StatusOfLast
<1>. QED
  BY <1>1, <1>2, <1>3, <1>4

\* The tree sleeps until it is woken up or its time is over.
LEMMA WaitOK ==
    ASSUME ActionInv, Nap \/ Wait \/ SleepIsOver \/ WaitReturns \/ CatchInApp
    PROVE  ActionInv'
<1>. USE DEF Nap, Wait, SleepIsOver, WaitReturns, CatchInApp
<1>1. SignalTypeOK'
  BY DEF ActionInv, TypeOK, SignalTypeOK, WaitPC, WaitStep, BeginWait, Check, Block, TimeOut, Clear
<1>2. TreeTypeOK'
  BY DEF ActionInv, TypeOK, TreeTypeOK
<1>3. WaitsInTree'
  BY DEF ActionInv, TypeOK, SignalTypeOK, WaitPC, WaitsInTree, WaitStep, BeginWait, Check, Block,
         TimeOut, Clear
<1>4. \/ main' = main
      \/ main \notin {"assign", "wait"} /\ main' \in {"app", "tick", "sleep", "nap"}
  BY DEF ActionInv, WaitsInTree, WaitStep, Clear
<1>5. UNCHANGED <<actionVars, answer>>
  OBVIOUS
<1>. QED
  BY <1>1, <1>2, <1>3, <1>4, <1>5, WaitingOK

\* The application ticks the tree.
LEMMA CallOK ==
    ASSUME ActionInv, Call
    PROVE  ActionInv'
<1>. USE RunsAssumption, ActionKindsAssumption, OutcomesAssumption DEF ActionInv, TypeOK, Call
<1>0. SignalTypeOK' /\ FlagTypeOK'
  BY Zenon DEF SignalTypeOK, FlagTypeOK
<1>1. ActionTypeOK'
  BY DEF ActionTypeOK, ThreadTypeOK, ResultsKnown
<1>2. ThreadTypeOK'
  BY DEF ThreadTypeOK, ActionTypeOK
<1>3. TreeTypeOK'
  BY DEF TreeTypeOK, ActionTypeOK, Option, AnswerKnown
<1>4. ThreadsStarted' /\ HandleIsLast'
  BY DEF ActionTypeOK, ThreadTypeOK, ThreadsStarted, HandleIsLast, AnswerKnown
<1>5. ResultsKnown'
  BY DEF ThreadTypeOK, ResultsKnown, ThreadsStarted, ActionTypeOK
<1>6. OthersOver' /\ TickOfLast'
  BY DEF ActionTypeOK, ThreadTypeOK, OthersOver, TickOfLast, HandleIsLast, ThreadsStarted, AnswerKnown
<1>7. AnswerKnown' 
  BY DEF ActionTypeOK, ThreadTypeOK, AnswerKnown, ThreadsStarted, TickOfLast, ResultsKnown, HandleIsLast
<1>8. StatusOfLast'
  BY DEF ActionTypeOK, ThreadTypeOK, AnswerKnown, StatusOfLast, ThreadsStarted, TickOfLast
<1>9. WaitsInTree'
  BY DEF WaitsInTree
<1>. QED
  BY <1>0, <1>1, <1>2, <1>3, <1>4, <1>5, <1>6, <1>7, <1>8, <1>9

\* The root has answered: one that has completed is reset.
LEMMA AnsweredOK ==
    ASSUME ActionInv, Answered
    PROVE  ActionInv'
<1>. USE RunsAssumption, ActionKindsAssumption, OutcomesAssumption DEF ActionInv, TypeOK, Answered
<1>0. SignalTypeOK' /\ FlagTypeOK'
  BY Zenon DEF SignalTypeOK, FlagTypeOK
<1>1. ActionTypeOK'
  BY DEF ActionTypeOK, ThreadTypeOK, ResultsKnown
<1>2. ThreadTypeOK'
  BY DEF ThreadTypeOK, ActionTypeOK
<1>3. TreeTypeOK'
  BY DEF TreeTypeOK, ActionTypeOK, Option, AnswerKnown
<1>4. ThreadsStarted' /\ HandleIsLast'
  BY DEF ActionTypeOK, ThreadTypeOK, ThreadsStarted, HandleIsLast, AnswerKnown
<1>5. ResultsKnown'
  BY DEF ThreadTypeOK, ResultsKnown, ThreadsStarted, ActionTypeOK
<1>6. OthersOver' /\ TickOfLast'
  BY DEF ActionTypeOK, ThreadTypeOK, OthersOver, TickOfLast, HandleIsLast, ThreadsStarted, AnswerKnown
<1>7. AnswerKnown' 
  BY DEF ActionTypeOK, ThreadTypeOK, AnswerKnown, ThreadsStarted, TickOfLast, ResultsKnown, HandleIsLast
<1>8. StatusOfLast'
  BY DEF ActionTypeOK, ThreadTypeOK, AnswerKnown, StatusOfLast, ThreadsStarted, TickOfLast
<1>9. WaitsInTree'
  BY DEF WaitsInTree
<1>. QED
  BY <1>0, <1>1, <1>2, <1>3, <1>4, <1>5, <1>6, <1>7, <1>8, <1>9

\* halt() sets its flag before it waits for the thread.
LEMMA HaltOK ==
    ASSUME ActionInv, Halt
    PROVE  ActionInv'
<1>. USE RunsAssumption, ActionKindsAssumption, OutcomesAssumption DEF ActionInv, TypeOK, Halt
<1>0. SignalTypeOK' /\ FlagTypeOK'
  BY Zenon DEF SignalTypeOK, FlagTypeOK
<1>1. ActionTypeOK'
  BY DEF ActionTypeOK, ThreadTypeOK, ResultsKnown
<1>2. ThreadTypeOK'
  BY DEF ThreadTypeOK, ActionTypeOK
<1>3. TreeTypeOK'
  BY DEF TreeTypeOK, ActionTypeOK, Option, AnswerKnown
<1>4. ThreadsStarted' /\ HandleIsLast'
  BY DEF ActionTypeOK, ThreadTypeOK, ThreadsStarted, HandleIsLast, AnswerKnown
<1>5. ResultsKnown'
  BY DEF ThreadTypeOK, ResultsKnown, ThreadsStarted, ActionTypeOK
<1>6. OthersOver' /\ TickOfLast'
  BY DEF ActionTypeOK, ThreadTypeOK, OthersOver, TickOfLast, HandleIsLast, ThreadsStarted, AnswerKnown
<1>7. AnswerKnown' 
  BY DEF ActionTypeOK, ThreadTypeOK, AnswerKnown, ThreadsStarted, TickOfLast, ResultsKnown, HandleIsLast
<1>8. StatusOfLast'
  BY DEF ActionTypeOK, ThreadTypeOK, AnswerKnown, StatusOfLast, ThreadsStarted, TickOfLast
<1>9. WaitsInTree'
  BY DEF WaitsInTree
<1>. QED
  BY <1>0, <1>1, <1>2, <1>3, <1>4, <1>5, <1>6, <1>7, <1>8, <1>9

\* halt() returns once the thread it waited for has ended.
LEMMA HaltReturnsOK ==
    ASSUME ActionInv, HaltReturns
    PROVE  ActionInv'
<1>. USE RunsAssumption, ActionKindsAssumption, OutcomesAssumption DEF ActionInv, TypeOK, HaltReturns
<1>0. SignalTypeOK' /\ FlagTypeOK'
  BY Zenon DEF SignalTypeOK, FlagTypeOK
<1>1. ActionTypeOK'
  BY DEF ActionTypeOK, ThreadTypeOK, ResultsKnown
<1>2. ThreadTypeOK'
  BY DEF ThreadTypeOK, ActionTypeOK
<1>3. TreeTypeOK'
  BY DEF TreeTypeOK, ActionTypeOK, Option, AnswerKnown
<1>4. ThreadsStarted' /\ HandleIsLast'
  BY DEF ActionTypeOK, ThreadTypeOK, ThreadsStarted, HandleIsLast, AnswerKnown
<1>5. ResultsKnown'
  BY DEF ThreadTypeOK, ResultsKnown, ThreadsStarted, ActionTypeOK
<1>6. OthersOver' /\ TickOfLast'
  <2>1. ASSUME NEW r \in Run, r <= runs, kind = "Threaded"
        PROVE  thread[r] = "over"
    BY <2>1 DEF OthersOver, HandleIsLast
  <2>2. ASSUME NEW r \in Run
        PROVE  thread[r] \notin InTick
    BY <2>1, <2>2 DEF ActionTypeOK, TickOfLast, ThreadsStarted
  <2>. QED
    BY <2>1, <2>2 DEF OthersOver, TickOfLast
<1>7. AnswerKnown' 
  BY DEF ActionTypeOK, ThreadTypeOK, AnswerKnown, ThreadsStarted, TickOfLast, ResultsKnown, HandleIsLast
<1>8. StatusOfLast'
  BY DEF ActionTypeOK, ThreadTypeOK, AnswerKnown, StatusOfLast, ThreadsStarted, TickOfLast
<1>9. WaitsInTree'
  BY DEF WaitsInTree
<1>. QED
  BY <1>0, <1>1, <1>2, <1>3, <1>4, <1>5, <1>6, <1>7, <1>8, <1>9

-------------------------------------------------------------------------------
(* The thread of an execution                                              *)

\* tick() ends in the thread, with a status or an exception.
LEMMA TickEndsOK ==
    ASSUME ActionInv, NEW r \in Run, TickEnds(r)
    PROVE  ActionInv'
<1>. USE RunsAssumption, ActionKindsAssumption, OutcomesAssumption DEF ActionInv, TypeOK, TickEnds, ThreadStep
<1>0. SignalTypeOK' /\ FlagTypeOK'
  BY Zenon DEF SignalTypeOK, FlagTypeOK
<1>1. ActionTypeOK'
  BY DEF ActionTypeOK, ThreadTypeOK, ResultsKnown
<1>2. ThreadTypeOK'
  BY DEF ThreadTypeOK, ActionTypeOK
<1>3. TreeTypeOK'
  BY DEF TreeTypeOK, ActionTypeOK, Option, AnswerKnown
<1>4. ThreadsStarted' /\ HandleIsLast'
  BY DEF ActionTypeOK, ThreadTypeOK, ThreadsStarted, HandleIsLast, AnswerKnown
<1>5. ResultsKnown'
  BY DEF ThreadTypeOK, ResultsKnown, ThreadsStarted, ActionTypeOK
<1>6. OthersOver' /\ TickOfLast'
  BY DEF ActionTypeOK, ThreadTypeOK, OthersOver, TickOfLast, HandleIsLast, ThreadsStarted, AnswerKnown
<1>7. AnswerKnown' 
  BY DEF ActionTypeOK, ThreadTypeOK, AnswerKnown, ThreadsStarted, TickOfLast, ResultsKnown, HandleIsLast
<1>8. StatusOfLast'
  BY DEF ActionTypeOK, ThreadTypeOK, AnswerKnown, StatusOfLast, ThreadsStarted, TickOfLast
<1>9. WaitsInTree'
  BY DEF WaitsInTree
<1>. QED
  BY <1>0, <1>1, <1>2, <1>3, <1>4, <1>5, <1>6, <1>7, <1>8, <1>9

\* The thread looks at halt_requested_ before it sets the status.
LEMMA CheckHaltOK ==
    ASSUME ActionInv, NEW r \in Run, CheckHalt(r)
    PROVE  ActionInv'
<1>. USE RunsAssumption, ActionKindsAssumption, OutcomesAssumption DEF ActionInv, TypeOK, CheckHalt, ThreadStep
<1>0. SignalTypeOK' /\ FlagTypeOK'
  BY Zenon DEF SignalTypeOK, FlagTypeOK
<1>1. ActionTypeOK'
  BY DEF ActionTypeOK, ThreadTypeOK, ResultsKnown
<1>2. ThreadTypeOK'
  BY DEF ThreadTypeOK, ActionTypeOK
<1>3. TreeTypeOK'
  BY DEF TreeTypeOK, ActionTypeOK, Option, AnswerKnown
<1>4. ThreadsStarted' /\ HandleIsLast'
  BY DEF ActionTypeOK, ThreadTypeOK, ThreadsStarted, HandleIsLast, AnswerKnown
<1>5. ResultsKnown'
  BY DEF ThreadTypeOK, ResultsKnown, ThreadsStarted, ActionTypeOK
<1>6. OthersOver' /\ TickOfLast'
  BY DEF ActionTypeOK, ThreadTypeOK, OthersOver, TickOfLast, HandleIsLast, ThreadsStarted, AnswerKnown
<1>7. AnswerKnown' 
  BY DEF ActionTypeOK, ThreadTypeOK, AnswerKnown, ThreadsStarted, TickOfLast, ResultsKnown, HandleIsLast
<1>8. StatusOfLast'
  BY DEF ActionTypeOK, ThreadTypeOK, AnswerKnown, StatusOfLast, ThreadsStarted, TickOfLast
<1>9. WaitsInTree'
  BY DEF WaitsInTree
<1>. QED
  BY <1>0, <1>1, <1>2, <1>3, <1>4, <1>5, <1>6, <1>7, <1>8, <1>9

\* The thread sets the status tick() ended with.
LEMMA SetStatusOK ==
    ASSUME ActionInv, NEW r \in Run, SetStatus(r)
    PROVE  ActionInv'
<1>. USE RunsAssumption, ActionKindsAssumption, OutcomesAssumption DEF ActionInv, TypeOK, SetStatus, ThreadStep
<1>0. SignalTypeOK' /\ FlagTypeOK'
  BY Zenon DEF SignalTypeOK, FlagTypeOK
<1>1. ActionTypeOK'
  BY DEF ActionTypeOK, ThreadTypeOK, ResultsKnown
<1>2. ThreadTypeOK'
  BY DEF ThreadTypeOK, ActionTypeOK
<1>3. TreeTypeOK'
  BY DEF TreeTypeOK, ActionTypeOK, Option, AnswerKnown
<1>4. ThreadsStarted' /\ HandleIsLast'
  BY DEF ActionTypeOK, ThreadTypeOK, ThreadsStarted, HandleIsLast, AnswerKnown
<1>5. ResultsKnown'
  BY DEF ThreadTypeOK, ResultsKnown, ThreadsStarted, ActionTypeOK
<1>6. OthersOver' /\ TickOfLast'
  BY DEF ActionTypeOK, ThreadTypeOK, OthersOver, TickOfLast, HandleIsLast, ThreadsStarted, AnswerKnown
<1>7. AnswerKnown'
  <2>1. status = "RUNNING" /\ kind = "Threaded" /\ Completed(result[r])
    BY DEF ActionTypeOK, TickOfLast, ThreadsStarted, ResultsKnown
  <2>2. status' = result[r] /\ UNCHANGED <<main, answer, kind>>
    OBVIOUS
  <2>. QED
    BY <2>1, <2>2 DEF AnswerKnown
<1>8. StatusOfLast'
  BY DEF ActionTypeOK, ThreadTypeOK, AnswerKnown, StatusOfLast, ThreadsStarted, TickOfLast
<1>9. WaitsInTree'
  BY DEF WaitsInTree
<1>. QED
  BY <1>0, <1>1, <1>2, <1>3, <1>4, <1>5, <1>6, <1>7, <1>8, <1>9

\* The thread keeps the exception for the tree.
LEMMA CatchOK ==
    ASSUME ActionInv, NEW r \in Run, Catch(r)
    PROVE  ActionInv'
<1>. USE RunsAssumption, ActionKindsAssumption, OutcomesAssumption DEF ActionInv, TypeOK, Catch, ThreadStep
<1>0. SignalTypeOK' /\ FlagTypeOK'
  BY Zenon DEF SignalTypeOK, FlagTypeOK
<1>1. ActionTypeOK'
  BY DEF ActionTypeOK, ThreadTypeOK, ResultsKnown
<1>2. ThreadTypeOK'
  BY DEF ThreadTypeOK, ActionTypeOK
<1>3. TreeTypeOK'
  BY DEF TreeTypeOK, ActionTypeOK, Option, AnswerKnown
<1>4. ThreadsStarted' /\ HandleIsLast'
  BY DEF ActionTypeOK, ThreadTypeOK, ThreadsStarted, HandleIsLast, AnswerKnown
<1>5. ResultsKnown'
  BY DEF ThreadTypeOK, ResultsKnown, ThreadsStarted, ActionTypeOK
<1>6. OthersOver' /\ TickOfLast'
  BY DEF ActionTypeOK, ThreadTypeOK, OthersOver, TickOfLast, HandleIsLast, ThreadsStarted, AnswerKnown
<1>7. AnswerKnown' 
  BY DEF ActionTypeOK, ThreadTypeOK, AnswerKnown, ThreadsStarted, TickOfLast, ResultsKnown, HandleIsLast
<1>8. StatusOfLast'
  BY DEF ActionTypeOK, ThreadTypeOK, AnswerKnown, StatusOfLast, ThreadsStarted, TickOfLast
<1>9. WaitsInTree'
  BY DEF WaitsInTree
<1>. QED
  BY <1>0, <1>1, <1>2, <1>3, <1>4, <1>5, <1>6, <1>7, <1>8, <1>9

\* The thread wakes the tree up as the last thing it does.
LEMMA EmitWakeUpSignalOK ==
    ASSUME ActionInv, NEW r \in Run, EmitWakeUpSignal(r)
    PROVE  ActionInv'
<1>. USE DEF ActionInv, TypeOK, EmitWakeUpSignal, ThreadStep, SetReady, NotifyAll
<1>1. SignalTypeOK'
  BY DEF SignalTypeOK, WaitPC
<1>2. FlagTypeOK' /\ ActionTypeOK' /\ TreeTypeOK'
  BY DEF FlagTypeOK, ActionTypeOK, TreeTypeOK
<1>3. ThreadTypeOK'
  BY DEF ThreadTypeOK
<1>4. ThreadsStarted' /\ HandleIsLast' /\ ResultsKnown'
  BY DEF ThreadTypeOK, ThreadsStarted, HandleIsLast, ResultsKnown
<1>5. OthersOver' /\ TickOfLast'
  BY DEF ThreadTypeOK, OthersOver, TickOfLast
<1>6. AnswerKnown' /\ StatusOfLast'
  BY DEF AnswerKnown, StatusOfLast
<1>7. WaitsInTree'
  BY DEF WaitsInTree
<1>. QED
  BY <1>1, <1>2, <1>3, <1>4, <1>5, <1>6, <1>7

-------------------------------------------------------------------------------
(* The theorems                                                            *)

\* Every step of the specification keeps the invariant.
LEMMA ActionNext ==
    ASSUME ActionInv, [Next]_vars
    PROVE  ActionInv'
<1>1. CASE TickNext
  BY <1>1, StartThreadOK, AssignHandleOK, CollectOK, ResumeOK, AnsweredOK, WaitOK,
     HaltReturnsOK DEF TickNext
<1>2. CASE Call \/ Nap \/ Halt \/ CatchInApp \/ SleepIsOver
  BY <1>2, CallOK, HaltOK, WaitOK
<1>3. CASE \E r \in Run : ThreadNext(r)
  BY <1>3, TickEndsOK, CheckHaltOK, SetStatusOK, CatchOK, EmitWakeUpSignalOK DEF ThreadNext
<1>4. CASE UNCHANGED vars
  BY <1>4, WaitingOK DEF vars, ActionInv, TypeOK, SignalTypeOK, TreeTypeOK, WaitsInTree
<1>. QED
  BY <1>1, <1>2, <1>3, <1>4 DEF Next, Done

\* ActionInv is inductive: it holds of every reachable state of a ThreadedAction and of a
\* CoroActionNode, whatever their threads, the application and the signal do.
THEOREM ActionInvariant == Spec => []ActionInv
BY ActionInit, ActionNext, PTL DEF Spec

\* Every variable has its type: the future, the exception and the answer are those of an
\* execution there has been, and only what tick() can end with is set.
THEOREM ActionTypeCorrect == Spec => []TypeOK
<1>1. ActionInv => TypeOK
  BY DEF ActionInv
<1>. QED
  BY <1>1, ActionInvariant, PTL

\* The threads of two executions of a ThreadedAction never run tick(), or set the
\* status, at once, whatever the application and the wake-up signal do.
THEOREM OneTickAtATime == Spec => []OneTick
<1>1. ActionInv => OneTick
  BY DEF ActionInv, OneTick, TickOfLast
<1>. QED
  BY <1>1, ActionInvariant, PTL

\* SUCCESS or FAILURE of the root is what tick() of this execution ended with, whatever
\* thread or coroutine a halted one has left.
THEOREM AnswersAreOwn == Spec => []AnswersOwnExecution
<1>1. ActionInv => AnswersOwnExecution
  BY DEF ActionInv, AnswersOwnExecution, AnswerKnown, StatusOfLast
<1>. QED
  BY <1>1, ActionInvariant, PTL
===============================================================================
