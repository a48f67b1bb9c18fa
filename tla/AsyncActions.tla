----------------------------- MODULE AsyncActions -----------------------------
(***************************************************************************)
(* A Tree whose root is a ThreadedAction or a CoroActionNode: Tree::tickRoot *)
(* with its three options, Tree::sleep, Tree::haltTree, executeTick() and  *)
(* halt() of the two actions, and the threads that ThreadedAction starts.  *)
(*                                                                         *)
(* The executions of the action are numbered; with a ThreadedAction each   *)
(* has a thread of the same number.                                        *)
(***************************************************************************)
EXTENDS WakeUpSignal, Integers, FiniteSets

CONSTANTS
    MaxRuns,       \* bound: executions of the action
    Kinds,         \* of {"Threaded", "Coro"}
    Outcomes       \* of tick(): "SUCCESS", "FAILURE", "THROW"

ASSUME RunsAssumption == MaxRuns \in Nat \ {0}
ASSUME ActionKindsAssumption == Kinds \subseteq {"Threaded", "Coro"}
ASSUME OutcomesAssumption == Outcomes \subseteq {"SUCCESS", "FAILURE", "THROW"}

VARIABLES
    kind,
    status,     \* of the action
    runs,       \* executions so far
    halted,     \* halt_requested_
    exptr,      \* the run whose exception exptr_ holds, or 0
    handle,     \* the thread of thread_handle_, or 0
    thread,     \* where each thread is in the function given to std::async
    result,     \* what tick() of each run ended with
    coro,       \* the run whose call of tick() the coroutine is in, or 0
    main,       \* where the thread that ticks the tree is
    opt,        \* TickOption of the call of tickRoot()
    answer      \* no code: the last answer of the root, and the run it is about

actionVars == <<kind, status, runs, halted, exptr, handle, thread, result, coro>>
vars == <<signalVars, actionVars, main, opt, answer>>

Run == 1 .. MaxRuns
Option == {"EXACTLY_ONCE", "ONCE_UNLESS_WOKEN_UP", "WHILE_RUNNING"}
Completed(s) == s \in {"SUCCESS", "FAILURE"}

ActionTypeOK ==
    /\ kind \in Kinds /\ status \in {"IDLE", "RUNNING", "SUCCESS", "FAILURE"}
    /\ runs \in 0 .. MaxRuns /\ exptr \in 0 .. MaxRuns /\ handle \in 0 .. MaxRuns
    /\ coro \in 0 .. MaxRuns

FlagTypeOK == halted \in BOOLEAN

ThreadTypeOK ==
    /\ thread \in [Run -> {"none", "tick", "check", "set", "catch", "emit", "notify", "over"}]
    /\ result \in [Run -> Outcomes \cup {"none"}]

TreeTypeOK ==
    /\ main \in {"app", "tick", "assign", "collect", "answered", "poll", "sleep",
                 "nap", "threw", "wait", "terminated"}
    /\ opt \in Option
    /\ answer \in [run : 0 .. MaxRuns,
                   status : {"none", "RUNNING", "SUCCESS", "FAILURE", "THROW"}]

TypeOK == SignalTypeOK /\ FlagTypeOK /\ ActionTypeOK /\ ThreadTypeOK /\ TreeTypeOK

Init ==
    /\ SignalInit
    /\ kind \in Kinds /\ status = "IDLE" /\ runs = 0
    /\ halted = FALSE /\ exptr = 0 /\ handle = 0
    /\ thread = [r \in Run |-> "none"] /\ result = [r \in Run |-> "none"]
    /\ coro = 0
    /\ main = "app" /\ opt = "WHILE_RUNNING" /\ answer = [run |-> 0, status |-> "none"]

At(pc) == main = pc
GoTo(from, to) == main = from /\ main' = to
Answer(s) == answer' = [run |-> runs, status |-> s]

-------------------------------------------------------------------------------
(* ThreadedAction::executeTick() *)

StartThread ==
    /\ At("tick") /\ kind = "Threaded"
    /\ IF status = "IDLE"
       THEN /\ runs < MaxRuns /\ runs' = runs + 1
            /\ status' = "RUNNING" /\ halted' = FALSE
            /\ thread' = [thread EXCEPT ![runs'] = "tick"]
            /\ main' = "assign"
       ELSE main' = "collect" /\ UNCHANGED <<status, runs, halted, thread>>
    /\ UNCHANGED <<signalVars, kind, exptr, handle, result, coro, opt, answer>>

\* The assignment to thread_handle_ destroys the future of the last thread,
\* which waits until that thread is over.
AssignHandle ==
    /\ GoTo("assign", "collect")
    /\ handle # 0 => thread[handle] = "over"
    /\ handle' = runs
    /\ UNCHANGED <<signalVars, kind, status, runs, halted, exptr, thread, result,
                   coro, opt, answer>>

\* Mutant of Collect: the exception is left for later.
CollectStatus ==
    /\ At("collect")
    /\ main' = "answered" /\ Answer(status)
    /\ UNCHANGED <<signalVars, kind, status, runs, halted, exptr, handle, thread, result,
                   coro, opt>>

\* Under mutex_: an exception is thrown again, in the thread of the tree.
Collect ==
    /\ At("collect")
    /\ IF exptr # 0
       THEN main' = "threw" /\ exptr' = 0 /\ answer' = [run |-> exptr, status |-> "THROW"]
       ELSE main' = "answered" /\ Answer(status) /\ UNCHANGED exptr
    /\ UNCHANGED <<signalVars, kind, status, runs, halted, handle, thread, result,
                   coro, opt>>

-------------------------------------------------------------------------------
(* The thread of run r. *)

ThreadStep(r, from, to) == thread[r] = from /\ thread' = [thread EXCEPT ![r] = to]

TickEnds(r) ==
    /\ \E o \in Outcomes :
         /\ ThreadStep(r, "tick", IF o = "THROW" THEN "catch" ELSE "check")
         /\ result' = [result EXCEPT ![r] = o]
    /\ UNCHANGED <<signalVars, kind, status, runs, halted, exptr, handle, coro,
                   main, opt, answer>>

CheckHalt(r) ==
    /\ ThreadStep(r, "check", IF halted THEN "emit" ELSE "set")
    /\ UNCHANGED <<signalVars, kind, status, runs, halted, exptr, handle, result,
                   coro, main, opt, answer>>

SetStatus(r) ==
    /\ ThreadStep(r, "set", "emit") /\ status' = result[r]
    /\ UNCHANGED <<signalVars, kind, runs, halted, exptr, handle, result, coro,
                   main, opt, answer>>

\* setStatus(IDLE) throws: the thread ends without the signal, the action stays
\* RUNNING.
Catch(r) ==
    /\ ThreadStep(r, "catch", "over") /\ exptr' = r
    /\ UNCHANGED <<signalVars, kind, status, runs, halted, handle, result, coro,
                   main, opt, answer>>

EmitWakeUpSignal(r) ==
    /\ \/ ThreadStep(r, "emit", "notify") /\ SetReady
       \/ ThreadStep(r, "notify", "over") /\ NotifyAll
    /\ UNCHANGED <<kind, status, runs, halted, exptr, handle, result, coro,
                   main, opt, answer>>

-------------------------------------------------------------------------------
(* CoroActionNode *)

\* executeTick(): the coroutine is created when there is none, resumed, and
\* destroyed when tick() has returned, be it RUNNING without a yield.  What
\* tick() throws finds no handler on the stack of the coroutine: the program
\* ends (minicoro.h:52 has no support for exceptions).
Resume ==
    /\ At("tick") /\ kind = "Coro"
    /\ status = "IDLE" => runs < MaxRuns
    /\ runs' = IF status = "IDLE" THEN runs + 1 ELSE runs
    /\ LET this == IF coro = 0 THEN runs' ELSE coro
       IN  \/ /\ status' = "RUNNING" /\ coro' = this      \* setStatusRunningAndYield()
             /\ main' = "answered" /\ answer' = [run |-> runs', status |-> "RUNNING"]
             /\ UNCHANGED result
          \/ \E s \in (Outcomes \ {"THROW"}) \cup {"RUNNING"} :
               /\ status' = s /\ coro' = 0
               /\ result' = IF s = "RUNNING" THEN result ELSE [result EXCEPT ![this] = s]
               /\ main' = "answered" /\ answer' = [run |-> runs', status |-> s]
          \/ /\ "THROW" \in Outcomes /\ main' = "terminated"
             /\ UNCHANGED <<status, coro, result, answer>>
    /\ UNCHANGED <<signalVars, kind, halted, exptr, handle, thread, opt>>

-------------------------------------------------------------------------------
(* Tree: the application ticks, sleeps or halts. *)

Call ==
    /\ GoTo("app", "tick")
    /\ status = "IDLE" => runs < MaxRuns
    /\ \E o \in Option : opt' = o
    /\ UNCHANGED <<signalVars, actionVars, answer>>

\* The rest of the loop of tickRoot(), once the root has answered: a completed
\* root is reset; after RUNNING, unless this is tickExactlyOnce(), a signal is
\* polled for.
Answered ==
    /\ At("answered")
    /\ main' = IF answer.status = "RUNNING" /\ opt # "EXACTLY_ONCE" THEN "poll" ELSE "app"
    /\ status' = IF Completed(answer.status) THEN "IDLE" ELSE status
    /\ UNCHANGED <<signalVars, kind, runs, halted, exptr, handle, thread, result,
                   coro, opt, answer>>

\* tickOnce() leaves the sleep to the application.
Nap ==
    /\ GoTo("app", "nap") /\ status # "IDLE"
    /\ UNCHANGED <<signalVars, actionVars, opt, answer>>

Wait ==
    /\ \/ At("poll") /\ (BeginWait \/ Check(0))
       \/ main \in {"sleep", "nap"} /\ (BeginWait \/ Check(1) \/ Block)
    /\ UNCHANGED <<actionVars, main, opt, answer>>

SleepIsOver == TimeOut /\ UNCHANGED <<actionVars, main, opt, answer>>

\* waitFor() returns: a signal means another tick, no signal the sleep of
\* tickWhileRunning() or the end of tickOnce().
WaitReturns ==
    /\ Clear
    /\ main' = CASE main = "nap" -> "app"
                 [] main = "sleep" \/ signalled -> "tick"
                 [] opt = "WHILE_RUNNING" -> "sleep"
                 [] OTHER -> "app"
    /\ UNCHANGED <<actionVars, opt, answer>>

\* An exception leaves tickRoot(); the application may halt the tree or not.
CatchInApp ==
    /\ GoTo("threw", "app")
    /\ UNCHANGED <<signalVars, actionVars, opt, answer>>

Halt ==
    /\ main \in {"app", "threw"} /\ main' = "wait"
    /\ halted' = TRUE
    /\ UNCHANGED <<signalVars, kind, status, runs, exptr, handle, thread, result,
                   coro, opt, answer>>

\* Mutant of HaltReturns: the coroutine is not destroyed.
HaltKeepsCoroutine ==
    /\ GoTo("wait", "app")
    /\ handle # 0 => thread[handle] = "over"
    /\ handle' = 0 /\ status' = "IDLE"
    /\ UNCHANGED <<signalVars, kind, runs, halted, exptr, thread, result, coro, opt, answer>>

\* Mutant of HaltReturns: halt() does not wait for the thread.
HaltReturnsAtOnce ==
    /\ GoTo("wait", "app")
    /\ handle' = 0 /\ coro' = 0 /\ status' = "IDLE"
    /\ UNCHANGED <<signalVars, kind, runs, halted, exptr, thread, result, opt, answer>>

HaltReturns ==
    /\ GoTo("wait", "app")
    /\ handle # 0 => thread[handle] = "over"
    /\ handle' = 0 /\ coro' = 0 /\ status' = "IDLE"
    /\ UNCHANGED <<signalVars, kind, runs, halted, exptr, thread, result, opt, answer>>

-------------------------------------------------------------------------------
Done ==
    /\ At("terminated") \/ (At("app") /\ status = "IDLE" /\ runs = MaxRuns)
    /\ UNCHANGED vars

ThreadNext(r) ==
    TickEnds(r) \/ CheckHalt(r) \/ SetStatus(r) \/ Catch(r) \/ EmitWakeUpSignal(r)

TickNext ==
    \/ StartThread \/ AssignHandle \/ Collect \/ Resume
    \/ Answered \/ Wait \/ WaitReturns \/ HaltReturns

Next ==
    \/ Call \/ Nap \/ Halt \/ CatchInApp \/ TickNext \/ SleepIsOver
    \/ \E r \in Run : ThreadNext(r)
    \/ Done

(* A call that was begun goes on, every thread runs and its tick() returns, *)
(* a sleep ends.                                                            *)
Fairness ==
    /\ WF_vars(TickNext) /\ WF_vars(SleepIsOver)
    /\ \A r \in Run : WF_vars(ThreadNext(r))

Spec == Init /\ [][Next]_vars
FairSpec == Spec /\ Fairness

-------------------------------------------------------------------------------
(* Properties. *)

\* The threads of two executions never run tick(), or set the status, at once.
OneTick ==
    \A q, r \in Run :
        {thread[q], thread[r]} \subseteq {"tick", "check", "set", "catch"} => q = r

\* SUCCESS or FAILURE of the root is what tick() of this execution has ended
\* with: not what the thread of one that was halted sets, nor where its
\* coroutine goes on.
AnswersOwnExecution ==
    At("answered") /\ Completed(answer.status) =>
        answer.run = runs /\ answer.status = result[runs]

\* tickWhileRunning() returns or throws once tick() of a ThreadedAction ends,
\* even when the signal was lost; unless tick() had thrown and the action was
\* not halted.
TickWhileRunningEnds ==
    main = "tick" /\ opt = "WHILE_RUNNING" /\ kind = "Threaded"
        /\ (handle # 0 => result[handle] # "THROW")
    ~> main \in {"app", "threw"}

\* action_node.cpp:212: the exception pointer and the status IDLE are set
\* together, so an action whose exception was thrown again is IDLE.
ExceptionLeavesIdle == main = "threw" => status = "IDLE"
===============================================================================
