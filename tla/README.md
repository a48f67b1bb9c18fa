# Formal model of BehaviorTree.CPP

TLA+ modules, TLC configurations and TLAPS proofs for the engine in `src/`
(BehaviorTree.CPP 4.x). The paths below are relative to the repository; a class
is named as in the code.

    tlc -workers 2 -config MCSequences.cfg MCSequences.tla
    tlc -workers 2 -config MCAsyncActions_exception.cfg MCAsyncActions.tla
    tlapm BehaviorTreeProofs.tla

`PROJECT.json` lists the runs with the properties each checks, the source lines
every definition stands for, one mutation of the code per checked property that
breaks it, and the hazards the properties are for.

## 1. The system

A user registers node types in a factory, builds a `Tree` from XML and calls
`tickRoot()` from one thread, over and over. A tick is one nest of C++ calls:
`executeTick()` of the root calls `tick()`, which calls `executeTick()` of a
child, down to a leaf, which answers `SUCCESS`, `FAILURE`, `SKIPPED` or
`RUNNING`. What makes the engine hard is what survives between two ticks: a
`status` per node and a few private members per class (an index, a counter, a
list of completed children), which `halt()`, `resetStatus()`, exceptions and
other nodes' decisions have to keep consistent, while timers, action threads,
loggers and a network publisher work beside the ticking thread.

| Component | State | Operations | Interactions | What is hard | What makes it correct |
|---|---|---|---|---|---|
| **Node statuses** `basic_types.h` | none | classification of five values | everybody | `SKIPPED` is an answer and not a state | – |
| **TreeNode** `tree_node.cpp` | `status`, scripts, callbacks | `executeTick`, `haltNode`, `resetStatus`, `setStatus` | calls the virtual `tick()`/`halt()`; signals subscribers | order of pre-conditions, `tick`, `post_tick`, `setStatus`; exceptions half way | statuses and members agree after any sequence of calls |
| **Leaves** `action_node.cpp`, `condition_node.cpp` | status | `onStart`/`onRunning`/`onHalted`, functors | `emitWakeUpSignal` | a completed leaf ticked again | work is started once per execution, stopped when halted |
| **Control nodes** `controls/` | index, `skipped_count_`, `completed_list_`, counters, `running_child_` | `tick`, `halt` | tick, halt and reset children | decisions spread over many ticks; stale members | the answer follows from this execution's answers; RUNNING nodes can be reached by `halt()` |
| **Decorators** `decorators/` | counters, "already ticked", "still executing" flags | `tick`, `halt` | as control nodes, one child | flags that outlive their execution | as control nodes |
| **Tree** `bt_factory.cpp` | root, wake-up signal, UID counter | `tickRoot` (3 options), `haltTree`, `sleep` | ticks the root; owns the signal | the inner loop on the wake-up signal; two-pass halt | tick calls return; `haltTree` leaves nothing RUNNING |
| **WakeUpSignal** `utils/wakeup_signal.hpp` | `ready_`, a condition variable | `waitFor`, `emitSignal` | leaves' threads to the ticking thread | `ready_` set without the mutex, cleared after the wait | no signal is lost |
| **TimerQueue** `utils/timer_queue.h` | heap of work items, `m_finish` | `add`, `cancel`, `cancelAll`, `run`, destructor | calls handlers from its thread | cancellation against expiry; shutdown | no handler runs twice, none is forgotten while the queue lives |
| **Timed nodes** Sleep, Delay, Timeout, Test | timer id, `timer_waiting_`, `child_halted_` | `tick`, `halt`, timer callback | TimerQueue; Timeout halts its child from the timer thread | a late callback meets the next execution | a callback acts on its own execution only |
| **ThreadedAction, CoroActionNode** `action_node.cpp` | future, `exptr_`, halt flag | `executeTick`, `halt` | a thread or coroutine per execution | exception and status from two threads | a halted action's thread is over when `halt()` returns |
| **Blackboard** `blackboard.cpp` | entries, remapping, parent, mutexes | `set`, `get`, `unset`, `cloneInto`, `createEntry` | nodes, scripts, publisher | remapping through a hierarchy; lock order; a check made before an unlock | one name means one entry; no update is lost |
| **Groot2 publisher** `loggers/groot2_publisher.cpp` | hooks, breakpoints, recording, two threads | server loop, heartbeat, hook callbacks | blocks ticking nodes in a breakpoint | lock order, shutdown while a node waits | no node waits for ever once the hook is removed |
| **Loggers, observer** `loggers/` | queue and writer thread; statistics | status-change callback, writer loop, destructor | signals from `setStatus` | shutdown with items left | every transition is written once, in order |
| **Queue nodes, blackboard actions** | blackboard entries | `tick` | blackboard | shared queue | every item is consumed once |
| **Factory and XML parser** | registered builders, manifests | register, parse, instantiate | builds the tree, remaps blackboards | mostly data | ids unique, tree well formed |
| **Scripting, types, JSON, demangling** | none | parse, evaluate, convert | pre-conditions, ports | numeric conversion | data |
| **ManualSelector, shared libraries, vendored code, tools, examples** | – | – | – | – | out of scope |

## 2. What is modelled

    NodeStatus <- TreeNode <- LeafNodes ----\
                         \<- ControlNodes --- DecoratorNodes <- BehaviorTree
    BehaviorTree <- MCSequences, MCBranches, MCUpdatedHalt, MCStaleCondition
    BehaviorTree <- BehaviorTreeProofs <- ExecutionProofs

    TimerService <= TimerQueue <- TimedNodes <- MCTimedNodes, TimedNodesProofs
    WakeUpSignal <- AsyncActions <- MCAsyncActions, AsyncActionsProofs
    TransitionLog <= Loggers <- MCLoggers, LoggersProofs
    Groot2Publisher <- MCGroot2Publisher, Groot2PublisherProofs
    Blackboard <- MCBlackboard, BlackboardProofs
    Factory <- MCFactory, FactoryProofs
    Numbers <- MCNumbers

(`A <- B`: B extends A. `A <= B`: A is an abstract specification that B, or what
extends it, is shown to implement.)

The engine proper:

* `NodeStatus` – the statuses and `isStatusActive`, `isStatusCompleted`.
* `TreeNode` – the tree (constants), the variables, `HaltedFrom`/`ResetChildren`
  (how `haltNode()`, `haltChild()`, `resetChildren()` spread) and the part of
  `executeTick()` around `tick()`: pre-conditions, injected callbacks, `setStatus`
  (`Leave`), and the scripts and callbacks that throw before `tick()` or after it
  (`PreConditionThrows`, `PostConditionThrows`).
* `LeafNodes` – SyncActionNode, SimpleActionNode, SimpleConditionNode,
  StatefulActionNode.
* `ControlNodes` – Sequence, AsyncSequence, Fallback, AsyncFallback,
  SequenceWithMemory, ReactiveSequence, ReactiveFallback, Parallel, ParallelAll,
  IfThenElse, WhileDoElse, Switch.
* `DecoratorNodes` – Inverter, ForceSuccess, ForceFailure,
  KeepRunningUntilFailure, SubTree, SimpleDecorator, Repeat,
  RetryUntilSuccessful, RunOnce, Precondition, SkipUnlessUpdated,
  WaitValueUpdate, LoopNode.
* `BehaviorTree` – `tickRoot()`, `haltTree()`, the wake-up signal, `Next`, the
  specifications and all properties.

What runs beside the ticking thread:

* `TimerQueue` – `add`, `cancel`, `cancelAll`, the semaphore, the worker, the
  destructor. `TimerService` is what the queue keeps of its class comment: a handler
  is called once, in time or aborted, unless the queue is destroyed first.
* `TimedNodes` – SleepNode, DelayNode, TimeoutNode and TestNode on a TimerQueue:
  `tick()`, `halt()`, the destructor, and the callback in the timer's thread.
* `WakeUpSignal`, `AsyncActions` – `waitFor()` and `emitSignal()` step by step;
  ThreadedAction and CoroActionNode under `tickRoot()` and `tickWhileRunning()`.
* `Blackboard` – `set`, `get`, `createEntry`, `unset`, `getAnyLocked`, the
  assignment of a script and EntryUpdatedAction, on a hierarchy of boards.
* `Numbers` – what `set()`, `isCastingSafe()`, `copyInto()` and
  `convertNumber()` make of a number.
* `Loggers` – FileLogger2 and SqliteLogger: callback, writer thread,
  destructor, crash, next session. `TransitionLog` is what they promise.
* `Groot2Publisher` – hooks and breakpoints: server, heartbeat, ticking thread,
  destructor.
* `Factory` – registration, substitution rules, loading of documents that include
  one another, verification, creation of trees.

### The tree (BehaviorTree and below)

| Variable | Code |
|---|---|
| `status[n]` | `TreeNode::_p->status` |
| `mem[n]` | the members of n's class; `TreeNode.tla` says which field stands for which |
| `frame[n]` | the locals of n's `tick()` in progress: child being ticked, its prior status, skipped children |
| `pc`, `cur`, `ret` | how far the innermost call is, whose it is, what it returns |
| `ready` | `WakeUpSignal::ready_` |
| `opt` | the `TickOption` of the `tickRoot()` in progress |
| `heard[n]` | no code: what n last answered in the parent's current execution; read by properties, never by a guard |

The callers of a node are its ancestors, so `cur` and `pc` replace a call stack; at
rest `cur` is the root. `Roots` may hold several trees: they share nothing, so a
behaviour uses the one `Init` picks, and one run covers the behaviours of all.
Each class has one action for the stretch of `tick()` before a child's
`executeTick()` (`SequenceTick`) and one for the stretch after it
(`SequenceReply`), which ends in the next child's `executeTick()` (`TickChild`)
or in an answer (`Answer`, `Yield`). Between those, the code runs in one thread
and touches nothing another thread reads, except the wake-up signal. `halt()` of
a whole subtree is one step for the same reason; `HaltedFrom(n)` is the set of
nodes it reaches: from n downwards through RUNNING children, stopping at classes
whose `halt()` does not go on. `haltTree()` is two steps, one per pass, so that
properties can look in between.

Abstractions:

* A callback, script, queue, switch variable or blackboard entry answers freely,
  within the set the tree gives (`Answers`): others write them at any time.
  `IDLE` among a leaf's answers stands for an exception or for an `IDLE` the
  engine rejects.
* Child positions are 1-based; `0` is the code's `-1` ("no running child").
* What a post-condition script computes changes no status; that it may throw, between
  the end of `tick()` and `setStatus()` (`tree_node.cpp:126`), does. `Throwing` are the
  nodes of which a script or an injected callback throws. Ports, names, UIDs and
  subscribers are left out.
* `MaxCount` bounds the skips that a node is left with when a script throws, since
  a `skipped_count_` that is not cleared may grow for ever.
* `waitFor()` is one step; its race with `emitSignal()` is in `WakeUpSignal`.
* `Repeat`/`Retry` with `-1` is in the model (`Loops`) but in no run: the counter
  grows without bound.
* Trees are fixed: the engine cannot change one while it exists. `Parent` and
  `Above` repeat what `Children` says, so that no recursive operator is needed;
  `TreeAssumption` states that they agree, and TLC evaluates it on every run.

### The threads (the other modules)

One action per stretch of code that no other thread can interleave with: a
critical section, a single atomic access, or code that touches only what its own
thread owns. A mutex is a variable only where it is held over several such
stretches (a hook's mutex over `hooks_map_mutex`, an entry's over a script, the
logger's while its writer goes to sleep). A thread is a `pc`, with its locals.

| Module | Variables and the code they stand for |
|---|---|
| TimerQueue | `items` = `m_items` (a set: the heap only serves to find the first); `count`, `unlock` = the semaphore `m_checkWork`; `finish`, `idcounter`; `worker`, `until`, `current` = where `run()` is, for when it waits, what it calls; `now` = the clock; `outcome` = history of the calls |
| TimedNodes | `tree` = where the thread of the tree is; `status`, and of the child; `started`, `signalled` = the two flags each class has; `mutex` = who holds `delay_mutex_`/`timeout_mutex_`; `timer`, `setter`, `endings` = history: the timer of the execution, whose handler set the flag, which executions were ended by which |
| AsyncActions | `main`, `opt` = the thread in `tickRoot()`; `thread[r]`, `result[r]` = the thread of the r-th execution and how its `tick()` ends; `handle` = `thread_handle_`; `halted`, `exptr`, `ready`; `coro` = the execution whose `tick()` the coroutine is in; `answer` = history |
| Blackboard | `storage[b][k]` = the entry `b` knows as `k`; `entry[i]` = value, sequence number, declared type; `bbLock`, `entryLock`; `thread[t]` = the call in progress; `held`; `seen` = `sequence_id_` of an EntryUpdated (with the entry and value it was of, for the properties); `erased`, `raced` = history |
| Numbers | `declared`, `any` = the entry; `written`, `from`, `read` = the last `set()`, its type, and the last `get()` |
| Loggers | `queue` = `transitions_queue_`, `buffer` = what the writer took off it, `written` = the file or table, of which the first `flushed` survive a crash; `change` = callbacks in progress; `first`, `last` = timestamps; `loop`, `life`, `writer`, `session` |
| Groot2Publisher | `hooks`, `preHooks` = `pre_hooks`, `injected` = the callbacks put into nodes; `mapMutex`, `thread[p]`, `ticker`; `active`, `heard`, `hasBeat`; `gone` = Groot2 sends nothing more; `late` = history: hooks changed once the destructor had begun |
| Factory | `builders`, `rules`, `documents`, `treeRoots`, `models`, `path`, `suffix`, `entries`; `call`, `loading`, `pending` = the call in progress with its stack; `tree` = the nodes and boards created so far, the first board being the application's; `repeatable` = history |

Abstractions and exclusions, each of which a property would see if it were lifted:

* Time is discrete and passes only when somebody waits for it. Delays are
  chosen freely up to `MaxDelay`.
* Two `halt()` of one Timeout, one by the tree and one by its timer, may overlap: `halt()`
  takes no mutex. `NoHaltInsideTick` speaks of `tick()`, which does.
* The queue of a LoopNode and its value are different entries.
* `ServerStartsFirst` is TRUE in the run of Groot2Publisher: the server thread is
  scheduled before the destructor starts (a late one would set `active_server` back
  to true). The heartbeat expires only if the delay is longer than a request takes.
* A coroutine that throws ends the process (`minicoro.h:52`): there is no more to see.
* SqliteLogger is not in `DestructorEnds`: its destructor notifies without the
  mutex and sets the flag outside it, so the writer may miss both
  (`bt_sqlite_logger.cpp:76`).
* `Relative = FALSE`: timestamps are those of the system clock, and a new session
  starts after the last one. With relative timestamps two sessions of a
  database meet at the same keys.
* `tickWhileRunning()` is called with a positive sleep time.
* Documents contain no SubTree that contains itself, and one typed port per
  element at most. SubTrees remap, autoremap and set constants, but the default values
  of their models and keys with `@` are left out.

## 3. What the runs check

In the runs of the engine a tree is a table over numbered nodes, 3 to 14 of them. The
state spaces are finite without any bound besides the trees: ticks, halts
and exceptions may follow one another for ever, in any order. The trees are small but
composed so that each class sits both above and below others that yield, skip,
halt or throw; statuses, indexes and counters depend only on a node's children,
so two or three children show every case of a class (first, middle, last).

| Run | Instance | States | Question |
|---|---|---|---|
| `sequences` | Fallback over AsyncSequence and Sequence with pre-conditions, `pre_tick` and `post_tick`; AsyncFallback over SequenceWithMemory and Inverter; Repeat, Retry, Inverter, ForceFailure, SubTree, AsyncFallback; a ParallelAll; all sources of exceptions in `tick()` under a Fallback, `throw_if_multiple_running` set; scripts that throw at seven nodes of the four trees | 49,140 | Do nodes whose work is spread over ticks answer what their children's answers ask for, repeat nobody and start afresh; does every `tickOnce()` return; is a RUNNING tree never abandoned; is the tree usable after an exception left `tickRoot()`? |
| `branches` | ReactiveSequence over ReactiveFallback and AsyncSequence, with a waker thread; Parallel (negative thresholds) over ParallelAll; WhileDoElse over IfThenElse and Switch; ReactiveSequence over RunOnce, Precondition, WaitValueUpdate, SimpleDecorator, KeepRunningUntilFailure, LoopNode; scripts that throw at two nodes | 95,320 | Whatever is halted when: thresholds, one RUNNING child per reactive node, nothing RUNNING out of reach, RunOnce stays done |
| `timers` | one node of each of the four kinds; 2 executions, delays up to 2, 2 pending notifications | 302,457 | Does the queue keep its promise, and which callbacks end which execution? |
| `threads` | either kind of action, 3 executions, all options of `tickRoot()` | 32,681 | Do two executions meet; does the tree wake up? |
| `blackboard` | 3 boards, 5 keys (remapped, autoremapped, private, constant, `@`), 2 threads that both set, 2 writes | 184,928 | Is a name one entry, is a change seen, is a type kept, what may keep a call? |
| `numbers` | integers of 2, 4, 6 bits, floats of 2, 4 digits, values by halves from -6 to 6 and around ±16, ±32 and 64 | 19,573 | Is a number read as it was written, or refused? |
| `loggers` | 2 nodes, either logger, 3 records in the queue and file, 3 instants, 2 sessions, a crash at any time | 368,082 | Is every transition written once and in order; does the destructor end? |
| `groot2` | 1 node, 2 hooks, 3 requests, 3 kinds of client: lost at a hook that removes itself, disabling and removing, answers used once | 197,720 | What may stop a tick, or the destructor, for ever? |
| `factory` | 7 documents in 2 directories, SubTrees that remap, autoremap and set constants, 2 keys, loads begun while fewer than 2 are open, 2 changes of the registry or the rules, 16 UIDs | 244,551 | Do documents and trees depend on what was loaded or created before? |
| `updated_halt` | SkipUnlessUpdated over a StatefulAction | | expected violation, see below |
| `stale_condition` | IfThenElse with two children under a Fallback, its condition asynchronous | | expected violation, see below |
| `thread_exception` | as `threads` | | expected violation, see below |

Why these bounds: a hazard of the timed nodes and of the threaded action takes one
execution that was left and one that goes on (a third for the action, whose first
thread may still have to signal when the second is over); a lock order takes two
threads; a lost or doubled record takes one in the queue, one in the writer's buffer and
one on its way; a hook takes one that is replaced and one that replaces it, and the
requests to insert, to unlock or remove, and to insert again. Integers keep the proportions
that decide: floats have fewer digits than the widest integer has bits, and more than
the narrower one has. Where time, writes, requests or documents are used up, the
system really stops: those runs do not check for deadlock, and have liveness
properties instead.

### Properties of the tree

* `AnswersFollowChildren` – the answer of a control node is the one its class
  promises for what the children answered in this execution, over all the ticks
  it took. It is the abstract contract of the control nodes, stated without
  index, counter or list, and catches any member that outlives its execution. A Sequence
  or Fallback whose script may throw after `tick()` is not held to count its skips
  (`Miscounts`, see below), but everything else its class promises.
* `CompletedChildNotRepeated` – a class that remembers never executes a completed
  child again in the same execution.
* `TickedNodeIsReset` – nobody ticks a node whose status is SUCCESS or FAILURE. Two
  conditions are exempt (`KeptCondition`): that of a WhileDoElse, which is asked anew
  at every tick, and that of an IfThenElse without a third child, see below; so are
  the nodes that a throwing script leaves completed (`LeftCompleted`, see below).
* `RunningHasRunningParent` – a RUNNING node below a node that is not RUNNING
  cannot be reached by any halt. For the classes that set themselves RUNNING
  first and reset their children last (`Disciplined`) this never happens.
* `HaltReachesRunning` – after the first pass of `haltTree()` nothing is RUNNING.
* `ReactiveRunsOne` – one RUNNING child per reactive node between ticks.
* `NoLeftovers` – a node that is not RUNNING and not on call has its members as
  at the start: `resetStatus()` does not touch them, so somebody did before.
* `ExecutedOnlyOnce` – (action property) RunOnce.
* `BusyOrWoken` – when the root answers RUNNING there is a RUNNING leaf or a
  pending wake-up signal: the tree does not stall with nobody at work.
* `TickReturns` – (liveness) `tickOnce()` and `tickExactlyOnce()` return although
  asynchronous nodes emit the signal that keeps the inner loop going.

### Properties of the threads

* `HandlersExecutedOnce` – (refinement) TimedNodes with its TimerQueue implements
  `TimerService`: each handler is called at most once, by its time or, once it was
  cancelled, aborted; and it is called, unless the queue is destroyed first
  (`Served`). `NoHandlerLost` says where it is meanwhile.
* `NoMissedDeadline` – the worker does not sleep past the first item: `add()` and
  `cancel()` come between `calcWaitTime()` and the wait.
* `NoHaltInsideTick` – the timer of a Timeout never halts the child inside its tick.
* `NotEarly` – what ends a delay or timeout is a handler that was called since it began:
  of its own timer, executed in time, or the late one of an earlier execution, which only
  one that left its timer behind (by a halt, or because its child had completed) has. That
  second case is real, see below; the property says that nothing else is early, in any
  execution.
* `RunningEnds`, `DestructorEnds` – (liveness) a delay ends or is halted; the
  queue's `join()` returns.
* `OneTick` – the threads of two executions of a ThreadedAction never overlap.
* `AnswersOwnExecution` – when the root answers SUCCESS or FAILURE, `tick()` of the present
  execution has ended so: not the thread of a halted one, nor its coroutine where it
  was left.
* `TickWhileRunningEnds` – (liveness) lost wake-ups only cost time: the timeout of
  `sleep()` makes up for them.
* `RemappingKept` – a subtree's board stores no key that belongs to its parent.
* `WrittenIsFound` – what `set()` writes is what a `get()` of that key finds,
  although `set()` gives the mutex up between looking and creating.
* `NoChangeMissed` – EntryUpdated, which remembers a number and not the entry, sees every
  change made by any thread; except that of a key unset and set again, and on an entry
  two writes of which counted as one, see below.
* `DeclaredTypeKept` – (action property) a declared type never changes.
* `CallsReturn` – (liveness) a call returns, unless `set()` of one thread and a script or
  locked pointer of another have each taken the mutex that the other waits for
  (`LockInversion`, see below): nothing else keeps a call for ever.
* `FitsDeclaredType`, `ReadIsWritten` – numbers are stored in range, and read as
  written or refused. Both except one number, and only where it was written as a floating
  point value whose type cannot tell it from the largest number of an integer type
  (`TakenForLargest`): the power of two above it. That is 2^63 and 2^64, and for a float
  2^31 and 2^32 of an entry that declares 32 bits; every other limit is checked on both sides.
* `WrittenInOrder` – (refinement) Loggers implements `TransitionLog`: records are
  written once each, in order, and only a destructor or a crash loses any, at the tail;
  a crash none that was flushed.
* `KeysUnique` – SqliteLogger never inserts a timestamp (its primary key) twice.
* `DestructorEnds` of Loggers – (liveness) FileLogger2's destructor returns.
* `StoppedAtLiveBreakpoint` – a tick sleeps only at a breakpoint somebody can
  still release. `LossReleasesTick`, `DestructorReturns` – (liveness) a tick gets out of its
  hook when Groot2 is lost, and the destructor returns, unless a tick that removes its hook
  meets a thread that enables or disables all (`LockInversion`, see below).
  `NothingLeft` – the destructor leaves no callback but those that a request served
  while it ran has inserted or changed (`late`), to which the other two make no promise either.
* `IncludesAreRelative` – a relative path is looked up beside its document.
* `UidsAndPathsUnique` – two nodes of a tree differ in UID, and in path unless the
  document names them both, and the SubTrees they are in if there are two.
* `CreationRepeatable` – a tree that could be created once can be created again,
  through whichever SubTrees the ports of other trees lead to the same blackboard.

### Fairness

Nobody is obliged to call `tickRoot()`, `halt()` or `set()`, to destroy anything, or to
lose a connection. A thread in the middle of a call goes on:

* BehaviorTree: `WF_vars(CallStep)`. Leaves' callbacks return, as the engine asks
  of them; in the run of `TickReturns` no other thread emits signals, since one
  that emits for ever keeps `tickOnce()` going for ever, as its inner loop says.
* TimedNodes, AsyncActions, Loggers: weak fairness of each thread and of the
  clock. A thread that waits for a mutex others keep taking (`Lock`, `Relock`,
  `Callback`) needs strong fairness: it holds of the operating systems' mutexes in
  practice, though the C++ standard does not promise it.
* Blackboard, Groot2Publisher: strong fairness of each thread, for the same reason; and a
  heartbeat that is not renewed expires.

`TimerService` states by `Served` that handlers are called, which follows from the
fairness of the worker. `TransitionLog` states weak fairness of
`Write`, so its refinement includes that the writer goes on writing.

### Where a comment and the code disagree

Three runs show a disagreement:

| Run | The code | The comment |
|---|---|---|
| `updated_halt` | `EntryUpdatedDecorator::halt()` does not halt the child: it is RUNNING after the first pass | "this should be no-op" (`bt_factory.cpp:499`) |
| `stale_condition` | with two children IfThenElse returns FAILURE without `resetChildren()` (`if_then_else_node.cpp:60`): the condition keeps its FAILURE, and an asynchronous one answers it again without starting | "This is equivalent to add AlwaysFailure as 3rd child" (`if_then_else_node.h:31`) |
| `thread_exception` | the catch block calls `setStatus(IDLE)`, which throws: the action stays RUNNING, and the signal is not emitted | "Set the exception pointer and the status atomically" (`action_node.cpp:212`) |

Others were met while reading and are modelled as the code has them. A skipped
composite keeps status RUNNING ("preserve the IDLE state if skipped", `tree_node.cpp:140`).
WhileDoElse ticks a completed condition (`action_node.h:26`), and a RUNNING
condition beside a RUNNING branch (`parallel_node.h:26` calls Parallel the only
one that can have several children RUNNING). `skipped_count_` of Sequence and Fallback is set
back at the start of a tick only if the node is IDLE (`fallback_node.cpp:31`), and not
when a child decides (`fallback_node.cpp:52`). A WhileDoElse does not reset its condition,
so a Fallback there that skipped its first child and succeeded with the second counts
that skip again: WhileDoElse(Fallback(A, B), StatefulAction), A skipped, B successful
and the action RUNNING, then A failed and B skipped, makes two skips of two
children and the answer SKIPPED though A failed. A SequenceWithMemory that
resumes with only skipped children left answers SUCCESS with nobody successful in
this execution. `AnswersFollowChildren` holds of the trees of its runs, which have
neither, and section 4 proves it of every tree that has neither. `_children_running` of
Precondition survives a halt and a skipped child (`script_precondition.h:51`).
ReactiveFallback returns at the first RUNNING child (`reactive_fallback.h:23` says it
continues). ParallelAll fails at `max_failures` failures, not above
(`parallel_all_node.h:41`).

The rest has to do with exceptions, threads and destructors. The properties named are
true of the code only with these cases left out; each says so in its definition, by a
condition that holds of these cases alone.

* **A script that throws after `tick()`** (`tree_node.cpp:126`) comes before `setStatus()`.
  A Sequence or Fallback that a child has decided then stays RUNNING, or completed, with its
  `skipped_count_`: Fallback(A, B), A skipped, B successful and `onSuccess` throwing, then
  A failed and B skipped, answers SKIPPED though A failed (`Miscounts`, in
  `AnswersFollowChildren`). A SimpleActionNode, which sets its status itself, and the child
  of a decorator, which is reset last, are left completed (`LeftCompleted`, in
  `TickedNodeIsReset`).
* **The late handler of a timed node.** The handler of a node that was halted, or of a
  Timeout whose child has completed, may be on its way when its timer is cancelled, or not
  be cancelled at all; it then writes the flag of the next execution, and ends that one
  before its time (`sleep_node.cpp:33`, `delay_node.cpp:52`). Even an aborted handler ends a Sleep, which
  clears `timer_waiting_` in any case (`LeftTimerBehind`, in `NotEarly`).
* **The destructor of TimerQueue.** "All handlers are executed ONCE ... If TimerQueue is
  destroyed, it will cancel all handlers" (`timer_queue.h:64`): the worker leaves its loop as
  soon as it sees `m_finish` (`timer_queue.h:177`), with items whose handlers are never
  called, against the assertion that follows (`timer_queue.h:199`). `TimerService` asks for
  each handler to be called unless the queue is being destroyed (`Served`).
* **EntryUpdated remembers a number** (`updated_action.cpp:44`). A key that is unset and set
  again has a new entry, which counts from 1: if that is the number it saw, the change is
  missed (`erased`, in `NoChangeMissed`). The `sequence_id++` of a new entry
  (`blackboard.h:234`) is under another mutex than that of an entry found, so two writes may
  count as one (`raced`).
* **Two orders of locking in the blackboard.** `set()` keeps the board's mutex and waits for
  that of the entry (`blackboard.h:242`); a script keeps the entry's and asks for the board's
  (`operators.hpp:545`, `blackboard.cpp:55`), and so does a node that sets a port while it
  keeps another locked, as LoopNode does. Two threads can wait for each other for
  ever (`LockInversion`, in `CallsReturn`).
* **Two orders of locking in Groot2Publisher.** The callback of a hook that removes itself
  keeps the hook's mutex and asks for that of the map (`groot2_publisher.cpp:554`, `584`);
  `enableAllHooks()` does the reverse (`groot2_publisher.cpp:483`, `486`). The tick, and a
  destructor that joins the other thread, wait for ever (`LockInversion`, in
  `LossReleasesTick` and `DestructorReturns`). The server goes on serving after
  `removeAllHooks()` until it sees `active_server` cleared (`groot2_publisher.cpp:177`):
  hooks it inserts meanwhile outlive the publisher whose mutex they use (`late`, in
  `NothingLeft`).
* **The largest number of a type as a floating point value.** An entry of type uint64 takes
  2^63 written as a double for INT64_MAX, which compares equal to it, and casts it out of
  range; so it is with 2^64, and with a float and types of 32 bits (`TakenForLargest`).
* **ThreadedAction and CoroActionNode.** The exception of a halted execution stays in
  `exptr_` and is thrown by the next one (`action_node.cpp:222`). A CoroActionNode whose
  `tick()` returns RUNNING without yielding is RUNNING with no coroutine, and starts from
  the beginning at the next tick (`action_node.cpp:116`). `AsyncActions` models both; no
  property forbids them.

## 4. What is proved

Every theorem holds for every value of the constants that satisfies the assumptions
of the modules: any number of nodes, timers, hooks, executions or records. The
assumptions say what type a constant has and, for the tree, that it is one:
`TreeAssumption` and `PathAssumption` (`Parent` and `Above` agree with `Children`; the
nodes above a node are ordered), `KindAssumption` (a decorator has one child, and so
on, as the constructors and the XML parser demand), `CallbackAssumption`,
`AnswersAssumption`, `LimitAssumption`, `OtherwiseAssumption`, `WakersAssumption`
for the engine; `TimersAssumption`, `KindsAssumption`, `CountAssumption` for the
timers; `RunsAssumption`, `ActionKindsAssumption`, `OutcomesAssumption` for the
actions; `LoggersAssumption`; `ClientsAssumption` and `BoundsAssumption` for Groot2;
`BoardsAssumption` (no board is its own ancestor), `KeysAssumption` and
`CallsAssumption` for the blackboards; `FactoryAssumption`.
TLC evaluates each of them on every run of its module. Hypotheses that go further are
in the statement of the theorem, and named below.

### The engine: `BehaviorTreeProofs`, `ExecutionProofs`

* `TypeCorrect == Spec => []TypeOK`. Besides the types, the indexes control nodes
  keep (`current_child_idx_`, `child_idx_`, `running_child_`) and the position of
  the child being ticked are positions of children the node has: no
  `children_nodes_[i]` is out of range, after any halts and exceptions. `TypeOK`
  is inductive as it stands: its conjunct `IndexOK` is the strengthening.
* `ChildrenInReach == Spec => []RunningHasRunningParent`. The property says too
  little to be inductive: a node halted by its grandparent must have been in reach
  from there, and a parent may answer only once its children are reset. `HaltInv` adds:
  a RUNNING node has RUNNING nodes above it as far up as classes are disciplined
  (`RunningReached`, which speaks of all ancestors and not of the parent only, since
  `haltNode()` of any of them has to get down to the node); the disciplined callers of
  the call in progress have set themselves RUNNING (`CallersRun`); a disciplined node
  that has completed has no RUNNING child (`AnsweredIsDone`); a loop never starts
  a tick with its rounds used up (`RoundsLeft`, without which it would answer
  without ticking the child it left RUNNING); one tree is in use (`InUse`).
* `HaltNodeReaches` – `haltNode()` of any node in any reachable state leaves nothing
  RUNNING below it in reach: what `resetChildren()` and `haltChild()` are for.
* `HaltReachesAll` – after the first pass of `haltTree()` nothing is RUNNING, if every
  parent in the tree is disciplined. The hypothesis excludes the classes of which it is false or
  depends on the children: SkipUnlessUpdated and WaitValueUpdate (run `updated_halt`),
  SubTree, Switch, RunOnce, Precondition, LoopNode, SequenceWithMemory, and parents
  whose answer a callback replaces.
* `RunOnceRunsOnce == Spec => ExecutedOnlyOnce`, in any tree.

* `StartsFromTheBeginning` (`NoLeftovers`), `NotRepeated` (`CompletedChildNotRepeated`) and
  `TickedAfterReset` follow from `ExecutionInvariant == Spec => []ExecInv`, which holds
  of every tree with callbacks and exceptions. `ExecInv` strengthens `HaltInv` in three
  ways. A node that is not RUNNING starts from the beginning (`FreshIdle`), which a step
  can only keep if the answer already found the members cleared (`FreshAnswer`) and the
  callers of the call in progress are RUNNING (`AtWork`: an exception leaves their
  members as they are, and their status too). A child that has answered for good is
  behind its parent or about to be (`Told`), which needs that each caller waits for a
  child that is not behind it (`AtChild`) and that what it hears is what the child is
  (`Real`). A child whose status is completed is behind its parent, or about to be reset
  (`Cleared`, `RootCleared`).
  Hypotheses: for `NoLeftovers`, that no injected callback answers in place of a
  node with members of its own, since such an answer completes the node and passes over
  the code that clears them; for `CompletedChildNotRepeated`, that `post_tick` does
  not replace the answer of a SequenceWithMemory, whose index stays after a FAILURE that
  the callback turns into a SUCCESS. Both are constants of the tree.
* `ReactiveNodesRunOne` (`ReactiveRunsOne`) and `TickedNodesAreReset` (`TickedNodeIsReset`)
  hold of every tree in the behaviours in which no exception leaves `tickRoot()`
  (`[][~Thrown]_vars`); `OrderInvariant` is their inductive invariant: the children a
  reactive node has passed in this tick do not run, those after the one it waits for
  have not completed. An exception stops a reactive node half way, with a
  completed child it would have reset and a RUNNING one it would have halted;
  `TickedAfterReset` says that only the children of reactive nodes, those of SimpleDecorators
  whose functor throws, and what a script that throws after `tick()` leaves completed
  (`LeftCompleted`) are then ticked as they are.
* `AnswersFollow` (`AnswersFollowChildren`): what a control node answers is what its
  children's answers of this execution call for. `AnswerInv` says what the members of a
  class stand for (`Ledgers`: before the index everybody has answered what lets the node
  go on, the counter of skipped children is the number of those before the index,
  `completed_list_`, `success_count_` and `failure_count_` hold children that answered so)
  and what the locals of a `tick()` in progress do (`Tallies`). A ledger is closed when
  the node answers for good (`Blank`), and the next execution opens a new one only if the
  node was reset (`WasReset`): the code clears `skipped_count_` at the start of a tick
  with status IDLE, not when a child decides. That is the one fact the proof takes from
  outside the node. `AnswersOfReset` has it as its hypothesis `[]CountersReset`;
  `AnswersFollow` gets it from `TickedNodesAreReset` where no exception leaves
  `tickRoot()`, and `AnswersFollowExceptions` from `TickedAfterReset`, with any
  exceptions of callbacks and scripts, before or after `tick()`, where no Sequence or Fallback
  is the child of a node that an exception takes past its `resetChildren()`. A Sequence or
  Fallback whose own script throws after `tick()`, or whose parent's does, is in the
  theorem too, but is not held to count its skips (`Miscounts`): the property itself
  leaves that open, since it is false of the code (section 3).
  Hypothesis on the tree, `Accountable(n)` for each node. Its four parts
  are the cases in which the property is false of the code: a callback that answers for
  a node with members (they stay as they are); a Sequence or Fallback as the kept
  condition of a WhileDoElse or a two-child IfThenElse, which nobody resets (section 3); a
  SequenceWithMemory that may be skipped, or has no child of which it is certain that it
  is not, since it resumes with a count of 0 (section 3); a Parallel with
  `failure_count` 0, which compares the failures with the threshold by `==` after each
  child. The trees of both runs satisfy it.

* `WholeSubtreesUnskipped` – `Unskippable` is the largest set of nodes closed under
  children of which none answers SKIPPED by itself (as a leaf, by a pre-condition or an
  `else` attribute, or as a SkipUnlessUpdated). Nobody else makes a SKIPPED: `SkipInv` says
  that those nodes have not been skipped, that no parent with such children has counted a
  skip (`CountsNoSkips`: an Inverter passes a SKIPPED on, and a Sequence answers it when its
  count has reached the number of its children), and that what a RunOnce returns again was
  an answer for good (`Returned`). It holds of every tree.
* `ProgressIsMade` (`BusyOrWoken`) – `BusyInv`: where RUNNING is the answer, a leaf of the
  subtree that gives it is RUNNING, or the signal of a node that gave the control back is
  pending (`Answered`). The parallel nodes answer RUNNING after all their children, hence
  `AllAsked`: of the children asked in this tick one is busy, or those in none of the lists
  were skipped in this tick; and `AllListed`, that the lists are of children. A step of one
  child disturbs no leaf of another (`Apart`, `ShapeElsewhere`), so that the busy one stays
  so until its parent answers.
  Hypothesis, `Wakeful(n)` for each node, which leaves out the nodes that answer RUNNING
  by themselves and of which the property is false: WaitValueUpdate,
  KeepRunningUntilFailure, LoopNode, a SimpleDecorator whose functor returns RUNNING, a
  Precondition whose `else` is RUNNING, and a Parallel that asks for a fixed number of
  successes while its children may be skipped: with all the others done it answers RUNNING
  for ever. If they are `Unskippable`, the proof shows that this does not happen. The
  trees of `sequences` satisfy it.

The argument goes from helpers to actions. In `BehaviorTreeProofs`: `HaltOK`,
`ResetChildrenOK`, `RememberOK` for steps that change members, `TickChildOK`,
`AnswerOK`, `ThrowOK` for moves between nodes, one lemma per action, `NextOK`. Its
second part, about halting, brings the steps of all classes under one description
(`StatusShape`: statuses change by a reset of some children, and the node sets itself
RUNNING or stays as it is), proved class by class; the invariant is then preserved
by the shape, not by each of the thirty actions. `ExecutionProofs` does the same with a
finer description, `Own`: what a `tick()` does to the other nodes (`Others`: a halt
clears a node and what it knew of its children together), what it makes of its own
members (`StartsAfresh`, `Remembers`), and what of the child that has just answered
(`ClearsChild`). Its last part keeps the ledgers of the nodes a step does not touch by
`Others` (a node whose children are reset is reset with them), and those of the node
at work class by class.

### The threads

* `TimedNodesProofs`, inductive invariant `NodeInv`, with `QueueInv` for the queue.
  `HandlersNotLost`, `DeadlinesMet`, `TimeoutHaltsBetweenTicks` and `EndsNotEarly` state
  the four invariants of the run; `QueueServes` is the refinement: initial states of
  TimedNodes are initial states of `TimerService`, and each step one of its steps or a
  stutter. `QueueInv` says where a handler is (in one item, under its own
  id or 0 once cancelled, or called) and bounds `end` by the delays so far. `NodeInv` adds who
  holds the node's mutex, and what the flag means while it is read (`FlagJustified`): its
  setter was called, and was the timer of this execution or one of an execution that left
  its timer behind; so it is with all executions that were ended (`EndingsJustified`).
  `EndsNotEarly` speaks of every execution, those after a halted one included. `QueueServes`
  is the safety part of the refinement; that handlers are called (`Served`) is left to TLC.
* `AsyncActionsProofs`, `ActionInv`: `OneTickAtATime` and `AnswersAreOwn` (`AnswersOwnExecution`). Two
  threads never overlap because every thread but that of `thread_handle_` is over
  (`OthersOver`), and that one is waited for before it is replaced. A coroutine, as long as
  there is one, is that of the last execution (`StatusOfLast`): `halt()` destroys it, and so
  does a `tick()` that returns, whatever it returns.
* `Groot2PublisherProofs`, `HookInv`: `NoTickForgotten`, `NothingIsLeft`. A hook that a node
  still calls is in `pre_hooks` or in the hands of a thread about to disable it
  (`CalledIsReachable`); what a sleeping tick waits for was false when it went to sleep,
  and every change notifies (`AsleepIsStopped`). Once the destructor has removed the hooks,
  those that there are again come from requests served since (`late`). Hypothesis `Usage`:
  Groot2 inserts hooks that are enabled. Without it the property is
  false: `HOOK_INSERT` with `enabled` false for a breakpoint that exists disables it
  without waking up who sleeps there (`groot2_publisher.cpp:312`).
* `LoggersProofs`, `LoggerInv` and `KeyInv`: `TimestampsAreKeys` (hypothesis `~Relative`)
  and `WritesTheLog`, which shows that each step is a step of `TransitionLog` or a
  stutter. The timestamps of records written, in the writer's buffer and in
  the queue grow, and those of older sessions are older than any change on its way.

`TypeCorrect`, `TimedNodeTypeCorrect`, `ActionTypeCorrect`, `HooksTypeCorrect` and
`LoggerTypeCorrect` state type correctness of the five.

### The blackboards

`BlackboardProofs` states the four safety properties of the run for every hierarchy of
boards, any remapping and any number of threads.

* Where a key leads (`Target`) is a recursive function over places. `ChainFunction` shows
  that such a function exists wherever the successor of a place is well-founded, and
  `SearchEnds` that this one is: the parent's board is nearer to the root, and "@k"
  goes to the root once. From there the proofs use the equation only, with
  arguments by a minimal counterexample: `EndIsFinal` (a search ends where the
  remapping does not lead on) and `SearchKept` (creating or erasing an entry elsewhere
  changes no search that ends here).
* `BlackboardInvariant`: types. Ids fit because the calls that may still create
  an entry are counted with those that did (`Counted`).
* `RemappingIsKept` (`RemappingKept`) – an entry is created where a search ends.
* `WrittenFound` (`WrittenIsFound`) – `WrittenInv` follows a call of `set()` from
  `createEntryImpl()` to its end, and adds that its key has no "@". Hypothesis
  `PlainRemap`: no board maps a key to "@k". It is needed: for a SubTree port with the
  value `{@k}`, `getEntry()` of the parent looks up `k` in the root
  (`blackboard.cpp:50`), while `createEntryImpl()` of the parent is given the name "@k"
  and creates an entry with that name there (`blackboard.cpp:244`): what is written through
  the port when `k` does not exist is not found through the port. No test maps a port so.
* `NoChangeIsMissed` (`NoChangeMissed`) – for any number of threads that set, unset and run
  scripts. The node keeps a number only; the entry it was read from is part of the history in
  the model. `SeenInv`: the number seen is at most that of its entry, and the same number is
  the same value, unless an increment was lost (`raced`). `SeenIsFound`: that entry is the
  one the key leads to, unless it was `erased`. The two exceptions are what the code does
  not see (section 3).
* `DeclaredTypeStays` (`DeclaredTypeKept`).

### The factory

`FactoryProofs` states the three invariants of the run for any documents, types, rules
and SubTrees, through all exceptions while loading or creating, without further
hypotheses (`FactoryAssumption`: documents refer to elements there are, an element
remaps at most one port to an entry).

* `RelativeIncludes` (`IncludesAreRelative`) – `PathsInv`: each document on the stack goes
  on in the directory of the one below it.
* `NodesAreToldApart` (`UidsAndPathsUnique`) – `UniqueInv`, as long as there are UIDs left:
  the label of a node is a name of the document or bears its UID, and so is that of a
  SubTree (`PlacesInv`, which speaks of the elements still to visit too: the nodes of a
  SubTree come later).
* `CreatedAgain` (`CreationRepeatable`) – what a creation does depends on a point it has
  come to (`Point`: what is still to be visited, with the home of each key of a SubTree, and
  the boards of the SubTrees) and on the entries of the application's blackboard, where more
  and more is declared, from inside SubTrees too if they remap to it. A creation that
  succeeded leaves a set of points, each of which passes with the entries there are now and
  leads to another of the set (`Closed`), down to one with nothing left to visit. Entries
  only grow (`EntriesGrow`), so that the set stays closed whatever other creations do, and
  the next creation of that tree cannot leave it (`RepeatInv`).

### Only model-checked

* Liveness: `TickReturns`, `RunningEnds`, `TickWhileRunningEnds`, `CallsReturn`, the
  `DestructorEnds`, `LossReleasesTick`, `DestructorReturns`, of `HandlersExecutedOnce` the
  liveness (`Served`), and of `WrittenInOrder` the fairness of `Write`. The prover has no reasoning about ENABLED.
* `Numbers`: its widths and exponents are powers of two, of which none of the provers
  knows anything.

No module uses a RECURSIVE operator.

## 5. What is not modelled, and the plan

Not modelled, by component:

* **Blackboard**: `cloneInto`, `clear`, `getStamped`, debug output, JSON; backup and
  restore of a tree's blackboards.
* **Groot2**: recording, the status buffer and the dumps. They change nothing by which
  another thread decides.
* **Loggers**: console and minitrace print; TreeObserver counts.
* **Queue nodes**: PopFromQueue is a SyncActionNode to the tree; ConsumeQueue is
  deprecated for LoopNode, which is modelled.
* **Factory**: patterns over paths in substitution rules, default values of ports,
  scripting enums, plugins, writing of XML and models.
* **Scripts, types, JSON, demangling**: the grammar and the operators on values are
  functions from data to data. The assignment, with its locks, is in `Blackboard`;
  numeric conversions are in `Numbers`.
* **ManualSelector** is a terminal interface, **shared libraries** are the
  operating system's.
* **Vendored code** (`contrib/json.hpp`, `contrib/expected.hpp`,
  `contrib/magic_enum.hpp`, `loggers/zmq.hpp`, `3rdparty/`), more than half of
  the lines, is third-party; tools, examples and tests use the library.
* Trees in which user code throws from `halt()`, and a user who calls into one
  tree from two threads, which the engine forbids.

Every part of the plan that was laid out for this project is done. What could come
next: the grammar of scripts as a function checked against a reference.
