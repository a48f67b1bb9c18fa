--------------------------- MODULE TimedNodesProofs ---------------------------
(***************************************************************************)
(* A TimerQueue and the node that owns it, for any number of timers, any   *)
(* delays and any answers of the child: handlers are called once, in time, *)
(* and act on their own execution only.                                    *)
(***************************************************************************)
EXTENDS TimedNodes, FiniteSetTheorems, TLAPS

-------------------------------------------------------------------------------
(* The inductive invariant: the queue                                      *)

\* No timer ends later than the delays of the timers so far allow.
Latest == 1 + idcounter * MaxDelay

TimesBounded == now <= Latest /\ \A i \in items : i.end <= Latest

\* A handler that is still to be called is in one item, under its own id, or under 0
\* once it was cancelled.
HandlersKept ==
    /\ \A i \in WithHandler :
         /\ i.handler <= idcounter /\ i.id \in {0, i.handler}
         /\ outcome[i.handler] = "none"
    /\ \A i, j \in WithHandler : i.handler = j.handler => i = j
    /\ \A h \in 1 .. idcounter : outcome[h] = "none" => \E i \in items : i.handler = h
    /\ \A h \in Handler : h > idcounter => outcome[h] = "none"

\* The handler being called is one that was taken off the queue.
CallInProgress ==
    worker \in {"call", "halting"} =>
        /\ current.handler \in 1 .. idcounter
        /\ outcome[current.handler] = IF current.aborted THEN "aborted" ELSE "executed"

\* manualUnlock() finds the worker gone or with a notification left: waitUntil() never
\* takes one off a count of 0.
ShutdownNotified ==
    /\ finish <=> tree \in {"cancel_all", "unlock", "join", "gone"}
    /\ unlock => tree \in {"join", "gone"}
    /\ tree \in {"unlock", "join", "gone"} /\ worker \in {"calc", "wait"} => count > 0

QueueInv ==
    /\ QueueTypeOK /\ TimesBounded /\ HandlersKept /\ CallInProgress /\ NoMissedDeadline

-------------------------------------------------------------------------------
(* The inductive invariant: the node                                       *)

\* The mutex of a decorator is held while its child is ticked, and while the timer
\* halts it.
MutexOwned ==
    /\ mutex = "tree" <=> tree = "child"
    /\ mutex = "worker" <=> worker = "halting"

\* The flag of the delay or timeout is read in this state or after a tick of the tree.
Watching ==
    \/ isAction /\ status = "RUNNING" /\ tree = "rest"
    \/ ~isAction /\ started /\ tree \in {"rest", "lock", "child"}
    \/ kind = "Timeout" /\ tree = "add"

Live == Watching \/ tree = "add"

Pending(h) == worker = "call" /\ current.handler = h
Called(h) == h \in 1 .. idcounter /\ outcome[h] # "none" /\ ~Pending(h)

\* The handler that ended an execution was called, and will not be called again.  If it was
\* not the execution's own, that of the handler is past, and was not ended by it.
EndingsJustified ==
    \A e \in endings :
        /\ Called(e.by)
        /\ e.by = e.of \/ kind # "Sleep" => outcome[e.by] = "executed"
        /\ e.by # e.of => e.by # timer /\ LeftTimerBehind(e.by)

\* The same of the handler that set the flag, as long as the flag may end the execution.
FlagJustified ==
    Live /\ signalled =>
        /\ Called(setter)
        /\ setter = timer \/ kind # "Sleep" => outcome[setter] = "executed"
        /\ setter # timer => LeftTimerBehind(setter)

\* Timers are numbered by idcounter.
TimerNumbered ==
    /\ timer <= idcounter
    /\ tree = "add" => timer = 0
    /\ isAction /\ Watching => timer = idcounter

\* A Sleep that is RUNNING has not been cancelled.
SleepNotCancelled ==
    kind = "Sleep" /\ status = "RUNNING" /\ tree \in {"rest", "halting"} =>
        /\ outcome[idcounter] # "aborted"
        /\ \A i \in WithHandler : i.handler = idcounter => i.id # 0

ExecutionsNumbered ==
    kind # "Timeout" /\ tree # "add" /\ (started \/ status = "RUNNING") => idcounter > 0

\* A decorator is in the rest of its tick only after it set started.
StartedInTick ==
    /\ started => ~isAction
    /\ tree = "add" => (started <=> ~isAction)
    /\ tree \in {"lock", "child"} => started
    /\ tree \in {"cancel", "relock", "halting", "halt_child"} => ~started

NodeInv ==
    /\ NodeTypeOK /\ QueueInv /\ ShutdownNotified /\ MutexOwned
    /\ EndingsJustified /\ FlagJustified /\ TimerNumbered
    /\ SleepNotCancelled /\ ExecutionsNumbered /\ StartedInTick

-------------------------------------------------------------------------------
(* The operations of the queue                                             *)

USE DEF Handler, history

\* The times timers may end at grow with their number, up to the horizon.
LEMMA LatestGrows ==
    ASSUME NEW n \in 0 .. MaxTimers
    PROVE  /\ n * MaxDelay \in Nat
           /\ 1 + (n + 1) * MaxDelay = 1 + n * MaxDelay + MaxDelay
           /\ 1 + n * MaxDelay \in 1 .. Horizon
<1>1. MaxTimers - n \in Nat /\ n \in Nat /\ MaxTimers \in Nat /\ MaxDelay \in Nat
  BY TimersAssumption
<1>2. (MaxTimers - n) * MaxDelay \in Nat /\ n * MaxDelay \in Nat
  BY <1>1
<1>3. MaxTimers * MaxDelay = (MaxTimers - n) * MaxDelay + n * MaxDelay
  BY <1>1
<1>. QED
  BY <1>1, <1>2, <1>3 DEF Horizon

\* The bounds of the times are natural numbers, and Latest is below the horizon.
LEMMA TimesOK ==
    ASSUME QueueTypeOK
    PROVE  /\ Horizon \in Nat \ {0} /\ NoTimer = Horizon + 1
           /\ Latest \in 1 .. Horizon
<1>1. 0 \in 0 .. MaxTimers /\ idcounter \in 0 .. MaxTimers
  BY TimersAssumption DEF QueueTypeOK
<1>2. 1 + 0 * MaxDelay \in 1 .. Horizon
  BY <1>1, LatestGrows
<1>3. Horizon \in Int
  BY TimersAssumption DEF Horizon
<1>4. Latest \in 1 .. Horizon
  BY <1>1, LatestGrows DEF Latest
<1>. QED
  BY <1>2, <1>3, <1>4 DEF NoTimer

\* The conjuncts that a step which leaves the items alone keeps.
LEMMA SameItems ==
    ASSUME QueueInv, QueueTypeOK', UNCHANGED <<items, idcounter, outcome>>,
           now' = now \/ ((\E i \in items : i.end > now) /\ now' = now + 1)
    PROVE  TimesBounded' /\ HandlersKept'
<1>1. TimesBounded'
  BY TimersAssumption, LatestGrows
     DEF QueueInv, TimesBounded, QueueTypeOK, Item, Latest
<1>2. HandlersKept'
  BY DEF QueueInv, HandlersKept, WithHandler
<1>. QED
  BY <1>1, <1>2

\* An empty queue.
LEMMA QueueInitOK ==
    ASSUME QueueInit
    PROVE  QueueInv
<1>. USE TimersAssumption DEF QueueInit
<1>1. QueueTypeOK
  <2>1. unlock \in BOOLEAN /\ finish \in BOOLEAN
    BY Zenon
  <2>2. Horizon \in Nat \ {0}
    BY LatestGrows DEF Horizon
  <2>3. current \in Call
    BY DEF NoCall, Call
  <2>. QED
    BY <2>1, <2>2, <2>3 DEF QueueTypeOK, NoTimer
<1>2. TimesBounded
  BY LatestGrows DEF TimesBounded, Latest
<1>3. HandlersKept
  BY DEF HandlersKept, WithHandler
<1>4. CallInProgress /\ NoMissedDeadline
  BY DEF CallInProgress, NoMissedDeadline
<1>. QED
  BY <1>1, <1>2, <1>3, <1>4 DEF QueueInv

\* add() makes one item more, for a handler with an id of its own, and tells the worker.
LEMMA AddOK ==
    ASSUME QueueInv, NEW msec \in 0 .. MaxDelay, Add(msec)
    PROVE  QueueInv'
<1>. DEFINE new == [id |-> idcounter + 1, end |-> now + msec, handler |-> idcounter + 1]
<1>. USE TimersAssumption DEF QueueInv
<1>1. /\ idcounter' = idcounter + 1 /\ idcounter \in Nat /\ idcounter' \in 1 .. MaxTimers
      /\ items' = items \cup {new}
      /\ count' = count + 1
      /\ UNCHANGED <<unlock, finish, now, worker, until, current, outcome>>
  BY DEF Add, QueueTypeOK, workerVars
<1>2. /\ Latest \in Nat /\ Latest' = Latest + MaxDelay /\ Latest' \in 1 .. Horizon
      /\ Horizon \in Nat /\ now \in 1 .. Horizon /\ now + msec <= Latest'
  <2>1. Latest \in 1 .. Horizon /\ Horizon \in Nat
    BY TimesOK
  <2>2. idcounter \in 0 .. MaxTimers /\ idcounter + 1 \in 0 .. MaxTimers
    BY <1>1
  <2>3. Latest' = 1 + (idcounter + 1) * MaxDelay
    BY <1>1 DEF Latest
  <2>4. Latest' = Latest + MaxDelay
    BY <2>2, <2>3, LatestGrows DEF Latest
  <2>5. Latest' \in 1 .. Horizon
    BY <2>2, <2>3, LatestGrows
  <2>. QED
    BY <2>1, <2>4, <2>5 DEF QueueTypeOK, TimesBounded
<1>3. new \in Item
  BY <1>1, <1>2 DEF Item
<1>. HIDE DEF new
<1>4. QueueTypeOK'
  BY <1>1, <1>3 DEF QueueTypeOK
<1>5. TimesBounded'
  BY <1>1, <1>2 DEF TimesBounded, QueueTypeOK, Item, new
<1>6. HandlersKept'
  <2>1. new.id = idcounter + 1 /\ new.handler = idcounter + 1
    BY DEF new
  <2>2. outcome[idcounter'] = "none" /\ \A i \in WithHandler : i.handler < idcounter'
    BY <1>1 DEF HandlersKept, QueueTypeOK, WithHandler, Item
  <2>3. WithHandler' = WithHandler \cup {new}
    BY <1>1, <2>1 DEF WithHandler
  <2>4. ASSUME NEW h \in 1 .. idcounter', outcome'[h] = "none"
        PROVE  \E i \in items' : i.handler = h
    BY <1>1, <2>1, <2>4 DEF HandlersKept
  <2>5. \A h \in Handler : h > idcounter' => outcome'[h] = "none"
    BY <1>1 DEF HandlersKept
  <2>6. ASSUME NEW i \in WithHandler'
        PROVE  /\ i.handler <= idcounter' /\ i.id \in {0, i.handler}
               /\ outcome'[i.handler] = "none"
    BY <1>1, <2>1, <2>2, <2>3, <2>6 DEF HandlersKept, WithHandler, QueueTypeOK, Item
  <2>7. ASSUME NEW i \in WithHandler', NEW j \in WithHandler', i.handler = j.handler
        PROVE  i = j
    BY <1>1, <2>1, <2>2, <2>3, <2>7 DEF HandlersKept
  <2>. QED
    BY <2>4, <2>5, <2>6, <2>7 DEF HandlersKept
<1>7. CallInProgress'
  BY <1>1 DEF CallInProgress, QueueTypeOK
<1>8. NoMissedDeadline'
  BY <1>1 DEF NoMissedDeadline, QueueTypeOK
<1>. QED
  BY <1>4, <1>5, <1>6, <1>7, <1>8

\* cancel() moves the handler of its item to a new one, which ends first.
LEMMA CancelOK ==
    ASSUME QueueInv, NEW id \in 0 .. MaxTimers, Cancel(id)
    PROVE  QueueInv'
<1>. DEFINE found == {i \in WithHandler : i.id = id}
            emptied == {[i EXCEPT !.handler = 0] : i \in found}
            moved == {[id |-> 0, end |-> 0, handler |-> i.handler] : i \in found}
<1>. USE TimersAssumption DEF QueueInv
<1>1. /\ items' = (items \ found) \cup emptied \cup moved
      /\ count' = IF found = {} THEN count ELSE count + 1
      /\ UNCHANGED <<idcounter, unlock, finish, now, worker, until, current, outcome>>
  BY DEF Cancel, workerVars
<1>2. Horizon \in Nat /\ Latest \in Nat /\ Latest' = Latest
  BY <1>1, TimesOK DEF Latest
<1>3. emptied \subseteq Item /\ moved \subseteq Item
  BY <1>2, SMTT(30) DEF QueueTypeOK, Item, WithHandler
<1>4. QueueTypeOK'
  BY <1>1, <1>3 DEF QueueTypeOK
<1>5. TimesBounded'
  BY <1>1, <1>2 DEF TimesBounded, QueueTypeOK, Item, WithHandler
<1>6. WithHandler' = (WithHandler \ found) \cup moved
  BY <1>1 DEF WithHandler, QueueTypeOK, Item
<1>. DEFINE gone(k) == [id |-> 0, end |-> 0, handler |-> k.handler]
<1>7. HandlersKept'
  <2>1. ASSUME NEW i \in WithHandler'
        PROVE  \E k \in WithHandler :
                 /\ k.handler = i.handler /\ i.id \in {0, k.id}
                 /\ i = IF k \in found THEN gone(k) ELSE k
    BY <1>6, <2>1
  <2>2. ASSUME NEW h \in 1 .. idcounter', outcome'[h] = "none"
        PROVE  \E i \in items' : i.handler = h
    <3>1. PICK k \in items : k.handler = h
      BY <1>1, <2>2 DEF HandlersKept
    <3>2. CASE k \in found
      <4>1. gone(k) \in items' /\ gone(k).handler = h
        BY <1>1, <3>1, <3>2
      <4>. QED
        BY <4>1
    <3>3. CASE k \notin found
      BY <1>1, <3>1, <3>3
    <3>. QED
      BY <3>2, <3>3
  <2>3. ASSUME NEW i \in WithHandler'
        PROVE  /\ i.handler <= idcounter' /\ i.id \in {0, i.handler}
               /\ outcome'[i.handler] = "none"
    BY <1>1, <2>1, <2>3 DEF HandlersKept
  <2>4. ASSUME NEW i \in WithHandler', NEW j \in WithHandler', i.handler = j.handler
        PROVE  i = j
    BY <2>1, <2>4 DEF HandlersKept
  <2>. QED
    BY <1>1, <2>2, <2>3, <2>4 DEF HandlersKept
<1>8. CallInProgress'
  BY <1>1 DEF CallInProgress
<1>9. NoMissedDeadline'
  BY <1>1, <1>6 DEF NoMissedDeadline, QueueTypeOK
<1>. QED
  BY <1>4, <1>5, <1>7, <1>8, <1>9

\* cancelAll() does so with every item, and leaves a notification.
LEMMA CancelAllOK ==
    ASSUME QueueInv, CancelAll
    PROVE  QueueInv' /\ count' > 0
<1>. DEFINE gone(i) == [id |-> 0, end |-> 0, handler |-> i.handler]
<1>. USE DEF QueueInv
<1>1. UNCHANGED <<idcounter, unlock, finish, now, worker, until, current, outcome>>
  BY DEF CancelAll, workerVars
<1>2. Horizon \in Nat /\ Latest \in Nat /\ Latest' = Latest
  BY <1>1, TimesOK DEF Latest
<1>3. count \in Nat /\ count' = count + 1
  BY DEF CancelAll, QueueTypeOK
<1>4. items' = {gone(i) : i \in items}
  BY DEF CancelAll
<1>5. ASSUME NEW i \in items
      PROVE  gone(i) \in Item
  BY <1>2, TimersAssumption DEF QueueTypeOK, Item
<1>6. QueueTypeOK'
  BY <1>1, <1>3, <1>4, <1>5 DEF QueueTypeOK
<1>7. TimesBounded'
  BY <1>1, <1>2, <1>4 DEF TimesBounded
<1>8. HandlersKept'
  <2>1. ASSUME NEW i \in WithHandler'
        PROVE  \E k \in WithHandler : k.handler = i.handler /\ i = gone(k)
    BY <1>4, <2>1 DEF WithHandler
  <2>2. ASSUME NEW h \in 1 .. idcounter', outcome'[h] = "none"
        PROVE  \E i \in items' : i.handler = h
    <3>1. PICK k \in items : k.handler = h
      BY <1>1, <2>2 DEF HandlersKept
    <3>2. gone(k) \in items' /\ gone(k).handler = h
      BY <1>4, <3>1
    <3>. QED
      BY <3>2
  <2>. QED
    BY <1>1, <2>1, <2>2 DEF HandlersKept
<1>9. CallInProgress' /\ NoMissedDeadline' /\ count' > 0
  BY <1>1, <1>3 DEF CallInProgress, NoMissedDeadline
<1>. QED
  BY <1>6, <1>7, <1>8, <1>9

\* Steps after which the queue is as it was, except that the worker may be told something.
LEMMA KeepQueueOK ==
    ASSUME QueueInv, UNCHANGED <<items, idcounter, count, now, workerVars>>,
           unlock' \in BOOLEAN, finish' \in BOOLEAN
    PROVE  QueueInv'
<1>. USE DEF QueueInv
<1>1. UNCHANGED <<items, idcounter, outcome>> /\ now' = now /\ UNCHANGED <<count, worker, until, current>>
  BY DEF workerVars
<1>2. QueueTypeOK'
  BY <1>1 DEF QueueTypeOK
<1>3. TimesBounded' /\ HandlersKept'
  <2>1. UNCHANGED <<items, idcounter, outcome>> /\ now' = now
    BY <1>1
  <2>. QED
    BY <1>2, <2>1, SameItems
<1>4. CallInProgress' /\ NoMissedDeadline'
  BY <1>1 DEF CallInProgress, NoMissedDeadline, WithHandler
<1>. QED
  BY <1>2, <1>3, <1>4

-------------------------------------------------------------------------------
(* The worker, and time                                                    *)

\* Time passes no further than the last item.
LEMMA TickOK ==
    ASSUME QueueInv, Tick
    PROVE  QueueInv'
<1>. USE DEF QueueInv, Tick, workerVars
<1>1. now' \in 1 .. Horizon
  BY TimesOK DEF QueueTypeOK, Item
<1>2. QueueTypeOK'
  BY <1>1 DEF QueueTypeOK
<1>3. TimesBounded' /\ HandlersKept'
  BY <1>2, SameItems
<1>4. CallInProgress' /\ NoMissedDeadline'
  BY DEF CallInProgress, NoMissedDeadline, WithHandler
<1>. QED
  BY <1>2, <1>3, <1>4

\* The worker goes on without touching an item or calling a handler.
LEMMA WorkerMovesOK ==
    ASSUME QueueInv, UNCHANGED <<items, idcounter, now, until, outcome, finish>>,
           UNCHANGED current \/ current' = NoCall,
           worker' \in {"check", "calc", "work", "done"}, count' \in Nat, unlock' \in BOOLEAN
    PROVE  QueueInv'
<1>. USE DEF QueueInv
<1>1. QueueTypeOK'
  <2>1. current' \in Call
    <3>1. NoCall \in Call
      BY TimersAssumption DEF NoCall, Call
    <3>. QED
      BY <3>1 DEF QueueTypeOK
  <2>2. finish' \in BOOLEAN /\ unlock' \in BOOLEAN
    BY Zenon DEF QueueTypeOK
  <2>3. /\ items' \subseteq Item /\ idcounter' \in 0 .. MaxTimers
        /\ now' \in 1 .. Horizon /\ until' \in 0 .. NoTimer
        /\ outcome' \in [Handler -> {"none", "executed", "aborted"}]
    BY DEF QueueTypeOK
  <2>4. worker' \in {"check", "calc", "wait", "work", "call", "halting", "done"}
    OBVIOUS
  <2>. QED
    BY <2>1, <2>2, <2>3, <2>4 DEF QueueTypeOK
<1>2. TimesBounded' /\ HandlersKept'
  <2>1. UNCHANGED <<items, idcounter, outcome>> /\ now' = now
    OBVIOUS
  <2>. QED
    BY <1>1, <2>1, SameItems
<1>3. CallInProgress' /\ NoMissedDeadline'
  BY DEF CallInProgress, NoMissedDeadline
<1>. QED
  BY <1>1, <1>2, <1>3

\* calcWaitTime() discards empty items only, and finds the first end of those with a
\* handler.
LEMMA CalcWaitTimeOK ==
    ASSUME QueueInv, CalcWaitTime
    PROVE  QueueInv'
<1>. USE DEF QueueInv
<1>1. /\ worker' = "wait" /\ UNCHANGED <<idcounter, now, count, unlock, finish, current, outcome>>
      /\ items' \subseteq items /\ WithHandler \subseteq items'
  BY DEF CalcWaitTime, Step, WithHandler
<1>2. WithHandler' = WithHandler
  BY <1>1 DEF WithHandler
<1>3. until' \in 0 .. NoTimer /\ \A i \in WithHandler : until' <= i.end
  BY TimesOK DEF CalcWaitTime, QueueTypeOK, Item, WithHandler
<1>4. QueueTypeOK'
  BY <1>1, <1>3 DEF QueueTypeOK
<1>5. TimesBounded'
  BY <1>1 DEF TimesBounded, Latest
<1>6. HandlersKept'
  BY <1>1, <1>2 DEF HandlersKept, WithHandler
<1>7. CallInProgress'
  BY <1>1 DEF CallInProgress
<1>8. NoMissedDeadline'
  BY <1>2, <1>3, <1>1, TimesOK DEF NoMissedDeadline, QueueTypeOK, Item, WithHandler
<1>. QED
  BY <1>4, <1>5, <1>6, <1>7, <1>8

\* checkWork() takes a handler off the queue and is about to call it.
LEMMA CheckWorkOK ==
    ASSUME QueueInv, CheckWork
    PROVE  QueueInv'
<1>. USE DEF QueueInv
<1>1. CASE Due = {} /\ Step("work", "check") /\ UNCHANGED <<items, idcounter, now, count, unlock, finish, until, current, outcome>>
  BY <1>1, WorkerMovesOK DEF Step, QueueTypeOK
<1>2. ASSUME NEW top \in Due,
             items' = items \ {top},
             UNCHANGED <<idcounter, now, count, unlock, finish, until>>,
             worker' \in {"work", "call"},
             IF top.handler = 0
             THEN worker' = "work" /\ UNCHANGED <<current, outcome>>
             ELSE /\ worker' = "call"
                  /\ current' = [handler |-> top.handler, aborted |-> top.id = 0]
                  /\ outcome' = [outcome EXCEPT ![top.handler] =
                                   IF top.id = 0 THEN "aborted" ELSE "executed"]
      PROVE  QueueInv'
  <2>1. /\ top \in items /\ top.handler \in 0 .. idcounter /\ idcounter \in 0 .. MaxTimers
    BY <1>2, TimersAssumption DEF Due, HandlersKept, WithHandler, QueueTypeOK, Item
  <2>2. /\ top.handler # 0 => outcome'[top.handler] = IF top.id = 0 THEN "aborted" ELSE "executed"
        /\ \A h \in Handler : h # top.handler => outcome'[h] = outcome[h]
        /\ outcome' \in [Handler -> {"none", "executed", "aborted"}]
    BY <1>2, <2>1, TimersAssumption DEF QueueTypeOK
  <2>3. current' \in Call
    <3>1. (top.id = 0) \in BOOLEAN
      BY Zenon
    <3>2. top.handler \in 0 .. MaxTimers
      BY <2>1, TimersAssumption
    <3>3. [handler |-> top.handler, aborted |-> top.id = 0] \in Call
      BY <3>1, <3>2 DEF Call
    <3>. QED
      BY <1>2, <3>3 DEF QueueTypeOK
  <2>4. QueueTypeOK'
    BY <1>2, <2>2, <2>3 DEF QueueTypeOK
  <2>5. TimesBounded'
    BY <1>2 DEF TimesBounded, Latest
  <2>6. HandlersKept'
    <3>1. ASSUME NEW i \in WithHandler'
          PROVE  i \in WithHandler /\ i # top /\ i.handler # top.handler
      BY <1>2, <2>1, <3>1 DEF HandlersKept, WithHandler
    <3>2. ASSUME NEW h \in 1 .. idcounter', outcome'[h] = "none"
          PROVE  \E i \in items' : i.handler = h
      BY <1>2, <2>1, <2>2, <3>2, TimersAssumption DEF HandlersKept
    <3>3. ASSUME NEW i \in WithHandler'
          PROVE  /\ i.handler <= idcounter' /\ i.id \in {0, i.handler}
                 /\ outcome'[i.handler] = "none"
      BY <1>2, <2>2, <3>1, <3>3 DEF HandlersKept, WithHandler, QueueTypeOK, Item
    <3>. QED
      BY <1>2, <2>1, <2>2, <3>1, <3>2, <3>3 DEF HandlersKept
  <2>7. CallInProgress'
    <3>1. CASE top.handler = 0
      BY <1>2, <3>1 DEF CallInProgress
    <3>2. CASE top.handler # 0
      <4>1. current'.handler = top.handler /\ current'.aborted = (top.id = 0)
        <5>1. current' = [handler |-> top.handler, aborted |-> top.id = 0]
          BY <1>2, <3>2
        <5>. QED
          BY <5>1, Zenon
      <4>2. outcome'[current'.handler] = IF current'.aborted THEN "aborted" ELSE "executed"
        <5>1. CASE top.id = 0
          <6>1. current'.aborted
            BY <4>1, <5>1, Zenon
          <6>. QED
            BY <2>2, <3>2, <4>1, <5>1, <6>1
        <5>2. CASE top.id # 0
          <6>1. ~ current'.aborted
            BY <4>1, <5>2, Zenon
          <6>. QED
            BY <2>2, <3>2, <4>1, <5>2, <6>1
        <5>. QED
          BY <5>1, <5>2
      <4>. QED
        BY <1>2, <2>1, <3>2, <4>1, <4>2 DEF CallInProgress
    <3>. QED
      BY <3>1, <3>2
  <2>8. NoMissedDeadline'
    BY <1>2 DEF NoMissedDeadline
  <2>. QED
    BY <2>4, <2>5, <2>6, <2>7, <2>8
<1>. QED
  BY <1>1, <1>2 DEF CheckWork, Step

\* Woken never takes one off a count of 0 (see ShutdownNotified).
LEMMA WorkerStepOK ==
    ASSUME QueueInv, WorkerStep, worker = "wait" /\ unlock => count > 0
    PROVE  QueueInv'
<1>. USE DEF QueueInv
<1>1. CASE LoopCheck
  BY <1>1, WorkerMovesOK DEF LoopCheck, Step, QueueTypeOK
<1>2. CASE Woken
  <2>1. count' \in Nat /\ unlock' = FALSE
    BY <1>2 DEF Woken, Step, QueueTypeOK
  <2>2. unlock' \in BOOLEAN
    BY <2>1, Zenon
  <2>. QED
    BY <1>2, <2>1, <2>2, WorkerMovesOK DEF Woken, Step
<1>3. CASE TimedOut
  BY <1>3, WorkerMovesOK DEF TimedOut, Step, QueueTypeOK
<1>. QED
  BY <1>1, <1>2, <1>3, CalcWaitTimeOK, CheckWorkOK DEF WorkerStep

\* Steps that do not touch the queue.
LEMMA SameQueue ==
    ASSUME QueueInv, UNCHANGED queueVars
    PROVE  /\ QueueInv'
           /\ UNCHANGED <<items, idcounter, count, unlock, finish, worker, current, outcome>>
<1>1. /\ UNCHANGED <<items, idcounter, count, now, workerVars>>
      /\ UNCHANGED <<unlock, finish, worker, current, outcome>>
  BY DEF queueVars, workerVars
<1>2. unlock' \in BOOLEAN /\ finish' \in BOOLEAN
  BY <1>1 DEF QueueInv, QueueTypeOK
<1>. QED
  BY <1>1, <1>2, KeepQueueOK

-------------------------------------------------------------------------------
(* The tree's thread: tick()                                               *)

\* A step that calls no handler and takes no execution as over.
LEMMA EndingsStay ==
    ASSUME NodeInv, UNCHANGED <<kind, endings, idcounter, worker, current, outcome>>,
           timer' \in {timer, 0}
    PROVE  EndingsJustified'
<1>. USE DEF NodeInv
<1>1. ASSUME NEW e \in endings
      PROVE  /\ Called(e.by)'
             /\ e.by = e.of \/ kind # "Sleep" => outcome[e.by] = "executed"
             /\ e.by # e.of => e.by # timer' /\ LeftTimerBehind(e.by)'
  <2>1. Called(e.by) /\ e.by # 0
    BY DEF EndingsJustified, Called, QueueInv, QueueTypeOK
  <2>2. Called(e.by)'
    BY <2>1 DEF Called, Pending
  <2>. QED
    BY <2>1, <2>2 DEF EndingsJustified, LeftTimerBehind
<1>. QED
  BY <1>1 DEF EndingsJustified

\* ... and leaves the flag.
LEMMA FlagStays ==
    ASSUME NodeInv,
           UNCHANGED <<kind, signalled, timer, setter, endings, idcounter, worker, current, outcome>>,
           Live' => Live
    PROVE  FlagJustified'
BY DEF NodeInv, FlagJustified, Called, Pending, LeftTimerBehind

\* A node that was never ticked.
LEMMA NodeInitOK ==
    ASSUME Init
    PROVE  NodeInv
<1>. USE DEF Init
<1>1. NodeTypeOK
  <2>1. started \in BOOLEAN /\ signalled \in BOOLEAN
    BY Zenon
  <2>. QED
    BY <2>1, TimersAssumption DEF NodeTypeOK
<1>2. QueueInv
  BY QueueInitOK
<1>3. ShutdownNotified /\ MutexOwned /\ SleepNotCancelled
  BY DEF ShutdownNotified, MutexOwned, SleepNotCancelled, QueueInit
<1>4. EndingsJustified /\ FlagJustified /\ TimerNumbered
  BY DEF EndingsJustified, FlagJustified, TimerNumbered, Live, Watching, QueueInit
<1>5. ExecutionsNumbered /\ StartedInTick
  BY KindsAssumption DEF ExecutionsNumbered, StartedInTick
<1>. QED
  BY <1>1, <1>2, <1>3, <1>4, <1>5 DEF NodeInv

\* onStart(), or the first tick of a decorator: the flag is cleared before the timer is
\* added.
LEMMA StartOK ==
    ASSUME NodeInv, Start
    PROVE  NodeInv'
<1>. USE DEF NodeInv
<1>1. /\ tree = "rest" /\ tree' = "add" /\ status' = "RUNNING"
      /\ UNCHANGED <<kind, child, mutex, endings>> /\ timer' = 0 /\ setter' = 0
  BY DEF Start, At
<1>2. ~signalled' /\ (started' <=> ~isAction)
  BY Zenon DEF Start
<1>3. /\ QueueInv'
      /\ UNCHANGED <<items, idcounter, count, unlock, finish, worker, current, outcome>>
  BY SameQueue DEF Start
<1>4. NodeTypeOK'
  <2>1. started' \in BOOLEAN /\ signalled' \in BOOLEAN
    BY Zenon DEF Start
  <2>. QED
    BY <1>1, <2>1, TimersAssumption DEF NodeTypeOK
<1>5. ShutdownNotified' /\ MutexOwned'
  BY <1>1, <1>3 DEF ShutdownNotified, MutexOwned
<1>6. EndingsJustified'
  BY <1>1, <1>3, EndingsStay
<1>7. FlagJustified' /\ TimerNumbered' /\ SleepNotCancelled'
  BY <1>1, <1>2, <1>3
     DEF FlagJustified, TimerNumbered, Watching, SleepNotCancelled, QueueInv, QueueTypeOK, isAction
<1>8. ExecutionsNumbered' /\ StartedInTick'
  BY <1>1, <1>2, <1>3 DEF ExecutionsNumbered, StartedInTick, isAction
<1>. QED
  BY <1>3, <1>4, <1>5, <1>6, <1>7, <1>8

\* The new timer is that of the execution that begins, so nothing is over.
LEMMA AddTimerOK ==
    ASSUME NodeInv, AddTimer
    PROVE  NodeInv'
<1>. USE DEF NodeInv
<1>1. /\ tree = "add" /\ tree' = IF isAction THEN "rest" ELSE "lock"
      /\ UNCHANGED <<kind, status, started, signalled, child, mutex, setter, endings>>
  BY DEF AddTimer, GoTo
<1>2. ASSUME timer' \in 0 .. MaxTimers
      PROVE  NodeTypeOK'
  BY <1>1, <1>2 DEF NodeTypeOK
<1>3. CASE kind = "Timeout" /\ UNCHANGED <<queueVars, timer>>
  <2>1. /\ QueueInv'
        /\ UNCHANGED <<items, idcounter, count, unlock, finish, worker, current, outcome>>
    BY <1>3, SameQueue
  <2>2. ShutdownNotified' /\ MutexOwned' /\ SleepNotCancelled'
    BY <1>1, <1>3, <2>1 DEF ShutdownNotified, MutexOwned, SleepNotCancelled
  <2>3. EndingsJustified' /\ NodeTypeOK'
    BY <1>1, <1>2, <1>3, <2>1, EndingsStay DEF NodeTypeOK
  <2>4. FlagJustified' /\ TimerNumbered'
    BY <1>1, <1>3, <2>1, FlagStays DEF TimerNumbered, Live, Watching, isAction
  <2>5. ExecutionsNumbered' /\ StartedInTick'
    BY <1>1, <1>3, <2>1 DEF ExecutionsNumbered, StartedInTick, isAction
  <2>. QED
    BY <2>1, <2>2, <2>3, <2>4, <2>5
<1>4. ASSUME NEW msec \in 0 .. MaxDelay, Add(msec), timer' = idcounter'
      PROVE  NodeInv'
  <2>1. QueueInv'
    BY <1>4, AddOK
  <2>2. /\ idcounter \in Nat /\ idcounter' = idcounter + 1 /\ idcounter' \in 1 .. MaxTimers
        /\ count \in Nat /\ count' = count + 1
        /\ items' = items \cup {[id |-> idcounter', end |-> now + msec, handler |-> idcounter']}
        /\ UNCHANGED <<unlock, finish, worker, current, outcome>>
    BY <1>4, TimersAssumption DEF Add, workerVars, QueueInv, QueueTypeOK
  <2>3. ShutdownNotified' /\ MutexOwned'
    BY <1>1, <2>2 DEF ShutdownNotified, MutexOwned
  <2>4. EndingsJustified' /\ NodeTypeOK'
    <3>1. timer' \in 0 .. MaxTimers
      BY <1>4, <2>2
    <3>. QED
      BY <1>1, <1>2, <1>4, <2>2, <3>1 DEF EndingsJustified, Called, Pending, LeftTimerBehind
  <2>5. FlagJustified' /\ TimerNumbered'
    BY <1>1, <1>4, <2>2
       DEF FlagJustified, TimerNumbered, Live, Called, Pending, LeftTimerBehind
  <2>6. SleepNotCancelled'
    <3>1. outcome'[idcounter'] = "none"
      BY <2>2 DEF QueueInv, HandlersKept
    <3>2. \A i \in WithHandler : i.handler < idcounter'
      BY <2>2 DEF QueueInv, HandlersKept, QueueTypeOK, WithHandler, Item
    <3>3. \A i \in WithHandler' : i.handler = idcounter' => i.id = idcounter'
      BY <2>2, <3>2 DEF WithHandler
    <3>. QED
      BY <2>2, <3>1, <3>3 DEF SleepNotCancelled
  <2>7. ExecutionsNumbered' /\ StartedInTick'
    BY <1>1, <2>2 DEF ExecutionsNumbered, StartedInTick, isAction
  <2>. QED
    BY <2>1, <2>3, <2>4, <2>5, <2>6, <2>7
<1>. QED
  BY <1>3, <1>4 DEF AddTimer

\* What is taken as over while the flag is set was ended by the setter of the flag.
LEMMA EndedOne ==
    ASSUME NodeInv, Watching, signalled, endings' = Ended(endings),
           UNCHANGED <<kind, timer, setter, idcounter, worker, current, outcome>>
    PROVE  EndingsJustified' /\ endings' \subseteq Ending
<1>. USE DEF NodeInv
<1>1. /\ Called(setter)
      /\ setter = timer \/ kind # "Sleep" => outcome[setter] = "executed"
      /\ setter # timer => LeftTimerBehind(setter)
  BY DEF FlagJustified, Live
<1>2. endings' = endings \cup {[of |-> timer, by |-> setter]}
  BY DEF Ended
<1>3. \A t \in 0 .. MaxTimers : LeftTimerBehind(t) /\ t # timer => LeftTimerBehind(t)'
  BY <1>2 DEF LeftTimerBehind
<1>4. setter # timer => LeftTimerBehind(setter)'
  BY <1>1, <1>2 DEF LeftTimerBehind
<1>5. ASSUME NEW e \in endings'
      PROVE  /\ Called(e.by)'
             /\ e.by = e.of \/ kind # "Sleep" => outcome[e.by] = "executed"
             /\ e.by # e.of => e.by # timer /\ LeftTimerBehind(e.by)'
  <2>1. CASE e \in endings
    BY <1>3, <2>1 DEF EndingsJustified, Called, Pending, NodeTypeOK, Ending
  <2>2. CASE e = [of |-> timer, by |-> setter]
    BY <1>1, <1>4, <2>2 DEF Called, Pending
  <2>. QED
    BY <1>2, <2>1, <2>2
<1>6. EndingsJustified'
  BY <1>5 DEF EndingsJustified
<1>7. endings' \subseteq Ending
  BY <1>2 DEF NodeTypeOK, Ending
<1>. QED
  BY <1>6, <1>7

\* onRunning() ends an execution whose flag is set.
LEMMA PollOK ==
    ASSUME NodeInv, Poll
    PROVE  NodeInv'
<1>. USE DEF NodeInv
<1>1. /\ tree = "rest" /\ tree' = "rest" /\ isAction /\ status = "RUNNING" /\ signalled
      /\ status' = "IDLE" /\ endings' = Ended(endings)
      /\ UNCHANGED <<kind, started, signalled, child, mutex, timer, setter>>
  BY DEF Poll, At
<1>2. /\ QueueInv'
      /\ UNCHANGED <<items, idcounter, count, unlock, finish, worker, current, outcome>>
  BY SameQueue DEF Poll
<1>3. Watching
  BY <1>1 DEF Watching
<1>4. EndingsJustified' /\ endings' \subseteq Ending
  BY <1>1, <1>2, <1>3, EndedOne
<1>5. NodeTypeOK'
  BY <1>1, <1>4 DEF NodeTypeOK
<1>6. ShutdownNotified' /\ MutexOwned' /\ SleepNotCancelled'
  BY <1>1, <1>2 DEF ShutdownNotified, MutexOwned, SleepNotCancelled
<1>7. FlagJustified' /\ TimerNumbered'
  BY <1>1, <1>2 DEF FlagJustified, TimerNumbered, Live, Watching, isAction
<1>8. ExecutionsNumbered' /\ StartedInTick'
  BY <1>1, <1>2, <1>4 DEF ExecutionsNumbered, StartedInTick, isAction
<1>. QED
  BY <1>2, <1>4, <1>5, <1>6, <1>7, <1>8

\* The next tick of a RUNNING decorator.
LEMMA TickAgainOK ==
    ASSUME NodeInv, TickAgain
    PROVE  NodeInv'
<1>. USE DEF NodeInv
<1>1. /\ tree = "rest" /\ tree' = "lock" /\ ~isAction /\ started
      /\ UNCHANGED <<kind, status, started, signalled, child, mutex, timer, setter, endings>>
  BY DEF TickAgain, GoTo
<1>2. /\ QueueInv'
      /\ UNCHANGED <<items, idcounter, count, unlock, finish, worker, current, outcome>>
  BY SameQueue DEF TickAgain
<1>3. NodeTypeOK'
  BY <1>1 DEF NodeTypeOK
<1>4. ShutdownNotified' /\ MutexOwned' /\ SleepNotCancelled'
  BY <1>1, <1>2 DEF ShutdownNotified, MutexOwned, SleepNotCancelled
<1>5. EndingsJustified'
  BY <1>1, <1>2, EndingsStay
<1>6. FlagJustified' /\ TimerNumbered'
  BY <1>1, <1>2, FlagStays DEF TimerNumbered, Live, Watching, isAction
<1>7. ExecutionsNumbered' /\ StartedInTick'
  BY <1>1, <1>2 DEF ExecutionsNumbered, StartedInTick, isAction
<1>. QED
  BY <1>2, <1>3, <1>4, <1>5, <1>6, <1>7

\* Under the mutex a decorator looks at its flag, and answers or ticks its child.
LEMMA LockOK ==
    ASSUME NodeInv, Lock
    PROVE  NodeInv'
<1>. USE DEF NodeInv
<1>1. /\ tree = "lock" /\ mutex = "free" /\ started /\ ~isAction
      /\ UNCHANGED <<kind, signalled, child, timer, setter>>
  BY DEF Lock, At, StartedInTick
<1>2. /\ QueueInv'
      /\ UNCHANGED <<items, idcounter, count, unlock, finish, worker, current, outcome>>
  BY SameQueue DEF Lock
<1>3. Watching
  BY <1>1 DEF Watching
<1>4. ASSUME \/ tree' = "child" /\ mutex' = "tree"
             \/ tree' = "rest" /\ mutex' = mutex,
             \/ UNCHANGED <<status, started>>
             \/ started' = FALSE /\ status' = "IDLE" /\ tree' = "rest",
             \/ endings' = endings
             \/ endings' = Ended(endings) /\ signalled
      PROVE  NodeInv'
  <2>1. EndingsJustified' /\ endings' \subseteq Ending
    <3>1. CASE endings' = endings
      BY <1>1, <1>2, <3>1, EndingsStay DEF NodeTypeOK
    <3>2. CASE endings' = Ended(endings) /\ signalled
      BY <1>1, <1>2, <1>3, <3>2, EndedOne
    <3>. QED
      BY <1>4, <3>1, <3>2
  <2>2. NodeTypeOK'
    <3>1. started' \in BOOLEAN
      BY <1>4, Zenon DEF NodeTypeOK
    <3>2. signalled' \in BOOLEAN
      BY <1>1 DEF NodeTypeOK
    <3>. QED
      BY <1>1, <1>4, <2>1, <3>1, <3>2 DEF NodeTypeOK
  <2>3. ShutdownNotified' /\ MutexOwned'
    BY <1>1, <1>2, <1>4 DEF ShutdownNotified, MutexOwned
  <2>4. SleepNotCancelled' /\ TimerNumbered'
    BY <1>1, <1>2, <1>4 DEF SleepNotCancelled, TimerNumbered, isAction
  <2>5. FlagJustified'
    <3>1. setter # timer /\ LeftTimerBehind(setter) => LeftTimerBehind(setter)'
      BY <1>1, <1>4 DEF LeftTimerBehind, Ended
    <3>. QED
      BY <1>1, <1>2, <1>3, <3>1 DEF FlagJustified, Live, Called, Pending
  <2>6. ExecutionsNumbered' /\ StartedInTick'
    BY <1>1, <1>2, <1>4, <2>1 DEF ExecutionsNumbered, StartedInTick, isAction
  <2>. QED
    BY <1>2, <2>1, <2>2, <2>3, <2>4, <2>5, <2>6
<1>5. CASE /\ signalled = (kind = "Delay")
           /\ mutex' = "tree" /\ tree' = "child"
           /\ endings' = IF kind = "Delay" THEN Ended(endings) ELSE endings
           /\ UNCHANGED <<status, started>>
  <2>1. kind = "Delay" => signalled
    BY <1>5, Zenon
  <2>. QED
    BY <1>4, <1>5, <2>1
<1>. QED
  BY <1>4, <1>5 DEF Lock

\* The child answers, and the mutex is given back.
LEMMA ChildTicksOK ==
    ASSUME NodeInv, ChildTicks
    PROVE  NodeInv'
<1>. USE DEF NodeInv
<1>1. /\ tree = "child" /\ mutex' = "free" /\ started /\ ~isAction
      /\ UNCHANGED <<kind, signalled, timer, setter, endings>>
  BY DEF ChildTicks, At, StartedInTick
<1>2. /\ QueueInv'
      /\ UNCHANGED <<items, idcounter, count, unlock, finish, worker, current, outcome>>
  BY SameQueue DEF ChildTicks
<1>3. /\ child' \in {"IDLE", "RUNNING", "SUCCESS", "FAILURE"}
      /\ \/ started' = FALSE /\ tree' \in {"cancel", "rest"} /\ status' \in {"IDLE", status}
         \/ started' = started /\ tree' = "rest" /\ status' = status
  BY AnswersAssumption DEF ChildTicks, Completed
<1>4. NodeTypeOK'
  <2>1. started' \in BOOLEAN
    BY <1>3, Zenon DEF NodeTypeOK
  <2>2. signalled' \in BOOLEAN
    BY <1>1 DEF NodeTypeOK
  <2>. QED
    BY <1>1, <1>3, <2>1, <2>2 DEF NodeTypeOK
<1>5. ShutdownNotified' /\ MutexOwned'
  BY <1>1, <1>2, <1>3 DEF ShutdownNotified, MutexOwned
<1>6. EndingsJustified'
  BY <1>1, <1>2, EndingsStay
<1>7. SleepNotCancelled' /\ TimerNumbered'
  BY <1>1, <1>2, <1>3 DEF SleepNotCancelled, TimerNumbered, isAction
<1>8. FlagJustified'
  BY <1>1, <1>2, <1>3, FlagStays DEF Live, Watching, isAction
<1>9. ExecutionsNumbered' /\ StartedInTick'
  BY <1>1, <1>2, <1>3 DEF ExecutionsNumbered, StartedInTick, isAction
<1>. QED
  BY <1>2, <1>4, <1>5, <1>6, <1>7, <1>8, <1>9

\* A Timeout whose child has completed cancels its timer.
LEMMA CancelTimerOK ==
    ASSUME NodeInv, CancelTimer
    PROVE  NodeInv'
<1>. USE DEF NodeInv
<1>1. /\ tree = "cancel" /\ tree' = "relock" /\ ~started
      /\ UNCHANGED <<kind, status, started, signalled, child, mutex, timer, setter, endings>>
  BY DEF CancelTimer, GoTo, StartedInTick
<1>2. QueueInv'
  BY CancelOK DEF CancelTimer, Execution, QueueInv, QueueTypeOK
<1>3. UNCHANGED <<idcounter, unlock, finish, worker, current, outcome>>
  BY DEF CancelTimer, Cancel, workerVars
<1>4. NodeTypeOK'
  BY <1>1 DEF NodeTypeOK
<1>5. ShutdownNotified' /\ MutexOwned'
  BY <1>1, <1>3 DEF ShutdownNotified, MutexOwned
<1>6. EndingsJustified'
  BY <1>1, <1>3, EndingsStay
<1>7. SleepNotCancelled' /\ FlagJustified' /\ TimerNumbered'
  BY <1>1, <1>2, <1>3 DEF SleepNotCancelled, FlagJustified, TimerNumbered, Live, Watching, isAction
<1>8. ExecutionsNumbered' /\ StartedInTick'
  BY <1>1, <1>3 DEF ExecutionsNumbered, StartedInTick, isAction
<1>. QED
  BY <1>2, <1>4, <1>5, <1>6, <1>7, <1>8

\* It resets the child under the mutex.
LEMMA RelockOK ==
    ASSUME NodeInv, Relock
    PROVE  NodeInv'
<1>. USE DEF NodeInv
<1>1. /\ tree = "relock" /\ tree' = "rest" /\ ~started
      /\ child' = "IDLE" /\ status' = "IDLE"
      /\ UNCHANGED <<kind, started, signalled, mutex, timer, setter, endings>>
  BY DEF Relock, GoTo, StartedInTick
<1>2. /\ QueueInv'
      /\ UNCHANGED <<items, idcounter, count, unlock, finish, worker, current, outcome>>
  BY SameQueue DEF Relock
<1>3. NodeTypeOK'
  BY <1>1 DEF NodeTypeOK
<1>4. ShutdownNotified' /\ MutexOwned'
  BY <1>1, <1>2 DEF ShutdownNotified, MutexOwned
<1>5. EndingsJustified'
  BY <1>1, <1>2, EndingsStay
<1>6. SleepNotCancelled' /\ FlagJustified' /\ TimerNumbered'
  BY <1>1, <1>2, <1>3 DEF SleepNotCancelled, FlagJustified, TimerNumbered, Live, Watching, isAction
<1>7. ExecutionsNumbered' /\ StartedInTick'
  BY <1>1, <1>2 DEF ExecutionsNumbered, StartedInTick, isAction
<1>. QED
  BY <1>2, <1>3, <1>4, <1>5, <1>6, <1>7

-------------------------------------------------------------------------------
(* The tree's thread: halt() and destruction                               *)

\* halt() begins: the execution is no longer one the flag speaks of.
LEMMA HaltOK ==
    ASSUME NodeInv, Halt
    PROVE  NodeInv'
<1>. USE DEF NodeInv
<1>1. /\ tree = "rest" /\ tree' = "halting"
      /\ UNCHANGED <<kind, status, child, mutex, timer, setter, endings>>
  BY DEF Halt, GoTo
<1>2. started' = FALSE /\ (kind # "Sleep" => signalled' = signalled)
  BY DEF Halt
<1>3. /\ QueueInv'
      /\ UNCHANGED <<items, idcounter, count, unlock, finish, worker, current, outcome>>
  BY SameQueue DEF Halt
<1>4. NodeTypeOK'
  <2>1. started' \in BOOLEAN /\ signalled' \in BOOLEAN
    BY Zenon DEF Halt, NodeTypeOK
  <2>. QED
    BY <1>1, <2>1 DEF NodeTypeOK
<1>5. ShutdownNotified' /\ MutexOwned'
  BY <1>1, <1>3 DEF ShutdownNotified, MutexOwned
<1>6. EndingsJustified'
  BY <1>1, <1>3, EndingsStay
<1>7. SleepNotCancelled'
  BY <1>1, <1>3 DEF SleepNotCancelled, WithHandler
<1>8. FlagJustified' /\ TimerNumbered'
  BY <1>1, <1>2, <1>3 DEF FlagJustified, TimerNumbered, Live, Watching, isAction
<1>9. ExecutionsNumbered' /\ StartedInTick'
  BY <1>1, <1>2, <1>3 DEF ExecutionsNumbered, StartedInTick, isAction
<1>. QED
  BY <1>3, <1>4, <1>5, <1>6, <1>7, <1>8, <1>9

\* cancel() and cancelAll() leave the worker where it is.
LEMMA CancelsOK ==
    ASSUME QueueInv, UNCHANGED queueVars \/ Cancel(Execution) \/ CancelAll
    PROVE  /\ QueueInv'
           /\ UNCHANGED <<idcounter, unlock, finish, worker, current, outcome>>
           /\ CancelAll => count' > 0
<1>1. Execution \in 0 .. MaxTimers
  BY DEF Execution, QueueInv, QueueTypeOK
<1>2. QueueInv'
  BY <1>1, SameQueue, CancelOK, CancelAllOK
<1>3. UNCHANGED <<idcounter, unlock, finish, worker, current, outcome>>
  BY SameQueue DEF Cancel, CancelAll, workerVars
<1>. QED
  BY <1>2, <1>3, CancelAllOK

\* halt() cancels the timers.
LEMMA HaltTimersOK ==
    ASSUME NodeInv, HaltTimers
    PROVE  NodeInv'
<1>. USE DEF NodeInv
<1>1. /\ tree = "halting" /\ ~started
      /\ \/ isAction /\ tree' = "rest" /\ status' = "IDLE"
         \/ ~isAction /\ tree' = "halt_child" /\ status' = status
      /\ UNCHANGED <<kind, started, signalled, child, mutex, timer, setter, endings>>
  BY DEF HaltTimers, At, StartedInTick
<1>2. UNCHANGED queueVars \/ Cancel(Execution) \/ CancelAll
  BY DEF HaltTimers
<1>3. QueueInv' /\ UNCHANGED <<idcounter, unlock, finish, worker, current, outcome>>
  BY <1>2, CancelsOK
<1>4. NodeTypeOK'
  BY <1>1 DEF NodeTypeOK
<1>5. ShutdownNotified' /\ MutexOwned'
  BY <1>1, <1>3 DEF ShutdownNotified, MutexOwned
<1>6. EndingsJustified'
  BY <1>1, <1>3, EndingsStay
<1>7. SleepNotCancelled' /\ FlagJustified' /\ TimerNumbered'
  BY <1>1, <1>2, <1>3 DEF SleepNotCancelled, FlagJustified, TimerNumbered, Live, Watching, isAction
<1>8. ExecutionsNumbered' /\ StartedInTick'
  BY <1>1, <1>3 DEF ExecutionsNumbered, StartedInTick, isAction
<1>. QED
  BY <1>3, <1>4, <1>5, <1>6, <1>7, <1>8

\* halt() of a decorator resets its child.
LEMMA HaltChildOK ==
    ASSUME NodeInv, HaltChild
    PROVE  NodeInv'
<1>. USE DEF NodeInv
<1>1. /\ tree = "halt_child" /\ tree' = "rest" /\ ~started
      /\ child' = "IDLE" /\ status' = "IDLE"
      /\ UNCHANGED <<kind, started, signalled, mutex, timer, setter, endings>>
  BY DEF HaltChild, GoTo, StartedInTick
<1>2. /\ QueueInv'
      /\ UNCHANGED <<items, idcounter, count, unlock, finish, worker, current, outcome>>
  BY SameQueue DEF HaltChild
<1>3. NodeTypeOK'
  BY <1>1 DEF NodeTypeOK
<1>4. ShutdownNotified' /\ MutexOwned'
  BY <1>1, <1>2 DEF ShutdownNotified, MutexOwned
<1>5. EndingsJustified'
  BY <1>1, <1>2, EndingsStay
<1>6. SleepNotCancelled' /\ FlagJustified' /\ TimerNumbered'
  BY <1>1, <1>2, <1>3 DEF SleepNotCancelled, FlagJustified, TimerNumbered, Live, Watching, isAction
<1>7. ExecutionsNumbered' /\ StartedInTick'
  BY <1>1, <1>2 DEF ExecutionsNumbered, StartedInTick, isAction
<1>. QED
  BY <1>2, <1>3, <1>4, <1>5, <1>6, <1>7

\* Once destruction has begun no flag is read any more.
LEMMA AfterTree ==
    ASSUME NodeInv, UNCHANGED <<kind, status, started, signalled, child, mutex, timer, setter, endings>>,
           UNCHANGED <<idcounter, worker, current, outcome>>, tree # "add", tree # "child",
           tree' \in {"finish", "cancel_all", "unlock", "join", "gone"}
    PROVE  /\ NodeTypeOK' /\ MutexOwned' /\ EndingsJustified' /\ FlagJustified' /\ TimerNumbered'
           /\ SleepNotCancelled' /\ ExecutionsNumbered' /\ StartedInTick'
<1>. USE DEF NodeInv
<1>1. NodeTypeOK'
  BY DEF NodeTypeOK
<1>2. MutexOwned'
  BY DEF MutexOwned
<1>3. EndingsJustified'
  BY EndingsStay
<1>4. SleepNotCancelled' /\ FlagJustified' /\ TimerNumbered'
  BY DEF SleepNotCancelled, FlagJustified, TimerNumbered, Live, Watching, isAction
<1>5. ExecutionsNumbered' /\ StartedInTick'
  BY DEF ExecutionsNumbered, StartedInTick, isAction
<1>. QED
  BY <1>1, <1>2, <1>3, <1>4, <1>5

\* Destruction begins while the node is IDLE.
LEMMA DestroyOK ==
    ASSUME NodeInv, Destroy
    PROVE  NodeInv'
<1>. USE DEF NodeInv
<1>1. /\ tree = "rest" /\ tree' = "finish"
      /\ UNCHANGED <<kind, status, started, signalled, child, mutex, timer, setter, endings>>
  BY DEF Destroy, GoTo
<1>2. QueueInv' /\ UNCHANGED <<idcounter, unlock, finish, worker, current, outcome>>
  BY CancelsOK DEF Destroy
<1>3. ShutdownNotified'
  BY <1>1, <1>2 DEF ShutdownNotified
<1>. QED
  BY <1>1, <1>2, <1>3, AfterTree

\* m_finish, cancelAll(), manualUnlock() and join(), in this order, leave the worker a
\* notification.
LEMMA ShutdownOK ==
    ASSUME NodeInv, Shutdown
    PROVE  NodeInv'
<1>. USE DEF NodeInv
<1>1. UNCHANGED <<kind, status, started, signalled, child, mutex, timer, setter, endings>>
  BY DEF Shutdown
<1>2. /\ tree \in {"finish", "cancel_all", "unlock", "join"}
      /\ tree' \in {"cancel_all", "unlock", "join", "gone"}
      /\ UNCHANGED <<idcounter, worker, current, outcome>>
  BY CancelsOK, SameQueue DEF Shutdown, GoTo, Finish, ManualUnlock, workerVars
<1>3. QueueInv' /\ ShutdownNotified'
  <2>1. CASE tree = "finish" /\ tree' = "cancel_all" /\ Finish
    <3>1. /\ UNCHANGED <<items, idcounter, count, now, workerVars>>
          /\ UNCHANGED unlock /\ finish'
      BY <2>1 DEF Finish
    <3>2. unlock' \in BOOLEAN /\ finish' \in BOOLEAN
      BY <2>1, Zenon DEF Finish, QueueInv, QueueTypeOK
    <3>. QED
      BY <2>1, <3>1, <3>2, KeepQueueOK DEF ShutdownNotified
  <2>2. CASE tree = "cancel_all" /\ tree' = "unlock" /\ CancelAll
    BY <2>2, CancelsOK DEF ShutdownNotified
  <2>3. CASE tree = "unlock" /\ tree' = "join" /\ ManualUnlock
    <3>1. /\ UNCHANGED <<items, idcounter, count, now, workerVars>>
          /\ UNCHANGED <<finish, worker, count>> /\ unlock'
      BY <2>3 DEF ManualUnlock, workerVars
    <3>2. unlock' \in BOOLEAN /\ finish' \in BOOLEAN
      BY <2>3, Zenon DEF ManualUnlock, QueueInv, QueueTypeOK
    <3>. QED
      BY <2>3, <3>1, <3>2, KeepQueueOK DEF ShutdownNotified
  <2>4. CASE tree = "join" /\ tree' = "gone" /\ UNCHANGED queueVars
    BY <2>4, SameQueue DEF ShutdownNotified
  <2>. QED
    BY <2>1, <2>2, <2>3, <2>4 DEF Shutdown, GoTo
<1>. QED
  BY <1>1, <1>2, <1>3, AfterTree

-------------------------------------------------------------------------------
(* The worker                                                              *)

\* A handler that is being called has ended no execution yet.
LEMMA CallIsFirst ==
    ASSUME NodeInv, worker = "call"
    PROVE  /\ current.handler \in 1 .. idcounter /\ LeftTimerBehind(current.handler)
           /\ outcome[current.handler] = IF current.aborted THEN "aborted" ELSE "executed"
BY DEF NodeInv, QueueInv, CallInProgress, EndingsJustified, Called, Pending, LeftTimerBehind

\* A handler sets the flag: its own, or one that an execution before this one left behind.
LEMMA CallbackOK ==
    ASSUME NodeInv, Callback
    PROVE  NodeInv'
<1>. USE DEF NodeInv
<1>1. /\ worker = "call" /\ worker' \in {"halting", "work"}
      /\ UNCHANGED <<kind, status, started, child, tree, timer, endings>>
      /\ UNCHANGED <<items, idcounter, now, count, unlock, finish, until, outcome>>
  BY DEF Callback, Signal, HandlerReturns, Step
<1>2. /\ \/ /\ worker' = "halting" /\ mutex' = "worker" /\ mutex = "free"
            /\ current' = current
         \/ worker' = "work" /\ current' = NoCall /\ mutex' = mutex
  BY DEF Callback, Signal, HandlerReturns, Step
<1>3. /\ current.handler \in 1 .. idcounter /\ idcounter \in 1 .. MaxTimers
      /\ outcome[current.handler] = IF current.aborted THEN "aborted" ELSE "executed"
  BY <1>1, TimersAssumption DEF QueueInv, CallInProgress, QueueTypeOK
<1>4. \/ UNCHANGED <<signalled, setter>>
      \/ signalled' /\ setter' = current.handler /\ (kind = "Sleep" \/ ~current.aborted)
      \/ ~signalled' /\ setter' = setter
  BY Zenon DEF Callback, Signal
<1>5. QueueInv'
  <2>1. CASE worker' = "halting" /\ current' = current
    <3>1. QueueTypeOK'
      BY <1>1, <2>1 DEF QueueInv, QueueTypeOK
    <3>2. TimesBounded' /\ HandlersKept'
      BY <1>1, <3>1, SameItems
    <3>3. CallInProgress' /\ NoMissedDeadline'
      BY <1>1, <2>1 DEF QueueInv, CallInProgress, NoMissedDeadline
    <3>. QED
      BY <3>1, <3>2, <3>3 DEF QueueInv
  <2>2. CASE worker' = "work" /\ current' = NoCall
    BY <1>1, <2>2, WorkerMovesOK DEF QueueInv, QueueTypeOK
  <2>. QED
    BY <1>2, <2>1, <2>2
<1>6. NodeTypeOK'
  <2>1. signalled' \in BOOLEAN
    BY Zenon DEF Callback, Signal, NodeTypeOK
  <2>2. started' \in BOOLEAN
    BY <1>1 DEF NodeTypeOK
  <2>3. setter' \in 0 .. MaxTimers
    <3>1. setter' = setter \/ setter' = current.handler
      BY <1>4, Zenon
    <3>2. setter \in 0 .. MaxTimers
      BY DEF NodeTypeOK
    <3>3. current.handler \in 0 .. MaxTimers
      BY <1>3, TimersAssumption
    <3>. QED
      BY <3>1, <3>2, <3>3, Zenon
  <2>. QED
    BY <1>1, <1>2, <2>1, <2>2, <2>3 DEF NodeTypeOK
<1>7. ShutdownNotified' /\ MutexOwned'
  BY <1>1, <1>2 DEF ShutdownNotified, MutexOwned
<1>8. EndingsJustified'
  BY <1>1 DEF EndingsJustified, Called, Pending, LeftTimerBehind
<1>9. SleepNotCancelled'
  BY <1>1 DEF SleepNotCancelled, WithHandler
<1>10. TimerNumbered'
  BY <1>1 DEF TimerNumbered, Watching, isAction
<1>11. FlagJustified'
  <2>1. SUFFICES ASSUME Live', signalled'
                 PROVE  /\ Called(setter)'
                        /\ setter' = timer \/ kind # "Sleep" => outcome[setter'] = "executed"
                        /\ setter' # timer => LeftTimerBehind(setter)'
    BY <1>1 DEF FlagJustified
  <2>2. Live
    BY <1>1, <2>1 DEF Live, Watching, isAction
  <2>3. CASE UNCHANGED <<signalled, setter>>
    BY <1>1, <2>1, <2>2, <2>3 DEF FlagJustified, Called, Pending, LeftTimerBehind
  <2>4. CASE setter' = current.handler /\ (kind = "Sleep" \/ ~current.aborted)
    <3>1. Called(setter)' /\ LeftTimerBehind(setter)'
      BY <1>1, <1>3, <2>4, CallIsFirst DEF Called, Pending, LeftTimerBehind
    <3>2. ASSUME setter' = timer, kind = "Sleep"
          PROVE  outcome[setter'] = "executed"
      <4>1. timer = idcounter /\ outcome[idcounter] # "aborted"
        BY <1>3, <2>2, <2>4, <3>2
           DEF Live, Watching, TimerNumbered, SleepNotCancelled, isAction, StartedInTick
      <4>. QED
        BY <1>3, <2>4, <3>2, <4>1
    <3>. QED
      BY <1>3, <2>4, <3>1, <3>2
  <2>. QED
    BY <1>4, <2>1, <2>3, <2>4
<1>12. ExecutionsNumbered' /\ StartedInTick'
  BY <1>1, <1>3 DEF ExecutionsNumbered, StartedInTick, isAction
<1>. QED
  BY <1>5, <1>6, <1>7, <1>8, <1>9, <1>10, <1>11, <1>12

\* The timer of a Timeout has halted the child, and gives the mutex back.
LEMMA HaltByTimerOK ==
    ASSUME NodeInv, HaltByTimer
    PROVE  NodeInv'
<1>. USE DEF NodeInv
<1>1. /\ worker = "halting" /\ worker' = "work" /\ current' = NoCall
      /\ child' = "IDLE" /\ mutex' = "free"
      /\ UNCHANGED <<kind, status, started, signalled, tree, timer, setter, endings>>
      /\ UNCHANGED <<items, idcounter, now, count, unlock, finish, until, outcome>>
  BY DEF HaltByTimer, HandlerReturns, Step
<1>2. QueueInv'
  BY <1>1, WorkerMovesOK DEF QueueInv, QueueTypeOK
<1>3. NodeTypeOK'
  BY <1>1 DEF NodeTypeOK
<1>4. ShutdownNotified' /\ MutexOwned'
  BY <1>1 DEF ShutdownNotified, MutexOwned
<1>5. EndingsJustified'
  BY <1>1 DEF EndingsJustified, Called, Pending, LeftTimerBehind
<1>6. SleepNotCancelled' /\ FlagJustified' /\ TimerNumbered'
  BY <1>1 DEF SleepNotCancelled, WithHandler, FlagJustified, TimerNumbered, Live, Watching,
              Called, Pending, LeftTimerBehind, isAction
<1>7. ExecutionsNumbered' /\ StartedInTick'
  BY <1>1 DEF ExecutionsNumbered, StartedInTick, isAction
<1>. QED
  BY <1>2, <1>3, <1>4, <1>5, <1>6, <1>7

\* The worker and time touch nothing of the node.
LEMMA QueueStepOK ==
    ASSUME NodeInv, QueueStep
    PROVE  NodeInv'
<1>. USE DEF NodeInv
<1>1. UNCHANGED <<kind, status, started, signalled, child, mutex, tree, timer, setter, endings>>
  BY DEF QueueStep, nodeVars
<1>2. NodeTypeOK'
  BY <1>1 DEF NodeTypeOK
<1>3. QueueInv'
  BY TickOK, WorkerStepOK DEF QueueStep, ShutdownNotified
<1>4. idcounter' = idcounter /\ UNCHANGED finish
  BY DEF QueueStep, WorkerStep, Tick, LoopCheck, CalcWaitTime, Woken, TimedOut, CheckWork
<1>5. ExecutionsNumbered' /\ StartedInTick'
  BY <1>1, <1>4 DEF ExecutionsNumbered, StartedInTick, isAction
<1>6. MutexOwned'
  BY <1>1 DEF MutexOwned, QueueStep, WorkerStep, Tick, workerVars, LoopCheck, CalcWaitTime, Woken,
              TimedOut, CheckWork, Step
<1>7. ShutdownNotified'
  <2>1. unlock' => unlock
    BY DEF QueueStep, WorkerStep, Tick, LoopCheck, CalcWaitTime, Woken, TimedOut, CheckWork
  <2>2. tree \in {"unlock", "join", "gone"} /\ worker' \in {"calc", "wait"} => count' > 0
    BY DEF ShutdownNotified, QueueStep, WorkerStep, Tick, workerVars, LoopCheck, CalcWaitTime, Woken,
           TimedOut, CheckWork, Step
  <2>. QED
    BY <1>1, <1>4, <2>1, <2>2 DEF ShutdownNotified
<1>8. CASE UNCHANGED <<current, outcome>> /\ (worker' = worker \/ (worker # "call" /\ worker' # "call"))
           /\ WithHandler' \subseteq WithHandler
  BY <1>1, <1>2, <1>3, <1>4, <1>5, <1>6, <1>7, <1>8
     DEF EndingsJustified, SleepNotCancelled, FlagJustified, TimerNumbered, Live, Watching,
         Called, Pending, LeftTimerBehind, isAction
<1>9. ASSUME NEW top \in WithHandler, worker = "work",
             worker' = "call", items' \subseteq items, current'.handler = top.handler,
             outcome' = [outcome EXCEPT ![top.handler] = IF top.id = 0 THEN "aborted" ELSE "executed"]
      PROVE  NodeInv'
  <2>1. /\ outcome[top.handler] = "none" /\ top.handler \in Handler
        /\ \A h \in Handler : h # top.handler => outcome'[h] = outcome[h]
        /\ outcome'[top.handler] = IF top.id = 0 THEN "aborted" ELSE "executed"
    BY <1>9, TimersAssumption
       DEF QueueInv, HandlersKept, WithHandler, QueueTypeOK, Item
  <2>4. idcounter \in 0 .. MaxTimers
    BY DEF QueueInv, QueueTypeOK
  <2>2. \A h \in 1 .. idcounter : Called(h) => Called(h)' /\ outcome'[h] = outcome[h]
    BY <1>4, <1>9, <2>1, <2>4 DEF Called, Pending
  <2>5. EndingsJustified'
    BY <1>1, <2>2 DEF EndingsJustified, Called, LeftTimerBehind
  <2>6. TimerNumbered'
    BY <1>1, <1>4 DEF TimerNumbered, Watching, isAction
  <2>7. FlagJustified'
    BY <1>1, <2>2 DEF FlagJustified, Live, Watching, Called, LeftTimerBehind, isAction
  <2>8. SleepNotCancelled'
    <3>1. SUFFICES ASSUME kind = "Sleep", status = "RUNNING", tree \in {"rest", "halting"}
                   PROVE  /\ outcome'[idcounter] # "aborted"
                          /\ \A i \in WithHandler : i.handler = idcounter => i.id # 0
      BY <1>1, <1>4, <1>9 DEF SleepNotCancelled, WithHandler
    <3>2. idcounter \in Handler
      BY <2>4, <3>1 DEF ExecutionsNumbered
    <3>. QED
      BY <1>9, <2>1, <3>1, <3>2 DEF SleepNotCancelled
  <2>. QED
    BY <1>2, <1>3, <1>5, <1>6, <1>7, <2>5, <2>6, <2>7, <2>8
<1>. QED
  <2>1. CASE Tick
    BY <1>8, <2>1 DEF Tick, workerVars, WithHandler
  <2>2. CASE LoopCheck \/ Woken \/ TimedOut
    BY <1>8, <2>2 DEF LoopCheck, Woken, TimedOut, Step, WithHandler
  <2>3. CASE CalcWaitTime
    BY <1>8, <2>3 DEF CalcWaitTime, Step, WithHandler
  <2>4. CASE CheckWork
    BY <1>8, <1>9, <2>4 DEF CheckWork, Step, Due, WithHandler
  <2>. QED
    BY <2>1, <2>2, <2>3, <2>4 DEF QueueStep, WorkerStep

-------------------------------------------------------------------------------
(* The theorems                                                            *)

\* NodeInv is inductive: it holds of every reachable state of a timed node.
THEOREM TimedNodeInvariant == Spec => []NodeInv
<1>1. ASSUME NodeInv, [Next]_vars
      PROVE  NodeInv'
  <2>1. CASE TickStep
    BY <1>1, <2>1, StartOK, AddTimerOK, PollOK, TickAgainOK, LockOK, ChildTicksOK, CancelTimerOK, RelockOK
       DEF TickStep
  <2>2. CASE HaltStep
    BY <1>1, <2>2, HaltOK, HaltTimersOK, HaltChildOK, DestroyOK, ShutdownOK DEF HaltStep
  <2>3. CASE UNCHANGED vars
    <3>1. UNCHANGED queueVars /\ UNCHANGED <<kind, status, started, signalled, child, mutex, tree, timer, setter, endings>>
      BY <2>3 DEF vars, nodeVars
    <3>2. /\ QueueInv'
          /\ UNCHANGED <<items, idcounter, count, unlock, finish, worker, current, outcome>>
      BY <1>1, <3>1, SameQueue DEF NodeInv
    <3>3. NodeTypeOK' /\ ShutdownNotified' /\ MutexOwned' /\ StartedInTick' /\ ExecutionsNumbered'
      BY <1>1, <3>1, <3>2
         DEF NodeInv, NodeTypeOK, ShutdownNotified, MutexOwned, StartedInTick, ExecutionsNumbered, isAction
    <3>4. EndingsJustified' /\ FlagJustified' /\ TimerNumbered' /\ SleepNotCancelled'
      BY <1>1, <3>1, <3>2
         DEF NodeInv, EndingsJustified, SleepNotCancelled, WithHandler, FlagJustified, TimerNumbered,
             Live, Watching, Called, Pending, LeftTimerBehind, isAction
    <3>. QED
      BY <3>2, <3>3, <3>4 DEF NodeInv
  <2>. QED
    BY <1>1, <2>1, <2>2, <2>3, QueueStepOK, CallbackOK, HaltByTimerOK DEF Next, Gone
<1>. QED
  BY <1>1, NodeInitOK, PTL DEF Spec

\* TimerQueue and the node keep their types: ids and times stay within the bounds that
\* the number of add() calls and their delays allow.
THEOREM TimedNodeTypeCorrect == Spec => []TypeOK
<1>1. NodeInv => TypeOK
  BY DEF NodeInv, QueueInv, TypeOK
<1>. QED
  BY <1>1, TimedNodeInvariant, PTL

\* cancel(), cancelAll() and checkWork() move a handler between items and off the queue
\* without losing or doubling it.
THEOREM HandlersNotLost == Spec => []NoHandlerLost
<1>1. ASSUME NodeInv
      PROVE  NoHandlerLost
  <2>. USE DEF NodeInv, QueueInv
  <2>1. SUFFICES ASSUME NEW h \in 1 .. idcounter
                 PROVE  Cardinality({i \in items : i.handler = h})
                          = IF outcome[h] = "none" THEN 1 ELSE 0
    BY DEF NoHandlerLost
  <2>2. CASE outcome[h] = "none"
    <3>1. PICK k \in items : k.handler = h
      BY <1>1, <2>2 DEF HandlersKept
    <3>2. {i \in items : i.handler = h} = {k}
      BY <1>1, <3>1 DEF HandlersKept, WithHandler, QueueTypeOK
    <3>. QED
      BY <2>2, <3>2, FS_Singleton
  <2>3. CASE outcome[h] # "none"
    <3>1. {i \in items : i.handler = h} = {}
      BY <1>1, <2>3 DEF HandlersKept, WithHandler, QueueTypeOK
    <3>. QED
      BY <2>3, <3>1, FS_EmptySet
  <2>. QED
    BY <2>2, <2>3
<1>. QED
  BY <1>1, TimedNodeInvariant, PTL

\* waitUntil() never sleeps past the end of an item that still has a handler.
THEOREM DeadlinesMet == Spec => []NoMissedDeadline
<1>1. NodeInv => NoMissedDeadline
  BY DEF NodeInv, QueueInv
<1>. QED
  BY <1>1, TimedNodeInvariant, PTL

\* timeout_mutex_ keeps the timer's haltChild() out of the child's tick.
THEOREM TimeoutHaltsBetweenTicks == Spec => []NoHaltInsideTick
<1>1. NodeInv => NoHaltInsideTick
  BY DEF NodeInv, MutexOwned, NoHaltInsideTick
<1>. QED
  BY <1>1, TimedNodeInvariant, PTL

\* Whatever ends a delay or timeout was called since it began: the handler of its own timer,
\* executed in time, or a late one of a former execution that left its timer behind.
THEOREM EndsNotEarly == Spec => []NotEarly
<1>1. NodeInv => NotEarly
  BY DEF NodeInv, QueueInv, QueueTypeOK, EndingsJustified, Called, NotEarly
<1>. QED
  BY <1>1, TimedNodeInvariant, PTL

-------------------------------------------------------------------------------
(* The queue implements TimerService                                       *)

\* The fate of a handler read off the queue, one case at a time.
LEMMA FateOf ==
    ASSUME NEW h \in Handler
    PROVE  /\ outcome[h] # "none" => Fate[h] = outcome[h]
           /\ outcome[h] = "none" /\ h > idcounter => Fate[h] = "new"
           /\ outcome[h] = "none" /\ ~(h > idcounter) /\ (\E i \in items : i.handler = h /\ i.id = 0)
                => Fate[h] = "cancelled"
           /\ outcome[h] = "none" /\ ~(h > idcounter) /\ ~(\E i \in items : i.handler = h /\ i.id = 0)
                => Fate[h] = "waiting"
BY DEF Fate

\* What became of the handlers depends on the ids, outcomes and items with a handler
\* only.
LEMMA SameFate ==
    ASSUME idcounter' = idcounter, outcome' = outcome, WithHandler' = WithHandler
    PROVE  Fate' = Fate
<1>1. ASSUME NEW h \in Handler
      PROVE  (\E i \in items : i.handler = h /\ i.id = 0)' <=> \E i \in items : i.handler = h /\ i.id = 0
  BY TimersAssumption DEF WithHandler
<1>. QED
  BY <1>1 DEF Fate

\* At first every handler is new.
LEMMA FateInit ==
    ASSUME QueueInit
    PROVE  Service!Init
<1>1. Fate = [h \in Handler |-> "new"]
  BY TimersAssumption DEF QueueInit, Fate
<1>2. finish = FALSE
  BY DEF QueueInit
<1>. QED
  BY <1>1, <1>2 DEF Service!Init

\* add() is Add of the handler it numbers.
LEMMA AddServes ==
    ASSUME NodeInv, NEW msec \in 0 .. MaxDelay, Add(msec), ~finish
    PROVE  Service!Add(idcounter')
<1>. USE DEF NodeInv, QueueInv
<1>1. /\ idcounter \in Nat /\ idcounter' = idcounter + 1 /\ idcounter' \in Handler
      /\ items' = items \cup {[id |-> idcounter', end |-> now + msec, handler |-> idcounter']}
      /\ outcome' = outcome /\ finish' = finish
  BY TimersAssumption DEF Add, workerVars, QueueTypeOK
<1>2. outcome[idcounter'] = "none" /\ \A i \in items : i.handler # idcounter'
  BY <1>1 DEF HandlersKept, QueueTypeOK, WithHandler, Item
<1>3. Fate[idcounter'] = "new"
  BY <1>1, <1>2 DEF Fate
<1>4. ASSUME NEW h \in Handler
      PROVE  Fate'[h] = IF h = idcounter' THEN "waiting" ELSE Fate[h]
  <2>1. (\E i \in items : i.handler = h /\ i.id = 0)' <=> \E i \in items : i.handler = h /\ i.id = 0
    BY <1>1
  <2>2. CASE h = idcounter'
    BY <1>1, <1>2, <2>1, <2>2 DEF Fate
  <2>3. CASE h # idcounter'
    <3>1. h > idcounter' <=> h > idcounter
      BY <1>1, <2>3
    <3>. QED
      BY <1>1, <2>1, <2>3, <3>1 DEF Fate
  <2>. QED
    BY <2>2, <2>3
<1>5. Fate' = [h \in Handler |-> IF h \in {idcounter'} THEN "waiting" ELSE Fate[h]]
  BY <1>4 DEF Fate
<1>. QED
  BY <1>1, <1>3, <1>5 DEF Service!Add, Service!Move

\* cancel() of the current execution is Cancel of its handler, if that still waits.
LEMMA CancelServes ==
    ASSUME NodeInv, Cancel(Execution)
    PROVE  Fate' = Fate \/ (Execution \in Handler /\ Service!Cancel({Execution}))
<1>. USE DEF NodeInv, QueueInv
<1>. DEFINE found == {i \in WithHandler : i.id = Execution}
<1>1. /\ items' = (items \ found) \cup {[i EXCEPT !.handler = 0] : i \in found}
                    \cup {[id |-> 0, end |-> 0, handler |-> i.handler] : i \in found}
      /\ UNCHANGED <<idcounter, outcome, finish>>
  BY DEF Cancel, workerVars
<1>2. idcounter \in 0 .. MaxTimers
  BY DEF QueueTypeOK
<1>. HIDE DEF found
<1>3. CASE found = {}
  <2>1. items' = items
    BY <1>1, <1>3
  <2>. QED
    BY <1>1, <2>1, SameFate DEF WithHandler
<1>4. CASE Execution = 0
  <2>1. \A i \in found : i \in items /\ i.id = 0
    BY <1>4 DEF found, WithHandler
  <2>2. ASSUME NEW h \in Handler
        PROVE  (\E i \in items : i.handler = h /\ i.id = 0)' <=> \E i \in items : i.handler = h /\ i.id = 0
    <3>1. ASSUME NEW i \in items, i.handler = h, i.id = 0
          PROVE  \E j \in items' : j.handler = h /\ j.id = 0
      <4>. DEFINE moved == [id |-> 0, end |-> 0, handler |-> i.handler]
      <4>1. i \in found
        BY <1>4, <3>1, TimersAssumption DEF found, WithHandler
      <4>2. moved \in items' /\ moved.handler = h /\ moved.id = 0
        BY <1>1, <3>1, <4>1
      <4>. QED
        BY <4>2
    <3>2. ASSUME NEW i \in items', i.handler = h, i.id = 0
          PROVE  \E j \in items : j.handler = h /\ j.id = 0
      BY <1>1, <2>1, <3>2, TimersAssumption DEF QueueTypeOK, Item
    <3>. QED
      BY <3>1, <3>2
  <2>. QED
    BY <1>1, <2>2 DEF Fate
<1>5. ASSUME NEW k \in found, Execution # 0
      PROVE  Execution \in Handler /\ Service!Cancel({Execution})
  <2>1. /\ k \in WithHandler /\ k.id = idcounter /\ k.handler = idcounter /\ idcounter \in Handler
        /\ outcome[idcounter] = "none"
    BY <1>2, <1>5 DEF found, HandlersKept, Execution
  <2>2. found = {k}
    BY <1>2, <2>1 DEF found, HandlersKept, Execution
  <2>3. Fate[idcounter] = "waiting"
    <3>1. ~ \E i \in items : i.handler = idcounter /\ i.id = 0
      BY <1>2, <2>1 DEF HandlersKept, WithHandler
    <3>. QED
      BY <1>2, <2>1, <3>1 DEF Fate
  <2>4. ASSUME NEW h \in Handler, h # idcounter
        PROVE  (\E i \in items : i.handler = h /\ i.id = 0)' <=> \E i \in items : i.handler = h /\ i.id = 0
    BY <1>1, <2>1, <2>2, <2>4, TimersAssumption DEF WithHandler, QueueTypeOK, Item
  <2>5. \E i \in items' : i.handler = idcounter /\ i.id = 0
    <3>. DEFINE moved == [id |-> 0, end |-> 0, handler |-> k.handler]
    <3>1. moved \in items' /\ moved.handler = idcounter /\ moved.id = 0
      BY <1>1, <2>1
    <3>. QED
      BY <3>1
  <2>6. Fate'[idcounter] = "cancelled"
    BY <1>1, <1>2, <2>1, <2>5 DEF Fate
  <2>7. ASSUME NEW h \in Handler, h # idcounter
        PROVE  Fate'[h] = Fate[h]
    BY <1>1, <2>4, <2>7 DEF Fate
  <2>8. Fate' = [h \in Handler |-> IF h \in {idcounter} THEN "cancelled" ELSE Fate[h]]
    BY <2>6, <2>7 DEF Fate
  <2>. QED
    BY <1>1, <2>1, <2>3, <2>8 DEF Service!Cancel, Service!Move, Execution
<1>. QED
  BY <1>3, <1>4, <1>5

\* cancelAll() is Cancel of all handlers that wait.
LEMMA CancelAllServes ==
    ASSUME NodeInv, CancelAll
    PROVE  \E H \in SUBSET Handler : Service!Cancel(H)
<1>. USE DEF NodeInv, QueueInv
<1>. DEFINE gone(i) == [id |-> 0, end |-> 0, handler |-> i.handler]
            H == {h \in Handler : Fate[h] = "waiting"}
<1>1. items' = {gone(i) : i \in items} /\ UNCHANGED <<idcounter, outcome, finish>>
  BY DEF CancelAll, workerVars
<1>2. idcounter \in 0 .. MaxTimers
  BY DEF QueueTypeOK
<1>3. ASSUME NEW h \in Handler
      PROVE  Fate'[h] = IF h \in H THEN "cancelled" ELSE Fate[h]
  <2>1. CASE outcome[h] = "none" /\ ~(h > idcounter)
    <3>1. PICK k \in items : k.handler = h
      BY <1>2, <2>1 DEF HandlersKept
    <3>2. gone(k) \in items' /\ gone(k).handler = h /\ gone(k).id = 0
      BY <1>1, <3>1
    <3>3. Fate'[h] = "cancelled"
      BY <1>1, <2>1, <3>2 DEF Fate
    <3>4. Fate[h] \in {"cancelled", "waiting"}
      BY <2>1, FateOf
    <3>. QED
      BY <3>3, <3>4
  <2>2. CASE outcome[h] # "none"
    <3>1. Fate[h] = outcome[h] /\ Fate'[h] = outcome[h] /\ outcome[h] \in {"executed", "aborted"}
      BY <1>1, <2>2 DEF Fate, QueueTypeOK
    <3>. QED
      BY <3>1
  <2>3. CASE outcome[h] = "none" /\ h > idcounter
    <3>1. Fate[h] = "new" /\ Fate'[h] = "new"
      BY <1>1, <2>3 DEF Fate
    <3>. QED
      BY <3>1
  <2>. QED
    BY <2>1, <2>2, <2>3
<1>4. Fate' = [h \in Handler |-> IF h \in H THEN "cancelled" ELSE Fate[h]]
  BY <1>3 DEF Fate
<1>5. H \in SUBSET Handler /\ \A h \in H : Fate[h] = "waiting"
  OBVIOUS
<1>. HIDE DEF H
<1>6. Service!Cancel(H)
  BY <1>1, <1>4, <1>5 DEF Service!Cancel, Service!Move
<1>. QED
  BY <1>5, <1>6

\* checkWork() is Execute or Abort of the handler it takes off, or nothing.
LEMMA CheckWorkServes ==
    ASSUME NodeInv, CheckWork
    PROVE  Fate' = Fate \/ \E h \in Handler : Service!Execute(h) \/ Service!Abort(h)
<1>. USE DEF NodeInv, QueueInv
<1>1. CASE UNCHANGED <<items, idcounter, outcome>>
  BY <1>1, SameFate DEF WithHandler
<1>2. ASSUME NEW top \in items, top.handler = 0, items' = items \ {top}, UNCHANGED <<idcounter, outcome>>
      PROVE  Fate' = Fate
  BY <1>2, SameFate DEF WithHandler
<1>3. ASSUME NEW top \in items, top.handler # 0, items' = items \ {top}, UNCHANGED <<idcounter, finish>>,
             outcome' = [outcome EXCEPT ![top.handler] = IF top.id = 0 THEN "aborted" ELSE "executed"]
      PROVE  \E h \in Handler : Service!Execute(h) \/ Service!Abort(h)
  <2>. DEFINE to == IF top.id = 0 THEN "aborted" ELSE "executed"
              from == IF top.id = 0 THEN "cancelled" ELSE "waiting"
  <2>1. /\ top \in WithHandler /\ top.handler \in Handler /\ ~(top.handler > idcounter)
        /\ outcome[top.handler] = "none" /\ outcome'[top.handler] = to
        /\ idcounter \in 0 .. MaxTimers
        /\ \A i \in items : i.handler = top.handler => i = top
    BY <1>3, TimersAssumption DEF HandlersKept, WithHandler, QueueTypeOK, Item
  <2>2. Fate[top.handler] = from
    <3>1. (\E i \in items : i.handler = top.handler /\ i.id = 0) <=> top.id = 0
      BY <2>1
    <3>. QED
      BY <2>1, <3>1 DEF Fate
  <2>3. Fate'[top.handler] = to
    BY <2>1 DEF Fate
  <2>4. ASSUME NEW h \in Handler, h # top.handler
        PROVE  Fate'[h] = Fate[h]
    <3>1. (\E i \in items : i.handler = h /\ i.id = 0)' <=> \E i \in items : i.handler = h /\ i.id = 0
      BY <1>3, <2>4
    <3>2. outcome'[h] = outcome[h]
      BY <1>3, <2>4
    <3>. QED
      BY <1>3, <3>1, <3>2 DEF Fate
  <2>5. Fate' = [h \in Handler |-> IF h \in {top.handler} THEN to ELSE Fate[h]]
    BY <2>3, <2>4 DEF Fate
  <2>. QED
    BY <1>3, <2>1, <2>2, <2>5 DEF Service!Execute, Service!Abort, Service!Move
<1>. QED
  BY <1>1, <1>2, <1>3 DEF CheckWork, Due

\* Every step of a timed node is a step of TimerService or leaves the fate of all handlers.
LEMMA StepServes ==
    ASSUME NodeInv, [Next]_vars
    PROVE  [Service!Next]_Service!vars
<1>1. CASE UNCHANGED queueVars
  BY <1>1, SameFate DEF queueVars, workerVars, WithHandler, Service!vars
<1>2. CASE Cancel(Execution)
  BY <1>2, CancelServes DEF Service!Next, Service!vars, Cancel
<1>3. CASE CancelAll
  BY <1>3, CancelAllServes DEF Service!Next
<1>4. CASE UNCHANGED <<idcounter, outcome, finish>> /\ WithHandler' = WithHandler
  BY <1>4, SameFate DEF Service!vars
<1>5. CASE TickStep
  <2>1. CASE AddTimer
    <3>1. ASSUME NEW msec \in 0 .. MaxDelay, Add(msec)
          PROVE  Service!Next
      <4>1. idcounter' \in Handler
        BY <3>1, TimersAssumption DEF Add, NodeInv, QueueInv, QueueTypeOK
      <4>2. ~finish
        BY <2>1 DEF AddTimer, GoTo, NodeInv, ShutdownNotified
      <4>. QED
        BY <3>1, <4>1, <4>2, AddServes DEF Service!Next
    <3>. QED
      BY <1>1, <2>1, <3>1 DEF AddTimer
  <2>. QED
    BY <1>1, <1>2, <1>5, <2>1
       DEF TickStep, Start, Poll, TickAgain, Lock, ChildTicks, CancelTimer, Relock
<1>6. CASE HaltStep
  <2>1. CASE Finish
    <3>1. Fate' = Fate
      BY <2>1, SameFate DEF Finish, workerVars, WithHandler
    <3>. QED
      BY <2>1, <3>1 DEF Finish, Service!Next, Service!Close
  <2>2. CASE ManualUnlock
    BY <1>4, <2>2 DEF ManualUnlock, workerVars, WithHandler
  <2>. QED
    BY <1>1, <1>2, <1>3, <1>6, <2>1, <2>2
       DEF HaltStep, Halt, HaltTimers, HaltChild, Destroy, Shutdown
<1>7. CASE QueueStep
  <2>1. CASE CheckWork
    BY <2>1, CheckWorkServes DEF Service!Next, Service!vars, CheckWork
  <2>2. CASE CalcWaitTime
    BY <1>4, <2>2 DEF CalcWaitTime, WithHandler
  <2>3. CASE LoopCheck \/ Woken \/ TimedOut \/ Tick
    BY <1>4, <2>3 DEF LoopCheck, Woken, TimedOut, Tick, workerVars, WithHandler
  <2>. QED
    BY <1>7, <2>1, <2>2, <2>3 DEF QueueStep, WorkerStep
<1>8. CASE Callback \/ HaltByTimer
  BY <1>4, <1>8 DEF Callback, HaltByTimer, HandlerReturns, WithHandler
<1>. QED
  BY <1>1, <1>5, <1>6, <1>7, <1>8 DEF Next, Gone, vars

\* The safety part of HandlersExecutedOnce: a TimerQueue and the node that owns it implement
\* TimerService.  A handler is called at most once, by its time or, aborted, after it was
\* cancelled, and none is added once the destructor has begun.
THEOREM QueueServes == Spec => Service!Spec
<1>1. Init => Service!Init
  BY FateInit DEF Init
<1>2. NodeInv /\ [Next]_vars => [Service!Next]_Service!vars
  BY StepServes
<1>. QED
  BY <1>1, <1>2, TimedNodeInvariant, PTL DEF Spec, Service!Spec

===============================================================================
