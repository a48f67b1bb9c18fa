---------------------------- MODULE ExecutionProofs ----------------------------
(***************************************************************************)
(* What one execution of a node leaves to the next, for every tree: the    *)
(* members of a node that is not RUNNING are as at the start, a completed  *)
(* child is not executed again before its parent is through, no node is    *)
(* ticked with the status of an older execution, what it answers is what   *)
(* its children answered in this one, a subtree in which nothing can be    *)
(* skipped is not, and a tree that answers RUNNING goes on by itself.      *)
(***************************************************************************)
EXTENDS BehaviorTreeProofs, FiniteSetTheorems

USE DEF NodeStatus, IDLE, RUNNING, SUCCESS, FAILURE, SKIPPED, Completed,
        isStatusActive, isStatusCompleted

-------------------------------------------------------------------------------
(* The inductive invariant                                                 *)

\* No callback answers for n.
Free(n) == n \notin PreTick \cup PostTick

\* The classes that set themselves RUNNING before they tick a child, and whose members
\* are of one execution.
SelfRunning == (LinearKinds \ {"SequenceWithMemory"}) \cup ParallelKinds \cup Counting
               \cup {"IfThenElse"}

AtWork == InCall => \A a \in Above[cur] : Kind[a] \in SelfRunning => status[a] = RUNNING

\* A node that is not RUNNING, nor about to be, starts from the beginning.
FreshIdle ==
    \A n \in Node :
        Free(n) /\ status[n] # RUNNING /\ ~(pc = "ticked" /\ cur = n /\ ret = RUNNING) =>
            Restarted(n)

FreshAnswer ==
    pc \in {"ticked", "preempted", "reply"} /\ ret \in Completed /\ Free(cur) => Restarted(cur)

\* The positions a class has behind it in this execution.
Indexed == LinearKinds \cup {"IfThenElse"}

Visited(n) ==
    IF Kind[n] \in Indexed THEN 1 .. mem[n].idx - 1
    ELSE IF Kind[n] \in ParallelKinds THEN Done(mem[n]) ELSE {}

\* Each caller waits for the child on the way to cur, which is not behind it.
WaitsFor(a, j) ==
    /\ j \in Positions(a) /\ j \notin Visited(a)
    /\ Children[a][j] = cur \/ Children[a][j] \in Above[cur]
    /\ Kind[a] \in Indexed => j = mem[a].idx

AtChild == InCall => \A a \in Above[cur] : WaitsFor(a, frame[a].j)

\* A SequenceWithMemory comes back to the child that failed.
Retried(n, s) == Kind[n] = "SequenceWithMemory" /\ s = FAILURE

\* n is about to answer for good.
Ends(n) == pc = "ticked" /\ cur = n /\ ret \notin {RUNNING, IDLE} /\ ~Retried(n, ret)

\* The classes that remember which children have completed.
Remembering(n) ==
    /\ Kind[n] \in Indexed \cup ParallelKinds
    /\ ~(Kind[n] = "SequenceWithMemory" /\ n \in PostTick)

Told ==
    \A n \in Node : Remembering(n) => \A i \in Positions(n) :
        heard[Children[n][i]] \in Completed /\ ~Retried(n, heard[Children[n][i]]) =>
            \/ i \in Visited(n)
            \/ pc = "reply" /\ cur = Children[n][i] /\ ret \in Completed
            \/ Ends(n)

\* What executeTick() has returned is what the node is now.
Real == pc = "reply" => ret # IDLE /\ heard[cur] = ret /\ (ret # SKIPPED => status[cur] = ret)

\* k has just completed; a SimpleAction sets its status in tick() already.
JustDone(k) ==
    /\ ret \in Completed /\ cur = k
    /\ pc = "reply" \/ (pc = "ticked" /\ Kind[k] = "SimpleAction")

\* k may be left completed.
Kept(k) == KeptCondition(k) \/ LeftCompleted(k)

\* Nodes that may leave a child completed: a reactive node that an exception stops
\* half way, and a decorator whose functor throws.
Unreset(n) ==
    \/ Kind[n] \in ReactiveKinds
    \/ Kind[n] = "SimpleDecorator" /\ IDLE \in Answers[n]

\* executeTick() of a decorator is about to reset the child.
Resets(n) == pc = "ticked" /\ cur = n /\ Kind[n] \in DecoratorKinds /\ ret # IDLE

\* A child that has completed is behind its parent, or about to be.
Cleared ==
    \A n \in Node : ~Unreset(n) => \A i \in Positions(n) :
        status[Children[n][i]] \in Completed =>
            \/ i \in Visited(n)
            \/ JustDone(Children[n][i])
            \/ Resets(n)
            \/ Kept(Children[n][i])

RootCleared == \A r \in Roots : status[r] \in Completed => JustDone(r) \/ LeftCompleted(r)

ExecInv ==
    /\ HaltInv
    /\ AtWork /\ FreshIdle /\ FreshAnswer
    /\ AtChild /\ Told /\ Real
    /\ Cleared /\ RootCleared

-------------------------------------------------------------------------------
(* Halts and resets                                                        *)

\* What a node has heard of its children stays as it is.
SameHeard(x) == \A k \in Kids(x) : heard'[k] = heard[k]

\* What a halt of H and a reset of R leave of a node.
HaltTrace(H, R) ==
    /\ \A x \in Node : heard'[x] \in {IDLE, heard[x]} /\ status'[x] \in {IDLE, status[x]}
    /\ \A x \in Node : status[x] = RUNNING /\ status'[x] # RUNNING => x \in H
    /\ \A x \in H : Kind[x] \notin KeepsMemory =>
          \A k \in Kids(x) : heard'[k] = IDLE /\ (StopsHalt(x) \/ status'[k] = IDLE)
    /\ \A x \in Node : x \notin H \/ Kind[x] \in KeepsMemory => SameHeard(x)
    /\ \A k \in R : status'[k] = IDLE

\* The halt of a set that every halted node passes on leaves such a trace.
LEMMA HaltTraceOf ==
    ASSUME TypeOK, NEW H \in SUBSET Node, NEW R \in SUBSET Node, PassedOn(H),
           \A x \in R : status[x] = RUNNING => x \in H,
           status' = StatusAfter(H, R), heard' = HeardAfter(H)
    PROVE  HaltTrace(H, R)
<1>1. \A x \in Node : heard'[x] \in {IDLE, heard[x]}
  BY DEF HeardAfter
<1>2. \A x \in Node : status'[x] \in {IDLE, status[x]}
  BY DEF StatusAfter
<1>3. ASSUME NEW x \in Node, status[x] = RUNNING, status'[x] # RUNNING
      PROVE  x \in H
  <2>1. x \in R \/ ResetByHalt(H, x)
    BY <1>3 DEF StatusAfter
  <2>2. CASE ResetByHalt(H, x)
    BY <1>3, <2>2 DEF ResetByHalt, PassedOn
  <2>. QED
    BY <1>3, <2>1, <2>2
<1>4. ASSUME NEW x \in H, Kind[x] \notin KeepsMemory, NEW k \in Kids(x)
      PROVE  heard'[k] = IDLE /\ (StopsHalt(x) \/ status'[k] = IDLE)
  <2>1. k \in Node /\ k \notin Roots /\ Parent[k] = x
    BY KidFacts
  <2>. QED
    BY <1>4, <2>1 DEF HeardAfter, StatusAfter, ResetByHalt
<1>5. \A k \in R : status'[k] = IDLE
  BY DEF StatusAfter
<1>6. ASSUME NEW x \in Node, x \notin H \/ Kind[x] \in KeepsMemory
      PROVE  SameHeard(x)
  <2>. SUFFICES ASSUME NEW k \in Kids(x) PROVE heard'[k] = heard[k]
    BY DEF SameHeard
  <2>1. k \in Node /\ k \notin Roots /\ Parent[k] = x
    BY KidFacts
  <2>. QED
    BY <1>6, <2>1 DEF HeardAfter
<1>. QED
  BY <1>1, <1>2, <1>3, <1>4, <1>5, <1>6 DEF HaltTrace

\* x is left alone, or its halt() has cleared what it knew of its children.
Moved(x) ==
    \/ /\ mem'[x] = mem[x] /\ SameHeard(x)
       /\ status[x] = RUNNING => status'[x] = RUNNING \/ Kind[x] \in KeepsMemory
    \/ /\ mem'[x] = FreshMem(x)
       /\ \A k \in Kids(x) : heard'[k] = IDLE /\ (StopsHalt(x) \/ status'[k] = IDLE)

\* A node a halt has touched is cleared, any other is left alone.
LEMMA HaltMoves ==
    ASSUME NEW H, NEW R, HaltTrace(H, R), NEW x \in Node, mem'[x] = MemAfter(H)[x]
    PROVE  Moved(x)
<1>1. CASE x \in H /\ Kind[x] \notin KeepsMemory
  BY <1>1 DEF MemAfter, HaltTrace, Moved
<1>2. CASE ~(x \in H /\ Kind[x] \notin KeepsMemory)
  <2>1. mem'[x] = mem[x]
    BY <1>2 DEF MemAfter
  <2>2. status[x] = RUNNING => status'[x] = RUNNING \/ Kind[x] \in KeepsMemory
    BY <1>2 DEF HaltTrace
  <2>3. SameHeard(x)
    BY <1>2 DEF HaltTrace
  <2>. QED
    BY <2>1, <2>2, <2>3 DEF Moved
<1>. QED
  BY <1>1, <1>2

\* A node that has just been created or halted starts from the beginning.
LEMMA FreshRestarted ==
    ASSUME NEW x \in Node, mem'[x] = FreshMem(x)
    PROVE  Restarted(x)'
BY DEF Restarted, FreshMem, Done, LinearKinds, ReactiveKinds, ParallelKinds, UpdatedKinds

\* The classes whose halt() leaves their members alone are not among those that must
\* start from the beginning.
LEMMA KeepersRestarted ==
    ASSUME NEW x \in Node, Kind[x] \in KeepsMemory
    PROVE  Restarted(x)'
BY DEF Restarted, KeepsMemory, LinearKinds, ReactiveKinds, ParallelKinds, UpdatedKinds

\* Members that stay the same.
LEMMA SameRestarted ==
    ASSUME NEW x \in Node, mem'[x] = mem[x]
    PROVE  Restarted(x)' <=> Restarted(x)
BY DEF Restarted, Done

\* A node that no longer runs after a halt starts from the beginning.
LEMMA MovedRestarted ==
    ASSUME NEW x \in Node, Moved(x), status'[x] # RUNNING,
           status[x] = RUNNING \/ Restarted(x)
    PROVE  Restarted(x)'
BY FreshRestarted, KeepersRestarted, SameRestarted DEF Moved

\* Nobody has been visited by a node that starts afresh, or by one of the other classes.
LEMMA VisitedKinds ==
    ASSUME NEW x \in Node, Kind[x] \notin Indexed \cup ParallelKinds
    PROVE  Visited(x) = {} /\ Visited(x)' = {}
BY DEF Visited

\* Members that stay the same say the same of the positions behind the node.
LEMMA SameVisited ==
    ASSUME NEW x \in Node, mem'[x] = mem[x]
    PROVE  Visited(x)' = Visited(x)
BY DEF Visited, Done

\* What a node that is left alone or halted knows of its children.
LEMMA MovedTold ==
    ASSUME NEW x \in Node, Moved(x), NEW i \in Positions(x),
           heard'[Children[x][i]] \in Completed => i \in Visited(x)
    PROVE  heard'[Children[x][i]] \in Completed => i \in Visited(x)'
<1>1. Children[x][i] \in Kids(x)
  BY DEF Kids
<1>. QED
  BY <1>1, SameVisited DEF Moved

\* A completed child stays behind a node that is left alone or halted.
LEMMA MovedCleared ==
    ASSUME NEW x \in Node, Moved(x), NEW i \in Positions(x),
           status'[Children[x][i]] \in Completed => i \in Visited(x)
    PROVE  status'[Children[x][i]] \in Completed => i \in Visited(x)'
<1>1. Children[x][i] \in Kids(x)
  BY DEF Kids
<1>2. CASE mem'[x] = mem[x]
  BY <1>2, SameVisited
<1>3. CASE StopsHalt(x)
  <2>1. Visited(x) = {}
    BY <1>3, VisitedKinds DEF StopsHalt, UpdatedKinds, Indexed, LinearKinds, ParallelKinds
  <2>. QED
    BY <2>1
<1>. QED
  BY <1>1, <1>2, <1>3 DEF Moved

-------------------------------------------------------------------------------
(* What tick() of one node does to the others                              *)

Others(n) ==
    /\ \A x \in Node : heard'[x] \in {IDLE, heard[x]}
    /\ \A x \in Node \ {n} : status'[x] \in {IDLE, status[x]} /\ Moved(x)
    /\ \A a \in Above[n] : status'[a] = status[a] /\ mem'[a] = mem[a] /\ SameHeard(a)
    /\ SameHeard(n)

\* A tick() that changes only what is n's own.
LEMMA OwnOnly ==
    ASSUME NEW n \in Node, heard' = heard,
           \A x \in Node \ {n} : status'[x] = status[x] /\ mem'[x] = mem[x]
    PROVE  Others(n)
<1>1. \A a \in Above[n] : a \in Node \ {n}
  BY AboveFacts
<1>. QED
  BY <1>1 DEF Others, Moved, SameHeard

\* A tick() that resets children.
LEMMA ResetOthers ==
    ASSUME TypeOK, RunningReached, NEW n \in Node, NEW C \in SUBSET Kids(n), NEW m,
           ResetChildren(n, C, m)
    PROVE  /\ Others(n) /\ status'[n] = status[n] /\ mem'[n] = m
           /\ \A k \in C : status'[k] = IDLE
<1>. DEFINE H == HaltedBy(C)
<1>1. C \subseteq Node
  BY KidFacts
<1>2. PassedOn(H) /\ \A c \in C : status[c] = RUNNING => c \in H
  BY <1>1, HaltedByReaches
<1>3. \A x \in H : x \in Node /\ n \in Above[x]
  BY <1>1, KidFacts, AboveFacts DEF HaltedBy, HaltedFrom
<1>4. status' = StatusAfter(H, C) /\ heard' = HeardAfter(H)
      /\ mem' = [MemAfter(H) EXCEPT ![n] = m]
  BY DEF ResetChildren
<1>. HIDE DEF H
<1>5. HaltTrace(H, C)
  BY <1>1, <1>2, <1>3, <1>4, HaltTraceOf
<1>6. \A x \in Node \ {n} : mem'[x] = MemAfter(H)[x]
  BY <1>4 DEF MemAfter
<1>7. \A x \in Node \ {n} : Moved(x)
  BY <1>5, <1>6, HaltMoves
<1>8. ASSUME NEW a \in Above[n]
      PROVE  mem'[a] = mem[a] /\ SameHeard(a)
  <2>1. a \in Node /\ a # n /\ n \notin Above[a]
    BY AboveFacts
  <2>2. a \notin H
    BY <1>3, <2>1
  <2>. QED
    BY <1>5, <1>6, <2>1, <2>2 DEF MemAfter, HaltTrace
<1>9. mem'[n] = m /\ SameHeard(n)
  <2>1. n \notin H
    BY <1>3, AboveFacts
  <2>. QED
    BY <1>4, <1>5, <2>1 DEF MemAfter, HaltTrace
<1>. QED
  BY <1>5, <1>7, <1>8, <1>9, ResetChildrenKept DEF Others, HaltTrace

-------------------------------------------------------------------------------
(* What tick() of one node does to the node itself                         *)

OwnStatus(n) ==
    \/ status'[n] \in {status[n], RUNNING}
    \/ Kind[n] = "SimpleAction" /\ pc' = "ticked" /\ ret' = status'[n]

\* It ticks a child that is not behind it, answers, or throws.
Move(n) ==
    \/ \E j \in Positions(n) : \E k :
          /\ TickChild(n, j, k)
          /\ j \notin Visited(n)'
          /\ Kind[n] \in Indexed => j = mem'[n].idx
          /\ Kind[n] \in SelfRunning => status'[n] = RUNNING
    \/ \E s : Return(n, s) /\ (s \in Completed /\ Free(n) => Restarted(n)')
    \/ Unwind

StartsAfresh(n) ==
    Free(n) /\ status'[n] # RUNNING /\ ~(pc' = "ticked" /\ ret' = RUNNING) => Restarted(n)'

\* What was behind it still is, and so is the child that has just completed.
Remembers(n) ==
    /\ Visited(n) \subseteq Visited(n)'
    /\ pc = "reply" /\ ret \in Completed /\ ~Retried(n, ret) => frame[n].j \in Visited(n)'

EndsNext(n) == pc' = "ticked" /\ ret' \notin {RUNNING, IDLE} /\ ~Retried(n, ret')

\* The child that has just completed is reset, or behind it, or will be reset.
ClearsChild(n) ==
    pc = "reply" /\ ret \in Completed =>
        \/ status'[cur] = IDLE
        \/ frame[n].j \in Visited(n)'
        \/ Kept(cur)
        \/ pc' = "ticked" /\ Kind[n] \in DecoratorKinds /\ ret' # IDLE

ClearsOthers(n) ==
    Visited(n) \subseteq Visited(n)' \/ \A k \in Kids(n) : status'[k] = IDLE

Own(n) ==
    /\ Others(n) /\ OwnStatus(n) /\ Move(n) /\ StartsAfresh(n)
    /\ Remembering(n) => Remembers(n) \/ EndsNext(n)
    /\ ~Unreset(n) => ClearsChild(n) /\ ClearsOthers(n)

\* A caller waits for the child that has just answered.
LEMMA AtReply ==
    ASSUME ExecInv, NEW n \in Node, pc = "reply", cur \notin Roots, Parent[cur] = n
    PROVE  /\ cur \in Kids(n) /\ cur # n
           /\ WaitsFor(n, frame[n].j) /\ Children[n][frame[n].j] = cur
           /\ Kind[n] \in SelfRunning => status[n] = RUNNING
           /\ ret # IDLE /\ ret \in NodeStatus
<1>1. cur \in Node /\ InCall /\ ret \in NodeStatus
  BY DEF ExecInv, HaltInv, TypeOK, CallOK, InCall
<1>2. n \in Above[cur] /\ cur \in Kids(n)
  BY <1>1, ParentFacts
<1>3. Above[cur] = {n} \cup Above[n] /\ cur # n
  BY <1>2, KidFacts
<1>4. WaitsFor(n, frame[n].j)
  BY <1>1, <1>2 DEF ExecInv, AtChild
<1>5. Children[n][frame[n].j] \in Kids(n)
  BY <1>4 DEF WaitsFor, Kids
<1>6. Children[n][frame[n].j] \notin Above[cur]
  BY <1>3, <1>5, KidFacts
<1>7. Kind[n] \in SelfRunning => status[n] = RUNNING
  BY <1>1, <1>2 DEF ExecInv, AtWork
<1>. QED
  BY <1>1, <1>2, <1>3, <1>4, <1>6, <1>7 DEF WaitsFor, ExecInv, Real

\* The only child at a position.
LEMMA OnePosition ==
    ASSUME NEW n \in Node, NEW i \in Positions(n), NEW j \in Positions(n),
           Children[n][i] = Children[n][j]
    PROVE  i = j
BY TreeAssumption

\* The callers of n wait for the child on the way to it.
LEMMA CallersWait ==
    ASSUME ExecInv, NEW n \in Node, OnCallOf(n), NEW a \in Above[n]
    PROVE  /\ a \in Node /\ a # n
           /\ LET j == frame[a].j
              IN  /\ j \in Positions(a) /\ j \notin Visited(a)
                  /\ Children[a][j] = n \/ Children[a][j] \in Above[n]
                  /\ Kind[a] \in Indexed => j = mem[a].idx
           /\ Kind[a] \in SelfRunning => status[a] = RUNNING
<1>. DEFINE k == Children[a][frame[a].j]
<1>1. /\ cur \in Node /\ InCall /\ a \in Above[cur]
      /\ n = cur \/ (n \in Above[cur] /\ cur \in Kids(n))
  BY OnCallFacts DEF ExecInv
<1>2. a \in Node /\ a # n /\ n \notin Above[a]
  BY AboveFacts
<1>3. WaitsFor(a, frame[a].j) /\ (Kind[a] \in SelfRunning => status[a] = RUNNING)
  BY <1>1 DEF ExecInv, AtChild, AtWork
<1>4. k = n \/ k \in Above[n]
  <2>1. k \in Kids(a)
    BY <1>3 DEF WaitsFor, Kids
  <2>2. CASE n = cur
    BY <1>3, <2>2 DEF WaitsFor
  <2>3. CASE n # cur
    <3>1. Parent[cur] = n /\ Parent[k] = a /\ Above[cur] = {n} \cup Above[n]
      BY <1>1, <1>2, <2>1, <2>3, KidFacts
    <3>2. k # cur
      BY <1>2, <3>1
    <3>. QED
      BY <1>3, <3>1, <3>2 DEF WaitsFor
  <2>. QED
    BY <2>2, <2>3
<1>. QED
  BY <1>2, <1>3, <1>4 DEF WaitsFor

\* The callers and what they wait for.
LEMMA MoveKept ==
    ASSUME ExecInv, NEW n \in Node, OnCallOf(n), Others(n), Move(n)
    PROVE  AtWork' /\ AtChild'
<1>1. frame \in [Node -> Frame]
  BY DEF ExecInv, HaltInv, TypeOK, CallOK
<1>2. \A a \in Above[n] :
        /\ a \in Node /\ a # n
        /\ status'[a] = status[a] /\ mem'[a] = mem[a] /\ Visited(a)' = Visited(a)
        /\ Kind[a] \in SelfRunning => status'[a] = RUNNING
  BY CallersWait, SameVisited DEF Others
<1>3. ASSUME NEW j \in Positions(n), NEW k, TickChild(n, j, k), j \notin Visited(n)',
             Kind[n] \in Indexed => j = mem'[n].idx,
             Kind[n] \in SelfRunning => status'[n] = RUNNING
      PROVE  AtWork' /\ AtChild'
  <2>1. cur' = Children[n][j] /\ cur' \in Kids(n)
    BY <1>3 DEF TickChild, Go, Kids
  <2>2. Above[cur'] = {n} \cup Above[n]
    BY <2>1, KidFacts
  <2>3. frame'[n].j = j /\ \A a \in Above[n] : frame'[a] = frame[a]
    BY <1>1, <1>2, <1>3 DEF TickChild
  <2>4. WaitsFor(n, j)'
    BY <1>3, <2>1 DEF WaitsFor, Positions
  <2>5. ASSUME NEW a \in Above[n]
        PROVE  WaitsFor(a, frame[a].j)'
    BY <1>2, <2>2, <2>3, CallersWait DEF WaitsFor, Positions
  <2>6. AtWork'
    BY <1>2, <1>3, <2>2 DEF AtWork
  <2>. QED
    BY <2>2, <2>3, <2>4, <2>5, <2>6 DEF AtChild
<1>4. ASSUME NEW s, Return(n, s)
      PROVE  AtWork' /\ AtChild'
  <2>1. cur' = n /\ \A a \in Above[n] : frame'[a] = frame[a]
    BY <1>1, <1>2, <1>4 DEF Return, Go
  <2>2. ASSUME NEW a \in Above[n]
        PROVE  WaitsFor(a, frame[a].j)'
    BY <1>2, <2>1, CallersWait DEF WaitsFor, Positions
  <2>3. AtWork'
    BY <1>2, <2>1 DEF AtWork
  <2>. QED
    BY <2>1, <2>2, <2>3 DEF AtChild
<1>5. CASE Unwind
  BY <1>5 DEF Unwind, AtWork, AtChild, InCall
<1>. QED
  BY <1>3, <1>4, <1>5 DEF Move

\* Members of nodes that are not RUNNING.
LEMMA OwnFresh ==
    ASSUME ExecInv, NEW n \in Node, OnCallOf(n), Others(n), Move(n), StartsAfresh(n)
    PROVE  FreshIdle' /\ FreshAnswer'
<1>1. pc \in {"tick", "reply"}
  BY DEF OnCallOf
<1>2. ASSUME NEW x \in Node, x # n, Free(x), status'[x] # RUNNING
      PROVE  Restarted(x)'
  <2>1. status[x] = RUNNING \/ Restarted(x)
    BY <1>1, <1>2 DEF ExecInv, FreshIdle
  <2>. QED
    BY <1>2, <2>1, MovedRestarted DEF Others
<1>3. pc' = "ticked" => cur' = n
  BY DEF Move, TickChild, Return, Unwind, Go
<1>4. FreshIdle'
  BY <1>2, <1>3 DEF FreshIdle, StartsAfresh
<1>5. FreshAnswer'
  BY DEF FreshAnswer, Move, TickChild, Return, Unwind, Go
<1>. QED
  BY <1>4, <1>5

\* What the parents know of their children.
LEMMA OwnTold ==
    ASSUME ExecInv, NEW n \in Node, OnCallOf(n), Others(n), Move(n),
           Remembering(n) => Remembers(n) \/ EndsNext(n)
    PROVE  Told'
<1>. SUFFICES ASSUME NEW x \in Node, Remembering(x), NEW i \in Positions(x),
                     heard'[Children[x][i]] \in Completed,
                     ~Retried(x, heard'[Children[x][i]])
              PROVE  i \in Visited(x)' \/ Ends(x)'
  BY DEF Told, Positions, Remembering
<1>. DEFINE k == Children[x][i]
<1>1. k \in Kids(x) /\ k \in Node /\ k \notin Roots /\ Parent[k] = x
  BY KidFacts DEF Kids
<1>2. heard[k] \in Completed /\ ~Retried(x, heard[k])
  BY <1>1 DEF Others
<1>3. pc \in {"tick", "reply"} /\ (pc = "reply" => Parent[cur] = n)
  BY DEF OnCallOf
<1>4. i \in Visited(x) \/ (pc = "reply" /\ cur = k /\ ret \in Completed)
  BY <1>2, <1>3 DEF ExecInv, Told, Ends
<1>5. CASE x # n
  <2>1. i \in Visited(x)
    BY <1>1, <1>3, <1>4, <1>5
  <2>. QED
    BY <1>5, <2>1, MovedTold DEF Others
<1>6. CASE x = n
  <2>1. pc' = "ticked" => cur' = n
    BY DEF Move, TickChild, Return, Unwind, Go
  <2>2. CASE EndsNext(n)
    BY <1>6, <2>1, <2>2 DEF EndsNext, Ends, Retried
  <2>3. CASE Remembers(n) /\ i \notin Visited(n)
    <3>1. pc = "reply" /\ cur = k /\ ret \in Completed
      BY <1>4, <1>6, <2>3
    <3>2. ret = heard[k]
      BY <3>1 DEF ExecInv, Real
    <3>3. frame[n].j \in Positions(n) /\ Children[n][frame[n].j] = k
      BY <1>1, <1>6, <3>1, AtReply DEF WaitsFor
    <3>4. frame[n].j = i
      BY <1>6, <3>3, OnePosition
    <3>. QED
      BY <1>2, <1>6, <2>3, <3>1, <3>2, <3>4 DEF Remembers
  <2>. QED
    BY <1>6, <2>2, <2>3 DEF Remembers
<1>. QED
  BY <1>5, <1>6

\* Completed children.
LEMMA OwnCleared ==
    ASSUME ExecInv, NEW n \in Node, OnCallOf(n), Others(n), Move(n), OwnStatus(n),
           ~Unreset(n) => ClearsChild(n) /\ ClearsOthers(n)
    PROVE  Cleared' /\ RootCleared' /\ Real'
<1>1. pc \in {"tick", "reply"} /\ (pc = "reply" => cur \notin Roots /\ Parent[cur] = n)
      /\ (pc = "tick" => cur = n)
  BY DEF OnCallOf
<1>2. pc' = "ticked" => cur' = n
  BY DEF Move, TickChild, Return, Unwind, Go
<1>3. status'[n] \in Completed => status[n] \in Completed \/ JustDone(n)'
  BY <1>2 DEF OwnStatus, JustDone
<1>4. ASSUME NEW x \in Node, ~Unreset(x), NEW i \in Positions(x),
             status'[Children[x][i]] \in Completed,
             ~Kept(Children[x][i]), ~JustDone(Children[x][i])'
      PROVE  i \in Visited(x)' \/ Resets(x)'
  <2>. DEFINE k == Children[x][i]
  <2>1. k \in Kids(x) /\ k \in Node /\ k \notin Roots /\ Parent[k] = x /\ k # x
    BY KidFacts DEF Kids
  <2>2. status[k] \in Completed
    BY <1>3, <1>4, <2>1 DEF Others
  <2>3. i \in Visited(x) \/ (pc = "reply" /\ cur = k /\ ret \in Completed)
    BY <1>1, <1>4, <2>2 DEF ExecInv, Cleared, JustDone, Resets
  <2>4. CASE x # n
    <3>1. i \in Visited(x)
      BY <1>1, <2>1, <2>3, <2>4
    <3>. QED
      BY <1>4, <2>4, <3>1, MovedCleared DEF Others
  <2>5. CASE x = n /\ i \in Visited(x)
    BY <1>4, <2>1, <2>5 DEF ClearsOthers
  <2>6. CASE x = n /\ i \notin Visited(x)
    <3>1. pc = "reply" /\ cur = k /\ ret \in Completed
      BY <2>3, <2>6
    <3>2. frame[n].j \in Positions(n) /\ Children[n][frame[n].j] = k
      BY <2>1, <2>6, <3>1, AtReply DEF WaitsFor
    <3>3. frame[n].j = i
      BY <2>6, <3>2, OnePosition
    <3>. QED
      BY <1>2, <1>4, <2>6, <3>1, <3>3 DEF ClearsChild, Resets
  <2>. QED
    BY <2>4, <2>5, <2>6
<1>5. Cleared'
  BY <1>4 DEF Cleared, Positions, Unreset, Kept, KeptCondition, LeftCompleted, Count
<1>6. RootCleared'
  <2>. SUFFICES ASSUME NEW r \in Roots, status'[r] \in Completed, ~LeftCompleted(r)
                PROVE  JustDone(r)'
    BY DEF RootCleared, LeftCompleted
  <2>1. r \in Node
    BY TreeAssumption
  <2>2. status[r] \in Completed => r = cur /\ pc = "reply"
    BY <1>1 DEF ExecInv, RootCleared, JustDone
  <2>. QED
    BY <1>1, <1>3, <2>1, <2>2 DEF Others
<1>7. Real'
  BY DEF Real, Move, TickChild, Return, Unwind, Go
<1>. QED
  BY <1>5, <1>6, <1>7

\* Every tick() of this kind keeps the invariant.
LEMMA OwnKept ==
    ASSUME ExecInv, HaltInv', NEW n \in Node, OnCallOf(n), Own(n)
    PROVE  ExecInv'
BY MoveKept, OwnFresh, OwnTold, OwnCleared DEF Own, ExecInv

-------------------------------------------------------------------------------
(* Helpers for the classes                                                 *)

\* n changes its own status and members only.
LEMMA KeepOthers ==
    ASSUME NEW n \in Node, Keep
    PROVE  Others(n) /\ status'[n] = status[n] /\ mem'[n] = mem[n]
BY OwnOnly DEF Keep

\* n changes its own members only.
LEMMA RememberOthers ==
    ASSUME TypeOK, NEW n \in Node, NEW m, Remember(n, m)
    PROVE  Others(n) /\ status'[n] = status[n] /\ mem'[n] = m
<1>1. mem'[n] = m /\ \A x \in Node \ {n} : mem'[x] = mem[x]
  BY DEF Remember, TypeOK, StateOK
<1>. QED
  BY <1>1, OwnOnly DEF Remember

\* A step that only sets the node's own status leaves the others as they are.
LEMMA StatusOthers ==
    ASSUME TypeOK, NEW n \in Node, NEW s, status' = [status EXCEPT ![n] = s], heard' = heard,
           \A x \in Node \ {n} : mem'[x] = mem[x]
    PROVE  Others(n) /\ status'[n] = s
<1>1. status'[n] = s /\ \A x \in Node \ {n} : status'[x] = status[x]
  BY DEF TypeOK, StateOK
<1>. QED
  BY <1>1, OwnOnly

\* The parts of the invariant that speak of the state alone.
LEMMA ExecFacts ==
    ASSUME ExecInv
    PROVE  TypeOK /\ RunningReached
BY DEF ExecInv, HaltInv

\* A class without an index, a list of completed children or a counter of its own.
Plain(n) == Kind[n] \notin Indexed \cup ParallelKinds \cup Counting \cup {"Switch"} \cup UpdatedKinds

\* Such a node has nothing that could survive its execution.
LEMMA PlainFacts ==
    ASSUME NEW n \in Node, Plain(n)
    PROVE  /\ Restarted(n)' /\ Visited(n) = {} /\ Visited(n)' = {}
           /\ ~Remembering(n) /\ Kind[n] \notin Indexed \cup SelfRunning
BY VisitedKinds DEF Plain, Restarted, Indexed, SelfRunning, Counting, Remembering, LinearKinds

\* Such a class need only see to the child that has completed.
LEMMA PlainOwn ==
    ASSUME NEW n \in Node, Plain(n), Shape(n), Others(n), OwnStatus(n),
           ~Unreset(n) => ClearsChild(n)
    PROVE  Own(n)
<1>1. Move(n)
  BY PlainFacts DEF Shape, MoveShape, Move
<1>2. StartsAfresh(n) /\ ClearsOthers(n)
  BY PlainFacts DEF StartsAfresh, ClearsOthers
<1>. QED
  BY <1>1, <1>2, PlainFacts DEF Own

\* No child has answered yet when tick() begins.
LEMMA NoChildYet ==
    ASSUME NEW n \in Node, pc = "tick"
    PROVE  ClearsChild(n)
BY DEF ClearsChild

-------------------------------------------------------------------------------
(* Leaves                                                                  *)

\* A leaf has no children and no members of one execution.
LEMMA LeafOwn ==
    ASSUME ExecInv, NEW n \in Node, LeafTick(n)
    PROVE  OnCallOf(n) /\ Own(n)
<1>1. OnCallOf(n) /\ Shape(n) /\ TypeOK /\ pc = "tick"
  BY LeafShape, ExecFacts DEF LeafTick, SyncTick, SimpleActionTick, StatefulTick, Ticking
<1>2. Kind[n] \in LeafKinds
  BY DEF LeafTick, SyncTick, SimpleActionTick, StatefulTick, Ticking, LeafKinds
<1>3. Plain(n)
  BY <1>2 DEF Plain, LeafKinds, Indexed, LinearKinds, ParallelKinds, Counting, UpdatedKinds
<1>4. Others(n) /\ OwnStatus(n)
  <2>1. CASE SyncTick(n)
    BY <2>1, KeepOthers DEF SyncTick, OwnStatus
  <2>2. CASE StatefulTick(n)
    <3>1. Keep
      BY <2>2 DEF StatefulTick, Throw, Keep
    <3>. QED
      BY <3>1, KeepOthers DEF OwnStatus
  <2>3. CASE SimpleActionTick(n)
    <3>1. PICK s \in Answers[n] :
            \/ status' = [status EXCEPT ![n] = s] /\ Answer(n, s) /\ UNCHANGED <<mem, heard>>
            \/ status' = [status EXCEPT ![n] = IF @ = IDLE THEN RUNNING ELSE @] /\ Throw
      BY <2>3 DEF SimpleActionTick
    <3>2. CASE status' = [status EXCEPT ![n] = s] /\ Answer(n, s) /\ UNCHANGED <<mem, heard>>
      <4>1. Others(n) /\ status'[n] = s
        BY <1>1, <3>2, StatusOthers
      <4>. QED
        BY <2>3, <3>2, <4>1 DEF SimpleActionTick, Ticking, OwnStatus, Answer, Return, Go
    <3>3. CASE status' = [status EXCEPT ![n] = IF @ = IDLE THEN RUNNING ELSE @] /\ Throw
      <4>1. status' = [status EXCEPT ![n] = IF status[n] = IDLE THEN RUNNING ELSE status[n]]
        BY <3>3
      <4>2. UNCHANGED <<mem, heard>>
        BY <3>3 DEF Throw
      <4>3. Others(n) /\ status'[n] = IF status[n] = IDLE THEN RUNNING ELSE status[n]
        BY <1>1, <4>1, <4>2, StatusOthers
      <4>. QED
        BY <4>3 DEF OwnStatus
    <3>. QED
      BY <3>1, <3>2, <3>3
  <2>. QED
    BY <2>1, <2>2, <2>3 DEF LeafTick
<1>. QED
  BY <1>1, <1>3, <1>4, PlainOwn, NoChildYet

-------------------------------------------------------------------------------
(* Control nodes without members of their own                              *)

\* The reactive nodes look at every child in every tick.
LEMMA ReactiveTickOwn ==
    ASSUME ExecInv, NEW n \in Node, NEW kinds \in SUBSET ReactiveKinds,
           ReactiveTick(n, kinds)
    PROVE  OnCallOf(n) /\ Own(n)
<1>1. TypeOK /\ OnCallOf(n) /\ Shape(n) /\ Kind[n] \in ReactiveKinds /\ pc = "tick"
  BY ExecFacts, ReactiveTickShape DEF ReactiveTick, Ticking
<1>2. Plain(n)
  BY <1>1 DEF Plain, ReactiveKinds, Indexed, LinearKinds, ParallelKinds, Counting, UpdatedKinds
<1>3. \A x \in Node \ {n} : mem'[x] = mem[x]
  BY <1>1 DEF ReactiveTick, TypeOK, StateOK
<1>4. Others(n) /\ status'[n] = RUNNING
  BY <1>1, <1>3, StatusOthers DEF ReactiveTick
<1>. QED
  BY <1>1, <1>2, <1>4, PlainOwn, NoChildYet DEF OwnStatus

\* They reset some of the children, or none, and keep nothing that must start afresh.
LEMMA ReactiveReplyOwn ==
    ASSUME ExecInv, NEW n \in Node, NEW kinds \in SUBSET ReactiveKinds,
           NEW stop \in Completed, ReactiveReply(n, kinds, stop)
    PROVE  OnCallOf(n) /\ Own(n)
<1>1. /\ TypeOK /\ RunningReached /\ OnCallOf(n) /\ Shape(n) /\ Kind[n] \in ReactiveKinds
      /\ cur \in Kids(n)
  BY ExecFacts, ReactiveReplyShape, ReplyFacts DEF ReactiveReply, Replied
<1>2. Plain(n) /\ Unreset(n)
  BY <1>1 DEF Plain, Unreset, ReactiveKinds, Indexed, LinearKinds, ParallelKinds, Counting,
     UpdatedKinds
<1>3. Keep \/ \E C \in SUBSET Kids(n) : \E m : ResetChildren(n, C, m)
  <2>1. Kids(n) \ {cur} \in SUBSET Kids(n) /\ {cur} \in SUBSET Kids(n) /\ Kids(n) \in SUBSET Kids(n)
    BY <1>1
  <2>2. ReactiveRunning(n) => \E m : ResetChildren(n, Kids(n) \ {cur}, m)
    BY DEF ReactiveRunning
  <2>3. \/ Keep \/ \E m : ResetChildren(n, Kids(n) \ {cur}, m)
        \/ \E m : ResetChildren(n, {cur}, m)
        \/ \E m : ResetChildren(n, Kids(n), m)
    BY <2>2 DEF ReactiveReply
  <2>. QED
    BY <2>1, <2>3
<1>4. Others(n) /\ status'[n] = status[n]
  BY <1>1, <1>3, KeepOthers, ResetOthers
<1>. QED
  BY <1>1, <1>2, <1>4, PlainOwn DEF OwnStatus

\* WhileDoElse keeps its condition as it completed and resets the rest.
LEMMA WhileDoElseOwn ==
    ASSUME ExecInv, NEW n \in Node, WhileDoElseTick(n) \/ WhileDoElseReply(n)
    PROVE  OnCallOf(n) /\ Own(n)
<1>1. /\ TypeOK /\ RunningReached /\ OnCallOf(n) /\ Shape(n) /\ Kind[n] = "WhileDoElse"
  BY ExecFacts, WhileDoElseShape DEF WhileDoElseTick, WhileDoElseReply, Ticking, Replied
<1>2. Plain(n)
  BY <1>1 DEF Plain, Indexed, LinearKinds, ParallelKinds, Counting, UpdatedKinds
<1>3. CASE WhileDoElseTick(n)
  <2>1. Others(n) /\ status'[n] = RUNNING /\ pc = "tick"
    BY <1>1, <1>3, StatusOthers DEF WhileDoElseTick, SetRunning, Ticking
  <2>. QED
    BY <1>1, <1>2, <2>1, PlainOwn, NoChildYet DEF OwnStatus
<1>4. CASE WhileDoElseReply(n)
  <2>. DEFINE E == {Children[n][i] : i \in Positions(n) \cap {3}}
  <2>1. /\ Positions(n) = 1 .. Count(n) /\ Count(n) \in {2, 3} /\ 2 \in 1 .. Count(n)
    BY <1>1, BranchFacts DEF BranchKinds
  <2>2. E \in SUBSET Kids(n) /\ {Children[n][2]} \in SUBSET Kids(n) /\ Kids(n) \in SUBSET Kids(n)
    BY <2>1 DEF Kids
  <2>3. \/ Keep /\ ret = RUNNING
        \/ ResetChildren(n, E, mem[n]) /\ frame[n].j = 1
        \/ ResetChildren(n, {Children[n][2]}, mem[n]) /\ frame[n].j = 1
        \/ ResetChildren(n, Kids(n), mem[n])
    BY <1>4 DEF WhileDoElseReply
  <2>. HIDE DEF E
  <2>4. pc = "reply" /\ cur \notin Roots /\ Parent[cur] = n
    BY <1>4 DEF WhileDoElseReply, Replied
  <2>5. cur \in Kids(n) /\ Children[n][frame[n].j] = cur
    BY <2>4, AtReply
  <2>6. CASE Keep /\ ret = RUNNING
    BY <1>1, <1>2, <2>6, KeepOthers, PlainOwn DEF OwnStatus, ClearsChild
  <2>7. CASE \E C \in SUBSET Kids(n) : \E m : ResetChildren(n, C, m) /\ frame[n].j = 1
    <3>1. Kept(cur)
      BY <1>1, <2>4, <2>5, <2>7 DEF Kept, KeptCondition
    <3>2. Others(n) /\ status'[n] = status[n]
      BY <1>1, <2>7, ResetOthers
    <3>. QED
      BY <1>1, <1>2, <3>1, <3>2, PlainOwn DEF OwnStatus, ClearsChild
  <2>8. CASE ResetChildren(n, Kids(n), mem[n])
    <3>1. Others(n) /\ status'[n] = status[n] /\ status'[cur] = IDLE
      BY <1>1, <2>2, <2>5, <2>8, ResetOthers
    <3>. QED
      BY <1>1, <1>2, <3>1, PlainOwn DEF OwnStatus, ClearsChild
  <2>. QED
    BY <2>2, <2>3, <2>6, <2>7, <2>8
<1>. QED
  BY <1>3, <1>4

-------------------------------------------------------------------------------
(* Decorators                                                              *)

\* The decorators that count no rounds, without the two that see to updated entries.
LEMMA PlainDecorators ==
    ASSUME NEW n \in Node, Kind[n] \in DecoratorKinds \ (Counting \cup UpdatedKinds)
    PROVE  Plain(n)
BY DEF Plain, DecoratorKinds, Counting, UpdatedKinds, Indexed, LinearKinds, ParallelKinds

\* Such a decorator at the beginning of its tick().
LEMMA PlainTickOwn ==
    ASSUME ExecInv, NEW n \in Node, Kind[n] \in DecoratorKinds \ (Counting \cup UpdatedKinds),
           pc = "tick", Shape(n), heard' = heard,
           status' = status \/ status' = [status EXCEPT ![n] = RUNNING],
           \A x \in Node \ {n} : mem'[x] = mem[x]
    PROVE  Own(n)
<1>1. TypeOK /\ Plain(n)
  BY ExecFacts, PlainDecorators
<1>2. status \in [Node -> NodeStatus]
  BY <1>1 DEF TypeOK, StateOK
<1>3. Others(n) /\ OwnStatus(n)
  BY <1>2, OwnOnly DEF OwnStatus
<1>. QED
  BY <1>1, <1>3, PlainOwn, NoChildYet

\* Such a decorator at its child's answer: a completed child is reset at once.
LEMMA PlainReplyOwn ==
    ASSUME ExecInv, NEW n \in Node, Kind[n] \in DecoratorKinds \ (Counting \cup UpdatedKinds),
           NEW kinds, Replied(n, kinds), Shape(n), NEW m, ResetIfCompleted(n, m)
    PROVE  Own(n)
<1>1. TypeOK /\ RunningReached /\ Plain(n) /\ cur \in Kids(n)
  BY ExecFacts, PlainDecorators, ReplyFacts
<1>2. CASE ret \in Completed
  <2>1. Kids(n) = {Child(n)}
    BY DecoratorFacts
  <2>2. ResetChildren(n, Kids(n), m)
    BY <1>2, <2>1 DEF ResetIfCompleted, ResetChild
  <2>3. Others(n) /\ status'[n] = status[n] /\ status'[cur] = IDLE
    BY <1>1, <2>2, ResetOthers
  <2>. QED
    BY <1>1, <2>3, PlainOwn DEF OwnStatus, ClearsChild
<1>3. CASE ret \notin Completed
  <2>1. Others(n) /\ status'[n] = status[n]
    BY <1>1, <1>3, RememberOthers DEF ResetIfCompleted
  <2>. QED
    BY <1>1, <1>3, <2>1, PlainOwn DEF OwnStatus, ClearsChild
<1>. QED
  BY <1>2, <1>3

\* Inverter, ForceSuccess, ForceFailure, KeepRunningUntilFailure and SubTree.
LEMMA TranslatorOwn ==
    ASSUME ExecInv, NEW n \in Node,
           \/ TranslatorTick(n) \/ InverterReply(n) \/ ForceReply(n) \/ KeepRunningReply(n)
           \/ SubTreeTick(n) \/ SubTreeReply(n)
    PROVE  OnCallOf(n) /\ Own(n)
<1>1. TypeOK /\ OnCallOf(n) /\ Shape(n) /\ status \in [Node -> NodeStatus]
  BY ExecFacts, TranslatorShape DEF TypeOK, StateOK
<1>2. Kind[n] \in DecoratorKinds \ (Counting \cup UpdatedKinds)
  BY DEF TranslatorTick, InverterReply, ForceReply, KeepRunningReply, SubTreeTick,
     SubTreeReply, Ticking, Replied, Translators, DecoratorKinds, Counting, UpdatedKinds
<1>3. CASE TranslatorTick(n)
  BY <1>1, <1>2, <1>3, PlainTickOwn DEF TranslatorTick, Ticking, SetRunning
<1>4. CASE SubTreeTick(n)
  <2>1. status' = status \/ status' = [status EXCEPT ![n] = RUNNING]
    BY <1>1, <1>4 DEF SubTreeTick
  <2>. QED
    BY <1>1, <1>2, <1>4, <2>1, PlainTickOwn DEF SubTreeTick, Ticking
<1>5. CASE InverterReply(n) \/ ForceReply(n) \/ KeepRunningReply(n) \/ SubTreeReply(n)
  <2>1. ResetIfCompleted(n, mem[n]) /\ \E kinds : Replied(n, kinds)
    BY <1>5 DEF InverterReply, ForceReply, KeepRunningReply, SubTreeReply
  <2>. QED
    BY <1>1, <1>2, <2>1, PlainReplyOwn
<1>. QED
  BY <1>3, <1>4, <1>5

\* RunOnce, Precondition, LoopNode and SimpleDecorator.
LEMMA OtherOwn ==
    ASSUME ExecInv, NEW n \in Node,
           \/ RunOnceTick(n) \/ RunOnceReply(n)
           \/ PreconditionTick(n) \/ PreconditionReply(n)
           \/ LoopTick(n) \/ LoopReply(n)
           \/ SimpleDecoratorTick(n) \/ SimpleDecoratorReply(n)
    PROVE  OnCallOf(n) /\ Own(n)
<1>1. TypeOK /\ OnCallOf(n) /\ Shape(n)
  BY ExecFacts, RunOnceShape, OtherDecoratorShape
<1>2. status \in [Node -> NodeStatus] /\ mem \in [Node -> Memory]
  BY <1>1 DEF TypeOK, StateOK
<1>3. Kind[n] \in DecoratorKinds \ (Counting \cup UpdatedKinds)
  BY DEF RunOnceTick, RunOnceReply, PreconditionTick, PreconditionReply, LoopTick,
     LoopReply, SimpleDecoratorTick, SimpleDecoratorReply, Ticking, Replied,
     DecoratorKinds, Counting, UpdatedKinds
<1>4. CASE RunOnceTick(n)
  BY <1>1, <1>3, <1>4, PlainTickOwn DEF RunOnceTick, Ticking, Keep, SetRunning
<1>5. CASE PreconditionTick(n)
  <2>1. pc = "tick" /\ (Keep \/ \E m : Remember(n, m))
    BY <1>5 DEF PreconditionTick, Ticking
  <2>2. heard' = heard /\ status' = status /\ \A x \in Node \ {n} : mem'[x] = mem[x]
    BY <1>2, <2>1 DEF Keep, Remember
  <2>. QED
    BY <1>1, <1>3, <2>1, <2>2, PlainTickOwn
<1>6. CASE LoopTick(n)
  <2>1. status' = status \/ status' = [status EXCEPT ![n] = RUNNING]
    BY <1>2, <1>6 DEF LoopTick
  <2>2. pc = "tick" /\ heard' = heard /\ \A x \in Node \ {n} : mem'[x] = mem[x]
    BY <1>2, <1>6 DEF LoopTick, Ticking
  <2>. QED
    BY <1>1, <1>3, <2>1, <2>2, PlainTickOwn
<1>7. CASE SimpleDecoratorTick(n)
  BY <1>1, <1>3, <1>7, PlainTickOwn DEF SimpleDecoratorTick, Ticking, Keep
<1>8. CASE RunOnceReply(n) \/ PreconditionReply(n) \/ LoopReply(n)
  <2>1. \E kinds, m : Replied(n, kinds) /\ ResetIfCompleted(n, m)
    BY <1>8 DEF RunOnceReply, PreconditionReply, LoopReply
  <2>. QED
    BY <1>1, <1>3, <2>1, PlainReplyOwn
<1>9. CASE SimpleDecoratorReply(n)
  <2>1. Plain(n) /\ Kind[n] = "SimpleDecorator" /\ Keep
    BY <1>3, <1>9, PlainDecorators DEF SimpleDecoratorReply, Replied
  <2>2. PICK s \in Answers[n] : Answer(n, s)
    BY <1>9 DEF SimpleDecoratorReply
  <2>3. ~Unreset(n) => ClearsChild(n)
    BY <1>3, <2>1, <2>2 DEF Unreset, ClearsChild, Answer, Return, Go
  <2>4. Others(n) /\ OwnStatus(n)
    BY <2>1, KeepOthers DEF OwnStatus
  <2>. QED
    BY <1>1, <2>1, <2>3, <2>4, PlainOwn
<1>. QED
  BY <1>4, <1>5, <1>6, <1>7, <1>8, <1>9

\* Repeat and RetryUntilSuccessful answer with the count as at the start, and reset the
\* child whenever it has completed.
LEMMA CountingOwn ==
    ASSUME ExecInv, NEW n \in Node, Kind[n] \in Counting, NEW again \in Completed,
           \/ pc = "tick" /\ cur = n /\ CountingTick(n, again)
           \/ Replied(n, Counting) /\ CountingReply(n, again)
    PROVE  OnCallOf(n) /\ Own(n)
<1>1. /\ TypeOK /\ RunningReached /\ OnCallOf(n) /\ Kind[n] \in SelfRunning
      /\ Kind[n] \in DecoratorKinds /\ 1 \in Positions(n) /\ Kids(n) = {Child(n)}
  BY ExecFacts, DecoratorFacts DEF OnCallOf, Replied, SelfRunning, Counting, DecoratorKinds
<1>2. /\ Visited(n) = {} /\ Visited(n)' = {} /\ Kind[n] \notin Indexed /\ ~Remembering(n)
      /\ ClearsOthers(n)
  BY VisitedKinds DEF Counting, Indexed, LinearKinds, ParallelKinds, Remembering,
     ClearsOthers
<1>3. Restarted(n)' <=> mem'[n].count = 0
  BY DEF Restarted, Counting, LinearKinds, ParallelKinds, UpdatedKinds
<1>4. ASSUME Others(n), status'[n] = RUNNING, ClearsChild(n),
             \/ TickChild(n, 1, 0)
             \/ \E s : Return(n, s) /\ (s \notin Completed \/ mem'[n].count = 0)
      PROVE  Own(n)
  <2>1. Move(n)
    BY <1>1, <1>2, <1>3, <1>4 DEF Move
  <2>. QED
    BY <1>2, <1>4, <2>1 DEF Own, OwnStatus, StartsAfresh
<1>5. CASE pc = "tick" /\ CountingTick(n, again)
  <2>1. /\ status \in [Node -> NodeStatus] /\ mem \in [Node -> Memory] /\ mem[n] \in Memory
    BY <1>1 DEF TypeOK, StateOK
  <2>2. heard' = heard /\ status' = [status EXCEPT ![n] = RUNNING]
        /\ \/ UNCHANGED mem /\ TickChild(n, 1, 0)
           \/ mem' = [mem EXCEPT ![n].count = 0] /\ Answer(n, again)
    BY <1>5 DEF CountingTick
  <2>3. Others(n) /\ status'[n] = RUNNING
    BY <1>1, <2>1, <2>2, StatusOthers
  <2>4. TickChild(n, 1, 0) \/ (Return(n, again) /\ mem'[n].count = 0)
    BY <2>1, <2>2 DEF Answer, Memory
  <2>. QED
    BY <1>1, <1>4, <1>5, <2>3, <2>4, NoChildYet
<1>6. CASE Replied(n, Counting) /\ CountingReply(n, again)
  <2>. DEFINE more == mem[n].count + 1
              m == [mem[n] EXCEPT !.count = more]
  <2>1. pc = "reply" /\ cur \notin Roots /\ Parent[cur] = n
    BY <1>6 DEF Replied
  <2>2. status[n] = RUNNING /\ cur \in Kids(n) /\ ret \in NodeStatus
    BY <1>1, <2>1, AtReply
  <2>3. \/ ret = RUNNING /\ Keep /\ Return(n, RUNNING)
        \/ ResetChild(n, mem[n]) /\ Return(n, SKIPPED)
        \/ ResetChild(n, FreshMem(n)) /\ \E s : Return(n, s)
        \/ ResetChild(n, m) /\ (Return(n, RUNNING) \/ TickChild(n, 1, 0))
    BY <1>6 DEF CountingReply, Answer, Yield
  <2>. HIDE DEF m
  <2>4. \A w : ResetChild(n, w) => /\ Others(n) /\ status'[n] = RUNNING /\ mem'[n] = w
                                   /\ ClearsChild(n)
    BY <1>1, <2>2, ResetOthers DEF ResetChild, ClearsChild
  <2>5. CASE ret = RUNNING /\ Keep /\ Return(n, RUNNING)
    BY <1>1, <1>4, <2>2, <2>5, KeepOthers DEF ClearsChild
  <2>6. CASE ResetChild(n, mem[n]) /\ Return(n, SKIPPED)
    BY <1>1, <1>4, <2>4, <2>6
  <2>7. CASE ResetChild(n, FreshMem(n)) /\ \E s : Return(n, s)
    <3>1. FreshMem(n).count = 0
      BY DEF FreshMem
    <3>. QED
      BY <1>1, <1>4, <2>4, <2>7, <3>1
  <2>8. CASE ResetChild(n, m) /\ (Return(n, RUNNING) \/ TickChild(n, 1, 0))
    BY <1>1, <1>4, <2>4, <2>8
  <2>. QED
    BY <2>3, <2>5, <2>6, <2>7, <2>8
<1>. QED
  BY <1>1, <1>5, <1>6

\* SkipUnlessUpdated and WaitValueUpdate leave a completed child to executeTick().
LEMMA UpdatedOwn ==
    ASSUME ExecInv, NEW n \in Node, UpdatedTick(n) \/ UpdatedReply(n)
    PROVE  OnCallOf(n) /\ Own(n)
<1>1. /\ TypeOK /\ OnCallOf(n) /\ Shape(n) /\ Kind[n] \in UpdatedKinds
      /\ Kind[n] \in DecoratorKinds /\ 1 \in Positions(n)
  BY ExecFacts, OtherDecoratorShape, DecoratorFacts
     DEF UpdatedTick, UpdatedReply, Ticking, Replied, DecoratorKinds
<1>2. /\ Visited(n) = {} /\ Visited(n)' = {} /\ Kind[n] \notin Indexed \cup SelfRunning
      /\ ~Remembering(n) /\ ClearsOthers(n)
  BY <1>1, VisitedKinds DEF UpdatedKinds, Indexed, LinearKinds, ParallelKinds, Remembering,
     ClearsOthers, SelfRunning, Counting
<1>3. Restarted(n)' <=> ~mem'[n].flag
  BY <1>1 DEF Restarted, UpdatedKinds, LinearKinds, ParallelKinds
<1>4. CASE UpdatedTick(n)
  <2>1. Keep /\ pc = "tick"
        /\ (TickChild(n, 1, 0) \/ \E s : Return(n, s) /\ s \notin Completed)
    BY <1>4 DEF UpdatedTick, Ticking, Answer
  <2>2. Others(n) /\ status'[n] = status[n] /\ mem'[n] = mem[n]
    BY <2>1, KeepOthers
  <2>3. Free(n) /\ status[n] # RUNNING => Restarted(n)'
    BY <2>1, <2>2, SameRestarted DEF ExecInv, FreshIdle
  <2>4. Move(n)
    BY <1>1, <1>2, <2>1 DEF Move
  <2>. QED
    BY <1>1, <1>2, <2>1, <2>2, <2>3, <2>4, NoChildYet DEF Own, OwnStatus, StartsAfresh
<1>5. CASE UpdatedReply(n)
  <2>. DEFINE m == [mem[n] EXCEPT !.flag = ret = RUNNING]
  <2>1. Remember(n, m) /\ Return(n, ret) /\ pc = "reply" /\ cur \notin Roots
        /\ Parent[cur] = n
    BY <1>5 DEF UpdatedReply, Answer, Replied
  <2>2. Others(n) /\ status'[n] = status[n] /\ mem'[n] = m
    BY <1>1, <2>1, RememberOthers
  <2>3. mem[n] \in Memory /\ ret # IDLE
    BY <1>1, <2>1, AtReply DEF TypeOK, StateOK
  <2>4. ret # RUNNING => ~mem'[n].flag
    BY <2>2, <2>3 DEF Memory
  <2>5. Move(n)
    BY <1>3, <2>1, <2>4 DEF Move
  <2>6. ClearsChild(n)
    BY <1>1, <2>1, <2>3 DEF ClearsChild, Return, Go
  <2>7. StartsAfresh(n)
    BY <1>3, <2>1, <2>4 DEF StartsAfresh, Return, Go
  <2>. QED
    BY <1>1, <1>2, <2>2, <2>5, <2>6, <2>7 DEF Own, OwnStatus
<1>. QED
  BY <1>4, <1>5

\* Every class of DecoratorNodes.
LEMMA DecoratorOwn ==
    ASSUME ExecInv, NEW n \in Node, DecoratorTick(n)
    PROVE  OnCallOf(n) /\ Own(n)
<1>1. CASE RepeatTick(n) \/ RetryTick(n)
  BY <1>1, CountingOwn DEF RepeatTick, RetryTick, Ticking, Counting
<1>2. CASE RepeatReply(n) \/ RetryReply(n)
  <2>1. Replied(n, Counting) /\ Kind[n] \in Counting
    BY <1>2 DEF RepeatReply, RetryReply, Replied, Counting
  <2>. QED
    BY <1>2, <2>1, CountingOwn DEF RepeatReply, RetryReply
<1>. QED
  BY <1>1, <1>2, TranslatorOwn, OtherOwn, UpdatedOwn DEF DecoratorTick

-------------------------------------------------------------------------------
(* Control nodes with an index                                             *)

\* Behind a node with an index are the children before it.
LEMMA IndexedFacts ==
    ASSUME TypeOK, NEW n \in Node, Kind[n] \in Indexed
    PROVE  /\ mem[n] \in Memory /\ mem[n].idx \in Positions(n)
           /\ Positions(n) = 1 .. Count(n) /\ Count(n) \in Nat
           /\ Visited(n) = 1 .. mem[n].idx - 1 /\ Visited(n)' = 1 .. mem'[n].idx - 1
           /\ Restarted(n)' <=> (Kind[n] \in SelfRunning => mem'[n].idx = 1)
           /\ Kind[n] \notin SelfRunning => Kind[n] = "SequenceWithMemory"
<1>1. mem[n] \in Memory /\ mem[n].idx \in Positions(n)
  BY MemFacts DEF TypeOK, Indexed, IndexOK
<1>2. Visited(n) = 1 .. mem[n].idx - 1 /\ Visited(n)' = 1 .. mem'[n].idx - 1
  BY DEF Visited
<1>3. Kind[n] \in SelfRunning <=> Kind[n] # "SequenceWithMemory"
  BY DEF Indexed, SelfRunning, LinearKinds, ParallelKinds, Counting
<1>4. Restarted(n)' <=> (Kind[n] \in SelfRunning => mem'[n].idx = 1)
  BY <1>3 DEF Restarted, Indexed, LinearKinds, ParallelKinds, UpdatedKinds
<1>. QED
  BY <1>1, <1>2, <1>3, <1>4, TreeFacts

\* Such a node sets itself RUNNING and ticks the child at its index.
LEMMA IndexedTickOwn ==
    ASSUME ExecInv, NEW n \in Node, Kind[n] \in Indexed, pc = "tick", heard' = heard,
           status' = [status EXCEPT ![n] = RUNNING], mem'[n].idx = mem[n].idx,
           \A x \in Node \ {n} : mem'[x] = mem[x], TickChild(n, mem[n].idx, 0)
    PROVE  Own(n)
<1>1. TypeOK
  BY ExecFacts
<1>2. /\ mem[n].idx \in Positions(n) /\ mem[n].idx \in Nat
      /\ Visited(n) = 1 .. mem[n].idx - 1 /\ Visited(n)' = Visited(n)
  BY <1>1, IndexedFacts
<1>3. Others(n) /\ status'[n] = RUNNING
  BY <1>1, StatusOthers
<1>4. Move(n)
  BY <1>2, <1>3 DEF Move
<1>. QED
  BY <1>2, <1>3, <1>4, NoChildYet DEF Own, OwnStatus, StartsAfresh, Remembers, ClearsOthers

\* Such a node at its child's answer: the index has moved on; or the child has not
\* completed, or will be asked again; or the node ends with its children reset.
LEMMA IndexedReplyOwn ==
    ASSUME ExecInv, NEW n \in Node, Kind[n] \in Indexed,
           pc = "reply", cur \notin Roots, Parent[cur] = n,
           Others(n), status'[n] = status[n], mem'[n].idx \in Nat,
           \/ mem'[n].idx \in Positions(n) /\ \E k : TickChild(n, mem'[n].idx, k)
           \/ \E s : Return(n, s) /\ (s \in Completed => Restarted(n)')
           \/ Unwind,
           \/ mem'[n].idx > mem[n].idx
           \/ /\ mem'[n].idx = mem[n].idx
              /\ \/ ret \notin Completed
                 \/ Retried(n, ret) /\ status'[cur] = IDLE
                 \/ EndsNext(n) /\ Kept(cur)
           \/ EndsNext(n) /\ \A k \in Kids(n) : status'[k] = IDLE
    PROVE  Own(n)
<1>1. /\ mem[n].idx \in Positions(n) /\ mem[n].idx \in Nat
      /\ Visited(n) = 1 .. mem[n].idx - 1 /\ Visited(n)' = 1 .. mem'[n].idx - 1
      /\ Kind[n] \notin SelfRunning => Restarted(n)'
  BY ExecFacts, IndexedFacts
<1>2. /\ cur \in Kids(n) /\ frame[n].j = mem[n].idx
      /\ Kind[n] \in SelfRunning => status[n] = RUNNING
  BY AtReply DEF WaitsFor
<1>3. Move(n)
  BY <1>1, <1>2 DEF Move
<1>4. StartsAfresh(n)
  BY <1>1, <1>2 DEF StartsAfresh
<1>5. CASE mem'[n].idx > mem[n].idx
  <2>1. \A i, j \in Nat : 1 <= i /\ j > i =>
          1 .. i - 1 \subseteq 1 .. j - 1 /\ i \in 1 .. j - 1
    OBVIOUS
  <2>2. 1 <= mem[n].idx
    BY <1>1, TreeFacts
  <2>3. Visited(n) \subseteq Visited(n)' /\ frame[n].j \in Visited(n)'
    BY <1>1, <1>2, <1>5, <2>1, <2>2
  <2>. QED
    BY <1>3, <1>4, <2>3 DEF Own, OwnStatus, Remembers, ClearsChild, ClearsOthers
<1>6. CASE /\ mem'[n].idx = mem[n].idx
           /\ \/ ret \notin Completed
              \/ Retried(n, ret) /\ status'[cur] = IDLE
              \/ EndsNext(n) /\ Kept(cur)
  <2>1. Visited(n) \subseteq Visited(n)'
    BY <1>1, <1>6
  <2>. QED
    BY <1>3, <1>4, <1>6, <2>1 DEF Own, OwnStatus, Remembers, ClearsChild, ClearsOthers
<1>7. CASE EndsNext(n) /\ \A k \in Kids(n) : status'[k] = IDLE
  BY <1>2, <1>3, <1>4, <1>7 DEF Own, OwnStatus, ClearsChild, ClearsOthers
<1>. QED
  BY <1>5, <1>6, <1>7

\* A sequence or fallback up to the child at current_child_idx_.
LEMMA LinearTickOwn ==
    ASSUME ExecInv, NEW n \in Node, NEW kinds \in SUBSET LinearKinds, LinearTick(n, kinds)
    PROVE  OnCallOf(n) /\ Own(n)
<1>1. Kind[n] \in Indexed /\ pc = "tick" /\ OnCallOf(n)
  BY DEF LinearTick, Ticking, Indexed, OnCallOf
<1>2. mem \in [Node -> Memory] /\ mem[n] \in Memory
  BY ExecFacts DEF TypeOK, StateOK
<1>3. mem'[n].idx = mem[n].idx /\ \A x \in Node \ {n} : mem'[x] = mem[x]
  BY <1>2 DEF LinearTick, Memory
<1>. QED
  BY <1>1, <1>3, IndexedTickOwn DEF LinearTick

\* The next child of a sequence or fallback.
LEMMA LinearNextOwn ==
    ASSUME ExecInv, NEW n \in Node, Replied(n, LinearKinds), NEW yields,
           LinearNext(n, yields)
    PROVE  OnCallOf(n) /\ Own(n)
<1>. DEFINE m == [mem[n] EXCEPT !.idx = @ + 1, !.count = SkippedSoFar(n)]
<1>1. /\ TypeOK /\ Kind[n] \in Indexed /\ OnCallOf(n) /\ pc = "reply" /\ cur \notin Roots
      /\ Parent[cur] = n
  BY ExecFacts DEF Replied, Indexed, OnCallOf
<1>2. /\ mem[n] \in Memory /\ mem[n].idx \in Positions(n) /\ Positions(n) = 1 .. Count(n)
      /\ Count(n) \in Nat
  BY <1>1, IndexedFacts
<1>3. mem[n].idx # Count(n) /\ Remember(n, m)
      /\ (Return(n, RUNNING) \/ TickChild(n, mem[n].idx + 1, 0))
  BY DEF LinearNext, LastChild, Yield
<1>4. m.idx = mem[n].idx + 1
  BY <1>2 DEF Memory
<1>. HIDE DEF m
<1>5. Others(n) /\ status'[n] = status[n] /\ mem'[n] = m
  BY <1>1, <1>3, RememberOthers
<1>6. mem'[n].idx \in Positions(n) /\ mem'[n].idx > mem[n].idx /\ mem'[n].idx \in Nat
  BY <1>2, <1>3, <1>4, <1>5
<1>7. mem'[n].idx = mem[n].idx + 1
  BY <1>4, <1>5
<1>. QED
  BY <1>1, <1>3, <1>5, <1>6, <1>7, IndexedReplyOwn

\* The end of a sequence or fallback: every child is reset and the index is the first.
LEMMA LinearEndOwn ==
    ASSUME ExecInv, NEW n \in Node, Kind[n] \in Indexed, pc = "reply", cur \notin Roots,
           Parent[cur] = n, NEW m, ResetChildren(n, Kids(n), m), m.idx = 1,
           NEW s, Answer(n, s), s \notin {RUNNING, IDLE}, ~Retried(n, s)
    PROVE  Own(n)
<1>1. /\ Others(n) /\ status'[n] = status[n] /\ mem'[n] = m
      /\ \A k \in Kids(n) : status'[k] = IDLE
  BY ExecFacts, ResetOthers
<1>2. EndsNext(n) /\ Return(n, s)
  BY DEF EndsNext, Answer, Return, Go
<1>3. Restarted(n)' /\ mem'[n].idx \in Nat
  BY <1>1, ExecFacts, IndexedFacts
<1>. QED
  BY <1>1, <1>2, <1>3, IndexedReplyOwn

\* A sequence or fallback at its child's answer.
LEMMA LinearReplyOwn ==
    ASSUME ExecInv, NEW n \in Node, Replied(n, LinearKinds \ {"SequenceWithMemory"}),
           NEW stop \in Completed, NEW yields, LinearReply(n, stop, yields)
    PROVE  OnCallOf(n) /\ Own(n)
<1>1. /\ Kind[n] \in Indexed /\ Kind[n] # "SequenceWithMemory" /\ pc = "reply"
      /\ cur \notin Roots /\ Parent[cur] = n /\ OnCallOf(n) /\ Replied(n, LinearKinds)
  BY DEF Replied, Indexed, OnCallOf
<1>2. \A s : ~Retried(n, s)
  BY <1>1 DEF Retried
<1>3. mem[n] \in Memory /\ mem[n].idx \in Nat
  BY <1>1, ExecFacts, IndexedFacts
<1>4. CASE ret = RUNNING /\ Keep /\ Answer(n, RUNNING)
  <2>1. Others(n) /\ status'[n] = status[n] /\ mem'[n] = mem[n] /\ Return(n, RUNNING)
    BY <1>4, KeepOthers DEF Answer
  <2>. QED
    BY <1>1, <1>3, <1>4, <2>1, IndexedReplyOwn
<1>5. CASE ResetChildren(n, Kids(n), [mem[n] EXCEPT !.idx = 1]) /\ Answer(n, stop)
  <2>1. [mem[n] EXCEPT !.idx = 1].idx = 1
    BY <1>3 DEF Memory
  <2>2. stop \notin {RUNNING, IDLE}
    OBVIOUS
  <2>. QED
    BY <1>1, <1>2, <1>5, <2>1, <2>2, LinearEndOwn
<1>6. CASE LinearEnd(n, Opposite(stop))
  <2>. DEFINE s == IF SkippedSoFar(n) = Count(n) THEN SKIPPED ELSE Opposite(stop)
  <2>1. ResetChildren(n, Kids(n), FreshMem(n)) /\ Answer(n, s)
    BY <1>6 DEF LinearEnd
  <2>2. s \notin {RUNNING, IDLE}
    BY DEF Opposite
  <2>3. FreshMem(n).idx = 1
    BY <1>1 DEF FreshMem, Indexed, LinearKinds, ReactiveKinds
  <2>. HIDE DEF s
  <2>. QED
    BY <1>1, <1>2, <2>1, <2>2, <2>3, LinearEndOwn
<1>. QED
  BY <1>1, <1>4, <1>5, <1>6, LinearNextOwn DEF LinearReply

\* SequenceWithMemory at its child's answer: a failure resets the children from the
\* failing one on and keeps the index.
LEMMA MemoryReplyOwn ==
    ASSUME ExecInv, NEW n \in Node, MemoryReply(n)
    PROVE  OnCallOf(n) /\ Own(n)
<1>1. /\ Kind[n] \in Indexed /\ Kind[n] = "SequenceWithMemory" /\ pc = "reply"
      /\ cur \notin Roots /\ Parent[cur] = n /\ OnCallOf(n) /\ Replied(n, LinearKinds)
  BY DEF MemoryReply, Replied, Indexed, LinearKinds, OnCallOf
<1>2. /\ TypeOK /\ RunningReached /\ mem[n] \in Memory /\ mem[n].idx \in Nat
      /\ mem[n].idx \in Positions(n) /\ Positions(n) = 1 .. Count(n) /\ Count(n) \in Nat
      /\ Restarted(n)'
  BY <1>1, ExecFacts, IndexedFacts DEF SelfRunning, LinearKinds, ParallelKinds, Counting
<1>3. CASE ret = RUNNING /\ Keep /\ Answer(n, RUNNING)
  <2>1. Others(n) /\ status'[n] = status[n] /\ mem'[n] = mem[n] /\ Return(n, RUNNING)
    BY <1>3, KeepOthers DEF Answer
  <2>. QED
    BY <1>1, <1>2, <1>3, <2>1, IndexedReplyOwn
<1>4. CASE /\ ret = FAILURE
           /\ ResetChildren(n, {Children[n][i] : i \in mem[n].idx .. Count(n)}, mem[n])
           /\ Answer(n, FAILURE)
  <2>. DEFINE C == {Children[n][i] : i \in mem[n].idx .. Count(n)}
  <2>1. \A i \in mem[n].idx .. Count(n) : i \in Positions(n)
    BY <1>2
  <2>2. C \in SUBSET Kids(n)
    BY <2>1 DEF Kids
  <2>3. Children[n][mem[n].idx] = cur
    BY <1>1, AtReply DEF WaitsFor
  <2>4. mem[n].idx \in mem[n].idx .. Count(n)
    BY <1>2
  <2>5. cur \in C
    BY <2>3, <2>4
  <2>6. ResetChildren(n, C, mem[n])
    BY <1>4
  <2>. HIDE DEF C
  <2>7. Others(n) /\ status'[n] = status[n] /\ mem'[n] = mem[n] /\ status'[cur] = IDLE
    BY <1>2, <2>2, <2>5, <2>6, ResetOthers
  <2>8. Retried(n, ret) /\ Return(n, FAILURE)
    BY <1>1, <1>4 DEF Retried, Answer
  <2>. QED
    BY <1>1, <1>2, <2>7, <2>8, IndexedReplyOwn
<1>5. CASE LinearEnd(n, SUCCESS)
  <2>. DEFINE s == IF SkippedSoFar(n) = Count(n) THEN SKIPPED ELSE SUCCESS
  <2>1. ResetChildren(n, Kids(n), FreshMem(n)) /\ Answer(n, s)
    BY <1>5 DEF LinearEnd
  <2>2. s \notin {RUNNING, IDLE} /\ ~Retried(n, s)
    BY DEF Retried
  <2>3. FreshMem(n).idx = 1
    BY <1>1 DEF FreshMem, ReactiveKinds
  <2>. HIDE DEF s
  <2>. QED
    BY <1>1, <2>1, <2>2, <2>3, LinearEndOwn
<1>. QED
  BY <1>1, <1>3, <1>4, <1>5, LinearNextOwn DEF MemoryReply

\* IfThenElse: the condition, then one branch.
LEMMA IfThenElseOwn ==
    ASSUME ExecInv, NEW n \in Node, IfThenElseTick(n) \/ IfThenElseReply(n)
    PROVE  OnCallOf(n) /\ Own(n)
<1>1. Kind[n] = "IfThenElse" /\ Kind[n] \in Indexed /\ OnCallOf(n) /\ Kind[n] \in BranchKinds
  BY DEF IfThenElseTick, IfThenElseReply, Ticking, Replied, Indexed, OnCallOf, BranchKinds
<1>2. /\ TypeOK /\ RunningReached /\ mem[n] \in Memory /\ mem[n].idx \in Nat
      /\ Positions(n) = 1 .. Count(n) /\ Count(n) \in {2, 3}
      /\ 2 \in Positions(n) /\ (Count(n) = 3 => 3 \in Positions(n))
      /\ mem'[n].idx = 1 => Restarted(n)'
  BY <1>1, ExecFacts, IndexedFacts, BranchFacts
<1>3. CASE IfThenElseTick(n)
  BY <1>1, <1>3, IndexedTickOwn DEF IfThenElseTick, SetRunning, Ticking
<1>4. CASE IfThenElseReply(n)
  <2>1. pc = "reply" /\ cur \notin Roots /\ Parent[cur] = n
    BY <1>4 DEF IfThenElseReply, Replied
  <2>2. /\ cur \in Kids(n) /\ Children[n][mem[n].idx] = cur
        /\ ret # IDLE /\ ret \in NodeStatus
    BY <1>1, <2>1, AtReply DEF WaitsFor
  <2>3. [mem[n] EXCEPT !.idx = 2].idx = 2 /\ [mem[n] EXCEPT !.idx = 3].idx = 3
    BY <1>2 DEF Memory
  <2>4. CASE ret \in {RUNNING, SKIPPED} /\ Keep /\ (Return(n, RUNNING) \/ Unwind)
    <3>1. Others(n) /\ status'[n] = status[n] /\ mem'[n] = mem[n]
      BY <2>4, KeepOthers
    <3>. QED
      BY <1>1, <1>2, <2>1, <2>4, <3>1, IndexedReplyOwn
  <2>5. ASSUME NEW i \in {2, 3}, i \in Positions(n), mem[n].idx = 1,
               Remember(n, [mem[n] EXCEPT !.idx = i]), TickChild(n, i, 0)
        PROVE  Own(n)
    <3>. DEFINE m == [mem[n] EXCEPT !.idx = i]
    <3>1. m.idx = i
      BY <1>2 DEF Memory
    <3>2. Remember(n, m)
      BY <2>5
    <3>. HIDE DEF m
    <3>3. Others(n) /\ status'[n] = status[n] /\ mem'[n].idx = i
      BY <1>2, <3>1, <3>2, RememberOthers
    <3>4. mem'[n].idx > mem[n].idx /\ mem'[n].idx \in Nat
      BY <2>5, <3>3
    <3>5. mem'[n].idx \in Positions(n) /\ TickChild(n, mem'[n].idx, 0)
      BY <2>5, <3>3
    <3>. QED
      BY <1>1, <2>1, <3>3, <3>4, <3>5, IndexedReplyOwn
  <2>6. CASE mem[n].idx = 1 /\ Count(n) = 2 /\ Keep /\ Answer(n, FAILURE)
    <3>1. Others(n) /\ status'[n] = status[n] /\ mem'[n] = mem[n]
      BY <2>6, KeepOthers
    <3>2. Kept(cur)
      BY <1>1, <2>1, <2>2, <2>6 DEF Kept, KeptCondition
    <3>3. EndsNext(n) /\ Return(n, FAILURE)
      BY <1>1, <2>6 DEF EndsNext, Retried, Answer, Return, Go
    <3>. QED
      BY <1>1, <1>2, <2>1, <2>6, <3>1, <3>2, <3>3, IndexedReplyOwn
  <2>7. CASE ret # RUNNING /\ ResetChildren(n, Kids(n), FreshMem(n)) /\ Answer(n, ret)
    <3>1. FreshMem(n).idx = 1 /\ ~Retried(n, ret)
      BY <1>1 DEF FreshMem, ReactiveKinds, Retried
    <3>. QED
      BY <1>1, <2>1, <2>2, <2>7, <3>1, LinearEndOwn
  <2>. QED
    BY <1>1, <1>2, <1>4, <2>4, <2>5, <2>6, <2>7 DEF IfThenElseReply, Answer, Throw, Keep
<1>. QED
  BY <1>3, <1>4

-------------------------------------------------------------------------------
(* Parallel, ParallelAll and Switch                                        *)

\* A node that is not RUNNING when its tick() begins has nothing behind it.
LEMMA KeptAfresh ==
    ASSUME ExecInv, NEW n \in Node, pc = "tick", mem'[n] = mem[n], status'[n] = status[n]
    PROVE  StartsAfresh(n)
BY SameRestarted DEF ExecInv, FreshIdle, StartsAfresh

\* Behind a parallel node are the children that have completed.
LEMMA ParallelFacts ==
    ASSUME TypeOK, NEW n \in Node, Kind[n] \in ParallelKinds
    PROVE  /\ mem[n] \in Memory /\ Kind[n] \notin Indexed /\ Kind[n] \in SelfRunning
           /\ Visited(n) = Done(mem[n]) /\ Visited(n)' = Done(mem'[n])
           /\ mem'[n] = FreshMem(n) => Restarted(n)'
<1>1. Kind[n] \notin Indexed /\ Kind[n] \in SelfRunning
  BY DEF ParallelKinds, Indexed, LinearKinds, SelfRunning
<1>2. Visited(n) = Done(mem[n]) /\ Visited(n)' = Done(mem'[n])
  BY <1>1 DEF Visited, Done
<1>. QED
  BY <1>1, <1>2, FreshRestarted DEF TypeOK, StateOK

\* Parallel and ParallelAll up to the first child that has not completed.
LEMMA ParallelTickOwn ==
    ASSUME ExecInv, NEW n \in Node, NEW kinds \in SUBSET ParallelKinds, NEW required,
           ParallelTick(n, kinds, required)
    PROVE  OnCallOf(n) /\ Own(n)
<1>1. /\ TypeOK /\ Kind[n] \in ParallelKinds /\ pc = "tick" /\ OnCallOf(n)
  BY ExecFacts DEF ParallelTick, Ticking, OnCallOf
<1>2. /\ Kind[n] \notin Indexed
      /\ Visited(n) = Done(mem[n]) /\ Visited(n)' = Done(mem'[n])
  BY <1>1, ParallelFacts
<1>3. CASE Throw /\ UNCHANGED status
  <2>1. Others(n) /\ status'[n] = status[n] /\ mem'[n] = mem[n] /\ Unwind
    BY <1>3, KeepOthers DEF Throw, Keep
  <2>. QED
    BY <1>1, <1>2, <2>1, KeptAfresh, NoChildYet
       DEF Own, OwnStatus, Move, Remembers, ClearsOthers
<1>4. CASE SetRunning(n) /\ TickFirst(n, Open(n, mem[n], 0), 0)
  <2>1. PICK j \in Positions(n) : TickChild(n, j, 0) /\ j \notin Done(mem[n])
    BY <1>4 DEF TickFirst, Open
  <2>2. Others(n) /\ status'[n] = RUNNING /\ mem'[n] = mem[n]
    BY <1>1, <1>4, StatusOthers DEF SetRunning
  <2>3. Move(n)
    BY <1>2, <2>1, <2>2 DEF Move
  <2>. QED
    BY <1>1, <1>2, <2>2, <2>3, NoChildYet
       DEF Own, OwnStatus, StartsAfresh, Remembers, ClearsOthers
<1>. QED
  BY <1>3, <1>4 DEF ParallelTick

\* A child that has completed joins the completed ones.
LEMMA CollectedFacts ==
    ASSUME TypeOK, NEW n \in Node
    PROVE  /\ Done(mem[n]) \subseteq Done(Collected(n))
           /\ ret \in Completed => frame[n].j \in Done(Collected(n))
<1>1. mem[n] \in Memory
  BY DEF TypeOK, StateOK
<1>2. /\ Collected(n).succeeded = IF ret = SUCCESS THEN mem[n].succeeded \cup {frame[n].j}
                                  ELSE mem[n].succeeded
      /\ Collected(n).failed = IF ret = FAILURE THEN mem[n].failed \cup {frame[n].j}
                               ELSE mem[n].failed
  BY <1>1, ZenonT(40) DEF Collected, Memory
<1>. QED
  BY <1>2 DEF Done

\* Parallel and ParallelAll at a child's answer.
LEMMA ParallelReplyOwn ==
    ASSUME ExecInv, NEW n \in Node, ParallelReply(n) \/ ParallelAllReply(n)
    PROVE  OnCallOf(n) /\ Own(n)
<1>1. /\ TypeOK /\ RunningReached /\ Kind[n] \in ParallelKinds /\ OnCallOf(n)
      /\ pc = "reply" /\ cur \notin Roots /\ Parent[cur] = n
  BY ExecFacts DEF ParallelReply, ParallelAllReply, Replied, ParallelKinds, OnCallOf
<1>2. /\ Kind[n] \notin Indexed /\ Kind[n] # "SequenceWithMemory"
      /\ Visited(n) = Done(mem[n]) /\ Visited(n)' = Done(mem'[n])
      /\ mem'[n] = FreshMem(n) => Restarted(n)'
  BY <1>1, ParallelFacts DEF ParallelKinds
<1>3. status[n] = RUNNING /\ cur \in Kids(n)
  BY <1>1, AtReply, ParallelFacts
<1>4. CASE \E s \in Completed : ResetChildren(n, Kids(n), FreshMem(n)) /\ Answer(n, s)
  <2>1. PICK s \in Completed : ResetChildren(n, Kids(n), FreshMem(n)) /\ Return(n, s)
    BY <1>4 DEF Answer
  <2>2. /\ Others(n) /\ status'[n] = RUNNING /\ mem'[n] = FreshMem(n)
        /\ \A k \in Kids(n) : status'[k] = IDLE
    BY <1>1, <1>3, <2>1, ResetOthers
  <2>3. Move(n) /\ StartsAfresh(n)
    BY <1>2, <2>1, <2>2 DEF Move, StartsAfresh
  <2>4. EndsNext(n)
    BY <1>2, <2>1 DEF EndsNext, Retried, Return, Go
  <2>5. ClearsChild(n) /\ ClearsOthers(n)
    BY <1>3, <2>2 DEF ClearsChild, ClearsOthers
  <2>. QED
    BY <1>1, <1>3, <2>2, <2>3, <2>4, <2>5 DEF Own, OwnStatus
<1>5. CASE /\ Remember(n, Collected(n))
           /\ \/ \E k : TickFirst(n, Open(n, Collected(n), frame[n].j), k)
              \/ \E s : s \notin Completed /\ Answer(n, s)
  <2>1. Others(n) /\ status'[n] = RUNNING /\ mem'[n] = Collected(n)
    BY <1>1, <1>3, <1>5, RememberOthers
  <2>2. Visited(n) \subseteq Visited(n)' /\ (ret \in Completed => frame[n].j \in Visited(n)')
    BY <1>1, <1>2, <2>1, CollectedFacts
  <2>3. \/ \E j \in Positions(n) : \E k : TickChild(n, j, k) /\ j \notin Done(Collected(n))
        \/ \E s : Return(n, s) /\ s \notin Completed
    BY <1>5 DEF TickFirst, Open, Answer
  <2>4. Move(n)
    BY <1>2, <2>1, <2>3 DEF Move
  <2>. QED
    BY <1>1, <2>1, <2>2, <2>4
       DEF Own, OwnStatus, StartsAfresh, Remembers, ClearsChild, ClearsOthers
<1>. QED
  BY <1>1, <1>4, <1>5 DEF ParallelReply, ParallelAllReply

\* Switch forgets its child unless it runs.
LEMMA SwitchOwn ==
    ASSUME ExecInv, NEW n \in Node, SwitchTick(n) \/ SwitchReply(n)
    PROVE  OnCallOf(n) /\ Own(n)
<1>1. /\ TypeOK /\ RunningReached /\ Kind[n] = "Switch" /\ OnCallOf(n) /\ mem[n] \in Memory
      /\ IndexOK(n, mem[n])
  BY ExecFacts, MemFacts
     DEF SwitchTick, SwitchReply, Ticking, Replied, OnCallOf, TypeOK
<1>2. /\ Visited(n) = {} /\ Visited(n)' = {} /\ Kind[n] \notin Indexed \cup SelfRunning
      /\ ~Remembering(n) /\ ClearsOthers(n)
  BY <1>1, VisitedKinds DEF Indexed, LinearKinds, ParallelKinds, Remembering,
     ClearsOthers, SelfRunning, Counting
<1>3. mem'[n].idx = 0 => Restarted(n)'
  BY <1>1 DEF Restarted, UpdatedKinds, LinearKinds, ParallelKinds
<1>4. CASE SwitchTick(n)
  <2>1. PICK match \in Positions(n) :
          /\ IF mem[n].idx \notin {0, match}
             THEN ResetChildren(n, {Children[n][mem[n].idx]}, mem[n]) ELSE Keep
          /\ TickChild(n, match, 0)
    BY <1>4 DEF SwitchTick
  <2>2. Others(n) /\ status'[n] = status[n] /\ mem'[n] = mem[n]
    <3>1. CASE Keep
      BY <3>1, KeepOthers
    <3>2. CASE mem[n].idx # 0 /\ ResetChildren(n, {Children[n][mem[n].idx]}, mem[n])
      <4>1. mem[n].idx \in Positions(n)
        BY <1>1, <3>2 DEF IndexOK
      <4>2. {Children[n][mem[n].idx]} \in SUBSET Kids(n)
        BY <4>1 DEF Kids
      <4>. QED
        BY <1>1, <3>2, <4>2, ResetOthers
    <3>. QED
      BY <2>1, <3>1, <3>2
  <2>3. pc = "tick" /\ Move(n)
    BY <1>2, <1>4, <2>1 DEF SwitchTick, Ticking, Move
  <2>. QED
    BY <1>1, <1>2, <2>2, <2>3, KeptAfresh, NoChildYet DEF Own, OwnStatus
<1>5. CASE SwitchReply(n)
  <2>1. /\ pc = "reply" /\ cur \notin Roots /\ Parent[cur] = n /\ Return(n, ret)
    BY <1>5 DEF SwitchReply, Replied, Answer
  <2>2. pc' = "ticked" /\ ret' = ret /\ cur \in Kids(n)
    BY <2>1, AtReply DEF Return, Go
  <2>3. CASE ret = SKIPPED /\ Remember(n, [mem[n] EXCEPT !.idx = 0])
    <3>1. [mem[n] EXCEPT !.idx = 0].idx = 0
      BY <1>1 DEF Memory
    <3>2. Others(n) /\ status'[n] = status[n] /\ mem'[n].idx = 0
      BY <1>1, <2>3, <3>1, RememberOthers
    <3>. QED
      BY <1>1, <1>2, <1>3, <2>1, <2>3, <3>2
         DEF Own, OwnStatus, Move, StartsAfresh, ClearsChild
  <2>4. CASE ret = RUNNING /\ \E m : Remember(n, m)
    <3>1. Others(n) /\ status'[n] = status[n]
      BY <1>1, <2>4, RememberOthers
    <3>. QED
      BY <1>1, <1>2, <2>1, <2>2, <2>4, <3>1
         DEF Own, OwnStatus, Move, StartsAfresh, ClearsChild
  <2>5. CASE ResetChildren(n, Kids(n), FreshMem(n))
    <3>1. /\ Others(n) /\ status'[n] = status[n] /\ status'[cur] = IDLE /\ Restarted(n)'
      BY <1>1, <2>2, <2>5, ResetOthers, FreshRestarted
    <3>. QED
      BY <1>1, <1>2, <2>1, <3>1 DEF Own, OwnStatus, Move, StartsAfresh, ClearsChild
  <2>. QED
    BY <1>5, <2>3, <2>4, <2>5 DEF SwitchReply
<1>. QED
  BY <1>4, <1>5

\* Every class of ControlNodes.
LEMMA ControlOwn ==
    ASSUME ExecInv, NEW n \in Node, ControlTick(n)
    PROVE  OnCallOf(n) /\ Own(n)
<1>1. CASE SequenceTick(n) \/ FallbackTick(n) \/ MemoryTick(n)
  <2>1. /\ {"Sequence", "AsyncSequence"} \in SUBSET LinearKinds
        /\ {"Fallback", "AsyncFallback"} \in SUBSET LinearKinds
        /\ {"SequenceWithMemory"} \in SUBSET LinearKinds
    BY DEF LinearKinds
  <2>. QED
    BY <1>1, <2>1, LinearTickOwn DEF SequenceTick, FallbackTick, MemoryTick
<1>2. CASE SequenceReply(n) \/ FallbackReply(n)
  <2>1. Replied(n, LinearKinds \ {"SequenceWithMemory"})
    BY <1>2 DEF SequenceReply, FallbackReply, Replied, LinearKinds
  <2>. QED
    BY <1>2, <2>1, LinearReplyOwn DEF SequenceReply, FallbackReply
<1>3. CASE \/ ReactiveSequenceTick(n) \/ ReactiveSequenceReply(n)
           \/ ReactiveFallbackTick(n) \/ ReactiveFallbackReply(n)
  <2>1. {"ReactiveSequence"} \in SUBSET ReactiveKinds /\ {"ReactiveFallback"} \in SUBSET ReactiveKinds
    BY DEF ReactiveKinds
  <2>. QED
    BY <1>3, <2>1, ReactiveTickOwn, ReactiveReplyOwn DEF ReactiveSequenceTick,
       ReactiveSequenceReply, ReactiveFallbackTick, ReactiveFallbackReply
<1>4. CASE \/ ParallelTick(n, {"Parallel"}, {Limit[n], FailLimit[n]}) \/ ParallelReply(n)
           \/ ParallelTick(n, {"ParallelAll"}, {Limit[n]}) \/ ParallelAllReply(n)
  <2>1. {"Parallel"} \in SUBSET ParallelKinds /\ {"ParallelAll"} \in SUBSET ParallelKinds
    BY DEF ParallelKinds
  <2>. QED
    BY <1>4, <2>1, ParallelTickOwn, ParallelReplyOwn
<1>. QED
  BY <1>1, <1>2, <1>3, <1>4, MemoryReplyOwn, IfThenElseOwn, WhileDoElseOwn, SwitchOwn
     DEF ControlTick

-------------------------------------------------------------------------------
(* executeTick() around tick(), and the calls of the tree                  *)

\* Nothing changes but the place of the call, or an exception ends it: no answer is
\* under way.
LEMMA QuietExec ==
    ASSUME ExecInv, HaltInv', mem' = mem, heard' = heard,
           \A x \in Node : status'[x] \in {status[x], RUNNING},
           pc = "ticked" =>
               \/ ret = IDLE
               \/ ret = RUNNING /\ status'[cur] = RUNNING /\ Kind[cur] \notin DecoratorKinds,
           pc = "reply" => ret \notin Completed,
           pc' \notin {"ticked", "reply"}, FreshAnswer',
           InCall' => cur' = cur /\ frame' = frame /\ (InCall \/ cur \in Roots)
    PROVE  ExecInv'
<1>1. \A x \in Node : Restarted(x)' = Restarted(x) /\ Visited(x)' = Visited(x)
  BY DEF Restarted, Visited, Done
<1>2. \A x \in Node : ~Ends(x) /\ ~Resets(x) /\ ~JustDone(x)
  BY DEF Ends, Resets, JustDone
<1>3. AtWork' /\ AtChild'
  <2>. SUFFICES ASSUME InCall', NEW a \in Above[cur]
                PROVE  /\ Kind[a] \in SelfRunning => status'[a] = RUNNING
                       /\ WaitsFor(a, frame[a].j)'
    BY DEF AtWork, AtChild
  <2>1. cur \in Node
    BY DEF ExecInv, HaltInv, TypeOK, CallOK
  <2>2. a \in Node /\ InCall
    BY <2>1, AboveFacts, RootFacts
  <2>. QED
    BY <1>1, <2>2 DEF ExecInv, AtWork, AtChild, WaitsFor, Positions
<1>4. FreshIdle'
  BY <1>1 DEF ExecInv, FreshIdle
<1>5. Told'
  BY <1>1, <1>2 DEF ExecInv, Told, Remembering, Positions, Retried
<1>6. Cleared' /\ RootCleared'
  <2>1. \A x \in Node : status'[x] \in Completed => status[x] \in Completed
    BY DEF ExecInv, HaltInv, TypeOK, StateOK
  <2>2. \A x \in Node : \A i \in Positions(x) : Children[x][i] \in Node
    BY TreeFacts
  <2>3. Cleared'
    BY <1>1, <1>2, <2>1, <2>2 DEF ExecInv, Cleared, Unreset, Kept, KeptCondition, LeftCompleted, Count, Positions
  <2>4. RootCleared'
    BY <1>2, <2>1, RootFacts DEF ExecInv, RootCleared, LeftCompleted
  <2>. QED
    BY <2>3, <2>4
<1>7. Real'
  BY DEF Real
<1>. QED
  BY <1>3, <1>4, <1>5, <1>6, <1>7 DEF ExecInv

\* A halt at the node being entered or of the whole tree.
LEMMA HaltExec ==
    ASSUME ExecInv, HaltInv', NEW H \in SUBSET Node, NEW R \in SUBSET Node,
           HaltTrace(H, R), mem' = MemAfter(H),
           pc \notin {"ticked", "reply"}, pc' \notin {"ticked", "reply"},
           ret' \notin Completed,
           InCall' =>
               /\ InCall /\ cur' = cur /\ frame' = frame
               /\ \A a \in Above[cur] : a \notin H /\ status'[a] = status[a]
    PROVE  ExecInv'
<1>1. \A x \in Node : Moved(x)
  BY HaltMoves
<1>2. \A x \in Node : ~Ends(x) /\ ~Resets(x) /\ ~JustDone(x)
  BY DEF Ends, Resets, JustDone
<1>3. AtWork' /\ AtChild'
  <2>. SUFFICES ASSUME InCall', NEW a \in Above[cur]
                PROVE  /\ Kind[a] \in SelfRunning => status'[a] = RUNNING
                       /\ WaitsFor(a, frame[a].j)'
    BY DEF AtWork, AtChild
  <2>1. a \in Node /\ mem'[a] = mem[a]
    BY AboveFacts DEF ExecInv, HaltInv, TypeOK, CallOK, MemAfter
  <2>. QED
    BY <2>1, SameVisited DEF ExecInv, AtWork, AtChild, WaitsFor, Positions
<1>4. FreshIdle' /\ FreshAnswer'
  <2>1. \A x \in Node : Free(x) => status[x] = RUNNING \/ Restarted(x)
    BY DEF ExecInv, FreshIdle
  <2>. QED
    BY <1>1, <2>1, MovedRestarted DEF FreshIdle, FreshAnswer
<1>5. Told'
  <2>. SUFFICES ASSUME NEW x \in Node, Remembering(x), NEW i \in Positions(x),
                       heard'[Children[x][i]] \in Completed,
                       ~Retried(x, heard'[Children[x][i]])
                PROVE  i \in Visited(x)'
    BY DEF Told, Positions, Remembering
  <2>1. heard[Children[x][i]] = heard'[Children[x][i]]
    BY TreeFacts DEF HaltTrace
  <2>2. i \in Visited(x)
    BY <1>2, <2>1 DEF ExecInv, Told
  <2>. QED
    BY <1>1, <2>2, MovedTold
<1>6. Cleared'
  <2>. SUFFICES ASSUME NEW x \in Node, ~Unreset(x), NEW i \in Positions(x),
                       status'[Children[x][i]] \in Completed,
                       ~Kept(Children[x][i])
                PROVE  i \in Visited(x)'
    BY DEF Cleared, Positions, Unreset, Kept, KeptCondition, LeftCompleted, Count
  <2>1. Children[x][i] \in Node /\ status[Children[x][i]] \in Completed
    BY TreeFacts DEF HaltTrace
  <2>2. i \in Visited(x)
    BY <1>2, <2>1 DEF ExecInv, Cleared
  <2>. QED
    BY <1>1, <2>2, MovedCleared
<1>7. RootCleared'
  BY <1>2, RootFacts DEF ExecInv, RootCleared, LeftCompleted, HaltTrace
<1>8. Real'
  BY DEF Real
<1>. QED
  BY <1>3, <1>4, <1>5, <1>6, <1>7, <1>8 DEF ExecInv

\* A pre-condition or callback answers in place of tick(), or tick() is called.
LEMMA EnterExec ==
    ASSUME ExecInv, HaltInv', NEW n \in Node,
           PreConditionAnswers(n) \/ PreTickSubstitutes(n) \/ CallTick(n)
    PROVE  ExecInv'
<1>1. /\ pc = "enter" /\ cur = n /\ cur' = n /\ Keep /\ frame' = frame
      /\ pc' \in {"preempted", "tick"}
  BY DEF PreConditionAnswers, PreTickSubstitutes, CallTick, Go
<1>2. FreshAnswer'
  <2>1. CASE PreConditionAnswers(n)
    <3>1. Free(n) => Restarted(n)
      BY <1>1, <2>1 DEF PreConditionAnswers, ExecInv, FreshIdle
    <3>. QED
      BY <1>1, <3>1, SameRestarted DEF FreshAnswer, Keep
  <2>2. CASE PreTickSubstitutes(n) \/ CallTick(n)
    BY <1>1, <2>2 DEF PreTickSubstitutes, CallTick, FreshAnswer, Free, Go
  <2>. QED
    BY <2>1, <2>2
<1>. QED
  BY <1>1, <1>2, QuietExec DEF Keep, InCall

\* WHILE_TRUE fails: the node is halted, its callers are not.
LEMMA PreConditionHaltsExec ==
    ASSUME ExecInv, HaltInv', NEW n \in Node, PreConditionHalts(n)
    PROVE  ExecInv'
<1>. DEFINE H == HaltedFrom(n)
<1>1. /\ pc = "enter" /\ cur = n /\ cur' = n /\ pc' = "preempted" /\ ret' = SKIPPED
      /\ status' = StatusAfter(H, {}) /\ mem' = MemAfter(H) /\ heard' = HeardAfter(H)
      /\ frame' = frame
  BY DEF PreConditionHalts, Go
<1>2. TypeOK /\ RunningReached
  BY ExecFacts
<1>3. H \in SUBSET Node /\ {} \in SUBSET Node
  BY DEF HaltedFrom
<1>4. HaltTrace(H, {})
  BY <1>1, <1>2, <1>3, HaltedFromReaches, HaltTraceOf
<1>5. ASSUME NEW a \in Above[n]
      PROVE  a \notin H /\ status'[a] = status[a]
  <2>1. a \in Node /\ a # n /\ n \notin Above[a]
    BY AboveFacts
  <2>2. a \notin H
    BY <2>1 DEF HaltedFrom
  <2>3. a \notin Roots => Parent[a] \notin H
    BY <2>1, TreeAssumption DEF HaltedFrom
  <2>. QED
    BY <1>1, <2>1, <2>2, <2>3 DEF StatusAfter, ResetByHalt
<1>. HIDE DEF H
<1>. QED
  BY <1>1, <1>3, <1>4, <1>5, HaltExec DEF InCall

\* Either pass of haltTree().
LEMMA HaltTreeExec ==
    ASSUME ExecInv, HaltInv', HaltRoot \/ HaltVisit
    PROVE  ExecInv'
<1>1. /\ TypeOK /\ RunningReached /\ cur \in Node
  BY ExecFacts DEF TypeOK, CallOK
<1>2. /\ pc \in {"rest", "halting"} /\ pc' \in {"rest", "halting"} /\ ret' = IDLE
  BY DEF HaltRoot, HaltVisit, Go
<1>3. ASSUME NEW H \in SUBSET Node, NEW R \in SUBSET Node, HaltTrace(H, R),
             mem' = MemAfter(H)
      PROVE  ExecInv'
  BY <1>2, <1>3, HaltExec DEF InCall
<1>4. CASE HaltRoot
  <2>. DEFINE H == HaltedFrom(cur)
  <2>1. status' = StatusAfter(H, {}) /\ mem' = MemAfter(H) /\ heard' = HeardAfter(H)
    BY <1>4 DEF HaltRoot
  <2>2. H \in SUBSET Node /\ {} \in SUBSET Node
    BY <1>1 DEF HaltedFrom
  <2>3. PassedOn(H)
    BY <1>1, HaltedFromReaches
  <2>. HIDE DEF H
  <2>4. HaltTrace(H, {})
    BY <1>1, <2>1, <2>2, <2>3, HaltTraceOf
  <2>. QED
    BY <1>3, <2>1, <2>2, <2>4
<1>5. CASE HaltVisit
  <2>. DEFINE H == TreeOf(cur)
  <2>1. status' = StatusAfter(H, {cur}) /\ mem' = MemAfter(H) /\ heard' = HeardAfter(H)
    BY <1>5 DEF HaltVisit
  <2>2. H \in SUBSET Node /\ {cur} \in SUBSET Node /\ cur \in H
    BY <1>1 DEF TreeOf
  <2>3. PassedOn(H)
    BY <1>1, TreeOfReaches
  <2>. HIDE DEF H
  <2>4. HaltTrace(H, {cur})
    BY <1>1, <2>1, <2>2, <2>3, HaltTraceOf
  <2>. QED
    BY <1>3, <2>1, <2>2, <2>4
<1>. QED
  BY <1>4, <1>5

\* tickRoot() resets a completed root.
LEMMA RootAnswersExec ==
    ASSUME ExecInv, HaltInv', RootAnswers
    PROVE  ExecInv'
<1>1. status \in [Node -> NodeStatus] /\ cur \in Node /\ cur \in Roots
  BY ExecFacts DEF TypeOK, StateOK, CallOK, RootAnswers
<1>2. /\ pc = "reply" /\ cur' = cur /\ pc' \in {"rest", "sleeping"} /\ ret' \notin Completed
      /\ mem' = mem /\ heard' = heard
      /\ status' = [status EXCEPT ![cur] = IF isStatusCompleted(ret) THEN IDLE ELSE @]
  BY DEF RootAnswers, Go
<1>3. /\ \A x \in Node \ {cur} : status'[x] = status[x]
      /\ status'[cur] = IF ret \in Completed THEN IDLE ELSE status[cur]
  BY <1>1, <1>2
<1>4. \A x \in Node : Restarted(x)' = Restarted(x) /\ Visited(x)' = Visited(x)
  BY <1>2 DEF Restarted, Visited, Done
<1>5. AtWork' /\ AtChild' /\ FreshAnswer' /\ Real'
  BY <1>2 DEF AtWork, AtChild, FreshAnswer, Real, InCall
<1>6. FreshIdle'
  BY <1>2, <1>3, <1>4 DEF ExecInv, FreshIdle, FreshAnswer
<1>7. \A x \in Node : \A i \in Positions(x) :
          Children[x][i] \in Node /\ Children[x][i] # cur
  BY <1>1, TreeAssumption, TreeFacts
<1>8. Told'
  BY <1>2, <1>4, <1>7 DEF ExecInv, Told, Remembering, Positions, Retried, Ends
<1>9. Cleared'
  BY <1>2, <1>3, <1>4, <1>7 DEF ExecInv, Cleared, Unreset, Kept, KeptCondition, LeftCompleted, Count, Positions,
     JustDone, Resets
<1>10. RootCleared'
  BY <1>1, <1>2, <1>3, RootFacts DEF ExecInv, RootCleared, LeftCompleted, JustDone
<1>. QED
  BY <1>5, <1>6, <1>8, <1>9, <1>10 DEF ExecInv

\* executeTick() returns the answer s to the caller.
LEMMA RepliesExec ==
    ASSUME ExecInv, HaltInv', NEW n \in Node, cur = n, pc \in {"ticked", "preempted"},
           NEW s \in NodeStatus, s = ret \/ (n \in PostTick /\ s \in Completed), s # IDLE,
           status' = [x \in Node |->
                        IF x = n THEN (IF s = SKIPPED THEN status[n] ELSE s)
                        ELSE IF ResetByDecorator(n, x) THEN IDLE ELSE status[x]],
           heard' = [x \in Node |-> IF x = n THEN s
                                    ELSE IF x \in Kids(n) /\ Forgets(n, s) THEN IDLE
                                    ELSE heard[x]],
           Go("reply", n, s), mem' = mem, frame' = frame
    PROVE  ExecInv'
<1>1. /\ pc' = "reply" /\ cur' = n /\ ret' = s /\ InCall /\ InCall'
      /\ ~(pc = "reply")
  BY DEF Go, InCall
<1>2. /\ status'[n] = IF s = SKIPPED THEN status[n] ELSE s
      /\ \A x \in Node \ {n} :
            status'[x] = IF ResetByDecorator(n, x) THEN IDLE ELSE status[x]
  OBVIOUS
<1>3. /\ heard'[n] = s
      /\ \A x \in Node \ {n} :
            heard'[x] = IF x \in Kids(n) /\ Forgets(n, s) THEN IDLE ELSE heard[x]
  OBVIOUS
<1>4. \A x \in Node : Restarted(x)' = Restarted(x) /\ Visited(x)' = Visited(x)
  BY DEF Restarted, Visited, Done
<1>5. AtWork' /\ AtChild'
  <2>. SUFFICES ASSUME NEW a \in Above[n]
                PROVE  /\ Kind[a] \in SelfRunning => status'[a] = RUNNING
                       /\ WaitsFor(a, frame[a].j)'
    BY <1>1 DEF AtWork, AtChild
  <2>1. a \in Node /\ a # n
    BY AboveFacts
  <2>2. Kind[a] \in SelfRunning => status'[a] = RUNNING
    BY <1>1, <1>2, <2>1 DEF ExecInv, AtWork, ResetByDecorator
  <2>3. WaitsFor(a, frame[a].j)'
    BY <1>1, <1>4, <2>1 DEF ExecInv, AtChild, WaitsFor, Positions
  <2>. QED
    BY <2>2, <2>3
<1>6. FreshIdle'
  <2>. SUFFICES ASSUME NEW x \in Node, Free(x), status'[x] # RUNNING
                PROVE  Restarted(x)
    BY <1>4 DEF FreshIdle, Free
  <2>1. CASE x = n /\ s \in Completed
    BY <2>1 DEF ExecInv, FreshAnswer, Free
  <2>2. CASE x = n /\ s \notin Completed
    BY <1>2, <2>2 DEF ExecInv, FreshIdle
  <2>3. CASE x # n
    BY <1>2, <2>3 DEF ExecInv, FreshIdle, ResetByDecorator
  <2>. QED
    BY <2>1, <2>2, <2>3
<1>7. FreshAnswer'
  BY <1>1, <1>4 DEF ExecInv, FreshAnswer, Free
<1>8. Real'
  BY <1>1, <1>2, <1>3 DEF Real
<1>9. Told'
  <2>. SUFFICES ASSUME NEW x \in Node, Remembering(x), NEW i \in Positions(x),
                       heard'[Children[x][i]] \in Completed,
                       ~Retried(x, heard'[Children[x][i]])
                PROVE  i \in Visited(x) \/ (Children[x][i] = n /\ s \in Completed)
    BY <1>1, <1>4 DEF Told, Positions, Remembering
  <2>. DEFINE k == Children[x][i]
  <2>1. k \in Node /\ k \in Kids(x) /\ Parent[k] = x /\ k # x
    BY KidFacts DEF Kids
  <2>2. CASE k = n
    BY <1>3, <2>2
  <2>3. CASE k # n /\ x # n
    <3>1. k \notin Kids(n)
      BY <2>1, <2>3, KidFacts
    <3>2. heard[k] = heard'[k]
      BY <1>3, <2>1, <2>3, <3>1
    <3>3. ~Ends(x)
      BY <2>3 DEF Ends
    <3>. QED
      BY <1>1, <3>2, <3>3 DEF ExecInv, Told
  <2>4. CASE x = n
    <3>1. ~Forgets(n, s) /\ heard[k] = heard'[k]
      BY <1>3, <2>1, <2>4
    <3>2. s = RUNNING \/ Retried(n, s)
      BY <3>1 DEF Forgets, Retried
    <3>3. ~Ends(n)
      BY <2>4, <3>2 DEF Ends, Remembering, Retried
    <3>. QED
      BY <1>1, <2>4, <3>1, <3>3 DEF ExecInv, Told
  <2>. QED
    BY <2>2, <2>3, <2>4
<1>10. status'[n] \in Completed => s \in Completed \/ (status[n] \in Completed /\ ~JustDone(n))
  BY <1>2 DEF JustDone
<1>11. \A x \in Node \ {n} : status'[x] \in Completed =>
          status[x] \in Completed /\ ~ResetByDecorator(n, x) /\ ~JustDone(x)
  BY <1>2 DEF JustDone
<1>12. Cleared'
  <2>. SUFFICES ASSUME NEW x \in Node, ~Unreset(x), NEW i \in Positions(x),
                       status'[Children[x][i]] \in Completed,
                       ~Kept(Children[x][i])
                PROVE  i \in Visited(x) \/ (Children[x][i] = n /\ s \in Completed)
    BY <1>1, <1>4 DEF Cleared, Positions, Unreset, Kept, KeptCondition, LeftCompleted, Count, JustDone
  <2>. DEFINE k == Children[x][i]
  <2>1. k \in Node /\ k \in Kids(x) /\ k # x
    BY KidFacts DEF Kids
  <2>2. CASE k = n /\ s \notin Completed
    <3>1. status[n] \in Completed /\ ~JustDone(n) /\ ~Resets(x)
      BY <1>10, <2>1, <2>2 DEF Resets
    <3>. QED
      BY <2>2, <3>1 DEF ExecInv, Cleared
  <2>3. CASE k # n
    <3>1. status[k] \in Completed /\ ~ResetByDecorator(n, k) /\ ~JustDone(k)
      BY <1>11, <2>1, <2>3
    <3>2. ~Resets(x)
      BY <2>1, <3>1 DEF Resets, ResetByDecorator
    <3>. QED
      BY <3>1, <3>2 DEF ExecInv, Cleared
  <2>. QED
    BY <2>2, <2>3
<1>13. RootCleared'
  <2>. SUFFICES ASSUME NEW r \in Roots, status'[r] \in Completed, ~LeftCompleted(r)
                PROVE  r = n /\ s \in Completed
    BY <1>1 DEF RootCleared, JustDone, LeftCompleted
  <2>1. r \in Node
    BY RootFacts
  <2>. QED
    BY <1>10, <1>11, <2>1 DEF ExecInv, RootCleared
<1>. QED
  BY <1>5, <1>6, <1>7, <1>8, <1>9, <1>12, <1>13 DEF ExecInv

\* The end of executeTick().
LEMMA LeaveExec ==
    ASSUME ExecInv, HaltInv', NEW n \in Node, Leave(n)
    PROVE  ExecInv'
<1>1. PICK s \in IF n \in PostTick THEN {ret} \cup Completed ELSE {ret} :
        \/ s = IDLE /\ Throw /\ UNCHANGED status
        \/ /\ s = RUNNING /\ Kind[n] \in {"SyncAction", "SimpleAction"}
           /\ status' = [status EXCEPT ![n] = RUNNING]
           /\ Throw
        \/ /\ s # IDLE
           /\ s = RUNNING => Kind[n] \notin {"SyncAction", "SimpleAction"}
           /\ status' = [x \in Node |->
                           IF x = n THEN (IF s = SKIPPED THEN status[n] ELSE s)
                           ELSE IF ResetByDecorator(n, x) THEN IDLE ELSE status[x]]
           /\ heard' = [x \in Node |-> IF x = n THEN s
                                       ELSE IF x \in Kids(n) /\ Forgets(n, s) THEN IDLE
                                       ELSE heard[x]]
           /\ Go("reply", n, s)
           /\ UNCHANGED <<mem, frame, ready>>
  BY DEF Leave
<1>2. /\ status \in [Node -> NodeStatus] /\ cur = n /\ pc \in {"ticked", "preempted"}
      /\ ret \in NodeStatus
  BY ExecFacts DEF TypeOK, StateOK, CallOK, Leave
<1>3. s \in NodeStatus /\ (s = ret \/ (n \in PostTick /\ s \in Completed))
  BY <1>1, <1>2
<1>4. ASSUME Throw
      PROVE  /\ mem' = mem /\ heard' = heard /\ ~InCall' /\ FreshAnswer'
             /\ pc' \notin {"ticked", "reply"}
  BY <1>4 DEF Throw, Unwind, InCall, FreshAnswer
<1>5. CASE s = IDLE /\ Throw /\ UNCHANGED status
  BY <1>2, <1>3, <1>4, <1>5, QuietExec
<1>6. CASE /\ s = RUNNING /\ Kind[n] \in {"SyncAction", "SimpleAction"}
           /\ status' = [status EXCEPT ![n] = RUNNING]
           /\ Throw
  <2>1. status'[cur] = RUNNING /\ \A x \in Node : status'[x] \in {status[x], RUNNING}
    BY <1>2, <1>6
  <2>2. Kind[cur] \notin DecoratorKinds /\ ret = RUNNING
    BY <1>2, <1>3, <1>6 DEF DecoratorKinds, UpdatedKinds
  <2>. QED
    BY <1>2, <1>4, <1>6, <2>1, <2>2, QuietExec
<1>. QED
  BY <1>1, <1>2, <1>3, <1>5, <1>6, RepliesExec

\* A script or an injected callback throws: what tick() did to the members stays, and a
\* child is left completed only where that is allowed for.
LEMMA ScriptThrowsExec ==
    ASSUME ExecInv, HaltInv', NEW n \in Node, ScriptThrows(n)
    PROVE  ExecInv'
<1>1. /\ cur = n /\ n \in Throwing /\ status' = status /\ mem' = mem /\ pc' = "rest"
      /\ \A x \in Node :
            heard'[x] = IF pc = "ticked" /\ x \in Kids(n) /\ Forgets(n, ret) THEN IDLE
                        ELSE heard[x]
      /\ pc \in {"enter", "preempted"}
            \/ (pc = "ticked" /\ (ret \in Completed \/ (n \in PostTick /\ ret # IDLE)))
  BY DEF ScriptThrows, PreConditionThrows, PostConditionThrows, Throw, Unwind
<1>2. \A x \in Node : Restarted(x)' = Restarted(x) /\ Visited(x)' = Visited(x)
  BY <1>1 DEF Restarted, Visited, Done
<1>3. AtWork' /\ AtChild' /\ FreshAnswer' /\ Real'
  BY <1>1 DEF AtWork, AtChild, FreshAnswer, Real, InCall
<1>4. FreshIdle'
  BY <1>1, <1>2 DEF ExecInv, FreshIdle, Free
<1>5. Told'
  <2>. SUFFICES ASSUME NEW x \in Node, Remembering(x), NEW i \in Positions(x),
                       heard'[Children[x][i]] \in Completed,
                       ~Retried(x, heard'[Children[x][i]])
                PROVE  i \in Visited(x)
    BY <1>2 DEF Told, Positions, Remembering
  <2>1. Children[x][i] \in Kids(x) /\ Children[x][i] \in Node
    BY KidFacts DEF Kids
  <2>2. heard'[Children[x][i]] = heard[Children[x][i]]
    BY <1>1, <2>1
  <2>3. ~Ends(x)
    BY <1>1, <2>1 DEF Ends, Forgets, Retried
  <2>. QED
    BY <1>1, <2>2, <2>3 DEF ExecInv, Told
<1>6. Cleared'
  <2>. SUFFICES ASSUME NEW x \in Node, ~Unreset(x), NEW i \in Positions(x),
                       status[Children[x][i]] \in Completed, ~Kept(Children[x][i])
                PROVE  i \in Visited(x)
    BY <1>1, <1>2 DEF Cleared, Positions, Unreset, Kept, KeptCondition, LeftCompleted, Count
  <2>1. /\ Children[x][i] \in Node /\ Children[x][i] \notin Roots
        /\ Parent[Children[x][i]] = x
    BY KidFacts DEF Kids
  <2>2. ~JustDone(Children[x][i]) /\ ~Resets(x)
    BY <1>1, <2>1 DEF JustDone, Resets, Kept, LeftCompleted
  <2>. QED
    BY <2>2 DEF ExecInv, Cleared
<1>7. RootCleared'
  BY <1>1 DEF ExecInv, RootCleared, JustDone, LeftCompleted
<1>. QED
  BY <1>3, <1>4, <1>5, <1>6, <1>7 DEF ExecInv

\* A signal from another thread, or no step at all.
LEMMA SilentExec ==
    ASSUME ExecInv, HaltInv', UNCHANGED <<status, mem, frame, heard, pc, cur, ret>>
    PROVE  ExecInv'
<1>1. \A x \in Node : Restarted(x)' = Restarted(x) /\ Visited(x)' = Visited(x)
  BY DEF Restarted, Visited, Done
<1>2. AtWork' /\ AtChild' /\ Real'
  BY <1>1 DEF ExecInv, AtWork, AtChild, Real, WaitsFor, InCall, Visited, Done
<1>3. FreshIdle' /\ FreshAnswer'
  BY <1>1 DEF ExecInv, FreshIdle, FreshAnswer, Restarted, Done
<1>4. Told'
  BY <1>1 DEF ExecInv, Told, Ends
<1>5. Cleared' /\ RootCleared'
  BY <1>1 DEF ExecInv, Cleared, RootCleared, JustDone, Resets, Kept, KeptCondition,
     LeftCompleted, Count
<1>. QED
  BY <1>2, <1>3, <1>4, <1>5 DEF ExecInv

\* Every step keeps the invariant.
LEMMA ExecNextKept ==
    ASSUME ExecInv, [Next]_vars
    PROVE  ExecInv'
<1>1. HaltInv /\ HaltInv'
  BY HaltNextKept DEF ExecInv
<1>2. CASE \E n \in {cur} \cup Above[cur] : NodeStep(n)
  <2>1. PICK n \in {cur} \cup Above[cur] : NodeStep(n)
    BY <1>2
  <2>2. n \in Node
    BY <1>1, <2>1, NodeStepShape
  <2>3. CASE ExecuteTick(n)
    BY <1>1, <2>2, <2>3, EnterExec, PreConditionHaltsExec, LeaveExec, ScriptThrowsExec
       DEF ExecuteTick, ScriptThrows
  <2>4. CASE LeafTick(n) \/ ControlTick(n) \/ DecoratorTick(n)
    BY <1>1, <2>2, <2>4, LeafOwn, ControlOwn, DecoratorOwn, OwnKept
  <2>. QED
    BY <2>1, <2>3, <2>4 DEF NodeStep
<1>3. CASE TickAgain \/ SleepEnds \/ \E o \in TickOption : TickRoot(o)
  <2>1. /\ Keep /\ pc' = "enter" /\ cur' = cur /\ frame' = frame /\ ret' = IDLE
        /\ pc # "ticked" /\ (pc = "reply" => ret \notin Completed)
    BY <1>3 DEF TickAgain, SleepEnds, TickRoot, Go
  <2>2. cur \in Roots
    BY <1>1, <1>3 DEF TickAgain, SleepEnds, TickRoot, HaltInv, RestsAtRoot
  <2>. QED
    BY <1>1, <2>1, <2>2, QuietExec DEF Keep, FreshAnswer
<1>4. CASE UNCHANGED vars \/ \E n \in Wakers : WakeUp(n)
  BY <1>1, <1>4, SilentExec DEF vars, WakeUp
<1>. QED
  BY <1>1, <1>2, <1>3, <1>4, RootAnswersExec, HaltTreeExec DEF Next, CallStep

\* Trees just built: every node is IDLE, with the members it starts with.
LEMMA ExecInitOK == Init => ExecInv
<1>. SUFFICES ASSUME Init PROVE ExecInv
  OBVIOUS
<1>1. HaltInv
  BY HaltInitOK
<1>2. \A x \in Node : Restarted(x)
  BY DEF Init, Restarted, FreshMem, Done, LinearKinds, ReactiveKinds, ParallelKinds,
     UpdatedKinds
<1>3. AtWork /\ AtChild /\ FreshIdle /\ FreshAnswer /\ Real
  BY <1>2 DEF Init, AtWork, AtChild, FreshIdle, FreshAnswer, Real, InCall
<1>4. \A x \in Node : heard[x] = IDLE /\ status[x] = IDLE
  BY DEF Init
<1>5. \A x \in Node : \A i \in Positions(x) : Children[x][i] \in Node
  BY TreeFacts
<1>6. Told /\ Cleared /\ RootCleared
  BY <1>4, <1>5, RootFacts DEF Told, Cleared, RootCleared
<1>. QED
  BY <1>1, <1>3, <1>6 DEF ExecInv

-------------------------------------------------------------------------------
(* What holds of every tree                                                *)

\* The inductive invariant: whatever ticks, answers, halts, skips, exceptions and
\* callbacks come in whatever order, what a node keeps belongs to its present execution.
THEOREM ExecutionInvariant == Spec => []ExecInv
<1>1. ExecInv /\ [Next]_vars => ExecInv'
  BY ExecNextKept
<1>. QED
  BY <1>1, ExecInitOK, PTL DEF Spec

\* The classes that keep members which belong to one execution.
Keeping == SelfRunning \cup {"Switch"} \cup UpdatedKinds

\* A node that is not RUNNING starts from the beginning the next time, in every tree in
\* which no callback answers in place of a node that keeps something: such an answer
\* completes the node without the code that clears its members.
THEOREM StartsFromTheBeginning ==
    ASSUME \A n \in PreTick \cup PostTick : Kind[n] \notin Keeping
    PROVE  Spec => []NoLeftovers
<1>1. ASSUME NEW n \in Node, ~Free(n)
      PROVE  Restarted(n)
  BY <1>1 DEF Free, Keeping, Restarted, SelfRunning, Counting
<1>2. ExecInv => NoLeftovers
  BY <1>1 DEF ExecInv, FreshIdle, NoLeftovers, OnCall, InCall
<1>. QED
  BY <1>2, ExecutionInvariant, PTL

\* The child being entered is not behind its parent.
LEMMA EnteredIsNext ==
    ASSUME ExecInv, pc = "enter", cur \notin Roots
    PROVE  /\ Parent[cur] \in Node /\ frame[Parent[cur]].j \in Positions(Parent[cur])
           /\ Children[Parent[cur]][frame[Parent[cur]].j] = cur
           /\ frame[Parent[cur]].j \notin Visited(Parent[cur])
<1>. DEFINE n == Parent[cur]
            j == frame[n].j
<1>1. cur \in Node /\ InCall
  BY DEF ExecInv, HaltInv, TypeOK, CallOK, InCall
<1>2. n \in Node /\ n \in Above[cur] /\ cur \in Kids(n)
  BY <1>1, ParentFacts
<1>3. WaitsFor(n, j)
  BY <1>1, <1>2 DEF ExecInv, AtChild
<1>4. Children[n][j] \in Kids(n)
  BY <1>3 DEF WaitsFor, Kids
<1>5. Above[cur] = {n} \cup Above[n] /\ Children[n][j] \notin Above[cur]
  BY <1>2, <1>4, KidFacts
<1>. QED
  BY <1>2, <1>3, <1>5 DEF WaitsFor

\* A child that has completed is not executed a second time within one execution of a
\* parent that remembers, in every tree in which no callback replaces the answer of a
\* SequenceWithMemory: its FAILURE keeps the index, whoever decided on it.
THEOREM NotRepeated ==
    ASSUME \A n \in PostTick : Kind[n] # "SequenceWithMemory"
    PROVE  Spec => []CompletedChildNotRepeated
<1>1. ExecInv => CompletedChildNotRepeated
  <2>. SUFFICES ASSUME ExecInv, pc = "enter", cur \notin Roots,
                       Kind[Parent[cur]] \in LinearKinds \cup ParallelKinds \cup {"IfThenElse"},
                       heard[cur] \in Completed
                PROVE  Kind[Parent[cur]] = "SequenceWithMemory" /\ heard[cur] = FAILURE
    BY DEF CompletedChildNotRepeated
  <2>. DEFINE n == Parent[cur]
              j == frame[n].j
  <2>1. /\ n \in Node /\ j \in Positions(n) /\ Children[n][j] = cur /\ j \notin Visited(n)
    BY EnteredIsNext
  <2>2. Remembering(n) /\ ~Ends(n)
    BY DEF Remembering, Indexed, Ends
  <2>. QED
    BY <2>1, <2>2 DEF ExecInv, Told, Retried
<1>. QED
  BY <1>1, ExecutionInvariant, PTL

\* A node that is ticked although it has completed is a condition its parent keeps, a
\* node that a throwing script has left so, or the child of a reactive node or of a
\* decorator whose functor throws: only an exception takes those past the reset they
\* would have done.
THEOREM TickedAfterReset ==
    Spec => [](pc = "enter" /\ isStatusCompleted(status[cur]) =>
                 \/ KeptCondition(cur) \/ LeftCompleted(cur)
                 \/ cur \notin Roots /\ Unreset(Parent[cur]))
<1>1. ASSUME ExecInv, pc = "enter", status[cur] \in Completed, ~Kept(cur)
      PROVE  cur \notin Roots /\ Unreset(Parent[cur])
  <2>1. cur \notin Roots
    BY <1>1 DEF ExecInv, RootCleared, JustDone, Kept
  <2>. DEFINE n == Parent[cur]
              j == frame[n].j
  <2>2. n \in Node /\ j \in Positions(n) /\ Children[n][j] = cur /\ j \notin Visited(n)
    BY <1>1, <2>1, EnteredIsNext
  <2>3. ~JustDone(cur) /\ ~Resets(n)
    BY <1>1 DEF JustDone, Resets
  <2>. QED
    BY <1>1, <2>1, <2>2, <2>3 DEF ExecInv, Cleared
<1>2. ExecInv => (pc = "enter" /\ isStatusCompleted(status[cur]) =>
                    \/ KeptCondition(cur) \/ LeftCompleted(cur)
                    \/ cur \notin Roots /\ Unreset(Parent[cur]))
  BY <1>1 DEF Kept
<1>. QED
  BY <1>2, ExecutionInvariant, PTL


-------------------------------------------------------------------------------
(* While no exception leaves tickRoot()                                    *)

\* An exception leaves tickRoot() in the middle of a tick.
Thrown == pc' = "rest" /\ InCall /\ ~(pc = "reply" /\ cur \in Roots)

\* The classes whose children an exception can leave as they were.
Interruptible(n) == Kind[n] \in ReactiveKinds \cup {"SimpleDecorator"}

\* The position of the child n waits for.
Reached(n) == IF InCall /\ n \in Above[cur] THEN frame[n].j ELSE 0

\* executeTick() of a SimpleDecorator is about to reset the child.
Drops(n) == pc = "ticked" /\ cur = n /\ Kind[n] = "SimpleDecorator"

\* The children before the one n waits for do not run, those after it have not
\* completed, and two RUNNING ones are that one and another.
Orderly(n) ==
    \A i \in Positions(n) :
        /\ i < Reached(n) => status[Children[n][i]] # RUNNING
        /\ status[Children[n][i]] \in Completed =>
               i < Reached(n) \/ JustDone(Children[n][i]) \/ Drops(n)
        /\ \A k \in Positions(n) :
              i # k /\ status[Children[n][i]] = RUNNING /\ status[Children[n][k]] = RUNNING =>
                  Reached(n) \in {i, k}

Order == \A n \in Node : Interruptible(n) => Orderly(n)

\* Children that are reset or left alone, but for the one n waits for.
LEMMA OrderOthers ==
    ASSUME NEW n \in Node, Orderly(n), NEW m \in Node, Reached(n)' = Reached(n),
           \A k \in Kids(n) \ {m} : status'[k] \in {IDLE, status[k]},
           m \in Kids(n) =>
               \/ status'[m] \in {IDLE, status[m]}
               \/ Reached(n) \in Positions(n) /\ Children[n][Reached(n)] = m,
           \A k \in Kids(n) : status'[k] \in Completed =>
               \/ status[k] \in Completed /\ ~JustDone(k) /\ ~Drops(n)
               \/ JustDone(k)' \/ Drops(n)'
    PROVE  Orderly(n)'
<1>1. \A i \in Positions(n) : Children[n][i] \in Kids(n)
  BY DEF Kids
<1>2. ASSUME NEW i \in Positions(n), status'[Children[n][i]] = RUNNING
      PROVE  status[Children[n][i]] = RUNNING \/ i = Reached(n)
  BY <1>1, <1>2, OnePosition
<1>3. ASSUME NEW i \in Positions(n), i < Reached(n)
      PROVE  status'[Children[n][i]] # RUNNING
  <2>1. i \in Int
    BY TreeFacts
  <2>. QED
    BY <1>2, <1>3, <2>1 DEF Orderly
<1>4. ASSUME NEW i \in Positions(n), status'[Children[n][i]] \in Completed
      PROVE  i < Reached(n) \/ JustDone(Children[n][i])' \/ Drops(n)'
  BY <1>1, <1>4 DEF Orderly
<1>5. ASSUME NEW i \in Positions(n), NEW k \in Positions(n), i # k,
             status'[Children[n][i]] = RUNNING, status'[Children[n][k]] = RUNNING
      PROVE  Reached(n) \in {i, k}
  BY <1>2, <1>5 DEF Orderly
<1>. QED
  BY <1>3, <1>4, <1>5 DEF Orderly, Positions

\* Steps that tick no node: what has a status keeps it or loses it.
LEMMA QuietOrder ==
    ASSUME Order, cur \in Node, \A x \in Node : status'[x] \in {IDLE, status[x]},
           \A x \in Node : Reached(x)' = Reached(x),
           \A k \in Node \ Roots : ~JustDone(k), \A x \in Node : ~Drops(x)
    PROVE  Order'
<1>. SUFFICES ASSUME NEW n \in Node, Interruptible(n) PROVE Orderly(n)'
  BY DEF Order, Interruptible
<1>1. \A k \in Kids(n) : k \in Node /\ k \notin Roots
  BY KidFacts
<1>2. Orderly(n)
  BY DEF Order
<1>. QED
  BY <1>1, <1>2, OrderOthers

\* tick() of n orders the children of the other nodes.
LEMMA OwnOrder ==
    ASSUME ExecInv, Order, NEW n \in Node, OnCallOf(n), Own(n), ~Unwind,
           Interruptible(n) => Orderly(n)'
    PROVE  Order'
<1>. SUFFICES ASSUME NEW x \in Node, Interruptible(x), x # n PROVE Orderly(x)'
  BY DEF Order, Interruptible
<1>1. /\ cur \in Node /\ InCall /\ frame \in [Node -> Frame]
      /\ (n = cur /\ pc = "tick") \/ (pc = "reply" /\ cur \in Kids(n) /\ cur # n)
  BY KidFacts, ParentFacts DEF OnCallOf, ExecInv, HaltInv, TypeOK, CallOK, InCall
<1>2. Above[cur] = Above[n] \/ Above[cur] = {n} \cup Above[n]
  BY <1>1, KidFacts
<1>3. /\ InCall' /\ frame'[x] = frame[x]
      /\ Above[cur'] = Above[n] \/ Above[cur'] = {n} \cup Above[n]
      /\ pc' = "ticked" => cur' = n
  <2>1. CASE \E j \in Positions(n) : \E k : TickChild(n, j, k)
    <3>1. PICK j \in Positions(n) : \E k : TickChild(n, j, k)
      BY <2>1
    <3>2. cur' = Children[n][j] /\ cur' \in Kids(n)
      BY <3>1 DEF TickChild, Go, Kids
    <3>3. Above[cur'] = {n} \cup Above[n]
      BY <3>2, KidFacts
    <3>. QED
      BY <1>1, <3>1, <3>3 DEF TickChild, Go, InCall
  <2>2. CASE \E s : Return(n, s)
    BY <1>1, <2>2 DEF Return, Go, InCall
  <2>. QED
    BY <2>1, <2>2 DEF Own, Move
<1>4. Reached(x)' = Reached(x)
  BY <1>1, <1>2, <1>3 DEF Reached
<1>5. ASSUME n \in Kids(x)
      PROVE  Reached(x) \in Positions(x) /\ Children[x][Reached(x)] = n
  <2>1. Above[n] = {x} \cup Above[x]
    BY <1>5, KidFacts
  <2>2. /\ frame[x].j \in Positions(x)
        /\ Children[x][frame[x].j] = n \/ Children[x][frame[x].j] \in Above[n]
    BY <2>1, CallersWait
  <2>3. Children[x][frame[x].j] \in Kids(x)
    BY <2>2 DEF Kids
  <2>4. Children[x][frame[x].j] \notin Above[n]
    BY <2>1, <2>3, KidFacts
  <2>. QED
    BY <1>1, <1>2, <2>1, <2>2, <2>4 DEF Reached
<1>6. \A k \in Kids(x) : k \in Node /\ Parent[k] = x
  BY KidFacts
<1>7. ASSUME NEW k \in Kids(x)
      PROVE  ~JustDone(k) /\ ~Drops(x)
  BY <1>1, <1>6, KidFacts DEF JustDone, Drops
<1>8. ASSUME NEW k \in Kids(x), status'[k] \in Completed
      PROVE  status[k] \in Completed \/ JustDone(k)'
  BY <1>3, <1>6, <1>8 DEF Own, Others, OwnStatus, JustDone
<1>9. \A k \in Kids(x) \ {n} : status'[k] \in {IDLE, status[k]}
  BY <1>6 DEF Own, Others
<1>10. Orderly(x)
  BY DEF Order
<1>. QED
  BY <1>4, <1>5, <1>7, <1>8, <1>9, <1>10, OrderOthers


\* A node that is ticked has no completed child, and at most one that runs.
LEMMA TickedOrder ==
    ASSUME ExecInv, NEW n \in Node, Orderly(n), pc = "tick", cur = n
    PROVE  /\ Reached(n) = 0 /\ \A i \in Positions(n) : status[Children[n][i]] \notin Completed
           /\ \A i, k \in Positions(n) :
                 status[Children[n][i]] = RUNNING /\ status[Children[n][k]] = RUNNING => i = k
<1>1. Reached(n) = 0
  BY AboveFacts DEF Reached
<1>2. Positions(n) = 1 .. Count(n) /\ Count(n) \in Nat
  BY TreeFacts
<1>3. \A x : ~JustDone(x) /\ ~Drops(x)
  BY DEF JustDone, Drops
<1>. QED
  BY <1>1, <1>2, <1>3 DEF Orderly

\* Its children are not touched when the first one is ticked.
LEMMA FirstOrder ==
    ASSUME ExecInv, NEW n \in Node, Orderly(n), pc = "tick", cur = n,
           TickChild(n, 1, 0), \A k \in Kids(n) : status'[k] = status[k]
    PROVE  Orderly(n)'
<1>1. \A i \in Positions(n) : Children[n][i] \in Kids(n)
  BY DEF Kids
<1>2. Positions(n) = 1 .. Count(n) /\ Count(n) \in Nat
  BY TreeFacts
<1>3. Reached(n)' \in Nat /\ \A i \in Positions(n) : ~(i < Reached(n)')
  <2>1. frame'[n].j = 1
    BY DEF TickChild, ExecInv, HaltInv, TypeOK, CallOK
  <2>. QED
    BY <1>2, <2>1 DEF Reached
<1>. QED
  BY <1>1, <1>3, TickedOrder DEF Orderly, Positions

\* Every child but the one that has just answered is reset, and n answers.
LEMMA ResetOrder ==
    ASSUME ExecInv, NEW n \in Node, cur \in Kids(n), \E s : Return(n, s),
           \A k \in Kids(n) \ {cur} : status'[k] = IDLE,
           status'[cur] \notin Completed
    PROVE  Orderly(n)'
<1>1. \A i \in Positions(n) : Children[n][i] \in Kids(n)
  BY DEF Kids
<1>2. Positions(n) = 1 .. Count(n)
  BY TreeFacts
<1>3. Reached(n)' = 0
  BY AboveFacts DEF Return, Go, Reached
<1>4. ASSUME NEW i \in Positions(n), NEW k \in Positions(n),
             status'[Children[n][i]] = RUNNING, status'[Children[n][k]] = RUNNING
      PROVE  i = k
  <2>1. Children[n][i] = cur /\ Children[n][k] = cur
    BY <1>1, <1>4
  <2>. QED
    BY <2>1, OnePosition
<1>5. \A i \in Positions(n) :
        status'[Children[n][i]] \notin Completed /\ ~(i < Reached(n)')
  <2>. SUFFICES ASSUME NEW i \in Positions(n)
                PROVE  status'[Children[n][i]] \notin Completed /\ ~(i < Reached(n)')
    OBVIOUS
  <2>1. status'[Children[n][i]] \notin Completed
    BY <1>1
  <2>2. i \in 1 .. Count(n) /\ Count(n) \in Nat
    BY <1>2, TreeFacts
  <2>. QED
    BY <1>3, <2>1, <2>2
<1>. QED
  BY <1>4, <1>5 DEF Orderly, Positions

\* A reactive node goes on to the next child, or halts the others and answers.
LEMMA ReactiveOrder ==
    ASSUME ExecInv, NEW n \in Node, Orderly(n), ~Unwind, NEW stop \in Completed,
           NEW kinds \in SUBSET ReactiveKinds, ReactiveReply(n, kinds, stop)
    PROVE  Orderly(n)'
<1>1. /\ TypeOK /\ RunningReached /\ cur \in Kids(n) /\ cur \in Node /\ ret \in NodeStatus
      /\ pc = "reply" /\ cur \notin Roots /\ Parent[cur] = n /\ InCall
  BY ExecFacts, KidFacts, AtReply DEF ReactiveReply, Replied, InCall
<1>2. /\ WaitsFor(n, frame[n].j) /\ Children[n][frame[n].j] = cur
      /\ ret # SKIPPED => status[cur] = ret
  BY <1>1, AtReply DEF ExecInv, Real
<1>. DEFINE j == frame[n].j
<1>3. j \in Positions(n) /\ Positions(n) = 1 .. Count(n) /\ Count(n) \in Nat
  BY <1>2, TreeFacts DEF WaitsFor
<1>4. Reached(n) = j
  BY <1>1, ParentFacts DEF Reached
<1>5. ASSUME NEW C \in SUBSET Kids(n), NEW m, ResetChildren(n, C, m)
      PROVE  /\ \A k \in C : status'[k] = IDLE
             /\ \A x \in Node : status'[x] \in {IDLE, status[x]}
  BY <1>1, <1>5, ResetChildrenKept
<1>6. CASE ret = RUNNING /\ ReactiveRunning(n)
  <2>1. \E m : ResetChildren(n, Kids(n) \ {cur}, m)
    BY <1>6 DEF ReactiveRunning
  <2>2. Answer(n, RUNNING)
    BY <1>6 DEF ReactiveRunning
  <2>3. \A k \in Kids(n) \ {cur} : status'[k] = IDLE
    BY <1>5, <2>1
  <2>4. status'[cur] \in {IDLE, RUNNING}
    BY <1>1, <1>2, <1>5, <1>6, <2>1
  <2>. QED
    BY <1>1, <2>2, <2>3, <2>4, ResetOrder DEF Answer
<1>7. CASE \E s : Answer(n, s) /\ ResetChildren(n, Kids(n), mem[n])
  <2>1. \A k \in Kids(n) : status'[k] = IDLE
    BY <1>5, <1>7
  <2>. QED
    BY <1>1, <1>7, <2>1, ResetOrder DEF Answer
<1>8. CASE /\ ret \in {Opposite(stop), SKIPPED} /\ j < Count(n)
           /\ IF ret = SKIPPED THEN ResetChildren(n, {cur}, mem[n]) ELSE Keep
           /\ \E skips : TickChild(n, j + 1, skips)
  <2>1. \A x \in Node : status'[x] \in {IDLE, status[x]}
    BY <1>1, <1>5, <1>8 DEF Keep
  <2>2. status'[cur] # RUNNING
    BY <1>1, <1>2, <1>5, <1>8 DEF Keep, Opposite
  <2>3. Reached(n)' = j + 1
    <3>1. frame'[n].j = j + 1 /\ cur' = Children[n][j + 1] /\ InCall'
      BY <1>1, <1>8 DEF TickChild, Go, InCall, TypeOK, CallOK
    <3>2. cur' \in Kids(n)
      BY <1>3, <1>8, <3>1 DEF Kids
    <3>. QED
      BY <3>1, <3>2, KidFacts DEF Reached
  <2>4. \A i \in Positions(n) : i \in Nat /\ Children[n][i] \in Node
    BY <1>3, TreeFacts
  <2>5. \A x \in Node : JustDone(x) => x = cur
    BY DEF JustDone
  <2>6. ~Drops(n)
    BY <1>1 DEF Drops
  <2>. HIDE DEF j
  <2>7. j \in Nat
    BY <1>3
  <2>8. ASSUME NEW i \in Positions(n)
        PROVE  /\ status[Children[n][i]] \in Completed => i < j + 1
               /\ i < j + 1 => status'[Children[n][i]] # RUNNING
    <3>1. CASE i = j
      BY <1>2, <2>2, <2>7, <3>1 DEF j
    <3>2. CASE i # j
      <4>1. Children[n][i] # cur
        BY <1>2, <1>3, <3>2, OnePosition DEF j
      <4>2. status[Children[n][i]] \in Completed => i < j
        BY <1>4, <2>4, <2>5, <2>6, <4>1 DEF Orderly
      <4>3. i < j => status[Children[n][i]] # RUNNING
        BY <1>4 DEF Orderly
      <4>. QED
        BY <2>1, <2>4, <2>7, <3>2, <4>2, <4>3
    <3>. QED
      BY <3>1, <3>2
  <2>9. ASSUME NEW i \in Positions(n), NEW k \in Positions(n), i # k,
               status'[Children[n][i]] = RUNNING, status'[Children[n][k]] = RUNNING
        PROVE  FALSE
    <3>1. status[Children[n][i]] = RUNNING /\ status[Children[n][k]] = RUNNING
      BY <2>1, <2>4, <2>9
    <3>2. j \in {i, k}
      BY <1>4, <2>9, <3>1 DEF Orderly
    <3>. QED
      BY <1>2, <2>2, <2>9, <3>2 DEF j
  <2>10. ASSUME NEW i \in Positions(n), status'[Children[n][i]] \in Completed
         PROVE  i < j + 1
    BY <2>1, <2>4, <2>8, <2>10
  <2>. QED
    BY <2>3, <2>8, <2>9, <2>10 DEF Orderly, Positions
<1>. QED
  <2>1. \/ ret = RUNNING /\ ReactiveRunning(n)
        \/ ret = stop /\ ResetChildren(n, Kids(n), mem[n]) /\ Answer(n, stop)
        \/ /\ ret \in {Opposite(stop), SKIPPED} /\ j < Count(n)
           /\ IF ret = SKIPPED THEN ResetChildren(n, {cur}, mem[n]) ELSE Keep
           /\ \E skips : TickChild(n, j + 1, skips)
        \/ \E s : Answer(n, s) /\ ResetChildren(n, Kids(n), mem[n])
    BY DEF ReactiveReply
  <2>. QED
    BY <1>6, <1>7, <1>8, <2>1

\* A SimpleDecorator leaves its child for executeTick() to reset.
LEMMA SimpleOrder ==
    ASSUME ExecInv, NEW n \in Node, Orderly(n),
           SimpleDecoratorTick(n) \/ SimpleDecoratorReply(n)
    PROVE  Orderly(n)'
<1>1. Kind[n] = "SimpleDecorator" /\ Keep
  BY DEF SimpleDecoratorTick, SimpleDecoratorReply, Ticking, Replied
<1>2. CASE SimpleDecoratorTick(n)
  BY <1>1, <1>2, FirstOrder DEF SimpleDecoratorTick, Ticking, Keep
<1>3. CASE SimpleDecoratorReply(n)
  <2>1. pc' = "ticked" /\ cur' = n
    BY <1>3 DEF SimpleDecoratorReply, Answer, Return, Go
  <2>2. Drops(n)' /\ Reached(n)' = 0
    BY <1>1, <2>1, AboveFacts DEF Drops, Reached
  <2>3. Count(n) = 1
    BY <1>1, KindAssumption DEF DecoratorKinds
  <2>4. \A i \in Positions(n) : i = 1
    BY <2>3, TreeFacts
  <2>. QED
    BY <2>2, <2>4 DEF Orderly, Positions
<1>. QED
  BY <1>2, <1>3


\* tick() of an interruptible node, when nothing throws.
LEMMA InterruptibleOrder ==
    ASSUME ExecInv, NEW n \in Node, Interruptible(n), Orderly(n), ~Unwind,
           LeafTick(n) \/ ControlTick(n) \/ DecoratorTick(n)
    PROVE  Orderly(n)'
<1>1. CASE Kind[n] \in ReactiveKinds
  <2>. DEFINE S == {"ReactiveSequence"}
              F == {"ReactiveFallback"}
  <2>1. S \in SUBSET ReactiveKinds /\ F \in SUBSET ReactiveKinds
    BY DEF ReactiveKinds
  <2>2. \/ ReactiveTick(n, S) \/ ReactiveReply(n, S, FAILURE)
        \/ ReactiveTick(n, F) \/ ReactiveReply(n, F, SUCCESS)
    <3>1. ~LeafTick(n)
      BY <1>1 DEF LeafTick, SyncTick, SimpleActionTick, StatefulTick, Ticking, ReactiveKinds
    <3>2. ~DecoratorTick(n)
      BY <1>1 DEF DecoratorTick, ReactiveKinds, Ticking, Replied, Translators, UpdatedKinds,
         TranslatorTick, InverterReply, ForceReply, KeepRunningReply, SubTreeTick, SubTreeReply,
         SimpleDecoratorTick, SimpleDecoratorReply, RepeatTick, RepeatReply, RetryTick,
         RetryReply, RunOnceTick, RunOnceReply, PreconditionTick, PreconditionReply,
         UpdatedTick, UpdatedReply, LoopTick, LoopReply
    <3>. QED
      BY <1>1, <3>1, <3>2 DEF ControlTick, ReactiveKinds, Ticking, Replied, SequenceTick,
         SequenceReply, FallbackTick, FallbackReply, MemoryTick, MemoryReply, LinearTick,
         ReactiveSequenceTick, ReactiveSequenceReply, ReactiveFallbackTick,
         ReactiveFallbackReply, ParallelTick, ParallelReply, ParallelAllReply,
         IfThenElseTick, IfThenElseReply, WhileDoElseTick, WhileDoElseReply, SwitchTick,
         SwitchReply
  <2>3. CASE ReactiveTick(n, S) \/ ReactiveTick(n, F)
    <3>1. pc = "tick" /\ cur = n /\ TickChild(n, 1, 0)
      BY <2>3 DEF ReactiveTick, Ticking
    <3>2. \A k \in Kids(n) : status'[k] = status[k]
      BY <2>3, KidFacts DEF ReactiveTick, ExecInv, HaltInv, TypeOK, StateOK
    <3>. QED
      BY <3>1, <3>2, FirstOrder
  <2>. QED
    BY <2>1, <2>2, <2>3, ReactiveOrder
<1>2. CASE Kind[n] = "SimpleDecorator"
  <2>1. ~LeafTick(n) /\ ~ControlTick(n)
    BY <1>2 DEF LeafTick, SyncTick, SimpleActionTick, StatefulTick, ControlTick, Ticking,
       Replied, SequenceTick, SequenceReply, FallbackTick, FallbackReply, MemoryTick,
       MemoryReply, LinearTick, ReactiveSequenceTick, ReactiveSequenceReply,
       ReactiveFallbackTick, ReactiveFallbackReply, ReactiveTick, ReactiveReply,
       ParallelTick, ParallelReply, ParallelAllReply,
       IfThenElseTick, IfThenElseReply, WhileDoElseTick, WhileDoElseReply, SwitchTick,
       SwitchReply
  <2>2. SimpleDecoratorTick(n) \/ SimpleDecoratorReply(n)
    BY <1>2, <2>1 DEF DecoratorTick, Ticking, Replied, Translators, UpdatedKinds,
       TranslatorTick, InverterReply, ForceReply, KeepRunningReply, SubTreeTick, SubTreeReply,
       RepeatTick, RepeatReply, RetryTick, RetryReply, RunOnceTick, RunOnceReply,
       PreconditionTick, PreconditionReply, UpdatedTick, UpdatedReply, LoopTick, LoopReply
  <2>. QED
    BY <2>2, SimpleOrder
<1>. QED
  BY <1>1, <1>2 DEF Interruptible

\* executeTick() returns: what has completed is reset by whoever waits for it, or was
\* reset by a decorator on its way out.
LEMMA LeaveOrder ==
    ASSUME ExecInv, Order, NEW n \in Node, Leave(n), ~Thrown
    PROVE  Order'
<1>1. /\ cur = n /\ pc \in {"ticked", "preempted"} /\ InCall
      /\ status \in [Node -> NodeStatus] /\ ret \in NodeStatus
  BY ExecFacts DEF Leave, InCall, TypeOK, StateOK, CallOK
<1>2. PICK s \in IF n \in PostTick THEN {ret} \cup Completed ELSE {ret} :
        /\ s # IDLE
        /\ status' = [x \in Node |->
                        IF x = n THEN (IF s = SKIPPED THEN status[n] ELSE s)
                        ELSE IF ResetByDecorator(n, x) THEN IDLE ELSE status[x]]
        /\ Go("reply", n, s)
        /\ frame' = frame
  BY <1>1 DEF Leave, Throw, Unwind, Thrown
<1>3. /\ pc' = "reply" /\ cur' = n /\ ret' = s /\ InCall'
      /\ s = ret \/ s \in Completed
  BY <1>2 DEF Go, InCall
<1>4. /\ status'[n] = IF s = SKIPPED THEN status[n] ELSE s
      /\ \A x \in Node \ {n} :
            status'[x] = IF ResetByDecorator(n, x) THEN IDLE ELSE status[x]
  BY <1>2
<1>. SUFFICES ASSUME NEW x \in Node, Interruptible(x) PROVE Orderly(x)'
  BY DEF Order, Interruptible
<1>5. Reached(x)' = Reached(x)
  BY <1>1, <1>2, <1>3 DEF Reached
<1>6. \A k \in Kids(x) : k \in Node /\ k \notin Roots /\ Parent[k] = x /\ k # x
  BY KidFacts
<1>7. ASSUME n \in Kids(x)
      PROVE  Reached(x) \in Positions(x) /\ Children[x][Reached(x)] = n
  <2>1. Above[n] = {x} \cup Above[x]
    BY <1>7, KidFacts
  <2>2. WaitsFor(x, frame[x].j)
    BY <1>1, <2>1 DEF ExecInv, AtChild
  <2>3. Children[x][frame[x].j] \in Kids(x)
    BY <2>2 DEF WaitsFor, Kids
  <2>4. Children[x][frame[x].j] \notin Above[n]
    BY <2>1, <2>3, KidFacts
  <2>. QED
    BY <1>1, <2>1, <2>2, <2>4 DEF Reached, WaitsFor
<1>8. ASSUME NEW k \in Kids(x), status'[k] \in Completed
      PROVE  (status[k] \in Completed /\ ~JustDone(k) /\ ~Drops(x)) \/ JustDone(k)'
  <2>1. CASE k = n
    <3>1. ~Drops(x)
      BY <1>1, <1>6, <2>1 DEF Drops
    <3>. QED
      BY <1>3, <1>4, <1>8, <2>1, <3>1 DEF JustDone
  <2>2. CASE k # n
    <3>1. ~ResetByDecorator(n, k) /\ status[k] \in Completed /\ ~JustDone(k)
      BY <1>1, <1>4, <1>6, <1>8, <2>2 DEF JustDone
    <3>2. ~Drops(x)
      BY <1>1, <3>1 DEF Drops, ResetByDecorator, DecoratorKinds
    <3>. QED
      BY <3>1, <3>2
  <2>. QED
    BY <2>1, <2>2
<1>9. \A k \in Kids(x) \ {n} : status'[k] \in {IDLE, status[k]}
  BY <1>4, <1>6
<1>10. Orderly(x)
  BY DEF Order
<1>. QED
  BY <1>5, <1>7, <1>8, <1>9, <1>10, OrderOthers

\* The steps around the ticks: calls, pre-conditions, halts, signals.
LEMMA AroundOrder ==
    ASSUME ExecInv, Order,
           \/ \E n \in Node : PreConditionAnswers(n) \/ PreTickSubstitutes(n) \/ CallTick(n)
                              \/ PreConditionHalts(n)
           \/ TickAgain \/ SleepEnds \/ RootAnswers \/ HaltRoot \/ HaltVisit
           \/ \E o \in TickOption : TickRoot(o)
           \/ \E n \in Wakers : WakeUp(n)
           \/ UNCHANGED vars
    PROVE  Order'
<1>1. cur \in Node /\ status \in [Node -> NodeStatus]
  BY ExecFacts DEF TypeOK, StateOK, CallOK
<1>2. CASE \E n \in Wakers : WakeUp(n)
  BY <1>2 DEF WakeUp, Order, Orderly, Reached, InCall, JustDone, Drops
<1>3. CASE UNCHANGED vars
  BY <1>3 DEF vars, Order, Orderly, Reached, InCall, JustDone, Drops
<1>4. CASE \E n \in Node : PreConditionAnswers(n) \/ PreTickSubstitutes(n) \/ CallTick(n)
                           \/ PreConditionHalts(n)
  <2>1. /\ pc = "enter" /\ cur' = cur /\ frame' = frame /\ InCall /\ InCall'
        /\ \A x \in Node : status'[x] \in {IDLE, status[x]}
    BY <1>4 DEF PreConditionAnswers, PreTickSubstitutes, CallTick, PreConditionHalts, Go, Keep,
       InCall, StatusAfter
  <2>2. \A x \in Node : Reached(x)' = Reached(x)
    BY <2>1 DEF Reached
  <2>. QED
    BY <1>1, <2>1, <2>2, QuietOrder DEF JustDone, Drops
<1>5. CASE TickAgain \/ SleepEnds \/ RootAnswers \/ HaltRoot \/ HaltVisit
           \/ \E o \in TickOption : TickRoot(o)
  <2>1. cur \in Roots /\ cur' = cur /\ pc # "ticked" /\ (pc = "reply" => cur \in Roots)
    BY <1>5 DEF TickAgain, SleepEnds, RootAnswers, HaltRoot, HaltVisit, TickRoot, Go, ExecInv,
       HaltInv, RestsAtRoot
  <2>2. \A x \in Node : status'[x] \in {IDLE, status[x]}
    BY <1>1, <1>5 DEF TickAgain, SleepEnds, RootAnswers, HaltRoot, HaltVisit, TickRoot, Keep,
       StatusAfter
  <2>3. \A x \in Node : Reached(x) = 0 /\ Reached(x)' = 0
    BY <2>1, RootFacts DEF Reached
  <2>4. \A k \in Node \ Roots : ~JustDone(k)
    BY <2>1 DEF JustDone
  <2>5. \A x \in Node : ~Drops(x)
    BY <2>1 DEF Drops
  <2>. QED
    BY <1>1, <2>2, <2>3, <2>4, <2>5, QuietOrder
<1>. QED
  BY <1>2, <1>3, <1>4, <1>5

\* Every step that is not an exception keeps the order.
LEMMA OrderNextKept ==
    ASSUME ExecInv, Order, [Next]_vars, ~Thrown
    PROVE  Order'
<1>1. CASE \E n \in {cur} \cup Above[cur] : NodeStep(n)
  <2>1. PICK n \in {cur} \cup Above[cur] : NodeStep(n)
    BY <1>1
  <2>2. HaltInv /\ n \in Node
    BY <2>1, NodeStepShape DEF ExecInv
  <2>3. CASE Leave(n)
    BY <2>2, <2>3, LeaveOrder
  <2>4. CASE PreConditionAnswers(n) \/ PreTickSubstitutes(n) \/ CallTick(n)
             \/ PreConditionHalts(n)
    BY <2>2, <2>4, AroundOrder
  <2>5. CASE LeafTick(n) \/ ControlTick(n) \/ DecoratorTick(n)
    <3>1. OnCallOf(n) /\ Own(n)
      BY <2>2, <2>5, LeafOwn, ControlOwn, DecoratorOwn
    <3>2. ~Unwind
      BY <3>1 DEF Unwind, Thrown, OnCallOf, InCall
    <3>3. Interruptible(n) => Orderly(n)'
      BY <2>2, <2>5, <3>2, InterruptibleOrder DEF Order
    <3>. QED
      BY <2>2, <3>1, <3>2, <3>3, OwnOrder
  <2>6. CASE ScriptThrows(n)
    BY <2>6 DEF ScriptThrows, PreConditionThrows, PostConditionThrows, Throw, Unwind, Thrown,
       InCall
  <2>. QED
    BY <2>1, <2>3, <2>4, <2>5, <2>6 DEF NodeStep, ExecuteTick, ScriptThrows
<1>. QED
  BY <1>1, AroundOrder DEF Next, CallStep

\* Without exceptions, the children of every reactive node are in order.
THEOREM OrderInvariant == Spec /\ [][~Thrown]_vars => []Order
<1>1. Init => Order
  <2>1. \A n \in Node : \A i \in Positions(n) : Children[n][i] \in Node
    BY TreeFacts
  <2>. QED
    BY <2>1 DEF Init, Order, Orderly
<1>2. ExecInv /\ Order /\ [Next]_vars /\ [~Thrown]_vars => Order'
  <2>1. UNCHANGED vars /\ ExecInv /\ Order => Order'
    BY AroundOrder
  <2>. QED
    BY <2>1, OrderNextKept
<1>. QED
  BY <1>1, <1>2, ExecutionInvariant, PTL DEF Spec

\* A reactive node between two ticks has at most one RUNNING child, in every tree and
\* every behaviour in which no exception leaves tickRoot(): one that does may leave a
\* child RUNNING beside the one that ran before.
THEOREM ReactiveNodesRunOne == Spec /\ [][~Thrown]_vars => []ReactiveRunsOne
<1>1. Order => ReactiveRunsOne
  <2>. SUFFICES ASSUME Order, NEW n \in Node, Kind[n] \in ReactiveKinds, n \notin OnCall,
                       NEW i \in Positions(n), NEW k \in Positions(n),
                       status[Children[n][i]] = RUNNING, status[Children[n][k]] = RUNNING
                PROVE  Children[n][i] = Children[n][k]
    BY DEF ReactiveRunsOne, Kids
  <2>1. Orderly(n)
    BY DEF Order, Interruptible
  <2>2. Reached(n) = 0
    BY DEF Reached, OnCall
  <2>3. i # 0 /\ k # 0
    BY TreeFacts
  <2>. QED
    BY <2>1, <2>2, <2>3 DEF Orderly
<1>. QED
  BY <1>1, OrderInvariant, PTL

\* A node that is ticked has been reset since it completed, conditions that their
\* parent keeps and nodes whose scripts may leave them completed excepted, in every tree
\* and every behaviour in which no exception leaves tickRoot().
THEOREM TickedNodesAreReset == Spec /\ [][~Thrown]_vars => []TickedNodeIsReset
<1>1. ExecInv /\ Order => TickedNodeIsReset
  <2>. SUFFICES ASSUME ExecInv, Order, pc = "enter", status[cur] \in Completed,
                       ~Kept(cur)
                PROVE  FALSE
    BY DEF TickedNodeIsReset, Kept
  <2>1. cur \in Node /\ cur \notin Roots /\ InCall
    BY DEF ExecInv, HaltInv, TypeOK, CallOK, RootCleared, JustDone, InCall, Kept
  <2>. DEFINE n == Parent[cur]
              j == frame[n].j
  <2>2. n \in Node /\ j \in Positions(n) /\ Children[n][j] = cur /\ j \notin Visited(n)
    BY <2>1, EnteredIsNext
  <2>3. ~JustDone(cur) /\ ~Resets(n) /\ ~Drops(n)
    BY DEF JustDone, Resets, Drops
  <2>4. Interruptible(n)
    BY <2>2, <2>3 DEF ExecInv, Cleared, Unreset, Interruptible
  <2>5. Reached(n) = j
    BY <2>1, ParentFacts DEF Reached
  <2>6. j \in Nat
    BY <2>2, TreeFacts
  <2>. QED
    BY <2>2, <2>3, <2>4, <2>5, <2>6 DEF Order, Orderly
<1>. QED
  BY <1>1, ExecutionInvariant, OrderInvariant, PTL

-------------------------------------------------------------------------------
(***************************************************************************)
(* What a control node answers is what its children's answers of this      *)
(* execution call for: the index, the counters and the lists of completed  *)
(* children that a class keeps say what those answers were.                *)
(***************************************************************************)

(* The trees the theorem is about                                          *)

\* The linear classes that count the children skipped in one execution.
Counted == LinearKinds \ {"SequenceWithMemory"}

\* Those whose count no throwing script carries over to the next execution.
Counts(n) == Kind[n] \in Counted /\ ~Miscounts(n)

\* The answer of a child that ends the node.
Stop(n) == IF Kind[n] \in {"Fallback", "AsyncFallback", "ReactiveFallback"}
           THEN SUCCESS ELSE FAILURE

NeverSkipped(c) ==
    /\ Kind[c] \in LeafKinds /\ SKIPPED \notin Answers[c]
    /\ PreConds[c] \cap {"SKIP_IF", "WHILE_TRUE"} = {}

(***************************************************************************)
(* A node that keeps something has no callback that answers for it, its    *)
(* parent resets it before it starts again, a Parallel has children to     *)
(* lose before it fails, and a SequenceWithMemory, which resumes with its  *)
(* count of skipped children at 0, is neither skipped nor succeeds without *)
(* its tick() and has a child that is never skipped.  Nothing is asked of  *)
(* the other classes.                                                      *)
(***************************************************************************)
Accountable(n) ==
    /\ Kind[n] \in LinearKinds \cup ParallelKinds \cup {"IfThenElse"} => Free(n)
    /\ Counts(n) => ~KeptCondition(n)
    /\ Kind[n] = "SequenceWithMemory" =>
          PreConds[n] \subseteq {"FAILURE_IF"} /\ \E c \in Kids(n) : NeverSkipped(c)
    /\ Kind[n] = "Parallel" => Threshold(n, FailLimit[n]) > 0

-------------------------------------------------------------------------------
(* The inductive invariant                                                 *)

SkippedBefore(n, i) == {k \in 1 .. i - 1 : Heard(n, k) = SKIPPED}

\* What the members of a node say of the answers it has heard.
LinearLedger(n) ==
    /\ Passed(n, mem[n].idx, Stop(n))
    /\ Counts(n) /\ status[n] = RUNNING /\ ~Ends(n) =>
          mem[n].count = Cardinality(SkippedBefore(n, mem[n].idx))
    /\ Kind[n] = "SequenceWithMemory" =>
          mem[n].count <= Cardinality(SkippedBefore(n, mem[n].idx))

BranchLedger(n) ==
    /\ mem[n].idx = 2 => Heard(n, 1) = SUCCESS
    /\ mem[n].idx = 3 => Heard(n, 1) = FAILURE

ParallelLedger(n) ==
    /\ mem[n].succeeded \subseteq Among(n, {SUCCESS})
    /\ mem[n].failed \subseteq Among(n, {FAILURE})
    /\ Kind[n] = "Parallel" => Cardinality(mem[n].failed) < Threshold(n, FailLimit[n])

Ledger(n) ==
    /\ Kind[n] \in LinearKinds => LinearLedger(n)
    /\ Kind[n] = "IfThenElse" => BranchLedger(n)
    /\ Kind[n] \in ParallelKinds => ParallelLedger(n)

Ledgers == \A n \in Node : Ledger(n)

\* What the local variables of a tick() in progress say of the answers it has heard.
Tally(n) ==
    LET j == frame[n].j
    IN  /\ Kind[n] \in ReactiveKinds => Passed(n, j, Stop(n))
        /\ Kind[n] \in ParallelKinds => \A i \in 1 .. j - 1 : Heard(n, i) # IDLE
        /\ Kind[n] \in ReactiveKinds \cup ParallelKinds =>
              frame[n].skips = Cardinality(SkippedBefore(n, j))
        /\ Kind[n] = "WhileDoElse" =>
              /\ j = 2 => Heard(n, 1) = SUCCESS
              /\ j = 3 => Heard(n, 1) = FAILURE

Tallies == InCall => \A a \in Above[cur] : Tally(a)

\* A node that is about to answer for good has nothing behind it any more.
StartsOver(n, s) ==
    s \notin {RUNNING, IDLE} /\ ~Retried(n, s) =>
        /\ Kind[n] \in Indexed => mem[n].idx = 1
        /\ Kind[n] \in ParallelKinds => Done(mem[n]) = {}
        /\ Counts(n) /\ s = SKIPPED /\ status[n] = RUNNING => mem[n].count = 0
        /\ Kind[n] = "SequenceWithMemory" => mem[n].count = 0

Blank == pc \in {"ticked", "preempted"} => StartsOver(cur, ret)

Unskipped ==
    \A c \in Node : NeverSkipped(c) =>
        /\ status[c] # SKIPPED /\ heard[c] # SKIPPED
        /\ pc \in {"ticked", "preempted", "reply"} /\ cur = c => ret # SKIPPED

WasReset == pc \in {"enter", "tick"} /\ Counts(cur) => status[cur] \notin Completed

\* RUNNING is the answer of a node that runs.
Working ==
    /\ pc = "ticked" /\ Kind[cur] \in Counted /\ ret = RUNNING => status[cur] = RUNNING
    /\ pc = "preempted" => ret # RUNNING

\* A node that counts is reset before it is executed again.
CountersReset == pc = "enter" /\ Counts(cur) => status[cur] \notin Completed

AnswerInv ==
    /\ AnswersFollowChildren
    /\ Ledgers /\ Tallies /\ Blank
    /\ Unskipped /\ WasReset /\ Working

-------------------------------------------------------------------------------
(* Counting answers                                                        *)

\* The positions before one of them.
LEMMA Before ==
    ASSUME NEW n \in Node, NEW i \in Positions(n)
    PROVE  /\ i \in Nat /\ 1 <= i /\ i <= Count(n) /\ Count(n) \in Nat
           /\ 1 .. (i + 1) - 1 = (1 .. i - 1) \cup {i} /\ i \notin 1 .. i - 1
           /\ \A k \in 1 .. i - 1 : k \in Positions(n) /\ k < i
<1>1. Count(n) \in Nat /\ Positions(n) = 1 .. Count(n)
  BY TreeFacts
<1>2. i \in Nat /\ 1 <= i /\ i <= Count(n)
  BY <1>1
<1>3. \A k \in 1 .. i - 1 : k \in 1 .. Count(n) /\ k < i
  BY <1>1, <1>2
<1>4. 1 .. (i + 1) - 1 = (1 .. i - 1) \cup {i} /\ i \notin 1 .. i - 1
  BY <1>2
<1>. QED
  BY <1>1, <1>2, <1>3, <1>4

\* Nobody is skipped before the first position.
LEMMA NoneBefore ==
    ASSUME NEW n
    PROVE  /\ SkippedBefore(n, 1) = {} /\ Cardinality(SkippedBefore(n, 1)) = 0
           /\ \A stop : Passed(n, 1, stop)
<1>1. SkippedBefore(n, 1) = {}
  BY DEF SkippedBefore
<1>. QED
  BY <1>1, FS_EmptySet DEF Passed

\* One more child has answered.
LEMMA SkippedStep ==
    ASSUME NEW n \in Node, NEW i \in Positions(n)
    PROVE  /\ Cardinality(SkippedBefore(n, i)) \in Nat
           /\ Cardinality(SkippedBefore(n, i + 1)) =
                 Cardinality(SkippedBefore(n, i)) + (IF Heard(n, i) = SKIPPED THEN 1 ELSE 0)
<1>. DEFINE S == SkippedBefore(n, i)
<1>1. IsFiniteSet(S)
  <2>1. IsFiniteSet(1 .. i - 1) /\ S \subseteq 1 .. i - 1
    BY Before, FS_Interval DEF SkippedBefore
  <2>. QED
    BY <2>1, FS_Subset
<1>2. i \notin S
  BY Before DEF SkippedBefore
<1>3. SkippedBefore(n, i + 1) = IF Heard(n, i) = SKIPPED THEN S \cup {i} ELSE S
  BY Before DEF SkippedBefore
<1>. HIDE DEF S
<1>4. Cardinality(S) \in Nat /\ Cardinality(S \cup {i}) = Cardinality(S) + 1
  BY <1>1, <1>2, FS_AddElement, FS_CardinalityType
<1>. QED
  BY <1>3, <1>4 DEF S

\* Every child has answered.
LEMMA SkippedAll ==
    ASSUME NEW n \in Node
    PROVE  /\ SkippedBefore(n, Count(n) + 1) = Among(n, {SKIPPED})
           /\ Cardinality(Among(n, {SKIPPED})) \in 0 .. Count(n)
           /\ Cardinality(Among(n, {SKIPPED})) = Count(n) <=> Among(n, {SKIPPED}) = Positions(n)
<1>1. Count(n) \in Nat /\ Positions(n) = 1 .. Count(n) /\ (Count(n) + 1) - 1 = Count(n)
  BY TreeFacts
<1>2. SkippedBefore(n, Count(n) + 1) = Among(n, {SKIPPED})
  BY <1>1 DEF SkippedBefore, Among
<1>3. IsFiniteSet(Positions(n)) /\ Cardinality(Positions(n)) = Count(n)
  BY <1>1, FS_Interval
<1>4. Among(n, {SKIPPED}) \subseteq Positions(n)
  BY DEF Among
<1>. QED
  BY <1>1, <1>2, <1>3, <1>4, FS_Subset, FS_CardinalityType

\* What is said of the children's answers when they have not changed.
LEMMA SameAnswers ==
    ASSUME NEW n \in Node, SameHeard(n)
    PROVE  /\ \A i \in Positions(n) : Heard(n, i)' = Heard(n, i)
           /\ \A S : Among(n, S)' = Among(n, S)
           /\ \A i \in Positions(n) \cup {Count(n) + 1} :
                 /\ SkippedBefore(n, i)' = SkippedBefore(n, i)
                 /\ \A stop : Passed(n, i, stop)' <=> Passed(n, i, stop)
<1>1. \A i \in Positions(n) : heard'[Children[n][i]] = heard[Children[n][i]]
  BY DEF SameHeard, Kids
<1>2. \A i \in Positions(n) \cup {Count(n) + 1} : \A k \in 1 .. i - 1 : k \in Positions(n)
  BY TreeFacts
<1>3. \A i \in Positions(n) : Heard(n, i)' = Heard(n, i)
  BY <1>1 DEF Heard
<1>4. \A S : Among(n, S)' = Among(n, S)
  BY <1>1 DEF Among, Heard, Positions
<1>5. \A i \in Positions(n) \cup {Count(n) + 1} : SkippedBefore(n, i)' = SkippedBefore(n, i)
  BY <1>1, <1>2 DEF SkippedBefore, Heard
<1>6. ASSUME NEW i \in Positions(n) \cup {Count(n) + 1}, NEW stop
      PROVE  Passed(n, i, stop)' <=> Passed(n, i, stop)
  BY <1>1, <1>2 DEF Passed, Heard, Opposite
<1>. QED
  BY <1>3, <1>4, <1>5, <1>6


-------------------------------------------------------------------------------
(* Nodes that are left alone, or halted                                    *)

\* A node that starts afresh has nothing to account for.
LEMMA FreshLedger ==
    ASSUME NEW x \in Node, Accountable(x), mem'[x] = FreshMem(x)
    PROVE  Ledger(x)'
<1>1. /\ Kind[x] \in Indexed => mem'[x].idx = 1
      /\ mem'[x].count = 0 /\ mem'[x].succeeded = {} /\ mem'[x].failed = {}
  BY DEF FreshMem, Indexed, LinearKinds, ReactiveKinds
<1>2. Cardinality(SkippedBefore(x, 1)') = 0 /\ Passed(x, 1, Stop(x))'
  BY FS_EmptySet DEF SkippedBefore, Passed
<1>3. Kind[x] \in LinearKinds => LinearLedger(x)'
  BY <1>1, <1>2 DEF LinearLedger, Indexed
<1>4. Kind[x] = "IfThenElse" => BranchLedger(x)'
  BY <1>1 DEF BranchLedger, Indexed
<1>5. Kind[x] \in ParallelKinds => ParallelLedger(x)'
  BY <1>1, FS_EmptySet DEF ParallelLedger, Accountable, Threshold, Count
<1>. QED
  BY <1>3, <1>4, <1>5 DEF Ledger

\* Members that stay the same agree with the answers behind the node.
LEMMA VisitedLedger ==
    ASSUME TypeOK, NEW x \in Node, Ledger(x), mem'[x] = mem[x],
           \A i \in Visited(x) : Heard(x, i)' = Heard(x, i),
           Counts(x) /\ status'[x] = RUNNING /\ ~Ends(x)' =>
               status[x] = RUNNING /\ ~Ends(x)
    PROVE  Ledger(x)'
<1>1. PICK i : i = mem[x].idx
  OBVIOUS
<1>2. Kind[x] \in Indexed => \A k \in 1 .. i - 1 : Heard(x, k)' = Heard(x, k)
  BY <1>1 DEF Visited
<1>3. Kind[x] \in LinearKinds => LinearLedger(x)'
  <2>. SUFFICES ASSUME Kind[x] \in LinearKinds PROVE LinearLedger(x)'
    OBVIOUS
  <2>1. \A k \in 1 .. i - 1 : Heard(x, k)' = Heard(x, k)
    BY <1>2 DEF Indexed
  <2>2. SkippedBefore(x, i)' = SkippedBefore(x, i)
    BY <2>1 DEF SkippedBefore
  <2>3. Passed(x, i, Stop(x)) => Passed(x, i, Stop(x))'
    BY <2>1 DEF Passed, Stop, Opposite
  <2>4. LinearLedger(x) /\ mem'[x].idx = i /\ mem'[x].count = mem[x].count
    BY <1>1 DEF Ledger
  <2>. QED
    BY <1>1, <2>2, <2>3, <2>4 DEF LinearLedger, SkippedBefore, Passed
<1>4. Kind[x] = "IfThenElse" => BranchLedger(x)'
  <2>. SUFFICES ASSUME Kind[x] = "IfThenElse" PROVE BranchLedger(x)'
    OBVIOUS
  <2>1. i \in {2, 3} => Heard(x, 1)' = Heard(x, 1)
    BY <1>2 DEF Indexed
  <2>. QED
    BY <1>1, <2>1 DEF Ledger, BranchLedger
<1>5. Kind[x] \in ParallelKinds => ParallelLedger(x)'
  <2>. SUFFICES ASSUME Kind[x] \in ParallelKinds PROVE ParallelLedger(x)'
    OBVIOUS
  <2>1. \A k \in mem[x].succeeded \cup mem[x].failed : Heard(x, k)' = Heard(x, k)
    BY ParallelFacts DEF Done
  <2>2. ParallelLedger(x)
    BY DEF Ledger
  <2>. QED
    BY <2>1, <2>2 DEF ParallelLedger, Among, Positions, Threshold, Count
<1>. QED
  BY <1>3, <1>4, <1>5 DEF Ledger

\* Members and answers that stay the same still agree.
LEMMA SameLedger ==
    ASSUME TypeOK, NEW x \in Node, Ledger(x), SameHeard(x), mem'[x] = mem[x],
           Counts(x) /\ status'[x] = RUNNING /\ ~Ends(x)' =>
               status[x] = RUNNING /\ ~Ends(x)
    PROVE  Ledger(x)'
<1>1. \A i \in Visited(x) : i \in Positions(x) \/ Kind[x] \in ParallelKinds
  <2>1. Kind[x] \in Indexed => mem[x].idx \in Positions(x)
    BY DEF TypeOK, StateOK, IndexOK, Indexed
  <2>. QED
    BY <2>1, Before DEF Visited
<1>2. \A i \in Visited(x) : Kind[x] \in ParallelKinds => i \in Positions(x)
  BY ParallelFacts DEF Ledger, ParallelLedger, Among, Done
<1>. QED
  BY <1>1, <1>2, VisitedLedger, SameAnswers

\* Either way, what the node keeps agrees with what it has heard.
LEMMA MovedLedger ==
    ASSUME TypeOK, NEW x \in Node, Accountable(x), Ledger(x), Moved(x), ~Ends(x),
           status'[x] \in {IDLE, status[x]}
    PROVE  Ledger(x)'
BY FreshLedger, SameLedger DEF Moved

\* A caller that waits for a child has been told nothing else.
LEMMA BeforeTally ==
    ASSUME NEW a \in Node, Tally(a), frame'[a] = frame[a], frame[a].j \in Positions(a),
           \A k \in 1 .. frame[a].j - 1 : Heard(a, k)' = Heard(a, k)
    PROVE  Tally(a)'
<1>1. PICK j : j = frame[a].j
  OBVIOUS
<1>2. j \in Positions(a) /\ j \in Nat /\ \A k \in 1 .. j - 1 : Heard(a, k)' = Heard(a, k)
  BY <1>1, Before
<1>3. SkippedBefore(a, j)' = SkippedBefore(a, j)
  BY <1>2 DEF SkippedBefore
<1>4. frame'[a].j = j /\ frame'[a].skips = frame[a].skips
  BY <1>1
<1>5. Kind[a] \in ReactiveKinds => Passed(a, j, Stop(a))'
  BY <1>1, <1>2 DEF Tally, Passed, Stop, Opposite
<1>6. Kind[a] \in ParallelKinds => \A i \in 1 .. j - 1 : Heard(a, i)' # IDLE
  BY <1>1, <1>2 DEF Tally
<1>7. Kind[a] \in ReactiveKinds \cup ParallelKinds =>
         frame[a].skips = Cardinality(SkippedBefore(a, j)')
  BY <1>1, <1>3 DEF Tally
<1>8. Kind[a] = "WhileDoElse" =>
         (j = 2 => Heard(a, 1)' = SUCCESS) /\ (j = 3 => Heard(a, 1)' = FAILURE)
  <2>1. j \in {2, 3} => 1 \in 1 .. j - 1
    OBVIOUS
  <2>. QED
    BY <1>1, <1>2, <2>1 DEF Tally
<1>. QED
  BY <1>4, <1>5, <1>6, <1>7, <1>8 DEF Tally, Passed, SkippedBefore

\* Nor has one whose children's answers are all as they were.
LEMMA SameTally ==
    ASSUME NEW a \in Node, Tally(a), SameHeard(a), frame'[a] = frame[a],
           frame[a].j \in Positions(a)
    PROVE  Tally(a)'
<1>1. \A k \in 1 .. frame[a].j - 1 : k \in Positions(a)
  BY Before
<1>. QED
  BY <1>1, BeforeTally, SameAnswers

\* What n does to its own answers: it agrees with what it has heard, as does the tick()
\* in progress, and an answer is the one the children's answers call for.
Follows(n, s) ==
    /\ Kind[n] \in {"Sequence", "AsyncSequence", "SequenceWithMemory",
                    "ReactiveSequence"} => LinearContract(n, FAILURE, s)
    /\ Kind[n] \in {"Fallback", "AsyncFallback", "ReactiveFallback"} =>
          LinearContract(n, SUCCESS, s)
    /\ Kind[n] = "Parallel" => ParallelContract(n, s)
    /\ Kind[n] = "ParallelAll" => ParallelAllContract(n, s)
    /\ Kind[n] \in BranchKinds => BranchContract(n, s)

Accounts(n) ==
    /\ Ledger(n)'
    /\ pc' = "enter" => Tally(n)'
    /\ pc' = "ticked" =>
          /\ Follows(n, ret)' /\ StartsOver(n, ret)'
          /\ NeverSkipped(n) => ret' # SKIPPED

\* Every tick() that accounts for its answer keeps the invariant.
LEMMA AccountsKept ==
    ASSUME ExecInv, AnswerInv, CountersReset', \A x \in Node : Accountable(x),
           NEW n \in Node, OnCallOf(n), Own(n), Accounts(n), TypeOK',
           pc = "tick" /\ Kind[n] \in Counted => pc' = "enter"
    PROVE  AnswerInv'
<1>1. /\ TypeOK /\ frame \in [Node -> Frame] /\ pc \in {"tick", "reply"}
      /\ pc = "reply" => Parent[cur] = n
      /\ cur \in Node /\ InCall /\ n \in {cur} \cup Above[cur] /\ Above[n] \subseteq Above[cur]
  BY ExecFacts, OnCallFacts DEF ExecInv, TypeOK, CallOK, OnCallOf
<1>2. /\ pc' = "ticked" => cur' = n
      /\ pc' = "enter" => cur' \in Kids(n)
      /\ pc' \in {"enter", "ticked", "rest"}
      /\ InCall' => \A x \in Node \ {n} : frame'[x] = frame[x]
  <2>1. CASE \E j \in Positions(n) : \E k : TickChild(n, j, k)
    BY <1>1, <2>1 DEF TickChild, Go, Kids
  <2>2. CASE \E s : Return(n, s)
    BY <1>1, <2>2 DEF Return, Go
  <2>3. CASE Unwind
    BY <2>3 DEF Unwind, InCall
  <2>. QED
    BY <2>1, <2>2, <2>3 DEF Own, Move
<1>3. Ledgers'
  <2>. SUFFICES ASSUME NEW x \in Node, x # n PROVE Ledger(x)'
    BY DEF Ledgers, Accounts
  <2>1. ~Ends(x)
    BY <1>1 DEF Ends
  <2>. QED
    BY <1>1, <2>1, MovedLedger DEF Own, Others, AnswerInv, Ledgers
<1>4. Tallies'
  <2>. SUFFICES ASSUME InCall', NEW a \in Above[cur'] PROVE Tally(a)'
    BY DEF Tallies
  <2>1. a \in Above[n] \/ (a = n /\ pc' = "enter")
    BY <1>2, KidFacts DEF InCall
  <2>2. CASE a \in Above[n]
    <3>1. a \in Node /\ a # n /\ SameHeard(a) /\ frame[a].j \in Positions(a)
      BY <2>2, CallersWait DEF Own, Others
    <3>2. Tally(a)
      BY <1>1, <2>2 DEF AnswerInv, Tallies
    <3>. QED
      BY <1>2, <3>1, <3>2, SameTally
  <2>. QED
    BY <2>1, <2>2 DEF Accounts
<1>5. Blank'
  BY <1>2 DEF Blank, Accounts
<1>6. AnswersFollowChildren'
  BY <1>2 DEF AnswersFollowChildren, Accounts, Follows
<1>7. Unskipped'
  <2>. SUFFICES ASSUME NEW c \in Node, NeverSkipped(c)
                PROVE  /\ status'[c] # SKIPPED /\ heard'[c] # SKIPPED
                       /\ pc' = "ticked" /\ cur' = c => ret' # SKIPPED
    BY <1>2 DEF Unskipped, NeverSkipped
  <2>1. status[c] # SKIPPED /\ heard[c] # SKIPPED
    BY DEF AnswerInv, Unskipped
  <2>2. heard'[c] # SKIPPED /\ (c # n => status'[c] # SKIPPED)
    BY <2>1 DEF Own, Others
  <2>3. c = n => status'[c] # SKIPPED
    BY <2>1 DEF Own, OwnStatus, Accounts
  <2>. QED
    BY <1>2, <2>2, <2>3 DEF Accounts
<1>8. WasReset'
  BY <1>2 DEF WasReset, CountersReset
<1>9. Working'
  <2>. SUFFICES ASSUME pc' = "ticked", Kind[n] \in Counted, ret' = RUNNING
                PROVE  status'[n] = RUNNING
    BY <1>2 DEF Working
  <2>1. pc = "reply" /\ cur \notin Roots /\ Parent[cur] = n
    BY DEF OnCallOf
  <2>2. status[n] = RUNNING
    BY <2>1, AtReply DEF SelfRunning, Counted
  <2>. QED
    BY <2>2 DEF Own, OwnStatus
<1>. QED
  BY <1>3, <1>4, <1>5, <1>6, <1>7, <1>8, <1>9 DEF AnswerInv


-------------------------------------------------------------------------------
(* Leaves, decorators and Switch                                           *)

\* The classes whose answer the property leaves open.
LEMMA OtherAccounts ==
    ASSUME NEW n \in Node,
           Kind[n] \notin LinearKinds \cup ReactiveKinds \cup ParallelKinds \cup BranchKinds,
           pc' = "ticked" /\ NeverSkipped(n) => ret' # SKIPPED
    PROVE  Accounts(n)
<1>1. /\ Kind[n] \notin Indexed /\ Kind[n] # "SequenceWithMemory" /\ Kind[n] \notin Counted
  BY DEF Indexed, Counted, LinearKinds, BranchKinds
<1>2. Ledger(n)' /\ Tally(n)' /\ StartsOver(n, ret)'
  BY <1>1 DEF Ledger, Tally, StartsOver, Counts, BranchKinds
<1>3. Follows(n, ret)'
  BY DEF Follows, LinearKinds, ReactiveKinds, ParallelKinds
<1>. QED
  BY <1>2, <1>3 DEF Accounts

\* A leaf: one that is never skipped answers what its callback does.
LEMMA LeafAccounts ==
    ASSUME AnswerInv, NEW n \in Node, LeafTick(n)
    PROVE  Accounts(n)
<1>1. Kind[n] \in LeafKinds
  BY DEF LeafTick, SyncTick, SimpleActionTick, StatefulTick, Ticking, LeafKinds
<1>2. NeverSkipped(n) => status[n] # SKIPPED /\ SKIPPED \notin Answers[n]
  BY DEF AnswerInv, Unskipped, NeverSkipped
<1>3. pc' = "ticked" /\ NeverSkipped(n) => ret' # SKIPPED
  BY <1>2 DEF LeafTick, SyncTick, SimpleActionTick, StatefulTick, Answer, Return, Go,
     Throw, Unwind
<1>. QED
  BY <1>1, <1>3, OtherAccounts
     DEF LeafKinds, LinearKinds, ReactiveKinds, ParallelKinds, BranchKinds

\* A decorator, or a Switch.
LEMMA DecoratorAccounts ==
    ASSUME NEW n \in Node, DecoratorTick(n) \/ SwitchTick(n) \/ SwitchReply(n)
    PROVE  Accounts(n)
<1>1. Kind[n] \in DecoratorKinds \cup {"Switch"}
  BY DEF DecoratorTick, TranslatorTick, InverterReply, ForceReply, KeepRunningReply,
     SubTreeTick, SubTreeReply, SimpleDecoratorTick, SimpleDecoratorReply,
     RepeatTick, RepeatReply, RetryTick, RetryReply, RunOnceTick, RunOnceReply,
     PreconditionTick, PreconditionReply, UpdatedTick, UpdatedReply, LoopTick, LoopReply,
     SwitchTick, SwitchReply, Ticking, Replied, Translators, DecoratorKinds, UpdatedKinds
<1>. QED
  BY <1>1, OtherAccounts DEF NeverSkipped, LeafKinds, LinearKinds, ReactiveKinds,
     ParallelKinds, BranchKinds, DecoratorKinds, UpdatedKinds

-------------------------------------------------------------------------------
(* Sequences and fallbacks                                                 *)

\* An answer that the answers of the children call for, which have not changed since.
LEMMA LinearFollows ==
    ASSUME NEW n \in Node, Kind[n] \in ControlKinds, SameHeard(n), NEW stop, NEW s, ret' = s,
           s \in {Opposite(stop), SKIPPED} => Passed(n, Count(n) + 1, stop),
           s = Opposite(stop) => \/ \E i \in Positions(n) : Heard(n, i) = s
                                 \/ Miscounts(n),
           s = SKIPPED => Among(n, {SKIPPED}) = Positions(n) \/ Miscounts(n),
           s = stop => \E i \in Positions(n) : Heard(n, i) = stop /\ Passed(n, i, stop),
           s = RUNNING =>
               \/ \E i \in Positions(n) : Heard(n, i) = RUNNING /\ Passed(n, i, stop)
               \/ ready' /\ Passed(n, 2, stop)
    PROVE  LinearContract(n, stop, ret)'
<1>1. Count(n) \in Nat /\ Positions(n) = 1 .. Count(n) /\ Count(n) > 0
  BY TreeFacts, KindAssumption
<1>2. 2 \in Positions(n) \cup {Count(n) + 1}
  BY <1>1
<1>3. /\ \A S : Among(n, S)' = {i \in Positions(n) : Heard(n, i) \in S}
      /\ Among(n, {SKIPPED})' = Among(n, {SKIPPED})
      /\ \A i \in Positions(n) \cup {Count(n) + 1} : Passed(n, i, stop)' <=> Passed(n, i, stop)
  BY SameAnswers DEF Among
<1>4. /\ s \in {Opposite(stop), SKIPPED} => Passed(n, Count(n) + 1, stop)'
      /\ s = Opposite(stop) => Among(n, {s})' # {} \/ Miscounts(n)
  BY <1>1, <1>3
<1>5. s = SKIPPED => Among(n, {SKIPPED})' = Positions(n) \/ Miscounts(n)
  BY <1>3
<1>6. s = stop => \E i \in Among(n, {stop})' : Passed(n, i, stop)'
  BY <1>3
<1>7. s = RUNNING => \/ \E i \in Among(n, {RUNNING})' : Passed(n, i, stop)'
                     \/ ready' /\ Passed(n, 2, stop)'
  BY <1>2, <1>3
<1>. QED
  BY <1>4, <1>5, <1>6, <1>7 DEF LinearContract, Positions, Count, Among, Heard, Passed, Opposite


\* A linear node when a child answers: what it has heard so far.
LEMMA LinearHeard ==
    ASSUME ExecInv, AnswerInv, NEW n \in Node, Replied(n, LinearKinds)
    PROVE  LET i == mem[n].idx
           IN  /\ i \in Positions(n) /\ mem[n] \in Memory /\ Heard(n, i) = ret
               /\ Passed(n, i, Stop(n))
               /\ ret \in {Opposite(Stop(n)), SKIPPED} => Passed(n, i + 1, Stop(n))
               /\ Counts(n) =>
                      SkippedSoFar(n) = Cardinality(SkippedBefore(n, i + 1))
               /\ Kind[n] = "SequenceWithMemory" =>
                      SkippedSoFar(n) <= Cardinality(SkippedBefore(n, i + 1))
               /\ ~Ends(n) /\ ret # IDLE /\ ret \in NodeStatus
<1>. DEFINE i == mem[n].idx
<1>1. /\ TypeOK /\ Kind[n] \in LinearKinds /\ Kind[n] \in Indexed /\ pc = "reply"
      /\ cur \notin Roots /\ Parent[cur] = n
  BY ExecFacts DEF Replied, Indexed
<1>2. mem[n] \in Memory /\ i \in Positions(n)
  BY <1>1, IndexedFacts
<1>3. /\ Children[n][i] = cur /\ ret # IDLE /\ ret \in NodeStatus
      /\ Kind[n] \in SelfRunning => status[n] = RUNNING
  BY <1>1, AtReply DEF WaitsFor
<1>4. Heard(n, i) = ret
  BY <1>1, <1>3 DEF ExecInv, Real, Heard
<1>5. ~Ends(n)
  BY <1>1 DEF Ends
<1>6. LinearLedger(n)
  BY <1>1 DEF AnswerInv, Ledgers, Ledger
<1>7. Counts(n) => status[n] = RUNNING
  BY <1>3 DEF Counts, Counted, SelfRunning
<1>8. i \in Nat /\ 1 .. (i + 1) - 1 = (1 .. i - 1) \cup {i}
  BY <1>2, Before
<1>9. ret \in {Opposite(Stop(n)), SKIPPED} => Passed(n, i + 1, Stop(n))
  BY <1>4, <1>6, <1>8 DEF LinearLedger, Passed
<1>10. /\ Cardinality(SkippedBefore(n, i)) \in Nat
       /\ Cardinality(SkippedBefore(n, i + 1)) =
             Cardinality(SkippedBefore(n, i)) + (IF ret = SKIPPED THEN 1 ELSE 0)
  BY <1>2, <1>4, SkippedStep
<1>11. mem[n].count \in Nat
  BY <1>2 DEF Memory
<1>12. Counts(n) => SkippedSoFar(n) = Cardinality(SkippedBefore(n, i + 1))
  BY <1>5, <1>6, <1>7, <1>10 DEF LinearLedger, SkippedSoFar
<1>13. Kind[n] = "SequenceWithMemory" =>
         SkippedSoFar(n) <= Cardinality(SkippedBefore(n, i + 1))
  BY <1>6, <1>10, <1>11 DEF LinearLedger, SkippedSoFar
<1>. QED
  BY <1>2, <1>3, <1>4, <1>5, <1>6, <1>9, <1>12, <1>13 DEF LinearLedger

\* Its members afterwards agree with what it has heard when they say as much.
LEMMA LinearAccounts ==
    ASSUME NEW n \in Node, Kind[n] \in LinearKinds, SameHeard(n),
           NEW i \in Positions(n) \cup {Count(n) + 1}, NEW c, mem'[n].idx = i, mem'[n].count = c,
           Passed(n, i, Stop(n)),
           Counts(n) /\ status'[n] = RUNNING /\ ~Ends(n)' =>
               c = Cardinality(SkippedBefore(n, i)),
           Kind[n] = "SequenceWithMemory" => c <= Cardinality(SkippedBefore(n, i)),
           pc' = "ticked" => Follows(n, ret)' /\ StartsOver(n, ret)'
    PROVE  Accounts(n)
<1>1. SkippedBefore(n, i)' = SkippedBefore(n, i) /\ Passed(n, i, Stop(n))'
  BY SameAnswers
<1>2. LinearLedger(n)'
  BY <1>1 DEF LinearLedger, Passed, SkippedBefore
<1>3. /\ Kind[n] \notin ReactiveKinds \cup ParallelKinds \cup BranchKinds
      /\ Kind[n] # "IfThenElse" /\ ~NeverSkipped(n)
  BY DEF LinearKinds, ReactiveKinds, ParallelKinds, BranchKinds, NeverSkipped, LeafKinds
<1>4. Ledger(n)' /\ Tally(n)'
  BY <1>2, <1>3 DEF Ledger, Tally, BranchKinds
<1>. QED
  BY <1>3, <1>4 DEF Accounts

\* tick() of a linear node begins: only one that has just been reset starts at 0.
LEMMA LinearTickAccounts ==
    ASSUME ExecInv, AnswerInv, NEW n \in Node, Accountable(n),
           NEW kinds \in SUBSET LinearKinds, LinearTick(n, kinds)
    PROVE  Accounts(n)
<1>. DEFINE i == mem[n].idx
<1>1. /\ TypeOK /\ Kind[n] \in LinearKinds /\ Kind[n] \in Indexed /\ pc = "tick" /\ cur = n
      /\ status \in [Node -> NodeStatus] /\ mem \in [Node -> Memory]
  BY ExecFacts DEF LinearTick, Ticking, Indexed, TypeOK, StateOK
<1>2. mem[n] \in Memory /\ i \in Positions(n)
  BY <1>1, IndexedFacts
<1>3. /\ mem'[n].idx = i /\ pc' = "enter"
      /\ mem'[n].count = IF status[n] \notin {IDLE, SKIPPED} THEN mem[n].count ELSE 0
      /\ SameHeard(n)
  BY <1>1, <1>2 DEF LinearTick, TickChild, Go, Memory, SameHeard
<1>4. LinearLedger(n) /\ ~Ends(n)
  BY <1>1 DEF AnswerInv, Ledgers, Ledger, Ends
<1>5. Cardinality(SkippedBefore(n, i)) \in Nat
  BY <1>2, SkippedStep
<1>6. Counts(n) => mem'[n].count = Cardinality(SkippedBefore(n, i))
  <2>. SUFFICES ASSUME Counts(n)
                PROVE  mem'[n].count = Cardinality(SkippedBefore(n, i))
    OBVIOUS
  <2>1. status[n] \notin Completed
    BY <1>1 DEF AnswerInv, WasReset
  <2>2. CASE status[n] = RUNNING
    BY <1>3, <1>4, <2>2 DEF LinearLedger
  <2>3. CASE status[n] # RUNNING
    <3>1. Restarted(n)
      BY <1>1, <2>3 DEF ExecInv, FreshIdle, Accountable
    <3>2. i = 1
      BY <1>1, <3>1 DEF Restarted, Counts, Counted
    <3>3. status[n] \in {IDLE, SKIPPED}
      BY <1>1, <2>1, <2>3
    <3>. QED
      BY <1>3, <3>2, <3>3, NoneBefore
  <2>. QED
    BY <2>2, <2>3
<1>7. Kind[n] = "SequenceWithMemory" => mem'[n].count <= Cardinality(SkippedBefore(n, i))
  BY <1>3, <1>4, <1>5 DEF LinearLedger
<1>. QED
  BY <1>1, <1>2, <1>3, <1>4, <1>6, <1>7, LinearAccounts DEF LinearLedger

\* The next child of a linear node, or the control given back before it.
LEMMA LinearNextAccounts ==
    ASSUME ExecInv, AnswerInv, NEW n \in Node, Replied(n, LinearKinds),
           ret \in {Opposite(Stop(n)), SKIPPED}, NEW yields, LinearNext(n, yields)
    PROVE  Accounts(n)
<1>. DEFINE i == mem[n].idx
<1>1. /\ TypeOK /\ Kind[n] \in LinearKinds /\ Kind[n] \in ControlKinds
      /\ mem \in [Node -> Memory]
  BY ExecFacts DEF Replied, ControlKinds, TypeOK, StateOK
<1>2. /\ i \in Positions(n) /\ mem[n] \in Memory /\ Passed(n, i + 1, Stop(n))
      /\ Counts(n) => SkippedSoFar(n) = Cardinality(SkippedBefore(n, i + 1))
      /\ Kind[n] = "SequenceWithMemory" =>
             SkippedSoFar(n) <= Cardinality(SkippedBefore(n, i + 1))
  BY LinearHeard
<1>3. /\ i # Count(n) /\ i \in Nat /\ 1 <= i /\ Positions(n) = 1 .. Count(n) /\ Count(n) \in Nat
      /\ i + 1 \in Positions(n)
  BY <1>2, TreeFacts DEF LinearNext, LastChild
<1>4. mem'[n] = [mem[n] EXCEPT !.idx = @ + 1, !.count = SkippedSoFar(n)] /\ heard' = heard
  BY <1>1 DEF LinearNext, Remember
<1>5. mem'[n].idx = i + 1 /\ mem'[n].count = SkippedSoFar(n) /\ SameHeard(n)
  BY <1>2, <1>4 DEF Memory, SameHeard
<1>6. pc' = "ticked" => ret' = RUNNING /\ ready'
  BY DEF LinearNext, TickChild, Yield, Return, Go
<1>7. Passed(n, 2, Stop(n))
  BY <1>2, <1>3 DEF Passed
<1>8. pc' = "ticked" => Follows(n, ret)' /\ StartsOver(n, ret)'
  <2>1. pc' = "ticked" => LinearContract(n, Stop(n), ret)'
    BY <1>1, <1>5, <1>6, <1>7, LinearFollows DEF Stop, Opposite
  <2>2. Kind[n] \notin ReactiveKinds \cup ParallelKinds \cup BranchKinds
    BY <1>1 DEF LinearKinds, ReactiveKinds, ParallelKinds, BranchKinds
  <2>. QED
    BY <1>1, <1>6, <2>1, <2>2 DEF Follows, Stop, StartsOver, LinearKinds, ParallelKinds
<1>. QED
  BY <1>1, <1>2, <1>3, <1>5, <1>8, LinearAccounts

\* A linear node that has asked all its children.
LEMMA LinearEndAccounts ==
    ASSUME ExecInv, AnswerInv, NEW n \in Node, Accountable(n), Replied(n, LinearKinds),
           ret \in {Opposite(Stop(n)), SKIPPED}, LinearEnd(n, Opposite(Stop(n)))
    PROVE  Accounts(n)
<1>. DEFINE i == mem[n].idx
            s == IF SkippedSoFar(n) = Count(n) THEN SKIPPED ELSE Opposite(Stop(n))
<1>1. /\ TypeOK /\ RunningReached /\ Kind[n] \in LinearKinds /\ Kind[n] \in ControlKinds
  BY ExecFacts DEF Replied, ControlKinds
<1>2. /\ i \in Positions(n) /\ mem[n] \in Memory /\ Passed(n, i + 1, Stop(n))
      /\ Counts(n) => SkippedSoFar(n) = Cardinality(SkippedBefore(n, i + 1))
      /\ Kind[n] = "SequenceWithMemory" =>
             SkippedSoFar(n) <= Cardinality(SkippedBefore(n, i + 1))
  BY LinearHeard
<1>3. /\ i = Count(n) /\ Count(n) \in Nat /\ Positions(n) = 1 .. Count(n)
      /\ ResetChildren(n, Kids(n), FreshMem(n)) /\ Return(n, s)
  BY TreeFacts DEF LinearEnd, LastChild, Answer
<1>4. mem'[n] = FreshMem(n) /\ SameHeard(n)
  <2>1. mem'[n] = FreshMem(n) /\ Others(n)
    BY <1>1, <1>3, ResetOthers
  <2>. QED
    BY <2>1 DEF Others
<1>5. pc' = "ticked" /\ cur' = n /\ ret' = s
  BY <1>3 DEF Return, Go
<1>6. FreshMem(n).idx = 1 /\ FreshMem(n).count = 0
  BY <1>1 DEF FreshMem, LinearKinds, ReactiveKinds
<1>7. /\ SkippedBefore(n, Count(n) + 1) = Among(n, {SKIPPED})
      /\ Cardinality(Among(n, {SKIPPED})) \in 0 .. Count(n)
      /\ Cardinality(Among(n, {SKIPPED})) = Count(n) <=> Among(n, {SKIPPED}) = Positions(n)
  BY SkippedAll
<1>8. Kind[n] = "SequenceWithMemory" =>
         Among(n, {SKIPPED}) # Positions(n) /\ SkippedSoFar(n) # Count(n)
  <2>. SUFFICES ASSUME Kind[n] = "SequenceWithMemory"
                PROVE  Among(n, {SKIPPED}) # Positions(n) /\ SkippedSoFar(n) # Count(n)
    OBVIOUS
  <2>1. PICK k \in Positions(n) : NeverSkipped(Children[n][k])
    BY DEF Accountable, Kids
  <2>2. Heard(n, k) # SKIPPED
    BY <2>1, TreeFacts DEF AnswerInv, Unskipped, Heard
  <2>3. k \notin Among(n, {SKIPPED})
    BY <2>2 DEF Among
  <2>4. SkippedSoFar(n) \in Nat
    BY <1>2 DEF SkippedSoFar, Memory
  <2>. QED
    BY <1>2, <1>3, <1>7, <2>1, <2>3, <2>4
<1>9. \/ Miscounts(n)
      \/ (SkippedSoFar(n) = Count(n)) <=> (Among(n, {SKIPPED}) = Positions(n))
  BY <1>1, <1>2, <1>3, <1>7, <1>8 DEF Counts, Counted
<1>10. s # SKIPPED => Miscounts(n) \/ \E k \in Positions(n) : Heard(n, k) = s
  <2>. SUFFICES ASSUME s # SKIPPED, ~Miscounts(n)
                PROVE  \E k \in Positions(n) : Heard(n, k) = s
    OBVIOUS
  <2>1. PICK k \in Positions(n) : Heard(n, k) # SKIPPED
    BY <1>9 DEF Among
  <2>2. k \in 1 .. (i + 1) - 1
    BY <1>3
  <2>3. Heard(n, k) = Opposite(Stop(n))
    BY <1>2, <2>1, <2>2 DEF Passed
  <2>. QED
    BY <2>3
<1>11. s \in {SKIPPED, Opposite(Stop(n))} /\ Stop(n) \in Completed
       /\ Opposite(Stop(n)) \in Completed /\ Opposite(Stop(n)) # Stop(n)
  BY DEF Stop, Opposite
<1>12. s = SKIPPED => Among(n, {SKIPPED}) = Positions(n) \/ Miscounts(n)
  BY <1>9, <1>11
<1>. HIDE DEF s
<1>13. LinearContract(n, Stop(n), ret)'
  BY <1>1, <1>2, <1>3, <1>4, <1>5, <1>10, <1>11, <1>12, LinearFollows
<1>14. Follows(n, ret)' /\ StartsOver(n, ret)'
  <2>1. Kind[n] \notin ReactiveKinds \cup ParallelKinds \cup BranchKinds
    BY <1>1 DEF LinearKinds, ReactiveKinds, ParallelKinds, BranchKinds
  <2>. QED
    BY <1>1, <1>4, <1>6, <1>13, <2>1
       DEF Follows, Stop, StartsOver, LinearKinds, ParallelKinds, BranchKinds, Indexed
<1>15. 1 \in Positions(n) /\ mem'[n].idx = 1 /\ mem'[n].count = 0
  BY <1>2, <1>3, <1>4, <1>6
<1>16. Cardinality(SkippedBefore(n, 1)) = 0 /\ Passed(n, 1, Stop(n))
  BY NoneBefore
<1>. QED
  BY <1>1, <1>4, <1>14, <1>15, <1>16, LinearAccounts


\* A linear node whose child runs, or fails where the node will resume, keeps what it has.
LEMMA LinearKeepsAccounts ==
    ASSUME ExecInv, AnswerInv, NEW n \in Node, Replied(n, LinearKinds), SameHeard(n),
           mem'[n] = mem[n], status'[n] = status[n], pc' = "ticked", ret' = ret,
           ret = RUNNING \/ (Kind[n] = "SequenceWithMemory" /\ ret = FAILURE)
    PROVE  Accounts(n)
<1>. DEFINE i == mem[n].idx
<1>1. /\ Kind[n] \in LinearKinds /\ Kind[n] \in ControlKinds
      /\ Kind[n] \notin ReactiveKinds \cup ParallelKinds \cup BranchKinds
  BY DEF Replied, ControlKinds, LinearKinds, ReactiveKinds, ParallelKinds, BranchKinds
<1>2. i \in Positions(n) /\ Heard(n, i) = ret /\ Passed(n, i, Stop(n)) /\ ~Ends(n)
  BY LinearHeard
<1>3. LinearLedger(n)
  BY <1>1 DEF AnswerInv, Ledgers, Ledger
<1>4. ret = RUNNING \/ ret = Stop(n)
  BY DEF Stop
<1>5. ret # Opposite(Stop(n)) /\ ret # SKIPPED
  BY <1>4 DEF Stop, Opposite
<1>6. LinearContract(n, Stop(n), ret)'
  BY <1>1, <1>2, <1>4, <1>5, LinearFollows
<1>7. Follows(n, ret)' /\ StartsOver(n, ret)'
  BY <1>1, <1>6 DEF Follows, Stop, StartsOver, Retried, LinearKinds, ParallelKinds
<1>. QED
  BY <1>1, <1>2, <1>3, <1>7, LinearAccounts DEF LinearLedger

\* A sequence or fallback that a child stops.
LEMMA LinearStopAccounts ==
    ASSUME ExecInv, AnswerInv, NEW n \in Node, Replied(n, Counted), ret = Stop(n),
           ResetChildren(n, Kids(n), [mem[n] EXCEPT !.idx = 1]), Answer(n, Stop(n))
    PROVE  Accounts(n)
<1>. DEFINE i == mem[n].idx
            m == [mem[n] EXCEPT !.idx = 1]
<1>1. /\ TypeOK /\ RunningReached /\ Kind[n] \in Counted /\ Kind[n] \in LinearKinds
      /\ Kind[n] \in ControlKinds /\ Replied(n, LinearKinds)
      /\ Kind[n] \notin ReactiveKinds \cup ParallelKinds \cup BranchKinds
      /\ Kind[n] # "SequenceWithMemory" /\ Kind[n] \in Indexed
  BY ExecFacts DEF Replied, Counted, ControlKinds, LinearKinds, ReactiveKinds, ParallelKinds,
     BranchKinds, Indexed
<1>2. /\ i \in Positions(n) /\ mem[n] \in Memory /\ Heard(n, i) = ret
      /\ Passed(n, i, Stop(n))
  BY <1>1, LinearHeard
<1>3. m.idx = 1 /\ m.count = mem[n].count
  BY <1>2 DEF Memory
<1>4. mem'[n] = m /\ Others(n)
  BY <1>1, ResetOthers
<1>5. SameHeard(n) /\ mem'[n].idx = 1 /\ mem'[n].count = mem[n].count
  BY <1>3, <1>4 DEF Others
<1>6. pc' = "ticked" /\ cur' = n /\ ret' = Stop(n) /\ Stop(n) \in Completed
  BY DEF Answer, Return, Go, Stop
<1>7. Ends(n)'
  BY <1>1, <1>6 DEF Ends, Retried
<1>8. LinearContract(n, Stop(n), ret)'
  <2>1. Stop(n) # Opposite(Stop(n))
    BY DEF Stop, Opposite
  <2>. QED
    BY <1>1, <1>2, <1>5, <1>6, <2>1, LinearFollows
<1>9. Follows(n, ret)' /\ StartsOver(n, ret)'
  BY <1>1, <1>5, <1>6, <1>8 DEF Follows, Stop, StartsOver, LinearKinds, ParallelKinds
<1>10. 1 \in Positions(n) /\ Passed(n, 1, Stop(n))
  <2>1. 1 \in Positions(n)
    BY <1>2, TreeFacts
  <2>. QED
    BY <2>1, NoneBefore
<1>. QED
  BY <1>1, <1>5, <1>7, <1>9, <1>10, LinearAccounts

\* The linear classes.
LEMMA LinearReplyAccounts ==
    ASSUME ExecInv, AnswerInv, NEW n \in Node, Accountable(n),
           SequenceReply(n) \/ FallbackReply(n) \/ MemoryReply(n)
    PROVE  Accounts(n)
<1>1. /\ TypeOK /\ RunningReached /\ Replied(n, LinearKinds)
  BY ExecFacts DEF SequenceReply, FallbackReply, MemoryReply, Replied, LinearKinds
<1>2. CASE ret = RUNNING /\ Keep /\ Answer(n, RUNNING)
  <2>1. SameHeard(n) /\ mem'[n] = mem[n] /\ status'[n] = status[n]
    BY <1>2 DEF Keep, SameHeard
  <2>2. pc' = "ticked" /\ ret' = RUNNING
    BY <1>2 DEF Answer, Return, Go
  <2>. QED
    BY <1>1, <1>2, <2>1, <2>2, LinearKeepsAccounts
<1>3. CASE SequenceReply(n) \/ FallbackReply(n)
  <2>. DEFINE yields == Kind[n] \in {"AsyncSequence", "AsyncFallback"}
  <2>1. Replied(n, Counted)
    BY <1>3 DEF SequenceReply, FallbackReply, Replied, Counted, LinearKinds
  <2>2. LinearReply(n, Stop(n), yields)
    <3>1. CASE SequenceReply(n)
      <4>1. Stop(n) = FAILURE /\ (yields <=> Kind[n] = "AsyncSequence")
        BY <3>1 DEF SequenceReply, Replied, Stop
      <4>. QED
        BY <3>1, <4>1 DEF SequenceReply, LinearReply, LinearNext
    <3>2. CASE FallbackReply(n)
      <4>1. Stop(n) = SUCCESS /\ (yields <=> Kind[n] = "AsyncFallback")
        BY <3>2 DEF FallbackReply, Replied, Stop
      <4>. QED
        BY <3>2, <4>1 DEF FallbackReply, LinearReply, LinearNext
    <3>. QED
      BY <1>3, <3>1, <3>2
  <2>. HIDE DEF yields
  <2>. QED
    BY <1>1, <1>2, <2>1, <2>2, LinearStopAccounts, LinearNextAccounts, LinearEndAccounts
       DEF LinearReply
<1>4. CASE MemoryReply(n)
  <2>1. Kind[n] = "SequenceWithMemory" /\ Stop(n) = FAILURE /\ Opposite(Stop(n)) = SUCCESS
    BY <1>4 DEF MemoryReply, Replied, Stop, Opposite
  <2>2. CASE /\ ret = FAILURE
             /\ ResetChildren(n, {Children[n][i] : i \in mem[n].idx .. Count(n)}, mem[n])
             /\ Answer(n, FAILURE)
    <3>. DEFINE C == {Children[n][i] : i \in mem[n].idx .. Count(n)}
    <3>1. \A i \in mem[n].idx .. Count(n) : i \in Positions(n)
      <4>1. mem[n].idx \in Positions(n)
        BY <1>1, LinearHeard
      <4>. QED
        BY <4>1, TreeFacts
    <3>2. C \in SUBSET Kids(n)
      BY <3>1 DEF Kids
    <3>3. ResetChildren(n, C, mem[n])
      BY <2>2
    <3>. HIDE DEF C
    <3>4. Others(n) /\ status'[n] = status[n] /\ mem'[n] = mem[n]
      BY <1>1, <3>2, <3>3, ResetOthers
    <3>5. SameHeard(n)
      BY <3>4 DEF Others
    <3>6. pc' = "ticked" /\ ret' = FAILURE
      BY <2>2 DEF Answer, Return, Go
    <3>. QED
      BY <1>1, <2>1, <2>2, <3>4, <3>5, <3>6, LinearKeepsAccounts
  <2>3. CASE ret \in {SUCCESS, SKIPPED} /\ LinearNext(n, TRUE)
    BY <1>1, <2>1, <2>3, LinearNextAccounts
  <2>4. CASE ret \in {SUCCESS, SKIPPED} /\ LinearEnd(n, SUCCESS)
    BY <1>1, <2>1, <2>4, LinearEndAccounts
  <2>. QED
    BY <1>2, <1>4, <2>2, <2>3, <2>4 DEF MemoryReply
<1>. QED
  BY <1>3, <1>4


-------------------------------------------------------------------------------
(* Reactive nodes                                                          *)

\* A reactive node when a child answers: what it has heard in this tick.
LEMMA ReactiveHeard ==
    ASSUME ExecInv, AnswerInv, NEW n \in Node, NEW kinds \in SUBSET ReactiveKinds,
           Replied(n, kinds)
    PROVE  LET j == frame[n].j
           IN  /\ j \in Positions(n) /\ Heard(n, j) = ret /\ cur \in Kids(n)
               /\ Passed(n, j, Stop(n))
               /\ ret \in {Opposite(Stop(n)), SKIPPED} => Passed(n, j + 1, Stop(n))
               /\ frame[n].skips + (IF ret = SKIPPED THEN 1 ELSE 0) =
                      Cardinality(SkippedBefore(n, j + 1))
<1>. DEFINE j == frame[n].j
<1>1. /\ Kind[n] \in ReactiveKinds /\ pc = "reply" /\ cur \notin Roots /\ Parent[cur] = n
      /\ cur \in Node /\ InCall
  BY ExecFacts DEF Replied, TypeOK, CallOK, InCall
<1>2. j \in Positions(n) /\ Children[n][j] = cur /\ cur \in Kids(n)
  BY <1>1, AtReply DEF WaitsFor
<1>3. Heard(n, j) = ret
  BY <1>1, <1>2 DEF ExecInv, Real, Heard
<1>4. n \in Above[cur]
  BY <1>2, KidFacts
<1>5. Passed(n, j, Stop(n)) /\ frame[n].skips = Cardinality(SkippedBefore(n, j))
  BY <1>1, <1>4 DEF AnswerInv, Tallies, Tally
<1>6. j \in Nat /\ 1 .. (j + 1) - 1 = (1 .. j - 1) \cup {j}
  BY <1>2, Before
<1>7. ret \in {Opposite(Stop(n)), SKIPPED} => Passed(n, j + 1, Stop(n))
  BY <1>3, <1>5, <1>6 DEF Passed
<1>8. /\ Cardinality(SkippedBefore(n, j)) \in Nat
      /\ Cardinality(SkippedBefore(n, j + 1)) =
            Cardinality(SkippedBefore(n, j)) + (IF ret = SKIPPED THEN 1 ELSE 0)
  BY <1>2, <1>3, SkippedStep
<1>. QED
  BY <1>2, <1>3, <1>5, <1>7, <1>8

\* It keeps nothing: a tick() in progress counts, an answer follows.
LEMMA ReactiveAccounts ==
    ASSUME NEW n \in Node, Kind[n] \in ReactiveKinds, SameHeard(n),
           pc' = "enter" =>
               \E j \in Positions(n) :
                  /\ frame'[n].j = j /\ Passed(n, j, Stop(n))
                  /\ frame'[n].skips = Cardinality(SkippedBefore(n, j)),
           pc' = "ticked" => LinearContract(n, Stop(n), ret)'
    PROVE  Accounts(n)
<1>1. /\ Kind[n] \notin LinearKinds \cup ParallelKinds \cup BranchKinds \cup LeafKinds
      /\ Kind[n] # "IfThenElse" /\ Kind[n] # "WhileDoElse" /\ Kind[n] \notin Indexed \cup Counted
      /\ Kind[n] # "SequenceWithMemory"
  BY DEF LinearKinds, ReactiveKinds, ParallelKinds, BranchKinds, LeafKinds, Indexed, Counted
<1>2. Ledger(n)' /\ StartsOver(n, ret)'
  BY <1>1 DEF Ledger, StartsOver, Counts
<1>3. pc' = "enter" => Tally(n)'
  <2>. SUFFICES ASSUME pc' = "enter" PROVE Tally(n)'
    OBVIOUS
  <2>1. PICK j \in Positions(n) :
           /\ frame'[n].j = j /\ Passed(n, j, Stop(n))
           /\ frame'[n].skips = Cardinality(SkippedBefore(n, j))
    OBVIOUS
  <2>2. SkippedBefore(n, j)' = SkippedBefore(n, j) /\ Passed(n, j, Stop(n))'
    BY <2>1, SameAnswers
  <2>. QED
    BY <1>1, <2>1, <2>2 DEF Tally, Passed, SkippedBefore
<1>4. pc' = "ticked" => Follows(n, ret)'
  BY <1>1 DEF Follows, Stop, LinearKinds, ReactiveKinds
<1>. QED
  BY <1>1, <1>2, <1>3, <1>4 DEF Accounts, NeverSkipped

\* tick() of a reactive node begins with its first child.
LEMMA ReactiveTickAccounts ==
    ASSUME ExecInv, NEW n \in Node, NEW kinds \in SUBSET ReactiveKinds, ReactiveTick(n, kinds)
    PROVE  Accounts(n)
<1>1. /\ TypeOK /\ Kind[n] \in ReactiveKinds /\ Kind[n] \in ControlKinds
      /\ frame \in [Node -> Frame]
  BY ExecFacts DEF ReactiveTick, Ticking, ControlKinds, TypeOK, CallOK
<1>2. SameHeard(n) /\ pc' = "enter" /\ frame'[n].j = 1 /\ frame'[n].skips = 0
  BY <1>1 DEF ReactiveTick, TickChild, Go, SameHeard
<1>3. 1 \in Positions(n)
  BY <1>1, TreeFacts, KindAssumption
<1>4. Passed(n, 1, Stop(n)) /\ 0 = Cardinality(SkippedBefore(n, 1))
  BY NoneBefore
<1>. QED
  BY <1>1, <1>2, <1>3, <1>4, ReactiveAccounts

\* A reactive node goes on to the next child, or answers.
LEMMA ReactiveReplyAccounts ==
    ASSUME ExecInv, AnswerInv, NEW n \in Node, NEW kinds \in SUBSET ReactiveKinds,
           ReactiveReply(n, kinds, Stop(n))
    PROVE  Accounts(n)
<1>. DEFINE j == frame[n].j
            skips == frame[n].skips + (IF ret = SKIPPED THEN 1 ELSE 0)
            s == IF skips = Count(n) THEN SKIPPED ELSE Opposite(Stop(n))
<1>1. /\ TypeOK /\ RunningReached /\ Kind[n] \in ReactiveKinds /\ Kind[n] \in ControlKinds
      /\ frame \in [Node -> Frame] /\ Replied(n, kinds)
  BY ExecFacts DEF ReactiveReply, Replied, ControlKinds, TypeOK, CallOK
<1>2. /\ j \in Positions(n) /\ Heard(n, j) = ret /\ cur \in Kids(n)
      /\ Passed(n, j, Stop(n))
      /\ ret \in {Opposite(Stop(n)), SKIPPED} => Passed(n, j + 1, Stop(n))
      /\ skips = Cardinality(SkippedBefore(n, j + 1))
  BY <1>1, ReactiveHeard
<1>3. j \in Nat /\ Count(n) \in Nat /\ Positions(n) = 1 .. Count(n)
  BY <1>2, TreeFacts
<1>4. SameHeard(n)
  <2>1. \A C \in SUBSET Kids(n) : \A m : ResetChildren(n, C, m) => Others(n)
    BY <1>1, ResetOthers
  <2>2. Keep => Others(n)
    BY KeepOthers
  <2>3. Kids(n) \ {cur} \in SUBSET Kids(n) /\ {cur} \in SUBSET Kids(n)
        /\ Kids(n) \in SUBSET Kids(n)
    BY <1>2
  <2>4. Others(n)
    BY <2>1, <2>2, <2>3 DEF ReactiveReply, ReactiveRunning
  <2>. QED
    BY <2>4 DEF Others
<1>5. Stop(n) \in Completed /\ Opposite(Stop(n)) \in Completed /\ Opposite(Stop(n)) # Stop(n)
  BY DEF Stop, Opposite
<1>6. CASE ret = RUNNING /\ ReactiveRunning(n)
  <2>1. pc' = "rest" \/ (pc' = "ticked" /\ ret' = RUNNING)
    BY <1>6 DEF ReactiveRunning, Unwind, Answer, Return, Go
  <2>2. pc' = "ticked" => LinearContract(n, Stop(n), ret)'
    BY <1>1, <1>2, <1>4, <1>5, <1>6, <2>1, LinearFollows
  <2>. QED
    BY <1>1, <1>4, <2>1, <2>2, ReactiveAccounts
<1>7. CASE ret = Stop(n) /\ Answer(n, Stop(n))
  <2>1. pc' = "ticked" /\ ret' = Stop(n)
    BY <1>7 DEF Answer, Return, Go
  <2>2. LinearContract(n, Stop(n), ret)'
    BY <1>1, <1>2, <1>4, <1>5, <1>7, <2>1, LinearFollows
  <2>. QED
    BY <1>1, <1>4, <2>1, <2>2, ReactiveAccounts
<1>8. CASE /\ ret \in {Opposite(Stop(n)), SKIPPED} /\ j < Count(n)
           /\ TickChild(n, j + 1, skips)
  <2>1. pc' = "enter" /\ frame'[n].j = j + 1 /\ frame'[n].skips = skips
    BY <1>1, <1>8 DEF TickChild, Go
  <2>2. j + 1 \in Positions(n)
    BY <1>2, <1>3, <1>8
  <2>. QED
    BY <1>1, <1>2, <1>4, <1>8, <2>1, <2>2, ReactiveAccounts
<1>9. CASE /\ ret \in {Opposite(Stop(n)), SKIPPED} /\ j = Count(n) /\ Answer(n, s)
  <2>1. pc' = "ticked" /\ ret' = s
    BY <1>9 DEF Answer, Return, Go
  <2>2. /\ SkippedBefore(n, Count(n) + 1) = Among(n, {SKIPPED})
        /\ Cardinality(Among(n, {SKIPPED})) = Count(n) <=> Among(n, {SKIPPED}) = Positions(n)
    BY SkippedAll
  <2>3. skips = Count(n) <=> Among(n, {SKIPPED}) = Positions(n)
    BY <1>2, <1>9, <2>2
  <2>4. s = SKIPPED => Among(n, {SKIPPED}) = Positions(n)
    BY <1>5, <2>3
  <2>5. s # SKIPPED => \E k \in Positions(n) : Heard(n, k) = s
    <3>. SUFFICES ASSUME s # SKIPPED PROVE \E k \in Positions(n) : Heard(n, k) = s
      OBVIOUS
    <3>1. PICK k \in Positions(n) : Heard(n, k) # SKIPPED
      BY <2>3 DEF Among
    <3>2. k \in 1 .. (j + 1) - 1
      BY <1>3, <1>9
    <3>3. Heard(n, k) = Opposite(Stop(n))
      BY <1>2, <1>9, <3>1, <3>2 DEF Passed
    <3>. QED
      BY <3>3
  <2>6. s \in {SKIPPED, Opposite(Stop(n))} /\ Passed(n, Count(n) + 1, Stop(n))
    BY <1>2, <1>9
  <2>. HIDE DEF s, skips
  <2>7. LinearContract(n, Stop(n), ret)'
    BY <1>1, <1>4, <1>5, <2>1, <2>4, <2>5, <2>6, LinearFollows
  <2>. QED
    BY <1>1, <1>4, <2>1, <2>7, ReactiveAccounts
<1>. QED
  BY <1>6, <1>7, <1>8, <1>9 DEF ReactiveReply


-------------------------------------------------------------------------------
(* IfThenElse and WhileDoElse                                              *)

\* The answer of the branch taken, or of a condition that runs.
LEMMA BranchFollows ==
    ASSUME NEW n \in Node, Kind[n] \in BranchKinds, SameHeard(n), NEW s, ret' = s,
           NEW j \in Positions(n),
           \/ j = 1 /\ Heard(n, 1) = RUNNING /\ s = RUNNING
           \/ j = 1 /\ Heard(n, 1) = FAILURE /\ Count(n) = 2 /\ s = FAILURE
           \/ j = 1 /\ Heard(n, 1) = SKIPPED
           \/ j = 2 /\ Heard(n, 1) = SUCCESS /\ Heard(n, 2) = s
           \/ j = 3 /\ Heard(n, 1) = FAILURE /\ Heard(n, 3) = s
    PROVE  Follows(n, ret)'
<1>1. /\ Positions(n) = 1 .. Count(n) /\ Count(n) \in {2, 3} /\ 2 \in Positions(n)
      /\ 1 \in Positions(n)
  BY BranchFacts
<1>2. /\ Heard(n, 1)' = Heard(n, 1) /\ Heard(n, 2)' = Heard(n, 2)
      /\ Heard(n, j)' = Heard(n, j)
  BY <1>1, SameAnswers
<1>3. j = 3 => Count(n) = 3
  BY <1>1
<1>4. BranchContract(n, ret)'
  BY <1>2, <1>3 DEF BranchContract, Count
<1>5. Kind[n] \notin LinearKinds \cup ReactiveKinds \cup ParallelKinds
  BY DEF BranchKinds, LinearKinds, ReactiveKinds, ParallelKinds
<1>. QED
  BY <1>4, <1>5 DEF Follows, LinearKinds, ReactiveKinds, ParallelKinds

\* The kinds of branches.
LEMMA BranchAccounts ==
    ASSUME NEW n \in Node, Kind[n] \in BranchKinds,
           Kind[n] = "IfThenElse" => BranchLedger(n)',
           pc' = "enter" /\ Kind[n] = "WhileDoElse" => Tally(n)',
           pc' = "ticked" =>
               /\ Follows(n, ret)'
               /\ Kind[n] = "IfThenElse" /\ ret' \notin {RUNNING, IDLE} => mem'[n].idx = 1
    PROVE  Accounts(n)
<1>1. /\ Kind[n] \notin LinearKinds \cup ReactiveKinds \cup ParallelKinds \cup LeafKinds
      /\ Kind[n] \notin Counted /\ Kind[n] # "SequenceWithMemory"
      /\ Kind[n] \in Indexed => Kind[n] = "IfThenElse"
      /\ Kind[n] \in {"IfThenElse", "WhileDoElse"}
  BY DEF BranchKinds, LinearKinds, ReactiveKinds, ParallelKinds, LeafKinds, Counted, Indexed
<1>2. Ledger(n)' /\ (pc' = "enter" => Tally(n)')
  BY <1>1 DEF Ledger, Tally
<1>3. pc' = "ticked" => StartsOver(n, ret)'
  BY <1>1 DEF StartsOver, Counts
<1>. QED
  BY <1>1, <1>2, <1>3 DEF Accounts, NeverSkipped

\* IfThenElse remembers which branch the condition has chosen.
LEMMA IfThenElseAccounts ==
    ASSUME ExecInv, AnswerInv, NEW n \in Node, IfThenElseTick(n) \/ IfThenElseReply(n)
    PROVE  Accounts(n)
<1>. DEFINE i == mem[n].idx
<1>1. /\ TypeOK /\ RunningReached /\ Kind[n] = "IfThenElse" /\ Kind[n] \in BranchKinds
      /\ Kind[n] \in Indexed /\ mem \in [Node -> Memory]
  BY ExecFacts DEF IfThenElseTick, IfThenElseReply, Ticking, Replied, BranchKinds, Indexed,
     TypeOK, StateOK
<1>2. /\ mem[n] \in Memory /\ i \in Positions(n) /\ i \in {1, 2, 3}
      /\ 1 \in Positions(n)
  BY <1>1, IndexedFacts, BranchFacts
<1>3. BranchLedger(n)
  BY <1>1 DEF AnswerInv, Ledgers, Ledger
<1>4. ASSUME SameHeard(n), mem'[n] = mem[n]
      PROVE  BranchLedger(n)'
  BY <1>2, <1>3, <1>4, SameAnswers DEF BranchLedger
<1>5. CASE IfThenElseTick(n)
  <2>1. SameHeard(n) /\ mem'[n] = mem[n] /\ pc' = "enter"
    BY <1>5 DEF IfThenElseTick, SetRunning, TickChild, Go, SameHeard
  <2>. QED
    BY <1>1, <1>4, <2>1, BranchAccounts
<1>6. CASE IfThenElseReply(n)
  <2>1. pc = "reply" /\ cur \notin Roots /\ Parent[cur] = n
    BY <1>6 DEF IfThenElseReply, Replied
  <2>2. Children[n][i] = cur /\ ret # IDLE /\ ret \in NodeStatus
    BY <1>1, <2>1, AtReply DEF WaitsFor
  <2>3. Heard(n, i) = ret
    BY <2>1, <2>2 DEF ExecInv, Real, Heard
  <2>4. CASE ret = RUNNING /\ Keep /\ Answer(n, RUNNING)
    <3>1. SameHeard(n) /\ mem'[n] = mem[n] /\ pc' = "ticked" /\ ret' = RUNNING
      BY <2>4 DEF Keep, SameHeard, Answer, Return, Go
    <3>2. Follows(n, ret)'
      BY <1>1, <1>2, <1>3, <2>3, <2>4, <3>1, BranchFollows DEF BranchLedger
    <3>. QED
      BY <1>1, <1>4, <3>1, <3>2, BranchAccounts
  <2>5. ASSUME NEW k \in {2, 3}, i = 1, ret = IF k = 2 THEN SUCCESS ELSE FAILURE,
               Remember(n, [mem[n] EXCEPT !.idx = k]), TickChild(n, k, 0)
        PROVE  Accounts(n)
    <3>1. mem'[n] = [mem[n] EXCEPT !.idx = k] /\ SameHeard(n) /\ pc' = "enter"
      BY <1>1, <2>5 DEF Remember, SameHeard, TickChild, Go
    <3>2. mem'[n].idx = k
      BY <1>2, <3>1 DEF Memory
    <3>3. Heard(n, 1)' = ret
      BY <1>2, <2>3, <2>5, <3>1, SameAnswers
    <3>4. BranchLedger(n)'
      BY <2>5, <3>2, <3>3 DEF BranchLedger
    <3>. QED
      BY <1>1, <3>1, <3>4, BranchAccounts
  <2>6. CASE i = 1 /\ ret = FAILURE /\ Count(n) = 2 /\ Keep /\ Answer(n, FAILURE)
    <3>1. SameHeard(n) /\ mem'[n] = mem[n] /\ pc' = "ticked" /\ ret' = FAILURE
      BY <2>6 DEF Keep, SameHeard, Answer, Return, Go
    <3>2. Follows(n, ret)'
      BY <1>1, <1>2, <2>3, <2>6, <3>1, BranchFollows
    <3>. QED
      BY <1>1, <1>4, <2>6, <3>1, <3>2, BranchAccounts
  <2>7. CASE Throw
    <3>1. SameHeard(n) /\ mem'[n] = mem[n] /\ pc' = "rest"
      BY <2>7 DEF Throw, Unwind, SameHeard
    <3>. QED
      BY <1>1, <1>4, <3>1, BranchAccounts
  <2>8. CASE i > 1 /\ ret # RUNNING /\ ResetChildren(n, Kids(n), FreshMem(n)) /\ Answer(n, ret)
    <3>1. mem'[n] = FreshMem(n) /\ Others(n)
      BY <1>1, <2>8, ResetOthers
    <3>2. SameHeard(n) /\ mem'[n].idx = 1
      BY <1>1, <3>1 DEF Others, FreshMem, ReactiveKinds
    <3>3. pc' = "ticked" /\ ret' = ret
      BY <2>8 DEF Answer, Return, Go
    <3>4. Follows(n, ret)'
      BY <1>1, <1>2, <1>3, <2>3, <2>8, <3>2, <3>3, BranchFollows DEF BranchLedger
    <3>5. BranchLedger(n)'
      BY <3>2 DEF BranchLedger
    <3>. QED
      BY <1>1, <3>2, <3>3, <3>4, <3>5, BranchAccounts
  <2>. QED
    BY <1>6, <2>4, <2>5, <2>6, <2>7, <2>8 DEF IfThenElseReply
<1>. QED
  BY <1>5, <1>6

\* WhileDoElse asks its condition in every tick and keeps the answer while it ticks.
LEMMA WhileDoElseAccounts ==
    ASSUME ExecInv, AnswerInv, NEW n \in Node, WhileDoElseTick(n) \/ WhileDoElseReply(n)
    PROVE  Accounts(n)
<1>. DEFINE j == frame[n].j
<1>1. /\ TypeOK /\ RunningReached /\ Kind[n] = "WhileDoElse" /\ Kind[n] \in BranchKinds
      /\ frame \in [Node -> Frame]
  BY ExecFacts DEF WhileDoElseTick, WhileDoElseReply, Ticking, Replied, BranchKinds, TypeOK,
     CallOK
<1>2. /\ Positions(n) = 1 .. Count(n) /\ Count(n) \in {2, 3} /\ 2 \in Positions(n)
      /\ 1 \in Positions(n)
  BY <1>1, BranchFacts
<1>3. ASSUME SameHeard(n), NEW k \in {1, 2, 3}, TickChild(n, k, 0),
             k = 2 => Heard(n, 1) = SUCCESS, k = 3 => Heard(n, 1) = FAILURE
      PROVE  Accounts(n)
  <2>1. pc' = "enter" /\ frame'[n].j = k
    BY <1>1, <1>3 DEF TickChild, Go
  <2>2. Heard(n, 1)' = Heard(n, 1)
    BY <1>2, <1>3, SameAnswers
  <2>3. Tally(n)'
    BY <1>1, <1>3, <2>1, <2>2 DEF Tally, ReactiveKinds, ParallelKinds
  <2>. QED
    BY <1>1, <2>1, <2>3, BranchAccounts
<1>4. CASE WhileDoElseTick(n)
  <2>1. SameHeard(n) /\ TickChild(n, 1, 0)
    BY <1>4 DEF WhileDoElseTick, SetRunning, SameHeard
  <2>. QED
    BY <1>3, <2>1
<1>5. CASE WhileDoElseReply(n)
  <2>1. pc = "reply" /\ cur \notin Roots /\ Parent[cur] = n
    BY <1>5 DEF WhileDoElseReply, Replied
  <2>2. /\ j \in Positions(n) /\ Children[n][j] = cur /\ ret # IDLE /\ ret \in NodeStatus
        /\ cur \in Kids(n)
    BY <1>1, <2>1, AtReply DEF WaitsFor
  <2>3. Heard(n, j) = ret
    BY <2>1, <2>2 DEF ExecInv, Real, Heard
  <2>4. /\ j = 2 => Heard(n, 1) = SUCCESS
        /\ j = 3 => Heard(n, 1) = FAILURE
    <3>1. cur \in Node /\ InCall /\ n \in Above[cur]
      BY <2>1, <2>2, KidFacts DEF InCall
    <3>. QED
      BY <1>1, <3>1 DEF AnswerInv, Tallies, Tally
  <2>5. SameHeard(n)
    <3>1. \A C \in SUBSET Kids(n) : \A m : ResetChildren(n, C, m) => Others(n)
      BY <1>1, ResetOthers
    <3>2. Keep => Others(n)
      BY KeepOthers
    <3>3. {Children[n][i] : i \in Positions(n) \cap {3}} \in SUBSET Kids(n)
          /\ {Children[n][2]} \in SUBSET Kids(n) /\ Kids(n) \in SUBSET Kids(n)
      BY <1>2 DEF Kids
    <3>4. Others(n)
      BY <1>5, <3>1, <3>2, <3>3 DEF WhileDoElseReply
    <3>. QED
      BY <3>4 DEF Others
  <2>6. CASE ret = RUNNING /\ Answer(n, RUNNING)
    <3>1. pc' = "ticked" /\ ret' = RUNNING
      BY <2>6 DEF Answer, Return, Go
    <3>2. j \in {1, 2, 3}
      BY <1>2, <2>2
    <3>3. Follows(n, ret)'
      BY <1>1, <2>2, <2>3, <2>4, <2>5, <2>6, <3>1, <3>2, BranchFollows
    <3>. QED
      BY <1>1, <3>1, <3>3, BranchAccounts
  <2>7. CASE j = 1 /\ \/ ret = SUCCESS /\ TickChild(n, 2, 0)
                      \/ ret = FAILURE /\ TickChild(n, 3, 0)
    BY <1>3, <2>3, <2>5, <2>7
  <2>8. CASE j = 1 /\ \/ ret = FAILURE /\ Count(n) = 2 /\ Answer(n, FAILURE)
                      \/ ret = SKIPPED /\ Answer(n, IDLE)
    <3>1. pc' = "ticked" /\ ret' = IF ret = FAILURE THEN FAILURE ELSE IDLE
      BY <2>8 DEF Answer, Return, Go
    <3>2. Follows(n, ret)'
      BY <1>1, <2>2, <2>3, <2>5, <2>8, <3>1, BranchFollows
    <3>. QED
      BY <1>1, <3>1, <3>2, BranchAccounts
  <2>9. CASE j > 1 /\ ret # RUNNING /\ Answer(n, ret)
    <3>1. pc' = "ticked" /\ ret' = ret
      BY <2>9 DEF Answer, Return, Go
    <3>2. j \in {2, 3}
      BY <1>2, <2>2, <2>9
    <3>3. Follows(n, ret)'
      BY <1>1, <2>2, <2>3, <2>4, <2>5, <3>1, <3>2, BranchFollows
    <3>. QED
      BY <1>1, <3>1, <3>3, BranchAccounts
  <2>. QED
    BY <1>5, <2>6, <2>7, <2>8, <2>9 DEF WhileDoElseReply
<1>. QED
  BY <1>4, <1>5


-------------------------------------------------------------------------------
(* Parallel and ParallelAll                                                *)

\* Sets of positions are finite.
LEMMA PositionSets ==
    ASSUME NEW n \in Node, NEW S \in SUBSET Positions(n)
    PROVE  /\ IsFiniteSet(S) /\ Cardinality(S) \in 0 .. Count(n)
           /\ Cardinality(S) = Count(n) => S = Positions(n)
           /\ \A T \in SUBSET S : Cardinality(T) \in Nat /\ Cardinality(T) <= Cardinality(S)
<1>1. Count(n) \in Nat /\ Positions(n) = 1 .. Count(n)
  BY TreeFacts
<1>2. IsFiniteSet(Positions(n)) /\ Cardinality(Positions(n)) = Count(n)
  BY <1>1, FS_Interval
<1>. QED
  BY <1>1, <1>2, FS_Subset, FS_CardinalityType

\* A position between two that are asked one after the other has been heard already.
LEMMA SkippedOver ==
    ASSUME NEW n \in Node, NEW j \in Positions(n) \cup {0},
           NEW i \in Positions(n) \cup {Count(n) + 1}, j < i,
           \A k \in Positions(n) : j < k /\ k < i => Heard(n, k) \in Completed
    PROVE  SkippedBefore(n, i) = SkippedBefore(n, j + 1)
<1>1. /\ j \in Nat /\ i \in Nat /\ Positions(n) = 1 .. Count(n) /\ Count(n) \in Nat
  BY TreeFacts
<1>2. \A k \in 1 .. i - 1 : k \in Positions(n) /\ (k \in 1 .. (j + 1) - 1 \/ (j < k /\ k < i))
  BY <1>1
<1>3. \A k \in 1 .. (j + 1) - 1 : k \in 1 .. i - 1
  BY <1>1
<1>4. \A k \in 1 .. i - 1 : Heard(n, k) = SKIPPED => k \in 1 .. (j + 1) - 1
  BY <1>2
<1>. QED
  BY <1>3, <1>4 DEF SkippedBefore

\* A parallel node keeps a list of what it has heard, and counts the skipped.
LEMMA ParallelAccounts ==
    ASSUME NEW n \in Node, Kind[n] \in ParallelKinds, SameHeard(n),
           ParallelLedger(n)',
           pc' = "enter" =>
               \E j \in Positions(n) :
                  /\ frame'[n].j = j /\ \A k \in 1 .. j - 1 : Heard(n, k) # IDLE
                  /\ frame'[n].skips = Cardinality(SkippedBefore(n, j)),
           pc' = "ticked" =>
               /\ Kind[n] = "Parallel" => ParallelContract(n, ret')
               /\ Kind[n] = "ParallelAll" => ParallelAllContract(n, ret')
               /\ ret' \notin {RUNNING, IDLE} => Done(mem'[n]) = {}
    PROVE  Accounts(n)
<1>1. /\ Kind[n] \notin LinearKinds \cup ReactiveKinds \cup BranchKinds \cup LeafKinds
      /\ Kind[n] # "IfThenElse" /\ Kind[n] # "WhileDoElse" /\ Kind[n] \notin Indexed \cup Counted
      /\ Kind[n] # "SequenceWithMemory"
  BY DEF LinearKinds, ReactiveKinds, ParallelKinds, BranchKinds, LeafKinds, Indexed, Counted
<1>2. Ledger(n)'
  BY <1>1 DEF Ledger
<1>3. pc' = "enter" => Tally(n)'
  <2>. SUFFICES ASSUME pc' = "enter" PROVE Tally(n)'
    OBVIOUS
  <2>1. PICK j \in Positions(n) :
           /\ frame'[n].j = j /\ \A k \in 1 .. j - 1 : Heard(n, k) # IDLE
           /\ frame'[n].skips = Cardinality(SkippedBefore(n, j))
    OBVIOUS
  <2>2. SkippedBefore(n, j)' = SkippedBefore(n, j)
    BY <2>1, SameAnswers
  <2>3. \A k \in 1 .. j - 1 : Heard(n, k)' # IDLE
    <3>1. \A k \in 1 .. j - 1 : k \in Positions(n)
      BY <2>1, Before
    <3>. QED
      BY <2>1, <3>1, SameAnswers
  <2>. QED
    BY <1>1, <2>1, <2>2, <2>3 DEF Tally, SkippedBefore
<1>4. pc' = "ticked" => StartsOver(n, ret)'
  BY <1>1 DEF StartsOver, Counts
<1>5. \A S : Among(n, S)' = Among(n, S)
  BY SameAnswers
<1>6. pc' = "ticked" => Follows(n, ret)'
  <2>1. pc' = "ticked" /\ Kind[n] = "Parallel" => ParallelContract(n, ret)'
    BY <1>5 DEF ParallelContract, Threshold, Count
  <2>2. pc' = "ticked" /\ Kind[n] = "ParallelAll" => ParallelAllContract(n, ret)'
    BY <1>5 DEF ParallelAllContract, Threshold, Count, Positions
  <2>. QED
    BY <1>1, <2>1, <2>2 DEF Follows, LinearKinds, ReactiveKinds
<1>. QED
  BY <1>1, <1>2, <1>3, <1>4, <1>6 DEF Accounts, NeverSkipped

\* tick() of a parallel node begins with its first child that has not completed.
LEMMA ParallelTickAccounts ==
    ASSUME ExecInv, AnswerInv, NEW n \in Node, NEW kinds \in SUBSET ParallelKinds,
           NEW required, ParallelTick(n, kinds, required)
    PROVE  Accounts(n)
<1>1. /\ TypeOK /\ Kind[n] \in ParallelKinds /\ frame \in [Node -> Frame]
  BY ExecFacts DEF ParallelTick, Ticking, TypeOK, CallOK
<1>2. ParallelLedger(n)
  BY <1>1 DEF AnswerInv, Ledgers, Ledger
<1>3. SameHeard(n) /\ mem'[n] = mem[n]
  BY DEF ParallelTick, Throw, SetRunning, SameHeard
<1>4. ParallelLedger(n)'
  BY <1>2, <1>3, SameAnswers DEF ParallelLedger, Threshold, Count
<1>5. CASE Throw
  <2>1. pc' = "rest"
    BY <1>5 DEF Throw, Unwind
  <2>. QED
    BY <1>1, <1>3, <1>4, <2>1, ParallelAccounts
<1>6. CASE TickFirst(n, Open(n, mem[n], 0), 0)
  <2>1. PICK i \in Open(n, mem[n], 0) :
           (\A k \in Open(n, mem[n], 0) : i <= k) /\ TickChild(n, i, 0)
    BY <1>6 DEF TickFirst
  <2>2. i \in Positions(n) /\ i \in Nat /\ 0 < i /\ Positions(n) = 1 .. Count(n) /\ Count(n) \in Nat
    BY <2>1, TreeFacts DEF Open
  <2>3. pc' = "enter" /\ frame'[n].j = i /\ frame'[n].skips = 0
    BY <1>1, <2>1 DEF TickChild, Go
  <2>4. ASSUME NEW k \in Positions(n), k < i
        PROVE  Heard(n, k) \in Completed
    <3>1. k \notin Open(n, mem[n], 0) /\ k \in Nat /\ k > 0
      BY <2>1, <2>2, <2>4
    <3>2. k \in Done(mem[n])
      BY <2>4, <3>1 DEF Open
    <3>. QED
      BY <1>2, <3>2 DEF ParallelLedger, Done, Among
  <2>5. SkippedBefore(n, i) = SkippedBefore(n, 0 + 1)
    BY <2>2, <2>4, SkippedOver
  <2>6. Cardinality(SkippedBefore(n, i)) = 0
    BY <2>5, NoneBefore
  <2>7. \A k \in 1 .. i - 1 : Heard(n, k) # IDLE
    BY <2>2, <2>4
  <2>. QED
    BY <1>1, <1>3, <1>4, <2>2, <2>3, <2>6, <2>7, ParallelAccounts
<1>. QED
  BY <1>5, <1>6 DEF ParallelTick


\* A parallel node when a child answers: its lists are what it has heard so far.
LEMMA ParallelHeard ==
    ASSUME ExecInv, AnswerInv, NEW n \in Node, Replied(n, ParallelKinds)
    PROVE  LET j == frame[n].j
               m == Collected(n)
           IN  /\ j \in Positions(n) /\ Heard(n, j) = ret
               /\ m.succeeded = Among(n, {SUCCESS}) /\ m.failed = Among(n, {FAILURE})
               /\ \A k \in 1 .. (j + 1) - 1 : Heard(n, k) # IDLE
               /\ SkippedNow(n) = Cardinality(SkippedBefore(n, j + 1))
               /\ Kind[n] = "Parallel" =>
                      Cardinality(m.failed) <= Threshold(n, FailLimit[n])
<1>. DEFINE j == frame[n].j
            m == Collected(n)
<1>1. /\ TypeOK /\ Kind[n] \in ParallelKinds /\ pc = "reply"
      /\ cur \notin Roots /\ Parent[cur] = n /\ mem[n] \in Memory
  BY ExecFacts DEF Replied, TypeOK, StateOK
<1>2. /\ j \in Positions(n) /\ j \notin Visited(n) /\ Children[n][j] = cur
      /\ ret # IDLE /\ ret \in NodeStatus /\ cur \in Kids(n)
  BY <1>1, AtReply DEF WaitsFor
<1>3. Heard(n, j) = ret
  BY <1>1, <1>2 DEF ExecInv, Real, Heard
<1>4. Visited(n) = Done(mem[n]) /\ Remembering(n) /\ ~Ends(n)
  BY <1>1, ParallelFacts DEF Remembering, ParallelKinds, Ends
<1>5. ParallelLedger(n)
  BY <1>1 DEF AnswerInv, Ledgers, Ledger
<1>6. Tally(n)
  <2>1. cur \in Node /\ InCall /\ n \in Above[cur]
    BY <1>1, <1>2, KidFacts DEF InCall
  <2>. QED
    BY <2>1 DEF AnswerInv, Tallies
<1>7. /\ m.succeeded = IF ret = SUCCESS THEN mem[n].succeeded \cup {j} ELSE mem[n].succeeded
      /\ m.failed = IF ret = FAILURE THEN mem[n].failed \cup {j} ELSE mem[n].failed
  BY <1>1, ZenonT(40) DEF Collected, Memory
<1>8. \A i \in Positions(n) : Heard(n, i) \in Completed => i \in Done(mem[n]) \/ i = j
  <2>. SUFFICES ASSUME NEW i \in Positions(n), Heard(n, i) \in Completed
                PROVE  i \in Done(mem[n]) \/ i = j
    OBVIOUS
  <2>1. i \in Visited(n) \/ Children[n][i] = cur
    BY <1>1, <1>4 DEF ExecInv, Told, Retried, Heard, ParallelKinds
  <2>. QED
    BY <1>2, <1>4, <2>1, OnePosition
<1>9. m.succeeded = Among(n, {SUCCESS})
  BY <1>2, <1>3, <1>5, <1>7, <1>8 DEF ParallelLedger, Among, Done
<1>10. m.failed = Among(n, {FAILURE})
  BY <1>2, <1>3, <1>5, <1>7, <1>8 DEF ParallelLedger, Among, Done
<1>11. \A k \in 1 .. (j + 1) - 1 : Heard(n, k) # IDLE
  BY <1>1, <1>2, <1>3, <1>6, Before DEF Tally
<1>12. SkippedNow(n) = Cardinality(SkippedBefore(n, j + 1))
  BY <1>1, <1>2, <1>3, <1>6, SkippedStep DEF SkippedNow, Tally
<1>13. Kind[n] = "Parallel" => Cardinality(m.failed) <= Threshold(n, FailLimit[n])
  <2>. SUFFICES ASSUME Kind[n] = "Parallel"
                PROVE  Cardinality(m.failed) <= Threshold(n, FailLimit[n])
    OBVIOUS
  <2>1. Threshold(n, FailLimit[n]) \in Int
    BY LimitAssumption, TreeFacts DEF Threshold
  <2>2. mem[n].failed \in SUBSET Positions(n)
    BY <1>5 DEF ParallelLedger, Among
  <2>3. IsFiniteSet(mem[n].failed) /\ Cardinality(mem[n].failed) \in Nat
    BY <2>2, TreeFacts, PositionSets
  <2>4. PICK F : F = mem[n].failed
    OBVIOUS
  <2>5. IsFiniteSet(F) /\ Cardinality(F) \in Nat
    BY <2>3, <2>4
  <2>6. Cardinality(F \cup {j}) \in {Cardinality(F), Cardinality(F) + 1}
    BY <2>5, FS_AddElement
  <2>7. m.failed = F \/ m.failed = F \cup {j}
    BY <1>7, <2>4
  <2>8. Cardinality(F) < Threshold(n, FailLimit[n])
    BY <1>5, <2>4 DEF ParallelLedger
  <2>9. Cardinality(m.failed) \in {Cardinality(F), Cardinality(F) + 1}
    BY <2>6, <2>7
  <2>. HIDE DEF m
  <2>. QED
    BY <2>1, <2>5, <2>8, <2>9
<1>. QED
  BY <1>2, <1>3, <1>9, <1>10, <1>11, <1>12, <1>13

\* The next child of a parallel node that has not completed.
LEMMA ParallelNextAccounts ==
    ASSUME ExecInv, AnswerInv, NEW n \in Node, Replied(n, ParallelKinds),
           Remember(n, Collected(n)),
           TickFirst(n, Open(n, Collected(n), frame[n].j), SkippedNow(n)),
           ParallelLedger(n)'
    PROVE  Accounts(n)
<1>1. /\ TypeOK /\ Kind[n] \in ParallelKinds /\ frame \in [Node -> Frame]
  BY ExecFacts DEF Replied, TypeOK, CallOK
<1>2. PICK j : j = frame[n].j
  OBVIOUS
<1>3. PICK m : m = Collected(n)
  OBVIOUS
<1>4. PICK skips : skips = SkippedNow(n)
  OBVIOUS
<1>5. /\ j \in Positions(n) /\ \A k \in 1 .. (j + 1) - 1 : Heard(n, k) # IDLE
      /\ m.succeeded = Among(n, {SUCCESS}) /\ m.failed = Among(n, {FAILURE})
      /\ skips = Cardinality(SkippedBefore(n, j + 1))
  BY <1>2, <1>3, <1>4, ParallelHeard
<1>6. SameHeard(n) /\ pc' = "enter"
  BY DEF Remember, SameHeard, TickFirst, TickChild, Go
<1>7. PICK i \in Open(n, m, j) :
         (\A k \in Open(n, m, j) : i <= k) /\ TickChild(n, i, skips)
  BY <1>2, <1>3, <1>4 DEF TickFirst
<1>8. /\ i \in Positions(n) /\ i \in Nat /\ j \in Nat /\ j < i /\ Positions(n) = 1 .. Count(n)
      /\ Count(n) \in Nat
  BY <1>5, <1>7, TreeFacts DEF Open
<1>9. frame'[n].j = i /\ frame'[n].skips = skips
  BY <1>1, <1>7 DEF TickChild, Go
<1>10. ASSUME NEW k \in Positions(n), j < k, k < i
       PROVE  Heard(n, k) \in Completed
  <2>1. k \notin Open(n, m, j) /\ k \in Nat
    BY <1>7, <1>8, <1>10
  <2>2. k \in Done(m)
    BY <1>10, <2>1 DEF Open
  <2>. QED
    BY <1>5, <2>2 DEF Done, Among
<1>11. SkippedBefore(n, i) = SkippedBefore(n, j + 1)
  BY <1>5, <1>8, <1>10, SkippedOver
<1>12. \A k \in 1 .. i - 1 : Heard(n, k) # IDLE
  <2>1. \A k \in 1 .. i - 1 : k \in Positions(n) /\ (k \in 1 .. (j + 1) - 1 \/ (j < k /\ k < i))
    BY <1>8
  <2>. QED
    BY <1>5, <1>10, <2>1
<1>. QED
  BY <1>1, <1>5, <1>6, <1>8, <1>9, <1>11, <1>12, ParallelAccounts

\* No child is left to ask: all have been heard.
LEMMA AllHeard ==
    ASSUME ExecInv, AnswerInv, NEW n \in Node, Replied(n, ParallelKinds),
           Open(n, Collected(n), frame[n].j) = {}
    PROVE  /\ \A k \in Positions(n) : Heard(n, k) # IDLE
           /\ SkippedNow(n) = Cardinality(Among(n, {SKIPPED}))
<1>1. PICK j : j = frame[n].j
  OBVIOUS
<1>2. PICK m : m = Collected(n)
  OBVIOUS
<1>3. /\ j \in Positions(n) /\ \A k \in 1 .. (j + 1) - 1 : Heard(n, k) # IDLE
      /\ m.succeeded = Among(n, {SUCCESS}) /\ m.failed = Among(n, {FAILURE})
      /\ SkippedNow(n) = Cardinality(SkippedBefore(n, j + 1))
  BY <1>1, <1>2, ParallelHeard
<1>4. j \in Nat /\ Positions(n) = 1 .. Count(n) /\ Count(n) \in Nat
  BY <1>3, TreeFacts
<1>5. ASSUME NEW k \in Positions(n), j < k
      PROVE  Heard(n, k) \in Completed
  <2>1. k \in Done(m)
    BY <1>1, <1>2, <1>5 DEF Open
  <2>. QED
    BY <1>3, <2>1 DEF Done, Among
<1>6. \A k \in Positions(n) : k \in 1 .. (j + 1) - 1 \/ j < k
  BY <1>4
<1>7. \A k \in Positions(n) : Heard(n, k) # IDLE
  BY <1>3, <1>5, <1>6
<1>8. SkippedBefore(n, Count(n) + 1) = SkippedBefore(n, j + 1)
  <2>1. PICK i : i = Count(n) + 1
    OBVIOUS
  <2>2. i \in Positions(n) \cup {Count(n) + 1} /\ j < i
    BY <1>3, <1>4, <2>1
  <2>3. \A k \in Positions(n) : j < k /\ k < i => Heard(n, k) \in Completed
    BY <1>5
  <2>. QED
    BY <1>3, <2>1, <2>2, <2>3, SkippedOver
<1>. QED
  BY <1>3, <1>7, <1>8, SkippedAll


\* An answer for good: nothing is left of the lists.
LEMMA ParallelEnds ==
    ASSUME ExecInv, AnswerInv, NEW n \in Node, Accountable(n), Replied(n, ParallelKinds),
           NEW s, ResetChildren(n, Kids(n), FreshMem(n)), Answer(n, s),
           Kind[n] = "Parallel" => ParallelContract(n, s),
           Kind[n] = "ParallelAll" => ParallelAllContract(n, s)
    PROVE  Accounts(n)
<1>1. /\ TypeOK /\ RunningReached /\ Kind[n] \in ParallelKinds
  BY ExecFacts DEF Replied
<1>2. mem'[n] = FreshMem(n) /\ Others(n)
  BY <1>1, ResetOthers
<1>3. SameHeard(n)
  BY <1>2 DEF Others
<1>4. ParallelLedger(n)'
  BY <1>1, <1>2, FreshLedger DEF Ledger
<1>5. pc' = "ticked" /\ ret' = s
  BY DEF Answer, Return, Go
<1>6. Done(mem'[n]) = {}
  BY <1>2 DEF Done, FreshMem
<1>. QED
  BY <1>1, <1>3, <1>4, <1>5, <1>6, ParallelAccounts

\* RUNNING, or SKIPPED when every child was: the lists stay.
LEMMA ParallelKeeps ==
    ASSUME ExecInv, AnswerInv, NEW n \in Node, Replied(n, ParallelKinds),
           Remember(n, Collected(n)), NEW s \in {RUNNING, SKIPPED}, Answer(n, s),
           s = SKIPPED => Among(n, {SKIPPED}) = Positions(n),
           Kind[n] = "Parallel" => ParallelContract(n, s),
           Kind[n] = "ParallelAll" => ParallelAllContract(n, s),
           ParallelLedger(n)'
    PROVE  Accounts(n)
<1>1. /\ TypeOK /\ RunningReached /\ Kind[n] \in ParallelKinds
  BY ExecFacts DEF Replied
<1>2. mem'[n] = Collected(n) /\ Others(n)
  BY <1>1, RememberOthers
<1>3. SameHeard(n)
  BY <1>2 DEF Others
<1>4. pc' = "ticked" /\ ret' = s
  BY DEF Answer, Return, Go
<1>5. Collected(n).succeeded = Among(n, {SUCCESS}) /\ Collected(n).failed = Among(n, {FAILURE})
  BY ParallelHeard
<1>6. s = SKIPPED => Done(mem'[n]) = {}
  BY <1>2, <1>5 DEF Done, Among
<1>. QED
  BY <1>1, <1>3, <1>4, <1>6, ParallelAccounts

\* The lists after a child has answered agree with what the node has heard.
LEMMA CollectedLedger ==
    ASSUME ExecInv, AnswerInv, NEW n \in Node, Replied(n, ParallelKinds),
           Remember(n, Collected(n)),
           Kind[n] = "Parallel" => ~ParallelFails(n, Collected(n))
    PROVE  ParallelLedger(n)'
<1>1. mem'[n] = Collected(n) /\ Others(n)
  BY ExecFacts, RememberOthers
<1>2. SameHeard(n)
  BY <1>1 DEF Others
<1>3. PICK m : m = Collected(n)
  OBVIOUS
<1>4. /\ m.succeeded = Among(n, {SUCCESS}) /\ m.failed = Among(n, {FAILURE})
      /\ Kind[n] = "Parallel" => Cardinality(m.failed) <= Threshold(n, FailLimit[n])
  BY <1>3, ParallelHeard
<1>5. \A S : Among(n, S)' = Among(n, S)
  BY <1>2, SameAnswers
<1>6. Threshold(n, FailLimit[n]) \in Int
  BY LimitAssumption, TreeFacts DEF Threshold
<1>7. Cardinality(m.failed) \in Nat
  BY <1>4, PositionSets DEF Among
<1>8. Kind[n] = "Parallel" => Cardinality(m.failed) < Threshold(n, FailLimit[n])
  BY <1>3, <1>4, <1>6, <1>7 DEF ParallelFails
<1>. QED
  BY <1>1, <1>3, <1>4, <1>5, <1>8 DEF ParallelLedger, Threshold, Count

\* Parallel decides after each child.
LEMMA ParallelReplyAccounts ==
    ASSUME ExecInv, AnswerInv, NEW n \in Node, Accountable(n), ParallelReply(n)
    PROVE  Accounts(n)
<1>1. PICK m : m = Collected(n)
  OBVIOUS
<1>2. PICK skips : skips = SkippedNow(n)
  OBVIOUS
<1>3. PICK left : left = Open(n, m, frame[n].j)
  OBVIOUS
<1>4. Kind[n] = "Parallel" /\ Kind[n] # "ParallelAll" /\ Replied(n, ParallelKinds)
  BY DEF ParallelReply, Replied, ParallelKinds
<1>5. /\ frame[n].j \in Positions(n)
      /\ m.succeeded = Among(n, {SUCCESS}) /\ m.failed = Among(n, {FAILURE})
      /\ skips = Cardinality(SkippedBefore(n, frame[n].j + 1))
      /\ Cardinality(m.failed) <= Threshold(n, FailLimit[n])
  BY <1>1, <1>2, <1>4, ParallelHeard
<1>6. /\ Threshold(n, FailLimit[n]) \in Int /\ Threshold(n, Limit[n]) \in Int
      /\ Limit[n] \in Int /\ Count(n) \in Nat
  BY LimitAssumption, TreeFacts DEF Threshold
<1>7. /\ Cardinality(m.succeeded) \in Nat /\ Cardinality(m.failed) \in Nat
      /\ Cardinality(Among(n, {SKIPPED})) \in 0 .. Count(n)
  BY <1>5, PositionSets DEF Among
<1>8. skips \in Nat /\ skips <= Cardinality(Among(n, {SKIPPED}))
  <2>1. PICK i : i = frame[n].j + 1
    OBVIOUS
  <2>2. \A k \in 1 .. i - 1 : k \in Positions(n)
    BY <1>5, <2>1, Before
  <2>3. SkippedBefore(n, i) \in SUBSET Among(n, {SKIPPED})
    BY <2>2 DEF SkippedBefore, Among
  <2>. QED
    BY <1>5, <2>1, <2>3, PositionSets DEF Among
<1>9. PICK needed : needed = Threshold(n, Limit[n])
  OBVIOUS
<1>10. /\ ParallelSucceeds(n, m, skips) <=>
             \/ Cardinality(m.succeeded) >= needed
             \/ Limit[n] < 0 /\ Cardinality(m.succeeded) + skips >= needed
       /\ ParallelFails(n, m) <=>
             \/ Count(n) - Cardinality(m.failed) < needed
             \/ Cardinality(m.failed) = Threshold(n, FailLimit[n])
  BY <1>9 DEF ParallelSucceeds, ParallelFails
<1>11. CASE /\ ParallelSucceeds(n, m, skips)
            /\ ResetChildren(n, Kids(n), FreshMem(n)) /\ Answer(n, SUCCESS)
  <2>1. ParallelContract(n, SUCCESS)
    BY <1>5, <1>6, <1>7, <1>8, <1>9, <1>10, <1>11 DEF ParallelContract
  <2>. QED
    BY <1>4, <1>11, <2>1, ParallelEnds
<1>12. CASE /\ ~ParallelSucceeds(n, m, skips) /\ ParallelFails(n, m)
            /\ ResetChildren(n, Kids(n), FreshMem(n)) /\ Answer(n, FAILURE)
  <2>1. ParallelContract(n, FAILURE)
    BY <1>5, <1>6, <1>7, <1>9, <1>10, <1>12 DEF ParallelContract
  <2>. QED
    BY <1>4, <1>12, <2>1, ParallelEnds
<1>13. CASE /\ ~ParallelSucceeds(n, m, skips) /\ ~ParallelFails(n, m) /\ Remember(n, m)
  <2>1. ParallelLedger(n)'
    BY <1>1, <1>4, <1>13, CollectedLedger
  <2>2. CASE TickFirst(n, left, skips)
    BY <1>1, <1>2, <1>3, <1>4, <1>13, <2>1, <2>2, ParallelNextAccounts
  <2>3. CASE left = {} /\ Answer(n, IF skips = Count(n) THEN SKIPPED ELSE RUNNING)
    <3>1. skips = Cardinality(Among(n, {SKIPPED}))
      BY <1>1, <1>2, <1>3, <1>4, <2>3, AllHeard
    <3>2. skips = Count(n) => Among(n, {SKIPPED}) = Positions(n)
      BY <3>1, SkippedAll
    <3>3. PICK s \in {RUNNING, SKIPPED} : Answer(n, s) /\ (s = SKIPPED => skips = Count(n))
      BY <2>3
    <3>4. ParallelContract(n, s)
      BY <1>5, <1>6, <1>7, <1>9, <1>10, <1>13, <3>1, <3>3 DEF ParallelContract
    <3>. QED
      BY <1>1, <1>4, <1>13, <2>1, <3>2, <3>3, <3>4, ParallelKeeps
  <2>4. ParallelReply(n) /\ ~ParallelSucceeds(n, m, skips) /\ ~ParallelFails(n, m) =>
          IF left # {} THEN TickFirst(n, left, skips)
          ELSE Answer(n, IF skips = Count(n) THEN SKIPPED ELSE RUNNING)
    BY <1>1, <1>2, <1>3 DEF ParallelReply
  <2>. QED
    BY <1>13, <2>2, <2>3, <2>4
<1>. QED
  BY <1>1, <1>2, <1>11, <1>12, <1>13 DEF ParallelReply

\* ParallelAll decides after the last one.
LEMMA ParallelAllReplyAccounts ==
    ASSUME ExecInv, AnswerInv, NEW n \in Node, Accountable(n), ParallelAllReply(n)
    PROVE  Accounts(n)
<1>1. PICK m : m = Collected(n)
  OBVIOUS
<1>2. PICK skips : skips = SkippedNow(n)
  OBVIOUS
<1>3. PICK left : left = Open(n, m, frame[n].j)
  OBVIOUS
<1>4. Kind[n] = "ParallelAll" /\ Kind[n] # "Parallel" /\ Replied(n, ParallelKinds)
  BY DEF ParallelAllReply, Replied, ParallelKinds
<1>5. m.succeeded = Among(n, {SUCCESS}) /\ m.failed = Among(n, {FAILURE})
  BY <1>1, <1>4, ParallelHeard
<1>6. Remember(n, m) => ParallelLedger(n)'
  BY <1>1, <1>4, CollectedLedger
<1>7. CASE left # {} /\ Remember(n, m) /\ TickFirst(n, left, skips)
  BY <1>1, <1>2, <1>3, <1>4, <1>6, <1>7, ParallelNextAccounts
<1>8. ASSUME left = {}
      PROVE  /\ \A k \in Positions(n) : Heard(n, k) # IDLE
             /\ skips = Cardinality(Among(n, {SKIPPED}))
             /\ skips = Count(n) => Among(n, {SKIPPED}) = Positions(n)
             /\ skips + Cardinality(Done(m)) \in Nat /\ Count(n) \in Nat
             /\ skips + Cardinality(Done(m)) >= Count(n) <=>
                   Among(n, Completed \cup {SKIPPED}) = Positions(n)
  <2>1. /\ \A k \in Positions(n) : Heard(n, k) # IDLE
        /\ skips = Cardinality(Among(n, {SKIPPED}))
    BY <1>1, <1>2, <1>3, <1>4, <1>8, AllHeard
  <2>2. PICK S : S = Among(n, {SKIPPED})
    OBVIOUS
  <2>3. PICK D : D = Done(m)
    OBVIOUS
  <2>4. PICK U : U = Among(n, Completed \cup {SKIPPED})
    OBVIOUS
  <2>5. S \in SUBSET Positions(n) /\ D \in SUBSET Positions(n) /\ U \in SUBSET Positions(n)
    BY <1>5, <2>2, <2>3, <2>4 DEF Done, Among
  <2>6. U = S \cup D /\ S \cap D = {}
    BY <1>5, <2>2, <2>3, <2>4 DEF Done, Among
  <2>7. /\ IsFiniteSet(S) /\ IsFiniteSet(D) /\ Cardinality(S) \in Nat /\ Cardinality(D) \in Nat
        /\ Cardinality(U) \in 0 .. Count(n) /\ (Cardinality(U) = Count(n) => U = Positions(n))
        /\ Count(n) \in Nat
    BY <2>5, TreeFacts, PositionSets
  <2>8. Cardinality(U) = Cardinality(S) + Cardinality(D)
    <3>1. Cardinality(S \cap D) = 0
      BY <2>6, FS_EmptySet
    <3>2. Cardinality(S \cup D) = Cardinality(S) + Cardinality(D) - Cardinality(S \cap D)
      BY <2>7, FS_Union
    <3>. QED
      BY <2>6, <2>7, <3>1, <3>2
  <2>9. Cardinality(Positions(n)) = Count(n)
    BY TreeFacts, FS_Interval
  <2>. QED
    BY <2>1, <2>2, <2>3, <2>4, <2>7, <2>8, <2>9, SkippedAll
<1>9. CASE /\ left = {} /\ skips # Count(n) /\ skips + Cardinality(Done(m)) >= Count(n)
           /\ ResetChildren(n, Kids(n), FreshMem(n))
           /\ Answer(n, IF Cardinality(m.failed) >= Threshold(n, Limit[n])
                        THEN FAILURE ELSE SUCCESS)
  <2>1. PICK s : s = IF Cardinality(m.failed) >= Threshold(n, Limit[n]) THEN FAILURE ELSE SUCCESS
    OBVIOUS
  <2>2. Answer(n, s)
    BY <1>9, <2>1
  <2>3. ParallelAllContract(n, s)
    BY <1>5, <1>8, <1>9, <2>1 DEF ParallelAllContract
  <2>. QED
    BY <1>4, <1>9, <2>2, <2>3, ParallelEnds
<1>10. CASE /\ left = {} /\ ~(skips # Count(n) /\ skips + Cardinality(Done(m)) >= Count(n))
            /\ Remember(n, m) /\ Answer(n, IF skips = Count(n) THEN SKIPPED ELSE RUNNING)
  <2>1. PICK s \in {RUNNING, SKIPPED} :
           Answer(n, s) /\ (s = SKIPPED <=> skips = Count(n))
    BY <1>10
  <2>2. s = SKIPPED => Among(n, {SKIPPED}) = Positions(n)
    BY <1>8, <1>10, <2>1
  <2>3. s = RUNNING => Among(n, {RUNNING}) # {}
    <3>. SUFFICES ASSUME s = RUNNING PROVE Among(n, {RUNNING}) # {}
      OBVIOUS
    <3>1. Among(n, Completed \cup {SKIPPED}) # Positions(n)
      BY <1>8, <1>10, <2>1
    <3>2. PICK k \in Positions(n) : Heard(n, k) \notin Completed \cup {SKIPPED}
      BY <3>1 DEF Among
    <3>3. Heard(n, k) \in NodeStatus /\ Heard(n, k) # IDLE
      BY <1>8, <1>10, <3>2, ExecFacts, TreeFacts DEF TypeOK, StateOK, Heard
    <3>. QED
      BY <3>2, <3>3 DEF Among
  <2>4. ParallelAllContract(n, s)
    BY <2>1, <2>2, <2>3 DEF ParallelAllContract
  <2>. QED
    BY <1>1, <1>4, <1>6, <1>10, <2>1, <2>2, <2>4, ParallelKeeps
<1>. QED
  BY <1>1, <1>2, <1>3, <1>7, <1>9, <1>10 DEF ParallelAllReply



-------------------------------------------------------------------------------
(* Every class of node                                                     *)

\* tick() of a node that counts its skipped children begins with a child.
LEMMA CountedTicks ==
    ASSUME NEW n \in Node, Kind[n] \in Counted, pc = "tick",
           LeafTick(n) \/ ControlTick(n) \/ DecoratorTick(n)
    PROVE  pc' = "enter"
<1>1. /\ Kind[n] \in {"Sequence", "AsyncSequence", "Fallback", "AsyncFallback"}
      /\ Kind[n] \notin LeafKinds \cup DecoratorKinds
  BY DEF Counted, LinearKinds, LeafKinds, DecoratorKinds, UpdatedKinds
<1>2. ~LeafTick(n)
  BY <1>1 DEF LeafTick, SyncTick, SimpleActionTick, StatefulTick, Ticking, LeafKinds
<1>3. ~DecoratorTick(n)
  BY <1>1 DEF DecoratorTick, TranslatorTick, InverterReply, ForceReply, KeepRunningReply,
     SubTreeTick, SubTreeReply, SimpleDecoratorTick, SimpleDecoratorReply,
     RepeatTick, RepeatReply, RetryTick, RetryReply, RunOnceTick, RunOnceReply,
     PreconditionTick, PreconditionReply, UpdatedTick, UpdatedReply, LoopTick, LoopReply,
     Ticking, Replied, Translators, DecoratorKinds, UpdatedKinds
<1>4. SequenceTick(n) \/ FallbackTick(n)
  BY <1>1, <1>2, <1>3 DEF ControlTick, SequenceReply, FallbackReply, MemoryTick, MemoryReply,
     LinearTick, ReactiveSequenceTick, ReactiveSequenceReply, ReactiveFallbackTick,
     ReactiveFallbackReply, ReactiveTick, ReactiveReply, ParallelTick, ParallelReply,
     ParallelAllReply, IfThenElseTick, IfThenElseReply, WhileDoElseTick, WhileDoElseReply,
     SwitchTick, SwitchReply, Ticking, Replied
<1>. QED
  BY <1>4 DEF SequenceTick, FallbackTick, LinearTick, TickChild, Go

\* Every class of ControlNodes accounts for its answer.
LEMMA ControlAccounts ==
    ASSUME ExecInv, AnswerInv, NEW n \in Node, Accountable(n), ControlTick(n)
    PROVE  Accounts(n)
<1>1. CASE SequenceTick(n) \/ FallbackTick(n) \/ MemoryTick(n)
  <2>1. /\ {"Sequence", "AsyncSequence"} \in SUBSET LinearKinds
        /\ {"Fallback", "AsyncFallback"} \in SUBSET LinearKinds
        /\ {"SequenceWithMemory"} \in SUBSET LinearKinds
    BY DEF LinearKinds
  <2>. QED
    BY <1>1, <2>1, LinearTickAccounts DEF SequenceTick, FallbackTick, MemoryTick
<1>2. CASE SequenceReply(n) \/ FallbackReply(n) \/ MemoryReply(n)
  BY <1>2, LinearReplyAccounts
<1>3. /\ {"ReactiveSequence"} \in SUBSET ReactiveKinds
      /\ {"ReactiveFallback"} \in SUBSET ReactiveKinds
  BY DEF ReactiveKinds
<1>4. CASE ReactiveSequenceTick(n) \/ ReactiveFallbackTick(n)
  BY <1>3, <1>4, ReactiveTickAccounts DEF ReactiveSequenceTick, ReactiveFallbackTick
<1>5. CASE ReactiveSequenceReply(n)
  <2>1. Stop(n) = FAILURE
    BY <1>5 DEF ReactiveSequenceReply, ReactiveReply, Replied, Stop
  <2>. QED
    BY <1>3, <1>5, <2>1, ReactiveReplyAccounts DEF ReactiveSequenceReply
<1>6. CASE ReactiveFallbackReply(n)
  <2>1. Stop(n) = SUCCESS
    BY <1>6 DEF ReactiveFallbackReply, ReactiveReply, Replied, Stop
  <2>. QED
    BY <1>3, <1>6, <2>1, ReactiveReplyAccounts DEF ReactiveFallbackReply
<1>7. CASE \/ ParallelTick(n, {"Parallel"}, {Limit[n], FailLimit[n]}) \/ ParallelReply(n)
           \/ ParallelTick(n, {"ParallelAll"}, {Limit[n]}) \/ ParallelAllReply(n)
  <2>1. {"Parallel"} \in SUBSET ParallelKinds /\ {"ParallelAll"} \in SUBSET ParallelKinds
    BY DEF ParallelKinds
  <2>. QED
    BY <1>7, <2>1, ParallelTickAccounts, ParallelReplyAccounts, ParallelAllReplyAccounts
<1>. QED
  BY <1>1, <1>2, <1>4, <1>5, <1>6, <1>7, IfThenElseAccounts, WhileDoElseAccounts,
     DecoratorAccounts DEF ControlTick

\* tick() of any node keeps the invariant.
LEMMA TickAnswers ==
    ASSUME ExecInv, AnswerInv, CountersReset', \A x \in Node : Accountable(x), TypeOK',
           NEW n \in Node, LeafTick(n) \/ ControlTick(n) \/ DecoratorTick(n)
    PROVE  AnswerInv'
<1>1. OnCallOf(n) /\ Own(n)
  BY LeafOwn, ControlOwn, DecoratorOwn
<1>2. Accounts(n)
  BY LeafAccounts, ControlAccounts, DecoratorAccounts
<1>. QED
  BY <1>1, <1>2, CountedTicks, AccountsKept


-------------------------------------------------------------------------------
(* executeTick() around tick(), and the calls of the tree                  *)

\* Nothing changes but the place of the call, and the status of a leaf or a root.
LEMMA QuietAnswers ==
    ASSUME ExecInv, AnswerInv, mem' = mem, heard' = heard,
           \A x \in Node : status'[x] \in {status[x], IDLE}
                           \/ (status'[x] = RUNNING /\ Kind[x] \in LeafKinds),
           pc = "ticked" => ret \in {IDLE, RUNNING},
           pc' # "ticked", Blank', WasReset',
           pc' = "preempted" => ret' # RUNNING /\ (NeverSkipped(cur') => ret' # SKIPPED),
           pc' # "reply",
           InCall' => cur' = cur /\ frame' = frame /\ (InCall \/ cur \in Roots)
    PROVE  AnswerInv'
<1>1. TypeOK /\ \A x \in Node : ~Ends(x)
  BY ExecFacts DEF Ends
<1>2. \A x \in Node : SameHeard(x) /\ mem'[x] = mem[x]
  BY DEF SameHeard
<1>3. Ledgers'
  <2>. SUFFICES ASSUME NEW x \in Node PROVE Ledger(x)'
    BY DEF Ledgers
  <2>1. Ledger(x)
    BY DEF AnswerInv, Ledgers
  <2>2. Counts(x) /\ status'[x] = RUNNING => status[x] = RUNNING
    BY DEF Counts, Counted, LinearKinds, LeafKinds
  <2>. QED
    BY <1>1, <1>2, <2>1, <2>2, SameLedger
<1>4. Tallies'
  <2>. SUFFICES ASSUME InCall', NEW a \in Above[cur] PROVE Tally(a)'
    BY DEF Tallies
  <2>1. cur \in Node /\ a \in Node /\ InCall
    BY <1>1, AboveFacts, RootFacts DEF TypeOK, CallOK
  <2>2. Tally(a) /\ frame[a].j \in Positions(a)
    BY <2>1 DEF AnswerInv, Tallies, ExecInv, AtChild, WaitsFor
  <2>. QED
    BY <1>2, <2>1, <2>2, SameTally
<1>5. Unskipped'
  <2>1. \A c \in Node : NeverSkipped(c) => status'[c] # SKIPPED /\ heard'[c] # SKIPPED
    BY DEF AnswerInv, Unskipped
  <2>. QED
    BY <2>1 DEF Unskipped, NeverSkipped
<1>6. AnswersFollowChildren' /\ Working'
  BY DEF AnswersFollowChildren, Working
<1>. QED
  BY <1>3, <1>4, <1>5, <1>6 DEF AnswerInv

\* A pre-condition or callback answers in place of tick(), or tick() is called.
LEMMA EnterAnswers ==
    ASSUME ExecInv, AnswerInv, \A x \in Node : Accountable(x), NEW n \in Node,
           PreConditionAnswers(n) \/ PreTickSubstitutes(n) \/ CallTick(n)
    PROVE  AnswerInv'
<1>1. /\ pc = "enter" /\ cur = n /\ cur' = n /\ frame' = frame
      /\ status' = status /\ mem' = mem /\ heard' = heard
      /\ pc' \in {"preempted", "tick"}
  BY DEF PreConditionAnswers, PreTickSubstitutes, CallTick, Go, Keep
<1>2. CASE PreConditionAnswers(n)
  <2>1. PICK s \in PreOutcomes(n) : pc' = "preempted" /\ ret' = s
    BY <1>2 DEF PreConditionAnswers, Go
  <2>2. status[n] \in {IDLE, SKIPPED}
    BY <1>2 DEF PreConditionAnswers
  <2>3. s \in {FAILURE, SUCCESS, SKIPPED}
    BY <2>1 DEF PreOutcomes
  <2>4. NeverSkipped(n) => s # SKIPPED
    BY <2>1 DEF PreOutcomes, NeverSkipped
  <2>5. Kind[n] \in LinearKinds \cup ParallelKinds \cup {"IfThenElse"} => Restarted(n)
    BY <1>1, <2>2 DEF ExecInv, FreshIdle, Accountable
  <2>6. Kind[n] = "SequenceWithMemory" => s = FAILURE
    <3>1. Kind[n] = "SequenceWithMemory" => PreConds[n] \subseteq {"FAILURE_IF"}
      BY DEF Accountable
    <3>. QED
      BY <2>1, <3>1 DEF PreOutcomes
  <2>7. StartsOver(n, s)'
    BY <1>1, <2>2, <2>5, <2>6 DEF StartsOver, Retried, Restarted, Indexed, LinearKinds,
       ParallelKinds, Done
  <2>8. Blank'
    BY <1>1, <2>1, <2>7 DEF Blank, StartsOver
  <2>9. WasReset'
    BY <2>1 DEF WasReset
  <2>. QED
    BY <1>1, <2>1, <2>3, <2>4, <2>8, <2>9, QuietAnswers DEF InCall
<1>3. CASE PreTickSubstitutes(n)
  <2>1. n \in PreTick /\ pc' = "preempted" /\ ret' \in Completed
    BY <1>3 DEF PreTickSubstitutes, Go
  <2>2. Kind[n] \notin LinearKinds \cup ParallelKinds \cup {"IfThenElse"}
    BY <2>1 DEF Accountable, Free
  <2>3. Blank'
    BY <1>1, <2>2 DEF Blank, StartsOver, Indexed, Counts, Counted, LinearKinds
  <2>4. WasReset'
    BY <2>1 DEF WasReset
  <2>. QED
    BY <1>1, <2>1, <2>3, <2>4, QuietAnswers DEF InCall
<1>4. CASE CallTick(n)
  <2>1. pc' = "tick" /\ ret' = IDLE
    BY <1>4 DEF CallTick, Go
  <2>2. WasReset' /\ Blank'
    BY <1>1, <2>1 DEF AnswerInv, WasReset, Blank
  <2>. QED
    BY <1>1, <2>1, <2>2, QuietAnswers DEF InCall
<1>. QED
  BY <1>2, <1>3, <1>4

\* A halt at the node being entered or of the whole tree.
LEMMA HaltAnswers ==
    ASSUME ExecInv, AnswerInv, \A x \in Node : Accountable(x),
           NEW H \in SUBSET Node, NEW R \in SUBSET Node, HaltTrace(H, R), mem' = MemAfter(H),
           pc \notin {"ticked", "reply"}, pc' \in {"preempted", "rest", "halting"},
           Blank', pc' = "preempted" => ret' # RUNNING /\ ~NeverSkipped(cur'),
           InCall' =>
               /\ InCall /\ cur' = cur /\ frame' = frame
               /\ \A a \in Above[cur] : a \notin H
    PROVE  AnswerInv'
<1>1. TypeOK /\ \A x \in Node : ~Ends(x)
  BY ExecFacts DEF Ends
<1>2. \A x \in Node : Moved(x) /\ status'[x] \in {IDLE, status[x]} /\ heard'[x] \in {IDLE, heard[x]}
  BY HaltMoves DEF HaltTrace
<1>3. Ledgers'
  BY <1>1, <1>2, MovedLedger DEF AnswerInv, Ledgers
<1>4. Tallies'
  <2>. SUFFICES ASSUME InCall', NEW a \in Above[cur] PROVE Tally(a)'
    BY DEF Tallies
  <2>1. cur \in Node /\ a \in Node /\ a \notin H
    BY <1>1, AboveFacts DEF TypeOK, CallOK
  <2>2. SameHeard(a)
    BY <2>1 DEF HaltTrace
  <2>3. Tally(a) /\ frame[a].j \in Positions(a) /\ frame'[a] = frame[a]
    BY DEF AnswerInv, Tallies, ExecInv, AtChild, WaitsFor
  <2>. QED
    BY <2>1, <2>2, <2>3, SameTally
<1>5. Unskipped'
  <2>1. \A c \in Node : NeverSkipped(c) => status'[c] # SKIPPED /\ heard'[c] # SKIPPED
    BY <1>2 DEF AnswerInv, Unskipped
  <2>. QED
    BY <2>1 DEF Unskipped, NeverSkipped
<1>6. AnswersFollowChildren' /\ Working' /\ WasReset'
  BY DEF AnswersFollowChildren, Working, WasReset
<1>. QED
  BY <1>3, <1>4, <1>5, <1>6 DEF AnswerInv

\* WHILE_TRUE fails: the node is halted, and so starts from the beginning.
LEMMA PreConditionHaltsAnswers ==
    ASSUME ExecInv, AnswerInv, \A x \in Node : Accountable(x), NEW n \in Node,
           PreConditionHalts(n)
    PROVE  AnswerInv'
<1>. DEFINE H == HaltedFrom(n)
<1>1. /\ pc = "enter" /\ cur = n /\ cur' = n /\ pc' = "preempted" /\ ret' = SKIPPED
      /\ status' = StatusAfter(H, {}) /\ mem' = MemAfter(H) /\ heard' = HeardAfter(H)
      /\ frame' = frame /\ "WHILE_TRUE" \in PreConds[n]
  BY DEF PreConditionHalts, Go
<1>2. TypeOK /\ RunningReached
  BY ExecFacts
<1>3. H \in SUBSET Node /\ {} \in SUBSET Node /\ n \in H
  BY DEF HaltedFrom
<1>4. HaltTrace(H, {})
  BY <1>1, <1>2, <1>3, HaltedFromReaches, HaltTraceOf
<1>5. \A a \in Above[n] : a \notin H
  BY AboveFacts DEF HaltedFrom
<1>. HIDE DEF H
<1>6. Kind[n] # "SequenceWithMemory" /\ ~NeverSkipped(n)
  BY <1>1 DEF Accountable, NeverSkipped
<1>7. Kind[n] \in LinearKinds \cup ParallelKinds \cup {"IfThenElse"} => mem'[n] = FreshMem(n)
  BY <1>1, <1>3, <1>6 DEF MemAfter, KeepsMemory, LinearKinds, ParallelKinds
<1>8. StartsOver(n, ret)'
  BY <1>1, <1>6, <1>7 DEF StartsOver, FreshMem, Done, Indexed, Counts, Counted, LinearKinds,
     ReactiveKinds, ParallelKinds
<1>9. Blank'
  BY <1>1, <1>8 DEF Blank, StartsOver
<1>. QED
  BY <1>1, <1>3, <1>4, <1>5, <1>6, <1>9, HaltAnswers DEF InCall

\* Either pass of haltTree().
LEMMA HaltTreeAnswers ==
    ASSUME ExecInv, AnswerInv, \A x \in Node : Accountable(x), HaltRoot \/ HaltVisit
    PROVE  AnswerInv'
<1>1. /\ TypeOK /\ RunningReached /\ cur \in Node
  BY ExecFacts DEF TypeOK, CallOK
<1>2. /\ pc \in {"rest", "halting"} /\ pc' \in {"rest", "halting"}
  BY DEF HaltRoot, HaltVisit, Go
<1>3. Blank'
  BY <1>2 DEF Blank
<1>4. ASSUME NEW H \in SUBSET Node, NEW R \in SUBSET Node, HaltTrace(H, R),
             mem' = MemAfter(H)
      PROVE  AnswerInv'
  BY <1>2, <1>3, <1>4, HaltAnswers DEF InCall
<1>5. CASE HaltRoot
  <2>. DEFINE H == HaltedFrom(cur)
  <2>1. status' = StatusAfter(H, {}) /\ mem' = MemAfter(H) /\ heard' = HeardAfter(H)
    BY <1>5 DEF HaltRoot
  <2>2. H \in SUBSET Node /\ {} \in SUBSET Node
    BY <1>1 DEF HaltedFrom
  <2>3. PassedOn(H)
    BY <1>1, HaltedFromReaches
  <2>. HIDE DEF H
  <2>4. HaltTrace(H, {})
    BY <1>1, <2>1, <2>2, <2>3, HaltTraceOf
  <2>. QED
    BY <1>4, <2>1, <2>2, <2>4
<1>6. CASE HaltVisit
  <2>. DEFINE H == TreeOf(cur)
  <2>1. status' = StatusAfter(H, {cur}) /\ mem' = MemAfter(H) /\ heard' = HeardAfter(H)
    BY <1>6 DEF HaltVisit
  <2>2. H \in SUBSET Node /\ {cur} \in SUBSET Node /\ cur \in H
    BY <1>1 DEF TreeOf
  <2>3. PassedOn(H)
    BY <1>1, TreeOfReaches
  <2>. HIDE DEF H
  <2>4. HaltTrace(H, {cur})
    BY <1>1, <2>1, <2>2, <2>3, HaltTraceOf
  <2>. QED
    BY <1>4, <2>1, <2>2, <2>4
<1>. QED
  BY <1>5, <1>6


\* tickRoot() starts, ticks again, or returns.
LEMMA RootCallAnswers ==
    ASSUME ExecInv, AnswerInv, CountersReset',
           TickAgain \/ SleepEnds \/ RootAnswers \/ \E o \in TickOption : TickRoot(o)
    PROVE  AnswerInv'
<1>1. cur \in Roots /\ cur \in Node /\ status \in [Node -> NodeStatus]
  BY ExecFacts DEF TickAgain, SleepEnds, RootAnswers, TickRoot, ExecInv, HaltInv, RestsAtRoot,
     TypeOK, CallOK, StateOK
<1>2. CASE TickAgain \/ SleepEnds \/ \E o \in TickOption : TickRoot(o)
  <2>1. /\ status' = status /\ mem' = mem /\ heard' = heard
        /\ pc' = "enter" /\ cur' = cur /\ frame' = frame
        /\ pc # "ticked"
    BY <1>2 DEF TickAgain, SleepEnds, TickRoot, Go, Keep
  <2>2. Blank' /\ WasReset'
    BY <2>1 DEF Blank, WasReset, CountersReset
  <2>. QED
    BY <1>1, <2>1, <2>2, QuietAnswers
<1>3. CASE RootAnswers
  <2>1. /\ mem' = mem /\ heard' = heard
        /\ status' = [status EXCEPT ![cur] = IF isStatusCompleted(ret) THEN IDLE ELSE @]
        /\ pc = "reply" /\ pc' \in {"rest", "sleeping"}
    BY <1>3 DEF RootAnswers, Go
  <2>2. \A x \in Node : status'[x] \in {status[x], IDLE}
    BY <1>1, <2>1
  <2>3. Blank' /\ WasReset'
    BY <2>1 DEF Blank, WasReset
  <2>. QED
    BY <2>1, <2>2, <2>3, QuietAnswers DEF InCall
<1>. QED
  BY <1>2, <1>3

\* The parent's ledger speaks of the children behind it, not of the one that answers.
LEMMA AnsweringIsNext ==
    ASSUME ExecInv, InCall, NEW a \in Above[cur], NEW k \in Positions(a),
           Children[a][k] = cur
    PROVE  k = frame[a].j /\ k \notin Visited(a)
<1>1. cur \in Node /\ a \in Node
  BY ExecFacts, AboveFacts DEF TypeOK, CallOK
<1>2. WaitsFor(a, frame[a].j)
  BY DEF ExecInv, AtChild
<1>3. cur \in Kids(a) /\ Children[a][frame[a].j] \in Kids(a)
  BY <1>2 DEF WaitsFor, Kids
<1>4. Above[cur] = {a} \cup Above[a]
  BY <1>1, <1>3, KidFacts
<1>5. Children[a][frame[a].j] \notin Above[cur]
  BY <1>1, <1>3, <1>4, KidFacts
<1>. QED
  BY <1>1, <1>2, <1>5, OnePosition DEF WaitsFor

\* A node that has answered for good starts over, and has forgotten what it has heard.
LEMMA AnsweredLedger ==
    ASSUME ExecInv, AnswerInv, NEW n \in Node, Accountable(n), cur = n,
           pc \in {"ticked", "preempted"}, pc' = "reply", mem' = mem,
           NEW s \in NodeStatus, s = ret \/ (n \in PostTick /\ s \in Completed), s # IDLE,
           status'[n] = IF s = SKIPPED THEN status[n] ELSE s,
           \A k \in Kids(n) : heard'[k] = IF Forgets(n, s) THEN IDLE ELSE heard[k]
    PROVE  Ledger(n)'
<1>1. TypeOK /\ Ledger(n)
  BY ExecFacts DEF AnswerInv, Ledgers
<1>2. CASE Kind[n] \notin LinearKinds \cup ParallelKinds \cup {"IfThenElse"}
  BY <1>2 DEF Ledger
<1>3. CASE Kind[n] \in LinearKinds \cup ParallelKinds \cup {"IfThenElse"}
  <2>1. s = ret
    BY <1>3 DEF Accountable, Free
  <2>2. CASE Forgets(n, s)
    <3>1. StartsOver(n, s) /\ s \notin {RUNNING, IDLE} /\ ~Retried(n, s)
      BY <2>1, <2>2 DEF AnswerInv, Blank, Forgets, Retried
    <3>2. /\ Kind[n] \in Indexed => mem'[n].idx = 1
          /\ Kind[n] \in ParallelKinds => Done(mem'[n]) = {}
          /\ Kind[n] = "SequenceWithMemory" => mem'[n].count = 0
          /\ Counts(n) /\ status'[n] = RUNNING => mem'[n].count = 0
      BY <3>1 DEF StartsOver
    <3>3. SkippedBefore(n, 1)' = {} /\ Cardinality(SkippedBefore(n, 1)') = 0
          /\ Passed(n, 1, Stop(n))'
      BY FS_EmptySet DEF SkippedBefore, Passed
    <3>4. Kind[n] \in LinearKinds => LinearLedger(n)'
      BY <3>2, <3>3 DEF LinearLedger, Indexed
    <3>5. Kind[n] = "IfThenElse" => BranchLedger(n)'
      BY <3>2 DEF BranchLedger, Indexed
    <3>6. Kind[n] \in ParallelKinds => ParallelLedger(n)'
      BY <3>2, FS_EmptySet DEF ParallelLedger, Done, Accountable, Threshold, Count
    <3>. QED
      BY <3>4, <3>5, <3>6 DEF Ledger
  <2>3. CASE ~Forgets(n, s)
    <3>1. SameHeard(n)
      BY <2>3 DEF SameHeard
    <3>2. ~Ends(n)
      BY <2>1, <2>3 DEF Forgets, Ends, Retried
    <3>3. Kind[n] \in Counted => s = RUNNING
      BY <2>3 DEF Forgets, Counted
    <3>4. Kind[n] \in Counted => status[n] = RUNNING
      BY <2>1, <3>3 DEF AnswerInv, Working
    <3>. QED
      BY <1>1, <3>1, <3>2, <3>4, SameLedger DEF Counts
  <2>. QED
    BY <2>2, <2>3
<1>. QED
  BY <1>2, <1>3

\* executeTick() returns the answer s to the caller.
LEMMA RepliesAnswers ==
    ASSUME ExecInv, AnswerInv, \A x \in Node : Accountable(x),
           NEW n \in Node, cur = n, pc \in {"ticked", "preempted"},
           NEW s \in NodeStatus, s = ret \/ (n \in PostTick /\ s \in Completed), s # IDLE,
           status' = [x \in Node |->
                        IF x = n THEN (IF s = SKIPPED THEN status[n] ELSE s)
                        ELSE IF ResetByDecorator(n, x) THEN IDLE ELSE status[x]],
           heard' = [x \in Node |-> IF x = n THEN s
                                    ELSE IF x \in Kids(n) /\ Forgets(n, s) THEN IDLE
                                    ELSE heard[x]],
           Go("reply", n, s), mem' = mem, frame' = frame
    PROVE  AnswerInv'
<1>1. /\ pc' = "reply" /\ cur' = n /\ ret' = s /\ InCall /\ InCall' /\ TypeOK
  BY ExecFacts DEF Go, InCall
<1>2. /\ status'[n] = IF s = SKIPPED THEN status[n] ELSE s
      /\ \A x \in Node \ {n} : status'[x] \in {IDLE, status[x]}
  OBVIOUS
<1>3. /\ heard'[n] = s
      /\ \A x \in Node \ {n} :
            heard'[x] = IF x \in Kids(n) /\ Forgets(n, s) THEN IDLE ELSE heard[x]
  OBVIOUS
<1>4. ASSUME NEW x \in Node \ {n}, NEW i \in Positions(x), Children[x][i] # n
      PROVE  Heard(x, i)' = Heard(x, i)
  <2>1. Children[x][i] \in Kids(x)
    BY DEF Kids
  <2>2. Children[x][i] \in Node /\ Parent[Children[x][i]] = x
    BY <2>1, KidFacts
  <2>3. Children[x][i] \notin Kids(n)
    BY <2>2, KidFacts
  <2>. QED
    BY <1>3, <1>4, <2>2, <2>3 DEF Heard
<1>5. Ledger(n)'
  <2>1. \A k \in Kids(n) : heard'[k] = IF Forgets(n, s) THEN IDLE ELSE heard[k]
    BY <1>3, KidFacts
  <2>. QED
    BY <1>1, <1>2, <2>1, AnsweredLedger
<1>6. Ledgers'
  <2>. SUFFICES ASSUME NEW x \in Node, x # n PROVE Ledger(x)'
    BY <1>5 DEF Ledgers
  <2>1. Ledger(x) /\ ~Ends(x)
    BY DEF AnswerInv, Ledgers, Ends
  <2>2. ASSUME NEW i \in Visited(x)
        PROVE  Heard(x, i)' = Heard(x, i)
    <3>1. CASE Kind[x] \notin Indexed \cup ParallelKinds
      BY <2>2, <3>1, VisitedKinds
    <3>2. CASE Kind[x] \in Indexed \cup ParallelKinds
      <4>1. i \in Positions(x)
        <5>1. Kind[x] \in Indexed => mem[x].idx \in Positions(x)
          BY <1>1 DEF TypeOK, StateOK, IndexOK, Indexed
        <5>2. Kind[x] \in ParallelKinds => i \in Done(mem[x]) /\ ParallelLedger(x)
          BY <1>1, <2>1, <2>2, ParallelFacts DEF Ledger
        <5>3. Kind[x] \in Indexed => i \in 1 .. mem[x].idx - 1
          BY <2>2 DEF Visited
        <5>. QED
          BY <3>2, <5>1, <5>2, <5>3, Before DEF ParallelLedger, Done, Among
      <4>2. Children[x][i] # n
        <5>. SUFFICES ASSUME Children[x][i] = n PROVE FALSE
          OBVIOUS
        <5>1. n \in Kids(x)
          BY <4>1 DEF Kids
        <5>2. x \in Above[n]
          BY <5>1, KidFacts
        <5>. QED
          BY <1>1, <2>2, <4>1, <5>2, AnsweringIsNext
      <4>. QED
        BY <1>4, <4>1, <4>2
    <3>. QED
      BY <3>1, <3>2
  <2>. QED
    BY <1>1, <1>2, <2>1, <2>2, VisitedLedger
<1>7. Tallies'
  <2>. SUFFICES ASSUME NEW a \in Above[n] PROVE Tally(a)'
    BY <1>1 DEF Tallies
  <2>1. a \in Node /\ a # n /\ Tally(a) /\ frame[a].j \in Positions(a) /\ frame'[a] = frame[a]
    BY <1>1, AboveFacts DEF AnswerInv, Tallies, ExecInv, AtChild, WaitsFor
  <2>2. ASSUME NEW k \in 1 .. frame[a].j - 1
        PROVE  Heard(a, k)' = Heard(a, k)
    <3>1. k \in Positions(a) /\ k # frame[a].j
      BY <2>1, Before
    <3>2. Children[a][k] # n
      BY <1>1, <3>1, AnsweringIsNext
    <3>. QED
      BY <1>4, <2>1, <3>1, <3>2
  <2>. QED
    BY <2>1, <2>2, BeforeTally
<1>8. Unskipped'
  <2>1. NeverSkipped(n) => s # SKIPPED /\ status'[n] # SKIPPED
    BY <1>2 DEF AnswerInv, Unskipped
  <2>2. \A c \in Node : NeverSkipped(c) => status'[c] # SKIPPED /\ heard'[c] # SKIPPED
    BY <1>2, <1>3, <2>1 DEF AnswerInv, Unskipped
  <2>. QED
    BY <1>1, <2>1, <2>2 DEF Unskipped, NeverSkipped
<1>9. AnswersFollowChildren' /\ Working' /\ WasReset' /\ Blank'
  BY <1>1 DEF AnswersFollowChildren, Working, WasReset, Blank
<1>. QED
  BY <1>6, <1>7, <1>8, <1>9 DEF AnswerInv

\* The end of executeTick().
LEMMA LeaveAnswers ==
    ASSUME ExecInv, AnswerInv, \A x \in Node : Accountable(x), NEW n \in Node, Leave(n)
    PROVE  AnswerInv'
<1>1. PICK s \in IF n \in PostTick THEN {ret} \cup Completed ELSE {ret} :
        \/ s = IDLE /\ Throw /\ UNCHANGED status
        \/ /\ s = RUNNING /\ Kind[n] \in {"SyncAction", "SimpleAction"}
           /\ status' = [status EXCEPT ![n] = RUNNING]
           /\ Throw
        \/ /\ s # IDLE
           /\ s = RUNNING => Kind[n] \notin {"SyncAction", "SimpleAction"}
           /\ status' = [x \in Node |->
                           IF x = n THEN (IF s = SKIPPED THEN status[n] ELSE s)
                           ELSE IF ResetByDecorator(n, x) THEN IDLE ELSE status[x]]
           /\ heard' = [x \in Node |-> IF x = n THEN s
                                       ELSE IF x \in Kids(n) /\ Forgets(n, s) THEN IDLE
                                       ELSE heard[x]]
           /\ Go("reply", n, s)
           /\ UNCHANGED <<mem, frame, ready>>
  BY DEF Leave
<1>2. /\ status \in [Node -> NodeStatus] /\ cur = n /\ pc \in {"ticked", "preempted"}
      /\ ret \in NodeStatus
  BY ExecFacts DEF TypeOK, StateOK, CallOK, Leave
<1>3. s \in NodeStatus /\ (s = ret \/ (n \in PostTick /\ s \in Completed))
  BY <1>1, <1>2
<1>4. ASSUME Throw
      PROVE  /\ mem' = mem /\ heard' = heard /\ ~InCall' /\ pc' = "rest"
             /\ Blank' /\ WasReset'
  BY <1>4 DEF Throw, Unwind, InCall, Blank, WasReset
<1>5. CASE s = IDLE /\ Throw /\ UNCHANGED status
  BY <1>3, <1>4, <1>5, QuietAnswers
<1>6. CASE /\ s = RUNNING /\ Kind[n] \in {"SyncAction", "SimpleAction"}
           /\ status' = [status EXCEPT ![n] = RUNNING]
           /\ Throw
  <2>1. \A x \in Node : status'[x] = status[x] \/ (status'[x] = RUNNING /\ Kind[x] \in LeafKinds)
    BY <1>2, <1>6 DEF LeafKinds
  <2>. QED
    BY <1>3, <1>4, <1>6, <2>1, QuietAnswers
<1>. QED
  BY <1>1, <1>2, <1>3, <1>5, <1>6, RepliesAnswers

\* A script or an injected callback throws: a node that counts no longer can, any other
\* has forgotten what it heard if it has answered for good, and starts over.
LEMMA ScriptThrowsAnswers ==
    ASSUME ExecInv, AnswerInv, \A x \in Node : Accountable(x), NEW n \in Node, ScriptThrows(n)
    PROVE  AnswerInv'
<1>1. /\ cur = n /\ n \in Throwing /\ status' = status /\ mem' = mem /\ pc' = "rest"
      /\ \A x \in Node :
            heard'[x] = IF pc = "ticked" /\ x \in Kids(n) /\ Forgets(n, ret) THEN IDLE
                        ELSE heard[x]
      /\ pc \in {"enter", "preempted"} \/ (pc = "ticked" /\ ret # IDLE)
  BY DEF ScriptThrows, PreConditionThrows, PostConditionThrows, Throw, Unwind
<1>2. TypeOK /\ \A x \in Node : ~Ends(x)'
  BY <1>1, ExecFacts DEF Ends
<1>3. ~Counts(n)
  BY <1>1 DEF Counts, Counted, Miscounts
<1>4. ASSUME NEW x \in Node, SameHeard(x), ~Ends(x)
      PROVE  Ledger(x)'
  BY <1>1, <1>2, <1>4, SameLedger DEF AnswerInv, Ledgers
<1>5. ASSUME NEW x \in Node, x # n
      PROVE  Ledger(x)'
  <2>1. SameHeard(x)
    BY <1>1, <1>5, KidFacts DEF SameHeard
  <2>. QED
    BY <1>1, <1>4, <1>5, <2>1 DEF Ends
<1>6. Ledger(n)'
  <2>1. CASE pc = "ticked" /\ Forgets(n, ret)
    <3>1. StartsOver(n, ret) /\ ret \notin {RUNNING, IDLE} /\ ~Retried(n, ret)
      BY <1>1, <2>1 DEF AnswerInv, Blank, Forgets, Retried
    <3>2. /\ Kind[n] \in Indexed => mem'[n].idx = 1
          /\ Kind[n] \in ParallelKinds => Done(mem'[n]) = {}
          /\ Kind[n] = "SequenceWithMemory" => mem'[n].count = 0
      BY <1>1, <3>1 DEF StartsOver
    <3>3. SkippedBefore(n, 1)' = {} /\ Cardinality(SkippedBefore(n, 1)') = 0
          /\ Passed(n, 1, Stop(n))'
      BY FS_EmptySet DEF SkippedBefore, Passed
    <3>4. Kind[n] \in LinearKinds => LinearLedger(n)'
      BY <1>3, <3>2, <3>3 DEF LinearLedger, Indexed
    <3>5. Kind[n] = "IfThenElse" => BranchLedger(n)'
      BY <3>2 DEF BranchLedger, Indexed
    <3>6. Kind[n] \in ParallelKinds => ParallelLedger(n)'
      BY <3>2, FS_EmptySet DEF ParallelLedger, Done, Accountable, Threshold, Count
    <3>. QED
      BY <3>4, <3>5, <3>6 DEF Ledger
  <2>2. CASE ~(pc = "ticked" /\ Forgets(n, ret))
    <3>1. SameHeard(n)
      BY <1>1, <2>2, KidFacts DEF SameHeard
    <3>2. ~Ends(n)
      BY <1>1, <2>2 DEF Forgets, Ends, Retried
    <3>. QED
      BY <1>4, <3>1, <3>2
  <2>. QED
    BY <2>1, <2>2
<1>7. Ledgers' /\ Tallies' /\ Blank' /\ WasReset' /\ Working' /\ AnswersFollowChildren'
  BY <1>1, <1>5, <1>6 DEF Ledgers, Tallies, InCall, Blank, WasReset, Working,
     AnswersFollowChildren
<1>8. Unskipped'
  BY <1>1 DEF AnswerInv, Unskipped, NeverSkipped
<1>. QED
  BY <1>7, <1>8 DEF AnswerInv

\* A signal from another thread, or no step at all.
LEMMA SilentAnswers ==
    ASSUME AnswerInv, UNCHANGED <<status, mem, frame, heard, pc, cur, ret>>, ready => ready'
    PROVE  AnswerInv'
<1>1. \A x : Ledger(x) => Ledger(x)'
  BY DEF Ledger, LinearLedger, BranchLedger, ParallelLedger, Passed, SkippedBefore, Among, Heard,
     Ends
<1>2. Ledgers'
  BY <1>1 DEF AnswerInv, Ledgers
<1>3. Tallies'
  BY DEF AnswerInv, Tallies, Tally, InCall, Passed, SkippedBefore, Heard
<1>4. Blank' /\ Unskipped' /\ WasReset' /\ Working'
  BY DEF AnswerInv, Blank, StartsOver, Unskipped, WasReset, Working, Done
<1>5. \A n, stop, s : LinearContract(n, stop, s) => LinearContract(n, stop, s)'
  BY DEF LinearContract, Passed, Among, Heard
<1>6. \A n, s : /\ ParallelContract(n, s) => ParallelContract(n, s)'
                /\ ParallelAllContract(n, s) => ParallelAllContract(n, s)'
                /\ BranchContract(n, s) => BranchContract(n, s)'
  BY DEF ParallelContract, ParallelAllContract, BranchContract, Among, Heard
<1>7. AnswersFollowChildren'
  BY <1>5, <1>6 DEF AnswerInv, AnswersFollowChildren
<1>. QED
  BY <1>2, <1>3, <1>4, <1>7 DEF AnswerInv

\* Every step keeps the invariant.
LEMMA AnswerNextKept ==
    ASSUME ExecInv, AnswerInv, CountersReset', \A n \in Node : Accountable(n), [Next]_vars
    PROVE  AnswerInv'
<1>1. HaltInv /\ TypeOK'
  BY ExecNextKept, ExecFacts DEF ExecInv, HaltInv
<1>2. CASE \E n \in {cur} \cup Above[cur] : NodeStep(n)
  <2>1. PICK n \in {cur} \cup Above[cur] : NodeStep(n)
    BY <1>2
  <2>2. n \in Node
    BY <1>1, <2>1, NodeStepShape
  <2>3. CASE ExecuteTick(n)
    BY <2>2, <2>3, EnterAnswers, PreConditionHaltsAnswers, LeaveAnswers, ScriptThrowsAnswers
       DEF ExecuteTick, ScriptThrows
  <2>4. CASE LeafTick(n) \/ ControlTick(n) \/ DecoratorTick(n)
    BY <1>1, <2>2, <2>4, TickAnswers
  <2>. QED
    BY <2>1, <2>3, <2>4 DEF NodeStep
<1>3. CASE TickAgain \/ SleepEnds \/ RootAnswers \/ \E o \in TickOption : TickRoot(o)
  BY <1>1, <1>3, RootCallAnswers
<1>4. CASE HaltRoot \/ HaltVisit
  BY <1>4, HaltTreeAnswers
<1>5. CASE UNCHANGED vars \/ \E n \in Wakers : WakeUp(n)
  BY <1>5, SilentAnswers DEF vars, WakeUp
<1>. QED
  BY <1>2, <1>3, <1>4, <1>5 DEF Next, CallStep

\* Trees just built: no node has heard anything.
LEMMA AnswerInitOK ==
    ASSUME Init, \A n \in Node : Accountable(n)
    PROVE  AnswerInv
<1>1. ASSUME NEW x \in Node
      PROVE  Ledger(x)
  <2>1. /\ Kind[x] \in Indexed => mem[x].idx = 1
        /\ mem[x].count = 0 /\ mem[x].succeeded = {} /\ mem[x].failed = {}
    BY DEF Init, FreshMem, Indexed, LinearKinds, ReactiveKinds
  <2>2. Kind[x] \in LinearKinds => LinearLedger(x)
    BY <2>1, NoneBefore DEF LinearLedger, Indexed
  <2>3. Kind[x] = "IfThenElse" => BranchLedger(x)
    BY <2>1 DEF BranchLedger, Indexed
  <2>4. Kind[x] \in ParallelKinds => ParallelLedger(x)
    BY <2>1, FS_EmptySet DEF ParallelLedger, Accountable
  <2>. QED
    BY <2>2, <2>3, <2>4 DEF Ledger
<1>2. pc = "rest" /\ \A x \in Node : status[x] = IDLE /\ heard[x] = IDLE
  BY DEF Init
<1>3. Tallies /\ Blank /\ AnswersFollowChildren /\ Unskipped /\ WasReset /\ Working
  BY <1>2 DEF Tallies, InCall, Blank, AnswersFollowChildren, Unskipped, WasReset, Working
<1>. QED
  BY <1>1, <1>3 DEF AnswerInv, Ledgers

-------------------------------------------------------------------------------
(* What holds of every tree that accounts for its answers                  *)

\* A control node answers what its children's answers of this execution call for, however
\* many ticks, skips and halts they were spread over, as long as those that count are reset
\* before they start again.
THEOREM AnswersOfReset ==
    ASSUME \A n \in Node : Accountable(n)
    PROVE  Spec /\ []CountersReset => []AnswersFollowChildren
<1>1. Init => AnswerInv
  BY AnswerInitOK
<1>2. ExecInv /\ AnswerInv /\ CountersReset' /\ [Next]_vars => AnswerInv'
  BY AnswerNextKept
<1>3. AnswerInv => AnswersFollowChildren
  BY DEF AnswerInv
<1>. QED
  BY <1>1, <1>2, <1>3, ExecutionInvariant, PTL DEF Spec

\* So it is while no exception leaves tickRoot() in the middle of a tick: then every node
\* is reset before it is ticked again.
THEOREM AnswersFollow ==
    ASSUME \A n \in Node : Accountable(n)
    PROVE  Spec /\ [][~Thrown]_vars => []AnswersFollowChildren
<1>1. ASSUME ExecInv, TickedNodeIsReset
      PROVE  CountersReset
  <2>1. cur \in Node
    BY <1>1, ExecFacts DEF TypeOK, CallOK
  <2>. QED
    BY <1>1, <2>1 DEF CountersReset, TickedNodeIsReset, Accountable, Counts, Counted,
       Miscounts
<1>. QED
  BY <1>1, AnswersOfReset, TickedNodesAreReset, ExecutionInvariant, PTL DEF Spec

\* And so it is with any exceptions, where no node that counts is below one that an
\* exception takes past the reset of its children.
THEOREM AnswersFollowExceptions ==
    ASSUME \A n \in Node : Accountable(n),
           \A n \in Node \ Roots : Kind[n] \in Counted => ~Unreset(Parent[n])
    PROVE  Spec => []AnswersFollowChildren
<1>1. ASSUME ExecInv,
             pc = "enter" /\ isStatusCompleted(status[cur]) =>
                 \/ KeptCondition(cur) \/ LeftCompleted(cur)
                 \/ cur \notin Roots /\ Unreset(Parent[cur])
      PROVE  CountersReset
  <2>1. cur \in Node
    BY <1>1, ExecFacts DEF TypeOK, CallOK
  <2>. QED
    BY <1>1, <2>1 DEF CountersReset, Accountable, Counts, Counted, Miscounts
<1>. QED
  BY <1>1, AnswersOfReset, TickedAfterReset, ExecutionInvariant, PTL

-------------------------------------------------------------------------------
(* Nodes that are never skipped                                            *)

\* Nothing of c itself answers SKIPPED, and its children are among U.
CannotSkip(c, U) ==
    /\ PreConds[c] \cap {"SKIP_IF", "WHILE_TRUE"} = {}
    /\ Kind[c] \in LeafKinds \cup {"SimpleDecorator"} => SKIPPED \notin Answers[c]
    /\ Kind[c] \in {"RunOnce", "Precondition", "LoopNode"} => Otherwise[c] # SKIPPED
    /\ Kind[c] # "SkipUnlessUpdated"
    /\ Kids(c) \subseteq U

\* The subtrees in which nothing answers SKIPPED.
Unskippable == UNION {U \in SUBSET Node : \A c \in U : CannotSkip(c, U)}

\* Nobody has counted a skip where none can be.
CountsNoSkips ==
    /\ \A n \in Node : Kind[n] \in LinearKinds /\ Kids(n) \subseteq Unskippable =>
           mem[n].count = 0
    /\ InCall => \A a \in Above[cur] : Kids(a) \subseteq Unskippable => frame[a].skips = 0

\* What a RunOnce remembers is an answer for good.
Returned == \A n \in Node : Kind[n] = "RunOnce" /\ mem[n].flag => mem[n].returned \in Completed

NotSkipped ==
    \A c \in Unskippable :
        /\ status[c] # SKIPPED
        /\ pc \in {"ticked", "preempted", "reply"} /\ cur = c => ret # SKIPPED

SkipInv == CountsNoSkips /\ Returned /\ NotSkipped

\* A set of nodes that keep to themselves is one of those that make up Unskippable.
LEMMA UnskippableFacts ==
    ASSUME NEW c \in Unskippable
    PROVE  c \in Node /\ CannotSkip(c, Unskippable)
<1>1. PICK U \in SUBSET Node : c \in U /\ \A d \in U : CannotSkip(d, U)
  BY DEF Unskippable
<1>2. U \subseteq Unskippable
  BY <1>1 DEF Unskippable
<1>. QED
  BY <1>1, <1>2 DEF CannotSkip

\* What tick() of one node does about it.
Unskips(n) ==
    /\ n \in Unskippable /\ pc' = "ticked" => ret' # SKIPPED
    /\ Kids(n) \subseteq Unskippable =>
           /\ Kind[n] \in LinearKinds => mem'[n].count = 0
           /\ pc' = "enter" => frame'[n].skips = 0
    /\ Kind[n] = "RunOnce" /\ mem'[n].flag => mem'[n].returned \in Completed

\* A child that cannot be skipped has not been.
LEMMA ReplyUnskipped ==
    ASSUME TypeOK, SkipInv, NEW n \in Node, NEW kinds, Replied(n, kinds),
           Kids(n) \subseteq Unskippable
    PROVE  ret # SKIPPED /\ frame[n].skips = 0
<1>1. cur \in Kids(n) /\ cur \in Node /\ pc = "reply"
  BY ReplyFacts DEF TypeOK, CallOK, Replied
<1>2. n \in Above[cur]
  BY <1>1, KidFacts
<1>. QED
  BY <1>1, <1>2 DEF SkipInv, NotSkipped, CountsNoSkips, InCall

\* A node without a count of skips of its own.
LEMMA MoveUnskips ==
    ASSUME TypeOK, NEW n \in Node, Kind[n] \notin LinearKinds \cup {"RunOnce"},
           \/ \E j : TickChild(n, j, 0)
           \/ \E s : Answer(n, s) /\ (n \in Unskippable => s # SKIPPED)
           \/ Yield(n)
           \/ Unwind
    PROVE  Unskips(n)
<1>1. frame \in [Node -> Frame]
  BY DEF TypeOK, CallOK
<1>2. CASE \E j : TickChild(n, j, 0)
  <2>1. pc' = "enter" /\ frame'[n].skips = 0
    BY <1>1, <1>2 DEF TickChild, Go
  <2>. QED
    BY <2>1 DEF Unskips
<1>3. CASE \E s : Answer(n, s) /\ (n \in Unskippable => s # SKIPPED)
  BY <1>3 DEF Answer, Return, Go, Unskips
<1>4. CASE Yield(n) \/ Unwind
  BY <1>4 DEF Yield, Return, Unwind, Go, Unskips
<1>. QED
  BY <1>2, <1>3, <1>4

\* The callback of a leaf answers.
LEMMA LeafUnskips ==
    ASSUME TypeOK, SkipInv, NEW n \in Node, LeafTick(n)
    PROVE  Unskips(n)
<1>1. Kind[n] \in LeafKinds
  BY DEF LeafTick, SyncTick, SimpleActionTick, StatefulTick, Ticking, LeafKinds
<1>2. Kind[n] \notin LinearKinds \cup {"RunOnce"}
  BY <1>1 DEF LeafKinds, LinearKinds
<1>3. n \in Unskippable => status[n] # SKIPPED /\ SKIPPED \notin Answers[n]
  BY <1>1, UnskippableFacts DEF SkipInv, NotSkipped, CannotSkip
<1>4. CASE SyncTick(n)
  BY <1>2, <1>3, <1>4, MoveUnskips DEF SyncTick
<1>5. CASE SimpleActionTick(n)
  BY <1>2, <1>3, <1>5, MoveUnskips DEF SimpleActionTick, Throw
<1>6. CASE StatefulTick(n)
  BY <1>2, <1>3, <1>6, MoveUnskips DEF StatefulTick, Throw
<1>. QED
  BY <1>4, <1>5, <1>6 DEF LeafTick

\* The linear classes count the children that were skipped.
LEMMA LinearUnskips ==
    ASSUME TypeOK, SkipInv, NEW n \in Node,
           \/ SequenceTick(n) \/ SequenceReply(n) \/ FallbackTick(n) \/ FallbackReply(n)
           \/ MemoryTick(n) \/ MemoryReply(n)
    PROVE  Unskips(n)
<1>1. /\ Kind[n] \in LinearKinds /\ Kind[n] # "RunOnce" /\ Count(n) \in Nat /\ Count(n) > 0
      /\ frame \in [Node -> Frame] /\ mem \in [Node -> Memory] /\ mem[n] \in Memory
  <2>1. Kind[n] \in LinearKinds
    BY DEF SequenceTick, SequenceReply, FallbackTick, FallbackReply, MemoryTick, MemoryReply,
       LinearTick, Ticking, Replied, LinearKinds
  <2>. QED
    BY <2>1, TreeFacts, KindAssumption DEF TypeOK, StateOK, CallOK, ControlKinds, LinearKinds
<1>2. Kids(n) \subseteq Unskippable => mem[n].count = 0
  BY <1>1 DEF SkipInv, CountsNoSkips
<1>3. n \in Unskippable => Kids(n) \subseteq Unskippable
  BY UnskippableFacts DEF CannotSkip
<1>4. CASE SequenceTick(n) \/ FallbackTick(n) \/ MemoryTick(n)
  <2>1. /\ pc' = "enter" /\ frame'[n].skips = 0
        /\ mem'[n].count \in {0, mem[n].count}
    <3>1. \E kinds : LinearTick(n, kinds)
      BY <1>4 DEF SequenceTick, FallbackTick, MemoryTick
    <3>2. mem' = [mem EXCEPT ![n].count = IF isStatusActive(status[n]) THEN @ ELSE 0]
          /\ TickChild(n, mem[n].idx, 0)
      BY <3>1 DEF LinearTick
    <3>3. mem'[n].count \in {0, mem[n].count}
      BY <1>1, <3>2 DEF Memory
    <3>. QED
      BY <1>1, <3>2, <3>3 DEF TickChild, Go
  <2>. QED
    BY <1>1, <1>2, <2>1 DEF Unskips
<1>5. CASE SequenceReply(n) \/ FallbackReply(n) \/ MemoryReply(n)
  <2>1. Kids(n) \subseteq Unskippable => ret # SKIPPED
    BY <1>5, ReplyUnskipped DEF SequenceReply, FallbackReply, MemoryReply
  <2>2. Kids(n) \subseteq Unskippable => SkippedSoFar(n) = 0
    BY <1>2, <2>1 DEF SkippedSoFar
  <2>3. ASSUME NEW C, NEW m, ResetChildren(n, C, m)
        PROVE  mem'[n] = m
    BY <1>1, <2>3 DEF ResetChildren, MemAfter
  <2>4. ASSUME NEW s, s # SKIPPED \/ ~(Kids(n) \subseteq Unskippable), Answer(n, s),
               mem'[n].count = mem[n].count \/ mem'[n].count = 0
        PROVE  Unskips(n)
    <3>1. pc' = "ticked" /\ ret' = s
      BY <2>4 DEF Answer, Return, Go
    <3>. QED
      BY <1>1, <1>2, <1>3, <2>4, <3>1 DEF Unskips
  <2>5. ASSUME NEW yields, LinearNext(n, yields)
        PROVE  Unskips(n)
    <3>1. mem'[n].count = SkippedSoFar(n)
      BY <1>1, <2>5 DEF LinearNext, Remember, Memory
    <3>2. Yield(n) \/ TickChild(n, mem[n].idx + 1, 0)
      BY <2>5 DEF LinearNext
    <3>3. /\ pc' = "ticked" => ret' # SKIPPED
          /\ pc' = "enter" => frame'[n].skips = 0
      <4>1. Yield(n) => pc' = "ticked" /\ ret' = RUNNING
        BY DEF Yield, Return, Go
      <4>2. TickChild(n, mem[n].idx + 1, 0) => pc' = "enter" /\ frame'[n].skips = 0
        BY <1>1 DEF TickChild, Go
      <4>. QED
        BY <3>2, <4>1, <4>2
    <3>. QED
      BY <1>1, <2>2, <3>1, <3>3 DEF Unskips
  <2>6. ASSUME NEW s \in Completed, LinearEnd(n, s)
        PROVE  Unskips(n)
    <3>1. mem'[n].count = 0
      BY <2>3, <2>6 DEF LinearEnd, FreshMem
    <3>2. PICK t : Answer(n, t) /\ (t # SKIPPED \/ ~(Kids(n) \subseteq Unskippable))
      BY <1>1, <2>2, <2>6 DEF LinearEnd
    <3>. QED
      BY <2>4, <3>1, <3>2
  <2>7. \A stop \in Completed : Opposite(stop) \in Completed
    BY DEF Opposite
  <2>8. ASSUME NEW stop \in Completed, NEW yields, LinearReply(n, stop, yields)
        PROVE  Unskips(n)
    <3>1. CASE ret = RUNNING /\ Keep /\ Answer(n, RUNNING)
      BY <2>4, <3>1 DEF Keep
    <3>2. CASE ResetChildren(n, Kids(n), [mem[n] EXCEPT !.idx = 1]) /\ Answer(n, stop)
      <4>1. mem'[n].count = mem[n].count
        BY <1>1, <2>3, <3>2 DEF Memory
      <4>. QED
        BY <2>4, <3>2, <4>1
    <3>3. CASE LinearNext(n, yields) \/ LinearEnd(n, Opposite(stop))
      BY <2>5, <2>6, <2>7, <3>3
    <3>. QED
      BY <2>8, <3>1, <3>2, <3>3 DEF LinearReply
  <2>9. CASE MemoryReply(n)
    <3>1. CASE ret = RUNNING /\ Keep /\ Answer(n, RUNNING)
      BY <2>4, <3>1 DEF Keep
    <3>2. CASE /\ ResetChildren(n, {Children[n][i] : i \in mem[n].idx .. Count(n)}, mem[n])
               /\ Answer(n, FAILURE)
      <4>1. mem'[n] = mem[n]
        BY <2>3, <3>2
      <4>. QED
        BY <2>4, <3>2, <4>1
    <3>3. CASE LinearNext(n, TRUE) \/ LinearEnd(n, SUCCESS)
      BY <2>5, <2>6, <3>3
    <3>. QED
      BY <2>9, <3>1, <3>2, <3>3 DEF MemoryReply
  <2>. QED
    BY <1>5, <2>8, <2>9 DEF SequenceReply, FallbackReply
<1>. QED
  BY <1>4, <1>5

\* The classes that count the children skipped in one tick.
LEMMA TickUnskips ==
    ASSUME TypeOK, SkipInv, NEW n \in Node, Kind[n] \in ReactiveKinds \cup ParallelKinds,
           \/ \E j, k : TickChild(n, j, k) /\ (Kids(n) \subseteq Unskippable => k = 0)
           \/ \E s : Answer(n, s) /\ (Kids(n) \subseteq Unskippable => s # SKIPPED)
           \/ Unwind
    PROVE  Unskips(n)
<1>1. Kind[n] \notin LinearKinds \cup {"RunOnce"} /\ frame \in [Node -> Frame]
  BY DEF LinearKinds, ReactiveKinds, ParallelKinds, TypeOK, CallOK
<1>2. n \in Unskippable => Kids(n) \subseteq Unskippable
  BY UnskippableFacts DEF CannotSkip
<1>3. ASSUME NEW j, NEW k, TickChild(n, j, k), Kids(n) \subseteq Unskippable => k = 0
      PROVE  Unskips(n)
  <2>1. pc' = "enter" /\ frame'[n].skips = k
    BY <1>1, <1>3 DEF TickChild, Go
  <2>. QED
    BY <1>1, <1>3, <2>1 DEF Unskips
<1>4. CASE \E s : Answer(n, s) /\ (Kids(n) \subseteq Unskippable => s # SKIPPED)
  BY <1>1, <1>2, <1>4, MoveUnskips
<1>5. CASE Unwind
  BY <1>1, <1>5, MoveUnskips
<1>. QED
  BY <1>3, <1>4, <1>5

\* A reactive node whose children cannot be skipped is not skipped.
LEMMA ReactiveUnskips ==
    ASSUME TypeOK, SkipInv, NEW n \in Node,
           \/ ReactiveSequenceTick(n) \/ ReactiveSequenceReply(n)
           \/ ReactiveFallbackTick(n) \/ ReactiveFallbackReply(n)
    PROVE  Unskips(n)
<1>1. Kind[n] \in ReactiveKinds /\ Count(n) \in Nat /\ Count(n) > 0
  <2>1. Kind[n] \in ReactiveKinds
    BY DEF ReactiveSequenceTick, ReactiveSequenceReply, ReactiveFallbackTick,
       ReactiveFallbackReply, ReactiveTick, ReactiveReply, Ticking, Replied, ReactiveKinds
  <2>. QED
    BY <2>1, TreeFacts, KindAssumption DEF ControlKinds
<1>2. CASE ReactiveSequenceTick(n) \/ ReactiveFallbackTick(n)
  <2>1. TickChild(n, 1, 0)
    BY <1>2 DEF ReactiveSequenceTick, ReactiveFallbackTick, ReactiveTick
  <2>. QED
    BY <1>1, <2>1, TickUnskips
<1>3. ASSUME NEW kinds, NEW stop \in Completed, ReactiveReply(n, kinds, stop)
      PROVE  Unskips(n)
  <2>1. Kids(n) \subseteq Unskippable => ret # SKIPPED /\ frame[n].skips = 0
    BY <1>3, ReplyUnskipped DEF ReactiveReply
  <2>2. PICK skips : skips = frame[n].skips + (IF ret = SKIPPED THEN 1 ELSE 0)
    OBVIOUS
  <2>3. Kids(n) \subseteq Unskippable => skips = 0
    BY <2>1, <2>2
  <2>4. \/ Unwind \/ Answer(n, RUNNING) \/ Answer(n, stop)
        \/ \E j : TickChild(n, j, skips)
        \/ Answer(n, IF skips = Count(n) THEN SKIPPED ELSE Opposite(stop))
    BY <1>3, <2>2 DEF ReactiveReply, ReactiveRunning
  <2>5. Opposite(stop) \in Completed
    BY DEF Opposite
  <2>. QED
    BY <1>1, <2>3, <2>4, <2>5, TickUnskips
<1>. QED
  BY <1>2, <1>3 DEF ReactiveSequenceTick, ReactiveFallbackTick, ReactiveSequenceReply,
     ReactiveFallbackReply

\* Nor is a parallel one.
LEMMA ParallelUnskips ==
    ASSUME TypeOK, SkipInv, NEW n \in Node, Kind[n] \in ParallelKinds,
           \/ \E kinds, required : ParallelTick(n, kinds, required)
           \/ ParallelReply(n) \/ ParallelAllReply(n)
    PROVE  Unskips(n)
<1>1. Count(n) \in Nat /\ Count(n) > 0
  BY TreeFacts, KindAssumption DEF ControlKinds
<1>2. CASE \E kinds, required : ParallelTick(n, kinds, required)
  <2>1. Unwind \/ \E j : TickChild(n, j, 0)
    BY <1>2 DEF ParallelTick, Throw, TickFirst
  <2>. QED
    BY <2>1, TickUnskips
<1>3. CASE ParallelReply(n) \/ ParallelAllReply(n)
  <2>1. Kids(n) \subseteq Unskippable => ret # SKIPPED /\ frame[n].skips = 0
    BY <1>3, ReplyUnskipped DEF ParallelReply, ParallelAllReply
  <2>2. PICK skips : skips = SkippedNow(n)
    OBVIOUS
  <2>3. Kids(n) \subseteq Unskippable => skips = 0
    BY <2>1, <2>2 DEF SkippedNow
  <2>4. \/ \E s \in {SUCCESS, FAILURE} : Answer(n, s)
        \/ \E j : TickChild(n, j, skips)
        \/ Answer(n, IF skips = Count(n) THEN SKIPPED ELSE RUNNING)
    <3>1. CASE ParallelReply(n)
      BY <2>2, <3>1 DEF ParallelReply, TickFirst
    <3>2. CASE ParallelAllReply(n)
      BY <2>2, <3>2 DEF ParallelAllReply, TickFirst
    <3>. QED
      BY <1>3, <3>1, <3>2
  <2>. QED
    BY <1>1, <2>3, <2>4, TickUnskips
<1>. QED
  BY <1>2, <1>3

\* IfThenElse, WhileDoElse and Switch answer what a child did, or not SKIPPED.
LEMMA BranchUnskips ==
    ASSUME TypeOK, SkipInv, NEW n \in Node,
           \/ IfThenElseTick(n) \/ IfThenElseReply(n)
           \/ WhileDoElseTick(n) \/ WhileDoElseReply(n)
           \/ SwitchTick(n) \/ SwitchReply(n)
    PROVE  Unskips(n)
<1>1. Kind[n] \notin LinearKinds \cup {"RunOnce"}
  BY DEF IfThenElseTick, IfThenElseReply, WhileDoElseTick, WhileDoElseReply, SwitchTick,
     SwitchReply, Ticking, Replied, LinearKinds
<1>2. CASE IfThenElseTick(n) \/ WhileDoElseTick(n) \/ SwitchTick(n)
  <2>1. \E j : TickChild(n, j, 0)
    BY <1>2 DEF IfThenElseTick, WhileDoElseTick, SwitchTick
  <2>. QED
    BY <1>1, <2>1, MoveUnskips
<1>3. CASE IfThenElseReply(n) \/ WhileDoElseReply(n) \/ SwitchReply(n)
  <2>1. n \in Unskippable => ret # SKIPPED
    <3>1. n \in Unskippable => Kids(n) \subseteq Unskippable
      BY UnskippableFacts DEF CannotSkip
    <3>. QED
      BY <1>3, <3>1, ReplyUnskipped DEF IfThenElseReply, WhileDoElseReply, SwitchReply
  <2>2. \/ \E j : TickChild(n, j, 0)
        \/ \E s : Answer(n, s) /\ (s = SKIPPED => ret = SKIPPED)
        \/ Unwind
    <3>1. CASE IfThenElseReply(n)
      BY <3>1 DEF IfThenElseReply, Throw
    <3>2. CASE WhileDoElseReply(n)
      BY <3>2 DEF WhileDoElseReply
    <3>3. CASE SwitchReply(n)
      BY <3>3 DEF SwitchReply
    <3>. QED
      BY <1>3, <3>1, <3>2, <3>3
  <2>. QED
    BY <1>1, <2>1, <2>2, MoveUnskips
<1>. QED
  BY <1>2, <1>3

\* The decorators.
LEMMA DecoratorUnskips ==
    ASSUME TypeOK, SkipInv, NEW n \in Node, DecoratorTick(n)
    PROVE  Unskips(n)
<1>1. Kind[n] \in DecoratorKinds
  BY DEF DecoratorTick, TranslatorTick, InverterReply, ForceReply, KeepRunningReply,
     SubTreeTick, SubTreeReply, SimpleDecoratorTick, SimpleDecoratorReply,
     RepeatTick, RepeatReply, RetryTick, RetryReply, RunOnceTick, RunOnceReply,
     PreconditionTick, PreconditionReply, UpdatedTick, UpdatedReply, LoopTick, LoopReply,
     Ticking, Replied, Translators, DecoratorKinds, UpdatedKinds
<1>2. Kind[n] \notin LinearKinds
  BY <1>1 DEF DecoratorKinds, UpdatedKinds, LinearKinds
<1>3. n \in Unskippable => CannotSkip(n, Unskippable)
  BY UnskippableFacts
<1>4. CASE \/ TranslatorTick(n) \/ SubTreeTick(n) \/ SimpleDecoratorTick(n)
           \/ RepeatTick(n) \/ RetryTick(n) \/ PreconditionTick(n) \/ UpdatedTick(n)
           \/ LoopTick(n)
  <2>1. Kind[n] # "RunOnce"
    BY <1>4 DEF TranslatorTick, SubTreeTick, SimpleDecoratorTick, RepeatTick, RetryTick,
       PreconditionTick, UpdatedTick, LoopTick, Ticking, Translators, UpdatedKinds
  <2>2. \/ TickChild(n, 1, 0)
        \/ \E s : Answer(n, s) /\ (n \in Unskippable => s # SKIPPED)
    <3>1. CASE TranslatorTick(n) \/ SubTreeTick(n) \/ SimpleDecoratorTick(n)
      BY <3>1 DEF TranslatorTick, SubTreeTick, SimpleDecoratorTick
    <3>2. CASE RepeatTick(n) \/ RetryTick(n)
      BY <3>2 DEF RepeatTick, RetryTick, CountingTick
    <3>3. CASE PreconditionTick(n) \/ LoopTick(n)
      BY <1>3, <3>3 DEF PreconditionTick, LoopTick, Ticking, CannotSkip
    <3>4. CASE UpdatedTick(n)
      BY <1>3, <3>4 DEF UpdatedTick, CannotSkip
    <3>. QED
      BY <1>4, <3>1, <3>2, <3>3, <3>4
  <2>. QED
    BY <1>2, <2>1, <2>2, MoveUnskips
<1>5. CASE \/ InverterReply(n) \/ ForceReply(n) \/ SubTreeReply(n) \/ SimpleDecoratorReply(n)
           \/ RepeatReply(n) \/ RetryReply(n) \/ PreconditionReply(n) \/ UpdatedReply(n)
           \/ KeepRunningReply(n) \/ LoopReply(n)
  <2>1. Kind[n] # "RunOnce" /\ Replied(n, {Kind[n]})
    BY <1>5 DEF InverterReply, ForceReply, SubTreeReply, SimpleDecoratorReply, RepeatReply,
       RetryReply, PreconditionReply, UpdatedReply, KeepRunningReply, LoopReply, Replied,
       UpdatedKinds
  <2>2. n \in Unskippable => ret # SKIPPED
    BY <1>3, <2>1, ReplyUnskipped DEF CannotSkip
  <2>3. \A s \in Completed : Opposite(s) \in Completed
    BY DEF Opposite
  <2>4. \/ TickChild(n, 1, 0) \/ Yield(n)
        \/ \E s : Answer(n, s) /\ (n \in Unskippable => s # SKIPPED)
    <3>1. CASE InverterReply(n) \/ ForceReply(n) \/ SubTreeReply(n) \/ PreconditionReply(n)
      BY <2>2, <2>3, <3>1 DEF InverterReply, ForceReply, SubTreeReply, PreconditionReply
    <3>2. CASE SimpleDecoratorReply(n)
      BY <1>3, <3>2 DEF SimpleDecoratorReply, Replied, CannotSkip
    <3>3. CASE RepeatReply(n) \/ RetryReply(n)
      BY <2>2, <3>3 DEF RepeatReply, RetryReply, CountingReply
    <3>4. CASE UpdatedReply(n) \/ KeepRunningReply(n) \/ LoopReply(n)
      BY <2>2, <3>4 DEF UpdatedReply, KeepRunningReply, LoopReply
    <3>. QED
      BY <1>5, <3>1, <3>2, <3>3, <3>4
  <2>. QED
    BY <1>2, <2>1, <2>4, MoveUnskips
<1>6. CASE RunOnceTick(n)
  <2>1. Kind[n] = "RunOnce" /\ frame \in [Node -> Frame]
    BY <1>6 DEF RunOnceTick, Ticking, TypeOK, CallOK
  <2>2. mem[n].flag => mem[n].returned \in Completed
    BY <2>1 DEF SkipInv, Returned, TypeOK, StateOK
  <2>3. /\ mem' = mem
        /\ pc' = "ticked" => mem[n].flag /\ ret' = IF Otherwise[n] = SKIPPED THEN SKIPPED
                                                   ELSE mem[n].returned
        /\ pc' = "enter" => frame'[n].skips = 0
    <3>1. CASE mem[n].flag /\ Keep
               /\ Answer(n, IF Otherwise[n] = SKIPPED THEN SKIPPED ELSE mem[n].returned)
      BY <3>1 DEF Keep, Answer, Return, Go
    <3>2. CASE SetRunning(n) /\ TickChild(n, 1, 0)
      BY <2>1, <3>2 DEF SetRunning, TickChild, Go
    <3>. QED
      BY <1>6, <3>1, <3>2 DEF RunOnceTick
  <2>. QED
    BY <1>2, <1>3, <2>1, <2>2, <2>3 DEF Unskips, CannotSkip
<1>7. CASE RunOnceReply(n)
  <2>1. Kind[n] = "RunOnce" /\ Replied(n, {Kind[n]})
    BY <1>7 DEF RunOnceReply, Replied
  <2>2. pc' = "ticked" /\ ret' = ret
    BY <1>7 DEF RunOnceReply, Answer, Return, Go
  <2>3. n \in Unskippable => ret # SKIPPED
    BY <1>3, <2>1, ReplyUnskipped DEF CannotSkip
  <2>4. mem'[n].flag => mem'[n].returned \in Completed
    <3>1. mem[n] \in Memory /\ (mem[n].flag => mem[n].returned \in Completed)
      BY <2>1 DEF SkipInv, Returned, TypeOK, StateOK
    <3>2. PICK m : m = IF ret \in Completed
                       THEN [mem[n] EXCEPT !.flag = TRUE, !.returned = ret] ELSE mem[n]
      OBVIOUS
    <3>3. m.flag => m.returned \in Completed
      BY <3>1, <3>2 DEF Memory
    <3>4. ResetIfCompleted(n, m)
      BY <1>7, <3>2 DEF RunOnceReply
    <3>5. mem'[n] = m
      <4>1. ResetChild(n, m) => mem'[n] = m
        BY DEF ResetChild, ResetChildren, MemAfter
      <4>2. Remember(n, m) => mem'[n] = m
        BY DEF Remember, TypeOK, StateOK
      <4>. QED
        BY <3>4, <4>1, <4>2 DEF ResetIfCompleted
    <3>. QED
      BY <3>3, <3>5
  <2>. QED
    BY <1>2, <2>1, <2>2, <2>3, <2>4 DEF Unskips
<1>. QED
  BY <1>4, <1>5, <1>6, <1>7 DEF DecoratorTick

\* What one call of tick() leaves in the frames: its own is new or gone, the callers'
\* are as they were.
LEMMA FramesOnCall ==
    ASSUME TypeOK, NEW n \in Node, Shape(n)
    PROVE  /\ pc' \in {"enter", "ticked", "rest"}
           /\ pc' = "ticked" => cur' = n
           /\ pc' = "enter" => cur' \in Kids(n)
           /\ pc' # "rest" => \A a \in Node \ {n} : frame'[a] = frame[a]
<1>1. frame \in [Node -> Frame]
  BY DEF TypeOK, CallOK
<1>2. ASSUME NEW j \in Positions(n), NEW k, TickChild(n, j, k)
      PROVE  pc' = "enter" /\ cur' \in Kids(n) /\ \A a \in Node \ {n} : frame'[a] = frame[a]
  BY <1>1, <1>2 DEF TickChild, Go, Kids
<1>3. ASSUME NEW s, Return(n, s)
      PROVE  pc' = "ticked" /\ cur' = n /\ \A a \in Node \ {n} : frame'[a] = frame[a]
  BY <1>1, <1>3 DEF Return, Go
<1>4. Unwind => pc' = "rest"
  BY DEF Unwind
<1>. QED
  BY <1>2, <1>3, <1>4 DEF Shape, MoveShape

\* A step of the tick() of n.
LEMMA UnskipsKept ==
    ASSUME ExecInv, SkipInv, NEW n \in Node, OnCallOf(n), Shape(n), Own(n), Unskips(n)
    PROVE  SkipInv'
<1>1. TypeOK /\ InCall /\ Above[n] \subseteq Above[cur]
  BY ExecFacts, OnCallFacts DEF ExecInv
<1>2. /\ pc' \in {"enter", "ticked", "rest"}
      /\ pc' = "ticked" => cur' = n
      /\ pc' = "enter" => cur' \in Kids(n)
      /\ pc' # "rest" => \A a \in Node \ {n} : frame'[a] = frame[a]
  BY <1>1, FramesOnCall
<1>3. ASSUME NEW x \in Node
      PROVE  /\ Kind[x] \in LinearKinds /\ Kids(x) \subseteq Unskippable => mem'[x].count = 0
             /\ Kind[x] = "RunOnce" /\ mem'[x].flag => mem'[x].returned \in Completed
  <2>1. CASE x = n
    BY <2>1 DEF Unskips
  <2>2. CASE x # n
    <3>1. mem'[x] = mem[x] \/ (mem'[x] = FreshMem(x) /\ Kind[x] \notin KeepsMemory)
      BY <2>2 DEF Shape, MemShape
    <3>2. FreshMem(x).count = 0 /\ (Kind[x] = "RunOnce" => Kind[x] \in KeepsMemory)
      BY DEF FreshMem, KeepsMemory
    <3>. QED
      BY <3>1, <3>2 DEF SkipInv, CountsNoSkips, Returned
  <2>. QED
    BY <2>1, <2>2
<1>4. ASSUME InCall', NEW a \in Above[cur'], Kids(a) \subseteq Unskippable
      PROVE  frame'[a].skips = 0
  <2>1. pc' \in {"enter", "ticked"}
    BY <1>2, <1>4 DEF InCall
  <2>2. a \in Above[n] \/ (a = n /\ pc' = "enter")
    BY <1>2, <1>4, <2>1, KidFacts
  <2>3. CASE a \in Above[n]
    <3>1. frame'[a] = frame[a]
      BY <1>2, <2>1, <2>3, AboveFacts
    <3>. QED
      BY <1>1, <1>4, <2>3, <3>1 DEF SkipInv, CountsNoSkips
  <2>. QED
    BY <1>4, <2>2, <2>3 DEF Unskips
<1>5. NotSkipped'
  <2>. SUFFICES ASSUME NEW c \in Unskippable
                PROVE  /\ status'[c] # SKIPPED
                       /\ pc' = "ticked" /\ cur' = c => ret' # SKIPPED
    BY <1>2 DEF NotSkipped, Unskippable, CannotSkip, Kids, Positions
  <2>1. c \in Node /\ status[c] # SKIPPED
    BY UnskippableFacts DEF SkipInv, NotSkipped
  <2>2. CASE c = n
    BY <2>1, <2>2 DEF Unskips, Own, OwnStatus
  <2>3. CASE c # n
    BY <1>2, <2>1, <2>3 DEF Own, Others
  <2>. QED
    BY <2>2, <2>3
<1>6. CountsNoSkips'
  BY <1>3, <1>4 DEF CountsNoSkips, Unskippable, CannotSkip, Kids, Positions
<1>7. Returned'
  BY <1>3 DEF Returned
<1>. QED
  BY <1>5, <1>6, <1>7 DEF SkipInv

\* Steps that leave the counts, or clear them, and keep the frames of the calls under way.
LEMMA QuietSkips ==
    ASSUME ExecInv, SkipInv,
           \A x \in Node : mem'[x] = mem[x] \/ (mem'[x] = FreshMem(x) /\ Kind[x] \notin KeepsMemory),
           InCall' => cur' = cur /\ frame' = frame /\ (InCall \/ cur \in Roots),
           \A c \in Unskippable : status'[c] # SKIPPED,
           pc' \in {"ticked", "preempted", "reply"} /\ cur' \in Unskippable => ret' # SKIPPED
    PROVE  SkipInv'
<1>1. ASSUME NEW x \in Node
      PROVE  /\ Kind[x] \in LinearKinds /\ Kids(x) \subseteq Unskippable => mem'[x].count = 0
             /\ Kind[x] = "RunOnce" /\ mem'[x].flag => mem'[x].returned \in Completed
  <2>1. FreshMem(x).count = 0 /\ (Kind[x] = "RunOnce" => Kind[x] \in KeepsMemory)
    BY DEF FreshMem, KeepsMemory
  <2>. QED
    BY <2>1 DEF SkipInv, CountsNoSkips, Returned
<1>2. ASSUME InCall', NEW a \in Above[cur'], Kids(a) \subseteq Unskippable
      PROVE  frame'[a].skips = 0
  BY <1>2, TreeAssumption DEF SkipInv, CountsNoSkips
<1>3. CountsNoSkips'
  BY <1>1, <1>2 DEF CountsNoSkips, Unskippable, CannotSkip, Kids, Positions
<1>4. Returned'
  BY <1>1 DEF Returned
<1>5. NotSkipped'
  BY DEF NotSkipped, Unskippable, CannotSkip, Kids, Positions
<1>. QED
  BY <1>3, <1>4, <1>5 DEF SkipInv

\* executeTick() around tick().
LEMMA AroundSkips ==
    ASSUME ExecInv, SkipInv, NEW n \in Node, ExecuteTick(n)
    PROVE  SkipInv'
<1>1. TypeOK /\ cur = n /\ InCall
  BY ExecFacts DEF ExecuteTick, PreConditionAnswers, PreConditionHalts, PreTickSubstitutes,
     CallTick, Leave, PreConditionThrows, PostConditionThrows, InCall
<1>2. \A c \in Unskippable : c \in Node /\ status[c] # SKIPPED
  BY UnskippableFacts DEF SkipInv, NotSkipped
<1>3. n \in Unskippable => SKIPPED \notin PreOutcomes(n) /\ "WHILE_TRUE" \notin PreConds[n]
  BY UnskippableFacts DEF PreOutcomes, CannotSkip
<1>4. CASE PreConditionAnswers(n) \/ PreTickSubstitutes(n) \/ CallTick(n)
  <2>1. /\ cur' = n /\ status' = status /\ mem' = mem /\ frame' = frame
        /\ pc' \in {"preempted", "tick"}
        /\ pc' = "preempted" => ret' \in Completed \cup PreOutcomes(n)
    BY <1>4 DEF PreConditionAnswers, PreTickSubstitutes, CallTick, Go, Keep
  <2>. QED
    BY <1>1, <1>2, <1>3, <2>1, QuietSkips
<1>5. CASE PreConditionHalts(n)
  <2>1. /\ cur' = n /\ frame' = frame /\ n \notin Unskippable
        /\ \E H : status' = StatusAfter(H, {}) /\ mem' = MemAfter(H)
    BY <1>3, <1>5 DEF PreConditionHalts, Go
  <2>2. \A x \in Node : /\ status'[x] \in {IDLE, status[x]}
                        /\ mem'[x] = mem[x] \/ (mem'[x] = FreshMem(x) /\ Kind[x] \notin KeepsMemory)
    BY <2>1 DEF StatusAfter, MemAfter
  <2>3. \A c \in Unskippable : status'[c] # SKIPPED
    BY <1>2, <2>2
  <2>. QED
    BY <1>1, <2>1, <2>2, <2>3, QuietSkips
<1>6. CASE Leave(n)
  <2>1. mem' = mem
    BY <1>6 DEF Leave, Throw
  <2>2. \A x \in Node : status'[x] = SKIPPED => status[x] = SKIPPED
    BY <1>1, <1>6 DEF Leave, TypeOK, StateOK
  <2>3. \/ pc' = "rest"
        \/ /\ pc' = "reply" /\ cur' = n /\ frame' = frame
           /\ ret' = ret \/ ret' \in Completed
    BY <1>6 DEF Leave, Throw, Unwind, Go
  <2>4. n \in Unskippable => ret # SKIPPED
    BY <1>1, <1>6 DEF SkipInv, NotSkipped, Leave
  <2>. QED
    BY <1>1, <1>2, <2>1, <2>2, <2>3, <2>4, QuietSkips DEF InCall
<1>7. CASE ScriptThrows(n)
  <2>1. pc' = "rest" /\ mem' = mem /\ status' = status
    BY <1>7 DEF ScriptThrows, PreConditionThrows, PostConditionThrows, Throw, Unwind
  <2>. QED
    BY <1>2, <2>1, QuietSkips DEF InCall
<1>. QED
  BY <1>4, <1>5, <1>6, <1>7 DEF ExecuteTick, ScriptThrows

\* The calls of the tree.
LEMMA RootSkips ==
    ASSUME ExecInv, SkipInv,
           \/ \E o \in TickOption : TickRoot(o)
           \/ TickAgain \/ RootAnswers \/ SleepEnds \/ HaltRoot \/ HaltVisit
    PROVE  SkipInv'
<1>1. TypeOK /\ RestsAtRoot
  BY ExecFacts DEF ExecInv, HaltInv
<1>2. \A c \in Unskippable : c \in Node /\ status[c] # SKIPPED
  BY UnskippableFacts DEF SkipInv, NotSkipped
<1>3. CASE TickAgain \/ SleepEnds \/ \E o \in TickOption : TickRoot(o)
  <2>1. status' = status /\ mem' = mem /\ frame' = frame /\ pc' = "enter" /\ cur' = cur
    BY <1>3 DEF TickAgain, SleepEnds, TickRoot, Go, Keep
  <2>2. cur \in Roots
    BY <1>1, <1>3 DEF TickAgain, SleepEnds, TickRoot, RestsAtRoot
  <2>. QED
    BY <1>2, <2>1, <2>2, QuietSkips
<1>4. CASE RootAnswers
  <2>1. mem' = mem /\ pc' \in {"rest", "sleeping"}
    BY <1>4 DEF RootAnswers, Go
  <2>2. \A c \in Node : status'[c] \in {IDLE, status[c]}
    BY <1>1, <1>4 DEF RootAnswers, TypeOK, StateOK
  <2>3. \A c \in Unskippable : status'[c] # SKIPPED
    BY <1>2, <2>2
  <2>. QED
    BY <2>1, <2>3, QuietSkips DEF InCall
<1>5. CASE HaltRoot \/ HaltVisit
  <2>1. /\ pc' \in {"rest", "halting"}
        /\ \E H, R : status' = StatusAfter(H, R) /\ mem' = MemAfter(H)
    BY <1>5 DEF HaltRoot, HaltVisit, Go
  <2>2. \A x \in Node : /\ status'[x] \in {IDLE, status[x]}
                        /\ mem'[x] = mem[x] \/ (mem'[x] = FreshMem(x) /\ Kind[x] \notin KeepsMemory)
    BY <2>1 DEF StatusAfter, MemAfter
  <2>3. \A c \in Unskippable : status'[c] # SKIPPED
    BY <1>2, <2>2
  <2>. QED
    BY <2>1, <2>2, <2>3, QuietSkips DEF InCall
<1>. QED
  BY <1>3, <1>4, <1>5

\* What tick() of any class does.
LEMMA AllUnskip ==
    ASSUME TypeOK, SkipInv, NEW n \in Node, LeafTick(n) \/ ControlTick(n) \/ DecoratorTick(n)
    PROVE  Unskips(n)
<1>1. CASE ControlTick(n)
  <2>1. CASE \/ ParallelTick(n, {"Parallel"}, {Limit[n], FailLimit[n]})
             \/ ParallelTick(n, {"ParallelAll"}, {Limit[n]})
             \/ ParallelReply(n) \/ ParallelAllReply(n)
    <3>1. Kind[n] \in ParallelKinds
      BY <2>1 DEF ParallelTick, ParallelReply, ParallelAllReply, Ticking, Replied, ParallelKinds
    <3>. QED
      BY <2>1, <3>1, ParallelUnskips
  <2>. QED
    BY <1>1, <2>1, LinearUnskips, ReactiveUnskips, BranchUnskips DEF ControlTick
<1>. QED
  BY <1>1, LeafUnskips, DecoratorUnskips

\* Every step keeps the invariant.
LEMMA SkipNextKept ==
    ASSUME ExecInv, SkipInv, [Next]_vars
    PROVE  SkipInv'
<1>1. HaltInv /\ TypeOK
  BY ExecFacts DEF ExecInv
<1>2. CASE \E n \in {cur} \cup Above[cur] : NodeStep(n)
  <2>1. PICK n \in {cur} \cup Above[cur] : NodeStep(n)
    BY <1>2
  <2>2. n \in Node
    BY <1>1, <2>1, NodeStepShape
  <2>3. CASE LeafTick(n) \/ ControlTick(n) \/ DecoratorTick(n)
    <3>1. OnCallOf(n) /\ Shape(n)
      BY <1>1, <2>2, <2>3, LeafShape, ControlShape, DecoratorShape
    <3>2. Own(n)
      BY <2>2, <2>3, LeafOwn, ControlOwn, DecoratorOwn
    <3>3. Unskips(n)
      BY <1>1, <2>2, <2>3, AllUnskip
    <3>. QED
      BY <2>2, <3>1, <3>2, <3>3, UnskipsKept
  <2>. QED
    BY <2>1, <2>2, <2>3, AroundSkips DEF NodeStep
<1>3. CASE UNCHANGED vars \/ \E n \in Wakers : WakeUp(n)
  <2>1. UNCHANGED <<status, mem, frame, pc, cur, ret>>
    BY <1>3 DEF vars, WakeUp
  <2>. QED
    BY <2>1, QuietSkips DEF InCall, SkipInv, NotSkipped
<1>. QED
  BY <1>2, <1>3, RootSkips DEF Next, CallStep

\* A subtree in which nothing answers SKIPPED is never skipped: no pre-condition of it
\* skips, no callback of it answers so, and no control node comes to it by counting.
THEOREM WholeSubtreesUnskipped == Spec => []SkipInv
<1>1. Init => SkipInv
  <2>. SUFFICES ASSUME Init PROVE SkipInv
    OBVIOUS
  <2>1. /\ pc = "rest"
        /\ \A x \in Node : status[x] = IDLE /\ mem[x].count = 0 /\ ~mem[x].flag
    BY DEF Init, FreshMem
  <2>. QED
    BY <2>1, UnskippableFacts DEF SkipInv, CountsNoSkips, InCall, Returned, NotSkipped
<1>2. ExecInv /\ SkipInv /\ [Next]_vars => SkipInv'
  BY SkipNextKept
<1>. QED
  BY <1>1, <1>2, ExecutionInvariant, PTL DEF Spec

-------------------------------------------------------------------------------
(***************************************************************************)
(* Who makes a tree that answers RUNNING progress: a RUNNING leaf, or the  *)
(* wake-up signal of a node that gave the control back.                    *)
(***************************************************************************)

(* The trees the theorem is about                                          *)

(***************************************************************************)
(* The classes that answer RUNNING only when a child does or with a signal.*)
(* A Parallel that asks for a fixed number of children waits for those that*)
(* were skipped.                                                           *)
(***************************************************************************)
Wakeful(n) ==
    /\ Kind[n] \notin {"WaitValueUpdate", "KeepRunningUntilFailure", "LoopNode"}
    /\ Kind[n] = "SimpleDecorator" => RUNNING \notin Answers[n]
    /\ Kind[n] = "Precondition" => Otherwise[n] # RUNNING
    /\ Kind[n] = "Parallel" => Limit[n] < 0 \/ Kids(n) \subseteq Unskippable

-------------------------------------------------------------------------------
(* The inductive invariant                                                 *)

Within(x, k) == x = k \/ k \in Above[x]

\* A leaf of this subtree is at work.
Works(k) == \E x \in Node : Within(x, k) /\ Kind[x] \in LeafKinds /\ status[x] = RUNNING

\* RUNNING is the answer of a leaf, of a node above a busy one, or of one that yielded.
Answered ==
    /\ pc \in {"ticked", "reply"} /\ ret = RUNNING =>
           ready \/ Works(cur) \/ (pc = "ticked" /\ Kind[cur] \in LeafKinds)
    /\ pc = "preempted" => ret # RUNNING

\* The children before j that are not in the lists.
Unlisted(n, m, j) == {i \in 1 .. j - 1 : i \notin Done(m)}

\* Of the children a parallel node has asked in this tick, one is busy or all that are
\* not in its lists were skipped.
Asked(n, m, j, skips) ==
    \/ ready
    \/ \E i \in 1 .. j - 1 : Works(Children[n][i])
    \/ Cardinality(Unlisted(n, m, j)) <= skips

ParallelAsked(n) == Asked(n, mem[n], frame[n].j, frame[n].skips)

AllAsked == InCall => \A a \in Above[cur] : Kind[a] \in ParallelKinds => ParallelAsked(a)

\* The lists are of children.
Listed(n) ==
    Kind[n] \in ParallelKinds =>
        mem[n].succeeded \subseteq Positions(n) /\ mem[n].failed \subseteq Positions(n)

AllListed == \A n \in Node : Listed(n)

BusyInv == Answered /\ AllAsked /\ AllListed

-------------------------------------------------------------------------------
(* Subtrees                                                                *)

\* The leaves of a subtree go on.
LEMMA WorksOn ==
    ASSUME NEW k, Works(k), ready => ready',
           \A x \in Node : Within(x, k) /\ Kind[x] \in LeafKinds /\ status[x] = RUNNING =>
               status'[x] = RUNNING
    PROVE  Works(k)'
BY DEF Works, Within

\* A leaf at work below a child is at work below the parent.
LEMMA WorksAbove ==
    ASSUME NEW n \in Node, NEW k \in Kids(n), Works(k)
    PROVE  Works(n)
<1>1. PICK x \in Node : Within(x, k) /\ Kind[x] \in LeafKinds /\ status[x] = RUNNING
  BY DEF Works
<1>2. n \in Above[k] /\ k \in Node
  BY KidFacts
<1>3. n \in Above[x]
  BY <1>1, <1>2, AboveFacts DEF Within
<1>. QED
  BY <1>1, <1>3 DEF Works, Within

\* The subtrees of two children have no node in common.
LEMMA Apart ==
    ASSUME NEW n \in Node, NEW k \in Kids(n), NEW l \in Kids(n),
           NEW x \in Node, Within(x, k), Within(x, l)
    PROVE  k = l
<1>1. /\ k \in Node /\ l \in Node /\ Above[k] = {n} \cup Above[n] /\ Above[l] = {n} \cup Above[n]
      /\ k # n /\ k \notin Above[n] /\ l # n /\ l \notin Above[n]
  BY KidFacts
<1>2. k = l \/ k \in Above[l] \/ l \in Above[k]
  BY PathAssumption DEF Within
<1>. QED
  BY <1>1, <1>2

\* A reset changes the status of no node outside the subtrees of the children it is for.
LEMMA ResetElsewhere ==
    ASSUME NEW n \in Node, NEW C \in SUBSET Kids(n), NEW m, ResetChildren(n, C, m),
           NEW x \in Node, \A c \in C : ~Within(x, c)
    PROVE  status'[x] = status[x]
<1>. DEFINE H == HaltedBy(C)
<1>1. \A y \in H : \E c \in C : Within(y, c)
  BY DEF HaltedBy, HaltedFrom, Within
<1>2. status' = StatusAfter(H, C)
  BY DEF ResetChildren
<1>. HIDE DEF H
<1>3. x \notin C /\ x \notin H
  BY <1>1 DEF Within
<1>4. x \notin Roots => Parent[x] \notin H
  <2>. SUFFICES ASSUME x \notin Roots, NEW c \in C, Within(Parent[x], c) PROVE FALSE
    BY <1>1
  <2>1. c \in Above[x]
    BY TreeAssumption DEF Within
  <2>. QED
    BY <2>1 DEF Within
<1>. QED
  BY <1>2, <1>3, <1>4 DEF StatusAfter, ResetByHalt

\* tick() changes the status of no node outside its subtree.
LEMMA ShapeElsewhere ==
    ASSUME TypeOK, NEW n \in Node, Shape(n), NEW x \in Node, ~Within(x, n)
    PROVE  status'[x] = status[x]
<1>1. CASE \E C \in SUBSET Kids(n) : \E m : ResetChildren(n, C, m)
  <2>1. PICK C \in SUBSET Kids(n) : \E m : ResetChildren(n, C, m)
    BY <1>1
  <2>2. \A c \in C : ~Within(x, c)
    <3>. SUFFICES ASSUME NEW c \in C, Within(x, c) PROVE FALSE
      OBVIOUS
    <3>1. n \in Above[c] /\ c \in Node
      BY KidFacts
    <3>. QED
      BY <3>1, AboveFacts DEF Within
  <2>. QED
    BY <2>1, <2>2, ResetElsewhere
<1>2. x # n /\ status \in [Node -> NodeStatus]
  BY DEF Within, TypeOK, StateOK
<1>. QED
  BY <1>1, <1>2 DEF Shape, StatusShape

\* How a step of tick() ends.
LEMMA MoveFacts ==
    ASSUME NEW n
    PROVE  /\ \A s : Answer(n, s) => pc' = "ticked" /\ ret' = s /\ ready' = ready
           /\ Yield(n) => ready' = TRUE
           /\ \A j, k : TickChild(n, j, k) => pc' = "enter" /\ ready' = ready
           /\ Unwind => pc' = "rest" /\ ready' = ready
BY DEF Answer, Yield, Return, TickChild, Unwind, Go

-------------------------------------------------------------------------------
(* What tick() of one node does                                            *)

Wakes(n) ==
    /\ ready => ready'
    /\ pc' = "ticked" /\ ret' = RUNNING => ready' \/ Works(n)' \/ Kind[n] \in LeafKinds
    /\ pc' = "enter" /\ Kind[n] \in ParallelKinds => ParallelAsked(n)'
    /\ Listed(n)'

\* A RUNNING child goes on: no other one is reset than its siblings.
LEMMA ChildWorks ==
    ASSUME TypeOK, BusyInv, NEW n \in Node, NEW kinds, Replied(n, kinds), ret = RUNNING,
           ready => ready',
           \/ UNCHANGED status
           \/ \E C \in SUBSET (Kids(n) \ {cur}) : \E m : ResetChildren(n, C, m)
    PROVE  ready' \/ Works(n)'
<1>1. cur \in Kids(n) /\ cur \in Node
  BY ReplyFacts DEF TypeOK, CallOK
<1>2. ready \/ Works(cur)
  BY DEF BusyInv, Answered, Replied
<1>3. CASE Works(cur)
  <2>1. Works(n)
    BY <1>1, <1>3, WorksAbove
  <2>2. PICK c : c = cur
    OBVIOUS
  <2>3. ASSUME NEW x \in Node, Within(x, c)
        PROVE  status'[x] = status[x]
    <3>1. ASSUME NEW C \in SUBSET (Kids(n) \ {c}), NEW m, ResetChildren(n, C, m)
          PROVE  status'[x] = status[x]
      <4>1. \A d \in C : ~Within(x, d)
        BY <1>1, <2>2, <2>3, Apart
      <4>. QED
        BY <3>1, <4>1, ResetElsewhere
    <3>. QED
      BY <2>2, <3>1
  <2>4. PICK x \in Node : Within(x, c) /\ Kind[x] \in LeafKinds /\ status[x] = RUNNING
    BY <1>3, <2>2 DEF Works
  <2>5. status'[x] = RUNNING
    BY <2>3, <2>4
  <2>6. Within(x, n)
    <3>1. n \in Above[c] /\ c \in Node
      BY <1>1, <2>2, KidFacts
    <3>. QED
      BY <2>4, <3>1, AboveFacts DEF Within
  <2>. QED
    BY <2>4, <2>5, <2>6 DEF Works, Within
<1>. QED
  BY <1>2, <1>3

\* A node that answers RUNNING with a signal or because its child does.
LEMMA OtherWakes ==
    ASSUME TypeOK, BusyInv, NEW n \in Node,
           Kind[n] \notin LeafKinds \cup ParallelKinds \cup {"RunOnce"}, ready => ready',
           pc' = "ticked" /\ ret' = RUNNING =>
               \/ ready'
               \/ /\ Replied(n, {Kind[n]}) /\ ret = RUNNING
                  /\ \/ UNCHANGED status
                     \/ \E C \in SUBSET (Kids(n) \ {cur}) : \E m : ResetChildren(n, C, m)
    PROVE  Wakes(n)
<1>1. pc' = "ticked" /\ ret' = RUNNING => ready' \/ Works(n)'
  BY ChildWorks
<1>. QED
  BY <1>1 DEF Wakes, Listed

\* The callback of a leaf answers.
LEMMA LeafWakes ==
    ASSUME TypeOK, BusyInv, NEW n \in Node, LeafTick(n)
    PROVE  Wakes(n)
<1>1. Kind[n] \in LeafKinds
  BY DEF LeafTick, SyncTick, SimpleActionTick, StatefulTick, Ticking, LeafKinds
<1>2. Kind[n] \notin ParallelKinds \cup {"RunOnce"}
  BY <1>1 DEF LeafKinds, ParallelKinds
<1>3. ready => ready'
  BY MoveFacts DEF LeafTick, SyncTick, SimpleActionTick, StatefulTick, Throw
<1>. QED
  BY <1>1, <1>2, <1>3 DEF Wakes, Listed

\* The linear classes.
LEMMA LinearWakes ==
    ASSUME TypeOK, BusyInv, NEW n \in Node,
           \/ SequenceTick(n) \/ SequenceReply(n) \/ FallbackTick(n) \/ FallbackReply(n)
           \/ MemoryTick(n) \/ MemoryReply(n)
    PROVE  Wakes(n)
<1>1. Kind[n] \notin LeafKinds \cup ParallelKinds \cup {"RunOnce"}
  BY DEF SequenceTick, SequenceReply, FallbackTick, FallbackReply, MemoryTick, MemoryReply,
     LinearTick, Ticking, Replied, LeafKinds, ParallelKinds
<1>2. CASE SequenceTick(n) \/ FallbackTick(n) \/ MemoryTick(n)
  <2>1. pc' = "enter" /\ ready' = ready
    BY <1>2, MoveFacts DEF SequenceTick, FallbackTick, MemoryTick, LinearTick
  <2>. QED
    BY <1>1, <2>1, OtherWakes
<1>3. CASE SequenceReply(n) \/ FallbackReply(n) \/ MemoryReply(n)
  <2>1. Replied(n, {Kind[n]})
    BY <1>3 DEF SequenceReply, FallbackReply, MemoryReply, Replied
  <2>2. \A yields : LinearNext(n, yields) =>
            (ready => ready') /\ (pc' = "ticked" => ready')
    BY MoveFacts DEF LinearNext
  <2>3. \A s \in Completed : LinearEnd(n, s) =>
            ready' = ready /\ ret' \in Completed \cup {SKIPPED}
    BY MoveFacts DEF LinearEnd
  <2>4. \A stop \in Completed : Opposite(stop) \in Completed
    BY DEF Opposite
  <2>5. \A stop \in Completed : \A yields : LinearReply(n, stop, yields) =>
            /\ ready => ready'
            /\ pc' = "ticked" /\ ret' = RUNNING =>
                  ready' \/ (ret = RUNNING /\ UNCHANGED status)
    BY <2>2, <2>3, <2>4, MoveFacts DEF LinearReply, Keep
  <2>6. CASE SequenceReply(n) \/ FallbackReply(n)
    BY <1>1, <2>1, <2>5, <2>6, OtherWakes DEF SequenceReply, FallbackReply
  <2>7. CASE MemoryReply(n)
    <3>1. /\ ready => ready'
          /\ pc' = "ticked" /\ ret' = RUNNING =>
                ready' \/ (ret = RUNNING /\ UNCHANGED status)
      BY <2>2, <2>3, <2>7, MoveFacts DEF MemoryReply, Keep
    <3>. QED
      BY <1>1, <2>1, <3>1, OtherWakes
  <2>. QED
    BY <1>3, <2>6, <2>7
<1>. QED
  BY <1>2, <1>3

\* The reactive classes: the other children are halted.
LEMMA ReactiveWakes ==
    ASSUME TypeOK, BusyInv, NEW n \in Node,
           \/ ReactiveSequenceTick(n) \/ ReactiveSequenceReply(n)
           \/ ReactiveFallbackTick(n) \/ ReactiveFallbackReply(n)
    PROVE  Wakes(n)
<1>1. Kind[n] \notin LeafKinds \cup ParallelKinds \cup {"RunOnce"}
  BY DEF ReactiveSequenceTick, ReactiveSequenceReply, ReactiveFallbackTick,
     ReactiveFallbackReply, ReactiveTick, ReactiveReply, Ticking, Replied, LeafKinds,
     ParallelKinds
<1>2. \A kinds : ReactiveTick(n, kinds) => pc' = "enter" /\ ready' = ready
  BY MoveFacts DEF ReactiveTick
<1>3. ReactiveRunning(n) =>
        /\ ready' = ready
        /\ \E C \in SUBSET (Kids(n) \ {cur}) : \E m : ResetChildren(n, C, m)
  BY MoveFacts DEF ReactiveRunning
<1>4. ASSUME NEW kinds, NEW stop \in Completed, ReactiveReply(n, kinds, stop)
      PROVE  Wakes(n)
  <2>1. Replied(n, {Kind[n]})
    BY <1>4 DEF ReactiveReply, Replied
  <2>2. Opposite(stop) \in Completed
    BY DEF Opposite
  <2>3. /\ ready' = ready
        /\ pc' = "ticked" /\ ret' = RUNNING => ret = RUNNING /\ ReactiveRunning(n)
    <3>1. CASE ret = RUNNING /\ ReactiveRunning(n)
      BY <1>3, <3>1
    <3>2. CASE \E s \in {stop, Opposite(stop), SKIPPED} : Answer(n, s)
      BY <2>2, <3>2, MoveFacts
    <3>3. CASE \E j, k : TickChild(n, j, k)
      BY <3>3, MoveFacts
    <3>4. \/ ret = RUNNING /\ ReactiveRunning(n)
          \/ \E s \in {stop, Opposite(stop), SKIPPED} : Answer(n, s)
          \/ \E j, k : TickChild(n, j, k)
      BY <1>4 DEF ReactiveReply
    <3>. QED
      BY <3>1, <3>2, <3>3, <3>4
  <2>. QED
    BY <1>1, <1>3, <2>1, <2>3, OtherWakes
<1>5. CASE ReactiveSequenceTick(n) \/ ReactiveFallbackTick(n)
  <2>1. pc' = "enter" /\ ready' = ready
    BY <1>2, <1>5 DEF ReactiveSequenceTick, ReactiveFallbackTick
  <2>. QED
    BY <1>1, <2>1, OtherWakes
<1>6. CASE ReactiveSequenceReply(n) \/ ReactiveFallbackReply(n)
  BY <1>4, <1>6 DEF ReactiveSequenceReply, ReactiveFallbackReply
<1>. QED
  BY <1>5, <1>6

\* IfThenElse, WhileDoElse and Switch.
LEMMA BranchWakes ==
    ASSUME TypeOK, BusyInv, NEW n \in Node,
           \/ IfThenElseTick(n) \/ IfThenElseReply(n)
           \/ WhileDoElseTick(n) \/ WhileDoElseReply(n)
           \/ SwitchTick(n) \/ SwitchReply(n)
    PROVE  Wakes(n)
<1>1. Kind[n] \notin LeafKinds \cup ParallelKinds \cup {"RunOnce"}
  BY DEF IfThenElseTick, IfThenElseReply, WhileDoElseTick, WhileDoElseReply, SwitchTick,
     SwitchReply, Ticking, Replied, LeafKinds, ParallelKinds
<1>2. CASE IfThenElseTick(n) \/ WhileDoElseTick(n) \/ SwitchTick(n)
  <2>1. pc' = "enter" /\ ready' = ready
    BY <1>2, MoveFacts DEF IfThenElseTick, WhileDoElseTick, SwitchTick
  <2>. QED
    BY <1>1, <2>1, OtherWakes
<1>3. CASE IfThenElseReply(n) \/ WhileDoElseReply(n) \/ SwitchReply(n)
  <2>1. Replied(n, {Kind[n]})
    BY <1>3 DEF IfThenElseReply, WhileDoElseReply, SwitchReply, Replied
  <2>2. /\ ready' = ready
        /\ pc' = "ticked" /\ ret' = RUNNING => ret = RUNNING /\ UNCHANGED status
    <3>1. CASE IfThenElseReply(n)
      BY <3>1, MoveFacts DEF IfThenElseReply, Keep, Throw
    <3>2. CASE WhileDoElseReply(n)
      <4>1. \/ \E s : Answer(n, s) /\ (s = RUNNING => ret = RUNNING /\ UNCHANGED status)
            \/ \E j, k : TickChild(n, j, k)
        BY <3>2 DEF WhileDoElseReply, Keep
      <4>. QED
        BY <4>1, MoveFacts
    <3>3. CASE SwitchReply(n)
      BY <3>3, MoveFacts DEF SwitchReply, Remember
    <3>. QED
      BY <1>3, <3>1, <3>2, <3>3
  <2>. QED
    BY <1>1, <2>1, <2>2, OtherWakes
<1>. QED
  BY <1>2, <1>3

\* The decorators.
LEMMA DecoratorWakes ==
    ASSUME TypeOK, SkipInv, BusyInv, NEW n \in Node, Wakeful(n), DecoratorTick(n)
    PROVE  Wakes(n)
<1>1. Kind[n] \in DecoratorKinds
  BY DEF DecoratorTick, TranslatorTick, InverterReply, ForceReply, KeepRunningReply,
     SubTreeTick, SubTreeReply, SimpleDecoratorTick, SimpleDecoratorReply,
     RepeatTick, RepeatReply, RetryTick, RetryReply, RunOnceTick, RunOnceReply,
     PreconditionTick, PreconditionReply, UpdatedTick, UpdatedReply, LoopTick, LoopReply,
     Ticking, Replied, Translators, DecoratorKinds, UpdatedKinds
<1>2. Kind[n] \notin LeafKinds \cup ParallelKinds
  BY <1>1 DEF DecoratorKinds, UpdatedKinds, LeafKinds, ParallelKinds
<1>3. \A m : ResetIfCompleted(n, m) /\ ret = RUNNING => UNCHANGED status
  BY DEF ResetIfCompleted, Remember
<1>4. CASE \/ TranslatorTick(n) \/ SubTreeTick(n) \/ SimpleDecoratorTick(n)
           \/ RepeatTick(n) \/ RetryTick(n) \/ PreconditionTick(n) \/ UpdatedTick(n)
  <2>1. Kind[n] # "RunOnce"
    BY <1>4 DEF TranslatorTick, SubTreeTick, SimpleDecoratorTick, RepeatTick, RetryTick,
       PreconditionTick, UpdatedTick, Ticking, Translators, UpdatedKinds
  <2>2. ready' = ready /\ ~(pc' = "ticked" /\ ret' = RUNNING)
    <3>1. CASE TranslatorTick(n) \/ SubTreeTick(n) \/ SimpleDecoratorTick(n)
      BY <3>1, MoveFacts DEF TranslatorTick, SubTreeTick, SimpleDecoratorTick
    <3>2. CASE RepeatTick(n) \/ RetryTick(n)
      <4>1. \A s \in Completed : CountingTick(n, s) =>
                ready' = ready /\ ~(pc' = "ticked" /\ ret' = RUNNING)
        BY MoveFacts DEF CountingTick
      <4>. QED
        BY <3>2, <4>1 DEF RepeatTick, RetryTick
    <3>3. CASE PreconditionTick(n)
      BY <3>3, MoveFacts DEF PreconditionTick, Ticking, Wakeful
    <3>4. CASE UpdatedTick(n)
      <4>1. Kind[n] = "SkipUnlessUpdated"
        BY <3>4 DEF UpdatedTick, Ticking, UpdatedKinds, Wakeful
      <4>2. (\E j, k : TickChild(n, j, k)) \/ Answer(n, SKIPPED)
        BY <3>4, <4>1 DEF UpdatedTick
      <4>3. (\E j, k : TickChild(n, j, k)) => pc' = "enter" /\ ready' = ready
        BY MoveFacts
      <4>4. Answer(n, SKIPPED) => ret' = SKIPPED /\ ready' = ready
        BY MoveFacts
      <4>. QED
        BY <4>2, <4>3, <4>4
    <3>. QED
      BY <1>4, <3>1, <3>2, <3>3, <3>4
  <2>. QED
    BY <1>2, <2>1, <2>2, OtherWakes
<1>5. CASE \/ InverterReply(n) \/ ForceReply(n) \/ SubTreeReply(n) \/ SimpleDecoratorReply(n)
           \/ RepeatReply(n) \/ RetryReply(n) \/ PreconditionReply(n) \/ UpdatedReply(n)
  <2>1. Kind[n] # "RunOnce" /\ Replied(n, {Kind[n]})
    BY <1>5 DEF InverterReply, ForceReply, SubTreeReply, SimpleDecoratorReply, RepeatReply,
       RetryReply, PreconditionReply, UpdatedReply, Replied, UpdatedKinds
  <2>2. \A s \in Completed : Opposite(s) \in Completed
    BY DEF Opposite
  <2>3. /\ ready => ready'
        /\ pc' = "ticked" /\ ret' = RUNNING => ready' \/ (ret = RUNNING /\ UNCHANGED status)
    <3>1. CASE InverterReply(n) \/ ForceReply(n) \/ SubTreeReply(n) \/ PreconditionReply(n)
      <4>1. PICK s : Answer(n, s) /\ (s = RUNNING => ret = RUNNING)
        BY <2>2, <3>1 DEF InverterReply, ForceReply, SubTreeReply, PreconditionReply
      <4>2. ret = RUNNING => UNCHANGED status
        BY <1>3, <3>1 DEF InverterReply, ForceReply, SubTreeReply, PreconditionReply
      <4>3. ready' = ready /\ ret' = s
        BY <4>1, MoveFacts
      <4>. QED
        BY <4>1, <4>2, <4>3
    <3>2. CASE SimpleDecoratorReply(n)
      BY <3>2, MoveFacts DEF SimpleDecoratorReply, Replied, Wakeful
    <3>3. CASE RepeatReply(n) \/ RetryReply(n)
      BY <2>2, <3>3, MoveFacts DEF RepeatReply, RetryReply, CountingReply, Keep
    <3>4. CASE UpdatedReply(n)
      BY <3>4, MoveFacts DEF UpdatedReply, Remember
    <3>. QED
      BY <1>5, <3>1, <3>2, <3>3, <3>4
  <2>. QED
    BY <1>2, <2>1, <2>3, OtherWakes
<1>6. CASE RunOnceTick(n)
  <2>1. Kind[n] = "RunOnce"
    BY <1>6 DEF RunOnceTick, Ticking
  <2>2. mem[n].flag => mem[n].returned \in Completed
    BY <2>1 DEF SkipInv, Returned
  <2>3. /\ mem' = mem /\ ready' = ready
        /\ pc' = "ticked" => mem[n].flag /\ ret' \in {SKIPPED, mem[n].returned}
    BY <1>6, MoveFacts DEF RunOnceTick, Keep, SetRunning
  <2>. QED
    BY <1>2, <2>1, <2>2, <2>3 DEF Wakes, Listed
<1>7. CASE RunOnceReply(n)
  <2>1. Kind[n] = "RunOnce" /\ Replied(n, {Kind[n]})
    BY <1>7 DEF RunOnceReply, Replied
  <2>2. ready' = ready /\ pc' = "ticked" /\ ret' = ret
    BY <1>7, MoveFacts DEF RunOnceReply
  <2>3. ret = RUNNING => UNCHANGED status
    BY <1>3, <1>7 DEF RunOnceReply
  <2>4. ret' = RUNNING => ready' \/ Works(n)'
    BY <2>1, <2>2, <2>3, ChildWorks
  <2>. QED
    BY <1>2, <2>1, <2>2, <2>4 DEF Wakes, Listed
<1>8. CASE KeepRunningReply(n) \/ LoopTick(n) \/ LoopReply(n)
  BY <1>8 DEF KeepRunningReply, LoopTick, LoopReply, Ticking, Replied, Wakeful
<1>. QED
  BY <1>4, <1>5, <1>6, <1>7, <1>8 DEF DecoratorTick

-------------------------------------------------------------------------------
(* Parallel and ParallelAll                                                *)

\* A set of positions and the rest of them.
LEMMA RestOfPositions ==
    ASSUME NEW n \in Node, NEW S \in SUBSET Positions(n)
    PROVE  /\ IsFiniteSet(S) /\ Cardinality(S) \in Nat
           /\ IsFiniteSet(Positions(n) \ S) /\ Cardinality(Positions(n) \ S) \in Nat
           /\ Cardinality(Positions(n) \ S) + Cardinality(S) = Count(n) /\ Count(n) \in Nat
<1>1. Count(n) \in Nat /\ Positions(n) = 1 .. Count(n)
  BY TreeFacts
<1>2. IsFiniteSet(Positions(n)) /\ Cardinality(Positions(n)) = Count(n)
  BY <1>1, FS_Interval
<1>3. IsFiniteSet(S) /\ Cardinality(S) \in Nat
  BY PositionSets
<1>4. PICK R : R = Positions(n) \ S
  OBVIOUS
<1>5. R \cap S = {} /\ R \cup S = Positions(n)
  BY <1>4
<1>6. IsFiniteSet(R) /\ Cardinality(R) \in Nat
  BY <1>4, PositionSets
<1>7. Cardinality(R \cup S) = Cardinality(R) + Cardinality(S)
  <2>1. Cardinality(R \cup S) = Cardinality(R) + Cardinality(S) - Cardinality(R \cap S)
    BY <1>3, <1>6, FS_Union
  <2>2. Cardinality(R \cap S) = 0
    BY <1>5, FS_EmptySet
  <2>. QED
    BY <1>3, <1>6, <2>1, <2>2
<1>. QED
  BY <1>1, <1>2, <1>3, <1>4, <1>5, <1>6, <1>7

\* The children between two that are asked one after the other are in the lists.
LEMMA SameUnlisted ==
    ASSUME NEW n \in Node, NEW m, NEW j \in Nat, NEW i \in Nat, j < i, i <= Count(n) + 1,
           \A k \in Positions(n) : j < k /\ k < i => k \in Done(m)
    PROVE  Unlisted(n, m, i) = Unlisted(n, m, j + 1)
<1>1. Positions(n) = 1 .. Count(n) /\ Count(n) \in Nat
  BY TreeFacts
<1>2. \A k \in 1 .. i - 1 : k \in 1 .. (j + 1) - 1 \/ (k \in Positions(n) /\ j < k /\ k < i)
  BY <1>1
<1>3. \A k \in 1 .. (j + 1) - 1 : k \in 1 .. i - 1
  OBVIOUS
<1>. QED
  BY <1>2, <1>3 DEF Unlisted

\* The first child that is left after the j-th one.
LEMMA FirstLeft ==
    ASSUME NEW n \in Node, NEW m, NEW j \in Nat, NEW skips,
           TickFirst(n, Open(n, m, j), skips)
    PROVE  \E i \in Positions(n) :
              /\ TickChild(n, i, skips) /\ i \in Nat /\ j < i /\ i <= Count(n)
              /\ Unlisted(n, m, i) = Unlisted(n, m, j + 1)
<1>1. PICK i \in Open(n, m, j) : (\A k \in Open(n, m, j) : i <= k) /\ TickChild(n, i, skips)
  BY DEF TickFirst
<1>2. Positions(n) = 1 .. Count(n) /\ Count(n) \in Nat
  BY TreeFacts
<1>3. i \in Positions(n) /\ i \in Nat /\ j < i /\ i <= Count(n)
  BY <1>1, <1>2 DEF Open
<1>4. \A k \in Positions(n) : j < k /\ k < i => k \in Done(m)
  <2>. SUFFICES ASSUME NEW k \in Positions(n), j < k, k < i, k \notin Done(m) PROVE FALSE
    OBVIOUS
  <2>1. k \in Open(n, m, j) /\ k \in Nat
    BY <1>2 DEF Open
  <2>. QED
    BY <1>1, <1>3, <2>1
<1>5. Unlisted(n, m, i) = Unlisted(n, m, j + 1)
  BY <1>2, <1>3, <1>4, SameUnlisted
<1>. QED
  BY <1>1, <1>3, <1>5

\* tick() begins with the first child that has not completed.
LEMMA ParallelTickWakes ==
    ASSUME TypeOK, BusyInv, NEW n \in Node, NEW kinds \in SUBSET ParallelKinds, NEW required,
           ParallelTick(n, kinds, required)
    PROVE  Wakes(n)
<1>1. /\ Kind[n] \in ParallelKinds /\ frame \in [Node -> Frame]
  BY DEF ParallelTick, Ticking, TypeOK, CallOK
<1>2. Kind[n] \notin LeafKinds \cup {"RunOnce"}
  BY <1>1 DEF LeafKinds, ParallelKinds
<1>3. mem' = mem /\ Listed(n)
  BY DEF ParallelTick, Throw, SetRunning, BusyInv, AllListed
<1>4. Listed(n)'
  BY <1>3 DEF Listed
<1>5. CASE Throw
  <2>1. pc' = "rest" /\ ready' = ready
    BY <1>5, MoveFacts DEF Throw
  <2>. QED
    BY <1>2, <1>4, <2>1 DEF Wakes
<1>6. CASE TickFirst(n, Open(n, mem[n], 0), 0)
  <2>1. PICK i \in Positions(n) :
           /\ TickChild(n, i, 0) /\ i \in Nat /\ Unlisted(n, mem[n], i) = Unlisted(n, mem[n], 0 + 1)
    BY <1>6, FirstLeft
  <2>2. /\ pc' = "enter" /\ ready' = ready /\ frame'[n].j = i /\ frame'[n].skips = 0
    BY <1>1, <2>1 DEF TickChild, Go
  <2>3. Unlisted(n, mem[n], i) = {}
    BY <2>1 DEF Unlisted
  <2>4. Cardinality(Unlisted(n, mem[n], i)) <= 0
    BY <2>3, FS_EmptySet
  <2>5. Unlisted(n, mem[n], frame[n].j)' = Unlisted(n, mem[n], i)
    BY <1>3, <2>2 DEF Unlisted, Done
  <2>6. ParallelAsked(n)'
    BY <2>2, <2>4, <2>5 DEF ParallelAsked, Asked
  <2>. QED
    BY <1>2, <1>4, <2>2, <2>6 DEF Wakes
<1>. QED
  BY <1>5, <1>6 DEF ParallelTick

\* The lists and the count of skipped children after one more answer.
LEMMA AskedReply ==
    ASSUME ExecInv, BusyInv, NEW n \in Node, Replied(n, ParallelKinds)
    PROVE  LET j == frame[n].j
               m == Collected(n)
           IN  /\ j \in Positions(n) /\ j \in Nat /\ SkippedNow(n) \in Nat
               /\ m.succeeded \subseteq Positions(n) /\ m.failed \subseteq Positions(n)
               /\ Asked(n, m, j + 1, SkippedNow(n))
<1>1. PICK j : j = frame[n].j
  OBVIOUS
<1>2. PICK m : m = Collected(n)
  OBVIOUS
<1>3. /\ TypeOK /\ Kind[n] \in ParallelKinds /\ pc = "reply"
      /\ cur \notin Roots /\ Parent[cur] = n /\ mem[n] \in Memory /\ frame[n] \in Frame
  BY ExecFacts DEF Replied, TypeOK, StateOK, CallOK
<1>4. /\ j \in Positions(n) /\ Children[n][j] = cur
      /\ ret # IDLE /\ ret \in NodeStatus /\ cur \in Kids(n) /\ cur \in Node
  BY <1>1, <1>3, AtReply, KidFacts DEF WaitsFor
<1>5. j \in Nat /\ 1 <= j
  BY <1>4, TreeFacts
<1>6. Listed(n) /\ ParallelAsked(n)
  <2>1. InCall /\ n \in Above[cur]
    BY <1>3, <1>4, KidFacts DEF InCall
  <2>. QED
    BY <1>3, <2>1 DEF BusyInv, AllListed, AllAsked
<1>7. /\ m.succeeded = IF ret = SUCCESS THEN mem[n].succeeded \cup {j} ELSE mem[n].succeeded
      /\ m.failed = IF ret = FAILURE THEN mem[n].failed \cup {j} ELSE mem[n].failed
  BY <1>1, <1>2, <1>3, ZenonT(40) DEF Collected, Memory
<1>8. m.succeeded \subseteq Positions(n) /\ m.failed \subseteq Positions(n)
  BY <1>3, <1>4, <1>6, <1>7 DEF Listed
<1>9. PICK k : k = frame[n].skips
  OBVIOUS
<1>10. k \in Nat /\ SkippedNow(n) = k + (IF ret = SKIPPED THEN 1 ELSE 0)
  BY <1>3, <1>9 DEF Frame, SkippedNow
<1>11. Asked(n, m, j + 1, SkippedNow(n))
  <2>1. \A i \in 1 .. j - 1 : i \in 1 .. (j + 1) - 1
    BY <1>5
  <2>2. j \in 1 .. (j + 1) - 1
    BY <1>5
  <2>3. CASE ready \/ \E i \in 1 .. j - 1 : Works(Children[n][i])
    BY <2>1, <2>3 DEF Asked
  <2>4. CASE ret = RUNNING
    <3>1. ready \/ Works(cur)
      BY <1>3, <2>4 DEF BusyInv, Answered
    <3>. QED
      BY <1>4, <2>2, <3>1 DEF Asked
  <2>5. CASE ret # RUNNING /\ Cardinality(Unlisted(n, mem[n], j)) <= k
    <3>1. PICK U : U = Unlisted(n, mem[n], j)
      OBVIOUS
    <3>2. PICK V : V = Unlisted(n, m, j + 1)
      OBVIOUS
    <3>3. U \in SUBSET Positions(n) /\ V \in SUBSET Positions(n)
      <4>1. Positions(n) = 1 .. Count(n) /\ Count(n) \in Nat
        BY TreeFacts
      <4>. QED
        BY <1>4, <1>5, <3>1, <3>2, <4>1 DEF Unlisted
    <3>4. /\ IsFiniteSet(U) /\ IsFiniteSet(V) /\ Cardinality(U) \in Nat /\ Cardinality(V) \in Nat
      BY <3>3, RestOfPositions
    <3>5. Done(mem[n]) \subseteq Done(m)
      BY <1>7 DEF Done
    <3>6. CASE ret = SKIPPED
      <4>1. V \subseteq U \cup {j}
        BY <1>5, <3>1, <3>2, <3>5 DEF Unlisted
      <4>2. IsFiniteSet(U \cup {j}) /\ Cardinality(U \cup {j}) <= Cardinality(U) + 1
            /\ Cardinality(U \cup {j}) \in Nat
        <5>1. PICK c : c = Cardinality(U)
          OBVIOUS
        <5>2. IsFiniteSet(U \cup {j}) /\ Cardinality(U \cup {j}) \in {c, c + 1}
          BY <3>4, <5>1, FS_AddElement
        <5>. QED
          BY <3>4, <5>1, <5>2
      <4>3. Cardinality(V) <= Cardinality(U \cup {j})
        BY <4>1, <4>2, FS_Subset
      <4>4. SkippedNow(n) = k + 1 /\ Cardinality(U) <= k
        BY <1>10, <2>5, <3>1, <3>6
      <4>5. Cardinality(V) <= k + 1
        BY <1>10, <3>4, <4>2, <4>3, <4>4
      <4>. QED
        BY <3>2, <4>4, <4>5 DEF Asked
    <3>7. CASE ret \in Completed
      <4>1. j \in Done(m)
        BY <1>7, <3>7 DEF Done
      <4>2. V \subseteq U
        BY <1>5, <3>1, <3>2, <3>5, <4>1 DEF Unlisted
      <4>3. Cardinality(V) <= Cardinality(U)
        BY <3>4, <4>2, FS_Subset
      <4>4. SkippedNow(n) = k /\ Cardinality(U) <= k
        BY <1>10, <2>5, <3>1, <3>7
      <4>5. Cardinality(V) <= k
        BY <1>10, <3>4, <4>3, <4>4
      <4>. QED
        BY <3>2, <4>4, <4>5 DEF Asked
    <3>. QED
      BY <1>4, <2>5, <3>6, <3>7
  <2>. QED
    BY <1>1, <1>6, <1>9, <2>3, <2>4, <2>5 DEF ParallelAsked, Asked
<1>. QED
  BY <1>1, <1>2, <1>4, <1>5, <1>8, <1>10, <1>11

\* The next child that is not in the lists.
LEMMA ParallelNextWakes ==
    ASSUME ExecInv, BusyInv, NEW n \in Node, Replied(n, ParallelKinds),
           Remember(n, Collected(n)),
           TickFirst(n, Open(n, Collected(n), frame[n].j), SkippedNow(n))
    PROVE  Wakes(n)
<1>1. /\ TypeOK /\ Kind[n] \in ParallelKinds /\ frame \in [Node -> Frame]
  BY ExecFacts DEF Replied, TypeOK, CallOK
<1>2. PICK j : j = frame[n].j
  OBVIOUS
<1>3. PICK m : m = Collected(n)
  OBVIOUS
<1>4. PICK k : k = SkippedNow(n)
  OBVIOUS
<1>5. /\ j \in Nat /\ m.succeeded \subseteq Positions(n) /\ m.failed \subseteq Positions(n)
      /\ Asked(n, m, j + 1, k)
  BY <1>2, <1>3, <1>4, AskedReply
<1>6. PICK i \in Positions(n) :
         /\ TickChild(n, i, k) /\ i \in Nat /\ j < i
         /\ Unlisted(n, m, i) = Unlisted(n, m, j + 1)
  BY <1>2, <1>3, <1>4, <1>5, FirstLeft
<1>7. /\ pc' = "enter" /\ ready' = ready /\ frame'[n].j = i /\ frame'[n].skips = k
  BY <1>1, <1>6 DEF TickChild, Go
<1>8. mem'[n] = m /\ status' = status
  BY <1>1, <1>3 DEF Remember, TypeOK, StateOK
<1>9. Asked(n, m, i, k)
  <2>1. \A l \in 1 .. (j + 1) - 1 : l \in 1 .. i - 1
    BY <1>5, <1>6
  <2>. QED
    BY <1>5, <1>6, <2>1 DEF Asked
<1>10. ParallelAsked(n)'
  <2>1. Unlisted(n, mem[n], frame[n].j)' = Unlisted(n, m, i)
    BY <1>7, <1>8 DEF Unlisted, Done
  <2>2. \A l : Works(l) => Works(l)'
    BY <1>8 DEF Works, Within
  <2>3. Asked(n, mem[n], frame[n].j, frame[n].skips)'
    BY <1>7, <1>8, <1>9, <2>1, <2>2 DEF Asked
  <2>. QED
    BY <1>5, <1>7, <2>3 DEF ParallelAsked
<1>11. Listed(n)'
  BY <1>5, <1>8 DEF Listed
<1>12. Kind[n] \notin LeafKinds \cup {"RunOnce"}
  BY <1>1 DEF LeafKinds, ParallelKinds
<1>. QED
  BY <1>7, <1>10, <1>11, <1>12 DEF Wakes

\* No child is left: one of them is busy, or those not in the lists were skipped.
LEMMA NoneLeft ==
    ASSUME ExecInv, BusyInv, NEW n \in Node, Replied(n, ParallelKinds),
           Open(n, Collected(n), frame[n].j) = {}
    PROVE  \/ ready \/ Works(n)
           \/ Cardinality(Positions(n) \ Done(Collected(n))) <= SkippedNow(n)
<1>1. PICK j : j = frame[n].j
  OBVIOUS
<1>2. PICK m : m = Collected(n)
  OBVIOUS
<1>3. PICK k : k = SkippedNow(n)
  OBVIOUS
<1>4. j \in Positions(n) /\ j \in Nat /\ Asked(n, m, j + 1, k)
  BY <1>1, <1>2, <1>3, AskedReply
<1>5. Positions(n) = 1 .. Count(n) /\ Count(n) \in Nat
  BY TreeFacts
<1>6. \A l \in Positions(n) : j < l => l \in Done(m)
  BY <1>1, <1>2 DEF Open
<1>7. Unlisted(n, m, j + 1) = Positions(n) \ Done(m)
  <2>1. \A l \in Positions(n) : l \in 1 .. (j + 1) - 1 \/ j < l
    BY <1>4, <1>5
  <2>2. \A l \in 1 .. (j + 1) - 1 : l \in Positions(n)
    BY <1>4, <1>5
  <2>. QED
    BY <1>6, <2>1, <2>2 DEF Unlisted
<1>8. ASSUME NEW i \in 1 .. (j + 1) - 1, Works(Children[n][i])
      PROVE  Works(n)
  <2>1. i \in Positions(n)
    BY <1>4, <1>5
  <2>2. Children[n][i] \in Kids(n)
    BY <2>1 DEF Kids
  <2>. QED
    BY <1>8, <2>2, WorksAbove
<1>. QED
  BY <1>2, <1>3, <1>4, <1>7, <1>8 DEF Asked

\* The lists of a parallel node that answers, RUNNING only if it should.
LEMMA ParallelEndWakes ==
    ASSUME ExecInv, BusyInv, NEW n \in Node, Replied(n, ParallelKinds),
           NEW s, Answer(n, s), s = RUNNING => UNCHANGED status /\ (ready \/ Works(n)),
           mem'[n] \in {FreshMem(n), Collected(n)}
    PROVE  Wakes(n)
<1>1. Kind[n] \in ParallelKinds
  BY DEF Replied
<1>2. Kind[n] \notin LeafKinds \cup {"RunOnce"}
  BY <1>1 DEF LeafKinds, ParallelKinds
<1>3. pc' = "ticked" /\ ret' = s /\ ready' = ready
  BY MoveFacts
<1>4. Listed(n)'
  <2>1. FreshMem(n).succeeded = {} /\ FreshMem(n).failed = {}
    BY DEF FreshMem
  <2>. QED
    BY <2>1, AskedReply DEF Listed
<1>5. s = RUNNING => ready' \/ Works(n)'
  BY <1>3 DEF Works, Within
<1>. QED
  BY <1>2, <1>3, <1>4, <1>5 DEF Wakes

\* Parallel and ParallelAll at a child's answer.
LEMMA ParallelReplyWakes ==
    ASSUME ExecInv, SkipInv, BusyInv, NEW n \in Node, Wakeful(n),
           ParallelReply(n) \/ ParallelAllReply(n)
    PROVE  Wakes(n)
<1>1. PICK m : m = Collected(n)
  OBVIOUS
<1>2. PICK skips : skips = SkippedNow(n)
  OBVIOUS
<1>3. PICK left : left = Open(n, m, frame[n].j)
  OBVIOUS
<1>4. Replied(n, ParallelKinds) /\ TypeOK
  BY ExecFacts DEF ParallelReply, ParallelAllReply, Replied, ParallelKinds
<1>5. /\ skips \in Nat /\ m.succeeded \subseteq Positions(n) /\ m.failed \subseteq Positions(n)
  BY <1>1, <1>2, <1>4, AskedReply
<1>6. CASE Remember(n, m) /\ TickFirst(n, left, skips)
  BY <1>1, <1>2, <1>3, <1>4, <1>6, ParallelNextWakes
<1>7. ASSUME NEW s \in {SUCCESS, FAILURE}, ResetChildren(n, Kids(n), FreshMem(n)), Answer(n, s)
      PROVE  Wakes(n)
  <2>1. mem'[n] = FreshMem(n)
    BY <1>7 DEF ResetChildren, MemAfter
  <2>. QED
    BY <1>4, <1>7, <2>1, ParallelEndWakes
<1>8. ASSUME NEW s \in {SKIPPED, RUNNING}, Remember(n, m), Answer(n, s),
             s = RUNNING => ready \/ Works(n)
      PROVE  Wakes(n)
  <2>1. mem'[n] = Collected(n) /\ UNCHANGED status
    BY <1>1, <1>4, <1>8 DEF Remember, TypeOK, StateOK
  <2>. QED
    BY <1>4, <1>8, <2>1, ParallelEndWakes
<1>9. PICK S : S = m.succeeded
  OBVIOUS
<1>10. PICK F : F = m.failed
  OBVIOUS
<1>11. PICK D : D = Done(m)
  OBVIOUS
<1>12. PICK R : R = Positions(n) \ D
  OBVIOUS
<1>13. /\ Cardinality(S) \in Nat /\ Cardinality(F) \in Nat /\ Cardinality(D) \in Nat
       /\ Cardinality(R) \in Nat /\ Count(n) \in Nat
       /\ Cardinality(D) <= Cardinality(S) + Cardinality(F)
       /\ Cardinality(R) + Cardinality(D) = Count(n)
  <2>1. /\ S \in SUBSET Positions(n) /\ F \in SUBSET Positions(n) /\ D = S \cup F
        /\ D \in SUBSET Positions(n) /\ S \cap F \in SUBSET Positions(n)
    BY <1>5, <1>9, <1>10, <1>11 DEF Done
  <2>2. /\ IsFiniteSet(S) /\ Cardinality(S) \in Nat /\ IsFiniteSet(F) /\ Cardinality(F) \in Nat
        /\ Cardinality(S \cap F) \in Nat
        /\ Cardinality(D) \in Nat /\ Cardinality(R) \in Nat /\ Count(n) \in Nat
        /\ Cardinality(R) + Cardinality(D) = Count(n)
    BY <1>12, <2>1, RestOfPositions
  <2>3. Cardinality(D) = Cardinality(S) + Cardinality(F) - Cardinality(S \cap F)
    BY <2>1, <2>2, FS_Union
  <2>. QED
    BY <2>2, <2>3
<1>14. ASSUME left = {}
       PROVE  ready \/ Works(n) \/ Cardinality(R) <= skips
  BY <1>1, <1>2, <1>3, <1>4, <1>11, <1>12, <1>14, NoneLeft
<1>15. CASE ParallelReply(n)
  <2>1. Kind[n] = "Parallel"
    BY <1>15 DEF ParallelReply, Replied
  <2>2. PICK needed : needed = Threshold(n, Limit[n])
    OBVIOUS
  <2>3. needed \in Int /\ Limit[n] \in Int
    BY <2>2, LimitAssumption, TreeFacts DEF Threshold
  <2>4. CASE \E s \in {SUCCESS, FAILURE} : ResetChildren(n, Kids(n), FreshMem(n)) /\ Answer(n, s)
    BY <1>7, <2>4
  <2>5. CASE /\ ~ParallelSucceeds(n, m, skips) /\ ~ParallelFails(n, m) /\ Remember(n, m)
             /\ left = {} /\ Answer(n, IF skips = Count(n) THEN SKIPPED ELSE RUNNING)
    <3>1. /\ Cardinality(S) < needed
          /\ Limit[n] < 0 => Cardinality(S) + skips < needed
          /\ Count(n) - Cardinality(F) >= needed
      BY <1>5, <1>9, <1>10, <1>13, <2>2, <2>3, <2>5 DEF ParallelSucceeds, ParallelFails
    <3>2. Limit[n] < 0 \/ skips = 0
      BY <1>2, <1>4, <2>1, ReplyUnskipped DEF Wakeful, SkippedNow
    <3>3. ~(Cardinality(R) <= skips)
      BY <1>5, <1>13, <2>3, <3>1, <3>2
    <3>4. ready \/ Works(n)
      BY <1>14, <2>5, <3>3
    <3>. QED
      BY <1>8, <2>5, <3>4
  <2>6. \/ \E s \in {SUCCESS, FAILURE} : ResetChildren(n, Kids(n), FreshMem(n)) /\ Answer(n, s)
        \/ /\ ~ParallelSucceeds(n, m, skips) /\ ~ParallelFails(n, m) /\ Remember(n, m)
           /\ \/ TickFirst(n, left, skips)
              \/ left = {} /\ Answer(n, IF skips = Count(n) THEN SKIPPED ELSE RUNNING)
    BY <1>1, <1>2, <1>3, <1>15 DEF ParallelReply
  <2>. QED
    BY <1>6, <2>4, <2>5, <2>6
<1>16. CASE ParallelAllReply(n)
  <2>1. CASE \E s \in {SUCCESS, FAILURE} : ResetChildren(n, Kids(n), FreshMem(n)) /\ Answer(n, s)
    BY <1>7, <2>1
  <2>2. CASE /\ left = {} /\ ~(skips # Count(n) /\ skips + Cardinality(D) >= Count(n))
             /\ Remember(n, m) /\ Answer(n, IF skips = Count(n) THEN SKIPPED ELSE RUNNING)
    <3>1. skips # Count(n) => ready \/ Works(n)
      BY <1>5, <1>13, <1>14, <2>2
    <3>. QED
      BY <1>8, <2>2, <3>1
  <2>3. \/ \E s \in {SUCCESS, FAILURE} : ResetChildren(n, Kids(n), FreshMem(n)) /\ Answer(n, s)
        \/ Remember(n, m) /\ TickFirst(n, left, skips)
        \/ /\ left = {} /\ ~(skips # Count(n) /\ skips + Cardinality(D) >= Count(n))
           /\ Remember(n, m) /\ Answer(n, IF skips = Count(n) THEN SKIPPED ELSE RUNNING)
    BY <1>1, <1>2, <1>3, <1>11, <1>16 DEF ParallelAllReply
  <2>. QED
    BY <1>6, <2>1, <2>2, <2>3
<1>. QED
  BY <1>15, <1>16

-------------------------------------------------------------------------------
(* What one step does to the rest of the tree                              *)

\* A caller that waits for the subtree of n: its other children go on as they were.
LEMMA CallerAsked ==
    ASSUME ExecInv, BusyInv, NEW n \in Node, NEW a \in Above[n], Kind[a] \in ParallelKinds,
           InCall, a \in Above[cur],
           frame[a].j \in Positions(a),
           Children[a][frame[a].j] = n \/ Children[a][frame[a].j] \in Above[n],
           \A x \in Node : ~Within(x, n) => status'[x] = status[x],
           mem'[a] = mem[a], frame'[a] = frame[a], ready => ready'
    PROVE  ParallelAsked(a)'
<1>1. a \in Node /\ ParallelAsked(a)
  BY AboveFacts DEF BusyInv, AllAsked
<1>2. PICK j : j = frame[a].j
  OBVIOUS
<1>3. PICK k : k = Children[a][j]
  OBVIOUS
<1>4. k \in Kids(a) /\ (k = n \/ k \in Above[n]) /\ j \in Positions(a)
  BY <1>2, <1>3 DEF Kids
<1>5. ASSUME NEW i \in 1 .. j - 1, Works(Children[a][i])
      PROVE  Works(Children[a][i])'
  <2>1. i \in Positions(a) /\ i # j
    <3>1. Positions(a) = 1 .. Count(a) /\ Count(a) \in Nat
      BY <1>1, TreeFacts
    <3>. QED
      BY <1>4, <3>1
  <2>2. PICK l : l = Children[a][i]
    OBVIOUS
  <2>3. l \in Kids(a) /\ l # k
    BY <1>1, <1>3, <1>4, <2>1, <2>2, OnePosition DEF Kids
  <2>4. ASSUME NEW x \in Node, Within(x, l)
        PROVE  ~Within(x, n)
    <3>. SUFFICES ASSUME Within(x, n) PROVE FALSE
      OBVIOUS
    <3>1. Within(x, k)
      BY <1>4, AboveFacts DEF Within
    <3>. QED
      BY <1>1, <1>4, <2>3, <2>4, <3>1, Apart
  <2>5. Works(l)'
    BY <1>5, <2>2, <2>4, WorksOn
  <2>. QED
    BY <2>2, <2>5
<1>6. Unlisted(a, mem[a], frame[a].j)' = Unlisted(a, mem[a], frame[a].j)
  BY DEF Unlisted, Done
<1>7. Asked(a, mem[a], frame[a].j, frame[a].skips)'
  BY <1>1, <1>2, <1>5, <1>6 DEF ParallelAsked, Asked
<1>. QED
  BY <1>7 DEF ParallelAsked

\* The lists of other nodes stay as they are or are cleared.
LEMMA OthersListed ==
    ASSUME BusyInv, NEW x \in Node, mem'[x] \in {mem[x], FreshMem(x)}
    PROVE  Listed(x)'
<1>1. FreshMem(x).succeeded = {} /\ FreshMem(x).failed = {}
  BY DEF FreshMem
<1>. QED
  BY <1>1 DEF BusyInv, AllListed, Listed

\* A step of the tick() of n.
LEMMA WakesKept ==
    ASSUME ExecInv, BusyInv, NEW n \in Node, OnCallOf(n), Shape(n), Own(n), Wakes(n)
    PROVE  BusyInv'
<1>1. TypeOK /\ InCall /\ Above[n] \subseteq Above[cur]
  BY ExecFacts, OnCallFacts DEF ExecInv
<1>2. \A x \in Node : ~Within(x, n) => status'[x] = status[x]
  BY <1>1, ShapeElsewhere
<1>3. /\ pc' \in {"enter", "ticked", "rest"}
      /\ pc' = "ticked" => cur' = n
      /\ pc' = "enter" => cur' \in Kids(n)
      /\ pc' # "rest" => \A a \in Node \ {n} : frame'[a] = frame[a]
  BY <1>1, FramesOnCall
<1>4. Answered'
  BY <1>3 DEF Answered, Wakes, Works, Within
<1>5. AllAsked'
  <2>. SUFFICES ASSUME InCall', NEW a \in Above[cur'], Kind[a] \in ParallelKinds
                PROVE  ParallelAsked(a)'
    BY DEF AllAsked
  <2>1. pc' \in {"enter", "ticked"}
    BY <1>3 DEF InCall
  <2>2. CASE a \in Above[n]
    <3>1. /\ a \in Node /\ a # n /\ frame[a].j \in Positions(a)
          /\ Children[a][frame[a].j] = n \/ Children[a][frame[a].j] \in Above[n]
      BY <2>2, CallersWait
    <3>2. mem'[a] = mem[a] /\ frame'[a] = frame[a]
      BY <1>3, <2>1, <2>2, <3>1 DEF Own, Others
    <3>. QED
      BY <1>1, <1>2, <2>2, <3>1, <3>2, CallerAsked DEF Wakes
  <2>3. CASE a = n /\ pc' = "enter"
    BY <2>3 DEF Wakes
  <2>4. a \in Above[n] \/ (a = n /\ pc' = "enter")
    BY <1>3, <2>1, KidFacts
  <2>. QED
    BY <2>2, <2>3, <2>4
<1>6. AllListed'
  BY OthersListed DEF AllListed, Shape, MemShape, Wakes
<1>. QED
  BY <1>4, <1>5, <1>6 DEF BusyInv

-------------------------------------------------------------------------------
(* executeTick() around tick(), and the calls of the tree                  *)

\* What executeTick() does before and after tick() disturbs none of the callers.
LEMMA CallersAsked ==
    ASSUME ExecInv, BusyInv, InCall, cur' = cur, frame' = frame, mem' = mem, ready' = ready,
           \A x \in Node : ~Within(x, cur) => status'[x] = status[x]
    PROVE  AllAsked'
<1>. SUFFICES ASSUME NEW a \in Above[cur], Kind[a] \in ParallelKinds PROVE ParallelAsked(a)'
  BY DEF AllAsked
<1>1. cur \in Node
  BY ExecFacts DEF TypeOK, CallOK
<1>2. WaitsFor(a, frame[a].j)
  BY DEF ExecInv, AtChild
<1>. QED
  BY <1>1, <1>2, CallerAsked DEF WaitsFor

\* No call is in progress, or that of a root begins.
LEMMA RestBusy ==
    ASSUME BusyInv, mem' = mem,
           pc' \in {"rest", "sleeping"} \/ (pc' = "enter" /\ cur' \in Roots)
    PROVE  BusyInv'
<1>1. Answered'
  BY DEF Answered
<1>2. AllAsked'
  BY TreeAssumption DEF AllAsked, InCall
<1>3. AllListed'
  BY DEF BusyInv, AllListed, Listed
<1>. QED
  BY <1>1, <1>2, <1>3 DEF BusyInv

\* A pre-condition or callback answers in place of tick(), or tick() is called.
LEMMA EnterBusy ==
    ASSUME ExecInv, BusyInv, NEW n \in Node,
           PreConditionAnswers(n) \/ PreTickSubstitutes(n) \/ CallTick(n)
    PROVE  BusyInv'
<1>1. /\ pc = "enter" /\ cur = n /\ cur' = n /\ status' = status /\ mem' = mem /\ frame' = frame
      /\ ready' = ready /\ pc' \in {"preempted", "tick"}
      /\ pc' = "preempted" => ret' \in Completed \cup PreOutcomes(n)
  BY DEF PreConditionAnswers, PreTickSubstitutes, CallTick, Go, Keep
<1>2. RUNNING \notin PreOutcomes(n)
  BY DEF PreOutcomes
<1>3. Answered'
  BY <1>1, <1>2 DEF Answered
<1>4. AllAsked'
  BY <1>1, CallersAsked DEF InCall
<1>5. AllListed'
  BY <1>1 DEF BusyInv, AllListed, Listed
<1>. QED
  BY <1>3, <1>4, <1>5 DEF BusyInv

\* A halt: what its nodes remember of children is cleared or kept.
LEMMA HaltBusy ==
    ASSUME TypeOK, BusyInv, NEW H, mem' = MemAfter(H), AllAsked',
           pc' \notin {"ticked", "reply"}, pc' = "preempted" => ret' # RUNNING
    PROVE  BusyInv'
<1>1. Answered'
  BY DEF Answered
<1>2. \A x \in Node : mem'[x] \in {mem[x], FreshMem(x)}
  BY DEF MemAfter
<1>3. AllListed'
  BY <1>2, OthersListed DEF AllListed
<1>. QED
  BY <1>1, <1>3 DEF BusyInv

\* WHILE_TRUE fails: the node is halted, its callers wait on.
LEMMA PreConditionHaltsBusy ==
    ASSUME ExecInv, BusyInv, NEW n \in Node, PreConditionHalts(n)
    PROVE  BusyInv'
<1>. DEFINE H == HaltedFrom(n)
<1>1. /\ pc = "enter" /\ cur = n /\ cur' = n /\ pc' = "preempted" /\ ret' = SKIPPED
      /\ status' = StatusAfter(H, {}) /\ mem' = MemAfter(H) /\ frame' = frame /\ ready' = ready
  BY DEF PreConditionHalts, Go
<1>2. TypeOK
  BY ExecFacts
<1>3. \A x \in H : Within(x, n)
  BY DEF HaltedFrom, Within
<1>. HIDE DEF H
<1>4. ASSUME NEW x \in Node, ~Within(x, n)
      PROVE  status'[x] = status[x]
  <2>1. x \notin Roots => Parent[x] \in Above[x] /\ Parent[x] \in Node
    BY ParentFacts
  <2>2. x \notin H /\ (x \notin Roots => Parent[x] \notin H)
    BY <1>3, <1>4, <2>1, AboveFacts DEF Within
  <2>. QED
    BY <1>1, <2>2 DEF StatusAfter, ResetByHalt
<1>5. AllAsked'
  <2>. SUFFICES ASSUME NEW a \in Above[n], Kind[a] \in ParallelKinds PROVE ParallelAsked(a)'
    BY <1>1 DEF AllAsked
  <2>1. a \in Node /\ ~Within(a, n)
    BY AboveFacts DEF Within
  <2>2. mem'[a] = mem[a]
    BY <1>1, <1>3, <2>1 DEF MemAfter
  <2>3. WaitsFor(a, frame[a].j) /\ InCall
    BY <1>1 DEF ExecInv, AtChild, InCall
  <2>. QED
    BY <1>1, <1>4, <2>2, <2>3, CallerAsked DEF WaitsFor
<1>. QED
  BY <1>1, <1>2, <1>5, HaltBusy

\* executeTick() returns the answer s to the caller.
LEMMA RepliesBusy ==
    ASSUME ExecInv, BusyInv, NEW n \in Node, cur = n, pc \in {"ticked", "preempted"},
           NEW s, s = ret \/ (n \in PostTick /\ s \in Completed), s # IDLE,
           status' = [x \in Node |->
                        IF x = n THEN (IF s = SKIPPED THEN status[n] ELSE s)
                        ELSE IF ResetByDecorator(n, x) THEN IDLE ELSE status[x]],
           Go("reply", n, s), mem' = mem, frame' = frame, ready' = ready
    PROVE  BusyInv'
<1>1. pc' = "reply" /\ cur' = n /\ ret' = s
  BY DEF Go
<1>2. /\ status'[n] = IF s = SKIPPED THEN status[n] ELSE s
      /\ \A x \in Node \ {n} :
            status'[x] = IF ResetByDecorator(n, x) THEN IDLE ELSE status[x]
  OBVIOUS
<1>3. Answered'
  <2>. SUFFICES ASSUME s = RUNNING PROVE ready \/ Works(n)'
    BY <1>1 DEF Answered, Works, Within
  <2>1. pc = "ticked" /\ ret = RUNNING
    BY DEF BusyInv, Answered
  <2>2. CASE Kind[n] \in LeafKinds
    BY <1>2, <2>2 DEF Works, Within
  <2>3. CASE Kind[n] \notin LeafKinds
    <3>1. ready \/ Works(n)
      BY <2>1, <2>3 DEF BusyInv, Answered
    <3>2. \A x \in Node : Kind[x] \in LeafKinds /\ status[x] = RUNNING => status'[x] = RUNNING
      BY <1>2, <2>3 DEF ResetByDecorator
    <3>. QED
      BY <3>1, <3>2, WorksOn
  <2>. QED
    BY <2>2, <2>3
<1>4. ASSUME NEW x \in Node, ~Within(x, n)
      PROVE  status'[x] = status[x]
  <2>1. x # n /\ x \notin Kids(n)
    BY <1>4, KidFacts DEF Within
  <2>. QED
    BY <1>2, <2>1 DEF ResetByDecorator
<1>5. AllAsked'
  BY <1>1, <1>4, CallersAsked DEF InCall
<1>6. AllListed'
  BY DEF BusyInv, AllListed, Listed
<1>. QED
  BY <1>3, <1>5, <1>6 DEF BusyInv

\* The end of executeTick().
LEMMA LeaveBusy ==
    ASSUME ExecInv, BusyInv, NEW n \in Node, Leave(n)
    PROVE  BusyInv'
<1>1. PICK s \in IF n \in PostTick THEN {ret} \cup Completed ELSE {ret} :
        \/ s = IDLE /\ Throw /\ UNCHANGED status
        \/ /\ s = RUNNING /\ Kind[n] \in {"SyncAction", "SimpleAction"}
           /\ status' = [status EXCEPT ![n] = RUNNING]
           /\ Throw
        \/ /\ s # IDLE
           /\ s = RUNNING => Kind[n] \notin {"SyncAction", "SimpleAction"}
           /\ status' = [x \in Node |->
                           IF x = n THEN (IF s = SKIPPED THEN status[n] ELSE s)
                           ELSE IF ResetByDecorator(n, x) THEN IDLE ELSE status[x]]
           /\ heard' = [x \in Node |-> IF x = n THEN s
                                       ELSE IF x \in Kids(n) /\ Forgets(n, s) THEN IDLE
                                       ELSE heard[x]]
           /\ Go("reply", n, s)
           /\ UNCHANGED <<mem, frame, ready>>
  BY DEF Leave
<1>2. cur = n /\ pc \in {"ticked", "preempted"}
  BY DEF Leave
<1>3. s = ret \/ (n \in PostTick /\ s \in Completed)
  OBVIOUS
<1>4. CASE Throw /\ (UNCHANGED status \/ status' = [status EXCEPT ![n] = RUNNING])
  <2>1. pc' = "rest" /\ mem' = mem
    BY <1>4 DEF Throw, Unwind
  <2>. QED
    BY <2>1, RestBusy
<1>. QED
  BY <1>1, <1>2, <1>3, <1>4, RepliesBusy

\* A script or an injected callback throws.
LEMMA ScriptThrowsBusy ==
    ASSUME BusyInv, NEW n \in Node, ScriptThrows(n)
    PROVE  BusyInv'
<1>1. pc' = "rest" /\ mem' = mem
  BY DEF ScriptThrows, PreConditionThrows, PostConditionThrows, Throw, Unwind
<1>. QED
  BY <1>1, RestBusy

\* The calls of the tree at its root.
LEMMA RootBusy ==
    ASSUME ExecInv, BusyInv,
           TickAgain \/ SleepEnds \/ RootAnswers \/ \E o \in TickOption : TickRoot(o)
    PROVE  BusyInv'
<1>1. CASE TickAgain \/ SleepEnds \/ \E o \in TickOption : TickRoot(o)
  <2>1. status' = status /\ mem' = mem /\ pc' = "enter" /\ cur' = cur
    BY <1>1 DEF TickAgain, SleepEnds, TickRoot, Go, Keep
  <2>2. cur \in Roots
    BY <1>1 DEF TickAgain, SleepEnds, TickRoot, ExecInv, HaltInv, RestsAtRoot
  <2>. QED
    BY <2>1, <2>2, RestBusy
<1>2. CASE RootAnswers
  <2>1. mem' = mem /\ pc' \in {"rest", "sleeping"}
    BY <1>2 DEF RootAnswers, Go
  <2>. QED
    BY <2>1, RestBusy
<1>. QED
  BY <1>1, <1>2

\* Either pass of haltTree().
LEMMA HaltTreeBusy ==
    ASSUME ExecInv, BusyInv, HaltRoot \/ HaltVisit
    PROVE  BusyInv'
<1>1. /\ pc' \in {"rest", "halting"}
      /\ \E H : mem' = MemAfter(H)
  BY DEF HaltRoot, HaltVisit, Go
<1>2. AllAsked'
  BY <1>1 DEF AllAsked, InCall
<1>. QED
  BY <1>1, <1>2, ExecFacts, HaltBusy

\* A signal from another thread, or no step at all.
LEMMA SilentBusy ==
    ASSUME BusyInv, UNCHANGED <<status, mem, frame, pc, cur, ret>>, ready => ready'
    PROVE  BusyInv'
<1>1. \A k : Works(k) => Works(k)'
  BY DEF Works, Within
<1>2. Answered'
  BY <1>1 DEF BusyInv, Answered, Works, Within
<1>3. ASSUME NEW a, ParallelAsked(a)
      PROVE  ParallelAsked(a)'
  <2>1. Unlisted(a, mem[a], frame[a].j)' = Unlisted(a, mem[a], frame[a].j)
    BY DEF Unlisted, Done
  <2>2. Asked(a, mem[a], frame[a].j, frame[a].skips)'
    BY <1>1, <1>3, <2>1 DEF ParallelAsked, Asked
  <2>. QED
    BY <2>2 DEF ParallelAsked
<1>4. AllAsked'
  BY <1>3 DEF BusyInv, AllAsked, InCall
<1>5. AllListed'
  BY DEF BusyInv, AllListed, Listed
<1>. QED
  BY <1>2, <1>4, <1>5 DEF BusyInv

\* What tick() of any class does.
LEMMA AllWake ==
    ASSUME ExecInv, SkipInv, BusyInv, NEW n \in Node, Wakeful(n),
           LeafTick(n) \/ ControlTick(n) \/ DecoratorTick(n)
    PROVE  Wakes(n)
<1>1. TypeOK
  BY ExecFacts
<1>2. CASE ControlTick(n)
  <2>1. CASE ParallelTick(n, {"Parallel"}, {Limit[n], FailLimit[n]})
    BY <1>1, <2>1, ParallelTickWakes DEF ParallelKinds
  <2>2. CASE ParallelTick(n, {"ParallelAll"}, {Limit[n]})
    BY <1>1, <2>2, ParallelTickWakes DEF ParallelKinds
  <2>. QED
    BY <1>1, <1>2, <2>1, <2>2, LinearWakes, ReactiveWakes, BranchWakes, ParallelReplyWakes
       DEF ControlTick
<1>. QED
  BY <1>1, <1>2, LeafWakes, DecoratorWakes

\* Every step keeps the invariant.
LEMMA BusyNextKept ==
    ASSUME ExecInv, SkipInv, BusyInv, \A n \in Node : Wakeful(n), [Next]_vars
    PROVE  BusyInv'
<1>1. HaltInv /\ TypeOK
  BY ExecFacts DEF ExecInv
<1>2. CASE \E n \in {cur} \cup Above[cur] : NodeStep(n)
  <2>1. PICK n \in {cur} \cup Above[cur] : NodeStep(n)
    BY <1>2
  <2>2. n \in Node /\ (ExecuteTick(n) \/ (OnCallOf(n) /\ Shape(n)))
    BY <1>1, <2>1, NodeStepShape
  <2>3. CASE ExecuteTick(n)
    BY <2>2, <2>3, EnterBusy, PreConditionHaltsBusy, LeaveBusy, ScriptThrowsBusy
       DEF ExecuteTick, ScriptThrows
  <2>4. CASE LeafTick(n) \/ ControlTick(n) \/ DecoratorTick(n)
    <3>1. OnCallOf(n) /\ Shape(n)
      BY <1>1, <2>2, <2>4, LeafShape, ControlShape, DecoratorShape
    <3>2. Own(n)
      BY <2>2, <2>4, LeafOwn, ControlOwn, DecoratorOwn
    <3>3. Wakes(n)
      BY <2>2, <2>4, AllWake
    <3>. QED
      BY <2>2, <3>1, <3>2, <3>3, WakesKept
  <2>. QED
    BY <2>1, <2>3, <2>4 DEF NodeStep
<1>3. CASE TickAgain \/ SleepEnds \/ RootAnswers \/ \E o \in TickOption : TickRoot(o)
  BY <1>3, RootBusy
<1>4. CASE HaltRoot \/ HaltVisit
  BY <1>4, HaltTreeBusy
<1>5. CASE UNCHANGED vars \/ \E n \in Wakers : WakeUp(n)
  BY <1>5, SilentBusy DEF vars, WakeUp
<1>. QED
  BY <1>2, <1>3, <1>4, <1>5 DEF Next, CallStep

\* Trees just built: nobody has been asked.
LEMMA BusyInitOK == Init => BusyInv
<1>. SUFFICES ASSUME Init PROVE BusyInv
  OBVIOUS
<1>1. pc = "rest" /\ \A x \in Node : status[x] = IDLE /\ mem[x] = FreshMem(x)
  BY DEF Init
<1>2. \A x \in Node : FreshMem(x).succeeded = {} /\ FreshMem(x).failed = {}
  BY DEF FreshMem
<1>3. Answered /\ AllAsked
  BY <1>1 DEF Answered, AllAsked, InCall
<1>4. AllListed
  BY <1>1, <1>2 DEF AllListed, Listed
<1>. QED
  BY <1>3, <1>4 DEF BusyInv

-------------------------------------------------------------------------------
(* What holds of every tree                                                *)

\* A tree that answers RUNNING will go on: a leaf of it is at work, or a node of it has
\* given the control back and left a signal that tickRoot() has not taken yet.
THEOREM ProgressIsMade ==
    ASSUME \A n \in Node : Wakeful(n)
    PROVE  Spec => []BusyOrWoken
<1>1. ExecInv /\ SkipInv /\ BusyInv /\ [Next]_vars => BusyInv'
  BY BusyNextKept
<1>2. BusyInv => BusyOrWoken
  BY DEF BusyInv, Answered, Works, BusyOrWoken
<1>. QED
  BY <1>1, <1>2, BusyInitOK, ExecutionInvariant, WholeSubtreesUnskipped, PTL DEF Spec

===============================================================================
