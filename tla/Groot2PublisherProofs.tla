------------------------- MODULE Groot2PublisherProofs -------------------------
(***************************************************************************)
(* The hooks of Groot2, for any nodes, hooks and requests: a tick is       *)
(* stopped only where somebody can still release it, and once the          *)
(* publisher was destroyed nothing is left of the hooks, but for what a    *)
(* request did while the destructor was running.                           *)
(***************************************************************************)
EXTENDS Groot2Publisher, TLAPS

-------------------------------------------------------------------------------
(* The inductive invariant                                                 *)

\* Groot2 inserts hooks that are enabled.
Usage == \A c \in Clients : \A spec \in c.hooks : spec.enabled

\* Hook i was found at, or is called at, node n.
UsedAt(n, i) ==
    \/ preHooks[n] = i \/ injected[n] = i
    \/ ticker.pc # "rest" /\ ticker.node = n /\ ticker.hook = i
    \/ \E p \in Thread : /\ thread[p].pc \in {"update", "release", "erase", "setPre", "disable"}
                         /\ thread[p].node = n /\ thread[p].hook = i

\* No hook is of two nodes.
OneNode == \A i \in 1 .. created, n, m \in Node : UsedAt(n, i) /\ UsedAt(m, i) => n = m

\* Only requests that are served while the destructor runs are late.
LateIsLate == At("destructor", "rest") => late = {}

\* The destructor joins the server, and then the heartbeat.
Joined ==
    /\ thread["destructor"].pc \in {"joinHeartbeat", "ended"} => At("server", "ended")
    /\ At("destructor", "ended") => At("heartbeat", "ended")

\* Threads that have found a hook, or are about to insert one, know of a node.
NodeKnown ==
    \A p \in Thread :
        thread[p].pc \in {"insert", "update", "new", "unlock", "release", "remove", "erase",
                          "setPre", "disable"} => thread[p].node \in Node

ThreadsPlace ==
    /\ thread["server"].pc \notin {"stop", "joinServer", "joinHeartbeat"}
    /\ thread["heartbeat"].pc \in {"start", "rest", "enableAll", "disableAll", "each", "ended"}
    /\ thread["destructor"].pc \in {"rest", "remove", "erase", "setPre", "disable", "removeAll",
                                    "next", "stop", "joinServer", "joinHeartbeat", "ended"}

\* The hook that is erased is the one that was found, unless it has erased itself, or the server
\* has removed it as well and inserted another.
ErasesFound ==
    \A p \in Thread :
        /\ thread[p].pc \in {"update", "release", "erase", "setPre", "disable"} => thread[p].hook # 0
        /\ At(p, "erase") => preHooks[thread[p].node] \in {0, thread[p].hook} \cup late
        /\ At(p, "setPre") => preHooks[thread[p].node] \in {0} \cup late
        /\ At(p, "new") => preHooks[thread[p].node] = 0
        /\ At(p, "each") => \A n \in thread[p].todo : preHooks[n] # 0

\* A callback is injected for the hook in the map, until removeHook() resets it.
InjectedIsKept ==
    \A n \in Node :
        injected[n] # 0 =>
            \/ preHooks[n] = injected[n]
            \/ \E p \in Thread : /\ At(p, "setPre") /\ thread[p].node = n
                                 /\ injected[n] \in {thread[p].hook} \cup late

\* Somebody can still release a tick that is stopped at hook i of node n.
Reachable(n, i) ==
    \/ preHooks[n] = i
    \/ \E p \in Thread : thread[p].hook = i /\ thread[p].pc \in {"setPre", "disable"}

CalledIsReachable ==
    /\ ticker.pc \in {"enter", "asleep", "woken"}
    /\ hooks[ticker.hook].enabled /\ hooks[ticker.hook].mode = "BREAKPOINT"
    => Reachable(ticker.node, ticker.hook) \/ ticker.hook \in late

\* What the server changes is still in the map, or nobody will call it again.
UpdatedIsKept ==
    At("server", "update") /\ At("destructor", "rest") =>
        \/ preHooks[thread["server"].node] = thread["server"].hook
        \/ /\ ticker.hook # thread["server"].hook
           /\ \A n \in Node : injected[n] # thread["server"].hook

\* wait() sleeps only where its predicate was false, and every change of it notifies.
AsleepIsStopped ==
    /\ ticker.pc = "asleep" => /\ hooks[ticker.hook].enabled /\ ~hooks[ticker.hook].ready
                               /\ hooks[ticker.hook].mode = "BREAKPOINT"
    /\ ticker.pc = "woken" => hooks[ticker.hook].ready \/ hooks[ticker.hook].mode = "BREAKPOINT"

\* removeAllHooks() has seen all hooks there are but those that are inserted meanwhile.
RemovesAll ==
    /\ thread["destructor"].pc \in {"next", "remove", "erase", "setPre", "disable"} =>
         \A n \in Node : preHooks[n] \notin {0} \cup late =>
             \/ n \in thread["destructor"].todo
             \/ n = thread["destructor"].node /\ thread["destructor"].pc \in {"remove", "erase"}
    /\ thread["destructor"].pc \in {"stop", "joinServer", "joinHeartbeat", "ended"} =>
         \A n \in Node : preHooks[n] \in {0} \cup late

\* Groot2 inserts hooks that are enabled.
SpecEnabled ==
    thread["server"].pc \in {"insert", "update"} => thread["server"].spec.enabled

HookInv ==
    /\ TypeOK /\ SpecEnabled /\ OneNode /\ LateIsLate /\ Joined /\ NodeKnown /\ ThreadsPlace
    /\ ErasesFound /\ InjectedIsKept /\ CalledIsReachable /\ UpdatedIsKept /\ AsleepIsStopped /\ RemovesAll

-------------------------------------------------------------------------------
(* Steps that change one thread only                                       *)

FoundHook == {"update", "release", "erase", "setPre", "disable"}
Stopping == {"stop", "joinServer", "joinHeartbeat", "ended"}

\* Thread p goes on to r, which does not itself reset or disable a hook: what the hooks, the
\* callbacks and the tick are is as before, and r knows of them what HookInv says.
LEMMA GoesOn ==
    ASSUME HookInv, NEW p \in Thread, NEW r \in ThreadState,
           thread'[p] = r, \A q \in Thread : q # p => thread'[q] = thread[q],
           UNCHANGED <<hooks, created, preHooks, injected, late, ticker>>, TypeOK',
           thread[p].pc \notin {"setPre", "disable"}, r.pc \notin {"setPre", "disable"},
           r.pc \in FoundHook => r.hook # 0 /\ r.node \in Node /\ preHooks[r.node] = r.hook,
           r.pc \in {"insert", "new", "unlock", "remove"} => r.node \in Node,
           thread[p].pc # "ended",
           p = "server" => /\ r.pc \notin {"stop", "joinServer", "joinHeartbeat"}
                           /\ r.pc \in {"insert", "update"} => r.spec.enabled,
           p = "heartbeat" => r.pc \in {"start", "rest", "enableAll", "disableAll", "each", "ended"},
           p = "destructor" => /\ r.pc \in {"remove", "erase", "removeAll", "next"} \cup Stopping
                               /\ r.pc \in {"joinHeartbeat", "ended"} => At("server", "ended")
                               /\ r.pc = "ended" => At("heartbeat", "ended")
                               /\ r.pc \in {"next", "remove", "erase"} =>
                                    \A n \in Node : preHooks[n] \notin {0} \cup late =>
                                        n \in r.todo \/ (n = r.node /\ r.pc \in {"remove", "erase"})
                               /\ r.pc \in Stopping => \A n \in Node : preHooks[n] \in {0} \cup late,
           r.pc = "new" => preHooks[r.node] = 0,
           r.pc = "each" => \A n \in r.todo : preHooks[n] # 0
    PROVE  HookInv'
<1>. USE DEF HookInv, FoundHook, At
<1>1. thread'[p] = r /\ \A q \in Thread : q # p => thread'[q] = thread[q]
  OBVIOUS
<1>2. {"server", "heartbeat", "destructor"} \subseteq Thread /\ p \in {"server", "heartbeat", "destructor"}
  BY DEF Thread
<1>3. SpecEnabled'
  BY <1>1, <1>2 DEF SpecEnabled
<1>4. OneNode'
  <2>1. ASSUME NEW n \in Node, NEW i \in 1 .. created, UsedAt(n, i)'
        PROVE  UsedAt(n, i)
    BY <1>1, <2>1 DEF UsedAt
  <2>. QED
    BY <2>1 DEF OneNode
<1>5. LateIsLate' /\ Joined'
  BY <1>1, <1>2 DEF LateIsLate, Joined, Stopping
<1>10. NodeKnown'
  BY <1>1 DEF NodeKnown
<1>11. ThreadsPlace'
  BY <1>1, <1>2 DEF ThreadsPlace, Stopping
<1>6. ErasesFound'
  <2>1. SUFFICES ASSUME NEW q \in Thread
                 PROVE  /\ thread'[q].pc \in FoundHook => thread'[q].hook # 0
                        /\ thread'[q].pc = "erase" => preHooks[thread'[q].node] \in {0, thread'[q].hook} \cup late
                        /\ thread'[q].pc = "setPre" => preHooks[thread'[q].node] \in {0} \cup late
                        /\ thread'[q].pc = "new" => preHooks[thread'[q].node] = 0
                        /\ thread'[q].pc = "each" => \A n \in thread'[q].todo : preHooks[n] # 0
    BY DEF ErasesFound
  <2>2. CASE q = p
    BY <1>1, <2>2
  <2>3. CASE q # p
    BY <1>1, <2>3 DEF ErasesFound
  <2>. QED
    BY <2>2, <2>3
<1>7. InjectedIsKept' /\ CalledIsReachable'
  BY <1>1 DEF InjectedIsKept, CalledIsReachable, Reachable
<1>8. UpdatedIsKept' /\ AsleepIsStopped'
  BY <1>1, <1>2 DEF UpdatedIsKept, AsleepIsStopped, Stopping
<1>9. RemovesAll'
  BY <1>1, <1>2 DEF RemovesAll, Stopping
<1>. QED
  BY <1>3, <1>4, <1>5, <1>6, <1>7, <1>8, <1>9, <1>10, <1>11

\* The types of a step that changes thread p and neither the map's mutex nor the hooks.
LEMMA ThreadTyped ==
    ASSUME TypeOK, NEW p \in Thread, UNCHANGED <<hookVars, ticker, mapMutex>>, LifeTypeOK',
           thread' \in [Thread -> ThreadState],
           \A q \in Thread : q # p => thread'[q] = thread[q],
           thread[p].pc # "each", thread'[p].pc # "each"
    PROVE  TypeOK'
<1>. USE DEF TypeOK
<1>1. UNCHANGED <<hooks, created, preHooks, injected, late, ticker, mapMutex>>
  BY DEF hookVars
<1>2. HooksTypeOK' /\ TickerTypeOK'
  BY <1>1 DEF HooksTypeOK, TickerTypeOK, Hook
<1>3. ThreadTypeOK'
  <2>1. ThreadState' = ThreadState
    BY <1>1 DEF ThreadState
  <2>2. \A q \in Thread : thread'[q].pc = "each" <=> thread[q].pc = "each"
    OBVIOUS
  <2>. QED
    BY <1>1, <2>1, <2>2 DEF ThreadTypeOK
<1>. QED
  BY <1>2, <1>3

\* The state a thread is in, field by field.
LEMMA ThreadFields ==
    ASSUME TypeOK, NEW p \in Thread
    PROVE  /\ thread[p] \in ThreadState /\ thread[p].hook \in 0 .. created
           /\ thread[p].node \in Node \cup {0} /\ thread[p].todo \subseteq Node
           /\ thread[p].spec \in HookSpec
BY DEF TypeOK, ThreadTypeOK, ThreadState

\* A thread that does nothing.
LEMMA IdleTyped ==
    ASSUME TypeOK
    PROVE  Idle \in ThreadState
<1>1. created \in Nat
  BY BoundsAssumption DEF TypeOK, HooksTypeOK
<1>2. [mode |-> "BREAKPOINT", once |-> FALSE, enabled |-> TRUE] \in HookSpec
  <2>1. FALSE \in BOOLEAN /\ TRUE \in BOOLEAN
    BY Zenon
  <2>. QED
    BY <2>1 DEF HookSpec, Mode
<1>. QED
  BY <1>1, <1>2 DEF Idle, ThreadState

\* What the life of the publisher is made of does not change.
LEMMA SameLife ==
    ASSUME TypeOK, UNCHANGED <<active, hasBeat, lifeVars>>
    PROVE  LifeTypeOK'
<1>1. UNCHANGED <<client, requests, active, heard, hasBeat, gone>>
  BY DEF lifeVars
<1>. QED
  BY <1>1 DEF TypeOK, LifeTypeOK

\* getHook() of the node of thread p.
LEMMA GetHookOK ==
    ASSUME HookInv, NEW p \in Thread, NEW from, NEW found, NEW missing,
           \/ <<from, found, missing>> = <<"remove", "erase", "next">>
           \/ p = "server" /\ <<from, found, missing>> = <<"insert", "update", "new">>
           \/ p = "server" /\ <<from, found, missing>> = <<"unlock", "release", "rest">>,
           GetHook(p, from, found, missing)
    PROVE  HookInv'
<1>. USE DEF HookInv
<1>. DEFINE i == preHooks[thread[p].node]
<1>1. /\ from \in {"remove", "insert", "unlock"} /\ found \in {"erase", "update", "release"}
      /\ missing \in {"next", "new", "rest"} /\ thread[p].pc = from
      /\ UNCHANGED <<hookVars, ticker, mapMutex>>
  BY DEF GetHook, At
<1>2. i \in 0 .. created /\ thread[p].node \in Node
  BY <1>1 DEF TypeOK, HooksTypeOK, NodeKnown
<1>3. /\ thread' \in [Thread -> ThreadState]
      /\ \A q \in Thread : q # p => thread'[q] = thread[q]
      /\ thread'[p].hook = i /\ thread'[p].pc = IF i # 0 THEN found ELSE missing
      /\ thread'[p].node = thread[p].node /\ thread'[p].todo = thread[p].todo
      /\ thread'[p].spec = thread[p].spec
  BY <1>1, <1>2 DEF GetHook, TypeOK, ThreadTypeOK, ThreadState
<1>4. TypeOK'
  BY <1>1, <1>3, ThreadTyped, SameLife DEF GetHook
<1>6. p # "heartbeat" /\ (p = "destructor" => from = "remove")
  BY <1>1 DEF ThreadsPlace
<1>7. p = "destructor" => \A n \in Node : preHooks[n] \notin {0} \cup late => n \in thread[p].todo \/ n = thread[p].node
  BY <1>1, <1>6 DEF RemovesAll
<1>9. UNCHANGED <<hooks, created, preHooks, injected, late, ticker>>
  BY <1>1 DEF hookVars
<1>10. p = "server" /\ from = "insert" => thread[p].spec.enabled
  BY <1>1 DEF SpecEnabled
<1>. QED
  BY <1>1, <1>2, <1>3, <1>4, <1>6, <1>7, <1>9, <1>10, GoesOn DEF FoundHook, Stopping

\* The server starts, or ends once it was told to.
LEMMA ServerStartsOK ==
    ASSUME HookInv, ServerStarts \/ ServerEnds
    PROVE  HookInv'
<1>. USE DEF HookInv
<1>1. /\ thread["server"].pc \in {"start", "rest"}
      /\ UNCHANGED <<hookVars, ticker, mapMutex, hasBeat>>
      /\ UNCHANGED <<client, requests, gone>>
  BY DEF ServerStarts, ServerEnds, At, lifeVars
<1>2. /\ thread' \in [Thread -> ThreadState] /\ thread'["server"].pc \in {"rest", "ended"}
      /\ \A q \in Thread : q # "server" => thread'[q] = thread[q]
  BY DEF ServerStarts, ServerEnds, Go, TypeOK, ThreadTypeOK, ThreadState, Thread
<1>3. LifeTypeOK'
  <2>1. active' \in BOOLEAN /\ heard' \in BOOLEAN
    BY Zenon DEF ServerStarts, ServerEnds, TypeOK, LifeTypeOK, lifeVars
  <2>. QED
    BY <1>1, <2>1 DEF TypeOK, LifeTypeOK
<1>4. TypeOK'
  BY <1>1, <1>2, <1>3, ThreadTyped DEF Thread
<1>5. UNCHANGED <<hooks, created, preHooks, injected, late, ticker>>
  BY <1>1 DEF hookVars
<1>. QED
  BY <1>1, <1>2, <1>4, <1>5, GoesOn DEF FoundHook, Thread

\* A request arrives; Groot2 sends none while the destructor runs.
LEMMA ReceiveOK ==
    ASSUME HookInv, Usage, Receive
    PROVE  HookInv'
<1>. USE DEF HookInv
<1>1. /\ thread["server"].pc = "rest" /\ "server" \in Thread
      /\ UNCHANGED <<hookVars, ticker, mapMutex, active, hasBeat, client, gone>>
  BY DEF Receive, At, Thread
<1>2. UNCHANGED <<hooks, created, preHooks, injected, late, ticker>>
  BY <1>1 DEF hookVars
<1>3. LifeTypeOK'
  <2>1. heard' \in BOOLEAN
    BY Zenon DEF Receive
  <2>2. requests' \in 0 .. MaxRequests
    BY BoundsAssumption DEF Receive, TypeOK, LifeTypeOK
  <2>. QED
    BY <1>1, <2>1, <2>2 DEF TypeOK, LifeTypeOK
<1>4. CASE UNCHANGED thread
  <2>1. thread'["server"] = thread["server"] /\ thread["server"] \in ThreadState
    BY <1>1, <1>4, ThreadFields
  <2>2. TypeOK'
    BY <1>1, <1>3, <1>4, ThreadTyped DEF TypeOK, ThreadTypeOK
  <2>. QED
    BY <1>1, <1>2, <1>4, <2>1, <2>2, GoesOn DEF FoundHook
<1>5. ASSUME NEW request \in client.requests, request # "beat", NEW n \in Node,
             NEW spec \in client.hooks,
             thread' = [thread EXCEPT !["server"] =
                [Idle EXCEPT !.pc = request, !.node = n,
                             !.spec = IF request \in {"insert", "unlock"} THEN spec ELSE @]]
      PROVE  HookInv'
  <2>1. /\ request \in {"insert", "unlock", "remove", "removeAll", "enableAll", "disableAll"}
        /\ spec \in HookSpec /\ spec.enabled
    BY <1>5, ClientsAssumption DEF TypeOK, LifeTypeOK, Usage
  <2>. DEFINE r == [Idle EXCEPT !.pc = request, !.node = n,
                              !.spec = IF request \in {"insert", "unlock"} THEN spec ELSE @]
  <2>2. r.pc = request /\ r.node = n /\ r.hook = 0 /\ r.todo = {} /\ (request = "insert" => r.spec = spec)
    BY DEF Idle
  <2>3. r \in ThreadState
    BY <2>1, IdleTyped DEF ThreadState
  <2>. HIDE DEF r
  <2>4. /\ thread' \in [Thread -> ThreadState] /\ thread'["server"] = r
        /\ \A q \in Thread : q # "server" => thread'[q] = thread[q]
    BY <1>1, <1>5, <2>3 DEF TypeOK, ThreadTypeOK, r
  <2>5. TypeOK'
    BY <1>1, <1>3, <2>1, <2>2, <2>4, ThreadTyped
  <2>. QED
    BY <1>1, <1>2, <2>1, <2>2, <2>3, <2>4, <2>5, GoesOn DEF FoundHook
<1>. QED
  BY <1>4, <1>5 DEF Receive

\* removeAllHooks() goes on to the next hook it has collected, or returns.
LEMMA NextHookOK ==
    ASSUME HookInv, NEW p \in {"server", "destructor"}, NextHook(p)
    PROVE  HookInv'
<1>. USE DEF HookInv
<1>1. /\ thread[p].pc = "next" /\ p \in Thread
      /\ UNCHANGED <<hookVars, ticker, mapMutex>> /\ UNCHANGED <<active, hasBeat, lifeVars>>
  BY DEF NextHook, At, Thread
<1>2. UNCHANGED <<hooks, created, preHooks, injected, late, ticker>>
  BY <1>1 DEF hookVars
<1>3. p = "destructor" => \A n \in Node : preHooks[n] \notin {0} \cup late => n \in thread[p].todo
  BY <1>1 DEF RemovesAll
<1>6. CASE thread[p].todo = {} /\ Return(p)
  <2>. DEFINE r == [Idle EXCEPT !.pc = IF p = "destructor" THEN "stop" ELSE "rest"]
  <2>1. r.pc = IF p = "destructor" THEN "stop" ELSE "rest"
    BY DEF Idle
  <2>2. r \in ThreadState
    BY IdleTyped DEF ThreadState
  <2>. HIDE DEF r
  <2>3. /\ thread' \in [Thread -> ThreadState] /\ thread'[p] = r
        /\ \A q \in Thread : q # p => thread'[q] = thread[q]
    BY <1>1, <1>6, <2>2 DEF TypeOK, ThreadTypeOK, Return, r
  <2>4. TypeOK'
    BY <1>1, <2>1, <2>3, ThreadTyped, SameLife
  <2>. QED
    BY <1>1, <1>2, <1>3, <1>6, <2>1, <2>2, <2>3, <2>4, GoesOn DEF FoundHook, Stopping
<1>7. ASSUME NEW n \in thread[p].todo,
             thread' = [thread EXCEPT ![p].pc = "remove", ![p].node = n, ![p].todo = @ \ {n}]
      PROVE  HookInv'
  <2>1. n \in Node
    BY <1>1, ThreadFields
  <2>2. /\ thread' \in [Thread -> ThreadState]
        /\ \A q \in Thread : q # p => thread'[q] = thread[q]
        /\ thread'[p].pc = "remove" /\ thread'[p].node = n /\ thread'[p].todo = thread[p].todo \ {n}
    BY <1>1, <1>7, <2>1 DEF TypeOK, ThreadTypeOK, ThreadState
  <2>3. TypeOK'
    BY <1>1, <2>2, ThreadTyped, SameLife
  <2>4. p = "destructor" => \A m \in Node : preHooks[m] \notin {0} \cup late => m \in thread'[p].todo \/ m = thread'[p].node
    BY <1>3, <2>2
  <2>. QED
    BY <1>1, <1>2, <2>1, <2>2, <2>3, <2>4, GoesOn DEF FoundHook, Stopping
<1>. QED
  BY <1>6, <1>7 DEF NextHook

\* removeAllHooks() collects the nodes of all hooks in the map.
LEMMA CollectOK ==
    ASSUME HookInv, NEW p \in {"server", "destructor"}, Collect(p)
    PROVE  HookInv'
<1>. USE DEF HookInv
<1>1. /\ thread[p].pc = "removeAll" /\ p \in Thread
      /\ UNCHANGED <<hookVars, ticker, mapMutex>> /\ UNCHANGED <<active, hasBeat, lifeVars>>
  BY DEF Collect, At, Thread
<1>2. UNCHANGED <<hooks, created, preHooks, injected, late, ticker>>
  BY <1>1 DEF hookVars
<1>5. /\ thread' \in [Thread -> ThreadState]
      /\ \A q \in Thread : q # p => thread'[q] = thread[q]
      /\ thread'[p].pc = "next" /\ \A n \in Node : preHooks[n] # 0 => n \in thread'[p].todo
  <2>1. Nodes(preHooks) \subseteq Node /\ \A n \in Node : preHooks[n] # 0 => n \in Nodes(preHooks)
    BY DEF Nodes
  <2>2. thread' = [thread EXCEPT ![p].pc = "next", ![p].todo = Nodes(preHooks)]
    BY DEF Collect
  <2>3. /\ \A q \in Thread : q # p => thread'[q] = thread[q]
        /\ thread'[p].pc = "next" /\ thread'[p].todo = Nodes(preHooks)
    BY <1>1, <2>2 DEF TypeOK, ThreadTypeOK, ThreadState
  <2>4. thread'[p] \in ThreadState
    BY <1>1, <2>1, <2>2, ThreadFields, ZenonT(40) DEF TypeOK, ThreadTypeOK, ThreadState
  <2>5. thread' \in [Thread -> ThreadState]
    BY <1>1, <2>2, <2>3, <2>4 DEF TypeOK, ThreadTypeOK
  <2>. QED
    BY <2>1, <2>3, <2>5
<1>6. TypeOK'
  BY <1>1, <1>5, ThreadTyped, SameLife
<1>. QED
  BY <1>1, <1>2, <1>5, <1>6, GoesOn DEF FoundHook, Stopping

\* heartbeatLoop() looks whether Groot2 was heard of.
LEMMA HeartbeatOK ==
    ASSUME HookInv, Heartbeat
    PROVE  HookInv'
<1>. USE DEF HookInv
<1>1. /\ thread["heartbeat"].pc \in {"start", "rest"} /\ "heartbeat" \in Thread
      /\ UNCHANGED <<hookVars, ticker, mapMutex>> /\ UNCHANGED <<active, lifeVars>>
  BY DEF Heartbeat, At, Thread
<1>2. UNCHANGED <<hooks, created, preHooks, injected, late, ticker>>
  BY <1>1 DEF hookVars
<1>3. /\ thread' \in [Thread -> ThreadState]
      /\ \A q \in Thread : q # "heartbeat" => thread'[q] = thread[q]
      /\ thread'["heartbeat"].pc \in {"ended", "rest", "enableAll", "disableAll"}
  BY <1>1 DEF Heartbeat, Go, TypeOK, ThreadTypeOK, ThreadState
<1>4. LifeTypeOK'
  <2>1. hasBeat' \in BOOLEAN
    BY Zenon DEF Heartbeat, TypeOK, LifeTypeOK
  <2>2. UNCHANGED <<client, requests, active, heard, gone>>
    BY <1>1 DEF lifeVars
  <2>. QED
    BY <2>1, <2>2 DEF TypeOK, LifeTypeOK
<1>5. TypeOK'
  BY <1>1, <1>3, <1>4, ThreadTyped
<1>. QED
  BY <1>1, <1>2, <1>3, <1>5, GoesOn DEF FoundHook

\* The destructor begins, whatever the server is doing.
LEMMA DestroyOK ==
    ASSUME HookInv, Destroy
    PROVE  HookInv'
<1>. USE DEF HookInv
<1>1. /\ thread["destructor"].pc = "rest" /\ "destructor" \in Thread
      /\ UNCHANGED <<hookVars, ticker, mapMutex>> /\ UNCHANGED <<active, hasBeat, lifeVars>>
  BY DEF Destroy, At, Thread
<1>2. UNCHANGED <<hooks, created, preHooks, injected, late, ticker>>
  BY <1>1 DEF hookVars
<1>3. /\ thread' \in [Thread -> ThreadState]
      /\ \A q \in Thread : q # "destructor" => thread'[q] = thread[q]
      /\ thread'["destructor"].pc = "removeAll"
  BY <1>1 DEF Destroy, Go, TypeOK, ThreadTypeOK, ThreadState
<1>4. TypeOK'
  BY <1>1, <1>3, ThreadTyped, SameLife
<1>. QED
  BY <1>1, <1>2, <1>3, <1>4, GoesOn DEF FoundHook, Stopping

\* The destructor stops and joins the two threads.
LEMMA StopOK ==
    ASSUME HookInv, Stop
    PROVE  HookInv'
<1>. USE DEF HookInv
<1>1. /\ thread["destructor"].pc \in {"stop", "joinServer", "joinHeartbeat"} /\ "destructor" \in Thread
      /\ UNCHANGED <<hookVars, ticker, mapMutex>> /\ UNCHANGED <<hasBeat, lifeVars>>
  BY DEF Stop, At, Thread
<1>2. UNCHANGED <<hooks, created, preHooks, injected, late, ticker>>
  BY <1>1 DEF hookVars
<1>3. /\ thread' \in [Thread -> ThreadState]
      /\ \A q \in Thread : q # "destructor" => thread'[q] = thread[q]
      /\ thread'["destructor"].pc \in {"joinServer", "joinHeartbeat", "ended"}
  BY <1>1 DEF Stop, Go, TypeOK, ThreadTypeOK, ThreadState
<1>4. LifeTypeOK'
  <2>1. active' \in BOOLEAN
    BY Zenon DEF Stop, TypeOK, LifeTypeOK
  <2>2. UNCHANGED <<client, requests, hasBeat, heard, gone>>
    BY <1>1 DEF lifeVars
  <2>. QED
    BY <2>1, <2>2 DEF TypeOK, LifeTypeOK
<1>5. TypeOK'
  BY <1>1, <1>3, <1>4, ThreadTyped
<1>6. /\ thread'["destructor"].pc \in {"joinHeartbeat", "ended"} => At("server", "ended")
      /\ thread'["destructor"].pc = "ended" => At("heartbeat", "ended")
  <2>1. CASE thread'["destructor"].pc = "joinServer"
    BY <2>1
  <2>2. CASE thread["destructor"].pc = "joinServer"
    <3>1. At("server", "ended") /\ Go("destructor", "joinHeartbeat")
      BY <2>2 DEF Stop, At
    <3>. QED
      BY <1>1, <3>1 DEF Go, TypeOK, ThreadTypeOK, ThreadState
  <2>3. CASE thread["destructor"].pc = "joinHeartbeat"
    BY <2>3 DEF Stop, Joined, At
  <2>4. CASE thread["destructor"].pc = "stop"
    <3>1. Go("destructor", "joinServer")
      BY <2>4 DEF Stop, At
    <3>. QED
      BY <1>1, <3>1 DEF Go, TypeOK, ThreadTypeOK, ThreadState
  <2>. QED
    BY <1>1, <2>1, <2>2, <2>3, <2>4
<1>7. \A n \in Node : preHooks[n] \in {0} \cup late
  BY <1>1 DEF RemovesAll
<1>. QED
  BY <1>1, <1>2, <1>3, <1>5, <1>6, <1>7, GoesOn DEF FoundHook, Stopping

-------------------------------------------------------------------------------
(* enableAllHooks()                                                        *)

\* enableAllHooks() locks the map, in which every hook it will go through is found.
LEMMA LockMapOK ==
    ASSUME HookInv, NEW p \in {"server", "heartbeat"}, LockMap(p)
    PROVE  HookInv'
<1>. USE DEF HookInv
<1>1. /\ thread[p].pc \in {"enableAll", "disableAll"} /\ p \in Thread
      /\ mapMutex = "free" /\ mapMutex' = p
      /\ UNCHANGED <<hookVars, ticker>> /\ UNCHANGED <<active, hasBeat, lifeVars>>
  BY DEF LockMap, Thread
<1>2. UNCHANGED <<hooks, created, preHooks, injected, late, ticker>>
  BY <1>1 DEF hookVars
<1>3. /\ thread' \in [Thread -> ThreadState]
      /\ \A q \in Thread : q # p => thread'[q] = thread[q]
      /\ thread'[p].pc = "each" /\ \A n \in thread'[p].todo : preHooks[n] # 0
  <2>1. Nodes(preHooks) \subseteq Node /\ \A n \in Nodes(preHooks) : preHooks[n] # 0
    BY DEF Nodes
  <2>2. At(p, "enableAll") \in BOOLEAN
    BY Zenon DEF At
  <2>. DEFINE b == At(p, "enableAll")
  <2>3. thread' = [thread EXCEPT ![p].pc = "each", ![p].todo = Nodes(preHooks), ![p].spec.enabled = b]
    BY DEF LockMap
  <2>4. b \in BOOLEAN
    BY <2>2
  <2>. HIDE DEF b
  <2>5. [thread[p].spec EXCEPT !.enabled = b] \in HookSpec
    BY <1>1, <2>4, ThreadFields DEF HookSpec
  <2>6. /\ \A q \in Thread : q # p => thread'[q] = thread[q]
        /\ thread'[p].pc = "each" /\ thread'[p].todo = Nodes(preHooks)
    BY <1>1, <2>3 DEF TypeOK, ThreadTypeOK, ThreadState
  <2>7. thread'[p] \in ThreadState
    BY <1>1, <2>1, <2>3, <2>5, ThreadFields, ZenonT(40) DEF TypeOK, ThreadTypeOK, ThreadState
  <2>8. thread' \in [Thread -> ThreadState]
    BY <1>1, <2>3, <2>6, <2>7 DEF TypeOK, ThreadTypeOK
  <2>. QED
    BY <2>1, <2>6, <2>8
<1>4. TypeOK'
  <2>1. HooksTypeOK' /\ TickerTypeOK'
    BY <1>2 DEF TypeOK, HooksTypeOK, TickerTypeOK, Hook
  <2>2. ThreadState' = ThreadState
    BY <1>2 DEF ThreadState
  <2>3. ThreadTypeOK'
    BY <1>1, <1>3, <2>2 DEF TypeOK, ThreadTypeOK, Thread
  <2>. QED
    BY <1>1, <2>1, <2>3, SameLife DEF TypeOK
<1>. QED
  BY <1>1, <1>2, <1>3, <1>4, GoesOn DEF FoundHook

\* enableAllHooks() has gone through all hooks.
LEMMA UnlockMapOK ==
    ASSUME HookInv, NEW p \in {"server", "heartbeat"}, UnlockMap(p)
    PROVE  HookInv'
<1>. USE DEF HookInv
<1>1. /\ thread[p].pc = "each" /\ p \in Thread
      /\ mapMutex' = "free"
      /\ UNCHANGED <<hookVars, ticker>> /\ UNCHANGED <<active, hasBeat, lifeVars>>
  BY DEF UnlockMap, At, Thread
<1>2. UNCHANGED <<hooks, created, preHooks, injected, late, ticker>>
  BY <1>1 DEF hookVars
<1>. DEFINE r == [Idle EXCEPT !.pc = "rest"]
<1>3. r.pc = "rest"
  BY DEF Idle
<1>4. r \in ThreadState
  BY IdleTyped DEF ThreadState
<1>5. thread' = [thread EXCEPT ![p] = r]
  BY <1>1 DEF UnlockMap, Return
<1>. HIDE DEF r
<1>6. /\ thread' \in [Thread -> ThreadState] /\ thread'[p] = r
      /\ \A q \in Thread : q # p => thread'[q] = thread[q]
  BY <1>1, <1>4, <1>5 DEF TypeOK, ThreadTypeOK
<1>7. TypeOK'
  <2>1. HooksTypeOK' /\ TickerTypeOK'
    BY <1>2 DEF TypeOK, HooksTypeOK, TickerTypeOK, Hook
  <2>2. ThreadState' = ThreadState
    BY <1>2 DEF ThreadState
  <2>3. mapMutex = p
    BY <1>1 DEF TypeOK, ThreadTypeOK
  <2>4. ThreadTypeOK'
    BY <1>1, <1>3, <1>6, <2>2, <2>3 DEF TypeOK, ThreadTypeOK, Thread
  <2>. QED
    BY <1>1, <2>1, <2>4, SameLife DEF TypeOK
<1>. QED
  BY <1>1, <1>2, <1>3, <1>4, <1>6, <1>7, GoesOn DEF FoundHook

-------------------------------------------------------------------------------
(* Steps that change one hook                                              *)

\* The tick is notified of a change of hook i, or is not concerned.
WokenAt(i) ==
    /\ ticker'.node = ticker.node /\ ticker'.hook = ticker.hook
    /\ \/ ticker'.pc = ticker.pc
       \/ ticker.pc = "asleep" /\ ticker.hook = i /\ ticker'.pc = "woken"

\* Thread p has changed hook i, which it had found, to h, and goes on to r.
LEMMA HookChanged ==
    ASSUME HookInv, TypeOK', NEW p \in Thread, NEW r \in ThreadState, NEW i \in 1 .. created,
           NEW h \in Hook,
           hooks'[i] = h, \A j \in 0 .. created : j # i => hooks'[j] = hooks[j],
           thread'[p] = r, \A q \in Thread : q # p => thread'[q] = thread[q],
           UNCHANGED <<created, preHooks, injected>>, WokenAt(i),
           late \subseteq late', At("destructor", "rest") => late' = late,
           thread[p].pc \in {"update", "release", "disable", "each"},
           thread[p].pc = "disable" => thread[p].hook = i,
           r.pc = IF thread[p].pc = "each" THEN "each"
                  ELSE IF thread[p].pc = "disable" THEN "next" ELSE "rest",
           r.todo \subseteq thread[p].todo, r.pc = "next" => r.todo = thread[p].todo,
           /\ ticker.hook = i /\ ticker.pc \in {"enter", "asleep", "woken"}
           /\ h.enabled /\ h.mode = "BREAKPOINT"
           => \/ preHooks[ticker.node] = i \/ i \in late'
              \/ \E q \in Thread : q # p /\ thread[q].hook = i /\ thread[q].pc \in {"setPre", "disable"},
           ticker.hook = i /\ ticker'.pc = "asleep" =>
               h.enabled /\ ~h.ready /\ h.mode = "BREAKPOINT",
           ticker.hook = i /\ ticker'.pc = "woken" => h.ready \/ h.mode = "BREAKPOINT"
    PROVE  HookInv'
<1>. USE DEF HookInv, At
<1>1. thread'[p] = r /\ \A q \in Thread : q # p => thread'[q] = thread[q]
  OBVIOUS
<1>2. {"server", "heartbeat", "destructor"} \subseteq Thread /\ p \in {"server", "heartbeat", "destructor"}
  BY DEF Thread
<1>3. r.pc \in {"each", "next", "rest"}
  OBVIOUS
<1>4. SpecEnabled'
  BY <1>1, <1>2, <1>3 DEF SpecEnabled
<1>5. OneNode'
  <2>1. ASSUME NEW n \in Node, NEW j \in 1 .. created, UsedAt(n, j)'
        PROVE  UsedAt(n, j)
    BY <1>1, <1>3, <2>1 DEF UsedAt, WokenAt
  <2>. QED
    BY <2>1 DEF OneNode
<1>6. LateIsLate' /\ Joined' /\ NodeKnown' /\ ThreadsPlace'
  BY <1>1, <1>2, <1>3 DEF LateIsLate, Joined, NodeKnown, ThreadsPlace
<1>7. ErasesFound'
  <2>1. SUFFICES ASSUME NEW q \in Thread
                 PROVE  /\ thread'[q].pc \in FoundHook => thread'[q].hook # 0
                        /\ thread'[q].pc = "erase" => preHooks[thread'[q].node] \in {0, thread'[q].hook} \cup late
                        /\ thread'[q].pc = "setPre" => preHooks[thread'[q].node] \in {0} \cup late
                        /\ thread'[q].pc = "new" => preHooks[thread'[q].node] = 0
                        /\ thread'[q].pc = "each" => \A n \in thread'[q].todo : preHooks[n] # 0
    BY DEF ErasesFound, FoundHook
  <2>2. CASE q = p
    BY <1>1, <1>3, <2>2 DEF ErasesFound, FoundHook
  <2>3. CASE q # p
    BY <1>1, <2>3 DEF ErasesFound, FoundHook
  <2>. QED
    BY <2>2, <2>3
<1>8. InjectedIsKept'
  BY <1>1, <1>3 DEF InjectedIsKept
<1>9. ticker.hook \in 0 .. created
  BY DEF TypeOK, TickerTypeOK
<1>10. CalledIsReachable'
  <2>1. CASE ticker.hook = i
    BY <1>1, <2>1 DEF CalledIsReachable, Reachable, WokenAt
  <2>2. CASE ticker.hook # i
    <3>1. hooks'[ticker.hook] = hooks[ticker.hook] /\ ticker'.pc = ticker.pc
      BY <1>9, <2>2 DEF WokenAt
    <3>. QED
      BY <1>1, <2>2, <3>1 DEF CalledIsReachable, Reachable, WokenAt
  <2>. QED
    BY <2>1, <2>2
<1>11. UpdatedIsKept'
  <2>1. SUFFICES ASSUME thread'["server"].pc = "update", thread'["destructor"].pc = "rest"
                 PROVE  \/ preHooks[thread'["server"].node] = thread'["server"].hook
                        \/ /\ ticker'.hook # thread'["server"].hook
                           /\ \A n \in Node : injected[n] # thread'["server"].hook
    BY DEF UpdatedIsKept
  <2>2. p # "server"
    BY <1>1, <1>3, <2>1
  <2>3. p # "destructor"
    BY <2>1 DEF ThreadsPlace
  <2>4. UNCHANGED <<thread["server"], thread["destructor"]>>
    BY <1>1, <1>2, <2>2, <2>3
  <2>. QED
    BY <2>1, <2>4 DEF UpdatedIsKept, WokenAt
<1>12. AsleepIsStopped'
  BY <1>9 DEF AsleepIsStopped, WokenAt
<1>13. RemovesAll'
  BY <1>1, <1>2, <1>3 DEF RemovesAll
<1>. QED
  BY <1>4, <1>5, <1>6, <1>7, <1>8, <1>10, <1>11, <1>12, <1>13

\* The types of such a step.
LEMMA HookChangedTyped ==
    ASSUME TypeOK, NEW p \in Thread, NEW i \in 1 .. created, NEW h \in Hook,
           hooks' = [hooks EXCEPT ![i] = h], UNCHANGED <<created, preHooks, injected, mapMutex>>,
           late' \subseteq 1 .. created,
           ticker' \in {ticker, [ticker EXCEPT !.pc = "woken"]},
           ticker.pc # "rest" \/ ticker' = ticker, LifeTypeOK',
           thread' \in [Thread -> ThreadState],
           \A q \in Thread : q # p => thread'[q] = thread[q],
           thread[p].pc = "each" <=> thread'[p].pc = "each"
    PROVE  TypeOK'
<1>. USE DEF TypeOK
<1>1. HooksTypeOK'
  BY DEF HooksTypeOK, Hook
<1>2. TickerTypeOK'
  BY DEF TickerTypeOK
<1>3. ThreadTypeOK'
  <2>1. ThreadState' = ThreadState
    BY DEF ThreadState
  <2>2. \A q \in Thread : thread'[q].pc = "each" <=> thread[q].pc = "each"
    OBVIOUS
  <2>. QED
    BY <2>1, <2>2 DEF ThreadTypeOK
<1>. QED
  BY <1>1, <1>2, <1>3

\* notify_all() on hook i wakes the tick that sleeps there, and changes nothing else of it.
LEMMA WakeWakes ==
    ASSUME TypeOK, NEW i, Wake(i) \/ UNCHANGED ticker
    PROVE  /\ WokenAt(i) /\ ticker' \in {ticker, [ticker EXCEPT !.pc = "woken"]}
           /\ ticker.pc # "rest" \/ ticker' = ticker
           /\ Wake(i) => ~(ticker'.pc = "asleep" /\ ticker.hook = i)
BY DEF TypeOK, TickerTypeOK, Wake, WokenAt


\* HOOK_INSERT of a node that has a hook.
LEMMA UpdateHookOK ==
    ASSUME HookInv, UpdateHook
    PROVE  HookInv'
<1>. USE DEF HookInv
<1>. DEFINE i == thread["server"].hook
            spec == thread["server"].spec
            unlock == hooks[i].mode = "BREAKPOINT" /\ spec.mode = "REPLACE"
            h == [mode |-> spec.mode, once |-> spec.once, enabled |-> spec.enabled,
                  ready |-> hooks[i].ready \/ unlock]
            r == [Idle EXCEPT !.pc = "rest"]
<1>1. /\ thread["server"].pc = "update" /\ "server" \in Thread
      /\ UNCHANGED <<created, preHooks, injected, mapMutex>> /\ UNCHANGED <<active, hasBeat, lifeVars>>
  BY DEF UpdateHook, At, Thread
<1>2. i \in 1 .. created /\ spec \in HookSpec /\ spec.enabled /\ i \in Id
  BY <1>1, ThreadFields, BoundsAssumption DEF ErasesFound, SpecEnabled, TypeOK, HooksTypeOK, Id
<1>3. hooks \in [Id -> Hook]
  BY DEF TypeOK, HooksTypeOK
<1>4. h \in Hook /\ (h.ready <=> hooks[i].ready \/ unlock) /\ h.enabled /\ h.mode = spec.mode
  <2>1. (hooks[i].ready \/ unlock) \in BOOLEAN
    BY Zenon
  <2>. DEFINE b == hooks[i].ready \/ unlock
  <2>2. b \in BOOLEAN
    BY <2>1
  <2>3. h = [mode |-> spec.mode, once |-> spec.once, enabled |-> spec.enabled, ready |-> b]
    OBVIOUS
  <2>4. spec.once \in BOOLEAN /\ spec.enabled \in BOOLEAN /\ spec.mode \in Mode
    BY <1>2 DEF HookSpec
  <2>5. h.ready = b
    BY Zenon, <2>3
  <2>. HIDE DEF b, h
  <2>6. h \in Hook /\ h.enabled = spec.enabled /\ h.mode = spec.mode
    BY <2>2, <2>3, <2>4 DEF Hook
  <2>. QED
    BY Zenon, <1>2, <2>5, <2>6 DEF b
<1>5. hooks' = [hooks EXCEPT ![i] = h]
  BY DEF UpdateHook
<1>6. r.pc = "rest" /\ r.todo = {} /\ r \in ThreadState
  BY IdleTyped DEF Idle, ThreadState
<1>7. thread' = [thread EXCEPT !["server"] = r]
  BY DEF UpdateHook, Return
<1>8. IF unlock THEN Wake(i) ELSE UNCHANGED ticker
  BY DEF UpdateHook
<1>. HIDE DEF h, r
<1>9. hooks'[i] = h /\ \A j \in 0 .. created : j # i => hooks'[j] = hooks[j]
  BY <1>2, <1>3, <1>5
<1>10. /\ thread' \in [Thread -> ThreadState] /\ thread'["server"] = r
       /\ \A q \in Thread : q # "server" => thread'[q] = thread[q]
  BY <1>1, <1>6, <1>7 DEF TypeOK, ThreadTypeOK
<1>15. /\ late \subseteq late' /\ late' \subseteq 1 .. created
       /\ IF At("destructor", "rest") THEN late' = late ELSE i \in late'
  BY <1>2 DEF UpdateHook, Changed, TypeOK, HooksTypeOK
<1>11. TypeOK'
  <2>1. LifeTypeOK'
    BY <1>1, SameLife
  <2>. QED
    BY <1>1, <1>15, <1>2, <1>4, <1>5, <1>6, <1>8, <1>10, <2>1, WakeWakes, HookChangedTyped
<1>12. ticker.hook = i /\ ticker.pc \in {"enter", "asleep", "woken"} =>
         preHooks[ticker.node] = i \/ i \in late'
  <2>1. SUFFICES ASSUME ticker.hook = i, ticker.pc \in {"enter", "asleep", "woken"},
                        At("destructor", "rest")
                 PROVE  preHooks[ticker.node] = i
    BY <1>15
  <2>2. thread["server"].node \in Node /\ ticker.node \in Node
    BY <1>1, <2>1, BoundsAssumption DEF NodeKnown, TypeOK, TickerTypeOK
  <2>3. preHooks[thread["server"].node] = i
    BY <1>1, <2>1 DEF UpdatedIsKept, At
  <2>4. UsedAt(thread["server"].node, i) /\ UsedAt(ticker.node, i)
    BY <2>1, <2>3 DEF UsedAt
  <2>5. thread["server"].node = ticker.node
    BY <1>2, <2>2, <2>4 DEF OneNode
  <2>. QED
    BY <2>3, <2>5
<1>13. /\ ticker.hook = i /\ ticker'.pc = "asleep" => h.enabled /\ ~h.ready /\ h.mode = "BREAKPOINT"
       /\ ticker.hook = i /\ ticker'.pc = "woken" => h.ready \/ h.mode = "BREAKPOINT"
  <2>1. WokenAt(i) /\ (Wake(i) => ~(ticker'.pc = "asleep" /\ ticker.hook = i))
    BY <1>8, WakeWakes
  <2>2. spec.mode \in Mode /\ hooks[i].mode \in Mode
    BY <1>2, <1>3 DEF HookSpec, Hook
  <2>3. CASE unlock
    BY <1>4, <1>8, <2>1, <2>3
  <2>4. CASE ~unlock
    BY <1>4, <1>8, <2>1, <2>2, <2>4 DEF AsleepIsStopped, Mode
  <2>. QED
    BY <2>3, <2>4
<1>14. WokenAt(i)
  BY <1>8, WakeWakes
<1>. HIDE DEF i, spec, unlock
<1>. QED
  BY <1>1, <1>2, <1>4, <1>6, <1>9, <1>10, <1>11, <1>12, <1>13, <1>14, <1>15, HookChanged

\* BREAKPOINT_UNLOCK
LEMMA UnlockBreakpointOK ==
    ASSUME HookInv, UnlockBreakpoint
    PROVE  HookInv'
<1>. USE DEF HookInv
<1>. DEFINE i == thread["server"].hook
            h == [hooks[i] EXCEPT !.once = @ \/ thread["server"].spec.once,
                                  !.ready = @ \/ hooks[i].mode = "BREAKPOINT"]
            r == [Idle EXCEPT !.pc = "rest"]
<1>1. /\ thread["server"].pc = "release" /\ "server" \in Thread
      /\ UNCHANGED <<created, preHooks, injected, late, mapMutex>> /\ UNCHANGED <<active, hasBeat, lifeVars>>
  BY DEF UnlockBreakpoint, At, Thread
<1>2. i \in 1 .. created /\ i \in Id
  BY <1>1, ThreadFields, BoundsAssumption DEF ErasesFound, TypeOK, HooksTypeOK, Id
<1>3. hooks \in [Id -> Hook]
  BY DEF TypeOK, HooksTypeOK
<1>4. /\ h \in Hook /\ (h.ready <=> hooks[i].ready \/ hooks[i].mode = "BREAKPOINT")
      /\ h.enabled = hooks[i].enabled /\ h.mode = hooks[i].mode
      /\ hooks' = [hooks EXCEPT ![i] = h]
  <2>. DEFINE b == hooks[i].ready \/ hooks[i].mode = "BREAKPOINT"
              o == hooks[i].once \/ thread["server"].spec.once
  <2>1. (hooks[i].ready \/ hooks[i].mode = "BREAKPOINT") \in BOOLEAN
    BY Zenon
  <2>2. (hooks[i].once \/ thread["server"].spec.once) \in BOOLEAN
    BY Zenon
  <2>3. b \in BOOLEAN /\ o \in BOOLEAN
    BY <2>1, <2>2
  <2>4. h = [hooks[i] EXCEPT !.once = o, !.ready = b]
    OBVIOUS
  <2>5. hooks' = [hooks EXCEPT ![i].once = o, ![i].ready = b]
    BY DEF UnlockBreakpoint
  <2>6. b <=> hooks[i].ready \/ hooks[i].mode = "BREAKPOINT"
    OBVIOUS
  <2>. HIDE DEF b, o, h
  <2>7. h.ready = b /\ h \in Hook /\ h.enabled = hooks[i].enabled /\ h.mode = hooks[i].mode
    BY <1>2, <1>3, <2>3, <2>4 DEF Hook
  <2>8. hooks' = [hooks EXCEPT ![i] = h]
    BY <1>2, <1>3, <2>4, <2>5
  <2>. QED
    BY Zenon, <2>6, <2>7, <2>8
<1>5. r.pc = "rest" /\ r.todo = {} /\ r \in ThreadState
  BY IdleTyped DEF Idle, ThreadState
<1>6. thread' = [thread EXCEPT !["server"] = r]
  BY DEF UnlockBreakpoint, Return
<1>7. IF hooks[i].mode = "BREAKPOINT" THEN Wake(i) ELSE UNCHANGED ticker
  BY DEF UnlockBreakpoint
<1>. HIDE DEF h, r
<1>8. hooks'[i] = h /\ \A j \in 0 .. created : j # i => hooks'[j] = hooks[j]
  BY <1>2, <1>3, <1>4
<1>9. /\ thread' \in [Thread -> ThreadState] /\ thread'["server"] = r
      /\ \A q \in Thread : q # "server" => thread'[q] = thread[q]
  BY <1>1, <1>5, <1>6 DEF TypeOK, ThreadTypeOK
<1>10. TypeOK'
  <2>1. LifeTypeOK'
    BY <1>1, SameLife
  <2>. QED
    BY <1>1, <1>2, <1>4, <1>5, <1>7, <1>9, <2>1, WakeWakes, HookChangedTyped DEF TypeOK, HooksTypeOK
<1>11. /\ ticker.hook = i /\ ticker.pc \in {"enter", "asleep", "woken"}
       /\ h.enabled /\ h.mode = "BREAKPOINT"
       => \/ preHooks[ticker.node] = i \/ i \in late'
          \/ \E q \in Thread : q # "server" /\ thread[q].hook = i /\ thread[q].pc \in {"setPre", "disable"}
  <2>1. SUFFICES ASSUME ticker.hook = i, ticker.pc \in {"enter", "asleep", "woken"},
                        h.enabled, h.mode = "BREAKPOINT"
                 PROVE  \/ preHooks[ticker.node] = i \/ i \in late'
                        \/ \E q \in Thread : /\ q # "server" /\ thread[q].hook = i
                                             /\ thread[q].pc \in {"setPre", "disable"}
    OBVIOUS
  <2>. QED
    BY <1>1, <1>4, <2>1 DEF CalledIsReachable, Reachable
<1>12. /\ ticker.hook = i /\ ticker'.pc = "asleep" => h.enabled /\ ~h.ready /\ h.mode = "BREAKPOINT"
       /\ ticker.hook = i /\ ticker'.pc = "woken" => h.ready \/ h.mode = "BREAKPOINT"
  <2>1. WokenAt(i) /\ (Wake(i) => ~(ticker'.pc = "asleep" /\ ticker.hook = i))
    BY <1>7, WakeWakes
  <2>2. CASE hooks[i].mode = "BREAKPOINT"
    BY <1>4, <1>7, <2>1, <2>2
  <2>3. CASE hooks[i].mode # "BREAKPOINT"
    BY <1>4, <1>7, <2>1, <2>3 DEF AsleepIsStopped
  <2>. QED
    BY <2>2, <2>3
<1>13. WokenAt(i)
  BY <1>7, WakeWakes
<1>. HIDE DEF i
<1>. QED
  BY <1>1, <1>2, <1>4, <1>5, <1>8, <1>9, <1>10, <1>11, <1>12, <1>13, HookChanged

\* removeHook() disables the breakpoint it has taken out, and wakes the tick that is at it.
LEMMA DisableOK ==
    ASSUME HookInv, NEW p \in {"server", "destructor"}, Disable(p)
    PROVE  HookInv'
<1>. USE DEF HookInv
<1>. DEFINE i == thread[p].hook
            h == IF hooks[i].mode = "BREAKPOINT" THEN [hooks[i] EXCEPT !.enabled = FALSE] ELSE hooks[i]
            r == [thread[p] EXCEPT !.pc = "next"]
<1>1. /\ thread[p].pc = "disable" /\ p \in Thread
      /\ UNCHANGED <<created, preHooks, injected, late, mapMutex>> /\ UNCHANGED <<active, hasBeat, lifeVars>>
  BY DEF Disable, At, Thread
<1>2. i \in 1 .. created /\ i \in Id
  BY <1>1, ThreadFields, BoundsAssumption DEF ErasesFound, TypeOK, HooksTypeOK, Id
<1>3. hooks \in [Id -> Hook]
  BY DEF TypeOK, HooksTypeOK
<1>4. h \in Hook /\ hooks' = [hooks EXCEPT ![i] = h]
  <2>1. FALSE \in BOOLEAN /\ hooks[i] \in Hook
    BY Zenon, <1>2, <1>3
  <2>2. h \in Hook
    BY <2>1 DEF Hook
  <2>3. hooks' = [hooks EXCEPT ![i] = h]
    BY <1>2, <1>3 DEF Disable
  <2>. QED
    BY <2>2, <2>3
<1>5. h.mode = "BREAKPOINT" => ~h.enabled
  BY <1>2, <1>3 DEF Hook
<1>6. h.mode = hooks[i].mode /\ h.ready = hooks[i].ready
  BY <1>2, <1>3 DEF Hook
<1>7. r.pc = "next" /\ r.todo = thread[p].todo /\ r \in ThreadState
  BY <1>1, ThreadFields DEF ThreadState
<1>8. thread' = [thread EXCEPT ![p] = r]
  BY <1>1 DEF Disable, Go, TypeOK, ThreadTypeOK
<1>9. IF hooks[i].mode = "BREAKPOINT" THEN Wake(i) ELSE UNCHANGED ticker
  BY DEF Disable
<1>. HIDE DEF h, r
<1>10. hooks'[i] = h /\ \A j \in 0 .. created : j # i => hooks'[j] = hooks[j]
  BY <1>2, <1>3, <1>4
<1>11. /\ thread' \in [Thread -> ThreadState] /\ thread'[p] = r
       /\ \A q \in Thread : q # p => thread'[q] = thread[q]
  BY <1>1, <1>7, <1>8 DEF TypeOK, ThreadTypeOK
<1>12. TypeOK'
  <2>1. LifeTypeOK'
    BY <1>1, SameLife
  <2>. QED
    BY <1>1, <1>2, <1>4, <1>7, <1>9, <1>11, <2>1, WakeWakes, HookChangedTyped DEF TypeOK, HooksTypeOK
<1>13. /\ ticker.hook = i /\ ticker'.pc = "asleep" => h.enabled /\ ~h.ready /\ h.mode = "BREAKPOINT"
       /\ ticker.hook = i /\ ticker'.pc = "woken" => h.ready \/ h.mode = "BREAKPOINT"
  <2>1. WokenAt(i) /\ (Wake(i) => ~(ticker'.pc = "asleep" /\ ticker.hook = i))
    BY <1>9, WakeWakes
  <2>2. CASE hooks[i].mode = "BREAKPOINT"
    BY <1>6, <1>9, <2>1, <2>2
  <2>3. CASE hooks[i].mode # "BREAKPOINT"
    BY <1>6, <1>9, <2>1, <2>3 DEF AsleepIsStopped
  <2>. QED
    BY <2>2, <2>3
<1>14. WokenAt(i)
  BY <1>9, WakeWakes
<1>. HIDE DEF i
<1>15. thread[p].hook = i
  BY DEF i
<1>. QED
  BY <1>1, <1>2, <1>4, <1>5, <1>7, <1>10, <1>11, <1>12, <1>13, <1>14, <1>15, HookChanged

\* enableAllHooks() reaches the hook of node n, which is still in the map.
LEMMA EnableEachOK ==
    ASSUME HookInv, NEW p \in {"server", "heartbeat"}, NEW n \in Node, EnableEach(p, n)
    PROVE  HookInv'
<1>. USE DEF HookInv
<1>. DEFINE i == preHooks[n]
            enable == thread[p].spec.enabled
            h == [hooks[i] EXCEPT !.enabled = enable]
            r == [thread[p] EXCEPT !.todo = @ \ {n}]
<1>1. /\ thread[p].pc = "each" /\ p \in Thread /\ n \in thread[p].todo
      /\ UNCHANGED <<created, preHooks, injected, late, mapMutex>> /\ UNCHANGED <<active, hasBeat, lifeVars>>
  BY DEF EnableEach, At, Thread
<1>2. i \in 1 .. created /\ i \in Id
  <2>1. i # 0
    BY <1>1 DEF ErasesFound, At
  <2>. QED
    BY <2>1, BoundsAssumption DEF TypeOK, HooksTypeOK, Id
<1>3. hooks \in [Id -> Hook]
  BY DEF TypeOK, HooksTypeOK
<1>4. enable \in BOOLEAN
  BY <1>1, ThreadFields DEF HookSpec
<1>5. /\ h \in Hook /\ h.enabled = enable /\ h.mode = hooks[i].mode /\ h.ready = hooks[i].ready
      /\ hooks' = [hooks EXCEPT ![i] = h]
  <2>1. hooks' = [hooks EXCEPT ![i].enabled = enable]
    BY DEF EnableEach
  <2>. HIDE DEF enable
  <2>2. hooks' = [hooks EXCEPT ![i] = h]
    BY <1>2, <1>3, <2>1
  <2>. QED
    BY <1>2, <1>3, <1>4, <2>2 DEF Hook
<1>6. r.pc = "each" /\ r.todo = thread[p].todo \ {n} /\ r \in ThreadState
  BY <1>1, ThreadFields DEF ThreadState
<1>7. thread' = [thread EXCEPT ![p] = r]
  BY <1>1 DEF EnableEach, TypeOK, ThreadTypeOK
<1>8. IF ~enable /\ hooks[i].mode = "BREAKPOINT" THEN Wake(i) ELSE UNCHANGED ticker
  BY DEF EnableEach
<1>. HIDE DEF h, r
<1>9. hooks'[i] = h /\ \A j \in 0 .. created : j # i => hooks'[j] = hooks[j]
  BY <1>2, <1>3, <1>5
<1>10. /\ thread' \in [Thread -> ThreadState] /\ thread'[p] = r
       /\ \A q \in Thread : q # p => thread'[q] = thread[q]
  BY <1>1, <1>6, <1>7 DEF TypeOK, ThreadTypeOK
<1>11. TypeOK'
  <2>1. LifeTypeOK'
    BY <1>1, SameLife
  <2>. QED
    BY <1>1, <1>2, <1>5, <1>6, <1>8, <1>10, <2>1, WakeWakes, HookChangedTyped DEF TypeOK, HooksTypeOK
<1>12. ticker.hook = i /\ ticker.pc \in {"enter", "asleep", "woken"} => preHooks[ticker.node] = i
  <2>1. SUFFICES ASSUME ticker.hook = i, ticker.pc \in {"enter", "asleep", "woken"}
                 PROVE  preHooks[ticker.node] = i
    OBVIOUS
  <2>2. ticker.node \in Node
    BY <2>1, BoundsAssumption DEF TypeOK, TickerTypeOK
  <2>3. UsedAt(n, i) /\ UsedAt(ticker.node, i)
    BY <2>1 DEF UsedAt
  <2>4. n = ticker.node
    BY <1>2, <2>2, <2>3 DEF OneNode
  <2>. QED
    BY <2>4
<1>13. /\ ticker.hook = i /\ ticker'.pc = "asleep" => h.enabled /\ ~h.ready /\ h.mode = "BREAKPOINT"
       /\ ticker.hook = i /\ ticker'.pc = "woken" => h.ready \/ h.mode = "BREAKPOINT"
  <2>1. WokenAt(i) /\ (Wake(i) => ~(ticker'.pc = "asleep" /\ ticker.hook = i))
    BY <1>8, WakeWakes
  <2>2. CASE ~enable /\ hooks[i].mode = "BREAKPOINT"
    BY <1>5, <1>8, <2>1, <2>2
  <2>3. CASE hooks[i].mode # "BREAKPOINT"
    BY <1>5, <1>8, <2>1, <2>3 DEF AsleepIsStopped
  <2>4. CASE enable
    BY <1>5, <1>8, <2>1, <2>4 DEF AsleepIsStopped
  <2>. QED
    BY <2>2, <2>3, <2>4
<1>14. WokenAt(i)
  BY <1>8, WakeWakes
<1>. HIDE DEF i, enable
<1>. QED
  BY <1>1, <1>2, <1>5, <1>6, <1>9, <1>10, <1>11, <1>12, <1>13, <1>14, HookChanged


-------------------------------------------------------------------------------
(* Steps of the tick                                                       *)

\* The threads and the map are as before: what HookInv says of them alone is as well.
LEMMA ThreadsKept ==
    ASSUME HookInv, UNCHANGED <<created, preHooks, late, mapMutex, thread>>
    PROVE  /\ SpecEnabled' /\ LateIsLate' /\ Joined' /\ NodeKnown' /\ ThreadsPlace' /\ ErasesFound'
           /\ RemovesAll' /\ ThreadTypeOK'
BY DEF HookInv, TypeOK, SpecEnabled, LateIsLate, Joined, NodeKnown, ThreadsPlace, ErasesFound, RemovesAll,
       ThreadTypeOK, ThreadState, At

\* A node with a callback is ticked: its hook is in the map, or is being taken out of it.
LEMMA TickOK ==
    ASSUME HookInv, NEW n \in Node, Tick(n)
    PROVE  HookInv'
<1>. USE DEF HookInv
<1>1. UNCHANGED <<hooks, created, preHooks, injected, late, mapMutex, thread>>
  BY DEF Tick, hookVars
<1>2. /\ ticker'.pc = "enter" /\ ticker'.node = n /\ ticker'.hook = injected[n]
      /\ ticker.pc = "rest" /\ injected[n] # 0
  BY DEF Tick
<1>3. TypeOK'
  <2>1. HooksTypeOK'
    BY <1>1 DEF TypeOK, HooksTypeOK, Hook
  <2>2. TickerTypeOK'
    BY <1>1, BoundsAssumption DEF Tick, TypeOK, HooksTypeOK, TickerTypeOK
  <2>3. LifeTypeOK'
    BY SameLife DEF Tick
  <2>. QED
    BY <1>1, <2>1, <2>2, <2>3, ThreadsKept DEF TypeOK
<1>4. OneNode'
  <2>1. ASSUME NEW m \in Node, NEW i \in 1 .. created, UsedAt(m, i)'
        PROVE  UsedAt(m, i)
    BY <1>1, <1>2, <2>1 DEF UsedAt
  <2>. QED
    BY <1>1, <2>1 DEF OneNode
<1>5. InjectedIsKept'
  BY <1>1 DEF InjectedIsKept, At
<1>6. CalledIsReachable'
  BY <1>1, <1>2 DEF CalledIsReachable, Reachable, InjectedIsKept, At
<1>7. UpdatedIsKept'
  <2>1. SUFFICES ASSUME At("server", "update"), At("destructor", "rest"),
                        preHooks[thread["server"].node] # thread["server"].hook
                 PROVE  /\ ticker'.hook # thread["server"].hook
                        /\ \A m \in Node : injected[m] # thread["server"].hook
    BY <1>1 DEF UpdatedIsKept, At
  <2>. QED
    BY <1>2, <2>1 DEF UpdatedIsKept, At
<1>8. AsleepIsStopped'
  BY <1>2 DEF AsleepIsStopped
<1>. QED
  BY <1>1, <1>3, <1>4, <1>5, <1>6, <1>7, <1>8, ThreadsKept

\* The tick goes on in the callback, to answer, to sleep or to remove the hook.
LEMMA InCallbackOK ==
    ASSUME HookInv, NEW pc \in {"rest", "asleep", "remove"}, NEW ready \in BOOLEAN,
           ticker.pc \in {"enter", "woken"},
           ticker' = IF pc = "rest" THEN [pc |-> "rest", node |-> 0, hook |-> 0]
                                    ELSE [ticker EXCEPT !.pc = pc],
           pc = "asleep" => /\ hooks[ticker.hook].enabled /\ ~hooks[ticker.hook].ready
                            /\ hooks[ticker.hook].mode = "BREAKPOINT" /\ UNCHANGED hooks,
           UNCHANGED hooks \/ hooks' = [hooks EXCEPT ![ticker.hook].ready = ready],
           UNCHANGED <<created, preHooks, injected, late, mapMutex, thread, active, hasBeat, lifeVars>>
    PROVE  HookInv'
<1>. USE DEF HookInv
<1>1. /\ ticker'.pc = pc /\ pc = "rest" => ticker'.hook = 0
      /\ pc # "rest" => ticker'.hook = ticker.hook /\ ticker'.node = ticker.node
  BY DEF TypeOK, TickerTypeOK
<1>2. TypeOK'
  <2>1. HooksTypeOK'
    <3>1. hooks \in [Id -> Hook]
      BY DEF TypeOK, HooksTypeOK
    <3>2. CASE hooks' = [hooks EXCEPT ![ticker.hook].ready = ready]
      BY <3>1, <3>2 DEF TypeOK, HooksTypeOK, Hook
    <3>3. CASE UNCHANGED hooks
      BY <3>3 DEF TypeOK, HooksTypeOK, Hook
    <3>. QED
      BY <3>2, <3>3
  <2>2. TickerTypeOK'
    BY BoundsAssumption DEF TypeOK, HooksTypeOK, TickerTypeOK
  <2>. QED
    BY <2>1, <2>2, SameLife, ThreadsKept DEF TypeOK
<1>3. OneNode'
  <2>1. ASSUME NEW m \in Node, NEW i \in 1 .. created, UsedAt(m, i)'
        PROVE  UsedAt(m, i)
    BY <1>1, <2>1 DEF UsedAt
  <2>. QED
    BY <2>1 DEF OneNode
<1>4. InjectedIsKept'
  BY DEF InjectedIsKept, At
<1>5. CalledIsReachable'
  <2>1. SUFFICES ASSUME pc = "asleep"
                 PROVE  Reachable(ticker.node, ticker.hook)' \/ ticker.hook \in late
    BY <1>1 DEF CalledIsReachable
  <2>. QED
    BY <1>1, <2>1 DEF CalledIsReachable, Reachable
<1>6. UpdatedIsKept'
  BY <1>1, ThreadFields DEF UpdatedIsKept, ErasesFound, At, Thread
<1>7. AsleepIsStopped'
  BY <1>1 DEF AsleepIsStopped
<1>. QED
  BY <1>2, <1>3, <1>4, <1>5, <1>6, <1>7, ThreadsKept

\* The callback begins, or wait() evaluates its predicate again.
LEMMA EnterOK ==
    ASSUME HookInv, Enter \/ Woken
    PROVE  HookInv'
<1>1. /\ ticker.pc \in {"enter", "woken"}
      /\ UNCHANGED <<created, preHooks, injected, late, mapMutex, thread, active, hasBeat, lifeVars>>
  BY DEF Enter, Woken
<1>2. FALSE \in BOOLEAN
  BY Zenon
<1>3. ASSUME Pass \/ Skip, UNCHANGED hooks \/ hooks' = [hooks EXCEPT ![ticker.hook].ready = FALSE]
      PROVE  HookInv'
  <2>1. CASE ticker' = [ticker EXCEPT !.pc = "remove"]
    <3>1. "remove" \in {"rest", "asleep", "remove"}
      OBVIOUS
    <3>. QED
      BY <1>1, <1>2, <1>3, <2>1, <3>1, InCallbackOK
  <2>2. CASE ticker' = [pc |-> "rest", node |-> 0, hook |-> 0]
    <3>1. "rest" \in {"rest", "asleep", "remove"}
      OBVIOUS
    <3>. QED
      BY <1>1, <1>2, <1>3, <2>2, <3>1, InCallbackOK
  <2>. QED
    BY <1>3, <2>1, <2>2 DEF Pass, Skip
<1>4. ASSUME ticker' = [ticker EXCEPT !.pc = "asleep"], UNCHANGED hooks,
             hooks[ticker.hook].enabled, ~hooks[ticker.hook].ready,
             hooks[ticker.hook].mode = "BREAKPOINT"
      PROVE  HookInv'
  <2>1. "asleep" \in {"rest", "asleep", "remove"}
    OBVIOUS
  <2>. QED
    BY <1>1, <1>2, <1>4, <2>1, InCallbackOK
<1>5. CASE Enter
  BY <1>3, <1>4, <1>5 DEF Enter
<1>6. CASE Woken
  <2>1. ticker.pc = "woken"
    BY <1>6 DEF Woken
  <2>2. ~hooks[ticker.hook].ready => hooks[ticker.hook].mode = "BREAKPOINT"
    BY <2>1 DEF HookInv, AsleepIsStopped
  <2>3. CASE ~hooks[ticker.hook].ready /\ hooks[ticker.hook].enabled
    BY <1>4, <1>6, <2>2, <2>3 DEF Woken
  <2>4. CASE ~(~hooks[ticker.hook].ready /\ hooks[ticker.hook].enabled)
    BY <1>3, <1>6, <2>4 DEF Woken
  <2>. QED
    BY <2>3, <2>4
<1>. QED
  BY <1>5, <1>6

\* A hook that is used once is erased by the tick itself.
LEMMA RemoveItselfOK ==
    ASSUME HookInv, RemoveItself
    PROVE  HookInv'
<1>. USE DEF HookInv
<1>. DEFINE node == ticker.node
<1>1. /\ ticker.pc = "remove" /\ mapMutex = "free" /\ ticker'.pc = "rest" /\ ticker'.hook = 0
      /\ UNCHANGED <<hooks, created, late, mapMutex, thread>> /\ UNCHANGED <<active, hasBeat, lifeVars>>
  BY DEF RemoveItself, Skip
<1>2. node \in Node /\ preHooks \in [Node -> 0 .. created] /\ injected \in [Node -> 0 .. created]
  BY <1>1, BoundsAssumption DEF TypeOK, TickerTypeOK, HooksTypeOK
<1>3. /\ preHooks'[node] = 0 /\ \A n \in Node : n # node => preHooks'[n] = preHooks[n]
      /\ injected'[node] = 0 /\ \A n \in Node : n # node => injected'[n] = injected[n]
  BY <1>2 DEF RemoveItself
<1>4. created \in 0 .. MaxHooks
  BY DEF TypeOK, HooksTypeOK
<1>5. TypeOK'
  <2>1. HooksTypeOK'
    BY <1>1, <1>2, BoundsAssumption DEF RemoveItself, TypeOK, HooksTypeOK, Hook
  <2>2. TickerTypeOK'
    BY <1>1, <1>4, BoundsAssumption DEF RemoveItself, Skip, TickerTypeOK
  <2>3. ThreadTypeOK'
    BY <1>1 DEF TypeOK, ThreadTypeOK, ThreadState
  <2>. QED
    BY <1>1, <2>1, <2>2, <2>3, SameLife DEF TypeOK
<1>. HIDE DEF node
<1>6. OneNode'
  <2>1. ASSUME NEW m \in Node, NEW i \in 1 .. created, UsedAt(m, i)'
        PROVE  UsedAt(m, i)
    BY <1>1, <1>2, <1>3, <2>1 DEF UsedAt
  <2>. QED
    BY <1>1, <2>1 DEF OneNode
<1>7. SpecEnabled' /\ LateIsLate' /\ Joined' /\ NodeKnown' /\ ThreadsPlace'
  BY <1>1 DEF SpecEnabled, LateIsLate, Joined, NodeKnown, ThreadsPlace, At
<1>8. ErasesFound'
  <2>1. SUFFICES ASSUME NEW q \in Thread
                 PROVE  /\ thread[q].pc \in FoundHook => thread[q].hook # 0
                        /\ thread[q].pc = "erase" => preHooks'[thread[q].node] \in {0, thread[q].hook} \cup late
                        /\ thread[q].pc = "setPre" => preHooks'[thread[q].node] \in {0} \cup late
                        /\ thread[q].pc = "new" => preHooks'[thread[q].node] = 0
                        /\ thread[q].pc # "each"
    BY <1>1 DEF ErasesFound, At, FoundHook
  <2>2. thread[q].pc # "each"
    BY <1>1 DEF TypeOK, ThreadTypeOK, Thread
  <2>3. thread[q].pc \in {"setPre", "new", "erase"} => thread[q].node \in Node
    BY DEF NodeKnown
  <2>. QED
    BY <1>3, <2>2, <2>3 DEF ErasesFound, At, FoundHook
<1>9. InjectedIsKept'
  BY <1>1, <1>3 DEF InjectedIsKept, At
<1>10. CalledIsReachable' /\ AsleepIsStopped'
  BY <1>1 DEF CalledIsReachable, AsleepIsStopped
<1>11. UpdatedIsKept'
  <2>1. SUFFICES ASSUME At("server", "update"), At("destructor", "rest"),
                        preHooks'[thread["server"].node] # thread["server"].hook
                 PROVE  /\ ticker'.hook # thread["server"].hook
                        /\ \A m \in Node : injected'[m] # thread["server"].hook
    BY <1>1 DEF UpdatedIsKept, At
  <2>2. "server" \in Thread /\ thread["server"].hook \in 1 .. created /\ thread["server"].node \in Node
    BY <2>1, ThreadFields DEF ErasesFound, NodeKnown, At, Thread
  <2>3. CASE preHooks[thread["server"].node] # thread["server"].hook
    BY <1>1, <1>3, <2>1, <2>2, <2>3 DEF UpdatedIsKept
  <2>4. CASE preHooks[thread["server"].node] = thread["server"].hook
    <3>1. thread["server"].node = node
      BY <1>3, <2>1, <2>2, <2>4
    <3>2. ASSUME NEW m \in Node, injected[m] = thread["server"].hook
          PROVE  m = node
      <4>1. UsedAt(m, thread["server"].hook) /\ UsedAt(node, thread["server"].hook)
        BY <2>4, <3>1, <3>2 DEF UsedAt
      <4>. QED
        BY <1>2, <2>2, <4>1 DEF OneNode
    <3>. QED
      BY <1>1, <1>3, <2>2, <3>2
  <2>. QED
    BY <2>3, <2>4
<1>12. RemovesAll'
  BY <1>1, <1>3 DEF RemovesAll
<1>. QED
  BY <1>5, <1>6, <1>7, <1>8, <1>9, <1>10, <1>11, <1>12


-------------------------------------------------------------------------------
(* Steps that change the map of the hooks or the callbacks                 *)

\* insertHook() of a node that has no hook.
LEMMA InsertHookOK ==
    ASSUME HookInv, InsertHook
    PROVE  HookInv'
<1>. USE DEF HookInv
<1>. DEFINE node == thread["server"].node
            spec == thread["server"].spec
            r == [Idle EXCEPT !.pc = "rest"]
<1>1. /\ thread["server"].pc = "new" /\ mapMutex = "free" /\ "server" \in Thread
      /\ UNCHANGED <<mapMutex, ticker>> /\ UNCHANGED <<active, hasBeat, lifeVars>>
  BY DEF InsertHook, At, Thread
<1>2. r.pc = "rest" /\ r \in ThreadState
  BY IdleTyped DEF Idle, ThreadState
<1>3. thread' = [thread EXCEPT !["server"] = r]
  BY DEF InsertHook, Return
<1>. HIDE DEF r
<1>4. /\ thread' \in [Thread -> ThreadState] /\ thread'["server"] = r
      /\ \A q \in Thread : q # "server" => thread'[q] = thread[q]
  BY <1>1, <1>2, <1>3 DEF TypeOK, ThreadTypeOK
<1>5. CASE created >= MaxHooks
  <2>1. UNCHANGED hookVars
    BY <1>5, BoundsAssumption DEF InsertHook, TypeOK, HooksTypeOK
  <2>2. UNCHANGED <<hooks, created, preHooks, injected, late, ticker>>
    BY <1>1, <2>1 DEF hookVars
  <2>3. TypeOK'
    BY <1>1, <1>2, <1>4, <2>1, ThreadTyped, SameLife
  <2>. QED
    BY <1>1, <1>2, <1>4, <2>2, <2>3, GoesOn DEF FoundHook
<1>6. CASE created < MaxHooks
  <2>. DEFINE i == created + 1
  <2>1. /\ created \in Nat /\ i \in Nat /\ i \in Id /\ i # 0 /\ created' = i
        /\ preHooks \in [Node -> 0 .. created] /\ injected \in [Node -> 0 .. created]
        /\ hooks \in [Id -> Hook] /\ node \in Node /\ spec \in HookSpec
    BY <1>1, <1>6, ThreadFields, BoundsAssumption DEF InsertHook, NodeKnown, TypeOK, HooksTypeOK, Id
  <2>2. /\ preHooks'[node] = i /\ \A n \in Node : n # node => preHooks'[n] = preHooks[n]
        /\ injected'[node] = i /\ \A n \in Node : n # node => injected'[n] = injected[n]
        /\ preHooks' \in [Node -> 0 .. i] /\ injected' \in [Node -> 0 .. i]
    BY <1>6, <2>1 DEF InsertHook
  <2>18. /\ late \subseteq late' /\ late' \subseteq 1 .. i
         /\ IF At("destructor", "rest") THEN late' = late ELSE i \in late'
    <3>1. late \subseteq 1 .. created /\ 1 .. created \subseteq 1 .. i /\ i \in 1 .. i
      BY <2>1 DEF TypeOK, HooksTypeOK
    <3>2. Changed(created')
      BY <1>6 DEF InsertHook
    <3>. HIDE DEF i
    <3>. QED
      BY <2>1, <3>1, <3>2 DEF Changed
  <2>3. hooks' \in [Id -> Hook] /\ \A j \in 0 .. created : hooks'[j] = hooks[j]
    <3>1. FALSE \in BOOLEAN
      BY Zenon
    <3>2. [mode |-> spec.mode, once |-> spec.once, enabled |-> spec.enabled, ready |-> FALSE] \in Hook
      BY <2>1, <3>1 DEF HookSpec, Hook
    <3>. DEFINE h == [mode |-> spec.mode, once |-> spec.once, enabled |-> spec.enabled, ready |-> FALSE]
    <3>3. hooks' = [hooks EXCEPT ![i] = h] /\ h \in Hook
      BY <1>6, <2>1, <3>2 DEF InsertHook
    <3>4. \A j \in 0 .. created : j # i
      BY <2>1
    <3>. HIDE DEF h, i
    <3>. QED
      BY <2>1, <3>3, <3>4
  <2>4. preHooks[node] = 0
    BY <1>1 DEF ErasesFound, At
  <2>. HIDE DEF node, spec
  <2>5. /\ ticker.hook \in 0 .. created
        /\ \A q \in Thread : thread[q] \in ThreadState /\ thread[q].hook \in 0 .. created
    BY ThreadFields DEF TypeOK, TickerTypeOK
  <2>6. TypeOK'
    <3>1. HooksTypeOK'
      BY <1>6, <2>1, <2>2, <2>3, <2>18, BoundsAssumption DEF HooksTypeOK, Hook, TypeOK
    <3>2. 0 .. created \subseteq 0 .. i
      BY <2>1
    <3>3. TickerTypeOK'
      BY <1>1, <2>1, <3>2 DEF TypeOK, TickerTypeOK
    <3>4. ThreadState \subseteq ThreadState'
      BY <2>1, <3>2 DEF ThreadState
    <3>5. ThreadTypeOK'
      <4>1. thread' \in [Thread -> ThreadState']
        BY <1>4, <3>4
      <4>2. \A q \in Thread : thread'[q].pc # "each"
        BY <1>1, <1>2, <1>4 DEF TypeOK, ThreadTypeOK, Thread
      <4>3. mapMutex' = "free" /\ "free" \notin Thread
        BY <1>1 DEF Thread
      <4>. QED
        BY <4>1, <4>2, <4>3 DEF ThreadTypeOK
    <3>. QED
      BY <1>1, <3>1, <3>3, <3>5, SameLife DEF TypeOK
  <2>8. {"server", "heartbeat", "destructor"} \subseteq Thread
    BY DEF Thread
  <2>9. /\ \A q \in Thread : thread'[q].pc \notin {"each", "new", "update"}
        /\ \A q \in Thread : q # "server" => thread'[q] = thread[q] /\ thread[q].pc \notin {"new", "update"}
    BY <1>1, <1>2, <1>4 DEF ThreadsPlace, TypeOK, ThreadTypeOK, Thread
  <2>10. OneNode'
    <3>1. ASSUME NEW m \in Node, NEW j \in 1 .. created, UsedAt(m, j)'
          PROVE  UsedAt(m, j)
      <4>1. j # i
        BY <2>1
      <4>. QED
        BY <1>1, <1>2, <1>4, <2>2, <2>9, <3>1, <4>1 DEF UsedAt
    <3>2. ASSUME NEW m \in Node, NEW k \in Id, k = i, UsedAt(m, k)'
          PROVE  m = node
      <4>1. i \notin 0 .. created
        BY <2>1
      <4>2. preHooks[m] \in 0 .. created /\ injected[m] \in 0 .. created
        BY <2>1
      <4>3. ticker.hook # i
        BY <2>5, <4>1
      <4>4. preHooks'[m] = i \/ injected'[m] = i
        BY <1>1, <1>2, <1>4, <2>5, <2>9, <3>2, <4>1, <4>3 DEF UsedAt
      <4>. QED
        BY <2>2, <3>2, <4>1, <4>2, <4>4
    <3>3. \A j \in 1 .. created' : j = i \/ j \in 1 .. created
      BY <2>1
    <3>. HIDE DEF i
    <3>4. SUFFICES ASSUME NEW j \in 1 .. created', NEW n \in Node, NEW m \in Node,
                          UsedAt(n, j)', UsedAt(m, j)'
                   PROVE  n = m
      BY DEF OneNode
    <3>5. CASE j = i
      BY <2>1, <3>2, <3>4, <3>5
    <3>6. CASE j \in 1 .. created
      BY <3>1, <3>4, <3>6 DEF OneNode
    <3>. QED
      BY <3>3, <3>5, <3>6
  <2>11. SpecEnabled' /\ LateIsLate' /\ Joined' /\ NodeKnown' /\ ThreadsPlace'
    BY <1>1, <1>2, <1>4, <2>8, <2>18 DEF SpecEnabled, LateIsLate, Joined, NodeKnown, ThreadsPlace, At
  <2>12. ErasesFound'
    <3>1. SUFFICES ASSUME NEW q \in Thread, q # "server"
                   PROVE  /\ thread[q].pc \in FoundHook => thread[q].hook # 0
                          /\ thread[q].pc = "erase" => preHooks'[thread[q].node] \in {0, thread[q].hook} \cup late'
                          /\ thread[q].pc = "setPre" => preHooks'[thread[q].node] \in {0} \cup late'
      BY <1>2, <1>4, <2>9 DEF ErasesFound, FoundHook, At
    <3>2. thread[q].pc \in {"erase", "setPre"} => q = "destructor" /\ thread[q].node \in Node
      BY <2>8, <3>1 DEF ThreadsPlace, NodeKnown, Thread
    <3>3. thread[q].pc \in {"erase", "setPre"} => i \in late'
      BY <2>18, <3>2 DEF At
    <3>. HIDE DEF i
    <3>. QED
      BY <2>2, <2>18, <3>1, <3>2, <3>3 DEF ErasesFound, FoundHook, At
  <2>13. InjectedIsKept'
    <3>1. ASSUME NEW n \in Node, n # node, injected[n] # 0
          PROVE  \/ preHooks'[n] = injected'[n]
                 \/ \E q \in Thread : /\ thread'[q].pc = "setPre" /\ thread'[q].node = n
                                      /\ injected'[n] \in {thread'[q].hook} \cup late'
      BY <1>1, <2>2, <2>9, <2>18, <3>1 DEF InjectedIsKept, At
    <3>. HIDE DEF i
    <3>. QED
      BY <2>2, <3>1 DEF InjectedIsKept, At
  <2>14. CalledIsReachable'
    <3>1. SUFFICES ASSUME ticker.pc \in {"enter", "asleep", "woken"},
                          hooks[ticker.hook].enabled, hooks[ticker.hook].mode = "BREAKPOINT"
                   PROVE  Reachable(ticker.node, ticker.hook)' \/ ticker.hook \in late'
      BY <1>1, <2>3, <2>5 DEF CalledIsReachable
    <3>2. Reachable(ticker.node, ticker.hook) \/ ticker.hook \in late
      BY <3>1 DEF CalledIsReachable
    <3>3. ticker.hook # 0 /\ ticker.node \in Node
      BY <3>1, BoundsAssumption DEF TypeOK, TickerTypeOK
    <3>4. CASE preHooks[ticker.node] = ticker.hook
      BY <1>1, <2>2, <2>4, <3>3, <3>4 DEF Reachable
    <3>5. CASE \E q \in Thread : thread[q].hook = ticker.hook /\ thread[q].pc \in {"setPre", "disable"}
      BY <1>1, <1>4, <3>5 DEF Reachable
    <3>. QED
      BY <2>18, <3>2, <3>4, <3>5 DEF Reachable
  <2>15. UpdatedIsKept'
    BY <1>2, <1>4 DEF UpdatedIsKept, At
  <2>16. AsleepIsStopped'
    BY <1>1, <2>3, <2>5 DEF AsleepIsStopped
  <2>17. RemovesAll'
    <3>1. thread'["destructor"] = thread["destructor"]
      BY <1>4, <2>8
    <3>2. ~At("destructor", "rest") =>
            \A n \in Node : preHooks'[n] \notin {0} \cup late' =>
                n # node /\ preHooks[n] \notin {0} \cup late
      BY <2>2, <2>18
    <3>. HIDE DEF i
    <3>. QED
      BY <2>2, <2>18, <3>1, <3>2 DEF RemovesAll, At
  <2>. QED
    BY <2>6, <2>10, <2>11, <2>12, <2>13, <2>14, <2>15, <2>16, <2>17
<1>. QED
  BY <1>5, <1>6, BoundsAssumption DEF TypeOK, HooksTypeOK

\* removeHook() takes the hook out of the map, and then resets the callback of its node.
LEMMA EraseOK ==
    ASSUME HookInv, NEW p \in {"server", "destructor"}, Erase(p) \/ ResetPreTick(p)
    PROVE  HookInv'
<1>. USE DEF HookInv
<1>. DEFINE node == thread[p].node
            r == [thread[p] EXCEPT !.pc = IF Erase(p) THEN "setPre" ELSE "disable"]
<1>1. /\ thread[p].pc \in {"erase", "setPre"} /\ p \in Thread /\ p # "heartbeat"
      /\ Erase(p) => thread[p].pc = "erase" /\ mapMutex = "free"
      /\ ~Erase(p) => thread[p].pc = "setPre"
      /\ UNCHANGED <<hooks, created, late, mapMutex, ticker>> /\ UNCHANGED <<active, hasBeat, lifeVars>>
  BY DEF Erase, ResetPreTick, At, Thread
<1>2. node \in Node /\ preHooks \in [Node -> 0 .. created] /\ injected \in [Node -> 0 .. created]
  BY <1>1 DEF TypeOK, HooksTypeOK, NodeKnown
<1>3. created \in Nat
  BY BoundsAssumption DEF TypeOK, HooksTypeOK
<1>4. /\ \A n \in Node : preHooks'[n] \in {0, preHooks[n]} /\ (n # node => preHooks'[n] = preHooks[n])
      /\ Erase(p) => preHooks'[node] = 0
      /\ ~Erase(p) => UNCHANGED preHooks
  <2>1. CASE Erase(p)
    BY <1>2, <2>1 DEF Erase
  <2>2. CASE ~Erase(p)
    BY <1>1, <2>2 DEF ResetPreTick
  <2>. QED
    BY <2>1, <2>2
<1>5. /\ \A n \in Node : injected'[n] \in {0, injected[n]} /\ (n # node => injected'[n] = injected[n])
      /\ ~Erase(p) => injected'[node] = 0
      /\ Erase(p) => UNCHANGED injected
  <2>1. CASE Erase(p)
    BY <2>1 DEF Erase
  <2>2. CASE ~Erase(p)
    BY <1>2, <2>2 DEF ResetPreTick
  <2>. QED
    BY <2>1, <2>2
<1>6. preHooks' \in [Node -> 0 .. created] /\ injected' \in [Node -> 0 .. created]
  BY <1>2, <1>3 DEF Erase, ResetPreTick
<1>7. /\ r.pc \in {"setPre", "disable"} /\ (Erase(p) => r.pc = "setPre") /\ (~Erase(p) => r.pc = "disable")
      /\ r.node = node /\ r.hook = thread[p].hook /\ r.todo = thread[p].todo /\ r \in ThreadState
  BY <1>1, ThreadFields DEF ThreadState
<1>8. thread' = [thread EXCEPT ![p] = r]
  BY <1>1 DEF Erase, ResetPreTick, Go, TypeOK, ThreadTypeOK
<1>. HIDE DEF r
<1>9. /\ thread' \in [Thread -> ThreadState] /\ thread'[p] = r
      /\ \A q \in Thread : q # p => thread'[q] = thread[q]
  BY <1>1, <1>7, <1>8 DEF TypeOK, ThreadTypeOK
<1>10. r.hook \in 1 .. created /\ thread[p].hook = r.hook
  BY <1>1, <1>3, <1>7, ThreadFields DEF ErasesFound
<1>11. TypeOK'
  <2>1. HooksTypeOK' /\ TickerTypeOK'
    BY <1>1, <1>6 DEF TypeOK, HooksTypeOK, TickerTypeOK, Hook
  <2>2. ThreadState' = ThreadState
    BY <1>1 DEF ThreadState
  <2>3. \A q \in Thread : thread'[q].pc = "each" <=> thread[q].pc = "each"
    BY <1>1, <1>7, <1>9
  <2>4. ThreadTypeOK'
    BY <1>1, <1>9, <2>2, <2>3 DEF TypeOK, ThreadTypeOK
  <2>. QED
    BY <1>1, <2>1, <2>4, SameLife DEF TypeOK
<1>. HIDE DEF node
<1>13. node = thread[p].node
  BY DEF node
<1>14. OneNode'
  <2>1. ASSUME NEW m \in Node, NEW i \in 1 .. created, UsedAt(m, i)'
        PROVE  UsedAt(m, i)
    BY <1>1, <1>2, <1>4, <1>5, <1>7, <1>9, <1>10, <1>13, <2>1 DEF UsedAt
  <2>. QED
    BY <1>1, <2>1 DEF OneNode
<1>15. {"server", "heartbeat", "destructor"} \subseteq Thread /\ p \in {"server", "destructor"}
  BY DEF Thread
<1>16. SpecEnabled' /\ LateIsLate' /\ Joined' /\ NodeKnown' /\ ThreadsPlace'
  BY <1>1, <1>2, <1>7, <1>9, <1>15 DEF SpecEnabled, LateIsLate, Joined, NodeKnown, ThreadsPlace, At
<1>17. ErasesFound'
  <2>1. SUFFICES ASSUME NEW q \in Thread
                 PROVE  /\ thread'[q].pc \in FoundHook => thread'[q].hook # 0
                        /\ thread'[q].pc = "erase" => preHooks'[thread'[q].node] \in {0, thread'[q].hook} \cup late
                        /\ thread'[q].pc = "setPre" => preHooks'[thread'[q].node] \in {0} \cup late
                        /\ thread'[q].pc = "new" => preHooks'[thread'[q].node] = 0
                        /\ thread'[q].pc = "each" => \A n \in thread'[q].todo : preHooks'[n] # 0
    BY <1>1 DEF ErasesFound, At, FoundHook
  <2>2. CASE q = p
    BY <1>3, <1>4, <1>7, <1>9, <1>10, <1>13, <2>2
  <2>3. CASE q # p
    <3>1. thread'[q] = thread[q]
      BY <1>9, <2>3
    <3>2. thread[q].pc \in {"erase", "setPre", "new"} =>
            preHooks'[thread[q].node] \in {0, preHooks[thread[q].node]}
      BY <1>4 DEF NodeKnown
    <3>3. thread[q].pc = "each" => UNCHANGED preHooks
      BY <1>1, <1>4 DEF TypeOK, ThreadTypeOK, Thread
    <3>. QED
      BY <3>1, <3>2, <3>3 DEF FoundHook, ErasesFound, At
  <2>. QED
    BY <2>2, <2>3
<1>18. InjectedIsKept'
  <2>1. SUFFICES ASSUME NEW n \in Node, injected'[n] # 0
                 PROVE  \/ preHooks'[n] = injected'[n]
                        \/ \E q \in Thread : /\ thread'[q].pc = "setPre" /\ thread'[q].node = n
                                             /\ injected'[n] \in {thread'[q].hook} \cup late
    BY <1>1 DEF InjectedIsKept, At
  <2>2. injected'[n] = injected[n] /\ (~Erase(p) => n # node)
    BY <1>5, <2>1
  <2>3. CASE preHooks[n] = injected[n]
    <3>1. CASE Erase(p) /\ n = node
      <4>1. preHooks[node] \in {0, r.hook} \cup late
        BY <1>1, <1>7, <1>13, <3>1 DEF ErasesFound, At
      <4>. QED
        BY <1>1, <1>7, <1>9, <2>1, <2>2, <2>3, <3>1, <4>1
    <3>2. CASE n # node
      BY <1>4, <2>2, <2>3, <3>2
    <3>. QED
      BY <2>2, <3>1, <3>2
  <2>4. ASSUME NEW q \in Thread, thread[q].pc = "setPre", thread[q].node = n,
               injected[n] \in {thread[q].hook} \cup late
        PROVE  \E k \in Thread : /\ thread'[k].pc = "setPre" /\ thread'[k].node = n
                                 /\ injected'[n] \in {thread'[k].hook} \cup late
    <3>1. q # p
      BY <1>1, <1>13, <2>2, <2>4
    <3>. QED
      BY <1>9, <2>2, <2>4, <3>1
  <2>. QED
    BY <2>1, <2>2, <2>3, <2>4 DEF InjectedIsKept, At
<1>19. CalledIsReachable'
  <2>1. SUFFICES ASSUME ticker.pc \in {"enter", "asleep", "woken"},
                        hooks[ticker.hook].enabled, hooks[ticker.hook].mode = "BREAKPOINT"
                 PROVE  Reachable(ticker.node, ticker.hook)' \/ ticker.hook \in late
    BY <1>1 DEF CalledIsReachable
  <2>2. ticker.node \in Node /\ ticker.hook # 0
    BY <2>1, BoundsAssumption DEF TypeOK, TickerTypeOK
  <2>3. Reachable(ticker.node, ticker.hook) \/ ticker.hook \in late
    BY <2>1 DEF CalledIsReachable
  <2>4. CASE preHooks[ticker.node] = ticker.hook
    <3>1. CASE ticker.node = node /\ Erase(p)
      <4>1. ticker.hook \in {r.hook} \cup late
        BY <1>1, <1>7, <1>13, <2>2, <2>4, <3>1 DEF ErasesFound, At
      <4>. QED
        BY <1>1, <1>7, <1>9, <3>1, <4>1 DEF Reachable
    <3>2. CASE ticker.node # node \/ ~Erase(p)
      BY <1>1, <1>4, <2>2, <2>4, <3>2 DEF Reachable
    <3>. QED
      BY <3>1, <3>2
  <2>5. CASE \E q \in Thread : thread[q].hook = ticker.hook /\ thread[q].pc \in {"setPre", "disable"}
    BY <1>1, <1>7, <1>9, <2>5 DEF Reachable
  <2>. QED
    BY <2>3, <2>4, <2>5 DEF Reachable
<1>20. UpdatedIsKept'
  <2>1. p = "server" => thread'["server"].pc # "update"
    BY <1>7, <1>9
  <2>2. p = "destructor" => thread'["destructor"].pc # "rest"
    BY <1>7, <1>9
  <2>. QED
    BY <1>15, <2>1, <2>2 DEF UpdatedIsKept, At
<1>21. AsleepIsStopped'
  BY <1>1 DEF AsleepIsStopped
<1>22. RemovesAll'
  <2>1. \A n \in Node : preHooks'[n] \notin {0} \cup late' => preHooks[n] \notin {0} \cup late /\ preHooks'[n] = preHooks[n]
    BY <1>1, <1>4
  <2>2. CASE p = "destructor"
    <3>1. \A n \in Node : preHooks'[n] \notin {0} \cup late' => n \in r.todo
      BY <1>1, <1>4, <1>7, <1>13, <2>1, <2>2 DEF RemovesAll
    <3>. QED
      BY <1>1, <1>7, <1>9, <2>2, <3>1 DEF RemovesAll
  <2>3. CASE p = "server"
    <3>1. thread'["destructor"] = thread["destructor"]
      BY <1>9, <1>15, <2>3
    <3>. QED
      BY <1>1, <1>4, <2>1, <3>1 DEF RemovesAll
  <2>. QED
    BY <1>15, <2>2, <2>3
<1>. QED
  BY <1>11, <1>14, <1>16, <1>17, <1>18, <1>19, <1>20, <1>21, <1>22


-------------------------------------------------------------------------------
(* The theorems                                                            *)

\* Nothing that the threads, the tick and the map are made of changes.
LEMMA LifeOnly ==
    ASSUME HookInv, UNCHANGED <<hookVars, mapMutex, ticker, thread>>, LifeTypeOK'
    PROVE  HookInv'
<1>. USE DEF HookInv
<1>1. UNCHANGED <<hooks, created, preHooks, injected, late, mapMutex, ticker, thread>>
  BY DEF hookVars
<1>2. TypeOK'
  BY <1>1, ThreadsKept DEF TypeOK, HooksTypeOK, TickerTypeOK, Hook
<1>3. OneNode' /\ InjectedIsKept' /\ CalledIsReachable' /\ UpdatedIsKept' /\ AsleepIsStopped'
  BY <1>1 DEF OneNode, UsedAt, InjectedIsKept, CalledIsReachable, Reachable, UpdatedIsKept,
              AsleepIsStopped, At
<1>. QED
  BY <1>1, <1>2, <1>3, ThreadsKept

\* Groot2 is not heard of any more, or will send nothing more. 
LEMMA LostOK ==
    ASSUME HookInv, Expire \/ Leave
    PROVE  HookInv'
<1>1. UNCHANGED <<hookVars, mapMutex, ticker, thread>> /\ UNCHANGED <<active, hasBeat, client, requests>>
  BY DEF Expire, Leave
<1>2. heard' \in BOOLEAN /\ gone' \in BOOLEAN
  BY Zenon DEF Expire, Leave, HookInv, TypeOK, LifeTypeOK
<1>. QED
  BY <1>1, <1>2, LifeOnly DEF HookInv, TypeOK, LifeTypeOK

\* At first there is no hook, and no thread has begun.
LEMMA InitOK ==
    ASSUME Init
    PROVE  HookInv
<1>1. \A p \in Thread : thread[p] = [Idle EXCEPT !.pc = IF p = "destructor" THEN "rest" ELSE "start"]
  BY DEF Init
<1>2. /\ created = 0 /\ late = {} /\ ticker = [pc |-> "rest", node |-> 0, hook |-> 0] /\ mapMutex = "free"
      /\ \A n \in Node : preHooks[n] = 0 /\ injected[n] = 0
      /\ preHooks = [n \in Node |-> 0] /\ injected = [n \in Node |-> 0]
  BY DEF Init
<1>3. HooksTypeOK
  <2>1. FALSE \in BOOLEAN
    BY Zenon
  <2>2. [mode |-> "BREAKPOINT", once |-> FALSE, enabled |-> FALSE, ready |-> FALSE] \in Hook
    BY <2>1 DEF Hook, Mode
  <2>. QED
    BY <1>2, <2>2, BoundsAssumption DEF Init, HooksTypeOK
<1>4. TickerTypeOK
  BY <1>2 DEF TickerTypeOK
<1>5. [mode |-> "BREAKPOINT", once |-> FALSE, enabled |-> TRUE] \in HookSpec
  <2>1. FALSE \in BOOLEAN /\ TRUE \in BOOLEAN
    BY Zenon
  <2>. QED
    BY <2>1 DEF HookSpec, Mode
<1>6. Idle \in ThreadState
  BY <1>2, <1>5 DEF Idle, ThreadState
<1>7. \A p \in Thread : thread[p] \in ThreadState /\ thread[p].pc \in {"rest", "start"}
  <2>1. \A pc \in {"rest", "start"} :
          [Idle EXCEPT !.pc = pc] \in ThreadState /\ [Idle EXCEPT !.pc = pc].pc = pc
    BY <1>6 DEF ThreadState, Idle
  <2>. QED
    BY <1>1, <2>1
<1>8. ThreadTypeOK
  <2>1. thread \in [Thread -> ThreadState]
    BY <1>7 DEF Init
  <2>. QED
    BY <1>2, <1>7, <2>1 DEF ThreadTypeOK, Thread
<1>9. LifeTypeOK
  <2>1. active \in BOOLEAN /\ heard \in BOOLEAN /\ hasBeat \in BOOLEAN /\ gone \in BOOLEAN
    BY Zenon DEF Init
  <2>. QED
    BY <2>1, BoundsAssumption DEF Init, LifeTypeOK
<1>10. thread["destructor"].pc = "rest" /\ thread["server"].pc = "start" /\ thread["heartbeat"].pc = "start"
  BY <1>1 DEF Thread, Idle
<1>11. OneNode
  BY <1>2 DEF OneNode
<1>12. /\ SpecEnabled /\ LateIsLate /\ Joined /\ NodeKnown /\ ThreadsPlace /\ ErasesFound /\ InjectedIsKept
       /\ CalledIsReachable /\ UpdatedIsKept /\ AsleepIsStopped /\ RemovesAll
  BY <1>2, <1>7, <1>10 DEF SpecEnabled, LateIsLate, Joined, NodeKnown, ThreadsPlace, ErasesFound,
       InjectedIsKept, CalledIsReachable, UpdatedIsKept, AsleepIsStopped, RemovesAll, At
<1>. QED
  BY <1>3, <1>4, <1>8, <1>9, <1>11, <1>12 DEF HookInv, TypeOK

\* Every step of every thread preserves the invariant.
LEMMA HookStep ==
    ASSUME HookInv, Usage, [Next]_vars
    PROVE  HookInv'
<1>1. ASSUME NEW p \in {"server", "destructor"}, RemoveStep(p)
      PROVE  HookInv'
  <2>1. p \in Thread
    BY DEF Thread
  <2>2. CASE GetHook(p, "remove", "erase", "next")
    BY <2>1, <2>2, GetHookOK
  <2>3. CASE Erase(p) \/ ResetPreTick(p)
    BY <2>3, EraseOK
  <2>4. CASE Disable(p)
    BY <2>4, DisableOK
  <2>5. CASE NextHook(p)
    BY <2>5, NextHookOK
  <2>6. CASE Collect(p)
    BY <2>6, CollectOK
  <2>. QED
    BY <1>1, <2>2, <2>3, <2>4, <2>5, <2>6 DEF RemoveStep
<1>2. ASSUME NEW p \in {"server", "heartbeat"}, EnableStep(p)
      PROVE  HookInv'
  <2>1. CASE LockMap(p)
    BY <2>1, LockMapOK
  <2>2. CASE \E n \in Node : EnableEach(p, n)
    BY <2>2, EnableEachOK
  <2>3. CASE UnlockMap(p)
    BY <2>3, UnlockMapOK
  <2>. QED
    BY <1>2, <2>1, <2>2, <2>3 DEF EnableStep
<1>3. CASE ServerStep
  <2>1. CASE ServerStarts \/ ServerEnds
    BY <2>1, ServerStartsOK
  <2>2. CASE GetHook("server", "insert", "update", "new")
    BY <2>2, GetHookOK DEF Thread
  <2>3. CASE GetHook("server", "unlock", "release", "rest")
    BY <2>3, GetHookOK DEF Thread
  <2>4. CASE UpdateHook
    BY <2>4, UpdateHookOK
  <2>5. CASE InsertHook
    BY <2>5, InsertHookOK
  <2>6. CASE UnlockBreakpoint
    BY <2>6, UnlockBreakpointOK
  <2>7. CASE RemoveStep("server")
    BY <1>1, <2>7
  <2>8. CASE EnableStep("server")
    BY <1>2, <2>8
  <2>. QED
    BY <1>3, <2>1, <2>2, <2>3, <2>4, <2>5, <2>6, <2>7, <2>8 DEF ServerStep
<1>4. CASE Receive
  BY <1>4, ReceiveOK
<1>5. CASE HeartbeatStep
  BY <1>2, <1>5, HeartbeatOK DEF HeartbeatStep
<1>6. CASE Expire \/ Leave
  BY <1>6, LostOK
<1>7. CASE Destroy
  BY <1>7, DestroyOK
<1>8. CASE DestructorStep
  BY <1>1, <1>8, StopOK DEF DestructorStep
<1>9. CASE TickerStep
  BY <1>9, EnterOK, RemoveItselfOK DEF TickerStep
<1>10. CASE \E n \in Node : Tick(n)
  BY <1>10, TickOK
<1>11. CASE UNCHANGED vars
  <2>1. UNCHANGED <<hookVars, mapMutex, ticker, thread>> /\ UNCHANGED <<active, hasBeat, lifeVars>>
    BY <1>11 DEF vars
  <2>. QED
    BY <2>1, LifeOnly, SameLife DEF HookInv
<1>. QED
  BY <1>3, <1>4, <1>5, <1>6, <1>7, <1>8, <1>9, <1>10, <1>11 DEF Next

\* The invariant holds in every state, whatever Groot2 asks for and in whatever order the
\* server, the heartbeat, the tick and the destructor run.
THEOREM HookInvariant ==
    ASSUME Usage
    PROVE  Spec => []HookInv
<1>1. Init => HookInv
  BY InitOK
<1>2. HookInv /\ [Next]_vars => HookInv'
  BY HookStep
<1>. QED
  BY <1>1, <1>2, PTL DEF Spec

\* A tick is stopped only at a breakpoint that is enabled and not unlocked, and that Groot2 or
\* the heartbeat still finds, or a thread is about to disable: it is never forgotten, however
\* removal, unlocking, the loss of Groot2 and the destructor meet (groot2_publisher.cpp:546, 571,
\* 599), but for a hook that a request changed after the destructor had begun.
THEOREM NoTickForgotten ==
    ASSUME Usage
    PROVE  Spec => []StoppedAtLiveBreakpoint
<1>1. HookInv => StoppedAtLiveBreakpoint
  BY DEF HookInv, CalledIsReachable, AsleepIsStopped, Reachable, StoppedAtLiveBreakpoint
<1>. QED
  BY <1>1, HookInvariant, PTL

\* When the destructor has returned, a node calls no hook of the publisher, the map holds none and
\* no tick sleeps at one, but those that the server inserted or changed on a request it served
\* after the destructor had begun (groot2_publisher.cpp:177, 179, 277).
THEOREM NothingIsLeft ==
    ASSUME Usage
    PROVE  Spec => []NothingLeft
<1>1. ASSUME HookInv, At("destructor", "ended")
      PROVE  /\ \A n \in Node : {injected[n], preHooks[n]} \subseteq late \cup {0}
             /\ ticker.pc = "asleep" => ticker.hook \in late
  <2>. USE <1>1 DEF HookInv
  <2>1. thread["destructor"].pc = "ended" /\ "destructor" \in Thread
    BY DEF At, Thread
  <2>2. \A n \in Node : preHooks[n] \in {0} \cup late
    BY <2>1 DEF RemovesAll
  <2>3. \A p \in Thread : thread[p].pc = "ended"
    BY <2>1 DEF Joined, At, Thread
  <2>4. \A n \in Node : injected[n] \in {0} \cup late
    BY <2>2, <2>3 DEF InjectedIsKept, At
  <2>5. ASSUME ticker.pc = "asleep"
        PROVE  ticker.hook \in late
    <3>1. ticker.node \in Node /\ ticker.hook # 0
      BY <2>5, BoundsAssumption DEF TypeOK, TickerTypeOK
    <3>2. Reachable(ticker.node, ticker.hook) \/ ticker.hook \in late
      BY <2>5 DEF CalledIsReachable, AsleepIsStopped
    <3>. QED
      BY <2>2, <2>3, <3>1, <3>2 DEF Reachable
  <2>. QED
    BY <2>2, <2>4, <2>5
<1>2. HookInv => NothingLeft
  BY <1>1 DEF NothingLeft
<1>. QED
  BY <1>2, HookInvariant, PTL

\* Every variable has its type; in particular hooks_map_mutex is kept only by a thread that goes
\* through all hooks.
THEOREM HooksTypeCorrect ==
    ASSUME Usage
    PROVE  Spec => []TypeOK
<1>1. HookInv => TypeOK
  BY DEF HookInv
<1>. QED
  BY <1>1, HookInvariant, PTL

===============================================================================
