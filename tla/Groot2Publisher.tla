---------------------------- MODULE Groot2Publisher ----------------------------
(***************************************************************************)
(* The hooks of groot2_publisher.cpp: Groot2 inserts them through the      *)
(* thread of the server, the thread that ticks the tree stops at them, the *)
(* thread of the heartbeat disables them when Groot2 is lost, and the      *)
(* destructor removes them.                                                *)
(*                                                                         *)
(* hooks_map_mutex is a variable because enableAllHooks() keeps it while it *)
(* locks one hook after another.  The mutex of a hook is kept over several *)
(* steps only by a tick that is about to remove the hook.  A notification  *)
(* is one step with the change it announces, made under that mutex.        *)
(***************************************************************************)
EXTENDS Integers, FiniteSets

CONSTANTS
    Node,
    Clients,           \* the requests and hooks Groot2 sends, and whether it may be lost
    MaxHooks,          \* bound: hooks ever created
    MaxRequests,       \* bound: requests
    ServerStartsFirst  \* the server runs before heartbeatLoop() looks at active_server

Mode == {"BREAKPOINT", "REPLACE"}
HookSpec == [mode : Mode, once : BOOLEAN, enabled : BOOLEAN]

ASSUME ClientsAssumption ==
    \A c \in Clients :
        /\ c.requests \subseteq {"beat", "insert", "unlock", "remove", "removeAll",
                                 "enableAll", "disableAll"}
        /\ c.hooks \subseteq HookSpec
ASSUME BoundsAssumption == MaxHooks \in Nat /\ MaxRequests \in Nat /\ 0 \notin Node

VARIABLES
    client,       \* what this Groot2 does, a member of Clients
    hooks,        \* the hooks
    created, requests,
    preHooks,     \* pre_hooks; 0 where there is none
    injected,     \* the hook of each node's pre-tick function, or 0
    mapMutex,     \* hooks_map_mutex
    ticker,       \* the thread that ticks
    thread,       \* the threads of the publisher and its destructor
    active,       \* active_server
    heard,        \* last_heartbeat is less than max_heartbeat_delay ago
    hasBeat,      \* has_heartbeat
    gone,         \* Groot2 will send nothing more
    late          \* history: the hooks inserted or changed once the destructor had begun

hookVars == <<hooks, created, preHooks, injected, late>>
lifeVars == <<client, requests, heard, gone>>
vars == <<hookVars, mapMutex, ticker, thread, active, hasBeat, lifeVars>>

Thread == {"server", "heartbeat", "destructor"}
Id == 1 .. MaxHooks
Idle == [pc |-> "rest", node |-> 0, hook |-> 0, todo |-> {},
         spec |-> [mode |-> "BREAKPOINT", once |-> FALSE, enabled |-> TRUE]]

Hook == [mode : Mode, once : BOOLEAN, enabled : BOOLEAN, ready : BOOLEAN]

HooksTypeOK ==
    /\ hooks \in [Id -> Hook]
    /\ created \in 0 .. MaxHooks
    /\ preHooks \in [Node -> 0 .. created] /\ injected \in [Node -> 0 .. created]
    /\ late \subseteq 1 .. created

TickerTypeOK ==
    /\ ticker \in [pc : {"rest", "enter", "asleep", "woken", "remove"},
                   node : Node \cup {0}, hook : 0 .. created]
    /\ ticker.pc # "rest" => ticker.hook # 0 /\ ticker.node # 0

ThreadState ==
    [pc : {"start", "rest", "insert", "update", "new", "unlock", "release", "remove", "erase",
           "setPre", "disable", "removeAll", "next", "enableAll", "disableAll", "each", "stop",
           "joinServer", "joinHeartbeat", "ended"},
     node : Node \cup {0}, hook : 0 .. created, todo : SUBSET Node, spec : HookSpec]

ThreadTypeOK ==
    /\ thread \in [Thread -> ThreadState]
    \* The mutex of the map is kept only while the hooks are gone through.
    /\ mapMutex \in Thread \cup {"free"}
    /\ \A p \in Thread : mapMutex = p <=> thread[p].pc = "each"

LifeTypeOK ==
    /\ client \in Clients /\ requests \in 0 .. MaxRequests
    /\ active \in BOOLEAN /\ heard \in BOOLEAN /\ hasBeat \in BOOLEAN /\ gone \in BOOLEAN

TypeOK == HooksTypeOK /\ TickerTypeOK /\ ThreadTypeOK /\ LifeTypeOK

Init ==
    /\ client \in Clients
    /\ hooks = [i \in Id |-> [mode |-> "BREAKPOINT", once |-> FALSE, enabled |-> FALSE,
                              ready |-> FALSE]]
    /\ created = 0 /\ requests = 0
    /\ preHooks = [n \in Node |-> 0] /\ injected = [n \in Node |-> 0] /\ late = {}
    /\ mapMutex = "free"
    /\ ticker = [pc |-> "rest", node |-> 0, hook |-> 0]
    /\ thread = [p \in Thread |->
         [Idle EXCEPT !.pc = IF p = "destructor" THEN "rest" ELSE "start"]]
    /\ active = FALSE /\ heard = TRUE /\ hasBeat = TRUE /\ gone = FALSE

-------------------------------------------------------------------------------
At(p, pc) == thread[p].pc = pc
Go(p, pc) == thread' = [thread EXCEPT ![p].pc = pc]

Nodes(map) == {n \in Node : map[n] # 0}

\* The tick that keeps the mutex of hook i.
HookMutexFree(i) == ~(ticker.pc = "remove" /\ ticker.hook = i)

\* notify_all() on hook i.
Wake(i) ==
    ticker' = IF ticker.pc = "asleep" /\ ticker.hook = i THEN [ticker EXCEPT !.pc = "woken"]
                                                         ELSE ticker

-------------------------------------------------------------------------------
(* The injected callback, in the thread that ticks. *)

\* executeTick() copies the pre-tick function and calls it.
Tick(n) ==
    /\ ticker.pc = "rest" /\ injected[n] # 0
    /\ ticker' = [pc |-> "enter", node |-> n, hook |-> injected[n]]
    /\ UNCHANGED <<hookVars, mapMutex, thread, active, hasBeat, lifeVars>>

\* The callback goes on and answers, after it has removed a hook that is only
\* used once.
Pass == ticker' = IF hooks[ticker.hook].once THEN [ticker EXCEPT !.pc = "remove"]
                                             ELSE [pc |-> "rest", node |-> 0, hook |-> 0]

Skip == ticker' = [pc |-> "rest", node |-> 0, hook |-> 0]

Enter ==
    LET hook == hooks[ticker.hook]
    IN  /\ ticker.pc = "enter"
        /\ \/ ~hook.enabled /\ Skip /\ UNCHANGED hooks
           \/ hook.enabled /\ hook.mode = "REPLACE" /\ Pass /\ UNCHANGED hooks
           \/ /\ hook.enabled /\ hook.mode = "BREAKPOINT" /\ ~hook.ready
              /\ ticker' = [ticker EXCEPT !.pc = "asleep"] /\ UNCHANGED hooks
           \/ /\ hook.enabled /\ hook.mode = "BREAKPOINT" /\ hook.ready
              /\ hooks' = [hooks EXCEPT ![ticker.hook].ready = FALSE] /\ Pass
        /\ UNCHANGED <<created, preHooks, injected, late, mapMutex, thread, active, hasBeat, lifeVars>>

\* wait() evaluates its predicate again.
Woken ==
    LET hook == hooks[ticker.hook]
    IN  /\ ticker.pc = "woken"
        /\ IF ~hook.ready /\ hook.enabled
           THEN ticker' = [ticker EXCEPT !.pc = "asleep"] /\ UNCHANGED hooks
           ELSE /\ hooks' = [hooks EXCEPT ![ticker.hook].ready = FALSE]
                /\ IF hook.enabled THEN Pass ELSE Skip
        /\ UNCHANGED <<created, preHooks, injected, late, mapMutex, thread, active, hasBeat, lifeVars>>

\* The hook of the node is erased, whichever it is by now.
RemoveItself ==
    /\ ticker.pc = "remove" /\ mapMutex = "free"
    /\ preHooks' = [preHooks EXCEPT ![ticker.node] = 0]
    /\ injected' = [injected EXCEPT ![ticker.node] = 0]
    /\ Skip
    /\ UNCHANGED <<hooks, created, late, mapMutex, thread, active, hasBeat, lifeVars>>

-------------------------------------------------------------------------------
(* serverLoop() *)

ServerStarts ==
    /\ At("server", "start") /\ active' = TRUE /\ heard' = TRUE
    /\ Go("server", "rest")
    /\ UNCHANGED <<hookVars, mapMutex, ticker, hasBeat, client, requests, gone>>

ServerEnds ==
    /\ At("server", "rest") /\ ~active /\ Go("server", "ended")
    /\ UNCHANGED <<hookVars, mapMutex, ticker, active, hasBeat, lifeVars>>

\* A request that finds its node; "beat" stands for those that touch no hook.
Receive ==
    /\ At("server", "rest") /\ active /\ ~gone /\ requests < MaxRequests
    /\ requests' = requests + 1 /\ heard' = TRUE
    /\ \E request \in client.requests, n \in Node, spec \in client.hooks :
         IF request = "beat" THEN UNCHANGED thread
         ELSE thread' = [thread EXCEPT !["server"] =
                [Idle EXCEPT !.pc = request, !.node = n,
                             !.spec = IF request \in {"insert", "unlock"} THEN spec ELSE @]]
    /\ UNCHANGED <<hookVars, mapMutex, ticker, active, hasBeat, client, gone>>

\* What follows a request, a change of the heartbeat, or removeAllHooks() in the
\* destructor.
Return(p) ==
    thread' = [thread EXCEPT ![p] =
        [Idle EXCEPT !.pc = IF p = "destructor" THEN "stop" ELSE "rest"]]

\* getHook(): a node without a hook is left alone.
GetHook(p, from, found, missing) ==
    LET i == preHooks[thread[p].node]
    IN  /\ At(p, from) /\ mapMutex = "free"
        /\ thread' = [thread EXCEPT ![p].hook = i, ![p].pc = IF i # 0 THEN found ELSE missing]
        /\ UNCHANGED <<hookVars, mapMutex, ticker, active, hasBeat, lifeVars>>

\* The server serves requests until active_server is cleared, after removeAllHooks().
Changed(i) == late' = IF At("destructor", "rest") THEN late ELSE late \cup {i}

\* HOOK_INSERT of a node that has a hook: a breakpoint that becomes something
\* else is unlocked.
UpdateHook ==
    LET i == thread["server"].hook
        spec == thread["server"].spec
        unlock == hooks[i].mode = "BREAKPOINT" /\ spec.mode = "REPLACE"
    IN  /\ At("server", "update") /\ HookMutexFree(i)
        /\ hooks' = [hooks EXCEPT ![i] =
             [mode |-> spec.mode, once |-> spec.once, enabled |-> spec.enabled,
              ready |-> @.ready \/ unlock]]
        /\ IF unlock THEN Wake(i) ELSE UNCHANGED ticker
        /\ Changed(i)
        /\ Return("server")
        /\ UNCHANGED <<created, preHooks, injected, mapMutex, active, hasBeat, lifeVars>>

\* insertHook()
InsertHook ==
    LET n == thread["server"].node
        spec == thread["server"].spec
    IN  /\ At("server", "new") /\ mapMutex = "free"
        /\ IF created < MaxHooks
           THEN /\ created' = created + 1
                /\ hooks' = [hooks EXCEPT ![created'] =
                     [mode |-> spec.mode, once |-> spec.once, enabled |-> spec.enabled,
                      ready |-> FALSE]]
                /\ preHooks' = [preHooks EXCEPT ![n] = created']
                /\ injected' = [injected EXCEPT ![n] = created']
                /\ Changed(created')
           ELSE UNCHANGED hookVars
        /\ Return("server")
        /\ UNCHANGED <<mapMutex, ticker, active, hasBeat, lifeVars>>

\* Mutant of UnlockBreakpoint: nobody is notified.
UnlockSilently ==
    LET i == thread["server"].hook
    IN  /\ At("server", "release") /\ HookMutexFree(i)
        /\ hooks' = [hooks EXCEPT ![i].once = @ \/ thread["server"].spec.once,
                                  ![i].ready = @ \/ hooks[i].mode = "BREAKPOINT"]
        /\ Return("server")
        /\ UNCHANGED <<created, preHooks, injected, late, mapMutex, ticker, active, hasBeat, lifeVars>>

UnlockBreakpoint ==
    LET i == thread["server"].hook
    IN  /\ At("server", "release") /\ HookMutexFree(i)
        /\ hooks' = [hooks EXCEPT ![i].once = @ \/ thread["server"].spec.once,
                                  ![i].ready = @ \/ hooks[i].mode = "BREAKPOINT"]
        /\ IF hooks[i].mode = "BREAKPOINT" THEN Wake(i) ELSE UNCHANGED ticker
        /\ Return("server")
        /\ UNCHANGED <<created, preHooks, injected, late, mapMutex, active, hasBeat, lifeVars>>

-------------------------------------------------------------------------------
(* removeHook() and removeAllHooks(), in the server or in the destructor. *)

Erase(p) ==
    /\ At(p, "erase") /\ mapMutex = "free"
    /\ preHooks' = [preHooks EXCEPT ![thread[p].node] = 0]
    /\ Go(p, "setPre")
    /\ UNCHANGED <<hooks, created, injected, late, mapMutex, ticker, active, hasBeat, lifeVars>>

\* Mutant of ResetPreTick: the callback stays.
KeepPreTick(p) ==
    /\ At(p, "setPre") /\ Go(p, "disable")
    /\ UNCHANGED <<hookVars, mapMutex, ticker, active, hasBeat, lifeVars>>

ResetPreTick(p) ==
    /\ At(p, "setPre")
    /\ injected' = [injected EXCEPT ![thread[p].node] = 0]
    /\ Go(p, "disable")
    /\ UNCHANGED <<hooks, created, preHooks, late, mapMutex, ticker, active, hasBeat, lifeVars>>

Disable(p) ==
    LET i == thread[p].hook
    IN  /\ At(p, "disable") /\ HookMutexFree(i)
        /\ IF hooks[i].mode = "BREAKPOINT"
           THEN hooks' = [hooks EXCEPT ![i].enabled = FALSE] /\ Wake(i)
           ELSE UNCHANGED <<hooks, ticker>>
        /\ Go(p, "next")
        /\ UNCHANGED <<created, preHooks, injected, late, mapMutex, active, hasBeat, lifeVars>>

\* The next hook of removeAllHooks(); HOOK_REMOVE has no other.
NextHook(p) ==
    /\ At(p, "next")
    /\ IF thread[p].todo = {} THEN Return(p)
       ELSE \E n \in thread[p].todo :
              thread' = [thread EXCEPT ![p].pc = "remove", ![p].node = n, ![p].todo = @ \ {n}]
    /\ UNCHANGED <<hookVars, mapMutex, ticker, active, hasBeat, lifeVars>>

Collect(p) ==
    /\ At(p, "removeAll") /\ mapMutex = "free"
    /\ thread' = [thread EXCEPT ![p].pc = "next", ![p].todo = Nodes(preHooks)]
    /\ UNCHANGED <<hookVars, mapMutex, ticker, active, hasBeat, lifeVars>>

-------------------------------------------------------------------------------
(* enableAllHooks(), in the server or in the heartbeat. *)

LockMap(p) ==
    /\ thread[p].pc \in {"enableAll", "disableAll"} /\ mapMutex = "free"
    /\ mapMutex' = p
    /\ thread' = [thread EXCEPT ![p].pc = "each", ![p].todo = Nodes(preHooks),
                                ![p].spec.enabled = At(p, "enableAll")]
    /\ UNCHANGED <<hookVars, ticker, active, hasBeat, lifeVars>>

EnableEach(p, n) ==
    LET i == preHooks[n]
        enable == thread[p].spec.enabled
    IN  /\ At(p, "each") /\ n \in thread[p].todo /\ HookMutexFree(i)
        /\ hooks' = [hooks EXCEPT ![i].enabled = enable]
        /\ IF ~enable /\ hooks[i].mode = "BREAKPOINT" THEN Wake(i) ELSE UNCHANGED ticker
        /\ thread' = [thread EXCEPT ![p].todo = @ \ {n}]
        /\ UNCHANGED <<created, preHooks, injected, late, mapMutex, active, hasBeat, lifeVars>>

UnlockMap(p) ==
    /\ At(p, "each") /\ thread[p].todo = {}
    /\ mapMutex' = "free"
    /\ Return(p)
    /\ UNCHANGED <<hookVars, ticker, active, hasBeat, lifeVars>>

-------------------------------------------------------------------------------
(* heartbeatLoop(), and Groot2 that is not heard of. *)

\* max_heartbeat_delay is longer than a request takes, and than a pass of the
\* heartbeat, so that this one has seen the request.
Expire ==
    /\ client.loses /\ heard /\ hasBeat
    /\ At("server", "rest") /\ At("heartbeat", "rest")
    /\ heard' = FALSE
    /\ UNCHANGED <<hookVars, mapMutex, ticker, thread, active, hasBeat, client, requests, gone>>

Leave ==
    /\ ~gone /\ gone' = TRUE
    /\ UNCHANGED <<hookVars, mapMutex, ticker, thread, active, hasBeat, client, requests, heard>>

\* Mutant of Heartbeat: the loss is noticed, and nothing done.
HeartbeatOnlyEnables ==
    /\ \/ At("heartbeat", "start") /\ (ServerStartsFirst => ~At("server", "start"))
       \/ At("heartbeat", "rest")
    /\ IF active THEN hasBeat' = heard ELSE UNCHANGED hasBeat
    /\ Go("heartbeat", IF ~active THEN "ended" ELSE IF heard /\ ~hasBeat THEN "enableAll"
                                                    ELSE "rest")
    /\ UNCHANGED <<hookVars, mapMutex, ticker, active, lifeVars>>

Heartbeat ==
    /\ \/ At("heartbeat", "start") /\ (ServerStartsFirst => ~At("server", "start"))
       \/ At("heartbeat", "rest")
    /\ IF active THEN hasBeat' = heard ELSE UNCHANGED hasBeat
    /\ Go("heartbeat", IF ~active THEN "ended"
                       ELSE IF heard = hasBeat THEN "rest"
                       ELSE IF heard THEN "enableAll" ELSE "disableAll")
    /\ UNCHANGED <<hookVars, mapMutex, ticker, active, lifeVars>>

-------------------------------------------------------------------------------
(* ~Groot2Publisher() *)

Destroy ==
    /\ At("destructor", "rest")
    /\ ServerStartsFirst => ~At("server", "start")
    /\ Go("destructor", "removeAll")
    /\ UNCHANGED <<hookVars, mapMutex, ticker, active, hasBeat, lifeVars>>

\* Mutant of Stop: the server is joined before it is told to end.
StopJoinsFirst ==
    /\ \/ /\ At("destructor", "stop") /\ At("server", "ended")
          /\ active' = FALSE /\ Go("destructor", "joinHeartbeat")
       \/ /\ At("destructor", "joinHeartbeat") /\ At("heartbeat", "ended")
          /\ Go("destructor", "ended") /\ UNCHANGED active
    /\ UNCHANGED <<hookVars, mapMutex, ticker, hasBeat, lifeVars>>

\* active_server = false, and the two threads are joined.
Stop ==
    /\ \/ /\ At("destructor", "stop") /\ active' = FALSE /\ Go("destructor", "joinServer")
       \/ /\ At("destructor", "joinServer") /\ At("server", "ended")
          /\ Go("destructor", "joinHeartbeat") /\ UNCHANGED active
       \/ /\ At("destructor", "joinHeartbeat") /\ At("heartbeat", "ended")
          /\ Go("destructor", "ended") /\ UNCHANGED active
    /\ UNCHANGED <<hookVars, mapMutex, ticker, hasBeat, lifeVars>>

-------------------------------------------------------------------------------
RemoveStep(p) ==
    \/ GetHook(p, "remove", "erase", "next")
    \/ Erase(p) \/ ResetPreTick(p) \/ Disable(p) \/ NextHook(p) \/ Collect(p)

EnableStep(p) == LockMap(p) \/ (\E n \in Node : EnableEach(p, n)) \/ UnlockMap(p)

ServerStep ==
    \/ ServerStarts \/ ServerEnds
    \/ GetHook("server", "insert", "update", "new") \/ UpdateHook \/ InsertHook
    \/ GetHook("server", "unlock", "release", "rest") \/ UnlockBreakpoint
    \/ RemoveStep("server") \/ EnableStep("server")

HeartbeatStep == Heartbeat \/ EnableStep("heartbeat")
DestructorStep == RemoveStep("destructor") \/ Stop
TickerStep == Enter \/ Woken \/ RemoveItself

Next ==
    \/ ServerStep \/ Receive
    \/ HeartbeatStep \/ Expire \/ Leave
    \/ Destroy \/ DestructorStep
    \/ TickerStep \/ \E n \in Node : Tick(n)

\* Every thread runs, and time passes once Groot2 is gone; a mutex is given to
\* whoever keeps asking for it.
Fairness ==
    /\ SF_vars(ServerStep) /\ SF_vars(HeartbeatStep)
    /\ SF_vars(DestructorStep) /\ SF_vars(TickerStep)
    /\ WF_vars(gone /\ Expire)

Spec == Init /\ [][Next]_vars
FairSpec == Spec /\ Fairness

-------------------------------------------------------------------------------
(* Properties. *)

\* The callback keeps the mutex of its hook and asks for that of the map (:554, :584);
\* enableAllHooks() keeps that of the map and asks for that of the hook (:483, :486).
LockInversion ==
    ticker.pc = "remove" /\ \E p \in Thread : \E n \in thread[p].todo :
        At(p, "each") /\ preHooks[n] = ticker.hook

\* A tick is stopped only at a breakpoint that is enabled and was not unlocked,
\* and that Groot2 can still reach, or a thread is about to disable; all but
\* those that a request changed while the destructor was running.
StoppedAtLiveBreakpoint ==
    ticker.pc = "asleep" =>
        /\ hooks[ticker.hook].enabled /\ ~hooks[ticker.hook].ready
        /\ \/ preHooks[ticker.node] = ticker.hook
           \/ \E p \in Thread :
                thread[p].hook = ticker.hook /\ thread[p].pc \in {"setPre", "disable"}
           \/ ticker.hook \in late

\* Once Groot2 is gone every tick gets out of its hook (groot2_publisher.cpp:510),
\* unless it removes the hook while all are enabled or disabled: nothing else
\* keeps it there.
LossReleasesTick ==
    gone /\ client.loses /\ ticker.pc # "rest"
    ~> ticker.pc = "rest" \/ ticker.hook \in late \/ LockInversion

\* The destructor returns, although a tick may be stopped in another thread, and
\* whatever the server and the heartbeat are at: only the same two mutexes can
\* keep it.
DestructorReturns == At("destructor", "removeAll") ~> At("destructor", "ended") \/ LockInversion

\* When it has returned, a hook that a node calls, that is in the map, or that a
\* tick is stopped at was inserted or changed by a request served after it began.
NothingLeft ==
    At("destructor", "ended") =>
        /\ \A n \in Node : {injected[n], preHooks[n]} \subseteq late \cup {0}
        /\ ticker.pc = "asleep" => ticker.hook \in late

===============================================================================
