--------------------------- MODULE MCGroot2Publisher ---------------------------
(***************************************************************************)
(* Three ways to use Groot2, all of them while the destructor may run: one *)
(* that is lost while a tick is at a breakpoint that removes itself, one   *)
(* that changes and removes the hooks it inserted, and one whose answers   *)
(* are used once.  Any request is a heartbeat.                             *)
(***************************************************************************)
EXTENDS Groot2Publisher

MCNode == {1}

Breakpoint == [mode |-> "BREAKPOINT", once |-> FALSE, enabled |-> TRUE]
BreakpointOnce == [mode |-> "BREAKPOINT", once |-> TRUE, enabled |-> TRUE]
Replace == [mode |-> "REPLACE", once |-> FALSE, enabled |-> TRUE]
ReplaceOnce == [mode |-> "REPLACE", once |-> TRUE, enabled |-> TRUE]

MCClients == {
    [requests |-> {"beat", "insert", "unlock"}, hooks |-> {BreakpointOnce}, loses |-> TRUE],
    [requests |-> {"insert", "remove", "removeAll", "disableAll"},
     hooks |-> {Breakpoint, Replace}, loses |-> FALSE],
    [requests |-> {"insert", "unlock", "remove", "disableAll"},
     hooks |-> {ReplaceOnce}, loses |-> FALSE]}

===============================================================================
