----------------------------- MODULE MCBlackboard -----------------------------
(***************************************************************************)
(* The root tree, whose nodes declare the int port "x", a SubTree that     *)
(* maps "in" to "x" and has the constant "c", and a SubTree of that one    *)
(* with _autoremap.                                                        *)
(***************************************************************************)
EXTENDS Blackboard, TLC

MCBoard == {"root", "sub", "leaf"}
MCParent == [b \in {"sub", "leaf"} |-> IF b = "sub" THEN "root" ELSE "sub"]
MCKey == {"x", "in", "c", "_p", "@x"}
MCPrivate == {"_p"}
MCAtKey == ("@x" :> "x")
MCRemap == [b \in {"root", "sub", "leaf"} |-> IF b = "sub" THEN ("in" :> "x") ELSE <<>>]
MCAutoRemap == {"leaf"}
MCInitialKeys == ("root" :> {"x"} @@ "sub" :> {"c"} @@ "leaf" :> {})

\* The tree sets ports, executes scripts and keeps entries locked; another thread
\* sets, declares, unsets and watches entries of the same boards.
MCThread == {"tree", "app"}
MCOps == [t \in {"tree", "app"} |-> IF t = "tree" THEN {"set", "script", "lock"}
                                                 ELSE {"set", "check", "unset", "declare"}]
MCPorts == {[board |-> "root", key |-> "x"], [board |-> "leaf", key |-> "in"],
            [board |-> "leaf", key |-> "_p"], [board |-> "leaf", key |-> "@x"],
            [board |-> "leaf", key |-> "c"]}
MCWatched == [board |-> "leaf", key |-> "in"]
===============================================================================
