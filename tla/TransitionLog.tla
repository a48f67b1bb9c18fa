----------------------------- MODULE TransitionLog -----------------------------
(***************************************************************************)
(* What a logger that writes in a thread of its own promises: the          *)
(* transitions it is notified of are written once each, in the order of    *)
(* the notifications, all of them as long as the logger stays open, and    *)
(* from the moment they are saved on no crash takes them away.             *)
(***************************************************************************)
EXTENDS Sequences, Naturals

CONSTANT Transition

VARIABLES
    open,       \* the logger exists
    notified,   \* what it was notified of, with what older sessions wrote
    written,    \* what was given to the file or database
    saved       \* how much of it is there

vars == <<open, notified, written, saved>>

Init == open = TRUE /\ notified = <<>> /\ written = <<>> /\ saved = 0

Notify ==
    /\ open
    /\ \E t \in Transition : notified' = Append(notified, t)
    /\ UNCHANGED <<open, written, saved>>

Write ==
    /\ open /\ Len(written) < Len(notified)
    /\ written' = Append(written, notified[Len(written) + 1])
    /\ saved' \in {saved, Len(written')}
    /\ UNCHANGED <<open, notified>>

Save == open /\ saved' = Len(written) /\ UNCHANGED <<open, notified, written>>

\* Destruction or a crash: what is not yet written never will be, and what is
\* not saved may be lost, from the end.
Close ==
    /\ open' = FALSE
    /\ \E kept \in saved .. Len(written) :
         written' = SubSeq(written, 1, kept) /\ saved' = kept
    /\ notified' = written'

\* The next session appends or begins an empty file.
Open ==
    /\ ~open /\ open' = TRUE
    /\ written' \in {written, <<>>} /\ notified' = written' /\ saved' = Len(written')

Next == Notify \/ Write \/ Save \/ Close \/ Open

Spec == Init /\ [][Next]_vars /\ WF_vars(Write)
===============================================================================
