-------------------------------- MODULE Loggers --------------------------------
(***************************************************************************)
(* FileLogger2 and SqliteLogger: the threads that change the status of     *)
(* nodes put transitions into a queue, and the thread of the logger writes *)
(* them.  The two differ in how that thread waits and in the timestamps.   *)
(*                                                                         *)
(* A transition is the node and the time; the callbacks of a logger        *)
(* exclude each other (callback_mutex_), so "notify" marks its owner.      *)
(* queue_mutex_ is held over more than one step only when the writer goes  *)
(* to sleep.                                                               *)
(***************************************************************************)
EXTENDS Integers, Sequences, FiniteSetsExt, Functions

CONSTANTS
    Node,         \* nodes whose status is changed in different threads
    Kinds,        \* the loggers, "File" or "Sqlite"
    Relative,     \* TimestampType::relative
    MaxTime, MaxRecords, MaxSessions   \* bounds

ASSUME LoggersAssumption ==
    /\ IsFiniteSet(Node) /\ Kinds \subseteq {"File", "Sqlite"} /\ Relative \in BOOLEAN
    /\ MaxTime \in Nat /\ MaxRecords \in Nat /\ MaxSessions \in Nat \ {0}

VARIABLES
    kind,         \* which logger this is
    now,          \* the clock
    enabled,      \* enabled_
    change,       \* of each node: the transition it notifies
    first,        \* first_timestamp_, or 0 when timestamps are absolute
    last,         \* monotonic_timestamp_
    queue,        \* transitions_queue_
    buffer,       \* transitions, the local variable of writerLoop()
    writer,       \* where writerLoop() is
    loop,         \* loop_
    life,         \* where the life of the logger is
    written,      \* what was given to the file, or the table Transitions
    flushed,      \* how many of these no crash takes away
    session       \* session_id_

producerVars == <<change, last, queue>>
writerVars == <<buffer, writer, written, flushed>>
lifeVars == <<loop, life, session>>
vars == <<kind, now, enabled, first, producerVars, writerVars, lifeVars>>

Stamp == 0 .. MaxTime + MaxRecords
Transition == [node : Node, stamp : Stamp]

ClockTypeOK ==
    /\ kind \in Kinds /\ now \in 0 .. MaxTime /\ enabled \in BOOLEAN
    /\ first \in 0 .. MaxTime /\ last \in Stamp

ChangeTypeOK ==
    /\ change \in [Node -> [at : {"none", "stamped", "notify"}, time : 0 .. MaxTime]]
    \* Only one callback at a time.
    /\ Cardinality({n \in Node : change[n].at = "notify"}) <= 1

RecordsTypeOK ==
    \A s \in {queue, buffer, written} : s \in Seq(Transition) /\ Len(s) <= MaxRecords

WriterTypeOK ==
    /\ writer \in {"check", "eval", "blocking", "asleep", "write", "ended"}
    \* What was taken from the queue is written before anything else is.
    /\ writer # "write" => Len(buffer) = 0 /\ flushed = Len(written)
    /\ flushed \in 0 .. Len(written) /\ (kind = "Sqlite" => flushed = Len(written))
    /\ loop \in BOOLEAN
    /\ life \in {"alive", "stopping", "joining", "gone"}
    /\ session \in 1 .. MaxSessions

TypeOK == ClockTypeOK /\ ChangeTypeOK /\ RecordsTypeOK /\ WriterTypeOK

Init ==
    /\ kind \in Kinds /\ now = 0 /\ enabled = TRUE
    /\ change = [n \in Node |-> [at |-> "none", time |-> 0]]
    /\ first = 0 /\ last = 0 /\ queue = <<>>
    /\ buffer = <<>> /\ writer = "check" /\ written = <<>> /\ flushed = 0
    /\ loop = TRUE /\ life = "alive" /\ session = 1

-------------------------------------------------------------------------------
(* The threads that change statuses. *)

Tick ==
    /\ now < MaxTime /\ now' = now + 1
    /\ UNCHANGED <<kind, enabled, first, producerVars, writerVars, lifeVars>>

SetEnabled ==
    /\ enabled' = ~enabled
    /\ UNCHANGED <<kind, now, first, producerVars, writerVars, lifeVars>>

\* setStatus() reads the clock before the logger is called.
SetStatus(n) ==
    /\ life = "alive" /\ change[n].at = "none"
    /\ Len(written) + Len(buffer) + Len(queue) + Cardinality(Node) <= MaxRecords
    /\ change' = [change EXCEPT ![n] = [at |-> "stamped", time |-> now]]
    /\ UNCHANGED <<kind, now, enabled, first, last, queue, writerVars, lifeVars>>

\* Mutant of Monotonic: the same time twice.
NotBefore(time) == Max({last, time})

Monotonic(time) == Max({last + 1, time})

QueueMutexFree == writer # "blocking"

\* The callback of the logger up to the end of its critical section.
Callback(n) ==
    /\ change[n].at = "stamped" /\ \A m \in Node : change[m].at # "notify"
    /\ IF enabled
       THEN /\ QueueMutexFree
            /\ last' = IF kind = "Sqlite" THEN Monotonic(change[n].time - first) ELSE last
            /\ LET stamp == IF kind = "Sqlite" THEN last' ELSE change[n].time - first
               IN  queue' = Append(queue, [node |-> n, stamp |-> stamp])
            /\ change' = [change EXCEPT ![n].at = "notify"]
       ELSE /\ change' = [change EXCEPT ![n].at = "none"]
            /\ UNCHANGED <<last, queue>>
    /\ UNCHANGED <<kind, now, enabled, first, writerVars, lifeVars>>

NotifyOne == writer' = IF writer = "asleep" THEN "eval" ELSE writer

Notify(n) ==
    /\ change[n].at = "notify"
    /\ change' = [change EXCEPT ![n].at = "none"]
    /\ NotifyOne
    /\ UNCHANGED <<kind, now, enabled, first, last, queue, buffer, written, flushed,
                   lifeVars>>

-------------------------------------------------------------------------------
(* writerLoop() *)

Check ==
    /\ writer = "check"
    /\ writer' = IF loop THEN "eval" ELSE "ended"
    /\ UNCHANGED <<kind, now, enabled, first, producerVars, buffer, written, flushed, lifeVars>>

Predicate ==
    IF kind = "File" THEN queue # <<>> /\ loop ELSE queue # <<>> \/ ~loop

\* Mutant of Swap: the queue is copied.
SwapCopies == writer' = "write" /\ buffer' = queue /\ UNCHANGED queue

Swap == writer' = "write" /\ buffer' = queue /\ queue' = buffer

\* wait() evaluates its predicate, and goes to sleep in a second step: a
\* notification that comes between the two is not received.
Evaluate ==
    /\ writer = "eval"
    /\ IF Predicate THEN Swap ELSE writer' = "blocking" /\ UNCHANGED <<queue, buffer>>
    /\ UNCHANGED <<kind, now, enabled, first, change, last, written, flushed, lifeVars>>

Block ==
    /\ writer = "blocking" /\ writer' = "asleep"
    /\ UNCHANGED <<kind, now, enabled, first, producerVars, buffer, written, flushed, lifeVars>>

\* wait_for(10 ms) of FileLogger2, which goes on whatever the predicate says.
TimedOut ==
    /\ kind = "File" /\ writer = "asleep" /\ Swap
    /\ UNCHANGED <<kind, now, enabled, first, change, last, written, flushed, lifeVars>>

Write ==
    /\ writer = "write" /\ buffer # <<>>
    /\ written' = Append(written, Head(buffer)) /\ buffer' = Tail(buffer)
    /\ flushed' = IF kind = "Sqlite" THEN Len(written') ELSE flushed
    /\ UNCHANGED <<kind, now, enabled, first, producerVars, writer, lifeVars>>

\* The buffer of the file stream is flushed.
AllWritten ==
    /\ writer = "write" /\ buffer = <<>> /\ writer' = "check"
    /\ flushed' = Len(written)
    /\ UNCHANGED <<kind, now, enabled, first, producerVars, buffer, written, lifeVars>>

-------------------------------------------------------------------------------
(* Destruction, crash and the next session. *)

\* Mutant of Destroy: the thread is woken up, not told to end.
DestroyKeepsLoop ==
    /\ life = "alive" /\ \A n \in Node : change[n].at = "none"
    /\ life' = "stopping"
    /\ UNCHANGED <<kind, now, enabled, first, producerVars, writerVars, loop, session>>

\* No thread ticks the tree while the logger is destroyed.
Destroy ==
    /\ life = "alive" /\ \A n \in Node : change[n].at = "none"
    /\ loop' = FALSE /\ life' = "stopping"
    /\ UNCHANGED <<kind, now, enabled, first, producerVars, writerVars, session>>

DestroyNotifies ==
    /\ life = "stopping" /\ NotifyOne /\ life' = "joining"
    /\ UNCHANGED <<kind, now, enabled, first, producerVars, buffer, written, flushed, loop,
                   session>>

Join ==
    /\ life = "joining" /\ writer = "ended" /\ life' = "gone"
    /\ UNCHANGED <<kind, now, enabled, first, producerVars, writerVars, loop, session>>

\* The process ends anywhere; what is in memory is lost, of what is in the buffer
\* of the file stream all that it had not written by itself.
Crash ==
    /\ life # "gone"
    /\ life' = "gone" /\ writer' = "ended" /\ queue' = <<>> /\ buffer' = <<>>
    /\ change' = [n \in Node |-> [at |-> "none", time |-> 0]]
    /\ \E kept \in flushed .. Len(written) :
         written' = SubSeq(written, 1, kept) /\ flushed' = kept
    /\ UNCHANGED <<kind, now, enabled, first, last, loop, session>>

\* The constructor: SqliteLogger appends, FileLogger2 begins its file anew.  The
\* clock of the new session is past every timestamp of the old one.
Construct ==
    /\ life = "gone" /\ session < MaxSessions /\ first + last < now
    /\ session' = session + 1 /\ life' = "alive" /\ loop' = TRUE /\ enabled' = TRUE
    /\ first' = IF Relative THEN now ELSE 0
    /\ last' = 0 /\ queue' = <<>> /\ writer' = "check"
    /\ written' = IF kind = "Sqlite" THEN written ELSE <<>>
    /\ flushed' = Len(written')
    /\ UNCHANGED <<kind, now, change, buffer>>

-------------------------------------------------------------------------------
WriterStep == Check \/ Evaluate \/ Block \/ TimedOut \/ Write \/ AllWritten

Next ==
    \/ Tick \/ SetEnabled
    \/ \E n \in Node : SetStatus(n) \/ Callback(n) \/ Notify(n)
    \/ WriterStep
    \/ Destroy \/ DestroyNotifies \/ Join \/ Crash \/ Construct

\* The thread of the logger and the destructor run; a callback that has begun
\* returns.
Fairness ==
    /\ WF_vars(WriterStep) /\ WF_vars(DestroyNotifies) /\ WF_vars(Join)
    /\ \A n \in Node : WF_vars(Notify(n))

Spec == Init /\ [][Next]_vars
FairSpec == Spec /\ Fairness

-------------------------------------------------------------------------------
(* Properties. *)

Open == life # "gone" /\ writer # "ended"

Log == INSTANCE TransitionLog WITH
    open <- Open, saved <- flushed,
    notified <- IF Open THEN written \o buffer \o queue ELSE written

\* Transitions are written once each, in the order in which the logger was
\* called, and all of them unless the logger is destroyed or the process ends;
\* those flushed stay, whatever happens.
WrittenInOrder == Log!Spec

\* The timestamp is the primary key of the table: no insertion meets a row with
\* the same one, of this session or an older one.
KeysUnique ==
    kind = "Sqlite" /\ writer = "write" /\ buffer # <<>> =>
        \A i \in DOMAIN written : written[i].stamp # Head(buffer).stamp

\* The destructor of FileLogger2 returns, whenever it sets its flag.
DestructorEnds == kind = "File" /\ life = "stopping" ~> life = "gone"

===============================================================================
