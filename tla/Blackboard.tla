------------------------------ MODULE Blackboard ------------------------------
(***************************************************************************)
(* blackboard.h, blackboard.cpp and those who use them: SubTree's          *)
(* remapping, TreeNode::setOutput and getLockedPortContent, the scripts'   *)
(* assignment, UnsetBlackboard and EntryUpdated.                           *)
(*                                                                         *)
(* One step per critical section.  A mutex is a variable only where it is  *)
(* held over several steps; a step that takes the mutexes of several       *)
(* boards on the way to an entry waits until all of them are free.         *)
(* A value is the number of the write that stored it.                      *)
(***************************************************************************)
EXTENDS Integers, FiniteSets, Functions

CONSTANTS
    Board, Root,
    Parent,       \* parent_bb_, a function on Board \ {Root}
    Key,
    Private,      \* the keys that begin with an underscore
    AtKey,        \* a function from the keys "@k" to k
    Remap,        \* internal_to_external_ of each board
    AutoRemap,    \* boards with autoremapping_
    InitialKeys,  \* of the root: the int ports its nodes declare; of the others:
                  \* the ports of the SubTree with a constant value
    Thread,
    Ops,          \* what each thread does
    Ports,        \* the board and key of every operation
    Watched,      \* the board and key an EntryUpdated node looks at
    MaxWrites     \* bound: writes and declarations ever begun

\* Every board is below the root; only a board with a parent remaps.
ASSUME BoardsAssumption ==
    /\ Root \in Board /\ Parent \in [Board \ {Root} -> Board]
    /\ \A S \in SUBSET (Board \ {Root}) : S # {} => \E b \in S : Parent[b] \notin S
    /\ AutoRemap \subseteq Board \ {Root}
    /\ IsFiniteSet(Board)

\* A key has one "@" at most: createEntry() refuses more.
ASSUME KeysAssumption ==
    /\ IsFiniteSet(Key) /\ Key # {} /\ Private \subseteq Key
    /\ DOMAIN AtKey \subseteq Key /\ Range(AtKey) \subseteq Key \ DOMAIN AtKey
    /\ \A b \in Board : DOMAIN Remap[b] \subseteq Key /\ Range(Remap[b]) \subseteq Key
    /\ InitialKeys \in [Board -> SUBSET Key]

ASSUME CallsAssumption ==
    /\ IsFiniteSet(Thread) /\ "free" \notin Thread
    /\ Ports \subseteq [board : Board, key : Key]
    /\ Watched \in [board : Board, key : Key]
    /\ MaxWrites \in Nat

VARIABLES
    storage,     \* storage_ of each board; 0 where there is no entry
    entry,       \* the entries
    created, writes,
    bbLock,      \* mutex_ of each board
    entryLock,   \* entry_mutex of each entry
    thread,      \* where each thread is, and the operation it executes
    held,        \* the entry a thread has locked with an AnyPtrLocked, or 0
    seen,        \* sequence_id_ of the EntryUpdated in each thread and, for the
                 \* properties, the entry it was of and its value
    erased,      \* history: the entries unset() took out of a board
    raced        \* history: the entries two writes of which counted as one

dataVars == <<storage, entry, created, writes>>
vars == <<dataVars, bbLock, entryLock, thread, held, seen, erased, raced>>

\* The places of the entries that are there when the tree is built.
InitialPlaces == {place \in Board \X Key : place[2] \in InitialKeys[place[1]]}

\* At most one entry is created by each write and declaration.
MaxEntries == MaxWrites + Cardinality(InitialPlaces)
Id == 1 .. MaxEntries
Type == {"int", "string"}
NoEntry == [info |-> "any", type |-> "none", value |-> 0, seq |-> 0]
DeclaredPort == [NoEntry EXCEPT !.info = "int"]
Constant == [NoEntry EXCEPT !.type = "string", !.seq = 1]
Rest == [pc |-> "rest", board |-> Root, key |-> CHOOSE k \in Key : TRUE,
         type |-> "int", id |-> 0, seq |-> 0, value |-> 0]

TypeOK ==
    /\ storage \in [Board -> [Key -> 0 .. MaxEntries]]
    /\ entry \in [Id -> [info : Type \cup {"any"}, type : Type \cup {"none"},
                         value : 0 .. MaxWrites, seq : Nat]]
    /\ created \in 0 .. MaxEntries /\ writes \in 0 .. MaxWrites
    /\ bbLock \in [Board -> Thread \cup {"free"}]
    /\ entryLock \in [Id -> Thread \cup {"free"}]
    /\ thread \in [Thread ->
          [pc : {"rest", "set", "update", "create", "write", "count", "find", "declare",
                 "found", "assign", "convert", "lock", "check"},
           board : Board, key : Key, type : Type, id : 0 .. MaxEntries, seq : Nat,
           value : 0 .. MaxWrites]]
    /\ \A t \in Thread :
         thread[t].pc \in {"update", "write", "count", "assign", "convert", "lock", "check"}
            => thread[t].id # 0
    /\ held \in [Thread -> 0 .. MaxEntries]
    /\ seen \in [Thread -> [id : 0 .. MaxEntries, seq : Nat, value : 0 .. MaxWrites]]
    /\ erased \subseteq Id /\ raced \subseteq Id

-------------------------------------------------------------------------------
(* Where a key leads.  getEntry() follows "@" at every board, while        *)
(* createEntryImpl() takes a remapped "@k" as it is.                       *)

Place == [board : Board, key : Key]

\* "@k" is sent to the root board, by set() and createEntry() too.
Start(place) ==
    IF place.key \in DOMAIN AtKey
    THEN [board |-> Root, key |-> AtKey[place.key]]
    ELSE place

\* A place without an entry that stands for one of the parent's board.
GoesUp(place) ==
    /\ storage[place.board][place.key] = 0
    /\ \/ place.board # Root /\ place.key \in DOMAIN Remap[place.board]
       \/ place.board \in AutoRemap /\ place.key \notin Private

Up(place) ==
    [board |-> Parent[place.board],
     key   |-> IF place.key \in DOMAIN Remap[place.board]
               THEN Remap[place.board][place.key] ELSE place.key]

\* The place where a search ends, and the boards whose mutexes it takes.
Target(follow) ==
    LET end[place \in Place] ==
            IF follow /\ place.key \in DOMAIN AtKey THEN end[Start(place)]
            ELSE IF GoesUp(place)
            THEN [end[Up(place)] EXCEPT !.locks = @ \cup {place.board}]
            ELSE [locks |-> {place.board}, board |-> place.board, key |-> place.key]
    IN  end

\* Mutant of Home: the remapping is forgotten.
HomeHere(b, k) == [locks |-> {b}, board |-> b, key |-> k]

Find(b, k) == Target(TRUE)[[board |-> b, key |-> k]]
Home(b, k) == Target(FALSE)[[board |-> b, key |-> k]]
IdAt(target) == storage[target.board][target.key]

Unlocked(boards) == \A b \in boards : bbLock[b] = "free"

-------------------------------------------------------------------------------
(* Building the boards: XMLParser declares the ports of the nodes and sets *)
(* the constant values of a SubTree while autoremapping is off.            *)

Init ==
    /\ created = Cardinality(InitialPlaces) /\ writes = 0
    /\ storage \in [Board -> [Key -> 0 .. created]]
    /\ \A b \in Board, k \in Key :
         storage[b][k] # 0 <=> k \in InitialKeys[b]
    /\ \A b, c \in Board, k, l \in Key :
         storage[b][k] = storage[c][l] /\ storage[b][k] # 0 => <<b, k>> = <<c, l>>
    /\ \A b \in Board \ {Root}, k, l \in Key :
         storage[b][k] # 0 => storage[Root][l] < storage[b][k]
    /\ entry = [i \in Id |-> IF \E k \in Key : storage[Root][k] = i THEN DeclaredPort
                            ELSE IF i <= created THEN Constant ELSE NoEntry]
    /\ bbLock = [b \in Board |-> "free"] /\ entryLock = [i \in Id |-> "free"]
    /\ thread = [t \in Thread |-> Rest] /\ held = [t \in Thread |-> 0]
    /\ seen = [t \in Thread |-> [id |-> 0, seq |-> 0, value |-> 0]]
    /\ erased = {} /\ raced = {}

-------------------------------------------------------------------------------
At(t, pc) == thread[t].pc = pc
Go(t, pc) == thread' = [thread EXCEPT ![t].pc = pc]
End(t) == thread' = [thread EXCEPT ![t] = Rest]

\* entry i gets the value of thread t, under its mutex.
Store(t, i, info, type) ==
    entry' = [entry EXCEPT ![i] = [info |-> info, type |-> type,
                                   value |-> thread[t].value, seq |-> @.seq + 1]]

\* createEntryImpl() returns the entry that is there, or a new one with the
\* given type.  It refuses another type when both are declared.
Mismatch(i, info) ==
    i # 0 /\ info # "any" /\ entry[i].info # "any" /\ entry[i].info # info

\* Mutant of CreateEntry: the second search, under the mutex, is left out.
CreateEntryAlways(target, info) ==
    /\ created' = created + 1
    /\ storage' = [storage EXCEPT ![target.board][target.key] = created']
    /\ entry' = [entry EXCEPT ![created'].info = info]

CreateEntry(target, info) ==
    IF IdAt(target) # 0
    THEN UNCHANGED <<created, storage, entry>>
    ELSE /\ created' = created + 1
         /\ storage' = [storage EXCEPT ![target.board][target.key] = created']
         /\ entry' = [entry EXCEPT ![created'].info = info]

-------------------------------------------------------------------------------
(* Blackboard::set() of an int or a string. *)

\* The call begins.  Who keeps an entry locked, as LoopNode, sets another one.
Set(t) ==
    /\ At(t, "rest") /\ "set" \in Ops[t] /\ writes < MaxWrites
    /\ \E port \in Ports, type \in Type :
         LET b == Start(port).board
             k == Start(port).key
         IN  /\ held[t] # 0 => IdAt(Find(b, k)) # held[t]
             /\ writes' = writes + 1
             /\ thread' = [thread EXCEPT ![t] =
                  [pc |-> "set", board |-> b, key |-> k, type |-> type, id |-> 0,
                   seq |-> 0, value |-> writes']]
    /\ UNCHANGED <<storage, entry, created, bbLock, entryLock, held, seen, erased, raced>>

\* It looks for the key in its own board.  Where there is an entry the mutex of
\* the board is kept while set() waits for that of the entry.
FindLocal(t) ==
    LET b == thread[t].board
        i == storage[b][thread[t].key]
    IN  /\ At(t, "set") /\ Unlocked({b})
        /\ IF i = 0
           THEN Go(t, "create") /\ UNCHANGED bbLock
           ELSE /\ thread' = [thread EXCEPT ![t].pc = "update", ![t].id = i]
                /\ bbLock' = [bbLock EXCEPT ![b] = t]
        /\ UNCHANGED <<dataVars, entryLock, held, seen, erased, raced>>

\* Mutant of Update: the type follows the value.
UpdateRetypes(t) ==
    /\ At(t, "update")
    /\ entryLock[thread[t].id] = "free"
    /\ Store(t, thread[t].id, thread[t].type, thread[t].type)
    /\ bbLock' = [bbLock EXCEPT ![thread[t].board] = "free"]
    /\ End(t)
    /\ UNCHANGED <<storage, created, writes, entryLock, held, seen, erased, raced>>

\* An entry without a declared type takes that of the value.  A string for an int
\* is parsed; an int for a string, a string that is no number, and a value that
\* copyInto() finds to be of another type than the one stored, throw.
Update(t) ==
    LET i == thread[t].id
        type == thread[t].type
        info == entry[i].info
        copied == entry[i].type \in {"none", info}
    IN  /\ At(t, "update") /\ entryLock[i] = "free"
        /\ \/ info = "any" /\ Store(t, i, type, type)
           \/ info = type /\ copied /\ Store(t, i, type, type)
           \/ info = "int" /\ type = "string" /\ copied /\ Store(t, i, "int", "int")
           \/ info # "any" /\ (info # type \/ ~copied) /\ UNCHANGED entry
        /\ bbLock' = [bbLock EXCEPT ![thread[t].board] = "free"]
        /\ End(t)
        /\ UNCHANGED <<storage, created, writes, entryLock, held, seen, erased, raced>>

\* The entry is not there: the mutex is given back and createEntryImpl() looks
\* again, here and in the parents.
Create(t) ==
    LET home == Home(thread[t].board, thread[t].key)
        info == IF thread[t].type = "string" THEN "any" ELSE thread[t].type
    IN  /\ At(t, "create") /\ Unlocked(home.locks)
        /\ IF Mismatch(IdAt(home), info)
           THEN End(t) /\ UNCHANGED <<created, storage, entry>>
           ELSE /\ CreateEntry(home, info)
                /\ thread' = [thread EXCEPT ![t].pc = "write",
                                            ![t].id = storage'[home.board][home.key]]
        /\ UNCHANGED <<writes, bbLock, entryLock, held, seen, erased, raced>>

\* The value is written under the mutex of the board that was asked, not that
\* of the entry; sequence_id++ reads ...
Write(t) ==
    LET i == thread[t].id
    IN  /\ At(t, "write") /\ Unlocked({thread[t].board})
        /\ bbLock' = [bbLock EXCEPT ![thread[t].board] = t]
        /\ entry' = [entry EXCEPT ![i].type = thread[t].type, ![i].value = thread[t].value]
        /\ thread' = [thread EXCEPT ![t].pc = "count", ![t].seq = entry[i].seq]
        /\ UNCHANGED <<storage, created, writes, entryLock, held, seen, erased, raced>>

\* Mutant of Count: the number is not increased.
CountNothing(t) ==
    /\ At(t, "count")
    /\ bbLock' = [bbLock EXCEPT ![thread[t].board] = "free"]
    /\ End(t)
    /\ UNCHANGED <<dataVars, entryLock, held, seen, erased, raced>>

\* ... and writes it; an increment made by another thread meanwhile is lost.
Count(t) ==
    LET i == thread[t].id
    IN  /\ At(t, "count")
        /\ entry' = [entry EXCEPT ![i].seq = thread[t].seq + 1]
        /\ raced' = IF entry[i].seq = thread[t].seq THEN raced ELSE raced \cup {i}
        /\ bbLock' = [bbLock EXCEPT ![thread[t].board] = "free"]
        /\ End(t)
        /\ UNCHANGED <<storage, created, writes, entryLock, held, seen, erased>>

-------------------------------------------------------------------------------
(* The assignment of a script, "key := value". *)

Assign(t) ==
    /\ At(t, "rest") /\ "script" \in Ops[t] /\ held[t] = 0 /\ writes < MaxWrites
    /\ writes' = writes + 1
    /\ \E port \in Ports, type \in Type :
         thread' = [thread EXCEPT ![t] =
           [pc |-> "find", board |-> port.board, key |-> port.key, type |-> type,
            id |-> 0, seq |-> 0, value |-> writes']]
    /\ UNCHANGED <<storage, entry, created, bbLock, entryLock, held, seen, erased, raced>>

\* The application declares a port: a call that writes no value.
CallCreateEntry(t) ==
    /\ At(t, "rest") /\ "declare" \in Ops[t] /\ held[t] = 0 /\ writes < MaxWrites
    /\ writes' = writes + 1
    /\ \E port \in Ports, type \in Type :
         thread' = [thread EXCEPT ![t] =
           [Rest EXCEPT !.pc = "declare", !.board = port.board, !.key = port.key,
                        !.type = type]]
    /\ UNCHANGED <<storage, entry, created, bbLock, entryLock, held, seen, erased, raced>>

\* getEntry(); an entry that was just declared and is not there throws.
FindEntry(t) ==
    LET found == Find(thread[t].board, thread[t].key)
    IN  /\ thread[t].pc \in {"find", "found"} /\ Unlocked(found.locks)
        /\ IF IdAt(found) # 0
           THEN thread' = [thread EXCEPT ![t].pc = "assign", ![t].id = IdAt(found)]
           ELSE IF At(t, "find") THEN Go(t, "declare") ELSE End(t)
        /\ UNCHANGED <<dataVars, bbLock, entryLock, held, seen, erased, raced>>

\* createEntry(), called by the application or by the script.
Declare(t) ==
    LET start == Start([board |-> thread[t].board, key |-> thread[t].key])
        home == Home(start.board, start.key)
        forScript == thread[t].value # 0
        info == IF forScript THEN "any" ELSE thread[t].type
    IN  /\ At(t, "declare") /\ Unlocked(home.locks)
        /\ IF Mismatch(IdAt(home), info) THEN UNCHANGED <<created, storage, entry>>
                                         ELSE CreateEntry(home, info)
        /\ IF forScript THEN Go(t, "found") ELSE End(t)
        /\ UNCHANGED <<writes, bbLock, entryLock, held, seen, erased, raced>>

\* Under the mutex of the entry: what can be copied is copied, a string for
\* something else goes on to look for the converter, the rest throws.
AssignValue(t) ==
    LET i == thread[t].id
        type == thread[t].type
        e == entry[i]
        first == e.type = "none" /\ e.info = "any"
        convert == ~first /\ type = "string" /\ e.type # "string"
    IN  /\ At(t, "assign") /\ entryLock[i] = "free"
        /\ IF convert
           THEN /\ entryLock' = [entryLock EXCEPT ![i] = t] /\ Go(t, "convert")
                /\ UNCHANGED entry
           ELSE /\ IF e.type \in {"none", type} THEN Store(t, i, e.info, type)
                                                ELSE UNCHANGED entry
                /\ End(t) /\ UNCHANGED entryLock
        /\ UNCHANGED <<storage, created, writes, bbLock, held, seen, erased, raced>>

\* Mutant of Convert: the converter that throws leaves the mutex locked.
ConvertKeepsLock(t) ==
    LET i == thread[t].id
        found == Find(thread[t].board, thread[t].key)
    IN  /\ At(t, "convert") /\ Unlocked(found.locks)
        /\ \/ /\ Store(t, i, entry[i].info, "int")
              /\ entryLock' = [entryLock EXCEPT ![i] = "free"]
           \/ UNCHANGED <<entry, entryLock>>
        /\ End(t)
        /\ UNCHANGED <<storage, created, writes, bbLock, held, seen, erased, raced>>

\* entryInfo() takes the mutexes of the boards while that of the entry is held.
Convert(t) ==
    LET i == thread[t].id
        found == Find(thread[t].board, thread[t].key)
    IN  /\ At(t, "convert") /\ Unlocked(found.locks)
        /\ Store(t, i, entry[i].info, "int") \/ UNCHANGED entry
        /\ entryLock' = [entryLock EXCEPT ![i] = "free"]
        /\ End(t)
        /\ UNCHANGED <<storage, created, writes, bbLock, held, seen, erased, raced>>

-------------------------------------------------------------------------------
(* getAnyLocked(), as in LoopNode, which sets another port meanwhile. *)

GetAnyLocked(t) ==
    /\ "lock" \in Ops[t] /\ held[t] = 0
    /\ \/ /\ At(t, "rest")
          /\ \E port \in Ports :
               LET found == Find(port.board, port.key)
               IN  /\ Unlocked(found.locks) /\ IdAt(found) # 0
                   /\ thread' = [thread EXCEPT ![t].pc = "lock", ![t].id = IdAt(found)]
          /\ UNCHANGED <<entryLock, held>>
       \/ /\ At(t, "lock") /\ entryLock[thread[t].id] = "free"
          /\ entryLock' = [entryLock EXCEPT ![thread[t].id] = t]
          /\ held' = [held EXCEPT ![t] = thread[t].id]
          /\ End(t)
    /\ UNCHANGED <<dataVars, bbLock, seen, erased, raced>>

Release(t) ==
    /\ At(t, "rest") /\ held[t] # 0
    /\ entryLock' = [entryLock EXCEPT ![held[t]] = "free"]
    /\ held' = [held EXCEPT ![t] = 0]
    /\ UNCHANGED <<dataVars, bbLock, thread, seen, erased, raced>>

\* EntryUpdatedAction::tick(): SUCCESS if the number is not the one it has seen.
CheckUpdated(t) ==
    /\ "check" \in Ops[t] /\ held[t] = 0
    /\ \/ /\ At(t, "rest")
          /\ LET found == Find(Watched.board, Watched.key)
             IN  /\ Unlocked(found.locks) /\ IdAt(found) # 0
                 /\ thread' = [thread EXCEPT ![t].pc = "check", ![t].id = IdAt(found)]
          /\ UNCHANGED seen
       \/ /\ At(t, "check") /\ entryLock[thread[t].id] = "free"
          /\ LET e == entry[thread[t].id]
             IN  seen' = [seen EXCEPT ![t] =
                            [id |-> thread[t].id, seq |-> e.seq, value |-> e.value]]
          /\ End(t)
    /\ UNCHANGED <<dataVars, bbLock, entryLock, held, erased, raced>>

\* unset() looks at one board only.
Unset(t) ==
    /\ At(t, "rest") /\ "unset" \in Ops[t] /\ held[t] = 0
    /\ \E port \in Ports :
         /\ Unlocked({port.board}) /\ storage[port.board][port.key] # 0
         /\ storage' = [storage EXCEPT ![port.board][port.key] = 0]
         /\ erased' = erased \cup {storage[port.board][port.key]}
    /\ UNCHANGED <<entry, created, writes, bbLock, entryLock, thread, held, seen, raced>>

-------------------------------------------------------------------------------
SetStep(t) == FindLocal(t) \/ Update(t) \/ Create(t) \/ Write(t) \/ Count(t)
ScriptStep(t) == FindEntry(t) \/ Declare(t) \/ AssignValue(t) \/ Convert(t)
Continue(t) ==
    \/ SetStep(t) \/ ScriptStep(t) \/ Release(t)
    \/ ~At(t, "rest") /\ (GetAnyLocked(t) \/ CheckUpdated(t))

Next == \E t \in Thread :
    \/ Set(t) \/ Assign(t) \/ CallCreateEntry(t) \/ GetAnyLocked(t) \/ CheckUpdated(t) \/ Unset(t)
    \/ SetStep(t) \/ ScriptStep(t) \/ Release(t)

\* A call that was begun goes on, and an AnyPtrLocked is destroyed.
Fairness == \A t \in Thread : SF_vars(Continue(t))

Spec == Init /\ [][Next]_vars
FairSpec == Spec /\ Fairness

-------------------------------------------------------------------------------
(* Properties. *)

\* A subtree keeps to itself only what its remapping leaves to it: constants,
\* private keys and, without autoremapping, the keys nobody remapped.
RemappingKept ==
    \A b \in Board \ {Root}, k \in Key :
        storage[b][k] # 0 =>
            \/ k \in InitialKeys[b]
            \/ k \notin DOMAIN Remap[b] /\ (b \in AutoRemap => k \in Private)

\* The entry set() writes is the one a get() of the same key finds, whoever else
\* creates that key meanwhile, unless it was unset.
WrittenIsFound ==
    \A t \in Thread :
        At(t, "count") =>
            \/ IdAt(Find(thread[t].board, thread[t].key)) = thread[t].id
            \/ thread[t].id \in erased

\* "Once declared, the type of a port shall not change".
DeclaredTypeKept ==
    [][\A i \in 1 .. created : entry[i].info # "any" => entry'[i].info = entry[i].info]_vars

\* EntryUpdated misses no change: when the number it has seen is that of the
\* entry it finds, and nobody is in the middle of a write, the value is the one it
\* has seen.  Two things void this.  A key that is unset and set again has a new
\* entry, which counts from the start (only the number is remembered); and set()
\* increments a new entry's number without its mutex, so that an increment of
\* another thread may be lost.
NoChangeMissed ==
    LET i == IdAt(Find(Watched.board, Watched.key))
    IN  \A t \in Thread :
          /\ seen[t].id # 0 /\ seen[t].id \notin erased /\ i \notin raced
          /\ seen[t].seq = entry[i].seq
          /\ \A w \in Thread : ~(At(w, "count") /\ thread[w].id = i)
          => seen[t].value = entry[i].value

\* The boards whose mutexes a thread asks for.
Asks(t) ==
    LET b == thread[t].board
        k == thread[t].key
        start == Start([board |-> b, key |-> k])
    IN  CASE thread[t].pc \in {"set", "write"} -> {b}
          [] thread[t].pc = "create" -> Home(b, k).locks
          [] thread[t].pc = "declare" -> Home(start.board, start.key).locks
          [] thread[t].pc \in {"find", "found", "convert"} -> Find(b, k).locks
          [] OTHER -> {}

\* The two orders of locking meet: set() keeps the mutex of a board and waits for
\* that of an entry, which belongs to a thread that asks for the board: a script
\* that looks for a converter, or a node that sets a port while it keeps another
\* locked.
LockInversion ==
    \E t, u \in Thread :
        At(t, "update") /\ entryLock[thread[t].id] = u /\ thread[t].board \in Asks(u)

\* This is the only way in which a call does not return.
CallsReturn == \A t \in Thread : ~At(t, "rest") ~> At(t, "rest") \/ LockInversion

===============================================================================
