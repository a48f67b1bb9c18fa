--------------------------- MODULE BlackboardProofs ---------------------------
(***************************************************************************)
(* Proofs about Blackboard, for every tree of boards, remapping and number *)
(* of threads.                                                             *)
(***************************************************************************)
EXTENDS Blackboard, FiniteSetTheorems, TLAPS

-------------------------------------------------------------------------------
(* The recursion of Target is one along a chain of places: where every     *)
(* nonempty set has an element whose successor is outside, the recursive   *)
(* function exists.                                                        *)

\* f is defined by recursion along nx, which ends outside M.
AlongChain(f, S, M, nx, base, h) ==
    \A x \in S : f[x] = IF x \in M THEN h[<<x, f[nx[x]]>>] ELSE base[x]

\* The function exists.
LEMMA ChainFunction ==
    ASSUME NEW S, NEW D, NEW M \in SUBSET S, NEW nx \in [S -> S], NEW base \in [S -> D],
           NEW h \in [S \X D -> D],
           \A T \in SUBSET S : T # {} => \E x \in T : x \notin M \/ nx[x] \notin T
    PROVE  \E f \in [S -> D] : AlongChain(f, S, M, nx, base, h)
<1>. DEFINE Closed(R) ==
         /\ \A x \in S : x \notin M => <<x, base[x]>> \in R
         /\ \A x \in M : \A d \in D : <<nx[x], d>> \in R => <<x, h[<<x, d>>]>> \in R
       L == {p \in S \X D : \A R \in SUBSET (S \X D) : Closed(R) => p \in R}
<1>1. Closed(L) /\ L \in SUBSET (S \X D)
  <2>1. ASSUME NEW x \in S, x \notin M PROVE <<x, base[x]>> \in L
    BY <2>1
  <2>2. ASSUME NEW x \in M, NEW d \in D, <<nx[x], d>> \in L
        PROVE  <<x, h[<<x, d>>]>> \in L
    <3>1. <<x, h[<<x, d>>]>> \in S \X D
      OBVIOUS
    <3>2. ASSUME NEW R \in SUBSET (S \X D), Closed(R) PROVE <<x, h[<<x, d>>]>> \in R
      BY <2>2, <3>2
    <3>. QED
      BY <3>1, <3>2
  <2>. QED
    BY <2>1, <2>2
<1>2. \A R \in SUBSET (S \X D) : Closed(R) => L \subseteq R
  OBVIOUS
<1>. HIDE DEF L
<1>3. \A x \in S : \E d \in D : <<x, d>> \in L
  <2>. DEFINE T == {x \in S : ~ \E d \in D : <<x, d>> \in L}
  <2>. SUFFICES ASSUME T # {} PROVE FALSE
    OBVIOUS
  <2>1. PICK x \in T : x \notin M \/ nx[x] \notin T
    <3>1. T \in SUBSET S
      OBVIOUS
    <3>. QED
      BY <3>1
  <2>. QED
    BY <1>1, <2>1
<1>4. \A x \in S : \A d, e \in D : <<x, d>> \in L /\ <<x, e>> \in L => d = e
  <2>. DEFINE T == {x \in S : \E d, e \in D : <<x, d>> \in L /\ <<x, e>> \in L /\ d # e}
  <2>. SUFFICES ASSUME T # {} PROVE FALSE
    OBVIOUS
  <2>1. PICK x \in T : x \notin M \/ nx[x] \notin T
    <3>1. T \in SUBSET S
      OBVIOUS
    <3>. QED
      BY <3>1
  <2>2. \E v : /\ x \notin M => v = base[x]
               /\ x \in M => \A d \in D : <<nx[x], d>> \in L => v = h[<<x, d>>]
    <3>1. CASE x \notin M
      BY <3>1
    <3>2. CASE x \in M
      <4>1. PICK e \in D : <<nx[x], e>> \in L
        BY <1>3, <3>2
      <4>2. \A d \in D : <<nx[x], d>> \in L => d = e
        BY <2>1, <3>2, <4>1
      <4>. QED
        BY <3>2, <4>2
    <3>. QED
      BY <3>1, <3>2
  <2>3. PICK v : /\ x \notin M => v = base[x]
                 /\ x \in M => \A d \in D : <<nx[x], d>> \in L => v = h[<<x, d>>]
    BY <2>2
  <2>4. ASSUME NEW d \in D, <<x, d>> \in L, d # v
        PROVE  FALSE
    <3>. DEFINE R == L \ {<<x, d>>}
    <3>1. R \in SUBSET (S \X D)
      BY <1>1
    <3>2. ASSUME NEW y \in S, y \notin M PROVE <<y, base[y]>> \in R
      BY <1>1, <2>3, <2>4, <3>2
    <3>3. ASSUME NEW y \in M, NEW e \in D, <<nx[y], e>> \in R
          PROVE  <<y, h[<<y, e>>]>> \in R
      BY <1>1, <2>3, <2>4, <3>3
    <3>4. Closed(R)
      BY <3>2, <3>3
    <3>. QED
      BY <1>2, <2>4, <3>1, <3>4
  <2>. QED
    BY <2>1, <2>4
<1>. DEFINE f == [x \in S |-> CHOOSE d \in D : <<x, d>> \in L]
<1>5. f \in [S -> D] /\ \A x \in S : <<x, f[x]>> \in L
  BY <1>3
<1>. HIDE DEF f
<1>6. ASSUME NEW x \in S
      PROVE  f[x] = IF x \in M THEN h[<<x, f[nx[x]]>>] ELSE base[x]
  <2>1. CASE x \in M
    <3>1. nx[x] \in S /\ f[nx[x]] \in D /\ h[<<x, f[nx[x]]>>] \in D
      BY <1>5
    <3>2. <<x, h[<<x, f[nx[x]]>>]>> \in L
      BY <1>1, <1>5, <2>1, <3>1
    <3>. QED
      BY <1>4, <1>5, <2>1, <3>1, <3>2
  <2>2. CASE x \notin M
    BY <1>1, <1>4, <1>5, <2>2
  <2>. QED
    BY <2>1, <2>2
<1>. QED
  BY <1>5, <1>6 DEF AlongChain

-------------------------------------------------------------------------------
Ended(place) == [locks |-> {place.board}, board |-> place.board, key |-> place.key]
Ends == [locks : SUBSET Board, board : Board, key : Key]

\* One step of the search that Target repeats.
Follows(follow, place) == follow /\ place.key \in DOMAIN AtKey
Goes(follow, place) == Follows(follow, place) \/ GoesUp(place)
Through(follow, place) == IF Follows(follow, place) THEN Start(place) ELSE Up(place)
Adds(follow, place, end) ==
    IF Follows(follow, place) THEN end ELSE [end EXCEPT !.locks = @ \cup {place.board}]

\* The place with the root's key that "@k" stands for is a place.
LEMMA StartIsPlace ==
    \A place \in Place : Start(place) \in Place /\ Start(place).key \notin DOMAIN AtKey
BY BoardsAssumption, KeysAssumption DEF Place, Start, Range

\* The place of the parent is a place, and the root board has none.
LEMMA UpIsPlace ==
    \A place \in Place : GoesUp(place) => Up(place) \in Place /\ place.board # Root
BY BoardsAssumption, KeysAssumption DEF Place, Up, GoesUp, Range

\* A search ends: no set of places is closed under its steps.
LEMMA SearchEnds ==
    ASSUME NEW follow \in BOOLEAN, NEW T \in SUBSET Place, T # {}
    PROVE  \E place \in T : Goes(follow, place) => Through(follow, place) \notin T
<1>. SUFFICES ASSUME \A place \in T : Goes(follow, place) /\ Through(follow, place) \in T
              PROVE  FALSE
  OBVIOUS
<1>1. \A place \in T : ~Follows(follow, place)
  <2>. SUFFICES ASSUME NEW place \in T, Follows(follow, place) PROVE FALSE
    OBVIOUS
  <2>1. /\ Start(place) \in T /\ Start(place).board = Root
        /\ Start(place).key \notin DOMAIN AtKey
    BY StartIsPlace DEF Through, Follows, Start
  <2>. QED
    BY <2>1, UpIsPlace DEF Goes, Follows
<1>. DEFINE S == {place.board : place \in T}
<1>2. S \in SUBSET (Board \ {Root}) /\ S # {}
  BY <1>1, UpIsPlace DEF Goes, Place
<1>3. PICK b \in S : Parent[b] \notin S
  BY <1>2, BoardsAssumption
<1>4. PICK place \in T : place.board = b
  BY <1>3
<1>5. Up(place) \in T /\ Up(place).board = Parent[b]
  BY <1>1, <1>4 DEF Through, Up
<1>. QED
  BY <1>3, <1>5

\* Target is the recursive function its definition describes.
TargetIsSearch ==
    \A follow \in BOOLEAN :
      /\ Target(follow) \in [Place -> Ends]
      /\ \A place \in Place :
           Target(follow)[place] =
             IF Goes(follow, place)
             THEN Adds(follow, place, Target(follow)[Through(follow, place)])
             ELSE Ended(place)

\* In every state.
LEMMA TargetEquation == TargetIsSearch
<1>. SUFFICES
       ASSUME NEW follow \in BOOLEAN
       PROVE  /\ Target(follow) \in [Place -> Ends]
              /\ \A place \in Place :
                   Target(follow)[place] =
                     IF Goes(follow, place)
                     THEN Adds(follow, place, Target(follow)[Through(follow, place)])
                     ELSE Ended(place)
  BY DEF TargetIsSearch
<1>. DEFINE
       Def(f) == [place \in Place |->
                    IF follow /\ place.key \in DOMAIN AtKey THEN f[Start(place)]
                    ELSE IF GoesUp(place)
                    THEN [f[Up(place)] EXCEPT !.locks = @ \cup {place.board}]
                    ELSE [locks |-> {place.board}, board |-> place.board, key |-> place.key]]
       M == {place \in Place : Goes(follow, place)}
       nx == [place \in Place |-> IF place \in M THEN Through(follow, place) ELSE place]
       base == [place \in Place |-> Ended(place)]
       h == [p \in Place \X Ends |-> Adds(follow, p[1], p[2])]
<1>1. nx \in [Place -> Place]
  BY StartIsPlace, UpIsPlace DEF Goes, Through
<1>2. base \in [Place -> Ends]
  BY DEF Ended, Ends, Place
<1>3. h \in [Place \X Ends -> Ends]
  <2>1. \A place \in Place, end \in Ends : Adds(follow, place, end) \in Ends
    BY DEF Adds, Ends, Place
  <2>. QED
    BY <2>1
<1>4. \A T \in SUBSET Place : T # {} => \E place \in T : place \notin M \/ nx[place] \notin T
  <2>. SUFFICES ASSUME NEW T \in SUBSET Place, T # {}
                PROVE  \E place \in T : place \notin M \/ nx[place] \notin T
    OBVIOUS
  <2>1. PICK place \in T : Goes(follow, place) => Through(follow, place) \notin T
    BY SearchEnds
  <2>. QED
    BY <2>1
<1>5. PICK f \in [Place -> Ends] : AlongChain(f, Place, M, nx, base, h)
  <2>. HIDE DEF M, nx, base, h
  <2>1. M \in SUBSET Place
    BY DEF M
  <2>. QED
    BY <1>1, <1>2, <1>3, <1>4, <2>1, ChainFunction
<1>6. f = Def(f)
  <2>1. \A place \in Place :
          f[place] = IF Goes(follow, place) THEN Adds(follow, place, f[Through(follow, place)])
                     ELSE Ended(place)
    BY <1>1, <1>5 DEF AlongChain
  <2>2. \A place \in Place : f[place] = Def(f)[place]
    BY <2>1 DEF Goes, Through, Adds, Follows, Ended
  <2>. QED
    BY <2>2
<1>7. Target(follow) = Def(Target(follow))
  <2>1. Target(follow) = CHOOSE g : g = Def(g)
    BY DEF Target
  <2>. HIDE DEF Def, M, nx, base, h
  <2>2. \E g : g = Def(g)
    BY <1>6
  <2>3. (CHOOSE g : g = Def(g)) = Def(CHOOSE g : g = Def(g))
    BY <2>2, Zenon
  <2>. QED
    BY <2>1, <2>3, Zenon
<1>8. \A place \in Place :
        Target(follow)[place] =
          IF Goes(follow, place)
          THEN Adds(follow, place, Target(follow)[Through(follow, place)])
          ELSE Ended(place)
  BY <1>7 DEF Goes, Through, Adds, Follows, Ended
<1>9. \A place \in Place : Target(follow)[place] \in Ends
  <2>. DEFINE T == {place \in Place : Target(follow)[place] \notin Ends}
  <2>. SUFFICES ASSUME T # {} PROVE FALSE
    OBVIOUS
  <2>1. PICK place \in T : Goes(follow, place) => Through(follow, place) \notin T
    BY SearchEnds
  <2>2. CASE Goes(follow, place)
    <3>1. Through(follow, place) \in Place
      BY <2>2, StartIsPlace, UpIsPlace DEF Goes, Through
    <3>2. Target(follow)[Through(follow, place)] \in Ends
      BY <2>1, <2>2, <3>1
    <3>3. Adds(follow, place, Target(follow)[Through(follow, place)]) \in Ends
      BY <3>2 DEF Adds, Ends, Place
    <3>. QED
      BY <1>8, <2>2, <3>3
  <2>3. CASE ~Goes(follow, place)
    <3>1. Ended(place) \in Ends
      BY <1>2
    <3>. QED
      BY <1>8, <2>3, <3>1
  <2>. QED
    BY <2>2, <2>3
<1>. QED
  <2>1. Target(follow) = [place \in Place |-> Target(follow)[place]]
    BY <1>7
  <2>. QED
    BY <1>8, <1>9, <2>1


\* And in the next one.
LEMMA TargetEquationNext == TargetIsSearch'
BY TargetEquation, PTL

\* The place where a search ends.
Spot(end) == [board |-> end.board, key |-> end.key]
Empty(place) == storage[place.board][place.key] = 0

\* A search ends where there is an entry, or where the key is not one of the
\* parent's.
LEMMA EndIsFinal ==
    \A follow \in BOOLEAN, place \in Place :
      /\ Spot(Target(follow)[place]) \in Place
      /\ ~GoesUp(Spot(Target(follow)[place]))
      /\ Target(follow)[place].locks \in SUBSET Board
<1>. SUFFICES ASSUME NEW follow \in BOOLEAN
     PROVE \A place \in Place :
      /\ Spot(Target(follow)[place]) \in Place
      /\ ~GoesUp(Spot(Target(follow)[place]))
      /\ Target(follow)[place].locks \in SUBSET Board
  OBVIOUS
<1>1. \A place \in Place :
        /\ Spot(Target(follow)[place]) \in Place
        /\ Target(follow)[place].locks \in SUBSET Board
  BY TargetEquation DEF TargetIsSearch, Ends, Place, Spot
<1>. DEFINE T == {place \in Place : GoesUp(Spot(Target(follow)[place]))}
<1>. SUFFICES ASSUME T # {} PROVE FALSE
  BY <1>1
<1>2. PICK place \in T : Goes(follow, place) => Through(follow, place) \notin T
  BY SearchEnds
<1>3. CASE Goes(follow, place)
  <2>1. Through(follow, place) \in Place
    BY <1>3, StartIsPlace, UpIsPlace DEF Goes, Through
  <2>2. Target(follow)[Through(follow, place)] \in Ends
    BY <2>1, TargetEquation DEF TargetIsSearch
  <2>3. Spot(Target(follow)[place]) = Spot(Target(follow)[Through(follow, place)])
    BY <1>3, <2>2, TargetEquation DEF TargetIsSearch, Adds, Spot, Ends
  <2>. QED
    BY <1>2, <1>3, <2>1, <2>3
<1>4. CASE ~Goes(follow, place)
  <2>1. Target(follow)[place] = Ended(place) /\ Spot(Ended(place)) = place
    BY <1>4, TargetEquation DEF TargetIsSearch, Ended, Spot, Place
  <2>. QED
    BY <1>2, <1>4, <2>1 DEF Goes
<1>. QED
  BY <1>3, <1>4

\* A search that ends elsewhere does not notice that the entry of place is
\* created or erased; nor does one that ends there, when it is created.
LEMMA SearchKept ==
    ASSUME NEW changed \in Place, ~GoesUp(changed),
           \A place \in Place \ {changed} :
              storage'[place.board][place.key] = storage[place.board][place.key],
           NEW follow \in BOOLEAN, NEW begin \in Place,
           Spot(Target(follow)[begin]) # changed \/ ~GoesUp(changed)'
    PROVE  Target(follow)'[begin] = Target(follow)[begin]
<1>. DEFINE Hit(place) == Spot(Target(follow)[place]) = changed /\ GoesUp(changed)'
            T == {place \in Place : ~Hit(place) /\ Target(follow)'[place] # Target(follow)[place]}
<1>. SUFFICES ASSUME T # {} PROVE FALSE
  OBVIOUS
<1>1. PICK place \in T : Goes(follow, place) => Through(follow, place) \notin T
  BY SearchEnds
<1>2. \A p \in Place : p # changed => GoesUp(p)' = GoesUp(p)
  BY DEF GoesUp
<1>3. CASE Goes(follow, place)
  <2>1. Through(follow, place) \in Place
    BY <1>3, StartIsPlace, UpIsPlace DEF Goes, Through
  <2>2. Target(follow)[Through(follow, place)] \in Ends
    BY <2>1, TargetEquation DEF TargetIsSearch
  <2>3. Spot(Target(follow)[place]) = Spot(Target(follow)[Through(follow, place)])
    BY <1>3, <2>2, TargetEquation DEF TargetIsSearch, Adds, Spot, Ends
  <2>4. Target(follow)'[Through(follow, place)] = Target(follow)[Through(follow, place)]
    BY <1>1, <1>3, <2>1, <2>3
  <2>5. Goes(follow, place)'
    BY <1>2, <1>3 DEF Goes, Follows
  <2>6. Target(follow)'[place] = Adds(follow, place, Target(follow)'[Through(follow, place)])
    BY <2>5, TargetEquationNext DEF TargetIsSearch, Through, Adds, Follows, Start, Up
  <2>. QED
    BY <1>3, <2>4, <2>6, TargetEquation DEF TargetIsSearch
<1>4. CASE ~Goes(follow, place)
  <2>1. Target(follow)[place] = Ended(place) /\ Spot(Ended(place)) = place
    BY <1>4, TargetEquation DEF TargetIsSearch, Ended, Spot, Place
  <2>2. ~Goes(follow, place)'
    BY <1>1, <1>2, <1>4, <2>1 DEF Goes, Follows
  <2>3. Target(follow)'[place] = Ended(place)
    BY <2>2, TargetEquationNext DEF TargetIsSearch, Ended
  <2>. QED
    BY <2>1, <2>3
<1>. QED
  BY <1>3, <1>4

\* No board maps a key to "@k".
PlainRemap == \A b \in Board : Range(Remap[b]) \cap DOMAIN AtKey = {}

\* Then set() creates the entry where get() looks.
LEMMA FindIsHome ==
    PlainRemap =>
      \A place \in Place : place.key \notin DOMAIN AtKey =>
                             Target(TRUE)[place] = Target(FALSE)[place]
<1>. SUFFICES ASSUME PlainRemap
     PROVE \A place \in Place : place.key \notin DOMAIN AtKey =>
                                  Target(TRUE)[place] = Target(FALSE)[place]
  OBVIOUS
<1>. DEFINE T == {place \in Place : /\ place.key \notin DOMAIN AtKey
                                    /\ Target(TRUE)[place] # Target(FALSE)[place]}
<1>. SUFFICES ASSUME T # {} PROVE FALSE
  OBVIOUS
<1>1. PICK place \in T : Goes(TRUE, place) => Through(TRUE, place) \notin T
  BY SearchEnds
<1>2. Goes(TRUE, place) = Goes(FALSE, place)
  BY <1>1 DEF Goes, Follows
<1>3. CASE Goes(TRUE, place)
  <2>1. Up(place) \in Place /\ GoesUp(place)
    BY <1>1, <1>3, UpIsPlace DEF Goes, Follows
  <2>2. Up(place).key \notin DOMAIN AtKey
    BY <1>1, <2>1 DEF Up, PlainRemap, Range, Place
  <2>3. Target(TRUE)[Up(place)] = Target(FALSE)[Up(place)]
    BY <1>1, <1>3, <2>1, <2>2 DEF Through, Follows
  <2>. QED
    BY <1>1, <1>2, <1>3, <2>3, TargetEquation DEF TargetIsSearch, Through, Adds, Follows
<1>4. CASE ~Goes(TRUE, place)
  BY <1>1, <1>2, <1>4, TargetEquation DEF TargetIsSearch
<1>. QED
  BY <1>3, <1>4

\* In the next state too.
LEMMA FindIsHomeNext ==
    (PlainRemap =>
      \A place \in Place : place.key \notin DOMAIN AtKey =>
                             Target(TRUE)[place] = Target(FALSE)[place])'
BY FindIsHome, PTL

-------------------------------------------------------------------------------
(* Types.  A new entry has a number up to MaxEntries, since every call      *)
(* creates one at most: those that may yet do so are counted.              *)

Begun(pc) == IF pc \in {"set", "create", "find", "declare"} THEN 1 ELSE 0
Begins(t) == Begun(thread[t].pc)
Beginning == {t \in Thread : Begins(t) = 1}
Counted ==
    created + Cardinality(Beginning) <= Cardinality(InitialPlaces) + writes

Pcs == {"rest", "set", "update", "create", "write", "count", "find", "declare", "found",
        "assign", "convert", "lock", "check"}
Calls == [pc : Pcs, board : Board, key : Key, type : Type, id : 0 .. MaxEntries,
          seq : Nat, value : 0 .. MaxWrites]
HasId == {"update", "write", "count", "assign", "convert", "lock", "check"}
Entries == [info : Type \cup {"any"}, type : Type \cup {"none"},
            value : 0 .. MaxWrites, seq : Nat]
CallsOK ==
    /\ thread \in [Thread -> Calls]
    /\ \A t \in Thread : thread[t].pc \in HasId => thread[t].id # 0

\* There are finitely many constants.
LEMMA Bounds ==
    /\ IsFiniteSet(InitialPlaces) /\ Cardinality(InitialPlaces) \in Nat
    /\ MaxEntries \in Nat /\ MaxEntries = MaxWrites + Cardinality(InitialPlaces)
    /\ Id = 1 .. MaxEntries /\ MaxWrites \in Nat
<1>1. IsFiniteSet(Board \X Key)
  BY BoardsAssumption, KeysAssumption, FS_Product
<1>2. InitialPlaces \subseteq Board \X Key
  BY DEF InitialPlaces
<1>3. IsFiniteSet(InitialPlaces) /\ Cardinality(InitialPlaces) \in Nat
  BY <1>1, <1>2, FS_Subset, FS_CardinalityType
<1>. QED
  BY <1>3, CallsAssumption DEF MaxEntries, Id

\* The parts of the type invariant.
LEMMA Types ==
    TypeOK <=>
      /\ storage \in [Board -> [Key -> 0 .. MaxEntries]] /\ entry \in [Id -> Entries]
      /\ created \in 0 .. MaxEntries /\ writes \in 0 .. MaxWrites
      /\ bbLock \in [Board -> Thread \cup {"free"}] /\ entryLock \in [Id -> Thread \cup {"free"}]
      /\ CallsOK /\ erased \subseteq Id /\ raced \subseteq Id
      /\ held \in [Thread -> 0 .. MaxEntries]
      /\ seen \in [Thread -> [id : 0 .. MaxEntries, seq : Nat, value : 0 .. MaxWrites]]
BY DEF TypeOK, CallsOK, Calls, Pcs, Entries, HasId

\* In the next state.
LEMMA TypesNext ==
    (TypeOK <=>
      /\ storage \in [Board -> [Key -> 0 .. MaxEntries]] /\ entry \in [Id -> Entries]
      /\ created \in 0 .. MaxEntries /\ writes \in 0 .. MaxWrites
      /\ bbLock \in [Board -> Thread \cup {"free"}] /\ entryLock \in [Id -> Thread \cup {"free"}]
      /\ CallsOK /\ erased \subseteq Id /\ raced \subseteq Id
      /\ held \in [Thread -> 0 .. MaxEntries]
      /\ seen \in [Thread -> [id : 0 .. MaxEntries, seq : Nat, value : 0 .. MaxWrites]])'
BY Types, PTL

\* What a thread that rests has in its record.
LEMMA RestTyped == Rest \in Calls /\ Rest.pc = "rest" /\ Rest.value = 0
<1>1. (CHOOSE k \in Key : TRUE) \in Key
  BY KeysAssumption
<1>. QED
  BY <1>1, Bounds, BoardsAssumption DEF Rest, Calls, Pcs, Type

\* One thread moves: the count follows it.
LEMMA BeginningStep ==
    ASSUME NEW t \in Thread, \A u \in Thread \ {t} : thread'[u] = thread[u]
    PROVE  /\ Cardinality(Beginning) \in Nat /\ Cardinality(Beginning)' \in Nat
           /\ Cardinality(Beginning)' = Cardinality(Beginning) + Begins(t)' - Begins(t)
<1>1. IsFiniteSet(Thread) /\ Beginning \subseteq Thread
  BY CallsAssumption DEF Beginning
<1>2. \A u \in Thread \ {t} : u \in Beginning' <=> u \in Beginning
  BY DEF Beginning, Begins
<1>3. t \in Beginning <=> Begins(t) = 1
  BY DEF Beginning
<1>4. t \in Beginning' <=> Begins(t)' = 1
  BY DEF Beginning
<1>5. Begins(t) \in {0, 1} /\ Begins(t)' \in {0, 1}
  BY DEF Begins, Begun
<1>. DEFINE Rests == Beginning \ {t}
<1>6. IsFiniteSet(Rests) /\ Cardinality(Rests) \in Nat /\ t \notin Rests
  BY <1>1, FS_Subset, FS_CardinalityType
<1>7. Cardinality(Rests \cup {t}) = Cardinality(Rests) + 1
  BY <1>6, FS_AddElement
<1>8. Beginning = IF Begins(t) = 1 THEN Rests \cup {t} ELSE Rests
  BY <1>3
<1>9. Beginning' = IF Begins(t)' = 1 THEN Rests \cup {t} ELSE Rests
  <2>1. \A u : u \in Beginning' => u \in Thread
    BY DEF Beginning
  <2>. QED
    BY <1>1, <1>2, <1>4, <2>1
<1>10. Cardinality(Beginning) = Cardinality(Rests) + Begins(t)
  <2>1. CASE Begins(t) = 1
    <3>1. Beginning = Rests \cup {t}
      BY <1>8, <2>1
    <3>. HIDE DEF Rests
    <3>. QED
      BY <1>7, <2>1, <3>1
  <2>2. CASE Begins(t) = 0
    <3>1. Beginning = Rests
      BY <1>8, <2>2
    <3>. HIDE DEF Rests
    <3>. QED
      BY <1>6, <2>2, <3>1
  <2>. QED
    BY <1>5, <2>1, <2>2
<1>11. Cardinality(Beginning)' = Cardinality(Rests) + Begins(t)'
  BY <1>5, <1>6, <1>7, <1>9
<1>. QED
  BY <1>5, <1>6, <1>10, <1>11

\* Storing a value keeps the types of the entries.
LEMMA StoreTyped ==
    TypeOK =>
      \A t \in Thread, i \in Id, info \in Type \cup {"any"}, type \in Type :
        Store(t, i, info, type) => entry' \in [Id -> Entries]
<1>. SUFFICES ASSUME TypeOK, NEW t \in Thread, NEW i \in Id, NEW info \in Type \cup {"any"},
                     NEW type \in Type, Store(t, i, info, type)
              PROVE  entry' \in [Id -> Entries]
  OBVIOUS
<1>1. entry \in [Id -> Entries] /\ thread[t].value \in 0 .. MaxWrites /\ entry[i].seq + 1 \in Nat
  BY Types DEF CallsOK, Calls, Entries
<1>2. [info |-> info, type |-> type, value |-> thread[t].value, seq |-> entry[i].seq + 1]
        \in Entries
  BY <1>1 DEF Entries
<1>. QED
  BY <1>1, <1>2 DEF Store

\* So does creating an entry while there is room.
LEMMA CreateTyped ==
    TypeOK =>
      \A target \in Ends, info \in Type \cup {"any"} :
        CreateEntry(target, info) /\ created < MaxEntries =>
          /\ storage' \in [Board -> [Key -> 0 .. MaxEntries]]
          /\ entry' \in [Id -> Entries]
          /\ created' \in 0 .. MaxEntries /\ created' \in created .. created + 1
          /\ storage'[target.board][target.key] \in Id
          /\ \A i \in 1 .. created : entry'[i] = entry[i]
<1>. SUFFICES ASSUME TypeOK, NEW target \in Ends, NEW info \in Type \cup {"any"},
                     CreateEntry(target, info), created < MaxEntries
              PROVE  /\ storage' \in [Board -> [Key -> 0 .. MaxEntries]]
                     /\ entry' \in [Id -> Entries]
                     /\ created' \in 0 .. MaxEntries /\ created' \in created .. created + 1
                     /\ storage'[target.board][target.key] \in Id
                     /\ \A i \in 1 .. created : entry'[i] = entry[i]
  OBVIOUS
<1>1. /\ storage \in [Board -> [Key -> 0 .. MaxEntries]] /\ entry \in [Id -> Entries]
      /\ created \in 0 .. MaxEntries /\ target.board \in Board /\ target.key \in Key
  BY Types DEF Ends
<1>2. CASE IdAt(target) # 0
  BY <1>1, <1>2, Bounds DEF CreateEntry, IdAt
<1>3. CASE IdAt(target) = 0
  <2>1. /\ created' = created + 1
        /\ storage' = [storage EXCEPT ![target.board][target.key] = created']
        /\ entry' = [entry EXCEPT ![created'].info = info]
    BY <1>3 DEF CreateEntry
  <2>2. created' \in Id /\ created' \in 0 .. MaxEntries
    BY <1>1, <2>1, Bounds
  <2>3. [entry[created'] EXCEPT !.info = info] \in Entries
    BY <1>1, <2>2 DEF Entries
  <2>4. entry' \in [Id -> Entries]
    BY <1>1, <2>1, <2>2, <2>3
  <2>5. storage' \in [Board -> [Key -> 0 .. MaxEntries]]
    BY <1>1, <2>1, <2>2
  <2>6. storage'[target.board][target.key] = created'
    BY <1>1, <2>1
  <2>7. \A i \in 1 .. created : entry'[i] = entry[i]
    BY <1>1, <2>1, Bounds
  <2>. QED
    BY <1>1, <2>1, <2>2, <2>4, <2>5, <2>6, <2>7
<1>. QED
  BY <1>2, <1>3

BlackboardInv == TypeOK /\ Counted

\* A thread gets another record; what is created was counted before.
LEMMA CallsStep ==
    ASSUME BlackboardInv, NEW t \in Thread, NEW call \in Calls,
           call.pc \in HasId => call.id # 0,
           thread' = [thread EXCEPT ![t] = call]
    PROVE  /\ CallsOK'
           /\ (/\ created' \in Nat /\ writes' \in Nat
               /\ created' + Begun(call.pc) + writes <= created + Begun(thread[t].pc) + writes')
              => Counted'
<1>1. thread \in [Thread -> Calls] /\ \A u \in Thread : thread[u].pc \in HasId => thread[u].id # 0
  BY Types DEF CallsOK, BlackboardInv
<1>2. thread'[t] = call /\ \A u \in Thread \ {t} : thread'[u] = thread[u]
  BY <1>1
<1>3. thread' \in [Thread -> Calls]
  BY <1>1
<1>4. CallsOK'
  BY <1>1, <1>2, <1>3 DEF CallsOK
<1>5. Begins(t) = Begun(thread[t].pc) /\ Begins(t)' = Begun(call.pc)
  BY <1>2 DEF Begins
<1>6. Begun(thread[t].pc) \in {0, 1} /\ Begun(call.pc) \in {0, 1}
  BY DEF Begun
<1>7. created \in Nat /\ writes \in Nat /\ Cardinality(InitialPlaces) \in Nat
  BY Types, Bounds DEF BlackboardInv
<1>8. /\ Cardinality(Beginning) \in Nat /\ Cardinality(Beginning)' \in Nat
      /\ Cardinality(Beginning)' = Cardinality(Beginning) + Begun(call.pc) - Begun(thread[t].pc)
  BY <1>2, <1>5, BeginningStep
<1>9. created + Cardinality(Beginning) <= Cardinality(InitialPlaces) + writes
  BY DEF BlackboardInv, Counted
<1>10. ASSUME created' \in Nat, writes' \in Nat,
              created' + Begun(call.pc) + writes <= created + Begun(thread[t].pc) + writes'
       PROVE  Counted'
  <2>1. created' + Cardinality(Beginning)' <= Cardinality(InitialPlaces) + writes'
    BY <1>6, <1>7, <1>8, <1>9, <1>10
  <2>. QED
    BY <2>1 DEF Counted
<1>. QED
  BY <1>4, <1>10

\* A call ends that creates nothing more.
LEMMA EndStep ==
    ASSUME BlackboardInv, NEW t \in Thread, thread' = [thread EXCEPT ![t] = Rest],
           UNCHANGED <<created, writes>>
    PROVE  CallsOK' /\ Counted'
<1>1. Begun(thread[t].pc) \in {0, 1} /\ Begun(Rest.pc) = 0
  BY RestTyped DEF Begun
<1>2. Rest.pc \notin HasId
  BY RestTyped DEF HasId
<1>3. created \in Nat /\ writes \in Nat
  BY Types, Bounds DEF BlackboardInv
<1>4. /\ created' \in Nat /\ writes' \in Nat
      /\ created' + Begun(Rest.pc) + writes <= created + Begun(thread[t].pc) + writes'
  BY <1>1, <1>3
<1>. QED
  BY <1>2, <1>4, CallsStep, RestTyped

\* No call is begun or ended.
LEMMA CountedStays ==
    Counted /\ UNCHANGED <<created, writes, thread>> => Counted'
BY DEF Counted, Beginning, Begins

\* blackboard.h, set() with an entry.
LEMMA UpdateTyped ==
    ASSUME NEW t \in Thread, BlackboardInv, Update(t)
    PROVE  BlackboardInv'
<1>. USE Bounds DEF BlackboardInv
<1>1. thread[t] \in Calls /\ thread[t].id \in Id
  BY Types DEF CallsOK, Calls, HasId, Update, At
<1>2. entry' \in [Id -> Entries]
  <2>1. thread[t].type \in Type /\ "int" \in Type
    BY <1>1 DEF Calls, Type
  <2>. QED
    BY <1>1, <2>1, StoreTyped, Types DEF Update
<1>3. bbLock' \in [Board -> Thread \cup {"free"}]
  BY <1>1, Types DEF Update, Calls
<1>4. CallsOK' /\ Counted'
  BY EndStep DEF Update, End
<1>5. TypeOK'
  BY <1>2, <1>3, <1>4, Types, TypesNext DEF Update
<1>. QED
  BY <1>4, <1>5

\* A call goes on, at an entry or without one.
LEMMA MoveStep ==
    ASSUME BlackboardInv, NEW t \in Thread, NEW pc \in Pcs, NEW i \in 0 .. MaxEntries,
           pc \in HasId => i # 0,
           thread' = [thread EXCEPT ![t].pc = pc, ![t].id = i]
    PROVE  /\ CallsOK'
           /\ (/\ created' \in Nat /\ writes' \in Nat
               /\ created' + Begun(pc) + writes <= created + Begun(thread[t].pc) + writes')
              => Counted'
<1>. DEFINE call == [thread[t] EXCEPT !.pc = pc, !.id = i]
<1>1. thread \in [Thread -> Calls]
  BY Types DEF BlackboardInv, CallsOK
<1>2. call \in Calls /\ call.pc = pc /\ call.id = i
  BY <1>1 DEF Calls
<1>3. thread' = [thread EXCEPT ![t] = call]
  BY <1>1
<1>. HIDE DEF call
<1>. QED
  BY <1>2, <1>3, CallsStep

\* With the entry it has.
LEMMA GoStep ==
    ASSUME BlackboardInv, NEW t \in Thread, NEW pc \in Pcs,
           pc \in HasId => thread[t].id # 0, Go(t, pc)
    PROVE  /\ CallsOK'
           /\ (/\ created' \in Nat /\ writes' \in Nat
               /\ created' + Begun(pc) + writes <= created + Begun(thread[t].pc) + writes')
              => Counted'
<1>1. thread \in [Thread -> Calls]
  BY Types DEF BlackboardInv, CallsOK
<1>2. thread[t].id \in 0 .. MaxEntries
  BY <1>1 DEF Calls
<1>3. thread' = [thread EXCEPT ![t].pc = pc, ![t].id = thread[t].id]
  BY <1>1 DEF Go, Calls
<1>. QED
  BY <1>2, <1>3, MoveStep

\* Where a call would create its entry.
LEMMA CallPlaces ==
    BlackboardInv =>
      \A t \in Thread :
        /\ [board |-> thread[t].board, key |-> thread[t].key] \in Place
        /\ Home(thread[t].board, thread[t].key) \in Ends
        /\ Find(thread[t].board, thread[t].key) \in Ends
        /\ LET start == Start([board |-> thread[t].board, key |-> thread[t].key])
           IN  Home(start.board, start.key) \in Ends
<1>1. \A place \in Place :
        /\ Home(place.board, place.key) \in Ends /\ Find(place.board, place.key) \in Ends
  BY TargetEquation DEF TargetIsSearch, Home, Find, Place
<1>. SUFFICES ASSUME BlackboardInv, NEW t \in Thread
     PROVE /\ [board |-> thread[t].board, key |-> thread[t].key] \in Place
           /\ Home(thread[t].board, thread[t].key) \in Ends
           /\ Find(thread[t].board, thread[t].key) \in Ends
           /\ LET start == Start([board |-> thread[t].board, key |-> thread[t].key])
              IN  Home(start.board, start.key) \in Ends
  OBVIOUS
<1>2. thread[t].board \in Board /\ thread[t].key \in Key
  BY Types DEF BlackboardInv, CallsOK, Calls
<1>3. Start([board |-> thread[t].board, key |-> thread[t].key]) \in Place
  BY <1>2, StartIsPlace DEF Place
<1>. QED
  BY <1>1, <1>2, <1>3 DEF Place

\* There is room for the entry of a call that may create one.
LEMMA RoomLeft ==
    ASSUME BlackboardInv, NEW t \in Thread, thread[t].pc \in {"create", "declare"}
    PROVE  created < MaxEntries
<1>1. Begins(t) = 1 /\ t \in Beginning
  BY DEF Begins, Begun, Beginning
<1>2. IsFiniteSet(Beginning) /\ Cardinality(Beginning) \in Nat
  <2>1. IsFiniteSet(Thread) /\ Beginning \subseteq Thread
    BY CallsAssumption DEF Beginning
  <2>. QED
    BY <2>1, FS_Subset, FS_CardinalityType
<1>3. Cardinality(Beginning) # 0
  BY <1>1, <1>2, FS_EmptySet
<1>4. /\ created \in Nat /\ writes \in 0 .. MaxWrites
      /\ created + Cardinality(Beginning) <= Cardinality(InitialPlaces) + writes
  BY Types, Bounds DEF BlackboardInv, Counted
<1>. QED
  BY <1>2, <1>3, <1>4, Bounds

\* blackboard.h, set() without an entry; blackboard.cpp, createEntryImpl().
LEMMA CreateStep ==
    ASSUME NEW t \in Thread, BlackboardInv, Create(t)
    PROVE  BlackboardInv'
<1>. USE Bounds DEF BlackboardInv
<1>. DEFINE home == Home(thread[t].board, thread[t].key)
            info == IF thread[t].type = "string" THEN "any" ELSE thread[t].type
<1>1. home \in Ends /\ created < MaxEntries
  BY CallPlaces, RoomLeft DEF Create, At
<1>2. info \in Type \cup {"any"}
  BY Types DEF CallsOK, Calls
<1>3. CASE End(t) /\ UNCHANGED <<created, storage, entry>>
  <2>1. CallsOK' /\ Counted'
    BY <1>3, EndStep DEF End, Create
  <2>. QED
    BY <1>3, <2>1, Types, TypesNext DEF Create
<1>4. CASE /\ CreateEntry(home, info)
           /\ thread' = [thread EXCEPT ![t].pc = "write",
                                       ![t].id = storage'[home.board][home.key]]
  <2>. HIDE DEF home, info
  <2>1. /\ storage' \in [Board -> [Key -> 0 .. MaxEntries]] /\ entry' \in [Id -> Entries]
        /\ created' \in 0 .. MaxEntries /\ created' \in created .. created + 1
        /\ storage'[home.board][home.key] \in Id
    BY <1>1, <1>2, <1>4, CreateTyped
  <2>2. "write" \in Pcs /\ Begun("write") = 0 /\ Begun(thread[t].pc) = 1
    BY DEF Pcs, Begun, Create, At
  <2>3. created \in Nat /\ writes \in Nat /\ writes' = writes
    BY Types DEF Create
  <2>4. created' + Begun("write") + writes <= created + Begun(thread[t].pc) + writes'
    BY <2>1, <2>2, <2>3
  <2>. DEFINE i == storage'[home.board][home.key]
  <2>5. i \in 0 .. MaxEntries /\ i # 0 /\ created' \in Nat /\ writes' \in Nat
    BY <2>1, <2>3
  <2>6. CallsOK' /\ Counted'
    <3>1. thread' = [thread EXCEPT ![t].pc = "write", ![t].id = i]
      BY <1>4
    <3>. HIDE DEF i
    <3>. QED
      BY <2>2, <2>4, <2>5, <3>1, MoveStep
  <2>. QED
    BY <2>1, <2>6, Types, TypesNext DEF Create
<1>. QED
  BY <1>3, <1>4 DEF Create

\* blackboard.h, set(): the value of a new entry.
LEMMA WriteTyped ==
    ASSUME NEW t \in Thread, BlackboardInv, Write(t)
    PROVE  BlackboardInv'
<1>. USE Bounds DEF BlackboardInv
<1>1. thread[t] \in Calls /\ thread[t].id \in Id /\ entry \in [Id -> Entries]
      /\ thread \in [Thread -> Calls]
  BY Types DEF CallsOK, Calls, HasId, Write, At
<1>. DEFINE call == [thread[t] EXCEPT !.pc = "count", !.seq = entry[thread[t].id].seq]
<1>2. call \in Calls /\ call.pc = "count" /\ call.id # 0
  <2>1. entry[thread[t].id].seq \in Nat /\ thread[t].id # 0
    BY <1>1 DEF Entries
  <2>2. call.id = thread[t].id /\ call.pc = "count"
    BY <1>1 DEF Calls
  <2>3. call \in Calls
    BY <1>1, <2>1 DEF Calls, Pcs
  <2>. QED
    BY <2>1, <2>2, <2>3
<1>3. thread' = [thread EXCEPT ![t] = call]
  BY <1>1 DEF Write
<1>4. Begun(call.pc) = 0 /\ Begun(thread[t].pc) = 0
  BY <1>2 DEF Begun, Write, At
<1>5. CallsOK' /\ Counted'
  <2>. HIDE DEF call
  <2>1. created' = created /\ writes' = writes /\ created \in Nat /\ writes \in Nat
    BY Types DEF Write
  <2>2. created' + Begun(call.pc) + writes <= created + Begun(thread[t].pc) + writes'
    BY <1>4, <2>1
  <2>. QED
    BY <1>2, <1>3, <2>1, <2>2, CallsStep
<1>6. entry' \in [Id -> Entries]
  <2>1. [entry[thread[t].id] EXCEPT !.type = thread[t].type, !.value = thread[t].value]
          \in Entries
    <3>1. entry[thread[t].id] \in Entries
      BY <1>1
    <3>2. thread[t].type \in Type /\ thread[t].value \in 0 .. MaxWrites
      BY <1>1 DEF Calls
    <3>. QED
      BY <3>1, <3>2 DEF Entries
  <2>2. entry' = [entry EXCEPT ![thread[t].id] =
                    [@ EXCEPT !.type = thread[t].type, !.value = thread[t].value]]
    BY <1>1 DEF Write
  <2>. QED
    BY <1>1, <2>1, <2>2
<1>7. bbLock' \in [Board -> Thread \cup {"free"}]
  BY <1>1, Types DEF Write, Calls
<1>. QED
  BY <1>5, <1>6, <1>7, Types, TypesNext DEF Write

\* blackboard.h, set(): the number of a new entry.
LEMMA CountTyped ==
    ASSUME NEW t \in Thread, BlackboardInv, Count(t)
    PROVE  BlackboardInv'
<1>. USE Bounds DEF BlackboardInv
<1>1. thread[t] \in Calls /\ thread[t].id \in Id /\ entry \in [Id -> Entries]
  BY Types DEF CallsOK, Calls, HasId, Count, At
<1>2. CallsOK' /\ Counted'
  BY EndStep DEF Count, End
<1>3. entry' \in [Id -> Entries]
  <2>1. [entry[thread[t].id] EXCEPT !.seq = thread[t].seq + 1] \in Entries
    <3>1. entry[thread[t].id] \in Entries
      BY <1>1
    <3>2. thread[t].seq + 1 \in Nat
      BY <1>1 DEF Calls
    <3>. QED
      BY <3>1, <3>2 DEF Entries
  <2>. QED
    BY <1>1, <2>1 DEF Count
<1>4. bbLock' \in [Board -> Thread \cup {"free"}]
  BY <1>1, Types DEF Count, Calls
<1>5. raced' \subseteq Id
  BY <1>1, Types DEF Count
<1>. QED
  BY <1>2, <1>3, <1>4, <1>5, Types, TypesNext DEF Count

\* A call is begun: it is counted when it may create an entry.
LEMMA BeginStep ==
    ASSUME BlackboardInv, NEW t \in Thread, At(t, "rest"), NEW call \in Calls,
           call.pc \notin HasId, writes < MaxWrites, writes' = writes + 1,
           UNCHANGED created, thread' = [thread EXCEPT ![t] = call]
    PROVE  CallsOK' /\ Counted' /\ writes' \in 0 .. MaxWrites
<1>1. created \in Nat /\ writes \in 0 .. MaxWrites /\ MaxWrites \in Nat
  BY Types, Bounds DEF BlackboardInv
<1>2. Begun(thread[t].pc) = 0 /\ Begun(call.pc) \in {0, 1}
  BY DEF At, Begun
<1>3. /\ created' \in Nat /\ writes' \in Nat
      /\ created' + Begun(call.pc) + writes <= created + Begun(thread[t].pc) + writes'
  BY <1>1, <1>2
<1>4. CallsOK' /\ Counted'
  BY <1>3, CallsStep
<1>. QED
  BY <1>1, <1>4

\* blackboard.h, set() begins.
LEMMA SetTyped ==
    ASSUME NEW t \in Thread, BlackboardInv, Set(t)
    PROVE  BlackboardInv'
<1>. USE Bounds DEF BlackboardInv
<1>1. PICK port \in Ports, type \in Type :
        thread' = [thread EXCEPT ![t] =
           [pc |-> "set", board |-> Start(port).board, key |-> Start(port).key,
            type |-> type, id |-> 0, seq |-> 0, value |-> writes']]
  BY DEF Set
<1>2. Start(port) \in Place
  BY StartIsPlace, CallsAssumption DEF Place
<1>. DEFINE call == [pc |-> "set", board |-> Start(port).board, key |-> Start(port).key,
                     type |-> type, id |-> 0, seq |-> 0, value |-> writes']
<1>3. writes' \in 0 .. MaxWrites /\ writes' = writes + 1 /\ writes < MaxWrites
  BY Types DEF Set
<1>4. call \in Calls /\ call.pc \notin HasId
  <2>1. Start(port).board \in Board /\ Start(port).key \in Key
    BY <1>2 DEF Place
  <2>. QED
    BY <1>3, <2>1 DEF Calls, Pcs, HasId
<1>5. CallsOK' /\ Counted'
  <2>. HIDE DEF call
  <2>1. thread' = [thread EXCEPT ![t] = call]
    BY <1>1 DEF call
  <2>. QED
    BY <1>3, <1>4, <2>1, BeginStep DEF Set
<1>. QED
  BY <1>3, <1>5, Types, TypesNext DEF Set

\* blackboard.h, set() looks for the key in its own board.
LEMMA FindLocalTyped ==
    ASSUME NEW t \in Thread, BlackboardInv, FindLocal(t)
    PROVE  BlackboardInv'
<1>. USE Bounds DEF BlackboardInv
<1>. DEFINE b == thread[t].board
            i == storage[b][thread[t].key]
<1>1. b \in Board /\ i \in 0 .. MaxEntries
  BY Types DEF CallsOK, Calls
<1>2. created \in Nat /\ writes \in Nat /\ created' = created /\ writes' = writes
  BY Types DEF FindLocal, dataVars
<1>3. Begun(thread[t].pc) = 1
  BY DEF FindLocal, At, Begun
<1>4. CASE i = 0 /\ Go(t, "create") /\ UNCHANGED bbLock
  <2>1. "create" \in Pcs /\ "create" \notin HasId /\ Begun("create") = 1
    BY DEF Pcs, HasId, Begun
  <2>2. created' + Begun("create") + writes <= created + Begun(thread[t].pc) + writes'
    BY <1>2, <1>3, <2>1
  <2>3. CallsOK' /\ Counted'
    BY <1>2, <1>4, <2>1, <2>2, GoStep
  <2>. QED
    BY <1>4, <2>3, Types, TypesNext DEF FindLocal, dataVars
<1>5. CASE /\ i # 0 /\ thread' = [thread EXCEPT ![t].pc = "update", ![t].id = i]
           /\ bbLock' = [bbLock EXCEPT ![b] = t]
  <2>. HIDE DEF b, i
  <2>1. "update" \in Pcs /\ Begun("update") = 0
    BY DEF Pcs, Begun
  <2>2. created' + Begun("update") + writes <= created + Begun(thread[t].pc) + writes'
    BY <1>2, <1>3, <2>1
  <2>3. CallsOK' /\ Counted'
    BY <1>1, <1>2, <1>5, <2>1, <2>2, MoveStep
  <2>4. bbLock' \in [Board -> Thread \cup {"free"}]
    BY <1>1, <1>5, Types
  <2>. QED
    BY <2>3, <2>4, Types, TypesNext DEF FindLocal, dataVars
<1>. QED
  BY <1>4, <1>5 DEF FindLocal

\* operators.hpp, the assignment of a script begins.
LEMMA AssignTyped ==
    ASSUME NEW t \in Thread, BlackboardInv, Assign(t)
    PROVE  BlackboardInv'
<1>. USE Bounds DEF BlackboardInv
<1>1. PICK port \in Ports, type \in Type :
        thread' = [thread EXCEPT ![t] =
           [pc |-> "find", board |-> port.board, key |-> port.key, type |-> type,
            id |-> 0, seq |-> 0, value |-> writes']]
  BY DEF Assign
<1>. DEFINE call == [pc |-> "find", board |-> port.board, key |-> port.key, type |-> type,
                     id |-> 0, seq |-> 0, value |-> writes']
<1>2. writes' \in 0 .. MaxWrites /\ writes' = writes + 1 /\ writes < MaxWrites
  BY Types DEF Assign
<1>3. call \in Calls /\ call.pc \notin HasId
  BY <1>2, CallsAssumption DEF Calls, Pcs, HasId
<1>4. CallsOK' /\ Counted'
  <2>. HIDE DEF call
  <2>1. thread' = [thread EXCEPT ![t] = call]
    BY <1>1 DEF call
  <2>. QED
    BY <1>2, <1>3, <2>1, BeginStep DEF Assign
<1>. QED
  BY <1>2, <1>4, Types, TypesNext DEF Assign

\* blackboard.cpp, createEntry() is called.
LEMMA CallCreateEntryTyped ==
    ASSUME NEW t \in Thread, BlackboardInv, CallCreateEntry(t)
    PROVE  BlackboardInv'
<1>. USE Bounds DEF BlackboardInv
<1>1. PICK port \in Ports, type \in Type :
        thread' = [thread EXCEPT ![t] =
           [Rest EXCEPT !.pc = "declare", !.board = port.board, !.key = port.key,
                        !.type = type]]
  BY DEF CallCreateEntry
<1>. DEFINE call == [Rest EXCEPT !.pc = "declare", !.board = port.board, !.key = port.key,
                                 !.type = type]
<1>2. writes' \in 0 .. MaxWrites /\ writes' = writes + 1 /\ writes < MaxWrites
  BY Types DEF CallCreateEntry
<1>3. call \in Calls /\ call.pc \notin HasId
  BY RestTyped, CallsAssumption DEF Calls, Pcs, HasId
<1>4. CallsOK' /\ Counted'
  <2>. HIDE DEF call
  <2>1. thread' = [thread EXCEPT ![t] = call]
    BY <1>1 DEF call
  <2>. QED
    BY <1>2, <1>3, <2>1, BeginStep DEF CallCreateEntry
<1>. QED
  BY <1>2, <1>4, Types, TypesNext DEF CallCreateEntry

\* blackboard.cpp, getEntry() for a script.
LEMMA FindEntryTyped ==
    ASSUME NEW t \in Thread, BlackboardInv, FindEntry(t)
    PROVE  BlackboardInv'
<1>. USE Bounds DEF BlackboardInv
<1>. DEFINE found == Find(thread[t].board, thread[t].key)
            i == IdAt(found)
<1>1. i \in 0 .. MaxEntries
  <2>1. found.board \in Board /\ found.key \in Key
    BY CallPlaces DEF Ends
  <2>. QED
    BY <2>1, Types DEF IdAt
<1>2. created \in Nat /\ writes \in Nat /\ created' = created /\ writes' = writes
  BY Types DEF FindEntry, dataVars
<1>3. CallsOK' /\ Counted'
  <2>1. CASE i # 0 /\ thread' = [thread EXCEPT ![t].pc = "assign", ![t].id = i]
    <3>. HIDE DEF i
    <3>1. "assign" \in Pcs /\ Begun("assign") = 0 /\ Begun(thread[t].pc) \in {0, 1}
      BY DEF Pcs, Begun
    <3>2. created' + Begun("assign") + writes <= created + Begun(thread[t].pc) + writes'
      BY <1>2, <3>1
    <3>. QED
      BY <1>1, <1>2, <2>1, <3>1, <3>2, MoveStep
  <2>2. CASE At(t, "find") /\ Go(t, "declare")
    <3>1. /\ "declare" \in Pcs /\ "declare" \notin HasId
          /\ Begun("declare") = 1 /\ Begun(thread[t].pc) = 1
      BY <2>2 DEF Pcs, HasId, Begun, At
    <3>2. created' + Begun("declare") + writes <= created + Begun(thread[t].pc) + writes'
      BY <1>2, <3>1
    <3>. QED
      BY <1>2, <2>2, <3>1, <3>2, GoStep
  <2>3. CASE End(t)
    BY <1>2, <2>3, EndStep DEF End
  <2>. QED
    BY <2>1, <2>2, <2>3 DEF FindEntry
<1>. QED
  BY <1>3, Types, TypesNext DEF FindEntry, dataVars

\* blackboard.cpp, createEntry().
LEMMA DeclareTyped ==
    ASSUME NEW t \in Thread, BlackboardInv, Declare(t)
    PROVE  BlackboardInv'
<1>. USE Bounds DEF BlackboardInv
<1>. DEFINE start == Start([board |-> thread[t].board, key |-> thread[t].key])
            home == Home(start.board, start.key)
            forScript == thread[t].value # 0
            info == IF forScript THEN "any" ELSE thread[t].type
<1>1. home \in Ends /\ created < MaxEntries
  BY CallPlaces, RoomLeft DEF Declare, At
<1>2. info \in Type \cup {"any"}
  BY Types DEF CallsOK, Calls
<1>3. UNCHANGED <<created, storage, entry>> \/ CreateEntry(home, info)
  BY DEF Declare
<1>4. /\ storage' \in [Board -> [Key -> 0 .. MaxEntries]] /\ entry' \in [Id -> Entries]
      /\ created' \in 0 .. MaxEntries /\ created' \in created .. created + 1
  <2>. HIDE DEF home, info
  <2>1. CASE CreateEntry(home, info)
    BY <1>1, <1>2, <2>1, CreateTyped
  <2>2. CASE UNCHANGED <<created, storage, entry>>
    <3>1. created \in Nat /\ created' = created
      BY <2>2, Types
    <3>. QED
      BY <2>2, <3>1, Types
  <2>. QED
    BY <1>3, <2>1, <2>2
<1>5. created \in Nat /\ writes \in Nat /\ writes' = writes /\ created' \in Nat
  BY <1>4, Types DEF Declare
<1>6. Begun(thread[t].pc) = 1
  BY DEF Begun, Declare, At
<1>7. CASE Go(t, "found")
  <2>1. "found" \in Pcs /\ "found" \notin HasId /\ Begun("found") = 0
    BY DEF Pcs, HasId, Begun
  <2>2. created' + Begun("found") + writes <= created + Begun(thread[t].pc) + writes'
    BY <1>4, <1>5, <1>6, <2>1
  <2>3. CallsOK' /\ Counted'
    BY <1>5, <1>7, <2>1, <2>2, GoStep
  <2>. QED
    BY <1>4, <2>3, Types, TypesNext DEF Declare
<1>8. CASE End(t)
  <2>1. Begun(Rest.pc) = 0 /\ Rest.pc \notin HasId /\ Rest \in Calls
    BY RestTyped DEF HasId, Begun
  <2>2. created' + Begun(Rest.pc) + writes <= created + Begun(thread[t].pc) + writes'
    <3>. HIDE DEF start, forScript, home, info
    <3>1. created' <= created + 1
      BY <1>4, <1>5
    <3>2. \A c, d, w \in Nat : d <= c + 1 => d + 0 + w <= c + 1 + w
      OBVIOUS
    <3>3. created' + 0 + writes <= created + 1 + writes
      BY <1>5, <3>1, <3>2
    <3>. QED
      BY <1>5, <1>6, <2>1, <3>3
  <2>3. thread' = [thread EXCEPT ![t] = Rest]
    BY <1>8 DEF End
  <2>4. CallsOK' /\ Counted'
    BY <1>5, <2>1, <2>2, <2>3, CallsStep
  <2>. QED
    BY <1>4, <2>4, Types, TypesNext DEF Declare
<1>. QED
  BY <1>7, <1>8 DEF Declare

\* operators.hpp, the assignment under the mutex of the entry.
LEMMA AssignValueTyped ==
    ASSUME NEW t \in Thread, BlackboardInv, AssignValue(t)
    PROVE  BlackboardInv'
<1>. USE Bounds DEF BlackboardInv
<1>1. /\ thread[t] \in Calls /\ thread[t].id \in Id /\ thread[t].id # 0
      /\ entry \in [Id -> Entries] /\ entryLock \in [Id -> Thread \cup {"free"}]
  BY Types DEF CallsOK, Calls, HasId, AssignValue, At
<1>2. created \in Nat /\ writes \in Nat /\ created' = created /\ writes' = writes
  BY Types DEF AssignValue
<1>3. CASE /\ entryLock' = [entryLock EXCEPT ![thread[t].id] = t] /\ Go(t, "convert")
           /\ UNCHANGED entry
  <2>1. "convert" \in Pcs /\ Begun("convert") = 0 /\ Begun(thread[t].pc) = 0
    BY DEF Pcs, Begun, AssignValue, At
  <2>2. created' + Begun("convert") + writes <= created + Begun(thread[t].pc) + writes'
    BY <1>2, <2>1
  <2>3. CallsOK' /\ Counted'
    BY <1>1, <1>2, <1>3, <2>1, <2>2, GoStep
  <2>4. entryLock' \in [Id -> Thread \cup {"free"}]
    BY <1>1, <1>3
  <2>. QED
    BY <1>3, <2>3, <2>4, Types, TypesNext DEF AssignValue
<1>4. CASE /\ \/ Store(t, thread[t].id, entry[thread[t].id].info, thread[t].type)
              \/ UNCHANGED entry
           /\ End(t) /\ UNCHANGED entryLock
  <2>1. CallsOK' /\ Counted'
    BY <1>2, <1>4, EndStep DEF End
  <2>2. entry[thread[t].id].info \in Type \cup {"any"} /\ thread[t].type \in Type
    BY <1>1 DEF Entries, Calls
  <2>3. entry' \in [Id -> Entries]
    BY <1>1, <1>4, <2>2, StoreTyped
  <2>. QED
    BY <1>4, <2>1, <2>3, Types, TypesNext DEF AssignValue
<1>. QED
  BY <1>3, <1>4 DEF AssignValue

\* operators.hpp, the conversion of a string.
LEMMA ConvertTyped ==
    ASSUME NEW t \in Thread, BlackboardInv, Convert(t)
    PROVE  BlackboardInv'
<1>. USE Bounds DEF BlackboardInv
<1>1. /\ thread[t] \in Calls /\ thread[t].id \in Id
      /\ entry \in [Id -> Entries] /\ entryLock \in [Id -> Thread \cup {"free"}]
  BY Types DEF CallsOK, Calls, HasId, Convert, At
<1>2. CallsOK' /\ Counted'
  BY EndStep DEF Convert, End
<1>3. entry[thread[t].id].info \in Type \cup {"any"} /\ "int" \in Type
  BY <1>1 DEF Entries, Type
<1>4. entry' \in [Id -> Entries]
  BY <1>1, <1>3, StoreTyped DEF Convert
<1>5. entryLock' \in [Id -> Thread \cup {"free"}]
  BY <1>1 DEF Convert
<1>. QED
  BY <1>2, <1>4, <1>5, Types, TypesNext DEF Convert

\* The entry a search at a port finds.
LEMMA FoundId ==
    BlackboardInv =>
      \A place \in Place : IdAt(Find(place.board, place.key)) \in 0 .. MaxEntries
<1>. SUFFICES ASSUME BlackboardInv, NEW place \in Place
     PROVE IdAt(Find(place.board, place.key)) \in 0 .. MaxEntries
  OBVIOUS
<1>1. Find(place.board, place.key) \in Ends
  BY TargetEquation DEF TargetIsSearch, Find, Place
<1>2. storage \in [Board -> [Key -> 0 .. MaxEntries]]
  BY Types DEF BlackboardInv
<1>. QED
  BY <1>1, <1>2 DEF Ends, IdAt

\* The first step of a call that looks for an entry.
LEMMA LookStep ==
    ASSUME BlackboardInv, NEW t \in Thread, NEW port \in Place, NEW pc \in {"lock", "check"},
           At(t, "rest"), IdAt(Find(port.board, port.key)) # 0, UNCHANGED <<created, writes>>,
           thread' = [thread EXCEPT ![t].pc = pc, ![t].id = IdAt(Find(port.board, port.key))]
    PROVE  CallsOK' /\ Counted'
<1>. DEFINE i == IdAt(Find(port.board, port.key))
<1>1. i \in 0 .. MaxEntries
  BY FoundId
<1>2. created \in Nat /\ writes \in Nat
  BY Types, Bounds DEF BlackboardInv
<1>3. pc \in Pcs /\ Begun(pc) = 0 /\ Begun(thread[t].pc) = 0
  BY DEF Pcs, Begun, At
<1>4. created' + Begun(pc) + writes <= created + Begun(thread[t].pc) + writes'
  BY <1>2, <1>3
<1>5. i # 0 /\ thread' = [thread EXCEPT ![t].pc = pc, ![t].id = i]
  OBVIOUS
<1>. HIDE DEF i
<1>. QED
  BY <1>1, <1>2, <1>3, <1>4, <1>5, MoveStep

\* blackboard.cpp, getAnyLocked().
LEMMA GetAnyLockedTyped ==
    ASSUME NEW t \in Thread, BlackboardInv, GetAnyLocked(t)
    PROVE  BlackboardInv'
<1>. USE Bounds DEF BlackboardInv
<1>1. UNCHANGED <<storage, entry, created, writes, bbLock, seen, erased, raced>>
  BY DEF GetAnyLocked, dataVars
<1>2. CASE /\ At(t, "rest")
           /\ \E port \in Ports :
                LET found == Find(port.board, port.key)
                IN  /\ IdAt(found) # 0
                    /\ thread' = [thread EXCEPT ![t].pc = "lock", ![t].id = IdAt(found)]
           /\ UNCHANGED <<entryLock, held>>
  <2>1. CallsOK' /\ Counted'
    <3>1. Ports \subseteq Place
      BY CallsAssumption DEF Place
    <3>. QED
      BY <1>1, <1>2, <3>1, LookStep
  <2>. QED
    BY <1>1, <1>2, <2>1, Types, TypesNext
<1>3. CASE /\ At(t, "lock")
           /\ entryLock' = [entryLock EXCEPT ![thread[t].id] = t]
           /\ held' = [held EXCEPT ![t] = thread[t].id]
           /\ End(t)
  <2>1. CallsOK' /\ Counted'
    BY <1>1, <1>3, EndStep DEF End
  <2>2. thread[t].id \in 0 .. MaxEntries
    BY Types DEF CallsOK, Calls
  <2>3. entryLock' \in [Id -> Thread \cup {"free"}] /\ held' \in [Thread -> 0 .. MaxEntries]
    BY <1>3, <2>2, Types
  <2>. QED
    BY <1>1, <2>1, <2>3, Types, TypesNext
<1>. QED
  BY <1>2, <1>3 DEF GetAnyLocked

\* entry_updated_action.cpp, tick().
LEMMA CheckUpdatedTyped ==
    ASSUME NEW t \in Thread, BlackboardInv, CheckUpdated(t)
    PROVE  BlackboardInv'
<1>. USE Bounds DEF BlackboardInv
<1>1. UNCHANGED <<storage, entry, created, writes, bbLock, entryLock, held, erased, raced>>
  BY DEF CheckUpdated, dataVars
<1>2. CASE /\ At(t, "rest")
           /\ LET found == Find(Watched.board, Watched.key)
              IN  /\ IdAt(found) # 0
                  /\ thread' = [thread EXCEPT ![t].pc = "check", ![t].id = IdAt(found)]
           /\ UNCHANGED seen
  <2>1. CallsOK' /\ Counted'
    <3>1. Watched \in Place
      BY CallsAssumption DEF Place
    <3>. QED
      BY <1>1, <1>2, <3>1, LookStep
  <2>. QED
    BY <1>1, <1>2, <2>1, Types, TypesNext
<1>3. CASE /\ At(t, "check")
           /\ LET e == entry[thread[t].id]
              IN  seen' = [seen EXCEPT ![t] =
                             [id |-> thread[t].id, seq |-> e.seq, value |-> e.value]]
           /\ End(t)
  <2>1. CallsOK' /\ Counted'
    BY <1>1, <1>3, EndStep DEF End
  <2>2. thread[t].id \in Id
    BY <1>3, Types DEF CallsOK, Calls, HasId, At
  <2>3. entry[thread[t].id] \in Entries
    BY <2>2, Types
  <2>4. seen' \in [Thread -> [id : 0 .. MaxEntries, seq : Nat, value : 0 .. MaxWrites]]
    BY <1>3, <2>2, <2>3, Types, SMTT(30) DEF Entries
  <2>. QED
    BY <1>1, <2>1, <2>4, Types, TypesNext
<1>. QED
  BY <1>2, <1>3 DEF CheckUpdated

\* blackboard.cpp, unset().
LEMMA UnsetTyped ==
    ASSUME NEW t \in Thread, BlackboardInv, Unset(t)
    PROVE  BlackboardInv'
<1>. USE Bounds DEF BlackboardInv
<1>1. UNCHANGED <<entry, created, writes, bbLock, entryLock, thread, held, seen, raced>>
  BY DEF Unset
<1>2. PICK port \in Ports :
         /\ storage[port.board][port.key] # 0
         /\ storage' = [storage EXCEPT ![port.board][port.key] = 0]
         /\ erased' = erased \cup {storage[port.board][port.key]}
  BY DEF Unset
<1>3. port.board \in Board /\ port.key \in Key
  BY CallsAssumption
<1>4. storage' \in [Board -> [Key -> 0 .. MaxEntries]]
  BY <1>2, <1>3, Types
<1>5. erased' \subseteq Id
  BY <1>2, <1>3, Types
<1>6. CallsOK' /\ Counted'
  BY <1>1, CountedStays, Types DEF CallsOK
<1>. QED
  BY <1>1, <1>4, <1>5, <1>6, Types, TypesNext

\* The AnyPtrLocked is destroyed.
LEMMA ReleaseTyped ==
    ASSUME NEW t \in Thread, BlackboardInv, Release(t)
    PROVE  BlackboardInv'
<1>. USE Bounds DEF BlackboardInv
<1>1. UNCHANGED <<storage, entry, created, writes, bbLock, thread, seen, erased, raced>>
  BY DEF Release, dataVars
<1>2. entryLock' \in [Id -> Thread \cup {"free"}] /\ held' \in [Thread -> 0 .. MaxEntries]
  BY Types DEF Release
<1>3. CallsOK' /\ Counted'
  BY <1>1, CountedStays, Types DEF CallsOK
<1>. QED
  BY <1>1, <1>2, <1>3, Types, TypesNext

\* The boards that XMLParser builds.
LEMMA InitTyped == Init => BlackboardInv
<1>. SUFFICES ASSUME Init PROVE BlackboardInv
  OBVIOUS
<1>. USE Bounds
<1>1. created \in 0 .. MaxEntries /\ writes \in 0 .. MaxWrites
  BY DEF Init
<1>2. storage \in [Board -> [Key -> 0 .. MaxEntries]]
  <2>1. 0 .. created \subseteq 0 .. MaxEntries
    BY <1>1
  <2>. QED
    BY <2>1 DEF Init
<1>3. entry \in [Id -> Entries]
  <2>1. NoEntry \in Entries /\ DeclaredPort \in Entries /\ Constant \in Entries
    <3>1. NoEntry \in Entries /\ "string" \in Type /\ "int" \in Type
      BY DEF NoEntry, Entries, Type
    <3>. QED
      BY <3>1 DEF Entries, DeclaredPort, Constant
  <2>. QED
    BY <2>1 DEF Init
<1>4. \A t \in Thread : thread[t] = Rest
  BY DEF Init
<1>5. CallsOK
  BY <1>4, RestTyped DEF Init, CallsOK, HasId
<1>6. Beginning = {}
  BY <1>4, RestTyped DEF Beginning, Begins, Begun
<1>7. Counted
  BY <1>6, FS_EmptySet DEF Counted, Init
<1>8. seen \in [Thread -> [id : 0 .. MaxEntries, seq : Nat, value : 0 .. MaxWrites]]
  BY DEF Init
<1>. QED
  BY <1>1, <1>2, <1>3, <1>5, <1>7, <1>8, Types DEF Init, BlackboardInv

\* Nothing changes.
LEMMA StutterTyped == BlackboardInv /\ UNCHANGED vars => BlackboardInv'
<1>. SUFFICES ASSUME BlackboardInv, UNCHANGED vars PROVE BlackboardInv'
  OBVIOUS
<1>1. Counted' /\ CallsOK'
  BY CountedStays, Types DEF vars, dataVars, BlackboardInv, CallsOK
<1>. QED
  BY <1>1, Types, TypesNext DEF vars, dataVars, BlackboardInv

\* The steps of Next, one by one.
LEMMA NextSteps ==
    Next =>
      \E t \in Thread :
        \/ Set(t) \/ FindLocal(t) \/ Assign(t) \/ CallCreateEntry(t) \/ GetAnyLocked(t)
        \/ CheckUpdated(t) \/ Unset(t) \/ Update(t) \/ Create(t) \/ Write(t) \/ Count(t)
        \/ FindEntry(t) \/ Declare(t) \/ AssignValue(t) \/ Convert(t) \/ Release(t)
BY DEF Next, SetStep, ScriptStep

\* Every value of the model has its type: entries are at most as many as the
\* calls that create one, and a thread that works on an entry has one.
THEOREM BlackboardInvariant == Spec => []BlackboardInv
<1>1. BlackboardInv /\ [Next]_vars => BlackboardInv'
  BY NextSteps, StutterTyped, SetTyped, FindLocalTyped, AssignTyped, CallCreateEntryTyped, GetAnyLockedTyped,
     CheckUpdatedTyped, UnsetTyped, UpdateTyped, CreateStep, WriteTyped, CountTyped,
     FindEntryTyped, DeclareTyped, AssignValueTyped, ConvertTyped, ReleaseTyped
<1>. QED
  BY <1>1, InitTyped, PTL DEF Spec

\* "Once declared, the type of a port shall not change": whichever threads set,
\* declare, assign and convert it (blackboard.cpp, createEntryImpl()).
THEOREM DeclaredTypeStays == Spec => DeclaredTypeKept
<1>. DEFINE Kept == \A i \in 1 .. created : entry[i].info # "any" => entry'[i].info = entry[i].info
<1>1. BlackboardInv /\ [Next]_vars => [Kept]_vars
  <2>. SUFFICES ASSUME BlackboardInv, Next PROVE Kept
    OBVIOUS
  <2>. SUFFICES ASSUME NEW i \in 1 .. created, entry[i].info # "any"
                PROVE  entry'[i].info = entry[i].info
    OBVIOUS
  <2>1. i \in Id /\ entry \in [Id -> Entries] /\ created \in 0 .. MaxEntries
    BY Types, Bounds DEF BlackboardInv
  <2>2. entry[i] \in Entries
    BY <2>1
  <2>3. ASSUME NEW t \in Thread, NEW k \in Id, NEW type,
               Store(t, k, entry[k].info, type)
        PROVE  entry'[i].info = entry[i].info
    BY <2>1, <2>3 DEF Store
  <2>4. PICK t \in Thread :
        \/ Set(t) \/ FindLocal(t) \/ Assign(t) \/ CallCreateEntry(t) \/ GetAnyLocked(t)
        \/ CheckUpdated(t) \/ Unset(t) \/ Update(t) \/ Create(t) \/ Write(t) \/ Count(t)
        \/ FindEntry(t) \/ Declare(t) \/ AssignValue(t) \/ Convert(t) \/ Release(t)
    BY NextSteps
  <2>5. thread[t] \in Calls /\ (thread[t].pc \in HasId => thread[t].id \in Id)
    BY Types, Bounds, SMTT(30) DEF BlackboardInv, CallsOK, Calls
  <2>6. CASE UNCHANGED entry
    BY <2>6
  <2>7. CASE Update(t)
    <3>1. thread[t].id \in Id
      BY <2>5, <2>7 DEF Update, At, HasId
    <3>2. \/ Store(t, thread[t].id, entry[thread[t].id].info, entry[thread[t].id].info)
          \/ /\ entry[thread[t].id].info = "any"
             /\ Store(t, thread[t].id, thread[t].type, thread[t].type)
          \/ UNCHANGED entry
      BY <2>7 DEF Update
    <3>3. ASSUME entry[thread[t].id].info = "any",
                 Store(t, thread[t].id, thread[t].type, thread[t].type)
          PROVE  entry'[i].info = entry[i].info
      BY <2>1, <3>1, <3>3 DEF Store
    <3>. QED
      BY <2>3, <2>6, <3>1, <3>2, <3>3
  <2>8. ASSUME NEW target, NEW info, CreateEntry(target, info)
        PROVE  entry'[i].info = entry[i].info
    BY <2>1, <2>8 DEF CreateEntry
  <2>9. CASE Create(t) \/ Declare(t)
    BY <2>6, <2>8, <2>9 DEF Create, Declare
  <2>10. CASE Write(t) \/ Count(t)
    <3>1. thread[t].id \in Id
      BY <2>5, <2>10 DEF Write, Count, At, HasId
    <3>. QED
      BY <2>1, <2>10, <3>1 DEF Write, Count, Entries
  <2>11. CASE AssignValue(t) \/ Convert(t)
    <3>1. thread[t].id \in Id
      BY <2>5, <2>11 DEF AssignValue, Convert, At, HasId
    <3>. QED
      BY <2>3, <2>6, <2>11, <3>1 DEF AssignValue, Convert
  <2>12. CASE \/ Set(t) \/ FindLocal(t) \/ Assign(t) \/ CallCreateEntry(t) \/ GetAnyLocked(t)
              \/ CheckUpdated(t) \/ Unset(t) \/ FindEntry(t) \/ Release(t)
    BY <2>12 DEF Set, FindLocal, Assign, CallCreateEntry, GetAnyLocked, CheckUpdated, Unset, FindEntry,
                 Release, dataVars
  <2>. QED
    BY <2>4, <2>7, <2>9, <2>10, <2>11, <2>12
<1>. QED
  BY <1>1, BlackboardInvariant, PTL DEF Spec, DeclaredTypeKept

-------------------------------------------------------------------------------
(* Where entries are created and erased. *)

\* An entry is created at the end of a search, where the remapping does not lead
\* to the parent; erased entries are remembered.
LEMMA StorageSteps ==
    BlackboardInv /\ [Next]_vars =>
      \/ UNCHANGED storage /\ UNCHANGED erased
      \/ \E place \in Place :
           /\ Empty(place) /\ ~GoesUp(place) /\ created' \in Id /\ UNCHANGED erased
           /\ storage' = [storage EXCEPT ![place.board][place.key] = created']
      \/ \E place \in Place :
           /\ ~Empty(place) /\ erased' = erased \cup {storage[place.board][place.key]}
           /\ storage' = [storage EXCEPT ![place.board][place.key] = 0]
<1>. DEFINE Grows == \E place \in Place :
              /\ Empty(place) /\ ~GoesUp(place) /\ created' \in Id /\ UNCHANGED erased
              /\ storage' = [storage EXCEPT ![place.board][place.key] = created']
            Shrinks == \E place \in Place :
              /\ ~Empty(place) /\ erased' = erased \cup {storage[place.board][place.key]}
              /\ storage' = [storage EXCEPT ![place.board][place.key] = 0]
<1>. SUFFICES ASSUME BlackboardInv, [Next]_vars
     PROVE    (UNCHANGED storage /\ UNCHANGED erased) \/ Grows \/ Shrinks
  OBVIOUS
<1>1. CASE UNCHANGED vars
  BY <1>1 DEF vars, dataVars
<1>2. ASSUME NEW t \in Thread, NEW b \in Board, NEW k \in Key, NEW info,
             thread[t].pc \in {"create", "declare"}, UNCHANGED erased,
             CreateEntry(Home(b, k), info)
      PROVE  UNCHANGED storage \/ Grows
  <2>. DEFINE home == Home(b, k)
  <2>1. Spot(home) \in Place /\ ~GoesUp(Spot(home))
    BY EndIsFinal DEF Home, Place
  <2>2. created < MaxEntries /\ created \in Nat
    BY RoomLeft, <1>2, Types, Bounds DEF BlackboardInv
  <2>3. CASE IdAt(home) # 0
    BY <1>2, <2>3 DEF CreateEntry
  <2>4. CASE IdAt(home) = 0
    <3>1. Empty(Spot(home)) /\ created' \in Id
      BY <1>2, <2>2, <2>4, Bounds DEF Empty, Spot, IdAt, CreateEntry
    <3>2. storage' = [storage EXCEPT ![Spot(home).board][Spot(home).key] = created']
      BY <1>2, <2>4 DEF CreateEntry, Spot
    <3>. QED
      BY <1>2, <2>1, <3>1, <3>2
  <2>. QED
    BY <2>3, <2>4
<1>3. CASE Next
  <2>1. PICK t \in Thread :
        \/ Set(t) \/ FindLocal(t) \/ Assign(t) \/ CallCreateEntry(t) \/ GetAnyLocked(t)
        \/ CheckUpdated(t) \/ Unset(t) \/ Update(t) \/ Create(t) \/ Write(t) \/ Count(t)
        \/ FindEntry(t) \/ Declare(t) \/ AssignValue(t) \/ Convert(t) \/ Release(t)
    BY <1>3, NextSteps
  <2>2. /\ [board |-> thread[t].board, key |-> thread[t].key] \in Place
        /\ Start([board |-> thread[t].board, key |-> thread[t].key]) \in Place
    BY CallPlaces, StartIsPlace
  <2>3. CASE Create(t)
    <3>1. /\ thread[t].pc \in {"create", "declare"} /\ UNCHANGED erased
          /\ \/ UNCHANGED storage
             \/ \E info : CreateEntry(Home(thread[t].board, thread[t].key), info)
      BY <2>3 DEF Create, At
    <3>2. thread[t].board \in Board /\ thread[t].key \in Key
      BY <2>2 DEF Place
    <3>. HIDE DEF Grows
    <3>. QED
      BY <1>2, <3>1, <3>2
  <2>4. CASE Declare(t)
    <3>. DEFINE start == Start([board |-> thread[t].board, key |-> thread[t].key])
    <3>1. /\ thread[t].pc \in {"create", "declare"} /\ UNCHANGED erased
          /\ \/ UNCHANGED storage
             \/ \E info : CreateEntry(Home(start.board, start.key), info)
      BY <2>4 DEF Declare, At
    <3>2. start.board \in Board /\ start.key \in Key
      BY <2>2 DEF Place
    <3>. HIDE DEF Grows, start
    <3>. QED
      BY <1>2, <3>1, <3>2
  <2>5. CASE Unset(t)
    <3>1. PICK port \in Ports :
            /\ storage[port.board][port.key] # 0
            /\ storage' = [storage EXCEPT ![port.board][port.key] = 0]
            /\ erased' = erased \cup {storage[port.board][port.key]}
      BY <2>5 DEF Unset
    <3>2. port \in Place
      BY CallsAssumption DEF Place
    <3>. QED
      BY <3>1, <3>2 DEF Empty
  <2>6. CASE \/ Set(t) \/ FindLocal(t) \/ Assign(t) \/ CallCreateEntry(t) \/ GetAnyLocked(t)
             \/ CheckUpdated(t) \/ Update(t) \/ Write(t) \/ Count(t) \/ FindEntry(t) \/ AssignValue(t)
             \/ Convert(t) \/ Release(t)
    BY <2>6 DEF Set, FindLocal, Assign, CallCreateEntry, GetAnyLocked, CheckUpdated, Update, Write, Count,
                FindEntry, AssignValue, Convert, Release, dataVars
  <2>. QED
    BY <2>1, <2>3, <2>4, <2>5, <2>6
<1>. QED
  BY <1>1, <1>3

\* A subtree keeps to itself what its remapping leaves to it, since an entry is
\* created where the search ends (blackboard.cpp, createEntryImpl()).
THEOREM RemappingIsKept == Spec => []RemappingKept
<1>1. Init => RemappingKept
  BY DEF Init, RemappingKept
<1>2. BlackboardInv /\ RemappingKept /\ [Next]_vars => RemappingKept'
  <2>. SUFFICES ASSUME BlackboardInv, RemappingKept, [Next]_vars,
                       NEW b \in Board \ {Root}, NEW k \in Key, storage'[b][k] # 0
                PROVE  \/ k \in InitialKeys[b]
                       \/ k \notin DOMAIN Remap[b] /\ (b \in AutoRemap => k \in Private)
    BY DEF RemappingKept
  <2>1. CASE storage[b][k] # 0
    BY <2>1 DEF RemappingKept
  <2>2. CASE storage[b][k] = 0
    <3>1. storage \in [Board -> [Key -> 0 .. MaxEntries]]
      BY Types DEF BlackboardInv
    <3>2. PICK place \in Place :
            /\ ~GoesUp(place)
            /\ storage' = [storage EXCEPT ![place.board][place.key] = created']
      <4>1. ASSUME NEW place \in Place,
                   storage' = [storage EXCEPT ![place.board][place.key] = 0]
            PROVE  FALSE
        BY <2>2, <3>1, <4>1 DEF Place
      <4>. QED
        BY <2>2, <4>1, StorageSteps
    <3>3. b = place.board /\ k = place.key
      BY <2>2, <3>1, <3>2 DEF Place
    <3>. QED
      BY <2>2, <3>2, <3>3 DEF GoesUp
  <2>. QED
    BY <2>1, <2>2
<1>. QED
  BY <1>1, <1>2, BlackboardInvariant, PTL DEF Spec

-------------------------------------------------------------------------------
(* What set() writes is found. *)

\* The other threads stay where they are.
LEMMA OthersStay ==
    ASSUME BlackboardInv, NEW t \in Thread, NEW u \in Thread \ {t},
           \/ Set(t) \/ FindLocal(t) \/ Assign(t) \/ CallCreateEntry(t) \/ GetAnyLocked(t)
           \/ CheckUpdated(t) \/ Unset(t) \/ Update(t) \/ Create(t) \/ Write(t) \/ Count(t)
           \/ FindEntry(t) \/ Declare(t) \/ AssignValue(t) \/ Convert(t) \/ Release(t)
    PROVE  thread'[u] = thread[u]
<1>1. thread \in [Thread -> Calls]
  BY Types DEF BlackboardInv, CallsOK
<1>2. CASE \/ Unset(t) \/ Update(t) \/ Create(t) \/ Write(t) \/ Count(t) \/ FindEntry(t)
           \/ Declare(t) \/ AssignValue(t) \/ Convert(t) \/ Release(t)
  BY <1>1, <1>2 DEF Unset, Update, Create, Write, Count, FindEntry, Declare, AssignValue,
                    Convert, Release, Go, End
<1>3. CASE \/ Set(t) \/ FindLocal(t) \/ Assign(t) \/ CallCreateEntry(t) \/ GetAnyLocked(t)
           \/ CheckUpdated(t)
  BY <1>1, <1>3 DEF Set, FindLocal, Assign, CallCreateEntry, GetAnyLocked, CheckUpdated, Go, End
<1>. QED
  BY <1>2, <1>3

\* How a thread gets to write: set() asks for the place its key stands for, and
\* createEntryImpl() gives it the entry.
Setting == {"set", "create", "write", "count"}
LEMMA ToWrite ==
    BlackboardInv /\ [Next]_vars =>
      \A u \in Thread : thread'[u].pc \in Setting =>
        \/ /\ thread[u].pc \in Setting
           /\ thread'[u].board = thread[u].board /\ thread'[u].key = thread[u].key
           /\ \/ /\ thread'[u].id = thread[u].id
                 /\ thread'[u].pc \in {"write", "count"} => thread[u].pc \in {"write", "count"}
              \/ Create(u)
        \/ /\ thread'[u].pc = "set"
           /\ \E port \in Place : /\ thread'[u].board = Start(port).board
                                  /\ thread'[u].key = Start(port).key
<1>. DEFINE Goal(u) ==
        \/ /\ thread[u].pc \in Setting
           /\ thread'[u].board = thread[u].board /\ thread'[u].key = thread[u].key
           /\ \/ /\ thread'[u].id = thread[u].id
                 /\ thread'[u].pc \in {"write", "count"} => thread[u].pc \in {"write", "count"}
              \/ Create(u)
        \/ /\ thread'[u].pc = "set"
           /\ \E port \in Place : /\ thread'[u].board = Start(port).board
                                  /\ thread'[u].key = Start(port).key
<1>. USE DEF Setting
<1>. SUFFICES ASSUME BlackboardInv, [Next]_vars, NEW u \in Thread,
                     thread'[u].pc \in Setting
              PROVE  Goal(u)
  OBVIOUS
<1>1. CASE thread'[u] = thread[u]
  BY <1>1 DEF Setting
<1>2. CASE thread'[u] # thread[u]
  <2>1. Next
    BY <1>2 DEF vars
  <2>2. \/ Set(u) \/ FindLocal(u) \/ Assign(u) \/ CallCreateEntry(u) \/ GetAnyLocked(u)
        \/ CheckUpdated(u) \/ Unset(u) \/ Update(u) \/ Create(u) \/ Write(u) \/ Count(u)
        \/ FindEntry(u) \/ Declare(u) \/ AssignValue(u) \/ Convert(u) \/ Release(u)
    BY <1>2, <2>1, NextSteps, OthersStay
  <2>3. thread \in [Thread -> Calls]
    BY Types DEF BlackboardInv, CallsOK
  <2>4. CASE Set(u)
    <3>1. PICK port \in Ports, type \in Type :
            thread' = [thread EXCEPT ![u] =
              [pc |-> "set", board |-> Start(port).board, key |-> Start(port).key,
               type |-> type, id |-> 0, seq |-> 0, value |-> writes']]
      BY <2>4 DEF Set
    <3>2. port \in Place
      BY CallsAssumption DEF Place
    <3>. QED
      BY <2>3, <3>1, <3>2
  <2>14. CASE FindLocal(u)
    <3>1. thread[u].pc = "set"
      BY <2>14 DEF FindLocal, At
    <3>2. \/ thread'[u] = [thread[u] EXCEPT !.pc = "create"]
          \/ thread'[u].pc = "update"
      BY <2>3, <2>14 DEF FindLocal, Go, Calls
    <3>. QED
      BY <2>3, <3>1, <3>2 DEF Setting, Calls
  <2>5. CASE Create(u)
    <3>1. /\ thread[u].pc = "create"
          /\ \/ thread'[u] = Rest
             \/ \E i : thread' = [thread EXCEPT ![u].pc = "write", ![u].id = i]
      BY <2>3, <2>5 DEF Create, At, End
    <3>2. thread'[u] # Rest
      BY RestTyped
    <3>3. thread'[u].board = thread[u].board /\ thread'[u].key = thread[u].key
      BY <2>3, <3>1, <3>2 DEF Calls
    <3>. QED
      BY <2>5, <3>1, <3>3
  <2>6. CASE Write(u)
    BY <2>3, <2>6 DEF Write, At, Calls
  <2>7. thread'[u] # Rest
    BY RestTyped
  <2>8. CASE Update(u) \/ Count(u) \/ Convert(u)
    BY <2>3, <2>7, <2>8 DEF Update, Count, Convert, End
  <2>9. CASE Assign(u)
    BY <2>3, <2>9 DEF Assign
  <2>13. CASE CallCreateEntry(u)
    <3>1. thread'[u].pc = "declare"
      BY <2>3, <2>13, RestTyped DEF CallCreateEntry, Calls
    <3>. QED
      BY <3>1
  <2>10. CASE GetAnyLocked(u) \/ CheckUpdated(u)
    BY <2>3, <2>7, <2>10 DEF GetAnyLocked, CheckUpdated, End, Calls
  <2>11. CASE FindEntry(u) \/ Declare(u) \/ AssignValue(u)
    BY <2>3, <2>7, <2>11 DEF FindEntry, Declare, AssignValue, End, Go, Calls
  <2>12. CASE Unset(u) \/ Release(u)
    BY <1>2, <2>12 DEF Unset, Release
  <2>. QED
    BY <2>2, <2>4, <2>5, <2>6, <2>8, <2>9, <2>10, <2>11, <2>12, <2>13, <2>14
<1>. QED
  BY <1>1, <1>2

\* A search finds the same entry in the next state, unless it is erased.
LEMMA FoundKept ==
    BlackboardInv /\ [Next]_vars =>
      \A begin \in Place, i \in Id :
        IdAt(Find(begin.board, begin.key)) = i \/ i \in erased
          => (IdAt(Find(begin.board, begin.key)) = i)' \/ i \in erased'
<1>. SUFFICES ASSUME BlackboardInv, [Next]_vars, NEW begin \in Place, NEW i \in Id,
                     IdAt(Find(begin.board, begin.key)) = i, i \notin erased'
              PROVE  IdAt(Find(begin.board, begin.key))' = i
  BY StorageSteps
<1>1. PICK p \in Place : p = Spot(Target(TRUE)[begin])
  BY EndIsFinal
<1>2. ~GoesUp(p) /\ storage[p.board][p.key] = i
  BY <1>1, EndIsFinal DEF Find, IdAt, Spot, Place
<1>3. storage \in [Board -> [Key -> 0 .. MaxEntries]] /\ i # 0
  BY Types DEF BlackboardInv, Id
<1>4. ASSUME Target(TRUE)'[begin] = Target(TRUE)[begin],
             storage'[p.board][p.key] = storage[p.board][p.key]
      PROVE  IdAt(Find(begin.board, begin.key))' = i
  <2>1. IdAt(Find(begin.board, begin.key))' =
          storage'[Target(TRUE)'[begin].board][Target(TRUE)'[begin].key]
    BY DEF IdAt, Find, Place
  <2>. QED
    BY <1>1, <1>2, <1>4, <2>1 DEF Spot
<1>5. CASE UNCHANGED storage
  <2>1. ~GoesUp(p)'
    BY <1>2, <1>5 DEF GoesUp
  <2>2. \A place \in Place \ {p} :
          storage'[place.board][place.key] = storage[place.board][place.key]
    BY <1>5
  <2>3. Target(TRUE)'[begin] = Target(TRUE)[begin]
    BY <1>2, <2>1, <2>2, SearchKept
  <2>. QED
    BY <1>4, <1>5, <2>3
<1>6. ASSUME NEW place \in Place, NEW j \in Nat, ~GoesUp(place), place # p,
             storage' = [storage EXCEPT ![place.board][place.key] = j]
      PROVE  IdAt(Find(begin.board, begin.key))' = i
  <2>1. \A q \in Place \ {place} : storage'[q.board][q.key] = storage[q.board][q.key]
    <3>. SUFFICES ASSUME NEW q \in Place, q # place
                  PROVE  storage'[q.board][q.key] = storage[q.board][q.key]
      OBVIOUS
    <3>1. q.board # place.board \/ q.key # place.key
      BY DEF Place
    <3>. QED
      BY <1>3, <1>6, <3>1 DEF Place
  <2>2. Target(TRUE)'[begin] = Target(TRUE)[begin]
    BY <1>1, <1>6, <2>1, SearchKept
  <2>. QED
    BY <1>4, <1>6, <2>1, <2>2
<1>7. CASE \E place \in Place :
           /\ Empty(place) /\ ~GoesUp(place) /\ created' \in Id /\ UNCHANGED erased
           /\ storage' = [storage EXCEPT ![place.board][place.key] = created']
  <2>1. PICK place \in Place :
           /\ Empty(place) /\ ~GoesUp(place) /\ created' \in Id
           /\ storage' = [storage EXCEPT ![place.board][place.key] = created']
    BY <1>7
  <2>2. place # p
    BY <1>2, <1>3, <2>1 DEF Empty
  <2>3. created' \in Nat
    BY <2>1, Bounds
  <2>. QED
    BY <1>6, <2>1, <2>2, <2>3
<1>8. CASE \E place \in Place :
           /\ ~Empty(place) /\ erased' = erased \cup {storage[place.board][place.key]}
           /\ storage' = [storage EXCEPT ![place.board][place.key] = 0]
  <2>1. PICK place \in Place :
           /\ ~Empty(place) /\ erased' = erased \cup {storage[place.board][place.key]}
           /\ storage' = [storage EXCEPT ![place.board][place.key] = 0]
    BY <1>8
  <2>2. place # p
    BY <1>2, <2>1
  <2>3. ~GoesUp(place)
    BY <2>1 DEF Empty, GoesUp
  <2>. QED
    BY <1>6, <2>1, <2>2, <2>3
<1>. QED
  BY <1>5, <1>7, <1>8, StorageSteps

\* Between the creation of its entry and the end of its writing, a call of set()
\* asks for a key without "@", and finds that entry unless it was erased.
WrittenInv ==
    \A t \in Thread :
      /\ thread[t].pc \in Setting => thread[t].key \notin DOMAIN AtKey
      /\ thread[t].pc \in {"write", "count"} =>
           \/ IdAt(Find(thread[t].board, thread[t].key)) = thread[t].id
           \/ thread[t].id \in erased

\* The entry createEntryImpl() returns to set() is the one getEntry() finds.
LEMMA CreatedIsFound ==
    ASSUME PlainRemap, BlackboardInv, NEW t \in Thread, Create(t), thread'[t].pc = "write",
           thread[t].key \notin DOMAIN AtKey,
           NEW b, NEW k, b = thread[t].board, k = thread[t].key
    PROVE  IdAt(Find(b, k))' = thread'[t].id
<1>. DEFINE begin == [board |-> b, key |-> k]
<1>1. begin \in Place /\ Target(FALSE)[begin] \in Ends
  BY CallPlaces DEF Home
<1>2. PICK home \in Ends : home = Target(FALSE)[begin] /\ home = Home(b, k)
  BY <1>1 DEF Home
<1>3. PICK p \in Place : p = Spot(home)
  BY <1>1, <1>2, EndIsFinal
<1>4. ~GoesUp(p)
  BY <1>1, <1>2, <1>3, EndIsFinal
<1>5. thread \in [Thread -> Calls] /\ storage \in [Board -> [Key -> 0 .. MaxEntries]]
      /\ created < MaxEntries /\ created \in Nat
  BY Types, RoomLeft DEF BlackboardInv, CallsOK, Create, At
<1>6. \E info : CreateEntry(home, info) /\ thread'[t].id = storage'[home.board][home.key]
  <2>1. thread' # [thread EXCEPT ![t] = Rest]
    BY <1>5, RestTyped
  <2>2. /\ \E info : CreateEntry(home, info)
        /\ thread' = [thread EXCEPT ![t].pc = "write", ![t].id = storage'[home.board][home.key]]
    BY <1>2, <2>1, ZenonT(30) DEF Create, End
  <2>. QED
    BY <1>5, <2>2 DEF Calls
<1>7. /\ storage'[p.board][p.key] = thread'[t].id /\ thread'[t].id # 0
      /\ \A q \in Place \ {p} : storage'[q.board][q.key] = storage[q.board][q.key]
  <2>1. p.board = home.board /\ p.key = home.key
    BY <1>3 DEF Spot
  <2>2. p.board \in Board /\ p.key \in Key
    BY DEF Place
  <2>3. CASE IdAt(home) # 0
    BY <1>6, <2>1, <2>3 DEF CreateEntry, IdAt
  <2>4. CASE IdAt(home) = 0
    <3>1. created' = created + 1 /\ storage' = [storage EXCEPT ![p.board][p.key] = created']
      BY <1>6, <2>1, <2>4 DEF CreateEntry
    <3>2. storage'[p.board][p.key] = created' /\ created' # 0
      BY <1>5, <2>2, <3>1
    <3>3. ASSUME NEW q \in Place, q # p
          PROVE  storage'[q.board][q.key] = storage[q.board][q.key]
      <4>1. q.board # p.board \/ q.key # p.key
        BY <3>3 DEF Place
      <4>. QED
        BY <1>5, <2>2, <3>1, <4>1 DEF Place
    <3>. QED
      BY <1>6, <2>1, <3>2, <3>3
  <2>. QED
    BY <2>3, <2>4
<1>8. ~GoesUp(p)'
  BY <1>7 DEF GoesUp
<1>9. Target(FALSE)'[begin] = home
  BY <1>1, <1>2, <1>4, <1>7, <1>8, SearchKept
<1>10. Target(TRUE)'[begin] = Target(FALSE)'[begin]
  <2>1. PlainRemap'
    BY DEF PlainRemap
  <2>. QED
    BY <1>1, <2>1, FindIsHomeNext
<1>11. IdAt(Find(b, k))' = storage'[Target(TRUE)'[begin].board][Target(TRUE)'[begin].key]
  BY DEF IdAt, Find
<1>. QED
  BY <1>3, <1>7, <1>9, <1>10, <1>11 DEF Spot

\* What set() writes is what a get() of the same key finds, unless it was unset:
\* between the search and the creation, and between the creation and the writing,
\* other threads may create and erase what they like.  PlainRemap is needed:
\* getEntry() takes a remapping to "@k" to the root, createEntryImpl() does not.
THEOREM WrittenFound == PlainRemap => (Spec => []WrittenIsFound)
<1>. SUFFICES ASSUME PlainRemap PROVE Spec => []WrittenIsFound
  OBVIOUS
<1>. USE DEF Setting
<1>1. Init => WrittenInv
  <2>1. Init => \A t \in Thread : thread[t].pc = "rest"
    BY RestTyped DEF Init
  <2>. QED
    BY <2>1 DEF WrittenInv
<1>2. BlackboardInv /\ BlackboardInv' /\ WrittenInv /\ [Next]_vars => WrittenInv'
  <2>. SUFFICES ASSUME BlackboardInv, BlackboardInv', WrittenInv, [Next]_vars, NEW t \in Thread,
                       thread'[t].pc \in Setting
       PROVE /\ thread'[t].key \notin DOMAIN AtKey
             /\ thread'[t].pc \in {"write", "count"} =>
                  \/ IdAt(Find(thread[t].board, thread[t].key))' = thread'[t].id
                  \/ thread'[t].id \in erased'
    BY DEF WrittenInv
  <2>1. PICK b, k : b = thread[t].board /\ k = thread[t].key
    OBVIOUS
  <2>2. b \in Board /\ k \in Key
    BY <2>1, Types DEF BlackboardInv, CallsOK, Calls
  <2>3. CASE /\ thread'[t].pc = "set"
             /\ \E port \in Place : /\ thread'[t].board = Start(port).board
                                    /\ thread'[t].key = Start(port).key
    BY <2>3, StartIsPlace
  <2>4. ASSUME thread[t].pc \in Setting,
               thread'[t].board = b, thread'[t].key = k
        PROVE  /\ thread'[t].key \notin DOMAIN AtKey
               /\ IdAt(Find(thread[t].board, thread[t].key))' = IdAt(Find(b, k))'
    BY <2>1, <2>4 DEF WrittenInv
  <2>5. CASE /\ thread[t].pc \in Setting
             /\ thread'[t].board = b /\ thread'[t].key = k
             /\ thread'[t].id = thread[t].id
             /\ thread'[t].pc \in {"write", "count"} => thread[t].pc \in {"write", "count"}
    <3>1. CASE thread'[t].pc \notin {"write", "count"}
      BY <2>4, <2>5, <3>1
    <3>2. CASE thread'[t].pc \in {"write", "count"}
      <4>1. thread[t].pc \in {"write", "count"}
        BY <2>5, <3>2
      <4>2. PICK i \in Id : i = thread[t].id
        BY <4>1, Types, Bounds DEF BlackboardInv, CallsOK, Calls, HasId
      <4>3. IdAt(Find(b, k)) = i \/ i \in erased
        BY <2>1, <4>1, <4>2 DEF WrittenInv
      <4>4. (IdAt(Find(b, k)) = i)' \/ i \in erased'
        <5>1. [board |-> b, key |-> k] \in Place
          BY <2>2 DEF Place
        <5>. QED
          BY <4>3, <5>1, FoundKept
      <4>. QED
        BY <2>4, <2>5, <4>2, <4>4
    <3>. QED
      BY <3>1, <3>2
  <2>6. CASE /\ Create(t) /\ thread[t].pc \in Setting
             /\ thread'[t].board = b /\ thread'[t].key = k
    <3>1. thread'[t].pc = "write"
      <4>1. thread \in [Thread -> Calls]
        BY Types DEF BlackboardInv, CallsOK
      <4>. QED
        BY <2>6, <4>1, RestTyped DEF Create, End, Calls
    <3>2. thread[t].key \notin DOMAIN AtKey
      BY <2>6 DEF WrittenInv
    <3>3. IdAt(Find(b, k))' = thread'[t].id
      BY <2>1, <2>6, <3>1, <3>2, CreatedIsFound
    <3>. QED
      BY <2>4, <2>6, <3>3
  <2>. QED
    BY <2>1, <2>3, <2>5, <2>6, ToWrite
<1>3. WrittenInv => WrittenIsFound
  BY DEF WrittenInv, WrittenIsFound, At
<1>. QED
  BY <1>1, <1>2, <1>3, BlackboardInvariant, PTL DEF Spec

-------------------------------------------------------------------------------
(* What EntryUpdated sees. *)

Counting(w, i) == thread[w].pc = "count" /\ thread[w].id = i

\* What a step does to the number and the value of an entry.
Moved(i) ==
    \/ i \in raced'
    \/ entry'[i].seq = entry[i].seq + 1
    \/ /\ entry'[i].seq = entry[i].seq
       /\ entry'[i].value = entry[i].value \/ \E w \in Thread : Counting(w, i)'
       /\ \A w \in Thread : Counting(w, i) => Counting(w, i)'

\* A step that changes a value increases the number, is in the middle of a write,
\* or has lost the increment of another thread.
LEMMA ChangeSteps ==
    ASSUME BlackboardInv, [Next]_vars
    PROVE  raced \subseteq raced' /\ \A i \in Id : Moved(i)
<1>1. thread \in [Thread -> Calls] /\ entry \in [Id -> Entries]
      /\ \A w \in Thread : thread[w].pc \in HasId => thread[w].id \in Id
  BY Types, Bounds DEF BlackboardInv, CallsOK, Calls
<1>2. \A i \in Id : entry[i] \in Entries
  BY <1>1
<1>3. CASE UNCHANGED vars
  BY <1>3 DEF vars, dataVars, Moved, Counting
<1>4. CASE Next
  <2>1. PICK t \in Thread :
        \/ Set(t) \/ FindLocal(t) \/ Assign(t) \/ CallCreateEntry(t) \/ GetAnyLocked(t)
        \/ CheckUpdated(t) \/ Unset(t) \/ Update(t) \/ Create(t) \/ Write(t) \/ Count(t)
        \/ FindEntry(t) \/ Declare(t) \/ AssignValue(t) \/ Convert(t) \/ Release(t)
    BY <1>4, NextSteps
  <2>2. \A w \in Thread \ {t} : thread'[w] = thread[w]
    BY <2>1, OthersStay
  <2>3. ASSUME thread[t].pc # "count", NEW i \in Id,
               entry'[i].seq = entry[i].seq, entry'[i].value = entry[i].value
        PROVE  Moved(i)
    BY <2>2, <2>3 DEF Moved, Counting
  <2>4. CASE thread[t].pc # "count" /\ UNCHANGED entry /\ UNCHANGED raced
    BY <2>3, <2>4
  <2>5. ASSUME NEW k \in Id, NEW info, NEW type, Store(t, k, info, type),
               thread[t].pc # "count", UNCHANGED raced
        PROVE  raced \subseteq raced' /\ \A i \in Id : Moved(i)
    <3>1. entry'[k].seq = entry[k].seq + 1 /\ \A i \in Id \ {k} : entry'[i] = entry[i]
      BY <1>1, <2>5 DEF Store
    <3>2. Moved(k)
      BY <3>1 DEF Moved
    <3>. QED
      BY <2>3, <2>5, <3>1, <3>2
  <2>6. CASE Update(t) \/ AssignValue(t) \/ Convert(t)
    <3>1. thread[t].id \in Id /\ thread[t].pc # "count" /\ UNCHANGED raced
      BY <1>1, <2>6 DEF Update, AssignValue, Convert, At, HasId
    <3>2. UNCHANGED entry \/ \E info, type : Store(t, thread[t].id, info, type)
      BY <2>6 DEF Update, AssignValue, Convert
    <3>. QED
      BY <2>4, <2>5, <3>1, <3>2
  <2>7. ASSUME NEW target, NEW info, CreateEntry(target, info)
        PROVE  \A i \in Id : entry'[i].seq = entry[i].seq /\ entry'[i].value = entry[i].value
    BY <1>1, <1>2, <2>7 DEF CreateEntry, Entries
  <2>8. CASE Create(t) \/ Declare(t)
    <3>1. thread[t].pc # "count" /\ UNCHANGED raced
      BY <2>8 DEF Create, Declare, At
    <3>2. UNCHANGED entry \/ \E target, info : CreateEntry(target, info)
      BY <2>8 DEF Create, Declare
    <3>3. CASE \E target, info : CreateEntry(target, info)
      BY <2>3, <2>7, <3>1, <3>3
    <3>. QED
      BY <2>4, <3>1, <3>2, <3>3
  <2>9. CASE Write(t)
    <3>. PICK k \in Id : k = thread[t].id
      BY <1>1, <2>9 DEF Write, At, HasId
    <3>1. thread[t].pc # "count" /\ UNCHANGED raced
      BY <2>9 DEF Write, At
    <3>2. Counting(t, k)'
      BY <1>1, <2>9 DEF Write, Calls, Counting
    <3>3. \A i \in Id \ {k} : entry'[i] = entry[i]
      BY <1>1, <2>9 DEF Write
    <3>4. entry'[k].seq = entry[k].seq
      <4>1. entry[k] \in Entries
        BY <1>1, <3>1
      <4>. QED
        BY <1>1, <2>9, <3>1, <4>1 DEF Write, Entries
    <3>5. Moved(k)
      <4>1. \A w \in Thread : Counting(w, k) => Counting(w, k)'
        BY <2>2, <3>1 DEF Counting
      <4>. QED
        BY <3>2, <3>4, <4>1 DEF Moved
    <3>. QED
      BY <2>3, <3>1, <3>3, <3>5
  <2>10. CASE Count(t)
    <3>. PICK k \in Id : k = thread[t].id
      BY <1>1, <2>10 DEF Count, At, HasId
    <3>1. thread[t].pc = "count"
      BY <2>10 DEF Count, At
    <3>2. /\ raced' = IF entry[k].seq = thread[t].seq THEN raced ELSE raced \cup {k}
          /\ entry' = [entry EXCEPT ![k].seq = thread[t].seq + 1]
      BY <2>10 DEF Count
    <3>3. Moved(k)
      <4>1. entry'[k].seq = thread[t].seq + 1
        <5>1. entry[k] \in Entries
          BY <1>1, <3>1
        <5>. QED
          BY <1>1, <3>1, <3>2, <5>1 DEF Entries
      <4>. QED
        BY <3>2, <4>1 DEF Moved
    <3>4. ASSUME NEW i \in Id, i # k PROVE Moved(i)
      <4>1. entry'[i] = entry[i]
        BY <1>1, <3>1, <3>2, <3>4
      <4>2. \A w \in Thread : Counting(w, i) => Counting(w, i)'
        BY <2>2, <3>4 DEF Counting
      <4>. QED
        BY <4>1, <4>2 DEF Moved
    <3>. QED
      BY <3>2, <3>3, <3>4
  <2>11. CASE \/ Set(t) \/ FindLocal(t) \/ Assign(t) \/ CallCreateEntry(t) \/ FindEntry(t)
    <3>1. thread[t].pc # "count" /\ UNCHANGED entry /\ UNCHANGED raced
      BY <2>11 DEF Set, FindLocal, Assign, CallCreateEntry, FindEntry, dataVars, At
    <3>. QED
      BY <2>4, <3>1
  <2>12. CASE GetAnyLocked(t) \/ CheckUpdated(t) \/ Unset(t) \/ Release(t)
    <3>1. thread[t].pc # "count" /\ UNCHANGED entry /\ UNCHANGED raced
      BY <2>12 DEF GetAnyLocked, CheckUpdated, Unset, Release, dataVars, At
    <3>. QED
      BY <2>4, <3>1
  <2>. QED
    BY <2>1, <2>6, <2>8, <2>9, <2>10, <2>11, <2>12
<1>. QED
  BY <1>3, <1>4

\* The number EntryUpdated has seen is at most that of the entry it was of, if no
\* increment was lost; while they are equal and nobody writes, so are the values.
SeenInv ==
    \A t \in Thread :
      seen[t].id # 0 /\ seen[t].id \notin raced =>
        /\ seen[t].seq <= entry[seen[t].id].seq
        /\ seen[t].seq = entry[seen[t].id].seq /\ (\A w \in Thread : ~Counting(w, seen[t].id))
             => seen[t].value = entry[seen[t].id].value

\* The entry it has seen, or is about to see, is still the one it would find,
\* unless it was erased.
StillFound(i) == IdAt(Find(Watched.board, Watched.key)) = i \/ i \in erased
SeenIsFound ==
    \A t \in Thread :
      /\ seen[t].id # 0 => StillFound(seen[t].id)
      /\ thread[t].pc = "check" => StillFound(thread[t].id)

\* What EntryUpdated does: it looks for its entry, and sees it in its next step.
LEMMA SeenSteps ==
    ASSUME BlackboardInv, [Next]_vars, NEW t \in Thread
    PROVE  /\ \/ seen'[t] = seen[t]
              \/ /\ UNCHANGED entry /\ thread[t].pc = "check" /\ thread[t].id \in Id
                 /\ seen'[t] = [id |-> thread[t].id, seq |-> entry[thread[t].id].seq,
                                value |-> entry[thread[t].id].value]
           /\ thread'[t].pc = "check" =>
                \/ thread[t].pc = "check" /\ thread'[t].id = thread[t].id
                \/ thread'[t].id = IdAt(Find(Watched.board, Watched.key))
<1>1. /\ seen \in [Thread -> [id : 0 .. MaxEntries, seq : Nat, value : 0 .. MaxWrites]]
      /\ thread[t].pc \in HasId => thread[t].id \in Id
      /\ thread \in [Thread -> Calls]
  BY Types, Bounds DEF BlackboardInv, CallsOK, Calls
<1>2. CASE UNCHANGED vars
  BY <1>2 DEF vars
<1>3. CASE Next
  <2>1. PICK u \in Thread :
        \/ Set(u) \/ FindLocal(u) \/ Assign(u) \/ CallCreateEntry(u) \/ GetAnyLocked(u)
        \/ CheckUpdated(u) \/ Unset(u) \/ Update(u) \/ Create(u) \/ Write(u) \/ Count(u)
        \/ FindEntry(u) \/ Declare(u) \/ AssignValue(u) \/ Convert(u) \/ Release(u)
    BY <1>3, NextSteps
  <2>2. u # t => thread'[t] = thread[t]
    BY <2>1, OthersStay
  <2>3. Rest.pc # "check"
    BY RestTyped
  <2>4. CASE CheckUpdated(u)
    <3>1. UNCHANGED entry
      BY <2>4 DEF CheckUpdated, dataVars
    <3>2. CASE /\ LET found == Find(Watched.board, Watched.key)
                  IN  thread' = [thread EXCEPT ![u].pc = "check", ![u].id = IdAt(found)]
               /\ UNCHANGED seen
      BY <1>1, <2>2, <3>2 DEF Calls
    <3>3. CASE /\ At(u, "check")
               /\ LET e == entry[thread[u].id]
                  IN  seen' = [seen EXCEPT ![u] =
                                 [id |-> thread[u].id, seq |-> e.seq, value |-> e.value]]
               /\ End(u)
      <4>1. CASE u = t
        <5>1. thread'[t] = Rest
          BY <1>1, <3>3, <4>1 DEF End
        <5>. QED
          BY <1>1, <2>3, <3>1, <3>3, <4>1, <5>1 DEF At, HasId
      <4>2. CASE u # t
        BY <1>1, <2>2, <3>3, <4>2
      <4>. QED
        BY <4>1, <4>2
    <3>. QED
      BY <2>4, <3>2, <3>3 DEF CheckUpdated
  <2>5. CASE ~CheckUpdated(u)
    <3>1. UNCHANGED seen
      BY <2>1, <2>5 DEF Set, FindLocal, Assign, CallCreateEntry, GetAnyLocked, Unset, Update,
                        Create, Write, Count, FindEntry, Declare, AssignValue, Convert, Release
    <3>2. thread'[u].pc = "check" => thread'[u] = thread[u]
      <4>1. CASE Set(u) \/ FindLocal(u) \/ Assign(u)
        BY <1>1, <4>1 DEF Set, FindLocal, Assign, Go, Calls
      <4>2. CASE CallCreateEntry(u)
        BY <1>1, <4>2, RestTyped DEF CallCreateEntry, Calls
      <4>3. CASE GetAnyLocked(u) \/ Unset(u) \/ Release(u)
        BY <1>1, <2>3, <4>3 DEF GetAnyLocked, Unset, Release, End, Calls
      <4>4. CASE Update(u) \/ Count(u) \/ Convert(u)
        BY <1>1, <2>3, <4>4 DEF Update, Count, Convert, End
      <4>5. CASE Create(u) \/ Write(u)
        BY <1>1, <2>3, <4>5 DEF Create, Write, End, Calls
      <4>6. CASE FindEntry(u) \/ Declare(u) \/ AssignValue(u)
        BY <1>1, <2>3, <4>6 DEF FindEntry, Declare, AssignValue, End, Go, Calls
      <4>. QED
        BY <2>1, <2>5, <4>1, <4>2, <4>3, <4>4, <4>5, <4>6
    <3>. QED
      BY <2>2, <3>1, <3>2
  <2>. QED
    BY <2>4, <2>5
<1>. QED
  BY <1>2, <1>3

\* SeenInv is inductive.
LEMMA SeenKept == BlackboardInv /\ SeenInv /\ [Next]_vars => SeenInv'
<1>. SUFFICES ASSUME BlackboardInv, SeenInv, [Next]_vars,
                     NEW t \in Thread, seen'[t].id # 0, seen'[t].id \notin raced'
     PROVE /\ seen'[t].seq <= entry'[seen'[t].id].seq
           /\ seen'[t].seq = entry'[seen'[t].id].seq
              /\ (\A w \in Thread : ~Counting(w, seen[t].id)')
                => seen'[t].value = entry'[seen'[t].id].value
  BY DEF SeenInv
<1>1. CASE /\ UNCHANGED entry /\ thread[t].id \in Id
           /\ seen'[t] = [id |-> thread[t].id, seq |-> entry[thread[t].id].seq,
                          value |-> entry[thread[t].id].value]
  <2>1. entry[thread[t].id].seq \in Nat
    <3>1. entry[thread[t].id] \in Entries
      BY <1>1, Types DEF BlackboardInv
    <3>. QED
      BY <3>1 DEF Entries
  <2>. QED
    BY <1>1, <2>1
<1>2. CASE seen'[t] = seen[t]
  <2>1. PICK i \in Id : i = seen[t].id
    BY <1>2, Types, Bounds DEF BlackboardInv
  <2>2. entry[i].seq \in Nat /\ seen[t].seq \in Nat
    <3>1. entry[i] \in Entries /\ seen[t].seq \in Nat
      BY Types DEF BlackboardInv
    <3>. QED
      BY <3>1 DEF Entries
  <2>3. i \notin raced' /\ i \notin raced
    BY <1>2, <2>1, ChangeSteps
  <2>4. /\ seen[t].seq <= entry[i].seq
        /\ seen[t].seq = entry[i].seq /\ (\A w \in Thread : ~Counting(w, i))
             => seen[t].value = entry[i].value
    BY <1>2, <2>1, <2>3 DEF SeenInv
  <2>5. Moved(i)
    BY ChangeSteps
  <2>6. CASE entry'[i].seq = entry[i].seq + 1
    BY <1>2, <2>1, <2>2, <2>4, <2>6
  <2>7. CASE /\ entry'[i].seq = entry[i].seq
             /\ entry'[i].value = entry[i].value \/ \E w \in Thread : Counting(w, i)'
             /\ \A w \in Thread : Counting(w, i) => Counting(w, i)'
    <3>1. \A w \in Thread : Counting(w, seen[t].id)' = Counting(w, i)'
      BY <1>2, <2>1 DEF Counting
    <3>. QED
      BY <1>2, <2>1, <2>2, <2>4, <2>7, <3>1
  <2>. QED
    BY <2>3, <2>5, <2>6, <2>7 DEF Moved
<1>. QED
  BY <1>1, <1>2, SeenSteps

\* So is SeenIsFound: a search ends where it did, until its entry is erased.
LEMMA SeenFoundKept == BlackboardInv /\ SeenIsFound /\ [Next]_vars => SeenIsFound'
<1>. SUFFICES ASSUME BlackboardInv, SeenIsFound, [Next]_vars PROVE SeenIsFound'
  OBVIOUS
<1>1. Watched \in Place
  BY CallsAssumption DEF Place
<1>2. \A i \in Id : StillFound(i) => StillFound(i)'
  BY <1>1, FoundKept DEF StillFound
<1>3. ASSUME NEW t \in Thread, NEW j \in Id,
             seen'[t].id = j \/ (thread'[t].pc = "check" /\ thread'[t].id = j)
      PROVE  StillFound(j)'
  <2>1. CASE thread'[t].pc = "check" /\ thread'[t].id = j
    <3>1. StillFound(j)
      BY <2>1, SeenSteps DEF SeenIsFound, StillFound
    <3>. QED
      BY <1>2, <3>1
  <2>2. CASE seen'[t].id = j
    <3>1. StillFound(j)
      <4>1. CASE seen'[t] = seen[t]
        BY <2>2, <4>1, Bounds DEF SeenIsFound
      <4>2. CASE thread[t].pc = "check" /\ seen'[t].id = thread[t].id
        BY <2>2, <4>2 DEF SeenIsFound
      <4>3. \/ seen'[t] = seen[t]
            \/ /\ UNCHANGED entry /\ thread[t].pc = "check" /\ thread[t].id \in Id
               /\ seen'[t] = [id |-> thread[t].id, seq |-> entry[thread[t].id].seq,
                              value |-> entry[thread[t].id].value]
        BY SeenSteps
      <4>. QED
        BY <4>1, <4>2, <4>3
    <3>. QED
      BY <1>2, <3>1
  <2>. QED
    BY <1>3, <2>1, <2>2
<1>4. BlackboardInv'
  BY NextSteps, StutterTyped, SetTyped, FindLocalTyped, AssignTyped, CallCreateEntryTyped,
     GetAnyLockedTyped, CheckUpdatedTyped, UnsetTyped, UpdateTyped, CreateStep, WriteTyped,
     CountTyped, FindEntryTyped, DeclareTyped, AssignValueTyped, ConvertTyped, ReleaseTyped
<1>5. ASSUME NEW t \in Thread
      PROVE  /\ seen'[t].id # 0 => seen'[t].id \in Id
             /\ thread'[t].pc = "check" => thread'[t].id \in Id
  BY <1>4, TypesNext, Bounds DEF BlackboardInv, CallsOK, Calls, HasId
<1>6. ASSUME NEW t \in Thread, seen'[t].id # 0
      PROVE  \/ IdAt(Find(Watched.board, Watched.key))' = seen'[t].id
             \/ seen'[t].id \in erased'
  <2>1. PICK j \in Id : j = seen'[t].id
    BY <1>5, <1>6
  <2>2. StillFound(j)'
    BY <1>3, <2>1
  <2>. QED
    BY <2>1, <2>2 DEF StillFound
<1>7. ASSUME NEW t \in Thread, thread'[t].pc = "check"
      PROVE  \/ IdAt(Find(Watched.board, Watched.key))' = thread'[t].id
             \/ thread'[t].id \in erased'
  <2>1. PICK j \in Id : j = thread'[t].id
    BY <1>5, <1>7
  <2>2. StillFound(j)'
    BY <1>3, <1>7, <2>1
  <2>. QED
    BY <2>1, <2>2 DEF StillFound
<1>. QED
  BY <1>6, <1>7 DEF SeenIsFound, StillFound

\* EntryUpdated misses no change, however many threads write: when the number it
\* has seen is that of the entry it finds, and no write is in progress, the value is
\* the one it has seen; unless the entry it has seen was unset, or the increment of
\* its number was lost (updated_action.cpp, tick(); blackboard.h, set()).
THEOREM NoChangeIsMissed == Spec => []NoChangeMissed
<1>1. Init => SeenInv /\ SeenIsFound
  <2>1. Init => \A t \in Thread : thread[t].pc = "rest" /\ seen[t].id = 0
    BY RestTyped DEF Init
  <2>. QED
    BY <2>1 DEF SeenInv, SeenIsFound
<1>2. SeenInv /\ SeenIsFound => NoChangeMissed
  BY DEF SeenInv, SeenIsFound, StillFound, NoChangeMissed, Counting, At
<1>. QED
  BY <1>1, <1>2, SeenKept, SeenFoundKept, BlackboardInvariant, PTL DEF Spec

===============================================================================
