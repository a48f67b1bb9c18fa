-------------------------------- MODULE Numbers --------------------------------
(***************************************************************************)
(* Numbers in an entry of the blackboard that declares its type: set() with *)
(* the checks of isCastingSafe(), Any::copyInto(), and get() with those of *)
(* convertNumber() (blackboard.h, safe_any.hpp, convert_impl.hpp).         *)
(*                                                                         *)
(* A value is counted in halves, so that there are fractions: v stands for *)
(* v / 2, and an integer is even.  A type is an integer of so many bits or *)
(* a floating point number with so many digits; exponents have no limit.   *)
(* A cast without a defined result may have any; operators return the set  *)
(* of what they may return.                                                *)
(***************************************************************************)
EXTENDS Integers

CONSTANTS
    Type,           \* the arithmetic types
    Values,         \* the values written, in halves
    Wide, Digits,   \* bits of int64_t and uint64_t, digits of double
    MaxExponent     \* bound: no value has more digits than this

VARIABLES
    declared,       \* info of the entry
    any,            \* its value: the type it is stored as, and the number
    written,        \* history: the value of the last set() that did not throw,
    from,           \* and its type
    read            \* the type and result of the last get() since

vars == <<declared, any, written, from, read>>

Integer(signed, bits) == [kind |-> "integer", signed |-> signed, bits |-> bits]
Float(digits) == [kind |-> "float", signed |-> TRUE, bits |-> digits]
Bool == [kind |-> "bool", signed |-> FALSE, bits |-> 1]

Int64 == Integer(TRUE, Wide)
UInt64 == Integer(FALSE, Wide)
Double == Float(Digits)

IsFloat(T) == T.kind = "float"

\* numeric_limits<T>::max() and lowest() of an integer or bool
Largest(T) == 2 * (2 ^ (IF T.signed THEN T.bits - 1 ELSE T.bits) - 1)
Lowest(T) == IF T.signed THEN - 2 * 2 ^ (T.bits - 1) ELSE 0

Abs(v) == IF v < 0 THEN - v ELSE v

IsValue(v, T) ==
    IF IsFloat(T)
    THEN \E e \in 0 .. MaxExponent : v % 2 ^ e = 0 /\ Abs(v) \div 2 ^ e < 2 ^ T.bits
    ELSE v % 2 = 0 /\ v \in Lowest(T) .. Largest(T)

-------------------------------------------------------------------------------
(* static_cast *)

\* Rounding to the nearest floating point number, ties to even.
Round(v, digits) ==
    LET e == CHOOSE x \in 0 .. MaxExponent :
               /\ Abs(v) < 2 ^ (digits + x)
               /\ x > 0 => Abs(v) >= 2 ^ (digits + x - 1)
        unit == 2 ^ e
        low == v \div unit
        rest == 2 * (v % unit)
    IN  IF rest > unit \/ (rest = unit /\ low % 2 = 1) THEN (low + 1) * unit ELSE low * unit

Truncate(v) == IF v % 2 = 0 THEN v ELSE IF v > 0 THEN v - 1 ELSE v + 1

Wrap(v, T) == Lowest(T) + ((v - Lowest(T)) % (2 * 2 ^ T.bits))

StaticCast(v, S, T) ==
    IF T.kind = "bool" THEN {IF v = 0 THEN 0 ELSE 2}
    ELSE IF IsFloat(T) THEN {Round(v, T.bits)}
    ELSE IF ~IsFloat(S) THEN {Wrap(v, T)}
    ELSE IF IsValue(Truncate(v), T) THEN {Truncate(v)}
    ELSE {w \in Lowest(T) .. Largest(T) : w % 2 = 0}

-------------------------------------------------------------------------------
(* ValidCast<SRC, TO>(val) and isCastingSafe() *)

\* There and back again.
RoundTrips(v, S, T) ==
    {back = v : back \in UNION {StaticCast(there, T, S) : there \in StaticCast(v, S, T)}}

\* The limits of T, as numbers of type S; a floating point T has none here.
Outside(v, S, T) ==
    /\ ~IsFloat(T)
    /\ \/ \E max \in StaticCast(Largest(T), T, S) : v > max
       \/ \E low \in StaticCast(Lowest(T), T, S) : v < low

\* Mutant of ValidCast: the limits are not looked at, nor is the result.
ValidCastUnchecked(v, S, T) == {TRUE}

ValidCast(v, S, T) == IF Outside(v, S, T) THEN {FALSE} ELSE RoundTrips(v, S, T)

IsCastingSafe(v, S, T) ==
    IF S = T THEN {TRUE} ELSE IF T.kind = "bool" THEN {FALSE} ELSE ValidCast(v, S, T)

-------------------------------------------------------------------------------
(* convertNumber<SRC, DST>() *)

Throws == [ok |-> FALSE, value |-> 0]
Results(values) == [ok : {TRUE}, value : values]

\* checkTruncation() of an integer; abs() of the lowest one overflows.
PrecisionIsLost(v, S) ==
    IF S.signed /\ v = Lowest(S) THEN BOOLEAN ELSE {Abs(v) > 2 * (2 ^ Digits - 1)}

\* checkTruncation() of a floating point number
IsTruncated(v, S, T) ==
    \/ v > Round(Largest(T), S.bits) \/ v < Round(Lowest(T), S.bits)
    \/ v % 2 # 0

\* checkUpperLimit() and checkLowerLimit(): what fits by its size and sign is
\* not compared.
LimitExceeded(v, S, T) ==
    \/ S.bits = T.bits /\ ~S.signed /\ T.signed /\ v > Largest(T)
    \/ S.bits > T.bits /\ v > Largest(T)
    \/ S.bits > T.bits /\ S.signed /\ v < Lowest(T)

\* Mutant of ConvertNumber: fractions are cut off.
ConvertNumberTruncates(v, S, T) ==
    IF S.signed /\ ~T.signed /\ v < 0 THEN {Throws}
    ELSE IF ~IsFloat(S) /\ ~IsFloat(T) /\ LimitExceeded(v, S, T) THEN {Throws}
    ELSE Results(StaticCast(v, S, T))

ConvertNumber(v, S, T) ==
    IF S.signed /\ ~T.signed /\ v < 0 THEN {Throws}
    ELSE IF S = T THEN Results({v})
    ELSE IF ~IsFloat(S) /\ ~IsFloat(T)
         THEN IF LimitExceeded(v, S, T) THEN {Throws} ELSE Results(StaticCast(v, S, T))
    ELSE IF (IsFloat(S) /\ IsFloat(T)) \/ T.kind = "bool" THEN Results(StaticCast(v, S, T))
    ELSE IF IsFloat(S)
         THEN IF IsTruncated(v, S, T) THEN {Throws} ELSE Results(StaticCast(v, S, T))
    ELSE UNION {IF lost THEN {Throws} ELSE Results(StaticCast(v, S, T)) :
                    lost \in PrecisionIsLost(v, S)}

-------------------------------------------------------------------------------
(* Any and the entry *)

\* The type in which Any stores a T.
CastedType(T) == IF IsFloat(T) THEN Double ELSE IF T = UInt64 THEN UInt64 ELSE Int64

Empty == [type |-> Bool, value |-> 0, empty |-> TRUE]
NeverRead == [type |-> Bool, ok |-> FALSE, value |-> 0]

\* copyInto(): the value that is there keeps the type it is stored as.
CopyInto(v, S) ==
    LET stored == CastedType(S)
    IN  IF any.empty \/ any.type = stored
        THEN {[ok |-> TRUE, any |-> [type |-> stored, value |-> v, empty |-> FALSE]]}
        ELSE {[ok |-> result.ok,
               any |-> IF result.ok THEN [any EXCEPT !.value = result.value] ELSE any] :
                 result \in ConvertNumber(v, stored, any.type)}

\* createEntry() of a port; the entry is empty.
Init ==
    /\ declared \in Type /\ any = Empty
    /\ written = 0 /\ from = declared /\ read = NeverRead

\* Blackboard::set<T>()
Set(v, T) ==
    /\ IsValue(v, T)
    /\ \E safe \in IsCastingSafe(v, T, declared) :
         \E copy \in CopyInto(v, T) :
            IF safe /\ copy.ok
            THEN any' = copy.any /\ written' = v /\ from' = T /\ read' = NeverRead
            ELSE UNCHANGED <<any, written, from, read>>
    /\ UNCHANGED declared

\* Blackboard::get<T>()
Get(T) ==
    /\ ~any.empty
    /\ \E result \in ConvertNumber(any.value, any.type, T) :
         read' = [type |-> T, ok |-> result.ok, value |-> result.value]
    /\ UNCHANGED <<declared, any, written, from>>

Next == \E T \in Type : Get(T) \/ \E v \in Values : Set(v, T)

Spec == Init /\ [][Next]_vars

-------------------------------------------------------------------------------
(* Properties. *)

\* Seen from a floating point type that does not have the largest number of T,
\* that number is the power of two above it.
TakenForLargest(T) == IsFloat(from) /\ ~IsValue(Largest(T), from) /\ written = Largest(T) + 2

\* An entry that declares an integer type (or bool) holds a number of that type,
\* whatever was written; except the power of two that was taken for the largest
\* number of that type, or of the one in which the entry stores its value.
FitsDeclaredType ==
    ~any.empty /\ ~IsFloat(declared) =>
        \/ IsValue(any.value, declared)
        \/ \E T \in {declared, any.type} \ {Double} : TakenForLargest(T)

\* A read returns the number that was written or throws; except that a fraction
\* may be read as a bool, that a float is the nearest one, and that the power
\* of two just above a 64-bit type, written as a float or double, is taken for its
\* largest number.
ReadIsWritten ==
    read.ok =>
        \/ read.value = written
        \/ read.type.kind = "bool" /\ any.type = Double
        \/ IsFloat(read.type) /\ read.value = Round(written, read.type.bits)
        \/ \E T \in {Int64, UInt64} : TakenForLargest(T)

===============================================================================
