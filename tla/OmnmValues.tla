------------------------------ MODULE OmnmValues ------------------------------
(***************************************************************************)
(* What numbers and times become on their way into a field and out of it.  *)
(*                                                                         *)
(* An update copies the bytes of the value it is given and leaves the type *)
(* of the field: the bytes of a U8 may be stored in an I8.  A read takes   *)
(* the bytes for a value of the field's type and converts it to the type   *)
(* that is asked for.  Times are stored with seconds of 64 bits, signed,   *)
(* and nanoseconds; the middleware's own have 32 bits, unsigned, and       *)
(* microseconds.                                                           *)
(*                                                                         *)
(* How many numbers a type of one, two, four or eight bytes has is a       *)
(* constant.  Of the floating point numbers there are some integers.       *)
(*                                                                         *)
(* Spec is the behaviour under clients that keep to the rule SameKind.     *)
(***************************************************************************)
EXTENDS Integers

CONSTANTS
    Half,       \* half of the numbers of a type of n bytes: 2^(8n - 1)
    FloatBits,  \* for each floating type, the bits of the numbers it can hold
    Odd,        \* a floating point number that is none of those
    Numbers,    \* the numbers clients store
    Times,      \* the times clients store: [secs, micros, prec, hints]
    NoField

ASSUME HalfAssumption == Half \in [{1, 2, 4, 8} -> Nat \ {0}]

ASSUME FloatAssumption ==
    \A t \in {"F32", "F64"} :
        /\ Odd \notin DOMAIN FloatBits[t]
        /\ \A x, y \in DOMAIN FloatBits[t] :
            x # y => FloatBits[t][x] # FloatBits[t][y]

ASSUME NumbersAssumption == Numbers \subseteq Int /\ Odd \notin Int

\* The middleware's times: what 32 bits can hold, and parts of a second.
ASSUME TimesAssumption ==
    \A dt \in Times :
        /\ dt = [secs |-> dt.secs, micros |-> dt.micros,
                 prec |-> dt.prec, hints |-> dt.hints]
        /\ dt.secs \in Nat /\ dt.secs < 2 * Half[4]
        /\ dt.micros \in Nat
        /\ dt.prec \in Nat /\ dt.prec < 2 * Half[1]
        /\ dt.hints \in Nat /\ dt.hints < 2 * Half[1]

VARIABLES
    field,  \* the field: [type, bytes]
    given   \* the value that was stored in it last: [type, val]

vars == <<field, given>>

SignedTypes   == {"CHAR", "I8", "I16", "I32", "I64"}
UnsignedTypes == {"BOOL", "U8", "U16", "U32", "U64"}
FloatTypes    == {"F32", "F64"}
IntTypes      == SignedTypes \cup UnsignedTypes
NumberTypes   == IntTypes \cup FloatTypes

Size(t) ==
    CASE t \in {"BOOL", "CHAR", "I8", "U8"} -> 1
      [] t \in {"I16", "U16"}               -> 2
      [] t \in {"I32", "U32", "F32"}        -> 4
      [] t \in {"I64", "U64", "F64"}        -> 8

\* How many numbers an integer type has.
Count(t) == 2 * Half[Size(t)]

-----------------------------------------------------------------------------
(* Numbers. *)

\* The bytes of v as a value of type t.
Bytes(t, v) == IF t \in FloatTypes THEN FloatBits[t][v] ELSE v % Count(t)

\* The value of type t that has the bytes b.
Value(t, b) ==
    IF t \in FloatTypes
    THEN IF \E x \in DOMAIN FloatBits[t] : FloatBits[t][x] = b
         THEN CHOOSE x \in DOMAIN FloatBits[t] : FloatBits[t][x] = b
         ELSE Odd
    ELSE IF t \in SignedTypes /\ b >= Half[Size(t)] THEN b - Count(t)
    ELSE b

Least(t)    == IF t \in SignedTypes THEN -Half[Size(t)] ELSE 0
Greatest(t) == IF t \in SignedTypes THEN Half[Size(t)] - 1 ELSE Count(t) - 1

CanHold(t, v) ==
    IF t \in FloatTypes THEN v \in DOMAIN FloatBits[t]
    ELSE Least(t) <= v /\ v <= Greatest(t)

\* Slip: what is out of range becomes the nearest value.
Converted_Nearest(v, t) ==
    CASE v = Odd       -> Odd
      [] CanHold(t, v) -> v
      [] OTHER -> IF t \in FloatTypes THEN Odd
                  ELSE IF v < Least(t) THEN Least(t) ELSE Greatest(t)

\* A cast of v to type t: integers wrap.
Converted(v, t) ==
    CASE v = Odd         -> Odd
      [] t \in IntTypes  -> Value(t, Bytes(t, v))
      [] t \in FloatTypes -> IF CanHold(t, v) THEN v ELSE Odd

\* Slip: the bytes are copied, as those of other types are.
ReadAs_Copied(f, t) == Value(t, f.bytes)

\* getFieldValueAsCopy, for a field that is not wider than the result.
ReadAs(f, t) == Converted(Value(f.type, f.bytes), t)

SameWidth(t, u) == Size(t) = Size(u)

\* The rule: integers are not stored where a floating point number is, nor
\* the other way around.
SameKind(t, u) == t \in FloatTypes <=> u \in FloatTypes

Put(t, v, b) ==
    /\ field' = [type |-> t, bytes |-> b]
    /\ given' = v

Add(t, v) ==
    /\ field = NoField /\ CanHold(t, v)
    /\ Put(t, [type |-> t, val |-> v], Bytes(t, v))

\* An update with a value of the same width; the field keeps its type.
Update(t, v) ==
    /\ field # NoField /\ field.type \in NumberTypes
    /\ SameWidth(t, field.type) /\ CanHold(t, v)
    /\ Put(field.type, [type |-> t, val |-> v], Bytes(t, v))

-----------------------------------------------------------------------------
(* Times. *)

U32 == Count("U32")
U8  == Count("U8")

\* convertMamaDateTimeToOmnmDateTime.  The nanoseconds of a second fit in
\* 32 bits.
WireTime(dt) ==
    [secs  |-> dt.secs % U32, nanos |-> dt.micros * 1000,
     prec  |-> dt.prec % U8,  hints |-> dt.hints % U8]

\* Slip: nanoseconds are passed on as they are.
HostTime_Nanos(w) ==
    [secs |-> w.secs % U32, micros |-> w.nanos, prec |-> w.prec, hints |-> w.hints]

\* convertOmnmDateTimeToMamaDateTime.
HostTime(w) ==
    [secs |-> w.secs % U32, micros |-> w.nanos \div 1000,
     prec |-> w.prec, hints |-> w.hints]

\* addDateTime is updateDateTime.
StoreTime(dt) ==
    /\ field # NoField => field.type = "TIME"
    /\ Put("TIME", [type |-> "TIME", val |-> dt], WireTime(dt))

Clear ==
    /\ field' = NoField
    /\ given' = NoField

-----------------------------------------------------------------------------

Init == field = NoField /\ given = NoField

Next ==
    \/ Clear
    \/ \E dt \in Times : StoreTime(dt)
    \/ \E t \in NumberTypes, v \in Numbers :
        \/ Add(t, v)
        \/ field # NoField /\ SameKind(t, field.type) /\ Update(t, v)

Spec == Init /\ [][Next]_vars

-----------------------------------------------------------------------------
(* Properties. *)

HoldsNumber == field # NoField /\ field.type \in NumberTypes

\* Payload.h:292, "Update payload field according to the type and values
\* provided": a number that was stored is read back by the getter of the
\* type it was stored with, whatever type of that width the field has.
ReadsBack == HoldsNumber => ReadAs(field, given.type) = given.val

\* A number in a field of its own type is read by the getter of every type
\* at least as wide that can hold it: negative numbers are extended, large
\* unsigned ones do not become negative.
WiderReads ==
    HoldsNumber /\ field.type = given.type =>
        \A t \in NumberTypes :
            Size(field.type) <= Size(t) /\ CanHold(t, given.val)
                => ReadAs(field, t) = given.val

\* A time of the middleware is read back with its seconds, microseconds,
\* precision and hints.
TimeReadsBack ==
    field # NoField /\ given.type = "TIME" => HostTime(field.bytes) = given.val

=============================================================================
