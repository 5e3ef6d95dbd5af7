--------------------------- MODULE OmnmValuesProofs ---------------------------
(***************************************************************************)
(* That numbers and times are read back as they were stored, for types of  *)
(* any width.                                                              *)
(*                                                                         *)
(* An update leaves in the field what the value it is given leaves modulo  *)
(* the numbers of its type; a read of any type of that width, and the cast *)
(* back, keep the residue; and a type has one number for each residue.     *)
(***************************************************************************)
EXTENDS OmnmValues, TLAPS


-----------------------------------------------------------------------------
(* Residues. *)

\* What a number leaves modulo M, for the numbers of a type of M numbers.
LEMMA Residue ==
    ASSUME NEW M \in Nat \ {0}, NEW v \in Int
    PROVE  /\ v % M \in Nat /\ v % M < M
           /\ 0 <= v /\ v < M => v % M = v
           /\ -M <= v /\ v < 0 => v % M = v + M
OBVIOUS

-----------------------------------------------------------------------------
(* Types. *)

\* Integer types have numbers on each side of their middle.
LEMMA Widths ==
    ASSUME NEW t \in IntTypes
    PROVE  /\ Half[Size(t)] \in Nat \ {0}
           /\ Count(t) \in Nat \ {0}
           /\ Count(t) = 2 * Half[Size(t)]
<1>1. Size(t) \in {1, 2, 4, 8}
  BY DEF IntTypes, SignedTypes, UnsignedTypes, Size
<1> QED  BY <1>1, HalfAssumption DEF Count

\* An integer type is no floating type.
LEMMA Kinds ==
    /\ \A t \in IntTypes : t \notin FloatTypes
    /\ \A t \in NumberTypes : t \in IntTypes \/ t \in FloatTypes
    /\ \A t \in NumberTypes : t # "TIME"
BY DEF NumberTypes, IntTypes, SignedTypes, UnsignedTypes, FloatTypes

\* A read keeps the residue.
LEMMA ValueKeepsBytes ==
    ASSUME NEW t \in IntTypes, NEW u \in IntTypes, Count(t) = Count(u),
           NEW b \in Nat, b < Count(t)
    PROVE  Value(t, b) \in Int /\ Bytes(u, Value(t, b)) = b
<1>1. t \notin FloatTypes /\ u \notin FloatTypes
  BY Kinds
<1>2. /\ Count(t) \in Nat \ {0} /\ Half[Size(t)] \in Nat \ {0}
      /\ Count(t) = 2 * Half[Size(t)]
  BY Widths
<1>3. CASE t \in SignedTypes /\ b >= Half[Size(t)]
  <2>1. Value(t, b) = b - Count(t)
    BY <1>1, <1>3 DEF Value
  <2>2. b - Count(t) \in Int /\ -Count(t) <= b - Count(t) /\ b - Count(t) < 0
    BY <1>2
  <2>3. (b - Count(t)) % Count(t) = (b - Count(t)) + Count(t)
    BY <1>2, <2>2, Residue
  <2> QED  BY <1>1, <1>2, <2>1, <2>2, <2>3 DEF Bytes
<1>4. CASE ~ (t \in SignedTypes /\ b >= Half[Size(t)])
  <2>1. Value(t, b) = b
    BY <1>1, <1>4 DEF Value
  <2>2. b % Count(t) = b
    BY <1>2, Residue
  <2> QED  BY <1>1, <2>1, <2>2 DEF Bytes
<1> QED  BY <1>3, <1>4

\* A type has one number for each residue.
LEMMA ValueOfBytes ==
    ASSUME NEW t \in IntTypes, NEW v \in Int, CanHold(t, v)
    PROVE  /\ Bytes(t, v) \in Nat /\ Bytes(t, v) < Count(t)
           /\ Value(t, Bytes(t, v)) = v
<1>1. t \notin FloatTypes
  BY Kinds
<1>2. /\ Count(t) \in Nat \ {0} /\ Half[Size(t)] \in Nat \ {0}
      /\ Count(t) = 2 * Half[Size(t)]
  BY Widths
<1>3. Bytes(t, v) = v % Count(t)
  BY <1>1 DEF Bytes
<1>4. Least(t) <= v /\ v <= Greatest(t)
  BY <1>1 DEF CanHold
<1>5. v % Count(t) \in Nat /\ v % Count(t) < Count(t)
  BY <1>2, Residue
<1>6. CASE v < 0
  <2>1. t \in SignedTypes /\ -Half[Size(t)] <= v
    BY <1>2, <1>4, <1>6 DEF Least
  <2>2. v % Count(t) = v + Count(t)
    BY <1>2, <1>6, <2>1, Residue
  <2>3. v + Count(t) >= Half[Size(t)] /\ (v + Count(t)) - Count(t) = v
    BY <1>2, <2>1
  <2> QED  BY <1>1, <1>3, <1>5, <2>1, <2>2, <2>3 DEF Value
<1>7. CASE 0 <= v
  <2>1. v < Count(t) /\ (t \in SignedTypes => ~ (v >= Half[Size(t)]))
    BY <1>2, <1>4, <1>7 DEF Greatest
  <2>2. v % Count(t) = v
    BY <1>2, <1>7, <2>1, Residue
  <2> QED  BY <1>1, <1>3, <1>5, <2>1, <2>2 DEF Value
<1> QED  BY <1>6, <1>7

\* A floating point number is read back from its bits.
LEMMA FloatOfBits ==
    ASSUME NEW t \in FloatTypes, NEW v, CanHold(t, v)
    PROVE  Value(t, Bytes(t, v)) = v
<1>1. v \in DOMAIN FloatBits[t] /\ Bytes(t, v) = FloatBits[t][v]
  BY DEF CanHold, Bytes
<1>2. \A x \in DOMAIN FloatBits[t] : FloatBits[t][x] = FloatBits[t][v] => x = v
  BY <1>1, FloatAssumption DEF FloatTypes
<1> QED  BY <1>1, <1>2 DEF Value

\* What a type can hold is read back from its bytes.
LEMMA NumberOfBytes ==
    ASSUME NEW t \in NumberTypes, NEW v \in Int, CanHold(t, v)
    PROVE  Value(t, Bytes(t, v)) = v
BY Kinds, ValueOfBytes, FloatOfBits

\* A cast to a type that can hold the number leaves it.
LEMMA CastKeeps ==
    ASSUME NEW t \in NumberTypes, NEW v \in Int, CanHold(t, v)
    PROVE  Converted(v, t) = v
<1>1. v # Odd
  BY NumbersAssumption
<1>2. CASE t \in IntTypes
  <2>1. Value(t, Bytes(t, v)) = v
    BY NumberOfBytes
  <2> QED  BY <1>1, <1>2, <2>1, Kinds DEF Converted
<1>3. CASE t \in FloatTypes
  BY <1>1, <1>3, Kinds DEF Converted
<1> QED  BY <1>2, <1>3, Kinds

-----------------------------------------------------------------------------
(* The invariant: the field has the bytes of what was stored. *)

\* A number was stored in the field, and has the width and the kind of the
\* field's type.
NumberStored ==
    /\ given.type \in NumberTypes /\ given.val \in Int
    /\ CanHold(given.type, given.val)
    /\ SameWidth(given.type, field.type) /\ SameKind(given.type, field.type)
    /\ field.bytes = Bytes(given.type, given.val)

\* A time was stored in the field.
TimeStored == given.val \in Times /\ field.bytes = WireTime(given.val)

VInv ==
    field # NoField =>
        \/ field.type \in NumberTypes /\ NumberStored
        \/ field.type = "TIME" /\ given.type = "TIME" /\ TimeStored

\* At the start there is no field.
LEMMA VInvInit == Init => VInv
BY DEF Init, VInv

\* Every call leaves the bytes of what it stored.
LEMMA VInvNext == VInv /\ [Next]_vars => VInv'
<1> SUFFICES ASSUME VInv, [Next]_vars  PROVE VInv'
  OBVIOUS
<1>1. CASE Clear
  BY <1>1 DEF Clear, VInv
<1>2. ASSUME NEW dt \in Times, StoreTime(dt)  PROVE VInv'
  <2>1. /\ field' = [type |-> "TIME", bytes |-> WireTime(dt)]
        /\ given' = [type |-> "TIME", val |-> dt]
    BY <1>2 DEF StoreTime, Put
  <2> QED  BY <2>1 DEF VInv, TimeStored
<1>3. ASSUME NEW t \in NumberTypes, NEW v \in Numbers, Add(t, v)  PROVE VInv'
  <2>1. /\ field' = [type |-> t, bytes |-> Bytes(t, v)]
        /\ given' = [type |-> t, val |-> v] /\ CanHold(t, v)
    BY <1>3 DEF Add, Put
  <2>2. v \in Int
    BY NumbersAssumption
  <2> QED  BY <2>1, <2>2 DEF VInv, NumberStored, SameWidth, SameKind
<1>4. ASSUME NEW t \in NumberTypes, NEW v \in Numbers,
             SameKind(t, field.type), Update(t, v)
      PROVE  VInv'
  <2>1. /\ field' = [type |-> field.type, bytes |-> Bytes(t, v)]
        /\ given' = [type |-> t, val |-> v] /\ CanHold(t, v)
        /\ field.type \in NumberTypes /\ SameWidth(t, field.type)
    BY <1>4 DEF Update, Put
  <2>2. v \in Int
    BY NumbersAssumption
  <2> QED  BY <1>4, <2>1, <2>2 DEF VInv, NumberStored, SameWidth, SameKind
<1>5. CASE UNCHANGED vars
  BY <1>5 DEF vars, VInv, NumberStored, TimeStored
<1> QED  BY <1>1, <1>2, <1>3, <1>4, <1>5 DEF Next

LEMMA VInvAlways == Spec => []VInv
<1> QED  BY VInvInit, VInvNext, PTL DEF Spec

-----------------------------------------------------------------------------
(* Theorems. *)

\* Payload.h:292: a number is read back by the getter of the type it was
\* stored with, though the field may have another type of that width
\* (getFieldValueAsCopy, the scalar updates).
THEOREM NumbersReadBack == Spec => []ReadsBack
<1>1. ASSUME VInv, HoldsNumber  PROVE ReadAs(field, given.type) = given.val
  <2>1. NumberStored /\ field.type \in NumberTypes
    BY <1>1, Kinds DEF VInv, HoldsNumber
  <2>2. PICK t \in NumberTypes, u \in NumberTypes, v \in Int :
            /\ t = given.type /\ u = field.type /\ v = given.val
            /\ CanHold(t, v) /\ SameWidth(t, u) /\ SameKind(t, u)
            /\ field.bytes = Bytes(t, v)
    BY <2>1 DEF NumberStored
  <2>3. v # Odd
    BY NumbersAssumption
  <2>4. CASE t \in IntTypes
    <3>1. u \in IntTypes /\ Count(t) = Count(u)
      BY <2>2, <2>4, Kinds DEF SameKind, SameWidth, Count
    <3>2. Bytes(t, v) \in Nat /\ Bytes(t, v) < Count(u) /\ Value(t, Bytes(t, v)) = v
      BY <2>2, <2>4, <3>1, ValueOfBytes
    <3>3. /\ Value(u, Bytes(t, v)) \in Int
          /\ Bytes(t, Value(u, Bytes(t, v))) = Bytes(t, v)
      BY <2>4, <3>1, <3>2, ValueKeepsBytes
    <3>4. Value(u, Bytes(t, v)) # Odd
      BY <3>3, NumbersAssumption
    <3> QED  BY <2>2, <2>4, <3>2, <3>3, <3>4, Kinds DEF ReadAs, Converted
  <2>5. CASE t \in FloatTypes
    <3>1. t = u
      BY <2>2, <2>5 DEF SameKind, SameWidth, FloatTypes, Size
    <3>2. Value(u, Bytes(t, v)) = v
      BY <2>2, <2>5, <3>1, FloatOfBits
    <3>3. Converted(v, t) = v
      BY <2>2, CastKeeps
    <3> QED  BY <2>2, <3>2, <3>3 DEF ReadAs
  <2> QED  BY <2>4, <2>5, Kinds
<1>2. VInv => ReadsBack
  BY <1>1 DEF ReadsBack
<1> QED  BY <1>2, VInvAlways, PTL

\* A number in a field of its own type is read alike by every getter whose
\* type can hold it: casts extend the sign of negative numbers and of those
\* only.
THEOREM WiderReadsSame == Spec => []WiderReads
<1>1. ASSUME VInv, HoldsNumber, field.type = given.type,
             NEW t \in NumberTypes, CanHold(t, given.val)
      PROVE  ReadAs(field, t) = given.val
  <2>1. NumberStored
    BY <1>1, Kinds DEF VInv, HoldsNumber
  <2>2. Value(field.type, field.bytes) = given.val
    BY <1>1, <2>1, NumberOfBytes DEF NumberStored
  <2>3. Converted(given.val, t) = given.val
    BY <1>1, <2>1, CastKeeps DEF NumberStored
  <2> QED  BY <2>2, <2>3 DEF ReadAs
<1>2. VInv => WiderReads
  BY <1>1 DEF WiderReads
<1> QED  BY <1>2, VInvAlways, PTL

\* A time is read back with its seconds, microseconds, precision and hints:
\* convertOmnmDateTimeToMamaDateTime undoes convertMamaDateTimeToOmnmDateTime.
THEOREM TimesReadBack == Spec => []TimeReadsBack
<1>1. ASSUME VInv, field # NoField, given.type = "TIME"
      PROVE  HostTime(field.bytes) = given.val
  <2>1. TimeStored
    BY <1>1, Kinds DEF VInv, NumberStored
  <2>2. PICK dt \in Times : dt = given.val /\ field.bytes = WireTime(dt)
    BY <2>1 DEF TimeStored
  <2>3. /\ dt = [secs |-> dt.secs, micros |-> dt.micros,
                 prec |-> dt.prec, hints |-> dt.hints]
        /\ dt.secs \in Nat /\ dt.secs < U32 /\ dt.micros \in Nat
        /\ dt.prec \in Nat /\ dt.prec < U8
        /\ dt.hints \in Nat /\ dt.hints < U8
    BY TimesAssumption DEF U32, U8, Count, Size
  <2>4. U32 \in Nat \ {0} /\ U8 \in Nat \ {0}
    BY Widths DEF U32, U8, IntTypes, UnsignedTypes
  <2>5. /\ dt.secs % U32 = dt.secs
        /\ dt.prec % U8 = dt.prec /\ dt.hints % U8 = dt.hints
    BY <2>3, <2>4, Residue
  <2>6. (dt.micros * 1000) \div 1000 = dt.micros
    BY <2>3
  <2> HIDE DEF U32, U8
  <2>7. HostTime(WireTime(dt)) = dt
    BY <2>3, <2>5, <2>6 DEF HostTime, WireTime
  <2> QED  BY <2>2, <2>7
<1>2. VInv => TimeReadsBack
  BY <1>1 DEF TimeReadsBack
<1> QED  BY <1>2, VInvAlways, PTL

=============================================================================
