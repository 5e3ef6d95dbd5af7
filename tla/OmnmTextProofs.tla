--------------------------- MODULE OmnmTextProofs ---------------------------
(***************************************************************************)
(* The text of a message fits in the scratch buffer, for messages of any   *)
(* number of fields, names and values of any length, and any room made     *)
(* before.                                                                 *)
(*                                                                         *)
(* The margin is exact: of its ten bytes, the sign before the value, the   *)
(* brackets and digits of a fid, the comma and the terminator take them    *)
(* all.  The invariant keeps one byte for the closing brace from the last  *)
(* field, which has no comma, to the end.                                  *)
(***************************************************************************)
EXTENDS OmnmText, TLAPS

Building ==
    text # NotBuilding =>
        /\ text \in [next : Nat \ {0}, len : Nat]
        /\ text.len < scratch
        /\ text.next = Len(fields) + 1 => text.len + 1 < scratch

TInv ==
    /\ fields \in Seq(Fields) /\ scratch \in Nat
    /\ part \in Nat /\ part < PartSize
    /\ Building

-----------------------------------------------------------------------------

\* A number has one to ten digits, a fid at most five.
LEMMA DigitsRange ==
    ASSUME NEW n \in Nat
    PROVE  Digits(n) \in 1 .. 10 /\ (n <= 65535 => Digits(n) <= 5)
<1> DEFINE Right(d) == /\ d \in DOMAIN Powers => n < Powers[d]
                       /\ \A c \in 1 .. d - 1 : n >= Powers[c]
<1>1. \E d \in 1 .. 10 : Right(d)
  <2>1. CASE n < 10
    <3>1. Right(1)
      BY <2>1 DEF Powers
    <3> QED
      BY <3>1
  <2>2. CASE n >= 10 /\ n < 100
    <3>1. Right(2)
      BY <2>2 DEF Powers
    <3> QED
      BY <3>1
  <2>3. CASE n >= 100 /\ n < 1000
    <3>1. Right(3)
      BY <2>3 DEF Powers
    <3> QED
      BY <3>1
  <2>4. CASE n >= 1000 /\ n < 10000
    <3>1. Right(4)
      BY <2>4 DEF Powers
    <3> QED
      BY <3>1
  <2>5. CASE n >= 10000 /\ n < 100000
    <3>1. Right(5)
      BY <2>5 DEF Powers
    <3> QED
      BY <3>1
  <2>6. CASE n >= 100000 /\ n < 1000000
    <3>1. Right(6)
      BY <2>6 DEF Powers
    <3> QED
      BY <3>1
  <2>7. CASE n >= 1000000 /\ n < 10000000
    <3>1. Right(7)
      BY <2>7 DEF Powers
    <3> QED
      BY <3>1
  <2>8. CASE n >= 10000000 /\ n < 100000000
    <3>1. Right(8)
      BY <2>8 DEF Powers
    <3> QED
      BY <3>1
  <2>9. CASE n >= 100000000 /\ n < 1000000000
    <3>1. Right(9)
      BY <2>9 DEF Powers
    <3> QED
      BY <3>1
  <2>10. CASE n >= 1000000000
    <3>1. Right(10)
      BY <2>10 DEF Powers
    <3> QED
      BY <3>1
  <2> QED
    BY <2>1, <2>2, <2>3, <2>4, <2>5, <2>6, <2>7, <2>8, <2>9, <2>10
<1>2. Digits(n) = CHOOSE d \in 1 .. 10 : Right(d)
  BY DEF Digits
<1>3. Digits(n) \in 1 .. 10 /\ Right(Digits(n))
  <2> HIDE DEF Right
  <2> QED
    BY <1>1, <1>2
<1>4. ASSUME n <= 65535, Digits(n) > 5 PROVE FALSE
  <2>1. n >= Powers[5]
    BY <1>3, <1>4
  <2> QED
    BY <2>1, <1>4 DEF Powers
<1> QED
  BY <1>3, <1>4

LEMMA CutRange ==
    ASSUME NEW n \in Nat
    PROVE  Cut(n) \in Nat /\ Cut(n) < PartSize
BY PartAssumption DEF Cut

\* The text of a value fits in the array it is written to.
LEMMA PartRange ==
    ASSUME NEW f \in Fields, NEW len \in PartLengths(f)
    PROVE  len \in Nat /\ len < PartSize
<1>1. f.len \in Nat /\ PartSize \in Nat /\ PartSize > 18
  BY FieldsAssumption, PartAssumption
<1>2. CASE f.kind = "VECTOR"
  BY <1>1, <1>2, CutRange DEF PartLengths
<1>3. CASE f.kind = "OPAQUE"
  BY <1>1, <1>3, DigitsRange DEF PartLengths
<1>4. CASE f.kind = "NESTED"
  BY <1>1, <1>4, CutRange DEF PartLengths
<1>5. CASE f.kind \notin {"VECTOR", "OPAQUE", "NESTED"}
  BY <1>1, <1>5, CutRange DEF PartLengths
<1> QED
  BY <1>2, <1>3, <1>4, <1>5

\* What is written for a field leaves a byte of the room made for it, and two
\* if it is the last.
LEMMA FieldFits ==
    ASSUME NEW f \in Fields, NEW len \in Nat, NEW last \in BOOLEAN
    PROVE  /\ FieldLength(f, len, last) \in Nat /\ RoomFor(f, len) \in Nat
           /\ FieldLength(f, len, last) + 1 <= RoomFor(f, len)
           /\ last => FieldLength(f, len, last) + 2 <= RoomFor(f, len)
<1>1. f.name \in Nat /\ f.fid \in Nat /\ f.fid <= 65535
  BY FieldsAssumption
<1>2. Digits(f.fid) \in 1 .. 10 /\ Digits(f.fid) <= 5
  BY <1>1, DigitsRange
<1> QED
  BY <1>1, <1>2 DEF FieldLength, RoomFor, Margin

LEMMA GrownRange ==
    ASSUME scratch \in Nat, NEW n \in Nat
    PROVE  Grown(n) \in Nat /\ n <= Grown(n)
BY DEF Grown

-----------------------------------------------------------------------------

LEMMA TInvInit == Init => TInv
BY PartAssumption DEF Init, TInv, Building

LEMMA TInvNext == TInv /\ [Next]_vars => TInv'
<1> SUFFICES ASSUME TInv, [Next]_vars PROVE TInv'
  OBVIOUS
<1>1. ASSUME NEW f \in Fields, Add(f) PROVE TInv'
  BY <1>1 DEF Add, TInv, Building
<1>2. CASE Clear
  BY <1>2 DEF Clear, TInv, Building
<1>3. ASSUME NEW n \in {PartSize + Margin}, Used(n) PROVE TInv'
  BY <1>3, PartAssumption DEF Used, TInv, Building, Margin
<1>4. CASE ToString
  BY <1>4, PartAssumption, GrownRange DEF ToString, TInv, Building
<1>5. CASE ToStringField
  <2> DEFINE f == fields[text.next]
             last == text.next = Len(fields)
  <2>1. /\ f \in Fields /\ text.next \in Nat \ {0} /\ text.len \in Nat
        /\ last \in BOOLEAN /\ Len(fields) \in Nat /\ scratch \in Nat
        /\ fields' = fields /\ fields \in Seq(Fields)
    BY <1>5 DEF ToStringField, TInv, Building
  <2>2. PICK len \in PartLengths(f) :
            /\ part' = len
            /\ scratch' = Grown(RoomFor(f, len) + text.len)
            /\ text' = [next |-> text.next + 1,
                        len  |-> text.len + FieldLength(f, len, last)]
    BY <1>5 DEF ToStringField
  <2>3. len \in Nat /\ len < PartSize
    BY <2>1, PartRange
  <2> HIDE DEF f, last
  <2>4. /\ FieldLength(f, len, last) \in Nat /\ RoomFor(f, len) \in Nat
        /\ FieldLength(f, len, last) + 1 <= RoomFor(f, len)
        /\ last => FieldLength(f, len, last) + 2 <= RoomFor(f, len)
    BY <2>1, <2>3, FieldFits
  <2>5. scratch' \in Nat /\ RoomFor(f, len) + text.len <= scratch'
    <3>1. RoomFor(f, len) + text.len \in Nat
      BY <2>1, <2>4
    <3> QED
      BY <2>1, <2>2, <3>1, GrownRange
  <2>6. /\ text' \in [next : Nat \ {0}, len : Nat]
        /\ text'.next = text.next + 1
        /\ text'.len = text.len + FieldLength(f, len, last)
    BY <2>1, <2>2, <2>4
  <2>7. text'.len < scratch'
    BY <2>1, <2>4, <2>5, <2>6
  <2>8. text'.next = Len(fields') + 1 => text'.len + 1 < scratch'
    BY <2>1, <2>4, <2>5, <2>6 DEF last
  <2> QED
    BY <2>1, <2>2, <2>3, <2>5, <2>6, <2>7, <2>8 DEF TInv, Building
<1>6. CASE ToStringDone
  <2>1. /\ text \in [next : Nat \ {0}, len : Nat] /\ scratch \in Nat
        /\ Len(fields) \in Nat /\ text.len + 1 < scratch
        /\ text.next = Len(fields) + 1
    BY <1>6 DEF ToStringDone, TInv, Building
  <2>2. /\ text' \in [next : Nat \ {0}, len : Nat]
        /\ text'.next = Len(fields) + 2 /\ text'.len = text.len + 1
    BY <1>6, <2>1 DEF ToStringDone
  <2> QED
    BY <1>6, <2>1, <2>2 DEF ToStringDone, TInv, Building
<1>7. CASE ToStringReturns
  BY <1>7 DEF ToStringReturns, TInv, Building
<1>8. CASE UNCHANGED vars
  BY <1>8 DEF vars, TInv, Building
<1> QED
  BY <1>1, <1>2, <1>3, <1>4, <1>5, <1>6, <1>7, <1>8 DEF Next

LEMMA SpecTInv == Spec => []TInv
BY TInvInit, TInvNext, PTL DEF Spec

\* The text of a value stays inside the array it is written to.
THEOREM PartsFit == Spec => []PartFits
<1>1. TInv => PartFits
  BY DEF TInv, PartFits
<1> QED
  BY <1>1, SpecTInv, PTL

\* The text of a message stays inside the scratch buffer after every write.
THEOREM TextStaysInside == Spec => []TextFits
<1>1. TInv => TextFits
  BY DEF TInv, Building, TextFits
<1> QED
  BY <1>1, SpecTInv, PTL

=============================================================================
