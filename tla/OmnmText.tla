------------------------------- MODULE OmnmText -------------------------------
(***************************************************************************)
(* toString: the text of a message, built up field by field in the scratch *)
(* buffer of the message.  Before each field the buffer is grown to what   *)
(* the field can need, from its name, the text of its value and a margin   *)
(* for everything else; the text is then written without a limit.          *)
(*                                                                         *)
(* Only lengths are modelled.  A text of n characters takes n + 1 bytes.   *)
(***************************************************************************)
EXTENDS Naturals, Sequences

CONSTANTS
    Fields,     \* the fields of messages: [name, fid, kind, len]
    MaxFields,  \* bound: fields of a message
    PartSize,   \* the room for the text of one value
    NotBuilding

Kinds == {"SCALAR", "STRING", "VECTOR", "OPAQUE", "NESTED"}

\* A fid has 16 bits.
ASSUME FieldsAssumption ==
    \A f \in Fields :
        /\ f.name \in Nat /\ f.kind \in Kinds /\ f.len \in Nat
        /\ f.fid \in Nat /\ f.fid <= 65535

\* The array for one value, 1024 bytes in the code, holds at least the braces,
\* the word and the digits of an opaque field.
ASSUME PartAssumption == PartSize \in Nat /\ PartSize > 18

VARIABLES
    fields,   \* the message
    scratch,  \* mField.mBufferLen
    part,     \* the length of the text of the last value
    text      \* the text being built: the next field, and its length so far

vars == <<fields, scratch, part, text>>

\* The margin for the fid, the brackets and the signs around a value.
Margin == 10

\* The digits of a number of 32 bits.
Powers == <<10, 100, 1000, 10000, 100000, 1000000, 10000000, 100000000, 1000000000>>

Digits(n) == CHOOSE d \in 1 .. 10 :
                /\ d \in DOMAIN Powers => n < Powers[d]
                /\ \A c \in 1 .. d - 1 : n >= Powers[c]

-----------------------------------------------------------------------------
(* The text of one value (getAsString). *)

Cut(n) == IF n < PartSize THEN n ELSE PartSize - 1

\* Slip: a string is copied whole.
PartLengths_Whole(f) ==
    CASE f.kind = "VECTOR" -> {1, Cut(24)}
      [] f.kind = "OPAQUE" -> {Digits(f.len) + 8}
      [] f.kind = "NESTED" -> {Cut(5)}
      [] OTHER             -> {f.len}

\* Scalars, strings, times and prices are cut to the room there is.  Each
\* piece of a vector is written over the one before, so that the closing
\* brace is all that is left, unless the vector could not be read.  Messages
\* are three dots in braces.  Bytes are only counted, and their text is not
\* cut.
PartLengths(f) ==
    CASE f.kind = "VECTOR" -> {1, Cut(24)}
      [] f.kind = "OPAQUE" -> {Digits(f.len) + 8}
      [] f.kind = "NESTED" -> {Cut(5)}
      [] OTHER             -> {Cut(f.len)}

-----------------------------------------------------------------------------
(* The text of a message. *)

Grown(n) == IF n > scratch THEN n ELSE scratch

\* Slip: no room for the comma.
RoomFor_NoComma(f, len) == f.name + len + Margin - 1

RoomFor(f, len) == f.name + len + Margin

\* name[fid]=value or name=value, and a comma if another field follows.
FieldLength(f, len, last) ==
    f.name + (IF f.fid = 0 THEN 0 ELSE Digits(f.fid) + 2) + 1 + len
        + (IF last THEN 0 ELSE 1)

Add(f) ==
    /\ text = NotBuilding /\ Len(fields) < MaxFields
    /\ fields' = Append(fields, f)
    /\ UNCHANGED <<scratch, part, text>>

Clear ==
    /\ text = NotBuilding
    /\ fields' = <<>>
    /\ UNCHANGED <<scratch, part, text>>

\* Other users of the scratch buffer have grown it before.
Used(n) ==
    /\ text = NotBuilding /\ n > scratch
    /\ scratch' = n
    /\ UNCHANGED <<fields, part, text>>

ToString ==
    /\ text = NotBuilding
    /\ scratch' = Grown(PartSize)
    /\ text' = [next |-> 1, len |-> 1]
    /\ UNCHANGED <<fields, part>>

ToStringField ==
    /\ text # NotBuilding /\ text.next <= Len(fields)
    /\ LET f == fields[text.next] IN
       \E len \in PartLengths(f) :
        /\ part' = len
        /\ scratch' = Grown(RoomFor(f, len) + text.len)
        /\ text' = [next |-> text.next + 1,
                    len  |-> text.len + FieldLength(f, len, text.next = Len(fields))]
    /\ UNCHANGED fields

\* The closing brace.
ToStringDone ==
    /\ text # NotBuilding /\ text.next = Len(fields) + 1
    /\ text' = [next |-> text.next + 1, len |-> text.len + 1]
    /\ UNCHANGED <<fields, scratch, part>>

ToStringReturns ==
    /\ text # NotBuilding /\ text.next > Len(fields) + 1
    /\ text' = NotBuilding
    /\ UNCHANGED <<fields, scratch, part>>

Init ==
    /\ fields = <<>> /\ scratch = 0 /\ part = 0 /\ text = NotBuilding

Next ==
    \/ \E f \in Fields : Add(f)
    \/ Clear
    \/ \E n \in {PartSize + Margin} : Used(n)
    \/ ToString \/ ToStringField \/ ToStringDone \/ ToStringReturns

Spec == Init /\ [][Next]_vars

-----------------------------------------------------------------------------
(* Properties. *)

\* The text of a value stays inside the array it is written to, terminator
\* included, whatever kind of value it is and however long.
PartFits == part < PartSize

\* The text of a message stays inside the scratch buffer, terminator
\* included, after every write: names, fids of up to five digits, the signs
\* around them and the closing brace.
TextFits == text # NotBuilding => text.len < scratch

=============================================================================
