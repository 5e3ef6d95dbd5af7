------------------------------ MODULE MCPayload ------------------------------
(* Instances of OmnmPayload for TLC. *)
EXTENDS OmnmPayload, TLC

CONSTANTS
    m1, m2, null, empty, a, v, w, none, lost

MCNameLen == [n \in {null, empty, a} |-> IF n = a THEN 1 ELSE 0]

NullNames == [n \in {null, empty} |-> 0]

In(t, n, x) == [type |-> t, len |-> n, val |-> x]

\* One field of each kind of framing: fixed, struct-free variable (a string),
\* and prefixed, with room to grow and to shrink, down to no data at all; one
\* is longer than the length prefix can say.
FieldInputs ==
    {In("U8", 1, v), In("I8", 1, w), In("U16", 2, v),
     In("STRING", 1, v), In("STRING", 2, w),
     In("OPAQUE", 0, v), In("OPAQUE", 4, w), In("VECTOR_U8", 2, v),
     In("VECTOR_PRICE", 1, w)}

\* Enough kinds to tell two messages apart.
CopyInputs == {In("U8", 1, v), In("STRING", 2, v), In("OPAQUE", 3, w)}

Image1(ver, rem, at, tail) ==
    [ver |-> ver, rem |-> rem, at |-> at, tail |-> tail]

OneField(o, f) == [x \in {o} |-> f]

\* From a peer: an extended header, an earlier version, a later one.
MCForeignWire ==
    {Image1(1, 2, OneField(5, Encode(null, 1, In("U8", 1, w))), 10),
     Image1(0, 0, OneField(3, Encode(null, 2, In("STRING", 2, v))), 9),
     Image1(2, 1, NoFields, 4)}

Handles == Permutations(Msgs)

\* What a step depends on: the last status is reported and never read.
Buffers == <<pay, torn, wire>>

NoForeignWire == {}

=============================================================================
