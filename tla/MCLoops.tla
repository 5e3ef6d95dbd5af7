------------------------------- MODULE MCLoops -------------------------------
(* Instances of OmnmLoops for TLC. *)
EXTENDS OmnmLoopsRefines, TLC

CONSTANTS m1, m2, null, empty, a, b, v, w, u, z, none

MCNameLen == [n \in {null, empty, a, b} |-> IF n \in {a, b} THEN 1 ELSE 0]

MCDict == [n \in {a, b} |-> IF n = a THEN 1 ELSE 2]

In(t, n, x) == [type |-> t, len |-> n, val |-> x]

\* A key that is used as a fid and with its name, and another as a name.
MergeIds == {<<null, 1>>, <<a, 1>>, <<b, 0>>}

\* A string and two messages, which it refuses and which refuse it, of sizes
\* that let a message hold any two of them: one that can be read and, shorter,
\* one that cannot.
MergeInputs == {In("STRING", 8, v), In("MSG", 3, u), In("MSG", 4, v)}

\* A field without a name and a named one without a fid: scalars of two
\* widths, which a message may hold both but which must not meet in an update,
\* vectors of two lengths, and a type that apply does not pass on.
WalkIds == {<<empty, 1>>, <<b, 0>>}
WalkInputs ==
    {In("U8", 1, v), In("I32", 4, v), In("VECTOR_U8", 1, v),
     In("VECTOR_U8", 2, w), In("VECTOR_PRICE", 1, v)}

Handles == Permutations(Msgs)

\* The last status is reported and never read.
Work == <<msg, job>>

=============================================================================
