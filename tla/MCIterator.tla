----------------------------- MODULE MCIterator -----------------------------
(* Instances of OmnmIterator for TLC. *)
EXTENDS OmnmIteratorRefines, TLC

CONSTANTS m1, m2, iter, null, empty, v, w, none, garbage

NullNames == [n \in {null, empty} |-> 0]

In(t, n, x) == [type |-> t, len |-> n, val |-> x]

\* A field that never changes its size, and two sizes of one that does.
WalkInputs == {In("U8", 1, v), In("STRING", 1, v), In("STRING", 2, w)}

\* Under Spec a disturbed handle is never used and a disturbed walk never
\* goes on: what they still hold decides nothing, nor does the last status.
Undisturbed ==
    <<msg, fresh, steady,
      [h \in fresh |-> field[h]],
      IF steady THEN <<cursor, seen>>
      ELSE IF cursor = NoCursor THEN <<>> ELSE <<cursor.parent>>>>

=============================================================================
