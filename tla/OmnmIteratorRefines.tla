------------------------ MODULE OmnmIteratorRefines ------------------------
(***************************************************************************)
(* The iterators and handles of OmnmIterator implement those of OmnmWalk:  *)
(* an offset that a pointer holds stands for the number of the field there.*)
(***************************************************************************)
EXTENDS OmnmIterator

\* The number of the field at offset o, or of the one to come at the tail.
NumberAt(p, o) == Cardinality({q \in DOMAIN p.at : q < o}) + 1

Content == [m \in Msgs |-> SeenFields(msg[m])]

Walks ==
    IF steady
    THEN {[msg |-> cursor.msg, next |-> NumberAt(msg[cursor.msg], cursor.pos),
           again |-> ~cursor.begun]}
    ELSE {}

Points ==
    [h \in fresh |->
        [msg |-> field[h].msg, field |-> NumberAt(msg[field[h].msg], field[h].at)]]

Walk == INSTANCE OmnmWalk WITH
    content <- Content, walks <- Walks, points <- Points, ret <- ret

\* While the rules of OmnmIterator are kept, an iterator is a place in a list
\* and a handle a member of it: a walk goes on with the same field, and an
\* update through a handle changes the value of the field it was pointed at
\* and of no other, although both are raw pointers into a buffer in which
\* other calls add, resize and move the fields around them.
ImplementsWalk == Walk!Spec

=============================================================================
