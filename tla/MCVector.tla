------------------------------- MODULE MCVector -------------------------------
(* Instances of OmnmVector for TLC. *)
EXTENDS OmnmVector

CONSTANTS m1, null, empty, x, y, v, w, nul, other, none, wild

NullNames == [n \in {null, empty} |-> 0]

TwoIds == {<<null, 1>>, <<empty, 2>>}

Item(n, value) == [len |-> n, val |-> value]

Strings(texts) ==
    [type |-> "VECTOR_STRING",
     items |-> [i \in DOMAIN texts |-> Item(Len(texts[i]) + 1, texts[i])]]

Messages(lens) ==
    [type |-> "VECTOR_MSG", items |-> [i \in DOMAIN lens |-> Item(lens[i], <<v, i>>)]]

\* None, one of a letter, and two of which the first is empty.
StringVectors ==
    {Strings(<<>>), Strings(<< <<x>> >>), Strings(<< <<>>, <<y, x>> >>)}

SomeVectors ==
    StringVectors \cup
    {Messages(<<4, 4>>),
     [type |-> "VECTOR_PRICE", items |-> <<Item(24, v), Item(24, w)>>],
     [type |-> "VECTOR_TIME", items |-> <<Item(40, w)>>]}

\* The last status is reported and never read.
Bodies == <<msg, scratch>>

=============================================================================
