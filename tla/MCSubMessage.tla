----------------------------- MODULE MCSubMessage -----------------------------
(* Instances of OmnmSubMessage for TLC. *)
EXTENDS OmnmSubMessage, TLC

CONSTANTS o1, o2, o3, o4, i1, t, u, l, null, noiter, nomsg

Plain(x)  == [text |-> x, fields |-> [k \in {} |-> 0]]
One(c)    == [type |-> "MSG", items |-> <<c>>]
Many(s)   == [type |-> "VECTOR_MSG", items |-> s]
Holds(fs) == [text |-> t, fields |-> fs]

New   == Plain(t)
Other == Plain(u)
Later == Plain(l)

\* A message in a message in a message; one of several kinds of fields, with
\* vectors of two lengths; one that cannot be read.
Inner == Holds(1 :> One(New))
SomeContents ==
    {New, Other, Later, Inner,
     Holds(1 :> One(Inner)), Holds(1 :> One(Later)),
     Holds(1 :> One(Other) @@ 2 :> Many(<<New, Other>>)),
     Holds(1 :> One(New) @@ 2 :> Many(<<Other>>))}

LaterContents == {Later}

Same == Permutations(Objs)

=============================================================================
