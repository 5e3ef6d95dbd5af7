------------------------------ MODULE OmnmMerge ------------------------------
(***************************************************************************)
(* What apply and iterateFields promise, with no loop in sight.  A message *)
(* is a sequence of fields.  apply is one step, which merges the sequence  *)
(* of one message into that of another, field by field and in order; what  *)
(* it passes on for a field depends on the fields before it, since a name  *)
(* or a sub-message that is not there leaves the last one standing.        *)
(* iterateFields changes nothing, and what its callbacks do are calls like *)
(* any other.                                                              *)
(*                                                                         *)
(* OmnmLoopsRefines shows that the loops of OmnmLoops implement it.        *)
(***************************************************************************)
EXTENDS OmnmFields

CONSTANTS Msgs, Ids, Inputs,
    AppliedTypes,   \* the types of fields that apply passes on
    Unreadable,     \* contents of a sub-message that cannot be read
    EmptySub        \* the value of a sub-message without fields

VARIABLES content, ret

vars == <<content, ret>>

-----------------------------------------------------------------------------
(* One call on one sequence. *)

Refuses(s, name, fid, in) ==
    /\ Hits(s, name, fid) # {}
    /\ ~Fits(s[First(s, name, fid)].type, in)

\* The value of the first match is replaced, or a field is appended.
Updated(s, name, fid, in) ==
    CASE Refuses(s, name, fid, in) -> s
      [] ~Refuses(s, name, fid, in) /\ Hits(s, name, fid) # {} ->
            [s EXCEPT ![First(s, name, fid)].data = in]
      [] OTHER ->
            IF in.len = 0 THEN s ELSE Append(s, Field(name, fid, in))

-----------------------------------------------------------------------------
(* The merge.  What is passed on of the k-th field of s is under the last  *)
(* name met so far, and the last sub-message met so far that can be read.  *)

Last(K) == CHOOSE k \in K : \A j \in K : j <= k

Named(s, k) == {j \in 1 .. k : s[j].name # NoName}

NameAt(s, k) == IF Named(s, k) = {} THEN NoName ELSE s[Last(Named(s, k))].name

ReadSubs(s, k) ==
    {j \in 1 .. k : s[j].type = "MSG" /\ s[j].data.val \notin Unreadable}

\* The value of a field as the getter of its own type reads it.
Value(f) == [type |-> f.type, len |-> f.data.len, val |-> f.data.val]

SubAt(s, k) ==
    IF ReadSubs(s, k) = {} THEN EmptySub ELSE Value(s[Last(ReadSubs(s, k))])

ValueAt(s, k) == IF s[k].type = "MSG" THEN SubAt(s, k) ELSE Value(s[k])

MergedOne(t, s, k) ==
    IF s[k].type \in AppliedTypes
    THEN Updated(t, NameAt(s, k), s[k].fid, ValueAt(s, k))
    ELSE t

Merged(t, s) ==
    LET merged[k \in 0 .. Len(s)] ==
            IF k = 0 THEN t ELSE MergedOne(merged[k - 1], s, k)
    IN  merged[Len(s)]

-----------------------------------------------------------------------------

Return(op, status) == ret' = [op |-> op, status |-> status]

Init ==
    /\ content = [m \in Msgs |-> <<>>]
    /\ ret = [op |-> "init", status |-> "OK"]

(* What a call does to one message, whose fields it takes from s to t.     *)

Clear(t) == Return("clear", "OK") /\ t = <<>>

Add(s, t) ==
    \/ /\ Return("add", "OK")
       /\ \E id \in Ids, in \in Inputs :
            in.len <= MaxU32 /\ t = Append(s, Field(id[1], id[2], in))
    \/ /\ Return("add", "INVALID_ARG")
       /\ t = s /\ \E in \in Inputs : in.len > MaxU32

Update(s, t) ==
    \/ /\ Return("update", "OK")
       /\ \E id \in Ids, in \in Inputs :
            ~Refuses(s, id[1], id[2], in) /\ t = Updated(s, id[1], id[2], in)
    \/ /\ Return("update", "WRONG_FIELD_TYPE")
       /\ t = s /\ \E id \in Ids, in \in Inputs : Refuses(s, id[1], id[2], in)

Apply(s, t, src) == Return("apply", "OK") /\ t = Merged(s, src)

Iterate(s, t) == Return("iterateFields", "OK") /\ t = s

\* A step is a call on one message, before and after being what all of them
\* hold.  A step of a loop that a client cannot tell from none is told first.
Step(before, after) ==
    /\ before # after \/ ret' # ret
    /\ \E m \in Msgs :
        /\ after = [before EXCEPT ![m] = after[m]]
        /\ \/ Clear(after[m])
           \/ Add(before[m], after[m])
           \/ Update(before[m], after[m])
           \/ Iterate(before[m], after[m])
           \/ \E src \in Msgs \ {m} : Apply(before[m], after[m], before[src])

Next == \E before \in {content}, after \in {content'} : Step(before, after)

Spec == Init /\ [][Next]_vars

=============================================================================
