------------------------------ MODULE OmnmWalk ------------------------------
(***************************************************************************)
(* What iterators and field handles promise, with no offset or pointer in  *)
(* sight.  A message is a sequence of fields.  A walk is the number of the *)
(* field to be returned next, and a handle points at a field by its        *)
(* number.  Both stay where they are whatever else is done to the message, *)
(* but for two things: a field before them, or for a handle its own, takes *)
(* another size, or a message that grows is moved in memory.  What has     *)
(* been disturbed in this way promises nothing until it is set again, and  *)
(* is not among the walks and handles here.                                *)
(*                                                                         *)
(* OmnmIteratorRefines shows that the pointers of OmnmIterator implement   *)
(* it.                                                                     *)
(***************************************************************************)
EXTENDS OmnmFields

CONSTANTS Msgs, Iter, Fids, Inputs,
    HandleTypes     \* the types a handle can be updated with

VARIABLES
    content,    \* the fields of each message
    walks,      \* the undisturbed walk, if there is one
    points,     \* where each undisturbed handle points
    ret

vars == <<content, walks, points, ret>>

Handles == Msgs \cup {Iter}

-----------------------------------------------------------------------------
(* What a call does to message m, whose fields it takes from s to t.       *)

Return(op, status) == ret' = [op |-> op, status |-> status]

Untouched == UNCHANGED <<walks, points>>

Refused(op, s, t) ==
    ret'.op = op /\ ret'.status # "OK" /\ t = s /\ Untouched

\* The fields of m from the i-th on are not where they were, or none is.
Disturbs(m, i, moves) ==
    /\ walks' = {w \in walks : w.msg # m \/ (~moves /\ w.next <= i)}
    /\ points' = [h \in {g \in DOMAIN points :
                            points[g].msg # m \/ (~moves /\ points[g].field < i)}
                    |-> points[h]]

Behind(s) == Len(s) + 1

\* The i-th field takes another value, and stays in place if it can.
Sets(m, s, t, i, in) ==
    /\ t = [s EXCEPT ![i].data = in]
    /\ \E moves \in BOOLEAN :
        /\ moves => in.len > s[i].data.len
        /\ Disturbs(m, IF in.len # s[i].data.len THEN i ELSE Behind(s), moves)

Storable(name, fid, in) ==
    /\ in.len \in 1 .. MaxU32
    /\ ~NoIdentity(name, fid) /\ ~BlankIdentity(name, fid)

Appends(m, op, s, t, name, fid, in) ==
    \/ /\ Return(op, "OK")
       /\ Storable(name, fid, in)
       /\ t = Append(s, Field(name, fid, in))
       /\ \E moves \in BOOLEAN : Disturbs(m, Behind(s), moves)
    \/ Refused(op, s, t) /\ ~Storable(name, fid, in)

PointsAt(h, m, i) ==
    points' = [g \in DOMAIN points \cup {h} |->
                IF g = h THEN [msg |-> m, field |-> i] ELSE points[g]]

Clear(m, t) == Return("clear", "OK") /\ t = <<>> /\ Disturbs(m, 0, FALSE)

Add(m, s, t, name, fid, in) ==
    in.type \notin AddedByUpdateTypes /\ Appends(m, "add", s, t, name, fid, in)

Update(m, s, t, name, fid, in) ==
    LET i == First(s, name, fid) IN
    /\ ret'.op = "update"
    /\ in.type \notin ScalarVectorTypes
    /\ \/ Refused("update", s, t) /\ NoIdentity(name, fid)
       \/ /\ ~NoIdentity(name, fid) /\ Hits(s, name, fid) = {}
          /\ Appends(m, "update", s, t, name, fid, in)
       \/ /\ ~NoIdentity(name, fid) /\ Hits(s, name, fid) # {}
          /\ \/ /\ Return("update", "OK")
                /\ Fits(s[i].type, in) /\ Sets(m, s, t, i, in)
             \/ Refused("update", s, t) /\ ~Fits(s[i].type, in)

\* A lookup points the handle of the message at the first match.
GetField(m, s, t, name, fid) ==
    LET usable == ~NoIdentity(name, fid) /\ ~BlankIdentity(name, fid)
        found  == Hits(s, name, fid) # {}
    IN
    \/ /\ Return("getField", "OK")
       /\ usable /\ found
       /\ t = s /\ UNCHANGED walks
       /\ PointsAt(m, m, First(s, name, fid))
    \/ Refused("getField", s, t) /\ ~(usable /\ found)

\* A walk begins at the first field, and the handle of the iterator with it.
\* In a message without fields the step that comes first is still to come.
Begin(m, s, t) ==
    /\ Return("create", "OK") \/ Return("associate", "OK")
    /\ t = s
    /\ walks' = {[msg |-> m, next |-> 1, again |-> s = <<>>]}
    /\ IF s = <<>> THEN points' = points ELSE PointsAt(Iter, m, 1)

\* An update through a handle is an update of the field it was pointed at.
HandleUpdate(h, m, s, t, in) ==
    LET i == points[h].field IN
    /\ ret'.op = "updateField" /\ in.type \in HandleTypes
    /\ h \in DOMAIN points /\ points[h].msg = m
    /\ \/ /\ Return("updateField", "OK")
          /\ s[i].type = in.type /\ Sets(m, s, t, i, in)
       \/ Refused("updateField", s, t) /\ s[i].type # in.type

MessageCall(m, s, t) ==
    \/ Clear(m, t) \/ Begin(m, s, t)
    \/ \E name \in Names, fid \in Fids :
        \/ GetField(m, s, t, name, fid)
        \/ \E in \in Inputs :
            Add(m, s, t, name, fid, in) \/ Update(m, s, t, name, fid, in)
    \/ \E h \in Handles, in \in Inputs : HandleUpdate(h, m, s, t, in)

-----------------------------------------------------------------------------
(* Steps of a walk. *)

NextField(c) ==
    /\ Return("next", "OK")
    /\ \E w \in walks :
        /\ w.next <= Len(c[w.msg])
        /\ PointsAt(Iter, w.msg, w.next)
        /\ walks' = {[msg |-> w.msg, again |-> FALSE,
                      next |-> IF w.again THEN w.next ELSE w.next + 1]}

AtEnd(c) ==
    /\ Return("next", "NULL")
    /\ \A w \in walks : w.next > Len(c[w.msg])
    /\ Untouched

Destroy ==
    /\ Return("destroy", "OK")
    /\ walks' = {}
    /\ points' = [h \in DOMAIN points \ {Iter} |-> points[h]]

-----------------------------------------------------------------------------

Init ==
    /\ content = [m \in Msgs |-> <<>>]
    /\ walks = {}
    /\ points = [h \in {} |-> 0]
    /\ ret = [op |-> "init", status |-> "OK"]

\* Before and after being what all messages hold.
Step(before, after) ==
    \/ /\ after = before
       /\ NextField(before) \/ AtEnd(before) \/ Destroy
    \/ \E m \in Msgs :
        /\ after = [before EXCEPT ![m] = after[m]]
        /\ MessageCall(m, before[m], after[m])

Next == \E before \in {content}, after \in {content'} : Step(before, after)

Spec == Init /\ [][Next]_vars

=============================================================================
