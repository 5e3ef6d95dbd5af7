---------------------------- MODULE OmnmIterator ----------------------------
(***************************************************************************)
(* Walking a message, and the field handles a walk and a lookup hand out.  *)
(*                                                                         *)
(* An iterator and a handle hold pointers into the buffer of a message,    *)
(* and a handle also the size its field had when it was found.  Nothing    *)
(* tells them that the buffer has been reallocated or its fields moved.    *)
(* A pointer is modelled as an offset and a flag: is it into the           *)
(* allocation the message has now?                                         *)
(*                                                                         *)
(* There is one handle per message, its mField, which every lookup of that *)
(* message points elsewhere, and one in the iterator.  The actions stand   *)
(* for the calls of a client between two steps of a walk, and equally for  *)
(* the calls that a callback of iterateFields makes.                       *)
(*                                                                         *)
(* Spec is the behaviour under clients that keep to the rules MayStep,     *)
(* MayUse and SameMessage.  StaleSpec adds updates through a handle whose  *)
(* field has since changed in size.                                        *)
(***************************************************************************)
EXTENDS OmnmBuffer, Sequences

CONSTANTS
    Msgs,      \* messages, which also name their own handles
    Iter,      \* names the handle inside the iterator
    NoField,   \* a handle that has not been pointed anywhere
    NoCursor,  \* no iterator
    Garbage,   \* a name pointer that points nowhere
    Fids, Inputs,
    MaxTail, MaxCap     \* bounds: bytes in use and allocated per message

ASSUME IterAssumption == Iter \notin Msgs

\* A handle that points at a field, and an iterator.
FieldStates == [msg : Msgs, at : Nat, type : FieldTypes,
                name : Names \cup {Garbage}, size : Nat, live : BOOLEAN]
CursorStates == [msg : Msgs, pos : Nat, live : BOOLEAN, begun : BOOLEAN,
                 early : BOOLEAN, parent : Msgs]

ASSUME NoneAssumption == NoField \notin FieldStates /\ NoCursor \notin CursorStates

ASSUME IterInputsAssumption ==
    /\ Fids \subseteq Nat
    /\ \A in \in Inputs : IsInput(in)

VARIABLES
    msg,     \* the buffer of each message
    field,   \* what each handle says
    cursor,  \* the iterator
    steady,  \* nothing has disturbed the walk since it began
    fresh,   \* the handles nothing has disturbed since they were pointed
    seen,    \* the offsets of the fields the walk has returned
    ret      \* the last call and the status it returned

vars == <<msg, field, cursor, steady, fresh, seen, ret>>

Handles == Msgs \cup {Iter}

Return(op, status) == ret' = [op |-> op, status |-> status]

Into(m) == {h \in Handles : field[h] # NoField /\ field[h].msg = m}

-----------------------------------------------------------------------------
(* Pointers. *)

\* What a walk puts in a handle when it meets the field at offset o of m.
Pointed(m, o) ==
    LET f == msg[m].at[o]
    IN  [msg |-> m, at |-> o, type |-> f.type, name |-> f.name,
         size |-> DecodedSize(f), live |-> TRUE]

\* realloc may move a buffer that grows, and only then.
MayMove(p, q, moves) == moves => q.cap > p.cap

\* Message m becomes q; its fields from offset o on have been resized or
\* shifted.  Every pointer into it dangles if the allocation has moved.
Becomes(m, q, o, moves) ==
    /\ q.tail <= MaxTail /\ q.cap <= MaxCap
    /\ MayMove(msg[m], q, moves)
    /\ msg' = [msg EXCEPT ![m] = q]
    /\ cursor' = IF moves /\ cursor # NoCursor /\ cursor.msg = m
                 THEN [cursor EXCEPT !.live = FALSE] ELSE cursor
    /\ steady' = (steady /\ ~(/\ cursor.msg = m
                              /\ moves \/ o < cursor.pos))
    /\ fresh' = fresh \ {h \in Into(m) : moves \/ o <= field[h].at}
    /\ UNCHANGED seen

Dangle(m, moves, except) ==
    [h \in Handles |->
        IF moves /\ h \in Into(m) \ except
        THEN [field[h] EXCEPT !.live = FALSE] ELSE field[h]]

\* Where the fields that an update resizes or shifts begin.
Shifted(p, o, in) == IF in.len # DecodedSize(p.at[o]) THEN o ELSE p.tail

-----------------------------------------------------------------------------
(* Calls on a message. *)

Add(m, name, fid, in, moves) ==
    LET r == AddField(msg[m], name, fid, in) IN
    /\ in.type \notin AddedByUpdateTypes
    /\ Becomes(m, r.buf, msg[m].tail, moves)
    /\ field' = Dangle(m, moves, {})
    /\ Return("add", r.status)

UpdateByKey(m, name, fid, in, moves) ==
    LET p == msg[m]
        r == UpdateField(p, name, fid, in)
    IN
    /\ in.type \notin ScalarVectorTypes
    /\ KeepsWidth(p, name, fid, in) /\ FitsPrefix(in)
    /\ Becomes(m, r.buf,
               IF r.status = "OK" /\ Found(p, name, fid)
               THEN Shifted(p, FirstMatch(p, name, fid), in) ELSE p.tail,
               moves)
    /\ field' = Dangle(m, moves, {})
    /\ Return("update", r.status)

Clear(m) ==
    /\ Becomes(m, Cleared(msg[m]), 0, FALSE)
    /\ UNCHANGED field
    /\ Return("clear", "OK")

\* Slip: of the items copied into the handle the size is forgotten.
GetField_OldSize(m, name, fid) ==
    LET p      == msg[m]
        status == GetFieldStatus(p, name, fid)
        f      == Pointed(m, FirstMatch(p, name, fid))
    IN
    /\ IF status = "OK"
       THEN /\ field' = [field EXCEPT ![m] =
                            IF field[m] = NoField THEN f
                            ELSE [f EXCEPT !.size = field[m].size]]
            /\ fresh' = fresh \cup {m}
       ELSE UNCHANGED <<field, fresh>>
    /\ Return("getField", status)
    /\ UNCHANGED <<msg, cursor, steady, seen>>

\* The handle is returned whether or not the field was found.
GetField(m, name, fid) ==
    LET p      == msg[m]
        status == GetFieldStatus(p, name, fid)
    IN
    /\ IF status = "OK"
       THEN /\ field' = [field EXCEPT ![m] = Pointed(m, FirstMatch(p, name, fid))]
            /\ fresh' = fresh \cup {m}
       ELSE UNCHANGED <<field, fresh>>
    /\ Return("getField", status)
    /\ UNCHANGED <<msg, cursor, steady, seen>>

-----------------------------------------------------------------------------
(* The iterator. *)

HasFields(m) == HeaderSize(msg[m]) < msg[m].tail

\* Slip: the step that begin takes is not rewound.
Begin_NoRewind(m, parent) ==
    LET first == HeaderSize(msg[m]) IN
    /\ cursor' = [msg |-> m, live |-> TRUE,
                  pos |-> IF HasFields(m) THEN first + DecodedLen(msg[m].at[first])
                          ELSE first,
                  begun |-> HasFields(m), early |-> ~HasFields(m),
                  parent |-> parent]
    /\ steady' = TRUE
    /\ seen' = <<>>
    /\ IF HasFields(m)
       THEN /\ field' = [field EXCEPT ![Iter] = Pointed(m, first)]
            /\ fresh' = fresh \cup {Iter}
       ELSE UNCHANGED <<field, fresh>>

\* begin points at the first field and takes one step, which rewinds: the
\* first field has been read and is read again.  In an empty message that
\* step does not happen, and the rewind is still to come.
Begin(m, parent) ==
    /\ cursor' = [msg |-> m, pos |-> HeaderSize(msg[m]), live |-> TRUE,
                  begun |-> HasFields(m), early |-> ~HasFields(m),
                  parent |-> parent]
    /\ steady' = TRUE
    /\ seen' = <<>>
    /\ IF HasFields(m)
       THEN /\ field' = [field EXCEPT ![Iter] = Pointed(m, HeaderSize(msg[m]))]
            /\ fresh' = fresh \cup {Iter}
       ELSE UNCHANGED <<field, fresh>>

IterCreate(m) ==
    /\ cursor = NoCursor
    /\ Begin(m, m)
    /\ Return("create", "OK")
    /\ UNCHANGED msg

\* associate and begin point the iterator at a message, and leave the parent
\* of its handle as it was.
Associate(m) ==
    /\ cursor # NoCursor
    /\ Begin(m, cursor.parent)
    /\ Return("associate", "OK")
    /\ UNCHANGED msg

IterDestroy ==
    /\ cursor # NoCursor
    /\ cursor' = NoCursor
    /\ steady' = FALSE
    /\ seen' = <<>>
    /\ field' = [field EXCEPT ![Iter] = NoField]
    /\ fresh' = fresh \ {Iter}
    /\ Return("destroy", "OK")
    /\ UNCHANGED msg

HasNext == cursor.pos < msg[cursor.msg].tail

\* The rule for a client that steps: the walk is undisturbed, or what it
\* left of the message is nothing.
MayStep == cursor # NoCursor /\ cursor.live /\ (steady \/ ~HasNext)

\* Slip: the terminator of the name is not counted.
Step_NoTerminator(p, c) == (c.pos + DecodedLen(p.at[c.pos])) - 1

Step(p, c) == c.pos + DecodedLen(p.at[c.pos])

IterNext ==
    /\ MayStep
    /\ HasNext
    /\ LET p == msg[cursor.msg] IN
       /\ cursor' = [cursor EXCEPT
                        !.pos = IF cursor.begun THEN Step(p, cursor)
                                ELSE HeaderSize(p),
                        !.begun = TRUE]
       /\ field' = [field EXCEPT ![Iter] = Pointed(cursor.msg, cursor.pos)]
    /\ seen' = Append(seen, cursor.pos)
    /\ fresh' = fresh \cup {Iter}
    /\ Return("next", "OK")
    /\ UNCHANGED <<msg, steady>>

IterEnd ==
    /\ MayStep
    /\ ~HasNext
    /\ Return("next", "NULL")
    /\ UNCHANGED <<msg, field, cursor, steady, fresh, seen>>

-----------------------------------------------------------------------------
(* Updating through a handle. *)

HandleTypes == (FixedWidthTypes \ {"QUANTITY"}) \cup StructTypes \cup {"STRING"}

\* The rules for a client that updates: the handle is undisturbed, and a
\* string that changes in size is updated in the message the handle was made
\* for, whose buffer the code takes the field to be in.
MayUse(h) == h \in fresh

SameMessage(h, in) ==
    (h = Iter /\ in.len # field[h].size) => cursor.parent = field[h].msg

\* The handle is rebased if the buffer moves; its size is not touched, and a
\* null name is moved by the same distance as one that points somewhere.
Rebased(f, moves) ==
    [f EXCEPT !.name = IF moves /\ f.name = NoName THEN Garbage ELSE f.name]

UpdateThrough(h, q, in, moves) ==
    LET f == field[h] IN
    /\ Becomes(f.msg, q,
               IF in.len # f.size THEN f.at ELSE msg[f.msg].tail, moves)
    /\ field' = [Dangle(f.msg, moves, {h}) EXCEPT ![h] = Rebased(f, moves)]
    /\ Return("updateField", "OK")

HandleUpdate(h, in, moves) ==
    /\ MayUse(h)
    /\ in.type \in HandleTypes /\ in.type = field[h].type
    /\ SameMessage(h, in)
    /\ UpdateThrough(h, Replaced(msg[field[h].msg], field[h].at, in), in, moves)

HandleRefuse(h, in) ==
    /\ MayUse(h)
    /\ in.type \in HandleTypes /\ in.type # field[h].type
    /\ Return("updateField", "WRONG_FIELD_TYPE")
    /\ UNCHANGED <<msg, field, cursor, steady, fresh, seen>>

\* The same bytes are moved when the size in the handle is out of date: they
\* are counted from where the data would end if it still had that size.
ReplacedStale(p, o, size, in) ==
    LET f        == p.at[o]
        next     == ((o + EncodedLen(f)) - f.data.len) + size
        Moved(q) == IF q >= next THEN (q + in.len) - size ELSE q
        kept     == {q \in DOMAIN p.at : q <= o \/ q >= next}
    IN  [p EXCEPT
            !.at = [x \in {Moved(q) : q \in kept} |->
                        IF x = o THEN Rewritten(f, in)
                        ELSE p.at[CHOOSE q \in kept : Moved(q) = x]],
            !.tail = (p.tail + in.len) - size,
            !.cap  = IF in.len > size THEN (p.cap + in.len) - size ELSE p.cap]

HandleUpdateStale(h, in, moves) ==
    LET f == field[h]
        p == msg[f.msg]
    IN
    /\ f # NoField /\ f.live
    /\ f.at \in DOMAIN p.at /\ f.type = p.at[f.at].type
    /\ in.type \in HandleTypes /\ in.type = f.type
    /\ SameMessage(h, in)
    /\ ((f.at + EncodedLen(p.at[f.at])) - p.at[f.at].data.len) + f.size <= p.tail
    /\ UpdateThrough(h, ReplacedStale(p, f.at, f.size, in), in, moves)

-----------------------------------------------------------------------------

Init ==
    /\ msg = [m \in Msgs |-> NewBuffer]
    /\ field = [h \in Handles |-> NoField]
    /\ cursor = NoCursor
    /\ steady = FALSE
    /\ fresh = {}
    /\ seen = <<>>
    /\ ret = [op |-> "init", status |-> "OK"]

MessageCall(m) ==
    \/ Clear(m)
    \/ \E name \in Names, fid \in Fids :
        \/ GetField(m, name, fid)
        \/ \E in \in Inputs, moves \in BOOLEAN :
            \/ Add(m, name, fid, in, moves)
            \/ UpdateByKey(m, name, fid, in, moves)

IterCall ==
    \/ \E m \in Msgs : IterCreate(m) \/ Associate(m)
    \/ IterNext
    \/ IterEnd
    \/ IterDestroy

HandleCall ==
    \E h \in Handles, in \in Inputs :
        \/ HandleRefuse(h, in)
        \/ \E moves \in BOOLEAN : HandleUpdate(h, in, moves)

Next ==
    \/ \E m \in Msgs : MessageCall(m)
    \/ IterCall
    \/ HandleCall

Spec == Init /\ [][Next]_vars

StaleNext ==
    \/ Next
    \/ \E h \in Handles, in \in Inputs, moves \in BOOLEAN :
        HandleUpdateStale(h, in, moves)

StaleSpec == Init /\ [][StaleNext]_vars

-----------------------------------------------------------------------------
(* Properties. *)

IterTypeOK ==
    /\ \A m \in Msgs : IsBuffer(msg[m])
    /\ DOMAIN field = Handles
    /\ fresh \subseteq {h \in Handles : field[h] # NoField}
    /\ cursor # NoCursor => cursor.msg \in Msgs /\ cursor.pos \in Nat
    /\ steady => cursor # NoCursor

\* Updates through handles, like those by name, leave messages that can be
\* walked.
IterFramed == \A m \in Msgs : FramedBuffer(msg[m])

\* An undisturbed iterator points at a field or at the end, in the buffer
\* the message has now: appends that fit, updates further on and updates
\* that keep the size disturb nothing.
CursorOnField ==
    steady => /\ cursor.live
              /\ LET p == msg[cursor.msg]
                 IN  cursor.pos \in DOMAIN p.at \cup {p.tail}

\* An undisturbed walk has returned every field it has passed, once each and
\* in order; when it ends it has returned every field of the message, those
\* appended on the way included.  One exception: a walk that began on an
\* empty message returns the first field twice.
WalksEachOnce ==
    steady =>
        /\ \A i, j \in DOMAIN seen : i < j =>
                \/ seen[i] < seen[j]
                \/ cursor.early /\ i = 1 /\ j = 2 /\ seen[i] = seen[j]
        /\ \/ cursor.early /\ Len(seen) = 1
           \/ {seen[i] : i \in DOMAIN seen}
                = {o \in DOMAIN msg[cursor.msg].at : o < cursor.pos}

\* What an undisturbed handle says is what is stored, also after other
\* fields have been added, updated or read.
HandleCurrent ==
    \A h \in fresh :
        LET f == field[h]
            p == msg[f.msg]
        IN  /\ f.live
            /\ f.at \in DOMAIN p.at
            /\ f = Pointed(f.msg, f.at)

\* Payload.h:300, "Update payload field according to the field and values
\* provided": any number of updates through one handle leaves a message that
\* can be walked.
HandleUpdatesFramed == IterFramed

=============================================================================
