------------------------------ MODULE OmnmLoops ------------------------------
(***************************************************************************)
(* The calls that walk a message and act on each field as they meet it:    *)
(* apply, which updates another message, and iterateFields, which calls    *)
(* back into the client.  Each is a loop over a stack iterator; here a     *)
(* turn of the loop is a step, and the call in progress is a variable.     *)
(* While apply runs nothing else does; while a callback of iterateFields   *)
(* runs, the client may add, update and clear, but starts no other loop.   *)
(*                                                                         *)
(* Spec is the behaviour under clients that keep to the rules KeepsWidths  *)
(* and MayDisturb and apply no message to itself.  Allocations do not fail *)
(* here.                                                                   *)
(***************************************************************************)
EXTENDS OmnmBuffer, Sequences

CONSTANTS
    Msgs,
    Ids,         \* the <<name, fid>> pairs clients use
    Dict,        \* the fid that belongs to each name
    Inputs,      \* values clients store
    Unreadable,  \* contents of a sub-message of a later version
    EmptyMsg,    \* contents of a message without fields
    NoJob,       \* no call is in progress
    NoSub,       \* the loop has read no sub-message
    MaxTail,     \* bound: bytes in use in a buffer when apply is called
    MaxCap       \* bound: bytes allocated to one when it is called

\* Clients name fields as a data dictionary does: a name and a fid that are
\* used together belong together.
ASSUME IdsAssumption ==
    /\ Ids \subseteq Names \X Nat
    /\ \A id \in Ids :
        /\ ~NoIdentity(id[1], id[2]) /\ ~BlankIdentity(id[1], id[2])
        /\ id[1] \notin {NoName, EmptyName} /\ id[2] # 0 => Dict[id[1]] = id[2]

ASSUME LoopInputsAssumption == \A in \in Inputs : IsInput(in) /\ in.len > 0

\* A message without fields is one a length prefix can say the length of.
ASSUME EmptyMsgAssumption == HeaderV1Size <= MaxU32

VARIABLES
    msg,    \* the buffer of each message
    job,    \* the call in progress
    ret     \* the last call that returned, and its status

vars == <<msg, job, ret>>

Return(op, status) == ret' = [op |-> op, status |-> status]

Applying  == job # NoJob /\ job.kind = "apply"
Iterating == job # NoJob /\ job.kind = "iterate"

\* The client has control: between calls, and inside a callback.
ClientRuns == job = NoJob \/ (Iterating /\ job.inCallback)

-----------------------------------------------------------------------------
(* What clients do to a message. *)

\* The rule for a callback: what it does to the message being walked moves
\* neither the allocation nor anything the walk has passed.
MayDisturb(m, q) ==
    (Iterating /\ job.src = m) =>
        /\ q.cap = msg[m].cap
        /\ {o \in DOMAIN msg[m].at : o < job.pos} = {o \in DOMAIN q.at : o < job.pos}
        /\ job.pos \in DOMAIN q.at \cup {q.tail}

Store(m, op, r) ==
    /\ r.buf.tail <= MaxTail /\ r.buf.cap <= MaxCap
    /\ MayDisturb(m, r.buf)
    /\ msg' = [msg EXCEPT ![m] = r.buf]
    /\ Return(op, r.status)
    /\ UNCHANGED job

Add(m, id, in) ==
    /\ ClientRuns
    /\ in.type \notin AddedByUpdateTypes
    /\ Store(m, "add", AddField(msg[m], id[1], id[2], in))

Update(m, id, in) ==
    /\ ClientRuns
    /\ in.type \notin ScalarVectorTypes
    /\ KeepsWidth(msg[m], id[1], id[2], in) /\ FitsPrefix(in)
    /\ Store(m, "update", UpdateField(msg[m], id[1], id[2], in))

Clear(m) ==
    /\ ClientRuns
    /\ Store(m, "clear", Outcome(Cleared(msg[m]), "OK"))

-----------------------------------------------------------------------------
(* The loop. *)

\* Slip: every field is taken to have a length prefix.
After_Prefixed(p, pos) ==
    (pos + DecodedLen(p.at[pos]) + LengthWidth)
        - PrefixBytes(PrefixedTypes, p.at[pos].type)

After(p, pos) == pos + DecodedLen(p.at[pos])

HasNext == job.pos < msg[job.src].tail

-----------------------------------------------------------------------------
(* apply. *)

AppliedTypes ==
    (FixedWidthTypes \ {"QUANTITY"}) \cup StructTypes \cup ScalarVectorTypes
        \cup {"STRING", "MSG", "OPAQUE", "VECTOR_STRING"}

\* The name apply has in its variable when it comes to pos: that of the last
\* field with a name.
LastName(p, pos) ==
    LET named == {o \in DOMAIN p.at : o < pos /\ p.at[o].name # NoName}
    IN  IF named = {} THEN NoName
        ELSE p.at[CHOOSE o \in named : \A q \in named : q <= o].name

\* The field at o, under the name apply has for it.
Renamed(p, o) ==
    IF p.at[o].name # NoName THEN p.at[o]
    ELSE [p.at[o] EXCEPT !.name = LastName(p, o)]

\* What KeepsWidth is for an update, for all that apply makes of the fields of
\* src at the offsets left.  A lookup that finds a field of dst finds it still
\* when its turn comes; one that finds none may then find a field that was
\* appended in the meantime.  (Such a field counts also when it was not appended
\* itself but went into one appended before it: that much the rule is too strict.)
KeepsWidths(src, left, dst) ==
    LET values  == {o \in left : src.at[o].type \in AppliedTypes}
        Name(o) == Renamed(src, o).name
        Fid(o)  == src.at[o].fid
        new     == {o \in values : ~Found(dst, Name(o), Fid(o))}
    IN  /\ \A o \in values : KeepsWidth(dst, Name(o), Fid(o), src.at[o])
        /\ \A q, o \in new :
            (/\ q < o /\ Matches(Renamed(src, q), Name(o), Fid(o))
             /\ Castable(src.at[q].type, src.at[o].type))
            => Width(src.at[q].type) = Width(src.at[o].type)

\* Slip: the destination is emptied first, as a copy would.
ApplyCall_Clears(dst, src) ==
    /\ job = NoJob /\ dst # src
    /\ KeepsWidths(msg[src], DOMAIN msg[src].at, msg[dst])
    /\ msg[dst].tail <= MaxTail /\ msg[dst].cap <= MaxCap
    /\ job' = [kind |-> "apply", dst |-> dst, src |-> src,
               pos |-> HeaderSize(msg[src]), name |-> NoName, sub |-> NoSub,
               before |-> msg[dst]]
    /\ msg' = [msg EXCEPT ![dst] = Cleared(msg[dst])]
    /\ UNCHANGED ret

ApplyCall(dst, src) ==
    /\ job = NoJob /\ dst # src
    /\ KeepsWidths(msg[src], DOMAIN msg[src].at, msg[dst])
    /\ msg[dst].tail <= MaxTail /\ msg[dst].cap <= MaxCap
    /\ job' = [kind |-> "apply", dst |-> dst, src |-> src,
               pos |-> HeaderSize(msg[src]), name |-> NoName, sub |-> NoSub,
               before |-> msg[dst]]
    /\ UNCHANGED <<msg, ret>>

\* Slip: the first name the loop meets is the one it keeps.
NameFor_First(f) == IF job.name = NoName THEN f.name ELSE job.name

\* getName leaves the variable alone when a field has no name: it still holds
\* the name of the field before.
NameFor(f) == IF f.name = NoName THEN job.name ELSE f.name

Readable(f) == f.type = "MSG" => f.data.val \notin Unreadable

\* Slip: what was read before is forgotten when a message cannot be read.
SubFor_Forgotten(f) ==
    CASE f.type = "MSG" /\ Readable(f) ->
            [type |-> "MSG", len |-> DecodedSize(f), val |-> f.data.val]
      [] f.type = "MSG" /\ ~Readable(f) ->
            [type |-> "MSG", len |-> HeaderV1Size, val |-> EmptyMsg]
      [] OTHER -> job.sub

\* The payload cached in the iterator's field, after getMsg of f: one that
\* cannot be read leaves what was read before, or a new empty message.
SubFor(f) ==
    CASE f.type = "MSG" /\ Readable(f) ->
            [type |-> "MSG", len |-> DecodedSize(f), val |-> f.data.val]
      [] f.type = "MSG" /\ ~Readable(f) /\ job.sub = NoSub ->
            [type |-> "MSG", len |-> HeaderV1Size, val |-> EmptyMsg]
      [] OTHER -> job.sub

\* The value a getter of the field's own type reads, and apply passes on.
ValueFor(f) ==
    IF f.type = "MSG" THEN SubFor(f)
    ELSE [type |-> f.type, len |-> DecodedSize(f), val |-> f.data.val]

\* The destination after one field; the status of the update is dropped.
Applied(p, name, f) ==
    CASE f.type \notin AppliedTypes     -> p
      [] f.type \in ScalarVectorTypes   ->
            UpdateVectorField(p, name, f.fid, ValueFor(f)).buf
      [] OTHER -> UpdateField(p, name, f.fid, ValueFor(f)).buf

ApplyStep ==
    /\ Applying /\ HasNext
    /\ LET f == msg[job.src].at[job.pos] IN
       /\ msg' = [msg EXCEPT ![job.dst] = Applied(msg[job.dst], NameFor(f), f)]
       /\ job' = [job EXCEPT !.pos = After(msg[job.src], job.pos),
                             !.name = NameFor(f), !.sub = SubFor(f)]
    /\ UNCHANGED ret

ApplyReturns ==
    /\ Applying /\ ~HasNext
    /\ job' = NoJob
    /\ Return("apply", "OK")
    /\ UNCHANGED msg

-----------------------------------------------------------------------------
(* iterateFields. *)

\* Slip: the step that the initialisation takes is not rewound.
IterateCall_NoRewind(m) ==
    /\ job = NoJob
    /\ HeaderSize(msg[m]) < msg[m].tail
    /\ job' = [kind |-> "iterate", src |-> m,
               pos |-> After(msg[m], HeaderSize(msg[m])),
               inCallback |-> FALSE, met |-> {}]
    /\ UNCHANGED <<msg, ret>>

IterateCall(m) ==
    /\ job = NoJob
    /\ job' = [kind |-> "iterate", src |-> m, pos |-> HeaderSize(msg[m]),
               inCallback |-> FALSE, met |-> {}]
    /\ UNCHANGED <<msg, ret>>

\* The next field is handed to the callback.
IterateStep ==
    /\ Iterating /\ ~job.inCallback /\ HasNext
    /\ job' = [job EXCEPT !.pos = After(msg[job.src], job.pos),
                          !.inCallback = TRUE, !.met = @ \cup {job.pos}]
    /\ UNCHANGED <<msg, ret>>

\* Slip: the loop starts over, lest the callback has changed the message.
CallbackReturns_Restart ==
    /\ Iterating /\ job.inCallback
    /\ job' = [job EXCEPT !.inCallback = FALSE,
                          !.pos = HeaderSize(msg[job.src])]
    /\ UNCHANGED <<msg, ret>>

CallbackReturns ==
    /\ Iterating /\ job.inCallback
    /\ job' = [job EXCEPT !.inCallback = FALSE]
    /\ UNCHANGED <<msg, ret>>

IterateReturns ==
    /\ Iterating /\ ~job.inCallback /\ ~HasNext
    /\ job' = NoJob
    /\ Return("iterateFields", "OK")
    /\ UNCHANGED msg

-----------------------------------------------------------------------------

Init ==
    /\ msg = [m \in Msgs |-> NewBuffer]
    /\ job = NoJob
    /\ ret = [op |-> "init", status |-> "OK"]

ClientStep ==
    \E m \in Msgs :
        \/ Clear(m)
        \/ IterateCall(m)
        \/ \E src \in Msgs : ApplyCall(m, src)
        \/ \E id \in Ids, in \in Inputs : Add(m, id, in) \/ Update(m, id, in)

\* The steps of a call that has been made.
LoopStep ==
    \/ ApplyStep \/ ApplyReturns
    \/ IterateStep \/ CallbackReturns \/ IterateReturns

Next ==
    \/ ClientStep
    \/ LoopStep

\* Nobody has to call anything; but the thread that made a call runs it, and
\* a callback returns.
Fairness == WF_vars(LoopStep)

Spec == Init /\ [][Next]_vars /\ Fairness

-----------------------------------------------------------------------------
(* Properties. *)

LoopTypeOK ==
    /\ \A m \in Msgs : IsBuffer(msg[m])
    /\ job # NoJob => job.src \in Msgs /\ job.pos \in Nat
    /\ ret.status \in Statuses

\* Applying a message, and whatever callbacks do, leaves messages that can be
\* walked and that fit in what is allocated to them.
LoopsFramed == \A m \in Msgs : FramedBuffer(msg[m]) /\ InAllocation(msg[m])

\* Where apply is about to return.
ApplyDone == Applying /\ ~HasNext

\* The messages apply passes on as they are: no field without a name comes
\* behind one that has a name, and every sub-message can be read.
PassedOn(p) ==
    /\ \A o, q \in DOMAIN p.at :
        o < q /\ p.at[o].name # NoName => p.at[q].name # NoName
    /\ \A f \in FieldsOf(p) : Readable(f)

\* What clients store goes by the dictionary; but a field without a name that
\* apply adds under the name it has kept need not.
ByDictionary(p) ==
    \A f \in FieldsOf(p) : f.name # NoName /\ f.fid # 0 => Dict[f.name] = f.fid

\* The dictionary's identity of a field.
Key(f) == IF f.fid # 0 THEN f.fid ELSE Dict[f.name]

OnlyOne(f, p) == \A o, q \in DOMAIN p.at :
                    Key(p.at[o]) = Key(f) /\ Key(p.at[q]) = Key(f) => o = q

\* The field the value goes to, if there is one, takes values of its type.
Welcome(f, p) ==
    Found(p, f.name, f.fid) =>
        Accepts(p.at[FirstMatch(p, f.name, f.fid)], ValueFor(f))

\* The messages that apply merges field by field.
Mergeable(src, dst) == PassedOn(src) /\ ByDictionary(src) /\ ByDictionary(dst)

\* When apply returns, a lookup in the destination finds the value of every
\* field of a source that is passed on as it is: of each that is alone in the
\* source, of a type the loop has a case for, with data, and not refused for
\* its type.  The
\* updates of the other fields have all run in between, each with a lookup
\* that matches on name or fid, whichever comes first.
ApplyDelivers ==
    ApplyDone /\ Mergeable(msg[job.src], job.before) =>
        \A f \in FieldsOf(msg[job.src]) :
            (/\ OnlyOne(f, msg[job.src])
             /\ f.type \in AppliedTypes
             /\ DecodedSize(f) > 0
             /\ Welcome(f, job.before))
                => LET d == msg[job.dst] IN
                   /\ Found(d, f.name, f.fid)
                   /\ LET g == d.at[FirstMatch(d, f.name, f.fid)] IN
                      g.data.val = f.data.val /\ DecodedSize(g) = DecodedSize(f)

\* Whatever is applied, what was in the destination stays, in its order,
\* under its identity and with its type, and the fields that are new come
\* behind.  A field keeps its value unless the source has one for it.
ApplyKeepsRest ==
    ApplyDone =>
        LET old == Fields(job.before)
            new == Fields(msg[job.dst])
        IN  /\ Len(old) <= Len(new)
            /\ \A i \in DOMAIN old :
                /\ <<new[i].type, new[i].fid, new[i].name>>
                        = <<old[i].type, old[i].fid, old[i].name>>
                /\ (/\ Mergeable(msg[job.src], job.before)
                    /\ \A f \in FieldsOf(msg[job.src]) : Key(f) # Key(old[i]))
                        => new[i] = old[i]

\* When iterateFields returns, its callback has been given every field the
\* message has then, those that callbacks added included, and no other.
IterateMeetsAll ==
    Iterating /\ ~job.inCallback /\ ~HasNext => job.met = DOMAIN msg[job.src].at

\* The fields a walk has behind it.
Passed == {o \in DOMAIN msg[job.src].at : o < job.pos}

\* A call in progress stays on its message and does not go back: a turn passes
\* one field, the next.  apply finds its source as it was at each turn, however
\* much its updates move in the destination, and each of its turns brings it
\* nearer to the end and none beyond: it cannot go on for ever.  iterateFields
\* takes as many turns as its callbacks leave it.
TurnsAdvance ==
    [][job # NoJob /\ job' # NoJob =>
        /\ job'.src = job.src
        /\ job.pos <= job'.pos
        /\ job'.pos # job.pos => HasNext /\ Passed' = Passed \cup {job.pos}
        /\ Applying => /\ msg'[job.src] = msg[job.src]
                       /\ job.pos < job'.pos /\ job'.pos <= msg[job.src].tail]_vars

\* A call that was made returns, whatever kinds of fields it meets, and also
\* if its callback keeps adding fields in the room there is.
CallsReturn == job # NoJob ~> job = NoJob

=============================================================================
