----------------------------- MODULE OmnmPayload -----------------------------
(***************************************************************************)
(* Payloads as their clients use them: a set of message handles, each null *)
(* or bound to a buffer, and the public functions of Payload.cpp as        *)
(* actions.  The bridge has no lock: one handle is used by one thread at a *)
(* time, so a call is one step, and what interleaves is calls on different *)
(* messages and the bytes in flight between them.                          *)
(*                                                                         *)
(* Spec is the behaviour under callers that keep to three rules the code   *)
(* relies on and does not enforce: an update that casts keeps the width of *)
(* the stored field, no update is longer than a length prefix can say, and *)
(* no message is unserialized from its own buffer.  LooseSpec drops the    *)
(* first and the last.                                                     *)
(***************************************************************************)
EXTENDS OmnmBuffer

CONSTANTS
    Msgs,         \* message handles
    NoPayload,    \* the value of a handle that holds no payload
    NoWire,       \* nothing has been sent yet
    Fids,         \* field identifiers callers use
    Inputs,       \* values callers store
    ReadTypes,    \* types callers read a field as
    ForeignWire,  \* images that arrive from elsewhere
    MaxWire,      \* bound: bytes of a message that is sent
    MaxTail,      \* bound: bytes in use in one buffer
    MaxCap        \* bound: bytes allocated to one buffer

ASSUME InputsAssumption ==
    /\ Fids \subseteq Nat
    /\ ReadTypes \subseteq FixedWidthTypes
    /\ \A in \in Inputs : IsInput(in)

\* A peer sends whole messages; it may speak a later version, and its header
\* may be longer than the three bytes of this one.
ASSUME WireAssumption ==
    \A img \in ForeignWire :
        /\ IsImage(img)
        /\ FramedFields(img.at, HeaderV1Size + img.rem, img.tail)

VARIABLES
    pay,    \* what each handle is bound to
    torn,   \* messages whose last unSerialize returned NOMEM
    wire,   \* the last image a client copied out of a buffer to send
    ret     \* the last call and the status it returned

vars == <<pay, torn, wire, ret>>

-----------------------------------------------------------------------------

InBounds(p) == p.tail <= MaxTail /\ p.cap <= MaxCap

Live(m)   == pay[m] # NoPayload
Usable(m) == Live(m) /\ m \notin torn

Return(op, status) == ret' = [op |-> op, status |-> status]

Finish(m, op, r) ==
    /\ InBounds(r.buf)
    /\ pay' = [pay EXCEPT ![m] = r.buf]
    /\ Return(op, r.status)

\* A caller that loses the contents of a message to NOMEM is told so.
NoteTorn(m, r) ==
    torn' = CASE r.status = "OK"    -> torn \ {m}
              [] r.status = "NOMEM" -> torn \cup {m}
              [] OTHER              -> torn

Init ==
    /\ pay = [m \in Msgs |-> NoPayload]
    /\ torn = {}
    /\ wire = NoWire
    /\ ret = [op |-> "init", status |-> "OK"]

-----------------------------------------------------------------------------
(* Lifecycle. *)

Create(m) ==
    /\ ~Live(m)
    /\ Finish(m, "create", Outcome(NewBuffer, "OK"))
    /\ UNCHANGED <<torn, wire>>

Destroy(m) ==
    /\ Live(m)
    /\ pay' = [pay EXCEPT ![m] = NoPayload]
    /\ torn' = torn \ {m}
    /\ Return("destroy", "OK")
    /\ UNCHANGED wire

Clear(m) ==
    /\ Live(m)
    /\ Finish(m, "clear", Outcome(Cleared(pay[m]), "OK"))
    /\ torn' = torn \ {m}
    /\ UNCHANGED wire

-----------------------------------------------------------------------------
(* Fields. *)

Add(m, name, fid, in) ==
    /\ Usable(m)
    /\ in.type \notin AddedByUpdateTypes
    /\ Finish(m, "add", AddField(pay[m], name, fid, in))
    /\ UNCHANGED <<torn, wire>>

\* addDateTime, addPrice, and addVectorMsg, DateTime and Price call their
\* update: they never add a second field.
AddByUpdate(m, name, fid, in) ==
    /\ Usable(m)
    /\ in.type \in AddedByUpdateTypes /\ FitsPrefix(in)
    /\ Finish(m, "addByUpdate", UpdateField(pay[m], name, fid, in))
    /\ UNCHANGED <<torn, wire>>

UpdateAny(m, name, fid, in) ==
    /\ Usable(m)
    /\ in.type \notin ScalarVectorTypes
    /\ FitsPrefix(in)
    /\ Finish(m, "update", UpdateField(pay[m], name, fid, in))
    /\ UNCHANGED <<torn, wire>>

Update(m, name, fid, in) ==
    /\ Usable(m) /\ KeepsWidth(pay[m], name, fid, in)
    /\ UpdateAny(m, name, fid, in)

\* The vector updates look the field up before they check the name for "",
\* and go on with a field they never filled in: a caller passes "" only with
\* a fid.
UpdateVector(m, name, fid, in) ==
    /\ Usable(m)
    /\ in.type \in ScalarVectorTypes
    /\ FitsPrefix(in)
    /\ ~BlankIdentity(name, fid)
    /\ Finish(m, "updateVector", UpdateVectorField(pay[m], name, fid, in))
    /\ UNCHANGED <<torn, wire>>

GetScalar(m, name, fid, t) ==
    /\ Usable(m)
    /\ Return("getScalar", GetScalarStatus(pay[m], name, fid, t))
    /\ UNCHANGED <<pay, torn, wire>>

GetField(m, name, fid) ==
    /\ Usable(m)
    /\ Return("getField", GetFieldStatus(pay[m], name, fid))
    /\ UNCHANGED <<pay, torn, wire>>

-----------------------------------------------------------------------------
(* Serialization. *)

\* serialize, and a transport that copies the bytes: the message may change
\* while they are in flight, and they may arrive never or more than once.
Serialize(m) ==
    /\ Usable(m) /\ pay[m].tail <= MaxWire
    /\ wire' = Image(pay[m])
    /\ Return("serialize", "OK")
    /\ UNCHANGED <<pay, torn>>

InFlight == (IF wire = NoWire THEN {} ELSE {wire}) \cup ForeignWire

UnSerializeFrom(m, img, allocFails) ==
    LET r == UnSerialize(pay[m], img, allocFails) IN
    /\ Live(m)
    /\ Finish(m, "unSerialize", r)
    /\ NoteTorn(m, r)
    /\ UNCHANGED wire

\* The message is created first; a version it cannot read leaves it behind,
\* empty.
CreateFromByteBuffer(m, img, allocFails) ==
    LET r == UnSerialize(NewBuffer, img, allocFails) IN
    /\ ~Live(m)
    /\ Finish(m, "createFromByteBuffer", r)
    /\ NoteTorn(m, r)
    /\ UNCHANGED wire

\* A null destination is created.
Copy(src, dst, allocFails) ==
    LET target == IF Live(dst) THEN pay[dst] ELSE NewBuffer
        r      == UnSerialize(target, Image(pay[src]), allocFails)
    IN
    /\ Usable(src)
    /\ src # dst
    /\ Finish(dst, "copy", r)
    /\ NoteTorn(dst, r)
    /\ UNCHANGED wire

\* serialize followed by unSerialize of the same message, or copy to itself.
CopySelf(m) ==
    /\ Usable(m)
    /\ Finish(m, "copySelf", UnSerializeSelf(pay[m]))
    /\ UNCHANGED <<torn, wire>>

-----------------------------------------------------------------------------

FieldCall(m) ==
    \E name \in Names, fid \in Fids :
        \/ GetField(m, name, fid)
        \/ \E t \in ReadTypes : GetScalar(m, name, fid, t)
        \/ \E in \in Inputs :
            \/ Add(m, name, fid, in)
            \/ AddByUpdate(m, name, fid, in)
            \/ Update(m, name, fid, in)
            \/ UpdateVector(m, name, fid, in)

SerialCall(m) ==
    \/ Serialize(m)
    \/ \E allocFails \in BOOLEAN :
        \/ \E img \in InFlight :
            \/ UnSerializeFrom(m, img, allocFails)
            \/ CreateFromByteBuffer(m, img, allocFails)
        \/ \E dst \in Msgs : Copy(m, dst, allocFails)

Next ==
    \E m \in Msgs :
        \/ Create(m)
        \/ Destroy(m)
        \/ Clear(m)
        \/ FieldCall(m)
        \/ SerialCall(m)

Spec == Init /\ [][Next]_vars

\* Callers that cast to another width and copy a message onto itself.
LooseNext ==
    \/ Next
    \/ \E m \in Msgs :
        \/ CopySelf(m)
        \/ \E name \in Names, fid \in Fids, in \in Inputs :
            UpdateAny(m, name, fid, in)

LooseSpec == Init /\ [][LooseNext]_vars

-----------------------------------------------------------------------------
(* Properties. *)

\* Every handle is null or holds a buffer of the right shape, what is in
\* flight is an image, and the last call returned a status of mama_status.
TypeOK ==
    /\ \A m \in Msgs : Live(m) => IsBuffer(pay[m])
    /\ DOMAIN pay = Msgs
    /\ torn \subseteq Msgs
    /\ wire # NoWire => IsImage(wire)
    /\ ret.status \in Statuses

\* No operation writes past what it allocated, and clear never computes a
\* negative number of bytes to zero: header, fields and allocation nest.
Bounds ==
    \A m \in Msgs : Live(m) => InAllocation(pay[m])

\* After any sequence of calls a walk of a message meets exactly the fields
\* that were stored.  This is what every lookup, iteration, copy and resize
\* of Payload.cpp relies on, and what resizing a field in the middle of the
\* buffer, clearing an extended header or copying one could break.
Framed ==
    \A m \in Msgs : Usable(m) => FramedBuffer(pay[m])

\* The header a message was parsed with is the header it would be sent with.
\* The code keeps two copies, the mHeader struct and the first bytes of the
\* buffer, and reads one while it serializes the other.
HeaderAgrees ==
    \A m \in Msgs : Usable(m) => HeaderInBytes(pay[m])

\* What is in flight can be read by whoever receives it, whatever happened
\* to the sender since.
WireFramed ==
    wire # NoWire =>
        /\ FramedFields(wire.at, HeaderV1Size + wire.rem, wire.tail)
        /\ wire.ver <= OmnmProtocolVersion

\* A call that reports an error has changed no message, except that a copy
\* or unSerialize that ran out of memory has emptied its target, and a
\* createFromByteBuffer of a later version has left an empty message.
FailureKeeps ==
    ret'.status \notin {"OK", "NOMEM"} =>
        \A m \in Msgs :
            \/ pay'[m] = pay[m]
            \/ /\ ret' = [op |-> "createFromByteBuffer",
                          status |-> "WRONG_FIELD_TYPE"]
               /\ ~Live(m) /\ pay'[m] = NewBuffer

FailureAtomic == [][FailureKeeps]_vars

=============================================================================
