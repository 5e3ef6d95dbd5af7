----------------------------- MODULE OmnmBuffer -----------------------------
(***************************************************************************)
(* One payload buffer (OmnmPayloadImpl) and the operations on it.          *)
(*                                                                         *)
(* A buffer is a record                                                    *)
(*   at    the fields, a function from the offset of each field's first    *)
(*         byte in mPayloadBuffer;                                         *)
(*   tail  mPayloadBufferTail, where the next field goes;                  *)
(*   cap   mPayloadBufferSize;                                             *)
(*   hdr   mHeader.mRemainingHeaderSize, the parsed copy that says where   *)
(*         the first field is;                                             *)
(*   ver, rem  the version and remaining-size bytes of the raw header.     *)
(* An operation that can fail is an operator that returns an outcome: the  *)
(* buffer it leaves behind and the status it returns.                      *)
(***************************************************************************)
EXTENDS OmnmFormat, FiniteSets

CONSTANTS
    DefaultSize     \* DEFAULT_PAYLOAD_SIZE

ASSUME DefaultSizeAssumption == DefaultSize \in Nat /\ DefaultSize >= 3

OmnmProtocolVersion == 1
HeaderV1Size        == 3

Statuses == {"OK", "NULL_ARG", "INVALID_ARG", "NOT_FOUND",
             "WRONG_FIELD_TYPE", "NOMEM"}

Outcome(buf, status) == [buf |-> buf, status |-> status]

Larger(a, b) == IF a >= b THEN a ELSE b

NoFields == [o \in {} |-> 0]

HeaderSize(p) == HeaderV1Size + p.hdr

-----------------------------------------------------------------------------
(* Creation and reset. *)

\* Slip: the raw header keeps the remaining size of a longer header.
Cleared_StructOnly(p) ==
    [p EXCEPT !.at = NoFields, !.tail = HeaderV1Size, !.hdr = 0,
              !.ver = OmnmProtocolVersion]

\* clear: default header in the struct and in the bytes, the rest zeroed.
Cleared(p) ==
    [p EXCEPT !.at = NoFields, !.tail = HeaderV1Size, !.hdr = 0,
              !.ver = OmnmProtocolVersion, !.rem = 0]

\* The constructor: DEFAULT_PAYLOAD_SIZE zeroed bytes, then clear.
NewBuffer ==
    Cleared([at |-> NoFields, tail |-> 0, cap |-> DefaultSize,
             hdr |-> 0, ver |-> 0, rem |-> 0])

-----------------------------------------------------------------------------
(* Lookup. *)

MatchOffsets(p, name, fid) ==
    {o \in DOMAIN p.at : Matches(p.at[o], name, fid)}

Found(p, name, fid) == MatchOffsets(p, name, fid) # {}

\* Slip: the walk goes on after a match.
FirstMatch_Last(p, name, fid) ==
    CHOOSE o \in MatchOffsets(p, name, fid) :
        \A q \in MatchOffsets(p, name, fid) : o >= q

\* findFieldInBuffer walks the buffer from the front: the match it returns
\* is the one at the lowest offset.
FirstMatch(p, name, fid) ==
    CHOOSE o \in MatchOffsets(p, name, fid) :
        \A q \in MatchOffsets(p, name, fid) : o <= q

GetFieldStatus(p, name, fid) ==
    CASE NoIdentity(name, fid)    -> "NULL_ARG"
      [] BlankIdentity(name, fid) -> "INVALID_ARG"
      [] OTHER -> IF Found(p, name, fid) THEN "OK" ELSE "NOT_FOUND"

\* getFieldValueAsCopy: a field wider than the caller's variable of type t
\* is refused, anything narrower is converted or copied.
GetScalarStatus(p, name, fid, t) ==
    LET status == GetFieldStatus(p, name, fid)
    IN  IF /\ status = "OK"
           /\ DecodedSize(p.at[FirstMatch(p, name, fid)]) > Width(t)
        THEN "WRONG_FIELD_TYPE"
        ELSE status

-----------------------------------------------------------------------------
(* Appending a field. *)

AddStatus(name, fid, in) ==
    CASE in.len > MaxU32                          -> "INVALID_ARG"
      [] in.len <= MaxU32 /\
         (in.len = 0 \/ NoIdentity(name, fid))    -> "NULL_ARG"
      [] in.len <= MaxU32 /\ in.len # 0 /\
         BlankIdentity(name, fid)                 -> "INVALID_ARG"
      [] OTHER                                    -> "OK"

\* The encoded field goes to the tail; the buffer grows to the new tail if
\* it is not big enough.
Appended(p, f) ==
    LET newTail == p.tail + EncodedLen(f)
    IN  [p EXCEPT
            !.at = [o \in DOMAIN p.at \cup {p.tail} |->
                        IF o = p.tail THEN f ELSE p.at[o]],
            !.tail = newTail,
            !.cap = Larger(p.cap, newTail)]

\* Slip: the name and fid are checked only after the field is in.
AddField_LateCheck(p, name, fid, in) ==
    Outcome(Appended(p, Encode(name, fid, in)), AddStatus(name, fid, in))

AddField(p, name, fid, in) ==
    LET status == AddStatus(name, fid, in)
    IN  Outcome(IF status = "OK" THEN Appended(p, Encode(name, fid, in)) ELSE p,
                status)

-----------------------------------------------------------------------------
(* Updating a field in place. *)

\* The length prefix and the data are rewritten; the type byte is not.
Rewritten(f, in) ==
    [f EXCEPT !.decl = Prefix(f.type, in.len), !.data = in]

\* Slip: the tail moves and the allocation does not.
Replaced_NoGrowth(p, o, in) ==
    LET oldSize  == DecodedSize(p.at[o])
        Moved(q) == IF q > o THEN (q + in.len) - oldSize ELSE q
    IN  [p EXCEPT
            !.at = [x \in {Moved(q) : q \in DOMAIN p.at} |->
                        IF x = o THEN Rewritten(p.at[o], in)
                        ELSE p.at[CHOOSE q \in DOMAIN p.at : Moved(q) = x]],
            !.tail = (p.tail + in.len) - oldSize]

\* Slip: the fields after the updated one are not moved.
Replaced_NoMove(p, o, in) ==
    LET oldSize == DecodedSize(p.at[o])
    IN  [p EXCEPT
            !.at[o] = Rewritten(p.at[o], in),
            !.tail  = (p.tail + in.len) - oldSize,
            !.cap   = IF in.len > oldSize
                      THEN (p.cap + in.len) - oldSize ELSE p.cap]

\* The bytes after the field move by the difference in size, up or down, and
\* the buffer grows by that difference whenever the field does.
Replaced(p, o, in) ==
    LET oldSize  == DecodedSize(p.at[o])
        Moved(q) == IF q > o THEN (q + in.len) - oldSize ELSE q
    IN  [p EXCEPT
            !.at = [x \in {Moved(q) : q \in DOMAIN p.at} |->
                        IF x = o THEN Rewritten(p.at[o], in)
                        ELSE p.at[CHOOSE q \in DOMAIN p.at : Moved(q) = x]],
            !.tail = (p.tail + in.len) - oldSize,
            !.cap  = IF in.len > oldSize
                     THEN (p.cap + in.len) - oldSize ELSE p.cap]

Accepts(f, in) == f.type = in.type \/ Castable(f.type, in.type)

\* updateField (type, field, ...) on the field at offset o.
UpdateAt(p, o, in) ==
    IF Accepts(p.at[o], in) THEN Outcome(Replaced(p, o, in), "OK")
    ELSE Outcome(p, "WRONG_FIELD_TYPE")

\* updateField (type, name, fid, ...): update the first match, or append.
UpdateField(p, name, fid, in) ==
    CASE NoIdentity(name, fid) -> Outcome(p, "NULL_ARG")
      [] ~NoIdentity(name, fid) /\ Found(p, name, fid) ->
            UpdateAt(p, FirstMatch(p, name, fid), in)
      [] OTHER -> AddField(p, name, fid, in)

\* What the code relies on and does not enforce when it updates.
KeepsWidth(p, name, fid, in) ==
    Found(p, name, fid) =>
        LET stored == p.at[FirstMatch(p, name, fid)].type
        IN  Castable(stored, in.type) => Width(stored) = Width(in.type)

FitsPrefix(in) == in.len <= MaxU32

\* UPDATE_SCALAR_VECTOR: the status returned is that of the lookup; the one
\* the update itself returns is dropped.
UpdateVectorField(p, name, fid, in) ==
    CASE NoIdentity(name, fid) -> Outcome(p, "NULL_ARG")
      [] ~NoIdentity(name, fid) /\ Found(p, name, fid) ->
            Outcome(UpdateAt(p, FirstMatch(p, name, fid), in).buf, "OK")
      [] OTHER -> AddField(p, name, fid, in)

-----------------------------------------------------------------------------
(* Serialization.  An image is what serialize exposes: the bytes of the    *)
(* buffer up to its tail.                                                  *)

Image(p) == [ver |-> p.ver, rem |-> p.rem, at |-> p.at, tail |-> p.tail]

\* The buffer after memset: no bytes of header or fields are left.
Wiped(p) == [p EXCEPT !.at = NoFields, !.ver = 0, !.rem = 0]

\* The buffer after the copy, and the header struct parsed from it.
Adopted(p, img) ==
    [at |-> img.at, tail |-> img.tail, cap |-> Larger(p.cap, img.tail),
     hdr |-> img.rem, ver |-> img.ver, rem |-> img.rem]

\* Slip: the message that arrives is not compared with the allocation.
UnSerialize_NoGrowth(p, img, allocFails) ==
    IF img.ver > OmnmProtocolVersion THEN Outcome(p, "WRONG_FIELD_TYPE")
    ELSE Outcome([Adopted(p, img) EXCEPT !.cap = p.cap], "OK")

\* Slip: the tail is left where the old message ended.
UnSerialize_OldTail(p, img, allocFails) ==
    IF img.ver > OmnmProtocolVersion THEN Outcome(p, "WRONG_FIELD_TYPE")
    ELSE Outcome([Adopted(p, img) EXCEPT !.tail = p.tail,
                                         !.cap = Larger(p.cap, img.tail)], "OK")

\* Slip: the header struct is not read again.
UnSerialize_OldHeader(p, img, allocFails) ==
    IF img.ver > OmnmProtocolVersion THEN Outcome(p, "WRONG_FIELD_TYPE")
    ELSE Outcome([Adopted(p, img) EXCEPT !.hdr = p.hdr], "OK")

\* Slip: the buffer is wiped before the version is looked at.
UnSerialize_WipeFirst(p, img, allocFails) ==
    IF img.ver > OmnmProtocolVersion THEN Outcome(Wiped(p), "WRONG_FIELD_TYPE")
    ELSE Outcome(Adopted(p, img), "OK")

\* Slip: this version counts as a later one.
UnSerialize_OffByOne(p, img, allocFails) ==
    IF img.ver >= OmnmProtocolVersion THEN Outcome(p, "WRONG_FIELD_TYPE")
    ELSE Outcome(Adopted(p, img), "OK")

\* unSerialize from bytes held elsewhere.  The allocation can only fail when
\* the buffer has to grow, and by then the old contents are gone.
UnSerialize(p, img, allocFails) ==
    CASE img.ver > OmnmProtocolVersion -> Outcome(p, "WRONG_FIELD_TYPE")
      [] /\ img.ver <= OmnmProtocolVersion
         /\ allocFails /\ img.tail > p.cap -> Outcome(Wiped(p), "NOMEM")
      [] OTHER ->
            Outcome(Adopted(p, img), "OK")

\* unSerialize from the buffer's own bytes: the wipe comes first, and the
\* copy that would restore them is skipped.
UnSerializeSelf(p) == Outcome([Wiped(p) EXCEPT !.hdr = p.rem], "OK")

-----------------------------------------------------------------------------
(* What makes a buffer well formed. *)

IsField(f) ==
    /\ f \in [type : FieldTypes \ {"UNKNOWN"},
             fid  : Nat,
             name : Names \ {EmptyName},
             decl : Nat,
             data : {f.data}]
    /\ IsInput(f.data)

IsLayout(at) ==
    /\ at = [o \in DOMAIN at |-> at[o]]
    /\ DOMAIN at \subseteq Nat
    /\ \A o \in DOMAIN at : IsField(at[o])

IsBuffer(p) ==
    /\ p \in [at : {p.at}, tail : Nat, cap : Nat,
             hdr : Nat, ver : Nat, rem : Nat]
    /\ IsLayout(p.at)

IsImage(img) ==
    /\ img \in [ver : Nat, rem : Nat, at : {img.at}, tail : Nat]
    /\ IsLayout(img.at)

\* The header and every field end inside the bytes in use, and those inside
\* the allocation.
InAllocation(p) == HeaderSize(p) <= p.tail /\ p.tail <= p.cap

\* A walk that starts after the header steps from field to field and ends
\* exactly on the tail: no field is read from the middle of another, none is
\* stepped over, and none sticks out.
FramedFields(at, first, tail) ==
    LET starts == DOMAIN at \cup {tail} IN
    /\ first \in starts
    /\ \A o \in DOMAIN at :
        /\ first <= o
        /\ o + DecodedLen(at[o]) \in starts
        /\ o + EncodedLen(at[o]) <= tail
        /\ ReadsAsWritten(at[o])
        /\ \A q \in DOMAIN at : o < q => o + EncodedLen(at[o]) <= q

FramedBuffer(p) == FramedFields(p.at, HeaderSize(p), p.tail)

\* The parsed header agrees with the bytes that serialize will send.
HeaderInBytes(p) == p.hdr = p.rem /\ p.ver <= OmnmProtocolVersion

\* The fields, and the fields in the order in which a walk meets them.
FieldsOf(p) == {p.at[o] : o \in DOMAIN p.at}

Fields(p) ==
    [i \in 1 .. Cardinality(DOMAIN p.at) |->
        p.at[CHOOSE o \in DOMAIN p.at :
                Cardinality({q \in DOMAIN p.at : q < o}) = i - 1]]

\* What a client can tell of them.
AsSeen(f) == [type |-> f.type, fid |-> f.fid, name |-> f.name, data |-> f.data]

SeenFields(p) == LET s == Fields(p) IN [i \in DOMAIN s |-> AsSeen(s[i])]

=============================================================================
