------------------------------ MODULE OmnmVector ------------------------------
(***************************************************************************)
(* Vectors whose elements are encoded one behind the other: of strings,    *)
(* messages, prices and times.  They are put together in a scratch buffer  *)
(* of the message (mField.mBuffer), which every such call and toString     *)
(* share and which never shrinks, and stored from there as the data of one *)
(* field.  A reader takes the data apart again.                            *)
(*                                                                         *)
(* An item has a value and a length in bytes.  The value of a string is a  *)
(* sequence of letters, and on the wire it ends in Nul.  The bytes of      *)
(* messages, prices, times and text are only counted: in the scratch       *)
(* buffer they are Other, which is neither a letter nor Nul.               *)
(*                                                                         *)
(* Spec is the behaviour under clients that keep to the rules NoOldBytes,  *)
(* OneLength and FitsPrefix; LooseSpec is without the first.               *)
(***************************************************************************)
EXTENDS OmnmBuffer, SequencesExt

CONSTANTS
    Msgs, Ids,
    Vectors,     \* the vectors clients store: [type, items]
    Letters, Nul, Other,  \* bytes
    NoScratch,   \* the scratch buffer has not been allocated
    Wild,        \* what is read where no message begins
    PartSize,    \* the room toString asks for first
    MaxTail, MaxCap

VARIABLES
    msg,      \* the buffer of each message
    scratch,  \* the bytes of its scratch buffer
    ret       \* the last call and the status it returned

vars == <<msg, scratch, ret>>

ASSUME IdsAssumption == Ids \subseteq Names \X Nat

ASSUME BytesAssumption == Nul \notin Letters /\ Other \notin Letters \cup {Nul}

ASSUME PartSizeAssumption == PartSize \in Nat \ {0}

ASSUME VectorsAssumption ==
    \A v \in Vectors :
        /\ v.type \in EncodedVectorTypes
        /\ v.items \in Seq(ToSet(v.items))
        /\ v.type = "VECTOR_STRING" =>
            \A i \in DOMAIN v.items : v.items[i].val \in Seq(Letters)
        /\ v.type = "VECTOR_MSG" =>
            \A i \in DOMAIN v.items :
                v.items[i].len \in Nat /\ v.items[i].len >= HeaderV1Size

Return(op, status) == ret' = [op |-> op, status |-> status]

-----------------------------------------------------------------------------
(* Writing. *)

Fill(byte, n) == [i \in 1 .. n |-> byte]

\* The scratch buffer with room for n bytes; new room is zero.
Grown(s, n) ==
    IF s = NoScratch THEN Fill(Nul, n)
    ELSE s \o Fill(Nul, IF n > Len(s) THEN n - Len(s) ELSE 0)

Over(s, bytes) == bytes \o SubSeq(s, Len(bytes) + 1, Len(s))

ElementWidth(type) == Width(IF type = "VECTOR_PRICE" THEN "PRICE" ELSE "TIME")

\* What the first n messages take, each behind its length.
SumLens(items, n) ==
    LET sums[k \in 0 .. Len(items)] ==
            IF k = 0 THEN 0 ELSE sums[k - 1] + LengthWidth + items[k].len
    IN  sums[n]

Terminated(items) == FlattenSeq([i \in DOMAIN items |-> Append(items[i].val, Nul)])

\* The bytes a vector takes in the scratch buffer.
Bytes(v) ==
    CASE v.type = "VECTOR_STRING" -> Terminated(v.items)
      [] v.type = "VECTOR_MSG"    -> Fill(Other, SumLens(v.items, Len(v.items)))
      [] OTHER -> Fill(Other, Len(v.items) * ElementWidth(v.type))

Values(items) == [i \in DOMAIN items |-> items[i].val]

\* The data of a field: what is stored in its bytes, and what was meant.
Data(v, bytes) ==
    [type |-> v.type, len |-> Len(bytes),
     val  |-> [code  |-> IF v.type = "VECTOR_STRING" THEN bytes ELSE v.items,
               meant |-> Values(v.items)]]

Encode1(m, v) ==
    scratch' = [scratch EXCEPT ![m] = Over(Grown(@, Len(Bytes(v))), Bytes(v))]

Finish(m, op, r) ==
    /\ r.buf.tail <= MaxTail /\ r.buf.cap <= MaxCap
    /\ msg' = [msg EXCEPT ![m] = r.buf]
    /\ Return(op, r.status)

\* Slip: the data is taken to be as long as the buffer it was built in.
UpdateVector_WholeScratch(m, id, v) ==
    /\ Encode1(m, v)
    /\ Finish(m, "updateVector",
              UpdateField(msg[m], id[1], id[2], Data(v, scratch'[m])))

\* updateVectorString, Msg, Price and Time, and the add functions of the last
\* three: built in the scratch buffer, stored with the length it took there.
UpdateVector(m, id, v) ==
    /\ Encode1(m, v)
    /\ Finish(m, "updateVector",
              UpdateField(msg[m], id[1], id[2], Data(v, Bytes(v))))

\* No bytes at all: allocating none may leave the scratch buffer null, and
\* then there is nothing to store.
UpdateNothing(m, id, v) ==
    /\ v.items = <<>> /\ scratch[m] = NoScratch
    /\ Return("updateVector", "NULL_ARG")
    /\ UNCHANGED <<msg, scratch>>

\* The length handed to addField is that of the scratch buffer: what earlier
\* calls left behind the strings is stored with them.
AddVectorString(m, id, v) ==
    /\ v.type = "VECTOR_STRING"
    /\ Encode1(m, v)
    /\ Finish(m, "addVector",
              AddField(msg[m], id[1], id[2], Data(v, scratch'[m])))

AddNothing(m, id, v) ==
    /\ v.type = "VECTOR_STRING" /\ v.items = <<>> /\ scratch[m] = NoScratch
    /\ Return("addVector", "NULL_ARG")
    /\ UNCHANGED <<msg, scratch>>

\* toString: the text is built in the scratch buffer, and handed out there.
MessageText(m) ==
    /\ scratch' = [scratch EXCEPT
            ![m] = Over(Grown(@, PartSize), Append(Fill(Other, PartSize - 1), Nul))]
    /\ Return("toString", "OK")
    /\ UNCHANGED msg

Clear(m) ==
    /\ Finish(m, "clear", Outcome(Cleared(msg[m]), "OK"))
    /\ UNCHANGED scratch

\* The destructor frees the scratch buffer with the message; a new one has
\* none.
Recreate(m) ==
    /\ msg' = [msg EXCEPT ![m] = NewBuffer]
    /\ scratch' = [scratch EXCEPT ![m] = NoScratch]
    /\ Return("create", "OK")

-----------------------------------------------------------------------------
(* Reading. *)

\* getVectorString: as many strings as there are terminators; each runs from
\* the end of the one before to its terminator.
ReadStrings(bytes) ==
    LET nuls   == {i \in DOMAIN bytes : bytes[i] = Nul}
        End(j) == CHOOSE i \in nuls : Cardinality({k \in nuls : k < i}) = j - 1
    IN  [j \in 1 .. Cardinality(nuls) |->
            SubSeq(bytes, IF j = 1 THEN 1 ELSE End(j - 1) + 1, End(j) - 1)]

\* getVectorMsg: every step is as long as the first message, whose length is
\* read again for each; a message that begins elsewhere is not found.
ReadMessages(items, size) ==
    LET first  == items[1].len
        stride == LengthWidth + first
        At(o)  == {j \in DOMAIN items :
                      SumLens(items, j - 1) = o /\ items[j].len = first}
    IN  IF size = 0 THEN <<>>
        ELSE [k \in 1 .. (size + stride - 1) \div stride |->
                IF At((k - 1) * stride) = {} THEN Wild
                ELSE items[CHOOSE j \in At((k - 1) * stride) : TRUE].val]

\* getVectorPrice and getVectorDateTime: as many as fit.
ReadStructs(type, items, size) ==
    SubSeq(Values(items), 1, size \div ElementWidth(type))

\* Reading a field as a vector of the type it has.
Read(f) ==
    CASE f.type = "VECTOR_STRING" -> ReadStrings(f.data.val.code)
      [] f.type = "VECTOR_MSG"    -> ReadMessages(f.data.val.code, DecodedSize(f))
      [] OTHER -> ReadStructs(f.type, f.data.val.code, DecodedSize(f))

GetVector(m, id) ==
    LET p      == msg[m]
        status == GetFieldStatus(p, id[1], id[2])
    IN
    /\ ret' = [op |-> "getVector", status |-> status,
               result |-> IF status = "OK"
                          THEN Read(p.at[FirstMatch(p, id[1], id[2])]) ELSE <<>>]
    /\ UNCHANGED <<msg, scratch>>

-----------------------------------------------------------------------------

\* Strings are added only where they fill the scratch buffer.
NoOldBytes(m, v) ==
    scratch[m] # NoScratch => Len(scratch[m]) <= Len(Bytes(v))

\* The messages of one vector are equally long.
OneLength(v) ==
    v.type = "VECTOR_MSG" =>
        \A i, j \in DOMAIN v.items : v.items[i].len = v.items[j].len

Init ==
    /\ msg = [m \in Msgs |-> NewBuffer]
    /\ scratch = [m \in Msgs |-> NoScratch]
    /\ ret = [op |-> "init", status |-> "OK"]

Next ==
    \E m \in Msgs :
        \/ MessageText(m)
        \/ Clear(m)
        \/ Recreate(m)
        \/ \E id \in Ids :
            \/ GetVector(m, id)
            \/ \E v \in Vectors :
                \/ /\ OneLength(v) /\ FitsPrefix(Data(v, Bytes(v)))
                   /\ UpdateVector(m, id, v)
                \/ UpdateNothing(m, id, v)
                \/ NoOldBytes(m, v) /\ AddVectorString(m, id, v)
                \/ AddNothing(m, id, v)

Spec == Init /\ [][Next]_vars

LooseNext ==
    \/ Next
    \/ \E m \in Msgs, id \in Ids, v \in Vectors : AddVectorString(m, id, v)

LooseSpec == Init /\ [][LooseNext]_vars

-----------------------------------------------------------------------------
(* Properties. *)

\* A message holds fields of the encoded types; their length prefixes say
\* what is there, and a name is never the empty one.  A scratch buffer that
\* was allocated is a sequence of bytes.
VectorTypeOK ==
    \A m \in Msgs :
        /\ scratch[m] \in {NoScratch} \cup Seq(Letters \cup {Nul, Other})
        /\ msg[m].tail \in Nat /\ msg[m].cap \in Nat
        /\ \A o \in DOMAIN msg[m].at :
            LET f == msg[m].at[o] IN
            /\ f.type \in EncodedVectorTypes
            /\ f.name \in Names \ {EmptyName}
            /\ f.fid \in Nat
            /\ f.decl = f.data.len

\* A message of encoded vectors can be walked: the lengths with which they
\* are built, stored, resized and stepped over are one.
VectorsFramed == \A m \in Msgs : FramedBuffer(msg[m]) /\ InAllocation(msg[m])

\* Every vector in a message reads back as the sequence it was stored as,
\* whatever vectors and texts went through the scratch buffer before.
ReadsAsStored(f) == Read(f) = f.data.val.meant

VectorsReadBack ==
    \A m \in Msgs : \A o \in DOMAIN msg[m].at : ReadsAsStored(msg[m].at[o])

\* README.md:22-29, "feature complete and includes: ... All vector types": a
\* vector of strings that was stored reads back.
StringVectorsReadBack ==
    \A m \in Msgs : \A o \in DOMAIN msg[m].at :
        msg[m].at[o].type = "VECTOR_STRING" => ReadsAsStored(msg[m].at[o])

=============================================================================
