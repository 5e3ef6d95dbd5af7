----------------------------- MODULE OmnmMessage -----------------------------
(***************************************************************************)
(* What a payload promises its clients, with no bytes in sight: a message  *)
(* is a sequence of fields.  Add appends, update replaces the value of the *)
(* first field that matches or appends, a copy or a received message       *)
(* replaces the whole sequence, and a call that fails changes nothing.     *)
(* A field keeps the type it was added with; an update may hand it a value *)
(* of any type that casts to it.                                           *)
(*                                                                         *)
(* OmnmPayloadRefines shows that the buffers of OmnmPayload implement it.  *)
(***************************************************************************)
EXTENDS OmnmFields

CONSTANTS Msgs, Fids, Inputs,
    ReadTypes,
    Incoming,   \* messages from elsewhere: [readable, fields]
    NoMsg,      \* a null handle
    Lost,       \* a message whose fields were lost to an allocation failure
    NothingSent

VARIABLES content, sent, ret

vars == <<content, sent, ret>>

-----------------------------------------------------------------------------

Return(op, status) == ret' = [op |-> op, status |-> status]

Holds(m) == content[m] \notin {NoMsg, Lost}

Put(m, s) == content' = [content EXCEPT ![m] = s]

Init ==
    /\ content = [m \in Msgs |-> NoMsg]
    /\ sent = NothingSent
    /\ ret = [op |-> "init", status |-> "OK"]

-----------------------------------------------------------------------------

Create(m) == Return("create", "OK") /\ content[m] = NoMsg /\ Put(m, <<>>)

Destroy(m) == Return("destroy", "OK") /\ content[m] # NoMsg /\ Put(m, NoMsg)

Clear(m) == Return("clear", "OK") /\ content[m] # NoMsg /\ Put(m, <<>>)

\* A call on the fields of m that leaves them alone.
Refused(m, op, status) ==
    Return(op, status) /\ Holds(m) /\ UNCHANGED content

BadIdentity(m, op, name, fid) ==
    \/ NoIdentity(name, fid) /\ Refused(m, op, "NULL_ARG")
    \/ BlankIdentity(name, fid) /\ Refused(m, op, "INVALID_ARG")

Append1(m, op, name, fid, in) ==
    \/ /\ Return(op, "OK")
       /\ Holds(m)
       /\ in.len \in 1 .. MaxU32
       /\ ~NoIdentity(name, fid) /\ ~BlankIdentity(name, fid)
       /\ Put(m, Append(content[m], Field(name, fid, in)))
    \/ in.len > MaxU32 /\ Refused(m, op, "INVALID_ARG")
    \/ in.len = 0 /\ Refused(m, op, "NULL_ARG")
    \/ in.len \in 1 .. MaxU32 /\ BadIdentity(m, op, name, fid)

TypeOfFirst(m, name, fid) == content[m][First(content[m], name, fid)].type

\* Replace the value of the first match, or refuse a value of another type;
\* mismatch is the status the refusal is reported as.
Replace(m, op, name, fid, in, mismatch) ==
    \/ /\ Return(op, "OK")
       /\ Fits(TypeOfFirst(m, name, fid), in)
       /\ Put(m, [content[m] EXCEPT ![First(content[m], name, fid)].data = in])
    \/ /\ Refused(m, op, mismatch)
       /\ ~Fits(TypeOfFirst(m, name, fid), in)

ReplaceOrAppend(m, op, name, fid, in, mismatch) ==
    /\ ret'.op = op
    /\ Holds(m)
    /\ \/ NoIdentity(name, fid) /\ Refused(m, op, "NULL_ARG")
       \/ /\ ~NoIdentity(name, fid) /\ Hits(content[m], name, fid) = {}
          /\ Append1(m, op, name, fid, in)
       \/ /\ ~NoIdentity(name, fid) /\ Hits(content[m], name, fid) # {}
          /\ Replace(m, op, name, fid, in, mismatch)

Add(m, name, fid, in) ==
    in.type \notin AddedByUpdateTypes /\ Append1(m, "add", name, fid, in)

\* A date or a price that is added replaces the one that is there.
AddByUpdate(m, name, fid, in) ==
    /\ in.type \in AddedByUpdateTypes
    /\ ReplaceOrAppend(m, "addByUpdate", name, fid, in, "WRONG_FIELD_TYPE")

Update(m, name, fid, in) ==
    /\ in.type \notin ScalarVectorTypes
    /\ ReplaceOrAppend(m, "update", name, fid, in, "WRONG_FIELD_TYPE")

\* A vector update does not report that the stored field is of another type.
UpdateVector(m, name, fid, in) ==
    /\ in.type \in ScalarVectorTypes
    /\ ReplaceOrAppend(m, "updateVector", name, fid, in, "OK")

Read(m, op, name, fid) ==
    \/ BadIdentity(m, op, name, fid)
    \/ /\ ~NoIdentity(name, fid) /\ ~BlankIdentity(name, fid)
       /\ \/ Refused(m, op, "OK") /\ Hits(content[m], name, fid) # {}
          \/ Refused(m, op, "NOT_FOUND") /\ Hits(content[m], name, fid) = {}

GetField(m, name, fid) == Read(m, "getField", name, fid)

TooWide(m, name, fid, t) ==
    /\ Hits(content[m], name, fid) # {}
    /\ content[m][First(content[m], name, fid)].data.len > Width(t)

GetScalar(m, name, fid, t) ==
    \/ Refused(m, "getScalar", "WRONG_FIELD_TYPE") /\ TooWide(m, name, fid, t)
    \/ Read(m, "getScalar", name, fid) /\ ~TooWide(m, name, fid, t)

-----------------------------------------------------------------------------
(* Messages that move: from this process and from elsewhere. *)

Send(m) ==
    /\ Return("serialize", "OK")
    /\ Holds(m)
    /\ sent' = content[m]
    /\ UNCHANGED content

Assign(m, op, s) ==
    \/ Return(op, "OK") /\ Put(m, s)
    \/ Return(op, "NOMEM") /\ Put(m, Lost)

Receive(m, x) ==
    /\ ret'.op = "unSerialize"
    /\ content[m] # NoMsg
    /\ \/ x.readable /\ Assign(m, "unSerialize", x.fields)
       \/ /\ Return("unSerialize", "WRONG_FIELD_TYPE")
          /\ ~x.readable /\ UNCHANGED content

CreateReceived(m, x) ==
    /\ ret'.op = "createFromByteBuffer"
    /\ content[m] = NoMsg
    /\ \/ x.readable /\ Assign(m, "createFromByteBuffer", x.fields)
       \/ /\ Return("createFromByteBuffer", "WRONG_FIELD_TYPE")
          /\ ~x.readable /\ Put(m, <<>>)

CopyTo(m, dst) ==
    /\ ret'.op = "copy"
    /\ m # dst
    /\ Holds(m)
    /\ Assign(dst, "copy", content[m])

Available ==
    Incoming \cup
        (IF sent = NothingSent THEN {}
         ELSE {[readable |-> TRUE, fields |-> sent]})

Next ==
    \E m \in Msgs :
        \/ Send(m)
        \/ /\ \/ Create(m) \/ Destroy(m) \/ Clear(m)
              \/ \E dst \in Msgs : CopyTo(m, dst)
              \/ \E x \in Available : Receive(m, x) \/ CreateReceived(m, x)
              \/ \E name \in Names, fid \in Fids :
                    \/ GetField(m, name, fid)
                    \/ \E t \in ReadTypes : GetScalar(m, name, fid, t)
                    \/ \E in \in Inputs :
                        \/ Add(m, name, fid, in)
                        \/ AddByUpdate(m, name, fid, in)
                        \/ Update(m, name, fid, in)
                        \/ UpdateVector(m, name, fid, in)
           /\ UNCHANGED sent

Spec == Init /\ [][Next]_vars

=============================================================================
