------------------------- MODULE OmnmPayloadProofs -------------------------
(***************************************************************************)
(* The invariants of OmnmPayload, for every set of messages, every set of  *)
(* inputs, names and fids, and any number of calls; and that its buffers   *)
(* implement the messages of OmnmMessage.                                  *)
(*                                                                         *)
(* One inductive invariant carries them all: every buffer a caller may use *)
(* is good, every other one still nests in its allocation, and what is in  *)
(* flight can be read.  OmnmBufferProofs shows that each operation takes a *)
(* good buffer to a good buffer; here each action is matched with its      *)
(* operation.                                                              *)
(*                                                                         *)
(* The fields of a message are its stored fields in the order of their     *)
(* offsets, which Fields finds by counting.  The proofs do not count: they *)
(* work with the listings of OmnmBufferProofs, sequences that go through   *)
(* the offsets in order.  An append puts one offset at the end of a        *)
(* listing; an update in place, which moves every offset behind it, leaves *)
(* a listing of the same length.                                           *)
(***************************************************************************)
EXTENDS OmnmPayloadRefines, OmnmBufferProofs

Shape ==
    /\ DOMAIN pay = Msgs
    /\ pay = [m \in Msgs |-> pay[m]]
    /\ torn \subseteq Msgs
    /\ ret.status \in Statuses

Buffers ==
    \A m \in Msgs : Live(m) =>
        IF m \in torn THEN SafeBuffer(pay[m]) ELSE GoodBuffer(pay[m])

WireReadable ==
    wire # NoWire => GoodImage(wire) /\ wire.ver <= OmnmProtocolVersion

IInv == Shape /\ Buffers /\ WireReadable

-----------------------------------------------------------------------------

\* The invariant is what the properties say, and more.
LEMMA IInvImplies ==
    IInv => TypeOK /\ Bounds /\ Framed /\ HeaderAgrees /\ WireFramed
BY DEF IInv, Shape, Buffers, WireReadable, GoodBuffer, SafeBuffer, TypeOK,
       Bounds, Framed, HeaderAgrees, WireFramed, Usable, GoodImage

LEMMA IInvInit == Init => IInv
BY DEF Init, IInv, Shape, Buffers, WireReadable, Live, Statuses

\* A call that leaves a good buffer behind, on a message that is then usable.
LEMMA FinishGood ==
    ASSUME IInv, NEW m \in Msgs, NEW op, NEW r, GoodBuffer(r.buf),
           r.status \in Statuses, Finish(m, op, r),
           torn' = torn \/ torn' = torn \ {m}, wire' = wire
    PROVE  IInv'
<1>1. /\ DOMAIN pay' = Msgs /\ pay' = [n \in Msgs |-> pay'[n]]
      /\ pay'[m] = r.buf
      /\ \A n \in Msgs \ {m} : pay'[n] = pay[n]
  BY DEF IInv, Shape, Finish
<1>2. Shape'
  BY <1>1 DEF IInv, Shape, Finish, Return
<1>3. Buffers'
  BY <1>1 DEF IInv, Buffers, Live, GoodBuffer, SafeBuffer
<1>4. WireReadable'
  BY DEF IInv, WireReadable
<1> QED
  BY <1>2, <1>3, <1>4 DEF IInv

\* unSerialize, from bytes that can be read, into a message or a new one.
LEMMA ReceivedGood ==
    ASSUME IInv, NEW m \in Msgs, NEW op, NEW p, SafeBuffer(p),
           m \notin torn => GoodBuffer(p),
           NEW img, GoodImage(img), NEW fails \in BOOLEAN,
           Finish(m, op, UnSerialize(p, img, fails)),
           NoteTorn(m, UnSerialize(p, img, fails)), wire' = wire
    PROVE  IInv'
<1> DEFINE r == UnSerialize(p, img, fails)
<1>1. /\ r.status = "OK" => GoodBuffer(r.buf)
      /\ r.status = "NOMEM" => SafeBuffer(r.buf)
      /\ r.status \in {"OK", "NOMEM", "WRONG_FIELD_TYPE"}
      /\ r.status = "WRONG_FIELD_TYPE" => r.buf = p
  BY UnSerializeGood
<1> HIDE DEF r
<1>2. /\ DOMAIN pay' = Msgs /\ pay' = [n \in Msgs |-> pay'[n]]
      /\ pay'[m] = r.buf
      /\ \A n \in Msgs \ {m} : pay'[n] = pay[n]
  BY DEF IInv, Shape, Finish, r
<1>3. torn' = CASE r.status = "OK"    -> torn \ {m}
                [] r.status = "NOMEM" -> torn \cup {m}
                [] OTHER              -> torn
  BY DEF NoteTorn, r
<1>4. Shape'
  BY <1>1, <1>2, <1>3 DEF IInv, Shape, Finish, Return, Statuses, r
<1>5. Buffers'
  <2>1. ASSUME NEW n \in Msgs \ {m} PROVE n \in torn' <=> n \in torn
    BY <1>1, <1>3
  <2>2. IF m \in torn' THEN SafeBuffer(r.buf) ELSE GoodBuffer(r.buf)
    BY <1>1, <1>3 DEF GoodBuffer, SafeBuffer
  <2> QED
    BY <1>2, <2>1, <2>2 DEF IInv, Buffers, Live
<1>6. WireReadable'
  BY DEF IInv, WireReadable
<1> QED
  BY <1>4, <1>5, <1>6 DEF IInv

-----------------------------------------------------------------------------
(* One step per action. *)

LEMMA IInvCreate == ASSUME IInv, NEW m \in Msgs, Create(m) PROVE IInv'
BY NewBufferGood, FinishGood DEF Create, Outcome, Statuses

LEMMA IInvDestroy == ASSUME IInv, NEW m \in Msgs, Destroy(m) PROVE IInv'
BY DEF Destroy, IInv, Shape, Buffers, WireReadable, Live, Return, Statuses

LEMMA IInvClear == ASSUME IInv, NEW m \in Msgs, Clear(m) PROVE IInv'
<1>1. SafeBuffer(pay[m])
  BY DEF IInv, Buffers, Clear, GoodBuffer, SafeBuffer
<1> QED
  BY <1>1, ClearedGood, FinishGood DEF Clear, Outcome, Statuses

\* What a usable message is bound to is good.
LEMMA UsableGood ==
    ASSUME IInv, NEW m \in Msgs, Usable(m)
    PROVE  GoodBuffer(pay[m])
BY DEF IInv, Buffers, Usable

LEMMA IInvAdd ==
    ASSUME IInv, NEW m \in Msgs, NEW name \in Names, NEW fid \in Fids,
           NEW in \in Inputs, Add(m, name, fid, in)
    PROVE  IInv'
<1>1. GoodOutcome(pay[m], AddField(pay[m], name, fid, in))
  BY UsableGood, AddFieldGood, InputsAssumption DEF Add
<1> QED
  BY <1>1, FinishGood DEF Add, GoodOutcome

LEMMA IInvUpdate ==
    ASSUME IInv, NEW m \in Msgs, NEW name \in Names, NEW fid \in Fids,
           NEW in \in Inputs, Update(m, name, fid, in)
    PROVE  IInv'
<1>1. GoodOutcome(pay[m], UpdateField(pay[m], name, fid, in))
  BY UsableGood, UpdateFieldGood, InputsAssumption DEF Update, UpdateAny
<1> QED
  BY <1>1, FinishGood DEF Update, UpdateAny, GoodOutcome

\* What is added by updating casts to nothing, so adding it needs no rule.
LEMMA AddedKeepsWidth ==
    ASSUME NEW p, NEW name, NEW fid, NEW in, in.type \in AddedByUpdateTypes
    PROVE  KeepsWidth(p, name, fid, in)
BY DEF KeepsWidth, Castable, AddedByUpdateTypes, StructTypes, FixedWidthTypes,
       OneByteTypes, TwoByteTypes, FourByteTypes, EightByteTypes

LEMMA IInvAddByUpdate ==
    ASSUME IInv, NEW m \in Msgs, NEW name \in Names, NEW fid \in Fids,
           NEW in \in Inputs, AddByUpdate(m, name, fid, in)
    PROVE  IInv'
<1>1. GoodOutcome(pay[m], UpdateField(pay[m], name, fid, in))
  BY UsableGood, UpdateFieldGood, AddedKeepsWidth, InputsAssumption
     DEF AddByUpdate
<1> QED
  BY <1>1, FinishGood DEF AddByUpdate, GoodOutcome

LEMMA UpdateVectorGood ==
    ASSUME IInv, NEW m \in Msgs, NEW name \in Names, NEW fid \in Fids,
           NEW in \in Inputs, UpdateVector(m, name, fid, in)
    PROVE  LET r == UpdateVectorField(pay[m], name, fid, in)
           IN  GoodBuffer(r.buf) /\ r.status \in Statuses
<1> DEFINE p == pay[m]
           r == UpdateVectorField(p, name, fid, in)
<1>1. GoodBuffer(p) /\ IsInput(in) /\ fid \in Nat /\ in.len <= MaxU32
  BY UsableGood, InputsAssumption DEF UpdateVector, FitsPrefix
<1>2. CASE NoIdentity(name, fid)
  BY <1>1, <1>2 DEF UpdateVectorField, Outcome, Statuses
<1>3. CASE ~NoIdentity(name, fid) /\ Found(p, name, fid)
  <2> DEFINE o == FirstMatch(p, name, fid)
  <2>1. o \in DOMAIN p.at
    BY <1>1, <1>3, FirstMatchFound DEF GoodBuffer
  <2>2. ~Castable(p.at[o].type, in.type)
    BY DEF UpdateVector, Castable, ScalarVectorTypes, FixedWidthTypes,
           OneByteTypes, TwoByteTypes, FourByteTypes, EightByteTypes
  <2>3. r.buf = UpdateAt(p, o, in).buf /\ r.status = "OK"
    BY <1>3 DEF UpdateVectorField, Outcome
  <2> HIDE DEF o, r
  <2>4. GoodOutcome(p, UpdateAt(p, o, in))
    BY <1>1, <2>1, <2>2, UpdateAtGood
  <2> QED
    BY <2>3, <2>4 DEF GoodOutcome, Statuses, r
<1>4. CASE ~NoIdentity(name, fid) /\ ~Found(p, name, fid)
  <2>1. r = AddField(p, name, fid, in)
    BY <1>4 DEF UpdateVectorField
  <2> QED
    BY <1>1, <2>1, AddFieldGood DEF GoodOutcome
<1> QED
  BY <1>2, <1>3, <1>4

LEMMA IInvUpdateVector ==
    ASSUME IInv, NEW m \in Msgs, NEW name \in Names, NEW fid \in Fids,
           NEW in \in Inputs, UpdateVector(m, name, fid, in)
    PROVE  IInv'
BY UpdateVectorGood, FinishGood DEF UpdateVector

\* The statuses a lookup returns.
LEMMA GetStatuses ==
    ASSUME NEW p, NEW name, NEW fid, NEW t
    PROVE  /\ GetFieldStatus(p, name, fid) \in Statuses
           /\ GetScalarStatus(p, name, fid, t) \in Statuses
<1>1. GetFieldStatus(p, name, fid) \in Statuses
  BY DEF GetFieldStatus, Statuses
<1> QED
  BY <1>1 DEF GetScalarStatus, Statuses

LEMMA IInvGet ==
    ASSUME IInv, NEW m \in Msgs, NEW name, NEW fid,
           GetField(m, name, fid) \/ \E t \in ReadTypes : GetScalar(m, name, fid, t)
    PROVE  IInv'
<1>1. ret'.status \in Statuses
  BY GetStatuses DEF GetField, GetScalar, Return
<1>2. pay' = pay /\ torn' = torn /\ wire' = wire
  BY DEF GetField, GetScalar
<1> QED
  BY <1>1, <1>2 DEF IInv, Shape, Buffers, WireReadable, Live

LEMMA IInvSerialize == ASSUME IInv, NEW m \in Msgs, Serialize(m) PROVE IInv'
<1>1. GoodImage(Image(pay[m])) /\ Image(pay[m]).ver <= OmnmProtocolVersion
  BY UsableGood, ImageGood DEF Serialize
<1> QED
  BY <1>1 DEF Serialize, IInv, Shape, Buffers, WireReadable, Live, Return, Statuses

\* Whatever may arrive can be read as an image.
LEMMA InFlightGood ==
    ASSUME IInv, NEW img \in InFlight
    PROVE  GoodImage(img)
BY WireAssumption DEF IInv, WireReadable, InFlight, GoodImage

LEMMA IInvUnSerialize ==
    ASSUME IInv, NEW m \in Msgs, NEW img \in InFlight, NEW fails \in BOOLEAN,
           UnSerializeFrom(m, img, fails)
    PROVE  IInv'
<1>1. SafeBuffer(pay[m]) /\ (m \notin torn => GoodBuffer(pay[m]))
  BY DEF IInv, Buffers, UnSerializeFrom, GoodBuffer, SafeBuffer
<1> QED
  BY <1>1, InFlightGood, ReceivedGood DEF UnSerializeFrom

LEMMA IInvCreateFrom ==
    ASSUME IInv, NEW m \in Msgs, NEW img \in InFlight, NEW fails \in BOOLEAN,
           CreateFromByteBuffer(m, img, fails)
    PROVE  IInv'
<1>1. SafeBuffer(NewBuffer) /\ GoodBuffer(NewBuffer)
  BY NewBufferGood DEF GoodBuffer, SafeBuffer
<1> QED
  BY <1>1, InFlightGood, ReceivedGood DEF CreateFromByteBuffer

LEMMA IInvCopy ==
    ASSUME IInv, NEW src \in Msgs, NEW dst \in Msgs, NEW fails \in BOOLEAN,
           Copy(src, dst, fails)
    PROVE  IInv'
<1> DEFINE target == IF Live(dst) THEN pay[dst] ELSE NewBuffer
<1>1. SafeBuffer(target) /\ (dst \notin torn => GoodBuffer(target))
  BY NewBufferGood DEF IInv, Buffers, GoodBuffer, SafeBuffer
<1>2. GoodImage(Image(pay[src]))
  BY UsableGood, ImageGood DEF Copy
<1>3. /\ Finish(dst, "copy", UnSerialize(target, Image(pay[src]), fails))
      /\ NoteTorn(dst, UnSerialize(target, Image(pay[src]), fails))
      /\ wire' = wire
  BY DEF Copy
<1> HIDE DEF target
<1> QED
  BY <1>1, <1>2, <1>3, ReceivedGood

LEMMA IInvNext == IInv /\ [Next]_vars => IInv'
<1> SUFFICES ASSUME IInv, [Next]_vars PROVE IInv'
  OBVIOUS
<1>1. CASE UNCHANGED vars
  BY <1>1 DEF vars, IInv, Shape, Buffers, WireReadable, Live
<1>2. ASSUME NEW m \in Msgs, FieldCall(m) PROVE IInv'
  BY <1>2, IInvGet, IInvAdd, IInvAddByUpdate, IInvUpdate, IInvUpdateVector DEF FieldCall
<1>3. ASSUME NEW m \in Msgs, SerialCall(m) PROVE IInv'
  BY <1>3, IInvSerialize, IInvUnSerialize, IInvCreateFrom, IInvCopy
     DEF SerialCall
<1> QED
  BY <1>1, <1>2, <1>3, IInvCreate, IInvDestroy, IInvClear DEF Next

-----------------------------------------------------------------------------
(* Calls that fail. *)

\* A call on one message whose outcome keeps the buffer of that message.
LEMMA FailureOfOne ==
    ASSUME IInv, NEW m \in Msgs, NEW op, NEW r, Finish(m, op, r),
           r.status \notin {"OK", "NOMEM"} => r.buf = pay[m]
    PROVE  FailureKeeps
BY DEF IInv, Shape, Finish, Return, FailureKeeps

\* A call that returns OK.
LEMMA SuccessOfOne ==
    ASSUME NEW m, NEW op, NEW r, Finish(m, op, r), r.status = "OK"
    PROVE  FailureKeeps
BY DEF Finish, Return, FailureKeeps

LEMMA FieldCallFails ==
    ASSUME IInv, NEW m \in Msgs, FieldCall(m)
    PROVE  FailureKeeps
<1>1. PICK name \in Names, fid \in Fids :
        \/ GetField(m, name, fid)
        \/ \E t \in ReadTypes : GetScalar(m, name, fid, t)
        \/ \E in \in Inputs :
            \/ Add(m, name, fid, in)
            \/ AddByUpdate(m, name, fid, in)
            \/ Update(m, name, fid, in)
            \/ UpdateVector(m, name, fid, in)
  BY DEF FieldCall
<1>2. CASE GetField(m, name, fid) \/ \E t \in ReadTypes : GetScalar(m, name, fid, t)
  BY <1>2 DEF GetField, GetScalar, FailureKeeps
<1>3. ASSUME NEW in \in Inputs, Add(m, name, fid, in) PROVE FailureKeeps
  <2>1. GoodOutcome(pay[m], AddField(pay[m], name, fid, in))
    BY <1>3, UsableGood, AddFieldGood, InputsAssumption DEF Add
  <2> QED
    BY <1>3, <2>1, FailureOfOne DEF Add, GoodOutcome
<1>4. ASSUME NEW in \in Inputs,
             AddByUpdate(m, name, fid, in) \/ Update(m, name, fid, in)
      PROVE  FailureKeeps
  <2>1. GoodOutcome(pay[m], UpdateField(pay[m], name, fid, in))
    BY <1>4, UsableGood, UpdateFieldGood, AddedKeepsWidth, InputsAssumption
       DEF AddByUpdate, Update, UpdateAny
  <2> QED
    BY <1>4, <2>1, FailureOfOne DEF AddByUpdate, Update, UpdateAny, GoodOutcome
<1>5. ASSUME NEW in \in Inputs, UpdateVector(m, name, fid, in)
      PROVE  FailureKeeps
  <2> DEFINE p == pay[m]
             r == UpdateVectorField(p, name, fid, in)
  <2>1. GoodOutcome(p, AddField(p, name, fid, in))
    BY <1>5, UsableGood, AddFieldGood, InputsAssumption DEF UpdateVector
  <2>2. r.status # "OK" => r.buf = p
    BY <2>1 DEF UpdateVectorField, Outcome, GoodOutcome
  <2> QED
    BY <1>5, <2>2, FailureOfOne DEF UpdateVector
<1> QED
  BY <1>1, <1>2, <1>3, <1>4, <1>5

LEMMA SerialCallFails ==
    ASSUME IInv, NEW m \in Msgs, SerialCall(m)
    PROVE  FailureKeeps
<1>1. CASE Serialize(m)
  BY <1>1 DEF Serialize, Return, FailureKeeps
<1>2. ASSUME NEW img \in InFlight, NEW fails \in BOOLEAN,
             UnSerializeFrom(m, img, fails)
      PROVE  FailureKeeps
  <2>1. SafeBuffer(pay[m])
    BY <1>2 DEF IInv, Buffers, UnSerializeFrom, GoodBuffer, SafeBuffer
  <2>2. UnSerialize(pay[m], img, fails).status \notin {"OK", "NOMEM"}
            => UnSerialize(pay[m], img, fails).buf = pay[m]
    BY <2>1, InFlightGood, UnSerializeGood
  <2> QED
    BY <1>2, <2>2, FailureOfOne DEF UnSerializeFrom
<1>3. ASSUME NEW img \in InFlight, NEW fails \in BOOLEAN,
             CreateFromByteBuffer(m, img, fails)
      PROVE  FailureKeeps
  <2> DEFINE r == UnSerialize(NewBuffer, img, fails)
  <2>1. /\ r.status \in {"OK", "NOMEM", "WRONG_FIELD_TYPE"}
        /\ r.status = "WRONG_FIELD_TYPE" => r.buf = NewBuffer
    BY NewBufferGood, InFlightGood, UnSerializeGood DEF GoodBuffer, SafeBuffer
  <2> HIDE DEF r
  <2>2. /\ ~Live(m) /\ Finish(m, "createFromByteBuffer", r)
    BY <1>3 DEF CreateFromByteBuffer, r
  <2> QED
    BY <2>1, <2>2 DEF IInv, Shape, Finish, Return, FailureKeeps
<1>4. ASSUME NEW dst \in Msgs, NEW fails \in BOOLEAN, Copy(m, dst, fails)
      PROVE  FailureKeeps
  <2> DEFINE target == IF Live(dst) THEN pay[dst] ELSE NewBuffer
             r == UnSerialize(target, Image(pay[m]), fails)
  <2>1. Image(pay[m]).ver <= OmnmProtocolVersion /\ Image(pay[m]).ver \in Nat
    BY <1>4, UsableGood, ImageGood DEF Copy, GoodImage, IsImage
  <2>2. r.status \in {"OK", "NOMEM"}
    BY <2>1 DEF UnSerialize, Outcome, OmnmProtocolVersion
  <2>3. Finish(dst, "copy", r)
    BY <1>4 DEF Copy
  <2> HIDE DEF r
  <2> QED
    BY <2>2, <2>3 DEF Finish, Return, FailureKeeps
<1> QED
  BY <1>1, <1>2, <1>3, <1>4 DEF SerialCall

LEMMA NextFails == IInv /\ [Next]_vars => [FailureKeeps]_vars
<1> SUFFICES ASSUME IInv, Next PROVE FailureKeeps
  OBVIOUS
<1>1. ASSUME NEW m \in Msgs, Create(m) \/ Clear(m) PROVE FailureKeeps
  BY <1>1, SuccessOfOne DEF Create, Clear, Outcome
<1>2. ASSUME NEW m \in Msgs, Destroy(m) PROVE FailureKeeps
  BY <1>2 DEF Destroy, Return, FailureKeeps
<1> QED
  BY <1>1, <1>2, FieldCallFails, SerialCallFails DEF Next

-----------------------------------------------------------------------------
(* The theorems. *)

LEMMA SpecIInv == Spec => []IInv
BY IInvInit, IInvNext, PTL DEF Spec

\* Every handle, image and status has its type after any calls.
THEOREM TypeCorrect == Spec => []TypeOK
BY SpecIInv, IInvImplies, PTL

\* No sequence of calls writes outside an allocation.
THEOREM NestsInAllocation == Spec => []Bounds
BY SpecIInv, IInvImplies, PTL

\* After any sequence of calls a walk of a message meets exactly the fields
\* that were stored, however they were resized.
THEOREM StaysFramed == Spec => []Framed
BY SpecIInv, IInvImplies, PTL

\* The header a message was parsed with is the one it would be sent with.
THEOREM HeaderCopiesAgree == Spec => []HeaderAgrees
BY SpecIInv, IInvImplies, PTL

\* A message in flight can be read by whoever receives it.
THEOREM WireStaysFramed == Spec => []WireFramed
BY SpecIInv, IInvImplies, PTL

\* A call that reports an error has changed no message, but for the two cases
\* the property names.
THEOREM FailuresAreAtomic == Spec => FailureAtomic
BY SpecIInv, NextFails, PTL DEF Spec, FailureAtomic

-----------------------------------------------------------------------------
(* The same words on both sides. *)

LEMMA SameFormat ==
    /\ \A f, name, fid : Message!Matches(f, name, fid) <=> Matches(f, name, fid)
    /\ \A name, fid :
        /\ Message!NoIdentity(name, fid) <=> NoIdentity(name, fid)
        /\ Message!BlankIdentity(name, fid) <=> BlankIdentity(name, fid)
    /\ \A from, to : Message!Castable(from, to) <=> Castable(from, to)
    /\ \A t : Message!Width(t) = Width(t)
    /\ Message!Names = Names
    /\ Message!AddedByUpdateTypes = AddedByUpdateTypes
    /\ Message!ScalarVectorTypes = ScalarVectorTypes
BY DEF Message!Matches, Matches, Message!NoIdentity, NoIdentity,
       Message!BlankIdentity, BlankIdentity, Message!Castable, Castable,
       Message!Width, Width, Message!Names, Names,
       Message!AddedByUpdateTypes, AddedByUpdateTypes,
       Message!ScalarVectorTypes, ScalarVectorTypes,
       Message!FixedWidthTypes, FixedWidthTypes, Message!StructTypes, StructTypes,
       Message!OneByteTypes, OneByteTypes, Message!TwoByteTypes, TwoByteTypes,
       Message!FourByteTypes, FourByteTypes,
       Message!EightByteTypes, EightByteTypes

\* A field that is appended is seen as the message has it.
LEMMA SameField ==
    ASSUME NEW name, NEW fid, NEW in
    PROVE  AsSeen(Encode(name, fid, in)) = Message!Field(name, fid, in)
BY DEF AsSeen, Encode, Message!Field, Message!StoredName, StoredName

\* The lookup that walks the buffer finds the first field that matches.
LEMMA SameFirst ==
    ASSUME NEW p, GoodBuffer(p), NEW e, NEW n, Lists(e, n, p),
           NEW name, NEW fid
    PROVE  /\ Found(p, name, fid) <=> Message!Hits(SeenFields(p), name, fid) # {}
           /\ Found(p, name, fid) =>
                LET k == Message!First(SeenFields(p), name, fid)
                IN  k \in 1 .. n /\ e[k] = FirstMatch(p, name, fid)
<1> DEFINE H == Message!Hits(SeenFields(p), name, fid)
<1>1. H = {i \in DOMAIN SeenFields(p) : Matches(SeenFields(p)[i], name, fid)}
  BY SameFormat DEF Message!Hits
<1>2. Message!First(SeenFields(p), name, fid) =
        CHOOSE i \in H : \A j \in H : i <= j
  BY DEF Message!First
<1> HIDE DEF H
<1>3. /\ Found(p, name, fid) <=> H # {}
      /\ Found(p, name, fid) =>
            LET k == CHOOSE i \in H : \A j \in H : i <= j
            IN  k \in 1 .. n /\ e[k] = FirstMatch(p, name, fid)
  BY <1>1, FirstListed
<1> QED
  BY <1>2, <1>3 DEF H

-----------------------------------------------------------------------------
(* One change of one message. *)

\* The values that stand for no message are no messages.
NullsAreApart ==
    /\ NoPayload # Lost
    /\ \A p : SeenFields(p) \notin {NoPayload, Lost, NoWire}
    /\ \A p : IsBuffer(p) => p # NoPayload
    /\ \A img : IsImage(img) => img # NoWire

LEMMA ContentPut ==
    ASSUME IInv, NEW m \in Msgs, NEW b, pay' = [pay EXCEPT ![m] = b],
           torn' \ {m} = torn \ {m},
           NEW s, s = IF b = NoPayload THEN NoPayload
                      ELSE IF m \in torn' THEN Lost ELSE SeenFields(b)
    PROVE  Content' = [Content EXCEPT ![m] = s]
<1>1. DOMAIN pay = Msgs
  BY DEF IInv, Shape
<1>2. Content' = [n \in Msgs |->
        IF pay'[n] = NoPayload THEN NoPayload
        ELSE IF n \in torn' THEN Lost ELSE SeenFields(pay'[n])]
  BY DEF Content, Live
<1>3. Content = [n \in Msgs |->
        IF pay[n] = NoPayload THEN NoPayload
        ELSE IF n \in torn THEN Lost ELSE SeenFields(pay[n])]
  BY DEF Content, Live
<1>4. \A n \in Msgs : n # m => (n \in torn' <=> n \in torn) /\ pay'[n] = pay[n]
  BY <1>1
<1>5. pay'[m] = b
  BY <1>1
<1> QED
  BY <1>2, <1>3, <1>4, <1>5

LEMMA ContentKept ==
    ASSUME pay' = pay, torn' = torn
    PROVE  Content' = Content
BY DEF Content, Live, SeenFields, Fields

LEMMA SentKept ==
    ASSUME wire' = wire
    PROVE  Sent' = Sent
BY DEF Sent

\* A handle that is null has lost nothing.
RInv == IInv /\ \A m \in torn : Live(m)

\* A call that leaves a buffer behind.
LEMMA BoundTo ==
    ASSUME NullsAreApart, RInv, NEW m \in Msgs, NEW op, NEW r, IsBuffer(r.buf),
           Finish(m, op, r), torn' \ {m} = torn \ {m}
    PROVE  /\ Content' = [Content EXCEPT ![m] =
                            IF m \in torn' THEN Lost ELSE SeenFields(r.buf)]
           /\ Message!Return(op, r.status)
           /\ \A n \in torn' : Live(n)'
<1>1. r.buf # NoPayload
  BY DEF NullsAreApart
<1>2. pay' = [pay EXCEPT ![m] = r.buf] /\ DOMAIN pay = Msgs /\ torn \subseteq Msgs
  BY DEF Finish, RInv, IInv, Shape
<1>3. Content' = [Content EXCEPT ![m] =
                    IF m \in torn' THEN Lost ELSE SeenFields(r.buf)]
  BY <1>1, <1>2, ContentPut DEF RInv
<1>4. Message!Return(op, r.status)
  BY DEF Finish, Return, Message!Return
<1>5. ASSUME NEW n \in torn' PROVE pay'[n] # NoPayload
  <2>1. CASE n = m
    BY <1>1, <1>2, <2>1
  <2>2. CASE n # m
    <3>1. n \in torn
      BY <2>2
    <3> QED
      BY <1>2, <2>2, <3>1 DEF RInv, Live
  <2> QED
    BY <2>1, <2>2
<1> QED
  BY <1>3, <1>4, <1>5 DEF Live

\* A message that may be used is seen as its fields.
LEMMA UsableSeen ==
    ASSUME NullsAreApart, RInv, NEW m \in Msgs, Usable(m)
    PROVE  /\ Content[m] = SeenFields(pay[m])
           /\ Message!Holds(m)
           /\ GoodBuffer(pay[m])
BY UsableGood DEF RInv, Usable, Live, Content, NullsAreApart, Message!Holds

\* A call on a usable message that leaves its buffer as it was.
LEMMA Refuses ==
    ASSUME NullsAreApart, RInv, NEW m \in Msgs, Usable(m), NEW op, NEW status,
           Finish(m, op, Outcome(pay[m], status)), torn' = torn
    PROVE  /\ Message!Refused(m, op, status)
           /\ \A n \in torn' : Live(n)'
<1>1. pay' = pay
  BY DEF Finish, Outcome, RInv, IInv, Shape
<1>2. ret' = [op |-> op, status |-> status]
  BY DEF Finish, Outcome, Return
<1>3. Message!Holds(m)
  BY UsableSeen
<1>4. Content' = Content
  BY <1>1, ContentKept
<1> QED
  BY <1>1, <1>2, <1>3, <1>4
     DEF Message!Refused, Message!Return, RInv, Live

-----------------------------------------------------------------------------
(* One step per action. *)

LEMMA SimCreate ==
    ASSUME NullsAreApart, RInv, NEW m \in Msgs, Create(m)
    PROVE  Message!Create(m) /\ Sent' = Sent /\ \A n \in torn' : Live(n)'
<1> DEFINE r == Outcome(NewBuffer, "OK")
<1>1. IsBuffer(r.buf) /\ r.status = "OK" /\ r.buf = NewBuffer
  BY NewBufferGood DEF Outcome, GoodBuffer
<1>2. Finish(m, "create", r) /\ torn' = torn /\ wire' = wire /\ ~Live(m)
  BY DEF Create
<1> HIDE DEF r
<1>3. m \notin torn'
  BY <1>2 DEF RInv
<1>4. SeenFields(r.buf) = <<>>
  BY <1>1, NothingSeen DEF NewBuffer, Cleared
<1>5. /\ Content' = [Content EXCEPT ![m] = SeenFields(r.buf)]
      /\ Message!Return("create", r.status)
      /\ \A n \in torn' : Live(n)'
  BY <1>1, <1>2, <1>3, BoundTo
<1>6. Content[m] = NoPayload
  BY <1>2 DEF Content
<1> QED
  BY <1>1, <1>2, <1>4, <1>5, <1>6, SentKept DEF Message!Create, Message!Put

LEMMA SimDestroy ==
    ASSUME NullsAreApart, RInv, NEW m \in Msgs, Destroy(m)
    PROVE  Message!Destroy(m) /\ Sent' = Sent /\ \A n \in torn' : Live(n)'
<1>1. /\ pay' = [pay EXCEPT ![m] = NoPayload] /\ torn' = torn \ {m}
      /\ ret' = [op |-> "destroy", status |-> "OK"] /\ wire' = wire /\ Live(m)
  BY DEF Destroy, Return
<1>2. Content' = [Content EXCEPT ![m] = NoPayload]
  BY <1>1, ContentPut DEF RInv
<1>3. Content[m] # NoPayload
  BY <1>1 DEF Content, NullsAreApart
<1>4. \A n \in torn' : pay'[n] # NoPayload
  BY <1>1 DEF RInv, Live, IInv, Shape
<1> QED
  BY <1>1, <1>2, <1>3, <1>4, SentKept
     DEF Message!Destroy, Message!Return, Message!Put, Live

LEMMA SimClear ==
    ASSUME NullsAreApart, RInv, NEW m \in Msgs, Clear(m)
    PROVE  Message!Clear(m) /\ Sent' = Sent /\ \A n \in torn' : Live(n)'
<1> DEFINE r == Outcome(Cleared(pay[m]), "OK")
<1>1. SafeBuffer(pay[m])
  BY DEF RInv, IInv, Buffers, Clear, GoodBuffer, SafeBuffer
<1>2. IsBuffer(r.buf) /\ r.status = "OK" /\ r.buf = Cleared(pay[m])
  BY <1>1, ClearedGood DEF Outcome, GoodBuffer
<1>3. Finish(m, "clear", r) /\ torn' = torn \ {m} /\ wire' = wire /\ Live(m)
  BY DEF Clear
<1>4. SeenFields(r.buf) = <<>>
  BY <1>1, <1>2, NothingSeen DEF Cleared, SafeBuffer, IsBuffer
<1> HIDE DEF r
<1>5. /\ Content' = [Content EXCEPT ![m] = SeenFields(r.buf)]
      /\ Message!Return("clear", r.status)
      /\ \A n \in torn' : Live(n)'
  <2>1. torn' \ {m} = torn \ {m} /\ m \notin torn'
    BY <1>3
  <2> QED
    BY <1>2, <1>3, <2>1, BoundTo
<1>6. Content[m] # NoPayload
  BY <1>3 DEF Content, NullsAreApart
<1> QED
  BY <1>2, <1>3, <1>4, <1>5, <1>6, SentKept DEF Message!Clear, Message!Put

\* Appending a field to a buffer appends it to the message.
LEMMA SimAppend ==
    ASSUME NullsAreApart, RInv, NEW m \in Msgs, Usable(m),
           NEW name \in Names, NEW fid \in Nat, NEW in, IsInput(in),
           NEW op, Finish(m, op, AddField(pay[m], name, fid, in)), torn' = torn
    PROVE  /\ Message!Append1(m, op, name, fid, in)
           /\ \A n \in torn' : Live(n)'
<1> DEFINE p == pay[m]
           status == AddStatus(name, fid, in)
<1>1. in.len \in Nat /\ MaxU32 \in Nat
  BY ValueLength, MaxU32Assumption
<1>2. ASSUME status # "OK"
      PROVE  /\ Message!Refused(m, op, status)
             /\ \A n \in torn' : Live(n)'
  BY <1>2, Refuses DEF AddField
<1>3. CASE in.len > MaxU32
  <2>1. status = "INVALID_ARG"
    BY <1>1, <1>3 DEF AddStatus
  <2>2. Message!Refused(m, op, "INVALID_ARG") /\ \A n \in torn' : Live(n)'
    BY <1>2, <2>1
  <2> QED
    BY <1>3, <2>2 DEF Message!Append1
<1>4. CASE in.len = 0
  <2>1. status = "NULL_ARG"
    BY <1>1, <1>4 DEF AddStatus
  <2> QED
    BY <1>2, <1>4, <2>1 DEF Message!Append1
<1>5. CASE in.len \in 1 .. MaxU32 /\ NoIdentity(name, fid)
  <2>1. status = "NULL_ARG"
    BY <1>1, <1>5, NamesAssumption DEF AddStatus, NoIdentity, BlankIdentity
  <2>2. Message!BadIdentity(m, op, name, fid)
    BY <1>2, <1>5, <2>1, SameFormat DEF Message!BadIdentity
  <2> QED
    BY <1>2, <1>5, <2>1, <2>2 DEF Message!Append1
<1>6. CASE in.len \in 1 .. MaxU32 /\ ~NoIdentity(name, fid) /\ BlankIdentity(name, fid)
  <2>1. status = "INVALID_ARG"
    BY <1>1, <1>6 DEF AddStatus
  <2>2. Message!BadIdentity(m, op, name, fid)
    BY <1>2, <1>6, <2>1, SameFormat DEF Message!BadIdentity
  <2> QED
    BY <1>2, <1>6, <2>1, <2>2 DEF Message!Append1
<1>7. CASE in.len \in 1 .. MaxU32 /\ ~NoIdentity(name, fid) /\ ~BlankIdentity(name, fid)
  <2> DEFINE r == Outcome(Appended(p, Encode(name, fid, in)), "OK")
  <2>1. status = "OK"
    BY <1>1, <1>7 DEF AddStatus
  <2>2. Finish(m, op, r)
    BY <2>1 DEF AddField
  <2>3. /\ r.status = "OK" /\ r.buf = Appended(p, Encode(name, fid, in))
        /\ GoodOutcome(p, AddField(p, name, fid, in)) /\ AddField(p, name, fid, in) = r
    BY <2>1, UsableSeen, AddFieldGood DEF Outcome, AddField
  <2>4. IsBuffer(r.buf)
    BY <2>3 DEF GoodOutcome, GoodBuffer
  <2>5. SeenFields(r.buf) = Append(Content[m], Message!Field(name, fid, in))
    BY <2>3, UsableSeen, AppendedSeen, SameField
  <2> HIDE DEF r
  <2>6. m \notin torn' /\ torn' \ {m} = torn \ {m}
    BY DEF Usable
  <2>7. /\ Content' = [Content EXCEPT ![m] = SeenFields(r.buf)]
        /\ Message!Return(op, r.status)
        /\ \A n \in torn' : Live(n)'
    BY <2>2, <2>4, <2>6, BoundTo
  <2> QED
    BY <1>7, <2>3, <2>5, <2>7, UsableSeen, SameFormat
       DEF Message!Append1, Message!Put
<1> QED
  BY <1>1, <1>3, <1>4, <1>5, <1>6, <1>7

\* Updating the field that is found, or appending; mismatch is what a value
\* of another type is reported as.
LEMMA SimReplaceOrAppend ==
    ASSUME NullsAreApart, RInv, NEW m \in Msgs, Usable(m),
           NEW name \in Names, NEW fid \in Nat, NEW in, IsInput(in),
           NEW op, NEW r, Finish(m, op, r), torn' = torn,
           NEW mismatch, IsBuffer(r.buf),
           NoIdentity(name, fid) => r = Outcome(pay[m], "NULL_ARG"),
           ~NoIdentity(name, fid) /\ ~Found(pay[m], name, fid) =>
                r = AddField(pay[m], name, fid, in),
           ~NoIdentity(name, fid) /\ Found(pay[m], name, fid) =>
                LET o == FirstMatch(pay[m], name, fid)
                IN  r = IF Accepts(pay[m].at[o], in)
                        THEN Outcome(Replaced(pay[m], o, in), "OK")
                        ELSE Outcome(pay[m], mismatch)
    PROVE  /\ Message!ReplaceOrAppend(m, op, name, fid, in, mismatch)
           /\ \A n \in torn' : Live(n)'
<1> DEFINE p == pay[m]
<1>1. Content[m] = SeenFields(p) /\ Message!Holds(m) /\ GoodBuffer(p)
  BY UsableSeen
<1>2. PICK e, n : Lists(e, n, p)
  BY <1>1, GoodListing
<1>3. ret'.op = op
  BY DEF Finish, Return
<1>4. Found(p, name, fid) <=> Message!Hits(Content[m], name, fid) # {}
  BY <1>1, <1>2, SameFirst
<1>5. CASE NoIdentity(name, fid)
  <2>1. /\ Message!Refused(m, op, "NULL_ARG")
        /\ \A x \in torn' : Live(x)'
    BY <1>5, Refuses
  <2> QED
    BY <1>1, <1>3, <1>5, <2>1, SameFormat DEF Message!ReplaceOrAppend
<1>6. CASE ~NoIdentity(name, fid) /\ ~Found(p, name, fid)
  <2>1. /\ Message!Append1(m, op, name, fid, in)
        /\ \A x \in torn' : Live(x)'
    BY <1>6, SimAppend
  <2> QED
    BY <1>1, <1>3, <1>4, <1>6, <2>1, SameFormat DEF Message!ReplaceOrAppend
<1>7. CASE ~NoIdentity(name, fid) /\ Found(p, name, fid)
  <2> DEFINE o == FirstMatch(p, name, fid)
             k == Message!First(SeenFields(p), name, fid)
  <2>1. k \in 1 .. n /\ e[k] = o
    BY <1>1, <1>2, <1>7, SameFirst
  <2>2. Message!TypeOfFirst(m, name, fid) = p.at[o].type
    <3>1. SeenFields(p)[k] = AsSeen(p.at[o])
      BY <1>2, <2>1, SeenThrough
    <3> QED
      BY <1>1, <3>1 DEF Message!TypeOfFirst, AsSeen
  <2>3. Message!Fits(Message!TypeOfFirst(m, name, fid), in) <=> Accepts(p.at[o], in)
    BY <2>2, SameFormat DEF Message!Fits, Accepts
  <2>4. /\ Message!Replace(m, op, name, fid, in, mismatch)
        /\ \A x \in torn' : Live(x)'
    <3>1. CASE Accepts(p.at[o], in)
      <4>1. r.status = "OK" /\ r.buf = Replaced(p, o, in)
        BY <1>7, <3>1 DEF Outcome
      <4>2. SeenFields(r.buf) = [Content[m] EXCEPT ![k].data = in]
        BY <1>1, <1>2, <2>1, <4>1, ReplacedSeen
      <4>3. m \notin torn' /\ torn' \ {m} = torn \ {m}
        BY DEF Usable
      <4>4. /\ Content' = [Content EXCEPT ![m] = SeenFields(r.buf)]
            /\ Message!Return(op, r.status)
            /\ \A x \in torn' : Live(x)'
        BY <4>3, BoundTo
      <4> QED
        BY <1>1, <2>3, <3>1, <4>1, <4>2, <4>4 DEF Message!Replace, Message!Put
    <3>2. CASE ~Accepts(p.at[o], in)
      <4>1. /\ Message!Refused(m, op, mismatch)
            /\ \A x \in torn' : Live(x)'
        BY <1>7, <3>2, Refuses
      <4> QED
        BY <2>3, <3>2, <4>1 DEF Message!Replace
    <3> QED
      BY <3>1, <3>2
  <2> QED
    BY <1>1, <1>3, <1>4, <1>7, <2>4, SameFormat DEF Message!ReplaceOrAppend
<1> QED
  BY <1>5, <1>6, <1>7

LEMMA SimAdd ==
    ASSUME NullsAreApart, RInv, NEW m \in Msgs, NEW name \in Names,
           NEW fid \in Fids, NEW in \in Inputs, Add(m, name, fid, in)
    PROVE  /\ Message!Add(m, name, fid, in) /\ Sent' = Sent
           /\ \A n \in torn' : Live(n)'
<1>1. /\ Message!Append1(m, "add", name, fid, in)
      /\ \A n \in torn' : Live(n)'
  BY SimAppend, InputsAssumption DEF Add
<1> QED
  BY <1>1, SentKept, SameFormat DEF Add, Message!Add

LEMMA SimUpdateField ==
    ASSUME NullsAreApart, RInv, NEW m \in Msgs, Usable(m), NEW name \in Names,
           NEW fid \in Fids, NEW in \in Inputs, FitsPrefix(in),
           KeepsWidth(pay[m], name, fid, in), NEW op,
           Finish(m, op, UpdateField(pay[m], name, fid, in)), torn' = torn
    PROVE  /\ Message!ReplaceOrAppend(m, op, name, fid, in, "WRONG_FIELD_TYPE")
           /\ \A n \in torn' : Live(n)'
<1> DEFINE r == UpdateField(pay[m], name, fid, in)
<1>1. IsInput(in) /\ fid \in Nat
  BY InputsAssumption
<1>2. IsBuffer(r.buf)
  BY <1>1, UsableSeen, UpdateFieldGood DEF GoodOutcome, GoodBuffer
<1>3. /\ NoIdentity(name, fid) => r = Outcome(pay[m], "NULL_ARG")
      /\ ~NoIdentity(name, fid) /\ ~Found(pay[m], name, fid) =>
            r = AddField(pay[m], name, fid, in)
      /\ ~NoIdentity(name, fid) /\ Found(pay[m], name, fid) =>
            LET o == FirstMatch(pay[m], name, fid)
            IN  r = IF Accepts(pay[m].at[o], in)
                    THEN Outcome(Replaced(pay[m], o, in), "OK")
                    ELSE Outcome(pay[m], "WRONG_FIELD_TYPE")
  BY DEF UpdateField, UpdateAt
<1>4. Finish(m, op, r)
  OBVIOUS
<1> HIDE DEF r
<1> QED
  BY <1>1, <1>2, <1>3, <1>4, SimReplaceOrAppend

LEMMA SimUpdates ==
    ASSUME NullsAreApart, RInv, NEW m \in Msgs, NEW name \in Names,
           NEW fid \in Fids, NEW in \in Inputs,
           \/ AddByUpdate(m, name, fid, in)
           \/ Update(m, name, fid, in)
           \/ UpdateVector(m, name, fid, in)
    PROVE  /\ \/ Message!AddByUpdate(m, name, fid, in)
              \/ Message!Update(m, name, fid, in)
              \/ Message!UpdateVector(m, name, fid, in)
           /\ Sent' = Sent
           /\ \A n \in torn' : Live(n)'
<1>1. CASE AddByUpdate(m, name, fid, in)
  <2>1. /\ Message!ReplaceOrAppend(m, "addByUpdate", name, fid, in,
                                   "WRONG_FIELD_TYPE")
        /\ \A n \in torn' : Live(n)'
    BY <1>1, SimUpdateField, AddedKeepsWidth DEF AddByUpdate
  <2> QED
    BY <1>1, <2>1, SentKept, SameFormat DEF AddByUpdate, Message!AddByUpdate
<1>2. CASE Update(m, name, fid, in)
  <2>1. /\ Message!ReplaceOrAppend(m, "update", name, fid, in, "WRONG_FIELD_TYPE")
        /\ \A n \in torn' : Live(n)'
    BY <1>2, SimUpdateField DEF Update, UpdateAny
  <2> QED
    BY <1>2, <2>1, SentKept, SameFormat DEF Update, UpdateAny, Message!Update
<1>3. CASE UpdateVector(m, name, fid, in)
  <2> DEFINE r == UpdateVectorField(pay[m], name, fid, in)
  <2>1. IsInput(in) /\ fid \in Nat
    BY InputsAssumption
  <2>2. IsBuffer(r.buf)
    BY <1>3, UpdateVectorGood DEF RInv, GoodBuffer
  <2>3. /\ NoIdentity(name, fid) => r = Outcome(pay[m], "NULL_ARG")
        /\ ~NoIdentity(name, fid) /\ ~Found(pay[m], name, fid) =>
              r = AddField(pay[m], name, fid, in)
        /\ ~NoIdentity(name, fid) /\ Found(pay[m], name, fid) =>
              LET o == FirstMatch(pay[m], name, fid)
              IN  r = IF Accepts(pay[m].at[o], in)
                      THEN Outcome(Replaced(pay[m], o, in), "OK")
                      ELSE Outcome(pay[m], "OK")
    BY DEF UpdateVectorField, UpdateAt, Outcome
  <2>4. /\ Finish(m, "updateVector", r) /\ Usable(m)
        /\ torn' = torn /\ wire' = wire /\ in.type \in ScalarVectorTypes
    BY <1>3 DEF UpdateVector
  <2> HIDE DEF r
  <2>5. /\ Message!ReplaceOrAppend(m, "updateVector", name, fid, in, "OK")
        /\ \A n \in torn' : Live(n)'
    BY <2>1, <2>2, <2>3, <2>4, SimReplaceOrAppend
  <2> QED
    BY <2>4, <2>5, SentKept, SameFormat DEF Message!UpdateVector
<1> QED
  BY <1>1, <1>2, <1>3

\* Reading a field changes nothing.
LEMMA SimGet ==
    ASSUME NullsAreApart, RInv, NEW m \in Msgs, NEW name \in Names,
           NEW fid \in Fids, NEW t,
           GetField(m, name, fid) \/ GetScalar(m, name, fid, t)
    PROVE  /\ GetField(m, name, fid) => Message!GetField(m, name, fid)
           /\ GetScalar(m, name, fid, t) => Message!GetScalar(m, name, fid, t)
           /\ Sent' = Sent
           /\ \A n \in torn' : Live(n)'
<1> DEFINE p == pay[m]
           got == GetFieldStatus(p, name, fid)
           H == Message!Hits(Content[m], name, fid)
<1>1. Usable(m) /\ pay' = pay /\ torn' = torn /\ wire' = wire
  BY DEF GetField, GetScalar
<1>2. Content[m] = SeenFields(p) /\ Message!Holds(m) /\ GoodBuffer(p)
  BY <1>1, UsableSeen
<1>3. Content' = Content /\ Sent' = Sent /\ \A n \in torn' : Live(n)'
  BY <1>1, ContentKept, SentKept DEF RInv, Live
<1>4. PICK e, n : Lists(e, n, p)
  BY <1>2, GoodListing
<1>5. Found(p, name, fid) <=> H # {}
  BY <1>2, <1>4, SameFirst
<1>6. \A o \in DOMAIN p.at : IsField(p.at[o]) /\ ReadsAsWritten(p.at[o])
  BY <1>2 DEF GoodBuffer, IsBuffer, IsLayout, FramedBuffer, FramedFields
<1>7. NoIdentity(name, fid) \/ BlankIdentity(name, fid) => ~Found(p, name, fid)
  BY <1>6 DEF NoIdentity, BlankIdentity, Found, MatchOffsets, Matches, IsField
<1>8. ASSUME NEW op, ret' = [op |-> op, status |-> got]
      PROVE  Message!Read(m, op, name, fid)
  <2>1. Message!Refused(m, op, got)
    BY <1>2, <1>3, <1>8 DEF Message!Refused, Message!Return
  <2>2. CASE NoIdentity(name, fid)
    <3>1. got = "NULL_ARG"
      BY <2>2, NamesAssumption DEF GetFieldStatus, NoIdentity, BlankIdentity
    <3> QED
      BY <2>1, <2>2, <3>1, SameFormat DEF Message!Read, Message!BadIdentity
  <2>3. CASE BlankIdentity(name, fid)
    <3>1. got = "INVALID_ARG"
      BY <2>3, NamesAssumption DEF GetFieldStatus, NoIdentity, BlankIdentity
    <3> QED
      BY <2>1, <2>3, <3>1, SameFormat DEF Message!Read, Message!BadIdentity
  <2>4. CASE ~NoIdentity(name, fid) /\ ~BlankIdentity(name, fid)
    <3>1. got = IF Found(p, name, fid) THEN "OK" ELSE "NOT_FOUND"
      BY <2>4 DEF GetFieldStatus
    <3> QED
      BY <1>5, <2>1, <2>4, <3>1, SameFormat DEF Message!Read
  <2> QED
    BY <2>2, <2>3, <2>4
<1>9. ASSUME GetField(m, name, fid) PROVE Message!GetField(m, name, fid)
  <2>1. Message!Read(m, "getField", name, fid)
    BY <1>8, <1>9 DEF GetField, Return
  <2> QED
    BY <2>1 DEF Message!GetField
<1>10. ASSUME GetScalar(m, name, fid, t) PROVE Message!GetScalar(m, name, fid, t)
  <2> DEFINE o == FirstMatch(p, name, fid)
             wide == DecodedSize(p.at[o]) > Width(t)
  <2>1. ret' = [op |-> "getScalar", status |-> GetScalarStatus(p, name, fid, t)]
    BY <1>10 DEF GetScalar, Return
  <2>2. GetScalarStatus(p, name, fid, t) =
            IF got = "OK" /\ wide THEN "WRONG_FIELD_TYPE" ELSE got
    BY DEF GetScalarStatus
  <2>3. Message!TooWide(m, name, fid, t) <=> Found(p, name, fid) /\ wide
    <3>1. CASE ~Found(p, name, fid)
      BY <1>5, <3>1 DEF Message!TooWide
    <3>2. CASE Found(p, name, fid)
      <4> DEFINE k == Message!First(SeenFields(p), name, fid)
      <4>1. k \in 1 .. n /\ e[k] = o /\ o \in DOMAIN p.at
        BY <1>2, <1>4, <3>2, SameFirst, FirstMatchFound DEF GoodBuffer
      <4>2. SeenFields(p)[k] = AsSeen(p.at[o])
        BY <1>4, <4>1, SeenThrough
      <4>3. DecodedSize(p.at[o]) = p.at[o].data.len
        BY <1>6, <4>1, ReadsBack
      <4> QED
        BY <1>2, <1>5, <3>2, <4>2, <4>3, SameFormat DEF Message!TooWide, AsSeen
    <3> QED
      BY <3>1, <3>2
  <2>4. got = "OK" => Found(p, name, fid)
    BY DEF GetFieldStatus
  <2>5. Found(p, name, fid) => got = "OK"
    BY <1>7 DEF GetFieldStatus
  <2> HIDE DEF wide, got
  <2>6. CASE Found(p, name, fid) /\ wide
    <3>1. Message!Refused(m, "getScalar", "WRONG_FIELD_TYPE")
      BY <1>2, <1>3, <2>1, <2>2, <2>5, <2>6 DEF Message!Refused, Message!Return
    <3> QED
      BY <2>3, <2>6, <3>1 DEF Message!GetScalar
  <2>7. CASE ~(Found(p, name, fid) /\ wide)
    <3>1. Message!Read(m, "getScalar", name, fid)
      BY <1>8, <2>1, <2>2, <2>4, <2>7
    <3> QED
      BY <2>3, <2>7, <3>1 DEF Message!GetScalar
  <2> QED
    BY <2>6, <2>7
<1> QED
  BY <1>3, <1>9, <1>10

LEMMA SimSerialize ==
    ASSUME NullsAreApart, RInv, NEW m \in Msgs, Serialize(m)
    PROVE  Message!Send(m) /\ \A n \in torn' : Live(n)'
<1>1. /\ Usable(m) /\ pay' = pay /\ torn' = torn /\ wire' = Image(pay[m])
      /\ ret' = [op |-> "serialize", status |-> "OK"]
  BY DEF Serialize, Return
<1>2. Content[m] = SeenFields(pay[m]) /\ Message!Holds(m) /\ GoodBuffer(pay[m])
  BY <1>1, UsableSeen
<1>3. Content' = Content /\ \A n \in torn' : Live(n)'
  BY <1>1, ContentKept DEF RInv, Live
<1>4. Image(pay[m]) # NoWire
  BY <1>2, ImageGood DEF NullsAreApart, GoodImage
<1>5. SeenFields(Image(pay[m])) = SeenFields(pay[m])
  BY SameSeen DEF Image
<1>6. Sent' = IF wire' = NoWire THEN NoWire ELSE SeenFields(wire')
  BY DEF Sent, SeenFields, Fields
<1> QED
  BY <1>1, <1>2, <1>3, <1>4, <1>5, <1>6 DEF Message!Send, Message!Return

\* Bytes that arrive in a buffer: their fields are the message, or the
\* allocation failed and it is lost; a later version is refused.
LEMMA SimReceived ==
    ASSUME NullsAreApart, RInv, NEW m \in Msgs, NEW op, NEW p, SafeBuffer(p),
           m \notin torn => GoodBuffer(p), NEW img, GoodImage(img),
           NEW fails \in BOOLEAN, Finish(m, op, UnSerialize(p, img, fails)),
           NoteTorn(m, UnSerialize(p, img, fails))
    PROVE  /\ img.ver <= OmnmProtocolVersion =>
                Message!Assign(m, op, SeenFields(img))
           /\ ~(img.ver <= OmnmProtocolVersion) =>
                /\ Message!Return(op, "WRONG_FIELD_TYPE") /\ torn' = torn
                /\ Content' = [Content EXCEPT ![m] =
                                IF m \in torn THEN Lost ELSE SeenFields(p)]
           /\ \A n \in torn' : Live(n)'
<1> DEFINE r == UnSerialize(p, img, fails)
<1>1. /\ r.status \in {"OK", "NOMEM", "WRONG_FIELD_TYPE"}
      /\ r.status = "WRONG_FIELD_TYPE" => r.buf = p
      /\ IsBuffer(r.buf)
  BY UnSerializeGood DEF GoodBuffer, SafeBuffer
<1>2. /\ r.status = "WRONG_FIELD_TYPE" <=> ~(img.ver <= OmnmProtocolVersion)
      /\ r.status = "OK" => r.buf.at = img.at
  <2>1. img.ver \in Nat /\ OmnmProtocolVersion \in Nat
    BY DEF GoodImage, IsImage, OmnmProtocolVersion
  <2>2. img.ver > OmnmProtocolVersion <=> ~(img.ver <= OmnmProtocolVersion)
    BY <2>1
  <2> QED
    BY <2>2 DEF UnSerialize, Outcome, Adopted
<1> HIDE DEF r
<1>3. torn' = CASE r.status = "OK"    -> torn \ {m}
                [] r.status = "NOMEM" -> torn \cup {m}
                [] OTHER              -> torn
  BY DEF NoteTorn, r
<1>4. torn' \ {m} = torn \ {m}
  BY <1>1, <1>3
<1>5. /\ Content' = [Content EXCEPT ![m] =
                        IF m \in torn' THEN Lost ELSE SeenFields(r.buf)]
      /\ Message!Return(op, r.status)
      /\ \A n \in torn' : Live(n)'
  BY <1>1, <1>4, BoundTo DEF r
<1>6. CASE r.status = "OK"
  <2>1. m \notin torn' /\ SeenFields(r.buf) = SeenFields(img)
    BY <1>2, <1>3, <1>6, SameSeen
  <2>2. Message!Assign(m, op, SeenFields(img))
    BY <1>5, <1>6, <2>1 DEF Message!Assign, Message!Put
  <2> QED
    BY <1>2, <1>5, <1>6, <2>2
<1>7. CASE r.status = "NOMEM"
  <2>1. m \in torn'
    BY <1>3, <1>7
  <2>2. Message!Assign(m, op, SeenFields(img))
    BY <1>5, <1>7, <2>1 DEF Message!Assign, Message!Put
  <2> QED
    BY <1>2, <1>5, <1>7, <2>2
<1>8. CASE r.status = "WRONG_FIELD_TYPE"
  <2>1. torn' = torn /\ r.buf = p
    BY <1>1, <1>3, <1>8
  <2> QED
    BY <1>2, <1>5, <1>8, <2>1
<1> QED
  BY <1>1, <1>6, <1>7, <1>8

\* What may arrive is available to the message.
LEMMA SameAvailable ==
    ASSUME NullsAreApart, RInv, NEW img \in InFlight
    PROVE  GoodImage(img) /\ Readable(img) \in Message!Available
<1>1. CASE img \in ForeignWire
  <2>1. GoodImage(img)
    BY <1>1, WireAssumption DEF GoodImage
  <2> QED
    BY <1>1, <2>1 DEF Message!Available
<1>2. CASE wire # NoWire /\ img = wire
  <2>1. GoodImage(img) /\ img.ver <= OmnmProtocolVersion
    BY <1>2 DEF RInv, IInv, WireReadable
  <2>2. Sent = SeenFields(img) /\ Sent # NoWire
    BY <1>2 DEF Sent, NullsAreApart
  <2>3. Readable(img) = [readable |-> TRUE, fields |-> Sent]
    BY <2>1, <2>2 DEF Readable
  <2> QED
    BY <2>1, <2>2, <2>3 DEF Message!Available
<1> QED
  BY <1>1, <1>2 DEF InFlight

LEMMA SimUnSerialize ==
    ASSUME NullsAreApart, RInv, NEW m \in Msgs, NEW img \in InFlight,
           NEW fails \in BOOLEAN, UnSerializeFrom(m, img, fails)
    PROVE  /\ Message!Receive(m, Readable(img)) /\ Sent' = Sent
           /\ \A n \in torn' : Live(n)'
<1>1. SafeBuffer(pay[m]) /\ (m \notin torn => GoodBuffer(pay[m])) /\ Live(m)
  BY DEF UnSerializeFrom, RInv, IInv, Buffers, GoodBuffer, SafeBuffer
<1>2. GoodImage(img)
  BY SameAvailable
<1>3. /\ Finish(m, "unSerialize", UnSerialize(pay[m], img, fails))
      /\ NoteTorn(m, UnSerialize(pay[m], img, fails)) /\ wire' = wire
  BY DEF UnSerializeFrom
<1>4. /\ img.ver <= OmnmProtocolVersion =>
            Message!Assign(m, "unSerialize", SeenFields(img))
      /\ ~(img.ver <= OmnmProtocolVersion) =>
            /\ Message!Return("unSerialize", "WRONG_FIELD_TYPE") /\ torn' = torn
            /\ Content' = [Content EXCEPT ![m] =
                            IF m \in torn THEN Lost ELSE SeenFields(pay[m])]
      /\ \A n \in torn' : Live(n)'
  BY <1>1, <1>2, <1>3, SimReceived
<1>5. Content[m] = IF m \in torn THEN Lost ELSE SeenFields(pay[m])
  BY <1>1 DEF Content
<1>6. Content[m] # NoPayload
  BY <1>5 DEF NullsAreApart
<1>7. Content = [n \in Msgs |-> Content[n]]
  BY DEF Content
<1>8. ~(img.ver <= OmnmProtocolVersion) => Content' = Content
  BY <1>4, <1>5, <1>7
<1>9. ret'.op = "unSerialize"
  BY <1>3 DEF Finish, Return
<1>10. /\ Readable(img).readable <=> img.ver <= OmnmProtocolVersion
       /\ Readable(img).fields = SeenFields(img)
  BY DEF Readable
<1>11. Message!Receive(m, Readable(img))
  BY <1>4, <1>6, <1>8, <1>9, <1>10 DEF Message!Receive
<1> QED
  BY <1>3, <1>4, <1>11, SentKept

LEMMA SimCreateFrom ==
    ASSUME NullsAreApart, RInv, NEW m \in Msgs, NEW img \in InFlight,
           NEW fails \in BOOLEAN, CreateFromByteBuffer(m, img, fails)
    PROVE  /\ Message!CreateReceived(m, Readable(img)) /\ Sent' = Sent
           /\ \A n \in torn' : Live(n)'
<1>1. SafeBuffer(NewBuffer) /\ GoodBuffer(NewBuffer) /\ ~Live(m) /\ m \notin torn
  BY NewBufferGood DEF CreateFromByteBuffer, RInv, GoodBuffer, SafeBuffer
<1>2. GoodImage(img)
  BY SameAvailable
<1>3. /\ Finish(m, "createFromByteBuffer", UnSerialize(NewBuffer, img, fails))
      /\ NoteTorn(m, UnSerialize(NewBuffer, img, fails)) /\ wire' = wire
  BY DEF CreateFromByteBuffer
<1>4. /\ img.ver <= OmnmProtocolVersion =>
            Message!Assign(m, "createFromByteBuffer", SeenFields(img))
      /\ ~(img.ver <= OmnmProtocolVersion) =>
            /\ Message!Return("createFromByteBuffer", "WRONG_FIELD_TYPE")
            /\ Content' = [Content EXCEPT ![m] =
                            IF m \in torn THEN Lost ELSE SeenFields(NewBuffer)]
      /\ \A n \in torn' : Live(n)'
  BY <1>1, <1>2, <1>3, SimReceived
<1>5. Content[m] = NoPayload
  BY <1>1 DEF Content
<1>6. SeenFields(NewBuffer) = <<>>
  BY NothingSeen DEF NewBuffer, Cleared
<1>7. ret'.op = "createFromByteBuffer"
  BY <1>3 DEF Finish, Return
<1>8. /\ Readable(img).readable <=> img.ver <= OmnmProtocolVersion
      /\ Readable(img).fields = SeenFields(img)
  BY DEF Readable
<1>9. Message!CreateReceived(m, Readable(img))
  BY <1>1, <1>4, <1>5, <1>6, <1>7, <1>8
     DEF Message!CreateReceived, Message!Put
<1> QED
  BY <1>3, <1>4, <1>9, SentKept

LEMMA SimCopy ==
    ASSUME NullsAreApart, RInv, NEW src \in Msgs, NEW dst \in Msgs,
           NEW fails \in BOOLEAN, Copy(src, dst, fails)
    PROVE  /\ Message!CopyTo(src, dst) /\ Sent' = Sent
           /\ \A n \in torn' : Live(n)'
<1> DEFINE target == IF Live(dst) THEN pay[dst] ELSE NewBuffer
           img == Image(pay[src])
<1>1. SafeBuffer(target) /\ (dst \notin torn => GoodBuffer(target))
  BY NewBufferGood DEF RInv, IInv, Buffers, GoodBuffer, SafeBuffer
<1>2. /\ Content[src] = SeenFields(pay[src]) /\ Message!Holds(src)
      /\ GoodBuffer(pay[src])
  BY UsableSeen DEF Copy
<1>3. GoodImage(img) /\ img.ver <= OmnmProtocolVersion
  BY <1>2, ImageGood
<1>4. SeenFields(img) = Content[src]
  BY <1>2, SameSeen DEF Image
<1>5. /\ Finish(dst, "copy", UnSerialize(target, img, fails))
      /\ NoteTorn(dst, UnSerialize(target, img, fails))
      /\ wire' = wire /\ src # dst
  BY DEF Copy
<1> HIDE DEF target, img
<1>6. Message!Assign(dst, "copy", SeenFields(img)) /\ \A n \in torn' : Live(n)'
  BY <1>1, <1>3, <1>5, SimReceived
<1>7. ret'.op = "copy"
  BY <1>5 DEF Finish, Return
<1>8. Message!CopyTo(src, dst)
  BY <1>2, <1>4, <1>5, <1>6, <1>7 DEF Message!CopyTo
<1> QED
  BY <1>5, <1>6, <1>8, SentKept

-----------------------------------------------------------------------------
(* The refinement. *)

LEMMA SimInit == Init => Message!Init /\ RInv
<1> SUFFICES ASSUME Init PROVE Message!Init /\ RInv
  OBVIOUS
<1>1. RInv
  BY IInvInit DEF Init, RInv
<1>2. Content = [m \in Msgs |-> NoPayload] /\ Sent = NoWire
  BY DEF Init, Content, Sent, Live
<1> QED
  BY <1>1, <1>2 DEF Init, Message!Init

LEMMA SimNext ==
    ASSUME NullsAreApart, RInv, [Next]_vars
    PROVE  [Message!Next]_(Message!vars) /\ RInv'
<1>1. IInv'
  BY IInvNext DEF RInv
<1>2. CASE UNCHANGED vars
  <2>1. pay' = pay /\ torn' = torn /\ wire' = wire /\ ret' = ret
    BY <1>2 DEF vars
  <2> QED
    BY <1>1, <2>1, ContentKept, SentKept DEF Message!vars, RInv, Live
<1>3. ASSUME NEW m \in Msgs, Create(m) \/ Destroy(m) \/ Clear(m)
      PROVE  Message!Next /\ \A n \in torn' : Live(n)'
  BY <1>3, SimCreate, SimDestroy, SimClear DEF Message!Next
<1>4. ASSUME NEW m \in Msgs, FieldCall(m)
      PROVE  Message!Next /\ \A n \in torn' : Live(n)'
  <2>1. PICK name \in Names, fid \in Fids :
            \/ GetField(m, name, fid)
            \/ \E t \in ReadTypes : GetScalar(m, name, fid, t)
            \/ \E in \in Inputs :
                \/ Add(m, name, fid, in)
                \/ AddByUpdate(m, name, fid, in)
                \/ Update(m, name, fid, in)
                \/ UpdateVector(m, name, fid, in)
    BY <1>4 DEF FieldCall
  <2>2. name \in Message!Names
    BY SameFormat
  <2>3. CASE GetField(m, name, fid)
    BY <2>2, <2>3, SimGet DEF Message!Next
  <2>4. ASSUME NEW t \in ReadTypes, GetScalar(m, name, fid, t)
        PROVE  Message!Next /\ \A n \in torn' : Live(n)'
    BY <2>2, <2>4, SimGet DEF Message!Next
  <2>5. ASSUME NEW in \in Inputs, Add(m, name, fid, in)
        PROVE  Message!Next /\ \A n \in torn' : Live(n)'
    BY <2>2, <2>5, SimAdd DEF Message!Next
  <2>6. ASSUME NEW in \in Inputs,
               \/ AddByUpdate(m, name, fid, in)
               \/ Update(m, name, fid, in)
               \/ UpdateVector(m, name, fid, in)
        PROVE  Message!Next /\ \A n \in torn' : Live(n)'
    BY <2>2, <2>6, SimUpdates DEF Message!Next
  <2> QED
    BY <2>1, <2>3, <2>4, <2>5, <2>6
<1>5. ASSUME NEW m \in Msgs, SerialCall(m)
      PROVE  Message!Next /\ \A n \in torn' : Live(n)'
  <2>1. CASE Serialize(m)
    BY <2>1, SimSerialize DEF Message!Next
  <2>2. ASSUME NEW fails \in BOOLEAN, NEW img \in InFlight,
               UnSerializeFrom(m, img, fails)
        PROVE  Message!Next /\ \A n \in torn' : Live(n)'
    BY <2>2, SimUnSerialize, SameAvailable DEF Message!Next
  <2>3. ASSUME NEW fails \in BOOLEAN, NEW img \in InFlight,
               CreateFromByteBuffer(m, img, fails)
        PROVE  Message!Next /\ \A n \in torn' : Live(n)'
    BY <2>3, SimCreateFrom, SameAvailable DEF Message!Next
  <2>4. ASSUME NEW fails \in BOOLEAN, NEW dst \in Msgs, Copy(m, dst, fails)
        PROVE  Message!Next /\ \A n \in torn' : Live(n)'
    BY <2>4, SimCopy DEF Message!Next
  <2> QED
    BY <1>5, <2>1, <2>2, <2>3, <2>4 DEF SerialCall
<1>6. Next => Message!Next /\ \A n \in torn' : Live(n)'
  BY <1>3, <1>4, <1>5 DEF Next
<1> QED
  BY <1>1, <1>2, <1>6 DEF RInv

\* Whatever the names, fids and values, and however often fields are added,
\* resized and copied, the buffers do what the messages of OmnmMessage do;
\* all that is asked is that no message is taken for a null.
THEOREM BuffersAreMessages ==
    ASSUME NullsAreApart
    PROVE  Spec => ImplementsMessage
<1>1. Init => Message!Init /\ RInv
  BY SimInit
<1>2. RInv /\ [Next]_vars => [Message!Next]_(Message!vars) /\ RInv'
  BY SimNext
<1> QED
  BY <1>1, <1>2, PTL DEF Spec, ImplementsMessage, Message!Spec

=============================================================================
