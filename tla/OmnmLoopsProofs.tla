--------------------------- MODULE OmnmLoopsProofs ---------------------------
(***************************************************************************)
(* The invariants of OmnmLoops, for every set of messages, names and       *)
(* values: apply and iterateFields leave messages that can be walked, a    *)
(* callback of iterateFields is given every field, and apply delivers what *)
(* it passes on and leaves the rest alone.                                 *)
(*                                                                         *)
(* LInv says where the loop is, what it has met, and that what it reads    *)
(* can be stored again: the value of a stored field has the field's type,  *)
(* or one it was cast from, and a length that fits a prefix.  While apply  *)
(* runs, KeepsWidths, the rule for its call, holds of the fields it has    *)
(* left: an update changes what the lookups to come find only where they   *)
(* found nothing, and there they find what it appended.                    *)
(*                                                                         *)
(* AInv says what apply has done so far.  The destination is seen as the   *)
(* sequence of its fields, which an update changes in one place or extends *)
(* by one.  A field that was delivered stays delivered: by the dictionary, *)
(* a later update that matched it would have its key, and in the source    *)
(* the field is alone with that key.                                       *)
(*                                                                         *)
(* MInv says how far apply is in the merge of OmnmMerge: it has passed the *)
(* first k fields of the source, it carries the name and the sub-message   *)
(* that they leave standing, and the destination is what merging them has  *)
(* made of it.  The merge so far is a trace r, which a turn extends by one *)
(* field; the sequence that Merged chooses is the same, since there is no  *)
(* least field at which the two differ.                                    *)
(***************************************************************************)
EXTENDS OmnmLoopsRefines, OmnmBufferProofs

\* A stored field whose value could be stored again as it is.
Restorable(f) ==
    /\ f.data.len <= MaxU32
    /\ f.type = f.data.type \/ Castable(f.type, f.data.type)

GoodMessage(p) ==
    GoodBuffer(p) /\ \A f \in FieldsOf(p) : Restorable(f) /\ Identified(f)

IsSub(v) == IsInput(v) /\ v.type = "MSG" /\ v.len <= MaxU32

\* Where a loop over message m can be.
Place(m, pos) == pos \in DOMAIN msg[m].at \cup {msg[m].tail}

Met(m, pos)  == {o \in DOMAIN msg[m].at : o < pos}
Left(m, pos) == {o \in DOMAIN msg[m].at : pos <= o}

ApplyJob ==
    /\ job \in [kind : {"apply"}, dst : Msgs, src : Msgs, pos : Nat,
               name : Names, sub : {job.sub}, before : {job.before}]
    /\ job.dst # job.src
    /\ job.sub # NoSub => IsSub(job.sub)
    /\ job.name = LastName(msg[job.src], job.pos)
    /\ KeepsWidths(msg[job.src], Left(job.src, job.pos), msg[job.dst])

IterateJob ==
    /\ job \in [kind : {"iterate"}, src : Msgs, pos : Nat,
               inCallback : BOOLEAN, met : {job.met}]
    /\ job.met = Met(job.src, job.pos)

JobInv ==
    job # NoJob => /\ ApplyJob \/ IterateJob
                   /\ Place(job.src, job.pos)

Messages ==
    /\ msg = [m \in Msgs |-> msg[m]]
    /\ \A m \in Msgs : GoodMessage(msg[m])

LInv == Messages /\ JobInv /\ ret.status \in Statuses

-----------------------------------------------------------------------------

\* The invariant is what the properties say, and more.
LEMMA LInvImplies == LInv => LoopTypeOK /\ LoopsFramed /\ IterateMeetsAll
<1> SUFFICES ASSUME LInv PROVE LoopTypeOK /\ LoopsFramed /\ IterateMeetsAll
  OBVIOUS
<1>1. \A m \in Msgs : GoodBuffer(msg[m])
  BY DEF LInv, Messages, GoodMessage
<1>2. LoopsFramed /\ \A m \in Msgs : IsBuffer(msg[m])
  BY <1>1 DEF GoodBuffer, LoopsFramed
<1>3. job # NoJob => job.src \in Msgs /\ job.pos \in Nat
  BY DEF LInv, JobInv, ApplyJob, IterateJob
<1>4. IterateMeetsAll
  <2> SUFFICES ASSUME Iterating, ~HasNext
               PROVE  job.met = DOMAIN msg[job.src].at
    BY DEF IterateMeetsAll
  <2>1. job.met = Met(job.src, job.pos) /\ job.src \in Msgs /\ job.pos \in Nat
    BY DEF LInv, JobInv, Iterating, ApplyJob, IterateJob
  <2>2. \A o \in DOMAIN msg[job.src].at :
            o \in Nat /\ msg[job.src].tail \in Nat /\ o < msg[job.src].tail
    BY <2>1, <1>1, Offsets
  <2> QED
    BY <2>1, <2>2 DEF Met, HasNext
<1> QED
  BY <1>2, <1>3, <1>4 DEF LInv, LoopTypeOK

LEMMA LInvInit == Init => LInv
<1> SUFFICES ASSUME Init PROVE LInv
  OBVIOUS
<1>1. \A m \in Msgs : msg[m] = NewBuffer
  BY DEF Init
<1>2. FieldsOf(NewBuffer) = {}
  BY DEF FieldsOf, NewBuffer, Cleared, NoFields
<1> QED
  BY <1>1, <1>2, NewBufferGood
     DEF Init, LInv, Messages, GoodMessage, JobInv, Statuses

-----------------------------------------------------------------------------
(* What an update stores. *)

\* The fields of a message stay restorable, and its types are those it had
\* and that of the value.
LEMMA StoredByGood ==
    ASSUME NEW p, IsBuffer(p), \A f \in FieldsOf(p) : Restorable(f) /\ Identified(f),
           NEW in, in.len <= MaxU32, NEW f, StoredBy(p, in, f)
    PROVE  /\ Restorable(f) /\ Identified(f)
           /\ f.type = in.type \/ \E g \in FieldsOf(p) : f.type = g.type
<1>1. CASE f \in FieldsOf(p)
  BY <1>1
<1>2. CASE f.type = in.type /\ f.data = in /\ Identified(f)
  BY <1>2 DEF Restorable
<1>3. ASSUME NEW g \in FieldsOf(p), Accepts(g, in), f = Rewritten(g, in)
      PROVE  Restorable(f) /\ Identified(f) /\ f.type = g.type
  <2>1. IsField(g)
    BY <1>3 DEF FieldsOf, IsBuffer, IsLayout
  <2>2. f.type = g.type /\ f.data = in /\ f.name = g.name /\ f.fid = g.fid
    BY <1>3, <2>1 DEF Rewritten, IsField
  <2> QED
    BY <1>3, <2>2 DEF Accepts, Restorable, Identified
<1> QED
  BY <1>1, <1>2, <1>3 DEF StoredBy

-----------------------------------------------------------------------------
(* Calls that change a message. *)

LEMMA AddGood ==
    ASSUME NEW p, GoodMessage(p), NEW name \in Names, NEW fid \in Nat,
           NEW in, IsInput(in)
    PROVE  LET r == AddField(p, name, fid, in)
           IN  GoodMessage(r.buf) /\ r.status \in Statuses
<1> DEFINE r == AddField(p, name, fid, in)
<1>1. GoodOutcome(p, r)
  BY AddFieldGood DEF GoodMessage
<1>2. CASE r.status # "OK"
  BY <1>1, <1>2 DEF GoodOutcome
<1>3. CASE r.status = "OK"
  <2>1. in.len <= MaxU32
    BY <1>3, ValueLength, MaxU32Assumption DEF AddField, Outcome, AddStatus
  <2>2. \A f \in FieldsOf(r.buf) : Restorable(f) /\ Identified(f)
    BY <2>1, AddStores, StoredByGood DEF GoodMessage, GoodBuffer
  <2> QED
    BY <1>1, <2>2 DEF GoodMessage, GoodOutcome
<1> QED
  BY <1>2, <1>3

LEMMA UpdateGood ==
    ASSUME NEW p, GoodMessage(p), NEW name \in Names, NEW fid \in Nat,
           NEW in, IsInput(in), FitsPrefix(in), KeepsWidth(p, name, fid, in)
    PROVE  LET r == UpdateField(p, name, fid, in)
           IN  GoodMessage(r.buf) /\ r.status \in Statuses
<1> DEFINE r == UpdateField(p, name, fid, in)
<1>1. GoodOutcome(p, r)
  BY UpdateFieldGood DEF GoodMessage
<1>2. \A f \in FieldsOf(r.buf) : Restorable(f) /\ Identified(f)
  BY UpdateStores, StoredByGood DEF GoodMessage, GoodBuffer, FitsPrefix
<1> QED
  BY <1>1, <1>2 DEF GoodMessage, GoodOutcome

\* The vector update leaves the same buffer.
LEMMA UpdateVectorBuf ==
    ASSUME NEW p, NEW name, NEW fid, NEW in
    PROVE  UpdateVectorField(p, name, fid, in).buf = UpdateField(p, name, fid, in).buf
BY DEF UpdateVectorField, UpdateField, Outcome

\* Any call of a client on a message, within the rules.
LEMMA StoreGood ==
    ASSUME LInv, NEW m \in Msgs, NEW op, NEW r, Store(m, op, r),
           job = NoJob \/ Iterating,
           GoodMessage(r.buf), r.status \in Statuses
    PROVE  LInv'
<1>1. /\ msg' = [msg EXCEPT ![m] = r.buf] /\ job' = job
      /\ ret'.status = r.status /\ MayDisturb(m, r.buf)
  BY DEF Store, Return
<1>2. /\ msg'[m] = r.buf /\ \A n \in Msgs \ {m} : msg'[n] = msg[n]
  BY <1>1 DEF LInv, Messages
<1>3. Messages'
  BY <1>1, <1>2 DEF LInv, Messages
<1>4. JobInv'
  <2> SUFFICES ASSUME job # NoJob
               PROVE  IterateJob' /\ Place(job.src, job.pos)'
    BY <1>1 DEF JobInv
  <2>1. Iterating /\ IterateJob /\ Place(job.src, job.pos)
    BY DEF LInv, JobInv, ApplyJob, Iterating
  <2>2. CASE job.src = m
    <3>1. /\ Met(m, job.pos)' = Met(m, job.pos)
          /\ Place(m, job.pos)'
      BY <1>1, <1>2, <2>1, <2>2 DEF MayDisturb, Met, Place
    <3> QED
      BY <1>1, <2>1, <2>2, <3>1 DEF IterateJob
  <2>3. CASE job.src # m
    BY <1>1, <1>2, <2>1, <2>3 DEF IterateJob, Met, Place
  <2> QED
    BY <2>2, <2>3
<1> QED
  BY <1>1, <1>3, <1>4 DEF LInv

LEMMA LInvAdd ==
    ASSUME LInv, NEW m \in Msgs, NEW id \in Ids, NEW in \in Inputs, Add(m, id, in)
    PROVE  LInv'
<1>1. id[1] \in Names /\ id[2] \in Nat /\ IsInput(in)
  BY IdsAssumption, LoopInputsAssumption
<1>2. GoodMessage(msg[m])
  BY DEF LInv, Messages
<1> QED
  BY <1>1, <1>2, AddGood, StoreGood DEF Add, ClientRuns

LEMMA LInvUpdate ==
    ASSUME LInv, NEW m \in Msgs, NEW id \in Ids, NEW in \in Inputs, Update(m, id, in)
    PROVE  LInv'
<1>1. id[1] \in Names /\ id[2] \in Nat /\ IsInput(in)
  BY IdsAssumption, LoopInputsAssumption
<1>2. GoodMessage(msg[m])
  BY DEF LInv, Messages
<1> QED
  BY <1>1, <1>2, UpdateGood, StoreGood DEF Update, ClientRuns

LEMMA LInvClear == ASSUME LInv, NEW m \in Msgs, Clear(m) PROVE LInv'
<1>1. SafeBuffer(msg[m])
  BY DEF LInv, Messages, GoodMessage, GoodBuffer, SafeBuffer
<1>2. GoodBuffer(Cleared(msg[m]))
  BY <1>1, ClearedGood
<1>3. FieldsOf(Cleared(msg[m])) = {}
  BY <1>1 DEF FieldsOf, Cleared, NoFields, SafeBuffer, IsBuffer
<1>4. /\ GoodMessage(Outcome(Cleared(msg[m]), "OK").buf)
      /\ Outcome(Cleared(msg[m]), "OK").status \in Statuses
  BY <1>2, <1>3 DEF GoodMessage, Outcome, Statuses
<1> QED
  BY <1>4, StoreGood DEF Clear, ClientRuns

-----------------------------------------------------------------------------
(* The loop. *)

\* The first field, or the end, is where a loop begins.
LEMMA BeginsInPlace ==
    ASSUME LInv, NEW m \in Msgs
    PROVE  LET pos == HeaderSize(msg[m])
           IN  /\ pos \in Nat /\ Place(m, pos) /\ Met(m, pos) = {}
               /\ Left(m, pos) = DOMAIN msg[m].at
               /\ LastName(msg[m], pos) = NoName
<1>1. GoodBuffer(msg[m])
  BY DEF LInv, Messages, GoodMessage
<1>2. /\ HeaderSize(msg[m]) \in Nat /\ DOMAIN msg[m].at \subseteq Nat
      /\ HeaderSize(msg[m]) \in DOMAIN msg[m].at \cup {msg[m].tail}
      /\ \A o \in DOMAIN msg[m].at : HeaderSize(msg[m]) <= o
  BY <1>1, Offsets
<1> QED
  BY <1>2 DEF Place, Met, Left, LastName

LEMMA LInvCalls ==
    ASSUME LInv, NEW m \in Msgs, NEW src \in Msgs,
           ApplyCall(m, src) \/ IterateCall(m)
    PROVE  LInv'
<1>1. CASE ApplyCall(m, src)
  <2>1. /\ job' = [kind |-> "apply", dst |-> m, src |-> src,
                   pos |-> HeaderSize(msg[src]), name |-> NoName, sub |-> NoSub,
                   before |-> msg[m]]
        /\ m # src /\ KeepsWidths(msg[src], DOMAIN msg[src].at, msg[m])
        /\ msg' = msg /\ ret' = ret
    BY <1>1 DEF ApplyCall
  <2>2. /\ HeaderSize(msg[src]) \in Nat /\ Place(src, HeaderSize(msg[src]))
        /\ Left(src, HeaderSize(msg[src])) = DOMAIN msg[src].at
        /\ LastName(msg[src], HeaderSize(msg[src])) = NoName
    BY BeginsInPlace
  <2>3. NoName \in Names
    BY NamesAssumption
  <2>4. /\ job' \in [kind : {"apply"}, dst : Msgs, src : Msgs, pos : Nat,
                     name : Names, sub : {job'.sub}, before : {job'.before}]
        /\ job'.dst = m /\ job'.src = src /\ job'.sub = NoSub
        /\ job'.pos = HeaderSize(msg[src]) /\ job'.name = NoName
    BY <2>1, <2>2, <2>3
  <2>5. Left(job.src, job.pos)' = DOMAIN msg[src].at
    BY <2>1, <2>2, <2>4 DEF Left
  <2>6. ApplyJob' /\ Place(job.src, job.pos)'
    BY <2>1, <2>2, <2>4, <2>5 DEF ApplyJob, Place
  <2> QED
    BY <2>1, <2>6 DEF LInv, JobInv, Messages
<1>2. CASE IterateCall(m)
  <2>1. /\ job' = [kind |-> "iterate", src |-> m, pos |-> HeaderSize(msg[m]),
                   inCallback |-> FALSE, met |-> {}]
        /\ msg' = msg /\ ret' = ret
    BY <1>2 DEF IterateCall
  <2>2. /\ HeaderSize(msg[m]) \in Nat /\ Place(m, HeaderSize(msg[m]))
        /\ Met(m, HeaderSize(msg[m])) = {}
    BY BeginsInPlace
  <2>3. /\ job' \in [kind : {"iterate"}, src : Msgs, pos : Nat,
                     inCallback : BOOLEAN, met : {job'.met}]
        /\ job'.src = m /\ job'.pos = HeaderSize(msg[m]) /\ job'.met = {}
    BY <2>1, <2>2
  <2>4. IterateJob' /\ Place(job.src, job.pos)'
    BY <2>1, <2>2, <2>3 DEF IterateJob, Place, Met
  <2> QED
    BY <2>1, <2>4 DEF LInv, JobInv, Messages
<1> QED
  BY <1>1, <1>2

LEMMA LInvReturns ==
    ASSUME LInv, ApplyReturns \/ IterateReturns
    PROVE  LInv'
BY DEF ApplyReturns, IterateReturns, Return, LInv, JobInv, Messages, Statuses

LEMMA LInvCallbackReturns == ASSUME LInv, CallbackReturns PROVE LInv'
<1>1. /\ job' = [job EXCEPT !.inCallback = FALSE] /\ msg' = msg /\ ret' = ret
      /\ IterateJob /\ Place(job.src, job.pos)
  BY DEF CallbackReturns, Iterating, LInv, JobInv, ApplyJob
<1>2. /\ job' \in [kind : {"iterate"}, src : Msgs, pos : Nat,
                   inCallback : BOOLEAN, met : {job'.met}]
      /\ job'.src = job.src /\ job'.pos = job.pos /\ job'.met = job.met
  BY <1>1 DEF IterateJob
<1>3. IterateJob' /\ Place(job.src, job.pos)'
  BY <1>1, <1>2 DEF IterateJob, Place, Met
<1> QED
  BY <1>1, <1>3 DEF LInv, JobInv, Messages

\* A turn of the loop is at a field and ends on the next one, or at the end.
LEMMA Turn ==
    ASSUME LInv, job # NoJob, HasNext
    PROVE  LET p == msg[job.src]
               n == After(p, job.pos)
           IN  /\ job.src \in Msgs /\ GoodMessage(p)
               /\ job.pos \in DOMAIN p.at /\ n \in Nat /\ Place(job.src, n)
               /\ Met(job.src, n) = Met(job.src, job.pos) \cup {job.pos}
<1> DEFINE p == msg[job.src]
           n == After(p, job.pos)
<1>1. job.src \in Msgs /\ Place(job.src, job.pos) /\ job.pos \in Nat
  BY DEF LInv, JobInv, ApplyJob, IterateJob
<1>2. GoodMessage(p) /\ GoodBuffer(p)
  BY <1>1 DEF LInv, Messages, GoodMessage
<1>3. job.pos \in DOMAIN p.at
  BY <1>1, <1>2, Offsets DEF Place, HasNext
<1>4. /\ n \in DOMAIN p.at \cup {p.tail} /\ job.pos < n /\ n \in Nat
      /\ \A q \in DOMAIN p.at : q < n <=> q <= job.pos
  BY <1>2, <1>3, StepInOrder DEF After
<1>5. DOMAIN p.at \subseteq Nat
  BY <1>2, Offsets
<1>6. Met(job.src, n) = Met(job.src, job.pos) \cup {job.pos}
  BY <1>1, <1>3, <1>4, <1>5 DEF Met
<1> QED
  BY <1>1, <1>2, <1>3, <1>4, <1>6 DEF Place

LEMMA LInvIterateStep == ASSUME LInv, IterateStep PROVE LInv'
<1> DEFINE n == After(msg[job.src], job.pos)
<1>1. /\ job' = [job EXCEPT !.pos = n, !.inCallback = TRUE,
                            !.met = job.met \cup {job.pos}]
      /\ msg' = msg /\ ret' = ret /\ IterateJob /\ HasNext /\ job # NoJob
  BY DEF IterateStep, Iterating, LInv, JobInv, ApplyJob
<1>2. /\ n \in Nat /\ Place(job.src, n)
      /\ Met(job.src, n) = Met(job.src, job.pos) \cup {job.pos}
  BY <1>1, Turn
<1> HIDE DEF n
<1>3. /\ job' \in [kind : {"iterate"}, src : Msgs, pos : Nat,
                   inCallback : BOOLEAN, met : {job'.met}]
      /\ job'.src = job.src /\ job'.pos = n /\ job'.met = job.met \cup {job.pos}
  BY <1>1, <1>2 DEF IterateJob
<1>4. IterateJob' /\ Place(job.src, job.pos)'
  BY <1>1, <1>2, <1>3 DEF IterateJob, Place, Met
<1> QED
  BY <1>1, <1>4 DEF LInv, JobInv, Messages

-----------------------------------------------------------------------------
(* apply. *)

\* A stored field has the size its value has, and one that fits a prefix.
LEMMA StoredSize ==
    ASSUME NEW p, GoodMessage(p), NEW f \in FieldsOf(p)
    PROVE  /\ IsField(f) /\ Restorable(f) /\ IsInput(f.data)
           /\ DecodedSize(f) = f.data.len
           /\ DecodedSize(f) \in Nat /\ DecodedSize(f) <= MaxU32
<1>1. PICK o \in DOMAIN p.at : f = p.at[o]
  BY DEF FieldsOf
<1>2. IsField(f) /\ ReadsAsWritten(f) /\ Restorable(f)
  BY <1>1 DEF GoodMessage, GoodBuffer, IsBuffer, IsLayout, FramedBuffer, FramedFields
<1>3. DecodedSize(f) = f.data.len /\ IsInput(f.data)
  BY <1>2, ReadsBack DEF IsField
<1> QED
  BY <1>2, <1>3, ValueLength DEF Restorable

\* What is read of a sub-message, or was read before, can be stored.
LEMMA SubGood ==
    ASSUME ApplyJob, NEW p, GoodMessage(p), NEW f \in FieldsOf(p)
    PROVE  /\ SubFor(f) # NoSub => IsSub(SubFor(f))
           /\ f.type = "MSG" => IsSub(SubFor(f))
<1>1. DecodedSize(f) \in Nat /\ DecodedSize(f) <= MaxU32
  BY StoredSize
<1>2. ASSUME NEW n \in Nat, n <= MaxU32, NEW x
      PROVE  IsSub([type |-> "MSG", len |-> n, val |-> x])
  BY <1>2 DEF IsSub, IsInput, IsBytesInput, PrefixedTypes, EncodedVectorTypes,
       FieldTypes, SizedTypes
<1>3. CASE f.type = "MSG" /\ Readable(f)
  <2>1. SubFor(f) = [type |-> "MSG", len |-> DecodedSize(f), val |-> f.data.val]
    BY <1>3 DEF SubFor
  <2> QED
    BY <2>1, <1>1, <1>2
<1>4. CASE f.type = "MSG" /\ ~Readable(f) /\ job.sub = NoSub
  <2>1. SubFor(f) = [type |-> "MSG", len |-> HeaderV1Size, val |-> EmptyMsg]
    BY <1>4 DEF SubFor
  <2> QED
    BY <2>1, <1>2, EmptyMsgAssumption DEF HeaderV1Size
<1>5. CASE ~(f.type = "MSG" /\ (Readable(f) \/ job.sub = NoSub))
  <2>1. SubFor(f) = job.sub
    BY <1>5 DEF SubFor
  <2> QED
    BY <2>1, <1>5 DEF ApplyJob
<1> QED
  BY <1>3, <1>4, <1>5

\* What a getter reads of a field can be stored, and has the field's type.
LEMMA ValueGood ==
    ASSUME ApplyJob, NEW p, GoodMessage(p), NEW f \in FieldsOf(p),
           f.type \in AppliedTypes
    PROVE  LET v == ValueFor(f)
           IN  IsInput(v) /\ v.len <= MaxU32 /\ v.type = f.type
<1>1. CASE f.type = "MSG"
  BY <1>1, SubGood DEF ValueFor, IsSub
<1>2. CASE f.type # "MSG"
  <2> DEFINE v == ValueFor(f)
  <2>1. /\ v = [type |-> f.type, len |-> DecodedSize(f), val |-> f.data.val]
        /\ v.type = f.type /\ v.len = DecodedSize(f)
    BY <1>2 DEF ValueFor
  <2>2. /\ DecodedSize(f) \in Nat /\ DecodedSize(f) <= MaxU32
        /\ DecodedSize(f) = f.data.len /\ IsInput(f.data)
        /\ f.type = f.data.type \/ Castable(f.type, f.data.type)
    BY StoredSize DEF Restorable
  <2>0. v = ValueFor(f)
    OBVIOUS
  <2> HIDE DEF v
  <2>3. f.type \in FieldTypes /\ v \in [type : FieldTypes, len : Nat, val : {v.val}]
    BY <2>1, <2>2, StoredSize DEF IsField
  <2>4. CASE f.type \in FixedWidthTypes
    <3>1. DecodedSize(f) = Width(f.type)
      BY <2>4 DEF DecodedSize, FixedWidthTypes, OneByteTypes, TwoByteTypes,
           FourByteTypes, EightByteTypes, PrefixedTypes, ScalarVectorTypes,
           EncodedVectorTypes
    <3> QED
      BY <2>0, <2>1, <2>2, <2>3, <2>4, <3>1 DEF IsInput, IsScalarInput
  <2>5. CASE f.type \notin FixedWidthTypes
    <3>1. f.data.type = f.type /\ f.data.type \notin FixedWidthTypes
      BY <2>2, <2>5 DEF Castable
    <3>2. \/ IsStructInput(f.data)
          \/ IsStringInput(f.data)
          \/ IsBytesInput(f.data)
      BY <2>2, <3>1 DEF IsInput, IsScalarInput
    <3>3. IsStructInput(v) \/ IsStringInput(v) \/ IsBytesInput(v)
      BY <2>1, <2>2, <3>1, <3>2 DEF IsStructInput, IsStringInput, IsBytesInput
    <3> QED
      BY <2>0, <2>1, <2>2, <2>3, <3>3 DEF IsInput
  <2> QED
    BY <2>4, <2>5
<1> QED
  BY <1>1, <1>2

-----------------------------------------------------------------------------
(* apply, field by field.  The destination is seen as the sequence of its  *)
(* fields: an update changes one of them, or appends one.                  *)

SameId(f, g) == f.type = g.type /\ f.fid = g.fid /\ f.name = g.name

\* The sequence s of fields becomes t by an update.
OneUpdate(s, name, fid, in, t) ==
    \/ t = s /\ \/ NoIdentity(name, fid)
                \/ AddStatus(name, fid, in) # "OK"
                   /\ \A i \in 1 .. Len(s) : ~Matches(s[i], name, fid)
                \/ \E k \in 1 .. Len(s) :
                    FirstIn(s, name, fid, k) /\ ~Accepts(s[k], in)
    \/ \E k \in 1 .. Len(s) :
        /\ FirstIn(s, name, fid, k) /\ Accepts(s[k], in)
        /\ Changed(s, k, Rewritten(s[k], in), t)
    \/ /\ \A i \in 1 .. Len(s) : ~Matches(s[i], name, fid)
       /\ AddStatus(name, fid, in) = "OK"
       /\ Extended(s, Encode(name, fid, in), t)

LEMMA UpdateInOrder ==
    ASSUME NEW p, GoodBuffer(p), NEW name, NEW fid, NEW in, IsInput(in)
    PROVE  OneUpdate(Fields(p), name, fid, in,
                     Fields(UpdateField(p, name, fid, in).buf))
<1>1. CASE NoIdentity(name, fid)
  BY <1>1 DEF UpdateField, Outcome, OneUpdate
<1>2. CASE ~NoIdentity(name, fid) /\ Found(p, name, fid)
  <2> DEFINE o == FirstMatch(p, name, fid)
  <2>1. UpdateField(p, name, fid, in) = UpdateAt(p, o, in)
    BY <1>2 DEF UpdateField
  <2>2. PICK k \in 1 .. Len(Fields(p)) :
            /\ FirstIn(Fields(p), name, fid, k) /\ Fields(p)[k] = p.at[o]
            /\ Changed(Fields(p), k, Rewritten(Fields(p)[k], in),
                       Fields(Replaced(p, o, in)))
    BY <1>2, LookupInOrder
  <2> HIDE DEF o
  <2> QED
    BY <2>1, <2>2 DEF UpdateAt, Outcome, OneUpdate
<1>3. CASE ~NoIdentity(name, fid) /\ ~Found(p, name, fid)
  <2>1. UpdateField(p, name, fid, in) = AddField(p, name, fid, in)
    BY <1>3 DEF UpdateField
  <2> QED
    BY <1>3, <2>1, NotInOrder, FieldsAppended DEF AddField, Outcome, OneUpdate
<1> QED
  BY <1>1, <1>2, <1>3

\* The fields of a message, as a sequence.
LEMMA InOrder ==
    ASSUME NEW p, GoodMessage(p)
    PROVE  /\ Len(Fields(p)) \in Nat /\ DOMAIN Fields(p) = 1 .. Len(Fields(p))
           /\ \A i \in 1 .. Len(Fields(p)) :
                Fields(p)[i] \in FieldsOf(p) /\ IsField(Fields(p)[i])
<1>1. PICK e, n : Lists(e, n, p)
  BY GoodListing DEF GoodMessage
<1>2. /\ Len(Fields(p)) = n /\ n \in Nat /\ DOMAIN Fields(p) = 1 .. n
      /\ \A i \in 1 .. n : Fields(p)[i] = p.at[e[i]]
  BY <1>1, FieldsThrough
<1>3. \A i \in 1 .. n : Fields(p)[i] \in FieldsOf(p)
  BY <1>1, <1>2 DEF Lists, Listing, FieldsOf
<1> QED
  BY <1>2, <1>3, StoredSize

LEMMA RewrittenIs ==
    ASSUME NEW f, IsField(f), NEW in
    PROVE  /\ SameId(Rewritten(f, in), f) /\ Rewritten(f, in).data = in
BY DEF Rewritten, IsField, SameId

\* The destination has the fields it had, and others behind them.
Grown(s, t) ==
    Len(s) <= Len(t) /\ \A i \in 1 .. Len(s) : SameId(t[i], s[i])

LEMMA GrownOnce ==
    ASSUME NEW s, Len(s) \in Nat, \A i \in 1 .. Len(s) : IsField(s[i]),
           NEW name, NEW fid, NEW in, NEW t, OneUpdate(s, name, fid, in, t)
    PROVE  Grown(s, t) /\ Len(t) \in Nat
<1>1. CASE t = s
  BY <1>1 DEF Grown, SameId
<1>2. ASSUME NEW k \in 1 .. Len(s), Changed(s, k, Rewritten(s[k], in), t)
      PROVE  Grown(s, t) /\ Len(t) \in Nat
  <2>1. SameId(Rewritten(s[k], in), s[k])
    BY RewrittenIs
  <2> QED
    BY <1>2, <2>1 DEF Changed, Grown, SameId
<1>3. CASE Extended(s, Encode(name, fid, in), t)
  BY <1>3 DEF Extended, Grown, SameId
<1> QED
  BY <1>1, <1>2, <1>3 DEF OneUpdate

LEMMA GrownTwice ==
    ASSUME NEW r, NEW s, NEW t, Len(r) \in Nat, Len(s) \in Nat, Len(t) \in Nat,
           Grown(r, s), Grown(s, t)
    PROVE  Grown(r, t)
BY DEF Grown, SameId

\* A lookup goes by the identities.
LEMMA SameIdMatches ==
    ASSUME NEW f, NEW g, SameId(f, g), NEW name, NEW fid
    PROVE  Matches(f, name, fid) <=> Matches(g, name, fid)
BY DEF SameId, Matches

LEMMA FirstIsOne ==
    ASSUME NEW s, Len(s) \in Nat, NEW name, NEW fid, NEW j, NEW k,
           FirstIn(s, name, fid, j), FirstIn(s, name, fid, k)
    PROVE  j = k
BY DEF FirstIn

\* What is found first in the fields that were there is found first still.
LEMMA FirstStays ==
    ASSUME NEW s, NEW t, Len(s) \in Nat, Len(t) \in Nat, Grown(s, t),
           NEW name, NEW fid, NEW k
    PROVE  /\ FirstIn(s, name, fid, k) => FirstIn(t, name, fid, k)
           /\ FirstIn(t, name, fid, k) /\ k <= Len(s) => FirstIn(s, name, fid, k)
<1>1. /\ \A i \in 1 .. Len(s) : i \in 1 .. Len(t)
      /\ \A i \in 1 .. Len(s) : Matches(t[i], name, fid) <=> Matches(s[i], name, fid)
  BY SameIdMatches DEF Grown
<1>2. \A i \in 1 .. Len(t) : i <= Len(s) => i \in 1 .. Len(s)
  OBVIOUS
<1>3. ASSUME FirstIn(s, name, fid, k) PROVE FirstIn(t, name, fid, k)
  <2>1. k \in 1 .. Len(s) /\ k \in 1 .. Len(t) /\ Matches(t[k], name, fid)
    BY <1>1, <1>3 DEF FirstIn
  <2>2. ASSUME NEW i \in 1 .. Len(t), i < k PROVE ~Matches(t[i], name, fid)
    <3>1. i \in 1 .. Len(s)
      BY <2>1, <2>2
    <3> QED
      BY <1>1, <1>3, <2>2, <3>1 DEF FirstIn
  <2> QED
    BY <2>1, <2>2 DEF FirstIn
<1>4. ASSUME FirstIn(t, name, fid, k), k <= Len(s) PROVE FirstIn(s, name, fid, k)
  BY <1>1, <1>2, <1>4 DEF FirstIn
<1> QED
  BY <1>3, <1>4

-----------------------------------------------------------------------------
(* The rule for apply.                                                     *)

\* What a lookup finds it finds after an update still, with the type it had;
\* and where it found nothing it may find the field the update appended.
LEMMA LookupAfterUpdate ==
    ASSUME NEW d, GoodMessage(d), NEW name, NEW fid, NEW in, IsInput(in),
           NEW q, q = UpdateField(d, name, fid, in).buf, GoodMessage(q),
           NEW n, NEW i
    PROVE  /\ Found(d, n, i) =>
                /\ Found(q, n, i)
                /\ q.at[FirstMatch(q, n, i)].type = d.at[FirstMatch(d, n, i)].type
           /\ ~Found(d, n, i) /\ Found(q, n, i) =>
                /\ ~Found(d, name, fid)
                /\ Matches(Encode(name, fid, in), n, i)
                /\ q.at[FirstMatch(q, n, i)].type = in.type
<1> DEFINE s == Fields(d)
           t == Fields(q)
<1>1. /\ Len(s) \in Nat /\ Len(t) \in Nat /\ GoodBuffer(d) /\ GoodBuffer(q)
      /\ \A j \in 1 .. Len(s) : IsField(s[j])
  BY InOrder DEF GoodMessage
<1>2. OneUpdate(s, name, fid, in, t)
  BY <1>1, UpdateInOrder
<1>3. Grown(s, t)
  BY <1>1, <1>2, GrownOnce
<1>4. ASSUME Found(d, n, i)
      PROVE  /\ Found(q, n, i)
             /\ q.at[FirstMatch(q, n, i)].type = d.at[FirstMatch(d, n, i)].type
  <2>1. PICK k \in 1 .. Len(s) :
            FirstIn(s, n, i, k) /\ s[k] = d.at[FirstMatch(d, n, i)]
    BY <1>1, <1>4, LookupInOrder
  <2>2. FirstIn(t, n, i, k)
    BY <1>1, <1>3, <2>1, FirstStays
  <2>3. Found(q, n, i)
    BY <1>1, <2>2, NotInOrder DEF FirstIn
  <2>4. PICK j \in 1 .. Len(t) :
            FirstIn(t, n, i, j) /\ t[j] = q.at[FirstMatch(q, n, i)]
    BY <1>1, <2>3, LookupInOrder
  <2>5. j = k
    BY <1>1, <2>2, <2>4, FirstIsOne
  <2> QED
    BY <1>3, <2>1, <2>3, <2>4, <2>5 DEF Grown, SameId
<1>5. ASSUME ~Found(d, n, i), Found(q, n, i)
      PROVE  /\ ~Found(d, name, fid)
             /\ Matches(Encode(name, fid, in), n, i)
             /\ q.at[FirstMatch(q, n, i)].type = in.type
  <2>1. \A j \in 1 .. Len(s) : ~Matches(s[j], n, i)
    BY <1>1, <1>5, NotInOrder
  <2>2. PICK k \in 1 .. Len(t) :
            FirstIn(t, n, i, k) /\ t[k] = q.at[FirstMatch(q, n, i)]
    BY <1>1, <1>5, LookupInOrder
  <2>3. k \notin 1 .. Len(s)
    <3>1. ASSUME k \in 1 .. Len(s) PROVE FirstIn(s, n, i, k)
      BY <1>1, <1>3, <2>2, <3>1, FirstStays
    <3> QED
      BY <2>1, <3>1 DEF FirstIn
  <2>4. /\ \A j \in 1 .. Len(s) : ~Matches(s[j], name, fid)
        /\ Extended(s, Encode(name, fid, in), t)
    BY <1>2, <2>2, <2>3 DEF OneUpdate, Changed
  <2>5. t[k] = Encode(name, fid, in)
    BY <1>1, <2>2, <2>3, <2>4 DEF Extended
  <2>6. ~Found(d, name, fid)
    BY <1>1, <2>4, LookupInOrder DEF FirstIn
  <2> QED
    BY <2>2, <2>5, <2>6 DEF FirstIn, Encode
<1> QED
  BY <1>4, <1>5

\* A field apply appends does not meet one of another width behind it.
LEMMA NewOnesKeepWidth ==
    ASSUME NEW p, NEW L, NEW d, KeepsWidths(p, L, d), NEW y \in L, NEW o \in L,
           p.at[y].type \in AppliedTypes, p.at[o].type \in AppliedTypes,
           ~Found(d, Renamed(p, y).name, p.at[y].fid),
           ~Found(d, Renamed(p, o).name, p.at[o].fid),
           y < o, Matches(Renamed(p, y), Renamed(p, o).name, p.at[o].fid),
           Castable(p.at[y].type, p.at[o].type)
    PROVE  Width(p.at[y].type) = Width(p.at[o].type)
<1> DEFINE values == {x \in L : p.at[x].type \in AppliedTypes}
           new == {x \in values : ~Found(d, Renamed(p, x).name, p.at[x].fid)}
<1>1. y \in new /\ o \in new
  OBVIOUS
<1>2. \A q, x \in new :
        (/\ q < x /\ Matches(Renamed(p, q), Renamed(p, x).name, p.at[x].fid)
         /\ Castable(p.at[q].type, p.at[x].type))
            => Width(p.at[q].type) = Width(p.at[x].type)
  BY DEF KeepsWidths
<1> HIDE DEF new
<1> QED
  BY <1>1, <1>2

\* An update of apply keeps to the rule, and leaves it standing for those to
\* come, at the offsets behind.
LEMMA AppliedGood ==
    ASSUME ApplyJob, NEW p, GoodMessage(p), NEW x \in DOMAIN p.at,
           Renamed(p, x).name \in Names, NEW d, GoodMessage(d),
           NEW L, x \in L, KeepsWidths(p, L, d),
           NEW M, M \subseteq L, \A o \in M : x < o
    PROVE  LET q == Applied(d, Renamed(p, x).name, p.at[x])
           IN  GoodMessage(q) /\ KeepsWidths(p, M, q)
<1> DEFINE f       == p.at[x]
           v       == ValueFor(f)
           Name(o) == Renamed(p, o).name
           Fid(o)  == p.at[o].fid
           q       == UpdateField(d, Name(x), f.fid, v).buf
<1>1. f \in FieldsOf(p) /\ IsField(f)
  BY StoredSize DEF FieldsOf
<1>2. CASE f.type \notin AppliedTypes
  <2>1. Applied(d, Name(x), f) = d
    BY <1>2 DEF Applied, AppliedTypes
  <2>2. KeepsWidths(p, M, d)
    BY DEF KeepsWidths
  <2> QED
    BY <2>1, <2>2
<1>3. CASE f.type \in AppliedTypes
  <2>1. Applied(d, Name(x), f) = q
    BY <1>3, UpdateVectorBuf DEF Applied
  <2>2. IsInput(v) /\ v.len <= MaxU32 /\ v.type = f.type /\ f.fid \in Nat
    BY <1>1, <1>3, ValueGood DEF IsField
  <2> HIDE DEF v
  <2>4. KeepsWidth(d, Name(x), f.fid, v)
    BY <1>3, <2>2 DEF KeepsWidths, KeepsWidth
  <2>5. GoodMessage(q)
    BY <2>2, <2>4, UpdateGood DEF FitsPrefix
  <2>6. ASSUME NEW o \in M, p.at[o].type \in AppliedTypes
        PROVE  /\ Found(d, Name(o), Fid(o)) => Found(q, Name(o), Fid(o))
               /\ KeepsWidth(q, Name(o), Fid(o), p.at[o])
    <3> HIDE DEF q, Name, Fid
    <3>1. /\ Found(d, Name(o), Fid(o)) =>
                /\ Found(q, Name(o), Fid(o))
                /\ q.at[FirstMatch(q, Name(o), Fid(o))].type
                        = d.at[FirstMatch(d, Name(o), Fid(o))].type
          /\ ~Found(d, Name(o), Fid(o)) /\ Found(q, Name(o), Fid(o)) =>
                /\ ~Found(d, Name(x), f.fid)
                /\ Matches(Encode(Name(x), f.fid, v), Name(o), Fid(o))
                /\ q.at[FirstMatch(q, Name(o), Fid(o))].type = f.type
      BY <2>2, <2>5, LookupAfterUpdate DEF q
    <3>2. CASE Found(d, Name(o), Fid(o)) \/ ~Found(q, Name(o), Fid(o))
      <4>1. KeepsWidth(d, Name(o), Fid(o), p.at[o])
        BY <2>6 DEF KeepsWidths, Name, Fid
      <4> QED
        BY <3>1, <3>2, <4>1 DEF KeepsWidth
    <3>3. CASE ~Found(d, Name(o), Fid(o)) /\ Found(q, Name(o), Fid(o))
      <4>1. Matches(Renamed(p, x), Name(o), Fid(o))
        BY <1>1, <3>1, <3>3
           DEF Matches, Encode, StoredName, Renamed, IsField, Name
      <4>2. Castable(f.type, p.at[o].type) => Width(f.type) = Width(p.at[o].type)
        <5>1. /\ x \in L /\ o \in L /\ x < o
              /\ ~Found(d, Renamed(p, x).name, p.at[x].fid)
              /\ ~Found(d, Renamed(p, o).name, p.at[o].fid)
              /\ Matches(Renamed(p, x), Renamed(p, o).name, p.at[o].fid)
          BY <2>6, <3>1, <3>3, <4>1 DEF Name, Fid
        <5> QED
          BY <1>3, <2>6, <5>1, NewOnesKeepWidth
      <4> QED
        BY <3>1, <3>3, <4>2 DEF KeepsWidth
    <3> QED
      BY <3>2, <3>3
  <2>7. KeepsWidths(p, M, q)
    <3>1. ASSUME NEW o \in M, p.at[o].type \in AppliedTypes
          PROVE  KeepsWidth(q, Renamed(p, o).name, p.at[o].fid, p.at[o])
      BY <2>6, <3>1
    <3>2. ASSUME NEW y \in M, NEW o \in M,
                 p.at[y].type \in AppliedTypes, p.at[o].type \in AppliedTypes,
                 ~Found(q, Renamed(p, y).name, p.at[y].fid),
                 ~Found(q, Renamed(p, o).name, p.at[o].fid),
                 y < o, Matches(Renamed(p, y), Renamed(p, o).name, p.at[o].fid),
                 Castable(p.at[y].type, p.at[o].type)
          PROVE  Width(p.at[y].type) = Width(p.at[o].type)
      <4>1. /\ y \in L /\ o \in L
            /\ ~Found(d, Renamed(p, y).name, p.at[y].fid)
            /\ ~Found(d, Renamed(p, o).name, p.at[o].fid)
        BY <2>6, <3>2
      <4> QED
        BY <3>2, <4>1, NewOnesKeepWidth
    <3> HIDE DEF q
    <3> QED
      BY <3>1, <3>2 DEF KeepsWidths
  <2> QED
    BY <2>1, <2>5, <2>7
<1> QED
  BY <1>2, <1>3

\* The name apply keeps is the one the last field it has passed goes under.
LEMMA NextName ==
    ASSUME NEW p, DOMAIN p.at \subseteq Nat, NEW x \in DOMAIN p.at, NEW n,
           \A o \in DOMAIN p.at : o < n <=> o <= x
    PROVE  LastName(p, n) = Renamed(p, x).name
<1> DEFINE Named(b) == {o \in DOMAIN p.at : o < b /\ p.at[o].name # NoName}
           Last(S)  == IF S = {} THEN NoName
                       ELSE p.at[CHOOSE o \in S : \A q \in S : q <= o].name
<1>0. LastName(p, n) = Last(Named(n)) /\ LastName(p, x) = Last(Named(x))
  BY DEF LastName
<1>1. CASE p.at[x].name # NoName
  <2>1. x \in Named(n) /\ \A o \in Named(n) : o <= x
    BY <1>1
  <2>2. (CHOOSE o \in Named(n) : \A q \in Named(n) : q <= o) = x
    BY <2>1
  <2> QED
    BY <1>0, <1>1, <2>1, <2>2 DEF Renamed
<1>2. CASE p.at[x].name = NoName
  <2>1. Named(n) = Named(x)
    BY <1>2
  <2> HIDE DEF Named, Last
  <2>2. LastName(p, n) = LastName(p, x)
    BY <1>0, <2>1
  <2> QED
    BY <1>2, <2>2 DEF Renamed
<1> QED
  BY <1>1, <1>2

LEMMA LInvApplyStep == ASSUME LInv, ApplyStep PROVE LInv'
<1> DEFINE src == job.src
           dst == job.dst
           p   == msg[src]
           f   == p.at[job.pos]
           n   == After(p, job.pos)
           q   == Applied(msg[dst], NameFor(f), f)
<1>1. /\ job # NoJob /\ HasNext /\ ApplyJob /\ ret' = ret
      /\ msg' = [msg EXCEPT ![dst] = q]
      /\ job' = [job EXCEPT !.pos = n, !.name = NameFor(f), !.sub = SubFor(f)]
  BY DEF ApplyStep, Applying, LInv, JobInv, IterateJob
<1>2. /\ src \in Msgs /\ GoodMessage(p) /\ job.pos \in DOMAIN p.at
      /\ n \in Nat /\ Place(src, n)
  BY <1>1, Turn
<1>3. f \in FieldsOf(p) /\ IsField(f)
  BY <1>2, StoredSize DEF FieldsOf
<1>4. NameFor(f) \in Names /\ NameFor(f) = Renamed(p, job.pos).name
  <2>1. job.name \in Names /\ job.name = LastName(p, job.pos)
    BY <1>1 DEF ApplyJob
  <2> QED
    BY <1>3, <2>1 DEF NameFor, Renamed, IsField
<1>5. /\ dst \in Msgs /\ dst # src /\ GoodMessage(msg[dst])
      /\ KeepsWidths(p, Left(src, job.pos), msg[dst])
  BY <1>1 DEF ApplyJob, LInv, Messages
<1>6. /\ DOMAIN p.at \subseteq Nat /\ job.pos \in Left(src, job.pos)
      /\ Left(src, n) \subseteq Left(src, job.pos)
      /\ \A o \in Left(src, n) : job.pos < o
      /\ LastName(p, n) = Renamed(p, job.pos).name
  <2>1. GoodBuffer(p) /\ DOMAIN p.at \subseteq Nat
    BY <1>2, Offsets DEF GoodMessage
  <2>2. \A o \in DOMAIN p.at : o < n <=> o <= job.pos
    BY <1>2, <2>1, StepInOrder DEF After
  <2>3. LastName(p, n) = Renamed(p, job.pos).name
    BY <1>2, <2>1, <2>2, NextName
  <2> QED
    BY <1>2, <2>1, <2>2, <2>3 DEF Left
<1>7. GoodMessage(q) /\ KeepsWidths(p, Left(src, n), q)
  BY <1>1, <1>2, <1>4, <1>5, <1>6, AppliedGood
<1> HIDE DEF f, n, q
<1>8. /\ Messages' /\ msg'[src] = p /\ msg'[dst] = q
      /\ job' \in [kind : {"apply"}, dst : Msgs, src : Msgs, pos : Nat,
                   name : Names, sub : {job'.sub}, before : {job'.before}]
      /\ job'.src = src /\ job'.dst = dst /\ job'.pos = n /\ job'.sub = SubFor(f)
      /\ job'.name = NameFor(f)
  <2>1. /\ Messages' /\ msg'[src] = p /\ msg'[dst] = q
    BY <1>1, <1>2, <1>5, <1>7 DEF LInv, Messages
  <2> QED
    BY <1>1, <1>2, <1>4, <2>1 DEF ApplyJob
<1>9. SubFor(f) # NoSub => IsSub(SubFor(f))
  BY <1>1, <1>2, <1>3, SubGood
<1>10. ApplyJob'
  <2>1. Left(job.src, job.pos)' = Left(src, n)
    BY <1>8 DEF Left
  <2> QED
    BY <1>4, <1>5, <1>6, <1>7, <1>8, <1>9, <2>1 DEF ApplyJob
<1>11. Place(job.src, job.pos)'
  BY <1>2, <1>8 DEF Place
<1> QED
  BY <1>1, <1>8, <1>10, <1>11 DEF LInv, JobInv

-----------------------------------------------------------------------------
(* What apply has done so far, of the fields met: M, their offsets.        *)

\* Names and fids that go by the dictionary and match have one key.
Regular(f) == f.name # NoName /\ f.fid # 0 => Dict[f.name] = f.fid

LEMMA MatchHasKey ==
    ASSUME NEW f, NEW g, Regular(f), Regular(g), Matches(g, f.name, f.fid)
    PROVE  Key(g) = Key(f)
BY DEF Regular, Matches, Key

\* A field of the source the destination is due to have, if it goes on.
Due(f, src, old) ==
    /\ OnlyOne(f, src) /\ f.type \in AppliedTypes /\ DecodedSize(f) > 0
    /\ Found(old, f.name, f.fid) =>
        LET g == old.at[FirstMatch(old, f.name, f.fid)]
        IN  g.type = f.type \/ Castable(g.type, f.type)

Untouched(src, old, s) ==
    \A i \in 1 .. Len(Fields(old)) :
        (\A f \in FieldsOf(src) : Key(f) # Key(Fields(old)[i]))
            => s[i] = Fields(old)[i]

NewOnesMet(src, M, old, s) ==
    \A i \in 1 .. Len(s) : i > Len(Fields(old)) =>
        \E o \in M : s[i].name = src.at[o].name /\ s[i].fid = src.at[o].fid

Delivered(s, f) ==
    \E k \in 1 .. Len(s) :
        /\ FirstIn(s, f.name, f.fid, k)
        /\ s[k].data.val = f.data.val /\ DecodedSize(s[k]) = DecodedSize(f)

Merging(src, M, old, s) ==
    /\ Untouched(src, old, s)
    /\ NewOnesMet(src, M, old, s)
    /\ \A o \in M : Due(src.at[o], src, old) => Delivered(s, src.at[o])

AInv ==
    Applying =>
        LET src == msg[job.src]
            M   == Met(job.src, job.pos)
            s   == Fields(msg[job.dst])
        IN  /\ GoodMessage(job.before)
            /\ Grown(Fields(job.before), s)
            /\ job.name # NoName => \E o \in M : src.at[o].name # NoName
            /\ Mergeable(src, job.before) => Merging(src, M, job.before, s)

\* In the destination, too, a match has the key of what it is matched with.
LEMMA StillRegular ==
    ASSUME NEW src, NEW old, GoodMessage(old), Mergeable(src, old),
           NEW M, M \subseteq DOMAIN src.at,
           NEW s, Len(s) \in Nat, Grown(Fields(old), s),
           NewOnesMet(src, M, old, s), NEW i \in 1 .. Len(s)
    PROVE  Regular(s[i])
<1>1. CASE i > Len(Fields(old))
  <2>1. PICK o \in M : s[i].name = src.at[o].name /\ s[i].fid = src.at[o].fid
    BY <1>1 DEF NewOnesMet
  <2>2. src.at[o] \in FieldsOf(src)
    BY <2>1 DEF FieldsOf
  <2> QED
    BY <2>1, <2>2 DEF Mergeable, ByDictionary, Regular
<1>2. CASE ~(i > Len(Fields(old)))
  <2>1. i \in 1 .. Len(Fields(old))
    BY <1>2, InOrder
  <2>2. SameId(s[i], Fields(old)[i]) /\ Fields(old)[i] \in FieldsOf(old)
    BY <2>1, InOrder DEF Grown
  <2> QED
    BY <2>2 DEF Mergeable, ByDictionary, Regular, SameId
<1> QED
  BY <1>1, <1>2

\* One turn of the loop: the field at offset x of the source src updates the
\* fields s of the destination to t.
LEMMA MergeTurn ==
    ASSUME NEW src, GoodMessage(src), NEW old, GoodMessage(old),
           Mergeable(src, old),
           NEW M, M \subseteq DOMAIN src.at, NEW x \in DOMAIN src.at, x \notin M,
           NEW d, GoodMessage(d), NEW q, GoodMessage(q),
           Grown(Fields(old), Fields(d)), Merging(src, M, old, Fields(d)),
           NEW v, IsInput(v), v.len <= MaxU32,
           src.at[x].type \in AppliedTypes,
           v.type = src.at[x].type, v.len = DecodedSize(src.at[x]),
           v.val = src.at[x].data.val,
           OneUpdate(Fields(d), src.at[x].name, src.at[x].fid, v, Fields(q))
    PROVE  Merging(src, M \cup {x}, old, Fields(q))
<1> DEFINE f == src.at[x]
           r == Fields(old)
           s == Fields(d)
           t == Fields(q)
<1>1. /\ f \in FieldsOf(src) /\ IsField(f) /\ Regular(f) /\ Identified(f)
      /\ f.name # EmptyName
  <2>1. f \in FieldsOf(src)
    BY DEF FieldsOf
  <2> QED
    BY <2>1, StoredSize DEF GoodMessage, Mergeable, ByDictionary, Regular, IsField
<1>2. /\ Len(r) \in Nat /\ Len(s) \in Nat /\ Len(t) \in Nat
      /\ \A i \in 1 .. Len(s) : IsField(s[i])
      /\ \A i \in 1 .. Len(t) : t[i] \in FieldsOf(q)
  BY InOrder
<1>3. Grown(r, s) /\ Grown(s, t) /\ Grown(r, t)
  <2>1. Grown(s, t)
    BY <1>2, GrownOnce
  <2> QED
    BY <1>2, <2>1, GrownTwice
<1>4. \A i \in 1 .. Len(s) : Regular(s[i])
  BY <1>2, <1>3, StillRegular DEF Merging
<1>5. \A i \in 1 .. Len(s) : Matches(s[i], f.name, f.fid) => Key(s[i]) = Key(f)
  BY <1>1, <1>4, MatchHasKey
<1>0. OneUpdate(s, f.name, f.fid, v, t)
  OBVIOUS
<1>99. r = Fields(old) /\ s = Fields(d) /\ t = Fields(q) /\ f = src.at[x]
  OBVIOUS
<1> HIDE DEF f, r, s, t
\* What the update leaves alone.
<1>6. \A i \in 1 .. Len(s) : ~Matches(s[i], f.name, f.fid) => t[i] = s[i]
  <2> SUFFICES ASSUME NEW i \in 1 .. Len(s), ~Matches(s[i], f.name, f.fid)
               PROVE  t[i] = s[i]
    OBVIOUS
  <2>1. CASE t = s
    BY <2>1
  <2>2. ASSUME NEW k \in 1 .. Len(s), FirstIn(s, f.name, f.fid, k),
               Changed(s, k, Rewritten(s[k], v), t)
        PROVE  t[i] = s[i]
    <3>1. i # k
      BY <2>2 DEF FirstIn
    <3> QED
      BY <2>2, <3>1 DEF Changed
  <2>3. CASE Extended(s, Encode(f.name, f.fid, v), t)
    BY <2>3 DEF Extended
  <2> QED
    BY <1>0, <2>1, <2>2, <2>3 DEF OneUpdate
<1>7. Untouched(src, old, t)
  <2> SUFFICES ASSUME NEW i \in 1 .. Len(r),
                      \A g \in FieldsOf(src) : Key(g) # Key(r[i])
               PROVE  t[i] = r[i]
    BY <1>99 DEF Untouched
  <2>1. i \in 1 .. Len(s) /\ s[i] = r[i]
    BY <1>2, <1>3, <1>99 DEF Merging, Untouched, Grown
  <2>2. ~Matches(s[i], f.name, f.fid)
    BY <1>1, <1>5, <2>1
  <2> QED
    BY <1>6, <2>1, <2>2
<1>8. NewOnesMet(src, M \cup {x}, old, t)
  <2> SUFFICES ASSUME NEW i \in 1 .. Len(t), i > Len(r)
               PROVE  \E o \in M \cup {x} :
                        t[i].name = src.at[o].name /\ t[i].fid = src.at[o].fid
    BY <1>99 DEF NewOnesMet
  <2>1. CASE i \in 1 .. Len(s)
    <3>1. PICK o \in M : s[i].name = src.at[o].name /\ s[i].fid = src.at[o].fid
      BY <2>1, <1>99 DEF Merging, NewOnesMet
    <3> QED
      BY <1>3, <2>1, <3>1 DEF Grown, SameId
  <2>2. CASE i \notin 1 .. Len(s)
    <3>1. Len(t) # Len(s)
      BY <1>2, <2>2
    <3>2. Extended(s, Encode(f.name, f.fid, v), t)
      BY <1>0, <3>1 DEF OneUpdate, Changed
    <3>3. i = Len(s) + 1
      BY <1>2, <2>2, <3>2 DEF Extended
    <3>4. t[i].name = f.name /\ t[i].fid = f.fid
      BY <1>1, <3>2, <3>3 DEF Extended, Encode, StoredName
    <3> QED
      BY <3>4, <1>99
  <2> QED
    BY <2>1, <2>2
\* No other field of the source is found where this one is.
<1>9. ASSUME NEW o \in M, OnlyOne(src.at[o], src)
      PROVE  Key(f) # Key(src.at[o])
  BY <1>9, <1>99 DEF OnlyOne
<1>10. ASSUME NEW o \in M, Due(src.at[o], src, old)  PROVE Delivered(t, src.at[o])
  <2> DEFINE g == src.at[o]
  <2>1. PICK k \in 1 .. Len(s) :
          /\ FirstIn(s, g.name, g.fid, k)
          /\ s[k].data.val = g.data.val /\ DecodedSize(s[k]) = DecodedSize(g)
    BY <1>10, <1>99 DEF Merging, Delivered
  <2>2. g \in FieldsOf(src) /\ Regular(g) /\ Key(f) # Key(g)
    BY <1>9, <1>10 DEF FieldsOf, Mergeable, ByDictionary, Regular, Due
  <2> HIDE DEF g
  <2>3. Key(s[k]) = Key(g)
    BY <1>4, <2>1, <2>2, MatchHasKey DEF FirstIn
  <2>4. t[k] = s[k]
    BY <1>5, <1>6, <2>2, <2>3
  <2>5. FirstIn(t, g.name, g.fid, k)
    BY <1>2, <1>3, <2>1, FirstStays
  <2>7. k \in 1 .. Len(t)
    BY <2>5 DEF FirstIn
  <2>6. Delivered(t, g)
    BY <2>1, <2>4, <2>5, <2>7 DEF Delivered
  <2> QED
    BY <2>6 DEF g
<1>11. ASSUME Due(f, src, old)  PROVE Delivered(t, f)
  <2>1. ~NoIdentity(f.name, f.fid) /\ ~BlankIdentity(f.name, f.fid)
    BY <1>1 DEF Identified, NoIdentity, BlankIdentity
  <2>2. AddStatus(f.name, f.fid, v) = "OK"
    <3>1. v.len \in Nat /\ v.len # 0
      BY <1>11, <1>99, ValueLength DEF Due
    <3> QED
      BY <2>1, <3>1, MaxU32Assumption DEF AddStatus
  <2>3. ASSUME NEW k \in 1 .. Len(s), FirstIn(s, f.name, f.fid, k)
        PROVE  Accepts(s[k], v)
    <3>1. CASE k > Len(r)
      <4>1. PICK o \in M : s[k].name = src.at[o].name /\ s[k].fid = src.at[o].fid
        BY <3>1, <1>99 DEF Merging, NewOnesMet
      <4>2. Key(src.at[o]) = Key(s[k]) /\ Key(s[k]) = Key(f)
        BY <1>5, <2>3, <4>1 DEF Key, FirstIn
      <4> QED
        BY <1>11, <4>1, <4>2, <1>99 DEF Due, OnlyOne
    <3>2. CASE ~(k > Len(r))
      <4>1. FirstIn(r, f.name, f.fid, k) /\ k \in 1 .. Len(r)
        BY <1>2, <1>3, <2>3, <3>2, FirstStays
      <4>2. Found(old, f.name, f.fid)
        BY <4>1, <1>99, NotInOrder DEF GoodMessage, FirstIn
      <4>3. PICK j \in 1 .. Len(r) :
                /\ FirstIn(r, f.name, f.fid, j)
                /\ r[j] = old.at[FirstMatch(old, f.name, f.fid)]
        BY <4>2, <1>99, LookupInOrder DEF GoodMessage
      <4>4. j = k
        BY <1>2, <4>1, <4>3, FirstIsOne
      <4>5. r[k].type = f.type \/ Castable(r[k].type, f.type)
        BY <1>11, <4>2, <4>3, <4>4 DEF Due
      <4> QED
        BY <1>3, <1>99, <4>1, <4>5 DEF Grown, SameId, Accepts
    <3> QED
      BY <3>1, <3>2
  <2>4. ASSUME NEW k \in 1 .. Len(t), FirstIn(t, f.name, f.fid, k), t[k].data = v
        PROVE  Delivered(t, f)
    <3>1. DecodedSize(t[k]) = t[k].data.len
      BY <1>2, StoredSize
    <3> QED
      BY <1>99, <2>4, <3>1 DEF Delivered
  <2>5. ASSUME NEW k \in 1 .. Len(s), FirstIn(s, f.name, f.fid, k),
               Changed(s, k, Rewritten(s[k], v), t)
        PROVE  Delivered(t, f)
    <3>1. FirstIn(t, f.name, f.fid, k)
      BY <1>2, <1>3, <2>5, FirstStays
    <3>2. k \in 1 .. Len(t)
      BY <3>1 DEF FirstIn
    <3>3. t[k].data = v
      BY <1>2, <2>5, RewrittenIs DEF Changed
    <3> QED
      BY <2>4, <3>1, <3>2, <3>3
  <2>6. ASSUME \A i \in 1 .. Len(s) : ~Matches(s[i], f.name, f.fid),
               Extended(s, Encode(f.name, f.fid, v), t)
        PROVE  Delivered(t, f)
    <3> DEFINE k == Len(s) + 1
    <3>1. /\ k \in 1 .. Len(t) /\ t[k] = Encode(f.name, f.fid, v)
          /\ \A i \in 1 .. Len(t) : i < k => i \in 1 .. Len(s) /\ t[i] = s[i]
      BY <1>2, <2>6 DEF Extended
    <3> HIDE DEF k
    <3>2. t[k].data = v /\ t[k].name = f.name /\ t[k].fid = f.fid
      BY <1>1, <3>1 DEF Encode, StoredName
    <3>3. Matches(t[k], f.name, f.fid)
      BY <1>1, <3>2 DEF Matches, Identified
    <3>4. FirstIn(t, f.name, f.fid, k)
      BY <2>6, <3>1, <3>3 DEF FirstIn
    <3> QED
      BY <2>4, <3>1, <3>2, <3>4
  <2> QED
    BY <1>0, <2>1, <2>2, <2>3, <2>5, <2>6 DEF OneUpdate
<1> QED
  BY <1>7, <1>8, <1>10, <1>11, <1>99 DEF Merging

\* A field that can be read passes its own value on.
LEMMA ReadableValue ==
    ASSUME NEW f, Readable(f)
    PROVE  /\ ValueFor(f).type = f.type /\ ValueFor(f).len = DecodedSize(f)
           /\ ValueFor(f).val = f.data.val
BY DEF ValueFor, SubFor

\* The first turn has nothing before it.
LEMMA AInvCalls ==
    ASSUME LInv, NEW m \in Msgs, NEW src \in Msgs, ApplyCall(m, src)
    PROVE  AInv'
<1>1. /\ job' = [kind |-> "apply", dst |-> m, src |-> src,
                 pos |-> HeaderSize(msg[src]), name |-> NoName, sub |-> NoSub,
                 before |-> msg[m]]
      /\ msg' = msg
  BY DEF ApplyCall
<1>2. /\ job'.src = src /\ job'.dst = m /\ job'.pos = HeaderSize(msg[src])
      /\ job'.name = NoName /\ job'.before = msg[m]
  BY <1>1
<1>3. GoodMessage(msg[m])
  BY DEF LInv, Messages
<1>4. Met(src, HeaderSize(msg[src])) = {}
  BY BeginsInPlace
<1>5. Met(job.src, job.pos)' = {}
  BY <1>1, <1>2, <1>4 DEF Met
<1>6. Len(Fields(msg[m])) \in Nat
  BY <1>3, InOrder
<1>7. Grown(Fields(msg[m]), Fields(msg[m]))
  BY <1>6 DEF Grown, SameId
<1>8. Merging(msg[src], {}, msg[m], Fields(msg[m]))
  BY <1>6 DEF Merging, Untouched, NewOnesMet
<1> QED
  BY <1>1, <1>2, <1>3, <1>5, <1>7, <1>8 DEF AInv

LEMMA AInvApplyStep ==
    ASSUME LInv, LInv', AInv, ApplyStep
    PROVE  AInv'
<1> DEFINE src == msg[job.src]
           x   == job.pos
           f   == src.at[x]
           d   == msg[job.dst]
           q   == Applied(d, NameFor(f), f)
           old == job.before
           M   == Met(job.src, x)
<1>1. /\ job # NoJob /\ HasNext /\ ApplyJob /\ Applying
      /\ msg' = [msg EXCEPT ![job.dst] = q]
      /\ job' = [job EXCEPT !.pos = After(src, x), !.name = NameFor(f),
                            !.sub = SubFor(f)]
  BY DEF ApplyStep, Applying, LInv, JobInv, IterateJob
<1>2. /\ job.src \in Msgs /\ job.dst \in Msgs /\ job.dst # job.src
      /\ job.src \in DOMAIN msg /\ job.dst \in DOMAIN msg
  BY <1>1 DEF ApplyJob, LInv, Messages
<1>3. /\ job'.src = job.src /\ job'.dst = job.dst /\ job'.before = old
      /\ job'.pos = After(src, x) /\ job'.name = NameFor(f)
      /\ msg'[job.src] = src /\ msg'[job.dst] = q
  BY <1>1, <1>2 DEF ApplyJob
<1>4. /\ GoodMessage(src) /\ x \in DOMAIN src.at /\ x \in Nat
      /\ Met(job.src, After(src, x)) = M \cup {x}
  BY <1>1, Turn DEF ApplyJob
<1>5. Met(job.src, job.pos)' = M \cup {x}
  BY <1>3, <1>4 DEF Met
<1>6. /\ M \subseteq DOMAIN src.at /\ x \notin M
      /\ \A o \in M : o < x
  BY <1>4 DEF Met
<1>7. GoodMessage(d) /\ GoodMessage(q)
  BY <1>2, <1>3 DEF LInv, Messages
<1>8. /\ GoodMessage(old) /\ Grown(Fields(old), Fields(d))
      /\ job.name # NoName => \E o \in M : src.at[o].name # NoName
      /\ Mergeable(src, old) => Merging(src, M, old, Fields(d))
  BY <1>1 DEF AInv
<1>9. f \in FieldsOf(src)
  BY <1>4 DEF FieldsOf
<1>10. NameFor(f) # NoName => \E o \in M \cup {x} : src.at[o].name # NoName
  BY <1>8 DEF NameFor
<1>11. PassedOn(src) => NameFor(f) = f.name
  BY <1>4, <1>6, <1>8 DEF NameFor, PassedOn
<1>12. /\ f.type \notin AppliedTypes => q = d
       /\ f.type \in AppliedTypes =>
            /\ q = UpdateField(d, NameFor(f), f.fid, ValueFor(f)).buf
            /\ IsInput(ValueFor(f)) /\ ValueFor(f).len <= MaxU32
            /\ ValueFor(f).type = f.type
            /\ OneUpdate(Fields(d), NameFor(f), f.fid, ValueFor(f), Fields(q))
  <2>1. CASE f.type \notin AppliedTypes
    BY <2>1 DEF Applied, AppliedTypes
  <2>2. CASE f.type \in AppliedTypes
    <3>1. q = UpdateField(d, NameFor(f), f.fid, ValueFor(f)).buf
      BY <2>2, UpdateVectorBuf DEF Applied
    <3>2. /\ IsInput(ValueFor(f)) /\ ValueFor(f).len <= MaxU32
          /\ ValueFor(f).type = f.type
      BY <1>1, <1>4, <1>9, <2>2, ValueGood
    <3> HIDE DEF q, d, f
    <3>3. OneUpdate(Fields(d), NameFor(f), f.fid, ValueFor(f), Fields(q))
      BY <1>7, <3>1, <3>2, UpdateInOrder DEF GoodMessage
    <3> QED
      BY <2>2, <3>1, <3>2, <3>3
  <2> QED
    BY <2>1, <2>2
<1>0. f = src.at[x]
  OBVIOUS
<1> HIDE DEF src, x, f, d, q, old, M
<1>13. Grown(Fields(old), Fields(q))
  <2>1. /\ Len(Fields(old)) \in Nat /\ Len(Fields(d)) \in Nat
        /\ Len(Fields(q)) \in Nat
        /\ \A i \in 1 .. Len(Fields(d)) : IsField(Fields(d)[i])
    BY <1>7, <1>8, InOrder
  <2>2. CASE f.type \notin AppliedTypes
    BY <1>8, <1>12, <2>2
  <2>3. CASE f.type \in AppliedTypes
    <3>1. Grown(Fields(d), Fields(q))
      BY <1>12, <2>1, <2>3, GrownOnce
    <3> QED
      BY <1>8, <2>1, <3>1, GrownTwice
  <2> QED
    BY <2>2, <2>3
<1>14. ASSUME Mergeable(src, old)
       PROVE  Merging(src, M \cup {x}, old, Fields(q))
  <2>1. Readable(f) /\ NameFor(f) = f.name
    BY <1>9, <1>11, <1>14 DEF Mergeable, PassedOn
  <2>2. CASE f.type \notin AppliedTypes
    <3>1. Merging(src, M, old, Fields(q))
      BY <1>8, <1>12, <1>14, <2>2
    <3>2. ~Due(src.at[x], src, old)
      BY <1>0, <2>2 DEF Due
    <3> QED
      BY <3>1, <3>2 DEF Merging, NewOnesMet
  <2>3. CASE f.type \in AppliedTypes
    <3> DEFINE v == ValueFor(f)
    <3>1. /\ IsInput(v) /\ v.len <= MaxU32 /\ v.type = f.type
          /\ v.len = DecodedSize(f) /\ v.val = f.data.val
          /\ OneUpdate(Fields(d), f.name, f.fid, v, Fields(q))
      BY <1>12, <2>1, <2>3, ReadableValue
    <3> HIDE DEF v
    <3> QED
      BY <1>0, <1>4, <1>6, <1>7, <1>8, <1>14, <2>3, <3>1, MergeTurn
  <2> QED
    BY <2>2, <2>3
<1> QED
  BY <1>1, <1>3, <1>5, <1>8, <1>10, <1>13, <1>14 DEF AInv, src, q, M, x, old, f

LEMMA AInvNext == LInv /\ LInv' /\ AInv /\ [Next]_vars => AInv'
<1> SUFFICES ASSUME LInv, LInv', AInv, [Next]_vars PROVE AInv'
  OBVIOUS
<1>1. ASSUME NEW m \in Msgs, NEW op, NEW r, Store(m, op, r), ClientRuns
      PROVE  AInv'
  BY <1>1 DEF Store, ClientRuns, AInv, Applying, Iterating
<1>2. ASSUME NEW m \in Msgs, NEW src \in Msgs, ApplyCall(m, src)
      PROVE  AInv'
  BY <1>2, AInvCalls
<1>3. ASSUME NEW m \in Msgs, IterateCall(m) PROVE AInv'
  BY <1>3 DEF IterateCall, AInv, Applying
<1>4. CASE ClientStep
  BY <1>1, <1>2, <1>3, <1>4 DEF ClientStep, Clear, Add, Update
<1>5. CASE ApplyStep
  BY <1>5, AInvApplyStep
<1>6. CASE ApplyReturns \/ IterateReturns
  BY <1>6 DEF ApplyReturns, IterateReturns, AInv, Applying
<1>7. CASE IterateStep \/ CallbackReturns
  <2>1. Iterating /\ ~Applying /\ ~Applying'
    BY <1>7 DEF IterateStep, CallbackReturns, Iterating, Applying, LInv, JobInv,
         ApplyJob, IterateJob
  <2> QED
    BY <2>1 DEF AInv
<1>8. CASE UNCHANGED vars
  BY <1>8 DEF vars, AInv, Applying, Met
<1> QED
  BY <1>4, <1>5, <1>6, <1>7, <1>8 DEF Next, LoopStep

\* When apply is about to return it has met every field.
LEMMA AllMet ==
    ASSUME LInv, ApplyDone
    PROVE  /\ Met(job.src, job.pos) = DOMAIN msg[job.src].at
           /\ GoodMessage(msg[job.src]) /\ GoodMessage(msg[job.dst])
<1>1. /\ job.src \in Msgs /\ job.dst \in Msgs /\ job.pos \in Nat
      /\ job.pos >= msg[job.src].tail \/ ~(job.pos < msg[job.src].tail)
  BY DEF LInv, JobInv, ApplyDone, Applying, ApplyJob, IterateJob, HasNext
<1>2. GoodMessage(msg[job.src]) /\ GoodMessage(msg[job.dst])
  BY <1>1 DEF LInv, Messages
<1>3. \A o \in DOMAIN msg[job.src].at :
          o \in Nat /\ msg[job.src].tail \in Nat /\ o < msg[job.src].tail
  BY <1>2, Offsets DEF GoodMessage
<1> QED
  BY <1>1, <1>2, <1>3 DEF Met

LEMMA AInvDelivers == LInv /\ AInv => ApplyDelivers
<1> SUFFICES ASSUME LInv, AInv, ApplyDone, Mergeable(msg[job.src], job.before),
                    NEW f \in FieldsOf(msg[job.src]),
                    OnlyOne(f, msg[job.src]), f.type \in AppliedTypes,
                    DecodedSize(f) > 0, Welcome(f, job.before)
             PROVE  LET d == msg[job.dst] IN
                    /\ Found(d, f.name, f.fid)
                    /\ LET g == d.at[FirstMatch(d, f.name, f.fid)] IN
                       g.data.val = f.data.val /\ DecodedSize(g) = DecodedSize(f)
  BY DEF ApplyDelivers
<1> DEFINE src == msg[job.src]
           d   == msg[job.dst]
           s   == Fields(d)
<1>1. /\ Met(job.src, job.pos) = DOMAIN src.at
      /\ GoodMessage(src) /\ GoodMessage(d)
  BY AllMet
<1>2. Merging(src, DOMAIN src.at, job.before, s)
  BY <1>1 DEF AInv, ApplyDone
<1>3. Due(f, src, job.before)
  <2>1. Readable(f)
    BY DEF Mergeable, PassedOn
  <2> QED
    BY <2>1, ReadableValue DEF Due, Welcome, Accepts
<1>4. Delivered(s, f)
  BY <1>2, <1>3 DEF Merging, FieldsOf
<1> HIDE DEF src, d
<1>5. PICK k \in 1 .. Len(s) :
        /\ FirstIn(s, f.name, f.fid, k)
        /\ s[k].data.val = f.data.val /\ DecodedSize(s[k]) = DecodedSize(f)
  BY <1>4 DEF Delivered
<1>6. Found(d, f.name, f.fid)
  BY <1>1, <1>5, NotInOrder DEF GoodMessage, FirstIn
<1>7. PICK j \in 1 .. Len(s) :
        /\ FirstIn(s, f.name, f.fid, j)
        /\ s[j] = d.at[FirstMatch(d, f.name, f.fid)]
  BY <1>1, <1>6, LookupInOrder DEF GoodMessage
<1>8. j = k
  <2>1. Len(s) \in Nat
    BY <1>1, InOrder
  <2> QED
    BY <1>5, <1>7, <2>1, FirstIsOne
<1> QED
  BY <1>5, <1>6, <1>7, <1>8 DEF d

LEMMA AInvKeepsRest == LInv /\ AInv => ApplyKeepsRest
<1> SUFFICES ASSUME LInv, AInv, ApplyDone PROVE ApplyKeepsRest
  BY DEF ApplyKeepsRest
<1> DEFINE src == msg[job.src]
           old == Fields(job.before)
           new == Fields(msg[job.dst])
<1>1. /\ GoodMessage(job.before) /\ Grown(old, new)
      /\ Mergeable(src, job.before) =>
            Merging(src, Met(job.src, job.pos), job.before, new)
  BY DEF AInv, ApplyDone
<1>2. DOMAIN old = 1 .. Len(old)
  BY <1>1, InOrder
<1>3. ASSUME NEW i \in DOMAIN old
      PROVE  /\ new[i].type = old[i].type /\ new[i].fid = old[i].fid
             /\ new[i].name = old[i].name
  BY <1>1, <1>2 DEF Grown, SameId
<1>4. ASSUME NEW i \in DOMAIN old, Mergeable(src, job.before),
             \A f \in FieldsOf(src) : Key(f) # Key(old[i])
      PROVE  new[i] = old[i]
  BY <1>1, <1>2, <1>4 DEF Merging, Untouched
<1> QED
  BY <1>1, <1>3, <1>4 DEF ApplyKeepsRest, Grown

-----------------------------------------------------------------------------
(* How a call goes on. *)

\* A turn passes one field and leaves those it has passed where they are.
LEMMA TurnAdvances ==
    ASSUME LInv, job # NoJob, HasNext, msg'[job.src] = msg[job.src],
           job'.src = job.src, job'.pos = After(msg[job.src], job.pos)
    PROVE  /\ job.pos < job'.pos /\ job.pos <= job'.pos
           /\ job'.pos <= msg[job.src].tail
           /\ Passed' = Passed \cup {job.pos}
<1> DEFINE p == msg[job.src]
<1>1. GoodBuffer(p) /\ job.pos \in DOMAIN p.at
  BY Turn DEF GoodMessage
<1>2. /\ job.pos \in Nat /\ DOMAIN p.at \subseteq Nat /\ p.tail \in Nat
      /\ \A o \in DOMAIN p.at : o < p.tail
  BY <1>1, Offsets
<1>3. /\ job.pos < job'.pos /\ job'.pos \in Nat
      /\ job'.pos \in DOMAIN p.at \cup {p.tail}
      /\ \A q \in DOMAIN p.at : q < job'.pos <=> q <= job.pos
  BY <1>1, StepInOrder DEF After
<1> QED
  BY <1>1, <1>2, <1>3 DEF Passed

\* Outside a turn a call in progress stays where it is.
LEMMA NoTurnAdvances ==
    ASSUME LInv, job # NoJob, job' = job,
           \/ msg' = msg
           \/ /\ Iterating
              /\ \E m \in Msgs : \E q :
                    msg' = [msg EXCEPT ![m] = q] /\ MayDisturb(m, q)
    PROVE  Passed' = Passed /\ job.pos <= job'.pos
<1>1. job.src \in Msgs /\ job.pos \in Nat
  BY DEF LInv, JobInv, ApplyJob, IterateJob
<1>2. CASE msg' = msg
  BY <1>1, <1>2 DEF Passed
<1>3. ASSUME NEW m \in Msgs, NEW q, Iterating,
             msg' = [msg EXCEPT ![m] = q], MayDisturb(m, q)
      PROVE  Passed' = Passed
  <2>1. msg'[m] = q /\ \A n \in Msgs \ {m} : msg'[n] = msg[n]
    BY <1>3 DEF LInv, Messages
  <2>2. CASE job.src = m
    BY <1>3, <2>1, <2>2 DEF MayDisturb, Passed
  <2>3. CASE job.src # m
    BY <1>1, <2>1, <2>3 DEF Passed
  <2> QED
    BY <2>2, <2>3
<1> QED
  BY <1>1, <1>2, <1>3

Advances ==
    job # NoJob /\ job' # NoJob =>
        /\ job'.src = job.src
        /\ job.pos <= job'.pos
        /\ job'.pos # job.pos => HasNext /\ Passed' = Passed \cup {job.pos}
        /\ Applying => /\ msg'[job.src] = msg[job.src]
                       /\ job.pos < job'.pos /\ job'.pos <= msg[job.src].tail

LEMMA NextAdvances == LInv /\ Next => Advances
<1> SUFFICES ASSUME LInv, Next, job # NoJob, job' # NoJob
             PROVE  /\ job'.src = job.src
                    /\ job.pos <= job'.pos
                    /\ job'.pos # job.pos => HasNext /\ Passed' = Passed \cup {job.pos}
                    /\ Applying =>
                        /\ msg'[job.src] = msg[job.src]
                        /\ job.pos < job'.pos /\ job'.pos <= msg[job.src].tail
  BY DEF Advances
<1>1. ASSUME NEW m \in Msgs, NEW op, NEW r, Store(m, op, r), ClientRuns
      PROVE  job' = job /\ job.pos <= job'.pos /\ ~Applying
  <2>1. Iterating /\ job' = job /\ msg' = [msg EXCEPT ![m] = r.buf]
        /\ MayDisturb(m, r.buf)
    BY <1>1 DEF Store, ClientRuns
  <2> QED
    BY <2>1, NoTurnAdvances DEF Iterating, Applying
<1>2. CASE ClientStep
  BY <1>1, <1>2 DEF ClientStep, Clear, Add, Update, IterateCall, ApplyCall
<1>3. CASE ApplyStep
  <2>1. /\ HasNext /\ ApplyJob /\ job.dst # job.src
        /\ \E q : msg' = [msg EXCEPT ![job.dst] = q]
        /\ \E nm, sub : job' = [job EXCEPT !.pos = After(msg[job.src], job.pos),
                                           !.name = nm, !.sub = sub]
    BY <1>3 DEF ApplyStep, Applying, LInv, JobInv, ApplyJob, IterateJob
  <2>2. /\ job'.src = job.src /\ job'.pos = After(msg[job.src], job.pos)
        /\ msg'[job.src] = msg[job.src]
    BY <2>1 DEF ApplyJob, LInv, Messages
  <2> QED
    BY <2>1, <2>2, TurnAdvances
<1>4. CASE IterateStep
  <2>1. /\ HasNext /\ IterateJob /\ msg' = msg /\ ~Applying
        /\ job' = [job EXCEPT !.pos = After(msg[job.src], job.pos),
                              !.inCallback = TRUE, !.met = job.met \cup {job.pos}]
    BY <1>4 DEF IterateStep, Iterating, Applying, LInv, JobInv, ApplyJob
  <2>2. /\ job'.src = job.src /\ job'.pos = After(msg[job.src], job.pos)
    BY <2>1 DEF IterateJob
  <2> QED
    BY <2>1, <2>2, TurnAdvances
<1>5. CASE CallbackReturns
  <2>1. /\ IterateJob /\ msg' = msg /\ ~Applying
        /\ job' = [job EXCEPT !.inCallback = FALSE]
    BY <1>5 DEF CallbackReturns, Iterating, Applying, LInv, JobInv, ApplyJob
  <2>2. job'.src = job.src /\ job'.pos = job.pos /\ job.pos \in Nat
    BY <2>1 DEF IterateJob
  <2> QED
    BY <2>1, <2>2
<1>6. CASE ApplyReturns \/ IterateReturns
  BY <1>6 DEF ApplyReturns, IterateReturns
<1> QED
  BY <1>2, <1>3, <1>4, <1>5, <1>6 DEF Next, LoopStep

-----------------------------------------------------------------------------
(* The theorems. *)

LEMMA LInvNext == LInv /\ [Next]_vars => LInv'
<1> SUFFICES ASSUME LInv, [Next]_vars PROVE LInv'
  OBVIOUS
<1>1. CASE ClientStep
  BY <1>1, LInvClear, LInvCalls, LInvAdd, LInvUpdate DEF ClientStep
<1>2. CASE LoopStep
  BY <1>2, LInvApplyStep, LInvIterateStep, LInvReturns, LInvCallbackReturns
     DEF LoopStep
<1>3. CASE UNCHANGED vars
  BY <1>3 DEF vars, LInv, Messages, JobInv, ApplyJob, IterateJob, Place, Met, Left
<1> QED
  BY <1>1, <1>2, <1>3 DEF Next

LEMMA SpecLInv == Spec => []LInv
BY LInvInit, LInvNext, PTL DEF Spec

LEMMA SpecAInv == Spec => []AInv
<1>1. Init => AInv
  BY DEF Init, AInv, Applying
<1> QED
  BY <1>1, SpecLInv, AInvNext, PTL DEF Spec

\* Messages and the call in progress have their types after any calls.
THEOREM LoopTypeCorrect == Spec => []LoopTypeOK
BY SpecLInv, LInvImplies, PTL

\* Applying a message, and whatever callbacks do, leaves messages that can be
\* walked and that fit in what is allocated to them.
THEOREM LoopsStayFramed == Spec => []LoopsFramed
BY SpecLInv, LInvImplies, PTL

\* When iterateFields returns, its callback has been given every field the
\* message has then, and no other.
THEOREM CallbackMeetsAll == Spec => []IterateMeetsAll
BY SpecLInv, LInvImplies, PTL

\* A call in progress stays on its message and does not go back: a turn passes
\* one field, the next, and apply finds its source as it was, nearer to its end
\* after every turn.
THEOREM TurnsGoOn == Spec => TurnsAdvance
<1>1. LInv /\ [Next]_vars => [Advances]_vars
  BY NextAdvances
<1>2. [][Advances]_vars <=> TurnsAdvance
  BY PTL DEF TurnsAdvance, Advances
<1> QED
  BY <1>1, <1>2, SpecLInv, PTL DEF Spec

\* When apply returns, a lookup in the destination finds the value of every
\* field of a source that is passed on as it is.
THEOREM ApplyArrives == Spec => []ApplyDelivers
BY SpecLInv, SpecAInv, AInvDelivers, PTL

\* Whatever is applied, what was in the destination stays, in its order and
\* under its identity, and what the source has no value for keeps its own.
THEOREM ApplyLeavesRest == Spec => []ApplyKeepsRest
BY SpecLInv, SpecAInv, AInvKeepsRest, PTL

-----------------------------------------------------------------------------
(* The loops implement the calls of OmnmMerge: the same words first.       *)

LEMMA SameWords ==
    /\ \A f, name, fid : Merge!Matches(f, name, fid) <=> Matches(f, name, fid)
    /\ \A from, to : Merge!Castable(from, to) <=> Castable(from, to)
BY DEF Merge!Matches, Matches, Merge!Castable, Castable,
       Merge!FixedWidthTypes, FixedWidthTypes, Merge!OneByteTypes, OneByteTypes,
       Merge!TwoByteTypes, TwoByteTypes, Merge!FourByteTypes, FourByteTypes,
       Merge!EightByteTypes, EightByteTypes

\* A field that is appended is seen as the merge has it.
LEMMA SameField ==
    ASSUME NEW name, NEW fid, NEW in
    PROVE  AsSeen(Encode(name, fid, in)) = Merge!Field(name, fid, in)
BY DEF AsSeen, Encode, Merge!Field, Merge!StoredName, StoredName

\* The lookup that walks the buffer finds the first field that matches.
LEMMA SameFirst ==
    ASSUME NEW p, GoodBuffer(p), NEW e, NEW n, Lists(e, n, p),
           NEW name, NEW fid
    PROVE  /\ Found(p, name, fid) <=> Merge!Hits(SeenFields(p), name, fid) # {}
           /\ Found(p, name, fid) =>
                LET k == Merge!First(SeenFields(p), name, fid)
                IN  k \in 1 .. n /\ e[k] = FirstMatch(p, name, fid)
<1> DEFINE H == Merge!Hits(SeenFields(p), name, fid)
<1>1. H = {i \in DOMAIN SeenFields(p) : Matches(SeenFields(p)[i], name, fid)}
  BY SameWords DEF Merge!Hits
<1>2. Merge!First(SeenFields(p), name, fid) =
        CHOOSE i \in H : \A j \in H : i <= j
  BY DEF Merge!First
<1> HIDE DEF H
<1>3. /\ Found(p, name, fid) <=> H # {}
      /\ Found(p, name, fid) =>
            LET k == CHOOSE i \in H : \A j \in H : i <= j
            IN  k \in 1 .. n /\ e[k] = FirstMatch(p, name, fid)
  BY <1>1, FirstListed
<1> QED
  BY <1>2, <1>3 DEF H

\* An update of a buffer, found or not, refused or not, is the update of the
\* sequence of its fields.
LEMMA SameUpdate ==
    ASSUME NEW p, GoodBuffer(p), NEW name, NEW fid,
           ~NoIdentity(name, fid), ~BlankIdentity(name, fid),
           NEW in, IsInput(in), in.len <= MaxU32
    PROVE  LET r == UpdateField(p, name, fid, in)
               s == SeenFields(p)
           IN  /\ SeenFields(r.buf) = Merge!Updated(s, name, fid, in)
               /\ Merge!Refuses(s, name, fid, in) => r.status = "WRONG_FIELD_TYPE"
               /\ ~Merge!Refuses(s, name, fid, in) /\ in.len # 0 =>
                    r.status = "OK"
<1> DEFINE r == UpdateField(p, name, fid, in)
           s == SeenFields(p)
<1>1. PICK e, n : Lists(e, n, p)
  BY GoodListing
<1>2. Found(p, name, fid) <=> Merge!Hits(s, name, fid) # {}
  BY <1>1, SameFirst
<1>3. CASE Found(p, name, fid)
  <2> DEFINE o == FirstMatch(p, name, fid)
             k == Merge!First(s, name, fid)
  <2>1. k \in 1 .. n /\ e[k] = o
    BY <1>1, <1>3, SameFirst
  <2>2. s[k] = AsSeen(p.at[o])
    BY <1>1, <2>1, SeenThrough
  <2>3. Merge!Refuses(s, name, fid, in) <=> ~Accepts(p.at[o], in)
    BY <1>2, <1>3, <2>2, SameWords DEF Merge!Refuses, Merge!Fits, Accepts, AsSeen
  <2>4. r = UpdateAt(p, o, in)
    BY <1>3 DEF UpdateField
  <2>0. \A j \in 1 .. n :
            SeenFields(Replaced(p, e[j], in)) = [s EXCEPT ![j].data = in]
    BY <1>1, ReplacedSeen
  <2>5. SeenFields(Replaced(p, e[k], in)) = [s EXCEPT ![k].data = in]
    BY <2>0, <2>1
  <2> HIDE DEF o, k, r, s
  <2>6. CASE Accepts(p.at[o], in)
    <3>1. r.buf = Replaced(p, o, in) /\ r.status = "OK"
      BY <2>4, <2>6 DEF UpdateAt, Outcome
    <3>2. Merge!Updated(s, name, fid, in) = [s EXCEPT ![k].data = in]
      BY <1>2, <1>3, <2>3, <2>6 DEF Merge!Updated, k
    <3> QED
      BY <2>1, <2>3, <2>5, <2>6, <3>1, <3>2 DEF r, s
  <2>7. CASE ~Accepts(p.at[o], in)
    <3>1. r.buf = p /\ r.status = "WRONG_FIELD_TYPE"
      BY <2>4, <2>7 DEF UpdateAt, Outcome
    <3>2. Merge!Updated(s, name, fid, in) = s
      BY <2>3, <2>7 DEF Merge!Updated
    <3> QED
      BY <2>3, <2>7, <3>1, <3>2 DEF r, s
  <2> QED
    BY <2>6, <2>7
<1>4. CASE ~Found(p, name, fid)
  <2>1. r = AddField(p, name, fid, in)
    BY <1>4 DEF UpdateField
  <2>2. ~Merge!Refuses(s, name, fid, in) /\ Merge!Hits(s, name, fid) = {}
    BY <1>2, <1>4 DEF Merge!Refuses
  <2>3. in.len \in Nat /\ in.len <= MaxU32 /\ MaxU32 \in Nat
    BY ValueLength, MaxU32Assumption
  <2> HIDE DEF r, s
  <2>4. CASE in.len = 0
    <3>1. AddStatus(name, fid, in) # "OK"
      BY <2>3, <2>4 DEF AddStatus
    <3>2. r.buf = p
      BY <2>1, <3>1 DEF AddField, Outcome
    <3>3. Merge!Updated(s, name, fid, in) = s
      BY <2>2, <2>4 DEF Merge!Updated
    <3> QED
      BY <2>2, <2>4, <3>2, <3>3 DEF r, s
  <2>5. CASE in.len # 0
    <3>1. AddStatus(name, fid, in) = "OK"
      BY <2>3, <2>5 DEF AddStatus
    <3>2. r.buf = Appended(p, Encode(name, fid, in)) /\ r.status = "OK"
      BY <2>1, <3>1 DEF AddField, Outcome
    <3>3. Merge!Updated(s, name, fid, in) = Append(s, Merge!Field(name, fid, in))
      BY <2>2, <2>5 DEF Merge!Updated
    <3>4. SeenFields(Appended(p, Encode(name, fid, in)))
            = Append(s, AsSeen(Encode(name, fid, in)))
      BY AppendedSeen DEF s
    <3> QED
      BY <2>2, <3>2, <3>3, <3>4, SameField DEF r, s
  <2> QED
    BY <2>4, <2>5
<1> QED
  BY <1>3, <1>4

-----------------------------------------------------------------------------
(* What the loop carries from one field to the next.                       *)

\* The last of some places is the last of fewer, or the one that was added.
LEMMA LastIs ==
    ASSUME NEW k \in Nat, NEW K, K \subseteq 1 .. k + 1, k + 1 \in K
    PROVE  Merge!Last(K) = k + 1
<1>1. \A j \in K : j <= k + 1 /\ j \in Nat
  OBVIOUS
<1>2. \A i \in K : (\A j \in K : j <= i) => i = k + 1
  BY <1>1
<1> QED
  BY <1>1, <1>2, Zenon DEF Merge!Last

LEMMA NoneNamed == ASSUME NEW s PROVE Merge!NameAt(s, 0) = NoName
BY DEF Merge!NameAt, Merge!Named

LEMMA NamedNext ==
    ASSUME NEW s, NEW k \in Nat
    PROVE  Merge!NameAt(s, k + 1) =
                IF s[k + 1].name = NoName THEN Merge!NameAt(s, k)
                ELSE s[k + 1].name
<1>1. CASE s[k + 1].name = NoName
  <2>1. Merge!Named(s, k + 1) = Merge!Named(s, k)
    BY <1>1 DEF Merge!Named
  <2> QED
    BY <1>1, <2>1 DEF Merge!NameAt
<1>2. CASE s[k + 1].name # NoName
  <2>1. /\ Merge!Named(s, k + 1) \subseteq 1 .. k + 1
        /\ k + 1 \in Merge!Named(s, k + 1)
    BY <1>2 DEF Merge!Named
  <2>2. Merge!Last(Merge!Named(s, k + 1)) = k + 1
    BY <2>1, LastIs
  <2> QED
    BY <1>2, <2>1, <2>2 DEF Merge!NameAt
<1> QED
  BY <1>1, <1>2

\* A sub-message that can be read, as the sequence has it.
CanRead(f) == f.type = "MSG" /\ f.data.val \notin Unreadable

LEMMA NoneRead == ASSUME NEW s PROVE Merge!ReadSubs(s, 0) = {}
BY DEF Merge!ReadSubs

LEMMA ReadNext ==
    ASSUME NEW s, NEW k \in Nat
    PROVE  /\ CanRead(s[k + 1]) => /\ Merge!SubAt(s, k + 1) = Merge!Value(s[k + 1])
                                   /\ Merge!ReadSubs(s, k + 1) # {}
           /\ ~CanRead(s[k + 1]) =>
                /\ Merge!ReadSubs(s, k + 1) = Merge!ReadSubs(s, k)
                /\ Merge!SubAt(s, k + 1) = Merge!SubAt(s, k)
<1>1. CASE ~CanRead(s[k + 1])
  <2>1. Merge!ReadSubs(s, k + 1) = Merge!ReadSubs(s, k)
    BY <1>1 DEF Merge!ReadSubs, CanRead
  <2> QED
    BY <1>1, <2>1 DEF Merge!SubAt
<1>2. CASE CanRead(s[k + 1])
  <2>1. /\ Merge!ReadSubs(s, k + 1) \subseteq 1 .. k + 1
        /\ k + 1 \in Merge!ReadSubs(s, k + 1)
    BY <1>2 DEF Merge!ReadSubs, CanRead
  <2>2. Merge!Last(Merge!ReadSubs(s, k + 1)) = k + 1
    BY <2>1, LastIs
  <2> QED
    BY <1>2, <2>1, <2>2 DEF Merge!SubAt
<1> QED
  BY <1>1, <1>2

\* r goes through the merge of the first k fields of s into t.
MergesTo(r, t, s, k) ==
    r = [j \in 0 .. k |-> IF j = 0 THEN t ELSE Merge!MergedOne(r[j - 1], s, j)]

LEMMA MergesNone ==
    ASSUME NEW t, NEW s
    PROVE  \E r : MergesTo(r, t, s, 0) /\ r[0] = t
<1> DEFINE r == [j \in 0 .. 0 |-> t]
<1>1. MergesTo(r, t, s, 0) /\ r[0] = t
  BY DEF MergesTo
<1> QED
  BY <1>1

LEMMA MergesMore ==
    ASSUME NEW r, NEW t, NEW s, NEW k \in Nat, MergesTo(r, t, s, k),
           NEW u, u = Merge!MergedOne(r[k], s, k + 1)
    PROVE  \E r2 : MergesTo(r2, t, s, k + 1) /\ r2[k + 1] = u
<1> DEFINE r2 == [j \in 0 .. k + 1 |-> IF j = k + 1 THEN u ELSE r[j]]
<1>1. \A j \in 0 .. k :
        r[j] = IF j = 0 THEN t ELSE Merge!MergedOne(r[j - 1], s, j)
  BY Zenon DEF MergesTo
<1>2. \A j \in 0 .. k + 1 :
        r2[j] = IF j = 0 THEN t ELSE Merge!MergedOne(r2[j - 1], s, j)
  <2> SUFFICES ASSUME NEW j \in 0 .. k + 1
               PROVE  r2[j] = IF j = 0 THEN t ELSE Merge!MergedOne(r2[j - 1], s, j)
    OBVIOUS
  <2>1. CASE j = k + 1
    <3>1. j # 0 /\ j - 1 = k /\ k \in 0 .. k + 1 /\ k # k + 1
      BY <2>1
    <3>2. r2[j] = u /\ r2[k] = r[k]
      BY <2>1, <3>1
    <3> HIDE DEF r2
    <3> QED
      BY <2>1, <3>1, <3>2
  <2>2. CASE j # k + 1
    <3>1. j \in 0 .. k /\ r2[j] = r[j]
      BY <2>2
    <3>2. CASE j = 0
      BY <1>1, <3>1, <3>2
    <3>3. CASE j # 0
      <4>1. j - 1 \in 0 .. k + 1 /\ j - 1 # k + 1
        BY <2>2, <3>3
      <4>2. r2[j - 1] = r[j - 1]
        BY <4>1
      <4> HIDE DEF r2
      <4> QED
        BY <1>1, <3>1, <3>3, <4>2
    <3> QED
      BY <3>2, <3>3
  <2> QED
    BY <2>1, <2>2
<1>3. r2 = [j \in 0 .. k + 1 |-> r2[j]]
  OBVIOUS
<1>4. r2[k + 1] = u
  OBVIOUS
<1> HIDE DEF r2
<1>5. MergesTo(r2, t, s, k + 1)
  BY <1>2, <1>3, Zenon DEF MergesTo
<1> QED
  BY <1>4, <1>5

\* A merge that has met every field is the one OmnmMerge defines.
LEMMA MergedIs ==
    ASSUME NEW r, NEW t, NEW s, Len(s) \in Nat, MergesTo(r, t, s, Len(s))
    PROVE  Merge!Merged(t, s) = r[Len(s)]
<1> DEFINE n == Len(s)
           merged == CHOOSE f : MergesTo(f, t, s, n)
           Bad == {j \in 0 .. n : merged[j] # r[j]}
<1>1. MergesTo(merged, t, s, n)
  BY Zenon
<1>2. \A j \in 0 .. n :
        merged[j] = IF j = 0 THEN t ELSE Merge!MergedOne(merged[j - 1], s, j)
  BY <1>1, Zenon DEF MergesTo
<1>3. \A j \in 0 .. n : r[j] = IF j = 0 THEN t ELSE Merge!MergedOne(r[j - 1], s, j)
  BY Zenon DEF MergesTo
<1>4. Merge!Merged(t, s) = merged[n]
  BY Zenon DEF Merge!Merged, MergesTo
<1> HIDE DEF merged
<1>5. Bad = {}
  <2> SUFFICES ASSUME Bad # {} PROVE FALSE
    OBVIOUS
  <2>1. Bad \in SUBSET Nat
    OBVIOUS
  <2>2. PICK j \in Bad : \A i \in Bad : j <= i
    <3> HIDE DEF Bad
    <3> QED
      BY <2>1, FirstOffset
  <2>3. j \in 0 .. n /\ merged[j] # r[j]
    BY <2>2
  <2>4. CASE j = 0
    BY <1>2, <1>3, <2>3, <2>4
  <2>5. CASE j # 0
    <3>1. j - 1 \in 0 .. n /\ ~(j <= j - 1)
      BY <2>3, <2>5
    <3>2. merged[j - 1] = r[j - 1]
      BY <2>2, <3>1
    <3> QED
      BY <1>2, <1>3, <2>3, <2>5, <3>2
  <2> QED
    BY <2>4, <2>5
<1> QED
  BY <1>4, <1>5

-----------------------------------------------------------------------------
(* Where apply is in the merge.                                            *)

\* The values that stand for none are no call of apply and no sub-message.
NoneIsApart ==
    /\ \A dst, src, pos, name, sub, before :
        NoJob # [kind |-> "apply", dst |-> dst, src |-> src, pos |-> pos,
                 name |-> name, sub |-> sub, before |-> before]
    /\ \A len, val : NoSub # [type |-> "MSG", len |-> len, val |-> val]

\* The offset of the k-th field that e lists, or where the fields end.
PlaceAt(p, e, n, k) == IF k <= n THEN e[k] ELSE p.tail

\* The loop carries what the merge does behind the first k fields of s.
Carries(s, k) ==
    /\ job.name = Merge!NameAt(s, k) /\ job.name # EmptyName
    /\ job.sub = NoSub => Merge!ReadSubs(s, k) = {}
    /\ job.sub # NoSub => job.sub = Merge!SubAt(s, k)

MergedSoFar(s, k) ==
    \E r : /\ MergesTo(r, SeenFields(job.before), s, k)
           /\ r[k] = SeenFields(msg[job.dst])

MInv ==
    Applying =>
        LET src == msg[job.src]
            s   == SeenFields(src)
        IN  \E e, n : /\ Lists(e, n, src)
                      /\ \E k \in 0 .. n : /\ job.pos = PlaceAt(src, e, n, k + 1)
                                           /\ Carries(s, k) /\ MergedSoFar(s, k)

LEMMA FirstPlace ==
    ASSUME NEW p, GoodBuffer(p), NEW e, NEW n, Lists(e, n, p)
    PROVE  HeaderSize(p) = PlaceAt(p, e, n, 1)
<1>1. /\ n \in Nat /\ \A i \in 1 .. n : e[i] \in DOMAIN p.at
      /\ \A i, j \in 1 .. n : i < j => e[i] < e[j]
      /\ \A o \in DOMAIN p.at : \E i \in 1 .. n : e[i] = o
      /\ DOMAIN p.at \subseteq Nat
  BY DEF Lists, Listing
<1>2. /\ HeaderSize(p) \in DOMAIN p.at \cup {p.tail}
      /\ \A o \in DOMAIN p.at : HeaderSize(p) <= o /\ o < p.tail
      /\ HeaderSize(p) \in Nat /\ p.tail \in Nat
  BY Offsets
<1>3. CASE n = 0
  BY <1>1, <1>2, <1>3 DEF PlaceAt
<1>4. CASE n # 0
  <2>1. 1 \in 1 .. n
    BY <1>1, <1>4
  <2>2. e[1] \in DOMAIN p.at /\ HeaderSize(p) <= e[1] /\ e[1] < p.tail /\ e[1] \in Nat
    BY <1>1, <1>2, <2>1
  <2>3. HeaderSize(p) \in DOMAIN p.at
    BY <1>2, <2>2
  <2>4. PICK i \in 1 .. n : e[i] = HeaderSize(p)
    BY <1>1, <2>3
  <2>5. i = 1
    BY <1>1, <2>1, <2>2, <2>4
  <2> QED
    BY <1>1, <2>1, <2>4, <2>5 DEF PlaceAt
<1> QED
  BY <1>3, <1>4

LEMMA NextPlace ==
    ASSUME NEW p, GoodBuffer(p), NEW e, NEW n, Lists(e, n, p), NEW k \in 1 .. n
    PROVE  After(p, e[k]) = PlaceAt(p, e, n, k + 1)
<1> DEFINE x == After(p, e[k])
<1>1. /\ n \in Nat /\ \A i \in 1 .. n : e[i] \in DOMAIN p.at
      /\ \A i, j \in 1 .. n : i < j => e[i] < e[j]
      /\ \A o \in DOMAIN p.at : \E i \in 1 .. n : e[i] = o
      /\ DOMAIN p.at \subseteq Nat
  BY DEF Lists, Listing
<1>2. /\ p.tail \in Nat /\ \A o \in DOMAIN p.at : o < p.tail
  BY Offsets
<1>3. /\ x \in DOMAIN p.at \cup {p.tail} /\ x \in Nat /\ e[k] < x
      /\ \A q \in DOMAIN p.at : q < x <=> q <= e[k]
  BY <1>1, StepInOrder DEF After
<1> HIDE DEF x
<1>4. CASE k = n
  <2>1. x \notin DOMAIN p.at
    <3> SUFFICES ASSUME x \in DOMAIN p.at PROVE FALSE
      OBVIOUS
    <3>1. PICK i \in 1 .. n : e[i] = x
      BY <1>1
    <3>2. i = k \/ i < k
      BY <1>1, <1>4, <3>1
    <3>3. e[k] \in Nat
      BY <1>1
    <3> QED
      BY <1>1, <1>3, <3>1, <3>2, <3>3
  <2> QED
    BY <1>1, <1>3, <1>4, <2>1 DEF x, PlaceAt
<1>5. CASE k # n
  <2>1. k + 1 \in 1 .. n /\ k < k + 1 /\ k + 1 <= n
    BY <1>1, <1>5
  <2>2. e[k + 1] \in DOMAIN p.at /\ e[k] < e[k + 1] /\ e[k] \in Nat /\ e[k + 1] \in Nat
    BY <1>1, <2>1
  <2>3. ~(e[k + 1] < x) /\ e[k + 1] < p.tail
    BY <1>2, <1>3, <2>2
  <2>4. x \in DOMAIN p.at
    BY <1>2, <1>3, <2>2, <2>3
  <2>5. PICK i \in 1 .. n : e[i] = x
    BY <1>1, <2>4
  <2>6. ~(i < k) /\ i # k
    <3>1. e[i] \in Nat
      BY <1>1
    <3> QED
      BY <1>1, <1>3, <2>2, <2>5, <3>1
  <2>7. ~(k + 1 < i)
    <3> SUFFICES ASSUME k + 1 < i PROVE FALSE
      OBVIOUS
    <3>1. e[k + 1] < e[i]
      BY <1>1, <2>1
    <3> QED
      BY <2>3, <2>5, <3>1
  <2>8. i = k + 1
    BY <2>6, <2>7
  <2> QED
    BY <2>1, <2>5, <2>8 DEF x, PlaceAt
<1> QED
  BY <1>4, <1>5

\* A loop is at the end when it has met every field, and not before.
LEMMA LastPlace ==
    ASSUME NEW p, GoodBuffer(p), NEW e, NEW n, Lists(e, n, p), NEW k \in 0 .. n
    PROVE  PlaceAt(p, e, n, k + 1) < p.tail <=> k # n
<1>1. n \in Nat /\ \A i \in 1 .. n : e[i] \in DOMAIN p.at
  BY DEF Lists, Listing
<1>2. /\ p.tail \in Nat /\ \A o \in DOMAIN p.at : o < p.tail
  BY Offsets
<1>3. CASE k = n
  BY <1>1, <1>2, <1>3 DEF PlaceAt
<1>4. CASE k # n
  <2>1. k + 1 \in 1 .. n /\ k + 1 <= n
    BY <1>1, <1>4
  <2> QED
    BY <1>1, <1>2, <1>4, <2>1 DEF PlaceAt
<1> QED
  BY <1>3, <1>4

\* What the loop passes on of the next field is what the merge does.
LEMMA CarriesOn ==
    ASSUME NoneIsApart, NEW f, IsField(f), DecodedSize(f) = f.data.len,
           NEW s, NEW k \in Nat, s[k + 1] = AsSeen(f), Carries(s, k)
    PROVE  /\ NameFor(f) = Merge!NameAt(s, k + 1) /\ NameFor(f) # EmptyName
           /\ SubFor(f) = NoSub => Merge!ReadSubs(s, k + 1) = {}
           /\ SubFor(f) # NoSub => SubFor(f) = Merge!SubAt(s, k + 1)
           /\ f.type = "MSG" => SubFor(f) # NoSub
           /\ ValueFor(f) = Merge!ValueAt(s, k + 1)
<1>1. /\ s[k + 1].name = f.name /\ s[k + 1].type = f.type
      /\ s[k + 1].data = f.data /\ s[k + 1].fid = f.fid
      /\ f.name # EmptyName
  BY DEF AsSeen, IsField
<1>2. NameFor(f) = Merge!NameAt(s, k + 1) /\ NameFor(f) # EmptyName
  BY <1>1, NamedNext DEF Carries, NameFor
<1>3. Merge!Value(s[k + 1]) = [type |-> f.type, len |-> DecodedSize(f), val |-> f.data.val]
  BY <1>1 DEF Merge!Value
<1>4. CanRead(s[k + 1]) <=> f.type = "MSG" /\ Readable(f)
  BY <1>1 DEF CanRead, Readable
<1>5. /\ SubFor(f) = NoSub => Merge!ReadSubs(s, k + 1) = {}
      /\ SubFor(f) # NoSub => SubFor(f) = Merge!SubAt(s, k + 1)
      /\ f.type = "MSG" => SubFor(f) # NoSub
  <2>1. CASE f.type = "MSG" /\ Readable(f)
    <3>1. SubFor(f) = [type |-> "MSG", len |-> DecodedSize(f), val |-> f.data.val]
      BY <2>1 DEF SubFor
    <3>2. SubFor(f) # NoSub
      BY <3>1 DEF NoneIsApart
    <3>3. SubFor(f) = Merge!SubAt(s, k + 1)
      BY <1>3, <1>4, <2>1, <3>1, ReadNext
    <3> QED
      BY <3>2, <3>3
  <2>2. CASE f.type = "MSG" /\ ~Readable(f) /\ job.sub = NoSub
    <3>1. SubFor(f) = [type |-> "MSG", len |-> HeaderV1Size, val |-> EmptyMsg]
      BY <2>2 DEF SubFor
    <3>2. SubFor(f) # NoSub
      BY <3>1 DEF NoneIsApart
    <3>3. Merge!ReadSubs(s, k + 1) = {}
      BY <1>4, <2>2, ReadNext DEF Carries
    <3>4. Merge!SubAt(s, k + 1) = SubFor(f)
      BY <3>1, <3>3 DEF Merge!SubAt
    <3> QED
      BY <3>2, <3>4
  <2>3. CASE f.type # "MSG" \/ (~Readable(f) /\ job.sub # NoSub)
    <3>1. SubFor(f) = job.sub
      BY <2>3 DEF SubFor
    <3>2. ~CanRead(s[k + 1])
      BY <1>4, <2>3
    <3> QED
      BY <2>3, <3>1, <3>2, ReadNext DEF Carries
  <2> QED
    BY <2>1, <2>2, <2>3
<1>6. ValueFor(f) = Merge!ValueAt(s, k + 1)
  BY <1>1, <1>3, <1>5 DEF ValueFor, Merge!ValueAt
<1> QED
  BY <1>2, <1>5, <1>6

\* One turn of the loop is one field of the merge.
LEMMA AppliedIs ==
    ASSUME NoneIsApart, ApplyJob, NEW p, GoodMessage(p), NEW f \in FieldsOf(p),
           NEW d, GoodMessage(d),
           NEW s, NEW k \in Nat, s[k + 1] = AsSeen(f), Carries(s, k)
    PROVE  SeenFields(Applied(d, NameFor(f), f))
                = Merge!MergedOne(SeenFields(d), s, k + 1)
<1>1. IsField(f) /\ DecodedSize(f) = f.data.len
  BY StoredSize
<1>2. s[k + 1].type = f.type /\ s[k + 1].fid = f.fid
  BY DEF AsSeen
<1>3. CASE f.type \notin AppliedTypes
  <2>1. Applied(d, NameFor(f), f) = d
    BY <1>3 DEF Applied, AppliedTypes
  <2> QED
    BY <1>2, <1>3, <2>1 DEF Merge!MergedOne
<1>4. CASE f.type \in AppliedTypes
  <2> DEFINE v  == ValueFor(f)
             nm == NameFor(f)
  <2>1. Applied(d, nm, f) = UpdateField(d, nm, f.fid, v).buf
    BY <1>4, UpdateVectorBuf DEF Applied
  <2>2. IsInput(v) /\ v.len <= MaxU32
    BY <1>4, ValueGood
  <2>3. /\ nm = Merge!NameAt(s, k + 1) /\ nm # EmptyName
        /\ v = Merge!ValueAt(s, k + 1)
    BY <1>1, CarriesOn
  <2>4. ~NoIdentity(nm, f.fid) /\ ~BlankIdentity(nm, f.fid)
    <3>1. nm = NoName => f.fid # 0
      BY DEF GoodMessage, Identified, NameFor
    <3> QED
      BY <2>3, <3>1 DEF NoIdentity, BlankIdentity
  <2> HIDE DEF v, nm
  <2>5. SeenFields(UpdateField(d, nm, f.fid, v).buf)
          = Merge!Updated(SeenFields(d), nm, f.fid, v)
    BY <2>2, <2>4, SameUpdate DEF GoodMessage
  <2>6. Merge!MergedOne(SeenFields(d), s, k + 1)
          = Merge!Updated(SeenFields(d), nm, f.fid, v)
    BY <1>2, <1>4, <2>3 DEF Merge!MergedOne
  <2> QED
    BY <2>1, <2>5, <2>6 DEF nm
<1> QED
  BY <1>3, <1>4

LEMMA MInvCalls ==
    ASSUME LInv, NEW m \in Msgs, NEW src \in Msgs, ApplyCall(m, src)
    PROVE  MInv'
<1>1. /\ job' = [kind |-> "apply", dst |-> m, src |-> src,
                 pos |-> HeaderSize(msg[src]), name |-> NoName, sub |-> NoSub,
                 before |-> msg[m]]
      /\ msg' = msg
  BY DEF ApplyCall
<1>2. /\ job'.src = src /\ job'.dst = m /\ job'.pos = HeaderSize(msg[src])
      /\ job'.name = NoName /\ job'.before = msg[m] /\ job'.sub = NoSub
  BY <1>1
<1> DEFINE s == SeenFields(msg[src])
           t == SeenFields(msg[m])
<1>3. GoodBuffer(msg[src])
  BY DEF LInv, Messages, GoodMessage
<1>4. PICK e, n : Lists(e, n, msg[src])
  BY <1>3, GoodListing
<1>5. 0 \in 0 .. n
  BY <1>4 DEF Lists, Listing
<1>6. HeaderSize(msg[src]) = PlaceAt(msg[src], e, n, 0 + 1)
  BY <1>3, <1>4, FirstPlace
<1>7. /\ NoName = Merge!NameAt(s, 0) /\ NoName # EmptyName
      /\ Merge!ReadSubs(s, 0) = {}
  BY NoneNamed, NoneRead, NamesAssumption
<1>8. \E r : MergesTo(r, t, s, 0) /\ r[0] = t
  BY MergesNone
<1> HIDE DEF s, t
<1>9. Carries(s, 0)'
  BY <1>1, <1>2, <1>7 DEF Carries, s
<1>10. MergedSoFar(s, 0)'
  <2>1. SeenFields(job.before)' = t /\ SeenFields(msg[job.dst])' = t
    BY <1>1, <1>2 DEF t
  <2> QED
    BY <1>1, <1>8, <2>1 DEF MergedSoFar, s
<1> QED
  BY <1>1, <1>2, <1>4, <1>5, <1>6, <1>9, <1>10 DEF MInv, s

LEMMA MInvApplyStep ==
    ASSUME NoneIsApart, LInv, MInv, ApplyStep
    PROVE  MInv'
<1> DEFINE src == msg[job.src]
           x   == job.pos
           f   == src.at[x]
           d   == msg[job.dst]
           q   == Applied(d, NameFor(f), f)
           s   == SeenFields(src)
<1>1. /\ job # NoJob /\ HasNext /\ ApplyJob /\ Applying
      /\ msg' = [msg EXCEPT ![job.dst] = q]
      /\ job' = [job EXCEPT !.pos = After(src, x), !.name = NameFor(f),
                            !.sub = SubFor(f)]
  BY DEF ApplyStep, Applying, LInv, JobInv, IterateJob
<1>2. /\ job.src \in Msgs /\ job.dst \in Msgs /\ job.dst # job.src
      /\ job.src \in DOMAIN msg /\ job.dst \in DOMAIN msg
  BY <1>1 DEF ApplyJob, LInv, Messages
<1>3. /\ job'.src = job.src /\ job'.dst = job.dst /\ job'.before = job.before
      /\ job'.pos = After(src, x) /\ job'.name = NameFor(f)
      /\ job'.sub = SubFor(f) /\ msg'[job.src] = src /\ msg'[job.dst] = q
  BY <1>1, <1>2 DEF ApplyJob
<1>4. GoodMessage(src) /\ GoodBuffer(src) /\ x \in DOMAIN src.at
  BY <1>1, Turn DEF GoodMessage
<1>5. GoodMessage(d)
  BY <1>2 DEF LInv, Messages
<1>0. PICK e, n :
        /\ Lists(e, n, src)
        /\ \E k \in 0 .. n : /\ x = PlaceAt(src, e, n, k + 1)
                             /\ Carries(s, k) /\ MergedSoFar(s, k)
  BY <1>1 DEF MInv
<1>6. PICK k \in 0 .. n :
        /\ Lists(e, n, src) /\ x = PlaceAt(src, e, n, k + 1)
        /\ Carries(s, k) /\ MergedSoFar(s, k)
  BY <1>0
<1>7. /\ n \in Nat /\ k \in Nat /\ k + 1 \in 1 .. n /\ k + 1 \in 0 .. n
      /\ x = e[k + 1]
  <2>1. PlaceAt(src, e, n, k + 1) < src.tail <=> k # n
    BY <1>4, <1>6, LastPlace
  <2>2. PlaceAt(src, e, n, k + 1) < src.tail
    BY <1>1, <1>6 DEF HasNext
  <2>3. n \in Nat
    BY <1>6 DEF Lists, Listing
  <2> QED
    BY <1>6, <2>1, <2>2, <2>3 DEF PlaceAt
<1>8. s[k + 1] = AsSeen(f)
  BY <1>6, <1>7, SeenThrough
<1>9. f \in FieldsOf(src)
  BY <1>4 DEF FieldsOf
<1>10. IsField(f) /\ DecodedSize(f) = f.data.len
  BY <1>4, <1>9, StoredSize
<1>11. After(src, x) = PlaceAt(src, e, n, (k + 1) + 1)
  BY <1>4, <1>6, <1>7, NextPlace
<1> HIDE DEF f, s
<1>12. SeenFields(q) = Merge!MergedOne(SeenFields(d), s, k + 1)
  BY <1>1, <1>4, <1>5, <1>6, <1>7, <1>8, <1>9, AppliedIs
<1>13. /\ NameFor(f) = Merge!NameAt(s, k + 1) /\ NameFor(f) # EmptyName
       /\ SubFor(f) = NoSub => Merge!ReadSubs(s, k + 1) = {}
       /\ SubFor(f) # NoSub => SubFor(f) = Merge!SubAt(s, k + 1)
  BY <1>6, <1>7, <1>8, <1>10, CarriesOn
<1> HIDE DEF q, d, src
<1>14. Carries(s, k + 1)'
  <2>1. s' = s
    BY <1>3 DEF s, src
  <2> QED
    BY <1>3, <1>13, <2>1 DEF Carries
<1>15. MergedSoFar(s, k + 1)'
  <2>1. PICK r : /\ MergesTo(r, SeenFields(job.before), s, k)
                 /\ r[k] = SeenFields(d)
    BY <1>6 DEF MergedSoFar, d
  <2>2. \E r2 : /\ MergesTo(r2, SeenFields(job.before), s, k + 1)
                /\ r2[k + 1] = SeenFields(q)
    BY <1>7, <1>12, <2>1, MergesMore
  <2>3. s' = s /\ SeenFields(job.before)' = SeenFields(job.before)
        /\ SeenFields(msg[job.dst])' = SeenFields(q)
    BY <1>3 DEF s, src
  <2> QED
    BY <2>2, <2>3 DEF MergedSoFar
<1> QED
  BY <1>3, <1>6, <1>7, <1>11, <1>14, <1>15 DEF MInv, s, src

LEMMA MInvNext == ASSUME NoneIsApart PROVE LInv /\ MInv /\ [Next]_vars => MInv'
<1> SUFFICES ASSUME LInv, MInv, [Next]_vars PROVE MInv'
  OBVIOUS
<1>1. ASSUME NEW m \in Msgs, NEW op, NEW r, Store(m, op, r), ClientRuns
      PROVE  MInv'
  BY <1>1 DEF Store, ClientRuns, MInv, Applying, Iterating
<1>2. ASSUME NEW m \in Msgs, NEW src \in Msgs, ApplyCall(m, src)
      PROVE  MInv'
  BY <1>2, MInvCalls
<1>3. ASSUME NEW m \in Msgs, IterateCall(m) PROVE MInv'
  BY <1>3 DEF IterateCall, MInv, Applying
<1>4. CASE ClientStep
  BY <1>1, <1>2, <1>3, <1>4 DEF ClientStep, Clear, Add, Update
<1>5. CASE ApplyStep
  BY <1>5, MInvApplyStep
<1>6. CASE ApplyReturns \/ IterateReturns
  BY <1>6 DEF ApplyReturns, IterateReturns, MInv, Applying
<1>7. CASE IterateStep \/ CallbackReturns
  <2>1. Iterating /\ ~Applying /\ ~Applying'
    BY <1>7 DEF IterateStep, CallbackReturns, Iterating, Applying, LInv, JobInv,
         ApplyJob, IterateJob
  <2> QED
    BY <2>1 DEF MInv
<1>8. CASE UNCHANGED vars
  <2>1. msg' = msg /\ job' = job
    BY <1>8 DEF vars
  <2> QED
    BY <2>1 DEF MInv, Applying, Carries, MergedSoFar
<1> QED
  BY <1>4, <1>5, <1>6, <1>7, <1>8 DEF Next, LoopStep

-----------------------------------------------------------------------------
(* Every step of the loops is a call on the sequences, or none.            *)

OneCall(m, t) ==
    \/ Merge!Clear(t)
    \/ Merge!Add(Content[m], t)
    \/ Merge!Update(Content[m], t)
    \/ Merge!Iterate(Content[m], t)
    \/ \E src \in Msgs \ {m} : Merge!Apply(Content[m], t, Content[src])

LEMMA OneStep ==
    ASSUME NEW m \in Msgs, NEW t, Content' = [Content EXCEPT ![m] = t], OneCall(m, t)
    PROVE  [Merge!Next]_(Merge!vars)
<1>1. Content'[m] = t
  BY DEF Content
<1>2. CASE Content' = Content /\ ret' = ret
  BY <1>2 DEF Merge!vars
<1>3. CASE ~(Content' = Content /\ ret' = ret)
  <2>1. Merge!Step(Content, Content')
    BY <1>1, <1>3 DEF Merge!Step, OneCall
  <2> QED
    BY <2>1 DEF Merge!Next
<1> QED
  BY <1>2, <1>3

\* Outside apply the content is what the buffers hold.
LEMMA StoredContent ==
    ASSUME LInv, NEW m \in Msgs, NEW op, NEW r, Store(m, op, r), ClientRuns
    PROVE  /\ Content[m] = SeenFields(msg[m])
           /\ Content' = [Content EXCEPT ![m] = SeenFields(r.buf)]
           /\ Merge!Return(op, r.status)
<1>1. ~Applying /\ ~Applying'
  BY DEF Store, ClientRuns, Applying, Iterating
<1>2. /\ msg'[m] = r.buf /\ \A n \in Msgs \ {m} : msg'[n] = msg[n]
      /\ ret' = [op |-> op, status |-> r.status]
  BY DEF Store, Return, LInv, Messages
<1>3. Content = [n \in Msgs |-> SeenFields(msg[n])]
  BY <1>1 DEF Content
<1>4. Content' = [n \in Msgs |-> SeenFields(msg'[n])]
  BY <1>1 DEF Content
<1> QED
  BY <1>2, <1>3, <1>4 DEF Merge!Return

LEMMA SimClear ==
    ASSUME LInv, NEW m \in Msgs, Clear(m)
    PROVE  [Merge!Next]_(Merge!vars)
<1> DEFINE r == Outcome(Cleared(msg[m]), "OK")
<1>1. Store(m, "clear", r) /\ ClientRuns
  BY DEF Clear
<1>2. r.status = "OK" /\ r.buf.at = NoFields
  <2>1. IsBuffer(msg[m])
    BY DEF LInv, Messages, GoodMessage, GoodBuffer
  <2> QED
    BY <2>1 DEF Outcome, Cleared, IsBuffer
<1>3. SeenFields(r.buf) = <<>>
  BY <1>2, NothingSeen
<1> HIDE DEF r
<1>4. /\ Content' = [Content EXCEPT ![m] = <<>>]
      /\ Merge!Return("clear", "OK")
  BY <1>1, <1>2, <1>3, StoredContent
<1> QED
  BY <1>4, OneStep DEF OneCall, Merge!Clear

LEMMA SimAdd ==
    ASSUME LInv, NEW m \in Msgs, NEW id \in Ids, NEW in \in Inputs, Add(m, id, in)
    PROVE  [Merge!Next]_(Merge!vars)
<1> DEFINE r == AddField(msg[m], id[1], id[2], in)
           s == SeenFields(msg[m])
           t == SeenFields(r.buf)
<1>1. Store(m, "add", r) /\ ClientRuns
  BY DEF Add
<1>2. /\ ~NoIdentity(id[1], id[2]) /\ ~BlankIdentity(id[1], id[2])
      /\ IsInput(in) /\ in.len > 0 /\ in.len \in Nat /\ MaxU32 \in Nat
  BY IdsAssumption, LoopInputsAssumption, ValueLength, MaxU32Assumption
<1>3. GoodBuffer(msg[m])
  BY DEF LInv, Messages, GoodMessage
<1>4. CASE in.len <= MaxU32
  <2>1. r.status = "OK" /\ r.buf = Appended(msg[m], Encode(id[1], id[2], in))
    BY <1>2, <1>4 DEF AddField, AddStatus, Outcome
  <2>2. t = Append(s, Merge!Field(id[1], id[2], in))
    BY <1>3, <2>1, AppendedSeen, SameField
  <2> HIDE DEF r, s, t
  <2>3. /\ Content[m] = s /\ Content' = [Content EXCEPT ![m] = t]
        /\ Merge!Return("add", "OK")
    BY <1>1, <2>1, StoredContent DEF s, t
  <2>4. Merge!Add(Content[m], t)
    BY <1>4, <2>2, <2>3 DEF Merge!Add
  <2> QED
    BY <2>3, <2>4, OneStep DEF OneCall
<1>5. CASE ~(in.len <= MaxU32)
  <2>1. r.status = "INVALID_ARG" /\ r.buf = msg[m] /\ in.len > MaxU32
    BY <1>2, <1>5 DEF AddField, AddStatus, Outcome
  <2>2. t = s
    BY <2>1
  <2> HIDE DEF r, s, t
  <2>3. /\ Content[m] = s /\ Content' = [Content EXCEPT ![m] = t]
        /\ Merge!Return("add", "INVALID_ARG")
    BY <1>1, <2>1, StoredContent DEF s, t
  <2>4. Merge!Add(Content[m], t)
    BY <2>1, <2>2, <2>3 DEF Merge!Add
  <2> QED
    BY <2>3, <2>4, OneStep DEF OneCall
<1> QED
  BY <1>4, <1>5

LEMMA SimUpdate ==
    ASSUME LInv, NEW m \in Msgs, NEW id \in Ids, NEW in \in Inputs, Update(m, id, in)
    PROVE  [Merge!Next]_(Merge!vars)
<1> DEFINE r == UpdateField(msg[m], id[1], id[2], in)
           s == SeenFields(msg[m])
           t == SeenFields(r.buf)
<1>1. Store(m, "update", r) /\ ClientRuns
  BY DEF Update
<1>2. /\ ~NoIdentity(id[1], id[2]) /\ ~BlankIdentity(id[1], id[2])
      /\ IsInput(in) /\ in.len # 0 /\ in.len <= MaxU32
  BY IdsAssumption, LoopInputsAssumption, ValueLength DEF Update, FitsPrefix
<1>3. GoodBuffer(msg[m])
  BY DEF LInv, Messages, GoodMessage
<1>4. /\ t = Merge!Updated(s, id[1], id[2], in)
      /\ Merge!Refuses(s, id[1], id[2], in) => r.status = "WRONG_FIELD_TYPE"
      /\ ~Merge!Refuses(s, id[1], id[2], in) => r.status = "OK"
  BY <1>2, <1>3, SameUpdate
<1> HIDE DEF r, s, t
<1>5. /\ Content[m] = s /\ Content' = [Content EXCEPT ![m] = t]
      /\ Merge!Return("update", r.status)
  BY <1>1, StoredContent DEF s, t
<1>6. Merge!Update(Content[m], t)
  <2>1. CASE Merge!Refuses(s, id[1], id[2], in)
    <3>1. t = s
      BY <1>4, <2>1 DEF Merge!Updated
    <3> QED
      BY <1>4, <1>5, <2>1, <3>1 DEF Merge!Update
  <2>2. CASE ~Merge!Refuses(s, id[1], id[2], in)
    BY <1>4, <1>5, <2>2 DEF Merge!Update
  <2> QED
    BY <2>1, <2>2
<1> QED
  BY <1>5, <1>6, OneStep DEF OneCall

\* When apply returns, its destination is what the merge makes of it.
LEMMA SimApply ==
    ASSUME LInv, MInv, ApplyReturns
    PROVE  [Merge!Next]_(Merge!vars)
<1> DEFINE dst == job.dst
           src == job.src
           s   == SeenFields(msg[src])
           t   == SeenFields(msg[dst])
           u   == SeenFields(job.before)
<1>1. /\ Applying /\ ~HasNext /\ job' = NoJob /\ msg' = msg
      /\ ret' = [op |-> "apply", status |-> "OK"] /\ ~Applying'
  BY DEF ApplyReturns, Return, Applying
<1>2. dst \in Msgs /\ src \in Msgs /\ dst # src
  BY <1>1 DEF LInv, JobInv, ApplyJob, IterateJob, Applying
<1>3. GoodBuffer(msg[src])
  BY <1>2 DEF LInv, Messages, GoodMessage
<1>0. PICK e, n :
        /\ Lists(e, n, msg[src])
        /\ \E k \in 0 .. n : /\ job.pos = PlaceAt(msg[src], e, n, k + 1)
                             /\ MergedSoFar(s, k)
  BY <1>1 DEF MInv
<1>4. PICK k \in 0 .. n :
        /\ Lists(e, n, msg[src]) /\ job.pos = PlaceAt(msg[src], e, n, k + 1)
        /\ MergedSoFar(s, k)
  BY <1>0
<1>5. k = n
  BY <1>1, <1>3, <1>4, LastPlace DEF HasNext
<1>6. Len(s) = n /\ n \in Nat
  BY <1>4, SeenThrough DEF Lists, Listing
<1>7. PICK r : MergesTo(r, u, s, n) /\ r[n] = t
  BY <1>4, <1>5 DEF MergedSoFar
<1>8. /\ \A m \in Msgs : Content[m] = IF m = dst THEN u ELSE SeenFields(msg[m])
      /\ Content = [m \in Msgs |-> Content[m]]
  BY <1>1 DEF Content
<1>9. Content' = [m \in Msgs |-> SeenFields(msg[m])]
  BY <1>1 DEF Content
<1>10. Content' = [Content EXCEPT ![dst] = t]
  BY <1>2, <1>8, <1>9
<1> HIDE DEF dst, src, s, t, u
<1>11. Merge!Merged(u, s) = t
  BY <1>6, <1>7, MergedIs
<1>12. Content[dst] = u /\ Content[src] = s /\ src \in Msgs \ {dst}
  BY <1>2, <1>8 DEF s
<1>13. Merge!Apply(Content[dst], t, Content[src])
  BY <1>1, <1>11, <1>12 DEF Merge!Apply, Merge!Return
<1> QED
  BY <1>2, <1>10, <1>12, <1>13, OneStep DEF OneCall

\* A step of a loop that is not its last is none that a client can tell.
LEMMA SimLoop ==
    ASSUME LInv, LInv', NoneIsApart,
           \/ \E m, src \in Msgs : ApplyCall(m, src)
           \/ \E m \in Msgs : IterateCall(m)
           \/ ApplyStep \/ IterateStep \/ CallbackReturns \/ UNCHANGED vars
    PROVE  Content' = Content /\ ret' = ret
<1>1. ASSUME NEW m \in Msgs, NEW src \in Msgs, ApplyCall(m, src)
      PROVE  Content' = Content /\ ret' = ret
  <2>1. /\ job = NoJob /\ msg' = msg /\ ret' = ret
        /\ job'.dst = m /\ job'.before = msg[m]
    BY <1>1 DEF ApplyCall
  <2>2. \A n \in Msgs : (IF Applying /\ n = job.dst THEN job.before ELSE msg[n])'
                            = msg[n]
    BY <2>1
  <2>3. \A n \in Msgs : (IF Applying /\ n = job.dst THEN job.before ELSE msg[n])
                            = msg[n]
    BY <2>1 DEF Applying
  <2> QED
    BY <2>1, <2>2, <2>3 DEF Content
<1>2. CASE ApplyStep
  <2> DEFINE f == msg[job.src].at[job.pos]
  <2>1. /\ Applying /\ ApplyJob /\ ret' = ret /\ job.dst \in Msgs
        /\ \A n \in Msgs \ {job.dst} : msg'[n] = msg[n]
    BY <1>2 DEF ApplyStep, Applying, LInv, JobInv, ApplyJob, IterateJob, Messages
  <2>2. job' = [job EXCEPT !.pos = After(msg[job.src], job.pos),
                           !.name = NameFor(f), !.sub = SubFor(f)]
    BY <1>2 DEF ApplyStep
  <2>3. /\ job' = [kind |-> "apply", dst |-> job.dst, src |-> job.src,
                   pos |-> job'.pos, name |-> job'.name, sub |-> job'.sub,
                   before |-> job.before]
    BY <2>1, <2>2 DEF ApplyJob
  <2>4. Applying' /\ job'.dst = job.dst /\ job'.before = job.before
    BY <2>3 DEF Applying, NoneIsApart
  <2>5. \A n \in Msgs : (IF Applying /\ n = job.dst THEN job.before ELSE msg[n])'
                      = (IF Applying /\ n = job.dst THEN job.before ELSE msg[n])
    BY <2>1, <2>4
  <2> QED
    BY <2>1, <2>5 DEF Content
<1>3. ASSUME ~Applying, ~Applying', msg' = msg
      PROVE  Content' = Content
  BY <1>3 DEF Content
<1>4. ASSUME NEW m \in Msgs, IterateCall(m)
      PROVE  Content' = Content /\ ret' = ret
  BY <1>3, <1>4 DEF IterateCall, Applying
<1>5. CASE IterateStep \/ CallbackReturns
  <2>1. ~Applying /\ ~Applying'
    BY <1>5 DEF IterateStep, CallbackReturns, Iterating, Applying, LInv, JobInv,
         ApplyJob, IterateJob
  <2> QED
    BY <1>3, <1>5, <2>1 DEF IterateStep, CallbackReturns
<1>6. CASE UNCHANGED vars
  BY <1>6 DEF vars, Content, Applying
<1> QED
  BY <1>1, <1>2, <1>4, <1>5, <1>6

LEMMA SimIterate ==
    ASSUME LInv, IterateReturns
    PROVE  [Merge!Next]_(Merge!vars)
<1>1. /\ ~Applying /\ ~Applying' /\ msg' = msg /\ job.src \in Msgs
      /\ ret' = [op |-> "iterateFields", status |-> "OK"]
  BY DEF IterateReturns, Iterating, Applying, Return, LInv, JobInv, ApplyJob,
     IterateJob
<1>2. Content' = Content
  BY <1>1 DEF Content
<1>3. Content' = [Content EXCEPT ![job.src] = Content[job.src]]
  BY <1>1, <1>2 DEF Content
<1>4. Merge!Iterate(Content[job.src], Content[job.src])
  BY <1>1 DEF Merge!Iterate, Merge!Return
<1> QED
  BY <1>1, <1>3, <1>4, OneStep DEF OneCall

LEMMA SimNext ==
    ASSUME NoneIsApart
    PROVE  LInv /\ LInv' /\ MInv /\ [Next]_vars => [Merge!Next]_(Merge!vars)
<1> SUFFICES ASSUME LInv, LInv', MInv, [Next]_vars
             PROVE  [Merge!Next]_(Merge!vars)
  OBVIOUS
<1>1. CASE ClientStep
  BY <1>1, SimClear, SimAdd, SimUpdate, SimLoop DEF ClientStep, Merge!vars
<1>2. CASE LoopStep
  BY <1>2, SimApply, SimIterate, SimLoop DEF LoopStep, Merge!vars
<1>3. CASE UNCHANGED vars
  BY <1>3, SimLoop DEF Merge!vars
<1> QED
  BY <1>1, <1>2, <1>3 DEF Next

LEMMA SimInit == Init => Merge!Init /\ MInv
<1> SUFFICES ASSUME Init PROVE Merge!Init /\ MInv
  OBVIOUS
<1>1. ~Applying /\ \A m \in Msgs : msg[m] = NewBuffer
  BY DEF Init, Applying
<1>2. NewBuffer.at = NoFields
  BY DEF NewBuffer, Cleared
<1>3. SeenFields(NewBuffer) = <<>>
  BY <1>2, NothingSeen
<1> QED
  BY <1>1, <1>3 DEF Content, Merge!Init, Init, MInv

\* A call of apply does to the fields of its destination what merging two
\* sequences does, whatever the updates it consists of find, resize or refuse
\* on the way; all that is asked is that no call and no sub-message is taken
\* for none.
THEOREM ApplyIsMerge ==
    ASSUME NoneIsApart
    PROVE  Spec => ImplementsMerge
<1>1. Init => Merge!Init /\ MInv
  BY SimInit
<1>2. LInv /\ MInv /\ [Next]_vars => MInv'
  BY MInvNext
<1>3. LInv /\ LInv' /\ MInv /\ [Next]_vars => [Merge!Next]_(Merge!vars)
  BY SimNext
<1> QED
  BY <1>1, <1>2, <1>3, SpecLInv, PTL DEF Spec, ImplementsMerge, Merge!Spec

=============================================================================
