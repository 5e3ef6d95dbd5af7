------------------------- MODULE OmnmIteratorProofs -------------------------
(***************************************************************************)
(* The invariants of OmnmIterator, for every set of messages, names, fids  *)
(* and inputs: messages stay walkable, an undisturbed walk returns every   *)
(* field once, and an undisturbed handle says what is stored; and the      *)
(* refinement of OmnmWalk.                                                 *)
(*                                                                         *)
(* The inductive invariant IInv adds to the properties what a walk looks   *)
(* like before and after its first step.  Every call on a message is shown *)
(* to keep what lies below the offset it disturbs (KeepsBelow); an         *)
(* iterator and a handle that count as undisturbed are below it.           *)
(*                                                                         *)
(* The refinement rests on the numbers of fields (NumberAt): numbers are   *)
(* in the order of the offsets, a step adds one, and below the offset a    *)
(* call disturbs they are what they were, so that offsets and numbers      *)
(* agree on which pointers are disturbed (Disturbed).  Each call is then   *)
(* shown to be one of OmnmWalk.                                            *)
(***************************************************************************)
EXTENDS OmnmIteratorRefines, OmnmBufferProofs

Messages ==
    /\ msg = [m \in Msgs |-> msg[m]]
    /\ \A m \in Msgs : GoodBuffer(msg[m])

HandlesInv ==
    /\ DOMAIN field = Handles
    /\ fresh \subseteq Handles
    /\ \A h \in fresh : field[h] # NoField /\ field[h].msg \in Msgs
    /\ HandleCurrent

CursorInv ==
    /\ cursor # NoCursor => cursor \in CursorStates
    /\ steady => cursor # NoCursor
    /\ seen \in Seq(Nat)

\* Where the first field of the message being walked is.
First == HeaderSize(msg[cursor.msg])

\* Before the first step nothing has been returned, and the rewind that is
\* still to come goes to where the iterator is; after it, an iterator that
\* began on an empty message is where it was.
Rewinds ==
    /\ ~cursor.begun => cursor.early /\ cursor.pos = First
    /\ cursor.early => (cursor.begun <=> Len(seen) > 0)
    /\ cursor.early /\ Len(seen) = 1 => cursor.pos = First /\ seen[1] = First

WalkInv == CursorOnField /\ WalksEachOnce /\ (steady => Rewinds)

IInv == Messages /\ HandlesInv /\ CursorInv /\ WalkInv

-----------------------------------------------------------------------------

\* The invariant is what the properties say, and more.
LEMMA IInvImplies ==
    IInv => /\ IterTypeOK /\ IterFramed /\ CursorOnField
            /\ WalksEachOnce /\ HandleCurrent
<1> SUFFICES ASSUME IInv
             PROVE  /\ IterTypeOK /\ IterFramed /\ CursorOnField
                    /\ WalksEachOnce /\ HandleCurrent
  OBVIOUS
<1>1. IterFramed /\ \A m \in Msgs : IsBuffer(msg[m])
  BY DEF IInv, Messages, GoodBuffer, IterFramed
<1>2. /\ DOMAIN field = Handles
      /\ fresh \subseteq {h \in Handles : field[h] # NoField}
  BY DEF IInv, HandlesInv
<1>3. /\ cursor # NoCursor => cursor.msg \in Msgs /\ cursor.pos \in Nat
      /\ steady => cursor # NoCursor
  BY DEF IInv, CursorInv, CursorStates
<1> QED
  BY <1>1, <1>2, <1>3 DEF IInv, HandlesInv, WalkInv, IterTypeOK

LEMMA IInvInit == Init => IInv
BY NewBufferGood
   DEF Init, IInv, Messages, HandlesInv, HandleCurrent, CursorInv, WalkInv,
       CursorOnField, WalksEachOnce

-----------------------------------------------------------------------------
(* A message changes. *)

\* What a call on message m may leave behind: a good buffer that is as it was
\* below the offset the call disturbs.  Offset 0 disturbs everything.
Leaves(m, q, o) == GoodBuffer(q) /\ (o = 0 \/ KeepsBelow(msg[m], q, o))

\* Handles: those that still count as undisturbed are below what has changed.
LEMMA BecomesHandles ==
    ASSUME IInv, NEW m \in Msgs, NEW q, NEW o \in Nat, NEW moves \in BOOLEAN,
           Leaves(m, q, o), Becomes(m, q, o, moves),
           DOMAIN field' = Handles, \A h \in fresh' : field'[h] = field[h]
    PROVE  HandlesInv'
<1>1. /\ msg'[m] = q /\ \A n \in Msgs \ {m} : msg'[n] = msg[n]
      /\ fresh' = fresh \ {h \in Into(m) : moves \/ o <= field[h].at}
  BY DEF IInv, Messages, Becomes
<1>2. ASSUME NEW h \in fresh'
      PROVE  /\ h \in Handles /\ field'[h] # NoField /\ field'[h].msg \in Msgs
             /\ LET f == field'[h]
                    p == msg'[f.msg]
                IN  /\ f.live /\ f.at \in DOMAIN p.at
                    /\ f = [msg |-> f.msg, at |-> f.at, type |-> p.at[f.at].type,
                            name |-> p.at[f.at].name,
                            size |-> DecodedSize(p.at[f.at]), live |-> TRUE]
  <2> DEFINE f == field[h]
             p == msg[f.msg]
  <2>1. /\ h \in fresh /\ h \in Handles /\ field'[h] = f
        /\ f # NoField /\ f.msg \in Msgs
    BY <1>1 DEF IInv, HandlesInv
  <2>2. /\ f.live /\ f.at \in DOMAIN p.at
        /\ f = [msg |-> f.msg, at |-> f.at, type |-> p.at[f.at].type,
                name |-> p.at[f.at].name, size |-> DecodedSize(p.at[f.at]),
                live |-> TRUE]
    BY <2>1 DEF IInv, HandlesInv, HandleCurrent, Pointed
  <2>3. f.at \in Nat
    BY <2>1, <2>2, Offsets DEF IInv, Messages
  <2> DEFINE p2 == msg'[f.msg]
  <2>4. /\ f.at \in DOMAIN p2.at
        /\ p2.at[f.at].type = p.at[f.at].type
        /\ p2.at[f.at].name = p.at[f.at].name
        /\ DecodedSize(p2.at[f.at]) = DecodedSize(p.at[f.at])
    <3>1. CASE f.msg # m
      BY <3>1, <2>1, <2>2, <1>1
    <3>2. CASE f.msg = m
      <4>1. f.at < o
        BY <3>2, <2>1, <2>3, <1>1 DEF Into
      <4> QED
        BY <4>1, <3>2, <2>2, <2>3, <1>1 DEF Leaves, KeepsBelow
    <3> QED
      BY <3>1, <3>2
  <2> HIDE DEF f, p, p2
  <2>5. f = [msg |-> f.msg, at |-> f.at, type |-> p2.at[f.at].type,
             name |-> p2.at[f.at].name, size |-> DecodedSize(p2.at[f.at]),
             live |-> TRUE]
    BY <2>2, <2>4
  <2> QED
    BY <2>1, <2>2, <2>4, <2>5 DEF p2
<1>3. HandleCurrent'
  BY <1>2 DEF HandleCurrent, Pointed
<1> QED
  BY <1>2, <1>3 DEF HandlesInv

\* The iterator: while it counts as undisturbed it is not past what has
\* changed, and what it has passed has not.
LEMMA BecomesWalk ==
    ASSUME IInv, NEW m \in Msgs, NEW q, NEW o \in Nat, NEW moves \in BOOLEAN,
           Leaves(m, q, o), Becomes(m, q, o, moves)
    PROVE  CursorInv' /\ WalkInv'
<1>1. /\ msg'[m] = q /\ \A n \in Msgs \ {m} : msg'[n] = msg[n]
      /\ seen' = seen
      /\ steady' = (steady /\ ~(/\ cursor.msg = m
                                /\ moves \/ o < cursor.pos))
      /\ cursor' = IF moves /\ cursor # NoCursor /\ cursor.msg = m
                   THEN [cursor EXCEPT !.live = FALSE] ELSE cursor
  BY DEF IInv, Messages, Becomes
<1>2. cursor' # NoCursor => cursor' \in CursorStates
  BY <1>1 DEF IInv, CursorInv, CursorStates
<1>3. steady' => steady /\ cursor' = cursor /\ cursor # NoCursor /\ cursor \in CursorStates
  BY <1>1 DEF IInv, CursorInv
<1>4. CursorInv'
  BY <1>1, <1>2, <1>3 DEF IInv, CursorInv
<1>5. ASSUME steady'
      PROVE  LET p == msg[cursor.msg]
                 r == msg'[cursor.msg]
             IN  /\ HeaderSize(r) = HeaderSize(p)
                 /\ cursor.pos \in DOMAIN r.at \cup {r.tail}
                 /\ {x \in DOMAIN r.at : x < cursor.pos}
                        = {x \in DOMAIN p.at : x < cursor.pos}
  <2> DEFINE p == msg[cursor.msg]
             r == msg'[cursor.msg]
             pos == cursor.pos
  <2>1. /\ cursor.msg \in Msgs /\ pos \in Nat /\ pos \in DOMAIN p.at \cup {p.tail}
        /\ GoodBuffer(p)
    BY <1>3, <1>5 DEF IInv, Messages, WalkInv, CursorOnField, CursorStates
  <2>2. CASE cursor.msg # m
    BY <2>1, <2>2, <1>1
  <2>3. CASE cursor.msg = m
    <3>1. pos <= o /\ r = q
      <4>1. ~(o < pos)
        BY <2>3, <1>1, <1>5
      <4> QED
        BY <4>1, <2>1, <2>3, <1>1
    <3>2. 0 < pos /\ DOMAIN p.at \subseteq Nat
      BY <2>1, Offsets
    <3>3. KeepsBelow(p, r, o) /\ GoodBuffer(r)
      BY <3>1, <3>2, <2>1, <2>3 DEF Leaves
    <3>4. DOMAIN r.at \subseteq Nat /\ r.tail \in Nat
      BY <3>3, Offsets
    <3>5. {x \in DOMAIN r.at : x < pos} = {x \in DOMAIN p.at : x < pos}
      BY <3>1, <3>2, <3>3, <3>4, <2>1 DEF KeepsBelow
    <3>6. pos \in DOMAIN r.at \cup {r.tail}
      <4>1. CASE pos = o
        BY <4>1, <3>3 DEF KeepsBelow
      <4>2. CASE pos < o /\ pos \in DOMAIN p.at
        BY <4>2, <3>3, <2>1 DEF KeepsBelow
      <4>3. pos < o => pos # p.tail
        BY <3>3, <2>1 DEF KeepsBelow
      <4> QED
        BY <4>1, <4>2, <4>3, <3>1, <2>1
    <3> QED
      BY <3>3, <3>5, <3>6 DEF KeepsBelow
  <2> QED
    BY <2>2, <2>3
<1>6. CursorOnField'
  BY <1>3, <1>5 DEF IInv, WalkInv, CursorOnField
<1>7. WalksEachOnce'
  BY <1>1, <1>3, <1>5 DEF IInv, WalkInv, WalksEachOnce
<1>8. steady' => Rewinds'
  BY <1>1, <1>3, <1>5 DEF IInv, WalkInv, Rewinds, First
<1> QED
  BY <1>4, <1>6, <1>7, <1>8 DEF WalkInv

LEMMA BecomesGood ==
    ASSUME IInv, NEW m \in Msgs, NEW q, NEW o \in Nat, NEW moves \in BOOLEAN,
           Leaves(m, q, o), Becomes(m, q, o, moves),
           DOMAIN field' = Handles, \A h \in fresh' : field'[h] = field[h]
    PROVE  IInv'
<1>1. Messages'
  BY DEF IInv, Messages, Becomes, Leaves
<1> QED
  BY <1>1, BecomesHandles, BecomesWalk DEF IInv

-----------------------------------------------------------------------------
(* Calls on a message. *)

LEMMA SameKeeps ==
    ASSUME NEW p, GoodBuffer(p)
    PROVE  KeepsBelow(p, p, p.tail)
BY Offsets DEF KeepsBelow

\* addField disturbs nothing, whether it succeeds or fails.
LEMMA AddFieldKeeps ==
    ASSUME NEW p, GoodBuffer(p), NEW name \in Names, NEW fid \in Nat,
           NEW in, IsInput(in)
    PROVE  LET q == AddField(p, name, fid, in).buf
           IN  GoodBuffer(q) /\ KeepsBelow(p, q, p.tail)
<1> DEFINE status == AddStatus(name, fid, in)
           q == AddField(p, name, fid, in).buf
<1>1. q = IF status = "OK" THEN Appended(p, Encode(name, fid, in)) ELSE p
  BY DEF AddField, Outcome
<1>2. CASE status = "OK"
  <2>1. in.len <= MaxU32
    BY <1>2, MaxU32Assumption DEF AddStatus, IsInput
  <2> QED
    BY <1>1, <1>2, <2>1, EncodeGood, AppendedGood
<1>3. CASE status # "OK"
  BY <1>1, <1>3, SameKeeps
<1> QED
  BY <1>2, <1>3

\* updateField disturbs what comes after a field that it resizes.
LEMMA UpdateFieldKeeps ==
    ASSUME NEW p, GoodBuffer(p), NEW name \in Names, NEW fid \in Nat,
           NEW in, IsInput(in), FitsPrefix(in), KeepsWidth(p, name, fid, in)
    PROVE  LET r == UpdateField(p, name, fid, in)
               o == IF r.status = "OK" /\ Found(p, name, fid)
                    THEN Shifted(p, FirstMatch(p, name, fid), in) ELSE p.tail
           IN  GoodBuffer(r.buf) /\ KeepsBelow(p, r.buf, o) /\ o \in Nat
<1> DEFINE r == UpdateField(p, name, fid, in)
           f == FirstMatch(p, name, fid)
           o == IF r.status = "OK" /\ Found(p, name, fid)
                THEN Shifted(p, f, in) ELSE p.tail
<1>1. CASE NoIdentity(name, fid)
  <2>1. r.status = "NULL_ARG" /\ r.buf = p
    BY <1>1 DEF UpdateField, Outcome
  <2> QED
    BY <2>1, SameKeeps, Offsets
<1>2. CASE ~NoIdentity(name, fid) /\ Found(p, name, fid)
  <2>1. f \in DOMAIN p.at /\ p.tail \in Nat /\ DOMAIN p.at \subseteq Nat
    BY <1>2, FirstMatchFound, Offsets DEF GoodBuffer
  <2>2. r = UpdateAt(p, f, in)
    BY <1>2 DEF UpdateField
  <2>3. Castable(p.at[f].type, in.type) => Width(p.at[f].type) = Width(in.type)
    BY <1>2 DEF KeepsWidth
  <2> HIDE DEF f
  <2>4. CASE Accepts(p.at[f], in)
    <3>1. KeepsFraming(p.at[f], in)
      BY <2>3, <2>4 DEF Accepts, KeepsFraming
    <3>2. r.status = "OK" /\ r.buf = Replaced(p, f, in)
      BY <2>2, <2>4 DEF UpdateAt, Outcome
    <3>3. o = IF in.len # DecodedSize(p.at[f]) THEN f ELSE p.tail
      BY <1>2, <3>2 DEF Shifted
    <3> QED
      BY <2>1, <3>1, <3>2, <3>3, ReplacedGood DEF FitsPrefix, f
  <2>5. CASE ~Accepts(p.at[f], in)
    <3>1. r.status = "WRONG_FIELD_TYPE" /\ r.buf = p
      BY <2>2, <2>5 DEF UpdateAt, Outcome
    <3> QED
      BY <2>1, <3>1, SameKeeps DEF f
  <2> QED
    BY <2>4, <2>5
<1>3. CASE ~NoIdentity(name, fid) /\ ~Found(p, name, fid)
  <2>1. r = AddField(p, name, fid, in)
    BY <1>3 DEF UpdateField
  <2> QED
    BY <1>3, <2>1, AddFieldKeeps, Offsets
<1> QED
  BY <1>1, <1>2, <1>3

\* A handle that dangles does not count as undisturbed.
LEMMA DangleKeeps ==
    ASSUME IInv, NEW m \in Msgs, NEW q, NEW o, NEW moves \in BOOLEAN,
           Becomes(m, q, o, moves), field' = Dangle(m, moves, {})
    PROVE  DOMAIN field' = Handles /\ \A h \in fresh' : field'[h] = field[h]
BY DEF IInv, HandlesInv, Becomes, Dangle, Into

LEMMA IInvAdd ==
    ASSUME IInv, NEW m \in Msgs, NEW name \in Names, NEW fid \in Fids,
           NEW in \in Inputs, NEW moves \in BOOLEAN, Add(m, name, fid, in, moves)
    PROVE  IInv'
<1> DEFINE q == AddField(msg[m], name, fid, in).buf
           o == msg[m].tail
<1>1. GoodBuffer(msg[m]) /\ IsInput(in) /\ fid \in Nat
  BY IterInputsAssumption DEF IInv, Messages
<1>2. Leaves(m, q, o) /\ o \in Nat
  BY <1>1, AddFieldKeeps, Offsets DEF Leaves
<1>3. Becomes(m, q, o, moves) /\ field' = Dangle(m, moves, {})
  BY DEF Add
<1> HIDE DEF q, o
<1> QED
  BY <1>2, <1>3, DangleKeeps, BecomesGood

LEMMA IInvUpdateByKey ==
    ASSUME IInv, NEW m \in Msgs, NEW name \in Names, NEW fid \in Fids,
           NEW in \in Inputs, NEW moves \in BOOLEAN,
           UpdateByKey(m, name, fid, in, moves)
    PROVE  IInv'
<1> DEFINE p == msg[m]
           r == UpdateField(p, name, fid, in)
           o == IF r.status = "OK" /\ Found(p, name, fid)
                THEN Shifted(p, FirstMatch(p, name, fid), in) ELSE p.tail
<1>1. GoodBuffer(p) /\ IsInput(in) /\ fid \in Nat
  BY IterInputsAssumption DEF IInv, Messages
<1>2. /\ FitsPrefix(in) /\ KeepsWidth(p, name, fid, in)
      /\ Becomes(m, r.buf, o, moves) /\ field' = Dangle(m, moves, {})
  BY DEF UpdateByKey
<1>3. Leaves(m, r.buf, o) /\ o \in Nat
  BY <1>1, <1>2, UpdateFieldKeeps DEF Leaves
<1> HIDE DEF r, o
<1> QED
  BY <1>2, <1>3, DangleKeeps, BecomesGood

LEMMA IInvClear == ASSUME IInv, NEW m \in Msgs, Clear(m) PROVE IInv'
<1> DEFINE q == Cleared(msg[m])
<1>1. GoodBuffer(q)
  BY ClearedGood DEF IInv, Messages, GoodBuffer, SafeBuffer
<1>2. Leaves(m, q, 0)
  BY <1>1 DEF Leaves
<1>3. Becomes(m, q, 0, FALSE) /\ field' = field
  BY DEF Clear
<1> HIDE DEF q
<1> QED
  BY <1>2, <1>3, BecomesGood DEF IInv, HandlesInv

\* A handle that is pointed at a field says what is stored there.
LEMMA PointedHandle ==
    ASSUME IInv, NEW h \in Handles, NEW m \in Msgs, NEW o \in DOMAIN msg[m].at,
           msg' = msg, field' = [field EXCEPT ![h] = Pointed(m, o)],
           fresh' = fresh \cup {h}
    PROVE  HandlesInv'
<1>1. Pointed(m, o) \in FieldStates
  <2>1. GoodBuffer(msg[m]) /\ o \in Nat /\ IsField(msg[m].at[o])
    BY DEF IInv, Messages, GoodBuffer, IsBuffer, IsLayout
  <2> QED
    BY <2>1, FieldLength DEF Pointed, FieldStates, IsField
<1>2. Pointed(m, o) # NoField
  BY <1>1, NoneAssumption
<1>3. /\ DOMAIN field' = Handles /\ field'[h] = Pointed(m, o)
      /\ \A g \in fresh' : g # h => g \in fresh /\ field'[g] = field[g]
  BY DEF IInv, HandlesInv
<1>4. Pointed(m, o).msg = m /\ Pointed(m, o).at = o /\ Pointed(m, o).live
  BY DEF Pointed
<1>5. \A n, x : Pointed(n, x)' = Pointed(n, x)
  BY DEF Pointed
<1>6. HandleCurrent'
  <2> SUFFICES ASSUME NEW g \in fresh'
               PROVE  LET f == field'[g]
                          p == msg[f.msg]
                      IN  /\ f.live /\ f.at \in DOMAIN p.at
                          /\ f = Pointed(f.msg, f.at)
    BY DEF HandleCurrent, Pointed
  <2>1. CASE g = h
    BY <2>1, <1>3, <1>4
  <2>2. CASE g # h
    BY <2>2, <1>3 DEF IInv, HandlesInv, HandleCurrent
  <2> QED
    BY <2>1, <2>2
<1> QED
  BY <1>2, <1>3, <1>4, <1>6 DEF IInv, HandlesInv

\* A call that changes neither message nor iterator.
LEMMA WalkUnchanged ==
    ASSUME IInv, msg' = msg, cursor' = cursor, steady' = steady, seen' = seen
    PROVE  Messages' /\ CursorInv' /\ WalkInv'
<1>1. Messages' /\ CursorInv'
  BY DEF IInv, Messages, CursorInv
<1>2. CursorOnField'
  BY DEF IInv, WalkInv, CursorOnField
<1>3. WalksEachOnce'
  BY DEF IInv, WalkInv, WalksEachOnce
<1>4. steady' => Rewinds'
  BY DEF IInv, WalkInv, Rewinds, First
<1> QED
  BY <1>1, <1>2, <1>3, <1>4 DEF WalkInv

LEMMA IInvGetField ==
    ASSUME IInv, NEW m \in Msgs, NEW name \in Names, NEW fid \in Fids,
           GetField(m, name, fid)
    PROVE  IInv'
<1> DEFINE o == FirstMatch(msg[m], name, fid)
<1>1. msg' = msg /\ cursor' = cursor /\ steady' = steady /\ seen' = seen
  BY DEF GetField
<1>2. HandlesInv'
  <2>1. CASE GetFieldStatus(msg[m], name, fid) = "OK"
    <3>1. Found(msg[m], name, fid)
      BY <2>1 DEF GetFieldStatus
    <3>2. o \in DOMAIN msg[m].at
      BY <3>1, FirstMatchFound DEF IInv, Messages, GoodBuffer
    <3>3. /\ field' = [field EXCEPT ![m] = Pointed(m, o)]
          /\ fresh' = fresh \cup {m} /\ m \in Handles
      BY <2>1 DEF GetField, Handles
    <3> HIDE DEF o
    <3> QED
      BY <1>1, <3>2, <3>3, PointedHandle
  <2>2. CASE GetFieldStatus(msg[m], name, fid) # "OK"
    BY <1>1, <2>2 DEF GetField, IInv, HandlesInv, HandleCurrent, Pointed
  <2> QED
    BY <2>1, <2>2
<1> QED
  BY <1>1, <1>2, WalkUnchanged DEF IInv

-----------------------------------------------------------------------------
(* The iterator. *)

LEMMA BeginGood ==
    ASSUME IInv, NEW m \in Msgs, NEW parent \in Msgs, Begin(m, parent),
           msg' = msg
    PROVE  IInv'
<1> DEFINE p == msg[m]
           first == HeaderSize(p)
<1>1. /\ GoodBuffer(p) /\ first \in Nat /\ first \in DOMAIN p.at \cup {p.tail}
      /\ HasFields(m) \in BOOLEAN
      /\ HasFields(m) => first \in DOMAIN p.at
      /\ \A o \in DOMAIN p.at : ~(o < first)
  BY Offsets DEF IInv, Messages, HasFields
<1>2. /\ cursor' = [msg |-> m, pos |-> first, live |-> TRUE,
                    begun |-> HasFields(m), early |-> ~HasFields(m),
                    parent |-> parent]
      /\ steady' = TRUE /\ seen' = <<>>
  BY DEF Begin
<1>3. /\ cursor'.msg = m /\ cursor'.pos = first /\ cursor'.live
      /\ cursor'.begun = HasFields(m) /\ cursor'.early = ~HasFields(m)
      /\ cursor' \in CursorStates
  BY <1>1, <1>2 DEF CursorStates
<1>4. CursorInv'
  <2>1. cursor' # NoCursor
    BY <1>3, NoneAssumption
  <2>2. <<>> \in Seq(Nat)
    OBVIOUS
  <2> QED
    BY <1>2, <1>3, <2>1, <2>2 DEF CursorInv
<1>5. HandlesInv'
  <2>1. CASE HasFields(m)
    <3>1. /\ field' = [field EXCEPT ![Iter] = Pointed(m, first)]
          /\ fresh' = fresh \cup {Iter} /\ Iter \in Handles
      BY <2>1 DEF Begin, Handles
    <3> QED
      BY <1>1, <2>1, <3>1, PointedHandle
  <2>2. CASE ~HasFields(m)
    BY <2>2 DEF Begin, IInv, HandlesInv, HandleCurrent, Pointed
  <2> QED
    BY <2>1, <2>2
<1>6. CursorOnField'
  BY <1>1, <1>3 DEF CursorOnField
<1>7. WalksEachOnce'
  BY <1>1, <1>2, <1>3 DEF WalksEachOnce
<1>8. Rewinds'
  <2>1. Len(seen') = 0
    BY <1>2
  <2>2. First' = first
    BY <1>3 DEF First
  <2> HIDE DEF first
  <2>3. ~cursor'.begun => cursor'.early /\ cursor'.pos = First'
    BY <1>3, <2>2
  <2>4. cursor'.early => ~cursor'.begun
    BY <1>1, <1>3
  <2> QED
    BY <2>1, <2>3, <2>4 DEF Rewinds
<1>9. Messages'
  BY DEF IInv, Messages
<1> QED
  BY <1>4, <1>5, <1>6, <1>7, <1>8, <1>9 DEF IInv, WalkInv

LEMMA IInvBegin ==
    ASSUME IInv, NEW m \in Msgs, IterCreate(m) \/ Associate(m)
    PROVE  IInv'
<1>1. CASE IterCreate(m)
  BY <1>1, BeginGood DEF IterCreate
<1>2. CASE Associate(m)
  BY <1>2, BeginGood DEF Associate, IInv, CursorInv, CursorStates
<1> QED
  BY <1>1, <1>2

LEMMA IInvDestroy == ASSUME IInv, IterDestroy PROVE IInv'
<1>1. Messages'
  BY DEF IterDestroy, IInv, Messages
<1>2. CursorInv' /\ WalkInv'
  BY DEF IterDestroy, CursorInv, WalkInv, CursorOnField, WalksEachOnce
<1>3. HandlesInv'
  BY DEF IterDestroy, IInv, HandlesInv, HandleCurrent, Pointed
<1> QED
  BY <1>1, <1>2, <1>3 DEF IInv

\* A step of an undisturbed walk, the one that rewinds and the ones that
\* move on.
LEMMA IInvIterNext == ASSUME IInv, IterNext PROVE IInv'
<1> DEFINE p == msg[cursor.msg]
           pos == cursor.pos
           next == pos + DecodedLen(p.at[pos])
           n == Len(seen)
<1>1. /\ cursor # NoCursor /\ cursor \in CursorStates /\ cursor.msg \in Msgs
      /\ pos \in Nat /\ GoodBuffer(p) /\ seen \in Seq(Nat) /\ n \in Nat
  BY DEF IterNext, MayStep, IInv, CursorInv, CursorStates, Messages
<1>2. steady /\ pos \in DOMAIN p.at
  BY <1>1, Offsets DEF IterNext, MayStep, HasNext, IInv, WalkInv, CursorOnField
<1>3. /\ cursor' = [cursor EXCEPT
                        !.pos = IF cursor.begun THEN next ELSE HeaderSize(p),
                        !.begun = TRUE]
      /\ field' = [field EXCEPT ![Iter] = Pointed(cursor.msg, pos)]
      /\ fresh' = fresh \cup {Iter} /\ Iter \in Handles
      /\ seen' = Append(seen, pos)
      /\ msg' = msg /\ steady' = steady
  BY DEF IterNext, Step, Handles
<1>4. /\ next \in DOMAIN p.at \cup {p.tail} /\ pos < next /\ next \in Nat
      /\ \A q \in DOMAIN p.at : q < next <=> q <= pos
      /\ DOMAIN p.at \subseteq Nat /\ HeaderSize(p) \in Nat
      /\ HeaderSize(p) \in DOMAIN p.at \cup {p.tail}
      /\ \A q \in DOMAIN p.at : HeaderSize(p) <= q
  BY <1>1, <1>2, StepInOrder, Offsets
<1> HIDE DEF next
<1>5. /\ cursor' \in CursorStates /\ cursor' # NoCursor
      /\ cursor'.msg = cursor.msg /\ cursor'.live = cursor.live
      /\ cursor'.early = cursor.early /\ cursor'.begun
      /\ cursor'.pos = IF cursor.begun THEN next ELSE HeaderSize(p)
  BY <1>1, <1>3, <1>4, NoneAssumption DEF CursorStates
<1>6. /\ seen' \in Seq(Nat) /\ Len(seen') = n + 1
      /\ \A i \in 1 .. n : seen'[i] = seen[i]
      /\ seen'[n + 1] = pos
  BY <1>1, <1>3
<1>7. Messages' /\ CursorInv'
  BY <1>1, <1>3, <1>5, <1>6 DEF IInv, Messages, CursorInv
<1>8. HandlesInv'
  BY <1>1, <1>2, <1>3, PointedHandle
<1>9. CursorOnField'
  BY <1>2, <1>3, <1>4, <1>5 DEF IInv, WalkInv, CursorOnField
\* What the invariant says of the walk so far.
<1>10. /\ ~cursor.begun => n = 0 /\ cursor.early /\ pos = HeaderSize(p)
       /\ cursor.early /\ n = 1 => pos = HeaderSize(p) /\ seen[1] = pos
       /\ cursor.early /\ cursor.begun => n > 0
  BY <1>1, <1>2 DEF IInv, WalkInv, Rewinds, First
<1>11. /\ \A i, j \in 1 .. n : i < j =>
            \/ seen[i] < seen[j]
            \/ cursor.early /\ i = 1 /\ j = 2 /\ seen[i] = seen[j]
       /\ \/ cursor.early /\ n = 1
          \/ {seen[i] : i \in 1 .. n} = {o \in DOMAIN p.at : o < pos}
  BY <1>1, <1>2 DEF IInv, WalkInv, WalksEachOnce
<1>12. Rewinds'
  BY <1>3, <1>5, <1>6, <1>10 DEF Rewinds, First
<1>13. WalksEachOnce'
  <2>1. \A i, j \in 1 .. n + 1 : i < j =>
            \/ seen'[i] < seen'[j]
            \/ cursor'.early /\ i = 1 /\ j = 2 /\ seen'[i] = seen'[j]
    <3> SUFFICES ASSUME NEW i \in 1 .. n + 1, NEW j \in 1 .. n + 1, i < j
                 PROVE  \/ seen'[i] < seen'[j]
                        \/ cursor'.early /\ i = 1 /\ j = 2 /\ seen'[i] = seen'[j]
      OBVIOUS
    <3>1. CASE j \in 1 .. n
      <4>1. i \in 1 .. n
        BY <3>1, <1>1
      <4>2. seen'[i] = seen[i] /\ seen'[j] = seen[j]
        BY <4>1, <3>1, <1>6
      <4>3. \/ seen[i] < seen[j]
            \/ cursor.early /\ i = 1 /\ j = 2 /\ seen[i] = seen[j]
        BY <4>1, <3>1, <1>11
      <4> QED
        BY <4>2, <4>3, <1>5
    <3>2. CASE j = n + 1 /\ cursor.early /\ n = 1
      <4>1. i = 1 /\ j = 2 /\ 1 \in 1 .. n
        BY <3>2
      <4>2. seen'[1] = seen[1] /\ seen'[2] = pos
        BY <4>1, <3>2, <1>6
      <4> QED
        BY <4>1, <4>2, <3>2, <1>5, <1>10
    <3>3. CASE j = n + 1 /\ ~(cursor.early /\ n = 1)
      <4>1. i \in 1 .. n
        BY <3>3, <1>1
      <4>2. seen[i] \in {o \in DOMAIN p.at : o < pos}
        BY <4>1, <3>3, <1>11
      <4> QED
        BY <4>1, <4>2, <3>3, <1>6
    <3> QED
      BY <3>1, <3>2, <3>3, <1>1
  <2>2. \/ cursor'.early /\ n + 1 = 1
        \/ {seen'[i] : i \in 1 .. n + 1} = {o \in DOMAIN p.at : o < cursor'.pos}
    <3>1. CASE ~cursor.begun
      BY <3>1, <1>5, <1>10
    <3>2. CASE cursor.begun
      <4>1. cursor'.pos = next
        BY <3>2, <1>5
      <4>2. {o \in DOMAIN p.at : o < next} = {o \in DOMAIN p.at : o < pos} \cup {pos}
        BY <1>1, <1>2, <1>4
      <4>3. CASE cursor.early /\ n = 1
        <5>1. {seen'[i] : i \in 1 .. n + 1} = {pos}
          BY <4>3, <1>6, <1>10
        <5>2. {o \in DOMAIN p.at : o < pos} = {}
          BY <4>3, <1>4, <1>10
        <5> QED
          BY <5>1, <5>2, <4>1, <4>2
      <4>4. CASE ~(cursor.early /\ n = 1)
        <5>1. {seen[i] : i \in 1 .. n} = {o \in DOMAIN p.at : o < pos}
          BY <4>4, <1>11
        <5>2. {seen'[i] : i \in 1 .. n + 1} = {seen[i] : i \in 1 .. n} \cup {pos}
          <6>1. 1 .. n + 1 = (1 .. n) \cup {n + 1}
            BY <1>1
          <6> QED
            BY <6>1, <1>6
        <5> QED
          BY <5>1, <5>2, <4>1, <4>2
      <4> QED
        BY <4>3, <4>4
    <3> QED
      BY <3>1, <3>2, <1>1 DEF CursorStates
  <2>3. DOMAIN seen' = 1 .. n + 1 /\ msg'[cursor'.msg] = p
    BY <1>3, <1>5, <1>6
  <2> QED
    BY <2>1, <2>2, <2>3, <1>6 DEF WalksEachOnce
<1> QED
  BY <1>7, <1>8, <1>9, <1>12, <1>13 DEF IInv, WalkInv

-----------------------------------------------------------------------------
(* Updating through a handle. *)

\* What an update through a handle does: an update in place of the field the
\* handle was pointed at.
LEMMA HandleUpdateIs ==
    ASSUME IInv, NEW h \in Handles, NEW in \in Inputs, NEW moves \in BOOLEAN,
           HandleUpdate(h, in, moves)
    PROVE  LET f == field[h]
               p == msg[f.msg]
               q == Replaced(p, f.at, in)
               o == IF in.len # f.size THEN f.at ELSE p.tail
           IN  /\ h \in fresh /\ f.msg \in Msgs /\ GoodBuffer(p)
               /\ f.at \in DOMAIN p.at /\ f = Pointed(f.msg, f.at)
               /\ IsInput(in)
               /\ Leaves(f.msg, q, o) /\ o \in Nat /\ Becomes(f.msg, q, o, moves)
               /\ DOMAIN field' = Handles
               /\ \A g \in fresh' : field'[g] = field[g]
<1> DEFINE f == field[h]
           m == f.msg
           p == msg[m]
           q == Replaced(p, f.at, in)
           o == IF in.len # f.size THEN f.at ELSE p.tail
<1>1. /\ h \in fresh /\ m \in Msgs /\ GoodBuffer(p) /\ f.at \in DOMAIN p.at
      /\ f = Pointed(m, f.at)
  BY DEF HandleUpdate, MayUse, IInv, HandlesInv, HandleCurrent, Messages
<1>2. f.type = p.at[f.at].type /\ f.size = DecodedSize(p.at[f.at])
  BY <1>1 DEF Pointed
<1>3. /\ IsInput(in) /\ in.type \in HandleTypes /\ in.type = f.type
      /\ Becomes(m, q, o, moves)
      /\ field' = [Dangle(m, moves, {h}) EXCEPT ![h] = Rebased(f, moves)]
  BY IterInputsAssumption DEF HandleUpdate, UpdateThrough
<1>4. in.type \notin SizedTypes
  BY <1>3 DEF HandleTypes, SizedTypes, PrefixedTypes, ScalarVectorTypes,
       EncodedVectorTypes, FixedWidthTypes, StructTypes,
       OneByteTypes, TwoByteTypes, FourByteTypes, EightByteTypes
<1>5. Leaves(m, q, o) /\ o \in Nat
  <2>1. GoodBuffer(q) /\ KeepsBelow(p, q, o)
    BY <1>1, <1>2, <1>3, <1>4, ReplacedGood DEF KeepsFraming
  <2> QED
    BY <2>1, <1>1, Offsets DEF Leaves
<1>6. DOMAIN field' = Handles /\ \A g \in fresh' : field'[g] = field[g]
  <2>1. DOMAIN field' = Handles
    BY <1>3 DEF Dangle
  <2>2. ASSUME NEW g \in fresh' PROVE field'[g] = field[g]
    <3>1. g \in fresh /\ g \in Handles /\ (moves => g \notin Into(m))
      BY <1>3 DEF Becomes, IInv, HandlesInv
    <3>2. CASE g = h
      <4>1. ~moves
        BY <3>1, <3>2, <1>1 DEF Into, IInv, HandlesInv
      <4>2. Rebased(f, moves) = f
        BY <4>1, <1>1 DEF Rebased, Pointed
      <4> QED
        BY <3>2, <4>2, <1>3 DEF Dangle
    <3>3. CASE g # h
      BY <3>1, <3>3, <1>3 DEF Dangle
    <3> QED
      BY <3>2, <3>3
  <2> QED
    BY <2>1, <2>2
<1> HIDE DEF f, q, o
<1> QED
  BY <1>1, <1>3, <1>5, <1>6 DEF f, q, o

LEMMA IInvHandleUpdate ==
    ASSUME IInv, NEW h \in Handles, NEW in \in Inputs, NEW moves \in BOOLEAN,
           HandleUpdate(h, in, moves)
    PROVE  IInv'
<1> DEFINE m == field[h].msg
           q == Replaced(msg[m], field[h].at, in)
           o == IF in.len # field[h].size THEN field[h].at ELSE msg[m].tail
<1>1. /\ m \in Msgs /\ Leaves(m, q, o) /\ o \in Nat /\ Becomes(m, q, o, moves)
      /\ DOMAIN field' = Handles
      /\ \A g \in fresh' : field'[g] = field[g]
  BY HandleUpdateIs
<1> HIDE DEF m, q, o
<1> QED
  BY <1>1, BecomesGood

\* Calls that change nothing but the last status.
LEMMA IInvNothing ==
    ASSUME IInv, UNCHANGED <<msg, field, cursor, steady, fresh, seen>>
    PROVE  IInv'
BY WalkUnchanged DEF IInv, HandlesInv, HandleCurrent, Pointed

LEMMA IInvNext == IInv /\ [Next]_vars => IInv'
<1> SUFFICES ASSUME IInv, [Next]_vars PROVE IInv'
  OBVIOUS
<1>1. CASE UNCHANGED vars
  BY <1>1, IInvNothing DEF vars
<1>2. ASSUME NEW m \in Msgs, MessageCall(m) PROVE IInv'
  BY <1>2, IInvClear, IInvGetField, IInvAdd, IInvUpdateByKey DEF MessageCall
<1>3. CASE IterCall
  BY <1>3, IInvBegin, IInvIterNext, IInvDestroy, IInvNothing DEF IterCall, IterEnd
<1>4. CASE HandleCall
  BY <1>4, IInvHandleUpdate, IInvNothing DEF HandleCall, HandleRefuse
<1> QED
  BY <1>1, <1>2, <1>3, <1>4 DEF Next

-----------------------------------------------------------------------------
(* The same words on both sides. *)

LEMMA SameWords ==
    /\ \A f, name, fid : Walk!Matches(f, name, fid) <=> Matches(f, name, fid)
    /\ \A name, fid :
        /\ Walk!NoIdentity(name, fid) <=> NoIdentity(name, fid)
        /\ Walk!BlankIdentity(name, fid) <=> BlankIdentity(name, fid)
    /\ \A from, to : Walk!Castable(from, to) <=> Castable(from, to)
    /\ Walk!Names = Names
    /\ Walk!AddedByUpdateTypes = AddedByUpdateTypes
    /\ Walk!ScalarVectorTypes = ScalarVectorTypes
    /\ Walk!Handles = Handles
BY DEF Walk!Matches, Matches, Walk!NoIdentity, NoIdentity,
       Walk!BlankIdentity, BlankIdentity, Walk!Castable, Castable,
       Walk!Names, Names, Walk!Handles, Handles,
       Walk!AddedByUpdateTypes, AddedByUpdateTypes,
       Walk!ScalarVectorTypes, ScalarVectorTypes,
       Walk!FixedWidthTypes, FixedWidthTypes, Walk!StructTypes, StructTypes,
       Walk!OneByteTypes, OneByteTypes, Walk!TwoByteTypes, TwoByteTypes,
       Walk!FourByteTypes, FourByteTypes,
       Walk!EightByteTypes, EightByteTypes

LEMMA SameField ==
    ASSUME NEW name, NEW fid, NEW in
    PROVE  AsSeen(Encode(name, fid, in)) = Walk!Field(name, fid, in)
BY DEF AsSeen, Encode, Walk!Field, Walk!StoredName, StoredName

\* A lookup in a buffer finds what it finds in the sequence of its fields.
LEMMA SameFirst ==
    ASSUME NEW p, GoodBuffer(p), NEW e, NEW n, Lists(e, n, p),
           NEW name, NEW fid
    PROVE  /\ Found(p, name, fid) <=> Walk!Hits(SeenFields(p), name, fid) # {}
           /\ Found(p, name, fid) =>
                LET k == Walk!First(SeenFields(p), name, fid)
                IN  k \in 1 .. n /\ e[k] = FirstMatch(p, name, fid)
<1> DEFINE H == Walk!Hits(SeenFields(p), name, fid)
<1>1. H = {i \in DOMAIN SeenFields(p) : Matches(SeenFields(p)[i], name, fid)}
  BY SameWords DEF Walk!Hits
<1>2. Walk!First(SeenFields(p), name, fid) =
        CHOOSE i \in H : \A j \in H : i <= j
  BY DEF Walk!First
<1> HIDE DEF H
<1>3. /\ Found(p, name, fid) <=> H # {}
      /\ Found(p, name, fid) =>
            LET k == CHOOSE i \in H : \A j \in H : i <= j
            IN  k \in 1 .. n /\ e[k] = FirstMatch(p, name, fid)
  BY <1>1, FirstListed
<1> QED
  BY <1>2, <1>3 DEF H

-----------------------------------------------------------------------------
(* Numbers of fields. *)

Starts(p) == DOMAIN p.at \cup {p.tail}

\* The k-th offset has the number k, and the tail the one after the last.
LEMMA Numbers ==
    ASSUME NEW p, GoodBuffer(p), NEW e, NEW n, Lists(e, n, p)
    PROVE  /\ n \in Nat /\ e \in [1 .. n -> DOMAIN p.at]
           /\ \A k \in 1 .. n : NumberAt(p, e[k]) = k
           /\ NumberAt(p, p.tail) = n + 1
           /\ \A o \in DOMAIN p.at :
                NumberAt(p, o) \in 1 .. n /\ e[NumberAt(p, o)] = o
<1>1. /\ DOMAIN p.at \in SUBSET Nat /\ Listing(e, n, DOMAIN p.at) /\ n \in Nat
      /\ e \in [1 .. n -> DOMAIN p.at]
  BY DEF Lists, Listing
<1>2. /\ Cardinality(DOMAIN p.at) = n
      /\ \A i \in 1 .. n : Cardinality(OffsetsBefore(DOMAIN p.at, e[i])) = i - 1
  BY <1>1, ListingCounts
<1>3. \A k \in 1 .. n : NumberAt(p, e[k]) = k
  BY <1>2 DEF NumberAt, OffsetsBefore
<1>4. {q \in DOMAIN p.at : q < p.tail} = DOMAIN p.at
  BY Offsets
<1>5. NumberAt(p, p.tail) = n + 1
  BY <1>2, <1>4 DEF NumberAt
<1>6. \A o \in DOMAIN p.at : \E k \in 1 .. n : e[k] = o
  BY <1>1 DEF Listing
<1> QED
  BY <1>1, <1>3, <1>5, <1>6

\* Numbers are in the order of the offsets.
LEMMA NumbersInOrder ==
    ASSUME NEW p, GoodBuffer(p), NEW x \in Starts(p), NEW y \in Starts(p)
    PROVE  /\ x < y <=> NumberAt(p, x) < NumberAt(p, y)
           /\ x <= y <=> NumberAt(p, x) <= NumberAt(p, y)
           /\ NumberAt(p, x) \in Nat \ {0}
<1>1. PICK e, n : Lists(e, n, p)
  BY GoodListing
<1>2. /\ n \in Nat /\ e \in [1 .. n -> DOMAIN p.at]
      /\ NumberAt(p, p.tail) = n + 1
      /\ \A o \in DOMAIN p.at :
            NumberAt(p, o) \in 1 .. n /\ e[NumberAt(p, o)] = o
  BY <1>1, Numbers
<1>3. \A i, j \in 1 .. n : i < j => e[i] < e[j]
  BY <1>1 DEF Lists, Listing
<1>4. /\ DOMAIN p.at \subseteq Nat /\ p.tail \in Nat
      /\ \A o \in DOMAIN p.at : o < p.tail
  BY Offsets
<1>5. CASE x = p.tail /\ y = p.tail
  BY <1>2, <1>4, <1>5
<1>6. CASE x = p.tail /\ y \in DOMAIN p.at
  BY <1>2, <1>4, <1>6
<1>7. CASE x \in DOMAIN p.at /\ y = p.tail
  BY <1>2, <1>4, <1>7
<1>8. CASE x \in DOMAIN p.at /\ y \in DOMAIN p.at
  <2> DEFINE i == NumberAt(p, x)
             j == NumberAt(p, y)
  <2>1. i \in 1 .. n /\ j \in 1 .. n /\ e[i] = x /\ e[j] = y /\ x \in Nat /\ y \in Nat
    BY <1>2, <1>4, <1>8
  <2> HIDE DEF i, j
  <2>2. i < j => x < y
    BY <1>3, <2>1
  <2>3. j < i => y < x
    BY <1>3, <2>1
  <2>4. i = j => x = y
    BY <2>1
  <2>5. i \in Nat /\ j \in Nat /\ i # 0
    BY <2>1, <1>2
  <2>6. (x < y <=> i < j) /\ (x <= y <=> i <= j)
    BY <2>1, <2>2, <2>3, <2>4, <2>5
  <2> QED
    BY <2>5, <2>6 DEF i, j
<1> QED
  BY <1>5, <1>6, <1>7, <1>8 DEF Starts

\* The first field is number one, and a step adds one.
LEMMA FirstNumber ==
    ASSUME NEW p, GoodBuffer(p)
    PROVE  /\ NumberAt(p, HeaderSize(p)) = 1
           /\ HeaderSize(p) < p.tail <=> SeenFields(p) # <<>>
           /\ HeaderSize(p) < p.tail => HeaderSize(p) \in DOMAIN p.at
<1>1. /\ HeaderSize(p) \in Nat /\ p.tail \in Nat /\ DOMAIN p.at \subseteq Nat
      /\ HeaderSize(p) \in DOMAIN p.at \cup {p.tail}
      /\ \A o \in DOMAIN p.at : HeaderSize(p) <= o /\ o < p.tail
      /\ HeaderSize(p) <= p.tail
  BY Offsets
<1>2. {q \in DOMAIN p.at : q < HeaderSize(p)} = {}
  BY <1>1
<1>3. NumberAt(p, HeaderSize(p)) = 1
  BY <1>2, FS_EmptySet DEF NumberAt
<1>4. PICK e, n : Lists(e, n, p)
  BY GoodListing
<1>5. n \in Nat /\ e \in [1 .. n -> DOMAIN p.at] /\ NumberAt(p, p.tail) = n + 1
  BY <1>4, Numbers
<1>6. SeenFields(p) \in Seq(SeenIn(p)) /\ Len(SeenFields(p)) = n
  BY <1>4, SeenThrough
<1>7. SeenFields(p) = <<>> <=> n = 0
  BY <1>5, <1>6
<1>8. HeaderSize(p) < p.tail <=> n # 0
  <2>1. HeaderSize(p) < p.tail <=> 1 < n + 1
    BY <1>1, <1>3, <1>5, NumbersInOrder DEF Starts
  <2> QED
    BY <2>1, <1>5
<1> QED
  BY <1>1, <1>3, <1>7, <1>8

LEMMA NextNumber ==
    ASSUME NEW p, GoodBuffer(p), NEW o \in DOMAIN p.at
    PROVE  NumberAt(p, o + DecodedLen(p.at[o])) = NumberAt(p, o) + 1
<1> DEFINE next == o + DecodedLen(p.at[o])
           A == {q \in DOMAIN p.at : q < o}
<1>1. /\ o < next /\ \A q \in DOMAIN p.at : q < next <=> q <= o
      /\ DOMAIN p.at \subseteq Nat
  BY StepInOrder, Offsets
<1>2. {q \in DOMAIN p.at : q < next} = A \cup {o} /\ o \notin A
  BY <1>1
<1>3. IsFiniteSet(A)
  <2>1. A \in SUBSET (0 .. o) /\ o \in Nat
    BY <1>1
  <2> HIDE DEF A
  <2>2. IsFiniteSet(0 .. o)
    BY <2>1, FS_Interval
  <2> QED
    BY <2>1, <2>2, FS_Subset
<1> HIDE DEF A, next
<1>4. Cardinality(A \cup {o}) = Cardinality(A) + 1
  BY <1>2, <1>3, FS_AddElement
<1>5. Cardinality(A) \in Nat
  BY <1>3, FS_CardinalityType
<1> QED
  BY <1>2, <1>4, <1>5 DEF NumberAt, A, next

-----------------------------------------------------------------------------
(* Every call is one of OmnmWalk. *)

\* The pointer that counts as undisturbed is at a field, or at the tail.
LEMMA Undisturbed ==
    ASSUME IInv
    PROVE  /\ steady =>
                /\ cursor \in CursorStates /\ cursor.msg \in Msgs
                /\ GoodBuffer(msg[cursor.msg])
                /\ cursor.pos \in Starts(msg[cursor.msg])
           /\ \A h \in fresh :
                /\ field[h].msg \in Msgs /\ GoodBuffer(msg[field[h].msg])
                /\ field[h].at \in DOMAIN msg[field[h].msg].at
                /\ field[h] # NoField /\ h \in Handles
<1>1. steady => /\ cursor \in CursorStates /\ cursor.msg \in Msgs
                /\ cursor.pos \in Starts(msg[cursor.msg])
  BY DEF IInv, CursorInv, CursorStates, WalkInv, CursorOnField, Starts
<1>2. \A h \in fresh : /\ field[h].msg \in Msgs
                       /\ field[h].at \in DOMAIN msg[field[h].msg].at
                       /\ field[h] # NoField /\ h \in Handles
  BY DEF IInv, HandlesInv, HandleCurrent
<1> QED
  BY <1>1, <1>2 DEF IInv, Messages

\* A pointer stays, and its number with it, as long as it is not behind what
\* has changed; of numbers the same can be said.
LEMMA Keeps ==
    ASSUME NEW p, GoodBuffer(p), NEW q, GoodBuffer(q), NEW o \in Nat, NEW i,
           \/ o = 0 /\ i = 0
           \/ o \in Starts(p) /\ i = NumberAt(p, o) /\ KeepsBelow(p, q, o)
    PROVE  \A x \in Starts(p) :
                /\ x <= o <=> NumberAt(p, x) <= i
                /\ x < o <=> NumberAt(p, x) < i
                /\ x <= o => NumberAt(q, x) = NumberAt(p, x)
<1> SUFFICES ASSUME NEW x \in Starts(p)
             PROVE  /\ x <= o <=> NumberAt(p, x) <= i
                    /\ x < o <=> NumberAt(p, x) < i
                    /\ x <= o => NumberAt(q, x) = NumberAt(p, x)
  OBVIOUS
<1>1. /\ x \in Nat /\ 0 < x
      /\ DOMAIN p.at \subseteq Nat /\ DOMAIN q.at \subseteq Nat
  BY Offsets DEF Starts
<1>2. NumberAt(p, x) \in Nat \ {0}
  BY NumbersInOrder
<1>3. CASE o = 0 /\ i = 0
  BY <1>1, <1>2, <1>3
<1>4. CASE o \in Starts(p) /\ i = NumberAt(p, o) /\ KeepsBelow(p, q, o)
  <2>1. (x <= o <=> NumberAt(p, x) <= i) /\ (x < o <=> NumberAt(p, x) < i)
    BY <1>4, NumbersInOrder
  <2>2. ASSUME x <= o PROVE NumberAt(q, x) = NumberAt(p, x)
    <3>1. \A y \in Nat : y < x => (y \in DOMAIN q.at <=> y \in DOMAIN p.at)
      BY <1>1, <1>4, <2>2 DEF KeepsBelow
    <3>2. {y \in DOMAIN q.at : y < x} = {y \in DOMAIN p.at : y < x}
      BY <1>1, <3>1
    <3> QED
      BY <3>2 DEF NumberAt
  <2> QED
    BY <2>1, <2>2
<1> QED
  BY <1>3, <1>4

LEMMA Disturbed ==
    ASSUME IInv, NEW m \in Msgs, NEW q, NEW o \in Nat, NEW moves \in BOOLEAN,
           Leaves(m, q, o), Becomes(m, q, o, moves),
           \A h \in fresh' : field'[h] = field[h], NEW i,
           \/ o = 0 /\ i = 0
           \/ /\ o \in Starts(msg[m]) /\ i = NumberAt(msg[m], o)
              /\ KeepsBelow(msg[m], q, o)
    PROVE  /\ Content' = [Content EXCEPT ![m] = SeenFields(q)]
           /\ Content'[m] = SeenFields(q)
           /\ Walk!Disturbs(m, i, moves)
<1> DEFINE p == msg[m]
<1>1. /\ msg' = [msg EXCEPT ![m] = q]
      /\ msg'[m] = q /\ \A n \in Msgs \ {m} : msg'[n] = msg[n]
      /\ steady' = (steady /\ ~(/\ cursor.msg = m
                                /\ moves \/ o < cursor.pos))
      /\ cursor' = IF moves /\ cursor # NoCursor /\ cursor.msg = m
                   THEN [cursor EXCEPT !.live = FALSE] ELSE cursor
      /\ fresh' = fresh \ {h \in Into(m) : moves \/ o <= field[h].at}
  BY DEF IInv, Messages, Becomes
<1>2. \A x \in Starts(p) :
        /\ x <= o <=> NumberAt(p, x) <= i
        /\ x < o <=> NumberAt(p, x) < i
        /\ x <= o => NumberAt(q, x) = NumberAt(p, x)
  BY Keeps DEF Leaves, IInv, Messages
<1>3. /\ Content' = [Content EXCEPT ![m] = SeenFields(q)]
      /\ Content'[m] = SeenFields(q)
  <2>1. \A n \in Msgs : Content'[n] = SeenFields(msg'[n])
    BY DEF Content, SeenFields, Fields
  <2>2. Content' = [n \in Msgs |-> Content'[n]]
    BY DEF Content
  <2>3. \A n \in Msgs \ {m} : Content'[n] = Content[n]
    BY <1>1, <2>1 DEF Content
  <2> QED
    BY <1>1, <2>1, <2>2, <2>3 DEF Content
<1> HIDE DEF p
<1>4. Walks' = {w \in Walks : w.msg # m \/ (~moves /\ w.next <= i)}
  <2>1. CASE ~steady
    BY <1>1, <2>1 DEF Walks
  <2>2. CASE steady
    <3> DEFINE pos == cursor.pos
               at  == msg[cursor.msg]
               w   == [msg |-> cursor.msg, next |-> NumberAt(at, pos),
                       again |-> ~cursor.begun]
    <3>1. cursor.msg \in Msgs /\ pos \in Starts(at) /\ Walks = {w} /\ pos \in Nat
      BY <2>2, Undisturbed DEF Walks, CursorStates
    <3>2. steady' <=> cursor.msg # m \/ (~moves /\ pos <= o)
      <4>1. o < pos <=> ~(pos <= o)
        BY <3>1
      <4> HIDE DEF pos, at, w
      <4>2. steady' <=> ~(cursor.msg = m /\ (moves \/ o < pos))
        BY <1>1, <2>2, Zenon DEF pos
      <4> QED
        BY <4>1, <4>2, Zenon
    <3>3. w.msg = cursor.msg /\ w.next = NumberAt(at, pos)
      OBVIOUS
    <3>4. steady' <=> cursor.msg # m \/ (~moves /\ NumberAt(at, pos) <= i)
      BY <1>2, <3>1, <3>2 DEF p
    <3>5. ASSUME steady' PROVE Walks' = {w}
      <4>1. cursor' = cursor
        BY <1>1, <3>2, <3>5
      <4>2. NumberAt(msg'[cursor.msg], pos) = NumberAt(at, pos)
        BY <1>1, <1>2, <3>1, <3>2, <3>5 DEF p
      <4>3. Walks' = {[msg |-> cursor'.msg,
                       next |-> NumberAt(msg'[cursor'.msg], cursor'.pos),
                       again |-> ~cursor'.begun]}
        BY <3>5 DEF Walks, NumberAt
      <4> QED
        BY <4>1, <4>2, <4>3
    <3>6. ~steady' => Walks' = {}
      BY DEF Walks
    <3> HIDE DEF w, at, pos
    <3> QED
      BY <3>1, <3>3, <3>4, <3>5, <3>6
  <2> QED
    BY <2>1, <2>2
<1>5. Points' = [h \in {g \in DOMAIN Points :
                          Points[g].msg # m \/ (~moves /\ Points[g].field < i)}
                  |-> Points[h]]
  <2> DEFINE Stays(g) == Points[g].msg # m \/ (~moves /\ Points[g].field < i)
  <2>1. DOMAIN Points = fresh
    BY DEF Points
  <2>2. \A h \in fresh :
          /\ Points[h].msg = field[h].msg
          /\ Points[h].field = NumberAt(msg[field[h].msg], field[h].at)
    BY DEF Points
  <2>3. ASSUME NEW h \in fresh PROVE h \in fresh' <=> Stays(h)
    <3>1. h \in Handles /\ field[h] # NoField
          /\ field[h].at \in Starts(msg[field[h].msg]) /\ field[h].at \in Nat
      BY Undisturbed, Offsets DEF Starts
    <3>2. h \in fresh' <=> field[h].msg # m \/ (~moves /\ field[h].at < o)
      BY <1>1, <3>1 DEF Into
    <3> QED
      BY <1>2, <2>2, <3>1, <3>2 DEF p
  <2>4. fresh' = {g \in fresh : Stays(g)}
    BY <1>1, <2>3
  <2>5. Points' = [h \in fresh' |->
                    [msg |-> field'[h].msg,
                     field |-> NumberAt(msg'[field'[h].msg], field'[h].at)]]
    BY DEF Points, NumberAt
  <2>6. ASSUME NEW h \in fresh'
        PROVE  [msg |-> field'[h].msg,
                field |-> NumberAt(msg'[field'[h].msg], field'[h].at)] = Points[h]
    <3>1. h \in fresh /\ field'[h] = field[h]
      BY <1>1
    <3>2. NumberAt(msg'[field[h].msg], field[h].at)
            = NumberAt(msg[field[h].msg], field[h].at)
      <4>1. CASE field[h].msg # m
        BY <1>1, <3>1, <4>1, Undisturbed
      <4>2. CASE field[h].msg = m
        <5>1. field[h].at \in Starts(p) /\ field[h].at \in Nat /\ h \in Handles
              /\ field[h] # NoField
          BY <3>1, <4>2, Undisturbed, Offsets DEF Starts, p
        <5>2. field[h].at < o
          BY <1>1, <4>2, <5>1 DEF Into
        <5> QED
          BY <1>1, <1>2, <4>2, <5>1, <5>2 DEF p
      <4> QED
        BY <4>1, <4>2
    <3> QED
      BY <3>1, <3>2 DEF Points
  <2> HIDE DEF Stays
  <2>7. Points' = [h \in fresh' |-> Points[h]]
    BY <2>5, <2>6
  <2>8. {g \in DOMAIN Points : Stays(g)} = fresh'
    BY <2>1, <2>4
  <2>9. Points' = [h \in {g \in DOMAIN Points : Stays(g)} |-> Points[h]]
    BY <2>7, <2>8
  <2> QED
    BY <2>9 DEF Stays
<1> QED
  BY <1>3, <1>4, <1>5 DEF Walk!Disturbs

\* Calls that change nothing a client can tell.
LEMMA SeenSame ==
    ASSUME msg' = msg, steady' <=> steady, steady => cursor' = cursor,
           fresh' = fresh, \A h \in fresh : field'[h] = field[h]
    PROVE  Content' = Content /\ Walks' = Walks /\ Points' = Points
<1>1. Content' = Content
  BY DEF Content, SeenFields, Fields
<1>2. Walks' = Walks
  BY DEF Walks, NumberAt
<1>3. Points' = Points
  BY DEF Points, NumberAt
<1> QED
  BY <1>1, <1>2, <1>3

LEMMA RefusedSame ==
    ASSUME IInv, NEW m \in Msgs, NEW moves \in BOOLEAN,
           Becomes(m, msg[m], msg[m].tail, moves), field' = Dangle(m, moves, {})
    PROVE  Content' = Content /\ Walks' = Walks /\ Points' = Points
<1> DEFINE p == msg[m]
<1>1. GoodBuffer(p) /\ p.cap \in Nat
  BY DEF IInv, Messages, GoodBuffer, IsBuffer
<1>2. ~moves
  BY <1>1 DEF Becomes, MayMove
<1>3. msg' = msg /\ cursor' = cursor
  BY <1>2 DEF Becomes, IInv, Messages
<1>4. /\ p.tail \in Nat /\ DOMAIN p.at \subseteq Nat
      /\ \A o \in DOMAIN p.at : o < p.tail
  BY <1>1, Offsets
<1>5. steady' <=> steady
  <2>1. steady /\ cursor.msg = m => ~(p.tail < cursor.pos)
    BY <1>4, Undisturbed DEF Starts
  <2>2. steady' = (steady /\ ~(cursor.msg = m /\ (moves \/ p.tail < cursor.pos)))
    BY DEF Becomes
  <2> QED
    BY <1>2, <2>1, <2>2
<1>6. fresh' = fresh
  <2>1. \A h \in fresh : field[h].msg = m => ~(p.tail <= field[h].at)
    BY <1>4, Undisturbed
  <2> QED
    BY <1>2, <2>1 DEF Becomes, Into
<1>7. \A h \in fresh : field'[h] = field[h]
  BY <1>2, Undisturbed DEF Dangle
<1> QED
  BY <1>3, <1>5, <1>6, <1>7, SeenSame

\* The update in place of the field at an offset is that of the field with
\* its number.
LEMMA SimSets ==
    ASSUME IInv, NEW m \in Msgs, NEW o \in DOMAIN msg[m].at,
           NEW in, IsInput(in), NEW moves \in BOOLEAN, NEW q, NEW x \in Nat,
           q = Replaced(msg[m], o, in), x = Shifted(msg[m], o, in),
           Leaves(m, q, x), Becomes(m, q, x, moves),
           \A h \in fresh' : field'[h] = field[h]
    PROVE  LET k == NumberAt(msg[m], o)
               s == Content[m]
           IN  /\ Content' = [Content EXCEPT ![m] = Content'[m]]
               /\ Walk!Sets(m, s, Content'[m], k, in)
<1> DEFINE p == msg[m]
           k == NumberAt(p, o)
           s == Content[m]
<1>1. GoodBuffer(p) /\ s = SeenFields(p)
  BY DEF IInv, Messages, Content
<1>2. PICK e, n : Lists(e, n, p)
  BY <1>1, GoodListing
<1>3. k \in 1 .. n /\ e[k] = o /\ NumberAt(p, p.tail) = n + 1
  BY <1>1, <1>2, Numbers
<1>4. s[k] = AsSeen(p.at[o]) /\ Len(s) = n
  BY <1>1, <1>2, <1>3, SeenThrough
<1>5. DecodedSize(p.at[o]) = p.at[o].data.len
  BY <1>1, ReadsBack DEF GoodBuffer, IsBuffer, IsLayout, FramedBuffer, FramedFields
<1>6. s[k].data.len = DecodedSize(p.at[o])
  BY <1>4, <1>5 DEF AsSeen
<1>7. SeenFields(q) = [s EXCEPT ![k].data = in]
  <2>1. \A j \in 1 .. n :
            SeenFields(Replaced(p, e[j], in)) = [SeenFields(p) EXCEPT ![j].data = in]
    BY <1>1, <1>2, ReplacedSeen
  <2> HIDE DEF k, s
  <2> QED
    BY <1>1, <1>3, <2>1
<1>8. moves => in.len > s[k].data.len
  <2>1. q.cap = IF in.len > DecodedSize(p.at[o])
                THEN (p.cap + in.len) - DecodedSize(p.at[o]) ELSE p.cap
    BY <1>1 DEF Replaced, GoodBuffer, IsBuffer
  <2>2. p.cap \in Nat
    BY <1>1 DEF GoodBuffer, IsBuffer
  <2>3. moves => q.cap > p.cap
    BY DEF Becomes, MayMove
  <2> QED
    BY <1>6, <2>1, <2>2, <2>3
<1> DEFINE i == IF in.len # s[k].data.len THEN k ELSE Walk!Behind(s)
<1>9. x \in Starts(p) /\ i = NumberAt(p, x) /\ 0 < x
  <2>1. \A y \in Starts(p) : 0 < y
    BY <1>1, Offsets DEF Starts
  <2>2. CASE in.len # DecodedSize(p.at[o])
    <3>1. x = o /\ i = k
      BY <1>6, <2>2 DEF Shifted
    <3> QED
      BY <2>1, <3>1 DEF Starts
  <2>3. CASE in.len = DecodedSize(p.at[o])
    <3>1. x = p.tail /\ i = n + 1
      BY <1>4, <1>6, <2>3 DEF Shifted, Walk!Behind
    <3> QED
      BY <2>1, <3>1, <1>3 DEF Starts
  <2> QED
    BY <2>2, <2>3
<1> HIDE DEF i, k, s
<1>10. KeepsBelow(p, q, x)
  BY <1>9 DEF Leaves
<1>11. /\ Content' = [Content EXCEPT ![m] = SeenFields(q)]
       /\ Content'[m] = SeenFields(q)
       /\ Walk!Disturbs(m, i, moves)
  BY <1>9, <1>10, Disturbed
<1>12. Walk!Sets(m, s, Content'[m], k, in)
  BY <1>7, <1>8, <1>11 DEF Walk!Sets, i
<1> QED
  BY <1>11, <1>12 DEF k, s

\* What is added comes behind the last field.
LEMMA SimAppends ==
    ASSUME IInv, NEW m \in Msgs, NEW name \in Names, NEW fid \in Fids,
           NEW in \in Inputs, NEW moves \in BOOLEAN, NEW op, NEW r,
           r = AddField(msg[m], name, fid, in),
           Becomes(m, r.buf, msg[m].tail, moves), field' = Dangle(m, moves, {}),
           ret' = [op |-> op, status |-> r.status]
    PROVE  /\ Content' = [Content EXCEPT ![m] = Content'[m]]
           /\ Walk!Appends(m, op, Content[m], Content'[m], name, fid, in)
<1> DEFINE p == msg[m]
           f == Encode(name, fid, in)
           s == Content[m]
<1>1. /\ GoodBuffer(p) /\ s = SeenFields(p) /\ IsInput(in) /\ fid \in Nat
      /\ Content = [n \in Msgs |-> Content[n]]
  BY IterInputsAssumption DEF IInv, Messages, Content
<1>2. AddStatus(name, fid, in) = "OK" <=> Walk!Storable(name, fid, in)
  <2>1. in.len \in Nat /\ MaxU32 \in Nat
    BY <1>1, ValueLength, MaxU32Assumption
  <2> QED
    BY <2>1, SameWords DEF AddStatus, Walk!Storable
<1>3. CASE AddStatus(name, fid, in) = "OK"
  <2>1. r.buf = Appended(p, f) /\ r.status = "OK"
    BY <1>3 DEF AddField, Outcome
  <2>2. SeenFields(r.buf) = Append(s, Walk!Field(name, fid, in))
    BY <1>1, <2>1, AppendedSeen, SameField
  <2>3. GoodBuffer(r.buf) /\ KeepsBelow(p, r.buf, p.tail)
    BY <1>1, AddFieldKeeps
  <2>4. PICK e, n : Lists(e, n, p)
    BY <1>1, GoodListing
  <2>5. NumberAt(p, p.tail) = Walk!Behind(s) /\ p.tail \in Starts(p) /\ p.tail \in Nat
    <3>1. NumberAt(p, p.tail) = n + 1 /\ Len(s) = n
      BY <1>1, <2>4, Numbers, SeenThrough
    <3> QED
      BY <1>1, <3>1, Offsets DEF Walk!Behind, Starts
  <2>6. \A h \in fresh' : field'[h] = field[h]
    BY DangleKeeps
  <2> HIDE DEF f, s
  <2>7. /\ Content' = [Content EXCEPT ![m] = SeenFields(r.buf)]
        /\ Content'[m] = SeenFields(r.buf)
        /\ Walk!Disturbs(m, Walk!Behind(s), moves)
    BY <2>3, <2>5, <2>6, Disturbed DEF Leaves
  <2> QED
    BY <1>2, <1>3, <2>1, <2>2, <2>7 DEF Walk!Appends, Walk!Return, s
<1>4. CASE AddStatus(name, fid, in) # "OK"
  <2>1. r.buf = p /\ r.status # "OK"
    BY <1>4 DEF AddField, Outcome
  <2>2. Content' = Content /\ Walks' = Walks /\ Points' = Points
    BY <2>1, RefusedSame
  <2>3. Walk!Refused(op, s, Content'[m])
    BY <2>1, <2>2 DEF Walk!Refused, Walk!Untouched
  <2> QED
    BY <1>1, <1>2, <1>4, <2>2, <2>3 DEF Walk!Appends
<1> QED
  BY <1>3, <1>4

\* A handle that is pointed at an offset points at the field there.
LEMMA PointedAt ==
    ASSUME IInv, NEW h \in Handles, NEW m \in Msgs, NEW o \in DOMAIN msg[m].at,
           msg' = msg, field' = [field EXCEPT ![h] = Pointed(m, o)],
           fresh' = fresh \cup {h}
    PROVE  Walk!PointsAt(h, m, NumberAt(msg[m], o))
<1>1. /\ field'[h].msg = m /\ field'[h].at = o
      /\ \A g \in Handles : g # h => field'[g] = field[g]
  BY DEF IInv, HandlesInv, Pointed
<1>2. Points' = [g \in fresh' |->
                    [msg |-> field'[g].msg,
                     field |-> NumberAt(msg[field'[g].msg], field'[g].at)]]
  BY DEF Points, NumberAt
<1>3. DOMAIN Points = fresh /\ fresh \subseteq Handles
  BY DEF Points, IInv, HandlesInv
<1>4. \A g \in fresh : g # h =>
        [msg |-> field'[g].msg,
         field |-> NumberAt(msg[field'[g].msg], field'[g].at)] = Points[g]
  BY <1>1, <1>3 DEF Points
<1> QED
  BY <1>1, <1>2, <1>3, <1>4 DEF Walk!PointsAt

LEMMA SameContent ==
    ASSUME msg' = msg
    PROVE  Content' = Content
BY DEF Content, SeenFields, Fields

LEMMA ContentOf ==
    ASSUME IInv, NEW m \in Msgs
    PROVE  /\ GoodBuffer(msg[m]) /\ Content[m] = SeenFields(msg[m])
           /\ Content = [Content EXCEPT ![m] = Content[m]]
BY DEF Content, IInv, Messages

LEMMA SimAdd ==
    ASSUME IInv, NEW m \in Msgs, NEW name \in Names, NEW fid \in Fids,
           NEW in \in Inputs, NEW moves \in BOOLEAN, Add(m, name, fid, in, moves)
    PROVE  /\ Content' = [Content EXCEPT ![m] = Content'[m]]
           /\ Walk!Add(m, Content[m], Content'[m], name, fid, in)
<1> DEFINE r == AddField(msg[m], name, fid, in)
<1>1. /\ in.type \notin AddedByUpdateTypes
      /\ Becomes(m, r.buf, msg[m].tail, moves) /\ field' = Dangle(m, moves, {})
      /\ ret' = [op |-> "add", status |-> r.status]
  BY DEF Add, Return
<1> HIDE DEF r
<1>2. /\ Content' = [Content EXCEPT ![m] = Content'[m]]
      /\ Walk!Appends(m, "add", Content[m], Content'[m], name, fid, in)
  BY <1>1, SimAppends DEF r
<1> QED
  BY <1>1, <1>2, SameWords DEF Walk!Add

LEMMA SimClear ==
    ASSUME IInv, NEW m \in Msgs, Clear(m)
    PROVE  /\ Content' = [Content EXCEPT ![m] = Content'[m]]
           /\ Walk!Clear(m, Content'[m])
<1> DEFINE q == Cleared(msg[m])
<1>1. GoodBuffer(msg[m])
  BY ContentOf
<1>2. GoodBuffer(q)
  BY <1>1, ClearedGood DEF GoodBuffer, SafeBuffer
<1>3. q.at = NoFields
  BY <1>1 DEF Cleared, GoodBuffer, IsBuffer
<1>4. SeenFields(q) = <<>>
  BY <1>3, NothingSeen
<1>5. /\ Leaves(m, q, 0) /\ Becomes(m, q, 0, FALSE) /\ field' = field
      /\ ret' = [op |-> "clear", status |-> "OK"]
  BY <1>2 DEF Leaves, Clear, Return
<1> HIDE DEF q
<1>6. /\ Content' = [Content EXCEPT ![m] = SeenFields(q)]
      /\ Content'[m] = SeenFields(q)
      /\ Walk!Disturbs(m, 0, FALSE)
  BY <1>5, Disturbed
<1> QED
  BY <1>4, <1>5, <1>6 DEF Walk!Clear, Walk!Return

LEMMA SimUpdateByKey ==
    ASSUME IInv, NEW m \in Msgs, NEW name \in Names, NEW fid \in Fids,
           NEW in \in Inputs, NEW moves \in BOOLEAN,
           UpdateByKey(m, name, fid, in, moves)
    PROVE  /\ Content' = [Content EXCEPT ![m] = Content'[m]]
           /\ Walk!Update(m, Content[m], Content'[m], name, fid, in)
<1> DEFINE p == msg[m]
           s == Content[m]
           k == Walk!First(s, name, fid)
           r == UpdateField(p, name, fid, in)
           f == FirstMatch(p, name, fid)
           o == IF r.status = "OK" /\ Found(p, name, fid)
                THEN Shifted(p, f, in) ELSE p.tail
<1>1. /\ in.type \notin ScalarVectorTypes
      /\ FitsPrefix(in) /\ KeepsWidth(p, name, fid, in)
      /\ Becomes(m, r.buf, o, moves) /\ field' = Dangle(m, moves, {})
      /\ ret' = [op |-> "update", status |-> r.status]
  BY DEF UpdateByKey, Return
<1>2. /\ GoodBuffer(p) /\ s = SeenFields(p) /\ Content = [Content EXCEPT ![m] = s]
      /\ IsInput(in) /\ fid \in Nat
  BY ContentOf, IterInputsAssumption
<1>3. GoodBuffer(r.buf) /\ KeepsBelow(p, r.buf, o) /\ o \in Nat
  BY <1>1, <1>2, UpdateFieldKeeps
<1>4. PICK e, n : Lists(e, n, p)
  BY <1>2, GoodListing
<1>5. /\ Found(p, name, fid) <=> Walk!Hits(s, name, fid) # {}
      /\ Found(p, name, fid) => k \in 1 .. n /\ e[k] = f
  BY <1>2, <1>4, SameFirst
<1>6. in.type \notin Walk!ScalarVectorTypes /\ ret'.op = "update"
  BY <1>1, SameWords
\* A refusal leaves the buffer and the pointers as they are.
<1>7. ASSUME r.buf = p, r.status # "OK"
      PROVE  /\ Content' = Content
             /\ Walk!Refused("update", s, Content'[m])
  <2>1. Becomes(m, msg[m], msg[m].tail, moves)
    BY <1>1, <1>7
  <2> HIDE DEF r, s
  <2>2. Content' = Content /\ Walks' = Walks /\ Points' = Points
    BY <1>1, <2>1, RefusedSame
  <2> QED
    BY <1>1, <1>7, <2>2 DEF Walk!Refused, Walk!Untouched, s
<1>8. CASE NoIdentity(name, fid)
  <2>1. r.buf = p /\ r.status # "OK"
    BY <1>8 DEF UpdateField, Outcome
  <2> QED
    BY <1>2, <1>6, <1>7, <1>8, <2>1, SameWords DEF Walk!Update
<1>9. CASE ~NoIdentity(name, fid) /\ ~Found(p, name, fid)
  <2>1. r = AddField(p, name, fid, in)
    BY <1>9 DEF UpdateField
  <2>2. Becomes(m, r.buf, msg[m].tail, moves)
    BY <1>1, <1>9
  <2> HIDE DEF r, s
  <2>3. /\ Content' = [Content EXCEPT ![m] = Content'[m]]
        /\ Walk!Appends(m, "update", Content[m], Content'[m], name, fid, in)
    BY <1>1, <2>1, <2>2, SimAppends
  <2> QED
    BY <1>5, <1>6, <1>9, <2>3, SameWords DEF Walk!Update, s
<1>10. CASE ~NoIdentity(name, fid) /\ Found(p, name, fid)
  <2>1. f \in DOMAIN p.at /\ r = UpdateAt(p, f, in)
    BY <1>2, <1>10, FirstMatchFound DEF GoodBuffer, UpdateField
  <2>2. s[k] = AsSeen(p.at[f]) /\ NumberAt(p, f) = k
    BY <1>2, <1>4, <1>5, <1>10, SeenThrough, Numbers
  <2>3. Accepts(p.at[f], in) <=> Walk!Fits(s[k].type, in)
    BY <2>2, SameWords DEF Accepts, Walk!Fits, AsSeen
  <2>4. CASE Accepts(p.at[f], in)
    <3>1. r.status = "OK" /\ r.buf = Replaced(p, f, in)
      BY <2>1, <2>4 DEF UpdateAt, Outcome
    <3>2. o = Shifted(p, f, in)
      BY <1>10, <3>1
    <3>3. Leaves(m, r.buf, o)
      BY <1>3 DEF Leaves
    <3>4. \A h \in fresh' : field'[h] = field[h]
      BY <1>1, DangleKeeps
    <3> HIDE DEF o, r, f, s, k
    <3>5. /\ Content' = [Content EXCEPT ![m] = Content'[m]]
          /\ Walk!Sets(m, s, Content'[m], k, in)
      BY <1>1, <1>2, <1>3, <2>1, <2>2, <3>1, <3>2, <3>3, <3>4, SimSets DEF s
    <3>6. Walk!Return("update", "OK")
      BY <1>1, <3>1 DEF Walk!Return
    <3> QED
      BY <1>5, <1>6, <1>10, <2>3, <2>4, <3>5, <3>6, SameWords
         DEF Walk!Update, k, s
  <2>5. CASE ~Accepts(p.at[f], in)
    <3>1. r.buf = p /\ r.status # "OK"
      BY <2>1, <2>5 DEF UpdateAt, Outcome
    <3> HIDE DEF o, r, f
    <3> QED
      BY <1>2, <1>5, <1>6, <1>7, <1>10, <2>3, <2>5, <3>1, SameWords DEF Walk!Update
  <2> QED
    BY <2>4, <2>5
<1> QED
  BY <1>8, <1>9, <1>10

LEMMA SimGetField ==
    ASSUME IInv, NEW m \in Msgs, NEW name \in Names, NEW fid \in Fids,
           GetField(m, name, fid)
    PROVE  /\ Content' = [Content EXCEPT ![m] = Content'[m]]
           /\ Walk!GetField(m, Content[m], Content'[m], name, fid)
<1> DEFINE p == msg[m]
           s == Content[m]
           k == Walk!First(s, name, fid)
           f == FirstMatch(p, name, fid)
           status == GetFieldStatus(p, name, fid)
           usable == ~NoIdentity(name, fid) /\ ~BlankIdentity(name, fid)
<1>1. /\ GoodBuffer(p) /\ s = SeenFields(p) /\ Content = [Content EXCEPT ![m] = s]
      /\ msg' = msg /\ Content' = Content
      /\ cursor' = cursor /\ steady' = steady
      /\ ret' = [op |-> "getField", status |-> status]
  BY ContentOf, SameContent DEF GetField, Return
<1>2. Walks' = Walks
  BY <1>1 DEF Walks, NumberAt
<1>3. PICK e, n : Lists(e, n, p)
  BY <1>1, GoodListing
<1>4. /\ Found(p, name, fid) <=> Walk!Hits(s, name, fid) # {}
      /\ Found(p, name, fid) => k \in 1 .. n /\ e[k] = f
  BY <1>1, <1>3, SameFirst
<1>5. status = "OK" <=> usable /\ Found(p, name, fid)
  BY NamesAssumption DEF GetFieldStatus, NoIdentity, BlankIdentity
<1> HIDE DEF s, usable, status
<1>6. CASE status = "OK"
  <2>1. f \in DOMAIN p.at
    BY <1>1, <1>5, <1>6, FirstMatchFound DEF GoodBuffer
  <2>2. NumberAt(p, f) = k
    BY <1>1, <1>3, <1>4, <1>5, <1>6, Numbers
  <2>3. /\ field' = [field EXCEPT ![m] = Pointed(m, f)]
        /\ fresh' = fresh \cup {m} /\ m \in Handles
    BY <1>6 DEF GetField, Handles, status
  <2> HIDE DEF f
  <2>4. Walk!PointsAt(m, m, NumberAt(p, f))
    BY <1>1, <2>1, <2>3, PointedAt
  <2> HIDE DEF k, p
  <2>5. Walk!PointsAt(m, m, k)
    BY <2>2, <2>4
  <2>6. Walk!Return("getField", "OK")
    BY <1>1, <1>6 DEF Walk!Return
  <2> QED
    BY <1>1, <1>2, <1>4, <1>5, <1>6, <2>5, <2>6, SameWords
       DEF Walk!GetField, usable, k, s
<1>7. CASE status # "OK"
  <2>1. field' = field /\ fresh' = fresh
    BY <1>7 DEF GetField, status
  <2>2. Points' = Points
    BY <1>1, <2>1 DEF Points, NumberAt
  <2>3. Walk!Refused("getField", s, Content'[m])
    BY <1>1, <1>2, <1>7, <2>2 DEF Walk!Refused, Walk!Untouched, s
  <2> QED
    BY <1>1, <1>4, <1>5, <1>7, <2>3, SameWords DEF Walk!GetField, usable, s
<1> QED
  BY <1>6, <1>7

\* An iterator begins at field number one, and its handle with it.
LEMMA SimBegin ==
    ASSUME IInv, NEW m \in Msgs, IterCreate(m) \/ Associate(m)
    PROVE  /\ Content' = [Content EXCEPT ![m] = Content'[m]]
           /\ Walk!Begin(m, Content[m], Content'[m])
<1> DEFINE p == msg[m]
           s == Content[m]
           first == HeaderSize(p)
<1>1. PICK parent : Begin(m, parent)
  BY DEF IterCreate, Associate
<1>2. /\ GoodBuffer(p) /\ s = SeenFields(p) /\ Content = [Content EXCEPT ![m] = s]
      /\ msg' = msg /\ Content' = Content
  BY ContentOf, SameContent DEF IterCreate, Associate
<1>3. Walk!Return("create", "OK") \/ Walk!Return("associate", "OK")
  BY DEF IterCreate, Associate, Return, Walk!Return
<1>4. /\ NumberAt(p, first) = 1
      /\ HasFields(m) <=> s # <<>>
      /\ HasFields(m) => first \in DOMAIN p.at
  BY <1>2, FirstNumber DEF HasFields
<1>5. /\ cursor'.msg = m /\ cursor'.pos = first
      /\ cursor'.begun = HasFields(m) /\ steady'
  BY <1>1 DEF Begin
<1> HIDE DEF s, first
<1>6. ~cursor'.begun = (s = <<>>)
  BY <1>4, <1>5 DEF HasFields
<1>7. Walks' = {[msg |-> m, next |-> 1, again |-> s = <<>>]}
  <2>1. Walks' = {[msg |-> cursor'.msg,
                   next |-> NumberAt(msg'[cursor'.msg], cursor'.pos),
                   again |-> ~cursor'.begun]}
    BY <1>5 DEF Walks, NumberAt
  <2> QED
    BY <1>2, <1>4, <1>5, <1>6, <2>1
<1>8. IF s = <<>> THEN Points' = Points ELSE Walk!PointsAt(Iter, m, 1)
  <2>1. CASE HasFields(m)
    <3>1. /\ field' = [field EXCEPT ![Iter] = Pointed(m, first)]
          /\ fresh' = fresh \cup {Iter} /\ Iter \in Handles
      BY <1>1, <2>1 DEF Begin, Handles, first
    <3>2. Walk!PointsAt(Iter, m, NumberAt(p, first))
      BY <1>2, <1>4, <2>1, <3>1, PointedAt
    <3> HIDE DEF p
    <3> QED
      BY <1>4, <2>1, <3>2
  <2>2. CASE ~HasFields(m)
    <3>1. field' = field /\ fresh' = fresh
      BY <1>1, <2>2 DEF Begin
    <3>2. Points' = Points
      BY <1>2, <3>1 DEF Points, NumberAt
    <3> QED
      BY <1>4, <2>2, <3>2
  <2> QED
    BY <2>1, <2>2
<1> QED
  BY <1>2, <1>3, <1>7, <1>8 DEF Walk!Begin, s

\* A step returns the field whose number the walk has come to.
LEMMA SimIterNext ==
    ASSUME IInv, IterNext
    PROVE  Content' = Content /\ Walk!NextField(Content)
<1> DEFINE m == cursor.msg
           p == msg[m]
           pos == cursor.pos
           next == pos + DecodedLen(p.at[pos])
           w == [msg |-> m, next |-> NumberAt(p, pos), again |-> ~cursor.begun]
<1>1. /\ cursor # NoCursor /\ cursor \in CursorStates /\ m \in Msgs
      /\ pos \in Nat /\ GoodBuffer(p)
  BY DEF IterNext, MayStep, IInv, CursorInv, CursorStates, Messages
<1>2. steady /\ pos \in DOMAIN p.at
  BY <1>1, Offsets DEF IterNext, MayStep, HasNext, IInv, WalkInv, CursorOnField
<1>3. /\ cursor' = [cursor EXCEPT
                        !.pos = IF cursor.begun THEN next ELSE HeaderSize(p),
                        !.begun = TRUE]
      /\ field' = [field EXCEPT ![Iter] = Pointed(m, pos)]
      /\ fresh' = fresh \cup {Iter} /\ Iter \in Handles
      /\ msg' = msg /\ steady' = steady /\ Content' = Content
      /\ ret' = [op |-> "next", status |-> "OK"]
  BY SameContent DEF IterNext, Step, Handles, Return
<1>4. /\ NumberAt(p, next) = NumberAt(p, pos) + 1
      /\ NumberAt(p, HeaderSize(p)) = 1
      /\ ~cursor.begun => pos = HeaderSize(p)
  BY <1>1, <1>2, NextNumber, FirstNumber DEF IInv, WalkInv, Rewinds, First
<1>5. Walk!PointsAt(Iter, m, NumberAt(p, pos))
  BY <1>1, <1>2, <1>3, PointedAt
<1>6. NumberAt(p, pos) <= Len(Content[m])
  <2>1. PICK e, n : Lists(e, n, p)
    BY <1>1, GoodListing
  <2>2. NumberAt(p, pos) \in 1 .. n /\ Len(SeenFields(p)) = n
    BY <1>1, <1>2, <2>1, Numbers, SeenThrough
  <2> QED
    BY <1>1, <2>2, ContentOf
<1>7. cursor.begun \in BOOLEAN
  BY <1>1 DEF CursorStates
<1> HIDE DEF next
<1>8. /\ cursor'.msg = m /\ cursor'.begun
      /\ cursor'.pos = IF cursor.begun THEN next ELSE HeaderSize(p)
  BY <1>1, <1>3 DEF CursorStates
<1>9. Walks' = {[msg |-> cursor'.msg,
                 next |-> NumberAt(msg'[cursor'.msg], cursor'.pos),
                 again |-> ~cursor'.begun]}
  BY <1>2, <1>3 DEF Walks, NumberAt
<1>10. NumberAt(p, cursor'.pos) = IF w.again THEN w.next ELSE w.next + 1
  BY <1>4, <1>7, <1>8
<1>11. ~cursor'.begun = FALSE
  BY <1>8
<1>12. Walks' = {[msg |-> w.msg, again |-> FALSE,
                  next |-> IF w.again THEN w.next ELSE w.next + 1]}
  BY <1>3, <1>8, <1>9, <1>10, <1>11
<1>13. w \in Walks /\ w.next <= Len(Content[w.msg])
       /\ Walk!PointsAt(Iter, w.msg, w.next)
  BY <1>2, <1>5, <1>6 DEF Walks
<1>14. Walk!Return("next", "OK")
  BY <1>3 DEF Walk!Return
<1> HIDE DEF w
<1> QED
  BY <1>3, <1>12, <1>13, <1>14 DEF Walk!NextField

LEMMA SimIterEnd ==
    ASSUME IInv, IterEnd
    PROVE  Content' = Content /\ Walk!AtEnd(Content)
<1>1. Content' = Content /\ Walks' = Walks /\ Points' = Points
  BY SeenSame DEF IterEnd
<1>2. Walk!Return("next", "NULL")
  BY DEF IterEnd, Return, Walk!Return
<1>3. \A w \in Walks : w.next > Len(Content[w.msg])
  <2> SUFFICES ASSUME steady
               PROVE  NumberAt(msg[cursor.msg], cursor.pos) > Len(Content[cursor.msg])
    BY DEF Walks
  <2> DEFINE p == msg[cursor.msg]
  <2>1. /\ cursor.msg \in Msgs /\ GoodBuffer(p) /\ cursor.pos \in Starts(p)
    BY Undisturbed
  <2>2. cursor.pos = p.tail
    BY <2>1, Offsets DEF IterEnd, HasNext, Starts
  <2>3. PICK e, n : Lists(e, n, p)
    BY <2>1, GoodListing
  <2>4. NumberAt(p, p.tail) = n + 1 /\ n \in Nat /\ Len(SeenFields(p)) = n
    BY <2>1, <2>3, Numbers, SeenThrough
  <2> QED
    BY <2>1, <2>2, <2>4, ContentOf
<1> QED
  BY <1>1, <1>2, <1>3 DEF Walk!AtEnd, Walk!Untouched

LEMMA SimDestroy ==
    ASSUME IInv, IterDestroy
    PROVE  Content' = Content /\ Walk!Destroy
<1>1. /\ msg' = msg /\ ~steady' /\ fresh' = fresh \ {Iter}
      /\ field' = [field EXCEPT ![Iter] = NoField] /\ Content' = Content
      /\ Walk!Return("destroy", "OK")
  BY SameContent DEF IterDestroy, Return, Walk!Return
<1>2. Walks' = {}
  BY <1>1 DEF Walks
<1>3. \A g \in fresh' : g \in fresh /\ field'[g] = field[g]
  BY <1>1 DEF IInv, HandlesInv
<1>4. Points' = [h \in DOMAIN Points \ {Iter} |-> Points[h]]
  BY <1>1, <1>3 DEF Points, NumberAt
<1> QED
  BY <1>1, <1>2, <1>4 DEF Walk!Destroy

\* An update through a handle.
LEMMA SimHandleUpdate ==
    ASSUME IInv, NEW h \in Handles, NEW in \in Inputs, NEW moves \in BOOLEAN,
           HandleUpdate(h, in, moves)
    PROVE  LET m == field[h].msg
           IN  /\ m \in Msgs
               /\ Content' = [Content EXCEPT ![m] = Content'[m]]
               /\ Walk!HandleUpdate(h, m, Content[m], Content'[m], in)
<1> DEFINE f == field[h]
           m == f.msg
           p == msg[m]
           o == f.at
           k == NumberAt(p, o)
           q == Replaced(p, o, in)
           x == IF in.len # f.size THEN o ELSE p.tail
<1>1. /\ h \in fresh /\ m \in Msgs /\ GoodBuffer(p)
      /\ o \in DOMAIN p.at /\ f = Pointed(m, o)
      /\ IsInput(in)
      /\ Leaves(m, q, x) /\ x \in Nat /\ Becomes(m, q, x, moves)
      /\ \A g \in fresh' : field'[g] = field[g]
  BY HandleUpdateIs
<1>2. /\ in.type \in HandleTypes /\ in.type = f.type
      /\ Walk!Return("updateField", "OK") /\ ret'.op = "updateField"
  BY DEF HandleUpdate, UpdateThrough, Return, Walk!Return
<1>3. f.type = p.at[o].type /\ f.size = DecodedSize(p.at[o])
  BY <1>1 DEF Pointed
<1>4. x = Shifted(p, o, in)
  BY <1>3 DEF Shifted
<1>5. /\ h \in DOMAIN Points /\ Points[h].msg = m /\ Points[h].field = k
  BY <1>1 DEF Points
<1>6. PICK e, n : Lists(e, n, p)
  BY <1>1, GoodListing
<1>7. Content[m][k] = AsSeen(p.at[o])
  <2>1. k \in 1 .. n /\ e[k] = o
    BY <1>1, <1>6, Numbers
  <2> HIDE DEF k
  <2>2. SeenFields(p)[k] = AsSeen(p.at[o])
    BY <1>1, <1>6, <2>1, SeenThrough
  <2> QED
    BY <1>1, <2>2, ContentOf
<1>8. Content[m][k].type = in.type
  BY <1>2, <1>3, <1>7 DEF AsSeen
<1> HIDE DEF f, q, x, o
<1>9. /\ Content' = [Content EXCEPT ![m] = Content'[m]]
      /\ Walk!Sets(m, Content[m], Content'[m], k, in)
  BY <1>1, <1>4, SimSets DEF q
<1> HIDE DEF m, k
<1>10. Walk!HandleUpdate(h, m, Content[m], Content'[m], in)
  BY <1>2, <1>5, <1>8, <1>9 DEF Walk!HandleUpdate
<1> QED
  BY <1>1, <1>9, <1>10 DEF m, f

LEMMA SimHandleRefuse ==
    ASSUME IInv, NEW h \in Handles, NEW in \in Inputs, HandleRefuse(h, in)
    PROVE  LET m == field[h].msg
           IN  /\ m \in Msgs
               /\ Content' = [Content EXCEPT ![m] = Content'[m]]
               /\ Walk!HandleUpdate(h, m, Content[m], Content'[m], in)
<1> DEFINE m == field[h].msg
           o == field[h].at
           k == NumberAt(msg[m], o)
<1>1. /\ h \in fresh /\ in.type \in HandleTypes /\ in.type # field[h].type
      /\ ret' = [op |-> "updateField", status |-> "WRONG_FIELD_TYPE"]
  BY DEF HandleRefuse, MayUse, Return
<1>2. Content' = Content /\ Walks' = Walks /\ Points' = Points
  BY SeenSame DEF HandleRefuse
<1>3. /\ m \in Msgs /\ GoodBuffer(msg[m]) /\ o \in DOMAIN msg[m].at
      /\ field[h].type = msg[m].at[o].type
  <2>1. field[h] = Pointed(m, o)
    BY <1>1 DEF IInv, HandlesInv, HandleCurrent
  <2>2. Pointed(m, o).type = msg[m].at[o].type
    BY DEF Pointed
  <2> QED
    BY <1>1, <2>1, <2>2, Undisturbed
<1>4. /\ h \in DOMAIN Points /\ Points[h].msg = m /\ Points[h].field = k
  BY <1>1 DEF Points
<1>5. PICK e, n : Lists(e, n, msg[m])
  BY <1>3, GoodListing
<1>6. Content[m][k].type = field[h].type
  <2>1. k \in 1 .. n /\ e[k] = o
    BY <1>3, <1>5, Numbers
  <2> HIDE DEF k
  <2>2. SeenFields(msg[m])[k] = AsSeen(msg[m].at[o])
    BY <1>3, <1>5, <2>1, SeenThrough
  <2> QED
    BY <1>3, <2>2, ContentOf DEF AsSeen
<1>7. Walk!Refused("updateField", Content[m], Content'[m])
  BY <1>1, <1>2 DEF Walk!Refused, Walk!Untouched
<1> HIDE DEF m, k
<1>8. Walk!HandleUpdate(h, m, Content[m], Content'[m], in)
  BY <1>1, <1>4, <1>6, <1>7 DEF Walk!HandleUpdate
<1> QED
  BY <1>2, <1>3, <1>8, ContentOf DEF m

LEMMA SimInit == Init => Walk!Init
<1> SUFFICES ASSUME Init PROVE Walk!Init
  OBVIOUS
<1>1. \A m \in Msgs : SeenFields(msg[m]) = <<>>
  BY NothingSeen DEF Init, NewBuffer, Cleared
<1>2. Content = [m \in Msgs |-> <<>>]
  BY <1>1 DEF Content
<1>3. Walks = {} /\ Points = [h \in {} |-> 0]
  BY DEF Init, Walks, Points
<1> QED
  BY <1>2, <1>3 DEF Init, Walk!Init

LEMMA SimNext == IInv /\ [Next]_vars => [Walk!Next]_(Walk!vars)
<1> SUFFICES ASSUME IInv, [Next]_vars PROVE [Walk!Next]_(Walk!vars)
  OBVIOUS
<1>1. CASE UNCHANGED vars
  <2>1. Content' = Content /\ Walks' = Walks /\ Points' = Points /\ ret' = ret
    BY <1>1, SeenSame DEF vars
  <2> QED
    BY <2>1 DEF Walk!vars
\* It is enough to find the message that a call is about.
<1>2. ASSUME NEW m \in Msgs, Content' = [Content EXCEPT ![m] = Content'[m]],
             Walk!MessageCall(m, Content[m], Content'[m])
      PROVE  Walk!Next
  BY <1>2 DEF Walk!Next, Walk!Step
<1>3. ASSUME Content' = Content,
             Walk!NextField(Content) \/ Walk!AtEnd(Content) \/ Walk!Destroy
      PROVE  Walk!Next
  BY <1>3 DEF Walk!Next, Walk!Step
<1>4. ASSUME NEW m \in Msgs, MessageCall(m) PROVE Walk!Next
  <2>1. /\ Content' = [Content EXCEPT ![m] = Content'[m]]
        /\ Walk!MessageCall(m, Content[m], Content'[m])
    <3>1. CASE Clear(m)
      BY <3>1, SimClear DEF Walk!MessageCall
    <3>2. ASSUME NEW name \in Names, NEW fid \in Fids, GetField(m, name, fid)
          PROVE  /\ Content' = [Content EXCEPT ![m] = Content'[m]]
                 /\ Walk!MessageCall(m, Content[m], Content'[m])
      BY <3>2, SimGetField, SameWords DEF Walk!MessageCall
    <3>3. ASSUME NEW name \in Names, NEW fid \in Fids, NEW in \in Inputs,
                 NEW moves \in BOOLEAN, Add(m, name, fid, in, moves)
          PROVE  /\ Content' = [Content EXCEPT ![m] = Content'[m]]
                 /\ Walk!MessageCall(m, Content[m], Content'[m])
      BY <3>3, SimAdd, SameWords DEF Walk!MessageCall
    <3>4. ASSUME NEW name \in Names, NEW fid \in Fids, NEW in \in Inputs,
                 NEW moves \in BOOLEAN, UpdateByKey(m, name, fid, in, moves)
          PROVE  /\ Content' = [Content EXCEPT ![m] = Content'[m]]
                 /\ Walk!MessageCall(m, Content[m], Content'[m])
      BY <3>4, SimUpdateByKey, SameWords DEF Walk!MessageCall
    <3> QED
      BY <1>4, <3>1, <3>2, <3>3, <3>4 DEF MessageCall
  <2> QED
    BY <1>2, <2>1
<1>5. ASSUME NEW m \in Msgs, IterCreate(m) \/ Associate(m) PROVE Walk!Next
  <2>1. /\ Content' = [Content EXCEPT ![m] = Content'[m]]
        /\ Walk!MessageCall(m, Content[m], Content'[m])
    BY <1>5, SimBegin DEF Walk!MessageCall
  <2> QED
    BY <1>2, <2>1
<1>6. IterNext \/ IterEnd \/ IterDestroy => Walk!Next
  BY <1>3, SimIterNext, SimIterEnd, SimDestroy
<1>7. ASSUME NEW h \in Handles, NEW in \in Inputs,
             HandleRefuse(h, in) \/ \E moves \in BOOLEAN : HandleUpdate(h, in, moves)
      PROVE  Walk!Next
  <2>1. LET m == field[h].msg
        IN  /\ m \in Msgs
            /\ Content' = [Content EXCEPT ![m] = Content'[m]]
            /\ Walk!HandleUpdate(h, m, Content[m], Content'[m], in)
    BY <1>7, SimHandleUpdate, SimHandleRefuse
  <2>2. LET m == field[h].msg
        IN  Walk!MessageCall(m, Content[m], Content'[m])
    BY <2>1, SameWords DEF Walk!MessageCall
  <2> QED
    BY <1>2, <2>1, <2>2
<1>8. IterCall => Walk!Next
  BY <1>5, <1>6 DEF IterCall
<1>9. HandleCall => Walk!Next
  BY <1>7 DEF HandleCall
<1>10. Next => Walk!Next
  BY <1>4, <1>8, <1>9 DEF Next
<1> QED
  BY <1>1, <1>10

-----------------------------------------------------------------------------
(* The theorems. *)

LEMMA SpecIInv == Spec => []IInv
BY IInvInit, IInvNext, PTL DEF Spec

\* Messages, handles and the iterator have their types after any calls.
THEOREM IterTypeCorrect == Spec => []IterTypeOK
BY SpecIInv, IInvImplies, PTL

\* Updates through handles, like those by name, leave messages that can be
\* walked.
THEOREM IterStaysFramed == Spec => []IterFramed
BY SpecIInv, IInvImplies, PTL

\* An undisturbed iterator points at a field or at the end.
THEOREM CursorStaysOnField == Spec => []CursorOnField
BY SpecIInv, IInvImplies, PTL

\* An undisturbed walk returns every field once and in order, those appended
\* on the way included, but for the first field of a message that was empty.
THEOREM WalkReturnsEachOnce == Spec => []WalksEachOnce
BY SpecIInv, IInvImplies, PTL

\* An undisturbed handle says what is stored.
THEOREM HandleStaysCurrent == Spec => []HandleCurrent
BY SpecIInv, IInvImplies, PTL

\* Iterators and handles do what the walks and handles of OmnmWalk do: a walk
\* goes from field to field and an update through a handle changes the field
\* it was pointed at, whatever is added, resized or moved around them.
THEOREM WalksGoThroughLists == Spec => ImplementsWalk
<1>1. Init => Walk!Init
  BY SimInit
<1>2. IInv /\ [Next]_vars => [Walk!Next]_(Walk!vars)
  BY SimNext
<1> QED
  BY <1>1, <1>2, SpecIInv, PTL DEF Spec, ImplementsWalk, Walk!Spec

=============================================================================
