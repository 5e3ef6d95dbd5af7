-------------------------- MODULE OmnmBufferProofs --------------------------
(***************************************************************************)
(* What the operations of OmnmBuffer do to a buffer, for every buffer,     *)
(* field and value: lemmas that the proofs about payloads, iterators and   *)
(* loops put together.  A listing goes through the offsets of a buffer in  *)
(* order; through it, a buffer is seen as the sequence of its fields.      *)
(***************************************************************************)
EXTENDS OmnmBuffer, Sequences, WellFoundedInduction, FiniteSetTheorems, TLAPS

\* The state every buffer a caller may use is in.
GoodBuffer(p) ==
    /\ IsBuffer(p)
    /\ InAllocation(p)
    /\ FramedBuffer(p)
    /\ HeaderInBytes(p)

\* What can still be said of a buffer that ran out of memory.
SafeBuffer(p) == IsBuffer(p) /\ InAllocation(p)

\* What arrives to be unserialized.
GoodImage(img) ==
    /\ IsImage(img)
    /\ FramedFields(img.at, HeaderV1Size + img.rem, img.tail)

\* Buffer p becomes q, and nothing before offset o has changed that a pointer
\* into the buffer would notice.
KeepsBelow(p, q, o) ==
    /\ HeaderSize(q) = HeaderSize(p)
    /\ o <= p.tail /\ o \in DOMAIN q.at \cup {q.tail}
    /\ \A x \in Nat : x < o => (x \in DOMAIN q.at <=> x \in DOMAIN p.at)
    /\ \A x \in DOMAIN p.at : x < o =>
        /\ q.at[x].type = p.at[x].type /\ q.at[x].name = p.at[x].name
        /\ DecodedSize(q.at[x]) = DecodedSize(p.at[x])

-----------------------------------------------------------------------------
(* Fields. *)

\* A length within the range of a mama_u32_t is stored as it is.
LEMMA AsU32InRange ==
    ASSUME NEW n \in Nat, n <= MaxU32
    PROVE  AsU32(n) = n
BY MaxU32Assumption DEF AsU32

\* Any length is stored as some number.
LEMMA AsU32Type ==
    ASSUME NEW n \in Nat
    PROVE  AsU32(n) \in Nat
BY MaxU32Assumption DEF AsU32

\* The widths of the C types.
LEMMA WidthType ==
    ASSUME NEW t
    PROVE  Width(t) \in Nat
BY DEF Width

\* The length of a value is a number of bytes.
LEMMA ValueLength ==
    ASSUME NEW in, IsInput(in)
    PROVE  in.len \in Nat /\ in.type \in FieldTypes \ {"UNKNOWN"}
BY WidthType
   DEF IsInput, IsScalarInput, IsStructInput, IsStringInput, IsBytesInput,
       FieldTypes, SizedTypes, PrefixedTypes, ScalarVectorTypes,
       EncodedVectorTypes, FixedWidthTypes, StructTypes,
       OneByteTypes, TwoByteTypes, FourByteTypes, EightByteTypes

\* A field takes a positive number of bytes.
LEMMA FieldLength ==
    ASSUME NEW f, IsField(f)
    PROVE  /\ EncodedLen(f) \in Nat \ {0}
           /\ DecodedLen(f) \in Nat \ {0}
           /\ DecodedSize(f) \in Nat
<1>1. f.data.len \in Nat /\ NameLen[f.name] \in Nat /\ f.decl \in Nat
  BY ValueLength, NamesAssumption DEF IsField, Names
<1>2. DecodedSize(f) \in Nat
  BY <1>1, WidthType DEF DecodedSize
<1> QED
  BY <1>1, <1>2 DEF EncodedLen, DecodedLen, FieldTypeWidth, FidWidth,
       NameBytes, PrefixBytes, LengthWidth

\* A reader steps over the bytes the writer wrote when it finds the size of
\* the data: both tables give every type but UNKNOWN the same prefix.
LEMMA ReadsBack ==
    ASSUME NEW f, IsField(f)
    PROVE  ReadsAsWritten(f) <=> DecodedSize(f) = f.data.len
<1>1. PrefixBytes(SizedTypes, f.type) = PrefixBytes(PrefixedTypes, f.type)
  BY DEF PrefixBytes, SizedTypes, IsField
<1>2. /\ f.data.len \in Nat /\ NameLen[f.name] \in Nat /\ DecodedSize(f) \in Nat
      /\ PrefixBytes(PrefixedTypes, f.type) \in Nat
  BY ValueLength, NamesAssumption, FieldLength
     DEF IsField, Names, PrefixBytes, LengthWidth
<1> QED
  BY <1>1, <1>2 DEF ReadsAsWritten, DecodedLen, EncodedLen, FieldTypeWidth,
       FidWidth, NameBytes

\* A field that addField encodes is a field, and reads back as written.
LEMMA EncodeGood ==
    ASSUME NEW name \in Names, NEW fid \in Nat, NEW in, IsInput(in),
           in.len <= MaxU32
    PROVE  /\ IsField(Encode(name, fid, in))
           /\ ReadsAsWritten(Encode(name, fid, in))
<1> DEFINE f == Encode(name, fid, in)
<1>1. in.len \in Nat /\ in.type \in FieldTypes \ {"UNKNOWN"}
  BY ValueLength DEF IsInput
<1>2. /\ f.type = in.type /\ f.fid = fid /\ f.name = StoredName(name)
      /\ f.decl = Prefix(in.type, in.len) /\ f.data = in
  BY DEF Encode
<1>3. f.decl \in Nat
  BY <1>1, <1>2, AsU32Type DEF Prefix
<1>4. StoredName(name) \in Names \ {EmptyName}
  BY NamesAssumption DEF StoredName
<1>5. IsField(f)
  BY <1>1, <1>2, <1>3, <1>4 DEF IsField, Encode
<1>6. DecodedSize(f) = f.data.len
  BY <1>1, <1>2, AsU32InRange
     DEF DecodedSize, IsInput, IsScalarInput, IsStructInput,
         IsStringInput, IsBytesInput, Prefix, SizedTypes, PrefixedTypes,
         ScalarVectorTypes, EncodedVectorTypes,
         FixedWidthTypes, StructTypes,
         OneByteTypes, TwoByteTypes, FourByteTypes, EightByteTypes
<1> QED
  BY <1>5, <1>6, ReadsBack

-----------------------------------------------------------------------------
(* Creating, clearing, receiving. *)

\* A buffer of no fields whose tail follows its header is well formed.
LEMMA NoFieldsFramed ==
    ASSUME NEW n
    PROVE  IsLayout(NoFields) /\ FramedFields(NoFields, n, n)
BY DEF IsLayout, NoFields, FramedFields

\* clear makes a good buffer of any that nests in its allocation, whatever
\* its fields and its header were.
LEMMA ClearedGood ==
    ASSUME NEW p, SafeBuffer(p)
    PROVE  GoodBuffer(Cleared(p))
<1> DEFINE c == Cleared(p)
<1>1. /\ c.at = NoFields /\ c.tail = 3 /\ c.cap = p.cap
      /\ c.hdr = 0 /\ c.ver = 1 /\ c.rem = 0
      /\ c \in [at : {c.at}, tail : Nat, cap : Nat,
               hdr : Nat, ver : Nat, rem : Nat]
  BY DEF Cleared, SafeBuffer, IsBuffer, HeaderV1Size, OmnmProtocolVersion
<1>2. IsBuffer(c)
  BY <1>1, NoFieldsFramed DEF IsBuffer, SafeBuffer
<1>3. InAllocation(c)
  BY <1>1 DEF InAllocation, SafeBuffer, IsBuffer, HeaderSize, HeaderV1Size
<1>4. FramedBuffer(c)
  BY <1>1, NoFieldsFramed DEF FramedBuffer, HeaderSize, HeaderV1Size
<1>5. HeaderInBytes(c)
  BY <1>1 DEF HeaderInBytes, OmnmProtocolVersion
<1> QED
  BY <1>2, <1>3, <1>4, <1>5 DEF GoodBuffer

\* The constructor makes a good buffer.
LEMMA NewBufferGood == GoodBuffer(NewBuffer)
<1> DEFINE c == NewBuffer
<1>1. /\ c.at = NoFields /\ c.tail = 3 /\ c.cap = DefaultSize
      /\ c.hdr = 0 /\ c.ver = 1 /\ c.rem = 0
      /\ c \in [at : {c.at}, tail : Nat, cap : Nat,
               hdr : Nat, ver : Nat, rem : Nat]
  BY DefaultSizeAssumption
     DEF NewBuffer, Cleared, HeaderV1Size, OmnmProtocolVersion
<1>2. IsBuffer(c)
  BY <1>1, NoFieldsFramed, DefaultSizeAssumption DEF IsBuffer
<1>3. InAllocation(c)
  BY <1>1, DefaultSizeAssumption DEF InAllocation, HeaderSize, HeaderV1Size
<1>4. FramedBuffer(c)
  BY <1>1, NoFieldsFramed DEF FramedBuffer, HeaderSize, HeaderV1Size
<1>5. HeaderInBytes(c)
  BY <1>1 DEF HeaderInBytes, OmnmProtocolVersion
<1> QED
  BY <1>2, <1>3, <1>4, <1>5 DEF GoodBuffer

\* Wherever a walk may start, the first field is not past the tail.
LEMMA FramedNests ==
    ASSUME NEW at, IsLayout(at), NEW first \in Nat, NEW tail \in Nat,
           FramedFields(at, first, tail)
    PROVE  first <= tail
<1>1. CASE first = tail
  BY <1>1
<1>2. CASE first \in DOMAIN at
  <2>1. first + EncodedLen(at[first]) <= tail
    BY <1>2 DEF FramedFields
  <2>2. EncodedLen(at[first]) \in Nat
    BY <1>2, FieldLength DEF IsLayout
  <2> QED
    BY <2>1, <2>2
<1> QED
  BY <1>1, <1>2 DEF FramedFields

\* In a good buffer the header takes some bytes, the walk begins on a field
\* or at the end, and no field is before its beginning or past its end.
LEMMA Offsets ==
    ASSUME NEW p, GoodBuffer(p)
    PROVE  /\ HeaderSize(p) \in Nat /\ p.tail \in Nat /\ DOMAIN p.at \subseteq Nat
           /\ 0 < HeaderSize(p)
           /\ HeaderSize(p) \in DOMAIN p.at \cup {p.tail}
           /\ \A o \in DOMAIN p.at : HeaderSize(p) <= o /\ o < p.tail
           /\ HeaderSize(p) <= p.tail
<1>1. /\ p.hdr \in Nat /\ p.tail \in Nat /\ DOMAIN p.at \subseteq Nat
      /\ \A o \in DOMAIN p.at : IsField(p.at[o])
  BY DEF GoodBuffer, IsBuffer, IsLayout
<1>2. \A o \in DOMAIN p.at : EncodedLen(p.at[o]) \in Nat \ {0}
  BY <1>1, FieldLength
<1> QED
  BY <1>1, <1>2 DEF GoodBuffer, FramedBuffer, FramedFields, InAllocation,
       HeaderSize, HeaderV1Size

\* A step from a field ends on the next one or at the end, and passes none.
LEMMA StepInOrder ==
    ASSUME NEW p, GoodBuffer(p), NEW o \in DOMAIN p.at
    PROVE  LET n == o + DecodedLen(p.at[o])
           IN  /\ n \in DOMAIN p.at \cup {p.tail} /\ o < n /\ n \in Nat
               /\ \A q \in DOMAIN p.at : q < n <=> q <= o
<1>1. /\ DOMAIN p.at \subseteq Nat /\ p.tail \in Nat
      /\ IsField(p.at[o]) /\ o \in Nat
  BY Offsets DEF GoodBuffer, IsBuffer, IsLayout
<1>2. DecodedLen(p.at[o]) \in Nat \ {0}
      /\ DecodedLen(p.at[o]) = EncodedLen(p.at[o])
  BY <1>1, FieldLength DEF GoodBuffer, FramedBuffer, FramedFields, ReadsAsWritten
<1> QED
  BY <1>1, <1>2 DEF GoodBuffer, FramedBuffer, FramedFields

\* unSerialize leaves a good buffer, the buffer it was given, or, when the
\* allocation fails, one that still nests.
LEMMA UnSerializeGood ==
    ASSUME NEW p, SafeBuffer(p), NEW img, GoodImage(img), NEW fails \in BOOLEAN
    PROVE  LET r == UnSerialize(p, img, fails)
           IN  /\ r.status = "OK" => GoodBuffer(r.buf)
               /\ r.status = "NOMEM" => SafeBuffer(r.buf)
               /\ r.status \in {"OK", "NOMEM", "WRONG_FIELD_TYPE"}
               /\ r.status = "WRONG_FIELD_TYPE" => r.buf = p
<1> DEFINE r == UnSerialize(p, img, fails)
<1>1. CASE img.ver > OmnmProtocolVersion
  BY <1>1 DEF UnSerialize, Outcome, GoodImage, IsImage, OmnmProtocolVersion
<1>2. CASE img.ver <= OmnmProtocolVersion /\ fails /\ img.tail > p.cap
  <2> DEFINE c == Wiped(p)
  <2>1. r.status = "NOMEM" /\ r.buf = c
    BY <1>2 DEF UnSerialize, Outcome, OmnmProtocolVersion, GoodImage, IsImage
  <2>2. /\ c.at = NoFields /\ c.tail = p.tail /\ c.cap = p.cap
        /\ c.hdr = p.hdr /\ c.ver = 0 /\ c.rem = 0
        /\ c \in [at : {c.at}, tail : Nat, cap : Nat,
                 hdr : Nat, ver : Nat, rem : Nat]
    BY DEF Wiped, SafeBuffer, IsBuffer
  <2>3. IsBuffer(c)
    BY <2>2, NoFieldsFramed DEF IsBuffer, SafeBuffer
  <2>4. InAllocation(c)
    BY <2>2 DEF InAllocation, SafeBuffer, HeaderSize
  <2> QED
    BY <2>1, <2>3, <2>4 DEF SafeBuffer
<1>3. CASE /\ ~(img.ver > OmnmProtocolVersion)
           /\ ~(img.ver <= OmnmProtocolVersion /\ fails /\ img.tail > p.cap)
  <2> DEFINE c == r.buf
  <2>1. /\ r.status = "OK"
        /\ c = [at |-> img.at, tail |-> img.tail,
                cap |-> Larger(p.cap, img.tail),
                hdr |-> img.rem, ver |-> img.ver, rem |-> img.rem]
    BY <1>3 DEF UnSerialize, Adopted, Outcome
  <2>2. /\ c.at = img.at /\ c.tail = img.tail /\ c.cap = Larger(p.cap, img.tail)
        /\ c.hdr = img.rem /\ c.ver = img.ver /\ c.rem = img.rem
    BY <2>1
  <2>3. c.cap \in Nat /\ img.tail <= c.cap
    BY <2>2 DEF Larger, GoodImage, IsImage, SafeBuffer, IsBuffer
  <2>4. IsBuffer(c)
    BY <2>1, <2>2, <2>3 DEF IsBuffer, GoodImage, IsImage
  <2>5. FramedBuffer(c)
    BY <2>2 DEF FramedBuffer, HeaderSize, GoodImage, IsImage
  <2>6. InAllocation(c)
    BY <2>2, <2>3, <2>5, FramedNests DEF InAllocation, HeaderSize,
         HeaderV1Size, FramedBuffer, GoodImage, IsImage
  <2>7. HeaderInBytes(c)
    BY <1>3, <2>2 DEF HeaderInBytes, GoodImage, IsImage, OmnmProtocolVersion
  <2> QED
    BY <2>1, <2>4, <2>5, <2>6, <2>7 DEF GoodBuffer
<1> QED
  BY <1>1, <1>2, <1>3

\* What serialize exposes of a good buffer can be unserialized.
LEMMA ImageGood ==
    ASSUME NEW p, GoodBuffer(p)
    PROVE  GoodImage(Image(p)) /\ Image(p).ver <= OmnmProtocolVersion
BY DEF GoodBuffer, GoodImage, IsImage, Image, IsBuffer, FramedBuffer, HeaderInBytes,
       HeaderSize

-----------------------------------------------------------------------------
(* Looking up and appending. *)

\* A set of offsets that is not empty has a first one.
LEMMA FirstOffset ==
    ASSUME NEW S \in SUBSET Nat, S # {}
    PROVE  \E o \in S : \A q \in S : o <= q
<1>1. PICK o \in S : \A q \in S : ~(<<q, o>> \in OpToRel(<, Nat))
  BY WFMin, NatLessThanWellFounded, Zenon
<1>2. \A q \in S : ~(q < o)
  BY <1>1, Zenon DEF OpToRel
<1> QED
  BY <1>2

\* A lookup that finds something returns the offset of a field that matches,
\* and nothing before it does.
LEMMA FirstMatchFound ==
    ASSUME NEW p, IsBuffer(p), NEW name, NEW fid, Found(p, name, fid)
    PROVE  LET o == FirstMatch(p, name, fid)
           IN  /\ o \in DOMAIN p.at
               /\ Matches(p.at[o], name, fid)
               /\ \A q \in DOMAIN p.at : q < o => ~Matches(p.at[q], name, fid)
<1> DEFINE S == MatchOffsets(p, name, fid)
<1>1. S \in SUBSET Nat /\ S # {}
  BY DEF IsBuffer, IsLayout, MatchOffsets, Found
<1>2. \E o \in S : \A q \in S : o <= q
  BY <1>1, FirstOffset
<1>3. /\ FirstMatch(p, name, fid) \in S
      /\ \A q \in S : FirstMatch(p, name, fid) <= q
  BY <1>2 DEF FirstMatch
<1> QED
  BY <1>1, <1>3 DEF MatchOffsets, IsBuffer, IsLayout

\* A buffer whose fields, tail and allocation are replaced has its shape still.
LEMMA Resized ==
    ASSUME NEW p, IsBuffer(p), NEW at, NEW cap \in Nat, NEW tail \in Nat
    PROVE  LET c == [p EXCEPT !.at = at, !.tail = tail, !.cap = cap]
           IN  /\ c.at = at /\ c.tail = tail /\ c.cap = cap
               /\ c.hdr = p.hdr /\ c.ver = p.ver /\ c.rem = p.rem
               /\ c \in [at : {c.at}, tail : Nat, cap : Nat,
                        hdr : Nat, ver : Nat, rem : Nat]
BY DEF IsBuffer

\* Appending a field that reads back keeps a buffer good, grown or not, and
\* disturbs nothing in it.
LEMMA AppendedGood ==
    ASSUME NEW p, GoodBuffer(p), NEW f, IsField(f), ReadsAsWritten(f)
    PROVE  GoodBuffer(Appended(p, f)) /\ KeepsBelow(p, Appended(p, f), p.tail)
<1> DEFINE c == Appended(p, f)
           len == EncodedLen(f)
<1>1. len \in Nat \ {0} /\ DecodedLen(f) = len
  BY FieldLength DEF ReadsAsWritten
<1>2. /\ c.at = [o \in DOMAIN p.at \cup {p.tail} |->
                   IF o = p.tail THEN f ELSE p.at[o]]
      /\ c.tail = p.tail + len /\ c.cap = Larger(p.cap, p.tail + len)
      /\ c.hdr = p.hdr /\ c.ver = p.ver /\ c.rem = p.rem
      /\ c \in [at : {c.at}, tail : Nat, cap : Nat,
               hdr : Nat, ver : Nat, rem : Nat]
  <2>1. /\ IsBuffer(p) /\ p.tail + len \in Nat
        /\ Larger(p.cap, p.tail + len) \in Nat
    BY <1>1 DEF GoodBuffer, IsBuffer, Larger
  <2> QED
    BY <2>1, Resized DEF Appended
<1>3. /\ p.tail \in Nat /\ p.cap \in Nat /\ p.hdr \in Nat
      /\ DOMAIN p.at \subseteq Nat
      /\ \A o \in DOMAIN p.at : IsField(p.at[o])
  BY DEF GoodBuffer, IsBuffer, IsLayout
<1>4. \A o \in DOMAIN p.at : EncodedLen(p.at[o]) \in Nat \ {0}
                             /\ DecodedLen(p.at[o]) \in Nat \ {0}
  BY <1>3, FieldLength
<1>5. \A o \in DOMAIN p.at :
        /\ HeaderSize(p) <= o
        /\ o + DecodedLen(p.at[o]) \in DOMAIN p.at \cup {p.tail}
        /\ o + EncodedLen(p.at[o]) <= p.tail
        /\ ReadsAsWritten(p.at[o])
        /\ \A q \in DOMAIN p.at : o < q => o + EncodedLen(p.at[o]) <= q
  BY DEF GoodBuffer, FramedBuffer, FramedFields
<1>6. p.tail \notin DOMAIN p.at /\ \A o \in DOMAIN p.at : o < p.tail
  BY <1>3, <1>4, <1>5
<1>7. /\ DOMAIN c.at = DOMAIN p.at \cup {p.tail}
      /\ c.at[p.tail] = f
      /\ \A o \in DOMAIN p.at : c.at[o] = p.at[o]
  BY <1>2, <1>6
<1>8. IsLayout(c.at)
  <2>1. c.at = [o \in DOMAIN c.at |-> c.at[o]]
    BY <1>2
  <2> QED
    BY <2>1, <1>3, <1>7 DEF IsLayout
<1>9. IsBuffer(c)
  BY <1>2, <1>1, <1>3, <1>8 DEF IsBuffer, GoodBuffer, Larger
<1>10. HeaderSize(c) = HeaderSize(p) /\ HeaderSize(p) <= p.tail /\ HeaderSize(p) \in Nat
  BY <1>2, <1>3 DEF HeaderSize, HeaderV1Size, GoodBuffer, InAllocation
<1>11. InAllocation(c)
  BY <1>2, <1>1, <1>3, <1>10 DEF InAllocation, Larger, GoodBuffer
<1>12. FramedBuffer(c)
  <2>1. HeaderSize(c) \in DOMAIN c.at \cup {c.tail}
    BY <1>7, <1>10 DEF GoodBuffer, FramedBuffer, FramedFields
  <2>2. ASSUME NEW o \in DOMAIN c.at
        PROVE  /\ HeaderSize(c) <= o
               /\ o + DecodedLen(c.at[o]) \in DOMAIN c.at \cup {c.tail}
               /\ o + EncodedLen(c.at[o]) <= c.tail
               /\ ReadsAsWritten(c.at[o])
               /\ \A q \in DOMAIN c.at : o < q => o + EncodedLen(c.at[o]) <= q
    <3>1. CASE o = p.tail
      <4>1. \A q \in DOMAIN c.at : ~(o < q)
        BY <3>1, <1>3, <1>6, <1>7
      <4> QED
        BY <3>1, <4>1, <1>2, <1>1, <1>3, <1>7, <1>10
    <3>2. CASE o \in DOMAIN p.at
      <4>1. c.at[o] = p.at[o]
        BY <3>2, <1>7
      <4>2. o + EncodedLen(c.at[o]) <= c.tail
        BY <3>2, <4>1, <1>2, <1>1, <1>3, <1>4, <1>5
      <4> QED
        BY <3>2, <4>1, <4>2, <1>5, <1>7, <1>10
    <3> QED
      BY <3>1, <3>2, <1>7
  <2> QED
    BY <2>1, <2>2 DEF FramedBuffer, FramedFields
<1>13. HeaderInBytes(c)
  BY <1>2 DEF HeaderInBytes, GoodBuffer
<1>14. KeepsBelow(p, c, p.tail)
  BY <1>3, <1>6, <1>7, <1>10 DEF KeepsBelow
<1> QED
  BY <1>9, <1>11, <1>12, <1>13, <1>14 DEF GoodBuffer

-----------------------------------------------------------------------------
(* Updating in place. *)

\* A value that the stored type can take without a change of width.
KeepsFraming(f, in) ==
    \/ f.type = in.type
    \/ Castable(f.type, in.type) /\ Width(f.type) = Width(in.type)

\* The field that an update leaves is a field, it reads back, and it differs
\* in length by as much as its data does.
LEMMA RewrittenGood ==
    ASSUME NEW f, IsField(f), ReadsAsWritten(f), NEW in, IsInput(in),
           in.type \in SizedTypes => in.len <= MaxU32, KeepsFraming(f, in)
    PROVE  /\ IsField(Rewritten(f, in))
           /\ ReadsAsWritten(Rewritten(f, in))
           /\ EncodedLen(Rewritten(f, in)) + DecodedSize(f) = EncodedLen(f) + in.len
<1> DEFINE g == Rewritten(f, in)
<1>1. in.len \in Nat /\ Prefix(f.type, in.len) \in Nat
  BY AsU32Type DEF IsInput, Prefix
<1>2. /\ g.type = f.type /\ g.name = f.name /\ g.data = in
      /\ g.decl = Prefix(f.type, in.len)
      /\ g \in [type : FieldTypes \ {"UNKNOWN"}, fid : Nat,
               name : Names \ {EmptyName}, decl : Nat, data : {g.data}]
  BY <1>1 DEF Rewritten, IsField
<1>3. IsField(g)
  BY <1>2 DEF IsField
<1>4. DecodedSize(g) = in.len
  BY <1>1, <1>2, AsU32InRange
     DEF DecodedSize, KeepsFraming, Castable, IsField, IsInput,
         IsScalarInput, IsStructInput, IsStringInput, IsBytesInput, Prefix,
         SizedTypes, PrefixedTypes, ScalarVectorTypes,
       EncodedVectorTypes, FixedWidthTypes, StructTypes,
         OneByteTypes, TwoByteTypes, FourByteTypes, EightByteTypes
<1>5. ReadsAsWritten(g)
  BY <1>2, <1>3, <1>4, ReadsBack
<1>6. EncodedLen(g) + DecodedSize(f) = EncodedLen(f) + in.len
  <2>1. DecodedSize(f) = f.data.len /\ f.data.len \in Nat
    BY ReadsBack, ValueLength DEF IsField
  <2>2. NameLen[f.name] \in Nat /\ PrefixBytes(SizedTypes, f.type) \in Nat
    BY NamesAssumption DEF IsField, Names, PrefixBytes, LengthWidth
  <2> QED
    BY <1>1, <1>2, <2>1, <2>2
       DEF EncodedLen, FieldTypeWidth, FidWidth, NameBytes
<1> QED
  BY <1>3, <1>5, <1>6

\* Resizing a field anywhere in a good buffer moves what follows it so that
\* the buffer is good again, whether the field grew or shrank, and nothing
\* that comes before is disturbed; nothing at all is when the size stays.
LEMMA ReplacedGood ==
    ASSUME NEW p, GoodBuffer(p), NEW o \in DOMAIN p.at, NEW in, IsInput(in),
           in.type \in SizedTypes => in.len <= MaxU32,
           KeepsFraming(p.at[o], in)
    PROVE  /\ GoodBuffer(Replaced(p, o, in))
           /\ KeepsBelow(p, Replaced(p, o, in),
                         IF in.len # DecodedSize(p.at[o]) THEN o ELSE p.tail)
<1> DEFINE f == p.at[o]
           g == Rewritten(f, in)
           size == DecodedSize(f)
           Moved(q) == IF q > o THEN (q + in.len) - size ELSE q
           c == Replaced(p, o, in)
           E(q) == IF q = o THEN EncodedLen(g) ELSE EncodedLen(p.at[q])
<1>1. /\ p.tail \in Nat /\ p.cap \in Nat /\ p.hdr \in Nat
      /\ DOMAIN p.at \subseteq Nat /\ o \in Nat
      /\ \A q \in DOMAIN p.at : IsField(p.at[q])
      /\ IsBuffer(p) /\ HeaderSize(p) \in Nat
      /\ HeaderSize(p) <= p.tail /\ p.tail <= p.cap
  BY DEF GoodBuffer, IsBuffer, IsLayout, InAllocation, HeaderSize, HeaderV1Size
<1>2. \A q \in DOMAIN p.at :
        /\ EncodedLen(p.at[q]) \in Nat \ {0}
        /\ DecodedLen(p.at[q]) = EncodedLen(p.at[q])
        /\ HeaderSize(p) <= q
        /\ q + EncodedLen(p.at[q]) \in DOMAIN p.at \cup {p.tail}
        /\ q + EncodedLen(p.at[q]) <= p.tail
        /\ ReadsAsWritten(p.at[q])
        /\ \A r \in DOMAIN p.at : q < r => q + EncodedLen(p.at[q]) <= r
  BY <1>1, FieldLength DEF GoodBuffer, FramedBuffer, FramedFields, ReadsAsWritten
<1>3. /\ IsField(g) /\ ReadsAsWritten(g)
      /\ EncodedLen(g) + size = EncodedLen(f) + in.len
      /\ EncodedLen(g) \in Nat \ {0} /\ size \in Nat /\ in.len \in Nat
      /\ DecodedLen(g) = EncodedLen(g)
      /\ g.type = f.type /\ g.name = f.name /\ DecodedSize(g) = in.len
  <2>1. IsField(f) /\ ReadsAsWritten(f)
    BY <1>1, <1>2
  <2>2. IsField(g) /\ ReadsAsWritten(g)
        /\ EncodedLen(g) + size = EncodedLen(f) + in.len
    BY <2>1, RewrittenGood
  <2>3. g.type = f.type /\ g.name = f.name /\ g.data = in
    BY <2>1 DEF Rewritten, IsField
  <2>4. DecodedSize(g) = in.len
    BY <2>2, <2>3, ReadsBack
  <2> QED
    BY <2>1, <2>2, <2>3, <2>4, FieldLength DEF IsInput, ReadsAsWritten
<1> HIDE DEF g, size
\* The new offsets: in the same order, none shared, and none before the first.
<1>4. \A q \in DOMAIN p.at \cup {p.tail} :
        /\ Moved(q) \in Nat
        /\ q > o => Moved(q) >= o + EncodedLen(g)
  BY <1>1, <1>2, <1>3
<1>5. \A q, r \in DOMAIN p.at : q < r => Moved(q) < Moved(r)
  BY <1>1, <1>2, <1>3, <1>4
<1>6. \A q, r \in DOMAIN p.at : Moved(q) = Moved(r) => q = r
  BY <1>1, <1>4, <1>5
\* Where a field ends is where the next one starts, before and after.
<1>7. \A q \in DOMAIN p.at :
        Moved(q) + E(q) = Moved(q + EncodedLen(p.at[q]))
  BY <1>1, <1>2, <1>3
<1>8. /\ c.at = [x \in {Moved(q) : q \in DOMAIN p.at} |->
                   IF x = o THEN g
                   ELSE p.at[CHOOSE q \in DOMAIN p.at : Moved(q) = x]]
      /\ c.tail = (p.tail + in.len) - size
      /\ c.cap = IF in.len > size THEN (p.cap + in.len) - size ELSE p.cap
      /\ c.hdr = p.hdr /\ c.ver = p.ver /\ c.rem = p.rem
      /\ c \in [at : {c.at}, tail : Nat, cap : Nat,
               hdr : Nat, ver : Nat, rem : Nat]
  <2>1. p.tail > o /\ (p.tail + in.len) - size \in Nat
    BY <1>1, <1>2, <1>4
  <2>2. (IF in.len > size THEN (p.cap + in.len) - size ELSE p.cap) \in Nat
    BY <1>1, <1>3
  <2> DEFINE at == [x \in {Moved(q) : q \in DOMAIN p.at} |->
                     IF x = o THEN g
                     ELSE p.at[CHOOSE q \in DOMAIN p.at : Moved(q) = x]]
             tail == (p.tail + in.len) - size
             cap == IF in.len > size THEN (p.cap + in.len) - size ELSE p.cap
  <2>3. c = [p EXCEPT !.at = at, !.tail = tail, !.cap = cap]
    BY Zenon DEF Replaced, g, size
  <2> HIDE DEF at, tail, cap, c
  <2>4. /\ c.at = at /\ c.tail = tail /\ c.cap = cap
        /\ c.hdr = p.hdr /\ c.ver = p.ver /\ c.rem = p.rem
        /\ c \in [at : {c.at}, tail : Nat, cap : Nat,
                 hdr : Nat, ver : Nat, rem : Nat]
    <3>1. tail \in Nat /\ cap \in Nat
      BY <2>1, <2>2 DEF tail, cap
    <3> QED
      BY <3>1, <2>3, <1>1, Resized
  <2> QED
    BY <2>4, Zenon DEF at, tail, cap
<1> HIDE DEF c
<1>9. /\ DOMAIN c.at = {Moved(q) : q \in DOMAIN p.at}
      /\ \A q \in DOMAIN p.at :
            c.at[Moved(q)] = IF q = o THEN g ELSE p.at[q]
  <2>1. \A q \in DOMAIN p.at : Moved(q) = o <=> q = o
    <3>1. Moved(o) = o
      BY <1>1
    <3> QED
      BY <3>1, <1>6
  <2>2. \A q \in DOMAIN p.at :
            (CHOOSE r \in DOMAIN p.at : Moved(r) = Moved(q)) = q
    BY <1>6
  <2>3. DOMAIN c.at = {Moved(q) : q \in DOMAIN p.at}
    BY <1>8
  <2>4. ASSUME NEW q \in DOMAIN p.at
        PROVE  c.at[Moved(q)] = IF q = o THEN g ELSE p.at[q]
    <3> HIDE DEF Moved
    <3>1. Moved(q) \in {Moved(r) : r \in DOMAIN p.at}
      OBVIOUS
    <3>2. c.at[Moved(q)] =
            IF Moved(q) = o THEN g
            ELSE p.at[CHOOSE r \in DOMAIN p.at : Moved(r) = Moved(q)]
      BY <3>1, <1>8, Zenon
    <3>3. (CHOOSE r \in DOMAIN p.at : Moved(r) = Moved(q)) = q
      BY <2>2
    <3>4. CASE q = o
      BY <3>2, <3>4, <2>1
    <3>5. CASE q # o
      <4>1. c.at[Moved(q)] =
              p.at[CHOOSE r \in DOMAIN p.at : Moved(r) = Moved(q)]
        BY <3>2, <3>5, <2>1
      <4>2. c.at[Moved(q)] = p.at[q]
        BY <4>1, <3>3, Zenon
      <4> QED
        BY <4>2, <3>5
    <3> QED
      BY <3>4, <3>5
  <2> QED
    BY <2>3, <2>4
<1>10. IsBuffer(c)
  <2>1. c.at = [x \in DOMAIN c.at |-> c.at[x]]
    BY <1>8
  <2>2. DOMAIN c.at \subseteq Nat /\ \A x \in DOMAIN c.at : IsField(c.at[x])
    BY <1>1, <1>3, <1>4, <1>9
  <2> QED
    BY <2>1, <2>2, <1>8 DEF IsBuffer, IsLayout
<1>11. HeaderSize(c) = HeaderSize(p)
  BY <1>8 DEF HeaderSize
<1>12. p.tail > o /\ c.tail = Moved(p.tail)
  BY <1>1, <1>2, <1>8
<1>13. \A q \in DOMAIN p.at :
        /\ EncodedLen(c.at[Moved(q)]) = E(q)
        /\ DecodedLen(c.at[Moved(q)]) = E(q)
        /\ ReadsAsWritten(c.at[Moved(q)])
        /\ E(q) \in Nat \ {0}
  BY <1>2, <1>3, <1>9
<1>14. FramedBuffer(c)
  <2>1. HeaderSize(c) \in DOMAIN c.at \cup {c.tail}
    <3>1. HeaderSize(p) \in DOMAIN p.at
      BY <1>1, <1>2, <1>12 DEF GoodBuffer, FramedBuffer, FramedFields
    <3>2. Moved(HeaderSize(p)) = HeaderSize(p)
      BY <1>1, <1>2
    <3> QED
      BY <3>1, <3>2, <1>9, <1>11
  <2>2. ASSUME NEW q \in DOMAIN p.at
        PROVE  LET x == Moved(q) IN
               /\ HeaderSize(c) <= x
               /\ x + DecodedLen(c.at[x]) \in DOMAIN c.at \cup {c.tail}
               /\ x + EncodedLen(c.at[x]) <= c.tail
               /\ ReadsAsWritten(c.at[x])
               /\ \A r \in DOMAIN p.at :
                    x < Moved(r) => x + EncodedLen(c.at[x]) <= Moved(r)
    <3>1. HeaderSize(c) <= Moved(q)
      BY <1>1, <1>2, <1>3, <1>4, <1>11
    <3>2. Moved(q) + E(q) \in DOMAIN c.at \cup {c.tail}
      BY <1>2, <1>7, <1>9, <1>12
    <3>3. Moved(q) + E(q) <= c.tail
      BY <1>1, <1>2, <1>3, <1>12
    <3>4. \A r \in DOMAIN p.at : Moved(q) < Moved(r) => Moved(q) + E(q) <= Moved(r)
      BY <1>1, <1>2, <1>3, <1>5, <1>4
    <3> QED
      BY <3>1, <3>2, <3>3, <3>4, <1>13
  <2> QED
    BY <2>1, <2>2, <1>9 DEF FramedBuffer, FramedFields
<1>15. InAllocation(c)
  <2>1. HeaderSize(c) <= c.tail
    BY <1>10, <1>14, FramedNests, <1>11, <1>1 DEF IsBuffer, FramedBuffer
  <2>2. c.tail <= c.cap
    BY <1>1, <1>3, <1>8
  <2> QED
    BY <2>1, <2>2 DEF InAllocation
<1>16. HeaderInBytes(c)
  BY <1>8 DEF HeaderInBytes, GoodBuffer
<1>17. CASE in.len # size
  <2>1. Moved(o) = o /\ \A q \in DOMAIN p.at : q < o => Moved(q) = q
    BY <1>1
  <2>2. \A q \in DOMAIN p.at : Moved(q) < o => Moved(q) = q
    BY <1>1, <1>3, <1>4
  <2>3. o \in DOMAIN c.at
    BY <2>1, <1>9
  <2>4. \A x \in Nat : x < o => (x \in DOMAIN c.at <=> x \in DOMAIN p.at)
    BY <2>1, <2>2, <1>9
  <2>5. \A x \in DOMAIN p.at : x < o => c.at[x] = p.at[x]
    BY <2>1, <1>1, <1>9
  <2>6. KeepsBelow(p, c, o)
    BY <2>3, <2>4, <2>5, <1>1, <1>11, <1>12 DEF KeepsBelow
  <2> QED
    BY <2>6, <1>17, <1>10, <1>14, <1>15, <1>16 DEF GoodBuffer, c, size
<1>18. CASE in.len = size
  <2>1. Moved(p.tail) = p.tail /\ \A q \in DOMAIN p.at : Moved(q) = q
    BY <1>18, <1>1, <1>3
  <2>2. DOMAIN c.at = DOMAIN p.at /\ c.tail = p.tail
    BY <2>1, <1>9, <1>12
  <2>3. \A x \in DOMAIN p.at : c.at[x] = IF x = o THEN g ELSE p.at[x]
    BY <2>1, <1>9
  <2>4. KeepsBelow(p, c, p.tail)
    BY <2>2, <2>3, <1>1, <1>3, <1>11, <1>18 DEF KeepsBelow, size
  <2> QED
    BY <2>4, <1>18, <1>10, <1>14, <1>15, <1>16 DEF GoodBuffer, c, size
<1> QED
  BY <1>17, <1>18

-----------------------------------------------------------------------------
(* The operations, with their failures. *)

\* The buffer is good, and it is the same buffer if the call failed.
GoodOutcome(p, r) ==
    /\ GoodBuffer(r.buf)
    /\ r.status \in Statuses \ {"NOMEM"}
    /\ r.status # "OK" => r.buf = p

\* addField.
LEMMA AddFieldGood ==
    ASSUME NEW p, GoodBuffer(p), NEW name \in Names, NEW fid \in Nat,
           NEW in, IsInput(in)
    PROVE  GoodOutcome(p, AddField(p, name, fid, in))
<1> DEFINE r == AddField(p, name, fid, in)
           status == AddStatus(name, fid, in)
<1>1. status \in Statuses \ {"NOMEM"}
  BY DEF AddStatus, Statuses
<1>2. r.status = status
      /\ r.buf = IF status = "OK" THEN Appended(p, Encode(name, fid, in)) ELSE p
  BY DEF AddField, Outcome
<1>3. CASE status = "OK"
  <2>1. in.len <= MaxU32
    BY <1>3, MaxU32Assumption DEF AddStatus, IsInput
  <2> QED
    BY <1>1, <1>2, <1>3, <2>1, EncodeGood, AppendedGood DEF GoodOutcome
<1>4. CASE status # "OK"
  BY <1>1, <1>2, <1>4 DEF GoodOutcome
<1> QED
  BY <1>3, <1>4

\* updateField on a field that was found.
LEMMA UpdateAtGood ==
    ASSUME NEW p, GoodBuffer(p), NEW o \in DOMAIN p.at, NEW in, IsInput(in),
           in.len <= MaxU32,
           Castable(p.at[o].type, in.type) => Width(p.at[o].type) = Width(in.type)
    PROVE  GoodOutcome(p, UpdateAt(p, o, in))
<1>1. CASE Accepts(p.at[o], in)
  <2>1. KeepsFraming(p.at[o], in)
    BY <1>1 DEF Accepts, KeepsFraming
  <2>2. GoodBuffer(Replaced(p, o, in))
    BY <2>1, ReplacedGood
  <2> QED
    BY <1>1, <2>2 DEF UpdateAt, Outcome, GoodOutcome, Statuses
<1>2. CASE ~Accepts(p.at[o], in)
  BY <1>2 DEF UpdateAt, Outcome, GoodOutcome, Statuses
<1> QED
  BY <1>1, <1>2

\* updateField, for a caller that keeps to the rules.
LEMMA UpdateFieldGood ==
    ASSUME NEW p, GoodBuffer(p), NEW name \in Names, NEW fid \in Nat,
           NEW in, IsInput(in), FitsPrefix(in), KeepsWidth(p, name, fid, in)
    PROVE  GoodOutcome(p, UpdateField(p, name, fid, in))
<1>1. CASE NoIdentity(name, fid)
  BY <1>1 DEF UpdateField, Outcome, GoodOutcome, Statuses
<1>2. CASE ~NoIdentity(name, fid) /\ Found(p, name, fid)
  <2> DEFINE o == FirstMatch(p, name, fid)
  <2>1. o \in DOMAIN p.at
    BY <1>2, FirstMatchFound DEF GoodBuffer
  <2>2. Castable(p.at[o].type, in.type) => Width(p.at[o].type) = Width(in.type)
    BY <1>2 DEF KeepsWidth
  <2>3. UpdateField(p, name, fid, in) = UpdateAt(p, o, in)
    BY <1>2 DEF UpdateField
  <2> HIDE DEF o
  <2> QED
    BY <2>1, <2>2, <2>3, UpdateAtGood DEF FitsPrefix
<1>3. CASE ~NoIdentity(name, fid) /\ ~Found(p, name, fid)
  <2>1. UpdateField(p, name, fid, in) = AddField(p, name, fid, in)
    BY <1>3 DEF UpdateField
  <2> QED
    BY <2>1, AddFieldGood
<1> QED
  BY <1>1, <1>2, <1>3

-----------------------------------------------------------------------------
(* What the operations store. *)

\* A lookup can find the field.
Identified(f) == f.name # NoName \/ f.fid # 0

\* A field of the buffer q that a call with value in leaves of p: one that
\* was there, one that takes the value, or a new one that has it.
StoredBy(p, in, f) ==
    \/ f \in FieldsOf(p)
    \/ \E g \in FieldsOf(p) : Accepts(g, in) /\ f = Rewritten(g, in)
    \/ f.type = in.type /\ f.data = in /\ Identified(f)

LEMMA AddStores ==
    ASSUME NEW p, IsBuffer(p), NEW name, NEW fid, NEW in, IsInput(in),
           NEW f \in FieldsOf(AddField(p, name, fid, in).buf)
    PROVE  StoredBy(p, in, f)
<1> DEFINE e == Encode(name, fid, in)
<1>1. CASE AddStatus(name, fid, in) # "OK"
  BY <1>1 DEF AddField, Outcome, StoredBy
<1>2. CASE AddStatus(name, fid, in) = "OK"
  <2>1. f \in FieldsOf(Appended(p, e))
    BY <1>2 DEF AddField, Outcome
  <2>2. f = e \/ f \in FieldsOf(p)
    BY <2>1 DEF FieldsOf, Appended, IsBuffer
  <2>3. ~NoIdentity(name, fid) /\ ~BlankIdentity(name, fid)
    BY <1>2, ValueLength, MaxU32Assumption DEF AddStatus
  <2>4. Identified(e)
    BY <2>3 DEF Identified, Encode, StoredName, NoIdentity, BlankIdentity
  <2> QED
    BY <2>2, <2>4 DEF StoredBy, Encode
<1> QED
  BY <1>1, <1>2

LEMMA UpdateAtStores ==
    ASSUME NEW p, IsBuffer(p), NEW o \in DOMAIN p.at, NEW in,
           NEW f \in FieldsOf(UpdateAt(p, o, in).buf)
    PROVE  StoredBy(p, in, f)
<1>1. CASE ~Accepts(p.at[o], in)
  BY <1>1 DEF UpdateAt, Outcome, StoredBy
<1>2. CASE Accepts(p.at[o], in)
  <2> DEFINE Moved(q) == IF q > o THEN (q + in.len) - DecodedSize(p.at[o]) ELSE q
             Old(x)   == CHOOSE q \in DOMAIN p.at : Moved(q) = x
             at       == [x \in {Moved(q) : q \in DOMAIN p.at} |->
                            IF x = o THEN Rewritten(p.at[o], in)
                            ELSE p.at[Old(x)]]
  <2>0. UpdateAt(p, o, in).buf.at = at
    BY <1>2 DEF UpdateAt, Outcome, Replaced, IsBuffer
  <2> HIDE DEF at
  <2>1. FieldsOf(UpdateAt(p, o, in).buf) = {at[x] : x \in DOMAIN at}
    BY <2>0 DEF FieldsOf
  <2> USE DEF at
  <2>2. PICK x \in DOMAIN at : f = at[x]
    BY <2>1
  <2>3. Old(x) \in DOMAIN p.at
    BY <2>2
  <2>4. f = IF x = o THEN Rewritten(p.at[o], in) ELSE p.at[Old(x)]
    BY <2>2
  <2> HIDE DEF Old
  <2> QED
    BY <2>3, <2>4, <1>2 DEF StoredBy, FieldsOf
<1> QED
  BY <1>1, <1>2

LEMMA UpdateStores ==
    ASSUME NEW p, IsBuffer(p), NEW name, NEW fid, NEW in, IsInput(in),
           NEW q \in {UpdateField(p, name, fid, in).buf,
                      UpdateVectorField(p, name, fid, in).buf},
           NEW f \in FieldsOf(q)
    PROVE  StoredBy(p, in, f)
<1>1. CASE NoIdentity(name, fid)
  BY <1>1 DEF UpdateField, UpdateVectorField, Outcome, StoredBy
<1>2. CASE ~NoIdentity(name, fid) /\ Found(p, name, fid)
  <2> DEFINE o == FirstMatch(p, name, fid)
  <2>1. o \in DOMAIN p.at
    BY <1>2, FirstMatchFound
  <2>2. q = UpdateAt(p, o, in).buf
    BY <1>2 DEF UpdateField, UpdateVectorField, Outcome
  <2> HIDE DEF o
  <2> QED
    BY <2>1, <2>2, UpdateAtStores
<1>3. CASE ~NoIdentity(name, fid) /\ ~Found(p, name, fid)
  BY <1>3, AddStores DEF UpdateField, UpdateVectorField
<1> QED
  BY <1>1, <1>2, <1>3

-----------------------------------------------------------------------------
(* The order of the fields.  Fields finds them by counting the offsets     *)
(* before each; the proofs do not count, but work with a listing.          *)

\* e goes through the offsets D, n of them, in order.
Listing(e, n, D) ==
    /\ n \in Nat
    /\ e \in [1 .. n -> D]
    /\ \A i, j \in 1 .. n : i < j => e[i] < e[j]
    /\ \A o \in D : \E i \in 1 .. n : e[i] = o

Lists(e, n, p) == DOMAIN p.at \in SUBSET Nat /\ Listing(e, n, DOMAIN p.at)

(* Counting. *)

OffsetsBefore(D, o) == {q \in D : q < o}

\* Of two offsets, fewer come before the lower one.
LEMMA CountBefore ==
    ASSUME NEW D \in SUBSET Nat, IsFiniteSet(D), NEW o \in D
    PROVE  /\ Cardinality(OffsetsBefore(D, o)) \in 0 .. Cardinality(D) - 1
           /\ \A q \in D : o < q =>
                Cardinality(OffsetsBefore(D, o)) < Cardinality(OffsetsBefore(D, q))
<1>1. ASSUME NEW S \in SUBSET D, NEW T \in SUBSET D, S \subseteq T, S # T
      PROVE  /\ Cardinality(S) \in Nat /\ Cardinality(T) \in Nat
             /\ Cardinality(S) < Cardinality(T)
  <2>1. IsFiniteSet(T) /\ IsFiniteSet(S)
    BY FS_Subset
  <2>2. Cardinality(S) <= Cardinality(T) /\ Cardinality(S) # Cardinality(T)
    BY <1>1, <2>1, FS_Subset
  <2> QED
    BY <2>1, <2>2, FS_CardinalityType
<1>2. OffsetsBefore(D, o) \subseteq D /\ OffsetsBefore(D, o) # D
  BY DEF OffsetsBefore
<1>3. Cardinality(OffsetsBefore(D, o)) \in 0 .. Cardinality(D) - 1
  BY <1>1, <1>2
<1>4. ASSUME NEW q \in D, o < q
      PROVE  Cardinality(OffsetsBefore(D, o)) < Cardinality(OffsetsBefore(D, q))
  <2>1. o \in Nat /\ q \in Nat /\ \A x \in D : x \in Nat
    OBVIOUS
  <2>2. OffsetsBefore(D, o) \in SUBSET D /\ OffsetsBefore(D, q) \in SUBSET D
    BY DEF OffsetsBefore
  <2>3. OffsetsBefore(D, o) \subseteq OffsetsBefore(D, q)
    <3> SUFFICES ASSUME NEW x \in D, x < o PROVE x < q
      BY DEF OffsetsBefore
    <3>1. x \in Nat
      BY <2>1
    <3> QED
      BY <1>4, <2>1, <3>1
  <2>4. o \in OffsetsBefore(D, q) /\ o \notin OffsetsBefore(D, o)
    BY <1>4, <2>1 DEF OffsetsBefore
  <2> QED
    BY <2>2, <2>3, <2>4, <1>1
<1> QED
  BY <1>3, <1>4

\* Every finite set of offsets has a listing.
LEMMA ListingExists ==
    ASSUME NEW D \in SUBSET Nat, IsFiniteSet(D)
    PROVE  \E e, n : Listing(e, n, D)
<1> DEFINE n == Cardinality(D)
           r == [o \in D |-> Cardinality(OffsetsBefore(D, o)) + 1]
           e == [i \in 1 .. n |-> CHOOSE o \in D : r[o] = i]
<1>1. n \in Nat
  BY FS_CardinalityType
<1>2. r \in [D -> 1 .. n] /\ \A o, q \in D : o < q => r[o] < r[q]
  BY <1>1, CountBefore
<1>3. \A o, q \in D : r[o] = r[q] => o = q
  BY <1>2
<1> HIDE DEF r
<1>4. r \in Injection(D, 1 .. n)
  BY <1>2, <1>3 DEF Injection, IsInjective
<1>5. IsFiniteSet(1 .. n) /\ Cardinality(1 .. n) = n
  BY <1>1, FS_Interval
<1>6. r \in Surjection(D, 1 .. n)
  BY <1>4, <1>5, FS_Injection
<1>7. \A i \in 1 .. n : \E o \in D : r[o] = i
  BY <1>6 DEF Surjection
<1>8. \A i \in 1 .. n : e[i] \in D /\ r[e[i]] = i
  BY <1>7
<1> HIDE DEF e
<1>9. e \in [1 .. n -> D]
  BY <1>8 DEF e
<1>10. \A i, j \in 1 .. n : i < j => e[i] < e[j]
  <2> SUFFICES ASSUME NEW i \in 1 .. n, NEW j \in 1 .. n, i < j, ~(e[i] < e[j])
               PROVE  FALSE
    OBVIOUS
  <2>1. e[j] \in D /\ e[i] \in D /\ \A x \in D : x \in Nat
    BY <1>8
  <2>2. e[j] = e[i] \/ e[j] < e[i]
    <3>1. e[j] \in Nat /\ e[i] \in Nat
      BY <2>1
    <3> QED
      BY <3>1
  <2> QED
    <3>1. r[e[i]] = i /\ r[e[j]] = j
      BY <1>8
    <3>2. e[j] < e[i] => r[e[j]] < r[e[i]]
      BY <2>1, <1>2
    <3>3. i \in Nat /\ j \in Nat
      BY <1>1
    <3> QED
      BY <2>2, <3>1, <3>2, <3>3
<1>11. \A o \in D : \E i \in 1 .. n : e[i] = o
  BY <1>2, <1>3, <1>8
<1>12. Listing(e, n, D)
  BY <1>1, <1>9, <1>10, <1>11 DEF Listing
<1> QED
  BY <1>12

\* A listing is a bijection, and so are its beginnings.
LEMMA ListingCounts ==
    ASSUME NEW D \in SUBSET Nat, NEW e, NEW n, Listing(e, n, D)
    PROVE  /\ Cardinality(D) = n
           /\ \A i \in 1 .. n : Cardinality(OffsetsBefore(D, e[i])) = i - 1
<1>0. /\ n \in Nat /\ \A i \in 1 .. n : e[i] \in Nat
      /\ \A i, j \in 1 .. n : i < j => e[i] < e[j]
  BY DEF Listing
<1>1. \A i, j \in 1 .. n : e[i] = e[j] => i = j
  <2> SUFFICES ASSUME NEW i \in 1 .. n, NEW j \in 1 .. n, e[i] = e[j], i # j
               PROVE  FALSE
    OBVIOUS
  <2>1. i < j \/ j < i
    BY <1>0
  <2> QED
    BY <2>1, <1>0
<1>2. \A i, j \in 1 .. n : e[j] < e[i] <=> j < i
  <2> SUFFICES ASSUME NEW i \in 1 .. n, NEW j \in 1 .. n
               PROVE  e[j] < e[i] <=> j < i
    OBVIOUS
  <2>1. i < j \/ j < i \/ i = j
    BY <1>0
  <2> QED
    BY <2>1, <1>0
<1>3. Cardinality(D) = n
  <2>1. e \in Bijection(1 .. n, D)
    BY <1>1 DEF Listing, Bijection, Injection, IsInjective, Surjection
  <2> QED
    BY <2>1, FS_CountingElements DEF ExistsBijection, Listing
<1>4. ASSUME NEW i \in 1 .. n
      PROVE  Cardinality(OffsetsBefore(D, e[i])) = i - 1
  <2> DEFINE g == [j \in 1 .. i - 1 |-> e[j]]
             S == OffsetsBefore(D, e[i])
  <2>1. n \in Nat /\ i - 1 \in Nat /\ 1 .. i - 1 \subseteq 1 .. n
    BY DEF Listing
  <2>2. g \in [1 .. i - 1 -> S]
    BY <1>2, <2>1 DEF OffsetsBefore, Listing
  <2>3. \A j, k \in 1 .. i - 1 : g[j] = g[k] => j = k
    BY <1>1, <2>1
  <2>4. \A o \in S : \E j \in 1 .. i - 1 : g[j] = o
    BY <1>2, <2>1 DEF OffsetsBefore, Listing
  <2> HIDE DEF g, S
  <2>5. g \in Bijection(1 .. i - 1, S)
    BY <2>2, <2>3, <2>4 DEF Bijection, Injection, IsInjective, Surjection
  <2>6. Cardinality(S) = i - 1
    BY <2>1, <2>5, FS_CountingElements DEF ExistsBijection
  <2> QED
    BY <2>6 DEF S
<1> QED
  BY <1>3, <1>4

\* Fields goes through the fields as any listing of their offsets does.
LEMMA ListingFields ==
    ASSUME NEW p, NEW e, NEW n, Lists(e, n, p)
    PROVE  /\ DOMAIN Fields(p) = 1 .. n
           /\ \A i \in 1 .. n : Fields(p)[i] = p.at[e[i]]
<1>0. DOMAIN p.at \in SUBSET Nat /\ Listing(e, n, DOMAIN p.at)
  BY DEF Lists
<1> DEFINE D == DOMAIN p.at
           pick(i) == CHOOSE o \in D : Cardinality({q \in D : q < o}) = i - 1
<1>1. /\ Cardinality(D) = n
      /\ \A i \in 1 .. n : Cardinality({q \in D : q < e[i]}) = i - 1
  BY <1>0, ListingCounts DEF OffsetsBefore
<1>2. \A i, j \in 1 .. n : i - 1 = j - 1 => i = j
  BY <1>0 DEF Listing
<1>3. ASSUME NEW i \in 1 .. n PROVE pick(i) = e[i]
  <2>1. e[i] \in D /\ Cardinality({q \in D : q < e[i]}) = i - 1
    BY <1>0, <1>1 DEF Listing
  <2>2. pick(i) \in D /\ Cardinality({q \in D : q < pick(i)}) = i - 1
    BY <2>1
  <2>3. PICK j \in 1 .. n : e[j] = pick(i)
    BY <1>0, <2>2 DEF Listing
  <2> HIDE DEF pick
  <2>4. i - 1 = j - 1
    BY <2>2, <2>3, <1>1
  <2> QED
    BY <2>3, <2>4, <1>2
<1>4. Fields(p) = [i \in 1 .. n |-> p.at[pick(i)]]
  BY <1>1 DEF Fields
<1> HIDE DEF pick
<1> QED
  BY <1>3, <1>4

\* The offsets of a good buffer can be listed, and so can what is sent of it.
LEMMA FramedListing ==
    ASSUME NEW p, IsLayout(p.at), NEW first, NEW tail \in Nat,
           FramedFields(p.at, first, tail)
    PROVE  \E e, n : Lists(e, n, p)
<1>1. DOMAIN p.at \in SUBSET Nat
  BY DEF IsLayout
<1>2. \A o \in DOMAIN p.at : o <= tail
  <2> SUFFICES ASSUME NEW o \in DOMAIN p.at PROVE o <= tail
    OBVIOUS
  <2>1. EncodedLen(p.at[o]) \in Nat /\ o \in Nat
    BY <1>1, FieldLength DEF IsLayout
  <2>2. o + EncodedLen(p.at[o]) <= tail
    BY DEF FramedFields
  <2> QED
    BY <2>1, <2>2
<1>3. IsFiniteSet(DOMAIN p.at)
  BY <1>1, <1>2, FS_BoundedSetOfNaturals
<1> QED
  BY <1>1, <1>3, ListingExists DEF Lists

\* The offsets of a good buffer can be listed.
LEMMA GoodListing ==
    ASSUME NEW p, GoodBuffer(p)
    PROVE  \E e, n : Lists(e, n, p)
BY FramedListing DEF GoodBuffer, IsBuffer, FramedBuffer

\* A field that is appended is the last.
LEMMA AppendedListing ==
    ASSUME NEW p, GoodBuffer(p), NEW f, NEW e, NEW n, Lists(e, n, p)
    PROVE  \E e2 : /\ Lists(e2, n + 1, Appended(p, f))
                   /\ \A i \in 1 .. n : Appended(p, f).at[e2[i]] = p.at[e[i]]
                   /\ Appended(p, f).at[e2[n + 1]] = f
<1> DEFINE q == Appended(p, f)
<1>1. Lists(e, n, p)
  OBVIOUS
<1>2. /\ p.tail \in Nat /\ DOMAIN p.at \in SUBSET Nat /\ n \in Nat
      /\ \A o \in DOMAIN p.at : o < p.tail
  BY <1>1, Offsets DEF Lists, Listing
<1>3. q.at = [o \in DOMAIN p.at \cup {p.tail} |-> IF o = p.tail THEN f ELSE p.at[o]]
  BY DEF Appended, GoodBuffer, IsBuffer
<1> HIDE DEF q
<1> DEFINE e2 == [i \in 1 .. n + 1 |-> IF i = n + 1 THEN p.tail ELSE e[i]]
<1>4. \A i \in 1 .. n : e[i] \in DOMAIN p.at /\ e2[i] = e[i]
  BY <1>1, <1>2 DEF Lists, Listing
<1>5. e2[n + 1] = p.tail /\ \A i \in 1 .. n + 1 : i # n + 1 => i \in 1 .. n
  BY <1>2
<1>6. Lists(e2, n + 1, q)
  <2>0. DOMAIN q.at \in SUBSET Nat
    BY <1>2, <1>3
  <2>1. e2 \in [1 .. n + 1 -> DOMAIN q.at]
    BY <1>3, <1>4, <1>5
  <2>2. ASSUME NEW i \in 1 .. n + 1, NEW j \in 1 .. n + 1, i < j
        PROVE  e2[i] < e2[j]
    <3>1. i \in 1 .. n
      BY <2>2, <1>2
    <3>2. CASE j \in 1 .. n
      BY <2>2, <3>1, <3>2, <1>1, <1>4 DEF Lists, Listing
    <3>3. CASE j = n + 1
      BY <3>1, <3>3, <1>2, <1>4, <1>5
    <3> QED
      BY <3>2, <3>3, <1>5
  <2>3. ASSUME NEW o \in DOMAIN q.at PROVE \E i \in 1 .. n + 1 : e2[i] = o
    <3>1. CASE o = p.tail
      BY <3>1, <1>2, <1>5
    <3>2. CASE o \in DOMAIN p.at
      <4>1. PICK i \in 1 .. n : e[i] = o
        BY <3>2, <1>1 DEF Lists, Listing
      <4> QED
        BY <4>1, <1>2, <1>4
    <3> QED
      BY <3>1, <3>2, <1>3
  <2> HIDE DEF e2
  <2> QED
    BY <2>0, <2>1, <2>2, <2>3, <1>2 DEF Lists, Listing
<1> HIDE DEF e2
<1>7. /\ \A i \in 1 .. n : q.at[e2[i]] = p.at[e[i]]
      /\ q.at[e2[n + 1]] = f
  BY <1>2, <1>3, <1>4, <1>5
<1> QED
  BY <1>6, <1>7 DEF q

\* Where a field that starts at q is after the field at o was updated.
MovedTo(p, o, in, q) ==
    IF q > o THEN (q + in.len) - DecodedSize(p.at[o]) ELSE q

MovedFields(p, o, in) == {MovedTo(p, o, in, q) : q \in DOMAIN p.at}

\* An update in place keeps the order of the fields.
LEMMA MovedInOrder ==
    ASSUME NEW p, GoodBuffer(p), NEW o \in DOMAIN p.at, NEW in, IsInput(in)
    PROVE  /\ \A q \in DOMAIN p.at : MovedTo(p, o, in, q) \in Nat
           /\ \A q, r \in DOMAIN p.at :
                q < r => MovedTo(p, o, in, q) < MovedTo(p, o, in, r)
           /\ MovedTo(p, o, in, o) = o
<1> DEFINE size == DecodedSize(p.at[o])
<1>1. /\ \A q \in DOMAIN p.at : q \in Nat
      /\ IsField(p.at[o]) /\ ReadsAsWritten(p.at[o])
      /\ \A r \in DOMAIN p.at : o < r => o + EncodedLen(p.at[o]) <= r
  BY DEF GoodBuffer, IsBuffer, IsLayout, FramedBuffer, FramedFields
<1>2. size \in Nat /\ EncodedLen(p.at[o]) \in Nat /\ size < EncodedLen(p.at[o])
  <2>1. size = p.at[o].data.len
    BY <1>1, ReadsBack
  <2>2. /\ p.at[o].data.len \in Nat /\ NameLen[p.at[o].name] \in Nat
        /\ PrefixBytes(SizedTypes, p.at[o].type) \in Nat
    BY <1>1, ValueLength, NamesAssumption DEF IsField, Names, PrefixBytes, LengthWidth
  <2> HIDE DEF size
  <2> QED
    BY <2>1, <2>2 DEF EncodedLen, FieldTypeWidth, FidWidth, NameBytes
<1>3. in.len \in Nat
  BY ValueLength
<1>4. \A q \in DOMAIN p.at :
        MovedTo(p, o, in, q) = IF q > o THEN (q + in.len) - size ELSE q
  BY DEF MovedTo
<1> HIDE DEF size
<1>5. \A q \in DOMAIN p.at : q > o => q > o + size
  BY <1>1, <1>2
<1>6. \A q \in DOMAIN p.at :
        MovedTo(p, o, in, q) \in Nat /\ (q > o => MovedTo(p, o, in, q) > o)
  BY <1>1, <1>2, <1>3, <1>4, <1>5
<1>7. ASSUME NEW q \in DOMAIN p.at, NEW r \in DOMAIN p.at, q < r
      PROVE  MovedTo(p, o, in, q) < MovedTo(p, o, in, r)
  BY <1>1, <1>2, <1>3, <1>4, <1>6, <1>7
<1>8. MovedTo(p, o, in, o) = o
  BY <1>1, <1>4
<1> QED
  BY <1>6, <1>7, <1>8

\* Where the fields are after an update in place, and what they are.
LEMMA ReplacedFields ==
    ASSUME NEW p, GoodBuffer(p), NEW o \in DOMAIN p.at, NEW in, IsInput(in),
           NEW at, at = Replaced(p, o, in).at
    PROVE  /\ DOMAIN at = MovedFields(p, o, in)
           /\ \A q \in DOMAIN p.at :
                at[MovedTo(p, o, in, q)] =
                    IF q = o THEN Rewritten(p.at[o], in) ELSE p.at[q]
<1> DEFINE D == DOMAIN p.at
           M(q) == MovedTo(p, o, in, q)
           g == Rewritten(p.at[o], in)
<1>1. at = [x \in {M(q) : q \in D} |->
                IF x = o THEN g ELSE p.at[CHOOSE q \in D : M(q) = x]]
  BY DEF Replaced, MovedTo, GoodBuffer, IsBuffer
<1>2. /\ \A q \in D : M(q) \in Nat /\ q \in Nat
      /\ \A q, r \in D : q < r => M(q) < M(r)
      /\ M(o) = o
  BY MovedInOrder DEF GoodBuffer, IsBuffer, IsLayout
<1> HIDE DEF M, g
<1>3. \A q, r \in D : M(q) = M(r) => q = r
  <2> SUFFICES ASSUME NEW q \in D, NEW r \in D, M(q) = M(r), q # r PROVE FALSE
    OBVIOUS
  <2>1. q < r \/ r < q
    BY <1>2
  <2> QED
    BY <2>1, <1>2
<1>4. ASSUME NEW q \in D
      PROVE  at[M(q)] = IF q = o THEN g ELSE p.at[q]
  <2>1. (CHOOSE r \in D : M(r) = M(q)) = q
    BY <1>3
  <2>2. M(q) = o <=> q = o
    BY <1>2, <1>3
  <2>3. at[M(q)] = IF M(q) = o THEN g
                   ELSE p.at[CHOOSE r \in D : M(r) = M(q)]
    BY <1>1
  <2> QED
    BY <2>1, <2>2, <2>3
<1>5. DOMAIN at = {M(q) : q \in D}
  BY <1>1
<1> QED
  BY <1>4, <1>5 DEF M, g, MovedFields

\* A field that is updated in place stays the one it was.
LEMMA ReplacedListing ==
    ASSUME NEW p, GoodBuffer(p), NEW in, IsInput(in),
           NEW e, NEW n, Lists(e, n, p), NEW k \in 1 .. n
    PROVE  LET c == Replaced(p, e[k], in) IN
           \E e2 : /\ Lists(e2, n, c)
                  /\ \A i \in 1 .. n :
                        c.at[e2[i]] = IF i = k THEN Rewritten(p.at[e[k]], in)
                                      ELSE p.at[e[i]]
<1> DEFINE o == e[k]
           c == Replaced(p, o, in)
           e2 == [i \in 1 .. n |-> MovedTo(p, o, in, e[i])]
<1>1. /\ n \in Nat /\ \A i \in 1 .. n : e[i] \in DOMAIN p.at
      /\ \A i, j \in 1 .. n : i < j => e[i] < e[j]
      /\ \A q \in DOMAIN p.at : \E i \in 1 .. n : e[i] = q
      /\ \A q \in DOMAIN p.at : q \in Nat
  BY DEF Lists, Listing
<1>2. o \in DOMAIN p.at
  BY <1>1
<1> DEFINE at == c.at
<1>3. at = Replaced(p, o, in).at
  OBVIOUS
<1> HIDE DEF o, c, at
<1>4. /\ DOMAIN at = MovedFields(p, o, in)
      /\ \A q \in DOMAIN p.at :
            at[MovedTo(p, o, in, q)] =
                IF q = o THEN Rewritten(p.at[o], in) ELSE p.at[q]
  BY <1>2, <1>3, ReplacedFields
<1>5. /\ DOMAIN c.at = {MovedTo(p, o, in, q) : q \in DOMAIN p.at}
      /\ \A q \in DOMAIN p.at :
            c.at[MovedTo(p, o, in, q)] =
                IF q = o THEN Rewritten(p.at[o], in) ELSE p.at[q]
  BY <1>4 DEF at, MovedFields
<1>6. /\ \A q \in DOMAIN p.at : MovedTo(p, o, in, q) \in Nat
      /\ \A q, r \in DOMAIN p.at :
            q < r => MovedTo(p, o, in, q) < MovedTo(p, o, in, r)
  BY <1>2, MovedInOrder
<1>7. Lists(e2, n, c)
  <2>1. DOMAIN c.at \in SUBSET Nat
    BY <1>5, <1>6
  <2>2. e2 \in [1 .. n -> DOMAIN c.at]
    BY <1>1, <1>5
  <2>3. \A i, j \in 1 .. n : i < j => e2[i] < e2[j]
    BY <1>1, <1>6
  <2>4. \A x \in DOMAIN c.at : \E i \in 1 .. n : e2[i] = x
    BY <1>1, <1>5
  <2> HIDE DEF e2
  <2> QED
    BY <1>1, <2>1, <2>2, <2>3, <2>4 DEF Lists, Listing
<1>8. \A i \in 1 .. n :
        c.at[e2[i]] = IF e[i] = o THEN Rewritten(p.at[o], in) ELSE p.at[e[i]]
  BY <1>1, <1>5
<1>9. \A i \in 1 .. n : e[i] = o <=> i = k
  <2> SUFFICES ASSUME NEW i \in 1 .. n, e[i] = o, i # k PROVE FALSE
    BY DEF o
  <2>1. i < k \/ k < i
    BY <1>1
  <2> QED
    BY <2>1, <1>1 DEF o
<1> HIDE DEF e2
<1>10. \A i \in 1 .. n :
        c.at[e2[i]] = IF i = k THEN Rewritten(p.at[e[k]], in) ELSE p.at[e[i]]
  BY <1>8, <1>9 DEF o
<1> QED
  BY <1>7, <1>10 DEF c, o

\* Fields is a sequence.
LEMMA FieldsThrough ==
    ASSUME NEW p, NEW e, NEW n, Lists(e, n, p)
    PROVE  /\ Fields(p) \in Seq(FieldsOf(p))
           /\ Len(Fields(p)) = n /\ n \in Nat /\ DOMAIN Fields(p) = 1 .. n
           /\ \A i \in 1 .. n : Fields(p)[i] = p.at[e[i]]
           /\ \A f \in FieldsOf(p) : \E i \in 1 .. n : Fields(p)[i] = f
<1>1. /\ n \in Nat /\ \A i \in 1 .. n : e[i] \in DOMAIN p.at
      /\ \A o \in DOMAIN p.at : \E i \in 1 .. n : e[i] = o
  BY DEF Lists, Listing
<1>2. /\ DOMAIN Fields(p) = 1 .. n
      /\ \A i \in 1 .. n : Fields(p)[i] = p.at[e[i]]
  BY ListingFields
<1>3. Fields(p) = [i \in 1 .. n |-> Fields(p)[i]]
  BY <1>2 DEF Fields
<1>4. \A i \in 1 .. n : Fields(p)[i] \in FieldsOf(p)
  BY <1>1, <1>2 DEF FieldsOf
<1>5. Fields(p) \in Seq(FieldsOf(p))
  BY <1>1, <1>3, <1>4
<1>6. \A f \in FieldsOf(p) : \E i \in 1 .. n : Fields(p)[i] = f
  <2> SUFFICES ASSUME NEW o \in DOMAIN p.at
               PROVE  \E i \in 1 .. n : Fields(p)[i] = p.at[o]
    BY DEF FieldsOf
  <2>1. PICK i \in 1 .. n : e[i] = o
    BY <1>1
  <2> QED
    BY <2>1, <1>2
<1> QED
  BY <1>1, <1>2, <1>5, <1>6

\* A buffer with the fields of s and one more, f, behind them.
Extended(s, f, t) ==
    /\ Len(t) = Len(s) + 1 /\ t[Len(s) + 1] = f
    /\ \A i \in 1 .. Len(s) : t[i] = s[i]

\* A buffer with the fields of s, the k-th of them g.
Changed(s, k, g, t) ==
    /\ Len(t) = Len(s) /\ t[k] = g
    /\ \A i \in 1 .. Len(s) : i # k => t[i] = s[i]

\* An append adds its field to the sequence of fields.
LEMMA FieldsAppended ==
    ASSUME NEW p, GoodBuffer(p), NEW f
    PROVE  Extended(Fields(p), f, Fields(Appended(p, f)))
<1> DEFINE q == Appended(p, f)
<1>1. PICK e, n : Lists(e, n, p)
  BY GoodListing
<1>2. PICK e2 : /\ Lists(e2, n + 1, q)
                /\ \A i \in 1 .. n : q.at[e2[i]] = p.at[e[i]]
                /\ q.at[e2[n + 1]] = f
  BY <1>1, AppendedListing
<1> HIDE DEF q
<1>3. /\ Len(Fields(p)) = n /\ n \in Nat
      /\ \A i \in 1 .. n : Fields(p)[i] = p.at[e[i]]
  BY <1>1, FieldsThrough
<1>4. /\ Len(Fields(q)) = n + 1
      /\ \A i \in 1 .. n + 1 : Fields(q)[i] = q.at[e2[i]]
  BY <1>2, FieldsThrough
<1>5. \A i \in 1 .. n : i \in 1 .. n + 1
  BY <1>3
<1>6. n + 1 \in 1 .. n + 1
  BY <1>3
<1> QED
  BY <1>2, <1>3, <1>4, <1>5, <1>6 DEF Extended, q

\* The k-th field is the first that a lookup matches.
FirstIn(s, name, fid, k) ==
    /\ k \in 1 .. Len(s) /\ Matches(s[k], name, fid)
    /\ \A i \in 1 .. Len(s) : i < k => ~Matches(s[i], name, fid)

\* A lookup goes through the fields in order, and an update of what it finds
\* changes that field.
LEMMA LookupInOrder ==
    ASSUME NEW p, GoodBuffer(p), NEW name, NEW fid, Found(p, name, fid)
    PROVE  LET o == FirstMatch(p, name, fid)
               s == Fields(p)
           IN  \E k \in 1 .. Len(s) :
                /\ FirstIn(s, name, fid, k) /\ s[k] = p.at[o]
                /\ \A in : IsInput(in) =>
                    Changed(s, k, Rewritten(s[k], in), Fields(Replaced(p, o, in)))
<1> DEFINE o == FirstMatch(p, name, fid)
           s == Fields(p)
<1>1. PICK e, n : Lists(e, n, p)
  BY GoodListing
<1>2. /\ Len(s) = n /\ n \in Nat /\ \A i \in 1 .. n : s[i] = p.at[e[i]]
  BY <1>1, FieldsThrough
<1>3. /\ o \in DOMAIN p.at /\ Matches(p.at[o], name, fid)
      /\ \A q \in DOMAIN p.at : q < o => ~Matches(p.at[q], name, fid)
  BY FirstMatchFound DEF GoodBuffer
<1> HIDE DEF o, s
<1>4. /\ \A i \in 1 .. n : e[i] \in DOMAIN p.at
      /\ \A i, j \in 1 .. n : i < j => e[i] < e[j]
      /\ \E i \in 1 .. n : e[i] = o
  BY <1>1, <1>3 DEF Lists, Listing
<1>5. PICK k \in 1 .. n : e[k] = o
  BY <1>4
<1>6. FirstIn(s, name, fid, k) /\ s[k] = p.at[o]
  BY <1>2, <1>3, <1>4, <1>5 DEF FirstIn
<1>7. ASSUME NEW in, IsInput(in)
      PROVE  Changed(s, k, Rewritten(s[k], in), Fields(Replaced(p, o, in)))
  <2> DEFINE c == Replaced(p, e[k], in)
  <2>1. PICK e2 : /\ Lists(e2, n, c)
                  /\ \A i \in 1 .. n :
                        c.at[e2[i]] = IF i = k THEN Rewritten(p.at[e[k]], in)
                                      ELSE p.at[e[i]]
    BY <1>1, <1>7, ReplacedListing
  <2>2. c = Replaced(p, o, in)
    BY <1>5
  <2> HIDE DEF c
  <2>3. Len(Fields(c)) = n /\ \A i \in 1 .. n : Fields(c)[i] = c.at[e2[i]]
    BY <2>1, FieldsThrough
  <2>4. Changed(s, k, Rewritten(s[k], in), Fields(c))
    BY <1>2, <2>1, <2>3 DEF Changed
  <2> QED
    BY <2>2, <2>4
<1> QED
  BY <1>2, <1>6, <1>7 DEF o, s

\* What a lookup does not find is in no field.
LEMMA NotInOrder ==
    ASSUME NEW p, GoodBuffer(p), NEW name, NEW fid, ~Found(p, name, fid)
    PROVE  \A i \in 1 .. Len(Fields(p)) : ~Matches(Fields(p)[i], name, fid)
<1>1. PICK e, n : Lists(e, n, p)
  BY GoodListing
<1>2. /\ Len(Fields(p)) = n /\ \A i \in 1 .. n : Fields(p)[i] = p.at[e[i]]
  BY <1>1, FieldsThrough
<1>3. \A i \in 1 .. n : e[i] \in DOMAIN p.at
  BY <1>1 DEF Lists, Listing
<1> QED
  BY <1>2, <1>3 DEF Found, MatchOffsets

-----------------------------------------------------------------------------
(* What a client sees of a buffer. *)

SeenIn(p) == {AsSeen(p.at[o]) : o \in DOMAIN p.at}

\* What is seen through a listing.
LEMMA SeenThrough ==
    ASSUME NEW p, NEW e, NEW n, Lists(e, n, p)
    PROVE  /\ SeenFields(p) \in Seq(SeenIn(p))
           /\ Len(SeenFields(p)) = n /\ DOMAIN SeenFields(p) = 1 .. n
           /\ \A i \in 1 .. n : SeenFields(p)[i] = AsSeen(p.at[e[i]])
           /\ SeenFields(p) = [i \in 1 .. n |-> AsSeen(p.at[e[i]])]
<1>0. n \in Nat /\ \A i \in 1 .. n : e[i] \in DOMAIN p.at
  BY DEF Lists, Listing
<1>1. /\ DOMAIN Fields(p) = 1 .. n
      /\ \A i \in 1 .. n : Fields(p)[i] = p.at[e[i]]
  BY ListingFields
<1>2. /\ SeenFields(p) = [i \in 1 .. n |-> SeenFields(p)[i]]
      /\ \A i \in 1 .. n : SeenFields(p)[i] = AsSeen(p.at[e[i]])
  BY <1>1 DEF SeenFields
<1>3. \A i \in 1 .. n : SeenFields(p)[i] \in SeenIn(p)
  BY <1>0, <1>2 DEF SeenIn
<1>4. SeenFields(p) \in Seq(SeenIn(p))
  BY <1>0, <1>2, <1>3
<1>5. Len(SeenFields(p)) = n
  BY <1>0, <1>2, <1>4
<1> QED
  BY <1>1, <1>2, <1>4, <1>5

\* A buffer without fields is an empty message.
LEMMA NothingSeen ==
    ASSUME NEW p, p.at = NoFields
    PROVE  SeenFields(p) = <<>>
<1>1. DOMAIN p.at = {}
  BY DEF NoFields
<1>2. Lists(<<>>, 0, p)
  BY <1>1 DEF Lists, Listing
<1>3. SeenFields(p) \in Seq(SeenIn(p))
      /\ Len(SeenFields(p)) = 0
  BY <1>1, <1>2, SeenThrough
<1> QED
  BY <1>3

\* What is seen depends on the fields and on nothing else in the buffer.
LEMMA SameSeen ==
    ASSUME NEW p, NEW q, p.at = q.at
    PROVE  SeenFields(p) = SeenFields(q)
BY DEF SeenFields, Fields

\* A sequence with one more element is an append.
LEMMA AppendIs ==
    ASSUME NEW S, NEW T, NEW s \in Seq(S), NEW t \in Seq(T), NEW x,
           Len(t) = Len(s) + 1, t[Len(s) + 1] = x,
           \A i \in 1 .. Len(s) : t[i] = s[i]
    PROVE  t = Append(s, x)
<1> DEFINE U == S \cup T
<1>1. s \in Seq(U) /\ t \in Seq(U) /\ x \in U
  BY DEF U
<1> HIDE DEF U
<1>2. Append(s, x) \in Seq(U) /\ Len(Append(s, x)) = Len(s) + 1
  BY <1>1
<1>3. \A i \in 1 .. Len(s) + 1 : Append(s, x)[i] = t[i]
  BY <1>1
<1> QED
  BY <1>1, <1>2, <1>3

\* What is appended is seen at the end.
LEMMA AppendedSeen ==
    ASSUME NEW p, GoodBuffer(p), NEW f
    PROVE  SeenFields(Appended(p, f)) = Append(SeenFields(p), AsSeen(f))
<1> DEFINE q == Appended(p, f)
           s == SeenFields(p)
           t == SeenFields(q)
<1>1. PICK e, n : Lists(e, n, p)
  BY GoodListing
<1>2. PICK e2 : /\ Lists(e2, n + 1, q)
                /\ \A i \in 1 .. n : q.at[e2[i]] = p.at[e[i]]
                /\ q.at[e2[n + 1]] = f
  BY <1>1, AppendedListing
<1> HIDE DEF q
<1>3. /\ s \in Seq(SeenIn(p)) /\ Len(s) = n /\ n \in Nat
      /\ \A i \in 1 .. n : s[i] = AsSeen(p.at[e[i]])
  BY <1>1, SeenThrough DEF Lists, Listing
<1>4. /\ t \in Seq(SeenIn(q)) /\ Len(t) = n + 1
      /\ \A i \in 1 .. n + 1 : t[i] = AsSeen(q.at[e2[i]])
  BY <1>2, SeenThrough
<1>5. n + 1 \in 1 .. n + 1 /\ \A i \in 1 .. n : i \in 1 .. n + 1
  BY <1>3
<1>6. /\ \A i \in 1 .. n : t[i] = s[i]
      /\ t[n + 1] = AsSeen(f)
  BY <1>2, <1>3, <1>4, <1>5
<1> HIDE DEF s, t
<1>7. t = Append(s, AsSeen(f))
  BY <1>3, <1>4, <1>6, AppendIs
<1> QED
  BY <1>7 DEF s, t, q

\* What is updated in place is seen where it was.
LEMMA ReplacedSeen ==
    ASSUME NEW p, GoodBuffer(p), NEW in, IsInput(in),
           NEW e, NEW n, Lists(e, n, p), NEW k \in 1 .. n
    PROVE  SeenFields(Replaced(p, e[k], in)) =
                [SeenFields(p) EXCEPT ![k].data = in]
<1> DEFINE c == Replaced(p, e[k], in)
           s == SeenFields(p)
           t == SeenFields(c)
<1>1. PICK e2 : /\ Lists(e2, n, c)
                /\ \A i \in 1 .. n :
                      c.at[e2[i]] = IF i = k THEN Rewritten(p.at[e[k]], in)
                                    ELSE p.at[e[i]]
  BY ReplacedListing
<1> HIDE DEF c
<1>2. s = [i \in 1 .. n |-> AsSeen(p.at[e[i]])]
  BY SeenThrough
<1>3. t = [i \in 1 .. n |-> AsSeen(c.at[e2[i]])]
  BY <1>1, SeenThrough
<1>4. AsSeen(Rewritten(p.at[e[k]], in)) = [AsSeen(p.at[e[k]]) EXCEPT !.data = in]
  <2>1. e[k] \in DOMAIN p.at
    BY DEF Lists, Listing
  <2>2. IsField(p.at[e[k]])
    BY <2>1 DEF GoodBuffer, IsBuffer, IsLayout
  <2> QED
    BY <2>2 DEF AsSeen, Rewritten, IsField
<1> HIDE DEF s, t
<1>5. \A i \in 1 .. n :
        t[i] = IF i = k THEN [s[i] EXCEPT !.data = in] ELSE s[i]
  BY <1>1, <1>2, <1>3, <1>4
<1>6. t = [s EXCEPT ![k] = [s[k] EXCEPT !.data = in]]
  BY <1>2, <1>3, <1>5
<1> QED
  BY <1>6 DEF s, t, c

\* A lookup that walks the buffer finds the first of the fields that match.
LEMMA FirstListed ==
    ASSUME NEW p, GoodBuffer(p), NEW e, NEW n, Lists(e, n, p),
           NEW name, NEW fid, NEW H,
           H = {i \in DOMAIN SeenFields(p) : Matches(SeenFields(p)[i], name, fid)}
    PROVE  /\ Found(p, name, fid) <=> H # {}
           /\ Found(p, name, fid) =>
                LET k == CHOOSE i \in H : \A j \in H : i <= j
                IN  k \in 1 .. n /\ e[k] = FirstMatch(p, name, fid)
<1> DEFINE o == FirstMatch(p, name, fid)
<1>1. /\ n \in Nat /\ \A i \in 1 .. n : e[i] \in DOMAIN p.at
      /\ \A i, j \in 1 .. n : i < j => e[i] < e[j]
      /\ \A q \in DOMAIN p.at : \E i \in 1 .. n : e[i] = q
      /\ \A q \in DOMAIN p.at : q \in Nat
  BY DEF Lists, Listing
<1>2. /\ H \subseteq 1 .. n
      /\ \A i \in 1 .. n : i \in H <=> Matches(p.at[e[i]], name, fid)
  <2>1. \A i \in 1 .. n :
        Matches(AsSeen(p.at[e[i]]), name, fid) <=> Matches(p.at[e[i]], name, fid)
    BY DEF Matches, AsSeen
  <2>2. /\ DOMAIN SeenFields(p) = 1 .. n
        /\ \A i \in 1 .. n : SeenFields(p)[i] = AsSeen(p.at[e[i]])
    BY SeenThrough
  <2> QED
    BY <2>1, <2>2
<1>4. Found(p, name, fid) <=> H # {}
  <2>1. Found(p, name, fid) <=> \E q \in DOMAIN p.at : Matches(p.at[q], name, fid)
    BY DEF Found, MatchOffsets
  <2> QED
    BY <1>1, <1>2, <2>1
<1>5. ASSUME Found(p, name, fid)
      PROVE  LET k == CHOOSE i \in H : \A j \in H : i <= j
             IN  k \in 1 .. n /\ e[k] = o
  <2>1. /\ o \in DOMAIN p.at /\ Matches(p.at[o], name, fid)
        /\ \A q \in DOMAIN p.at : q < o => ~Matches(p.at[q], name, fid)
    BY <1>5, FirstMatchFound DEF GoodBuffer
  <2> HIDE DEF o
  <2>2. PICK k \in 1 .. n : e[k] = o
    BY <1>1, <2>1
  <2>3. k \in H
    BY <1>2, <2>1, <2>2
  <2>4. \A j \in H : k <= j
    <3> SUFFICES ASSUME NEW j \in H, ~(k <= j) PROVE FALSE
      OBVIOUS
    <3>1. j \in 1 .. n /\ k \in Nat /\ j \in Nat
      BY <1>1, <1>2
    <3>2. e[j] < e[k]
      BY <1>1, <3>1
    <3> QED
      BY <1>1, <1>2, <2>1, <2>2, <3>1, <3>2
  <2>5. \A i \in H : (\A j \in H : i <= j) => i = k
    <3> SUFFICES ASSUME NEW i \in H, \A j \in H : i <= j PROVE i = k
      OBVIOUS
    <3>1. i <= k /\ k <= i /\ i \in Nat /\ k \in Nat
      BY <1>1, <1>2, <2>3, <2>4
    <3> QED
      BY <3>1
  <2>6. (CHOOSE i \in H : \A j \in H : i <= j) = k
    BY <2>3, <2>4, <2>5
  <2> QED
    BY <2>2, <2>6
<1> QED
  BY <1>4, <1>5 DEF o

=============================================================================
