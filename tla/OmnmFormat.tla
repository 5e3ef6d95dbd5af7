----------------------------- MODULE OmnmFormat -----------------------------
(***************************************************************************)
(* The wire format of an OMNM message.  A message is a header followed by  *)
(* its fields back to back, with no count and no index:                    *)
(*                                                                         *)
(*     type (1 byte)  fid (2 bytes)  name (terminated)                     *)
(*     [length prefix (4 bytes), some types only]  data                    *)
(*                                                                         *)
(* The code that writes a field, the code that updates one in place and    *)
(* the code that steps over one each have a table of their own that says   *)
(* how wide a type is.  The tables are kept apart here as they are in the  *)
(* code: whether they agree is what the framing invariants are about.      *)
(*                                                                         *)
(* Bytes are abstracted to what was encoded.  A stored field is a record   *)
(*   type, fid, name   what the field's first bytes say,                   *)
(*   decl              the length prefix, 0 where the type has none,       *)
(*   data              the value as it was handed in: the type it was      *)
(*                     encoded as, its length in bytes, and its value.     *)
(***************************************************************************)
EXTENDS Naturals

CONSTANTS
    NoName,     \* the null pointer passed as a name
    EmptyName,  \* the name ""
    NameLen,    \* strlenEx of each name, a function on the names in use
    MaxU32      \* the largest value of a mama_u32_t

Names == DOMAIN NameLen

ASSUME NamesAssumption ==
    /\ NoName # EmptyName
    /\ {NoName, EmptyName} \subseteq Names
    /\ NameLen \in [Names -> Nat]
    /\ NameLen[NoName] = 0 /\ NameLen[EmptyName] = 0

ASSUME MaxU32Assumption == MaxU32 \in Nat

-----------------------------------------------------------------------------
(* Field types and their widths. *)

OneByteTypes   == {"BOOL", "CHAR", "I8", "U8"}
TwoByteTypes   == {"I16", "U16"}
FourByteTypes  == {"I32", "U32", "F32", "QUANTITY"}
EightByteTypes == {"I64", "U64", "F64"}

\* isFieldTypeFixedWidth: the types whose values may be cast to each other.
FixedWidthTypes ==
    OneByteTypes \cup TwoByteTypes \cup FourByteTypes \cup EightByteTypes

\* The two structures that are copied to the wire whole.
StructTypes == {"PRICE", "TIME"}

\* The vectors whose elements are stored as they are, and those whose
\* elements are encoded one by one into a scratch buffer first.
ScalarVectorTypes ==
    {"VECTOR_BOOL", "VECTOR_CHAR", "VECTOR_I8", "VECTOR_U8",
     "VECTOR_I16", "VECTOR_U16", "VECTOR_I32", "VECTOR_U32",
     "VECTOR_I64", "VECTOR_U64", "VECTOR_F32", "VECTOR_F64"}
EncodedVectorTypes ==
    {"VECTOR_STRING", "VECTOR_MSG", "VECTOR_PRICE", "VECTOR_TIME"}

\* The types after whose name the iterator reads a length prefix.
PrefixedTypes ==
    {"MSG", "OPAQUE", "COLLECTION"} \cup ScalarVectorTypes \cup EncodedVectorTypes

\* The types whose add function calls the update function.
AddedByUpdateTypes ==
    StructTypes \cup {"VECTOR_MSG", "VECTOR_PRICE", "VECTOR_TIME"}

\* isFieldTypeSized: the types for which the writer emits a length prefix.
SizedTypes == PrefixedTypes \cup {"UNKNOWN"}

FieldTypes == FixedWidthTypes \cup StructTypes \cup {"STRING"} \cup SizedTypes

\* sizeof of the C type that holds a value of type t.
Width(t) ==
    CASE t \in OneByteTypes   -> 1
      [] t \in TwoByteTypes   -> 2
      [] t \in FourByteTypes  -> 4
      [] t \in EightByteTypes -> 8
      [] t = "PRICE"          -> 24
      [] t = "TIME"           -> 40
      [] OTHER                -> 0

Castable(from, to) == from \in FixedWidthTypes /\ to \in FixedWidthTypes

-----------------------------------------------------------------------------
(* The values the public functions hand to addField and updateField. *)

IsScalarInput(in) == in.type \in FixedWidthTypes /\ in.len = Width(in.type)
IsStructInput(in) == in.type \in StructTypes /\ in.len = Width(in.type)
IsStringInput(in) == in.type = "STRING" /\ in.len \in Nat \ {0}
IsBytesInput(in)  == in.type \in PrefixedTypes /\ in.len \in Nat

IsInput(in) ==
    /\ in \in [type : FieldTypes, len : Nat, val : {in.val}]
    /\ \/ IsScalarInput(in)
       \/ IsStructInput(in)
       \/ IsStringInput(in)
       \/ IsBytesInput(in)

-----------------------------------------------------------------------------
(* One field on the wire. *)

FieldTypeWidth == 1
FidWidth       == 2
LengthWidth    == 4

\* A name takes its characters and a terminator; no name is a terminator.
NameBytes(name) == NameLen[name] + 1

\* Slip: a reader points at the terminator of an empty name.
StoredName_Verbatim(name) == name

\* What a reader makes of the name that was written: "" reads as no name.
StoredName(name) == IF name = EmptyName THEN NoName ELSE name

PrefixBytes(types, t) == IF t \in types THEN LengthWidth ELSE 0

\* The bytes addField appends, and updateField leaves, for a field.
EncodedLen(f) ==
    FieldTypeWidth + FidWidth + NameBytes(f.name)
        + PrefixBytes(SizedTypes, f.type) + f.data.len

\* The data size a reader works out from the bytes.  A string is read up to
\* its terminator, which is the last byte of the data that was stored.
DecodedSize(f) ==
    CASE f.type \in FixedWidthTypes \cup StructTypes -> Width(f.type)
      [] f.type = "STRING"                           -> f.data.len
      [] f.type \in PrefixedTypes                    -> f.decl
      [] OTHER                                       -> 0

\* How far the iterator moves to step over a field.
DecodedLen(f) ==
    FieldTypeWidth + FidWidth + NameBytes(f.name)
        + PrefixBytes(PrefixedTypes, f.type) + DecodedSize(f)

\* The length prefix as stored: a length cast to mama_u32_t.
AsU32(n) == n % (MaxU32 + 1)

Prefix(t, len) == IF t \in SizedTypes THEN AsU32(len) ELSE 0

Encode(name, fid, in) ==
    [type |-> in.type,
     fid  |-> fid,
     name |-> StoredName(name),
     decl |-> Prefix(in.type, in.len),
     data |-> in]

\* A field reads back as it was written: a reader steps over exactly the
\* bytes that are there.
ReadsAsWritten(f) == DecodedLen(f) = EncodedLen(f)

\* A lookup matches on the fid or on the name, whichever agrees first.
Matches(f, name, fid) ==
    \/ fid # 0 /\ f.fid = fid
    \/ name # NoName /\ f.name # NoName /\ f.name = name

\* The argument checks VALIDATE_NAME_FID makes.
NoIdentity(name, fid)    == name = NoName /\ fid = 0
BlankIdentity(name, fid) == name = EmptyName /\ fid = 0

=============================================================================
