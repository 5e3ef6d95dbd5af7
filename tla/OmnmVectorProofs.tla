-------------------------- MODULE OmnmVectorProofs --------------------------
(***************************************************************************)
(* The invariants of OmnmVector, for every set of messages, names and      *)
(* vectors: what is stored can be walked, and every vector reads back.     *)
(*                                                                         *)
(* VInv says that a message is a good buffer whose fields hold vectors of  *)
(* the clients, as long as their bytes and no longer.  That reading undoes *)
(* writing is a fact about the two: for strings that the terminators of    *)
(* the text, in order, are the ends of the strings, and for messages that  *)
(* equal steps meet their beginnings.                                      *)
(*                                                                         *)
(* What a recursive function computes is shown without induction: a        *)
(* solution of its equation is given or extended step by step, and the     *)
(* least argument at which a claim about it fails is refuted.              *)
(***************************************************************************)
EXTENDS OmnmVector, SequenceTheorems, OmnmBufferProofs

AllBytes == Letters \cup {Nul, Other}

\* A field that holds one of the vectors, and nothing else.
HoldsVector(f) ==
    \E v \in Vectors :
        OneLength(v) /\ f.type = v.type /\ f.data = Data(v, Bytes(v))

VectorMessage(p) == GoodBuffer(p) /\ \A f \in FieldsOf(p) : HoldsVector(f)

Messages ==
    /\ msg = [m \in Msgs |-> msg[m]]
    /\ \A m \in Msgs : VectorMessage(msg[m])

ScratchBytes ==
    /\ scratch = [m \in Msgs |-> scratch[m]]
    /\ \A m \in Msgs : scratch[m] \in {NoScratch} \cup Seq(AllBytes)

VInv == Messages /\ ScratchBytes

-----------------------------------------------------------------------------
(* Bytes that are only counted. *)

LEMMA FillIs ==
    ASSUME NEW S, NEW byte \in S, NEW n \in Nat
    PROVE  Fill(byte, n) \in Seq(S) /\ Len(Fill(byte, n)) = n
BY DEF Fill

\* The items of a vector, and their values, are sequences.
LEMMA ItemsAre ==
    ASSUME NEW v \in Vectors
    PROVE  /\ Len(v.items) \in Nat /\ DOMAIN v.items = 1 .. Len(v.items)
           /\ v.items \in Seq(ToSet(v.items))
           /\ Values(v.items) = [i \in 1 .. Len(v.items) |-> v.items[i].val]
           /\ Values(v.items) \in Seq(ToSet(Values(v.items)))
           /\ Len(Values(v.items)) = Len(v.items)
<1>1. /\ Len(v.items) \in Nat /\ DOMAIN v.items = 1 .. Len(v.items)
      /\ v.items \in Seq(ToSet(v.items))
  BY VectorsAssumption
<1>2. Values(v.items) = [i \in 1 .. Len(v.items) |-> v.items[i].val]
  BY <1>1 DEF Values
<1>3. \A i \in 1 .. Len(v.items) : v.items[i].val \in ToSet(Values(v.items))
  BY <1>1, <1>2 DEF ToSet
<1> QED
  BY <1>1, <1>2, <1>3

-----------------------------------------------------------------------------
(* Messages and structures. *)

\* f adds up the messages of a vector, each behind its length.
AddsUp(f, items) ==
    f = [k \in 0 .. Len(items) |->
            IF k = 0 THEN 0 ELSE f[k - 1] + LengthWidth + items[k].len]

LEMMA StepSum ==
    ASSUME NEW len \in Nat, NEW p \in Int
    PROVE  p + LengthWidth + len = p + (LengthWidth + len)
BY DEF LengthWidth

\* Where the messages are equally long, so are the steps from one to the next.
LEMMA EqualSums ==
    ASSUME NEW items, Len(items) \in Nat, NEW w \in Nat,
           \A k \in 1 .. Len(items) : items[k].len \in Nat /\ LengthWidth + items[k].len = w,
           NEW k \in 0 .. Len(items)
    PROVE  SumLens(items, k) = k * w
<1> DEFINE n == Len(items)
           closed == [j \in 0 .. n |-> j * w]
           sums == CHOOSE f : AddsUp(f, items)
           Bad == {j \in 0 .. n : sums[j] # j * w}
<1>1. AddsUp(closed, items)
  <2>1. ASSUME NEW j \in 0 .. n
        PROVE  closed[j] = IF j = 0 THEN 0
                           ELSE closed[j - 1] + LengthWidth + items[j].len
    <3>1. CASE j = 0
      BY <3>1
    <3>2. CASE j # 0
      <4>1. /\ j \in 1 .. n /\ j - 1 \in 0 .. n
            /\ LengthWidth + items[j].len = w /\ items[j].len \in Nat
        BY <3>2
      <4>2. closed[j] = j * w /\ closed[j - 1] = (j - 1) * w
        BY <4>1
      <4>3. (j - 1) * w + w = j * w /\ (j - 1) * w \in Int
        BY <4>1
      <4>4. \A p \in Int : p + LengthWidth + items[j].len = p + w
        BY <4>1, StepSum
      <4> HIDE DEF closed
      <4> QED
        BY <3>2, <4>2, <4>3, <4>4
    <3> QED
      BY <3>1, <3>2
  <2> QED
    BY <2>1, Zenon DEF AddsUp
<1>2. AddsUp(sums, items)
  BY <1>1, Zenon
<1>3. \A j \in 0 .. n : sums[j] = IF j = 0 THEN 0
                                  ELSE sums[j - 1] + LengthWidth + items[j].len
  BY <1>2, Zenon DEF AddsUp
<1>4. SumLens(items, k) = sums[k]
  BY Zenon DEF SumLens, AddsUp
<1> HIDE DEF sums
<1>5. Bad = {}
  <2> SUFFICES ASSUME Bad # {} PROVE FALSE
    OBVIOUS
  <2>0. Bad \in SUBSET Nat
    OBVIOUS
  <2>1. PICK j \in Bad : \A i \in Bad : j <= i
    <3> HIDE DEF Bad
    <3> QED
      BY <2>0, FirstOffset
  <2>2. j \in 0 .. n /\ sums[j] # j * w
    OBVIOUS
  <2>3. j # 0
    BY <2>2, <1>3
  <2>4. sums[j - 1] = (j - 1) * w
    BY <2>1, <2>2, <2>3
  <2>5. sums[j] = (j - 1) * w + LengthWidth + items[j].len
    BY <1>3, <2>2, <2>3, <2>4
  <2>6. items[j].len \in Nat /\ LengthWidth + items[j].len = w
    BY <2>2, <2>3
  <2>7. (j - 1) * w + w = j * w /\ (j - 1) * w \in Int
    BY <2>2
  <2>8. \A p \in Int : p + LengthWidth + items[j].len = p + w
    BY <2>6, StepSum
  <2> QED
    BY <2>2, <2>5, <2>7, <2>8
<1> QED
  BY <1>4, <1>5

\* Steps of one width keep their order.
LEMMA StepsApart ==
    ASSUME NEW a \in Int, NEW b \in Int, a < b, NEW w \in Nat \ {0}
    PROVE  a * w + w <= b * w
<1>1. PICK d \in Nat : b = a + 1 + d
  <2>1. b - a - 1 \in Nat /\ b = a + 1 + (b - a - 1)
    OBVIOUS
  <2> QED
    BY <2>1
<1>2. b * w = a * w + w + d * w
  BY <1>1
<1>3. d * w \in Nat
  OBVIOUS
<1>4. a * w \in Int
  OBVIOUS
<1> DEFINE x == a * w
           y == d * w
<1> HIDE DEF x, y
<1>5. b * w = x + w + y /\ x \in Int /\ y \in Nat
  BY <1>2, <1>3, <1>4 DEF x, y
<1>6. x + w <= b * w
  BY <1>5
<1> QED
  BY <1>6 DEF x

\* So many steps, and not the whole of another, take one to the number of steps.
LEMMA StepsCounted ==
    ASSUME NEW n \in Nat, NEW w \in Nat \ {0}, NEW r \in Nat, r < w
    PROVE  (n * w + r) \div w = n
<1> DEFINE x == n * w
           q == (x + r) \div w
           y == q * w
           z == (x + r) % w
<1>1. x \in Nat
  OBVIOUS
<1> HIDE DEF x
<1>2. q \in Int /\ z \in Int /\ x + r = w * q + z /\ 0 <= z /\ z < w
  BY <1>1
<1>3. w * q = y /\ y \in Int
  BY <1>2
<1> HIDE DEF z
<1>4. ~(q < n)
  <2> SUFFICES ASSUME q < n PROVE FALSE
    OBVIOUS
  <2>1. y + w <= x
    <3> HIDE DEF q
    <3> QED
      BY <1>2, StepsApart DEF x
  <2> HIDE DEF y, q
  <2> QED
    BY <2>1, <1>1, <1>2, <1>3
<1>5. ~(n < q)
  <2> SUFFICES ASSUME n < q PROVE FALSE
    OBVIOUS
  <2>1. x + w <= y
    <3> HIDE DEF q
    <3> QED
      BY <1>2, StepsApart DEF x
  <2> HIDE DEF y, q
  <2> QED
    BY <2>1, <1>1, <1>2, <1>3
<1>6. q = n
  <2> HIDE DEF q
  <2> QED
    BY <1>2, <1>4, <1>5
<1> QED
  BY <1>6 DEF x

\* The messages that begin at offset o, of those as long as the first.
BeginAt(items, o) ==
    {j \in DOMAIN items : SumLens(items, j - 1) = o /\ items[j].len = items[1].len}

\* Messages that are equally long are found where the steps of the reader end.
LEMMA MessagesRead ==
    ASSUME NEW items, items \in Seq(ToSet(items)),
           \A i \in 1 .. Len(items) :
               items[i].len \in Nat /\ items[i].len = items[1].len
    PROVE  LET size == SumLens(items, Len(items))
           IN  size \in Nat /\ ReadMessages(items, size) = Values(items)
<1> DEFINE n == Len(items)
           w == LengthWidth + items[1].len
           size == SumLens(items, n)
<1>1. n \in Nat /\ DOMAIN items = 1 .. n
  OBVIOUS
<1>2. CASE n = 0
  <2>1. size = 0
    <3>1. \A k \in 1 .. n : items[k].len \in Nat /\ LengthWidth + items[k].len = 0
      BY <1>2
    <3>2. 0 \in 0 .. n /\ 0 \in Nat
      BY <1>1
    <3>3. SumLens(items, 0) = 0 * 0
      BY <1>1, <3>1, <3>2, EqualSums
    <3> QED
      BY <1>2, <3>3
  <2>2. Values(items) = <<>>
    BY <1>1, <1>2 DEF Values
  <2> QED
    BY <2>1, <2>2 DEF ReadMessages
<1>3. CASE n # 0
  <2>0. /\ w \in Nat \ {0} /\ items[1].len \in Nat
        /\ \A k \in 1 .. n : items[k].len \in Nat /\ LengthWidth + items[k].len = w
    BY <1>1, <1>3 DEF LengthWidth
  <2> HIDE DEF w
  <2>1. \A k \in 0 .. n : SumLens(items, k) = k * w
    BY <1>1, <2>0, EqualSums
  <2>2. size = n * w /\ size \in Nat
    BY <1>1, <2>0, <2>1
  <2>3. size # 0
    <3>1. 0 * w + w <= n * w
      BY <1>1, <1>3, <2>0, StepsApart
    <3> QED
      BY <3>1, <2>0, <2>2
  <2>4. (size + w - 1) \div w = n
    <3>1. (n * w + (w - 1)) \div w = n
      <4> DEFINE r == w - 1
      <4>1. r \in Nat /\ r < w
        BY <2>0
      <4> HIDE DEF r
      <4>2. (n * w + r) \div w = n
        BY <1>1, <2>0, <4>1, StepsCounted
      <4> QED
        BY <4>2 DEF r
    <3>2. size + (w - 1) = size + w - 1
      <4> HIDE DEF size
      <4> QED
        BY <2>0, <2>2
    <3>3. (size + (w - 1)) \div w = n
      BY <3>1, <2>2, Zenon
    <3> QED
      BY <3>2, <3>3, Zenon
  <2>5. ASSUME NEW k \in 1 .. n
        PROVE  BeginAt(items, (k - 1) * w) = {k}
    <3>1. ASSUME NEW j \in 1 .. n
          PROVE  SumLens(items, j - 1) = (k - 1) * w <=> j = k
      <4>1. j - 1 \in 0 .. n /\ k - 1 \in 0 .. n /\ j \in Int /\ k \in Int
        BY <1>1
      <4>2. SumLens(items, j - 1) = (j - 1) * w
        BY <4>1, <2>1
      <4>3. CASE j < k
        <5>1. (j - 1) * w + w <= (k - 1) * w
          BY <4>1, <4>3, <2>0, StepsApart
        <5>2. (j - 1) * w \in Int /\ (k - 1) * w \in Int
          BY <4>1, <2>0
        <5>3. (j - 1) * w # (k - 1) * w
          BY <5>1, <5>2, <2>0
        <5> QED
          BY <5>3, <4>1, <4>2, <4>3
      <4>4. CASE k < j
        <5>1. (k - 1) * w + w <= (j - 1) * w
          BY <4>1, <4>4, <2>0, StepsApart
        <5>2. (j - 1) * w \in Int /\ (k - 1) * w \in Int
          BY <4>1, <2>0
        <5>3. (j - 1) * w # (k - 1) * w
          BY <5>1, <5>2, <2>0
        <5> QED
          BY <5>3, <4>1, <4>2, <4>4
      <4>5. CASE j = k
        BY <4>2, <4>5
      <4> QED
        BY <4>1, <4>3, <4>4, <4>5
    <3> QED
      BY <3>1, <1>1, <2>0 DEF BeginAt
  <2>6. ReadMessages(items, size) =
            [k \in 1 .. n |->
                IF BeginAt(items, (k - 1) * w) = {} THEN Wild
                ELSE items[CHOOSE j \in BeginAt(items, (k - 1) * w) : TRUE].val]
    <3>1. ReadMessages(items, size) =
            [k \in 1 .. (size + w - 1) \div w |->
                IF BeginAt(items, (k - 1) * w) = {} THEN Wild
                ELSE items[CHOOSE j \in BeginAt(items, (k - 1) * w) : TRUE].val]
      BY <2>3, Zenon DEF ReadMessages, BeginAt, w
    <3> QED
      BY <3>1, <2>4
  <2>7. \A k \in 1 .. n :
            (IF BeginAt(items, (k - 1) * w) = {} THEN Wild
             ELSE items[CHOOSE j \in BeginAt(items, (k - 1) * w) : TRUE].val)
            = items[k].val
    <3> TAKE k \in 1 .. n
    <3>1. BeginAt(items, (k - 1) * w) = {k}
      BY <2>5
    <3>2. (CHOOSE j \in {k} : TRUE) = k
      OBVIOUS
    <3> QED
      BY <3>1, <3>2
  <2>8. Values(items) = [k \in 1 .. n |-> items[k].val]
    BY <1>1 DEF Values
  <2> QED
    BY <2>2, <2>6, <2>7, <2>8, Zenon
<1> QED
  BY <1>2, <1>3

\* Structures are counted by their width.
LEMMA StructsRead ==
    ASSUME NEW v \in Vectors, v.type \in {"VECTOR_PRICE", "VECTOR_TIME"}
    PROVE  LET size == Len(v.items) * ElementWidth(v.type)
           IN  /\ size \in Nat
               /\ ReadStructs(v.type, v.items, size) = Values(v.items)
<1> DEFINE n == Len(v.items)
           w == ElementWidth(v.type)
<1>1. w \in Nat \ {0}
  BY DEF ElementWidth, Width, OneByteTypes, TwoByteTypes, FourByteTypes, EightByteTypes
<1>2. n \in Nat /\ Values(v.items) \in Seq(ToSet(Values(v.items)))
      /\ Len(Values(v.items)) = n
  BY ItemsAre
<1> HIDE DEF n, w
<1>3. (n * w + 0) \div w = n /\ n * w \in Nat
  BY <1>1, <1>2, StepsCounted
<1>4. (n * w) \div w = n
  BY <1>3
<1>5. SubSeq(Values(v.items), 1, n) = Values(v.items)
  BY <1>2, SubSeqFull
<1> QED
  BY <1>3, <1>4, <1>5 DEF ReadStructs, n, w

-----------------------------------------------------------------------------
(* Strings. *)

\* Two sequences, one behind the other.
LEMMA OneBehindTheOther ==
    ASSUME NEW S, NEW s \in Seq(S), NEW t \in Seq(S)
    PROVE  /\ s \o t \in Seq(S) /\ Len(s \o t) = Len(s) + Len(t)
           /\ \A i \in 1 .. Len(s) : (s \o t)[i] = s[i]
           /\ \A i \in 1 .. Len(t) : (s \o t)[Len(s) + i] = t[i]
<1>1. Len(s) \in Nat /\ Len(t) \in Nat
  OBVIOUS
<1>2. s \o t \in Seq(S) /\ Len(s \o t) = Len(s) + Len(t)
  BY ConcatProperties
<1>3. \A i \in 1 .. Len(s) : (s \o t)[i] = s[i]
  BY <1>1
<1>4. \A i \in 1 .. Len(t) : (s \o t)[Len(s) + i] = t[i]
  BY <1>1
<1> QED
  BY <1>2, <1>3, <1>4

\* f joins the sequences of s one to the other, up to the n-th.
Joins(f, s, n) ==
    f = [i \in 1 .. n |-> IF i = 1 THEN s[i] ELSE f[i - 1] \o s[i]]

\* FlattenSeq joins any number of sequences.
LEMMA JoinsExist ==
    ASSUME NEW s, NEW n \in Nat
    PROVE  \E f : Joins(f, s, n)
<1> DEFINE Bad == {k \in Nat : ~\E f : Joins(f, s, k)}
<1> SUFFICES ASSUME Bad # {} PROVE FALSE
  OBVIOUS
<1>1. PICK k \in Bad : \A j \in Bad : k <= j
  <2>1. Bad \in SUBSET Nat
    OBVIOUS
  <2> HIDE DEF Bad
  <2> QED
    BY <2>1, FirstOffset
<1>2. k \in Nat /\ ~\E f : Joins(f, s, k)
  OBVIOUS
<1>3. CASE k = 0
  <2> DEFINE f == [i \in 1 .. 0 |-> s[i]]
  <2>1. Joins(f, s, 0)
    BY DEF Joins
  <2> QED
    BY <1>2, <1>3, <2>1
<1>4. CASE k # 0
  <2>1. k - 1 \in Nat /\ ~(k <= k - 1)
    BY <1>2, <1>4
  <2>2. PICK f : Joins(f, s, k - 1)
    BY <1>1, <2>1
  <2> DEFINE last == IF k = 1 THEN s[k] ELSE f[k - 1] \o s[k]
             g == [i \in 1 .. k |-> IF i = k THEN last ELSE f[i]]
  <2>3. \A i \in 1 .. k - 1 : f[i] = IF i = 1 THEN s[i] ELSE f[i - 1] \o s[i]
    BY <2>2, Zenon DEF Joins
  <2>4. ASSUME NEW i \in 1 .. k
        PROVE  g[i] = IF i = 1 THEN s[i] ELSE g[i - 1] \o s[i]
    <3>1. CASE i = k
      <4>1. k # 1 => k - 1 \in 1 .. k /\ k - 1 # k
        BY <1>2, <1>4
      <4>2. k # 1 => g[k - 1] = f[k - 1]
        BY <4>1
      <4>3. g[k] = last
        BY <3>1
      <4> HIDE DEF g
      <4> QED
        BY <3>1, <4>2, <4>3
    <3>2. CASE i # k
      <4>1. i \in 1 .. k - 1 /\ (i # 1 => i - 1 \in 1 .. k /\ i - 1 # k)
        BY <1>2, <3>2
      <4>2. g[i] = f[i] /\ (i # 1 => g[i - 1] = f[i - 1])
        BY <3>2, <4>1
      <4> HIDE DEF g
      <4> QED
        BY <2>3, <4>1, <4>2
    <3> QED
      BY <3>1, <3>2
  <2>5. Joins(g, s, k)
    <3>1. g = [i \in 1 .. k |-> g[i]]
      OBVIOUS
    <3> HIDE DEF g
    <3> QED
      BY <2>4, <3>1, Zenon DEF Joins
  <2> QED
    BY <1>2, <2>5
<1> QED
  BY <1>3, <1>4

\* b is the first k texts, each with a terminator, which is at e[j] for the
\* j-th.
Cut(b, e, texts, k) ==
    /\ b \in Seq(Letters \cup {Nul})
    /\ e[0] = 0 /\ e[k] = Len(b)
    /\ \A j \in 0 .. k : e[j] \in Nat
    /\ \A i, j \in 0 .. k : i < j => e[i] < e[j]
    /\ \A j \in 1 .. k :
        /\ texts[j] \in Seq(Letters)
        /\ e[j] = e[j - 1] + Len(texts[j]) + 1
        /\ b[e[j]] = Nul
        /\ \A i \in 1 .. Len(texts[j]) : b[e[j - 1] + i] = texts[j][i]

\* One text more.
LEMMA CutStep ==
    ASSUME NEW texts, NEW k \in Nat, NEW e, NEW b, Cut(b, e, texts, k),
           texts[k + 1] \in Seq(Letters),
           NEW c, c = b \o Append(texts[k + 1], Nul), e[k + 1] = Len(c)
    PROVE  Cut(c, e, texts, k + 1)
<1> DEFINE S == Letters \cup {Nul}
           t == texts[k + 1]
<1>1. /\ Append(t, Nul) \in Seq(S) /\ Len(Append(t, Nul)) = Len(t) + 1
      /\ \A i \in 1 .. Len(t) : Append(t, Nul)[i] = t[i]
      /\ Append(t, Nul)[Len(t) + 1] = Nul
      /\ Len(t) \in Nat
  <2>1. t \in Seq(S) /\ Nul \in S
    BY SeqMonotonic
  <2> HIDE DEF t, S
  <2> QED
    BY <2>1, AppendProperties, LenProperties
<1>2. b \in Seq(S) /\ Len(b) \in Nat /\ e[k] = Len(b)
  BY LenProperties DEF Cut
<1> HIDE DEF S, t
<1>3. /\ c \in Seq(S) /\ Len(c) = Len(b) + Len(t) + 1
      /\ \A i \in 1 .. Len(b) : c[i] = b[i]
      /\ \A i \in 1 .. Len(t) : c[Len(b) + i] = t[i]
      /\ c[Len(b) + Len(t) + 1] = Nul
  <2> DEFINE a == Append(t, Nul)
  <2>1. c = b \o a
    BY DEF t
  <2>2. a \in Seq(S) /\ Len(a) = Len(t) + 1
    BY <1>1
  <2> HIDE DEF a
  <2>3. /\ c \in Seq(S) /\ Len(c) = Len(b) + Len(a)
        /\ \A i \in 1 .. Len(b) : c[i] = b[i]
        /\ \A i \in 1 .. Len(a) : c[Len(b) + i] = a[i]
    <3>1. b \in Seq(S) /\ a \in Seq(S)
      BY <1>2, <2>2
    <3>2. /\ b \o a \in Seq(S) /\ Len(b \o a) = Len(b) + Len(a)
          /\ \A i \in 1 .. Len(b) : (b \o a)[i] = b[i]
          /\ \A i \in 1 .. Len(a) : (b \o a)[Len(b) + i] = a[i]
      BY ONLY <3>1, OneBehindTheOther
    <3> QED
      BY <2>1, <3>2
  <2>4. \A i \in 1 .. Len(b) : c[i] = b[i]
    BY <2>3
  <2>5. \A i \in 1 .. Len(t) + 1 : c[Len(b) + i] = a[i]
    BY <2>2, <2>3
  <2>6. /\ \A i \in 1 .. Len(t) : i \in 1 .. Len(t) + 1
        /\ Len(t) + 1 \in 1 .. Len(t) + 1
        /\ Len(b) + (Len(t) + 1) = Len(b) + Len(t) + 1
    BY <1>1, <1>2
  <2>7. c[Len(b) + Len(t) + 1] = a[Len(t) + 1]
    BY <2>5, <2>6
  <2>8. Len(c) = Len(b) + Len(t) + 1
    BY <1>1, <1>2, <2>2, <2>3
  <2> QED
    BY <1>1, <2>3, <2>4, <2>5, <2>6, <2>7, <2>8 DEF a
<1>4. e[0] = 0 /\ e[k + 1] = Len(c) /\ \A j \in 0 .. k + 1 : e[j] \in Nat
  <2>1. Len(c) \in Nat
    BY <1>1, <1>2, <1>3
  <2>2. \A j \in 0 .. k + 1 : j = k + 1 \/ j \in 0 .. k
    OBVIOUS
  <2> QED
    BY <2>1, <2>2 DEF Cut
<1>5. \A j \in 0 .. k : e[j] <= Len(b)
  <2> TAKE j \in 0 .. k
  <2>1. j = k \/ (j < k /\ k \in 0 .. k)
    OBVIOUS
  <2>2. j < k /\ k \in 0 .. k => e[j] < e[k]
    BY DEF Cut
  <2>3. e[j] \in Nat
    BY DEF Cut
  <2> QED
    BY <1>2, <2>1, <2>2, <2>3
<1>6. \A i, j \in 0 .. k + 1 : i < j => e[i] < e[j]
  <2> SUFFICES ASSUME NEW i \in 0 .. k + 1, NEW j \in 0 .. k + 1, i < j
               PROVE  e[i] < e[j]
    OBVIOUS
  <2>1. i \in 0 .. k /\ (j = k + 1 \/ j \in 0 .. k)
    OBVIOUS
  <2>2. CASE j = k + 1
    <3>1. e[i] <= Len(b) /\ e[i] \in Nat
      BY <1>5, <2>1 DEF Cut
    <3> QED
      BY <1>1, <1>2, <1>3, <2>2, <3>1
  <2>3. CASE j \in 0 .. k
    BY <2>1, <2>3 DEF Cut
  <2> QED
    BY <2>1, <2>2, <2>3
<1>7. ASSUME NEW j \in 1 .. k + 1
      PROVE  /\ texts[j] \in Seq(Letters)
             /\ e[j] = e[j - 1] + Len(texts[j]) + 1
             /\ c[e[j]] = Nul
             /\ \A i \in 1 .. Len(texts[j]) : c[e[j - 1] + i] = texts[j][i]
  <2>1. CASE j = k + 1
    <3>1. e[j - 1] = Len(b) /\ e[j] = Len(b) + Len(t) + 1 /\ texts[j] = t
      BY <1>2, <1>3, <2>1 DEF t
    <3> QED
      BY <1>3, <3>1 DEF t
  <2>2. CASE j # k + 1
    <3>1. j \in 1 .. k /\ j - 1 \in 0 .. k /\ j \in 0 .. k /\ 0 \in 0 .. k /\ 0 < j
      BY <2>2
    <3>2. /\ texts[j] \in Seq(Letters)
          /\ e[j] = e[j - 1] + Len(texts[j]) + 1
          /\ b[e[j]] = Nul
          /\ \A i \in 1 .. Len(texts[j]) : b[e[j - 1] + i] = texts[j][i]
          /\ e[j] \in Nat /\ e[j - 1] \in Nat /\ 0 < e[j]
      BY <3>1 DEF Cut
    <3>3. e[j] <= Len(b)
      BY <1>5, <3>1
    <3>4. c[e[j]] = Nul
      BY <1>2, <1>3, <3>2, <3>3
    <3>5. ASSUME NEW i \in 1 .. Len(texts[j])
          PROVE  c[e[j - 1] + i] = texts[j][i]
      <4>1. e[j - 1] + i \in 1 .. Len(b)
        <5>1. i \in Int /\ 1 <= i /\ i <= Len(texts[j])
          OBVIOUS
        <5>2. Len(texts[j]) \in Nat
          BY <3>2, LenProperties
        <5>3. e[j - 1] + i < e[j] /\ 1 <= e[j - 1] + i /\ e[j - 1] + i \in Int
          BY <3>2, <5>1, <5>2
        <5> QED
          BY <1>2, <3>2, <3>3, <5>3
      <4> QED
        BY <1>3, <3>2, <4>1
    <3> QED
      BY <3>2, <3>4, <3>5
  <2> QED
    BY <2>1, <2>2
<1> QED
  BY <1>3, <1>4, <1>6, <1>7 DEF Cut, S

\* The bytes of a vector of strings are its strings.
LEMMA TerminatedIsCut ==
    ASSUME NEW v \in Vectors, v.type = "VECTOR_STRING"
    PROVE  \E e : Cut(Terminated(v.items), e, Values(v.items), Len(v.items))
<1> DEFINE n == Len(v.items)
           texts == Values(v.items)
           s == [i \in DOMAIN v.items |-> Append(v.items[i].val, Nul)]
           f == CHOOSE g : Joins(g, s, n)
           e == [j \in 0 .. n |-> IF j = 0 THEN 0 ELSE Len(f[j])]
<1>1. n \in Nat /\ DOMAIN v.items = 1 .. n
  BY ItemsAre
<1>2. \A j \in 1 .. n : texts[j] \in Seq(Letters) /\ s[j] = Append(texts[j], Nul)
  BY <1>1, VectorsAssumption DEF Values
<1>3. Len(s) = n
  BY <1>1
<1>4. Terminated(v.items) = IF n = 0 THEN s ELSE f[n]
  <2>1. Terminated(v.items) = IF Len(s) = 0 THEN s
                              ELSE (CHOOSE g : Joins(g, s, Len(s)))[Len(s)]
    BY Zenon DEF Terminated, FlattenSeq, Joins
  <2> QED
    BY <2>1, <1>3, Zenon
<1>5. n = 0 => s = <<>>
  BY <1>1
<1>6. Cut(<<>>, e, texts, 0)
  <2>1. <<>> \in Seq(Letters \cup {Nul}) /\ Len(<<>>) = 0
    BY EmptySeq
  <2>2. e[0] = 0
    BY <1>1
  <2> HIDE DEF e
  <2> QED
    BY <2>1, <2>2 DEF Cut
<1>7. ASSUME NEW k \in 1 .. n PROVE Cut(f[k], e, texts, k)
  <2> DEFINE Bad == {j \in 1 .. n : ~Cut(f[j], e, texts, j)}
  <2> SUFFICES ASSUME Bad # {} PROVE FALSE
    OBVIOUS
  <2>1. PICK j \in Bad : \A i \in Bad : j <= i
    <3>1. Bad \in SUBSET Nat
      OBVIOUS
    <3> HIDE DEF Bad
    <3> QED
      BY <3>1, FirstOffset
  <2>2. j \in 1 .. n /\ j \in Nat /\ ~Cut(f[j], e, texts, j)
    BY <2>1
  <2>3. Joins(f, s, n)
    BY <1>1, JoinsExist, Zenon
  <2>4. f[j] = IF j = 1 THEN s[j] ELSE f[j - 1] \o s[j]
    BY <2>2, <2>3, Zenon DEF Joins
  <2>5. e[j] = Len(f[j])
    BY <2>2
  <2>6. j - 1 \in Nat /\ (j - 1) + 1 = j
    BY <2>2
  <2> HIDE DEF e, f, s, texts
  <2>7. CASE j = 1
    <3>1. Append(texts[1], Nul) \in Seq(Letters \cup {Nul})
      <4>1. texts[1] \in Seq(Letters \cup {Nul}) /\ Nul \in Letters \cup {Nul}
        BY <1>2, <2>2, <2>7, SeqMonotonic
      <4> QED
        BY <4>1, AppendProperties
    <3>2. f[1] = <<>> \o Append(texts[1], Nul)
      BY <1>2, <2>2, <2>4, <2>7, <3>1, ConcatEmptySeq
    <3>3. /\ texts[0 + 1] \in Seq(Letters) /\ e[0 + 1] = Len(f[1])
          /\ f[1] = <<>> \o Append(texts[0 + 1], Nul)
      BY <1>2, <2>2, <2>5, <2>7, <3>2
    <3>4. Cut(f[1], e, texts, 0 + 1)
      BY ONLY <1>6, <3>3, CutStep
    <3> QED
      BY <2>2, <2>7, <3>4
  <2>8. CASE j # 1
    <3>1. j - 1 \in 1 .. n /\ ~(j <= j - 1)
      BY <2>2, <2>8
    <3>2. Cut(f[j - 1], e, texts, j - 1)
      BY <2>1, <3>1
    <3>3. f[j] = f[j - 1] \o Append(texts[j], Nul)
      BY <1>2, <2>2, <2>4, <2>8
    <3>4. Cut(f[j], e, texts, (j - 1) + 1)
      BY <1>2, <2>2, <2>5, <2>6, <3>2, <3>3, CutStep
    <3> QED
      BY <2>2, <2>6, <3>4
  <2> QED
    BY <2>7, <2>8
<1>8. Cut(Terminated(v.items), e, texts, n)
  <2>1. CASE n = 0
    BY <2>1, <1>4, <1>5, <1>6
  <2>2. CASE n # 0
    <3>1. n \in 1 .. n
      BY <1>1, <2>2
    <3> QED
      BY <3>1, <2>2, <1>4, <1>7
  <2> QED
    BY <2>1, <2>2
<1> QED
  BY <1>8

\* Where the reader finds terminators, and which of them is the j-th.
NulsOf(b) == {i \in DOMAIN b : b[i] = Nul}

EndOf(b, j) ==
    CHOOSE i \in NulsOf(b) : Cardinality({k \in NulsOf(b) : k < i}) = j - 1

\* The terminators are at the ends of the strings and nowhere else.
LEMMA EndsAreListed ==
    ASSUME NEW b, NEW e, NEW texts, NEW n \in Nat, Cut(b, e, texts, n)
    PROVE  /\ NulsOf(b) \in SUBSET Nat
           /\ Listing([j \in 1 .. n |-> e[j]], n, NulsOf(b))
<1> DEFINE l == [j \in 1 .. n |-> e[j]]
<1>1. Len(b) \in Nat /\ DOMAIN b = 1 .. Len(b) /\ e[n] = Len(b)
  BY LenProperties DEF Cut
<1>2. NulsOf(b) \in SUBSET Nat
  BY <1>1 DEF NulsOf
<1>3. \A j \in 1 .. n : e[j] \in NulsOf(b)
  <2> TAKE j \in 1 .. n
  <2>1. /\ 0 \in 0 .. n /\ j \in 0 .. n /\ n \in 0 .. n /\ 0 < j
        /\ (j = n \/ j < n)
    OBVIOUS
  <2>2. e[0] < e[j] /\ (j < n => e[j] < e[n]) /\ e[j] \in Nat /\ e[0] = 0
    BY <2>1 DEF Cut
  <2>3. e[j] \in 1 .. Len(b)
    BY <2>1, <2>2, <1>1
  <2> QED
    BY <2>3, <1>1 DEF Cut, NulsOf
<1>4. ASSUME NEW i \in NulsOf(b) PROVE \E j \in 1 .. n : l[j] = i
  <2> DEFINE From == {j \in 0 .. n : i <= e[j]}
  <2>1. i \in 1 .. Len(b) /\ i \in Nat /\ b[i] = Nul
    BY <1>1 DEF NulsOf
  <2>2. n \in From /\ From \in SUBSET Nat
    BY <1>1, <2>1
  <2>3. PICK j \in From : \A k \in From : j <= k
    <3> HIDE DEF From
    <3> QED
      BY <2>2, FirstOffset
  <2>4. j \in 0 .. n /\ i <= e[j]
    BY <2>3
  <2>5. j # 0
    BY <2>1, <2>4 DEF Cut
  <2>6. j \in 1 .. n /\ j - 1 \in 0 .. n /\ ~(j <= j - 1)
    BY <2>4, <2>5
  <2>7. ~(i <= e[j - 1])
    BY <2>3, <2>6
  <2>8. /\ e[j] = e[j - 1] + Len(texts[j]) + 1 /\ e[j] \in Nat /\ e[j - 1] \in Nat
        /\ texts[j] \in Seq(Letters)
        /\ \A k \in 1 .. Len(texts[j]) : b[e[j - 1] + k] = texts[j][k]
    BY <2>4, <2>6 DEF Cut
  <2>9. i = e[j]
    <3> SUFFICES ASSUME i # e[j] PROVE FALSE
      OBVIOUS
    <3> DEFINE k == i - e[j - 1]
    <3>1. Len(texts[j]) \in Nat
      BY <2>8, LenProperties
    <3>2. k \in 1 .. Len(texts[j]) /\ e[j - 1] + k = i
      BY <2>1, <2>4, <2>7, <2>8, <3>1
    <3>3. b[i] = texts[j][k]
      BY <2>8, <3>2
    <3>4. texts[j][k] \in Letters
      BY <2>8, <3>2, ElementOfSeq
    <3> QED
      BY <2>1, <3>3, <3>4, BytesAssumption
  <2> QED
    BY <2>6, <2>9
<1>5. \A i, j \in 1 .. n : i < j => l[i] < l[j]
  <2> SUFFICES ASSUME NEW i \in 1 .. n, NEW j \in 1 .. n, i < j
               PROVE  e[i] < e[j]
    OBVIOUS
  <2>1. i \in 0 .. n /\ j \in 0 .. n
    OBVIOUS
  <2> QED
    BY <2>1 DEF Cut
<1> QED
  BY <1>2, <1>3, <1>4, <1>5 DEF Listing

\* Between the ends of two strings is the second.
LEMMA Between ==
    ASSUME NEW x \in Nat, NEW len \in Nat, NEW y, y = x + len + 1
    PROVE  /\ x + 1 \in Int /\ y - 1 \in Int /\ (y - 1) - (x + 1) + 1 = len
           /\ x + 1 <= y - 1 <=> len # 0
           /\ \A i \in x + 1 .. y - 1 : i - x \in 1 .. len /\ x + (i - x) = i
OBVIOUS

\* The reader of strings undoes their writer.
LEMMA StringsRead ==
    ASSUME NEW b, NEW e, NEW texts, NEW n \in Nat, Cut(b, e, texts, n),
           texts = [j \in 1 .. n |-> texts[j]]
    PROVE  ReadStrings(b) = texts
<1> DEFINE l == [j \in 1 .. n |-> e[j]]
<1>1. /\ NulsOf(b) \in SUBSET Nat
      /\ Listing(l, n, NulsOf(b))
  BY EndsAreListed
<1>2. /\ Cardinality(NulsOf(b)) = n
      /\ \A j \in 1 .. n : Cardinality({k \in NulsOf(b) : k < l[j]}) = j - 1
  <2> HIDE DEF l
  <2> QED
    BY <1>1, ListingCounts DEF OffsetsBefore
<1>3. ASSUME NEW j \in 1 .. n PROVE EndOf(b, j) = e[j]
  <2>1. l[j] = e[j]
    OBVIOUS
  <2> HIDE DEF l
  <2>2. l[j] \in NulsOf(b) /\ Cardinality({k \in NulsOf(b) : k < l[j]}) = j - 1
    BY <1>1, <1>2 DEF Listing
  <2> DEFINE x == EndOf(b, j)
  <2>3. x \in NulsOf(b) /\ Cardinality({k \in NulsOf(b) : k < x}) = j - 1
    BY <2>2 DEF EndOf
  <2> HIDE DEF x
  <2>4. PICK i \in 1 .. n : l[i] = x
    BY <1>1, <2>3 DEF Listing
  <2>5. i - 1 = j - 1
    BY <1>2, <2>3, <2>4
  <2>6. i = j
    BY <2>5
  <2> QED
    BY <2>1, <2>4, <2>6 DEF x
<1>4. ReadStrings(b) =
        [j \in 1 .. n |->
            SubSeq(b, IF j = 1 THEN 1 ELSE EndOf(b, j - 1) + 1, EndOf(b, j) - 1)]
  <2>1. ReadStrings(b) =
        [j \in 1 .. Cardinality(NulsOf(b)) |->
            SubSeq(b, IF j = 1 THEN 1 ELSE EndOf(b, j - 1) + 1, EndOf(b, j) - 1)]
    BY Zenon DEF ReadStrings, NulsOf, EndOf
  <2> QED
    BY <2>1, <1>2, Zenon
<1>5. ASSUME NEW j \in 1 .. n
      PROVE  SubSeq(b, IF j = 1 THEN 1 ELSE EndOf(b, j - 1) + 1, EndOf(b, j) - 1)
                = texts[j]
  <2>1. (IF j = 1 THEN 1 ELSE EndOf(b, j - 1) + 1) = e[j - 1] + 1
    <3>1. CASE j = 1
      <4>1. e[j - 1] = 0
        BY <3>1 DEF Cut
      <4> QED
        BY <3>1, <4>1
    <3>2. CASE j # 1
      <4>1. j - 1 \in 1 .. n
        BY <3>2
      <4> QED
        BY <3>2, <4>1, <1>3
    <3> QED
      BY <3>1, <3>2
  <2>2. /\ e[j] = e[j - 1] + Len(texts[j]) + 1 /\ e[j] \in Nat /\ e[j - 1] \in Nat
        /\ texts[j] \in Seq(Letters)
        /\ \A k \in 1 .. Len(texts[j]) : b[e[j - 1] + k] = texts[j][k]
    <3>1. j \in 0 .. n /\ j - 1 \in 0 .. n
      OBVIOUS
    <3> QED
      BY <3>1 DEF Cut
  <2> DEFINE lo == e[j - 1] + 1
             hi == e[j] - 1
             len == Len(texts[j])
             sub == SubSeq(b, lo, hi)
  <2>3. len \in Nat /\ lo \in Int /\ hi \in Int /\ hi - lo + 1 = len
        /\ (lo <= hi <=> len # 0)
    <3>1. len \in Nat
      BY <2>2, LenProperties
    <3>2. e[j] = e[j - 1] + len + 1
      BY <2>2
    <3>3. e[j - 1] \in Nat
      BY <2>2
    <3> HIDE DEF len
    <3> QED
      BY ONLY <3>1, <3>2, <3>3, Between DEF lo, hi
  <2>4. ASSUME NEW i \in lo .. hi PROVE b[i] \in Letters
    <3> DEFINE k == i - e[j - 1]
    <3>1. k \in 1 .. len /\ e[j - 1] + k = i
      <4>1. e[j] = e[j - 1] + len + 1 /\ e[j - 1] \in Nat /\ len \in Nat
        BY <2>2, <2>3
      <4>2. i \in lo .. hi
        BY <2>4
      <4> HIDE DEF len
      <4> QED
        BY ONLY <4>1, <4>2, Between DEF lo, hi, k
    <3>2. b[i] = texts[j][k]
      BY <2>2, <3>1
    <3> QED
      BY <2>2, <3>1, <3>2, ElementOfSeq
  <2>5. /\ sub \in Seq(Letters) /\ Len(sub) = len
        /\ \A i \in 1 .. len : sub[i] = b[lo + i - 1]
    <3> HIDE DEF lo, hi, len
    <3>1. /\ sub \in Seq(Letters) /\ Len(sub) = IF lo <= hi THEN hi - lo + 1 ELSE 0
          /\ \A i \in 1 .. hi - lo + 1 : sub[i] = b[lo + i - 1]
      BY <2>3, <2>4, SubSeqProperties
    <3> QED
      BY <2>3, <3>1
  <2>6. \A i \in 1 .. len : sub[i] = texts[j][i]
    <3> TAKE i \in 1 .. len
    <3>1. lo + i - 1 = e[j - 1] + i
      BY <2>2
    <3> QED
      BY <2>2, <2>5, <3>1
  <2>7. sub = texts[j]
    <3> HIDE DEF sub
    <3> QED
      BY <2>2, <2>5, <2>6, SeqEqual
  <2>8. EndOf(b, j) = e[j]
    BY <1>3
  <2> HIDE DEF sub
  <2> QED
    BY <2>1, <2>7, <2>8, Zenon DEF sub, lo, hi
<1> QED
  BY <1>4, <1>5, Zenon

-----------------------------------------------------------------------------
(* A vector is read as it was written. *)

\* Messages of one length, and the steps a reader makes over them.
LEMMA EqualMessages ==
    ASSUME NEW v \in Vectors, v.type = "VECTOR_MSG", OneLength(v)
    PROVE  LET size == SumLens(v.items, Len(v.items))
           IN  size \in Nat /\ ReadMessages(v.items, size) = Values(v.items)
<1>1. v.items \in Seq(ToSet(v.items)) /\ DOMAIN v.items = 1 .. Len(v.items)
  BY ItemsAre
<1>2. \A i \in 1 .. Len(v.items) :
        v.items[i].len \in Nat /\ v.items[i].len = v.items[1].len
  BY <1>1, VectorsAssumption DEF OneLength
<1> QED
  BY <1>1, <1>2, MessagesRead

\* The bytes of a vector, and what is read from as many.
LEMMA BytesRead ==
    ASSUME NEW v \in Vectors, OneLength(v),
           NEW f, f.type = v.type, f.data = Data(v, Bytes(v)),
           DecodedSize(f) = f.data.len
    PROVE  ReadsAsStored(f)
<1>1. /\ f.data.val.code = IF v.type = "VECTOR_STRING" THEN Bytes(v) ELSE v.items
      /\ f.data.val.meant = Values(v.items) /\ DecodedSize(f) = Len(Bytes(v))
  BY DEF Data
<1>2. CASE v.type = "VECTOR_STRING"
  <2>1. PICK e : Cut(Terminated(v.items), e, Values(v.items), Len(v.items))
    BY <1>2, TerminatedIsCut
  <2>2. ReadStrings(Terminated(v.items)) = Values(v.items)
    <3>1. Values(v.items) = [i \in 1 .. Len(v.items) |-> Values(v.items)[i]]
      BY ItemsAre
    <3> QED
      BY <2>1, <3>1, ItemsAre, StringsRead
  <2> QED
    BY <1>1, <1>2, <2>2 DEF ReadsAsStored, Read, Bytes
<1>3. CASE v.type = "VECTOR_MSG"
  <2>1. /\ SumLens(v.items, Len(v.items)) \in Nat
        /\ ReadMessages(v.items, SumLens(v.items, Len(v.items))) = Values(v.items)
    BY <1>3, EqualMessages
  <2>2. Bytes(v) = Fill(Other, SumLens(v.items, Len(v.items)))
    BY <1>3 DEF Bytes
  <2>3. Len(Bytes(v)) = SumLens(v.items, Len(v.items))
    BY <2>1, <2>2, FillIs
  <2> QED
    BY <1>1, <1>3, <2>1, <2>3 DEF ReadsAsStored, Read
<1>4. CASE v.type \in {"VECTOR_PRICE", "VECTOR_TIME"}
  <2>1. LET size == Len(v.items) * ElementWidth(v.type)
        IN  size \in Nat /\ ReadStructs(v.type, v.items, size) = Values(v.items)
    BY <1>4, StructsRead
  <2>2. Bytes(v) = Fill(Other, Len(v.items) * ElementWidth(v.type))
    BY <1>4 DEF Bytes
  <2>3. Len(Bytes(v)) = Len(v.items) * ElementWidth(v.type)
    BY <2>1, <2>2, FillIs
  <2> QED
    BY <1>1, <1>4, <2>1, <2>3 DEF ReadsAsStored, Read
<1> QED
  BY <1>2, <1>3, <1>4, VectorsAssumption DEF EncodedVectorTypes

\* The bytes of a vector are bytes.
LEMMA BytesAre ==
    ASSUME NEW v \in Vectors, OneLength(v)
    PROVE  Bytes(v) \in Seq(AllBytes) /\ Len(Bytes(v)) \in Nat
<1>1. CASE v.type = "VECTOR_STRING"
  <2>1. PICK e : Cut(Terminated(v.items), e, Values(v.items), Len(v.items))
    BY <1>1, TerminatedIsCut
  <2>2. Terminated(v.items) \in Seq(Letters \cup {Nul})
    BY <2>1 DEF Cut
  <2>3. Terminated(v.items) \in Seq(AllBytes)
    BY <2>2, SeqMonotonic DEF AllBytes
  <2> QED
    BY <1>1, <2>3, LenProperties DEF Bytes
<1>2. CASE v.type = "VECTOR_MSG"
  <2>1. Bytes(v) = Fill(Other, SumLens(v.items, Len(v.items)))
    BY <1>2 DEF Bytes
  <2>2. SumLens(v.items, Len(v.items)) \in Nat /\ Other \in AllBytes
    BY <1>2, EqualMessages DEF AllBytes
  <2> QED
    BY <2>1, <2>2, FillIs
<1>3. CASE v.type \in {"VECTOR_PRICE", "VECTOR_TIME"}
  <2>1. Bytes(v) = Fill(Other, Len(v.items) * ElementWidth(v.type))
    BY <1>3 DEF Bytes
  <2>2. Len(v.items) * ElementWidth(v.type) \in Nat /\ Other \in AllBytes
    BY <1>3, StructsRead DEF AllBytes
  <2> QED
    BY <2>1, <2>2, FillIs
<1> QED
  BY <1>1, <1>2, <1>3, VectorsAssumption DEF EncodedVectorTypes

\* They can be handed to addField and updateField.
LEMMA DataIsInput ==
    ASSUME NEW v \in Vectors, NEW b, Len(b) \in Nat
    PROVE  /\ IsInput(Data(v, b))
           /\ Data(v, b).type = v.type /\ Data(v, b).len = Len(b)
           /\ v.type \in EncodedVectorTypes
<1>1. v.type \in EncodedVectorTypes
  BY VectorsAssumption
<1>2. v.type \in PrefixedTypes /\ v.type \in FieldTypes
  BY <1>1 DEF PrefixedTypes, FieldTypes, SizedTypes
<1> QED
  BY <1>1, <1>2 DEF Data, IsInput, IsBytesInput

\* A type of vector is the type of no other value.
LEMMA NotCast ==
    ASSUME NEW t \in EncodedVectorTypes, NEW u
    PROVE  ~Castable(u, t)
BY DEF Castable, EncodedVectorTypes, FixedWidthTypes, OneByteTypes,
       TwoByteTypes, FourByteTypes, EightByteTypes

-----------------------------------------------------------------------------
(* The invariant. *)

\* What a call that stores a vector leaves holds vectors.
LEMMA StoredByHolds ==
    ASSUME NEW p, GoodBuffer(p), \A f \in FieldsOf(p) : HoldsVector(f),
           NEW v \in Vectors, OneLength(v),
           NEW f, StoredBy(p, Data(v, Bytes(v)), f)
    PROVE  HoldsVector(f)
<1> DEFINE in == Data(v, Bytes(v))
<1>1. in.type = v.type /\ v.type \in EncodedVectorTypes
  BY DataIsInput, BytesAre
<1>2. CASE f \in FieldsOf(p)
  BY <1>2
<1>3. CASE f.type = in.type /\ f.data = in
  BY <1>1, <1>3 DEF HoldsVector
<1>4. ASSUME NEW g \in FieldsOf(p), Accepts(g, in), f = Rewritten(g, in)
      PROVE  HoldsVector(f)
  <2>1. IsField(g)
    BY DEF FieldsOf, GoodBuffer, IsBuffer, IsLayout
  <2> HIDE DEF in
  <2>2. f.type = g.type /\ f.data = in
    BY <1>4, <2>1 DEF Rewritten, IsField
  <2>3. g.type = v.type
    BY <1>1, <1>4, NotCast DEF Accepts
  <2> QED
    BY <2>2, <2>3 DEF HoldsVector, in
<1> QED
  BY <1>2, <1>3, <1>4 DEF StoredBy

\* addField and updateField, with the bytes of a vector.
LEMMA StoringGood ==
    ASSUME NEW p, VectorMessage(p), NEW id \in Ids, NEW v \in Vectors, OneLength(v)
    PROVE  LET in == Data(v, Bytes(v))
           IN  /\ VectorMessage(AddField(p, id[1], id[2], in).buf)
               /\ FitsPrefix(in) =>
                    VectorMessage(UpdateField(p, id[1], id[2], in).buf)
<1> DEFINE in == Data(v, Bytes(v))
<1>1. /\ IsInput(in) /\ id[1] \in Names /\ id[2] \in Nat
      /\ \A u : ~Castable(u, in.type)
  BY IdsAssumption, BytesAre, DataIsInput, NotCast
<1>2. GoodBuffer(p) /\ IsBuffer(p) /\ \A f \in FieldsOf(p) : HoldsVector(f)
  BY DEF VectorMessage, GoodBuffer
<1>3. \A f : StoredBy(p, in, f) => HoldsVector(f)
  BY <1>2, StoredByHolds
<1> HIDE DEF in
<1>4. VectorMessage(AddField(p, id[1], id[2], in).buf)
  <2> DEFINE q == AddField(p, id[1], id[2], in).buf
  <2>1. GoodBuffer(q)
    BY <1>1, <1>2, AddFieldGood DEF GoodOutcome
  <2>2. \A f \in FieldsOf(q) : StoredBy(p, in, f)
    BY <1>1, <1>2, AddStores
  <2> QED
    BY <1>3, <2>1, <2>2 DEF VectorMessage
<1>5. ASSUME FitsPrefix(in)
      PROVE  VectorMessage(UpdateField(p, id[1], id[2], in).buf)
  <2> DEFINE q == UpdateField(p, id[1], id[2], in).buf
  <2>1. KeepsWidth(p, id[1], id[2], in)
    BY <1>1 DEF KeepsWidth
  <2>2. GoodBuffer(q)
    BY <1>1, <1>2, <1>5, <2>1, UpdateFieldGood DEF GoodOutcome
  <2>3. \A f \in FieldsOf(q) : StoredBy(p, in, f)
    BY <1>1, <1>2, UpdateStores
  <2> QED
    BY <1>3, <2>2, <2>3 DEF VectorMessage
<1> QED
  BY <1>4, <1>5 DEF in

\* The scratch buffer stays a sequence of bytes, and one that was not longer
\* than what is written to it holds that and nothing else.
LEMMA ScratchHolds ==
    ASSUME NEW s \in {NoScratch} \cup Seq(AllBytes), NEW b \in Seq(AllBytes)
    PROVE  LET t == Over(Grown(s, Len(b)), b)
           IN  /\ t \in Seq(AllBytes)
               /\ (s # NoScratch => Len(s) <= Len(b)) => t = b
<1> DEFINE n == Len(b)
           g == Grown(s, n)
           rest == SubSeq(g, n + 1, Len(g))
<1>1. n \in Nat /\ Nul \in AllBytes
  BY LenProperties DEF AllBytes
<1>2. /\ g \in Seq(AllBytes) /\ Len(g) \in Nat
      /\ (s # NoScratch => Len(s) <= n) => Len(g) = n
  <2>1. CASE s = NoScratch
    BY <1>1, <2>1, FillIs, LenProperties DEF Grown
  <2>2. CASE s # NoScratch
    <3> DEFINE k == IF n > Len(s) THEN n - Len(s) ELSE 0
    <3>1. s \in Seq(AllBytes) /\ Len(s) \in Nat /\ k \in Nat
      BY <1>1, <2>2, LenProperties
    <3>2. g = s \o Fill(Nul, k)
      BY <2>2 DEF Grown
    <3> HIDE DEF n, g, k
    <3>3. Fill(Nul, k) \in Seq(AllBytes) /\ Len(Fill(Nul, k)) = k
      BY <1>1, <3>1, FillIs
    <3>4. g \in Seq(AllBytes) /\ Len(g) = Len(s) + k
      BY ONLY <3>1, <3>2, <3>3, OneBehindTheOther
    <3>5. Len(s) + k \in Nat /\ (Len(s) <= n => Len(s) + k = n)
      BY <1>1, <3>1 DEF k
    <3> QED
      BY <2>2, <3>4, <3>5
  <2> QED
    BY <2>1, <2>2
<1> HIDE DEF g
<1>3. rest \in Seq(AllBytes) /\ (Len(g) = n => rest = <<>>)
  <2>1. \A i \in n + 1 .. Len(g) : g[i] \in AllBytes
    BY <1>1, <1>2
  <2>2. rest \in Seq(AllBytes)
    BY <1>1, <1>2, <2>1, SubSeqProperties
  <2>3. Len(g) = n => rest = <<>>
    BY <1>1, SubSeqEmpty
  <2> QED
    BY <2>2, <2>3
<1> HIDE DEF rest
<1>4. b \o rest \in Seq(AllBytes) /\ b \o <<>> = b
  BY ONLY b \in Seq(AllBytes), <1>3, OneBehindTheOther, ConcatEmptySeq
<1> QED
  BY <1>2, <1>3, <1>4 DEF Over, g, n, rest

LEMMA VInvInit == Init => VInv
<1> SUFFICES ASSUME Init PROVE VInv
  OBVIOUS
<1>1. FieldsOf(NewBuffer) = {}
  BY DEF FieldsOf, NewBuffer, Cleared, NoFields
<1> QED
  BY <1>1, NewBufferGood DEF Init, VInv, Messages, ScratchBytes, VectorMessage

\* A call that leaves a message of vectors.
LEMMA FinishGood ==
    ASSUME Messages, NEW m \in Msgs, NEW op, NEW r, Finish(m, op, r),
           VectorMessage(r.buf)
    PROVE  Messages'
<1>1. msg' = [msg EXCEPT ![m] = r.buf]
  BY DEF Finish
<1> QED
  BY <1>1 DEF Messages

\* A vector is written to the scratch buffer.
LEMMA Encode1Good ==
    ASSUME ScratchBytes, NEW m \in Msgs, NEW v \in Vectors, OneLength(v),
           Encode1(m, v)
    PROVE  ScratchBytes' /\ (NoOldBytes(m, v) => scratch'[m] = Bytes(v))
<1> DEFINE t == Over(Grown(scratch[m], Len(Bytes(v))), Bytes(v))
<1>1. scratch' = [scratch EXCEPT ![m] = t]
  BY DEF Encode1
<1>2. t \in Seq(AllBytes) /\ (NoOldBytes(m, v) => t = Bytes(v))
  BY BytesAre, ScratchHolds DEF ScratchBytes, NoOldBytes
<1> HIDE DEF t
<1> QED
  BY <1>1, <1>2 DEF ScratchBytes

LEMMA VInvUpdateVector ==
    ASSUME VInv, NEW m \in Msgs, NEW id \in Ids, NEW v \in Vectors,
           OneLength(v), FitsPrefix(Data(v, Bytes(v))), UpdateVector(m, id, v)
    PROVE  VInv'
<1>1. VectorMessage(msg[m]) /\ Messages /\ ScratchBytes
  BY DEF VInv, Messages
<1>2. VectorMessage(UpdateField(msg[m], id[1], id[2], Data(v, Bytes(v))).buf)
  BY <1>1, StoringGood
<1>3. Messages'
  BY <1>1, <1>2, FinishGood DEF UpdateVector
<1>4. ScratchBytes'
  BY <1>1, Encode1Good DEF UpdateVector
<1> QED
  BY <1>3, <1>4 DEF VInv

LEMMA VInvAddVectorString ==
    ASSUME VInv, NEW m \in Msgs, NEW id \in Ids, NEW v \in Vectors,
           NoOldBytes(m, v), AddVectorString(m, id, v)
    PROVE  VInv'
<1>1. VectorMessage(msg[m]) /\ Messages /\ ScratchBytes
  BY DEF VInv, Messages
<1>2. OneLength(v) /\ Encode1(m, v)
      /\ Finish(m, "addVector", AddField(msg[m], id[1], id[2], Data(v, scratch'[m])))
  BY DEF AddVectorString, OneLength
<1>3. ScratchBytes' /\ scratch'[m] = Bytes(v)
  BY <1>1, <1>2, Encode1Good
<1>4. VectorMessage(AddField(msg[m], id[1], id[2], Data(v, Bytes(v))).buf)
  BY <1>1, <1>2, StoringGood
<1>5. Messages'
  BY <1>1, <1>2, <1>3, <1>4, FinishGood
<1> QED
  BY <1>3, <1>5 DEF VInv

LEMMA VInvMessageText == ASSUME VInv, NEW m \in Msgs, MessageText(m) PROVE VInv'
<1> DEFINE text == Append(Fill(Other, PartSize - 1), Nul)
           t == Over(Grown(scratch[m], PartSize), text)
<1>1. text \in Seq(AllBytes) /\ Len(text) = PartSize
  <2>1. PartSize - 1 \in Nat /\ Other \in AllBytes /\ Nul \in AllBytes
    BY PartSizeAssumption DEF AllBytes
  <2>2. Fill(Other, PartSize - 1) \in Seq(AllBytes)
        /\ Len(Fill(Other, PartSize - 1)) = PartSize - 1
    BY <2>1, FillIs
  <2> QED
    BY <2>1, <2>2, PartSizeAssumption, AppendProperties
<1> HIDE DEF text
<1>2. t \in Seq(AllBytes)
  BY <1>1, ScratchHolds DEF VInv, ScratchBytes
<1>3. scratch' = [scratch EXCEPT ![m] = t] /\ msg' = msg
  BY DEF MessageText, text
<1> HIDE DEF t
<1> QED
  BY <1>2, <1>3 DEF VInv, ScratchBytes, Messages

LEMMA VInvClear == ASSUME VInv, NEW m \in Msgs, Clear(m) PROVE VInv'
<1>1. SafeBuffer(msg[m])
  BY DEF VInv, Messages, VectorMessage, GoodBuffer, SafeBuffer
<1>2. GoodBuffer(Cleared(msg[m]))
  BY <1>1, ClearedGood
<1>3. FieldsOf(Cleared(msg[m])) = {}
  BY <1>1 DEF FieldsOf, Cleared, NoFields, SafeBuffer, IsBuffer
<1>4. VectorMessage(Outcome(Cleared(msg[m]), "OK").buf)
  BY <1>2, <1>3 DEF VectorMessage, Outcome
<1>5. Messages'
  BY <1>4, FinishGood DEF Clear, VInv
<1> QED
  BY <1>5 DEF Clear, VInv, ScratchBytes

LEMMA VInvRecreate == ASSUME VInv, NEW m \in Msgs, Recreate(m) PROVE VInv'
<1>1. FieldsOf(NewBuffer) = {}
  BY DEF FieldsOf, NewBuffer, Cleared, NoFields
<1>2. VectorMessage(NewBuffer)
  BY <1>1, NewBufferGood DEF VectorMessage
<1>3. msg' = [msg EXCEPT ![m] = NewBuffer] /\ scratch' = [scratch EXCEPT ![m] = NoScratch]
  BY DEF Recreate
<1> QED
  BY <1>2, <1>3 DEF VInv, ScratchBytes, Messages

LEMMA VInvNext == VInv /\ [Next]_vars => VInv'
<1> SUFFICES ASSUME VInv, [Next]_vars PROVE VInv'
  OBVIOUS
<1>1. ASSUME msg' = msg, scratch' = scratch PROVE VInv'
  BY <1>1 DEF VInv, Messages, ScratchBytes
<1>2. CASE UNCHANGED vars
  BY <1>1, <1>2 DEF vars
<1>3. ASSUME NEW m \in Msgs,
             MessageText(m) \/ Clear(m) \/ Recreate(m)
      PROVE  VInv'
  BY <1>3, VInvMessageText, VInvClear, VInvRecreate
<1>4. ASSUME NEW m \in Msgs, NEW id \in Ids, GetVector(m, id)
      PROVE  VInv'
  BY <1>1, <1>4 DEF GetVector
<1>5. ASSUME NEW m \in Msgs, NEW id \in Ids, NEW v \in Vectors,
             \/ /\ OneLength(v) /\ FitsPrefix(Data(v, Bytes(v)))
                /\ UpdateVector(m, id, v)
             \/ UpdateNothing(m, id, v)
             \/ NoOldBytes(m, v) /\ AddVectorString(m, id, v)
             \/ AddNothing(m, id, v)
      PROVE  VInv'
  <2>1. CASE UpdateNothing(m, id, v) \/ AddNothing(m, id, v)
    BY <2>1, <1>1 DEF UpdateNothing, AddNothing
  <2> QED
    BY <1>5, <2>1, VInvUpdateVector, VInvAddVectorString
<1> QED
  BY <1>2, <1>3, <1>4, <1>5 DEF Next

\* The fields of a message, as the properties see them.
LEMMA HeldFields ==
    ASSUME VInv, NEW m \in Msgs, NEW o \in DOMAIN msg[m].at
    PROVE  LET f == msg[m].at[o]
           IN  /\ IsField(f) /\ HoldsVector(f) /\ f.type \in EncodedVectorTypes
               /\ DecodedSize(f) = f.data.len /\ f.decl = f.data.len
<1> DEFINE f == msg[m].at[o]
<1>1. GoodBuffer(msg[m]) /\ HoldsVector(f)
  BY DEF VInv, Messages, VectorMessage, FieldsOf
<1>2. IsField(f) /\ ReadsAsWritten(f)
  BY <1>1 DEF GoodBuffer, IsBuffer, IsLayout, FramedBuffer, FramedFields
<1> HIDE DEF f
<1>3. DecodedSize(f) = f.data.len
  BY <1>2, ReadsBack
<1>4. f.type \in EncodedVectorTypes
  BY <1>1, VectorsAssumption DEF HoldsVector
<1>5. DecodedSize(f) = f.decl
  BY <1>4 DEF DecodedSize, PrefixedTypes, EncodedVectorTypes, StructTypes,
       FixedWidthTypes, OneByteTypes, TwoByteTypes, FourByteTypes, EightByteTypes
<1> QED
  BY <1>1, <1>2, <1>3, <1>4, <1>5 DEF f

LEMMA VInvImplies == VInv => VectorTypeOK /\ VectorsFramed /\ VectorsReadBack
<1> SUFFICES ASSUME VInv PROVE VectorTypeOK /\ VectorsFramed /\ VectorsReadBack
  OBVIOUS
<1>1. \A m \in Msgs : GoodBuffer(msg[m]) /\ scratch[m] \in {NoScratch} \cup Seq(AllBytes)
  BY DEF VInv, Messages, VectorMessage, ScratchBytes
<1>2. VectorTypeOK
  <2>1. ASSUME NEW m \in Msgs, NEW o \in DOMAIN msg[m].at
        PROVE  LET f == msg[m].at[o]
               IN  /\ f.type \in EncodedVectorTypes
                   /\ f.name \in Names \ {EmptyName}
                   /\ f.fid \in Nat
                   /\ f.decl = f.data.len
    BY HeldFields DEF IsField
  <2>2. \A m \in Msgs : msg[m].tail \in Nat /\ msg[m].cap \in Nat
    BY <1>1 DEF GoodBuffer, IsBuffer
  <2> QED
    BY <1>1, <2>1, <2>2 DEF VectorTypeOK, AllBytes
<1>3. VectorsFramed
  BY <1>1 DEF VectorsFramed, GoodBuffer
<1>4. VectorsReadBack
  <2> SUFFICES ASSUME NEW m \in Msgs, NEW o \in DOMAIN msg[m].at
               PROVE  ReadsAsStored(msg[m].at[o])
    BY DEF VectorsReadBack
  <2> DEFINE f == msg[m].at[o]
  <2>1. HoldsVector(f) /\ DecodedSize(f) = f.data.len
    BY HeldFields
  <2> HIDE DEF f
  <2>2. ReadsAsStored(f)
    BY <2>1, BytesRead DEF HoldsVector
  <2> QED
    BY <2>2 DEF f
<1> QED
  BY <1>2, <1>3, <1>4

LEMMA SpecVInv == Spec => []VInv
  BY VInvInit, VInvNext, PTL DEF Spec

-----------------------------------------------------------------------------

\* Messages of vectors keep their shape, and the length prefix of each field
\* says how long its data is: updateField resizes the data and rewrites both.
THEOREM VectorTypeCorrect == Spec => []VectorTypeOK
BY SpecVInv, VInvImplies, PTL

\* Whatever vectors are stored, resized and put away, a message of them can be
\* walked.
THEOREM VectorsStayFramed == Spec => []VectorsFramed
BY SpecVInv, VInvImplies, PTL

\* Every vector that was stored reads back as the sequence it was, of any
\* length and whatever the scratch buffer was used for before, as long as
\* strings are added only where they fill it and messages are equally long.
THEOREM EveryVectorReadsBack == Spec => []VectorsReadBack
BY SpecVInv, VInvImplies, PTL

=============================================================================
