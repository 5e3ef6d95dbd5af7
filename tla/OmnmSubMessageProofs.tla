------------------------- MODULE OmnmSubMessageProofs -------------------------
(***************************************************************************)
(* That the payload objects cached in handles are owned once, and that a   *)
(* result stands until the next read through its handle, for any number of *)
(* objects, iterators and contents.                                        *)
(*                                                                         *)
(* The invariant is OwnedOnce, with the shapes of the variables and Told:  *)
(* what a client was told is what its handle caches.  A read hands a       *)
(* handle objects that nobody has (Grows); a destructor frees a closed set *)
(* with one root in it and the owner of every other object in it           *)
(* (FreesWhole).                                                           *)
(***************************************************************************)
EXTENDS OmnmSubMessage, TLAPS

Pointer == Objs \cup {None}

Readable == Contents \ Unreadable

Results == [obj : Objs, body : Readable]

Shapes ==
    /\ live \subseteq Objs
    /\ body \in [Objs -> Readable]
    /\ sub \in [Handles -> Pointer]
    /\ vec \in [Handles -> Seq(Pointer)]
    /\ walks \in [Iters -> Objs \cup {NoIter, NoMsg}]
    /\ told \in [Handles -> [sub : SUBSET Results, vec : SUBSET Results]]

Told ==
    \A h \in Handles :
        /\ \A x \in told[h].sub : x.obj = sub[h] /\ body[x.obj] = x.body
        /\ \A x \in told[h].vec : x.obj \in Elements(h) /\ body[x.obj] = x.body

SInv == Shapes /\ OwnedOnce /\ Told

-----------------------------------------------------------------------------
(* What handles cache. *)

\* Pointers that are not null point at objects.
LEMMA CachedIsObjects ==
    ASSUME Shapes, NEW h \in Handles
    PROVE  Elements(h) \subseteq Cached(h) /\ Cached(h) \subseteq Objs
<1>1. sub[h] \in Pointer /\ vec[h] \in Seq(Pointer)
  BY DEF Shapes
<1>2. \A j \in DOMAIN vec[h] : vec[h][j] \in Pointer
  BY <1>1
<1> QED  BY <1>1, <1>2 DEF Cached, Elements, Pointer

\* What is told lies in objects that are cached, and those are alive.
LEMMA ToldIsCached ==
    ASSUME SInv, NEW h \in Handles, NEW x \in told[h].sub \cup told[h].vec
    PROVE  /\ x.obj \in Cached(h) /\ x.obj \in live /\ x.obj \notin roots
           /\ body[x.obj] = x.body
<1>1. x \in Results
  BY DEF SInv, Shapes
<1>2. x.obj # None
  BY <1>1, NoneAssumption DEF Results
<1>3. x.obj \in Cached(h) /\ body[x.obj] = x.body
  BY <1>2 DEF SInv, Told, Cached, Elements
<1> QED  BY <1>3 DEF SInv, OwnedOnce

\* Clients use objects that are alive.
LEMMA UsableIsLive == SInv => Usable \subseteq live /\ Usable \subseteq Objs
<1> SUFFICES ASSUME SInv, NEW o \in Usable  PROVE o \in live
  BY DEF SInv, Shapes
<1>1. CASE o \in roots
  BY <1>1 DEF SInv, OwnedOnce
<1>2. ASSUME NEW h \in Handles, NEW x \in told[h].sub \cup told[h].vec, o = x.obj
      PROVE  o \in live
  BY <1>2, ToldIsCached
<1> QED  BY <1>1, <1>2 DEF Usable

\* If one handle gets objects that nobody has, every object still has one
\* owner.
LEMMA Grows ==
    ASSUME Shapes, OwnedOnce, NEW h \in Handles, NEW fresh,
           fresh \subseteq Objs \ live,
           live' = live \cup fresh, roots' = roots, lost' = lost,
           Cached(h)' = Cached(h) \cup fresh,
           \A g \in Handles : g # h => Cached(g)' = Cached(g) /\ Distinct(g)',
           Distinct(h)'
    PROVE  OwnedOnce'
BY DEF OwnedOnce

-----------------------------------------------------------------------------
(* Reading. *)

\* The field that is read lies in a readable message.
LEMMA ReadsField ==
    ASSUME SInv, NEW h \in Handles, NEW k, NEW type, CanRead(h, k, type)
    PROVE  LET f == body[MessageOf(h)].fields[k] IN
           f.items \in Seq(Contents) /\ (type = "MSG" => Len(f.items) = 1)
<1>1. MessageOf(h) \in Objs
  BY UsableIsLive DEF CanRead, MessageOf
<1>2. body[MessageOf(h)] \in Contents
  BY <1>1 DEF SInv, Shapes, Readable
<1> QED  BY <1>2, ContentsAssumption DEF CanRead

\* A handle that has no sub-message gets one that nobody has; what it held
\* before is overwritten, and so is what was told of it.
LEMMA SInvGetMsg ==
    ASSUME SInv, NEW h \in Handles, NEW k, GetMsg(h, k)  PROVE SInv'
<1> DEFINE c == body[MessageOf(h)].fields[k].items[1]
<1>1. c \in Contents
  BY ReadsField DEF GetMsg
<1>2. PICK o \in IF sub[h] = None THEN Objs \ live ELSE {sub[h]} :
        /\ live' = live \cup {o}
        /\ sub' = [sub EXCEPT ![h] = o]
        /\ body' = [body EXCEPT ![o] = After(@, c)]
        /\ told' = IF c \in Unreadable THEN told
                   ELSE [told EXCEPT ![h].sub = {Held(o, c)}]
  BY DEF GetMsg
<1>3. roots' = roots /\ vec' = vec /\ walks' = walks /\ lost' = lost
  BY DEF GetMsg
<1> HIDE DEF c
<1> USE DEF SInv
<1>4. o \in Objs /\ o # None
  BY <1>2, NoneAssumption DEF Shapes, Pointer
<1>5. After(body[o], c) \in Readable
  BY <1>1, <1>4 DEF After, Shapes, Readable
<1>6. c \notin Unreadable => Held(o, c) \in Results /\ After(body[o], c) = c
  BY <1>1, <1>4 DEF Held, Results, Readable, After
<1>7. Shapes'
  <2>1. live' \subseteq Objs
    BY <1>2, <1>4 DEF Shapes
  <2>2. body' \in [Objs -> Readable]
    BY <1>2, <1>5 DEF Shapes
  <2>3. sub' \in [Handles -> Pointer]
    BY <1>2, <1>4 DEF Shapes, Pointer
  <2>4. told' \in [Handles -> [sub : SUBSET Results, vec : SUBSET Results]]
    BY <1>2, <1>6 DEF Shapes
  <2>5. vec' \in [Handles -> Seq(Pointer)] /\ walks' \in [Iters -> Objs \cup {NoIter, NoMsg}]
    BY <1>3 DEF Shapes, Handles
  <2> QED  BY <2>1, <2>2, <2>3, <2>4, <2>5 DEF Shapes
<1>8. /\ sub'[h] = o /\ \A g \in Handles : g # h => sub'[g] = sub[g]
      /\ \A g \in Handles : Elements(g)' = Elements(g)
  BY <1>2, <1>3 DEF Shapes, Elements
<1>9. \A g \in Handles : g # h => Cached(g)' = Cached(g) /\ Distinct(g)'
  BY <1>3, <1>8 DEF Cached, OwnedOnce, Distinct
<1>10. sub[h] # None => o = sub[h] /\ o \in Cached(h) /\ o \in live
  BY <1>2, <1>4 DEF Cached, OwnedOnce
<1>11. sub[h] = None => o \notin live
  BY <1>2
<1>12. OwnedOnce'
  <2>1. Cached(h)' = Cached(h) \cup {o}
    BY <1>4, <1>8, <1>10 DEF Cached
  <2>2. o \notin Elements(h)
    <3>1. CASE sub[h] = None
      BY <1>11, <3>1 DEF OwnedOnce, Cached
    <3>2. CASE sub[h] # None
      BY <1>10, <3>2 DEF OwnedOnce, Distinct
    <3> QED  BY <3>1, <3>2
  <2>3. Distinct(h)'
    BY <1>3, <1>8, <2>2 DEF OwnedOnce, Distinct
  <2>4. CASE sub[h] = None
    BY <1>2, <1>3, <1>4, <1>9, <1>11, <2>1, <2>3, <2>4, Grows
  <2>5. CASE sub[h] # None
    <3>1. Cached(h)' = Cached(h) /\ live' = live
      BY <1>2, <1>10, <2>1, <2>5
    <3> QED  BY <1>3, <1>9, <2>3, <3>1 DEF OwnedOnce
  <2> QED  BY <2>4, <2>5
<1>13. Told'
  <2>1. ASSUME NEW g \in Handles, NEW x \in told[g].sub \cup told[g].vec,
               x.obj = o
        PROVE  g = h /\ x \in told[g].sub /\ x \notin told[g].vec
    <3>1. o \in Cached(g) /\ o \in live
      BY <2>1, ToldIsCached
    <3>2. sub[h] # None /\ o = sub[h] /\ o \in Cached(h)
      BY <1>10, <1>11, <3>1
    <3>3. g = h
      BY <3>1, <3>2 DEF OwnedOnce
    <3>4. o \notin Elements(h)
      BY <3>2, <1>4 DEF OwnedOnce, Distinct
    <3> QED  BY <2>1, <3>3, <3>4 DEF Told
  <2>2. \A y \in Objs : y # o => body'[y] = body[y]
    BY <1>2 DEF Shapes
  <2>3. body'[o] = After(body[o], c)
    BY <1>2, <1>4 DEF Shapes
  <2>4. \A g \in Handles : told'[g].vec = told[g].vec
    BY <1>2 DEF Shapes
  <2>5. \A g \in Handles : g # h => told'[g].sub = told[g].sub
    BY <1>2 DEF Shapes
  <2>6. \A g \in Handles : \A x \in told[g].sub \cup told[g].vec : x.obj \in Objs
    BY DEF Shapes, Results
  <2>7. ASSUME NEW g \in Handles, NEW x \in told'[g].vec
        PROVE  x.obj \in Elements(g)' /\ body'[x.obj] = x.body
    BY <1>8, <2>1, <2>2, <2>4, <2>6, <2>7 DEF Told
  <2>8. ASSUME NEW g \in Handles, g # h, NEW x \in told'[g].sub
        PROVE  x.obj = sub'[g] /\ body'[x.obj] = x.body
    BY <1>8, <2>1, <2>2, <2>5, <2>6, <2>8 DEF Told
  <2>9. ASSUME NEW x \in told'[h].sub
        PROVE  x.obj = sub'[h] /\ body'[x.obj] = x.body
    <3>1. CASE c \in Unreadable
      <4>1. x \in told[h].sub /\ x.obj = sub[h] /\ body[x.obj] = x.body
        BY <1>2, <2>9, <3>1 DEF Told
      <4>2. sub[h] # None
        BY <2>6, <4>1, NoneAssumption
      <4>3. x.obj = o /\ body'[o] = body[o]
        BY <1>10, <2>3, <3>1, <4>1, <4>2 DEF After
      <4> QED  BY <1>8, <4>1, <4>3
    <3>2. CASE c \notin Unreadable
      <4>1. x = Held(o, c)
        BY <1>2, <2>9, <3>2 DEF Shapes
      <4> QED  BY <1>6, <1>8, <2>3, <3>2, <4>1 DEF Held
    <3> QED  BY <3>1, <3>2
  <2> QED  BY <2>7, <2>8, <2>9 DEF Told
<1> QED  BY <1>7, <1>12, <1>13

\* Room for n pointers, and an object for each: those that were there stay,
\* the others nobody had.
LEMMA FilledIs ==
    ASSUME SInv, NEW h \in Handles, NEW n \in Nat,
           NEW t \in Filled(Roomy(vec[h], n), n)
    PROVE  /\ t \in Seq(Pointer) /\ 1 .. n \subseteq DOMAIN t
           /\ DOMAIN vec[h] \subseteq DOMAIN t
           /\ \A j \in DOMAIN vec[h] : vec[h][j] # None => t[j] = vec[h][j]
           /\ \A j \in DOMAIN t :
                \/ j \in DOMAIN vec[h] /\ t[j] = vec[h][j]
                \/ t[j] \in Objs \ live
           /\ \A i, j \in 1 .. n : i # j => t[i] # t[j]
           /\ \A i \in 1 .. n : t[i] \in Objs
           /\ \A i \in DOMAIN t : i \notin 1 .. n =>
                i \in DOMAIN vec[h] /\ t[i] = vec[h][i]
<1> DEFINE v == vec[h]
           m == IF n > Len(v) THEN n ELSE Len(v)
           s == Roomy(v, n)
<1>1. v \in Seq(Pointer) /\ Len(v) \in Nat /\ DOMAIN v = 1 .. Len(v)
  BY DEF SInv, Shapes
<1>2. \A j \in DOMAIN v : v[j] \in Pointer
  BY <1>1
<1>3. m \in Nat /\ n <= m /\ Len(v) <= m /\ (m = n \/ m = Len(v))
  BY <1>1
<1>4. s = [j \in 1 .. m |-> IF j \in DOMAIN v THEN v[j] ELSE None]
  BY DEF Roomy
<1>5. /\ DOMAIN s = 1 .. m
      /\ \A j \in 1 .. m : s[j] = IF j \in DOMAIN v THEN v[j] ELSE None
  BY <1>4
<1>6. /\ t \in [DOMAIN s -> (Objs \ live) \cup {s[j] : j \in DOMAIN s}]
      /\ \A j \in DOMAIN s :
            IF s[j] # None \/ j > n THEN t[j] = s[j] ELSE t[j] \in Objs \ live
      /\ \A i, j \in 1 .. n : i # j => t[i] # t[j]
  BY DEF Filled
<1> HIDE DEF m, s
<1>7. DOMAIN t = 1 .. m /\ DOMAIN v \subseteq 1 .. m /\ 1 .. n \subseteq 1 .. m
  BY <1>1, <1>3, <1>5, <1>6
<1>8. \A j \in 1 .. m : j \notin 1 .. n => j \in DOMAIN v /\ j > n
  BY <1>1, <1>3
<1>9. \A j \in 1 .. m : j \in 1 .. n => ~ (j > n)
  BY <1>3
<1>10. ASSUME NEW j \in 1 .. m
       PROVE  /\ \/ j \in DOMAIN v /\ t[j] = v[j]
                 \/ t[j] \in Objs \ live
              /\ j \in DOMAIN v /\ v[j] # None => t[j] = v[j]
              /\ j \notin 1 .. n => j \in DOMAIN v /\ t[j] = v[j]
              /\ j \in 1 .. n => t[j] \in Objs
  <2>1. s[j] = IF j \in DOMAIN v THEN v[j] ELSE None
    BY <1>5
  <2>2. IF s[j] # None \/ j > n THEN t[j] = s[j] ELSE t[j] \in Objs \ live
    BY <1>5, <1>6
  <2>3. CASE j \in 1 .. n
    <3>1. ~ (j > n)
      BY <1>9, <2>3
    <3>2. CASE s[j] # None
      BY <1>2, <2>1, <2>2, <2>3, <3>2 DEF Pointer
    <3>3. CASE s[j] = None
      BY <2>1, <2>2, <2>3, <3>1, <3>3
    <3> QED  BY <3>2, <3>3
  <2>4. CASE j \notin 1 .. n
    BY <1>8, <2>1, <2>2, <2>4
  <2> QED  BY <2>3, <2>4
<1>11. \A j \in 1 .. m : t[j] \in Pointer
  BY <1>2, <1>10 DEF Pointer
<1>12. t \in Seq(Pointer)
  <2>1. t \in [1 .. m -> Pointer]
    BY <1>6, <1>5, <1>11
  <2> QED  BY <1>3, <2>1
<1> QED  BY <1>1, <1>6, <1>7, <1>10, <1>12

\* The messages of a vector go into the objects the handle has, and into
\* others that nobody has.
LEMMA SInvGetVectorMsg ==
    ASSUME SInv, NEW h \in Handles, NEW k, GetVectorMsg(h, k)  PROVE SInv'
<1> DEFINE items == body[MessageOf(h)].fields[k].items
           n == Len(items)
<1>1. /\ items \in Seq(Contents) /\ n \in Nat /\ DOMAIN items = 1 .. n
      /\ \A j \in 1 .. n : items[j] \in Contents
  BY ReadsField DEF GetVectorMsg
<1>2. \A j \in 1 .. n : items[j] \in Readable
  BY <1>1 DEF GetVectorMsg, ReadableVector, Readable
<1>3. PICK t \in Filled(Roomy(vec[h], n), n) :
        /\ vec' = [vec EXCEPT ![h] = t]
        /\ live' = live \cup {t[j] : j \in 1 .. n}
        /\ body' = [o \in Objs |->
             IF \E j \in 1 .. n : t[j] = o
             THEN items[CHOOSE j \in 1 .. n : t[j] = o] ELSE body[o]]
        /\ told' = [told EXCEPT
             ![h].vec = {Held(t[j], items[j]) : j \in 1 .. n}]
  BY DEF GetVectorMsg
<1>4. roots' = roots /\ sub' = sub /\ walks' = walks /\ lost' = lost
  BY DEF GetVectorMsg
<1> HIDE DEF items, n
<1> USE DEF SInv
<1>5. /\ t \in Seq(Pointer) /\ 1 .. n \subseteq DOMAIN t
      /\ DOMAIN vec[h] \subseteq DOMAIN t
      /\ \A j \in DOMAIN vec[h] : vec[h][j] # None => t[j] = vec[h][j]
      /\ \A j \in DOMAIN t :
           \/ j \in DOMAIN vec[h] /\ t[j] = vec[h][j]
           \/ t[j] \in Objs \ live
      /\ \A i, j \in 1 .. n : i # j => t[i] # t[j]
      /\ \A i \in 1 .. n : t[i] \in Objs
      /\ \A i \in DOMAIN t : i \notin 1 .. n =>
           i \in DOMAIN vec[h] /\ t[i] = vec[h][i]
  BY <1>1, FilledIs
<1>6. /\ vec'[h] = t
      /\ \A g \in Handles : g # h => vec'[g] = vec[g]
  BY <1>3 DEF Shapes
<1>7. \A j \in 1 .. n : body'[t[j]] = items[j]
  <2> SUFFICES ASSUME NEW j \in 1 .. n  PROVE body'[t[j]] = items[j]
    OBVIOUS
  <2>1. t[j] \in Objs /\ \E i \in 1 .. n : t[i] = t[j]
    BY <1>5
  <2>2. (CHOOSE i \in 1 .. n : t[i] = t[j]) = j
    BY <1>5
  <2> QED  BY <1>3, <2>1, <2>2
<1>8. \A o \in Objs : (\A j \in 1 .. n : t[j] # o) => body'[o] = body[o]
  BY <1>3
<1>9. Shapes'
  <2>1. live' \subseteq Objs
    BY <1>3, <1>5 DEF Shapes
  <2>2. \A o \in Objs : body'[o] \in Readable
    BY <1>2, <1>7, <1>8 DEF Shapes
  <2>3. body' \in [Objs -> Readable]
    BY <1>3, <2>2
  <2>4. vec' \in [Handles -> Seq(Pointer)]
    BY <1>3, <1>5 DEF Shapes
  <2>5. \A j \in 1 .. n : Held(t[j], items[j]) \in Results
    BY <1>2, <1>5 DEF Held, Results
  <2> DEFINE new == {Held(t[j], items[j]) : j \in 1 .. n}
  <2>6. new \in SUBSET Results /\ told' = [told EXCEPT ![h].vec = new]
    BY <1>3, <2>5
  <2> HIDE DEF new
  <2>7. told' \in [Handles -> [sub : SUBSET Results, vec : SUBSET Results]]
    BY <2>6 DEF Shapes
  <2> QED  BY <1>4, <2>1, <2>3, <2>4, <2>7 DEF Shapes, Handles
<1>10. Elements(h)' = {t[j] : j \in DOMAIN t} \ {None}
  BY <1>6 DEF Elements
<1>11. \A g \in Handles : g # h => Elements(g)' = Elements(g)
  BY <1>6 DEF Elements
<1> DEFINE fresh == {t[j] : j \in 1 .. n} \ live
<1>12. fresh \subseteq Objs \ live /\ live' = live \cup fresh
  BY <1>3, <1>5
<1>13. Elements(h)' = Elements(h) \cup fresh
  <2>1. ASSUME NEW o \in Elements(h)'  PROVE o \in Elements(h) \cup fresh
    <3>1. PICK j \in DOMAIN t : o = t[j] /\ o # None
      BY <1>10, <2>1
    <3>2. CASE j \in DOMAIN vec[h] /\ t[j] = vec[h][j]
      BY <3>1, <3>2 DEF Elements
    <3>3. CASE t[j] \in Objs \ live /\ ~ (j \in DOMAIN vec[h] /\ t[j] = vec[h][j])
      BY <1>5, <3>1, <3>3
    <3> QED  BY <1>5, <3>2, <3>3
  <2>2. ASSUME NEW o \in Elements(h)  PROVE o \in Elements(h)'
    <3>1. PICK j \in DOMAIN vec[h] : o = vec[h][j] /\ o # None
      BY <2>2 DEF Elements
    <3> QED  BY <1>5, <1>10, <3>1
  <2>3. ASSUME NEW o \in fresh  PROVE o \in Elements(h)'
    <3>1. PICK j \in 1 .. n : o = t[j]
      BY <2>3
    <3> QED  BY <1>5, <1>10, <1>12, <3>1, NoneAssumption
  <2> QED  BY <2>1, <2>2, <2>3
<1> HIDE DEF fresh
<1>14. Cached(h)' = Cached(h) \cup fresh
  BY <1>4, <1>13 DEF Cached
<1>15. \A g \in Handles : g # h => Cached(g)' = Cached(g) /\ Distinct(g)'
  BY <1>4, <1>6, <1>11 DEF Cached, OwnedOnce, Distinct
<1>16. Distinct(h)'
  <2>1. sub'[h] = None \/ sub'[h] \notin Elements(h)'
    BY <1>4, <1>12, <1>13 DEF OwnedOnce, Distinct, Cached
  <2>2. ASSUME NEW i \in DOMAIN t, NEW j \in DOMAIN t, i # j, t[i] = t[j]
        PROVE  t[i] = None
    <3>1. CASE i \in 1 .. n /\ j \in 1 .. n
      BY <1>5, <2>2, <3>1
    <3>2. CASE i \in DOMAIN vec[h] /\ t[i] = vec[h][i]
               /\ j \in DOMAIN vec[h] /\ t[j] = vec[h][j]
      BY <2>2, <3>2 DEF OwnedOnce, Distinct
    <3>3. ASSUME NEW a \in DOMAIN t, NEW b \in DOMAIN t, t[a] = t[b],
                 a \in DOMAIN vec[h], t[a] = vec[h][a], t[b] \in Objs \ live
          PROVE  FALSE
      <4>1. t[a] # None
        BY <3>3, NoneAssumption
      <4>2. t[a] \in Cached(h)
        BY <3>3, <4>1 DEF Cached, Elements
      <4> QED  BY <3>3, <4>2 DEF OwnedOnce
    <3> QED  BY <1>5, <2>2, <3>1, <3>2, <3>3
  <2> QED  BY <1>6, <2>1, <2>2 DEF Distinct
<1>17. OwnedOnce'
  BY <1>4, <1>12, <1>14, <1>15, <1>16, Grows
<1>18. Told'
  <2>1. \A g \in Handles : told'[g].sub = told[g].sub
    BY <1>3 DEF Shapes
  <2>2. \A g \in Handles : g # h => told'[g].vec = told[g].vec
    BY <1>3 DEF Shapes
  <2>3. told'[h].vec = {Held(t[j], items[j]) : j \in 1 .. n}
    BY <1>3 DEF Shapes
  <2>4. ASSUME NEW j \in 1 .. n
        PROVE  t[j] \in Elements(h) \/ t[j] \notin live
    BY <1>5, NoneAssumption DEF Elements
  <2>5. ASSUME NEW g \in Handles, NEW x \in told[g].sub \cup told[g].vec,
               g # h \/ x \in told[g].sub
        PROVE  body'[x.obj] = body[x.obj]
    <3>1. x.obj \in Cached(g) /\ x.obj \in live /\ x.obj \in Objs
      BY ToldIsCached DEF Shapes
    <3>2. x.obj \notin Elements(h)
      <4>1. CASE g # h
        BY <3>1, <4>1 DEF OwnedOnce, Cached
      <4>2. CASE g = h /\ x \in told[h].sub
        <5>1. x.obj = sub[h] /\ sub[h] # None
          BY <3>1, <4>2, NoneAssumption DEF Told
        <5> QED  BY <5>1 DEF OwnedOnce, Distinct
      <4> QED  BY <2>5, <4>1, <4>2
    <3> QED  BY <1>8, <2>4, <3>1, <3>2
  <2>6. ASSUME NEW g \in Handles, NEW x \in told'[g].sub
        PROVE  x.obj = sub'[g] /\ body'[x.obj] = x.body
    BY <1>4, <2>1, <2>5, <2>6 DEF Told
  <2>7. ASSUME NEW g \in Handles, g # h, NEW x \in told'[g].vec
        PROVE  x.obj \in Elements(g)' /\ body'[x.obj] = x.body
    BY <1>11, <2>2, <2>5, <2>7 DEF Told
  <2>8. ASSUME NEW x \in told'[h].vec
        PROVE  x.obj \in Elements(h)' /\ body'[x.obj] = x.body
    <3>1. PICK j \in 1 .. n : x = Held(t[j], items[j])
      BY <2>3, <2>8
    <3>2. x.obj = t[j] /\ x.body = items[j]
      BY <3>1 DEF Held
    <3> QED  BY <1>5, <1>7, <1>10, <3>2, NoneAssumption
  <2> QED  BY <2>6, <2>7, <2>8 DEF Told
<1> QED  BY <1>9, <1>17, <1>18

-----------------------------------------------------------------------------
(* Creating and destroying. *)

\* What a destructor frees goes down with its owners: the smallest closed
\* set with one root in it has no other root, nothing that was dropped, and
\* the handle that caches any other object in it.
LEMMA FreesWhole ==
    ASSUME SInv, NEW o \in roots
    PROVE  /\ o \in Freed(o) /\ Freed(o) \subseteq Objs
           /\ Freed(o) \cap (roots \cup lost) = {o}
           /\ \A h \in Freed(o) : Cached(h) \subseteq Freed(o)
           /\ \A h \in Handles : h \notin Freed(o) => Cached(h) \cap Freed(o) = {}
<1> USE DEF SInv
<1> DEFINE Closed(C) == {o} \subseteq C /\ \A h \in C : Cached(h) \subseteq C
<1>1. \A x : x \in Freed(o) <=>
          x \in Objs /\ \A C \in SUBSET Objs : Closed(C) => x \in C
  BY DEF Freed, Below
<1> HIDE DEF Closed
<1>2. o \in Objs
  BY DEF Shapes, OwnedOnce
<1>3. o \in Freed(o) /\ Freed(o) \subseteq Objs
  BY <1>1, <1>2 DEF Closed
<1>4. ASSUME NEW h \in Freed(o), NEW x \in Cached(h)  PROVE x \in Freed(o)
  <2>1. h \in Handles /\ x \in Objs
    BY <1>3, <1>4, CachedIsObjects DEF Handles
  <2>2. ASSUME NEW C \in SUBSET Objs, Closed(C)  PROVE x \in C
    BY <1>1, <1>4, <2>2 DEF Closed
  <2> QED  BY <1>1, <2>1, <2>2
<1>5. Freed(o) \cap (roots \cup lost) = {o}
  <2> DEFINE C == (Objs \ (roots \cup lost)) \cup {o}
  <2>1. C \in SUBSET Objs
    BY <1>2
  <2>2. ASSUME NEW h \in C  PROVE Cached(h) \subseteq C
    <3>1. h \in Handles
      BY <2>1 DEF Handles
    <3>2. Cached(h) \subseteq Objs /\ Cached(h) \cap (roots \cup lost) = {}
      BY <3>1, CachedIsObjects DEF OwnedOnce
    <3> QED  BY <3>2
  <2>3. Closed(C)
    BY <2>2 DEF Closed
  <2>4. Freed(o) \subseteq C
    BY <1>1, <2>1, <2>3
  <2> QED  BY <1>3, <2>4
<1>6. ASSUME NEW h \in Handles, h \notin Freed(o), NEW x \in Cached(h),
             x \in Freed(o)
      PROVE  FALSE
  <2> DEFINE C == Freed(o) \ {x}
  <2>1. C \in SUBSET Objs
    BY <1>3
  <2>2. x # o
    BY <1>6 DEF OwnedOnce
  <2>3. ASSUME NEW g \in C  PROVE Cached(g) \subseteq C
    <3>1. g \in Handles /\ g # h /\ g \in Freed(o)
      BY <1>3, <1>6 DEF Handles
    <3>2. x \notin Cached(g)
      BY <1>6, <3>1 DEF OwnedOnce
    <3> QED  BY <1>4, <3>1, <3>2
  <2>4. Closed(C)
    BY <1>3, <2>2, <2>3 DEF Closed
  <2>5. x \in C
    BY <1>1, <1>6, <2>1, <2>4
  <2> QED  BY <2>5
<1> QED  BY <1>3, <1>4, <1>5, <1>6

\* A destructor leaves the pointers of no other object dangling.
LEMMA SInvDestroy ==
    ASSUME SInv, NEW o \in Objs, Destroy(o)  PROVE SInv'
<1> DEFINE gone == Freed(o)
<1>1. /\ o \in roots
      /\ live' = live \ gone
      /\ sub'  = [h \in Handles |-> IF h \in gone THEN None ELSE sub[h]]
      /\ vec'  = [h \in Handles |-> IF h \in gone THEN <<>> ELSE vec[h]]
      /\ told' = [h \in Handles |-> IF h \in gone THEN Nothing ELSE told[h]]
      /\ walks' = [i \in Iters |-> IF walks[i] \in gone THEN NoMsg ELSE walks[i]]
      /\ body' = [x \in Objs |-> IF x \in gone THEN Blank ELSE body[x]]
      /\ roots' = roots \ {o} /\ lost' = lost
  BY DEF Destroy
<1>2. /\ o \in gone /\ gone \subseteq Objs
      /\ gone \cap (roots \cup lost) = {o}
      /\ \A h \in gone : Cached(h) \subseteq gone
      /\ \A h \in Handles : h \notin gone => Cached(h) \cap gone = {}
  BY <1>1, FreesWhole
<1> HIDE DEF gone
<1> USE DEF SInv
<1>3. Shapes'
  <2>1. Blank \in Readable
    BY ContentsAssumption DEF Readable
  <2>2. body' \in [Objs -> Readable]
    BY <1>1, <2>1 DEF Shapes
  <2>3. sub' \in [Handles -> Pointer]
    BY <1>1 DEF Shapes, Pointer
  <2>4. vec' \in [Handles -> Seq(Pointer)]
    BY <1>1 DEF Shapes
  <2>5. told' \in [Handles -> [sub : SUBSET Results, vec : SUBSET Results]]
    BY <1>1 DEF Shapes, Nothing
  <2>6. walks' \in [Iters -> Objs \cup {NoIter, NoMsg}]
    BY <1>1 DEF Shapes
  <2> QED  BY <1>1, <2>2, <2>3, <2>4, <2>5, <2>6 DEF Shapes
<1>4. \A h \in Handles : h \in gone =>
        Elements(h)' = {} /\ Cached(h)' = {} /\ Distinct(h)' /\ told'[h] = Nothing
  BY <1>1 DEF Elements, Cached, Distinct
<1>5. \A h \in Handles : h \notin gone =>
        /\ sub'[h] = sub[h] /\ vec'[h] = vec[h] /\ told'[h] = told[h]
        /\ Elements(h)' = Elements(h) /\ Cached(h)' = Cached(h) /\ Distinct(h)'
  BY <1>1 DEF OwnedOnce, Elements, Cached, Distinct
<1>6. OwnedOnce'
  <2>1. \A x : x \in live' => x \in roots' \cup lost' \cup UNION {Cached(h)' : h \in Handles}
    BY <1>1, <1>2, <1>5 DEF OwnedOnce
  <2>2. \A h \in Handles : Cached(h)' \subseteq live'
    BY <1>1, <1>2, <1>4, <1>5 DEF OwnedOnce
  <2>3. roots' \subseteq live' /\ lost' \subseteq live' /\ roots' \cap lost' = {}
    BY <1>1, <1>2 DEF OwnedOnce
  <2>4. live' = roots' \cup lost' \cup UNION {Cached(h)' : h \in Handles}
    BY <2>1, <2>2, <2>3
  <2>5. \A h \in Handles :
          /\ Cached(h)' \cap (roots' \cup lost') = {}
          /\ \A g \in Handles : g # h => Cached(g)' \cap Cached(h)' = {}
          /\ Distinct(h)'
    BY <1>1, <1>4, <1>5 DEF OwnedOnce
  <2> QED  BY <2>3, <2>4, <2>5 DEF OwnedOnce
<1>7. Told'
  <2>1. ASSUME NEW h \in Handles, h \notin gone,
               NEW x \in told[h].sub \cup told[h].vec
        PROVE  body'[x.obj] = body[x.obj]
    <3>1. x.obj \in Cached(h) /\ x.obj \in Objs
      BY ToldIsCached, CachedIsObjects
    <3>2. x.obj \notin gone
      BY <1>2, <2>1, <3>1
    <3> QED  BY <1>1, <3>1, <3>2
  <2>2. ASSUME NEW h \in Handles, h \notin gone
        PROVE  /\ \A x \in told'[h].sub : x.obj = sub'[h] /\ body'[x.obj] = x.body
               /\ \A x \in told'[h].vec :
                    x.obj \in Elements(h)' /\ body'[x.obj] = x.body
    BY <1>5, <2>1, <2>2 DEF Told
  <2>3. \A h \in Handles : h \in gone => told'[h].sub = {} /\ told'[h].vec = {}
    BY <1>4 DEF Nothing
  <2> QED  BY <2>2, <2>3 DEF Told
<1> QED  BY <1>3, <1>6, <1>7

\* If what handles cache stays, so do ownership and what was told, whatever
\* becomes of the bodies of other objects.
LEMMA Untouched ==
    ASSUME SInv, Shapes', sub' = sub, vec' = vec, told' = told, OwnedOnce',
           \A h \in Handles : \A x \in Cached(h) : body'[x] = body[x]
    PROVE  SInv'
<1>1. \A h \in Handles : Elements(h)' = Elements(h)
  BY DEF Elements
<1>2. ASSUME NEW h \in Handles, NEW x \in told[h].sub \cup told[h].vec
      PROVE  body'[x.obj] = x.body
  BY ToldIsCached
<1>3. Told'
  BY <1>1, <1>2 DEF Told, SInv
<1> QED  BY <1>3 DEF SInv

LEMMA SInvCreate ==
    ASSUME SInv, NEW o \in Objs, Create(o)  PROVE SInv'
<1> USE DEF SInv
<1>1. /\ o \notin live /\ live' = live \cup {o} /\ roots' = roots \cup {o}
      /\ body' = [body EXCEPT ![o] = Blank]
      /\ sub' = sub /\ vec' = vec /\ walks' = walks /\ lost' = lost /\ told' = told
  BY DEF Create
<1>2. Blank \in Readable
  BY ContentsAssumption DEF Readable
<1>3. Shapes'
  BY <1>1, <1>2 DEF Shapes, Handles
<1>4. \A h \in Handles : Cached(h)' = Cached(h) /\ Distinct(h)'
  BY <1>1 DEF OwnedOnce, Cached, Elements, Distinct
<1>5. OwnedOnce'
  BY <1>1, <1>4 DEF OwnedOnce
<1>6. \A h \in Handles : \A x \in Cached(h) : body'[x] = body[x]
  <2> SUFFICES ASSUME NEW h \in Handles, NEW x \in Cached(h)
               PROVE  body'[x] = body[x]
    OBVIOUS
  <2>1. x \in live /\ x \in Objs
    BY DEF OwnedOnce, Shapes
  <2> QED  BY <1>1, <2>1 DEF Shapes
<1> QED  BY <1>1, <1>3, <1>5, <1>6, Untouched

LEMMA SInvPut ==
    ASSUME SInv, NEW o \in Objs, NEW c \in Contents, Put(o, c)  PROVE SInv'
<1> USE DEF SInv
<1>1. /\ o \in roots /\ c \notin Unreadable
      /\ body' = [body EXCEPT ![o] = c]
      /\ live' = live /\ roots' = roots
      /\ sub' = sub /\ vec' = vec /\ walks' = walks /\ lost' = lost /\ told' = told
  BY DEF Put
<1>2. Shapes'
  BY <1>1 DEF Shapes, Handles, Readable
<1>3. OwnedOnce'
  <2>1. \A h \in Handles : Cached(h)' = Cached(h) /\ Distinct(h)'
    BY <1>1 DEF OwnedOnce, Cached, Elements, Distinct
  <2> QED  BY <1>1, <2>1 DEF OwnedOnce
<1>4. \A h \in Handles : \A x \in Cached(h) : body'[x] = body[x]
  BY <1>1 DEF OwnedOnce, Shapes
<1> QED  BY <1>1, <1>2, <1>3, <1>4, Untouched

-----------------------------------------------------------------------------
(* Iterators and apply. *)

\* An iterator takes its handle along to another message.
LEMMA SInvWalk ==
    ASSUME SInv, NEW i \in Iters, NEW o \in Objs,
           IterCreate(i, o) \/ Associate(i, o)
    PROVE  SInv'
<1> USE DEF SInv
<1>1. /\ walks' = [walks EXCEPT ![i] = o]
      /\ live' = live /\ roots' = roots /\ body' = body
      /\ sub' = sub /\ vec' = vec /\ lost' = lost /\ told' = told
  BY DEF IterCreate, Associate
<1>2. Shapes'
  BY <1>1 DEF Shapes, Handles
<1>3. OwnedOnce'
  BY <1>1 DEF OwnedOnce, Cached, Elements, Distinct
<1> QED  BY <1>1, <1>2, <1>3, Untouched

\* What an iterator cached is nobody's once it is freed.
LEMMA SInvIterDestroy ==
    ASSUME SInv, NEW i \in Iters, IterDestroy(i)  PROVE SInv'
<1> USE DEF SInv
<1>1. /\ walks' = [walks EXCEPT ![i] = NoIter]
      /\ lost' = lost \cup Cached(i)
      /\ sub' = [sub EXCEPT ![i] = None]
      /\ vec' = [vec EXCEPT ![i] = <<>>]
      /\ told' = [told EXCEPT ![i] = Nothing]
      /\ live' = live /\ roots' = roots /\ body' = body
  BY DEF IterDestroy
<1>2. i \in Handles
  BY DEF Handles
<1>3. Shapes'
  <2>1. sub' \in [Handles -> Pointer]
    BY <1>1 DEF Shapes, Pointer
  <2>2. <<>> \in Seq(Pointer) /\ vec \in [Handles -> Seq(Pointer)]
    BY DEF Shapes
  <2>3. vec' \in [Handles -> Seq(Pointer)]
    BY <1>1, <2>2
  <2>4. told' \in [Handles -> [sub : SUBSET Results, vec : SUBSET Results]]
    BY <1>1 DEF Shapes, Nothing
  <2> QED  BY <1>1, <2>1, <2>3, <2>4 DEF Shapes
<1>4. /\ Elements(i)' = {} /\ Cached(i)' = {} /\ Distinct(i)'
      /\ told'[i].sub = {} /\ told'[i].vec = {}
  BY <1>1, <1>2 DEF Shapes, Elements, Cached, Distinct, Nothing
<1>5. \A h \in Handles : h # i =>
        /\ sub'[h] = sub[h] /\ vec'[h] = vec[h] /\ told'[h] = told[h]
        /\ Elements(h)' = Elements(h) /\ Cached(h)' = Cached(h) /\ Distinct(h)'
  BY <1>1, <1>2 DEF Shapes, OwnedOnce, Elements, Cached, Distinct
<1>6. OwnedOnce'
  <2>1. live' = roots' \cup lost' \cup UNION {Cached(h)' : h \in Handles}
    BY <1>1, <1>2, <1>4, <1>5 DEF OwnedOnce
  <2>2. roots' \cap lost' = {}
    BY <1>1, <1>2 DEF OwnedOnce
  <2>3. \A h \in Handles :
          /\ Cached(h)' \cap (roots' \cup lost') = {}
          /\ \A g \in Handles : g # h => Cached(g)' \cap Cached(h)' = {}
          /\ Distinct(h)'
    BY <1>1, <1>2, <1>4, <1>5 DEF OwnedOnce
  <2> QED  BY <2>1, <2>2, <2>3 DEF OwnedOnce
<1>7. Told'
  BY <1>1, <1>4, <1>5 DEF Told
<1> QED  BY <1>3, <1>6, <1>7

\* apply drops one object, and leaves alone what handles cache.
LEMMA SInvApply ==
    ASSUME SInv, NEW dst \in Objs, NEW src \in Objs, Apply(dst, src)
    PROVE  SInv'
<1> USE DEF SInv
<1> DEFINE merged == Merged(body[dst], body[src])
<1>1. /\ dst \in roots /\ src \in Usable /\ merged \in Readable
      /\ \A k \in MsgKeys(body[src]) :
            body[src].fields[k].items[1] \notin Unreadable
      /\ roots' = roots /\ sub' = sub /\ vec' = vec /\ walks' = walks
      /\ told' = told
  BY DEF Apply, Readable
<1>2. \A h \in Handles : Cached(h)' = Cached(h) /\ Distinct(h)'
  BY <1>1 DEF OwnedOnce, Cached, Elements, Distinct
<1>3. \A h \in Handles : \A x \in Cached(h) : x \in live /\ x # dst /\ x \in Objs
  BY <1>1 DEF OwnedOnce, Shapes
<1>4. CASE MsgKeys(body[src]) = {}
  <2>1. /\ body' = [body EXCEPT ![dst] = merged]
        /\ live' = live /\ lost' = lost
    BY <1>4 DEF Apply
  <2> HIDE DEF merged
  <2>2. Shapes'
    BY <1>1, <2>1 DEF Shapes, Handles
  <2>3. OwnedOnce'
    BY <1>1, <1>2, <2>1 DEF OwnedOnce
  <2>4. \A h \in Handles : \A x \in Cached(h) : body'[x] = body[x]
    BY <1>3, <2>1 DEF Shapes
  <2> QED  BY <1>1, <2>2, <2>3, <2>4, Untouched
<1>5. CASE MsgKeys(body[src]) # {}
  <2>1. PICK o \in Objs \ live, k \in MsgKeys(body[src]) :
          /\ body' = [body EXCEPT ![dst] = merged,
                                  ![o] = body[src].fields[k].items[1]]
          /\ live' = live \cup {o} /\ lost' = lost \cup {o}
    BY <1>5 DEF Apply
  <2> DEFINE c == body[src].fields[k].items[1]
  <2>2. c \in Readable
    <3>1. body[src] \in Contents
      BY <1>1 DEF Shapes, Readable
    <3>2. /\ k \in DOMAIN body[src].fields
          /\ body[src].fields[k].type = "MSG"
      BY <2>1 DEF MsgKeys
    <3>3. /\ body[src].fields[k].items \in Seq(Contents)
          /\ Len(body[src].fields[k].items) = 1
      BY <3>1, <3>2, ContentsAssumption
    <3> QED  BY <1>1, <2>1, <3>3 DEF Readable
  <2> HIDE DEF c, merged
  <2>3. body' = [body EXCEPT ![dst] = merged, ![o] = c]
    BY <2>1 DEF c
  <2>4. Shapes'
    BY <1>1, <2>1, <2>2, <2>3 DEF Shapes, Handles
  <2>5. OwnedOnce'
    BY <1>1, <1>2, <2>1 DEF OwnedOnce
  <2>6. \A h \in Handles : \A x \in Cached(h) : body'[x] = body[x]
    BY <1>3, <2>1, <2>3 DEF Shapes
  <2> QED  BY <1>1, <2>4, <2>5, <2>6, Untouched
<1> QED  BY <1>4, <1>5

-----------------------------------------------------------------------------
(* The invariant and the theorems. *)

\* At the start nothing is allocated.
LEMMA SInvInit == Init => SInv
<1> SUFFICES ASSUME Init  PROVE SInv
  OBVIOUS
<1>1. Blank \in Readable
  BY ContentsAssumption DEF Readable
<1>2. Shapes
  BY <1>1 DEF Init, Shapes, Pointer, Nothing
<1>3. \A h \in Handles : Elements(h) = {} /\ Cached(h) = {} /\ Distinct(h)
  BY DEF Init, Elements, Cached, Distinct
<1>4. OwnedOnce
  BY <1>3 DEF Init, OwnedOnce
<1>5. Told
  BY DEF Init, Told, Nothing
<1> QED  BY <1>2, <1>4, <1>5 DEF SInv

LEMMA SInvNext == SInv /\ [Next]_vars => SInv'
<1> SUFFICES ASSUME SInv, [Next]_vars  PROVE SInv'
  OBVIOUS
<1>1. CASE UNCHANGED vars
  <2>1. /\ live' = live /\ roots' = roots /\ lost' = lost /\ body' = body
        /\ sub' = sub /\ vec' = vec /\ told' = told /\ walks' = walks
    BY <1>1 DEF vars
  <2>2. \A h \in Handles : Cached(h)' = Cached(h) /\ Distinct(h)'
    BY <2>1 DEF SInv, OwnedOnce, Cached, Elements, Distinct
  <2>3. OwnedOnce'
    BY <2>1, <2>2 DEF SInv, OwnedOnce
  <2>4. Shapes'
    BY <2>1 DEF SInv, Shapes, Handles
  <2> QED  BY <2>1, <2>3, <2>4, Untouched
<1>2. ASSUME NEW o \in Objs, Create(o) \/ Destroy(o)  PROVE SInv'
  BY <1>2, SInvCreate, SInvDestroy
<1>3. ASSUME NEW o \in Objs, NEW c \in Contents, Put(o, c)  PROVE SInv'
  BY <1>3, SInvPut
<1>4. ASSUME NEW h \in Handles, NEW k \in Keys, GetMsg(h, k) \/ GetVectorMsg(h, k)
      PROVE  SInv'
  BY <1>4, SInvGetMsg, SInvGetVectorMsg
<1>5. ASSUME NEW i \in Iters, NEW o \in Objs, IterCreate(i, o) \/ Associate(i, o)
      PROVE  SInv'
  BY <1>5, SInvWalk
<1>6. ASSUME NEW i \in Iters, IterDestroy(i)  PROVE SInv'
  BY <1>6, SInvIterDestroy
<1>7. ASSUME NEW dst \in Objs, NEW src \in Objs, Apply(dst, src)  PROVE SInv'
  BY <1>7, SInvApply
<1> QED  BY <1>1, <1>2, <1>3, <1>4, <1>5, <1>6, <1>7 DEF Next

LEMMA SInvAlways == Spec => []SInv
<1> QED  BY SInvInit, SInvNext, PTL DEF Spec

\* No object ever holds what it could not read, and pointers point at
\* objects (setByteBuffer refuses before it changes anything).
THEOREM SubTypeCorrect == Spec => []SubTypeOK
<1>1. SInv => SubTypeOK
  <2> SUFFICES ASSUME SInv  PROVE SubTypeOK
    OBVIOUS
  <2>1. \A h \in Handles : Cached(h) \subseteq Objs
    BY CachedIsObjects DEF SInv
  <2> QED  BY <2>1 DEF SInv, Shapes, OwnedOnce, SubTypeOK, Readable
<1> QED  BY <1>1, SInvAlways, PTL

\* Every payload object has one owner, whatever is read, walked, applied and
\* destroyed in whatever order: none is freed twice, and no handle keeps a
\* pointer to one that is gone.
THEOREM OwnersStayUnique == Spec => []OwnedOnce
<1>1. SInv => OwnedOnce
  BY DEF SInv
<1> QED  BY <1>1, SInvAlways, PTL

\* The message that getMsg or getVectorMsg returned is there, and holds what
\* was in the field, until the next read of its kind through its handle.
THEOREM ResultsStayValid == Spec => []ResultsStand
<1>1. SInv => ResultsStand
  BY ToldIsCached DEF ResultsStand
<1> QED  BY <1>1, SInvAlways, PTL

=============================================================================
