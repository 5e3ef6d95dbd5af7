---------------------------- MODULE OmnmSubMessage ----------------------------
(***************************************************************************)
(* Messages inside messages.  Reading a message or a vector of messages    *)
(* out of a field makes payload objects that the reader does not own: they *)
(* are cached in the handle the field was read through, overwritten by the *)
(* next read through that handle, and freed with it.  A payload object has *)
(* such a handle itself (mField), so what is cached can be read in turn,   *)
(* and the objects form a forest.                                          *)
(*                                                                         *)
(* The handle of an iterator is freed without what it caches, and so is    *)
(* the handle that apply keeps on its stack: lost says what was dropped.   *)
(*                                                                         *)
(* Contents are abstract: a text, and the messages in the fields of each   *)
(* key.  Clients read sub-messages and do not write to them, and do not    *)
(* use what a handle returned once they have read through it again or      *)
(* destroyed it.                                                           *)
(***************************************************************************)
EXTENDS Naturals, Sequences

CONSTANTS
    Objs,        \* payload objects
    Iters,       \* iterators
    Contents,    \* what a message can hold: [text, fields]
    Blank,       \* the content of a new message
    Unreadable,  \* contents in a later version of the format
    None,        \* a null pointer
    NoIter,      \* the iterator does not exist
    NoMsg        \* the message it was on does not

ASSUME NoneAssumption == None \notin Objs

ASSUME ContentsAssumption ==
    /\ Blank \in Contents \ Unreadable /\ Unreadable \subseteq Contents
    /\ DOMAIN Blank.fields = {}
    /\ \A c \in Contents : \A k \in DOMAIN c.fields :
        LET f == c.fields[k] IN
        /\ f.type \in {"MSG", "VECTOR_MSG"}
        /\ f.items \in Seq(Contents)
        /\ f.type = "MSG" => Len(f.items) = 1

VARIABLES
    live,   \* the objects that are allocated
    roots,  \* those that clients own
    body,   \* what each object holds
    sub,    \* mSubPayload of each handle
    vec,    \* mVectorPayload of each handle
    walks,  \* the message each iterator is on
    lost,   \* objects whose owner is gone
    told    \* what clients were last told through each handle

vars == <<live, roots, body, sub, vec, walks, lost, told>>

Handles == Objs \cup Iters

\* What a client holds: an object, and what was in the field it asked for.
Nothing      == [sub |-> {}, vec |-> {}]
Held(o, c)   == [obj |-> o, body |-> c]

-----------------------------------------------------------------------------
(* Ownership. *)

Elements(h) == {vec[h][j] : j \in DOMAIN vec[h]} \ {None}

Cached(h) == ({sub[h]} \ {None}) \cup Elements(h)

\* The objects S and all that are freed with them: the smallest set with S
\* that has what its objects cache.
Below(S) ==
    {o \in Objs : \A C \in SUBSET Objs :
        S \subseteq C /\ (\A h \in C : Cached(h) \subseteq C) => o \in C}

\* The destructor cleans up mField, and with it every object cached there.
Freed(o) == Below({o})

\* What a client may use: its own messages and the results that stand.
Usable ==
    roots \cup {x.obj : x \in UNION {told[h].sub \cup told[h].vec : h \in Handles}}

MessageOf(h) == IF h \in Objs THEN h ELSE walks[h]

-----------------------------------------------------------------------------
(* Messages. *)

Create(o) ==
    /\ o \notin live
    /\ live' = live \cup {o} /\ roots' = roots \cup {o}
    /\ body' = [body EXCEPT ![o] = Blank]
    /\ UNCHANGED <<sub, vec, walks, lost, told>>

Destroy(o) ==
    /\ o \in roots
    /\ LET gone == Freed(o) IN
       /\ live' = live \ gone
       /\ sub'  = [h \in Handles |-> IF h \in gone THEN None ELSE sub[h]]
       /\ vec'  = [h \in Handles |-> IF h \in gone THEN <<>> ELSE vec[h]]
       /\ told' = [h \in Handles |-> IF h \in gone THEN Nothing ELSE told[h]]
       /\ walks' = [i \in Iters |-> IF walks[i] \in gone THEN NoMsg ELSE walks[i]]
       /\ body' = [x \in Objs |-> IF x \in gone THEN Blank ELSE body[x]]
    /\ roots' = roots \ {o}
    /\ UNCHANGED lost

\* Any call that leaves other fields in a message: the handle keeps its
\* caches.
Put(o, c) ==
    /\ o \in roots /\ c \notin Unreadable
    /\ body' = [body EXCEPT ![o] = c]
    /\ UNCHANGED <<live, roots, sub, vec, walks, lost, told>>

-----------------------------------------------------------------------------
(* Reading a field that holds a message. *)

CanRead(h, k, type) ==
    /\ h \in Usable \/ (h \in Iters /\ walks[h] \in Usable)
    /\ k \in DOMAIN body[MessageOf(h)].fields
    /\ body[MessageOf(h)].fields[k].type = type

\* Slip: the bytes are taken over before their version is looked at.
After_Unchecked(old, c) == c

\* What an object holds after setByteBuffer of c: a version that cannot be
\* read is refused before anything is changed.
After(old, c) == IF c \in Unreadable THEN old ELSE c

\* Slip: what the handle has cached is returned as it is.
GetMsg_Stale(h, k) ==
    /\ CanRead(h, k, "MSG")
    /\ LET c == body[MessageOf(h)].fields[k].items[1] IN
       \E o \in IF sub[h] = None THEN Objs \ live ELSE {sub[h]} :
        /\ live' = live \cup {o}
        /\ sub' = [sub EXCEPT ![h] = o]
        /\ body' = [body EXCEPT ![o] = IF sub[h] = None THEN After(@, c) ELSE @]
        /\ told' = IF c \in Unreadable THEN told
                   ELSE [told EXCEPT ![h].sub = {Held(o, c)}]
    /\ UNCHANGED <<roots, vec, walks, lost>>

\* The object is made by the first read and overwritten by the others.  It
\* is there, and returned, also if the read fails.
GetMsg(h, k) ==
    /\ CanRead(h, k, "MSG")
    /\ LET c == body[MessageOf(h)].fields[k].items[1] IN
       \E o \in IF sub[h] = None THEN Objs \ live ELSE {sub[h]} :
        /\ live' = live \cup {o}
        /\ sub' = [sub EXCEPT ![h] = o]
        /\ body' = [body EXCEPT ![o] = After(@, c)]
        /\ told' = IF c \in Unreadable THEN told
                   ELSE [told EXCEPT ![h].sub = {Held(o, c)}]
    /\ UNCHANGED <<roots, vec, walks, lost>>

\* A client reads vectors all of whose messages can be read: the status says
\* only how the last one fared.
ReadableVector(f) == \A j \in DOMAIN f.items : f.items[j] \notin Unreadable

\* Slip: the room for the pointers is cut to what is needed.
Roomy_Exact(s, n) == [j \in 1 .. n |-> IF j \in DOMAIN s THEN s[j] ELSE None]

\* The pointers after room for n has been made: new room is null.
Roomy(s, n) == [j \in 1 .. (IF n > Len(s) THEN n ELSE Len(s)) |->
                    IF j \in DOMAIN s THEN s[j] ELSE None]

\* An object for each of the first n pointers: those that are there, and
\* different new ones.
Filled(s, n) ==
    {t \in [DOMAIN s -> (Objs \ live) \cup {s[j] : j \in DOMAIN s}] :
        /\ \A j \in DOMAIN s :
            IF s[j] # None \/ j > n THEN t[j] = s[j] ELSE t[j] \in Objs \ live
        /\ \A i, j \in 1 .. n : i # j => t[i] # t[j]}

GetVectorMsg(h, k) ==
    /\ CanRead(h, k, "VECTOR_MSG")
    /\ LET f == body[MessageOf(h)].fields[k]
           n == Len(f.items)
       IN
       /\ ReadableVector(f)
       /\ \E t \in Filled(Roomy(vec[h], n), n) :
           /\ vec' = [vec EXCEPT ![h] = t]
           /\ live' = live \cup {t[j] : j \in 1 .. n}
           /\ body' = [o \in Objs |->
                IF \E j \in 1 .. n : t[j] = o
                THEN f.items[CHOOSE j \in 1 .. n : t[j] = o] ELSE body[o]]
           /\ told' = [told EXCEPT
                ![h].vec = {Held(t[j], f.items[j]) : j \in 1 .. n}]
    /\ UNCHANGED <<roots, sub, walks, lost>>

-----------------------------------------------------------------------------
(* Iterators and apply. *)

\* The rule for an iterator: it does not walk a message that its own handle
\* caches, whose bytes the next read would wipe before it takes them over.
MayWalk(i, o) == o \in Usable \ Below(Cached(i))

\* Bound: what is dropped leaves an object to be allocated.
LeavesRoom(dropped) == Below(lost \cup dropped) # Objs

IterCreate(i, o) ==
    /\ walks[i] = NoIter /\ MayWalk(i, o)
    /\ walks' = [walks EXCEPT ![i] = o]
    /\ UNCHANGED <<live, roots, body, sub, vec, lost, told>>

\* The handle moves to the other message with what it caches.
Associate(i, o) ==
    /\ walks[i] # NoIter /\ MayWalk(i, o)
    /\ walks' = [walks EXCEPT ![i] = o]
    /\ UNCHANGED <<live, roots, body, sub, vec, lost, told>>

\* The iterator is freed, and its handle with it, without cleaning up.
IterDestroy(i) ==
    /\ walks[i] # NoIter /\ LeavesRoom(Cached(i))
    /\ walks' = [walks EXCEPT ![i] = NoIter]
    /\ lost' = lost \cup Cached(i)
    /\ sub' = [sub EXCEPT ![i] = None]
    /\ vec' = [vec EXCEPT ![i] = <<>>]
    /\ told' = [told EXCEPT ![i] = Nothing]
    /\ UNCHANGED <<live, roots, body>>

\* The fields that hold one message; apply passes on no others.
MsgKeys(c) == {k \in DOMAIN c.fields : c.fields[k].type = "MSG"}

\* A message that is there under a key of another type refuses the update.
Merged(d, c) ==
    LET keys == {k \in MsgKeys(c) : k \in DOMAIN d.fields => k \in MsgKeys(d)}
    IN  [text   |-> c.text,
         fields |-> [k \in DOMAIN d.fields \cup keys |->
                        IF k \in keys THEN c.fields[k] ELSE d.fields[k]]]

\* The messages in the fields of the source are read through one handle on
\* the stack, which goes without cleaning up.
Apply(dst, src) ==
    /\ dst \in roots /\ src \in Usable /\ dst # src
    /\ Merged(body[dst], body[src]) \in Contents \ Unreadable
    /\ \A k \in MsgKeys(body[src]) : body[src].fields[k].items[1] \notin Unreadable
    /\ IF MsgKeys(body[src]) = {}
       THEN /\ body' = [body EXCEPT ![dst] = Merged(@, body[src])]
            /\ UNCHANGED <<live, lost>>
       ELSE \E o \in Objs \ live, k \in MsgKeys(body[src]) :
            /\ LeavesRoom({o})
            /\ body' = [body EXCEPT ![dst] = Merged(@, body[src]),
                                    ![o] = body[src].fields[k].items[1]]
            /\ live' = live \cup {o}
            /\ lost' = lost \cup {o}
    /\ UNCHANGED <<roots, sub, vec, walks, told>>

-----------------------------------------------------------------------------

Init ==
    /\ live = {} /\ roots = {} /\ lost = {}
    /\ body  = [o \in Objs |-> Blank]
    /\ sub   = [h \in Handles |-> None]
    /\ vec   = [h \in Handles |-> <<>>]
    /\ walks = [i \in Iters |-> NoIter]
    /\ told  = [h \in Handles |-> Nothing]

Keys == UNION {DOMAIN c.fields : c \in Contents}

Next ==
    \/ \E o \in Objs : Create(o) \/ Destroy(o)
    \/ \E o \in Objs, c \in Contents : Put(o, c)
    \/ \E h \in Handles, k \in Keys : GetMsg(h, k) \/ GetVectorMsg(h, k)
    \/ \E i \in Iters, o \in Objs : IterCreate(i, o) \/ Associate(i, o)
    \/ \E i \in Iters : IterDestroy(i)
    \/ \E dst, src \in Objs : Apply(dst, src)

Spec == Init /\ [][Next]_vars

-----------------------------------------------------------------------------
(* Properties. *)

\* No object ever holds a message it could not read, also after reads that
\* failed.
SubTypeOK ==
    /\ roots \subseteq live /\ lost \subseteq live /\ live \subseteq Objs
    /\ \A o \in Objs : body[o] \in Contents \ Unreadable
    /\ \A h \in Handles : Cached(h) \subseteq Objs
    /\ \A i \in Iters : walks[i] \in Objs \cup {NoIter, NoMsg}

\* No handle points at an object twice.
Distinct(h) ==
    /\ sub[h] = None \/ sub[h] \notin Elements(h)
    /\ \A i, j \in DOMAIN vec[h] :
        i # j /\ vec[h][i] = vec[h][j] => vec[h][i] = None

\* Every object that is allocated has one owner that will free it, or was
\* dropped by an iterator or by apply; none that has been freed is still
\* referred to.  With two owners it would be freed twice.
OwnedOnce ==
    /\ live = roots \cup lost \cup UNION {Cached(h) : h \in Handles}
    /\ roots \cap lost = {}
    /\ \A h \in Handles :
        /\ Cached(h) \cap (roots \cup lost) = {}
        /\ \A g \in Handles : g # h => Cached(g) \cap Cached(h) = {}
        /\ Distinct(h)

\* A result stands until the next read of its kind through its handle: it is
\* allocated, and holds what was in the field that was asked for, whatever
\* was read through other handles, put into the message, or destroyed.
ResultsStand ==
    \A h \in Handles : \A x \in told[h].sub \cup told[h].vec :
        x.obj \in live /\ body[x.obj] = x.body

=============================================================================
