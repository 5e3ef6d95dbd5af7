----------------------------- MODULE OmnmFields -----------------------------
(***************************************************************************)
(* A message with no bytes in sight: a sequence of fields, in which a      *)
(* lookup finds the first that matches.  A field keeps the type it was     *)
(* added with; an update may hand it a value of any type that casts to it. *)
(***************************************************************************)
EXTENDS OmnmFormat, Sequences

Field(name, fid, in) ==
    [type |-> in.type, fid |-> fid, name |-> StoredName(name), data |-> in]

Hits(s, name, fid) == {i \in DOMAIN s : Matches(s[i], name, fid)}

First(s, name, fid) ==
    CHOOSE i \in Hits(s, name, fid) : \A j \in Hits(s, name, fid) : i <= j

Fits(t, in) == t = in.type \/ Castable(t, in.type)

=============================================================================
