-------------------------------- MODULE MCText --------------------------------
(* An instance of OmnmText for TLC. *)
EXTENDS OmnmText

CONSTANT idle

\* Without and with a name; no fid, one of one digit and the largest; short
\* values and values that do not fit; each kind of value.
SomeFields ==
    [name : {0, 3}, fid : {0, 65535}, kind : {"STRING"}, len : {0, 40}]
        \cup [name : {0}, fid : {7}, kind : {"VECTOR", "OPAQUE", "NESTED"}, len : {40}]

=============================================================================
