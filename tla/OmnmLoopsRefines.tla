-------------------------- MODULE OmnmLoopsRefines --------------------------
(***************************************************************************)
(* The loops of OmnmLoops implement the calls of OmnmMerge: while apply    *)
(* runs, its destination counts as what it was, and the merge happens when *)
(* apply returns.                                                          *)
(***************************************************************************)
EXTENDS OmnmLoops

Content ==
    [m \in Msgs |->
        SeenFields(IF Applying /\ m = job.dst THEN job.before ELSE msg[m])]

Merge == INSTANCE OmnmMerge WITH
    content <- Content, ret <- ret,
    EmptySub <- [type |-> "MSG", len |-> HeaderV1Size, val |-> EmptyMsg]

\* A call of apply does to the fields of the destination what merging two
\* sequences does, whatever the updates it consists of find, resize, move or
\* refuse on the way, and although what it reads of a field goes through a
\* name and a payload that the field before may have left behind.  Everything
\* a client does in a callback of iterateFields is a call of its own.
ImplementsMerge == Merge!Spec

=============================================================================
