------------------------- MODULE OmnmPayloadRefines -------------------------
(***************************************************************************)
(* The buffers of OmnmPayload implement the messages of OmnmMessage: a     *)
(* message is the sequence of fields a walk of its buffer meets.           *)
(***************************************************************************)
EXTENDS OmnmPayload

CONSTANT Lost   \* the contents of a message lost to an allocation failure

Content ==
    [m \in Msgs |->
        IF ~Live(m) THEN NoPayload
        ELSE IF m \in torn THEN Lost ELSE SeenFields(pay[m])]

Sent == IF wire = NoWire THEN NoWire ELSE SeenFields(wire)

Readable(img) ==
    [readable |-> img.ver <= OmnmProtocolVersion, fields |-> SeenFields(img)]

Message == INSTANCE OmnmMessage WITH
    content <- Content, sent <- Sent, ret <- ret,
    Incoming <- {Readable(img) : img \in ForeignWire},
    NoMsg <- NoPayload, NothingSent <- NoWire

\* Every call on a buffer does to the fields of the message, and returns to
\* the caller, what the same call does on the sequence of fields: resizing
\* in place, the first-match lookup, growth, the header and the copies are
\* not visible through the interface.
ImplementsMessage == Message!Spec

=============================================================================
