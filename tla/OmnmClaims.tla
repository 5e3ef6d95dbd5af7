----------------------------- MODULE OmnmClaims -----------------------------
(***************************************************************************)
(* What comments in the code, and the benchmark beside it, say that it     *)
(* does, and that it does not: a run refutes it.                           *)
(***************************************************************************)
EXTENDS OmnmPayload

\* Payload.cpp:900, "Do not attempt self copy", and Benchmarker.cpp:108,
\* which serializes and unserializes one message over and over: a message
\* unserialized from its own bytes has the fields it had.
SelfCopyKeepsMessage ==
    [][\A m \in Msgs :
        Live(m) /\ ret'.op = "copySelf" => pay'[m].at = pay[m].at]_vars

=============================================================================
