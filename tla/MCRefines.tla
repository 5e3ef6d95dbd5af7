------------------------------ MODULE MCRefines ------------------------------
(* Instances of OmnmPayloadRefines for TLC. *)
EXTENDS MCPayload, OmnmPayloadRefines
=============================================================================
