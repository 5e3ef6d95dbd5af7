------------------------------ MODULE MCClaims ------------------------------
(* Instances of OmnmClaims for TLC. *)
EXTENDS MCPayload, OmnmClaims
=============================================================================
