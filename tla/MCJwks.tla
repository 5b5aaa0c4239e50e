------------------------------ MODULE MCJwks ------------------------------
(* Jwks on small instances: two handlers, one key id in every key set.     *)
EXTENDS Jwks

CONSTANTS r1, r2

MCRequest == {r1, r2}
MCOneKid == {"k1"}
MCNone == {}
=============================================================================
