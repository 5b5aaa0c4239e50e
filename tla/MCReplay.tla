----------------------------- MODULE MCReplay -----------------------------
(* Replay on small instances: "early" and "late" carry the same jti and    *)
(* expire at different times, "other" has a jti of its own.                *)
EXTENDS Replay

CONSTANTS r1, r2

MCRequest == {r1, r2}
MCTokens == {"early", "late"}
MCTokensAndOther == {"early", "other"}
MCIds == {"j", "k"}
MCIdOf == [t \in Token |-> IF t = "other" THEN "k" ELSE "j"]
MCExpOf == [t \in Token |-> IF t = "late" THEN 2 ELSE 1]
=============================================================================
