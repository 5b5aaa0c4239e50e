----------------------------- MODULE MCDecode -----------------------------
(* The pure functions on small inputs: every input of the decoder, and     *)
(* every request of the filter.  The bytes are A, b, _, = and +; "users"   *)
(* is longer than "dev" and "ops".                                         *)
EXTENDS Base64url, GroupFilter

MCByte == {65, 98, 95, 61, 43}
MCGroup == {"dev", "ops", "users"}
MCLengthOf == [g \in MCGroup |-> IF g = "users" THEN 5 ELSE 3]

MCInit == Init /\ request \in Requests /\ (request = Absent \/ input = <<>>)
MCNext == Next /\ UNCHANGED request

MCSpec == MCInit /\ [][MCNext]_<<vars, request>>
=============================================================================
