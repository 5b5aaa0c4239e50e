--------------------------- MODULE ReplayLease ---------------------------
(***************************************************************************)
(* What replay protection promises: an accepted exchange takes a lease on  *)
(* its replay id until the inbound token expires, and none is granted      *)
(* while a live one conflicts with it, under the mode the service is in.   *)
(* Checking and taking are one step here; Replay.tla does them with a      *)
(* table, separate statements, a background purge and restarts.  Leases    *)
(* are kept in the order they were granted, so that granting one again is  *)
(* a step like any other and may not happen unseen.                        *)
(***************************************************************************)
EXTENDS Naturals, Sequences

CONSTANTS ReplayId,   \* jti claims and token hashes
          Expiry,     \* instants at which inbound tokens expire
          MaxClock    \* last instant a behaviour reaches

VARIABLES now,        \* seconds
          strict,     \* the mode the service is in
          leases      \* leases granted, in the order they were

leaseVars == <<now, strict, leases>>

Live(l) == l.exp >= now

(* A strict exchange conflicts with every variant of its replay id, any    *)
(* other only with its own variant.                                        *)
Conflicts(l, m) == l.jti = m.jti /\ (strict \/ l.hasGroups = m.hasGroups)

LeaseInit == now = 0 /\ leases = <<>> /\ strict \in BOOLEAN

Grant(l) ==
    /\ \A i \in DOMAIN leases : Live(leases[i]) => ~Conflicts(l, leases[i])
    /\ leases' = Append(leases, l)
    /\ UNCHANGED <<now, strict>>

SwitchMode ==
    /\ strict' = ~strict
    /\ UNCHANGED <<now, leases>>

Elapse ==
    /\ now < MaxClock
    /\ now' = now + 1
    /\ UNCHANGED <<strict, leases>>

LeaseNext ==
    \/ \E jti \in ReplayId, hasGroups \in BOOLEAN, exp \in Expiry :
          Grant([jti |-> jti, hasGroups |-> hasGroups, exp |-> exp])
    \/ SwitchMode
    \/ Elapse

LeaseSpec == LeaseInit /\ [][LeaseNext]_leaseVars
=============================================================================
