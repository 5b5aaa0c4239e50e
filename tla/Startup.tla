------------------------------ MODULE Startup ------------------------------
(***************************************************************************)
(* bootstrap: the database, discovery of the JWKS URI with its backoff,    *)
(* the JWKS, then the key pair of SigningKeys, then service.  Any error    *)
(* ends the process and the container starts it again, while the IdP comes *)
(* and goes.                                                               *)
(***************************************************************************)
EXTENDS SigningKeys

CONSTANTS MaxWait,     \* 60 s
          MaxBackoff,  \* 30 s
          MaxOutages   \* bound on the outages of the IdP

ASSUME StartupAssumption ==
    /\ MaxWait \in Nat
    /\ MaxBackoff \in Nat \ {0}
    /\ MaxOutages \in Nat

VARIABLES boot,     \* where bootstrap is
          attempt,  \* of discover_jwks_uri
          backoff,  \* seconds
          waited,   \* history: seconds slept since discovery began
          idpUp,    \* the IdP answers
          outages

discovery == <<attempt, backoff, waited>>
idp == <<idpUp, outages>>
bootVars == <<boot, discovery, idp, vars>>

BootInit ==
    /\ Init
    /\ boot = "down"
    /\ attempt = 1 /\ backoff = 1 /\ waited = 0
    /\ idpUp \in BOOLEAN
    /\ outages = 0

Step(from, to) == boot = from /\ boot' = to

Begin == Step("down", "pool") /\ UNCHANGED <<discovery, idp, vars>>

OpenPool ==
    /\ Step("pool", "discover")
    /\ attempt' = 1 /\ backoff' = 1 /\ waited' = 0
    /\ UNCHANGED <<idp, vars>>
-----------------------------------------------------------------------------
(* discover_jwks_uri and the fetch after it. *)

Discovered == idpUp /\ Step("discover", "jwks") /\ UNCHANGED <<discovery, idp, vars>>

GivesUpByCount == attempt >= MaxWait
GivesUp == attempt * backoff >= MaxWait

DiscoveryFails ==
    /\ ~idpUp
    /\ \/ GivesUp /\ Step("discover", "down")
       \/ ~GivesUp /\ Step("discover", "sleep")
    /\ UNCHANGED <<discovery, idp, vars>>

Doubled == IF 2 * backoff < MaxBackoff THEN 2 * backoff ELSE MaxBackoff

BackOff ==
    /\ Step("sleep", "discover")
    /\ waited' = waited + backoff
    /\ backoff' = Doubled
    /\ attempt' = attempt + 1
    /\ UNCHANGED <<idp, vars>>

(* The JWKS is fetched once; a failure is not retried. *)
FetchJwks ==
    /\ \/ idpUp /\ Step("jwks", "keys") /\ Start
       \/ ~idpUp /\ Step("jwks", "down") /\ UNCHANGED vars
    /\ UNCHANGED <<discovery, idp>>
-----------------------------------------------------------------------------
ResolveKeysSwallowingErrors ==
    /\ boot = "keys"
    /\ ResolveKeyPair
    /\ boot' = "keys"
    /\ UNCHANGED <<discovery, idp>>

ResolveKeys ==
    /\ boot = "keys"
    /\ ResolveKeyPair
    /\ boot' = IF step' = "down" THEN "down" ELSE "keys"
    /\ UNCHANGED <<discovery, idp>>

(* A kill or a failed step at any time, also while it serves. *)
Interrupted ==
    /\ boot # "down"
    /\ boot' = "down"
    /\ Kill
    /\ UNCHANGED <<discovery, idp>>

IdpFails ==
    /\ idpUp
    /\ outages < MaxOutages
    /\ idpUp' = FALSE
    /\ outages' = outages + 1
    /\ UNCHANGED <<boot, discovery, vars>>

IdpRecovers == ~idpUp /\ idpUp' = TRUE /\ UNCHANGED <<boot, discovery, outages, vars>>

Bootstrap ==
    Begin \/ OpenPool \/ Discovered \/ DiscoveryFails \/ BackOff \/ FetchJwks \/ ResolveKeys

BootNext == Bootstrap \/ Interrupted \/ IdpFails \/ IdpRecovers

BootSpec == BootInit /\ [][BootNext]_bootVars

(* The process runs, and the container is restarted whenever it ends       *)
(* (restart: unless-stopped); outages end.                                 *)
BootFairSpec == BootSpec /\ WF_bootVars(Bootstrap) /\ WF_bootVars(IdpRecovers)
-----------------------------------------------------------------------------
(* Every variable has its type, and the key pair is resolved last. *)
BootTypeOK ==
    /\ TypeOK
    /\ boot \in {"down", "pool", "discover", "sleep", "jwks", "keys"}
    /\ attempt \in Nat \ {0}
    /\ backoff \in 1..MaxBackoff
    /\ waited \in Nat
    /\ idpUp \in BOOLEAN
    /\ outages \in 0..MaxOutages
    /\ (step # "down") = (boot = "keys")

(* Discovery never sleeps past the minute it is allowed, however the       *)
(* doubled backoff and the product in its test work out.                   *)
WaitIsBounded == waited <= MaxWait

(* Once kills and outages end, a configuration that can work does: no kill *)
(* leaves files, and no outage leaves a state, startup is stuck on.        *)
Workable == AutoGenerates \/ (Loads /\ private.whole /\ Exists(cert))
EventuallyServes == Workable => <>[](step = "serving")
-----------------------------------------------------------------------------
(* What the documents say. *)

(* design-004, line 65: "Retry with exponential backoff (1s, 2s, 4s, max   *)
(* 30s) for up to 60 seconds", and only then exit.                         *)
GivesUpOnlyAfterMaxWait ==
    [][boot = "discover" /\ boot' = "down" /\ kills' = kills => waited >= MaxWait]_bootVars
=============================================================================
