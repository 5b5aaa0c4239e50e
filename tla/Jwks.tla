------------------------------- MODULE Jwks -------------------------------
(***************************************************************************)
(* The JWKS cache: lookups by exchange handlers, the force-refresh an      *)
(* unknown kid triggers (cooldown, circuit breaker), the periodic refresh  *)
(* with ETags, and an IdP that rotates its keys meanwhile.  The cache is   *)
(* behind a tokio RwLock, which serves its queue in order; every critical  *)
(* section without an await in it is one step, and the lookup, which must  *)
(* give its read guard back before it awaits, holds it across steps.       *)
(***************************************************************************)
EXTENDS Naturals, Sequences, FiniteSets

CONSTANTS Request,      \* exchange handlers that run at the same time
          Refresher,    \* the periodic refresh task
          Kid,          \* key ids tokens name
          Unusable,     \* kids whose JWK yields no decoding key
          MaxFailures,  \* JWKS_MAX_FORCE_REFRESH_FAILURES
          MaxVersion    \* bound on the key sets the IdP publishes

ASSUME JwksAssumption ==
    /\ IsFiniteSet(Request)
    /\ Refresher \notin Request
    /\ Unusable \subseteq Kid
    /\ MaxFailures \in Nat \ {0}
    /\ MaxVersion \in Nat \ {0}

VARIABLES published,  \* key sets the IdP has published, newest last
          keys,       \* kids in keys_by_kid
          etag,       \* published version the cached ETag names; 0: none
          cooling,    \* last_force_refresh lies less than 60 s back
          failures,   \* consecutive_force_refresh_failures
          pc,         \* where each handler is, or its answer
          kid,        \* the kid its token names
          fetched,    \* version the IdP answered a handler with; 0: none
          guards,     \* handlers holding the read guard across steps
          queued,     \* tasks queued for the write lock behind them
          refresher,  \* where the periodic refresh is
          sentEtag,   \* If-None-Match of its request; 0: none
          refetched   \* version the IdP answered it with; 0: none

cacheVars == <<keys, etag, cooling, failures>>
lockVars == <<guards, queued>>
handlerVars == <<pc, kid, fetched>>
refreshVars == <<refresher, sentEtag, refetched>>
vars == <<published, cacheVars, lockVars, handlerVars, refreshVars>>

NoVersion == 0
Current == Len(published)

(* error.rs gives every ServiceError::Jwks the code internal_error. *)
JwksError == "internal_error"
Answers == {"found", "unknown_kid", JwksError, "aborted"}
(* Past the checks of force_refresh_jwks, its outcome not yet stored. *)
Attempting == {"record", "fetch", "apply", "failed"}
Awaiting == {"lookup", "check", "relookup"} \cup Attempting

(* Startup fetched the first version; the IdP need not send an ETag. *)
Init ==
    /\ \E K \in SUBSET Kid : published = <<K>> /\ keys = K
    /\ etag \in {NoVersion, 1}
    /\ cooling = FALSE
    /\ failures = 0
    /\ pc = [r \in Request |-> "idle"]
    /\ kid \in [Request -> Kid]
    /\ fetched = [r \in Request |-> NoVersion]
    /\ guards = {}
    /\ queued = {}
    /\ refresher = "idle"
    /\ sentEtag = NoVersion
    /\ refetched = NoVersion

Goto(r, label) == pc' = [pc EXCEPT ![r] = label]
Forget(r) == fetched' = [fetched EXCEPT ![r] = NoVersion]

(* The lock: a reader waits behind queued writers, a writer for the guards. *)
MayRead == queued = {}

QueueForWrite(task) ==
    /\ guards # {}
    /\ task \notin queued
    /\ queued' = queued \cup {task}

LockForWrite(task) ==
    /\ guards = {}
    /\ queued' = queued \ {task}
    /\ UNCHANGED guards

Answer(k) == IF k \in Unusable THEN JwksError ELSE "found"
-----------------------------------------------------------------------------
(* The lookup of exchange_token. *)

Arrive(r) ==
    /\ pc[r] \in Answers \cup {"idle"}
    /\ Goto(r, "lookup")
    /\ \E k \in Kid : kid' = [kid EXCEPT ![r] = k]
    /\ UNCHANGED <<published, cacheVars, lockVars, fetched, refreshVars>>

AcquireRead(r) ==
    /\ pc[r] = "lookup"
    /\ MayRead
    /\ Goto(r, "reading")
    /\ guards' = guards \cup {r}
    /\ UNCHANGED <<published, cacheVars, queued, kid, fetched, refreshVars>>

ReadCacheKeepingGuard(r) ==
    /\ pc[r] = "reading"
    /\ \/ kid[r] \in keys /\ Goto(r, Answer(kid[r])) /\ guards' = guards \ {r}
       \/ kid[r] \notin keys /\ Goto(r, "check") /\ guards' = guards
    /\ UNCHANGED <<published, cacheVars, queued, kid, fetched, refreshVars>>

(* A miss drops the guard before it awaits anything. *)
ReadCache(r) ==
    /\ pc[r] = "reading"
    /\ guards' = guards \ {r}
    /\ \/ kid[r] \in keys /\ Goto(r, Answer(kid[r]))
       \/ kid[r] \notin keys /\ Goto(r, "check")
    /\ UNCHANGED <<published, cacheVars, queued, kid, fetched, refreshVars>>

Relookup(r) ==
    /\ pc[r] = "relookup"
    /\ MayRead
    /\ \/ kid[r] \in keys /\ Goto(r, Answer(kid[r]))
       \/ kid[r] \notin keys /\ Goto(r, "unknown_kid")
    /\ UNCHANGED <<published, cacheVars, lockVars, kid, fetched, refreshVars>>
-----------------------------------------------------------------------------
(* force_refresh_jwks. *)

TrippedLate == failures > MaxFailures
Tripped == failures >= MaxFailures

(* Cooldown and breaker are read under a read lock that is then released.  *)
(* The read of jwks_uri just before, which never changes, is part of it.   *)
CheckLimits(r) ==
    /\ pc[r] = "check"
    /\ MayRead
    /\ \/ (cooling \/ Tripped) /\ Goto(r, JwksError)
       \/ ~cooling /\ ~Tripped /\ Goto(r, "record")
    /\ UNCHANGED <<published, cacheVars, lockVars, kid, fetched, refreshVars>>

RecordAttempt(r) ==
    /\ pc[r] = "record"
    /\ LockForWrite(r)
    /\ cooling' = TRUE
    /\ Goto(r, "fetch")
    /\ UNCHANGED <<published, keys, etag, failures, kid, fetched, refreshVars>>

(* Without If-None-Match the IdP answers with what it publishes now. *)
FetchSucceeds(r) ==
    /\ pc[r] = "fetch"
    /\ fetched' = [fetched EXCEPT ![r] = Current]
    /\ Goto(r, "apply")
    /\ UNCHANGED <<published, cacheVars, lockVars, kid, refreshVars>>

(* An error status, a body that does not parse, or the 30 s timeout. *)
FetchFails(r) ==
    /\ pc[r] = "fetch"
    /\ Goto(r, "failed")
    /\ UNCHANGED <<published, cacheVars, lockVars, kid, fetched, refreshVars>>

(* Store a version with the ETag that came with it, if one did. *)
StoreKeepingEtag(version) ==
    /\ keys' = published[version]
    /\ etag' \in {etag, version}
Store(version) ==
    /\ keys' = published[version]
    /\ etag' \in {NoVersion, version}

ApplyFetchedForgivingOne(r) ==
    /\ pc[r] = "apply"
    /\ LockForWrite(r)
    /\ Store(fetched[r])
    /\ failures' = failures - 1
    /\ Goto(r, "relookup")
    /\ Forget(r)
    /\ UNCHANGED <<published, cooling, kid, refreshVars>>

ApplyFetched(r) ==
    /\ pc[r] = "apply"
    /\ LockForWrite(r)
    /\ Store(fetched[r])
    /\ failures' = 0
    /\ Goto(r, "relookup")
    /\ Forget(r)
    /\ UNCHANGED <<published, cooling, kid, refreshVars>>

CountFailure(r) ==
    /\ pc[r] = "failed"
    /\ LockForWrite(r)
    /\ failures' = failures + 1
    /\ Goto(r, JwksError)
    /\ UNCHANGED <<published, keys, etag, cooling, kid, fetched, refreshVars>>

WaitForLock(r) ==
    /\ pc[r] \in {"record", "apply", "failed"}
    /\ QueueForWrite(r)
    /\ UNCHANGED <<published, cacheVars, guards, handlerVars, refreshVars>>

(* A disconnected client's handler is dropped at whatever it awaits. *)
Disconnect(r) ==
    /\ pc[r] \in Awaiting
    /\ Goto(r, "aborted")
    /\ Forget(r)
    /\ queued' = queued \ {r}
    /\ UNCHANGED <<published, cacheVars, guards, kid, refreshVars>>

CooldownElapses ==
    /\ cooling
    /\ cooling' = FALSE
    /\ UNCHANGED <<published, keys, etag, failures, lockVars, handlerVars, refreshVars>>
-----------------------------------------------------------------------------
(* refresh_jwks, every five minutes. *)

ReadEtag ==
    /\ refresher = "idle"
    /\ MayRead
    /\ refresher' = "fetch"
    /\ sentEtag' = etag
    /\ UNCHANGED <<published, cacheVars, lockVars, handlerVars, refetched>>

RequestEnds(next) == refresher' = next /\ sentEtag' = NoVersion

(* 304 only for the ETag of what is published now; 200 is always allowed. *)
RefreshNotModified ==
    /\ refresher = "fetch"
    /\ sentEtag = Current
    /\ RequestEnds("idle")
    /\ UNCHANGED <<published, cacheVars, lockVars, handlerVars, refetched>>

RefreshFetched ==
    /\ refresher = "fetch"
    /\ refetched' = Current
    /\ RequestEnds("apply")
    /\ UNCHANGED <<published, cacheVars, lockVars, handlerVars>>

RefreshFails ==
    /\ refresher = "fetch"
    /\ RequestEnds("idle")
    /\ UNCHANGED <<published, cacheVars, lockVars, handlerVars, refetched>>

RefreshWaits ==
    /\ refresher = "apply"
    /\ QueueForWrite(Refresher)
    /\ UNCHANGED <<published, cacheVars, guards, handlerVars, refreshVars>>

RefreshApplied ==
    /\ refresher = "apply"
    /\ LockForWrite(Refresher)
    /\ Store(refetched)
    /\ refresher' = "idle"
    /\ refetched' = NoVersion
    /\ UNCHANGED <<published, cooling, failures, handlerVars, sentEtag>>
-----------------------------------------------------------------------------
Rotate ==
    /\ Current < MaxVersion
    /\ \E K \in SUBSET Kid \ {published[Current]} : published' = Append(published, K)
    /\ UNCHANGED <<cacheVars, lockVars, handlerVars, refreshVars>>

Lookup(r) == AcquireRead(r) \/ ReadCache(r) \/ Relookup(r)

ForceRefresh(r) ==
    \/ CheckLimits(r)
    \/ RecordAttempt(r)
    \/ FetchSucceeds(r)
    \/ FetchFails(r)
    \/ ApplyFetched(r)
    \/ CountFailure(r)
    \/ WaitForLock(r)

Refresh ==
    \/ ReadEtag
    \/ RefreshNotModified
    \/ RefreshFetched
    \/ RefreshFails
    \/ RefreshWaits
    \/ RefreshApplied

Next ==
    \/ \E r \in Request : Arrive(r) \/ Lookup(r) \/ ForceRefresh(r) \/ Disconnect(r)
    \/ CooldownElapses
    \/ Refresh
    \/ Rotate

Spec == Init /\ [][Next]_vars

(* Handlers and the refresh task are polled, the HTTP client gives up      *)
(* after 30 s, and the lock serves its queue in order, so that a task that *)
(* is again and again free to take it does.                                *)
Fairness ==
    /\ \A r \in Request : SF_vars(Lookup(r) \/ ForceRefresh(r))
    /\ SF_vars(Refresh)

(* The IdP does not fail every refresh for ever. *)
IdpAnswers == SF_vars(RefreshNotModified \/ RefreshFetched)

FairSpec == Spec /\ Fairness
-----------------------------------------------------------------------------
(* Every variable has its type. *)
TypeOK ==
    /\ published \in Seq(SUBSET Kid)
    /\ Current \in 1..MaxVersion
    /\ keys \in SUBSET Kid
    /\ etag \in 0..Current
    /\ cooling \in BOOLEAN
    /\ failures \in Nat
    /\ pc \in [Request -> {"idle", "reading"} \cup Awaiting \cup Answers]
    /\ kid \in [Request -> Kid]
    /\ fetched \in [Request -> 0..Current]
    /\ guards \in SUBSET Request
    /\ queued \in SUBSET (Request \cup {Refresher})
    /\ refresher \in {"idle", "fetch", "apply"}
    /\ sentEtag \in 0..Current
    /\ refetched \in 0..Current

(* The cached ETag is that of the cached keys, also when an older fetch    *)
(* overwrites a newer one; otherwise the IdP would answer 304 to a cache   *)
(* that does not hold what it publishes.                                   *)
EtagNamesKeys == etag # NoVersion => keys = published[etag]

(* The handlers past the checks. *)
Attempts == {r \in Request : pc[r] \in Attempting}

(* The breaker caps the failures counted: those that tripped it, and one   *)
(* for each other handler that had already passed its check.               *)
BreakerBound == failures + Cardinality(Attempts) < MaxFailures + Cardinality(Request)

(* What is about to be stored was fetched. *)
FetchedIsPublished ==
    /\ \A r \in Request : pc[r] = "apply" => fetched[r] # NoVersion
    /\ refresher = "apply" => refetched # NoVersion

(* The inductive invariant. *)
IInv ==
    /\ TypeOK
    /\ FetchedIsPublished
    /\ EtagNamesKeys
    /\ BreakerBound

(* Once the IdP stops rotating, and if it answers, the cache ends up with  *)
(* what it publishes, whatever stale fetches were still to be applied.     *)
EventuallyCurrent == IdpAnswers => <>[](keys = published[Current])

(* Every lookup is answered: no handler waits for ever for the lock or for *)
(* the IdP.                                                                *)
EveryLookupAnswered == \A r \in Request : pc[r] = "lookup" ~> pc[r] \in Answers
-----------------------------------------------------------------------------
(* What the documents say. *)

(* design-004, line 134: after five failures "stop refreshing until the    *)
(* cooldown expires"; nobody is refused once it has.                       *)
RefusedOnlyWhileCooling ==
    [][\A r \in Request :
          pc[r] = "check" /\ pc'[r] = JwksError => cooling]_vars
=============================================================================
