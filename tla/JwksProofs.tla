---------------------------- MODULE JwksProofs ----------------------------
(***************************************************************************)
(* The JWKS cache, proved for every number of handlers, every set of kids  *)
(* and every threshold of the circuit breaker.                             *)
(***************************************************************************)
EXTENDS Jwks, FiniteSetTheorems, TLAPS

(* The handlers past the checks are finitely many, and at most all. *)
LEMMA AttemptsFinite ==
    /\ IsFiniteSet(Attempts)
    /\ Cardinality(Attempts) \in Nat
    /\ Cardinality(Request) \in Nat
    /\ Cardinality(Attempts) <= Cardinality(Request)
<1>1. Attempts \subseteq Request /\ IsFiniteSet(Request)
  BY JwksAssumption DEF Attempts
<1>2. QED BY <1>1, FS_Subset, FS_CardinalityType

(* A step that adds no handler to those past the checks, and no failure,   *)
(* keeps the bound on the failures.                                        *)
LEMMA FewerAttempts ==
    ASSUME TypeOK, BreakerBound,
           Attempts' \subseteq Attempts,
           failures' \in Nat, failures' <= failures
    PROVE  BreakerBound'
<1>1. /\ Cardinality(Attempts') \in Nat
      /\ Cardinality(Attempts') <= Cardinality(Attempts)
  BY AttemptsFinite, FS_Subset, FS_CardinalityType
<1>2. failures \in Nat /\ MaxFailures \in Nat
  BY JwksAssumption DEF TypeOK
<1>3. QED BY <1>1, <1>2, AttemptsFinite DEF BreakerBound

(* A version already published stays what it is when another follows. *)
LEMMA AppendKeeps ==
    ASSUME NEW S, NEW s \in Seq(S), NEW e \in S
    PROVE  /\ Append(s, e) \in Seq(S)
           /\ Len(Append(s, e)) = Len(s) + 1
           /\ \A i \in 1..Len(s) : Append(s, e)[i] = s[i]
OBVIOUS

(* The service starts with a whole fetched set and no failure. *)
LEMMA InitIInv ==
    ASSUME Init
    PROVE  IInv
<1>1. PICK K \in SUBSET Kid : published = <<K>> /\ keys = K
  BY DEF Init
<1>2. published \in Seq(SUBSET Kid) /\ Len(published) = 1 /\ published[1] = keys
  BY <1>1
<1>3. TypeOK
  <2>1. pc \in [Request -> {"idle", "reading"} \cup Awaiting \cup Answers]
    BY DEF Init
  <2>2. fetched \in [Request -> 0..Current]
    BY <1>2 DEF Init, Current, NoVersion
  <2>3. Current = 1 /\ Current \in 1..MaxVersion
    BY <1>2, JwksAssumption DEF Current
  <2>4. cooling \in BOOLEAN
    BY DEF Init
  <2>5. /\ etag \in 0..Current /\ failures \in Nat
        /\ sentEtag \in 0..Current /\ refetched \in 0..Current
    BY <2>3 DEF Init, NoVersion
  <2>6. /\ guards \in SUBSET Request
        /\ queued \in SUBSET (Request \cup {Refresher})
        /\ refresher \in {"idle", "fetch", "apply"}
        /\ kid \in [Request -> Kid]
    BY DEF Init
  <2>7. QED BY <1>1, <1>2, <2>1, <2>2, <2>3, <2>4, <2>5, <2>6 DEF TypeOK
<1>4. FetchedIsPublished
  BY DEF Init, FetchedIsPublished
<1>5. EtagNamesKeys
  BY <1>2 DEF Init, EtagNamesKeys, NoVersion
<1>6. BreakerBound
  <2>1. Attempts = {}
    BY DEF Init, Attempts, Attempting
  <2>2. Cardinality(Attempts) = 0
    BY <2>1, FS_EmptySet
  <2>3. QED BY <2>2, AttemptsFinite, JwksAssumption DEF Init, BreakerBound
<1>7. QED BY <1>3, <1>4, <1>5, <1>6 DEF IInv

(* A handler's step that writes neither keys nor ETag and moves it to a    *)
(* label it may take keeps the invariant, but for the bound.               *)
LEMMA MoveKeeps ==
    ASSUME IInv,
           NEW r \in Request, NEW label \in {"reading"} \cup Awaiting \cup Answers,
           Goto(r, label),
           UNCHANGED <<published, keys, etag, refreshVars>>,
           label = "apply" => fetched'[r] # NoVersion,
           \A q \in Request \ {r} : fetched'[q] = fetched[q],
           fetched' \in [Request -> 0..Current],
           kid' \in [Request -> Kid],
           cooling' \in BOOLEAN,
           failures' \in Nat,
           guards' \in SUBSET Request,
           queued' \in SUBSET (Request \cup {Refresher})
    PROVE  TypeOK' /\ FetchedIsPublished' /\ EtagNamesKeys'
<1>1. pc' \in [Request -> {"idle", "reading"} \cup Awaiting \cup Answers]
  BY DEF IInv, TypeOK, Goto
<1>2. \A q \in Request : pc'[q] = IF q = r THEN label ELSE pc[q]
  BY DEF IInv, TypeOK, Goto
<1>3. Current' = Current
  BY DEF Current
<1>4. TypeOK'
  BY <1>1, <1>3 DEF IInv, TypeOK, refreshVars
<1>5. FetchedIsPublished'
  BY <1>2 DEF IInv, FetchedIsPublished, refreshVars
<1>6. EtagNamesKeys'
  BY DEF IInv, EtagNamesKeys
<1>7. QED BY <1>4, <1>5, <1>6

(* Where a moved handler stands decides who is past the checks. *)
LEMMA MoveAttempts ==
    ASSUME TypeOK, NEW r \in Request, NEW label, Goto(r, label)
    PROVE  Attempts' = IF label \in Attempting THEN Attempts \cup {r}
                                               ELSE Attempts \ {r}
BY DEF TypeOK, Goto, Attempts

(* The steps of a lookup. *)
LEMMA LookupKeepsIInv ==
    ASSUME IInv, NEW r \in Request, Arrive(r) \/ Lookup(r) \/ Disconnect(r)
    PROVE  IInv'
<1>t. TypeOK /\ BreakerBound
  BY DEF IInv
<1>u. /\ fetched \in [Request -> 0..Current] /\ kid \in [Request -> Kid]
      /\ cooling \in BOOLEAN /\ failures \in Nat
      /\ guards \in SUBSET Request /\ queued \in SUBSET (Request \cup {Refresher})
      /\ Current \in Nat
  BY <1>t, JwksAssumption DEF TypeOK
<1>1. CASE Arrive(r)
  <2>1. /\ Goto(r, "lookup")
        /\ UNCHANGED <<published, cacheVars, lockVars, fetched, refreshVars>>
    BY <1>1 DEF Arrive
  <2>2. fetched' \in [Request -> 0..Current] /\ \A q \in Request \ {r} : fetched'[q] = fetched[q]
    BY <2>1, <1>u
  <2>3. kid' \in [Request -> Kid]
    BY <1>1, <1>u DEF Arrive
  <2>4. TypeOK' /\ FetchedIsPublished' /\ EtagNamesKeys'
    BY <2>1, <2>2, <2>3, <1>u, MoveKeeps DEF cacheVars, lockVars, Awaiting
  <2>5. Attempts' \subseteq Attempts
    BY <2>1, <1>t, MoveAttempts DEF Attempting
  <2>6. BreakerBound'
    BY <2>1, <2>5, <1>t, <1>u, FewerAttempts DEF cacheVars
  <2>7. QED BY <2>4, <2>6 DEF IInv
<1>2. CASE Lookup(r) \/ Disconnect(r)
  <2>1. PICK label \in {"reading", "check"} \cup Answers : Goto(r, label)
    BY <1>2 DEF Lookup, Disconnect, AcquireRead, ReadCache, Relookup, Answer, Answers
  <2>2. /\ UNCHANGED <<published, cacheVars, kid, refreshVars>>
        /\ fetched' = fetched \/ fetched' = [fetched EXCEPT ![r] = NoVersion]
    BY <1>2 DEF Lookup, Disconnect, AcquireRead, ReadCache, Relookup, Forget
  <2>f. fetched' \in [Request -> 0..Current] /\ \A q \in Request \ {r} : fetched'[q] = fetched[q]
    BY <2>2, <1>u DEF NoVersion
  <2>3. guards' \in SUBSET Request /\ queued' \in SUBSET (Request \cup {Refresher})
    BY <1>2, <1>u DEF Lookup, Disconnect, AcquireRead, ReadCache, Relookup, lockVars
  <2>4. TypeOK' /\ FetchedIsPublished' /\ EtagNamesKeys'
    BY <2>1, <2>2, <2>f, <2>3, <1>u, MoveKeeps DEF cacheVars, Awaiting, Answers, JwksError
  <2>5. Attempts' \subseteq Attempts
    BY <2>1, <1>t, MoveAttempts DEF Attempting, Answers, JwksError
  <2>6. BreakerBound'
    BY <2>2, <2>5, <1>t, <1>u, FewerAttempts DEF cacheVars
  <2>7. QED BY <2>4, <2>6 DEF IInv
<1>3. QED BY <1>1, <1>2

(* Passing the checks needs the breaker closed, so that even with every    *)
(* handler past them the bound is kept.                                    *)
LEMMA CheckKeepsIInv ==
    ASSUME IInv, NEW r \in Request, CheckLimits(r)
    PROVE  IInv'
<1>t. TypeOK /\ BreakerBound
  BY DEF IInv
<1>u. /\ fetched \in [Request -> 0..Current] /\ kid \in [Request -> Kid]
      /\ cooling \in BOOLEAN /\ failures \in Nat /\ MaxFailures \in Nat
      /\ guards \in SUBSET Request /\ queued \in SUBSET (Request \cup {Refresher})
  BY <1>t, JwksAssumption DEF TypeOK
<1>1. UNCHANGED <<published, cacheVars, lockVars, kid, fetched, refreshVars>>
  BY DEF CheckLimits
<1>2. CASE Goto(r, JwksError)
  <2>1. TypeOK' /\ FetchedIsPublished' /\ EtagNamesKeys'
    BY <1>1, <1>2, <1>u, MoveKeeps DEF cacheVars, lockVars, Answers, JwksError
  <2>2. Attempts' \subseteq Attempts
    BY <1>2, <1>t, MoveAttempts DEF Attempting, JwksError
  <2>3. BreakerBound'
    BY <1>1, <2>2, <1>t, <1>u, FewerAttempts DEF cacheVars
  <2>4. QED BY <2>1, <2>3 DEF IInv
<1>3. CASE ~Tripped /\ Goto(r, "record")
  <2>1. TypeOK' /\ FetchedIsPublished' /\ EtagNamesKeys'
    BY <1>1, <1>3, <1>u, MoveKeeps DEF cacheVars, lockVars, Awaiting, Attempting
  <2>2. Cardinality(Attempts') \in Nat /\ Cardinality(Attempts') <= Cardinality(Request)
    <3>1. Attempts' \subseteq Request /\ IsFiniteSet(Request)
      BY JwksAssumption DEF Attempts
    <3>2. QED BY <3>1, FS_Subset, FS_CardinalityType
  <2>3. failures' < MaxFailures /\ failures' \in Nat
    BY <1>1, <1>3, <1>u DEF Tripped, cacheVars
  <2>4. BreakerBound'
    BY <2>2, <2>3, <1>u, AttemptsFinite DEF BreakerBound
  <2>5. QED BY <2>1, <2>4 DEF IInv
<1>4. QED BY <1>2, <1>3 DEF CheckLimits

(* A handler recording its attempt or fetching. *)
LEMMA AttemptKeepsIInv ==
    ASSUME IInv, NEW r \in Request,
           RecordAttempt(r) \/ FetchSucceeds(r) \/ FetchFails(r)
    PROVE  IInv'
<1>t. TypeOK /\ BreakerBound
  BY DEF IInv
<1>u. /\ fetched \in [Request -> 0..Current] /\ kid \in [Request -> Kid]
      /\ cooling \in BOOLEAN /\ failures \in Nat
      /\ guards \in SUBSET Request /\ queued \in SUBSET (Request \cup {Refresher})
      /\ Current \in 1..MaxVersion /\ MaxVersion \in Nat
  BY <1>t, JwksAssumption DEF TypeOK
<1>1. pc[r] \in Attempting /\ r \in Attempts
  BY DEF RecordAttempt, FetchSucceeds, FetchFails, Attempting, Attempts
<1>2. CASE RecordAttempt(r)
  <2>1. /\ Goto(r, "fetch") /\ cooling' = TRUE
        /\ UNCHANGED <<published, keys, etag, failures, guards, kid, fetched, refreshVars>>
        /\ queued' = queued \ {r}
    BY <1>2 DEF RecordAttempt, LockForWrite
  <2>2. cooling' \in BOOLEAN
    BY <2>1
  <2>3. queued' \in SUBSET (Request \cup {Refresher})
    BY <2>1, <1>u
  <2>4. TypeOK' /\ FetchedIsPublished' /\ EtagNamesKeys'
    BY <2>1, <2>2, <2>3, <1>u, MoveKeeps DEF Awaiting, Attempting
  <2>5. Attempts' \subseteq Attempts
    BY <1>1, <2>1, <1>t, MoveAttempts
  <2>6. BreakerBound'
    BY <2>1, <2>5, <1>t, <1>u, FewerAttempts
  <2>7. QED BY <2>4, <2>6 DEF IInv
<1>3. CASE FetchSucceeds(r)
  <2>1. /\ Goto(r, "apply")
        /\ fetched' = [fetched EXCEPT ![r] = Current]
        /\ UNCHANGED <<published, cacheVars, lockVars, kid, refreshVars>>
    BY <1>3 DEF FetchSucceeds
  <2>2. /\ fetched' \in [Request -> 0..Current]
        /\ fetched'[r] # NoVersion
        /\ \A q \in Request \ {r} : fetched'[q] = fetched[q]
    BY <2>1, <1>u DEF NoVersion
  <2>3. TypeOK' /\ FetchedIsPublished' /\ EtagNamesKeys'
    BY <2>1, <2>2, <1>u, MoveKeeps DEF Awaiting, Attempting, cacheVars, lockVars
  <2>4. Attempts' \subseteq Attempts
    BY <1>1, <2>1, <1>t, MoveAttempts
  <2>5. BreakerBound'
    BY <2>1, <2>4, <1>t, <1>u, FewerAttempts DEF cacheVars
  <2>6. QED BY <2>3, <2>5 DEF IInv
<1>4. CASE FetchFails(r)
  <2>1. /\ Goto(r, "failed")
        /\ UNCHANGED <<published, cacheVars, lockVars, kid, fetched, refreshVars>>
    BY <1>4 DEF FetchFails
  <2>2. TypeOK' /\ FetchedIsPublished' /\ EtagNamesKeys'
    BY <2>1, <1>u, MoveKeeps DEF Awaiting, Attempting, cacheVars, lockVars
  <2>3. Attempts' \subseteq Attempts
    BY <1>1, <2>1, <1>t, MoveAttempts
  <2>4. BreakerBound'
    BY <2>1, <2>3, <1>t, <1>u, FewerAttempts DEF cacheVars
  <2>5. QED BY <2>2, <2>4 DEF IInv
<1>5. QED BY <1>2, <1>3, <1>4

(* Counting a failure takes its handler out of those past the checks. *)
LEMMA FailureKeepsIInv ==
    ASSUME IInv, NEW r \in Request, CountFailure(r)
    PROVE  IInv'
<1>t. TypeOK /\ BreakerBound
  BY DEF IInv
<1>u. /\ fetched \in [Request -> 0..Current] /\ kid \in [Request -> Kid]
      /\ cooling \in BOOLEAN /\ failures \in Nat /\ MaxFailures \in Nat
      /\ guards \in SUBSET Request /\ queued \in SUBSET (Request \cup {Refresher})
  BY <1>t, JwksAssumption DEF TypeOK
<1>1. /\ Goto(r, JwksError) /\ failures' = failures + 1
      /\ UNCHANGED <<published, keys, etag, cooling, guards, kid, fetched, refreshVars>>
      /\ queued' = queued \ {r}
  BY DEF CountFailure, LockForWrite
<1>2. queued' \in SUBSET (Request \cup {Refresher}) /\ failures' \in Nat
  BY <1>1, <1>u
<1>3. TypeOK' /\ FetchedIsPublished' /\ EtagNamesKeys'
  BY <1>1, <1>2, <1>u, MoveKeeps DEF Answers, JwksError
<1>4. r \in Attempts /\ Attempts' = Attempts \ {r}
  BY <1>1, <1>t, MoveAttempts DEF CountFailure, Attempts, Attempting, JwksError
<1>5. Cardinality(Attempts') = Cardinality(Attempts) - 1
  BY <1>4, AttemptsFinite, FS_RemoveElement
<1>6. BreakerBound'
  BY <1>1, <1>5, <1>t, <1>u, AttemptsFinite DEF BreakerBound
<1>7. QED BY <1>3, <1>6 DEF IInv

(* What is stored comes with its own ETag or with none. *)
LEMMA StoreKeepsEtag ==
    ASSUME TypeOK, NEW version \in 1..Current, Store(version), UNCHANGED published
    PROVE  /\ keys' \in SUBSET Kid
           /\ etag' \in 0..Current
           /\ EtagNamesKeys'
<1>1. published \in Seq(SUBSET Kid) /\ Current \in Nat /\ version \in DOMAIN published
  BY JwksAssumption DEF TypeOK, Current
<1>2. keys' = published[version] /\ etag' \in {NoVersion, version}
  BY DEF Store
<1>3. keys' \in SUBSET Kid
  BY <1>1, <1>2
<1>4. etag' \in 0..Current
  BY <1>1, <1>2 DEF NoVersion
<1>5. EtagNamesKeys'
  BY <1>2 DEF EtagNamesKeys, NoVersion
<1>6. QED BY <1>3, <1>4, <1>5

(* A successful force-refresh stores its version and resets the breaker. *)
LEMMA ApplyKeepsIInv ==
    ASSUME IInv, NEW r \in Request, ApplyFetched(r)
    PROVE  IInv'
<1>t. TypeOK /\ BreakerBound /\ FetchedIsPublished
  BY DEF IInv
<1>1. /\ pc[r] = "apply" /\ Goto(r, "relookup") /\ failures' = 0
      /\ Store(fetched[r]) /\ queued' = queued \ {r}
      /\ fetched' = [fetched EXCEPT ![r] = NoVersion]
      /\ UNCHANGED <<published, cooling, guards, kid, refreshVars>>
  BY DEF ApplyFetched, LockForWrite, Forget
<1>2. fetched[r] \in 1..Current
  BY <1>t, <1>1, JwksAssumption DEF FetchedIsPublished, TypeOK, NoVersion
<1>3. keys' \in SUBSET Kid /\ etag' \in 0..Current /\ EtagNamesKeys'
  BY <1>t, <1>1, <1>2, StoreKeepsEtag
<1>4. TypeOK'
  <2>1. pc' \in [Request -> {"idle", "reading"} \cup Awaiting \cup Answers]
    BY <1>t, <1>1 DEF TypeOK, Goto, Awaiting
  <2>2. Current' = Current
    BY <1>1 DEF Current
  <2>3. queued' \in SUBSET (Request \cup {Refresher})
    BY <1>t, <1>1 DEF TypeOK
  <2>f. fetched' \in [Request -> 0..Current]
    BY <1>t, <1>1, JwksAssumption DEF TypeOK, NoVersion
  <2>4. QED BY <1>t, <1>1, <1>3, <2>1, <2>2, <2>3, <2>f DEF TypeOK, refreshVars
<1>5. FetchedIsPublished'
  BY <1>t, <1>1 DEF FetchedIsPublished, TypeOK, Goto, refreshVars
<1>6. BreakerBound'
  <2>1. Attempts' \subseteq Attempts
    BY <1>t, <1>1, MoveAttempts DEF Attempting
  <2>2. failures' \in Nat /\ failures' <= failures
    BY <1>t, <1>1 DEF TypeOK
  <2>3. QED BY <1>t, <2>1, <2>2, FewerAttempts
<1>7. QED BY <1>3, <1>4, <1>5, <1>6 DEF IInv

(* Waiting for the lock and the end of a cooldown change nothing the       *)
(* invariant speaks of.                                                    *)
LEMMA WaitKeepsIInv ==
    ASSUME IInv,
           CooldownElapses \/ RefreshWaits \/ \E r \in Request : WaitForLock(r)
    PROVE  IInv'
<1>1. UNCHANGED <<published, keys, etag, failures, guards, handlerVars, refreshVars>>
  BY DEF CooldownElapses, RefreshWaits, WaitForLock, cacheVars, lockVars
<1>2. cooling' \in BOOLEAN
  BY DEF CooldownElapses, RefreshWaits, WaitForLock, cacheVars, IInv, TypeOK
<1>3. queued' \in SUBSET (Request \cup {Refresher})
  BY DEF CooldownElapses, RefreshWaits, WaitForLock, QueueForWrite, lockVars, IInv, TypeOK
<1>4. Attempts' = Attempts /\ Current' = Current
  BY <1>1 DEF Attempts, handlerVars, Current
<1>5. TypeOK'
  BY <1>1, <1>2, <1>3, <1>4 DEF IInv, TypeOK, handlerVars, refreshVars
<1>6. FetchedIsPublished' /\ EtagNamesKeys' /\ BreakerBound'
  BY <1>1, <1>4
  DEF IInv, FetchedIsPublished, EtagNamesKeys, BreakerBound, handlerVars, refreshVars
<1>7. QED BY <1>5, <1>6 DEF IInv

(* The periodic refresh stores keys and ETag together, and touches neither *)
(* handlers nor the breaker.                                               *)
LEMMA RefreshKeepsIInv ==
    ASSUME IInv,
           ReadEtag \/ RefreshNotModified \/ RefreshFetched \/ RefreshFails \/ RefreshApplied
    PROVE  IInv'
<1>t. TypeOK /\ BreakerBound /\ FetchedIsPublished /\ EtagNamesKeys
  BY DEF IInv
<1>u. Current \in 1..MaxVersion /\ MaxVersion \in Nat
  BY <1>t, JwksAssumption DEF TypeOK
<1>1. UNCHANGED <<published, cooling, failures, guards, handlerVars>>
  BY DEF ReadEtag, RefreshNotModified, RefreshFetched, RefreshFails, RefreshApplied,
         LockForWrite, cacheVars, lockVars
<1>2. Attempts' = Attempts /\ Current' = Current
  BY <1>1 DEF Attempts, handlerVars, Current
<1>3. BreakerBound'
  BY <1>t, <1>1, <1>2 DEF BreakerBound
<1>4. /\ keys' \in SUBSET Kid /\ etag' \in 0..Current /\ EtagNamesKeys'
      /\ queued' \in SUBSET (Request \cup {Refresher})
      /\ refresher' \in {"idle", "fetch", "apply"}
      /\ sentEtag' \in 0..Current /\ refetched' \in 0..Current
      /\ refresher' = "apply" => refetched' # NoVersion
  <2>1. CASE RefreshApplied
    <3>1. refetched \in 1..Current
      BY <2>1, <1>t, <1>u DEF RefreshApplied, FetchedIsPublished, TypeOK, NoVersion
    <3>2. keys' \in SUBSET Kid /\ etag' \in 0..Current /\ EtagNamesKeys'
      BY <2>1, <3>1, <1>t, StoreKeepsEtag DEF RefreshApplied
    <3>3. QED
      BY <2>1, <3>2, <1>t, <1>u DEF RefreshApplied, LockForWrite, TypeOK, NoVersion
  <2>2. CASE RefreshFetched
    <3>1. Current \in 0..Current /\ Current # NoVersion
      BY <1>u DEF NoVersion
    <3>2. QED
      BY <2>2, <3>1, <1>t, <1>u
      DEF RefreshFetched, RequestEnds, TypeOK, EtagNamesKeys, NoVersion, cacheVars, lockVars
  <2>3. CASE ReadEtag \/ RefreshNotModified \/ RefreshFails
    BY <2>3, <1>t, <1>u
    DEF ReadEtag, RefreshNotModified, RefreshFails, RequestEnds, TypeOK, EtagNamesKeys,
        NoVersion, cacheVars, lockVars
  <2>4. QED BY <2>1, <2>2, <2>3
<1>5. TypeOK'
  BY <1>t, <1>1, <1>2, <1>4 DEF TypeOK, handlerVars
<1>6. FetchedIsPublished'
  BY <1>t, <1>1, <1>4 DEF FetchedIsPublished, handlerVars
<1>7. QED BY <1>3, <1>4, <1>5, <1>6 DEF IInv

(* Rotation adds a version and leaves the fetched ones in place. *)
LEMMA RotateKeepsIInv ==
    ASSUME IInv, Rotate
    PROVE  IInv'
<1>t. TypeOK
  BY DEF IInv
<1>1. PICK K \in SUBSET Kid : published' = Append(published, K)
  BY DEF Rotate
<1>2. /\ published' \in Seq(SUBSET Kid)
      /\ Current' = Current + 1
      /\ \A i \in 1..Current : published'[i] = published[i]
  BY <1>t, <1>1, AppendKeeps DEF TypeOK, Current
<1>3. Current \in Nat /\ Current' \in 1..MaxVersion
  BY <1>t, <1>2, JwksAssumption DEF TypeOK, Rotate
<1>4. UNCHANGED <<cacheVars, lockVars, handlerVars, refreshVars>>
  BY DEF Rotate
<1>5. TypeOK'
  <2>1. \A n \in 0..Current : n \in 0..Current'
    BY <1>2, <1>3
  <2>2. fetched' \in [Request -> 0..Current']
    BY <1>t, <1>4, <2>1 DEF TypeOK, handlerVars
  <2>3. /\ etag' \in 0..Current' /\ sentEtag' \in 0..Current'
        /\ refetched' \in 0..Current'
    BY <1>t, <1>4, <2>1 DEF TypeOK, cacheVars, refreshVars
  <2>4. QED
    BY <1>t, <1>2, <1>3, <1>4, <2>2, <2>3
    DEF TypeOK, cacheVars, lockVars, handlerVars, refreshVars
<1>6. EtagNamesKeys'
  <2>1. etag # NoVersion => etag \in 1..Current
    BY <1>t, <1>3 DEF TypeOK, NoVersion
  <2>2. QED BY <2>1, <1>2, <1>4 DEF IInv, EtagNamesKeys, cacheVars
<1>7. FetchedIsPublished' /\ BreakerBound'
  BY <1>4 DEF IInv, FetchedIsPublished, BreakerBound, Attempts, cacheVars,
              handlerVars, refreshVars
<1>8. QED BY <1>5, <1>6, <1>7 DEF IInv

(* The invariant is inductive. *)
LEMMA NextKeepsIInv ==
    ASSUME IInv, [Next]_vars
    PROVE  IInv'
<1>1. ASSUME NEW r \in Request,
             Arrive(r) \/ Lookup(r) \/ ForceRefresh(r) \/ Disconnect(r)
      PROVE  IInv'
  <2>1. CASE Arrive(r) \/ Lookup(r) \/ Disconnect(r)
    BY <2>1, LookupKeepsIInv
  <2>2. CASE ForceRefresh(r)
    BY <2>2, CheckKeepsIInv, AttemptKeepsIInv, ApplyKeepsIInv, FailureKeepsIInv,
       WaitKeepsIInv DEF ForceRefresh
  <2>3. QED BY <1>1, <2>1, <2>2
<1>2. CASE CooldownElapses \/ Refresh
  BY <1>2, WaitKeepsIInv, RefreshKeepsIInv DEF Refresh
<1>3. CASE Rotate
  BY <1>3, RotateKeepsIInv
<1>4. CASE UNCHANGED vars
  <2>1. Attempts' = Attempts /\ Current' = Current
    BY <1>4 DEF vars, handlerVars, Attempts, Current
  <2>2. QED
    BY <1>4, <2>1
    DEF vars, cacheVars, lockVars, handlerVars, refreshVars, IInv, TypeOK,
        FetchedIsPublished, EtagNamesKeys, BreakerBound
<1>5. QED BY <1>1, <1>2, <1>3, <1>4 DEF Next

(* The inductive invariant holds in every reachable state. *)
THEOREM JwksInvariance == Spec => []IInv
BY InitIInv, NextKeepsIInv, PTL DEF Spec

(* Every variable keeps its type. *)
THEOREM JwksTypeCorrect == Spec => []TypeOK
<1>1. IInv => TypeOK
  BY DEF IInv
<1>2. QED BY <1>1, JwksInvariance, PTL

(* The cached ETag always names the cached keys. *)
THEOREM EtagMatchesKeys == Spec => []EtagNamesKeys
<1>1. IInv => EtagNamesKeys
  BY DEF IInv
<1>2. QED BY <1>1, JwksInvariance, PTL

(* The failures the breaker counts are bounded by its threshold and the    *)
(* number of handlers that run at the same time.                           *)
THEOREM BreakerBounded == Spec => []BreakerBound
<1>1. IInv => BreakerBound
  BY DEF IInv
<1>2. QED BY <1>1, JwksInvariance, PTL

(* The tasks with something to write. *)
Writers ==
    {r \in Request : pc[r] \in {"record", "apply", "failed"}}
    \cup {task \in {Refresher} : refresher = "apply"}

(* A read guard is held only by a handler that awaits nothing and gives it *)
(* back with its next step, and only tasks that leave the queue with the   *)
(* lock wait in it: no disconnect, failed fetch or refresh leaves a guard  *)
(* or a place in the queue behind for the others to wait on.               *)
LockInv ==
    /\ guards = {r \in Request : pc[r] = "reading"}
    /\ queued \subseteq Writers

(* A step of a handler that is no reader before or after, and that leaves  *)
(* the queue if it no longer has anything to write.                        *)
LEMMA MoveKeepsLockInv ==
    ASSUME TypeOK, LockInv, NEW r \in Request, NEW label, Goto(r, label),
           pc[r] # "reading", label # "reading",
           UNCHANGED <<guards, refresher>>,
           queued' \subseteq queued,
           r \in queued' => label \in {"record", "apply", "failed"}
    PROVE  LockInv'
<1>1. \A q \in Request : pc'[q] = IF q = r THEN label ELSE pc[q]
  BY DEF TypeOK, Goto
<1>2. guards' = {q \in Request : pc'[q] = "reading"}
  BY <1>1 DEF LockInv
<1>3. queued' \subseteq Writers'
  BY <1>1, JwksAssumption DEF LockInv, Writers
<1>4. QED BY <1>2, <1>3 DEF LockInv

LEMMA HandlerKeepsLockInv ==
    ASSUME TypeOK, LockInv, NEW r \in Request,
           Arrive(r) \/ Lookup(r) \/ ForceRefresh(r) \/ Disconnect(r)
    PROVE  LockInv'
<1>0. /\ r \in queued => pc[r] \in {"record", "apply", "failed"}
      /\ queued \ {r} \subseteq queued
  BY JwksAssumption DEF LockInv, Writers
<1>1. CASE Arrive(r) \/ Relookup(r) \/ CheckLimits(r) \/ FetchSucceeds(r) \/ FetchFails(r)
  <2>1. PICK label \in Answers \cup {"lookup", "record", "apply", "failed"} : Goto(r, label)
    BY <1>1 DEF Arrive, Relookup, CheckLimits, FetchSucceeds, FetchFails, Answer, Answers
  <2>2. UNCHANGED <<guards, queued, refresher>>
    BY <1>1 DEF Arrive, Relookup, CheckLimits, FetchSucceeds, FetchFails, lockVars, refreshVars
  <2>3. /\ pc[r] \in Answers \cup {"idle", "relookup", "check", "fetch"}
        /\ pc[r] \notin {"reading", "record", "apply", "failed"} /\ label # "reading"
    BY <1>1 DEF Arrive, Relookup, CheckLimits, FetchSucceeds, FetchFails, Answers, JwksError
  <2>4. QED BY <1>0, <2>1, <2>2, <2>3, MoveKeepsLockInv
<1>2. CASE RecordAttempt(r) \/ ApplyFetched(r) \/ CountFailure(r) \/ Disconnect(r)
  <2>1. PICK label \in Answers \cup {"fetch", "relookup"} : Goto(r, label)
    BY <1>2 DEF RecordAttempt, ApplyFetched, CountFailure, Disconnect, Answers
  <2>2. queued' = queued \ {r} /\ UNCHANGED <<guards, refresher>>
    BY <1>2 DEF RecordAttempt, ApplyFetched, CountFailure, Disconnect, LockForWrite, refreshVars
  <2>3. pc[r] # "reading" /\ label # "reading"
    BY <1>2
    DEF RecordAttempt, ApplyFetched, CountFailure, Disconnect, Awaiting, Attempting,
        Answers, JwksError
  <2>4. QED BY <1>0, <2>1, <2>2, <2>3, MoveKeepsLockInv
<1>3. CASE AcquireRead(r) \/ ReadCache(r)
  <2>1. PICK label : /\ Goto(r, label) /\ UNCHANGED <<queued, refresher>>
                     /\ \/ label = "reading" /\ guards' = guards \cup {r}
                        \/ label # "reading" /\ guards' = guards \ {r}
    BY <1>3 DEF AcquireRead, ReadCache, Answer, JwksError, refreshVars
  <2>2. \A q \in Request : pc'[q] = IF q = r THEN label ELSE pc[q]
    BY <2>1 DEF TypeOK, Goto
  <2>3. guards' = {q \in Request : pc'[q] = "reading"}
    BY <2>1, <2>2 DEF LockInv
  <2>4. r \notin queued
    BY <1>0, <1>3 DEF AcquireRead, ReadCache
  <2>5. queued' \subseteq Writers'
    BY <2>1, <2>2, <2>4, JwksAssumption DEF LockInv, Writers
  <2>6. QED BY <2>3, <2>5 DEF LockInv
<1>4. CASE WaitForLock(r)
  BY <1>4 DEF WaitForLock, QueueForWrite, LockInv, Writers, handlerVars, refreshVars
<1>5. QED BY <1>1, <1>2, <1>3, <1>4 DEF Lookup, ForceRefresh

LEMMA OthersKeepLockInv ==
    ASSUME LockInv, CooldownElapses \/ Refresh \/ Rotate \/ UNCHANGED vars
    PROVE  LockInv'
<1>1. UNCHANGED <<guards, pc>>
  BY DEF CooldownElapses, Refresh, Rotate, vars, ReadEtag, RefreshNotModified, RefreshFetched,
         RefreshFails, RefreshWaits, RefreshApplied, LockForWrite, lockVars, handlerVars
<1>2. CASE RefreshApplied
  <2>1. queued' = queued \ {Refresher}
    BY <1>2 DEF RefreshApplied, LockForWrite
  <2>2. QED BY <1>1, <2>1 DEF LockInv, Writers
<1>3. CASE RefreshWaits
  BY <1>1, <1>3 DEF RefreshWaits, QueueForWrite, LockInv, Writers, refreshVars
<1>4. CASE ReadEtag \/ RefreshNotModified \/ RefreshFetched \/ RefreshFails
  <2>1. queued' = queued /\ refresher # "apply"
    BY <1>4 DEF ReadEtag, RefreshNotModified, RefreshFetched, RefreshFails, lockVars
  <2>2. QED BY <1>1, <2>1 DEF LockInv, Writers
<1>5. CASE CooldownElapses \/ Rotate \/ UNCHANGED vars
  BY <1>1, <1>5 DEF CooldownElapses, Rotate, vars, lockVars, refreshVars, LockInv, Writers
<1>6. QED BY <1>2, <1>3, <1>4, <1>5 DEF Refresh

(* Nobody waits for a lock that will not be given back, however many       *)
(* handlers there are: the safety half of EveryLookupAnswered.             *)
THEOREM LockIsHandedOn == Spec => []LockInv
<1>1. Init => LockInv
  BY DEF Init, LockInv, Writers
<1>2. TypeOK /\ LockInv /\ [Next]_vars => LockInv'
  BY HandlerKeepsLockInv, OthersKeepLockInv DEF Next
<1>3. QED BY <1>1, <1>2, JwksTypeCorrect, PTL DEF Spec
=============================================================================
