# Formal model of jwt-exchange

TLA+ modules, TLC configurations and TLAPS proofs for the token exchange
service in `src/`. Paths below are relative to the repository root; line
numbers are those of the commit this was written against.

## The system

A client posts an IdP-issued JWT to `/api/v1/exchange` and gets back a JWT
signed with the service's own RSA key. One process runs everything: actix-web
handlers on several threads, four background tasks, a SQLite file, a key
directory, and HTTP clients to the IdP and to Splunk.

| Component | State | Operations | What makes it correct |
|---|---|---|---|
| Replay protection (`db/audit.rs`) | `used_jti` table, on disk | `check_and_record_jti` (strict: SELECT then INSERT; replay mode: INSERT OR IGNORE), `purge_expired_jtis` hourly | no key accepted twice while its token lives; a replay answer has a cause; the table does not grow for ever |
| Token exchange (`services/token_service.rs`, `handlers/exchange.rs`) | none of its own; its awaits interleave with everything | key lookup, validation, replay check, mint, audit | every request ends; one live token per replay id; the audit record says what the client saw |
| JWKS cache (`auth/jwks.rs`) | `RwLock` over keys, ETag, time of the last force-refresh, failure count | lookup, force-refresh with cooldown and breaker, periodic refresh with ETag | keys and ETag belong together; the cache converges to what the IdP publishes; failures are bounded; no deadlock on the lock |
| JWKS discovery, startup (`auth/jwks.rs`, `app.rs`) | attempt, backoff | `discover_jwks_uri`, `bootstrap` | gives up within the time it promises, and ends up serving once the IdP is back |
| Signing keys (`auth/signing.rs`, `config.rs`) | `private.pem`, `public.pem`, a file mode | find, load, generate, save, restrict | the pair on disk belongs together and is private; a pair that served stays; startup never gets stuck |
| Certificate endpoint (`handlers/cert.rs`) | PEM in memory | GET | what it serves verifies what is minted |
| Audit log (`services/audit_service.rs`, `db/audit.rs`) | `request_log`, spawned inserts | log attempt, daily purge | every attempt is accounted for |
| Splunk exporter (`logging/splunk.rs`) | channel of 1000, batch of 50 | receive, flush, retry, give up | bounded memory; order; bounded duplicates; what the channel accepted is indexed, reported lost, or dead with the process (what a full channel refuses goes without a word) |
| Pool and shutdown (`db/pool.rs`, `app.rs`) | WAL, open connections | signals, checkpoint, close | only a SIGINT lets a request meet a closed pool; the WAL should be checkpointed before the process exits, which is not so (below) |
| Group filter, base64url (`services/token_service.rs`) | none | `filter_groups`, `base64url_decode` | whitelisted groups in order; what RFC 4648 prescribes, no bit lost |
| Health (`handlers/health.rs`) | none | two reads | |
| Errors, request ids (`error.rs`, `middleware.rs`) | none | code and status of each error | the status recorded is the status answered |
| Configuration (`config.rs`) | read once | | |

Interactions: handlers call the JWKS cache (shared, behind the lock), then
SQLite, then mint, then hand an event to the exporter's channel and spawn the
audit insert. The periodic refresh writes the same cache, the hourly purge the
same table, the shutdown task closes the pool under both. What is hard: each
`.await` is a point where another handler runs, where the client may disconnect
and the handler is dropped, and where the process may die.

`PROJECT.json` lists all components and, under `hazards`, what can go wrong at
which line and which property would show it.

## Modules

| Module | Models | Correspondence |
|---|---|---|
| `ReplayLease` | the promise of replay protection | an accepted exchange takes, in one step, a lease on `(jti, has_groups)` until the inbound token expires; `leases` lists the grants in their order, so that granting one again is a step of its own, and `strict` is the mode that decides which live leases stand in the way |
| `Replay` | `check_and_record_jti`, the purge, validation of `exp`, minting, restarts | `usedJti` is the table; `pc[r]` where a handler is between two awaits; `cutoff` the clock value a purge has read but not yet used; `grants` a history of accepted ids in commit order |
| `Jwks` | the cache, lookups, force-refresh, periodic refresh | `keys`, `etag`, `cooling`, `failures` are the fields of `CachedJwks`; `guards` and `queued` the lock; `published` the key sets of the IdP, a version being an index into it |
| `Exchange` | the handler from the arrival of a request to its answer and audit row; the purge; SIGTERM, SIGINT, crash, restart | `pc[r]` is the await a handler is at; `usedJti` the requests whose row is in the table, `expired` those whose token's `exp` has passed; `granted` and `minted` what a handler has done for good; `status` and `row` its audit record and what became of the insert; `proc`, `pool`, `interrupted`, `checkpointed` the end of the process |
| `AuditTrail` | `log_exchange_attempt`, `insert_audit_log`, `run_exporter`, `flush_batch` | events are numbered in the order they are logged; `channel`, `batch`, `inflight`, `attempt` are the exporter's; `indexed`, `dropped` (refused by the full channel, which nothing reports), `lost` (given up and logged as a data gap) and `died` are where an event can end, `spawned`, `rows`, `unwritten` where its insert is |
| `SigningKeys` | `rsa_source`, `resolve_key_pair` and the files it writes | `env` says which of the three variables are set; a file is a pair number and whether it is whole; `restricted` is mode 0600; `step` is the point of startup at which a kill can fall |
| `Startup` | `bootstrap` and `discover_jwks_uri`; EXTENDS `SigningKeys` | `boot` is the step of `bootstrap`; `attempt` and `backoff` are the code's, `waited` the seconds slept; the keys are resolved by the actions of `SigningKeys` |
| `Base64url` | `base64url_decode`, one step for each byte | the code's five variables |
| `Tickets` | the promise of the endpoint | a replay id is a ticket that a client takes in one step and holds until it lapses with the inbound token; only a holder is issued a token, once; the others are refused only if somebody took it; no answer is revised |
| `GroupFilter` | `filter_groups` | an operator on `request`, the groups a client asked for; a name is a value with a length |
| `Selection` | `Iterator::filter` | a recursive function over the prefixes of a sequence, where `SelectSeq` would be opaque to the provers |
| `MCReplay`, `MCJwks`, `MCDecode` | small instances | constants of the runs; `MCDecode` puts the two pure functions together |
| `ReplayProofs`, `JwksProofs`, `ExchangeProofs`, `AuditProofs`, `StartupProofs`, `SelectionProofs`, `FilterProofs`, `Base64Proofs` | theorems | |

Operators that no action uses and that stand just before a definition of the
same shape (`KeyTakenByJti` before `KeyTaken`, `TrippedLate` before `Tripped`)
are plausible faulty variants of it; `PROJECT.json` lists them under `mutants`.
Each checked property is violated when a variant takes its definition's place.

### How the modules compose

`Exchange` is the endpoint with its two difficult calls taken by their
outcomes: the key lookup ends in a key or in one of `Rejections`, the replay
check in `Grant`, `RefuseReplay` or `DatabaseFails`. Ids are taken in it until
the purge deletes their rows, as in `Replay`, with the clock reduced to the set
of tokens that have expired. `Jwks` and `Replay` have
the insides of those calls, between whose statements other handlers run;
`ReplayLease`, which `Replay` implements, is the promise that lets `Exchange`
take the check in one step. `Exchange` itself implements `Tickets`: expiry is
the lapse of a ticket, its grants are the holders, its minted tokens the issued
ones, and an outcome is a token, a refused replay or a failure to the client.
`Exchange` hands one record to what `AuditTrail` models in detail. `Startup`
EXTENDS `SigningKeys` and is proved to implement it (`BootImplementsKeys`), so
that what is proved of the key files holds of the whole of startup.

### Replay

A handler goes `new` → `check` → (`insert` →) `mint` → an answer. Strict mode
has the extra state because its SELECT and INSERT are two statements; replay
mode decides in one. SQLite runs one statement at a time and a committed
statement survives a crash of the process (not of the machine: power loss
without fsync is outside the model). A dropped handler whose statement was
already sent is the same as one dropped right after the commit, so
`Disconnect` needs no extra state. `Validate` uses jsonwebtoken's rule: a
token is refused once `exp + leeway < now`. The purge deletes `exp < now`.
Between the two lies the leeway in which a token is accepted though its row
may be gone; this is why the properties speak of the time until `exp` and not
of the time until the token is refused, and what `Replay_once` shows.
Requests that ask for groups are `"ok"` or `"oversize"` (they fail the limits
of `filter_groups`, which the code checks only after recording the id), and
`"none"` stands for no or an empty list. The clock is monotone; a clock set
back is outside the model.

### Jwks

A critical section without an await is one step. The first lookup is the
exception: it holds a read guard across steps, since the code drops it by hand
before awaiting (`token_service.rs:95`) and that is worth checking. The lock
follows tokio: first come first served, a reader waits behind a queued writer.
The 60 s cooldown is a Boolean that elapses at any time. The IdP answers with
the key set it publishes at that moment, with or without an ETag, and 304 only
if the request's ETag is that of the current set. A client timeout, an error
status and an unparsable body are one failure. `Unusable` kids are JWKs
`DecodingKey::from_jwk` refuses.

### Exchange

Building the record, offering the event and spawning the insert have no await
between them and are one step with the answer (`Conclude`). `from_record`
slices the replay id at byte 8 and panics on an id with no character boundary
there (`splunk.rs:30`); the panic ends the handler after its id was recorded,
before anything is audited. A request without a token is answered before the
audit (`exchange.rs:32`). SIGTERM is actix's: it stops accepting and drains,
while `ctrl_c` keeps waiting. SIGINT reaches both: actix stops its workers, the
shutdown task checkpoints and closes the pool, and until main returns handlers
and inserts may still run, on an open pool or a closed one. A SIGINT that comes
during the drain of a SIGTERM finds the shutdown task still armed: actix goes on
draining, and the pool closes under the requests it waits for. `Die` takes
handlers and spawned inserts along.

A token expires at any time (`Expire`), after which validation may still accept
it and the purge may delete its row: `Purge` removes any of the rows whose token
has expired, since the cutoff may be a clock value of some time before. An id
whose row is gone is granted again, to a token of the leeway or to another token
with the same jti. `ALLOW_REPLAY` is off; `Replay` has both modes.

### AuditTrail

The exporter collects, posts, sleeps before a retry, or has stopped. A failed
POST may or may not have been indexed. `Restart` is any end of the process,
with what was in memory lost; the inserts spawned and not run are lost too.
An event refused by a full channel goes to `dropped`, and the program says
nothing of it: `NothingVanishes` therefore speaks of what the channel accepted,
and the rest is on the list of what documents and code part on.

### SigningKeys and Startup

`std::fs::write` truncates and then writes, so each file has two kill points,
and `set_permissions` stands between them. A new file has the default mode, one
that exists keeps its own. A file operation that fails ends startup with an
error, which is a kill at that point; the container restarts
(`docker-compose.yml`, `restart: unless-stopped`). Only the private key is
parsed when a pair is loaded; the certificate is served as it is. Discovery has
the code's arithmetic in seconds, with its limits 60 and 30 as constants; the
time of the requests themselves is not counted. The IdP comes and goes.

## Runs

| Run | Question | Bounds |
|---|---|---|
| `Replay` | may any race of handlers, purge, a crash and a change of mode accept a key twice; is each grant one that atomic leases allow; do rows go away and requests end? | 2 handlers, 2 tokens of one jti expiring at 1 and 2, clock to 2, leeway 1, TTL 2, both modes, 1 crash, failing statements |
| `Jwks` | keys and ETag together under every order of stores; how far may failures overshoot; is every lookup answered; does the cache converge? | 2 handlers, 1 kid, 2 key sets, breaker at 2 |
| `Exchange` | one live token per id; what becomes of a used-up id; does the record say what the client saw; what do signals, one or two, do to requests? | 2 requests, 2 ids (one makes the event panic), 3 validation errors, tokens that expire at any time, 1 restart |
| `Audit` | memory, accounting, order, duplicates, draining | 3 events, channel 1, batch 2, 1 retry, 1 restart |
| `Startup` | kills at every point of startup, outages, the wait for the IdP | 2 kills, 3 pairs, 2 outages, the code's 60 s and 30 s |
| `Decode` | do the pure functions compute what their references say? | inputs of up to 5 of the bytes `A b _ = +`; up to 3 of 3 groups, every whitelist and limit |

Why the bounds suffice: every race of the code is between two handlers, or a
handler and a background task, and the properties that matter most are proved
for all values (below). One second of leeway with a clock to 2 has the first
token live, in the leeway and past its row, and a purge at each of these; the
two tokens of one jti let the second be accepted after the first's row was
purged. A crash takes the service from either mode to the other. Two key sets
give a stale fetch for every fresh one. Three events put one in flight, one in
the channel, and have one refused; a batch of 2 is flushed by size and by time.
`MaxPairs` exceeds `MaxKills`, so that the bound never stops startup. Two
outages let discovery fail in the middle of its backoff and the fetch after it.
Two requests with one id are all a replay takes, and all a second grant after a
purge; three validation errors have each status. Five bytes reach every value of
`bit_count` twice over, with a pad and a byte outside the alphabet at each place.

Deadlock is checked in the runs of `Jwks`, where handlers never finish. It is
switched off in `Replay` (every request is sent once and the clock ends),
`AuditTrail` (events are bounded, the exporter stops after shutdown), `Exchange`
(requests and restarts are bounded), `SigningKeys` and `Startup` (a service that
runs, with the kills used up, has nothing to do) and `Decode` (the input ends).

### What holds

- **NoRegrantBeforeExpiry, StrictBlocksEveryVariant, OneLiveTokenPerKey**: the
  code promises atomic recording, and only the primary key makes good on it in
  strict mode. They hold across purges, crashes and changes of mode.
- **ReplayAnswerHasCause**: no client is told of a replay it did not make
  because of another groups variant.
- **ImplementsLease**: the table, two statements, a purge and restarts refine
  one-step leases; every grant is compared with the live leases under the mode
  the process is in, a grant of the same token again included.
- **ExpiredRowsArePurged, EveryRequestAnswered**.
- **EtagNamesKeys, EventuallyCurrent**: the periodic refresh can overwrite newer
  keys with older ones, but it takes the ETag along, so that the next refresh
  repairs it. **BreakerBound**, **EveryLookupAnswered**.
- **ImplementsTickets**: handlers, database, purge, signals, crashes and restarts
  refine tickets. A handler that is dropped or killed does not give its id back
  before its token expires, and no later event changes what a client was told.
- **OneLiveTokenPerId, RefusedForACause**: whatever is dropped, killed, purged and
  started again, of the tokens an id yields at most one is unexpired, and a
  request is told of a replay only when *another* request used the id up: a retry
  after a lost attempt of one's own is such a request, a database error is not.
- **GrantsAreAccountedFor**: an id that was used up and left no token failed the
  group limits or the signature, or lost its client; a signed token is answered
  unless the event panicked.
- **RecordMatchesAnswer**: exactly the answers to requests that presented a
  token leave a record, with the status of the answer; panics and disconnects
  leave none. **EveryRequestEnds**.
- **ClosedPoolOnlyOnInterrupt**: a drain on SIGTERM alone fails no request with a
  closed pool. After a SIGINT, also one during such a drain, requests do fail so.
- **MemoryIsBounded, NothingVanishes, IndexedInOrder, DuplicatesAreBounded,
  EventuallySettled**: what the channel accepted is bounded, in order, and ends
  indexed, reported lost, or dead with the process.
- **CertBelongsToKey, KeyFileRestricted, KeySurvivesRestarts,
  EventuallyServes**: the order private key, mode, certificate, and the test for
  both files, make every kill harmless to the pair and its mode.
  **WaitIsBounded**: discovery never sleeps longer than its minute.
- **AccumulatorFits, DecodesAsPrescribed**. **FilterKeepsOrder**: with a whitelist
  a request beyond a limit is refused, also for groups that would be dropped, and
  any other gets its whitelisted groups in order. Without one there are no groups
  and no limits.

### Where code and documents part

Six runs end with a counterexample.

| Run | Document | Code |
|---|---|---|
| `Replay_once` | README.md:8 "each token can only be exchanged once" | again within the leeway, once the purge has run |
| `Replay_reuse` | README.md:151 reuse returns `401 replay_detected` | a concurrent reuse in strict mode returns 500 |
| `Jwks_breakerlatch` | design-004:134 until the cooldown expires | until the process restarts, unless an attempt already under way succeeds |
| `Keys_cert` | README.md:159 returns the certificate | after a kill during its write, a cut one (empty: `500 cert_not_loaded`) |
| `Startup_patience` | design-004:65 retries for up to 60 seconds | gives up at the fifth attempt, after 15 s of sleep |
| `Exchange_sigterm` | app.rs:128, 131 checkpoint on SIGINT/SIGTERM | on SIGTERM the process ends without one |

Others are plain from the definitions and have no run:

- Handlers that check the cooldown together all force-refresh (`CheckLimits` and
  `RecordAttempt` are two steps; jwks.rs:17 "Minimum cooldown between
  force-refresh attempts"), and a kid this handler's refresh fetched is
  `unknown_kid` when an older fetch was stored in between (`Relookup`;
  README.md:130).
- Within the leeway an expired token is minted with an `exp` in the past
  (`MintedExp`; README.md:128); strict mode stores every use as without groups,
  so that a restart in replay mode lets a with-groups exchange happen again
  (`HasGroups`; design-003:91).
- A failing replay statement ends the exchange with 500 (`DatabaseFails`;
  design-005:185 "Exchange requests still work"), and SIGINT's closed pool does
  the same to requests in flight.
- A failed JWKS fetch is `internal_error` (`StatusOf`; README.md:132 says `503
  idp_unavailable`), and at startup it is not retried (`FetchJwks`;
  design-004:147 "retry (same backoff)").
- A missing token, a panic and a disconnect are not audited (`Arrive`,
  `Conclude`, `Disconnect`; exchange.rs:5 "Logs all attempts"). A replay is
  recorded as `"success"` (exchange.rs:68; design-005:87 `'replay_detected'`).
- When none of the requested groups is whitelisted the token is minted without
  groups (`FilterGroups`), as README.md:146 says; design-002:83 has `403
  groups_not_allowed`. A missing and a malformed token are answered 422
  (`StatusOf`); README.md:125-126 says 400.
- What the full channel refuses goes without a word (`Offer`: audit_service.rs:44
  throws the result of `try_send` away); design-005:186 says "new sends are
  dropped with a warning". The event is offered before its insert is spawned, and
  may be in Splunk when the row is not yet written or has failed
  (`SendSucceeds`); design-001:106 says "Logs are written to SQLite first, then
  streamed to Splunk".
- With an empty whitelist the limits on groups are not looked at, and a request
  beyond them is exchanged (`FilterGroups`; README.md:126 "input limits
  exceeded").
- On SIGINT main returns without waiting for the task that checkpoints (`Exit`;
  pool.rs:56 "Call this before the process exits"). A SIGINT during the drain of
  a SIGTERM closes the pool under the requests actix still waits for (`Sigint`,
  `ClosePool`).
- A private key path with a directory takes the certificate from that directory
  (`Loads`; config.rs:189 "dir is ignored").
- The errors actix answers itself carry the request id `"-"` (error.rs:157 says
  the middleware replaces it; middleware.rs:65 sets the header only).

### Fairness

- `Replay`: weak fairness for each handler, for the purge's reading of the
  clock and for the restart (tokio polls what is ready; the container is
  restarted). Strong fairness for the DELETE: the hourly task tries again, and
  not every try fails. Nothing is assumed of failures, disconnects, crashes or
  time.
- `Jwks`: strong fairness for each handler's own steps and for the refresh task.
  Weak fairness would not do because a lock is enabled and disabled by others;
  tokio's lock serves its queue in order, so that a task free to take it again
  and again does. The HTTP client of the cache has a timeout of 30 s
  (`app.rs:42`), so that a fetch ends. `EventuallyCurrent` also assumes, as
  its antecedent, that the IdP does not fail every refresh (`IdpAnswers`).
- `Exchange`: weak fairness for each handler, whose awaits all end. Nothing is
  assumed of signals, the end of a stop, inserts, checkpoint, the purge, time,
  restart or clients.
- `AuditTrail`: weak fairness for the exporter, and for the POST being answered
  or failing (`SplunkAnswers`). The exporter's client has no timeout, so this is
  an assumption on the network, not a guarantee of the code.
- `Startup`: weak fairness for bootstrap, the container's restart included, and
  for the end of an outage; kills and outages end because they are bounded.

## Proofs

`tlapm` proves, for all values of the constants that satisfy the assumption
named in each module:

| Module | Proved of it | In |
|---|---|---|
| `Replay` | type correctness, `NoRegrantBeforeExpiry`, `StrictBlocksEveryVariant`, `OneLiveTokenPerKey`, `ReplayAnswerHasCause`, the refinement of `ReplayLease` | `ReplayProofs` |
| `Jwks` | type correctness, `EtagNamesKeys`, `BreakerBound`, `LockInv` | `JwksProofs` |
| `Exchange` | type correctness, `OneLiveTokenPerId`, `RefusedForACause`, `GrantsAreAccountedFor`, `RecordMatchesAnswer`, `ClosedPoolOnlyOnInterrupt`, the refinement of `Tickets` | `ExchangeProofs` |
| `AuditTrail` | type correctness, `MemoryIsBounded`, `NothingVanishes`, `IndexedInOrder`, `DuplicatesAreBounded` | `AuditProofs` |
| `SigningKeys` | type correctness, `CertBelongsToKey`, `KeyFileRestricted`, `KeySurvivesRestarts` | `StartupProofs` |
| `Startup` | that it implements `SigningKeys`; type correctness, `WaitIsBounded` | `StartupProofs` |
| `Base64url` | type correctness, `AccumulatorFits`, `DecodesAsPrescribed` | `Base64Proofs` |
| `GroupFilter` | `FilterKeepsOrder` of every request | `FilterProofs` |
| `Selection` | an element selected stands at its rank among those selected | `SelectionProofs` |

None of the replay properties is inductive. `NoRegrantBeforeExpiry` speaks of
the history, the INSERT looks at the table; what links them is
`LiveGrantsAreStored` (a grant whose token has not expired has its row), which
holds because the purge's cutoff is a clock value of the past. The strict-mode
property needs in addition that what the SELECT saw is still true at the
INSERT (`SelectStillValid`): meanwhile only strict handlers insert, with
`has_groups = 0`, and those rows the primary key catches. `RowsComeFromGrants`
gives a replay answer its cause; `MintedCapped` and `GrantedOnlyOnce` carry
`OneLiveTokenPerKey`; `OnlyGrantedPass` says that a failing statement lets
nobody through to the mint. `IInv` is the conjunction; each action is shown to
keep it. For the refinement, a successful insert maps to `Grant`, a restart in
the other mode to `SwitchMode`, the clock to `Elapse`, and every other step
leaves the leases alone.

In `Jwks`, `BreakerBound` is stated over failures plus handlers past the check,
because only then does a handler that counts a failure keep it: it leaves one
set as it raises the other. `EtagNamesKeys` needs `FetchedIsPublished`, so that
what is stored has a version. `LockInv` is the safety half of
`EveryLookupAnswered`: a guard is held only by a handler that awaits nothing,
and only tasks that will leave the lock's queue are in it.

In `Exchange`, what is missing from the properties is where a handler is:
`PlaceInv` says that it has a grant from the insert on, a token at no await, and
an outcome exactly when it is done. `DoneKeepsExchangeInv` and
`MoveKeepsExchangeInv` then treat the steps by what they do to one handler, and
`Die` separately, since it moves all of them. `OneLiveTokenPerId` needs
`TableInv`: a grant whose token has not expired has its row, and no two
rows have one id. `ClosedPoolOnlyOnInterrupt` follows from `PoolInv` (only an
interrupted process has closed its pool, and a start opens it) and from who can
be told of a closed pool (`ClosedPoolIsMet`). For the refinement of `Tickets`,
`Grant` maps to `Take`, a successful mint to `Issue`, a replay answer to
`Refuse`, `Expire` to `Lapse`, every other end to `Fail`, and `Die` to a `Fail`
of all handlers in flight; the rest, the purge included, leaves the contract's
state alone.

`AuditTrail` needs `ExporterInv` (the batch is empty while a flush runs, and not
full while the exporter collects) for the memory, and `LoggedInv` (what is on
its way carries the number of an event that was logged) for the order, which
needs besides `QueueInv` (what is in flight, in the batch and in the
channel ascends, in that order) and `RepeatInv` (an event in flight that comes
no later than something indexed was itself indexed by then: it is posted
again). The duplicates need `TimesInv`: what is in flight has been indexed at
most once for each attempt that has been answered, and by `QueueInv` what is still
queued not at all.

In `SigningKeys`, `SavedSoFar` lists what each step of saving finds of the steps
before it, and `FilesAreFounded` that a pair that served is still whole. In
`Startup` the bound on the wait is not linear: what was slept is at most
`(attempt - 1) * backoff`, because the backoff never shrinks, and a sleep begins
only while `attempt * backoff < MaxWait`.

`SelectionProofs` speaks of `Rank`, the number of selected places up to an
index. The induction over prefixes is one over sets of numbers
(`CountingUp`, from the well-foundedness of strict inclusion on finite
sets), because the library's own induction theorem takes an operator, which the
provers cannot instantiate. `FilterKeepsOrder` follows for every request. For
`DecodesAsPrescribed`, `Accounted` says what the three variables are once some
characters have been taken (the octets that are complete, and the low bits of
the last character), `DecodingInv` that these are the selected characters of
the part read; an octet depends on no later character (`OctetsAreFinal`), and
each four characters end three octets (`OctetsGrow`).

With these, every invariant, action property and refinement that a passing run
checks is proved. Only model-checked are the liveness properties, because the
provers handle neither fairness nor ENABLED: `ExpiredRowsArePurged`,
`EveryRequestAnswered`, `EventuallyCurrent`, `EveryLookupAnswered`,
`EventuallySettled`, `EventuallyServes` and `EveryRequestEnds`.

## Not modelled

- Health: two independent reads of components modelled elsewhere, used by
  nothing in the service.
- The daily purge of `request_log`: one DELETE by age on a table that nothing
  reads.
- The request-id middleware and the wording of error envelopes: one value copied
  once per request.
- Issuer, audience, signature and size checks beyond the error they end in: they
  are the `jsonwebtoken` library's, and keep no state.
- Configuration parsing other than `rsa_source`, API types, migrations other
  than the primary key, scripts.
- Power loss (SQLite's fsync), a clock set back, and more than one process on
  one database.

## Plan

All modules of the plan are written: `ReplayLease`, `Replay`, `Jwks`,
`AuditTrail`, `SigningKeys`, `Exchange` (with shutdown), `Tickets`, `Startup`,
`Base64url`, `GroupFilter` and `Selection`, and their proofs. What would add
most from here: contracts for the JWKS cache (a register that holds one
published set at a time) and for the export (at least once, in order), with
`Jwks` and `AuditTrail` refining them as `Exchange` refines `Tickets`.
