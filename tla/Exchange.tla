----------------------------- MODULE Exchange -----------------------------
(***************************************************************************)
(* The exchange endpoint from the arrival of a request to its answer, the  *)
(* audit row it leaves, and the end of the process under it: SIGTERM,      *)
(* SIGINT, a crash and the next start.  The key lookup and the replay      *)
(* check are taken by their outcomes (Jwks and Replay have their insides), *)
(* ALLOW_REPLAY is off, and the clock is no more than the set of tokens    *)
(* whose exp has passed: validation accepts those for another 30 s, while  *)
(* the purge may already delete their rows.                                *)
(***************************************************************************)
EXTENDS Naturals

CONSTANTS Request,      \* requests, each of which arrives at most once
          Id,           \* replay ids: jti, or the hash of the token
          Unsliceable,  \* ids longer than 8 bytes with no boundary at byte 8
          Rejections,   \* errors of the validation before the replay check
          Splunk,       \* whether the Splunk export is configured
          MaxRestarts   \* bound on the starts after the first

(* Database and PoolClosed are the sqlx errors inside ServiceError::Other. *)
Errors == {"MissingToken", "MalformedToken", "InvalidSignature", "ExpiredToken",
           "InvalidIssuer", "InvalidAudience", "UnknownKid", "Jwks",
           "ReplayDetected", "Signing", "Database", "PoolClosed"}

ASSUME ExchangeAssumption ==
    /\ Unsliceable \subseteq Id
    /\ Rejections \subseteq Errors \ {"MissingToken", "ReplayDetected"}
    /\ Splunk \in BOOLEAN
    /\ MaxRestarts \in Nat

VARIABLES proc,          \* the process
          restarts,      \* starts after the first
          pool,          \* the database pool
          interrupted,   \* the shutdown task has seen its SIGINT
          checkpointed,  \* it has run its WAL checkpoint
          pc,            \* where each handler is
          id,            \* its token's replay id
          outcome,       \* what its client got
          expired,       \* requests whose token's exp has passed
          usedJti,       \* requests whose row is in used_jti
          granted,       \* history: requests that inserted their row
          minted,        \* requests a token was signed for
          status,        \* response_code of its audit record; 0: none
          row            \* what became of that record's insert

procVars == <<proc, restarts, pool, interrupted, checkpointed>>
replayVars == <<expired, usedJti, granted>>
handlerVars == <<pc, id, outcome, minted>>
auditVars == <<status, row>>
vars == <<procVars, replayVars, handlerVars, auditVars>>

Answers == Errors \cup {"Exchanged"}
Serving == {"up", "draining", "stopping"}
InFlight == {"lookup", "replay", "granted"}

(* ServiceError::status_code, and 200 for the success. *)
StatusOf(answer) ==
    CASE answer = "Exchanged" -> 200
      [] answer \in {"MissingToken", "MalformedToken"} -> 422
      [] answer \in {"InvalidSignature", "ExpiredToken", "InvalidIssuer",
                     "InvalidAudience", "UnknownKid", "ReplayDetected"} -> 401
      [] OTHER -> 500

(* The response_code the handler writes into the audit record. *)
RecordedStatus(answer) ==
    CASE answer = "Exchanged" -> 200
      [] answer = "ReplayDetected" -> 401
      [] OTHER -> StatusOf(answer)

Init ==
    /\ proc = "up"
    /\ restarts = 0
    /\ pool = "open"
    /\ interrupted = FALSE
    /\ checkpointed = FALSE
    /\ pc = [r \in Request |-> "new"]
    /\ id \in [Request -> Id]
    /\ outcome = [r \in Request |-> "none"]
    /\ expired = {}
    /\ usedJti = {}
    /\ granted = {}
    /\ minted = {}
    /\ status = [r \in Request |-> 0]
    /\ row = [r \in Request |-> "none"]

(* The replay ids that have a row. *)
Used == {id[r] : r \in usedJti}

Goto(r, label) == pc' = [pc EXCEPT ![r] = label]

End(r, result) ==
    /\ Goto(r, "done")
    /\ outcome' = [outcome EXCEPT ![r] = result]

(* The event for Splunk takes the first 8 bytes of the replay id, which    *)
(* the record has on success and on a replay only.                         *)
EventPanics(r, answer) ==
    /\ Splunk
    /\ answer \in {"Exchanged", "ReplayDetected"}
    /\ id[r] \in Unsliceable

Record(r, answer) ==
    /\ status' = [status EXCEPT ![r] = RecordedStatus(answer)]
    /\ row' = [row EXCEPT ![r] = "spawned"]

ConcludeAuditingSuccess(r, answer) ==
    \/ EventPanics(r, answer) /\ End(r, "panicked") /\ UNCHANGED auditVars
    \/ /\ ~EventPanics(r, answer)
       /\ End(r, answer)
       /\ IF answer = "Exchanged" THEN Record(r, answer) ELSE UNCHANGED auditVars

(* The audit record, the event, the insert spawned, and the answer: no     *)
(* await in between.  A panic ends the handler with the connection.        *)
Conclude(r, answer) ==
    \/ EventPanics(r, answer) /\ End(r, "panicked") /\ UNCHANGED auditVars
    \/ ~EventPanics(r, answer) /\ End(r, answer) /\ Record(r, answer)
-----------------------------------------------------------------------------
(* The handler. *)

(* A request without a token is answered before anything is audited. *)
Arrive(r) ==
    /\ proc = "up"
    /\ pc[r] = "new"
    /\ \/ Goto(r, "lookup") /\ UNCHANGED outcome
       \/ End(r, "MissingToken")
    /\ UNCHANGED <<procVars, replayVars, id, minted, auditVars>>

(* Size, header, key and claims of the token are checked; that its exp has *)
(* passed does not yet refuse it.                                          *)
Validate(r) ==
    /\ proc \in Serving
    /\ pc[r] = "lookup"
    /\ \/ Goto(r, "replay") /\ UNCHANGED <<outcome, auditVars>>
       \/ \E answer \in Rejections : Conclude(r, answer)
    /\ UNCHANGED <<procVars, replayVars, id, minted>>

(* The outcomes of check_and_record_jti. *)
Grant(r) ==
    /\ pool = "open"
    /\ id[r] \notin Used
    /\ usedJti' = usedJti \cup {r}
    /\ granted' = granted \cup {r}
    /\ Goto(r, "granted")
    /\ UNCHANGED <<outcome, auditVars>>

RefuseReplay(r) ==
    /\ pool = "open"
    /\ id[r] \in Used
    /\ Conclude(r, "ReplayDetected")
    /\ UNCHANGED <<usedJti, granted>>

DatabaseFailsAsReplay(r) ==
    /\ Conclude(r, IF pool = "open" THEN "ReplayDetected" ELSE "PoolClosed")
    /\ UNCHANGED <<usedJti, granted>>

(* A statement may fail; on a closed pool each does. *)
DatabaseFails(r) ==
    /\ Conclude(r, IF pool = "open" THEN "Database" ELSE "PoolClosed")
    /\ UNCHANGED <<usedJti, granted>>

RecordJtiRetrying(r) ==
    /\ proc \in Serving
    /\ pc[r] = "replay"
    /\ Grant(r)
    /\ UNCHANGED <<procVars, expired, id, minted>>

RecordJti(r) ==
    /\ proc \in Serving
    /\ pc[r] = "replay"
    /\ Grant(r) \/ RefuseReplay(r) \/ DatabaseFails(r)
    /\ UNCHANGED <<procVars, expired, id, minted>>

MintBeforeLimits(r) ==
    /\ proc \in Serving
    /\ pc[r] = "granted"
    /\ minted' = minted \cup {r}
    /\ \E answer \in {"Exchanged", "MalformedToken", "Signing"} : Conclude(r, answer)
    /\ UNCHANGED <<procVars, replayVars, id>>

(* The id is used up: limits on the groups and the signature come after.   *)
Mint(r) ==
    /\ proc \in Serving
    /\ pc[r] = "granted"
    /\ \/ minted' = minted \cup {r} /\ Conclude(r, "Exchanged")
       \/ \E answer \in {"MalformedToken", "Signing"} :
             Conclude(r, answer) /\ UNCHANGED minted
    /\ UNCHANGED <<procVars, replayVars, id>>

Handle(r) == Validate(r) \/ RecordJti(r) \/ Mint(r)

DisconnectReturningId(r) ==
    /\ pc[r] \in InFlight
    /\ End(r, "dropped")
    /\ usedJti' = usedJti \ {r}
    /\ UNCHANGED <<procVars, expired, granted, id, minted, auditVars>>

(* A disconnected client's handler is dropped at whatever it awaits. *)
Disconnect(r) ==
    /\ pc[r] \in InFlight
    /\ End(r, "dropped")
    /\ UNCHANGED <<procVars, replayVars, id, minted, auditVars>>

(* insert_audit_log on its task; a failure is only logged. *)
InsertRow(r) ==
    /\ proc \in Serving
    /\ row[r] = "spawned"
    /\ \/ pool = "open" /\ row' = [row EXCEPT ![r] = "written"]
       \/ row' = [row EXCEPT ![r] = "failed"]
    /\ UNCHANGED <<procVars, replayVars, handlerVars, status>>
-----------------------------------------------------------------------------
(* The process. *)

SigtermClosingPool ==
    /\ proc = "up"
    /\ proc' = "draining"
    /\ pool' = "closed"
    /\ checkpointed' = TRUE
    /\ UNCHANGED <<restarts, interrupted, replayVars, handlerVars, auditVars>>

(* actix stops accepting and drains; ctrl_c does not wait for SIGTERM. *)
Sigterm ==
    /\ proc = "up"
    /\ proc' = "draining"
    /\ UNCHANGED <<restarts, pool, interrupted, checkpointed, replayVars, handlerVars,
                   auditVars>>

(* The shutdown task wakes.  actix stops its workers at once, unless it is *)
(* draining after a SIGTERM: then it goes on with that.                    *)
Sigint ==
    /\ ~interrupted
    /\ interrupted' = TRUE
    /\ \/ proc = "up" /\ proc' = "stopping"
       \/ proc = "draining" /\ UNCHANGED proc
    /\ UNCHANGED <<restarts, pool, checkpointed, replayVars, handlerVars, auditVars>>

(* checkpoint_and_close: the pool closes whether the checkpoint succeeds. *)
Checkpoint ==
    /\ proc \in Serving
    /\ interrupted
    /\ ~checkpointed
    /\ checkpointed' = TRUE
    /\ UNCHANGED <<proc, restarts, pool, interrupted, replayVars, handlerVars, auditVars>>

ClosePool ==
    /\ proc \in Serving
    /\ checkpointed
    /\ pool = "open"
    /\ pool' = "closed"
    /\ UNCHANGED <<proc, restarts, interrupted, checkpointed, replayVars, handlerVars,
                   auditVars>>

DieBeforeWorkers(how) ==
    /\ proc' = how
    /\ UNCHANGED <<restarts, pool, interrupted, checkpointed, replayVars, handlerVars,
                   auditVars>>

(* The end of the process takes the handlers and the spawned inserts. *)
Die(how) ==
    /\ proc' = how
    /\ pc' = [r \in Request |-> IF pc[r] \in InFlight THEN "done" ELSE pc[r]]
    /\ outcome' = [r \in Request |-> IF pc[r] \in InFlight THEN "dropped" ELSE outcome[r]]
    /\ row' = [r \in Request |-> IF row[r] = "spawned" THEN "lost" ELSE row[r]]
    /\ UNCHANGED <<restarts, pool, interrupted, checkpointed, replayVars, id, minted,
                   status>>

(* A drain ends when no request is left, or after 30 s; a forced stop when *)
(* main returns, which waits for neither inserts nor checkpoint.           *)
Exit ==
    /\ proc \in {"draining", "stopping"}
    /\ Die("exited")

Crash ==
    /\ proc \in Serving
    /\ Die("killed")

Restart ==
    /\ proc \in {"exited", "killed"}
    /\ restarts < MaxRestarts
    /\ proc' = "up"
    /\ restarts' = restarts + 1
    /\ pool' = "open"
    /\ interrupted' = FALSE
    /\ checkpointed' = FALSE
    /\ UNCHANGED <<replayVars, handlerVars, auditVars>>
-----------------------------------------------------------------------------
(* Time and the hourly purge. *)

Expire(r) ==
    /\ r \notin expired
    /\ expired' = expired \cup {r}
    /\ UNCHANGED <<procVars, usedJti, granted, handlerVars, auditVars>>

PurgeUnexpired ==
    /\ proc \in Serving
    /\ pool = "open"
    /\ \E purged \in SUBSET usedJti : usedJti' = usedJti \ purged
    /\ UNCHANGED <<procVars, expired, granted, handlerVars, auditVars>>

(* The rows deleted are those that had expired when the purge last read    *)
(* the clock: some of the rows that have by now.                           *)
Purge ==
    /\ proc \in Serving
    /\ pool = "open"
    /\ \E purged \in SUBSET (usedJti \cap expired) : usedJti' = usedJti \ purged
    /\ UNCHANGED <<procVars, expired, granted, handlerVars, auditVars>>

Next ==
    \/ \E r \in Request : \/ Arrive(r) \/ Handle(r) \/ Disconnect(r)
                          \/ InsertRow(r) \/ Expire(r)
    \/ Purge
    \/ Sigterm
    \/ Sigint
    \/ Checkpoint
    \/ ClosePool
    \/ Exit
    \/ Crash
    \/ Restart

Spec == Init /\ [][Next]_vars

(* Handlers are polled, and the lookup answers (Jwks). *)
Fairness == \A r \in Request : WF_vars(Handle(r))

FairSpec == Spec /\ Fairness
-----------------------------------------------------------------------------
(* Every variable has its type. *)
TypeOK ==
    /\ proc \in Serving \cup {"exited", "killed"}
    /\ restarts \in 0..MaxRestarts
    /\ pool \in {"open", "closed"}
    /\ interrupted \in BOOLEAN
    /\ checkpointed \in BOOLEAN
    /\ pc \in [Request -> InFlight \cup {"new", "done"}]
    /\ id \in [Request -> Id]
    /\ outcome \in [Request -> Answers \cup {"none", "dropped", "panicked"}]
    /\ expired \in SUBSET Request
    /\ usedJti \in SUBSET granted
    /\ granted \in SUBSET Request
    /\ minted \in SUBSET Request
    /\ status \in [Request -> {0, 200, 401, 422, 500}]
    /\ row \in [Request -> {"none", "spawned", "written", "failed", "lost"}]
    /\ proc \in {"exited", "killed"} => \A r \in Request : pc[r] \notin InFlight

(* Of the tokens minted for one replay id at most one is unexpired (a      *)
(* token lives no longer than the one it was minted for), whatever is      *)
(* dropped, killed, purged and started again.                              *)
OneLiveTokenPerId ==
    \A r, s \in minted : r # s /\ id[r] = id[s] => r \in expired \/ s \in expired

(* A token is refused as a replay only after another request used its id   *)
(* up: neither its own lost attempt nor a database error looks like one.   *)
RefusedForACause ==
    \A r \in Request : outcome[r] = "ReplayDetected" =>
        \E s \in granted : s # r /\ id[s] = id[r]

(* What used an id up and left no token is one of the failures after the   *)
(* replay check, and a token that was signed is answered unless the event  *)
(* for Splunk panicked.                                                    *)
GrantsAreAccountedFor ==
    \A r \in granted : pc[r] = "done" =>
        outcome[r] \in IF r \in minted THEN {"Exchanged", "panicked"}
                       ELSE {"MalformedToken", "Signing", "dropped"}

(* Every answer to a request that presented a token leaves one attempt at  *)
(* an audit record, with the status the client saw, and nothing else does. *)
RecordMatchesAnswer ==
    \A r \in Request :
        IF outcome[r] \in Answers \ {"MissingToken"}
        THEN row[r] # "none" /\ status[r] = StatusOf(outcome[r])
        ELSE row[r] = "none" /\ status[r] = 0

(* No request meets a closed pool in a process that was not interrupted:  *)
(* a drain on SIGTERM alone fails nobody, however it falls on a request.   *)
(* A SIGINT does, also one that comes during the drain.                    *)
ClosedPoolOnlyOnInterrupt ==
    [][\A r \in Request :
          pc[r] = "replay" /\ outcome'[r] = "PoolClosed" => interrupted]_vars

(* What an outcome is to a client: everything but a token or the refusal   *)
(* of a replay is a failure.                                               *)
Told(result) ==
    CASE result = "none" -> "nothing"
      [] result = "Exchanged" -> "token"
      [] result = "ReplayDetected" -> "replay"
      [] OTHER -> "failure"

ReplayTickets == INSTANCE Tickets WITH
    Client <- Request, lapsed <- expired, holders <- granted, issued <- minted,
    told <- [r \in Request |-> Told(outcome[r])]

(* Handlers, database, purge, signals, crashes and restarts implement      *)
(* tickets: an id is taken in one step and stays taken until the token     *)
(* expires, the new token goes to a request that took it, and no answer is *)
(* ever revised.                                                           *)
ImplementsTickets ==
    ReplayTickets!TicketsInit /\ [][ReplayTickets!TicketsNext]_(ReplayTickets!ticketVars)

(* Every handler ends: with an answer, its client or the process. *)
EveryRequestEnds == \A r \in Request : pc[r] = "lookup" ~> pc[r] = "done"
-----------------------------------------------------------------------------
(* What the documents say. *)

(* app.rs, lines 128 and 131: the handler registered "to checkpoint WAL    *)
(* before exit" waits for "SIGINT/SIGTERM".                                *)
SigtermCheckpoints ==
    [][proc = "draining" /\ proc' = "exited" => checkpointed]_vars
=============================================================================
