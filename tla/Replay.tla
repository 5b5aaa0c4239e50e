------------------------------ MODULE Replay ------------------------------
(***************************************************************************)
(* The stateful half of POST /api/v1/exchange: expiry check, replay        *)
(* protection in the used_jti table, minting, the hourly purge and process *)
(* restarts.  Handlers run concurrently on a multi-threaded runtime; each  *)
(* await is a point where other handlers run, where the client may drop    *)
(* the request and where the process may die.  SQLite executes one         *)
(* statement at a time and keeps what it committed.                        *)
(***************************************************************************)
EXTENDS Integers, Sequences

CONSTANTS Request,       \* exchange requests, each sent once
          Token,         \* inbound tokens with a valid signature
          ReplayId,      \* jti claims and token hashes
          IdOf,          \* replay id of a token
          ExpOf,         \* exp claim of a token
          Leeway,        \* 30 s in the code
          TokenTtl,      \* token_ttl_seconds
          Modes,         \* values ALLOW_REPLAY has over the restarts
          FaultsHappen,  \* may a statement or the signature fail?
          MaxClock,      \* bound on the clock
          MaxRestarts    \* bound on the crashes

ASSUME ReplayAssumption ==
    /\ IdOf \in [Token -> ReplayId]
    /\ ExpOf \in [Token -> Nat]
    /\ Leeway \in Nat
    /\ TokenTtl \in Nat
    /\ Modes \subseteq BOOLEAN
    /\ FaultsHappen \in BOOLEAN
    /\ MaxClock \in Nat
    /\ MaxRestarts \in Nat

VARIABLES clock,        \* Utc::now().timestamp()
          up,           \* the process runs
          allowReplay,  \* config.allow_replay of the running process
          usedJti,      \* rows of the used_jti table
          cutoff,       \* now of a purge whose DELETE is due; 0: none is
          pc,           \* where each handler is, or its answer
          tok,          \* the token each request carries
          groups,       \* the groups it asks for
          outExp,       \* exp claim of the token minted for it; 0: none
          grants,       \* history: accepted replay ids, in commit order
          restarts

vars == <<clock, up, allowReplay, usedJti, cutoff, pc, tok, groups, outExp,
          grants, restarts>>

GroupKinds == {"none", "ok", "oversize"}
InFlight == {"check", "insert", "mint"}
Answers == {"minted", "expired_token", "replay_detected", "malformed_token",
            "internal_error", "aborted"}

RowType == [jti : ReplayId, hasGroups : BOOLEAN, exp : Nat]
GrantType == [req : Request, jti : ReplayId, hasGroups : BOOLEAN,
              strict : BOOLEAN, exp : Nat, at : Nat]

Init ==
    /\ clock = 0
    /\ up = TRUE
    /\ allowReplay \in Modes
    /\ usedJti = {}
    /\ cutoff = 0
    /\ pc = [r \in Request |-> "new"]
    /\ tok \in [Request -> Token]
    /\ groups \in [Request -> GroupKinds]
    /\ outExp = [r \in Request |-> 0]
    /\ grants = <<>>
    /\ restarts = 0
-----------------------------------------------------------------------------
(* The table. *)

Id(r) == IdOf[tok[r]]
Exp(r) == ExpOf[tok[r]]

(* has_groups is what the request asks for, before the whitelist; strict   *)
(* mode always writes 0.                                                   *)
HasGroups(r) == allowReplay /\ groups[r] # "none"

KeyNeverTaken(jti, g) == FALSE
KeyTakenByJti(jti, g) == \E row \in usedJti : row.jti = jti
KeyTaken(jti, g) == \E row \in usedJti : row.jti = jti /\ row.hasGroups = g

JtiSeenWithoutGroups(jti) == KeyTaken(jti, FALSE)
JtiSeen(jti) == \E row \in usedJti : row.jti = jti

Record(r) ==
    /\ usedJti' = usedJti \cup
          {[jti |-> Id(r), hasGroups |-> HasGroups(r), exp |-> Exp(r)]}
    /\ grants' = Append(grants,
          [req |-> r, jti |-> Id(r), hasGroups |-> HasGroups(r),
           strict |-> ~allowReplay, exp |-> Exp(r), at |-> clock])

Goto(r, label) == pc' = [pc EXCEPT ![r] = label]
-----------------------------------------------------------------------------
(* One handler. *)

(* jsonwebtoken rejects a token only once exp + leeway has passed. *)
Validate(r) ==
    /\ up
    /\ pc[r] = "new"
    /\ \/ clock <= Exp(r) + Leeway /\ Goto(r, "check")
       \/ clock > Exp(r) + Leeway /\ Goto(r, "expired_token")
    /\ UNCHANGED <<clock, up, allowReplay, usedJti, cutoff, tok, groups, outExp,
                   grants, restarts>>

(* Replay mode: one INSERT OR IGNORE decides. *)
InsertOrIgnore(r) ==
    /\ pc[r] = "check"
    /\ allowReplay
    /\ \/ /\ ~KeyTaken(Id(r), HasGroups(r))
          /\ Record(r)
          /\ Goto(r, "mint")
       \/ /\ KeyTaken(Id(r), HasGroups(r))
          /\ Goto(r, "replay_detected")
          /\ UNCHANGED <<usedJti, grants>>
    /\ UNCHANGED <<clock, up, allowReplay, cutoff, tok, groups, outExp, restarts>>

(* Strict mode: a SELECT, and after it a separate INSERT. *)
SelectJti(r) ==
    /\ pc[r] = "check"
    /\ ~allowReplay
    /\ \/ JtiSeen(Id(r)) /\ Goto(r, "replay_detected")
       \/ ~JtiSeen(Id(r)) /\ Goto(r, "insert")
    /\ UNCHANGED <<clock, up, allowReplay, usedJti, cutoff, tok, groups, outExp,
                   grants, restarts>>

InsertJtiWaits(r) ==
    /\ pc[r] = "insert"
    /\ ~KeyTaken(Id(r), HasGroups(r))
    /\ Record(r)
    /\ Goto(r, "mint")
    /\ UNCHANGED <<clock, up, allowReplay, cutoff, tok, groups, outExp, restarts>>

(* A primary-key conflict is an sqlx error, which the handler answers 500. *)
InsertJti(r) ==
    /\ pc[r] = "insert"
    /\ \/ /\ ~KeyTaken(Id(r), HasGroups(r))
          /\ Record(r)
          /\ Goto(r, "mint")
       \/ /\ KeyTaken(Id(r), HasGroups(r))
          /\ Goto(r, "internal_error")
          /\ UNCHANGED <<usedJti, grants>>
    /\ UNCHANGED <<clock, up, allowReplay, cutoff, tok, groups, outExp, restarts>>

StatementFails(r) ==
    /\ FaultsHappen
    /\ pc[r] \in {"check", "insert"}
    /\ Goto(r, "internal_error")
    /\ UNCHANGED <<clock, up, allowReplay, usedJti, cutoff, tok, groups, outExp,
                   grants, restarts>>

UncappedExp(r) == clock + TokenTtl

(* The minted token expires with its TTL or with the inbound token. *)
MintedExp(r) == IF clock + TokenTtl < Exp(r) THEN clock + TokenTtl ELSE Exp(r)

(* Group limits are checked only now, after the replay id was recorded. *)
Mint(r) ==
    /\ pc[r] = "mint"
    /\ \/ /\ groups[r] = "oversize"
          /\ Goto(r, "malformed_token")
          /\ UNCHANGED outExp
       \/ /\ groups[r] # "oversize"
          /\ Goto(r, "minted")
          /\ outExp' = [outExp EXCEPT ![r] = MintedExp(r)]
       \/ /\ groups[r] # "oversize"
          /\ FaultsHappen
          /\ Goto(r, "internal_error")
          /\ UNCHANGED outExp
    /\ UNCHANGED <<clock, up, allowReplay, usedJti, cutoff, tok, groups, grants,
                   restarts>>

(* The client disconnects: the handler's future is dropped at an await.  A *)
(* statement already sent still commits, which is the same as dropping the *)
(* handler right after it.                                                 *)
Disconnect(r) ==
    /\ pc[r] \in InFlight
    /\ Goto(r, "aborted")
    /\ UNCHANGED <<clock, up, allowReplay, usedJti, cutoff, tok, groups, outExp,
                   grants, restarts>>

Handle(r) ==
    \/ Validate(r)
    \/ InsertOrIgnore(r)
    \/ SelectJti(r)
    \/ InsertJti(r)
    \/ Mint(r)
-----------------------------------------------------------------------------
(* The hourly task reads the clock, then sends its DELETE. *)

PurgeReadsClockEarly ==
    /\ up
    /\ cutoff = 0
    /\ clock > 0
    /\ cutoff' = clock + Leeway
    /\ UNCHANGED <<clock, up, allowReplay, usedJti, pc, tok, groups, outExp,
                   grants, restarts>>

PurgeReadsClock ==
    /\ up
    /\ cutoff = 0
    /\ clock > 0
    /\ cutoff' = clock
    /\ UNCHANGED <<clock, up, allowReplay, usedJti, pc, tok, groups, outExp,
                   grants, restarts>>

PastRetention(row) == row.exp <= cutoff
NotYetExpired(row) == row.exp > cutoff
Purgeable(row) == row.exp < cutoff

PurgeDeletes ==
    /\ cutoff > 0
    /\ usedJti' = {row \in usedJti : ~Purgeable(row)}
    /\ cutoff' = 0
    /\ UNCHANGED <<clock, up, allowReplay, pc, tok, groups, outExp, grants, restarts>>

(* The task reports the error and comes back an hour later. *)
PurgeFails ==
    /\ FaultsHappen
    /\ cutoff > 0
    /\ cutoff' = 0
    /\ UNCHANGED <<clock, up, allowReplay, usedJti, pc, tok, groups, outExp,
                   grants, restarts>>
-----------------------------------------------------------------------------
(* The process and time. *)

(* A crash takes handlers and tasks with it; the table is on disk. *)
Crash ==
    /\ up
    /\ restarts < MaxRestarts
    /\ up' = FALSE
    /\ restarts' = restarts + 1
    /\ cutoff' = 0
    /\ pc' = [r \in Request |-> IF pc[r] \in InFlight THEN "aborted" ELSE pc[r]]
    /\ UNCHANGED <<clock, allowReplay, usedJti, tok, groups, outExp, grants>>

Restart ==
    /\ ~up
    /\ up' = TRUE
    /\ allowReplay' \in Modes
    /\ UNCHANGED <<clock, usedJti, cutoff, pc, tok, groups, outExp, grants, restarts>>

Tick ==
    /\ clock < MaxClock
    /\ clock' = clock + 1
    /\ UNCHANGED <<up, allowReplay, usedJti, cutoff, pc, tok, groups, outExp,
                   grants, restarts>>

Next ==
    \/ \E r \in Request : Handle(r) \/ StatementFails(r) \/ Disconnect(r)
    \/ PurgeReadsClock
    \/ PurgeDeletes
    \/ PurgeFails
    \/ Crash
    \/ Restart
    \/ Tick

Spec == Init /\ [][Next]_vars

(* The runtime polls every ready handler and the purge task, not every     *)
(* DELETE fails, and the container is restarted (restart: unless-stopped). *)
Fairness ==
    /\ \A r \in Request : WF_vars(Handle(r))
    /\ WF_vars(PurgeReadsClock)
    /\ SF_vars(PurgeDeletes)
    /\ WF_vars(Restart)

FairSpec == Spec /\ Fairness
-----------------------------------------------------------------------------
(* Every variable has its type; a grant carries the claims of its request. *)
TypeOK ==
    /\ clock \in 0..MaxClock
    /\ up \in BOOLEAN
    /\ allowReplay \in Modes
    /\ usedJti \subseteq RowType
    /\ cutoff \in 0..clock
    /\ pc \in [Request -> {"new"} \cup InFlight \cup Answers]
    /\ tok \in [Request -> Token]
    /\ groups \in [Request -> GroupKinds]
    /\ outExp \in [Request -> Nat]
    /\ grants \in Seq(GrantType)
    /\ restarts \in 0..MaxRestarts

SameKey(g, h) == g.jti = h.jti /\ g.hasGroups = h.hasGroups

(* No key (jti, has_groups) is accepted a second time while the token it   *)
(* was first accepted for is unexpired: whatever handlers race, however    *)
(* the purge falls between their statements, and across restarts.          *)
NoRegrantBeforeExpiry ==
    \A i, j \in DOMAIN grants :
        i < j /\ SameKey(grants[i], grants[j]) => grants[i].exp < grants[j].at

(* In strict mode a replay id already accepted with any groups variant,    *)
(* also by an earlier process in replay mode, is not accepted again before *)
(* that token expires, although SELECT and INSERT are separate statements. *)
StrictBlocksEveryVariant ==
    \A i, j \in DOMAIN grants :
        /\ i < j
        /\ grants[j].strict
        /\ grants[i].jti = grants[j].jti
        => grants[i].exp < grants[j].at

(* At no time are two unexpired downstream tokens in circulation for one   *)
(* key: by the time a key is accepted again, the token minted first has    *)
(* expired, because its exp was capped at the inbound one.                 *)
OneLiveTokenPerKey ==
    \A i, j \in DOMAIN grants :
        i # j /\ SameKey(grants[i], grants[j])
        => \/ outExp[grants[i].req] < clock
           \/ outExp[grants[j].req] < clock

(* replay_detected is never answered to the first use of an id: somebody   *)
(* was granted it before (in replay mode, for the same groups variant).    *)
ReplayAnswerHasCause ==
    [][\A r \in Request :
          pc[r] # "replay_detected" /\ pc'[r] = "replay_detected"
          => \E i \in DOMAIN grants :
                /\ grants[i].jti = Id(r)
                /\ grants[i].req # r
                /\ allowReplay => grants[i].hasGroups = HasGroups(r)]_vars

(* Rows of expired tokens do not stay: the table cannot grow for ever. *)
ExpiredRowsArePurged ==
    \A id \in ReplayId :
        (\E row \in usedJti : row.jti = id /\ row.exp < clock)
        ~> ~(\E row \in usedJti : row.jti = id /\ row.exp < clock)

(* Every request is answered or aborted, whatever fails around it. *)
EveryRequestAnswered == \A r \in Request : <>(pc[r] \in Answers)

LeaseOf(g) == [jti |-> g.jti, hasGroups |-> g.hasGroups, exp |-> g.exp]

ReplayLeases == INSTANCE ReplayLease WITH
    Expiry <- {ExpOf[t] : t \in Token}, now <- clock, strict <- ~allowReplay,
    leases <- [i \in DOMAIN grants |-> LeaseOf(grants[i])]

(* The table, its statements and its purge implement atomic leases: every  *)
(* accepted exchange grants one, in the mode the process is in, and finds  *)
(* no live lease that conflicts with it in that mode.                      *)
ImplementsLease ==
    ReplayLeases!LeaseInit /\ [][ReplayLeases!LeaseNext]_(ReplayLeases!leaseVars)
-----------------------------------------------------------------------------
(* The inductive strengthening of the safety properties. *)

(* A grant carries the claims of its request and lies in the past. *)
GrantsMatchRequests ==
    \A i \in DOMAIN grants :
        /\ grants[i].jti = Id(grants[i].req)
        /\ grants[i].exp = Exp(grants[i].req)
        /\ grants[i].at <= clock

(* Whoever was granted is past the table. *)
GrantedOnlyOnce ==
    \A i \in DOMAIN grants :
        pc[grants[i].req] \notin {"new", "check", "insert"}

(* Nobody gets to the mint without a grant. *)
OnlyGrantedPass ==
    \A r \in Request :
        pc[r] \in {"mint", "minted", "malformed_token"} =>
            \E i \in DOMAIN grants : grants[i].req = r

LiveGrantsAreStored ==
    \A i \in DOMAIN grants :
        grants[i].exp >= clock => LeaseOf(grants[i]) \in usedJti

RowsComeFromGrants ==
    \A row \in usedJti : \E i \in DOMAIN grants : SameKey(grants[i], row)

(* What the SELECT of strict mode saw still holds at the INSERT, but for   *)
(* rows of strict mode itself, which the primary key catches.              *)
SelectStillValid ==
    \A r \in Request : pc[r] = "insert" =>
        /\ ~allowReplay
        /\ \A i \in DOMAIN grants :
              grants[i].jti = Id(r) /\ grants[i].hasGroups => grants[i].exp < clock

OnlyWhileUp == ~up => cutoff = 0 /\ \A r \in Request : pc[r] \notin InFlight

MintedCapped == \A r \in Request : outExp[r] <= Exp(r)

(* The inductive invariant: a live grant's row is in the table, so that    *)
(* neither INSERT can accept its key again.                                *)
IInv ==
    /\ TypeOK
    /\ GrantsMatchRequests
    /\ GrantedOnlyOnce
    /\ OnlyGrantedPass
    /\ LiveGrantsAreStored
    /\ RowsComeFromGrants
    /\ SelectStillValid
    /\ OnlyWhileUp
    /\ MintedCapped
    /\ NoRegrantBeforeExpiry
    /\ StrictBlocksEveryVariant
-----------------------------------------------------------------------------
(* What the documents say. *)

(* README.md, line 8: "each token can only be exchanged once". *)
EachTokenExchangedOnce ==
    \A r, s \in Request :
        pc[r] = "minted" /\ pc[s] = "minted" /\ tok[r] = tok[s] => r = s

(* README.md, line 151: "Reusing the same jti returns 401                  *)
(* replay_detected".                                                       *)
ReuseIsAnsweredReplay ==
    [][\A r \in Request :
          /\ pc[r] \in InFlight
          /\ pc'[r] \in Answers \ {"aborted"}
          /\ JtiSeen(Id(r))
          /\ \A i \in DOMAIN grants : grants[i].req # r
          => pc'[r] = "replay_detected"]_vars
=============================================================================
