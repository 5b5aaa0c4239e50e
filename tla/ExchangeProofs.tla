--------------------------- MODULE ExchangeProofs ---------------------------
(***************************************************************************)
(* The exchange endpoint, proved for any number of requests, replay ids    *)
(* and restarts, with Splunk and without.                                  *)
(***************************************************************************)
EXTENDS Exchange, TLAPS

(* Where a handler is tells what it has: an outcome when it is done, a     *)
(* grant from the insert on, and no token before it is done.               *)
PlaceInv ==
    \A r \in Request :
        /\ (pc[r] = "done") = (outcome[r] # "none")
        /\ pc[r] \in {"new", "lookup", "replay"} => r \notin granted
        /\ pc[r] = "granted" => r \in granted /\ r \notin minted

(* The table knows every grant whose token has not expired, and no id      *)
(* twice; every token has its grant.                                       *)
TableInv ==
    /\ granted \ expired \subseteq usedJti
    /\ \A r, s \in usedJti : id[r] = id[s] => r = s
    /\ minted \subseteq granted

ExchangeInv ==
    /\ TypeOK
    /\ PlaceInv
    /\ TableInv
    /\ RefusedForACause
    /\ GrantsAreAccountedFor
    /\ RecordMatchesAnswer

(* What the audit record says of an answer is the status the client sees.  *)
LEMMA RecordedIsAnswered ==
    ASSUME NEW answer \in Answers
    PROVE  /\ RecordedStatus(answer) = StatusOf(answer)
           /\ StatusOf(answer) \in {200, 401, 422, 500}
<1>1. StatusOf(answer) \in {200, 401, 422, 500}
  BY DEF StatusOf
<1>2. CASE answer = "Exchanged"
  BY <1>2 DEF StatusOf, RecordedStatus
<1>3. CASE answer = "ReplayDetected"
  BY <1>3 DEF StatusOf, RecordedStatus
<1>4. CASE answer # "Exchanged" /\ answer # "ReplayDetected"
  <2>1. RecordedStatus(answer) = StatusOf(answer)
    BY <1>4, Zenon DEF RecordedStatus
  <2>2. QED BY <2>1, <1>1
<1>5. QED BY <1>1, <1>2, <1>3, <1>4

(* Concluding a handler gives it an outcome and, but for a panic, a record *)
(* that matches; no other handler's audit changes.                         *)
LEMMA ConcludeRecords ==
    ASSUME ExchangeInv, NEW r \in Request, NEW answer \in Answers \ {"MissingToken"},
           pc[r] # "done", Conclude(r, answer), id' = id
    PROVE  \E x \in {answer, "panicked"} :
             /\ pc' = [pc EXCEPT ![r] = "done"]
             /\ outcome' = [outcome EXCEPT ![r] = x]
             /\ x = "panicked" => answer \in {"Exchanged", "ReplayDetected"}
             /\ RecordMatchesAnswer'
             /\ status' \in [Request -> {0, 200, 401, 422, 500}]
             /\ row' \in [Request -> {"none", "spawned", "written", "failed", "lost"}]
<1>t. /\ status \in [Request -> {0, 200, 401, 422, 500}]
      /\ row \in [Request -> {"none", "spawned", "written", "failed", "lost"}]
      /\ outcome \in [Request -> Answers \cup {"none", "dropped", "panicked"}]
      /\ outcome[r] = "none" /\ RecordMatchesAnswer
  BY DEF ExchangeInv, TypeOK, PlaceInv
<1>n. "none" \notin Answers /\ "panicked" \notin Answers /\ "dropped" \notin Answers
  BY DEF Answers, Errors
<1>1. CASE EventPanics(r, answer) /\ End(r, "panicked") /\ UNCHANGED auditVars
  BY <1>1, <1>t, <1>n DEF EventPanics, End, Goto, auditVars, RecordMatchesAnswer
<1>2. CASE ~EventPanics(r, answer) /\ End(r, answer) /\ Record(r, answer)
  <2>0. RecordedStatus(answer) = StatusOf(answer) /\ StatusOf(answer) \in {200, 401, 422, 500}
    BY RecordedIsAnswered
  <2>1. status' = [status EXCEPT ![r] = StatusOf(answer)] /\ StatusOf(answer) \in {200, 401, 422, 500}
    <3>1. status' = [status EXCEPT ![r] = RecordedStatus(answer)]
      BY <1>2, Zenon DEF Record
    <3>2. QED BY <3>1, <2>0
  <2>2. row' = [row EXCEPT ![r] = "spawned"] /\ outcome' = [outcome EXCEPT ![r] = answer]
    BY <1>2 DEF Record, End
  <2>3. RecordMatchesAnswer'
    BY <2>1, <2>2, <1>t DEF RecordMatchesAnswer
  <2>4. answer # "panicked" /\ pc' = [pc EXCEPT ![r] = "done"]
    BY <1>2, <1>n DEF End, Goto
  <2>5. /\ status' \in [Request -> {0, 200, 401, 422, 500}]
        /\ row' \in [Request -> {"none", "spawned", "written", "failed", "lost"}]
    BY <2>1, <2>2, <1>t
  <2>6. QED BY <2>2, <2>3, <2>4, <2>5
<1>3. QED BY <1>1, <1>2 DEF Conclude

(* A handler that ends without a record: no token, or nobody to answer.    *)
LEMMA EndKeepsRecords ==
    ASSUME ExchangeInv, NEW r \in Request, NEW x \in {"MissingToken", "dropped"},
           pc[r] # "done", End(r, x), UNCHANGED auditVars
    PROVE  /\ pc' = [pc EXCEPT ![r] = "done"]
           /\ outcome' = [outcome EXCEPT ![r] = x]
           /\ RecordMatchesAnswer'
<1>t. /\ outcome \in [Request -> Answers \cup {"none", "dropped", "panicked"}]
      /\ outcome[r] = "none" /\ RecordMatchesAnswer
  BY DEF ExchangeInv, TypeOK, PlaceInv
<1>n. "none" \notin Answers /\ "dropped" \notin Answers
  BY DEF Answers, Errors
<1>1. QED BY <1>t, <1>n DEF End, Goto, auditVars, RecordMatchesAnswer

(* The end of the process drops handlers and loses inserts, not records.   *)
LEMMA DieKeepsExchangeInv ==
    ASSUME ExchangeInv, NEW how \in {"exited", "killed"}, Die(how)
    PROVE  ExchangeInv'
<1>t. TypeOK /\ PlaceInv /\ RecordMatchesAnswer
  BY DEF ExchangeInv
<1>n. "none" \notin Answers /\ "dropped" \notin Answers
  BY DEF Answers, Errors
<1>1. /\ proc' = how /\ UNCHANGED <<restarts, pool, interrupted, checkpointed, replayVars, id, minted, status>>
      /\ \A r \in Request :
            /\ pc'[r] = IF pc[r] \in InFlight THEN "done" ELSE pc[r]
            /\ outcome'[r] = IF pc[r] \in InFlight THEN "dropped" ELSE outcome[r]
            /\ row'[r] = IF row[r] = "spawned" THEN "lost" ELSE row[r]
  BY DEF Die
<1>2. TypeOK'
  BY <1>t, <1>1 DEF Die, TypeOK, InFlight, replayVars
<1>3. PlaceInv'
  BY <1>t, <1>1 DEF PlaceInv, TypeOK, InFlight, replayVars
<1>4. TableInv' /\ RefusedForACause'
  BY <1>1 DEF ExchangeInv, TableInv, RefusedForACause, replayVars
<1>5. GrantsAreAccountedFor'
  BY <1>t, <1>1
  DEF ExchangeInv, GrantsAreAccountedFor, PlaceInv, InFlight, TypeOK, replayVars
<1>6. RecordMatchesAnswer'
  <2>1. ASSUME NEW r \in Request, pc[r] \in InFlight
        PROVE  outcome[r] = "none" /\ row[r] = "none" /\ status[r] = 0
    BY <2>1, <1>t, <1>n DEF PlaceInv, RecordMatchesAnswer, InFlight
  <2>2. QED BY <2>1, <1>t, <1>n, <1>1 DEF RecordMatchesAnswer
<1>7. QED BY <1>2, <1>3, <1>4, <1>5, <1>6 DEF ExchangeInv

(* A handler that moves on, by a grant or without, keeps every audit.      *)
LEMMA MoveKeepsExchangeInv ==
    ASSUME ExchangeInv, NEW r \in Request,
           NEW label \in InFlight,
           \/ /\ label = "granted" /\ pc[r] = "replay" /\ id[r] \notin Used
              /\ granted' = granted \cup {r} /\ usedJti' = usedJti \cup {r}
           \/ /\ label # "granted" /\ pc[r] \in {"new", "lookup"}
              /\ granted' = granted /\ usedJti' = usedJti,
           proc \in Serving, Goto(r, label),
           UNCHANGED <<procVars, expired, id, outcome, minted, auditVars>>
    PROVE  ExchangeInv'
<1>t. TypeOK /\ PlaceInv
  BY DEF ExchangeInv
<1>1. pc' = [pc EXCEPT ![r] = label] /\ r \notin granted /\ outcome[r] = "none" /\ label # "done"
  BY <1>t DEF Goto, PlaceInv, InFlight, TypeOK
<1>2. TypeOK'
  BY <1>t, <1>1 DEF TypeOK, procVars, auditVars, Serving
<1>3. PlaceInv'
  BY <1>t, <1>1 DEF PlaceInv, TypeOK, ExchangeInv, TableInv, InFlight
<1>4. TableInv'
  BY <1>t, <1>1 DEF ExchangeInv, TableInv, Used
<1>5. RefusedForACause' /\ RecordMatchesAnswer'
  BY <1>1 DEF ExchangeInv, RefusedForACause, RecordMatchesAnswer, auditVars
<1>6. GrantsAreAccountedFor'
  BY <1>t, <1>1 DEF ExchangeInv, GrantsAreAccountedFor, TypeOK
<1>7. QED BY <1>2, <1>3, <1>4, <1>5, <1>6 DEF ExchangeInv

(* A handler that is done, with what its outcome says of grant and token.  *)
LEMMA DoneKeepsExchangeInv ==
    ASSUME ExchangeInv, NEW r \in Request,
           NEW x \in Answers \cup {"dropped", "panicked"},
           pc[r] # "done",
           pc' = [pc EXCEPT ![r] = "done"], outcome' = [outcome EXCEPT ![r] = x],
           x = "ReplayDetected" => r \notin granted /\ id[r] \in Used,
           minted' \in {minted, minted \cup {r}},
           minted' # minted => pc[r] = "granted" /\ x \in {"Exchanged", "panicked"},
           pc[r] = "granted" /\ minted' = minted => x \in {"MalformedToken", "Signing", "dropped"},
           RecordMatchesAnswer',
           status' \in [Request -> {0, 200, 401, 422, 500}],
           row' \in [Request -> {"none", "spawned", "written", "failed", "lost"}],
           UNCHANGED <<procVars, replayVars, id>>
    PROVE  ExchangeInv'
<1>t. TypeOK /\ PlaceInv /\ TableInv
  BY DEF ExchangeInv
<1>n. "none" \notin Answers
  BY DEF Answers, Errors
<1>1. TypeOK'
  BY <1>t DEF TypeOK, procVars, replayVars, InFlight
<1>2. PlaceInv'
  BY <1>t, <1>n DEF PlaceInv, TypeOK, replayVars
<1>3. TableInv'
  BY <1>t DEF TableInv, PlaceInv, replayVars
<1>4. RefusedForACause'
  BY <1>t DEF ExchangeInv, RefusedForACause, TypeOK, Used, replayVars
<1>5. GrantsAreAccountedFor'
  <2>1. ASSUME NEW q \in granted, pc'[q] = "done"
        PROVE  outcome'[q] \in IF q \in minted' THEN {"Exchanged", "panicked"}
                               ELSE {"MalformedToken", "Signing", "dropped"}
    <3>1. q \in Request
      BY <1>t DEF TypeOK
    <3>2. CASE q = r
      <4>1. pc[r] = "granted" /\ r \notin minted
        BY <1>t, <3>1, <3>2 DEF PlaceInv, TypeOK, InFlight
      <4>2. outcome'[r] = x
        BY <1>t DEF TypeOK
      <4>3. QED BY <3>2, <4>1, <4>2
    <3>3. CASE q # r
      BY <2>1, <3>1, <3>3, <1>t DEF ExchangeInv, GrantsAreAccountedFor, TypeOK, replayVars
    <3>4. QED BY <3>2, <3>3
  <2>2. QED BY <2>1 DEF GrantsAreAccountedFor, replayVars
<1>6. QED BY <1>1, <1>2, <1>3, <1>4, <1>5 DEF ExchangeInv

(* The steps of a handler and of its client. *)
LEMMA HandlerKeepsExchangeInv ==
    ASSUME ExchangeInv, NEW r \in Request,
           Arrive(r) \/ Handle(r) \/ Disconnect(r)
    PROVE  ExchangeInv'
<1>t. /\ TypeOK /\ PlaceInv
      /\ status \in [Request -> {0, 200, 401, 422, 500}]
      /\ row \in [Request -> {"none", "spawned", "written", "failed", "lost"}]
  BY DEF ExchangeInv, TypeOK
<1>e. Errors \subseteq Answers /\ "Exchanged" \in Answers
  BY DEF Answers
<1>1. CASE Arrive(r)
  <2>0. proc \in Serving /\ pc[r] = "new"
        /\ UNCHANGED <<procVars, replayVars, id, minted, auditVars>>
    BY <1>1 DEF Arrive, Serving
  <2>1. CASE Goto(r, "lookup") /\ UNCHANGED outcome
    BY <2>0, <2>1, MoveKeepsExchangeInv DEF InFlight, replayVars
  <2>2. CASE End(r, "MissingToken")
    BY <2>0, <2>2, <1>t, <1>e, EndKeepsRecords, DoneKeepsExchangeInv DEF Errors, auditVars
  <2>3. QED BY <1>1, <2>1, <2>2 DEF Arrive
<1>2. CASE Validate(r)
  <2>0. /\ proc \in Serving /\ pc[r] = "lookup" /\ UNCHANGED <<procVars, replayVars, id, minted>>
    BY <1>2 DEF Validate
  <2>1. CASE Goto(r, "replay") /\ UNCHANGED <<outcome, auditVars>>
    BY <2>0, <2>1, MoveKeepsExchangeInv DEF InFlight, replayVars
  <2>2. ASSUME NEW answer \in Rejections, Conclude(r, answer) PROVE ExchangeInv'
    <3>1. answer \in Answers \ {"MissingToken", "ReplayDetected", "Exchanged"}
      BY <1>e, ExchangeAssumption DEF Answers, Errors
    <3>2. PICK x \in {answer, "panicked"} :
             /\ pc' = [pc EXCEPT ![r] = "done"]
             /\ outcome' = [outcome EXCEPT ![r] = x]
             /\ RecordMatchesAnswer'
             /\ status' \in [Request -> {0, 200, 401, 422, 500}]
             /\ row' \in [Request -> {"none", "spawned", "written", "failed", "lost"}]
      BY <2>0, <2>2, <3>1, ConcludeRecords
    <3>3. QED BY <2>0, <3>1, <3>2, DoneKeepsExchangeInv
  <2>3. QED BY <1>2, <2>1, <2>2 DEF Validate
<1>3. CASE RecordJti(r)
  <2>0. /\ proc \in Serving /\ pc[r] = "replay" /\ UNCHANGED <<procVars, expired, id, minted>>
        /\ r \notin granted
    BY <1>3, <1>t DEF RecordJti, PlaceInv
  <2>1. CASE Grant(r)
    BY <2>0, <2>1, MoveKeepsExchangeInv DEF Grant, InFlight
  <2>2. ASSUME NEW answer \in {"ReplayDetected", "Database", "PoolClosed"},
               Conclude(r, answer), UNCHANGED <<usedJti, granted>>,
               answer = "ReplayDetected" => id[r] \in Used
        PROVE  ExchangeInv'
    <3>1. answer \in Answers \ {"MissingToken"}
      BY DEF Answers, Errors
    <3>2. PICK x \in {answer, "panicked"} :
             /\ pc' = [pc EXCEPT ![r] = "done"]
             /\ outcome' = [outcome EXCEPT ![r] = x]
             /\ RecordMatchesAnswer'
             /\ status' \in [Request -> {0, 200, 401, 422, 500}]
             /\ row' \in [Request -> {"none", "spawned", "written", "failed", "lost"}]
      BY <2>0, <2>2, <3>1, ConcludeRecords
    <3>3. UNCHANGED replayVars
      BY <2>0, <2>2 DEF replayVars
    <3>4. QED BY <2>0, <2>2, <3>1, <3>2, <3>3, DoneKeepsExchangeInv
  <2>3. QED BY <1>3, <2>1, <2>2 DEF RecordJti, RefuseReplay, DatabaseFails
<1>4. CASE Mint(r)
  <2>0. /\ proc \in Serving /\ pc[r] = "granted" /\ UNCHANGED <<procVars, replayVars, id>>
        /\ r \in granted /\ r \notin minted
    BY <1>4, <1>t DEF Mint, PlaceInv
  <2>1. ASSUME NEW answer \in {"Exchanged", "MalformedToken", "Signing"}, Conclude(r, answer),
               minted' = IF answer = "Exchanged" THEN minted \cup {r} ELSE minted
        PROVE  ExchangeInv'
    <3>1. answer \in Answers \ {"MissingToken"}
      BY DEF Answers, Errors
    <3>2. PICK x \in {answer, "panicked"} :
             /\ pc' = [pc EXCEPT ![r] = "done"]
             /\ outcome' = [outcome EXCEPT ![r] = x]
             /\ x = "panicked" => answer \in {"Exchanged", "ReplayDetected"}
             /\ RecordMatchesAnswer'
             /\ status' \in [Request -> {0, 200, 401, 422, 500}]
             /\ row' \in [Request -> {"none", "spawned", "written", "failed", "lost"}]
      BY <2>0, <2>1, <3>1, ConcludeRecords
    <3>3. x # "ReplayDetected" /\ x \in Answers \cup {"dropped", "panicked"}
      BY <3>1, <3>2, <2>1
    <3>4. CASE answer = "Exchanged"
      <4>1. /\ minted' = minted \cup {r} /\ minted' # minted
            /\ x \in {"Exchanged", "panicked"}
        BY <2>0, <2>1, <3>2, <3>4
      <4>2. QED BY <2>0, <3>2, <3>3, <4>1, DoneKeepsExchangeInv
    <3>5. CASE answer # "Exchanged"
      <4>1. minted' = minted /\ x \in {"MalformedToken", "Signing"}
        BY <2>1, <3>2, <3>5
      <4>2. QED BY <2>0, <3>2, <3>3, <4>1, DoneKeepsExchangeInv
    <3>6. QED BY <3>4, <3>5
  <2>2. QED BY <1>4, <2>1 DEF Mint
<1>5. CASE Disconnect(r)
  <2>0. /\ pc[r] \in InFlight /\ pc[r] # "done" /\ End(r, "dropped")
        /\ UNCHANGED <<procVars, replayVars, id, minted, auditVars>>
    BY <1>5 DEF Disconnect, InFlight
  <2>1. QED BY <2>0, <1>t, EndKeepsRecords, DoneKeepsExchangeInv DEF auditVars
<1>6. QED BY <1>1, <1>2, <1>3, <1>4, <1>5 DEF Handle

(* Inserts and signals, and the next start, touch no handler. *)
LEMMA OthersKeepExchangeInv ==
    ASSUME ExchangeInv,
           \/ \E r \in Request : InsertRow(r)
           \/ Sigterm \/ Sigint \/ Checkpoint \/ ClosePool \/ Restart \/ UNCHANGED vars
    PROVE  ExchangeInv'
<1>t. TypeOK /\ RecordMatchesAnswer
  BY DEF ExchangeInv
<1>1. UNCHANGED handlerVars /\ UNCHANGED status /\ UNCHANGED replayVars
  BY DEF InsertRow, Sigterm, Sigint, Checkpoint, ClosePool, Restart, vars, auditVars
<1>2. row' \in [Request -> {"none", "spawned", "written", "failed", "lost"}]
  BY <1>t DEF InsertRow, Sigterm, Sigint, Checkpoint, ClosePool, Restart, vars, auditVars, TypeOK
<1>3. \A r \in Request : (row'[r] = "none") = (row[r] = "none")
  BY <1>t DEF InsertRow, Sigterm, Sigint, Checkpoint, ClosePool, Restart, vars, auditVars, TypeOK
<1>c. checkpointed' \in BOOLEAN /\ interrupted' \in BOOLEAN
  BY <1>t, Zenon
  DEF InsertRow, Sigterm, Sigint, Checkpoint, ClosePool, Restart, vars, procVars, TypeOK
<1>4. /\ proc' \in Serving \cup {"exited", "killed"} /\ restarts' \in 0..MaxRestarts
      /\ pool' \in {"open", "closed"}
      /\ proc' \in {"exited", "killed"} => proc' = proc
  <2>1. CASE Restart
    BY <2>1, <1>t, ExchangeAssumption DEF Restart, Serving, TypeOK
  <2>2. CASE Sigterm \/ Sigint \/ Checkpoint \/ ClosePool
    BY <2>2, <1>t DEF Sigterm, Sigint, Checkpoint, ClosePool, Serving, TypeOK
  <2>3. CASE (\E r \in Request : InsertRow(r)) \/ UNCHANGED vars
    BY <2>3, <1>t DEF InsertRow, vars, procVars, TypeOK
  <2>4. QED BY <2>1, <2>2, <2>3
<1>5. TypeOK'
  BY <1>t, <1>1, <1>2, <1>c, <1>4 DEF TypeOK, handlerVars, replayVars
<1>6. RecordMatchesAnswer'
  BY <1>t, <1>1, <1>3 DEF RecordMatchesAnswer, handlerVars
<1>7. QED
  BY <1>1, <1>5, <1>6
  DEF ExchangeInv, PlaceInv, TableInv, RefusedForACause, GrantsAreAccountedFor, handlerVars,
      replayVars

(* The purge deletes only what has expired, and what has stays so. *)
LEMMA TimeKeepsExchangeInv ==
    ASSUME ExchangeInv, Purge \/ \E r \in Request : Expire(r)
    PROVE  ExchangeInv'
<1>t. TypeOK /\ TableInv
  BY DEF ExchangeInv
<1>1. /\ UNCHANGED <<procVars, granted, handlerVars, auditVars>>
      /\ expired \subseteq expired' /\ expired' \subseteq Request
      /\ usedJti' \subseteq usedJti /\ usedJti \ usedJti' \subseteq expired
  BY <1>t DEF Purge, Expire, TypeOK
<1>c. checkpointed' \in BOOLEAN /\ interrupted' \in BOOLEAN
  BY <1>t, <1>1, Zenon DEF procVars, TypeOK
<1>2. TypeOK'
  BY <1>t, <1>c, <1>1 DEF TypeOK, procVars, handlerVars, auditVars
<1>3. TableInv'
  BY <1>t, <1>1 DEF TableInv, handlerVars
<1>4. QED
  BY <1>1, <1>2, <1>3
  DEF ExchangeInv, PlaceInv, RefusedForACause, GrantsAreAccountedFor, RecordMatchesAnswer,
      handlerVars, auditVars

(* The inductive invariant of the endpoint holds in every reachable state. *)
THEOREM ExchangeInvariance == Spec => []ExchangeInv
<1>1. Init => ExchangeInv
  <2>1. ASSUME Init PROVE TypeOK
    <3>0. MaxRestarts \in Nat
      BY ExchangeAssumption
    <3>c. checkpointed \in BOOLEAN /\ interrupted \in BOOLEAN
      BY <2>1, Zenon DEF Init
    <3>1. /\ proc = "up" /\ restarts \in 0..MaxRestarts /\ pool = "open"
          /\ expired = {} /\ usedJti = {} /\ granted = {} /\ minted = {} /\ id \in [Request -> Id]
      BY <2>1, <3>0 DEF Init
    <3>2. /\ pc \in [Request -> InFlight \cup {"new", "done"}]
          /\ outcome \in [Request -> Answers \cup {"none", "dropped", "panicked"}]
      BY <2>1 DEF Init
    <3>3. /\ status \in [Request -> {0, 200, 401, 422, 500}]
          /\ row \in [Request -> {"none", "spawned", "written", "failed", "lost"}]
      BY <2>1 DEF Init
    <3>4. QED BY <3>c, <3>1, <3>2, <3>3 DEF TypeOK, Serving
  <2>2. Init => PlaceInv /\ TableInv /\ GrantsAreAccountedFor
    BY DEF Init, PlaceInv, TableInv, GrantsAreAccountedFor
  <2>3. Init => RefusedForACause /\ RecordMatchesAnswer
    BY DEF Init, RefusedForACause, RecordMatchesAnswer, Answers, Errors
  <2>4. QED BY <2>1, <2>2, <2>3 DEF ExchangeInv
<1>2. ExchangeInv /\ [Next]_vars => ExchangeInv'
  BY HandlerKeepsExchangeInv, OthersKeepExchangeInv, TimeKeepsExchangeInv, DieKeepsExchangeInv
  DEF Next, Exit, Crash
<1>3. QED BY <1>1, <1>2, PTL DEF Spec

(* Every variable keeps its type. *)
THEOREM ExchangeTypeCorrect == Spec => []TypeOK
BY ExchangeInvariance, PTL DEF ExchangeInv

(* Of the tokens a replay id yields over drops, kills, purges and restarts *)
(* at most one is unexpired.                                               *)
THEOREM AtMostOneLiveToken == Spec => []OneLiveTokenPerId
<1>1. ExchangeInv => OneLiveTokenPerId
  BY DEF ExchangeInv, TableInv, OneLiveTokenPerId
<1>2. QED BY <1>1, ExchangeInvariance, PTL

(* Nobody is refused as a replay of nothing. *)
THEOREM RefusalsHaveACause == Spec => []RefusedForACause
BY ExchangeInvariance, PTL DEF ExchangeInv

(* Every used-up id is a token, a recorded failure or a lost handler.      *)
THEOREM GrantsAlwaysAccountedFor == Spec => []GrantsAreAccountedFor
BY ExchangeInvariance, PTL DEF ExchangeInv

(* The audit trail says what the clients saw. *)
THEOREM RecordsAlwaysMatch == Spec => []RecordMatchesAnswer
BY ExchangeInvariance, PTL DEF ExchangeInv

(* Only the shutdown task closes the pool, after its checkpoint and its    *)
(* SIGINT; a new start opens it again.                                     *)
PoolInv ==
    /\ pool = "closed" => checkpointed
    /\ checkpointed => interrupted

(* Every step keeps the pool open for a server that was not interrupted.   *)
LEMMA PoolInvariance == Spec => []PoolInv
<1>1. Init => PoolInv
  BY DEF Init, PoolInv
<1>2. PoolInv /\ [Next]_vars => PoolInv'
  BY DEF PoolInv, Next, vars, procVars, Arrive, Handle, Validate, RecordJti, Mint, Disconnect,
         InsertRow, Expire, Purge, Sigterm, Sigint, Checkpoint, ClosePool, Exit, Crash, Die,
         Restart, Serving
<1>3. QED BY <1>1, <1>2, PTL DEF Spec

(* Nobody is told of a closed pool but by its own replay check, on one.    *)
LEMMA ClosedPoolIsMet ==
    ASSUME ExchangeInv, Next, NEW r \in Request,
           pc[r] = "replay", outcome'[r] = "PoolClosed"
    PROVE  proc \in Serving /\ pool = "closed"
<1>t. TypeOK /\ outcome[r] = "none"
  BY DEF ExchangeInv, PlaceInv
<1>1. outcome \in [Request -> Answers \cup {"none", "dropped", "panicked"}]
  BY <1>t DEF TypeOK
<1>2. outcome' # outcome
  BY <1>t
<1>3. ASSUME NEW q \in Request, NEW x, End(q, x) PROVE q = r /\ x = "PoolClosed"
  BY <1>t, <1>1, <1>3 DEF End
<1>4. ASSUME NEW q \in Request, NEW answer, Conclude(q, answer)
      PROVE  q = r /\ answer = "PoolClosed"
  BY <1>3, <1>4 DEF Conclude
<1>5. CASE \E q \in Request : RecordJti(q)
  <2>1. PICK q \in Request : RecordJti(q)
    BY <1>5
  <2>2. CASE Grant(q) BY <1>2, <2>2 DEF Grant
  <2>3. CASE RefuseReplay(q) BY <1>4, <2>3 DEF RefuseReplay
  <2>4. CASE DatabaseFails(q)
    <3>1. pool # "open"
      BY <1>4, <2>4 DEF DatabaseFails
    <3>2. QED BY <2>1, <3>1, <1>t DEF RecordJti, TypeOK
  <2>5. QED BY <2>1, <2>2, <2>3, <2>4 DEF RecordJti
<1>6. ~ \E q \in Request : Arrive(q) \/ Disconnect(q)
  BY <1>2, <1>3 DEF Arrive, Disconnect
<1>7. ~ \E q \in Request : Validate(q)
  <2>1. ASSUME NEW q \in Request, Validate(q) PROVE FALSE
    <3>1. PICK answer \in Rejections : Conclude(q, answer)
      BY <2>1, <1>2 DEF Validate
    <3>2. q = r BY <1>4, <3>1
    <3>3. QED BY <2>1, <3>2 DEF Validate
  <2>2. QED BY <2>1
<1>8. ~ \E q \in Request : Mint(q)
  BY <1>4 DEF Mint
<1>9. ~ \E how \in {"exited", "killed"} : Die(how)
  BY <1>t DEF Die, InFlight
<1>10. ~ ((\E q \in Request : InsertRow(q) \/ Expire(q)) \/ Purge \/ Sigterm \/ Sigint \/ Checkpoint \/ ClosePool \/ Restart)
  BY <1>2 DEF InsertRow, Expire, Purge, Sigterm, Sigint, Checkpoint, ClosePool, Restart, handlerVars
<1>11. QED BY <1>5, <1>6, <1>7, <1>8, <1>9, <1>10 DEF Next, Handle, Exit, Crash

(* Without a SIGINT the pool stays open under the handlers, also while a   *)
(* SIGTERM is drained.                                                     *)
THEOREM OnlyInterruptCloses == Spec => ClosedPoolOnlyOnInterrupt
<1>1. /\ ExchangeInv /\ PoolInv /\ [Next]_vars
      => [\A r \in Request :
             pc[r] = "replay" /\ outcome'[r] = "PoolClosed" => interrupted]_vars
  BY ClosedPoolIsMet DEF PoolInv
<1>2. QED BY <1>1, ExchangeInvariance, PoolInvariance, PTL DEF Spec, ClosedPoolOnlyOnInterrupt

(* A handler with no outcome yet has told its client nothing, and what it  *)
(* ends with is all that is told then.                                     *)
LEMMA EndTells ==
    ASSUME ExchangeInv, NEW r \in Request, NEW x, pc[r] # "done",
           outcome' = [outcome EXCEPT ![r] = x]
    PROVE  /\ Told(outcome[r]) = "nothing"
           /\ ReplayTickets!Tell(r, Told(x))
<1>1. outcome[r] = "none"
      /\ outcome \in [Request -> Answers \cup {"none", "dropped", "panicked"}]
  BY DEF ExchangeInv, PlaceInv, TypeOK
<1>2. Told(outcome[r]) = "nothing"
  BY <1>1 DEF Told
<1> DEFINE told == [q \in Request |-> Told(outcome[q])]
           toldNext == [q \in Request |-> Told(outcome'[q])]
<1>3. \A q \in Request : outcome'[q] = IF q = r THEN x ELSE outcome[q]
  BY <1>1
<1>4. \A q \in Request : Told(outcome'[q]) = IF q = r THEN Told(x) ELSE Told(outcome[q])
  BY <1>3
<1>5. toldNext = [told EXCEPT ![r] = Told(x)]
  BY <1>4
<1>6. QED BY <1>2, <1>5 DEF ReplayTickets!Tell

(* A handler that ends with nothing but a failure. *)
LEMMA EndFails ==
    ASSUME ExchangeInv, NEW r \in Request, NEW x, pc[r] # "done",
           outcome' = [outcome EXCEPT ![r] = x], Told(x) = "failure",
           UNCHANGED <<id, expired, granted, minted>>
    PROVE  ReplayTickets!TicketsNext
<1>1. outcome \in [Request -> Answers \cup {"none", "dropped", "panicked"}]
  BY DEF ExchangeInv, TypeOK
<1>2. Told(outcome[r]) = "nothing"
  BY EndTells
<1>3. \A q \in Request : Told(outcome'[q]) = IF q = r THEN "failure" ELSE Told(outcome[q])
  BY <1>1
<1>4. ReplayTickets!Fail({r})
  BY <1>2, <1>3 DEF ReplayTickets!Fail
<1>5. {r} \in SUBSET Request
  OBVIOUS
<1>6. QED BY <1>4, <1>5 DEF ReplayTickets!TicketsNext

(* What a conclusion tells the client: the answer, or that the connection  *)
(* broke.                                                                  *)
LEMMA ConcludeTells ==
    ASSUME ExchangeInv, NEW r \in Request, NEW answer \in Answers \ {"MissingToken"},
           pc[r] # "done", Conclude(r, answer)
    PROVE  /\ Told(outcome[r]) = "nothing"
           /\ \E x \in {answer, "panicked"} :
                 outcome' = [outcome EXCEPT ![r] = x] /\ ReplayTickets!Tell(r, Told(x))
<1>1. PICK x \in {answer, "panicked"} : outcome' = [outcome EXCEPT ![r] = x]
  BY DEF Conclude, End
<1>2. QED BY <1>1, EndTells

(* What the outcomes are to a client. *)
LEMMA ToldOf ==
    /\ Told("Exchanged") = "token" /\ Told("ReplayDetected") = "replay"
    /\ Told("none") = "nothing"
    /\ \A x \in (Answers \cup {"dropped", "panicked"}) \ {"Exchanged", "ReplayDetected"} :
          Told(x) = "failure"
BY DEF Told, Answers, Errors

(* A step that changes neither ids, grants, tokens nor outcomes is none of *)
(* the contract's.                                                         *)
LEMMA NothingTold ==
    ASSUME UNCHANGED <<id, outcome, expired, granted, minted>>
    PROVE  UNCHANGED ReplayTickets!ticketVars
BY DEF ReplayTickets!ticketVars

(* The replay check takes the ticket, refuses it, or fails. *)
LEMMA RecordJtiImplementsTickets ==
    ASSUME ExchangeInv, NEW r \in Request, RecordJti(r)
    PROVE  ReplayTickets!TicketsNext
<1>t. /\ pc[r] = "replay" /\ UNCHANGED <<id, expired, minted>> /\ r \notin granted
      /\ outcome \in [Request -> Answers \cup {"none", "dropped", "panicked"}]
      /\ outcome[r] = "none" /\ granted \in SUBSET Request
      /\ usedJti \subseteq granted /\ granted \ expired \subseteq usedJti
  BY DEF RecordJti, ExchangeInv, PlaceInv, TableInv, TypeOK
<1>1. CASE Grant(r)
  <2>1. /\ \A q \in granted \ expired : id[q] # id[r]
        /\ granted' = granted \cup {r} /\ outcome' = outcome
    BY <1>1, <1>t DEF Grant, Used
  <2>2. Told(outcome[r]) = "nothing"
    BY <1>t, ToldOf
  <2>3. ReplayTickets!Take(r)
    BY <1>t, <2>1, <2>2 DEF ReplayTickets!Take
  <2>4. QED BY <2>3 DEF ReplayTickets!TicketsNext
<1>2. ASSUME NEW answer \in {"ReplayDetected", "Database", "PoolClosed"},
             Conclude(r, answer), UNCHANGED granted,
             answer = "ReplayDetected" => id[r] \in Used
      PROVE  ReplayTickets!TicketsNext
  <2>1. answer \in Answers \ {"MissingToken"}
    BY DEF Answers, Errors
  <2>2. PICK x \in {answer, "panicked"} :
           outcome' = [outcome EXCEPT ![r] = x] /\ ReplayTickets!Tell(r, Told(x))
    BY <1>t, <1>2, <2>1, ConcludeTells
  <2>3. CASE x = "ReplayDetected"
    <3>1. \E q \in granted : id[q] = id[r]
      BY <1>t, <1>2, <2>3 DEF Used
    <3>2. ReplayTickets!Tell(r, "replay")
      BY <2>2, <2>3, ToldOf
    <3>3. ReplayTickets!Refuse(r)
      BY <1>t, <1>2, <3>1, <3>2 DEF ReplayTickets!Refuse
    <3>4. QED BY <3>3 DEF ReplayTickets!TicketsNext
  <2>4. CASE x # "ReplayDetected"
    <3>1. x \in (Answers \cup {"dropped", "panicked"}) \ {"Exchanged", "ReplayDetected"}
      BY <2>1, <2>2, <2>4
    <3>2. Told(x) = "failure"
      BY <3>1, ToldOf
    <3>3. QED BY <1>t, <1>2, <2>2, <3>2, EndFails
  <2>5. QED BY <2>3, <2>4
<1>3. QED BY <1>1, <1>2 DEF RecordJti, RefuseReplay, DatabaseFails

(* Minting issues the token to the holder of the ticket, or fails it. *)
LEMMA MintImplementsTickets ==
    ASSUME ExchangeInv, NEW r \in Request, Mint(r)
    PROVE  ReplayTickets!TicketsNext
<1>t. /\ pc[r] = "granted" /\ UNCHANGED <<id, expired, granted>> /\ r \in granted /\ r \notin minted
      /\ outcome \in [Request -> Answers \cup {"none", "dropped", "panicked"}]
  BY DEF Mint, ExchangeInv, PlaceInv, TypeOK, replayVars
<1>1. CASE minted' = minted \cup {r} /\ Conclude(r, "Exchanged")
  <2>1. "Exchanged" \in Answers \ {"MissingToken"}
    BY DEF Answers, Errors
  <2>2. PICK x \in {"Exchanged", "panicked"} : ReplayTickets!Tell(r, Told(x))
    BY <1>t, <1>1, <2>1, ConcludeTells
  <2>3. Told(x) \in {"token", "failure"}
    BY <2>2, ToldOf DEF Answers, Errors
  <2>4. ReplayTickets!Issue(r)
    BY <1>t, <1>1, <2>2, <2>3 DEF ReplayTickets!Issue
  <2>5. QED BY <2>4 DEF ReplayTickets!TicketsNext
<1>2. ASSUME NEW answer \in {"MalformedToken", "Signing"},
             Conclude(r, answer), UNCHANGED minted
      PROVE  ReplayTickets!TicketsNext
  <2>1. answer \in Answers \ {"MissingToken"}
    BY DEF Answers, Errors
  <2>2. PICK x \in {answer, "panicked"} : outcome' = [outcome EXCEPT ![r] = x]
    BY <1>t, <1>2, <2>1, ConcludeTells
  <2>3. x \in (Answers \cup {"dropped", "panicked"}) \ {"Exchanged", "ReplayDetected"}
    BY <2>1, <2>2
  <2>4. Told(x) = "failure"
    BY <2>3, ToldOf
  <2>5. QED BY <1>t, <1>2, <2>2, <2>4, EndFails
<1>3. QED BY <1>1, <1>2 DEF Mint

(* Arrival, validation and a disconnect fail the request or tell nothing.  *)
LEMMA OthersOfHandlerImplementTickets ==
    ASSUME ExchangeInv, NEW r \in Request, Arrive(r) \/ Validate(r) \/ Disconnect(r)
    PROVE  [ReplayTickets!TicketsNext]_(ReplayTickets!ticketVars)
<1>t. UNCHANGED <<id, expired, granted, minted>>
  BY DEF Arrive, Validate, Disconnect, replayVars
<1>1. CASE Arrive(r)
  <2>1. pc[r] # "done" /\ (outcome' = outcome \/ outcome' = [outcome EXCEPT ![r] = "MissingToken"])
    BY <1>1 DEF Arrive, End
  <2>2. Told("MissingToken") = "failure"
    BY ToldOf DEF Answers, Errors
  <2>3. QED BY <1>t, <2>1, <2>2, EndFails, NothingTold
<1>2. CASE Validate(r)
  <2>0. pc[r] # "done"
    BY <1>2 DEF Validate
  <2>1. ASSUME NEW answer \in Rejections, Conclude(r, answer) PROVE ReplayTickets!TicketsNext
    <3>1. answer \in Answers \ {"MissingToken", "ReplayDetected", "Exchanged"}
      BY ExchangeAssumption DEF Answers, Errors
    <3>2. PICK x \in {answer, "panicked"} : outcome' = [outcome EXCEPT ![r] = x]
      BY <2>0, <2>1, <3>1, ConcludeTells
    <3>3. x \in (Answers \cup {"dropped", "panicked"}) \ {"Exchanged", "ReplayDetected"}
      BY <3>1, <3>2
    <3>4. Told(x) = "failure"
      BY <3>3, ToldOf
    <3>5. QED BY <1>t, <2>0, <3>2, <3>4, EndFails
  <2>2. CASE outcome' = outcome
    BY <1>t, <2>2, NothingTold
  <2>3. QED BY <1>2, <2>1, <2>2 DEF Validate
<1>3. CASE Disconnect(r)
  <2>1. pc[r] # "done" /\ outcome' = [outcome EXCEPT ![r] = "dropped"]
    BY <1>3 DEF Disconnect, End, InFlight
  <2>2. Told("dropped") = "failure"
    BY ToldOf DEF Answers, Errors
  <2>3. QED BY <1>t, <2>1, <2>2, EndFails
<1>4. QED BY <1>1, <1>2, <1>3

(* The end of the process fails at once whoever was in flight. *)
LEMMA DieImplementsTickets ==
    ASSUME ExchangeInv, NEW how, Die(how)
    PROVE  ReplayTickets!TicketsNext
<1> DEFINE caught == {r \in Request : pc[r] \in InFlight}
<1>1. /\ UNCHANGED <<id, expired, granted, minted>>
      /\ \A r \in Request : outcome'[r] = IF r \in caught THEN "dropped" ELSE outcome[r]
  BY DEF Die, replayVars
<1>2. Told("dropped") = "failure" /\ Told("none") = "nothing"
  BY ToldOf DEF Answers, Errors
<1>3. \A r \in Request : Told(outcome'[r]) = IF r \in caught THEN "failure" ELSE Told(outcome[r])
  BY <1>1, <1>2
<1>4. \A r \in caught : Told(outcome[r]) = "nothing"
  <2>1. ASSUME NEW r \in caught PROVE outcome[r] = "none"
    BY DEF ExchangeInv, PlaceInv, InFlight
  <2>2. QED BY <2>1, <1>2
<1>5. ReplayTickets!Fail(caught)
  BY <1>1, <1>3, <1>4 DEF ReplayTickets!Fail
<1>6. caught \in SUBSET Request
  OBVIOUS
<1>7. QED BY <1>5, <1>6 DEF ReplayTickets!TicketsNext

(* The endpoint implements tickets that stay taken until they lapse, for   *)
(* any number of requests, ids, purges and restarts, whatever fails, is    *)
(* dropped or is killed.                                                   *)
THEOREM ExchangeImplementsTickets == Spec => ImplementsTickets
<1>1. Init => ReplayTickets!TicketsInit
  <2>1. ASSUME Init PROVE [r \in Request |-> Told(outcome[r])] = [r \in Request |-> "nothing"]
    <3>1. \A r \in Request : Told(outcome[r]) = "nothing"
      BY <2>1, ToldOf DEF Init
    <3>2. QED BY <3>1
  <2>2. QED BY <2>1 DEF Init, ReplayTickets!TicketsInit
<1>2. ExchangeInv /\ [Next]_vars => [ReplayTickets!TicketsNext]_(ReplayTickets!ticketVars)
  <2> SUFFICES ASSUME ExchangeInv, [Next]_vars
               PROVE  [ReplayTickets!TicketsNext]_(ReplayTickets!ticketVars)
    OBVIOUS
  <2>1. CASE \E r \in Request : Arrive(r) \/ Handle(r) \/ Disconnect(r)
    BY <2>1, RecordJtiImplementsTickets, MintImplementsTickets, OthersOfHandlerImplementTickets
    DEF Handle
  <2>2. CASE Exit \/ Crash
    BY <2>2, DieImplementsTickets DEF Exit, Crash
  <2>3. CASE \/ \E r \in Request : InsertRow(r)
             \/ Purge \/ Sigterm \/ Sigint \/ Checkpoint \/ ClosePool \/ Restart \/ UNCHANGED vars
    <3>1. UNCHANGED <<id, outcome, expired, granted, minted>>
      BY <2>3
      DEF InsertRow, Purge, Sigterm, Sigint, Checkpoint, ClosePool, Restart, vars, handlerVars,
          replayVars
    <3>2. QED BY <3>1, NothingTold
  <2>4. ASSUME NEW r \in Request, Expire(r) PROVE ReplayTickets!TicketsNext
    BY <2>4 DEF Expire, handlerVars, ReplayTickets!TicketsNext, ReplayTickets!Lapse
  <2>5. QED BY <2>1, <2>2, <2>3, <2>4 DEF Next
<1>3. QED BY <1>1, <1>2, ExchangeInvariance, PTL DEF Spec, ImplementsTickets
=============================================================================
