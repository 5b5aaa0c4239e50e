--------------------------- MODULE ReplayProofs ---------------------------
(***************************************************************************)
(* Replay protection, proved for every set of requests and tokens, every   *)
(* leeway and every sequence of ALLOW_REPLAY settings.                     *)
(***************************************************************************)
EXTENDS Replay, TLAPS

(* The claims of a request's token have their types. *)
LEMMA ClaimsTyped ==
    ASSUME TypeOK
    PROVE  \A r \in Request : /\ Id(r) \in ReplayId
                              /\ Exp(r) \in Nat
                              /\ HasGroups(r) \in BOOLEAN
BY ReplayAssumption DEF TypeOK, Id, Exp, HasGroups

(* Every grant is a record of the declared type. *)
LEMMA GrantsTyped ==
    ASSUME TypeOK
    PROVE  \A i \in DOMAIN grants : /\ grants[i].req \in Request
                                    /\ grants[i].exp \in Nat
                                    /\ grants[i].at \in Nat
                                    /\ grants[i].jti \in ReplayId
                                    /\ grants[i].hasGroups \in BOOLEAN
<1>1. \A i \in DOMAIN grants : grants[i] \in GrantType
  BY DEF TypeOK
<1>2. QED BY <1>1 DEF GrantType

(* Append adds one element at the end and keeps the others. *)
LEMMA AppendFacts ==
    ASSUME NEW S, NEW s \in Seq(S), NEW e \in S
    PROVE  /\ Append(s, e) \in Seq(S)
           /\ DOMAIN Append(s, e) = DOMAIN s \cup {Len(s) + 1}
           /\ \A i \in DOMAIN s : Append(s, e)[i] = s[i] /\ i < Len(s) + 1
           /\ Append(s, e)[Len(s) + 1] = e
           /\ DOMAIN s \subseteq Nat
           /\ Len(s) + 1 \notin DOMAIN s
OBVIOUS

(* The program starts in the invariant: nothing is granted or stored. *)
LEMMA InitIInv ==
    ASSUME Init
    PROVE  IInv
<1>1. TypeOK
  BY ReplayAssumption DEF Init, TypeOK, GrantType
<1>2. grants = <<>> /\ DOMAIN grants = {}
  BY DEF Init
<1>3. MintedCapped
  <2>1. \A r \in Request : Exp(r) \in Nat
    BY <1>1, ClaimsTyped
  <2>2. \A r \in Request : outExp[r] = 0
    BY DEF Init
  <2>3. ASSUME NEW r \in Request PROVE outExp[r] <= Exp(r)
    <3>1. Exp(r) \in Nat /\ outExp[r] = 0
      BY <2>1, <2>2
    <3>2. QED BY <3>1
  <2>4. QED BY <2>3 DEF MintedCapped
<1>4. QED
  BY <1>1, <1>2, <1>3
  DEF Init, IInv, GrantsMatchRequests, GrantedOnlyOnce, OnlyGrantedPass, LiveGrantsAreStored,
      RowsComeFromGrants, SelectStillValid, OnlyWhileUp,
      NoRegrantBeforeExpiry, StrictBlocksEveryVariant, InFlight

(* A step that moves one handler and leaves the table and the history      *)
(* alone keeps the invariant, if it enters the INSERT only after a SELECT  *)
(* that found nothing.                                                     *)
LEMMA MoveKeepsIInv ==
    ASSUME IInv,
           NEW r \in Request, NEW label \in InFlight \cup Answers,
           Goto(r, label),
           UNCHANGED <<clock, up, allowReplay, usedJti, cutoff, tok, groups,
                       grants, restarts>>,
           pc[r] \in {"new"} \cup InFlight,
           label \in InFlight => up,
           label \in {"check", "insert"} => pc[r] \in {"new", "check"},
           label = "insert" => ~allowReplay /\ ~JtiSeen(Id(r)),
           label \in {"mint", "minted", "malformed_token"} => pc[r] = "mint",
           outExp' \in [Request -> Nat],
           \A q \in Request : outExp'[q] <= Exp(q)
    PROVE  IInv'
<1>1. TypeOK'
  BY DEF IInv, TypeOK, Goto, InFlight, Answers
<1>2. /\ \A q \in Request : Id(q)' = Id(q) /\ Exp(q)' = Exp(q)
      /\ \A q \in Request : pc'[q] = IF q = r THEN label ELSE pc[q]
  BY DEF IInv, TypeOK, Goto, Id, Exp
<1>3. \A i \in DOMAIN grants : grants[i] \in GrantType
  BY DEF IInv, TypeOK
<1>4. GrantsMatchRequests' /\ LiveGrantsAreStored' /\ RowsComeFromGrants'
      /\ NoRegrantBeforeExpiry' /\ StrictBlocksEveryVariant'
  BY <1>2, <1>3
  DEF IInv, GrantsMatchRequests, LiveGrantsAreStored, RowsComeFromGrants, GrantType,
      NoRegrantBeforeExpiry, StrictBlocksEveryVariant, SameKey
<1>5. GrantedOnlyOnce' /\ OnlyGrantedPass'
  BY <1>2, <1>3 DEF IInv, GrantedOnlyOnce, OnlyGrantedPass, GrantType, InFlight, Answers
<1>6. SelectStillValid'
  <2>1. SUFFICES ASSUME NEW q \in Request, pc'[q] = "insert",
                        NEW i \in DOMAIN grants,
                        grants[i].jti = Id(q), grants[i].hasGroups
                 PROVE  ~allowReplay /\ grants[i].exp < clock
    <3>1. ASSUME NEW q \in Request, pc'[q] = "insert" PROVE ~allowReplay
      BY <1>2, <3>1 DEF IInv, SelectStillValid
    <3>2. QED BY <1>2, <3>1 DEF SelectStillValid
  <2>2. CASE q # r
    BY <2>1, <2>2, <1>2 DEF IInv, SelectStillValid
  <2>3. CASE q = r
    <3>1. ~JtiSeen(Id(r)) /\ ~allowReplay
      BY <2>1, <2>3, <1>2
    <3>2. ~(grants[i].exp >= clock)
      BY <3>1, <2>1, <2>3 DEF IInv, LiveGrantsAreStored, LeaseOf, JtiSeen
    <3>3. QED BY <3>1, <3>2, <1>3 DEF IInv, TypeOK, GrantType
  <2>4. QED BY <2>2, <2>3
<1>7. OnlyWhileUp' /\ MintedCapped'
  BY <1>2 DEF IInv, OnlyWhileUp, MintedCapped
<1>8. QED
  BY <1>1, <1>4, <1>5, <1>6, <1>7 DEF IInv

(* Committing a row for a key no row holds keeps the invariant: a live     *)
(* grant of that key, and in strict mode of any variant, would have shown. *)
LEMMA RecordKeepsIInv ==
    ASSUME IInv,
           NEW r \in Request,
           pc[r] \in {"check", "insert"},
           ~KeyTaken(Id(r), HasGroups(r)),
           ~allowReplay => pc[r] = "insert",
           Record(r),
           Goto(r, "mint"),
           UNCHANGED <<clock, up, allowReplay, cutoff, tok, groups, outExp, restarts>>
    PROVE  IInv'
<1> DEFINE row == [jti |-> Id(r), hasGroups |-> HasGroups(r), exp |-> Exp(r)]
           grant == [req |-> r, jti |-> Id(r), hasGroups |-> HasGroups(r),
                     strict |-> ~allowReplay, exp |-> Exp(r), at |-> clock]
           n == Len(grants) + 1
<1>t. TypeOK
  BY DEF IInv
<1>c. Id(r) \in ReplayId /\ Exp(r) \in Nat /\ HasGroups(r) \in BOOLEAN
  BY <1>t, ClaimsTyped
<1>k. clock \in Nat /\ (~allowReplay) \in BOOLEAN
  BY <1>t, ReplayAssumption DEF TypeOK
<1>g. row \in RowType /\ grant \in GrantType
  BY <1>c, <1>k DEF RowType, GrantType
<1>f. /\ grant.req = r
      /\ grant.jti = Id(r)
      /\ grant.hasGroups = HasGroups(r)
      /\ grant.strict = ~allowReplay
      /\ grant.exp = Exp(r)
      /\ grant.at = clock
  OBVIOUS
<1>u. usedJti' = usedJti \cup {row} /\ grants' = Append(grants, grant)
  BY DEF Record
<1> HIDE DEF row, grant
<1>a. /\ grants' \in Seq(GrantType)
      /\ DOMAIN grants' = DOMAIN grants \cup {n}
      /\ \A i \in DOMAIN grants : grants'[i] = grants[i] /\ i < n
      /\ grants'[n] = grant
      /\ DOMAIN grants \subseteq Nat
      /\ n \notin DOMAIN grants
      /\ n \in Nat
  <2>1. grants \in Seq(GrantType)
    BY <1>t DEF TypeOK
  <2>2. QED BY <2>1, <1>u, <1>g, AppendFacts
<1>e. \A i \in DOMAIN grants : grants[i] \in GrantType
  BY <1>t DEF TypeOK
<1>s. /\ \A q \in Request : Id(q)' = Id(q) /\ Exp(q)' = Exp(q)
      /\ \A q \in Request : pc'[q] = IF q = r THEN "mint" ELSE pc[q]
  BY <1>t DEF TypeOK, Goto, Id, Exp
<1>1. TypeOK'
  BY <1>t, <1>g, <1>a, <1>u DEF TypeOK, Goto, InFlight
<1>2. GrantsMatchRequests'
  <2>1. SUFFICES ASSUME NEW i \in DOMAIN grants'
                 PROVE  /\ grants'[i].jti = IdOf[tok[grants'[i].req]]
                        /\ grants'[i].exp = ExpOf[tok[grants'[i].req]]
                        /\ grants'[i].at <= clock
    BY DEF GrantsMatchRequests, Id, Exp
  <2>2. CASE i = n
    BY <2>2, <1>a, <1>f, <1>k DEF Id, Exp
  <2>3. CASE i \in DOMAIN grants
    BY <2>3, <1>a, <1>e DEF IInv, GrantsMatchRequests, GrantType, Id, Exp
  <2>4. QED BY <2>1, <2>2, <2>3, <1>a
<1>3. GrantedOnlyOnce'
  <2>1. SUFFICES ASSUME NEW i \in DOMAIN grants'
                 PROVE  pc'[grants'[i].req] \notin {"new", "check", "insert"}
    BY DEF GrantedOnlyOnce
  <2>2. CASE i = n
    BY <2>2, <1>a, <1>f, <1>s
  <2>3. CASE i \in DOMAIN grants
    BY <2>3, <1>a, <1>s, <1>e DEF IInv, GrantedOnlyOnce, GrantType
  <2>4. QED BY <2>1, <2>2, <2>3, <1>a
<1>4. LiveGrantsAreStored'
  <2>1. SUFFICES ASSUME NEW i \in DOMAIN grants', grants'[i].exp >= clock'
                 PROVE  LeaseOf(grants'[i]) \in usedJti'
    BY DEF LiveGrantsAreStored, LeaseOf
  <2>2. CASE i = n
    BY <2>2, <1>a, <1>f, <1>u DEF row, LeaseOf
  <2>3. CASE i \in DOMAIN grants
    BY <2>1, <2>3, <1>a, <1>u DEF IInv, LiveGrantsAreStored
  <2>4. QED BY <2>1, <2>2, <2>3, <1>a
<1>5. RowsComeFromGrants'
  <2>1. SUFFICES ASSUME NEW x \in usedJti'
                 PROVE  \E i \in DOMAIN grants' : SameKey(grants'[i], x)
    BY DEF RowsComeFromGrants, SameKey
  <2>2. CASE x = row
    BY <2>2, <1>a, <1>f DEF SameKey, row
  <2>3. CASE x \in usedJti
    <3>1. PICK i \in DOMAIN grants : SameKey(grants[i], x)
      BY <2>3 DEF IInv, RowsComeFromGrants
    <3>2. QED BY <3>1, <1>a DEF SameKey
  <2>4. QED BY <2>1, <2>2, <2>3, <1>u
<1>6. SelectStillValid'
  <2>1. SUFFICES ASSUME NEW q \in Request, pc'[q] = "insert"
                 PROVE  /\ ~allowReplay'
                        /\ \A i \in DOMAIN grants' :
                              grants'[i].jti = Id(q)' /\ grants'[i].hasGroups
                              => grants'[i].exp < clock'
    BY DEF SelectStillValid
  <2>2. q # r /\ pc[q] = "insert" /\ ~allowReplay
    BY <2>1, <1>s DEF IInv, SelectStillValid
  <2>3. ~HasGroups(r)
    BY <2>2 DEF HasGroups
  <2>4. QED BY <2>2, <2>3, <1>a, <1>f, <1>s DEF IInv, SelectStillValid
<1>7. OnlyWhileUp' /\ MintedCapped'
  BY <1>s DEF IInv, OnlyWhileUp, MintedCapped, InFlight
<1>8. ASSUME NEW i \in DOMAIN grants, grants[i].jti = Id(r),
             grants[i].hasGroups = HasGroups(r)
      PROVE  grants[i].exp < clock
  <2>1. ~(grants[i].exp >= clock)
    BY <1>8 DEF IInv, LiveGrantsAreStored, LeaseOf, KeyTaken
  <2>2. QED BY <2>1, <1>e, <1>k DEF GrantType
<1>9. NoRegrantBeforeExpiry'
  <2>1. SUFFICES ASSUME NEW i \in DOMAIN grants', NEW j \in DOMAIN grants',
                        i < j, SameKey(grants'[i], grants'[j])
                 PROVE  grants'[i].exp < grants'[j].at
    BY DEF NoRegrantBeforeExpiry, SameKey
  <2>2. i \in DOMAIN grants
    BY <2>1, <1>a
  <2>3. CASE j = n
    BY <2>1, <2>2, <2>3, <1>a, <1>f, <1>8 DEF SameKey
  <2>4. CASE j \in DOMAIN grants
    BY <2>1, <2>2, <2>4, <1>a DEF IInv, NoRegrantBeforeExpiry
  <2>5. QED BY <2>3, <2>4, <1>a
<1>10. StrictBlocksEveryVariant'
  <2>1. SUFFICES ASSUME NEW i \in DOMAIN grants', NEW j \in DOMAIN grants',
                        i < j, grants'[j].strict, grants'[i].jti = grants'[j].jti
                 PROVE  grants'[i].exp < grants'[j].at
    BY DEF StrictBlocksEveryVariant
  <2>2. i \in DOMAIN grants
    BY <2>1, <1>a
  <2>3. CASE j = n
    <3>1. pc[r] = "insert" /\ ~allowReplay /\ ~HasGroups(r)
      BY <2>1, <2>3, <1>a, <1>f DEF HasGroups
    <3>2. grants[i] \in GrantType /\ grants[i].jti = Id(r)
      BY <2>1, <2>2, <2>3, <1>a, <1>e, <1>f
    <3>3. CASE grants[i].hasGroups
      BY <3>1, <3>2, <3>3, <2>2, <2>3, <1>a, <1>f DEF IInv, SelectStillValid
    <3>4. CASE ~grants[i].hasGroups
      <4>1. grants[i].hasGroups = HasGroups(r)
        BY <3>1, <3>2, <3>4, <1>c DEF GrantType
      <4>2. QED BY <4>1, <3>2, <2>2, <2>3, <1>8, <1>a, <1>f
    <3>5. QED BY <3>3, <3>4
  <2>4. CASE j \in DOMAIN grants
    BY <2>1, <2>2, <2>4, <1>a DEF IInv, StrictBlocksEveryVariant
  <2>5. QED BY <2>3, <2>4, <1>a
<1>11. OnlyGrantedPass'
  <2>1. SUFFICES ASSUME NEW q \in Request,
                        pc'[q] \in {"mint", "minted", "malformed_token"}
                 PROVE  \E i \in DOMAIN grants' : grants'[i].req = q
    BY DEF OnlyGrantedPass
  <2>2. CASE q = r
    BY <2>2, <1>a, <1>f
  <2>3. CASE q # r
    BY <2>1, <2>3, <1>s, <1>a DEF IInv, OnlyGrantedPass
  <2>4. QED BY <2>2, <2>3
<1>12. QED
  BY <1>11, <1>1, <1>2, <1>3, <1>4, <1>5, <1>6, <1>7, <1>9, <1>10 DEF IInv

(* Every step of a handler is a move or a recording. *)
LEMMA HandlerKeepsIInv ==
    ASSUME IInv, NEW r \in Request,
           Handle(r) \/ StatementFails(r) \/ Disconnect(r)
    PROVE  IInv'
<1>t. TypeOK /\ MintedCapped
  BY DEF IInv
<1>c. /\ outExp \in [Request -> Nat]
      /\ \A q \in Request : outExp[q] <= Exp(q) /\ Exp(q) \in Nat
      /\ clock \in Nat /\ clock + TokenTtl \in Nat
  BY <1>t, ClaimsTyped, ReplayAssumption DEF TypeOK, MintedCapped
<1>u. pc[r] \in InFlight => up
  BY DEF IInv, OnlyWhileUp
<1>1. CASE Validate(r)
  BY <1>1, <1>c, MoveKeepsIInv DEF Validate, InFlight, Answers
<1>2. CASE InsertOrIgnore(r)
  <2>1. CASE KeyTaken(Id(r), HasGroups(r))
    BY <1>2, <2>1, <1>c, MoveKeepsIInv DEF InsertOrIgnore, InFlight, Answers
  <2>2. CASE ~KeyTaken(Id(r), HasGroups(r))
    BY <1>2, <2>2, RecordKeepsIInv DEF InsertOrIgnore
  <2>3. QED BY <2>1, <2>2
<1>3. CASE SelectJti(r)
  BY <1>3, <1>c, <1>u, MoveKeepsIInv DEF SelectJti, InFlight, Answers
<1>4. CASE InsertJti(r)
  <2>1. CASE KeyTaken(Id(r), HasGroups(r))
    BY <1>4, <2>1, <1>c, MoveKeepsIInv DEF InsertJti, InFlight, Answers
  <2>2. CASE ~KeyTaken(Id(r), HasGroups(r))
    <3>1. ~allowReplay
      BY <1>4 DEF InsertJti, IInv, SelectStillValid
    <3>2. QED BY <1>4, <2>2, <3>1, RecordKeepsIInv DEF InsertJti
  <2>3. QED BY <2>1, <2>2
<1>5. CASE Mint(r)
  <2>1. MintedExp(r) \in Nat /\ MintedExp(r) <= Exp(r)
    BY <1>c DEF MintedExp
  <2>2. CASE UNCHANGED outExp
    BY <1>5, <2>2, <1>c, MoveKeepsIInv DEF Mint, InFlight, Answers
  <2>3. CASE outExp' = [outExp EXCEPT ![r] = MintedExp(r)]
    <3>1. outExp' \in [Request -> Nat] /\ \A q \in Request : outExp'[q] <= Exp(q)
      BY <2>1, <2>3, <1>c
    <3>2. QED BY <1>5, <3>1, MoveKeepsIInv DEF Mint, InFlight, Answers
  <2>4. QED BY <1>5, <2>2, <2>3 DEF Mint
<1>6. CASE StatementFails(r)
  BY <1>6, <1>c, MoveKeepsIInv DEF StatementFails, InFlight, Answers
<1>7. CASE Disconnect(r)
  BY <1>7, <1>c, MoveKeepsIInv DEF Disconnect, InFlight, Answers
<1>8. QED
  BY <1>1, <1>2, <1>3, <1>4, <1>5, <1>6, <1>7 DEF Handle

(* A purge deletes only rows of tokens that have expired. *)
LEMMA PurgeKeepsIInv ==
    ASSUME IInv, PurgeReadsClock \/ PurgeDeletes \/ PurgeFails
    PROVE  IInv'
<1>t. TypeOK
  BY DEF IInv
<1>k. clock \in Nat /\ cutoff \in Nat /\ cutoff <= clock
  BY <1>t, ReplayAssumption DEF TypeOK
<1>1. CASE PurgeReadsClock
  BY <1>1, <1>t, <1>k
  DEF PurgeReadsClock, IInv, TypeOK, GrantsMatchRequests, GrantedOnlyOnce,
      LiveGrantsAreStored, OnlyGrantedPass, RowsComeFromGrants, SelectStillValid, OnlyWhileUp,
      MintedCapped, NoRegrantBeforeExpiry, StrictBlocksEveryVariant, SameKey, Id, Exp
<1>2. CASE PurgeDeletes
  <2>1. /\ UNCHANGED <<clock, up, allowReplay, pc, tok, groups, outExp, grants, restarts>>
        /\ usedJti' = {row \in usedJti : ~(row.exp < cutoff)}
        /\ cutoff' = 0
    BY <1>2 DEF PurgeDeletes, Purgeable
  <2>2. TypeOK'
    BY <2>1, <1>t, <1>k DEF TypeOK
  <2>3. LiveGrantsAreStored'
    <3>1. \A i \in DOMAIN grants : grants[i].exp \in Nat
      BY <1>t, GrantsTyped
    <3>2. QED BY <2>1, <3>1, <1>k DEF IInv, LiveGrantsAreStored, LeaseOf
  <2>4. QED
    BY <2>1, <2>2, <2>3
    DEF IInv, GrantsMatchRequests, GrantedOnlyOnce, OnlyGrantedPass, RowsComeFromGrants,
        SelectStillValid, OnlyWhileUp, MintedCapped, NoRegrantBeforeExpiry,
        StrictBlocksEveryVariant, SameKey, Id, Exp
<1>3. CASE PurgeFails
  <2>1. /\ UNCHANGED <<clock, up, allowReplay, usedJti, pc, tok, groups, outExp,
                       grants, restarts>>
        /\ cutoff' = 0
    BY <1>3 DEF PurgeFails
  <2>2. TypeOK'
    BY <2>1, <1>t, <1>k DEF TypeOK
  <2>3. QED
    BY <2>1, <2>2
    DEF IInv, GrantsMatchRequests, GrantedOnlyOnce, LiveGrantsAreStored,
        OnlyGrantedPass, RowsComeFromGrants, SelectStillValid, OnlyWhileUp, MintedCapped,
        NoRegrantBeforeExpiry, StrictBlocksEveryVariant, SameKey, Id, Exp
<1>4. QED BY <1>1, <1>2, <1>3

(* A crash ends every handler, and a restart finds none. *)
LEMMA RestartKeepsIInv ==
    ASSUME IInv, Crash \/ Restart
    PROVE  IInv'
<1>t. TypeOK
  BY DEF IInv
<1>k. clock \in Nat /\ restarts \in Nat /\ MaxRestarts \in Nat
  BY <1>t, ReplayAssumption DEF TypeOK
<1>1. CASE Crash
  <2>1. /\ \A r \in Request : pc'[r] = IF pc[r] \in InFlight THEN "aborted" ELSE pc[r]
        /\ UNCHANGED <<clock, allowReplay, usedJti, tok, groups, outExp, grants>>
    BY <1>1 DEF Crash
  <2>2. TypeOK'
    <3>1. pc' \in [Request -> {"new"} \cup InFlight \cup Answers]
      BY <1>1, <1>t DEF Crash, TypeOK, Answers
    <3>2. up' \in BOOLEAN /\ restarts' \in 0..MaxRestarts /\ cutoff' \in 0..clock
      <4>1. up' = FALSE /\ restarts' = restarts + 1 /\ restarts < MaxRestarts /\ cutoff' = 0
        BY <1>1 DEF Crash
      <4>2. up' \in BOOLEAN
        BY <4>1
      <4>3. restarts' \in 0..MaxRestarts /\ cutoff' \in 0..clock
        BY <4>1, <1>k
      <4>4. QED BY <4>2, <4>3
    <3>3. QED BY <3>1, <3>2, <2>1, <1>t DEF TypeOK
  <2>3. \A i \in DOMAIN grants : grants[i].req \in Request
    BY <1>t, GrantsTyped
  <2>4. GrantedOnlyOnce'
    BY <2>1, <2>3 DEF IInv, GrantedOnlyOnce
  <2>5. SelectStillValid' /\ OnlyWhileUp'
    BY <1>1, <2>1 DEF Crash, SelectStillValid, OnlyWhileUp, InFlight
  <2>6. QED
    BY <2>1, <2>2, <2>4, <2>5
    DEF IInv, GrantsMatchRequests, LiveGrantsAreStored, OnlyGrantedPass, RowsComeFromGrants,
        MintedCapped, NoRegrantBeforeExpiry, StrictBlocksEveryVariant, SameKey, Id, Exp
<1>2. CASE Restart
  <2>1. SelectStillValid'
    BY <1>2 DEF Restart, IInv, OnlyWhileUp, SelectStillValid, InFlight
  <2>2. QED
    BY <1>2, <1>t, <2>1
    DEF Restart, IInv, TypeOK, GrantsMatchRequests, GrantedOnlyOnce,
        LiveGrantsAreStored, OnlyGrantedPass, RowsComeFromGrants, OnlyWhileUp,
        MintedCapped, NoRegrantBeforeExpiry, StrictBlocksEveryVariant, SameKey, Id, Exp
<1>3. QED BY <1>1, <1>2

(* Time only makes grants older. *)
LEMMA TickKeepsIInv ==
    ASSUME IInv, Tick
    PROVE  IInv'
<1>t. TypeOK
  BY DEF IInv
<1>k. clock \in Nat /\ clock' = clock + 1
  BY <1>t, ReplayAssumption DEF TypeOK, Tick
<1>e. \A i \in DOMAIN grants : grants[i].exp \in Nat /\ grants[i].at \in Nat
  BY <1>t, GrantsTyped
<1>1. TypeOK'
  BY <1>t, <1>k, ReplayAssumption DEF Tick, TypeOK
<1>2. LiveGrantsAreStored' /\ GrantsMatchRequests' /\ SelectStillValid'
  BY <1>k, <1>e
  DEF Tick, IInv, LiveGrantsAreStored, GrantsMatchRequests, SelectStillValid, Id, Exp
<1>3. QED
  BY <1>1, <1>2
  DEF Tick, IInv, GrantedOnlyOnce, OnlyGrantedPass, RowsComeFromGrants, OnlyWhileUp,
      MintedCapped, NoRegrantBeforeExpiry, StrictBlocksEveryVariant, SameKey, Exp

(* The invariant is inductive. *)
LEMMA NextKeepsIInv ==
    ASSUME IInv, [Next]_vars
    PROVE  IInv'
<1>1. CASE \E r \in Request : Handle(r) \/ StatementFails(r) \/ Disconnect(r)
  BY <1>1, HandlerKeepsIInv
<1>2. CASE PurgeReadsClock \/ PurgeDeletes \/ PurgeFails
  BY <1>2, PurgeKeepsIInv
<1>3. CASE Crash \/ Restart
  BY <1>3, RestartKeepsIInv
<1>4. CASE Tick
  BY <1>4, TickKeepsIInv
<1>5. CASE UNCHANGED vars
  BY <1>5
  DEF vars, IInv, TypeOK, GrantsMatchRequests, GrantedOnlyOnce, LiveGrantsAreStored,
      OnlyGrantedPass, RowsComeFromGrants, SelectStillValid, OnlyWhileUp,
      MintedCapped, NoRegrantBeforeExpiry, StrictBlocksEveryVariant, SameKey,
      LeaseOf, Id, Exp
<1>6. QED
  BY <1>1, <1>2, <1>3, <1>4, <1>5 DEF Next

(* The inductive invariant holds in every reachable state. *)
THEOREM Invariance == Spec => []IInv
BY InitIInv, NextKeepsIInv, PTL DEF Spec

(* Every variable keeps its type. *)
THEOREM TypeCorrect == Spec => []TypeOK
<1>1. IInv => TypeOK
  BY DEF IInv
<1>2. QED BY <1>1, Invariance, PTL

(* No key is accepted twice within its token's lifetime. *)
THEOREM NoRegrant == Spec => []NoRegrantBeforeExpiry
<1>1. IInv => NoRegrantBeforeExpiry
  BY DEF IInv
<1>2. QED BY <1>1, Invariance, PTL

(* Strict mode blocks every groups variant, whatever mode accepted it. *)
THEOREM StrictBlocks == Spec => []StrictBlocksEveryVariant
<1>1. IInv => StrictBlocksEveryVariant
  BY DEF IInv
<1>2. QED BY <1>1, Invariance, PTL

(* Downstream tokens minted for one key are never valid at the same time:  *)
(* the earlier one is capped at an expiry the later grant came after.      *)
THEOREM OneLiveToken == Spec => []OneLiveTokenPerKey
<1>1. ASSUME IInv PROVE OneLiveTokenPerKey
  <2>1. SUFFICES ASSUME NEW i \in DOMAIN grants, NEW j \in DOMAIN grants, i < j,
                        SameKey(grants[i], grants[j])
                 PROVE  outExp[grants[i].req] < clock
    <3>1. DOMAIN grants \subseteq Nat
      BY <1>1 DEF IInv, TypeOK
    <3>2. \A i, j \in DOMAIN grants : i # j => i < j \/ j < i
      BY <3>1
    <3>3. QED BY <3>2 DEF OneLiveTokenPerKey, SameKey
  <2>2. /\ grants[i] \in GrantType /\ grants[j] \in GrantType
        /\ outExp \in [Request -> Nat] /\ clock \in Nat
    BY <1>1, ReplayAssumption DEF IInv, TypeOK
  <2>3. grants[i].exp < grants[j].at /\ grants[j].at <= clock
    BY <1>1, <2>1 DEF IInv, NoRegrantBeforeExpiry, GrantsMatchRequests
  <2>4. outExp[grants[i].req] <= grants[i].exp
    BY <1>1, <2>2 DEF IInv, MintedCapped, GrantsMatchRequests, GrantType
  <2>5. QED BY <2>2, <2>3, <2>4 DEF GrantType
<1>2. QED BY <1>1, Invariance, PTL

(* A replay answer comes from a row, and every row from a grant made to    *)
(* another request.                                                        *)
LEMMA ReplayAnswerStep ==
    ASSUME IInv, [Next]_vars, NEW r \in Request,
           pc[r] # "replay_detected", pc'[r] = "replay_detected"
    PROVE  \E i \in DOMAIN grants :
              /\ grants[i].jti = Id(r)
              /\ grants[i].req # r
              /\ allowReplay => grants[i].hasGroups = HasGroups(r)
<1>t. pc \in [Request -> {"new"} \cup InFlight \cup Answers]
  BY DEF IInv, TypeOK
<1>1. InsertOrIgnore(r) \/ SelectJti(r)
  <2>1. ASSUME NEW q \in Request, Handle(q) \/ StatementFails(q) \/ Disconnect(q)
        PROVE  q = r /\ (InsertOrIgnore(r) \/ SelectJti(r))
    <3>1. CASE Validate(q)
      BY <3>1, <1>t DEF Validate, Goto
    <3>2. CASE InsertOrIgnore(q)
      BY <3>2, <1>t DEF InsertOrIgnore, Goto
    <3>3. CASE SelectJti(q)
      BY <3>3, <1>t DEF SelectJti, Goto
    <3>4. CASE InsertJti(q)
      BY <3>4, <1>t DEF InsertJti, Goto
    <3>5. CASE Mint(q)
      BY <3>5, <1>t DEF Mint, Goto
    <3>6. CASE StatementFails(q) \/ Disconnect(q)
      BY <3>6, <1>t DEF StatementFails, Disconnect, Goto
    <3>7. QED BY <2>1, <3>1, <3>2, <3>3, <3>4, <3>5, <3>6 DEF Handle
  <2>2. ~(PurgeReadsClock \/ PurgeDeletes \/ PurgeFails \/ Restart \/ Tick \/ UNCHANGED vars)
    BY DEF PurgeReadsClock, PurgeDeletes, PurgeFails, Restart, Tick, vars
  <2>3. ~Crash
    BY DEF Crash
  <2>4. QED BY <2>1, <2>2, <2>3 DEF Next
<1>2. pc[r] = "check"
  BY <1>1 DEF InsertOrIgnore, SelectJti
<1>3. PICK row \in usedJti : /\ row.jti = Id(r)
                             /\ allowReplay => row.hasGroups = HasGroups(r)
  <2>1. CASE InsertOrIgnore(r)
    <3>1. KeyTaken(Id(r), HasGroups(r))
      BY <2>1, <1>t DEF InsertOrIgnore, Goto
    <3>2. QED BY <3>1 DEF KeyTaken
  <2>2. CASE SelectJti(r)
    <3>1. JtiSeen(Id(r)) /\ ~allowReplay
      BY <2>2, <1>t DEF SelectJti, Goto
    <3>2. QED BY <3>1 DEF JtiSeen
  <2>3. QED BY <1>1, <2>1, <2>2
<1>4. PICK i \in DOMAIN grants : SameKey(grants[i], row)
  BY <1>3 DEF IInv, RowsComeFromGrants
<1>5. grants[i].req # r
  BY <1>2, <1>4 DEF IInv, GrantedOnlyOnce
<1>6. QED BY <1>3, <1>4, <1>5 DEF SameKey

(* replay_detected is never answered to the first use of a replay id. *)
THEOREM ReplayAnswersCaused == Spec => ReplayAnswerHasCause
<1>1. ASSUME IInv, [Next]_vars
      PROVE  [\A r \in Request :
                 pc[r] # "replay_detected" /\ pc'[r] = "replay_detected"
                 => \E i \in DOMAIN grants :
                       /\ grants[i].jti = Id(r)
                       /\ grants[i].req # r
                       /\ allowReplay => grants[i].hasGroups = HasGroups(r)]_vars
  BY <1>1, ReplayAnswerStep
<1>2. QED BY <1>1, Invariance, PTL DEF Spec, ReplayAnswerHasCause
-----------------------------------------------------------------------------
(* The refinement. *)

LeasesGranted == [i \in DOMAIN grants |-> LeaseOf(grants[i])]

(* The leases of a history that has grown by a grant. *)
LEMMA LeasesOfAppend ==
    ASSUME NEW s \in Seq(GrantType), NEW g \in GrantType
    PROVE  [i \in DOMAIN Append(s, g) |-> LeaseOf(Append(s, g)[i])]
           = Append([i \in DOMAIN s |-> LeaseOf(s[i])], LeaseOf(g))
<1> DEFINE L == [i \in DOMAIN s |-> LeaseOf(s[i])]
           M == [i \in DOMAIN Append(s, g) |-> LeaseOf(Append(s, g)[i])]
           S == {LeaseOf(x) : x \in GrantType}
<1>1. /\ L \in Seq(S) /\ LeaseOf(g) \in S
      /\ DOMAIN L = DOMAIN s /\ Len(L) = Len(s)
  OBVIOUS
<1>2. /\ DOMAIN Append(L, LeaseOf(g)) = DOMAIN M
      /\ \A i \in DOMAIN M : M[i] = Append(L, LeaseOf(g))[i]
  BY <1>1, AppendFacts
<1>3. M = [i \in DOMAIN M |-> M[i]]
  OBVIOUS
<1>4. Append(L, LeaseOf(g))
      = [i \in DOMAIN Append(L, LeaseOf(g)) |-> Append(L, LeaseOf(g))[i]]
  BY <1>1
<1>5. QED BY <1>2, <1>3, <1>4

(* Committing a row grants a lease that no live lease conflicts with. *)
LEMMA RecordGrantsLease ==
    ASSUME IInv,
           NEW r \in Request,
           pc[r] \in {"check", "insert"},
           ~KeyTaken(Id(r), HasGroups(r)),
           ~allowReplay => pc[r] = "insert",
           Record(r),
           UNCHANGED <<clock, allowReplay>>
    PROVE  ReplayLeases!LeaseNext
<1> DEFINE grant == [req |-> r, jti |-> Id(r), hasGroups |-> HasGroups(r),
                     strict |-> ~allowReplay, exp |-> Exp(r), at |-> clock]
           lease == [jti |-> Id(r), hasGroups |-> HasGroups(r), exp |-> Exp(r)]
<1>t. TypeOK
  BY DEF IInv
<1>c. /\ Id(r) \in ReplayId /\ Exp(r) \in Nat /\ HasGroups(r) \in BOOLEAN
      /\ Exp(r) \in {ExpOf[t] : t \in Token}
      /\ clock \in Nat /\ (~allowReplay) \in BOOLEAN
  BY <1>t, ClaimsTyped, ReplayAssumption DEF TypeOK, Exp
<1>1. ASSUME NEW i \in DOMAIN grants, grants[i].exp >= clock,
             grants[i].jti = Id(r),
             ~allowReplay \/ HasGroups(r) = grants[i].hasGroups
      PROVE  FALSE
  <2>1. grants[i].exp \in Nat /\ grants[i].hasGroups \in BOOLEAN
    BY <1>t, GrantsTyped
  <2>2. LeaseOf(grants[i]) \in usedJti
    BY <1>1 DEF IInv, LiveGrantsAreStored
  <2>3. HasGroups(r) # grants[i].hasGroups
    BY <1>1, <2>2 DEF KeyTaken, LeaseOf
  <2>4. pc[r] = "insert" /\ ~HasGroups(r)
    BY <1>1, <2>3 DEF HasGroups
  <2>5. grants[i].hasGroups
    BY <2>1, <2>3, <2>4, <1>c
  <2>6. grants[i].exp < clock
    BY <2>4, <2>5, <1>1 DEF IInv, SelectStillValid
  <2>7. QED BY <2>6, <2>1, <1>1, <1>c
<1>2. LeasesGranted' = Append(LeasesGranted, lease)
  <2>1. grant \in GrantType /\ LeaseOf(grant) = lease
    BY <1>c DEF GrantType, LeaseOf
  <2>2. grants \in Seq(GrantType) /\ grants' = Append(grants, grant)
    BY <1>t DEF TypeOK, Record
  <2> HIDE DEF grant, lease
  <2>3. [i \in DOMAIN Append(grants, grant) |-> LeaseOf(Append(grants, grant)[i])]
        = Append([i \in DOMAIN grants |-> LeaseOf(grants[i])], LeaseOf(grant))
    BY <2>1, <2>2, LeasesOfAppend
  <2>4. LeasesGranted' = [i \in DOMAIN grants' |-> LeaseOf(grants'[i])]
    BY DEF LeasesGranted, LeaseOf
  <2>5. QED BY <2>1, <2>2, <2>3, <2>4 DEF LeasesGranted
<1>3. ReplayLeases!Grant(lease)
  <2>1. ASSUME NEW i \in DOMAIN LeasesGranted,
               LeasesGranted[i].exp >= clock,
               lease.jti = LeasesGranted[i].jti,
               ~allowReplay \/ lease.hasGroups = LeasesGranted[i].hasGroups
        PROVE  FALSE
    BY <2>1, <1>1 DEF LeasesGranted, LeaseOf
  <2>2. QED
    BY <2>1, <1>2
    DEF ReplayLeases!Grant, ReplayLeases!Live, ReplayLeases!Conflicts, LeasesGranted
<1>4. QED BY <1>3, <1>c DEF ReplayLeases!LeaseNext

(* Every step of the service is a step of the leases or a stutter. *)
LEMMA StepImplementsLease ==
    ASSUME IInv, [Next]_vars
    PROVE  [ReplayLeases!LeaseNext]_(ReplayLeases!leaseVars)
<1>q. ASSUME UNCHANGED <<clock, allowReplay, grants>>
      PROVE  UNCHANGED ReplayLeases!leaseVars
  BY <1>q DEF ReplayLeases!leaseVars
<1>1. ASSUME NEW r \in Request, Handle(r) \/ StatementFails(r) \/ Disconnect(r)
      PROVE  ReplayLeases!LeaseNext \/ UNCHANGED <<clock, allowReplay, grants>>
  <2>1. CASE InsertOrIgnore(r)
    BY <2>1, RecordGrantsLease DEF InsertOrIgnore
  <2>2. CASE InsertJti(r)
    <3>1. ~allowReplay
      BY <2>2 DEF InsertJti, IInv, SelectStillValid
    <3>2. QED BY <2>2, <3>1, RecordGrantsLease DEF InsertJti
  <2>3. CASE Validate(r) \/ SelectJti(r) \/ Mint(r) \/ StatementFails(r) \/ Disconnect(r)
    BY <2>3 DEF Validate, SelectJti, Mint, StatementFails, Disconnect
  <2>4. QED BY <1>1, <2>1, <2>2, <2>3 DEF Handle
<1>2. ASSUME PurgeReadsClock \/ PurgeDeletes \/ PurgeFails \/ Crash \/ UNCHANGED vars
      PROVE  UNCHANGED <<clock, allowReplay, grants>>
  BY <1>2 DEF PurgeReadsClock, PurgeDeletes, PurgeFails, Crash, vars
<1>3. ASSUME Restart
      PROVE  ReplayLeases!LeaseNext \/ UNCHANGED <<clock, allowReplay, grants>>
  <2>1. allowReplay \in BOOLEAN /\ allowReplay' \in BOOLEAN /\ UNCHANGED <<clock, grants>>
    BY <1>3, ReplayAssumption DEF IInv, TypeOK, Restart
  <2>2. CASE allowReplay' = allowReplay
    BY <2>1, <2>2
  <2>3. CASE allowReplay' = ~allowReplay
    BY <2>1, <2>3 DEF ReplayLeases!LeaseNext, ReplayLeases!SwitchMode
  <2>4. QED BY <2>1, <2>2, <2>3
<1>4. ASSUME Tick
      PROVE  ReplayLeases!LeaseNext
  BY <1>4, ReplayAssumption DEF Tick, ReplayLeases!LeaseNext, ReplayLeases!Elapse
<1>5. QED
  BY <1>q, <1>1, <1>2, <1>3, <1>4 DEF Next

(* The table with its separate statements, background purge and restarts   *)
(* implements atomic leases: each accepted exchange grants one, and none   *)
(* that conflicts with a live one in the mode the process is in.           *)
THEOREM Refinement == Spec => ImplementsLease
<1>1. Init => ReplayLeases!LeaseInit
  <2>1. ASSUME Init
        PROVE  clock = 0 /\ DOMAIN grants = {} /\ (~allowReplay) \in BOOLEAN
    BY <2>1 DEF Init
  <2>2. ASSUME Init PROVE LeasesGranted = <<>>
    BY <2>1, <2>2 DEF LeasesGranted
  <2>3. QED BY <2>1, <2>2 DEF ReplayLeases!LeaseInit, LeasesGranted
<1>2. IInv /\ [Next]_vars => [ReplayLeases!LeaseNext]_(ReplayLeases!leaseVars)
  BY StepImplementsLease
<1>3. QED BY <1>1, <1>2, Invariance, PTL DEF Spec, ImplementsLease
=============================================================================
