--------------------------- MODULE StartupProofs ---------------------------
(***************************************************************************)
(* Startup and its key files, proved for every number of key pairs, kills  *)
(* and outages and every bound on the wait for the IdP.                    *)
(***************************************************************************)
EXTENDS Startup, TLAPS

Saving == {"truncate_private", "write_private", "restrict_private",
           "truncate_cert", "write_cert"}

(* What each step of save_pair finds of the steps before it. *)
SavedSoFar ==
    /\ step \in Saving => AutoGenerates /\ pair = generated /\ pair # 0 /\ lastServed = 0
    /\ step \in Saving \ {"write_cert"} => cert = Absent
    /\ step \in {"restrict_private", "truncate_cert", "write_cert"} => private = Whole(pair)
    /\ step \in {"truncate_cert", "write_cert"} => restricted
    /\ step = "write_cert" => cert = Cut(pair)

(* A whole file was written by someone, and what has served is still there. *)
FilesAreFounded ==
    /\ private.whole => private.pair \in 1..generated
    /\ lastServed # 0 => private.whole /\ private.pair = lastServed /\ Exists(cert)

KeysInv ==
    /\ TypeOK
    /\ SavedSoFar
    /\ FilesAreFounded
    /\ CertBelongsToKey
    /\ KeyFileRestricted

(* The files an operator, or an earlier service, left before the first start. *)
LEMMA InitKeysInv == ASSUME Init PROVE KeysInv
<1>1. /\ generated \in 0..MaxPairs /\ MaxPairs \in Nat
      /\ private \in {Absent} \cup {Whole(p) : p \in 1..generated}
      /\ cert \in {Absent} \cup {Whole(p) : p \in 1..generated}
  BY KeysAssumption DEF Init
<1>2. private \in File /\ cert \in File /\ Absent \in File
  <2>1. 0 \in 0..MaxPairs /\ 1..generated \subseteq 0..MaxPairs
    BY <1>1
  <2>2. Absent \in File /\ \A p \in 1..generated : Whole(p) \in File
    BY <2>1 DEF File, Absent, Whole
  <2>3. QED BY <1>1, <2>2
<1>3. TypeOK
  BY <1>1, <1>2, KeysAssumption DEF Init, TypeOK, Starting
<1>4. SavedSoFar
  BY DEF Init, SavedSoFar, Saving
<1>5. FilesAreFounded
  BY <1>1 DEF Init, FilesAreFounded, Absent, Whole
<1>6. CertBelongsToKey /\ KeyFileRestricted
  BY <1>1 DEF Init, CertBelongsToKey, KeyFileRestricted, Exists, Absent, Whole
<1>7. QED BY <1>3, <1>4, <1>5, <1>6 DEF KeysInv

(* Nothing of the files changes when the process starts, ends or is killed. *)
LEMMA StopKeepsKeysInv ==
    ASSUME KeysInv, Start \/ Refuse \/ Kill
    PROVE  KeysInv' /\ lastServed' = lastServed
<1>1. /\ UNCHANGED <<env, files, generated>> /\ lastServed' = lastServed
      /\ step' \in {"down", "resolve"} /\ pair' \in {pair, 0}
      /\ signingKey' = 0 /\ servedCert' \in {servedCert, Absent}
      /\ kills' \in 0..MaxKills
  BY KeysAssumption DEF Start, Refuse, Kill, Stop, service, KeysInv, TypeOK
<1>2. Absent \in File
  BY KeysAssumption DEF Absent, File
<1>3. TypeOK'
  BY <1>1, <1>2, KeysAssumption DEF KeysInv, TypeOK, Starting, files
<1>4. SavedSoFar'
  BY <1>1 DEF SavedSoFar, Saving
<1>5. FilesAreFounded' /\ CertBelongsToKey' /\ KeyFileRestricted'
  BY <1>1 DEF KeysInv, FilesAreFounded, CertBelongsToKey, KeyFileRestricted,
              AutoGenerates, Exists, files
<1>6. QED BY <1>1, <1>3, <1>4, <1>5 DEF KeysInv

(* A loaded pair is the pair that has served before, if one has. *)
LEMMA LoadKeepsKeysInv ==
    ASSUME KeysInv, Load
    PROVE  KeysInv' /\ (lastServed # 0 => lastServed' = lastServed)
<1>1. /\ UNCHANGED <<env, private, cert, generated, kills>>
      /\ restricted' \in {restricted, TRUE}
      /\ step = "resolve"
  BY DEF Load, FixPermissions
<1>2. /\ private \in File /\ cert \in File /\ Absent \in File
      /\ generated \in 0..MaxPairs /\ 0 \in 0..MaxPairs
  BY KeysAssumption DEF KeysInv, TypeOK, Absent, File
<1>r. restricted' \in BOOLEAN
  BY <1>1, Zenon DEF KeysInv, TypeOK
<1>3. CASE private.whole /\ Exists(cert) /\ Serve(private.pair, cert) /\ UNCHANGED pair
  <2>1. /\ step' = "serving" /\ signingKey' = private.pair
        /\ servedCert' = cert /\ lastServed' = private.pair /\ pair' = pair
    BY <1>3 DEF Serve
  <2>2. private.pair \in 1..generated
    BY <1>3 DEF KeysInv, FilesAreFounded
  <2>3. TypeOK'
    <3>1. private.pair \in 0..MaxPairs
      BY <1>2 DEF File
    <3>2. signingKey' \in 1..generated'
      BY <1>1, <2>1, <2>2
    <3>3. QED BY <1>1, <1>2, <1>r, <2>1, <3>1, <3>2 DEF KeysInv, TypeOK
  <2>4. QED
    BY <1>1, <1>3, <2>1, <2>2, <2>3
    DEF KeysInv, SavedSoFar, Saving, FilesAreFounded, CertBelongsToKey, KeyFileRestricted,
        AutoGenerates, Exists
<1>4. CASE Stop
  <2>1. /\ step' = "down" /\ pair' = 0 /\ signingKey' = 0 /\ servedCert' = Absent
        /\ lastServed' = lastServed
    BY <1>4 DEF Stop
  <2>2. TypeOK'
    BY <1>1, <1>2, <1>r, <2>1 DEF KeysInv, TypeOK
  <2>3. QED
    BY <1>1, <2>1, <2>2
    DEF KeysInv, SavedSoFar, Saving, FilesAreFounded, CertBelongsToKey, KeyFileRestricted,
        AutoGenerates, Exists
<1>5. QED BY <1>3, <1>4 DEF Load

(* A pair is generated only when no certificate exists, hence before any   *)
(* service has run.                                                        *)
LEMMA GenerateKeepsKeysInv ==
    ASSUME KeysInv, Generate
    PROVE  KeysInv' /\ lastServed' = lastServed
<1>1. /\ UNCHANGED <<env, files, service, kills>> /\ AutoGenerates /\ ~BothExist
      /\ generated' = generated + 1 /\ pair' = generated' /\ step' = "truncate_private"
      /\ generated < MaxPairs
  BY DEF Generate
<1>2. generated \in Nat /\ generated' \in 0..MaxPairs
  BY <1>1, KeysAssumption DEF KeysInv, TypeOK
<1>3. ~Exists(cert)
  BY <1>1 DEF KeysInv, CertBelongsToKey, BothExist, Exists, Absent
<1>4. lastServed = 0
  BY <1>3 DEF KeysInv, FilesAreFounded
<1>5. TypeOK'
  BY <1>1, <1>2, KeysAssumption DEF Generate, KeysInv, TypeOK, Starting, files, service
<1>6. SavedSoFar'
  BY <1>1, <1>2, <1>3, <1>4
  DEF SavedSoFar, Saving, AutoGenerates, Exists, files, service
<1>7. FilesAreFounded' /\ CertBelongsToKey' /\ KeyFileRestricted'
  BY <1>1, <1>2 DEF KeysInv, FilesAreFounded, CertBelongsToKey, KeyFileRestricted,
                    AutoGenerates, Exists, files, service
<1>8. QED BY <1>1, <1>5, <1>6, <1>7 DEF KeysInv, service

(* The order of save_pair: the certificate comes when the key beside it is *)
(* whole and restricted.                                                   *)
LEMMA SaveKeepsKeysInv ==
    ASSUME KeysInv, SavePair
    PROVE  KeysInv' /\ lastServed' = lastServed
<1>1. /\ UNCHANGED <<env, pair, generated, service, kills>> /\ step \in Saving
      /\ step' \in Saving
  BY DEF SavePair, Goto, Saving
<1>2. /\ AutoGenerates /\ pair = generated /\ pair # 0 /\ lastServed = 0
      /\ pair \in 0..MaxPairs /\ pair \in 1..generated
      /\ private \in File /\ cert \in File /\ restricted \in BOOLEAN
      /\ step # "serving"
  BY <1>1, KeysAssumption DEF KeysInv, SavedSoFar, TypeOK, Saving
<1>3. Cut(pair) \in File /\ Whole(pair) \in File /\ Cut(pair) # Absent
  BY <1>2 DEF File, Cut, Whole, Absent
<1>4. CASE step = "truncate_private" /\ step' = "write_private" /\ TruncatePrivate
  BY <1>1, <1>2, <1>3, <1>4
  DEF TruncatePrivate, KeysInv, TypeOK, SavedSoFar, FilesAreFounded, CertBelongsToKey,
      KeyFileRestricted, Exists, Saving, Starting, service, Cut, AutoGenerates
<1>5. CASE step = "write_private" /\ step' = "restrict_private" /\ WritePrivate
  BY <1>1, <1>2, <1>3, <1>5
  DEF WritePrivate, KeysInv, TypeOK, SavedSoFar, FilesAreFounded, CertBelongsToKey,
      KeyFileRestricted, Exists, Saving, Starting, service, Whole, AutoGenerates
<1>6. CASE step = "restrict_private" /\ step' = "truncate_cert" /\ RestrictPrivate
  BY <1>1, <1>2, <1>3, <1>6
  DEF RestrictPrivate, KeysInv, TypeOK, SavedSoFar, FilesAreFounded, CertBelongsToKey,
      KeyFileRestricted, Exists, Saving, Starting, service, AutoGenerates
<1>7. CASE step = "truncate_cert" /\ step' = "write_cert" /\ TruncateCert
  BY <1>1, <1>2, <1>3, <1>7
  DEF TruncateCert, KeysInv, TypeOK, SavedSoFar, FilesAreFounded, CertBelongsToKey,
      KeyFileRestricted, Exists, Saving, Starting, service, Cut, Whole, AutoGenerates
<1>8. QED BY <1>4, <1>5, <1>6, <1>7, <1>1 DEF SavePair, Goto, service

(* The first service of a generated pair. *)
LEMMA FinishKeepsKeysInv ==
    ASSUME KeysInv, FinishPair
    PROVE  KeysInv' /\ lastServed = 0
<1>1. /\ UNCHANGED <<env, private, restricted, pair, generated, kills>>
      /\ step = "write_cert" /\ step' = "serving" /\ cert' = Whole(pair)
      /\ signingKey' = pair /\ servedCert' = Whole(pair) /\ lastServed' = pair
  BY DEF FinishPair, WriteCert, Serve
<1>2. /\ AutoGenerates /\ pair = generated /\ pair # 0 /\ lastServed = 0
      /\ private = Whole(pair) /\ restricted
      /\ pair \in 0..MaxPairs /\ pair \in 1..generated
  BY <1>1, KeysAssumption DEF KeysInv, SavedSoFar, TypeOK, Saving
<1>3. Whole(pair) \in File /\ Whole(pair) # Absent
  BY <1>2 DEF File, Whole, Absent
<1>4. TypeOK'
  BY <1>1, <1>2, <1>3 DEF KeysInv, TypeOK
<1>5. QED
  BY <1>1, <1>2, <1>3, <1>4
  DEF KeysInv, SavedSoFar, Saving, FilesAreFounded, CertBelongsToKey, KeyFileRestricted,
      Exists, Whole, AutoGenerates

(* Every step of the key store keeps its invariant. *)
LEMMA StepKeepsKeysInv ==
    ASSUME KeysInv, [Next]_vars
    PROVE  KeysInv' /\ (lastServed # 0 => lastServed' = lastServed)
<1>1. CASE UNCHANGED vars
  BY <1>1
  DEF KeysInv, TypeOK, SavedSoFar, FilesAreFounded, CertBelongsToKey, KeyFileRestricted,
      AutoGenerates, Exists, vars, files, service
<1>2. QED
  BY <1>1, StopKeepsKeysInv, LoadKeepsKeysInv, GenerateKeepsKeysInv, SaveKeepsKeysInv,
     FinishKeepsKeysInv
  DEF Next, ResolveKeyPair

(* The inductive invariant of the key store holds in every reachable state. *)
THEOREM KeysInvariance == Spec => []KeysInv
<1>1. Init => KeysInv
  BY InitKeysInv
<1>2. KeysInv /\ [Next]_vars => KeysInv'
  BY StepKeepsKeysInv
<1>3. QED BY <1>1, <1>2, PTL DEF Spec

(* Every variable of the key store keeps its type. *)
THEOREM KeysTypeCorrect == Spec => []TypeOK
BY KeysInvariance, PTL DEF KeysInv

(* A certificate in the key directory always stands beside its own key. *)
THEOREM CertAlwaysBelongs == Spec => []CertBelongsToKey
BY KeysInvariance, PTL DEF KeysInv

(* A generated key that can be loaded is readable by its owner alone. *)
THEOREM KeyAlwaysRestricted == Spec => []KeyFileRestricted
BY KeysInvariance, PTL DEF KeysInv

(* Whatever is killed and started again, a pair that has served stays. *)
THEOREM KeyAlwaysSurvives == Spec => KeySurvivesRestarts
<1>1. KeysInv /\ [Next]_vars => [lastServed # 0 => lastServed' = lastServed]_vars
  BY StepKeepsKeysInv
<1>2. QED BY <1>1, KeysInvariance, PTL DEF Spec, KeySurvivesRestarts
-----------------------------------------------------------------------------
(* Bootstrap does nothing to the key pair that SigningKeys does not allow. *)
THEOREM BootImplementsKeys == BootSpec => Spec
<1>1. BootInit => Init
  BY DEF BootInit
<1>2. [BootNext]_bootVars => [Next]_vars
  <2>1. Begin \/ OpenPool \/ Discovered \/ DiscoveryFails \/ BackOff \/ IdpFails \/ IdpRecovers
          => UNCHANGED vars
    BY DEF Begin, OpenPool, Discovered, DiscoveryFails, BackOff, IdpFails, IdpRecovers
  <2>2. FetchJwks => Start \/ UNCHANGED vars
    BY DEF FetchJwks
  <2>3. ResolveKeys => ResolveKeyPair
    BY DEF ResolveKeys
  <2>4. Interrupted => Kill
    BY DEF Interrupted
  <2>5. UNCHANGED bootVars => UNCHANGED vars
    BY DEF bootVars
  <2>6. QED BY <2>1, <2>2, <2>3, <2>4, <2>5 DEF BootNext, Bootstrap, Next
<1>3. QED BY <1>1, <1>2, PTL DEF BootSpec, Spec

(* The backoff never shrinks, so that what was slept is at most the        *)
(* product discovery tests, taken one attempt earlier.                     *)
WaitInv ==
    /\ attempt \in Nat \ {0}
    /\ backoff \in 1..MaxBackoff
    /\ waited \in Nat
    /\ waited <= (attempt - 1) * backoff
    /\ boot = "sleep" => attempt * backoff < MaxWait
    /\ WaitIsBounded

(* A product grows with its second factor. *)
LEMMA ProductGrows ==
    ASSUME NEW a \in Nat, NEW b \in Nat, NEW c \in Nat, b <= c
    PROVE  a * b \in Nat /\ a * c \in Nat /\ a * b <= a * c
<1>1. PICK d \in Nat : c = b + d
  <2>1. c - b \in Nat /\ c = b + (c - b) OBVIOUS
  <2>2. QED BY <2>1
<1>2. a * c = a * b + a * d /\ a * d \in Nat
  BY <1>1
<1>3. a * b \in Nat /\ a * c \in Nat OBVIOUS
<1>4. QED BY <1>2, <1>3

(* A sleep keeps the bound on the time slept. *)
LEMMA BackOffKeepsWaitInv == ASSUME WaitInv, BackOff PROVE WaitInv'
<1>1. /\ boot = "sleep" /\ boot' = "discover"
      /\ waited' = waited + backoff /\ backoff' = Doubled /\ attempt' = attempt + 1
  BY DEF BackOff, Step
<1>2. backoff' \in 1..MaxBackoff /\ backoff <= backoff'
  BY <1>1, StartupAssumption DEF WaitInv, Doubled
<1>3. attempt \in Nat /\ backoff \in Nat /\ backoff' \in Nat /\ waited \in Nat
  BY <1>2, StartupAssumption DEF WaitInv
<1>4. attempt * backoff <= attempt * backoff'
  BY <1>2, <1>3, ProductGrows
<1>5. (attempt - 1) * backoff = attempt * backoff - backoff
  <2>1. PICK m \in Nat : attempt = m + 1
    <3>1. attempt - 1 \in Nat /\ attempt = (attempt - 1) + 1
      BY <1>3 DEF WaitInv
    <3>2. QED BY <3>1
  <2>2. (m + 1) * backoff = m * backoff + backoff /\ m * backoff \in Nat
    BY <2>1, <1>3
  <2>3. QED BY <2>1, <2>2, <1>3
<1>6. attempt * backoff \in Nat /\ attempt * backoff' \in Nat
  BY <1>2, <1>3, ProductGrows
<1>7. waited' <= attempt * backoff
  BY <1>1, <1>3, <1>5, <1>6 DEF WaitInv
<1>8. waited' <= (attempt' - 1) * backoff'
  <2>1. attempt' - 1 = attempt
    BY <1>1, <1>3
  <2>2. QED BY <2>1, <1>1, <1>3, <1>4, <1>6, <1>7
<1>9. waited' <= MaxWait
  BY <1>1, <1>3, <1>6, <1>7, StartupAssumption DEF WaitInv
<1>10. QED BY <1>1, <1>2, <1>3, <1>8, <1>9 DEF WaitInv, WaitIsBounded

(* The inductive invariant of discovery holds in every reachable state. *)
THEOREM WaitInvariance == BootSpec => []WaitInv
<1>1. BootInit => WaitInv
  BY StartupAssumption DEF BootInit, WaitInv, WaitIsBounded
<1>2. ASSUME WaitInv, [BootNext]_bootVars
      PROVE  WaitInv'
  <2>1. CASE OpenPool
    BY <1>2, <2>1, StartupAssumption DEF OpenPool, Step, WaitInv, WaitIsBounded
  <2>2. CASE DiscoveryFails
    <3>1. UNCHANGED discovery /\ (boot' = "sleep" => ~GivesUp)
      BY <2>2 DEF DiscoveryFails, Step
    <3>2. ~GivesUp => attempt * backoff < MaxWait
      <4>1. attempt * backoff \in Nat /\ MaxWait \in Nat
        BY <1>2, StartupAssumption DEF WaitInv
      <4>2. QED BY <4>1 DEF GivesUp
    <3>3. QED
      BY <1>2, <3>1, <3>2 DEF discovery, WaitInv, WaitIsBounded
  <2>3. CASE IdpFails \/ IdpRecovers \/ UNCHANGED bootVars
    BY <1>2, <2>3 DEF IdpFails, IdpRecovers, bootVars, discovery, WaitInv, WaitIsBounded
  <2>4. CASE Begin \/ Discovered \/ FetchJwks \/ ResolveKeys \/ Interrupted
    <3>1. UNCHANGED discovery /\ boot' # "sleep"
      BY <2>4 DEF Begin, Discovered, FetchJwks, ResolveKeys, Interrupted, Step
    <3>2. QED BY <1>2, <3>1 DEF discovery, WaitInv, WaitIsBounded
  <2>5. QED
    BY <1>2, <2>1, <2>2, <2>3, <2>4, BackOffKeepsWaitInv DEF BootNext, Bootstrap
<1>3. QED BY <1>1, <1>2, PTL DEF BootSpec

(* Discovery never sleeps longer than it is allowed, whatever the bounds.  *)
THEOREM WaitAlwaysBounded == BootSpec => []WaitIsBounded
BY WaitInvariance, PTL DEF WaitInv
-----------------------------------------------------------------------------
(* The part of BootTypeOK that is not the key store's or discovery's. *)
BootPlace ==
    /\ boot \in {"down", "pool", "discover", "sleep", "jwks", "keys"}
    /\ idpUp \in BOOLEAN
    /\ outages \in 0..MaxOutages
    /\ (step # "down") = (boot = "keys")

(* The key store moves only while bootstrap resolves the keys or serves. *)
LEMMA StepKeepsBootPlace ==
    ASSUME BootPlace, [BootNext]_bootVars
    PROVE  BootPlace'
<1>1. CASE Begin \/ OpenPool \/ Discovered \/ DiscoveryFails \/ BackOff
  BY <1>1 DEF Begin, OpenPool, Discovered, DiscoveryFails, BackOff, Step, idp, vars, BootPlace
<1>2. CASE FetchJwks
  BY <1>2 DEF FetchJwks, Step, Start, idp, vars, BootPlace
<1>3. CASE ResolveKeys
  BY <1>3 DEF ResolveKeys, idp, BootPlace
<1>4. CASE Interrupted
  BY <1>4 DEF Interrupted, Kill, Stop, idp, BootPlace
<1>5. CASE IdpFails
  <2>1. outages' \in 0..MaxOutages /\ idpUp' = FALSE /\ boot' = boot /\ step' = step
    BY <1>5, StartupAssumption DEF IdpFails, vars, BootPlace
  <2>2. QED BY <2>1 DEF BootPlace
<1>6. CASE IdpRecovers \/ UNCHANGED bootVars
  BY <1>6 DEF IdpRecovers, bootVars, idp, vars, BootPlace
<1>7. QED BY <1>1, <1>2, <1>3, <1>4, <1>5, <1>6 DEF BootNext, Bootstrap

(* Every variable of startup keeps its type, and the keys are last. *)
THEOREM BootTypeCorrect == BootSpec => []BootTypeOK
<1>1. BootInit => BootPlace
  BY StartupAssumption DEF BootInit, Init, BootPlace
<1>2. TypeOK /\ WaitInv /\ BootPlace => BootTypeOK
  BY DEF WaitInv, BootPlace, BootTypeOK
<1>3. BootSpec => []BootPlace
  BY <1>1, StepKeepsBootPlace, PTL DEF BootSpec
<1>4. QED
  BY <1>2, <1>3, BootImplementsKeys, KeysTypeCorrect, WaitInvariance, PTL
=============================================================================
