--------------------------- MODULE SigningKeys ---------------------------
(***************************************************************************)
(* The RSA key pair: loaded from the configured paths, or found in the key *)
(* directory or generated into it, by a process that may be killed between *)
(* any two steps or see any of them fail.  std::fs::write truncates its    *)
(* file first and fills it afterwards, so that a kill can leave it cut.    *)
(***************************************************************************)
EXTENDS Naturals

CONSTANTS MaxPairs,  \* bound on the key pairs generated
          MaxKills   \* bound on the kills and failed steps

ASSUME KeysAssumption == MaxPairs \in Nat /\ MaxKills \in Nat

VARIABLES env,         \* which of the three RSA variables are set
          private,     \* the private key file, private.pem
          cert,        \* the certificate file, public.pem
          restricted,  \* the private key file has mode 0600
          step,        \* where the process is
          pair,        \* number of the pair being generated
          generated,   \* pairs generated so far
          signingKey,  \* pair the running service signs with; 0: none
          servedCert,  \* what GET /api/v1/cert answers
          lastServed,  \* history: pair of the last service that ran
          kills

files == <<private, cert, restricted>>
service == <<signingKey, servedCert, lastServed>>
vars == <<env, files, step, pair, generated, service, kills>>

(* A file holds the PEM of a pair, whole or cut short; pair 0: no file. *)
Absent == [pair |-> 0, whole |-> FALSE]
Cut(p) == [pair |-> p, whole |-> FALSE]
Whole(p) == [pair |-> p, whole |-> TRUE]
Exists(file) == file # Absent

Starting == {"resolve", "truncate_private", "write_private", "restrict_private",
             "truncate_cert", "write_cert"}

(* rsa_source.  Of a mixed setting, one file is taken from the directory.  *)
EnvType == [privatePath : BOOLEAN, certPath : BOOLEAN, directory : BOOLEAN]

Loads ==
    \/ env.privatePath /\ env.certPath
    \/ env.directory /\ env.privatePath # env.certPath
AutoGenerates == env.directory /\ ~env.privatePath /\ ~env.certPath

(* The first start: a fresh key directory or one with a pair in it; behind *)
(* configured paths, whatever whole files the operator has put there.      *)
Init ==
    /\ env \in EnvType
    /\ generated \in 0..MaxPairs
    /\ private \in {Absent} \cup {Whole(p) : p \in 1..generated}
    /\ cert \in {Absent} \cup {Whole(p) : p \in 1..generated}
    /\ restricted \in BOOLEAN
    /\ AutoGenerates =>
          /\ private = cert
          /\ generated = private.pair
          /\ restricted = Exists(private)
    /\ step = "down"
    /\ pair = 0
    /\ signingKey = 0
    /\ servedCert = Absent
    /\ lastServed = 0
    /\ kills = 0

Serve(p, c) ==
    /\ step' = "serving"
    /\ signingKey' = p
    /\ servedCert' = c
    /\ lastServed' = p

Stop ==
    /\ step' = "down"
    /\ pair' = 0
    /\ signingKey' = 0
    /\ servedCert' = Absent
    /\ UNCHANGED lastServed

Start ==
    /\ step = "down"
    /\ step' = "resolve"
    /\ UNCHANGED <<env, files, pair, generated, service, kills>>

PairIgnored == FALSE
PrivateExists == Exists(private)
BothExist == Exists(private) /\ Exists(cert)

(* Both sources check the mode first and try to correct it. *)
FixPermissions == restricted' \in {restricted, TRUE}

(* Only the private key is parsed; the certificate is served as it is.  A  *)
(* file that is missing or a private key that does not parse ends startup. *)
Load ==
    /\ step = "resolve"
    /\ Loads \/ (AutoGenerates /\ BothExist)
    /\ FixPermissions
    /\ \/ private.whole /\ Exists(cert) /\ Serve(private.pair, cert) /\ UNCHANGED pair
       \/ ~(private.whole /\ Exists(cert)) /\ Stop
    /\ UNCHANGED <<env, private, cert, generated, kills>>

Generate ==
    /\ step = "resolve"
    /\ AutoGenerates
    /\ ~BothExist
    /\ generated < MaxPairs
    /\ generated' = generated + 1
    /\ pair' = generated'
    /\ step' = "truncate_private"
    /\ UNCHANGED <<env, files, service, kills>>

(* No usable setting of the RSA variables. *)
Refuse ==
    /\ step = "resolve"
    /\ ~Loads
    /\ ~AutoGenerates
    /\ Stop
    /\ UNCHANGED <<env, files, generated, kills>>

(* A file that exists keeps its mode when it is truncated, a new one gets  *)
(* the default.                                                            *)
TruncatePrivate ==
    /\ private' = Cut(pair)
    /\ restricted' = (Exists(private) /\ restricted)
    /\ UNCHANGED cert
WritePrivate == private' = Whole(pair) /\ UNCHANGED <<cert, restricted>>
RestrictPrivate == restricted' = TRUE /\ UNCHANGED <<private, cert>>
TruncateCert == cert' = Cut(pair) /\ UNCHANGED <<private, restricted>>
WriteCert == cert' = Whole(pair) /\ UNCHANGED <<private, restricted>>

Goto(from, to) == step = from /\ step' = to

(* Faulty orders: the certificate first; the mode last. *)
SavePairCertFirst ==
    /\ \/ Goto("truncate_private", "write_private") /\ TruncateCert
       \/ Goto("write_private", "restrict_private") /\ WriteCert
       \/ Goto("restrict_private", "truncate_cert") /\ TruncatePrivate
       \/ Goto("truncate_cert", "write_cert") /\ WritePrivate
    /\ UNCHANGED <<env, pair, generated, service, kills>>
SavePairModeLast ==
    /\ \/ Goto("truncate_private", "write_private") /\ TruncatePrivate
       \/ Goto("write_private", "truncate_cert") /\ WritePrivate
       \/ Goto("truncate_cert", "restrict_private") /\ TruncateCert
       \/ Goto("restrict_private", "write_cert") /\ RestrictPrivate
    /\ UNCHANGED <<env, pair, generated, service, kills>>

SavePair ==
    /\ \/ Goto("truncate_private", "write_private") /\ TruncatePrivate
       \/ Goto("write_private", "restrict_private") /\ WritePrivate
       \/ Goto("restrict_private", "truncate_cert") /\ RestrictPrivate
       \/ Goto("truncate_cert", "write_cert") /\ TruncateCert
    /\ UNCHANGED <<env, pair, generated, service, kills>>

(* The service serves the generated PEM from memory. *)
FinishPair ==
    /\ step = "write_cert"
    /\ WriteCert
    /\ Serve(pair, Whole(pair))
    /\ UNCHANGED <<env, pair, generated, kills>>

(* A kill at any time, also before the keys are looked for, or a failed    *)
(* system call during startup, which ends the process as well.             *)
Kill ==
    /\ kills < MaxKills
    /\ kills' = kills + 1
    /\ Stop
    /\ UNCHANGED <<env, files, generated>>

ResolveKeyPair == Load \/ Generate \/ Refuse \/ SavePair \/ FinishPair

Next == Start \/ ResolveKeyPair \/ Kill

Spec == Init /\ [][Next]_vars
-----------------------------------------------------------------------------
File == [pair : 0..MaxPairs, whole : BOOLEAN]

(* Every variable has its type; a running service has a key to sign with. *)
TypeOK ==
    /\ env \in EnvType
    /\ private \in File
    /\ cert \in File
    /\ restricted \in BOOLEAN
    /\ step \in Starting \cup {"down", "serving"}
    /\ pair \in 0..MaxPairs
    /\ generated \in 0..MaxPairs
    /\ signingKey \in IF step = "serving" THEN 1..generated ELSE {0}
    /\ servedCert \in File
    /\ lastServed \in 0..MaxPairs
    /\ kills \in 0..MaxKills

(* Whenever a certificate is in the key directory, the private key is      *)
(* whole and of the same pair, wherever the process was killed: startup    *)
(* can never load a certificate next to a key it does not belong to.       *)
CertBelongsToKey ==
    AutoGenerates /\ Exists(cert) => private.whole /\ private.pair = cert.pair

(* Nor can it load a generated key others may read: the key a certificate  *)
(* stands beside is restricted, although it was written before it was.     *)
KeyFileRestricted == AutoGenerates /\ Exists(cert) => restricted

(* The pair a service has run with is the pair every later service runs    *)
(* with, so that downstream services need not install a new certificate.   *)
KeySurvivesRestarts == [][lastServed # 0 => lastServed' = lastServed]_vars
-----------------------------------------------------------------------------
(* What the documents say. *)

(* README.md, line 159: the certificate endpoint "Returns the RSA public   *)
(* key as a PEM-encoded X.509 certificate" that verifies minted tokens.    *)
ServedCertVerifies ==
    AutoGenerates /\ step = "serving" => servedCert = Whole(signingKey)
=============================================================================
