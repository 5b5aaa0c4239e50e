---------------------------- MODULE AuditProofs ----------------------------
(***************************************************************************)
(* The audit trail, proved for every capacity, batch size and number of    *)
(* retries, events and restarts.                                           *)
(***************************************************************************)
EXTENDS AuditTrail, FiniteSetTheorems, TLAPS

(* A flush takes the whole batch; a retry is due only while some are left. *)
ExporterInv ==
    /\ exporter \in {"collect", "stopped"} => inflight = <<>> /\ Len(batch) < BatchSize
    /\ exporter \in {"send", "sleep"} => batch = <<>> /\ Len(inflight) <= BatchSize
    /\ exporter = "sleep" => attempt < MaxRetries

Kept == InMemory \cup ToSet(indexed) \cup dropped \cup lost \cup died

(* Nothing is on its way, refused or lost that was not logged. *)
LoggedInv == InMemory \cup dropped \cup lost \subseteq 1..logged

AuditInv ==
    /\ TypeOK
    /\ Len(channel) <= Capacity
    /\ ExporterInv
    /\ 1..logged \subseteq Kept
    /\ LoggedInv

Ascending(s) == \A i, j \in DOMAIN s : i < j => s[i] < s[j]

(* What was sent was logged before what waits, in the batch or the channel. *)
QueueInv ==
    /\ Ascending(inflight) /\ Ascending(batch) /\ Ascending(channel)
    /\ \A x \in ToSet(batch), y \in ToSet(channel) : x < y
    /\ \A x \in ToSet(indexed) \cup ToSet(inflight), y \in ToSet(batch) \cup ToSet(channel) : x < y
    /\ ToSet(indexed) \subseteq 1..logged

(* An event of the flush that runs is late in Splunk only if it is there   *)
(* already.                                                                *)
RepeatInv ==
    \A e \in ToSet(inflight), i \in DOMAIN indexed :
        e <= indexed[i] => \E k \in 1..i : indexed[k] = e

OrderInv == QueueInv /\ RepeatInv /\ IndexedInOrder

Occurrences(s, e) == {i \in DOMAIN s : s[i] = e}
Times(s, e) == Cardinality(Occurrences(s, e))

(* The attempts at the flush that have had their answer. *)
Answered == IF exporter = "sleep" THEN attempt + 1 ELSE attempt

(* Each of them may have indexed the events of the flush once.             *)
TimesInv ==
    /\ \A e \in Event : Times(indexed, e) <= MaxRetries + 1
    /\ exporter \in {"send", "sleep"} =>
          \A e \in ToSet(inflight) : Times(indexed, e) <= Answered

(* The elements of a sequence, for each way the exporter builds one. *)
LEMMA ElementsOf ==
    ASSUME NEW S, NEW s \in Seq(S)
    PROVE  /\ ToSet(<<>>) = {}
           /\ \A e \in S : Append(s, e) \in Seq(S) /\ ToSet(Append(s, e)) = ToSet(s) \cup {e}
           /\ \A t \in Seq(S) : s \o t \in Seq(S) /\ ToSet(s \o t) = ToSet(s) \cup ToSet(t)
           /\ s # <<>> => /\ Head(s) \in S /\ Tail(s) \in Seq(S)
                          /\ ToSet(s) = {Head(s)} \cup ToSet(Tail(s))
<1>1. ToSet(<<>>) = {}
  BY DEF ToSet
<1>2. ASSUME NEW e \in S
      PROVE  Append(s, e) \in Seq(S) /\ ToSet(Append(s, e)) = ToSet(s) \cup {e}
  <2>1. ToSet(Append(s, e)) \subseteq ToSet(s) \cup {e}
    BY DEF ToSet
  <2>2. ToSet(s) \subseteq ToSet(Append(s, e))
    BY DEF ToSet
  <2>3. e \in ToSet(Append(s, e))
    <3>1. Append(s, e)[Len(s) + 1] = e /\ Len(s) + 1 \in DOMAIN Append(s, e) OBVIOUS
    <3>2. QED BY <3>1 DEF ToSet
  <2>4. QED BY <2>1, <2>2, <2>3
<1>3. ASSUME NEW t \in Seq(S)
      PROVE  s \o t \in Seq(S) /\ ToSet(s \o t) = ToSet(s) \cup ToSet(t)
  <2>1. ToSet(s \o t) \subseteq ToSet(s) \cup ToSet(t)
    BY DEF ToSet
  <2>2. ToSet(s) \subseteq ToSet(s \o t)
    BY DEF ToSet
  <2>3. ToSet(t) \subseteq ToSet(s \o t)
    <3>1. ASSUME NEW i \in 1..Len(t)
          PROVE  (s \o t)[Len(s) + i] = t[i] /\ Len(s) + i \in DOMAIN (s \o t)
      OBVIOUS
    <3>2. ASSUME NEW x \in ToSet(t) PROVE x \in ToSet(s \o t)
      <4>1. PICK i \in 1..Len(t) : x = t[i]
        BY <3>2 DEF ToSet
      <4>2. QED BY <3>1, <4>1 DEF ToSet
    <3>3. QED BY <3>2
  <2>4. QED BY <2>1, <2>2, <2>3
<1>4. ASSUME s # <<>>
      PROVE  /\ Head(s) \in S /\ Tail(s) \in Seq(S)
             /\ ToSet(s) = {Head(s)} \cup ToSet(Tail(s))
  <2>1. Head(s) \in S /\ Tail(s) \in Seq(S) /\ Len(Tail(s)) = Len(s) - 1 /\ Len(s) \in Nat \ {0}
    BY <1>4
  <2>2. \A i \in 1..Len(Tail(s)) : Tail(s)[i] = s[i + 1]
    BY <1>4
  <2>3. ToSet(Tail(s)) \subseteq ToSet(s) /\ Head(s) \in ToSet(s)
    BY <2>1, <2>2 DEF ToSet
  <2>4. ASSUME NEW i \in 1..Len(s) PROVE s[i] \in {Head(s)} \cup ToSet(Tail(s))
    <3>1. CASE i = 1 BY <3>1, <1>4
    <3>2. CASE i # 1
      <4>1. i - 1 \in 1..Len(Tail(s)) /\ Tail(s)[i - 1] = s[i]
        BY <3>2, <2>1, <2>2
      <4>2. i - 1 \in DOMAIN Tail(s)
        BY <4>1, <2>1
      <4>3. QED BY <4>1, <4>2 DEF ToSet
    <3>3. QED BY <3>1, <3>2
  <2>5. ToSet(s) \subseteq {Head(s)} \cup ToSet(Tail(s))
    BY <2>4 DEF ToSet
  <2>6. QED BY <2>1, <2>3, <2>5
<1>5. QED BY <1>1, <1>2, <1>3, <1>4

(* The empty trail satisfies the invariant. *)
LEMMA InitAuditInv == ASSUME Init PROVE AuditInv
BY AuditAssumption
DEF Init, AuditInv, TypeOK, ExporterInv, LoggedInv, Kept, InMemory, ToSet

(* An attempt is offered to the channel and has its insert spawned. *)
LEMMA LogKeepsAuditInv == ASSUME AuditInv, LogAttempt PROVE AuditInv'
<1>1. /\ logged \in Nat /\ logged' = logged + 1 /\ logged' \in 1..MaxEvents
      /\ logged \in 0..MaxEvents
  BY AuditAssumption DEF AuditInv, TypeOK, LogAttempt
<1>2. /\ UNCHANGED <<open, rows, unwritten, flushVars, indexed, lost, died, crashes>>
      /\ spawned' = spawned \cup {logged'}
  BY DEF LogAttempt
<1>3. channel \in Seq(Event) /\ logged' \in Event /\ dropped \subseteq Event
  BY <1>1 DEF AuditInv, TypeOK, Event
<1>4. /\ channel' \in Seq(Event) /\ Len(channel') <= Capacity /\ dropped' \subseteq Event
      /\ ToSet(channel') \cup dropped' = ToSet(channel) \cup dropped \cup {logged'}
  <2>1. CASE Room /\ channel' = Append(channel, logged') /\ UNCHANGED dropped
    <3>1. ToSet(channel') = ToSet(channel) \cup {logged'} /\ channel' \in Seq(Event)
      BY <2>1, <1>3, ElementsOf
    <3>2. Len(channel') <= Capacity
      BY <2>1, <1>3, AuditAssumption DEF Room
    <3>3. QED BY <2>1, <3>1, <3>2, <1>3
  <2>2. CASE ~Room /\ dropped' = dropped \cup {logged'} /\ UNCHANGED channel
    BY <2>2, <1>3 DEF AuditInv
  <2>3. QED BY <2>1, <2>2 DEF LogAttempt, Offer
<1>5. TypeOK'
  BY <1>1, <1>2, <1>3, <1>4 DEF AuditInv, TypeOK, flushVars, Event
<1>6. ExporterInv'
  BY <1>2 DEF AuditInv, ExporterInv, flushVars
<1>7. 1..logged' = 1..logged \cup {logged'}
  BY <1>1
<1>8. (1..logged \subseteq Kept)'
  BY <1>2, <1>4, <1>7 DEF AuditInv, Kept, InMemory, flushVars
<1>9. LoggedInv'
  BY <1>2, <1>4, <1>7 DEF AuditInv, LoggedInv, InMemory, flushVars
<1>10. QED BY <1>4, <1>5, <1>6, <1>8, <1>9 DEF AuditInv

(* Inserts, and a server that stops, touch nothing of the export. *)
LEMMA InsertKeepsAuditInv ==
    ASSUME AuditInv, ServerStops \/ (\E e \in spawned : InsertRow(e)) \/ UNCHANGED vars
    PROVE  AuditInv'
<1>1. /\ UNCHANGED <<logged, channel, flushVars, indexed, dropped, lost, died, crashes>>
  BY DEF ServerStops, InsertRow, vars, rowVars
<1>2. /\ open' \in BOOLEAN /\ spawned' \subseteq Event /\ rows' \subseteq Event
      /\ unwritten' \subseteq Event
  BY DEF ServerStops, InsertRow, vars, rowVars, AuditInv, TypeOK
<1>3. TypeOK' /\ ExporterInv' /\ Len(channel') <= Capacity
  BY <1>1, <1>2 DEF AuditInv, TypeOK, ExporterInv, flushVars
<1>4. (1..logged \subseteq Kept)' /\ LoggedInv'
  BY <1>1 DEF AuditInv, LoggedInv, Kept, InMemory, flushVars
<1>5. QED BY <1>3, <1>4 DEF AuditInv

(* The exporter moves events from the channel to the batch to the flush.   *)
LEMMA ExportKeepsAuditInv == ASSUME AuditInv, Export PROVE AuditInv'
<1>u. /\ UNCHANGED <<logged, open, rowVars, indexed, dropped, lost, died, crashes>>
      /\ channel \in Seq(Event) /\ batch \in Seq(Event) /\ inflight \in Seq(Event)
      /\ attempt \in 0..MaxRetries /\ MaxRetries \in Nat /\ Capacity \in Nat
      /\ BatchSize \in Nat \ {0} /\ Len(channel) <= Capacity /\ ExporterInv
  BY AuditAssumption
  DEF Export, Receive, FlushPartial, ExporterStops, RetryDue, AuditInv, TypeOK
<1>1. /\ channel' \in Seq(Event) /\ batch' \in Seq(Event) /\ inflight' \in Seq(Event)
      /\ exporter' \in {"collect", "send", "sleep", "stopped"}
      /\ attempt' \in 0..MaxRetries /\ Len(channel') <= Capacity /\ ExporterInv'
      /\ InMemory' = InMemory
  <2>1. CASE Receive
    <3>1. /\ Head(channel) \in Event /\ Tail(channel) \in Seq(Event)
          /\ Len(Tail(channel)) <= Capacity
          /\ ToSet(channel) = {Head(channel)} \cup ToSet(Tail(channel))
      BY <2>1, <1>u, ElementsOf DEF Receive
    <3>2. /\ Collected \in Seq(Event) /\ Len(Collected) = Len(batch) + 1
          /\ ToSet(Collected) = ToSet(batch) \cup {Head(channel)}
      BY <3>1, <1>u, ElementsOf DEF Collected
    <3>3. exporter = "collect" /\ inflight = <<>> /\ Len(batch) < BatchSize
      BY <2>1, <1>u DEF Receive, ExporterInv
    <3>4. Len(batch) \in Nat /\ Len(Collected) <= BatchSize /\ ToSet(<<>>) = {}
      BY <3>2, <3>3, <1>u, ElementsOf
    <3>5. CASE BatchFull(Collected) /\ Flush(Collected)
      BY <2>1, <3>1, <3>2, <3>3, <3>4, <3>5, <1>u
      DEF Receive, Flush, ExporterInv, InMemory
    <3>6. CASE ~BatchFull(Collected) /\ batch' = Collected /\ UNCHANGED <<exporter, inflight, attempt>>
      BY <2>1, <3>1, <3>2, <3>3, <3>4, <3>6, <1>u
      DEF Receive, BatchFull, ExporterInv, InMemory
    <3>7. QED BY <2>1, <3>5, <3>6 DEF Receive
  <2>2. CASE FlushPartial
    BY <2>2, <1>u, ElementsOf DEF FlushPartial, Flush, ExporterInv, InMemory
  <2>3. CASE ExporterStops
    BY <2>3, <1>u DEF ExporterStops, ExporterInv, InMemory
  <2>4. CASE RetryDue
    BY <2>4, <1>u DEF RetryDue, ExporterInv, InMemory
  <2>5. QED BY <2>1, <2>2, <2>3, <2>4 DEF Export
<1>2. TypeOK'
  BY <1>u, <1>1 DEF AuditInv, TypeOK, rowVars
<1>3. (1..logged \subseteq Kept)' /\ LoggedInv'
  BY <1>u, <1>1 DEF AuditInv, LoggedInv, Kept, rowVars
<1>4. QED BY <1>1, <1>2, <1>3 DEF AuditInv

(* What Splunk answers leaves a flush indexed, due again, or reported lost. *)
LEMMA AnswerKeepsAuditInv == ASSUME AuditInv, SplunkAnswers PROVE AuditInv'
<1>u. /\ UNCHANGED <<logged, open, channel, rowVars, batch, attempt, dropped, died, crashes>>
      /\ exporter = "send" /\ batch = <<>> /\ inflight \in Seq(Event)
      /\ indexed \in Seq(Event) /\ BatchSize \in Nat \ {0} /\ lost \subseteq Event
      /\ attempt \in 0..MaxRetries /\ MaxRetries \in Nat /\ Len(inflight) <= BatchSize
  BY AuditAssumption
  DEF SplunkAnswers, SendSucceeds, SendFails, GiveUp, Collect, AuditInv, TypeOK, ExporterInv
<1>1. /\ indexed \o inflight \in Seq(Event) /\ ToSet(<<>>) = {}
      /\ ToSet(indexed \o inflight) = ToSet(indexed) \cup ToSet(inflight)
  BY <1>u, ElementsOf
<1>2. ToSet(inflight) \subseteq Event
  BY <1>u DEF ToSet
<1>3. indexed' \in Seq(Event) /\ ToSet(indexed) \subseteq ToSet(indexed')
  BY <1>u, <1>1 DEF SplunkAnswers, SendSucceeds, SendFails
<1>4. CASE exporter' = "sleep" /\ RetriesLeft /\ UNCHANGED <<inflight, lost>>
  <2>1. TypeOK' /\ ExporterInv'
    BY <1>u, <1>3, <1>4 DEF AuditInv, TypeOK, ExporterInv, RetriesLeft, rowVars
  <2>2. InMemory' = InMemory
    BY <1>u, <1>4 DEF InMemory
  <2>3. (1..logged \subseteq Kept)' /\ LoggedInv'
    BY <1>u, <1>3, <1>4, <2>2 DEF AuditInv, LoggedInv, Kept, rowVars
  <2>4. QED BY <1>u, <2>1, <2>3 DEF AuditInv
<1>5. CASE /\ exporter' = "collect" /\ inflight' = <<>> /\ lost' \in {lost, lost \cup ToSet(inflight)}
           /\ ToSet(inflight) \subseteq ToSet(indexed') \cup lost'
  <2>1. TypeOK' /\ ExporterInv'
    BY <1>u, <1>2, <1>3, <1>5 DEF AuditInv, TypeOK, ExporterInv, rowVars
  <2>2. InMemory = InMemory' \cup ToSet(inflight)
    BY <1>u, <1>1, <1>5 DEF InMemory
  <2>3. (1..logged \subseteq Kept)' /\ LoggedInv'
    BY <1>u, <1>3, <1>5, <2>2 DEF AuditInv, LoggedInv, Kept, rowVars
  <2>4. QED BY <1>u, <2>1, <2>3 DEF AuditInv
<1>6. QED
  BY <1>1, <1>4, <1>5 DEF SplunkAnswers, SendSucceeds, SendFails, GiveUp, Collect

(* What dies with the process is named: events and inserts. *)
LEMMA RestartKeepsAuditInv == ASSUME AuditInv, Restart PROVE AuditInv'
<1>1. InMemory \subseteq Event
  BY DEF AuditInv, TypeOK, InMemory, ToSet
<1>2. TypeOK' /\ ExporterInv' /\ Len(channel') <= Capacity
  BY <1>1, AuditAssumption DEF Restart, AuditInv, TypeOK, ExporterInv
<1>3. InMemory' = {} /\ died' = died \cup InMemory
  BY DEF Restart, InMemory, ToSet
<1>4. (1..logged \subseteq Kept)'
  BY <1>3 DEF Restart, AuditInv, Kept
<1>5. LoggedInv'
  BY <1>3 DEF Restart, AuditInv, LoggedInv
<1>6. QED BY <1>2, <1>4, <1>5 DEF AuditInv

(* The inductive invariant of the audit trail holds in every reachable state. *)
THEOREM AuditInvariance == Spec => []AuditInv
<1>1. Init => AuditInv
  BY InitAuditInv
<1>2. AuditInv /\ [Next]_vars => AuditInv'
  BY LogKeepsAuditInv, InsertKeepsAuditInv, ExportKeepsAuditInv, AnswerKeepsAuditInv,
     RestartKeepsAuditInv
  DEF Next
<1>3. QED BY <1>1, <1>2, PTL DEF Spec

(* Every variable keeps its type. *)
THEOREM AuditTypeCorrect == Spec => []TypeOK
BY AuditInvariance, PTL DEF AuditInv

(* However long Splunk is away, memory stays bounded. *)
THEOREM MemoryAlwaysBounded == Spec => []MemoryIsBounded
<1>1. ASSUME AuditInv PROVE MemoryIsBounded
  <2>1. batch \in Seq(Event) /\ inflight \in Seq(Event) /\ BatchSize \in Nat
    BY <1>1, AuditAssumption DEF AuditInv, TypeOK
  <2>2. Len(batch \o inflight) = Len(batch) + Len(inflight)
    BY <2>1
  <2>3. \/ inflight = <<>> /\ Len(batch) < BatchSize
        \/ batch = <<>> /\ Len(inflight) <= BatchSize
    <3>1. exporter \in {"collect", "send", "sleep", "stopped"} /\ ExporterInv
      BY <1>1 DEF AuditInv, TypeOK
    <3>2. CASE exporter \in {"collect", "stopped"} BY <3>1, <3>2 DEF ExporterInv
    <3>3. CASE exporter \in {"send", "sleep"} BY <3>1, <3>3 DEF ExporterInv
    <3>4. QED BY <3>1, <3>2, <3>3
  <2>4. Len(<<>>) = 0 /\ Len(batch) \in Nat /\ Len(inflight) \in Nat
    BY <2>1
  <2>5. Len(batch \o inflight) <= BatchSize
    BY <2>1, <2>2, <2>3, <2>4
  <2>6. QED BY <1>1, <2>5 DEF AuditInv, MemoryIsBounded
<1>2. QED BY <1>1, AuditInvariance, PTL

(* No event the channel accepted vanishes without a trace. *)
THEOREM NothingEverVanishes == Spec => []NothingVanishes
<1>1. AuditInv => NothingVanishes
  BY DEF AuditInv, Kept, NothingVanishes
<1>2. QED BY <1>1, AuditInvariance, PTL
-----------------------------------------------------------------------------
(* The order and the repetitions of what Splunk has indexed.               *)

(* Ascending sequences, for each way the exporter builds one. *)
LEMMA AscendingOf ==
    ASSUME NEW S \in SUBSET Nat, NEW s \in Seq(S), Ascending(s)
    PROVE  /\ \A e \in S : (\A x \in ToSet(s) : x < e) => Ascending(Append(s, e))
           /\ s # <<>> => Ascending(Tail(s)) /\ \A x \in ToSet(Tail(s)) : Head(s) < x
<1>1. \A i \in DOMAIN s : s[i] \in Nat /\ s[i] \in ToSet(s)
  <2>1. \A i \in DOMAIN s : s[i] \in S OBVIOUS
  <2>2. QED BY <2>1 DEF ToSet
<1>2. ASSUME NEW e \in S, \A x \in ToSet(s) : x < e
      PROVE  Ascending(Append(s, e))
  BY <1>1, <1>2 DEF Ascending
<1>3. ASSUME s # <<>> PROVE Ascending(Tail(s)) /\ \A x \in ToSet(Tail(s)) : Head(s) < x
  <2>1. /\ Len(Tail(s)) = Len(s) - 1 /\ Len(s) \in Nat \ {0}
        /\ \A i \in 1..Len(Tail(s)) : Tail(s)[i] = s[i + 1] /\ i + 1 \in DOMAIN s
        /\ DOMAIN Tail(s) = 1..Len(Tail(s)) /\ 1 \in DOMAIN s /\ Head(s) = s[1]
    BY <1>3
  <2>2. Ascending(Tail(s))
    BY <2>1 DEF Ascending
  <2>3. \A i \in DOMAIN Tail(s) : Head(s) < Tail(s)[i]
    BY <2>1 DEF Ascending
  <2>4. QED BY <2>2, <2>3 DEF ToSet
<1>4. QED BY <1>2, <1>3

(* Indexing an ascending flush once more keeps the order, and repeats no   *)
(* event more than once.                                                   *)
LEMMA IndexingKeepsOrder ==
    ASSUME NEW S \in SUBSET Nat, NEW s \in Seq(S), NEW t \in Seq(S), Ascending(t),
           \A e \in ToSet(t), i \in DOMAIN s :
               e <= s[i] => \E k \in 1..i : s[k] = e,
           \A i, j \in DOMAIN s :
               i < j /\ s[j] <= s[i] => \E k \in 1..i : s[k] = s[j]
    PROVE  /\ \A e \in ToSet(t), i \in DOMAIN (s \o t) :
                  e <= (s \o t)[i] => \E k \in 1..i : (s \o t)[k] = e
           /\ \A i, j \in DOMAIN (s \o t) :
                  i < j /\ (s \o t)[j] <= (s \o t)[i]
                  => \E k \in 1..i : (s \o t)[k] = (s \o t)[j]
<1> DEFINE u == s \o t
           L == Len(s)
<1>1. /\ L \in Nat /\ Len(t) \in Nat /\ u \in Seq(S) /\ Len(u) = L + Len(t)
      /\ DOMAIN s = 1..L /\ DOMAIN u = 1..Len(u) /\ DOMAIN t = 1..Len(t)
      /\ \A i \in 1..L : u[i] = s[i]
      /\ \A i \in 1..Len(t) : u[L + i] = t[i] /\ L + i \in DOMAIN u
  OBVIOUS
<1>2. \A i \in DOMAIN u : i > L => i - L \in DOMAIN t /\ u[i] = t[i - L]
  BY <1>1
<1>3. \A i \in DOMAIN u : u[i] \in Nat
  <2>1. \A i \in DOMAIN u : u[i] \in S BY <1>1
  <2>2. QED BY <2>1
<1> HIDE DEF u, L
<1>4. ASSUME NEW e \in ToSet(t), NEW i \in DOMAIN u, e <= u[i]
      PROVE  \E k \in 1..i : u[k] = e
  <2>1. CASE i <= L
    <3>1. i \in DOMAIN s /\ e <= s[i] BY <1>1, <1>4, <2>1
    <3>2. PICK k \in 1..i : s[k] = e BY <3>1
    <3>3. k \in 1..L BY <3>1, <3>2, <1>1
    <3>4. u[k] = e BY <3>2, <3>3, <1>1
    <3>5. QED BY <3>4
  <2>2. CASE i > L
    <3>1. PICK m \in DOMAIN t : t[m] = e BY DEF ToSet
    <3>2. i - L \in DOMAIN t /\ u[i] = t[i - L] BY <2>2, <1>2
    <3>3. ~(i - L < m)
      <4>1. t[i - L] \in Nat /\ t[m] \in Nat /\ t[m] <= t[i - L]
        BY <3>1, <3>2, <1>4, <1>1, <1>3
      <4>2. QED BY <4>1, <3>1, <3>2 DEF Ascending
    <3>4. L + m \in 1..i BY <3>1, <3>2, <3>3, <1>1
    <3>5. u[L + m] = e BY <3>1, <1>1
    <3>6. QED BY <3>4, <3>5
  <2>3. QED BY <2>1, <2>2, <1>1
<1>5. ASSUME NEW i \in DOMAIN u, NEW j \in DOMAIN u, i < j, u[j] <= u[i]
      PROVE  \E k \in 1..i : u[k] = u[j]
  <2>1. CASE j <= L
    <3>1. i \in DOMAIN s /\ j \in DOMAIN s /\ s[j] <= s[i] BY <1>1, <1>5, <2>1
    <3>2. PICK k \in 1..i : s[k] = s[j] BY <3>1, <1>5
    <3>3. k \in 1..L BY <3>1, <3>2, <1>1
    <3>4. u[k] = u[j] BY <3>1, <3>2, <3>3, <1>1
    <3>5. QED BY <3>4
  <2>2. CASE j > L
    <3>1. u[j] \in ToSet(t) BY <2>2, <1>2 DEF ToSet
    <3>2. QED BY <3>1, <1>4, <1>5
  <2>3. QED BY <2>1, <2>2, <1>1
<1>6. QED BY <1>4, <1>5 DEF u

(* An ascending flush has an event once.                                   *)
LEMMA IndexingOnce ==
    ASSUME NEW S \in SUBSET Nat, NEW s \in Seq(S), NEW t \in Seq(S), Ascending(t), NEW e
    PROVE  /\ Times(s, e) \in Nat
           /\ e \notin ToSet(s) => Times(s, e) = 0
           /\ Times(s \o t, e) <= Times(s, e) + 1
           /\ e \notin ToSet(t) => Times(s \o t, e) = Times(s, e)
<1> DEFINE A == Occurrences(s, e)
           B == Occurrences(s \o t, e)
           L == Len(s)
<1>1. /\ L \in Nat /\ Len(t) \in Nat /\ s \o t \in Seq(S) /\ Len(s \o t) = L + Len(t)
      /\ DOMAIN s = 1..L /\ DOMAIN (s \o t) = 1..(L + Len(t)) /\ DOMAIN t = 1..Len(t)
      /\ \A i \in 1..L : (s \o t)[i] = s[i]
      /\ \A i \in 1..Len(t) : (s \o t)[L + i] = t[i]
  OBVIOUS
<1>2. IsFiniteSet(A) /\ Cardinality(A) \in Nat
  <2>1. IsFiniteSet(1..L) BY <1>1, FS_Interval
  <2>2. A \in SUBSET (1..L) BY <1>1 DEF Occurrences
  <2>3. QED BY <2>1, <2>2, FS_Subset, FS_CardinalityType
<1>3. e \notin ToSet(s) => A = {}
  BY DEF Occurrences, ToSet
<1>4. ASSUME NEW i \in 1..(L + Len(t)), i > L
      PROVE  i - L \in 1..Len(t) /\ (s \o t)[i] = t[i - L]
  BY <1>1, <1>4
<1>5. e \notin ToSet(t) => B = A
  <2>1. ASSUME e \notin ToSet(t), NEW i \in B PROVE i \in A
    <3>1. i \in 1..(L + Len(t)) /\ (s \o t)[i] = e BY <1>1, <2>1 DEF Occurrences
    <3>2. ~(i > L) BY <3>1, <1>4, <1>1, <2>1 DEF ToSet
    <3>3. i \in 1..L BY <3>1, <3>2, <1>1
    <3>4. QED BY <3>1, <3>3, <1>1 DEF Occurrences
  <2>2. A \subseteq B BY <1>1 DEF Occurrences
  <2>3. QED BY <2>1, <2>2
<1>6. ASSUME NEW m \in 1..Len(t), t[m] = e PROVE B = A \cup {L + m}
  <2>1. ASSUME NEW i \in B PROVE i \in A \cup {L + m}
    <3>1. i \in 1..(L + Len(t)) /\ (s \o t)[i] = e BY <1>1, <2>1 DEF Occurrences
    <3>2. CASE i > L
      <4>1. i - L \in 1..Len(t) /\ t[i - L] = e BY <3>1, <3>2, <1>4
      <4>2. ~(i - L < m) /\ ~(m < i - L)
        <5>1. e \in S BY <1>6, <1>1
        <5>2. e \in Nat BY <5>1
        <5>3. QED BY <5>2, <4>1, <1>6, <1>1 DEF Ascending
      <4>3. i - L = m
        <5>1. i - L \in Int /\ m \in Int BY <4>1, <1>1
        <5>2. QED BY <5>1, <4>2
      <4>4. i = L + m BY <4>3, <3>1, <1>1
      <4>5. QED BY <4>4
    <3>3. CASE ~(i > L)
      <4>1. i \in 1..L BY <3>1, <3>3, <1>1
      <4>2. QED BY <3>1, <4>1, <1>1 DEF Occurrences
    <3>4. QED BY <3>2, <3>3
  <2>2. A \subseteq B BY <1>1 DEF Occurrences
  <2>3. L + m \in B BY <1>1, <1>6 DEF Occurrences
  <2>4. QED BY <2>1, <2>2, <2>3
<1>7. Cardinality(B) <= Cardinality(A) + 1
  <2>1. CASE e \in ToSet(t)
    <3>1. PICK m \in 1..Len(t) : t[m] = e BY <2>1, <1>1 DEF ToSet
    <3>2. B = A \cup {L + m} BY <3>1, <1>6
    <3>3. Cardinality(A \cup {L + m}) = IF L + m \in A THEN Cardinality(A) ELSE Cardinality(A) + 1
      BY <1>2, FS_AddElement
    <3>4. QED BY <3>2, <3>3, <1>2
  <2>2. CASE e \notin ToSet(t)
    BY <2>2, <1>2, <1>5
  <2>3. QED BY <2>1, <2>2
<1>8. A = {} => Cardinality(A) = 0
  BY FS_EmptySet
<1>9. QED BY <1>2, <1>3, <1>5, <1>7, <1>8 DEF Times

(* The empty trail is in order. *)
LEMMA InitOrderInv == ASSUME Init PROVE OrderInv /\ TimesInv
<1>1. /\ indexed = <<>> /\ inflight = <<>> /\ batch = <<>> /\ channel = <<>>
      /\ exporter = "collect" /\ DOMAIN indexed = {}
  BY DEF Init
<1>2. OrderInv
  BY <1>1 DEF OrderInv, QueueInv, RepeatInv, IndexedInOrder, Ascending, ToSet
<1>3. \A e : Occurrences(indexed, e) = {}
  BY <1>1 DEF Occurrences
<1>4. \A e : Times(indexed, e) = 0
  BY <1>3, FS_EmptySet DEF Times
<1>5. TimesInv
  BY <1>1, <1>4, AuditAssumption DEF TimesInv
<1>6. QED BY <1>2, <1>5

(* What the channel takes was logged after all that went before it.        *)
LEMMA LogKeepsOrder ==
    ASSUME AuditInv, OrderInv, TimesInv, LogAttempt
    PROVE  OrderInv' /\ TimesInv'
<1>1. /\ logged \in Nat /\ logged' = logged + 1 /\ logged' \in Event
      /\ channel \in Seq(Event) /\ Event \in SUBSET Nat
      /\ exporter' = exporter /\ attempt' = attempt /\ indexed' = indexed
      /\ inflight' = inflight /\ batch' = batch
      /\ channel' \in {channel, Append(channel, logged')}
  BY AuditAssumption DEF AuditInv, TypeOK, LogAttempt, Offer, flushVars, Event
<1>2. \A x \in ToSet(indexed) \cup ToSet(inflight) \cup ToSet(batch) \cup ToSet(channel) : x < logged'
  BY <1>1 DEF AuditInv, LoggedInv, InMemory, OrderInv, QueueInv
<1>3. Ascending(channel') /\ ToSet(channel') \subseteq ToSet(channel) \cup {logged'}
  <2>1. Ascending(channel)
    BY DEF OrderInv, QueueInv
  <2>2. Ascending(Append(channel, logged'))
    BY <1>1, <1>2, <2>1, AscendingOf
  <2>3. ToSet(Append(channel, logged')) = ToSet(channel) \cup {logged'}
    BY <1>1, ElementsOf
  <2>4. QED BY <1>1, <2>1, <2>2, <2>3
<1>4. ToSet(indexed') \subseteq 1..logged'
  BY <1>1 DEF OrderInv, QueueInv
<1>5. QueueInv'
  BY <1>1, <1>2, <1>3, <1>4 DEF OrderInv, QueueInv
<1>6. OrderInv'
  BY <1>1, <1>5 DEF OrderInv, RepeatInv, IndexedInOrder
<1>7. TimesInv'
  BY <1>1 DEF TimesInv, Answered
<1>8. QED BY <1>6, <1>7

(* Inserts, signals and restarts send nothing; a restart forgets what      *)
(* waits.                                                                  *)
LEMMA OthersKeepOrder ==
    ASSUME AuditInv, OrderInv, TimesInv,
           \/ ServerStops \/ (\E e \in spawned : InsertRow(e)) \/ UNCHANGED vars
           \/ Restart
    PROVE  OrderInv' /\ TimesInv'
<1>1. CASE ServerStops \/ (\E e \in spawned : InsertRow(e)) \/ UNCHANGED vars
  <2>1. UNCHANGED <<logged, channel, flushVars, indexed>>
    BY <1>1 DEF ServerStops, InsertRow, vars
  <2>2. QED
    BY <2>1
    DEF OrderInv, QueueInv, RepeatInv, IndexedInOrder, TimesInv, Answered, flushVars
<1>2. CASE Restart
  <2>1. /\ UNCHANGED <<logged, indexed>> /\ exporter' = "collect" /\ channel' = <<>>
        /\ inflight' = <<>> /\ batch' = <<>> /\ ToSet(<<>>) = {} /\ Ascending(<<>>)
    BY <1>2 DEF Restart, ToSet, Ascending
  <2>2. OrderInv'
    BY <2>1 DEF OrderInv, QueueInv, RepeatInv, IndexedInOrder
  <2>3. TimesInv'
    BY <2>1 DEF TimesInv
  <2>4. QED BY <2>2, <2>3
<1>3. QED BY <1>1, <1>2

(* A batch that is flushed was logged after all that was sent.             *)
LEMMA FlushKeepsOrder ==
    ASSUME AuditInv, OrderInv, TimesInv, NEW events \in Seq(Event), Flush(events),
           Ascending(events), Ascending(channel'), ToSet(channel') \subseteq ToSet(channel),
           ToSet(events) \subseteq ToSet(batch) \cup ToSet(channel),
           \A x \in ToSet(events), y \in ToSet(channel') : x < y,
           UNCHANGED <<logged, indexed>>
    PROVE  OrderInv' /\ TimesInv'
<1>1. /\ exporter' = "send" /\ inflight' = events /\ batch' = <<>> /\ attempt' = 0
      /\ ToSet(<<>>) = {} /\ Ascending(<<>>)
  BY DEF Flush, ToSet, Ascending
<1>2. /\ indexed \in Seq(Event) /\ Event \in SUBSET Nat /\ MaxRetries \in Nat
  BY AuditAssumption DEF AuditInv, TypeOK, Event
<1>3. \A x \in ToSet(indexed), y \in ToSet(events) \cup ToSet(channel') : x < y
  BY DEF OrderInv, QueueInv
<1>4. QueueInv'
  BY <1>1, <1>3 DEF OrderInv, QueueInv
<1>5. \A i \in DOMAIN indexed : indexed[i] \in ToSet(indexed) /\ indexed[i] \in Nat
  <2>1. \A i \in DOMAIN indexed : indexed[i] \in Event BY <1>2
  <2>2. QED BY <1>2, <2>1 DEF ToSet
<1>6. \A e \in ToSet(events) : e \in Nat /\ e \notin ToSet(indexed)
  <2>1. ToSet(events) \subseteq Event BY DEF ToSet
  <2>2. ASSUME NEW e \in ToSet(events) PROVE e \in Nat /\ e \notin ToSet(indexed)
    <3>1. e \in Nat BY <2>1, <1>2
    <3>2. e \in ToSet(indexed) => e < e BY <1>3
    <3>3. QED BY <3>1, <3>2
  <2>3. QED BY <2>2
<1>7. RepeatInv'
  BY <1>1, <1>3, <1>5, <1>6 DEF RepeatInv
<1>8. OrderInv'
  BY <1>4, <1>7 DEF OrderInv, IndexedInOrder
<1>9. \A e \in ToSet(events) : Times(indexed, e) = 0
  BY <1>2, <1>6, IndexingOnce DEF OrderInv, QueueInv
<1>10. TimesInv'
  BY <1>1, <1>9 DEF TimesInv, Answered
<1>11. QED BY <1>8, <1>10

(* The exporter takes events in the order of the channel.                  *)
LEMMA ExportKeepsOrder ==
    ASSUME AuditInv, OrderInv, TimesInv, Export
    PROVE  OrderInv' /\ TimesInv'
<1>u. /\ UNCHANGED <<logged, indexed>> /\ Event \in SUBSET Nat
      /\ channel \in Seq(Event) /\ batch \in Seq(Event) /\ inflight \in Seq(Event)
      /\ Ascending(channel) /\ Ascending(batch) /\ Ascending(inflight)
      /\ \A x \in ToSet(batch), y \in ToSet(channel) : x < y
      /\ \A x \in ToSet(indexed) \cup ToSet(inflight), y \in ToSet(batch) \cup ToSet(channel) : x < y
  BY AuditAssumption
  DEF Export, Receive, FlushPartial, ExporterStops, RetryDue, AuditInv, TypeOK, Event,
      OrderInv, QueueInv
<1>1. CASE Receive
  <2>1. /\ Head(channel) \in Event /\ Tail(channel) \in Seq(Event) /\ channel' = Tail(channel)
        /\ ToSet(channel) = {Head(channel)} \cup ToSet(Tail(channel))
        /\ Ascending(Tail(channel)) /\ \A x \in ToSet(Tail(channel)) : Head(channel) < x
    BY <1>1, <1>u, ElementsOf, AscendingOf DEF Receive
  <2>2. /\ Collected \in Seq(Event) /\ Ascending(Collected)
        /\ ToSet(Collected) = ToSet(batch) \cup {Head(channel)}
    <3>1. \A x \in ToSet(batch) : x < Head(channel)
      BY <1>u, <2>1
    <3>2. Ascending(Append(batch, Head(channel)))
      BY <1>u, <2>1, <3>1, AscendingOf
    <3>3. QED BY <1>u, <2>1, <3>2, ElementsOf DEF Collected
  <2>3. \A x \in ToSet(Collected), y \in ToSet(channel') : x < y
    BY <1>u, <2>1, <2>2
  <2>4. CASE BatchFull(Collected) /\ Flush(Collected)
    BY <1>u, <2>1, <2>2, <2>3, <2>4, FlushKeepsOrder
  <2>5. CASE ~BatchFull(Collected) /\ batch' = Collected /\ UNCHANGED <<exporter, inflight, attempt>>
    <3>1. QueueInv'
      BY <1>u, <2>1, <2>2, <2>3, <2>5 DEF OrderInv, QueueInv
    <3>2. RepeatInv' /\ IndexedInOrder'
      BY <1>u, <2>5 DEF OrderInv, RepeatInv, IndexedInOrder
    <3>3. TimesInv'
      BY <1>u, <2>5 DEF TimesInv, Answered
    <3>4. QED BY <3>1, <3>2, <3>3 DEF OrderInv
  <2>6. QED BY <1>1, <2>4, <2>5 DEF Receive
<1>2. CASE FlushPartial
  BY <1>2, <1>u, FlushKeepsOrder DEF FlushPartial
<1>3. CASE ExporterStops \/ RetryDue
  <2>1. UNCHANGED <<channel, batch, inflight>>
    BY <1>3 DEF ExporterStops, RetryDue
  <2>2. OrderInv'
    BY <1>u, <2>1 DEF OrderInv, QueueInv, RepeatInv, IndexedInOrder
  <2>e. indexed' = indexed /\ inflight' = inflight
    BY <1>u, <2>1
  <2>3. CASE ExporterStops
    <3>1. exporter' = "stopped" BY <2>3 DEF ExporterStops
    <3>2. QED BY <2>2, <2>e, <3>1 DEF TimesInv
  <2>4. CASE RetryDue
    <3>1. exporter = "sleep" /\ exporter' = "send" /\ attempt' = attempt + 1
      BY <2>4 DEF RetryDue
    <3>2. QED BY <2>2, <2>e, <3>1 DEF TimesInv, Answered
  <2>5. QED BY <1>3, <2>2, <2>3, <2>4
<1>4. QED BY <1>1, <1>2, <1>3 DEF Export

(* A flush that was indexed is indexed in order, and once for an attempt.  *)
LEMMA AnswerKeepsOrder ==
    ASSUME AuditInv, OrderInv, TimesInv, SplunkAnswers
    PROVE  OrderInv' /\ TimesInv'
<1>u. /\ UNCHANGED <<logged, channel, batch, attempt>> /\ exporter = "send" /\ batch = <<>>
      /\ inflight \in Seq(Event) /\ indexed \in Seq(Event) /\ Event \in SUBSET Nat
      /\ attempt \in 0..MaxRetries /\ MaxRetries \in Nat
      /\ indexed' \in {indexed, indexed \o inflight}
      /\ \/ exporter' = "sleep" /\ inflight' = inflight
         \/ exporter' = "collect" /\ inflight' = <<>>
  <2>1. /\ exporter = "send" /\ UNCHANGED <<logged, channel, batch, attempt>>
        /\ indexed' \in {indexed, indexed \o inflight}
        /\ \/ exporter' = "sleep" /\ inflight' = inflight
           \/ exporter' = "collect" /\ inflight' = <<>>
    BY DEF SplunkAnswers, SendSucceeds, SendFails, GiveUp, Collect
  <2>2. /\ inflight \in Seq(Event) /\ indexed \in Seq(Event) /\ attempt \in 0..MaxRetries
        /\ batch = <<>>
    BY <2>1 DEF AuditInv, TypeOK, ExporterInv
  <2>3. Event \in SUBSET Nat /\ MaxRetries \in Nat
    BY AuditAssumption DEF Event
  <2>4. QED BY <2>1, <2>2, <2>3
<1>q. QueueInv /\ RepeatInv /\ IndexedInOrder /\ Ascending(inflight)
  BY DEF OrderInv, QueueInv
<1>1. /\ ToSet(indexed \o inflight) = ToSet(indexed) \cup ToSet(inflight)
      /\ ToSet(<<>>) = {} /\ Ascending(<<>>)
  BY <1>u, ElementsOf DEF Ascending
<1>2. ToSet(inflight) \subseteq 1..logged
  BY DEF AuditInv, LoggedInv, InMemory
<1>3. QueueInv'
  BY <1>u, <1>q, <1>1, <1>2 DEF QueueInv
<1>4. /\ \A e \in ToSet(inflight), i \in DOMAIN indexed' :
             e <= indexed'[i] => \E k \in 1..i : indexed'[k] = e
      /\ IndexedInOrder'
  <2>1. CASE indexed' = indexed
    BY <2>1, <1>q DEF RepeatInv, IndexedInOrder
  <2>2. CASE indexed' = indexed \o inflight
    <3>1. /\ \A e \in ToSet(inflight), i \in DOMAIN indexed :
                 e <= indexed[i] => \E k \in 1..i : indexed[k] = e
          /\ \A i, j \in DOMAIN indexed :
                 i < j /\ indexed[j] <= indexed[i] => \E k \in 1..i : indexed[k] = indexed[j]
      BY <1>q DEF RepeatInv, IndexedInOrder
    <3> DEFINE s == indexed \o inflight
    <3>2. /\ \A e \in ToSet(inflight), i \in DOMAIN s :
                 e <= s[i] => \E k \in 1..i : s[k] = e
          /\ \A i, j \in DOMAIN s :
                 i < j /\ s[j] <= s[i] => \E k \in 1..i : s[k] = s[j]
      <4>1. /\ Event \in SUBSET Nat /\ indexed \in Seq(Event) /\ inflight \in Seq(Event)
            /\ Ascending(inflight)
        BY <1>u, <1>q
      <4>2. QED BY <3>1, <4>1, IndexingKeepsOrder, ZenonT(60)
    <3>3. indexed' = s BY <2>2
    <3> HIDE DEF s
    <3>4. QED BY <3>2, <3>3 DEF IndexedInOrder
  <2>3. QED BY <1>u, <2>1, <2>2
<1>5. OrderInv'
  BY <1>u, <1>1, <1>3, <1>4 DEF OrderInv, RepeatInv
<1>6. /\ \A e \in Event : Times(indexed', e) <= MaxRetries + 1
      /\ \A e \in ToSet(inflight) : Times(indexed', e) <= attempt + 1
  <2>1. /\ \A e \in Event : Times(indexed, e) <= MaxRetries + 1
        /\ \A e \in ToSet(inflight) : Times(indexed, e) <= attempt
    BY <1>u DEF TimesInv, Answered
  <2>2. \A e : /\ Times(indexed, e) \in Nat
               /\ Times(indexed \o inflight, e) <= Times(indexed, e) + 1
               /\ e \notin ToSet(inflight) => Times(indexed \o inflight, e) = Times(indexed, e)
               /\ Times(indexed \o inflight, e) \in Nat
    <3>1. indexed \o inflight \in Seq(Event) BY <1>u
    <3>2. QED BY <1>u, <1>q, <3>1, IndexingOnce
  <2>3. CASE indexed' = indexed
    BY <1>u, <2>1, <2>2, <2>3
  <2>4. CASE indexed' = indexed \o inflight
    <3>1. \A e \in ToSet(inflight) : Times(indexed', e) <= attempt + 1
      BY <1>u, <2>1, <2>2, <2>4
    <3>2. \A e \in Event : Times(indexed', e) <= MaxRetries + 1
      <4>1. ASSUME NEW e \in Event PROVE Times(indexed', e) <= MaxRetries + 1
        <5>1. CASE e \in ToSet(inflight)
          <6>1. Times(indexed', e) <= attempt + 1 /\ Times(indexed', e) \in Nat
            BY <3>1, <5>1, <2>2, <2>4
          <6>2. QED BY <6>1, <1>u
        <5>2. CASE e \notin ToSet(inflight)
          BY <2>1, <2>2, <2>4, <5>2
        <5>3. QED BY <5>1, <5>2
      <4>2. QED BY <4>1
    <3>3. QED BY <3>1, <3>2
  <2>5. QED BY <1>u, <2>3, <2>4
<1>7. TimesInv'
  BY <1>u, <1>6 DEF TimesInv, Answered
<1>8. QED BY <1>5, <1>7

(* Order and number of what is indexed, in every reachable state.          *)
THEOREM OrderInvariance == Spec => [](OrderInv /\ TimesInv)
<1>1. Init => OrderInv /\ TimesInv
  BY InitOrderInv
<1>2. AuditInv /\ OrderInv /\ TimesInv /\ [Next]_vars => OrderInv' /\ TimesInv'
  BY LogKeepsOrder, OthersKeepOrder, ExportKeepsOrder, AnswerKeepsOrder DEF Next
<1>3. QED BY <1>1, <1>2, AuditInvariance, PTL DEF Spec

(* Splunk sees events in the order of the log, but for repetitions.        *)
THEOREM AlwaysIndexedInOrder == Spec => []IndexedInOrder
BY OrderInvariance, PTL DEF OrderInv

(* An event is indexed at most once for each attempt at its flush.         *)
THEOREM DuplicatesAlwaysBounded == Spec => []DuplicatesAreBounded
<1>1. AuditInv /\ TimesInv => DuplicatesAreBounded
  BY DEF AuditInv, TypeOK, TimesInv, Times, Occurrences, DuplicatesAreBounded, ToSet
<1>2. QED BY <1>1, AuditInvariance, OrderInvariance, PTL
=============================================================================
