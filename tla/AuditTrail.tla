---------------------------- MODULE AuditTrail ----------------------------
(***************************************************************************)
(* The audit trail of exchange attempts: each attempt is offered to the    *)
(* Splunk channel and spawns a SQLite insert; one exporter task collects   *)
(* events into batches and posts them, with retries, while the channel     *)
(* fills behind it.  Events are numbered in the order they are logged.     *)
(***************************************************************************)
EXTENDS Naturals, SequencesExt

CONSTANTS Capacity,    \* 1000: bound of the mpsc channel
          BatchSize,   \* 50
          MaxRetries,  \* 3
          MaxEvents,   \* bound on the attempts logged
          MaxCrashes   \* bound on the process deaths

ASSUME AuditAssumption ==
    /\ Capacity \in Nat \ {0}
    /\ BatchSize \in Nat \ {0}
    /\ MaxRetries \in Nat
    /\ MaxEvents \in Nat
    /\ MaxCrashes \in Nat

VARIABLES logged,    \* number of attempts logged
          open,      \* senders of the channel are alive
          channel,   \* mpsc channel
          spawned,   \* SQLite inserts spawned and not run yet
          rows,      \* events with a request_log row
          unwritten, \* events whose insert failed or died with the process
          exporter,  \* what the exporter task does
          batch,     \* events collected
          inflight,  \* events taken for the flush that runs
          attempt,   \* of that flush
          indexed,   \* what Splunk has indexed, in order
          dropped,   \* events the full channel refused, which nothing reports
          lost,      \* events given up and logged as an audit data gap
          died,      \* events in memory when the process died
          crashes

flushVars == <<exporter, batch, inflight, attempt>>
rowVars == <<spawned, rows, unwritten>>
vars == <<logged, open, channel, rowVars, flushVars, indexed, dropped, lost,
          died, crashes>>

Init ==
    /\ logged = 0
    /\ open = TRUE
    /\ channel = <<>>
    /\ spawned = {}
    /\ rows = {}
    /\ unwritten = {}
    /\ exporter = "collect"
    /\ batch = <<>>
    /\ inflight = <<>>
    /\ attempt = 0
    /\ indexed = <<>>
    /\ dropped = {}
    /\ lost = {}
    /\ died = {}
    /\ crashes = 0
-----------------------------------------------------------------------------
(* log_exchange_attempt: try_send first, then the insert is spawned. *)

Room == Len(channel) < Capacity

Offer(e) ==
    \/ Room /\ channel' = Append(channel, e) /\ UNCHANGED dropped
    \/ ~Room /\ dropped' = dropped \cup {e} /\ UNCHANGED channel

LogAttempt ==
    /\ open
    /\ logged < MaxEvents
    /\ logged' = logged + 1
    /\ Offer(logged')
    /\ spawned' = spawned \cup {logged'}
    /\ UNCHANGED <<open, rows, unwritten, flushVars, indexed, lost, died, crashes>>

(* A failed insert is only reported in the process log. *)
InsertRow(e) ==
    /\ e \in spawned
    /\ spawned' = spawned \ {e}
    /\ \/ rows' = rows \cup {e} /\ UNCHANGED unwritten
       \/ unwritten' = unwritten \cup {e} /\ UNCHANGED rows
    /\ UNCHANGED <<logged, open, channel, flushVars, indexed, dropped, lost,
                   died, crashes>>
-----------------------------------------------------------------------------
(* run_exporter and flush_batch. *)

FlushLeavingBatch(events) ==
    /\ exporter' = "send"
    /\ inflight' = events
    /\ batch' = events
    /\ attempt' = 0

(* mem::take moves the batch into the flush. *)
Flush(events) ==
    /\ exporter' = "send"
    /\ inflight' = events
    /\ batch' = <<>>
    /\ attempt' = 0

BatchFull(events) == Len(events) >= BatchSize

CollectedNewestFirst == <<Head(channel)>> \o batch
Collected == Append(batch, Head(channel))

Receive ==
    /\ exporter = "collect"
    /\ channel # <<>>
    /\ channel' = Tail(channel)
    /\ \/ BatchFull(Collected) /\ Flush(Collected)
       \/ /\ ~BatchFull(Collected)
          /\ batch' = Collected
          /\ UNCHANGED <<exporter, inflight, attempt>>
    /\ UNCHANGED <<logged, open, rowVars, indexed, dropped, lost, died, crashes>>

(* The ten-second tick, or the channel closed and drained. *)
FlushPartial ==
    /\ exporter = "collect"
    /\ batch # <<>>
    /\ Flush(batch)
    /\ UNCHANGED <<logged, open, channel, rowVars, indexed, dropped, lost,
                   died, crashes>>

ExporterStops ==
    /\ exporter = "collect"
    /\ ~open
    /\ channel = <<>>
    /\ batch = <<>>
    /\ exporter' = "stopped"
    /\ UNCHANGED <<logged, open, channel, rowVars, batch, inflight, attempt,
                   indexed, dropped, lost, died, crashes>>

Collect == exporter' = "collect" /\ inflight' = <<>> /\ UNCHANGED <<batch, attempt>>

SendSucceeds ==
    /\ exporter = "send"
    /\ indexed' = indexed \o inflight
    /\ Collect
    /\ UNCHANGED <<logged, open, channel, rowVars, dropped, lost, died, crashes>>

RetriesLeftOneMore == attempt <= MaxRetries
RetriesLeft == attempt < MaxRetries

GiveUpSilently == Collect /\ UNCHANGED lost
GiveUp == Collect /\ lost' = lost \cup ToSet(inflight)

(* An error, although Splunk may have indexed what it was sent. *)
SendFails ==
    /\ exporter = "send"
    /\ indexed' \in {indexed, indexed \o inflight}
    /\ \/ /\ RetriesLeft
          /\ exporter' = "sleep"
          /\ UNCHANGED <<batch, inflight, attempt, lost>>
       \/ ~RetriesLeft /\ GiveUp
    /\ UNCHANGED <<logged, open, channel, rowVars, dropped, died, crashes>>

RetryDue ==
    /\ exporter = "sleep"
    /\ exporter' = "send"
    /\ attempt' = attempt + 1
    /\ UNCHANGED <<logged, open, channel, rowVars, batch, inflight, indexed,
                   dropped, lost, died, crashes>>
-----------------------------------------------------------------------------
(* The process. *)

ServerStops ==
    /\ open
    /\ open' = FALSE
    /\ UNCHANGED <<logged, channel, rowVars, flushVars, indexed, dropped,
                   lost, died, crashes>>

InMemory == ToSet(channel) \cup ToSet(batch) \cup ToSet(inflight)

(* main returns or the process is killed, and a new one starts. *)
Restart ==
    /\ crashes < MaxCrashes
    /\ crashes' = crashes + 1
    /\ died' = died \cup InMemory
    /\ open' = TRUE
    /\ channel' = <<>>
    /\ spawned' = {}
    /\ unwritten' = unwritten \cup spawned
    /\ exporter' = "collect"
    /\ batch' = <<>>
    /\ inflight' = <<>>
    /\ attempt' = 0
    /\ UNCHANGED <<logged, rows, indexed, dropped, lost>>

Export == Receive \/ FlushPartial \/ ExporterStops \/ RetryDue
SplunkAnswers == SendSucceeds \/ SendFails

Next ==
    \/ LogAttempt
    \/ \E e \in spawned : InsertRow(e)
    \/ Export
    \/ SplunkAnswers
    \/ ServerStops
    \/ Restart

Spec == Init /\ [][Next]_vars

(* The exporter is polled; its client has no timeout, so that an answer to *)
(* the POST, or an error of the connection, is an assumption on Splunk.    *)
FairSpec == Spec /\ WF_vars(Export) /\ WF_vars(SplunkAnswers)
-----------------------------------------------------------------------------
Event == 1..MaxEvents

(* Every variable has its type. *)
TypeOK ==
    /\ logged \in 0..MaxEvents
    /\ open \in BOOLEAN
    /\ channel \in Seq(Event)
    /\ spawned \subseteq Event
    /\ rows \subseteq Event
    /\ unwritten \subseteq Event
    /\ exporter \in {"collect", "send", "sleep", "stopped"}
    /\ batch \in Seq(Event)
    /\ inflight \in Seq(Event)
    /\ attempt \in 0..MaxRetries
    /\ indexed \in Seq(Event)
    /\ dropped \subseteq Event
    /\ lost \subseteq Event
    /\ died \subseteq Event
    /\ crashes \in 0..MaxCrashes

(* However long Splunk is away, memory holds at most a channel and a batch *)
(* of events: what was taken for a flush makes no room in the batch.       *)
MemoryIsBounded ==
    /\ Len(channel) <= Capacity
    /\ Len(batch \o inflight) <= BatchSize

(* No event the channel accepted vanishes, whatever becomes of the posts:  *)
(* it is on its way, indexed, reported lost, or dead with the process.     *)
(* Nothing of the kind holds of those the full channel refused.            *)
NothingVanishes ==
    \A e \in (1..logged) \ dropped :
        e \in InMemory \cup ToSet(indexed) \cup lost \cup died

(* Splunk sees events in the order they were logged, but for repetitions   *)
(* of a batch whose first answer was lost.                                 *)
IndexedInOrder ==
    \A i, j \in DOMAIN indexed :
        i < j /\ indexed[j] <= indexed[i]
        => \E k \in 1..i : indexed[k] = indexed[j]

(* An event is indexed at most once for each attempt. *)
DuplicatesAreBounded ==
    \A e \in ToSet(indexed) :
        Cardinality({i \in DOMAIN indexed : indexed[i] = e}) <= MaxRetries + 1

(* Whatever entered the channel leaves the process one way or another, and *)
(* the exporter never stops with events behind it.                         *)
EventuallySettled ==
    \A e \in Event :
        e \in ToSet(channel) ~> e \in ToSet(indexed) \cup lost \cup died
=============================================================================
