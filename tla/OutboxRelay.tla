---------------------------- MODULE OutboxRelay ----------------------------
(***************************************************************************)
(* The transactional outbox of packages/pycore and its relay processes.    *)
(*                                                                         *)
(* A business transaction inserts its event into the outbox table with the *)
(* change that caused it (outbox.enqueue).  Relay processes (relay.main)   *)
(* repeat relay_once: lock the unpublished rows with the lowest ids that   *)
(* no other relay has locked, hand them to the Kafka producer, flush it,   *)
(* stamp published_at and commit.  The producer buffers: a message reaches *)
(* the topic some time after publish, and a flush that times out raises,   *)
(* which rolls the relay's transaction back while the messages stay in the *)
(* producer's buffer.                                                      *)
(*                                                                         *)
(* One topic partition is modelled: every event here has the same key.     *)
(***************************************************************************)
EXTENDS Integers, Sequences, FiniteSets

CONSTANTS
  Events,      \* events the business transactions may enqueue
  Relays,      \* relay processes
  Batch,       \* LIMIT of one relay_once
  Refused,     \* events whose message Kafka rejects for good
  MaxFaults    \* bound on rollbacks, failed produces, flush timeouts and relay crashes

ASSUME BatchAssumption   == Batch \in Nat \ {0}
ASSUME RefusedAssumption == Refused \subseteq Events
ASSUME FaultsAssumption  == MaxFaults \in Nat

VARIABLES
  row,      \* row[e]: "none", "open" (uncommitted), "ready", "published"
  rid,      \* rid[e]: outbox.id of e's row, 0 without a row
  lastId,   \* last value the outbox id sequence gave out
  seen,     \* seen[e]: events already committed when e was enqueued (history)
  relay,    \* relay[r]: "idle", "publishing", "flushed"
  locked,   \* locked[r]: rows r's transaction holds FOR UPDATE
  unsent,   \* unsent[r]: locked rows not yet handed to the producer
  buffer,   \* buffer[r]: messages in r's producer, oldest first
  log,      \* the topic partition
  faults    \* faults so far

rowVars   == <<row, rid, lastId, seen>>
relayVars == <<relay, locked, unsent, buffer>>
vars      == <<row, rid, lastId, seen, relay, locked, unsent, buffer, log, faults>>

Committed == {e \in Events : row[e] \in {"ready", "published"}}
Entries(s) == {s[i] : i \in DOMAIN s}

Init ==
  /\ row    = [e \in Events |-> "none"]
  /\ rid    = [e \in Events |-> 0]
  /\ lastId = 0
  /\ seen   = [e \in Events |-> {}]
  /\ relay  = [r \in Relays |-> "idle"]
  /\ locked = [r \in Relays |-> {}]
  /\ unsent = [r \in Relays |-> {}]
  /\ buffer = [r \in Relays |-> <<>>]
  /\ log    = <<>>
  /\ faults = 0

-----------------------------------------------------------------------------
(* Business transactions. *)

\* outbox.enqueue inside a business transaction: the row exists but no other
\* session sees it; its id comes from the sequence at insert time.
Enqueue(e) ==
  /\ row[e] = "none"
  /\ row'    = [row EXCEPT ![e] = "open"]
  /\ lastId' = lastId + 1
  /\ rid'    = [rid EXCEPT ![e] = lastId + 1]
  /\ seen'   = [seen EXCEPT ![e] = Committed]
  /\ UNCHANGED <<relayVars, log, faults>>

\* The business transaction commits: change and event become visible together.
CommitTx(e) ==
  /\ row[e] = "open"
  /\ row' = [row EXCEPT ![e] = "ready"]
  /\ UNCHANGED <<rid, lastId, seen, relayVars, log, faults>>

\* The business transaction fails: its row disappears, the id stays used.
RollbackTx(e) ==
  /\ row[e] = "open"
  /\ faults < MaxFaults
  /\ faults' = faults + 1
  /\ row'    = [row EXCEPT ![e] = "none"]
  /\ rid'    = [rid EXCEPT ![e] = 0]
  /\ seen'   = [seen EXCEPT ![e] = {}]
  /\ UNCHANGED <<lastId, relayVars, log>>

-----------------------------------------------------------------------------
(* relay_once. *)

\* Variant of Free: a relay that ignores locks.
Free_IgnoresLocks == {e \in Events : row[e] = "ready"}

\* Unpublished rows that no relay has locked.
Free == {e \in Events : row[e] = "ready" /\ \A r \in Relays : e \notin locked[r]}

\* Variant of LowestIds: no ORDER BY.
LowestIds_Unordered(S, free) ==
  S \subseteq free /\ (S = free \/ Cardinality(S) = Batch) /\ Cardinality(S) <= Batch

\* What ORDER BY id LIMIT Batch FOR UPDATE SKIP LOCKED returns.
LowestIds(S, free) ==
  /\ S \subseteq free
  /\ \A e \in S, d \in free \ S : rid[e] < rid[d]
  /\ S = free \/ Cardinality(S) = Batch
  /\ Cardinality(S) <= Batch

Select(r) ==
  /\ relay[r] = "idle"
  /\ \E S \in SUBSET Free :
       /\ S # {}
       /\ LowestIds(S, Free)
       /\ locked' = [locked EXCEPT ![r] = S]
       /\ unsent' = [unsent EXCEPT ![r] = S]
  /\ relay' = [relay EXCEPT ![r] = "publishing"]
  /\ UNCHANGED <<rowVars, buffer, log, faults>>

\* Variant of Publish: an error of produce() is swallowed.
Publish_Swallowed(r) ==
  /\ relay[r] = "publishing"
  /\ \E e \in unsent[r] : unsent' = [unsent EXCEPT ![r] = @ \ {e}]
  /\ UNCHANGED <<rowVars, relay, locked, buffer, log, faults>>

\* bus.publish of the next row, in id order: the message enters the buffer.
Publish(r) ==
  /\ relay[r] = "publishing"
  /\ \E e \in unsent[r] :
       /\ \A d \in unsent[r] : rid[e] <= rid[d]
       /\ unsent' = [unsent EXCEPT ![r] = @ \ {e}]
       /\ buffer' = [buffer EXCEPT ![r] = Append(@, e)]
  /\ UNCHANGED <<rowVars, relay, locked, log, faults>>

\* Variant of Flush: the rows are stamped without waiting for the producer.
Flush_NoWait(r) ==
  /\ relay[r] = "publishing"
  /\ unsent[r] = {}
  /\ relay' = [relay EXCEPT ![r] = "flushed"]
  /\ UNCHANGED <<rowVars, locked, unsent, buffer, log, faults>>

\* bus.flush returns: no message is left in the producer.
Flush(r) ==
  /\ relay[r] = "publishing"
  /\ unsent[r] = {}
  /\ buffer[r] = <<>>
  /\ relay' = [relay EXCEPT ![r] = "flushed"]
  /\ UNCHANGED <<rowVars, locked, unsent, buffer, log, faults>>

\* produce() of the next row raises (a full queue, a message it will not take):
\* the transaction rolls back with the messages before it in the producer.
PublishRaises(r) ==
  /\ relay[r] = "publishing"
  /\ unsent[r] # {}
  /\ faults < MaxFaults
  /\ faults' = faults + 1
  /\ relay'  = [relay EXCEPT ![r] = "idle"]
  /\ locked' = [locked EXCEPT ![r] = {}]
  /\ unsent' = [unsent EXCEPT ![r] = {}]
  /\ UNCHANGED <<rowVars, buffer, log>>

\* Variant of FlushTimeout: the failed transaction is not rolled back.
FlushTimeout_KeepsLocks(r) ==
  /\ relay[r] = "publishing" /\ unsent[r] = {} /\ buffer[r] # <<>>
  /\ faults < MaxFaults
  /\ faults' = faults + 1
  /\ relay'  = [relay EXCEPT ![r] = "idle"]
  /\ UNCHANGED <<rowVars, locked, unsent, buffer, log>>

\* bus.flush raises after its 30 seconds: the transaction rolls back, the rows
\* are free again and the buffered messages may still arrive.
FlushTimeout(r) ==
  /\ relay[r] = "publishing"
  /\ unsent[r] = {}
  /\ buffer[r] # <<>>
  /\ faults < MaxFaults
  /\ faults' = faults + 1
  /\ relay'  = [relay EXCEPT ![r] = "idle"]
  /\ locked' = [locked EXCEPT ![r] = {}]
  /\ UNCHANGED <<rowVars, unsent, buffer, log>>

\* UPDATE outbox SET published_at, and the commit that releases the locks.
MarkPublished(r) ==
  /\ relay[r] = "flushed"
  /\ row'    = [e \in Events |-> IF e \in locked[r] THEN "published" ELSE row[e]]
  /\ relay'  = [relay EXCEPT ![r] = "idle"]
  /\ locked' = [locked EXCEPT ![r] = {}]
  /\ UNCHANGED <<rid, lastId, seen, unsent, buffer, log, faults>>

\* The relay process or its database connection dies: the transaction is
\* rolled back and whatever the producer still held is lost.
CrashRelay(r) ==
  /\ relay[r] # "idle" \/ buffer[r] # <<>>
  /\ faults < MaxFaults
  /\ faults' = faults + 1
  /\ relay'  = [relay EXCEPT ![r] = "idle"]
  /\ locked' = [locked EXCEPT ![r] = {}]
  /\ unsent' = [unsent EXCEPT ![r] = {}]
  /\ buffer' = [buffer EXCEPT ![r] = <<>>]
  /\ UNCHANGED <<rowVars, log>>

\* The producer's oldest message leaves its buffer: the broker stores it, or
\* refuses it for good and nobody hears of it, since produce() is given no
\* delivery callback and flush only counts what is still queued.
Deliver(r) ==
  /\ buffer[r] # <<>>
  /\ log' = IF Head(buffer[r]) \in Refused THEN log ELSE Append(log, Head(buffer[r]))
  /\ buffer' = [buffer EXCEPT ![r] = Tail(@)]
  /\ UNCHANGED <<rowVars, relay, locked, unsent, faults>>

-----------------------------------------------------------------------------
TxNext(e) == Enqueue(e) \/ CommitTx(e) \/ RollbackTx(e)

RelayNext(r) ==
  \/ Select(r) \/ Publish(r) \/ Flush(r) \/ MarkPublished(r)
  \/ Deliver(r) \/ PublishRaises(r) \/ FlushTimeout(r) \/ CrashRelay(r)

Next == (\E e \in Events : TxNext(e)) \/ (\E r \in Relays : RelayNext(r))

Spec == Init /\ [][Next]_vars

\* relay.main is a loop without exit, and Kafka takes what it is sent as long
\* as it runs; business transactions end, but need not start.
Fairness ==
  /\ \A e \in Events : WF_vars(CommitTx(e))
  /\ \A r \in Relays :
       /\ WF_vars(Select(r))
       /\ WF_vars(Publish(r))
       /\ WF_vars(Flush(r))
       /\ WF_vars(MarkPublished(r))
       /\ WF_vars(Deliver(r))

FairSpec == Spec /\ Fairness

-----------------------------------------------------------------------------
(* Properties. *)

TypeOK ==
  /\ row    \in [Events -> {"none", "open", "ready", "published"}]
  /\ rid    \in [Events -> Nat]
  /\ lastId \in Nat
  /\ seen   \in [Events -> SUBSET Events]
  /\ relay  \in [Relays -> {"idle", "publishing", "flushed"}]
  /\ locked \in [Relays -> SUBSET Events]
  /\ unsent \in [Relays -> SUBSET Events]
  /\ buffer \in [Relays -> Seq(Events)]
  /\ log    \in Seq(Events)
  /\ faults \in 0 .. MaxFaults

\* No event is lost between the table and the topic: a row stamped
\* published_at is on the topic, unless Kafka refused the message for good.
PublishedIsOnLog ==
  \A e \in Events \ Refused : row[e] = "published" => e \in Entries(log)

\* No event on the topic comes from a transaction that did not commit.
OnlyCommittedOnLog == Entries(log) \subseteq Committed

\* "SKIP LOCKED lets several relays run without double-publishing": a copy of
\* an event beyond the first is paid for by a fault, however many relays run.
CopiesOf(e) == Cardinality({i \in DOMAIN log : log[i] = e})
CopiesNeedFaults == \A e \in Events : CopiesOf(e) <= 1 + faults

\* With a single relay the topic keeps causal order: an event enqueued after
\* another had committed does not appear before the other's first copy.
CausalOrder ==
  \A i \in DOMAIN log : \A d \in seen[log[i]] \ Refused :
    \E j \in 1 .. i : log[j] = d

\* What flush's error "events not delivered to Kafka" and the relay's "rows
\* stay unpublished and are retried" promise: published means delivered.
PublishedMeansDelivered ==
  \A e \in Events : row[e] = "published" => e \in Entries(log)

\* Every committed event is eventually published.
CommittedGetsPublished ==
  \A e \in Events : (row[e] = "ready") ~> (row[e] = "published")

-----------------------------------------------------------------------------
(* The strengthening that makes the two safety invariants inductive. *)

\* A relay only holds rows that are committed and unpublished, never two
\* relays the same one, and an idle relay holds none.
LocksSound ==
  \A r \in Relays :
    /\ \A e \in locked[r] : row[e] = "ready"
    /\ unsent[r] \subseteq locked[r]
    /\ relay[r] = "idle" => locked[r] = {}
    /\ relay[r] = "flushed" => unsent[r] = {}
    /\ \A q \in Relays \ {r} : locked[r] \cap locked[q] = {}

\* Only committed events are ever in a producer.
OnlyCommittedBuffered ==
  \A r \in Relays : Entries(buffer[r]) \subseteq Committed

\* What a relay has handed over is in its producer or on the topic, and on the
\* topic once the flush returned.
HandedOverIsKept ==
  \A r \in Relays : \A e \in (locked[r] \ unsent[r]) \ Refused :
    \/ e \in Entries(log)
    \/ relay[r] = "publishing" /\ e \in Entries(buffer[r])

IInv ==
  /\ TypeOK
  /\ LocksSound
  /\ OnlyCommittedBuffered
  /\ OnlyCommittedOnLog
  /\ HandedOverIsKept
  /\ PublishedIsOnLog

\* What was committed when an event was enqueued has a lower id.
CausesHaveLowerIds ==
  \A e \in Events :
    /\ rid[e] <= lastId
    /\ \A d \in seen[e] : d \in Committed /\ rid[d] < rid[e]

\* With a single relay: what the rows of its batch depend on is published or in the
\* batch, and what a message in the producer depends on is before it.
CausesGoFirst ==
  \A r \in Relays :
    /\ \A e \in locked[r] : \A d \in seen[e] : row[d] = "published" \/ d \in locked[r]
    /\ \A i \in DOMAIN buffer[r] : \A d \in seen[buffer[r][i]] \ Refused :
         d \in Entries(log) \/ \E j \in 1 .. i - 1 : buffer[r][j] = d
=============================================================================
