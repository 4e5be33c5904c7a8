-------------------------- MODULE OutboxRelayProofs --------------------------
(***************************************************************************)
(* Proofs about OutboxRelay, for any number of events, relays and faults.  *)
(*                                                                         *)
(* PublishedIsOnLog is not inductive: MarkPublished stamps whatever rows   *)
(* its transaction holds.  IInv adds what the relay knows about them at    *)
(* each stage: they are committed and locked by it alone (LocksSound), and *)
(* those handed to the producer are still in its buffer or on the topic,   *)
(* only on the topic once the flush returned (HandedOverIsKept).           *)
(*                                                                         *)
(* Two more properties of the topic follow: the causal order a single      *)
(* relay keeps, and the bound on the copies of an event with any number of *)
(* relays, by a counting argument over stamps.                             *)
(***************************************************************************)
EXTENDS OutboxRelay, FiniteSetTheorems, TLAPS

USE DEF Committed

\* What Append, Head and Tail do to the set of entries of a sequence.
LEMMA AppendEntries ==
  ASSUME NEW s \in Seq(Events), NEW e \in Events
  PROVE  /\ Append(s, e) \in Seq(Events)
         /\ Entries(Append(s, e)) = Entries(s) \cup {e}
<1>1. Append(s, e) \in Seq(Events) /\ Len(Append(s, e)) = Len(s) + 1
  OBVIOUS
<1>2. \A i \in 1 .. Len(s) + 1 :
        Append(s, e)[i] = IF i = Len(s) + 1 THEN e ELSE s[i]
  OBVIOUS
<1>3. Entries(s) \cup {e} \subseteq Entries(Append(s, e))
  BY <1>1, <1>2 DEF Entries
<1>4. Entries(Append(s, e)) \subseteq Entries(s) \cup {e}
  BY <1>1, <1>2 DEF Entries
<1> QED
  BY <1>1, <1>3, <1>4

LEMMA HeadTail ==
  ASSUME NEW s \in Seq(Events), s # <<>>
  PROVE  /\ Len(s) \in Nat \ {0} /\ Head(s) = s[1] /\ Head(s) \in Events
         /\ Tail(s) \in Seq(Events) /\ Len(Tail(s)) = Len(s) - 1
         /\ \A i \in 1 .. Len(s) - 1 : Tail(s)[i] = s[i + 1]
<1>1. /\ Len(s) \in Nat \ {0} /\ Head(s) = s[1] /\ Head(s) \in Events
      /\ Tail(s) \in Seq(Events) /\ Len(Tail(s)) = Len(s) - 1
  OBVIOUS
<1>2. \A i \in 1 .. Len(s) - 1 : Tail(s)[i] = s[i + 1]
  OBVIOUS
<1> QED BY <1>1, <1>2

LEMMA HeadTailEntries ==
  ASSUME NEW s \in Seq(Events), s # <<>>
  PROVE  /\ Head(s) \in Events
         /\ Tail(s) \in Seq(Events)
         /\ Entries(s) = Entries(Tail(s)) \cup {Head(s)}
<1>1. /\ Len(s) \in Nat \ {0}
      /\ Head(s) = s[1] /\ Head(s) \in Events
      /\ Tail(s) \in Seq(Events) /\ Len(Tail(s)) = Len(s) - 1
  BY HeadTail
<1>2. \A i \in 1 .. Len(s) - 1 : Tail(s)[i] = s[i + 1]
  BY HeadTail
<1>3. \A i \in 1 .. Len(s) : i = 1 \/ (i - 1 \in 1 .. Len(s) - 1 /\ s[i] = Tail(s)[i - 1])
  BY <1>1, <1>2
<1>4. Entries(s) \subseteq Entries(Tail(s)) \cup {Head(s)}
  <2> SUFFICES ASSUME NEW i \in 1 .. Len(s)
               PROVE  s[i] \in Entries(Tail(s)) \cup {Head(s)}
    BY DEF Entries
  <2>1. CASE i = 1
    BY <2>1, <1>1
  <2>2. CASE i # 1
    <3>1. i - 1 \in DOMAIN Tail(s) /\ s[i] = Tail(s)[i - 1]
      BY <2>2, <1>1, <1>3
    <3> QED
      BY <3>1 DEF Entries
  <2> QED
    BY <2>1, <2>2
<1>5. Entries(Tail(s)) \cup {Head(s)} \subseteq Entries(s)
  BY <1>1, <1>2 DEF Entries
<1> QED
  BY <1>1, <1>4, <1>5

\* The initial state satisfies the inductive invariant: nothing is committed,
\* locked, buffered or on the topic.
LEMMA InitIInv == Init => IInv
<1> SUFFICES ASSUME Init PROVE IInv
  OBVIOUS
<1>1. TypeOK
  BY FaultsAssumption DEF Init, TypeOK
<1>2. LocksSound
  BY DEF Init, LocksSound
<1>3. OnlyCommittedBuffered /\ OnlyCommittedOnLog
  BY DEF Entries, Init, OnlyCommittedBuffered, OnlyCommittedOnLog
<1>4. HandedOverIsKept /\ PublishedIsOnLog
  BY DEF Init, HandedOverIsKept, PublishedIsOnLog
<1> QED
  BY <1>1, <1>2, <1>3, <1>4 DEF IInv

\* A business transaction only moves its own row, which no relay holds before
\* it is committed.
LEMMA TxStepIInv ==
  ASSUME IInv, NEW e \in Events, TxNext(e)
  PROVE  IInv'
<1> USE DEF IInv
<1>1. row[e] \in {"none", "open"} /\ \A r \in Relays : e \notin locked[r]
  BY DEF TxNext, Enqueue, CommitTx, RollbackTx, LocksSound, TypeOK
<1>2. UNCHANGED <<relay, locked, unsent, buffer, log>>
  BY DEF TxNext, Enqueue, CommitTx, RollbackTx, relayVars
<1>3. /\ row'[e] \in {"none", "open", "ready"}
      /\ \A d \in Events \ {e} : row'[d] = row[d]
  BY DEF TxNext, Enqueue, CommitTx, RollbackTx, TypeOK
<1>4. TypeOK'
  <2>1. CASE Enqueue(e)
    BY <2>1 DEF Enqueue, TypeOK, relayVars
  <2>2. CASE CommitTx(e)
    BY <2>2 DEF CommitTx, TypeOK, relayVars
  <2>3. CASE RollbackTx(e)
    BY <2>3, FaultsAssumption DEF RollbackTx, TypeOK, relayVars
  <2> QED
    BY <2>1, <2>2, <2>3 DEF TxNext
<1>5. LocksSound'
  BY <1>1, <1>2, <1>3 DEF LocksSound, TypeOK
<1>6. Committed \subseteq Committed'
  BY <1>1, <1>3
<1>7. OnlyCommittedBuffered' /\ OnlyCommittedOnLog'
  BY <1>2, <1>6 DEF OnlyCommittedBuffered, OnlyCommittedOnLog
<1>8. HandedOverIsKept'
  BY <1>2 DEF HandedOverIsKept
<1>9. PublishedIsOnLog'
  BY <1>2, <1>3 DEF PublishedIsOnLog
<1> QED
  BY <1>4, <1>5, <1>7, <1>8, <1>9

\* Locking a batch: only free rows, so no other relay's.
LEMMA SelectIInv ==
  ASSUME IInv, NEW r \in Relays, Select(r)
  PROVE  IInv'
<1> USE DEF IInv
<1> PICK S \in SUBSET Free :
      /\ locked' = [locked EXCEPT ![r] = S]
      /\ unsent' = [unsent EXCEPT ![r] = S]
  BY DEF Select
<1>1. /\ relay' = [relay EXCEPT ![r] = "publishing"]
      /\ UNCHANGED <<row, rid, lastId, seen, buffer, log, faults>>
  BY DEF Select, rowVars
<1>2. S \subseteq Events /\ \A e \in S : row[e] = "ready" /\ \A q \in Relays : e \notin locked[q]
  BY DEF Free
<1>3. TypeOK'
  BY <1>1, <1>2 DEF TypeOK
<1>4. LocksSound'
  BY <1>1, <1>2 DEF LocksSound, TypeOK
<1>5. OnlyCommittedBuffered' /\ OnlyCommittedOnLog' /\ PublishedIsOnLog'
  BY <1>1 DEF OnlyCommittedBuffered, OnlyCommittedOnLog, PublishedIsOnLog
<1>6. HandedOverIsKept'
  BY <1>1 DEF HandedOverIsKept, TypeOK
<1> QED
  BY <1>3, <1>4, <1>5, <1>6

\* Handing one row to the producer: it moves from unsent to the buffer.
LEMMA PublishIInv ==
  ASSUME IInv, NEW r \in Relays, Publish(r)
  PROVE  IInv'
<1> USE DEF IInv
<1> PICK e \in unsent[r] :
      /\ unsent' = [unsent EXCEPT ![r] = @ \ {e}]
      /\ buffer' = [buffer EXCEPT ![r] = Append(@, e)]
  BY DEF Publish
<1>1. relay[r] = "publishing" /\ UNCHANGED <<row, rid, lastId, seen, relay, locked, log, faults>>
  BY DEF Publish, rowVars
<1>2. e \in Events /\ e \in locked[r] /\ row[e] = "ready"
  BY DEF TypeOK, LocksSound
<1>3. /\ buffer'[r] \in Seq(Events)
      /\ Entries(buffer'[r]) = Entries(buffer[r]) \cup {e}
      /\ \A q \in Relays \ {r} : buffer'[q] = buffer[q]
  BY <1>2, AppendEntries DEF TypeOK
<1>4. TypeOK'
  BY <1>1, <1>2, AppendEntries DEF TypeOK
<1>5. LocksSound'
  BY <1>1 DEF LocksSound, TypeOK
<1>6. OnlyCommittedOnLog' /\ PublishedIsOnLog'
  BY <1>1 DEF OnlyCommittedOnLog, PublishedIsOnLog
<1>7. OnlyCommittedBuffered'
  BY <1>1, <1>2, <1>3 DEF OnlyCommittedBuffered
<1>8. HandedOverIsKept'
  <2> SUFFICES ASSUME NEW q \in Relays, NEW d \in (locked[q] \ unsent'[q]) \ Refused
               PROVE  \/ d \in Entries(log)
                      \/ relay[q] = "publishing" /\ d \in Entries(buffer'[q])
    BY <1>1 DEF HandedOverIsKept
  <2>1. CASE q # r
    BY <2>1, <1>3 DEF HandedOverIsKept, TypeOK
  <2>2. CASE q = r
    BY <2>2, <1>1, <1>3 DEF HandedOverIsKept, TypeOK
  <2> QED
    BY <2>1, <2>2
<1> QED
  BY <1>4, <1>5, <1>6, <1>7, <1>8

\* The flush returns on an empty buffer: what was handed over is on the topic.
LEMMA FlushIInv ==
  ASSUME IInv, NEW r \in Relays, Flush(r)
  PROVE  IInv'
<1> USE DEF IInv
<1>1. /\ relay' = [relay EXCEPT ![r] = "flushed"]
      /\ relay[r] = "publishing" /\ unsent[r] = {} /\ buffer[r] = <<>>
      /\ UNCHANGED <<row, rid, lastId, seen, locked, unsent, buffer, log, faults>>
  BY DEF Flush, rowVars
<1>2. Entries(buffer[r]) = {}
  BY <1>1 DEF Entries
<1>3. TypeOK'
  BY <1>1 DEF TypeOK
<1>4. LocksSound'
  BY <1>1 DEF LocksSound, TypeOK
<1>5. OnlyCommittedBuffered' /\ OnlyCommittedOnLog' /\ PublishedIsOnLog'
  BY <1>1 DEF OnlyCommittedBuffered, OnlyCommittedOnLog, PublishedIsOnLog
<1>6. HandedOverIsKept'
  <2> SUFFICES ASSUME NEW q \in Relays, NEW d \in (locked[q] \ unsent[q]) \ Refused
               PROVE  \/ d \in Entries(log)
                      \/ relay'[q] = "publishing" /\ d \in Entries(buffer[q])
    BY <1>1 DEF HandedOverIsKept
  <2>1. CASE q # r
    BY <2>1, <1>1 DEF HandedOverIsKept, TypeOK
  <2>2. CASE q = r
    BY <2>2, <1>2 DEF HandedOverIsKept
  <2> QED
    BY <2>1, <2>2
<1> QED
  BY <1>3, <1>4, <1>5, <1>6

\* A transaction that ends without stamping its rows only gives up its locks;
\* the producer's buffer is kept (a flush timeout) or emptied (a crash).
LEMMA AbortIInv ==
  ASSUME IInv, NEW r \in Relays, PublishRaises(r) \/ FlushTimeout(r) \/ CrashRelay(r)
  PROVE  IInv'
<1> USE DEF IInv
<1>1. /\ relay' = [relay EXCEPT ![r] = "idle"]
      /\ locked' = [locked EXCEPT ![r] = {}]
      /\ unsent'[r] = {} /\ \A q \in Relays \ {r} : unsent'[q] = unsent[q]
      /\ \A q \in Relays : buffer'[q] = buffer[q] \/ (q = r /\ buffer'[q] = <<>>)
      /\ UNCHANGED <<row, rid, lastId, seen, log>>
  BY DEF PublishRaises, FlushTimeout, CrashRelay, rowVars, TypeOK
<1>2. TypeOK'
  <2>1. CASE FlushTimeout(r)
    BY <2>1, FaultsAssumption DEF FlushTimeout, rowVars, TypeOK
  <2>2. CASE CrashRelay(r)
    BY <2>2, FaultsAssumption DEF CrashRelay, rowVars, TypeOK
  <2>3. CASE PublishRaises(r)
    BY <2>3, FaultsAssumption DEF PublishRaises, rowVars, TypeOK
  <2> QED
    BY <2>1, <2>2, <2>3
<1>3. LocksSound'
  BY <1>1 DEF LocksSound, TypeOK
<1>4. OnlyCommittedBuffered'
  <2> SUFFICES ASSUME NEW q \in Relays PROVE Entries(buffer'[q]) \subseteq Committed
    BY <1>1 DEF OnlyCommittedBuffered
  <2>1. CASE buffer'[q] = buffer[q]
    BY <2>1 DEF OnlyCommittedBuffered
  <2>2. CASE buffer'[q] = <<>>
    BY <2>2 DEF Entries
  <2> QED
    BY <2>1, <2>2, <1>1
<1>5. OnlyCommittedOnLog' /\ PublishedIsOnLog'
  BY <1>1 DEF OnlyCommittedOnLog, PublishedIsOnLog
<1>6. HandedOverIsKept'
  <2> SUFFICES ASSUME NEW q \in Relays, NEW d \in (locked'[q] \ unsent'[q]) \ Refused
               PROVE  \/ d \in Entries(log)
                      \/ relay'[q] = "publishing" /\ d \in Entries(buffer'[q])
    BY <1>1 DEF HandedOverIsKept
  <2>1. q # r
    BY <1>1 DEF TypeOK
  <2> QED
    BY <2>1, <1>1 DEF HandedOverIsKept, TypeOK
<1> QED
  BY <1>2, <1>3, <1>4, <1>5, <1>6

\* Stamping published_at: every row of the transaction is on the topic.
LEMMA MarkPublishedIInv ==
  ASSUME IInv, NEW r \in Relays, MarkPublished(r)
  PROVE  IInv'
<1> USE DEF IInv
<1>1. /\ relay[r] = "flushed"
      /\ row' = [e \in Events |-> IF e \in locked[r] THEN "published" ELSE row[e]]
      /\ relay' = [relay EXCEPT ![r] = "idle"]
      /\ locked' = [locked EXCEPT ![r] = {}]
      /\ UNCHANGED <<rid, lastId, seen, unsent, buffer, log, faults>>
  BY DEF MarkPublished
<1>2. unsent[r] = {} /\ \A e \in locked[r] \ Refused : e \in Entries(log)
  BY <1>1 DEF LocksSound, HandedOverIsKept
<1>3. TypeOK'
  BY <1>1 DEF TypeOK
<1>4. LocksSound'
  <2>1. \A q \in Relays \ {r} : locked'[q] = locked[q] /\ \A e \in locked[q] : row'[e] = row[e]
    BY <1>1 DEF LocksSound, TypeOK
  <2> QED
    BY <2>1, <1>1, <1>2 DEF LocksSound, TypeOK
<1>5. Committed' = Committed
  BY <1>1 DEF LocksSound, TypeOK
<1>6. OnlyCommittedBuffered' /\ OnlyCommittedOnLog'
  BY <1>1, <1>5 DEF OnlyCommittedBuffered, OnlyCommittedOnLog
<1>7. HandedOverIsKept'
  BY <1>1 DEF HandedOverIsKept, TypeOK
<1>8. PublishedIsOnLog'
  BY <1>1, <1>2 DEF PublishedIsOnLog
<1> QED
  BY <1>3, <1>4, <1>6, <1>7, <1>8

\* A message leaves the producer for the topic, or is refused for good.
LEMMA DeliverIInv ==
  ASSUME IInv, NEW r \in Relays, Deliver(r)
  PROVE  IInv'
<1> USE DEF IInv
<1> DEFINE e == Head(buffer[r])
<1>1. /\ buffer[r] # <<>>
      /\ log' = IF e \in Refused THEN log ELSE Append(log, e)
      /\ buffer' = [buffer EXCEPT ![r] = Tail(@)]
      /\ UNCHANGED <<row, rid, lastId, seen, relay, locked, unsent, faults>>
  BY DEF Deliver, rowVars
<1>2. /\ e \in Events
      /\ buffer'[r] \in Seq(Events)
      /\ Entries(buffer[r]) = Entries(buffer'[r]) \cup {e}
      /\ \A q \in Relays \ {r} : buffer'[q] = buffer[q]
  BY <1>1, HeadTailEntries DEF TypeOK
<1>3. /\ log' \in Seq(Events)
      /\ Entries(log) \subseteq Entries(log')
      /\ Entries(log') \subseteq Entries(log) \cup {e}
      /\ e \notin Refused => e \in Entries(log')
  <2> HIDE DEF e
  <2>1. CASE e \in Refused
    BY <2>1, <1>1 DEF TypeOK
  <2>2. CASE e \notin Refused
    <3>1. log' = Append(log, e)
      BY <2>2, <1>1
    <3> QED
      BY <3>1, <2>2, <1>2, AppendEntries DEF TypeOK
  <2> QED
    BY <2>1, <2>2
<1>4. e \in Committed
  BY <1>2 DEF OnlyCommittedBuffered
<1> HIDE DEF e
<1>5. TypeOK'
  BY <1>1, <1>2, <1>3, HeadTailEntries DEF TypeOK
<1>6. LocksSound'
  BY <1>1 DEF LocksSound
<1>7. OnlyCommittedBuffered'
  BY <1>1, <1>2 DEF OnlyCommittedBuffered
<1>8. OnlyCommittedOnLog'
  BY <1>1, <1>3, <1>4 DEF OnlyCommittedOnLog
<1>9. HandedOverIsKept'
  <2> SUFFICES ASSUME NEW q \in Relays, NEW d \in (locked[q] \ unsent[q]) \ Refused
               PROVE  \/ d \in Entries(log')
                      \/ relay[q] = "publishing" /\ d \in Entries(buffer'[q])
    BY <1>1 DEF HandedOverIsKept
  <2>1. CASE d \in Entries(log)
    BY <2>1, <1>3
  <2>2. CASE relay[q] = "publishing" /\ d \in Entries(buffer[q])
    BY <2>2, <1>2, <1>3
  <2> QED
    BY <2>1, <2>2 DEF HandedOverIsKept
<1>10. PublishedIsOnLog'
  BY <1>1, <1>3 DEF PublishedIsOnLog
<1> QED
  BY <1>5, <1>6, <1>7, <1>8, <1>9, <1>10

LEMMA NextIInv == IInv /\ [Next]_vars => IInv'
<1> SUFFICES ASSUME IInv, [Next]_vars PROVE IInv'
  OBVIOUS
<1>1. ASSUME NEW e \in Events, TxNext(e) PROVE IInv'
  BY <1>1, TxStepIInv
<1>2. ASSUME NEW r \in Relays, RelayNext(r) PROVE IInv'
  BY <1>2, SelectIInv, PublishIInv, FlushIInv, MarkPublishedIInv, DeliverIInv, AbortIInv
  DEF RelayNext
<1>3. CASE UNCHANGED vars
  BY <1>3 DEF vars, IInv, TypeOK, LocksSound, OnlyCommittedBuffered, OnlyCommittedOnLog,
              HandedOverIsKept, PublishedIsOnLog
<1> QED
  BY <1>1, <1>2, <1>3 DEF Next

\* What a step does to the parts of the state others see: the topic grows by
\* at most one event at its end, and only a commit makes an event due.
LEMMA VisibleEffect ==
  ASSUME IInv, Next
  PROVE  /\ \/ log' = log
            \/ \E e \in Events : log' = Append(log, e)
         /\ \/ Committed' = Committed
            \/ \E e \in Events \ Committed : Committed' = Committed \cup {e}
<1>1. ASSUME NEW e \in Events, Enqueue(e) \/ RollbackTx(e)
      PROVE  log' = log /\ Committed' = Committed
  BY <1>1 DEF Enqueue, RollbackTx, IInv, TypeOK
<1>2. ASSUME NEW e \in Events, CommitTx(e)
      PROVE  log' = log /\ e \notin Committed /\ Committed' = Committed \cup {e}
  BY <1>2 DEF CommitTx, IInv, TypeOK
<1>3. ASSUME NEW r \in Relays, RelayNext(r), ~ Deliver(r)
      PROVE  log' = log /\ Committed' = Committed
  <2>1. CASE MarkPublished(r)
    BY <2>1 DEF MarkPublished, IInv, TypeOK, LocksSound
  <2>2. CASE \/ Select(r) \/ Publish(r) \/ Flush(r)
             \/ PublishRaises(r) \/ FlushTimeout(r) \/ CrashRelay(r)
    BY <2>2 DEF Select, Publish, Flush, PublishRaises, FlushTimeout, CrashRelay, rowVars
  <2> QED
    BY <2>1, <2>2, <1>3 DEF RelayNext
<1>4. ASSUME NEW r \in Relays, Deliver(r)
      PROVE  /\ Committed' = Committed
             /\ log' = log \/ \E e \in Events : log' = Append(log, e)
  <2>1. Head(buffer[r]) \in Events
    BY <1>4 DEF Deliver, IInv, TypeOK
  <2> QED
    BY <2>1, <1>4 DEF Deliver, rowVars
<1> QED
  BY <1>1, <1>2, <1>3, <1>4 DEF Next, TxNext

THEOREM InductiveInvariant == Spec => []IInv
BY InitIInv, NextIInv, PTL DEF Spec

\* The state of the outbox and of the relays stays well typed.
THEOREM TypeCorrect == Spec => []TypeOK
<1>1. IInv => TypeOK
  BY DEF IInv
<1> QED
  BY <1>1, InductiveInvariant, PTL

\* No loss between table and topic, however relays interleave, time out or
\* crash: a row stamped published_at is on the topic unless it was refused.
THEOREM NothingLost == Spec => []PublishedIsOnLog
<1>1. IInv => PublishedIsOnLog
  BY DEF IInv
<1> QED
  BY <1>1, InductiveInvariant, PTL

\* No event of a rolled-back business transaction is ever on the topic.
THEOREM NoPhantoms == Spec => []OnlyCommittedOnLog
<1>1. IInv => OnlyCommittedOnLog
  BY DEF IInv
<1> QED
  BY <1>1, InductiveInvariant, PTL

\* When Kafka refuses nothing for good, published means delivered without
\* exception: the promise the relay's own comments make.
THEOREM DeliveredUnlessRefused ==
  ASSUME Refused = {}
  PROVE  Spec => []PublishedMeansDelivered
<1>1. IInv => PublishedMeansDelivered
  BY DEF IInv, PublishedIsOnLog, PublishedMeansDelivered
<1> QED
  BY <1>1, InductiveInvariant, PTL

-----------------------------------------------------------------------------
(* Causal order, which a single relay keeps. *)

\* Ids come from one sequence, and what an event has seen was committed before.
LEMMA LowerIdsStep == IInv /\ CausesHaveLowerIds /\ [Next]_vars => CausesHaveLowerIds'
<1> SUFFICES ASSUME IInv, CausesHaveLowerIds, [Next]_vars PROVE CausesHaveLowerIds'
  OBVIOUS
<1> USE DEF CausesHaveLowerIds
<1>1. ASSUME NEW e \in Events, Enqueue(e) PROVE CausesHaveLowerIds'
  <2>1. /\ \A d \in Events \ {e} : row'[d] = row[d] /\ rid'[d] = rid[d] /\ seen'[d] = seen[d]
        /\ lastId' = lastId + 1 /\ rid'[e] = lastId + 1 /\ seen'[e] = Committed /\ e \notin Committed
        /\ lastId \in Nat /\ rid \in [Events -> Nat]
    BY <1>1 DEF Enqueue, IInv, TypeOK
  <2>2. \A d \in Committed : d \in Committed' /\ rid'[d] = rid[d] /\ rid[d] <= lastId
    BY <2>1
  <2>3. ASSUME NEW x \in Events, NEW d \in seen'[x] PROVE d \in Committed' /\ rid'[d] < rid'[x]
    <3>1. CASE x = e
      BY <3>1, <2>1, <2>2, <2>3
    <3>2. CASE x # e
      BY <3>2, <2>1, <2>2, <2>3
    <3> QED BY <3>1, <3>2
  <2>4. \A x \in Events : rid'[x] <= lastId'
    BY <2>1
  <2> QED BY <2>3, <2>4
<1>2. ASSUME NEW e \in Events, CommitTx(e) PROVE CausesHaveLowerIds'
  BY <1>2 DEF CommitTx, IInv, TypeOK
<1>3. ASSUME NEW e \in Events, RollbackTx(e) PROVE CausesHaveLowerIds'
  <2>1. /\ \A d \in Events \ {e} : row'[d] = row[d] /\ rid'[d] = rid[d] /\ seen'[d] = seen[d]
        /\ lastId' = lastId /\ rid'[e] = 0 /\ seen'[e] = {} /\ e \notin Committed /\ lastId \in Nat
    BY <1>3 DEF RollbackTx, IInv, TypeOK
  <2> QED BY <2>1
<1>4. CASE UNCHANGED <<rid, lastId, seen>> /\ Committed' = Committed
  BY <1>4
<1>5. ASSUME NEW r \in Relays, RelayNext(r) PROVE UNCHANGED <<rid, lastId, seen>> /\ Committed' = Committed
  <2>1. CASE MarkPublished(r)
    BY <2>1 DEF MarkPublished, IInv, TypeOK, LocksSound
  <2>2. CASE ~ MarkPublished(r)
    BY <2>2, <1>5 DEF RelayNext, Select, Publish, Flush, Deliver, PublishRaises, FlushTimeout, CrashRelay, rowVars
  <2> QED BY <2>1, <2>2
<1>6. CASE UNCHANGED vars
  BY <1>6, <1>4 DEF vars
<1> QED BY <1>1, <1>2, <1>3, <1>4, <1>5, <1>6 DEF Next, TxNext

\* Business transactions touch no row that a relay, a producer or the topic has.
LEMMA TxKeepsOrder ==
  ASSUME IInv, CausesGoFirst, CausalOrder, NEW e \in Events, TxNext(e)
  PROVE  CausesGoFirst' /\ CausalOrder'
<1>1. /\ UNCHANGED <<locked, buffer, log>> /\ e \notin Committed
      /\ \A d \in Events \ {e} : row'[d] = row[d] /\ seen'[d] = seen[d]
  BY DEF TxNext, Enqueue, CommitTx, RollbackTx, relayVars, IInv, TypeOK
<1>2. \A r \in Relays : \A x \in locked[r] : x \in Committed
  BY DEF IInv, LocksSound, TypeOK
<1>3. \A r \in Relays : \A i \in DOMAIN buffer[r] : buffer[r][i] \in Committed
  BY DEF IInv, OnlyCommittedBuffered, Entries
<1>4. \A i \in DOMAIN log : log[i] \in Committed
  BY DEF IInv, OnlyCommittedOnLog, Entries
<1>5. \A x \in Committed : seen'[x] = seen[x]
  BY <1>1
<1>6. \A d \in Events : row[d] = "published" => row'[d] = "published"
  BY <1>1 DEF TxNext, Enqueue, CommitTx, RollbackTx, IInv, TypeOK
<1>7. ASSUME NEW r \in Relays, NEW x \in locked[r], NEW d \in seen'[x]
      PROVE  row'[d] = "published" \/ d \in locked[r]
  <2>1. x \in Events /\ d \in seen[x] /\ d \in Events
    BY <1>7, <1>2, <1>5 DEF IInv, TypeOK
  <2> QED BY <1>7, <2>1, <1>6 DEF CausesGoFirst
<1>8. ASSUME NEW r \in Relays, NEW i \in DOMAIN buffer[r], NEW d \in seen'[buffer[r][i]] \ Refused
      PROVE  d \in Entries(log) \/ \E j \in 1 .. i - 1 : buffer[r][j] = d
  BY <1>8, <1>3, <1>5 DEF CausesGoFirst
<1>9. ASSUME NEW i \in DOMAIN log, NEW d \in seen'[log[i]] \ Refused PROVE \E j \in 1 .. i : log[j] = d
  BY <1>9, <1>4, <1>5 DEF CausalOrder
<1> QED BY <1>1, <1>7, <1>8, <1>9 DEF CausesGoFirst, CausalOrder

\* A batch in order of id contains what its rows depend on: it was committed, so
\* nobody else can have it locked, and has a lower id.
LEMMA SelectKeepsOrder ==
  ASSUME IInv, CausesHaveLowerIds, CausesGoFirst, CausalOrder, NEW r \in Relays, Relays = {r}, Select(r)
  PROVE  CausesGoFirst' /\ CausalOrder'
<1>1. PICK S \in SUBSET Free : LowestIds(S, Free) /\ locked' = [locked EXCEPT ![r] = S]
  BY DEF Select
<1>2. UNCHANGED <<row, rid, seen, buffer, log>> /\ relay[r] = "idle"
  BY DEF Select, rowVars
<1>3. ASSUME NEW e \in S, NEW d \in seen[e] PROVE row[d] = "published" \/ d \in S
  <2>1. e \in Events /\ d \in Committed /\ rid[d] < rid[e]
    BY <1>3 DEF Free, CausesHaveLowerIds
  <2>2. row[d] = "ready" => d \in Free
    BY <2>1, <1>2 DEF Free, IInv, LocksSound
  <2>3. d \in Free \ S => rid[e] < rid[d]
    BY <1>1, <1>3 DEF LowestIds
  <2>4. rid[e] \in Nat /\ rid[d] \in Nat
    BY <2>1 DEF IInv, TypeOK
  <2> QED BY <2>1, <2>2, <2>3, <2>4
<1>4. locked'[r] = S
  BY <1>1 DEF IInv, TypeOK
<1> QED BY <1>2, <1>3, <1>4 DEF CausesGoFirst, CausalOrder

\* The next message is one whose causes are on the topic or in the producer.
LEMMA PublishKeepsOrder ==
  ASSUME IInv, CausesHaveLowerIds, CausesGoFirst, CausalOrder, NEW r \in Relays, Relays = {r}, Publish(r)
  PROVE  CausesGoFirst' /\ CausalOrder'
<1>1. PICK e \in unsent[r] : (\A d \in unsent[r] : rid[e] <= rid[d]) /\ buffer' = [buffer EXCEPT ![r] = Append(@, e)]
  BY DEF Publish
<1>2. UNCHANGED <<row, rid, seen, locked, log>>
  BY DEF Publish, rowVars
<1>3. e \in Events /\ e \in locked[r] /\ buffer[r] \in Seq(Events) /\ buffer'[r] = Append(buffer[r], e)
  BY <1>1 DEF IInv, LocksSound, TypeOK
<1>4. ASSUME NEW d \in seen[e] \ Refused PROVE d \in Entries(log) \/ d \in Entries(buffer[r])
  <2>1. d \in Committed /\ rid[d] < rid[e] /\ (row[d] = "published" \/ d \in locked[r])
    BY <1>3 DEF CausesHaveLowerIds, CausesGoFirst
  <2>2. CASE row[d] = "published"
    BY <2>1, <2>2 DEF IInv, PublishedIsOnLog
  <2>3. CASE d \in locked[r]
    <3>1. rid[e] \in Nat /\ rid[d] \in Nat
      BY <1>3, <2>1 DEF IInv, TypeOK
    <3>2. d \notin unsent[r]
      BY <3>1, <2>1, <1>1
    <3> QED BY <3>2, <2>3 DEF IInv, HandedOverIsKept
  <2> QED BY <2>1, <2>2, <2>3
<1>5. ASSUME NEW i \in DOMAIN buffer'[r], NEW d \in seen[buffer'[r][i]] \ Refused
      PROVE  d \in Entries(log) \/ \E j \in 1 .. i - 1 : buffer'[r][j] = d
  <2>1. /\ Len(buffer'[r]) = Len(buffer[r]) + 1 /\ Len(buffer[r]) \in Nat /\ i \in 1 .. Len(buffer[r]) + 1
        /\ \A j \in 1 .. Len(buffer[r]) : buffer'[r][j] = buffer[r][j]
        /\ buffer'[r][Len(buffer[r]) + 1] = e
    BY <1>3, <1>5
  <2>2. CASE i = Len(buffer[r]) + 1
    BY <2>1, <2>2, <1>4, <1>5 DEF Entries
  <2>3. CASE i \in 1 .. Len(buffer[r])
    <3>1. d \in Entries(log) \/ \E j \in 1 .. i - 1 : buffer[r][j] = d
      BY <2>1, <2>3, <1>3, <1>5 DEF CausesGoFirst
    <3> QED BY <3>1, <2>1, <2>3
  <2> QED BY <2>1, <2>2, <2>3
<1>6. CausesGoFirst'
  <2>1. \A x \in locked'[r] : \A d \in seen'[x] : row'[d] = "published" \/ d \in locked'[r]
    BY <1>2 DEF CausesGoFirst
  <2> QED BY <2>1, <1>2, <1>5 DEF CausesGoFirst
<1> QED BY <1>2, <1>6 DEF CausalOrder

\* A message arrives after those its event depends on.
LEMMA DeliverKeepsOrder ==
  ASSUME IInv, CausesGoFirst, CausalOrder, NEW r \in Relays, Relays = {r}, Deliver(r)
  PROVE  CausesGoFirst' /\ CausalOrder'
<1> DEFINE h == Head(buffer[r])
<1>1. /\ buffer[r] # <<>> /\ buffer' = [buffer EXCEPT ![r] = Tail(@)]
      /\ log' = IF h \in Refused THEN log ELSE Append(log, h)
      /\ UNCHANGED <<row, seen, locked>>
  BY DEF Deliver, rowVars
<1>2. buffer[r] \in Seq(Events) /\ buffer'[r] = Tail(buffer[r]) /\ log \in Seq(Events)
  BY <1>1 DEF IInv, TypeOK
<1>3. /\ Len(buffer[r]) \in Nat \ {0} /\ h = buffer[r][1] /\ h \in Events
      /\ Len(buffer'[r]) = Len(buffer[r]) - 1
      /\ \A i \in 1 .. Len(buffer[r]) - 1 : buffer'[r][i] = buffer[r][i + 1]
  BY <1>1, <1>2, HeadTail
<1> HIDE DEF h
<1>4. /\ log' \in Seq(Events) /\ Len(log) <= Len(log') /\ Len(log) \in Nat
      /\ \A i \in 1 .. Len(log) : log'[i] = log[i]
      /\ \A i \in 1 .. Len(log') : i \in 1 .. Len(log) \/ (i = Len(log) + 1 /\ log'[i] = h)
      /\ h \notin Refused => h \in Entries(log')
  <2>1. CASE h \in Refused
    BY <2>1, <1>1, <1>2
  <2>2. CASE h \notin Refused
    <3>1. log' = Append(log, h)
      BY <2>2, <1>1
    <3>2. /\ log' \in Seq(Events) /\ Len(log') = Len(log) + 1 /\ Len(log) \in Nat
          /\ \A i \in 1 .. Len(log) : log'[i] = log[i]
          /\ log'[Len(log) + 1] = h
      BY <3>1, <1>2, <1>3
    <3> QED BY <3>2 DEF Entries
  <2> QED BY <2>1, <2>2
<1>5. Entries(log) \subseteq Entries(log')
  BY <1>2, <1>4 DEF Entries
<1>6. \A d \in seen[h] \ Refused : d \in Entries(log)
  <2>1. 1 \in DOMAIN buffer[r]
    BY <1>2, <1>3
  <2> QED BY <2>1, <1>3 DEF CausesGoFirst
<1>7. ASSUME NEW i \in DOMAIN log', NEW d \in seen[log'[i]] \ Refused
      PROVE  \E j \in 1 .. i : log'[j] = d
  <2>1. i \in 1 .. Len(log')
    BY <1>4
  <2>2. CASE i \in 1 .. Len(log)
    <3>1. \E j \in 1 .. i : log[j] = d
      BY <2>2, <1>2, <1>4, <1>7 DEF CausalOrder
    <3> QED BY <3>1, <2>2, <1>4
  <2>3. CASE i = Len(log) + 1 /\ log'[i] = h
    <3>1. PICK j \in 1 .. Len(log) : log[j] = d
      BY <2>3, <1>2, <1>6, <1>7 DEF Entries
    <3> QED BY <3>1, <2>3, <1>4
  <2> QED BY <2>1, <2>2, <2>3, <1>4
<1>8. ASSUME NEW i \in DOMAIN buffer'[r], NEW d \in seen[buffer'[r][i]] \ Refused
      PROVE  d \in Entries(log') \/ \E j \in 1 .. i - 1 : buffer'[r][j] = d
  <2>1. i \in 1 .. Len(buffer[r]) - 1 /\ i + 1 \in DOMAIN buffer[r] /\ buffer'[r][i] = buffer[r][i + 1]
    <3>1. buffer'[r] \in Seq(Events)
      BY <1>1, <1>2
    <3> QED BY <3>1, <1>2, <1>3, <1>8
  <2>2. d \in Entries(log) \/ \E j \in 1 .. i : buffer[r][j] = d
    BY <2>1, <1>8 DEF CausesGoFirst
  <2>3. ASSUME NEW j \in 1 .. i, buffer[r][j] = d
        PROVE  d \in Entries(log') \/ \E k \in 1 .. i - 1 : buffer'[r][k] = d
    <3>1. CASE j = 1
      BY <3>1, <2>3, <1>3, <1>4
    <3>2. CASE j # 1
      <4>1. j - 1 \in 1 .. i - 1 /\ j - 1 \in 1 .. Len(buffer[r]) - 1 /\ j - 1 + 1 = j
        BY <3>2, <2>1, <1>3
      <4>2. buffer'[r][j - 1] = d
        BY <4>1, <2>3, <1>3
      <4> QED BY <4>1, <4>2
    <3> QED BY <3>1, <3>2
  <2> QED BY <2>2, <2>3, <1>5
<1>9. CausesGoFirst'
  <2>1. \A x \in locked'[r] : \A d \in seen'[x] : row'[d] = "published" \/ d \in locked'[r]
    BY <1>1 DEF CausesGoFirst
  <2> QED BY <2>1, <1>1, <1>8 DEF CausesGoFirst
<1> QED BY <1>1, <1>7, <1>9 DEF CausalOrder

\* The other steps of a relay end its transaction or wait for the producer.
LEMMA OtherStepsKeepOrder ==
  ASSUME IInv, CausesGoFirst, CausalOrder, NEW r \in Relays, Relays = {r},
         Flush(r) \/ PublishRaises(r) \/ FlushTimeout(r) \/ MarkPublished(r) \/ CrashRelay(r)
  PROVE  CausesGoFirst' /\ CausalOrder'
<1>1. /\ UNCHANGED <<seen, log>>
      /\ locked'[r] = {} \/ UNCHANGED <<locked, row>>
      /\ buffer'[r] = buffer[r] \/ buffer'[r] = <<>>
  BY DEF Flush, PublishRaises, FlushTimeout, MarkPublished, CrashRelay, rowVars, IInv, TypeOK
<1> QED BY <1>1 DEF CausesGoFirst, CausalOrder

\* A single relay keeps causal order on the topic, through flush timeouts that
\* leave messages in the producer, refused messages and crashes.
THEOREM OneRelayKeepsOrder ==
  ASSUME NEW r, Relays = {r}
  PROVE  Spec => []CausalOrder
<1> DEFINE Causal == CausesHaveLowerIds /\ CausesGoFirst /\ CausalOrder
<1>1. Init => Causal
  BY DEF Init, CausesHaveLowerIds, CausesGoFirst, CausalOrder
<1>2. IInv /\ Causal /\ [Next]_vars => Causal'
  <2> SUFFICES ASSUME IInv, Causal, [Next]_vars PROVE CausesGoFirst' /\ CausalOrder'
    BY LowerIdsStep
  <2>1. ASSUME NEW e \in Events, TxNext(e) PROVE CausesGoFirst' /\ CausalOrder'
    BY <2>1, TxKeepsOrder
  <2>2. CASE RelayNext(r)
    BY <2>2, SelectKeepsOrder, PublishKeepsOrder, DeliverKeepsOrder, OtherStepsKeepOrder DEF RelayNext
  <2>3. CASE UNCHANGED vars
    BY <2>3 DEF vars, CausesGoFirst, CausalOrder
  <2> QED BY <2>1, <2>2, <2>3 DEF Next
<1>3. Causal => CausalOrder
  OBVIOUS
<1> HIDE DEF Causal
<1> QED BY <1>1, <1>2, <1>3, InductiveInvariant, PTL DEF Spec

-----------------------------------------------------------------------------
(* How many copies of an event the topic can hold.  Every message, in a    *)
(* producer or on the topic, carries a stamp: the number of faults when it *)
(* was handed over.  An event is handed over again only after a fault, so  *)
(* its copies have different stamps, and there are faults + 1 stamps.      *)

Topic  == CHOOSE t : t \notin Relays
Places == Relays \cup {Topic}

\* The messages at a place, oldest first.
Carries(p) == IF p = Topic THEN log ELSE buffer[p]

\* The events a relay may still hand over without a further fault.
Due(e) == row[e] # "published" /\ \A r \in Relays : e \in locked[r] => e \in unsent[r]

StampedBy(st) ==
  /\ st \in [Places -> Seq(Nat)]
  /\ \A p \in Places : Len(st[p]) = Len(Carries(p))
  /\ \A p \in Places : \A i \in 1 .. Len(st[p]) : st[p][i] <= faults
  /\ \A p \in Places : \A i \in 1 .. Len(st[p]) : Due(Carries(p)[i]) => st[p][i] < faults
  /\ \A p, q \in Places : \A i \in 1 .. Len(st[p]), j \in 1 .. Len(st[q]) :
       Carries(p)[i] = Carries(q)[j] /\ st[p][i] = st[q][j] => p = q /\ i = j

Stamped == \E st : StampedBy(st)

LEMMA TopicIsNoRelay == Topic \notin Relays
BY NoSetContainsEverything DEF Topic

LEMMA CarriesType ==
  ASSUME TypeOK, NEW p \in Places
  PROVE  Carries(p) \in Seq(Events)
BY DEF TypeOK, Places, Carries

\* Steps that hand nothing over: the messages stay where they are or a producer
\* is emptied, and no event becomes due unless the step is a fault.
LEMMA StampsKept ==
  ASSUME IInv, NEW st, StampedBy(st), faults' \in Nat, log' = log,
         \A r \in Relays : buffer'[r] = buffer[r] \/ buffer'[r] = <<>>,
         \/ faults' = faults + 1
         \/ faults' = faults /\ \A e \in Events : Due(e)' => Due(e)
  PROVE  Stamped'
<1>1. PICK s : s = [p \in Places |-> IF Carries(p)' = Carries(p) THEN st[p] ELSE <<>>]
  OBVIOUS
<1>2. \A p \in Places : Carries(p)' = Carries(p) \/ Carries(p)' = <<>>
  BY DEF Carries, Places
<1>3. faults \in Nat
  BY FaultsAssumption DEF IInv, TypeOK
<1>4. \A p \in Places : /\ Carries(p) \in Seq(Events) /\ st[p] \in Seq(Nat)
                        /\ Len(st[p]) = Len(Carries(p))
  BY CarriesType DEF IInv, StampedBy
<1>5. \A p \in Places : /\ s[p] \in Seq(Nat) /\ Len(s[p]) = Len(Carries(p)')
                        /\ s[p] = st[p] \/ s[p] = <<>>
  BY <1>1, <1>2, <1>4
<1>6. \A p \in Places : \A i \in 1 .. Len(s[p]) :
        /\ s[p] = st[p] /\ i \in 1 .. Len(st[p]) /\ s[p][i] \in Nat
        /\ Carries(p)'[i] = Carries(p)[i] /\ Carries(p)[i] \in Events
  <2> SUFFICES ASSUME NEW p \in Places, NEW i \in 1 .. Len(s[p])
      PROVE  /\ s[p] = st[p] /\ i \in 1 .. Len(st[p]) /\ s[p][i] \in Nat
             /\ Carries(p)'[i] = Carries(p)[i] /\ Carries(p)[i] \in Events
    OBVIOUS
  <2>1. Carries(p)' = Carries(p) /\ s[p] = st[p]
    BY <1>1, <1>2, <1>5
  <2>2. i \in 1 .. Len(st[p]) /\ i \in 1 .. Len(Carries(p)) /\ st[p] \in Seq(Nat) /\ Carries(p) \in Seq(Events)
    BY <2>1, <1>4
  <2>3. st[p][i] \in Nat
    BY <2>2
  <2>4. Carries(p)[i] \in Events
    BY <2>2
  <2> QED BY <2>1, <2>2, <2>3, <2>4
<1>7. ASSUME NEW p \in Places, NEW i \in 1 .. Len(s[p])
      PROVE  s[p][i] <= faults' /\ (Due(Carries(p)[i])' => s[p][i] < faults')
  <2>1. /\ st[p][i] <= faults /\ st[p][i] \in Nat /\ s[p][i] = st[p][i]
        /\ Carries(p)'[i] = Carries(p)[i] /\ Carries(p)[i] \in Events
        /\ Due(Carries(p)[i]) => st[p][i] < faults
    BY <1>6 DEF StampedBy
  <2>2. PICK e \in Events : e = Carries(p)[i]
    BY <2>1
  <2>3. Due(Carries(p)[i])' <=> Due(e)'
    BY <2>1, <2>2 DEF Due
  <2> QED BY <2>1, <2>2, <2>3, <1>3
<1>8. StampedBy(s)'
  <2>1. s \in [Places -> Seq(Nat)]
    BY <1>1, <1>5
  <2>2. \A p, q \in Places : \A i \in 1 .. Len(s[p]), j \in 1 .. Len(s[q]) :
          Carries(p)'[i] = Carries(q)'[j] /\ s[p][i] = s[q][j] => p = q /\ i = j
    BY <1>6 DEF StampedBy
  <2> QED BY <2>1, <2>2, <1>5, <1>7 DEF StampedBy
<1> QED BY <1>8 DEF Stamped

\* Handing over an event that was due: its copy gets the highest stamp so far,
\* and the event is no longer due.
LEMMA StampsAfterPublish ==
  ASSUME IInv, NEW r \in Relays, Publish(r), NEW st, StampedBy(st)
  PROVE  Stamped'
<1>1. PICK e \in unsent[r] :
        /\ unsent' = [unsent EXCEPT ![r] = @ \ {e}]
        /\ buffer' = [buffer EXCEPT ![r] = Append(@, e)]
  BY DEF Publish
<1>2. PICK n : n = faults
  OBVIOUS
<1>3. PICK s : s = [st EXCEPT ![r] = Append(@, n)]
  OBVIOUS
<1>4. UNCHANGED <<row, locked, log, faults>> /\ n \in Nat
  BY <1>2, FaultsAssumption DEF Publish, rowVars, IInv, TypeOK
<1>5. e \in Events /\ e \in locked[r] /\ Due(e)
  BY DEF IInv, TypeOK, LocksSound, Due
<1>6. \A d \in Events : Due(d)' => Due(d) /\ d # e
  BY <1>1, <1>4, <1>5 DEF Due, IInv, TypeOK
<1>7. r \in Places /\ \A p \in Places \ {r} : Carries(p)' = Carries(p) /\ s[p] = st[p]
  BY <1>1, <1>3, <1>4, TopicIsNoRelay DEF Carries, Places, IInv, TypeOK, StampedBy
<1>8. /\ Carries(r) = buffer[r] /\ Carries(r)' = Append(Carries(r), e)
      /\ s[r] = Append(st[r], n) /\ s \in [Places -> Seq(Nat)]
  BY <1>1, <1>3, <1>4, <1>7, TopicIsNoRelay DEF Carries, Places, IInv, TypeOK, StampedBy
<1>9. \A p \in Places : /\ Carries(p) \in Seq(Events) /\ st[p] \in Seq(Nat)
                        /\ Len(st[p]) = Len(Carries(p))
  BY CarriesType DEF IInv, StampedBy
<1>10. /\ Len(s[r]) = Len(st[r]) + 1 /\ Len(st[r]) \in Nat /\ Len(Carries(r)') = Len(s[r])
       /\ s[r][Len(st[r]) + 1] = n /\ Carries(r)'[Len(st[r]) + 1] = e
       /\ \A i \in 1 .. Len(st[r]) : s[r][i] = st[r][i] /\ Carries(r)'[i] = Carries(r)[i]
  BY <1>4, <1>5, <1>7, <1>8, <1>9
\* A position is an old one or that of the new copy.
<1>11. \A p \in Places : \A i \in 1 .. Len(s[p]) :
         \/ /\ i \in 1 .. Len(st[p]) /\ s[p][i] = st[p][i] /\ st[p][i] \in Nat
            /\ Carries(p)'[i] = Carries(p)[i] /\ Carries(p)[i] \in Events
         \/ p = r /\ i = Len(st[r]) + 1 /\ s[p][i] = n /\ Carries(p)'[i] = e
  <2> SUFFICES ASSUME NEW p \in Places, NEW i \in 1 .. Len(s[p])
      PROVE  \/ /\ i \in 1 .. Len(st[p]) /\ s[p][i] = st[p][i] /\ st[p][i] \in Nat
                /\ Carries(p)'[i] = Carries(p)[i] /\ Carries(p)[i] \in Events
             \/ p = r /\ i = Len(st[r]) + 1 /\ s[p][i] = n /\ Carries(p)'[i] = e
    OBVIOUS
  <2>1. (p = r /\ i = Len(st[r]) + 1) \/ i \in 1 .. Len(st[p])
    BY <1>7, <1>10
  <2>2. CASE i \in 1 .. Len(st[p])
    <3>1. s[p][i] = st[p][i] /\ Carries(p)'[i] = Carries(p)[i]
      BY <2>2, <1>7, <1>10
    <3>2. st[p][i] \in Nat
      BY <2>2, <1>9
    <3>3. Carries(p)[i] \in Events
      BY <2>2, <1>9
    <3> QED BY <2>2, <3>1, <3>2, <3>3
  <2> QED BY <2>1, <2>2, <1>10
\* The new copy differs from the old ones: they were stamped while e was due.
<1>12. ASSUME NEW p \in Places, NEW i \in 1 .. Len(st[p]), Carries(p)[i] = e
       PROVE  st[p][i] < n
  BY <1>2, <1>5, <1>12 DEF StampedBy
<1>13. ASSUME NEW p \in Places, NEW i \in 1 .. Len(s[p])
       PROVE  s[p][i] <= n /\ (Due(Carries(p)[i])' => s[p][i] < n)
  <2>1. PICK d \in Events : d = Carries(p)'[i]
    BY <1>5, <1>11
  <2>2. Due(Carries(p)[i])' <=> Due(d)'
    BY <2>1 DEF Due
  <2>3. CASE p = r /\ i = Len(st[r]) + 1
    BY <2>3, <2>1, <2>2, <1>4, <1>6, <1>10
  <2>4. CASE /\ i \in 1 .. Len(st[p]) /\ s[p][i] = st[p][i] /\ st[p][i] \in Nat
             /\ Carries(p)'[i] = Carries(p)[i] /\ Carries(p)[i] \in Events
    BY <2>4, <2>1, <2>2, <1>2, <1>6 DEF StampedBy
  <2> QED BY <2>3, <2>4, <1>11
<1>14. ASSUME NEW p \in Places, NEW q \in Places, NEW i \in 1 .. Len(s[p]), NEW j \in 1 .. Len(s[q]),
              Carries(p)'[i] = Carries(q)'[j], s[p][i] = s[q][j]
       PROVE  p = q /\ i = j
  <2> DEFINE Old(x, k) == /\ k \in 1 .. Len(st[x]) /\ s[x][k] = st[x][k] /\ st[x][k] \in Nat
                          /\ Carries(x)'[k] = Carries(x)[k] /\ Carries(x)[k] \in Events
             New(x, k) == x = r /\ k = Len(st[r]) + 1 /\ s[x][k] = n /\ Carries(x)'[k] = e
  <2>1. CASE Old(p, i) /\ Old(q, j)
    <3>1. /\ i \in 1 .. Len(st[p]) /\ j \in 1 .. Len(st[q])
          /\ Carries(p)[i] = Carries(q)[j] /\ st[p][i] = st[q][j]
      BY <2>1, <1>14
    <3> QED BY <3>1 DEF StampedBy
  <2>2. CASE New(p, i) /\ New(q, j)
    BY <2>2
  <2>3. CASE Old(p, i) /\ New(q, j)
    <3>1. i \in 1 .. Len(st[p]) /\ Carries(p)[i] = e /\ st[p][i] = n
      BY <2>3, <1>14
    <3> QED BY <3>1, <1>4, <1>12
  <2>4. CASE New(p, i) /\ Old(q, j)
    <3>1. j \in 1 .. Len(st[q]) /\ Carries(q)[j] = e /\ st[q][j] = n
      BY <2>4, <1>14
    <3> QED BY <3>1, <1>4, <1>12
  <2>5. (Old(p, i) \/ New(p, i)) /\ (Old(q, j) \/ New(q, j))
    BY <1>11
  <2> HIDE DEF Old, New
  <2> QED BY <2>1, <2>2, <2>3, <2>4, <2>5
<1>15. \A p \in Places : Len(s[p]) = Len(Carries(p)')
  BY <1>7, <1>9, <1>10
<1>16. StampedBy(s)'
  BY <1>2, <1>4, <1>8, <1>13, <1>14, <1>15 DEF StampedBy
<1> QED BY <1>16 DEF Stamped

\* A message takes its stamp along from the producer to the topic.
LEMMA StampsAfterDeliver ==
  ASSUME IInv, NEW r \in Relays, Deliver(r), NEW st, StampedBy(st)
  PROVE  Stamped'
<1>1. PICK h : h = Head(buffer[r])
  OBVIOUS
<1>2. /\ buffer[r] # <<>> /\ buffer' = [buffer EXCEPT ![r] = Tail(@)]
      /\ log' = IF h \in Refused THEN log ELSE Append(log, h)
      /\ UNCHANGED <<row, locked, unsent, faults>>
  BY <1>1 DEF Deliver, rowVars
<1>3. PICK s : s = [p \in Places |->
                      IF p = r THEN Tail(st[r])
                      ELSE IF p = Topic /\ h \notin Refused THEN Append(st[p], Head(st[r])) ELSE st[p]]
  OBVIOUS
<1>4. \A p \in Places : /\ Carries(p) \in Seq(Events) /\ st[p] \in Seq(Nat)
                        /\ Len(st[p]) = Len(Carries(p)) /\ Len(st[p]) \in Nat
  BY CarriesType DEF IInv, StampedBy
<1>5. /\ r \in Places /\ Topic \in Places /\ r # Topic
      /\ Carries(r) = buffer[r] /\ Carries(r)' = Tail(Carries(r)) /\ Carries(r) # <<>>
      /\ \A p \in Places \ {r, Topic} : Carries(p)' = Carries(p) /\ s[p] = st[p]
      /\ s[r] = Tail(st[r])
  BY <1>2, <1>3, TopicIsNoRelay DEF Carries, Places, IInv, TypeOK
<1>6. /\ Carries(Topic)' = IF h \in Refused THEN Carries(Topic) ELSE Append(Carries(Topic), h)
      /\ s[Topic] = IF h \in Refused THEN st[Topic] ELSE Append(st[Topic], Head(st[r]))
  BY <1>2, <1>3, <1>5 DEF Carries
<1>7. /\ Len(st[r]) \in Nat \ {0} /\ Head(st[r]) = st[r][1] /\ st[r][1] \in Nat
      /\ h = Carries(r)[1] /\ h \in Events
      /\ s[r] \in Seq(Nat) /\ Len(s[r]) = Len(st[r]) - 1 /\ Len(Carries(r)') = Len(st[r]) - 1
      /\ \A i \in 1 .. Len(st[r]) - 1 :
           s[r][i] = st[r][i + 1] /\ Carries(r)'[i] = Carries(r)[i + 1]
  <2>1. Carries(r) \in Seq(Events) /\ Carries(r) # <<>> /\ st[r] \in Seq(Nat) /\ Len(st[r]) = Len(Carries(r))
    BY <1>4, <1>5
  <2>2. /\ Len(Carries(r)) \in Nat \ {0} /\ h = Carries(r)[1] /\ h \in Events
        /\ Len(Carries(r)') = Len(Carries(r)) - 1
        /\ \A i \in 1 .. Len(Carries(r)) - 1 : Carries(r)'[i] = Carries(r)[i + 1]
    BY <2>1, <1>1, <1>5, HeadTail
  <2>3. st[r] # <<>>
    BY <2>1, <2>2
  <2>4. Head(st[r]) = st[r][1] /\ st[r][1] \in Nat /\ s[r] \in Seq(Nat) /\ Len(s[r]) = Len(st[r]) - 1
    BY <2>1, <2>3, <1>5
  <2>5. \A i \in 1 .. Len(st[r]) - 1 : s[r][i] = st[r][i + 1]
    BY <2>1, <2>3, <1>5
  <2> QED BY <2>1, <2>2, <2>4, <2>5
<1>8. /\ s[Topic] \in Seq(Nat) /\ Len(s[Topic]) = Len(Carries(Topic)')
      /\ \A i \in 1 .. Len(s[Topic]) :
           \/ /\ i \in 1 .. Len(st[Topic]) /\ s[Topic][i] = st[Topic][i]
              /\ Carries(Topic)'[i] = Carries(Topic)[i]
           \/ i = Len(st[Topic]) + 1 /\ s[Topic][i] = st[r][1] /\ Carries(Topic)'[i] = h
  <2>1. CASE h \in Refused
    BY <2>1, <1>4, <1>5, <1>6
  <2>2. CASE h \notin Refused
    <3>1. Carries(Topic)' = Append(Carries(Topic), h) /\ s[Topic] = Append(st[Topic], st[r][1])
      BY <2>2, <1>6, <1>7
    <3>2. /\ Carries(Topic) \in Seq(Events) /\ st[Topic] \in Seq(Nat) /\ h \in Events
          /\ st[r][1] \in Nat /\ Len(st[Topic]) = Len(Carries(Topic))
      BY <1>4, <1>5, <1>7
    <3>3. /\ s[Topic] \in Seq(Nat) /\ Len(s[Topic]) = Len(st[Topic]) + 1
          /\ s[Topic][Len(st[Topic]) + 1] = st[r][1]
          /\ \A i \in 1 .. Len(st[Topic]) : s[Topic][i] = st[Topic][i]
      BY <3>1, <3>2
    <3>4. /\ Len(Carries(Topic)') = Len(st[Topic]) + 1 /\ Carries(Topic)'[Len(st[Topic]) + 1] = h
          /\ \A i \in 1 .. Len(st[Topic]) : Carries(Topic)'[i] = Carries(Topic)[i]
      BY <3>1, <3>2
    <3> QED BY <3>2, <3>3, <3>4
  <2> QED BY <2>1, <2>2
\* Where a position was before the step.
<1> DEFINE Was(p, i, q, j) ==
      /\ q \in Places /\ j \in 1 .. Len(st[q])
      /\ s[p][i] = st[q][j] /\ Carries(p)'[i] = Carries(q)[j]
      /\ \/ p = r /\ q = r /\ j = i + 1
         \/ p = Topic /\ q = r /\ j = 1 /\ i = Len(st[Topic]) + 1
         \/ p # r /\ q = p /\ j = i
<1>9. \A p \in Places : \A i \in 1 .. Len(s[p]) : \E q \in Places : \E j \in 1 .. Len(st[q]) : Was(p, i, q, j)
  <2> SUFFICES ASSUME NEW p \in Places, NEW i \in 1 .. Len(s[p])
               PROVE  \E q \in Places : \E j \in 1 .. Len(st[q]) : Was(p, i, q, j)
    OBVIOUS
  <2>1. CASE p = r
    <3>1. i + 1 \in 1 .. Len(st[r]) /\ Was(p, i, r, i + 1)
      BY <2>1, <1>5, <1>7
    <3> QED BY <3>1, <1>5
  <2>2. CASE p = Topic
    <3>1. CASE i = Len(st[Topic]) + 1 /\ s[Topic][i] = st[r][1] /\ Carries(Topic)'[i] = h
      <4>1. 1 \in 1 .. Len(st[r]) /\ Was(p, i, r, 1)
        BY <2>2, <3>1, <1>5, <1>7
      <4> QED BY <4>1, <1>5
    <3>2. CASE /\ i \in 1 .. Len(st[Topic]) /\ s[Topic][i] = st[Topic][i]
               /\ Carries(Topic)'[i] = Carries(Topic)[i]
      <4>1. Was(p, i, p, i)
        BY <2>2, <3>2, <1>5
      <4> QED BY <4>1, <2>2, <3>2
    <3> QED BY <2>2, <3>1, <3>2, <1>8
  <2>3. CASE p \notin {r, Topic}
    <3>1. i \in 1 .. Len(st[p]) /\ Was(p, i, p, i)
      BY <2>3, <1>5
    <3> QED BY <3>1
  <2> QED BY <2>1, <2>2, <2>3
<1> HIDE DEF Was
<1>10. faults \in Nat /\ \A d \in Events : Due(d)' => Due(d)
  BY <1>2, FaultsAssumption DEF Due, IInv, TypeOK
<1>11. ASSUME NEW p \in Places, NEW i \in 1 .. Len(s[p])
       PROVE  s[p][i] <= faults /\ (Due(Carries(p)[i])' => s[p][i] < faults)
  <2>1. PICK q \in Places : \E k \in 1 .. Len(st[q]) : Was(p, i, q, k)
    BY <1>9
  <2> PICK j \in 1 .. Len(st[q]) : Was(p, i, q, j)
    BY <2>1
  <2>2. s[p][i] = st[q][j] /\ Carries(p)'[i] = Carries(q)[j]
    BY DEF Was
  <2>3. Carries(q) \in Seq(Events) /\ j \in 1 .. Len(Carries(q))
    BY <1>4
  <2>4. PICK d \in Events : d = Carries(q)[j]
    BY <2>3
  <2>5. Due(Carries(p)[i])' <=> Due(d)'
    BY <2>2, <2>4 DEF Due
  <2> QED BY <2>2, <2>4, <2>5, <1>10 DEF StampedBy
<1>12. ASSUME NEW p \in Places, NEW q \in Places, NEW i \in 1 .. Len(s[p]), NEW j \in 1 .. Len(s[q]),
              Carries(p)'[i] = Carries(q)'[j], s[p][i] = s[q][j]
       PROVE  p = q /\ i = j
  <2>1. PICK p0 \in Places : \E k \in 1 .. Len(st[p0]) : Was(p, i, p0, k)
    BY <1>9
  <2>2. PICK q0 \in Places : \E k \in 1 .. Len(st[q0]) : Was(q, j, q0, k)
    BY <1>9
  <2> PICK i0 \in 1 .. Len(st[p0]) : Was(p, i, p0, i0)
    BY <2>1
  <2> PICK j0 \in 1 .. Len(st[q0]) : Was(q, j, q0, j0)
    BY <2>2
  <2>3. Carries(p0)[i0] = Carries(q0)[j0] /\ st[p0][i0] = st[q0][j0]
    BY <1>12 DEF Was
  <2>4. p0 = q0 /\ i0 = j0
    BY <2>3 DEF StampedBy
  <2>5. i \in Nat \ {0} /\ j \in Nat \ {0}
    OBVIOUS
  <2> QED BY <2>4, <2>5, <1>5 DEF Was
<1>13. \A p \in Places : s[p] \in Seq(Nat) /\ Len(s[p]) = Len(Carries(p)')
  BY <1>4, <1>5, <1>7, <1>8
<1>14. s \in [Places -> Seq(Nat)]
  BY <1>3, <1>13
<1>15. StampedBy(s)'
  BY <1>2, <1>11, <1>12, <1>13, <1>14 DEF StampedBy
<1> QED BY <1>15 DEF Stamped

LEMMA InitStamped == Init => Stamped
<1> SUFFICES ASSUME Init PROVE Stamped
  OBVIOUS
<1>1. PICK st : st = [p \in Places |-> <<>>]
  OBVIOUS
<1>2. \A p \in Places : Carries(p) = <<>> /\ st[p] = <<>>
  BY <1>1 DEF Init, Carries, Places
<1>3. StampedBy(st)
  BY <1>1, <1>2 DEF StampedBy
<1> QED BY <1>3 DEF Stamped

LEMMA NextStamped == IInv /\ Stamped /\ [Next]_vars => Stamped'
<1> SUFFICES ASSUME IInv, [Next]_vars, NEW st, StampedBy(st) PROVE Stamped'
  BY DEF Stamped
<1>1. faults \in Nat
  BY FaultsAssumption DEF IInv, TypeOK
<1>2. ASSUME NEW e \in Events, TxNext(e) PROVE Stamped'
  <2>1. log' = log /\ buffer' = buffer /\ (faults' = faults \/ faults' = faults + 1)
    BY <1>2 DEF TxNext, Enqueue, CommitTx, RollbackTx, relayVars
  <2>2. ASSUME NEW d \in Events, Due(d)' PROVE Due(d)
    BY <1>2, <2>2 DEF TxNext, Enqueue, CommitTx, RollbackTx, relayVars, Due, IInv, TypeOK
  <2> QED BY <1>1, <2>1, <2>2, StampsKept
<1>3. ASSUME NEW r \in Relays, PublishRaises(r) \/ FlushTimeout(r) \/ CrashRelay(r) PROVE Stamped'
  <2>1. log' = log /\ faults' = faults + 1 /\ \A q \in Relays : buffer'[q] = buffer[q] \/ buffer'[q] = <<>>
    BY <1>3 DEF PublishRaises, FlushTimeout, CrashRelay, IInv, TypeOK
  <2> QED BY <1>1, <2>1, StampsKept
<1>4. ASSUME NEW r \in Relays, Select(r) \/ Flush(r) \/ MarkPublished(r) PROVE Stamped'
  <2>1. log' = log /\ buffer' = buffer /\ faults' = faults
    BY <1>4 DEF Select, Flush, MarkPublished
  <2>2. ASSUME NEW d \in Events, Due(d)' PROVE Due(d)
    <3>1. CASE Select(r)
      <4>1. PICK S \in SUBSET Free :
              locked' = [locked EXCEPT ![r] = S] /\ unsent' = [unsent EXCEPT ![r] = S] /\ row' = row
        BY <3>1 DEF Select, rowVars
      <4>2. CASE d \in S
        BY <4>1, <4>2, <2>2 DEF Due, Free
      <4>3. CASE d \notin S
        BY <4>1, <4>3, <2>2, <3>1 DEF Due, Select, IInv, TypeOK, LocksSound
      <4> QED BY <4>2, <4>3
    <3>2. CASE Flush(r)
      BY <3>2, <2>2 DEF Flush, Due, rowVars
    <3>3. CASE MarkPublished(r)
      BY <3>3, <2>2 DEF MarkPublished, Due, IInv, TypeOK
    <3> QED BY <3>1, <3>2, <3>3, <1>4
  <2> QED BY <1>1, <2>1, <2>2, StampsKept
<1>5. ASSUME NEW r \in Relays, Publish(r) \/ Deliver(r) PROVE Stamped'
  BY <1>5, StampsAfterPublish, StampsAfterDeliver
<1>6. CASE UNCHANGED vars
  BY <1>1, <1>6, StampsKept DEF vars, Due
<1> QED BY <1>2, <1>3, <1>4, <1>5, <1>6 DEF Next, RelayNext

\* The stamps of an event's copies on the topic are distinct and at most faults.
LEMMA StampsCount == IInv /\ Stamped => CopiesNeedFaults
<1> SUFFICES ASSUME IInv, NEW st, StampedBy(st), NEW e \in Events
             PROVE  CopiesOf(e) <= 1 + faults
  BY DEF Stamped, CopiesNeedFaults
<1> DEFINE Pos == {i \in DOMAIN log : log[i] = e}
           f   == [i \in Pos |-> st[Topic][i]]
<1>1. /\ Topic \in Places /\ Carries(Topic) = log /\ log \in Seq(Events)
      /\ st[Topic] \in Seq(Nat) /\ Len(st[Topic]) = Len(log) /\ faults \in Nat
  BY FaultsAssumption DEF Places, Carries, IInv, TypeOK, StampedBy
<1>2. \A i \in Pos : i \in 1 .. Len(st[Topic]) /\ st[Topic][i] \in 0 .. faults
  BY <1>1 DEF StampedBy
<1>3. \A i, j \in Pos : st[Topic][i] = st[Topic][j] => i = j
  BY <1>1, <1>2 DEF StampedBy
<1>4. f \in Injection(Pos, 0 .. faults)
  BY <1>2, <1>3 DEF Injection, IsInjective
<1>5. IsFiniteSet(0 .. faults) /\ Cardinality(0 .. faults) = faults + 1
  <2>1. \A n \in Nat : IsFiniteSet(0 .. n) /\ Cardinality(0 .. n) = IF 0 > n THEN 0 ELSE n - 0 + 1
    BY FS_Interval
  <2>2. IsFiniteSet(0 .. faults) /\ Cardinality(0 .. faults) = IF 0 > faults THEN 0 ELSE faults - 0 + 1
    BY <1>1, <2>1
  <2> HIDE DEF f, Pos
  <2> QED BY <1>1, <2>2
<1>6. IsFiniteSet(Pos) /\ Cardinality(Pos) <= Cardinality(0 .. faults)
  <2> HIDE DEF f, Pos
  <2> QED BY <1>4, <1>5, FS_Injection
<1> QED BY <1>1, <1>5, <1>6 DEF CopiesOf

\* However many relays run and however they interleave, time out or crash, an
\* event is on the topic at most once more than there were faults: SKIP LOCKED
\* alone never lets two relays publish the same row.
THEOREM CopiesPaidFor == Spec => []CopiesNeedFaults
BY InductiveInvariant, InitStamped, NextStamped, StampsCount, PTL DEF Spec
=============================================================================
