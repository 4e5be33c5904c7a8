------------------------- MODULE EventPipelineProofs -------------------------
(***************************************************************************)
(* Proofs about the outbox, its relays and a consumer group together, for  *)
(* any number of events, relays, members and faults: what the group        *)
(* promises, and that the whole implements EventDelivery.                  *)
(*                                                                         *)
(* The relays' invariant is proved in OutboxRelayProofs, the group's here: *)
(* CommittedIsSettled is not inductive, since Commit raises the offset to  *)
(* the member's position.  C!IInv adds that the owner of the partition is  *)
(* exactly one message past the committed offset (PositionsSound) and that *)
(* a member about to commit has settled its message or lost its refused    *)
(* dead letter (HandledIsSettled).                                         *)
(* The interface is that the relays only append committed events to the    *)
(* log, so whatever a consumer settles was promised.                       *)
(***************************************************************************)
EXTENDS EventPipeline, TLAPS

RP == INSTANCE OutboxRelayProofs WITH faults <- relayFaults, MaxFaults <- RelayFaults

\* The assumptions of the components, from those of the pipeline.
LEMMA ComponentAssumptions ==
  RP!BatchAssumption /\ RP!RefusedAssumption /\ RP!FaultsAssumption
BY RelayAssumption, FaultAssumption
DEF RP!BatchAssumption, RP!RefusedAssumption, RP!FaultsAssumption

\* The modules of proofs speak of the same state, steps and invariants as the
\* components of the pipeline.
LEMMA SameRelayState ==
  /\ R!IInv <=> RP!IInv
  /\ R!IInv' <=> RP!IInv'
  /\ R!Init <=> RP!Init
  /\ R!Committed = RP!Committed
  /\ R!Committed' = RP!Committed'
BY DEF R!IInv, R!TypeOK, R!LocksSound, R!OnlyCommittedBuffered, R!OnlyCommittedOnLog,
       R!HandedOverIsKept, R!PublishedIsOnLog, R!Entries, R!Committed, R!Init,
       RP!IInv, RP!TypeOK, RP!LocksSound, RP!OnlyCommittedBuffered, RP!OnlyCommittedOnLog,
       RP!HandedOverIsKept, RP!PublishedIsOnLog, RP!Entries, RP!Committed, RP!Init

LEMMA SameTxStep ==
  ASSUME NEW e \in Events, R!TxNext(e) PROVE RP!Next
<1>1. RP!TxNext(e)
  BY DEF R!TxNext, R!Enqueue, R!CommitTx, R!RollbackTx, R!relayVars, R!Committed,
         RP!TxNext, RP!Enqueue, RP!CommitTx, RP!RollbackTx, RP!relayVars, RP!Committed
<1> QED
  BY <1>1 DEF RP!Next

LEMMA SameRelayStep ==
  ASSUME NEW r \in Relays, R!RelayNext(r) PROVE RP!Next
<1>1. RP!RelayNext(r)
  <2>1. CASE R!Select(r)
    <3>1. R!Free = RP!Free /\ R!rowVars = RP!rowVars /\ R!rowVars' = RP!rowVars'
      BY DEF R!Free, RP!Free, R!rowVars, RP!rowVars
    <3>2. \A S : R!LowestIds(S, R!Free) <=> RP!LowestIds(S, RP!Free)
      BY <3>1 DEF R!LowestIds, RP!LowestIds, R!Cardinality, RP!Cardinality
    <3>3. RP!Select(r)
      BY <2>1, <3>1, <3>2 DEF R!Select, RP!Select
    <3> QED
      BY <3>3 DEF RP!RelayNext
  <2>2. CASE R!Publish(r)
    BY <2>2 DEF R!Publish, R!rowVars, RP!Publish, RP!rowVars, RP!RelayNext
  <2>3. CASE R!Flush(r)
    BY <2>3 DEF R!Flush, R!rowVars, RP!Flush, RP!rowVars, RP!RelayNext
  <2>4. CASE R!MarkPublished(r)
    BY <2>4 DEF R!MarkPublished, RP!MarkPublished, RP!RelayNext
  <2>5. CASE R!Deliver(r)
    BY <2>5 DEF R!Deliver, R!rowVars, RP!Deliver, RP!rowVars, RP!RelayNext
  <2>6. CASE R!FlushTimeout(r)
    BY <2>6 DEF R!FlushTimeout, R!rowVars, RP!FlushTimeout, RP!rowVars, RP!RelayNext
  <2>7. CASE R!CrashRelay(r)
    BY <2>7 DEF R!CrashRelay, R!rowVars, RP!CrashRelay, RP!rowVars, RP!RelayNext
  <2>8. CASE R!PublishRaises(r)
    BY <2>8 DEF R!PublishRaises, R!rowVars, RP!PublishRaises, RP!rowVars, RP!RelayNext
  <2> QED
    BY <2>1, <2>2, <2>3, <2>4, <2>5, <2>6, <2>7, <2>8 DEF R!RelayNext
<1> QED
  BY <1>1 DEF RP!Next

-----------------------------------------------------------------------------
(* The consumer group, around any log that only grows. *)

USE DEF C!Settled

LEMMA InitGroup == C!Init => C!IInv
BY FaultAssumption DEF C!Init, C!IInv, C!TypeOK, C!CommittedIsSettled, C!PositionsSound, C!HandledIsSettled

\* The log only grows at its end, and what was at an index stays there: this
\* disturbs no member, whoever appends.
LEMMA LogGrowsGroup ==
  ASSUME C!IInv,
         log' \in Seq(Events), Len(log') >= Len(log),
         \A i \in 1 .. Len(log) : log'[i] = log[i],
         UNCHANGED <<C!memberVars, groupFaults>>
  PROVE  C!IInv'
<1> USE DEF C!IInv
<1>1. UNCHANGED <<offset, owner, stage, pos, applied, dlq, lost, groupFaults>>
  BY DEF C!memberVars
<1>2. C!TypeOK'
  BY <1>1 DEF C!TypeOK
<1>3. C!CommittedIsSettled'
  BY <1>1 DEF C!CommittedIsSettled, C!TypeOK
<1>4. C!PositionsSound'
  BY <1>1 DEF C!PositionsSound, C!TypeOK
<1>5. C!HandledIsSettled'
  <2> SUFFICES ASSUME NEW m \in Members, stage[m] = "handled"
               PROVE  log'[pos[m]] \in C!Settled \cup lost
    BY <1>1 DEF C!HandledIsSettled
  <2>1. pos[m] \in 1 .. Len(log)
    BY DEF C!PositionsSound, C!TypeOK
  <2> QED
    BY <2>1 DEF C!HandledIsSettled
<1> QED
  BY <1>2, <1>3, <1>4, <1>5

\* A handler that returns, or whose event is dead-lettered, settles the
\* message its member works on; one whose dead letter is refused loses it; and
\* nothing else changes.
LEMMA HandleGroup ==
  ASSUME C!IInv, NEW m \in Members, C!HandleOk(m) \/ C!HandleFails(m)
  PROVE  C!IInv'
<1> USE DEF C!IInv
<1>1. /\ stage[m] = "handling"
      /\ stage' = [stage EXCEPT ![m] = "handled"]
      /\ C!Settled' \cup lost' = C!Settled \cup lost \cup {log[pos[m]]}
      /\ UNCHANGED <<log, offset, owner, pos, groupFaults>>
  BY DEF C!HandleOk, C!HandleFails
<1>2. pos[m] \in 1 .. Len(log) /\ log[pos[m]] \in Events
  BY <1>1 DEF C!PositionsSound, C!TypeOK
<1>3. C!TypeOK'
  BY <1>2 DEF C!HandleOk, C!HandleFails, C!TypeOK
<1>4. C!CommittedIsSettled'
  BY <1>1 DEF C!CommittedIsSettled
<1>5. C!PositionsSound'
  BY <1>1 DEF C!PositionsSound, C!TypeOK
<1>6. C!HandledIsSettled'
  BY <1>1 DEF C!HandledIsSettled, C!TypeOK
<1> QED
  BY <1>3, <1>4, <1>5, <1>6

\* The owner commits the message it has settled.
LEMMA CommitGroup ==
  ASSUME C!IInv, NEW m \in Members, C!Commit(m)
  PROVE  C!IInv' /\ offset' = offset + 1
<1> USE DEF C!IInv
<1>1. /\ stage[m] = "handled" /\ owner = m
      /\ offset' = pos[m]
      /\ pos' = [pos EXCEPT ![m] = @ + 1]
      /\ stage' = [stage EXCEPT ![m] = "poll"]
      /\ UNCHANGED <<log, owner, applied, dlq, lost, groupFaults>>
  BY DEF C!Commit
<1>2. pos[m] = offset + 1 /\ pos[m] <= Len(log) /\ log[pos[m]] \in C!Settled \cup lost
  BY <1>1 DEF C!PositionsSound, C!HandledIsSettled
<1>3. C!TypeOK'
  BY <1>1, <1>2 DEF C!TypeOK
<1>4. C!CommittedIsSettled'
  BY <1>1, <1>2 DEF C!CommittedIsSettled, C!TypeOK
<1>5. C!PositionsSound'
  BY <1>1, <1>2, GroupAssumption DEF C!PositionsSound, C!TypeOK
<1>6. C!HandledIsSettled'
  BY <1>1 DEF C!HandledIsSettled, C!TypeOK
<1> QED
  BY <1>1, <1>2, <1>3, <1>4, <1>5, <1>6

\* Assignments, evictions, polls, refused commits and deaths change no
\* settled message and not the offset.
LEMMA OtherGroup ==
  ASSUME C!IInv, NEW m \in Members,
         \/ C!Assign(m) \/ C!Evict(m) \/ C!Poll(m)
         \/ C!CommitRefused(m) \/ C!DlqUnreachable(m) \/ C!CrashMember(m)
  PROVE  C!IInv' /\ offset' = offset
<1> USE DEF C!IInv
<1>1. CASE C!Assign(m)
  <2>1. C!TypeOK'
    BY <1>1 DEF C!Assign, C!TypeOK
  <2>2. C!PositionsSound'
    BY <1>1 DEF C!Assign, C!TypeOK, C!PositionsSound
  <2>3. C!CommittedIsSettled' /\ C!HandledIsSettled' /\ offset' = offset
    BY <1>1 DEF C!Assign, C!TypeOK, C!CommittedIsSettled, C!HandledIsSettled
  <2> QED
    BY <2>1, <2>2, <2>3
<1>2. CASE C!Evict(m)
  <2>1. C!TypeOK' /\ offset' = offset
    BY <1>2, FaultAssumption DEF C!Evict, C!TypeOK
  <2>2. C!PositionsSound'
    BY <1>2, GroupAssumption DEF C!Evict, C!TypeOK, C!PositionsSound
  <2>3. C!CommittedIsSettled' /\ C!HandledIsSettled'
    BY <1>2 DEF C!Evict, C!CommittedIsSettled, C!HandledIsSettled
  <2> QED
    BY <2>1, <2>2, <2>3
<1>3. CASE C!Poll(m)
  <2>1. C!TypeOK' /\ offset' = offset
    BY <1>3 DEF C!Poll, C!TypeOK
  <2>2. C!PositionsSound'
    BY <1>3 DEF C!Poll, C!TypeOK, C!PositionsSound
  <2>3. C!CommittedIsSettled' /\ C!HandledIsSettled'
    BY <1>3 DEF C!Poll, C!TypeOK, C!CommittedIsSettled, C!HandledIsSettled
  <2> QED
    BY <2>1, <2>2, <2>3
<1>4. CASE C!CommitRefused(m)
  <2>1. C!TypeOK' /\ offset' = offset
    BY <1>4 DEF C!CommitRefused, C!TypeOK
  <2>2. C!PositionsSound'
    BY <1>4 DEF C!CommitRefused, C!TypeOK, C!PositionsSound
  <2>3. C!CommittedIsSettled' /\ C!HandledIsSettled'
    BY <1>4 DEF C!CommitRefused, C!TypeOK, C!CommittedIsSettled, C!HandledIsSettled
  <2> QED
    BY <2>1, <2>2, <2>3
<1>5. CASE C!DlqUnreachable(m) \/ C!CrashMember(m)
  <2>1. C!Dies(m)
    BY <1>5 DEF C!DlqUnreachable, C!CrashMember
  <2>2. C!TypeOK' /\ offset' = offset
    BY <2>1, FaultAssumption DEF C!Dies, C!TypeOK
  <2>3. C!PositionsSound'
    BY <2>1, GroupAssumption DEF C!Dies, C!TypeOK, C!PositionsSound
  <2>4. C!CommittedIsSettled' /\ C!HandledIsSettled'
    BY <2>1 DEF C!Dies, C!TypeOK, C!CommittedIsSettled, C!HandledIsSettled
  <2> QED
    BY <2>2, <2>3, <2>4
<1> QED
  BY <1>1, <1>2, <1>3, <1>4, <1>5

\* Any step of a member.
LEMMA MemberGroup ==
  ASSUME C!IInv, NEW m \in Members, C!MemberNext(m)
  PROVE  C!IInv' /\ offset' >= offset
<1>1. CASE C!HandleOk(m) \/ C!HandleFails(m)
  <2>1. offset' = offset /\ offset \in Nat
    BY <1>1 DEF C!HandleOk, C!HandleFails, C!IInv, C!TypeOK
  <2> QED
    BY <1>1, <2>1, HandleGroup
<1>2. CASE C!Commit(m)
  BY <1>2, CommitGroup DEF C!IInv, C!TypeOK
<1>3. CASE \/ C!Assign(m) \/ C!Evict(m) \/ C!Poll(m)
           \/ C!CommitRefused(m) \/ C!DlqUnreachable(m) \/ C!CrashMember(m)
  BY <1>3, OtherGroup DEF C!IInv, C!TypeOK
<1> QED
  BY <1>1, <1>2, <1>3 DEF C!MemberNext

HIDE DEF C!Settled

-----------------------------------------------------------------------------
\* What a step of the relay side does to the pipeline, mapped to the abstract
\* state: nothing, or one event becomes promised.
LEMMA RelaySideStep ==
  ASSUME PipelineInv, RP!Next, UNCHANGED groupSide
  PROVE  PipelineInv' /\ [Delivery!Next]_(Delivery!vars)
<1>1. R!IInv'
  <2>1. RP!IInv /\ [RP!Next]_(RP!vars) => RP!IInv'
    BY ComponentAssumptions, RP!NextIInv
  <2> QED
    BY <2>1, SameRelayState DEF PipelineInv
<1>2. /\ \/ log' = log
         \/ \E e \in Events : log' = Append(log, e)
      /\ \/ R!Committed' = R!Committed
         \/ \E e \in Events \ R!Committed : R!Committed' = R!Committed \cup {e}
  BY ComponentAssumptions, RP!VisibleEffect, SameRelayState DEF PipelineInv
<1>3. UNCHANGED <<offset, owner, stage, pos, applied, dlq, lost, groupFaults>>
  BY DEF groupSide
<1>4. C!IInv'
  <2>1. log \in Seq(Events)
    BY DEF PipelineInv, C!IInv, C!TypeOK
  <2>2. /\ log' \in Seq(Events) /\ Len(log') >= Len(log)
        /\ \A i \in 1 .. Len(log) : log'[i] = log[i]
    BY <1>2, <2>1
  <2>3. UNCHANGED <<C!memberVars, groupFaults>>
    BY <1>3 DEF C!memberVars
  <2> QED
    BY <2>2, <2>3, ComponentAssumptions, LogGrowsGroup DEF PipelineInv
<1>5. C!Settled' = C!Settled /\ lost' = lost
  BY <1>3 DEF C!Settled
<1>6. SettledWasCommitted'
  BY <1>2, <1>5 DEF PipelineInv, SettledWasCommitted
<1>7. [Delivery!Next]_(Delivery!vars)
  BY <1>2, <1>5 DEF Delivery!Next, Delivery!Promise, Delivery!vars
<1> QED
  BY <1>1, <1>4, <1>6, <1>7 DEF PipelineInv

\* What a step of a consumer does: nothing the abstract state shows, or one
\* promised event is settled.
LEMMA MemberSideStep ==
  ASSUME PipelineInv, NEW m \in Members, MemberStep(m)
  PROVE  PipelineInv' /\ [Delivery!Next]_(Delivery!vars)
<1>1. C!MemberNext(m) /\ UNCHANGED <<row, rid, lastId, seen, relay, locked, unsent, buffer, relayFaults>>
  BY DEF MemberStep, relaySide
<1>2. log' = log
  BY <1>1 DEF C!MemberNext, C!Assign, C!Evict, C!Poll, C!HandleOk, C!HandleFails, C!Commit,
              C!CommitRefused, C!DlqUnreachable, C!CrashMember, C!Dies
<1>3. R!IInv' /\ R!Committed' = R!Committed
  <2>1. UNCHANGED RP!vars
    BY <1>1, <1>2 DEF RP!vars
  <2>2. RP!IInv /\ [RP!Next]_(RP!vars) => RP!IInv'
    BY ComponentAssumptions, RP!NextIInv
  <2>3. R!Committed' = R!Committed
    BY <1>1 DEF R!Committed
  <2> QED
    BY <2>1, <2>2, <2>3, SameRelayState DEF PipelineInv
<1>4. C!IInv'
  BY <1>1, ComponentAssumptions, MemberGroup DEF PipelineInv
<1>5. \/ C!Settled' = C!Settled /\ lost' = lost
      \/ \E e \in R!Committed :
           \/ C!Settled' = C!Settled \cup {e} /\ lost' = lost
           \/ e \in RefusedLetters /\ lost' = lost \cup {e} /\ C!Settled' = C!Settled
  <2>1. CASE C!HandleOk(m) \/ C!HandleFails(m)
    <3>1. stage[m] = "handling"
      BY <2>1 DEF C!HandleOk, C!HandleFails
    <3>2. pos[m] \in 1 .. Len(log) /\ log \in Seq(Events)
      BY <3>1 DEF PipelineInv, C!IInv, C!PositionsSound, C!TypeOK
    <3>3. log[pos[m]] \in R!Committed
      BY <3>2 DEF PipelineInv, R!IInv, R!OnlyCommittedOnLog, R!Entries
    <3>4. \/ C!Settled' = C!Settled \cup {log[pos[m]]} /\ lost' = lost
          \/ /\ log[pos[m]] \in RefusedLetters
             /\ lost' = lost \cup {log[pos[m]]} /\ C!Settled' = C!Settled
      <4>1. CASE C!HandleOk(m)
        BY <4>1 DEF C!HandleOk, C!Settled
      <4>2. CASE C!HandleFails(m) /\ log[pos[m]] \in RefusedLetters
        BY <4>2 DEF C!HandleFails, C!Settled
      <4>3. CASE C!HandleFails(m) /\ log[pos[m]] \notin RefusedLetters
        BY <4>3 DEF C!HandleFails, C!Settled
      <4> QED
        BY <2>1, <4>1, <4>2, <4>3
    <3> QED
      BY <3>3, <3>4
  <2>2. CASE ~ (C!HandleOk(m) \/ C!HandleFails(m))
    BY <2>2, <1>1 DEF C!MemberNext, C!Assign, C!Evict, C!Poll, C!Commit,
              C!CommitRefused, C!DlqUnreachable, C!CrashMember, C!Dies, C!Settled
  <2> QED
    BY <2>1, <2>2
<1>6. SettledWasCommitted'
  BY <1>3, <1>5 DEF PipelineInv, SettledWasCommitted
<1>7. [Delivery!Next]_(Delivery!vars)
  <2>1. R!Committed \subseteq Events
    BY DEF R!Committed
  <2>2. CASE C!Settled' = C!Settled /\ lost' = lost
    BY <2>2, <1>3 DEF Delivery!vars
  <2>3. ASSUME NEW e \in R!Committed, C!Settled' = C!Settled \cup {e}, lost' = lost
        PROVE  [Delivery!Next]_(Delivery!vars)
    <3>1. CASE e \in C!Settled
      BY <3>1, <2>3, <1>3 DEF Delivery!vars
    <3>2. CASE e \notin C!Settled
      BY <3>2, <2>3, <1>3, <2>1 DEF Delivery!Next, Delivery!Settle
    <3> QED
      BY <3>1, <3>2
  <2>4. ASSUME NEW e \in R!Committed, e \in RefusedLetters,
               lost' = lost \cup {e}, C!Settled' = C!Settled
        PROVE  [Delivery!Next]_(Delivery!vars)
    <3>1. CASE e \in lost
      BY <3>1, <2>4, <1>3 DEF Delivery!vars
    <3>2. CASE e \notin lost
      BY <3>2, <2>4, <1>3, <2>1 DEF Delivery!Next, Delivery!Drop
    <3> QED
      BY <3>1, <3>2
  <2> QED
    BY <1>5, <2>2, <2>3, <2>4
<1> QED
  BY <1>3, <1>4, <1>6, <1>7 DEF PipelineInv

LEMMA InitPipeline == Init => PipelineInv /\ Delivery!Init
<1> SUFFICES ASSUME Init PROVE PipelineInv /\ Delivery!Init
  OBVIOUS
<1>1. R!IInv
  BY ComponentAssumptions, RP!InitIInv, SameRelayState DEF Init
<1>2. C!IInv
  BY ComponentAssumptions, InitGroup DEF Init
<1>3. R!Committed = {} /\ C!Settled = {} /\ lost = {}
  BY DEF Init, R!Init, C!Init, R!Committed, C!Settled
<1> QED
  BY <1>1, <1>2, <1>3 DEF PipelineInv, SettledWasCommitted, Delivery!Init

LEMMA NextPipeline ==
  PipelineInv /\ [Next]_vars => PipelineInv' /\ [Delivery!Next]_(Delivery!vars)
<1> SUFFICES ASSUME PipelineInv, [Next]_vars
             PROVE  PipelineInv' /\ [Delivery!Next]_(Delivery!vars)
  OBVIOUS
<1>1. ASSUME NEW e \in Events, TxStep(e)
      PROVE  PipelineInv' /\ [Delivery!Next]_(Delivery!vars)
  BY <1>1, SameTxStep, RelaySideStep DEF TxStep
<1>2. ASSUME NEW r \in Relays, RelayStep(r)
      PROVE  PipelineInv' /\ [Delivery!Next]_(Delivery!vars)
  BY <1>2, SameRelayStep, RelaySideStep DEF RelayStep
<1>3. ASSUME NEW m \in Members, MemberStep(m)
      PROVE  PipelineInv' /\ [Delivery!Next]_(Delivery!vars)
  BY <1>3, MemberSideStep
<1>4. CASE UNCHANGED vars
  <2>1. UNCHANGED <<row, rid, lastId, seen, relay, locked, unsent, buffer, relayFaults, log,
                    offset, owner, stage, pos, applied, dlq, lost, groupFaults>>
    BY <1>4 DEF vars, relaySide, groupSide
  <2>2. R!Committed' = R!Committed /\ C!Settled' = C!Settled /\ lost' = lost
    BY <2>1 DEF R!Committed, C!Settled
  <2>3. R!IInv'
    BY <2>1 DEF PipelineInv, R!IInv, R!TypeOK, R!LocksSound, R!OnlyCommittedBuffered,
                R!OnlyCommittedOnLog, R!HandedOverIsKept, R!PublishedIsOnLog, R!Entries, R!Committed
  <2>4. C!IInv'
    BY <2>1 DEF PipelineInv, C!IInv, C!TypeOK, C!CommittedIsSettled, C!PositionsSound,
                C!HandledIsSettled, C!Settled
  <2> QED
    BY <2>2, <2>3, <2>4 DEF PipelineInv, SettledWasCommitted, Delivery!vars
<1> QED
  BY <1>1, <1>2, <1>3, <1>4 DEF Next

\* No consumer ever acts on, dead-letters or loses a change that did not commit,
\* and only an event whose dead letter Kafka refuses is ever lost.
THEOREM PipelineInvariant == Spec => []PipelineInv
<1>1. PipelineInv /\ [Next]_vars => PipelineInv'
  BY NextPipeline
<1> QED
  BY InitPipeline, <1>1, PTL DEF Spec

\* At-least-once: whatever lies below the committed offset was applied, is a
\* dead letter, or failed and had its dead letter refused, with any number of
\* crashes, evictions and overlapping members.
THEOREM AtLeastOnce == Spec => []CommittedIsSettled
<1>1. PipelineInv => CommittedIsSettled
  BY DEF PipelineInv, C!IInv, CommittedIsSettled
<1> QED
  BY <1>1, PipelineInvariant, PTL

\* run_consumer's "a failing event is logged and published to <topic>.dlq"
\* holds when Kafka refuses no dead letter: the refusal is the only way an
\* event leaves the group without a trace.
THEOREM DeadLetteredUnlessRefused ==
  ASSUME RefusedLetters = {}
  PROVE  Spec => []C!FailedIsDeadLettered
<1>1. PipelineInv => C!FailedIsDeadLettered
  BY DEF PipelineInv, C!IInv, C!TypeOK, C!CommittedIsSettled, C!FailedIsDeadLettered
<1> QED
  BY <1>1, PipelineInvariant, PTL

\* A member only ever works on a message all of whose predecessors are settled,
\* or lost with their refused dead letter.
THEOREM InOrder == Spec => []HandledInOrder
<1>1. PipelineInv => HandledInOrder
  <2> SUFFICES ASSUME C!IInv, NEW m \in Members, stage[m] # "poll", NEW i \in 1 .. pos[m] - 1
               PROVE  log[i] \in C!Settled \cup lost
    BY DEF PipelineInv, HandledInOrder, C!HandledInOrder
  <2>1. i \in 1 .. offset
    BY DEF C!IInv, C!PositionsSound, C!TypeOK
  <2> QED
    BY <2>1 DEF C!IInv, C!CommittedIsSettled
<1> QED
  BY <1>1, PipelineInvariant, PTL

\* A stalled member that wakes up late never rewinds the group.
THEOREM NeverRewound == Spec => OffsetNeverBack
<1>1. PipelineInv /\ [Next]_vars => [offset' >= offset]_vars
  <2> SUFFICES ASSUME PipelineInv, [Next]_vars PROVE offset' >= offset
    OBVIOUS
  <2>1. offset \in Nat
    BY DEF PipelineInv, C!IInv, C!TypeOK
  <2>2. CASE UNCHANGED groupSide
    BY <2>1, <2>2 DEF groupSide
  <2>3. ASSUME NEW m \in Members, MemberStep(m) PROVE offset' >= offset
    BY <2>3, MemberGroup DEF MemberStep, PipelineInv
  <2> QED
    BY <2>2, <2>3 DEF Next, TxStep, RelayStep, vars
<1> QED
  BY <1>1, PipelineInvariant, PTL DEF Spec, OffsetNeverBack

\* The pipeline implements the safety part of the delivery contract: every step
\* promises one committed event, settles one promised event, drops one whose
\* dead letter Kafka refuses, or does none of it.
THEOREM PipelineImplementsDelivery == Spec => ImplementsDelivery
<1>1. PipelineInv /\ [Next]_vars => [Delivery!Next]_(Delivery!vars)
  BY NextPipeline
<1> QED
  BY InitPipeline, <1>1, PipelineInvariant, PTL DEF Spec, ImplementsDelivery, Delivery!Spec

-----------------------------------------------------------------------------
\* Only the relay side hands messages over: a consumer's step leaves the
\* stamps of OutboxRelayProofs as they are.
LEMMA StampedStep == PipelineInv /\ RP!Stamped /\ [Next]_vars => RP!Stamped'
<1> SUFFICES ASSUME PipelineInv, RP!Stamped, [Next]_vars PROVE RP!Stamped'
  OBVIOUS
<1>1. RP!IInv /\ RP!Stamped /\ [RP!Next]_(RP!vars) => RP!Stamped'
  BY ComponentAssumptions, RP!NextStamped
<1>2. [RP!Next]_(RP!vars)
  <2>1. ASSUME NEW e \in Events, TxStep(e) PROVE RP!Next
    BY <2>1, SameTxStep DEF TxStep
  <2>2. ASSUME NEW r \in Relays, RelayStep(r) PROVE RP!Next
    BY <2>2, SameRelayStep DEF RelayStep
  <2>3. ASSUME NEW m \in Members, MemberStep(m) PROVE UNCHANGED RP!vars
    BY <2>3 DEF MemberStep, relaySide, RP!vars, C!MemberNext, C!Assign, C!Evict, C!Poll,
                C!HandleOk, C!HandleFails, C!Commit, C!CommitRefused, C!DlqUnreachable,
                C!CrashMember, C!Dies
  <2>4. CASE UNCHANGED vars
    BY <2>4 DEF vars, relaySide, RP!vars
  <2> QED
    BY <2>1, <2>2, <2>3, <2>4 DEF Next
<1> QED
  BY <1>1, <1>2, SameRelayState DEF PipelineInv

\* "SKIP LOCKED lets several relays run without double-publishing", for the
\* whole pipeline: what the consumers find twice on the topic was paid for by
\* a rollback, a flush timeout or a crash of the relay side.
THEOREM CopiesPaidFor == Spec => []CopiesNeedFaults
<1>1. Init => RP!Stamped
  BY ComponentAssumptions, RP!InitStamped, SameRelayState DEF Init
<1>2. PipelineInv /\ RP!Stamped => CopiesNeedFaults
  <2>1. RP!IInv /\ RP!Stamped => RP!CopiesNeedFaults
    BY ComponentAssumptions, RP!StampsCount
  <2>2. RP!CopiesNeedFaults => R!CopiesNeedFaults
    BY DEF RP!CopiesNeedFaults, RP!CopiesOf, RP!Cardinality,
           R!CopiesNeedFaults, R!CopiesOf, R!Cardinality
  <2> QED
    BY <2>1, <2>2, SameRelayState DEF PipelineInv, CopiesNeedFaults
<1> HIDE DEF CopiesNeedFaults
<1> QED
  BY <1>1, <1>2, StampedStep, PipelineInvariant, PTL DEF Spec
=============================================================================
