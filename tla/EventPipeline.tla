--------------------------- MODULE EventPipeline ---------------------------
(***************************************************************************)
(* The outbox relays and one consumer group around a topic partition: the  *)
(* path of every event of the system, from the transaction that caused it  *)
(* to the consumer that acts on it.  The relays append to the log the      *)
(* consumers read; nothing else is shared.                                 *)
(***************************************************************************)
EXTENDS Integers, Sequences, FiniteSets

CONSTANTS
  Events, Relays, Batch, Refused,   \* see OutboxRelay
  Members, NoOwner, RefusedLetters, \* see ConsumerGroup
  RelayFaults, GroupFaults          \* bounds on the faults of either side

ASSUME RelayAssumption == Batch \in Nat \ {0} /\ Refused \subseteq Events
ASSUME GroupAssumption == NoOwner \notin Members /\ RefusedLetters \subseteq Events
ASSUME FaultAssumption == RelayFaults \in Nat /\ GroupFaults \in Nat

VARIABLES
  row, rid, lastId, seen, relay, locked, unsent, buffer, relayFaults,
  log,
  offset, owner, stage, pos, applied, dlq, lost, groupFaults

relaySide == <<row, rid, lastId, seen, relay, locked, unsent, buffer, relayFaults>>
groupSide == <<offset, owner, stage, pos, applied, dlq, lost, groupFaults>>
vars == <<relaySide, log, groupSide>>

R == INSTANCE OutboxRelay WITH faults <- relayFaults, MaxFaults <- RelayFaults

C == INSTANCE ConsumerGroup WITH faults <- groupFaults, MaxFaults <- GroupFaults

Init == R!Init /\ C!Init

TxStep(e)     == R!TxNext(e) /\ UNCHANGED groupSide
RelayStep(r)  == R!RelayNext(r) /\ UNCHANGED groupSide
MemberStep(m) == C!MemberNext(m) /\ UNCHANGED relaySide

Next ==
  \/ \E e \in Events : TxStep(e)
  \/ \E r \in Relays : RelayStep(r)
  \/ \E m \in Members : MemberStep(m)

Spec == Init /\ [][Next]_vars

FairSpec ==
  /\ Spec
  /\ R!Fairness
  /\ \A m \in Members : C!MemberFairness(m)

-----------------------------------------------------------------------------
\* At-least-once: everything below the committed offset was applied by a
\* handler or is a dead letter, whatever died or was evicted in between; the
\* one exception is an event whose handler failed and whose dead letter Kafka
\* refused for good.
CommittedIsSettled == C!CommittedIsSettled

\* A handler never runs ahead: when one works on a message, all messages
\* before it are settled, or lost with their refused dead letter, also when a
\* stalled member overlaps the new owner.
HandledInOrder == C!HandledInOrder

\* The committed offset never moves back, although a stalled member finishes
\* an old message after the new owner has moved on.
OffsetNeverBack == [][offset' >= offset]_vars

\* Whatever a consumer applied, dead-lettered or lost is the event of a
\* transaction that committed: no consumer acts on a change that was rolled back.
SettledWasCommitted == C!Settled \cup lost \subseteq R!Committed

\* What the refinement rests on, besides the two components' own invariants.
PipelineInv == R!IInv /\ C!IInv /\ SettledWasCommitted

\* "SKIP LOCKED lets several relays run without double-publishing": what the
\* consumers are given twice was paid for by a fault of a relay.
CopiesNeedFaults == R!CopiesNeedFaults

\* The pipeline implements the abstract specification: an event is promised
\* when its outbox row commits, settled when a handler committed or its dead
\* letter arrived, and dropped only with a refused dead letter.
Delivery == INSTANCE EventDelivery
              WITH Droppable <- RefusedLetters,
                   promised <- R!Committed, settled <- C!Settled, dropped <- lost

ImplementsDelivery     == Delivery!Spec
ImplementsFairDelivery == Delivery!FairSpec
=============================================================================
