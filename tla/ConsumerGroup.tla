--------------------------- MODULE ConsumerGroup ---------------------------
(***************************************************************************)
(* A consumer group on one topic partition: KafkaBus.consume wrapped by    *)
(* run_consumer (packages/pycore/.../adapters/bus.py), as the resolver,    *)
(* extraction, sourcing and Slack consumers use it.                        *)
(*                                                                         *)
(* Auto-commit is off: a member polls one message, runs the handler, and   *)
(* commits the message's offset.  A failing handler sends the event to the *)
(* dead-letter topic and counts as done, also when Kafka refuses the dead  *)
(* letter for good: produce() is given no delivery callback.  The broker   *)
(* takes the partition from a member that dies or whose handler outlasts   *)
(* the poll interval; that member keeps running its handler, and its       *)
(* commit is then refused, which ends the process.                         *)
(*                                                                         *)
(* Producers append to the log as they like, the same event more than once *)
(* too: EventPipeline puts the outbox relays there.                        *)
(***************************************************************************)
EXTENDS Integers, Sequences, FiniteSets

CONSTANTS
  Events,          \* events that producers append to the partition
  RefusedLetters,  \* events whose dead letter Kafka rejects for good
  Members,         \* consumer processes of the group
  NoOwner,         \* the partition is assigned to nobody
  MaxFaults        \* bound on crashes, evictions and unreachable DLQs

VARIABLES
  log,       \* the partition
  offset,    \* committed offset: log[1 .. offset] is done for the group
  owner,     \* member the partition is assigned to, or NoOwner
  stage,     \* stage[m]: "poll", "handling", "handled"
  pos,       \* pos[m]: index m will poll, or of the message it works on
  applied,   \* events some handler transaction committed
  dlq,       \* events on the dead-letter topic
  lost,      \* events a failed handler gave up without a dead letter (history)
  faults     \* faults so far

memberVars == <<offset, owner, stage, pos, applied, dlq, lost>>
vars == <<log, offset, owner, stage, pos, applied, dlq, lost, faults>>

Settled == applied \cup dlq

Init ==
  /\ log     = <<>>
  /\ offset  = 0
  /\ owner   = NoOwner
  /\ stage   = [m \in Members |-> "poll"]
  /\ pos     = [m \in Members |-> 1]
  /\ applied = {}
  /\ dlq     = {}
  /\ lost    = {}
  /\ faults  = 0

-----------------------------------------------------------------------------
\* Variant of Assign: a new owner starts at the end of the partition.
Assign_FromEnd(m) ==
  /\ owner = NoOwner /\ stage[m] = "poll"
  /\ owner' = m
  /\ pos'   = [pos EXCEPT ![m] = Len(log) + 1]
  /\ UNCHANGED <<log, offset, stage, applied, dlq, lost, faults>>

\* The group coordinator assigns the free partition to a member that polls;
\* the member starts at the committed offset.
Assign(m) ==
  /\ owner = NoOwner
  /\ stage[m] = "poll"
  /\ owner' = m
  /\ pos'   = [pos EXCEPT ![m] = offset + 1]
  /\ UNCHANGED <<log, offset, stage, applied, dlq, lost, faults>>

\* The handler of m outlasts the poll interval: the coordinator takes the
\* partition away while m keeps working.
Evict(m) ==
  /\ owner = m
  /\ stage[m] # "poll"
  /\ faults < MaxFaults
  /\ faults' = faults + 1
  /\ owner'  = NoOwner
  /\ UNCHANGED <<log, offset, stage, pos, applied, dlq, lost>>

\* consumer.poll returns a message, and the handler starts.
Poll(m) ==
  /\ owner = m
  /\ stage[m] = "poll"
  /\ pos[m] <= Len(log)
  /\ stage' = [stage EXCEPT ![m] = "handling"]
  /\ UNCHANGED <<log, offset, owner, pos, applied, dlq, lost, faults>>

\* The handler's database transaction commits.
HandleOk(m) ==
  /\ stage[m] = "handling"
  /\ applied' = applied \cup {log[pos[m]]}
  /\ stage'   = [stage EXCEPT ![m] = "handled"]
  /\ UNCHANGED <<log, offset, owner, pos, dlq, lost, faults>>

\* Variants of HandleFails: the error is only logged, or the event retried.
HandleFails_Dropped(m) ==
  /\ stage[m] = "handling"
  /\ stage' = [stage EXCEPT ![m] = "handled"]
  /\ UNCHANGED <<log, offset, owner, pos, applied, dlq, lost, faults>>
HandleFails_Retried(m) ==
  /\ stage[m] = "handling"
  /\ stage' = [stage EXCEPT ![m] = "poll"]
  /\ UNCHANGED <<log, offset, owner, pos, applied, dlq, lost, faults>>

\* The handler raises: its transaction rolls back, and the event is published
\* to <topic>.dlq and flushed.  A letter that Kafka refuses for good leaves
\* the producer like a delivered one, so the flush returns as well.
HandleFails(m) ==
  /\ stage[m] = "handling"
  /\ dlq'   = dlq \cup ({log[pos[m]]} \ RefusedLetters)
  /\ lost'  = lost \cup ({log[pos[m]]} \cap RefusedLetters)
  /\ stage' = [stage EXCEPT ![m] = "handled"]
  /\ UNCHANGED <<log, offset, owner, pos, applied, faults>>

\* consumer.commit, synchronous: only the member the partition is assigned to
\* may commit.
Commit(m) ==
  /\ stage[m] = "handled"
  /\ owner = m
  /\ offset' = pos[m]
  /\ pos'    = [pos EXCEPT ![m] = @ + 1]
  /\ stage'  = [stage EXCEPT ![m] = "poll"]
  /\ UNCHANGED <<log, owner, applied, dlq, lost, faults>>

\* Variant of CommitRefused: the broker takes a stale member's commit.
CommitRefused_Accepted(m) ==
  /\ stage[m] = "handled" /\ owner # m
  /\ offset' = pos[m]
  /\ stage'  = [stage EXCEPT ![m] = "poll"]
  /\ UNCHANGED <<log, owner, pos, applied, dlq, lost, faults>>

\* The commit of a member that lost the partition raises; the exception leaves
\* consume, and the process is restarted.
CommitRefused(m) ==
  /\ stage[m] = "handled"
  /\ owner # m
  /\ stage' = [stage EXCEPT ![m] = "poll"]
  /\ UNCHANGED <<log, offset, owner, pos, applied, dlq, lost, faults>>

Dies(m) ==
  /\ faults < MaxFaults
  /\ faults' = faults + 1
  /\ stage'  = [stage EXCEPT ![m] = "poll"]
  /\ owner'  = IF owner = m THEN NoOwner ELSE owner
  /\ UNCHANGED <<log, offset, pos, applied, dlq, lost>>

\* The handler raises and flushing the dead letter raises too: the exception
\* leaves consume before the commit.
DlqUnreachable(m) == stage[m] = "handling" /\ Dies(m)

\* The process dies between two steps.
CrashMember(m) == (owner = m \/ stage[m] # "poll") /\ Dies(m)

-----------------------------------------------------------------------------
MemberNext(m) ==
  \/ Assign(m) \/ Evict(m) \/ Poll(m) \/ HandleOk(m) \/ HandleFails(m)
  \/ Commit(m) \/ CommitRefused(m) \/ DlqUnreachable(m) \/ CrashMember(m)

\* A consumer process loops, is restarted when it ends, and its handlers
\* return; the coordinator hands a free partition out.
MemberFairness(m) ==
  /\ WF_vars(Assign(m))
  /\ WF_vars(Poll(m))
  /\ WF_vars(HandleOk(m) \/ HandleFails(m))
  /\ WF_vars(Commit(m) \/ CommitRefused(m))

-----------------------------------------------------------------------------
(* Properties. *)

TypeOK ==
  /\ log     \in Seq(Events)
  /\ offset  \in Nat
  /\ owner   \in Members \cup {NoOwner}
  /\ stage   \in [Members -> {"poll", "handling", "handled"}]
  /\ pos     \in [Members -> Nat \ {0}]
  /\ applied \subseteq Events
  /\ dlq     \subseteq Events
  /\ lost    \subseteq RefusedLetters
  /\ faults  \in 0 .. MaxFaults

\* At-least-once: everything below the committed offset was applied by a
\* handler or is a dead letter, whatever died or was evicted in between; the
\* one exception is an event whose handler failed and whose dead letter Kafka
\* refused for good.
CommittedIsSettled ==
  /\ offset <= Len(log)
  /\ \A i \in 1 .. offset : log[i] \in Settled \cup lost

\* A handler never runs ahead: when one works on a message, all messages
\* before it are settled, or lost with their refused dead letter, also when a
\* stalled member overlaps the new owner.
HandledInOrder ==
  \A m \in Members : stage[m] # "poll" =>
    \A i \in 1 .. pos[m] - 1 : log[i] \in Settled \cup lost

\* What run_consumer's docstring says: "a failing event is logged and
\* published to <topic>.dlq".  The code breaks it for a refused dead letter.
FailedIsDeadLettered == \A i \in 1 .. offset : log[i] \in Settled

-----------------------------------------------------------------------------
(* The strengthening that makes the invariants inductive. *)

\* The owner works right behind the committed offset; nobody is ahead of it.
PositionsSound ==
  \A m \in Members :
    /\ owner = m => pos[m] = offset + 1
    /\ stage[m] # "poll" => pos[m] <= offset + 1 /\ pos[m] <= Len(log)

\* Whoever is about to commit has settled its message, or lost its letter.
HandledIsSettled ==
  \A m \in Members : stage[m] = "handled" => log[pos[m]] \in Settled \cup lost

IInv ==
  /\ TypeOK
  /\ CommittedIsSettled
  /\ PositionsSound
  /\ HandledIsSettled
=============================================================================
