----------------------------- MODULE Ingestion -----------------------------
(***************************************************************************)
(* The resolver: interactions.raw events become interactions of the graph, *)
(* and the strength of the relationships they touch is recomputed in the   *)
(* same transaction (consumer.handle, Pipeline.process_*, strength).  The  *)
(* nightly workflow recomputes all strengths in one transaction.           *)
(*                                                                         *)
(* A message reaches the system once per account that has a copy of it:    *)
(* its sources raise events on different partitions, whose handlers may    *)
(* run side by side.  Events are delivered at least once.                  *)
(*                                                                         *)
(* An edge between two people carries a score of the interactions of the   *)
(* window they took part in; the model keeps the set of interactions that  *)
(* the stored score was computed from.                                     *)
(***************************************************************************)
EXTENDS Integers, FiniteSets

CONSTANTS
  Sources,    \* rows of sources, one raw event each
  Messages,   \* what they are copies of: (kind, external_id)
  Of,         \* Of[e]: message source e is a copy of
  Before,     \* messages processed before the behaviour begins
  Dropped,    \* automated mail, cancelled or internal meetings
  Persons,    \* people, already resolved
  Internal,   \* those who belong to the fund
  People,     \* People[m]: participants of message m
  Handlers,   \* members of the resolver group
  Night,      \* the nightly recompute_strength activity
  NoSource, NoPair,
  Aging,      \* messages that may leave the window (a bound)
  MaxFaults   \* bound on crashes, failures and premature redeliveries

ASSUME SourcesAssumption == Of \in [Sources -> Messages] /\ NoSource \notin Sources
ASSUME MessagesAssumption ==
  /\ Before \subseteq Messages /\ Dropped \subseteq Messages \ Before
  /\ Internal \subseteq Persons
  /\ People \in [Messages -> SUBSET Persons]
ASSUME SessionsAssumption == Night \notin Handlers
ASSUME BoundsAssumption == Aging \subseteq Messages /\ MaxFaults \in Nat

\* Pairs with a "knows" or "co_occurs" edge: all but two internal people.
Pairs == {{a, b} : a \in Persons, b \in Persons \ Internal} \ {{b} : b \in Persons}

ASSUME NoPairAssumption == NoPair \notin Pairs

Sessions == Handlers \cup {Night}

VARIABLES
  stored,    \* messages with an interactions row
  parts,     \* parts[m]: times the participants of m were inserted
  resolved,  \* resolved[m]: interactions.resolved events for m
  edge,      \* edge[p]: interactions the stored score of p stands for
  aged,      \* messages older than WINDOW_DAYS
  acked,     \* sources whose event is behind the committed offset
  dlq,       \* sources whose event was dead-lettered
  \* the open transaction of a session
  stage,     \* "idle", "handling", "inserted", "writing", "done"
  src,       \* source a handler works on
  seen,      \* interactions its recompute has read
  done,      \* pairs it has upserted, whose rows it holds
  want,      \* pair whose upsert is running
  clash,     \* history: pairs another recompute writes as well
  raced,     \* history: pairs last written by overlapping recomputes
  faults

graphVars   == <<stored, parts, resolved, edge>>
busVars     == <<acked, dlq>>
scoreVars   == <<seen, done, want, clash>>
sessionVars == <<stage, src, seen, done, want, clash>>
vars == <<stored, parts, resolved, edge, aged, acked, dlq,
          stage, src, seen, done, want, clash, raced, faults>>

\* The interactions both people of a pair took part in.
Joint(p) == {m \in Messages : p \subseteq People[m]}

Init ==
  /\ stored = Before
  /\ parts    = [m \in Messages |-> IF m \in Before THEN 1 ELSE 0]
  /\ resolved = parts
  /\ edge     = [p \in Pairs |-> Joint(p) \cap Before]
  /\ aged = {} /\ acked = {} /\ dlq = {}
  /\ stage = [s \in Sessions |-> "idle"]
  /\ src   = [s \in Sessions |-> NoSource]
  /\ seen  = [s \in Sessions |-> {}]
  /\ done  = [s \in Sessions |-> {}]
  /\ want  = [s \in Sessions |-> NoPair]
  /\ clash = [s \in Sessions |-> {}]
  /\ raced = {} /\ faults = 0

Fault == faults < MaxFaults /\ faults' = faults + 1

-----------------------------------------------------------------------------
(* strength.recompute *)

\* The people a recompute is asked about: those of the message, or everyone.
Wanted(s) ==
  IF s = Night \/ People[Of[src[s]]] = {} THEN Persons ELSE People[Of[src[s]]]

\* Of the interactions it can see, the query selects those of somebody wanted.
Selected(s, visible) == {m \in visible : People[m] \cap Wanted(s) # {}}

\* [variant: every pair of a selected interaction is written]
Writes_Partial(s, visible) == {p \in Pairs : Joint(p) \cap Selected(s, visible) # {}}

\* The pairs it writes: those of a selected interaction that are complete.
Writes(s, visible) ==
  {p \in Pairs : Joint(p) \cap Selected(s, visible) # {} /\ p \cap Wanted(s) # {}}

Score(s, p) == Joint(p) \cap Selected(s, seen[s])

Choices(left) == IF left = {} THEN {NoPair} ELSE left

\* The query runs over the committed interactions and the session's own, as far
\* as they are in the window.
Reads(s, own) ==
  LET visible == (stored \cup own) \ aged
      Meets(t) == IF t # s /\ stage[t] = "writing"
                    THEN Writes(s, visible) \cap Writes(t, seen[t]) ELSE {}
  IN  /\ stage' = [stage EXCEPT ![s] = "writing"]
      /\ seen'  = [seen EXCEPT ![s] = visible]
      /\ \E p \in Choices(Writes(s, visible)) : want' = [want EXCEPT ![s] = p]
      /\ clash' = [t \in Sessions |->
                     IF t = s THEN UNION {Meets(u) : u \in Sessions} ELSE clash[t] \cup Meets(t)]
      /\ UNCHANGED <<src, done>>

\* One _upsert_edge, which waits for whoever holds the edge's row.
Upsert(s) ==
  /\ stage[s] = "writing" /\ want[s] # NoPair
  /\ \A t \in Sessions \ {s} : want[s] \notin done[t]
  /\ done' = [done EXCEPT ![s] = @ \cup {want[s]}]
  /\ \E p \in Choices(Writes(s, seen[s]) \ done'[s]) : want' = [want EXCEPT ![s] = p]
  /\ UNCHANGED <<graphVars, aged, busVars, stage, src, seen, clash, raced, faults>>

\* [variant: an edge that exists keeps its props]
Apply_DoNothing(s) ==
  /\ edge'  = [p \in Pairs |-> IF p \in done[s] /\ edge[p] = {} THEN Score(s, p) ELSE edge[p]]
  /\ raced' = (raced \ done[s]) \cup clash[s]

\* [variant: a score is only ever raised]
Apply_Greatest(s) ==
  /\ edge'  = [p \in Pairs |-> IF p \in done[s] THEN edge[p] \cup Score(s, p) ELSE edge[p]]
  /\ raced' = (raced \ done[s]) \cup clash[s]

\* A commit makes the session's scores visible, whatever they overwrite.
Apply(s) ==
  /\ edge'  = [p \in Pairs |-> IF p \in done[s] THEN Score(s, p) ELSE edge[p]]
  /\ raced' = (raced \ done[s]) \cup clash[s]

\* The transaction of a session is over, and a handler's next stage is known.
Closes(s, next) ==
  /\ stage' = [stage EXCEPT ![s] = next]
  /\ seen'  = [seen EXCEPT ![s] = {}]
  /\ done'  = [done EXCEPT ![s] = {}]
  /\ want'  = [want EXCEPT ![s] = NoPair]
  /\ clash' = [clash EXCEPT ![s] = {}]

-----------------------------------------------------------------------------
(* A handler of interactions.raw: consumer.handle and Pipeline.process_*. *)

\* The event of a source is delivered, again if its offset is not committed.
\* Only a consumer that Kafka gave up on can still be working on it.
Deliver(h, e) ==
  /\ stage[h] = "idle" /\ e \notin acked
  /\ IF \E g \in Handlers : stage[g] # "idle" /\ src[g] = e THEN Fault ELSE UNCHANGED faults
  /\ stage' = [stage EXCEPT ![h] = "handling"]
  /\ src'   = [src EXCEPT ![h] = e]
  /\ UNCHANGED <<graphVars, aged, busVars, scoreVars, raced>>

\* Automated mail, cancelled and purely internal meetings: nothing but the people
\* resolved on the way is committed.
Skip(h) ==
  /\ stage[h] = "handling" /\ Of[src[h]] \in Dropped
  /\ Closes(h, "done")
  /\ UNCHANGED <<graphVars, aged, busVars, src, raced, faults>>

\* Another transaction has inserted the interaction and is still open.
InFlight(h) ==
  \E g \in Handlers \ {h} : stage[g] \in {"inserted", "writing"} /\ Of[src[g]] = Of[src[h]]

\* [variant: an interaction being inserted elsewhere counts as existing]
Insert_NoWait(h) ==
  /\ stage[h] = "handling" /\ Of[src[h]] \notin Dropped
  /\ stage' = [stage EXCEPT ![h] =
                 IF Of[src[h]] \in stored \/ InFlight(h) THEN "done" ELSE "inserted"]
  /\ UNCHANGED <<graphVars, aged, busVars, src, scoreVars, raced, faults>>

\* [variant: the interaction is looked up, not inserted ON CONFLICT DO NOTHING]
Insert_Unkeyed(h) ==
  /\ stage[h] = "handling" /\ Of[src[h]] \notin Dropped
  /\ stage' = [stage EXCEPT ![h] = IF Of[src[h]] \in stored THEN "done" ELSE "inserted"]
  /\ UNCHANGED <<graphVars, aged, busVars, src, scoreVars, raced, faults>>

\* INSERT ... ON CONFLICT (tenant_id, kind, external_id) DO NOTHING waits for a
\* transaction inserting the same interaction; one that exists ends the handler.
Insert(h) ==
  /\ stage[h] = "handling" /\ Of[src[h]] \notin Dropped
  /\ ~ InFlight(h)
  /\ stage' = [stage EXCEPT ![h] = IF Of[src[h]] \in stored THEN "done" ELSE "inserted"]
  /\ UNCHANGED <<graphVars, aged, busVars, src, scoreVars, raced, faults>>

\* Participants, attachments and chunks are inserted; _finish recomputes.
Recompute(h) ==
  /\ stage[h] = "inserted"
  /\ Reads(h, {Of[src[h]]})
  /\ UNCHANGED <<graphVars, aged, busVars, raced, faults>>

\* interactions.resolved is enqueued and the transaction commits.
Commit(h) ==
  /\ stage[h] = "writing" /\ want[h] = NoPair
  /\ stored'   = stored \cup {Of[src[h]]}
  /\ parts'    = [parts EXCEPT ![Of[src[h]]] = @ + 1]
  /\ resolved' = [resolved EXCEPT ![Of[src[h]]] = @ + 1]
  /\ Apply(h)
  /\ Closes(h, "done")
  /\ UNCHANGED <<aged, busVars, src, faults>>

\* A failure (the embedding call, the object store, an empty budget) rolls back
\* and the event is dead-lettered.
Fails(h) ==
  /\ stage[h] \in {"handling", "inserted", "writing"} /\ Fault
  /\ Closes(h, "done")
  /\ dlq' = dlq \cup {src[h]}
  /\ UNCHANGED <<graphVars, aged, acked, src, raced>>

\* The offset is committed.
Ack(h) ==
  /\ stage[h] = "done"
  /\ acked' = acked \cup {src[h]}
  /\ stage' = [stage EXCEPT ![h] = "idle"]
  /\ UNCHANGED <<graphVars, aged, dlq, src, scoreVars, raced, faults>>

\* The process dies: what is open rolls back, and the event comes again.
Crash(h) ==
  /\ stage[h] # "idle" /\ Fault
  /\ Closes(h, "idle")
  /\ UNCHANGED <<graphVars, aged, busVars, src, raced>>

-----------------------------------------------------------------------------
(* The nightly recompute (StrengthRecomputeWorkflow). *)

NightReads ==
  /\ stage[Night] = "idle"
  /\ Reads(Night, {})
  /\ UNCHANGED <<graphVars, aged, busVars, raced, faults>>

NightCommits ==
  /\ stage[Night] = "writing" /\ want[Night] = NoPair
  /\ Apply(Night)
  /\ Closes(Night, "idle")
  /\ UNCHANGED <<stored, parts, resolved, aged, busVars, src, faults>>

\* The activity fails or dies; Temporal will run it again.
NightFails ==
  /\ stage[Night] = "writing" /\ Fault
  /\ Closes(Night, "idle")
  /\ UNCHANGED <<graphVars, aged, busVars, src, raced>>

\* Recomputes take row locks in no common order.  PostgreSQL rolls back one of a
\* circle of waiting sessions: a handler's event is dead-lettered for it, the
\* nightly run is repeated.
Deadlocked(s) ==
  \E S \in SUBSET Sessions :
    s \in S /\ S = {t \in Sessions : \E u \in S : want[u] # NoPair /\ want[u] \in done[t] /\ t # u}

Victim(s) ==
  /\ stage[s] = "writing" /\ Deadlocked(s)
  /\ Closes(s, IF s = Night THEN "idle" ELSE "done")
  /\ dlq' = IF s = Night THEN dlq ELSE dlq \cup {src[s]}
  /\ UNCHANGED <<graphVars, aged, acked, src, raced, faults>>

\* WINDOW_DAYS pass for a message.
Age(m) ==
  /\ m \in Aging \ aged
  /\ aged' = aged \cup {m}
  /\ UNCHANGED <<graphVars, busVars, sessionVars, raced, faults>>

-----------------------------------------------------------------------------
HandlerStep(h) ==
  Skip(h) \/ Insert(h) \/ Recompute(h) \/ Upsert(h) \/ Commit(h) \/ Ack(h) \/ Victim(h)

NightStep == NightReads \/ Upsert(Night) \/ NightCommits \/ Victim(Night)

Next ==
  \/ \E h \in Handlers : HandlerStep(h) \/ Fails(h) \/ Crash(h)
  \/ \E h \in Handlers, e \in Sources : Deliver(h, e)
  \/ NightStep \/ NightFails
  \/ \E m \in Messages : Age(m)

Spec == Init /\ [][Next]_vars

\* Consumers poll and handlers return or raise; the workflow runs every night.
FairSpec ==
  /\ Spec
  /\ \A e \in Sources : WF_vars(\E h \in Handlers : Deliver(h, e))
  /\ \A h \in Handlers : WF_vars(HandlerStep(h))
  /\ WF_vars(NightStep)

-----------------------------------------------------------------------------
(* Properties. *)

TypeOK ==
  /\ stored \subseteq Messages
  /\ parts \in [Messages -> Nat] /\ resolved \in [Messages -> Nat]
  /\ edge \in [Pairs -> SUBSET Messages]
  /\ aged \subseteq Messages /\ acked \subseteq Sources /\ dlq \subseteq Sources
  /\ stage \in [Sessions -> {"idle", "handling", "inserted", "writing", "done"}]
  /\ src   \in [Sessions -> Sources \cup {NoSource}]
  /\ seen  \in [Sessions -> SUBSET Messages]
  /\ done  \in [Sessions -> SUBSET Pairs]
  /\ want  \in [Sessions -> Pairs \cup {NoPair}]
  /\ clash \in [Sessions -> SUBSET Pairs]
  /\ raced \subseteq Pairs /\ faults \in Nat

\* "Replaying an event is harmless": however often the events of a message's
\* copies are delivered, by whichever handlers, its participants and its
\* interactions.resolved event are committed with the interaction, once.
OncePerMessage ==
  \A m \in Messages : LET n == IF m \in stored THEN 1 ELSE 0
                      IN  parts[m] = n /\ resolved[m] = n

\* An event is acknowledged only when its message is stored, was meant to be
\* dropped, or the event is dead-lettered: a handler that finds the interaction
\* being inserted elsewhere does not rely on that transaction's success.
AckedIsProcessed ==
  \A e \in acked : Of[e] \in stored \cup Dropped \/ e \in dlq

Fresh(p) == (Joint(p) \cap stored) \ aged

\* A stored score stands for stored interactions of its pair and, unless
\* overlapping recomputes wrote it, for all of them that are in the window,
\* though handlers recompute only the pairs of their own message's people.
ScoresAreComplete ==
  \A p \in Pairs :
    /\ edge[p] \subseteq Joint(p) \cap stored
    /\ p \notin raced => Fresh(p) \subseteq edge[p]

\* The nightly run repairs what overlapping recomputes lost and lets scores
\* decay: once mail and faults cease, the score of a pair with an interaction in
\* the window stands for exactly the window.
NightRepairs == <>[](\A p \in Pairs : Fresh(p) # {} => edge[p] = Fresh(p))

\* The code's comment without that condition: "recency decays even without new
\* interactions", so nothing outside the window counts in the end.
ScoresDecay == <>[](\A p \in Pairs : edge[p] = Fresh(p))

\* The invariant that the once-only properties rest on: a handler that inserted
\* is alone with its message, which is not stored yet.
HandlersSound ==
  /\ \A h \in Handlers : stage[h] # "idle" => src[h] \in Sources
  /\ \A h \in Handlers : stage[h] \in {"inserted", "writing"} =>
       /\ Of[src[h]] \notin stored /\ Of[src[h]] \notin Dropped
       /\ ~ InFlight(h)
  /\ \A h \in Handlers : stage[h] = "done" =>
       Of[src[h]] \in stored \cup Dropped \/ src[h] \in dlq

IInv == TypeOK /\ OncePerMessage /\ AckedIsProcessed /\ HandlersSound

Own(s)     == IF s = Night THEN {} ELSE {Of[src[s]]}
Written(s) == Writes(s, seen[s])

\* What scores rest on: a recompute read committed interactions and its own, and
\* works through all its pairs; the interactions of such a pair are still those it
\* has read, or somebody who writes the pair too has stored another one.
RecomputesSound ==
  \A s \in Sessions :
    /\ stage[s] # "writing" => done[s] = {}
    /\ stage[s] = "writing" =>
         /\ seen[s] \subseteq stored \cup Own(s)
         /\ Own(s) \subseteq seen[s] \cup aged
         /\ done[s] \subseteq Written(s)
         /\ want[s] \in Choices(Written(s) \ done[s])
         /\ \A p \in Written(s) \ clash[s] : Fresh(p) \subseteq seen[s]
         /\ \A t \in Sessions \ {s} : stage[t] = "writing" => Written(s) \cap Written(t) \subseteq clash[s]
=============================================================================
