------------------------------ MODULE Sourcing ------------------------------
(***************************************************************************)
(* One sourcing thesis: its versions, the team's votes, the ranker learned *)
(* from them, and the runs that score companies for the feed.              *)
(*                                                                         *)
(* Users edit the thesis, vote and ask for runs (API routes/sourcing.ts);  *)
(* each request commits with an event.  The sourcing consumer trains and   *)
(* scores (consumer.handle, run.train_for_thesis, run.score_thesis), and   *)
(* the daily workflow scores all active theses.  Edits and votes are of    *)
(* different topics, each in order under the thesis as key; a run asked    *)
(* for by hand has no key and travels on a third partition.  The three are *)
(* consumed side by side, each in order and at least once.                 *)
(*                                                                         *)
(* The feed shows the run that started last, and a run is ranked by the    *)
(* model that was created last; both times are the start of a transaction. *)
(* Which transactions are older than which is all that is kept of them.    *)
(***************************************************************************)
EXTENDS Integers, Sequences, FiniteSets

CONSTANTS
  Users,      \* users who edit the thesis
  Voters,     \* (user, company) pairs that may vote
  Voted,      \* those who have voted for before the behaviour begins
  Workers,    \* members of the sourcing group
  Daily,      \* the daily sourcing_score activity
  MinLabels,  \* MIN_LABELS_FOR_LEARNED
  MaxOps,     \* bound on what users do
  MaxFaults   \* bound on failures, crashes and premature redeliveries

ASSUME NamesAssumption  == Daily \notin Workers /\ Voted \subseteq Voters
ASSUME BoundsAssumption ==
  /\ MinLabels \in Nat \ {0}
  /\ MaxOps \in Nat /\ MaxFaults \in Nat

Sessions == Workers \cup {Daily}
Parts    == {"requested", "feedback", "unkeyed"}

VARIABLES
  version,    \* the greatest of thesis_versions
  active,
  votes,      \* votes[v]: -1, 1, or 0 for no row
  seen,       \* voters whose row holds the features of a score
  model,      \* labels the newest ranker_models row was trained on, {} if none
  feed,       \* version and model of the run the feed shows, version 0 if none
  \* the bus
  queue,      \* queue[p]: events of partition p
  acked,      \* acked[p]: committed offset
  \* sessions
  at,         \* "idle", "collecting", "training", "trained", "scoring", "ranked", "done"
  job,        \* event worked on and what its transaction read
  before,     \* before[s]: sessions whose open transaction began earlier
  late,       \* late[s]: a younger transaction has committed already
  editing,    \* editing[u]: version a PUT has read, 0 if none
  \* history and bounds
  edits,      \* edits that were accepted
  withdrawn,  \* a vote was withdrawn and nobody has voted since
  overtaken,  \* a run asked for by hand was for an older version
  dormant,    \* the thesis has been archived
  lost,       \* an event was dead-lettered
  ops, faults

thesisVars == <<version, active, votes, seen>>
busVars    == <<queue, acked>>
workVars   == <<at, job, before, late>>
histVars   == <<edits, withdrawn, overtaken, dormant, lost, ops, faults>>
vars == <<version, active, votes, seen, model, feed, queue, acked, at, job, before, late,
          editing, edits, withdrawn, overtaken, dormant, lost, ops, faults>>

\* version 0 of a request stands for the current versions of all active theses; a run
\* asked for by hand may collect news of the companies first.
Feedback    == [kind |-> "feedback", version |-> 0]
Requests(v) == [kind |-> "score", version |-> v]
Collects(v) == [kind |-> "collect", version |-> v]
NoJob == [part |-> "feedback", pos |-> 0, event |-> Feedback, labels |-> {}, version |-> 0]

\* The thesis after its first run.
Init ==
  /\ version = 1 /\ active = TRUE
  /\ votes = [v \in Voters |-> IF v \in Voted THEN 1 ELSE 0] /\ seen = Voted
  /\ model = {} /\ feed = [version |-> 1, model |-> {}]
  /\ queue = [p \in Parts |-> <<>>]
  /\ acked = [p \in Parts |-> 0]
  /\ at  = [s \in Sessions |-> "idle"]
  /\ job = [s \in Sessions |-> NoJob]
  /\ before = [s \in Sessions |-> {}]
  /\ late = [s \in Sessions |-> FALSE]
  /\ editing = [u \in Users |-> 0]
  /\ edits = 1
  /\ withdrawn = FALSE /\ overtaken = FALSE /\ dormant = FALSE /\ lost = FALSE
  /\ ops = 0 /\ faults = 0

Fault == faults < MaxFaults /\ faults' = faults + 1

Op == ops < MaxOps /\ ops' = ops + 1

Publish(p, e) == queue' = [queue EXCEPT ![p] = Append(@, e)]

-----------------------------------------------------------------------------
(* Users (routes/sourcing.ts). *)

\* PUT /theses/:id reads max(version) ...
EditReads(u) ==
  /\ editing[u] = 0 /\ Op
  /\ editing' = [editing EXCEPT ![u] = version]
  /\ UNCHANGED <<thesisVars, model, feed, busVars, workVars,
                 edits, withdrawn, overtaken, dormant, lost, faults>>

\* [variant: versions are not unique]
EditWrites_NotUnique(u) ==
  /\ editing[u] # 0
  /\ editing' = [editing EXCEPT ![u] = 0]
  /\ version' = editing[u] + 1
  /\ edits' = edits + 1
  /\ Publish("requested", Requests(version'))
  /\ UNCHANGED <<active, votes, seen, model, feed, acked, workVars,
                 withdrawn, overtaken, dormant, lost, ops, faults>>

\* ... and inserts the next one; UNIQUE (thesis_id, version) fails the request
\* if another has.  The request to score it commits with it.
EditWrites(u) ==
  /\ editing[u] # 0
  /\ editing' = [editing EXCEPT ![u] = 0]
  /\ IF editing[u] = version
       THEN /\ version' = version + 1 /\ edits' = edits + 1
            /\ Publish("requested", Requests(version'))
       ELSE UNCHANGED <<version, edits, queue>>
  /\ UNCHANGED <<active, votes, seen, model, feed, acked, workVars,
                 withdrawn, overtaken, dormant, lost, ops, faults>>

\* PATCH /theses/:id: nothing is scored when a thesis becomes active again.
SetActive(a) ==
  /\ active # a /\ Op
  /\ active' = a /\ dormant' = TRUE
  /\ UNCHANGED <<version, votes, seen, model, feed, busVars, workVars, editing,
                 edits, withdrawn, overtaken, lost, faults>>

\* POST /sourcing/feedback with 1 or -1: the vote, with the features of the
\* company's latest score if it has one, and the event.
Vote(v, vote) ==
  /\ Op
  /\ votes' = [votes EXCEPT ![v] = vote]
  /\ seen' = IF feed.version # 0 THEN seen \cup {v} ELSE seen \ {v}
  /\ withdrawn' = FALSE
  /\ Publish("feedback", Feedback)
  /\ UNCHANGED <<version, active, model, feed, acked, workVars, editing,
                 edits, overtaken, dormant, lost, faults>>

\* With 0 the row is deleted, and no event is raised.
Withdraw(v) ==
  /\ votes[v] # 0 /\ Op
  /\ votes' = [votes EXCEPT ![v] = 0]
  /\ withdrawn' = TRUE
  /\ UNCHANGED <<version, active, seen, model, feed, busVars, workVars, editing,
                 edits, overtaken, dormant, lost, faults>>

\* POST /sourcing/run, of this thesis as it is now or of all: no key.
Run(v) ==
  /\ Op
  /\ \E e \in {Requests(v), Collects(v)} : Publish("unkeyed", e)
  /\ UNCHANGED <<thesisVars, model, feed, acked, workVars, editing,
                 edits, withdrawn, overtaken, dormant, lost, faults>>

\* The outbox relay sends a batch again when it could not mark it: the last events
\* of a partition come a second time, in the same order.
Resend(p) ==
  /\ queue[p] # <<>> /\ Fault
  /\ \E k \in 1 .. Len(queue[p]) :
       queue' = [queue EXCEPT ![p] = @ \o SubSeq(@, k, Len(@))]
  /\ UNCHANGED <<thesisVars, model, feed, acked, workVars, editing,
                 edits, withdrawn, overtaken, dormant, lost, ops>>

-----------------------------------------------------------------------------
(* Transactions, by the time they began. *)

Open(s) == at[s] \in {"training", "scoring", "ranked"}

\* Session s goes from one stage to the next, its old transaction closed.
Closes(s, next) ==
  /\ at' = [at EXCEPT ![s] = next]
  /\ before' = [t \in Sessions |-> IF t = s THEN {} ELSE before[t] \ {s}]

Begins(s, next) ==
  /\ at' = [at EXCEPT ![s] = next]
  /\ before' = [before EXCEPT ![s] = {t \in Sessions \ {s} : Open(t)}]
  /\ late' = [late EXCEPT ![s] = FALSE]

\* Older transactions of the same kind cannot put their rows in front any more.
Overtakes(s, stages) == late' = [t \in Sessions |-> late[t] \/ (t \in before[s] /\ at[t] \in stages)]

-----------------------------------------------------------------------------
(* train_for_thesis and score_thesis. *)

Labels == {<<v, votes[v]>> : v \in {w \in seen : votes[w] # 0}}

\* Enough labels, and both kinds of them.
Trainable(labels) ==
  Cardinality(labels) >= MinLabels /\ {l[2] : l \in labels} = {1, -1}

\* A run is of a version, or of the current one if the thesis is active.
Versions(v) == IF v # 0 THEN {v} ELSE IF active THEN {version} ELSE {}

\* The transaction that scores begins; there may be nothing to score.
Scores(s, v, j) ==
  /\ overtaken' = (overtaken \/ (j.part = "unkeyed" /\ v \in 1 .. version - 1))
  /\ IF Versions(v) = {}
       THEN Closes(s, "done") /\ job' = [job EXCEPT ![s] = j] /\ UNCHANGED late
       ELSE /\ Begins(s, "scoring")
            /\ job' = [job EXCEPT ![s] = [j EXCEPT !.version = CHOOSE w \in Versions(v) : TRUE]]

\* The next event of a partition, again if its offset is not committed.  Only a
\* member that Kafka gave up on can still be working on it.
Deliver(w, p) ==
  /\ at[w] = "idle" /\ acked[p] < Len(queue[p])
  /\ LET pos == acked[p] + 1
         e   == queue[p][pos]
         j   == [NoJob EXCEPT !.part = p, !.pos = pos, !.event = e]
     IN  /\ IF \E x \in Workers : at[x] # "idle" /\ job[x].part = p /\ job[x].pos = pos
              THEN Fault ELSE UNCHANGED faults
         /\ \/ /\ e.kind = "feedback"
               /\ Begins(w, "training")
               /\ job' = [job EXCEPT ![w] = [j EXCEPT !.labels = Labels]]
               /\ UNCHANGED overtaken
            \/ /\ e.kind = "collect"
               /\ Closes(w, "collecting")
               /\ job' = [job EXCEPT ![w] = j]
               /\ UNCHANGED <<late, overtaken>>
            \/ /\ e.kind = "score"
               /\ Scores(w, e.version, j)
  /\ UNCHANGED <<thesisVars, model, feed, busVars, editing,
                 edits, withdrawn, dormant, lost, ops>>

\* News has been collected, in transactions of its own; now the scoring.
Collected(w) ==
  /\ at[w] = "collecting"
  /\ Scores(w, job[w].event.version, job[w])
  /\ UNCHANGED <<thesisVars, model, feed, busVars, editing,
                 edits, withdrawn, dormant, lost, ops, faults>>

\* [variant: the model committed last is the newest]
Train_ByCommit(w) ==
  /\ at[w] = "training"
  /\ IF Trainable(job[w].labels)
       THEN Closes(w, "trained") /\ model' = job[w].labels
       ELSE Closes(w, "done") /\ UNCHANGED model
  /\ Overtakes(w, {"training"})
  /\ UNCHANGED <<thesisVars, feed, busVars, job, editing, histVars>>

\* The model is stored, or there are not enough labels and the event is done.
Train(w) ==
  /\ at[w] = "training"
  /\ IF Trainable(job[w].labels)
       THEN /\ Closes(w, "trained")
            /\ model' = IF late[w] THEN model ELSE job[w].labels
            /\ IF late[w] THEN UNCHANGED late ELSE Overtakes(w, {"training"})
       ELSE Closes(w, "done") /\ UNCHANGED <<model, late>>
  /\ UNCHANGED <<thesisVars, feed, busVars, job, editing, histVars>>

\* A trained ranker is put to use in a transaction of its own.
Rescore(w) ==
  /\ at[w] = "trained"
  /\ Scores(w, 0, job[w])
  /\ UNCHANGED <<thesisVars, model, feed, busVars, editing,
                 edits, withdrawn, dormant, lost, ops, faults>>

\* The thesis has its embedding, and current_ranker reads the newest model.
Rank(s) ==
  /\ at[s] = "scoring"
  /\ at' = [at EXCEPT ![s] = "ranked"]
  /\ job' = [job EXCEPT ![s].labels = model]
  /\ UNCHANGED <<thesisVars, model, feed, busVars, before, late, editing, histVars>>

\* [variant: the feed shows the run that finished last]
Finish_ByCommit(s) ==
  /\ at[s] = "ranked"
  /\ Closes(s, IF s = Daily THEN "idle" ELSE "done")
  /\ feed' = [version |-> job[s].version, model |-> job[s].labels]
  /\ Overtakes(s, {"scoring", "ranked"})
  /\ UNCHANGED <<thesisVars, model, busVars, job, editing, histVars>>

\* The run commits as done with its scores; the feed takes the youngest run.
Finish(s) ==
  /\ at[s] = "ranked"
  /\ Closes(s, IF s = Daily THEN "idle" ELSE "done")
  /\ IF late[s] THEN UNCHANGED <<feed, late>>
       ELSE /\ feed' = [version |-> job[s].version, model |-> job[s].labels]
            /\ Overtakes(s, {"scoring", "ranked"})
  /\ UNCHANGED <<thesisVars, model, busVars, job, editing, histVars>>

\* [variant: the offset committed is one too far]
Ack_OneTooFar(w) ==
  /\ at[w] = "done"
  /\ at' = [at EXCEPT ![w] = "idle"]
  /\ job' = [job EXCEPT ![w] = NoJob]
  /\ acked' = [acked EXCEPT ![job[w].part] = job[w].pos + 1]
  /\ UNCHANGED <<thesisVars, model, feed, queue, before, late, editing, histVars>>

\* The offset is committed, unless the partition has moved on to another member.
Ack(w) ==
  /\ at[w] = "done"
  /\ at' = [at EXCEPT ![w] = "idle"]
  /\ job' = [job EXCEPT ![w] = NoJob]
  /\ acked' = IF acked[job[w].part] < job[w].pos
                THEN [acked EXCEPT ![job[w].part] = job[w].pos] ELSE acked
  /\ UNCHANGED <<thesisVars, model, feed, queue, before, late, editing, histVars>>

\* The handler raises (the model, the gateway, the database): the event is
\* dead-lettered.  What an earlier transaction of it committed stays.
Fails(w) ==
  /\ at[w] \in {"collecting", "training", "trained", "scoring", "ranked"} /\ Fault
  /\ Closes(w, "done")
  /\ lost' = TRUE
  /\ UNCHANGED <<thesisVars, model, feed, busVars, job, late, editing,
                 edits, withdrawn, overtaken, dormant, ops>>

Crash(w) ==
  /\ at[w] # "idle" /\ Fault
  /\ Closes(w, "idle")
  /\ job' = [job EXCEPT ![w] = NoJob]
  /\ UNCHANGED <<thesisVars, model, feed, busVars, late, editing,
                 edits, withdrawn, overtaken, dormant, lost, ops>>

\* The daily workflow scores what is active.
DailyScores ==
  /\ at[Daily] = "idle" /\ active
  /\ Scores(Daily, 0, NoJob)
  /\ UNCHANGED <<thesisVars, model, feed, busVars, editing,
                 edits, withdrawn, dormant, lost, ops, faults>>

DailyFails ==
  /\ Open(Daily) /\ Fault
  /\ Closes(Daily, "idle")
  /\ UNCHANGED <<thesisVars, model, feed, busVars, job, late, editing,
                 edits, withdrawn, overtaken, dormant, lost, ops>>

-----------------------------------------------------------------------------
WorkerStep(w) == Collected(w) \/ Train(w) \/ Rescore(w) \/ Rank(w) \/ Finish(w) \/ Ack(w)

UserNext ==
  \/ \E u \in Users : EditReads(u) \/ EditWrites(u)
  \/ \E a \in BOOLEAN : SetActive(a)
  \/ \E v \in Voters : Vote(v, 1) \/ Vote(v, -1) \/ Withdraw(v)
  \/ \E v \in {0, version} : Run(v)

WorkNext ==
  \/ \E w \in Workers : WorkerStep(w) \/ Fails(w) \/ Crash(w)
  \/ \E w \in Workers, p \in Parts : Deliver(w, p)
  \/ \E p \in Parts : Resend(p)
  \/ DailyScores \/ DailyFails \/ Rank(Daily) \/ Finish(Daily)

Next == UserNext \/ WorkNext

Spec == Init /\ [][Next]_vars

\* Consumers poll and handlers return or raise.  Nothing is asked of the daily
\* run: what is shown must not depend on it.
FairSpec ==
  /\ Spec
  /\ \A p \in Parts : WF_vars(\E w \in Workers : Deliver(w, p))
  /\ \A w \in Workers : WF_vars(WorkerStep(w))

-----------------------------------------------------------------------------
(* Properties. *)

LabelSets == SUBSET (Voters \X {-1, 1})

\* The values the variables take; an offset is never ahead of its partition.
TypeOK ==
  /\ version \in Nat \ {0} /\ active \in BOOLEAN
  /\ votes \in [Voters -> {-1, 0, 1}] /\ seen \subseteq Voters
  /\ model \in LabelSets
  /\ feed.version \in 0 .. version /\ feed.model \in LabelSets
  /\ \A p \in Parts : acked[p] \in 0 .. Len(queue[p])
  /\ at \in [Sessions -> {"idle", "collecting", "training", "trained", "scoring", "ranked", "done"}]
  /\ \A u \in Users : editing[u] \in 0 .. version

\* "A thesis is edited by creating a new version": every edit that was accepted is
\* a version of its own, however edits interleave.
EditsAreVersions == version = edits

\* What `before` keeps is an order of the open transactions: of any two one is the
\* older, and who is older than the older is older.
AgesOrdered ==
  \A s, t \in Sessions : Open(s) /\ Open(t) =>
    /\ before[s] \subseteq {u \in Sessions : Open(u)}
    /\ s \notin before[s]
    /\ s # t => (s \in before[t] <=> t \notin before[s])
    /\ s \in before[t] => before[s] \subseteq before[t]

Inv == TypeOK /\ EditsAreVersions /\ AgesOrdered

\* Once edits and votes cease, the feed shows the version of the last edit, through
\* redelivered and repeated events, slow runs, rescorings after votes that run beside
\* it and daily runs that began before the edit; but for a dead-lettered event and a
\* run asked for by hand before the edit that came to its turn after it.
FeedSettles == <>[](feed.version = version \/ lost \/ overtaken)

\* And the newest model has learned from the votes there are, if they suffice; but
\* for a dead-lettered event and a vote withdrawn since, which raises no event.
ModelSettles == <>[](Trainable(Labels) => model = Labels \/ lost \/ withdrawn)

\* And the feed is ranked by the newest model, also when the scoring of an edit loaded
\* an older one and ends after the rescoring that followed the training; but for a dead-lettered event, a
\* thesis that was archived, and labels that suffice no more: when a crash comes
\* between training and scoring, the repetition then stops short of scoring.
FeedUsesModel == <>[](Trainable(Labels) => feed.model = model \/ lost \/ dormant)

-----------------------------------------------------------------------------
(* The strengthening that makes the safety properties inductive. *)

\* The values the rest of the state takes.
Shapes ==
  /\ queue \in [Parts -> Seq([kind : {"feedback", "score", "collect"}, version : Nat])]
  /\ acked \in [Parts -> Nat]
  /\ job \in [Sessions -> [part : Parts, pos : Nat, event : [kind : {"feedback", "score", "collect"}, version : Nat],
                          labels : LabelSets, version : Nat]]
  /\ before \in [Sessions -> SUBSET Sessions] /\ late \in [Sessions -> BOOLEAN]
  /\ editing \in [Users -> Nat]
  /\ feed \in [version : Nat, model : LabelSets]

\* Only versions that exist are asked for, however old the request is.
RequestsExist == \A p \in Parts : \A i \in 1 .. Len(queue[p]) : queue[p][i].version <= version

\* A session works on an event of its partition, and on a version that exists.
JobsSound ==
  /\ \A s \in Sessions : job[s].version <= version /\ job[s].event.version <= version
  /\ \A w \in Workers : at[w] # "idle" => job[w].pos <= Len(queue[job[w].part])

IInv == Inv /\ Shapes /\ RequestsExist /\ JobsSound
=============================================================================
