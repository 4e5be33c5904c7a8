---------------------------- MODULE EntityMerge ----------------------------
(***************************************************************************)
(* Entity resolution while people review it: transactions that resolve     *)
(* mentions (resolver er.Resolver, called by the resolver, the CRM import  *)
(* and sourcing) next to transactions that decide review-queue items       *)
(* (er_decide and merge_entities in migration 0002).                       *)
(*                                                                         *)
(* PostgreSQL runs them READ COMMITTED: a statement sees what was          *)
(* committed when it started, what a transaction writes is seen by others  *)
(* when it commits, rows it has written or locked are locked until then,   *)
(* and an insert waits for an uncommitted one of the same unique key.      *)
(* Here a transaction is a session tx[s] stepping statement by statement;  *)
(* its writes are kept in tx[s] and applied when it commits.               *)
(*                                                                         *)
(* Entities are numbered in the order their transactions commit.  A        *)
(* mention is an email, or a company's domain; what a merge moves of all   *)
(* that refers to the entity it resolved to (participants, users, people   *)
(* and deals of a company, edges) is one pair <<email, entity>>.  The rows *)
(* sourcing keeps of a company (observations, scores, votes), which came   *)
(* after merge_entities and which it does not move, are apart in observed. *)
(* A review-queue item is kept at its provisional entity, for which        *)
(* Resolver queues at most one.                                            *)
(***************************************************************************)
EXTENDS Integers, FiniteSets

CONSTANTS
  Emails,     \* identifier values
  Sourced,    \* those that sourcing resolves, to record observations
  Sessions,   \* transactions that may be open at the same time
  MaxEnts     \* bound on the entities created

ASSUME BoundAssumption   == MaxEnts \in Nat
ASSUME SourcedAssumption == Sourced \subseteq Emails

VARIABLES
  made,       \* entities committed: 1 .. made
  parent,     \* parent[e]: entities.merged_into, 0 for NULL
  owner,      \* owner[k]: identifiers.entity_id of email k, 0 for no row
  mentions,   \* <<email, entity>> pairs on record
  observed,   \* entities that sourcing's rows name
  verdict,    \* verdict[e]: status of e's review item, "none" without one
  cand,       \* cand[e]: candidate_entity_id of e's review item
  tx          \* tx[s]: the transaction session s has open

vars == <<made, parent, owner, mentions, observed, verdict, cand, tx>>

Ents == 1 .. MaxEnts

Places == {"idle",
           "matching", "adding", "saving",                              \* Resolver
           "checking", "moving", "attaching", "redirecting", "merging"} \* er_decide

\* key, how, claims: the email resolved, whether to link target, queue a pair
\* with it or create only, and whether the identifiers row went in.
\* from, target: the pair merged; ids, moved, rows: the identifiers, mentions
\* and review items the merge has written.
Transactions ==
  [at : Places, key : Emails, how : {"link", "queue", "new"}, claims : BOOLEAN,
   from : 0 .. MaxEnts, target : 0 .. MaxEnts,
   ids : SUBSET Emails, moved : SUBSET (Emails \X Ents), rows : SUBSET Ents]

Closed(k) ==
  [at |-> "idle", key |-> k, how |-> "new", claims |-> FALSE, from |-> 0, target |-> 0,
   ids |-> {}, moved |-> {}, rows |-> {}]

Init ==
  /\ made = 0
  /\ parent   = [e \in Ents |-> 0]
  /\ owner    = [k \in Emails |-> 0]
  /\ mentions = {}
  /\ observed = {}
  /\ verdict  = [e \in Ents |-> "none"]
  /\ cand     = [e \in Ents |-> 0]
  /\ \E k \in Emails : tx = [s \in Sessions |-> Closed(k)]

Live(e) == e \in 1 .. made /\ parent[e] = 0

\* _follow_merges: at most ten hops along merged_into.
FollowMerges(e) ==
  LET up == [f \in Ents |-> IF parent[f] = 0 THEN f ELSE parent[f]]
      after[n \in 0 .. 10] == IF n = 0 THEN e ELSE up[after[n - 1]]
  IN  after[10]

Steps(s, from, to) == tx[s].at = from /\ tx' = [tx EXCEPT ![s].at = to]

Closes(s) == tx' = [tx EXCEPT ![s] = Closed(tx[s].key)]

-----------------------------------------------------------------------------
(* Resolving a mention. *)

\* _by_identifier: an email on file resolves to its entity, or to the one that
\* was merged into; otherwise look for similar entities.
Lookup(s, k) ==
  /\ tx[s].at = "idle"
  /\ \/ /\ owner[k] # 0
        /\ \E e \in 1 .. made :
             /\ e = FollowMerges(owner[k])
             /\ tx' = [tx EXCEPT ![s] = [Closed(k) EXCEPT !.at = "saving", !.how = "link", !.target = e]]
     \/ /\ owner[k] = 0
        /\ tx' = [tx EXCEPT ![s] = [Closed(k) EXCEPT !.at = "matching"]]
  /\ UNCHANGED <<made, parent, owner, mentions, observed, verdict, cand>>

\* _best_person_match: the best of the live entities is similar enough to link,
\* only to queue for review, or not at all.
Match(s) ==
  /\ tx[s].at = "matching"
  /\ \/ \E e \in 1 .. made, how \in {"link", "queue"} :
          /\ Live(e)
          /\ tx' = [tx EXCEPT ![s].at = "adding", ![s].how = how, ![s].target = e]
     \/ tx' = [tx EXCEPT ![s].at = "adding", ![s].how = "new"]
  /\ UNCHANGED <<made, parent, owner, mentions, observed, verdict, cand>>

Claiming(s, k) == tx[s].claims /\ tx[s].key = k

\* add_identifier: wait for an uncommitted row of this email, then insert
\* unless there is one; the entity is the cached answer either way.
AddIdentifier(s) ==
  /\ tx[s].at = "adding"
  /\ \A o \in Sessions \ {s} : ~ Claiming(o, tx[s].key)
  /\ tx' = [tx EXCEPT ![s].at = "saving", ![s].claims = (owner[tx[s].key] = 0)]
  /\ UNCHANGED <<made, parent, owner, mentions, observed, verdict, cand>>

\* [variant: a pair queued for review leaves its mention on the candidate]
ResolveCommit_OnCandidate(s) ==
  LET t == tx[s]
      e == IF t.how = "link" THEN t.target ELSE made + 1
  IN  /\ t.at = "saving"
      /\ e <= MaxEnts
      /\ made'     = IF t.how = "link" THEN made ELSE e
      /\ owner'    = IF t.claims THEN [owner EXCEPT ![t.key] = e] ELSE owner
      /\ mentions' = mentions \cup {<<t.key, IF t.how = "queue" THEN t.target ELSE e>>}
      /\ observed' = observed \cup {d \in {e} : t.key \in Sourced}
      /\ IF t.how = "queue"
           THEN /\ verdict' = [verdict EXCEPT ![e] = "pending"]
                /\ cand'    = [cand EXCEPT ![e] = t.target]
           ELSE UNCHANGED <<verdict, cand>>
      /\ Closes(s)
      /\ UNCHANGED parent

\* The rest of the transaction: a new entity unless one was linked, its review
\* item if it is provisional, and the rows that refer to what was resolved.
ResolveCommit(s) ==
  LET t == tx[s]
      e == IF t.how = "link" THEN t.target ELSE made + 1
  IN  /\ t.at = "saving"
      /\ e <= MaxEnts
      /\ made'     = IF t.how = "link" THEN made ELSE e
      /\ owner'    = IF t.claims THEN [owner EXCEPT ![t.key] = e] ELSE owner
      /\ mentions' = mentions \cup {<<t.key, e>>}
      /\ observed' = observed \cup {d \in {e} : t.key \in Sourced}
      /\ IF t.how = "queue"
           THEN /\ verdict' = [verdict EXCEPT ![e] = "pending"]
                /\ cand'    = [cand EXCEPT ![e] = t.target]
           ELSE UNCHANGED <<verdict, cand>>
      /\ Closes(s)
      /\ UNCHANGED parent

-----------------------------------------------------------------------------
(* Deciding a review item. *)

LockedBy(s, e) == e \in tx[s].rows

\* [variant: the item is read without FOR UPDATE]
DecideMerged_NoLock(s, e) ==
  /\ tx[s].at = "idle"
  /\ verdict[e] = "pending"
  /\ tx' = [tx EXCEPT ![s].at = "checking", ![s].from = e, ![s].target = cand[e]]
  /\ UNCHANGED <<made, parent, owner, mentions, observed, verdict, cand>>

\* er_decide('merged'): lock the item, see that it is pending, mark it merged
\* and enter merge_entities.
DecideMerged(s, e) ==
  /\ tx[s].at = "idle"
  /\ \A o \in Sessions : ~ LockedBy(o, e)
  /\ verdict[e] = "pending"
  /\ tx' = [tx EXCEPT ![s].at = "checking", ![s].from = e, ![s].target = cand[e], ![s].rows = {e}]
  /\ UNCHANGED <<made, parent, owner, mentions, observed, verdict, cand>>

\* er_decide('distinct'): the same lock and check, and nothing to merge.
DecideDistinct(s, e) ==
  /\ tx[s].at = "idle"
  /\ \A o \in Sessions : ~ LockedBy(o, e)
  /\ verdict[e] = "pending"
  /\ verdict' = [verdict EXCEPT ![e] = "distinct"]
  /\ UNCHANGED <<made, parent, owner, mentions, observed, cand, tx>>

\* Both entities must be there and live; the function raises otherwise, and
\* the decision is rolled back.
Check(s) ==
  /\ tx[s].at = "checking"
  /\ \/ Live(tx[s].from) /\ Live(tx[s].target) /\ tx' = [tx EXCEPT ![s].at = "moving"]
     \/ ~ (Live(tx[s].from) /\ Live(tx[s].target)) /\ Closes(s)
  /\ UNCHANGED <<made, parent, owner, mentions, observed, verdict, cand>>

\* UPDATE identifiers: the rows of the entity that this statement sees.
MoveIdentifiers(s) ==
  /\ tx[s].at = "moving"
  /\ tx' = [tx EXCEPT ![s].at = "attaching", ![s].ids = {k \in Emails : owner[k] = tx[s].from}]
  /\ UNCHANGED <<made, parent, owner, mentions, observed, verdict, cand>>

\* [variant: the rows that refer to the merged entity are left where they are]
MoveMentions_Skipped(s) ==
  /\ tx[s].at = "attaching"
  /\ tx' = [tx EXCEPT ![s].at = "redirecting"]
  /\ UNCHANGED <<made, parent, owner, mentions, observed, verdict, cand>>

\* UPDATE of participants, users, people, deals and edges, likewise.
MoveMentions(s) ==
  /\ tx[s].at = "attaching"
  /\ tx' = [tx EXCEPT ![s].at = "redirecting",
                      ![s].moved = {m \in mentions : m[2] = tx[s].from}]
  /\ UNCHANGED <<made, parent, owner, mentions, observed, verdict, cand>>

\* Pending items that name the merged entity as candidate.
Affected(s) == {e \in Ents : verdict[e] = "pending" /\ cand[e] = tx[s].from}

\* [variant: pending items keep the merged entity as their candidate]
RedirectReviews_Skipped(s) == Steps(s, "redirecting", "merging")
  /\ UNCHANGED <<made, parent, owner, mentions, observed, verdict, cand>>

\* [variant: items that other decisions hold are written without waiting]
RedirectReviews_NoWait(s) ==
  /\ tx[s].at = "redirecting"
  /\ tx' = [tx EXCEPT ![s].at = "merging", ![s].rows = @ \cup Affected(s)]
  /\ UNCHANGED <<made, parent, owner, mentions, observed, verdict, cand>>

\* UPDATE er_candidates: wait for the items that other decisions hold.
RedirectReviews(s) ==
  /\ tx[s].at = "redirecting"
  /\ \A o \in Sessions \ {s} : tx[o].rows \cap Affected(s) = {}
  /\ tx' = [tx EXCEPT ![s].at = "merging", ![s].rows = @ \cup Affected(s)]
  /\ UNCHANGED <<made, parent, owner, mentions, observed, verdict, cand>>

\* [variant: the surviving entity is merged into the provisional one]
MergeCommit_Reversed(s) ==
  LET t == tx[s] IN
  /\ t.at = "merging"
  /\ parent'   = [parent EXCEPT ![t.target] = t.from]
  /\ owner'    = [k \in Emails |-> IF k \in t.ids THEN t.target ELSE owner[k]]
  /\ mentions' = (mentions \ t.moved) \cup {<<m[1], t.target>> : m \in t.moved}
  /\ verdict'  = [verdict EXCEPT ![t.from] = "merged"]
  /\ cand'     = [e \in Ents |-> IF e \in t.rows \ {t.from} THEN t.target ELSE cand[e]]
  /\ Closes(s)
  /\ UNCHANGED <<made, observed>>

\* merged_into is set and the transaction commits.  Items between the pair
\* itself are closed as distinct, the other affected ones name the survivor.
\* No statement of merge_entities touches what sourcing keeps of a company.
MergeCommit(s) ==
  LET t == tx[s] IN
  /\ t.at = "merging"
  /\ parent'   = [parent EXCEPT ![t.from] = t.target]
  /\ owner'    = [k \in Emails |-> IF k \in t.ids THEN t.target ELSE owner[k]]
  /\ mentions' = (mentions \ t.moved) \cup {<<m[1], t.target>> : m \in t.moved}
  /\ verdict'  = [e \in Ents |-> IF e = t.from THEN "merged"
                                 ELSE IF e \in t.rows /\ e = t.target THEN "distinct"
                                 ELSE verdict[e]]
  /\ cand'     = [e \in Ents |-> IF e \in t.rows \ {t.from, t.target} THEN t.target ELSE cand[e]]
  /\ Closes(s)
  /\ UNCHANGED <<made, observed>>

\* Any transaction may fail before it commits: an error, a lost connection.
Rollback(s) ==
  /\ tx[s].at # "idle"
  /\ Closes(s)
  /\ UNCHANGED <<made, parent, owner, mentions, observed, verdict, cand>>

-----------------------------------------------------------------------------
ResolverNext(s) ==
  \/ \E k \in Emails : Lookup(s, k)
  \/ Match(s) \/ AddIdentifier(s) \/ ResolveCommit(s)

ReviewNext(s) ==
  \/ \E e \in Ents : DecideMerged(s, e) \/ DecideDistinct(s, e)
  \/ Check(s) \/ MoveIdentifiers(s) \/ MoveMentions(s) \/ RedirectReviews(s) \/ MergeCommit(s)

Next == \E s \in Sessions : ResolverNext(s) \/ ReviewNext(s) \/ Rollback(s)

Spec == Init /\ [][Next]_vars

-----------------------------------------------------------------------------
(* Properties. *)

TypeOK ==
  /\ made     \in 0 .. MaxEnts
  /\ parent   \in [Ents -> 0 .. MaxEnts]
  /\ owner    \in [Emails -> 0 .. MaxEnts]
  /\ mentions \subseteq Emails \X Ents
  /\ observed \subseteq Ents
  /\ verdict  \in [Ents -> {"none", "pending", "merged", "distinct"}]
  /\ cand     \in [Ents -> 0 .. MaxEnts]
  /\ tx       \in [Sessions -> Transactions]

\* Merges always lead to an older entity, so following merged_into ends, in a
\* live entity, and no two reviews can merge entities into each other.
MergesPointBack == \A e \in Ents : parent[e] # 0 => parent[e] < e

\* An entity is merged exactly when a reviewer decided so: a decision is never
\* half done, taken back or taken twice.
DecisionsMatchMerges == \A e \in Ents : verdict[e] = "merged" <=> parent[e] # 0

\* Decisions and merges are final: no reviewer's decision overwrites another's,
\* and an identifier on file changes its entity only to follow a merge, however
\* resolutions and reviews interleave.
IdentityOnlyMerges ==
  [][ /\ \A e \in Ents : parent[e] # 0 => parent'[e] = parent[e]
      /\ \A e \in Ents : verdict[e] \in {"merged", "distinct"} => verdict'[e] = verdict[e]
      /\ \A k \in Emails : owner[k] # 0 => \/ owner'[k] = owner[k]
                                           \/ owner'[k] = parent'[owner[k]] ]_vars

\* A merged entity is left without identifiers, participants, users, people,
\* deals and edges: they have moved to the survivor.  Sourcing's rows are not
\* among them.
NothingLeftBehind ==
  \A e \in Ents : parent[e] # 0 =>
    /\ \A k \in Emails : owner[k] # e
    /\ \A m \in mentions : m[2] # e

\* The same of a company's observations, scores and votes, which the ranking
\* reads of live companies only.  The code breaks it: merge_entities is older than
\* these tables and leaves their rows at the merged company.
ObservationsFollowMerges == \A e \in observed : parent[e] = 0

\* An item waiting for a reviewer can be decided: both its entities are live.
PendingIsDecidable ==
  \A e \in Ents : verdict[e] = "pending" => Live(e) /\ Live(cand[e])

\* "An email address already on file maps to exactly one entity": all that was
\* ever resolved from an email is on record under one and the same entity, that
\* of its identifier.
OneEntityPerEmail ==
  \A m \in mentions : FollowMerges(m[2]) = FollowMerges(owner[m[1]])

-----------------------------------------------------------------------------
(* The strengthening that makes the safety properties inductive. *)

Deciding == {"checking", "moving", "attaching", "redirecting", "merging"}

\* Items exist for committed entities and name an older candidate.
ReviewsSound ==
  \A e \in Ents : /\ verdict[e] # "none" => e <= made
                  /\ verdict[e] = "pending" => cand[e] \in 1 .. e - 1

\* What an open transaction holds and believes.
SessionSound(s) ==
  LET t == tx[s] IN
  /\ t.claims => t.at = "saving" /\ owner[t.key] = 0
  /\ t.how # "new" /\ t.at \in {"adding", "saving"} => t.target \in 1 .. made
  /\ t.at \notin Deciding => t.rows = {} /\ t.ids = {}
  /\ t.at \in Deciding => t.from \in t.rows /\ t.target \in 1 .. t.from - 1
  /\ \A k \in t.ids : owner[k] = t.from
  /\ \A e \in t.rows : verdict[e] = "pending" /\ (e = t.from \/ cand[e] = t.from)

\* Two transactions hold no review item and no new identifier in common.
Exclusive ==
  \A s, o \in Sessions : s # o =>
    /\ tx[s].rows \cap tx[o].rows = {}
    /\ tx[s].claims /\ tx[o].claims => tx[s].key # tx[o].key

IInv ==
  /\ TypeOK
  /\ MergesPointBack
  /\ DecisionsMatchMerges
  /\ ReviewsSound
  /\ \A s \in Sessions : SessionSound(s)
  /\ Exclusive

\* With a single session: identifiers name live entities, what was resolved from
\* an email is on record under its identifier's entity, and the open transaction
\* has seen all that is on record.
SerialSound(s) ==
  LET t == tx[s] IN
  /\ \A k \in Emails : owner[k] # 0 => Live(owner[k])
  /\ \A m \in mentions : m[2] = owner[m[1]]
  /\ PendingIsDecidable
  /\ t.at \in {"matching", "adding"} => owner[t.key] = 0
  /\ t.at \in {"adding", "saving"} /\ t.how # "new" => Live(t.target)
  /\ t.at = "saving" /\ ~ t.claims => t.how = "link" /\ t.target = owner[t.key]
  /\ t.at \in Deciding \ {"checking"} => Live(t.from) /\ Live(t.target)
  /\ t.at \in {"attaching", "redirecting", "merging"} => t.ids = {k \in Emails : owner[k] = t.from}
  /\ t.at \in {"redirecting", "merging"} => t.moved = {m \in mentions : m[2] = t.from}
  /\ t.at = "merging" => Affected(s) \subseteq t.rows
=============================================================================
