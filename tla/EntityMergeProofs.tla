------------------------- MODULE EntityMergeProofs -------------------------
(***************************************************************************)
(* Proofs about EntityMerge.  IInv is inductive for any number of          *)
(* concurrent resolutions and reviews.  When they follow each other (one   *)
(* session) SerialSound holds as well: what a transaction has read is      *)
(* still so when it commits, and so a merge moves everything, the queue    *)
(* names live entities only and an email has one entity.                   *)
(***************************************************************************)
EXTENDS EntityMerge, TLAPS

graphVars == <<made, parent, owner, mentions, observed, verdict, cand>>

\* The parts of IInv that speak of committed rows alone.
GraphSound == MergesPointBack /\ DecisionsMatchMerges /\ ReviewsSound

-----------------------------------------------------------------------------
LEMMA InitInv == Init => IInv
<1> SUFFICES ASSUME Init PROVE IInv
  OBVIOUS
<1>1. PICK k \in Emails : tx = [s \in Sessions |-> Closed(k)]
  BY DEF Init
<1>2. Closed(k) \in Transactions
  BY BoundAssumption DEF Closed, Transactions, Places
<1>3. TypeOK
  BY <1>1, <1>2, BoundAssumption DEF Init, TypeOK
<1>4. GraphSound
  BY DEF Init, GraphSound, MergesPointBack, DecisionsMatchMerges, ReviewsSound
<1>5. \A s \in Sessions : SessionSound(s)
  BY <1>1 DEF SessionSound, Closed, Deciding
<1>6. Exclusive
  BY <1>1 DEF Exclusive, Closed
<1> QED BY <1>3, <1>4, <1>5, <1>6 DEF IInv, GraphSound

\* A step that touches no committed row preserves IInv if the transaction of
\* the one session it changes stays sound and takes only what is free.
LEMMA OpenStep ==
  ASSUME IInv, NEW s \in Sessions, NEW t \in Transactions,
         tx' = [tx EXCEPT ![s] = t], UNCHANGED graphVars,
         t.claims => t.at = "saving" /\ owner[t.key] = 0,
         t.how # "new" /\ t.at \in {"adding", "saving"} => t.target \in 1 .. made,
         t.at \notin Deciding => t.rows = {} /\ t.ids = {},
         t.at \in Deciding => t.from \in t.rows /\ t.target \in 1 .. t.from - 1,
         \A k \in t.ids : owner[k] = t.from,
         \A e \in t.rows : verdict[e] = "pending" /\ (e = t.from \/ cand[e] = t.from),
         \A o \in Sessions \ {s} : /\ t.rows \cap tx[o].rows = {}
                                   /\ t.claims /\ tx[o].claims => t.key # tx[o].key
  PROVE  IInv'
<1>1. tx'[s] = t /\ \A o \in Sessions \ {s} : tx'[o] = tx[o]
  BY DEF IInv, TypeOK
<1>2. TypeOK'
  BY DEF IInv, TypeOK, graphVars
<1>3. GraphSound'
  BY DEF IInv, GraphSound, MergesPointBack, DecisionsMatchMerges, ReviewsSound, graphVars
<1>4. ASSUME NEW o \in Sessions PROVE SessionSound(o)'
  <2>1. CASE o = s
    BY <1>1, <2>1 DEF SessionSound, graphVars
  <2>2. CASE o # s
    BY <1>1, <2>2 DEF IInv, SessionSound, graphVars
  <2> QED BY <2>1, <2>2
<1>5. Exclusive'
  BY <1>1 DEF IInv, Exclusive
<1> QED BY <1>2, <1>3, <1>4, <1>5 DEF IInv, GraphSound

\* A transaction that closes holds nothing.
LEMMA ClosedSound ==
  ASSUME NEW k \in Emails
  PROVE  /\ Closed(k) \in Transactions
         /\ Closed(k).at = "idle" /\ Closed(k).how = "new" /\ ~ Closed(k).claims
         /\ Closed(k).rows = {} /\ Closed(k).ids = {}
BY BoundAssumption DEF Closed, Transactions, Places

-----------------------------------------------------------------------------
(* Steps that touch no committed row. *)

LEMMA LookupStep ==
  ASSUME IInv, NEW s \in Sessions, NEW k \in Emails, Lookup(s, k)
  PROVE  IInv'
<1>1. UNCHANGED graphVars
  BY DEF Lookup, graphVars
<1>2. CASE owner[k] # 0
  <2>1. PICK e \in 1 .. made :
          tx' = [tx EXCEPT ![s] = [Closed(k) EXCEPT !.at = "saving", !.how = "link", !.target = e]]
    BY <1>2 DEF Lookup
  <2> DEFINE t == [Closed(k) EXCEPT !.at = "saving", !.how = "link", !.target = e]
  <2>2. t \in Transactions
    <3>1. e \in 0 .. MaxEnts
      BY BoundAssumption DEF IInv, TypeOK
    <3>2. Closed(k) \in Transactions
      BY ClosedSound
    <3> HIDE DEF Closed
    <3> QED BY <3>1, <3>2 DEF Transactions, Places
  <2>3. t.at = "saving" /\ t.target = e /\ ~ t.claims /\ t.rows = {} /\ t.ids = {}
    BY DEF Closed
  <2> HIDE DEF t
  <2> QED BY <1>1, <2>1, <2>2, <2>3, OpenStep DEF Deciding, t
<1>3. CASE owner[k] = 0
  <2> DEFINE t == [Closed(k) EXCEPT !.at = "matching"]
  <2>1. tx' = [tx EXCEPT ![s] = t]
    BY <1>3 DEF Lookup
  <2>2. t \in Transactions
    BY ClosedSound DEF Transactions, Places
  <2>3. t.at = "matching" /\ ~ t.claims /\ t.rows = {} /\ t.ids = {}
    BY DEF Closed
  <2> HIDE DEF t
  <2> QED BY <1>1, <2>1, <2>2, <2>3, OpenStep DEF Deciding
<1> QED BY <1>2, <1>3

LEMMA CloseStep ==
  ASSUME IInv, NEW s \in Sessions, Closes(s), UNCHANGED graphVars
  PROVE  IInv'
<1>1. tx[s].key \in Emails
  BY DEF IInv, TypeOK, Transactions
<1> DEFINE t == Closed(tx[s].key)
<1>2. /\ t \in Transactions /\ t.at = "idle" /\ t.how = "new" /\ ~ t.claims
      /\ t.rows = {} /\ t.ids = {}
  BY <1>1, ClosedSound
<1>3. tx' = [tx EXCEPT ![s] = t]
  BY DEF Closes
<1> HIDE DEF t
<1> QED BY <1>2, <1>3, OpenStep DEF Deciding

LEMMA MatchStep ==
  ASSUME IInv, NEW s \in Sessions, Match(s)
  PROVE  IInv'
<1>1. UNCHANGED graphVars
  BY DEF Match, graphVars
<1>2. tx[s] \in Transactions /\ tx[s].at = "matching" /\ SessionSound(s)
  BY DEF IInv, TypeOK, Match
<1>3. ~ tx[s].claims /\ tx[s].rows = {} /\ tx[s].ids = {}
  BY <1>2 DEF SessionSound, Deciding, Transactions
<1>4. ASSUME NEW e \in 1 .. made, NEW how \in {"link", "queue"},
             tx' = [tx EXCEPT ![s].at = "adding", ![s].how = how, ![s].target = e]
      PROVE  IInv'
  <2> DEFINE t == [tx[s] EXCEPT !.at = "adding", !.how = how, !.target = e]
  <2>1. t \in Transactions
    <3>1. e \in 0 .. MaxEnts
      BY BoundAssumption DEF IInv, TypeOK
    <3> QED BY <1>2, <3>1 DEF Transactions, Places
  <2>2. t.at = "adding" /\ t.target \in 1 .. made /\ ~ t.claims /\ t.rows = {} /\ t.ids = {}
    BY <1>2, <1>3 DEF Transactions
  <2>3. tx' = [tx EXCEPT ![s] = t]
    BY <1>4 DEF IInv, TypeOK
  <2> HIDE DEF t
  <2> QED BY <1>1, <2>1, <2>2, <2>3, OpenStep DEF Deciding
<1>5. ASSUME tx' = [tx EXCEPT ![s].at = "adding", ![s].how = "new"]
      PROVE  IInv'
  <2> DEFINE t == [tx[s] EXCEPT !.at = "adding", !.how = "new"]
  <2>1. t \in Transactions
    BY <1>2 DEF Transactions, Places
  <2>2. t.at = "adding" /\ t.how = "new" /\ ~ t.claims /\ t.rows = {} /\ t.ids = {}
    BY <1>2, <1>3 DEF Transactions
  <2>3. tx' = [tx EXCEPT ![s] = t]
    BY <1>5 DEF IInv, TypeOK
  <2> HIDE DEF t
  <2> QED BY <1>1, <2>1, <2>2, <2>3, OpenStep DEF Deciding
<1> QED BY <1>4, <1>5 DEF Match

LEMMA AddIdentifierStep ==
  ASSUME IInv, NEW s \in Sessions, AddIdentifier(s)
  PROVE  IInv'
<1>1. UNCHANGED graphVars
  BY DEF AddIdentifier, graphVars
<1>2. tx[s] \in Transactions /\ tx[s].at = "adding" /\ SessionSound(s)
  BY DEF IInv, TypeOK, AddIdentifier
<1> DEFINE t == [tx[s] EXCEPT !.at = "saving", !.claims = (owner[tx[s].key] = 0)]
<1>3. t \in Transactions
  BY <1>2 DEF Transactions, Places
<1>4. /\ t.at = "saving" /\ t.key = tx[s].key /\ t.how = tx[s].how /\ t.target = tx[s].target
      /\ t.claims = (owner[t.key] = 0)
      /\ t.rows = {} /\ t.ids = {}
  BY <1>2 DEF Transactions, SessionSound, Deciding
<1>5. tx' = [tx EXCEPT ![s] = t]
  BY DEF AddIdentifier, IInv, TypeOK
<1>6. \A o \in Sessions \ {s} : ~ (tx[o].claims /\ tx[o].key = t.key)
  BY <1>4 DEF AddIdentifier, Claiming
<1>7. t.how # "new" => t.target \in 1 .. made
  BY <1>2, <1>4 DEF SessionSound
<1> HIDE DEF t
<1> QED BY <1>1, <1>3, <1>4, <1>5, <1>6, <1>7, OpenStep DEF Deciding

LEMMA DecideMergedStep ==
  ASSUME IInv, NEW s \in Sessions, NEW e \in Ents, DecideMerged(s, e)
  PROVE  IInv'
<1>1. UNCHANGED graphVars
  BY DEF DecideMerged, graphVars
<1>2. tx[s] \in Transactions /\ tx[s].at = "idle" /\ SessionSound(s)
  BY DEF IInv, TypeOK, DecideMerged
<1> DEFINE t == [tx[s] EXCEPT !.at = "checking", !.from = e, !.target = cand[e], !.rows = {e}]
<1>3. cand[e] \in 0 .. MaxEnts /\ cand[e] \in 1 .. e - 1 /\ verdict[e] = "pending"
  BY DEF IInv, TypeOK, ReviewsSound, DecideMerged
<1>4. t \in Transactions
  <2>1. e \in 0 .. MaxEnts /\ {e} \in SUBSET Ents
    BY BoundAssumption DEF Ents
  <2> QED BY <1>2, <1>3, <2>1 DEF Transactions, Places
<1>5. /\ t.at = "checking" /\ t.from = e /\ t.target = cand[e] /\ t.rows = {e}
      /\ ~ t.claims /\ t.ids = {}
  BY <1>2 DEF Transactions, SessionSound, Deciding
<1>6. tx' = [tx EXCEPT ![s] = t]
  BY DEF DecideMerged, IInv, TypeOK
<1>7. \A o \in Sessions \ {s} : t.rows \cap tx[o].rows = {}
  BY <1>5 DEF DecideMerged, LockedBy
<1> HIDE DEF t
<1> QED BY <1>1, <1>3, <1>4, <1>5, <1>6, <1>7, OpenStep DEF Deciding

\* Check, MoveIdentifiers and MoveMentions of a merge that goes on.
LEMMA OnwardStep ==
  ASSUME IInv, NEW s \in Sessions, tx[s].at \in Deciding, UNCHANGED graphVars,
         NEW at \in Deciding, NEW ids \in SUBSET Emails,
         NEW moved \in SUBSET (Emails \X Ents), NEW rows \in SUBSET Ents,
         \A k \in ids : owner[k] = tx[s].from,
         \A e \in rows : verdict[e] = "pending" /\ cand[e] = tx[s].from,
         \A o \in Sessions \ {s} : tx[o].rows \cap rows = {},
         tx' = [tx EXCEPT ![s] = [tx[s] EXCEPT !.at = at, !.ids = ids, !.moved = moved,
                                               !.rows = tx[s].rows \cup rows]]
  PROVE  IInv'
<1>1. tx[s] \in Transactions /\ SessionSound(s)
  BY DEF IInv, TypeOK
<1> DEFINE t == [tx[s] EXCEPT !.at = at, !.ids = ids, !.moved = moved,
                              !.rows = tx[s].rows \cup rows]
<1>2. t \in Transactions
  BY <1>1 DEF Transactions, Deciding, Places
<1>3. /\ t.at = at /\ t.ids = ids /\ t.rows = tx[s].rows \cup rows
      /\ t.from = tx[s].from /\ t.target = tx[s].target /\ ~ t.claims
  BY <1>1 DEF Transactions, SessionSound, Deciding
<1>4. t.from \in t.rows /\ t.target \in 1 .. t.from - 1
  BY <1>1, <1>3 DEF SessionSound
<1>5. \A e \in t.rows : verdict[e] = "pending" /\ (e = t.from \/ cand[e] = t.from)
  BY <1>1, <1>3 DEF SessionSound
<1>6. \A o \in Sessions \ {s} : t.rows \cap tx[o].rows = {}
  BY <1>3 DEF IInv, Exclusive
<1>7. tx' = [tx EXCEPT ![s] = t]
  OBVIOUS
<1> HIDE DEF t
<1> QED BY <1>2, <1>3, <1>4, <1>5, <1>6, <1>7, OpenStep DEF Deciding

LEMMA MergeProgress ==
  ASSUME IInv, NEW s \in Sessions,
         Check(s) \/ MoveIdentifiers(s) \/ MoveMentions(s) \/ RedirectReviews(s)
  PROVE  IInv'
<1>1. UNCHANGED graphVars
  BY DEF Check, MoveIdentifiers, MoveMentions, RedirectReviews, graphVars
<1>2. tx[s] \in Transactions /\ SessionSound(s) /\ tx \in [Sessions -> Transactions]
  BY DEF IInv, TypeOK
<1>3. tx[s].at \in Deciding
  BY DEF Check, MoveIdentifiers, MoveMentions, RedirectReviews, Deciding
<1>4. /\ tx[s].ids \in SUBSET Emails /\ tx[s].moved \in SUBSET (Emails \X Ents)
      /\ \A k \in tx[s].ids : owner[k] = tx[s].from
  BY <1>2 DEF Transactions, SessionSound
<1> DEFINE none == {}
<1>n. /\ none \in SUBSET Ents /\ tx[s].rows \cup none = tx[s].rows
      /\ \A e \in none : verdict[e] = "pending" /\ cand[e] = tx[s].from
      /\ \A o \in Sessions \ {s} : tx[o].rows \cap none = {}
  OBVIOUS
<1> HIDE DEF none
<1>5. ASSUME tx' = [tx EXCEPT ![s].at = "moving"] PROVE IInv'
  <2>1. tx' = [tx EXCEPT ![s] = [tx[s] EXCEPT !.at = "moving", !.ids = tx[s].ids,
                                   !.moved = tx[s].moved, !.rows = tx[s].rows \cup none]]
    <3>1. [tx[s] EXCEPT !.at = "moving", !.ids = tx[s].ids, !.moved = tx[s].moved,
                        !.rows = tx[s].rows \cup none] = [tx[s] EXCEPT !.at = "moving"]
      BY <1>2, <1>n DEF Transactions
    <3>2. tx' = [tx EXCEPT ![s] = [tx[s] EXCEPT !.at = "moving"]]
      BY <1>5
    <3> QED BY <3>1, <3>2
  <2> QED BY <1>1, <1>3, <1>4, <1>n, <2>1, OnwardStep DEF Deciding
<1>6. CASE Check(s)
  BY <1>1, <1>5, <1>6, CloseStep DEF Check
<1>7. CASE MoveIdentifiers(s)
  <2> DEFINE ids == {k \in Emails : owner[k] = tx[s].from}
  <2>1. tx' = [tx EXCEPT ![s] = [tx[s] EXCEPT !.at = "attaching", !.ids = ids,
                                   !.moved = tx[s].moved, !.rows = tx[s].rows \cup none]]
    BY <1>2, <1>n, <1>7 DEF MoveIdentifiers, Transactions
  <2>2. ids \in SUBSET Emails /\ \A k \in ids : owner[k] = tx[s].from
    OBVIOUS
  <2> HIDE DEF ids
  <2> QED BY <1>1, <1>3, <1>4, <1>n, <2>1, <2>2, OnwardStep DEF Deciding
<1>8. CASE MoveMentions(s)
  <2> DEFINE moved == {m \in mentions : m[2] = tx[s].from}
  <2>1. tx' = [tx EXCEPT ![s] = [tx[s] EXCEPT !.at = "redirecting", !.ids = tx[s].ids,
                                   !.moved = moved, !.rows = tx[s].rows \cup none]]
    BY <1>2, <1>n, <1>8 DEF MoveMentions, Transactions
  <2>2. moved \in SUBSET (Emails \X Ents)
    BY DEF IInv, TypeOK
  <2> HIDE DEF moved
  <2> QED BY <1>1, <1>3, <1>4, <1>n, <2>1, <2>2, OnwardStep DEF Deciding
<1>9. CASE RedirectReviews(s)
  <2>1. tx' = [tx EXCEPT ![s] = [tx[s] EXCEPT !.at = "merging", !.ids = tx[s].ids,
                                   !.moved = tx[s].moved, !.rows = tx[s].rows \cup Affected(s)]]
    BY <1>2, <1>9 DEF RedirectReviews, Transactions
  <2>2. /\ Affected(s) \in SUBSET Ents
        /\ \A e \in Affected(s) : verdict[e] = "pending" /\ cand[e] = tx[s].from
        /\ \A o \in Sessions \ {s} : tx[o].rows \cap Affected(s) = {}
    BY <1>9 DEF Affected, RedirectReviews
  <2> QED BY <1>1, <1>3, <1>4, <2>1, <2>2, OnwardStep DEF Deciding
<1> QED BY <1>6, <1>7, <1>8, <1>9

-----------------------------------------------------------------------------
(* Steps that commit. *)

LEMMA DistinctStep ==
  ASSUME IInv, NEW s \in Sessions, NEW e \in Ents, DecideDistinct(s, e)
  PROVE  IInv'
<1>1. /\ verdict[e] = "pending" /\ verdict' = [verdict EXCEPT ![e] = "distinct"]
      /\ UNCHANGED <<made, parent, owner, mentions, observed, cand, tx>>
      /\ \A o \in Sessions : e \notin tx[o].rows
  BY DEF DecideDistinct, LockedBy
<1>2. TypeOK'
  BY <1>1 DEF IInv, TypeOK
<1>3. GraphSound'
  BY <1>1 DEF IInv, TypeOK, GraphSound, MergesPointBack, DecisionsMatchMerges, ReviewsSound
<1>4. ASSUME NEW o \in Sessions PROVE SessionSound(o)'
  <2>1. \A f \in tx[o].rows : verdict'[f] = verdict[f]
    BY <1>1 DEF IInv, TypeOK
  <2> QED BY <1>1, <2>1 DEF IInv, SessionSound
<1>5. Exclusive'
  BY <1>1 DEF IInv, Exclusive
<1> QED BY <1>2, <1>3, <1>4, <1>5 DEF IInv, GraphSound

\* The entity a resolution ends with, and the rows it writes.
LEMMA ResolveEffect ==
  ASSUME IInv, NEW s \in Sessions, ResolveCommit(s)
  PROVE  \E e \in Ents, k \in Emails :
           LET t == tx[s] IN
           /\ k = t.key /\ t.at = "saving"
           /\ t.how # "link" => e = made + 1
           /\ made' = IF t.how = "link" THEN made ELSE e
           /\ owner' = IF t.claims THEN [owner EXCEPT ![k] = e] ELSE owner
           /\ mentions' = mentions \cup {<<k, e>>}
           /\ observed' \subseteq observed \cup {e}
           /\ t.how = "queue" => /\ verdict' = [verdict EXCEPT ![e] = "pending"]
                                 /\ cand'    = [cand EXCEPT ![e] = t.target]
           /\ t.how # "queue" => verdict' = verdict /\ cand' = cand
           /\ tx' = [tx EXCEPT ![s] = Closed(k)]
           /\ parent' = parent
<1> DEFINE e == IF tx[s].how = "link" THEN tx[s].target ELSE made + 1
<1>1. tx[s] \in Transactions /\ made \in 0 .. MaxEnts
  BY DEF IInv, TypeOK
<1>2. tx[s].key \in Emails /\ e \in 0 .. MaxEnts
  BY <1>1, BoundAssumption DEF ResolveCommit, Transactions
<1>3. /\ tx[s].at = "saving"
      /\ made' = IF tx[s].how = "link" THEN made ELSE e
      /\ owner' = IF tx[s].claims THEN [owner EXCEPT ![tx[s].key] = e] ELSE owner
      /\ mentions' = mentions \cup {<<tx[s].key, e>>}
      /\ observed' \subseteq observed \cup {e}
      /\ tx[s].how = "queue" => /\ verdict' = [verdict EXCEPT ![e] = "pending"]
                                /\ cand'    = [cand EXCEPT ![e] = tx[s].target]
      /\ tx[s].how # "queue" => verdict' = verdict /\ cand' = cand
      /\ tx' = [tx EXCEPT ![s] = Closed(tx[s].key)]
      /\ parent' = parent
  BY DEF ResolveCommit, Closes
<1>4. tx[s].how # "link" => e = made + 1
  OBVIOUS
<1>5. e # 0
  BY <1>1, <1>3 DEF IInv, SessionSound, Transactions
<1>6. e \in Ents
  BY <1>2, <1>5, BoundAssumption DEF Ents
<1> HIDE DEF e
<1> QED BY <1>2, <1>3, <1>4, <1>6

LEMMA ResolveStep ==
  ASSUME IInv, NEW s \in Sessions, ResolveCommit(s)
  PROVE  IInv'
<1>1. PICK e \in Ents, k \in Emails :
        /\ k = tx[s].key /\ tx[s].at = "saving"
        /\ tx[s].how # "link" => e = made + 1
        /\ made' = IF tx[s].how = "link" THEN made ELSE e
        /\ owner' = IF tx[s].claims THEN [owner EXCEPT ![k] = e] ELSE owner
        /\ mentions' = mentions \cup {<<k, e>>}
        /\ observed' \subseteq observed \cup {e}
        /\ tx[s].how = "queue" => /\ verdict' = [verdict EXCEPT ![e] = "pending"]
                                  /\ cand'    = [cand EXCEPT ![e] = tx[s].target]
        /\ tx[s].how # "queue" => verdict' = verdict /\ cand' = cand
        /\ tx' = [tx EXCEPT ![s] = Closed(k)]
        /\ parent' = parent
  BY ResolveEffect
<1>2. /\ tx[s] \in Transactions /\ tx[s].target \in 0 .. MaxEnts
      /\ made \in 0 .. MaxEnts /\ e \in 1 .. MaxEnts /\ SessionSound(s)
  BY DEF IInv, TypeOK, Transactions, Ents
<1>3. /\ Closed(k) \in Transactions /\ ~ Closed(k).claims /\ Closed(k).at = "idle"
      /\ Closed(k).how = "new" /\ Closed(k).rows = {} /\ Closed(k).ids = {}
  BY ClosedSound
<1>4. tx'[s] = Closed(k) /\ \A o \in Sessions \ {s} : tx'[o] = tx[o]
  BY <1>1 DEF IInv, TypeOK
<1>5. TypeOK'
  <2>1. made' \in 0 .. MaxEnts /\ parent' \in [Ents -> 0 .. MaxEnts]
    BY <1>1, <1>2 DEF IInv, TypeOK
  <2>2. owner' \in [Emails -> 0 .. MaxEnts]
    BY <1>1, <1>2 DEF IInv, TypeOK
  <2>3. mentions' \subseteq Emails \X Ents
    BY <1>1 DEF IInv, TypeOK
  <2>4. /\ verdict' \in [Ents -> {"none", "pending", "merged", "distinct"}]
        /\ cand' \in [Ents -> 0 .. MaxEnts]
    BY <1>1, <1>2 DEF IInv, TypeOK
  <2>5. tx' \in [Sessions -> Transactions]
    BY <1>1, <1>3 DEF IInv, TypeOK
  <2>6. observed' \subseteq Ents
    BY <1>1 DEF IInv, TypeOK
  <2> QED BY <2>1, <2>2, <2>3, <2>4, <2>5, <2>6 DEF TypeOK
\* A new entity had no review item; the rows of the others are untouched.
<1>6. tx[s].how # "link" => verdict[e] = "none"
  BY <1>1, <1>2 DEF IInv, TypeOK, ReviewsSound
<1>7. /\ \A f \in Ents : f # e => verdict'[f] = verdict[f] /\ cand'[f] = cand[f]
      /\ tx[s].how # "queue" => verdict' = verdict /\ cand' = cand
      /\ tx[s].how = "queue" => verdict'[e] = "pending" /\ cand'[e] = tx[s].target
  BY <1>1 DEF IInv, TypeOK
<1>8. made <= made' /\ made' \in Nat
  BY <1>1, <1>2
<1>9. GraphSound'
  <2>1. MergesPointBack'
    BY <1>1 DEF IInv, MergesPointBack
  <2>2. DecisionsMatchMerges'
    BY <1>1, <1>6, <1>7 DEF IInv, DecisionsMatchMerges
  <2>3. tx[s].how = "queue" => tx[s].target \in 1 .. e - 1 /\ made' = e
    BY <1>1, <1>2 DEF SessionSound
  <2>4. ReviewsSound'
    <3> SUFFICES ASSUME NEW f \in Ents
                 PROVE  /\ verdict'[f] # "none" => f <= made'
                        /\ verdict'[f] = "pending" => cand'[f] \in 1 .. f - 1
      BY DEF ReviewsSound
    <3>1. f \in Nat /\ made \in Nat
      BY <1>2 DEF Ents
    <3> QED BY <1>2, <1>7, <1>8, <2>3, <3>1 DEF IInv, ReviewsSound
  <2> QED BY <2>1, <2>2, <2>4 DEF GraphSound
<1>10. ASSUME NEW o \in Sessions PROVE SessionSound(o)'
  <2>1. CASE o = s
    BY <1>3, <1>4, <2>1 DEF SessionSound, Deciding
  <2>2. CASE o # s
    <3>1. tx'[o] = tx[o] /\ SessionSound(o) /\ tx[o] \in Transactions
      BY <1>4, <2>2 DEF IInv, TypeOK
    <3>2. tx[o].claims => owner'[tx[o].key] = 0
      BY <1>1, <2>2, <3>1 DEF IInv, TypeOK, Exclusive, SessionSound, Transactions
    <3>3. \A j \in tx[o].ids : owner'[j] = tx[o].from
      <4> SUFFICES ASSUME NEW j \in tx[o].ids PROVE owner'[j] = tx[o].from
        OBVIOUS
      <4>1. owner[j] = tx[o].from /\ tx[o].from \in Ents /\ j \in Emails
        BY <3>1 DEF SessionSound, Transactions
      <4>2. tx[s].claims => owner[k] = 0
        BY <1>1, <1>2 DEF SessionSound
      <4>3. 0 \notin Ents
        BY DEF Ents
      <4> QED BY <1>1, <4>1, <4>2, <4>3 DEF IInv, TypeOK
    <3>4. \A f \in tx[o].rows : verdict'[f] = verdict[f] /\ cand'[f] = cand[f]
      <4>1. \A f \in tx[o].rows : f \in Ents /\ verdict[f] = "pending"
        BY <3>1 DEF SessionSound, Transactions
      <4> QED BY <1>6, <1>7, <4>1
    <3>5. tx[o].how # "new" /\ tx[o].at \in {"adding", "saving"} => tx[o].target \in 1 .. made'
      BY <1>2, <1>8, <3>1 DEF SessionSound
    <3> QED BY <3>1, <3>2, <3>3, <3>4, <3>5 DEF SessionSound
  <2> QED BY <2>1, <2>2
<1>11. Exclusive'
  BY <1>3, <1>4 DEF IInv, Exclusive
<1> QED BY <1>5, <1>9, <1>10, <1>11 DEF IInv, GraphSound

LEMMA MergeStep ==
  ASSUME IInv, NEW s \in Sessions, MergeCommit(s)
  PROVE  IInv'
<1> DEFINE t == tx[s]
<1>1. /\ t \in Transactions /\ SessionSound(s) /\ t.at = "merging" /\ t.key \in Emails
      /\ t.ids \subseteq Emails /\ t.moved \subseteq Emails \X Ents /\ t.rows \subseteq Ents
  BY DEF IInv, TypeOK, MergeCommit, Transactions
<1>2. t.from \in Ents /\ t.target \in 0 .. MaxEnts /\ t.target \in 1 .. t.from - 1 /\ t.from \in t.rows
  BY <1>1 DEF SessionSound, Transactions, Deciding
<1>3. /\ parent' = [parent EXCEPT ![t.from] = t.target]
      /\ owner'  = [k \in Emails |-> IF k \in t.ids THEN t.target ELSE owner[k]]
      /\ mentions' = (mentions \ t.moved) \cup {<<m[1], t.target>> : m \in t.moved}
      /\ verdict' = [e \in Ents |-> IF e = t.from THEN "merged"
                                    ELSE IF e \in t.rows /\ e = t.target THEN "distinct"
                                    ELSE verdict[e]]
      /\ cand' = [e \in Ents |-> IF e \in t.rows \ {t.from, t.target} THEN t.target ELSE cand[e]]
      /\ tx' = [tx EXCEPT ![s] = Closed(t.key)]
      /\ made' = made /\ observed' = observed
  BY DEF MergeCommit, Closes
<1>4. /\ Closed(t.key) \in Transactions /\ ~ Closed(t.key).claims /\ Closed(t.key).at = "idle"
      /\ Closed(t.key).how = "new" /\ Closed(t.key).rows = {} /\ Closed(t.key).ids = {}
  BY <1>1, ClosedSound
<1>5. tx'[s] = Closed(t.key) /\ \A o \in Sessions \ {s} : tx'[o] = tx[o]
  BY <1>3 DEF IInv, TypeOK
<1>6. t.target \in Ents /\ t.target # t.from /\ t.from # 0
  BY <1>2 DEF Ents
<1>7. verdict[t.from] = "pending" /\ parent[t.from] = 0
  BY <1>1, <1>2 DEF SessionSound, IInv, TypeOK, DecisionsMatchMerges
<1> HIDE DEF t
<1>8. TypeOK'
  <2>1. made' \in 0 .. MaxEnts /\ parent' \in [Ents -> 0 .. MaxEnts]
    BY <1>2, <1>3 DEF IInv, TypeOK
  <2>2. owner' \in [Emails -> 0 .. MaxEnts]
    BY <1>2, <1>3 DEF IInv, TypeOK
  <2>3. mentions' \subseteq Emails \X Ents
    <3>1. \A m \in t.moved : m[1] \in Emails
      BY <1>1
    <3> QED BY <1>3, <1>6, <3>1 DEF IInv, TypeOK
  <2>4. verdict' \in [Ents -> {"none", "pending", "merged", "distinct"}]
    BY <1>3 DEF IInv, TypeOK
  <2>5. cand' \in [Ents -> 0 .. MaxEnts]
    BY <1>2, <1>3 DEF IInv, TypeOK
  <2>6. tx' \in [Sessions -> Transactions]
    BY <1>3, <1>4 DEF IInv, TypeOK
  <2>7. observed' \subseteq Ents
    BY <1>3 DEF IInv, TypeOK
  <2> QED BY <2>1, <2>2, <2>3, <2>4, <2>5, <2>6, <2>7 DEF TypeOK
\* The items a merge holds are pending and, its own apart, name its source.
<1>9. \A e \in t.rows : verdict[e] = "pending" /\ (e = t.from \/ cand[e] = t.from)
  BY <1>1 DEF SessionSound, t
<1>10. t.target \notin t.rows
  <2> SUFFICES ASSUME t.target \in t.rows PROVE FALSE
    OBVIOUS
  <2>1. cand[t.target] = t.from /\ verdict[t.target] = "pending"
    BY <1>6, <1>9
  <2>2. cand[t.target] < t.target
    BY <1>6, <2>1 DEF IInv, ReviewsSound, Ents
  <2> QED BY <1>2, <2>1, <2>2 DEF Ents
<1>11. /\ \A e \in Ents : verdict'[e] = IF e = t.from THEN "merged" ELSE verdict[e]
       /\ \A e \in Ents : cand'[e] = IF e \in t.rows \ {t.from} THEN t.target ELSE cand[e]
       /\ \A e \in Ents : parent'[e] = IF e = t.from THEN t.target ELSE parent[e]
  BY <1>3, <1>10 DEF IInv, TypeOK
<1>12. GraphSound'
  <2>1. MergesPointBack'
    <3>1. t.target < t.from
      BY <1>2 DEF Ents
    <3> QED BY <1>11, <3>1 DEF IInv, MergesPointBack
  <2>2. DecisionsMatchMerges'
    BY <1>6, <1>11, <1>2 DEF IInv, DecisionsMatchMerges
  <2>3. ASSUME NEW e \in Ents PROVE verdict'[e] # "none" => e <= made'
    BY <1>2, <1>3, <1>7, <1>11 DEF IInv, ReviewsSound
  <2>4. ASSUME NEW e \in Ents, verdict'[e] = "pending" PROVE cand'[e] \in 1 .. e - 1
    <3>1. e # t.from /\ verdict[e] = "pending" /\ cand[e] \in 1 .. e - 1
      BY <1>11, <2>4 DEF IInv, ReviewsSound
    <3>2. e \in t.rows => cand[e] = t.from
      BY <1>9, <3>1
    <3> QED BY <1>2, <1>11, <3>1, <3>2 DEF Ents
  <2> QED BY <2>1, <2>2, <2>3, <2>4 DEF GraphSound, ReviewsSound
<1>13. ASSUME NEW o \in Sessions PROVE SessionSound(o)'
  <2>1. CASE o = s
    BY <1>4, <1>5, <2>1 DEF SessionSound, Deciding
  <2>2. CASE o # s
    <3>1. tx'[o] = tx[o] /\ SessionSound(o) /\ tx[o] \in Transactions
      BY <1>5, <2>2 DEF IInv, TypeOK
    <3>2. t.rows \cap tx[o].rows = {}
      BY <2>2 DEF IInv, Exclusive, t
    <3>3. \A k \in t.ids : owner[k] = t.from
      BY <1>1 DEF SessionSound, t
    <3>4. tx[o].claims => owner'[tx[o].key] = 0
      <4>1. tx[o].claims => owner[tx[o].key] = 0 /\ tx[o].key \in Emails
        BY <3>1 DEF SessionSound, Transactions
      <4> QED BY <1>3, <1>6, <3>3, <4>1
    <3>5. \A k \in tx[o].ids : owner'[k] = tx[o].from
      <4> SUFFICES ASSUME NEW k \in tx[o].ids PROVE owner'[k] = tx[o].from
        OBVIOUS
      <4>1. owner[k] = tx[o].from /\ tx[o].from \in tx[o].rows /\ k \in Emails
        BY <3>1 DEF SessionSound, Transactions
      <4>2. k \notin t.ids
        BY <1>2, <3>2, <3>3, <4>1
      <4> QED BY <1>3, <4>1, <4>2
    <3>6. \A e \in tx[o].rows : verdict'[e] = verdict[e] /\ cand'[e] = cand[e]
      <4>1. \A e \in tx[o].rows : e \in Ents /\ e \notin t.rows
        BY <3>1, <3>2 DEF Transactions
      <4> QED BY <1>2, <1>11, <4>1
    <3> QED BY <1>3, <3>1, <3>4, <3>5, <3>6 DEF SessionSound
  <2> QED BY <2>1, <2>2
<1>14. Exclusive'
  BY <1>4, <1>5 DEF IInv, Exclusive
<1> QED BY <1>8, <1>12, <1>13, <1>14 DEF IInv, GraphSound

-----------------------------------------------------------------------------
\* Every step of a resolution or a review keeps IInv.
LEMMA Step == IInv /\ [Next]_vars => IInv'
<1> SUFFICES ASSUME IInv, [Next]_vars PROVE IInv'
  OBVIOUS
<1>1. ASSUME NEW s \in Sessions, ResolverNext(s) PROVE IInv'
  BY <1>1, LookupStep, MatchStep, AddIdentifierStep, ResolveStep DEF ResolverNext
<1>2. ASSUME NEW s \in Sessions, ReviewNext(s) PROVE IInv'
  BY <1>2, DecideMergedStep, DistinctStep, MergeProgress, MergeStep DEF ReviewNext
<1>3. ASSUME NEW s \in Sessions, Rollback(s) PROVE IInv'
  BY <1>3, CloseStep DEF Rollback, graphVars
<1>4. CASE UNCHANGED vars
  <2>1. TypeOK'
    BY <1>4 DEF vars, IInv, TypeOK
  <2>2. GraphSound'
    BY <1>4 DEF vars, IInv, GraphSound, MergesPointBack, DecisionsMatchMerges, ReviewsSound
  <2>3. \A s \in Sessions : SessionSound(s)'
    BY <1>4 DEF vars, IInv, SessionSound
  <2>4. Exclusive'
    BY <1>4 DEF vars, IInv, Exclusive
  <2> QED BY <2>1, <2>2, <2>3, <2>4 DEF IInv, GraphSound
<1> QED BY <1>1, <1>2, <1>3, <1>4 DEF Next

\* IInv holds in every reachable state of er.Resolver's transactions and
\* er_decide's, interleaved statement by statement.
THEOREM InductiveInvariant == Spec => []IInv
BY InitInv, Step, PTL DEF Spec

\* Merges lead to older entities only, so _follow_merges ends in a live one.
THEOREM MergesAcyclic == Spec => []MergesPointBack
<1>1. IInv => MergesPointBack
  BY DEF IInv
<1> QED BY <1>1, InductiveInvariant, PTL

\* An entity is merged exactly when its review item was decided so.
THEOREM MergedByDecision == Spec => []DecisionsMatchMerges
<1>1. IInv => DecisionsMatchMerges
  BY DEF IInv
<1> QED BY <1>1, InductiveInvariant, PTL

\* Decisions and merges are final, and identifiers only move along merges.
THEOREM IdentityIsStable == Spec => IdentityOnlyMerges
<1> DEFINE Stable ==
      /\ \A e \in Ents : parent[e] # 0 => parent'[e] = parent[e]
      /\ \A e \in Ents : verdict[e] \in {"merged", "distinct"} => verdict'[e] = verdict[e]
      /\ \A k \in Emails : owner[k] # 0 => \/ owner'[k] = owner[k]
                                           \/ owner'[k] = parent'[owner[k]]
<1>1. IInv /\ [Next]_vars => [Stable]_vars
  <2> SUFFICES ASSUME IInv, Next PROVE Stable
    OBVIOUS
  <2>1. CASE parent' = parent /\ owner' = owner /\ verdict' = verdict
    BY <2>1
  <2>2. ASSUME NEW s \in Sessions, ResolveCommit(s) PROVE Stable
    <3>1. PICK e \in Ents, k \in Emails :
            /\ owner' = IF tx[s].claims THEN [owner EXCEPT ![k] = e] ELSE owner
            /\ k = tx[s].key /\ parent' = parent
      BY <2>2, ResolveEffect
    <3>2. tx[s].claims => owner[k] = 0
      BY <3>1 DEF IInv, SessionSound
    <3>3. \A f \in Ents : verdict[f] # "none" => verdict'[f] = verdict[f]
      <4>1. /\ made \in Nat /\ verdict \in [Ents -> {"none", "pending", "merged", "distinct"}]
            /\ \A f \in Ents : verdict[f] # "none" => f <= made
        BY DEF IInv, TypeOK, ReviewsSound
      <4>2. verdict' = verdict \/ verdict' = [verdict EXCEPT ![made + 1] = "pending"]
        BY <2>2 DEF ResolveCommit
      <4>3. \A f \in Ents : verdict[f] # "none" => f # made + 1
        BY <4>1, BoundAssumption DEF Ents
      <4> QED BY <4>1, <4>2, <4>3
    <3> QED BY <3>1, <3>2, <3>3 DEF IInv, TypeOK
  <2>3. ASSUME NEW s \in Sessions, MergeCommit(s) PROVE Stable
    <3>1. /\ parent' = [parent EXCEPT ![tx[s].from] = tx[s].target]
          /\ owner' = [k \in Emails |-> IF k \in tx[s].ids THEN tx[s].target ELSE owner[k]]
      BY <2>3 DEF MergeCommit
    <3>2. /\ tx[s].from \in Ents /\ verdict[tx[s].from] = "pending"
          /\ \A k \in tx[s].ids : owner[k] = tx[s].from
      BY <2>3 DEF MergeCommit, IInv, TypeOK, SessionSound, Transactions, Deciding
    <3>3. parent[tx[s].from] = 0
      BY <3>2 DEF IInv, DecisionsMatchMerges
    <3>4. \A e \in Ents : verdict[e] \in {"merged", "distinct"} => verdict'[e] = verdict[e]
      <4>1. \A e \in tx[s].rows : verdict[e] = "pending"
        BY DEF IInv, SessionSound
      <4>2. verdict' = [e \in Ents |-> IF e = tx[s].from THEN "merged"
                                      ELSE IF e \in tx[s].rows /\ e = tx[s].target THEN "distinct"
                                      ELSE verdict[e]]
        BY <2>3 DEF MergeCommit
      <4> QED BY <3>2, <4>1, <4>2
    <3> QED BY <3>1, <3>2, <3>3, <3>4 DEF IInv, TypeOK
  <2>4. ASSUME NEW s \in Sessions, NEW k \in Emails, Lookup(s, k) PROVE parent' = parent /\ owner' = owner /\ verdict' = verdict
    BY <2>4 DEF Lookup
  <2>5. ASSUME NEW s \in Sessions, Match(s) \/ AddIdentifier(s) \/ Rollback(s)
        PROVE  parent' = parent /\ owner' = owner /\ verdict' = verdict
    BY <2>5 DEF Match, AddIdentifier, Rollback
  <2>6. ASSUME NEW s \in Sessions, NEW e \in Ents, DecideMerged(s, e) \/ DecideDistinct(s, e)
        PROVE  Stable
    BY <2>6 DEF DecideMerged, DecideDistinct, IInv, TypeOK
  <2>7. ASSUME NEW s \in Sessions,
               Check(s) \/ MoveIdentifiers(s) \/ MoveMentions(s) \/ RedirectReviews(s)
        PROVE  parent' = parent /\ owner' = owner /\ verdict' = verdict
    BY <2>7 DEF Check, MoveIdentifiers, MoveMentions, RedirectReviews
  <2> HIDE DEF Stable
  <2> QED BY <2>1, <2>2, <2>3, <2>4, <2>5, <2>6, <2>7 DEF Next, ResolverNext, ReviewNext
<1>2. Spec => [][Stable]_vars
  BY <1>1, InductiveInvariant, PTL DEF Spec
<1> QED BY <1>2 DEF IdentityOnlyMerges

-----------------------------------------------------------------------------
(* One transaction at a time. *)

\* An entity that was not merged is what following its merges ends in.
LEMMA FollowMergesLive ==
  ASSUME NEW e \in Ents, parent[e] = 0
  PROVE  FollowMerges(e) = e
<1> DEFINE up == [f \in Ents |-> IF parent[f] = 0 THEN f ELSE parent[f]]
           Follows(a) == a = [n \in 0 .. 10 |-> IF n = 0 THEN e ELSE up[a[n - 1]]]
<1>1. up[e] = e
  OBVIOUS
<1>2. Follows([n \in 0 .. 10 |-> e])
  <2> HIDE DEF up
  <2>1. \A n \in 0 .. 10 : n = 0 \/ n - 1 \in 0 .. 10
    OBVIOUS
  <2>2. \A n \in 0 .. 10 : (IF n = 0 THEN e ELSE up[[m \in 0 .. 10 |-> e][n - 1]]) = e
    BY <1>1, <2>1
  <2> QED BY <2>2
<1>3. \A a : Follows(a) => a[10] = e
  <2> SUFFICES ASSUME NEW a, Follows(a) PROVE a[10] = e
    OBVIOUS
  <2> HIDE DEF up
  <2>1. \A n \in 1 .. 10 : n - 1 \in 0 .. 10 /\ a[n] = up[a[n - 1]]
    OBVIOUS
  <2>2. a[0] = e
    OBVIOUS
  <2> HIDE DEF Follows
  <2>3. a[1] = e /\ a[2] = e /\ a[3] = e /\ a[4] = e /\ a[5] = e
    BY <1>1, <2>1, <2>2
  <2>4. a[6] = e /\ a[7] = e /\ a[8] = e /\ a[9] = e /\ a[10] = e
    BY <1>1, <2>1, <2>3
  <2> QED BY <2>4
<1>4. FollowMerges(e) = (CHOOSE a : Follows(a))[10]
  BY DEF FollowMerges
<1>5. Follows(CHOOSE a : Follows(a))
  <2> HIDE DEF Follows
  <2> QED BY <1>2
<1> QED BY <1>3, <1>4, <1>5

\* A step that touches no committed row, seen from the one session there is.
LEMMA OpenSerial ==
  ASSUME NEW s \in Sessions, SerialSound(s), UNCHANGED graphVars, NEW t, tx'[s] = t,
         t.at \in {"matching", "adding"} => owner[t.key] = 0,
         t.at \in {"adding", "saving"} /\ t.how # "new" => Live(t.target),
         t.at = "saving" /\ ~ t.claims => t.how = "link" /\ t.target = owner[t.key],
         t.at \in Deciding \ {"checking"} => Live(t.from) /\ Live(t.target),
         t.at \in {"attaching", "redirecting", "merging"} => t.ids = {k \in Emails : owner[k] = t.from},
         t.at \in {"redirecting", "merging"} => t.moved = {m \in mentions : m[2] = t.from},
         t.at = "merging" => {e \in Ents : verdict[e] = "pending" /\ cand[e] = t.from} \subseteq t.rows
  PROVE  SerialSound(s)'
<1>1. \A e : Live(e)' <=> Live(e)
  BY DEF Live, graphVars
<1>2. PendingIsDecidable'
  BY <1>1 DEF SerialSound, PendingIsDecidable, graphVars
<1>3. Affected(s)' = {e \in Ents : verdict[e] = "pending" /\ cand[e] = t.from}
  BY DEF Affected, graphVars
<1> QED BY <1>1, <1>2, <1>3 DEF SerialSound, graphVars

LEMMA ResolvingSerial ==
  ASSUME NEW s \in Sessions, Sessions = {s}, IInv, SerialSound(s), NEW k \in Emails,
         Lookup(s, k) \/ Match(s) \/ AddIdentifier(s)
  PROVE  SerialSound(s)'
<1>1. UNCHANGED graphVars
  BY DEF Lookup, Match, AddIdentifier, graphVars
<1>2. tx[s] \in Transactions /\ tx \in [Sessions -> Transactions] /\ made \in 0 .. MaxEnts
  BY DEF IInv, TypeOK
<1>3. CASE Lookup(s, k) /\ owner[k] # 0
  <2>1. PICK e \in 1 .. made :
          /\ e = FollowMerges(owner[k])
          /\ tx' = [tx EXCEPT ![s] = [Closed(k) EXCEPT !.at = "saving", !.how = "link", !.target = e]]
    BY <1>3 DEF Lookup
  <2>2. Live(owner[k]) /\ owner[k] \in Ents
    BY <1>2, <1>3, BoundAssumption DEF SerialSound, Live, Ents
  <2>3. e = owner[k]
    BY <2>1, <2>2, FollowMergesLive DEF Live
  <2> PICK t : t = [Closed(k) EXCEPT !.at = "saving", !.how = "link", !.target = e]
    OBVIOUS
  <2>4. tx'[s] = t /\ t.at = "saving" /\ t.how = "link" /\ t.target = e /\ t.key = k
    BY <1>2, <2>1 DEF Closed
  <2> QED BY <1>1, <2>2, <2>3, <2>4, OpenSerial DEF Deciding
<1>4. CASE Lookup(s, k) /\ owner[k] = 0
  <2> PICK t : t = [Closed(k) EXCEPT !.at = "matching"]
    OBVIOUS
  <2>1. tx'[s] = t /\ t.at = "matching" /\ t.key = k
    BY <1>2, <1>4 DEF Lookup, Closed
  <2> QED BY <1>1, <1>4, <2>1, OpenSerial DEF Deciding
<1>5. CASE Match(s)
  <2>1. /\ tx[s].at = "matching" /\ tx'[s].at = "adding" /\ tx'[s].key = tx[s].key
        /\ tx'[s].how # "new" => Live(tx'[s].target)
    BY <1>2, <1>5 DEF Match, Transactions
  <2>2. owner[tx[s].key] = 0
    BY <2>1 DEF SerialSound
  <2> QED BY <1>1, <2>1, <2>2, OpenSerial DEF Deciding
<1>6. CASE AddIdentifier(s)
  <2>1. /\ tx[s].at = "adding" /\ tx'[s].at = "saving" /\ tx'[s].key = tx[s].key
        /\ tx'[s].how = tx[s].how /\ tx'[s].target = tx[s].target
        /\ tx'[s].claims = (owner[tx[s].key] = 0)
    BY <1>2, <1>6 DEF AddIdentifier, Transactions
  <2>2. owner[tx[s].key] = 0 /\ (tx[s].how # "new" => Live(tx[s].target))
    BY <2>1 DEF SerialSound
  <2> QED BY <1>1, <2>1, <2>2, OpenSerial DEF Deciding
<1> QED BY <1>3, <1>4, <1>5, <1>6

LEMMA ClosesSerial ==
  ASSUME NEW s \in Sessions, IInv, SerialSound(s), UNCHANGED graphVars, Closes(s)
  PROVE  SerialSound(s)'
<1>1. tx'[s].at = "idle"
  BY DEF Closes, Closed, IInv, TypeOK
<1> QED BY <1>1, OpenSerial DEF Deciding

LEMMA DecidingSerial ==
  ASSUME NEW s \in Sessions, IInv, SerialSound(s), NEW e \in Ents,
         \/ DecideMerged(s, e) \/ Check(s)
         \/ MoveIdentifiers(s) \/ MoveMentions(s) \/ RedirectReviews(s)
  PROVE  SerialSound(s)'
<1>1. UNCHANGED graphVars
  BY DEF DecideMerged, Check, MoveIdentifiers, MoveMentions, RedirectReviews, graphVars
<1>2. tx[s] \in Transactions /\ tx \in [Sessions -> Transactions]
  BY DEF IInv, TypeOK
<1>3. CASE DecideMerged(s, e)
  <2>1. tx'[s].at = "checking"
    BY <1>2, <1>3 DEF DecideMerged, Transactions
  <2> QED BY <1>1, <2>1, OpenSerial DEF Deciding
<1>4. CASE Check(s)
  <2>1. CASE Closes(s)
    BY <1>1, <2>1, ClosesSerial
  <2>2. CASE ~ Closes(s)
    <3>1. /\ tx'[s].at = "moving" /\ tx'[s].from = tx[s].from /\ tx'[s].target = tx[s].target
          /\ Live(tx[s].from) /\ Live(tx[s].target)
      BY <1>2, <1>4, <2>2 DEF Check, Transactions
    <3> QED BY <1>1, <3>1, OpenSerial DEF Deciding
  <2> QED BY <2>1, <2>2
<1>5. CASE MoveIdentifiers(s)
  <2>1. /\ tx[s].at = "moving" /\ tx'[s].at = "attaching"
        /\ tx'[s].from = tx[s].from /\ tx'[s].target = tx[s].target
        /\ tx'[s].ids = {k \in Emails : owner[k] = tx[s].from}
    BY <1>2, <1>5 DEF MoveIdentifiers, Transactions
  <2>2. Live(tx[s].from) /\ Live(tx[s].target)
    BY <2>1 DEF SerialSound, Deciding
  <2> QED BY <1>1, <2>1, <2>2, OpenSerial DEF Deciding
<1>6. CASE MoveMentions(s)
  <2>1. /\ tx[s].at = "attaching" /\ tx'[s].at = "redirecting"
        /\ tx'[s].from = tx[s].from /\ tx'[s].target = tx[s].target /\ tx'[s].ids = tx[s].ids
        /\ tx'[s].moved = {m \in mentions : m[2] = tx[s].from}
    BY <1>2, <1>6 DEF MoveMentions, Transactions
  <2>2. Live(tx[s].from) /\ Live(tx[s].target) /\ tx[s].ids = {k \in Emails : owner[k] = tx[s].from}
    BY <2>1 DEF SerialSound, Deciding
  <2> QED BY <1>1, <2>1, <2>2, OpenSerial DEF Deciding
<1>7. CASE RedirectReviews(s)
  <2>1. /\ tx[s].at = "redirecting" /\ tx'[s].at = "merging"
        /\ tx'[s].from = tx[s].from /\ tx'[s].target = tx[s].target /\ tx'[s].ids = tx[s].ids
        /\ tx'[s].moved = tx[s].moved /\ Affected(s) \subseteq tx'[s].rows
    BY <1>2, <1>7 DEF RedirectReviews, Transactions
  <2>2. /\ Live(tx[s].from) /\ Live(tx[s].target) /\ tx[s].ids = {k \in Emails : owner[k] = tx[s].from}
        /\ tx[s].moved = {m \in mentions : m[2] = tx[s].from}
    BY <2>1 DEF SerialSound, Deciding
  <2> QED BY <1>1, <2>1, <2>2, OpenSerial DEF Deciding, Affected
<1> QED BY <1>3, <1>4, <1>5, <1>6, <1>7

\* A decision of distinct only takes an item out of the queue.
LEMMA DistinctSerial ==
  ASSUME NEW s \in Sessions, IInv, SerialSound(s), NEW e \in Ents, DecideDistinct(s, e)
  PROVE  SerialSound(s)'
<1>1. /\ tx[s].at = "idle" /\ verdict' = [verdict EXCEPT ![e] = "distinct"]
      /\ UNCHANGED <<made, parent, owner, mentions, observed, cand, tx>>
  BY DEF DecideDistinct
<1>2. \A f : Live(f)' <=> Live(f)
  BY <1>1 DEF Live
<1>3. PendingIsDecidable'
  BY <1>1, <1>2 DEF SerialSound, PendingIsDecidable, IInv, TypeOK
<1> QED BY <1>1, <1>2, <1>3 DEF SerialSound, Deciding

\* A resolution ends in a live entity, that of the email's identifier.
LEMMA ResolveSerial ==
  ASSUME NEW s \in Sessions, IInv, SerialSound(s), ResolveCommit(s)
  PROVE  SerialSound(s)'
<1> PICK t \in Transactions : t = tx[s]
  BY DEF IInv, TypeOK
<1> PICK e : e = IF t.how = "link" THEN t.target ELSE made + 1
  OBVIOUS
<1>1. /\ t.at = "saving" /\ e <= MaxEnts
      /\ made' = IF t.how = "link" THEN made ELSE e
      /\ owner' = IF t.claims THEN [owner EXCEPT ![t.key] = e] ELSE owner
      /\ mentions' = mentions \cup {<<t.key, e>>}
      /\ t.how = "queue" => /\ verdict' = [verdict EXCEPT ![e] = "pending"]
                            /\ cand'    = [cand EXCEPT ![e] = t.target]
      /\ t.how # "queue" => verdict' = verdict /\ cand' = cand
      /\ tx' = [tx EXCEPT ![s] = Closed(t.key)]
      /\ parent' = parent
  BY DEF ResolveCommit, Closes
<1>2. /\ t.claims => owner[t.key] = 0
      /\ t.how # "new" => Live(t.target)
      /\ ~ t.claims => t.how = "link" /\ t.target = owner[t.key]
  BY <1>1 DEF SerialSound, IInv, SessionSound
<1>3. t.key \in Emails /\ made \in Nat /\ MaxEnts \in Nat /\ owner \in [Emails -> 0 .. MaxEnts]
  BY BoundAssumption DEF IInv, TypeOK, Transactions
<1>4. e \in Ents /\ (t.how # "link" => e = made + 1 /\ parent[e] = 0)
  <2>1. e \in Ents
    BY <1>1, <1>2, <1>3 DEF Live, Ents
  <2>2. e = made + 1 => verdict[e] = "none"
    BY <1>3, <2>1 DEF IInv, TypeOK, ReviewsSound
  <2>3. e = made + 1 => parent[e] = 0
    BY <2>1, <2>2 DEF IInv, DecisionsMatchMerges
  <2> QED BY <2>1, <2>3
<1>5. (\A f : Live(f) => Live(f)') /\ Live(e)'
  BY <1>1, <1>2, <1>3, <1>4 DEF Live
<1>6. owner'[t.key] = e /\ \A k \in Emails \ {t.key} : owner'[k] = owner[k]
  BY <1>1, <1>2, <1>3
<1>7. ASSUME NEW k \in Emails, owner'[k] # 0 PROVE Live(owner[k])'
  <2>1. CASE k = t.key
    BY <2>1, <1>5, <1>6 DEF Live
  <2>2. CASE k # t.key
    <3>1. owner'[k] = owner[k] /\ Live(owner[k])
      BY <2>2, <1>6, <1>7 DEF SerialSound
    <3> QED BY <3>1, <1>5 DEF Live
  <2> QED BY <2>1, <2>2
<1>8. ASSUME NEW m \in mentions' PROVE m[2] = owner'[m[1]]
  <2>1. CASE m = <<t.key, e>>
    BY <2>1, <1>6
  <2>2. CASE m \in mentions
    <3>1. m[1] \in Emails /\ m[2] \in Ents /\ m[2] = owner[m[1]]
      BY <2>2 DEF SerialSound, IInv, TypeOK
    <3>2. m[1] = t.key => ~ t.claims
      BY <3>1, <1>2 DEF Ents
    <3> QED BY <3>1, <3>2, <1>1, <1>6
  <2> QED BY <2>1, <2>2, <1>1
<1>9. PendingIsDecidable'
  <2> SUFFICES ASSUME NEW f \in Ents, verdict'[f] = "pending" PROVE Live(f)' /\ Live(cand[f])'
    BY DEF PendingIsDecidable
  <2>1. CASE f = e /\ t.how = "queue"
    <3>1. cand'[f] = t.target
      BY <2>1, <1>1 DEF IInv, TypeOK
    <3> QED BY <2>1, <3>1, <1>2, <1>5 DEF Live
  <2>2. CASE ~ (f = e /\ t.how = "queue")
    <3>1. verdict[f] = "pending" /\ cand'[f] = cand[f]
      BY <2>2, <1>1 DEF IInv, TypeOK
    <3> QED BY <3>1, <1>5 DEF SerialSound, PendingIsDecidable, Live
  <2> QED BY <2>1, <2>2
<1>10. tx'[s].at = "idle"
  BY <1>1 DEF IInv, TypeOK, Closed
<1> QED BY <1>7, <1>8, <1>9, <1>10 DEF SerialSound, Deciding

\* A merge moves all that refers to the merged entity to the live one.
LEMMA MergeSerial ==
  ASSUME NEW s \in Sessions, IInv, SerialSound(s), MergeCommit(s)
  PROVE  SerialSound(s)'
<1> PICK t \in Transactions : t = tx[s]
  BY DEF IInv, TypeOK
<1>1. /\ t.at = "merging"
      /\ parent' = [parent EXCEPT ![t.from] = t.target]
      /\ owner'  = [k \in Emails |-> IF k \in t.ids THEN t.target ELSE owner[k]]
      /\ mentions' = (mentions \ t.moved) \cup {<<m[1], t.target>> : m \in t.moved}
      /\ verdict' = [e \in Ents |-> IF e = t.from THEN "merged"
                                    ELSE IF e \in t.rows /\ e = t.target THEN "distinct"
                                    ELSE verdict[e]]
      /\ cand' = [e \in Ents |-> IF e \in t.rows \ {t.from, t.target} THEN t.target ELSE cand[e]]
      /\ tx' = [tx EXCEPT ![s] = Closed(t.key)]
      /\ made' = made
  BY DEF MergeCommit, Closes
<1>2. /\ Live(t.from) /\ Live(t.target)
      /\ t.ids = {k \in Emails : owner[k] = t.from}
      /\ t.moved = {m \in mentions : m[2] = t.from}
      /\ {e \in Ents : verdict[e] = "pending" /\ cand[e] = t.from} \subseteq t.rows
  BY <1>1 DEF SerialSound, Deciding, Affected
<1>3. /\ t.from \in Ents /\ t.target \in Ents /\ t.from # t.target
      /\ \A e \in t.rows : verdict[e] = "pending" /\ (e = t.from \/ cand[e] = t.from)
      /\ t.rows \subseteq Ents
  <2>1. t.target \in 1 .. t.from - 1 /\ t.from \in 0 .. MaxEnts /\ t.rows \subseteq Ents
    BY <1>1 DEF IInv, SessionSound, Deciding, Transactions
  <2> QED BY <2>1, BoundAssumption DEF IInv, SessionSound, Ents
<1>4. parent \in [Ents -> 0 .. MaxEnts] /\ made \in 0 .. MaxEnts /\ MaxEnts \in Nat
  BY BoundAssumption DEF IInv, TypeOK
<1>5. \A f : Live(f) /\ f # t.from => Live(f)'
  BY <1>1, <1>3, <1>4 DEF Live, Ents
<1>6. ASSUME NEW k \in Emails, owner'[k] # 0 PROVE Live(owner[k])'
  <2>1. CASE k \in t.ids
    <3>1. owner'[k] = t.target
      BY <2>1, <1>1
    <3> QED BY <3>1, <1>2, <1>3, <1>5 DEF Live
  <2>2. CASE k \notin t.ids
    <3>1. owner'[k] = owner[k] /\ owner[k] # t.from /\ Live(owner[k])
      BY <2>2, <1>1, <1>2, <1>6 DEF SerialSound
    <3> QED BY <3>1, <1>5 DEF Live
  <2> QED BY <2>1, <2>2
<1>7. ASSUME NEW m \in mentions' PROVE m[2] = owner'[m[1]]
  <2>1. CASE m \in mentions \ t.moved
    <3>1. m[1] \in Emails /\ m[2] = owner[m[1]] /\ m[2] # t.from
      BY <2>1, <1>2 DEF SerialSound, IInv, TypeOK
    <3> QED BY <3>1, <1>1, <1>2
  <2>2. ASSUME NEW n \in t.moved, m = <<n[1], t.target>> PROVE m[2] = owner'[m[1]]
    <3>1. n[1] \in Emails /\ owner[n[1]] = t.from
      BY <2>2, <1>2 DEF SerialSound, IInv, TypeOK
    <3> QED BY <2>2, <3>1, <1>1, <1>2
  <2> QED BY <2>1, <2>2, <1>1
<1>8. PendingIsDecidable'
  <2> SUFFICES ASSUME NEW f \in Ents, verdict'[f] = "pending" PROVE Live(f)' /\ Live(cand[f])'
    BY DEF PendingIsDecidable
  <2>1. f # t.from /\ verdict[f] = "pending" /\ ~ (f \in t.rows /\ f = t.target)
    BY <1>1
  <2>2. Live(f)' /\ Live(cand[f])
    BY <2>1, <1>5 DEF SerialSound, PendingIsDecidable
  <2>3. CASE f \in t.rows
    <3>1. cand'[f] = t.target
      BY <2>1, <2>3, <1>1
    <3> QED BY <2>2, <3>1, <1>2, <1>3, <1>5 DEF Live
  <2>4. CASE f \notin t.rows
    <3>1. cand'[f] = cand[f] /\ cand[f] # t.from
      BY <2>1, <2>4, <1>1, <1>2
    <3> QED BY <2>2, <3>1, <1>5 DEF Live
  <2> QED BY <2>3, <2>4
<1>9. tx'[s].at = "idle"
  BY <1>1 DEF IInv, TypeOK, Closed
<1> QED BY <1>6, <1>7, <1>8, <1>9 DEF SerialSound, Deciding

\* One transaction at a time keeps the graph whole.
LEMMA SerialInvariant ==
  ASSUME NEW s, Sessions = {s}
  PROVE  Spec => []SerialSound(s)
<1>1. Init => SerialSound(s)
  <2> SUFFICES ASSUME Init PROVE SerialSound(s)
    OBVIOUS
  <2>1. tx[s].at = "idle"
    BY DEF Init, Closed
  <2> QED BY <2>1 DEF Init, SerialSound, PendingIsDecidable, Deciding
<1>2. IInv /\ SerialSound(s) /\ [Next]_vars => SerialSound(s)'
  <2> SUFFICES ASSUME IInv, SerialSound(s), [Next]_vars PROVE SerialSound(s)'
    OBVIOUS
  <2>0. \E k : k \in Emails
    BY DEF IInv, TypeOK, Transactions
  <2>1. ASSUME NEW k \in Emails, Lookup(s, k) \/ Match(s) \/ AddIdentifier(s) PROVE SerialSound(s)'
    BY <2>1, ResolvingSerial
  <2>2. CASE ResolveCommit(s)
    BY <2>2, ResolveSerial
  <2>3. ASSUME NEW e \in Ents, DecideMerged(s, e) \/ DecideDistinct(s, e) PROVE SerialSound(s)'
    BY <2>3, DecidingSerial, DistinctSerial
  <2>4. CASE Check(s) \/ MoveIdentifiers(s) \/ MoveMentions(s) \/ RedirectReviews(s)
    <3>1. \E e : e \in Ents
      <4>1. tx[s] \in Transactions /\ tx[s].at \in Deciding /\ tx[s].from \in tx[s].rows
        BY <2>4 DEF IInv, TypeOK, SessionSound, Deciding, Check, MoveIdentifiers, MoveMentions, RedirectReviews
      <4> QED BY <4>1 DEF Transactions
    <3> QED BY <2>4, <3>1, DecidingSerial
  <2>5. CASE MergeCommit(s)
    BY <2>5, MergeSerial
  <2>6. CASE Rollback(s)
    BY <2>6, ClosesSerial DEF Rollback, graphVars
  <2>7. CASE UNCHANGED vars
    <3>1. UNCHANGED graphVars /\ tx' = tx
      BY <2>7 DEF vars, graphVars
    <3>2. \A e : Live(e)' <=> Live(e)
      BY <3>1 DEF Live, graphVars
    <3>3. PendingIsDecidable' /\ Affected(s)' = Affected(s)
      BY <3>1, <3>2 DEF SerialSound, PendingIsDecidable, Affected, graphVars
    <3> QED BY <3>1, <3>2, <3>3 DEF SerialSound, graphVars
  <2> QED BY <2>0, <2>1, <2>2, <2>3, <2>4, <2>5, <2>6, <2>7 DEF Next, ResolverNext, ReviewNext
<1> QED BY <1>1, <1>2, InductiveInvariant, PTL DEF Spec

\* When resolutions and reviews follow each other, a merge leaves no identifier,
\* participant, user, person, deal or edge at the merged entity.  Of sourcing's
\* rows, which merge_entities does not move, the theorem says nothing.
THEOREM SerialMergesAreComplete ==
  ASSUME NEW s, Sessions = {s}
  PROVE  Spec => []NothingLeftBehind
<1>1. IInv /\ SerialSound(s) => NothingLeftBehind
  <2> SUFFICES ASSUME IInv, SerialSound(s), NEW e \in Ents, parent[e] # 0
               PROVE  (\A k \in Emails : owner[k] # e) /\ (\A m \in mentions : m[2] # e)
    BY DEF NothingLeftBehind
  <2>1. \A k \in Emails : owner[k] # e
    BY DEF SerialSound, Live, Ents
  <2>2. \A m \in mentions : m[1] \in Emails /\ m[2] = owner[m[1]]
    BY DEF SerialSound, IInv, TypeOK
  <2> QED BY <2>1, <2>2
<1> QED BY <1>1, InductiveInvariant, SerialInvariant, PTL

\* Every item in the review queue can be decided, one transaction at a time.
THEOREM SerialQueueIsDecidable ==
  ASSUME NEW s, Sessions = {s}
  PROVE  Spec => []PendingIsDecidable
<1>1. SerialSound(s) => PendingIsDecidable
  BY DEF SerialSound
<1> QED BY <1>1, SerialInvariant, PTL

\* "An email address already on file maps to exactly one entity", one
\* transaction at a time.
THEOREM SerialOneEntityPerEmail ==
  ASSUME NEW s, Sessions = {s}
  PROVE  Spec => []OneEntityPerEmail
<1>1. SerialSound(s) => OneEntityPerEmail
  BY DEF SerialSound, OneEntityPerEmail
<1> QED BY <1>1, SerialInvariant, PTL
=============================================================================
